---------------------------- MODULE RefreshTokens ----------------------------
(***************************************************************************)
(* TokenService (src/auth/services/token.service.ts): signed tokens, the   *)
(* refresh keys and the blacklist it keeps in Redis, and their lifetimes.  *)
(*                                                                         *)
(* A JWT counts whole seconds, Redis milliseconds: the clock of the model  *)
(* ticks TicksPerSecond times a second.  An action is one Redis command    *)
(* with the synchronous code before or after it.                           *)
(***************************************************************************)
EXTENDS Integers, Tables

CONSTANTS
    Tokens,          \* the jtis uuidv4() may return
    Calls,           \* slots for the calls in progress
    AccessTTL,       \* JWT_ACCESS_TTL_SEC
    RefreshTTL,      \* JWT_REFRESH_TTL_SEC
    RevokeTTLs,      \* the ttlSeconds with which revokeJti is called
    TicksPerSecond,
    MaxClock         \* bound: the last tick of the model's clock

ASSUME LifetimesAssumption ==
    /\ AccessTTL \in Nat \ {0}
    /\ RefreshTTL \in Nat \ {0}
    /\ RevokeTTLs \subseteq Nat \ {0}
ASSUME RefreshClockAssumption == TicksPerSecond \in Nat \ {0} /\ MaxClock \in Nat

VARIABLES
    now,             \* Date.now()
    tokens,          \* the tokens handed out: jti -> exp, in seconds
    refresh,         \* keys refresh:<jti>: jti -> the tick they expire at
    blacklist,       \* keys jti:blacklist:<jti>: likewise
    call,            \* per slot: the Redis command a call awaits, with its locals
    exchanges,       \* history: how many consume calls have returned, per jti
    revoked          \* history: the jtis whose revokeJti has returned

vars == <<now, tokens, refresh, blacklist, call, exchanges, revoked>>

-----------------------------------------------------------------------------

Awaiting ==
    [at : {"free"}] \cup
    [at : {"store"}, token : Tokens, exp : Nat] \cup   \* createRefreshToken
    [at : {"ask", "get", "del"}, token : Tokens] \cup  \* verifyAndConsumeRefreshToken
    [at : {"mark"}, token : Tokens, ttl : Nat \ {0}] \cup
    [at : {"erase"}, token : Tokens]                   \* revokeJti

TypeOK ==
    /\ now \in Nat
    /\ DOMAIN tokens \subseteq Tokens /\ tokens \in [DOMAIN tokens -> Nat]
    /\ DOMAIN refresh \subseteq Tokens /\ refresh \in [DOMAIN refresh -> Nat]
    /\ DOMAIN blacklist \subseteq Tokens /\ blacklist \in [DOMAIN blacklist -> Nat]
    /\ call \in [Calls -> Awaiting]
    /\ exchanges \in [Tokens -> Nat]
    /\ revoked \subseteq Tokens

Init ==
    /\ now = 0
    /\ tokens = Empty
    /\ refresh = Empty
    /\ blacklist = Empty
    /\ call = [c \in Calls |-> [at |-> "free"]]
    /\ exchanges = [j \in Tokens |-> 0]
    /\ revoked = {}

-----------------------------------------------------------------------------

\* Math.floor(Date.now() / 1000), in jsonwebtoken and on line 132.
Second == now \div TicksPerSecond

\* SET key value EX ttl: the tick at which the key expires.
ExpiresIn(ttl) == now + ttl * TicksPerSecond

\* GET finds the key.
Present(keys, j) == j \in DOMAIN keys /\ now < keys[j]

\* jwt.verify: the signature is the service's own and exp has not come.
Verified(j) == j \in DOMAIN tokens /\ Second < tokens[j]

\* verifyAccessToken returns the payload, if it looks at the clock and at the
\* blacklist in one moment; a refresh token passes like any other.
Accepted(j) == Verified(j) /\ ~Present(blacklist, j)

Goto(c, k) == call' = [call EXCEPT ![c] = k]
Ends(c) == Goto(c, [at |-> "free"])

\* A jti that no token and no createRefreshToken under way has.
Unused(j) ==
    /\ j \notin DOMAIN tokens \cup DOMAIN refresh
    /\ \A c \in Calls : call[c].at = "store" => call[c].token # j

-----------------------------------------------------------------------------

\* createAccessToken awaits nothing.
CreateAccess(j) ==
    /\ Unused(j)
    /\ tokens' = Put(tokens, j, Second + AccessTTL)
    /\ UNCHANGED <<now, refresh, blacklist, call, exchanges, revoked>>

\* createRefreshToken: the token is signed ...
CreateRefresh(c, j) ==
    /\ call[c].at = "free"
    /\ Unused(j)
    /\ Goto(c, [at |-> "store", token |-> j, exp |-> Second + RefreshTTL])
    /\ UNCHANGED <<now, tokens, refresh, blacklist, exchanges, revoked>>

\* Mutant of Store: the key gets the lifetime of an access token.
StoreBriefly(c, replied) ==
    /\ call[c].at = "store"
    /\ refresh' = Put(refresh, call[c].token, ExpiresIn(AccessTTL))
    /\ tokens' = Put(tokens, call[c].token, call[c].exp)
    /\ Ends(c)
    /\ UNCHANGED <<now, blacklist, exchanges, revoked>>

\* ... its key is set, and it is handed out unless Redis's reply is lost.
Store(c, replied) ==
    /\ call[c].at = "store"
    /\ refresh' = Put(refresh, call[c].token, ExpiresIn(RefreshTTL))
    /\ IF replied THEN tokens' = Put(tokens, call[c].token, call[c].exp)
                  ELSE UNCHANGED tokens
    /\ Ends(c)
    /\ UNCHANGED <<now, blacklist, exchanges, revoked>>

\* verifyAndConsumeRefreshToken: jwt.verify, which throws without an effect.
Consume(c, j) ==
    /\ call[c].at = "free"
    /\ Verified(j)
    /\ Goto(c, [at |-> "ask", token |-> j])
    /\ UNCHANGED <<now, tokens, refresh, blacklist, exchanges, revoked>>

\* GET jti:blacklist:<jti>; the token may have expired since jwt.verify.
AskBlacklist(c) ==
    /\ call[c].at = "ask"
    /\ \/ ~Present(blacklist, call[c].token) /\ Goto(c, [at |-> "get", token |-> call[c].token])
       \/ Present(blacklist, call[c].token) /\ Ends(c)
    /\ UNCHANGED <<now, tokens, refresh, blacklist, exchanges, revoked>>

\* Mutant of GetKey: the blacklist is trusted to know.
GetNothing(c) ==
    /\ call[c].at = "get"
    /\ Goto(c, [at |-> "del", token |-> call[c].token])
    /\ UNCHANGED <<now, tokens, refresh, blacklist, exchanges, revoked>>

\* GET refresh:<jti>.
GetKey(c) ==
    /\ call[c].at = "get"
    /\ \/ Present(refresh, call[c].token) /\ Goto(c, [at |-> "del", token |-> call[c].token])
       \/ ~Present(refresh, call[c].token) /\ Ends(c)
    /\ UNCHANGED <<now, tokens, refresh, blacklist, exchanges, revoked>>

\* Mutant of Remaining: the seconds left are rounded down.
RemainingRoundedDown(j) ==
    LET left == (tokens[j] * TicksPerSecond - now) \div TicksPerSecond IN
    IF left > 1 THEN left ELSE 1

\* Mutant of Remaining: no lower bound, though SET refuses EX 0.
RemainingUnbounded(j) == tokens[j] - Second

\* The lifetime of the blacklist entry: the seconds left, at least one.
Remaining(j) == LET left == tokens[j] - Second IN IF left > 1 THEN left ELSE 1

\* DEL, whose count is not looked at; then the clock is read.
DelKey(c) ==
    /\ call[c].at = "del"
    /\ refresh' = Drop(refresh, {call[c].token})
    /\ Goto(c, [at |-> "mark", token |-> call[c].token, ttl |-> Remaining(call[c].token)])
    /\ UNCHANGED <<now, tokens, blacklist, exchanges, revoked>>

\* SET jti:blacklist:<jti>, and the call returns unless the reply is lost.
Mark(c, replied) ==
    /\ call[c].at = "mark"
    /\ blacklist' = Put(blacklist, call[c].token, ExpiresIn(call[c].ttl))
    /\ IF replied THEN exchanges' = [exchanges EXCEPT ![call[c].token] = @ + 1]
                  ELSE UNCHANGED exchanges
    /\ Ends(c)
    /\ UNCHANGED <<now, tokens, refresh, revoked>>

\* revokeJti: SET jti:blacklist:<jti>, over the entry there is, if any ...
Revoke(c, j, ttl) ==
    /\ call[c].at = "free"
    /\ j \in DOMAIN tokens
    /\ blacklist' = Put(blacklist, j, ExpiresIn(ttl))
    /\ Goto(c, [at |-> "erase", token |-> j])
    /\ UNCHANGED <<now, tokens, refresh, exchanges, revoked>>

\* ... and DEL refresh:<jti>.
Erase(c, replied) ==
    /\ call[c].at = "erase"
    /\ refresh' = Drop(refresh, {call[c].token})
    /\ revoked' = IF replied THEN revoked \cup {call[c].token} ELSE revoked
    /\ Ends(c)
    /\ UNCHANGED <<now, tokens, blacklist, exchanges>>

\* A Redis command is rejected, or the process dies under the call; what the
\* call has written so far remains.
Fail(c) ==
    /\ call[c].at # "free"
    /\ Ends(c)
    /\ UNCHANGED <<now, tokens, refresh, blacklist, exchanges, revoked>>

Tick ==
    /\ now < MaxClock
    /\ now' = now + 1
    /\ UNCHANGED <<tokens, refresh, blacklist, call, exchanges, revoked>>

\* What a caller starts: the services that would are not written yet.
Begin(c) ==
    \/ \E j \in Tokens : CreateRefresh(c, j) \/ Consume(c, j)
    \/ \E j \in Tokens, ttl \in RevokeTTLs : Revoke(c, j, ttl)

\* What a call under way does next.
Continue(c) ==
    \/ AskBlacklist(c)
    \/ GetKey(c)
    \/ DelKey(c)
    \/ \E replied \in BOOLEAN : Store(c, replied) \/ Mark(c, replied) \/ Erase(c, replied)

Next ==
    \/ \E j \in Tokens : CreateAccess(j)
    \/ \E c \in Calls : Begin(c) \/ Continue(c) \/ Fail(c)
    \/ Tick

Spec == Init /\ [][Next]_vars

-----------------------------------------------------------------------------

\* Token j is closed: its refresh key is gone or over, and no exchange is past
\* its look at that key.
Closed(j) ==
    /\ j \in DOMAIN tokens
    /\ ~Present(refresh, j)
    /\ \A c \in Calls : call[c].at \in {"del", "mark"} => call[c].token # j

(* A closed token is never exchanged again: not by a retry of an exchange     *)
(* that failed half-way, not when its blacklist entry has expired or was      *)
(* overwritten by a shorter one (lines 124-135, 140-143).                     *)
ClosedStaysClosed ==
    [][\A j \in Tokens : Closed(j) =>
          Closed(j)' /\ exchanges'[j] = exchanges[j]]_vars

\* Call c is between its look at token j's key and the end of its exchange.
AtKey(c, j) == call[c].at \in {"del", "mark"} /\ call[c].token = j

(* Exchanges keep the promises of RefreshTokensContract: a token is closed by *)
(* its key's expiry, by the DEL of an exchange or by a revocation, for good;  *)
(* each exchange that returns is by a call that found the key, and by then    *)
(* the key is gone (lines 126-135).                                           *)
Contract == INSTANCE RefreshTokensContract WITH
    Parties   <- Calls,
    issued    <- DOMAIN tokens,
    open      <- {j \in DOMAIN tokens : Present(refresh, j)},
    claims    <- {x \in Tokens \X Calls : AtKey(x[2], x[1])},
    exchanged <- exchanges
ImplementsContract == Contract!Spec

(* A token that has been exchanged or revoked is refused by                   *)
(* verifyAccessToken from then on: the blacklist entry, whose lifetime is     *)
(* computed in whole seconds before it is set, lasts until the token itself   *)
(* expires (lines 104, 132-135).  Needs RevokeTTLs to cover a token's life.   *)
UsedIsRefused ==
    \A j \in Tokens : exchanges[j] > 0 \/ j \in revoked => ~Accepted(j)

(* A refresh key that nobody deletes is there as long as its JWT is valid:    *)
(* the token is never rejected for a key that Redis has let expire, although  *)
(* exp counts from the signature, in whole seconds (lines 88-90).             *)
KeyOutlivesToken ==
    \A j \in DOMAIN tokens \cap DOMAIN refresh : Verified(j) => Present(refresh, j)

(* The inductive invariant behind the three.  A call under way is about a     *)
(* token that has been handed out, or is alone in creating its own.           *)
CallsKnow ==
    \A c \in Calls :
        /\ call[c].at \in {"ask", "get", "del", "mark", "erase"} => call[c].token \in DOMAIN tokens
        /\ call[c].at = "store" =>
              /\ call[c].token \notin DOMAIN tokens
              /\ \A d \in Calls \ {c} :
                    call[d].at = "store" => call[d].token # call[c].token

\* A refresh key outlasts its token, as one that is set now will.
KeysCover ==
    /\ \A c \in Calls : call[c].at = "store" => call[c].exp <= Second + RefreshTTL
    /\ \A j \in DOMAIN tokens \cap DOMAIN refresh :
          tokens[j] * TicksPerSecond <= refresh[j]

\* Every entry of the blacklist, set or about to be set, outlasts its token,
\* as a revocation that starts now would; what is used or revoked has one.
EntriesCover ==
    /\ \A ttl \in RevokeTTLs :
          /\ \A j \in DOMAIN tokens : tokens[j] <= Second + ttl
          /\ \A c \in Calls : call[c].at = "store" => call[c].exp <= Second + ttl
    /\ \A j \in DOMAIN blacklist :
          j \in DOMAIN tokens /\ tokens[j] * TicksPerSecond <= blacklist[j]
    /\ \A c \in Calls :
          /\ call[c].at = "mark" => tokens[call[c].token] <= Second + call[c].ttl
          /\ call[c].at = "erase" => call[c].token \in DOMAIN blacklist
    /\ \A j \in Tokens : exchanges[j] > 0 \/ j \in revoked => j \in DOMAIN blacklist

IInv == TypeOK /\ CallsKnow /\ KeysCover /\ EntriesCover

(* token.service.ts:128 answers an exchange of a consumed token with          *)
(* "refresh_token_invalid_or_consumed": a token is exchanged once.            *)
ConsumedOnce == \A j \in Tokens : exchanges[j] <= 1

\* No two exchanges of a token are between their GET of its key and their DEL
\* of it.
NoRace ==
    \A c, d \in Calls :
        call[c].at = "del" /\ call[d].at = "del" /\ call[c].token = call[d].token => c = d
=============================================================================
