-------------------------- MODULE RefreshTokensProofs --------------------------
(***************************************************************************)
(* Theorems about RefreshTokens, for any number of tokens and calls and    *)
(* any lifetimes.                                                          *)
(***************************************************************************)
EXTENDS RefreshTokens, TLAPS

(* A caller of revokeJti passes at least the lifetime of any token.           *)
Covering == \A ttl \in RevokeTTLs : ttl >= AccessTTL /\ ttl >= RefreshTTL

-----------------------------------------------------------------------------

LEMMA EmptyProperties ==
    /\ DOMAIN Empty = {}
    /\ \A S : Empty \in [DOMAIN Empty -> S]
BY DEF Empty

LEMMA InitType == Init => TypeOK
BY EmptyProperties DEF Init, TypeOK, Awaiting

LEMMA SecondType == ASSUME TypeOK PROVE Second \in Nat
BY RefreshClockAssumption DEF TypeOK, Second

(* What a call under way knows, by what it awaits. *)
LEMMA CallType ==
    ASSUME TypeOK, NEW c \in Calls
    PROVE  /\ call[c].at \in {"free", "store", "ask", "get", "del", "mark", "erase"}
           /\ call[c].at # "free" => call[c].token \in Tokens
           /\ call[c].at = "store" => call[c].exp \in Nat
           /\ call[c].at = "mark" => call[c].ttl \in Nat \ {0}
<1>1. call[c] \in Awaiting
  BY DEF TypeOK
<1> QED BY <1>1 DEF Awaiting

LEMMA GotoType ==
    ASSUME TypeOK, NEW c \in Calls, NEW k \in Awaiting, Goto(c, k)
    PROVE  call' \in [Calls -> Awaiting]
BY DEF Goto, TypeOK

LEMMA PutType ==
    ASSUME NEW t, DOMAIN t \subseteq Tokens, t \in [DOMAIN t -> Nat],
           NEW j \in Tokens, NEW v \in Nat
    PROVE  /\ DOMAIN Put(t, j, v) \subseteq Tokens
           /\ Put(t, j, v) \in [DOMAIN Put(t, j, v) -> Nat]
BY DEF Put

LEMMA DropType ==
    ASSUME NEW t, DOMAIN t \subseteq Tokens, t \in [DOMAIN t -> Nat], NEW K
    PROVE  /\ DOMAIN Drop(t, K) \subseteq Tokens
           /\ Drop(t, K) \in [DOMAIN Drop(t, K) -> Nat]
BY DEF Drop

LEMMA ExpiryType == ASSUME TypeOK, NEW ttl \in Nat PROVE ExpiresIn(ttl) \in Nat
BY RefreshClockAssumption DEF TypeOK, ExpiresIn

LEMMA RemainingType ==
    ASSUME TypeOK, NEW j \in DOMAIN tokens
    PROVE  Remaining(j) \in Nat \ {0} /\ tokens[j] <= Second + Remaining(j)
<1>1. tokens[j] \in Nat /\ Second \in Nat
  BY SecondType DEF TypeOK
<1> QED BY <1>1 DEF Remaining

-----------------------------------------------------------------------------

LEMMA InitKnows == Init => CallsKnow
BY DEF Init, CallsKnow

(* The next state of the calls: a step is about one call or about none.       *)
LEMMA OthersKept ==
    ASSUME TypeOK, NEW c \in Calls, NEW k, Goto(c, k)
    PROVE  /\ call'[c] = k
           /\ \A d \in Calls \ {c} : call'[d] = call[d]
BY DEF Goto, TypeOK

LEMMA TypeStep == TypeOK /\ CallsKnow /\ [Next]_vars => TypeOK'
<1> SUFFICES ASSUME TypeOK, CallsKnow, [Next]_vars PROVE TypeOK'
  OBVIOUS
<1> DEFINE IsTable(t) == DOMAIN t \subseteq Tokens /\ t \in [DOMAIN t -> Nat]
<1>0. /\ now \in Nat /\ Second \in Nat /\ revoked \subseteq Tokens
      /\ IsTable(tokens) /\ IsTable(refresh) /\ IsTable(blacklist)
      /\ call \in [Calls -> Awaiting] /\ exchanges \in [Tokens -> Nat]
  BY SecondType DEF TypeOK
<1>1. CASE UNCHANGED vars
  BY <1>1 DEF TypeOK, vars
<1>2. ASSUME NEW j \in Tokens, CreateAccess(j) PROVE TypeOK'
  <2>1. Second + AccessTTL \in Nat
    BY <1>0, LifetimesAssumption
  <2>2. IsTable(tokens')
    BY <1>0, <1>2, <2>1, PutType DEF CreateAccess
  <2> QED BY <1>0, <1>2, <2>2 DEF CreateAccess, TypeOK
<1>3. ASSUME NEW c \in Calls, NEW j \in Tokens, CreateRefresh(c, j) PROVE TypeOK'
  <2>1. Second + RefreshTTL \in Nat
    BY <1>0, LifetimesAssumption
  <2>2. [at |-> "store", token |-> j, exp |-> Second + RefreshTTL] \in Awaiting
    BY <2>1 DEF Awaiting
  <2>3. call' \in [Calls -> Awaiting]
    BY <1>3, <2>2, GotoType DEF CreateRefresh
  <2> QED BY <1>0, <1>3, <2>3 DEF CreateRefresh, TypeOK
<1>4. ASSUME NEW c \in Calls, NEW j \in Tokens, Consume(c, j) PROVE TypeOK'
  <2>1. [at |-> "ask", token |-> j] \in Awaiting
    BY DEF Awaiting
  <2>2. call' \in [Calls -> Awaiting]
    BY <1>4, <2>1, GotoType DEF Consume
  <2> QED BY <1>0, <1>4, <2>2 DEF Consume, TypeOK
<1>5. ASSUME NEW c \in Calls, NEW j \in Tokens, NEW ttl \in RevokeTTLs, Revoke(c, j, ttl)
      PROVE  TypeOK'
  <2>1. [at |-> "erase", token |-> j] \in Awaiting
    BY DEF Awaiting
  <2>2. call' \in [Calls -> Awaiting]
    BY <1>5, <2>1, GotoType DEF Revoke
  <2>3. ExpiresIn(ttl) \in Nat
    BY ExpiryType, LifetimesAssumption
  <2>4. IsTable(blacklist')
    BY <1>0, <1>5, <2>3, PutType DEF Revoke
  <2> QED BY <1>0, <1>5, <2>2, <2>4 DEF Revoke, TypeOK
<1>6. ASSUME NEW c \in Calls, GetKey(c) PROVE TypeOK'
  <2>1. call[c].token \in Tokens
    BY <1>6, CallType DEF GetKey
  <2>2. [at |-> "del", token |-> call[c].token] \in Awaiting /\ [at |-> "free"] \in Awaiting
    BY <2>1 DEF Awaiting
  <2>3. call' \in [Calls -> Awaiting]
    BY <1>6, <2>2, GotoType DEF GetKey, Ends
  <2> QED BY <1>0, <1>6, <2>3 DEF GetKey, TypeOK
<1>7. ASSUME NEW c \in Calls, DelKey(c) PROVE TypeOK'
  <2> DEFINE j == call[c].token
  <2>1. j \in Tokens /\ Remaining(j) \in Nat \ {0}
    BY <1>0, <1>7, CallType, RemainingType DEF DelKey, CallsKnow
  <2>2. [at |-> "mark", token |-> j, ttl |-> Remaining(j)] \in Awaiting
    BY <2>1 DEF Awaiting
  <2>3. call' \in [Calls -> Awaiting]
    BY <1>7, <2>2, GotoType DEF DelKey
  <2>4. IsTable(refresh')
    BY <1>0, <1>7, DropType DEF DelKey
  <2> QED BY <1>0, <1>7, <2>3, <2>4 DEF DelKey, TypeOK
<1>8. [at |-> "free"] \in Awaiting
  BY DEF Awaiting
<1>9. ASSUME NEW c \in Calls, NEW replied \in BOOLEAN, Store(c, replied) PROVE TypeOK'
  <2>1. call[c].token \in Tokens /\ call[c].exp \in Nat
    BY <1>9, CallType DEF Store
  <2>2. call' \in [Calls -> Awaiting]
    BY <1>8, <1>9, GotoType DEF Store, Ends
  <2>3. IsTable(refresh')
    BY <1>0, <1>9, <2>1, PutType, ExpiryType, LifetimesAssumption DEF Store
  <2>4. IsTable(tokens')
    BY <1>0, <1>9, <2>1, PutType DEF Store
  <2> QED BY <1>0, <1>9, <2>2, <2>3, <2>4 DEF Store, TypeOK
<1>10. ASSUME NEW c \in Calls, NEW replied \in BOOLEAN, Mark(c, replied) PROVE TypeOK'
  <2>1. call[c].token \in Tokens /\ call[c].ttl \in Nat
    BY <1>10, CallType DEF Mark
  <2>2. call' \in [Calls -> Awaiting]
    BY <1>8, <1>10, GotoType DEF Mark, Ends
  <2>3. IsTable(blacklist')
    BY <1>0, <1>10, <2>1, PutType, ExpiryType DEF Mark
  <2>4. exchanges' \in [Tokens -> Nat]
    BY <1>0, <1>10, <2>1 DEF Mark
  <2> QED BY <1>0, <1>10, <2>2, <2>3, <2>4 DEF Mark, TypeOK
<1>11. ASSUME NEW c \in Calls, NEW replied \in BOOLEAN, Erase(c, replied) PROVE TypeOK'
  <2>1. call[c].token \in Tokens
    BY <1>11, CallType DEF Erase
  <2>2. call' \in [Calls -> Awaiting]
    BY <1>8, <1>11, GotoType DEF Erase, Ends
  <2>3. IsTable(refresh')
    BY <1>0, <1>11, DropType DEF Erase
  <2> QED BY <1>0, <1>11, <2>1, <2>2, <2>3 DEF Erase, TypeOK
<1>12. ASSUME NEW c \in Calls, Fail(c) PROVE TypeOK'
  BY <1>0, <1>8, <1>12, GotoType DEF Fail, Ends, TypeOK
<1>13. CASE Tick
  BY <1>0, <1>13 DEF Tick, TypeOK
<1>14. ASSUME NEW c \in Calls, AskBlacklist(c) PROVE TypeOK'
  <2>1. call[c].token \in Tokens
    BY <1>14, CallType DEF AskBlacklist
  <2>2. [at |-> "get", token |-> call[c].token] \in Awaiting
    BY <2>1 DEF Awaiting
  <2>3. call' \in [Calls -> Awaiting]
    BY <1>8, <1>14, <2>2, GotoType DEF AskBlacklist, Ends
  <2> QED BY <1>0, <1>14, <2>3 DEF AskBlacklist, TypeOK
<1> QED BY <1>1, <1>2, <1>3, <1>4, <1>5, <1>6, <1>7, <1>9, <1>10, <1>11, <1>12, <1>13, <1>14
           DEF Next, Begin, Continue

(* Tokens are handed out for good. *)
LEMMA TokensKept ==
    ASSUME CallsKnow, [Next]_vars
    PROVE  /\ DOMAIN tokens \subseteq DOMAIN tokens'
           /\ \A j \in DOMAIN tokens : tokens'[j] = tokens[j]
<1>1. ASSUME NEW c \in Calls, NEW replied \in BOOLEAN, Store(c, replied)
      PROVE  /\ DOMAIN tokens \subseteq DOMAIN tokens'
             /\ \A j \in DOMAIN tokens : tokens'[j] = tokens[j]
  BY <1>1 DEF Store, CallsKnow, Put
<1>2. ASSUME NEW j \in Tokens, CreateAccess(j)
      PROVE  /\ DOMAIN tokens \subseteq DOMAIN tokens'
             /\ \A i \in DOMAIN tokens : tokens'[i] = tokens[i]
  BY <1>2 DEF CreateAccess, Unused, Put
<1>3. CASE UNCHANGED tokens
  BY <1>3
<1> QED BY <1>1, <1>2, <1>3 DEF Next, Begin, Continue, CreateRefresh, Consume, Revoke, AskBlacklist, GetKey,
           DelKey, Mark, Erase, Fail, Tick, vars

(* Who creates a token is alone in doing so, and a call under way is about    *)
(* a token that stays handed out.                                             *)
LEMMA KnowsStep == TypeOK /\ CallsKnow /\ [Next]_vars => CallsKnow'
<1> SUFFICES ASSUME TypeOK, CallsKnow, [Next]_vars PROVE CallsKnow'
  OBVIOUS
<1>0. /\ DOMAIN tokens \subseteq DOMAIN tokens'
      /\ \A j \in DOMAIN tokens : tokens'[j] = tokens[j]
  BY TokensKept
<1>1. CASE UNCHANGED vars \/ Tick
  BY <1>1 DEF CallsKnow, vars, Tick
<1>2. ASSUME NEW j \in Tokens, CreateAccess(j) PROVE CallsKnow'
  BY <1>0, <1>2 DEF CreateAccess, Unused, CallsKnow, Put
<1>3. ASSUME NEW c \in Calls, NEW j \in Tokens, CreateRefresh(c, j) PROVE CallsKnow'
  <2>1. /\ call'[c].at = "store" /\ call'[c].token = j
        /\ \A d \in Calls \ {c} : call'[d] = call[d]
    BY <1>3, OthersKept DEF CreateRefresh
  <2> QED BY <1>3, <2>1 DEF CreateRefresh, Unused, CallsKnow
<1>4. ASSUME NEW c \in Calls, NEW j \in Tokens, Consume(c, j) PROVE CallsKnow'
  <2>1. /\ call'[c].at = "ask" /\ call'[c].token = j
        /\ \A d \in Calls \ {c} : call'[d] = call[d]
    BY <1>4, OthersKept DEF Consume
  <2> QED BY <1>4, <2>1 DEF Consume, Verified, CallsKnow
<1>5. ASSUME NEW c \in Calls, NEW j \in Tokens, NEW ttl \in RevokeTTLs, Revoke(c, j, ttl)
      PROVE  CallsKnow'
  <2>1. /\ call'[c].at = "erase" /\ call'[c].token = j
        /\ \A d \in Calls \ {c} : call'[d] = call[d]
    BY <1>5, OthersKept DEF Revoke
  <2> QED BY <1>5, <2>1 DEF Revoke, CallsKnow
<1>6. ASSUME NEW c \in Calls, Ends(c), DOMAIN tokens' = DOMAIN tokens PROVE CallsKnow'
  <2>1. /\ call'[c].at = "free"
        /\ \A d \in Calls \ {c} : call'[d] = call[d]
    BY <1>6, OthersKept DEF Ends
  <2> QED BY <1>6, <2>1 DEF CallsKnow
<1>7. ASSUME NEW c \in Calls, AskBlacklist(c) \/ GetKey(c), ~Ends(c) PROVE CallsKnow'
  <2>1. /\ call'[c].at \in {"get", "del"} /\ call'[c].token = call[c].token
        /\ \A d \in Calls \ {c} : call'[d] = call[d]
    BY <1>7, OthersKept DEF AskBlacklist, GetKey
  <2> QED BY <1>7, <2>1 DEF AskBlacklist, GetKey, CallsKnow
<1>8. ASSUME NEW c \in Calls, DelKey(c) PROVE CallsKnow'
  <2>1. /\ call'[c].at = "mark" /\ call'[c].token = call[c].token
        /\ \A d \in Calls \ {c} : call'[d] = call[d]
    BY <1>8, OthersKept DEF DelKey
  <2> QED BY <1>8, <2>1 DEF DelKey, CallsKnow
<1>9. ASSUME NEW c \in Calls, NEW replied \in BOOLEAN, Store(c, replied) PROVE CallsKnow'
  <2>1. /\ call'[c].at = "free"
        /\ \A d \in Calls \ {c} : call'[d] = call[d]
    BY <1>9, OthersKept DEF Store, Ends
  <2>2. DOMAIN tokens' \subseteq DOMAIN tokens \cup {call[c].token}
    BY <1>9 DEF Store, Put
  <2> QED BY <1>0, <1>9, <2>1, <2>2 DEF Store, CallsKnow
<1> QED BY <1>1, <1>2, <1>3, <1>4, <1>5, <1>6, <1>7, <1>8, <1>9
           DEF Next, Begin, Continue, AskBlacklist, GetKey, Mark, Erase, Fail

LEMMA Knowledge == Spec => [](TypeOK /\ CallsKnow)
BY InitType, InitKnows, TypeStep, KnowsStep, PTL DEF Spec

(* The tables, locals and histories keep their types; in particular no EX     *)
(* argument of line 135 is ever 0.                                            *)
THEOREM TypeCorrect == Spec => []TypeOK
BY Knowledge, PTL

-----------------------------------------------------------------------------

LEMMA ClockStep == ASSUME TypeOK, [Next]_vars PROVE now' \in Nat /\ now <= now'
<1>1. CASE Tick
  BY <1>1 DEF Tick, TypeOK
<1>2. CASE ~Tick
  <2>1. UNCHANGED now
    BY <1>2 DEF Next, Begin, Continue, CreateAccess, CreateRefresh, Consume, Revoke, AskBlacklist, GetKey,
                DelKey, Store, Mark, Erase, Fail, vars
  <2> QED BY <2>1 DEF TypeOK
<1> QED BY <1>1, <1>2

(* The key of a token that has been handed out is never set again.            *)
LEMMA KeyKept ==
    ASSUME CallsKnow, [Next]_vars, NEW j \in DOMAIN tokens, j \in DOMAIN refresh'
    PROVE  j \in DOMAIN refresh /\ refresh'[j] = refresh[j]
<1>1. ASSUME NEW c \in Calls, NEW replied \in BOOLEAN, Store(c, replied)
      PROVE  j \in DOMAIN refresh /\ refresh'[j] = refresh[j]
  BY <1>1 DEF Store, CallsKnow, Put
<1>2. ASSUME NEW K, refresh' = Drop(refresh, K)
      PROVE  j \in DOMAIN refresh /\ refresh'[j] = refresh[j]
  BY <1>2 DEF Drop
<1>3. CASE UNCHANGED refresh
  BY <1>3
<1> QED BY <1>1, <1>2, <1>3 DEF Next, Begin, Continue, CreateAccess, CreateRefresh, Consume,
           Revoke, AskBlacklist, GetKey, DelKey, Mark, Erase, Fail, Tick, vars

LEMMA KeyStep ==
    ASSUME TypeOK, CallsKnow, [Next]_vars, NEW j \in DOMAIN tokens, ~Present(refresh, j)
    PROVE  ~Present(refresh, j)'
<1>1. now' \in Nat /\ now <= now' /\ now \in Nat
  BY ClockStep DEF TypeOK
<1>2. j \in DOMAIN refresh => refresh[j] \in Nat
  BY DEF TypeOK
<1> QED BY <1>1, <1>2, KeyKept DEF Present

(* How a step changes what a call awaits.                                     *)
LEMMA OwnStep ==
    ASSUME TypeOK, [Next]_vars, NEW d \in Calls
    PROVE  \/ call'[d] = call[d]
           \/ Ends(d)
           \/ \E j \in Tokens : CreateRefresh(d, j)
           \/ \E j \in Tokens : Consume(d, j)
           \/ \E j \in Tokens, ttl \in RevokeTTLs : Revoke(d, j, ttl)
           \/ AskBlacklist(d)
           \/ GetKey(d)
           \/ DelKey(d)
<1>1. ASSUME NEW c \in Calls \ {d}, Begin(c) \/ Continue(c) \/ Fail(c)
      PROVE  call'[d] = call[d]
  BY <1>1, OthersKept DEF Begin, Continue, CreateRefresh, Consume, Revoke, AskBlacklist, GetKey, DelKey,
                          Store, Mark, Erase, Fail, Ends
<1> QED BY <1>1 DEF Next, Begin, Continue, Store, Mark, Erase, Fail, CreateAccess, Tick, vars

(* No call gets past its look at the key of a closed token.                   *)
LEMMA ExchangeStep ==
    ASSUME TypeOK, CallsKnow, [Next]_vars, NEW j \in Tokens, Closed(j), NEW d \in Calls,
           call'[d].at \in {"del", "mark"}
    PROVE  call'[d].token # j
<1>1. CASE call'[d] = call[d]
  BY <1>1 DEF Closed
<1>2. CASE GetKey(d)
  <2>1. CASE Present(refresh, call[d].token) /\ call'[d].token = call[d].token
    BY <2>1 DEF Closed
  <2>2. CASE Ends(d)
    BY <2>2, OthersKept DEF Ends
  <2> QED BY <1>2, <2>1, <2>2, OthersKept DEF GetKey
<1>3. CASE DelKey(d)
  BY <1>3, OthersKept DEF DelKey, Closed
<1>4. ASSUME NEW i \in Tokens, CreateRefresh(d, i) \/ Consume(d, i) PROVE FALSE
  BY <1>4, OthersKept DEF CreateRefresh, Consume
<1>5. ASSUME NEW i \in Tokens, NEW ttl \in RevokeTTLs, Revoke(d, i, ttl) PROVE FALSE
  BY <1>5, OthersKept DEF Revoke
<1>6. ASSUME Ends(d) \/ AskBlacklist(d) PROVE FALSE
  BY <1>6, OthersKept DEF Ends, AskBlacklist
<1> QED BY <1>1, <1>2, <1>3, <1>4, <1>5, <1>6, OwnStep

(* A closed token is never exchanged again, whatever the lifetimes.           *)
THEOREM ClosedForGood == Spec => ClosedStaysClosed
<1> DEFINE Stays == \A j \in Tokens : Closed(j) => Closed(j)' /\ exchanges'[j] = exchanges[j]
<1>1. TypeOK /\ CallsKnow /\ [Next]_vars => [Stays]_vars
  <2> SUFFICES ASSUME TypeOK, CallsKnow, [Next]_vars, NEW j \in Tokens, Closed(j)
               PROVE  Closed(j)' /\ exchanges'[j] = exchanges[j]
    OBVIOUS
  <2>1. j \in DOMAIN tokens'
    BY TokensKept DEF Closed
  <2>2. ~Present(refresh, j)'
    BY KeyStep DEF Closed
  <2>3. \A d \in Calls : call'[d].at \in {"del", "mark"} => call'[d].token # j
    BY ExchangeStep
  <2>4. exchanges'[j] = exchanges[j]
    <3>1. ASSUME NEW c \in Calls, NEW replied \in BOOLEAN, Mark(c, replied)
          PROVE  exchanges'[j] = exchanges[j]
      BY <3>1 DEF Mark, Closed, TypeOK
    <3> QED BY <3>1 DEF Next, Begin, Continue, CreateAccess, CreateRefresh, Consume, Revoke,
               AskBlacklist, GetKey, DelKey, Store, Erase, Fail, Tick, vars
  <2> QED BY <2>1, <2>2, <2>3, <2>4 DEF Closed
<1> QED BY <1>1, Knowledge, PTL DEF Spec, ClosedStaysClosed

-----------------------------------------------------------------------------

LEMMA Scale ==
    ASSUME NEW a \in Nat, NEW b \in Nat, NEW t \in Nat \ {0}, a <= b
    PROVE  a * t <= b * t
OBVIOUS

LEMMA Unscale ==
    ASSUME NEW a \in Nat, NEW b \in Nat, NEW t \in Nat \ {0}, a * t < b * t
    PROVE  a < b
OBVIOUS

LEMMA Division ==
    ASSUME NEW n \in Nat, NEW t \in Nat \ {0}
    PROVE  /\ n \div t \in Nat
           /\ (n \div t) * t <= n
           /\ n < (n \div t + 1) * t
OBVIOUS

(* The current second has begun and has not ended.                            *)
LEMMA SecondBounds ==
    ASSUME TypeOK
    PROVE  Second * TicksPerSecond <= now /\ now < (Second + 1) * TicksPerSecond
BY Division, RefreshClockAssumption DEF TypeOK, Second

LEMMA SecondGrows ==
    ASSUME TypeOK, CallsKnow, [Next]_vars
    PROVE  Second \in Nat /\ Second' \in Nat /\ Second <= Second'
<1> DEFINE s == Second
           t == Second'
<1>0. TypeOK'
  BY TypeStep
<1>1. s \in Nat /\ s * TicksPerSecond <= now
  BY SecondType, SecondBounds
<1>2. t \in Nat /\ now' < (t + 1) * TicksPerSecond
  BY <1>0, Division, RefreshClockAssumption DEF TypeOK, Second
<1> HIDE DEF s, t
<1>3. s * TicksPerSecond < (t + 1) * TicksPerSecond
  BY <1>0, <1>1, <1>2, ClockStep, RefreshClockAssumption DEF TypeOK
<1>4. s <= t
  <2>1. t + 1 \in Nat
    BY <1>2
  <2>2. s < t + 1
    BY <1>1, <1>3, <2>1, Unscale, RefreshClockAssumption
  <2> QED BY <1>1, <1>2, <2>2
<1> QED BY <1>1, <1>2, <1>4 DEF s, t

(* An entry set now with at least a token's remaining seconds outlasts it.    *)
LEMMA EntryOutlasts ==
    ASSUME TypeOK, NEW exp \in Nat, NEW ttl \in Nat, exp <= Second + ttl
    PROVE  exp * TicksPerSecond <= ExpiresIn(ttl)
<1> DEFINE s == Second
           T == TicksPerSecond
<1>1. s \in Nat /\ s * T <= now /\ now \in Nat /\ T \in Nat \ {0}
  BY SecondType, SecondBounds, RefreshClockAssumption DEF TypeOK
<1>2. exp * T <= (s + ttl) * T
  BY <1>1, Scale
<1>3. (s + ttl) * T = s * T + ttl * T
  BY <1>1
<1> QED BY <1>1, <1>2, <1>3 DEF ExpiresIn

(* A key set with the lifetime of a refresh token outlasts that token.        *)
LEMMA KeysStep == TypeOK /\ CallsKnow /\ KeysCover /\ [Next]_vars => KeysCover'
<1> SUFFICES ASSUME TypeOK, CallsKnow, KeysCover, [Next]_vars PROVE KeysCover'
  OBVIOUS
<1> DEFINE s == Second
           t == Second'
<1>0. s \in Nat /\ t \in Nat /\ s <= t /\ RefreshTTL \in Nat
  BY SecondGrows, LifetimesAssumption
<1>1. ASSUME NEW c \in Calls, call'[c].at = "store" PROVE call'[c].exp <= t + RefreshTTL
  <2>1. CASE call'[c] = call[c]
    <3>1. call[c].exp \in Nat /\ call[c].exp <= s + RefreshTTL
      BY <1>1, <2>1, CallType DEF KeysCover
    <3> HIDE DEF s, t
    <3> QED BY <1>0, <2>1, <3>1
  <2>2. ASSUME NEW j \in Tokens, CreateRefresh(c, j) PROVE call'[c].exp <= t + RefreshTTL
    <3>1. call'[c].exp = s + RefreshTTL
      BY <2>2, OthersKept DEF CreateRefresh
    <3> HIDE DEF s, t
    <3> QED BY <1>0, <3>1
  <2>3. ASSUME NEW j \in Tokens, Consume(c, j) PROVE FALSE
    BY <1>1, <2>3, OthersKept DEF Consume
  <2>4. ASSUME NEW j \in Tokens, NEW ttl \in RevokeTTLs, Revoke(c, j, ttl) PROVE FALSE
    BY <1>1, <2>4, OthersKept DEF Revoke
  <2>5. ~Ends(c)
    BY <1>1, OthersKept DEF Ends
  <2>6. ~AskBlacklist(c) /\ ~GetKey(c) /\ ~DelKey(c)
    BY <1>1, <2>5, OthersKept DEF AskBlacklist, GetKey, DelKey
  <2> QED BY <2>1, <2>2, <2>3, <2>4, <2>5, <2>6, OwnStep
<1>2. ASSUME NEW j \in DOMAIN tokens', j \in DOMAIN refresh'
      PROVE  tokens'[j] * TicksPerSecond <= refresh'[j]
  <2>1. CASE j \in DOMAIN tokens
    BY <1>2, <2>1, TokensKept, KeyKept DEF KeysCover
  <2>2. ASSUME NEW c \in Calls, NEW replied \in BOOLEAN, Store(c, replied),
               j \notin DOMAIN tokens
        PROVE  tokens'[j] * TicksPerSecond <= refresh'[j]
    <3>1. /\ tokens'[j] = call[c].exp
          /\ j = call[c].token
      BY <1>2, <2>2 DEF Store, Put
    <3>2. refresh'[j] = ExpiresIn(RefreshTTL)
      BY <2>2, <3>1 DEF Store, Put
    <3>3. call[c].exp \in Nat /\ call[c].exp <= Second + RefreshTTL
      BY <2>2, CallType DEF Store, KeysCover
    <3> QED BY <1>0, <3>1, <3>2, <3>3, EntryOutlasts
  <2>3. ASSUME NEW i \in Tokens, CreateAccess(i), j \notin DOMAIN tokens PROVE FALSE
    BY <1>2, <2>3 DEF CreateAccess, Unused, Put
  <2>4. CASE UNCHANGED tokens
    BY <1>2, <2>1, <2>4
  <2> QED BY <2>1, <2>2, <2>3, <2>4 DEF Next, Begin, Continue, CreateRefresh, Consume, Revoke,
             AskBlacklist, GetKey, DelKey, Mark, Erase, Fail, Tick, vars
<1> QED BY <1>1, <1>2 DEF KeysCover

LEMMA InitKeys == Init => KeysCover
BY EmptyProperties DEF Init, KeysCover

(* A refresh key that nobody deletes is there as long as its JWT is valid.    *)
THEOREM KeysLast == Spec => []KeyOutlivesToken
<1>1. Spec => [](TypeOK /\ CallsKnow /\ KeysCover)
  BY InitType, InitKnows, InitKeys, TypeStep, KnowsStep, KeysStep, PTL DEF Spec
<1>2. TypeOK /\ KeysCover => KeyOutlivesToken
  <2> SUFFICES ASSUME TypeOK, KeysCover, NEW j \in DOMAIN tokens \cap DOMAIN refresh,
                      Verified(j), refresh[j] <= now
               PROVE  FALSE
    BY DEF KeyOutlivesToken, Present, TypeOK
  <2> DEFINE s == Second
  <2>1. /\ s \in Nat /\ now \in Nat /\ now < (s + 1) * TicksPerSecond
        /\ tokens[j] \in Nat /\ refresh[j] \in Nat /\ s < tokens[j]
        /\ tokens[j] * TicksPerSecond <= refresh[j]
    BY SecondType, SecondBounds DEF Verified, TypeOK, KeysCover
  <2> HIDE DEF s
  <2>2. (s + 1) * TicksPerSecond <= tokens[j] * TicksPerSecond
    BY <2>1, Scale, RefreshClockAssumption
  <2> QED BY <2>1, <2>2, RefreshClockAssumption
<1> QED BY <1>1, <1>2, PTL

-----------------------------------------------------------------------------

LEMMA InitCovers == Init => EntriesCover
BY EmptyProperties DEF Init, EntriesCover

(* Entries of the blacklist stay, although a lifetime may be overwritten.     *)
LEMMA EntriesKept == ASSUME [Next]_vars PROVE DOMAIN blacklist \subseteq DOMAIN blacklist'
BY DEF Next, Begin, Continue, CreateAccess, CreateRefresh, Consume, Revoke, AskBlacklist, GetKey, DelKey,
       Store, Mark, Erase, Fail, Tick, vars, Put

(* No token lives longer than a revocation that starts after it was signed.   *)
LEMMA LifetimesStep ==
    ASSUME Covering, IInv, [Next]_vars, NEW ttl \in RevokeTTLs
    PROVE  /\ \A j \in DOMAIN tokens' : tokens'[j] <= Second' + ttl
           /\ \A c \in Calls : call'[c].at = "store" => call'[c].exp <= Second' + ttl
<1> DEFINE s == Second
           t == Second'
<1>0. TypeOK /\ TypeOK' /\ ttl \in Nat /\ AccessTTL \in Nat /\ RefreshTTL \in Nat
  BY TypeStep, LifetimesAssumption DEF IInv
<1>1. s \in Nat /\ t \in Nat /\ s <= t
  BY SecondGrows DEF IInv
<1>2. /\ \A j \in DOMAIN tokens : tokens[j] <= s + ttl
      /\ \A c \in Calls : call[c].at = "store" => call[c].exp <= s + ttl
  BY DEF IInv, EntriesCover
<1>3. ttl >= AccessTTL /\ ttl >= RefreshTTL
  BY DEF Covering
<1> HIDE DEF s, t
<1>4. ASSUME NEW j \in DOMAIN tokens' PROVE tokens'[j] <= t + ttl
  <2>1. tokens'[j] <= s + ttl
    <3>1. CASE j \in DOMAIN tokens
      BY <1>2, <3>1, TokensKept DEF IInv
    <3>2. ASSUME NEW i \in Tokens, CreateAccess(i), j \notin DOMAIN tokens
          PROVE  tokens'[j] <= s + ttl
      <4>1. tokens'[j] = s + AccessTTL
        BY <3>2 DEF CreateAccess, Put, s
      <4> QED BY <1>0, <1>1, <1>3, <4>1
    <3>3. ASSUME NEW c \in Calls, NEW replied \in BOOLEAN, Store(c, replied),
                 j \notin DOMAIN tokens
          PROVE  tokens'[j] <= s + ttl
      <4>1. tokens'[j] = call[c].exp
        BY <1>4, <3>3 DEF Store, Put
      <4> QED BY <1>2, <3>3, <4>1 DEF Store
    <3>4. CASE UNCHANGED tokens
      BY <1>2, <1>4, <3>4
    <3> QED BY <3>1, <3>2, <3>3, <3>4 DEF Next, Begin, Continue, CreateRefresh, Consume, Revoke,
               AskBlacklist, GetKey, DelKey, Mark, Erase, Fail, Tick, vars
  <2>2. tokens'[j] \in Nat
    BY <1>0 DEF TypeOK
  <2> QED BY <1>0, <1>1, <2>1, <2>2
<1>5. ASSUME NEW c \in Calls, call'[c].at = "store" PROVE call'[c].exp <= t + ttl
  <2>1. CASE call'[c] = call[c]
    <3>1. call[c].exp \in Nat /\ call[c].exp <= s + ttl
      BY <1>0, <1>2, <1>5, <2>1, CallType
    <3> QED BY <1>0, <1>1, <2>1, <3>1
  <2>2. ASSUME NEW j \in Tokens, CreateRefresh(c, j) PROVE call'[c].exp <= t + ttl
    <3>1. call'[c].exp = s + RefreshTTL
      BY <1>0, <2>2, OthersKept DEF CreateRefresh, s
    <3> QED BY <1>0, <1>1, <1>3, <3>1
  <2>3. ASSUME NEW j \in Tokens, NEW r \in RevokeTTLs, Consume(c, j) \/ Revoke(c, j, r)
        PROVE  FALSE
    BY <1>0, <1>5, <2>3, OthersKept DEF Consume, Revoke
  <2>4. ~Ends(c)
    BY <1>0, <1>5, OthersKept DEF Ends
  <2>5. ~AskBlacklist(c) /\ ~GetKey(c) /\ ~DelKey(c)
    BY <1>0, <1>5, <2>4, OthersKept DEF AskBlacklist, GetKey, DelKey
  <2> QED BY <1>0, <2>1, <2>2, <2>3, <2>4, <2>5, OwnStep
<1> QED BY <1>4, <1>5 DEF t

(* Every entry of the blacklist outlasts its token: a revocation's because    *)
(* it covers any lifetime, an exchange's because the seconds left were        *)
(* counted before it was set.                                                 *)
LEMMA EntriesStep ==
    ASSUME IInv, [Next]_vars, NEW j \in DOMAIN blacklist'
    PROVE  j \in DOMAIN tokens' /\ tokens'[j] * TicksPerSecond <= blacklist'[j]
<1>0. TypeOK /\ CallsKnow /\ EntriesCover
  BY DEF IInv
<1>1. CASE j \in DOMAIN blacklist /\ blacklist'[j] = blacklist[j]
  BY <1>0, <1>1, TokensKept DEF EntriesCover
<1>2. ASSUME NEW ttl \in Nat, blacklist' = Put(blacklist, j, ExpiresIn(ttl)),
             j \in DOMAIN tokens, tokens[j] <= Second + ttl
      PROVE  j \in DOMAIN tokens' /\ tokens'[j] * TicksPerSecond <= blacklist'[j]
  <2>1. tokens[j] * TicksPerSecond <= ExpiresIn(ttl)
    BY <1>0, <1>2, EntryOutlasts DEF TypeOK
  <2>2. blacklist'[j] = ExpiresIn(ttl)
    BY <1>2 DEF Put
  <2> QED BY <1>0, <1>2, <2>1, <2>2, TokensKept
<1>3. ASSUME NEW c \in Calls, NEW replied \in BOOLEAN, Mark(c, replied)
      PROVE  j \in DOMAIN tokens' /\ tokens'[j] * TicksPerSecond <= blacklist'[j]
  <2>1. CASE j = call[c].token
    <3>1. call[c].ttl \in Nat
      BY <1>0, <1>3, CallType DEF Mark
    <3>2. j \in DOMAIN tokens /\ tokens[j] <= Second + call[c].ttl
      BY <1>0, <1>3, <2>1 DEF Mark, CallsKnow, EntriesCover
    <3>3. blacklist' = Put(blacklist, j, ExpiresIn(call[c].ttl))
      BY <1>3, <2>1 DEF Mark
    <3> QED BY <1>2, <3>1, <3>2, <3>3
  <2>2. CASE j # call[c].token
    BY <1>1, <1>3, <2>2 DEF Mark, Put
  <2> QED BY <2>1, <2>2
<1>4. ASSUME NEW c \in Calls, NEW i \in Tokens, NEW ttl \in RevokeTTLs, Revoke(c, i, ttl)
      PROVE  j \in DOMAIN tokens' /\ tokens'[j] * TicksPerSecond <= blacklist'[j]
  <2>1. CASE j = i
    <3>1. ttl \in Nat
      BY LifetimesAssumption
    <3>2. j \in DOMAIN tokens /\ tokens[j] <= Second + ttl
      BY <1>0, <1>4, <2>1 DEF Revoke, EntriesCover
    <3>3. blacklist' = Put(blacklist, j, ExpiresIn(ttl))
      BY <1>4, <2>1 DEF Revoke
    <3> QED BY <1>2, <3>1, <3>2, <3>3
  <2>2. CASE j # i
    BY <1>1, <1>4, <2>2 DEF Revoke, Put
  <2> QED BY <2>1, <2>2
<1>5. CASE UNCHANGED blacklist
  BY <1>1, <1>5
<1> QED BY <1>3, <1>4, <1>5 DEF Next, Begin, Continue, CreateAccess, CreateRefresh, Consume,
           AskBlacklist, GetKey, DelKey, Store, Erase, Fail, Tick, vars

(* What a call about to write or past writing an entry relies on.             *)
LEMMA WritersStep ==
    ASSUME IInv, [Next]_vars, NEW c \in Calls
    PROVE  /\ call'[c].at = "mark" => tokens'[call'[c].token] <= Second' + call'[c].ttl
           /\ call'[c].at = "erase" => call'[c].token \in DOMAIN blacklist'
<1> DEFINE s == Second
           t == Second'
<1>0. TypeOK /\ TypeOK' /\ CallsKnow /\ EntriesCover
  BY TypeStep DEF IInv
<1>1. s \in Nat /\ t \in Nat /\ s <= t
  BY <1>0, SecondGrows
<1>2. ASSUME NEW j \in DOMAIN tokens, NEW ttl \in Nat, tokens[j] <= s + ttl
      PROVE  tokens'[j] <= t + ttl
  <2>1. tokens'[j] = tokens[j] /\ tokens[j] \in Nat
    BY <1>0, TokensKept DEF TypeOK
  <2> HIDE DEF s, t
  <2> QED BY <1>1, <1>2, <2>1
<1>3. CASE call'[c] = call[c]
  <2>1. ASSUME call[c].at = "mark" PROVE tokens'[call'[c].token] <= t + call'[c].ttl
    <3>1. /\ call[c].token \in DOMAIN tokens
          /\ call[c].ttl \in Nat
          /\ tokens[call[c].token] <= s + call[c].ttl
      BY <1>0, <2>1, CallType DEF CallsKnow, EntriesCover
    <3> QED BY <1>2, <1>3, <3>1
  <2>2. call[c].at = "erase" => call'[c].token \in DOMAIN blacklist'
    BY <1>0, <1>3, EntriesKept DEF EntriesCover
  <2> QED BY <1>3, <2>1, <2>2
<1>4. CASE DelKey(c)
  <2> DEFINE j == call[c].token
  <2>1. j \in DOMAIN tokens /\ Remaining(j) \in Nat /\ tokens[j] <= s + Remaining(j)
    BY <1>0, <1>4, RemainingType DEF DelKey, CallsKnow
  <2>2. call'[c] = [at |-> "mark", token |-> j, ttl |-> Remaining(j)]
    BY <1>0, <1>4, OthersKept DEF DelKey
  <2> QED BY <1>2, <2>1, <2>2
<1>5. ASSUME NEW j \in Tokens, NEW ttl \in RevokeTTLs, Revoke(c, j, ttl)
      PROVE  call'[c].at = "erase" /\ call'[c].token \in DOMAIN blacklist'
  BY <1>0, <1>5, OthersKept DEF Revoke, Put
<1>6. ASSUME NEW j \in Tokens, CreateRefresh(c, j) \/ Consume(c, j)
      PROVE  call'[c].at \in {"store", "ask"}
  BY <1>0, <1>6, OthersKept DEF CreateRefresh, Consume
<1>7. ASSUME Ends(c) \/ AskBlacklist(c) \/ GetKey(c)
      PROVE  call'[c].at \in {"free", "get", "del"}
  BY <1>0, <1>7, OthersKept DEF Ends, AskBlacklist, GetKey
<1> QED BY <1>0, <1>3, <1>4, <1>5, <1>6, <1>7, OwnStep

(* What has been exchanged or revoked has an entry.                           *)
LEMMA UsedStep ==
    ASSUME IInv, [Next]_vars, NEW j \in Tokens, exchanges'[j] > 0 \/ j \in revoked'
    PROVE  j \in DOMAIN blacklist'
<1>0. TypeOK /\ EntriesCover
  BY DEF IInv
<1>1. ASSUME NEW c \in Calls, NEW replied \in BOOLEAN, Mark(c, replied)
      PROVE  j \in DOMAIN blacklist'
  <2>1. j = call[c].token \/ exchanges'[j] = exchanges[j]
    BY <1>0, <1>1 DEF Mark, TypeOK
  <2> QED BY <1>0, <1>1, <2>1 DEF Mark, Put, EntriesCover
<1>2. ASSUME NEW c \in Calls, NEW replied \in BOOLEAN, Erase(c, replied)
      PROVE  j \in DOMAIN blacklist'
  BY <1>0, <1>2 DEF Erase, EntriesCover
<1>3. CASE UNCHANGED <<exchanges, revoked>>
  BY <1>0, <1>3, EntriesKept DEF EntriesCover
<1> QED BY <1>1, <1>2, <1>3 DEF Next, Begin, Continue, CreateAccess, CreateRefresh, Consume,
           Revoke, AskBlacklist, GetKey, DelKey, Store, Fail, Tick, vars

LEMMA CoversStep == Covering /\ IInv /\ [Next]_vars => EntriesCover'
<1> SUFFICES ASSUME Covering, IInv, [Next]_vars PROVE EntriesCover'
  OBVIOUS
<1>1. \A ttl \in RevokeTTLs :
         /\ \A j \in DOMAIN tokens' : tokens'[j] <= Second' + ttl
         /\ \A c \in Calls : call'[c].at = "store" => call'[c].exp <= Second' + ttl
  BY LifetimesStep
<1>2. \A j \in DOMAIN blacklist' :
         j \in DOMAIN tokens' /\ tokens'[j] * TicksPerSecond <= blacklist'[j]
  BY EntriesStep
<1>3. \A c \in Calls :
         /\ call'[c].at = "mark" => tokens'[call'[c].token] <= Second' + call'[c].ttl
         /\ call'[c].at = "erase" => call'[c].token \in DOMAIN blacklist'
  BY WritersStep
<1>4. \A j \in Tokens : exchanges'[j] > 0 \/ j \in revoked' => j \in DOMAIN blacklist'
  BY UsedStep
<1> QED BY <1>1, <1>2, <1>3, <1>4 DEF EntriesCover

LEMMA Invariance == ASSUME Covering PROVE Spec => []IInv
<1>1. Init => IInv
  BY InitType, InitKnows, InitKeys, InitCovers DEF IInv
<1>2. IInv /\ [Next]_vars => IInv'
  BY TypeStep, KnowsStep, KeysStep, CoversStep DEF IInv
<1> QED BY <1>1, <1>2, PTL DEF Spec

(* An exchanged or revoked token is refused by verifyAccessToken for as long  *)
(* as its JWT would be good, if revocations cover the life of a token.        *)
THEOREM Refusal == ASSUME Covering PROVE Spec => []UsedIsRefused
<1>1. IInv => UsedIsRefused
  <2> SUFFICES ASSUME IInv, NEW j \in Tokens, exchanges[j] > 0 \/ j \in revoked, Accepted(j)
               PROVE  FALSE
    BY DEF UsedIsRefused
  <2> DEFINE s == Second
  <2>0. TypeOK /\ EntriesCover
    BY DEF IInv
  <2>1. /\ s \in Nat /\ now \in Nat /\ now < (s + 1) * TicksPerSecond
        /\ j \in DOMAIN tokens /\ tokens[j] \in Nat /\ s < tokens[j]
    BY <2>0, SecondType, SecondBounds DEF Accepted, Verified, TypeOK
  <2>2. /\ j \in DOMAIN blacklist /\ blacklist[j] \in Nat
        /\ tokens[j] * TicksPerSecond <= blacklist[j]
    BY <2>0 DEF EntriesCover, TypeOK
  <2>3. blacklist[j] <= now
    BY <2>1, <2>2 DEF Accepted, Present
  <2> HIDE DEF s
  <2>4. (s + 1) * TicksPerSecond <= tokens[j] * TicksPerSecond
    BY <2>1, Scale, RefreshClockAssumption
  <2> QED BY <2>1, <2>2, <2>3, <2>4, RefreshClockAssumption
<1> QED BY <1>1, Invariance, PTL
-----------------------------------------------------------------------------

(* Exchanges of one token that never meet between GET and DEL: at most one is *)
(* past the GET, the key is gone once it is past the DEL, and after it has    *)
(* returned there is neither a key nor a second call that has seen one.       *)
Alone == \A j \in Tokens, c, d \in Calls : AtKey(c, j) /\ AtKey(d, j) => c = d
Deleted == \A j \in Tokens, c \in Calls :
    call[c].at = "mark" /\ call[c].token = j => j \notin DOMAIN refresh
Spent == \A j \in Tokens :
    /\ exchanges[j] <= 1
    /\ exchanges[j] > 0 =>
          j \in DOMAIN tokens /\ j \notin DOMAIN refresh /\ \A c \in Calls : ~AtKey(c, j)
Exchanged == Alone /\ Deleted /\ Spent

LEMMA InitExchanged == Init => Exchanged
BY DEF Init, Exchanged, Alone, Deleted, Spent, AtKey

(* A call gets past the GET only when the key is there.                       *)
LEMMA AtKeyStep ==
    ASSUME TypeOK, [Next]_vars, NEW c \in Calls, NEW j \in Tokens,
           call'[c].at \in {"del", "mark"}, call'[c].token = j
    PROVE  \/ call'[c] = call[c] /\ AtKey(c, j)
           \/ DelKey(c) /\ AtKey(c, j)
           \/ GetKey(c) /\ Present(refresh, j) /\ call'[c].at = "del"
<1>1. CASE call'[c] = call[c]
  BY <1>1 DEF AtKey
<1>2. CASE GetKey(c)
  BY <1>2, OthersKept DEF GetKey, Ends
<1>3. CASE DelKey(c)
  BY <1>3, OthersKept DEF DelKey, AtKey
<1>4. ASSUME NEW i \in Tokens, CreateRefresh(c, i) \/ Consume(c, i) PROVE FALSE
  BY <1>4, OthersKept DEF CreateRefresh, Consume
<1>5. ASSUME NEW i \in Tokens, NEW ttl \in RevokeTTLs, Revoke(c, i, ttl) PROVE FALSE
  BY <1>5, OthersKept DEF Revoke
<1>6. ASSUME Ends(c) \/ AskBlacklist(c) PROVE FALSE
  BY <1>6, OthersKept DEF Ends, AskBlacklist
<1> QED BY <1>1, <1>2, <1>3, <1>4, <1>5, <1>6, OwnStep

(* The key is gone for good once the call is past the DEL, race or not.       *)
LEMMA DeletedStep ==
    ASSUME TypeOK, CallsKnow, Deleted, [Next]_vars
    PROVE  Deleted'
<1> SUFFICES ASSUME NEW j \in Tokens, NEW c \in Calls,
                    call'[c].at = "mark", call'[c].token = j
             PROVE  j \notin DOMAIN refresh'
  BY DEF Deleted
<1>1. CASE DelKey(c) /\ AtKey(c, j)
  BY <1>1 DEF DelKey, AtKey, Drop
<1>2. CASE call'[c] = call[c]
  <2>1. j \in DOMAIN tokens /\ j \notin DOMAIN refresh
    BY <1>2 DEF CallsKnow, Deleted
  <2> QED BY <2>1, KeyKept
<1> QED BY <1>1, <1>2, AtKeyStep

(* An exchange is counted when the call that is past the DEL returns.         *)
LEMMA CountStep ==
    ASSUME TypeOK, [Next]_vars, NEW j \in Tokens, exchanges'[j] # exchanges[j]
    PROVE  \E c \in Calls : /\ Mark(c, TRUE)
                            /\ call[c].at = "mark" /\ call[c].token = j
                            /\ exchanges'[j] = exchanges[j] + 1
<1>1. ASSUME NEW c \in Calls, NEW replied \in BOOLEAN, Mark(c, replied)
      PROVE  Mark(c, TRUE) /\ call[c].at = "mark" /\ call[c].token = j
             /\ exchanges'[j] = exchanges[j] + 1
  <2>1. exchanges \in [Tokens -> Nat] /\ exchanges' # exchanges
    BY DEF TypeOK
  <2>2. exchanges' = [exchanges EXCEPT ![call[c].token] = @ + 1]
    BY <1>1, <2>1 DEF Mark
  <2>3. call[c].token = j
    BY <2>1, <2>2
  <2>4. exchanges'[j] = exchanges[j] + 1
    BY <2>1, <2>2, <2>3
  <2> QED BY <1>1, <2>2, <2>3, <2>4 DEF Mark
<1> QED BY <1>1 DEF Next, Begin, Continue, CreateAccess, CreateRefresh, Consume, Revoke,
           AskBlacklist, GetKey, DelKey, Store, Erase, Fail, Tick, vars

LEMMA AloneStep ==
    ASSUME TypeOK, Exchanged, [Next]_vars, NoRace',
           NEW j \in Tokens, NEW c \in Calls, NEW d \in Calls,
           call'[c].at \in {"del", "mark"}, call'[c].token = j,
           call'[d].at \in {"del", "mark"}, call'[d].token = j
    PROVE  c = d
<1>1. CASE AtKey(c, j) /\ AtKey(d, j)
  BY <1>1 DEF Exchanged, Alone
<1>2. ASSUME NEW e \in Calls, NEW g \in Calls, e # g, GetKey(g), Present(refresh, j),
             call'[g].at = "del", call'[g].token = j,
             call'[e].at \in {"del", "mark"}, call'[e].token = j
      PROVE  FALSE
  <2>1. call'[e] = call[e]
    BY <1>2, OthersKept DEF GetKey, Ends
  <2>2. call[e].at # "mark"
    BY <1>2, <2>1 DEF Exchanged, Deleted, Present
  <2> QED BY <1>2, <2>1, <2>2 DEF NoRace
<1> QED BY <1>1, <1>2, AtKeyStep

LEMMA ExchangedStep == TypeOK /\ CallsKnow /\ Exchanged /\ NoRace' /\ [Next]_vars => Exchanged'
<1> SUFFICES ASSUME TypeOK, CallsKnow, Exchanged, NoRace', [Next]_vars PROVE Exchanged'
  OBVIOUS
<1>1. Alone'
  BY AloneStep DEF Alone, AtKey
<1>3. ASSUME NEW j \in Tokens
      PROVE  /\ exchanges'[j] <= 1
             /\ exchanges'[j] > 0 =>
                   /\ j \in DOMAIN tokens'
                   /\ j \notin DOMAIN refresh'
                   /\ \A c \in Calls : ~(call'[c].at \in {"del", "mark"} /\ call'[c].token = j)
  <2>1. CASE exchanges'[j] = exchanges[j]
    <3>1. exchanges[j] <= 1
      BY DEF Exchanged, Spent
    <3>2. ASSUME exchanges[j] > 0
          PROVE  /\ j \in DOMAIN tokens'
                 /\ j \notin DOMAIN refresh'
                 /\ \A c \in Calls : ~(call'[c].at \in {"del", "mark"} /\ call'[c].token = j)
      <4>1. /\ j \in DOMAIN tokens /\ j \notin DOMAIN refresh
            /\ \A c \in Calls : ~AtKey(c, j)
        BY <3>2 DEF Exchanged, Spent
      <4>2. \A c \in Calls : ~(call'[c].at \in {"del", "mark"} /\ call'[c].token = j)
        BY <4>1, AtKeyStep DEF Present
      <4> QED BY <4>1, <4>2, TokensKept, KeyKept
    <3> QED BY <2>1, <3>1, <3>2
  <2>2. CASE exchanges'[j] # exchanges[j]
    <3>1. PICK c \in Calls : /\ Mark(c, TRUE)
                             /\ call[c].at = "mark" /\ call[c].token = j
                             /\ exchanges'[j] = exchanges[j] + 1
      BY <2>2, CountStep
    <3>2. AtKey(c, j)
      BY <3>1 DEF AtKey
    <3>3. exchanges[j] = 0
      BY <3>2 DEF Exchanged, Spent, TypeOK
    <3>4. j \in DOMAIN tokens' /\ j \notin DOMAIN refresh'
      BY <3>1 DEF Mark, CallsKnow, Exchanged, Deleted
    <3>5. ASSUME NEW d \in Calls, call'[d].at \in {"del", "mark"}, call'[d].token = j
          PROVE  FALSE
      <4>1. CASE d = c
        BY <3>1, <3>5, <4>1, OthersKept DEF Mark, Ends
      <4>2. CASE d # c
        <5>1. call'[d] = call[d]
          BY <3>1, <4>2, OthersKept DEF Mark, Ends
        <5> QED BY <3>2, <3>5, <4>2, <5>1 DEF Exchanged, Alone, AtKey
      <4> QED BY <4>1, <4>2
    <3> QED BY <3>1, <3>3, <3>4, <3>5
  <2> QED BY <2>1, <2>2
<1>4. Deleted'
  BY DeletedStep DEF Exchanged
<1>5. Spent'
  BY <1>3 DEF Spent, AtKey
<1> QED BY <1>1, <1>4, <1>5 DEF Exchanged

(* "Consumed" fails only in the window between GET and DEL: in every          *)
(* behaviour in which no two exchanges of a token meet there, it is exchanged *)
(* once, whatever fails half-way, expires or is revoked meanwhile.            *)
THEOREM ConsumedOnceWithoutRace == Spec /\ []NoRace => []ConsumedOnce
<1>1. Exchanged => ConsumedOnce
  BY DEF Exchanged, Spent, ConsumedOnce
<1> QED BY <1>1, InitExchanged, ExchangedStep, Knowledge, PTL DEF Spec

-----------------------------------------------------------------------------

(* The contract's state, as ImplementsContract reads it.                      *)
Open   == {j \in DOMAIN tokens : Present(refresh, j)}
Claims == {x \in Tokens \X Calls : AtKey(x[2], x[1])}
CInv   == TypeOK /\ CallsKnow /\ Deleted

LEMMA SameState ==
    ASSUME UNCHANGED <<now, tokens, refresh>>
    PROVE  Open' = Open /\ UNCHANGED DOMAIN tokens
BY DEF Open, Present

(* Claims are the business of the call that moves.                            *)
LEMMA OwnClaims ==
    ASSUME TypeOK, NEW c \in Calls, NEW k, Goto(c, k)
    PROVE  \A j \in Tokens, d \in Calls :
              /\ <<j, d>> \in Claims <=> AtKey(d, j)
              /\ <<j, d>> \in Claims' <=>
                    IF d = c THEN k.at \in {"del", "mark"} /\ k.token = j ELSE AtKey(d, j)
<1>1. call'[c] = k /\ \A d \in Calls \ {c} : call'[d] = call[d]
  BY OthersKept
<1> QED BY <1>1 DEF Claims, AtKey

LEMMA ClaimsArePairs == Claims \subseteq Tokens \X Calls /\ Claims' \subseteq Tokens \X Calls
BY DEF Claims

(* A call that is not between GET and the end, and does not get there.        *)
LEMMA ClaimsKept ==
    ASSUME TypeOK, NEW c \in Calls, NEW k, Goto(c, k),
           \A j \in Tokens : AtKey(c, j) <=> (k.at \in {"del", "mark"} /\ k.token = j)
    PROVE  Claims' = Claims
<1>1. \A j \in Tokens, d \in Calls : <<j, d>> \in Claims' <=> <<j, d>> \in Claims
  BY OwnClaims
<1> QED BY <1>1, ClaimsArePairs

LEMMA ClaimGained ==
    ASSUME TypeOK, NEW c \in Calls, call[c].at = "get", call[c].token \in Tokens,
           Goto(c, [at |-> "del", token |-> call[c].token])
    PROVE  /\ Claims' = Claims \cup {<<call[c].token, c>>}
           /\ \A i \in Tokens : <<i, c>> \notin Claims
<1> DEFINE k == [at |-> "del", token |-> call[c].token]
<1>0. k.at \in {"del", "mark"} /\ k.token = call[c].token /\ Goto(c, k)
  OBVIOUS
<1> HIDE DEF k
<1>1. \A i \in Tokens : ~AtKey(c, i)
  BY DEF AtKey
<1>2. \A j \in Tokens, d \in Calls :
         <<j, d>> \in Claims' <=> (<<j, d>> \in Claims \/ (d = c /\ j = call[c].token))
  BY <1>0, <1>1, OwnClaims
<1>3. \A i \in Tokens : <<i, c>> \notin Claims
  BY <1>1 DEF Claims
<1> QED BY <1>2, <1>3, ClaimsArePairs

LEMMA ClaimLost ==
    ASSUME TypeOK, NEW c \in Calls, NEW j \in Tokens, AtKey(c, j), Ends(c)
    PROVE  <<j, c>> \in Claims /\ Claims' = Claims \ {<<j, c>>}
<1> DEFINE k == [at |-> "free"]
<1>0. k.at \notin {"del", "mark"} /\ Goto(c, k)
  BY DEF Ends
<1> HIDE DEF k
<1>1. \A i \in Tokens : AtKey(c, i) <=> i = j
  BY DEF AtKey
<1>2. \A i \in Tokens, d \in Calls :
         <<i, d>> \in Claims' <=> (<<i, d>> \in Claims /\ ~(d = c /\ i = j))
  BY <1>0, <1>1, OwnClaims
<1>3. <<j, c>> \in Claims
  BY DEF Claims
<1> QED BY <1>2, <1>3, ClaimsArePairs

LEMMA ContractInit == Init => Contract!Init
<1> SUFFICES ASSUME Init PROVE Contract!Init
  OBVIOUS
<1>1. DOMAIN tokens = {} /\ Open = {}
  BY EmptyProperties DEF Init, Open
<1>2. Claims = {}
  BY DEF Init, Claims, AtKey
<1> QED BY <1>1, <1>2 DEF Init, Contract!Init, Open, Claims

(* A step that leaves the tokens alone opens none.                            *)
LEMMA OpenShrinks ==
    ASSUME TypeOK, CallsKnow, [Next]_vars, UNCHANGED tokens
    PROVE  Open' \subseteq Open
BY KeyStep DEF Open

LEMMA CloseOrStutter ==
    ASSUME CInv, [Next]_vars, UNCHANGED <<tokens, exchanges>>, Claims' = Claims
    PROVE  [Contract!Next]_(Contract!cvars)
<1>1. Open' \subseteq Open
  BY OpenShrinks DEF CInv
<1>2. \E S \in SUBSET Open : Open' = Open \ S
  <2>1. Open \ Open' \in SUBSET Open /\ Open' = Open \ (Open \ Open')
    BY <1>1
  <2> QED BY <2>1
<1>3. PICK S \in SUBSET Open : Open' = Open \ S
  BY <1>2
<1>4. Contract!Close(S)
  BY <1>3 DEF Contract!Close, Open, Claims
<1> QED BY <1>4 DEF Contract!Next, Open

(* Each step is a step of the contract or does not concern it.                *)
LEMMA ContractStep == CInv /\ [Next]_vars => [Contract!Next]_(Contract!cvars)
<1> SUFFICES ASSUME CInv, [Next]_vars PROVE [Contract!Next]_(Contract!cvars)
  OBVIOUS
<1>0. TypeOK /\ CallsKnow /\ Deleted
  BY DEF CInv
<1>1. CASE UNCHANGED vars \/ Tick
  <2>1. UNCHANGED <<tokens, exchanges, call>>
    BY <1>1 DEF vars, Tick
  <2>2. Claims' = Claims
    BY <2>1 DEF Claims, AtKey
  <2> QED BY <2>1, <2>2, CloseOrStutter
<1>2. ASSUME NEW j \in Tokens, CreateAccess(j) PROVE Contract!Issue(j)
  <2>1. Claims' = Claims /\ exchanges' = exchanges
    BY <1>2 DEF CreateAccess, Claims, AtKey
  <2>2. j \notin DOMAIN tokens /\ DOMAIN tokens' = DOMAIN tokens \cup {j}
    BY <1>2 DEF CreateAccess, Unused, Put
  <2>3. Open' = Open
    BY <1>2, <2>2 DEF CreateAccess, Unused, Open, Present
  <2> QED BY <2>1, <2>2, <2>3 DEF Contract!Issue, Open, Claims
<1>3. ASSUME NEW c \in Calls, NEW replied \in BOOLEAN, Store(c, replied)
      PROVE  [Contract!Next]_(Contract!cvars)
  <2> DEFINE j == call[c].token
  <2>1. j \in Tokens /\ j \notin DOMAIN tokens
    BY <1>0, <1>3, CallType DEF Store, CallsKnow
  <2>2. Claims' = Claims /\ exchanges' = exchanges
    <3>1. \A i \in Tokens : ~AtKey(c, i)
      BY <1>3 DEF Store, AtKey
    <3> QED BY <1>0, <1>3, <3>1, ClaimsKept DEF Store, Ends
  <2>3. \A i \in DOMAIN tokens : Present(refresh, i)' <=> Present(refresh, i)
    BY <1>3, <2>1 DEF Store, Present, Put
  <2>4. CASE replied
    <3>1. DOMAIN tokens' = DOMAIN tokens \cup {j}
      BY <1>3, <2>4 DEF Store, Put
    <3>2. Open' = Open \/ Open' = Open \cup {j}
      BY <2>3, <3>1 DEF Open
    <3>3. Contract!Issue(j)
      BY <2>1, <2>2, <3>1, <3>2 DEF Contract!Issue, Open, Claims
    <3> QED BY <2>1, <3>3 DEF Contract!Next
  <2>5. CASE ~replied
    BY <1>3, <2>2, <2>5, CloseOrStutter DEF Store
  <2> QED BY <2>4, <2>5
<1>4. ASSUME NEW c \in Calls, NEW j \in Tokens, NEW ttl \in RevokeTTLs, Revoke(c, j, ttl)
      PROVE  [Contract!Next]_(Contract!cvars)
  <2>1. \A i \in Tokens : ~AtKey(c, i)
    BY <1>4 DEF Revoke, AtKey
  <2>2. Claims' = Claims
    BY <1>0, <1>4, <2>1, ClaimsKept DEF Revoke
  <2> QED BY <1>4, <2>2, CloseOrStutter DEF Revoke
<1>5. ASSUME NEW c \in Calls, AskBlacklist(c) \/ (GetKey(c) /\ Ends(c))
      PROVE  [Contract!Next]_(Contract!cvars)
  <2>1. \A i \in Tokens : ~AtKey(c, i)
    BY <1>5 DEF AskBlacklist, GetKey, AtKey
  <2>2. Claims' = Claims
    BY <1>0, <1>5, <2>1, ClaimsKept DEF AskBlacklist, Ends
  <2> QED BY <1>5, <2>2, CloseOrStutter DEF AskBlacklist, GetKey
<1>6. ASSUME NEW c \in Calls, GetKey(c), ~Ends(c) PROVE [Contract!Next]_(Contract!cvars)
  <2> DEFINE j == call[c].token
  <2>1. j \in Tokens /\ j \in DOMAIN tokens /\ Present(refresh, j)
    BY <1>0, <1>6, CallType DEF GetKey, CallsKnow
  <2>2. /\ Claims' = Claims \cup {<<j, c>>}
        /\ \A i \in Tokens : <<i, c>> \notin Claims
    BY <1>0, <1>6, <2>1, ClaimGained DEF GetKey
  <2>3. Open' = Open /\ UNCHANGED <<DOMAIN tokens, exchanges>>
    BY <1>6, SameState DEF GetKey
  <2>4. j \in Open
    BY <2>1 DEF Open
  <2>5. Contract!Claim(j, c)
    BY <2>2, <2>3, <2>4 DEF Contract!Claim, Open, Claims
  <2> QED BY <2>1, <2>5 DEF Contract!Next
<1>7. ASSUME NEW c \in Calls, DelKey(c) PROVE [Contract!Next]_(Contract!cvars)
  <2>1. \A i \in Tokens : AtKey(c, i) <=> call[c].token = i
    BY <1>7 DEF DelKey, AtKey
  <2>2. Claims' = Claims
    BY <1>0, <1>7, <2>1, ClaimsKept DEF DelKey
  <2> QED BY <1>7, <2>2, CloseOrStutter DEF DelKey
<1>8. ASSUME NEW c \in Calls, NEW replied \in BOOLEAN, Mark(c, replied)
      PROVE  [Contract!Next]_(Contract!cvars)
  <2> DEFINE j == call[c].token
  <2>1. j \in Tokens /\ AtKey(c, j) /\ j \notin Open
    BY <1>0, <1>8, CallType DEF Mark, AtKey, Deleted, Open, Present
  <2>2. <<j, c>> \in Claims /\ Claims' = Claims \ {<<j, c>>}
    BY <1>0, <1>8, <2>1, ClaimLost DEF Mark
  <2>3. Open' = Open /\ UNCHANGED DOMAIN tokens
    BY <1>8, SameState DEF Mark
  <2>4. CASE replied
    <3>1. exchanges' = [exchanges EXCEPT ![j] = @ + 1]
      BY <1>8, <2>4 DEF Mark
    <3>2. Contract!Exchange(j, c)
      BY <2>1, <2>2, <2>3, <3>1 DEF Contract!Exchange, Open, Claims
    <3> QED BY <2>1, <3>2 DEF Contract!Next
  <2>5. CASE ~replied
    <3>1. exchanges' = exchanges
      BY <1>8, <2>5 DEF Mark
    <3>2. Contract!Abandon(j, c)
      BY <2>2, <2>3, <3>1 DEF Contract!Abandon, Open, Claims
    <3> QED BY <2>1, <3>2 DEF Contract!Next
  <2> QED BY <2>4, <2>5
<1>9. ASSUME NEW c \in Calls, NEW replied \in BOOLEAN, Erase(c, replied)
      PROVE  [Contract!Next]_(Contract!cvars)
  <2>1. \A i \in Tokens : ~AtKey(c, i)
    BY <1>9 DEF Erase, AtKey
  <2>2. Claims' = Claims
    BY <1>0, <1>9, <2>1, ClaimsKept DEF Erase, Ends
  <2> QED BY <1>9, <2>2, CloseOrStutter DEF Erase
<1>10. ASSUME NEW c \in Calls, Fail(c) PROVE [Contract!Next]_(Contract!cvars)
  <2>1. CASE \A i \in Tokens : ~AtKey(c, i)
    <3>1. Claims' = Claims
      BY <1>0, <1>10, <2>1, ClaimsKept DEF Fail, Ends
    <3> QED BY <1>10, <3>1, CloseOrStutter DEF Fail
  <2>2. ASSUME NEW j \in Tokens, AtKey(c, j) PROVE [Contract!Next]_(Contract!cvars)
    <3>1. <<j, c>> \in Claims /\ Claims' = Claims \ {<<j, c>>}
      BY <1>0, <1>10, <2>2, ClaimLost DEF Fail
    <3>2. Open' = Open /\ UNCHANGED <<DOMAIN tokens, exchanges>>
      BY <1>10, SameState DEF Fail
    <3>3. Contract!Abandon(j, c)
      BY <3>1, <3>2 DEF Contract!Abandon, Open, Claims
    <3> QED BY <3>3 DEF Contract!Next
  <2> QED BY <2>1, <2>2
<1>11. CASE \E j \in Tokens : CreateAccess(j)
  BY <1>2, <1>11 DEF Contract!Next
<1>12. CASE \E c \in Calls : Begin(c)
  <2>1. ASSUME NEW c \in Calls, NEW j \in Tokens, CreateRefresh(c, j) \/ Consume(c, j)
        PROVE  [Contract!Next]_(Contract!cvars)
    <3>1. \A i \in Tokens : ~AtKey(c, i)
      BY <2>1 DEF CreateRefresh, Consume, AtKey
    <3>2. Claims' = Claims
      BY <1>0, <2>1, <3>1, ClaimsKept DEF CreateRefresh, Consume
    <3> QED BY <2>1, <3>2, CloseOrStutter DEF CreateRefresh, Consume
  <2> QED BY <1>4, <1>12, <2>1 DEF Begin
<1> QED BY <1>1, <1>3, <1>5, <1>6, <1>7, <1>8, <1>9, <1>10, <1>11, <1>12 DEF Next, Continue

(* The exchange of refresh tokens implements its contract, whatever the       *)
(* lifetimes: what closes stays closed, and every exchange is by a claim.     *)
THEOREM Refinement == Spec => ImplementsContract
<1>1. Init => Deleted
  BY DEF Init, Deleted
<1>2. CInv /\ [Next]_vars => CInv'
  BY TypeStep, KnowsStep, DeletedStep DEF CInv
<1>3. Init => CInv
  BY <1>1, InitType, InitKnows DEF CInv
<1> QED BY <1>2, <1>3, ContractInit, ContractStep, PTL DEF Spec, ImplementsContract, Contract!Spec
=============================================================================
