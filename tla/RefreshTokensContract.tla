------------------------ MODULE RefreshTokensContract ------------------------
(***************************************************************************)
(* What the exchange of refresh tokens promises, without Redis, lifetimes  *)
(* or the steps of a call: a token is open for exchange from when it is    *)
(* issued or never, and once closed is closed for good; who finds it open  *)
(* has a claim to one exchange, which it can make when the token has been  *)
(* closed, or lose.  Nobody without a claim exchanges anything, but nothing*)
(* is said of how many may find the token open together.                   *)
(***************************************************************************)
EXTENDS Naturals

CONSTANTS
    Tokens,       \* the jtis uuidv4() may return
    Parties       \* who may ask for an exchange

VARIABLES
    issued,       \* the tokens handed out
    open,         \* those of them that can still be claimed
    claims,       \* <<token, party>>
    exchanged     \* how many exchanges have been made, per token

cvars == <<issued, open, claims, exchanged>>

Init ==
    /\ issued = {}
    /\ open = {}
    /\ claims = {}
    /\ exchanged = [j \in Tokens |-> 0]

\* An access token is closed from the start.
Issue(j) ==
    /\ j \notin issued
    /\ issued' = issued \cup {j}
    /\ open' \in {open, open \cup {j}}
    /\ UNCHANGED <<claims, exchanged>>

Claim(j, p) ==
    /\ j \in open
    /\ \A i \in Tokens : <<i, p>> \notin claims
    /\ claims' = claims \cup {<<j, p>>}
    /\ UNCHANGED <<issued, open, exchanged>>

Close(S) ==
    /\ open' = open \ S
    /\ UNCHANGED <<issued, claims, exchanged>>

Exchange(j, p) ==
    /\ <<j, p>> \in claims
    /\ j \notin open
    /\ claims' = claims \ {<<j, p>>}
    /\ exchanged' = [exchanged EXCEPT ![j] = @ + 1]
    /\ UNCHANGED <<issued, open>>

\* A claim is lost: its party fails, or does not hear of its exchange.
Abandon(j, p) ==
    /\ <<j, p>> \in claims
    /\ claims' = claims \ {<<j, p>>}
    /\ UNCHANGED <<issued, open, exchanged>>

Next ==
    \/ \E j \in Tokens : Issue(j)
    \/ \E j \in Tokens, p \in Parties : Claim(j, p) \/ Exchange(j, p) \/ Abandon(j, p)
    \/ \E S \in SUBSET open : Close(S)

Spec == Init /\ [][Next]_cvars
=============================================================================
