--------------------------- MODULE AccountsContract ---------------------------
(***************************************************************************)
(* What accounts promise, without passwords, usernames, claims or the      *)
(* steps of a call.  An account is opened under an address in its normal   *)
(* form that no other has, and is never renamed or closed.  A grant is a   *)
(* registration whose token is resolved to its account and to it only:     *)
(* nothing but its expiry ends it.  No grant is promised to a login.       *)
(***************************************************************************)
EXTENDS Tables

CONSTANTS
    Accounts,     \* the accounts there may be
    Addresses,    \* the writings of the e-mail addresses
    Normal        \* the normal form of each

VARIABLES
    address,      \* account -> its address, of the accounts opened
    granted       \* the accounts with a grant

Init ==
    /\ address = Empty
    /\ granted = {}

Open(i, n) ==
    /\ i \notin DOMAIN address
    /\ Normal[n] = n
    /\ \A j \in DOMAIN address : address[j] # n
    /\ address' = Put(address, i, n)
    /\ UNCHANGED granted

Grant(i) ==
    /\ i \in DOMAIN address
    /\ granted' = granted \cup {i}
    /\ UNCHANGED address

Lapse(i) ==
    /\ i \in granted
    /\ granted' = granted \ {i}
    /\ UNCHANGED address

Next ==
    \/ \E i \in Accounts, n \in Addresses : Open(i, n)
    \/ \E i \in Accounts : Grant(i) \/ Lapse(i)

Spec == Init /\ [][Next]_<<address, granted>>
=============================================================================
