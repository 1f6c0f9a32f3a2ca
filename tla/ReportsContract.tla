---------------------------- MODULE ReportsContract ----------------------------
(***************************************************************************)
(* What the report endpoints promise: a report is published once, whole,   *)
(* and can be had until its owner asks for its removal or its device is    *)
(* deleted; it never comes back.                                           *)
(***************************************************************************)
CONSTANTS Owners, Devices, NoDevice, Ids

VARIABLES
    published,     \* the reports to be had: id -> owner and device
    asked,         \* the users whose request for its removal was let through
    known          \* the ids that have been published

vars == <<published, asked, known>>

Init ==
    /\ published = [i \in {} |-> i]
    /\ asked = [i \in Ids |-> {}]
    /\ known = {}

Publish(i, r) ==
    /\ i \notin known
    /\ published' = [j \in DOMAIN published \cup {i} |-> IF j = i THEN r ELSE published[j]]
    /\ known' = known \cup {i}
    /\ UNCHANGED asked

Ask(i) ==
    /\ i \in DOMAIN published
    /\ asked' = [asked EXCEPT ![i] = @ \cup {published[i].owner}]
    /\ UNCHANGED <<published, known>>

\* The reports of S are gone.
Drops(S) ==
    /\ published' = [j \in DOMAIN published \ S |-> published[j]]
    /\ UNCHANGED <<asked, known>>

Withdraw(i) ==
    /\ i \in DOMAIN published
    /\ published[i].owner \in asked[i]
    /\ Drops({i})

Cascade(d) == Drops({i \in DOMAIN published : published[i].device = d})

Next ==
    \/ \E i \in Ids :
          \/ \E u \in Owners, d \in Devices \cup {NoDevice} :
                Publish(i, [owner |-> u, device |-> d])
          \/ Ask(i)
          \/ Withdraw(i)
    \/ \E d \in Devices : Cascade(d)

Spec == Init /\ [][Next]_vars
=============================================================================
