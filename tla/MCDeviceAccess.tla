--------------------------- MODULE MCDeviceAccess ---------------------------
(***************************************************************************)
(* DeviceAccess on small instances: every device belongs to the user u1.   *)
(***************************************************************************)
EXTENDS DeviceAccess, TLC

CONSTANTS u1, u2

MCUsers == {u1, u2}
MCOwner == [d \in Devices |-> u1]

\* Bound: three calls at a time and two revocations of a device are explored
\* while all but one device are as an operator put them in; when both devices have
\* been touched, two calls at a time and one revocation of each.
Untouched(d) ==
    /\ d \in DOMAIN devices /\ devices[d] = NewRow("active")
    /\ \A s \in DOMAIN certs : certs[s] # d
    /\ \A j \in DOMAIN tokens : tokens[j].device # d
    /\ \A c \in Calls : "device" \in DOMAIN call[c] => call[c].device # d

Overlap ==
    \/ /\ \E c \in Calls : call[c].at = "free"
       /\ \A d \in DOMAIN devices : devices[d].tokenVersion <= 1
    \/ \E d \in Devices : \A e \in Devices \ {d} : Untouched(e)

Symmetry == Permutations(Devices) \cup Permutations(Serials)
            \cup Permutations(Tokens) \cup Permutations(Calls)
=============================================================================
