------------------------- MODULE MCDeviceLifecycle -------------------------
(***************************************************************************)
(* DeviceLifecycle on a small instance: two verify requests, for d1 and d2 *)
(* with a nonce each, or both for d1 and one nonce.                        *)
(***************************************************************************)
EXTENDS DeviceLifecycle

CONSTANTS d1, d2, n1, n2, r1, r2, u1

MCOwner == [d \in Devices |-> u1]
First  == [deviceId |-> d1, nonce |-> n1]
Second == [deviceId |-> d2, nonce |-> n2]
MCBodies == {[r \in Requests |-> IF r = r1 THEN First ELSE Second],
             [r \in Requests |-> First]}
=============================================================================
