------------------------- MODULE EnrollmentContract -------------------------
(***************************************************************************)
(* What enrollment promises, without requests, awaits, the clock or the    *)
(* certificate authority: a challenge grants a nonce to a device, a nonce  *)
(* is spent, certificates are registered for spent nonces of registered    *)
(* devices only, and a certificate reaches a device once, after it has     *)
(* been registered.  Nothing granted, spent or registered is ever undone,  *)
(* whatever fails in between.                                              *)
(***************************************************************************)
EXTENDS Tables

CONSTANTS
    Devices,      \* device ids a caller may name
    Registered,   \* the device ids that have a row in `devices`
    Nonces        \* one-time challenges

VARIABLES
    granted,      \* nonce -> the device it was granted to
    spent,        \* the nonces that have been consumed
    registry,     \* certificate serial -> the nonce it was issued for
    delivered     \* serials of the certificates handed to a device

cvars == <<granted, spent, registry, delivered>>

Init ==
    /\ granted = Empty
    /\ spent = {}
    /\ registry = Empty
    /\ delivered = {}

Grant(n, d) ==
    /\ n \notin DOMAIN granted
    /\ granted' = Put(granted, n, d)
    /\ UNCHANGED <<spent, registry, delivered>>

Consume(n) ==
    /\ n \in DOMAIN granted
    /\ spent' = spent \cup {n}
    /\ UNCHANGED <<granted, registry, delivered>>

\* The serial is left to the implementation: any that is not in use.
Register(n) ==
    /\ n \in spent
    /\ granted[n] \in Registered
    /\ \E s \in DOMAIN registry' :
          /\ s \notin DOMAIN registry
          /\ registry' = Put(registry, s, n)
    /\ UNCHANGED <<granted, spent, delivered>>

Deliver(s) ==
    /\ s \in DOMAIN registry \ delivered
    /\ delivered' = delivered \cup {s}
    /\ UNCHANGED <<granted, spent, registry>>

Next ==
    \/ \E n \in Nonces, d \in Devices : Grant(n, d)
    \/ \E n \in Nonces : Consume(n) \/ Register(n)
    \/ \E s \in DOMAIN registry : Deliver(s)

Spec == Init /\ [][Next]_cvars
=============================================================================
