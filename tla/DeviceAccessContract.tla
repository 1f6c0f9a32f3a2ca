------------------------ MODULE DeviceAccessContract ------------------------
(***************************************************************************)
(* What access promises, without calls, awaits, versions or the columns of *)
(* a row.  A device is live until it is revoked or deleted, and never live *)
(* again, although a deleted one may come back.  With its life end, in the *)
(* same instant, all the tokens accepted for it; a token is accepted from  *)
(* when it is signed or never, and one signed for a certificate is signed  *)
(* for the device on record for it.  A certificate stays on record until   *)
(* its device is deleted: revocation takes none away.                      *)
(***************************************************************************)
EXTENDS Tables

CONSTANTS
    Devices,      \* the devices an operator has put into `devices`
    Serials,      \* certificate serials
    NoSerial,     \* a token minted without a certificate has no certSerial
    Tokens        \* the jtis uuidv4() may return

VARIABLES
    known,        \* the devices that have a row
    live,         \* those of them that have neither been revoked nor deleted
    holder,       \* certificate serial -> the device it is recorded for
    signed,       \* the jtis in use
    accepted      \* jti -> what the tokens that are accepted were signed for

cvars == <<known, live, holder, signed, accepted>>

Init ==
    /\ known = Devices
    /\ live = Devices
    /\ DOMAIN holder \subseteq Serials
    /\ holder \in [DOMAIN holder -> Devices]
    /\ signed = {}
    /\ accepted = Empty

\* The serial is left to the implementation: any that is not on record.
Record(d) ==
    /\ d \in known
    /\ \E s \in DOMAIN holder' \cap Serials :
          /\ s \notin DOMAIN holder
          /\ holder' = Put(holder, s, d)
    /\ UNCHANGED <<known, live, signed, accepted>>

Accept(j, d, s) ==
    /\ j \notin signed
    /\ d \in live
    /\ s # NoSerial => holder[s] = d
    /\ signed' = signed \cup {j}
    /\ accepted' = Put(accepted, j, [device |-> d, serial |-> s])
    /\ UNCHANGED <<known, live, holder>>

\* A token signed too late, for a device that has been retired meanwhile.
SignInVain(j) ==
    /\ j \notin signed
    /\ signed' = signed \cup {j}
    /\ UNCHANGED <<known, live, holder, accepted>>

\* Device d is live no more.
Retire(d) ==
    /\ live' = live \ {d}
    /\ accepted' = Drop(accepted, {j \in DOMAIN accepted : accepted[j].device = d})
    /\ UNCHANGED signed

Revoke(d) ==
    /\ d \in live
    /\ Retire(d)
    /\ UNCHANGED <<known, holder>>

Delete(d) ==
    /\ d \in known
    /\ Retire(d)
    /\ known' = known \ {d}
    /\ holder' = Drop(holder, {s \in DOMAIN holder : holder[s] = d})

\* A deleted device comes back: without its certificates, and not to life.
Return(d) ==
    /\ d \notin known
    /\ known' = known \cup {d}
    /\ UNCHANGED <<live, holder, signed, accepted>>

Next ==
    \/ \E d \in Devices : Record(d) \/ Revoke(d) \/ Delete(d) \/ Return(d)
    \/ \E j \in Tokens, d \in Devices, s \in DOMAIN holder \cup {NoSerial} : Accept(j, d, s)
    \/ \E j \in Tokens : SignInVain(j)

Spec == Init /\ [][Next]_cvars
=============================================================================
