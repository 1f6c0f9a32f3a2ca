-------------------------- MODULE DeviceLifecycle --------------------------
(***************************************************************************)
(* A device from its enrollment to its deletion: Enrollment and            *)
(* DeviceAccess over the tables they share, `devices` and `device_certs`.  *)
(* In one process, EnrollService inserts the certificates that             *)
(* DeviceCertGuard and DeviceAuthService look up; DeviceService.delete     *)
(* takes them away with the device, and Repository.save may bring the      *)
(* device back without them.                                               *)
(*                                                                         *)
(* Left to DeviceAccess alone: suspension (every device is active here),   *)
(* the blacklist, validate and ping, which only read what is here, tokens  *)
(* minted without a certificate, and registerCert, which no code calls.    *)
(***************************************************************************)
EXTENDS Integers, Tables

CONSTANTS
    Devices, Users, Owner, Tokens, Calls, MaxVersion, NoSerial,  \* of DeviceAccess
    Nonces, Requests, NonceTTL, MaxClock,                        \* of Enrollment
    Bodies       \* bound: what the verify requests may carry

VARIABLES
    clock, nonces, caSerial, body, serial, pc,   \* of Enrollment (body: its call)
    devices, tokens, blacklist, call,            \* of DeviceAccess
    certs                                        \* of both: serial -> row

enrollVars == <<clock, nonces, caSerial, body, serial, pc>>
accessVars == <<devices, tokens, blacklist, call>>
vars == <<enrollVars, accessVars, certs>>

\* Any device may be a row of `devices`; which ones are is InsertCert's matter.
E == INSTANCE Enrollment WITH Registered <- Devices, call <- body

\* What the guard and the services read of device_certs.
A == INSTANCE DeviceAccess WITH
        Serials <- Nat, certs <- [s \in DOMAIN certs |-> certs[s].deviceId]

ASSUME LifecycleAssumption ==
    /\ NoSerial \notin Nat
    /\ Bodies \subseteq [Requests -> E!Body]
    /\ E!ClockAssumption /\ A!OwnerAssumption /\ A!MaxVersionAssumption

TypeOK == E!TypeOK /\ A!TypeOK

\* An operator has put the devices into the table; none is enrolled.
Init ==
    /\ body \in Bodies
    /\ E!Init
    /\ devices = [d \in Devices |-> A!NewRow("active")]
    /\ tokens = Empty
    /\ blacklist = {}
    /\ call = [c \in Calls |-> [at |-> "free"]]

-----------------------------------------------------------------------------

\* INSERT INTO device_certs.  The foreign key looks at the table as it is now:
\* the device may have been deleted since its nonce was granted.
InsertCert(r) ==
    \/ body[r].deviceId \in DOMAIN devices /\ E!Insert(r)
    \/ /\ pc[r] = "signed"
       /\ body[r].deviceId \notin DOMAIN devices
       /\ pc' = [pc EXCEPT ![r] = "500"]
       /\ UNCHANGED <<clock, nonces, certs, caSerial, body, serial>>

\* The other steps of a verify request.
Issue(r) ==
    \/ \E csrValid, signatureValid \in BOOLEAN : E!Verify(r, csrValid, signatureValid)
    \/ E!Spend(r)
    \/ E!LoadSerial(r)
    \/ E!SaveSerial(r)
    \/ E!Respond(r)

VerifyStep(r) == (InsertCert(r) \/ Issue(r)) /\ UNCHANGED accessVars

\* A client asks for a nonce, or an await of a verify request rejects.
EnrollOther ==
    /\ \/ \E n \in Nonces, d \in Devices : E!Challenge(n, d)
       \/ \E r \in Requests : E!Fail(r)
    /\ UNCHANGED accessVars

Tick == E!Tick /\ UNCHANGED accessVars

\* DELETE FROM devices; the rows of device_certs go with it.
DeleteDevice(c) ==
    /\ call[c].at = "remove"
    /\ certs' = Drop(certs, {s \in DOMAIN certs : certs[s].deviceId = call[c].device})
    /\ A!DeleteRemove(c)
    /\ UNCHANGED enrollVars

\* An operator's DELETE FROM devices, at any time: between the statements of a
\* revokeDevice, too, which then inserts the device again.
OperatorDeletes(d) ==
    /\ d \in DOMAIN devices
    /\ devices' = Drop(devices, {d})
    /\ certs' = Drop(certs, {s \in DOMAIN certs : certs[s].deviceId = d})
    /\ UNCHANGED <<enrollVars, tokens, blacklist, call>>

\* The other statements that continue a call.
CallStep(c) ==
    /\ UNCHANGED certs
    /\ \/ A!Touch(c)
       \/ A!MintRead(c)
       \/ \E j \in Tokens : A!CertCheck(c, j)
       \/ A!SaveLoad(c) \/ A!SaveUpdate(c) \/ A!SaveInsert(c)
    /\ UNCHANGED enrollVars

Continue(c) == DeleteDevice(c) \/ CallStep(c)

\* A call begins, fails or has ended.  A client presents a certificate that
\* openssl has signed, recorded or not, or one under a serial not yet in use.
CallOther(c) ==
    /\ UNCHANGED certs
    /\ \/ \E s \in 1..caSerial + 1 : A!GuardLookup(c, s, "mint")
       \/ \E d \in Devices : A!RevokeRead(c, d)
       \/ \E d \in Devices, u \in Users : A!DeleteRead(c, u, d)
       \/ A!Fail(c)
       \/ A!Recycle(c)
    /\ UNCHANGED enrollVars

\* The one process dies and is started again: requests and calls are gone.
Crash ==
    /\ pc' = [r \in Requests |-> IF pc[r] \in E!InFlight THEN "lost" ELSE pc[r]]
    /\ call' = [c \in Calls |-> IF call[c].at \in {"free"} \cup A!Outcomes
                                THEN call[c] ELSE [at |-> "500"]]
    /\ <<pc, call>>' # <<pc, call>>
    /\ UNCHANGED <<clock, nonces, caSerial, body, serial, devices, tokens, blacklist, certs>>

Next ==
    \/ \E r \in Requests : VerifyStep(r)
    \/ EnrollOther
    \/ Tick
    \/ \E c \in Calls : Continue(c) \/ CallOther(c)
    \/ \E d \in Devices : OperatorDeletes(d)
    \/ Crash

Spec == Init /\ [][Next]_vars

\* Node's event loop resumes a request when the database, the file system or
\* openssl has answered, and time passes.  No fairness on challenges (clients need
\* not come), on operators, failures and crashes, or on the calls.
Fairness == (\A r \in Requests : WF_vars(VerifyStep(r))) /\ WF_vars(Tick)

FairSpec == Spec /\ Fairness

-----------------------------------------------------------------------------

(* A certificate that reached its device stays on record under its serial as  *)
(* that device's, as long as the device is live: not even a serial that       *)
(* openssl gave twice, freed by another device's deletion, or a device row    *)
(* that a stale save brought back, lets two live devices hold one serial      *)
(* (enroll.service.ts:53-57, device.service.ts:108-130).                      *)
HeldCertOnRecord ==
    \A r \in Requests : pc[r] = "cert" /\ A!Live(body[r].deviceId) =>
        /\ serial[r] \in DOMAIN certs
        /\ certs[serial[r]] = E!OwnRow(r)

(* A token that DeviceJwtStrategy accepts and that was minted over mTLS goes  *)
(* back to an enrollment: its serial is on record for the token's device by a *)
(* verify request whose nonce was granted to that very device and is used.    *)
TokenTracesToNonce ==
    \A j \in DOMAIN tokens : A!Current(j) /\ tokens[j].serial # NoSerial =>
        LET s == tokens[j].serial IN
        /\ s \in DOMAIN certs
        /\ LET n == body[certs[s].by].nonce IN
           /\ certs[s].deviceId = tokens[j].device
           /\ n \in DOMAIN nonces
           /\ nonces[n].deviceId = tokens[j].device
           /\ nonces[n].used

(* Beside enrollments, operators' deletions and crashes the device still keeps*)
(* the promises of DeviceAccessContract.                                      *)
ImplementsAccessContract == A!ImplementsContract

(* A sealed nonce stays sealed, and no certificate is added for it, although  *)
(* deletions free serials for requests that are under way.                    *)
SealedNonceStaysSealed ==
    [][\A n \in Nonces : E!Sealed(n) => E!Sealed(n)' /\ E!CertsFor(n)' \subseteq E!CertsFor(n)]_vars

(* Every nonce is sealed in the end, used or not, whatever enrollment and     *)
(* access do to each other and however long an access call takes.             *)
EveryNonceSealed == E!EveryNonceSealed
=============================================================================
