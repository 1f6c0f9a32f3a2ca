----------------------------- MODULE Enrollment -----------------------------
(***************************************************************************)
(* Device enrollment: EnrollController and EnrollService                   *)
(* (src/device/enroll.controller.ts, src/device/enroll.service.ts).        *)
(*                                                                         *)
(* POST /device/enroll/challenge stores a nonce; POST /device/enroll/verify*)
(* checks it, marks it used, has openssl sign the CSR, records the         *)
(* certificate and returns it.  An action is the code from one `await` to  *)
(* the next together with the database statement (or the access of the CA  *)
(* serial file) it waits for, so every interleaving of concurrent requests *)
(* at an await is a behaviour, and so is a crash between any two of them.  *)
(***************************************************************************)
EXTENDS Integers, Tables

CONSTANTS
    Devices,      \* device ids a caller may name
    Registered,   \* device ids with a row in `devices` (device_certs.device FK)
    Nonces,       \* what randomUUID() may return
    Requests,     \* the verify requests of a behaviour
    NonceTTL,     \* the two minutes of createNonce, in ticks
    MaxClock      \* bound: the last tick of the model's clock

ASSUME RegisteredAssumption == Registered \subseteq Devices
ASSUME ClockAssumption == NonceTTL \in Nat /\ MaxClock \in Nat

VARIABLES
    clock,        \* Date.now()
    nonces,       \* table device_nonces: nonce -> row
    certs,        \* table device_certs: serial -> row (and, as history, the
                  \* request that inserted it)
    caSerial,     \* the number in the CA's .srl file
    call,         \* the body of each verify request
    serial,       \* local of verifyAndIssue: the serial openssl gave
    pc            \* how far each verify request has got, or its answer

vars == <<clock, nonces, certs, caSerial, call, serial, pc>>

-----------------------------------------------------------------------------

NonceRow == [deviceId : Devices, expiresAt : Nat, used : BOOLEAN]
CertRow  == [deviceId : Devices, by : Requests]
Body     == [deviceId : Devices, nonce : Nonces]

\* A request between its first and its last await, named after what it has
\* done: passed the checks, marked the nonce, read the serial file, had the
\* certificate signed, stored its metadata.
InFlight == {"checked", "spent", "signing", "signed", "stored"}
Answered == {"cert", "400", "403", "500"}
\* "lost": the process died and nobody will answer.
Final    == Answered \cup {"lost"}

TypeOK ==
    /\ clock \in Nat
    /\ DOMAIN nonces \subseteq Nonces
    /\ nonces \in [DOMAIN nonces -> NonceRow]
    /\ DOMAIN certs \subseteq Nat
    /\ certs \in [DOMAIN certs -> CertRow]
    /\ caSerial \in Nat
    /\ call \in [Requests -> Body]
    /\ serial \in [Requests -> Nat]
    /\ pc \in [Requests -> {"idle"} \cup InFlight \cup Final]

Init ==
    /\ clock = 0
    /\ nonces = Empty
    /\ certs = Empty
    /\ caSerial = 0
    /\ call \in [Requests -> Body]
    /\ serial = [r \in Requests |-> 0]
    /\ pc = [r \in Requests |-> "idle"]

-----------------------------------------------------------------------------

\* Mutant of Challenge: the TTL is subtracted instead of added.
ChallengeInThePast(n, d) ==
    /\ n \notin DOMAIN nonces
    /\ nonces' = Put(nonces, n, [deviceId |-> d, expiresAt |-> clock - NonceTTL, used |-> FALSE])
    /\ UNCHANGED <<clock, certs, caSerial, call, serial, pc>>

\* createNonce.  Neither the controller nor the table relates the device id to
\* a row of `devices`, so any id is granted a nonce.  The tables are taken to
\* have the columns that the SQL text names.
\* MaxClock bounds the model: only nonces whose expiry the clock reaches.
Challenge(n, d) ==
    /\ n \notin DOMAIN nonces
    /\ clock + NonceTTL < MaxClock
    /\ nonces' = Put(nonces, n, [deviceId |-> d, expiresAt |-> clock + NonceTTL, used |-> FALSE])
    /\ UNCHANGED <<clock, certs, caSerial, call, serial, pc>>

\* Mutant of NonceAccepted: the row may be another device's.
AcceptedForAnyDevice(n, d) ==
    n \in DOMAIN nonces /\ ~nonces[n].used /\ ~(nonces[n].expiresAt < clock)

\* Mutant of NonceAccepted: the used mark is not looked at.
AcceptedThoughUsed(n, d) ==
    n \in DOMAIN nonces /\ nonces[n].deviceId = d /\ ~(nonces[n].expiresAt < clock)

\* The row passes lines 27-31: it exists, names the caller's device, is not
\* marked and has not expired (an expiry equal to the current time passes).
NonceAccepted(n, d) ==
    /\ n \in DOMAIN nonces
    /\ nonces[n].deviceId = d
    /\ ~nonces[n].used
    /\ ~(nonces[n].expiresAt < clock)

\* SELECT, then all the checks, synchronously.  Every rejection is a 400 except
\* a signature over the nonce that does not verify, a 403.
Verify(r, csrValid, signatureValid) ==
    /\ pc[r] = "idle"
    /\ LET accepted == NonceAccepted(call[r].nonce, call[r].deviceId) /\ csrValid IN
       \/ ~accepted /\ pc' = [pc EXCEPT ![r] = "400"]
       \/ accepted /\ ~signatureValid /\ pc' = [pc EXCEPT ![r] = "403"]
       \/ accepted /\ signatureValid /\ pc' = [pc EXCEPT ![r] = "checked"]
    /\ UNCHANGED <<clock, nonces, certs, caSerial, call, serial>>

\* UPDATE device_nonces SET used = true: not conditional on used = false, and
\* the number of rows it changed is not looked at.
Spend(r) ==
    /\ pc[r] = "checked"
    /\ nonces' = [nonces EXCEPT ![call[r].nonce].used = TRUE]
    /\ pc' = [pc EXCEPT ![r] = "spent"]
    /\ UNCHANGED <<clock, certs, caSerial, call, serial>>

\* openssl x509 -req -CAcreateserial reads the serial file and adds one ...
LoadSerial(r) ==
    /\ pc[r] = "spent"
    /\ serial' = [serial EXCEPT ![r] = caSerial + 1]
    /\ pc' = [pc EXCEPT ![r] = "signing"]
    /\ UNCHANGED <<clock, nonces, certs, caSerial, call>>

\* Mutant of SaveSerial: the file is written only if no one else has, and
\* nobody reads it again.
SaveSerialIfUnchanged(r) ==
    /\ pc[r] = "signing"
    /\ serial[r] = caSerial + 1
    /\ caSerial' = serial[r]
    /\ pc' = [pc EXCEPT ![r] = "signed"]
    /\ UNCHANGED <<clock, nonces, certs, call, serial>>

\* ... and writes it back without a lock; then it signs, and the service reads
\* the certificate, its serial and its dates back from the temporary directory.
SaveSerial(r) ==
    /\ pc[r] = "signing"
    /\ caSerial' = serial[r]
    /\ pc' = [pc EXCEPT ![r] = "signed"]
    /\ UNCHANGED <<clock, nonces, certs, call, serial>>

\* The row a request inserts for its certificate.
OwnRow(r) == [deviceId |-> call[r].deviceId, by |-> r]

\* Mutant of Insertable: serialNumber is not unique, the last row wins.
InsertableTwice(r) == call[r].deviceId \in Registered

\* The constraints of device_certs: a unique serial, a device that has a row.
Insertable(r) == serial[r] \notin DOMAIN certs /\ call[r].deviceId \in Registered

\* Mutant of Insert: a rejected INSERT is logged and forgotten.
InsertBestEffort(r) ==
    /\ pc[r] = "signed"
    /\ certs' = IF Insertable(r) THEN Put(certs, serial[r], OwnRow(r)) ELSE certs
    /\ pc' = [pc EXCEPT ![r] = "stored"]
    /\ UNCHANGED <<clock, nonces, caSerial, call, serial>>

\* INSERT INTO device_certs: rejected (500) when the serial is taken (unique)
\* or the device has no row (foreign key); the nonce stays used.
Insert(r) ==
    /\ pc[r] = "signed"
    /\ \/ /\ Insertable(r)
          /\ certs' = Put(certs, serial[r], OwnRow(r))
          /\ pc' = [pc EXCEPT ![r] = "stored"]
       \/ /\ ~Insertable(r)
          /\ pc' = [pc EXCEPT ![r] = "500"]
          /\ UNCHANGED certs
    /\ UNCHANGED <<clock, nonces, caSerial, call, serial>>

\* The controller returns { cert }.
Respond(r) ==
    /\ pc[r] = "stored"
    /\ pc' = [pc EXCEPT ![r] = "cert"]
    /\ UNCHANGED <<clock, nonces, certs, caSerial, call, serial>>

\* An await of verifyAndIssue rejects: a query error, an error of the file
\* system, a failing openssl.  The exception reaches Nest, which answers 500.
\* A statement that took effect although its reply was lost is the statement's
\* own action followed by this one.
Fail(r) ==
    /\ pc[r] \in {"idle"} \cup InFlight
    /\ pc' = [pc EXCEPT ![r] = "500"]
    /\ UNCHANGED <<clock, nonces, certs, caSerial, call, serial>>

\* The process dies and is started again: the requests in flight are gone, the
\* tables and the CA's serial file remain.
Crash ==
    /\ \E r \in Requests : pc[r] \in InFlight
    /\ pc' = [r \in Requests |-> IF pc[r] \in InFlight THEN "lost" ELSE pc[r]]
    /\ UNCHANGED <<clock, nonces, certs, caSerial, call, serial>>

Tick ==
    /\ clock < MaxClock
    /\ clock' = clock + 1
    /\ UNCHANGED <<nonces, certs, caSerial, call, serial, pc>>

\* The steps the server takes by itself for a request it has received.
Step(r) ==
    \/ \E csrValid, signatureValid \in BOOLEAN : Verify(r, csrValid, signatureValid)
    \/ Spend(r)
    \/ LoadSerial(r)
    \/ SaveSerial(r)
    \/ Insert(r)
    \/ Respond(r)

Next ==
    \/ \E n \in Nonces, d \in Devices : Challenge(n, d)
    \/ \E r \in Requests : Step(r) \/ Fail(r)
    \/ Crash
    \/ Tick

Spec == Init /\ [][Next]_vars

-----------------------------------------------------------------------------

\* The requests that have passed the checks on nonce n and may still insert a
\* certificate for it.
Holders(n) == {r \in Requests : call[r].nonce = n
                                /\ pc[r] \in {"checked", "spent", "signing", "signed"}}

CertsFor(n) == {s \in DOMAIN certs : call[certs[s].by].nonce = n}

\* A nonce is sealed when a verify request that starts now cannot pass on it
\* (it is used or expired) and no earlier one is still under way.
Sealed(n) ==
    /\ n \in DOMAIN nonces
    /\ nonces[n].used \/ nonces[n].expiresAt < clock
    /\ Holders(n) = {}

(* A certificate is on record only for a nonce that is marked used and was    *)
(* granted to the same, registered device: whatever requests overlap and      *)
(* wherever they fail, lines 26-57 never let a certificate in before its      *)
(* nonce has been consumed or under another device's nonce.                   *)
CertRequiresSpentNonce ==
    \A s \in DOMAIN certs :
        LET n == call[certs[s].by].nonce IN
        /\ n \in DOMAIN nonces
        /\ nonces[n].used
        /\ nonces[n].deviceId = certs[s].deviceId
        /\ certs[s].deviceId \in Registered

(* A certificate that reaches its device is the one on record under its       *)
(* serial, inserted by the same request.  Two requests can get the same       *)
(* serial from openssl (the .srl file is read and written without a lock), so *)
(* this says that the database refuses the second before it is delivered.     *)
DeliveredCertIsOwn ==
    \A r \in Requests : pc[r] = "cert" =>
        /\ serial[r] \in DOMAIN certs
        /\ certs[serial[r]] = OwnRow(r)

(* The inductive invariant behind the three above: from the checks on, a      *)
(* request holds a nonce granted to the device it names; past the UPDATE that *)
(* nonce is used; past the INSERT its serial carries its own row.             *)
IInv ==
    /\ TypeOK
    /\ CertRequiresSpentNonce
    /\ \A r \in Requests :
          /\ pc[r] \in InFlight \cup {"cert"} =>
                /\ call[r].nonce \in DOMAIN nonces
                /\ nonces[call[r].nonce].deviceId = call[r].deviceId
          /\ pc[r] \in {"spent", "signing", "signed", "stored", "cert"} =>
                nonces[call[r].nonce].used
          /\ pc[r] \in {"stored", "cert"} =>
                /\ serial[r] \in DOMAIN certs
                /\ certs[serial[r]] = OwnRow(r)

(* What single use of a nonce amounts to in this code: once a nonce is used   *)
(* or expired and the requests that had already passed the checks are over,   *)
(* it stays so and no certificate is added for it, through crashes, retries   *)
(* and late answers (lines 30-31, 49).                                        *)
SealedNonceStaysSealed ==
    [][\A n \in Nonces : Sealed(n) => Sealed(n)' /\ CertsFor(n)' = CertsFor(n)]_vars

(* The granted nonces are all sealed in the end, used or not, and stay so: the*)
(* check on the expiry date closes the ones nobody spends.                    *)
EveryNonceSealed == <>[](\A n \in DOMAIN nonces : Sealed(n))

(* The state of the contract, read from the tables and the answers.           *)
Granted   == [n \in DOMAIN nonces |-> nonces[n].deviceId]
Spent     == {n \in DOMAIN nonces : nonces[n].used}
Registry  == [s \in DOMAIN certs |-> call[certs[s].by].nonce]
Served    == {r \in Requests : pc[r] = "cert"}
Delivered == {serial[r] : r \in Served}

Contract == INSTANCE EnrollmentContract WITH
    granted <- Granted, spent <- Spent, registry <- Registry, delivered <- Delivered

(* Enrollment implements its contract: every statement, answer, failure and   *)
(* crash is a step of EnrollmentContract or invisible to it.                  *)
ImplementsContract == Contract!Spec

(* READme.md:107 "Nonce is single-use.": at most one certificate is on record *)
(* for a nonce.                                                               *)
NonceSingleUse ==
    \A s, t \in DOMAIN certs : call[certs[s].by].nonce = call[certs[t].by].nonce => s = t

\* No two requests have passed the checks on one nonce and not marked it yet:
\* what a conditional UPDATE, or a lock on the row, would see to.
NoRace ==
    \A q, r \in Requests :
        pc[q] = "checked" /\ pc[r] = "checked" /\ call[q].nonce = call[r].nonce => q = r

(* No two delivered certificates carry one serial, although openssl may give  *)
(* the same serial to two requests.                                           *)
DeliveredSerialsDiffer ==
    \A q, r \in Served : serial[q] = serial[r] => q = r
=============================================================================
