----------------------- MODULE DeviceLifecycleProofs -----------------------
(***************************************************************************)
(* Theorems about DeviceLifecycle, from the lemmas of EnrollmentProofs and *)
(* DeviceAccessProofs about the steps of the two components.               *)
(***************************************************************************)
EXTENDS DeviceLifecycle, TLAPS

EP == INSTANCE EnrollmentProofs WITH Registered <- Devices, call <- body

AP == INSTANCE DeviceAccessProofs WITH
         Serials <- Nat, certs <- [s \in DOMAIN certs |-> certs[s].deviceId]

-----------------------------------------------------------------------------
\* The instances of this module are those of DeviceLifecycle.

LEMMA SameEnrollment ==
    /\ E!TypeOK <=> EP!TypeOK
    /\ E!Init => EP!Init
    /\ \A n, d : E!Challenge(n, d) => EP!Challenge(n, d)
    /\ \A r, v, w : E!Verify(r, v, w) => EP!Verify(r, v, w)
    /\ \A r : E!Spend(r) => EP!Spend(r)
    /\ \A r : E!LoadSerial(r) => EP!LoadSerial(r)
    /\ \A r : E!SaveSerial(r) => EP!SaveSerial(r)
    /\ \A r : E!Insert(r) => EP!Insert(r)
    /\ \A r : E!Respond(r) => EP!Respond(r)
    /\ \A r : E!Fail(r) => EP!Fail(r)
    /\ E!Tick => EP!Tick
<1>1. E!TypeOK <=> EP!TypeOK
  BY DEF E!TypeOK, EP!TypeOK, E!NonceRow, EP!NonceRow, E!CertRow, EP!CertRow, E!Body, EP!Body,
         E!InFlight, EP!InFlight, E!Final, EP!Final, E!Answered, EP!Answered
<1>2. E!Init => EP!Init
  BY DEF E!Init, EP!Init, E!Body, EP!Body, E!Empty, EP!Empty
<1>3. \A n, d : E!Challenge(n, d) => EP!Challenge(n, d)
  BY DEF E!Challenge, EP!Challenge, E!Put, EP!Put
<1>4. \A r, v, w : E!Verify(r, v, w) => EP!Verify(r, v, w)
  BY DEF E!Verify, EP!Verify, E!NonceAccepted, EP!NonceAccepted
<1>5. \A r : E!Spend(r) => EP!Spend(r)
  BY DEF E!Spend, EP!Spend
<1>6. \A r : E!LoadSerial(r) => EP!LoadSerial(r)
  BY DEF E!LoadSerial, EP!LoadSerial
<1>7. \A r : E!SaveSerial(r) => EP!SaveSerial(r)
  BY DEF E!SaveSerial, EP!SaveSerial
<1>8. \A r : E!Insert(r) => EP!Insert(r)
  BY DEF E!Insert, EP!Insert, E!Insertable, EP!Insertable, E!OwnRow, EP!OwnRow, E!Put, EP!Put
<1>9. \A r : E!Respond(r) => EP!Respond(r)
  BY DEF E!Respond, EP!Respond
<1>10. \A r : E!Fail(r) => EP!Fail(r)
  BY DEF E!Fail, EP!Fail, E!InFlight, EP!InFlight
<1>11. E!Tick => EP!Tick
  BY DEF E!Tick, EP!Tick
<1> QED
  BY <1>1, <1>2, <1>3, <1>4, <1>5, <1>6, <1>7, <1>8, <1>9, <1>10, <1>11

LEMMA SameAccess ==
    /\ \A c : A!Touch(c) => AP!Touch(c)
    /\ \A c : A!MintRead(c) => AP!MintRead(c)
    /\ \A c, j : A!CertCheck(c, j) => AP!CertCheck(c, j)
    /\ \A c : A!SaveLoad(c) => AP!SaveLoad(c)
    /\ \A c : A!SaveUpdate(c) => AP!SaveUpdate(c)
    /\ \A c : A!SaveInsert(c) => AP!SaveInsert(c)
    /\ \A c : A!DeleteRemove(c) => AP!DeleteRemove(c)
    /\ \A c, s, g : A!GuardLookup(c, s, g) => AP!GuardLookup(c, s, g)
    /\ \A c, d : A!RevokeRead(c, d) => AP!RevokeRead(c, d)
    /\ \A c, u, d : A!DeleteRead(c, u, d) => AP!DeleteRead(c, u, d)
    /\ \A c : A!Fail(c) => AP!Fail(c)
    /\ \A c : A!Recycle(c) => AP!Recycle(c)
<1> USE DEF A!Ends, AP!Ends, A!Goto, AP!Goto
<1>1. \A c : A!Touch(c) => AP!Touch(c)
  BY DEF A!Touch, AP!Touch
<1>2. \A c : A!MintRead(c) => AP!MintRead(c)
  BY DEF A!MintRead, AP!MintRead, A!Mintable, AP!Mintable
<1>3. \A c, j : A!CertCheck(c, j) => AP!CertCheck(c, j)
  BY DEF A!CertCheck, AP!CertCheck, A!Put, AP!Put
<1>4. \A c : A!SaveLoad(c) => AP!SaveLoad(c)
  BY DEF A!SaveLoad, AP!SaveLoad, A!Columns, AP!Columns
<1>5. \A c : A!SaveUpdate(c) => AP!SaveUpdate(c)
  BY DEF A!SaveUpdate, AP!SaveUpdate, A!Patched, AP!Patched
<1>6. \A c : A!SaveInsert(c) => AP!SaveInsert(c)
  BY DEF A!SaveInsert, AP!SaveInsert, A!Put, AP!Put
<1>7. \A c : A!DeleteRemove(c) => AP!DeleteRemove(c)
  BY DEF A!DeleteRemove, AP!DeleteRemove, A!Drop, AP!Drop
<1>8. \A c, s, g : A!GuardLookup(c, s, g) => AP!GuardLookup(c, s, g)
  <2>1. A!JtiLeft <=> AP!JtiLeft
    BY DEF A!JtiLeft, AP!JtiLeft, A!Minting, AP!Minting, A!Cardinality, AP!Cardinality
  <2> QED BY <2>1 DEF A!GuardLookup, AP!GuardLookup
<1>9. \A c, d : A!RevokeRead(c, d) => AP!RevokeRead(c, d)
  BY DEF A!RevokeRead, AP!RevokeRead
<1>10. \A c, u, d : A!DeleteRead(c, u, d) => AP!DeleteRead(c, u, d)
  BY DEF A!DeleteRead, AP!DeleteRead
<1>11. \A c : A!Fail(c) => AP!Fail(c)
  BY DEF A!Fail, AP!Fail, A!Outcomes, AP!Outcomes
<1>12. \A c : A!Recycle(c) => AP!Recycle(c)
  BY DEF A!Recycle, AP!Recycle, A!Outcomes, AP!Outcomes
<1> QED
  BY <1>1, <1>2, <1>3, <1>4, <1>5, <1>6, <1>7, <1>8, <1>9, <1>10, <1>11, <1>12

-----------------------------------------------------------------------------

(* The inductive invariant.  A row that a request has inserted is its own and *)
(* on record only as long as the device is live: its deletion takes the row   *)
(* away, and a device that a stale save brings back is revoked.               *)
Held(r) == AP!Live(body[r].deviceId) => EP!RowClaim(r)

IInv == EP!Grounded /\ AP!IInv /\ \A r \in Requests : Held(r)

LEMMA InitInv == Init => IInv
<1> SUFFICES ASSUME Init PROVE IInv
  OBVIOUS
<1>1. EP!Init
  BY SameEnrollment DEF Init
<1>2. EP!IInv
  BY <1>1, EP!InitInv, LifecycleAssumption DEF E!ClockAssumption
<1>3. EP!Grounded /\ \A r \in Requests : EP!RowClaim(r)
  BY <1>2, EP!IInvByClaims, LifecycleAssumption DEF E!ClockAssumption
<1>4. certs = E!Empty /\ DOMAIN certs = {}
  BY DEF Init, E!Init, E!Empty
<1>5. DOMAIN tokens = {} /\ DOMAIN Empty = {} /\ blacklist = {}
  BY DEF Init, Empty
<1>6. devices = [d \in Devices |-> A!NewRow("active")]
      /\ A!NewRow("active") \in AP!Row
  BY DEF Init, A!NewRow, AP!Row, AP!Statuses
<1>7. call = [c \in Calls |-> [at |-> "free"]] /\ [at |-> "free"] \in AP!Ended
  BY DEF Init, AP!Ended
<1>8. AP!TypeOK
  BY <1>4, <1>5, <1>6, <1>7 DEF AP!TypeOK
<1>9. AP!VersionsSeparate
  BY <1>5, <1>6, <1>7 DEF AP!VersionsSeparate, AP!LocalsConsistent, A!NewRow
<1>10. AP!CertsOnRecord
  BY <1>4, <1>5 DEF AP!CertsOnRecord
<1> QED BY <1>3, <1>8, <1>9, <1>10 DEF IInv, AP!IInv, Held

-----------------------------------------------------------------------------
\* Steps of the enrollment.

(* The row that a verify request inserts. *)
Row(r) == [deviceId |-> body[r].deviceId, by |-> r]

EnrollStep ==
    /\ [EP!Next]_(EP!vars)
    /\ \/ certs' = certs
       \/ \E r \in Requests : /\ body[r].deviceId \in DOMAIN devices
                              /\ serial[r] \notin DOMAIN certs
                              /\ certs' = Put(certs, serial[r], Row(r))

LEMMA IssueEnrolls ==
    ASSUME NEW r \in Requests, Issue(r)
    PROVE  EnrollStep
<1>1. EP!Step(r) /\ certs' = certs
  <2>1. ASSUME NEW v \in BOOLEAN, NEW w \in BOOLEAN, E!Verify(r, v, w)
        PROVE  EP!Step(r) /\ certs' = certs
    <3>1. EP!Verify(r, v, w)
      BY <2>1, SameEnrollment
    <3> QED BY <2>1, <3>1 DEF EP!Step, E!Verify
  <2>2. CASE E!Spend(r)
    BY <2>2, SameEnrollment DEF EP!Step, E!Spend
  <2>3. CASE E!LoadSerial(r)
    BY <2>3, SameEnrollment DEF EP!Step, E!LoadSerial
  <2>4. CASE E!SaveSerial(r)
    BY <2>4, SameEnrollment DEF EP!Step, E!SaveSerial
  <2>5. CASE E!Respond(r)
    BY <2>5, SameEnrollment DEF EP!Step, E!Respond
  <2> QED BY <2>1, <2>2, <2>3, <2>4, <2>5 DEF Issue
<1> QED BY <1>1 DEF EnrollStep, EP!Next

LEMMA InsertEnrolls ==
    ASSUME NEW r \in Requests, InsertCert(r)
    PROVE  EnrollStep
<1>1. CASE body[r].deviceId \in DOMAIN devices /\ E!Insert(r)
  <2>1. EP!Step(r)
    BY <1>1, SameEnrollment DEF EP!Step
  <2>2. \/ certs' = certs
        \/ serial[r] \notin DOMAIN certs /\ certs' = Put(certs, serial[r], Row(r))
    BY <1>1 DEF E!Insert, E!Insertable, E!Put, Put, E!OwnRow, Row
  <2> QED BY <1>1, <2>1, <2>2 DEF EnrollStep, EP!Next
<1>2. CASE /\ pc[r] = "signed"
           /\ pc' = [pc EXCEPT ![r] = "500"]
           /\ UNCHANGED <<clock, nonces, certs, caSerial, body, serial>>
  <2>1. EP!Fail(r)
    BY <1>2 DEF EP!Fail, EP!InFlight
  <2> QED BY <1>2, <2>1 DEF EnrollStep, EP!Next
<1> QED BY <1>1, <1>2 DEF InsertCert

LEMMA OthersEnroll ==
    ASSUME EnrollOther \/ Tick
    PROVE  EnrollStep
<1>1. ASSUME NEW n \in Nonces, NEW d \in Devices, E!Challenge(n, d) PROVE EnrollStep
  <2>1. EP!Challenge(n, d)
    BY <1>1, SameEnrollment
  <2> QED BY <1>1, <2>1 DEF EnrollStep, EP!Next, E!Challenge
<1>2. ASSUME NEW r \in Requests, E!Fail(r) PROVE EnrollStep
  <2>1. EP!Fail(r)
    BY <1>2, SameEnrollment
  <2> QED BY <1>2, <2>1 DEF EnrollStep, EP!Next, E!Fail
<1>3. CASE E!Tick
  <2>1. EP!Tick
    BY <1>3, SameEnrollment
  <2> QED BY <1>3, <2>1 DEF EnrollStep, EP!Next, E!Tick
<1> QED BY <1>1, <1>2, <1>3 DEF EnrollOther, Tick

LEMMA CrashEnrolls ==
    ASSUME EP!TypeOK, Crash
    PROVE  EnrollStep
<1>1. /\ pc' = [r \in Requests |-> IF pc[r] \in EP!InFlight THEN "lost" ELSE pc[r]]
      /\ UNCHANGED <<clock, nonces, caSerial, body, serial, certs>>
  BY DEF Crash, E!InFlight, EP!InFlight
<1>2. CASE \E r \in Requests : pc[r] \in EP!InFlight
  BY <1>1, <1>2 DEF EnrollStep, EP!Next, EP!Crash
<1>3. CASE ~\E r \in Requests : pc[r] \in EP!InFlight
  <2>1. pc' = pc
    BY <1>1, <1>3 DEF EP!TypeOK
  <2> QED BY <1>1, <2>1 DEF EnrollStep, EP!vars
<1> QED BY <1>2, <1>3

(* What any such step does for the invariant, as far as it does not speak of  *)
(* the calls: they and the devices may change only to what is live already.   *)
LEMMA EnrollStepInv ==
    ASSUME IInv, EnrollStep, devices' = devices, tokens' = tokens, blacklist' = blacklist,
           call' \in [Calls -> AP!Waiting \cup AP!Ended],
           \A c \in Calls : AP!LocalsConsistent(call[c])'
    PROVE  IInv'
<1>1. EP!Grounded /\ EP!TypeOK /\ AP!IInv /\ \A r \in Requests : Held(r)
  BY DEF IInv, EP!Grounded
<1>2. EP!Grounded'
  BY <1>1, EP!StepGrounded, LifecycleAssumption DEF E!ClockAssumption, EnrollStep
<1>3. \A r \in Requests : EP!RowClaim(r) => EP!RowClaim(r)'
  BY <1>1, EP!StepRowClaim, LifecycleAssumption DEF E!ClockAssumption, EnrollStep
<1>4. body' = body
  BY DEF EnrollStep, EP!Next, EP!Step, EP!Challenge, EP!Verify, EP!Spend, EP!LoadSerial,
         EP!SaveSerial, EP!Insert, EP!Respond, EP!Fail, EP!Crash, EP!Tick, EP!vars
<1>5. \A r \in Requests : Held(r)'
  BY <1>1, <1>3, <1>4 DEF Held, AP!Live
<1>6. AP!TypeOK'
  <2>1. /\ DOMAIN certs' \subseteq Nat
        /\ \A s \in DOMAIN certs' : certs'[s] \in EP!CertRow
    BY <1>2 DEF EP!Grounded, EP!TypeOK
  <2>2. \A row \in EP!CertRow : row.deviceId \in Devices
    BY DEF EP!CertRow
  <2> QED BY <1>1, <2>1, <2>2 DEF AP!IInv, AP!TypeOK
<1>7. AP!VersionsSeparate'
  BY <1>1 DEF AP!IInv, AP!VersionsSeparate
<1>8. AP!CertsOnRecord'
  <2>1. /\ \A s \in DOMAIN certs : certs[s].deviceId \in DOMAIN devices
        /\ \A j \in DOMAIN tokens :
              tokens[j].serial # NoSerial /\ AP!Live(tokens[j].device) =>
                 /\ tokens[j].serial \in DOMAIN certs
                 /\ certs[tokens[j].serial].deviceId = tokens[j].device
    BY <1>1 DEF AP!IInv, AP!CertsOnRecord
  <2>2. \A s \in DOMAIN certs : s \in DOMAIN certs' /\ certs'[s] = certs[s]
    BY <1>1, EP!CertificatesStay, LifecycleAssumption DEF E!ClockAssumption, EnrollStep
  <2>3. \A s \in DOMAIN certs' : certs'[s].deviceId \in DOMAIN devices
    <3>1. CASE certs' = certs
      BY <2>1, <3>1
    <3>2. ASSUME NEW r \in Requests, body[r].deviceId \in DOMAIN devices,
                 certs' = Put(certs, serial[r], Row(r))
          PROVE  \A s \in DOMAIN certs' : certs'[s].deviceId \in DOMAIN devices
      BY <2>1, <3>2 DEF Put, Row
    <3> QED BY <3>1, <3>2 DEF EnrollStep
  <2>4. \A d : AP!Live(d)' <=> AP!Live(d)
    BY DEF AP!Live
  <2> QED BY <2>1, <2>2, <2>3, <2>4 DEF AP!CertsOnRecord
<1> QED BY <1>2, <1>5, <1>6, <1>7, <1>8 DEF IInv, AP!IInv

-----------------------------------------------------------------------------
\* Steps of the access.

(* What is deleted from device_certs goes with its device. *)
Cascades ==
    \/ certs' = certs
    \/ \E d : /\ d \notin DOMAIN devices'
             /\ certs' = Drop(certs, {s \in DOMAIN certs : certs[s].deviceId = d})

LEMMA ContinueAccesses ==
    ASSUME NEW c \in Calls, Continue(c)
    PROVE  AP!Next /\ Cascades /\ UNCHANGED enrollVars
<1>1. CASE DeleteDevice(c)
  <2>1. AP!DeleteRemove(c) /\ UNCHANGED enrollVars
    BY <1>1, SameAccess DEF DeleteDevice
  <2>2. devices' = A!Drop(devices, {call[c].device})
    BY <1>1 DEF DeleteDevice, A!DeleteRemove
  <2>3. Cascades
    BY <1>1, <2>2 DEF DeleteDevice, Cascades, A!Drop
  <2> QED BY <2>1, <2>3 DEF AP!Next, AP!Continue
<1>2. CASE CallStep(c)
  <2>1. Cascades /\ UNCHANGED enrollVars
    BY <1>2 DEF CallStep, Cascades
  <2>2. AP!Continue(c)
    BY <1>2, SameAccess DEF CallStep, AP!Continue
  <2> QED BY <2>1, <2>2 DEF AP!Next
<1> QED BY <1>1, <1>2 DEF Continue

LEMMA OthersAccess ==
    ASSUME EP!TypeOK, NEW c \in Calls, CallOther(c)
    PROVE  AP!Next /\ Cascades /\ UNCHANGED enrollVars
<1>1. Cascades /\ UNCHANGED enrollVars
  BY DEF CallOther, Cascades
<1>2. \A s \in 1..caSerial + 1 : s \in Nat
  BY DEF EP!TypeOK
<1>3. \A s \in 1..caSerial + 1 : A!GuardLookup(c, s, "mint") => AP!Begin(c)
  BY <1>2, SameAccess DEF AP!Begin
<1>4. \A d \in Devices, u \in Users :
         A!RevokeRead(c, d) \/ A!DeleteRead(c, u, d) => AP!Begin(c)
  BY SameAccess DEF AP!Begin
<1>5. A!Fail(c) \/ A!Recycle(c) => AP!Next
  BY SameAccess DEF AP!Next
<1>6. CASE \E s \in 1..caSerial + 1 : A!GuardLookup(c, s, "mint")
  BY <1>1, <1>3, <1>6 DEF AP!Next
<1>7. CASE \/ \E d \in Devices : A!RevokeRead(c, d)
           \/ \E d \in Devices, u \in Users : A!DeleteRead(c, u, d)
  <2>1. AP!Begin(c)
    <3>1. CASE \E d \in Devices : A!RevokeRead(c, d)
      BY <3>1, SameAccess DEF AP!Begin
    <3>2. CASE \E d \in Devices, u \in Users : A!DeleteRead(c, u, d)
      BY <1>4, <3>2
    <3> QED BY <1>7, <3>1, <3>2
  <2> QED BY <1>1, <2>1 DEF AP!Next
<1>8. CASE A!Fail(c) \/ A!Recycle(c)
  BY <1>1, <1>5, <1>8
<1> QED BY <1>6, <1>7, <1>8 DEF CallOther

(* Certificates may go with their devices and devices cease to be live: the   *)
(* requests' part of the invariant stands both.                               *)
LEMMA CascadeGrounded ==
    ASSUME IInv, Cascades, UNCHANGED enrollVars,
           \A d \in Devices : AP!Live(d)' => AP!Live(d)
    PROVE  EP!Grounded' /\ \A r \in Requests : Held(r)'
<1>1. EP!TypeOK /\ EP!CertRequiresSpentNonce
      /\ (\A r \in Requests : EP!NonceClaim(r) /\ Held(r))
  BY DEF IInv, EP!Grounded
<1>2. UNCHANGED <<clock, nonces, caSerial, body, serial, pc>>
  BY DEF enrollVars
<1>3. /\ DOMAIN certs' \subseteq DOMAIN certs
      /\ \A s \in DOMAIN certs' : certs'[s] = certs[s]
      /\ \A s \in DOMAIN certs : certs[s].deviceId \in DOMAIN devices' => s \in DOMAIN certs'
  BY DEF Cascades, Drop
<1>4. certs' = [s \in DOMAIN certs' |-> certs'[s]]
  <2>1. certs = [s \in DOMAIN certs |-> certs[s]]
    BY <1>1 DEF EP!TypeOK
  <2> QED BY <2>1 DEF Cascades, Drop
<1>5. EP!TypeOK'
  <2>1. \A s \in DOMAIN certs' : certs'[s] \in EP!CertRow
    BY <1>1, <1>3 DEF EP!TypeOK
  <2>2. certs' \in [DOMAIN certs' -> EP!CertRow] /\ DOMAIN certs' \subseteq Nat
    BY <1>1, <1>3, <1>4, <2>1 DEF EP!TypeOK
  <2> QED BY <1>1, <1>2, <2>2 DEF EP!TypeOK
<1>6. EP!CertRequiresSpentNonce'
  BY <1>1, <1>2, <1>3 DEF EP!CertRequiresSpentNonce
<1>7. \A r \in Requests : EP!NonceClaim(r)'
  BY <1>1, <1>2 DEF EP!NonceClaim
<1>8. ASSUME NEW r \in Requests PROVE Held(r)'
  <2> SUFFICES ASSUME AP!Live(body[r].deviceId)', pc'[r] \in {"stored", "cert"}
               PROVE  serial'[r] \in DOMAIN certs' /\ certs'[serial'[r]] = EP!OwnRow(r)'
    BY DEF Held, EP!RowClaim
  <2>1. body[r].deviceId \in Devices
    BY <1>1 DEF EP!TypeOK, EP!Body
  <2>2. AP!Live(body[r].deviceId) /\ body[r].deviceId \in DOMAIN devices'
    BY <1>2, <2>1 DEF AP!Live
  <2>3. serial[r] \in DOMAIN certs /\ certs[serial[r]] = EP!OwnRow(r)
    BY <1>1, <1>2, <2>2 DEF Held, EP!RowClaim
  <2>4. EP!OwnRow(r).deviceId = body[r].deviceId /\ EP!OwnRow(r)' = EP!OwnRow(r)
    BY <1>2 DEF EP!OwnRow
  <2> QED BY <1>2, <1>3, <2>2, <2>3, <2>4
<1> QED BY <1>5, <1>6, <1>7, <1>8 DEF EP!Grounded

LEMMA AccessInv ==
    ASSUME IInv, AP!Next, Cascades, UNCHANGED enrollVars
    PROVE  IInv'
<1>1. AP!IInv /\ [AP!Next]_(AP!vars)
  BY DEF IInv
<1>2. AP!IInv'
  BY <1>1, AP!StepInv, LifecycleAssumption
<1>3. \A d \in Devices : AP!Live(d)' => AP!Live(d)
  BY <1>1, AP!StepLive, LifecycleAssumption
<1> QED BY <1>2, <1>3, CascadeGrounded DEF IInv

LEMMA OperatorInv ==
    ASSUME IInv, NEW d \in Devices, OperatorDeletes(d)
    PROVE  IInv'
<1>0. AP!TypeOK /\ AP!VersionsSeparate /\ AP!CertsOnRecord
  BY DEF IInv, AP!IInv
<1>1. /\ DOMAIN devices' = DOMAIN devices \ {d}
      /\ \A e \in DOMAIN devices' : devices'[e] = devices[e]
      /\ devices' = [e \in DOMAIN devices' |-> devices[e]]
  BY DEF OperatorDeletes, Drop
<1>2. /\ DOMAIN certs' = {s \in DOMAIN certs : certs[s].deviceId # d}
      /\ \A s \in DOMAIN certs' : certs'[s] = certs[s]
  BY DEF OperatorDeletes, Drop
<1>3. tokens' = tokens /\ blacklist' = blacklist /\ call' = call /\ UNCHANGED enrollVars
  BY DEF OperatorDeletes
<1>4. \A e : AP!Live(e)' => AP!Live(e) /\ e # d
  BY <1>1 DEF AP!Live
<1>5. AP!TypeOK'
  <2>1. DOMAIN certs' \subseteq Nat
    BY <1>0, <1>2 DEF AP!TypeOK
  <2>2. \A s \in DOMAIN certs' : certs'[s].deviceId \in Devices
    BY <1>0, <1>2 DEF AP!TypeOK
  <2>3. DOMAIN devices' \subseteq Devices /\ devices' \in [DOMAIN devices' -> AP!Row]
    BY <1>0, <1>1 DEF AP!TypeOK
  <2> QED BY <1>0, <1>3, <2>1, <2>2, <2>3 DEF AP!TypeOK
<1>6. AP!VersionsSeparate'
  <2>1. \A e \in DOMAIN devices' : devices'[e].revoked <=> devices'[e].tokenVersion > 0
    BY <1>0, <1>1 DEF AP!VersionsSeparate
  <2>2. \A c \in Calls : AP!LocalsConsistent(call[c])'
    BY <1>0, <1>3, <1>4 DEF AP!VersionsSeparate, AP!LocalsConsistent
  <2> QED BY <1>0, <1>3, <2>1, <2>2 DEF AP!VersionsSeparate
<1>7. AP!CertsOnRecord'
  <2>1. /\ \A s \in DOMAIN certs : certs[s].deviceId \in DOMAIN devices
        /\ \A j \in DOMAIN tokens :
              tokens[j].serial # NoSerial /\ AP!Live(tokens[j].device) =>
                 /\ tokens[j].serial \in DOMAIN certs
                 /\ certs[tokens[j].serial].deviceId = tokens[j].device
    BY <1>0 DEF AP!CertsOnRecord
  <2>2. \A s \in DOMAIN certs' : certs'[s].deviceId \in DOMAIN devices'
    BY <1>1, <1>2, <2>1
  <2> QED BY <1>2, <1>3, <1>4, <2>1, <2>2 DEF AP!CertsOnRecord
<1>8. Cascades
  BY <1>1 DEF OperatorDeletes, Cascades
<1>9. EP!Grounded' /\ \A r \in Requests : Held(r)'
  BY <1>3, <1>4, <1>8, CascadeGrounded
<1> QED BY <1>5, <1>6, <1>7, <1>9 DEF IInv, AP!IInv

-----------------------------------------------------------------------------
\* Every step.

LEMMA CrashInv ==
    ASSUME IInv, Crash
    PROVE  IInv'
<1>0. EP!TypeOK /\ AP!TypeOK /\ AP!VersionsSeparate
  BY DEF IInv, EP!Grounded, AP!IInv
<1>1. EnrollStep
  BY <1>0, CrashEnrolls
<1>2. \A c \in Calls : call'[c] = call[c] \/ call'[c] = [at |-> "500"]
  BY DEF Crash
<1>3. [at |-> "500"] \in AP!Ended
  BY DEF AP!Ended, AP!Outcomes
<1>4. call' \in [Calls -> AP!Waiting \cup AP!Ended]
  <2>1. \A c \in Calls : call'[c] \in AP!Waiting \cup AP!Ended
    BY <1>0, <1>2, <1>3 DEF AP!TypeOK
  <2>2. call' = [c \in Calls |-> call'[c]]
    BY DEF Crash
  <2> QED BY <2>1, <2>2
<1>5. devices' = devices /\ tokens' = tokens /\ blacklist' = blacklist
  BY DEF Crash
<1>6. \A c \in Calls : AP!LocalsConsistent(call[c])'
  BY <1>0, <1>2, <1>5 DEF AP!VersionsSeparate, AP!LocalsConsistent, AP!Live
<1> QED BY <1>1, <1>4, <1>5, <1>6, EnrollStepInv

LEMMA StepInv == IInv /\ [Next]_vars => IInv'
<1> SUFFICES ASSUME IInv, [Next]_vars PROVE IInv'
  OBVIOUS
<1>0. AP!TypeOK /\ AP!VersionsSeparate /\ EP!TypeOK
  BY DEF IInv, AP!IInv, EP!Grounded
<1>1. ASSUME EnrollStep, UNCHANGED accessVars PROVE IInv'
  <2>1. call' = call /\ devices' = devices /\ tokens' = tokens /\ blacklist' = blacklist
    BY <1>1 DEF accessVars
  <2>2. call' \in [Calls -> AP!Waiting \cup AP!Ended]
    BY <1>0, <2>1 DEF AP!TypeOK
  <2>3. \A c \in Calls : AP!LocalsConsistent(call[c])'
    BY <1>0, <2>1 DEF AP!VersionsSeparate, AP!LocalsConsistent, AP!Live
  <2> QED BY <1>1, <2>1, <2>2, <2>3, EnrollStepInv
<1>2. ASSUME NEW r \in Requests, VerifyStep(r) PROVE IInv'
  BY <1>1, <1>2, IssueEnrolls, InsertEnrolls DEF VerifyStep
<1>3. CASE EnrollOther \/ Tick
  BY <1>1, <1>3, OthersEnroll DEF EnrollOther, Tick
<1>4. ASSUME NEW c \in Calls, Continue(c) \/ CallOther(c) PROVE IInv'
  BY <1>0, <1>4, ContinueAccesses, OthersAccess, AccessInv
<1>5. ASSUME NEW d \in Devices, OperatorDeletes(d) PROVE IInv'
  BY <1>5, OperatorInv
<1>6. CASE Crash
  BY <1>6, CrashInv
<1>7. CASE UNCHANGED vars
  <2>1. EnrollStep /\ UNCHANGED accessVars
    BY <1>7 DEF vars, enrollVars, EnrollStep, EP!vars
  <2> QED BY <1>1, <2>1
<1> QED BY <1>2, <1>3, <1>4, <1>5, <1>6, <1>7 DEF Next

LEMMA Invariance == Spec => []IInv
BY InitInv, StepInv, PTL DEF Spec

(* The composed state has the types of its two components.                    *)
THEOREM TypeCorrect == Spec => []TypeOK
<1>1. A!TypeOK <=> AP!TypeOK
  BY DEF A!TypeOK, AP!TypeOK, A!Row, AP!Row, A!Statuses, AP!Statuses, A!Claims, AP!Claims,
         A!Waiting, AP!Waiting, A!Ended, AP!Ended, A!Outcomes, AP!Outcomes, A!Columns, AP!Columns
<1>2. IInv => TypeOK
  BY <1>1, SameEnrollment DEF IInv, EP!Grounded, AP!IInv, TypeOK
<1> QED BY <1>2, Invariance, PTL

(* A certificate delivered to a device that is still live is on record as its *)
(* own, for any number of devices, requests and calls.                        *)
THEOREM HeldCertificates == Spec => []HeldCertOnRecord
<1>1. IInv => HeldCertOnRecord
  BY DEF IInv, Held, HeldCertOnRecord, EP!RowClaim, EP!OwnRow, E!OwnRow, AP!Live, A!Live
<1> QED BY <1>1, Invariance, PTL

(* Whoever gets in with an mTLS token got its certificate with a nonce that   *)
(* was granted to that very device and consumed.                              *)
THEOREM TokensTraced == Spec => []TokenTracesToNonce
<1> SUFFICES ASSUME IInv, NEW j \in DOMAIN tokens, A!Current(j), tokens[j].serial # NoSerial
             PROVE  LET s == tokens[j].serial IN
                    /\ s \in DOMAIN certs
                    /\ LET n == body[certs[s].by].nonce IN
                       /\ certs[s].deviceId = tokens[j].device
                       /\ n \in DOMAIN nonces
                       /\ nonces[n].deviceId = tokens[j].device
                       /\ nonces[n].used
  <2>1. IInv => TokenTracesToNonce
    BY DEF TokenTracesToNonce
  <2> QED BY <2>1, Invariance, PTL
<1>1. AP!Live(tokens[j].device)
  BY DEF A!Current, AP!Live, IInv, AP!IInv, AP!VersionsSeparate
<1>2. tokens[j].serial \in DOMAIN certs /\ certs[tokens[j].serial].deviceId = tokens[j].device
  BY <1>1 DEF IInv, AP!IInv, AP!CertsOnRecord
<1> QED BY <1>2 DEF IInv, EP!Grounded, EP!CertRequiresSpentNonce

(* In particular a token that passes by its version is one of a live device,  *)
(* with its certificate on record, whatever enrollments and operators do.     *)
THEOREM Revocation == Spec => [](A!NoTokenOutlivesRevocation /\ A!CurrentTokenHasItsCert)
<1>1. IInv => A!NoTokenOutlivesRevocation /\ A!CurrentTokenHasItsCert
  <2> SUFFICES ASSUME IInv, NEW j \in DOMAIN tokens, A!Current(j)
               PROVE  /\ A!Live(tokens[j].device)
                      /\ tokens[j].serial # NoSerial =>
                            /\ tokens[j].serial \in DOMAIN certs
                            /\ certs[tokens[j].serial].deviceId = tokens[j].device
    BY DEF A!NoTokenOutlivesRevocation, A!CurrentTokenHasItsCert
  <2>1. AP!Live(tokens[j].device)
    BY DEF A!Current, AP!Live, IInv, AP!IInv, AP!VersionsSeparate
  <2> QED BY <2>1 DEF IInv, AP!IInv, AP!CertsOnRecord, AP!Live, A!Live
<1> QED BY <1>1, Invariance, PTL

(* The records stay good, too: deletions take certificates away, nothing else *)
(* does, and no nonce is forgotten.                                           *)
THEOREM Records == Spec => []E!CertRequiresSpentNonce
<1>1. IInv => E!CertRequiresSpentNonce
  BY DEF IInv, EP!Grounded, EP!CertRequiresSpentNonce, E!CertRequiresSpentNonce
<1> QED BY <1>1, Invariance, PTL

-----------------------------------------------------------------------------
\* The composition implements the contract of the access.

LEMMA SameContract ==
    /\ AP!Contract!Init => A!Contract!Init
    /\ AP!Contract!Next => A!Contract!Next
    /\ UNCHANGED AP!Contract!cvars => UNCHANGED A!Contract!cvars
<1>1. AP!LiveDevices = A!LiveDevices /\ AP!LiveDevices' = A!LiveDevices'
  BY DEF AP!LiveDevices, A!LiveDevices, AP!Live, A!Live
<1>2. AP!Accepted = A!Accepted /\ AP!Accepted' = A!Accepted'
  BY DEF AP!Accepted, A!Accepted, AP!Current, A!Current
<1>3. AP!Contract!Init => A!Contract!Init
  BY <1>1, <1>2 DEF AP!Contract!Init, A!Contract!Init, AP!Contract!Empty, A!Contract!Empty
<1>4. \A d : AP!Contract!Record(d) => A!Contract!Record(d)
  BY <1>1, <1>2
     DEF AP!Contract!Record, A!Contract!Record, AP!Contract!Put, A!Contract!Put
<1>5. \A d : AP!Contract!Retire(d) => A!Contract!Retire(d)
  BY <1>1, <1>2
     DEF AP!Contract!Retire, A!Contract!Retire, AP!Contract!Drop, A!Contract!Drop
<1>6. \A d : AP!Contract!Revoke(d) => A!Contract!Revoke(d)
  BY <1>1, <1>5 DEF AP!Contract!Revoke, A!Contract!Revoke
<1>7. \A d : AP!Contract!Delete(d) => A!Contract!Delete(d)
  BY <1>5 DEF AP!Contract!Delete, A!Contract!Delete, AP!Contract!Drop, A!Contract!Drop
<1>8. \A d : AP!Contract!Return(d) => A!Contract!Return(d)
  BY <1>1, <1>2 DEF AP!Contract!Return, A!Contract!Return
<1>9. \A j, d, s : AP!Contract!Accept(j, d, s) => A!Contract!Accept(j, d, s)
  BY <1>1, <1>2
     DEF AP!Contract!Accept, A!Contract!Accept, AP!Contract!Put, A!Contract!Put
<1>10. \A j : AP!Contract!SignInVain(j) => A!Contract!SignInVain(j)
  BY <1>1, <1>2 DEF AP!Contract!SignInVain, A!Contract!SignInVain
<1>11. UNCHANGED AP!Contract!cvars => UNCHANGED A!Contract!cvars
  BY <1>1, <1>2 DEF AP!Contract!cvars, A!Contract!cvars
<1> QED
  BY <1>3, <1>4, <1>6, <1>7, <1>8, <1>9, <1>10, <1>11 DEF AP!Contract!Next, A!Contract!Next

LEMMA ContractInit == Init => AP!Contract!Init
<1> SUFFICES ASSUME Init PROVE AP!Contract!Init
  OBVIOUS
<1> DEFINE holder == [s \in DOMAIN certs |-> certs[s].deviceId]
<1>1. DOMAIN devices = Devices /\ AP!LiveDevices = Devices
  BY DEF Init, A!NewRow, AP!LiveDevices, AP!Live
<1>2. DOMAIN holder \subseteq Nat /\ holder \in [DOMAIN holder -> Devices]
  BY DEF Init, E!Init, E!Empty
<1>3. DOMAIN tokens = {} /\ AP!Accepted = AP!Contract!Empty
  BY DEF Init, Empty, AP!Accepted, AP!Contract!Empty
<1> QED BY <1>1, <1>2, <1>3 DEF AP!Contract!Init

LEMMA ContractStep ==
    IInv /\ [Next]_vars => AP!Contract!Next \/ UNCHANGED AP!Contract!cvars
<1> SUFFICES ASSUME IInv, [Next]_vars
             PROVE  AP!Contract!Next \/ UNCHANGED AP!Contract!cvars
  OBVIOUS
<1>0. AP!IInv /\ AP!IInv' /\ EP!TypeOK
  BY StepInv DEF IInv, EP!Grounded
<1>1. ASSUME EnrollStep, devices' = devices, tokens' = tokens
      PROVE  AP!Contract!Next \/ UNCHANGED AP!Contract!cvars
  <2>1. CASE certs' = certs
    BY <1>1, <2>1, AP!Unnoticed, LifecycleAssumption
  <2>2. ASSUME NEW r \in Requests, serial[r] \notin DOMAIN certs,
               certs' = Put(certs, serial[r], Row(r))
        PROVE  AP!Contract!Next \/ UNCHANGED AP!Contract!cvars
    <3> DEFINE before == [s \in DOMAIN certs |-> certs[s].deviceId]
               after  == [s \in DOMAIN certs' |-> certs'[s].deviceId]
    <3>1. after = AP!Put(before, serial[r], body[r].deviceId)
      BY <2>2 DEF Put, AP!Put, Row
    <3>2. serial[r] \in Nat /\ serial[r] \in DOMAIN after
      BY <1>0, <2>2 DEF EP!TypeOK, Put
    <3>3. PICK d \in Devices : d = body[r].deviceId
      BY <1>0 DEF EP!TypeOK, EP!Body
    <3>4. d \in DOMAIN devices
      BY <1>0, <1>1, <3>1, <3>2, <3>3 DEF AP!IInv, AP!CertsOnRecord, AP!Put
    <3>5. AP!Contract!Record(d)
      BY <1>1, <2>2, <3>1, <3>2, <3>3, <3>4, AP!Recorded, LifecycleAssumption
    <3> QED BY <3>5 DEF AP!Contract!Next
  <2> QED BY <1>1, <2>1, <2>2 DEF EnrollStep
<1>2. ASSUME NEW r \in Requests, VerifyStep(r)
      PROVE  AP!Contract!Next \/ UNCHANGED AP!Contract!cvars
  BY <1>1, <1>2, IssueEnrolls, InsertEnrolls DEF VerifyStep, accessVars
<1>3. CASE EnrollOther \/ Tick
  BY <1>1, <1>3, OthersEnroll DEF EnrollOther, Tick, accessVars
<1>4. ASSUME NEW c \in Calls, Continue(c) \/ CallOther(c)
      PROVE  AP!Contract!Next \/ UNCHANGED AP!Contract!cvars
  <2>1. [AP!Next]_(AP!vars)
    BY <1>0, <1>4, ContinueAccesses, OthersAccess
  <2>2. [AP!Contract!Next]_(AP!Contract!cvars)
    BY <1>0, <2>1, AP!ContractStep, LifecycleAssumption
  <2> QED BY <2>2
<1>5. ASSUME NEW d \in Devices, OperatorDeletes(d)
      PROVE  AP!Contract!Next \/ UNCHANGED AP!Contract!cvars
  <2> DEFINE before == [s \in DOMAIN certs |-> certs[s].deviceId]
             after  == [s \in DOMAIN certs' |-> certs'[s].deviceId]
  <2>1. after = AP!Drop(before, {s \in DOMAIN before : before[s] = d})
    BY <1>5 DEF OperatorDeletes, Drop, AP!Drop
  <2>2. devices' = AP!Drop(devices, {d}) /\ tokens' = tokens
    BY <1>5 DEF OperatorDeletes, Drop, AP!Drop
  <2>3. AP!Contract!Delete(d) \/ UNCHANGED AP!Contract!cvars
    BY <1>0, <2>1, <2>2, AP!DeleteOrStutter, LifecycleAssumption
  <2> QED BY <2>3 DEF AP!Contract!Next
<1>6. CASE Crash
  BY <1>6, AP!Unnoticed, LifecycleAssumption DEF Crash
<1>7. CASE UNCHANGED vars
  BY <1>7, AP!Unnoticed, LifecycleAssumption DEF vars, accessVars
<1> QED BY <1>2, <1>3, <1>4, <1>5, <1>6, <1>7 DEF Next

(* Enrollments, deletions by an operator and crashes of the process included, *)
(* each step of the whole is a step of DeviceAccessContract or shows nothing. *)
THEOREM AccessRefinement == Spec => ImplementsAccessContract
<1>1. Init => A!Contract!Init
  BY ContractInit, SameContract
<1>2. IInv /\ [Next]_vars => [A!Contract!Next]_(A!Contract!cvars)
  BY ContractStep, SameContract
<1> QED BY <1>1, <1>2, InitInv, StepInv, PTL
        DEF Spec, ImplementsAccessContract, A!ImplementsContract, A!Contract!Spec

-----------------------------------------------------------------------------
\* Sealed nonces.

LEMMA SealedStep ==
    ASSUME IInv, [Next]_vars, NEW n \in Nonces, E!Sealed(n)
    PROVE  E!Sealed(n)' /\ E!CertsFor(n)' \subseteq E!CertsFor(n)
<1>0. EP!TypeOK
  BY DEF IInv, EP!Grounded
<1>1. EP!Sealed(n)
  BY DEF E!Sealed, EP!Sealed, E!Holders, EP!Holders
<1>2. CASE EnrollStep
  <2>1. EP!Sealed(n)' /\ EP!CertsFor(n)' = EP!CertsFor(n)
    BY <1>0, <1>1, <1>2, EP!SealedStep, LifecycleAssumption DEF E!ClockAssumption, EnrollStep
  <2>2. E!Sealed(n)'
    BY <2>1 DEF E!Sealed, EP!Sealed, E!Holders, EP!Holders
  <2> QED BY <2>1, <2>2 DEF E!CertsFor, EP!CertsFor
<1>3. CASE Cascades /\ UNCHANGED enrollVars
  <2>1. E!Sealed(n)'
    BY <1>3 DEF enrollVars, E!Sealed, E!Holders
  <2>2. \A s \in DOMAIN certs' : s \in DOMAIN certs /\ certs'[s] = certs[s]
    BY <1>3 DEF Cascades, Drop
  <2> QED BY <1>3, <2>1, <2>2 DEF enrollVars, E!CertsFor
<1>4. ASSUME NEW r \in Requests, VerifyStep(r) PROVE EnrollStep
  BY <1>4, IssueEnrolls, InsertEnrolls DEF VerifyStep
<1>5. CASE EnrollOther \/ Tick
  BY <1>2, <1>5, OthersEnroll
<1>6. ASSUME NEW c \in Calls, Continue(c) \/ CallOther(c)
      PROVE  Cascades /\ UNCHANGED enrollVars
  BY <1>0, <1>6, ContinueAccesses, OthersAccess
<1>7. ASSUME NEW d \in Devices, OperatorDeletes(d)
      PROVE  Cascades /\ UNCHANGED enrollVars
  BY <1>7 DEF OperatorDeletes, Cascades, Drop
<1>8. CASE Crash
  BY <1>0, <1>2, <1>8, CrashEnrolls
<1>9. CASE UNCHANGED vars
  BY <1>3, <1>9 DEF vars, Cascades
<1> QED BY <1>2, <1>3, <1>4, <1>5, <1>6, <1>7, <1>8, <1>9 DEF Next

(* A sealed nonce never yields another certificate, although deletions free   *)
(* serials on which requests under way had failed.                            *)
THEOREM SealedForGood == Spec => SealedNonceStaysSealed
<1>1. IInv /\ [Next]_vars =>
         [\A n \in Nonces : E!Sealed(n) =>
             E!Sealed(n)' /\ E!CertsFor(n)' \subseteq E!CertsFor(n)]_vars
  BY SealedStep
<1> QED BY <1>1, Invariance, PTL DEF Spec, SealedNonceStaysSealed
=============================================================================
