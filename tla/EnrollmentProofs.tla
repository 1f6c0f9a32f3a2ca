-------------------------- MODULE EnrollmentProofs --------------------------
(***************************************************************************)
(* Theorems about Enrollment for any devices, nonces, requests and bounds. *)
(***************************************************************************)
EXTENDS Enrollment, TLAPS

(* The empty table has no key. *)
LEMMA EmptyProperties == DOMAIN Empty = {}
BY DEF Empty

-----------------------------------------------------------------------------

LEMMA InitInv == Init => IInv
<1> SUFFICES ASSUME Init PROVE IInv
  OBVIOUS
<1>1. TypeOK
  BY EmptyProperties DEF Init, TypeOK, Empty, Body, InFlight, Final, Answered
<1>2. CertRequiresSpentNonce
  BY EmptyProperties DEF Init, CertRequiresSpentNonce
<1>3. \A r \in Requests : pc[r] \notin InFlight \cup {"cert"}
  BY DEF Init, InFlight
<1> QED
  BY <1>1, <1>2, <1>3 DEF IInv, InFlight

(* Types are preserved by each step. *)
LEMMA StepType == TypeOK /\ [Next]_vars => TypeOK'
<1> SUFFICES ASSUME TypeOK, [Next]_vars PROVE TypeOK'
  OBVIOUS
<1> USE DEF TypeOK, Body, InFlight, Final, Answered
<1>1. ASSUME NEW n \in Nonces, NEW d \in Devices, Challenge(n, d) PROVE TypeOK'
  <2> DEFINE row == [deviceId |-> d, expiresAt |-> clock + NonceTTL, used |-> FALSE]
  <2>1. row \in NonceRow
    BY <1>1, ClockAssumption DEF NonceRow
  <2>2. nonces' = Put(nonces, n, row)
    BY <1>1 DEF Challenge
  <2>3. /\ DOMAIN nonces' \subseteq Nonces
        /\ nonces' \in [DOMAIN nonces' -> NonceRow]
    <3> HIDE DEF row
    <3> QED BY <2>1, <2>2 DEF Put
  <2> QED BY <1>1, <2>3 DEF Challenge
<1>2. ASSUME NEW r \in Requests, Step(r) PROVE TypeOK'
  <2>1. ASSUME NEW csrValid \in BOOLEAN, NEW signatureValid \in BOOLEAN,
               Verify(r, csrValid, signatureValid)
        PROVE  TypeOK'
    BY <2>1 DEF Verify
  <2>2. CASE Spend(r)
    <3>1. nonces' = [nonces EXCEPT ![call[r].nonce].used = TRUE]
      BY <2>2 DEF Spend
    <3>2. DOMAIN nonces' = DOMAIN nonces /\ nonces' \in [DOMAIN nonces -> NonceRow]
      BY <3>1 DEF NonceRow
    <3> QED BY <2>2, <3>2 DEF Spend
  <2>3. CASE LoadSerial(r)
    BY <2>3 DEF LoadSerial
  <2>4. CASE SaveSerial(r)
    BY <2>4 DEF SaveSerial
  <2>5. CASE Insert(r)
    <3>1. OwnRow(r) \in CertRow
      BY DEF CertRow, OwnRow
    <3>2. certs' = Put(certs, serial[r], OwnRow(r)) \/ certs' = certs
      BY <2>5 DEF Insert
    <3>3. DOMAIN certs' \subseteq Nat /\ certs' \in [DOMAIN certs' -> CertRow]
      BY <3>1, <3>2 DEF Put
    <3> QED BY <2>5, <3>3 DEF Insert
  <2>6. CASE Respond(r)
    BY <2>6 DEF Respond
  <2> QED BY <1>2, <2>1, <2>2, <2>3, <2>4, <2>5, <2>6 DEF Step
<1>3. ASSUME NEW r \in Requests, Fail(r) PROVE TypeOK'
  BY <1>3 DEF Fail
<1>4. CASE Crash
  BY <1>4 DEF Crash
<1>5. CASE Tick
  BY <1>5 DEF Tick
<1>6. CASE UNCHANGED vars
  BY <1>6 DEF vars
<1> QED BY <1>1, <1>2, <1>3, <1>4, <1>5, <1>6 DEF Next

THEOREM TypeCorrect == Spec => []TypeOK
<1>1. Init => TypeOK
  BY InitInv DEF IInv
<1> QED BY <1>1, StepType, PTL DEF Spec

-----------------------------------------------------------------------------

(* The parts of IInv that speak of one request: of its nonce ...              *)
NonceClaim(r) ==
    /\ pc[r] \in InFlight \cup {"cert"} =>
          /\ call[r].nonce \in DOMAIN nonces
          /\ nonces[call[r].nonce].deviceId = call[r].deviceId
    /\ pc[r] \in {"spent", "signing", "signed", "stored", "cert"} =>
          nonces[call[r].nonce].used

(* ... and of the row it has inserted.                                        *)
RowClaim(r) ==
    pc[r] \in {"stored", "cert"} =>
       /\ serial[r] \in DOMAIN certs
       /\ certs[serial[r]] = OwnRow(r)

(* What remains of IInv when others may delete certificates.                  *)
Grounded == TypeOK /\ CertRequiresSpentNonce /\ \A r \in Requests : NonceClaim(r)

LEMMA IInvByClaims == IInv <=> Grounded /\ \A r \in Requests : RowClaim(r)
BY DEF IInv, Grounded, NonceClaim, RowClaim

(* A step never removes a nonce, renames its device or unmarks it, never      *)
(* changes a certificate that is on record, and never changes a request body. *)
LEMMA TablesGrow ==
    ASSUME TypeOK, [Next]_vars
    PROVE  /\ call' = call
           /\ \A n \in DOMAIN nonces :
                 /\ n \in DOMAIN nonces'
                 /\ nonces'[n].deviceId = nonces[n].deviceId
                 /\ nonces'[n].expiresAt = nonces[n].expiresAt
                 /\ nonces[n].used => nonces'[n].used
           /\ \A s \in DOMAIN certs : s \in DOMAIN certs' /\ certs'[s] = certs[s]
<1> DEFINE Goal ==
       /\ call' = call
       /\ \A n \in DOMAIN nonces :
             /\ n \in DOMAIN nonces'
             /\ nonces'[n].deviceId = nonces[n].deviceId
             /\ nonces'[n].expiresAt = nonces[n].expiresAt
             /\ nonces[n].used => nonces'[n].used
       /\ \A s \in DOMAIN certs : s \in DOMAIN certs' /\ certs'[s] = certs[s]
<1>1. ASSUME NEW n \in Nonces, NEW d \in Devices, Challenge(n, d) PROVE Goal
  <2> DEFINE row == [deviceId |-> d, expiresAt |-> clock + NonceTTL, used |-> FALSE]
  <2>1. n \notin DOMAIN nonces /\ nonces' = Put(nonces, n, row)
    BY <1>1 DEF Challenge
  <2>2. call' = call /\ certs' = certs
    BY <1>1 DEF Challenge
  <2> HIDE DEF row
  <2> QED BY <2>1, <2>2 DEF Put
<1>2. ASSUME NEW r \in Requests, Step(r) PROVE Goal
  <2>1. ASSUME NEW csrValid \in BOOLEAN, NEW signatureValid \in BOOLEAN,
               Verify(r, csrValid, signatureValid)
        PROVE  Goal
    BY <2>1 DEF Verify
  <2>2. CASE Spend(r)
    <3>1. /\ DOMAIN nonces' = DOMAIN nonces
          /\ \A n \in DOMAIN nonces :
                nonces'[n] = IF n = call[r].nonce
                             THEN [nonces[n] EXCEPT !.used = TRUE] ELSE nonces[n]
      BY <2>2 DEF Spend, TypeOK
    <3>2. \A n \in DOMAIN nonces : nonces[n] \in NonceRow
      BY DEF TypeOK
    <3>3. \A row \in NonceRow :
             /\ [row EXCEPT !.used = TRUE].deviceId = row.deviceId
             /\ [row EXCEPT !.used = TRUE].expiresAt = row.expiresAt
             /\ [row EXCEPT !.used = TRUE].used
      BY DEF NonceRow
    <3> QED BY <2>2, <3>1, <3>2, <3>3 DEF Spend
  <2>3. CASE Insert(r)
    <3>1. \/ certs' = certs
          \/ /\ serial[r] \notin DOMAIN certs
             /\ certs' = Put(certs, serial[r], OwnRow(r))
      BY <2>3 DEF Insert, Insertable
    <3>2. call' = call /\ nonces' = nonces
      BY <2>3 DEF Insert
    <3> QED BY <3>1, <3>2 DEF Put
  <2>4. CASE LoadSerial(r) \/ SaveSerial(r) \/ Respond(r)
    BY <2>4 DEF LoadSerial, SaveSerial, Respond
  <2> QED BY <1>2, <2>1, <2>2, <2>3, <2>4 DEF Step
<1>3. ASSUME NEW r \in Requests, Fail(r) PROVE Goal
  BY <1>3 DEF Fail
<1>4. CASE Crash \/ Tick \/ UNCHANGED vars
  BY <1>4 DEF Crash, Tick, vars
<1> QED BY <1>1, <1>2, <1>3, <1>4 DEF Next

LEMMA CertificatesStay ==
    TypeOK /\ [Next]_vars => \A s \in DOMAIN certs : s \in DOMAIN certs' /\ certs'[s] = certs[s]
BY TablesGrow

(* How a step leaves a request that it does not advance. *)
Rests(r) ==
    /\ serial'[r] = serial[r]
    /\ \/ pc'[r] = pc[r]
       \/ pc'[r] \notin InFlight \cup {"cert"}

LEMMA RestsOrSteps ==
    ASSUME TypeOK, [Next]_vars, NEW r \in Requests, ~Step(r)
    PROVE  Rests(r)
<1>1. ASSUME NEW q \in Requests, q # r, Step(q) PROVE Rests(r)
  BY <1>1 DEF Rests, Step, Verify, Spend, LoadSerial, SaveSerial, Insert, Respond, TypeOK
<1>2. ASSUME NEW q \in Requests, Fail(q) PROVE Rests(r)
  BY <1>2 DEF Rests, Fail, TypeOK, InFlight
<1>3. CASE Crash
  BY <1>3 DEF Rests, Crash, TypeOK, InFlight
<1>4. CASE \/ \E n \in Nonces, d \in Devices : Challenge(n, d)
           \/ Tick
           \/ UNCHANGED vars
  BY <1>4 DEF Rests, Challenge, Tick, vars
<1> QED BY <1>1, <1>2, <1>3, <1>4 DEF Next

LEMMA StepNonceClaim ==
    TypeOK /\ [Next]_vars => \A r \in Requests : NonceClaim(r) => NonceClaim(r)'
<1> SUFFICES ASSUME TypeOK, [Next]_vars, NEW r \in Requests, NonceClaim(r)
             PROVE  NonceClaim(r)'
  OBVIOUS
<1>1. CASE ~Step(r)
  BY <1>1, RestsOrSteps, TablesGrow DEF Rests, NonceClaim, InFlight
<1>2. CASE Step(r)
  <2>1. ASSUME NEW csrValid \in BOOLEAN, NEW signatureValid \in BOOLEAN,
               Verify(r, csrValid, signatureValid)
        PROVE  NonceClaim(r)'
    BY <2>1 DEF Verify, NonceAccepted, NonceClaim, InFlight, TypeOK
  <2>2. CASE Spend(r)
    <3>1. nonces'[call[r].nonce].used
      <4>1. call[r].nonce \in DOMAIN nonces /\ nonces[call[r].nonce] \in NonceRow
        BY <2>2 DEF Spend, NonceClaim, InFlight, TypeOK
      <4>2. nonces'[call[r].nonce] = [nonces[call[r].nonce] EXCEPT !.used = TRUE]
        BY <2>2, <4>1 DEF Spend
      <4> QED BY <4>1, <4>2 DEF NonceRow
    <3> QED BY <2>2, <3>1, TablesGrow DEF Spend, NonceClaim, InFlight, TypeOK
  <2>3. CASE LoadSerial(r) \/ SaveSerial(r) \/ Respond(r)
    BY <2>3 DEF LoadSerial, SaveSerial, Respond, NonceClaim, InFlight, TypeOK
  <2>4. CASE Insert(r)
    <3>1. pc[r] = "signed" /\ pc'[r] \in {"500", "stored"} /\ UNCHANGED <<nonces, call>>
      BY <2>4 DEF Insert, TypeOK
    <3> QED BY <3>1 DEF NonceClaim, InFlight
  <2> QED BY <1>2, <2>1, <2>2, <2>3, <2>4 DEF Step
<1> QED BY <1>1, <1>2

LEMMA StepRowClaim ==
    TypeOK /\ [Next]_vars => \A r \in Requests : RowClaim(r) => RowClaim(r)'
<1> SUFFICES ASSUME TypeOK, [Next]_vars, NEW r \in Requests, RowClaim(r)
             PROVE  RowClaim(r)'
  OBVIOUS
<1>1. CASE ~Step(r)
  BY <1>1, RestsOrSteps, TablesGrow DEF Rests, RowClaim, InFlight, OwnRow
<1>2. CASE Step(r)
  <2>1. ASSUME NEW csrValid \in BOOLEAN, NEW signatureValid \in BOOLEAN,
               Verify(r, csrValid, signatureValid)
        PROVE  RowClaim(r)'
    BY <2>1 DEF Verify, RowClaim, TypeOK
  <2>2. CASE Spend(r) \/ LoadSerial(r) \/ SaveSerial(r)
    BY <2>2 DEF Spend, LoadSerial, SaveSerial, RowClaim, TypeOK
  <2>3. CASE Insert(r)
    <3>1. \/ pc' = [pc EXCEPT ![r] = "500"]
          \/ certs' = Put(certs, serial[r], OwnRow(r))
      BY <2>3 DEF Insert
    <3>2. UNCHANGED <<call, serial>>
      BY <2>3 DEF Insert
    <3>3. certs' = Put(certs, serial[r], OwnRow(r)) =>
             serial[r] \in DOMAIN certs' /\ certs'[serial[r]] = OwnRow(r)
      BY DEF Put
    <3> QED BY <3>1, <3>2, <3>3 DEF RowClaim, TypeOK, OwnRow
  <2>4. CASE Respond(r)
    BY <2>4 DEF Respond, RowClaim, TypeOK, OwnRow
  <2> QED BY <1>2, <2>1, <2>2, <2>3, <2>4 DEF Step
<1> QED BY <1>1, <1>2

LEMMA StepRecords == Grounded /\ [Next]_vars => CertRequiresSpentNonce'
<1> SUFFICES ASSUME Grounded, [Next]_vars, NEW s \in DOMAIN certs'
             PROVE  LET n == call'[certs'[s].by].nonce IN
                    /\ n \in DOMAIN nonces'
                    /\ nonces'[n].used
                    /\ nonces'[n].deviceId = certs'[s].deviceId
                    /\ certs'[s].deviceId \in Registered
  BY DEF CertRequiresSpentNonce
<1>1. TypeOK /\ CertRequiresSpentNonce /\ \A r \in Requests : NonceClaim(r)
  BY DEF Grounded
<1>2. CASE s \in DOMAIN certs
  BY <1>1, <1>2, TablesGrow DEF CertRequiresSpentNonce
<1>3. CASE s \notin DOMAIN certs
  <2>1. PICK r \in Requests : Insert(r)
    BY <1>3 DEF Next, Step, Challenge, Verify, Spend, LoadSerial, SaveSerial, Respond,
                Fail, Crash, Tick, vars
  <2>2. /\ certs' = Put(certs, serial[r], OwnRow(r))
        /\ call[r].deviceId \in Registered
        /\ pc[r] = "signed"
    BY <1>3, <2>1 DEF Insert, Insertable
  <2>3. certs'[s] = OwnRow(r)
    BY <1>3, <2>2 DEF Put
  <2> QED BY <1>1, <2>2, <2>3, TablesGrow DEF NonceClaim, InFlight, OwnRow
<1> QED BY <1>2, <1>3

LEMMA StepGrounded == Grounded /\ [Next]_vars => Grounded'
BY StepType, StepRecords, StepNonceClaim DEF Grounded

LEMMA StepInv == IInv /\ [Next]_vars => IInv'
<1> SUFFICES ASSUME IInv, [Next]_vars PROVE IInv'
  OBVIOUS
<1>1. Grounded /\ \A r \in Requests : RowClaim(r)
  BY IInvByClaims
<1>2. Grounded' /\ \A r \in Requests : RowClaim(r)'
  BY <1>1, StepGrounded, StepRowClaim DEF Grounded
<1> QED BY <1>2 DEF IInv, Grounded, NonceClaim, RowClaim

(* Every record has a spent nonce of its own registered device behind it. *)
THEOREM Records == Spec => []CertRequiresSpentNonce
<1>1. IInv => CertRequiresSpentNonce
  BY DEF IInv
<1> QED BY <1>1, InitInv, StepInv, PTL DEF Spec

(* A delivered certificate is the one on record for the request. *)
THEOREM Delivery == Spec => []DeliveredCertIsOwn
<1>1. IInv => DeliveredCertIsOwn
  BY DEF IInv, DeliveredCertIsOwn
<1> QED BY <1>1, InitInv, StepInv, PTL DEF Spec

(* Although two openssl runs may read the same serial file, no two requests   *)
(* are answered with certificates of one serial.                              *)
THEOREM Serials == Spec => []DeliveredSerialsDiffer
<1>1. IInv => DeliveredSerialsDiffer
  <2> SUFFICES ASSUME IInv,
                      NEW q \in Requests, pc[q] = "cert",
                      NEW r \in Requests, pc[r] = "cert", serial[q] = serial[r]
               PROVE  q = r
    BY DEF DeliveredSerialsDiffer, Served
  <2>1. certs[serial[q]] = OwnRow(q) /\ certs[serial[r]] = OwnRow(r)
    BY DEF IInv, Served
  <2> QED BY <2>1 DEF OwnRow
<1> QED BY <1>1, InitInv, StepInv, PTL DEF Spec

-----------------------------------------------------------------------------

LEMMA SealedStep ==
    ASSUME TypeOK, [Next]_vars, NEW n \in Nonces, Sealed(n)
    PROVE  Sealed(n)' /\ CertsFor(n)' = CertsFor(n)
<1> DEFINE Holding == {"checked", "spent", "signing", "signed"}
<1>1. clock' \in Nat /\ clock <= clock'
  <2>1. CASE Tick
    BY <2>1 DEF Tick, TypeOK
  <2>2. CASE ~Tick
    <3>1. clock' = clock
      BY <2>2 DEF Next, Step, Challenge, Verify, Spend, LoadSerial, SaveSerial, Insert,
                  Respond, Fail, Crash, vars
    <3> QED BY <3>1 DEF TypeOK
  <2> QED BY <2>1, <2>2
<1>2. n \in DOMAIN nonces' /\ (nonces'[n].used \/ nonces'[n].expiresAt < clock')
  <2>1. nonces[n].expiresAt \in Nat
    BY DEF Sealed, TypeOK, NonceRow
  <2> QED BY <1>1, <2>1, TablesGrow DEF Sealed, TypeOK
<1>3. ASSUME NEW r \in Requests, call[r].nonce = n
      PROVE  pc[r] \notin Holding
  BY <1>3 DEF Sealed, Holders
<1>4. ASSUME NEW r \in Requests, call[r].nonce = n
      PROVE  pc'[r] \notin Holding
  <2>1. pc[r] \notin Holding
    BY <1>4, <1>3
  <2>2. ~NonceAccepted(n, call[r].deviceId)
    BY DEF Sealed, NonceAccepted
  <2>3. pc' \in [Requests -> {"idle"} \cup InFlight \cup Final]
    BY StepType DEF TypeOK
  <2>4. ASSUME NEW q \in Requests, Step(q) PROVE pc'[r] \notin Holding
    <3>1. CASE q = r
      BY <1>4, <2>1, <2>2, <2>4, <3>1
         DEF Step, Verify, Spend, LoadSerial, SaveSerial, Insert, Respond, TypeOK
    <3>2. CASE q # r
      BY <2>1, <2>4, <3>2
         DEF Step, Verify, Spend, LoadSerial, SaveSerial, Insert, Respond, TypeOK
    <3> QED BY <3>1, <3>2
  <2>5. CASE \E q \in Requests : Fail(q)
    BY <2>1, <2>5 DEF Fail, TypeOK
  <2>6. CASE Crash
    BY <2>1, <2>6 DEF Crash, TypeOK
  <2>7. CASE \/ \E m \in Nonces, d \in Devices : Challenge(m, d)
             \/ Tick
             \/ UNCHANGED vars
    BY <2>1, <2>7 DEF Challenge, Tick, vars
  <2> QED BY <2>4, <2>5, <2>6, <2>7 DEF Next
<1>5. Holders(n)' = {}
  BY <1>4, TablesGrow DEF Holders
<1>6. CertsFor(n)' = CertsFor(n)
  <2>1. CASE \E r \in Requests : Insert(r)
    <3>1. PICK r \in Requests : Insert(r)
      BY <2>1
    <3>2. call[r].nonce # n
      BY <3>1, <1>3 DEF Insert
    <3>3. CASE certs' = certs
      BY <3>3, TablesGrow DEF CertsFor
    <3>4. CASE Insertable(r) /\ certs' = Put(certs, serial[r], OwnRow(r))
      <4>1. /\ DOMAIN certs' = DOMAIN certs \cup {serial[r]}
            /\ certs'[serial[r]].by = r
            /\ serial[r] \notin DOMAIN certs
        BY <3>4 DEF Put, OwnRow, Insertable
      <4> QED BY <4>1, <3>2, TablesGrow DEF CertsFor
    <3> QED BY <3>1, <3>3, <3>4 DEF Insert
  <2>2. CASE ~\E r \in Requests : Insert(r)
    <3>1. certs' = certs
      BY <2>2 DEF Next, Step, Challenge, Verify, Spend, LoadSerial, SaveSerial, Respond,
                  Fail, Crash, Tick, vars
    <3> QED BY <3>1, TablesGrow DEF CertsFor
  <2> QED BY <2>1, <2>2
<1> QED BY <1>2, <1>5, <1>6 DEF Sealed

(* Once a nonce is used or expired and nobody who had passed the checks is    *)
(* still on the way, it never yields another certificate.                     *)
THEOREM SealedForGood == Spec => SealedNonceStaysSealed
<1>1. TypeOK /\ [Next]_vars =>
         [\A n \in Nonces : Sealed(n) => Sealed(n)' /\ CertsFor(n)' = CertsFor(n)]_vars
  BY SealedStep
<1> QED BY <1>1, TypeCorrect, PTL DEF Spec, SealedNonceStaysSealed

-----------------------------------------------------------------------------

LEMMA ContractInit == Init => Contract!Init
<1> SUFFICES ASSUME Init PROVE Contract!Init
  OBVIOUS
<1>1. DOMAIN nonces = {} /\ DOMAIN certs = {} /\ Served = {}
  BY EmptyProperties DEF Init, Served
<1>2. Granted = Empty /\ Registry = Empty
  BY <1>1 DEF Granted, Registry, Empty
<1>3. Spent = {} /\ Delivered = {}
  BY <1>1 DEF Spent, Delivered
<1> QED BY <1>2, <1>3 DEF Contract!Init, Contract!Empty, Empty

(* Between Insert and Insert the certificates, between Respond and Respond    *)
(* the deliveries stay as they are.                                           *)
LEMMA ServedByRespond ==
    ASSUME TypeOK, [Next]_vars, ~\E r \in Requests : Respond(r)
    PROVE  Delivered' = Delivered
<1>1. \A q \in Requests : pc[q] = "cert" => pc'[q] = "cert" /\ serial'[q] = serial[q]
  BY DEF Next, Step, Challenge, Verify, Spend, LoadSerial, SaveSerial, Insert,
         Fail, Crash, Tick, vars, TypeOK, InFlight
<1>2. \A q \in Requests : pc'[q] = "cert" => pc[q] = "cert"
  BY DEF Next, Step, Challenge, Verify, Spend, LoadSerial, SaveSerial, Insert,
         Fail, Crash, Tick, vars, TypeOK, InFlight
<1> QED BY <1>1, <1>2 DEF Delivered, Served

LEMMA SpentBySpend ==
    ASSUME TypeOK, [Next]_vars, ~\E r \in Requests : Spend(r)
    PROVE  nonces' = nonces \/ \E n \in Nonces, d \in Devices : Challenge(n, d)
BY DEF Next, Step, Verify, LoadSerial, SaveSerial, Insert, Respond, Fail, Crash, Tick, vars

LEMMA RegistryByInsert ==
    ASSUME TypeOK, [Next]_vars, ~\E r \in Requests : Insert(r)
    PROVE  certs' = certs /\ Registry' = Registry
<1>1. certs' = certs
  BY DEF Next, Step, Challenge, Verify, Spend, LoadSerial, SaveSerial, Respond, Fail, Crash,
         Tick, vars
<1> QED BY <1>1, TablesGrow DEF Registry

LEMMA ContractStep == IInv /\ [Next]_vars => [Contract!Next]_(Contract!cvars)
<1> SUFFICES ASSUME IInv, [Next]_vars
             PROVE  Contract!Next \/ UNCHANGED Contract!cvars
  OBVIOUS
<1>0. /\ TypeOK /\ CertRequiresSpentNonce
      /\ \A r \in Requests : NonceClaim(r) /\ RowClaim(r)
  BY IInvByClaims DEF Grounded
<1>1. ASSUME NEW n \in Nonces, NEW d \in Devices, Challenge(n, d)
      PROVE  Contract!Next \/ UNCHANGED Contract!cvars
  <2>1. Registry' = Registry /\ Delivered' = Delivered
    <3>1. /\ ~\E r \in Requests : Insert(r)
          /\ ~\E r \in Requests : Respond(r)
      BY <1>0, <1>1 DEF Challenge, Insert, Respond, TypeOK
    <3> QED BY <1>0, <3>1, RegistryByInsert, ServedByRespond
  <2> DEFINE row == [deviceId |-> d, expiresAt |-> clock + NonceTTL, used |-> FALSE]
  <2>2. n \notin DOMAIN nonces /\ nonces' = Put(nonces, n, row)
    BY <1>1 DEF Challenge
  <2>3. row.deviceId = d /\ row.used = FALSE
    OBVIOUS
  <2> HIDE DEF row
  <2>4. DOMAIN nonces' = DOMAIN nonces \cup {n}
    BY <2>2 DEF Put
  <2>5. Granted' = Contract!Put(Granted, n, d)
    <3>1. \A m \in DOMAIN nonces' :
             nonces'[m].deviceId = IF m = n THEN d ELSE nonces[m].deviceId
      BY <2>2, <2>3 DEF Put
    <3> QED BY <2>4, <3>1 DEF Granted, Contract!Put
  <2>6. Spent' = Spent
    <3>1. nonces'[n].used = FALSE /\ \A m \in DOMAIN nonces : nonces'[m] = nonces[m]
      BY <2>2, <2>3 DEF Put
    <3> QED BY <2>2, <2>4, <3>1 DEF Spent
  <2>7. n \notin DOMAIN Granted
    BY <2>2 DEF Granted
  <2> QED BY <2>1, <2>5, <2>6, <2>7 DEF Contract!Next, Contract!Grant
<1>2. ASSUME NEW r \in Requests, Spend(r)
      PROVE  Contract!Next \/ UNCHANGED Contract!cvars
  <2> DEFINE n == call[r].nonce
  <2>1. Registry' = Registry /\ Delivered' = Delivered
    <3>1. ~\E q \in Requests : Insert(q) \/ Respond(q)
      BY <1>0, <1>2 DEF Spend, Insert, Respond, TypeOK
    <3> QED BY <1>0, <3>1, RegistryByInsert, ServedByRespond
  <2>2. n \in Nonces /\ n \in DOMAIN nonces
    BY <1>0, <1>2 DEF Spend, NonceClaim, InFlight, TypeOK
  <2>3. /\ DOMAIN nonces' = DOMAIN nonces
        /\ \A m \in DOMAIN nonces : m # n => nonces'[m] = nonces[m]
        /\ nonces'[n] = [nonces[n] EXCEPT !.used = TRUE]
    BY <1>0, <1>2, <2>2 DEF Spend, TypeOK
  <2>4. nonces'[n].used /\ nonces'[n].deviceId = nonces[n].deviceId
    <3>1. nonces[n] \in NonceRow
      BY <1>0, <2>2 DEF TypeOK
    <3> QED BY <2>3, <3>1 DEF NonceRow
  <2> HIDE DEF n
  <2>5. Granted' = Granted
    BY <2>2, <2>3, <2>4 DEF Granted
  <2>6. Spent' = Spent \cup {n}
    BY <2>2, <2>3, <2>4 DEF Spent
  <2>7. n \in DOMAIN Granted
    BY <2>2 DEF Granted
  <2> QED BY <2>1, <2>2, <2>5, <2>6, <2>7 DEF Contract!Next, Contract!Consume
<1>3. ASSUME NEW r \in Requests, Insert(r)
      PROVE  Contract!Next \/ UNCHANGED Contract!cvars
  <2> DEFINE n == call[r].nonce
  <2>1. Granted' = Granted /\ Spent' = Spent
    BY <1>3 DEF Insert, Granted, Spent
  <2>2. Delivered' = Delivered
    <3>1. ~\E q \in Requests : Respond(q)
      BY <1>0, <1>3 DEF Insert, Respond, TypeOK
    <3> QED BY <1>0, <3>1, ServedByRespond
  <2>3. CASE certs' = certs
    BY <2>1, <2>2, <2>3, TablesGrow, <1>0 DEF Registry, Contract!cvars
  <2>4. CASE Insertable(r) /\ certs' = Put(certs, serial[r], OwnRow(r))
    <3>1. n \in Nonces /\ n \in Spent /\ Granted[n] \in Registered
      BY <1>0, <1>3, <2>4 DEF Insert, Insertable, NonceClaim, InFlight, Granted, Spent, TypeOK, Body
    <3>2. Registry' = Contract!Put(Registry, serial[r], n)
      <4>1. /\ DOMAIN certs' = DOMAIN certs \cup {serial[r]}
            /\ serial[r] \notin DOMAIN certs
            /\ \A s \in DOMAIN certs : certs'[s] = certs[s]
            /\ certs'[serial[r]].by = r
        BY <2>4 DEF Put, OwnRow, Insertable
      <4>2. call' = call
        BY <1>0, TablesGrow
      <4> QED BY <4>1, <4>2 DEF Registry, Contract!Put
    <3>3. serial[r] \in DOMAIN Registry' /\ serial[r] \notin DOMAIN Registry
      BY <2>4 DEF Registry, Put, Insertable
    <3>4. Contract!Register(n)
      BY <2>1, <2>2, <3>1, <3>2, <3>3 DEF Contract!Register
    <3> QED BY <3>1, <3>4 DEF Contract!Next
  <2> QED BY <1>3, <2>3, <2>4 DEF Insert
<1>4. ASSUME NEW r \in Requests, Respond(r)
      PROVE  Contract!Next \/ UNCHANGED Contract!cvars
  <2>1. Granted' = Granted /\ Spent' = Spent /\ Registry' = Registry
    BY <1>4 DEF Respond, Granted, Spent, Registry
  <2>2. serial' = serial /\ Served' = Served \cup {r}
    BY <1>0, <1>4 DEF Respond, Served, TypeOK
  <2>3. Delivered' = Delivered \cup {serial[r]}
    BY <2>2 DEF Delivered
  <2>4. serial[r] \in DOMAIN Registry
    BY <1>0, <1>4 DEF Respond, NonceClaim, RowClaim, Registry
  <2>5. serial[r] \notin Delivered
    <3> SUFFICES ASSUME NEW q \in Served, serial[q] = serial[r] PROVE FALSE
      BY DEF Delivered
    <3>1. q \in Requests /\ certs[serial[q]] = OwnRow(q) /\ certs[serial[r]] = OwnRow(r)
      BY <1>0, <1>4 DEF Served, Respond, NonceClaim, RowClaim
    <3>2. OwnRow(q).by = q /\ OwnRow(r).by = r
      BY DEF OwnRow
    <3> QED BY <1>4, <3>1, <3>2 DEF Served, Respond
  <2>6. Contract!Deliver(serial[r])
    BY <2>1, <2>3, <2>4, <2>5 DEF Contract!Deliver
  <2> QED BY <2>4, <2>6 DEF Contract!Next
<1>5. CASE /\ ~\E n \in Nonces, d \in Devices : Challenge(n, d)
           /\ ~\E r \in Requests : Spend(r) \/ Insert(r) \/ Respond(r)
  <2>1. nonces' = nonces /\ Registry' = Registry /\ Delivered' = Delivered
    BY <1>0, <1>5, SpentBySpend, RegistryByInsert, ServedByRespond
  <2> QED BY <2>1 DEF Granted, Spent, Contract!cvars
<1> QED BY <1>1, <1>2, <1>3, <1>4, <1>5

(* Enrollment implements EnrollmentContract. *)
THEOREM Refinement == Spec => ImplementsContract
<1> QED BY ContractInit, ContractStep, InitInv, StepInv, PTL
        DEF Spec, ImplementsContract, Contract!Spec

-----------------------------------------------------------------------------
\* The window between the checks and the UPDATE is all that single use lacks.

Holding == {"checked", "spent", "signing", "signed"}

(* One request at a time is on its way to insert a certificate for a nonce,   *)
(* and none for a nonce that has one.                                         *)
HoldsAlone ==
    \A q, r \in Requests :
        call[q].nonce = call[r].nonce /\ pc[q] \in Holding /\ pc[r] \in Holding => q = r

CertsHeldByNone ==
    \A s \in DOMAIN certs, r \in Requests :
        call[certs[s].by].nonce = call[r].nonce => pc[r] \notin Holding

Single == HoldsAlone /\ CertsHeldByNone /\ NonceSingleUse

(* A request comes to hold a nonce that nobody has spent.                     *)
LEMMA HoldsAfresh ==
    ASSUME TypeOK, [Next]_vars, NEW r \in Requests, pc'[r] \in Holding, pc[r] \notin Holding
    PROVE  /\ pc'[r] = "checked"
           /\ ~nonces[call[r].nonce].used
           /\ \A q \in Requests \ {r} : pc'[q] = pc[q]
           /\ UNCHANGED <<nonces, certs, call>>
<1>1. Step(r)
  BY RestsOrSteps DEF Rests, Holding, InFlight
<1>2. \E v, w \in BOOLEAN : Verify(r, v, w)
  BY <1>1 DEF Step, Spend, LoadSerial, SaveSerial, Insert, Respond, Holding, TypeOK
<1> QED BY <1>2 DEF Verify, NonceAccepted, Holding, TypeOK

LEMMA SingleInit == Init => Single
BY EmptyProperties DEF Init, Single, HoldsAlone, CertsHeldByNone, NonceSingleUse, Holding

LEMMA SingleStep == IInv /\ Single /\ NoRace' /\ [Next]_vars => Single'
<1> SUFFICES ASSUME IInv, Single, NoRace', [Next]_vars PROVE Single'
  OBVIOUS
<1>0. TypeOK /\ CertRequiresSpentNonce /\ \A r \in Requests : NonceClaim(r)
  BY IInvByClaims DEF Grounded
<1>1. call' = call
  BY <1>0, TablesGrow
<1>2. ASSUME NEW q \in Requests, NEW r \in Requests, q # r, call[q].nonce = call[r].nonce,
             pc'[q] \in Holding, pc'[r] \in Holding, pc[q] \notin Holding
      PROVE  FALSE
  <2>1. pc'[q] = "checked" /\ ~nonces[call[r].nonce].used /\ pc'[r] = pc[r]
    BY <1>0, <1>2, HoldsAfresh
  <2>2. pc[r] # "checked"
    BY <1>1, <1>2, <2>1 DEF NoRace
  <2> QED BY <1>0, <1>2, <2>1, <2>2 DEF NonceClaim, Holding
<1>3. HoldsAlone'
  BY <1>1, <1>2 DEF Single, HoldsAlone
\* A certificate is added by a request that held its nonce, alone.
<1>4. ASSUME NEW s \in DOMAIN certs', s \notin DOMAIN certs
      PROVE  \E r \in Requests : /\ certs'[s].by = r /\ pc[r] \in Holding /\ pc'[r] \notin Holding
                                 /\ \A t \in DOMAIN certs' \ {s} : t \in DOMAIN certs
  <2>1. PICK r \in Requests : Insert(r)
    BY <1>4 DEF Next, Step, Challenge, Verify, Spend, LoadSerial, SaveSerial, Respond,
                Fail, Crash, Tick, vars
  <2>2. certs' = Put(certs, serial[r], OwnRow(r)) /\ pc[r] = "signed" /\ pc'[r] = "stored"
    BY <1>0, <1>4, <2>1 DEF Insert, TypeOK
  <2>3. certs'[s] = OwnRow(r) /\ \A t \in DOMAIN certs' \ {s} : t \in DOMAIN certs
    BY <1>4, <2>2 DEF Put
  <2> QED BY <2>2, <2>3 DEF OwnRow, Holding
<1>5. \A s \in DOMAIN certs : s \in DOMAIN certs' /\ certs'[s] = certs[s]
  BY <1>0, TablesGrow
<1>6. CertsHeldByNone'
  <2> SUFFICES ASSUME NEW s \in DOMAIN certs', NEW r \in Requests,
                      call[certs'[s].by].nonce = call[r].nonce, pc'[r] \in Holding
               PROVE  FALSE
    BY <1>1 DEF CertsHeldByNone
  <2>1. CASE s \notin DOMAIN certs
    <3>1. PICK q \in Requests : certs'[s].by = q /\ pc[q] \in Holding /\ pc'[q] \notin Holding
      BY <1>4, <2>1
    <3>2. pc[r] \notin Holding
      BY <3>1 DEF Single, HoldsAlone
    <3>3. certs' = certs
      BY <1>0, <3>2, HoldsAfresh
    <3> QED BY <2>1, <3>3
  <2>2. CASE s \in DOMAIN certs
    <3>1. pc[r] \notin Holding
      BY <1>5, <2>2 DEF Single, CertsHeldByNone
    <3>2. ~nonces[call[r].nonce].used
      BY <1>0, <3>1, HoldsAfresh
    <3> QED BY <1>0, <1>5, <2>2, <3>2 DEF CertRequiresSpentNonce
  <2> QED BY <2>1, <2>2
<1>7. NonceSingleUse'
  <2> SUFFICES ASSUME NEW s \in DOMAIN certs', NEW t \in DOMAIN certs', s \notin DOMAIN certs,
                      call[certs'[s].by].nonce = call[certs'[t].by].nonce, s # t
               PROVE  FALSE
    BY <1>1, <1>5 DEF Single, NonceSingleUse
  <2>1. PICK r \in Requests : /\ certs'[s].by = r /\ pc[r] \in Holding
                              /\ \A x \in DOMAIN certs' \ {s} : x \in DOMAIN certs
    BY <1>4
  <2>2. t \in DOMAIN certs /\ certs'[t] = certs[t]
    BY <1>5, <2>1
  <2> QED BY <2>1, <2>2 DEF Single, CertsHeldByNone
<1> QED BY <1>3, <1>6, <1>7 DEF Single

(* READme.md:107 "Nonce is single-use." holds of every run in which no two    *)
(* requests are between the checks (lines 26-47) and the UPDATE (line 49) of  *)
(* one nonce at once: crashes, failures, retries, expiry and the serials that *)
(* openssl repeats cannot break it.                                           *)
THEOREM SingleUseWithoutRace == Spec /\ []NoRace => []NonceSingleUse
<1>1. Single => NonceSingleUse
  BY DEF Single
<1> QED BY <1>1, InitInv, StepInv, SingleInit, SingleStep, PTL DEF Spec
=============================================================================
