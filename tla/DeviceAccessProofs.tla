------------------------- MODULE DeviceAccessProofs -------------------------
(***************************************************************************)
(* Theorems about DeviceAccess for any devices, users, certificates,       *)
(* tokens and number of concurrent calls, and without the bound on         *)
(* tokenVersion mattering.                                                 *)
(***************************************************************************)
EXTENDS DeviceAccess, TLAPS

Job == Waiting \cup Ended

(* What a call under way has among its locals. *)
LEMMA Shape ==
    ASSUME NEW k \in Job
    PROVE  /\ k.at = "touch" => k.device \in Devices /\ k.serial \in Serials
           /\ k.at = "mint" => k.device \in Devices /\ k.serial \in Serials
           /\ k.at = "certcheck" =>
                 k.device \in Devices /\ k.serial \in Serials /\ k.version \in Nat
           /\ k.at = "validate" => k.token \in Tokens
           /\ k.at \in {"load", "insert", "update"} => k.device \in Devices /\ k.entity \in Row
           /\ k.at = "update" => k.columns \subseteq Columns
           /\ k.at = "remove" => k.device \in Devices
           /\ k.at = "register" => k.device \in Devices /\ k.serial \in Serials
BY DEF Job, Waiting, Ended, Outcomes

(* An outcome is a job. *)
LEMMA OutcomeIsJob == \A o \in {"free"} \cup Outcomes : [at |-> o] \in Job
BY DEF Job, Ended

LEMMA GotoType ==
    ASSUME TypeOK, NEW c \in Calls, NEW k \in Job, Goto(c, k)
    PROVE  call' \in [Calls -> Waiting \cup Ended]
BY DEF TypeOK, Goto, Job

(* Every step of a call leaves it with a job, and leaves the other calls      *)
(* alone; TypeOK needs no more from the steps that only read the tables.      *)
LEMMA ReadType ==
    ASSUME TypeOK, NEW c \in Calls, NEW k \in Job, Goto(c, k),
           UNCHANGED <<devices, certs, tokens, blacklist>>
    PROVE  TypeOK'
BY GotoType DEF TypeOK

LEMMA BeginType == ASSUME TypeOK, NEW c \in Calls, Begin(c) PROVE TypeOK'
<1>1. ASSUME NEW s \in Serials, NEW goal \in {"ping", "mint"}, GuardLookup(c, s, goal)
      PROVE  TypeOK'
  <2>1. PICK k \in {[at |-> "401"], [at |-> "403"],
                    [at |-> "touch", device |-> certs[s], serial |-> s, goal |-> goal]} :
           Goto(c, k) /\ (k.at = "touch" => s \in DOMAIN certs)
    BY <1>1 DEF GuardLookup, Ends
  <2>2. k \in Job
    BY <2>1 DEF Job, Waiting, Ended, Outcomes, TypeOK
  <2> QED BY <1>1, <2>1, <2>2, ReadType DEF GuardLookup
<1>2. ASSUME NEW d \in Devices, NEW j \in Tokens, Issue(c, d, j) PROVE TypeOK'
  <2>1. \E k \in Job : Goto(c, k)
    BY <1>2, OutcomeIsJob DEF Issue, Ends, Outcomes
  <2>2. CASE tokens' = tokens
    BY <1>2, <2>1, <2>2, GotoType DEF Issue, TypeOK
  <2>3. CASE tokens' # tokens
    <3> DEFINE claims == [device |-> d, serial |-> NoSerial,
                          tokenVersion |-> devices[d].tokenVersion]
    <3>1. Mintable(d) /\ tokens' = Put(tokens, j, claims)
      BY <1>2, <2>3 DEF Issue
    <3>2. claims \in Claims
      BY <3>1 DEF Mintable, TypeOK, Row, Claims
    <3> HIDE DEF claims
    <3>3. DOMAIN tokens' \subseteq Tokens /\ tokens' \in [DOMAIN tokens' -> Claims]
      BY <3>1, <3>2 DEF Put, TypeOK
    <3> QED BY <1>2, <2>1, <3>3, GotoType DEF Issue, TypeOK
  <2> QED BY <2>2, <2>3
<1>3. ASSUME NEW j \in Tokens, ValidateStart(c, j) PROVE TypeOK'
  <2>1. PICK k \in {[at |-> "401"], [at |-> "validate", token |-> j]} : Goto(c, k)
    BY <1>3 DEF ValidateStart, Ends
  <2>2. k \in Job
    BY DEF Job, Waiting, Ended, Outcomes
  <2> QED BY <1>3, <2>1, <2>2, ReadType DEF ValidateStart
<1>4. ASSUME NEW d \in Devices, RevokeRead(c, d) PROVE TypeOK'
  <2> DEFINE entity == [status |-> devices[d].status, revoked |-> TRUE,
                        tokenVersion |-> devices[d].tokenVersion + 1]
  <2>1. CASE d \notin DOMAIN devices
    BY <1>4, <2>1, OutcomeIsJob, ReadType DEF RevokeRead, Ends, Outcomes
  <2>2. CASE d \in DOMAIN devices
    <3>1. entity \in Row
      BY <2>2 DEF TypeOK, Row
    <3>2. Goto(c, [at |-> "load", device |-> d, entity |-> entity])
      BY <1>4, <2>2 DEF RevokeRead
    <3> HIDE DEF entity
    <3>3. [at |-> "load", device |-> d, entity |-> entity] \in Job
      BY <3>1 DEF Job, Waiting
    <3> QED BY <1>4, <3>2, <3>3, ReadType DEF RevokeRead
  <2> QED BY <2>1, <2>2
<1>5. ASSUME NEW d \in Devices, NEW u \in Users, DeleteRead(c, u, d) PROVE TypeOK'
  <2>1. PICK k \in {[at |-> "404"], [at |-> "403"], [at |-> "remove", device |-> d]} : Goto(c, k)
    BY <1>5 DEF DeleteRead, Ends
  <2>2. k \in Job
    BY DEF Job, Waiting, Ended, Outcomes
  <2> QED BY <1>5, <2>1, <2>2, ReadType DEF DeleteRead
<1>6. ASSUME NEW d \in Devices, NEW s \in Serials, RegisterRead(c, d, s) PROVE TypeOK'
  <2>1. PICK k \in {[at |-> "500"], [at |-> "register", device |-> d, serial |-> s]} : Goto(c, k)
    BY <1>6 DEF RegisterRead, Ends
  <2>2. k \in Job
    BY DEF Job, Waiting, Ended, Outcomes
  <2> QED BY <1>6, <2>1, <2>2, ReadType DEF RegisterRead
<1> QED BY <1>1, <1>2, <1>3, <1>4, <1>5, <1>6 DEF Begin

(* What save writes is a row. *)
LEMMA PatchedType ==
    \A row, entity \in Row, columns \in SUBSET Columns : Patched(row, entity, columns) \in Row
BY DEF Patched, Row

LEMMA ContinueType == ASSUME TypeOK, NEW c \in Calls, Continue(c) PROVE TypeOK'
<1> DEFINE k == call[c]
<1>0. k \in Job
  BY DEF TypeOK, Job
<1>1. CASE Touch(c)
  <2>1. CASE k.goal = "ping"
    BY <1>1, <2>1, OutcomeIsJob, ReadType DEF Touch, Ends, Outcomes
  <2>2. CASE k.goal # "ping"
    <3>1. [at |-> "mint", device |-> k.device, serial |-> k.serial] \in Job
      BY <1>0, <1>1, Shape DEF Touch, Job, Waiting
    <3> QED BY <1>1, <2>2, <3>1, ReadType DEF Touch
  <2> QED BY <2>1, <2>2
<1>2. CASE MintRead(c)
  <2>1. CASE Mintable(k.device)
    <3>1. devices[k.device].tokenVersion \in Nat
      BY <2>1 DEF Mintable, TypeOK, Row
    <3>2. [at |-> "certcheck", device |-> k.device, serial |-> k.serial,
           version |-> devices[k.device].tokenVersion] \in Job
      BY <1>0, <1>2, <3>1, Shape DEF MintRead, Job, Waiting
    <3> QED BY <1>2, <2>1, <3>2, ReadType DEF MintRead
  <2>2. CASE ~Mintable(k.device)
    BY <1>2, <2>2, OutcomeIsJob, ReadType DEF MintRead, Ends, Outcomes
  <2> QED BY <2>1, <2>2
<1>3. ASSUME NEW j \in Tokens, CertCheck(c, j) PROVE TypeOK'
  <2>1. \E o \in Job : Goto(c, o)
    BY <1>3, OutcomeIsJob DEF CertCheck, Ends, Outcomes
  <2>2. CASE tokens' = tokens
    BY <1>3, <2>1, <2>2, GotoType DEF CertCheck, TypeOK
  <2>3. CASE tokens' # tokens
    <3> DEFINE claims == [device |-> k.device, tokenVersion |-> k.version,
                          serial |-> k.serial]
    <3>1. tokens' = Put(tokens, j, claims)
      BY <1>3, <2>3 DEF CertCheck
    <3>2. claims \in Claims
      BY <1>0, <1>3, Shape DEF CertCheck, Claims
    <3> HIDE DEF claims
    <3>3. DOMAIN tokens' \subseteq Tokens /\ tokens' \in [DOMAIN tokens' -> Claims]
      BY <3>1, <3>2 DEF Put, TypeOK
    <3> QED BY <1>3, <2>1, <3>3, GotoType DEF CertCheck, TypeOK
  <2> QED BY <2>2, <2>3
<1>4. CASE ValidateDevice(c)
  BY <1>4, OutcomeIsJob, ReadType DEF ValidateDevice, Ends, Outcomes
<1>5. CASE SaveLoad(c)
  <2>1. k.device \in Devices /\ k.entity \in Row
    BY <1>0, <1>5, Shape DEF SaveLoad
  <2> DEFINE columns == {col \in Columns : k.entity[col] # devices[k.device][col]}
  <2>2. columns \in SUBSET Columns
    OBVIOUS
  <2>3. \/ Goto(c, [at |-> "update", device |-> k.device, entity |-> k.entity,
                    columns |-> columns])
        \/ Goto(c, [at |-> "insert", device |-> k.device, entity |-> k.entity])
    BY <1>5 DEF SaveLoad
  <2> HIDE DEF columns
  <2>4. /\ [at |-> "update", device |-> k.device, entity |-> k.entity,
            columns |-> columns] \in Job
        /\ [at |-> "insert", device |-> k.device, entity |-> k.entity] \in Job
    BY <2>1, <2>2 DEF Job, Waiting
  <2> QED BY <1>5, <2>3, <2>4, ReadType DEF SaveLoad
<1>6. CASE SaveUpdate(c)
  <2>1. k.device \in Devices /\ k.entity \in Row /\ k.columns \subseteq Columns
    BY <1>0, <1>6, Shape DEF SaveUpdate
  <2>2. \A e \in DOMAIN devices : devices[e] \in Row
    BY DEF TypeOK
  <2>3. DOMAIN devices' = DOMAIN devices /\ devices' \in [DOMAIN devices -> Row]
    BY <1>6, <2>1, <2>2, PatchedType DEF SaveUpdate
  <2> QED BY <1>6, <2>3, OutcomeIsJob, GotoType DEF SaveUpdate, Ends, Outcomes, TypeOK
<1>7. CASE SaveInsert(c)
  <2>1. k.device \in Devices /\ k.entity \in Row
    BY <1>0, <1>7, Shape DEF SaveInsert
  <2>2. devices' = devices \/ devices' = Put(devices, k.device, k.entity)
    BY <1>7 DEF SaveInsert
  <2>3. DOMAIN devices' \subseteq Devices /\ devices' \in [DOMAIN devices' -> Row]
    BY <2>1, <2>2 DEF Put, TypeOK
  <2>4. \E o \in Job : Goto(c, o)
    BY <1>7, OutcomeIsJob DEF SaveInsert, Ends, Outcomes
  <2> QED BY <1>7, <2>3, <2>4, GotoType DEF SaveInsert, TypeOK
<1>8. CASE DeleteRemove(c)
  <2>1. /\ DOMAIN devices' \subseteq Devices /\ devices' \in [DOMAIN devices' -> Row]
        /\ DOMAIN certs' \subseteq Serials /\ certs' \in [DOMAIN certs' -> Devices]
    BY <1>8 DEF DeleteRemove, Drop, TypeOK
  <2> QED BY <1>8, <2>1, OutcomeIsJob, GotoType DEF DeleteRemove, Ends, Outcomes, TypeOK
<1>9. CASE RegisterInsert(c)
  <2>1. k.device \in Devices /\ k.serial \in Serials
    BY <1>0, <1>9, Shape DEF RegisterInsert
  <2>2. certs' = certs \/ certs' = Put(certs, k.serial, k.device)
    BY <1>9 DEF RegisterInsert
  <2>3. DOMAIN certs' \subseteq Serials /\ certs' \in [DOMAIN certs' -> Devices]
    BY <2>1, <2>2 DEF Put, TypeOK
  <2>4. \E o \in Job : Goto(c, o)
    BY <1>9, OutcomeIsJob DEF RegisterInsert, Ends, Outcomes
  <2> QED BY <1>9, <2>3, <2>4, GotoType DEF RegisterInsert, TypeOK
<1> QED BY <1>1, <1>2, <1>3, <1>4, <1>5, <1>6, <1>7, <1>8, <1>9 DEF Continue

LEMMA StepType == TypeOK /\ [Next]_vars => TypeOK'
<1> SUFFICES ASSUME TypeOK, [Next]_vars PROVE TypeOK'
  OBVIOUS
<1>1. ASSUME NEW c \in Calls, Begin(c) \/ Continue(c) PROVE TypeOK'
  BY <1>1, BeginType, ContinueType
<1>2. ASSUME NEW c \in Calls, Fail(c) \/ Recycle(c) PROVE TypeOK'
  BY <1>2, OutcomeIsJob, ReadType DEF Fail, Recycle, Ends, Outcomes
<1>3. ASSUME NEW j \in Tokens, RevokeJti(j) \/ BlacklistLapse(j) PROVE TypeOK'
  BY <1>3 DEF RevokeJti, BlacklistLapse, TypeOK
<1>4. ASSUME NEW d \in Devices, NEW status \in Statuses, SetStatus(d, status) PROVE TypeOK'
  <2>1. \A row \in Row : [row EXCEPT !.status = status] \in Row
    BY DEF Row
  <2>2. DOMAIN devices' = DOMAIN devices /\ devices' \in [DOMAIN devices -> Row]
    BY <1>4, <2>1 DEF SetStatus, TypeOK
  <2> QED BY <1>4, <2>2 DEF SetStatus, TypeOK
<1>5. CASE UNCHANGED vars
  BY <1>5 DEF vars, TypeOK
<1> QED BY <1>1, <1>2, <1>3, <1>4, <1>5 DEF Next, Operator

LEMMA InitInv == Init => IInv
<1> SUFFICES ASSUME Init PROVE IInv
  OBVIOUS
<1>1. tokens = Empty /\ DOMAIN Empty = {} /\ Empty \in [{} -> Claims]
  BY DEF Init, Empty
<1>2. \A c \in Calls : call[c] = [at |-> "free"]
  BY DEF Init
<1>3. \A d \in Devices : devices[d] \in Row /\ ~devices[d].revoked /\ devices[d].tokenVersion = 0
  <2>1. \A status \in Statuses : /\ NewRow(status) \in Row
                                  /\ ~NewRow(status).revoked
                                  /\ NewRow(status).tokenVersion = 0
    BY DEF NewRow, Row
  <2> QED BY <2>1 DEF Init
<1>4. devices \in [Devices -> Row] /\ DOMAIN devices = Devices
  BY <1>3 DEF Init
<1>5. DOMAIN certs \subseteq Serials /\ certs \in [DOMAIN certs -> Devices]
  BY DEF Init
<1>6. TypeOK
  BY <1>1, <1>4, <1>5 DEF Init, TypeOK, Ended
<1>7. VersionsSeparate
  <2>1. \A d \in DOMAIN devices : devices[d].revoked <=> devices[d].tokenVersion > 0
    BY <1>3, <1>4
  <2>2. \A c \in Calls : LocalsConsistent(call[c])
    BY <1>2 DEF LocalsConsistent
  <2> QED BY <1>1, <2>1, <2>2 DEF VersionsSeparate
<1>8. CertsOnRecord
  BY <1>1, <1>4, <1>5 DEF CertsOnRecord
<1> QED BY <1>6, <1>7, <1>8 DEF IInv

THEOREM TypeCorrect == Spec => []TypeOK
<1>1. Init => TypeOK
  BY InitInv DEF IInv
<1> QED BY <1>1, StepType, PTL DEF Spec

-----------------------------------------------------------------------------

(* The three steps that write the table devices on behalf of a call and the   *)
(* operator's are the only ones that do.                                      *)
LEMMA DevicesWritten ==
    ASSUME [Next]_vars, devices' # devices
    PROVE  \/ \E c \in Calls : SaveUpdate(c) \/ SaveInsert(c) \/ DeleteRemove(c)
           \/ Operator
BY DEF Next, Begin, Continue, GuardLookup, Issue, ValidateStart, RevokeRead, DeleteRead,
       RegisterRead, Touch, MintRead, CertCheck, ValidateDevice, SaveLoad, RegisterInsert,
       Fail, Recycle, RevokeJti, BlacklistLapse, vars

(* No step makes a device live that was not: whoever writes a row writes      *)
(* revoked into it or leaves revoked as it is.                                *)
LEMMA LiveShrinks ==
    ASSUME IInv, [Next]_vars, NEW d \in Devices, Live(d)'
    PROVE  Live(d)
<1>0. TypeOK /\ VersionsSeparate
  BY DEF IInv
<1>1. CASE devices' = devices
  BY <1>1 DEF Live
<1>2. ASSUME NEW c \in Calls, SaveUpdate(c) PROVE Live(d)
  <2> DEFINE k == call[c]
  <2>1. k \in Job /\ k.at = "update" /\ LocalsConsistent(k)
    BY <1>0, <1>2 DEF TypeOK, Job, SaveUpdate, VersionsSeparate
  <2>2. d \in DOMAIN devices /\ ~devices'[d].revoked
    BY <1>2 DEF Live, SaveUpdate
  <2>3. devices'[d] = IF d = k.device THEN Patched(devices[d], k.entity, k.columns) ELSE devices[d]
    BY <1>2, <2>2 DEF SaveUpdate
  <2>4. k.entity.revoked
    BY <2>1 DEF LocalsConsistent
  <2> QED BY <2>2, <2>3, <2>4 DEF Live, Patched
<1>3. ASSUME NEW c \in Calls, SaveInsert(c) PROVE Live(d)
  <2> DEFINE k == call[c]
  <2>1. k.entity.revoked
    BY <1>0, <1>3 DEF SaveInsert, VersionsSeparate, LocalsConsistent
  <2>2. CASE devices' = devices
    BY <2>2 DEF Live
  <2>3. CASE devices' = Put(devices, k.device, k.entity)
    BY <2>1, <2>3 DEF Live, Put
  <2> QED BY <1>3, <2>2, <2>3 DEF SaveInsert
<1>4. ASSUME NEW c \in Calls, DeleteRemove(c) PROVE Live(d)
  BY <1>4 DEF DeleteRemove, Drop, Live
<1>5. ASSUME NEW e \in Devices, NEW status \in Statuses, SetStatus(e, status) PROVE Live(d)
  <2>1. \A row \in Row : [row EXCEPT !.status = status].revoked = row.revoked
    BY DEF Row
  <2>2. d \in DOMAIN devices /\ devices[d] \in Row
    BY <1>0, <1>5 DEF SetStatus, Live, TypeOK
  <2> QED BY <1>5, <2>1, <2>2 DEF SetStatus, Live, TypeOK
<1> QED BY <1>1, <1>2, <1>3, <1>4, <1>5, DevicesWritten DEF Operator

(* The same as a formula. *)
LEMMA StepLive == IInv /\ [Next]_vars => \A d \in Devices : Live(d)' => Live(d)
BY LiveShrinks

(* A step of one call leaves the locals of the others consistent, since no    *)
(* device gets live.                                                          *)
LEMMA OthersConsistent ==
    ASSUME IInv, [Next]_vars, NEW c \in Calls, call'[c] = call[c]
    PROVE  LocalsConsistent(call[c])'
<1>1. LocalsConsistent(call[c]) /\ call[c] \in Job
  BY DEF IInv, VersionsSeparate, TypeOK, Job
<1>2. call[c].at = "update" => call[c].device \in Devices
  BY <1>1, Shape
<1>3. call[c].at = "update" /\ Live(call[c].device)' => Live(call[c].device)
  BY <1>2, LiveShrinks
<1> QED BY <1>1, <1>3 DEF LocalsConsistent, Live

(* A mintable device has version 0. *)
LEMMA MintableVersion ==
    ASSUME IInv, NEW d, Mintable(d)
    PROVE  devices[d].tokenVersion = 0
<1>1. devices[d] \in Row /\ ~(devices[d].tokenVersion > 0)
  BY DEF IInv, TypeOK, VersionsSeparate, Mintable
<1> QED BY <1>1 DEF Row

LEMMA RowsStep ==
    ASSUME IInv, [Next]_vars, NEW d \in DOMAIN devices'
    PROVE  devices'[d].revoked <=> devices'[d].tokenVersion > 0
<1>0. TypeOK /\ VersionsSeparate
  BY DEF IInv
<1>1. CASE devices' = devices
  BY <1>0, <1>1 DEF VersionsSeparate
<1>2. ASSUME NEW c \in Calls, SaveUpdate(c)
      PROVE  devices'[d].revoked <=> devices'[d].tokenVersion > 0
  <2> DEFINE k == call[c]
  <2>1. k \in Job /\ k.at = "update" /\ LocalsConsistent(k)
    BY <1>0, <1>2 DEF TypeOK, Job, SaveUpdate, VersionsSeparate
  <2>2. d \in DOMAIN devices /\ (devices[d].revoked <=> devices[d].tokenVersion > 0)
    BY <1>0, <1>2 DEF SaveUpdate, VersionsSeparate
  <2>3. devices'[d] = IF d = k.device THEN Patched(devices[d], k.entity, k.columns) ELSE devices[d]
    BY <1>2, <2>2 DEF SaveUpdate
  <2>4. k.entity.revoked /\ k.entity.tokenVersion > 0
    BY <2>1 DEF LocalsConsistent
  <2>5. d = k.device /\ ~devices[d].revoked =>
           "revoked" \in k.columns /\ "tokenVersion" \in k.columns
    BY <2>1, <2>2 DEF LocalsConsistent, Live
  <2>6. d = k.device => Patched(devices[d], k.entity, k.columns).revoked
                        /\ Patched(devices[d], k.entity, k.columns).tokenVersion > 0
    BY <2>2, <2>4, <2>5 DEF Patched
  <2> QED BY <2>2, <2>3, <2>6
<1>3. ASSUME NEW c \in Calls, SaveInsert(c)
      PROVE  devices'[d].revoked <=> devices'[d].tokenVersion > 0
  <2> DEFINE k == call[c]
  <2>1. k.entity.revoked /\ k.entity.tokenVersion > 0
    BY <1>0, <1>3 DEF SaveInsert, VersionsSeparate, LocalsConsistent
  <2>2. CASE devices' = devices
    BY <1>1, <2>2
  <2>3. CASE devices' = Put(devices, k.device, k.entity)
    <3>1. d # k.device => d \in DOMAIN devices /\ devices'[d] = devices[d]
      BY <2>3 DEF Put
    <3>2. d = k.device => devices'[d] = k.entity
      BY <2>3 DEF Put
    <3> QED BY <1>0, <2>1, <3>1, <3>2 DEF VersionsSeparate
  <2> QED BY <1>3, <2>2, <2>3 DEF SaveInsert
<1>4. ASSUME NEW c \in Calls, DeleteRemove(c)
      PROVE  devices'[d].revoked <=> devices'[d].tokenVersion > 0
  BY <1>0, <1>4 DEF DeleteRemove, Drop, VersionsSeparate
<1>5. ASSUME NEW e \in Devices, NEW status \in Statuses, SetStatus(e, status)
      PROVE  devices'[d].revoked <=> devices'[d].tokenVersion > 0
  <2>1. \A row \in Row : /\ [row EXCEPT !.status = status].revoked = row.revoked
                         /\ [row EXCEPT !.status = status].tokenVersion = row.tokenVersion
    BY DEF Row
  <2>2. d \in DOMAIN devices /\ devices[d] \in Row
    BY <1>0, <1>5 DEF SetStatus, TypeOK
  <2>3. /\ devices'[d].revoked = devices[d].revoked
        /\ devices'[d].tokenVersion = devices[d].tokenVersion
    BY <1>5, <2>1, <2>2 DEF SetStatus
  <2> QED BY <1>0, <2>2, <2>3 DEF VersionsSeparate
<1> QED BY <1>1, <1>2, <1>3, <1>4, <1>5, DevicesWritten DEF Operator

(* What a signed token says: the version the device had when it was live, and *)
(* a certificate that was on record when it was signed.                       *)
LEMMA TokenSigned ==
    ASSUME IInv, [Next]_vars, NEW j \in DOMAIN tokens', j \notin DOMAIN tokens
    PROVE  /\ tokens'[j].tokenVersion = 0
           /\ UNCHANGED <<devices, certs>>
           /\ tokens'[j].serial # NoSerial =>
                 /\ tokens'[j].serial \in DOMAIN certs
                 /\ certs[tokens'[j].serial] = tokens'[j].device
<1>0. TypeOK /\ VersionsSeparate
  BY DEF IInv
<1>1. \E c \in Calls : \/ \E d \in Devices, i \in Tokens : Issue(c, d, i)
                       \/ \E i \in Tokens : CertCheck(c, i)
  BY DEF Next, Begin, Continue, GuardLookup, ValidateStart, RevokeRead, DeleteRead,
         RegisterRead, Touch, MintRead, ValidateDevice, SaveLoad, SaveUpdate, SaveInsert,
         DeleteRemove, RegisterInsert, Fail, Recycle, RevokeJti, BlacklistLapse,
         Operator, SetStatus, vars
<1>2. ASSUME NEW c \in Calls, NEW d \in Devices, NEW i \in Tokens, Issue(c, d, i)
      PROVE  tokens'[j].tokenVersion = 0 /\ tokens'[j].serial = NoSerial
  <2> DEFINE claims == [device |-> d, serial |-> NoSerial,
                        tokenVersion |-> devices[d].tokenVersion]
  <2>1. Mintable(d) /\ tokens' = Put(tokens, i, claims)
    BY <1>2 DEF Issue
  <2>2. claims.tokenVersion = 0 /\ claims.serial = NoSerial
    BY <2>1, MintableVersion
  <2> HIDE DEF claims
  <2> QED BY <2>1, <2>2 DEF Put
<1>3. ASSUME NEW c \in Calls, NEW i \in Tokens, CertCheck(c, i)
      PROVE  /\ tokens'[j].tokenVersion = 0
             /\ tokens'[j].serial \in DOMAIN certs
             /\ certs[tokens'[j].serial] = tokens'[j].device
  <2> DEFINE claims == [device |-> call[c].device, tokenVersion |-> call[c].version,
                        serial |-> call[c].serial]
  <2>1. /\ tokens' = Put(tokens, i, claims)
        /\ call[c].serial \in DOMAIN certs
        /\ certs[call[c].serial] = call[c].device
    BY <1>3 DEF CertCheck
  <2>2. call[c].version = 0
    BY <1>0, <1>3 DEF CertCheck, VersionsSeparate, LocalsConsistent
  <2>3. /\ claims.tokenVersion = 0
        /\ claims.serial = call[c].serial
        /\ claims.device = call[c].device
    BY <2>2
  <2> HIDE DEF claims
  <2>4. tokens'[j] = claims
    BY <2>1 DEF Put
  <2> QED BY <2>1, <2>3, <2>4
<1>4. UNCHANGED <<devices, certs>>
  BY <1>1 DEF Issue, CertCheck
<1> QED BY <1>1, <1>2, <1>3, <1>4

(* Tokens are never changed. *)
LEMMA TokensKept ==
    ASSUME [Next]_vars, NEW j \in DOMAIN tokens
    PROVE  j \in DOMAIN tokens' /\ tokens'[j] = tokens[j]
<1>1. CASE tokens' = tokens
  BY <1>1
<1>2. CASE \E i, claims : i \notin DOMAIN tokens /\ tokens' = Put(tokens, i, claims)
  BY <1>2 DEF Put
<1>3. ASSUME NEW c \in Calls, NEW d \in Devices, NEW i \in Tokens, Issue(c, d, i)
      PROVE  \/ tokens' = tokens
             \/ \E k, claims : k \notin DOMAIN tokens /\ tokens' = Put(tokens, k, claims)
  BY <1>3 DEF Issue
<1>4. ASSUME NEW c \in Calls, NEW i \in Tokens, CertCheck(c, i)
      PROVE  \/ tokens' = tokens
             \/ \E k, claims : k \notin DOMAIN tokens /\ tokens' = Put(tokens, k, claims)
  BY <1>4 DEF CertCheck
<1> QED
  BY <1>1, <1>2, <1>3, <1>4
     DEF Next, Begin, Continue, GuardLookup, ValidateStart, RevokeRead, DeleteRead,
         RegisterRead, Touch, MintRead, ValidateDevice, SaveLoad, SaveUpdate, SaveInsert,
         DeleteRemove, RegisterInsert, Fail, Recycle, RevokeJti, BlacklistLapse,
         Operator, SetStatus, vars

(* An outcome has no locals to be consistent. *)
LEMMA OutcomeConsistent ==
    \A o \in {"free"} \cup Outcomes : LocalsConsistent([at |-> o])'
BY DEF Outcomes, LocalsConsistent

LEMMA LocalsStep ==
    ASSUME IInv, [Next]_vars, NEW q \in Calls
    PROVE  LocalsConsistent(call[q])'
<1>0. TypeOK /\ VersionsSeparate /\ DOMAIN call = Calls
  BY DEF IInv, TypeOK
<1> DEFINE k == call[q]
<1>1. CASE call'[q] = k
  BY <1>1, OthersConsistent
\* The steps that end the call, whoever takes them.
<1>2. ASSUME NEW o \in {"free"} \cup Outcomes, call'[q] = [at |-> o]
      PROVE  LocalsConsistent(call[q])'
  BY <1>2, OutcomeConsistent DEF LocalsConsistent
\* The steps after which no constrained local is held.
<1>3. ASSUME call'[q].at \in {"touch", "mint", "validate", "remove", "register"}
      PROVE  LocalsConsistent(call[q])'
  BY <1>3 DEF LocalsConsistent
<1>4. CASE MintRead(q) /\ Mintable(k.device)
  <2>1. call'[q] = [at |-> "certcheck", device |-> k.device, serial |-> k.serial,
                    version |-> devices[k.device].tokenVersion]
    BY <1>0, <1>4 DEF MintRead, Goto
  <2>2. devices[k.device].tokenVersion = 0
    BY <1>4, MintableVersion
  <2> QED BY <2>1, <2>2 DEF LocalsConsistent
<1>5. ASSUME NEW d \in DOMAIN devices, RevokeRead(q, d) PROVE LocalsConsistent(call[q])'
  <2> DEFINE entity == [status |-> devices[d].status, revoked |-> TRUE,
                        tokenVersion |-> devices[d].tokenVersion + 1]
  <2>1. devices[d].tokenVersion \in Nat
    BY <1>0 DEF TypeOK, Row
  <2>2. entity.revoked /\ entity.tokenVersion > 0
    BY <2>1
  <2>3. call'[q] = [at |-> "load", device |-> d, entity |-> entity]
    BY <1>0, <1>5 DEF RevokeRead, Goto
  <2> HIDE DEF entity
  <2> QED BY <2>2, <2>3 DEF LocalsConsistent
<1>6. CASE SaveLoad(q)
  <2> DEFINE columns == {col \in Columns : k.entity[col] # devices[k.device][col]}
  <2>1. k.entity.revoked /\ k.entity.tokenVersion > 0
    BY <1>0, <1>6 DEF SaveLoad, VersionsSeparate, LocalsConsistent
  <2>2. Live(k.device) => {"revoked", "tokenVersion"} \subseteq columns
    <3>1. ASSUME Live(k.device) PROVE ~devices[k.device].revoked /\ ~(devices[k.device].tokenVersion > 0)
      BY <1>0, <3>1 DEF Live, VersionsSeparate
    <3>2. ASSUME Live(k.device)
          PROVE  /\ k.entity["revoked"] # devices[k.device]["revoked"]
                 /\ k.entity["tokenVersion"] # devices[k.device]["tokenVersion"]
      <4>1. k.entity \in Row /\ devices[k.device] \in Row
        BY <1>0, <1>6, <3>2, Shape DEF SaveLoad, Live, TypeOK, Job
      <4>2. k.entity.revoked = TRUE /\ devices[k.device].revoked = FALSE
        BY <2>1, <3>1, <3>2, <4>1 DEF Row
      <4>3. k.entity.tokenVersion # devices[k.device].tokenVersion
        BY <2>1, <3>1, <3>2
      <4>4. k.entity.revoked # devices[k.device].revoked
        BY <4>2, Zenon
      <4> QED BY <4>3, <4>4
    <3> QED BY <3>2 DEF Columns
  <2> HIDE DEF columns
  <2>3. CASE call'[q] = [at |-> "update", device |-> k.device, entity |-> k.entity,
                         columns |-> columns]
    <3>1. devices' = devices
      BY <1>6 DEF SaveLoad
    <3>2. /\ call'[q].at = "update"
          /\ call'[q].device = k.device
          /\ call'[q].entity = k.entity
          /\ call'[q].columns = columns
      BY <2>3
    <3> QED BY <2>1, <2>2, <3>1, <3>2 DEF LocalsConsistent, Live
  <2>4. CASE call'[q] = [at |-> "insert", device |-> k.device, entity |-> k.entity]
    BY <2>1, <2>4 DEF LocalsConsistent
  <2>5. \/ call'[q] = [at |-> "update", device |-> k.device, entity |-> k.entity,
                       columns |-> columns]
        \/ call'[q] = [at |-> "insert", device |-> k.device, entity |-> k.entity]
    BY <1>0, <1>6 DEF SaveLoad, Goto, columns
  <2> QED BY <2>3, <2>4, <2>5
<1>7. ASSUME Begin(q), ~\E d \in DOMAIN devices : RevokeRead(q, d)
      PROVE  \/ \E o \in {"free"} \cup Outcomes : call'[q] = [at |-> o]
             \/ call'[q].at \in {"touch", "mint", "validate", "remove", "register"}
  <2>1. ASSUME NEW s \in Serials, NEW goal \in {"ping", "mint"}, GuardLookup(q, s, goal)
        PROVE  \/ \E o \in {"free"} \cup Outcomes : call'[q] = [at |-> o]
               \/ call'[q].at = "touch"
    BY <1>0, <2>1 DEF GuardLookup, Ends, Goto, Outcomes
  <2>2. ASSUME NEW d \in Devices, NEW j \in Tokens, Issue(q, d, j)
        PROVE  \E o \in {"free"} \cup Outcomes : call'[q] = [at |-> o]
    BY <1>0, <2>2 DEF Issue, Ends, Goto, Outcomes
  <2>3. ASSUME NEW j \in Tokens, ValidateStart(q, j)
        PROVE  \/ \E o \in {"free"} \cup Outcomes : call'[q] = [at |-> o]
               \/ call'[q].at = "validate"
    BY <1>0, <2>3 DEF ValidateStart, Ends, Goto, Outcomes
  <2>4. ASSUME NEW d \in Devices, RevokeRead(q, d)
        PROVE  \E o \in {"free"} \cup Outcomes : call'[q] = [at |-> o]
    <3>1. d \notin DOMAIN devices
      BY <1>7, <2>4
    <3> QED BY <1>0, <2>4, <3>1 DEF RevokeRead, Ends, Goto, Outcomes
  <2>5. ASSUME NEW d \in Devices, NEW u \in Users, DeleteRead(q, u, d)
        PROVE  \/ \E o \in {"free"} \cup Outcomes : call'[q] = [at |-> o]
               \/ call'[q].at = "remove"
    BY <1>0, <2>5 DEF DeleteRead, Ends, Goto, Outcomes
  <2>6. ASSUME NEW d \in Devices, NEW s \in Serials, RegisterRead(q, d, s)
        PROVE  \/ \E o \in {"free"} \cup Outcomes : call'[q] = [at |-> o]
               \/ call'[q].at = "register"
    BY <1>0, <2>6 DEF RegisterRead, Ends, Goto, Outcomes
  <2> QED BY <1>7, <2>1, <2>2, <2>3, <2>4, <2>5, <2>6 DEF Begin
<1>8. ASSUME Continue(q), ~SaveLoad(q), ~(MintRead(q) /\ Mintable(k.device))
      PROVE  \/ \E o \in {"free"} \cup Outcomes : call'[q] = [at |-> o]
             \/ call'[q].at \in {"touch", "mint", "validate", "remove", "register"}
  BY <1>0, <1>8 DEF Continue, Touch, MintRead, CertCheck, ValidateDevice, SaveUpdate,
                    SaveInsert, DeleteRemove, RegisterInsert, Ends, Goto, Outcomes
<1>9. ASSUME Fail(q) \/ Recycle(q)
      PROVE  \E o \in {"free"} \cup Outcomes : call'[q] = [at |-> o]
  BY <1>0, <1>9 DEF Fail, Recycle, Ends, Goto, Outcomes
<1>10. ASSUME NEW c \in Calls, Begin(c) \/ Continue(c) \/ Fail(c) \/ Recycle(c), c # q
       PROVE  call'[q] = k
  BY <1>0, <1>10 DEF Begin, GuardLookup, Issue, ValidateStart, RevokeRead, DeleteRead,
         RegisterRead, Continue, Touch, MintRead, CertCheck, ValidateDevice, SaveLoad,
         SaveUpdate, SaveInsert, DeleteRemove, RegisterInsert, Fail, Recycle, Ends, Goto
<1>11. CASE UNCHANGED call
  BY <1>1, <1>11
<1>12. CASE Begin(q)
  BY <1>2, <1>3, <1>5, <1>7, <1>12
<1>13. CASE Continue(q)
  BY <1>2, <1>3, <1>4, <1>6, <1>8, <1>13
<1> QED
  BY <1>1, <1>2, <1>9, <1>10, <1>11, <1>12, <1>13
     DEF Next, RevokeJti, BlacklistLapse, Operator, SetStatus, vars

(* The foreign key holds: a certificate's device has a row. *)
LEMMA ForeignKeyStep ==
    ASSUME IInv, [Next]_vars, NEW s \in DOMAIN certs'
    PROVE  certs'[s] \in DOMAIN devices'
<1>0. CertsOnRecord
  BY DEF IInv
<1>1. ASSUME NEW c \in Calls, DeleteRemove(c) PROVE certs'[s] \in DOMAIN devices'
  BY <1>0, <1>1 DEF DeleteRemove, Drop, CertsOnRecord
<1>2. ASSUME NEW c \in Calls, RegisterInsert(c) PROVE certs'[s] \in DOMAIN devices'
  <2>1. CASE certs' = certs
    BY <1>0, <1>2, <2>1 DEF RegisterInsert, CertsOnRecord
  <2>2. CASE /\ certs' = Put(certs, call[c].serial, call[c].device)
             /\ call[c].device \in DOMAIN devices
    BY <1>0, <1>2, <2>2 DEF RegisterInsert, CertsOnRecord, Put
  <2> QED BY <1>2, <2>1, <2>2 DEF RegisterInsert
<1>3. ASSUME ~\E c \in Calls : DeleteRemove(c) \/ RegisterInsert(c)
      PROVE  certs' = certs
  BY <1>3 DEF Next, Begin, Continue, GuardLookup, Issue, ValidateStart, RevokeRead, DeleteRead,
         RegisterRead, Touch, MintRead, CertCheck, ValidateDevice, SaveLoad, SaveUpdate,
         SaveInsert, Fail, Recycle, RevokeJti, BlacklistLapse, Operator, SetStatus, vars
<1>4. ASSUME ~\E c \in Calls : DeleteRemove(c)
      PROVE  DOMAIN devices \subseteq DOMAIN devices'
  <2>1. CASE devices' = devices
    BY <2>1
  <2>2. ASSUME NEW c \in Calls, SaveUpdate(c) PROVE DOMAIN devices \subseteq DOMAIN devices'
    BY <2>2 DEF SaveUpdate
  <2>3. ASSUME NEW c \in Calls, SaveInsert(c) PROVE DOMAIN devices \subseteq DOMAIN devices'
    BY <2>3 DEF SaveInsert, Put
  <2>4. ASSUME Operator PROVE DOMAIN devices \subseteq DOMAIN devices'
    BY <2>4 DEF Operator, SetStatus
  <2> QED BY <1>4, <2>1, <2>2, <2>3, <2>4, DevicesWritten
<1> QED BY <1>0, <1>1, <1>2, <1>3, <1>4 DEF CertsOnRecord

(* The certificates of a device that is still live after a step stay on       *)
(* record: only the deletion of their device takes certificates away.         *)
LEMMA CertsKept ==
    ASSUME [Next]_vars, NEW d, NEW s \in DOMAIN certs, certs[s] = d, Live(d)'
    PROVE  s \in DOMAIN certs' /\ certs'[s] = certs[s]
<1>1. ASSUME NEW c \in Calls, DeleteRemove(c) PROVE s \in DOMAIN certs' /\ certs'[s] = certs[s]
  <2>1. certs' = Drop(certs, {t \in DOMAIN certs : certs[t] = call[c].device})
    BY <1>1 DEF DeleteRemove
  <2>2. CASE certs[s] = call[c].device
    <3>1. d \notin DOMAIN devices'
      BY <1>1, <2>2 DEF DeleteRemove, Drop
    <3> QED BY <3>1 DEF Live
  <2>3. CASE certs[s] # call[c].device
    BY <2>1, <2>3 DEF Drop
  <2> QED BY <2>2, <2>3
<1>2. ASSUME NEW c \in Calls, RegisterInsert(c) PROVE s \in DOMAIN certs' /\ certs'[s] = certs[s]
  <2>1. \/ certs' = certs
        \/ /\ call[c].serial \notin DOMAIN certs
           /\ certs' = Put(certs, call[c].serial, call[c].device)
    BY <1>2 DEF RegisterInsert
  <2> QED BY <2>1 DEF Put
<1>3. ASSUME ~\E c \in Calls : DeleteRemove(c) \/ RegisterInsert(c)
      PROVE  certs' = certs
  BY <1>3 DEF Next, Begin, Continue, GuardLookup, Issue, ValidateStart, RevokeRead, DeleteRead,
         RegisterRead, Touch, MintRead, CertCheck, ValidateDevice, SaveLoad, SaveUpdate,
         SaveInsert, Fail, Recycle, RevokeJti, BlacklistLapse, Operator, SetStatus, vars
<1> QED BY <1>1, <1>2, <1>3

LEMMA CertsStep == IInv /\ [Next]_vars => CertsOnRecord'
<1> SUFFICES ASSUME IInv, [Next]_vars PROVE CertsOnRecord'
  OBVIOUS
<1>0. TypeOK /\ TypeOK' /\ CertsOnRecord
  BY StepType DEF IInv
<1>1. \A s \in DOMAIN certs' : certs'[s] \in DOMAIN devices'
  BY ForeignKeyStep
<1>2. ASSUME NEW j \in DOMAIN tokens', tokens'[j].serial # NoSerial,
             NEW d, d = tokens'[j].device, Live(d)'
      PROVE  tokens'[j].serial \in DOMAIN certs' /\ certs'[tokens'[j].serial] = d
  <2>1. CASE j \in DOMAIN tokens
    <3>1. tokens'[j] = tokens[j] /\ d \in Devices
      BY <1>0, <1>2, <2>1, TokensKept DEF TypeOK, Claims
    <3>2. Live(d)
      BY <1>2, <3>1, LiveShrinks
    <3>3. tokens[j].serial \in DOMAIN certs /\ certs[tokens[j].serial] = d
      BY <1>0, <1>2, <2>1, <3>1, <3>2 DEF CertsOnRecord
    <3> QED BY <1>2, <3>1, <3>3, CertsKept
  <2>2. CASE j \notin DOMAIN tokens
    BY <1>2, <2>2, TokenSigned
  <2> QED BY <2>1, <2>2
<1> QED BY <1>1, <1>2 DEF CertsOnRecord, Live

LEMMA StepInv == IInv /\ [Next]_vars => IInv'
<1> SUFFICES ASSUME IInv, [Next]_vars PROVE IInv'
  OBVIOUS
<1>1. TypeOK' /\ CertsOnRecord'
  BY StepType, CertsStep DEF IInv
<1>2. \A d \in DOMAIN devices' : devices'[d].revoked <=> devices'[d].tokenVersion > 0
  BY RowsStep
<1>3. \A j \in DOMAIN tokens' : tokens'[j].tokenVersion = 0
  <2> TAKE j \in DOMAIN tokens'
  <2>1. CASE j \in DOMAIN tokens
    BY <2>1, TokensKept DEF IInv, VersionsSeparate
  <2>2. CASE j \notin DOMAIN tokens
    BY <2>2, TokenSigned
  <2> QED BY <2>1, <2>2
<1>4. \A c \in Calls : LocalsConsistent(call[c])'
  BY LocalsStep
<1> QED BY <1>1, <1>2, <1>3, <1>4 DEF IInv, VersionsSeparate

LEMMA Invariance == Spec => []IInv
BY InitInv, StepInv, PTL DEF Spec

-----------------------------------------------------------------------------

(* No token is accepted for a device that has been revoked, although the      *)
(* strategy looks at the version only and increments may be lost.             *)
THEOREM Revocation == Spec => []NoTokenOutlivesRevocation
<1>1. IInv => NoTokenOutlivesRevocation
  BY DEF IInv, VersionsSeparate, NoTokenOutlivesRevocation, Current, Live
<1> QED BY <1>1, Invariance, PTL

(* A device revoked or deleted is never live again.                           *)
THEOREM Finality == Spec => RevocationIsFinal
<1>1. IInv /\ [Next]_vars => [\A d \in Devices : ~Live(d) => ~Live(d)']_vars
  BY LiveShrinks
<1> QED BY <1>1, Invariance, PTL DEF Spec, RevocationIsFinal

(* A token that still passes has its certificate on record for its device.    *)
THEOREM Certificates == Spec => []CurrentTokenHasItsCert
<1>1. IInv => CurrentTokenHasItsCert
  BY DEF IInv, VersionsSeparate, CertsOnRecord, CurrentTokenHasItsCert, Current, Live
<1> QED BY <1>1, Invariance, PTL

(* Where a call under way can get with its next step. *)
LEMMA AfterContinue ==
    ASSUME TypeOK, NEW c \in Calls, Continue(c)
    PROVE  \/ call'[c].at \in {"mint", "certcheck"} \cup Outcomes
           \/ SaveLoad(c) /\ call'[c].at \in {"update", "insert"}
<1>0. DOMAIN call = Calls
  BY DEF TypeOK
<1>1. ASSUME NEW o \in Outcomes, Ends(c, o) PROVE call'[c].at \in Outcomes
  BY <1>0, <1>1 DEF Ends, Goto
<1>2. CASE Touch(c)
  BY <1>0, <1>2 DEF Touch, Ends, Goto, Outcomes
<1>3. CASE MintRead(c)
  BY <1>0, <1>3 DEF MintRead, Ends, Goto, Outcomes
<1>4. CASE SaveLoad(c)
  BY <1>0, <1>4 DEF SaveLoad, Ends, Goto
<1>5. CASE \/ \E j \in Tokens : CertCheck(c, j)
           \/ ValidateDevice(c)
           \/ SaveUpdate(c) \/ SaveInsert(c) \/ DeleteRemove(c) \/ RegisterInsert(c)
  <2>1. \E o \in Outcomes : Ends(c, o)
    BY <1>5 DEF CertCheck, ValidateDevice, SaveUpdate, SaveInsert, DeleteRemove,
                RegisterInsert, Outcomes
  <2> QED BY <1>1, <2>1
<1> QED BY <1>2, <1>3, <1>4, <1>5 DEF Continue

(* What a call awaits after its first step. *)
LEMMA AfterBegin ==
    ASSUME TypeOK, NEW c \in Calls, Begin(c)
    PROVE  \/ call'[c].at \in {"touch", "remove", "register"} \cup Outcomes
           \/ (\E j \in Tokens : ValidateStart(c, j)) /\ call'[c].at = "validate"
           \/ (\E d \in Devices : RevokeRead(c, d)) /\ call'[c].at = "load"
<1>0. DOMAIN call = Calls
  BY DEF TypeOK
<1>1. ASSUME NEW o \in Outcomes, Ends(c, o) PROVE call'[c].at \in Outcomes
  BY <1>0, <1>1 DEF Ends, Goto
<1>2. ASSUME NEW s \in Serials, NEW goal \in {"ping", "mint"}, GuardLookup(c, s, goal)
      PROVE  call'[c].at \in {"touch"} \cup Outcomes
  BY <1>0, <1>2 DEF GuardLookup, Ends, Goto, Outcomes
<1>3. ASSUME NEW d \in Devices, NEW j \in Tokens, Issue(c, d, j)
      PROVE  call'[c].at \in Outcomes
  BY <1>1, <1>3 DEF Issue, Outcomes
<1>4. ASSUME NEW j \in Tokens, ValidateStart(c, j)
      PROVE  call'[c].at \in {"validate"} \cup Outcomes
  BY <1>0, <1>4 DEF ValidateStart, Ends, Goto, Outcomes
<1>5. ASSUME NEW d \in Devices, RevokeRead(c, d)
      PROVE  call'[c].at \in {"load"} \cup Outcomes
  BY <1>0, <1>5 DEF RevokeRead, Ends, Goto, Outcomes
<1>6. ASSUME NEW d \in Devices, NEW u \in Users, DeleteRead(c, u, d)
      PROVE  call'[c].at \in {"remove"} \cup Outcomes
  BY <1>0, <1>6 DEF DeleteRead, Ends, Goto, Outcomes
<1>7. ASSUME NEW d \in Devices, NEW s \in Serials, RegisterRead(c, d, s)
      PROVE  call'[c].at \in {"register"} \cup Outcomes
  BY <1>0, <1>7 DEF RegisterRead, Ends, Goto, Outcomes
<1> QED BY <1>2, <1>3, <1>4, <1>5, <1>6, <1>7 DEF Begin

LEMMA BlacklistStep ==
    ASSUME TypeOK, [Next]_vars, NEW j \in Tokens, Condemned(j), ~BlacklistLapse(j)
    PROVE  Condemned(j)'
<1>0. DOMAIN call = Calls
  BY DEF TypeOK
<1>1. j \in blacklist'
  BY DEF Condemned, Next, Begin, Continue, GuardLookup, Issue, ValidateStart, RevokeRead,
         DeleteRead, RegisterRead, Touch, MintRead, CertCheck, ValidateDevice, SaveLoad,
         SaveUpdate, SaveInsert, DeleteRemove, RegisterInsert, Fail, Recycle, RevokeJti,
         BlacklistLapse, Operator, SetStatus, vars
<1>2. ASSUME NEW q \in Calls, call'[q].at = "validate" PROVE call'[q].token # j
  <2>1. CASE call'[q] = call[q]
    BY <1>2, <2>1 DEF Condemned
  <2>2. CASE \E i \in Tokens : ValidateStart(q, i)
    BY <1>0, <1>2, <2>2 DEF ValidateStart, Ends, Goto, Condemned
  <2>3. CASE ~(call'[q] = call[q] \/ \E i \in Tokens : ValidateStart(q, i))
    <3>1. ~Begin(q)
      BY <1>2, <2>3, AfterBegin DEF Outcomes
    <3>2. ~Continue(q)
      BY <1>2, AfterContinue DEF Outcomes
    <3>3. ~Fail(q) /\ ~Recycle(q)
      BY <1>0, <1>2 DEF Fail, Recycle, Ends, Goto
    <3>4. ASSUME NEW c \in Calls, c # q, Begin(c) \/ Continue(c) \/ Fail(c) \/ Recycle(c)
          PROVE  call'[q] = call[q]
      BY <1>0, <3>4 DEF Begin, GuardLookup, Issue, ValidateStart, RevokeRead, DeleteRead,
         RegisterRead, Continue, Touch, MintRead, CertCheck, ValidateDevice, SaveLoad,
         SaveUpdate, SaveInsert, DeleteRemove, RegisterInsert, Fail, Recycle, Ends, Goto
    <3> QED BY <2>3, <3>1, <3>2, <3>3, <3>4
               DEF Next, RevokeJti, BlacklistLapse, Operator, SetStatus, vars
  <2> QED BY <2>1, <2>2, <2>3
<1> QED BY <1>1, <1>2 DEF Condemned

(* Once blacklisted, and the validations past their look at Redis over, a     *)
(* token is not looked up again before its key expires.                       *)
THEOREM Blacklisting == Spec => BlacklistHolds
<1>1. TypeOK /\ [Next]_vars =>
         [\A j \in Tokens : Condemned(j) => Condemned(j)' \/ BlacklistLapse(j)]_vars
  BY BlacklistStep
<1> QED BY <1>1, TypeCorrect, PTL DEF Spec, BlacklistHolds

LEMMA SettledStep ==
    ASSUME TypeOK, [Next]_vars, NEW d \in Devices, Settled(d), ~Operator
    PROVE  Settled(d)'
<1> DEFINE Saving == {"load", "update", "insert"}
<1>0. DOMAIN call = Calls
  BY DEF TypeOK
<1>1. ASSUME d \in DOMAIN devices' PROVE devices'[d].status = "suspended"
  <2>1. CASE devices' = devices
    BY <1>1, <2>1 DEF Settled
  <2>2. ASSUME NEW c \in Calls, SaveUpdate(c) PROVE devices'[d].status = "suspended"
    <3>1. call[c].device = d => call[c].entity.status = "suspended"
      BY <2>2 DEF Settled, SaveUpdate
    <3>2. d \in DOMAIN devices /\ devices[d].status = "suspended"
      BY <1>1, <2>2 DEF SaveUpdate, Settled
    <3> QED BY <2>2, <3>1, <3>2 DEF SaveUpdate, Patched
  <2>3. ASSUME NEW c \in Calls, SaveInsert(c) PROVE devices'[d].status = "suspended"
    <3>1. call[c].device = d => call[c].entity.status = "suspended"
      BY <2>3 DEF Settled, SaveInsert
    <3>2. devices' = devices \/ devices' = Put(devices, call[c].device, call[c].entity)
      BY <2>3 DEF SaveInsert
    <3> QED BY <1>1, <3>1, <3>2 DEF Put, Settled
  <2>4. ASSUME NEW c \in Calls, DeleteRemove(c) PROVE devices'[d].status = "suspended"
    BY <1>1, <2>4 DEF DeleteRemove, Drop, Settled
  <2> QED BY <2>1, <2>2, <2>3, <2>4, DevicesWritten
<1>2. ASSUME NEW q \in Calls, call'[q].at \in Saving, call'[q].device = d
      PROVE  call'[q].entity.status = "suspended"
  <2>1. CASE call'[q] = call[q]
    BY <1>2, <2>1 DEF Settled
  <2>2. CASE \E e \in Devices : RevokeRead(q, e)
    <3>1. PICK e \in Devices : RevokeRead(q, e)
      BY <2>2
    <3>2. CASE e \in DOMAIN devices
      <4> DEFINE entity == [status |-> devices[e].status, revoked |-> TRUE,
                            tokenVersion |-> devices[e].tokenVersion + 1]
      <4>1. entity.status = devices[e].status
        OBVIOUS
      <4>2. call'[q] = [at |-> "load", device |-> e, entity |-> entity]
        BY <1>0, <3>1, <3>2 DEF RevokeRead, Goto
      <4> HIDE DEF entity
      <4>3. e = d /\ call'[q].entity = entity
        BY <1>2, <4>2
      <4> QED BY <3>2, <4>1, <4>3 DEF Settled
    <3>3. CASE e \notin DOMAIN devices
      BY <1>0, <1>2, <3>1, <3>3 DEF RevokeRead, Ends, Goto
    <3> QED BY <3>2, <3>3
  <2>3. CASE SaveLoad(q)
    <3>1. call'[q].device = call[q].device /\ call'[q].entity = call[q].entity
      BY <1>0, <2>3 DEF SaveLoad, Goto
    <3> QED BY <1>2, <2>3, <3>1 DEF SaveLoad, Settled
  <2>4. CASE ~(call'[q] = call[q] \/ SaveLoad(q) \/ \E e \in Devices : RevokeRead(q, e))
    <3>1. ~Begin(q)
      BY <1>2, <2>4, AfterBegin DEF Outcomes
    <3>2. ~Continue(q)
      BY <1>2, <2>4, AfterContinue DEF Outcomes
    <3>3. ~Fail(q) /\ ~Recycle(q)
      BY <1>0, <1>2 DEF Fail, Recycle, Ends, Goto
    <3>4. ASSUME NEW c \in Calls, c # q, Begin(c) \/ Continue(c) \/ Fail(c) \/ Recycle(c)
          PROVE  call'[q] = call[q]
      BY <1>0, <3>4 DEF Begin, GuardLookup, Issue, ValidateStart, RevokeRead, DeleteRead,
         RegisterRead, Continue, Touch, MintRead, CertCheck, ValidateDevice, SaveLoad,
         SaveUpdate, SaveInsert, DeleteRemove, RegisterInsert, Fail, Recycle, Ends, Goto
    <3> QED BY <2>4, <3>1, <3>2, <3>3, <3>4
               DEF Next, RevokeJti, BlacklistLapse, Operator, vars
  <2> QED BY <2>1, <2>2, <2>3, <2>4
<1> QED BY <1>1, <1>2 DEF Settled

(* A suspension that no revocation under way predates is ended by operators   *)
(* only.                                                                      *)
THEOREM Suspension == Spec => SuspensionSticks
<1>1. TypeOK /\ [Next]_vars => [\A d \in Devices : Settled(d) => Settled(d)' \/ Operator]_vars
  BY SettledStep
<1> QED BY <1>1, TypeCorrect, PTL DEF Spec, SuspensionSticks

-----------------------------------------------------------------------------
\* DeviceAccess implements DeviceAccessContract.

(* The tokens that pass by their version are those of live devices.           *)
LEMMA AcceptedAreLive ==
    IInv => Accepted = [j \in {i \in DOMAIN tokens : tokens[i].device \in LiveDevices} |->
                           [device |-> tokens[j].device, serial |-> tokens[j].serial]]
<1> SUFFICES ASSUME IInv
             PROVE  \A j \in DOMAIN tokens : Current(j) <=> tokens[j].device \in LiveDevices
  BY DEF Accepted
<1> TAKE j \in DOMAIN tokens
<1>1. tokens[j].device \in Devices /\ tokens[j].tokenVersion = 0
  BY DEF IInv, TypeOK, VersionsSeparate, Claims
<1>2. \A d \in DOMAIN devices : devices[d].tokenVersion = 0 <=> ~devices[d].revoked
  BY DEF IInv, TypeOK, Row, VersionsSeparate
<1> QED BY <1>1, <1>2 DEF Current, LiveDevices, Live

LEMMA AcceptedAreLiveNext ==
    IInv' => Accepted' = [j \in {i \in DOMAIN tokens' : tokens'[i].device \in LiveDevices'} |->
                             [device |-> tokens'[j].device, serial |-> tokens'[j].serial]]
<1>1. IInv' => (Accepted = [j \in {i \in DOMAIN tokens : tokens[i].device \in LiveDevices} |->
                               [device |-> tokens[j].device, serial |-> tokens[j].serial]])'
  BY AcceptedAreLive, PTL
<1> QED BY <1>1

(* When a device is live no more, its tokens and no others cease to be        *)
(* accepted.                                                                  *)
LEMMA TokensFollow ==
    ASSUME IInv, IInv', tokens' = tokens, NEW d, LiveDevices' = LiveDevices \ {d}
    PROVE  Accepted' = Contract!Drop(Accepted, {j \in DOMAIN Accepted : Accepted[j].device = d})
<1>1. /\ Accepted = [j \in {i \in DOMAIN tokens : tokens[i].device \in LiveDevices} |->
                        [device |-> tokens[j].device, serial |-> tokens[j].serial]]
      /\ Accepted' = [j \in {i \in DOMAIN tokens : tokens[i].device \in LiveDevices'} |->
                         [device |-> tokens[j].device, serial |-> tokens[j].serial]]
  BY AcceptedAreLive, AcceptedAreLiveNext
<1>2. \A j \in DOMAIN Accepted : Accepted[j].device = tokens[j].device
  BY <1>1
<1>3. DOMAIN Accepted' = DOMAIN Accepted \ {j \in DOMAIN Accepted : Accepted[j].device = d}
  BY <1>1, <1>2
<1> QED BY <1>1, <1>3 DEF Contract!Drop

(* While the same devices are live, the same tokens are accepted.             *)
LEMMA TokensStay ==
    ASSUME IInv, IInv', tokens' = tokens, LiveDevices' = LiveDevices
    PROVE  Accepted' = Accepted
BY AcceptedAreLive, AcceptedAreLiveNext

(* A step that only changes the row of d revokes d, or shows nothing.         *)
LEMMA RevokeOrStutter ==
    ASSUME IInv, IInv', UNCHANGED <<certs, tokens>>, DOMAIN devices' = DOMAIN devices,
           NEW d, LiveDevices' \in {LiveDevices, LiveDevices \ {d}}
    PROVE  Contract!Revoke(d) \/ UNCHANGED Contract!cvars
<1>1. CASE LiveDevices' = LiveDevices
  BY <1>1, TokensStay DEF Contract!cvars
<1>2. CASE d \in LiveDevices /\ LiveDevices' = LiveDevices \ {d}
  BY <1>2, TokensFollow DEF Contract!Revoke, Contract!Retire
<1> QED BY <1>1, <1>2

(* DELETE deletes a device with its certificates, or shows nothing: without a *)
(* row there are no certificates either, by the foreign key.                  *)
LEMMA DeleteOrStutter ==
    ASSUME IInv, IInv', tokens' = tokens, NEW d, devices' = Drop(devices, {d}),
           certs' = Drop(certs, {s \in DOMAIN certs : certs[s] = d})
    PROVE  Contract!Delete(d) \/ UNCHANGED Contract!cvars
<1>1. LiveDevices' = LiveDevices \ {d} /\ DOMAIN devices' = DOMAIN devices \ {d}
  BY DEF LiveDevices, Live, Drop
<1>2. CASE d \in DOMAIN devices
  BY <1>1, <1>2, TokensFollow
     DEF Contract!Delete, Contract!Retire, Contract!Drop, Drop
<1>3. CASE d \notin DOMAIN devices
  <2>1. LiveDevices' = LiveDevices /\ DOMAIN devices' = DOMAIN devices
    BY <1>1, <1>3 DEF LiveDevices, Live
  <2>2. \A s \in DOMAIN certs : certs[s] # d
    BY <1>3 DEF IInv, CertsOnRecord
  <2>3. certs' = certs
    BY <2>2 DEF Drop, IInv, TypeOK
  <2> QED BY <2>1, <2>3, TokensStay DEF Contract!cvars
<1> QED BY <1>2, <1>3

(* INSERT of a deleted device brings it back, not to life.                    *)
LEMMA ReturnLifeless ==
    ASSUME IInv, IInv', UNCHANGED <<certs, tokens>>, LiveDevices' = LiveDevices,
           NEW d, d \notin DOMAIN devices, DOMAIN devices' = DOMAIN devices \cup {d}
    PROVE  Contract!Return(d)
BY TokensStay DEF Contract!Return

(* A new certificate is recorded for the device whose row it refers to.       *)
LEMMA Recorded ==
    ASSUME devices' = devices, tokens' = tokens, NEW d, d \in DOMAIN devices,
           NEW s \in Serials, s \notin DOMAIN certs, certs' = Put(certs, s, d)
    PROVE  Contract!Record(d)
<1>1. LiveDevices' = LiveDevices /\ Accepted' = Accepted
  BY DEF LiveDevices, Live, Accepted, Current
<1>2. s \in DOMAIN certs' \cap Serials
  BY DEF Put
<1> QED BY <1>1, <1>2 DEF Contract!Record, Contract!Put, Put

(* A signed token is accepted at once, if it was signed for a device that is  *)
(* live, and was signed in vain otherwise.                                    *)
LEMMA AcceptOrSignInVain ==
    ASSUME IInv, IInv', UNCHANGED <<devices, certs>>,
           NEW j, j \notin DOMAIN tokens, NEW claims, tokens' = Put(tokens, j, claims),
           claims.serial # NoSerial =>
              claims.serial \in DOMAIN certs /\ certs[claims.serial] = claims.device
    PROVE  \/ /\ claims.serial \in DOMAIN certs \cup {NoSerial}
              /\ Contract!Accept(j, claims.device, claims.serial)
           \/ Contract!SignInVain(j)
<1>1. LiveDevices' = LiveDevices
  BY DEF LiveDevices, Live
<1>3. /\ DOMAIN tokens' = DOMAIN tokens \cup {j}
      /\ tokens'[j] = claims
      /\ \A i \in DOMAIN tokens : tokens'[i] = tokens[i]
  BY DEF Put
<1>4. /\ DOMAIN Accepted = {i \in DOMAIN tokens : tokens[i].device \in LiveDevices}
      /\ DOMAIN Accepted' = {i \in DOMAIN tokens' : tokens'[i].device \in LiveDevices}
      /\ \A i \in DOMAIN Accepted' :
            Accepted'[i] = [device |-> tokens'[i].device, serial |-> tokens'[i].serial]
      /\ \A i \in DOMAIN Accepted :
            Accepted[i] = [device |-> tokens[i].device, serial |-> tokens[i].serial]
  BY <1>1, AcceptedAreLive, AcceptedAreLiveNext
<1>5. CASE claims.device \in LiveDevices
  <2> DEFINE entry == [device |-> claims.device, serial |-> claims.serial]
  <2>1. DOMAIN Accepted' = DOMAIN Accepted \cup {j}
    BY <1>3, <1>4, <1>5
  <2>2. \A i \in DOMAIN Accepted' : Accepted'[i] = IF i = j THEN entry ELSE Accepted[i]
    BY <1>3, <1>4, <2>1
  <2> HIDE DEF entry
  <2>3. Accepted' = Contract!Put(Accepted, j, entry)
    BY <2>1, <2>2 DEF Accepted, Contract!Put
  <2> QED BY <1>1, <1>3, <1>5, <2>3 DEF Contract!Accept, entry
<1>6. CASE claims.device \notin LiveDevices
  <2>1. DOMAIN Accepted' = DOMAIN Accepted
    BY <1>3, <1>4, <1>6
  <2>2. Accepted' = Accepted
    BY <1>3, <1>4, <2>1 DEF Accepted
  <2> QED BY <1>1, <1>3, <2>2 DEF Contract!SignInVain
<1> QED BY <1>5, <1>6

(* Besides these, no step of a call is noticed.                               *)
LEMMA Unnoticed ==
    ASSUME UNCHANGED <<devices, certs, tokens>>
    PROVE  UNCHANGED Contract!cvars
BY DEF Contract!cvars, LiveDevices, Live, Accepted, Current

LEMMA ContractInit == Init => Contract!Init
<1> SUFFICES ASSUME Init PROVE Contract!Init
  OBVIOUS
<1>1. LiveDevices = Devices
  BY DEF Init, NewRow, LiveDevices, Live
<1>2. DOMAIN certs \subseteq Serials /\ certs \in [DOMAIN certs -> Devices]
  BY DEF Init
<1>3. DOMAIN devices = Devices
  BY DEF Init
<1>4. DOMAIN tokens = {} /\ Accepted = Contract!Empty
  BY DEF Init, Empty, Accepted, Contract!Empty
<1> QED BY <1>1, <1>2, <1>3, <1>4 DEF Contract!Init

LEMMA ContractStep == IInv /\ [Next]_vars => [Contract!Next]_(Contract!cvars)
<1> SUFFICES ASSUME IInv, [Next]_vars
             PROVE  Contract!Next \/ UNCHANGED Contract!cvars
  OBVIOUS
<1>0. TypeOK /\ IInv'
  BY StepInv DEF IInv
<1>1. LiveDevices' \subseteq LiveDevices
  BY LiveShrinks DEF LiveDevices
\* The steps that write one device.
<1>2. ASSUME NEW d \in Devices, UNCHANGED <<certs, tokens>>, DOMAIN devices' = DOMAIN devices,
             \A e \in DOMAIN devices \ {d} : devices'[e] = devices[e]
      PROVE  Contract!Next \/ UNCHANGED Contract!cvars
  <2>1. LiveDevices' \in {LiveDevices, LiveDevices \ {d}}
    BY <1>1, <1>2 DEF LiveDevices, Live
  <2> QED BY <1>0, <1>2, <2>1, RevokeOrStutter DEF Contract!Next
<1>3. ASSUME NEW c \in Calls, SaveUpdate(c)
      PROVE  Contract!Next \/ UNCHANGED Contract!cvars
  <2>1. call[c].device \in Devices
    BY <1>0, <1>3, Shape DEF SaveUpdate, TypeOK, Job
  <2> QED BY <1>2, <1>3, <2>1 DEF SaveUpdate
<1>4. ASSUME NEW c \in Calls, SaveInsert(c)
      PROVE  Contract!Next \/ UNCHANGED Contract!cvars
  <2> DEFINE d == call[c].device
  <2>1. d \in Devices
    BY <1>0, <1>4, Shape DEF SaveInsert, TypeOK, Job
  <2>2. CASE devices' = devices
    BY <1>4, <2>2, Unnoticed DEF SaveInsert
  <2>3. CASE d \notin DOMAIN devices /\ devices' = Put(devices, d, call[c].entity)
    <3>1. /\ DOMAIN devices' = DOMAIN devices \cup {d}
          /\ \A e \in DOMAIN devices : devices'[e] = devices[e]
      BY <2>3 DEF Put
    <3>2. LiveDevices' = LiveDevices
      BY <1>1, <3>1 DEF LiveDevices, Live
    <3>3. Contract!Return(d)
      BY <1>0, <1>4, <2>3, <3>1, <3>2, ReturnLifeless DEF SaveInsert
    <3> QED BY <2>1, <3>3 DEF Contract!Next
  <2> QED BY <1>4, <2>2, <2>3 DEF SaveInsert
<1>5. ASSUME NEW d \in Devices, NEW status \in Statuses, SetStatus(d, status)
      PROVE  Contract!Next \/ UNCHANGED Contract!cvars
  BY <1>2, <1>5 DEF SetStatus
<1>6. ASSUME NEW c \in Calls, DeleteRemove(c)
      PROVE  Contract!Next \/ UNCHANGED Contract!cvars
  <2>1. call[c].device \in Devices
    BY <1>0, <1>6, Shape DEF DeleteRemove, TypeOK, Job
  <2> QED BY <1>0, <1>6, <2>1, DeleteOrStutter DEF DeleteRemove, Contract!Next
\* The step that records a certificate.
<1>7. ASSUME NEW c \in Calls, RegisterInsert(c)
      PROVE  Contract!Next \/ UNCHANGED Contract!cvars
  <2>1. call[c].device \in Devices /\ call[c].serial \in Serials
    BY <1>0, <1>7, Shape DEF RegisterInsert, TypeOK, Job
  <2>2. CASE certs' = certs
    BY <1>7, <2>2, Unnoticed DEF RegisterInsert
  <2>3. CASE /\ call[c].device \in DOMAIN devices
             /\ call[c].serial \notin DOMAIN certs
             /\ certs' = Put(certs, call[c].serial, call[c].device)
    BY <1>7, <2>1, <2>3, Recorded DEF RegisterInsert, Contract!Next
  <2> QED BY <1>7, <2>2, <2>3 DEF RegisterInsert
\* The steps that sign a token.
<1>8. ASSUME NEW j \in Tokens, NEW claims \in Claims, j \notin DOMAIN tokens,
             tokens' = Put(tokens, j, claims), UNCHANGED <<devices, certs>>
      PROVE  Contract!Next \/ UNCHANGED Contract!cvars
  <2>1. j \in DOMAIN tokens' /\ tokens'[j] = claims
    BY <1>8 DEF Put
  <2>2. claims.serial # NoSerial =>
           claims.serial \in DOMAIN certs /\ certs[claims.serial] = claims.device
    BY <1>8, <2>1, TokenSigned
  <2>3. claims.device \in Devices
    BY DEF Claims
  <2>4. \/ /\ claims.serial \in DOMAIN certs \cup {NoSerial}
           /\ Contract!Accept(j, claims.device, claims.serial)
        \/ Contract!SignInVain(j)
    BY <1>0, <1>8, <2>2, AcceptOrSignInVain
  <2> QED BY <2>3, <2>4 DEF Contract!Next
<1>9. ASSUME NEW c \in Calls, NEW d \in Devices, NEW j \in Tokens, Issue(c, d, j)
      PROVE  Contract!Next \/ UNCHANGED Contract!cvars
  <2> DEFINE claims == [device |-> d, serial |-> NoSerial,
                        tokenVersion |-> devices[d].tokenVersion]
  <2>1. CASE tokens' = tokens
    BY <1>9, <2>1, Unnoticed DEF Issue
  <2>2. CASE Mintable(d) /\ j \notin DOMAIN tokens /\ tokens' = Put(tokens, j, claims)
    <3>1. claims \in Claims
      BY <1>0, <2>2 DEF Mintable, TypeOK, Row, Claims
    <3> QED BY <1>8, <1>9, <2>2, <3>1 DEF Issue
  <2> QED BY <1>9, <2>1, <2>2 DEF Issue
<1>10. ASSUME NEW c \in Calls, NEW j \in Tokens, CertCheck(c, j)
       PROVE  Contract!Next \/ UNCHANGED Contract!cvars
  <2> DEFINE claims == [device |-> call[c].device, tokenVersion |-> call[c].version,
                        serial |-> call[c].serial]
  <2>1. CASE tokens' = tokens
    BY <1>10, <2>1, Unnoticed DEF CertCheck
  <2>2. CASE j \notin DOMAIN tokens /\ tokens' = Put(tokens, j, claims)
    <3>1. claims \in Claims
      BY <1>0, <1>10, Shape DEF CertCheck, TypeOK, Job, Claims
    <3> QED BY <1>8, <1>10, <2>2, <3>1 DEF CertCheck
  <2> QED BY <1>10, <2>1, <2>2 DEF CertCheck
\* The others.
<1>11. CASE UNCHANGED <<devices, certs, tokens>>
  BY <1>11, Unnoticed
<1> QED
  BY <1>3, <1>4, <1>5, <1>6, <1>7, <1>9, <1>10, <1>11
     DEF Next, Begin, GuardLookup, ValidateStart, RevokeRead, DeleteRead, RegisterRead,
         Continue, Touch, MintRead, ValidateDevice, SaveLoad, Fail, Recycle, RevokeJti,
         BlacklistLapse, Operator, vars

(* DeviceAccess implements DeviceAccessContract: for any devices and any      *)
(* calls that overlap, revoking or deleting a device takes its tokens along   *)
(* in one step and for good, deleting it its certificates, too, and revoking  *)
(* it none of them (device.service.ts:108-130, device-jwt.strategy.ts:34-47). *)
THEOREM Refinement == Spec => ImplementsContract
<1> QED BY ContractInit, ContractStep, InitInv, StepInv, PTL
        DEF Spec, ImplementsContract, Contract!Spec
=============================================================================
