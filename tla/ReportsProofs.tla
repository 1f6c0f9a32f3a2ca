----------------------------- MODULE ReportsProofs -----------------------------
(***************************************************************************)
(* Theorems about Reports, for any users, devices, reports, files, calls.  *)
(***************************************************************************)
EXTENDS Reports, TLAPS

(* A call that moves on holds what that await holds.                          *)
LEMMA GotoType ==
    ASSUME TypeOK, NEW c \in Calls, NEW k \in Awaiting, Goto(c, k)
    PROVE  call' \in [Calls -> Awaiting]
BY DEF Goto, TypeOK

(* A step is about one call or about none.                                    *)
LEMMA OthersKept ==
    ASSUME TypeOK, NEW c \in Calls, NEW k, Goto(c, k)
    PROVE  /\ call'[c] = k
           /\ \A d \in Calls \ {c} : call'[d] = call[d]
BY DEF Goto, TypeOK

(* What a call under way knows, by what it awaits.                            *)
LEMMA CallType ==
    ASSUME TypeOK, NEW c \in Calls
    PROVE  /\ call[c].at = "write" => call[c].owner \in Owners /\ call[c].copy \in FileNames
           /\ call[c].at = "save" => /\ call[c].owner \in Owners
                                     /\ call[c].copy \in FileNames
                                     /\ call[c].file \in FileNames
           /\ call[c].at = "motion" => call[c].owner \in Owners /\ call[c].device \in Devices
           /\ call[c].at \in {"unlink", "delete"} => call[c].id \in Ids /\ call[c].row \in Row
           /\ call[c].at = "unlink" => call[c].row.file \in FileNames
<1>1. call[c] \in Awaiting
  BY DEF TypeOK
<1> QED BY <1>1 DEF Awaiting, Row

(* The rows inserted have the types of the columns.                           *)
LEMMA RowType ==
    /\ \A k : k.owner \in Owners /\ k.copy \in FileNames /\ k.file \in FileNames
                 => Uploaded(k) \in Row
    /\ \A k : k.owner \in Owners /\ k.device \in Devices => Moved(k) \in Row
    /\ \A r \in Row : /\ r.file \in FileNames \cup {NoFile}
                      /\ r.content \in FileNames \cup {NoFile}
                      /\ r.owner \in Owners
BY DEF Uploaded, Moved, Row

(* Files come and go, by name.                                                *)
LEMMA DiskType ==
    ASSUME TypeOK
    PROVE  /\ \A f, m \in FileNames :
                 /\ DOMAIN Put(disk, f, m) \subseteq FileNames
                 /\ Put(disk, f, m) \in [DOMAIN Put(disk, f, m) -> FileNames]
           /\ \A D : /\ DOMAIN Drop(disk, D) \subseteq FileNames
                    /\ Drop(disk, D) \in [DOMAIN Drop(disk, D) -> FileNames]
BY DEF Put, Drop, TypeOK

(* Reports come and go, by id.                                                *)
LEMMA ReportsType ==
    ASSUME TypeOK
    PROVE  /\ \A i \in Ids, r \in Row :
                 /\ DOMAIN Put(reports, i, r) \subseteq Ids
                 /\ Put(reports, i, r) \in [DOMAIN Put(reports, i, r) -> Row]
           /\ \A D : /\ DOMAIN Drop(reports, D) \subseteq Ids
                    /\ Drop(reports, D) \in [DOMAIN Drop(reports, D) -> Row]
BY DEF Put, Drop, TypeOK

-----------------------------------------------------------------------------

LEMMA InitType == Init => TypeOK
BY DEF Init, TypeOK, Empty, Awaiting

LEMMA TypeStep == TypeOK /\ [Next]_vars => TypeOK'
<1> SUFFICES ASSUME TypeOK, [Next]_vars PROVE TypeOK'
  OBVIOUS
<1>0. /\ DOMAIN reports \subseteq Ids /\ reports \in [DOMAIN reports -> Row]
      /\ DOMAIN disk \subseteq FileNames /\ disk \in [DOMAIN disk -> FileNames]
      /\ devices \subseteq Devices /\ call \in [Calls -> Awaiting]
      /\ used \subseteq FileNames \cup Ids /\ asked \in [Ids -> SUBSET Owners]
      /\ lost \subseteq FileNames
  BY DEF TypeOK
<1>1. [at |-> "free"] \in Awaiting
  BY DEF Awaiting
<1>2. CASE UNCHANGED vars
  BY <1>2 DEF TypeOK, vars
<1>3. ASSUME NEW c \in Calls, NEW u \in Owners, NEW m \in FileNames, Upload(c, u, m)
      PROVE  TypeOK'
  <2>1. [at |-> "write", owner |-> u, copy |-> m] \in Awaiting
    BY DEF Awaiting
  <2>2. call' \in [Calls -> Awaiting]
    BY <1>3, <2>1, GotoType DEF Upload
  <2>3. DOMAIN disk' \subseteq FileNames /\ disk' \in [DOMAIN disk' -> FileNames]
    BY <1>0, <1>3, DiskType DEF Upload
  <2> QED BY <1>0, <1>3, <2>2, <2>3 DEF Upload, TypeOK
<1>4. ASSUME NEW c \in Calls, NEW u \in Owners, NEW d \in Devices, Motion(c, d, u)
      PROVE  TypeOK'
  <2>1. [at |-> "motion", owner |-> u, device |-> d] \in Awaiting
    BY DEF Awaiting
  <2>2. call' \in [Calls -> Awaiting]
    BY <1>4, <2>1, GotoType DEF Motion
  <2> QED BY <1>0, <1>4, <2>2 DEF Motion, TypeOK
<1>5. ASSUME NEW c \in Calls, NEW u \in Owners, NEW i \in Ids, Remove(c, i, u)
      PROVE  TypeOK'
  <2> DEFINE k(a) == [at |-> a, id |-> i, row |-> reports[i]]
  <2>1. reports[i] \in Row
    BY <1>0, <1>5 DEF Remove, Removable
  <2>2. /\ reports[i].file \in DOMAIN disk => k("unlink") \in Awaiting
        /\ k("delete") \in Awaiting
    BY <1>0, <2>1, ReportsAssumption DEF Awaiting
  <2>3. call' \in [Calls -> Awaiting]
    BY <1>5, <2>2, GotoType DEF Remove
  <2>4. asked' \in [Ids -> SUBSET Owners]
    BY <1>0, <1>5 DEF Remove
  <2> QED BY <1>0, <1>5, <2>3, <2>4 DEF Remove, TypeOK
<1>6. ASSUME NEW c \in Calls, NEW f \in FileNames, Write(c, f) PROVE TypeOK'
  <2>1. call[c].owner \in Owners /\ call[c].copy \in FileNames
    BY <1>6, CallType DEF Write
  <2>2. [at |-> "save", owner |-> call[c].owner, copy |-> call[c].copy, file |-> f] \in Awaiting
    BY <2>1 DEF Awaiting
  <2>3. call' \in [Calls -> Awaiting]
    BY <1>6, <2>2, GotoType DEF Write
  <2>4. DOMAIN disk' \subseteq FileNames /\ disk' \in [DOMAIN disk' -> FileNames]
    BY <1>0, <1>6, <2>1, DiskType DEF Write
  <2> QED BY <1>0, <1>6, <2>3, <2>4 DEF Write, TypeOK
<1>7. ASSUME NEW c \in Calls, NEW f \in FileNames, WriteFails(c, f) PROVE TypeOK'
  <2>1. call[c].copy \in FileNames
    BY <1>7, CallType DEF WriteFails
  <2>2. call' \in [Calls -> Awaiting]
    BY <1>1, <1>7, GotoType DEF WriteFails, Ends
  <2>3. DOMAIN disk' \subseteq FileNames /\ disk' \in [DOMAIN disk' -> FileNames]
    BY <1>0, <1>7, <2>1, DiskType DEF WriteFails
  <2> QED BY <1>0, <1>7, <2>2, <2>3 DEF WriteFails, TypeOK
<1>8. ASSUME NEW c \in Calls, NEW i \in Ids, Save(c, i) PROVE TypeOK'
  <2>1. call[c].file \in FileNames /\ Uploaded(call[c]) \in Row
    BY <1>8, CallType, RowType DEF Save
  <2>2. call' \in [Calls -> Awaiting]
    BY <1>1, <1>8, GotoType DEF Save, Ends
  <2>3. DOMAIN reports' \subseteq Ids /\ reports' \in [DOMAIN reports' -> Row]
    BY <1>0, <1>8, <2>1, ReportsType DEF Save
  <2>4. used' \subseteq FileNames \cup Ids
    BY <1>0, <1>8 DEF Save
  <2> QED BY <1>0, <1>8, <2>2, <2>3, <2>4 DEF Save, TypeOK
<1>9. ASSUME NEW c \in Calls, NEW i \in Ids, SaveMotion(c, i) PROVE TypeOK'
  <2>1. Moved(call[c]) \in Row
    BY <1>9, CallType, RowType DEF SaveMotion
  <2>2. call' \in [Calls -> Awaiting]
    BY <1>1, <1>9, GotoType DEF SaveMotion, Ends
  <2>3. DOMAIN reports' \subseteq Ids /\ reports' \in [DOMAIN reports' -> Row]
    BY <1>0, <1>9, <2>1, ReportsType DEF SaveMotion
  <2>4. used' \subseteq FileNames \cup Ids
    BY <1>0, <1>9 DEF SaveMotion
  <2> QED BY <1>0, <1>9, <2>2, <2>3, <2>4 DEF SaveMotion, TypeOK
<1>10. ASSUME NEW c \in Calls, Unlink(c) PROVE TypeOK'
  <2>1. call[c].id \in Ids /\ call[c].row \in Row /\ call[c].row.file \in FileNames
    BY <1>10, CallType DEF Unlink
  <2>2. [at |-> "delete", id |-> call[c].id, row |-> call[c].row] \in Awaiting
    BY <2>1 DEF Awaiting
  <2>3. call' \in [Calls -> Awaiting]
    BY <1>10, <2>2, GotoType DEF Unlink
  <2>4. DOMAIN disk' \subseteq FileNames /\ disk' \in [DOMAIN disk' -> FileNames]
    BY <1>0, <1>10, DiskType DEF Unlink
  <2> QED BY <1>0, <1>10, <2>1, <2>3, <2>4 DEF Unlink, TypeOK
<1>11. ASSUME NEW c \in Calls, DeleteRow(c) PROVE TypeOK'
  <2>1. call' \in [Calls -> Awaiting]
    BY <1>1, <1>11, GotoType DEF DeleteRow, Ends
  <2>2. DOMAIN reports' \subseteq Ids /\ reports' \in [DOMAIN reports' -> Row]
    BY <1>0, <1>11, ReportsType DEF DeleteRow
  <2> QED BY <1>0, <1>11, <2>1, <2>2 DEF DeleteRow, TypeOK
<1>12. ASSUME NEW d \in Devices, DeleteDevice(d) PROVE TypeOK'
  <2>1. DOMAIN reports' \subseteq Ids /\ reports' \in [DOMAIN reports' -> Row]
    BY <1>0, <1>12, ReportsType DEF DeleteDevice
  <2> QED BY <1>0, <1>12, <2>1 DEF DeleteDevice, TypeOK
<1>13. ASSUME NEW c \in Calls, Fail(c) PROVE TypeOK'
  <2>1. call' \in [Calls -> Awaiting]
    BY <1>1, <1>13, GotoType DEF Fail, Ends
  <2>2. lost' \subseteq FileNames
    BY <1>0, <1>13, CallType DEF Fail
  <2> QED BY <1>0, <1>13, <2>1, <2>2 DEF Fail, TypeOK
<1> QED BY <1>2, <1>3, <1>4, <1>5, <1>6, <1>7, <1>8, <1>9, <1>10, <1>11, <1>12, <1>13
           DEF Next, Begin, Continue

LEMMA InitInv == Init => IInv
<1> SUFFICES ASSUME Init PROVE IInv
  OBVIOUS
<1>1. TypeOK
  BY InitType
<1>2. /\ DOMAIN reports = {} /\ DOMAIN disk = {}
      /\ \A c \in Calls : call[c].at = "free"
  BY DEF Init, Empty
<1> QED BY <1>1, <1>2 DEF IInv, Drawn, OneUser, Removals, FilesOfRows, NoSilentOrphans

(* What a step stores or holds it draws, or was drawn before.                 *)
LEMMA DrawnStep == IInv /\ [Next]_vars => Drawn'
<1> SUFFICES ASSUME IInv, [Next]_vars PROVE Drawn'
  OBVIOUS
<1>0. TypeOK /\ Drawn /\ OneUser /\ Removals /\ FilesOfRows /\ NoSilentOrphans
  BY DEF IInv
<1>1. CASE UNCHANGED vars
  BY <1>0, <1>1 DEF Drawn, vars
<1>2. ASSUME NEW c \in Calls, NEW u \in Owners, NEW m \in FileNames, Upload(c, u, m) PROVE Drawn'
  BY <1>0, <1>2, OthersKept DEF Upload, Drawn, Put
<1>3. ASSUME NEW c \in Calls, NEW u \in Owners, NEW d \in Devices, Motion(c, d, u) PROVE Drawn'
  BY <1>0, <1>3, OthersKept DEF Motion, Drawn
<1>4. ASSUME NEW c \in Calls, NEW u \in Owners, NEW i \in Ids, Remove(c, i, u) PROVE Drawn'
  BY <1>0, <1>4, OthersKept DEF Remove, Drawn, Removable
<1>5. ASSUME NEW c \in Calls, NEW f \in FileNames, Write(c, f) PROVE Drawn'
  BY <1>0, <1>5, OthersKept DEF Write, Drawn, Put
<1>6. ASSUME NEW c \in Calls, NEW f \in FileNames, WriteFails(c, f) PROVE Drawn'
  BY <1>0, <1>6, OthersKept DEF WriteFails, Drawn, Put, Ends
<1>7. ASSUME NEW c \in Calls, NEW i \in Ids, Save(c, i) PROVE Drawn'
  BY <1>0, <1>7, OthersKept DEF Save, Drawn, Put, Uploaded, Ends
<1>8. ASSUME NEW c \in Calls, NEW i \in Ids, SaveMotion(c, i) PROVE Drawn'
  BY <1>0, <1>8, OthersKept DEF SaveMotion, Drawn, Put, Moved, Ends
<1>9. ASSUME NEW c \in Calls, Unlink(c) PROVE Drawn'
  BY <1>0, <1>9, OthersKept DEF Unlink, Drawn, Drop
<1>10. ASSUME NEW c \in Calls, DeleteRow(c) PROVE Drawn'
  BY <1>0, <1>10, OthersKept DEF DeleteRow, Drawn, Drop, Ends
<1>11. ASSUME NEW d \in Devices, DeleteDevice(d) PROVE Drawn'
  BY <1>0, <1>11 DEF DeleteDevice, Drawn, Drop
<1>12. ASSUME NEW c \in Calls, Fail(c) PROVE Drawn'
  BY <1>0, <1>12, OthersKept DEF Fail, Drawn, Ends
<1> QED BY <1>1, <1>2, <1>3, <1>4, <1>5, <1>6, <1>7, <1>8, <1>9, <1>10, <1>11, <1>12
           DEF Next, Begin, Continue

(* A file written gets one user, since nobody else draws its name.            *)
LEMMA OneUserStep == IInv /\ [Next]_vars => OneUser'
<1> SUFFICES ASSUME IInv, [Next]_vars PROVE OneUser'
  OBVIOUS
<1>0. TypeOK /\ Drawn /\ OneUser /\ Removals /\ FilesOfRows /\ NoSilentOrphans
  BY DEF IInv
<1>1. CASE UNCHANGED vars
  BY <1>0, <1>1 DEF OneUser, vars
<1>2. ASSUME NEW c \in Calls, NEW u \in Owners, NEW m \in FileNames, Upload(c, u, m)
      PROVE  OneUser'
  BY <1>0, <1>2, OthersKept DEF Upload, OneUser, Put
<1>3. ASSUME NEW c \in Calls, NEW u \in Owners, NEW d \in Devices, Motion(c, d, u) PROVE OneUser'
  BY <1>0, <1>3, OthersKept DEF Motion, OneUser
<1>4. ASSUME NEW c \in Calls, NEW u \in Owners, NEW i \in Ids, Remove(c, i, u) PROVE OneUser'
  BY <1>0, <1>4, OthersKept DEF Remove, OneUser
<1>5. ASSUME NEW c \in Calls, NEW f \in FileNames, Write(c, f) PROVE OneUser'
  BY <1>0, <1>5, OthersKept, ReportsAssumption DEF Write, OneUser, Drawn, NewName, Put
<1>6. ASSUME NEW c \in Calls, NEW f \in FileNames, WriteFails(c, f) PROVE OneUser'
  BY <1>0, <1>6, OthersKept DEF WriteFails, OneUser, Put, Ends
<1>7. ASSUME NEW c \in Calls, NEW i \in Ids, Save(c, i) PROVE OneUser'
  BY <1>0, <1>7, OthersKept DEF Save, OneUser, Put, Uploaded, Ends
<1>8. ASSUME NEW c \in Calls, NEW i \in Ids, SaveMotion(c, i) PROVE OneUser'
  BY <1>0, <1>8, OthersKept, ReportsAssumption DEF SaveMotion, OneUser, Put, Moved, Ends, TypeOK
<1>9. ASSUME NEW c \in Calls, Unlink(c) PROVE OneUser'
  BY <1>0, <1>9, OthersKept, ReportsAssumption DEF Unlink, OneUser, Removals, Drop, TypeOK
<1>10. ASSUME NEW c \in Calls, DeleteRow(c) PROVE OneUser'
  BY <1>0, <1>10, OthersKept DEF DeleteRow, OneUser, Drop, Ends
<1>11. ASSUME NEW d \in Devices, DeleteDevice(d) PROVE OneUser'
  BY <1>0, <1>11 DEF DeleteDevice, OneUser, Drop
<1>12. ASSUME NEW c \in Calls, Fail(c) PROVE OneUser'
  BY <1>0, <1>12, OthersKept DEF Fail, OneUser, Ends
<1> QED BY <1>1, <1>2, <1>3, <1>4, <1>5, <1>6, <1>7, <1>8, <1>9, <1>10, <1>11, <1>12
           DEF Next, Begin, Continue

(* What a removal under way read of its report stays so until it is done.     *)
LEMMA RemovalsStep == IInv /\ [Next]_vars => Removals'
<1> SUFFICES ASSUME IInv, [Next]_vars PROVE Removals'
  OBVIOUS
<1>0. TypeOK /\ Drawn /\ OneUser /\ Removals /\ FilesOfRows /\ NoSilentOrphans
  BY DEF IInv
<1>1. CASE UNCHANGED vars
  BY <1>0, <1>1 DEF Removals, vars
<1>2. ASSUME NEW c \in Calls, NEW u \in Owners, NEW m \in FileNames, Upload(c, u, m)
      PROVE  Removals'
  BY <1>0, <1>2, OthersKept, ReportsAssumption DEF Upload, Removals, Drawn, NewName, Put
<1>3. ASSUME NEW c \in Calls, NEW u \in Owners, NEW d \in Devices, Motion(c, d, u) PROVE Removals'
  BY <1>0, <1>3, OthersKept DEF Motion, Removals
<1>4. ASSUME NEW c \in Calls, NEW u \in Owners, NEW i \in Ids, Remove(c, i, u) PROVE Removals'
  BY <1>0, <1>4, OthersKept DEF Remove, Removals, OneUser, Removable, TypeOK
<1>5. ASSUME NEW c \in Calls, NEW f \in FileNames, Write(c, f) PROVE Removals'
  BY <1>0, <1>5, OthersKept, ReportsAssumption DEF Write, Removals, Drawn, NewName, Put
<1>6. ASSUME NEW c \in Calls, NEW f \in FileNames, WriteFails(c, f) PROVE Removals'
  BY <1>0, <1>6, OthersKept DEF WriteFails, Removals, Put, Ends
<1>7. ASSUME NEW c \in Calls, NEW i \in Ids, Save(c, i) PROVE Removals'
  BY <1>0, <1>7, OthersKept DEF Save, Removals, Drawn, NewId, Put, Uploaded, Ends
<1>8. ASSUME NEW c \in Calls, NEW i \in Ids, SaveMotion(c, i) PROVE Removals'
  BY <1>0, <1>8, OthersKept DEF SaveMotion, Removals, Drawn, NewId, Put, Moved, Ends
<1>9. ASSUME NEW c \in Calls, Unlink(c) PROVE Removals'
  BY <1>0, <1>9, OthersKept DEF Unlink, Removals, Drop
<1>10. ASSUME NEW c \in Calls, DeleteRow(c) PROVE Removals'
  BY <1>0, <1>10, OthersKept DEF DeleteRow, Removals, Drop, Ends
<1>11. ASSUME NEW d \in Devices, DeleteDevice(d) PROVE Removals'
  BY <1>0, <1>11 DEF DeleteDevice, Removals, Drop
<1>12. ASSUME NEW c \in Calls, Fail(c) PROVE Removals'
  BY <1>0, <1>12, OthersKept DEF Fail, Removals, Ends
<1> QED BY <1>1, <1>2, <1>3, <1>4, <1>5, <1>6, <1>7, <1>8, <1>9, <1>10, <1>11, <1>12
           DEF Next, Begin, Continue

(* A row is saved with its file on disk, and unlinked for its owner only.     *)
LEMMA FilesOfRowsStep == IInv /\ [Next]_vars => FilesOfRows'
<1> SUFFICES ASSUME IInv, [Next]_vars PROVE FilesOfRows'
  OBVIOUS
<1>0. TypeOK /\ Drawn /\ OneUser /\ Removals /\ FilesOfRows /\ NoSilentOrphans
  BY DEF IInv
<1>1. CASE UNCHANGED vars
  BY <1>0, <1>1 DEF FilesOfRows, vars
<1>2. ASSUME NEW c \in Calls, NEW u \in Owners, NEW m \in FileNames, Upload(c, u, m)
      PROVE  FilesOfRows'
  BY <1>0, <1>2 DEF Upload, FilesOfRows, Put
<1>3. ASSUME NEW c \in Calls, NEW u \in Owners, NEW d \in Devices, Motion(c, d, u)
      PROVE  FilesOfRows'
  BY <1>0, <1>3 DEF Motion, FilesOfRows
<1>4. ASSUME NEW c \in Calls, NEW u \in Owners, NEW i \in Ids, Remove(c, i, u) PROVE FilesOfRows'
  BY <1>0, <1>4 DEF Remove, FilesOfRows
<1>5. ASSUME NEW c \in Calls, NEW f \in FileNames, Write(c, f) PROVE FilesOfRows'
  BY <1>0, <1>5 DEF Write, FilesOfRows, Put
<1>6. ASSUME NEW c \in Calls, NEW f \in FileNames, WriteFails(c, f) PROVE FilesOfRows'
  BY <1>0, <1>6 DEF WriteFails, FilesOfRows, Put
<1>7. ASSUME NEW c \in Calls, NEW i \in Ids, Save(c, i) PROVE FilesOfRows'
  BY <1>0, <1>7 DEF Save, FilesOfRows, OneUser, Put, Uploaded
<1>8. ASSUME NEW c \in Calls, NEW i \in Ids, SaveMotion(c, i) PROVE FilesOfRows'
  BY <1>0, <1>8 DEF SaveMotion, FilesOfRows, Put, Moved
<1>9. ASSUME NEW c \in Calls, Unlink(c) PROVE FilesOfRows'
  BY <1>0, <1>9 DEF Unlink, FilesOfRows, Removals, Drop
<1>10. ASSUME NEW c \in Calls, DeleteRow(c) PROVE FilesOfRows'
  BY <1>0, <1>10 DEF DeleteRow, FilesOfRows, Drop
<1>11. ASSUME NEW d \in Devices, DeleteDevice(d) PROVE FilesOfRows'
  BY <1>0, <1>11 DEF DeleteDevice, FilesOfRows, Drop
<1>12. ASSUME NEW c \in Calls, Fail(c) PROVE FilesOfRows'
  BY <1>0, <1>12 DEF Fail, FilesOfRows
<1> QED BY <1>1, <1>2, <1>3, <1>4, <1>5, <1>6, <1>7, <1>8, <1>9, <1>10, <1>11, <1>12
           DEF Next, Begin, Continue

(* Who lets go of a file has saved its row, unlinked it or noted its loss.    *)
LEMMA NoSilentOrphansStep == IInv /\ [Next]_vars => NoSilentOrphans'
<1> SUFFICES ASSUME IInv, [Next]_vars PROVE NoSilentOrphans'
  OBVIOUS
<1>0. TypeOK /\ Drawn /\ OneUser /\ Removals /\ FilesOfRows /\ NoSilentOrphans
  BY DEF IInv
<1>1. CASE UNCHANGED vars
  BY <1>0, <1>1 DEF NoSilentOrphans, vars
<1>2. ASSUME NEW c \in Calls, NEW u \in Owners, NEW m \in FileNames, Upload(c, u, m)
      PROVE  NoSilentOrphans'
  BY <1>0, <1>2, OthersKept DEF Upload, NoSilentOrphans, Put
<1>3. ASSUME NEW c \in Calls, NEW u \in Owners, NEW d \in Devices, Motion(c, d, u)
      PROVE  NoSilentOrphans'
  BY <1>0, <1>3, OthersKept DEF Motion, NoSilentOrphans
<1>4. ASSUME NEW c \in Calls, NEW u \in Owners, NEW i \in Ids, Remove(c, i, u)
      PROVE  NoSilentOrphans'
  BY <1>0, <1>4, OthersKept DEF Remove, NoSilentOrphans
<1>5. ASSUME NEW c \in Calls, NEW f \in FileNames, Write(c, f) PROVE NoSilentOrphans'
  BY <1>0, <1>5, OthersKept DEF Write, NoSilentOrphans, Put
<1>6. ASSUME NEW c \in Calls, NEW f \in FileNames, WriteFails(c, f) PROVE NoSilentOrphans'
  BY <1>0, <1>6, OthersKept DEF WriteFails, NoSilentOrphans, Put, Ends
<1>7. ASSUME NEW c \in Calls, NEW i \in Ids, Save(c, i) PROVE NoSilentOrphans'
  BY <1>0, <1>7, OthersKept DEF Save, NoSilentOrphans, Drawn, NewId, Put, Uploaded, Ends
<1>8. ASSUME NEW c \in Calls, NEW i \in Ids, SaveMotion(c, i) PROVE NoSilentOrphans'
  BY <1>0, <1>8, OthersKept DEF SaveMotion, NoSilentOrphans, Drawn, NewId, Put, Ends
<1>9. ASSUME NEW c \in Calls, Unlink(c) PROVE NoSilentOrphans'
  BY <1>0, <1>9, OthersKept DEF Unlink, NoSilentOrphans, Drop
<1>10. ASSUME NEW c \in Calls, DeleteRow(c) PROVE NoSilentOrphans'
  <2> SUFFICES ASSUME NEW f \in DOMAIN disk, disk[f] # f
               PROVE  \/ \E i \in DOMAIN reports' : reports'[i].file = f
                      \/ \E d \in Calls : call'[d].at = "save" /\ call'[d].file = f
                      \/ f \in lost
    BY <1>10 DEF DeleteRow, NoSilentOrphans
  <2>1. ASSUME NEW i \in DOMAIN reports, reports[i].file = f, i # call[c].id
        PROVE  i \in DOMAIN reports' /\ reports'[i].file = f
    BY <1>10, <2>1 DEF DeleteRow, Drop
  <2>2. ASSUME call[c].id \in DOMAIN reports, reports[call[c].id].file = f PROVE f \in lost
    BY <1>0, <1>10, <2>2 DEF DeleteRow, Removals
  <2>3. ASSUME NEW d \in Calls, call[d].at = "save"
        PROVE  call'[d] = call[d]
    BY <1>0, <1>10, <2>3, OthersKept DEF DeleteRow, Ends
  <2> QED BY <1>0, <2>1, <2>2, <2>3 DEF NoSilentOrphans
<1>11. ASSUME NEW d \in Devices, DeleteDevice(d) PROVE NoSilentOrphans'
  BY <1>0, <1>11, ReportsAssumption DEF DeleteDevice, NoSilentOrphans, Row, Drop, TypeOK
<1>12. ASSUME NEW c \in Calls, Fail(c) PROVE NoSilentOrphans'
  BY <1>0, <1>12, OthersKept DEF Fail, NoSilentOrphans, Ends
<1> QED BY <1>1, <1>2, <1>3, <1>4, <1>5, <1>6, <1>7, <1>8, <1>9, <1>10, <1>11, <1>12
           DEF Next, Begin, Continue
-----------------------------------------------------------------------------

(* What the contract sees of a step that leaves the table alone, and takes no *)
(* file from a report nor gives it one.                                       *)
LEMMA Unseen ==
    ASSUME reports' = reports, asked' = asked, used' \cap Ids = used \cap Ids,
           \A i \in DOMAIN reports :
               reports[i].file \in DOMAIN disk' \cup {NoFile}
                   <=> reports[i].file \in DOMAIN disk \cup {NoFile}
    PROVE  UNCHANGED Contract!vars
<1>1. Published' = Published
  BY DEF Published
<1> QED BY <1>1 DEF Contract!vars

(* What the contract sees: reports with their files.                          *)
LEMMA PublishedKeys ==
    /\ DOMAIN Published = {i \in DOMAIN reports : reports[i].file \in DOMAIN disk \cup {NoFile}}
    /\ \A i \in DOMAIN Published :
          Published[i].owner = reports[i].owner /\ Published[i].device = reports[i].device
BY DEF Published

(* A row that is inserted whole publishes the report.                         *)
LEMMA Publishes ==
    ASSUME TypeOK, NEW i \in Ids \ used, NEW r \in Row, DOMAIN reports \subseteq used,
           r.file \in DOMAIN disk \cup {NoFile},
           reports' = Put(reports, i, r), used' = used \cup {i}, disk' = disk, asked' = asked
    PROVE  Contract!Next
<1> DEFINE v == [owner |-> r.owner, device |-> r.device]
<1>1. r.owner \in Owners /\ r.device \in Devices \cup {NoDevice}
  BY DEF Row
<1>2. Published' = [j \in DOMAIN Published \cup {i} |-> IF j = i THEN v ELSE Published[j]]
  BY DEF Published, Put
<1>3. used' \cap Ids = (used \cap Ids) \cup {i}
  OBVIOUS
<1>4. Contract!Publish(i, v)
  BY <1>2, <1>3 DEF Contract!Publish
<1> QED BY <1>1, <1>4 DEF Contract!Next

(* A report that loses its file or its row, as its owner asked, is withdrawn. *)
LEMMA Withdraws ==
    ASSUME NEW i \in Ids, i \in DOMAIN Published, Published[i].owner \in asked[i],
           Published' = [j \in DOMAIN Published \ {i} |-> Published[j]],
           used' = used, asked' = asked
    PROVE  Contract!Next
<1>1. Contract!Withdraw(i)
  BY DEF Contract!Withdraw, Contract!Drops
<1> QED BY <1>1 DEF Contract!Next

LEMMA ContractInit == Init => Contract!Init
<1> SUFFICES ASSUME Init PROVE Contract!Init
  OBVIOUS
<1>1. Published = [i \in {} |-> i]
  BY DEF Init, Published, Empty
<1> QED BY <1>1 DEF Init, Contract!Init

(* Every step is one of the contract, or none.                                *)
LEMMA ContractStep == IInv /\ [Next]_vars => [Contract!Next]_(Contract!vars)
<1> SUFFICES ASSUME IInv, [Next]_vars PROVE [Contract!Next]_(Contract!vars)
  OBVIOUS
<1>0. TypeOK /\ Drawn /\ OneUser /\ Removals /\ FilesOfRows
  BY DEF IInv
<1>1. CASE UNCHANGED vars
  BY <1>1, Unseen DEF vars
<1>2. ASSUME NEW c \in Calls, NEW f \in FileNames,
             \/ \E u \in Owners : Upload(c, u, f)
             \/ Write(c, f)
             \/ WriteFails(c, f)
      PROVE  UNCHANGED Contract!vars
  <2>1. /\ f \notin used /\ f \notin Ids
        /\ reports' = reports /\ asked' = asked /\ used' = used \cup {f}
        /\ DOMAIN disk' = DOMAIN disk \cup {f}
    BY <1>2, ReportsAssumption DEF Upload, Write, WriteFails, NewName, Put
  <2>2. \A i \in DOMAIN reports : reports[i].file # f
    BY <1>0, <2>1, ReportsAssumption DEF Drawn
  <2> QED BY <2>1, <2>2, Unseen
<1>3. ASSUME NEW c \in Calls, Fail(c) \/ \E u \in Owners, d \in Devices : Motion(c, d, u)
      PROVE  UNCHANGED Contract!vars
  BY <1>3, Unseen DEF Fail, Motion
<1>4. ASSUME NEW c \in Calls, NEW i \in Ids, Save(c, i) \/ SaveMotion(c, i)
      PROVE  [Contract!Next]_(Contract!vars)
  <2>1. CASE UNCHANGED <<reports, used>>
    BY <1>4, <2>1, Unseen DEF Save, SaveMotion
  <2>2. CASE Save(c, i) /\ reports' = Put(reports, i, Uploaded(call[c])) /\ used' = used \cup {i}
    <3>1. Uploaded(call[c]) \in Row /\ Uploaded(call[c]).file \in DOMAIN disk
      BY <1>0, <2>2, CallType, RowType DEF Save, OneUser, Uploaded
    <3>2. disk' = disk /\ asked' = asked /\ i \notin used
      BY <2>2 DEF Save, NewId
    <3> QED BY <1>0, <2>2, <3>1, <3>2, Publishes DEF Drawn
  <2>3. CASE /\ SaveMotion(c, i)
             /\ reports' = Put(reports, i, Moved(call[c])) /\ used' = used \cup {i}
    <3>1. Moved(call[c]) \in Row /\ Moved(call[c]).file = NoFile
      BY <1>0, <2>3, CallType, RowType DEF SaveMotion, Moved
    <3>2. disk' = disk /\ asked' = asked /\ i \notin used
      BY <2>3 DEF SaveMotion, NewId
    <3> QED BY <1>0, <2>3, <3>1, <3>2, Publishes DEF Drawn
  <2> QED BY <1>4, <2>1, <2>2, <2>3 DEF Save, SaveMotion
<1>5. ASSUME NEW c \in Calls, NEW u \in Owners, NEW i \in Ids, Remove(c, i, u)
      PROVE  [Contract!Next]_(Contract!vars)
  <2>1. /\ i \in DOMAIN reports /\ reports[i].owner = u
        /\ asked' = [asked EXCEPT ![i] = @ \cup {u}]
        /\ UNCHANGED <<reports, disk, used>>
    BY <1>5 DEF Remove, Removable
  <2>2. CASE i \in DOMAIN Published
    <3>1. Published[i].owner = u /\ Published' = Published
      BY <2>1, <2>2, PublishedKeys DEF Published
    <3>2. Contract!Ask(i)
      BY <2>1, <2>2, <3>1 DEF Contract!Ask
    <3> QED BY <3>2 DEF Contract!Next
  <2>3. CASE i \notin DOMAIN Published
    <3>1. u \in asked[i]
      BY <1>0, <2>1, <2>3, PublishedKeys DEF FilesOfRows
    <3>2. asked' = asked
      BY <1>0, <2>1, <3>1 DEF TypeOK
    <3> QED BY <2>1, <3>2, Unseen
  <2> QED BY <2>2, <2>3
<1>6. ASSUME NEW c \in Calls, Unlink(c) PROVE [Contract!Next]_(Contract!vars)
  <2> DEFINE i == call[c].id
  <2>1. CASE disk' = disk
    BY <1>6, <2>1, Unseen DEF Unlink
  <2>2. CASE disk' # disk
    <3>1. /\ disk' = Drop(disk, {call[c].row.file})
          /\ UNCHANGED <<reports, used, asked>>
      BY <1>6, <2>2 DEF Unlink
    <3>2. /\ i \in Ids /\ call[c].row.file # NoFile
          /\ call[c].row.owner \in asked[i]
          /\ i \in DOMAIN reports => reports[i] = call[c].row
          /\ \A j \in DOMAIN reports : reports[j].file = call[c].row.file => j = i
      BY <1>0, <1>6, CallType, ReportsAssumption DEF Unlink, Removals
    <3>3. CASE i \in DOMAIN Published
      <4>1. Published[i].owner \in asked[i]
        BY <3>2, <3>3, PublishedKeys
      <4>2. i \in DOMAIN reports /\ DOMAIN disk' = DOMAIN disk \ {call[c].row.file}
        BY <3>1, <3>3, PublishedKeys DEF Drop
      <4>3. \A j \in DOMAIN reports :
               reports[j].file \in DOMAIN disk' \cup {NoFile}
                   <=> reports[j].file \in DOMAIN disk \cup {NoFile} /\ j # i
        BY <3>1, <3>2, <3>3, <4>2
      <4>4. Published' = [j \in DOMAIN Published \ {i} |-> Published[j]]
        BY <3>1, <4>3 DEF Published
      <4> QED BY <3>1, <3>2, <3>3, <4>1, <4>4, Withdraws
    <3>4. CASE i \notin DOMAIN Published
      BY <3>1, <3>2, <3>4, PublishedKeys, Unseen DEF Drop
    <3> QED BY <3>3, <3>4
  <2> QED BY <2>1, <2>2
<1>7. ASSUME NEW c \in Calls, DeleteRow(c) PROVE [Contract!Next]_(Contract!vars)
  <2> DEFINE i == call[c].id
  <2>1. /\ reports' = Drop(reports, {i}) /\ UNCHANGED <<disk, used, asked>>
        /\ i \in Ids /\ call[c].row.owner \in asked[i]
        /\ i \in DOMAIN reports => reports[i] = call[c].row
    BY <1>0, <1>7, CallType DEF DeleteRow, Removals
  <2>2. Published' = [j \in DOMAIN Published \ {i} |-> Published[j]]
    BY <2>1 DEF Published, Drop
  <2>3. CASE i \in DOMAIN Published
    <3>1. Published[i].owner \in asked[i]
      BY <2>1, <2>3, PublishedKeys
    <3> QED BY <2>1, <2>2, <2>3, <3>1, Withdraws
  <2>4. CASE i \notin DOMAIN Published
    <3>1. Published' = Published
      BY <2>2, <2>4 DEF Published
    <3> QED BY <2>1, <3>1 DEF Contract!vars
  <2> QED BY <2>3, <2>4
<1>8. ASSUME NEW d \in Devices, DeleteDevice(d) PROVE [Contract!Next]_(Contract!vars)
  <2>1. Published' = [j \in DOMAIN Published \ {i \in DOMAIN Published : Published[i].device = d}
                         |-> Published[j]]
    BY <1>8 DEF DeleteDevice, Published, Drop
  <2>2. Contract!Cascade(d)
    BY <1>8, <2>1 DEF DeleteDevice, Contract!Cascade, Contract!Drops
  <2> QED BY <2>2 DEF Contract!Next
<1> QED BY <1>1, <1>2, <1>3, <1>4, <1>5, <1>6, <1>7, <1>8 DEF Next, Begin, Continue

-----------------------------------------------------------------------------

(* All of it together is inductive.                                           *)
LEMMA Inductive == Spec => []IInv
<1>1. Init => IInv
  BY InitInv
<1>2. IInv /\ [Next]_vars => IInv'
  <2> SUFFICES ASSUME IInv, [Next]_vars PROVE IInv'
    OBVIOUS
  <2>1. TypeOK
    BY DEF IInv
  <2>2. TypeOK' /\ Drawn' /\ OneUser'
    BY <2>1, TypeStep, DrawnStep, OneUserStep
  <2>3. Removals' /\ FilesOfRows' /\ NoSilentOrphans'
    BY RemovalsStep, FilesOfRowsStep, NoSilentOrphansStep
  <2> QED BY <2>2, <2>3 DEF IInv
<1> QED BY <1>1, <1>2, PTL DEF Spec

(* The stores, the calls and the histories have their types.                  *)
THEOREM TypeCorrect == Spec => []TypeOK
<1>1. IInv => TypeOK
  BY DEF IInv
<1> QED BY <1>1, Inductive, PTL

(* A report has its file until its owner asked for its removal.               *)
THEOREM Files == Spec => []FilesOfRows
<1>1. IInv => FilesOfRows
  BY DEF IInv
<1> QED BY <1>1, Inductive, PTL

(* A file that the service wrote belongs to a report, or a statement failed.  *)
THEOREM Orphans == Spec => []NoSilentOrphans
<1>1. IInv => NoSilentOrphans
  BY DEF IInv
<1> QED BY <1>1, Inductive, PTL

(* The endpoints implement their contract, step by step.                      *)
THEOREM Refinement == Spec => ImplementsContract
<1> QED BY ContractInit, ContractStep, Inductive, PTL DEF Spec, ImplementsContract, Contract!Spec
=============================================================================
