-------------------------------- MODULE Reports --------------------------------
(***************************************************************************)
(* ReportsController and ReportsService (src/reports): uploads, motion     *)
(* reports and removals over two stores that no transaction joins, the     *)
(* table reports and the upload directory.                                 *)
(*                                                                         *)
(* An action is one await that reads or writes a store, with the           *)
(* synchronous code up to the next one.  The awaits in between without an  *)
(* effect (readFile, sharp) only add places to fail at, which Fail covers. *)
(* createMotionReport is modelled as the service offers it: its only route *)
(* (reports.controller.ts:53-73) compares the owner with req.user.sub,     *)
(* which JwtStrategy does not set, and so never calls it.                  *)
(***************************************************************************)
EXTENDS FiniteSets, Tables

CONSTANTS
    Owners,            \* ids of users
    Devices,           \* ids of devices
    FileNames,         \* file names, each made of the time and a random part
    Ids,               \* uuids of reports
    Calls,             \* slots for the calls in progress
    NoFile, NoDevice   \* null in the columns url and deviceId

ASSUME ReportsAssumption ==
    /\ NoFile \notin FileNames
    /\ FileNames \cap Ids = {}
    /\ NoDevice \notin Devices

VARIABLES
    reports,           \* table reports: id -> row
    disk,              \* the upload directory: name -> content
    devices,           \* the ids in table devices
    call,              \* per slot: what a call awaits, with its locals
    used,              \* history: the names and uuids drawn so far
    asked,             \* history: the users whose removal of a report began
    lost               \* history: files of a failed upload or of a failed unlink

vars == <<reports, disk, devices, call, used, asked, lost>>

-----------------------------------------------------------------------------

\* A row; a content is named after the copy of it that multer wrote.
Row == [owner : Owners, file : FileNames, content : FileNames, device : {NoDevice}] \cup
       [owner : Owners, file : {NoFile}, content : {NoFile}, device : Devices]

Awaiting ==
    [at : {"free"}] \cup
    [at : {"write"}, owner : Owners, copy : FileNames] \cup                   \* upload,
    [at : {"save"}, owner : Owners, copy : FileNames, file : FileNames] \cup  \* upload
    [at : {"motion"}, owner : Owners, device : Devices] \cup                  \* motion report
    [at : {"unlink"}, id : Ids, row : {r \in Row : r.file # NoFile}] \cup      \* removal,
    [at : {"delete"}, id : Ids, row : Row]                                    \* removal

TypeOK ==
    /\ DOMAIN reports \subseteq Ids /\ reports \in [DOMAIN reports -> Row]
    /\ DOMAIN disk \subseteq FileNames /\ disk \in [DOMAIN disk -> FileNames]
    /\ devices \subseteq Devices
    /\ call \in [Calls -> Awaiting]
    /\ used \subseteq FileNames \cup Ids
    /\ asked \in [Ids -> SUBSET Owners]
    /\ lost \subseteq FileNames

Init ==
    /\ reports = Empty
    /\ disk = Empty
    /\ devices = Devices
    /\ call = [c \in Calls |-> [at |-> "free"]]
    /\ used = {}
    /\ asked = [i \in Ids |-> {}]
    /\ lost = {}

Goto(c, k) == call' = [call EXCEPT ![c] = k]
Ends(c) == Goto(c, [at |-> "free"])

-----------------------------------------------------------------------------

\* Mutant of NewName: made from the original name, without time and random part.
NameAgain(f) == f \in FileNames

\* makeFilename, and multer's filename: never drawn twice.
NewName(f) == f \notin used

\* PrimaryGeneratedColumn('uuid').
NewId(i) == i \notin used

\* POST /report: the guard has let the user in and multer has stored the file.
\* A file that is refused or too large leaves nothing behind.
Upload(c, u, m) ==
    /\ call[c].at = "free"
    /\ NewName(m)
    /\ disk' = Put(disk, m, m)
    /\ used' = used \cup {m}
    /\ Goto(c, [at |-> "write", owner |-> u, copy |-> m])
    /\ UNCHANGED <<reports, devices, asked, lost>>

\* The controller has read it back, the service writes it under a name of its own.
Write(c, f) ==
    /\ call[c].at = "write"
    /\ NewName(f)
    /\ disk' = Put(disk, f, call[c].copy)
    /\ used' = used \cup {f}
    /\ Goto(c, [at |-> "save", owner |-> call[c].owner, copy |-> call[c].copy, file |-> f])
    /\ UNCHANGED <<reports, devices, asked, lost>>

\* writeFile fails and leaves a part of the file.
WriteFails(c, f) ==
    /\ call[c].at = "write"
    /\ NewName(f)
    /\ disk' = Put(disk, f, call[c].copy)
    /\ used' = used \cup {f}
    /\ lost' = lost \cup {f}
    /\ Ends(c)
    /\ UNCHANGED <<reports, devices, asked>>

\* The row of an upload.
Uploaded(k) == [owner |-> k.owner, file |-> k.file, content |-> k.copy, device |-> NoDevice]

\* Mutant of Moved: the device is left out, as in uploads.
MovedSomewhere(k) ==
    [owner |-> k.owner, file |-> NoFile, content |-> NoFile, device |-> NoDevice]

\* The row of a motion report.
Moved(k) == [owner |-> k.owner, file |-> NoFile, content |-> NoFile, device |-> k.device]

\* The thumbnail is made and the row inserted, without a deviceId: on a table
\* synchronized from the entity, where the column is NOT NULL, Fail comes instead.
Save(c, i) ==
    /\ call[c].at = "save"
    /\ NewId(i)
    /\ reports' = Put(reports, i, Uploaded(call[c]))
    /\ used' = used \cup {i}
    /\ Ends(c)
    /\ UNCHANGED <<disk, devices, asked, lost>>

\* createMotionReport: UPDATE of the device, of no row if it is gone ...
Motion(c, d, u) ==
    /\ call[c].at = "free"
    /\ Goto(c, [at |-> "motion", owner |-> u, device |-> d])
    /\ UNCHANGED <<reports, disk, devices, used, asked, lost>>

\* ... and INSERT, with the foreign key.
SaveMotion(c, i) ==
    /\ call[c].at = "motion"
    /\ NewId(i)
    /\ IF call[c].device \in devices
         THEN reports' = Put(reports, i, Moved(call[c])) /\ used' = used \cup {i}
         ELSE UNCHANGED <<reports, used>>
    /\ Ends(c)
    /\ UNCHANGED <<disk, devices, asked, lost>>

\* Mutant of Removable: no look at the owner.
RemovableByAnyone(i, u) == i \in DOMAIN reports

\* findOne finds the report, and the requester is its owner.  Both are known:
\* the guard has let a user in, and every row has an owner.
Removable(i, u) == i \in DOMAIN reports /\ reports[i].owner = u

\* Mutant of Remove: the file is taken for gone.
RemoveRowOnly(c, i, u) ==
    /\ call[c].at = "free"
    /\ Removable(i, u)
    /\ asked' = [asked EXCEPT ![i] = @ \cup {u}]
    /\ Goto(c, [at |-> "delete", id |-> i, row |-> reports[i]])
    /\ UNCHANGED <<reports, disk, devices, used, lost>>

\* DELETE /report/:id: the file goes first, if it is there; of a motion report
\* there is no url to take its name from, and the exception is caught ...
Remove(c, i, u) ==
    /\ call[c].at = "free"
    /\ Removable(i, u)
    /\ asked' = [asked EXCEPT ![i] = @ \cup {u}]
    /\ Goto(c, [at |-> IF reports[i].file \in DOMAIN disk THEN "unlink" ELSE "delete",
                id |-> i, row |-> reports[i]])
    /\ UNCHANGED <<reports, disk, devices, used, lost>>

\* ... unlink, which may fail, if only since another removal was faster ...
Unlink(c) ==
    /\ call[c].at = "unlink"
    /\ \/ disk' = Drop(disk, {call[c].row.file}) /\ UNCHANGED lost
       \/ lost' = lost \cup {call[c].row.file} /\ UNCHANGED disk
    /\ Goto(c, [at |-> "delete", id |-> call[c].id, row |-> call[c].row])
    /\ UNCHANGED <<reports, devices, used, asked>>

\* ... and DELETE of the row, if it is still there.
DeleteRow(c) ==
    /\ call[c].at = "delete"
    /\ reports' = Drop(reports, {call[c].id})
    /\ Ends(c)
    /\ UNCHANGED <<disk, devices, used, asked, lost>>

\* DELETE of a device cascades to its reports (report.entity.ts:39).
DeleteDevice(d) ==
    /\ d \in devices
    /\ devices' = devices \ {d}
    /\ reports' = Drop(reports, {i \in DOMAIN reports : reports[i].device = d})
    /\ UNCHANGED <<disk, call, used, asked, lost>>

\* An await rejects or the process dies under the call; nothing is cleaned up.
Fail(c) ==
    /\ call[c].at # "free"
    /\ lost' = IF call[c].at = "save" THEN lost \cup {call[c].file} ELSE lost
    /\ Ends(c)
    /\ UNCHANGED <<reports, disk, devices, used, asked>>

Begin(c) ==
    \/ \E u \in Owners, m \in FileNames : Upload(c, u, m)
    \/ \E u \in Owners, d \in Devices : Motion(c, d, u)
    \/ \E u \in Owners, i \in Ids : Remove(c, i, u)

Continue(c) ==
    \/ \E f \in FileNames : Write(c, f) \/ WriteFails(c, f)
    \/ \E i \in Ids : Save(c, i) \/ SaveMotion(c, i)
    \/ Unlink(c)
    \/ DeleteRow(c)

Next ==
    \/ \E c \in Calls : Begin(c) \/ Continue(c) \/ Fail(c)
    \/ \E d \in Devices : DeleteDevice(d)

Spec == Init /\ [][Next]_vars

-----------------------------------------------------------------------------

(* The file of a report is on disk unless its owner has had its removal       *)
(* begun, whatever fails or overlaps: the file is written before the row      *)
(* (reports.service.ts:59-80), names are not drawn twice, and nobody else's   *)
(* removal gets to it (107-110).                                              *)
FilesOfRows ==
    \A i \in DOMAIN reports :
        \/ reports[i].file \in DOMAIN disk \cup {NoFile}
        \/ reports[i].owner \in asked[i]

(* A file that the service wrote belongs to a report or to an upload under    *)
(* way, unless a statement about it failed: removals that overlap, of which   *)
(* one sees neither file nor row, leave none behind (112-123).                *)
NoSilentOrphans ==
    \A f \in DOMAIN disk : disk[f] # f =>
        \/ \E i \in DOMAIN reports : reports[i].file = f
        \/ \E c \in Calls : call[c].at = "save" /\ call[c].file = f
        \/ f \in lost

\* The inductive invariant behind these: what is stored or held was drawn;
\* a file has one user; a removal under way was asked for by the owner, and
\* has dealt with the file when it comes to the row.
Drawn ==
    /\ DOMAIN disk \subseteq used /\ DOMAIN reports \subseteq used
    /\ \A i \in DOMAIN reports : reports[i].file \in used \cup {NoFile}
    /\ \A c \in Calls :
          /\ call[c].at = "save" => call[c].file \in used /\ call[c].copy \in used
          /\ call[c].at = "write" => call[c].copy \in used
          /\ call[c].at \in {"unlink", "delete"} =>
                call[c].id \in used /\ call[c].row.file \in used \cup {NoFile}

OneUser ==
    /\ \A i, j \in DOMAIN reports :
          reports[i].file = reports[j].file /\ reports[i].file # NoFile => i = j
    /\ \A c \in Calls : call[c].at = "save" =>
          /\ call[c].file \in DOMAIN disk
          /\ \A i \in DOMAIN reports : reports[i].file # call[c].file
          /\ \A d \in Calls \ {c} : call[d].at = "save" => call[d].file # call[c].file

Removals ==
    \A c \in Calls : call[c].at \in {"unlink", "delete"} =>
        /\ call[c].row.owner \in asked[call[c].id]
        /\ call[c].id \in DOMAIN reports => reports[call[c].id] = call[c].row
        /\ call[c].row.file # NoFile =>
              /\ \A i \in DOMAIN reports : reports[i].file = call[c].row.file => i = call[c].id
              /\ \A d \in Calls : call[d].at = "save" => call[d].file # call[c].row.file
        /\ call[c].at = "delete" => call[c].row.file \notin DOMAIN disk \ lost

IInv == TypeOK /\ Drawn /\ OneUser /\ Removals /\ FilesOfRows /\ NoSilentOrphans

(* The endpoints implement ReportsContract: a report is published with its    *)
(* row, and withdrawn with its file, or with its row if there is no file or   *)
(* unlinking it failed.                                                       *)
Published ==
    [i \in {j \in DOMAIN reports : reports[j].file \in DOMAIN disk \cup {NoFile}} |->
        [owner |-> reports[i].owner, device |-> reports[i].device]]

Contract == INSTANCE ReportsContract WITH published <- Published, known <- used \cap Ids

ImplementsContract == Contract!Spec
=============================================================================
