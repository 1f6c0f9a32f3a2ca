---------------------------- MODULE DeviceAccess ----------------------------
(***************************************************************************)
(* A device's access once it is enrolled: DeviceService over the tables    *)
(* devices and device_certs (src/device/device.service.ts), DeviceCertGuard*)
(* (mTLS), DeviceAuthService (minting RS256 tokens) and DeviceJwtStrategy  *)
(* (accepting them).                                                       *)
(*                                                                         *)
(* The module is about these services, called concurrently; which route    *)
(* calls which of them is not its subject.  As in Enrollment an action is  *)
(* one awaited statement with the synchronous code that follows it.        *)
(* Repository.save is TypeORM's: it loads the row again, and then writes   *)
(* the columns in which the entity in memory differs from it, or inserts   *)
(* the entity when there is no row.                                        *)
(***************************************************************************)
EXTENDS Integers, FiniteSets, Tables

CONSTANTS
    Devices,      \* the devices an operator has put into `devices`
    Users,        \* the callers of DeviceService.delete
    Owner,        \* devices.ownerId, which the code never changes
    Serials,      \* certificate serials
    NoSerial,     \* a token minted without a certificate has no certSerial
    Tokens,       \* the jtis uuidv4() may return
    Calls,        \* slots for the calls in progress
    MaxVersion    \* bound: revokeDevice is not called on a higher tokenVersion

ASSUME OwnerAssumption == Owner \in [Devices -> Users]
ASSUME NoSerialAssumption == NoSerial \notin Serials
ASSUME MaxVersionAssumption == MaxVersion \in Nat

VARIABLES
    devices,      \* table devices: id -> row
    certs,        \* table device_certs: serial -> device id (cascading FK)
    tokens,       \* the device tokens signed so far: jti -> claims
    blacklist,    \* Redis: the jtis with a key jti:blacklist:<jti>
    call          \* per slot: what the call awaits next, with its locals

vars == <<devices, certs, tokens, blacklist, call>>

-----------------------------------------------------------------------------

Statuses == {"active", "suspended"}
Columns  == {"status", "revoked", "tokenVersion"}
Row      == [status : Statuses, revoked : BOOLEAN, tokenVersion : Nat]
Claims   == [device : Devices, tokenVersion : Nat, serial : Serials \cup {NoSerial}]

\* How a call ends: with a result or with an HTTP status.
Outcomes == {"pong", "token", "accepted", "done", "null", "401", "403", "404", "500"}

Ended == [at : {"free"} \cup Outcomes]

\* What a call awaits, with the locals it needs from there on.
Waiting ==
    \* DeviceCertGuard, then generateDeviceTokenFromMtls when the goal is to mint
    [at : {"touch"}, device : Devices, serial : Serials, goal : {"ping", "mint"}] \cup
    [at : {"mint"}, device : Devices, serial : Serials] \cup
    [at : {"certcheck"}, device : Devices, serial : Serials, version : Nat] \cup
    \* DeviceJwtStrategy.validate
    [at : {"validate"}, token : Tokens] \cup
    \* revokeDevice, inside Repository.save
    [at : {"load", "insert"}, device : Devices, entity : Row] \cup
    [at : {"update"}, device : Devices, entity : Row, columns : SUBSET Columns] \cup
    \* delete, registerCert
    [at : {"remove"}, device : Devices] \cup
    [at : {"register"}, device : Devices, serial : Serials]

TypeOK ==
    /\ DOMAIN devices \subseteq Devices
    /\ devices \in [DOMAIN devices -> Row]
    /\ DOMAIN certs \subseteq Serials
    /\ certs \in [DOMAIN certs -> Devices]
    /\ DOMAIN tokens \subseteq Tokens
    /\ tokens \in [DOMAIN tokens -> Claims]
    /\ blacklist \subseteq Tokens
    /\ call \in [Calls -> Waiting \cup Ended]

\* A row as it is inserted: revoked and tokenVersion have their column defaults.
NewRow(status) == [status |-> status, revoked |-> FALSE, tokenVersion |-> 0]

\* The rows are an operator's: createDevice sets neither status nor
\* hashedSecret, which the table requires.  Some certificates may be registered.
Init ==
    /\ \E status \in [Devices -> Statuses] : devices = [d \in Devices |-> NewRow(status[d])]
    /\ \E S \in SUBSET Serials : certs \in [S -> Devices]
    /\ tokens = Empty
    /\ blacklist = {}
    /\ call = [c \in Calls |-> [at |-> "free"]]

-----------------------------------------------------------------------------

\* Call c goes on to wait for the statement (or with the outcome) k.
Goto(c, k) == call' = [call EXCEPT ![c] = k]

Ends(c, outcome) == Goto(c, [at |-> outcome])

\* Bound: a mint begins only while there is a jti left for it; uuidv4() never
\* runs out of them.
Minting == {c \in Calls : \/ call[c].at \in {"mint", "certcheck"}
                          \/ call[c].at = "touch" /\ call[c].goal = "mint"}
JtiLeft == Cardinality(Minting) + Cardinality(DOMAIN tokens) < Cardinality(Tokens)

\* DeviceCertGuard: findByCertSerial with the device.  The guard looks at the
\* status, not at revoked.  A client without a certificate is refused before
\* the first await and changes nothing.
GuardLookup(c, s, goal) ==
    /\ call[c].at = "free"
    /\ goal = "mint" => JtiLeft
    /\ \/ s \notin DOMAIN certs /\ Ends(c, "401")
       \/ /\ s \in DOMAIN certs
          /\ devices[certs[s]].status # "active"
          /\ Ends(c, "403")
       \/ /\ s \in DOMAIN certs
          /\ devices[certs[s]].status = "active"
          /\ Goto(c, [at |-> "touch", device |-> certs[s], serial |-> s, goal |-> goal])
    /\ UNCHANGED <<devices, certs, tokens, blacklist>>

\* Mutant of Touch: it saves the entity the guard has read, active then.
TouchSavesEntity(c) ==
    /\ call[c].at = "touch"
    /\ devices' = [d \in DOMAIN devices |->
                      IF d = call[c].device THEN [devices[d] EXCEPT !.status = "active"]
                                            ELSE devices[d]]
    /\ Ends(c, "pong")
    /\ UNCHANGED <<certs, tokens, blacklist>>

\* touchDevice updates updatedAt, which nothing here depends on; then the
\* handler runs: ping answers at once, token goes on to mint.
Touch(c) ==
    /\ call[c].at = "touch"
    /\ IF call[c].goal = "ping"
       THEN Ends(c, "pong")
       ELSE Goto(c, [at |-> "mint", device |-> call[c].device, serial |-> call[c].serial])
    /\ UNCHANGED <<devices, certs, tokens, blacklist>>

\* Both ways to mint refuse a device that is gone or revoked.
Mintable(d) == d \in DOMAIN devices /\ ~devices[d].revoked

\* generateDeviceTokenFromMtls: findOne keeps the entity, of which only the
\* version is used later.
MintRead(c) ==
    /\ call[c].at = "mint"
    /\ \/ ~Mintable(call[c].device) /\ Ends(c, "401")
       \/ /\ Mintable(call[c].device)
          /\ Goto(c, [at |-> "certcheck", device |-> call[c].device, serial |-> call[c].serial,
                      version |-> devices[call[c].device].tokenVersion])
    /\ UNCHANGED <<devices, certs, tokens, blacklist>>

\* isCertRegisteredForDevice, then the token is signed with the version read
\* before, under a fresh jti.
CertCheck(c, j) ==
    /\ call[c].at = "certcheck"
    /\ LET s == call[c].serial
           registered == s \in DOMAIN certs /\ certs[s] = call[c].device
       IN
       \/ ~registered /\ Ends(c, "401") /\ UNCHANGED tokens
       \/ /\ registered
          /\ j \notin DOMAIN tokens
          /\ tokens' = Put(tokens, j, [device |-> call[c].device,
                                       tokenVersion |-> call[c].version, serial |-> s])
          /\ Ends(c, "token")
    /\ UNCHANGED <<devices, certs, blacklist>>

\* generateDeviceToken: no DeviceService has a verifySecret, so a presented
\* secret is not looked at, and the token is signed right after findOne.
Issue(c, d, j) ==
    /\ call[c].at = "free"
    /\ JtiLeft
    /\ \/ ~Mintable(d) /\ Ends(c, "401") /\ UNCHANGED tokens
       \/ /\ Mintable(d)
          /\ j \notin DOMAIN tokens
          /\ tokens' = Put(tokens, j, [device |-> d, serial |-> NoSerial,
                                       tokenVersion |-> devices[d].tokenVersion])
          /\ Ends(c, "token")
    /\ UNCHANGED <<devices, certs, blacklist>>

\* Mutant of ValidateStart: Redis is not asked.
ValidateUnasked(c, j) ==
    /\ call[c].at = "free"
    /\ j \in DOMAIN tokens
    /\ Goto(c, [at |-> "validate", token |-> j])
    /\ UNCHANGED <<devices, certs, tokens, blacklist>>

\* DeviceJwtStrategy.validate of a token whose signature and expiry passport
\* has checked: the blacklist in Redis ...
ValidateStart(c, j) ==
    /\ call[c].at = "free"
    /\ j \in DOMAIN tokens
    /\ \/ j \in blacklist /\ Ends(c, "401")
       \/ j \notin blacklist /\ Goto(c, [at |-> "validate", token |-> j])
    /\ UNCHANGED <<devices, certs, tokens, blacklist>>

\* The strategy compares versions and does not look at revoked or at status.
Current(j) ==
    /\ tokens[j].device \in DOMAIN devices
    /\ devices[tokens[j].device].tokenVersion = tokens[j].tokenVersion

\* ... then the row.
ValidateDevice(c) ==
    /\ call[c].at = "validate"
    /\ Ends(c, IF Current(call[c].token) THEN "accepted" ELSE "401")
    /\ UNCHANGED <<devices, certs, tokens, blacklist>>

\* Mutants of RevokeRead, which is this with revoked TRUE and a step of 1.
RevokeWith(c, d, revoked, step) ==
    /\ call[c].at = "free"
    /\ d \in DOMAIN devices
    /\ devices[d].tokenVersion < MaxVersion
    /\ Goto(c, [at |-> "load", device |-> d,
                entity |-> [status |-> devices[d].status, revoked |-> revoked,
                            tokenVersion |-> devices[d].tokenVersion + step]])
    /\ UNCHANGED <<devices, certs, tokens, blacklist>>

\* Mutant of RevokeRead: the version stays.
RevokeSameVersion(c, d) == RevokeWith(c, d, TRUE, 0)

\* Mutant of RevokeRead: the version goes down.
RevokeDownwards(c, d) == RevokeWith(c, d, TRUE, -1)

\* Mutant of RevokeRead: only the version is changed.
RevokeVersionOnly(c, d) == RevokeWith(c, d, FALSE, 1)

\* revokeDevice: findOne, then the entity is changed in memory.
RevokeRead(c, d) ==
    /\ call[c].at = "free"
    /\ d \in DOMAIN devices => devices[d].tokenVersion < MaxVersion
    /\ \/ d \notin DOMAIN devices /\ Ends(c, "null")
       \/ /\ d \in DOMAIN devices
          /\ Goto(c, [at |-> "load", device |-> d,
                      entity |-> [status |-> devices[d].status, revoked |-> TRUE,
                                  tokenVersion |-> devices[d].tokenVersion + 1]])
    /\ UNCHANGED <<devices, certs, tokens, blacklist>>

\* save, first half: the row as it is now decides what will be written.
SaveLoad(c) ==
    /\ call[c].at = "load"
    /\ LET d == call[c].device
           entity == call[c].entity
       IN
       \/ /\ d \in DOMAIN devices
          /\ Goto(c, [at |-> "update", device |-> d, entity |-> entity,
                      columns |-> {col \in Columns : entity[col] # devices[d][col]}])
       \/ /\ d \notin DOMAIN devices
          /\ Goto(c, [at |-> "insert", device |-> d, entity |-> entity])
    /\ UNCHANGED <<devices, certs, tokens, blacklist>>

\* A row with some columns taken from an entity.
Patched(row, entity, columns) ==
    [status       |-> IF "status" \in columns THEN entity.status ELSE row.status,
     revoked      |-> IF "revoked" \in columns THEN entity.revoked ELSE row.revoked,
     tokenVersion |-> IF "tokenVersion" \in columns THEN entity.tokenVersion
                                                    ELSE row.tokenVersion]

\* save, second half: UPDATE of those columns, of no row if it has gone ...
SaveUpdate(c) ==
    /\ call[c].at = "update"
    /\ LET d == call[c].device IN
       devices' = [e \in DOMAIN devices |->
                      IF e = d THEN Patched(devices[d], call[c].entity, call[c].columns)
                               ELSE devices[e]]
    /\ Ends(c, "done")
    /\ UNCHANGED <<certs, tokens, blacklist>>

\* ... or INSERT of the entity under its old id, unless another has done so.
SaveInsert(c) ==
    /\ call[c].at = "insert"
    /\ \/ /\ call[c].device \in DOMAIN devices
          /\ Ends(c, "500")
          /\ UNCHANGED devices
       \/ /\ call[c].device \notin DOMAIN devices
          /\ devices' = Put(devices, call[c].device, call[c].entity)
          /\ Ends(c, "done")
    /\ UNCHANGED <<certs, tokens, blacklist>>

\* delete: findOne and the ownership check ...
DeleteRead(c, u, d) ==
    /\ call[c].at = "free"
    /\ \/ d \notin DOMAIN devices /\ Ends(c, "404")
       \/ d \in DOMAIN devices /\ Owner[d] # u /\ Ends(c, "403")
       \/ d \in DOMAIN devices /\ Owner[d] = u /\ Goto(c, [at |-> "remove", device |-> d])
    /\ UNCHANGED <<devices, certs, tokens, blacklist>>

\* ... then DELETE; the foreign key takes the device's certificates along.
DeleteRemove(c) ==
    /\ call[c].at = "remove"
    /\ devices' = Drop(devices, {call[c].device})
    /\ certs' = Drop(certs, {s \in DOMAIN certs : certs[s] = call[c].device})
    /\ Ends(c, "done")
    /\ UNCHANGED <<tokens, blacklist>>

\* registerCert: findOne ("Device not found" is an Error, a 500) ...
RegisterRead(c, d, s) ==
    /\ call[c].at = "free"
    /\ \/ d \notin DOMAIN devices /\ Ends(c, "500")
       \/ d \in DOMAIN devices /\ Goto(c, [at |-> "register", device |-> d, serial |-> s])
    /\ UNCHANGED <<devices, certs, tokens, blacklist>>

\* Mutant of RegisterInsert: save finds the serial's row and updates it, as it
\* would if the serial were the primary key.
RegisterUpserts(c) ==
    /\ call[c].at = "register"
    /\ IF call[c].device \in DOMAIN devices
         THEN certs' = Put(certs, call[c].serial, call[c].device) /\ Ends(c, "done")
         ELSE Ends(c, "500") /\ UNCHANGED certs
    /\ UNCHANGED <<devices, tokens, blacklist>>

\* ... then INSERT, which the unique serial and the foreign key may refuse.
RegisterInsert(c) ==
    /\ call[c].at = "register"
    /\ LET insertable == /\ call[c].device \in DOMAIN devices
                         /\ call[c].serial \notin DOMAIN certs
       IN
       \/ ~insertable /\ Ends(c, "500") /\ UNCHANGED certs
       \/ /\ insertable
          /\ certs' = Put(certs, call[c].serial, call[c].device)
          /\ Ends(c, "done")
    /\ UNCHANGED <<devices, tokens, blacklist>>

\* revokeJti: SET jti:blacklist:<jti> EX ttlSeconds.  (The DEL that follows
\* concerns refresh tokens.)
RevokeJti(j) ==
    /\ j \in DOMAIN tokens \ blacklist
    /\ blacklist' = blacklist \cup {j}
    /\ UNCHANGED <<devices, certs, tokens, call>>

\* The ttlSeconds of a caller's choosing have passed.
BlacklistLapse(j) ==
    /\ j \in blacklist
    /\ blacklist' = blacklist \ {j}
    /\ UNCHANGED <<devices, certs, tokens, call>>

\* An operator's UPDATE devices SET status: no code sets it.
SetStatus(d, status) ==
    /\ d \in DOMAIN devices
    /\ devices' = [devices EXCEPT ![d].status = status]
    /\ UNCHANGED <<certs, tokens, blacklist, call>>

\* An awaited statement of call c rejects (lost connection): a 500.  A process
\* that dies is this for every call, and nothing else is kept in memory.
Fail(c) ==
    /\ call[c].at \notin {"free"} \cup Outcomes
    /\ Ends(c, "500")
    /\ UNCHANGED <<devices, certs, tokens, blacklist>>

\* The slot of a call that has ended is taken by another.
Recycle(c) ==
    /\ call[c].at \in Outcomes
    /\ Ends(c, "free")
    /\ UNCHANGED <<devices, certs, tokens, blacklist>>

\* A call arrives.
Begin(c) ==
    \/ \E s \in Serials, goal \in {"ping", "mint"} : GuardLookup(c, s, goal)
    \/ \E d \in Devices, j \in Tokens : Issue(c, d, j)
    \/ \E j \in Tokens : ValidateStart(c, j)
    \/ \E d \in Devices : RevokeRead(c, d)
    \/ \E d \in Devices, u \in Users : DeleteRead(c, u, d)
    \/ \E d \in Devices, s \in Serials : RegisterRead(c, d, s)

\* A call under way goes on by itself.
Continue(c) ==
    \/ Touch(c)
    \/ MintRead(c)
    \/ \E j \in Tokens : CertCheck(c, j)
    \/ ValidateDevice(c)
    \/ SaveLoad(c)
    \/ SaveUpdate(c)
    \/ SaveInsert(c)
    \/ DeleteRemove(c)
    \/ RegisterInsert(c)

Operator == \E d \in Devices, status \in Statuses : SetStatus(d, status)

Next ==
    \/ \E c \in Calls : Begin(c) \/ Continue(c) \/ Fail(c) \/ Recycle(c)
    \/ \E j \in Tokens : RevokeJti(j) \/ BlacklistLapse(j)
    \/ Operator

Spec == Init /\ [][Next]_vars

-----------------------------------------------------------------------------

\* A device that may still mint tokens.
Live(d) == d \in DOMAIN devices /\ ~devices[d].revoked

(* The strategy accepts by version alone, so revocation works only if no      *)
(* token, minted before or still being minted, ever carries the version of a  *)
(* revoked row: not with two revocations that read the same version, not with *)
(* a save that brings an older version back, not when a save re-inserts a     *)
(* deleted row (device.service.ts:124-130, device-jwt.strategy.ts:42-47).     *)
NoTokenOutlivesRevocation ==
    \A j \in DOMAIN tokens : Current(j) => Live(tokens[j].device)

(* A device that has been revoked or deleted never gets live again, whatever  *)
(* stale entity a concurrent revokeDevice saves over its row or into the gap. *)
RevocationIsFinal == [][\A d \in Devices : ~Live(d) => ~Live(d)']_vars

\* What the contract shows of a state: beside the ids with a row and the
\* certificates as they are recorded, the live devices and the tokens that
\* DeviceJwtStrategy would find current.
LiveDevices == {d \in Devices : Live(d)}
Accepted    == [j \in {i \in DOMAIN tokens : Current(i)} |->
                   [device |-> tokens[j].device, serial |-> tokens[j].serial]]

Contract == INSTANCE DeviceAccessContract WITH
    known <- DOMAIN devices, live <- LiveDevices, holder <- certs,
    signed <- DOMAIN tokens, accepted <- Accepted

(* DeviceAccess keeps the promises of DeviceAccessContract: whatever calls    *)
(* overlap, each step revokes or deletes one device, with all its tokens at   *)
(* once, brings a deleted one back lifeless, records a certificate under a    *)
(* free serial, signs one token, or cannot be noticed; no token starts to be  *)
(* accepted later than it is signed, or again.  Deletion takes the            *)
(* certificates of the device along, revocation none of them: those of a      *)
(* revoked device go on passing DeviceCertGuard while its status is active    *)
(* (device.service.ts:62-81,108-130, device-jwt.strategy.ts:42-47).           *)
ImplementsContract == Contract!Spec

(* A token that the strategy still accepts and that was minted for a client   *)
(* certificate has that certificate on record for its own device: deleting    *)
(* the device, which frees the serial for another, kills the token first.     *)
CurrentTokenHasItsCert ==
    \A j \in DOMAIN tokens :
        Current(j) /\ tokens[j].serial # NoSerial =>
            /\ tokens[j].serial \in DOMAIN certs
            /\ certs[tokens[j].serial] = tokens[j].device

\* No call holds an entity of d that was read before d was suspended.
Settled(d) ==
    /\ d \in DOMAIN devices => devices[d].status = "suspended"
    /\ \A c \in Calls :
          call[c].at \in {"load", "update", "insert"} /\ call[c].device = d =>
             call[c].entity.status = "suspended"

(* Suspension sticks: once it is in the row and no revokeDevice that read the *)
(* row earlier is under way, only an operator ends it.  (An earlier one does  *)
(* write the old status back: save compares the whole entity with the row.)   *)
SuspensionSticks ==
    [][\A d \in Devices : Settled(d) => Settled(d)' \/ Operator]_vars

\* Token j is blacklisted and no validate is past its look at the blacklist.
Condemned(j) ==
    /\ j \in blacklist
    /\ \A c \in Calls : call[c].at = "validate" => call[c].token # j

(* Once a token is blacklisted and the validations that had already asked     *)
(* Redis are over, none gets as far as the device row again until the key     *)
(* expires (device-jwt.strategy.ts:34-37).                                    *)
BlacklistHolds ==
    [][\A j \in Tokens : Condemned(j) => Condemned(j)' \/ BlacklistLapse(j)]_vars

(* The inductive invariant: a revoked row, and every entity a revokeDevice    *)
(* has in memory, carries a version above 0; a live row, a token and a mint   *)
(* under way carry 0.  A pending UPDATE of a row that is not revoked yet will *)
(* write both columns.  The certificate of a live device's token, or of its   *)
(* mint past the check, is still on record.                                   *)
LocalsConsistent(k) ==
    /\ k.at = "certcheck" => k.version = 0
    /\ k.at \in {"load", "update", "insert"} =>
          k.entity.revoked /\ k.entity.tokenVersion > 0
    /\ k.at = "update" /\ Live(k.device) => {"revoked", "tokenVersion"} \subseteq k.columns

VersionsSeparate ==
    /\ \A d \in DOMAIN devices : devices[d].revoked <=> devices[d].tokenVersion > 0
    /\ \A j \in DOMAIN tokens : tokens[j].tokenVersion = 0
    /\ \A c \in Calls : LocalsConsistent(call[c])

CertsOnRecord ==
    /\ \A s \in DOMAIN certs : certs[s] \in DOMAIN devices
    /\ \A j \in DOMAIN tokens :
          tokens[j].serial # NoSerial /\ Live(tokens[j].device) =>
             /\ tokens[j].serial \in DOMAIN certs
             /\ certs[tokens[j].serial] = tokens[j].device

IInv == TypeOK /\ VersionsSeparate /\ CertsOnRecord
=============================================================================
