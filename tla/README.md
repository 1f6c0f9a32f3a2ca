# Verification of the device backend

TLA+ models, TLC runs and TLAPS proofs for the NestJS backend in this
repository (`src/`): enrollment of devices over a private CA, mTLS, device
tokens, users, and reports. Paths below are relative to the repository's root.

## 1. Inventory

| Component | Code | State it keeps | Operations |
|---|---|---|---|
| Enrollment | `src/device/enroll.controller.ts`, `enroll.service.ts` | tables `device_nonces`, `device_certs`; the CA's `.srl` file | challenge, verify |
| Device registry | `src/device/device.service.ts`, entities | tables `devices`, `device_certs` | create, delete, revoke, register a certificate, touch, look up |
| Device authentication | `src/auth/services/device-auth.service.ts`, `guards/device-cert.guard.ts`, `strategies/device-jwt.strategy.ts` | none of its own; claims in signed tokens; Redis `jti:blacklist:*` | mint by certificate, mint by secret, validate, revoke |
| Token service | `src/auth/services/token.service.ts` | Redis `refresh:*`, `jti:blacklist:*` | sign, create and consume refresh tokens, revoke a jti |
| Client certificate middleware | `src/common/middleware/client-cert.middleware.ts` | none | headers of the proxy to `req.mtls` |
| Accounts | `src/auth/auth.service.ts`, `src/users/*` | table `users` | register, login, resolve a token |
| Reports | `src/reports/*` | table `reports`, the upload directory | upload, motion report, list, remove |
| Redis connection | `src/shared/redis.provider.ts` | connection, retry counters, queue of commands | connect, ping with retries, quit on a signal |
| Routes | the controllers, `src/auth/guards/*`, `src/auth/strategies/*`, `src/main.ts:35-41` | what the stages put on a request | middleware, guard, interceptor, pipes, handler |
| Telemetry | `src/device/device-telemetry.controller.ts` | none | log an event |
| Bootstrap | `src/main.ts` | the life of the process | start, listen, shut down |
| Configuration, CORS, logging | `src/config/*`, `src/main.ts`, `src/common/*` | read-only after the start | key sources, origins |

How they interact: enrollment writes the `device_certs` rows that the mTLS guard
looks up; the guard hands a device to the controllers, which have the device
authentication mint a token; the strategy that accepts the token later compares
its version with the `devices` row and asks Redis for its jti. `revokeDevice`
and `delete` act on the same rows. All of it is one Node process: code between
two `await`s is atomic, everything else interleaves, and the database sees
single statements (nothing in the repository opens a transaction; `save` has
its own around the write only). Two instances of the process behind one
database are covered too, since nothing is kept in memory between requests.

What is hard: checks whose outcome is used after an `await` (the nonce's `used`,
the device's `tokenVersion`, the blacklist); several effects that are not one
transaction (nonce, CA, certificate row); a file two openssl processes rewrite
without a lock; `save` merging a stale entity into a changed or deleted row;
failures and crashes between any two of these; two retry loops and two signal
handlers around one Redis client; handlers that rely on what other stages, declared
elsewhere, leave on the request. `PROJECT.json` lists each hazard
at its line, with the properties that cover it, or why none does.

What makes each component correct:

- Enrollment: certificates only for spent nonces of their own device; a nonce
  that is over stays over; what is delivered is on record.
- Registry and authentication: revocation is final and kills tokens at once;
  suspension sticks; the certificate of an accepted token is on record;
  a blacklisted token does not get through.
- Token service: a refresh token is good for one exchange; a blacklist entry
  and a refresh key outlive the token they name.
- Accounts: one account per address; a token resolves to the user it was issued to.
- Reports: a row keeps its file until its owner asks for its removal; no file is
  left without a row unless something failed.
- Enrollment and access together: the certificate a device holds is on record while
  it is live; an accepted token goes back to a spent nonce of its device.
- Redis connection and bootstrap: the start ends, and is not given up while Redis is
  reachable; requests are answered; a signal ends the process.
- Routes: a handler finds what it reads; reports are their owners'; nothing is
  stored before the guard.

## 2. Modules

| Module | What it is |
|---|---|
| `Tables` | rows by key: insert, delete, the empty table |
| `Enrollment` | `EnrollController` + `EnrollService` (detailed) |
| `EnrollmentContract` | what enrollment promises (abstract) |
| `EnrollmentProofs` | theorems about `Enrollment` |
| `MCEnrollment` | TLC instances of `Enrollment` |
| `DeviceAccess` | `DeviceService`, `DeviceCertGuard`, `DeviceAuthService`, `DeviceJwtStrategy` |
| `DeviceAccessContract` | what access promises (abstract) |
| `DeviceAccessProofs` | theorems about `DeviceAccess` |
| `MCDeviceAccess` | TLC instances of `DeviceAccess` |
| `RefreshTokens` | `TokenService` over Redis keys that expire |
| `RefreshTokensContract` | what the exchange of refresh tokens promises (abstract) |
| `RefreshTokensProofs` | theorems about `RefreshTokens` |
| `MCRefreshTokens` | TLC instances of `RefreshTokens` |
| `Accounts` | `AuthService`, `UsersService`, the local and the JWT strategy |
| `AccountsContract` | what accounts promise (abstract) |
| `AccountsProofs` | theorems about `Accounts` |
| `MCAccounts` | TLC instances of `Accounts` |
| `Reports` | `ReportsController` + `ReportsService` (detailed) |
| `ReportsContract` | what the report endpoints promise (abstract) |
| `ReportsProofs` | theorems about `Reports` |
| `MCReports` | TLC instances of `Reports` |
| `ServerLifecycle` | the Redis client's factory, `bootstrap`, signals |
| `ServerLifecycleProofs`, `MCServerLifecycle` | theorems and TLC instance |
| `DeviceLifecycle` | `Enrollment` and `DeviceAccess` over the tables they share |
| `DeviceLifecycleProofs`, `MCDeviceLifecycle` | theorems and TLC instance |
| `Routes` | controllers, guards, middleware, interceptor and pipes |
| `RoutesProofs`, `MCRoutes` | theorems and TLC instance |

Definitions named as mutants (`AcceptedForAnyDevice`, `RevokeSameVersion`, ...) are not
part of the specifications: each is a plausible mistake in the definition that
follows it, kept to show that a property would notice (`PROJECT.json`, `mutants`).

### Enrollment

| State | Code |
|---|---|
| `nonces` | `device_nonces`: device, expiry, used |
| `certs` | `device_certs` by serial: device, and as history the inserting request |
| `caSerial` | the number in the CA's `.srl` file |
| `call`, `serial`, `pc` | a verify request's body, its local serial number, how far it is |
| `clock` | `Date.now()` |

| Action | Code (`enroll.service.ts`) |
|---|---|
| `Challenge` | `createNonce`, 18-23 |
| `Verify` | the SELECT and all checks, 26-47: one await, then synchronous code |
| `Spend` | the UPDATE, 49 |
| `LoadSerial`, `SaveSerial` | `openssl x509 -req -CAcreateserial`, 76, in its two accesses of the `.srl` file; the second includes what is read back, 78-92 |
| `Insert` | the INSERT, 54-57, with the unique serial and the foreign key |
| `Respond` | `return certPem` and the controller's answer |
| `Fail` | any await rejecting |
| `Crash` | the process dies: requests in flight are lost, tables and file stay |
| `Tick` | time passes |

A CSR is data: `Verify` takes the verdicts of `csr.verify()` and of the signature
over the nonce as inputs and so covers every CSR. The tables are taken to have the
columns that the SQL text names (see the further disagreements below).

### DeviceAccess

| State | Code |
|---|---|
| `devices` | `devices`: status, revoked, tokenVersion |
| `certs` | `device_certs`: serial to device, `onDelete: CASCADE` |
| `tokens` | the claims signed so far, by jti |
| `blacklist` | the `jti:blacklist:*` keys in Redis |
| `call` | per slot, the statement a call awaits and the locals it needs after |

| Actions | Code |
|---|---|
| `GuardLookup`, `Touch` | `DeviceCertGuard.canActivate`, then `ping` or on to `token` |
| `MintRead`, `CertCheck` | `generateDeviceTokenFromMtls`, its two queries |
| `Issue` | `generateDeviceToken` (POST /report/issue); no `verifySecret` exists, so the secret is not looked at, and every body is refused by the global `ValidationPipe`, for want of validators in `DeviceIssueDto`, before the service is asked |
| `ValidateStart`, `ValidateDevice` | `DeviceJwtStrategy.validate`: Redis, then the row |
| `RevokeRead`, `SaveLoad`, `SaveUpdate`, `SaveInsert` | `revokeDevice`: its SELECT, then `Repository.save` = SELECT, and UPDATE of the differing columns or INSERT |
| `DeleteRead`, `DeleteRemove` | `delete` |
| `RegisterRead`, `RegisterInsert` | `registerCert` |
| `RevokeJti`, `BlacklistLapse` | `TokenService.revokeJti`, the key's expiry |
| `SetStatus` | an operator's SQL: no code sets `status` |
| `Fail`, `Recycle` | a rejected await; a slot reused by the next call |

The module is about the services. `revokeDevice`, `registerCert` and `revokeJti` have no
route yet, and `delete` is called with `req.user.sub`, which `JwtStrategy` does
not set; they are the code that the admin routes of `READme.md` will call, and
what is shown is shown for any caller. Likewise the rows of `devices` are an
operator's: `createDevice` sets neither `status` nor `hashedSecret`, both NOT
NULL. The model has no action that clears `revoked`, since the code has none: that
retirement is final depends on it.

`DeviceAccessContract` is access without calls, awaits, versions and columns: the devices
that have a row (`known`), those of them that are live, the certificates on record, the jtis
in use, and which tokens are accepted for which device and certificate. `Record`, `Accept`,
`SignInVain` (a token signed too late), `Revoke`, `Delete` and `Return` (a stale save brings a
deleted device back). `Revoke` and `Delete` end a device's life and take its tokens along in
the same step; `Delete` takes its certificates, too, and `Revoke` takes none away, as
`revokeDevice` does not. In the mapping, a device is live when it has a row that is not
revoked, `holder` is `device_certs` as it is stored, and a token is accepted when the
strategy would let it through. That a certificate is on record does not mean that its device
may act: the guard asks for `status`, the strategy for `tokenVersion` (section 3, further
disagreements).

### RefreshTokens

| State | Code (`token.service.ts`) |
|---|---|
| `now` | `Date.now()` and the clock of Redis, in ticks of a part of a second |
| `tokens` | the tokens handed out: jti to `exp`, in seconds |
| `refresh`, `blacklist` | the keys `refresh:<jti>`, `jti:blacklist:<jti>`: jti to the tick they expire at |
| `call` | per slot, the Redis command a call awaits and its locals |
| `exchanges`, `revoked` | history: exchanges that returned, jtis whose `revokeJti` returned |

| Actions | Code |
|---|---|
| `CreateAccess` | `createAccessToken`, 79-81: it awaits nothing |
| `CreateRefresh`, `Store` | `createRefreshToken`: the signature, then SET |
| `Consume`, `AskBlacklist`, `GetKey`, `DelKey`, `Mark` | `verifyAndConsumeRefreshToken`: `jwt.verify`, GET of the blacklist, GET, DEL and the reading of the clock, SET |
| `Revoke`, `Erase` | `revokeJti`: SET, then DEL |
| `Fail` | a command rejected or the process gone; what is in Redis stays |
| `Tick` | time passes |

The operator `Accepted` is `verifyAccessToken`. The argument `replied` of the
last command of a call says whether its reply arrives: without it the command
has its effect and the caller has none. A token is opaque: only its jti and `exp`
matter, and a forged one fails `jwt.verify`, which changes nothing. Access and
refresh tokens are told apart by their refresh key only, as in the code. Nothing
calls this service yet; every operation is open to any caller.

`RefreshTokensContract` is the exchange without Redis and without steps: a token is open
or closed, who found it open has a claim, and an exchange uses up a claim on a token that is
closed by then. A call past its GET of the key holds the claim; a token is open while
its key is present. How many may hold a claim at once is left open, as finding 2 requires.

`DeviceAccess` has the same blacklist without lifetimes: there a key may lapse at
any time.

### Accounts

| State | Code |
|---|---|
| `users` | table `users`: username, email, the password chosen, whether the column has its hash |
| `tokens` | the claims of the unexpired HS256 tokens, and as history who each was signed for |
| `call` | per slot, the await a register or a login is in, with its locals |

| Actions | Code |
|---|---|
| `Register`, `Insert`, `Sign` | `AuthService.register`: `findByEmail`; the INSERT, after the hook `normalizeFields`; the signature |
| `CreateUser` | POST /user, `UsersService.create` |
| `Login`, `Compare` | `LocalStrategy.validate`: the query by username; `bcrypt.compare`, then `AuthController.login` |
| `Fail`, `Expire` | a rejected await or a crash; `expiresIn` |

`Lower` is `toLowerCase().trim()`, any idempotent function. `Resolved(t)` is the set of
users `JwtStrategy.validate` may find for a token: those whose username the token
carries, and any user for a token without one, since TypeORM drops a condition that
is `undefined`. `AuthController.login` passes its body, and not the user found, to
`AuthService.login`, so `Compare` signs such tokens (`ClaimsOfBody`). Users are never
changed or deleted: no code does it.

`AccountsContract` is a directory of accounts without passwords, usernames, claims and
steps: an account is opened under an address in its normal form that no other has, and
is never renamed or closed; a grant (a registration whose token resolves to its account
and to no other) ends by expiry only. In `ImplementsContract` an account's address is its
column `email`, and `Granted` reads the grants off the tokens and `Resolved`. The
contract has no step in which somebody else's account takes or lends a grant, so the
column that tokens are resolved by has to be unique, and the address normal before the
INSERT. It promises no grant to logins: finding 3.

### Reports

| State | Code |
|---|---|
| `reports` | table `reports`: owner, file (the end of `url`), content, device |
| `disk` | the upload directory: file name to content; a content is named after multer's copy of it |
| `devices` | ids of the table `devices` |
| `call` | per slot, the await a call is in, with its locals |
| `used`, `asked`, `lost` | history: names and uuids drawn; who had a removal begun; files a failed statement was about |

| Actions | Code |
|---|---|
| `Upload`, `Write`, `WriteFails`, `Save` | POST /report: multer stores the file; `writeFile`, or a part of it; the thumbnail and the INSERT |
| `Motion`, `SaveMotion` | `createMotionReport`: UPDATE of the device; INSERT with the foreign key |
| `Remove`, `Unlink`, `DeleteRow` | DELETE /report/:id: `findOne`, owner check and `existsSync`; `unlink`; DELETE |
| `DeleteDevice` | deletion of a device, which cascades |
| `Fail` | a rejected await or a crash |

An upload's INSERT leaves `deviceId` unset. In the table TypeORM synchronizes from the
entity that column is NOT NULL, and every upload takes the branch `Fail` of the model
instead of `Save`; with the column relaxed both happen.
`createMotionReport` is modelled as the service offers it; its only route passes
`req.user.sub`, which is not set, and refuses every request. File names, made of the
time and a random part, and uuids are taken to be unique: `NewName` is where that is said.

### ServerLifecycle

| State | Code |
|---|---|
| `app` | how far the process is: the factory's ping loop (`pinging`, `pausing`, `aborting`), the rest of `NestFactory.create` and `bootstrap` (`building`), `listening`, after a signal `closing` and `draining`, `exited` |
| `retries` | the local of `attemptPing` |
| `client`, `attempts`, `queue` | the ioredis connection, the `times` that `retryStrategy` is given, the commands not yet settled |
| `signalled`, `drops`, `errors` | history: a survived signal, broken connections, error replies to PING |

| Action | Code |
|---|---|
| `Ping`, `Pong`, `PingError` | `attemptPing`, 48-68 |
| `Abort` | the catch around it, 72-81, and the end of the process |
| `Listen`, `BuildFails` | the providers after the factory, then `main.ts:116-119`; a failure of one |
| `Ready`, `ConnectFails`, `Drop`, `Reconnect`, `GetReply`, `QuitReply` | ioredis and Redis, driven by `retryStrategy` (28-31), `maxRetriesPerRequest` and `connectTimeout` |
| `Request` | a request that asks the blacklist (`device-jwt.strategy.ts:35`) |
| `SignalKills`, `SignalWhileBuilding`, `SignalWhileListening` | a signal before the factory's handlers (97-98), before Nest's (`main.ts:116`), after both |
| `Disposed`, `Drained` | Nest has closed the server and signals itself again; the event loop is empty |

ioredis, Nest and Node are external: a closed connection counts one attempt, a
`retryStrategy` of null ends the client and rejects what is queued, every
`maxRetriesPerRequest + 1` attempts the queue is rejected, a client that has
ended rejects at once, QUIT on an unconnected client with an empty queue disconnects.
Delays order nothing: a timer may fire before or after every other event. The queue is
a set of kinds of commands; a second request's GET behaves as the first's.

### DeviceLifecycle

`E == INSTANCE Enrollment` and `A == INSTANCE DeviceAccess` over one table of
certificates: `certs` maps serials to Enrollment's rows, and what `DeviceAccess` sees
is the device of each. The table `devices` is `DeviceAccess`'s.

| Action | Components |
|---|---|
| `VerifyStep` | `Issue`: Enrollment's steps but the INSERT; `InsertCert`: the INSERT, whose foreign key now looks at the table as it is (in Enrollment alone the registered ids are fixed) |
| `EnrollOther`, `Tick` | Enrollment's challenge and failures; the clock |
| `DeleteDevice` | `DeviceAccess`'s `DeleteRemove`, with the cascade to Enrollment's rows |
| `OperatorDeletes` | an operator's DELETE, at any time: also between the SELECT and the INSERT of a `save` |
| `CallStep`, `CallOther` | the other statements of mints and revocations; their beginnings and failures |
| `Crash` | one process: all requests and calls are gone |

Clients present any serial openssl has given so far and one beyond. Suspension, the
blacklist, validations, pings, tokens minted without a certificate and `registerCert`
stay with `DeviceAccess`.

### Routes

| State | Code |
|---|---|
| `sent` | the request: route (the handler's name), serial in the proxy's headers, whose bearer token, id in the path, whether the body fits, whether a file comes with it |
| `stage`, `req`, `answer` | how far it is; `req.mtls`, `req.user`, `req.device`; its outcome |
| `certs`, `active`, `owner`, `reports` | what the stages look up: certificates, active devices, owners of devices and of reports |
| `copies` | history: whose token came with each file multer stored |

| Action | Code |
|---|---|
| `Middleware` | `ClientCertMiddleware`, for the routes of `DeviceController` only (`device.module.ts:49-53`) |
| `Guard` | `DeviceCertGuard`; the passport guards with what `validate` returns (`UserFields`, `DeviceFields`) |
| `Interceptor` | `FileInterceptor` of POST /report |
| `Pipe` | the global `ValidationPipe` (`main.ts:35-41`), those of the routes, `ParseUUIDPipe` |
| `Plain`, `Ping`, `MintToken`, `Issue`, `ForSubject`, `CreateDevice`, `DeleteDevice`, `CreateMotionReport`, `Create`, `Remove` | the handlers |
| `Arrive` | the next request |
| `Enrolled`, `SetStatus` | certificates and statuses that change under a request |

Objects are functions from the fields they have, and `Field` is `?.`: a field that is
not there is `Undefined`, so what a handler reads is what an earlier stage wrote. A
handler that reads a property of an undefined field (`Needs`) answers `TypeError`.
Requests are handled one at a time; their overlaps are the services' modules' matter.
Bodies are a verdict of the pipes; that a body may be absent is left out.

## 3. Runs

`tlc -config <cfg> <module>`; sizes are distinct states.

| cfg | Module | Bounds | States | Shows |
|---|---|---|---|---|
| `EnrollmentSafety` | `MCEnrollment` | 3 requests, 2 nonces, 2 devices (one without a row), TTL 1, clock to 3 | 393,011 | safety and the refinement of `EnrollmentContract` |
| `EnrollmentSingleUse` | same | 2 requests, 1 nonce | violation | `NonceSingleUse` (below) |
| `DeviceAccessSafety` | `MCDeviceAccess` | 2 devices, 1 serial, 1 token; 3 calls and versions to 2 on one device, 2 calls and versions to 1 on both | 496,236 | revocation, suspension, blacklist, the refinement of `DeviceAccessContract` |
| `RefreshTokensSafety` | `MCRefreshTokens` | 2 calls, 2 tokens, lifetimes 1 s and 2 s, revocations for 2 s, 2 ticks a second, clock to 5 | 522,712 | refusal, lifetimes, the refinement of `RefreshTokensContract` |
| `RefreshTokensConsumedOnce` | same | 2 calls, 1 token | violation | `ConsumedOnce` (below) |
| `AccountsSafety` | `MCAccounts` | 2 calls, 3 users, 4 names (two of them writings of one address), 2 passwords | 239,423 | addresses, resolution of tokens, the refinement of `AccountsContract` |
| `AccountsLoginsResolve` | same | 2 calls, 2 users, 3 names, 1 password | violation | `LoginsResolve` (below) |
| `ReportsSafety` | `MCReports` | 3 calls, 2 users, 4 file names, 2 reports, 1 device | 38,159 | files against rows, the refinement of `ReportsContract` |
| `ServerLifecycle` | `MCServerLifecycle` | the default options, 4 broken connections | 6,882 | the start ends and is not aborted for nothing; requests and shutdown end |
| `ServerLifecycleSignal` | same | no broken connection | violation | `SignalEndsProcess` (below) |
| `DeviceLifecycle` | `MCDeviceLifecycle` | 2 devices, 2 nonces, 2 verify requests (a nonce each, or both the same), 1 call, 1 token, version 1, TTL 0, clock to 1 | 570,748 | the composition's safety, `DeviceAccessContract` again; sealed nonces, and that each is sealed in the end |
| `Routes` | `MCRoutes` | 2 users, 2 devices, 1 serial, 2 reports, all 23 routes | 121,210 | fields, owners, uploads, closed routes |

Why the bounds are enough to be interesting. Two verify requests suffice for
the race on a nonce and for the serial file; the third can come after both, when
the nonce is sealed, or hold a second nonce. A TTL of one tick and a clock of
three let a nonce be used, expire while unused and expire under a request.
Three calls let two revocations that read the same version overlap with a mint,
a validation or a deletion; version 2 is reached by two revocations in a row.
Two devices and one serial let the serial pass from one device to the other: by
`registerCert` while the first still has it, which is refused, or after its deletion. The
constraint `Overlap` of `MCDeviceAccess` leaves out states in which both devices have been
touched and three calls are under way or a device is revoked twice: what two devices share is
the serial, and a deletion or a revocation beside a mint or a registration are two calls.
`MaxVersion` and the supply of jtis bound the number of revocations and mints;
a mint begins only while a jti is left for it, so that no mint waits for one.
Two calls on one token overlap in all of the service's ways, and a third follows
when a slot is free again; the second token shows that calls do not mix their
keys. Two ticks a second separate a second's beginning from its middle, where the
rounding of line 132 differs from Redis's milliseconds. The clock's five ticks
are a refresh token's life and one more.
Two writings of one address, registered at once, meet in the unique column; the third
name and user let a username equal somebody else's e-mail, and the fourth is in neither's way.
Four file names are two uploads with their two copies each; two reports let removals
of one overlap with the other's upload, and three calls let two removals overlap with
an upload or a motion report.
The numbers of `ServerLifecycle` are the code's; four broken connections and the first
one are as many outages as the ping loop has retries, so that the start can be aborted
by outages alone. In `DeviceLifecycle` two verify requests share the serial file, and in half
of the initial states the nonce, too; one call at a time is a mint, a revocation or a deletion between any two of their
statements; the operator's deletion under a revocation makes the stale save bring a
device back. A serial is freed by a deletion and given again to the other request,
which read the file before. In `Routes` two users own what the other asks for, and a
request meets reports and certificates that earlier ones have stored.
Calls, requests, nonces, devices, serials, tokens, users and reports are symmetric sets in
the safety runs (the devices of `Enrollment`, of which one has a row, are not);
runs with liveness use no symmetry. The Enrollment runs end when all requests have been
answered and the clock has stopped, hence `CHECK_DEADLOCK FALSE` there; so do those of
`RefreshTokens` if every jti was taken and none handed out when the clock stops, those of
`DeviceLifecycle` with no device left, and those of `ServerLifecycle` when the process exits.
`DeviceAccess` never stops, nor do `Accounts` (logins), `Routes` (requests) and, by motion
reports that fail, `Reports`.

Fairness, in the two runs with liveness. `DeviceLifecycle`: `WF` of each verify request's
next step: once PostgreSQL, the file system or openssl has answered, Node's
event loop resumes the awaiting function, whatever the others do; `WF` of `Tick`: time
passes. No fairness for clients, operators, failures, crashes, or for calls, which may take
for ever: that each request and each call ends, taken alone, follows from there being no lock
and no loop in either, and no property is spent on it.
`ServerLifecycle`: `WF` of the factory and of reconnection (timers fire), of the end of a connection attempt either way (`connectTimeout`), of replies (a Redis that is
connected answers: without a command timeout in the options nothing else would end a
command), of the end of the build (the database connects, or TypeORM gives up) and
of Nest's closing the server. Nothing says that a connection ever succeeds, or that a
signal comes.

### Findings

1. `NonceSingleUse`. `READme.md:107` says "Nonce is single-use." Two verify
   requests for one nonce may both read `used = false` (line 26) before either
   UPDATE (line 49), which is unconditional and whose count is ignored; both are
   given a certificate. What does hold, and is proved, is
   `SealedNonceStaysSealed`: once the nonce is used and the requests that were
   past the checks are over, no certificate is added for it. Nor is anything else to blame:
   `SingleUseWithoutRace` is the property, proved of every behaviour in which no two requests
   for a nonce are between the SELECT and the UPDATE together (`NoRace`).
2. `ConsumedOnce`. Line 128 of `token.service.ts` answers a second exchange with
   "refresh_token_invalid_or_consumed", but GET (126) and DEL (130) are separate
   commands and DEL's count is ignored: two exchanges that both GET first both
   return. What holds, and is proved, is `ClosedStaysClosed`: none that looks
   at the key after a DEL does. The rest is `ConsumedOnceWithoutRace`: the property, proved of
   every behaviour in which no two exchanges of a token are between GET and DEL together.
3. `LoginsResolve`. `auth.controller.ts:41` assumes that "Passport puts the user on the
   request". `auth.controller.ts:47` signs the body of the login, which has neither
   `email` nor `id`: the token names no user, and the query that resolves it has no
   condition. What holds, and is proved, is about the tokens of registrations:
   `TokensOfRegulars` and `ImplementsContract`, and of what such a token resolves to,
   `Stability`. Of logins, `LoginsResolveAlone`: while a token of one is out, the property
   holds exactly if there is one account.
4. `SignalEndsProcess`. `redis.provider.ts:83` and `main.ts:115` speak of graceful
   shutdown. The factory's handlers (97-98) only quit the client, and replace Node's default,
   which would have ended the process; Nest's are registered at `main.ts:116`, after
   the database has connected. A signal in between is swallowed: the server
   starts, and serves with a client that has ended. What holds, once it listens, is
   `ShutdownEnds`: Nest's second signal to itself makes the factory's handlers quit
   again, should the first QUIT have been rejected with the queue. And
   `HeardUnlessSwallowed`: without a signal in that window, whatever signal the process
   survives is shutting it down.

Further disagreements, met while modelling and plain from single lines of the code; they
are built into the models, and no run is spent on them:

- `READme.md:96` says of a revocation "mark device revoked (set `status='suspended'` / bump
  `tokenVersion`)". `revokeDevice` (`device.service.ts:127-128`) sets `revoked` and increments
  `tokenVersion`; `status` and the rows of `device_certs` stay. `DeviceCertGuard` looks at
  `status` only (line 16), so the certificate of a revoked device still passes it, and GET
  /device/ping answers. No token comes of it: `generateDeviceTokenFromMtls` refuses revoked
  devices (`device-auth.service.ts:50`). Hence `Revoke` of `DeviceAccessContract` ends the
  tokens and takes no certificate away.
- Who registers in mixed case has a token that does not resolve to its holder: it carries the
  e-mail, lowered by the hook, and is looked for among usernames, kept as sent
  (`auth.service.ts:57,61`, `jwt.strategy.ts:23`). It resolves to nobody, or to another
  account: one that POST /user makes, before or after, with that lower-case username and an
  e-mail of its own. Hence the condition of `TokensOfRegulars`; and `Granted`, the grants of
  `AccountsContract`, has only tokens that resolve to their holder.
- A taken address in mixed case gets past `findByEmail` (`auth.service.ts:44`) and fails at
  the unique column, with 500 instead of the 409 of line 46.
- POST /user saves the password unhashed (`users.service.ts:37`), which `bcrypt.compare`
  never matches: such a user cannot log in (`Matches`).
- multer's copy of an upload (`reports.controller.ts:88`) is never deleted: hence the
  `disk[f] # f` of `NoSilentOrphans`, which is about the files the service writes.
- Uploads leave `deviceId` unset, NOT NULL in `report.entity.ts:43`.
- `READme.md:48` says the challenge stores a nonce. The SQL names `device_id` and
  `expires_at`; the entity, from which the schema is synchronized (`app.module.ts:41`), makes
  `"deviceId"` and `"expiresAt"`, so that every challenge would fail (`Challenge`).
- Eight routes never serve (`ClosedRoutes`). POST /auth/device/token is, says
  `READme.md:89`, the "same as `/device/token`", but the middleware does not run for it:
  401. POST /report/issue has a DTO without validators: 400. The handlers that read
  `req.user.sub` never find it, since neither strategy returns it: telemetry, whose comment
  (`device-telemetry.controller.ts:9`) says "from JWT "sub"", answers for an undefined
  device; GET /device/my and /report/last are empty; POST /device fails; DELETE
  /device/:id is refused; POST /report/motion answers 503, and so never gets to `sendSMS`,
  which it would call with sender and addressee swapped (`reports.controller.ts:68`,
  `reports.service.ts:150`).

## 4. Proofs

All with `tlapm`, for every value of the constants, from the `ASSUME`s of the
modules only: registered ids are device ids, the clock's bounds are numbers; owners are
users, `NoSerial` is not a serial; lifetimes and ticks per second are positive; `Lower` is
idempotent, `Absent` no name; a file name is no uuid, nor is null a file or a device;
the retry options are numbers, with at least one PING; `Undefined` is neither an id nor
an object, and no user's id is a device's.

`EnrollmentProofs`. The invariants asked for are not inductive: that a
certificate's nonce is spent when its row goes in depends on what the request
knew since its checks. `IInv` adds, per request (`NonceClaim` and `RowClaim` in the proofs): from
the checks on, its nonce exists and was granted to the device it names; from the
UPDATE on it is used; from the INSERT on its own row is under its serial. The
argument is that the tables only grow (`TablesGrow`), so a request's claim
survives everybody else's step, and its own step establishes the next. Theorems:
`TypeCorrect`, `Records`, `Delivery`, `Serials`, `SealedForGood`, and `Refinement`: each
step is a `Grant`, `Consume`, `Register` or `Deliver` or leaves the contract's state
alone. `SingleUseWithoutRace` has an invariant of its own beside `IInv` (`Single`): what is
between a nonce's checks and its answer, or on record for it, is one request's.

`DeviceAccessProofs`. The strategy knows a revoked device by its version only, and
versions are incremented without a lock, so increments are lost. `IInv` says why
that does no harm: `VersionsSeparate`: a row, and every entity a revocation holds
in memory, has a version above 0 exactly when it is revoked, while every token
and every mint under way carries 0; and an UPDATE pending on a live row writes both
`revoked` and `tokenVersion`. (The last part needs `SaveLoad` to compare with the
row as it is then.) `CertsOnRecord`: the foreign key, and the certificate of a live
device's token. Theorems: `TypeCorrect`, `Revocation`, `Finality`,
`Certificates`, `Blacklisting`, `Suspension`, `Refinement`. The last rests on lemmas that say
what the contract makes of a step from how it changes the tables alone. `TokensFollow`: since
a live row has version 0 and a dead one has not, the accepted tokens are those of the live
devices, and go when their device does. So an UPDATE is a `Revoke` or nothing
(`RevokeOrStutter`); DELETE is a `Delete`, or nothing when the row is gone, for then the
foreign key leaves no certificate either (`DeleteOrStutter`); an INSERT by a stale save is a
`Return`, because the row it writes is revoked (`ReturnLifeless`); an INSERT of a certificate
is a `Record` (`Recorded`), a signature an `Accept` or a `SignInVain` (`AcceptOrSignInVain`).

`RefreshTokensProofs`. `IInv` has three parts besides the types. `CallsKnow`: a
call under way names a token that was handed out, or is alone in creating its
own; so a key that is gone is never set again, which is `ClosedForGood`, for any
lifetimes. `KeysCover`: a refresh key expires no earlier than its token, because
the signature precedes SET. `EntriesCover`: the same for every entry of the
blacklist, set or about to be: `exp - now` is computed from a clock rounded down
and before SET, so the entry lasts at least until `exp`. Entries of `revokeJti`
last as long as their caller says, hence the hypothesis `Covering` of `Refusal`:
revocations are called with at least the lifetime of a token. Without it the
theorem is false: a shorter revocation overwrites a longer entry. Theorems:
`TypeCorrect`, `ClosedForGood`, `KeysLast`, `Refusal`, `Refinement`,
`ConsumedOnceWithoutRace`. The last two use `Deleted`: the key of a call past its DEL is gone
(race or not, for it is never set again), so the exchange that returns finds its token
closed. Without a race the call past the GET is moreover alone (`Alone`), and after it
has returned there is neither a key nor another such call (`Spent`).

`AccountsProofs`. `IInv`: stored e-mails are in lower case and both columns unique, as
the hook and the indexes have it; a token was signed for a registered user, with that
user's e-mail or with nothing. Since users are only added (`UsersKept`), what a token
says stays true, and uniqueness of usernames makes its resolution unique. Theorems:
`TypeCorrect`, `Addresses`, `Regulars`, `Stability`, `Refinement`, `LoginsResolveAlone`. The
refinement rests on two lemmas: a step that adds a user leaves the grants as they are
(`GrantedKept`), and a user has one token of a registration at most (`OneTokenEach`), so
that the expiry of a token ends the grant of its user and of nobody else.

`ReportsProofs`. That a row has its file depends on nobody else unlinking it. `IInv` says
why: `Drawn`: what is stored or held was drawn before, so a fresh name is nobody's;
`OneUser`: a file belongs to one row or one upload, which finds it on disk when it
saves; `Removals`: what a removal read of its report still is so when it acts, its
requester is the owner, and when it comes to the row the file is gone or its loss
noted. From these, `ContractStep`: an unlink or a DELETE withdraws a report whose
owner asked, an INSERT publishes it whole, and other steps the contract does not see.
Theorems: `TypeCorrect`, `Files`, `Orphans`, `Refinement`.

`ServerLifecycleProofs`. `IInv`: a PING is queued exactly while the loop awaits it, a
client that has ended has an empty queue, and the phase bounds `retries`. That a
reachable Redis does not abort the start needs more (`FailuresExplained`): failures of the
loop are charged to error replies and outages, an outage once for each of the multiples of
`MaxRetriesPerRequest + 1` that its failed connections have passed (`Flushed`), of which
there are `FlushesPerOutage` before `retryStrategy` gives up: one with the defaults (5 and
3). The lemmas `NextQuotient`, `QuotientMonotone` and `NextMultiple` are the arithmetic, so
that `AbortExplained` needs no hypothesis on the options. Behind the liveness that TLC
checks there are two theorems of safety. `Held`: nobody waits for a client that is gone.
`QuitHeard`: Nest's second signal finds a client that has ended, is disconnected at once, or
can write; for a QUIT that has no connection waits beside a GET (`QuitWaitsWithGet`), the GET
keeps Nest from closing the server, and whatever rejects the one rejects the other.
Theorems: `TypeCorrect`, `EndedReason`, `AbortExplained`, `Held`, `QuitHeard`,
`HeardUnlessSwallowed`.

`DeviceLifecycleProofs` proves about the composition from what the component proofs have
shown of single steps: each action is an action of `E` beside a stutter of `A`, or the reverse,
or one of the two composed ones (`InsertCert`, `DeleteDevice`), and `SameEnrollment` and
`SameAccess` pass from the instances of the modules to those of their proofs. `IInv` is
Enrollment's claims with rows that may vanish by a cascade (`Grounded`), `DeviceAccess`'s
`IInv`, and `Held`: a delivered certificate is on record if its device is live. A device
that a stale save brings back is not live (`revoked` is among the columns it writes), which is why
the cascade's loss of its certificates does no harm. From the same invariant, what each
component promises alone is proved of the whole: `Revocation`, `Records`,
`SealedForGood` (which here only says that certificates are not added, since a cascade may
take one), and `AccessRefinement`. The last reuses the lemmas of `DeviceAccessProofs` on
what the contract sees, with an operator's deletion as a `Delete` and Enrollment's INSERT as
a `Record`. Theorems: `TypeCorrect`, `HeldCertificates`, `TokensTraced`, `Revocation`,
`Records`, `SealedForGood`, `AccessRefinement`.

`RoutesProofs`. `IInv` adds to the properties what a request past its guard is known to
have (`PastGuard`), and that only the middleware's routes have `req.mtls`. From it a
handler's `sub` is undefined (`NoSubject`), which closes the routes that compare with it, while the
`id` of upload and removal is the bearer's, which is `Ownership`. Theorems: `TypeCorrect`,
`FieldsFound`, `Bearers`, `Closed`, `Ownership`.

Only model-checked: the liveness properties (`StartEnds`, `RequestsEnd`, `ShutdownEnds`,
`EveryNonceSealed`), since the prover has no
ENABLED and hence no fairness. The four violations are TLC's counterexamples; the
theorems that delimit them (`SingleUseWithoutRace`, `ConsumedOnceWithoutRace`,
`LoginsResolveAlone`, `HeardUnlessSwallowed`) have as hypothesis only that the named
window is not hit by two at once, or by a signal: most behaviours meet it, and TLC finds the
same properties to hold when it explores only states with `NoRace`. `NoneForgotten`
and `QuitGetsOut` are proved and in no run's list.

## 5. Not modelled

What the read-only queries return; `UsersService.update` (called from nowhere);
`DeviceService`'s copy of `verifyAndIssue` and `DeviceNonceService` (called from
nowhere); token expiry and signatures, which passport checks before `validate` (in
`Accounts` a token is one that has not expired); certificate subjects and dates, which
nothing compares; the SMS gateway; CORS and key sources, string handling without state;
logging and Swagger; the generated stubs. The serial
number made of `Date.now()` (`enroll.service.ts:81`, `device.service.ts:253`) where openssl's
`-serial` prints none: it prints one for every certificate it has written.
`DeviceAuthService.isJtiRevoked` (`device-auth.service.ts:28-30`), called from nowhere: it
compares the promise of the GET, which it does not await, with null, and so would take every
token for revoked.

Limits of what is modelled. A Redis that is connected and never answers is excluded by
fairness: `StartEnds` and `RequestsEnd` say nothing of it. `DeviceLifecycle` has one call at
a time; several are `DeviceAccess`'s matter. `HeldCertOnRecord` is about live devices:
when a device is deleted, its serial may pass to another, whose request had read the
serial file before.

## 6. Plan

In this order.

1. `DeviceLifecycle` with two calls at a time, and with suspension.
2. `Accounts` under `Routes`: tokens of logins as bearers, with the user that the
   unconditional query finds.
