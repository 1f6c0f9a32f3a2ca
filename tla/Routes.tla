-------------------------------- MODULE Routes --------------------------------
(***************************************************************************)
(* One request after the other on its way through Nest: the middleware, the*)
(* guard, the interceptor, the pipes and the handler of its route, over the*)
(* controllers of src/auth, src/device, src/reports and src/users.  What   *)
(* the stages put on the request is what the handlers find there.          *)
(*                                                                         *)
(* Whose a token is, Accounts and DeviceAccess say; what the services do   *)
(* under concurrency, and when a query fails, the modules of the services. *)
(* Requests meet here only in what an earlier one has stored.              *)
(***************************************************************************)
EXTENDS Tables

CONSTANTS
    Users, Devices, Serials, ReportIds,
    Undefined         \* JavaScript's undefined

VARIABLES
    sent,      \* the request as its client sent it
    stage,     \* how far it is
    req,       \* what the stages have put on it
    answer,    \* its outcome
    certs,     \* table device_certs: serial -> device
    active,    \* the devices of status 'active'
    owner,     \* table devices: device -> ownerId
    reports,   \* table reports: id -> ownerId
    copies     \* history: whose token came with each file multer has stored

vars == <<sent, stage, req, answer, certs, active, owner, reports, copies>>

-----------------------------------------------------------------------------
\* The routes, by the name of their handler.

DeviceController == {"ping", "token", "findMyDevices", "createDevice", "deleteDevice"}

\* @UseGuards(DeviceCertGuard)
CertRoutes == {"ping", "token", "deviceToken"}
\* @UseGuards(JwtAuthGuard)
UserRoutes ==
    {"findMyDevices", "createDevice", "deleteDevice", "getMe", "getProfile",
     "createMotionReport", "getLastReports", "create", "remove"}
\* @UseGuards(DeviceJwtAuthGuard)
TokenRoutes == {"receiveTelemetry"}
\* @UseGuards(LocalAuthGuard)
LocalRoutes == {"login"}
OpenRoutes ==
    {"register", "challenge", "verify", "findAll", "createUser",
     "issue", "fetchAll", "getMeta", "thumbnail"}

Route == CertRoutes \cup UserRoutes \cup TokenRoutes \cup LocalRoutes \cup OpenRoutes

\* Routes with a DTO that has validators, or with a ParseUUIDPipe.
PipedRoutes ==
    {"createDevice", "create", "login", "register", "createUser",
     "deleteDevice", "getMeta", "thumbnail", "remove"}

\* Handlers that do no more than return the user, or call a service which
\* another module is about.
PlainRoutes == LocalRoutes \cup {"getMe", "getProfile"} \cup (OpenRoutes \ {"issue"})

\* The fields of the request that a handler reads a property of.
Needs(r) ==
    CASE r \in CertRoutes -> {"device", "mtls"}
      [] r \in {"findMyDevices", "createDevice", "deleteDevice",
                "createMotionReport", "getLastReports", "receiveTelemetry"} -> {"user"}
      [] OTHER -> {}

-----------------------------------------------------------------------------

\* The serial in the headers of the proxy (with a subject, or it is not seen);
\* who the bearer token is of; the id in the path; does the rest fit its types?
\* A request has no more than its route looks at.
Request ==
    {s \in [route : Route, serial : Serials \cup {Undefined},
            bearer : Users \cup Devices \cup {Undefined},
            id : Devices \cup ReportIds \cup {Undefined}, fits : BOOLEAN, file : BOOLEAN] :
        /\ s.serial # Undefined => s.route \in CertRoutes
        /\ s.bearer # Undefined => s.route \in UserRoutes \cup TokenRoutes \cup LocalRoutes
        /\ s.id # Undefined <=> s.route \in {"deleteDevice", "createMotionReport", "remove"}
        /\ s.fits \/ s.route \in PipedRoutes \cup {"issue"}
        /\ s.file => s.route = "create"}

\* Mutant of UserFields: the subject too, as the handlers expect.
UserFieldsAndSub(u) == [f \in {"id", "sub"} |-> u]

\* What JwtStrategy.validate returns (but username and roles) ...
UserFields(u) == [f \in {"id"} |-> u]
\* ... and DeviceJwtStrategy.validate (but aud and certSerial).
DeviceFields(d) == [f \in {"deviceId"} |-> d]

UserObject == {UserFields(u) : u \in Users} \cup {DeviceFields(d) : d \in Devices}

ASSUME RoutesAssumption ==
    /\ Undefined \notin Users \cup Devices \cup Serials \cup ReportIds \cup UserObject
    /\ Users \cap Devices = {}

Fresh == [mtls |-> Undefined, user |-> Undefined, device |-> Undefined]

\* object?.field
Field(o, f) == IF o # Undefined /\ f \in DOMAIN o THEN o[f] ELSE Undefined

Answers == {"none", "ok", "empty", "unauthorized", "forbidden", "notFound",
            "badRequest", "unavailable", "error", "TypeError"}

TypeOK ==
    /\ sent \in Request
    /\ stage \in {"middleware", "guard", "interceptor", "pipe", "handler", "answered"}
    /\ req \in [mtls : Serials \cup {Undefined}, user : UserObject \cup {Undefined},
                device : Devices \cup {Undefined}]
    /\ answer \in Answers
    /\ certs \in [Serials -> Devices \cup {Undefined}]
    /\ active \subseteq Devices
    /\ owner \in [DOMAIN owner -> Users] /\ DOMAIN owner \subseteq Devices
    /\ reports \in [DOMAIN reports -> Users] /\ DOMAIN reports \subseteq ReportIds
    /\ copies \subseteq Users \cup Devices \cup {Undefined}

\* The first request comes to a server whose devices are there already.
Init ==
    /\ sent \in Request
    /\ stage = "middleware"
    /\ req = Fresh
    /\ answer = "none"
    /\ certs \in [Serials -> Devices \cup {Undefined}]
    /\ active \in SUBSET Devices
    /\ owner \in [Devices -> Users]
    /\ reports = Empty
    /\ copies = {}

store == <<certs, active, owner, reports, copies>>

Pass(from, to) == stage = from /\ stage' = to /\ UNCHANGED <<sent, answer>>
Answer(a) == stage' = "answered" /\ answer' = a /\ UNCHANGED <<sent, req>>
Refuse(a) == Answer(a) /\ UNCHANGED store

-----------------------------------------------------------------------------
\* The stages before the handler.

Arrive ==
    /\ stage = "answered"
    /\ stage' = "middleware"
    /\ sent' \in Request
    /\ req' = Fresh
    /\ answer' = "none"
    /\ UNCHANGED store

\* Mutant of Middleware: multer as a middleware, ahead of the guard.
MiddlewareStores ==
    /\ Pass("middleware", "guard")
    /\ req' = IF sent.route \in DeviceController THEN [req EXCEPT !.mtls = sent.serial] ELSE req
    /\ copies' = IF sent.route = "create" /\ sent.file THEN copies \cup {sent.bearer} ELSE copies
    /\ UNCHANGED <<certs, active, owner, reports>>

\* ClientCertMiddleware, for the routes of DeviceController.
Middleware ==
    /\ Pass("middleware", "guard")
    /\ req' = IF sent.route \in DeviceController THEN [req EXCEPT !.mtls = sent.serial] ELSE req
    /\ UNCHANGED store

\* Mutant of CertFound: no look at the serial; TypeORM takes undefined for
\* no condition and finds any certificate.
AnyCertFound(serial) ==
    IF serial # Undefined THEN {certs[serial]} \ {Undefined}
                          ELSE {certs[s] : s \in Serials} \ {Undefined}

\* DeviceService.findByCertSerial, where a serial was sent.
CertFound(serial) == IF serial # Undefined THEN {certs[serial]} \ {Undefined} ELSE {}

\* DeviceCertGuard; touchDevice changes only updatedAt.
CertGuard ==
    /\ sent.route \in CertRoutes
    /\ \/ stage = "guard" /\ CertFound(req.mtls) = {} /\ Refuse("unauthorized")
       \/ \E d \in CertFound(req.mtls) :
            \/ stage = "guard" /\ d \notin active /\ Refuse("forbidden")
            \/ /\ d \in active
               /\ Pass("guard", "interceptor")
               /\ req' = [req EXCEPT !.device = d]
               /\ UNCHANGED store

\* The passport guards: `found` is the one whose token or password it was.
PassportGuard(routes, found, object) ==
    /\ sent.route \in routes
    /\ \/ stage = "guard" /\ ~found /\ Refuse("unauthorized")
       \/ /\ found
          /\ Pass("guard", "interceptor")
          /\ req' = [req EXCEPT !.user = object]
          /\ UNCHANGED store

Guard ==
    \/ CertGuard
    \/ PassportGuard(UserRoutes, sent.bearer \in Users, UserFields(sent.bearer))
    \/ PassportGuard(TokenRoutes, sent.bearer \in Devices, DeviceFields(sent.bearer))
    \* The user who logs in, in place of a bearer.
    \/ PassportGuard(LocalRoutes, sent.bearer \in Users, UserFields(sent.bearer))
    \/ sent.route \in OpenRoutes /\ Pass("guard", "interceptor") /\ UNCHANGED <<req, store>>

\* FileInterceptor stores the file of an upload, before the pipes look at the
\* rest of it, unless its type or size is refused.
Interceptor ==
    \/ /\ Pass("interceptor", "pipe")
       /\ copies' = IF sent.route = "create" /\ sent.file THEN copies \cup {sent.bearer} ELSE copies
       /\ UNCHANGED <<req, certs, active, owner, reports>>
    \/ /\ stage = "interceptor"
       /\ sent.route = "create" /\ sent.file
       /\ Refuse("badRequest")

\* DeviceIssueDto has no validators, so whitelist and forbidNonWhitelisted
\* refuse each of its fields; without any, the handler does.
Accepted == sent.route = "issue" => ~sent.fits

Pipe ==
    \/ /\ sent.route \in PipedRoutes => sent.fits
       /\ Accepted
       /\ Pass("pipe", "handler")
       /\ UNCHANGED <<req, store>>
    \/ /\ stage = "pipe"
       /\ (sent.route \in PipedRoutes /\ ~sent.fits) \/ ~Accepted
       /\ Refuse("badRequest")

-----------------------------------------------------------------------------
\* The handlers.

Sub == Field(req.user, "sub")

\* Mutant of Uploader: the field that the other handlers read.
UploaderSub == Sub

\* Mutant of Requester: likewise.
RequesterSub == Sub

\* user?.id, in create and in remove.
Uploader == Field(req.user, "id")
Requester == Field(req.user, "id")

Handles(routes) == stage = "handler" /\ sent.route \in routes

\* A property of undefined is read.
Throws == \E f \in Needs(sent.route) : req[f] = Undefined

Reply(a) == Refuse(IF Throws THEN "TypeError" ELSE a)

Plain == Handles(PlainRoutes) /\ \E a \in {"ok", "error", "badRequest"} : Refuse(a)

Ping == Handles({"ping"}) /\ Reply("ok")

\* Signing may fail, and the device may have gone.
MintToken ==
    /\ Handles({"token", "deviceToken"})
    /\ \E a \in {"ok", "unauthorized", "error"} : Reply(a)

Issue == Handles({"issue"}) /\ Refuse("badRequest")

\* Lists by ownerId, and telemetry: a subject that is undefined has nothing,
\* and is nobody.
ForSubject ==
    /\ Handles({"findMyDevices", "getLastReports", "receiveTelemetry"})
    /\ Reply(IF Sub = Undefined THEN "empty" ELSE "ok")

\* TypeORM refuses an UPDATE without a criterion, as of an undefined user;
\* past it, the INSERT would lack two columns that are NOT NULL.
CreateDevice == Handles({"createDevice"}) /\ Reply("error")

DeleteDevice ==
    /\ Handles({"deleteDevice"})
    /\ \/ sent.id \notin DOMAIN owner /\ Reply("notFound")
       \/ sent.id \in DOMAIN owner /\ owner[sent.id] # Sub /\ Reply("forbidden")
       \/ /\ sent.id \in DOMAIN owner /\ owner[sent.id] = Sub
          /\ Answer("ok")
          /\ owner' = Drop(owner, {sent.id})
          /\ UNCHANGED <<certs, active, reports, copies>>

\* All failures inside the try, also of the type, of the id and of the SMS,
\* are "unavailable".
CreateMotionReport ==
    /\ Handles({"createMotionReport"})
    /\ \/ Reply("unavailable")
       \/ /\ sent.id \in DOMAIN owner /\ owner[sent.id] = Sub
          /\ \/ Reply("error")
             \/ \E i \in ReportIds \ DOMAIN reports :
                  /\ reports' = Put(reports, i, Sub)
                  /\ Answer("ok")
                  /\ UNCHANGED <<certs, active, owner, copies>>

\* Reading or writing the file, or the INSERT, may fail.
Create ==
    /\ Handles({"create"})
    /\ \/ ~sent.file /\ Refuse("badRequest")
       \/ sent.file /\ Refuse("error")
       \/ /\ sent.file
          /\ \E i \in ReportIds \ DOMAIN reports : reports' = Put(reports, i, Uploader)
          /\ Answer("ok")
          /\ UNCHANGED <<certs, active, owner, copies>>

Remove ==
    /\ Handles({"remove"})
    /\ \/ sent.id \notin DOMAIN reports /\ Refuse("notFound")
       \/ /\ sent.id \in DOMAIN reports
          /\ reports[sent.id] # Undefined /\ Requester # Undefined /\ reports[sent.id] # Requester
          /\ Refuse("badRequest")
       \/ /\ sent.id \in DOMAIN reports
          /\ Undefined \in {reports[sent.id], Requester} \/ reports[sent.id] = Requester
          /\ Answer("ok")
          /\ reports' = Drop(reports, {sent.id})
          /\ UNCHANGED <<certs, active, owner, copies>>

-----------------------------------------------------------------------------

\* An enrollment registers a certificate ...
Enrolled ==
    /\ \E s \in Serials, d \in Devices :
         certs[s] = Undefined /\ d \in DOMAIN owner /\ certs' = [certs EXCEPT ![s] = d]
    /\ UNCHANGED <<sent, stage, req, answer, active, owner, reports, copies>>

\* ... and an operator sets a status, while the request is under way.
SetStatus ==
    /\ active' \in SUBSET Devices
    /\ UNCHANGED <<sent, stage, req, answer, certs, owner, reports, copies>>

Handler ==
    \/ Plain \/ Ping \/ MintToken \/ Issue \/ ForSubject
    \/ CreateDevice \/ DeleteDevice \/ CreateMotionReport \/ Create \/ Remove

Next == Arrive \/ Middleware \/ Guard \/ Interceptor \/ Pipe \/ Handler \/ Enrolled \/ SetStatus

Spec == Init /\ [][Next]_vars

-----------------------------------------------------------------------------

(* No handler reads a property of a field that its route's middleware and     *)
(* guard have not set: where DeviceCertGuard lets a request pass, both        *)
(* req.device and req.mtls are there, also on the route outside               *)
(* DeviceController, for which the middleware does not run                    *)
(* (device.controller.ts:33-40, auth.controller.ts:31-34).                    *)
HandlersFindTheirFields == answer # "TypeError"

(* A report appears and disappears only in a request of the user who owns it: *)
(* the owner saved and the requester compared with it are the same field of   *)
(* the user, and set, since ReportsService.remove takes a requester that is   *)
(* undefined for one who may remove anything (reports.controller.ts:127, 163).*)
OwnersOnly ==
    [][\A i \in ReportIds :
         /\ i \in DOMAIN reports /\ i \notin DOMAIN reports' => reports[i] = sent.bearer
         /\ i \notin DOMAIN reports /\ i \in DOMAIN reports' => reports'[i] = sent.bearer]_vars

(* Every file that multer has stored came with the token of a user, whatever  *)
(* became of the upload: the interceptor runs after the guard, though before  *)
(* the pipes (reports.controller.ts:84-112).                                  *)
UploadsHaveABearer == copies \subseteq Users

(* What the routes never do, as they are: POST /auth/device/token,            *)
(* /report/issue, /report/motion and /device and DELETE /device/:id serve     *)
(* nobody; the two lists are empty and telemetry is nobody's; so devices come *)
(* and go through an operator only.  The middleware, the DTO and the subject  *)
(* they rely on are missing (device.module.ts:52, create-report.dto.ts,       *)
(* jwt.strategy.ts:26, device-jwt.strategy.ts:49-53).                         *)
ClosedRoutes ==
    /\ answer = "ok" =>
         sent.route \notin {"deviceToken", "issue", "createMotionReport", "createDevice",
                            "deleteDevice", "findMyDevices", "getLastReports", "receiveTelemetry"}
    /\ DOMAIN owner = Devices
=============================================================================
