----------------------------- MODULE RoutesProofs -----------------------------
(***************************************************************************)
(* Theorems about Routes: what a handler may rely on is what the stages    *)
(* before it have established, and survives what happens meanwhile.        *)
(***************************************************************************)
EXTENDS Routes, TLAPS

\* Only the middleware of DeviceController sets req.mtls ...
MtlsOfController == req.mtls # Undefined => sent.route \in DeviceController

\* ... and past the guard the request has what the guard looked at.
PastGuard ==
    stage \in {"interceptor", "pipe", "handler"} =>
        /\ sent.route \in CertRoutes => req.mtls # Undefined /\ req.device # Undefined
        /\ sent.route \in UserRoutes => sent.bearer \in Users /\ req.user = UserFields(sent.bearer)
        /\ sent.route \in TokenRoutes => sent.bearer \in Devices /\ req.user = DeviceFields(sent.bearer)

IInv ==
    /\ TypeOK
    /\ MtlsOfController
    /\ PastGuard
    /\ HandlersFindTheirFields
    /\ UploadsHaveABearer
    /\ ClosedRoutes

\* The routes that need a field of the request have the guard that sets it.
LEMMA NeedsGuarded ==
    ASSUME NEW r
    PROVE  /\ Needs(r) # {} => r \in CertRoutes \cup UserRoutes \cup TokenRoutes
           /\ r \in CertRoutes => Needs(r) = {"device", "mtls"}
           /\ r \notin CertRoutes => Needs(r) \subseteq {"user"}
BY DEF Needs, CertRoutes, UserRoutes, TokenRoutes

\* What the fields of a user object are.
LEMMA Fields ==
    ASSUME NEW u
    PROVE  /\ u \in Users => /\ UserFields(u) # Undefined
                             /\ Field(UserFields(u), "id") = u
                             /\ Field(UserFields(u), "sub") = Undefined
           /\ u \in Devices => /\ DeviceFields(u) # Undefined
                               /\ Field(DeviceFields(u), "sub") = Undefined
BY RoutesAssumption DEF Field, UserFields, DeviceFields, UserObject

\* No user has a subject.
LEMMA NoSubject ==
    ASSUME PastGuard, stage = "handler", sent.route \in UserRoutes \cup TokenRoutes
    PROVE  Sub = Undefined /\ req.user # Undefined
BY Fields DEF PastGuard, Sub

LEMMA InitIInv == Init => IInv
<1> SUFFICES ASSUME Init PROVE IInv
    OBVIOUS
<1>1. TypeOK
    BY DEF Init, TypeOK, Fresh, Empty, Answers
<1>2. MtlsOfController /\ PastGuard /\ HandlersFindTheirFields /\ UploadsHaveABearer /\ ClosedRoutes
    BY DEF Init, MtlsOfController, PastGuard, HandlersFindTheirFields, UploadsHaveABearer,
           ClosedRoutes, Fresh
<1> QED BY <1>1, <1>2 DEF IInv

\* An answer that changes nothing else, and no answer of a closed route.
LEMMA RefuseIInv ==
    ASSUME IInv, NEW a \in Answers \ {"TypeError"}, Refuse(a),
           a # "ok" \/ sent.route \notin {"deviceToken", "issue", "createMotionReport", "createDevice",
                            "deleteDevice", "findMyDevices", "getLastReports", "receiveTelemetry"}
    PROVE  IInv'
BY DEF IInv, TypeOK, MtlsOfController, PastGuard, HandlersFindTheirFields, UploadsHaveABearer,
       ClosedRoutes, Refuse, Answer, store

LEMMA PassIInv ==
    ASSUME IInv, Arrive \/ Middleware \/ Guard \/ Interceptor \/ Pipe
    PROVE  IInv'
<1>1. CASE Arrive
    BY <1>1, RoutesAssumption DEF Arrive, IInv, TypeOK, MtlsOfController, PastGuard, HandlersFindTheirFields,
       UploadsHaveABearer, ClosedRoutes, store, Fresh, Answers
<1>2. CASE Middleware
    <2>1. sent'.route = sent.route /\ sent.serial \in Serials \cup {Undefined}
        BY <1>2 DEF Middleware, Pass, IInv, TypeOK, Request
    <2> QED BY <1>2, <2>1 DEF Middleware, Pass, IInv, TypeOK, MtlsOfController, PastGuard,
            HandlersFindTheirFields, UploadsHaveABearer, ClosedRoutes, store
<1>3. CASE Guard
    <2>1. CASE CertGuard
        <3>1. CASE Refuse("unauthorized") \/ Refuse("forbidden")
            BY <3>1, RefuseIInv DEF Answers
        <3>2. ASSUME NEW d \in CertFound(req.mtls), Pass("guard", "interceptor"),
                     sent.route \in CertRoutes,
                     req' = [req EXCEPT !.device = d], UNCHANGED store
              PROVE  IInv'
            <4>1. req.mtls # Undefined /\ d \in Devices /\ d # Undefined
                BY <3>2, RoutesAssumption DEF CertFound, IInv, TypeOK
            <4>2. sent.route \notin UserRoutes \cup TokenRoutes
                BY <3>2 DEF CertRoutes, UserRoutes, TokenRoutes
            <4> QED BY <3>2, <4>1, <4>2 DEF Pass, IInv, TypeOK, MtlsOfController, PastGuard,
                    HandlersFindTheirFields, UploadsHaveABearer, ClosedRoutes, store
        <3> QED BY <2>1, <3>1, <3>2 DEF CertGuard
    <2>2. ASSUME NEW object, Pass("guard", "interceptor"),
                 req' = [req EXCEPT !.user = object],
                 UNCHANGED store,
                 \/ /\ sent.route \in UserRoutes \cup LocalRoutes
                    /\ sent.bearer \in Users /\ object = UserFields(sent.bearer)
                 \/ /\ sent.route \in TokenRoutes
                    /\ sent.bearer \in Devices /\ object = DeviceFields(sent.bearer)
          PROVE  IInv'
        <3>1. object \in UserObject
            BY <2>2 DEF UserObject
        <3>2. /\ sent.route \notin CertRoutes
              /\ sent.route \in UserRoutes \cup LocalRoutes => sent.route \notin TokenRoutes
            BY <2>2 DEF CertRoutes, UserRoutes, TokenRoutes, LocalRoutes
        <3> QED BY <2>2, <3>1, <3>2 DEF Pass, IInv, TypeOK, MtlsOfController, PastGuard,
                HandlersFindTheirFields, UploadsHaveABearer, ClosedRoutes, store
    <2>3. CASE sent.route \in OpenRoutes /\ Pass("guard", "interceptor") /\ UNCHANGED <<req, store>>
        <3>1. sent.route \notin CertRoutes \cup UserRoutes \cup TokenRoutes
            BY <2>3 DEF OpenRoutes, CertRoutes, UserRoutes, TokenRoutes
        <3> QED BY <2>3, <3>1 DEF Pass, IInv, TypeOK, MtlsOfController, PastGuard,
                HandlersFindTheirFields, UploadsHaveABearer, ClosedRoutes, store
    <2>4. CASE Refuse("unauthorized")
        BY <2>4, RefuseIInv DEF Answers
    <2>5. CASE PassportGuard(UserRoutes, sent.bearer \in Users, UserFields(sent.bearer))
        BY <2>2, <2>4, <2>5 DEF PassportGuard
    <2>6. CASE PassportGuard(TokenRoutes, sent.bearer \in Devices, DeviceFields(sent.bearer))
        BY <2>2, <2>4, <2>6 DEF PassportGuard
    <2>7. CASE PassportGuard(LocalRoutes, sent.bearer \in Users, UserFields(sent.bearer))
        BY <2>2, <2>4, <2>7 DEF PassportGuard
    <2> QED BY <1>3, <2>1, <2>3, <2>5, <2>6, <2>7 DEF Guard
<1>4. CASE Interceptor
    <2>1. CASE Refuse("badRequest")
        BY <2>1, RefuseIInv DEF Answers
    <2>2. CASE /\ Pass("interceptor", "pipe")
               /\ copies' = IF sent.route = "create" /\ sent.file THEN copies \cup {sent.bearer} ELSE copies
               /\ UNCHANGED <<req, certs, active, owner, reports>>
        <3>1. sent.route = "create" => sent.bearer \in Users
            BY <2>2 DEF IInv, PastGuard, UserRoutes, Pass
        <3> QED BY <2>2, <3>1 DEF Pass, IInv, TypeOK, MtlsOfController, PastGuard,
                HandlersFindTheirFields, UploadsHaveABearer, ClosedRoutes, store
    <2> QED BY <1>4, <2>1, <2>2 DEF Interceptor
<1>5. CASE Pipe
    <2>1. CASE Refuse("badRequest")
        BY <2>1, RefuseIInv DEF Answers
    <2>2. CASE Pass("pipe", "handler") /\ UNCHANGED <<req, store>>
        BY <2>2 DEF Pass, IInv, TypeOK, MtlsOfController, PastGuard,
           HandlersFindTheirFields, UploadsHaveABearer, ClosedRoutes, store
    <2> QED BY <1>5, <2>1, <2>2 DEF Pipe
<1> QED BY <1>1, <1>2, <1>3, <1>4, <1>5

\* What a handler that runs may do to the reports, and that it does no more.
LEMMA CreateStep ==
    ASSUME IInv, Create
    PROVE  IInv' /\ (reports' = reports \/ \E i \in ReportIds : reports' = Put(reports, i, sent.bearer))
<1>1. CASE Refuse("badRequest") \/ Refuse("error")
    BY <1>1, RefuseIInv DEF Answers, Refuse, store
<1>2. CASE /\ \E i \in ReportIds \ DOMAIN reports : reports' = Put(reports, i, Uploader)
           /\ Answer("ok")
           /\ UNCHANGED <<certs, active, owner, copies>>
    <2>1. stage = "handler" /\ sent.route = "create"
        BY DEF Create, Handles
    <2>2. sent.bearer \in Users /\ Uploader = sent.bearer
        BY <2>1, Fields DEF IInv, PastGuard, UserRoutes, Uploader
    <2>3. PICK i \in ReportIds : reports' = Put(reports, i, sent.bearer)
        BY <1>2, <2>2
    <2>4. /\ reports' \in [DOMAIN reports' -> Users]
          /\ DOMAIN reports' \subseteq ReportIds
        BY <2>2, <2>3 DEF Put, IInv, TypeOK
    <2> QED BY <1>2, <2>1, <2>3, <2>4 DEF Answer, Answers, IInv, TypeOK, MtlsOfController, PastGuard,
            HandlersFindTheirFields, UploadsHaveABearer, ClosedRoutes
<1> QED BY <1>1, <1>2 DEF Create

LEMMA RemoveStep ==
    ASSUME IInv, Remove
    PROVE  /\ IInv'
           /\ \/ reports' = reports
              \/ \E i \in DOMAIN reports : reports' = Drop(reports, {i}) /\ reports[i] = sent.bearer
<1>1. CASE Refuse("notFound") \/ Refuse("badRequest")
    BY <1>1, RefuseIInv DEF Answers, Refuse, store
<1>2. CASE /\ sent.id \in DOMAIN reports
           /\ Undefined \in {reports[sent.id], Requester} \/ reports[sent.id] = Requester
           /\ Answer("ok")
           /\ reports' = Drop(reports, {sent.id})
           /\ UNCHANGED <<certs, active, owner, copies>>
    <2>1. stage = "handler" /\ sent.route = "remove"
        BY DEF Remove, Handles
    <2>2. sent.bearer \in Users /\ Requester = sent.bearer
        BY <2>1, Fields DEF IInv, PastGuard, UserRoutes, Requester
    <2>3. reports[sent.id] = sent.bearer
        BY <1>2, <2>2, RoutesAssumption DEF IInv, TypeOK
    <2>4. /\ reports' \in [DOMAIN reports' -> Users]
          /\ DOMAIN reports' \subseteq ReportIds
        BY <1>2 DEF Drop, IInv, TypeOK
    <2> QED BY <1>2, <2>1, <2>3, <2>4 DEF Answer, Answers, IInv, TypeOK, MtlsOfController, PastGuard,
            HandlersFindTheirFields, UploadsHaveABearer, ClosedRoutes
<1> QED BY <1>1, <1>2 DEF Remove

LEMMA HandlerStep ==
    ASSUME IInv, Handler
    PROVE  IInv' /\ (reports' = reports \/ Create \/ Remove)
<1> USE DEF Answers
<1>0. stage = "handler"
    BY DEF Handler, Plain, Ping, MintToken, Issue, ForSubject, CreateDevice, DeleteDevice,
           CreateMotionReport, Create, Remove, Handles
<1>1. ~Throws
    BY <1>0, NeedsGuarded, Fields, RoutesAssumption DEF Throws, IInv, PastGuard
<1>2. CASE Plain \/ Ping \/ Issue \/ CreateDevice
    BY <1>1, <1>2, RefuseIInv DEF Plain, Ping, Issue, CreateDevice, Handles, Reply, Refuse, store,
       PlainRoutes, LocalRoutes, OpenRoutes
<1>3. CASE MintToken
    <2>1. sent.route # "deviceToken"
        BY <1>0, <1>3 DEF MintToken, Handles, CertRoutes, IInv, PastGuard, MtlsOfController, DeviceController
    <2>2. sent.route = "token"
        BY <1>3, <2>1 DEF MintToken, Handles
    <2> QED BY <1>1, <1>3, <2>2, RefuseIInv DEF MintToken, Reply, Refuse, store
<1>4. CASE ForSubject
    <2>1. Sub = Undefined
        BY <1>0, <1>4, NoSubject DEF ForSubject, Handles, IInv, UserRoutes, TokenRoutes
    <2> QED BY <1>1, <1>4, <2>1, RefuseIInv DEF ForSubject, Reply, Refuse, store
<1>5. CASE DeleteDevice
    <2>1. Sub = Undefined
        BY <1>0, <1>5, NoSubject DEF DeleteDevice, Handles, IInv, UserRoutes
    <2>2. Refuse("notFound") \/ Refuse("forbidden")
        BY <1>1, <1>5, <2>1, RoutesAssumption DEF DeleteDevice, Reply, IInv, TypeOK
    <2> QED BY <2>2, RefuseIInv DEF Refuse, store
<1>6. CASE CreateMotionReport
    <2>1. Sub = Undefined
        BY <1>0, <1>6, NoSubject DEF CreateMotionReport, Handles, IInv, UserRoutes
    <2>2. Refuse("unavailable")
        BY <1>1, <1>6, <2>1, RoutesAssumption DEF CreateMotionReport, Reply, IInv, TypeOK
    <2> QED BY <2>2, RefuseIInv DEF Refuse, store
<1>7. CASE Create
    BY <1>7, CreateStep
<1>8. CASE Remove
    BY <1>8, RemoveStep
<1> QED BY <1>2, <1>3, <1>4, <1>5, <1>6, <1>7, <1>8 DEF Handler

LEMMA OthersIInv ==
    ASSUME IInv, Enrolled \/ SetStatus \/ UNCHANGED vars
    PROVE  IInv'
BY DEF IInv, TypeOK, MtlsOfController, PastGuard, HandlersFindTheirFields, UploadsHaveABearer,
       ClosedRoutes, Enrolled, SetStatus, vars

LEMMA NextIInv == IInv /\ [Next]_vars => IInv'
BY PassIInv, HandlerStep, OthersIInv DEF Next

LEMMA Inductive == Spec => []IInv
<1> QED BY InitIInv, NextIInv, PTL DEF Spec

(* Every variable keeps its type; above all, no report is stored without an   *)
(* owner (reports.controller.ts:127).                                         *)
THEOREM TypeCorrect == Spec => []TypeOK
<1>1. IInv => TypeOK
    BY DEF IInv
<1> QED BY <1>1, Inductive, PTL

(* What DeviceCertGuard and the passport guards let pass has all the fields   *)
(* that the handlers read (device.controller.ts:33-40,                        *)
(* auth.controller.ts:31-34).                                                 *)
THEOREM FieldsFound == Spec => []HandlersFindTheirFields
<1>1. IInv => HandlersFindTheirFields
    BY DEF IInv
<1> QED BY <1>1, Inductive, PTL

(* multer stores nothing for a request without the token of a user            *)
(* (reports.controller.ts:84-112).                                            *)
THEOREM Bearers == Spec => []UploadsHaveABearer
<1>1. IInv => UploadsHaveABearer
    BY DEF IInv
<1> QED BY <1>1, Inductive, PTL

(* The routes listed in ClosedRoutes never serve, whatever was stored before. *)
THEOREM Closed == Spec => []ClosedRoutes
<1>1. IInv => ClosedRoutes
    BY DEF IInv
<1> QED BY <1>1, Inductive, PTL

(* Reports are added and removed by their owners only                         *)
(* (reports.controller.ts:127, 163).                                          *)
THEOREM Ownership == Spec => OwnersOnly
<1>1. ASSUME IInv, [Next]_vars
      PROVE  [\A i \in ReportIds :
                /\ i \in DOMAIN reports /\ i \notin DOMAIN reports' => reports[i] = sent.bearer
                /\ i \notin DOMAIN reports /\ i \in DOMAIN reports' => reports'[i] = sent.bearer]_vars
    <2>1. CASE Create
        BY <1>1, <2>1, CreateStep DEF Put
    <2>2. CASE Remove
        BY <1>1, <2>2, RemoveStep DEF Drop
    <2>3. CASE reports' = reports
        BY <2>3
    <2>4. reports' = reports \/ Create \/ Remove
        <3>1. CASE Handler
            BY <1>1, <3>1, HandlerStep
        <3>2. CASE Arrive \/ Middleware \/ Interceptor \/ Pipe \/ Enrolled \/ SetStatus \/ UNCHANGED vars
            BY <3>2 DEF Arrive, Middleware, Interceptor, Pipe, Enrolled, SetStatus, vars, store, Refuse
        <3>3. CASE Guard
            BY <3>3 DEF Guard, CertGuard, PassportGuard, store, Refuse
        <3> QED BY <1>1, <3>1, <3>2, <3>3 DEF Next
    <2> QED BY <2>1, <2>2, <2>3, <2>4
<1> QED BY <1>1, Inductive, PTL DEF Spec, OwnersOnly
=============================================================================
