------------------------------- MODULE Accounts -------------------------------
(***************************************************************************)
(* User accounts: AuthService and UsersService (src/auth/auth.service.ts,  *)
(* src/users), the local and the JWT strategy.                             *)
(*                                                                         *)
(* An action is one await with the synchronous code up to the next one.    *)
(* Users are never changed or deleted: UsersService.update has no caller.  *)
(***************************************************************************)
EXTENDS FiniteSets, Tables

CONSTANTS
    Names,           \* what clients send as an e-mail address or a username
    Lower,           \* toLowerCase().trim()
    Words,           \* passwords
    Ids,             \* the uuids of the users; bounds their number
    Absent,          \* undefined, as a claim: JSON leaves it out of the token
    Calls            \* slots for the calls in progress

ASSUME LowerAssumption ==
    Lower \in [Names -> Names] /\ \A n \in Names : Lower[Lower[n]] = Lower[n]

ASSUME AbsentAssumption == Absent \notin Names \cup Ids

VARIABLES
    users,           \* table users: id -> row
    tokens,          \* the tokens handed out that have not expired
    call             \* per slot: what a call awaits, with its locals

vars == <<users, tokens, call>>

-----------------------------------------------------------------------------

\* A row; of the password, the word chosen and whether the column has its hash.
Row == [username : Names, email : Names, word : Words, hashed : BOOLEAN]

\* The claims signed by register and by login; history: who they were signed for.
Claims ==
    [username : Names, sub : Ids, holder : Ids] \cup
    [username : {Absent}, sub : {Absent}, holder : Ids]

Awaiting ==
    [at : {"free"}] \cup
    \* register, from its SELECT on
    [at : {"insert"}, email : Names, word : Words] \cup
    \* register, from INSERT on
    [at : {"sign"}, user : Ids] \cup
    \* login, from its SELECT on
    [at : {"compare"}, user : Ids, word : Words]

TypeOK ==
    /\ DOMAIN users \subseteq Ids /\ users \in [DOMAIN users -> Row]
    /\ tokens \subseteq Claims
    /\ call \in [Calls -> Awaiting]

Init ==
    /\ users = Empty
    /\ tokens = {}
    /\ call = [c \in Calls |-> [at |-> "free"]]

Goto(c, k) == call' = [call EXCEPT ![c] = k]
Ends(c) == Goto(c, [at |-> "free"])

-----------------------------------------------------------------------------

\* Mutant of NewUser: without the hook normalizeFields.
NewUserAsSent(username, email, word, hashed) ==
    [username |-> username, email |-> email, word |-> word, hashed |-> hashed]

\* The entity that UsersService.create saves, after its BeforeInsert hook.
NewUser(username, email, word, hashed) ==
    [username |-> username, email |-> Lower[email], word |-> word, hashed |-> hashed]

\* Mutant of Insertable: username is indexed, not unique.
InsertableByEmail(u) == \A i \in DOMAIN users : users[i].email # u.email

\* The unique columns username and email.
Insertable(u) ==
    \A i \in DOMAIN users : users[i].username # u.username /\ users[i].email # u.email

\* Mutant of ClaimsFor: sub is the name, as username is.
ClaimsByName(i) == [username |-> users[i].email, sub |-> users[i].username, holder |-> i]

\* register signs the user it has saved, calling the e-mail its username.
ClaimsFor(i) == [username |-> users[i].email, sub |-> i, holder |-> i]

\* login signs the body it was sent, which has neither an email nor an id.
ClaimsOfBody(i) == [username |-> Absent, sub |-> Absent, holder |-> i]

\* Mutant of Resolved: names are compared in lower case.
ResolvedInLower(t) ==
    {i \in DOMAIN users : t.username \in {Absent, Lower[users[i].username]}}

\* JwtStrategy.validate: the users a token may resolve to, none for a 401.  Of a
\* condition that is undefined TypeORM makes none: the first row found will do.
Resolved(t) == {i \in DOMAIN users : t.username \in {Absent, users[i].username}}

\* AuthService.register: findByEmail compares the address as it was sent; a
\* taken one is answered 409, otherwise the password is hashed ...
Register(c, n, w) ==
    /\ call[c].at = "free"
    /\ \A i \in DOMAIN users : users[i].email # n
    /\ Goto(c, [at |-> "insert", email |-> n, word |-> w])
    /\ UNCHANGED <<users, tokens>>

\* ... and the user saved under the address as username; a violated unique
\* column is answered 500 ...
Insert(c) ==
    LET u == NewUser(call[c].email, call[c].email, call[c].word, TRUE) IN
    /\ call[c].at = "insert"
    /\ \/ \E i \in Ids \ DOMAIN users :
             /\ Insertable(u)
             /\ users' = Put(users, i, u)
             /\ Goto(c, [at |-> "sign", user |-> i])
       \/ ~Insertable(u) /\ Ends(c) /\ UNCHANGED users
    /\ UNCHANGED tokens

\* ... and a token signed.
Sign(c) ==
    /\ call[c].at = "sign"
    /\ tokens' = tokens \cup {ClaimsFor(call[c].user)}
    /\ Ends(c)
    /\ UNCHANGED users

\* UsersController.create, POST /user: the password is saved as it was sent.
CreateUser(i, username, email, w) ==
    LET u == NewUser(username, email, w, FALSE) IN
    /\ i \notin DOMAIN users
    /\ Insertable(u)
    /\ users' = Put(users, i, u)
    /\ UNCHANGED <<tokens, call>>

\* LocalStrategy, validateUser: the user of that name, with the password ...
Login(c, n, w) ==
    /\ call[c].at = "free"
    /\ \E i \in DOMAIN users :
          users[i].username = n /\ Goto(c, [at |-> "compare", user |-> i, word |-> w])
    /\ UNCHANGED <<users, tokens>>

\* bcrypt.compare: false when the column holds no hash.
Matches(i, w) == users[i].hashed /\ users[i].word = w

\* ... bcrypt.compare, and AuthController.login signs, its body and not the user.
Compare(c) ==
    /\ call[c].at = "compare"
    /\ IF Matches(call[c].user, call[c].word)
         THEN tokens' = tokens \cup {ClaimsOfBody(call[c].user)}
         ELSE UNCHANGED tokens
    /\ Ends(c)
    /\ UNCHANGED users

\* bcrypt or the database rejects, or the process dies under the call; or the
\* reply of the INSERT is lost.
Fail(c) ==
    /\ call[c].at # "free"
    /\ Ends(c)
    /\ UNCHANGED <<users, tokens>>

\* expiresIn of JwtModule.
Expire(t) ==
    /\ t \in tokens
    /\ tokens' = tokens \ {t}
    /\ UNCHANGED <<users, call>>

Next ==
    \/ \E c \in Calls :
          \/ \E n \in Names, w \in Words : Register(c, n, w) \/ Login(c, n, w)
          \/ Insert(c) \/ Sign(c) \/ Compare(c) \/ Fail(c)
    \/ \E i \in Ids, n, m \in Names, w \in Words : CreateUser(i, n, m, w)
    \/ \E t \in Claims : Expire(t)

Spec == Init /\ [][Next]_vars

-----------------------------------------------------------------------------

(* Two accounts never share an address, however it is written: register      *)
(* compares addresses as sent, and two registrations may pass that check      *)
(* together, but the hook (user.entity.ts:59-66) and the unique column decide *)
(* at INSERT.                                                                 *)
OneAccountPerAddress ==
    \A i, j \in DOMAIN users :
        Lower[users[i].email] = Lower[users[j].email] => i = j

(* The token of a registration that resolves to its user does so for as long  *)
(* as it lasts, whatever accounts are added meanwhile (jwt.strategy.ts:23): it *)
(* carries the e-mail and is resolved by username, another column with other   *)
(* contents.                                                                   *)
ResolutionIsStable ==
    [][\A t \in tokens \cap tokens' :
          t.username # Absent /\ Resolved(t) = {t.holder} => Resolved(t)' = {t.holder}]_vars

(* The accounts implement AccountsContract: each is opened once, under an      *)
(* address no other has whichever two registrations raced past findByEmail,    *)
(* and a registration whose token resolves to its user (jwt.strategy.ts:23)    *)
(* loses it by expiry only, whoever comes later.                               *)
Addressed == [i \in DOMAIN users |-> users[i].email]

Granted ==
    {t.holder : t \in {s \in tokens : s.username # Absent /\ Resolved(s) = {s.holder}}}

Contract == INSTANCE AccountsContract WITH
    Accounts <- Ids, Addresses <- Names, Normal <- Lower,
    address <- Addressed, granted <- Granted

ImplementsContract == Contract!Spec

(* A token is signed for a registered user, and that of a registration        *)
(* resolves to it if it registered in lower case (auth.service.ts:61;         *)
(* jwt.strategy.ts:23).                                                       *)
TokensOfRegulars ==
    \A t \in tokens :
        /\ t.holder \in DOMAIN users
        /\ t.username # Absent /\ users[t.holder].username = users[t.holder].email
              => Resolved(t) = {t.holder}

\* The inductive invariant behind these: the stored columns are unique and an
\* e-mail in lower case, and what is or will be signed is for a user that
\* has registered.
ColumnsUnique ==
    \A i \in DOMAIN users :
        /\ Lower[users[i].email] = users[i].email
        /\ \A j \in DOMAIN users \ {i} :
              users[i].email # users[j].email /\ users[i].username # users[j].username

ClaimsOfRegistered ==
    /\ \A t \in tokens :
          /\ t.holder \in DOMAIN users
          /\ users[t.holder].hashed
          /\ t \in {ClaimsFor(t.holder), ClaimsOfBody(t.holder)}
    /\ \A c \in Calls :
          /\ call[c].at \in {"sign", "compare"} => call[c].user \in DOMAIN users
          /\ call[c].at = "sign" => users[call[c].user].hashed

IInv == TypeOK /\ ColumnsUnique /\ ClaimsOfRegistered

(* auth.controller.ts:41 has /auth/me return the user of the token, "assuming *)
(* Passport puts the user on the request": the token of a login resolves to   *)
(* the user who logged in.                                                    *)
LoginsResolve ==
    \A t \in tokens : t.username = Absent => Resolved(t) = {t.holder}

\* There is at most one account.
OneAccount == \A i, j \in DOMAIN users : i = j
=============================================================================
