---------------------------- MODULE AccountsProofs ----------------------------
(***************************************************************************)
(* Theorems about Accounts, for any names, users and calls.                *)
(***************************************************************************)
EXTENDS Accounts, TLAPS

LEMMA GotoType ==
    ASSUME TypeOK, NEW c \in Calls, NEW k \in Awaiting, Goto(c, k)
    PROVE  call' \in [Calls -> Awaiting]
BY DEF Goto, TypeOK

(* A step is about one call or about none.                                    *)
LEMMA OthersKept ==
    ASSUME TypeOK, NEW c \in Calls, NEW k, Goto(c, k)
    PROVE  /\ call'[c] = k
           /\ \A d \in Calls \ {c} : call'[d] = call[d]
BY DEF Goto, TypeOK

(* What a call under way knows, by what it awaits.                            *)
LEMMA CallType ==
    ASSUME TypeOK, NEW c \in Calls
    PROVE  /\ call[c].at = "insert" => call[c].email \in Names /\ call[c].word \in Words
           /\ call[c].at \in {"sign", "compare"} => call[c].user \in Ids
<1>1. call[c] \in Awaiting
  BY DEF TypeOK
<1> QED BY <1>1 DEF Awaiting

LEMMA NewUserType ==
    ASSUME NEW n \in Names, NEW m \in Names, NEW w \in Words, NEW h \in BOOLEAN
    PROVE  /\ NewUser(n, m, w, h) \in Row
           /\ NewUser(n, m, w, h).hashed = h
           /\ Lower[NewUser(n, m, w, h).email] = NewUser(n, m, w, h).email
<1>1. Lower[m] \in Names /\ Lower[Lower[m]] = Lower[m]
  BY LowerAssumption
<1> QED BY <1>1 DEF NewUser, Row

(* The user a registration under way would save.                              *)
LEMMA PutType ==
    ASSUME TypeOK, NEW i \in Ids, NEW u \in Row
    PROVE  /\ DOMAIN Put(users, i, u) \subseteq Ids
           /\ Put(users, i, u) \in [DOMAIN Put(users, i, u) -> Row]
BY DEF Put, TypeOK

-----------------------------------------------------------------------------

(* Users are added, never changed.                                            *)
LEMMA UsersKept ==
    ASSUME [Next]_vars
    PROVE  /\ DOMAIN users \subseteq DOMAIN users'
           /\ \A i \in DOMAIN users : users'[i] = users[i]
<1>1. ASSUME NEW i, i \notin DOMAIN users, NEW u, users' = Put(users, i, u)
      PROVE  /\ DOMAIN users \subseteq DOMAIN users'
             /\ \A j \in DOMAIN users : users'[j] = users[j]
  BY <1>1 DEF Put
<1> QED BY <1>1 DEF Next, Register, Insert, Sign, CreateUser, Login, Compare, Fail, Expire, vars

(* Each user added is an insertable row in the next free id.                  *)
LEMMA Added ==
    ASSUME TypeOK, [Next]_vars
    PROVE  \/ UNCHANGED users
           \/ \E i \in Ids \ DOMAIN users, n \in Names, m \in Names, w \in Words, h \in BOOLEAN :
                 /\ Insertable(NewUser(n, m, w, h))
                 /\ users' = Put(users, i, NewUser(n, m, w, h))
<1>1. ASSUME NEW c \in Calls, Insert(c)
      PROVE  \/ UNCHANGED users
             \/ \E i \in Ids \ DOMAIN users, n \in Names, m \in Names, w \in Words, h \in BOOLEAN :
                   /\ Insertable(NewUser(n, m, w, h))
                   /\ users' = Put(users, i, NewUser(n, m, w, h))
  <2>1. call[c].email \in Names /\ call[c].word \in Words
    BY <1>1, CallType DEF Insert
  <2> QED BY <1>1, <2>1 DEF Insert
<1> QED BY <1>1 DEF Next, Register, Sign, CreateUser, Login, Compare, Fail, Expire, vars

-----------------------------------------------------------------------------

LEMMA InitInv == Init => IInv
BY DEF Init, IInv, TypeOK, ColumnsUnique, ClaimsOfRegistered, Empty, Awaiting

LEMMA TypeStep == IInv /\ [Next]_vars => TypeOK'
<1> SUFFICES ASSUME IInv, [Next]_vars PROVE TypeOK'
  OBVIOUS
<1>0. TypeOK /\ ClaimsOfRegistered
  BY DEF IInv
<1>1. DOMAIN users' \subseteq Ids /\ users' \in [DOMAIN users' -> Row]
  <2>1. CASE UNCHANGED users
    BY <1>0, <2>1 DEF TypeOK
  <2>2. ASSUME NEW i \in Ids, NEW n \in Names, NEW m \in Names, NEW w \in Words,
               NEW h \in BOOLEAN, users' = Put(users, i, NewUser(n, m, w, h))
        PROVE  DOMAIN users' \subseteq Ids /\ users' \in [DOMAIN users' -> Row]
    BY <1>0, <2>2, NewUserType, PutType
  <2> QED BY <1>0, <2>1, <2>2, Added
<1>2. tokens' \subseteq Claims
  <2>1. ASSUME NEW c \in Calls, call[c].at \in {"sign", "compare"}
        PROVE  {ClaimsFor(call[c].user), ClaimsOfBody(call[c].user)} \subseteq Claims
    <3>1. call[c].user \in DOMAIN users /\ users[call[c].user] \in Row
      BY <1>0, <2>1 DEF ClaimsOfRegistered, TypeOK
    <3>2. call[c].user \in Ids /\ users[call[c].user].email \in Names
      BY <1>0, <3>1 DEF Row, TypeOK
    <3> QED BY <3>2 DEF ClaimsFor, ClaimsOfBody, Claims
  <2>2. ASSUME NEW c \in Calls, Sign(c) \/ Compare(c) PROVE tokens' \subseteq Claims
    <3>1. call[c].at \in {"sign", "compare"}
      BY <2>2 DEF Sign, Compare
    <3>2. tokens' \subseteq tokens \cup {ClaimsFor(call[c].user), ClaimsOfBody(call[c].user)}
      BY <2>2 DEF Sign, Compare
    <3> QED BY <1>0, <2>1, <3>1, <3>2 DEF TypeOK
  <2>3. CASE tokens' \subseteq tokens
    BY <1>0, <2>3 DEF TypeOK
  <2> QED BY <2>2, <2>3 DEF Next, Register, Insert, CreateUser, Login, Fail, Expire, vars
<1>3. call' \in [Calls -> Awaiting]
  <2>1. CASE UNCHANGED call
    BY <1>0, <2>1 DEF TypeOK
  <2>2. ASSUME NEW c \in Calls, Ends(c) PROVE call' \in [Calls -> Awaiting]
    <3>1. [at |-> "free"] \in Awaiting
      BY DEF Awaiting
    <3> QED BY <1>0, <2>2, <3>1, GotoType DEF Ends
  <2>3. ASSUME NEW c \in Calls, NEW n \in Names, NEW w \in Words, Register(c, n, w)
        PROVE  call' \in [Calls -> Awaiting]
    <3>1. [at |-> "insert", email |-> n, word |-> w] \in Awaiting
      BY DEF Awaiting
    <3> QED BY <1>0, <2>3, <3>1, GotoType DEF Register
  <2>4. ASSUME NEW c \in Calls, NEW n \in Names, NEW w \in Words, Login(c, n, w)
        PROVE  call' \in [Calls -> Awaiting]
    <3>1. PICK i \in DOMAIN users : Goto(c, [at |-> "compare", user |-> i, word |-> w])
      BY <2>4 DEF Login
    <3>2. [at |-> "compare", user |-> i, word |-> w] \in Awaiting
      BY <1>0 DEF Awaiting, TypeOK
    <3> QED BY <1>0, <3>1, <3>2, GotoType
  <2>5. ASSUME NEW c \in Calls, NEW i \in Ids, Goto(c, [at |-> "sign", user |-> i])
        PROVE  call' \in [Calls -> Awaiting]
    <3>1. [at |-> "sign", user |-> i] \in Awaiting
      BY DEF Awaiting
    <3> QED BY <1>0, <2>5, <3>1, GotoType
  <2> QED BY <2>1, <2>2, <2>3, <2>4, <2>5 DEF Next, Insert, Sign, CreateUser, Compare, Fail,
             Expire, vars
<1> QED BY <1>1, <1>2, <1>3 DEF TypeOK

LEMMA ColumnsStep == IInv /\ [Next]_vars => ColumnsUnique'
<1> SUFFICES ASSUME IInv, [Next]_vars PROVE ColumnsUnique'
  OBVIOUS
<1>0. TypeOK /\ ColumnsUnique
  BY DEF IInv
<1>1. CASE UNCHANGED users
  BY <1>0, <1>1 DEF ColumnsUnique
<1>2. ASSUME NEW k \in Ids \ DOMAIN users, NEW n \in Names, NEW m \in Names, NEW w \in Words,
             NEW h \in BOOLEAN, Insertable(NewUser(n, m, w, h)),
             users' = Put(users, k, NewUser(n, m, w, h))
      PROVE  ColumnsUnique'
  <2> DEFINE u == NewUser(n, m, w, h)
  <2>1. Lower[u.email] = u.email
    BY NewUserType
  <2>2. \A i \in DOMAIN users : users[i].username # u.username /\ users[i].email # u.email
    BY <1>2 DEF Insertable
  <2>3. /\ DOMAIN users' = DOMAIN users \cup {k}
        /\ users'[k] = u
        /\ \A i \in DOMAIN users : users'[i] = users[i]
    BY <1>2 DEF Put
  <2> HIDE DEF u
  <2> QED BY <1>0, <2>1, <2>2, <2>3 DEF ColumnsUnique
<1> QED BY <1>0, <1>1, <1>2, Added

LEMMA ClaimsStep == IInv /\ [Next]_vars => ClaimsOfRegistered'
<1> SUFFICES ASSUME IInv, [Next]_vars PROVE ClaimsOfRegistered'
  OBVIOUS
<1>0. TypeOK /\ ClaimsOfRegistered
  BY DEF IInv
<1>1. /\ DOMAIN users \subseteq DOMAIN users'
      /\ \A i \in DOMAIN users : users'[i] = users[i]
  BY UsersKept
<1>2. ASSUME NEW t \in tokens'
      PROVE  /\ t.holder \in DOMAIN users'
             /\ users'[t.holder].hashed
             /\ t \in {ClaimsFor(t.holder)', ClaimsOfBody(t.holder)'}
  <2>0. \A i \in DOMAIN users : /\ ClaimsFor(i)' = ClaimsFor(i)
                                /\ ClaimsOfBody(i)' = ClaimsOfBody(i)
    BY <1>1 DEF ClaimsFor, ClaimsOfBody
  <2>1. CASE t \in tokens
    BY <1>0, <1>1, <2>0, <2>1 DEF ClaimsOfRegistered
  <2>2. ASSUME NEW i \in DOMAIN users, users[i].hashed, t \in {ClaimsFor(i), ClaimsOfBody(i)}
        PROVE  /\ t.holder \in DOMAIN users'
               /\ users'[t.holder].hashed
               /\ t \in {ClaimsFor(t.holder)', ClaimsOfBody(t.holder)'}
    <3>1. t.holder = i
      BY <2>2 DEF ClaimsFor, ClaimsOfBody
    <3> QED BY <1>1, <2>0, <2>2, <3>1
  <2>3. ASSUME NEW c \in Calls, Sign(c), t \notin tokens
        PROVE  /\ t = ClaimsFor(call[c].user)
               /\ call[c].user \in DOMAIN users
               /\ users[call[c].user].hashed
    BY <1>0, <1>2, <2>3 DEF Sign, ClaimsOfRegistered
  <2>4. ASSUME NEW c \in Calls, Compare(c), t \notin tokens
        PROVE  /\ t = ClaimsOfBody(call[c].user)
               /\ call[c].user \in DOMAIN users
               /\ users[call[c].user].hashed
    BY <1>0, <1>2, <2>4 DEF Compare, Matches, ClaimsOfRegistered
  <2>5. CASE tokens' \subseteq tokens
    BY <1>2, <2>1, <2>5
  <2> QED BY <2>1, <2>2, <2>3, <2>4, <2>5 DEF Next, Register, Insert, CreateUser, Login, Fail,
             Expire, vars
<1>3. ASSUME NEW c \in Calls
      PROVE  /\ call'[c].at \in {"sign", "compare"} => call'[c].user \in DOMAIN users'
             /\ call'[c].at = "sign" => users'[call'[c].user].hashed
  <2>1. CASE call'[c] = call[c]
    BY <1>0, <1>1, <2>1 DEF ClaimsOfRegistered
  <2>2. CASE Ends(c)
    BY <1>0, <2>2, OthersKept DEF Ends
  <2>3. ASSUME NEW n \in Names, NEW w \in Words, Register(c, n, w)
        PROVE  call'[c].at = "insert"
    BY <1>0, <2>3, OthersKept DEF Register
  <2>4. ASSUME NEW n \in Names, NEW w \in Words, Login(c, n, w)
        PROVE  call'[c].at = "compare" /\ call'[c].user \in DOMAIN users
    BY <1>0, <2>4, OthersKept DEF Login
  <2>5. ASSUME Insert(c), ~Ends(c)
        PROVE  call'[c].user \in DOMAIN users' /\ users'[call'[c].user].hashed
    <3> DEFINE u == NewUser(call[c].email, call[c].email, call[c].word, TRUE)
    <3>1. PICK i \in Ids \ DOMAIN users :
             users' = Put(users, i, u) /\ Goto(c, [at |-> "sign", user |-> i])
      BY <2>5 DEF Insert
    <3>2. u.hashed
      BY DEF NewUser
    <3> HIDE DEF u
    <3>3. call'[c].user = i
      BY <1>0, <3>1, OthersKept
    <3>4. i \in DOMAIN users' /\ users'[i] = u
      BY <3>1 DEF Put
    <3> QED BY <3>2, <3>3, <3>4
  <2>6. ASSUME NEW d \in Calls \ {c}, NEW k, Goto(d, k) PROVE call'[c] = call[c]
    BY <1>0, <2>6, OthersKept
  <2>7. CASE UNCHANGED call
    BY <2>1, <2>7
  <2>8. ASSUME NEW d \in Calls, d # c,
               \/ \E n \in Names, w \in Words : Register(d, n, w) \/ Login(d, n, w)
               \/ Insert(d) \/ Sign(d) \/ Compare(d) \/ Fail(d)
        PROVE  call'[c] = call[c]
    BY <2>6, <2>8 DEF Register, Login, Insert, Sign, Compare, Fail, Ends
  <2>9. ASSUME Sign(c) \/ Compare(c) \/ Fail(c) PROVE Ends(c)
    BY <2>9 DEF Sign, Compare, Fail
  <2>10. ASSUME UNCHANGED vars \/ (\E t \in Claims : Expire(t))
                  \/ (\E i \in Ids, n, m \in Names, w \in Words : CreateUser(i, n, m, w))
         PROVE  UNCHANGED call
    BY <2>10 DEF vars, Expire, CreateUser
  <2> QED BY <1>1, <2>1, <2>2, <2>3, <2>4, <2>5, <2>7, <2>8, <2>9, <2>10 DEF Next
<1> QED BY <1>2, <1>3 DEF ClaimsOfRegistered

LEMMA Invariance == Spec => []IInv
<1>1. IInv /\ [Next]_vars => IInv'
  BY TypeStep, ColumnsStep, ClaimsStep DEF IInv
<1> QED BY InitInv, <1>1, PTL DEF Spec

-----------------------------------------------------------------------------

(* The users, tokens and locals keep their types.                             *)
THEOREM TypeCorrect == Spec => []TypeOK
<1>1. IInv => TypeOK
  BY DEF IInv
<1> QED BY <1>1, Invariance, PTL

(* No two accounts share an address, however it is written and whatever races *)
(* past the check of register.                                                *)
THEOREM Addresses == Spec => []OneAccountPerAddress
<1>1. IInv => OneAccountPerAddress
  BY DEF IInv, ColumnsUnique, OneAccountPerAddress
<1> QED BY <1>1, Invariance, PTL

(* The token of a registration in lower case resolves to its user.            *)
THEOREM Regulars == Spec => []TokensOfRegulars
<1>1. IInv => TokensOfRegulars
  <2> SUFFICES ASSUME IInv, NEW t \in tokens
               PROVE  /\ t.holder \in DOMAIN users
                      /\ /\ t.username # Absent
                         /\ users[t.holder].username = users[t.holder].email
                         => Resolved(t) = {t.holder}
    BY DEF TokensOfRegulars
  <2>1. t.holder \in DOMAIN users
    BY DEF IInv, ClaimsOfRegistered
  <2>2. t.username # Absent => t.username = users[t.holder].email
    BY DEF IInv, ClaimsOfRegistered, ClaimsFor, ClaimsOfBody
  <2> QED BY <2>1, <2>2 DEF IInv, ColumnsUnique, Resolved
<1> QED BY <1>1, Invariance, PTL

(* The token of a registration that resolves to its user keeps doing so.      *)
THEOREM Stability == Spec => ResolutionIsStable
<1> DEFINE Stable == \A t \in tokens \cap tokens' :
              t.username # Absent /\ Resolved(t) = {t.holder} => Resolved(t)' = {t.holder}
<1>1. IInv /\ [Next]_vars => [Stable]_vars
  <2> SUFFICES ASSUME IInv, [Next]_vars, NEW t \in tokens \cap tokens',
                      t.username # Absent, Resolved(t) = {t.holder}
               PROVE  Resolved(t)' = {t.holder}
    OBVIOUS
  <2>1. t.holder \in DOMAIN users /\ users[t.holder].username = t.username
    BY DEF Resolved
  <2>2. t.holder \in DOMAIN users' /\ users'[t.holder].username = t.username
    BY <2>1, UsersKept
  <2>3. ColumnsUnique'
    BY ColumnsStep
  <2> QED BY <2>2, <2>3 DEF ColumnsUnique, Resolved
<1> QED BY <1>1, Invariance, PTL DEF Spec, ResolutionIsStable

-----------------------------------------------------------------------------

(* A user has one token of a registration at most, however often it is signed. *)
LEMMA OneTokenEach ==
    ASSUME IInv, NEW s \in tokens, NEW t \in tokens, s.holder = t.holder,
           s.username # Absent, t.username # Absent
    PROVE  s = t
BY DEF IInv, ClaimsOfRegistered, ClaimsOfBody

(* A user added takes nobody's grant, nor does it find one.                   *)
LEMMA GrantedKept ==
    ASSUME IInv, IInv', [Next]_vars, UNCHANGED tokens
    PROVE  Granted' = Granted
<1>1. /\ DOMAIN users \subseteq DOMAIN users'
      /\ \A i \in DOMAIN users : users'[i] = users[i]
  BY UsersKept
<1>2. ASSUME NEW t \in tokens
      PROVE  (Resolved(t)' = {t.holder} /\ t.username # Absent)
                <=> (Resolved(t) = {t.holder} /\ t.username # Absent)
  <2>1. t.holder \in DOMAIN users
    BY DEF IInv, ClaimsOfRegistered
  <2>2. CASE Resolved(t) = {t.holder} /\ t.username # Absent
    <3>1. users'[t.holder].username = t.username /\ t.holder \in DOMAIN users'
      BY <1>1, <2>1, <2>2 DEF Resolved
    <3>2. Resolved(t)' = {t.holder}
      BY <2>2, <3>1 DEF Resolved, IInv, ColumnsUnique
    <3> QED BY <2>2, <3>2
  <2>3. CASE Resolved(t)' = {t.holder} /\ t.username # Absent
    <3>1. Resolved(t) \subseteq Resolved(t)'
      BY <1>1 DEF Resolved
    <3>2. t.holder \in Resolved(t)
      BY <1>1, <2>1, <2>3 DEF Resolved
    <3> QED BY <2>3, <3>1, <3>2
  <2> QED BY <2>2, <2>3
<1> QED BY <1>2 DEF Granted

(* The accounts implement their contract: added users are opened accounts,    *)
(* signing grants or does not, and expiry lapses.                             *)
THEOREM Refinement == Spec => ImplementsContract
<1>1. Init => Contract!Init
  BY DEF Init, Contract!Init, Contract!Empty, Empty, Addressed, Granted
<1>2. IInv /\ IInv' /\ [Next]_vars => [Contract!Next]_<<Addressed, Granted>>
  <2> SUFFICES ASSUME IInv, IInv', [Next]_vars
               PROVE  Contract!Next \/ UNCHANGED <<Addressed, Granted>>
    OBVIOUS
  <2>0. TypeOK /\ ClaimsOfRegistered
    BY DEF IInv
  <2>1. CASE UNCHANGED users /\ UNCHANGED tokens
    BY <2>1, GrantedKept DEF Addressed
  <2>2. ASSUME NEW k \in Ids \ DOMAIN users, NEW n \in Names, NEW m \in Names, NEW w \in Words,
               NEW h \in BOOLEAN, Insertable(NewUser(n, m, w, h)),
               users' = Put(users, k, NewUser(n, m, w, h)), UNCHANGED tokens
        PROVE  Contract!Open(k, Lower[m])
    <3>1. Lower[Lower[m]] = Lower[m]
      BY LowerAssumption
    <3>2. NewUser(n, m, w, h).email = Lower[m]
      BY DEF NewUser
    <3>3. \A j \in DOMAIN users : users[j].email # Lower[m]
      BY <2>2, <3>2 DEF Insertable
    <3>4. Addressed' = Put(Addressed, k, Lower[m])
      BY <2>2, <3>2 DEF Addressed, Put
    <3> QED BY <2>2, <3>1, <3>3, <3>4, GrantedKept DEF Contract!Open, Contract!Put, Put, Addressed
  <2>3. ASSUME NEW c \in Calls, Sign(c)
        PROVE  Contract!Grant(call[c].user) \/ UNCHANGED <<Addressed, Granted>>
    <3> DEFINE i == call[c].user
    <3>1. i \in DOMAIN users
      BY <2>0, <2>3 DEF ClaimsOfRegistered, Sign
    <3>2. UNCHANGED users /\ tokens' = tokens \cup {ClaimsFor(i)}
      BY <2>3 DEF Sign
    <3>3. UNCHANGED Addressed
      BY <3>2 DEF Addressed
    <3>4. \A t : Resolved(t)' = Resolved(t)
      BY <3>2 DEF Resolved
    <3>5. \A t \in {ClaimsFor(i)} : t.holder = i
      BY DEF ClaimsFor
    <3>6. Granted' \in {Granted, Granted \cup {i}}
      BY <3>2, <3>4, <3>5 DEF Granted
    <3> QED BY <3>1, <3>3, <3>6 DEF Contract!Grant, Addressed
  <2>4. ASSUME NEW c \in Calls, Compare(c)
        PROVE  UNCHANGED <<Addressed, Granted>>
    <3>1. UNCHANGED users /\ tokens' \in {tokens, tokens \cup {ClaimsOfBody(call[c].user)}}
      BY <2>4 DEF Compare
    <3>2. \A t : Resolved(t)' = Resolved(t)
      BY <3>1 DEF Resolved
    <3>3. ClaimsOfBody(call[c].user).username = Absent
      BY DEF ClaimsOfBody
    <3> QED BY <3>1, <3>2, <3>3 DEF Addressed, Granted
  <2>5. ASSUME NEW t \in Claims, Expire(t)
        PROVE  Contract!Lapse(t.holder) \/ UNCHANGED <<Addressed, Granted>>
    <3>1. UNCHANGED users /\ t \in tokens /\ tokens' = tokens \ {t}
      BY <2>5 DEF Expire
    <3>2. UNCHANGED Addressed
      BY <3>1 DEF Addressed
    <3>3. \A s : Resolved(s)' = Resolved(s)
      BY <3>1 DEF Resolved
    <3>4. CASE t.username # Absent /\ Resolved(t) = {t.holder}
      <4>1. t.holder \in Granted
        BY <3>1, <3>4 DEF Granted
      <4>2. Granted' = Granted \ {t.holder}
        BY <3>1, <3>3, <3>4, OneTokenEach DEF Granted
      <4> QED BY <3>2, <4>1, <4>2 DEF Contract!Lapse
    <3>5. CASE ~(t.username # Absent /\ Resolved(t) = {t.holder})
      <4>1. Granted' = Granted
        BY <3>1, <3>3, <3>5 DEF Granted
      <4> QED BY <3>2, <4>1
    <3> QED BY <3>4, <3>5
  <2>6. ASSUME ~(UNCHANGED users /\ UNCHANGED tokens), UNCHANGED users
        PROVE  \/ \E c \in Calls : Sign(c) \/ Compare(c)
               \/ \E t \in Claims : Expire(t)
    BY <2>6 DEF Next, vars, Register, Login, Insert, CreateUser, Fail
  <2>7. CASE UNCHANGED users
    <3>1. ASSUME NEW c \in Calls, Sign(c) PROVE call[c].user \in Ids
      BY <2>0, <3>1 DEF Sign, ClaimsOfRegistered, TypeOK
    <3>2. \A t \in Claims : t.holder \in Ids
      BY DEF Claims
    <3> QED BY <2>1, <2>3, <2>4, <2>5, <2>6, <2>7, <3>1, <3>2 DEF Contract!Next
  <2>8. UNCHANGED users \/ UNCHANGED tokens
    BY DEF Next, vars, Register, Insert, Sign, CreateUser, Login, Compare, Fail, Expire
  <2>9. \A m \in Names : Lower[m] \in Names
    BY LowerAssumption
  <2> QED BY <2>0, <2>2, <2>7, <2>8, <2>9, Added DEF Contract!Next
<1> QED BY <1>1, <1>2, Invariance, PTL DEF Spec, ImplementsContract, Contract!Spec

(* The token of a login tells whose it is only while there is nobody else:    *)
(* whenever one is out, "the user of the token" (auth.controller.ts:41) is    *)
(* true of logins exactly if there is one account.                            *)
THEOREM LoginsResolveAlone ==
    Spec => []((\E t \in tokens : t.username = Absent) => (LoginsResolve <=> OneAccount))
<1>1. IInv => ((\E t \in tokens : t.username = Absent) => (LoginsResolve <=> OneAccount))
  <2> SUFFICES ASSUME IInv, NEW t \in tokens, t.username = Absent
               PROVE  LoginsResolve <=> OneAccount
    OBVIOUS
  <2>1. \A s \in tokens : s.username = Absent => Resolved(s) = DOMAIN users
    BY DEF Resolved
  <2>2. \A s \in tokens : s.holder \in DOMAIN users
    BY DEF IInv, ClaimsOfRegistered
  <2>3. ASSUME LoginsResolve PROVE OneAccount
    <3>1. DOMAIN users = {t.holder}
      BY <2>1, <2>3 DEF LoginsResolve
    <3> QED BY <3>1 DEF OneAccount
  <2>4. ASSUME OneAccount PROVE LoginsResolve
    <3> SUFFICES ASSUME NEW s \in tokens, s.username = Absent
                 PROVE  Resolved(s) = {s.holder}
      BY DEF LoginsResolve
    <3>1. DOMAIN users = {s.holder}
      BY <2>2, <2>4 DEF OneAccount
    <3> QED BY <2>1, <3>1
  <2> QED BY <2>3, <2>4
<1> QED BY <1>1, Invariance, PTL
=============================================================================
