----------------------- MODULE ServerLifecycleProofs -----------------------
(***************************************************************************)
(* Theorems about ServerLifecycle for any retry options.                   *)
(***************************************************************************)
EXTENDS ServerLifecycle, TLAPS

(* A failed connection more is a rejection of the queue more if it is time.   *)
LEMMA NextQuotient ==
    ASSUME NEW a \in Nat, NEW n \in Nat \ {0}
    PROVE  /\ a \div n \in Nat
           /\ (a + 1) % n = 0 => (a + 1) \div n = a \div n + 1
           /\ a \div n <= (a + 1) \div n
OBVIOUS

LEMMA QuotientMonotone ==
    ASSUME NEW a \in Nat, NEW b \in Nat, NEW n \in Nat \ {0}, a <= b
    PROVE  a \div n <= b \div n
OBVIOUS

LEMMA NextMultiple ==
    ASSUME NEW a \in Nat, NEW k \in Nat
    PROVE  a * k \in Nat /\ (a + 1) * k = a * k + k
OBVIOUS

-----------------------------------------------------------------------------

(* What the queue says of the process.                                        *)
QueueKnown ==
    /\ "ping" \in queue <=> app = "pinging"
    /\ "quit" \in queue => signalled
    /\ client = "ended" => queue = {}

(* What the phase says of the rest.                                           *)
PhaseKnown ==
    /\ app \in {"pinging", "pausing"} => retries > 0
    /\ app = "aborting" => retries = 0
    /\ app \in {"closing", "draining"} => signalled
    /\ client = "ready" => attempts = 0

(* How often the queue has been rejected in the present outage.               *)
Flushed == attempts \div (MaxRetriesPerRequest + 1)

(* What the failures of the ping loop were due to.                            *)
FailuresExplained ==
    /\ client = "ready" =>
          PingRetries - retries <= errors + (drops + 1) * FlushesPerOutage
    /\ client \in {"connecting", "waiting"} =>
          /\ attempts <= MaxRetries
          /\ PingRetries - retries <= errors + drops * FlushesPerOutage + Flushed

IInv == TypeOK /\ QueueKnown /\ PhaseKnown /\ EndedForAReason

USE DEF Commands, Starting, Running

LEMMA InitInv == Init => IInv
<1> SUFFICES ASSUME Init PROVE IInv
  OBVIOUS
<1>1. retries \in 0..PingRetries /\ retries > 0 /\ drops \in 0..MaxDrops /\ errors \in 0..PingRetries
  BY RetriesAssumption DEF Init
<1>2. app = "pinging" /\ client = "connecting" /\ attempts = 0 /\ queue = {"ping"} /\ signalled = FALSE
  BY DEF Init
<1>3. TypeOK
  BY <1>1, <1>2 DEF TypeOK
<1>4. QueueKnown
  BY <1>2 DEF QueueKnown
<1> QED
  BY <1>1, <1>2, <1>3, <1>4 DEF IInv, PhaseKnown, EndedForAReason

(* A failed ping leaves the loop pausing with retries left, or aborting.      *)
LEMMA PingFailedEffect ==
    ASSUME TypeOK, retries > 0, PingFailed
    PROVE  /\ retries' = retries - 1
           /\ retries' \in 0..PingRetries
           /\ app' \in {"pausing", "aborting"}
           /\ app' = "pausing" => retries' > 0
           /\ app' = "aborting" => retries' = 0
BY RetriesAssumption DEF TypeOK, PingFailed

(* A connection that closes leaves the client ended or waiting, and the pings *)
(* it rejects go to their catch.                                              *)
LEMMA ClosedEffect ==
    ASSUME TypeOK, QueueKnown, Closed
    PROVE  /\ client' = "ended" => queue' = {}
           /\ client' \in {"ended", "waiting"}
           /\ attempts' \in Nat
           /\ \/ queue' = queue /\ app' = app /\ retries' = retries /\ client' = "waiting"
              \/ /\ queue' = {}
                 /\ \/ app # "pinging" /\ app' = app /\ retries' = retries
                    \/ app = "pinging" /\ PingFailed
           /\ client' = "ended" => attempts' > MaxRetries \/ signalled
<1> USE RetriesAssumption DEF TypeOK, QueueKnown
<1>1. CASE client = "ready" /\ "quit" \in queue
  <2>1. queue' = {} /\ client' = "ended" /\ attempts' = attempts
    BY <1>1 DEF Closed, Reject
  <2>2. CASE app = "pinging"
    BY <1>1, <2>1, <2>2 DEF Closed, Reject
  <2>3. CASE app # "pinging"
    BY <1>1, <2>1, <2>3 DEF Closed, Reject
  <2> QED BY <1>1, <2>1, <2>2, <2>3
<1>2. CASE ~(client = "ready" /\ "quit" \in queue)
  <2>1. attempts' = attempts + 1 /\ attempts' \in Nat
    BY <1>2 DEF Closed
  <2>2. CASE GivesUp(attempts + 1) \/ Flushes(attempts + 1)
    <3>1. Reject(queue) /\ queue' = {}
      BY <1>2, <2>2 DEF Closed, Reject
    <3>2. client' = IF GivesUp(attempts + 1) THEN "ended" ELSE "waiting"
      BY <1>2 DEF Closed
    <3>3. \/ app # "pinging" /\ app' = app /\ retries' = retries
          \/ app = "pinging" /\ PingFailed
      BY <3>1 DEF Reject
    <3> QED BY <2>1, <3>1, <3>2, <3>3 DEF GivesUp
  <2>3. CASE ~(GivesUp(attempts + 1) \/ Flushes(attempts + 1))
    <3>1. Reject({}) /\ client' = "waiting"
      BY <1>2, <2>3 DEF Closed
    <3> QED BY <2>1, <3>1 DEF Reject
  <2> QED BY <2>2, <2>3
<1> QED BY <1>1, <1>2

LEMMA StepInv == IInv /\ [Next]_vars => IInv'
<1> SUFFICES ASSUME IInv, [Next]_vars PROVE IInv'
  OBVIOUS
<1>0. TypeOK /\ QueueKnown /\ PhaseKnown /\ EndedForAReason
  BY DEF IInv
<1> USE RetriesAssumption DEF IInv, TypeOK, QueueKnown, PhaseKnown, EndedForAReason
<1>1. CASE Ping
  <2>1. retries > 0
    BY <1>0, <1>1 DEF Ping
  <2>2. CASE client = "ended"
    <3>1. PingFailed /\ queue' = {}
      BY <1>0, <1>1, <2>2 DEF Ping
    <3> QED BY <1>0, <1>1, <2>1, <2>2, <3>1, PingFailedEffect DEF Ping
  <2>3. CASE client # "ended"
    BY <1>0, <1>1, <2>1, <2>3 DEF Ping
  <2> QED BY <2>2, <2>3
<1>2. CASE Abort
  BY <1>0, <1>2 DEF Abort, Exit
<1>3. CASE ConnectFails
  <2>1. Closed /\ signalled' = signalled /\ drops' \in 0..MaxDrops /\ errors' = errors
    BY <1>0, <1>3 DEF ConnectFails
  <2>2. /\ client' = "ended" => queue' = {}
        /\ client' \in {"ended", "waiting"}
        /\ attempts' \in Nat
        /\ client' = "ended" => attempts' > MaxRetries \/ signalled
    BY <1>0, <2>1, ClosedEffect
  <2>3. CASE app = "pinging" /\ queue' = {} /\ PingFailed
    <3>1. retries' \in 0..PingRetries /\ app' \in {"pausing", "aborting"}
          /\ (app' = "pausing" => retries' > 0) /\ (app' = "aborting" => retries' = 0)
      BY <1>0, <2>3, PingFailedEffect
    <3> QED BY <1>0, <2>1, <2>2, <2>3, <3>1
  <2>4. CASE app # "pinging" /\ queue' = {} /\ app' = app /\ retries' = retries
    BY <1>0, <2>1, <2>2, <2>4
  <2>5. CASE queue' = queue /\ app' = app /\ retries' = retries /\ client' = "waiting"
    BY <1>0, <2>1, <2>2, <2>5
  <2> QED BY <1>0, <2>1, <2>3, <2>4, <2>5, ClosedEffect
<1>4. CASE Ready
  BY <1>0, <1>4 DEF Ready
<1>5. CASE Drop
  <2>1. Closed /\ signalled' = signalled /\ drops' \in 0..MaxDrops /\ errors' = errors
    BY <1>0, <1>5 DEF Drop
  <2>2. /\ client' = "ended" => queue' = {}
        /\ client' \in {"ended", "waiting"}
        /\ attempts' \in Nat
        /\ client' = "ended" => attempts' > MaxRetries \/ signalled
    BY <1>0, <2>1, ClosedEffect
  <2>3. CASE app = "pinging" /\ queue' = {} /\ PingFailed
    <3>1. retries' \in 0..PingRetries /\ app' \in {"pausing", "aborting"}
          /\ (app' = "pausing" => retries' > 0) /\ (app' = "aborting" => retries' = 0)
      BY <1>0, <2>3, PingFailedEffect
    <3> QED BY <1>0, <2>1, <2>2, <2>3, <3>1
  <2>4. CASE app # "pinging" /\ queue' = {} /\ app' = app /\ retries' = retries
    BY <1>0, <2>1, <2>2, <2>4
  <2>5. CASE queue' = queue /\ app' = app /\ retries' = retries /\ client' = "waiting"
    BY <1>0, <2>1, <2>2, <2>5
  <2> QED BY <1>0, <2>1, <2>3, <2>4, <2>5, ClosedEffect
<1>6. CASE Reconnect
  BY <1>0, <1>6 DEF Reconnect
<1>7. CASE Pong
  BY <1>0, <1>7 DEF Pong
<1>8. CASE PingError
  BY <1>0, <1>8 DEF PingError, Reject, PingFailed
<1>9. CASE GetReply
  BY <1>0, <1>9 DEF GetReply
<1>10. CASE QuitReply
  BY <1>0, <1>10 DEF QuitReply, Reject, PingFailed
<1>11. CASE Listen
  BY <1>0, <1>11 DEF Listen
<1>12. CASE BuildFails
  BY <1>0, <1>12 DEF BuildFails, Exit
<1>13. CASE Request
  BY <1>0, <1>13 DEF Request
<1>14. CASE SignalKills
  BY <1>0, <1>14 DEF SignalKills, Exit
<1>15. CASE SignalWhileBuilding
  BY <1>0, <1>15 DEF SignalWhileBuilding, Quit
<1>16. CASE SignalWhileListening
  BY <1>0, <1>16 DEF SignalWhileListening, Quit
<1>17. CASE Disposed
  BY <1>0, <1>17 DEF Disposed, Quit
<1>18. CASE Drained
  BY <1>0, <1>18 DEF Drained, Exit
<1>19. CASE UNCHANGED vars
  BY <1>0, <1>19 DEF vars
<1> QED
  BY <1>1, <1>2, <1>3, <1>4, <1>5, <1>6, <1>7, <1>8, <1>9, <1>10, <1>11, <1>12, <1>13,
     <1>14, <1>15, <1>16, <1>17, <1>18, <1>19 DEF Next, Factory, Client, Server

(* The states of a server have the types declared for them.                   *)
THEOREM TypeCorrect == Spec => []TypeOK
<1>1. IInv => TypeOK
  BY DEF IInv
<1> QED BY InitInv, StepInv, <1>1, PTL DEF Spec

(* A client that still tries to connect is never given up but by a signal:    *)
(* redis.provider.ts:28-31, 71-95, for any options.                           *)
THEOREM EndedReason == Spec => []EndedForAReason
<1>1. IInv => EndedForAReason
  BY DEF IInv
<1> QED BY InitInv, StepInv, <1>1, PTL DEF Spec

-----------------------------------------------------------------------------

LEMMA Counts ==
    ASSUME TypeOK
    PROVE  /\ FlushesPerOutage \in Nat /\ Flushed \in Nat
           /\ drops * FlushesPerOutage \in Nat
           /\ (drops + 1) * FlushesPerOutage = drops * FlushesPerOutage + FlushesPerOutage
           /\ attempts <= MaxRetries => Flushed <= FlushesPerOutage
<1>1. drops \in Nat /\ attempts \in Nat /\ MaxRetriesPerRequest + 1 \in Nat \ {0}
  BY RetriesAssumption DEF TypeOK
<1>2. FlushesPerOutage \in Nat /\ Flushed \in Nat
  BY <1>1, NextQuotient, RetriesAssumption DEF FlushesPerOutage, Flushed
<1>3. attempts <= MaxRetries => Flushed <= FlushesPerOutage
  BY <1>1, QuotientMonotone, RetriesAssumption DEF FlushesPerOutage, Flushed
<1> QED BY <1>1, <1>2, <1>3, NextMultiple

LEMMA InitExplained == Init => FailuresExplained
<1> SUFFICES ASSUME Init PROVE FailuresExplained
  OBVIOUS
<1>1. TypeOK
  BY InitInv DEF IInv
<1> DEFINE f == Flushed
           k == drops * FlushesPerOutage
<1>2. f \in Nat /\ k \in Nat
  BY <1>1, Counts
<1>3. client = "connecting" /\ attempts = 0 /\ retries = PingRetries /\ errors = 0
  BY DEF Init
<1>4. FailuresExplained <=> PingRetries - retries <= errors + k + f
  BY <1>3, RetriesAssumption DEF FailuresExplained
<1> HIDE DEF f, k
<1> QED BY <1>2, <1>3, <1>4, RetriesAssumption

(* What a connection that closes adds to the failures of the ping loop: no    *)
(* more than to the rejections of this outage.                                *)
LEMMA ClosedCounts ==
    ASSUME TypeOK, QueueKnown, PhaseKnown, Closed, client' # "ended"
    PROVE  /\ attempts' = attempts + 1
           /\ attempts' <= MaxRetries
           /\ client' = "waiting"
           /\ \/ retries' = retries /\ Flushed <= Flushed'
              \/ retries' = retries - 1 /\ Flushed + 1 = Flushed'
<1> USE RetriesAssumption DEF TypeOK, QueueKnown, PhaseKnown
<1>1. ~(client = "ready" /\ "quit" \in queue)
  BY DEF Closed
<1>2. attempts' = attempts + 1 /\ ~GivesUp(attempts + 1) /\ client' = "waiting"
  BY <1>1 DEF Closed
<1>3. attempts' <= MaxRetries
  BY <1>2 DEF GivesUp
<1>4. attempts \in Nat /\ MaxRetriesPerRequest + 1 \in Nat \ {0}
  OBVIOUS
<1>5. Flushed <= Flushed'
  BY <1>2, <1>4, NextQuotient DEF Flushed
<1>6. CASE Flushes(attempts + 1)
  <2>1. Flushed + 1 = Flushed'
    BY <1>2, <1>4, <1>6, NextQuotient DEF Flushed, Flushes
  <2>2. Reject(queue)
    BY <1>1, <1>2, <1>6 DEF Closed
  <2>3. retries' = retries \/ retries' = retries - 1
    BY <2>2 DEF Reject, PingFailed
  <2> QED BY <1>2, <1>3, <1>5, <2>1, <2>3
<1>7. CASE ~Flushes(attempts + 1)
  <2>1. Reject({})
    BY <1>1, <1>2, <1>7 DEF Closed
  <2> QED BY <1>2, <1>3, <1>5, <2>1 DEF Reject
<1> QED BY <1>6, <1>7

LEMMA StepExplained ==
    ASSUME IInv, FailuresExplained, [Next]_vars
    PROVE  FailuresExplained'
<1>0. TypeOK /\ QueueKnown /\ PhaseKnown /\ IInv'
  BY StepInv DEF IInv
<1> DEFINE F == FlushesPerOutage
           K == drops * F
           L == drops' * F
           f == Flushed
           g == Flushed'
           Ready0 == (drops + 1) * F
           Ready1 == (drops' + 1) * F
<1>1. /\ F \in Nat /\ K \in Nat /\ L \in Nat /\ f \in Nat /\ g \in Nat
      /\ Ready0 = K + F /\ Ready1 = L + F
      /\ attempts <= MaxRetries => f <= F
      /\ drops' = drops => L = K
  <2>1. TypeOK'
    BY <1>0 DEF IInv
  <2>2. /\ F \in Nat /\ K \in Nat /\ f \in Nat /\ Ready0 = K + F
        /\ attempts <= MaxRetries => f <= F
    BY <1>0, Counts
  <2>3. L \in Nat /\ g \in Nat /\ Ready1 = L + F
    <3>1. drops' \in Nat /\ attempts' \in Nat /\ MaxRetriesPerRequest + 1 \in Nat \ {0}
      BY <2>1, RetriesAssumption DEF TypeOK
    <3> QED BY <2>2, <3>1, NextMultiple, NextQuotient DEF Flushed
  <2> QED BY <2>2, <2>3
<1>2. /\ client = "ready" => PingRetries - retries <= errors + Ready0
      /\ client \in {"connecting", "waiting"} =>
            attempts <= MaxRetries /\ PingRetries - retries <= errors + K + f
  BY DEF FailuresExplained
<1>3. SUFFICES /\ client' = "ready" => PingRetries - retries' <= errors' + Ready1
               /\ client' \in {"connecting", "waiting"} =>
                     attempts' <= MaxRetries /\ PingRetries - retries' <= errors' + L + g
  BY DEF FailuresExplained
<1>4. Closed /\ client' # "ended" =>
         /\ attempts' = attempts + 1
         /\ attempts' <= MaxRetries
         /\ client' = "waiting"
         /\ \/ retries' = retries /\ f <= g
            \/ retries' = retries - 1 /\ f + 1 = g
  BY <1>0, ClosedCounts
<1>5. attempts' = attempts => g = f
  BY DEF Flushed
<1>6. drops' = drops + 1 => L = Ready0
  OBVIOUS
<1>7. /\ errors \in Nat /\ retries \in Nat /\ attempts \in Nat /\ PingRetries \in Nat
      /\ errors <= PingRetries /\ errors' \in Nat /\ retries' \in Nat
      /\ client = "ready" => attempts = 0
      /\ client \in {"connecting", "ready", "waiting", "ended"}
      /\ client' = "ready" => attempts' = 0
  BY <1>0, RetriesAssumption DEF IInv, TypeOK, PhaseKnown
<1> HIDE DEF F, K, L, f, g, Ready0, Ready1
<1>8. CASE ConnectFails
  <2>1. Closed /\ client = "connecting" /\ errors' = errors /\ drops' = drops
    BY <1>8 DEF ConnectFails
  <2>2. L = K /\ client' \in {"ended", "waiting"}
    BY <1>1, <1>4, <2>1
  <2>3. PingRetries - retries <= errors + L + f
    BY <1>2, <2>1, <2>2
  <2>4. ASSUME client' # "ended"
        PROVE  attempts' <= MaxRetries /\ PingRetries - retries' <= errors' + L + g
    <3>1. attempts' <= MaxRetries /\ errors' = errors
      BY <1>4, <2>1, <2>4
    <3>2. CASE retries' = retries /\ f <= g
      BY <1>1, <1>7, <2>3, <3>1, <3>2
    <3>3. CASE retries' = retries - 1 /\ f + 1 = g
      BY <1>1, <1>7, <2>3, <3>1, <3>3
    <3> QED BY <1>4, <2>1, <2>4, <3>2, <3>3
  <2> QED BY <2>2, <2>4
<1>9. CASE Drop
  <2>1. client = "ready" /\ drops' = drops + 1 /\ errors' = errors /\ Closed
    BY <1>9 DEF Drop
  <2>2. L = Ready0 /\ client' \in {"ended", "waiting"}
    BY <1>4, <1>6, <2>1
  <2>3. PingRetries - retries <= errors + L
    BY <1>2, <2>1, <2>2
  <2>4. ASSUME client' # "ended"
        PROVE  attempts' <= MaxRetries /\ PingRetries - retries' <= errors' + L + g
    <3>1. attempts' <= MaxRetries /\ errors' = errors
      BY <1>4, <2>1, <2>4
    <3>2. CASE retries' = retries
      BY <1>1, <1>7, <2>3, <3>1, <3>2
    <3>3. CASE retries' = retries - 1 /\ f + 1 = g
      BY <1>1, <1>7, <2>3, <3>1, <3>3
    <3> QED BY <1>4, <2>1, <2>4, <3>2, <3>3
  <2> QED BY <2>2, <2>4
<1>10. CASE PingError
  <2>1. client = "ready" /\ client' = client /\ drops' = drops
    BY <1>10 DEF PingError
  <2>2. retries' = retries - 1
    BY <1>10 DEF PingError, Reject, PingFailed
  <2>3. errors' = IF errors < PingRetries THEN errors + 1 ELSE errors
    BY <1>10 DEF PingError
  <2> QED BY <1>1, <1>2, <1>7, <2>1, <2>2, <2>3
<1>11. CASE QuitReply
  BY <1>11 DEF QuitReply
<1>12. CASE Ping
  <2>1. client' = client /\ attempts' = attempts /\ drops' = drops /\ errors' = errors
    BY <1>12 DEF Ping
  <2>2. client = "ended" \/ retries' = retries
    BY <1>12 DEF Ping
  <2> QED BY <1>1, <1>2, <1>5, <2>1, <2>2
<1>13. CASE Abort \/ BuildFails \/ SignalKills \/ Drained
  BY <1>13 DEF Abort, BuildFails, SignalKills, Drained, Exit
<1>14. CASE Ready
  <2>1. /\ client = "connecting" /\ client' = "ready"
        /\ retries' = retries /\ drops' = drops /\ errors' = errors
    BY <1>14 DEF Ready
  <2> QED BY <1>1, <1>2, <1>7, <2>1
<1>15. CASE Reconnect \/ Pong \/ GetReply \/ Listen \/ Request
  <2>1. UNCHANGED <<retries, attempts, drops, errors>>
    BY <1>15 DEF Reconnect, Pong, GetReply, Listen, Request
  <2>2. client' = client \/ (client = "waiting" /\ client' = "connecting")
    BY <1>15 DEF Reconnect, Pong, GetReply, Listen, Request
  <2> QED BY <1>1, <1>2, <1>5, <1>7, <2>1, <2>2
<1>16. CASE SignalWhileBuilding \/ SignalWhileListening \/ Disposed
  <2>1. Quit /\ UNCHANGED <<retries, attempts, drops, errors>>
    BY <1>16 DEF SignalWhileBuilding, SignalWhileListening, Disposed
  <2>2. client' = client \/ client' = "ended"
    BY <2>1 DEF Quit
  <2> QED BY <1>1, <1>2, <1>5, <2>1, <2>2
<1>17. CASE UNCHANGED vars
  BY <1>1, <1>2, <1>5, <1>17 DEF vars
<1> QED
  BY <1>8, <1>9, <1>10, <1>11, <1>12, <1>13, <1>14, <1>15, <1>16, <1>17
     DEF Next, Factory, Client, Server

(* With any options, a start is aborted only if Redis was given up, or did    *)
(* fail by itself as often as that takes (redis.provider.ts:48-79).           *)
THEOREM AbortExplained == Spec => []AbortMeansOutage
<1>1. Init => IInv /\ FailuresExplained
  BY InitInv, InitExplained
<1>2. IInv /\ FailuresExplained /\ [Next]_vars => (IInv /\ FailuresExplained)'
  BY StepInv, StepExplained
<1>3. IInv /\ FailuresExplained => AbortMeansOutage
  <2> SUFFICES ASSUME IInv, FailuresExplained, app = "aborting", client # "ended"
               PROVE  PingRetries <= errors + (drops + 1) * FlushesPerOutage
    BY DEF AbortMeansOutage
  <2> DEFINE F == FlushesPerOutage
             K == drops * F
             R == (drops + 1) * F
             f == Flushed
  <2>1. F \in Nat /\ K \in Nat /\ f \in Nat /\ R = K + F /\ (attempts <= MaxRetries => f <= F)
    BY Counts DEF IInv
  <2>2. retries = 0 /\ errors \in Nat /\ client \in {"connecting", "waiting", "ready"}
    BY DEF IInv, TypeOK, PhaseKnown
  <2>3. /\ client = "ready" => PingRetries - retries <= errors + R
        /\ client \in {"connecting", "waiting"} =>
              attempts <= MaxRetries /\ PingRetries - retries <= errors + K + f
    BY DEF FailuresExplained
  <2> HIDE DEF F, K, R, f
  <2>4. PingRetries <= errors + R
    BY <2>1, <2>2, <2>3, RetriesAssumption
  <2> QED BY <2>4 DEF R, F
<1> QED BY <1>1, <1>2, <1>3, PTL DEF Spec

-----------------------------------------------------------------------------

(* Nobody waits for a command that the client does not hold.                  *)
THEOREM Held == Spec => []NoneForgotten
<1>1. IInv => NoneForgotten
  BY DEF IInv, QueueKnown, NoneForgotten
<1> QED BY InitInv, StepInv, <1>1, PTL DEF Spec

(* What is queued without a connection: a QUIT only beside a GET, which keeps *)
(* Nest from closing the server.                                              *)
QuitWaitsWithGet ==
    "quit" \in queue /\ client \in {"connecting", "waiting"} => "get" \in queue

(* After Disposed nothing is asked any more.                                  *)
QuitInv == QuitWaitsWithGet /\ QuitGetsOut

LEMMA StepQuit == IInv /\ QuitInv /\ [Next]_vars => QuitInv'
<1> SUFFICES ASSUME IInv, QuitInv, [Next]_vars PROVE QuitInv'
  OBVIOUS
<1>0. TypeOK /\ QueueKnown /\ QuitWaitsWithGet /\ QuitGetsOut
  BY DEF IInv, QuitInv
<1> USE DEF QuitInv, QuitWaitsWithGet, QuitGetsOut
<1>1. CASE Ping
  BY <1>0, <1>1 DEF Ping, PingFailed
<1>2. CASE Abort \/ BuildFails \/ SignalKills \/ Drained
  BY <1>2 DEF Abort, BuildFails, SignalKills, Drained, Exit
<1>3. CASE ConnectFails \/ Drop
  <2>1. Closed /\ client \in {"connecting", "ready"}
    BY <1>3 DEF ConnectFails, Drop
  <2>2. /\ queue' \in {queue, {}}
        /\ client = "ready" /\ "quit" \in queue => client' = "ended" /\ queue' = {}
        /\ client' \in {"ended", "waiting"}
    BY <2>1 DEF Closed, Reject
  <2>3. app' = "draining" => app = "draining"
    BY <2>1 DEF Closed, Reject, PingFailed
  <2> QED BY <1>0, <2>1, <2>2, <2>3
<1>4. CASE Ready
  BY <1>0, <1>4 DEF Ready
<1>5. CASE Reconnect
  BY <1>0, <1>5 DEF Reconnect
<1>6. CASE Pong \/ GetReply
  BY <1>0, <1>6 DEF Pong, GetReply
<1>7. CASE PingError
  BY <1>0, <1>7 DEF PingError, Reject, PingFailed
<1>8. CASE QuitReply
  BY <1>0, <1>8 DEF QuitReply, Reject, PingFailed
<1>9. CASE Listen
  BY <1>0, <1>9 DEF Listen
<1>10. CASE Request
  BY <1>0, <1>10 DEF Request
<1>11. CASE SignalWhileBuilding \/ SignalWhileListening
  <2>1. Quit /\ app \in {"building", "listening"} /\ app' # "draining"
    BY <1>11 DEF SignalWhileBuilding, SignalWhileListening
  <2>2. "ping" \notin queue
    BY <1>0, <2>1 DEF QueueKnown
  <2>3. client \in {"connecting", "waiting"} /\ queue # {} => "get" \in queue
    BY <1>0, <2>2 DEF TypeOK
  <2> QED BY <1>0, <2>1, <2>3 DEF Quit, QueueKnown
<1>12. CASE Disposed
  <2>1. Quit /\ "get" \notin queue /\ "ping" \notin queue /\ app' = "draining"
    BY <1>0, <1>12 DEF Disposed, QueueKnown
  <2>2. client \in {"connecting", "waiting"} => queue = {}
    BY <1>0, <2>1 DEF TypeOK
  <2>3. client \in {"connecting", "ready", "waiting", "ended"}
    BY <1>0 DEF TypeOK
  <2> QED BY <1>0, <2>1, <2>2, <2>3 DEF Quit, QueueKnown
<1>13. CASE UNCHANGED vars
  BY <1>0, <1>13 DEF vars
<1> QED
  BY <1>1, <1>2, <1>3, <1>4, <1>5, <1>6, <1>7, <1>8, <1>9, <1>10, <1>11, <1>12, <1>13
     DEF Next, Factory, Client, Server

(* The QUIT of a server that has closed is not lost with the queue, so that   *)
(* the client does not keep the event loop alive: for any options.            *)
THEOREM QuitHeard == Spec => []QuitGetsOut
<1>1. Init => QuitInv
  BY DEF Init, QuitInv, QuitWaitsWithGet, QuitGetsOut
<1>2. Init => IInv /\ QuitInv
  BY <1>1, InitInv
<1>3. IInv /\ QuitInv /\ [Next]_vars => (IInv /\ QuitInv)'
  BY StepInv, StepQuit
<1>4. QuitInv => QuitGetsOut
  BY DEF QuitInv
<1> QED BY <1>2, <1>3, <1>4, PTL DEF Spec

LEMMA StepShutsDown ==
    IInv /\ SignalShutsDown /\ ~Swallowed' /\ [Next]_vars => SignalShutsDown'
<1> SUFFICES ASSUME IInv, SignalShutsDown, ~Swallowed', [Next]_vars PROVE SignalShutsDown'
  OBVIOUS
<1> USE DEF SignalShutsDown
<1>0. "ping" \in queue => app = "pinging"
  BY DEF IInv, QueueKnown
<1>1. CASE SignalWhileBuilding
  BY <1>1 DEF SignalWhileBuilding, Swallowed
<1>2. CASE SignalWhileListening \/ Disposed
  BY <1>2 DEF SignalWhileListening, Disposed
<1>3. CASE Abort \/ BuildFails \/ SignalKills \/ Drained
  BY <1>3 DEF Abort, BuildFails, SignalKills, Drained, Exit
<1>4. CASE Ping \/ Pong \/ Listen \/ Request
  BY <1>0, <1>4 DEF Ping, PingFailed, Pong, Listen, Request
<1>5. CASE ConnectFails \/ Drop \/ PingError \/ QuitReply
  BY <1>0, <1>5 DEF ConnectFails, Drop, PingError, QuitReply, Closed, Reject, PingFailed
<1>6. CASE Ready \/ Reconnect \/ GetReply \/ UNCHANGED vars
  BY <1>6 DEF Ready, Reconnect, GetReply, vars
<1> QED BY <1>1, <1>2, <1>3, <1>4, <1>5, <1>6 DEF Next, Factory, Client, Server

(* "Graceful shutdown" fails only in the window in which the factory's        *)
(* handlers are alone: in every behaviour without a signal there, a signal    *)
(* that the process survives is shutting it down.                             *)
THEOREM HeardUnlessSwallowed == Spec /\ []~Swallowed => []SignalShutsDown
<1>1. Init => SignalShutsDown
  BY DEF Init, SignalShutsDown
<1> QED BY <1>1, InitInv, StepInv, StepShutsDown, PTL DEF Spec
=============================================================================
