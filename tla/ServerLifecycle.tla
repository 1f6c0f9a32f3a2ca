-------------------------- MODULE ServerLifecycle --------------------------
(***************************************************************************)
(* The life of one server process: the factory of the Redis client with its*)
(* start-up ping (src/shared/redis.provider.ts), bootstrap (src/main.ts),  *)
(* requests that ask Redis, and termination by SIGINT or SIGTERM.          *)
(*                                                                         *)
(* Two retry loops meet here: the factory's over PINGs, and the one inside *)
(* ioredis over connections, driven by the options the factory passes.  And*)
(* two signal handlers: the factory's, which quits the client, and Nest's, *)
(* which closes the server.  The client, the server and Nest are external  *)
(* and modelled as the code relies on them.  Delays order nothing here:    *)
(* every timer may fire before or after every other event.                 *)
(***************************************************************************)
EXTENDS Integers

CONSTANTS
    PingRetries,          \* 5: `retries` of attemptPing
    MaxRetries,           \* REDIS_MAX_RETRIES, 5 by default
    MaxRetriesPerRequest, \* REDIS_MAX_RETRIES_PER_REQUEST, 3 by default
    MaxDrops              \* bound: how often an established connection breaks

ASSUME RetriesAssumption ==
    /\ PingRetries \in Nat \ {0}
    /\ MaxRetries \in Nat
    /\ MaxRetriesPerRequest \in Nat
    /\ MaxDrops \in Nat

VARIABLES
    app,       \* how far the process is
    retries,   \* local of attemptPing
    client,    \* the ioredis connection
    attempts,  \* ioredis: connections that closed since one was ready
    queue,     \* ioredis: commands that are neither answered nor rejected
    signalled, \* has the process survived a signal?
    drops,     \* history: broken connections ...
    errors     \* ... and pings answered with an error (no more than PingRetries)

vars == <<app, retries, client, attempts, queue, signalled, drops, errors>>

-----------------------------------------------------------------------------

\* The factory, then the rest of NestFactory.create and of bootstrap.
Starting == {"pinging", "pausing", "aborting", "building"}
\* Serving; after a signal: finishing the requests, then waiting for the event
\* loop to be empty.
Running  == {"listening", "closing", "draining"}
Commands == {"ping", "get", "quit"}

TypeOK ==
    /\ app \in Starting \cup Running \cup {"exited"}
    /\ retries \in 0..PingRetries
    /\ client \in {"connecting", "ready", "waiting", "ended"}
    /\ attempts \in Nat
    /\ queue \subseteq Commands
    /\ signalled \in BOOLEAN
    /\ drops \in 0..MaxDrops
    /\ errors \in 0..PingRetries

\* REDIS_URL is set (otherwise the factory throws at once): `new Redis` starts
\* to connect and the first PING is queued.
Init ==
    /\ app = "pinging"
    /\ retries = PingRetries
    /\ client = "connecting"
    /\ attempts = 0
    /\ queue = {"ping"}
    /\ signalled = FALSE
    /\ drops = 0
    /\ errors = 0

-----------------------------------------------------------------------------
\* The factory's ping loop.

\* Mutant of PingFailed: two retries are taken.
PingFailedByTwo ==
    /\ retries' = retries - 2
    /\ app' = IF retries = 1 THEN "aborting" ELSE "pausing"

\* Mutant of PingFailed: gives up with one retry left.
PingFailedEarly ==
    /\ retries' = retries - 1
    /\ app' = IF retries <= 2 THEN "aborting" ELSE "pausing"

\* Mutant of PingFailed: the retries are not counted.
PingFailedUncounted == retries' = retries /\ app' = "pausing"

\* The catch of attemptPing: one retry less; after the last the start is
\* aborted, before that the loop waits two seconds.
PingFailed ==
    /\ retries' = retries - 1
    /\ app' = IF retries = 1 THEN "aborting" ELSE "pausing"

\* The next PING.  A client that has ended rejects it at once.
Ping ==
    /\ app = "pausing"
    /\ \/ client = "ended" /\ PingFailed /\ UNCHANGED queue
       \/ /\ client # "ended"
          /\ app' = "pinging"
          /\ queue' = queue \cup {"ping"}
          /\ UNCHANGED retries
    /\ UNCHANGED <<client, attempts, signalled, drops, errors>>

\* The process is gone, and its connection with it.
Exit ==
    /\ app' = "exited"
    /\ client' = "ended"
    /\ queue' = {}
    /\ UNCHANGED <<retries, attempts, drops, errors>>

\* `await redis.quit().catch(...)` settles in every state of the client, then
\* the factory throws and NestFactory.create ends the process.
Abort == app = "aborting" /\ Exit /\ UNCHANGED signalled

-----------------------------------------------------------------------------
\* The client.

\* The commands in Q are rejected: a ping goes to its catch, a get makes its
\* request fail with 500, a quit is logged.
Reject(Q) ==
    /\ queue' = queue \ Q
    /\ IF "ping" \in Q THEN PingFailed ELSE UNCHANGED <<app, retries>>

\* Mutant of GivesUp: one retry less.
GivesUpAtLast(times) == times >= MaxRetries

\* retryStrategy returns null.
GivesUp(times) == times > MaxRetries

\* ioredis rejects what is queued after every so many failed connections.
Flushes(times) == times % (MaxRetriesPerRequest + 1) = 0

\* A connection, or the attempt at one, closes.  After a QUIT was written that
\* is the end; otherwise retryStrategy decides.
Closed ==
    \/ /\ client = "ready" /\ "quit" \in queue
       /\ client' = "ended"
       /\ Reject(queue)
       /\ UNCHANGED attempts
    \/ /\ ~(client = "ready" /\ "quit" \in queue)
       /\ attempts' = attempts + 1
       /\ client' = IF GivesUp(attempts + 1) THEN "ended" ELSE "waiting"
       /\ Reject(IF GivesUp(attempts + 1) \/ Flushes(attempts + 1) THEN queue ELSE {})

\* No connection within connectTimeout, or no ready check.
ConnectFails ==
    /\ client = "connecting"
    /\ Closed
    /\ UNCHANGED <<signalled, drops, errors>>

Ready ==
    /\ client = "connecting"
    /\ client' = "ready"
    /\ attempts' = 0
    /\ UNCHANGED <<app, retries, queue, signalled, drops, errors>>

\* Redis restarts, or the network breaks.  MaxDrops bounds the model.
Drop ==
    /\ client = "ready"
    /\ drops < MaxDrops
    /\ drops' = drops + 1
    /\ Closed
    /\ UNCHANGED <<signalled, errors>>

\* The delay that retryStrategy returned is over.
Reconnect ==
    /\ client = "waiting"
    /\ client' = "connecting"
    /\ UNCHANGED <<app, retries, attempts, queue, signalled, drops, errors>>

\* PONG: the factory registers its signal handlers and returns the client.
Pong ==
    /\ client = "ready" /\ "ping" \in queue
    /\ queue' = queue \ {"ping"}
    /\ app' = "building"
    /\ UNCHANGED <<retries, client, attempts, signalled, drops, errors>>

\* An error reply, as of a Redis that cannot write its data to disk (MISCONF).
PingError ==
    /\ client = "ready" /\ "ping" \in queue
    /\ Reject({"ping"})
    /\ errors' = IF errors < PingRetries THEN errors + 1 ELSE errors
    /\ UNCHANGED <<client, attempts, signalled, drops>>

\* The reply to a request's GET.
GetReply ==
    /\ client = "ready" /\ "get" \in queue
    /\ queue' = queue \ {"get"}
    /\ UNCHANGED <<app, retries, client, attempts, signalled, drops, errors>>

\* The reply to QUIT; Redis closes the connection, what was sent after is lost.
QuitReply ==
    /\ client = "ready" /\ "quit" \in queue
    /\ client' = "ended"
    /\ Reject(queue)
    /\ UNCHANGED <<attempts, signalled, drops, errors>>

-----------------------------------------------------------------------------
\* The server.

\* The database was reached and bootstrap gets to enableShutdownHooks and
\* listen (taken as one step) ...
Listen ==
    /\ app = "building"
    /\ app' = "listening"
    /\ UNCHANGED <<retries, client, attempts, queue, signalled, drops, errors>>

\* ... or a provider or listen fails, which ends the process.
BuildFails == app = "building" /\ Exit /\ UNCHANGED signalled

\* Mutant of Request: the client keeps the command although it has ended.
RequestQueued ==
    /\ app = "listening"
    /\ queue' = queue \cup {"get"}
    /\ UNCHANGED <<app, retries, client, attempts, signalled, drops, errors>>

\* A request comes to ask Redis, as DeviceJwtStrategy does for the blacklist.
\* If the client has ended it fails with 500, which changes nothing.
Request ==
    /\ app = "listening"
    /\ client # "ended"
    /\ queue' = queue \cup {"get"}
    /\ UNCHANGED <<app, retries, client, attempts, signalled, drops, errors>>

\* redis.quit() of cleanup: rejected by a client that has ended, a mere
\* disconnect if nothing is connected or queued, else a command like others.
Quit ==
    \/ client = "ended" /\ UNCHANGED <<client, queue>>
    \/ client \in {"connecting", "waiting"} /\ queue = {} /\ client' = "ended" /\ UNCHANGED queue
    \/ /\ client # "ended"
       /\ client = "ready" \/ queue # {}
       /\ queue' = queue \cup {"quit"}
       /\ UNCHANGED client

\* A signal before the factory has its handlers: Node's default.
SignalKills ==
    /\ app \in {"pinging", "pausing", "aborting"}
    /\ Exit
    /\ UNCHANGED signalled

\* A signal while only the factory's handlers are there: they replace Node's
\* default, so the client is closed and the start goes on.
SignalWhileBuilding ==
    /\ app = "building"
    /\ ~signalled
    /\ signalled' = TRUE
    /\ Quit
    /\ UNCHANGED <<app, retries, attempts, drops, errors>>

\* A signal to the running server: both handlers start.
SignalWhileListening ==
    /\ app = "listening"
    /\ signalled' = TRUE
    /\ app' = "closing"
    /\ Quit
    /\ UNCHANGED <<retries, attempts, drops, errors>>

\* Mutant of Disposed: the factory's handlers run once only.
DisposedQuietly ==
    /\ app = "closing"
    /\ "get" \notin queue
    /\ app' = "draining"
    /\ UNCHANGED <<retries, client, attempts, queue, signalled, drops, errors>>

\* Nest has closed the server, after its last request, and sends itself the
\* signal again: the factory's handlers are still there and quit again.
Disposed ==
    /\ app = "closing"
    /\ "get" \notin queue
    /\ app' = "draining"
    /\ Quit
    /\ UNCHANGED <<retries, attempts, signalled, drops, errors>>

\* The event loop is empty.
Drained == app = "draining" /\ client = "ended" /\ Exit /\ UNCHANGED signalled

Factory == Ping \/ Abort
Client  == ConnectFails \/ Ready \/ Drop \/ Reconnect \/ Pong \/ PingError \/ GetReply \/ QuitReply
Server  == \/ Listen \/ BuildFails \/ Request \/ SignalKills \/ SignalWhileBuilding
           \/ SignalWhileListening \/ Disposed \/ Drained

Next == Factory \/ Client \/ Server

Spec == Init /\ [][Next]_vars

\* Timers fire; an attempt at a connection ends (connectTimeout); a Redis that
\* is connected answers; the database connects or TypeORM gives up; Nest
\* closes the server when its requests are answered.
Fairness ==
    /\ WF_vars(Factory)
    /\ WF_vars(ConnectFails \/ Ready)
    /\ WF_vars(Reconnect)
    /\ WF_vars(Pong \/ PingError)
    /\ WF_vars(GetReply)
    /\ WF_vars(QuitReply)
    /\ WF_vars(Listen \/ BuildFails)
    /\ WF_vars(Disposed \/ Drained)

FairSpec == Spec /\ Fairness

-----------------------------------------------------------------------------

(* The client is gone for good only because the connections of one outage     *)
(* failed more often than REDIS_MAX_RETRIES, or somebody asked for it: neither*)
(* the failing pings nor the rejection of queued commands closes a client that*)
(* is still trying (redis.provider.ts:28-31, 71-95).                          *)
EndedForAReason ==
    client = "ended" => attempts > MaxRetries \/ signalled \/ app = "exited"

\* How often ioredis rejects the queue in one outage without giving up.
FlushesPerOutage == MaxRetries \div (MaxRetriesPerRequest + 1)

(* The start is not aborted while Redis is reachable: with a client that has  *)
(* not ended, every failure of the ping loop is due to an error reply, or to  *)
(* an outage (the first connection, or a broken one), in which the commands   *)
(* queued are rejected FlushesPerOutage times at most: once, with the default *)
(* options (redis.provider.ts:20-23, 48-68).                                  *)
AbortMeansOutage ==
    app = "aborting" =>
        client = "ended" \/ PingRetries <= errors + (drops + 1) * FlushesPerOutage

(* The start ends, in a server that listens or in an exit, whatever the two   *)
(* retry loops do to each other: no PING stays queued for ever and none is    *)
(* repeated for ever.                                                         *)
StartEnds == app \in Starting ~> app \notin Starting

(* A request that asks Redis is answered, through outages, reconnections and  *)
(* shutdown: its command is answered or rejected.                             *)
RequestsEnd == "get" \in queue ~> "get" \notin queue

(* A signal to the listening server ends the process, although the first QUIT *)
(* may be queued behind a request's command and rejected with it: the client  *)
(* would then reconnect and keep the event loop alive.                        *)
ShutdownEnds == app = "closing" ~> app = "exited"

(* redis.provider.ts:83 "Graceful shutdown": a signal that the process handles*)
(* ends it.                                                                   *)
SignalEndsProcess == signalled ~> app = "exited"

(* The safety behind the liveness properties, for any options and outages.    *)
(* Nothing waits for a client that is gone: the ping loop never awaits a PING *)
(* that nobody holds, and a client that has ended holds no command            *)
(* (redis.provider.ts:52-67).                                                 *)
NoneForgotten ==
    /\ app = "pinging" => "ping" \in queue
    /\ client = "ended" => queue = {}

(* When Nest has closed the server, the client has ended or has written a     *)
(* QUIT: a QUIT that waits for a connection waits with a request's GET, and   *)
(* is rejected with it before the second signal comes (redis.provider.ts:     *)
(* 84-98).                                                                    *)
QuitGetsOut ==
    app = "draining" => client = "ended" \/ (client = "ready" /\ "quit" \in queue)

(* A signal that came while the factory's handlers were alone.                *)
Swallowed == signalled /\ app = "building"

(* A signal that the process has survived is shutting it down.                *)
SignalShutsDown == signalled => app \in {"closing", "draining", "exited"}
=============================================================================
