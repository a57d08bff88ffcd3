------------------------------- MODULE Lifecycle -------------------------------
(***************************************************************************)
(* One life of the backend process: start, requests and streams, jobs of    *)
(* the three workers, and the shutdown a signal sets off while all of these *)
(* go on. The handlers of two signals run side by side. The start of the    *)
(* indexer is commented out and nothing stops it.                           *)
(***************************************************************************)
EXTENDS Naturals, FiniteSets

CONSTANTS
    Connections,  \* connections made to the server
    Signals       \* SIGTERM and SIGINT received

ASSUME LifeAssumption == IsFiniteSet(Signals)

Workers == {"email", "reconciliation", "safeExecution"}

(* Those workerManager.add was called with                                  *)
Tracked == {"email", "reconciliation"}

VARIABLES
    condition,   \* "starting", "up", and how it ended
    server,    \* httpServer
    line,      \* each connection: a request being served, an SSE stream
    worker,    \* BullMQ workers; "abandoned": closing it timed out
    job,       \* the job each worker has in hand
    stage,     \* gracefulShutdown, for each signal
    shuttingDown, database

lifeVars == <<condition, server, line, worker, job, stage, shuttingDown, database>>

LifeInit ==
    /\ condition = "starting" /\ server = "off" /\ database = "up" /\ shuttingDown = FALSE
    /\ line = [k \in Connections |-> "none"]
    /\ worker = [w \in Workers |-> "off"]
    /\ job = [w \in Workers |-> "idle"]
    /\ stage = [s \in Signals |-> "none"]

LifeTypeOK ==
    /\ condition \in {"starting", "up", "stopped", "forced", "crashed"}
    /\ server \in {"off", "open", "closing", "closed"} /\ database \in {"up", "down"}
    /\ shuttingDown \in BOOLEAN
    /\ line \in [Connections -> {"none", "request", "stream", "over"}]
    /\ worker \in [Workers -> {"off", "running", "closing", "closed", "abandoned"}]
    /\ job \in [Workers -> {"idle", "active"}]
    /\ stage \in [Signals -> {"none", "server", "workers", "database", "redis"}]

Alive == condition \in {"starting", "up"}

-----------------------------------------------------------------------------
(* Start                                                                    *)

(* initializeWorkers: a worker takes jobs as soon as it is made, one after   *)
(* the other, before the server listens.                                    *)
Initialized == \A w \in Workers : worker[w] # "off"

InitializeWorker(w) ==
    /\ condition = "starting" /\ worker[w] = "off"
    /\ w # "email" => worker["email"] = "running"
    /\ w = "safeExecution" => worker["reconciliation"] = "running"
    /\ worker' = [worker EXCEPT ![w] = "running"]
    /\ UNCHANGED <<condition, server, line, job, stage, shuttingDown, database>>

(* The server listens, and only then are the signals handled.               *)
Listen ==
    /\ condition = "starting" /\ Initialized
    /\ condition' = "up" /\ server' = "open"
    /\ UNCHANGED <<line, worker, job, stage, shuttingDown, database>>

(* A failed check or import, an uncaught exception, a signal too early      *)
Dies ==
    /\ Alive
    /\ condition' = "crashed"
    /\ UNCHANGED <<server, line, worker, job, stage, shuttingDown, database>>

-----------------------------------------------------------------------------
(* Work                                                                     *)

Accept(k, kind) ==
    /\ condition = "up" /\ server = "open" /\ line[k] = "none"
    /\ line' = [line EXCEPT ![k] = kind]
    /\ UNCHANGED <<condition, server, worker, job, stage, shuttingDown, database>>

(* A request is answered; a stream stays until the tab is closed.           *)
Ends(k) ==
    /\ condition = "up" /\ line[k] \in {"request", "stream"}
    /\ line' = [line EXCEPT ![k] = "over"]
    /\ UNCHANGED <<condition, server, worker, job, stage, shuttingDown, database>>

Answer(k) == line[k] = "request" /\ Ends(k)
CloseTab(k) == line[k] = "stream" /\ Ends(k)

TakeJob(w) ==
    /\ Alive /\ worker[w] = "running" /\ job[w] = "idle"
    /\ job' = [job EXCEPT ![w] = "active"]
    /\ UNCHANGED <<condition, server, line, worker, stage, shuttingDown, database>>

FinishJob(w) ==
    /\ Alive /\ job[w] = "active"
    /\ job' = [job EXCEPT ![w] = "idle"]
    /\ UNCHANGED <<condition, server, line, worker, stage, shuttingDown, database>>

-----------------------------------------------------------------------------
(* Shutdown                                                                 *)

(* gracefulShutdown: httpServer.close, which a second call finds closing     *)
(* and whose callback it adds to the first.                                 *)
GracefulShutdown(s) ==
    /\ condition = "up" /\ stage[s] = "none"
    /\ stage' = [stage EXCEPT ![s] = "server"]
    /\ server' = IF server = "open" THEN "closing" ELSE server
    /\ UNCHANGED <<condition, line, worker, job, shuttingDown, database>>

(* Node's server is closed when the last connection is.                     *)
ServerCloses ==
    /\ condition = "up" /\ server = "closing"
    /\ \A k \in Connections : line[k] \in {"none", "over"}
    /\ server' = "closed"
    /\ UNCHANGED <<condition, line, worker, job, stage, shuttingDown, database>>

(* Fault: the workers are told while requests are still served.             *)
ClosesWorkersAtOnce(s) ==
    /\ condition = "up" /\ stage[s] = "server" /\ ~shuttingDown
    /\ shuttingDown' = TRUE
    /\ worker' = [w \in Workers |-> IF w \in Tracked THEN "closing" ELSE worker[w]]
    /\ stage' = [stage EXCEPT ![s] = "workers"]
    /\ UNCHANGED <<condition, server, line, job, database>>

(* workerManager.shutdown asks every tracked worker to close ...            *)
ClosesWorkers(s) ==
    /\ condition = "up" /\ stage[s] = "server" /\ server = "closed" /\ ~shuttingDown
    /\ shuttingDown' = TRUE
    /\ worker' = [w \in Workers |-> IF w \in Tracked THEN "closing" ELSE worker[w]]
    /\ stage' = [stage EXCEPT ![s] = "workers"]
    /\ UNCHANGED <<condition, server, line, job, database>>

(* ... and returns at once when it is called again.                         *)
ShutsDownAlready(s) ==
    /\ condition = "up" /\ stage[s] = "server" /\ server = "closed" /\ shuttingDown
    /\ stage' = [stage EXCEPT ![s] = "database"]
    /\ UNCHANGED <<condition, server, line, worker, job, shuttingDown, database>>

(* A closing worker takes no job and is closed after the one in hand ...    *)
WorkerCloses(w) ==
    /\ condition = "up" /\ worker[w] = "closing" /\ job[w] = "idle"
    /\ worker' = [worker EXCEPT ![w] = "closed"]
    /\ UNCHANGED <<condition, server, line, job, stage, shuttingDown, database>>

(* Fault: it is waited for as long as its job lasts.                        *)
WithoutTimeout(w) == WorkerCloses(w)

(* ... or is no longer waited for after 15 s.                               *)
WithTimeout(w) ==
    /\ condition = "up" /\ worker[w] = "closing"
    /\ worker' = [worker EXCEPT ![w] = "abandoned"]
    /\ UNCHANGED <<condition, server, line, job, stage, shuttingDown, database>>

WorkersClosed(s) ==
    /\ condition = "up" /\ stage[s] = "workers"
    /\ \A w \in Tracked : worker[w] \in {"closed", "abandoned"}
    /\ stage' = [stage EXCEPT ![s] = "database"]
    /\ UNCHANGED <<condition, server, line, worker, job, shuttingDown, database>>

(* A second call of pool.end fails, and the error is logged.                *)
DisconnectDatabase(s) ==
    /\ condition = "up" /\ stage[s] = "database"
    /\ database' = "down"
    /\ stage' = [stage EXCEPT ![s] = "redis"]
    /\ UNCHANGED <<condition, server, line, worker, job, shuttingDown>>

(* Redis is disconnected and the process exits, with whatever it has in hand.*)
Exit(s) ==
    /\ condition = "up" /\ stage[s] = "redis"
    /\ condition' = "stopped"
    /\ UNCHANGED <<server, line, worker, job, stage, shuttingDown, database>>

Signalled == \E s \in Signals : stage[s] # "none"

(* 30 s after a signal                                                      *)
ForceExit ==
    /\ condition = "up" /\ Signalled
    /\ condition' = "forced"
    /\ UNCHANGED <<server, line, worker, job, stage, shuttingDown, database>>

ShutdownStep(s) ==
    ClosesWorkers(s) \/ ShutsDownAlready(s) \/ WorkersClosed(s) \/ DisconnectDatabase(s) \/ Exit(s)

LifeNext ==
    \/ Listen \/ Dies \/ ServerCloses \/ ForceExit
    \/ \E k \in Connections :
         Answer(k) \/ CloseTab(k) \/ \E kind \in {"request", "stream"} : Accept(k, kind)
    \/ \E w \in Workers :
         InitializeWorker(w) \/ TakeJob(w) \/ FinishJob(w) \/ WorkerCloses(w) \/ WithTimeout(w)
    \/ \E s \in Signals : GracefulShutdown(s) \/ ShutdownStep(s)

LifeSpec == LifeInit /\ [][LifeNext]_lifeVars

-----------------------------------------------------------------------------
(* Properties                                                               *)

(* index.ts and worker-manager.ts:43, "Ensures active jobs are finished      *)
(* before the process exits": the database outlives every request, and, as  *)
(* long as one signal is received and no worker times out, every job of a   *)
(* tracked worker. A second signal does not wait for the first's workers.   *)
DatabaseOutlivesWork ==
    database = "down" =>
        /\ \A k \in Connections : line[k] \in {"none", "over"}
        /\ Cardinality({s \in Signals : stage[s] # "none"}) = 1 =>
             \A w \in Tracked : worker[w] # "abandoned" => job[w] = "idle"

(* A shutdown that finds no stream open ends by itself, whatever jobs hang   *)
(* and however many signals come; only streams need the 30 s timer.         *)
ShutdownEnds ==
    (Signalled /\ \A k \in Connections : line[k] # "stream") ~> condition \notin {"starting", "up"}
=============================================================================
