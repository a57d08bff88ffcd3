----------------------------- MODULE Backend_proofs -----------------------------
(***************************************************************************)
(* Proofs about what goes on by itself in the backend: the shutdown of the  *)
(* process, for any connections and signals, the catch-up of the indexer,   *)
(* for any contracts, blocks, chunks, crashes, errors and breaks, the       *)
(* notification streams, for any members, tabs and number of messages, the   *)
(* registry, for any finite set of entities, requests and proposals, and    *)
(* the sessions of institutions, for any number of them, calls and resets.  *)
(***************************************************************************)
EXTENDS Indexer, Lifecycle, Notification, EntityRegistry, Session, FiniteSetTheorems, TLAPS

-----------------------------------------------------------------------------
(* THE SHUTDOWN                                                             *)

Past(s) == stage[s] \in {"workers", "database", "redis"}

(* The signal s is the only one received.                                   *)
OnlySignal(s) == \A q \in Signals : stage[q] # "none" => q = s

(* Before the server listens no signal is handled.                          *)
NotStopping ==
    condition = "starting" =>
        server = "off" /\ database = "up" /\ ~shuttingDown /\ \A s \in Signals : stage[s] = "none"

(* A closed server has no connection, and everything that comes after it in *)
(* a shutdown found it closed.                                              *)
ServerFirst ==
    /\ server = "closed" => \A k \in Connections : line[k] \in {"none", "over"}
    /\ \A s \in Signals : Past(s) => server = "closed"
    /\ database = "down" => \E s \in Signals : stage[s] = "redis"

(* The flag of workerManager is set by the signal that asked the workers to  *)
(* close; if it is the only one, it has waited for each of them.            *)
WorkersNext ==
    /\ shuttingDown <=> \E s \in Signals : Past(s)
    /\ \A s \in Signals : stage[s] \in {"database", "redis"} /\ OnlySignal(s) =>
         \A w \in Tracked : worker[w] \in {"closed", "abandoned"}
    /\ \A w \in Workers : worker[w] = "closed" => job[w] = "idle"

LifeInv == LifeTypeOK /\ NotStopping /\ ServerFirst /\ WorkersNext

LEMMA LifeInitially == LifeInit => LifeInv
<1> SUFFICES ASSUME LifeInit PROVE LifeInv
  OBVIOUS
<1>1. LifeTypeOK /\ NotStopping
  BY DEF LifeInit, LifeTypeOK, NotStopping
<1>2. ServerFirst /\ WorkersNext
  BY DEF LifeInit, ServerFirst, WorkersNext, Past
<1> QED
  BY <1>1, <1>2 DEF LifeInv

(* Steps of the start, of the server and of the requests.                   *)
LEMMA ServingStep ==
    ASSUME LifeInv,
           \/ Listen \/ Dies \/ ServerCloses \/ ForceExit
           \/ \E k \in Connections :
                Answer(k) \/ CloseTab(k) \/ \E kind \in {"request", "stream"} : Accept(k, kind)
    PROVE  LifeInv'
<1>1. /\ UNCHANGED <<worker, job, stage, shuttingDown, database>> /\ LifeTypeOK /\ NotStopping
      /\ ServerFirst /\ WorkersNext
  BY DEF Listen, Dies, ServerCloses, ForceExit, Answer, CloseTab, Ends, Accept, LifeInv
<1>2. LifeTypeOK'
  BY <1>1 DEF Listen, Dies, ServerCloses, ForceExit, Answer, CloseTab, Ends, Accept, LifeTypeOK
<1>3. NotStopping'
  BY <1>1 DEF Listen, Dies, ServerCloses, ForceExit, Answer, CloseTab, Ends, Accept, NotStopping, Alive
<1>4. ServerFirst'
  <2>1. server = "closed" => server' = "closed" \/ condition = "starting"
    BY DEF Listen, Dies, ServerCloses, ForceExit, Answer, CloseTab, Ends, Accept
  <2>2. server' = "closed" => \A k \in Connections : line'[k] \in {"none", "over"}
    BY <1>1 DEF Listen, Dies, ServerCloses, ForceExit, Answer, CloseTab, Ends, Accept, LifeTypeOK,
                ServerFirst
  <2>3. \A s \in Signals : Past(s) => server' = "closed"
    BY <1>1, <2>1 DEF ServerFirst, NotStopping, Past
  <2> QED
    BY <1>1, <2>2, <2>3 DEF ServerFirst, Past
<1>5. WorkersNext'
  BY <1>1 DEF WorkersNext, Past, OnlySignal
<1> QED
  BY <1>2, <1>3, <1>4, <1>5 DEF LifeInv

LEMMA WorkerStep ==
    ASSUME LifeInv, NEW w \in Workers,
           InitializeWorker(w) \/ TakeJob(w) \/ FinishJob(w) \/ WorkerCloses(w) \/ WithTimeout(w)
    PROVE  LifeInv'
<1>1. /\ UNCHANGED <<condition, server, line, stage, shuttingDown, database>>
      /\ LifeTypeOK /\ NotStopping /\ ServerFirst /\ WorkersNext
  BY DEF InitializeWorker, TakeJob, FinishJob, WorkerCloses, WithTimeout, LifeInv
<1>2. LifeTypeOK' /\ NotStopping' /\ ServerFirst'
  BY <1>1
  DEF InitializeWorker, TakeJob, FinishJob, WorkerCloses, WithTimeout, LifeTypeOK, NotStopping,
      ServerFirst, Past
<1>3. \A v \in Workers : worker[v] \in {"closed", "abandoned"} => worker'[v] = worker[v]
  BY <1>1 DEF InitializeWorker, TakeJob, FinishJob, WorkerCloses, WithTimeout, LifeTypeOK
<1>4. \A v \in Workers : worker'[v] = "closed" => job'[v] = "idle"
  BY <1>1
  DEF InitializeWorker, TakeJob, FinishJob, WorkerCloses, WithTimeout, LifeTypeOK, WorkersNext
<1>5. WorkersNext'
  BY <1>1, <1>3, <1>4 DEF WorkersNext, Past, OnlySignal, Tracked, Workers
<1> QED
  BY <1>2, <1>5 DEF LifeInv

LEMMA SignalStep ==
    ASSUME LifeInv, NEW s \in Signals, GracefulShutdown(s) \/ ShutdownStep(s)
    PROVE  LifeInv'
<1>0. /\ LifeTypeOK /\ NotStopping /\ ServerFirst /\ WorkersNext /\ line' = line /\ job' = job
      /\ condition = "up"
  BY DEF LifeInv, GracefulShutdown, ShutdownStep, ClosesWorkers, ShutsDownAlready, WorkersClosed,
         DisconnectDatabase, Exit
<1>1. LifeTypeOK'
  <2>1. CASE GracefulShutdown(s)
    BY <1>0, <2>1 DEF LifeTypeOK, GracefulShutdown
  <2>2. CASE ClosesWorkers(s)
    BY <1>0, <2>2 DEF LifeTypeOK, ClosesWorkers
  <2>3. CASE ShutsDownAlready(s) \/ WorkersClosed(s) \/ DisconnectDatabase(s) \/ Exit(s)
    BY <1>0, <2>3 DEF LifeTypeOK, ShutsDownAlready, WorkersClosed, DisconnectDatabase, Exit
  <2> QED
    BY <2>1, <2>2, <2>3 DEF ShutdownStep
<1>2. NotStopping'
  BY <1>0
  DEF NotStopping, GracefulShutdown, ShutdownStep, ClosesWorkers, ShutsDownAlready, WorkersClosed,
      DisconnectDatabase, Exit
<1>3. \A q \in Signals \ {s} : stage'[q] = stage[q]
  BY <1>0
  DEF LifeTypeOK, GracefulShutdown, ShutdownStep, ClosesWorkers, ShutsDownAlready, WorkersClosed,
      DisconnectDatabase, Exit
<1>4. /\ server = "closed" => server' = "closed"
      /\ server' = "closed" => server = "closed"
      /\ Past(s) => Past(s)'
      /\ Past(s)' => server = "closed"
  BY <1>0
  DEF LifeTypeOK, GracefulShutdown, ShutdownStep, ClosesWorkers, ShutsDownAlready, WorkersClosed,
      DisconnectDatabase, Exit, Past, ServerFirst
<1>5. /\ stage[s] = "redis" => stage'[s] = "redis"
      /\ database' = "down" => database = "down" \/ stage'[s] = "redis"
  BY <1>0
  DEF LifeTypeOK, GracefulShutdown, ShutdownStep, ClosesWorkers, ShutsDownAlready, WorkersClosed,
      DisconnectDatabase, Exit
<1>6. ServerFirst'
  <2>1. \A q \in Signals : Past(q)' => server' = "closed"
    BY <1>0, <1>3, <1>4 DEF ServerFirst, Past
  <2>2. database' = "down" => \E q \in Signals : stage'[q] = "redis"
    BY <1>0, <1>3, <1>5 DEF ServerFirst
  <2> QED
    BY <1>0, <1>4, <2>1, <2>2 DEF ServerFirst
<1>7. /\ shuttingDown' <=> shuttingDown \/ Past(s)'
      /\ Past(s) => shuttingDown
  BY <1>0
  DEF LifeTypeOK, GracefulShutdown, ShutdownStep, ClosesWorkers, ShutsDownAlready, WorkersClosed,
      DisconnectDatabase, Exit, Past, WorkersNext
<1>8. shuttingDown' <=> \E q \in Signals : Past(q)'
  BY <1>0, <1>3, <1>4, <1>7 DEF WorkersNext, Past
<1>9. ASSUME NEW q \in Signals, stage'[q] \in {"database", "redis"}, OnlySignal(q)'
      PROVE  \A w \in Tracked : worker'[w] \in {"closed", "abandoned"}
  <2>1. q = s
    <3>1. stage'[s] # "none"
      BY <1>0
      DEF LifeTypeOK, GracefulShutdown, ShutdownStep, ClosesWorkers, ShutsDownAlready,
          WorkersClosed, DisconnectDatabase, Exit
    <3> QED
      BY <1>9, <3>1 DEF OnlySignal
  <2>2. OnlySignal(s)
    BY <1>3, <1>9, <2>1 DEF OnlySignal
  <2>3. CASE WorkersClosed(s)
    BY <2>3 DEF WorkersClosed
  <2>4. CASE DisconnectDatabase(s) \/ Exit(s)
    BY <1>0, <2>2, <2>4 DEF DisconnectDatabase, Exit, WorkersNext
  <2>5. CASE ShutsDownAlready(s)
    BY <1>0, <2>2, <2>5 DEF ShutsDownAlready, WorkersNext, OnlySignal, Past
  <2>6. CASE GracefulShutdown(s) \/ ClosesWorkers(s)
    BY <1>0, <1>9, <2>1, <2>6 DEF GracefulShutdown, ClosesWorkers, LifeTypeOK
  <2> QED
    BY <2>3, <2>4, <2>5, <2>6 DEF ShutdownStep
<1>10. \A w \in Workers : worker'[w] = "closed" => job'[w] = "idle"
  BY <1>0
  DEF GracefulShutdown, ShutdownStep, ClosesWorkers, ShutsDownAlready, WorkersClosed,
      DisconnectDatabase, Exit, WorkersNext
<1>11. WorkersNext'
  BY <1>8, <1>9, <1>10 DEF WorkersNext
<1> QED
  BY <1>1, <1>2, <1>6, <1>11 DEF LifeInv

LEMMA LifeInductive == LifeInv /\ [LifeNext]_lifeVars => LifeInv'
<1> SUFFICES ASSUME LifeInv, [LifeNext]_lifeVars PROVE LifeInv'
  OBVIOUS
<1>1. CASE UNCHANGED lifeVars
  BY <1>1
  DEF lifeVars, LifeInv, LifeTypeOK, NotStopping, ServerFirst, WorkersNext, Past, OnlySignal
<1> QED
  BY <1>1, ServingStep, WorkerStep, SignalStep DEF LifeNext

LEMMA LifePromises == LifeInv => DatabaseOutlivesWork
<1> SUFFICES ASSUME LifeInv, database = "down" PROVE DatabaseOutlivesWork
  BY DEF DatabaseOutlivesWork
<1>1. PICK s \in Signals : stage[s] = "redis"
  BY DEF LifeInv, ServerFirst
<1>2. \A k \in Connections : line[k] \in {"none", "over"}
  BY <1>1 DEF LifeInv, ServerFirst, Past
<1>3. ASSUME Cardinality({q \in Signals : stage[q] # "none"}) = 1, NEW w \in Tracked,
             worker[w] # "abandoned"
      PROVE  job[w] = "idle"
  <2> DEFINE received == {q \in Signals : stage[q] # "none"}
  <2>1. IsFiniteSet(received)
    BY LifeAssumption, FS_Subset
  <2>2. PICK x : received = {x}
    BY <1>3, <2>1, FS_Singleton
  <2>3. OnlySignal(s)
    BY <1>1, <2>2 DEF OnlySignal
  <2>4. w \in Workers /\ worker[w] \in {"closed", "abandoned"}
    BY <1>1, <2>3 DEF LifeInv, WorkersNext, Tracked, Workers
  <2> QED
    BY <1>3, <2>4 DEF LifeInv, WorkersNext
<1> QED
  BY <1>2, <1>3 DEF DatabaseOutlivesWork

(* The database outlives every request, and with one signal every job of a  *)
(* worker that is waited for (index.ts, worker-manager.ts:43).              *)
THEOREM DatabaseOutlivesWorkAlways == LifeSpec => []DatabaseOutlivesWork
BY LifePromises, LifeInitially, LifeInductive, PTL DEF LifeSpec

-----------------------------------------------------------------------------
(* THE CATCH-UP                                                             *)

Scans == [phase : {"off", "next", "chunk", "logs"}, via : Nat, latest : Nat, c : Nat, from : Nat,
          logs : SUBSET Events, base : [Contracts -> Int]]
Marks == Nat \cup {None}

IndexShape ==
    /\ head \in Nat /\ conn \in Nat
    /\ happened \subseteq Events /\ inbox \subseteq Events
    /\ cursor \in [Contracts -> Marks] /\ writing \subseteq Contracts \X Nat
    /\ scan \in Scans

(* Blocks after the scan's last are none of its own, and blocks are not     *)
(* added to.                                                                *)
ScanBehind ==
    /\ scan.latest <= head /\ \A e \in happened : e.b <= head
    /\ scan.phase \in {"chunk", "logs"} => scan.c \in Contracts /\ scan.from <= scan.latest

Handled(e) == e \in done \cup failed

(* The contracts before the scan's are caught up, and of the scan's own the *)
(* blocks before the chunk and the logs of the chunk already handled.       *)
PassedHandled ==
    scan.phase # "off" =>
      \A e \in happened : scan.base[e.c] < e.b /\ e.b <= scan.latest =>
        /\ e.c < scan.c => Handled(e)
        /\ e.c = scan.c /\ scan.phase \in {"chunk", "logs"} /\ e.b < scan.from => Handled(e)
        /\ e.c = scan.c /\ scan.phase = "logs" /\ e.b \in scan.from .. ToBlock =>
             e \in scan.logs \/ Handled(e)

IndexInv == IndexShape /\ ScanBehind /\ PassedHandled

LEMMA EventParts ==
    ASSUME NEW e \in Events
    PROVE  e.c \in Contracts /\ e.c \in Nat /\ e.b \in Nat /\ e.k \in Nat
BY DEF Events, Contracts, Blocks

LEMMA ScanParts ==
    ASSUME IndexShape
    PROVE  /\ scan.latest \in Nat /\ scan.c \in Nat /\ scan.from \in Nat
           /\ scan.base \in [Contracts -> Int] /\ scan.logs \subseteq Events
           /\ scan.phase \in {"off", "next", "chunk", "logs"}
BY DEF IndexShape, Scans

(* The last block of a chunk                                                *)
LEMMA ChunkEnd ==
    ASSUME IndexShape, scan.from <= scan.latest
    PROVE  /\ ToBlock \in Nat /\ scan.from <= ToBlock /\ ToBlock <= scan.latest
           /\ ToBlock = scan.latest \/ ToBlock + 1 = scan.from + ChunkSize
           /\ scan.from + ChunkSize > scan.latest <=> ToBlock = scan.latest
BY ScanParts, IndexerAssumption DEF ToBlock

LEMMA IndexInitially == IndexerInit => IndexInv
<1> SUFFICES ASSUME IndexerInit PROVE IndexInv
  OBVIOUS
<1>1. Idle \in Scans /\ Idle.phase = "off" /\ Idle.latest = 0
  BY DEF Idle, Scans, None, Contracts
<1>2. IndexShape
  BY <1>1 DEF IndexerInit, IndexShape, Marks
<1>3. ScanBehind /\ PassedHandled
  BY <1>1 DEF IndexerInit, ScanBehind, PassedHandled
<1> QED
  BY <1>2, <1>3 DEF IndexInv

(* Steps beside the scan: blocks, live events, cursors, the connection.     *)
LEMMA BesideScan ==
    ASSUME IndexInv, scan' = scan, conn' \in Nat, head' \in Nat, head <= head',
           happened' \subseteq Events, inbox' \subseteq Events,
           cursor' \in [Contracts -> Marks], writing' \subseteq Contracts \X Nat,
           \A e \in happened' \ happened : e.b = head + 1 /\ e.b <= head',
           done \subseteq done', failed \subseteq failed'
    PROVE  IndexInv'
<1>1. IndexShape'
  BY DEF IndexInv, IndexShape
<1>2. /\ head \in Nat /\ scan.latest \in Nat /\ scan.latest <= head /\ happened \subseteq Events
      /\ \A e \in happened : e.b <= head
  BY ScanParts DEF IndexInv, IndexShape, ScanBehind
<1>3. \A e \in happened' : e.b <= head'
  BY <1>2, EventParts
<1>4. ScanBehind'
  BY <1>2, <1>3 DEF IndexInv, ScanBehind
<1>5. \A e \in happened' : e.b <= scan.latest => e \in happened
  BY <1>2
<1>6. ToBlock' = ToBlock /\ \A e : Handled(e) => e \in done' \cup failed'
  BY DEF ToBlock, Handled
<1>7. PassedHandled'
  BY <1>5, <1>6 DEF IndexInv, PassedHandled, Handled
<1> QED
  BY <1>1, <1>4, <1>7 DEF IndexInv

(* Steps of the scan, which find the chain as it is.                        *)
LEMMA ScanMoves ==
    ASSUME IndexInv, UNCHANGED chainVars, scan' \in Scans, conn' \in Nat, inbox' \subseteq Events,
           cursor' \in [Contracts -> Marks], writing' \subseteq Contracts \X Nat,
           ScanBehind', PassedHandled'
    PROVE  IndexInv'
BY DEF IndexInv, IndexShape, chainVars

LEMMA IndexStart ==
    ASSUME IndexInv, UNCHANGED chainVars, conn' \in Nat, inbox' \subseteq Events,
           cursor' = cursor, writing' \subseteq Contracts \X Nat, StartScan \/ scan' = Idle
    PROVE  IndexInv'
<1>0. head \in Nat /\ head' = head /\ happened' = happened /\ happened \subseteq Events
      /\ cursor \in [Contracts -> Marks] /\ \A e \in happened : e.b <= head
  BY DEF IndexInv, IndexShape, ScanBehind, chainVars
<1>1. /\ scan' \in Scans /\ scan'.phase \in {"off", "next"} /\ scan'.latest <= head
      /\ scan'.c = 1
  <2>1. Idle \in Scans /\ Idle.c = 1 /\ Idle.phase = "off" /\ Idle.latest = 0
    BY DEF Idle, Scans, None, Contracts
  <2>2. PICK i \in Scans : i = Idle
    BY <2>1
  <2>3. PICK m \in Nat, h \in Nat : m = conn' /\ h = head
    BY <1>0
  <2>4. scan' = [i EXCEPT !.phase = "next", !.via = m, !.latest = h] \/ scan' = i
    BY <2>2, <2>3 DEF StartScan
  <2>5. CASE scan' = i
    BY <1>0, <2>1, <2>2, <2>5
  <2>6. CASE scan' = [i EXCEPT !.phase = "next", !.via = m, !.latest = h]
    <3>1. /\ scan' \in Scans /\ scan'.phase = "next" /\ scan'.latest = h /\ scan'.c = i.c
      BY <2>6 DEF Scans
    <3> QED
      BY <1>0, <2>1, <2>2, <2>3, <3>1
  <2> QED
    BY <2>4, <2>5, <2>6
<1>2. ScanBehind'
  BY <1>0, <1>1 DEF ScanBehind
<1>3. PassedHandled'
  <2>1. \A e \in happened : ~(e.c < scan'.c)
    BY <1>0, <1>1, EventParts DEF Events, Contracts
  <2> QED
    BY <1>0, <1>1, <2>1 DEF PassedHandled
<1> QED
  BY <1>0, <1>1, <1>2, <1>3, ScanMoves

LEMMA CatchUpContractStep ==
    ASSUME IndexInv, CatchUpContract
    PROVE  IndexInv'
<1> DEFINE c == scan.c
           lastBlock == IF cursor[c] # None THEN cursor[c]
                        ELSE IF scan.latest > FirstWindow THEN scan.latest - FirstWindow ELSE 0
<1>0. /\ IndexShape /\ ScanBehind /\ PassedHandled /\ scan.phase = "next" /\ c \in Contracts
      /\ UNCHANGED <<chainVars, progress, cursor, writing, inbox, conn>>
      /\ scan \in Scans /\ c \in Nat
  BY DEF IndexInv, CatchUpContract, IndexShape, Contracts
<1>1. PICK from \in Nat : from = lastBlock
  <2>1. cursor[c] \in Nat \cup {None} /\ scan.latest \in Nat /\ FirstWindow \in Nat
    BY <1>0, ScanParts, IndexerAssumption DEF IndexShape, Marks
  <2>2. cursor[c] # None => cursor[c] \in Nat
    BY <2>1
  <2>3. lastBlock \in Nat
    BY <2>1, <2>2
  <2> QED
    BY <2>3
<1>2. scan' = IF from >= scan.latest
              THEN [scan EXCEPT !.c = c + 1, !.base[c] = from]
              ELSE [scan EXCEPT !.phase = "chunk", !.from = from + 1, !.base[c] = from]
  BY <1>1 DEF CatchUpContract
<1> HIDE DEF lastBlock
<1>3. PICK base \in [Contracts -> Int] : base = [scan.base EXCEPT ![c] = from]
  <2>1. from \in Int /\ scan.base \in [Contracts -> Int]
    BY <1>0, <1>1, ScanParts
  <2> QED
    BY <2>1
<1>4. CASE from >= scan.latest
  <2>1. scan' = [scan EXCEPT !.c = c + 1, !.base = base]
    BY <1>2, <1>3, <1>4
  <2> PICK n \in Nat : n = c + 1
    BY <1>0
  <2>2. /\ scan' \in Scans /\ scan'.phase = "next" /\ scan'.latest = scan.latest
        /\ scan'.c = n /\ scan'.base = base
    BY <1>0, <2>1 DEF Scans
  <2>3. ScanBehind'
    BY <1>0, <2>2 DEF ScanBehind, chainVars
  <2>4. ASSUME NEW e \in happened, base[e.c] < e.b, e.b <= scan.latest, e.c < c + 1
        PROVE  Handled(e)
    <3>1. e \in Events /\ scan.latest \in Nat
      BY <1>0, ScanParts DEF IndexShape
    <3>2. e.c # c
      BY <1>0, <1>3, <1>4, <2>4, <3>1, EventParts
    <3>3. e.c < c /\ scan.base[e.c] < e.b
      BY <1>0, <1>3, <2>4, <3>1, <3>2, EventParts
    <3> QED
      BY <1>0, <2>4, <3>3 DEF PassedHandled
  <2>5. PassedHandled'
    BY <1>0, <2>2, <2>4 DEF PassedHandled, Handled, chainVars, progress
  <2> QED
    BY <1>0, <2>2, <2>3, <2>5, ScanMoves DEF IndexShape
<1>5. CASE ~(from >= scan.latest)
  <2>0. scan.latest \in Nat
    BY <1>0, ScanParts
  <2>1. scan' = [scan EXCEPT !.phase = "chunk", !.from = from + 1, !.base = base]
    BY <1>2, <1>3, <1>5
  <2>2. /\ scan'.phase = "chunk" /\ scan'.latest = scan.latest /\ scan'.from = from + 1
        /\ scan'.c = c /\ scan'.base = base
    BY <1>0, <2>1 DEF Scans
  <2>3. from + 1 \in Nat
    BY <1>0, <1>1
  <2>4. scan' \in Scans
    BY <1>0, <2>1, <2>3 DEF Scans
  <2>5. ScanBehind'
    BY <1>0, <1>5, <2>0, <2>2 DEF ScanBehind, chainVars
  <2>6. ASSUME NEW e \in happened, base[e.c] < e.b, e.b <= scan.latest
        PROVE  /\ e.c < c => Handled(e)
               /\ e.c = c => ~(e.b < from + 1)
    <3>1. e \in Events /\ e.c \in Contracts /\ e.c \in Nat /\ e.b \in Nat
      BY <1>0, EventParts DEF IndexShape
    <3>2. e.c < c => scan.base[e.c] < e.b
      BY <1>0, <1>3, <2>6, <3>1
    <3>3. e.c = c => from < e.b
      BY <1>0, <1>3, <2>6, <3>1
    <3> QED
      BY <1>0, <2>6, <3>1, <3>2, <3>3 DEF PassedHandled
  <2>7. PassedHandled'
    BY <1>0, <2>2, <2>6 DEF PassedHandled, Handled, chainVars, progress
  <2> QED
    BY <1>0, <2>4, <2>5, <2>7, ScanMoves DEF IndexShape
<1> QED
  BY <1>4, <1>5

LEMMA QueryFilterStep ==
    ASSUME IndexInv, QueryFilter
    PROVE  IndexInv'
<1>0. /\ IndexShape /\ ScanBehind /\ PassedHandled /\ scan.phase = "chunk" /\ scan \in Scans
      /\ UNCHANGED <<chainVars, progress, cursors, inbox, conn>> /\ scan.from <= scan.latest
  BY DEF IndexInv, QueryFilter, IndexShape
<1>1. PICK logs : logs = {e \in happened : e.c = scan.c /\ e.b \in scan.from .. ToBlock}
  OBVIOUS
<1>2. scan' = [scan EXCEPT !.phase = "logs", !.logs = logs] /\ logs \subseteq Events
  BY <1>0, <1>1 DEF QueryFilter, IndexShape
<1>3. /\ scan' \in Scans /\ scan'.phase = "logs" /\ scan'.latest = scan.latest
      /\ scan'.c = scan.c /\ scan'.from = scan.from /\ scan'.base = scan.base /\ scan'.logs = logs
  BY <1>0, <1>2 DEF Scans
<1>4. ScanBehind'
  BY <1>0, <1>3 DEF ScanBehind, chainVars
<1>5. ToBlock' = ToBlock
  BY <1>3 DEF ToBlock
<1>6. PassedHandled'
  BY <1>0, <1>1, <1>3, <1>5 DEF PassedHandled, Handled, chainVars, progress
<1> QED
  BY <1>0, <1>3, <1>4, <1>6, ScanMoves DEF IndexShape, cursors

LEMMA ProcessLogStep ==
    ASSUME IndexInv, NEW l \in scan.logs, ProcessLog(l)
    PROVE  IndexInv'
<1>0. /\ IndexShape /\ ScanBehind /\ PassedHandled /\ scan.phase = "logs" /\ scan \in Scans
      /\ UNCHANGED <<chainVars, cursors, inbox, conn>> /\ Outcome(l)
  BY DEF IndexInv, ProcessLog, IndexShape
<1>1. scan' = [scan EXCEPT !.logs = scan.logs \ {l}]
  BY DEF ProcessLog
<1>2. /\ scan' \in Scans /\ scan'.phase = "logs" /\ scan'.latest = scan.latest
      /\ scan'.c = scan.c /\ scan'.from = scan.from /\ scan'.base = scan.base
      /\ scan'.logs = scan.logs \ {l}
  BY <1>0, <1>1 DEF Scans
<1>3. ScanBehind'
  BY <1>0, <1>2 DEF ScanBehind, chainVars
<1>4. ToBlock' = ToBlock
  BY <1>2 DEF ToBlock
<1>5. \A e : Handled(e) \/ e = l => e \in done' \cup failed'
  BY <1>0 DEF Handled, Outcome
<1>6. PassedHandled'
  BY <1>0, <1>2, <1>4, <1>5 DEF PassedHandled, Handled, chainVars
<1> QED
  BY <1>0, <1>2, <1>3, <1>6, ScanMoves DEF IndexShape, cursors

LEMMA ChunkDoneStep ==
    ASSUME IndexInv, ChunkDone
    PROVE  IndexInv'
<1> DEFINE c == scan.c
<1>0. /\ IndexShape /\ ScanBehind /\ PassedHandled /\ scan.phase = "logs" /\ scan.logs = {}
      /\ scan \in Scans /\ scan.from <= scan.latest /\ c \in Contracts
      /\ UNCHANGED <<chainVars, progress, writing, inbox, conn>>
  BY DEF IndexInv, ChunkDone, IndexShape, ScanBehind
<1>1. /\ ToBlock \in Nat /\ scan.from <= ToBlock /\ ToBlock <= scan.latest
      /\ ToBlock = scan.latest \/ ToBlock + 1 = scan.from + ChunkSize
      /\ scan.from + ChunkSize > scan.latest <=> ToBlock = scan.latest
      /\ c \in Nat /\ scan.latest \in Nat /\ scan.from \in Nat /\ ChunkSize \in Nat
  BY <1>0, ChunkEnd, ScanParts, IndexerAssumption
<1>2. cursor' \in [Contracts -> Marks]
  <2>1. PICK b \in Marks : b = ToBlock
    BY <1>1 DEF Marks
  <2>2. cursor' \in {cursor, [cursor EXCEPT ![c] = b]} /\ cursor \in [Contracts -> Marks]
    BY <1>0, <2>1 DEF ChunkDone, IndexShape
  <2> QED
    BY <1>0, <2>2
<1>3. ASSUME NEW e \in happened, scan.base[e.c] < e.b, e.b <= scan.latest, e.c = c, e.b <= ToBlock
      PROVE  Handled(e)
  <2>1. e.b \in Nat /\ (e.b < scan.from \/ e.b \in scan.from .. ToBlock)
    BY <1>0, <1>1, <1>3, EventParts DEF IndexShape
  <2> QED
    BY <1>0, <1>3, <2>1 DEF PassedHandled
<1>4. ASSUME NEW e \in happened, scan.base[e.c] < e.b, e.b <= scan.latest, e.c < c
      PROVE  Handled(e)
  BY <1>0, <1>4 DEF PassedHandled
<1>5. \A e \in happened : e.c \in Nat /\ e.b \in Nat
  BY <1>0, EventParts DEF IndexShape
<1>6. CASE ToBlock = scan.latest
  <2>1. scan' = [scan EXCEPT !.phase = "next", !.c = c + 1]
    BY <1>1, <1>6 DEF ChunkDone
  <2> PICK n \in Nat : n = c + 1
    BY <1>1
  <2>2. /\ scan' \in Scans /\ scan'.phase = "next" /\ scan'.latest = scan.latest
        /\ scan'.c = n /\ scan'.base = scan.base
    BY <1>0, <2>1 DEF Scans
  <2>3. ScanBehind'
    BY <1>0, <2>2 DEF ScanBehind, chainVars
  <2>4. ASSUME NEW e \in happened, scan.base[e.c] < e.b, e.b <= scan.latest, e.c < c + 1
        PROVE  Handled(e)
    BY <1>1, <1>3, <1>4, <1>5, <1>6, <2>4
  <2>5. PassedHandled'
    BY <1>0, <2>2, <2>4 DEF PassedHandled, Handled, chainVars, progress
  <2> QED
    BY <1>0, <1>2, <2>2, <2>3, <2>5, ScanMoves DEF IndexShape
<1>7. CASE ToBlock # scan.latest
  <2>1. scan' = [scan EXCEPT !.phase = "chunk", !.from = scan.from + ChunkSize]
    BY <1>1, <1>7 DEF ChunkDone
  <2> PICK n \in Nat : n = scan.from + ChunkSize
    BY <1>1
  <2>2. /\ scan' \in Scans /\ scan'.phase = "chunk" /\ scan'.latest = scan.latest
        /\ scan'.c = c /\ scan'.base = scan.base /\ scan'.from = n
    BY <1>0, <2>1 DEF Scans
  <2>0. n = ToBlock + 1
    BY <1>1, <1>7
  <2>3. ScanBehind'
    BY <1>0, <1>1, <1>7, <2>0, <2>2 DEF ScanBehind, chainVars
  <2>4. ASSUME NEW e \in happened, scan.base[e.c] < e.b, e.b <= scan.latest
        PROVE  /\ e.c < c => Handled(e)
               /\ e.c = c /\ e.b < ToBlock + 1 => Handled(e)
    BY <1>1, <1>3, <1>4, <1>5, <2>4
  <2>5. PassedHandled'
    BY <1>0, <2>0, <2>2, <2>4 DEF PassedHandled, Handled, chainVars, progress
  <2> QED
    BY <1>0, <1>2, <2>2, <2>3, <2>5, ScanMoves DEF IndexShape
<1> QED
  BY <1>6, <1>7

LEMMA IndexInductive == IndexInv /\ [IndexerNext]_indexerVars => IndexInv'
<1> SUFFICES ASSUME IndexInv, [IndexerNext]_indexerVars PROVE IndexInv'
  OBVIOUS
<1>0. /\ head \in Nat /\ conn \in Nat /\ happened \subseteq Events /\ inbox \subseteq Events
      /\ cursor \in [Contracts -> Marks] /\ writing \subseteq Contracts \X Nat
  BY DEF IndexInv, IndexShape
<1>1. CASE UNCHANGED indexerVars
  BY <1>0, <1>1, BesideScan DEF indexerVars
<1>2. ASSUME NEW es \in NewEvents, Mine(es) PROVE IndexInv'
  <2>1. es \subseteq Events /\ \A e \in es : e.b = head + 1
    BY DEF NewEvents
  <2>2. /\ head' = head + 1 /\ happened' = happened \cup es /\ inbox' \subseteq inbox \cup es
        /\ UNCHANGED <<progress, cursors, scan, conn>>
    BY <1>2 DEF Mine
  <2>3. /\ head' \in Nat /\ head <= head' /\ happened' \subseteq Events /\ inbox' \subseteq Events
        /\ \A e \in happened' \ happened : e.b = head + 1 /\ e.b <= head'
    BY <1>0, <2>1, <2>2
  <2> QED
    BY <1>0, <2>2, <2>3, BesideScan DEF progress, cursors
<1>3. CASE Boot \/ StopProcess \/ ScanFails \/ Bind \/ (HandleReconnect /\ ~running)
  <2>1. /\ UNCHANGED chainVars /\ conn' \in Nat /\ inbox' \subseteq Events /\ cursor' = cursor
        /\ writing' \subseteq Contracts \X Nat /\ (StartScan \/ scan' = Idle)
    BY <1>0, <1>3 DEF Boot, StopProcess, ScanFails, Bind, HandleReconnect, Connect, cursors
  <2> QED
    BY <2>1, IndexStart
<1>4. CASE ConnectionError \/ (HandleReconnect /\ running)
  <2>1. /\ UNCHANGED <<chainVars, progress, cursors, scan, inbox>> /\ conn' \in Nat
    BY <1>0, <1>4 DEF ConnectionError, HandleReconnect, Connect
  <2> QED
    BY <1>0, <2>1, BesideScan DEF chainVars, progress, cursors
<1>5. ASSUME NEW e \in inbox, HandleLive(e) PROVE IndexInv'
  <2>1. /\ UNCHANGED <<chainVars, cursor, scan, conn>> /\ inbox' \subseteq Events
        /\ done \subseteq done' /\ failed \subseteq failed'
    BY <1>0, <1>5 DEF HandleLive, Outcome
  <2>2. writing' \subseteq Contracts \X Nat
    BY <1>0, <1>5, EventParts DEF HandleLive
  <2> QED
    BY <1>0, <2>1, <2>2, BesideScan DEF chainVars
<1>6. ASSUME NEW w \in writing, WriteCursor(w) PROVE IndexInv'
  <2>1. PICK c \in Contracts, b \in Marks : c = w[1] /\ b = w[2]
    BY <1>0 DEF Marks
  <2>2. /\ UNCHANGED <<chainVars, progress, scan, conn, inbox>>
        /\ cursor' = [cursor EXCEPT ![c] = b] /\ writing' \subseteq Contracts \X Nat
    BY <1>0, <1>6, <2>1 DEF WriteCursor
  <2>3. cursor' \in [Contracts -> Marks]
    BY <1>0, <2>2
  <2> QED
    BY <1>0, <2>2, <2>3, BesideScan DEF chainVars, progress
<1> QED
  BY <1>1, <1>2, <1>3, <1>4, <1>5, <1>6, CatchUpContractStep, QueryFilterStep, ProcessLogStep,
     ChunkDoneStep
  DEF IndexerNext, CatchUp

(* No chunk of past blocks is skipped before the listeners are bound.       *)
THEOREM CaughtUpAlways == IndexerSpec => []CaughtUp
<1>1. IndexInv => CaughtUp
  BY DEF IndexInv, PassedHandled, CaughtUp, Handled
<1> QED
  BY <1>1, IndexInitially, IndexInductive, PTL DEF IndexerSpec

-----------------------------------------------------------------------------
(* TYPES OF THE INDEXER                                                     *)

(* The connection of the scan is gone.                                      *)
CutOff == scan.phase # "off" /\ scan.via \notin open

Once(p) == IF p THEN 1 ELSE 0

(* Every connection but the first is asked for by a stop, an error or a      *)
(* break; a break may ask twice, at once and when the scan it cut off fails. *)
ConnectionsPaid ==
    conn + Once(timer) + Once(CutOff) + Once(process = "down")
        <= 1 + stops + errors + 2 * breaks

ConnectionsKnown == bound <= conn /\ scan.via <= conn /\ open \subseteq 1 .. conn

FittingScans ==
    [phase : {"off", "next", "chunk", "logs"}, via : Nat,
     latest : Blocks \cup {0}, c : 1 .. NumContracts + 1,
     from : 1 .. MaxBlocks + ChunkSize, logs : SUBSET Events,
     base : [Contracts -> Blocks \cup {0, None}]]

EventsFit ==
    /\ happened \subseteq Events /\ done \subseteq Events /\ failed \subseteq Events
    /\ inbox \subseteq Events
    /\ cursor \in [Contracts -> Blocks \cup {0, None}]
    /\ tracker \in [Contracts -> Blocks \cup {0}]
    /\ writing \subseteq Contracts \X Blocks

CountsFit ==
    /\ head \in 0 .. MaxBlocks /\ bound \in Nat /\ conn \in Nat
    /\ running \in BOOLEAN /\ timer \in BOOLEAN /\ process \in {"up", "down"}
    /\ stops \in 0 .. MaxStops /\ breaks \in 0 .. MaxBreaks /\ errors \in 0 .. MaxErrors

RestFits == EventsFit /\ CountsFit

(* The types, with the count of connections their bound rests on.           *)
IndexFits == RestFits /\ scan \in FittingScans /\ ConnectionsPaid /\ ConnectionsKnown

LEMMA IndexHasType == IndexFits => IndexerTypeOK
<1> SUFFICES ASSUME IndexFits PROVE IndexerTypeOK
  OBVIOUS
<1>1. /\ conn <= MaxConnections /\ MaxConnections \in Nat
  <2>1. /\ stops \in 0 .. MaxStops /\ breaks \in 0 .. MaxBreaks /\ errors \in 0 .. MaxErrors
        /\ conn \in Nat /\ MaxStops \in Nat /\ MaxBreaks \in Nat /\ MaxErrors \in Nat
    BY IndexerAssumption DEF IndexFits, RestFits, EventsFit, CountsFit
  <2>2. conn <= 1 + stops + errors + 2 * breaks
    <3>1. /\ Once(timer) \in {0, 1} /\ Once(CutOff) \in {0, 1} /\ Once(process = "down") \in {0, 1}
      BY DEF Once
    <3> QED
      BY <2>1, <3>1 DEF IndexFits, ConnectionsPaid
  <2> QED
    BY <2>1, <2>2 DEF MaxConnections
<1>2. bound \in 0 .. MaxConnections /\ conn \in 0 .. MaxConnections
      /\ open \subseteq 1 .. MaxConnections
  BY <1>1 DEF IndexFits, RestFits, EventsFit, CountsFit, ConnectionsKnown
<1>3. scan.via \in 0 .. MaxConnections
  BY <1>1 DEF IndexFits, RestFits, EventsFit, CountsFit, ConnectionsKnown, FittingScans
<1> QED
  BY <1>2, <1>3 DEF IndexerTypeOK, IndexFits, RestFits, EventsFit, CountsFit, FittingScans

LEMMA OnceBits == /\ \A p : Once(p) \in {0, 1}
                  /\ Once(TRUE) = 1 /\ Once(FALSE) = 0
BY DEF Once

LEMMA IdleFits == Idle \in FittingScans /\ Idle.phase = "off" /\ Idle.via = 0
<1>1. 1 \in 1 .. NumContracts + 1 /\ 1 \in 1 .. MaxBlocks + ChunkSize
  BY IndexerAssumption
<1> QED
  BY <1>1 DEF Idle, FittingScans

LEMMA FitsInitially == IndexerInit => IndexFits
<1> SUFFICES ASSUME IndexerInit PROVE IndexFits
  OBVIOUS
<1>1. RestFits
  <2>1. /\ head = 0 /\ stops = 0 /\ breaks = 0 /\ errors = 0 /\ bound = 0 /\ conn = 0
        /\ 0 \in 0 .. MaxBlocks /\ 0 \in 0 .. MaxStops /\ 0 \in 0 .. MaxBreaks
        /\ 0 \in 0 .. MaxErrors
    BY IndexerAssumption DEF IndexerInit
  <2>2. EventsFit
    BY DEF IndexerInit, EventsFit
  <2>3. running \in BOOLEAN /\ timer \in BOOLEAN /\ process \in {"up", "down"}
    BY Zenon DEF IndexerInit
  <2>4. CountsFit
    BY <2>1, <2>3 DEF CountsFit
  <2> QED
    BY <2>2, <2>4 DEF RestFits
<1>2. scan \in FittingScans /\ scan.phase = "off" /\ scan.via = 0
  BY IdleFits DEF IndexerInit
<1>3. ConnectionsPaid /\ ConnectionsKnown /\ bound \in Nat /\ conn \in Nat
  BY <1>2 DEF IndexerInit, ConnectionsPaid, ConnectionsKnown, Once, CutOff
<1> QED
  BY <1>1, <1>2, <1>3 DEF IndexFits

(* A step that asks for no connection and cuts none off.                    *)
LEMMA SameConnections ==
    ASSUME IndexFits, RestFits', scan' \in FittingScans, errors <= errors',
           UNCHANGED <<bound, conn, open, timer, life>>,
           scan'.via = scan.via, scan'.phase # "off" => scan.phase # "off"
    PROVE  IndexFits'
<1>1. /\ bound' = bound /\ conn' = conn /\ open' = open /\ timer' = timer /\ process' = process
      /\ stops' = stops /\ breaks' = breaks
      /\ errors \in Nat /\ errors' \in Nat /\ stops \in Nat /\ breaks \in Nat /\ conn \in Nat
  BY DEF IndexFits, RestFits, EventsFit, CountsFit, life
<1>2. Once(CutOff') <= Once(CutOff) /\ Once(CutOff) \in Nat /\ Once(CutOff') \in Nat
      /\ Once(timer) \in Nat /\ Once(process = "down") \in Nat
  BY DEF CutOff, Once
<1>3. ConnectionsPaid'
  BY <1>1, <1>2 DEF IndexFits, ConnectionsPaid
<1>4. ConnectionsKnown'
  BY <1>1 DEF IndexFits, ConnectionsKnown
<1> QED
  BY <1>3, <1>4 DEF IndexFits

LEMMA OutcomeFits ==
    ASSUME IndexFits, NEW e \in Events, Outcome(e)
    PROVE  /\ done' \subseteq Events /\ failed' \subseteq Events
           /\ errors' \in 0 .. MaxErrors /\ errors <= errors'
<1>1. done \subseteq Events /\ failed \subseteq Events /\ errors \in 0 .. MaxErrors /\ MaxErrors \in Nat
  BY IndexerAssumption DEF IndexFits, RestFits, EventsFit, CountsFit
<1> QED
  BY <1>1 DEF Outcome

LEMMA CatchUpContractFits ==
    ASSUME IndexFits, CatchUpContract
    PROVE  IndexFits'
<1> DEFINE c == scan.c
           lastBlock == IF cursor[c] # None THEN cursor[c]
                        ELSE IF scan.latest > FirstWindow THEN scan.latest - FirstWindow ELSE 0
<1>0. /\ RestFits /\ scan \in FittingScans /\ c \in Contracts /\ scan.latest \in Blocks \cup {0}
      /\ scan.base \in [Contracts -> Blocks \cup {0, None}]
  BY DEF IndexFits, CatchUpContract, FittingScans
<1>1. PICK from \in Blocks \cup {0} : from = lastBlock
  <2>1. FirstWindow \in Nat /\ MaxBlocks \in Nat
    BY IndexerAssumption
  <2>2. cursor[c] \in Blocks \cup {0, None}
    BY <1>0 DEF RestFits, EventsFit, CountsFit
  <2>3. cursor[c] # None => cursor[c] \in Blocks \cup {0}
    BY <2>2
  <2>4. scan.latest > FirstWindow => scan.latest - FirstWindow \in Blocks \cup {0}
    BY <1>0, <2>1 DEF Blocks
  <2> QED
    BY <2>3, <2>4
<1>2. /\ tracker' = [tracker EXCEPT ![c] = from]
      /\ scan' = IF from >= scan.latest
                 THEN [scan EXCEPT !.c = c + 1, !.base[c] = from]
                 ELSE [scan EXCEPT !.phase = "chunk", !.from = from + 1, !.base[c] = from]
      /\ scan.phase = "next"
      /\ UNCHANGED <<chainVars, progress, cursor, writing, running, bound, inbox, conn, open, timer,
                     life, errors>>
  BY <1>1 DEF CatchUpContract
<1> HIDE DEF lastBlock
<1>3. PICK base \in [Contracts -> Blocks \cup {0, None}] : base = [scan.base EXCEPT ![c] = from]
  BY <1>0
<1>4. PICK n \in 1 .. NumContracts + 1 : n = c + 1
  BY <1>0, IndexerAssumption DEF Contracts
<1>5. PICK f \in 1 .. MaxBlocks + ChunkSize : f = from + 1
  BY <1>0, IndexerAssumption DEF Blocks
<1>6. \/ scan' = [scan EXCEPT !.c = n, !.base = base]
      \/ scan' = [scan EXCEPT !.phase = "chunk", !.from = f, !.base = base]
  BY <1>2, <1>3, <1>4, <1>5
<1>7. scan' \in FittingScans /\ scan'.via = scan.via
  BY <1>0, <1>6 DEF FittingScans
<1>8. RestFits'
  BY <1>0, <1>2 DEF RestFits, EventsFit, CountsFit, chainVars, progress, life
<1>9. errors <= errors'
  BY <1>0, <1>2 DEF RestFits, EventsFit, CountsFit
<1> QED
  BY <1>2, <1>7, <1>8, <1>9, SameConnections

LEMMA QueryFilterFits ==
    ASSUME IndexFits, QueryFilter
    PROVE  IndexFits'
<1>0. RestFits /\ scan \in FittingScans
  BY DEF IndexFits
<1>1. PICK logs \in SUBSET Events : scan' = [scan EXCEPT !.phase = "logs", !.logs = logs]
  BY <1>0 DEF QueryFilter, RestFits, EventsFit, CountsFit
<1>2. scan' \in FittingScans /\ scan'.via = scan.via
  BY <1>0, <1>1 DEF FittingScans
<1>3. /\ UNCHANGED <<chainVars, progress, cursors, running, bound, inbox, conn, open, timer, life,
                     errors>>
      /\ scan.phase = "chunk"
  BY DEF QueryFilter
<1>4. RestFits'
  BY <1>0, <1>3 DEF RestFits, EventsFit, CountsFit, chainVars, progress, cursors, life
<1>5. errors <= errors'
  BY <1>0, <1>3 DEF RestFits, EventsFit, CountsFit
<1> QED
  BY <1>2, <1>3, <1>4, <1>5, SameConnections

LEMMA ProcessLogFits ==
    ASSUME IndexFits, NEW l \in scan.logs, ProcessLog(l)
    PROVE  IndexFits'
<1>0. RestFits /\ scan \in FittingScans /\ scan.logs \subseteq Events
  BY DEF IndexFits, FittingScans
<1>1. PICK logs \in SUBSET Events : logs = scan.logs \ {l}
  BY <1>0
<1>2. scan' = [scan EXCEPT !.logs = logs]
  BY <1>1 DEF ProcessLog
<1>3. scan' \in FittingScans /\ scan'.via = scan.via /\ scan'.phase = scan.phase
  BY <1>0, <1>2 DEF FittingScans
<1>4. /\ UNCHANGED <<chainVars, cursors, running, bound, inbox, conn, open, timer, life>>
      /\ Outcome(l) /\ l \in Events
  BY <1>0 DEF ProcessLog
<1>5. /\ done' \subseteq Events /\ failed' \subseteq Events
      /\ errors' \in 0 .. MaxErrors /\ errors <= errors'
  BY <1>4, OutcomeFits
<1>6. RestFits'
  BY <1>0, <1>4, <1>5 DEF RestFits, EventsFit, CountsFit, chainVars, cursors, life
<1> QED
  BY <1>3, <1>4, <1>5, <1>6, SameConnections

LEMMA ChunkDoneFits ==
    ASSUME IndexInv, IndexFits, ChunkDone
    PROVE  IndexFits'
<1> DEFINE c == scan.c
<1>0. /\ RestFits /\ scan \in FittingScans /\ scan.latest \in Blocks \cup {0}
      /\ scan.phase = "logs" /\ c \in Contracts /\ scan.from <= scan.latest
      /\ UNCHANGED <<chainVars, progress, writing, running, bound, inbox, conn, open, timer, life,
                     errors>>
  BY DEF IndexFits, ChunkDone, FittingScans, IndexInv, ScanBehind
<1>1. /\ ToBlock \in Nat /\ scan.from <= ToBlock /\ ToBlock <= scan.latest
  BY <1>0, ChunkEnd DEF IndexInv
<1>2. PICK b \in Blocks : b = ToBlock
  BY <1>0, <1>1, IndexerAssumption DEF Blocks, FittingScans
<1>3. /\ tracker' \in {tracker, [tracker EXCEPT ![c] = b]}
      /\ cursor' \in {cursor, [cursor EXCEPT ![c] = b]}
  BY <1>2 DEF ChunkDone
<1>4. tracker' \in [Contracts -> Blocks \cup {0}] /\ cursor' \in [Contracts -> Blocks \cup {0, None}]
  BY <1>0, <1>3 DEF RestFits, EventsFit, CountsFit
<1>5. scan' \in FittingScans /\ scan'.via = scan.via
  <2>1. CASE scan.from + ChunkSize > scan.latest
    <3>1. PICK n \in 1 .. NumContracts + 1 : n = c + 1
      BY <1>0, IndexerAssumption DEF Contracts
    <3>2. scan' = [scan EXCEPT !.phase = "next", !.c = n]
      BY <2>1, <3>1 DEF ChunkDone
    <3> QED
      BY <1>0, <3>2 DEF FittingScans
  <2>2. CASE ~(scan.from + ChunkSize > scan.latest)
    <3>1. PICK f \in 1 .. MaxBlocks + ChunkSize : f = scan.from + ChunkSize
      BY <1>0, <2>2, IndexerAssumption DEF Blocks, FittingScans
    <3>2. scan' = [scan EXCEPT !.phase = "chunk", !.from = f]
      BY <2>2, <3>1 DEF ChunkDone
    <3> QED
      BY <1>0, <3>2 DEF FittingScans
  <2> QED
    BY <2>1, <2>2
<1>6. RestFits'
  BY <1>0, <1>4 DEF RestFits, EventsFit, CountsFit, chainVars, progress, life
<1>7. errors <= errors'
  BY <1>0 DEF RestFits, EventsFit, CountsFit
<1> QED
  BY <1>0, <1>5, <1>6, <1>7, SameConnections

(* A new connection is open, so a scan over it is not cut off.              *)
LEMMA ConnectFits ==
    ASSUME IndexFits, RestFits', Connect, UNCHANGED <<bound, stops, breaks, errors>>,
           StartScan \/ scan' = scan,
           Once(timer') + Once(process' = "down") + 1 <= Once(timer) + Once(process = "down")
    PROVE  IndexFits'
<1>0. /\ RestFits /\ scan \in FittingScans /\ conn \in Nat /\ bound \in Nat
      /\ ConnectionsPaid /\ ConnectionsKnown
      /\ errors \in Nat /\ stops \in Nat /\ breaks \in Nat /\ scan.via \in Nat
  BY DEF IndexFits, RestFits, EventsFit, CountsFit, FittingScans
<1>1. PICK n \in Nat : n = conn + 1
  BY <1>0
<1>2. conn' = n /\ open' = open \cup {n}
  BY <1>1 DEF Connect
<1>3. /\ scan' \in FittingScans /\ scan'.via <= n
      /\ CutOff' => CutOff
  <2>1. CASE StartScan
    <3>1. PICK h \in Blocks \cup {0} : h = head
      BY <1>0 DEF RestFits, EventsFit, CountsFit, Blocks
    <3>2. scan' = [Idle EXCEPT !.phase = "next", !.via = n, !.latest = h]
      BY <1>2, <2>1, <3>1 DEF StartScan
    <3>3. PICK i \in FittingScans : i = Idle
      BY IdleFits
    <3>4. scan' \in FittingScans /\ scan'.via = n
      BY <3>2, <3>3 DEF FittingScans
    <3> QED
      BY <1>2, <3>4 DEF CutOff
  <2>2. CASE scan' = scan
    BY <1>0, <1>1, <1>2, <2>2 DEF CutOff, ConnectionsKnown
  <2> QED
    BY <2>1, <2>2
<1>4. ConnectionsKnown'
  BY <1>0, <1>1, <1>2, <1>3 DEF ConnectionsKnown
<1>5. Once(CutOff') <= Once(CutOff)
  BY <1>3, OnceBits DEF Once
<1>6. ConnectionsPaid'
  BY <1>0, <1>1, <1>2, <1>5, OnceBits DEF ConnectionsPaid
<1> QED
  BY <1>3, <1>4, <1>6 DEF IndexFits

(* The scan ends, with the timer set only at the cost of an error, or of the *)
(* break or stop that cut it off.                                           *)
LEMMA ScanEndsFits ==
    ASSUME IndexFits, ScanFails \/ Bind \/ StopProcess
    PROVE  IndexFits'
<1>0. /\ RestFits /\ scan \in FittingScans /\ conn \in Nat /\ bound \in Nat
      /\ ConnectionsPaid /\ ConnectionsKnown
      /\ errors \in Nat /\ stops \in Nat /\ breaks \in Nat /\ scan.via \in Nat
      /\ MaxErrors \in Nat /\ MaxStops \in Nat
  BY IndexerAssumption DEF IndexFits, RestFits, EventsFit, CountsFit, FittingScans
<1>1. scan' = Idle /\ scan' \in FittingScans /\ scan'.via = 0 /\ Once(CutOff') = 0
  BY IdleFits DEF ScanFails, Bind, StopProcess, CutOff, Once
<1>2. CASE ScanFails
  <2>1. /\ UNCHANGED <<chainVars, progress, cursors, bound, inbox, conn, open, life>>
        /\ running' = FALSE /\ timer' = TRUE
        /\ \/ CutOff /\ errors' = errors
           \/ errors < MaxErrors /\ errors' = errors + 1
    BY <1>2 DEF ScanFails, CutOff
  <2>2. errors' \in 0 .. MaxErrors
    BY <1>0, <2>1 DEF RestFits, CountsFit
  <2>3. EventsFit'
    BY <1>0, <2>1 DEF RestFits, EventsFit, chainVars, progress, cursors
  <2>4. CountsFit'
    BY <1>0, <2>1, <2>2 DEF RestFits, CountsFit, chainVars, life
  <2>5. ConnectionsKnown'
    BY <1>0, <1>1, <2>1 DEF ConnectionsKnown
  <2>6. /\ Once(timer') = 1 /\ Once(process' = "down") = Once(process = "down")
        /\ CutOff => Once(CutOff) = 1
    BY <2>1 DEF Once, life
  <2>7. ConnectionsPaid'
    <3>1. CASE Once(CutOff) = 1 /\ errors' = errors
      BY <1>0, <1>1, <2>1, <2>6, <3>1, OnceBits DEF ConnectionsPaid, life
    <3>2. CASE errors' = errors + 1
      BY <1>0, <1>1, <2>1, <2>6, <3>2, OnceBits DEF ConnectionsPaid, life
    <3> QED
      BY <2>1, <2>6, <3>1, <3>2
  <2> QED
    BY <1>1, <2>3, <2>4, <2>5, <2>7 DEF IndexFits, RestFits
<1>3. CASE Bind
  <2>1. /\ UNCHANGED <<chainVars, progress, cursors, running, inbox, conn, open, timer, life, errors>>
        /\ bound' = scan.via
    BY <1>3 DEF Bind
  <2>2. RestFits'
    BY <1>0, <2>1 DEF RestFits, EventsFit, CountsFit, chainVars, progress, cursors, life
  <2>3. ConnectionsKnown'
    BY <1>0, <1>1, <2>1 DEF ConnectionsKnown
  <2>4. ConnectionsPaid'
    BY <1>0, <1>1, <2>1, OnceBits DEF ConnectionsPaid, life
  <2> QED
    BY <1>1, <2>2, <2>3, <2>4 DEF IndexFits
<1>4. CASE StopProcess
  <2>1. /\ process' = "down" /\ stops' = stops + 1 /\ stops < MaxStops /\ process = "up"
        /\ running' = FALSE /\ bound' = 0 /\ inbox' = {} /\ writing' = {}
        /\ open' = {} /\ timer' = FALSE /\ tracker' = [c \in Contracts |-> 0]
        /\ UNCHANGED <<chainVars, progress, cursor, conn, breaks, errors>>
    BY <1>4 DEF StopProcess
  <2>2. EventsFit'
    BY <1>0, <2>1 DEF RestFits, EventsFit, chainVars, progress
  <2>3. running' \in BOOLEAN /\ timer' \in BOOLEAN /\ process' \in {"up", "down"}
    BY <2>1, Zenon
  <2>4. stops' \in 0 .. MaxStops /\ head' = head /\ conn' = conn
    BY <1>0, <2>1 DEF RestFits, CountsFit, chainVars
  <2>5. CountsFit'
    BY <1>0, <2>1, <2>3, <2>4 DEF RestFits, CountsFit
  <2>6. ConnectionsKnown'
    BY <1>0, <1>1, <2>1 DEF ConnectionsKnown
  <2>7. /\ Once(timer') = 0 /\ Once(process' = "down") = 1 /\ Once(process = "down") = 0
    BY <2>1 DEF Once
  <2>8. ConnectionsPaid'
    BY <1>0, <1>1, <2>1, <2>7, OnceBits DEF ConnectionsPaid
  <2> QED
    BY <1>1, <2>2, <2>5, <2>6, <2>8 DEF IndexFits, RestFits
<1> QED
  BY <1>2, <1>3, <1>4

(* A break pays for the timer, and for the scan it cuts off.                *)
LEMMA BreakFits ==
    ASSUME IndexFits, ConnectionError
    PROVE  IndexFits'
<1>0. /\ RestFits /\ scan \in FittingScans /\ conn \in Nat /\ bound \in Nat
      /\ ConnectionsPaid /\ ConnectionsKnown
      /\ errors \in Nat /\ stops \in Nat /\ breaks \in Nat /\ MaxBreaks \in Nat
  BY IndexerAssumption DEF IndexFits, RestFits, EventsFit, CountsFit, FittingScans
<1>1. /\ breaks < MaxBreaks /\ breaks' = breaks + 1 /\ open' \subseteq open /\ timer' = TRUE
      /\ UNCHANGED <<chainVars, progress, cursors, running, scan, bound, inbox, conn, process, stops,
                     errors>>
  BY DEF ConnectionError
<1>2. RestFits'
  BY <1>0, <1>1 DEF RestFits, EventsFit, CountsFit, chainVars, progress, cursors
<1>3. ConnectionsKnown'
  BY <1>0, <1>1 DEF ConnectionsKnown
<1>4. ConnectionsPaid'
  <2>1. Once(timer') = 1 /\ Once(process' = "down") = Once(process = "down")
    BY <1>1 DEF Once
  <2>2. PICK x \in {0, 1}, y \in {0, 1}, z \in {0, 1} :
          x = Once(timer) /\ y = Once(CutOff) /\ z = Once(CutOff')
    BY OnceBits
  <2>3. PICK u \in {0, 1} : u = Once(process = "down")
    BY OnceBits
  <2> QED
    BY <1>0, <1>1, <2>1, <2>2, <2>3 DEF ConnectionsPaid
<1> QED
  BY <1>0, <1>1, <1>2, <1>3, <1>4 DEF IndexFits

(* Blocks, live events and cursors                                          *)
LEMMA MineFits ==
    ASSUME IndexFits, NEW es \in NewEvents, Mine(es)
    PROVE  IndexFits'
<1>0. RestFits /\ scan \in FittingScans /\ errors \in Nat /\ MaxBlocks \in Nat /\ es \subseteq Events
  BY IndexerAssumption DEF IndexFits, RestFits, EventsFit, CountsFit, NewEvents
<1>1. /\ head < MaxBlocks /\ head' = head + 1 /\ happened' = happened \cup es
      /\ inbox' \subseteq inbox \cup es
      /\ UNCHANGED <<progress, cursors, running, scan, bound, conn, open, timer, life, errors>>
  BY DEF Mine
<1>2. RestFits'
  BY <1>0, <1>1 DEF RestFits, EventsFit, CountsFit, progress, cursors, life
<1> QED
  BY <1>0, <1>1, <1>2, SameConnections

LEMMA HandleLiveFits ==
    ASSUME IndexFits, NEW e \in inbox, HandleLive(e)
    PROVE  IndexFits'
<1>0. RestFits /\ scan \in FittingScans /\ e \in Events
  BY DEF IndexFits, RestFits, EventsFit, CountsFit
<1>1. PICK c \in Contracts, b \in Blocks : c = e.c /\ b = e.b
  BY <1>0 DEF Events
<1>2. /\ inbox' = inbox \ {e} /\ Outcome(e)
      /\ tracker' \in {tracker, [tracker EXCEPT ![c] = b]}
      /\ writing' \subseteq writing \cup {<<c, b>>}
      /\ UNCHANGED <<chainVars, cursor, running, scan, bound, conn, open, timer, life>>
  BY <1>1 DEF HandleLive
<1>3. /\ done' \subseteq Events /\ failed' \subseteq Events
      /\ errors' \in 0 .. MaxErrors /\ errors <= errors'
  BY <1>0, <1>2, OutcomeFits
<1>4. tracker' \in [Contracts -> Blocks \cup {0}]
  BY <1>0, <1>2 DEF RestFits, EventsFit, CountsFit
<1>5. writing' \subseteq Contracts \X Blocks
  BY <1>0, <1>2 DEF RestFits, EventsFit, CountsFit
<1>6. RestFits'
  BY <1>0, <1>2, <1>3, <1>4, <1>5 DEF RestFits, EventsFit, CountsFit, chainVars, life
<1> QED
  BY <1>0, <1>2, <1>3, <1>6, SameConnections

LEMMA WriteCursorFits ==
    ASSUME IndexFits, NEW w \in writing, WriteCursor(w)
    PROVE  IndexFits'
<1>0. RestFits /\ scan \in FittingScans /\ errors \in Nat
  BY DEF IndexFits, RestFits, EventsFit, CountsFit
<1>1. PICK c \in Contracts, b \in Blocks : c = w[1] /\ b = w[2]
  BY <1>0 DEF RestFits, EventsFit, CountsFit
<1>2. /\ writing' \subseteq writing /\ cursor' = [cursor EXCEPT ![c] = b]
      /\ UNCHANGED <<chainVars, progress, tracker, running, scan, bound, inbox, conn, open, timer,
                     life, errors>>
  BY <1>1 DEF WriteCursor
<1>3. cursor' \in [Contracts -> Blocks \cup {0, None}]
  BY <1>0, <1>2 DEF RestFits, EventsFit, CountsFit
<1>4. RestFits'
  BY <1>0, <1>2, <1>3 DEF RestFits, EventsFit, CountsFit, chainVars, progress, life
<1> QED
  BY <1>0, <1>2, <1>4, SameConnections

LEMMA FitsInductive == IndexInv /\ IndexFits /\ [IndexerNext]_indexerVars => IndexFits'
<1> SUFFICES ASSUME IndexInv, IndexFits, [IndexerNext]_indexerVars PROVE IndexFits'
  OBVIOUS
<1>0. RestFits /\ scan \in FittingScans /\ errors \in Nat
  BY DEF IndexFits, RestFits, EventsFit, CountsFit
<1>1. CASE UNCHANGED indexerVars
  <2>1. RestFits'
    BY <1>0, <1>1 DEF RestFits, EventsFit, CountsFit, indexerVars
  <2> QED
    BY <1>0, <1>1, <2>1, SameConnections DEF indexerVars, life
<1>2. CASE Boot
  <2>0. conn' \in Nat
    BY <1>0, <1>2 DEF RestFits, CountsFit, Boot, Connect
  <2>1. RestFits'
    BY <1>0, <1>2, <2>0 DEF RestFits, EventsFit, CountsFit, Boot, StartScan, chainVars, progress, cursors
  <2> QED
    BY <1>2, <2>1, ConnectFits DEF Boot, Once
<1>3. CASE HandleReconnect
  <2>0. conn' \in Nat
    BY <1>0, <1>3 DEF RestFits, CountsFit, HandleReconnect, Connect
  <2>1. RestFits'
    BY <1>0, <1>3, <2>0 DEF RestFits, EventsFit, CountsFit, HandleReconnect, StartScan, chainVars, progress, cursors, life
  <2> QED
    BY <1>3, <2>1, ConnectFits DEF HandleReconnect, Once, life
<1> QED
  BY <1>1, <1>2, <1>3, MineFits, ScanEndsFits, BreakFits, HandleLiveFits, WriteCursorFits,
     CatchUpContractFits, QueryFilterFits, ProcessLogFits, ChunkDoneFits
  DEF IndexerNext, CatchUp

-----------------------------------------------------------------------------
(* NOTIFICATIONS                                                            *)

(* The map files an open tab under its own channel and its institution's,   *)
(* and nowhere else; so the two handlers of "close" remove it everywhere.   *)
FiledUnderChannels ==
    \A i \in RoutingIds : \A b \in clients[i] :
        tab[b].stream # "closed" /\ i \in {OwnChannel(b), EntityChannel}

SseInv == SseTypeOK /\ FiledUnderChannels

(* The channels are routing ids, and none is what is cut out of a channel.  *)
LEMMA ChannelFacts ==
    /\ \A m \in Members : NotificationChannel("member", m) \in Channels
    /\ EntityChannel \in Channels /\ Channels \subseteq RoutingIds
    /\ \A c \in Channels : c.prefixed /\ ~ExtractRoutingId(c).prefixed
    /\ \A c \in Channels : ExtractRoutingId(c) \in RoutingIds
<1>1. \A c \in Channels : \E role, id : c = [prefixed |-> TRUE, role |-> role, id |-> id]
  BY DEF Channels, NotificationChannel
<1>2. \A c \in Channels : c.prefixed /\ ~ExtractRoutingId(c).prefixed
  BY <1>1 DEF ExtractRoutingId
<1>3. Channels \subseteq RoutingIds /\ \A c \in Channels : ExtractRoutingId(c) \in RoutingIds
  BY DEF RoutingIds
<1>4. EntityChannel \in Channels /\ \A m \in Members : NotificationChannel("member", m) \in Channels
  BY DEF Channels, EntityChannel
<1> QED
  BY <1>2, <1>3, <1>4

LEMMA SseInitInv == SseInit => SseInv
BY ChannelFacts DEF SseInit, SseInv, SseTypeOK, FiledUnderChannels, NoTab, NoMessage, EntityChannel

(* Opening, leaving and closing a tab.                                      *)
LEMMA TabStepInv ==
    ASSUME SseInv, NEW b \in Tabs,
           LeaveTab(b) \/ OnClose(b) \/ \E m \in Members : OpenStream(b, m)
    PROVE  SseInv'
<1>1. SseTypeOK /\ FiledUnderChannels
  BY DEF SseInv
<1>2. ASSUME NEW m \in Members, OpenStream(b, m) PROVE SseInv'
  <2>1. SseTypeOK'
    BY <1>1, <1>2 DEF SseTypeOK, OpenStream
  <2>2. tab'[b] = [of |-> m, stream |-> "open"] /\ \A a \in Tabs \ {b} : tab'[a] = tab[a]
    BY <1>1, <1>2 DEF SseTypeOK, OpenStream
  <2>3. \A i \in RoutingIds : b \notin clients[i]
    BY <1>1, <1>2 DEF FiledUnderChannels, OpenStream, NoTab
  <2>4. ASSUME NEW i \in RoutingIds, NEW a \in clients'[i]
        PROVE  tab'[a].stream # "closed" /\ i \in {OwnChannel(a)', EntityChannel}
    <3>1. CASE a = b
      BY <1>2, <2>2, <2>3, <2>4, <3>1 DEF OpenStream, OwnChannel
    <3>2. CASE a # b
      <4>1. a \in clients[i] /\ a \in Tabs
        BY <1>1, <1>2, <2>4, <3>2 DEF OpenStream, SseTypeOK
      <4> QED
        BY <1>1, <2>2, <3>2, <4>1 DEF FiledUnderChannels, OwnChannel
    <3> QED
      BY <3>1, <3>2
  <2> QED
    BY <2>1, <2>4 DEF SseInv, FiledUnderChannels, EntityChannel
<1>3. CASE LeaveTab(b)
  <2>1. SseTypeOK'
    BY <1>1, <1>3 DEF SseTypeOK, LeaveTab
  <2>2. \A a \in Tabs : tab'[a].of = tab[a].of /\ (tab'[a].stream = "closed" => tab[a].stream = "closed")
    BY <1>1, <1>3 DEF SseTypeOK, LeaveTab
  <2>3. clients' = clients /\ \A i \in RoutingIds : clients[i] \subseteq Tabs
    BY <1>1, <1>3 DEF SseTypeOK, LeaveTab
  <2> QED
    BY <1>1, <2>1, <2>2, <2>3 DEF SseInv, FiledUnderChannels, OwnChannel, EntityChannel
<1>4. CASE OnClose(b)
  <2>1. SseTypeOK'
    BY <1>1, <1>4 DEF SseTypeOK, OnClose
  <2>2. \A a \in Tabs \ {b} : tab'[a] = tab[a]
    BY <1>1, <1>4 DEF SseTypeOK, OnClose
  <2>3. \A i \in RoutingIds : clients'[i] \subseteq clients[i] \ {b}
    BY <1>1, <1>4 DEF OnClose, FiledUnderChannels
  <2>4. \A i \in RoutingIds : clients[i] \subseteq Tabs
    BY <1>1 DEF SseTypeOK
  <2> QED
    BY <1>1, <2>1, <2>2, <2>3, <2>4 DEF SseInv, FiledUnderChannels, OwnChannel, EntityChannel
<1> QED
  BY <1>2, <1>3, <1>4

(* Publishing and broadcasting leave tabs and map alone.                    *)
LEMMA MessageStepInv ==
    ASSUME SseInv, NEW n \in Messages, BroadcastTo(n) \/ \E c \in Channels : Notify(n, c)
    PROVE  SseInv'
<1>1. SseTypeOK /\ FiledUnderChannels
  BY DEF SseInv
<1>2. UNCHANGED <<tab, clients>>
  BY DEF BroadcastTo, Notify
<1>3. SseTypeOK'
  <2>1. CASE BroadcastTo(n)
    BY <1>1, <2>1 DEF SseTypeOK, BroadcastTo
  <2>2. CASE \E c \in Channels : Notify(n, c)
    BY <1>1, <2>2 DEF SseTypeOK, Notify
  <2> QED
    BY <2>1, <2>2
<1> QED
  BY <1>1, <1>2, <1>3 DEF SseInv, FiledUnderChannels, OwnChannel

LEMMA SseNextInv == SseInv /\ [SseNext]_sseVars => SseInv'
<1> SUFFICES ASSUME SseInv, [SseNext]_sseVars PROVE SseInv'
  OBVIOUS
<1>1. ASSUME NEW b \in Tabs, LeaveTab(b) \/ OnClose(b) \/ \E m \in Members : OpenStream(b, m)
      PROVE  SseInv'
  BY <1>1, TabStepInv
<1>2. ASSUME NEW n \in Messages, BroadcastTo(n) \/ \E c \in Channels : Notify(n, c) PROVE SseInv'
  BY <1>2, MessageStepInv
<1>3. CASE UNCHANGED sseVars
  BY <1>3 DEF sseVars, SseInv, SseTypeOK, FiledUnderChannels, OwnChannel, EntityChannel
<1> QED
  BY <1>1, <1>2, <1>3 DEF SseNext

LEMMA SseInductive == SseSpec => []SseInv
<1>1. SseInv /\ [SseNext]_sseVars => SseInv'
  BY SseNextInv
<1> QED
  BY SseInitInv, <1>1, PTL DEF SseSpec

(* The SSE manager never keeps a tab that is gone, however tabs open, leave *)
(* and close while messages are on their way.                               *)
THEOREM NoGhostTabsAlways == SseSpec => []NoGhostTabs
<1>1. SseInv => NoGhostTabs
  BY DEF SseInv, FiledUnderChannels, NoGhostTabs
<1> QED
  BY SseInductive, <1>1, PTL

(* What is shown to the tabs: nothing, whoever is notified. The routing id  *)
(* cut out of a channel is never one a tab is filed under.                  *)
NothingShown == \A b \in Tabs : shown[b] = {}

LEMMA NothingShownStep ==
    SseInv /\ NothingShown /\ [SseNext]_sseVars => NothingShown'
<1> SUFFICES ASSUME SseInv, NothingShown, [SseNext]_sseVars PROVE NothingShown'
  OBVIOUS
<1>1. ASSUME NEW n \in Messages, BroadcastTo(n) PROVE NothingShown'
  <2>1. published[n].to \in Channels
    BY DEF SseInv, SseTypeOK
  <2>2. ~ExtractRoutingId(published[n].to).prefixed /\ ExtractRoutingId(published[n].to) \in RoutingIds
    BY <2>1, ChannelFacts
  <2>3. \A b \in Tabs : OwnChannel(b).prefixed /\ EntityChannel.prefixed
    BY DEF OwnChannel, EntityChannel, NotificationChannel
  <2>4. \A b \in Tabs : b \notin clients[ExtractRoutingId(published[n].to)]
    BY <2>2, <2>3 DEF SseInv, FiledUnderChannels
  <2> QED
    BY <1>1, <2>4 DEF BroadcastTo, NothingShown
<1>2. CASE UNCHANGED shown
  BY <1>2 DEF NothingShown
<1> QED
  BY <1>1, <1>2 DEF SseNext, sseVars, LeaveTab, OnClose, OpenStream, Notify

(* The finding of NotificationsArrive, for any members, tabs and messages:  *)
(* no notification is ever written to any tab.                              *)
THEOREM NothingShownAlways == SseSpec => []NothingShown
<1>1. SseInit => NothingShown
  BY DEF SseInit, NothingShown
<1>2. SseInv /\ NothingShown /\ [SseNext]_sseVars => NothingShown'
  BY NothingShownStep
<1> QED
  BY SseInductive, <1>1, <1>2, PTL DEF SseSpec

-----------------------------------------------------------------------------
(* THE REGISTRY                                                             *)

RegistryInv == RegistryTypeOK /\ OnChainIdRight

EntityRow == [made : BOOLEAN, onChainId : OnChainIds, active : BOOLEAN]

LEMMA RegistryInitInv == RegistryInit => RegistryInv
<1> SUFFICES ASSUME RegistryInit PROVE RegistryInv
  OBVIOUS
<1>1. 0 \in OnChainIds
  BY RegistryAssumption, FS_CardinalityType DEF OnChainIds
<1>2. entity \in [Entities -> EntityRow] /\ enrolled \in [Entities -> [id : OnChainIds, active : BOOLEAN]]
  BY <1>1 DEF RegistryInit, NoEntity, EntityRow
<1>3. request \in [Requests -> [kind : {"none", "register", "toggle"}, of : One(Entities), fresh : BOOLEAN]]
  BY DEF RegistryInit, NoRequest, One
<1>4. proposal \in [Motions -> [kind : {"none", "register", "toggle"}, of : One(Entities),
                                status : {"absent", "PENDING", "ended", "EXECUTED"},
                                row : {"absent", "PENDING", "MINED"}, says : BOOLEAN]]
  BY DEF RegistryInit, NoMotion, One
<1>5. heard \subseteq {"event", "success"} \X Motions /\ missed \in 0 .. MaxMissed
  BY RegistryAssumption DEF RegistryInit
<1>6. OnChainIdRight
  BY DEF RegistryInit, OnChainIdRight, NoEntity
<1> QED
  BY <1>2, <1>3, <1>4, <1>5, <1>6 DEF RegistryInv, RegistryTypeOK, EntityRow

(* A contract's next number is in range while an entity of its type is left. *)
LEMMA NextIdType ==
    ASSUME NEW e \in Entities, enrolled[e].id = 0
    PROVE  NextId(KindOf[e]) \in OnChainIds \ {0}
<1> DEFINE S == {f \in Entities : KindOf[f] = KindOf[e] /\ enrolled[f].id # 0}
<1>1. IsFiniteSet(Entities) /\ S \subseteq Entities /\ e \notin S
  BY RegistryAssumption
<1>2. IsFiniteSet(S) /\ Cardinality(S) <= Cardinality(Entities)
  BY <1>1, FS_Subset
<1>3. Cardinality(S) # Cardinality(Entities)
  BY <1>1, FS_Subset
<1>4. Cardinality(S) \in Nat /\ Cardinality(Entities) \in Nat
  BY <1>1, <1>2, FS_CardinalityType
<1>5. Cardinality(S) + 1 \in OnChainIds \ {0}
  BY <1>2, <1>3, <1>4 DEF OnChainIds
<1> QED
  BY <1>5 DEF NextId

-----------------------------------------------------------------------------
(* Requests: an entity's row appears or disappears, without an id.          *)
LEMMA RequestStepInv ==
    ASSUME RegistryInv, NEW r \in Requests,
           \/ \E e \in Entities : CreateEntity(r, e) \/ RetryEntityRegistration(r, e)
           \/ \E e \in Entities, wanted \in BOOLEAN : ToggleEntityStatus(r, e, wanted)
           \/ \E p \in Motions : CreateProposal(r, p)
           \/ ProposalRefused(r)
    PROVE  RegistryInv'
<1>1. RegistryTypeOK /\ OnChainIdRight
  BY DEF RegistryInv
<1>2. UNCHANGED <<enrolled, heard, missed>>
  BY DEF CreateEntity, RetryEntityRegistration, ToggleEntityStatus, CreateProposal, ProposalRefused, Asks
<1>3. 0 \in OnChainIds
  BY RegistryAssumption, FS_CardinalityType DEF OnChainIds
<1>4. NoEntity \in EntityRow /\ [NoEntity EXCEPT !.made = TRUE, !.active = TRUE] \in EntityRow
  BY <1>3 DEF NoEntity, EntityRow
<1>5. /\ entity' \in [Entities -> EntityRow]
      /\ \A e \in Entities : entity'[e].onChainId \in {0, entity[e].onChainId}
  <2>1. ASSUME NEW e \in Entities, CreateEntity(r, e)
        PROVE  /\ entity' \in [Entities -> EntityRow]
               /\ \A f \in Entities : entity'[f].onChainId \in {0, entity[f].onChainId}
    BY <1>1, <1>4, <2>1 DEF CreateEntity, RegistryTypeOK, EntityRow, NoEntity
  <2>2. CASE ProposalRefused(r)
    <3>1. entity' = [e \in Entities |-> IF request[r].fresh /\ e \in request[r].of THEN NoEntity
                                        ELSE entity[e]]
      BY <2>2 DEF ProposalRefused
    <3>2. entity \in [Entities -> EntityRow] /\ NoEntity.onChainId = 0
      BY <1>1 DEF RegistryTypeOK, EntityRow, NoEntity
    <3> QED
      BY <1>4, <3>1, <3>2
  <2>3. CASE UNCHANGED entity
    BY <1>1, <2>3 DEF RegistryTypeOK, EntityRow
  <2> QED
    BY <2>1, <2>2, <2>3 DEF RetryEntityRegistration, ToggleEntityStatus, CreateProposal
<1>6. OnChainIdRight'
  BY <1>1, <1>2, <1>5 DEF OnChainIdRight
<1>7. \A e \in Entities : {e} \in One(Entities) /\ {} \in One(Entities)
  BY DEF One
<1>8. /\ request' \in [Requests -> [kind : {"none", "register", "toggle"}, of : One(Entities), fresh : BOOLEAN]]
      /\ proposal' \in [Motions -> [kind : {"none", "register", "toggle"}, of : One(Entities),
                                    status : {"absent", "PENDING", "ended", "EXECUTED"},
                                    row : {"absent", "PENDING", "MINED"}, says : BOOLEAN]]
  <2>1. ASSUME NEW e \in Entities, NEW kind \in {"register", "toggle"}, NEW fresh \in BOOLEAN,
               Asks(r, kind, e, fresh)
        PROVE  <1>8
    BY <1>1, <1>7, <2>1 DEF Asks, RegistryTypeOK
  <2>2. ASSUME NEW p \in Motions, CreateProposal(r, p) PROVE <1>8
    <3>1. proposal' \in [Motions -> [kind : {"none", "register", "toggle"}, of : One(Entities),
                                    status : {"absent", "PENDING", "ended", "EXECUTED"},
                                    row : {"absent", "PENDING", "MINED"}, says : BOOLEAN]]
      BY <1>1, <2>2 DEF CreateProposal, RegistryTypeOK, NoMotion
    <3>2. NoRequest \in [kind : {"none", "register", "toggle"}, of : One(Entities), fresh : BOOLEAN]
      BY DEF NoRequest, One
    <3> QED
      BY <1>1, <2>2, <3>1, <3>2 DEF CreateProposal, RegistryTypeOK
  <2>3. CASE ProposalRefused(r)
    <3>1. NoRequest \in [kind : {"none", "register", "toggle"}, of : One(Entities), fresh : BOOLEAN]
      BY DEF NoRequest, One
    <3> QED
      BY <1>1, <2>3, <3>1 DEF ProposalRefused, RegistryTypeOK
  <2> QED
    BY <2>1, <2>2, <2>3 DEF CreateEntity, RetryEntityRegistration, ToggleEntityStatus
<1> QED
  BY <1>1, <1>2, <1>5, <1>6, <1>8 DEF RegistryInv, RegistryTypeOK, EntityRow

-----------------------------------------------------------------------------
(* The Safe and the contracts: an id is given once, to an entity whose row  *)
(* has none.                                                                *)
LEMMA ChainStepInv ==
    ASSUME RegistryInv, NEW p \in Motions,
           EndProposal(p) \/ \E e \in Entities : ExecuteRegister(p, e) \/ ExecuteToggle(p, e)
    PROVE  RegistryInv'
<1>1. RegistryTypeOK /\ OnChainIdRight
  BY DEF RegistryInv
<1>2. UNCHANGED <<entity, request, missed>>
  BY DEF EndProposal, ExecuteRegister, ExecuteToggle, Executes
<1>3. heard' \subseteq {"event", "success"} \X Motions
  BY <1>1 DEF EndProposal, ExecuteRegister, ExecuteToggle, Executes, RegistryTypeOK
<1>4. proposal' \in [Motions -> [kind : {"none", "register", "toggle"}, of : One(Entities),
                                 status : {"absent", "PENDING", "ended", "EXECUTED"},
                                 row : {"absent", "PENDING", "MINED"}, says : BOOLEAN]]
  <2>1. CASE EndProposal(p)
    BY <1>1, <2>1 DEF EndProposal, RegistryTypeOK
  <2>2. ASSUME NEW e \in Entities, NEW says \in BOOLEAN, Executes(p, e, says) PROVE <1>4
    <3>1. PICK row \in {"absent", "PENDING"} :
            proposal' = [proposal EXCEPT ![p].status = "ended", ![p].row = row, ![p].says = says]
      BY <2>2 DEF Executes
    <3>2. /\ proposal[p] \in [kind : {"none", "register", "toggle"}, of : One(Entities),
                              status : {"absent", "PENDING", "ended", "EXECUTED"},
                              row : {"absent", "PENDING", "MINED"}, says : BOOLEAN]
          /\ \A q \in Motions \ {p} : proposal'[q] = proposal[q]
      BY <1>1, <3>1 DEF RegistryTypeOK
    <3>3. proposal'[p] = [kind |-> proposal[p].kind, of |-> proposal[p].of, status |-> "ended",
                          row |-> row, says |-> says]
      BY <1>1, <3>1, <3>2 DEF RegistryTypeOK
    <3>4. proposal'[p] \in [kind : {"none", "register", "toggle"}, of : One(Entities),
                            status : {"absent", "PENDING", "ended", "EXECUTED"},
                            row : {"absent", "PENDING", "MINED"}, says : BOOLEAN]
      BY <3>2, <3>3
    <3> QED
      BY <1>1, <3>1, <3>2, <3>4 DEF RegistryTypeOK
  <2>3. \A e \in Entities : (~enrolled[e].active) \in BOOLEAN
    OBVIOUS
  <2> QED
    BY <2>1, <2>2, <2>3 DEF ExecuteRegister, ExecuteToggle
<1>5. /\ enrolled' \in [Entities -> [id : OnChainIds, active : BOOLEAN]]
      /\ \A e \in Entities : enrolled[e].id # 0 => enrolled'[e].id = enrolled[e].id
  <2>1. ASSUME NEW e \in Entities, ExecuteRegister(p, e) PROVE <1>5
    <3>1. NextId(KindOf[e]) \in OnChainIds
      BY <2>1, NextIdType DEF ExecuteRegister
    <3> QED
      BY <1>1, <2>1, <3>1 DEF ExecuteRegister, RegistryTypeOK
  <2>2. ASSUME NEW e \in Entities, ExecuteToggle(p, e) PROVE <1>5
    <3> DEFINE flipped == ~enrolled[e].active
    <3>1. enrolled' = [enrolled EXCEPT ![e].active = flipped]
      BY <2>2 DEF ExecuteToggle
    <3>2. flipped \in BOOLEAN
      OBVIOUS
    <3>3. enrolled \in [Entities -> [id : OnChainIds, active : BOOLEAN]]
      BY <1>1 DEF RegistryTypeOK
    <3> HIDE DEF flipped
    <3> QED
      BY <3>1, <3>2, <3>3
  <2>3. CASE EndProposal(p)
    BY <1>1, <2>3 DEF EndProposal, RegistryTypeOK
  <2> QED
    BY <2>1, <2>2, <2>3
<1> QED
  BY <1>1, <1>2, <1>3, <1>4, <1>5 DEF RegistryInv, RegistryTypeOK, OnChainIdRight

-----------------------------------------------------------------------------
(* The indexer and the sweep: an id is written as the contract gave it.     *)
LEMMA RecordStepInv ==
    ASSUME RegistryInv, NEW p \in Motions,
           \/ HandleExecutionSuccess(p) \/ SweepExecution(p)
           \/ \E e \in Entities : HandleRegistration(p, e) \/ \E f \in Entities : HandleToggle(p, e, f)
    PROVE  RegistryInv'
<1>1. RegistryTypeOK /\ OnChainIdRight
  BY DEF RegistryInv
<1>2. UNCHANGED <<enrolled, request, missed>> /\ heard' \subseteq heard
  BY DEF HandleExecutionSuccess, SweepExecution, HandleRegistration, HandleToggle, Handles
<1>3. proposal' \in [Motions -> [kind : {"none", "register", "toggle"}, of : One(Entities),
                                 status : {"absent", "PENDING", "ended", "EXECUTED"},
                                 row : {"absent", "PENDING", "MINED"}, says : BOOLEAN]]
  BY <1>1 DEF RegistryTypeOK, HandleExecutionSuccess, SweepExecution, HandleRegistration, HandleToggle
<1>4. /\ entity' \in [Entities -> EntityRow]
      /\ \A e \in Entities : entity'[e].onChainId \in {entity[e].onChainId, enrolled[e].id}
  <2>1. entity \in [Entities -> EntityRow] /\ \A e \in Entities : enrolled[e].id \in OnChainIds
    BY <1>1 DEF RegistryTypeOK, EntityRow
  <2>2. ASSUME NEW e \in Entities, HandleRegistration(p, e) PROVE <1>4
    BY <2>1, <2>2 DEF HandleRegistration, EntityRow
  <2>3. ASSUME NEW e \in Entities, NEW f \in Entities, HandleToggle(p, e, f) PROVE <1>4
    <3>1. proposal[p].says \in BOOLEAN
      BY <1>1 DEF RegistryTypeOK
    <3> QED
      BY <2>1, <2>3, <3>1 DEF HandleToggle, EntityRow
  <2>4. CASE SweepExecution(p)
    <3>1. proposal[p].says \in BOOLEAN
      BY <1>1 DEF RegistryTypeOK
    <3> QED
      BY <2>1, <2>4, <3>1 DEF SweepExecution, EntityRow
  <2>5. CASE HandleExecutionSuccess(p)
    BY <2>1, <2>5 DEF HandleExecutionSuccess
  <2> QED
    BY <2>2, <2>3, <2>4, <2>5
<1>5. OnChainIdRight'
  BY <1>1, <1>2, <1>4 DEF OnChainIdRight
<1> QED
  BY <1>1, <1>2, <1>3, <1>4, <1>5 DEF RegistryInv, RegistryTypeOK, EntityRow

-----------------------------------------------------------------------------
(* THEOREMS                                                                 *)

LEMMA RegistryNextInv == RegistryInv /\ [RegistryNext]_registryVars => RegistryInv'
<1> SUFFICES ASSUME RegistryInv, [RegistryNext]_registryVars PROVE RegistryInv'
  OBVIOUS
<1>1. ASSUME NEW h \in heard, MissEvent(h) PROVE RegistryInv'
  BY <1>1, RegistryAssumption DEF MissEvent, RegistryInv, RegistryTypeOK, OnChainIdRight
<1>2. CASE UNCHANGED registryVars
  BY <1>2 DEF registryVars, RegistryInv, RegistryTypeOK, OnChainIdRight
<1> QED
  BY <1>1, <1>2, RequestStepInv, ChainStepInv, RecordStepInv DEF RegistryNext

(* Every institution is known by the id its own contract gave it, whichever *)
(* of the indexer and the sweep wrote it, in any order, whatever proposals   *)
(* were made for it and whatever events were missed.                        *)
THEOREM OnChainIdRightAlways == RegistrySpec => []OnChainIdRight
<1>1. RegistryInv /\ [RegistryNext]_registryVars => RegistryInv'
  BY RegistryNextInv
<1>2. RegistryInv => OnChainIdRight
  BY DEF RegistryInv
<1> QED
  BY RegistryInitInv, <1>1, <1>2, PTL DEF RegistrySpec

-----------------------------------------------------------------------------
(* SESSIONS                                                                 *)

(* The flag is set exactly as long as the one refresh is in flight.         *)
FlagSound ==
    /\ ~isRefreshing => renewal = {}
    /\ \A v, w \in renewal : v = w

(* What a reset found had been issued, and is over once the reset is.       *)
ResetSound ==
    \A r \in Resets : \A s \in reset[r].found :
        session[s] # "none" /\ (reset[r].at = "done" => session[s] # "valid")

SessionInv == SessionTypeOK /\ FlagSound /\ ResetSound

LEMMA SessionInitInv == SessionInit => SessionInv
<1> SUFFICES ASSUME SessionInit PROVE SessionInv
  OBVIOUS
<1>1. SessionTypeOK
  <2>1. session \in [Sessions -> {"none", "valid", "revoked", "expired"}] /\ entering \in 0 .. MaxSessions
    BY SessionAssumption DEF SessionInit
  <2>2. reset \in [Resets -> [at : {"idle", "checked", "changed", "used", "done"},
                              found : SUBSET Sessions]]
    BY DEF SessionInit
  <2>3. /\ cookie \in [session : Sessions \cup {0}, fresh : BOOLEAN]
        /\ call \in [Calls -> [at : {"idle", "sent", "queued", "ok", "failed"}, fresh : BOOLEAN,
                               retried : BOOLEAN]]
    BY DEF SessionInit, NoCall
  <2> QED
    BY <2>1, <2>2, <2>3 DEF SessionInit, SessionTypeOK
<1>2. FlagSound /\ ResetSound
  BY DEF SessionInit, FlagSound, ResetSound
<1> QED
  BY <1>1, <1>2 DEF SessionInv

-----------------------------------------------------------------------------
(* THE ACCOUNT                                                              *)

(* Sessions never become unissued again, and none but an unissued one       *)
(* becomes valid: that keeps what every reset found.                        *)
LEMMA ResetsKept ==
    ASSUME SessionInv, UNCHANGED reset,
           \A s \in Sessions : /\ session[s] # "none" => session'[s] # "none"
                               /\ session'[s] = "valid" => session[s] \in {"none", "valid"}
    PROVE  ResetSound'
<1>1. \A r \in Resets : reset[r].found \subseteq Sessions
  BY DEF SessionInv, SessionTypeOK
<1> QED
  BY <1>1 DEF SessionInv, ResetSound

LEMMA RevokedFacts ==
    ASSUME SessionInv, NEW from, session' = Revoked(from)
    PROVE  /\ session' \in [Sessions -> {"none", "valid", "revoked", "expired"}]
           /\ \A s \in Sessions : /\ session[s] # "none" => session'[s] # "none"
                                  /\ session'[s] = "valid" => session[s] = "valid" /\ s \notin from
BY DEF SessionInv, SessionTypeOK, Revoked

(* Logins, logouts, expiry and the request of a code.                       *)
LEMMA LoginStepInv ==
    ASSUME SessionInv,
           \/ LoginChecked \/ Logout \/ RequestPasswordReset
           \/ \E s \in Sessions : IssueTokenPair(s) \/ SessionExpires(s)
    PROVE  SessionInv'
<1>1. SessionTypeOK /\ FlagSound /\ ResetSound
  BY DEF SessionInv
<1>2. UNCHANGED <<reset, isRefreshing, renewal, call>>
  BY DEF LoginChecked, Logout, RequestPasswordReset, IssueTokenPair, SessionExpires, tabVars
<1>3. FlagSound'
  BY <1>1, <1>2 DEF FlagSound
<1>4. CASE LoginChecked
  <2>1. entering' \in 0 .. MaxSessions
    <3>1. Cardinality({s \in Sessions : session[s] = "none"}) <= MaxSessions
      <4>1. IsFiniteSet(Sessions) /\ Cardinality(Sessions) = MaxSessions
        BY SessionAssumption, FS_Interval DEF Sessions
      <4> QED
        BY <4>1, FS_Subset
    <3>2. Cardinality({s \in Sessions : session[s] = "none"}) \in Nat
      <4>1. IsFiniteSet(Sessions)
        BY SessionAssumption, FS_Interval DEF Sessions
      <4> QED
        BY <4>1, FS_Subset, FS_CardinalityType
    <3> DEFINE free == Cardinality({s \in Sessions : session[s] = "none"})
    <3>3. free \in Nat /\ free <= MaxSessions /\ entering \in Nat /\ entering' = entering + 1 /\ free > entering
      BY <1>1, <1>4, <3>1, <3>2 DEF LoginChecked, SessionTypeOK
    <3> QED
      BY <3>3, SessionAssumption
  <2> QED
    BY <1>1, <1>2, <1>3, <1>4, <2>1 DEF LoginChecked, SessionInv, SessionTypeOK, ResetSound, tabVars
<1>5. CASE Logout
  <2>1. session' = Revoked({cookie.session}) /\ UNCHANGED <<entering, otp>>
    BY <1>5 DEF Logout
  <2>2. cookie' \in [session : Sessions \cup {0}, fresh : BOOLEAN]
    BY <1>5 DEF Logout
  <2>3. ResetSound'
    BY <1>2, <2>1, RevokedFacts, ResetsKept
  <2>4. SessionTypeOK'
    BY <1>1, <1>2, <2>1, <2>2, RevokedFacts DEF SessionTypeOK
  <2> QED
    BY <1>3, <2>3, <2>4 DEF SessionInv
<1>6. CASE RequestPasswordReset
  BY <1>1, <1>2, <1>3, <1>6 DEF RequestPasswordReset, SessionInv, SessionTypeOK, ResetSound, tabVars
<1>7. ASSUME NEW s \in Sessions, IssueTokenPair(s) PROVE SessionInv'
  <2>1. session[s] = "none" /\ session' = [session EXCEPT ![s] = "valid"]
    BY <1>7 DEF IssueTokenPair, Unused
  <2>2. entering' \in 0 .. MaxSessions
    BY <1>1, <1>7, SessionAssumption DEF IssueTokenPair, SessionTypeOK
  <2>3. ResetSound'
    BY <1>1, <1>2, <2>1, ResetsKept DEF SessionTypeOK
  <2>4. SessionTypeOK'
    BY <1>1, <1>2, <1>7, <2>1, <2>2 DEF IssueTokenPair, SessionTypeOK
  <2> QED
    BY <1>3, <2>3, <2>4 DEF SessionInv
<1>8. ASSUME NEW s \in Sessions, SessionExpires(s) PROVE SessionInv'
  <2>1. ResetSound'
    BY <1>1, <1>2, <1>8, ResetsKept DEF SessionExpires, SessionTypeOK
  <2> QED
    BY <1>1, <1>2, <1>3, <1>8, <2>1 DEF SessionExpires, SessionInv, SessionTypeOK, tabVars
<1> QED
  BY <1>4, <1>5, <1>6, <1>7, <1>8

(* A reset's own steps.                                                     *)
LEMMA ResetStepInv ==
    ASSUME SessionInv, NEW r \in Resets,
           \/ ResetChecked(r) \/ UpdateMemberPassword(r) \/ MarkOtpUsed(r)
           \/ RevokeAllMemberTokens(r) \/ ResetAborted(r)
    PROVE  SessionInv'
<1>1. SessionTypeOK /\ FlagSound /\ ResetSound
  BY DEF SessionInv
<1>2. UNCHANGED <<entering, tabVars>>
  BY DEF ResetChecked, UpdateMemberPassword, MarkOtpUsed, RevokeAllMemberTokens, ResetAborted, ResetStep
<1>3. FlagSound'
  BY <1>1, <1>2 DEF FlagSound, tabVars
<1>4. /\ otp' \in {"none", "valid", "used"}
      /\ session' \in [Sessions -> {"none", "valid", "revoked", "expired"}]
  <2>1. CASE RevokeAllMemberTokens(r)
    <3>1. session' = Revoked(Sessions) /\ UNCHANGED otp
      BY <2>1 DEF RevokeAllMemberTokens
    <3> QED
      BY <1>1, <3>1, RevokedFacts DEF SessionTypeOK
  <2> QED
    BY <1>1, <2>1 DEF SessionTypeOK, ResetChecked, UpdateMemberPassword, MarkOtpUsed, ResetAborted, ResetStep
<1>5. /\ \A q \in Resets \ {r} : reset'[q] = reset[q]
      /\ reset' \in [Resets -> [at : {"idle", "checked", "changed", "used", "done"},
                                found : SUBSET Sessions]]
  <2>1. CASE ResetAborted(r)
    BY <1>1, <2>1 DEF ResetAborted, SessionTypeOK
  <2>2. ASSUME NEW from \in {"idle", "checked", "changed", "used"},
               NEW to \in {"checked", "changed", "used", "done"}, ResetStep(r, from, to)
        PROVE  /\ \A q \in Resets \ {r} : reset'[q] = reset[q]
               /\ reset' \in [Resets -> [at : {"idle", "checked", "changed", "used", "done"},
                                         found : SUBSET Sessions]]
    BY <1>1, <2>2 DEF ResetStep, SessionTypeOK
  <2> QED
    BY <2>1, <2>2 DEF ResetChecked, UpdateMemberPassword, MarkOtpUsed, RevokeAllMemberTokens
<1>6. \A s \in Sessions : /\ session[s] # "none" => session'[s] # "none"
                          /\ session'[s] = "valid" => session[s] = "valid"
  BY RevokedFacts DEF ResetChecked, UpdateMemberPassword, MarkOtpUsed, RevokeAllMemberTokens, ResetAborted
<1>7. \A s \in reset'[r].found :
        session'[s] # "none" /\ (reset'[r].at = "done" => session'[s] # "valid")
  <2>1. CASE ResetChecked(r)
    BY <1>1, <2>1 DEF ResetChecked, ResetStep, SessionTypeOK
  <2>2. CASE UpdateMemberPassword(r) \/ MarkOtpUsed(r)
    BY <1>1, <2>2 DEF UpdateMemberPassword, MarkOtpUsed, ResetStep, SessionTypeOK, ResetSound
  <2>3. CASE RevokeAllMemberTokens(r)
    <3>1. reset'[r].found = reset[r].found /\ reset[r].found \subseteq Sessions
      BY <1>1, <2>3 DEF RevokeAllMemberTokens, ResetStep, SessionTypeOK
    <3>2. \A s \in Sessions : session'[s] # "valid"
      BY <2>3, RevokedFacts DEF RevokeAllMemberTokens
    <3> QED
      BY <1>1, <1>6, <3>1, <3>2 DEF ResetSound
  <2>4. CASE ResetAborted(r)
    BY <1>1, <2>4 DEF ResetAborted, SessionTypeOK
  <2> QED
    BY <2>1, <2>2, <2>3, <2>4
<1>8. ResetSound'
  BY <1>1, <1>5, <1>6, <1>7 DEF ResetSound, SessionTypeOK
<1>9. SessionTypeOK'
  BY <1>1, <1>2, <1>4, <1>5 DEF SessionTypeOK, tabVars
<1> QED
  BY <1>3, <1>8, <1>9 DEF SessionInv

-----------------------------------------------------------------------------
(* THE TAB                                                                  *)

(* A step that leaves the account alone keeps what resets found.            *)
LEMMA AccountFrame ==
    ASSUME SessionInv, UNCHANGED accountVars
    PROVE  /\ ResetSound'
           /\ session' \in [Sessions -> {"none", "valid", "revoked", "expired"}]
           /\ entering' \in 0 .. MaxSessions /\ otp' \in {"none", "valid", "used"}
           /\ reset' \in [Resets -> [at : {"idle", "checked", "changed", "used", "done"},
                                     found : SUBSET Sessions]]
BY DEF SessionInv, SessionTypeOK, ResetSound, accountVars

LEMMA CallStepInv ==
    ASSUME SessionInv, NEW q \in Calls,
           SendCall(q) \/ CallSettles(q) \/ CallFails(q) \/ Unauthorized(q) \/ AccessExpires
    PROVE  SessionInv'
<1>1. SessionTypeOK /\ FlagSound /\ ResetSound
  BY DEF SessionInv
<1>2. UNCHANGED accountVars
  BY DEF SendCall, CallSettles, CallFails, Unauthorized, AccessExpires
<1>3. /\ cookie' \in [session : Sessions \cup {0}, fresh : BOOLEAN]
      /\ call' \in [Calls -> [at : {"idle", "sent", "queued", "ok", "failed"}, fresh : BOOLEAN,
                              retried : BOOLEAN]]
  <2>1. CASE AccessExpires
    BY <1>1, <2>1 DEF AccessExpires, SessionTypeOK
  <2>2. CASE SendCall(q)
    BY <1>1, <2>2 DEF SendCall, Sent, SessionTypeOK
  <2>3. CASE CallSettles(q) \/ CallFails(q)
    BY <1>1, <2>3 DEF CallSettles, CallFails, SessionTypeOK
  <2>4. CASE Unauthorized(q)
    BY <1>1, <2>4 DEF Unauthorized, SessionTypeOK
  <2> QED
    BY <2>1, <2>2, <2>3, <2>4
<1>4. /\ FlagSound' /\ isRefreshing' \in BOOLEAN
      /\ renewal' \subseteq [by : Calls, answer : {"none", "ok", "refused"}]
  <2>1. CASE Unauthorized(q) /\ ~isRefreshing
    <3>1. isRefreshing' = TRUE /\ renewal' = {[by |-> q, answer |-> "none"]}
      BY <1>1, <2>1 DEF Unauthorized, FlagSound
    <3> QED
      BY <3>1 DEF FlagSound
  <2>2. CASE UNCHANGED <<isRefreshing, renewal>>
    BY <1>1, <2>2 DEF FlagSound, SessionTypeOK
  <2> QED
    BY <2>1, <2>2 DEF SendCall, CallSettles, CallFails, Unauthorized, AccessExpires
<1> QED
  BY <1>2, <1>3, <1>4, AccountFrame DEF SessionInv, SessionTypeOK

LEMMA RefreshStepInv ==
    ASSUME SessionInv, NEW w \in renewal,
           RefreshAccessToken(w) \/ RefreshLost(w) \/ OnRefreshComplete(w)
    PROVE  SessionInv'
<1>1. SessionTypeOK /\ FlagSound /\ ResetSound
  BY DEF SessionInv
<1>2. UNCHANGED accountVars
  BY DEF RefreshAccessToken, RefreshLost, OnRefreshComplete
<1>3. /\ renewal = {w} /\ isRefreshing /\ isRefreshing \in BOOLEAN
      /\ w \in [by : Calls, answer : {"none", "ok", "refused"}]
  BY <1>1 DEF FlagSound, SessionTypeOK
<1>4. /\ cookie' \in [session : Sessions \cup {0}, fresh : BOOLEAN]
      /\ call' \in [Calls -> [at : {"idle", "sent", "queued", "ok", "failed"}, fresh : BOOLEAN,
                              retried : BOOLEAN]]
  <2>1. CASE RefreshAccessToken(w) \/ RefreshLost(w)
    <3>1. call' = call /\ cookie' \in {cookie, [cookie EXCEPT !.fresh = TRUE],
                                       [session |-> 0, fresh |-> FALSE]}
      BY <2>1 DEF RefreshAccessToken, RefreshLost
    <3>2. cookie \in [session : Sessions \cup {0}, fresh : BOOLEAN]
      BY <1>1 DEF SessionTypeOK
    <3>3. /\ [cookie EXCEPT !.fresh = TRUE] \in [session : Sessions \cup {0}, fresh : BOOLEAN]
          /\ [session |-> 0, fresh |-> FALSE] \in [session : Sessions \cup {0}, fresh : BOOLEAN]
      BY <3>2
    <3> QED
      BY <1>1, <3>1, <3>2, <3>3 DEF SessionTypeOK
  <2>2. CASE OnRefreshComplete(w)
    BY <1>1, <2>2 DEF OnRefreshComplete, Sent, SessionTypeOK
  <2> QED
    BY <2>1, <2>2
<1>5. /\ FlagSound' /\ isRefreshing' \in BOOLEAN
      /\ renewal' \subseteq [by : Calls, answer : {"none", "ok", "refused"}]
  <2>1. CASE RefreshAccessToken(w) \/ RefreshLost(w)
    <3>1. PICK answer \in {"ok", "refused"} : renewal' = {[w EXCEPT !.answer = answer]}
      BY <1>3, <2>1 DEF RefreshAccessToken, RefreshLost
    <3>2. isRefreshing' = isRefreshing
      BY <2>1 DEF RefreshAccessToken, RefreshLost
    <3>3. [w EXCEPT !.answer = answer] \in [by : Calls, answer : {"none", "ok", "refused"}]
      BY <1>3
    <3> QED
      BY <1>3, <3>1, <3>2, <3>3 DEF FlagSound
  <2>2. CASE OnRefreshComplete(w)
    BY <1>3, <2>2 DEF OnRefreshComplete, FlagSound
  <2> QED
    BY <2>1, <2>2
<1> QED
  BY <1>2, <1>4, <1>5, AccountFrame DEF SessionInv, SessionTypeOK

-----------------------------------------------------------------------------
(* THEOREMS                                                                 *)

LEMMA SessionNextInv == SessionInv /\ [SessionNext]_sessionVars => SessionInv'
<1> SUFFICES ASSUME SessionInv, [SessionNext]_sessionVars PROVE SessionInv'
  OBVIOUS
<1>1. CASE AccountNext
  BY <1>1, LoginStepInv, ResetStepInv DEF AccountNext
<1>2. CASE AccessExpires
  <2>1. SessionTypeOK /\ FlagSound /\ ResetSound
    BY DEF SessionInv
  <2>2. cookie' \in [session : Sessions \cup {0}, fresh : BOOLEAN]
    BY <1>2, <2>1 DEF AccessExpires, SessionTypeOK
  <2> QED
    BY <1>2, <2>1, <2>2, AccountFrame DEF AccessExpires, SessionInv, SessionTypeOK, FlagSound
<1>3. ASSUME NEW q \in Calls, SendCall(q) \/ CallSettles(q) \/ CallFails(q) \/ Unauthorized(q)
      PROVE  SessionInv'
  BY <1>3, CallStepInv
<1>4. ASSUME NEW w \in renewal, RefreshAccessToken(w) \/ RefreshLost(w) \/ OnRefreshComplete(w)
      PROVE  SessionInv'
  BY <1>4, RefreshStepInv
<1>5. CASE UNCHANGED sessionVars
  <2>1. UNCHANGED accountVars /\ UNCHANGED tabVars
    BY <1>5 DEF sessionVars
  <2> QED
    BY <2>1, AccountFrame DEF SessionInv, SessionTypeOK, FlagSound, tabVars
<1> QED
  BY <1>1, <1>2, <1>3, <1>4, <1>5 DEF SessionNext, TabNext

LEMMA SessionInductive == SessionSpec => []SessionInv
<1>1. SessionInv /\ [SessionNext]_sessionVars => SessionInv'
  BY SessionNextInv
<1> QED
  BY SessionInitInv, <1>1, PTL DEF SessionSpec

LEMMA OneRefreshHolds == SessionInv => OneRefresh
<1> SUFFICES ASSUME SessionInv PROVE OneRefresh
  OBVIOUS
<1>1. CASE renewal = {}
  BY <1>1, FS_EmptySet DEF OneRefresh
<1>2. CASE renewal # {}
  <2>1. PICK w : renewal = {w}
    BY <1>2 DEF SessionInv, FlagSound
  <2>2. Cardinality(renewal) = 1
    BY <2>1, FS_Singleton
  <2> QED
    BY <2>2 DEF OneRefresh
<1> QED
  BY <1>1, <1>2

(* At most one call of /auth/refresh is in flight, however many requests    *)
(* meet an expired token, and whenever their refusals come in.              *)
THEOREM OneRefreshAlways == SessionSpec => []OneRefresh
BY SessionInductive, OneRefreshHolds, PTL

(* No session a password reset found outlives it, however many logins,      *)
(* logouts, refreshes and other resets ran beside it.                       *)
THEOREM ResetEndsSessionsAlways == SessionSpec => []ResetEndsSessions
<1>1. SessionInv => ResetEndsSessions
  BY DEF SessionInv, ResetSound, ResetEndsSessions
<1> QED
  BY SessionInductive, <1>1, PTL
=============================================================================
