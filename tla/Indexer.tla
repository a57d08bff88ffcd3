-------------------------------- MODULE Indexer --------------------------------
(***************************************************************************)
(* How the indexer gets its events: the catch-up over past blocks, contract *)
(* by contract, the live listeners bound after it, one cursor a contract in *)
(* the database, and the reconnection of the WebSocket. What a handler      *)
(* writes is left to the mirrors: here an event is handled, or its handler  *)
(* fails and swallows the error.                                            *)
(***************************************************************************)
EXTENDS Integers, FiniteSets

CONSTANTS
    NumContracts,   \* contracts, numbered in the order start() catches up
    EventsPerBlock, \* bound: events of a contract in a block
    MaxBlocks,      \* bound: blocks mined
    ChunkSize,      \* CHUNK_SIZE
    FirstWindow,    \* the 5000 blocks looked back at without a cursor
    MaxBreaks,      \* bound: errors of the WebSocket
    MaxStops,       \* bound: crashes of the process
    MaxErrors       \* bound: handlers and queries that fail

ASSUME IndexerAssumption ==
    /\ NumContracts \in Nat \ {0} /\ ChunkSize \in Nat \ {0}
    /\ {EventsPerBlock, MaxBlocks, FirstWindow, MaxBreaks, MaxStops, MaxErrors} \subseteq Nat

VARIABLES
    head,      \* the last block
    happened,  \* the events on chain: contract c, block b, k-th of c in b
    done,      \* events handled; once each is enough, handlers upsert
    failed,    \* events whose handler swallowed an error
    cursor,    \* IndexerState.lastBlock, None without a row
    tracker,   \* cursorTracker
    writing,   \* the cursor writes of live handlers not yet in the database
    running,   \* isRunning
    scan,      \* the start() in progress
    bound,     \* the connection the listeners are bound to, or 0
    inbox,     \* events delivered to a listener, not handled
    conn,      \* the current connection, numbered; 0 before the first
    open,      \* the connections that still deliver
    timer,     \* a reconnection is scheduled
    process,   \* "up" or "down"
    stops, breaks, errors

indexerVars == <<head, happened, done, failed, cursor, tracker, writing, running, scan, bound,
                 inbox, conn, open, timer, process, stops, breaks, errors>>

chainVars == <<head, happened>>
progress == <<done, failed>>
cursors == <<cursor, tracker, writing>>
life == <<process, stops, breaks>>

Contracts == 1 .. NumContracts
Blocks == 1 .. MaxBlocks
Events == [c : Contracts, b : Blocks, k : 1 .. EventsPerBlock]
None == -1

(* A boot makes one, an error of the socket or of a query at most two.      *)
MaxConnections == 1 + MaxStops + MaxErrors + 2 * MaxBreaks

(* phase   "off", "next": before a contract, "chunk": before a chunk,       *)
(*         "logs": handling the logs of a chunk                             *)
(* via     the connection of this start's contract objects                  *)
(* base    the cursor each contract was caught up from                      *)
Idle == [phase |-> "off", via |-> 0, latest |-> 0, c |-> 1, from |-> 1,
         logs |-> {}, base |-> [c \in Contracts |-> None]]

IndexerInit ==
    /\ head = 0 /\ happened = {} /\ done = {} /\ failed = {}
    /\ cursor = [c \in Contracts |-> None] /\ tracker = [c \in Contracts |-> 0] /\ writing = {}
    /\ running = FALSE /\ scan = Idle /\ bound = 0 /\ inbox = {}
    /\ conn = 0 /\ open = {} /\ timer = FALSE
    /\ process = "down" /\ stops = 0 /\ breaks = 0 /\ errors = 0

IndexerTypeOK ==
    /\ head \in 0 .. MaxBlocks
    /\ happened \subseteq Events /\ done \subseteq Events /\ failed \subseteq Events
    /\ cursor \in [Contracts -> Blocks \cup {0, None}]
    /\ tracker \in [Contracts -> Blocks \cup {0}]
    /\ writing \subseteq Contracts \X Blocks
    /\ running \in BOOLEAN /\ timer \in BOOLEAN
    /\ scan \in [phase : {"off", "next", "chunk", "logs"}, via : 0 .. MaxConnections,
                 latest : Blocks \cup {0}, c : 1 .. NumContracts + 1,
                 from : 1 .. MaxBlocks + ChunkSize, logs : SUBSET Events,
                 base : [Contracts -> Blocks \cup {0, None}]]
    /\ bound \in 0 .. MaxConnections /\ conn \in 0 .. MaxConnections
    /\ open \subseteq 1 .. MaxConnections /\ inbox \subseteq Events
    /\ process \in {"up", "down"} /\ stops \in 0 .. MaxStops
    /\ breaks \in 0 .. MaxBreaks /\ errors \in 0 .. MaxErrors

-----------------------------------------------------------------------------
(* The chain (external): a block, delivered at once to the listeners whose  *)
(* connection is open                                                       *)

Mine(es) ==
    /\ head < MaxBlocks /\ head' = head + 1
    /\ happened' = happened \cup es
    /\ inbox' = IF bound \in open THEN inbox \cup es ELSE inbox
    /\ UNCHANGED <<progress, cursors, running, scan, bound, conn, open, timer, life, errors>>

-----------------------------------------------------------------------------
(* start(), called at boot or by the reconnection timer                     *)

Connect == conn' = conn + 1 /\ open' = open \cup {conn + 1}

StartScan ==
    /\ running' = TRUE
    /\ scan' = [Idle EXCEPT !.phase = "next", !.via = conn', !.latest = head]

Boot ==
    /\ process = "down" /\ process' = "up"
    /\ Connect /\ StartScan
    /\ UNCHANGED <<chainVars, progress, cursors, bound, inbox, timer, stops, breaks, errors>>

(* The read of a contract's cursor: without one, only the last blocks       *)
CatchUpContract ==
    LET c == scan.c
        lastBlock == IF cursor[c] # None THEN cursor[c]
                     ELSE IF scan.latest > FirstWindow THEN scan.latest - FirstWindow ELSE 0
    IN
    /\ scan.phase = "next" /\ c \in Contracts
    /\ tracker' = [tracker EXCEPT ![c] = lastBlock]
    /\ scan' = IF lastBlock >= scan.latest
               THEN [scan EXCEPT !.c = c + 1, !.base[c] = lastBlock]
               ELSE [scan EXCEPT !.phase = "chunk", !.from = lastBlock + 1, !.base[c] = lastBlock]
    /\ UNCHANGED <<chainVars, progress, cursor, writing, running, bound, inbox, conn, open, timer, life,
                   errors>>

ToBlock ==
    IF scan.from + ChunkSize - 1 < scan.latest THEN scan.from + ChunkSize - 1 ELSE scan.latest

QueryFilter ==
    /\ scan.phase = "chunk" /\ scan.from <= scan.latest /\ scan.via \in open
    /\ scan' = [scan EXCEPT !.phase = "logs",
                            !.logs = {e \in happened : e.c = scan.c /\ e.b \in scan.from .. ToBlock}]
    /\ UNCHANGED <<chainVars, progress, cursors, running, bound, inbox, conn, open, timer, life,
                   errors>>

Earlier(e, f) == e.b < f.b \/ (e.b = f.b /\ e.k < f.k)

(* A handler's outcome: its writes, or its error logged                     *)
Outcome(e) ==
    \/ done' = done \cup {e} /\ UNCHANGED <<failed, errors>>
    \/ /\ errors < MaxErrors /\ errors' = errors + 1
       /\ failed' = failed \cup {e} /\ UNCHANGED done

ProcessLog(e) ==
    /\ scan.phase = "logs" /\ e \in scan.logs /\ \A f \in scan.logs \ {e} : Earlier(e, f)
    /\ Outcome(e)
    /\ scan' = [scan EXCEPT !.logs = @ \ {e}]
    /\ UNCHANGED <<chainVars, cursors, running, bound, inbox, conn, open, timer, life>>

Advances(c, b) == b > tracker[c]

(* Fault: the next chunk starts one block late.                             *)
ChunkSkipsBlock ==
    LET c == scan.c IN
    /\ scan.phase = "logs" /\ scan.logs = {}
    /\ IF Advances(c, ToBlock)
       THEN /\ tracker' = [tracker EXCEPT ![c] = ToBlock]
            /\ cursor' = [cursor EXCEPT ![c] = ToBlock]
       ELSE UNCHANGED <<tracker, cursor>>
    /\ scan' = IF scan.from + ChunkSize + 1 > scan.latest
               THEN [scan EXCEPT !.phase = "next", !.c = c + 1]
               ELSE [scan EXCEPT !.phase = "chunk", !.from = @ + ChunkSize + 1]
    /\ UNCHANGED <<chainVars, progress, writing, running, bound, inbox, conn, open, timer, life,
                   errors>>

(* advanceCursor, awaited here                                              *)
ChunkDone ==
    LET c == scan.c IN
    /\ scan.phase = "logs" /\ scan.logs = {}
    /\ IF Advances(c, ToBlock)
       THEN /\ tracker' = [tracker EXCEPT ![c] = ToBlock]
            /\ cursor' = [cursor EXCEPT ![c] = ToBlock]
       ELSE UNCHANGED <<tracker, cursor>>
    /\ scan' = IF scan.from + ChunkSize > scan.latest
               THEN [scan EXCEPT !.phase = "next", !.c = c + 1]
               ELSE [scan EXCEPT !.phase = "chunk", !.from = @ + ChunkSize]
    /\ UNCHANGED <<chainVars, progress, writing, running, bound, inbox, conn, open, timer, life,
                   errors>>

(* Fault: isRunning is left set.                                            *)
ScanFailsRunning ==
    /\ scan.phase \in {"next", "chunk"}
    /\ \/ scan.via \notin open /\ UNCHANGED errors
       \/ errors < MaxErrors /\ errors' = errors + 1
    /\ timer' = TRUE /\ scan' = Idle
    /\ UNCHANGED <<chainVars, progress, cursors, running, bound, inbox, conn, open, life>>

(* A query fails: start() schedules a reconnection and returns normally, *)
(* as if it had succeeded.                                                  *)
ScanFails ==
    /\ scan.phase \in {"next", "chunk"}
    /\ \/ scan.via \notin open /\ UNCHANGED errors
       \/ errors < MaxErrors /\ errors' = errors + 1
    /\ running' = FALSE /\ timer' = TRUE
    /\ scan' = Idle
    /\ UNCHANGED <<chainVars, progress, cursors, bound, inbox, conn, open, life>>

(* Every contract is caught up: the listeners are bound.                    *)
Bind ==
    /\ scan.phase = "next" /\ scan.c > NumContracts
    /\ bound' = scan.via
    /\ scan' = Idle
    /\ UNCHANGED <<chainVars, progress, cursors, running, inbox, conn, open, timer, life, errors>>

-----------------------------------------------------------------------------
(* Live events. Listeners are not awaited: they run in any order, and each  *)
(* one's cursor is written after it, unless a later block was.              *)

HandleLive(e) ==
    /\ e \in inbox /\ inbox' = inbox \ {e}
    /\ Outcome(e)
    /\ IF Advances(e.c, e.b)
       THEN tracker' = [tracker EXCEPT ![e.c] = e.b] /\ writing' = writing \cup {<<e.c, e.b>>}
       ELSE UNCHANGED <<tracker, writing>>
    /\ UNCHANGED <<chainVars, cursor, running, scan, bound, conn, open, timer, life>>

WriteCursor(w) ==
    /\ w \in writing /\ writing' = writing \ {w}
    /\ cursor' = [cursor EXCEPT ![w[1]] = w[2]]
    /\ UNCHANGED <<chainVars, progress, tracker, running, scan, bound, inbox, conn, open, timer, life,
                   errors>>

-----------------------------------------------------------------------------
(* The connection                                                           *)

(* The provider reports an error; the connection may be gone or not.        *)
ConnectionError ==
    /\ process = "up" /\ conn \in open /\ breaks < MaxBreaks /\ breaks' = breaks + 1
    /\ open' \in {open, open \ {conn}}
    /\ timer' = TRUE
    /\ UNCHANGED <<chainVars, progress, cursors, running, scan, bound, inbox, conn, process, stops,
                   errors>>

(* Fault: the timer is left set.                                            *)
ReconnectForever ==
    /\ timer /\ UNCHANGED timer /\ process = "up" /\ Connect
    /\ IF running THEN UNCHANGED <<running, scan>> ELSE StartScan
    /\ UNCHANGED <<chainVars, progress, cursors, bound, inbox, life, errors>>

(* start() returns at once while isRunning is set.                          *)
HandleReconnect ==
    /\ timer /\ timer' = FALSE /\ process = "up" /\ Connect
    /\ IF running THEN UNCHANGED <<running, scan>> ELSE StartScan
    /\ UNCHANGED <<chainVars, progress, cursors, bound, inbox, life, errors>>

StopProcess ==
    /\ process = "up" /\ stops < MaxStops
    /\ process' = "down" /\ stops' = stops + 1
    /\ running' = FALSE /\ scan' = Idle /\ bound' = 0 /\ inbox' = {} /\ writing' = {}
    /\ open' = {} /\ timer' = FALSE
    /\ tracker' = [c \in Contracts |-> 0]
    /\ UNCHANGED <<chainVars, progress, cursor, conn, breaks, errors>>

-----------------------------------------------------------------------------
CatchUp == CatchUpContract \/ QueryFilter \/ (\E e \in scan.logs : ProcessLog(e)) \/ ChunkDone \/ Bind

NewEvents == {es \in SUBSET Events :
                \A e \in es : e.b = head + 1 /\ (e.k > 1 => [e EXCEPT !.k = @ - 1] \in es)}

IndexerNext ==
    \/ \E es \in NewEvents : Mine(es)
    \/ Boot \/ CatchUp \/ ScanFails
    \/ \E e \in inbox : HandleLive(e)
    \/ \E w \in writing : WriteCursor(w)
    \/ ConnectionError \/ HandleReconnect \/ StopProcess

IndexerSpec == IndexerInit /\ [][IndexerNext]_indexerVars

-----------------------------------------------------------------------------
(* Properties                                                               *)

(* When start() binds its listeners every event of every contract, from the *)
(* cursor it found to the block it read first, has been handled or has been *)
(* lost to an error of its handler: no chunk is skipped at a boundary.      *)
CaughtUp ==
    scan.phase = "next" =>
        \A e \in happened :
            (e.c < scan.c /\ scan.base[e.c] < e.b /\ e.b <= scan.latest) => e \in done \cup failed

(* What the cursor had not passed when the process stopped is handled after *)
(* the restart, even if queries fail on the way.                            *)
RestartCatchesUp ==
    \A e \in Events :
        (process = "down" /\ e \in happened /\ cursor[e.c] # None /\ e.b > cursor[e.c])
            ~> (e \in done \cup failed)
=============================================================================
