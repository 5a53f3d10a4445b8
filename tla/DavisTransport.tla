---------------------------- MODULE DavisTransport ----------------------------
(***************************************************************************)
(* The transport of one config entry: DavisVantageClient's single-worker   *)
(* executor (client.py), the coroutines that queue device operations on it *)
(* and the unload coroutine of __init__.py that shuts it down.             *)
(*                                                                         *)
(* Two threads act.  The event loop runs the coroutines: a stretch of code *)
(* between two awaits is one step, and no body under _submit_lock awaits.  *)
(* The worker runs one job at a time: a CALL (one _async_run_io, executed  *)
(* by _execute_owned) or a CLOSE (one _close_transport_sync queued by      *)
(* async_close).  A job's future is settled on the worker and delivered to *)
(* the loop later, as a step of its own.                                   *)
(***************************************************************************)
EXTENDS Naturals, Sequences, FiniteSets

CONSTANTS
    Calls,       \* the _async_run_io calls that may be made
    Closes,      \* the close jobs async_close may queue (bounds the unloads)
    NoJob        \* "no close job queued by the current async_close"

ASSUME JobsAssumption ==
    /\ Calls \cap Closes = {}
    /\ NoJob \notin Calls \cup Closes

Jobs == Calls \cup Closes

VARIABLES
    persistent,        \* the persistent_connection option: never changes
    phase,             \* where each job is: see Phases
    queue,             \* the executor's work queue, oldest job first
    pending,           \* _pending_io: futures not yet delivered to the loop
    waiter,            \* the coroutine awaiting each call's shielded future
    client,            \* _protocol_client: "none", or its link "closed"/"open"
    suspect,           \* history: has a transaction failed on the open link?
    loopOpened,        \* history: has the loop opened the port that is open?
    orphans,           \* open ports that no _protocol_client refers to
    needsReconnect,    \* _needs_reconnect
    connState,         \* _connection_state
    everSucceeded,     \* _last_success is set
    stopping,          \* _stopping
    executorShutdown,  \* _executor_shutdown
    lastClose,         \* _last_close_result
    unload,            \* where async_unload_entry is: see UnloadSteps
    drain,             \* the snapshot of _pending_io async_close gathers
    closeJob           \* the close job the current async_close awaits

linkVars   == <<persistent, client, suspect, loopOpened, orphans>>
deviceVars == <<linkVars, needsReconnect, everSucceeded>>
gateVars   == <<stopping, executorShutdown, lastClose>>
unloadVars == <<unload, drain, closeJob>>
vars == <<phase, queue, pending, waiter, deviceVars, connState, gateVars,
          unloadVars>>

Phases       == {"new", "queued", "connecting", "wire", "closing", "ok", "failed"}
AtDevice     == {"connecting", "wire", "closing"}   \* on the worker thread
Settled      == {"ok", "failed"}
WaiterStates == {"none", "waiting", "cancelled", "answered", "refused"}
ConnStates   == {"disconnected", "reconnecting", "connected", "degraded",
                 "stopping", "closed"}
CloseResults == {"none", "closed", "timeout", "close_failed"}
UnloadSteps  == {"loaded", "begun", "platformsGone", "draining", "closing",
                 "undo", "unloaded"}

(* Calls that were accepted and have not finished on the worker. *)
Outstanding == {c \in Calls : phase[c] \in {"queued"} \cup AtDevice}

(* Mutant of WorkerFree: an executor with two workers. *)
TwoWorkersFree == Cardinality({j \in Jobs : phase[j] \in AtDevice}) < 2

(* max_workers=1: a job starts only when the worker runs nothing. *)
WorkerFree == \A j \in Jobs : phase[j] \notin AtDevice

(* The executor hands jobs out in the order they were submitted. *)
Next_Up(j) == queue # <<>> /\ j = Head(queue)

(***************************************************************************)
(* An entry that is set up: the client exists, nothing is in flight.  The  *)
(* connection left by setup is open only in persistent mode.               *)
(***************************************************************************)
Init ==
    /\ phase = [j \in Jobs |-> "new"]
    /\ queue = <<>>
    /\ pending = {}
    /\ waiter = [c \in Calls |-> "none"]
    /\ persistent \in BOOLEAN
    /\ client = IF persistent THEN "open" ELSE "closed"
    /\ suspect = FALSE
    /\ loopOpened = FALSE
    /\ orphans = 0
    /\ needsReconnect = FALSE
    /\ connState = "connected"
    /\ everSucceeded = TRUE
    /\ stopping = FALSE
    /\ executorShutdown = FALSE
    /\ lastClose = "none"
    /\ unload = "loaded"
    /\ drain = {}
    /\ closeJob = NoJob

-----------------------------------------------------------------------------
(***************************************************************************)
(* The event loop: _async_run_io and the delivery of its future.           *)
(***************************************************************************)

(* Mutant of AsyncRunIo: only the executor's own shutdown refuses work. *)
AsyncRunIoUngated(c) ==
    /\ phase[c] = "new" /\ waiter[c] = "none"
    /\ ~executorShutdown
    /\ phase' = [phase EXCEPT ![c] = "queued"]
    /\ queue' = Append(queue, c)
    /\ pending' = pending \cup {c}
    /\ waiter' = [waiter EXCEPT ![c] = "waiting"]
    /\ UNCHANGED <<deviceVars, connState, gateVars, unloadVars>>

(* The gate under _submit_lock, then submit, wrap and register. *)
AsyncRunIo(c) ==
    /\ phase[c] = "new" /\ waiter[c] = "none"
    /\ ~stopping /\ ~executorShutdown
    /\ phase' = [phase EXCEPT ![c] = "queued"]
    /\ queue' = Append(queue, c)
    /\ pending' = pending \cup {c}
    /\ waiter' = [waiter EXCEPT ![c] = "waiting"]
    /\ UNCHANGED <<deviceVars, connState, gateVars, unloadVars>>

(* RuntimeError("Davis transport is stopping"): nothing is submitted. *)
Refuse(c) ==
    /\ phase[c] = "new" /\ waiter[c] = "none"
    /\ stopping \/ executorShutdown
    /\ waiter' = [waiter EXCEPT ![c] = "refused"]
    /\ UNCHANGED <<phase, queue, pending, deviceVars, connState, gateVars,
                   unloadVars>>

(* Mutant of CancelWaiter: without the shield the future itself is cancelled,
   and its done callback forgets the job. *)
CancelWaiterUnshielded(c) ==
    /\ waiter[c] = "waiting"
    /\ waiter' = [waiter EXCEPT ![c] = "cancelled"]
    /\ pending' = pending \ {c}
    /\ UNCHANGED <<phase, queue, deviceVars, connState, gateVars, unloadVars>>

(* The awaiting coroutine is cancelled (the coordinator's 15 s timeout, a
   cancelled service call): the shield leaves the job and pending alone. *)
CancelWaiter(c) ==
    /\ waiter[c] = "waiting"
    /\ waiter' = [waiter EXCEPT ![c] = "cancelled"]
    /\ UNCHANGED <<phase, queue, pending, deviceVars, connState, gateVars,
                   unloadVars>>

(* The settled future reaches the loop: pending.discard, and the waiter
   resumes if it is still there.  A poll that brought data is post-processed
   at once; when that has to read the archive period itself (DavisPoll says
   when), the loop opens the port, which nobody closes then, and a failure of
   the read is not one of the worker's: the link stays. *)
Deliver(c) ==
    /\ phase[c] \in Settled /\ c \in pending
    /\ pending' = pending \ {c}
    /\ waiter' = [waiter EXCEPT ![c] = IF @ = "waiting" THEN "answered" ELSE @]
    /\ \/ UNCHANGED linkVars
       \/ /\ phase[c] = "ok" /\ waiter[c] = "waiting" /\ client # "none"
          /\ client' = "open"
          /\ loopOpened' = (loopOpened \/ client = "closed")
          /\ suspect' \in {suspect, TRUE}
          /\ UNCHANGED <<persistent, orphans>>
    /\ UNCHANGED <<phase, queue, needsReconnect, everSucceeded, connState, gateVars,
                   unloadVars>>

-----------------------------------------------------------------------------
(***************************************************************************)
(* The worker thread: _execute_owned around one operation.                 *)
(***************************************************************************)

(* The worker takes a call; after a failed one it first drops the link. *)
TakeCall(c) ==
    /\ WorkerFree /\ Next_Up(c) /\ c \in Calls
    /\ queue' = Tail(queue)
    /\ phase' = [phase EXCEPT ![c] = "connecting"]
    /\ IF needsReconnect
       THEN /\ connState' = "reconnecting"
            /\ client' = "none" /\ suspect' = FALSE /\ loopOpened' = FALSE
            /\ \/ orphans' = orphans
               \/ client = "open" /\ orphans' = orphans + 1
            /\ needsReconnect' = FALSE
       ELSE UNCHANGED <<connState, client, suspect, loopOpened, orphans,
                        needsReconnect>>
    /\ UNCHANGED <<persistent, pending, waiter, everSucceeded, gateVars, unloadVars>>

(* The operation gets a usable link: `link` builds a protocol client if
   there is none (its constructor checks the firmware on the wire), and the
   first write reopens a closed link. *)
Connect(c) ==
    /\ phase[c] = "connecting"
    /\ phase' = [phase EXCEPT ![c] = "wire"]
    /\ client' = "open"
    /\ UNCHANGED <<persistent, suspect, loopOpened, orphans, queue, pending, waiter,
                   needsReconnect, connState, everSucceeded, gateVars, unloadVars>>

(* Mutant of Raise: the failed link stays in _protocol_client. *)
RaiseKeepsLink(c, portKept) ==
    /\ phase' = [phase EXCEPT ![c] = "failed"]
    /\ connState' = "degraded"
    /\ needsReconnect' = TRUE
    /\ orphans' = orphans + portKept
    /\ UNCHANGED <<persistent, client, suspect, loopOpened, queue, pending, waiter,
                   everSucceeded, gateVars, unloadVars>>

(* The except branch of _execute_owned.  portKept: ports that stay open
   although _protocol_client no longer refers to them. *)
Raise(c, portKept) ==
    /\ phase' = [phase EXCEPT ![c] = "failed"]
    /\ connState' = "degraded"
    /\ needsReconnect' = TRUE
    /\ client' = "none" /\ suspect' = FALSE /\ loopOpened' = FALSE
    /\ orphans' = orphans + portKept
    /\ UNCHANGED <<persistent, queue, pending, waiter, everSucceeded, gateVars,
                   unloadVars>>

(* Opening fails, or the constructor opens the port and then fails its
   firmware check: that link was never stored in _protocol_client, so the
   except branch finds nothing to close. *)
ConnectFails(c) ==
    /\ phase[c] = "connecting"
    /\ \E kept \in {0, 1} : (kept = 1 => client = "none") /\ Raise(c, kept)

(* Mutant of ExchangeOk: the port is never released. *)
ExchangeOkKeepsPort(c) ==
    /\ phase[c] = "wire"
    /\ phase' = [phase EXCEPT ![c] = "ok"]
    /\ connState' = "connected"
    /\ everSucceeded' = TRUE
    /\ UNCHANGED <<linkVars, queue, pending, waiter, needsReconnect, gateVars,
                   unloadVars>>

(* The exchange succeeds and releases the port unless it is persistent.  So
   does a poll whose hilows, archive or rain collector read failed: that is
   logged, and a link that stays open is suspect from then on. *)
ExchangeOk(c) ==
    /\ phase[c] = "wire"
    /\ phase' = [phase EXCEPT ![c] = "ok"]
    /\ IF persistent
       THEN suspect' \in {suspect, TRUE} /\ UNCHANGED <<client, loopOpened>>
       ELSE client' = "closed" /\ suspect' = FALSE /\ loopOpened' = FALSE
    /\ connState' = "connected"
    /\ everSucceeded' = TRUE
    /\ UNCHANGED <<persistent, orphans, queue, pending, waiter, needsReconnect,
                   gateVars, unloadVars>>

(* The exchange raises: no answer, a bad CRC, an OSError.  An OSError of the
   close that follows is suppressed and leaves the port open. *)
ExchangeFails(c) ==
    /\ phase[c] = "wire"
    /\ \E kept \in {0, 1} : Raise(c, kept)

(* A close job runs outside _execute_owned. *)
TakeClose(j) ==
    /\ WorkerFree /\ Next_Up(j) /\ j \in Closes
    /\ queue' = Tail(queue)
    /\ phase' = [phase EXCEPT ![j] = "closing"]
    /\ UNCHANGED <<pending, waiter, deviceVars, connState, gateVars, unloadVars>>

CloseLink(j) ==
    /\ phase[j] = "closing"
    /\ \/ /\ phase' = [phase EXCEPT ![j] = "ok"]
          /\ client' = IF client = "none" THEN "none" ELSE "closed"
          /\ suspect' = FALSE /\ loopOpened' = FALSE
       \/ /\ client = "open"        \* the operating system's close raises
          /\ phase' = [phase EXCEPT ![j] = "failed"]
          /\ UNCHANGED <<client, suspect, loopOpened>>
    /\ UNCHANGED <<persistent, orphans, queue, pending, waiter, needsReconnect,
                   everSucceeded, connState, gateVars, unloadVars>>

(* An orphaned port is closed when its link object is garbage collected. *)
CollectOrphan ==
    /\ orphans > 0
    /\ orphans' = orphans - 1
    /\ UNCHANGED <<persistent, client, suspect, loopOpened, phase, queue, pending,
                   waiter, needsReconnect, everSucceeded, connState, gateVars,
                   unloadVars>>

-----------------------------------------------------------------------------
(***************************************************************************)
(* The event loop: async_unload_entry and the client calls it makes.       *)
(***************************************************************************)

(* Bound: an unload starts only while a close job is left for it. *)
AsyncBeginShutdown ==
    /\ unload = "loaded"
    /\ \E j \in Closes : phase[j] = "new"
    /\ unload' = "begun"
    /\ stopping' = TRUE
    /\ connState' = "stopping"
    /\ UNCHANGED <<phase, queue, pending, waiter, deviceVars, executorShutdown,
                   lastClose, drain, closeJob>>

(* async_unload_platforms answers. *)
UnloadPlatforms ==
    /\ unload = "begun"
    /\ unload' \in {"platformsGone", "undo"}
    /\ UNCHANGED <<phase, queue, pending, waiter, deviceVars, connState, gateVars,
                   drain, closeJob>>

(* async_close up to its first await.  A client whose executor is already
   shut down answers from the stored result. *)
AsyncClose ==
    /\ unload = "platformsGone"
    /\ IF executorShutdown
       THEN /\ unload' = IF lastClose = "closed" THEN "unloaded" ELSE "undo"
            /\ UNCHANGED <<drain, stopping, connState>>
       ELSE /\ unload' = "draining"
            /\ drain' = pending
            /\ stopping' = TRUE
            /\ connState' = "stopping"
    /\ UNCHANGED <<phase, queue, pending, waiter, deviceVars, executorShutdown,
                   lastClose, closeJob>>

(* The gather is over: every future of the snapshot was delivered. *)
SubmitClose(j) ==
    /\ unload = "draining" /\ drain \cap pending = {}
    /\ j \in Closes /\ phase[j] = "new"
    /\ phase' = [phase EXCEPT ![j] = "queued"]
    /\ queue' = Append(queue, j)
    /\ unload' = "closing"
    /\ closeJob' = j
    /\ drain' = {}
    /\ UNCHANGED <<pending, waiter, deviceVars, connState, gateVars>>

(* Mutant of CloseTimeout: the clock runs for the close job only. *)
CloseTimeoutAfterDrain ==
    /\ unload = "closing"
    /\ unload' = "undo"
    /\ lastClose' = "timeout"
    /\ drain' = {}
    /\ closeJob' = NoJob
    /\ UNCHANGED <<phase, queue, pending, waiter, deviceVars, connState, stopping,
                   executorShutdown>>

(* Mutant of CloseTimeout: the jobs not yet started are thrown away. *)
CloseTimeoutDropsQueue ==
    /\ (unload = "draining" /\ drain # {}) \/ unload = "closing"
    /\ unload' = "undo"
    /\ queue' = <<>>
    /\ lastClose' = "timeout"
    /\ drain' = {}
    /\ closeJob' = NoJob
    /\ UNCHANGED <<phase, pending, waiter, deviceVars, connState, stopping,
                   executorShutdown>>

(* asyncio.timeout(DEFAULT_SHUTDOWN_TIMEOUT) expires at one of the two
   awaits; a close job already queued stays queued. *)
CloseTimeout ==
    /\ \/ unload = "draining" /\ drain # {}
       \/ unload = "closing"
    /\ unload' = "undo"
    /\ lastClose' = "timeout"
    /\ drain' = {}
    /\ closeJob' = NoJob
    /\ UNCHANGED <<phase, queue, pending, waiter, deviceVars, connState, stopping,
                   executorShutdown>>

(* The close job raised: executor.shutdown(wait=True), and close fails. *)
CloseFailed ==
    /\ unload = "closing" /\ phase[closeJob] = "failed"
    /\ unload' = "undo"
    /\ lastClose' = "close_failed"
    /\ executorShutdown' = TRUE
    /\ connState' = "degraded"
    /\ closeJob' = NoJob
    /\ UNCHANGED <<phase, queue, pending, waiter, deviceVars, stopping, drain>>

CloseConfirmed ==
    /\ unload = "closing" /\ phase[closeJob] = "ok"
    /\ unload' = "unloaded"
    /\ lastClose' = "closed"
    /\ executorShutdown' = TRUE
    /\ client' = "none" /\ suspect' = FALSE /\ loopOpened' = FALSE
    /\ connState' = "closed"
    /\ closeJob' = NoJob
    /\ UNCHANGED <<persistent, orphans, phase, queue, pending, waiter,
                   needsReconnect, everSucceeded, stopping, drain>>

(* Mutant of AsyncCancelShutdown: the gate stays shut. *)
AsyncCancelShutdownForgotten ==
    /\ unload = "undo"
    /\ unload' = "loaded"
    /\ UNCHANGED <<phase, queue, pending, waiter, deviceVars, connState, gateVars,
                   drain, closeJob>>

(* async_cancel_shutdown after a refused unload: the entry stays loaded. *)
AsyncCancelShutdown ==
    /\ unload = "undo"
    /\ unload' = "loaded"
    /\ IF executorShutdown
       THEN UNCHANGED <<stopping, connState>>
       ELSE /\ stopping' = FALSE
            /\ connState' = IF everSucceeded THEN "connected" ELSE "disconnected"
    /\ UNCHANGED <<phase, queue, pending, waiter, deviceVars, executorShutdown,
                   lastClose, drain, closeJob>>

-----------------------------------------------------------------------------
WorkerStep ==
    \/ \E c \in Calls : \/ TakeCall(c) \/ Connect(c) \/ ConnectFails(c)
                        \/ ExchangeOk(c) \/ ExchangeFails(c)
    \/ \E j \in Closes : TakeClose(j) \/ CloseLink(j)

Delivery == \E c \in Calls : Deliver(c)

UnloadStep ==
    \/ UnloadPlatforms \/ AsyncClose \/ CloseTimeout
    \/ CloseFailed \/ CloseConfirmed \/ AsyncCancelShutdown
    \/ \E j \in Closes : SubmitClose(j)

Environment ==
    \/ \E c \in Calls : AsyncRunIo(c) \/ Refuse(c) \/ CancelWaiter(c)
    \/ AsyncBeginShutdown
    \/ CollectOrphan

Next == WorkerStep \/ Delivery \/ UnloadStep \/ Environment

(* The loop always runs a ready callback and its timers fire. *)
LoopFairness == WF_vars(UnloadStep) /\ \A c \in Calls : WF_vars(Deliver(c))

(* Every serial read and write has a timeout, so a running job ends. *)
WorkerFairness == WF_vars(WorkerStep)

Safe == Init /\ [][Next]_vars

(* WorkerFairness is left out: a device may hang its worker for ever, and the
   properties that need it say so. *)
Spec == Safe /\ LoopFairness
=============================================================================
