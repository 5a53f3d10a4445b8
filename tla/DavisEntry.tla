------------------------------ MODULE DavisEntry ------------------------------
(***************************************************************************)
(* The life of one config entry in time: async_setup_entry with its        *)
(* ConfigEntryNotReady exits, the retries Home Assistant makes, the polls  *)
(* of a loaded entry under the coordinator's 15 s timeout, and the unload. *)
(* Each setup builds a new client with a worker thread of its own; all of  *)
(* them open the same serial port.  Service calls go to the client of      *)
(* runtime_data, the last that was set up, whatever the entry does now.    *)
(*                                                                         *)
(* Time is counted in units of five seconds.  A coroutine that waits has a *)
(* timer, a worker that runs a job has run it for some time; Tick lets one *)
(* unit pass when nothing is due.  What a job does on the wire is reduced  *)
(* to how long it takes and whether it raises: DavisTransport has the      *)
(* rest.                                                                   *)
(***************************************************************************)
EXTENDS Naturals, FiniteSets

CONSTANTS
    MaxGens,       \* bounds how many clients the entry builds
    MaxBacklog,    \* bounds the jobs queued on one client
    MaxCalls,      \* bounds the service calls
    MaxJob,        \* the longest a job keeps the worker
    PollTimeout,   \* asyncio.timeout(15)
    CloseTimeout,  \* DEFAULT_SHUTDOWN_TIMEOUT
    Interval,      \* the interval option
    RetryWait      \* Home Assistant's wait before it retries a setup

ASSUME EntryAssumption ==
    /\ {MaxGens, MaxBacklog, MaxJob, PollTimeout, CloseTimeout, Interval, RetryWait}
         \subseteq Nat \ {0}
    /\ MaxCalls \in Nat

Gens == 1..MaxGens

VARIABLES
    pc,      \* where the entry's coroutine is: see Steps
    timer,   \* time until that coroutine's timeout, poll or retry is due
    gen,     \* the client the entry uses; 0 before the first
    gate,    \* per client: "open", "stopping" or "closed"
    jobs,    \* per client: jobs queued on or running in its executor
    ran,     \* per client: how long the running job has kept the worker
    ended,   \* per client: did the job that finished last raise?
    awaited, \* jobs of client gen until the one the coroutine awaits is done
    runtime, \* the client in runtime_data; 0 before the first
    calls    \* history: how many service calls a client accepted

executor == <<jobs, ran, ended>>
service  == <<runtime, calls>>
vars == <<pc, timer, gen, gate, executor, awaited, service>>

(* Setup awaits the connect job, the two jobs of get_station_info and the
   first refresh, or closes the client it gives up ("releasing"). *)
SetupJobs == {"connect", "static", "location", "refresh"}
Steps == SetupJobs \cup {"waiting", "releasing", "loaded", "polling", "closing",
                         "unloaded"}
Timed == {"waiting", "refresh", "releasing", "loaded", "polling", "closing"}

TypeOK ==
    /\ pc \in Steps
    /\ timer \in Nat
    /\ gen \in 0..MaxGens
    /\ gate \in [Gens -> {"open", "stopping", "closed"}]
    /\ jobs \in [Gens -> 0..MaxBacklog]
    /\ ran \in [Gens -> 0..MaxJob]
    /\ ended \in [Gens -> {"ok", "raised"}]
    /\ awaited \in 0..MaxBacklog
    /\ runtime \in 0..MaxGens
    /\ calls \in 0..MaxCalls

Init ==
    /\ pc = "waiting" /\ timer = 0 /\ gen = 0
    /\ gate = [g \in Gens |-> "open"]
    /\ jobs = [g \in Gens |-> 0]
    /\ ran = [g \in Gens |-> 0]
    /\ ended = [g \in Gens |-> "ok"]
    /\ awaited = 0 /\ runtime = 0 /\ calls = 0

(* A job joins the queue of client g; an idle worker starts it at once. *)
Submit(g) ==
    /\ jobs' = [jobs EXCEPT ![g] = @ + 1]
    /\ UNCHANGED <<ran, ended>>

(* The coroutine submits a job and waits for it, or for all that are left. *)
SubmitAndAwait(g) == Submit(g) /\ awaited' = jobs[g] + 1
AwaitAll          == awaited' = jobs[gen] /\ UNCHANGED executor
AwaitNothing      == awaited' = 0 /\ UNCHANGED executor

(* The executor runs jobs in order. *)
Answered == gen > 0 /\ awaited = 0
Expired  == timer = 0 /\ ~Answered

Less(n) == IF n = 0 THEN 0 ELSE n - 1

(* The worker of client g ends its job and takes the next one. *)
JobEnds(g) ==
    /\ jobs[g] > 0 /\ ran[g] > 0
    /\ jobs' = [jobs EXCEPT ![g] = @ - 1]
    /\ ran' = [ran EXCEPT ![g] = 0]
    /\ \E how \in {"ok", "raised"} : ended' = [ended EXCEPT ![g] = how]
    /\ awaited' = IF g = gen THEN Less(awaited) ELSE awaited
    /\ UNCHANGED <<pc, timer, gen, gate, service>>

Goto(step, wait) == pc' = step /\ timer' = wait

-----------------------------------------------------------------------------
(* async_setup_entry *)

StartSetup ==
    /\ pc = "waiting" /\ timer = 0 /\ gen < MaxGens
    /\ gen' = gen + 1
    /\ SubmitAndAwait(gen + 1)
    /\ Goto("connect", 0)
    /\ UNCHANGED <<gate, service>>

(* async_begin_shutdown and async_close up to its first wait. *)
GiveUp ==
    /\ gate' = [gate EXCEPT ![gen] = "stopping"]
    /\ Goto("releasing", CloseTimeout)
    /\ AwaitAll
    /\ UNCHANGED <<gen, service>>

ConnectRaises == pc = "connect" /\ Answered /\ ended[gen] = "raised" /\ GiveUp

(* Mutant of SetupContinues: get_station_info hangs on a failed job. *)
SetupContinuesOnSuccess ==
    /\ Answered /\ ended[gen] = "ok"
    /\ \/ pc = "connect" /\ Goto("static", 0)
       \/ pc = "static" /\ Goto("location", 0)
       \/ pc = "location" /\ Goto("refresh", PollTimeout)
    /\ SubmitAndAwait(gen)
    /\ UNCHANGED <<gen, gate, service>>

(* get_station_info swallows the errors of its two jobs. *)
SetupContinues ==
    /\ Answered
    /\ \/ pc = "connect" /\ ended[gen] = "ok" /\ Goto("static", 0)
       \/ pc = "static" /\ Goto("location", 0)
       \/ pc = "location" /\ Goto("refresh", PollTimeout)
    /\ SubmitAndAwait(gen)
    /\ UNCHANGED <<gen, gate, service>>

(* Only now does runtime_data name the new client. *)
FirstRefreshOk ==
    /\ pc = "refresh" /\ Answered /\ ended[gen] = "ok"
    /\ Goto("loaded", Interval)
    /\ runtime' = gen
    /\ AwaitNothing
    /\ UNCHANGED <<gen, gate, calls>>

RefreshFailed == pc = "refresh" /\ (Expired \/ (Answered /\ ended[gen] = "raised"))

(* Mutant of FirstRefreshFails: the client is not closed before the retry. *)
FirstRefreshLeavesClient ==
    /\ RefreshFailed
    /\ Goto("waiting", RetryWait)
    /\ AwaitNothing
    /\ UNCHANGED <<gen, gate, service>>

FirstRefreshFails == RefreshFailed /\ GiveUp

(* The close confirms, or times out: ConfigEntryNotReady either way. *)
Released ==
    /\ pc = "releasing" /\ Answered
    /\ gate' = [gate EXCEPT ![gen] = "closed"]
    /\ Goto("waiting", RetryWait)
    /\ AwaitNothing
    /\ UNCHANGED <<gen, service>>

ReleaseTimesOut ==
    /\ pc = "releasing" /\ Expired
    /\ Goto("waiting", RetryWait)
    /\ AwaitNothing
    /\ UNCHANGED <<gen, gate, service>>

-----------------------------------------------------------------------------
(* The coordinator of a loaded entry *)

(* Bound: no poll while the queue is at MaxBacklog. *)
StartPoll ==
    /\ pc = "loaded" /\ timer = 0 /\ jobs[gen] < MaxBacklog
    /\ SubmitAndAwait(gen)
    /\ Goto("polling", PollTimeout)
    /\ UNCHANGED <<gen, gate, service>>

(* The poll is answered or cancelled; its job stays with the worker. *)
PollReturns ==
    /\ pc = "polling" /\ (Answered \/ Expired)
    /\ Goto("loaded", Interval)
    /\ AwaitNothing
    /\ UNCHANGED <<gen, gate, service>>

(* Mutant of CallService: the job is queued without asking the gate. *)
CallServiceUnguarded ==
    /\ runtime > 0
    /\ calls < MaxCalls /\ jobs[runtime] < MaxBacklog
    /\ Submit(runtime)
    /\ calls' = calls + 1
    /\ UNCHANGED <<pc, timer, gen, gate, awaited, runtime>>

(* A service call, at any time: _client_for_call does not ask whether the
   entry is loaded, the client's gate alone refuses. *)
CallService ==
    /\ runtime > 0 /\ gate[runtime] = "open"
    /\ calls < MaxCalls /\ jobs[runtime] < MaxBacklog
    /\ Submit(runtime)
    /\ calls' = calls + 1
    /\ UNCHANGED <<pc, timer, gen, gate, awaited, runtime>>

-----------------------------------------------------------------------------
(* async_unload_entry, and the setup that follows a reload *)

StartUnload ==
    /\ pc \in {"loaded", "polling"}
    /\ gate' = [gate EXCEPT ![gen] = "stopping"]
    /\ Goto("closing", CloseTimeout)
    /\ AwaitAll
    /\ UNCHANGED <<gen, service>>

CloseConfirmed ==
    /\ pc = "closing" /\ Answered
    /\ gate' = [gate EXCEPT ![gen] = "closed"]
    /\ Goto("unloaded", 0)
    /\ AwaitNothing
    /\ UNCHANGED <<gen, service>>

(* Mutant of CloseTimesOut: the shutdown is not undone. *)
CloseTimesOutShut ==
    /\ pc = "closing" /\ Expired
    /\ Goto("loaded", Interval)
    /\ AwaitNothing
    /\ UNCHANGED <<gen, gate, service>>

(* The unload is refused and async_cancel_shutdown opens the gate. *)
CloseTimesOut ==
    /\ pc = "closing" /\ Expired
    /\ gate' = [gate EXCEPT ![gen] = "open"]
    /\ Goto("loaded", Interval)
    /\ AwaitNothing
    /\ UNCHANGED <<gen, service>>

Reload ==
    /\ pc = "unloaded" /\ gen < MaxGens
    /\ Goto("waiting", 0)
    /\ UNCHANGED <<gen, gate, executor, awaited, service>>

-----------------------------------------------------------------------------
(* Something is due now, before any more time passes. *)
Due ==
    \/ \E g \in Gens : jobs[g] > 0 /\ ran[g] = MaxJob
    \/ pc \in Timed \ {"loaded", "waiting"} /\ (Answered \/ timer = 0)
    \/ pc = "loaded" /\ timer = 0 /\ jobs[gen] < MaxBacklog
    \/ pc = "waiting" /\ timer = 0 /\ gen < MaxGens
    \/ pc \in SetupJobs /\ Answered

Tick ==
    /\ ~Due
    /\ timer > 0 \/ \E g \in Gens : jobs[g] > 0
    /\ timer' = Less(timer)
    /\ ran' = [g \in Gens |-> IF jobs[g] > 0 THEN ran[g] + 1 ELSE 0]
    /\ UNCHANGED <<pc, gen, gate, jobs, ended, awaited, service>>

Coroutine ==
    \/ StartSetup \/ ConnectRaises \/ SetupContinues \/ FirstRefreshOk
    \/ FirstRefreshFails \/ Released \/ ReleaseTimesOut
    \/ StartPoll \/ PollReturns
    \/ CloseConfirmed \/ CloseTimesOut

Next ==
    \/ Coroutine
    \/ \E g \in Gens : JobEnds(g)
    \/ Tick
    \/ StartUnload \/ Reload \/ CallService

Fairness ==
    /\ WF_vars(Coroutine) /\ WF_vars(Tick)
    /\ \A g \in Gens : WF_vars(JobEnds(g))

Safe == Init /\ [][Next]_vars
Spec == Safe /\ Fairness

-----------------------------------------------------------------------------
(* A client whose close confirmed never touches the port again. *)
ClosedMeansDone == \A g \in Gens : gate[g] = "closed" => jobs[g] = 0

(* An entry that is loaded always polls through an open gate, one that is not
   loaded never leaves its last client accepting work, and a service call
   that finds the client of an earlier setup in runtime_data is refused. *)
GateFollowsEntry ==
    /\ pc \in {"loaded", "polling"} => runtime = gen /\ gate[gen] = "open"
    /\ pc \in {"waiting", "unloaded"} /\ gen > 0 => gate[gen] # "open"
    /\ runtime \notin {0, gen} => gate[runtime] = "closed"

(* Every setup attempt ends: the entry is loaded or will be retried. *)
SetupReturns == pc = "connect" ~> pc \in {"loaded", "polling", "waiting"}

(* "Release the port now or HA's ConfigEntryNotReady retry hits Resource
   busy": a client only starts to use the port when no earlier client of the
   entry is still using it. *)
OnePortUser == Cardinality({g \in Gens : jobs[g] > 0}) <= 1

(* What the close before a retry does ensure: a retry meets an earlier client
   at the port only where that client's job has outlasted the first refresh,
   the close and the wait for the retry, one after the other. *)
PortSharedOnlyLate ==
    \A g, h \in Gens :
        g < h /\ jobs[g] > 0 /\ jobs[h] > 0 =>
            ran[g] >= PollTimeout + CloseTimeout + RetryWait

(* "15 s covers wake-up retries plus parsing": if it did, a poll would never
   find the job of an earlier poll still with the worker, as long as no
   service call came between. *)
PollsDoNotPileUp == calls = 0 => \A g \in Gens : jobs[g] <= 1

(* The clients as queues of jobs behind gates, which is all that the entry
   knows of them. *)
Queues == INSTANCE ClientQueues WITH
    Clients <- Gens,
    gate    <- [g \in Gens |-> IF gate[g] = "stopping" THEN "shut" ELSE gate[g]]

(* Setup, unload, reload and service calls, in whatever order they come, use
   each client as a client may be used: no job gets in once its gate is shut,
   and it is closed, for ever, only when no job is left. *)
ClientsAreQueues == Queues!QueueSpec
=============================================================================
