--------------------------- MODULE DavisEntry_proofs ---------------------------
(***************************************************************************)
(* Proofs about DavisEntry: its types, what its gates promise, and how     *)
(* late a job must be for two clients to meet at the port.                 *)
(***************************************************************************)
EXTENDS DavisEntry, TLAPS

(* What TLC needs no help with: a coroutine of a loaded or starting entry
   awaits jobs that are on the books. *)
Booked ==
    /\ pc # "waiting" => gen > 0
    /\ gen = 0 => awaited = 0
    /\ gen > 0 => awaited <= jobs[gen]
    /\ pc \in SetupJobs \cup {"releasing", "closing"} => awaited = jobs[gen]
    /\ pc \in {"waiting", "loaded", "unloaded"} => awaited = 0
    /\ \A g \in Gens : g > gen => jobs[g] = 0 /\ gate[g] = "open"

(* Only the client of a loaded or starting entry has an open gate; the one
   in runtime_data is the entry's own once it is loaded, and closed before
   the next one is built. *)
Gated ==
    /\ runtime <= gen
    /\ pc \in {"loaded", "polling", "closing", "unloaded"} => runtime = gen
    /\ pc \in SetupJobs \cup {"releasing"} => runtime # gen
    /\ pc \in SetupJobs \cup {"loaded", "polling"} => gate[gen] = "open"
    /\ pc \in {"releasing", "closing"} => gate[gen] = "stopping"
    /\ pc = "unloaded" => gate[gen] = "closed"
    /\ pc = "waiting" /\ gen > 0 => gate[gen] # "open"
    /\ pc = "waiting" /\ gen > 0 /\ runtime = gen => gate[gen] = "closed"
    /\ runtime > 0 /\ runtime # gen => gate[runtime] = "closed"
    /\ \A g \in Gens : gate[g] = "closed" => jobs[g] = 0

TypeInv == TypeOK /\ Booked /\ Gated

(* Cardinals of the constants, for the arithmetic of the steps. *)
LEMMA ConstantTypes ==
    /\ MaxGens \in Nat \ {0} /\ MaxBacklog \in Nat \ {0} /\ MaxJob \in Nat \ {0}
    /\ PollTimeout \in Nat \ {0} /\ CloseTimeout \in Nat \ {0}
    /\ Interval \in Nat \ {0} /\ RetryWait \in Nat \ {0} /\ MaxCalls \in Nat
BY EntryAssumption

LEMMA InitTypes == Init => TypeInv
BY ConstantTypes DEF Init, TypeInv, TypeOK, Booked, Gated, Gens, Steps, SetupJobs

(* A client that takes one more job. *)
LEMMA Submits ==
    ASSUME TypeOK, NEW g \in Gens, Submit(g), jobs[g] < MaxBacklog
    PROVE  /\ jobs' \in [Gens -> 0..MaxBacklog]
           /\ ran' \in [Gens -> 0..MaxJob]
           /\ ended' \in [Gens -> {"ok", "raised"}]
           /\ jobs'[g] = jobs[g] + 1
           /\ \A h \in Gens : h # g => jobs'[h] = jobs[h]
           /\ ran' = ran
BY ConstantTypes DEF Submit, TypeOK

(* A client that ends one job. *)
LEMMA Ends ==
    ASSUME TypeOK, NEW g \in Gens, JobEnds(g)
    PROVE  /\ jobs' \in [Gens -> 0..MaxBacklog]
           /\ ran' \in [Gens -> 0..MaxJob]
           /\ ended' \in [Gens -> {"ok", "raised"}]
           /\ jobs[g] > 0 /\ jobs'[g] = jobs[g] - 1 /\ ran'[g] = 0
           /\ \A h \in Gens : h # g => jobs'[h] = jobs[h] /\ ran'[h] = ran[h]
<1>1. /\ jobs' \in [Gens -> 0..MaxBacklog] /\ jobs[g] > 0 /\ jobs'[g] = jobs[g] - 1
      /\ \A h \in Gens : h # g => jobs'[h] = jobs[h]
  BY ConstantTypes DEF JobEnds, TypeOK
<1>2. ran' \in [Gens -> 0..MaxJob] /\ ran'[g] = 0
        /\ \A h \in Gens : h # g => ran'[h] = ran[h]
  BY ConstantTypes DEF JobEnds, TypeOK
<1>3. ended' \in [Gens -> {"ok", "raised"}]
  BY DEF JobEnds, TypeOK
<1>4. QED
  BY <1>1, <1>2, <1>3

LEMMA NextTypes == TypeInv /\ [Next]_vars => TypeInv'
<1> SUFFICES ASSUME TypeInv, [Next]_vars PROVE TypeInv'
  OBVIOUS
<1> USE ConstantTypes DEF TypeInv, Gens
<1> USE DEF Steps, SetupJobs
<1>1. CASE StartSetup
  <2>1. gen + 1 \in Gens /\ jobs[gen + 1] = 0 /\ jobs[gen + 1] < MaxBacklog
    BY <1>1 DEF StartSetup, TypeOK, Booked
  <2>2. /\ jobs' \in [Gens -> 0..MaxBacklog] /\ ran' \in [Gens -> 0..MaxJob]
        /\ ended' \in [Gens -> {"ok", "raised"}]
        /\ jobs'[gen + 1] = 1
        /\ \A h \in Gens : h # gen + 1 => jobs'[h] = jobs[h]
    BY <1>1, <2>1, Submits, SMTT(30) DEF StartSetup, SubmitAndAwait
  <2>3. TypeOK'
    <3>1. gen' \in 0..MaxGens /\ pc' \in Steps /\ timer' \in Nat /\ awaited' \in 0..MaxBacklog
            /\ UNCHANGED <<gate, runtime, calls>>
      BY <1>1, <2>1 DEF StartSetup, SubmitAndAwait, Goto, service
    <3>2. QED
      BY <2>2, <3>1 DEF TypeOK
  <2>4. Booked'
    <3>1. gen' = gen + 1 /\ pc' = "connect" /\ awaited' = 1 /\ gate' = gate
      BY <1>1, <2>1 DEF StartSetup, SubmitAndAwait, Goto
    <3>2. \A h \in Gens : h > gen' => jobs'[h] = 0 /\ gate'[h] = "open"
      <4>1. \A h \in Gens : h > gen + 1 => h > gen /\ h # gen + 1
        BY DEF TypeOK
      <4>2. QED
        BY <2>2, <3>1, <4>1 DEF Booked
    <3>3. QED
      BY <2>1, <2>2, <3>1, <3>2 DEF Booked
  <2>5. Gated'
    <3>1. gen' = gen + 1 /\ pc' = "connect" /\ gate' = gate /\ runtime' = runtime
      BY <1>1 DEF StartSetup, SubmitAndAwait, Goto, service
    <3>2. gate[gen + 1] = "open"
      BY <2>1 DEF TypeOK, Booked
    <3>3. \A g \in Gens : gate'[g] = "closed" => jobs'[g] = 0
      BY <2>2, <3>1, <3>2 DEF Gated
    <3>4. runtime > 0 => gate[runtime] = "closed"
      BY <1>1 DEF StartSetup, TypeOK, Gated
    <3>5. QED
      <4>1. runtime' # gen' /\ runtime' <= gen' /\ gate'[gen'] = "open"
        BY <2>1, <3>1, <3>2 DEF TypeOK, Gated
      <4>2. QED
        BY <3>1, <3>3, <3>4, <4>1 DEF Gated
  <2>6. QED
    BY <2>3, <2>4, <2>5
<1>2. CASE GiveUp /\ (pc = "connect" \/ pc = "refresh")
  <2>1. TypeOK'
    BY <1>2 DEF GiveUp, Goto, AwaitAll, executor, service, TypeOK, Booked
  <2>2. Booked'
    BY <1>2 DEF GiveUp, Goto, AwaitAll, executor, service, TypeOK, Booked
  <2>3. Gated'
    BY <1>2 DEF GiveUp, Goto, AwaitAll, executor, service, TypeOK, Booked, Gated
  <2>4. QED
    BY <2>1, <2>2, <2>3
<1>3. CASE SetupContinues
  <2>1. gen \in Gens /\ jobs[gen] = 0 /\ jobs[gen] < MaxBacklog
    BY <1>3 DEF SetupContinues, Answered, TypeOK, Booked
  <2>2. /\ jobs' \in [Gens -> 0..MaxBacklog] /\ ran' \in [Gens -> 0..MaxJob]
        /\ ended' \in [Gens -> {"ok", "raised"}]
        /\ jobs'[gen] = 1
        /\ \A h \in Gens : h # gen => jobs'[h] = jobs[h]
    BY <1>3, <2>1, Submits DEF SetupContinues, SubmitAndAwait
  <2>3. TypeOK'
    <3>1. pc' \in Steps /\ timer' \in Nat /\ awaited' \in 0..MaxBacklog
            /\ UNCHANGED <<gen, gate, runtime, calls>>
      BY <1>3, <2>1 DEF SetupContinues, SubmitAndAwait, Goto, service
    <3>2. QED
      BY <2>2, <3>1 DEF TypeOK
  <2>4. Booked'
    <3>1. gen' = gen /\ pc' \in SetupJobs /\ awaited' = 1 /\ gate' = gate
      BY <1>3, <2>1 DEF SetupContinues, SubmitAndAwait, Goto
    <3>2. \A h \in Gens : h > gen' => jobs'[h] = 0 /\ gate'[h] = "open"
      <4>1. \A h \in Gens : h > gen => h # gen
        BY <2>1
      <4>2. QED
        BY <2>2, <3>1, <4>1 DEF Booked
    <3>3. QED
      BY <2>1, <2>2, <3>1, <3>2 DEF Booked
  <2>5. Gated'
    <3>1. /\ gen' = gen /\ pc \in SetupJobs /\ pc' \in SetupJobs /\ gate' = gate
          /\ runtime' = runtime
      BY <1>3 DEF SetupContinues, SubmitAndAwait, Goto, service
    <3>2. gate[gen] = "open"
      BY <3>1 DEF Gated
    <3>3. \A g \in Gens : gate'[g] = "closed" => jobs'[g] = 0
      BY <2>2, <3>1, <3>2 DEF Gated
    <3>4. QED
      BY <2>1, <3>1, <3>3 DEF TypeOK, Gated
  <2>6. QED
    BY <2>3, <2>4, <2>5
<1>4. CASE FirstRefreshOk
  <2>1. TypeOK' /\ Booked'
    BY <1>4 DEF FirstRefreshOk, Goto, AwaitNothing, executor, TypeOK, Booked
  <2>2. Gated'
    BY <1>4 DEF FirstRefreshOk, Goto, AwaitNothing, executor, TypeOK, Booked, Gated
  <2>3. QED
    BY <2>1, <2>2
<1>5. CASE Released
  <2>1. TypeOK' /\ Booked'
    BY <1>5 DEF Released, Goto, AwaitNothing, executor, service, TypeOK, Booked
  <2>2. jobs[gen] = 0
    BY <1>5 DEF Released, Answered, Booked
  <2>3. Gated'
    BY <1>5, <2>2 DEF Released, Goto, AwaitNothing, executor, service, TypeOK, Booked, Gated
  <2>4. QED
    BY <2>1, <2>3
<1>16. CASE ReleaseTimesOut
  <2>1. TypeOK' /\ Booked'
    BY <1>16 DEF ReleaseTimesOut, Goto, AwaitNothing, executor, service, TypeOK, Booked
  <2>2. Gated'
    BY <1>16 DEF ReleaseTimesOut, Goto, AwaitNothing, executor, service, TypeOK, Booked, Gated
  <2>3. QED
    BY <2>1, <2>2
<1>6. CASE StartPoll
  <2>1. gen \in Gens /\ jobs[gen] < MaxBacklog
    BY <1>6 DEF StartPoll, TypeOK, Booked
  <2>2. /\ jobs' \in [Gens -> 0..MaxBacklog] /\ ran' \in [Gens -> 0..MaxJob]
        /\ ended' \in [Gens -> {"ok", "raised"}]
        /\ jobs'[gen] = jobs[gen] + 1
        /\ \A h \in Gens : h # gen => jobs'[h] = jobs[h]
    BY <1>6, <2>1, Submits DEF StartPoll, SubmitAndAwait
  <2>3. TypeOK'
    <3>1. pc' \in Steps /\ timer' \in Nat /\ awaited' = jobs'[gen]
            /\ UNCHANGED <<gen, gate, runtime, calls>>
      BY <1>6, <2>1, <2>2 DEF StartPoll, SubmitAndAwait, Goto, service
    <3>2. QED
      BY <2>1, <2>2, <3>1 DEF TypeOK
  <2>4. Booked'
    <3>1. gen' = gen /\ pc' = "polling" /\ awaited' = jobs'[gen] /\ gate' = gate
      BY <1>6, <2>1, <2>2 DEF StartPoll, SubmitAndAwait, Goto
    <3>2. \A h \in Gens : h > gen' => jobs'[h] = 0 /\ gate'[h] = "open"
      <4>1. \A h \in Gens : h > gen => h # gen
        BY <2>1
      <4>2. QED
        BY <2>2, <3>1, <4>1 DEF Booked
    <3>3. jobs'[gen] \in Nat
      BY <2>1, <2>2
    <3>4. QED
      BY <2>1, <2>2, <3>1, <3>2, <3>3 DEF Booked
  <2>5. Gated'
    <3>1. gen' = gen /\ pc = "loaded" /\ pc' = "polling" /\ gate' = gate
            /\ runtime' = runtime
      BY <1>6 DEF StartPoll, SubmitAndAwait, Goto, service
    <3>2. gate[gen] = "open"
      BY <3>1 DEF Gated
    <3>3. \A g \in Gens : gate'[g] = "closed" => jobs'[g] = 0
      BY <2>2, <3>1, <3>2 DEF Gated
    <3>4. QED
      BY <2>1, <3>1, <3>3 DEF TypeOK, Gated
  <2>6. QED
    BY <2>3, <2>4, <2>5
<1>7. CASE PollReturns
  <2>1. TypeOK' /\ Booked'
    BY <1>7 DEF PollReturns, Goto, AwaitNothing, executor, service, TypeOK, Booked
  <2>2. Gated'
    BY <1>7 DEF PollReturns, Goto, AwaitNothing, executor, service, TypeOK, Booked, Gated
  <2>3. QED
    BY <2>1, <2>2
<1>8. CASE CloseConfirmed
  <2>1. TypeOK' /\ Booked'
    BY <1>8 DEF CloseConfirmed, Goto, AwaitNothing, executor, service, TypeOK, Booked
  <2>2. jobs[gen] = 0
    BY <1>8 DEF CloseConfirmed, Answered, Booked
  <2>3. Gated'
    BY <1>8, <2>2 DEF CloseConfirmed, Goto, AwaitNothing, executor, service, TypeOK, Booked, Gated
  <2>4. QED
    BY <2>1, <2>3
<1>17. CASE CloseTimesOut
  <2>1. TypeOK' /\ Booked'
    BY <1>17 DEF CloseTimesOut, Goto, AwaitNothing, executor, service, TypeOK, Booked
  <2>2. Gated'
    BY <1>17 DEF CloseTimesOut, Goto, AwaitNothing, executor, service, TypeOK, Booked, Gated
  <2>3. QED
    BY <2>1, <2>2
<1>9. ASSUME NEW g \in Gens, JobEnds(g) PROVE TypeInv'
  <2>1. /\ jobs' \in [Gens -> 0..MaxBacklog] /\ ran' \in [Gens -> 0..MaxJob]
        /\ ended' \in [Gens -> {"ok", "raised"}]
        /\ jobs[g] > 0 /\ jobs'[g] = jobs[g] - 1
        /\ \A h \in Gens : h # g => jobs'[h] = jobs[h]
    BY <1>9, Ends
  <2>2. awaited' = (IF g = gen /\ awaited > 0 THEN awaited - 1 ELSE awaited)
    BY <1>9 DEF JobEnds, Less, TypeOK
  <2>3. UNCHANGED <<pc, timer, gen, gate, runtime, calls>>
    BY <1>9 DEF JobEnds, service
  <2>4. TypeOK'
    <3>1. awaited' \in 0..MaxBacklog
      BY <2>2 DEF TypeOK
    <3>2. QED
      BY <2>1, <2>3, <3>1 DEF TypeOK
  <2>5. Booked'
    <3>1. g <= gen
      BY <2>1 DEF TypeOK, Booked
    <3>2. \A h \in Gens : h > gen' => jobs'[h] = 0 /\ gate'[h] = "open"
      <4>1. \A h \in Gens : h > gen => h # g
        BY <3>1 DEF TypeOK
      <4>2. QED
        BY <2>1, <2>3, <4>1 DEF Booked
    <3>3. gen \in Gens /\ awaited' <= jobs'[gen]
          /\ (awaited = jobs[gen] => awaited' = jobs'[gen])
          /\ (awaited = 0 => awaited' = 0)
      <4>1. gen \in Gens /\ awaited \in Nat /\ jobs[gen] \in Nat /\ awaited <= jobs[gen]
        BY <3>1 DEF TypeOK, Booked
      <4>2. CASE g = gen
        BY <2>1, <2>2, <4>1, <4>2, SMTT(30)
      <4>3. CASE g # gen
        BY <2>1, <2>2, <4>1, <4>3
      <4>4. QED
        BY <4>2, <4>3
    <3>4. QED
      BY <2>3, <3>2, <3>3 DEF Booked
  <2>6. Gated'
    <3>1. \A h \in Gens : gate'[h] = "closed" => jobs'[h] = 0
      <4>1. gate[g] # "closed"
        BY <2>1 DEF TypeOK, Gated
      <4>2. QED
        BY <2>1, <2>3, <4>1 DEF Gated
    <3>2. QED
      BY <2>3, <3>1 DEF TypeOK, Gated
  <2>7. QED
    BY <2>4, <2>5, <2>6
<1>10. CASE Tick
  <2>1. timer' \in Nat
    BY <1>10 DEF Tick, Less, TypeOK
  <2>2. ran' \in [Gens -> 0..MaxJob]
    <3>1. \A g \in Gens : ran[g] \in 0..MaxJob /\ (jobs[g] > 0 => ran[g] # MaxJob)
      BY <1>10 DEF Tick, Due, TypeOK
    <3>2. QED
      BY <1>10, <3>1 DEF Tick
  <2>3. QED
    BY <1>10, <2>1, <2>2 DEF Tick, service, TypeOK, Booked, Gated
<1>11. CASE StartUnload
  <2>1. TypeOK' /\ Booked'
    BY <1>11 DEF StartUnload, Goto, AwaitAll, executor, service, TypeOK, Booked
  <2>2. Gated'
    BY <1>11 DEF StartUnload, Goto, AwaitAll, executor, service, TypeOK, Booked, Gated
  <2>3. QED
    BY <2>1, <2>2
<1>12. CASE Reload
  BY <1>12 DEF Reload, Goto, executor, service, TypeOK, Booked, Gated
<1>13. CASE CallService
  <2>1. runtime \in Gens /\ jobs[runtime] < MaxBacklog
    BY <1>13 DEF CallService, TypeOK
  <2>2. /\ jobs' \in [Gens -> 0..MaxBacklog] /\ ran' \in [Gens -> 0..MaxJob]
        /\ ended' \in [Gens -> {"ok", "raised"}]
        /\ jobs'[runtime] = jobs[runtime] + 1
        /\ \A h \in Gens : h # runtime => jobs'[h] = jobs[h]
    BY <1>13, <2>1, Submits DEF CallService
  <2>3. UNCHANGED <<pc, timer, gen, gate, awaited, runtime>> /\ calls' \in 0..MaxCalls
    BY <1>13 DEF CallService, TypeOK
  <2>4. TypeOK'
    BY <2>2, <2>3 DEF TypeOK
  <2>5. runtime = gen /\ pc \in {"loaded", "polling"}
    BY <1>13, <2>1 DEF CallService, TypeOK, Booked, Gated, Steps
  <2>6. \A h \in Gens : h > gen' => jobs'[h] = 0 /\ gate'[h] = "open"
    <3>1. SUFFICES ASSUME NEW h \in Gens, h > gen PROVE jobs'[h] = 0 /\ gate'[h] = "open"
      BY <2>3
    <3>2. h # runtime
      BY <2>5, <3>1
    <3>3. jobs[h] = 0 /\ gate[h] = "open"
      BY <3>1 DEF Booked
    <3>4. QED
      BY <2>2, <2>3, <3>2, <3>3
  <2>7. Booked'
    <3>1. awaited <= jobs[gen] /\ jobs[gen] \in Nat /\ awaited \in Nat
      BY <2>1, <2>5 DEF TypeOK, Booked
    <3>2. awaited' <= jobs'[gen] /\ (awaited = 0 => awaited' = 0)
      BY <2>2, <2>3, <2>5, <3>1
    <3>3. QED
      BY <2>1, <2>3, <2>5, <2>6, <3>2 DEF Booked
  <2>8. Gated'
    <3>1. \A h \in Gens : gate'[h] = "closed" => jobs'[h] = 0
      BY <1>13, <2>2, <2>3 DEF CallService, Gated
    <3>2. QED
      BY <2>3, <3>1 DEF TypeOK, Gated
  <2>9. QED
    BY <2>4, <2>7, <2>8
<1>14. CASE UNCHANGED vars
  BY <1>14 DEF vars, executor, service, TypeOK, Booked, Gated
<1>15. QED
  BY <1>1, <1>2, <1>3, <1>4, <1>5, <1>6, <1>7, <1>8, <1>9, <1>10, <1>11, <1>12,
     <1>13, <1>14, <1>16, <1>17 DEF Next, Coroutine, ConnectRaises, FirstRefreshFails, RefreshFailed

(* Every variable keeps its type. *)
THEOREM TypeCorrect == Safe => []TypeOK
<1>1. TypeInv => TypeOK
  BY DEF TypeInv
<1>2. QED
  BY <1>1, InitTypes, NextTypes, PTL DEF Safe

(* A client whose close confirmed is done with the port, whatever service
   calls still find it in runtime_data. *)
THEOREM ClosedStaysDone == Safe => []ClosedMeansDone
<1>1. TypeInv => ClosedMeansDone
  BY DEF TypeInv, Gated, ClosedMeansDone
<1>2. QED
  BY <1>1, InitTypes, NextTypes, PTL DEF Safe

(* A loaded entry has an open gate, an entry that is not loaded has none, and
   runtime_data never leads to an open gate of an earlier setup. *)
THEOREM GateCorrect == Safe => []GateFollowsEntry
<1>1. TypeInv => GateFollowsEntry
  BY DEF TypeInv, TypeOK, Gated, GateFollowsEntry
<1>2. QED
  BY <1>1, InitTypes, NextTypes, PTL DEF Safe

-----------------------------------------------------------------------------
(***************************************************************************)
(* The clients are queues: a step of the entry submits or ends one job of  *)
(* one client, or turns one client's gate, and it does so only where       *)
(* ClientQueues lets it.                                                   *)
(***************************************************************************)
OpenTo(g, to) == gate' = [gate EXCEPT ![g] = to] /\ jobs' = jobs

QueueMoves(g) ==
    \/ gate[g] = "open" /\ jobs' = [jobs EXCEPT ![g] = @ + 1] /\ gate' = gate
    \/ jobs[g] > 0 /\ jobs' = [jobs EXCEPT ![g] = @ - 1] /\ gate' = gate
    \/ gate[g] = "open" /\ OpenTo(g, "stopping")
    \/ gate[g] = "stopping" /\ OpenTo(g, "open")
    \/ gate[g] = "stopping" /\ jobs[g] = 0 /\ OpenTo(g, "closed")

(* Every coroutine step but StartSetup is about client gen. *)
LEMMA EntryMovesQueue ==
    ASSUME TypeInv, [Next]_vars
    PROVE  UNCHANGED <<jobs, gate>> \/ \E g \in Gens : QueueMoves(g)
<1>0. pc # "waiting" => gen \in Gens
  BY ConstantTypes DEF TypeInv, TypeOK, Booked, Gens
<1> USE DEF SetupJobs, TypeInv
<1>1. CASE StartSetup
  <2>1. gen + 1 \in Gens /\ gate[gen + 1] = "open"
    BY <1>1, ConstantTypes DEF StartSetup, TypeOK, Booked, Gens
  <2>2. QueueMoves(gen + 1)
    BY <1>1, <2>1 DEF StartSetup, SubmitAndAwait, Submit, QueueMoves
  <2> QED BY <2>1, <2>2
<1>2. CASE SetupContinues \/ StartPoll
  <2>1. gen \in Gens /\ gate[gen] = "open"
    BY <1>0, <1>2 DEF SetupContinues, StartPoll, Gated
  <2>2. QueueMoves(gen)
    BY <1>2, <2>1 DEF SetupContinues, StartPoll, SubmitAndAwait, Submit, QueueMoves
  <2> QED BY <2>1, <2>2
<1>3. CASE CallService
  <2>1. runtime \in Gens
    BY <1>3 DEF CallService, TypeOK, Gens
  <2>2. QueueMoves(runtime)
    BY <1>3 DEF CallService, Submit, QueueMoves
  <2> QED BY <2>1, <2>2
<1>4. ASSUME NEW g \in Gens, JobEnds(g) PROVE QueueMoves(g)
  BY <1>4 DEF JobEnds, QueueMoves
<1>5. CASE ConnectRaises \/ FirstRefreshFails \/ StartUnload
  <2>1. gen \in Gens /\ gate[gen] = "open"
    BY <1>0, <1>5 DEF ConnectRaises, FirstRefreshFails, RefreshFailed, StartUnload, Gated
  <2>2. QueueMoves(gen)
    BY <1>5, <2>1 DEF ConnectRaises, FirstRefreshFails, GiveUp, StartUnload, AwaitAll,
       executor, OpenTo, QueueMoves
  <2> QED BY <2>1, <2>2
<1>6. CASE CloseTimesOut
  <2>1. gen \in Gens /\ gate[gen] = "stopping"
    BY <1>0, <1>6 DEF CloseTimesOut, Gated
  <2>2. QueueMoves(gen)
    BY <1>6, <2>1 DEF CloseTimesOut, AwaitNothing, executor, OpenTo, QueueMoves
  <2> QED BY <2>1, <2>2
<1>7. CASE Released \/ CloseConfirmed
  <2>1. gen \in Gens /\ gate[gen] = "stopping" /\ jobs[gen] = 0
    BY <1>0, <1>7 DEF Released, CloseConfirmed, Answered, Gated, Booked
  <2>2. QueueMoves(gen)
    BY <1>7, <2>1 DEF Released, CloseConfirmed, AwaitNothing, executor, OpenTo, QueueMoves
  <2> QED BY <2>1, <2>2
<1>8. CASE \/ FirstRefreshOk \/ ReleaseTimesOut \/ PollReturns \/ Tick \/ Reload
           \/ UNCHANGED vars
  BY <1>8 DEF FirstRefreshOk, ReleaseTimesOut, PollReturns, Tick, Reload, vars,
     AwaitNothing, executor
<1> QED BY <1>1, <1>2, <1>3, <1>4, <1>5, <1>6, <1>7, <1>8 DEF Next, Coroutine

Shown(g) == IF gate[g] = "stopping" THEN "shut" ELSE gate[g]

LEMMA EntryRefines ==
    ASSUME TypeInv, [Next]_vars
    PROVE  [Queues!QueueNext]_(Queues!queueVars)
<1> DEFINE G == [g \in Gens |-> Shown(g)]
<1>1. CASE UNCHANGED <<jobs, gate>>
  BY <1>1 DEF Queues!queueVars
<1>2. ASSUME NEW g \in Gens, QueueMoves(g) PROVE Queues!QueueNext
  <2>0. /\ jobs \in [Gens -> Nat]
        /\ gate \in [Gens -> {"open", "stopping", "closed"}]
    BY DEF TypeInv, TypeOK
  <2>1. CASE gate' = gate
    <3>1. G' = G /\ G[g] = Shown(g)
      BY <2>1 DEF Shown
    <3>2. CASE gate[g] = "open" /\ jobs' = [jobs EXCEPT ![g] = @ + 1]
      <4>1. Queues!Submit(g)
        BY <3>1, <3>2 DEF Queues!Submit, Shown
      <4> QED BY <4>1 DEF Queues!QueueNext
    <3>3. CASE jobs[g] > 0 /\ jobs' = [jobs EXCEPT ![g] = @ - 1]
      <4>1. Queues!End(g)
        BY <3>1, <3>3 DEF Queues!End, Shown
      <4> QED BY <4>1 DEF Queues!QueueNext
    <3> QED BY <1>2, <2>0, <2>1, <3>2, <3>3 DEF QueueMoves, OpenTo
  <2>2. ASSUME NEW to \in {"open", "stopping", "closed"}, OpenTo(g, to)
        PROVE  /\ jobs' = jobs /\ G[g] = Shown(g)
               /\ G' = [G EXCEPT ![g] = IF to = "stopping" THEN "shut" ELSE to]
    BY <2>0, <2>2 DEF OpenTo, Shown
  <2>3. CASE gate[g] = "open" /\ OpenTo(g, "stopping")
    <3>1. Queues!Shut(g)
      BY <2>2, <2>3 DEF Queues!Shut, Queues!Turn, Shown
    <3> QED BY <3>1 DEF Queues!QueueNext
  <2>4. CASE gate[g] = "stopping" /\ OpenTo(g, "open")
    <3>1. Queues!Reopen(g)
      BY <2>2, <2>4 DEF Queues!Reopen, Queues!Turn, Shown
    <3> QED BY <3>1 DEF Queues!QueueNext
  <2>5. CASE gate[g] = "stopping" /\ jobs[g] = 0 /\ OpenTo(g, "closed")
    <3>1. Queues!Close(g)
      BY <2>2, <2>5 DEF Queues!Close, Queues!Turn, Shown
    <3> QED BY <3>1 DEF Queues!QueueNext
  <2> QED BY <1>2, <2>1, <2>3, <2>4, <2>5 DEF QueueMoves
<1> QED BY <1>1, <1>2, EntryMovesQueue

(* Every client that setups, unloads, reloads and service calls share is used
   as ClientQueues says, for any number of clients, jobs and calls. *)
THEOREM EntryClientsAreQueues == Safe => ClientsAreQueues
<1>1. Init => Queues!QueueInit
  BY DEF Init, Queues!QueueInit
<1>2. TypeInv /\ [Next]_vars => [Queues!QueueNext]_(Queues!queueVars)
  BY EntryRefines
<1> QED BY <1>1, <1>2, InitTypes, NextTypes, PTL DEF Safe, ClientsAreQueues, Queues!QueueSpec

-----------------------------------------------------------------------------
(***************************************************************************)
(* Time.  What a coroutine still has to wait for a job, and what the job   *)
(* has run, are together at least the whole wait.                          *)
(***************************************************************************)

(* A job that a setup gave up on has run through every wait since. *)
Late ==
    /\ \A g \in Gens : jobs[g] = 0 => ran[g] = 0
    /\ \A g \in Gens : g # gen /\ jobs[g] > 0 =>
          jobs[g] = 1 /\ ran[g] >= PollTimeout + CloseTimeout + RetryWait
    /\ pc \in SetupJobs \cup {"releasing", "waiting"} /\ gen > 0 => jobs[gen] <= 1
    /\ pc = "refresh" /\ jobs[gen] > 0 => ran[gen] + timer >= PollTimeout
    /\ pc = "releasing" /\ jobs[gen] > 0 =>
          ran[gen] + timer >= PollTimeout + CloseTimeout
    /\ pc = "waiting" /\ gen > 0 /\ jobs[gen] > 0 =>
          ran[gen] + timer >= PollTimeout + CloseTimeout + RetryWait

(* A unit of time is a unit more for every job that runs. *)
LEMMA TickAddsOne ==
    ASSUME TypeInv, Tick
    PROVE  /\ timer' = (IF timer = 0 THEN 0 ELSE timer - 1)
           /\ \A g \in Gens : ran'[g] = IF jobs[g] > 0 THEN ran[g] + 1 ELSE 0
           /\ UNCHANGED <<pc, gen, jobs>>
BY DEF Tick, Less, TypeInv, TypeOK

(* A client that had no job starts its first one at once. *)
LEMMA Begins ==
    ASSUME TypeInv, NEW g \in Gens, Submit(g), jobs[g] = 0
    PROVE  /\ jobs'[g] = 1 /\ ran' = ran
           /\ \A h \in Gens : h # g => jobs'[h] = jobs[h]
<1>1. jobs[g] < MaxBacklog
  BY ConstantTypes
<1>2. QED
  BY <1>1, Submits DEF TypeInv

LEMMA LateNext == TypeInv /\ Late /\ [Next]_vars => Late'
<1> SUFFICES ASSUME TypeInv, Late, [Next]_vars PROVE Late'
  OBVIOUS
<1>0. /\ timer \in Nat /\ gen \in 0..MaxGens /\ awaited \in Nat
      /\ \A g \in Gens : jobs[g] \in Nat /\ ran[g] \in Nat
      /\ pc # "waiting" => gen \in Gens
  BY ConstantTypes DEF TypeInv, TypeOK, Booked, Gens
<1> USE ConstantTypes
<1>1. CASE StartSetup
  <2>1. gen + 1 \in Gens /\ gen' = gen + 1 /\ pc' = "connect" /\ Submit(gen + 1)
          /\ jobs[gen + 1] = 0
    BY <1>0, <1>1 DEF StartSetup, SubmitAndAwait, Goto, Gens, TypeInv, Booked
  <2>2. jobs'[gen + 1] = 1 /\ ran' = ran
          /\ \A h \in Gens : h # gen + 1 => jobs'[h] = jobs[h]
    BY <2>1, Begins
  <2>3. gen > 0 /\ jobs[gen] > 0 =>
          jobs[gen] = 1 /\ ran[gen] >= PollTimeout + CloseTimeout + RetryWait
    <3>1. gen > 0 => gen \in Gens
      BY <1>0 DEF Gens
    <3>2. QED
      BY <1>0, <1>1, <3>1 DEF StartSetup, Late
  <2>4. \A g \in Gens : g # gen' /\ jobs'[g] > 0 =>
          jobs'[g] = 1 /\ ran'[g] >= PollTimeout + CloseTimeout + RetryWait
    <3>1. \A g \in Gens : g = gen => gen > 0
      BY DEF Gens
    <3>2. QED
      BY <2>1, <2>2, <2>3, <3>1 DEF Late
  <2>5. \A g \in Gens : jobs'[g] = 0 => ran'[g] = 0
    BY <2>2 DEF Late
  <2>6. QED
    BY <2>1, <2>2, <2>4, <2>5 DEF Late
<1>2. CASE SetupContinues
  <2>1. gen \in Gens /\ jobs[gen] = 0 /\ Submit(gen) /\ gen' = gen
    BY <1>0, <1>2 DEF SetupContinues, SubmitAndAwait, Answered, TypeInv, Booked, SetupJobs
  <2>2. jobs'[gen] = 1 /\ ran' = ran /\ \A h \in Gens : h # gen => jobs'[h] = jobs[h]
    BY <2>1, Begins
  <2>3. pc' \in {"static", "location", "refresh"}
          /\ (pc' = "refresh" => timer' = PollTimeout)
    BY <1>2 DEF SetupContinues, Goto
  <2>4. QED
    BY <1>0, <2>1, <2>2, <2>3 DEF Late
<1>3. CASE ConnectRaises \/ FirstRefreshFails
  <2>1. gen \in Gens /\ pc' = "releasing" /\ timer' = CloseTimeout
          /\ UNCHANGED <<gen, jobs, ran>>
    BY <1>0, <1>3 DEF ConnectRaises, FirstRefreshFails, RefreshFailed, GiveUp, Goto,
       AwaitAll, executor
  <2>2. jobs[gen] = 0 \/ (pc = "refresh" /\ timer = 0)
    BY <1>3, <2>1 DEF ConnectRaises, FirstRefreshFails, RefreshFailed, Answered, Expired,
       TypeInv, Booked, SetupJobs
  <2>3. jobs[gen] <= 1
    BY <1>3, <2>1 DEF ConnectRaises, FirstRefreshFails, RefreshFailed, Late, SetupJobs, Gens
  <2>4. jobs[gen] > 0 => ran[gen] + CloseTimeout >= PollTimeout + CloseTimeout
    BY <1>0, <2>1, <2>2 DEF Late
  <2>5. QED
    BY <1>0, <2>1, <2>3, <2>4 DEF Late
<1>4. CASE Released \/ ReleaseTimesOut
  <2>1. gen \in Gens /\ pc = "releasing" /\ pc' = "waiting" /\ timer' = RetryWait
          /\ UNCHANGED <<gen, jobs, ran>>
    BY <1>0, <1>4 DEF Released, ReleaseTimesOut, Goto, AwaitNothing, executor
  <2>2. jobs[gen] = 0 \/ timer = 0
    BY <1>4, <2>1 DEF Released, ReleaseTimesOut, Answered, Expired, TypeInv, Booked
  <2>3. jobs[gen] <= 1
    BY <2>1 DEF Late, Gens
  <2>4. jobs[gen] > 0 =>
          ran[gen] + RetryWait >= PollTimeout + CloseTimeout + RetryWait
    BY <1>0, <2>1, <2>2 DEF Late
  <2>5. QED
    BY <1>0, <2>1, <2>3, <2>4 DEF Late
<1>5. CASE StartPoll \/ CallService
  <2>1. gen \in Gens /\ gen' = gen /\ pc' \in {"loaded", "polling"}
    <3>1. CASE StartPoll
      BY <1>0, <3>1 DEF StartPoll, Goto
    <3>2. CASE CallService
      BY <1>0, <3>2 DEF CallService, TypeInv, TypeOK, Gated, Steps
    <3>3. QED
      BY <1>5, <3>1, <3>2
  <2>2. jobs'[gen] = jobs[gen] + 1 /\ ran' = ran
          /\ \A h \in Gens : h # gen => jobs'[h] = jobs[h]
    <3>1. Submit(gen) /\ jobs[gen] < MaxBacklog
      <4>1. CASE StartPoll
        BY <4>1 DEF StartPoll, SubmitAndAwait
      <4>2. CASE CallService
        <5>1. runtime = gen
          BY <1>0, <4>2 DEF CallService, TypeInv, TypeOK, Gated
        <5>2. QED
          BY <4>2, <5>1 DEF CallService
      <4>3. QED
        BY <1>5, <4>1, <4>2
    <3>2. QED
      BY <2>1, <3>1, Submits DEF TypeInv
  <2>3. QED
    BY <1>0, <2>1, <2>2 DEF Late, SetupJobs
<1>6. CASE FirstRefreshOk \/ PollReturns \/ CloseConfirmed \/ CloseTimesOut \/ StartUnload
  <2>1. UNCHANGED <<gen, jobs, ran>>
          /\ pc' \notin SetupJobs \cup {"releasing", "waiting"}
    BY <1>6 DEF FirstRefreshOk, PollReturns, CloseConfirmed, CloseTimesOut, StartUnload,
       Goto, AwaitNothing, AwaitAll, executor, SetupJobs
  <2>2. QED
    BY <2>1 DEF Late, SetupJobs
<1>7. CASE Reload
  <2>1. gen \in Gens /\ jobs[gen] = 0 /\ UNCHANGED <<gen, jobs, ran>> /\ pc' = "waiting"
    BY <1>0, <1>7 DEF Reload, Goto, executor, TypeInv, Gated
  <2>2. QED
    BY <2>1 DEF Late, SetupJobs
<1>8. ASSUME NEW g \in Gens, JobEnds(g) PROVE Late'
  <2>1. /\ jobs[g] > 0 /\ jobs'[g] = jobs[g] - 1 /\ ran'[g] = 0
        /\ \A h \in Gens : h # g => jobs'[h] = jobs[h] /\ ran'[h] = ran[h]
    BY <1>8, Ends DEF TypeInv
  <2>2. UNCHANGED <<pc, timer, gen>>
    BY <1>8 DEF JobEnds
  <2>3. \A h \in Gens : jobs'[h] = 0 => ran'[h] = 0
    BY <2>1 DEF Late
  <2>4. CASE g = gen
    <3>1. pc \in SetupJobs \cup {"releasing", "waiting"} => jobs'[gen] = 0
      BY <1>0, <2>1, <2>4 DEF Late, Gens
    <3>2. QED
      BY <2>1, <2>2, <2>3, <2>4, <3>1 DEF Late, SetupJobs
  <2>5. CASE g # gen
    <3>1. jobs'[g] = 0
      BY <2>1, <2>5 DEF Late
    <3>2. gen > 0 => gen \in Gens /\ jobs'[gen] = jobs[gen] /\ ran'[gen] = ran[gen]
      BY <1>0, <2>1, <2>5 DEF Gens
    <3>3. pc # "waiting" => gen > 0
      BY <1>0 DEF Gens
    <3>4. \A h \in Gens : h # gen' /\ jobs'[h] > 0 =>
            jobs'[h] = 1 /\ ran'[h] >= PollTimeout + CloseTimeout + RetryWait
      BY <2>1, <2>2, <3>1 DEF Late
    <3>5. QED
      BY <2>2, <2>3, <3>2, <3>3, <3>4 DEF Late, SetupJobs
  <2>6. QED
    BY <2>4, <2>5
<1>9. CASE Tick
  <2>1. /\ timer' = (IF timer = 0 THEN 0 ELSE timer - 1)
        /\ \A g \in Gens : ran'[g] = IF jobs[g] > 0 THEN ran[g] + 1 ELSE 0
        /\ UNCHANGED <<pc, gen, jobs>>
    BY <1>9, TickAddsOne
  <2>2. gen > 0 => gen \in Gens
    BY <1>0 DEF Gens
  <2>3. gen > 0 /\ jobs[gen] > 0 => ran'[gen] + timer' >= ran[gen] + timer
    BY <1>0, <2>1, <2>2
  <2>4. gen > 0 /\ jobs[gen] > 0 => ran'[gen] \in Nat /\ timer' \in Nat
    BY <1>0, <2>1, <2>2
  <2>5. \A g \in Gens : g # gen' /\ jobs'[g] > 0 =>
          jobs'[g] = 1 /\ ran'[g] >= PollTimeout + CloseTimeout + RetryWait
    BY <1>0, <2>1 DEF Late
  <2>6. \A g \in Gens : jobs'[g] = 0 => ran'[g] = 0
    BY <1>0, <2>1
  <2>7. pc # "waiting" => gen > 0
    BY <1>0 DEF Gens
  <2>8. QED
    BY <1>0, <2>1, <2>2, <2>3, <2>4, <2>5, <2>6, <2>7 DEF Late, SetupJobs
<1>10. CASE UNCHANGED vars
  BY <1>10 DEF vars, executor, Late
<1>11. QED
  BY <1>1, <1>2, <1>3, <1>4, <1>5, <1>6, <1>7, <1>8, <1>9, <1>10 DEF Next, Coroutine

LEMMA LateInit == Init => Late
BY DEF Init, Late, SetupJobs

(* Two clients of an entry meet at the port only where the job of the earlier
   one has outlasted the first refresh's timeout, the close's and the wait
   for the retry, whatever these times are and however long a job may take. *)
THEOREM PortHasOneUser == Safe => []PortSharedOnlyLate
<1>1. TypeInv /\ Late => PortSharedOnlyLate
  <2> SUFFICES ASSUME TypeInv, Late, NEW g \in Gens, NEW h \in Gens, g < h,
                      jobs[g] > 0, jobs[h] > 0
               PROVE  ran[g] >= PollTimeout + CloseTimeout + RetryWait
    BY DEF PortSharedOnlyLate
  <2>1. h <= gen
    BY DEF TypeInv, TypeOK, Booked, Gens
  <2>2. g # gen
    BY <2>1 DEF TypeInv, TypeOK, Gens
  <2>3. QED
    BY <2>2 DEF Late
<1>2. QED
  BY <1>1, InitTypes, NextTypes, LateInit, LateNext, PTL DEF Safe
=============================================================================
