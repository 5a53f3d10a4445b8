------------------------- MODULE DavisTransport_proofs -------------------------
(***************************************************************************)
(* Proofs about DavisTransport, for any finite or infinite set of calls.   *)
(***************************************************************************)
EXTENDS DavisTransportProps, FiniteSetTheorems, TLAPS

LEMMA InitType == Init => TypeOK
<1> SUFFICES ASSUME Init PROVE TypeOK
  OBVIOUS
<1>1. queue \in Seq(Jobs)
  BY DEF Init
<1>2. persistent \in BOOLEAN /\ client \in {"none", "closed", "open"}
  BY DEF Init
<1>3. phase \in [Jobs -> Phases] /\ waiter \in [Calls -> WaiterStates]
  BY DEF Init, Phases, WaiterStates
<1>4. QED
  BY <1>1, <1>2, <1>3 DEF Init, TypeOK, ConnStates, CloseResults, UnloadSteps

LEMMA NextType == TypeOK /\ [Next]_vars => TypeOK'
<1> SUFFICES ASSUME TypeOK, [Next]_vars PROVE TypeOK'
  OBVIOUS
<1> USE JobsAssumption DEF TypeOK, Jobs
<1>1. ASSUME NEW c \in Calls, AsyncRunIo(c) PROVE TypeOK'
  BY <1>1 DEF AsyncRunIo, deviceVars, linkVars, gateVars, unloadVars, Phases, WaiterStates
<1>2. ASSUME NEW c \in Calls, Refuse(c) PROVE TypeOK'
  BY <1>2 DEF Refuse, deviceVars, linkVars, gateVars, unloadVars, WaiterStates
<1>3. ASSUME NEW c \in Calls, CancelWaiter(c) PROVE TypeOK'
  BY <1>3 DEF CancelWaiter, deviceVars, linkVars, gateVars, unloadVars, WaiterStates
<1>4. ASSUME NEW c \in Calls, Deliver(c) PROVE TypeOK'
  <2>1. /\ client' \in {"none", "closed", "open"} /\ loopOpened' \in BOOLEAN
        /\ suspect' \in BOOLEAN /\ persistent' \in BOOLEAN /\ orphans' \in Nat
    BY <1>4 DEF Deliver, linkVars
  <2>2. QED
    BY <1>4, <2>1 DEF Deliver, gateVars, unloadVars, WaiterStates
<1>5. ASSUME NEW c \in Calls, TakeCall(c) PROVE TypeOK'
  <2>1. queue' \in Seq(Jobs)
    BY <1>5 DEF TakeCall, Next_Up
  <2>2. phase' \in [Jobs -> Phases]
    BY <1>5 DEF TakeCall, Phases
  <2>3. /\ client' \in {"none", "closed", "open"} /\ orphans' \in Nat
        /\ needsReconnect' \in BOOLEAN /\ connState' \in ConnStates
        /\ suspect' \in BOOLEAN /\ loopOpened' \in BOOLEAN
    <3>1. CASE needsReconnect
      <4>1. client' \in {"none", "closed", "open"} /\ connState' \in ConnStates
        BY <1>5, <3>1 DEF TakeCall, ConnStates
      <4>2. orphans' \in Nat
        BY <1>5, <3>1 DEF TakeCall
      <4>3. needsReconnect' \in BOOLEAN /\ suspect' \in BOOLEAN /\ loopOpened' \in BOOLEAN
        BY <1>5, <3>1 DEF TakeCall
      <4>4. QED
        BY <4>1, <4>2, <4>3
    <3>2. CASE ~needsReconnect
      BY <1>5, <3>2 DEF TakeCall
    <3>3. QED
      BY <3>1, <3>2
  <2>4. QED
    BY <1>5, <2>1, <2>2, <2>3 DEF TakeCall, gateVars, unloadVars
<1>6. ASSUME NEW c \in Calls, Connect(c) PROVE TypeOK'
  BY <1>6 DEF Connect, gateVars, unloadVars, Phases
<1>7. ASSUME NEW c \in Calls, ConnectFails(c) PROVE TypeOK'
  <2>1. PICK portKept \in {0, 1} : Raise(c, portKept)
    BY <1>7 DEF ConnectFails
  <2>2. orphans' \in Nat
    BY <2>1 DEF Raise
  <2>3. QED
    BY <2>1, <2>2 DEF Raise, gateVars, unloadVars, Phases, ConnStates
<1>8. ASSUME NEW c \in Calls, ExchangeOk(c) PROVE TypeOK'
  <2>1. /\ client' \in {"none", "closed", "open"}
        /\ suspect' \in BOOLEAN /\ loopOpened' \in BOOLEAN
    BY <1>8 DEF ExchangeOk
  <2>2. QED
    BY <1>8, <2>1 DEF ExchangeOk, gateVars, unloadVars, Phases, ConnStates
<1>9. ASSUME NEW c \in Calls, ExchangeFails(c) PROVE TypeOK'
  <2>1. PICK portKept \in {0, 1} : Raise(c, portKept)
    BY <1>9 DEF ExchangeFails
  <2>2. orphans' \in Nat
    BY <2>1 DEF Raise
  <2>3. QED
    BY <2>1, <2>2 DEF Raise, gateVars, unloadVars, Phases, ConnStates
<1>10. ASSUME NEW j \in Closes, TakeClose(j) PROVE TypeOK'
  BY <1>10 DEF TakeClose, Next_Up, deviceVars, linkVars, gateVars, unloadVars, Phases
<1>11. ASSUME NEW j \in Closes, CloseLink(j) PROVE TypeOK'
  BY <1>11 DEF CloseLink, gateVars, unloadVars, Phases
<1>12. ASSUME CollectOrphan PROVE TypeOK'
  BY <1>12 DEF CollectOrphan, gateVars, unloadVars
<1>13. ASSUME AsyncBeginShutdown PROVE TypeOK'
  BY <1>13 DEF AsyncBeginShutdown, deviceVars, linkVars, UnloadSteps, ConnStates
<1>14. ASSUME UnloadPlatforms PROVE TypeOK'
  BY <1>14 DEF UnloadPlatforms, deviceVars, linkVars, gateVars, UnloadSteps
<1>15. ASSUME AsyncClose PROVE TypeOK'
  <2>1. /\ unload' \in UnloadSteps /\ stopping' \in BOOLEAN
        /\ connState' \in ConnStates /\ drain' \subseteq Calls
    BY <1>15 DEF AsyncClose, UnloadSteps, ConnStates
  <2>2. QED
    BY <1>15, <2>1 DEF AsyncClose, deviceVars, linkVars
<1>16. ASSUME NEW j \in Closes, SubmitClose(j) PROVE TypeOK'
  BY <1>16 DEF SubmitClose, deviceVars, linkVars, gateVars, UnloadSteps, Phases
<1>17. ASSUME CloseTimeout PROVE TypeOK'
  BY <1>17 DEF CloseTimeout, deviceVars, linkVars, UnloadSteps, CloseResults
<1>18. ASSUME CloseFailed PROVE TypeOK'
  BY <1>18 DEF CloseFailed, deviceVars, linkVars, UnloadSteps, CloseResults, ConnStates
<1>19. ASSUME CloseConfirmed PROVE TypeOK'
  BY <1>19 DEF CloseConfirmed, UnloadSteps, CloseResults, ConnStates
<1>20. ASSUME AsyncCancelShutdown PROVE TypeOK'
  <2>1. unload' \in UnloadSteps /\ stopping' \in BOOLEAN /\ connState' \in ConnStates
    BY <1>20 DEF AsyncCancelShutdown, UnloadSteps, ConnStates
  <2>2. QED
    BY <1>20, <2>1 DEF AsyncCancelShutdown, deviceVars, linkVars
<1>21. CASE UNCHANGED vars
  BY <1>21 DEF vars, deviceVars, linkVars, gateVars, unloadVars
<1>22. QED
  BY <1>1, <1>2, <1>3, <1>4, <1>5, <1>6, <1>7, <1>8, <1>9, <1>10, <1>11, <1>12,
     <1>13, <1>14, <1>15, <1>16, <1>17, <1>18, <1>19, <1>20, <1>21
     DEF Next, WorkerStep, Delivery, UnloadStep, Environment

(* Every variable keeps its type in every behaviour. *)
THEOREM TypeCorrect == Safe => []TypeOK
BY InitType, NextType, PTL DEF Safe

-----------------------------------------------------------------------------
(***************************************************************************)
(* The inductive invariant.  The properties are not inductive on their     *)
(* own: that a confirmed close leaves nothing behind needs to know that    *)
(* the close job is the last one in the queue, that in turn needs the gate *)
(* to be shut from the first step of the unload, and a link is known not   *)
(* to be suspect only because the worker runs one job at a time.           *)
(***************************************************************************)

(* The queue holds each queued job once. *)
QueueInv ==
    /\ \A i \in 1..Len(queue) : phase[queue[i]] = "queued"
    /\ \A i, k \in 1..Len(queue) : queue[i] = queue[k] => i = k

(* One job at the device, in a phase of its kind. *)
WorkerInv ==
    /\ \A i, k \in Jobs : phase[i] \in AtDevice /\ phase[k] \in AtDevice => i = k
    /\ \A c \in Calls : phase[c] # "closing"
    /\ \A j \in Closes : phase[j] \notin {"connecting", "wire"}

(* The link the worker is about to use, or uses, is not suspect. *)
LinkInv ==
    /\ needsReconnect => client = "none"
    /\ \A c \in Calls : phase[c] \in {"connecting", "wire"} => ~needsReconnect
    /\ \A c \in Calls : phase[c] = "wire" => client = "open"

(* The gate and the shutdown of the executor. *)
GateInv ==
    /\ unload # "loaded" => stopping
    /\ unload = "loaded" /\ stopping => executorShutdown
    /\ executorShutdown => stopping /\ Outstanding = {}
    /\ executorShutdown <=> lastClose \in {"closed", "close_failed"}
    /\ unload \in {"draining", "closing"} => ~executorShutdown
    /\ lastClose = "closed" => unload = "unloaded"

(* The close job being awaited is the last job there is. *)
LastJobInv ==
    unload = "closing" =>
        /\ closeJob \in Closes
        /\ \/ /\ phase[closeJob] = "queued"
              /\ queue # <<>> /\ queue[Len(queue)] = closeJob
           \/ phase[closeJob] = "closing" /\ queue = <<>>
           \/ phase[closeJob] \in Settled /\ queue = <<>> /\ WorkerFree

IInv ==
    /\ TypeOK
    /\ QueueInv
    /\ WorkerInv
    /\ LinkInv
    /\ GateInv
    /\ DrainIsComplete
    /\ LastJobInv
    /\ ClosedIsQuiescent

LEMMA InitInv == Init => IInv
<1> SUFFICES ASSUME Init PROVE IInv
  OBVIOUS
<1>1. TypeOK
  BY InitType
<1>2. QueueInv /\ LastJobInv /\ ClosedIsQuiescent
  BY DEF Init, QueueInv, LastJobInv, ClosedIsQuiescent
<1>3. WorkerInv /\ LinkInv
  BY DEF Init, WorkerInv, LinkInv, AtDevice, Jobs
<1>4. GateInv /\ DrainIsComplete
  BY DEF Init, GateInv, DrainIsComplete, Outstanding, AtDevice, Jobs
<1>5. QED
  BY <1>1, <1>2, <1>3, <1>4 DEF IInv

LEMMA NextInv == IInv /\ [Next]_vars => IInv'
<1> SUFFICES ASSUME IInv, [Next]_vars PROVE IInv'
  OBVIOUS
<1> USE JobsAssumption DEF IInv, Jobs
<1>0. TypeOK'
  BY NextType
<1>1. ASSUME NEW c \in Calls, AsyncRunIo(c) PROVE IInv'
  <2>1. QueueInv'
    BY <1>1 DEF TypeOK, AsyncRunIo, QueueInv
  <2>2. WorkerInv'
    BY <1>1 DEF AsyncRunIo, WorkerInv, AtDevice
  <2>3. LinkInv'
    BY <1>1 DEF AsyncRunIo, LinkInv, deviceVars, linkVars
  <2>4. GateInv'
    BY <1>1 DEF AsyncRunIo, GateInv, gateVars, unloadVars
  <2>5. DrainIsComplete'
    BY <1>1 DEF AsyncRunIo, DrainIsComplete, Outstanding, GateInv, unloadVars
  <2>6. LastJobInv'
    BY <1>1 DEF AsyncRunIo, LastJobInv, GateInv, unloadVars
  <2>7. ClosedIsQuiescent'
    BY <1>1 DEF AsyncRunIo, ClosedIsQuiescent, gateVars
  <2>8. QED
    BY <1>0, <2>1, <2>2, <2>3, <2>4, <2>5, <2>6, <2>7
<1>2. ASSUME NEW c \in Calls, Refuse(c) PROVE IInv'
  BY <1>0, <1>2
     DEF Refuse, QueueInv, WorkerInv, LinkInv, GateInv, DrainIsComplete,
         LastJobInv, ClosedIsQuiescent, Outstanding, WorkerFree, deviceVars, linkVars,
         gateVars, unloadVars
<1>3. ASSUME NEW c \in Calls, CancelWaiter(c) PROVE IInv'
  BY <1>0, <1>3
     DEF CancelWaiter, QueueInv, WorkerInv, LinkInv, GateInv, DrainIsComplete,
         LastJobInv, ClosedIsQuiescent, Outstanding, WorkerFree, deviceVars, linkVars,
         gateVars, unloadVars
<1>4. ASSUME NEW c \in Calls, Deliver(c) PROVE IInv'
  <2>1. QueueInv' /\ WorkerInv' /\ LinkInv'
    BY <1>4 DEF Deliver, QueueInv, WorkerInv, LinkInv, deviceVars, linkVars
  <2>2. GateInv'
    BY <1>4 DEF Deliver, GateInv, Outstanding, gateVars, unloadVars
  <2>3. DrainIsComplete'
    BY <1>4 DEF Deliver, DrainIsComplete, Outstanding, AtDevice, Settled, unloadVars
  <2>4. LastJobInv'
    BY <1>4 DEF Deliver, LastJobInv, WorkerFree, unloadVars
  <2>5. ClosedIsQuiescent'
    BY <1>4
       DEF Deliver, ClosedIsQuiescent, WorkerFree, deviceVars, linkVars, gateVars,
           unloadVars
  <2>6. QED
    BY <1>0, <2>1, <2>2, <2>3, <2>4, <2>5
<1>5. ASSUME NEW c \in Calls, TakeCall(c) PROVE IInv'
  <2>1. QueueInv'
    BY <1>5 DEF TakeCall, Next_Up, QueueInv
  <2>2. WorkerInv'
    BY <1>5 DEF TakeCall, WorkerFree, WorkerInv
  <2>3. LinkInv'
    BY <1>5 DEF TakeCall, LinkInv
  <2>4. GateInv'
    BY <1>5
       DEF TakeCall, Next_Up, GateInv, Outstanding, QueueInv, gateVars,
           unloadVars
  <2>5. DrainIsComplete'
    BY <1>5
       DEF TakeCall, Next_Up, DrainIsComplete, Outstanding, QueueInv, unloadVars
  <2>6. LastJobInv'
    BY <1>5
       DEF TakeCall, Next_Up, LastJobInv, DrainIsComplete, Outstanding,
           QueueInv, unloadVars
  <2>7. ClosedIsQuiescent'
    BY <1>5 DEF TakeCall, Next_Up, ClosedIsQuiescent, gateVars
  <2>8. QED
    BY <1>0, <2>1, <2>2, <2>3, <2>4, <2>5, <2>6, <2>7
<1>6. ASSUME NEW c \in Calls, Connect(c) PROVE IInv'
  <2>1. QueueInv'
    BY <1>6 DEF Connect, QueueInv
  <2>2. WorkerInv'
    BY <1>6 DEF Connect, WorkerInv, AtDevice
  <2>3. LinkInv'
    BY <1>6 DEF Connect, LinkInv
  <2>4. GateInv'
    BY <1>6 DEF Connect, GateInv, Outstanding, AtDevice, gateVars, unloadVars
  <2>5. DrainIsComplete'
    BY <1>6 DEF Connect, DrainIsComplete, Outstanding, AtDevice, unloadVars
  <2>6. LastJobInv'
    BY <1>6
       DEF Connect, LastJobInv, AtDevice, DrainIsComplete, Outstanding,
           unloadVars
  <2>7. ClosedIsQuiescent'
    BY <1>6 DEF Connect, ClosedIsQuiescent, WorkerFree, AtDevice, gateVars
  <2>8. QED
    BY <1>0, <2>1, <2>2, <2>3, <2>4, <2>5, <2>6, <2>7
<1>7. ASSUME NEW c \in Calls, ConnectFails(c) PROVE IInv'
  <2>1. QueueInv'
    BY <1>7 DEF ConnectFails, Raise, QueueInv
  <2>2. WorkerInv'
    BY <1>7 DEF ConnectFails, Raise, WorkerInv, AtDevice
  <2>3. LinkInv'
    BY <1>7 DEF TypeOK, ConnectFails, Raise, LinkInv, AtDevice, WorkerInv
  <2>4. GateInv'
    BY <1>7
       DEF ConnectFails, Raise, GateInv, Outstanding, AtDevice, gateVars,
           unloadVars
  <2>5. DrainIsComplete'
    BY <1>7
       DEF ConnectFails, Raise, DrainIsComplete, Outstanding, AtDevice,
           unloadVars
  <2>6. LastJobInv'
    BY <1>7
       DEF ConnectFails, Raise, LastJobInv, AtDevice, DrainIsComplete,
           Outstanding, unloadVars
  <2>7. ClosedIsQuiescent'
    BY <1>7
       DEF ConnectFails, Raise, ClosedIsQuiescent, WorkerFree, AtDevice,
           gateVars
  <2>8. QED
    BY <1>0, <2>1, <2>2, <2>3, <2>4, <2>5, <2>6, <2>7
<1>8. ASSUME NEW c \in Calls, ExchangeOk(c) PROVE IInv'
  <2>1. QueueInv'
    BY <1>8 DEF ExchangeOk, QueueInv
  <2>2. WorkerInv'
    BY <1>8 DEF ExchangeOk, WorkerInv, AtDevice
  <2>3. LinkInv'
    BY <1>8 DEF TypeOK, ExchangeOk, LinkInv, AtDevice, WorkerInv
  <2>4. GateInv'
    BY <1>8 DEF ExchangeOk, GateInv, Outstanding, AtDevice, gateVars, unloadVars
  <2>5. DrainIsComplete'
    BY <1>8 DEF ExchangeOk, DrainIsComplete, Outstanding, AtDevice, unloadVars
  <2>6. LastJobInv'
    BY <1>8
       DEF ExchangeOk, LastJobInv, AtDevice, DrainIsComplete, Outstanding,
           unloadVars
  <2>7. ClosedIsQuiescent'
    BY <1>8 DEF ExchangeOk, ClosedIsQuiescent, LinkInv, gateVars
  <2>8. QED
    BY <1>0, <2>1, <2>2, <2>3, <2>4, <2>5, <2>6, <2>7
<1>9. ASSUME NEW c \in Calls, ExchangeFails(c) PROVE IInv'
  <2>1. QueueInv'
    BY <1>9 DEF ExchangeFails, Raise, QueueInv
  <2>2. WorkerInv'
    BY <1>9 DEF ExchangeFails, Raise, WorkerInv, AtDevice
  <2>3. LinkInv'
    BY <1>9 DEF TypeOK, ExchangeFails, Raise, LinkInv, AtDevice, WorkerInv
  <2>4. GateInv'
    BY <1>9
       DEF ExchangeFails, Raise, GateInv, Outstanding, AtDevice, gateVars,
           unloadVars
  <2>5. DrainIsComplete'
    BY <1>9
       DEF ExchangeFails, Raise, DrainIsComplete, Outstanding, AtDevice,
           unloadVars
  <2>6. LastJobInv'
    BY <1>9
       DEF ExchangeFails, Raise, LastJobInv, AtDevice, DrainIsComplete,
           Outstanding, unloadVars
  <2>7. ClosedIsQuiescent'
    BY <1>9 DEF ExchangeFails, Raise, ClosedIsQuiescent, LinkInv, gateVars
  <2>8. QED
    BY <1>0, <2>1, <2>2, <2>3, <2>4, <2>5, <2>6, <2>7
<1>10. ASSUME NEW j \in Closes, TakeClose(j) PROVE IInv'
  <2>1. QueueInv'
    BY <1>10 DEF TakeClose, Next_Up, QueueInv
  <2>2. WorkerInv'
    BY <1>10 DEF TakeClose, WorkerFree, WorkerInv
  <2>3. LinkInv'
    BY <1>10 DEF TakeClose, LinkInv, deviceVars, linkVars
  <2>4. GateInv'
    BY <1>10 DEF TakeClose, GateInv, Outstanding, gateVars, unloadVars
  <2>5. DrainIsComplete'
    BY <1>10 DEF TakeClose, DrainIsComplete, Outstanding, unloadVars
  <2>6. LastJobInv'
    <3>1. SUFFICES ASSUME unload = "closing" PROVE LastJobInv'
      BY <1>10 DEF LastJobInv, TakeClose, unloadVars
    <3>2. /\ phase[closeJob] = "queued" /\ queue[Len(queue)] = closeJob
          /\ closeJob \in Closes
      BY <1>10, <3>1 DEF TakeClose, Next_Up, LastJobInv
    <3>3. /\ Len(queue) \in Nat \ {0}
          /\ Len(Tail(queue)) = Len(queue) - 1
          /\ \A i \in 1..Len(queue) - 1 : Tail(queue)[i] = queue[i + 1]
      BY <1>10 DEF TypeOK, TakeClose, Next_Up
    <3>4. /\ queue' = Tail(queue) /\ queue' \in Seq(Jobs)
          /\ j = queue[1]
          /\ phase' = [phase EXCEPT ![j] = "closing"]
      BY <1>0, <1>10 DEF TypeOK, TakeClose, Next_Up
    <3>5. CASE Len(queue) = 1
      <4>1. j = closeJob /\ queue' = <<>>
        BY <3>2, <3>3, <3>4, <3>5
      <4>2. QED
        BY <1>10, <4>1 DEF TypeOK, TakeClose, LastJobInv, unloadVars
    <3>6. CASE Len(queue) # 1
      <4>1. Tail(queue)[Len(queue) - 1] = queue[Len(queue)]
        BY <3>3, <3>6
      <4>2. queue' # <<>> /\ queue'[Len(queue')] = closeJob
        <5>1. Len(queue') = Len(queue) - 1 /\ Len(queue') # 0
          BY <3>3, <3>4, <3>6
        <5>2. queue'[Len(queue')] = closeJob
          BY <3>2, <3>4, <4>1, <5>1
        <5>3. Len(<<>>) = 0
          OBVIOUS
        <5>4. QED
          BY <5>1, <5>2, <5>3
      <4>3. j # closeJob
        BY <3>2, <3>3, <3>4, <3>6 DEF QueueInv
      <4>4. QED
        BY <1>10, <4>2, <4>3 DEF TakeClose, LastJobInv, unloadVars
    <3>7. QED
      BY <3>5, <3>6
  <2>7. ClosedIsQuiescent'
    BY <1>10 DEF TakeClose, Next_Up, ClosedIsQuiescent, gateVars
  <2>8. QED
    BY <1>0, <2>1, <2>2, <2>3, <2>4, <2>5, <2>6, <2>7
<1>11. ASSUME NEW j \in Closes, CloseLink(j) PROVE IInv'
  <2>1. QueueInv'
    BY <1>11 DEF TypeOK, CloseLink, QueueInv
  <2>2. WorkerInv'
    BY <1>11 DEF TypeOK, CloseLink, WorkerInv, AtDevice
  <2>3. LinkInv'
    BY <1>11 DEF TypeOK, CloseLink, LinkInv, AtDevice, WorkerInv
  <2>4. GateInv'
    BY <1>11 DEF TypeOK, CloseLink, GateInv, Outstanding, gateVars, unloadVars
  <2>5. DrainIsComplete'
    BY <1>11 DEF TypeOK, CloseLink, DrainIsComplete, Outstanding, unloadVars
  <2>6. LastJobInv'
    BY <1>11
       DEF TypeOK, CloseLink, LastJobInv, Settled, WorkerFree, AtDevice,
           WorkerInv, unloadVars
  <2>7. ClosedIsQuiescent'
    BY <1>11 DEF CloseLink, ClosedIsQuiescent, WorkerFree, AtDevice, gateVars
  <2>8. QED
    BY <1>0, <2>1, <2>2, <2>3, <2>4, <2>5, <2>6, <2>7
<1>12. ASSUME CollectOrphan PROVE IInv'
  BY <1>0, <1>12
     DEF CollectOrphan, QueueInv, WorkerInv, LinkInv, GateInv, DrainIsComplete,
         LastJobInv, ClosedIsQuiescent, Outstanding, WorkerFree, gateVars,
         unloadVars
<1>13. ASSUME AsyncBeginShutdown PROVE IInv'
  <2>1. QueueInv' /\ WorkerInv' /\ LinkInv'
    BY <1>13 DEF AsyncBeginShutdown, QueueInv, WorkerInv, LinkInv, deviceVars, linkVars
  <2>2. GateInv'
    BY <1>13 DEF AsyncBeginShutdown, GateInv, Outstanding
  <2>3. DrainIsComplete'
    BY <1>13 DEF AsyncBeginShutdown, DrainIsComplete, Outstanding
  <2>4. LastJobInv'
    BY <1>13 DEF AsyncBeginShutdown, LastJobInv
  <2>5. ClosedIsQuiescent'
    BY <1>13 DEF AsyncBeginShutdown, ClosedIsQuiescent
  <2>6. QED
    BY <1>0, <2>1, <2>2, <2>3, <2>4, <2>5
<1>14. ASSUME UnloadPlatforms PROVE IInv'
  <2>1. QueueInv' /\ WorkerInv' /\ LinkInv'
    BY <1>14 DEF UnloadPlatforms, QueueInv, WorkerInv, LinkInv, deviceVars, linkVars
  <2>2. GateInv'
    BY <1>14 DEF UnloadPlatforms, GateInv, Outstanding, gateVars
  <2>3. DrainIsComplete'
    BY <1>14 DEF UnloadPlatforms, DrainIsComplete, Outstanding
  <2>4. LastJobInv'
    BY <1>14 DEF UnloadPlatforms, LastJobInv
  <2>5. ClosedIsQuiescent'
    BY <1>14 DEF UnloadPlatforms, ClosedIsQuiescent, gateVars
  <2>6. QED
    BY <1>0, <2>1, <2>2, <2>3, <2>4, <2>5
<1>15. ASSUME AsyncClose PROVE IInv'
  <2>1. QueueInv' /\ WorkerInv' /\ LinkInv'
    BY <1>15 DEF AsyncClose, QueueInv, WorkerInv, LinkInv, deviceVars, linkVars
  <2>2. GateInv'
    BY <1>15 DEF AsyncClose, GateInv, Outstanding
  <2>3. DrainIsComplete'
    BY <1>15 DEF AsyncClose, DrainIsComplete, Outstanding
  <2>4. LastJobInv'
    BY <1>15 DEF AsyncClose, LastJobInv
  <2>5. ClosedIsQuiescent'
    BY <1>15 DEF AsyncClose, ClosedIsQuiescent
  <2>6. QED
    BY <1>0, <2>1, <2>2, <2>3, <2>4, <2>5
<1>16. ASSUME NEW j \in Closes, SubmitClose(j) PROVE IInv'
  <2>1. QueueInv'
    BY <1>16 DEF TypeOK, SubmitClose, QueueInv
  <2>2. WorkerInv'
    BY <1>16 DEF SubmitClose, WorkerInv, AtDevice
  <2>3. LinkInv'
    BY <1>16 DEF SubmitClose, LinkInv, deviceVars, linkVars
  <2>4. GateInv'
    BY <1>16 DEF SubmitClose, GateInv, gateVars
  <2>5. DrainIsComplete'
    BY <1>16 DEF SubmitClose, DrainIsComplete, Outstanding
  <2>6. LastJobInv'
    BY <1>16 DEF TypeOK, SubmitClose, LastJobInv, deviceVars, linkVars
  <2>7. ClosedIsQuiescent'
    BY <1>16 DEF SubmitClose, ClosedIsQuiescent, gateVars
  <2>8. QED
    BY <1>0, <2>1, <2>2, <2>3, <2>4, <2>5, <2>6, <2>7
<1>17. ASSUME CloseTimeout PROVE IInv'
  <2>1. QueueInv' /\ WorkerInv' /\ LinkInv'
    BY <1>17 DEF CloseTimeout, QueueInv, WorkerInv, LinkInv, deviceVars, linkVars
  <2>2. GateInv'
    BY <1>17 DEF CloseTimeout, GateInv
  <2>3. DrainIsComplete'
    BY <1>17 DEF CloseTimeout, DrainIsComplete, Outstanding
  <2>4. LastJobInv'
    BY <1>17 DEF CloseTimeout, LastJobInv
  <2>5. ClosedIsQuiescent'
    BY <1>17 DEF CloseTimeout, ClosedIsQuiescent
  <2>6. QED
    BY <1>0, <2>1, <2>2, <2>3, <2>4, <2>5
<1>18. ASSUME CloseFailed PROVE IInv'
  <2>1. QueueInv' /\ WorkerInv' /\ LinkInv'
    BY <1>18 DEF CloseFailed, QueueInv, WorkerInv, LinkInv, deviceVars, linkVars
  <2>2. GateInv'
    BY <1>18 DEF CloseFailed, GateInv, DrainIsComplete, Outstanding
  <2>3. DrainIsComplete'
    BY <1>18 DEF CloseFailed, DrainIsComplete, Outstanding
  <2>4. LastJobInv'
    BY <1>18 DEF CloseFailed, LastJobInv
  <2>5. ClosedIsQuiescent'
    BY <1>18 DEF CloseFailed, ClosedIsQuiescent
  <2>6. QED
    BY <1>0, <2>1, <2>2, <2>3, <2>4, <2>5
<1>19. ASSUME CloseConfirmed PROVE IInv'
  <2>1. QueueInv'
    BY <1>19 DEF CloseConfirmed, QueueInv
  <2>2. WorkerInv'
    BY <1>19 DEF CloseConfirmed, WorkerInv
  <2>3. LinkInv'
    BY <1>19 DEF CloseConfirmed, LinkInv, AtDevice, Outstanding, DrainIsComplete
  <2>4. GateInv'
    BY <1>19 DEF CloseConfirmed, GateInv, DrainIsComplete, Outstanding
  <2>5. DrainIsComplete'
    BY <1>19 DEF CloseConfirmed, DrainIsComplete, Outstanding
  <2>6. LastJobInv'
    BY <1>19 DEF CloseConfirmed, LastJobInv
  <2>7. ClosedIsQuiescent'
    BY <1>19 DEF CloseConfirmed, ClosedIsQuiescent, WorkerFree, GateInv, LastJobInv
  <2>8. QED
    BY <1>0, <2>1, <2>2, <2>3, <2>4, <2>5, <2>6, <2>7
<1>20. ASSUME AsyncCancelShutdown PROVE IInv'
  <2>1. QueueInv' /\ WorkerInv' /\ LinkInv'
    BY <1>20 DEF AsyncCancelShutdown, QueueInv, WorkerInv, LinkInv, deviceVars, linkVars
  <2>2. GateInv'
    BY <1>20 DEF AsyncCancelShutdown, GateInv, Outstanding
  <2>3. DrainIsComplete'
    BY <1>20 DEF AsyncCancelShutdown, DrainIsComplete, Outstanding
  <2>4. LastJobInv'
    BY <1>20 DEF AsyncCancelShutdown, LastJobInv
  <2>5. ClosedIsQuiescent'
    BY <1>20 DEF AsyncCancelShutdown, ClosedIsQuiescent
  <2>6. QED
    BY <1>0, <2>1, <2>2, <2>3, <2>4, <2>5
<1>21. CASE UNCHANGED vars
  BY <1>0, <1>21
     DEF vars, deviceVars, linkVars, gateVars, unloadVars, QueueInv, WorkerInv, LinkInv,
         GateInv, DrainIsComplete, LastJobInv, ClosedIsQuiescent, Outstanding,
         WorkerFree
<1>22. QED
  BY <1>1, <1>2, <1>3, <1>4, <1>5, <1>6, <1>7, <1>8, <1>9, <1>10, <1>11,
     <1>12, <1>13, <1>14, <1>15, <1>16, <1>17, <1>18, <1>19, <1>20, <1>21
     DEF Next, WorkerStep, Delivery, UnloadStep, Environment

THEOREM Invariance == Safe => []IInv
BY InitInv, NextInv, PTL DEF Safe

-----------------------------------------------------------------------------
(* What follows from the invariant alone. *)

(* async_close drains everything that is queued or at the device. *)
THEOREM DrainCorrect == Safe => []DrainIsComplete
<1>1. IInv => DrainIsComplete
  BY DEF IInv
<1>2. QED
  BY Invariance, <1>1, PTL

(* A confirmed close leaves no job, no client and no later state change. *)
THEOREM CloseCorrect == Safe => []ClosedIsQuiescent
<1>1. IInv => ClosedIsQuiescent
  BY DEF IInv
<1>2. QED
  BY Invariance, <1>1, PTL

-----------------------------------------------------------------------------
(* What no step may do. *)

(* The life of a job: what a step may change in `phase`. *)
Submitted(j) == phase[j] = "new" /\ phase'[j] = "queued"
                /\ (j \in Calls => ~stopping /\ ~executorShutdown)
Granted(j)   == phase[j] = "queued" /\ phase'[j] \in {"connecting", "closing"}
                /\ WorkerFree /\ Next_Up(j)
Advanced(j)  == phase[j] = "connecting" /\ phase'[j] = "wire"
Ended(j)     == phase[j] \in AtDevice /\ phase'[j] \in Settled

JobMoves(j) ==
    /\ phase' = [phase EXCEPT ![j] = phase'[j]]
    /\ Submitted(j) \/ Granted(j) \/ Advanced(j) \/ Ended(j)

LEMMA JobStep ==
    IInv /\ [Next]_vars => phase' = phase \/ \E j \in Jobs : JobMoves(j)
<1> SUFFICES ASSUME IInv, [Next]_vars
             PROVE  phase' = phase \/ \E j \in Jobs : JobMoves(j)
  OBVIOUS
<1> USE DEF IInv, TypeOK, Jobs
<1>1. ASSUME NEW c \in Calls, AsyncRunIo(c) PROVE JobMoves(c)
  BY <1>1 DEF AsyncRunIo, JobMoves, Submitted
<1>2. ASSUME NEW c \in Calls, TakeCall(c) PROVE JobMoves(c)
  <2>1. phase[c] = "queued"
    BY <1>2 DEF TakeCall, Next_Up, QueueInv
  <2>2. QED
    BY <1>2, <2>1 DEF TakeCall, JobMoves, Granted
<1>3. ASSUME NEW c \in Calls, Connect(c) PROVE JobMoves(c)
  BY <1>3 DEF Connect, JobMoves, Advanced
<1>4. ASSUME NEW c \in Calls, ConnectFails(c) \/ ExchangeFails(c) PROVE JobMoves(c)
  BY <1>4 DEF ConnectFails, ExchangeFails, Raise, JobMoves, Ended, AtDevice, Settled
<1>5. ASSUME NEW c \in Calls, ExchangeOk(c) PROVE JobMoves(c)
  BY <1>5 DEF ExchangeOk, JobMoves, Ended, AtDevice, Settled
<1>6. ASSUME NEW j \in Closes, TakeClose(j) PROVE JobMoves(j)
  <2>1. phase[j] = "queued"
    BY <1>6 DEF TakeClose, Next_Up, QueueInv
  <2>2. QED
    BY <1>6, <2>1 DEF TakeClose, JobMoves, Granted
<1>7. ASSUME NEW j \in Closes, CloseLink(j) PROVE JobMoves(j)
  BY <1>7 DEF CloseLink, JobMoves, Ended, AtDevice, Settled
<1>8. ASSUME NEW j \in Closes, SubmitClose(j) PROVE JobMoves(j)
  BY <1>8, JobsAssumption DEF SubmitClose, JobMoves, Submitted
<1>9. ASSUME NEW c \in Calls, Refuse(c) \/ CancelWaiter(c) \/ Deliver(c)
      PROVE  phase' = phase
  BY <1>9 DEF Refuse, CancelWaiter, Deliver
<1>10. CASE UnloadPlatforms \/ AsyncClose \/ CloseTimeout \/ CloseFailed
            \/ CloseConfirmed \/ AsyncCancelShutdown
  BY <1>10 DEF UnloadPlatforms, AsyncClose, CloseTimeout, CloseFailed,
     CloseConfirmed, AsyncCancelShutdown
<1>11. CASE AsyncBeginShutdown \/ CollectOrphan \/ UNCHANGED vars
  BY <1>11 DEF AsyncBeginShutdown, CollectOrphan, vars
<1>12. QED
  BY <1>1, <1>2, <1>3, <1>4, <1>5, <1>6, <1>7, <1>8, <1>9, <1>10, <1>11
     DEF Next, WorkerStep, Delivery, UnloadStep, Environment

(* While an unload is under way no call is accepted. *)
THEOREM DrainsMonotonically == Safe => ShutdownOnlyDrains
<1>1. ASSUME IInv, [Next]_vars, unload \notin {"loaded", "undo"}
      PROVE  Outstanding' \subseteq Outstanding
  <2>1. stopping
    BY <1>1 DEF IInv, GateInv
  <2>2. ASSUME NEW j \in Jobs, JobMoves(j)
        PROVE  Outstanding' \subseteq Outstanding
    BY <1>1, <2>1, <2>2 DEF JobMoves, Submitted, Granted, Advanced, Ended,
       Outstanding, AtDevice, Settled, IInv, TypeOK, Jobs
  <2>3. QED
    BY <1>1, <2>2, JobStep DEF Outstanding
<1>2. QED
  BY <1>1, Invariance, PTL DEF Safe, ShutdownOnlyDrains

-----------------------------------------------------------------------------
(***************************************************************************)
(* The transport implements DeviceOwner: submitting accepts, taking a call *)
(* grants, the end of a call finishes, the unload moves the gate, and      *)
(* everything else (futures, waiters, links, close jobs) is a stutter.     *)
(***************************************************************************)
LEMMA InitRefines == Init => Owner!OwnerInit
BY DEF Init, Owner!OwnerInit, Jobs, Settled

(* A step that moves a job leaves the gate alone, except those of the
   unload that queue a close job. *)
LEMMA GateStep ==
    [Next]_vars =>
        \/ UNCHANGED <<stopping, executorShutdown>>
        \/ phase' = phase /\ UNCHANGED executorShutdown
        \/ phase' = phase /\ (CloseFailed \/ CloseConfirmed)
<1> SUFFICES ASSUME [Next]_vars
             PROVE  \/ UNCHANGED <<stopping, executorShutdown>>
                    \/ phase' = phase /\ UNCHANGED executorShutdown
                    \/ phase' = phase /\ (CloseFailed \/ CloseConfirmed)
  OBVIOUS
<1>1. ASSUME NEW c \in Calls,
             \/ AsyncRunIo(c) \/ Refuse(c) \/ CancelWaiter(c) \/ Deliver(c)
      PROVE  UNCHANGED <<stopping, executorShutdown>>
  BY <1>1 DEF AsyncRunIo, Refuse, CancelWaiter, Deliver, gateVars
<1>2. ASSUME NEW c \in Calls,
             \/ TakeCall(c) \/ Connect(c) \/ ConnectFails(c) \/ ExchangeOk(c)
             \/ ExchangeFails(c)
      PROVE  UNCHANGED <<stopping, executorShutdown>>
  BY <1>2
     DEF TakeCall, Connect, ConnectFails, ExchangeOk, ExchangeFails, Raise,
         gateVars
<1>3. ASSUME NEW j \in Closes, TakeClose(j) \/ CloseLink(j) \/ SubmitClose(j)
      PROVE  UNCHANGED <<stopping, executorShutdown>>
  BY <1>3 DEF TakeClose, CloseLink, SubmitClose, gateVars
<1>4. CASE UnloadPlatforms \/ CloseTimeout \/ CollectOrphan \/ UNCHANGED vars
  BY <1>4 DEF UnloadPlatforms, CloseTimeout, CollectOrphan, vars, gateVars
<1>5. CASE AsyncBeginShutdown \/ AsyncClose \/ AsyncCancelShutdown
  BY <1>5 DEF AsyncBeginShutdown, AsyncClose, AsyncCancelShutdown
<1>6. CASE CloseFailed \/ CloseConfirmed
  BY <1>6 DEF CloseFailed, CloseConfirmed
<1>7. QED
  BY <1>1, <1>2, <1>3, <1>4, <1>5, <1>6
     DEF Next, WorkerStep, Delivery, UnloadStep, Environment

LEMMA NextRefines == IInv /\ [Next]_vars => [Owner!OwnerNext]_(Owner!ownerVars)
<1> SUFFICES ASSUME IInv, [Next]_vars PROVE [Owner!OwnerNext]_(Owner!ownerVars)
  OBVIOUS
<1> USE DEF Owner!ownerVars, Owner!OwnerNext
<1>0. IInv'
  BY NextInv
<1>1. CASE phase' = phase /\ UNCHANGED <<stopping, executorShutdown>>
  BY <1>1
<1>2. CASE phase' = phase /\ UNCHANGED executorShutdown
  BY <1>2 DEF Owner!Shut, Owner!Reopen, IInv, TypeOK
<1>3. CASE phase' = phase /\ (CloseFailed \/ CloseConfirmed)
  <2>1. executorShutdown' /\ ~executorShutdown /\ stopping
    BY <1>3 DEF CloseFailed, CloseConfirmed, IInv, GateInv
  <2>2. Outstanding = {}
    BY <1>3 DEF CloseFailed, CloseConfirmed, IInv, DrainIsComplete
  <2>3. Owner!Seal
    BY <1>3, <2>1, <2>2 DEF Owner!Seal, Outstanding, AtDevice
  <2>4. QED
    BY <2>3
<1>4. ASSUME NEW j \in Jobs, JobMoves(j), UNCHANGED <<stopping, executorShutdown>>
      PROVE  [Owner!OwnerNext]_(Owner!ownerVars)
  <2>1. phase \in [Jobs -> Phases] /\ phase' = [phase EXCEPT ![j] = phase'[j]]
    BY <1>4 DEF IInv, TypeOK, JobMoves
  <2>2. CASE j \in Closes
    <3>1. ASSUME NEW c \in Calls PROVE phase'[c] = phase[c]
      BY <2>1, <2>2, JobsAssumption DEF Jobs
    <3>2. QED
      BY <1>4, <3>1
  <2>3. CASE j \in Calls
    <3>1. \A c \in Calls : c # j => phase'[c] = phase[c]
      BY <2>1, <2>3 DEF Jobs
    <3>2. CASE Submitted(j)
      <4>1. Owner!Accept(j)
        BY <1>4, <2>3, <3>1, <3>2 DEF Submitted, Owner!Accept, Settled
      <4>2. QED
        BY <2>3, <4>1
    <3>3. CASE Granted(j)
      <4>1. phase'[j] = "connecting"
        BY <1>0, <2>3, <3>3 DEF Granted, IInv, WorkerInv
      <4>2. \A c \in Calls : phase[c] \notin {"connecting", "wire"}
        BY <3>3 DEF Granted, WorkerFree, AtDevice, Jobs
      <4>3. Owner!Grant(j)
        BY <1>4, <2>3, <3>1, <3>3, <4>1, <4>2 DEF Granted, Owner!Grant, Settled
      <4>4. QED
        BY <2>3, <4>3
    <3>4. CASE Advanced(j)
      BY <1>4, <2>3, <3>1, <3>4 DEF Advanced, Settled
    <3>5. CASE Ended(j)
      <4>1. phase[j] \in {"connecting", "wire"}
        BY <2>3, <3>5 DEF Ended, AtDevice, IInv, WorkerInv
      <4>2. Owner!Finish(j)
        BY <1>4, <2>3, <3>1, <3>5, <4>1 DEF Ended, Owner!Finish, Settled
      <4>3. QED
        BY <2>3, <4>2
    <3>6. QED
      BY <1>4, <3>2, <3>3, <3>4, <3>5 DEF JobMoves
  <2>4. QED
    BY <2>2, <2>3 DEF Jobs
<1>5. QED
  BY <1>1, <1>2, <1>3, <1>4, JobStep, GateStep

(* The transport keeps the promise of DeviceOwner: the device is held by one
   accepted call at a time, and sealed only when nothing accepted is left. *)
THEOREM TransportOwnsDevice == Safe => OwnsDevice
BY InitRefines, NextRefines, Invariance, PTL DEF Safe, OwnsDevice, Owner!OwnerSpec

-----------------------------------------------------------------------------
(***************************************************************************)
(* The transport is a client queue: a job is submitted when a call is      *)
(* accepted and ends when its call ends on the worker.                     *)
(***************************************************************************)
Gate == IF executorShutdown THEN "closed" ELSE IF stopping THEN "shut" ELSE "open"

(* A job that moves moves the number of outstanding calls by one at most. *)
LEMMA OutstandingMoves ==
    ASSUME IInv, NEW j \in Jobs, JobMoves(j)
    PROVE  \/ Outstanding' = Outstanding
           \/ /\ ~stopping /\ ~executorShutdown
              /\ j \notin Outstanding /\ Outstanding' = Outstanding \cup {j}
           \/ j \in Outstanding /\ Outstanding' = Outstanding \ {j}
<1> USE DEF AtDevice, Settled
<1>1. phase \in [Jobs -> Phases] /\ phase' = [phase EXCEPT ![j] = phase'[j]]
  BY DEF IInv, TypeOK, JobMoves
<1>2. CASE j \in Closes
  <2>1. \A c \in Calls : phase'[c] = phase[c]
    BY <1>1, <1>2, JobsAssumption DEF Jobs
  <2> QED BY <2>1 DEF Outstanding
<1>3. CASE j \in Calls
  <2>1. \A c \in Calls : c # j => phase'[c] = phase[c]
    BY <1>1, <1>3 DEF Jobs
  <2>2. CASE Submitted(j)
    BY <1>3, <2>1, <2>2 DEF Submitted, Outstanding
  <2>3. CASE Granted(j) \/ Advanced(j)
    BY <1>3, <2>1, <2>3 DEF Granted, Advanced, Outstanding
  <2>4. CASE Ended(j)
    BY <1>3, <2>1, <2>4 DEF Ended, Outstanding
  <2> QED BY <2>2, <2>3, <2>4 DEF JobMoves
<1> QED BY <1>2, <1>3 DEF Jobs

(* In terms of the number of jobs and the gate. *)
LEMMA QueueStep ==
    ASSUME IInv, IsFiniteSet(Outstanding), [Next]_vars
    PROVE  /\ IsFiniteSet(Outstanding')
           /\ LET n == Cardinality(Outstanding)
                  m == Cardinality(Outstanding')
              IN \/ m = n /\ Gate' = Gate
                 \/ Gate = "open" /\ m = n + 1 /\ Gate' = Gate
                 \/ n > 0 /\ m = n - 1 /\ Gate' = Gate
                 \/ Gate = "open" /\ Gate' = "shut" /\ m = n
                 \/ Gate = "shut" /\ Gate' = "open" /\ m = n
                 \/ n = 0 /\ Gate = "shut" /\ Gate' = "closed" /\ m = n
<1>0. Cardinality(Outstanding) \in Nat
  BY FS_CardinalityType
<1>1. CASE phase' = phase
  <2>1. Outstanding' = Outstanding
    BY <1>1 DEF Outstanding
  <2>2. CASE UNCHANGED executorShutdown
    BY <2>1, <2>2 DEF Gate, IInv, TypeOK
  <2>3. CASE CloseFailed \/ CloseConfirmed
    <3>1. executorShutdown' /\ ~executorShutdown /\ stopping
      BY <2>3 DEF CloseFailed, CloseConfirmed, IInv, GateInv
    <3>2. Outstanding = {}
      BY <2>3 DEF CloseFailed, CloseConfirmed, IInv, DrainIsComplete
    <3>3. Cardinality(Outstanding) = 0
      BY <3>2, FS_EmptySet
    <3> QED BY <2>1, <3>1, <3>3 DEF Gate
  <2> QED BY <1>1, <2>2, <2>3, GateStep
<1>2. ASSUME NEW j \in Jobs, JobMoves(j), phase' # phase
      PROVE  /\ IsFiniteSet(Outstanding')
             /\ LET n == Cardinality(Outstanding)
                    m == Cardinality(Outstanding')
                IN \/ m = n \/ (Gate = "open" /\ m = n + 1) \/ (n > 0 /\ m = n - 1)
             /\ Gate' = Gate
  <2>1. Gate' = Gate
    BY <1>2, GateStep DEF Gate
  <2>2. CASE Outstanding' = Outstanding
    BY <2>1, <2>2
  <2>3. CASE /\ ~stopping /\ ~executorShutdown
             /\ j \notin Outstanding /\ Outstanding' = Outstanding \cup {j}
    BY <2>1, <2>3, FS_AddElement DEF Gate
  <2>4. CASE j \in Outstanding /\ Outstanding' = Outstanding \ {j}
    <3>1. Cardinality(Outstanding) # 0
      BY <2>4, FS_EmptySet
    <3> QED BY <1>0, <2>1, <2>4, <3>1, FS_RemoveElement
  <2> QED BY <1>2, <2>2, <2>3, <2>4, OutstandingMoves
<1> QED BY <1>1, <1>2, JobStep

LEMMA QueueRefines ==
    ASSUME IInv, IsFiniteSet(Outstanding), [Next]_vars
    PROVE  [Queue!QueueNext]_(Queue!queueVars)
<1> DEFINE J == [q \in {"client"} |-> Cardinality(Outstanding)]
           G == [q \in {"client"} |-> Gate]
           n == Cardinality(Outstanding)
           m == Cardinality(Outstanding')
<1>1. /\ J' = [J EXCEPT !["client"] = m] /\ J["client"] = n
      /\ G' = [G EXCEPT !["client"] = Gate'] /\ G["client"] = Gate
  OBVIOUS
<1>2. CASE m = n /\ Gate' = Gate
  BY <1>2 DEF Queue!queueVars, Gate
<1>3. CASE Gate = "open" /\ m = n + 1 /\ Gate' = Gate
  <2>1. Queue!Submit("client")
    BY <1>1, <1>3 DEF Queue!Submit, Gate
  <2> QED BY <2>1 DEF Queue!QueueNext
<1>4. CASE n > 0 /\ m = n - 1 /\ Gate' = Gate
  <2>1. Queue!End("client")
    BY <1>1, <1>4 DEF Queue!End, Gate
  <2> QED BY <2>1 DEF Queue!QueueNext
<1>5. CASE Gate = "open" /\ Gate' = "shut" /\ m = n
  <2>1. Queue!Shut("client")
    BY <1>1, <1>5 DEF Queue!Shut, Queue!Turn, Gate
  <2> QED BY <2>1 DEF Queue!QueueNext
<1>6. CASE Gate = "shut" /\ Gate' = "open" /\ m = n
  <2>1. Queue!Reopen("client")
    BY <1>1, <1>6 DEF Queue!Reopen, Queue!Turn, Gate
  <2> QED BY <2>1 DEF Queue!QueueNext
<1>7. CASE n = 0 /\ Gate = "shut" /\ Gate' = "closed" /\ m = n
  <2>1. Queue!Close("client")
    BY <1>1, <1>7 DEF Queue!Close, Queue!Turn, Gate
  <2> QED BY <2>1 DEF Queue!QueueNext
<1> QED BY <1>2, <1>3, <1>4, <1>5, <1>6, <1>7, QueueStep

(* The transport is a client as the life of an entry uses it, for any set of
   calls: what DavisEntry takes for granted of its clients is so. *)
THEOREM TransportIsClientQueue == Safe => IsClientQueue
<1>1. Init => Outstanding = {} /\ Queue!QueueInit
  <2> SUFFICES ASSUME Init PROVE Outstanding = {} /\ Queue!QueueInit
    OBVIOUS
  <2>1. Outstanding = {}
    BY DEF Init, Outstanding, AtDevice, Jobs
  <2>2. Cardinality(Outstanding) = 0
    BY <2>1, FS_EmptySet
  <2> QED BY <2>1, <2>2 DEF Init, Queue!QueueInit
<1>2. Init => IsFiniteSet(Outstanding)
  BY <1>1, FS_EmptySet
<1>3. IInv /\ IsFiniteSet(Outstanding) /\ [Next]_vars => IsFiniteSet(Outstanding)'
  BY QueueStep
<1>4. IInv /\ IsFiniteSet(Outstanding) /\ [Next]_vars
          => [Queue!QueueNext]_(Queue!queueVars)
  BY QueueRefines
<1> QED BY <1>1, <1>2, <1>3, <1>4, Invariance, PTL
        DEF Safe, IsClientQueue, Queue!QueueSpec

-----------------------------------------------------------------------------
(***************************************************************************)
(* What stays open between transactions, and what a failing close leaves.  *)
(***************************************************************************)
Excused == persistent \/ loopOpened

PortInv ==
    /\ IdlePortReleased
    /\ suspect => client = "open" /\ (Excused \/ OnTheWire)
    /\ unload = "closing" /\ phase[closeJob] = "failed" => client = "open" /\ Excused
    /\ lastClose = "close_failed" =>
          client = "open" /\ Excused /\ queue = <<>> /\ WorkerFree

LEMMA PortInit == Init => PortInv
BY DEF Init, PortInv, IdlePortReleased

(* A job that is at the device is the only one, and a close is not over. *)
LEMMA Busy ==
    ASSUME IInv, NEW j \in Jobs, phase[j] \in AtDevice
    PROVE  /\ ~WorkerFree
           /\ unload = "closing" => phase[closeJob] \notin Settled
           /\ \A c \in Calls : phase[c] = "wire" => c = j
<1>1. ~WorkerFree
  BY DEF WorkerFree
<1>2. unload = "closing" => phase[closeJob] \notin Settled
  BY <1>1 DEF IInv, LastJobInv, AtDevice, Settled
<1>3. \A c \in Calls : phase[c] = "wire" => c = j
  BY DEF IInv, WorkerInv, AtDevice, Jobs
<1>4. QED
  BY <1>1, <1>2, <1>3

LEMMA PortNext == IInv /\ PortInv /\ [Next]_vars => PortInv'
<1> SUFFICES ASSUME IInv, PortInv, [Next]_vars PROVE PortInv'
  OBVIOUS
<1> USE JobsAssumption DEF PortInv, IdlePortReleased, Excused, OnTheWire, Jobs
<1>0. /\ phase \in [Jobs -> Phases] /\ client \in {"none", "closed", "open"}
      /\ persistent \in BOOLEAN /\ suspect \in BOOLEAN /\ loopOpened \in BOOLEAN
      /\ executorShutdown <=> lastClose \in {"closed", "close_failed"}
      /\ executorShutdown => stopping /\ Outstanding = {}
      /\ unload = "closing" => closeJob \in Closes
  BY DEF IInv, TypeOK, GateInv, LastJobInv
<1>1. ASSUME NEW c \in Calls, AsyncRunIo(c) PROVE PortInv'
  <2>1. lastClose # "close_failed"
    BY <1>0, <1>1 DEF AsyncRunIo
  <2>2. \A d \in Calls : phase'[d] = "wire" <=> phase[d] = "wire"
    BY <1>0, <1>1 DEF AsyncRunIo
  <2>3. unload = "closing" => phase'[closeJob] = phase[closeJob]
    BY <1>0, <1>1 DEF AsyncRunIo
  <2>4. QED
    BY <1>1, <2>1, <2>2, <2>3 DEF AsyncRunIo, deviceVars, linkVars, gateVars, unloadVars
<1>2. ASSUME NEW c \in Calls, Refuse(c) \/ CancelWaiter(c) PROVE PortInv'
  BY <1>2 DEF Refuse, CancelWaiter, deviceVars, linkVars, gateVars, unloadVars, WorkerFree
<1>3. ASSUME NEW c \in Calls, Deliver(c) PROVE PortInv'
  <2>1. CASE UNCHANGED linkVars
    BY <1>3, <2>1 DEF Deliver, linkVars, gateVars, unloadVars, WorkerFree
  <2>2. CASE ~UNCHANGED linkVars
    <3>1. /\ client' = "open" /\ loopOpened' = (loopOpened \/ client = "closed")
          /\ persistent' = persistent /\ client # "none"
          /\ UNCHANGED <<phase, queue, gateVars, unloadVars>>
      BY <1>3, <2>2 DEF Deliver
    <3>2. ~persistent /\ ~OnTheWire => loopOpened'
      BY <1>0, <3>1
    <3>3. Excused => Excused'
      BY <3>1
    <3>4. QED
      BY <3>1, <3>2, <3>3 DEF gateVars, unloadVars, WorkerFree
  <2>3. QED
    BY <2>1, <2>2
<1>4. ASSUME NEW c \in Calls, TakeCall(c) PROVE PortInv'
  <2>1. phase[c] = "queued" /\ c \in Outstanding
    BY <1>4 DEF TakeCall, Next_Up, IInv, QueueInv, Outstanding
  <2>2. lastClose # "close_failed" /\ unload # "closing"
    BY <1>0, <2>1 DEF IInv, DrainIsComplete
  <2>3. \A d \in Calls : phase'[d] = "wire" <=> phase[d] = "wire"
    BY <1>0, <1>4, <2>1 DEF TakeCall
  <2>4. QED
    BY <1>4, <2>2, <2>3 DEF TakeCall, gateVars, unloadVars
<1>5. ASSUME NEW c \in Calls,
             \/ Connect(c) \/ ConnectFails(c) \/ ExchangeOk(c) \/ ExchangeFails(c)
      PROVE  PortInv'
  <2>1. phase[c] \in AtDevice /\ c \in Outstanding
    BY <1>5 DEF Connect, ConnectFails, ExchangeOk, ExchangeFails, AtDevice, Outstanding
  <2>2. lastClose # "close_failed" /\ unload # "closing"
    BY <1>0, <2>1 DEF IInv, DrainIsComplete
  <2>3. CASE Connect(c)
    <3>1. phase'[c] = "wire" /\ client' = "open"
      BY <1>0, <2>3 DEF Connect
    <3>2. QED
      BY <2>2, <2>3, <3>1 DEF Connect, gateVars, unloadVars
  <2>4. CASE ConnectFails(c) \/ ExchangeFails(c)
    <3>1. client' = "none" /\ ~suspect'
      BY <2>4 DEF ConnectFails, ExchangeFails, Raise
    <3>2. QED
      BY <2>2, <2>4, <3>1 DEF ConnectFails, ExchangeFails, Raise, gateVars, unloadVars
  <2>5. CASE ExchangeOk(c)
    <3>1. client = "open"
      BY <2>5 DEF ExchangeOk, IInv, LinkInv
    <3>2. QED
      BY <1>0, <2>2, <2>5, <3>1 DEF ExchangeOk, gateVars, unloadVars
  <2>6. QED
    BY <1>5, <2>3, <2>4, <2>5
<1>6. ASSUME NEW j \in Closes, TakeClose(j) PROVE PortInv'
  <2>1. phase[j] = "queued" /\ queue # <<>>
    BY <1>6 DEF TakeClose, Next_Up, IInv, QueueInv
  <2>2. lastClose # "close_failed"
    BY <2>1
  <2>3. \A d \in Calls : phase'[d] = phase[d]
    BY <1>0, <1>6 DEF TakeClose
  <2>4. unload = "closing" /\ phase'[closeJob] = "failed" => phase[closeJob] = "failed"
    BY <1>0, <1>6 DEF TakeClose
  <2>5. QED
    BY <1>6, <2>2, <2>3, <2>4 DEF TakeClose, deviceVars, linkVars, gateVars, unloadVars
<1>7. ASSUME NEW j \in Closes, CloseLink(j) PROVE PortInv'
  <2>1. phase[j] \in AtDevice /\ phase[j] = "closing"
    BY <1>7 DEF CloseLink, AtDevice
  <2>2. ~WorkerFree /\ ~OnTheWire
    BY <2>1, Busy
  <2>3. unload = "closing" => phase[closeJob] \notin Settled
    BY <2>1, Busy
  <2>4. ~OnTheWire'
    BY <1>0, <1>7, <2>2 DEF CloseLink
  <2>5. CASE client' # "open" /\ ~suspect'
    <3>1. phase' = [phase EXCEPT ![j] = "ok"]
      BY <1>7, <2>5 DEF CloseLink
    <3>2. unload = "closing" => phase'[closeJob] # "failed"
      BY <1>0, <2>3, <3>1 DEF Settled
    <3>3. QED
      BY <1>7, <2>2, <2>5, <3>2 DEF CloseLink, gateVars, unloadVars
  <2>6. CASE client = "open" /\ UNCHANGED <<client, suspect, loopOpened>>
    BY <1>7, <2>2, <2>4, <2>6 DEF CloseLink, gateVars, unloadVars
  <2>7. QED
    BY <1>7, <2>5, <2>6 DEF CloseLink
<1>8. ASSUME NEW j \in Closes, SubmitClose(j) PROVE PortInv'
  <2>1. lastClose # "close_failed"
    BY <1>0, <1>8 DEF SubmitClose, IInv, GateInv
  <2>2. \A d \in Calls : phase'[d] = phase[d]
    BY <1>0, <1>8 DEF SubmitClose
  <2>3. phase'[closeJob'] = "queued"
    BY <1>0, <1>8 DEF SubmitClose
  <2>4. QED
    BY <1>8, <2>1, <2>2, <2>3 DEF SubmitClose, deviceVars, linkVars, gateVars
<1>9. CASE CloseFailed
  <2>1. queue = <<>> /\ WorkerFree
    BY <1>9 DEF CloseFailed, IInv, LastJobInv, AtDevice, Settled
  <2>2. client = "open" /\ Excused
    BY <1>9 DEF CloseFailed
  <2>3. QED
    BY <1>9, <2>1, <2>2 DEF CloseFailed, deviceVars, linkVars, WorkerFree
<1>10. CASE CloseConfirmed
  BY <1>10 DEF CloseConfirmed
<1>11. CASE UnloadPlatforms \/ AsyncClose \/ AsyncCancelShutdown
  BY <1>11 DEF UnloadPlatforms, AsyncClose, AsyncCancelShutdown, deviceVars, linkVars,
     gateVars, WorkerFree
<1>12. CASE CloseTimeout
  BY <1>12 DEF CloseTimeout, deviceVars, linkVars
<1>13. CASE AsyncBeginShutdown \/ CollectOrphan \/ UNCHANGED vars
  BY <1>13 DEF AsyncBeginShutdown, CollectOrphan, vars, deviceVars, linkVars, gateVars,
     unloadVars, WorkerFree
<1>14. QED
  BY <1>1, <1>2, <1>3, <1>4, <1>5, <1>6, <1>7, <1>8, <1>9, <1>10, <1>11, <1>12, <1>13
     DEF Next, WorkerStep, Delivery, UnloadStep, Environment

LEMMA PortInvariance == Safe => []PortInv
BY PortInit, PortNext, Invariance, PTL DEF Safe

(* The link of a call that raised is never used again, and a suspect one
   only where its failure was passed over and the port stayed open. *)
THEOREM LinkCorrect == Safe => []SuspectLinkDropped
<1>1. IInv /\ PortInv => SuspectLinkDropped
  BY DEF IInv, LinkInv, PortInv, Excused, OnTheWire, SuspectLinkDropped
<1>2. QED
  BY Invariance, PortInvariance, <1>1, PTL

(* Without a persistent connection the port is held only while a call is on
   the wire, or when the loop has opened it. *)
THEOREM PortReleased == Safe => []IdlePortReleased
<1>1. PortInv => IdlePortReleased
  BY DEF PortInv
<1>2. QED
  BY PortInvariance, <1>1, PTL

(* An unload refused for any reason leaves a client that accepts calls, but
   for the close that failed on a port the operating system kept: without a
   persistent connection that takes a port opened by the loop. *)
THEOREM UndoCorrect == Safe => []RefusedUnloadResumes
<1>1. IInv /\ PortInv => RefusedUnloadResumes
  BY DEF IInv, GateInv, PortInv, Excused, RefusedUnloadResumes
<1>2. QED
  BY Invariance, PortInvariance, <1>1, PTL
=============================================================================
