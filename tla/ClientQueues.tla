------------------------------ MODULE ClientQueues ------------------------------
(***************************************************************************)
(* Clients as the life of an entry sees them: each is a number of jobs and *)
(* a gate.  Jobs are submitted through the open gate and end one by one;   *)
(* the gate is shut, opened again, or closed for ever when no job is left. *)
(* DavisEntry uses its clients like this, and DavisTransport is one.       *)
(***************************************************************************)
EXTENDS Naturals

CONSTANT Clients

VARIABLES jobs, gate

queueVars == <<jobs, gate>>

QueueInit ==
    /\ jobs = [g \in Clients |-> 0]
    /\ gate = [g \in Clients |-> "open"]

Submit(g) ==
    /\ gate[g] = "open"
    /\ jobs' = [jobs EXCEPT ![g] = @ + 1]
    /\ UNCHANGED gate

End(g) ==
    /\ jobs[g] > 0
    /\ jobs' = [jobs EXCEPT ![g] = @ - 1]
    /\ UNCHANGED gate

Turn(g, from, to) ==
    /\ gate[g] = from
    /\ gate' = [gate EXCEPT ![g] = to]
    /\ UNCHANGED jobs

Shut(g)   == Turn(g, "open", "shut")
Reopen(g) == Turn(g, "shut", "open")
Close(g)  == jobs[g] = 0 /\ Turn(g, "shut", "closed")

QueueNext ==
    \E g \in Clients : Submit(g) \/ End(g) \/ Shut(g) \/ Reopen(g) \/ Close(g)

QueueSpec == QueueInit /\ [][QueueNext]_queueVars
=============================================================================
