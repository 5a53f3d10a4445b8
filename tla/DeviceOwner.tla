------------------------------ MODULE DeviceOwner ------------------------------
(***************************************************************************)
(* What the transport of a config entry promises to the coroutines that    *)
(* use it, with no threads, queues or links: the console is held by one    *)
(* accepted request at a time; a request once accepted is carried out,     *)
(* whatever becomes of the coroutine that made it; the gate can be shut    *)
(* and opened again; and it is sealed, for ever, only when nothing that    *)
(* was accepted is still to be done.                                       *)
(***************************************************************************)
CONSTANT Requests

VARIABLES accepted, holder, finished, gate

ownerVars == <<accepted, holder, finished, gate>>

Gates == {"open", "shut", "sealed"}

(* holder is the set of requests at the console: never more than one. *)
OwnerTypeOK ==
    /\ accepted \subseteq Requests
    /\ holder \subseteq Requests
    /\ finished \subseteq Requests
    /\ gate \in Gates

OwnerInit == accepted = {} /\ holder = {} /\ finished = {} /\ gate = "open"

Accept(r) ==
    /\ gate = "open"
    /\ r \notin accepted \cup holder \cup finished
    /\ accepted' = accepted \cup {r}
    /\ UNCHANGED <<holder, finished, gate>>

Grant(r) ==
    /\ r \in accepted /\ holder = {}
    /\ accepted' = accepted \ {r}
    /\ holder' = {r}
    /\ UNCHANGED <<finished, gate>>

Finish(r) ==
    /\ r \in holder
    /\ holder' = holder \ {r}
    /\ finished' = finished \cup {r}
    /\ UNCHANGED <<accepted, gate>>

Shut   == gate = "open" /\ gate' = "shut" /\ UNCHANGED <<accepted, holder, finished>>
Reopen == gate = "shut" /\ gate' = "open" /\ UNCHANGED <<accepted, holder, finished>>

Seal ==
    /\ gate = "shut" /\ accepted = {} /\ holder = {}
    /\ gate' = "sealed"
    /\ UNCHANGED <<accepted, holder, finished>>

OwnerNext ==
    \/ \E r \in Requests : Accept(r) \/ Grant(r) \/ Finish(r)
    \/ Shut \/ Reopen \/ Seal

OwnerSpec == OwnerInit /\ [][OwnerNext]_ownerVars
=============================================================================
