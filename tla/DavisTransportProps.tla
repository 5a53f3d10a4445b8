-------------------------- MODULE DavisTransportProps --------------------------
(***************************************************************************)
(* What DavisTransport has to guarantee.                                   *)
(***************************************************************************)
EXTENDS DavisTransport

(* Every variable has its type. *)
TypeOK ==
    /\ phase \in [Jobs -> Phases]
    /\ queue \in Seq(Jobs)
    /\ pending \subseteq Calls
    /\ waiter \in [Calls -> WaiterStates]
    /\ persistent \in BOOLEAN
    /\ client \in {"none", "closed", "open"}
    /\ suspect \in BOOLEAN /\ loopOpened \in BOOLEAN
    /\ orphans \in Nat
    /\ needsReconnect \in BOOLEAN
    /\ connState \in ConnStates
    /\ everSucceeded \in BOOLEAN
    /\ stopping \in BOOLEAN
    /\ executorShutdown \in BOOLEAN
    /\ lastClose \in CloseResults
    /\ unload \in UnloadSteps
    /\ drain \subseteq Calls
    /\ closeJob \in Closes \cup {NoJob}

(* async_close drains _pending_io and nothing else, so that set must hold
   every call that is still queued or at the device - also the ones whose
   waiter was cancelled - for "drain physical ownership" to be true when it
   queues the close job. *)
DrainIsComplete ==
    /\ Outstanding \subseteq pending
    /\ unload = "draining" => Outstanding \subseteq drain
    /\ unload = "closing" => Outstanding = {}

(* A close that confirmed means it: no job is queued or running, the client
   is gone, and no late job of the worker overwrites the closed state. *)
ClosedIsQuiescent ==
    lastClose = "closed" =>
        /\ queue = <<>> /\ WorkerFree
        /\ client = "none"
        /\ connState = "closed"
        /\ stopping /\ executorShutdown
        /\ unload = "unloaded"

OnTheWire == \E c \in Calls : phase[c] = "wire"

(* The link of a call that raised, with a half-read answer in its buffer, is
   never the link of another.  A suspect link is used again only where nobody
   raised, after a read that get_current_data or the loop did without: when
   the connection is persistent or the loop has opened the port. *)
SuspectLinkDropped ==
    /\ needsReconnect => client = "none"
    /\ OnTheWire => ~needsReconnect /\ client = "open"
    /\ suspect => client = "open" /\ (persistent \/ loopOpened \/ OnTheWire)

(* A client without a persistent connection holds the serial port only while
   a call is at the device (_should_close_after_transaction), except for a
   port that the loop has opened for its own read of the archive period. *)
IdlePortReleased ==
    ~persistent /\ ~OnTheWire /\ client = "open" => loopOpened

(* An unload refused because the platforms, the clock or the close said no
   leaves a client that accepts calls again, except where the operating
   system failed to close a port: one that is persistent or the loop's. *)
RefusedUnloadResumes ==
    unload = "loaded" =>
        \/ ~stopping /\ ~executorShutdown
        \/ lastClose = "close_failed" /\ client = "open" /\ (persistent \/ loopOpened)

(* From async_begin_shutdown until the shutdown is undone the set of calls
   that own or will own the device only shrinks. *)
ShutdownOnlyDrains ==
    [][unload \notin {"loaded", "undo"} => Outstanding' \subseteq Outstanding]_vars

(* While the worker does not hang, every call that was accepted is carried
   out, also when its waiter was cancelled or the entry is shutting down. *)
AcceptedCallsEnd ==
    WorkerFairness =>
        \A c \in Calls : phase[c] = "queued" ~> phase[c] \in Settled

(* While the worker does not hang, nobody who waits for a call waits for
   ever. *)
WaitersResume ==
    WorkerFairness =>
        \A c \in Calls :
            waiter[c] = "waiting" ~> waiter[c] \in {"answered", "cancelled"}

(* async_unload_entry returns, even when the worker hangs for ever. *)
UnloadReturns == unload = "begun" ~> unload \in {"loaded", "unloaded"}

(* The transport keeps the promise of DeviceOwner. *)
Owner == INSTANCE DeviceOwner WITH
    Requests <- Calls,
    accepted <- {c \in Calls : phase[c] = "queued"},
    holder   <- {c \in Calls : phase[c] \in {"connecting", "wire"}},
    finished <- {c \in Calls : phase[c] \in Settled},
    gate     <- IF executorShutdown THEN "sealed"
                ELSE IF stopping THEN "shut" ELSE "open"

OwnsDevice == Owner!OwnerSpec

(* The transport as the life of the entry knows it: a number of jobs and a
   gate.  Close jobs do not count, and a client whose close raised is as
   closed as one whose close was confirmed. *)
Queue == INSTANCE ClientQueues WITH
    Clients <- {"client"},
    jobs    <- [q \in {"client"} |-> Cardinality(Outstanding)],
    gate    <- [q \in {"client"} |-> IF executorShutdown THEN "closed"
                                    ELSE IF stopping THEN "shut" ELSE "open"]

(* It is a client as DavisEntry uses them. *)
IsClientQueue == Queue!QueueSpec
=============================================================================
