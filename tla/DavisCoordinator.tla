--------------------------- MODULE DavisCoordinator ---------------------------
(***************************************************************************)
(* The coordinators of all config entries (coordinator.py) and the repair  *)
(* issue they share.  Each loaded entry has a coordinator of its own with  *)
(* its own failure streak; the issue registry holds one connection_lost    *)
(* issue for the whole domain.  A poll is one step: everything after its   *)
(* only await runs without another, and async_close drains the poll before *)
(* the unload deletes the issue.                                           *)
(***************************************************************************)
EXTENDS Naturals, Sequences

CONSTANTS
    Entries,     \* the config entries
    Threshold,   \* CONNECTION_ISSUE_THRESHOLD
    MaxStreak    \* bounds the failure streaks

ASSUME CoordinatorAssumption ==
    /\ Threshold \in Nat \ {0, 1}
    /\ MaxStreak \in Nat /\ MaxStreak > Threshold

VARIABLES
    entry,     \* is the entry loaded?
    streak,    \* _consecutive_failures of its coordinator
    issue,     \* is connection_lost in the issue registry?
    station,   \* can the entry's station be reached? (environment)
    recent     \* history: which of its last Threshold polls brought data

vars == <<entry, streak, issue, station, recent>>

(* How async_get_current_data ends: with data, with LastError set, not
   within 15 s, or with an exception of its own. *)
Results == {"data", "lastError", "timeout", "raised"}

TypeOK ==
    /\ entry \in [Entries -> {"loaded", "unloaded"}]
    /\ streak \in [Entries -> 0..MaxStreak]
    /\ issue \in BOOLEAN
    /\ station \in [Entries -> {"up", "down"}]
    /\ recent \in [Entries -> Seq(BOOLEAN)]

Init ==
    /\ entry = [e \in Entries |-> "unloaded"]
    /\ streak = [e \in Entries |-> 0]
    /\ issue = FALSE
    /\ station = [e \in Entries |-> "up"]
    /\ recent = [e \in Entries |-> <<>>]

(* async_setup_entry: a new coordinator whose first refresh succeeded.  A
   setup that fails discards its coordinator and changes nothing. *)
Setup(e) ==
    /\ entry[e] = "unloaded" /\ station[e] = "up"
    /\ entry' = [entry EXCEPT ![e] = "loaded"]
    /\ streak' = [streak EXCEPT ![e] = 0]
    /\ recent' = [recent EXCEPT ![e] = <<>>]
    /\ UNCHANGED <<issue, station>>

(* Mutants of OnUpdateSuccess: one success forgives one failure; the issue
   is kept at exactly the threshold. *)
OnUpdateSuccessDecrements(e) ==
    /\ issue' = (issue /\ streak[e] < Threshold)
    /\ streak' = [streak EXCEPT ![e] = @ - 1]

OnUpdateSuccessAbove(e) ==
    /\ issue' = (issue /\ streak[e] <= Threshold)
    /\ streak' = [streak EXCEPT ![e] = 0]

OnUpdateSuccess(e) ==
    /\ issue' = (issue /\ streak[e] < Threshold)
    /\ streak' = [streak EXCEPT ![e] = 0]

(* Mutant of OnUpdateFailure: the streak is compared before it grows. *)
OnUpdateFailureLate(e) ==
    /\ streak' = [streak EXCEPT ![e] = @ + 1]
    /\ issue' = (issue \/ streak[e] = Threshold)

OnUpdateFailure(e) ==
    /\ streak' = [streak EXCEPT ![e] = @ + 1]
    /\ issue' = (issue \/ streak[e] + 1 = Threshold)

(* History only: the window of the last Threshold polls. *)
Slide(window, good) ==
    Append(IF Len(window) < Threshold THEN window ELSE Tail(window), good)

(* _async_update_data: only a result without LastError is a success. *)
Poll(e, result) ==
    /\ entry[e] = "loaded"
    /\ station[e] = "down" => result # "data"
    /\ streak[e] < MaxStreak \/ result = "data"
    /\ IF result = "data" THEN OnUpdateSuccess(e) ELSE OnUpdateFailure(e)
    /\ recent' = [recent EXCEPT ![e] = Slide(@, result = "data")]
    /\ UNCHANGED <<entry, station>>

(* A successful async_unload_entry deletes the issue. *)
Unload(e) ==
    /\ entry[e] = "loaded"
    /\ entry' = [entry EXCEPT ![e] = "unloaded"]
    /\ issue' = FALSE
    /\ UNCHANGED <<streak, station, recent>>

(* Home Assistant restarts: is_persistent=False drops the issue. *)
Restart ==
    /\ entry' = [e \in Entries |-> "unloaded"]
    /\ issue' = FALSE
    /\ UNCHANGED <<streak, station, recent>>

StationChanges(e) ==
    /\ station' = [station EXCEPT ![e] = IF @ = "up" THEN "down" ELSE "up"]
    /\ UNCHANGED <<entry, streak, issue, recent>>

Next ==
    \/ \E e \in Entries :
           \/ Setup(e) \/ Unload(e) \/ StationChanges(e)
           \/ \E r \in Results : Poll(e, r)
    \/ Restart

(* A loaded entry is polled on its interval. *)
Fairness == \A e \in Entries : WF_vars(\E r \in Results : Poll(e, r))

Safe == Init /\ [][Next]_vars
Spec == Safe /\ Fairness

-----------------------------------------------------------------------------
(* The last Threshold polls of a loaded entry brought no data. *)
InOutage(e) ==
    /\ entry[e] = "loaded" /\ Len(recent[e]) = Threshold
    /\ \A i \in 1..Threshold : ~recent[e][i]

(* The issue is never left behind: while it is there, some loaded entry is
   in an outage. *)
NoStaleIssue == issue => \E e \in Entries : InOutage(e)

(* "Three consecutive failed polls raise the connection_lost repair issue",
   however they failed; until a poll succeeds, the issue stays. *)
OutageReported == \A e \in Entries : InOutage(e) => issue

(* A lasting outage of a loaded entry is reported in the end. *)
OutageEventuallyReported ==
    \A e \in Entries :
        <>[](entry[e] = "loaded" /\ station[e] = "down") => <>[]issue
=============================================================================
