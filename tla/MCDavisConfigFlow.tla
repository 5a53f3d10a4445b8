--------------------------- MODULE MCDavisConfigFlow ---------------------------
(***************************************************************************)
(* The instance of DavisConfigFlow TLC checks: flows, entries and ports    *)
(* are interchangeable, devices are not.                                   *)
(***************************************************************************)
EXTENDS DavisConfigFlow, TLC

Symmetry == Permutations(Flows) \cup Permutations(Ids) \cup Permutations(Ports)

(* What was submitted matters to nothing once it is verified. *)
View == <<at, entries, step, target, found,
          [f \in Flows |-> IF step[f] = "verifying" THEN link[f] ELSE Nothing]>>
=============================================================================
