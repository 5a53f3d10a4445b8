---------------------------- MODULE MCDavisArchive ----------------------------
(***************************************************************************)
(* The instance of DavisArchive TLC checks: up to MaxPages pages of times  *)
(* before, in and after the window, as a console writes them: ascending,   *)
(* and behind the newest record on the last page either slots that were    *)
(* never written or what is left of the oldest page.                       *)
(***************************************************************************)
EXTENDS DavisArchive, FiniteSets

CONSTANTS MaxPages, Times

Nth(S, i) == CHOOSE t \in S : Cardinality({u \in S : u < t}) = i - 1

Fill(n, S, old) ==
    [p \in 1..n |-> [s \in 1..Slots |->
        LET i == (p - 1) * Slots + s
        IN IF i <= Cardinality(S) THEN Nth(S, i) ELSE old]]

(* n pages hold the newest records S, and fewer than a page of old ones. *)
MCMemories ==
    {Fill(n, S, old) : <<n, S, old>> \in
        {c \in (0..MaxPages) \X (SUBSET Times) \X {Empty, 0} :
            Cardinality(c[2]) \in (c[1] - 1) * Slots + 1..c[1] * Slots}}
=============================================================================
