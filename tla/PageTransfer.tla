----------------------------- MODULE PageTransfer -----------------------------
(***************************************************************************)
(* What an archive download promises to the one who asked for it, with no  *)
(* serial line, page numbers or control bytes: the pages are taken in      *)
(* their order, each exactly once and whole; it is over with the last      *)
(* page, or before it when no later page has anything to give; and it may  *)
(* fail at any time before, but never after.                               *)
(***************************************************************************)
EXTENDS Naturals, Sequences

VARIABLES
    pages,    \* what each page has to give: a sequence of sets
    taken,    \* how many of them were taken
    result,   \* what they gave
    status    \* "running", "done" or "failed"

transferVars == <<pages, taken, result, status>>

TransferInit == taken = 0 /\ result = {} /\ status = "running"

NothingLeft(n) == \A p \in n + 1..Len(pages) : pages[p] = {}

TakePage ==
    /\ status = "running" /\ taken < Len(pages)
    /\ taken' = taken + 1
    /\ result' = result \cup pages[taken + 1]
    /\ \/ status' = "running" /\ taken + 1 < Len(pages)
       \/ status' = "done" /\ NothingLeft(taken + 1)
    /\ UNCHANGED pages

NothingToTake ==
    /\ status = "running" /\ pages = <<>>
    /\ status' = "done"
    /\ UNCHANGED <<pages, taken, result>>

Fail ==
    /\ status = "running" /\ status' = "failed"
    /\ UNCHANGED <<pages, taken, result>>

TransferNext == TakePage \/ NothingToTake \/ Fail

TransferSpec == TransferInit /\ [][TransferNext]_transferVars
=============================================================================
