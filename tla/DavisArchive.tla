----------------------------- MODULE DavisArchive -----------------------------
(***************************************************************************)
(* The DMPAFT archive download of protocol.py: the client's page loop, the *)
(* console that sends pages (external), and the serial line between them.  *)
(*                                                                         *)
(* The line keeps the order of what it carries but may damage a page (a    *)
(* bad CRC, a page torn by a timeout) and lose a control byte; a page may  *)
(* also be late, when the client's read has timed out and asked for it     *)
(* again.  A page carries its number modulo IndexSize.  The model starts   *)
(* when the console has acknowledged the date.  A record is its time.      *)
(***************************************************************************)
EXTENDS Naturals, Sequences

CONSTANTS
    Memories,    \* what the console may have to send: pages of record times
    Slots,       \* records in a page (5)
    Empty,       \* the time of a slot that was never written
    Start, Stop, \* the window: records after Start, up to Stop
    IndexSize,   \* page numbers are sent modulo IndexSize (256)
    Attempts     \* reads of one page before giving up (3)

ASSUME ArchiveAssumption ==
    /\ Slots \in Nat \ {0} /\ Attempts \in Nat \ {0}
    /\ IndexSize \in Nat /\ IndexSize >= 2
    /\ Start \in Nat /\ Stop \in Nat
    /\ Empty \notin Nat
    /\ Memories \subseteq Seq([1..Slots -> Nat \cup {Empty}])

VARIABLES
    memory,      \* the pages the console has for this download
    first,       \* first_record of the header; Slots is out of range
    console,     \* its "header" or a "page" was sent last, or the dump is "off"
    sent,        \* the number of the page it sent last
    toClient,    \* pages on their way to the client
    toConsole,   \* control bytes on their way to the console
    client,      \* where get_archives is: see ClientSteps
    page,        \* page_number
    attempt,     \* attempt, in _read_archive_page
    records      \* the times of the records in the result

download == <<memory, first>>
dump     == <<console, sent>>
vars == <<download, dump, toClient, toConsole, client, page, attempt, records>>

Ended       == {"done", "rejected", "linkFailed"}
ClientSteps == {"header", "page"} \cup Ended
Control     == {"ACK", "NACK", "ESC", "CANCEL"}
Frame       == [page : Nat, intact : BOOLEAN]

Pages == Len(memory)

(* A slot that ends the download: never written, or after the window. *)
Stops(content, s) == content[s] = Empty \/ content[s] > Stop

InWindow(content, s) == ~Stops(content, s) /\ content[s] > Start

(* What the console sends is ordered: nothing of the window is before the
   first record or after a slot that ends the download. *)
Ordered(m, f) ==
    /\ m # <<>> => \A s \in 1..Slots : s <= f => ~InWindow(m[1], s)
    /\ \A p, q \in 1..Len(m), r, s \in 1..Slots :
           /\ p < q \/ (p = q /\ r < s)
           /\ Stops(m[p], r) /\ ~(p = 1 /\ r <= f)
           => ~InWindow(m[q], s)

Init ==
    /\ memory \in Memories /\ first \in 0..Slots
    /\ Ordered(memory, first)
    /\ console = "header" /\ sent = 0
    /\ toClient = <<>> /\ toConsole = <<>>
    /\ client = "header" /\ page = 0 /\ attempt = 0
    /\ records = {}

-----------------------------------------------------------------------------
(* The console and the line: external. *)

Reply(p) ==
    /\ console' = "page" /\ sent' = p
    /\ toClient' = Append(toClient, [page |-> p, intact |-> TRUE])

EndDump == console' = "off" /\ UNCHANGED <<sent, toClient>>

(* ACK asks for the next page, NACK for the last one again; anything else, or
   an ACK of the final page, ends the dump. *)
Answer(byte) ==
    CASE console = "header" /\ byte = "ACK"                     -> Reply(0)
      [] console = "page" /\ byte = "ACK" /\ sent + 1 < Pages   -> Reply(sent + 1)
      [] console = "page" /\ byte = "NACK"                      -> Reply(sent)
      [] OTHER                                                  -> EndDump

ConsoleHears ==
    /\ toConsole # <<>>
    /\ Answer(Head(toConsole))
    /\ toConsole' = Tail(toConsole)
    /\ UNCHANGED <<download, client, page, attempt, records>>

DamagePage ==
    /\ \E i \in 1..Len(toClient) :
           toClient' = [toClient EXCEPT ![i].intact = FALSE]
    /\ UNCHANGED <<download, dump, toConsole, client, page, attempt, records>>

LoseControl ==
    /\ toConsole # <<>>
    /\ toConsole' = Tail(toConsole)
    /\ UNCHANGED <<download, dump, toClient, client, page, attempt, records>>

-----------------------------------------------------------------------------
(* The client *)

Write(byte) == toConsole' = Append(toConsole, byte)

(* The header is short or damaged, or its first_record is out of range. *)
HeaderInvalid ==
    /\ client = "header"
    /\ Write("CANCEL")
    /\ client' = "rejected"
    /\ UNCHANGED <<download, dump, toClient, page, attempt, records>>

HeaderValid ==
    /\ client = "header" /\ first < Slots
    /\ IF Pages = 0
       THEN Write("ESC") /\ client' = "done"
       ELSE Write("ACK") /\ client' = "page"
    /\ UNCHANGED <<download, dump, toClient, page, attempt, records>>

(* Mutant of Valid: the page number is not looked at. *)
ValidAnyNumber(frame) == frame.intact

(* The test of _read_archive_page. *)
Valid(frame) == frame.intact /\ frame.page % IndexSize = page % IndexSize

(* Mutant of FirstSlot: first_record is skipped on every page. *)
FirstSlotAlways(p) == first + 1

(* first_record applies to the first page only. *)
FirstSlot(p) == IF p = 0 THEN first + 1 ELSE 1

(* The slots of page p the loop gets to before one ends the download. *)
Reached(content, p) ==
    {s \in FirstSlot(p)..Slots : \A r \in FirstSlot(p)..s : ~Stops(content, r)}

Kept(content, p) ==
    {content[s] : s \in {r \in Reached(content, p) : content[r] > Start}}

StopDownload(content, p) == \E s \in FirstSlot(p)..Slots : Stops(content, s)

(* Mutant of Acknowledge: every page is acknowledged. *)
AcknowledgeAlways(stop) == IF stop THEN Write("ESC") ELSE Write("ACK")

(* ESC ends the download early; the final page is not acknowledged. *)
Acknowledge(stop) ==
    IF stop THEN Write("ESC")
    ELSE IF page + 1 < Pages THEN Write("ACK")
    ELSE UNCHANGED toConsole

(* A valid page: its records, and on to the next one. *)
AcceptPage ==
    /\ client = "page" /\ toClient # <<>> /\ Valid(Head(toClient))
    /\ toClient' = Tail(toClient)
    /\ LET content == memory[Head(toClient).page + 1]
           stop    == StopDownload(content, page)
       IN /\ records' = records \cup Kept(content, page)
          /\ Acknowledge(stop)
          /\ IF stop \/ page + 1 = Pages
             THEN client' = "done" /\ UNCHANGED page
             ELSE page' = page + 1 /\ UNCHANGED client
    /\ attempt' = 0
    /\ UNCHANGED <<download, dump>>

(* Mutant of Retry: no exception after the last attempt. *)
RetryNeverRaises ==
    IF attempt + 1 < Attempts
    THEN Write("NACK") /\ attempt' = attempt + 1 /\ UNCHANGED client
    ELSE UNCHANGED <<toConsole, client, attempt>>

(* NACK, or after the last attempt ESC and an exception. *)
Retry ==
    /\ attempt' = attempt + 1
    /\ IF attempt + 1 < Attempts
       THEN Write("NACK") /\ UNCHANGED client
       ELSE Write("ESC") /\ client' = "rejected"

(* No page before the read times out, or an invalid one. *)
RejectPage ==
    /\ client = "page"
    /\ \/ toClient = <<>> /\ UNCHANGED toClient
       \/ toClient # <<>> /\ ~Valid(Head(toClient)) /\ toClient' = Tail(toClient)
    /\ Retry
    /\ UNCHANGED <<download, dump, page, records>>

(* A read or write raises: nothing more is written. *)
LinkFails ==
    /\ client \notin Ended
    /\ client' = "linkFailed"
    /\ UNCHANGED <<download, dump, toClient, toConsole, page, attempt, records>>

ClientStep == HeaderInvalid \/ HeaderValid \/ AcceptPage \/ RejectPage

Next == ConsoleHears \/ DamagePage \/ LoseControl \/ ClientStep \/ LinkFails

Safe == Init /\ [][Next]_vars

(* Every read of the client returns, at its timeout at the latest. *)
Spec == Safe /\ WF_vars(ClientStep)

-----------------------------------------------------------------------------
(* Every variable has its type. *)
TypeOK ==
    /\ memory \in Seq([1..Slots -> Nat \cup {Empty}]) /\ first \in 0..Slots
    /\ console \in {"header", "page", "off"} /\ sent \in Nat
    /\ toClient \in Seq(Frame)
    /\ toConsole \in Seq(Control)
    /\ client \in ClientSteps
    /\ page \in Nat /\ attempt \in 0..Attempts
    /\ records \subseteq Nat

(* Although a page carries its number modulo IndexSize only, and pages that
   were asked for twice may still be on the line, the page the client accepts
   is the one it is waiting for. *)
OnlyExpectedPage ==
    client = "page" /\ toClient # <<>> /\ Valid(Head(toClient)) =>
        Head(toClient).page = page

(* The times the console has within the window. *)
Window ==
    {t \in Start + 1..Stop : \E p \in 1..Pages, s \in 1..Slots : memory[p][s] = t}

(* A download that ends normally returns all records of the window and no
   others, however often pages were damaged, late or sent twice. *)
WindowComplete == client = "done" => records = Window

(* "Download DMPAFT pages without acknowledging beyond the final page": an
   ACK never reaches a console that has sent its final page. *)
FinalPageNotAcked ==
    \A i \in 1..Len(toConsole) :
        toConsole[i] = "ACK" => console # "page" \/ sent + 1 < Pages

(* What page p has within the window. *)
InPage(p) == {t \in Start + 1..Stop : \E s \in 1..Slots : memory[p][s] = t}

(* The download as its caller sees it: a page is taken when it is accepted. *)
Transfer == INSTANCE PageTransfer WITH
    pages  <- [p \in 1..Pages |-> InPage(p)],
    taken  <- IF client = "done" /\ Pages > 0 THEN page + 1 ELSE page,
    result <- records,
    status <- CASE client \in {"header", "page"} -> "running"
                [] client = "done"               -> "done"
                [] OTHER                         -> "failed"

(* Step by step, not only in the end: whatever is damaged, late, lost or sent
   twice, the client takes what each page has within the window once, in the
   order of the pages, and stops early only when the rest has nothing. *)
TransfersPages == Transfer!TransferSpec

(* The download ends, whatever the line and the console do. *)
DownloadEnds == <>(client \in Ended)
=============================================================================
