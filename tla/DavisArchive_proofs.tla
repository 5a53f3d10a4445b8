-------------------------- MODULE DavisArchive_proofs --------------------------
(***************************************************************************)
(* Proofs about the archive download, for any number of pages and slots,   *)
(* any index size from two up, and any number of attempts.                 *)
(***************************************************************************)
EXTENDS DavisArchive, Integers, SequenceTheorems, TLAPS

(* What every page contributed that came before page_number n. *)
RecordsBefore(n) == UNION {Kept(memory[p], p - 1) : p \in 1..n}

NoStopBefore(n) == \A p \in 1..n : ~StopDownload(memory[p], p - 1)

(* How far client and console may be apart. *)
InStep ==
    /\ page = 0 \/ page < Pages
    /\ client = "page" => page < Pages /\ first < Slots
    /\ client = "header" => console = "header" /\ toConsole = <<>>
    /\ client \in {"header", "page"} => attempt < Attempts
    /\ console = "header" => toClient = <<>> /\ sent = 0 /\ page = 0
    /\ sent <= page
    /\ console = "page" => page <= sent + 1

(* The pages on the line are the one the client waits for or the one before
   it, in this order. *)
LineInStep ==
    /\ \A i \in 1..Len(toClient) :
           toClient[i].page <= sent /\ page <= toClient[i].page + 1
    /\ \A i, j \in 1..Len(toClient) :
           i < j => toClient[i].page <= toClient[j].page

(* At most one ACK is on its way, and the page it asks for was not sent. *)
AckInStep ==
    console # "off" =>
        /\ \A i \in 1..Len(toConsole) :
               toConsole[i] = "ACK" => console = "header" \/ sent + 1 = page
        /\ \A i, j \in 1..Len(toConsole) :
               toConsole[i] = "ACK" /\ toConsole[j] = "ACK" => i = j

RecordsSoFar ==
    /\ Ordered(memory, first)
    /\ client \in {"header", "page"} =>
           records = RecordsBefore(page) /\ NoStopBefore(page)

IInv == TypeOK /\ InStep /\ LineInStep /\ AckInStep

-----------------------------------------------------------------------------
(* Consecutive numbers differ modulo any size from two up. *)
LEMMA NeighboursDiffer ==
    ASSUME NEW M \in Nat, M >= 2, NEW n \in Nat
    PROVE  (n + 1) % M # n % M
<1>1. ASSUME NEW a \in Nat
      PROVE  a = M * (a \div M) + (a % M) /\ a \div M \in Int /\ a % M \in Int
  OBVIOUS
<1>2. ASSUME NEW d \in Int, M * d = 1 PROVE FALSE
  BY <1>2
<1> SUFFICES ASSUME (n + 1) % M = n % M PROVE FALSE
  OBVIOUS
<1> DEFINE q == (n + 1) \div M
           r == n \div M
<1>3. n + 1 = M * q + (n % M) /\ n = M * r + (n % M)
  BY <1>1
<1>4. q \in Int /\ r \in Int /\ n % M \in Int
  BY <1>1
<1>5. M * q - M * r = 1
  <2> HIDE DEF q, r
  <2>1. M * q \in Int /\ M * r \in Int
    BY <1>4
  <2> QED BY <1>3, <1>4, <2>1
<1>6. M * (q - r) = 1
  <2> HIDE DEF q, r
  <2> QED BY <1>4, <1>5
<1> QED BY <1>2, <1>4, <1>6

(* Taking the head of a sequence. *)
LEMMA TailOf ==
    ASSUME NEW S, NEW seq \in Seq(S), seq # <<>>
    PROVE  /\ Tail(seq) \in Seq(S)
           /\ Len(Tail(seq)) = Len(seq) - 1 /\ Len(seq) \in Nat \ {0}
           /\ \A i \in 1..Len(seq) - 1 : Tail(seq)[i] = seq[i + 1]
           /\ Head(seq) = seq[1] /\ Head(seq) \in S
  OBVIOUS

(* Appending to a sequence. *)
LEMMA AppendOf ==
    ASSUME NEW S, NEW seq \in Seq(S), NEW x \in S
    PROVE  /\ Append(seq, x) \in Seq(S)
           /\ Len(Append(seq, x)) = Len(seq) + 1 /\ Len(seq) \in Nat
           /\ \A i \in 1..Len(seq) : Append(seq, x)[i] = seq[i]
           /\ Append(seq, x)[Len(seq) + 1] = x
  OBVIOUS

LEMMA FrameOf ==
    ASSUME NEW p \in Nat, NEW b \in BOOLEAN
    PROVE  [page |-> p, intact |-> b] \in Frame
  BY DEF Frame

LEMMA FramesOf ==
    ASSUME NEW seq \in Seq(Frame), NEW i \in 1..Len(seq)
    PROVE  seq[i].page \in Nat /\ seq[i].intact \in BOOLEAN
<1>1. seq[i] \in Frame
  OBVIOUS
<1> QED BY <1>1 DEF Frame

(* The times of a page the loop keeps are natural numbers. *)
LEMMA KeptType ==
    ASSUME NEW content \in [1..Slots -> Nat \cup {Empty}], NEW p \in Nat, first \in Nat
    PROVE  Kept(content, p) \subseteq Nat
<1> SUFFICES ASSUME NEW s \in Reached(content, p) PROVE content[s] \in Nat
  BY DEF Kept
<1>1. s \in FirstSlot(p)..Slots /\ FirstSlot(p) \in Nat /\ FirstSlot(p) >= 1
  BY DEF Reached, FirstSlot
<1>2. s \in 1..Slots /\ s \in FirstSlot(p)..s
  BY <1>1, ArchiveAssumption
<1>3. ~Stops(content, s)
  BY <1>2 DEF Reached
<1> QED BY <1>2, <1>3 DEF Stops

(* The page the client accepts is the one it waits for. *)
LEMMA AcceptsExpected ==
    ASSUME TypeOK, InStep, LineInStep, toClient # <<>>, Valid(Head(toClient))
    PROVE  Head(toClient).page = page
<1> DEFINE f == Head(toClient)
<1>1. f \in Frame /\ f = toClient[1] /\ 1 \in 1..Len(toClient)
  <2>1. toClient \in Seq(Frame)
    BY DEF TypeOK
  <2> QED BY <2>1, TailOf
<1>2. f.page \in Nat /\ page \in Nat /\ sent \in Nat
  BY <1>1 DEF TypeOK, Frame
<1>3. f.page <= page /\ page <= f.page + 1
  BY <1>1, <1>2 DEF LineInStep, InStep
<1>4. f.page % IndexSize = page % IndexSize
  BY DEF Valid
<1>5. (f.page + 1) % IndexSize # f.page % IndexSize
  BY <1>2, NeighboursDiffer, ArchiveAssumption
<1> QED
  <2> HIDE DEF f
  <2>1. page = f.page \/ page = f.page + 1
    BY <1>2, <1>3
  <2> QED BY <2>1, <1>4, <1>5 DEF f

-----------------------------------------------------------------------------
LEMMA InitStep == Init => IInv /\ RecordsSoFar
<1> SUFFICES ASSUME Init PROVE IInv /\ RecordsSoFar
  OBVIOUS
<1>1. TypeOK
  <2>1. memory \in Seq([1..Slots -> Nat \cup {Empty}])
    BY ArchiveAssumption DEF Init
  <2>2. toClient \in Seq(Frame) /\ toConsole \in Seq(Control)
    BY DEF Init
  <2> QED BY <2>1, <2>2, ArchiveAssumption DEF Init, TypeOK, ClientSteps
<1>2. InStep /\ LineInStep /\ AckInStep
  BY ArchiveAssumption DEF Init, InStep, LineInStep, AckInStep
<1>3. RecordsSoFar
  BY DEF Init, RecordsSoFar, RecordsBefore, NoStopBefore
<1> QED BY <1>1, <1>2, <1>3 DEF IInv

(* The console takes a byte from its line. *)
LEMMA HearAck ==
    ASSUME AckInStep, console # "off", toConsole \in Seq(Control), toConsole # <<>>,
           Head(toConsole) = "ACK"
    PROVE  \A i \in 1..Len(Tail(toConsole)) : Tail(toConsole)[i] # "ACK"
<1> SUFFICES ASSUME NEW i \in 1..Len(Tail(toConsole)), Tail(toConsole)[i] = "ACK"
             PROVE  FALSE
  OBVIOUS
<1>1. /\ Len(Tail(toConsole)) = Len(toConsole) - 1 /\ Len(toConsole) \in Nat \ {0}
      /\ Tail(toConsole)[i] = toConsole[i + 1] /\ toConsole[1] = "ACK"
  BY TailOf
<1>2. 1 \in 1..Len(toConsole) /\ i + 1 \in 1..Len(toConsole) /\ i \in Nat
  BY <1>1
<1>3. 1 = i + 1
  BY <1>1, <1>2 DEF AckInStep
<1> QED BY <1>2, <1>3

LEMMA ConsoleHearsStep ==
    ASSUME IInv, ConsoleHears
    PROVE  IInv'
<1> USE DEF IInv
<1>0. /\ toConsole \in Seq(Control) /\ toClient \in Seq(Frame)
      /\ sent \in Nat /\ page \in Nat /\ console \in {"header", "page", "off"}
      /\ toConsole # <<>> /\ toConsole' = Tail(toConsole)
      /\ UNCHANGED <<memory, first, client, page, attempt, records>>
  BY DEF ConsoleHears, TypeOK, download
<1>1. /\ toConsole' \in Seq(Control) /\ Len(toConsole') = Len(toConsole) - 1
      /\ Len(toConsole) \in Nat \ {0} /\ Head(toConsole) = toConsole[1]
      /\ \A i \in 1..Len(toConsole) - 1 : toConsole'[i] = toConsole[i + 1]
  BY <1>0, TailOf
<1>2. ASSUME NEW p \in Nat, Reply(p), p <= page, page <= p + 1, sent <= p,
             client # "header",
             \A i \in 1..Len(toConsole') :
                 toConsole'[i] = "ACK" => p + 1 = page,
             \A i, j \in 1..Len(toConsole') :
                 toConsole'[i] = "ACK" /\ toConsole'[j] = "ACK" => i = j
      PROVE  IInv'
  <2>1. /\ console' = "page" /\ sent' = p
        /\ toClient' = Append(toClient, [page |-> p, intact |-> TRUE])
    BY <1>2 DEF Reply
  <2>2. /\ toClient' \in Seq(Frame) /\ Len(toClient') = Len(toClient) + 1
        /\ Len(toClient) \in Nat
        /\ \A i \in 1..Len(toClient) : toClient'[i] = toClient[i]
        /\ toClient'[Len(toClient) + 1].page = p
    <3>1. [page |-> p, intact |-> TRUE] \in Frame
      BY FrameOf
    <3> QED BY <3>1, <2>1, <1>0, AppendOf
  <2>3. TypeOK'
    BY <1>0, <1>1, <2>1, <2>2 DEF TypeOK
  <2>4. InStep'
    BY <1>0, <1>2, <2>1 DEF InStep, Pages
  <2>5. \A i \in 1..Len(toClient') :
            \/ i \in 1..Len(toClient) /\ toClient'[i] = toClient[i]
            \/ i = Len(toClient) + 1 /\ toClient'[i].page = p
    BY <2>2
  <2>6. \A i \in 1..Len(toClient) : toClient[i].page \in Nat
    BY <1>0, FramesOf
  <2>7. LineInStep'
    BY <1>0, <1>2, <2>1, <2>2, <2>5, <2>6, SMTT(30) DEF LineInStep
  <2>8. AckInStep'
    BY <1>0, <1>2, <2>1 DEF AckInStep
  <2> QED BY <2>3, <2>4, <2>7, <2>8
<1>3. ASSUME EndDump PROVE IInv'
  BY <1>0, <1>1, <1>3 DEF EndDump, TypeOK, InStep, Pages, LineInStep, AckInStep
<1>4. client # "header"
  BY <1>0 DEF InStep
<1>5. CASE console = "header" /\ Head(toConsole) = "ACK"
  <2>1. Reply(0)
    BY <1>5 DEF ConsoleHears, Answer
  <2>2. sent = 0 /\ page = 0
    BY <1>5 DEF InStep
  <2>3. \A i \in 1..Len(toConsole') : toConsole'[i] # "ACK"
    BY <1>0, <1>5, HearAck
  <2> QED BY <1>2, <1>4, <2>1, <2>2, <2>3
<1>6. CASE console = "page" /\ Head(toConsole) = "ACK" /\ sent + 1 < Pages
  <2>1. Reply(sent + 1)
    BY <1>6 DEF ConsoleHears, Answer
  <2>2. sent + 1 = page
    BY <1>1, <1>6 DEF AckInStep
  <2>3. \A i \in 1..Len(toConsole') : toConsole'[i] # "ACK"
    BY <1>0, <1>6, HearAck
  <2> QED BY <1>0, <1>2, <1>4, <2>1, <2>2, <2>3
<1>7. CASE console = "page" /\ Head(toConsole) = "NACK"
  <2>1. Reply(sent)
    BY <1>7 DEF ConsoleHears, Answer
  <2>2. sent <= page /\ page <= sent + 1
    BY <1>7 DEF InStep
  <2>3. \A i \in 1..Len(toConsole') :
            i + 1 \in 1..Len(toConsole) /\ toConsole'[i] = toConsole[i + 1]
    BY <1>1
  <2>4. \A i \in 1..Len(toConsole') : toConsole'[i] = "ACK" => sent + 1 = page
    BY <1>7, <2>3 DEF AckInStep
  <2>5. \A i, j \in 1..Len(toConsole') :
            toConsole'[i] = "ACK" /\ toConsole'[j] = "ACK" => i = j
    <3> SUFFICES ASSUME NEW i \in 1..Len(toConsole'), NEW j \in 1..Len(toConsole'),
                        toConsole'[i] = "ACK", toConsole'[j] = "ACK"
                 PROVE  i = j
      OBVIOUS
    <3>1. i + 1 = j + 1
      BY <1>7, <2>3 DEF AckInStep
    <3> QED BY <1>1, <3>1
  <2> QED BY <1>0, <1>2, <1>4, <2>1, <2>2, <2>4, <2>5
<1>8. CASE /\ ~(console = "header" /\ Head(toConsole) = "ACK")
           /\ ~(console = "page" /\ Head(toConsole) = "ACK" /\ sent + 1 < Pages)
           /\ ~(console = "page" /\ Head(toConsole) = "NACK")
  <2>1. EndDump
    BY <1>8 DEF ConsoleHears, Answer
  <2> QED BY <1>3, <2>1
<1> QED BY <1>5, <1>6, <1>7, <1>8

(* Damage on the line, and a lost byte. *)
LEMMA LineStep ==
    ASSUME IInv, DamagePage \/ LoseControl
    PROVE  IInv'
<1> USE DEF IInv
<1>1. CASE DamagePage
  <2>0. toClient \in Seq(Frame) /\ Len(toClient) \in Nat
    BY DEF TypeOK
  <2>1. PICK i \in 1..Len(toClient) :
            toClient' = [toClient EXCEPT ![i].intact = FALSE]
    BY <1>1 DEF DamagePage
  <2>2. \A k \in 1..Len(toClient) : toClient[k].page \in Nat
    BY <2>0, FramesOf
  <2>3. \A k \in 1..Len(toClient) : toClient'[k].page = toClient[k].page
    <3>1. toClient[i] \in Frame
      BY <2>0
    <3>2. [toClient[i] EXCEPT !.intact = FALSE].page = toClient[i].page
      BY <3>1 DEF Frame
    <3> QED BY <2>0, <2>1, <3>2
  <2>4. toClient' \in Seq(Frame) /\ Len(toClient') = Len(toClient)
    <3>1. toClient[i] \in Frame
      BY <2>0
    <3>2. [toClient[i] EXCEPT !.intact = FALSE] \in Frame
      BY <3>1 DEF Frame
    <3> QED BY <2>0, <2>1, <3>2
  <2>5. UNCHANGED <<memory, first, console, sent, toConsole, client, page,
                    attempt, records>>
    BY <1>1 DEF DamagePage, download, dump
  <2>6. TypeOK'
    BY <2>4, <2>5 DEF TypeOK
  <2>7. InStep'
    BY <2>0, <2>1, <2>5 DEF InStep, Pages
  <2>8. LineInStep'
    BY <2>2, <2>3, <2>4, <2>5 DEF LineInStep
  <2>9. AckInStep'
    BY <2>5 DEF AckInStep
  <2> QED BY <2>6, <2>7, <2>8, <2>9
<1>2. CASE LoseControl
  <2>1. /\ toConsole \in Seq(Control) /\ toConsole # <<>> /\ toConsole' = Tail(toConsole)
        /\ UNCHANGED <<memory, first, console, sent, toClient, client, page,
                       attempt, records>>
    BY <1>2 DEF LoseControl, download, dump, TypeOK
  <2>2. /\ toConsole' \in Seq(Control) /\ Len(toConsole') = Len(toConsole) - 1
        /\ Len(toConsole) \in Nat \ {0}
        /\ \A i \in 1..Len(toConsole) - 1 : toConsole'[i] = toConsole[i + 1]
    BY <2>1, TailOf
  <2>3. \A i \in 1..Len(toConsole') :
            i + 1 \in 1..Len(toConsole) /\ toConsole'[i] = toConsole[i + 1]
    BY <2>2
  <2>4. TypeOK' /\ LineInStep'
    BY <2>1, <2>2 DEF TypeOK, LineInStep
  <2>5. InStep'
    BY <2>1 DEF InStep, Pages
  <2>6. AckInStep'
    <3> SUFFICES ASSUME console # "off"
                 PROVE  /\ \A i \in 1..Len(toConsole') :
                              toConsole'[i] = "ACK" => console = "header" \/ sent + 1 = page
                        /\ \A i, j \in 1..Len(toConsole') :
                              toConsole'[i] = "ACK" /\ toConsole'[j] = "ACK" => i = j
      BY <2>1 DEF AckInStep
    <3>1. \A i \in 1..Len(toConsole') :
              toConsole'[i] = "ACK" => console = "header" \/ sent + 1 = page
      BY <2>3 DEF AckInStep
    <3>2. \A i, j \in 1..Len(toConsole') :
              toConsole'[i] = "ACK" /\ toConsole'[j] = "ACK" => i + 1 = j + 1
      BY <2>3 DEF AckInStep
    <3> QED BY <2>2, <3>1, <3>2
  <2> QED BY <2>4, <2>5, <2>6
<1> QED BY <1>1, <1>2

(* A control byte other than ACK leaves the ACKs as they were. *)
LEMMA WriteOther ==
    ASSUME AckInStep, toConsole \in Seq(Control), NEW byte \in Control \ {"ACK"},
           Write(byte), UNCHANGED <<console, sent, page>>
    PROVE  AckInStep' /\ toConsole' \in Seq(Control)
<1>1. /\ toConsole' \in Seq(Control) /\ Len(toConsole') = Len(toConsole) + 1
      /\ Len(toConsole) \in Nat
      /\ \A i \in 1..Len(toConsole) : toConsole'[i] = toConsole[i]
      /\ toConsole'[Len(toConsole) + 1] # "ACK"
  BY AppendOf DEF Write
<1>2. \A i \in 1..Len(toConsole') :
          toConsole'[i] = "ACK" => i \in 1..Len(toConsole) /\ toConsole[i] = "ACK"
  BY <1>1
<1> QED BY <1>1, <1>2 DEF AckInStep

(* The first ACK on an otherwise ACK-free line. *)
LEMMA WriteAck ==
    ASSUME toConsole \in Seq(Control), Write("ACK"),
           \A i \in 1..Len(toConsole) : toConsole[i] # "ACK"
    PROVE  /\ toConsole' \in Seq(Control)
           /\ \A i, j \in 1..Len(toConsole') :
                 toConsole'[i] = "ACK" /\ toConsole'[j] = "ACK" => i = j
<1>1. /\ toConsole' \in Seq(Control) /\ Len(toConsole') = Len(toConsole) + 1
      /\ Len(toConsole) \in Nat
      /\ \A i \in 1..Len(toConsole) : toConsole'[i] = toConsole[i]
  BY AppendOf DEF Write, Control
<1>2. \A i \in 1..Len(toConsole') : toConsole'[i] = "ACK" => i = Len(toConsole) + 1
  BY <1>1
<1> QED BY <1>1, <1>2

LEMMA HeaderStep ==
    ASSUME IInv, HeaderInvalid \/ HeaderValid
    PROVE  IInv'
<1> USE DEF IInv
<1>0. /\ toConsole \in Seq(Control) /\ page \in Nat /\ Pages \in Nat
      /\ console = "header" /\ toConsole = <<>> /\ page = 0 /\ sent = 0 /\ toClient = <<>>
      /\ UNCHANGED <<memory, first, console, sent, toClient, page, attempt, records>>
  BY DEF HeaderInvalid, HeaderValid, download, dump, TypeOK, InStep, Pages
<1>1. CASE HeaderInvalid
  <2>1. AckInStep' /\ toConsole' \in Seq(Control)
    BY <1>0, <1>1, WriteOther DEF HeaderInvalid, Control
  <2>2. client' = "rejected"
    BY <1>1 DEF HeaderInvalid
  <2>3. TypeOK'
    BY <1>0, <2>1, <2>2 DEF TypeOK, ClientSteps, Ended
  <2> QED BY <1>0, <2>1, <2>2, <2>3 DEF InStep, LineInStep, Pages
<1>2. CASE HeaderValid /\ Pages = 0
  <2>1. AckInStep' /\ toConsole' \in Seq(Control)
    BY <1>0, <1>2, WriteOther DEF HeaderValid, Control
  <2>2. client' = "done"
    BY <1>2 DEF HeaderValid
  <2>3. TypeOK'
    BY <1>0, <2>1, <2>2 DEF TypeOK, ClientSteps, Ended
  <2> QED BY <1>0, <2>1, <2>2, <2>3 DEF InStep, LineInStep, Pages
<1>3. CASE HeaderValid /\ Pages # 0
  <2>1. Write("ACK") /\ client' = "page" /\ first < Slots
    BY <1>3 DEF HeaderValid
  <2>2. /\ toConsole' \in Seq(Control)
        /\ \A i, j \in 1..Len(toConsole') :
              toConsole'[i] = "ACK" /\ toConsole'[j] = "ACK" => i = j
    BY <1>0, <2>1, WriteAck
  <2>3. TypeOK'
    BY <1>0, <2>1, <2>2 DEF TypeOK, ClientSteps
  <2>4. AckInStep'
    BY <1>0, <2>2 DEF AckInStep
  <2>5. client = "header"
    BY <1>3 DEF HeaderValid
  <2>6. InStep'
    BY <1>0, <1>3, <2>1, <2>5 DEF InStep, Pages
  <2> QED BY <1>0, <2>3, <2>4, <2>6 DEF LineInStep
<1> QED BY <1>1, <1>2, <1>3

(* What is known when the client accepts a page: it is the expected one, the
   console has not been asked for another, and the rest of the line is no
   older. *)
LEMMA AcceptFacts ==
    ASSUME IInv, AcceptPage
    PROVE  /\ Head(toClient).page = page /\ sent = page /\ page < Pages
           /\ console # "header"
           /\ console # "off" =>
                 \A i \in 1..Len(toConsole) : toConsole[i] # "ACK"
           /\ toClient' \in Seq(Frame)
           /\ \A i \in 1..Len(toClient') :
                 toClient'[i].page = page
           /\ \A i \in 1..Len(toClient') : toClient'[i].page \in Nat
           /\ UNCHANGED <<memory, first, console, sent>> /\ attempt' = 0
           /\ memory[page + 1] \in [1..Slots -> Nat \cup {Empty}]
<1> USE DEF IInv
<1>1. /\ client = "page" /\ toClient # <<>> /\ toClient' = Tail(toClient)
      /\ UNCHANGED <<memory, first, console, sent>> /\ attempt' = 0
      /\ Valid(Head(toClient))
      /\ toClient \in Seq(Frame) /\ page \in Nat /\ sent \in Nat
  BY DEF AcceptPage, download, dump, TypeOK
<1>2. Head(toClient).page = page
  BY <1>1, AcceptsExpected
<1>3. /\ toClient' \in Seq(Frame) /\ Len(toClient') = Len(toClient) - 1
      /\ Len(toClient) \in Nat \ {0} /\ Head(toClient) = toClient[1]
      /\ \A i \in 1..Len(toClient) - 1 : toClient'[i] = toClient[i + 1]
  BY <1>1, TailOf
<1>4. 1 \in 1..Len(toClient)
  BY <1>3
<1>5. sent = page
  BY <1>1, <1>2, <1>3, <1>4 DEF LineInStep, InStep
<1>6. page < Pages /\ console # "header"
  BY <1>1 DEF InStep
<1>7. console # "off" => \A i \in 1..Len(toConsole) : toConsole[i] # "ACK"
  BY <1>1, <1>5, <1>6 DEF AckInStep
<1>8. \A i \in 1..Len(toClient') : toClient'[i].page \in Nat
  BY <1>3, FramesOf
<1>9. ASSUME NEW i \in 1..Len(toClient') PROVE toClient'[i].page = page
  <2>1. i + 1 \in 1..Len(toClient) /\ toClient'[i] = toClient[i + 1] /\ 1 < i + 1
    BY <1>3
  <2>2. page <= toClient[i + 1].page /\ toClient[i + 1].page <= page
    BY <1>2, <1>3, <1>4, <1>5, <2>1 DEF LineInStep
  <2> QED BY <1>1, <1>8, <2>1, <2>2
<1>10. memory[page + 1] \in [1..Slots -> Nat \cup {Empty}]
  <2>1. page + 1 \in 1..Len(memory)
    BY <1>1, <1>6 DEF TypeOK, Pages
  <2> QED BY <2>1 DEF TypeOK
<1> QED BY <1>1, <1>2, <1>3, <1>5, <1>6, <1>7, <1>8, <1>9, <1>10

LEMMA AcceptPageStep ==
    ASSUME IInv, AcceptPage
    PROVE  IInv'
<1> USE DEF IInv
<1> DEFINE content == memory[page + 1]
           stop == StopDownload(content, page)
<1>0. /\ sent = page /\ page < Pages /\ Pages \in Nat /\ page \in Nat
      /\ console # "header"
      /\ console # "off" => \A i \in 1..Len(toConsole) : toConsole[i] # "ACK"
      /\ toClient' \in Seq(Frame)
      /\ \A i \in 1..Len(toClient') : toClient'[i].page = page
      /\ UNCHANGED <<memory, first, console, sent>> /\ attempt' = 0
      /\ toConsole \in Seq(Control)
  BY AcceptFacts DEF TypeOK, Pages
<1>1. /\ client = "page" /\ first < Slots
      /\ records' = records \cup Kept(content, page)
      /\ Acknowledge(stop)
      /\ IF stop \/ page + 1 = Pages
         THEN client' = "done" /\ page' = page
         ELSE page' = page + 1 /\ client' = client
  BY AcceptFacts DEF AcceptPage, InStep
<1>2. records' \subseteq Nat /\ first \in Nat
  <2>1. first \in Nat /\ records \subseteq Nat
    BY ArchiveAssumption DEF TypeOK
  <2>2. Kept(content, page) \subseteq Nat
    BY <1>0, <2>1, AcceptFacts, KeptType
  <2> QED BY <1>1, <2>1, <2>2
<1> HIDE DEF stop
<1>3. ASSUME toConsole' \in Seq(Control), client' \in ClientSteps, page' \in Nat
      PROVE  TypeOK'
  BY <1>0, <1>2, <1>3, ArchiveAssumption DEF TypeOK
<1>4. CASE stop
  <2>1. Write("ESC") /\ client' = "done" /\ page' = page
    BY <1>1, <1>4 DEF Acknowledge
  <2>2. AckInStep' /\ toConsole' \in Seq(Control)
    BY <1>0, <2>1, WriteOther DEF Control
  <2>3. InStep' /\ LineInStep'
    BY <1>0, <2>1 DEF InStep, LineInStep, Pages
  <2>4. TypeOK'
    BY <1>0, <1>3, <2>1, <2>2 DEF ClientSteps, Ended
  <2> QED BY <2>2, <2>3, <2>4
<1>5. CASE ~stop /\ page + 1 < Pages
  <2>1. Write("ACK") /\ client' = "page" /\ page' = page + 1
    BY <1>0, <1>1, <1>5 DEF Acknowledge
  <2>2. console # "off" =>
          \A i, j \in 1..Len(toConsole') :
              toConsole'[i] = "ACK" /\ toConsole'[j] = "ACK" => i = j
    BY <1>0, <2>1, WriteAck
  <2>3. toConsole' \in Seq(Control)
    BY <1>0, <2>1, AppendOf DEF Write, Control
  <2>4. AckInStep'
    BY <1>0, <2>1, <2>2 DEF AckInStep
  <2>5. InStep'
    BY <1>0, <1>1, <1>5, <2>1, ArchiveAssumption DEF InStep, Pages
  <2>6. LineInStep'
    BY <1>0, <2>1 DEF LineInStep
  <2>7. TypeOK'
    BY <1>0, <1>3, <2>1, <2>3 DEF ClientSteps
  <2> QED BY <2>4, <2>5, <2>6, <2>7
<1>6. CASE ~stop /\ ~(page + 1 < Pages)
  <2>1. toConsole' = toConsole /\ client' = "done" /\ page' = page
    BY <1>0, <1>1, <1>6 DEF Acknowledge
  <2>2. InStep' /\ LineInStep' /\ AckInStep'
    BY <1>0, <2>1 DEF InStep, LineInStep, Pages, AckInStep
  <2>3. TypeOK'
    BY <1>0, <1>3, <2>1 DEF ClientSteps, Ended
  <2> QED BY <2>2, <2>3
<1> QED BY <1>4, <1>5, <1>6

LEMMA RejectPageStep ==
    ASSUME IInv, RejectPage
    PROVE  IInv'
<1> USE DEF IInv
<1>0. /\ client = "page" /\ Retry
      /\ UNCHANGED <<memory, first, console, sent, page, records>>
      /\ toClient \in Seq(Frame) /\ toConsole \in Seq(Control)
      /\ page \in Nat /\ sent \in Nat
  BY DEF RejectPage, download, dump, TypeOK
<1>1. toClient' = toClient \/ (toClient # <<>> /\ toClient' = Tail(toClient))
  BY DEF RejectPage
<1>2. toClient' \in Seq(Frame) /\ LineInStep'
  <2>1. CASE toClient' = toClient
    BY <1>0, <2>1 DEF LineInStep
  <2>2. CASE toClient # <<>> /\ toClient' = Tail(toClient)
    <3>1. /\ toClient' \in Seq(Frame) /\ Len(toClient') = Len(toClient) - 1
          /\ Len(toClient) \in Nat \ {0}
          /\ \A i \in 1..Len(toClient) - 1 : toClient'[i] = toClient[i + 1]
      BY <1>0, <2>2, TailOf
    <3>2. \A i \in 1..Len(toClient') :
              i + 1 \in 1..Len(toClient) /\ toClient'[i] = toClient[i + 1]
      BY <3>1
    <3>3. \A i, j \in 1..Len(toClient') : i < j => i + 1 < j + 1
      BY <3>1
    <3> QED BY <1>0, <3>1, <3>2, <3>3 DEF LineInStep
  <2> QED BY <1>1, <2>1, <2>2
<1>3. AckInStep' /\ toConsole' \in Seq(Control)
  <2>1. PICK byte \in {"NACK", "ESC"} : Write(byte)
    BY <1>0 DEF Retry
  <2> QED BY <1>0, <2>1, WriteOther DEF Control
<1>4. /\ client' \in {"page", "rejected"} /\ attempt' \in 0..Attempts
      /\ client' = "page" => attempt' < Attempts
  <2>1. /\ attempt \in 0..Attempts /\ attempt' = attempt + 1
        /\ \/ attempt + 1 < Attempts /\ client' = client
           \/ client' = "rejected"
    BY <1>0 DEF Retry, TypeOK
  <2>2. attempt < Attempts
    BY <1>0 DEF InStep
  <2> QED BY <1>0, <2>1, <2>2, ArchiveAssumption
<1>5. TypeOK'
  BY <1>0, <1>2, <1>3, <1>4 DEF TypeOK, ClientSteps, Ended
<1>6. InStep'
  <2>1. console # "header" \/ toClient' = <<>>
    BY <1>1 DEF InStep
  <2> QED BY <1>0, <1>4, <2>1 DEF InStep, Pages
<1> QED BY <1>2, <1>3, <1>5, <1>6

LEMMA LinkFailsStep ==
    ASSUME IInv, LinkFails
    PROVE  IInv'
<1> USE DEF IInv
<1>1. /\ client' = "linkFailed"
      /\ UNCHANGED <<memory, first, console, sent, toClient, toConsole, page,
                     attempt, records>>
  BY DEF LinkFails, download, dump
<1>2. TypeOK'
  BY <1>1 DEF TypeOK, ClientSteps, Ended
<1> QED BY <1>1, <1>2 DEF InStep, LineInStep, AckInStep, Pages

(* The invariant holds. *)
LEMMA IInvNext ==
    ASSUME IInv, [Next]_vars
    PROVE  IInv'
<1>1. CASE ConsoleHears
  BY <1>1, ConsoleHearsStep
<1>2. CASE DamagePage \/ LoseControl
  BY <1>2, LineStep
<1>3. CASE HeaderInvalid \/ HeaderValid
  BY <1>3, HeaderStep
<1>4. CASE AcceptPage
  BY <1>4, AcceptPageStep
<1>5. CASE RejectPage
  BY <1>5, RejectPageStep
<1>6. CASE LinkFails
  BY <1>6, LinkFailsStep
<1>7. CASE UNCHANGED vars
  BY <1>7 DEF vars, download, dump, IInv, TypeOK, InStep, LineInStep, AckInStep, Pages
<1> QED BY <1>1, <1>2, <1>3, <1>4, <1>5, <1>6, <1>7 DEF Next, ClientStep

THEOREM Invariance == Safe => []IInv
<1>1. Init => IInv
  BY InitStep
<1>2. IInv /\ [Next]_vars => IInv'
  BY IInvNext
<1> QED BY <1>1, <1>2, PTL DEF Safe

(* Every variable keeps its type, for every memory and index size. *)
THEOREM TypeCorrect == Safe => []TypeOK
<1>1. IInv => TypeOK
  BY DEF IInv
<1> QED BY <1>1, Invariance, PTL

(* An accepted page is the expected one: page numbers modulo two would do, on
   a line that damages pages and loses acknowledgements but keeps its order. *)
THEOREM PageCorrect == Safe => []OnlyExpectedPage
<1>1. IInv => OnlyExpectedPage
  BY AcceptsExpected DEF IInv, OnlyExpectedPage
<1> QED BY <1>1, Invariance, PTL

(* No ACK ever reaches a console that has sent its final page. *)
THEOREM AckCorrect == Safe => []FinalPageNotAcked
<1>1. IInv => FinalPageNotAcked
  <2> SUFFICES ASSUME IInv, NEW i \in 1..Len(toConsole), toConsole[i] = "ACK",
                      console = "page"
               PROVE  sent + 1 < Pages
    BY DEF FinalPageNotAcked
  <2>1. sent + 1 = page /\ sent \in Nat
    BY DEF IInv, AckInStep, TypeOK
  <2> QED BY <2>1 DEF IInv, InStep
<1> QED BY <1>1, Invariance, PTL

-----------------------------------------------------------------------------
(* The page after n ends the download, or is the last. *)
EndsAfter(n) == n + 1 = Pages \/ StopDownload(memory[n + 1], n)

(* When no page before the last one that was read ends the download, what was
   kept is the window. *)
LEMMA KeptIsWindow ==
    ASSUME TypeOK, Ordered(memory, first), NEW n \in Nat, n < Pages,
           NoStopBefore(n), EndsAfter(n)
    PROVE  RecordsBefore(n + 1) = Window
<1>0. /\ memory \in Seq([1..Slots -> Nat \cup {Empty}]) /\ Pages \in Nat
      /\ first \in Nat /\ Slots \in Nat /\ Start \in Nat /\ Stop \in Nat
      /\ n + 1 \in 1..Pages
  BY ArchiveAssumption DEF TypeOK, Pages
<1>1. \A p \in 1..Pages : memory[p] \in [1..Slots -> Nat \cup {Empty}]
  BY <1>0 DEF Pages
<1>2. \A p \in 1..Pages : /\ p - 1 \in Nat /\ FirstSlot(p - 1) \in Nat
                          /\ FirstSlot(p - 1) >= 1
  BY <1>0 DEF FirstSlot
<1>3. ASSUME NEW t \in RecordsBefore(n + 1) PROVE t \in Window
  <2>1. PICK p \in 1..n + 1 : t \in Kept(memory[p], p - 1)
    BY <1>3 DEF RecordsBefore
  <2>2. p \in 1..Pages
    BY <1>0, <2>1
  <2>3. PICK s \in Reached(memory[p], p - 1) : t = memory[p][s] /\ memory[p][s] > Start
    BY <2>1 DEF Kept
  <2>4. s \in 1..Slots /\ s \in FirstSlot(p - 1)..s
    BY <1>0, <1>2, <2>2, <2>3 DEF Reached
  <2>5. ~Stops(memory[p], s)
    BY <2>3, <2>4 DEF Reached
  <2>6. t \in Nat /\ t <= Stop /\ t > Start
    BY <1>0, <1>1, <2>2, <2>3, <2>4, <2>5 DEF Stops
  <2> QED BY <1>0, <2>2, <2>3, <2>4, <2>6, SMTT(30) DEF Window
<1>4. ASSUME NEW t \in Window PROVE t \in RecordsBefore(n + 1)
  <2>1. PICK p \in 1..Pages, s \in 1..Slots : memory[p][s] = t
    BY <1>4 DEF Window
  <2>2. t \in Nat /\ t > Start /\ t <= Stop
    BY <1>0, <1>4 DEF Window
  <2>3. InWindow(memory[p], s) /\ ~Stops(memory[p], s)
    BY <1>0, <2>1, <2>2, ArchiveAssumption DEF InWindow, Stops
  <2>4. s >= FirstSlot(p - 1)
    <3>1. CASE p = 1
      <4>1. memory # <<>>
        BY <1>0, <2>1 DEF Pages
      <4>2. ~(s <= first)
        BY <2>1, <2>3, <3>1, <4>1 DEF Ordered
      <4> QED BY <1>0, <2>1, <3>1, <4>2 DEF FirstSlot
    <3>2. CASE p # 1
      BY <1>0, <2>1, <3>2 DEF FirstSlot
    <3> QED BY <3>1, <3>2
  <2>5. ASSUME NEW q \in 1..Pages, NEW r \in FirstSlot(q - 1)..Slots,
               q < p \/ (q = p /\ r < s)
        PROVE  ~Stops(memory[q], r)
    <3>1. r \in 1..Slots /\ ~(q = 1 /\ r <= first)
      BY <1>0, <1>2, <2>5 DEF FirstSlot
    <3> QED BY <2>1, <2>3, <2>5, <3>1 DEF Ordered, Pages
  <2>6. p <= n + 1
    <3> SUFFICES ASSUME n + 1 < p PROVE FALSE
      BY <1>0, <2>1
    <3>1. StopDownload(memory[n + 1], n)
      BY <1>0, <2>1 DEF EndsAfter
    <3>2. PICK r \in FirstSlot(n + 1 - 1)..Slots : Stops(memory[n + 1], r)
      BY <3>1 DEF StopDownload
    <3> QED BY <1>0, <2>5, <3>2
  <2>7. s \in Reached(memory[p], p - 1)
    <3>1. s \in FirstSlot(p - 1)..Slots
      BY <1>2, <2>1, <2>4
    <3>2. ASSUME NEW r \in FirstSlot(p - 1)..s PROVE ~Stops(memory[p], r)
      <4>0. s \in Nat /\ s <= Slots /\ Slots \in Nat /\ FirstSlot(p - 1) \in Nat
        BY <1>0, <1>2, <2>1, ArchiveAssumption
      <4>1. r = s \/ (r < s /\ r \in FirstSlot(p - 1)..Slots)
        BY <3>2, <4>0
      <4> QED BY <2>1, <2>3, <2>5, <4>1
    <3> QED BY <3>1, <3>2 DEF Reached
  <2>8. t \in Kept(memory[p], p - 1)
    BY <2>1, <2>2, <2>7 DEF Kept
  <2> QED BY <1>0, <2>1, <2>6, <2>8 DEF RecordsBefore
<1> QED BY <1>3, <1>4

RecInv == RecordsSoFar /\ WindowComplete

LEMMA RecordsGrow ==
    ASSUME NEW n \in Nat
    PROVE  RecordsBefore(n + 1) = RecordsBefore(n) \cup Kept(memory[n + 1], n)
<1>1. 1..n + 1 = 1..n \cup {n + 1} /\ n + 1 - 1 = n
  OBVIOUS
<1> QED BY <1>1 DEF RecordsBefore

LEMMA AcceptPageRecords ==
    ASSUME IInv, AcceptPage, RecInv
    PROVE  RecInv'
<1> DEFINE stop == StopDownload(memory[page + 1], page)
<1>1. /\ page \in Nat /\ page < Pages /\ Pages \in Nat /\ client = "page"
      /\ UNCHANGED <<memory, first>> /\ TypeOK /\ Ordered(memory, first)
      /\ records = RecordsBefore(page) /\ NoStopBefore(page)
  BY AcceptFacts DEF IInv, TypeOK, Pages, RecInv, RecordsSoFar, AcceptPage
<1>2. /\ records' = records \cup Kept(memory[page + 1], page)
      /\ IF stop \/ page + 1 = Pages
         THEN client' = "done" /\ page' = page
         ELSE page' = page + 1 /\ client' = client
  BY AcceptFacts DEF AcceptPage
<1>3. records' = RecordsBefore(page + 1)
  BY <1>1, <1>2, RecordsGrow
<1>4. /\ \A m : RecordsBefore(m)' = RecordsBefore(m)
      /\ \A m : NoStopBefore(m)' = NoStopBefore(m)
      /\ Window' = Window /\ Ordered(memory, first)'
  BY <1>1 DEF RecordsBefore, NoStopBefore, Window, Ordered, Kept, Reached, FirstSlot,
              StopDownload, Stops, InWindow, Pages
<1>5. CASE stop \/ page + 1 = Pages
  <2>1. EndsAfter(page)
    BY <1>5 DEF EndsAfter
  <2>2. RecordsBefore(page + 1) = Window
    BY <1>1, <2>1, KeptIsWindow
  <2> QED BY <1>2, <1>3, <1>4, <1>5, <2>2 DEF RecInv, RecordsSoFar, WindowComplete
<1>6. CASE ~(stop \/ page + 1 = Pages)
  <2>1. NoStopBefore(page + 1)
    <3>1. \A p \in 1..page + 1 : p \in 1..page \/ (p = page + 1 /\ p - 1 = page)
      BY <1>1
    <3> QED BY <1>1, <1>6, <3>1 DEF NoStopBefore
  <2> QED BY <1>1, <1>2, <1>3, <1>4, <1>6, <2>1 DEF RecInv, RecordsSoFar, WindowComplete
<1> QED BY <1>5, <1>6

LEMMA RecordsNext ==
    ASSUME IInv, RecInv, [Next]_vars
    PROVE  RecInv'
<1>1. CASE AcceptPage
  BY <1>1, AcceptPageRecords
<1>2. ASSUME UNCHANGED <<memory, first, page, records>>,
             client' \in {"header", "page"} => client \in {"header", "page"},
             client' = "done" => client = "done" \/ records = Window
      PROVE  RecInv'
  <2>1. /\ RecordsBefore(page)' = RecordsBefore(page)
        /\ NoStopBefore(page)' = NoStopBefore(page)
        /\ Window' = Window /\ Ordered(memory, first)' = Ordered(memory, first)
    BY <1>2 DEF RecordsBefore, NoStopBefore, Window, Ordered, Kept, Reached, FirstSlot,
                StopDownload, Stops, InWindow, Pages
  <2> QED BY <1>2, <2>1 DEF RecInv, RecordsSoFar, WindowComplete
<1>3. CASE HeaderValid
  <2>1. /\ UNCHANGED <<memory, first, page, records>> /\ client = "header"
        /\ client' \in {"done", "page"} /\ (client' = "done" => Pages = 0)
        /\ records = RecordsBefore(0)
    BY <1>3 DEF HeaderValid, download, dump, IInv, InStep, RecInv, RecordsSoFar
  <2>2. Pages = 0 => Window = {}
    BY DEF Window
  <2>3. RecordsBefore(0) = {}
    BY DEF RecordsBefore
  <2> QED BY <1>2, <2>1, <2>2, <2>3
<1>4. CASE ConsoleHears \/ DamagePage \/ LoseControl \/ UNCHANGED vars
  BY <1>2, <1>4 DEF ConsoleHears, DamagePage, LoseControl, vars, download, dump
<1>5. CASE HeaderInvalid \/ LinkFails
  BY <1>2, <1>5 DEF HeaderInvalid, LinkFails, download, dump
<1>6. CASE RejectPage
  <2>1. client = "page" /\ client' \in {"page", "rejected"}
    BY <1>6 DEF RejectPage, Retry
  <2> QED BY <1>2, <1>6, <2>1 DEF RejectPage, download, dump
<1> QED BY <1>1, <1>3, <1>4, <1>5, <1>6 DEF Next, ClientStep

(* A download that ends normally returns exactly the records of the window,
   for every memory the console may have and every behaviour of the line. *)
THEOREM WindowCorrect == Safe => []WindowComplete
<1>1. Init => IInv /\ RecInv
  BY InitStep DEF RecInv, WindowComplete, Init
<1>2. IInv /\ RecInv /\ [Next]_vars => RecInv'
  BY RecordsNext
<1>3. RecInv => WindowComplete
  BY DEF RecInv
<1> QED BY <1>1, <1>2, <1>3, Invariance, PTL DEF Safe
-----------------------------------------------------------------------------
(* The download implements PageTransfer.                                   *)

Give == [p \in 1..Pages |-> InPage(p)]
Taken == IF client = "done" /\ Pages > 0 THEN page + 1 ELSE page
Status ==
    CASE client \in {"header", "page"} -> "running"
      [] client = "done"               -> "done"
      [] OTHER                         -> "failed"

(* The pages as the caller sees them are a sequence. *)
LEMMA GiveIsSequence ==
    ASSUME Pages \in Nat
    PROVE  /\ Len(Give) = Pages /\ (Give = <<>> <=> Pages = 0)
           /\ \A p \in 1..Pages : Give[p] = InPage(p)
  BY DEF Give

(* What the loop keeps of a page is what that page has within the window,
   wherever in the download it comes. *)
LEMMA KeptIsInPage ==
    ASSUME TypeOK, Ordered(memory, first), NEW n \in Nat, n < Pages
    PROVE  Kept(memory[n + 1], n) = InPage(n + 1)
<1> DEFINE content == memory[n + 1]
<1>0. /\ first \in Nat /\ Slots \in Nat /\ Start \in Nat /\ Stop \in Nat
      /\ n + 1 \in 1..Len(memory) /\ Len(memory) \in Nat /\ memory # <<>>
      /\ content \in [1..Slots -> Nat \cup {Empty}]
      /\ FirstSlot(n) \in Nat /\ FirstSlot(n) >= 1
  BY ArchiveAssumption DEF TypeOK, Pages, FirstSlot
<1>1. ASSUME NEW t \in Kept(content, n) PROVE t \in InPage(n + 1)
  <2>1. PICK s \in Reached(content, n) : t = content[s] /\ content[s] > Start
    BY <1>1 DEF Kept
  <2>2. s \in 1..Slots /\ s \in FirstSlot(n)..s
    BY <1>0, <2>1 DEF Reached
  <2>3. ~Stops(content, s)
    BY <2>1, <2>2 DEF Reached
  <2>4. t \in Nat /\ t <= Stop /\ t > Start
    BY <1>0, <2>1, <2>2, <2>3 DEF Stops
  <2> QED BY <1>0, <2>1, <2>2, <2>4 DEF InPage
<1>2. ASSUME NEW t \in InPage(n + 1) PROVE t \in Kept(content, n)
  <2>1. PICK s \in 1..Slots : content[s] = t
    BY <1>2 DEF InPage
  <2>2. t \in Nat /\ t > Start /\ t <= Stop
    BY <1>0, <1>2 DEF InPage
  <2>3. InWindow(content, s) /\ ~Stops(content, s)
    BY <1>0, <2>1, <2>2, ArchiveAssumption DEF InWindow, Stops
  <2>4. s >= FirstSlot(n)
    <3>1. CASE n = 0
      <4>1. ~(s <= first)
        BY <1>0, <2>3, <3>1 DEF Ordered
      <4> QED BY <1>0, <3>1, <4>1 DEF FirstSlot
    <3>2. CASE n # 0
      BY <3>2 DEF FirstSlot
    <3> QED BY <3>1, <3>2
  <2>5. ASSUME NEW r \in FirstSlot(n)..s PROVE ~Stops(content, r)
    <3>1. r \in 1..Slots /\ (r = s \/ r < s) /\ ~(n + 1 = 1 /\ r <= first)
      BY <1>0, <2>5 DEF FirstSlot
    <3>2. CASE r = s
      BY <2>3, <3>2
    <3>3. CASE r < s
      BY <1>0, <2>3, <3>1, <3>3 DEF Ordered
    <3> QED BY <3>1, <3>2, <3>3
  <2>6. s \in Reached(content, n)
    BY <1>0, <2>1, <2>4, <2>5 DEF Reached
  <2> QED BY <2>1, <2>2, <2>6 DEF Kept
<1> QED BY <1>1, <1>2

(* When a page ends the download, no later one has anything to give. *)
LEMMA NothingAfterStop ==
    ASSUME TypeOK, Ordered(memory, first), NEW n \in Nat, n < Pages,
           StopDownload(memory[n + 1], n), NEW q \in n + 2..Pages
    PROVE  InPage(q) = {}
<1>0. /\ first \in Nat /\ Slots \in Nat /\ Start \in Nat /\ Stop \in Nat
      /\ n + 1 \in 1..Len(memory) /\ q \in 1..Len(memory) /\ n + 1 < q
      /\ memory[q] \in [1..Slots -> Nat \cup {Empty}]
  BY ArchiveAssumption DEF TypeOK, Pages
<1>1. PICK r \in FirstSlot(n)..Slots : Stops(memory[n + 1], r)
  BY DEF StopDownload
<1>2. r \in 1..Slots /\ ~(n + 1 = 1 /\ r <= first)
  BY <1>0, <1>1 DEF FirstSlot
<1> SUFFICES ASSUME NEW t \in InPage(q) PROVE FALSE
  OBVIOUS
<1>3. PICK s \in 1..Slots : memory[q][s] = t
  BY DEF InPage
<1>4. t \in Nat /\ t > Start /\ t <= Stop
  BY <1>0 DEF InPage
<1>5. InWindow(memory[q], s)
  BY <1>0, <1>3, <1>4, ArchiveAssumption DEF InWindow, Stops
<1> QED BY <1>0, <1>1, <1>2, <1>3, <1>5 DEF Ordered

(* A valid page is a page taken. *)
LEMMA AcceptTakes ==
    ASSUME IInv, RecInv, AcceptPage
    PROVE  /\ Status = "running" /\ Taken < Pages /\ Taken' = Taken + 1
           /\ records' = records \cup InPage(Taken + 1)
           /\ \/ Status' = "running" /\ Taken + 1 < Pages
              \/ /\ Status' = "done"
                 /\ \A q \in Taken + 2..Pages : InPage(q) = {}
           /\ Give' = Give
<1> DEFINE stop == StopDownload(memory[page + 1], page)
<1>1. /\ page \in Nat /\ page < Pages /\ Pages \in Nat /\ client = "page"
      /\ UNCHANGED <<memory, first>> /\ TypeOK /\ Ordered(memory, first)
  BY AcceptFacts DEF IInv, TypeOK, Pages, RecInv, RecordsSoFar, AcceptPage
<1>2. /\ records' = records \cup Kept(memory[page + 1], page)
      /\ IF stop \/ page + 1 = Pages
         THEN client' = "done" /\ page' = page
         ELSE page' = page + 1 /\ client' = client
  BY AcceptFacts DEF AcceptPage
<1>3. records' = records \cup InPage(page + 1)
  BY <1>1, <1>2, KeptIsInPage
<1>4. Pages' = Pages /\ Give' = Give
  BY <1>1 DEF Pages, Give, InPage
<1>5. Taken = page /\ Status = "running"
  BY <1>1 DEF Taken, Status
<1>6. CASE stop \/ page + 1 = Pages
  <2>1. client' = "done" /\ page' = page
    BY <1>2, <1>6
  <2>2. Status' = "done" /\ Taken' = page + 1
    BY <1>1, <1>4, <2>1 DEF Status, Taken
  <2>3. \A q \in page + 2..Pages : InPage(q) = {}
    <3>1. CASE stop
      BY <1>1, <3>1, NothingAfterStop
    <3>2. CASE page + 1 = Pages
      BY <1>1, <3>2
    <3> QED BY <1>6, <3>1, <3>2
  <2> QED BY <1>1, <1>3, <1>4, <1>5, <2>2, <2>3
<1>7. CASE ~(stop \/ page + 1 = Pages)
  <2>1. client' = "page" /\ page' = page + 1
    BY <1>1, <1>2, <1>7
  <2>2. Status' = "running" /\ Taken' = page + 1
    BY <1>1, <1>4, <2>1 DEF Status, Taken
  <2> QED BY <1>1, <1>3, <1>4, <1>5, <1>7, <2>2
<1> QED BY <1>6, <1>7

(* The state of PageTransfer that stands for a state of the download. *)
TransferVars == <<Give, Taken, records, Status>>

LEMMA TransferStep ==
    ASSUME IInv, RecInv, [Next]_vars
    PROVE  \/ Transfer!TakePage \/ Transfer!NothingToTake \/ Transfer!Fail
           \/ UNCHANGED TransferVars
<1>0. Pages \in Nat /\ page \in Nat
  BY DEF IInv, TypeOK, Pages
<1>1. CASE AcceptPage
  <2>1. /\ Status = "running" /\ Taken < Pages /\ Taken' = Taken + 1
        /\ records' = records \cup InPage(Taken + 1)
        /\ \/ Status' = "running" /\ Taken + 1 < Pages
           \/ /\ Status' = "done"
              /\ \A q \in Taken + 2..Pages : InPage(q) = {}
        /\ Give' = Give /\ Taken \in Nat
    BY <1>0, <1>1, AcceptTakes DEF Taken
  <2>2. Len(Give) = Pages /\ \A p \in 1..Pages : Give[p] = InPage(p)
    BY <1>0, GiveIsSequence
  <2>3. Give[Taken + 1] = InPage(Taken + 1)
    BY <1>0, <2>1, <2>2
  <2>4. \/ Status' = "running" /\ Taken + 1 < Len(Give)
        \/ Status' = "done" /\ \A q \in Taken + 1 + 1..Len(Give) : Give[q] = {}
    BY <1>0, <2>1, <2>2
  <2>5. Transfer!TakePage
    BY <2>1, <2>2, <2>3, <2>4
    DEF Transfer!TakePage, Transfer!NothingLeft, Give, Taken, Status
  <2> QED BY <2>5
<1>2. ASSUME UNCHANGED <<memory, first, page, records>>,
             Pages = 0 \/ (client' = "done" <=> client = "done")
      PROVE  Give' = Give /\ Taken' = Taken /\ records' = records
  BY <1>2 DEF Give, InPage, Taken, Pages
<1>3. ASSUME UNCHANGED <<memory, first, page, records>>, client \notin Ended,
             client' \in {"rejected", "linkFailed"}
      PROVE  Transfer!Fail
  <2>1. client \in {"header", "page"}
    BY <1>3 DEF IInv, TypeOK, ClientSteps
  <2>2. Status = "running" /\ Status' = "failed"
    BY <1>3, <2>1 DEF Status
  <2>3. Give' = Give /\ Taken' = Taken /\ records' = records
    BY <1>2, <1>3 DEF Ended
  <2> QED BY <2>2, <2>3 DEF Transfer!Fail, Give, Taken, Status
<1>4. CASE HeaderValid
  <2>1. /\ UNCHANGED <<memory, first, page, records>> /\ client = "header"
        /\ IF Pages = 0 THEN client' = "done" ELSE client' = "page"
    BY <1>4 DEF HeaderValid, download, dump
  <2>2. Give' = Give /\ Taken' = Taken /\ records' = records
    BY <1>2, <2>1
  <2>3. CASE Pages = 0
    <3>1. Status = "running" /\ Status' = "done" /\ Give = <<>>
      BY <1>0, <2>1, <2>3, GiveIsSequence DEF Status
    <3>2. Transfer!NothingToTake
      BY <2>2, <3>1 DEF Transfer!NothingToTake, Give, Taken, Status
    <3> QED BY <3>2
  <2>4. CASE Pages # 0
    BY <2>1, <2>2, <2>4 DEF TransferVars, Status
  <2> QED BY <2>3, <2>4
<1>5. CASE HeaderInvalid \/ LinkFails
  <2>1. /\ UNCHANGED <<memory, first, page, records>> /\ client \notin Ended
        /\ client' \in {"rejected", "linkFailed"}
    BY <1>5 DEF HeaderInvalid, LinkFails, Ended, download, dump
  <2> QED BY <1>3, <2>1
<1>6. CASE RejectPage
  <2>1. /\ UNCHANGED <<memory, first, page, records>> /\ client = "page"
        /\ client' \in {"page", "rejected"}
    BY <1>6 DEF RejectPage, Retry, download, dump
  <2>2. CASE client' = "rejected"
    BY <1>3, <2>1, <2>2 DEF Ended
  <2>3. CASE client' = "page"
    BY <1>2, <2>1, <2>3 DEF TransferVars, Status
  <2> QED BY <2>1, <2>2, <2>3
<1>7. CASE ConsoleHears \/ DamagePage \/ LoseControl \/ UNCHANGED vars
  <2>1. UNCHANGED <<memory, first, page, records, client>>
    BY <1>7 DEF ConsoleHears, DamagePage, LoseControl, vars, download, dump
  <2> QED BY <1>2, <2>1 DEF TransferVars, Status
<1> QED BY <1>1, <1>4, <1>5, <1>6, <1>7 DEF Next, ClientStep

(* The download implements PageTransfer: for every memory, number of slots and
   index size, and whatever becomes of pages and control bytes on the line,
   the caller sees the pages taken once, in order and whole. *)
THEOREM DownloadTransfersPages == Safe => TransfersPages
<1>1. Init => Transfer!TransferInit
  BY DEF Init, Transfer!TransferInit
<1>2. IInv /\ RecInv /\ [Next]_vars => [Transfer!TransferNext]_Transfer!transferVars
  BY TransferStep DEF TransferVars, Give, Taken, Status,
                      Transfer!TransferNext, Transfer!transferVars
<1>3. Init => RecInv
  BY InitStep DEF RecInv, WindowComplete, Init
<1>4. IInv /\ RecInv /\ [Next]_vars => RecInv'
  BY RecordsNext
<1> QED BY <1>1, <1>2, <1>3, <1>4, Invariance, PTL
        DEF Safe, TransfersPages, Transfer!TransferSpec
-----------------------------------------------------------------------------
(* How many steps the client can still take at most: the header, and Attempts
   reads of each page from the present one on. *)
ReadsLeft ==
    CASE client = "header" -> Pages * Attempts + 1
      [] client = "page"   -> (Pages - page) * Attempts - attempt
      [] OTHER             -> 0

LEMMA ReadsOfPages ==
    ASSUME NEW k \in Nat, k > 0
    PROVE  /\ k * Attempts \in Nat /\ (k - 1) * Attempts \in Nat
           /\ k * Attempts = (k - 1) * Attempts + Attempts
<1>1. Attempts \in Nat /\ k - 1 \in Nat
  BY ArchiveAssumption
<1>2. \A m, n \in Nat : m * n \in Nat
  OBVIOUS
<1>3. \A m, n \in Nat : (m + 1) * n = m * n + n
  OBVIOUS
<1>4. k * Attempts \in Nat /\ (k - 1) * Attempts \in Nat
  BY <1>1, <1>2
<1>5. (k - 1 + 1) * Attempts = (k - 1) * Attempts + Attempts
  BY <1>1, <1>3
<1>6. k - 1 + 1 = k
  BY <1>1
<1> QED BY <1>4, <1>5, <1>6

LEMMA ReadsLeftType ==
    ASSUME IInv
    PROVE  /\ ReadsLeft \in Nat /\ (client \notin Ended => ReadsLeft > 0)
           /\ client = "page" => Pages - page \in Nat \ {0}
<1>0. /\ Pages \in Nat /\ page \in Nat /\ attempt \in Nat /\ Attempts \in Nat
      /\ client \in ClientSteps
  BY ArchiveAssumption DEF IInv, TypeOK, Pages
<1>1. CASE client = "header"
  <2>1. \A m, n \in Nat : m * n \in Nat
    OBVIOUS
  <2>2. Pages * Attempts \in Nat
    BY <1>0, <2>1
  <2>3. ReadsLeft = Pages * Attempts + 1
    BY <1>1 DEF ReadsLeft
  <2> QED BY <1>1, <2>2, <2>3
<1>2. CASE client = "page"
  <2>1. page < Pages /\ attempt < Attempts
    BY <1>2 DEF IInv, InStep
  <2>2. Pages - page \in Nat \ {0}
    BY <1>0, <2>1
  <2>3. /\ (Pages - page - 1) * Attempts \in Nat
        /\ (Pages - page) * Attempts = (Pages - page - 1) * Attempts + Attempts
    BY <2>2, ReadsOfPages
  <2>4. ReadsLeft = (Pages - page) * Attempts - attempt
    BY <1>2 DEF ReadsLeft
  <2> QED BY <1>0, <1>2, <2>1, <2>2, <2>3, <2>4
<1>3. CASE client \in Ended
  BY <1>3 DEF ReadsLeft, Ended
<1> QED BY <1>0, <1>1, <1>2, <1>3 DEF ClientSteps

LEMMA ReadsLeftStep ==
    ASSUME IInv, [Next]_vars, (ReadsLeft \in Nat)'
    PROVE  /\ ReadsLeft' <= ReadsLeft
           /\ ClientStep => ReadsLeft' < ReadsLeft
<1>0. /\ Pages \in Nat /\ page \in Nat /\ attempt \in Nat /\ Attempts \in Nat
      /\ ReadsLeft \in Nat /\ ReadsLeft' \in Nat
  BY ReadsLeftType, ArchiveAssumption DEF IInv, TypeOK, Pages
<1>1. ASSUME client' \in Ended PROVE ReadsLeft' = 0
  BY <1>1 DEF ReadsLeft, Ended
<1>2. client \notin Ended => ReadsLeft > 0
  BY ReadsLeftType
<1>3. CASE HeaderInvalid
  <2>1. client = "header" /\ client' = "rejected"
    BY <1>3 DEF HeaderInvalid
  <2> QED BY <1>0, <1>1, <1>2, <2>1 DEF Ended
<1>4. CASE HeaderValid
  <2>1. /\ client = "header" /\ client' \in {"done", "page"} /\ page' = page
        /\ attempt' = attempt /\ Pages' = Pages /\ page = 0
    BY <1>4 DEF HeaderValid, Pages, download, dump, IInv, InStep
  <2>2. CASE client' = "done"
    BY <1>0, <1>1, <1>2, <2>1, <2>2 DEF Ended
  <2>3. CASE client' = "page"
    <3>1. ReadsLeft' = (Pages - 0) * Attempts - attempt /\ ReadsLeft = Pages * Attempts + 1
      BY <2>1, <2>3 DEF ReadsLeft
    <3>2. Pages - 0 = Pages
      BY <1>0
    <3>3. Pages * Attempts \in Nat
      <4>1. \A m, n \in Nat : m * n \in Nat
        OBVIOUS
      <4> QED BY <1>0, <4>1
    <3> QED BY <1>0, <3>1, <3>2, <3>3
  <2> QED BY <2>1, <2>2, <2>3
<1>5. CASE AcceptPage
  <2>1. /\ client = "page" /\ attempt' = 0 /\ Pages' = Pages
        /\ attempt < Attempts /\ page < Pages
        /\ client' = "done" \/ (client' = "page" /\ page' = page + 1)
    BY <1>5 DEF AcceptPage, Pages, download, IInv, InStep
  <2>2. CASE client' = "done"
    BY <1>0, <1>1, <1>2, <2>1, <2>2 DEF Ended
  <2>3. CASE client' = "page" /\ page' = page + 1
    <3>1. /\ ReadsLeft' = (Pages - (page + 1)) * Attempts - 0
          /\ ReadsLeft = (Pages - page) * Attempts - attempt
      BY <2>1, <2>3 DEF ReadsLeft
    <3>2. Pages - (page + 1) = Pages - page - 1 /\ Pages - page \in Nat \ {0}
      BY <1>0, <2>1
    <3>3. /\ (Pages - page - 1) * Attempts \in Nat
          /\ (Pages - page) * Attempts = (Pages - page - 1) * Attempts + Attempts
      BY <3>2, ReadsOfPages
    <3> QED BY <1>0, <2>1, <3>1, <3>2, <3>3
  <2> QED BY <2>1, <2>2, <2>3
<1>6. CASE RejectPage
  <2>1. /\ client = "page" /\ attempt' = attempt + 1 /\ Pages' = Pages
        /\ page' = page /\ page < Pages /\ client' \in {"page", "rejected"}
    BY <1>6 DEF RejectPage, Retry, Pages, download, IInv, InStep
  <2>2. CASE client' = "rejected"
    BY <1>0, <1>1, <1>2, <2>1, <2>2 DEF Ended
  <2>3. CASE client' = "page"
    <3>1. /\ ReadsLeft' = (Pages - page) * Attempts - (attempt + 1)
          /\ ReadsLeft = (Pages - page) * Attempts - attempt
      BY <2>1, <2>3 DEF ReadsLeft
    <3>2. (Pages - page) * Attempts \in Nat
      <4>1. Pages - page \in Nat /\ Pages - page > 0
        BY <1>0, <2>1
      <4> QED BY <4>1, ReadsOfPages
    <3> QED BY <1>0, <3>1, <3>2
  <2> QED BY <2>1, <2>2, <2>3
<1>7. CASE LinkFails
  <2>1. client' \in Ended /\ client \notin Ended
    BY <1>7 DEF LinkFails, Ended
  <2> QED BY <1>0, <1>1, <1>2, <2>1
<1>8. CASE ConsoleHears \/ DamagePage \/ LoseControl \/ UNCHANGED vars
  <2>1. UNCHANGED <<memory, page, client, attempt>>
    BY <1>8 DEF ConsoleHears, DamagePage, LoseControl, vars, download, dump
  <2>2. ReadsLeft' = ReadsLeft
    BY <2>1 DEF ReadsLeft, Pages
  <2> QED BY <1>0, <1>3, <1>4, <1>5, <1>6, <2>2 DEF ClientStep
<1> QED BY <1>0, <1>3, <1>4, <1>5, <1>6, <1>7, <1>8 DEF Next, ClientStep

(* A download cannot go on for ever, whatever the line and the console do:
   each step of the client uses up one of a number of reads the size of the
   dump bounds, and nothing gives any back. *)
THEOREM ReadsBounded ==
    Safe => [][/\ ReadsLeft' <= ReadsLeft
               /\ ClientStep => ReadsLeft' < ReadsLeft]_vars
<1>1. IInv => ReadsLeft \in Nat
  BY ReadsLeftType
<1>2. IInv /\ (ReadsLeft \in Nat)' /\ [Next]_vars =>
          /\ ReadsLeft' <= ReadsLeft
          /\ ClientStep => ReadsLeft' < ReadsLeft
  BY ReadsLeftStep
<1> QED BY <1>1, <1>2, Invariance, PTL DEF Safe
=============================================================================
