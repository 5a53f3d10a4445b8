------------------------------- MODULE DavisWire -------------------------------
(***************************************************************************)
(* The exchange of DavisProtocolClient with a console: wake_up and send    *)
(* with their retries, answers that are late or short, stray and lost      *)
(* bytes, on a link that may stay open from one call to the next.  A call  *)
(* is one transaction:                                                     *)
(*   "get"    a command acknowledged and followed by a checked block,      *)
(*   "extra"  the same, as one of the reads a poll can do without (hilows,  *)
(*            archive period, archives, rain collector): get_current_data   *)
(*            logs its failure and goes on with the link,                   *)
(*   "set"    a command that is acknowledged,                              *)
(*   "write"  a command and a block that are both acknowledged.            *)
(*                                                                         *)
(* What the console sends is a sequence of bytes, in order, of which any   *)
(* number may still be on the way; each carries the call it answers, which *)
(* only the properties look at.  The data of a block are their positions.  *)
(***************************************************************************)
EXTENDS Naturals, Sequences

CONSTANTS
    DataLen,    \* bytes of the block that answers a "get"
    Tries,      \* of wake_up and of send (3)
    MaxCalls,   \* bound on the calls
    MaxStray,   \* bound on stray bytes
    MaxLost,    \* bound on lost bytes
    MaxDeaf     \* bound on writes the console misses

ASSUME WireAssumption ==
    /\ DataLen \in Nat \ {0} /\ Tries \in Nat \ {0}
    /\ MaxCalls \in Nat /\ MaxStray \in Nat /\ MaxLost \in Nat
    /\ MaxDeaf \in Nat

VARIABLES
    call,      \* the number of the current or last call
    kind,      \* its kind
    pc,        \* where its transaction is
    try,       \* retries of wake_up or send so far
    input,     \* bytes on their way to the client or in its input buffer
    output,    \* writes on their way to the console
    console,   \* the call whose block the console waits for; 0: at its prompt
    carried,   \* the calls whose command, or block, the console has obeyed
    kept,      \* history: has a call failed on the link since it was opened?
    stray, lost, deaf  \* what went wrong on the line so far

line == <<stray, lost, deaf>>
vars == <<call, kind, pc, try, input, output, console, carried, kept, line>>

Kinds == {"get", "extra", "set", "write"}
Asking == {"get", "extra"}
Steps == {"idle", "wake", "wakeAck", "skip", "send", "ack", "block", "blockAck",
          "data"}

(* The console waits for a block that can no longer be one. *)
Spoiled == MaxCalls + 1

Byte(k, c) == [kind |-> k, call |-> c, pos |-> 0]
WakeAck(c) == <<Byte("lf", c), Byte("cr", c)>>
Data(c)    == [i \in 1..DataLen |-> [kind |-> "data", call |-> c, pos |-> i]]

Init ==
    /\ call = 0 /\ kind = "set" /\ pc = "idle" /\ try = 0
    /\ input = <<>> /\ output = <<>>
    /\ console = 0 /\ carried = {} /\ kept = FALSE
    /\ stray = 0 /\ lost = 0 /\ deaf = 0

-----------------------------------------------------------------------------
(* The console and the line: external. *)

(* What the console answers to a write, and what it waits for then.  A write
   it does not expect is not understood and may have no answer; one that is
   taken for the block ends the wait for it or leaves it spoiled. *)
Obey(w) ==
    \/ /\ w.kind = "wake" /\ console = 0
       /\ input' = input \o WakeAck(w.call)
       /\ UNCHANGED <<console, carried>>
    \/ /\ w.kind \in Asking /\ console = 0
       /\ input' = input \o <<Byte("ack", w.call)>> \o Data(w.call)
       /\ carried' = carried \cup {w.call}
       /\ UNCHANGED console
    \/ /\ w.kind = "set" /\ console = 0
       /\ input' = Append(input, Byte("ack", w.call))
       /\ carried' = carried \cup {w.call}
       /\ UNCHANGED console
    \/ /\ w.kind = "write" /\ console = 0
       /\ input' = Append(input, Byte("ack", w.call))
       /\ console' = w.call
       /\ UNCHANGED carried
    \/ /\ w.kind = "block" /\ console = w.call
       /\ input' = Append(input, Byte("ack", w.call))
       /\ console' = 0
       /\ carried' = carried \cup {w.call}
    \/ /\ IF w.kind = "block" THEN console # w.call ELSE console # 0
       /\ \E answer \in {<<>>, <<Byte("nack", w.call)>>} : input' = input \o answer
       /\ console' \in IF console = 0 THEN {0} ELSE {0, Spoiled}
       /\ UNCHANGED carried

ConsoleHears ==
    /\ output # <<>>
    /\ Obey(Head(output))
    /\ output' = Tail(output)
    /\ UNCHANGED <<call, kind, pc, try, kept, line>>

StrayByte ==
    /\ stray < MaxStray
    /\ stray' = stray + 1
    /\ input' = Append(input, Byte("stray", call))
    /\ UNCHANGED <<call, kind, pc, try, output, console, carried, kept, lost, deaf>>

LoseByte ==
    /\ lost < MaxLost
    /\ \E i \in 1..Len(input) :
          input' = SubSeq(input, 1, i - 1) \o SubSeq(input, i + 1, Len(input))
    /\ lost' = lost + 1
    /\ UNCHANGED <<call, kind, pc, try, output, console, carried, kept, stray, deaf>>

(* A console that sleeps misses a write; one that waits for a block does not
   sleep. *)
LoseWrite ==
    /\ deaf < MaxDeaf /\ output # <<>> /\ Head(output).kind # "block"
    /\ output' = Tail(output)
    /\ deaf' = deaf + 1
    /\ UNCHANGED <<call, kind, pc, try, input, console, carried, kept, stray, lost>>

-----------------------------------------------------------------------------
(* The client *)

Write(k) == output' = Append(output, [kind |-> k, call |-> call])

(* link.read(n): n bytes, or at its timeout those that have arrived. *)
Read(n) ==
    {SubSeq(input, 1, k) : k \in {i \in 0..n : i <= Len(input)}}

Drop(bytes) == input' = SubSeq(input, Len(bytes) + 1, Len(input))

Is(bytes, kinds) ==
    Len(bytes) = Len(kinds) /\ \A i \in 1..Len(kinds) : bytes[i].kind = kinds[i]

Goto(step) == pc' = step /\ try' = 0

(* Mutant of Raise: the link stays open, with what is on the way, whatever
   failed. *)
RaiseKeepsLink(bytes) ==
    /\ pc' = "idle" /\ try' = 0
    /\ Drop(bytes)
    /\ UNCHANGED <<output, kept>>

(* The exception of a transaction.  That of an "extra" get_current_data logs
   and goes on; any other ends the job, _execute_owned closes the link, and
   what is on the way is gone. *)
Raise(bytes) ==
    /\ pc' = "idle" /\ try' = 0
    /\ IF kind = "extra"
       THEN Drop(bytes) /\ kept' = TRUE /\ UNCHANGED output
       ELSE input' = <<>> /\ output' = <<>> /\ kept' = FALSE

(* Between two calls a link that is not persistent is closed. *)
CloseLink ==
    /\ pc = "idle"
    /\ input' = <<>> /\ output' = <<>> /\ kept' = FALSE
    /\ UNCHANGED <<call, kind, pc, try, console, carried, line>>

(* The retry decorator: again from step, or after the last try the exception. *)
RetryOrRaise(step, bytes) ==
    IF try + 1 < Tries
    THEN pc' = step /\ try' = try + 1 /\ Drop(bytes) /\ UNCHANGED <<output, kept>>
    ELSE Raise(bytes)

(* Mutant of StartCall: a console used just before is not woken up. *)
StartCallAwake ==
    /\ pc = "idle" /\ call < MaxCalls
    /\ call' = call + 1
    /\ kind' \in Kinds
    /\ Goto(IF call = 0 THEN "wake" ELSE "send")
    /\ UNCHANGED <<input, output, console, carried, kept, line>>

StartCall ==
    /\ pc = "idle" /\ call < MaxCalls
    /\ call' = call + 1
    /\ kind' \in Kinds
    /\ Goto("wake")
    /\ UNCHANGED <<input, output, console, carried, kept, line>>

WakeUp ==
    /\ pc = "wake"
    /\ Write("wake")
    /\ pc' = "wakeAck"
    /\ UNCHANGED <<call, kind, try, input, console, carried, kept, line>>

WakeAnswer ==
    /\ pc = "wakeAck"
    /\ \E bytes \in Read(2) :
          /\ IF Is(bytes, <<"lf", "cr">>)
             THEN Goto("send")
             ELSE pc' = "skip" /\ UNCHANGED try
          /\ Drop(bytes)
    /\ UNCHANGED <<call, kind, output, console, carried, kept, line>>

(* "A stray byte can shift the buffer by one; consume it and retry." *)
SkipStray ==
    /\ pc = "skip"
    /\ \E bytes \in Read(1) : RetryOrRaise("wake", bytes)
    /\ UNCHANGED <<call, kind, console, carried, line>>

Send ==
    /\ pc = "send"
    /\ Write(kind)
    /\ pc' = "ack"
    /\ UNCHANGED <<call, kind, try, input, console, carried, kept, line>>

(* What follows the acknowledged command. *)
After == [get |-> "data", extra |-> "data", set |-> "idle", write |-> "block"]

SendAnswer ==
    /\ pc = "ack"
    /\ \E bytes \in Read(1) :
          IF Is(bytes, <<"ack">>)
          THEN Goto(After[kind]) /\ Drop(bytes) /\ UNCHANGED <<output, kept>>
          ELSE RetryOrRaise("send", bytes)
    /\ UNCHANGED <<call, kind, console, carried, line>>

SendBlock ==
    /\ pc = "block"
    /\ Write("block")
    /\ pc' = "blockAck"
    /\ UNCHANGED <<call, kind, try, input, console, carried, kept, line>>

BlockAnswer ==
    /\ pc = "blockAck"
    /\ \E bytes \in Read(1) :
          IF Is(bytes, <<"ack">>)
          THEN Goto("idle") /\ Drop(bytes) /\ UNCHANGED <<output, kept>>
          ELSE RetryOrRaise("block", bytes)
    /\ UNCHANGED <<call, kind, console, carried, line>>

(* validate_crc_frame: the whole block of one answer. *)
Valid(bytes) ==
    /\ Len(bytes) = DataLen
    /\ \E c \in {bytes[i].call : i \in 1..DataLen} : bytes = Data(c)

ReadData ==
    /\ pc = "data"
    /\ \E bytes \in Read(DataLen) :
          IF Valid(bytes)
          THEN Goto("idle") /\ Drop(bytes) /\ UNCHANGED <<output, kept>>
          ELSE Raise(bytes)
    /\ UNCHANGED <<call, kind, console, carried, line>>

ClientStep ==
    \/ WakeUp \/ WakeAnswer \/ SkipStray \/ Send \/ SendAnswer
    \/ SendBlock \/ BlockAnswer \/ ReadData

Next ==
    \/ ConsoleHears \/ StrayByte \/ LoseByte \/ LoseWrite
    \/ StartCall \/ ClientStep \/ CloseLink

Spec == Init /\ [][Next]_vars

-----------------------------------------------------------------------------
(* Every variable has its type; nothing is retried more often than Tries. *)
TypeOK ==
    /\ call \in 0..MaxCalls /\ kind \in Kinds
    /\ pc \in Steps /\ try \in 0..Tries - 1
    /\ \A i \in 1..Len(input) : input[i].call \in 0..MaxCalls
    /\ \A i \in 1..Len(output) : output[i].call \in 1..MaxCalls
    /\ console \in 0..Spoiled /\ carried \subseteq 1..MaxCalls /\ kept \in BOOLEAN

ComesNext(kinds) ==
    Len(input) >= Len(kinds) /\ Is(SubSeq(input, 1, Len(kinds)), kinds)

(* "Send a command, optionally requiring an exact ACK": although commands are
   sent again and bytes come late, get lost or are not the console's, the
   acknowledgement a command is answered with is one of this call, and for a
   "get" or "set" the console has obeyed it - as long as no failure of an
   "extra" was passed over on this link. *)
AckIsOwn ==
    ~kept /\ pc = "ack" /\ ComesNext(<<"ack">>) =>
        input[1].call = call /\ (kind = "write" \/ call \in carried)

(* A block with a right CRC is the answer to this call's command, not to an
   earlier one that asked for a block of the same size, under the same
   condition. *)
AnswerIsOwn ==
    ~kept /\ pc = "data" /\ Len(input) >= DataLen /\ Valid(SubSeq(input, 1, DataLen)) =>
        input[1].call = call

(* When a "write" is about to report success, its block has been stored, or is
   on its way to a console that waits for it, under the same condition. *)
WriteConfirmed ==
    ~kept /\ pc = "blockAck" /\ ComesNext(<<"ack">>) =>
        \/ call \in carried
        \/ console = call /\ output # <<>> /\ Head(output).kind = "block"
=============================================================================
