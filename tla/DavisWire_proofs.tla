--------------------------- MODULE DavisWire_proofs ---------------------------
(***************************************************************************)
(* Proofs about the wire exchange, for any number of calls and faults, any *)
(* size of block and, where a theorem does not say otherwise, any number   *)
(* of tries.                                                               *)
(***************************************************************************)
EXTENDS DavisWire, Integers, SequenceTheorems, FiniteSetTheorems, TLAPS

Received == [kind : {"lf", "cr", "ack", "nack", "data", "stray"},
             call : 0..MaxCalls, pos : 0..DataLen]
Written  == [kind : {"wake", "block"} \cup Kinds, call : 1..MaxCalls]

TypeInv ==
    /\ TypeOK
    /\ input \in Seq(Received) /\ output \in Seq(Written)
    /\ stray \in Nat /\ lost \in Nat /\ deaf \in Nat
    /\ console \in 0..call \cup {Spoiled}
    /\ \A i \in 1..Len(output) : output[i].call <= call
    /\ pc # "idle" => call > 0
    /\ pc \in {"block", "blockAck"} => kind = "write"
    /\ pc = "data" => kind \in Asking

(* A call takes two turns on the line, its wake-up and the rest.  What is
   not understood may be heard or seen at any time. *)
Free    == {"nack", "stray"}
Turn(b) == IF b.kind \in {"wake", "lf", "cr"} THEN 2 * b.call ELSE 2 * b.call + 1

WakeSteps  == {"wake", "wakeAck", "skip"}
SendSteps  == {"send", "ack"}
WriteSteps == {"block", "blockAck"}

FirstTurn ==
    IF pc \in WakeSteps THEN 2 * call - 1
    ELSE IF pc \in SendSteps THEN 2 * call ELSE 2 * call + 1
LastTurn == IF pc \in WakeSteps THEN 2 * call ELSE 2 * call + 1

Before(b, c) == b.kind \in Free \/ c.kind \in Free \/ Turn(b) <= Turn(c)

Sorted(s)         == \A i, j \in 1..Len(s) : i < j => Before(s[i], s[j])
AllBefore(s, t)   == \A i \in 1..Len(s), j \in 1..Len(t) : Before(s[i], t[j])
Within(s, lo, hi) ==
    \A i \in 1..Len(s) : s[i].kind \in Free \/ (lo <= Turn(s[i]) /\ Turn(s[i]) <= hi)

(* Answers come before writes, in the order of their turns; what is read
   belongs to the turn the client is in, or to the one before it while the
   console is being woken up. *)
InOrder ==
    /\ Sorted(input) /\ Sorted(output) /\ AllBefore(input, output)
    /\ Within(input, FirstTurn, LastTurn) /\ Within(output, FirstTurn, LastTurn)

(* What this call has put on the line. *)
OwnBytes ==
    /\ \A i \in 1..Len(output) : output[i].call = call =>
          \/ output[i].kind \in {"wake", kind}
          \/ output[i].kind = "block" /\ kind = "write" /\ pc \notin SendSteps
    /\ \A i \in 1..Len(input) : input[i].call = call /\ input[i].kind = "ack" =>
          kind = "write" \/ call \in carried

BlocksLast ==
    \A i, j \in 1..Len(output) :
        i < j /\ output[i].kind = "block" /\ output[i].call = call =>
            output[j].kind = "block"

(* A console that waits for this call's block has heard its last wake-up. *)
Expecting ==
    console = call /\ call > 0 =>
        /\ pc \notin WakeSteps
        /\ \A i \in 1..Len(output) : Turn(output[i]) = 2 * call + 1

(* Every second write of a command may be acknowledged at most: the one that
   the console waits for a block after is heard as something else.  Weighing
   acknowledgements double, they are never more than what was sent. *)
Of(s, k, c) == {i \in 1..Len(s) : s[i].kind = k /\ s[i].call = c}
Acks   == Cardinality(Of(input, "ack", call))
Writes == Cardinality(Of(output, "write", call))
Credit == IF console = call THEN 1 ELSE 0
Limit  == IF pc = "send" THEN try ELSE IF pc = "ack" THEN try + 1 ELSE Tries - 2

Weighed ==
    kind = "write" /\ call \notin carried /\ pc \in SendSteps \cup WriteSteps =>
        /\ 2 * Acks + Writes <= Limit + Credit
        /\ pc = "blockAck" =>
              \/ Of(output, "block", call) # {}
              \/ Of(output, "write", call) = {} /\ console # call

(* What holds as long as no failure was passed over on the link, and what
   always does. *)
Clean == TypeInv /\ InOrder /\ OwnBytes /\ BlocksLast /\ Expecting /\ Weighed
IInv  == TypeInv /\ (kept \/ Clean)

-----------------------------------------------------------------------------
(* t is what is left of s when elements, the first n among them, are gone. *)
Taken(s, t, n) ==
    \E f \in [1..Len(t) -> 1..Len(s)] :
        /\ \A i \in 1..Len(t) : t[i] = s[f[i]] /\ f[i] > n
        /\ \A i, j \in 1..Len(t) : i < j => f[i] < f[j]

LEMMA NoneTaken ==
    ASSUME NEW S, NEW s \in Seq(S)
    PROVE  Taken(s, s, 0)
<1> DEFINE f == [i \in 1..Len(s) |-> i]
<1>1. f \in [1..Len(s) -> 1..Len(s)]
  OBVIOUS
<1>2. \A i \in 1..Len(s) : f[i] = i
  OBVIOUS
<1> HIDE DEF f
<1>3. QED
  BY <1>1, <1>2 DEF Taken

LEMMA FrontTaken ==
    ASSUME NEW S, NEW s \in Seq(S), NEW k \in 0..Len(s)
    PROVE  LET t == SubSeq(s, k + 1, Len(s)) IN t \in Seq(S) /\ Taken(s, t, k)
<1> DEFINE t == SubSeq(s, k + 1, Len(s))
           f == [i \in 1..Len(t) |-> i + k]
<1>1. t \in Seq(S) /\ Len(t) = Len(s) - k /\ \A i \in 1..Len(t) : t[i] = s[i + k]
  BY SubSeqProperties
<1> HIDE DEF t
<1>2. f \in [1..Len(t) -> 1..Len(s)]
  BY <1>1
<1>3. \A i \in 1..Len(t) : f[i] = i + k
  OBVIOUS
<1>4. \A i \in 1..Len(t) : t[i] = s[f[i]] /\ f[i] > k
  BY <1>1, <1>3
<1>5. \A i, j \in 1..Len(t) : i < j => f[i] < f[j]
  BY <1>3
<1> HIDE DEF f
<1>6. Taken(s, t, k)
  BY <1>2, <1>4, <1>5 DEF Taken
<1>7. QED
  BY <1>1, <1>6 DEF t

LEMMA HeadTaken ==
    ASSUME NEW S, NEW s \in Seq(S), s # <<>>
    PROVE  Tail(s) \in Seq(S) /\ Taken(s, Tail(s), 1)
<1>1. 1 \in 0..Len(s)
  OBVIOUS
<1>2. Tail(s) = SubSeq(s, 1 + 1, Len(s))
  BY HeadTailProperties
<1>3. QED
  BY <1>1, <1>2, FrontTaken

LEMMA OneTaken ==
    ASSUME NEW S, NEW s \in Seq(S), NEW k \in 1..Len(s)
    PROVE  LET t == SubSeq(s, 1, k - 1) \o SubSeq(s, k + 1, Len(s))
           IN t \in Seq(S) /\ Taken(s, t, 0)
<1> DEFINE a == SubSeq(s, 1, k - 1)
           b == SubSeq(s, k + 1, Len(s))
           t == a \o b
           f == [i \in 1..Len(t) |-> IF i < k THEN i ELSE i + 1]
<1>1. a \in Seq(S) /\ Len(a) = k - 1 /\ \A i \in 1..k - 1 : a[i] = s[i]
  BY SubSeqProperties
<1>2. b \in Seq(S) /\ Len(b) = Len(s) - k /\ \A i \in 1..Len(s) - k : b[i] = s[i + k]
  BY SubSeqProperties
<1> HIDE DEF a, b
<1>3. /\ t \in Seq(S) /\ Len(t) = Len(s) - 1
      /\ \A i \in 1..Len(t) : t[i] = IF i < k THEN a[i] ELSE b[i - (k - 1)]
  BY <1>1, <1>2, ConcatProperties
<1> HIDE DEF t
<1>4. f \in [1..Len(t) -> 1..Len(s)]
  BY <1>3
<1>5. \A i \in 1..Len(t) : f[i] = IF i < k THEN i ELSE i + 1
  OBVIOUS
<1> HIDE DEF f
<1>6. ASSUME NEW i \in 1..Len(t) PROVE t[i] = s[f[i]] /\ f[i] > 0
  <2>1. CASE i < k
    BY <1>1, <1>3, <1>5, <2>1
  <2>2. CASE ~(i < k)
    <3>1. i - (k - 1) \in 1..Len(s) - k /\ i - (k - 1) + k = i + 1
      BY <1>3, <2>2
    <3>2. b[i - (k - 1)] = s[i + 1]
      BY <1>2, <3>1
    <3>3. QED
      BY <1>3, <1>5, <2>2, <3>2
  <2>3. QED
    BY <2>1, <2>2
<1>7. \A i, j \in 1..Len(t) : i < j => f[i] < f[j]
  BY <1>5
<1>8. Taken(s, t, 0)
  BY <1>4, <1>6, <1>7 DEF Taken
<1>9. QED
  BY <1>3, <1>8 DEF t, a, b

(* Taking away leaves the order of the rest. *)
LEMMA OrderLeft ==
    ASSUME NEW s \in Seq(Received), NEW t \in Seq(Written),
           NEW u \in Seq(Received), NEW v \in Seq(Written), NEW m \in Nat, NEW n \in Nat,
           Taken(s, u, m), Taken(t, v, n)
    PROVE  /\ Sorted(s) => Sorted(u)
           /\ Sorted(t) => Sorted(v)
           /\ AllBefore(s, t) => AllBefore(u, v)
           /\ \A lo, hi : Within(s, lo, hi) => Within(u, lo, hi)
           /\ \A lo, hi : Within(t, lo, hi) => Within(v, lo, hi)
<1>1. PICK f \in [1..Len(u) -> 1..Len(s)] :
        /\ \A i \in 1..Len(u) : u[i] = s[f[i]] /\ f[i] > m
        /\ \A i, j \in 1..Len(u) : i < j => f[i] < f[j]
  BY DEF Taken
<1>2. PICK g \in [1..Len(v) -> 1..Len(t)] :
        /\ \A i \in 1..Len(v) : v[i] = t[g[i]] /\ g[i] > n
        /\ \A i, j \in 1..Len(v) : i < j => g[i] < g[j]
  BY DEF Taken
<1>3. ASSUME Sorted(s) PROVE Sorted(u)
  <2>1. SUFFICES ASSUME NEW i \in 1..Len(u), NEW j \in 1..Len(u), i < j
                 PROVE  Before(u[i], u[j])
    BY DEF Sorted
  <2>2. f[i] \in 1..Len(s) /\ f[j] \in 1..Len(s) /\ f[i] < f[j]
    BY <2>1, <1>1
  <2>3. Before(s[f[i]], s[f[j]])
    BY <1>3, <2>2 DEF Sorted
  <2>4. QED
    BY <2>1, <2>3, <1>1
<1>4. ASSUME Sorted(t) PROVE Sorted(v)
  <2>1. SUFFICES ASSUME NEW i \in 1..Len(v), NEW j \in 1..Len(v), i < j
                 PROVE  Before(v[i], v[j])
    BY DEF Sorted
  <2>2. g[i] \in 1..Len(t) /\ g[j] \in 1..Len(t) /\ g[i] < g[j]
    BY <2>1, <1>2
  <2>3. Before(t[g[i]], t[g[j]])
    BY <1>4, <2>2 DEF Sorted
  <2>4. QED
    BY <2>1, <2>3, <1>2
<1>5. ASSUME AllBefore(s, t), NEW i \in 1..Len(u), NEW j \in 1..Len(v)
      PROVE  Before(u[i], v[j])
  <2>1. f[i] \in 1..Len(s) /\ g[j] \in 1..Len(t)
    BY <1>1, <1>2
  <2>2. Before(s[f[i]], t[g[j]])
    BY <1>5, <2>1 DEF AllBefore
  <2>3. QED
    BY <1>1, <1>2, <2>2
<1>6. \A lo, hi : Within(s, lo, hi) => Within(u, lo, hi)
  BY <1>1 DEF Within
<1>7. \A lo, hi : Within(t, lo, hi) => Within(v, lo, hi)
  BY <1>2 DEF Within
<1>8. AllBefore(s, t) => AllBefore(u, v)
  BY <1>5 DEF AllBefore
<1>9. QED
  BY <1>3, <1>4, <1>6, <1>7, <1>8

LEMMA CountFinite ==
    ASSUME NEW S, NEW s \in Seq(S), NEW k, NEW c
    PROVE  IsFiniteSet(Of(s, k, c)) /\ Cardinality(Of(s, k, c)) \in Nat
<1>1. IsFiniteSet(1..Len(s))
  BY FS_Interval
<1>2. Of(s, k, c) \in SUBSET (1..Len(s))
  BY DEF Of
<1>3. IsFiniteSet(Of(s, k, c))
  BY <1>1, <1>2, FS_Subset
<1>4. QED
  BY <1>3, FS_CardinalityType

(* Nor are there more of a kind than before, and fewer when the first is one
   of them and gone. *)
LEMMA CountLeft ==
    ASSUME NEW S, NEW s \in Seq(S), NEW T, NEW t \in Seq(T), NEW n \in Nat,
           Taken(s, t, n), NEW k, NEW c
    PROVE  /\ Cardinality(Of(t, k, c)) <= Cardinality(Of(s, k, c))
           /\ n > 0 /\ s # <<>> /\ s[1].kind = k /\ s[1].call = c =>
                 Cardinality(Of(t, k, c)) <= Cardinality(Of(s, k, c)) - 1
           /\ Of(s, k, c) = {} => Of(t, k, c) = {}
<1> DEFINE A == Of(t, k, c)
           B == Of(s, k, c)
<1>1. PICK f \in [1..Len(t) -> 1..Len(s)] :
        /\ \A i \in 1..Len(t) : t[i] = s[f[i]] /\ f[i] > n
        /\ \A i, j \in 1..Len(t) : i < j => f[i] < f[j]
  BY DEF Taken
<1> DEFINE g == [i \in A |-> f[i]]
           C == {i \in B : i > n}
<1>2. A \subseteq 1..Len(t) /\ B \subseteq 1..Len(s)
  BY DEF Of
<1>3. g \in [A -> C]
  BY <1>1 DEF Of
<1>4. \A i, j \in A : g[i] = g[j] => i = j
  <2>1. SUFFICES ASSUME NEW i \in A, NEW j \in A, i # j PROVE f[i] # f[j]
    OBVIOUS
  <2>2. i \in 1..Len(t) /\ j \in 1..Len(t)
    BY <1>2
  <2>3. i < j \/ j < i
    BY <2>1, <2>2
  <2>4. f[i] < f[j] \/ f[j] < f[i]
    BY <1>1, <2>2, <2>3
  <2>5. f[i] \in Nat /\ f[j] \in Nat
    BY <2>2
  <2>6. QED
    BY <2>4, <2>5
<1>5. g \in Injection(A, C)
  BY <1>3, <1>4 DEF Injection, IsInjective
<1>6. IsFiniteSet(B) /\ Cardinality(B) \in Nat
  BY CountFinite
<1>7. C \in SUBSET B
  OBVIOUS
<1>8. IsFiniteSet(C) /\ Cardinality(C) <= Cardinality(B)
  BY <1>6, <1>7, FS_Subset
<1>9. IsFiniteSet(A) /\ Cardinality(A) <= Cardinality(C)
  BY <1>5, <1>8, FS_Injection
<1>10. Cardinality(A) \in Nat /\ Cardinality(C) \in Nat
  BY <1>8, <1>9, FS_CardinalityType
<1>11. ASSUME n > 0, s # <<>>, s[1].kind = k, s[1].call = c
       PROVE  Cardinality(A) <= Cardinality(B) - 1
  <2>1. 1 \in B
    BY <1>11 DEF Of
  <2>2. C \in SUBSET (B \ {1})
    BY <1>11
  <2>3. IsFiniteSet(B \ {1}) /\ Cardinality(B \ {1}) = Cardinality(B) - 1
    BY <1>6, <2>1, FS_RemoveElement
  <2>4. Cardinality(C) <= Cardinality(B) - 1
    BY <2>2, <2>3, FS_Subset
  <2>5. QED
    BY <1>6, <1>9, <1>10, <2>4
<1>12. B = {} => A = {}
  BY <1>1 DEF Of
<1>13. Cardinality(A) <= Cardinality(B)
  BY <1>6, <1>8, <1>9, <1>10
<1>14. QED
  BY <1>11, <1>12, <1>13

(* Appended to. *)
LEMMA Joined ==
    ASSUME NEW S, NEW s \in Seq(S), NEW a \in Seq(S)
    PROVE  /\ s \o a \in Seq(S) /\ Len(s \o a) = Len(s) + Len(a)
           /\ \A i \in 1..Len(s) : (s \o a)[i] = s[i]
           /\ \A i \in 1..Len(s \o a) : i > Len(s) =>
                 i - Len(s) \in 1..Len(a) /\ (s \o a)[i] = a[i - Len(s)]
BY ConcatProperties

LEMMA CountJoined ==
    ASSUME NEW S, NEW s \in Seq(S), NEW a \in Seq(S), NEW k, NEW c,
           Of(a, k, c) = {}
    PROVE  Of(s \o a, k, c) = Of(s, k, c)
<1> DEFINE t == s \o a
<1>1. /\ Len(t) = Len(s) + Len(a)
      /\ \A i \in 1..Len(s) : t[i] = s[i]
      /\ \A i \in 1..Len(t) : i > Len(s) =>
            i - Len(s) \in 1..Len(a) /\ t[i] = a[i - Len(s)]
  BY Joined
<1> HIDE DEF t
<1>2. \A i \in 1..Len(a) : ~(a[i].kind = k /\ a[i].call = c)
  BY DEF Of
<1>3. \A i \in 1..Len(t) : i \in 1..Len(s) \/ i > Len(s)
  OBVIOUS
<1>4. Of(t, k, c) = Of(s, k, c)
  BY <1>1, <1>2, <1>3 DEF Of
<1>5. QED
  BY <1>4 DEF t

LEMMA CountAppended ==
    ASSUME NEW S, NEW s \in Seq(S), NEW b \in S, NEW k, NEW c
    PROVE  /\ Cardinality(Of(Append(s, b), k, c)) <= Cardinality(Of(s, k, c)) + 1
           /\ ~(b.kind = k /\ b.call = c) => Of(Append(s, b), k, c) = Of(s, k, c)
           /\ b.kind = k /\ b.call = c => Of(Append(s, b), k, c) # {}
<1> DEFINE t == Append(s, b)
<1>1. /\ t \in Seq(S) /\ Len(t) = Len(s) + 1 /\ t[Len(s) + 1] = b
      /\ \A i \in 1..Len(s) : t[i] = s[i]
  BY AppendProperties
<1> HIDE DEF t
<1>2. ~(b.kind = k /\ b.call = c) => Of(t, k, c) = Of(s, k, c)
  BY <1>1 DEF Of
<1>3. b.kind = k /\ b.call = c => Of(t, k, c) = Of(s, k, c) \cup {Len(s) + 1}
  BY <1>1 DEF Of
<1>4. IsFiniteSet(Of(s, k, c)) /\ Cardinality(Of(s, k, c)) \in Nat
  BY CountFinite
<1>5. Cardinality(Of(t, k, c)) <= Cardinality(Of(s, k, c)) + 1
  <2>1. CASE b.kind = k /\ b.call = c
    <3>1. Cardinality(Of(s, k, c) \cup {Len(s) + 1}) \in
             {Cardinality(Of(s, k, c)), Cardinality(Of(s, k, c)) + 1}
      BY <1>4, FS_AddElement
    <3>2. Cardinality(Of(t, k, c)) = Cardinality(Of(s, k, c) \cup {Len(s) + 1})
      BY <1>3, <2>1
    <3>3. QED
      BY <1>4, <3>1, <3>2
  <2>2. CASE ~(b.kind = k /\ b.call = c)
    BY <1>2, <1>4, <2>2
  <2>3. QED
    BY <2>1, <2>2
<1>6. QED
  BY <1>2, <1>3, <1>5 DEF t

-----------------------------------------------------------------------------
(* The constants' and the counters' types. *)
LEMMA WireTypes ==
    /\ DataLen \in Nat \ {0} /\ Tries \in Nat \ {0} /\ MaxCalls \in Nat
    /\ MaxStray \in Nat /\ MaxLost \in Nat /\ MaxDeaf \in Nat
BY WireAssumption

(* Bytes of one call, as both sides see them. *)
LEMMA TurnsOf ==
    /\ \A b \in Received \cup Written :
          /\ b.call \in 0..MaxCalls /\ Turn(b) \in Nat
          /\ Turn(b) = 2 * b.call \/ Turn(b) = 2 * b.call + 1
          /\ b.kind \in {"wake", "lf", "cr"} => Turn(b) = 2 * b.call
          /\ b.kind \notin {"wake", "lf", "cr"} => Turn(b) = 2 * b.call + 1
    /\ \A b \in Written : b.kind \notin Free
BY WireTypes DEF Received, Written, Turn, Free, Kinds

LEMMA CallsOf ==
    /\ \A s \in Seq(Received) : \A i \in 1..Len(s) : s[i].call \in 0..MaxCalls
    /\ \A s \in Seq(Written) : \A i \in 1..Len(s) : s[i].call \in 1..MaxCalls
<1>1. ASSUME NEW s \in Seq(Received), NEW i \in 1..Len(s)
      PROVE  s[i].call \in 0..MaxCalls
  <2>1. s[i] \in Received
    OBVIOUS
  <2>2. QED
    BY <2>1 DEF Received
<1>2. ASSUME NEW s \in Seq(Written), NEW i \in 1..Len(s)
      PROVE  s[i].call \in 1..MaxCalls
  <2>1. s[i] \in Written
    OBVIOUS
  <2>2. QED
    BY <2>1 DEF Written
<1>3. QED
  BY <1>1, <1>2

(* What link.read returns, and what is left then. *)
LEMMA Reads ==
    ASSUME input \in Seq(Received), NEW n \in Nat, NEW bytes \in Read(n)
    PROVE  /\ Len(bytes) \in 0..n /\ Len(bytes) <= Len(input)
           /\ \A i \in 1..Len(bytes) : bytes[i] = input[i]
           /\ Drop(bytes) => input' \in Seq(Received) /\ Taken(input, input', Len(bytes))
<1>1. PICK k \in 0..n : k <= Len(input) /\ bytes = SubSeq(input, 1, k)
  BY DEF Read
<1>2. \A i \in 1..k : input[i] \in Received
  BY <1>1
<1>3. /\ Len(bytes) = k
      /\ \A i \in 1..k : bytes[i] = input[i]
  <2>1. /\ Len(SubSeq(input, 1, k)) = IF 1 <= k THEN k - 1 + 1 ELSE 0
        /\ \A i \in 1..k - 1 + 1 : SubSeq(input, 1, k)[i] = input[1 + i - 1]
    BY <1>2, SubSeqProperties
  <2>2. QED
    BY <1>1, <2>1
<1>4. k \in 0..Len(input)
  BY <1>1
<1>5. Drop(bytes) => input' = SubSeq(input, k + 1, Len(input))
  BY <1>3 DEF Drop
<1>6. /\ SubSeq(input, k + 1, Len(input)) \in Seq(Received)
      /\ Taken(input, SubSeq(input, k + 1, Len(input)), k)
  BY <1>4, FrontTaken
<1>7. QED
  BY <1>1, <1>3, <1>4, <1>5, <1>6

-----------------------------------------------------------------------------
(* The types, whatever has failed on the link. *)

LEMMA TypedRead ==
    ASSUME TypeInv, NEW n \in Nat, NEW bytes \in Read(n), Drop(bytes),
           UNCHANGED <<call, kind, output, console, carried, line>>,
           pc' \in Steps, try' \in 0..Tries - 1, kept' \in BOOLEAN,
           pc' # "idle" => pc # "idle",
           pc' \in {"block", "blockAck"} => kind = "write",
           pc' = "data" => kind \in Asking
    PROVE  TypeInv'
<1>1. input' \in Seq(Received)
  BY Reads DEF TypeInv
<1>2. \A i \in 1..Len(input') : input'[i].call \in 0..MaxCalls
  BY <1>1, CallsOf
<1>3. TypeOK'
  BY <1>2 DEF TypeInv, TypeOK
<1>4. QED
  BY <1>1, <1>3 DEF TypeInv, line

LEMMA TypedEmpty ==
    ASSUME TypeInv, input' = <<>>, output' = <<>>, kept' = FALSE,
           UNCHANGED <<call, kind, console, carried, line>>,
           pc' = "idle", try' \in 0..Tries - 1
    PROVE  TypeInv'
<1>1. /\ \A i \in 1..Len(input') : input'[i].call \in 0..MaxCalls
      /\ \A i \in 1..Len(output') : output'[i].call \in 1..MaxCalls
      /\ \A i \in 1..Len(output') : output'[i].call <= call'
  OBVIOUS
<1>2. TypeOK'
  BY <1>1 DEF TypeInv, TypeOK, Steps
<1>3. input' \in Seq(Received) /\ output' \in Seq(Written)
  OBVIOUS
<1>4. QED
  BY <1>1, <1>2, <1>3 DEF TypeInv, line

LEMMA TypedRaise ==
    ASSUME TypeInv, NEW n \in Nat, NEW bytes \in Read(n), Raise(bytes),
           UNCHANGED <<call, kind, console, carried, line>>
    PROVE  TypeInv'
<1>1. pc' = "idle" /\ try' = 0 /\ "idle" \in Steps /\ 0 \in 0..Tries - 1
  BY WireTypes DEF Raise, Steps
<1>2. CASE kind = "extra"
  <2>1. Drop(bytes) /\ kept' = TRUE /\ output' = output
    BY <1>2 DEF Raise
  <2>2. QED
    BY <1>1, <2>1, TypedRead
<1>3. CASE kind # "extra"
  <2>1. input' = <<>> /\ output' = <<>> /\ kept' = FALSE
    BY <1>3 DEF Raise
  <2>2. QED
    BY <1>1, <2>1, TypedEmpty
<1>4. QED
  BY <1>2, <1>3

LEMMA TypedRetry ==
    ASSUME TypeInv, NEW step, NEW n \in Nat, NEW bytes \in Read(n),
           RetryOrRaise(step, bytes), UNCHANGED <<call, kind, console, carried, line>>,
           \/ pc = "skip" /\ step = "wake"
           \/ pc = "ack" /\ step = "send"
           \/ pc = "blockAck" /\ step = "block"
    PROVE  TypeInv'
<1>1. CASE try + 1 < Tries
  <2>1. /\ pc' = step /\ try' = try + 1 /\ Drop(bytes)
        /\ output' = output /\ kept' = kept
    BY <1>1 DEF RetryOrRaise
  <2>2. try' \in 0..Tries - 1 /\ pc' \in Steps
    BY <1>1, <2>1, WireTypes DEF TypeInv, TypeOK, Steps
  <2>3. pc' = "block" => kind = "write"
    BY <2>1 DEF TypeInv
  <2>4. kept' \in BOOLEAN
    BY <2>1 DEF TypeInv, TypeOK
  <2>5. QED
    BY <2>1, <2>2, <2>3, <2>4, TypedRead
<1>2. CASE ~(try + 1 < Tries)
  <2>1. Raise(bytes)
    BY <1>2 DEF RetryOrRaise
  <2>2. QED
    BY <2>1, TypedRaise
<1>3. QED
  BY <1>1, <1>2

LEMMA TypedWrite ==
    ASSUME TypeInv, NEW k \in {"wake", "block"} \cup Kinds, Write(k), pc # "idle",
           UNCHANGED <<call, kind, try, input, console, carried, kept, line>>,
           pc' \in Steps, pc' \in {"block", "blockAck"} => kind = "write",
           pc' # "data"
    PROVE  TypeInv'
<1> DEFINE b == [kind |-> k, call |-> call]
<1>1. b \in Written /\ b.call = call /\ output' = Append(output, b)
  BY WireTypes DEF TypeInv, TypeOK, Written, Write
<1> HIDE DEF b
<1>2. /\ output' \in Seq(Written) /\ Len(output') = Len(output) + 1
      /\ output'[Len(output) + 1] = b
      /\ \A i \in 1..Len(output) : output'[i] = output[i]
      /\ \A i \in 1..Len(output') : i \in 1..Len(output) \/ i = Len(output) + 1
  BY <1>1, AppendProperties DEF TypeInv
<1>3. \A i \in 1..Len(output') : output'[i].call \in 1..MaxCalls
  BY <1>2, CallsOf
<1>4. \A i \in 1..Len(output') : output'[i].call <= call'
  BY <1>1, <1>2, WireTypes DEF TypeInv, TypeOK
<1>5. TypeOK'
  BY <1>3 DEF TypeInv, TypeOK
<1>6. QED
  BY <1>2, <1>4, <1>5 DEF TypeInv, line

(* The console hears the first write, or misses it. *)
LEMMA TypedHears ==
    ASSUME TypeInv, output # <<>>, output' = Tail(output), input' \in Seq(Received),
           console' \in {0, console, Head(output).call, Spoiled},
           carried' \subseteq 1..MaxCalls, UNCHANGED <<call, kind, pc, try, kept>>,
           stray' \in Nat, lost' \in Nat, deaf' \in Nat
    PROVE  TypeInv'
<1>1. output \in Seq(Written) /\ output' \in Seq(Written) /\ Taken(output, output', 1)
  BY HeadTaken DEF TypeInv
<1>2. PICK g \in [1..Len(output') -> 1..Len(output)] :
        \A i \in 1..Len(output') : output'[i] = output[g[i]]
  BY <1>1 DEF Taken
<1>3. \A i \in 1..Len(output') : output'[i].call <= call
  <2> SUFFICES ASSUME NEW i \in 1..Len(output') PROVE output'[i].call <= call
    OBVIOUS
  <2>1. g[i] \in 1..Len(output)
    OBVIOUS
  <2>2. QED
    BY <1>2, <2>1 DEF TypeInv
<1>4. \A i \in 1..Len(input') : input'[i].call \in 0..MaxCalls
  BY CallsOf
<1>5. \A i \in 1..Len(output') : output'[i].call \in 1..MaxCalls
  BY <1>1, CallsOf
<1>6. Head(output).call \in 0..call
  <2>1. Head(output) = output[1] /\ 1 \in 1..Len(output)
    BY <1>1
  <2>2. output[1].call \in 1..MaxCalls /\ output[1].call <= call /\ call \in Nat
    BY <1>1, <2>1, CallsOf, WireTypes DEF TypeInv, TypeOK
  <2>3. QED
    BY <2>1, <2>2, WireTypes
<1>7. console' \in 0..call \cup {Spoiled}
  BY <1>6, WireTypes DEF TypeInv, TypeOK
<1>8. console' \in 0..Spoiled
  BY <1>7, WireTypes DEF TypeInv, TypeOK, Spoiled
<1>9. TypeOK'
  BY <1>4, <1>5, <1>8 DEF TypeInv, TypeOK, Spoiled
<1>10. QED
  BY <1>1, <1>3, <1>7, <1>9 DEF TypeInv

(* What the console answers is made of bytes it may send. *)
LEMMA AnswersOf ==
    ASSUME NEW c \in 0..MaxCalls
    PROVE  /\ \A k \in {"lf", "cr", "ack", "nack", "stray"} :
                 /\ Byte(k, c) \in Received
                 /\ Byte(k, c).kind = k /\ Byte(k, c).call = c
           /\ Data(c) \in Seq(Received)
<1>1. \A k \in {"lf", "cr", "ack", "nack", "stray"} :
          /\ Byte(k, c) \in Received
          /\ Byte(k, c).kind = k /\ Byte(k, c).call = c
  BY WireTypes DEF Byte, Received
<1>2. \A i \in 1..DataLen : [kind |-> "data", call |-> c, pos |-> i] \in Received
  BY WireTypes DEF Received
<1>3. QED
  BY <1>1, <1>2, WireTypes DEF Data

LEMMA TypedObey ==
    ASSUME TypeInv, ConsoleHears
    PROVE  TypeInv'
<1> DEFINE w == Head(output)
<1>1. /\ output # <<>> /\ output' = Tail(output) /\ output \in Seq(Written) /\ Obey(w)
      /\ input \in Seq(Received) /\ UNCHANGED <<call, kind, pc, try, kept, line>>
  BY DEF ConsoleHears, TypeInv
<1>2. w \in Written
  BY <1>1
<1> HIDE DEF w
<1>3. w.call \in 1..MaxCalls /\ w.call \in 0..MaxCalls
  BY <1>2, WireTypes DEF Written
<1>4. /\ \A k \in {"lf", "cr", "ack", "nack", "stray"} : Byte(k, w.call) \in Received
      /\ Data(w.call) \in Seq(Received)
  BY <1>3, AnswersOf
<1>5. input' \in Seq(Received)
  <2>1. WakeAck(w.call) \in Seq(Received)
    BY <1>4 DEF WakeAck
  <2>2. input \o WakeAck(w.call) \in Seq(Received)
    BY <1>1, <2>1, ConcatProperties
  <2>3. <<Byte("ack", w.call)>> \in Seq(Received) /\ <<Byte("nack", w.call)>> \in Seq(Received)
    BY <1>4
  <2>4. input \o <<Byte("ack", w.call)>> \in Seq(Received)
    BY <1>1, <2>3, ConcatProperties
  <2>5. (input \o <<Byte("ack", w.call)>>) \o Data(w.call) \in Seq(Received)
    BY <1>4, <2>4, ConcatProperties
  <2>6. Append(input, Byte("ack", w.call)) \in Seq(Received)
    BY <1>1, <1>4
  <2>7. input \o <<Byte("nack", w.call)>> \in Seq(Received) /\ input \o <<>> \in Seq(Received)
    BY <1>1, <2>3, ConcatProperties
  <2>8. QED
    BY <1>1, <2>2, <2>5, <2>6, <2>7 DEF Obey
<1>6. console' \in {0, console, w.call, Spoiled}
  BY <1>1 DEF Obey
<1>7. carried' \subseteq 1..MaxCalls
  BY <1>1, <1>3 DEF Obey, TypeInv, TypeOK
<1>8. stray' \in Nat /\ lost' \in Nat /\ deaf' \in Nat
  BY <1>1 DEF TypeInv, line
<1>9. QED
  BY <1>1, <1>5, <1>6, <1>7, <1>8, TypedHears DEF w

LEMMA TypedClient ==
    ASSUME TypeInv, ClientStep
    PROVE  TypeInv'
<1>1. CASE WakeUp
  BY <1>1, TypedWrite DEF WakeUp, Steps
<1>2. CASE WakeAnswer
  <2>1. PICK bytes \in Read(2) :
          /\ IF Is(bytes, <<"lf", "cr">>) THEN Goto("send") ELSE pc' = "skip" /\ UNCHANGED try
          /\ Drop(bytes)
    BY <1>2 DEF WakeAnswer
  <2>2. pc = "wakeAck" /\ UNCHANGED <<call, kind, output, console, carried, kept, line>>
    BY <1>2 DEF WakeAnswer
  <2>3. pc' \in {"send", "skip"} /\ try' \in 0..Tries - 1
    BY <2>1, WireTypes DEF Goto, TypeInv, TypeOK
  <2>4. kept' \in BOOLEAN
    BY <2>2 DEF TypeInv, TypeOK
  <2>5. pc' \in Steps
    BY <2>3 DEF Steps
  <2>6. QED
    BY <2>1, <2>2, <2>3, <2>4, <2>5, TypedRead
<1>3. CASE SkipStray
  BY <1>3, TypedRetry DEF SkipStray
<1>4. CASE Send
  <2>1. kind \in {"wake", "block"} \cup Kinds
    BY DEF TypeInv, TypeOK
  <2>2. QED
    BY <1>4, <2>1, TypedWrite DEF Send, Steps
<1>5. CASE SendAnswer
  <2>1. PICK bytes \in Read(1) :
          IF Is(bytes, <<"ack">>)
          THEN Goto(After[kind]) /\ Drop(bytes) /\ UNCHANGED <<output, kept>>
          ELSE RetryOrRaise("send", bytes)
    BY <1>5 DEF SendAnswer
  <2>2. pc = "ack" /\ UNCHANGED <<call, kind, console, carried, line>>
    BY <1>5 DEF SendAnswer
  <2>3. CASE Is(bytes, <<"ack">>)
    <3>1. /\ pc' = After[kind] /\ try' = 0 /\ Drop(bytes)
          /\ output' = output /\ kept' = kept /\ kind \in Kinds
      BY <2>1, <2>3 DEF Goto, TypeInv, TypeOK
    <3>2. /\ pc' \in {"data", "idle", "block"}
          /\ pc' = "data" => kind \in Asking
          /\ pc' = "block" => kind = "write"
      BY <3>1 DEF After, Kinds, Asking
    <3>3. try' \in 0..Tries - 1 /\ kept' \in BOOLEAN /\ pc' \in Steps
      BY <3>1, <3>2, WireTypes DEF TypeInv, TypeOK, Steps
    <3>4. QED
      BY <2>2, <3>1, <3>2, <3>3, TypedRead
  <2>4. CASE ~Is(bytes, <<"ack">>)
    BY <2>1, <2>2, <2>4, TypedRetry
  <2>5. QED
    BY <2>3, <2>4
<1>6. CASE SendBlock
  BY <1>6, TypedWrite DEF SendBlock, Steps, TypeInv
<1>7. CASE BlockAnswer
  <2>1. PICK bytes \in Read(1) :
          IF Is(bytes, <<"ack">>)
          THEN Goto("idle") /\ Drop(bytes) /\ UNCHANGED <<output, kept>>
          ELSE RetryOrRaise("block", bytes)
    BY <1>7 DEF BlockAnswer
  <2>2. pc = "blockAck" /\ UNCHANGED <<call, kind, console, carried, line>>
    BY <1>7 DEF BlockAnswer
  <2>3. 0 \in 0..Tries - 1 /\ kept \in BOOLEAN /\ "idle" \in Steps
    BY WireTypes DEF TypeInv, TypeOK, Steps
  <2>4. CASE Is(bytes, <<"ack">>)
    BY <2>1, <2>2, <2>3, <2>4, TypedRead DEF Goto
  <2>5. CASE ~Is(bytes, <<"ack">>)
    BY <2>1, <2>2, <2>5, TypedRetry
  <2>6. QED
    BY <2>4, <2>5
<1>8. CASE ReadData
  <2>1. PICK bytes \in Read(DataLen) :
          IF Valid(bytes)
          THEN Goto("idle") /\ Drop(bytes) /\ UNCHANGED <<output, kept>>
          ELSE Raise(bytes)
    BY <1>8 DEF ReadData
  <2>2. UNCHANGED <<call, kind, console, carried, line>>
    BY <1>8 DEF ReadData
  <2>3. 0 \in 0..Tries - 1 /\ kept \in BOOLEAN /\ "idle" \in Steps /\ DataLen \in Nat
    BY WireTypes DEF TypeInv, TypeOK, Steps
  <2>4. CASE Valid(bytes)
    BY <2>1, <2>2, <2>3, <2>4, TypedRead DEF Goto
  <2>5. CASE ~Valid(bytes)
    BY <2>1, <2>2, <2>3, <2>5, TypedRaise
  <2>6. QED
    BY <2>4, <2>5
<1>9. QED
  BY <1>1, <1>2, <1>3, <1>4, <1>5, <1>6, <1>7, <1>8 DEF ClientStep

LEMMA Typed == TypeInv /\ [Next]_vars => TypeInv'
<1> SUFFICES ASSUME TypeInv, [Next]_vars PROVE TypeInv'
  OBVIOUS
<1>1. CASE StrayByte
  <2>1. /\ stray' = stray + 1 /\ input' = Append(input, Byte("stray", call))
        /\ UNCHANGED <<call, kind, pc, try, output, console, carried, kept, lost, deaf>>
    BY <1>1 DEF StrayByte
  <2>2. Byte("stray", call) \in Received
    BY AnswersOf DEF TypeInv, TypeOK
  <2>3. input' \in Seq(Received)
    BY <2>1, <2>2 DEF TypeInv
  <2>4. \A i \in 1..Len(input') : input'[i].call \in 0..MaxCalls
    BY <2>3, CallsOf
  <2>5. TypeOK'
    BY <2>1, <2>4 DEF TypeInv, TypeOK
  <2>6. QED
    BY <2>1, <2>3, <2>5 DEF TypeInv
<1>2. CASE LoseByte
  <2>1. PICK k \in 1..Len(input) :
          input' = SubSeq(input, 1, k - 1) \o SubSeq(input, k + 1, Len(input))
    BY <1>2 DEF LoseByte
  <2>2. /\ lost' = lost + 1
        /\ UNCHANGED <<call, kind, pc, try, output, console, carried, kept, stray, deaf>>
    BY <1>2 DEF LoseByte
  <2>3. input' \in Seq(Received)
    BY <2>1, OneTaken DEF TypeInv
  <2>4. \A i \in 1..Len(input') : input'[i].call \in 0..MaxCalls
    BY <2>3, CallsOf
  <2>5. TypeOK'
    BY <2>2, <2>4 DEF TypeInv, TypeOK
  <2>6. QED
    BY <2>2, <2>3, <2>5 DEF TypeInv
<1>3. CASE LoseWrite
  <2>1. /\ output # <<>> /\ output' = Tail(output) /\ deaf' = deaf + 1
        /\ UNCHANGED <<call, kind, pc, try, input, console, carried, kept, stray, lost>>
    BY <1>3 DEF LoseWrite
  <2>2. /\ input' \in Seq(Received) /\ carried' \subseteq 1..MaxCalls
        /\ stray' \in Nat /\ lost' \in Nat /\ deaf' \in Nat
    BY <2>1 DEF TypeInv, TypeOK
  <2>3. QED
    BY <2>1, <2>2, TypedHears
<1>4. CASE StartCall
  <2>1. /\ pc = "idle" /\ call \in Nat /\ call < MaxCalls /\ call' = call + 1
        /\ kind' \in Kinds /\ pc' = "wake" /\ try' = 0
        /\ UNCHANGED <<input, output, console, carried, kept, line>>
    BY <1>4, WireTypes DEF StartCall, Goto, TypeInv, TypeOK
  <2>2. TypeOK'
    BY <2>1, WireTypes DEF TypeInv, TypeOK, Steps
  <2>3. console' \in 0..call' \cup {Spoiled}
    BY <2>1 DEF TypeInv
  <2>4. \A i \in 1..Len(output') : output'[i].call <= call'
    BY <2>1, WireTypes DEF TypeInv, TypeOK
  <2>5. QED
    BY <2>1, <2>2, <2>3, <2>4 DEF TypeInv, line
<1>5. CASE CloseLink
  <2>1. /\ input' = <<>> /\ output' = <<>> /\ kept' = FALSE
        /\ UNCHANGED <<call, kind, pc, try, console, carried, line>>
    BY <1>5 DEF CloseLink
  <2>2. pc \in Steps /\ try \in 0..Tries - 1
    BY DEF TypeInv, TypeOK
  <2>3. QED
    BY <1>5, <2>1, <2>2, TypedEmpty DEF CloseLink
<1>6. CASE UNCHANGED vars
  BY <1>6 DEF vars, line, TypeInv, TypeOK
<1>7. QED
  BY <1>1, <1>2, <1>3, <1>4, <1>5, <1>6, TypedObey, TypedClient DEF Next

-----------------------------------------------------------------------------
(* A link with nothing on its way is clean; one that a failure was passed
   over on is not counted on. *)
LEMMA Emptied ==
    ASSUME TypeInv', input' = <<>>, output' = <<>>, pc' = "idle"
    PROVE  Clean'
<1>1. Len(input') = 0 /\ Len(output') = 0
  OBVIOUS
<1>2. InOrder'
  BY <1>1 DEF InOrder, Sorted, AllBefore, Within
<1>3. OwnBytes' /\ BlocksLast'
  BY <1>1 DEF OwnBytes, BlocksLast
<1>4. Expecting' /\ Weighed'
  BY <1>1 DEF Expecting, Weighed, WakeSteps, SendSteps, WriteSteps
<1>5. QED
  BY <1>2, <1>3, <1>4 DEF Clean

LEMMA Raised ==
    ASSUME TypeInv', NEW bytes, Raise(bytes)
    PROVE  kept' \/ Clean'
BY Emptied DEF Raise

(* In the two later stretches of a call everything on its way is the call's;
   while the console is woken up none of it is, except for wake-ups. *)
LEMMA OwnTurns ==
    ASSUME TypeInv, InOrder
    PROVE  /\ \A i \in 1..Len(output) :
                 /\ output[i] \in Written
                 /\ FirstTurn <= Turn(output[i]) /\ Turn(output[i]) <= LastTurn
                 /\ pc \notin WakeSteps => output[i].call = call
                 /\ pc \in WakeSteps /\ output[i].call = call => output[i].kind = "wake"
           /\ \A i \in 1..Len(input) :
                 /\ input[i] \in Received
                 /\ input[i].kind \notin Free =>
                       /\ FirstTurn <= Turn(input[i]) /\ Turn(input[i]) <= LastTurn
                       /\ pc \notin WakeSteps => input[i].call = call
                       /\ pc \in WakeSteps /\ input[i].call = call => input[i].kind # "ack"
<1>1. call \in 0..MaxCalls /\ FirstTurn \in Int /\ LastTurn \in Int
  BY WireTypes DEF TypeInv, TypeOK, FirstTurn, LastTurn
<1>2. ASSUME NEW b \in Received \cup Written, FirstTurn <= Turn(b), Turn(b) <= LastTurn
      PROVE  /\ pc \notin WakeSteps => b.call = call
             /\ pc \in WakeSteps /\ b.call = call => b.kind \in {"wake", "lf", "cr"}
  <2>1. CASE pc \in WakeSteps
    BY <1>1, <1>2, <2>1, TurnsOf, WireTypes DEF LastTurn
  <2>2. CASE pc \notin WakeSteps
    BY <1>1, <1>2, <2>2, TurnsOf, WireTypes DEF LastTurn, FirstTurn
  <2>3. QED
    BY <2>1, <2>2
<1>3. ASSUME NEW i \in 1..Len(output)
      PROVE  /\ output[i] \in Written
             /\ FirstTurn <= Turn(output[i]) /\ Turn(output[i]) <= LastTurn
             /\ pc \notin WakeSteps => output[i].call = call
             /\ pc \in WakeSteps /\ output[i].call = call => output[i].kind = "wake"
  <2>1. output[i] \in Written
    BY DEF TypeInv
  <2>2. FirstTurn <= Turn(output[i]) /\ Turn(output[i]) <= LastTurn
    BY <2>1, TurnsOf DEF InOrder, Within
  <2>3. QED
    BY <1>2, <2>1, <2>2 DEF Written, Kinds
<1>4. ASSUME NEW i \in 1..Len(input)
      PROVE  /\ input[i] \in Received
             /\ input[i].kind \notin Free =>
                   /\ FirstTurn <= Turn(input[i]) /\ Turn(input[i]) <= LastTurn
                   /\ pc \notin WakeSteps => input[i].call = call
                   /\ pc \in WakeSteps /\ input[i].call = call => input[i].kind # "ack"
  <2>1. input[i] \in Received
    BY DEF TypeInv
  <2>2. input[i].kind \notin Free => FirstTurn <= Turn(input[i]) /\ Turn(input[i]) <= LastTurn
    BY DEF InOrder, Within
  <2>3. QED
    BY <1>2, <2>1, <2>2
<1>5. QED
  BY <1>3, <1>4

(* The numbers that are weighed, for any sequences. *)
LEMMA Counts ==
    ASSUME TypeInv
    PROVE  Acks \in Nat /\ Writes \in Nat /\ Credit \in {0, 1} /\ Limit \in Int
<1>1. Acks \in Nat /\ Writes \in Nat
  BY CountFinite DEF TypeInv, Acks, Writes
<1>2. Credit \in {0, 1}
  BY DEF Credit
<1>3. Limit \in Int
  BY WireTypes DEF Limit, TypeInv, TypeOK
<1>4. QED
  BY <1>1, <1>2, <1>3

(* While the console is woken up, nothing of this call is weighed. *)
LEMMA NothingWeighed ==
    ASSUME TypeInv, InOrder, pc \in WakeSteps
    PROVE  Of(input, "ack", call) = {} /\ Of(output, "write", call) = {}
BY OwnTurns DEF Of, Free

(* Bytes are read or lost, and the client goes on in the same stretch of the
   call or ends it. *)
LEMMA LineThinned ==
    ASSUME Clean, TypeInv', NEW m \in Nat, NEW n \in Nat,
           Taken(input, input', m), Taken(output, output', n),
           UNCHANGED <<call, kind, console, carried>>,
           FirstTurn' = FirstTurn, LastTurn' = LastTurn,
           pc' \in WakeSteps => pc \in WakeSteps,
           pc' \in SendSteps => pc \in SendSteps /\ Limit <= Limit',
           pc' \in WriteSteps => pc \in WriteSteps,
           pc' = "blockAck" => /\ pc = "blockAck"
                               /\ Of(output, "block", call) # {} =>
                                     Of(output', "block", call) # {}
    PROVE  Clean'
<1>1. PICK g \in [1..Len(output') -> 1..Len(output)] :
        /\ \A i \in 1..Len(output') : output'[i] = output[g[i]] /\ g[i] > n
        /\ \A i, j \in 1..Len(output') : i < j => g[i] < g[j]
  BY DEF Taken
<1>2. PICK f \in [1..Len(input') -> 1..Len(input)] :
        /\ \A i \in 1..Len(input') : input'[i] = input[f[i]] /\ f[i] > m
        /\ \A i, j \in 1..Len(input') : i < j => f[i] < f[j]
  BY DEF Taken
<1>3. InOrder'
  <2>1. /\ input \in Seq(Received) /\ input' \in Seq(Received)
        /\ output \in Seq(Written) /\ output' \in Seq(Written)
    BY DEF Clean, TypeInv
  <2>2. /\ Sorted(input) /\ Sorted(output) /\ AllBefore(input, output)
        /\ Within(input, FirstTurn, LastTurn) /\ Within(output, FirstTurn, LastTurn)
    BY DEF Clean, InOrder
  <2>3. /\ Sorted(input') /\ Sorted(output') /\ AllBefore(input', output')
        /\ Within(input', FirstTurn, LastTurn) /\ Within(output', FirstTurn, LastTurn)
    BY <2>1, <2>2, OrderLeft
  <2>4. QED
    BY <2>3 DEF InOrder
<1>4. OwnBytes'
  <2>1. ASSUME NEW i \in 1..Len(output'), output'[i].call = call
        PROVE  \/ output'[i].kind \in {"wake", kind}
               \/ output'[i].kind = "block" /\ kind = "write" /\ pc' \notin SendSteps
    <3>1. g[i] \in 1..Len(output) /\ output'[i] = output[g[i]]
      BY <1>1
    <3>2. QED
      BY <2>1, <3>1 DEF Clean, OwnBytes
  <2>2. ASSUME NEW i \in 1..Len(input'), input'[i].call = call, input'[i].kind = "ack"
        PROVE  kind = "write" \/ call \in carried
    <3>1. f[i] \in 1..Len(input) /\ input'[i] = input[f[i]]
      BY <1>2
    <3>2. QED
      BY <2>2, <3>1 DEF Clean, OwnBytes
  <2>3. QED
    BY <2>1, <2>2 DEF OwnBytes
<1>5. BlocksLast'
  BY <1>1, SMTT(30) DEF Clean, BlocksLast
<1>6. Expecting'
  BY <1>1 DEF Clean, Expecting
<1>7. Weighed'
  <2>1. Acks' <= Acks /\ Writes' <= Writes
    BY CountLeft DEF Clean, TypeInv, Acks, Writes
  <2>2. Of(output, "write", call) = {} => Of(output', "write", call) = {}
    BY CountLeft DEF Clean, TypeInv
  <2>3. /\ Acks \in Nat /\ Writes \in Nat /\ Credit \in {0, 1} /\ Limit \in Int
        /\ Acks' \in Nat /\ Writes' \in Nat /\ Limit' \in Int
    BY Counts, CountFinite, WireTypes, SMTT(30) DEF Clean, TypeInv, TypeOK, Acks, Writes, Limit
  <2>4. Credit' = Credit
    BY DEF Credit
  <2>5. pc' \in WriteSteps => Limit' = Limit
    BY DEF Limit, WriteSteps
  <2>6. SUFFICES ASSUME kind = "write", call \notin carried,
                        pc' \in SendSteps \cup WriteSteps
                 PROVE  /\ 2 * Acks' + Writes' <= Limit' + Credit'
                        /\ pc' = "blockAck" =>
                              \/ Of(output', "block", call) # {}
                              \/ Of(output', "write", call) = {} /\ console # call
    BY DEF Weighed
  <2>7. 2 * Acks + Writes <= Limit + Credit /\ Limit <= Limit'
    BY <2>5, <2>6, <2>3 DEF Clean, Weighed
  <2>8. 2 * Acks' + Writes' <= Limit' + Credit'
    <3>1. \A a, w \in Nat, l \in Int :
              a <= Acks /\ w <= Writes /\ Limit <= l => 2 * a + w <= l + Credit
      BY <2>3, <2>7
    <3>2. QED
      BY <2>1, <2>3, <2>4, <2>7, <3>1, Zenon
  <2>9. QED
    BY <2>2, <2>6, <2>8 DEF Clean, Weighed, WriteSteps
<1>8. QED
  BY <1>3, <1>4, <1>5, <1>6, <1>7 DEF Clean

LEMMA Retries ==
    ASSUME Clean, TypeInv', NEW step, NEW n \in Nat, NEW bytes \in Read(n),
           RetryOrRaise(step, bytes), UNCHANGED <<call, kind, console, carried, line>>,
           \/ pc = "skip" /\ step = "wake"
           \/ pc = "ack" /\ step = "send"
           \/ pc = "blockAck" /\ step = "block"
    PROVE  kept' \/ Clean'
<1>1. CASE Raise(bytes)
  BY <1>1, Raised
<1>2. CASE ~Raise(bytes)
  <2>1. /\ try + 1 < Tries /\ pc' = step /\ try' = try + 1
        /\ Drop(bytes) /\ output' = output
    BY <1>2 DEF RetryOrRaise
  <2>2. /\ input' \in Seq(Received) /\ Taken(input, input', Len(bytes)) /\ Len(bytes) \in Nat
    BY <2>1, Reads DEF Clean, TypeInv
  <2>3. Taken(output, output', 0)
    BY <2>1, NoneTaken DEF Clean, TypeInv
  <2>4. FirstTurn' = FirstTurn /\ LastTurn' = LastTurn
    BY <2>1 DEF FirstTurn, LastTurn, WakeSteps, SendSteps
  <2>5. pc' \in SendSteps => pc \in SendSteps /\ Limit <= Limit'
    BY <2>1 DEF SendSteps, Limit, Clean, TypeInv, TypeOK
  <2>6. QED
    BY <2>1, <2>2, <2>3, <2>4, <2>5, LineThinned
       DEF WakeSteps, SendSteps, WriteSteps
<1>3. QED
  BY <1>1, <1>2

(* Once the first byte of a stretch of the call is read, only what belongs to
   it can follow. *)
LEMMA Passed ==
    ASSUME TypeInv, TypeInv', InOrder, NEW n \in Nat, n > 0, input # <<>>,
           Taken(input, input', n), output' = output,
           input[1].kind \notin Free, FirstTurn' = Turn(input[1]), LastTurn <= LastTurn'
    PROVE  InOrder'
<1>1. /\ input \in Seq(Received) /\ input' \in Seq(Received) /\ output \in Seq(Written)
      /\ Taken(output, output', 0)
  BY NoneTaken DEF TypeInv
<1>2. Sorted(input') /\ Sorted(output') /\ AllBefore(input', output')
  BY <1>1, OrderLeft DEF InOrder
<1>3. PICK f \in [1..Len(input') -> 1..Len(input)] :
        \A i \in 1..Len(input') : input'[i] = input[f[i]] /\ f[i] > n
  BY DEF Taken
<1>4. FirstTurn' \in Int /\ LastTurn \in Int /\ LastTurn' \in Int
  <2>1. call \in Nat /\ call' \in Nat
    BY WireTypes DEF TypeInv, TypeOK
  <2>2. QED
    BY <2>1 DEF FirstTurn, LastTurn
<1>5. 1 \in 1..Len(input)
  BY <1>1
<1>6. PICK lo \in Int, hi \in Int : lo = FirstTurn' /\ hi = LastTurn'
  BY <1>4
<1>7. LastTurn <= hi
  BY <1>6, Zenon
<1>8. Within(input', lo, hi)
  <2>1. SUFFICES ASSUME NEW i \in 1..Len(input'), input'[i].kind \notin Free
                 PROVE  lo <= Turn(input'[i]) /\ Turn(input'[i]) <= hi
    BY DEF Within
  <2>2. f[i] \in 1..Len(input) /\ input'[i] = input[f[i]] /\ 1 < f[i]
    BY <1>3
  <2>3. Before(input[1], input[f[i]])
    BY <1>5, <2>2 DEF InOrder, Sorted
  <2>4. Turn(input[1]) <= Turn(input[f[i]])
    BY <2>1, <2>2, <2>3 DEF Before
  <2>5. Turn(input[f[i]]) <= LastTurn /\ Turn(input[f[i]]) \in Nat
    BY <1>1, <2>1, <2>2, TurnsOf DEF InOrder, Within
  <2>6. QED
    BY <1>4, <1>6, <1>7, <2>2, <2>4, <2>5
<1>9. Within(output', lo, hi)
  <2>1. SUFFICES ASSUME NEW i \in 1..Len(output), output[i].kind \notin Free
                 PROVE  lo <= Turn(output[i]) /\ Turn(output[i]) <= hi
    BY DEF Within
  <2>2. Before(input[1], output[i])
    BY <1>5 DEF InOrder, AllBefore
  <2>3. Turn(input[1]) <= Turn(output[i])
    BY <2>1, <2>2 DEF Before
  <2>4. Turn(output[i]) <= LastTurn /\ Turn(output[i]) \in Nat
    BY <1>1, <2>1, TurnsOf DEF InOrder, Within
  <2>5. QED
    BY <1>4, <1>6, <1>7, <2>3, <2>4
<1>10. Within(input', FirstTurn', LastTurn') /\ Within(output', FirstTurn', LastTurn')
  BY <1>6, <1>8, <1>9, Zenon
<1>11. QED
  BY <1>2, <1>10 DEF InOrder

-----------------------------------------------------------------------------
(* The client's steps *)

LEMMA StartCallInv == Clean /\ StartCall => Clean'
<1> SUFFICES ASSUME Clean, StartCall PROVE Clean'
  OBVIOUS
<1>1. /\ pc = "idle" /\ call \in Nat /\ call < MaxCalls /\ call' = call + 1
      /\ kind' \in Kinds /\ pc' = "wake" /\ try' = 0
      /\ UNCHANGED <<input, output, console, carried, line>>
  BY WireTypes DEF StartCall, Goto, Clean, TypeInv, TypeOK
<1>2. TypeInv'
  BY Typed DEF Clean, Next
<1>3. /\ FirstTurn = 2 * call + 1 /\ LastTurn = 2 * call + 1
      /\ FirstTurn' = 2 * call + 1 /\ LastTurn' = 2 * call + 2
  BY <1>1 DEF FirstTurn, LastTurn, WakeSteps, SendSteps
<1>4. \A i \in 1..Len(output) : output[i].call # call'
  BY <1>1, OwnTurns DEF Clean, WakeSteps
<1>5. \A i \in 1..Len(input) : input[i].kind = "ack" => input[i].call # call'
  BY <1>1, OwnTurns DEF Clean, WakeSteps, Free
<1>6. InOrder'
  <2>1. /\ Within(input, FirstTurn', LastTurn') /\ Within(output, FirstTurn', LastTurn')
    <3>1. \A i \in 1..Len(input) : input[i].kind \notin Free => Turn(input[i]) = 2 * call + 1
      <4> SUFFICES ASSUME NEW i \in 1..Len(input), input[i].kind \notin Free
                   PROVE  Turn(input[i]) = 2 * call + 1
        OBVIOUS
      <4>1. FirstTurn <= Turn(input[i]) /\ Turn(input[i]) <= LastTurn /\ input[i] \in Received
        BY OwnTurns DEF Clean
      <4>2. Turn(input[i]) \in Nat
        BY <4>1, TurnsOf
      <4>3. QED
        BY <1>1, <1>3, <4>1, <4>2
    <3>2. \A i \in 1..Len(output) : Turn(output[i]) = 2 * call + 1
      BY <1>1, <1>3, OwnTurns, TurnsOf DEF Clean
    <3>3. Within(input, 2 * call + 1, 2 * call + 2) /\ Within(output, 2 * call + 1, 2 * call + 2)
      BY <1>1, <3>1, <3>2 DEF Within
    <3>4. QED
      BY <1>3, <3>3
  <2>2. QED
    BY <1>1, <2>1 DEF Clean, InOrder
<1>7. OwnBytes' /\ BlocksLast'
  BY <1>1, <1>4, <1>5 DEF OwnBytes, BlocksLast
<1>8. Expecting'
  <2>1. console' # call'
    BY <1>1, WireTypes DEF Clean, TypeInv, Spoiled
  <2>2. QED
    BY <2>1 DEF Expecting
<1>9. Weighed'
  BY <1>1 DEF Weighed, SendSteps, WriteSteps
<1>10. QED
  BY <1>2, <1>6, <1>7, <1>8, <1>9 DEF Clean

(* The client writes something of its own. *)
LEMMA Wrote ==
    ASSUME TypeInv, InOrder, NEW b \in Written, output' = Append(output, b),
           input' = input, Turn(b) = LastTurn, FirstTurn' = FirstTurn, LastTurn' = LastTurn
    PROVE  InOrder'
<1>1. /\ Len(output') = Len(output) + 1 /\ output'[Len(output) + 1] = b
      /\ \A i \in 1..Len(output) : output'[i] = output[i]
  BY AppendProperties DEF TypeInv
<1>2. \A i \in 1..Len(output') : i \in 1..Len(output) \/ i = Len(output) + 1
  BY <1>1
<1>3. \A i \in 1..Len(output) : Before(output[i], b)
  BY OwnTurns DEF Before
<1>4. \A i \in 1..Len(input) : Before(input[i], b)
  BY OwnTurns DEF Before
<1>5. Sorted(output')
  <2>1. SUFFICES ASSUME NEW i \in 1..Len(output'), NEW j \in 1..Len(output'), i < j
                 PROVE  Before(output'[i], output'[j])
    BY DEF Sorted
  <2>2. i \in 1..Len(output)
    BY <1>1, <1>2, <2>1
  <2>3. CASE j \in 1..Len(output)
    BY <1>1, <2>1, <2>2, <2>3 DEF InOrder, Sorted
  <2>4. CASE j = Len(output) + 1
    BY <1>1, <1>3, <2>2, <2>4
  <2>5. QED
    BY <1>2, <2>3, <2>4
<1>6. AllBefore(input', output')
  BY <1>1, <1>2, <1>4 DEF InOrder, AllBefore
<1>7. Within(output', FirstTurn, LastTurn)
  <2>1. FirstTurn <= Turn(b) /\ Turn(b) <= LastTurn
    BY WireTypes DEF TypeInv, TypeOK, FirstTurn, LastTurn
  <2>2. QED
    BY <1>1, <1>2, <2>1 DEF InOrder, Within
<1>8. QED
  BY <1>5, <1>6, <1>7 DEF InOrder

LEMMA WakeUpInv == Clean /\ WakeUp => Clean'
<1> SUFFICES ASSUME Clean, WakeUp PROVE Clean'
  OBVIOUS
<1> DEFINE b == [kind |-> "wake", call |-> call]
<1>1. /\ pc = "wake" /\ pc' = "wakeAck" /\ output' = Append(output, b)
      /\ UNCHANGED <<call, kind, try, input, console, carried, line>>
  BY DEF WakeUp, Write
<1>2. b \in Written /\ b.kind = "wake" /\ b.call = call
  BY <1>1, WireTypes DEF Clean, TypeInv, TypeOK, Written, Kinds
<1> HIDE DEF b
<1>3. /\ output' \in Seq(Written) /\ Len(output') = Len(output) + 1
      /\ output'[Len(output) + 1] = b
      /\ \A i \in 1..Len(output) : output'[i] = output[i]
  BY <1>1, <1>2, AppendProperties DEF Clean, TypeInv
<1>4. TypeInv'
  BY Typed DEF Clean, Next, ClientStep
<1>5. InOrder'
  <2>1. Turn(b) = LastTurn /\ FirstTurn' = FirstTurn /\ LastTurn' = LastTurn
    BY <1>1, <1>2 DEF Turn, FirstTurn, LastTurn, WakeSteps, SendSteps
  <2>2. QED
    BY <1>1, <1>2, <2>1, Wrote DEF Clean
<1>6. \A i \in 1..Len(output') : output'[i].call = call => output'[i].kind = "wake"
  <2>1. \A i \in 1..Len(output) : output[i].call = call => output[i].kind = "wake"
    BY <1>1, OwnTurns DEF Clean, WakeSteps
  <2>2. QED
    BY <1>2, <1>3, <2>1
<1>7. OwnBytes' /\ BlocksLast'
  BY <1>1, <1>6 DEF Clean, OwnBytes, BlocksLast
<1>8. Expecting'
  BY <1>1 DEF Clean, Expecting, WakeSteps, TypeInv
<1>9. Weighed'
  BY <1>1 DEF Weighed, SendSteps, WriteSteps
<1>10. QED
  BY <1>4, <1>5, <1>7, <1>8, <1>9 DEF Clean

LEMMA SendInv == Clean /\ Send => Clean'
<1> SUFFICES ASSUME Clean, Send PROVE Clean'
  OBVIOUS
<1> DEFINE b == [kind |-> kind, call |-> call]
<1>1. /\ pc = "send" /\ pc' = "ack" /\ output' = Append(output, b)
      /\ UNCHANGED <<call, kind, try, input, console, carried, line>>
  BY DEF Send, Write
<1>2. /\ b \in Written /\ b.kind = kind /\ b.call = call /\ kind \in Kinds
      /\ call \in Nat /\ try \in Nat /\ Tries \in Nat
  BY <1>1, WireTypes DEF Clean, TypeInv, TypeOK, Written, Kinds
<1> HIDE DEF b
<1>3. /\ output' \in Seq(Written) /\ Len(output') = Len(output) + 1
      /\ output'[Len(output) + 1] = b
      /\ \A i \in 1..Len(output) : output'[i] = output[i]
      /\ \A i \in 1..Len(output') : i \in 1..Len(output) \/ i = Len(output) + 1
  BY <1>1, <1>2, AppendProperties DEF Clean, TypeInv
<1>4. TypeInv'
  BY Typed DEF Clean, Next, ClientStep
<1>5. Turn(b) = 2 * call + 1
  BY <1>2 DEF Turn, Kinds
<1>6. InOrder'
  <2>1. Turn(b) = LastTurn /\ FirstTurn' = FirstTurn /\ LastTurn' = LastTurn
    BY <1>1, <1>5 DEF FirstTurn, LastTurn, WakeSteps, SendSteps
  <2>2. QED
    BY <1>1, <1>2, <2>1, Wrote DEF Clean
<1>7. \A i \in 1..Len(output) : output[i].call = call => output[i].kind \in {"wake", kind}
  BY <1>1 DEF Clean, OwnBytes, SendSteps
<1>8. OwnBytes'
  <2>1. \A i \in 1..Len(output') : output'[i].call = call => output'[i].kind \in {"wake", kind}
    BY <1>2, <1>3, <1>7
  <2>2. QED
    BY <1>1, <2>1 DEF Clean, OwnBytes
<1>9. BlocksLast'
  <2>1. \A i \in 1..Len(output) : ~(output[i].kind = "block" /\ output[i].call = call)
    BY <1>2, <1>7 DEF Kinds
  <2>2. QED
    BY <1>1, <1>2, <1>3, <2>1 DEF BlocksLast, Kinds
<1>10. Expecting'
  BY <1>1, <1>3, <1>5 DEF Clean, Expecting, WakeSteps
<1>11. Weighed'
  <2>1. SUFFICES ASSUME kind = "write", call \notin carried
                 PROVE  2 * Acks' + Writes' <= Limit' + Credit'
    BY <1>1 DEF Weighed
  <2>2. 2 * Acks + Writes <= try + Credit
    BY <1>1, <2>1 DEF Clean, Weighed, SendSteps, Limit
  <2>3. Acks' = Acks /\ Credit' = Credit /\ Limit' = try + 1
    BY <1>1 DEF Acks, Credit, Limit
  <2>4. Writes' <= Writes + 1 /\ Writes' \in Nat
    BY <1>1, <1>2, <1>3, CountAppended, CountFinite DEF Clean, TypeInv, Writes
  <2>5. \A w \in Nat : w <= Writes + 1 => 2 * Acks + w <= try + 1 + Credit
    BY <1>2, <2>2, Counts DEF Clean
  <2>6. QED
    BY <2>3, <2>4, <2>5, Zenon
<1>12. QED
  BY <1>4, <1>6, <1>8, <1>9, <1>10, <1>11 DEF Clean

LEMMA SendBlockInv == Clean /\ SendBlock => Clean'
<1> SUFFICES ASSUME Clean, SendBlock PROVE Clean'
  OBVIOUS
<1> DEFINE b == [kind |-> "block", call |-> call]
<1>1. /\ pc = "block" /\ pc' = "blockAck" /\ output' = Append(output, b)
      /\ UNCHANGED <<call, kind, try, input, console, carried, line>>
  BY DEF SendBlock, Write
<1>2. b \in Written /\ b.kind = "block" /\ b.call = call /\ kind = "write"
  BY <1>1, WireTypes DEF Clean, TypeInv, TypeOK, Written, Kinds
<1> HIDE DEF b
<1>3. /\ output' \in Seq(Written) /\ Len(output') = Len(output) + 1
      /\ output'[Len(output) + 1] = b
      /\ \A i \in 1..Len(output) : output'[i] = output[i]
      /\ \A i \in 1..Len(output') : i \in 1..Len(output) \/ i = Len(output) + 1
  BY <1>1, <1>2, AppendProperties DEF Clean, TypeInv
<1>4. TypeInv'
  BY Typed DEF Clean, Next, ClientStep
<1>5. Turn(b) = 2 * call + 1
  BY <1>2 DEF Turn
<1>6. InOrder'
  <2>1. Turn(b) = LastTurn /\ FirstTurn' = FirstTurn /\ LastTurn' = LastTurn
    BY <1>1, <1>5 DEF FirstTurn, LastTurn, WakeSteps, SendSteps
  <2>2. QED
    BY <1>1, <1>2, <2>1, Wrote DEF Clean
<1>7. OwnBytes'
  <2>1. \A i \in 1..Len(output') : output'[i].call = call =>
           output'[i].kind \in {"wake", kind} \/ output'[i].kind = "block"
    BY <1>2, <1>3 DEF Clean, OwnBytes
  <2>2. QED
    BY <1>1, <1>2, <2>1 DEF Clean, OwnBytes, SendSteps
<1>8. BlocksLast'
  BY <1>1, <1>2, <1>3 DEF Clean, BlocksLast
<1>9. Expecting'
  BY <1>1, <1>3, <1>5 DEF Clean, Expecting, WakeSteps
<1>10. Weighed'
  <2>1. SUFFICES ASSUME call \notin carried
                 PROVE  /\ 2 * Acks' + Writes' <= Limit' + Credit'
                        /\ Of(output', "block", call) # {}
    BY <1>1 DEF Weighed
  <2>2. 2 * Acks + Writes <= Limit + Credit
    BY <1>1, <1>2, <2>1 DEF Clean, Weighed, WriteSteps
  <2>3. Acks' = Acks /\ Credit' = Credit /\ Limit' = Limit
    BY <1>1 DEF Acks, Credit, Limit
  <2>4. Writes' = Writes
    <3>1. Of(output', "write", call) = Of(output, "write", call)
      BY <1>1, <1>2, CountAppended DEF Clean, TypeInv
    <3>2. QED
      BY <1>1, <3>1 DEF Writes
  <2>5. Of(output', "block", call) # {}
    BY <1>1, <1>2, CountAppended, SMTT(30) DEF Clean, TypeInv
  <2>6. QED
    BY <2>2, <2>3, <2>4, <2>5
<1>11. QED
  BY <1>4, <1>6, <1>7, <1>8, <1>9, <1>10 DEF Clean

(* The client has read an answer and nothing else was on its way. *)
LEMMA WakeAnswerInv == Clean /\ WakeAnswer => Clean'
<1> SUFFICES ASSUME Clean, WakeAnswer PROVE Clean'
  OBVIOUS
<1>1. PICK bytes \in Read(2) :
        /\ IF Is(bytes, <<"lf", "cr">>) THEN Goto("send") ELSE pc' = "skip" /\ UNCHANGED try
        /\ Drop(bytes)
  BY DEF WakeAnswer
<1>2. pc = "wakeAck" /\ UNCHANGED <<call, kind, output, console, carried, line>>
  BY DEF WakeAnswer
<1>3. /\ Len(bytes) \in Nat /\ Len(bytes) <= Len(input)
      /\ \A i \in 1..Len(bytes) : bytes[i] = input[i]
      /\ input' \in Seq(Received) /\ Taken(input, input', Len(bytes))
  BY <1>1, Reads DEF Clean, TypeInv
<1>4. Taken(output, output', 0)
  BY <1>2, NoneTaken DEF Clean, TypeInv
<1>6. TypeInv'
  BY Typed DEF Clean, Next, ClientStep
<1>7. CASE ~Is(bytes, <<"lf", "cr">>)
  <2>1. pc' = "skip"
    BY <1>1, <1>7
  <2>2. FirstTurn' = FirstTurn /\ LastTurn' = LastTurn
    BY <1>2, <2>1 DEF FirstTurn, LastTurn, WakeSteps, SendSteps
  <2>3. QED
    BY <1>2, <1>3, <1>4, <1>6, <2>1, <2>2, LineThinned DEF WakeSteps, SendSteps, WriteSteps
<1>8. CASE Is(bytes, <<"lf", "cr">>)
  <2>1. pc' = "send" /\ try' = 0
    BY <1>1, <1>8 DEF Goto
  <2>2. Len(bytes) = 2 /\ bytes[1].kind = "lf"
    BY <1>8 DEF Is
  <2>3. input # <<>> /\ 1 \in 1..Len(input) /\ input[1].kind = "lf"
    BY <1>3, <2>2 DEF Clean, TypeInv
  <2>4. call \in Nat
    BY WireTypes DEF Clean, TypeInv, TypeOK
  <2>5. Turn(input[1]) = 2 * call
    <3>1. /\ input[1] \in Received /\ input[1].kind \notin Free
          /\ FirstTurn <= Turn(input[1]) /\ Turn(input[1]) <= LastTurn
      BY <2>3, OwnTurns DEF Clean, Free
    <3>2. FirstTurn = 2 * call - 1 /\ LastTurn = 2 * call
      BY <1>2 DEF FirstTurn, LastTurn, WakeSteps
    <3>3. Turn(input[1]) = 2 * input[1].call /\ input[1].call \in Nat
      BY <2>3, <3>1, TurnsOf, WireTypes
    <3>4. QED
      BY <2>4, <3>1, <3>2, <3>3
  <2>6. InOrder'
    <3>1. FirstTurn' = Turn(input[1]) /\ LastTurn <= LastTurn'
      <4>1. LastTurn = 2 * call
        BY <1>2 DEF LastTurn, WakeSteps
      <4>2. FirstTurn' = 2 * call /\ LastTurn' = 2 * call + 1
        BY <1>2, <2>1 DEF FirstTurn, LastTurn, WakeSteps, SendSteps
      <4>3. LastTurn <= 2 * call + 1
        BY <2>4, <4>1
      <4>4. QED
        BY <2>5, <4>2, <4>3, Zenon
    <3>2. QED
      BY <1>2, <1>3, <1>6, <2>2, <2>3, <3>1, Passed DEF Clean, Free
  <2>7. \A i \in 1..Len(output) : output[i].call = call => output[i].kind = "wake"
    BY <1>2, OwnTurns DEF Clean, WakeSteps
  <2>8. Of(input', "ack", call) = {} /\ Of(output, "write", call) = {}
    BY <1>2, <1>3, NothingWeighed, CountLeft DEF Clean, TypeInv, WakeSteps
  <2>9. OwnBytes' /\ BlocksLast'
    BY <1>2, <2>7, <2>8 DEF OwnBytes, BlocksLast, Of
  <2>10. Expecting'
    BY <1>2 DEF Clean, Expecting, WakeSteps
  <2>11. Weighed'
    <3>1. Acks' = 0 /\ Writes' = 0 /\ Limit' = 0
      BY <1>2, <2>1, <2>8, FS_EmptySet DEF Acks, Writes, Limit
    <3>2. Credit' \in {0, 1}
      BY DEF Credit
    <3>3. \A c \in {0, 1} : 2 * 0 + 0 <= 0 + c
      OBVIOUS
    <3>4. 2 * Acks' + Writes' <= Limit' + Credit'
      BY <3>1, <3>2, <3>3, Zenon
    <3>5. QED
      BY <2>1, <3>4 DEF Weighed
  <2>12. QED
    BY <1>6, <2>6, <2>9, <2>10, <2>11 DEF Clean
<1>9. QED
  BY <1>7, <1>8

LEMMA SkipStrayInv == Clean /\ SkipStray => kept' \/ Clean'
<1> SUFFICES ASSUME Clean, SkipStray PROVE kept' \/ Clean'
  OBVIOUS
<1>1. TypeInv'
  BY Typed DEF Clean, Next, ClientStep
<1>2. QED
  BY <1>1, Retries DEF SkipStray

LEMMA SendAnswerInv == Clean /\ SendAnswer => kept' \/ Clean'
<1> SUFFICES ASSUME Clean, SendAnswer PROVE kept' \/ Clean'
  OBVIOUS
<1>0. TypeInv'
  BY Typed DEF Clean, Next, ClientStep
<1>1. PICK bytes \in Read(1) :
        IF Is(bytes, <<"ack">>)
        THEN Goto(After[kind]) /\ Drop(bytes) /\ UNCHANGED <<output, kept>>
        ELSE RetryOrRaise("send", bytes)
  BY DEF SendAnswer
<1>2. pc = "ack" /\ UNCHANGED <<call, kind, console, carried, line>>
  BY DEF SendAnswer
<1>3. CASE ~Is(bytes, <<"ack">>)
  BY <1>0, <1>1, <1>2, <1>3, Retries
<1>4. CASE Is(bytes, <<"ack">>)
  <2>1. pc' = After[kind] /\ try' = 0 /\ Drop(bytes) /\ output' = output
    BY <1>1, <1>4 DEF Goto
  <2>2. /\ Len(bytes) = 1 /\ Len(bytes) <= Len(input) /\ input[1].kind = "ack"
        /\ input' \in Seq(Received) /\ Taken(input, input', 1)
    <3>1. Len(bytes) = 1 /\ bytes[1].kind = "ack"
      BY <1>4 DEF Is
    <3>2. /\ Len(bytes) <= Len(input) /\ \A i \in 1..Len(bytes) : bytes[i] = input[i]
          /\ input' \in Seq(Received) /\ Taken(input, input', Len(bytes))
      BY <2>1, Reads DEF Clean, TypeInv
    <3>3. QED
      BY <3>1, <3>2
  <2>3. input # <<>> /\ 1 \in 1..Len(input)
    BY <2>2 DEF Clean, TypeInv
  <2>4. call \in Nat /\ try \in Nat /\ try <= Tries - 1 /\ Tries \in Nat /\ kind \in Kinds
    BY WireTypes DEF Clean, TypeInv, TypeOK
  <2>5. /\ kind \in Asking => pc' = "data"
        /\ kind = "set" => pc' = "idle"
        /\ kind = "write" => pc' = "block"
        /\ pc' \in {"data", "idle", "block"}
    BY <2>1, <2>4 DEF After, Kinds, Asking
  <2>7. input[1].call = call /\ Turn(input[1]) = 2 * call + 1
    <3>1. input[1].call = call /\ input[1] \in Received
      BY <1>2, <2>2, <2>3, OwnTurns DEF Clean, WakeSteps, Free
    <3>2. QED
      BY <2>2, <3>1, TurnsOf
  <2>8. InOrder'
    <3>1. LastTurn = 2 * call + 1
      BY <1>2 DEF LastTurn, WakeSteps
    <3>2. FirstTurn' = 2 * call + 1 /\ LastTurn' = 2 * call + 1
      BY <1>2, <2>5 DEF FirstTurn, LastTurn, WakeSteps, SendSteps
    <3>3. FirstTurn' = Turn(input[1]) /\ LastTurn <= LastTurn'
      <4>1. LastTurn <= 2 * call + 1
        BY <2>4, <3>1
      <4>2. QED
        BY <2>7, <3>2, <4>1, Zenon
    <3>4. QED
      BY <1>0, <2>1, <2>2, <2>3, <3>3, Passed DEF Clean, Free
  <2>9. PICK f \in [1..Len(input') -> 1..Len(input)] :
          \A i \in 1..Len(input') : input'[i] = input[f[i]]
    BY <2>2 DEF Taken
  <2>10. OwnBytes'
    <3>1. \A i \in 1..Len(output) : output[i].call = call =>
             output[i].kind \in {"wake", kind}
      BY <1>2 DEF Clean, OwnBytes, SendSteps
    <3>2. \A i \in 1..Len(input') : input'[i].call = call /\ input'[i].kind = "ack" =>
             kind = "write" \/ call \in carried
      BY <2>9 DEF Clean, OwnBytes
    <3>3. QED
      BY <1>2, <2>1, <3>1, <3>2 DEF OwnBytes
  <2>11. BlocksLast' /\ Expecting'
    BY <1>2, <2>1, <2>5 DEF Clean, BlocksLast, Expecting, WakeSteps
  <2>12. Weighed'
    <3>1. SUFFICES ASSUME kind = "write", call \notin carried
                   PROVE  2 * Acks' + Writes' <= Limit' + Credit'
      BY <1>2, <2>5 DEF Weighed, SendSteps, WriteSteps
    <3>2. 2 * Acks + Writes <= try + 1 + Credit
      BY <1>2, <3>1 DEF Clean, Weighed, SendSteps, Limit
    <3>3. Acks' <= Acks - 1 /\ Acks' \in Nat
      BY <1>2, <2>2, <2>3, <2>7, CountLeft, CountFinite DEF Clean, TypeInv, Acks
    <3>4. Writes' = Writes /\ Credit' = Credit /\ Limit' = Tries - 2
      BY <1>2, <2>1, <2>5, <3>1 DEF Writes, Credit, Limit
    <3>5. \A a \in Nat : a <= Acks - 1 => 2 * a + Writes <= Tries - 2 + Credit
      BY <2>4, <3>2, Counts DEF Clean
    <3>6. QED
      BY <3>3, <3>4, <3>5, Zenon
  <2>13. QED
    BY <1>0, <2>8, <2>10, <2>11, <2>12 DEF Clean
<1>5. QED
  BY <1>3, <1>4

(* A call that ends well: what is on the line is no longer looked at. *)
LEMMA Finished ==
    ASSUME Clean, TypeInv', NEW n \in Nat, NEW bytes \in Read(n), Drop(bytes),
           Goto("idle"),
           UNCHANGED <<output, call, kind, console, carried, line>>,
           pc \in {"blockAck", "data"}
    PROVE  Clean'
<1>1. /\ Len(bytes) \in Nat /\ input' \in Seq(Received) /\ Taken(input, input', Len(bytes))
  BY Reads DEF Clean, TypeInv
<1>2. Taken(output, output', 0)
  BY NoneTaken DEF Clean, TypeInv
<1>3. pc' = "idle" /\ try' = 0
  BY DEF Goto
<1>5. FirstTurn' = FirstTurn /\ LastTurn' = LastTurn
  BY <1>3 DEF FirstTurn, LastTurn, WakeSteps, SendSteps
<1>6. QED
  BY <1>1, <1>2, <1>3, <1>5, LineThinned DEF WakeSteps, SendSteps, WriteSteps

LEMMA BlockAnswerInv == Clean /\ BlockAnswer => kept' \/ Clean'
<1> SUFFICES ASSUME Clean, BlockAnswer PROVE kept' \/ Clean'
  OBVIOUS
<1>1. TypeInv'
  BY Typed DEF Clean, Next, ClientStep
<1>2. QED
  BY <1>1, Retries, Finished DEF BlockAnswer

LEMMA ReadDataInv == Clean /\ ReadData => kept' \/ Clean'
<1> SUFFICES ASSUME Clean, ReadData PROVE kept' \/ Clean'
  OBVIOUS
<1>0. TypeInv'
  BY Typed DEF Clean, Next, ClientStep
<1>1. PICK bytes \in Read(DataLen) :
        IF Valid(bytes)
        THEN Goto("idle") /\ Drop(bytes) /\ UNCHANGED <<output, kept>>
        ELSE Raise(bytes)
  BY DEF ReadData
<1>2. pc = "data" /\ UNCHANGED <<call, kind, console, carried, line>>
  BY DEF ReadData
<1>3. CASE Valid(bytes)
  BY <1>0, <1>1, <1>2, <1>3, Finished, WireTypes
<1>4. CASE ~Valid(bytes)
  BY <1>0, <1>1, <1>4, Raised
<1>5. QED
  BY <1>3, <1>4

-----------------------------------------------------------------------------
(* The line's steps and the console's *)

LEMMA LoseByteInv == Clean /\ LoseByte => Clean'
<1> SUFFICES ASSUME Clean, LoseByte PROVE Clean'
  OBVIOUS
<1>1. PICK k \in 1..Len(input) :
        input' = SubSeq(input, 1, k - 1) \o SubSeq(input, k + 1, Len(input))
  BY DEF LoseByte
<1>2. input' \in Seq(Received) /\ Taken(input, input', 0)
  BY <1>1, OneTaken DEF Clean, TypeInv
<1>3. lost' = lost + 1
      /\ UNCHANGED <<call, kind, pc, try, output, console, carried, stray, deaf>>
  BY DEF LoseByte
<1>4. Taken(output, output', 0)
  BY <1>3, NoneTaken DEF Clean, TypeInv
<1>5. TypeInv'
  BY Typed DEF Clean, Next
<1>6. FirstTurn' = FirstTurn /\ LastTurn' = LastTurn /\ Limit' = Limit
  BY <1>3 DEF FirstTurn, LastTurn, Limit
<1>7. Limit <= Limit'
  BY <1>6, Counts DEF Clean
<1>8. QED
  BY <1>2, <1>3, <1>4, <1>5, <1>6, <1>7, LineThinned

LEMMA BlockKept ==
    ASSUME NEW s \in Seq(Written), s # <<>>, Head(s).kind # "block", NEW c
    PROVE  Of(s, "block", c) # {} => Of(Tail(s), "block", c) # {}
<1> SUFFICES ASSUME NEW i \in Of(s, "block", c) PROVE Of(Tail(s), "block", c) # {}
  OBVIOUS
<1>1. i \in 1..Len(s) /\ s[i].kind = "block" /\ s[i].call = c
  BY DEF Of
<1>2. i # 1
  BY <1>1
<1>3. i - 1 \in 1..Len(Tail(s)) /\ Tail(s)[i - 1] = s[i]
  BY <1>1, <1>2
<1>4. QED
  BY <1>1, <1>3 DEF Of

LEMMA LoseWriteInv == Clean /\ LoseWrite => Clean'
<1> SUFFICES ASSUME Clean, LoseWrite PROVE Clean'
  OBVIOUS
<1>1. /\ output # <<>> /\ Head(output).kind # "block" /\ output' = Tail(output)
      /\ deaf' = deaf + 1
      /\ UNCHANGED <<call, kind, pc, try, input, console, carried, stray, lost>>
  BY DEF LoseWrite
<1>2. output' \in Seq(Written) /\ Taken(output, output', 1)
  BY <1>1, HeadTaken DEF Clean, TypeInv
<1>3. Taken(input, input', 0)
  BY <1>1, NoneTaken DEF Clean, TypeInv
<1>4. TypeInv'
  BY Typed DEF Clean, Next
<1>5. FirstTurn' = FirstTurn /\ LastTurn' = LastTurn /\ Limit' = Limit
  BY <1>1 DEF FirstTurn, LastTurn, Limit
<1>6. Limit <= Limit'
  BY <1>5, Counts DEF Clean
<1>7. Of(output, "block", call) # {} => Of(output', "block", call) # {}
  BY <1>1, BlockKept DEF Clean, TypeInv
<1>8. QED
  BY <1>1, <1>2, <1>3, <1>4, <1>5, <1>6, <1>7, LineThinned

(* The input grows by what is not understood, or by the answer to the write
   the console has just heard. *)
LEMMA Grows ==
    ASSUME TypeInv, InOrder, NEW a \in Seq(Received), input' = input \o a,
           NEW n \in {0, 1}, Taken(output, output', n), output' \in Seq(Written),
           UNCHANGED <<pc, call>>, n = 1 => output # <<>>,
           \A i \in 1..Len(a) :
               a[i].kind \in Free \/ (n = 1 /\ Turn(a[i]) = Turn(output[1]))
    PROVE  InOrder'
<1>1. input \in Seq(Received) /\ output \in Seq(Written)
  BY DEF TypeInv
<1>2. /\ input' \in Seq(Received) /\ Len(input') = Len(input) + Len(a)
      /\ \A i \in 1..Len(input) : input'[i] = input[i]
      /\ \A i \in 1..Len(input') : i > Len(input) =>
            i - Len(input) \in 1..Len(a) /\ input'[i] = a[i - Len(input)]
  BY <1>1, Joined
<1>3. PICK g \in [1..Len(output') -> 1..Len(output)] :
        \A i \in 1..Len(output') : output'[i] = output[g[i]] /\ g[i] > n
  BY DEF Taken
<1>4. \A i \in 1..Len(input') :
          \/ i \in 1..Len(input) /\ input'[i] = input[i]
          \/ /\ i > Len(input)
             /\ \/ input'[i].kind \in Free
                \/ n = 1 /\ Turn(input'[i]) = Turn(output[1])
  BY <1>1, <1>2
<1>5. n = 1 => 1 \in 1..Len(output) /\ output[1].kind \notin Free
  BY <1>1, TurnsOf
<1>6. Sorted(input')
  <2>1. SUFFICES ASSUME NEW i \in 1..Len(input'), NEW j \in 1..Len(input'), i < j,
                        input'[i].kind \notin Free, input'[j].kind \notin Free
                 PROVE  Turn(input'[i]) <= Turn(input'[j])
    BY DEF Sorted, Before
  <2>2. CASE j \in 1..Len(input)
    <3>1. i \in 1..Len(input)
      BY <1>1, <2>1, <2>2
    <3>2. Before(input[i], input[j])
      BY <2>1, <2>2, <3>1 DEF InOrder, Sorted
    <3>3. QED
      BY <1>2, <2>1, <2>2, <3>1, <3>2 DEF Before
  <2>3. CASE j \notin 1..Len(input)
    <3>1. n = 1 /\ Turn(input'[j]) = Turn(output[1])
      BY <1>4, <2>1, <2>3
    <3>2. CASE i \in 1..Len(input)
      <4>1. Before(input[i], output[1])
        BY <1>5, <3>1, <3>2 DEF InOrder, AllBefore
      <4>2. QED
        BY <1>2, <1>5, <2>1, <3>1, <3>2, <4>1 DEF Before
    <3>3. CASE i \notin 1..Len(input)
      <4>1. Turn(input'[i]) = Turn(output[1])
        BY <1>4, <2>1, <3>3
      <4>2. Turn(output[1]) \in Nat
        BY <1>1, <1>5, <3>1, TurnsOf
      <4>3. QED
        BY <3>1, <4>1, <4>2
    <3>4. QED
      BY <3>2, <3>3
  <2>4. QED
    BY <2>2, <2>3
<1>7. Sorted(output')
  BY <1>1, NoneTaken, OrderLeft DEF InOrder
<1>8. AllBefore(input', output')
  <2>1. SUFFICES ASSUME NEW i \in 1..Len(input'), NEW j \in 1..Len(output'),
                        input'[i].kind \notin Free, output'[j].kind \notin Free
                 PROVE  Turn(input'[i]) <= Turn(output'[j])
    BY DEF AllBefore, Before
  <2>2. g[j] \in 1..Len(output) /\ output'[j] = output[g[j]] /\ g[j] > n
    BY <1>3
  <2>3. CASE i \in 1..Len(input)
    <3>1. Before(input[i], output[g[j]])
      BY <2>2, <2>3 DEF InOrder, AllBefore
    <3>2. QED
      BY <1>2, <2>1, <2>2, <2>3, <3>1 DEF Before
  <2>4. CASE i \notin 1..Len(input)
    <3>1. n = 1 /\ Turn(input'[i]) = Turn(output[1])
      BY <1>4, <2>1, <2>4
    <3>2. Before(output[1], output[g[j]])
      BY <1>5, <2>2, <3>1 DEF InOrder, Sorted
    <3>3. QED
      BY <1>5, <2>1, <2>2, <3>1, <3>2 DEF Before
  <2>5. QED
    BY <2>3, <2>4
<1>9. Within(input', FirstTurn, LastTurn)
  <2>1. SUFFICES ASSUME NEW i \in 1..Len(input'), input'[i].kind \notin Free
                 PROVE  FirstTurn <= Turn(input'[i]) /\ Turn(input'[i]) <= LastTurn
    BY DEF Within
  <2>2. CASE i \in 1..Len(input)
    BY <1>2, <2>1, <2>2 DEF InOrder, Within
  <2>3. CASE i \notin 1..Len(input)
    <3>1. n = 1 /\ Turn(input'[i]) = Turn(output[1])
      BY <1>4, <2>1, <2>3
    <3>2. FirstTurn <= Turn(output[1]) /\ Turn(output[1]) <= LastTurn
      BY <1>5, <3>1, OwnTurns
    <3>3. QED
      BY <3>1, <3>2
  <2>4. QED
    BY <2>2, <2>3
<1>10. Within(output', FirstTurn, LastTurn)
  BY <1>1, NoneTaken, OrderLeft DEF InOrder
<1>11. FirstTurn' = FirstTurn /\ LastTurn' = LastTurn
  BY DEF FirstTurn, LastTurn
<1>12. QED
  BY <1>6, <1>7, <1>8, <1>9, <1>10, <1>11 DEF InOrder

LEMMA StrayByteInv == Clean /\ StrayByte => Clean'
<1> SUFFICES ASSUME Clean, StrayByte PROVE Clean'
  OBVIOUS
<1> DEFINE b == [kind |-> "stray", call |-> call, pos |-> 0]
<1>1. /\ stray' = stray + 1 /\ input' = Append(input, b)
      /\ UNCHANGED <<call, kind, pc, try, output, console, carried, lost, deaf>>
  BY DEF StrayByte, Byte
<1>2. b \in Received /\ b.kind = "stray"
  BY WireTypes DEF Clean, TypeInv, TypeOK, Received
<1> HIDE DEF b
<1>3. /\ input' \in Seq(Received) /\ Len(input') = Len(input) + 1
      /\ input' = input \o <<b>> /\ <<b>> \in Seq(Received)
      /\ \A i \in 1..Len(input') : input'[i] = b \/ (i \in 1..Len(input) /\ input'[i] = input[i])
  BY <1>1, <1>2, AppendProperties, AppendIsConcat DEF Clean, TypeInv
<1>4. TypeInv'
  BY Typed DEF Clean, Next
<1>5. InOrder'
  <2>1. Taken(output, output', 0) /\ output' \in Seq(Written)
    BY <1>1, NoneTaken DEF Clean, TypeInv
  <2>2. \A i \in 1..Len(<<b>>) : <<b>>[i].kind \in Free
    BY <1>2 DEF Free
  <2>3. QED
    <3>1. /\ UNCHANGED <<pc, call>> /\ 0 \in {0, 1} /\ (0 = 1 => output # <<>>)
          /\ \A i \in 1..Len(<<b>>) :
                <<b>>[i].kind \in Free \/ (0 = 1 /\ Turn(<<b>>[i]) = Turn(output[1]))
      BY <1>1, <2>2
    <3>2. TypeInv /\ InOrder /\ input' = input \o <<b>> /\ <<b>> \in Seq(Received)
      BY <1>3 DEF Clean
    <3>3. QED
      BY <2>1, <3>1, <3>2, Grows
<1>6. OwnBytes' /\ BlocksLast' /\ Expecting'
  BY <1>1, <1>2, <1>3 DEF Clean, OwnBytes, BlocksLast, Expecting
<1>7. Weighed'
  <2>1. Of(input', "ack", call) = Of(input, "ack", call)
    BY <1>1, <1>2, CountAppended DEF Clean, TypeInv
  <2>2. Acks' = Acks /\ Writes' = Writes /\ Credit' = Credit /\ Limit' = Limit
    BY <1>1, <2>1 DEF Acks, Writes, Credit, Limit
  <2>3. QED
    BY <1>1, <2>2 DEF Clean, Weighed
<1>8. QED
  BY <1>4, <1>5, <1>6, <1>7 DEF Clean

(* What the steps of the console that hears a write have in common. *)
LEMMA Hears ==
    ASSUME Clean, ConsoleHears, NEW a \in Seq(Received), input' = input \o a,
           \A i \in 1..Len(a) :
               /\ a[i].kind \in Free \/ Turn(a[i]) = Turn(Head(output))
               /\ a[i].kind = "ack" /\ a[i].call = call =>
                     kind = "write" \/ call \in carried',
           carried \subseteq carried', Expecting', Weighed'
    PROVE  Clean'
<1>1. /\ output # <<>> /\ output' = Tail(output)
      /\ UNCHANGED <<call, kind, pc, try, line>>
  BY DEF ConsoleHears
<1>2. /\ input \in Seq(Received) /\ output \in Seq(Written)
      /\ output' \in Seq(Written) /\ Taken(output, output', 1)
  BY <1>1, HeadTaken DEF Clean, TypeInv
<1>3. Head(output) = output[1] /\ 1 \in 1..Len(output)
  BY <1>1, <1>2
<1>4. /\ input' \in Seq(Received)
      /\ \A i \in 1..Len(input') :
            \/ i \in 1..Len(input) /\ input'[i] = input[i]
            \/ \E j \in 1..Len(a) : input'[i] = a[j]
  <2>1. /\ input' \in Seq(Received) /\ Len(input') = Len(input) + Len(a)
        /\ \A i \in 1..Len(input) : input'[i] = input[i]
        /\ \A i \in 1..Len(input') : i > Len(input) =>
              i - Len(input) \in 1..Len(a) /\ input'[i] = a[i - Len(input)]
    BY <1>2, Joined
  <2>2. \A i \in 1..Len(input') : i \in 1..Len(input) \/ i > Len(input)
    BY <1>2, <2>1
  <2>3. QED
    BY <2>1, <2>2
<1>5. PICK g \in [1..Len(output') -> 1..Len(output)] :
        /\ \A i \in 1..Len(output') : output'[i] = output[g[i]] /\ g[i] > 1
        /\ \A i, j \in 1..Len(output') : i < j => g[i] < g[j]
  BY <1>2 DEF Taken
<1>6. TypeInv'
  BY TypedObey DEF Clean
<1>7. InOrder'
  <2>1. /\ UNCHANGED <<pc, call>> /\ 1 \in {0, 1} /\ (1 = 1 => output # <<>>)
        /\ \A i \in 1..Len(a) :
              a[i].kind \in Free \/ (1 = 1 /\ Turn(a[i]) = Turn(output[1]))
    BY <1>1, <1>3
  <2>2. QED
    BY <1>2, <2>1, Grows DEF Clean
<1>8. OwnBytes'
  <2>1. ASSUME NEW i \in 1..Len(output'), output'[i].call = call
        PROVE  \/ output'[i].kind \in {"wake", kind}
               \/ output'[i].kind = "block" /\ kind = "write" /\ pc \notin SendSteps
    <3>1. g[i] \in 1..Len(output) /\ output'[i] = output[g[i]]
      BY <1>5
    <3>2. QED
      BY <2>1, <3>1 DEF Clean, OwnBytes
  <2>2. ASSUME NEW i \in 1..Len(input'), input'[i].call = call, input'[i].kind = "ack"
        PROVE  kind = "write" \/ call \in carried'
    <3>1. CASE i \in 1..Len(input) /\ input'[i] = input[i]
      BY <2>2, <3>1 DEF Clean, OwnBytes
    <3>2. CASE \E j \in 1..Len(a) : input'[i] = a[j]
      BY <2>2, <3>2
    <3>3. QED
      BY <1>4, <3>1, <3>2
  <2>3. QED
    BY <1>1, <2>1, <2>2 DEF OwnBytes
<1>9. BlocksLast'
  BY <1>1, <1>5 DEF Clean, BlocksLast
<1>10. QED
  BY <1>6, <1>7, <1>8, <1>9 DEF Clean

(* The weighing, when the answer has no acknowledgement of this call's. *)
LEMMA StillWeighed ==
    ASSUME Clean, ConsoleHears, NEW a \in Seq(Received), input' = input \o a,
           Of(a, "ack", call) = {}, carried \subseteq carried',
           kind = "write" /\ call \notin carried' /\ pc \in SendSteps \cup WriteSteps =>
               \/ console' = console /\ Head(output).kind # "block"
               \/ console # call /\ console' # call
               \/ Head(output).kind = "write"
    PROVE  Weighed'
<1>1. /\ output # <<>> /\ output' = Tail(output) /\ output \in Seq(Written)
      /\ UNCHANGED <<call, kind, pc, try>>
  BY DEF ConsoleHears, Clean, TypeInv
<1>2. /\ input \in Seq(Received) /\ output' \in Seq(Written) /\ Taken(output, output', 1)
      /\ Head(output) = output[1] /\ 1 \in 1..Len(output)
  BY <1>1, HeadTaken DEF Clean, TypeInv
<1>3. SUFFICES ASSUME kind = "write", call \notin carried', pc \in SendSteps \cup WriteSteps
      PROVE  /\ 2 * Acks' + Writes' <= Limit' + Credit'
             /\ pc = "blockAck" =>
                   \/ Of(output', "block", call) # {}
                   \/ Of(output', "write", call) = {} /\ console' # call
  BY <1>1 DEF Weighed
<1>4. /\ 2 * Acks + Writes <= Limit + Credit
      /\ pc = "blockAck" =>
            \/ Of(output, "block", call) # {}
            \/ Of(output, "write", call) = {} /\ console # call
  BY <1>3 DEF Clean, Weighed
<1>5. Acks' = Acks /\ Limit' = Limit
  <2>1. Of(input', "ack", call) = Of(input, "ack", call)
    BY <1>2, CountJoined
  <2>2. QED
    BY <1>1, <2>1 DEF Acks, Limit
<1>6. /\ Writes' <= Writes /\ Writes' \in Nat
      /\ Of(output, "write", call) = {} => Of(output', "write", call) = {}
  BY <1>1, <1>2, CountLeft, CountFinite DEF Writes
<1>7. output[1].call = call
  BY <1>2, <1>3, OwnTurns DEF Clean, WakeSteps, SendSteps, WriteSteps
<1>8. output[1].kind # "block" /\ Of(output, "block", call) # {} => Of(output', "block", call) # {}
  BY <1>1, <1>2, BlockKept
<1>9. CASE console' = console /\ Head(output).kind # "block"
  <2>1. Credit' = Credit
    BY <1>1, <1>9 DEF Credit
  <2>2. \A w \in Nat : w <= Writes => 2 * Acks + w <= Limit + Credit
    BY <1>4, Counts DEF Clean
  <2>3. 2 * Acks' + Writes' <= Limit' + Credit'
    BY <1>5, <1>6, <2>1, <2>2, Zenon
  <2>4. QED
    BY <1>2, <1>4, <1>6, <1>8, <1>9, <2>3
<1>10. CASE console # call /\ console' # call
  <2>1. Credit' = 0 /\ Credit = 0
    BY <1>1, <1>10 DEF Credit
  <2>2. \A w \in Nat : w <= Writes => 2 * Acks + w <= Limit + 0
    BY <1>4, <2>1, Counts DEF Clean
  <2>3. 2 * Acks' + Writes' <= Limit' + Credit'
    BY <1>5, <1>6, <2>1, <2>2, Zenon
  <2>4. CASE output[1].kind = "block"
    <3>1. \A j \in 1..Len(output) : output[j].kind = "block"
      BY <1>1, <1>2, <1>7, <2>4 DEF Clean, BlocksLast
    <3>2. Of(output, "write", call) = {}
      BY <3>1 DEF Of
    <3>3. QED
      BY <1>6, <1>10, <2>3, <3>2
  <2>5. CASE output[1].kind # "block"
    BY <1>4, <1>6, <1>8, <1>10, <2>3, <2>5
  <2>6. QED
    BY <2>4, <2>5
<1>11. CASE Head(output).kind = "write"
  <2>1. Writes' <= Writes - 1
    <3>1. 1 \in Nat /\ 1 > 0 /\ output # <<>>
             /\ output[1].kind = "write" /\ output[1].call = call
      BY <1>1, <1>2, <1>7, <1>11
    <3>2. Cardinality(Of(output', "write", call)) <= Cardinality(Of(output, "write", call)) - 1
      BY <1>1, <1>2, <3>1, CountLeft
    <3>3. QED
      BY <1>1, <3>2 DEF Writes
  <2>2. Credit' \in {0, 1}
    BY DEF Credit
  <2>3. \A w \in Nat, c \in {0, 1} : w <= Writes - 1 => 2 * Acks + w <= Limit + c
    BY <1>4, Counts, SMTT(30) DEF Clean
  <2>4. 2 * Acks' + Writes' <= Limit' + Credit'
    BY <1>5, <1>6, <2>1, <2>2, <2>3, Zenon
  <2>5. Of(output, "write", call) # {}
    BY <1>2, <1>7, <1>11 DEF Of
  <2>6. QED
    BY <1>2, <1>4, <1>8, <1>11, <2>4, <2>5
<1>12. QED
  BY <1>3, <1>9, <1>10, <1>11

(* A console that goes on waiting for this call's block has not heard another
   of its wake-ups. *)
LEMMA StillExpecting ==
    ASSUME Clean, ConsoleHears, console' \in {0, console, Spoiled}
    PROVE  Expecting'
<1>1. /\ output # <<>> /\ output' = Tail(output) /\ output \in Seq(Written)
      /\ UNCHANGED <<call, pc>>
  BY DEF ConsoleHears, Clean, TypeInv
<1>2. PICK g \in [1..Len(output') -> 1..Len(output)] :
        \A i \in 1..Len(output') : output'[i] = output[g[i]]
  BY <1>1, HeadTaken DEF Taken
<1>3. call \in 0..MaxCalls /\ call # Spoiled
  BY WireTypes DEF Clean, TypeInv, TypeOK, Spoiled
<1>4. console' = call /\ call > 0 => console = call
  BY <1>3
<1>5. QED
  BY <1>1, <1>2, <1>4 DEF Clean, Expecting

LEMMA ConsoleHearsInv == Clean /\ ConsoleHears => Clean'
<1> SUFFICES ASSUME Clean, ConsoleHears PROVE Clean'
  OBVIOUS
<1> DEFINE w == Head(output)
<1>1. /\ output # <<>> /\ output' = Tail(output) /\ output \in Seq(Written) /\ Obey(w)
      /\ input \in Seq(Received) /\ UNCHANGED <<call, kind, pc, try, line>>
  BY DEF ConsoleHears, Clean, TypeInv
<1>2. 1 \in 1..Len(output) /\ w = output[1] /\ w \in Written
  BY <1>1
<1> HIDE DEF w
<1>3. /\ w.call \in 1..MaxCalls /\ w.call # Spoiled
      /\ call \in 0..MaxCalls /\ call # Spoiled /\ carried \subseteq 1..MaxCalls
  BY <1>2, WireTypes, SMTT(30) DEF Written, Clean, TypeInv, TypeOK, Spoiled
<1>4. ASSUME w.call = call
      PROVE  w.kind \in {"wake", kind} \/ (w.kind = "block" /\ kind = "write" /\ pc \notin SendSteps)
  BY <1>2, <1>4 DEF Clean, OwnBytes
<1>5. pc \in SendSteps \cup WriteSteps => w.call = call
  BY <1>2, OwnTurns DEF Clean, WakeSteps, SendSteps, WriteSteps
<1>6. ASSUME NEW k \in {"lf", "cr", "ack", "nack"}, NEW b, b = Byte(k, w.call)
      PROVE  b \in Received /\ b.kind = k /\ b.call = w.call
  BY <1>3, <1>6, WireTypes DEF Byte, Received
<1>7. kind \in Kinds
  BY DEF Clean, TypeInv, TypeOK
<1>8. CASE w.kind = "wake" /\ console = 0 /\ input' = input \o WakeAck(w.call)
           /\ UNCHANGED <<console, carried>>
  <2> DEFINE a == WakeAck(w.call)
  <2>1. /\ a \in Seq(Received) /\ Len(a) = 2
        /\ \A i \in 1..Len(a) : a[i].kind \in {"lf", "cr"} /\ a[i].call = w.call
    BY <1>6 DEF WakeAck
  <2> HIDE DEF a
  <2>2. \A i \in 1..Len(a) : Turn(a[i]) = Turn(w) /\ a[i].kind # "ack"
    BY <1>8, <2>1 DEF Turn
  <2>3. Of(a, "ack", call) = {}
    BY <2>2 DEF Of
  <2>4. input' = input \o a
    BY <1>8 DEF a
  <2>5. Expecting' /\ Weighed'
    BY <1>8, <2>1, <2>3, <2>4, StillExpecting, StillWeighed DEF w
  <2>6. QED
    BY <1>3, <1>8, <2>1, <2>2, <2>4, <2>5, Hears DEF w
<1>9. CASE w.kind \in Asking /\ console = 0
           /\ input' = input \o <<Byte("ack", w.call)>> \o Data(w.call)
           /\ carried' = carried \cup {w.call} /\ UNCHANGED console
  <2> DEFINE b == Byte("ack", w.call)
             d == Data(w.call)
             a == <<b>> \o d
  <2>1. b \in Received /\ b.kind = "ack" /\ b.call = w.call
    BY <1>6
  <2>2. d \in Seq(Received) /\ \A i \in 1..Len(d) : d[i].kind = "data" /\ d[i].call = w.call
    <3>1. Len(d) = DataLen
      BY WireTypes DEF Data
    <3>2. \A i \in 1..DataLen : d[i] = [kind |-> "data", call |-> w.call, pos |-> i]
      BY DEF Data
    <3>3. ASSUME NEW i \in 1..DataLen PROVE d[i] \in Received
      <4>1. [kind |-> "data", call |-> w.call, pos |-> i] \in Received
        BY <1>3, WireTypes DEF Received
      <4>2. QED
        BY <3>2, <4>1
    <3>4. d \in Seq(Received)
      BY <3>3, WireTypes DEF Data
    <3>5. ASSUME NEW i \in 1..Len(d) PROVE d[i].kind = "data" /\ d[i].call = w.call
      <4>1. d[i] = [kind |-> "data", call |-> w.call, pos |-> i]
        BY <3>1, <3>2
      <4>2. QED
        BY <4>1
    <3>6. QED
      BY <3>4, <3>5
  <2> HIDE DEF b, d
  <2>3. /\ a \in Seq(Received)
        /\ \A i \in 1..Len(a) : a[i].kind \in {"ack", "data"} /\ a[i].call = w.call
    <3>1. <<b>> \in Seq(Received) /\ Len(<<b>>) = 1 /\ <<b>>[1] = b
      BY <2>1
    <3>2. /\ a \in Seq(Received) /\ Len(a) = 1 + Len(d)
          /\ \A i \in 1..1 : a[i] = <<b>>[i]
          /\ \A i \in 1..Len(a) : i > 1 => i - 1 \in 1..Len(d) /\ a[i] = d[i - 1]
      BY <2>2, <3>1, Joined
    <3>3. ASSUME NEW i \in 1..Len(a)
          PROVE  a[i].kind \in {"ack", "data"} /\ a[i].call = w.call
      <4>1. CASE i = 1
        BY <2>1, <3>1, <3>2, <4>1
      <4>2. CASE i # 1
        <5>1. i > 1
          BY <4>2
        <5>2. i - 1 \in 1..Len(d) /\ a[i] = d[i - 1]
          BY <3>2, <5>1
        <5>3. QED
          BY <2>2, <5>2
      <4>3. QED
        BY <4>1, <4>2
    <3>4. QED
      BY <3>2, <3>3
  <2>4. input' = input \o a
    <3>1. <<b>> \in Seq(Received)
      BY <2>1
    <3>2. (input \o <<b>>) \o d = input \o (<<b>> \o d)
      BY <1>1, <2>2, <3>1, ConcatAssociative
    <3>3. QED
      BY <1>9, <3>2 DEF b, d
  <2> HIDE DEF a
  <2>5. \A i \in 1..Len(a) : Turn(a[i]) = Turn(w)
    BY <1>9, <2>3 DEF Turn, Asking
  <2>6. \A i \in 1..Len(a) : a[i].call = call => call \in carried'
    BY <1>9, <2>3
  <2>7. Expecting'
    BY <1>9, StillExpecting
  <2>8. Weighed'
    <3>1. CASE w.call = call
      BY <1>1, <1>4, <1>9, <3>1 DEF Weighed, Asking
    <3>2. CASE w.call # call
      BY <1>1, <1>5, <3>2 DEF Weighed
    <3>3. QED
      BY <3>1, <3>2
  <2>9. QED
    BY <1>3, <1>9, <2>3, <2>4, <2>5, <2>6, <2>7, <2>8, Hears DEF w
<1>10. CASE w.kind = "set" /\ console = 0 /\ input' = Append(input, Byte("ack", w.call))
            /\ carried' = carried \cup {w.call} /\ UNCHANGED console
  <2> DEFINE b == Byte("ack", w.call)
  <2>1. b \in Received /\ b.kind = "ack" /\ b.call = w.call
    BY <1>6
  <2>2. input' = Append(input, b)
    BY <1>10
  <2> HIDE DEF b
  <2>3. input' = input \o <<b>> /\ <<b>> \in Seq(Received)
    BY <1>1, <2>1, <2>2, AppendIsConcat
  <2>4. \A i \in 1..Len(<<b>>) : <<b>>[i] = b
    OBVIOUS
  <2>5. Turn(b) = Turn(w) /\ (b.call = call => call \in carried')
    BY <1>10, <2>1 DEF Turn
  <2>6. Expecting'
    BY <1>10, StillExpecting
  <2>7. Weighed'
    <3>1. CASE w.call = call
      BY <1>1, <1>4, <1>10, <3>1 DEF Weighed
    <3>2. CASE w.call # call
      BY <1>1, <1>5, <3>2 DEF Weighed
    <3>3. QED
      BY <3>1, <3>2
  <2>8. QED
    BY <1>3, <1>10, <2>3, <2>4, <2>5, <2>6, <2>7, Hears DEF w
<1>11. CASE w.kind = "write" /\ console = 0 /\ input' = Append(input, Byte("ack", w.call))
            /\ console' = w.call /\ UNCHANGED carried
  <2> DEFINE b == Byte("ack", w.call)
  <2>1. b \in Received /\ b.kind = "ack" /\ b.call = w.call
    BY <1>6
  <2>2. input' = Append(input, b)
    BY <1>11
  <2> HIDE DEF b
  <2>3. input' = input \o <<b>> /\ <<b>> \in Seq(Received)
    BY <1>1, <2>1, <2>2, AppendIsConcat
  <2>4. \A i \in 1..Len(<<b>>) : <<b>>[i] = b
    OBVIOUS
  <2>5. Turn(b) = Turn(w) /\ Turn(w) = 2 * w.call + 1
    BY <1>11, <2>1 DEF Turn
  <2>6. b.call = call => kind = "write"
    BY <1>4, <1>7, <1>11, <2>1 DEF Kinds
  <2>7. Expecting'
    <3>1. SUFFICES ASSUME w.call = call
                   PROVE  /\ pc \notin WakeSteps
                          /\ \A i \in 1..Len(output') : Turn(output'[i]) = 2 * call + 1
      BY <1>1, <1>11 DEF Expecting
    <3>2. pc \notin WakeSteps
      BY <1>2, <1>11, <3>1, OwnTurns DEF Clean
    <3>3. PICK g \in [1..Len(output') -> 1..Len(output)] :
            \A i \in 1..Len(output') : output'[i] = output[g[i]] /\ g[i] > 1
      BY <1>1, HeadTaken DEF Taken
    <3>4. ASSUME NEW i \in 1..Len(output') PROVE Turn(output'[i]) = 2 * call + 1
      <4>1. g[i] \in 1..Len(output) /\ g[i] > 1 /\ output'[i] = output[g[i]]
        BY <3>3
      <4>2. Before(output[1], output[g[i]])
        BY <1>2, <4>1 DEF Clean, InOrder, Sorted
      <4>3. output[1] \in Written /\ output[g[i]] \in Written
        BY <1>1, <1>2, <4>1
      <4>4. 2 * call + 1 <= Turn(output[g[i]])
        BY <1>2, <2>5, <3>1, <4>2, <4>3, TurnsOf DEF Before
      <4>5. Turn(output[g[i]]) <= LastTurn /\ LastTurn = 2 * call + 1
        BY <3>2, <4>1, OwnTurns DEF Clean, LastTurn
      <4>6. Turn(output[g[i]]) \in Nat /\ call \in Nat
        BY <1>3, <4>3, TurnsOf, WireTypes
      <4>7. QED
        BY <4>1, <4>4, <4>5, <4>6
    <3>5. QED
      BY <3>2, <3>4
  <2>8. Weighed'
    <3>1. SUFFICES ASSUME kind = "write", call \notin carried, pc \in SendSteps \cup WriteSteps
          PROVE  /\ 2 * Acks' + Writes' <= Limit' + Credit'
                 /\ pc = "blockAck" => Of(output', "block", call) # {}
      BY <1>1, <1>11 DEF Weighed
    <3>2. /\ 2 * Acks + Writes <= Limit + Credit
          /\ pc = "blockAck" =>
                \/ Of(output, "block", call) # {}
                \/ Of(output, "write", call) = {} /\ console # call
      BY <3>1 DEF Clean, Weighed
    <3>3. w.call = call
      BY <1>5, <3>1
    <3>4. Credit = 0 /\ Credit' = 1 /\ Limit' = Limit
      BY <1>1, <1>3, <1>11, <3>3, WireTypes DEF Credit, Limit
    <3>5. Acks' <= Acks + 1 /\ Acks' \in Nat
      <4>1. Cardinality(Of(input', "ack", call)) <= Cardinality(Of(input, "ack", call)) + 1
        BY <1>1, <2>1, <2>2, CountAppended
      <4>2. input' \in Seq(Received)
        BY <1>1, <2>1, <2>2, AppendProperties
      <4>3. Cardinality(Of(input', "ack", call)) \in Nat
        BY <4>2, CountFinite
      <4>4. QED
        BY <1>1, <4>1, <4>3 DEF Acks
    <3>6. /\ Cardinality(Of(output', "write", call)) <= Cardinality(Of(output, "write", call)) - 1
          /\ Cardinality(Of(output', "write", call)) \in Nat
      <4>1. 1 \in Nat /\ 1 > 0 /\ output # <<>>
             /\ output[1].kind = "write" /\ output[1].call = call
        BY <1>1, <1>2, <1>11, <3>3
      <4>2. output' \in Seq(Written) /\ Taken(output, output', 1)
        BY <1>1, HeadTaken
      <4>3. QED
        BY <1>1, <4>1, <4>2, CountLeft, CountFinite
    <3>7. Writes' <= Writes - 1 /\ Writes' \in Nat
      BY <1>1, <3>6 DEF Writes
    <3>8. \A x, y \in Nat : x <= Acks + 1 /\ y <= Writes - 1 => 2 * x + y <= Limit + 1
      BY <3>2, <3>4, Counts DEF Clean
    <3>9. 2 * Acks' + Writes' <= Limit' + Credit'
      BY <3>4, <3>5, <3>7, <3>8, Zenon
    <3>10. Of(output, "write", call) # {}
      BY <1>2, <1>11, <3>3 DEF Of
    <3>11. Of(output, "block", call) # {} => Of(output', "block", call) # {}
      BY <1>1, <1>11, BlockKept DEF w
    <3>12. QED
      BY <3>2, <3>9, <3>10, <3>11
  <2>9. QED
    BY <1>3, <1>11, <2>1, <2>3, <2>4, <2>5, <2>6, <2>7, <2>8, Hears DEF w
<1>12. CASE w.kind = "block" /\ console = w.call /\ input' = Append(input, Byte("ack", w.call))
            /\ console' = 0 /\ carried' = carried \cup {w.call}
  <2> DEFINE b == Byte("ack", w.call)
  <2>1. b \in Received /\ b.kind = "ack" /\ b.call = w.call
    BY <1>6
  <2>2. input' = Append(input, b)
    BY <1>12
  <2> HIDE DEF b
  <2>3. input' = input \o <<b>> /\ <<b>> \in Seq(Received)
    BY <1>1, <2>1, <2>2, AppendIsConcat
  <2>4. \A i \in 1..Len(<<b>>) : <<b>>[i] = b
    OBVIOUS
  <2>5. Turn(b) = Turn(w) /\ (b.call = call => call \in carried')
    BY <1>12, <2>1 DEF Turn
  <2>6. Expecting'
    BY <1>12, StillExpecting
  <2>7. Weighed'
    BY <1>1, <1>5, <1>12 DEF Weighed
  <2>8. QED
    BY <1>3, <1>12, <2>3, <2>4, <2>5, <2>6, <2>7, Hears DEF w
<1>13. CASE /\ IF w.kind = "block" THEN console # w.call ELSE console # 0
            /\ \E answer \in {<<>>, <<Byte("nack", w.call)>>} : input' = input \o answer
            /\ console' \in IF console = 0 THEN {0} ELSE {0, Spoiled}
            /\ UNCHANGED carried
  <2>1. PICK a \in {<<>>, <<Byte("nack", w.call)>>} : input' = input \o a
    BY <1>13
  <2>2. /\ a \in Seq(Received)
        /\ \A i \in 1..Len(a) : a[i].kind = "nack"
    <3>1. Byte("nack", w.call) \in Received /\ Byte("nack", w.call).kind = "nack"
      BY <1>6
    <3>2. CASE a = <<>>
      BY <3>2
    <3>3. CASE a = <<Byte("nack", w.call)>>
      BY <3>1, <3>3
    <3>4. QED
      BY <2>1, <3>2, <3>3
  <2>3. Of(a, "ack", call) = {}
    BY <2>2 DEF Of
  <2>4. console' \in {0, Spoiled}
    BY <1>13
  <2>5. Expecting'
    BY <2>4, StillExpecting
  <2>6. Weighed'
    <3>1. ASSUME kind = "write", pc \in SendSteps \cup WriteSteps
          PROVE  (console # call /\ console' # call) \/ w.kind = "write"
      <4>1. w.call = call /\ call > 0
        BY <1>3, <1>5, <3>1, WireTypes
      <4>2. console' # call
        BY <1>3, <2>4, <4>1
      <4>3. w.kind \in {"wake", "write", "block"}
        BY <1>4, <3>1, <4>1
      <4>4. CASE w.kind = "wake"
        <5>1. Turn(w) = 2 * call
          BY <4>1, <4>4 DEF Turn
        <5>2. Turn(w) # 2 * call + 1
          BY <1>3, <5>1, WireTypes
        <5>3. console # call
          BY <1>2, <4>1, <5>2 DEF Clean, Expecting
        <5>4. QED
          BY <4>2, <5>3
      <4>5. CASE w.kind = "block"
        BY <1>13, <4>1, <4>2, <4>5
      <4>6. QED
        BY <4>3, <4>4, <4>5
    <3>2. QED
      BY <1>13, <2>1, <2>2, <2>3, <3>1, StillWeighed DEF w
  <2>7. QED
    BY <1>3, <1>13, <2>1, <2>2, <2>4, <2>5, <2>6, Hears DEF w, Free
<1>14. QED
  BY <1>1, <1>8, <1>9, <1>10, <1>11, <1>12, <1>13 DEF Obey

-----------------------------------------------------------------------------
(* A link that a failure was passed over on stays one until it is closed. *)
LEMMA KeptStays ==
    ASSUME TypeInv, kept, Next, TypeInv'
    PROVE  kept' \/ Clean'
<1>1. CASE CloseLink
  BY <1>1, Emptied DEF CloseLink
<1>2. ASSUME NEW step, NEW bytes, RetryOrRaise(step, bytes) PROVE kept' \/ Clean'
  BY <1>2, Raised DEF RetryOrRaise
<1>3. CASE SkipStray
  BY <1>2, <1>3 DEF SkipStray
<1>4. CASE SendAnswer
  BY <1>2, <1>4 DEF SendAnswer
<1>5. CASE BlockAnswer
  BY <1>2, <1>5 DEF BlockAnswer
<1>6. CASE ReadData
  BY <1>6, Raised DEF ReadData
<1>7. ASSUME \/ ConsoleHears \/ StrayByte \/ LoseByte \/ LoseWrite \/ StartCall
             \/ WakeUp \/ WakeAnswer \/ Send \/ SendBlock
      PROVE  kept' = kept
  BY <1>7 DEF ConsoleHears, StrayByte, LoseByte, LoseWrite, StartCall, WakeUp, WakeAnswer,
     Send, SendBlock
<1>8. QED
  BY <1>1, <1>3, <1>4, <1>5, <1>6, <1>7 DEF Next, ClientStep

(* On a link on which no failure was passed over, the line's order and the
   weighing hold, for any number of tries; the types hold on every link. *)
THEOREM Invariance == Spec => []IInv
<1>1. Init => IInv
  <2> SUFFICES ASSUME Init PROVE IInv
    OBVIOUS
  <2>1. Len(input) = 0 /\ Len(output) = 0
    BY DEF Init
  <2>2. TypeInv
    <3>1. /\ \A i \in 1..Len(input) : input[i].call \in 0..MaxCalls
          /\ \A i \in 1..Len(output) : output[i].call \in 1..MaxCalls
          /\ \A i \in 1..Len(output) : output[i].call <= call
      BY <2>1
    <3>2. call \in 0..MaxCalls /\ try \in 0..Tries - 1 /\ console \in 0..Spoiled
      BY WireTypes DEF Init, Spoiled
    <3>3. kind \in Kinds /\ pc \in Steps /\ carried \subseteq 1..MaxCalls /\ kept \in BOOLEAN
      BY DEF Init, Kinds, Steps
    <3>4. TypeOK
      BY <3>1, <3>2, <3>3 DEF TypeOK
    <3>5. QED
      BY <3>1, <3>4, WireTypes DEF Init, TypeInv
  <2>3. InOrder /\ OwnBytes /\ BlocksLast
    BY <2>1 DEF InOrder, Sorted, AllBefore, Within, OwnBytes, BlocksLast
  <2>4. Expecting /\ Weighed
    BY DEF Init, Expecting, Weighed, SendSteps, WriteSteps
  <2>5. QED
    BY <2>2, <2>3, <2>4 DEF IInv, Clean
<1>2. IInv /\ [Next]_vars => IInv'
  <2> SUFFICES ASSUME IInv, [Next]_vars PROVE IInv'
    OBVIOUS
  <2>1. TypeInv /\ TypeInv'
    BY Typed DEF IInv
  <2>2. CASE UNCHANGED vars
    BY <2>1, <2>2 DEF vars, line, IInv, Clean, InOrder, FirstTurn, LastTurn,
       OwnBytes, BlocksLast, Expecting, Weighed, Acks, Writes, Credit, Limit
  <2>3. CASE Next /\ kept
    BY <2>1, <2>3, KeptStays DEF IInv
  <2>4. CASE Next /\ ~kept
    <3>1. Clean
      BY <2>4 DEF IInv
    <3>2. ASSUME ClientStep PROVE kept' \/ Clean'
      BY <3>1, <3>2, WakeUpInv, WakeAnswerInv, SkipStrayInv, SendInv, SendAnswerInv,
         SendBlockInv, BlockAnswerInv, ReadDataInv DEF ClientStep
    <3>3. ASSUME CloseLink PROVE kept' \/ Clean'
      BY <2>1, <3>3, Emptied DEF CloseLink
    <3>4. kept' \/ Clean'
      BY <2>4, <3>1, <3>2, <3>3, ConsoleHearsInv, StrayByteInv, LoseByteInv, LoseWriteInv,
         StartCallInv DEF Next
    <3>5. QED
      BY <2>1, <3>4 DEF IInv
  <2>5. QED
    BY <2>2, <2>3, <2>4
<1>3. QED
  BY <1>1, <1>2, PTL DEF Spec

(* Every variable has its type, and nothing is tried too often. *)
THEOREM TypeCorrect == Spec => []TypeOK
<1>1. IInv => TypeOK
  BY DEF IInv, TypeInv
<1>2. QED
  BY <1>1, Invariance, PTL

LEMMA AckNext ==
    ASSUME input \in Seq(Received), ComesNext(<<"ack">>)
    PROVE  1 \in 1..Len(input) /\ input[1].kind = "ack"
<1>1. Len(input) >= 1 /\ SubSeq(input, 1, 1)[1].kind = "ack"
  BY DEF ComesNext, Is
<1>2. SubSeq(input, 1, 1)[1] = input[1]
  BY <1>1
<1>3. QED
  BY <1>1, <1>2

(* An acknowledgement taken for a command's is that of a command of this
   call, however late, stray or lost bytes are, unless the failure of an
   "extra" was passed over on this link: that is the only way to break it. *)
THEOREM AckCorrect == Spec => []AckIsOwn
<1>1. IInv => AckIsOwn
  <2> SUFFICES ASSUME Clean, pc = "ack", ComesNext(<<"ack">>)
               PROVE  input[1].call = call /\ (kind = "write" \/ call \in carried)
    BY DEF AckIsOwn, IInv
  <2>1. input \in Seq(Received)
    BY DEF Clean, TypeInv
  <2>2. 1 \in 1..Len(input) /\ input[1].kind = "ack"
    BY <2>1, AckNext
  <2>3. input[1].call = call
    BY <2>2, OwnTurns DEF Clean, WakeSteps, Free
  <2>4. QED
    BY <2>2, <2>3 DEF Clean, OwnBytes
<1>2. QED
  BY <1>1, Invariance, PTL

(* A valid block is the answer to this call's command, on every link on which
   no failure was passed over. *)
THEOREM AnswerCorrect == Spec => []AnswerIsOwn
<1>1. IInv => AnswerIsOwn
  <2> SUFFICES ASSUME Clean, pc = "data", Len(input) >= DataLen,
                      Valid(SubSeq(input, 1, DataLen))
               PROVE  input[1].call = call
    BY DEF AnswerIsOwn, IInv
  <2>1. input \in Seq(Received) /\ 1 \in 1..Len(input) /\ 1 \in 1..DataLen
    BY WireTypes DEF Clean, TypeInv
  <2>2. SubSeq(input, 1, DataLen)[1] = input[1]
    BY <2>1, WireTypes
  <2>3. PICK c : SubSeq(input, 1, DataLen) = Data(c)
    BY DEF Valid
  <2>4. input[1].kind = "data"
    <3>1. Data(c)[1] = [kind |-> "data", call |-> c, pos |-> 1]
      BY <2>1 DEF Data
    <3>2. input[1] = [kind |-> "data", call |-> c, pos |-> 1]
      BY <2>2, <2>3, <3>1
    <3>3. QED
      BY <3>2
  <2>5. QED
    BY <2>1, <2>4, OwnTurns DEF Clean, WakeSteps, Free
<1>2. QED
  BY <1>1, Invariance, PTL

(* A write that is about to report success on such a link was stored, or
   will be: this is where the number of tries matters, as a fourth command
   could be acknowledged a second time without a block to follow. *)
THEOREM WriteCorrect ==
    ASSUME Tries <= 3
    PROVE  Spec => []WriteConfirmed
<1>1. IInv => WriteConfirmed
  <2> SUFFICES ASSUME Clean, pc = "blockAck", ComesNext(<<"ack">>), call \notin carried
               PROVE  console = call /\ output # <<>> /\ Head(output).kind = "block"
    BY DEF WriteConfirmed, IInv
  <2>1. input \in Seq(Received) /\ output \in Seq(Written)
    BY DEF Clean, TypeInv
  <2>2. 1 \in 1..Len(input) /\ input[1].kind = "ack"
    BY <2>1, AckNext
  <2>3. input[1].call = call
    BY <2>2, OwnTurns DEF Clean, WakeSteps, Free
  <2>4. kind = "write"
    BY DEF Clean, TypeInv
  <2>5. /\ 2 * Acks + Writes <= Limit + Credit /\ Limit = Tries - 2
        /\ \/ Of(output, "block", call) # {}
           \/ Of(output, "write", call) = {} /\ console # call
    BY <2>4 DEF Clean, Weighed, Limit, WriteSteps
  <2>6. Acks # 0
    <3>1. 1 \in Of(input, "ack", call)
      BY <2>2, <2>3 DEF Of
    <3>2. IsFiniteSet(Of(input, "ack", call))
      BY <2>1, CountFinite
    <3>3. QED
      BY <3>1, <3>2, FS_EmptySet DEF Acks
  <2>7. Writes = 0 /\ Credit = 1
    <3>1. Acks \in Nat /\ Writes \in Nat /\ Credit \in {0, 1} /\ Tries \in Nat
      BY Counts, WireTypes DEF Clean
    <3>2. 2 * Acks + Writes <= 1 + Credit
      BY <2>5, <3>1
    <3>3. QED
      BY <2>6, <3>1, <3>2
  <2>8. console = call
    BY <2>7 DEF Credit
  <2>9. Of(output, "write", call) = {}
    BY <2>1, <2>7, CountFinite, FS_EmptySet DEF Writes
  <2>10. output # <<>> /\ 1 \in 1..Len(output)
    BY <2>1, <2>5, <2>8 DEF Of
  <2>11. output[1].call = call /\ output[1].kind \in {"wake", "write", "block"}
    BY <2>4, <2>10, OwnTurns DEF Clean, OwnBytes, WakeSteps
  <2>12. output[1].kind # "write"
    BY <2>9, <2>10, <2>11 DEF Of
  <2>13. output[1].kind # "wake"
    <3>1. call \in Nat /\ call > 0
      BY WireTypes DEF Clean, TypeInv, TypeOK
    <3>2. Turn(output[1]) = 2 * call + 1
      BY <2>8, <2>10, <3>1 DEF Clean, Expecting
    <3>3. QED
      BY <2>11, <3>1, <3>2 DEF Turn
  <2>14. QED
    BY <2>1, <2>8, <2>10, <2>11, <2>12, <2>13
<1>2. QED
  BY <1>1, Invariance, PTL
=============================================================================
