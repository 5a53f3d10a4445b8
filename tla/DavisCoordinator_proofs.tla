------------------------ MODULE DavisCoordinator_proofs ------------------------
(***************************************************************************)
(* Proofs about DavisCoordinator: the issue is never stale, whatever the   *)
(* number of entries; and it is always there in an outage when the domain  *)
(* has a single entry.                                                     *)
(***************************************************************************)
EXTENDS DavisCoordinator, SequenceTheorems, TLAPS

(* What the history window becomes. *)
LEMMA SlideWindow ==
    ASSUME NEW w \in Seq(BOOLEAN), Len(w) <= Threshold, NEW good \in BOOLEAN
    PROVE  /\ Slide(w, good) \in Seq(BOOLEAN)
           /\ Len(w) < Threshold =>
                /\ Len(Slide(w, good)) = Len(w) + 1
                /\ \A i \in 1..Len(w) : Slide(w, good)[i] = w[i]
                /\ Slide(w, good)[Len(w) + 1] = good
           /\ Len(w) = Threshold =>
                /\ Len(Slide(w, good)) = Threshold
                /\ \A i \in 1..Threshold - 1 : Slide(w, good)[i] = w[i + 1]
                /\ Slide(w, good)[Threshold] = good
<1> USE CoordinatorAssumption
<1>1. CASE Len(w) < Threshold
  BY <1>1, AppendProperties DEF Slide
<1>2. CASE Len(w) = Threshold
  <2>1. w # <<>>
    BY <1>2
  <2>2. /\ Tail(w) \in Seq(BOOLEAN) /\ Len(Tail(w)) = Threshold - 1
        /\ \A i \in 1..Threshold - 1 : Tail(w)[i] = w[i + 1]
    BY <1>2, <2>1, HeadTailProperties
  <2>3. Slide(w, good) = Append(Tail(w), good)
    BY <1>2 DEF Slide
  <2>4. QED
    BY <1>2, <2>2, <2>3, AppendProperties
<1>3. QED
  BY <1>1, <1>2, LenProperties

-----------------------------------------------------------------------------
(* The streak the code counts and the history agree. *)
StreakInv(e) ==
    LET n == Len(recent[e])
        k == streak[e]
    IN  /\ n <= Threshold
        /\ k >= Threshold => n = Threshold /\ \A i \in 1..n : ~recent[e][i]
        /\ k < Threshold =>
             /\ k <= n
             /\ n > k => recent[e][n - k]
             /\ \A i \in 1..n : i > n - k => ~recent[e][i]

IssueInv ==
    issue => \E e \in Entries : entry[e] = "loaded" /\ streak[e] >= Threshold

Inv == TypeOK /\ (\A e \in Entries : StreakInv(e)) /\ IssueInv

LEMMA InitInv == Init => Inv
<1> SUFFICES ASSUME Init PROVE Inv
  OBVIOUS
<1> USE CoordinatorAssumption
<1>1. TypeOK
  <2>1. streak \in [Entries -> 0..MaxStreak]
    BY DEF Init
  <2>2. recent \in [Entries -> Seq(BOOLEAN)]
    BY DEF Init
  <2>3. QED
    BY <2>1, <2>2 DEF Init, TypeOK
<1>2. ASSUME NEW e \in Entries PROVE StreakInv(e)
  BY DEF Init, StreakInv
<1>3. QED
  BY <1>1, <1>2 DEF Init, Inv, IssueInv

LEMMA PollWindow ==
    ASSUME Inv, NEW e \in Entries, NEW r \in Results, Poll(e, r)
    PROVE  StreakInv(e)' /\ recent'[e] \in Seq(BOOLEAN)
<1> DEFINE w == recent[e]
           good == r = "data"
           v == Slide(w, good)
           k == streak[e]
<1> USE CoordinatorAssumption
<1>1. /\ w \in Seq(BOOLEAN) /\ Len(w) \in Nat /\ Len(w) <= Threshold
      /\ k \in Nat /\ recent'[e] = v
  BY LenProperties DEF Inv, TypeOK, StreakInv, Poll
<1>2. streak'[e] = IF r = "data" THEN 0 ELSE k + 1
  BY DEF Inv, TypeOK, Poll, OnUpdateSuccess, OnUpdateFailure
<1>3. /\ v \in Seq(BOOLEAN)
      /\ Len(w) < Threshold =>
           /\ Len(v) = Len(w) + 1
           /\ \A i \in 1..Len(w) : v[i] = w[i]
           /\ v[Len(w) + 1] = good
      /\ Len(w) = Threshold =>
           /\ Len(v) = Threshold
           /\ \A i \in 1..Threshold - 1 : v[i] = w[i + 1]
           /\ v[Threshold] = good
  <2>1. good \in BOOLEAN
    OBVIOUS
  <2> HIDE DEF good, w
  <2>2. QED
    BY <1>1, <2>1, SlideWindow
<1> HIDE DEF w, v, k
<1>4. StreakInv(e)' <=>
        /\ Len(v) <= Threshold
        /\ streak'[e] >= Threshold => Len(v) = Threshold /\ \A i \in 1..Len(v) : ~v[i]
        /\ streak'[e] < Threshold =>
             /\ streak'[e] <= Len(v)
             /\ Len(v) > streak'[e] => v[Len(v) - streak'[e]]
             /\ \A i \in 1..Len(v) : i > Len(v) - streak'[e] => ~v[i]
  BY <1>1 DEF StreakInv
<1>5. /\ k >= Threshold => Len(w) = Threshold /\ \A i \in 1..Len(w) : ~w[i]
      /\ k < Threshold =>
           /\ k <= Len(w)
           /\ Len(w) > k => w[Len(w) - k]
           /\ \A i \in 1..Len(w) : i > Len(w) - k => ~w[i]
  BY DEF Inv, StreakInv, w, k
<1>6. CASE r = "data"
  BY <1>1, <1>2, <1>3, <1>4, <1>6
<1>7. CASE r # "data" /\ Len(w) < Threshold
  BY <1>1, <1>2, <1>3, <1>4, <1>5, <1>7, SMTT(30)
<1>8. CASE r # "data" /\ Len(w) = Threshold
  <2>1. k >= Threshold => \A i \in 1..Threshold - 1 : ~w[i + 1]
    BY <1>1, <1>5, <1>8
  <2>2. k < Threshold => (k + 1 < Threshold => w[Threshold - k])
                         /\ \A i \in 1..Threshold - 1 : i > Threshold - (k + 1) => ~w[i + 1]
    BY <1>1, <1>5, <1>8
  <2>3. Len(v) = Threshold /\ streak'[e] = k + 1 /\ ~v[Threshold]
        /\ \A i \in 1..Threshold - 1 : v[i] = w[i + 1]
    BY <1>2, <1>3, <1>8
  <2>4. CASE k + 1 >= Threshold
    <3>1. \A i \in 1..Threshold - 1 : ~v[i]
      BY <1>1, <2>1, <2>2, <2>3, <2>4
    <3>2. QED
      BY <1>1, <1>3, <1>4, <2>3, <2>4, <3>1
  <2>5. CASE k + 1 < Threshold
    <3>1. v[Threshold - (k + 1)]
      BY <1>1, <2>2, <2>3, <2>5
    <3>2. \A i \in 1..Threshold - 1 : i > Threshold - (k + 1) => ~v[i]
      <4>1. \A i \in 1..Threshold - 1 : v[i] = w[i + 1]
        BY <2>3
      <4>2. \A i \in 1..Threshold - 1 : i > Threshold - (k + 1) => ~w[i + 1]
        BY <1>1, <2>2, <2>5
      <4>3. QED
        BY <4>1, <4>2
    <3>3. QED
      BY <1>1, <1>3, <1>4, <2>3, <2>5, <3>1, <3>2
  <2>6. QED
    BY <1>1, <2>4, <2>5
<1>9. QED
  BY <1>1, <1>3, <1>6, <1>7, <1>8

LEMMA NextInv == Inv /\ [Next]_vars => Inv'
<1> SUFFICES ASSUME Inv, [Next]_vars PROVE Inv'
  OBVIOUS
<1> USE CoordinatorAssumption
<1>1. ASSUME NEW e \in Entries, Setup(e) PROVE Inv'
  <2>1. TypeOK'
    BY <1>1 DEF Inv, TypeOK, Setup
  <2>2. ASSUME NEW f \in Entries PROVE StreakInv(f)'
    BY <1>1 DEF Inv, TypeOK, Setup, StreakInv
  <2>3. IssueInv'
    BY <1>1 DEF Inv, TypeOK, Setup, IssueInv
  <2>4. QED
    BY <2>1, <2>2, <2>3 DEF Inv
<1>2. ASSUME NEW e \in Entries, NEW r \in Results, Poll(e, r) PROVE Inv'
  <2>1. StreakInv(e)' /\ recent'[e] \in Seq(BOOLEAN)
    BY <1>2, PollWindow
  <2>2. ASSUME NEW f \in Entries, f # e
        PROVE  recent'[f] = recent[f] /\ streak'[f] = streak[f]
    BY <1>2, <2>2 DEF Inv, TypeOK, Poll, OnUpdateSuccess, OnUpdateFailure
  <2>3. streak'[e] = IF r = "data" THEN 0 ELSE streak[e] + 1
    BY <1>2 DEF Inv, TypeOK, Poll, OnUpdateSuccess, OnUpdateFailure
  <2>4. TypeOK'
    <3>1. recent' \in [Entries -> Seq(BOOLEAN)]
      BY <1>2, <2>1 DEF Inv, TypeOK, Poll
    <3>2. streak' \in [Entries -> 0..MaxStreak]
      <4>1. streak \in [Entries -> 0..MaxStreak]
        BY DEF Inv, TypeOK
      <4>2. CASE r = "data"
        <5>1. streak' = [streak EXCEPT ![e] = 0]
          BY <1>2, <4>2 DEF Poll, OnUpdateSuccess
        <5>2. QED
          BY <4>1, <5>1
      <4>3. CASE r # "data"
        <5>1. streak' = [streak EXCEPT ![e] = @ + 1] /\ streak[e] < MaxStreak
          BY <1>2, <4>3 DEF Poll, OnUpdateFailure
        <5>2. streak[e] + 1 \in 0..MaxStreak
          BY <4>1, <5>1
        <5>3. QED
          BY <4>1, <5>1, <5>2
      <4>4. QED
        BY <4>2, <4>3
    <3>3. issue' \in BOOLEAN
      BY <1>2 DEF Poll, OnUpdateSuccess, OnUpdateFailure
    <3>4. QED
      BY <1>2, <3>1, <3>2, <3>3 DEF Inv, TypeOK, Poll
  <2>5. ASSUME NEW f \in Entries PROVE StreakInv(f)'
    BY <2>1, <2>2 DEF Inv, StreakInv
  <2>6. IssueInv'
    <3>1. CASE r = "data"
      <4>1. SUFFICES ASSUME issue' PROVE IssueInv'
        BY DEF IssueInv
      <4>2. issue /\ streak[e] < Threshold
        BY <1>2, <3>1, <4>1 DEF Inv, TypeOK, Poll, OnUpdateSuccess
      <4>3. PICK f \in Entries : entry[f] = "loaded" /\ streak[f] >= Threshold
        BY <4>2 DEF Inv, IssueInv
      <4>4. f # e /\ entry' = entry
        BY <1>2, <4>2, <4>3 DEF Inv, TypeOK, Poll
      <4>5. QED
        BY <2>2, <4>3, <4>4 DEF IssueInv
    <3>2. CASE r # "data"
      <4>1. SUFFICES ASSUME issue' PROVE IssueInv'
        BY DEF IssueInv
      <4>2. entry' = entry /\ entry[e] = "loaded" /\ streak'[e] = streak[e] + 1
        BY <1>2, <2>3, <3>2 DEF Poll
      <4>3. CASE issue
        <5>1. PICK f \in Entries : entry[f] = "loaded" /\ streak[f] >= Threshold
          BY <4>3 DEF Inv, IssueInv
        <5>2. streak'[f] >= Threshold
          <6>1. streak[f] \in Nat /\ Threshold \in Nat
            BY DEF Inv, TypeOK
          <6>2. CASE f = e
            BY <4>2, <5>1, <6>1, <6>2
          <6>3. CASE f # e
            BY <2>2, <5>1, <6>3
          <6>4. QED
            BY <6>2, <6>3
        <5>3. QED
          BY <4>2, <5>1, <5>2 DEF IssueInv
      <4>4. CASE ~issue
        <5>1. streak[e] + 1 = Threshold
          BY <1>2, <3>2, <4>1, <4>4 DEF Poll, OnUpdateFailure
        <5>2. QED
          BY <4>2, <5>1 DEF IssueInv
      <4>5. QED
        BY <4>3, <4>4
    <3>3. QED
      BY <3>1, <3>2
  <2>7. QED
    BY <2>4, <2>5, <2>6 DEF Inv
<1>3. ASSUME NEW e \in Entries, Unload(e) PROVE Inv'
  BY <1>3 DEF Inv, TypeOK, Unload, StreakInv, IssueInv
<1>4. CASE Restart
  BY <1>4 DEF Inv, TypeOK, Restart, StreakInv, IssueInv
<1>5. ASSUME NEW e \in Entries, StationChanges(e) PROVE Inv'
  BY <1>5 DEF Inv, TypeOK, StationChanges, StreakInv, IssueInv
<1>6. CASE UNCHANGED vars
  BY <1>6 DEF Inv, TypeOK, vars, StreakInv, IssueInv
<1>7. QED
  BY <1>1, <1>2, <1>3, <1>4, <1>5, <1>6 DEF Next

THEOREM TypeCorrect == Safe => []TypeOK
<1>1. Inv => TypeOK
  BY DEF Inv
<1>2. QED
  BY InitInv, NextInv, <1>1, PTL DEF Safe

(* The issue never outlives the outages it is about, for any set of entries. *)
THEOREM NeverStale == Safe => []NoStaleIssue
<1>1. Inv => NoStaleIssue
  BY CoordinatorAssumption, LenProperties
     DEF Inv, TypeOK, IssueInv, StreakInv, NoStaleIssue, InOutage
<1>2. QED
  BY InitInv, NextInv, <1>1, PTL DEF Safe

-----------------------------------------------------------------------------
(* With one entry nobody else can delete its issue. *)
Reported ==
    \A e \in Entries : entry[e] = "loaded" /\ streak[e] >= Threshold => issue

(* An outage of the only entry is reported for as long as it lasts. *)
THEOREM SingleEntryReported ==
    ASSUME NEW only, Entries = {only}
    PROVE  Safe => []OutageReported
<1> USE CoordinatorAssumption
<1>1. Init => Reported
  BY DEF Init, Reported
<1>2. Inv /\ Reported /\ [Next]_vars => Reported'
  <2> SUFFICES ASSUME Inv, Reported, [Next]_vars PROVE Reported'
    OBVIOUS
  <2>1. ASSUME NEW e \in Entries, Setup(e) PROVE Reported'
    BY <2>1 DEF Inv, TypeOK, Reported, Setup
  <2>2. ASSUME NEW e \in Entries, NEW r \in Results, Poll(e, r) PROVE Reported'
    <3>1. CASE r = "data"
      BY <2>2, <3>1 DEF Inv, TypeOK, Reported, Poll, OnUpdateSuccess
    <3>2. CASE r # "data"
      <4>1. streak'[e] = streak[e] + 1 /\ streak[e] \in Nat /\ e = only
        BY <2>2, <3>2 DEF Inv, TypeOK, Poll, OnUpdateFailure
      <4>2. issue' = (issue \/ streak[e] + 1 = Threshold) /\ entry' = entry
        BY <2>2, <3>2 DEF Poll, OnUpdateFailure
      <4>3. SUFFICES ASSUME entry[e] = "loaded", streak[e] + 1 >= Threshold
                     PROVE  issue'
        BY <4>1, <4>2 DEF Reported
      <4>4. CASE streak[e] + 1 = Threshold
        BY <4>2, <4>4
      <4>5. CASE streak[e] >= Threshold
        BY <4>2, <4>3, <4>5 DEF Reported
      <4>6. QED
        BY <4>1, <4>3, <4>4, <4>5
    <3>3. QED
      BY <3>1, <3>2
  <2>3. ASSUME NEW e \in Entries, Unload(e) PROVE Reported'
    BY <2>3 DEF Inv, TypeOK, Reported, Unload
  <2>4. CASE Restart
    BY <2>4 DEF Reported, Restart
  <2>5. ASSUME NEW e \in Entries, StationChanges(e) PROVE Reported'
    BY <2>5 DEF Reported, StationChanges
  <2>6. CASE UNCHANGED vars
    BY <2>6 DEF Reported, vars
  <2>7. QED
    BY <2>1, <2>2, <2>3, <2>4, <2>5, <2>6 DEF Next
<1>3. Inv /\ Reported => OutageReported
  <2> SUFFICES ASSUME Inv, Reported, NEW e \in Entries, InOutage(e) PROVE issue
    BY DEF OutageReported
  <2>1. streak[e] >= Threshold
    BY DEF Inv, TypeOK, StreakInv, InOutage
  <2>2. QED
    BY <2>1 DEF Reported, InOutage
<1>4. QED
  BY InitInv, NextInv, <1>1, <1>2, <1>3, PTL DEF Safe
=============================================================================
