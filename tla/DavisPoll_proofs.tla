--------------------------- MODULE DavisPoll_proofs ---------------------------
(***************************************************************************)
(* Proofs about DavisPoll: its types, that the two cached values are the   *)
(* console's, and that what a poll publishes is, for any periods,          *)
(* collectors and number of jobs.                                          *)
(***************************************************************************)
EXTENDS DavisPoll, FiniteSets, SequenceTheorems, FiniteSetTheorems, TLAPS

(* What taking the head off, or adding to the end, leaves in a sequence. *)
LEMMA TailInSeq ==
    ASSUME NEW S, NEW s \in Seq(S), s # <<>>
    PROVE  /\ Tail(s) \in Seq(S)
           /\ Len(Tail(s)) = Len(s) - 1
           /\ \A i \in 1..Len(Tail(s)) : Tail(s)[i] = s[i + 1]
BY HeadTailProperties

Answers == {"cleared", "data", "error"}

LEMMA AnswerType ==
    /\ <<>> \in Seq(Answers)
    /\ \A a \in Answers : <<a>> \in Seq(Answers)
OBVIOUS

(* A cancelled service stays the job it was, and stays where it was. *)
LEMMA CancelledQueue ==
    ASSUME TypeOK, NEW i \in 1..Len(queue), CancelService(i)
    PROVE  /\ queue' \in Seq(Jobs)
           /\ Len(queue') = Len(queue)
           /\ \A j \in 1..Len(queue) : queue'[j].kind = queue[j].kind
<1>1. queue \in Seq(Jobs) /\ Len(queue) \in Nat /\ DOMAIN queue = 1..Len(queue)
  BY LenProperties DEF TypeOK
<1>2. queue[i] \in Jobs /\ queue[i].kind = "setPeriod"
  BY <1>1, ElementOfSeq DEF CancelService
<1> DEFINE job == [queue[i] EXCEPT !.heard = FALSE]
<1>3. job \in Jobs /\ job.kind = queue[i].kind
  BY <1>2 DEF Jobs
<1>4. queue' = [queue EXCEPT ![i] = job]
  BY DEF CancelService
<1> HIDE DEF job
<1>5. queue' \in Seq(Jobs) /\ Len(queue') = Len(queue)
         /\ \A j \in 1..Len(queue) : queue'[j] = IF j = i THEN job ELSE queue[j]
  BY <1>1, <1>3, <1>4, ExceptSeq
<1>6. QED
  BY <1>3, <1>5

(* Nothing was missed: the part of TypeOK about it, for the steps that say so. *)
LEMMA NotMissed ==
    /\ missed = FALSE => missed \in IF periodCache = Unread THEN {FALSE} ELSE BOOLEAN
    /\ missed' = FALSE => missed' \in IF periodCache' = Unread THEN {FALSE} ELSE BOOLEAN
BY Zenon

(* The same of the collector type. *)
LEMMA NoneLeft ==
    /\ collectorMissed = FALSE =>
          collectorMissed \in IF rainCache = Unread THEN {FALSE} ELSE BOOLEAN
    /\ collectorMissed' = FALSE =>
          collectorMissed' \in IF rainCache' = Unread THEN {FALSE} ELSE BOOLEAN
BY Zenon

LEMMA LeaveType ==
    ASSUME TypeOK, NEW changed \in BOOLEAN, LeaveRainCache(changed), rainCache' = rainCache
    PROVE  collectorMissed' \in IF rainCache' = Unread THEN {FALSE} ELSE BOOLEAN
<1>1. CASE rainCache = Unread
  <2>1. collectorMissed = FALSE
    BY <1>1 DEF TypeOK
  <2>2. collectorMissed' = FALSE
    BY <1>1, <2>1, Zenon DEF LeaveRainCache
  <2>3. QED
    BY <2>2, NoneLeft
<1>2. CASE rainCache # Unread
  BY <1>2 DEF LeaveRainCache
<1>3. QED
  BY <1>1, <1>2

LEMMA InitType == Init => TypeOK
<1> SUFFICES ASSUME Init PROVE TypeOK
  OBVIOUS
<1>1. missed = FALSE
  BY DEF Init
<1>2. missed \in IF periodCache = Unread THEN {FALSE} ELSE BOOLEAN
  BY <1>1, NotMissed
<1>6. collectorMissed \in IF rainCache = Unread THEN {FALSE} ELSE BOOLEAN
  <2>1. collectorMissed = FALSE
    BY DEF Init
  <2>2. QED
    BY <2>1, NoneLeft
<1>3. /\ period \in Periods /\ collector \in Collectors /\ session \in BOOLEAN
      /\ periodCache \in Periods /\ rainCache \in Collectors \cup {Unread}
      /\ poll = "idle" /\ lost = 0 /\ draft = Unread
      /\ published = [period |-> period, rain |-> rainCache]
      /\ since = [period |-> {period}, rain |-> {collector}]
  BY DEF Init
<1>4. queue \in Seq(Jobs) /\ step \in JobSteps /\ done \in Seq(Answers)
  BY DEF Init, JobSteps
<1>5. QED
  BY <1>2, <1>3, <1>4, <1>6 DEF TypeOK, PollSteps, Answers

(* A finished job leaves a queue and answers of their types. *)
LEMMA FinishType ==
    ASSUME TypeOK, queue # <<>>, NEW answer \in Seq(Answers),
           Finish(answer)
    PROVE  queue' \in Seq(Jobs) /\ step' \in JobSteps
             /\ done' \in Seq(Answers)
BY TailInSeq, ConcatProperties DEF Finish, TypeOK, JobSteps, Answers

LEMMA FailType ==
    ASSUME TypeOK, queue # <<>>, NEW answer \in Seq(Answers),
           Fail(answer), UNCHANGED history, period' \in Periods, collector' \in Collectors
    PROVE  TypeOK'
BY FinishType DEF Fail, TypeOK, loopState, history, Answers

LEMMA NextType == TypeOK /\ [Next]_vars => TypeOK'
<1> SUFFICES ASSUME TypeOK, [Next]_vars PROVE TypeOK'
  OBVIOUS
<1> USE DEF TypeOK
<1>1. CASE StartPoll
  <2>1. since' \in [period : SUBSET Periods, rain : SUBSET Collectors]
    <3>1. (IF missed THEN {periodCache} ELSE {}) \subseteq Periods
      OBVIOUS
    <3>2. (IF collectorMissed THEN {rainCache} ELSE {}) \subseteq Collectors
      OBVIOUS
    <3>3. QED
      BY <1>1, <3>1, <3>2 DEF StartPoll
  <2>2. queue' \in Seq(Jobs) /\ step' \in JobSteps
    BY <1>1 DEF StartPoll, Enqueue, Jobs, JobSteps
  <2>3. poll' \in PollSteps /\ poll' = "waiting"
          /\ UNCHANGED <<console, caches, done, lost, draft, published, collectorMissed>>
    BY <1>1 DEF StartPoll, PollSteps
  <2>4. QED
    BY <2>1, <2>2, <2>3 DEF console, caches
<1>2. CASE AbandonPoll
  <2>1. poll' \in PollSteps /\ poll' = "idle" /\ lost' \in Nat
    BY <1>2 DEF AbandonPoll, PollSteps
  <2>2. QED
    BY <1>2, <2>1 DEF AbandonPoll, console, caches, worker, outcome, history
<1>3. ASSUME NEW job \in Jobs, CallService(job) PROVE TypeOK'
  <2>1. queue' \in Seq(Jobs) /\ step' \in JobSteps
    BY <1>3 DEF CallService, Enqueue, JobSteps
  <2>2. QED
    BY <1>3, <2>1 DEF CallService, console, caches, loopState, outcome, history
<1>4. CASE ClearPeriod
  <2>1. missed' \in IF periodCache' = Unread THEN {FALSE} ELSE BOOLEAN
    <3>1. missed' = FALSE
      BY <1>4 DEF ClearPeriod
    <3>2. QED
      BY <3>1, NotMissed
  <2>2. done' \in Seq(Answers) /\ periodCache' = Unread
    BY <1>4, TailInSeq DEF ClearPeriod, Answers
  <2>3. QED
    BY <1>4, <2>1, <2>2 DEF ClearPeriod, console, worker, loopState, outcome, history, Answers
<1>5. CASE PollAnswered
  <2>1. done' \in Seq(Answers)
    BY <1>5, TailInSeq DEF PollAnswered, Answers
  <2>2. poll' \in PollSteps /\ lost' \in Nat
    BY <1>5 DEF PollAnswered, PollSteps
  <2>3. QED
    BY <1>5, <2>1, <2>2 DEF PollAnswered, console, caches, worker, outcome, history, Answers
<1>6. CASE AssertSession
  BY <1>6 DEF AssertSession, PollSteps, console, caches, worker, outcome, history
<1>7. CASE ArchiveInterval
  BY <1>7 DEF ArchiveInterval, PollSteps, console, caches, worker, outcome, history
<1>8. CASE LoopRead
  BY <1>8 DEF LoopRead, PollSteps, console, worker, outcome, history
<1>9. CASE ConvertValues
  BY <1>9 DEF ConvertValues, PollSteps, console, caches, worker, history
<1>10. CASE PollFails
  <2>1. queue # <<>> /\ Fail(<<"error">>) /\ UNCHANGED <<console, history>>
    BY <1>10 DEF PollFails, Running
  <2>2. QED
    BY <2>1, AnswerType, FailType DEF console, Answers
<1>11. CASE ReadLoopPacket
  BY <1>11 DEF ReadLoopPacket, Goto, JobSteps, console, loopState, outcome, history
<1>12. CASE ReadArchives
  BY <1>12 DEF ReadArchives, Goto, JobSteps, console, loopState, outcome, history
<1>13. CASE ReadRainCollector
  <2>1. queue # <<>> /\ Finish(<<"data">>)
    BY <1>13 DEF ReadRainCollector, Running
  <2>2. queue' \in Seq(Jobs) /\ step' \in JobSteps /\ done' \in Seq(Answers)
    BY <2>1, AnswerType, FinishType DEF Answers
  <2>3. QED
    BY <1>13, <2>2 DEF ReadRainCollector, console, loopState, outcome, history, Answers
<1>14. ASSUME NEW obeyed \in BOOLEAN, NEW acked \in BOOLEAN,
              SetArchivePeriod(obeyed, acked)
       PROVE  TypeOK'
  <2>1. queue # <<>> /\ Head(queue) \in Jobs /\ Head(queue).kind = "setPeriod"
    BY <1>14, HeadTailProperties DEF SetArchivePeriod, Running
  <2>2. period' \in Periods /\ since' \in [period : SUBSET Periods, rain : SUBSET Collectors]
    BY <1>14, <2>1 DEF SetArchivePeriod, Jobs
  <2>3. PICK more \in {<<"cleared">>, <<>>} : Finish(more)
    BY <1>14 DEF SetArchivePeriod, Fail
  <2>4. queue' \in Seq(Jobs) /\ step' \in JobSteps /\ done' \in Seq(Answers)
    BY <2>1, <2>3, AnswerType, FinishType DEF Answers
  <2>5. collector' \in Collectors /\ session' \in BOOLEAN
          /\ UNCHANGED <<rainCache, published, loopState, collectorMissed>>
    BY <1>14 DEF SetArchivePeriod, Fail
  <2>6. periodCache' \in Periods \cup {Unread}
          /\ missed' \in IF periodCache' = Unread THEN {FALSE} ELSE BOOLEAN
    BY <1>14 DEF SetArchivePeriod, Fail
  <2>7. QED
    BY <2>2, <2>4, <2>5, <2>6 DEF loopState, Answers
<1>15. CASE ReadSetupBits
  <2>1. CASE Goto("write")
    BY <1>15, <2>1 DEF ReadSetupBits, Goto, Fail, JobSteps, console, loopState, history
  <2>2. CASE Fail(<<>>)
    BY <1>15, <2>2, AnswerType, FailType DEF ReadSetupBits, Running, console
  <2>3. QED
    BY <1>15, <2>1, <2>2 DEF ReadSetupBits
<1>16. ASSUME NEW written \in BOOLEAN, NEW acked \in BOOLEAN,
              WriteSetupBits(written, acked)
       PROVE  TypeOK'
  <2>1. queue # <<>> /\ Head(queue) \in Jobs /\ Head(queue).kind = "setRain"
    BY <1>16, HeadTailProperties DEF WriteSetupBits, Running
  <2>2. collector' \in Collectors
          /\ since' \in [period : SUBSET Periods, rain : SUBSET Collectors]
    BY <1>16, <2>1 DEF WriteSetupBits, Jobs
  <2>3. CASE acked
    BY <1>16, <2>2, <2>3 DEF WriteSetupBits, Goto, JobSteps, caches, loopState
  <2>4. CASE ~acked
    <3>1. queue' \in Seq(Jobs) /\ step' \in JobSteps /\ done' \in Seq(Answers)
      BY <1>16, <2>1, <2>4, AnswerType, FinishType DEF WriteSetupBits, Fail
    <3>2. collectorMissed' \in IF rainCache' = Unread THEN {FALSE} ELSE BOOLEAN
      BY <1>16, <2>4, LeaveType DEF WriteSetupBits, Fail
    <3>3. QED
      BY <1>16, <2>2, <2>4, <3>1, <3>2 DEF WriteSetupBits, Fail, loopState, Answers
  <2>5. QED
    BY <2>3, <2>4
<1>17. CASE NewSetup
  <2>1. queue # <<>> /\ Finish(<<>>)
    BY <1>17 DEF NewSetup, Running, Fail
  <2>2. queue' \in Seq(Jobs) /\ step' \in JobSteps /\ done' \in Seq(Answers)
    BY <2>1, AnswerType, FinishType
  <2>3. CASE rainCache' = Unread /\ collectorMissed' = FALSE
               /\ UNCHANGED <<session, periodCache, missed, published, since, loopState>>
    <3>1. collectorMissed' \in IF rainCache' = Unread THEN {FALSE} ELSE BOOLEAN
      BY <2>3, NoneLeft
    <3>2. QED
      BY <1>17, <2>2, <2>3, <3>1 DEF NewSetup, console, loopState, Answers
  <2>4. CASE /\ Fail(<<>>) /\ LeaveRainCache(TRUE)
             /\ since' = [since EXCEPT !.rain = @ \cup ({rainCache} \ {Unread})]
    <3>1. collectorMissed' \in IF rainCache' = Unread THEN {FALSE} ELSE BOOLEAN
      BY <2>4, LeaveType DEF Fail
    <3>2. since' \in [period : SUBSET Periods, rain : SUBSET Collectors]
      BY <2>4
    <3>3. QED
      BY <1>17, <2>2, <2>4, <3>1, <3>2 DEF NewSetup, Fail, console, loopState, Answers
  <2>5. QED
    BY <1>17, <2>3, <2>4 DEF NewSetup
<1>18. CASE OtherJob
  <2>1. CASE Fail(<<>>)
    BY <1>18, <2>1, AnswerType, FailType DEF OtherJob, Running, console
  <2>2. CASE ~Fail(<<>>)
    <3>1. queue' \in Seq(Jobs) /\ step' \in JobSteps /\ done' \in Seq(Answers)
      BY <1>18, <2>2, AnswerType, FinishType DEF OtherJob, Running
    <3>2. QED
      BY <1>18, <2>2, <3>1 DEF OtherJob, console, loopState, history, Answers
  <2>3. QED
    BY <2>1, <2>2
<1>19. ASSUME NEW i \in 1..Len(queue), CancelService(i) PROVE TypeOK'
  BY <1>19, CancelledQueue DEF CancelService, console, caches, loopState, outcome, history
<1>20. ASSUME NEW obeyed \in BOOLEAN, NEW acked \in BOOLEAN, SetEeprom(obeyed, acked)
       PROVE  TypeOK'
  <2>1. queue # <<>> /\ Finish(<<>>)
    BY <1>20 DEF SetEeprom, Running, Fail
  <2>2. queue' \in Seq(Jobs) /\ step' \in JobSteps /\ done' \in Seq(Answers)
    BY <2>1, AnswerType, FinishType DEF Answers
  <2>3. period' \in Periods /\ collector' \in Collectors
    BY <1>20 DEF SetEeprom
  <2>4. since' \in [period : SUBSET Periods, rain : SUBSET Collectors]
    BY <1>20, <2>3 DEF SetEeprom
  <2>5. session' \in BOOLEAN /\ UNCHANGED <<rainCache, published, loopState>>
          /\ \/ UNCHANGED <<periodCache, missed>>
             \/ periodCache' = Unread /\ missed' = FALSE
    BY <1>20 DEF SetEeprom, Fail
  <2>6. collectorMissed' \in IF rainCache' = Unread THEN {FALSE} ELSE BOOLEAN
    <3>1. PICK changed \in BOOLEAN : LeaveRainCache(changed)
      BY <1>20 DEF SetEeprom, ValidWrite, Covers, LeaveRainCache
    <3>2. QED
      BY <2>5, <3>1, LeaveType
  <2>7. QED
    BY <2>2, <2>3, <2>4, <2>5, <2>6 DEF loopState, Answers
<1>21. CASE UNCHANGED vars
  BY <1>21 DEF vars, console, caches, worker, loopState, outcome, history
<1>22. QED
  BY <1>1, <1>2, <1>3, <1>4, <1>5, <1>6, <1>7, <1>8, <1>9, <1>10, <1>11, <1>12,
     <1>13, <1>14, <1>15, <1>16, <1>17, <1>18, <1>19, <1>20, <1>21
     DEF Next, EventLoop, Worker

(* Every variable keeps its type. *)
THEOREM TypeCorrect == Safe => []TypeOK
BY InitType, NextType, PTL DEF Safe

-----------------------------------------------------------------------------
(***************************************************************************)
(* The archive period.                                                     *)
(***************************************************************************)
Cleared(answers) == \E i \in 1..Len(answers) : answers[i] = "cleared"

(* An answer added to the others hides none of them. *)
LEMMA ClearedGrows ==
    ASSUME NEW answers \in Seq(Answers), NEW more \in Seq(Answers)
    PROVE  /\ Cleared(answers) => Cleared(answers \o more)
           /\ more = <<"cleared">> => Cleared(answers \o more)
<1>1. /\ Len(answers \o more) = Len(answers) + Len(more)
      /\ \A i \in 1..Len(answers) : (answers \o more)[i] = answers[i]
      /\ \A i \in 1..Len(more) : (answers \o more)[Len(answers) + i] = more[i]
      /\ Len(answers) \in Nat /\ Len(more) \in Nat
  BY ConcatProperties, LenProperties
<1>2. Cleared(answers) => Cleared(answers \o more)
  BY <1>1 DEF Cleared
<1>3. ASSUME more = <<"cleared">> PROVE Cleared(answers \o more)
  <2>1. Len(more) = 1 /\ more[1] = "cleared"
    BY <1>3
  <2>2. (answers \o more)[Len(answers) + 1] = "cleared" /\ Len(answers \o more) = Len(answers) + 1
    BY <1>1, <2>1
  <2>3. QED
    BY <1>1, <2>2 DEF Cleared
<1>4. QED
  BY <1>2, <1>3

(* Delivering another answer leaves the clearing one under way. *)
LEMMA ClearedStays ==
    ASSUME NEW answers \in Seq(Answers), answers # <<>>, Head(answers) # "cleared"
    PROVE  Cleared(answers) => Cleared(Tail(answers))
<1>1. SUFFICES ASSUME NEW i \in 1..Len(answers), answers[i] = "cleared"
               PROVE  Cleared(Tail(answers))
  BY DEF Cleared
<1>2. i # 1
  BY <1>1, HeadTailProperties
<1>3. i - 1 \in 1..Len(Tail(answers)) /\ Tail(answers)[i - 1] = answers[i]
  BY <1>1, <1>2, TailInSeq, LenProperties
<1>4. QED
  BY <1>1, <1>3 DEF Cleared

(* No write that the validation lets through reaches the archive period. *)
LEMMA PeriodProtected ==
    ASSUME NEW w \in EepromWrites, ValidWrite(w)
    PROVE  ~Covers(w, ArchivePeriodAt)
<1>1. w[1] \in Nat /\ w[2] \in Nat
  BY PollAssumption
<1>2. <<45, 45>> \in ProtectedEepromRanges
  BY DEF ProtectedEepromRanges
<1>3. ~(w[1] <= 45 /\ LastByte(w) >= 45)
  BY <1>2 DEF ValidWrite
<1>4. QED
  BY <1>1, <1>3 DEF Covers, ArchivePeriodAt, LastByte

(* So a set_eeprom leaves the console's archive period alone. *)
LEMMA EepromKeepsPeriod ==
    ASSUME TypeOK, NEW obeyed, NEW acked, SetEeprom(obeyed, acked)
    PROVE  period' = period
<1>1. queue # <<>> /\ Head(queue) \in Jobs /\ Head(queue).kind = "setEeprom"
  BY HeadTailProperties DEF SetEeprom, Running, TypeOK
<1>2. Head(queue).at \in EepromWrites
  BY <1>1 DEF Jobs
<1>3. QED
  BY <1>2, PeriodProtected DEF SetEeprom

LEMMA PeriodNext ==
    TypeOK /\ PeriodCacheFresh /\ [Next]_vars => PeriodCacheFresh'
<1> SUFFICES ASSUME TypeOK, PeriodCacheFresh, [Next]_vars PROVE PeriodCacheFresh'
  OBVIOUS
<1>1. done \in Seq(Answers)
        /\ (periodCache \in {Unread, period} \/ missed \/ Cleared(done))
  BY DEF TypeOK, Answers, PeriodCacheFresh, Cleared
<1>2. SUFFICES periodCache' \in {Unread, period'} \/ missed' \/ Cleared(done')
  BY DEF PeriodCacheFresh, Cleared
<1>3. CASE UNCHANGED <<period, periodCache, missed, done>>
  BY <1>1, <1>3
<1>4. CASE periodCache' = Unread
  BY <1>4
<1>5. CASE UNCHANGED <<period, periodCache, missed>> /\ \E more \in Seq(Answers) : done' = done \o more
  BY <1>1, <1>5, ClearedGrows
<1>6. CASE PollAnswered
  BY <1>1, <1>6, ClearedStays DEF PollAnswered, console, caches
<1>7. CASE LoopRead
  BY <1>1, <1>7 DEF LoopRead, console
<1>8. CASE ReadArchives
  BY <1>1, <1>8 DEF ReadArchives, Goto, console
<1>9. ASSUME NEW obeyed \in BOOLEAN, NEW acked \in BOOLEAN,
             SetArchivePeriod(obeyed, acked)
      PROVE  periodCache' \in {Unread, period'} \/ missed' \/ Cleared(done')
  <2>1. CASE acked /\ Head(queue).heard
    <3>1. done' = done \o <<"cleared">>
      BY <1>9, <2>1 DEF SetArchivePeriod, Finish
    <3>2. QED
      BY <1>1, <3>1, AnswerType, ClearedGrows DEF Answers
  <2>2. CASE acked /\ ~Head(queue).heard
    BY <1>9, <2>2 DEF SetArchivePeriod
  <2>3. CASE ~acked
    BY <1>9, <2>3 DEF SetArchivePeriod, Fail
  <2>4. QED
    BY <2>1, <2>2, <2>3
<1>10. CASE StartPoll \/ AbandonPoll \/ AssertSession \/ ArchiveInterval \/ ConvertValues
             \/ (\E job \in Jobs : CallService(job))
             \/ (\E i \in 1..Len(queue) : CancelService(i)) \/ UNCHANGED vars
  BY <1>3, <1>10 DEF CancelService, StartPoll, AbandonPoll, AssertSession, ArchiveInterval,
     ConvertValues, CallService, vars, console, caches
<1>11. CASE ClearPeriod \/ PollFails
  BY <1>4, <1>11 DEF ClearPeriod, PollFails, Fail
<1>12. CASE ReadLoopPacket
  BY <1>3, <1>12 DEF ReadLoopPacket, Goto, console
<1>13. CASE ReadRainCollector
  BY <1>5, <1>13, AnswerType DEF ReadRainCollector, Finish, console, Answers
<1>14. CASE ReadSetupBits
  BY <1>3, <1>4, <1>14 DEF ReadSetupBits, Goto, Fail, console
<1>15. ASSUME NEW written \in BOOLEAN, NEW acked \in BOOLEAN,
              WriteSetupBits(written, acked)
       PROVE  periodCache' \in {Unread, period'} \/ missed' \/ Cleared(done')
  BY <1>3, <1>4, <1>15 DEF WriteSetupBits, Goto, Fail, caches
<1>16. CASE NewSetup \/ OtherJob
  <2>1. CASE Fail(<<>>)
    BY <1>4, <2>1 DEF Fail
  <2>2. CASE Finish(<<>>) /\ UNCHANGED <<period, periodCache, missed>>
    BY <1>5, <2>2, AnswerType DEF Finish
  <2>3. QED
    BY <1>16, <2>1, <2>2 DEF NewSetup, OtherJob, console
<1>17. ASSUME NEW obeyed \in BOOLEAN, NEW acked \in BOOLEAN, SetEeprom(obeyed, acked)
       PROVE  periodCache' \in {Unread, period'} \/ missed' \/ Cleared(done')
  <2>1. period' = period
    BY <1>17, EepromKeepsPeriod
  <2>2. CASE acked
    BY <1>5, <1>17, <2>1, <2>2, AnswerType DEF SetEeprom, Finish
  <2>3. CASE ~acked
    BY <1>4, <1>17, <2>3 DEF SetEeprom, Fail
  <2>4. QED
    BY <2>2, <2>3
<1>18. QED
  BY <1>6, <1>7, <1>8, <1>9, <1>10, <1>11, <1>12, <1>13, <1>14, <1>15, <1>16, <1>17
     DEF Next, EventLoop, Worker

LEMMA PeriodInit == Init => PeriodCacheFresh
BY DEF Init, PeriodCacheFresh

(* The cached archive period is the console's, or its clearing is under way,
   in every order of polls, services, failures and reconnects. *)
THEOREM PeriodCorrect == Safe => []PeriodCacheFresh
BY PeriodInit, PeriodNext, TypeCorrect, PTL DEF Safe

-----------------------------------------------------------------------------
(***************************************************************************)
(* The collector type.                                                     *)
(***************************************************************************)
(* The history remembers every change that a cached type stayed behind. *)
LEMMA Left ==
    ASSUME NEW changed, LeaveRainCache(changed)
    PROVE  /\ collectorMissed => collectorMissed'
           /\ changed => rainCache = Unread \/ collectorMissed'
BY Zenon DEF LeaveRainCache

LEMMA RainNext == TypeOK /\ RainCacheFresh /\ [Next]_vars => RainCacheFresh'
<1> SUFFICES ASSUME TypeOK, RainCacheFresh, [Next]_vars PROVE RainCacheFresh'
  OBVIOUS
<1> USE DEF RainCacheFresh
<1>1. CASE UNCHANGED <<collector, rainCache, queue, step, collectorMissed>>
  BY <1>1 DEF Running
<1>2. ASSUME NEW job \in Jobs, Enqueue(job), UNCHANGED <<collector, rainCache, collectorMissed>>
      PROVE  RainCacheFresh'
  <2>1. Running("setRain", "newsetup") => Running("setRain", "newsetup")'
    <3>1. ASSUME queue # <<>> PROVE queue' # <<>> /\ Head(queue') = Head(queue)
      BY <1>2, <3>1, AppendProperties DEF Enqueue, TypeOK
    <3>2. QED
      BY <1>2, <3>1 DEF Running, Enqueue
  <2>2. QED
    BY <1>2, <2>1
<1>3. CASE rainCache' \in {Unread, collector'}
  BY <1>3
<1>4. CASE StartPoll \/ \E job \in Jobs : CallService(job)
  BY <1>2, <1>4 DEF StartPoll, CallService, Jobs, console, caches, outcome, history
<1>5. CASE AbandonPoll \/ ClearPeriod \/ PollAnswered \/ AssertSession
             \/ ArchiveInterval \/ LoopRead \/ ConvertValues \/ UNCHANGED vars
  BY <1>1, <1>5 DEF AbandonPoll, ClearPeriod, PollAnswered, AssertSession,
     ArchiveInterval, LoopRead, ConvertValues, vars, console, caches, worker, outcome, history
<1>6. CASE PollFails \/ ReadLoopPacket \/ ReadArchives \/ ReadRainCollector
             \/ ReadSetupBits \/ OtherJob
  <2>1. step # "newsetup" /\ (rainCache \in {Unread, collector} \/ collectorMissed)
    BY <1>6 DEF PollFails, ReadLoopPacket, ReadArchives, ReadRainCollector,
       ReadSetupBits, OtherJob, Running
  <2>2. /\ collector' = collector /\ rainCache' \in {rainCache, collector}
        /\ collectorMissed' = collectorMissed
    BY <1>6, <2>1 DEF PollFails, ReadLoopPacket, ReadArchives, ReadRainCollector,
       ReadSetupBits, OtherJob, Fail, console, outcome, history
  <2>3. QED
    BY <1>3, <2>1, <2>2
<1>7. ASSUME NEW obeyed \in BOOLEAN, NEW acked \in BOOLEAN,
             SetArchivePeriod(obeyed, acked)
      PROVE  RainCacheFresh'
  <2>1. UNCHANGED <<collector, rainCache, collectorMissed>>
    BY <1>7 DEF SetArchivePeriod, Fail
  <2>2. QED
    BY <1>7, <2>1 DEF SetArchivePeriod, Running
<1>8. ASSUME NEW written \in BOOLEAN, NEW acked \in BOOLEAN,
             WriteSetupBits(written, acked)
      PROVE  RainCacheFresh'
  <2>1. CASE acked
    BY <1>8, <2>1 DEF WriteSetupBits, Goto, Running
  <2>2. CASE ~acked
    BY <1>8, <2>2, Left DEF WriteSetupBits, Running, Fail
  <2>3. QED
    BY <2>1, <2>2
<1>9. CASE NewSetup
  BY <1>3, <1>9, Left DEF NewSetup, Fail
<1>10. ASSUME NEW i \in 1..Len(queue), CancelService(i) PROVE RainCacheFresh'
  <2>1. queue # <<>> /\ queue' # <<>> /\ Head(queue').kind = Head(queue).kind
    <3>1. Len(queue) \in Nat /\ Len(queue) >= 1 /\ queue \in Seq(Jobs)
      BY <1>10, LenProperties DEF TypeOK
    <3>2. queue' \in Seq(Jobs) /\ Len(queue') = Len(queue)
             /\ queue'[1].kind = queue[1].kind
      BY <1>10, <3>1, CancelledQueue
    <3>3. QED
      BY <3>1, <3>2, HeadTailProperties
  <2>2. UNCHANGED <<collector, rainCache, step, collectorMissed>>
    BY <1>10 DEF CancelService, console, caches, outcome, history
  <2>3. QED
    BY <2>1, <2>2 DEF Running
<1>11. ASSUME NEW obeyed \in BOOLEAN, NEW acked \in BOOLEAN, SetEeprom(obeyed, acked)
       PROVE  RainCacheFresh'
  <2>1. rainCache' = rainCache /\ (rainCache \in {Unread, collector} \/ collectorMissed)
    BY <1>11 DEF SetEeprom, Running, Fail
  <2>2. PICK changed \in BOOLEAN :
          LeaveRainCache(changed) /\ (changed \/ collector' = collector)
    <3> DEFINE c == obeyed /\ ValidWrite(Head(queue).at) /\ Covers(Head(queue).at, SetupBitsAt)
    <3>1. LeaveRainCache(c) /\ (c \/ collector' = collector)
      BY <1>11 DEF SetEeprom
    <3>2. c \in BOOLEAN
      BY DEF ValidWrite, Covers
    <3>3. QED
      BY <3>1, <3>2
  <2>3. QED
    BY <2>1, <2>2, Left
<1>12. QED
  BY <1>4, <1>5, <1>6, <1>7, <1>8, <1>9, <1>10, <1>11 DEF Next, EventLoop, Worker

LEMMA RainInit == Init => RainCacheFresh
BY DEF Init, RainCacheFresh

(* The cached collector type is the console's, or about to be dropped, or
   was left behind by a job that changed the console's and could not, or did
   not, drop it: in every order of polls, services, failures and reconnects. *)
THEOREM RainCorrect == Safe => []RainCacheFresh
BY RainInit, RainNext, TypeCorrect, PTL DEF Safe

-----------------------------------------------------------------------------
(***************************************************************************)
(* What is published.  The polls whose job or answer is under way are the  *)
(* abandoned ones and the one that is waited for, which is the last.       *)
(***************************************************************************)
Picks(s, A) == {i \in 1..Len(s) : s[i] \in A}

PollAnswers == {"data", "error"}

Told  == Picks(done, PollAnswers)
Asked == Picks(queue, {job \in Jobs : job.kind = "poll"})

PollsCounted ==
    Cardinality(Told) + Cardinality(Asked) <= lost + (IF poll = "waiting" THEN 1 ELSE 0)

(* Before the poll waited for is answered, the cached period is cleared. *)
ClearingFirst ==
    \E i \in 1..Len(done) : done[i] = "cleared" /\ (Asked # {} \/ \E j \in Told : j > i)

(* Before the poll waited for is carried out, the cached type is dropped. *)
DroppingFirst == Running("setRain", "newsetup") /\ Asked # {}

PeriodKnown ==
    poll # "idle" => \/ periodCache \in since.period \cup {Unread}
                     \/ poll = "waiting" /\ ClearingFirst

RainKnown ==
    poll # "idle" => \/ rainCache \in since.rain \cup {Unread}
                     \/ poll = "waiting" /\ DroppingFirst

SinceSeen == period \in since.period /\ collector \in since.rain

DraftKnown == poll = "convert" => draft \in since.period

PollInv == PollsCounted /\ PeriodKnown /\ RainKnown /\ SinceSeen /\ DraftKnown

-----------------------------------------------------------------------------
LEMMA PicksFinite ==
    ASSUME NEW S, NEW s \in Seq(S), NEW A
    PROVE  IsFiniteSet(Picks(s, A)) /\ Cardinality(Picks(s, A)) \in Nat
<1>1. IsFiniteSet(1..Len(s))
  BY FS_Interval
<1>2. Picks(s, A) \in SUBSET (1..Len(s))
  BY DEF Picks
<1>3. IsFiniteSet(Picks(s, A))
  BY <1>1, <1>2, FS_Subset
<1>4. QED
  BY <1>3, FS_CardinalityType

(* One more at the end. *)
LEMMA PicksAppended ==
    ASSUME NEW S, NEW s \in Seq(S), NEW e \in S, NEW A
    PROVE  /\ Cardinality(Picks(Append(s, e), A)) <= Cardinality(Picks(s, A)) + 1
           /\ e \notin A => Picks(Append(s, e), A) = Picks(s, A)
           /\ Picks(s, A) \subseteq Picks(Append(s, e), A)
           /\ e \in A => Len(s) + 1 \in Picks(Append(s, e), A)
<1> DEFINE t == Append(s, e)
<1>1. /\ t \in Seq(S) /\ Len(t) = Len(s) + 1 /\ t[Len(s) + 1] = e
      /\ \A i \in 1..Len(s) : t[i] = s[i]
      /\ Len(s) \in Nat
  BY AppendProperties, LenProperties
<1> HIDE DEF t
<1>2. e \notin A => Picks(t, A) = Picks(s, A)
  BY <1>1 DEF Picks
<1>3. e \in A => Picks(t, A) = Picks(s, A) \cup {Len(s) + 1}
  BY <1>1 DEF Picks
<1>4. IsFiniteSet(Picks(s, A)) /\ Cardinality(Picks(s, A)) \in Nat
  BY PicksFinite
<1>5. CASE e \in A
  <2>1. Cardinality(Picks(s, A) \cup {Len(s) + 1}) \in
           {Cardinality(Picks(s, A)), Cardinality(Picks(s, A)) + 1}
    BY <1>4, FS_AddElement
  <2>2. Cardinality(Picks(t, A)) = Cardinality(Picks(s, A) \cup {Len(s) + 1})
    BY <1>3, <1>5
  <2>3. Cardinality(Picks(t, A)) <= Cardinality(Picks(s, A)) + 1
    BY <1>4, <2>1, <2>2
  <2>4. QED
    BY <1>3, <1>5, <2>3 DEF t
<1>6. CASE e \notin A
  BY <1>2, <1>4, <1>6 DEF t
<1>7. QED
  BY <1>5, <1>6

(* The first is gone, and the others have moved up. *)
LEMMA PicksTail ==
    ASSUME NEW S, NEW s \in Seq(S), s # <<>>, NEW A
    PROVE  /\ Cardinality(Picks(Tail(s), A)) <= Cardinality(Picks(s, A))
           /\ Head(s) \in A => Cardinality(Picks(Tail(s), A)) <= Cardinality(Picks(s, A)) - 1
           /\ \A i \in Picks(s, A) : i # 1 => i - 1 \in Picks(Tail(s), A)
           /\ Head(s) \notin A /\ Picks(s, A) # {} => Picks(Tail(s), A) # {}
<1> DEFINE t == Tail(s)
           B == Picks(s, A)
           C == B \ {1}
           g == [i \in Picks(t, A) |-> i + 1]
<1>1. /\ t \in Seq(S) /\ Len(t) = Len(s) - 1 /\ \A i \in 1..Len(t) : t[i] = s[i + 1]
      /\ Len(s) \in Nat /\ Len(s) > 0 /\ Head(s) = s[1]
  BY TailInSeq, HeadTailProperties, LenProperties, EmptySeq
<1> HIDE DEF t
<1>2. \A i \in Picks(t, A) : i + 1 \in C /\ i \in Nat
  BY <1>1 DEF Picks
<1>3. g \in Injection(Picks(t, A), C)
  <2>1. g \in [Picks(t, A) -> C]
    BY <1>2
  <2>2. \A i, j \in Picks(t, A) : g[i] = g[j] => i = j
    BY <1>2
  <2>3. QED
    BY <2>1, <2>2 DEF Injection, IsInjective
<1>4. IsFiniteSet(B) /\ Cardinality(B) \in Nat
  BY PicksFinite
<1>5. IsFiniteSet(C) /\ Cardinality(C) <= Cardinality(B) /\ Cardinality(C) \in Nat
  BY <1>4, FS_Subset, FS_CardinalityType
<1>6. Cardinality(Picks(t, A)) <= Cardinality(C)
  BY <1>3, <1>5, FS_Injection
<1>7. Cardinality(Picks(t, A)) \in Nat
  BY <1>1, PicksFinite
<1>8. ASSUME Head(s) \in A PROVE Cardinality(C) = Cardinality(B) - 1
  <2>1. 1 \in B
    BY <1>1, <1>8 DEF Picks
  <2>2. QED
    BY <1>4, <2>1, FS_RemoveElement
<1>9. \A i \in B : i # 1 => i - 1 \in Picks(t, A)
  BY <1>1 DEF Picks
<1>10. Head(s) \notin A => 1 \notin B
  BY <1>1 DEF Picks
<1>11. QED
  BY <1>4, <1>5, <1>6, <1>7, <1>8, <1>9, <1>10 DEF t

-----------------------------------------------------------------------------
LEMMA CountsAreNat ==
    ASSUME TypeOK
    PROVE  /\ queue \in Seq(Jobs) /\ done \in Seq(Answers) /\ lost \in Nat
           /\ Cardinality(Told) \in Nat /\ Cardinality(Asked) \in Nat
           /\ Told = {} \/ Cardinality(Told) > 0
           /\ Asked = {} \/ Cardinality(Asked) > 0
<1>1. queue \in Seq(Jobs) /\ done \in Seq(Answers) /\ lost \in Nat
  BY DEF TypeOK, Answers
<1>2. /\ IsFiniteSet(Told) /\ Cardinality(Told) \in Nat
      /\ IsFiniteSet(Asked) /\ Cardinality(Asked) \in Nat
  BY <1>1, PicksFinite DEF Told, Asked
<1>3. /\ Cardinality(Told) = 0 <=> Told = {}
      /\ Cardinality(Asked) = 0 <=> Asked = {}
  BY <1>2, FS_EmptySet
<1>4. QED
  BY <1>1, <1>2, <1>3

(* A job ends.  Only a poll's is answered with data or an error. *)
LEMMA JobEnds ==
    ASSUME TypeOK, queue # <<>>, NEW kind \in Answers \cup {"none"},
           Finish(IF kind = "none" THEN <<>> ELSE <<kind>>),
           kind \in PollAnswers <=> Head(queue).kind = "poll"
    PROVE  /\ Cardinality(Told') + Cardinality(Asked') <= Cardinality(Told) + Cardinality(Asked)
           /\ ClearingFirst => ClearingFirst'
<1>1. queue \in Seq(Jobs) /\ done \in Seq(Answers) /\ Head(queue) \in Jobs
  BY CountsAreNat, HeadTailProperties
<1>2. Cardinality(Told) \in Nat /\ Cardinality(Asked) \in Nat
  BY CountsAreNat
<1>3. queue' = Tail(queue) /\ done' = IF kind = "none" THEN done ELSE Append(done, kind)
  BY <1>1 DEF Finish
<1>4. /\ Cardinality(Asked') <= Cardinality(Asked)
      /\ Head(queue).kind = "poll" => Cardinality(Asked') <= Cardinality(Asked) - 1
      /\ Head(queue).kind # "poll" /\ Asked # {} => Asked' # {}
  BY <1>1, <1>3, PicksTail DEF Asked
<1>5. /\ Cardinality(Told') <= Cardinality(Told) + 1
      /\ kind \notin PollAnswers => Told' = Told
      /\ Told \subseteq Told'
      /\ kind \in PollAnswers => Len(done) + 1 \in Told'
  <2>1. CASE kind = "none"
    BY <1>2, <1>3, <2>1 DEF Told, PollAnswers
  <2>2. CASE kind # "none"
    BY <1>1, <1>3, <2>2, PicksAppended DEF Told
  <2>3. QED
    BY <2>1, <2>2
<1>6. Cardinality(Asked') \in Nat /\ Cardinality(Told') \in Nat
  <2>1. queue' \in Seq(Jobs)
    BY <1>1, <1>3, TailInSeq
  <2>2. done' \in Seq(Answers)
    BY <1>1, <1>3, AppendProperties
  <2>3. QED
    BY <2>1, <2>2, PicksFinite DEF Asked, Told
<1>7. Cardinality(Told') + Cardinality(Asked') <= Cardinality(Told) + Cardinality(Asked)
  <2>1. CASE kind \in PollAnswers
    BY <1>2, <1>4, <1>5, <1>6, <2>1
  <2>2. CASE kind \notin PollAnswers
    BY <1>2, <1>4, <1>5, <1>6, <2>2
  <2>3. QED
    BY <2>1, <2>2
<1>8. ASSUME ClearingFirst PROVE ClearingFirst'
  <2>1. PICK i \in 1..Len(done) : done[i] = "cleared" /\ (Asked # {} \/ \E j \in Told : j > i)
    BY <1>8 DEF ClearingFirst
  <2>2. i \in 1..Len(done') /\ done'[i] = "cleared"
    BY <1>1, <1>3, <2>1, AppendProperties
  <2>3. Asked' # {} \/ \E j \in Told' : j > i
    <3>1. CASE \E j \in Told : j > i
      BY <1>5, <3>1
    <3>2. CASE Asked # {} /\ kind \notin PollAnswers
      BY <1>4, <3>2
    <3>3. CASE kind \in PollAnswers
      <4>1. Len(done) + 1 > i
        BY <1>1, LenProperties
      <4>2. QED
        BY <1>5, <3>3, <4>1
    <3>4. QED
      BY <2>1, <3>1, <3>2, <3>3
  <2>4. QED
    BY <2>2, <2>3 DEF ClearingFirst
<1>9. QED
  BY <1>7, <1>8

(* A job comes behind the others. *)
LEMMA JobAdded ==
    ASSUME TypeOK, NEW job \in Jobs, Enqueue(job), UNCHANGED done
    PROVE  /\ Cardinality(Told') = Cardinality(Told)
           /\ Cardinality(Asked') <= Cardinality(Asked) + 1
           /\ job.kind # "poll" => Cardinality(Asked') = Cardinality(Asked)
           /\ job.kind = "poll" => Asked' # {}
           /\ ClearingFirst => ClearingFirst'
           /\ Running("setRain", "newsetup") => Running("setRain", "newsetup")'
           /\ DroppingFirst => DroppingFirst'
<1>1. queue \in Seq(Jobs) /\ done \in Seq(Answers) /\ queue' = Append(queue, job)
  BY CountsAreNat DEF Enqueue
<1>2. /\ Cardinality(Asked') <= Cardinality(Asked) + 1
      /\ job.kind # "poll" => Asked' = Asked
      /\ Asked \subseteq Asked'
      /\ job.kind = "poll" => Asked' # {}
  <2> DEFINE polls == {j \in Jobs : j.kind = "poll"}
  <2>1. job \in polls <=> job.kind = "poll"
    OBVIOUS
  <2> HIDE DEF polls
  <2>2. /\ Cardinality(Picks(queue', polls)) <= Cardinality(Picks(queue, polls)) + 1
        /\ job \notin polls => Picks(queue', polls) = Picks(queue, polls)
        /\ Picks(queue, polls) \subseteq Picks(queue', polls)
        /\ job \in polls => Picks(queue', polls) # {}
    BY <1>1, PicksAppended
  <2>3. Asked = Picks(queue, polls) /\ Asked' = Picks(queue', polls)
    BY DEF Asked, polls
  <2>4. QED
    BY <2>1, <2>2, <2>3
<1>3. Told' = Told
  BY DEF Told
<1>4. ClearingFirst => ClearingFirst'
  BY <1>2, <1>3 DEF ClearingFirst
<1>5. Running("setRain", "newsetup") => Running("setRain", "newsetup")'
  <2>1. ASSUME queue # <<>> PROVE queue' # <<>> /\ Head(queue') = Head(queue)
    BY <1>1, <2>1, AppendProperties
  <2>2. QED
    BY <2>1 DEF Running, Enqueue
<1>6. QED
  BY <1>2, <1>3, <1>4, <1>5 DEF DroppingFirst

(* The loop takes an answer. *)
LEMMA AnswerTaken ==
    ASSUME TypeOK, done # <<>>, done' = Tail(done), UNCHANGED queue
    PROVE  /\ Asked' = Asked
           /\ Cardinality(Told') \in Nat /\ Cardinality(Told') <= Cardinality(Told)
           /\ Head(done) \in PollAnswers => Cardinality(Told') <= Cardinality(Told) - 1
           /\ Cardinality(Told') = 0 => Told \subseteq {1}
           /\ Head(done) # "cleared" /\ ClearingFirst => ClearingFirst'
<1>1. done \in Seq(Answers) /\ Len(done) \in Nat
  BY CountsAreNat, LenProperties
<1>2. /\ Cardinality(Told') <= Cardinality(Told)
      /\ Head(done) \in PollAnswers => Cardinality(Told') <= Cardinality(Told) - 1
      /\ \A j \in Told : j # 1 => j - 1 \in Told'
  BY <1>1, PicksTail DEF Told
<1>3. done' \in Seq(Answers) /\ Len(done') = Len(done) - 1
        /\ \A i \in 1..Len(done') : done'[i] = done[i + 1]
  BY <1>1, TailInSeq
<1>4. IsFiniteSet(Told') /\ Cardinality(Told') \in Nat
  BY <1>3, PicksFinite DEF Told
<1>5. Cardinality(Told') = 0 => Told' = {}
  BY <1>4, FS_EmptySet
<1>6. Asked' = Asked
  BY DEF Asked
<1>7. ASSUME Head(done) # "cleared", ClearingFirst PROVE ClearingFirst'
  <2>1. PICK i \in 1..Len(done) : done[i] = "cleared" /\ (Asked # {} \/ \E j \in Told : j > i)
    BY <1>7 DEF ClearingFirst
  <2>2. i # 1
    BY <1>1, <1>7, <2>1, HeadTailProperties
  <2>3. i - 1 \in 1..Len(done') /\ done'[i - 1] = "cleared"
    BY <1>1, <1>3, <2>1, <2>2
  <2>4. Asked' # {} \/ \E j \in Told' : j > i - 1
    <3>1. CASE Asked # {}
      BY <1>6, <3>1
    <3>2. CASE \E j \in Told : j > i
      <4>1. PICK j \in Told : j > i
        BY <3>2
      <4>2. j \in Nat /\ j # 1 /\ j - 1 > i - 1
        BY <4>1 DEF Told, Picks
      <4>3. QED
        BY <1>2, <4>1, <4>2
    <3>3. QED
      BY <2>1, <3>1, <3>2
  <2>5. QED
    BY <2>3, <2>4 DEF ClearingFirst
<1>8. QED
  BY <1>2, <1>4, <1>5, <1>6, <1>7

(* A cancelled service's job is no poll, before and after. *)
LEMMA CancelKeepsPolls ==
    ASSUME TypeOK, NEW i \in 1..Len(queue), CancelService(i)
    PROVE  /\ Asked' = Asked /\ Told' = Told
           /\ ClearingFirst' <=> ClearingFirst
           /\ DroppingFirst' <=> DroppingFirst
<1>1. queue \in Seq(Jobs) /\ Len(queue) \in Nat /\ Len(queue) >= 1
  BY LenProperties DEF TypeOK
<1>2. queue' \in Seq(Jobs) /\ Len(queue') = Len(queue)
        /\ \A j \in 1..Len(queue) : queue'[j].kind = queue[j].kind
  BY CancelledQueue
<1>3. \A j \in 1..Len(queue) : queue[j] \in Jobs /\ queue'[j] \in Jobs
  BY <1>1, <1>2, ElementOfSeq
<1>4. Asked' = Asked
  BY <1>2, <1>3 DEF Asked, Picks
<1>5. done' = done /\ step' = step
  BY DEF CancelService
<1>6. Told' = Told
  BY <1>5 DEF Told
<1>7. ClearingFirst' <=> ClearingFirst
  BY <1>4, <1>5, <1>6 DEF ClearingFirst
<1>8. Running("setRain", "newsetup")' <=> Running("setRain", "newsetup")
  <2>1. queue # <<>> /\ queue' # <<>> /\ Head(queue').kind = Head(queue).kind
    BY <1>1, <1>2, HeadTailProperties
  <2>2. QED
    BY <1>5, <2>1 DEF Running
<1>9. QED
  BY <1>4, <1>6, <1>7, <1>8 DEF DroppingFirst

-----------------------------------------------------------------------------
(* A step of the worker changes the caches only to what the console has, and
   tells the loop of a poll when it ends one. *)
LEMMA WorkerKeepsPoll ==
    ASSUME TypeOK, PollInv, UNCHANGED <<lost, poll, draft>>,
           \/ UNCHANGED <<queue, done>>
           \/ /\ queue # <<>>
              /\ \E kind \in Answers \cup {"none"} :
                    /\ Finish(IF kind = "none" THEN <<>> ELSE <<kind>>)
                    /\ kind \in PollAnswers <=> Head(queue).kind = "poll",
           since.period \subseteq since'.period, since.rain \subseteq since'.rain,
           period' \in since'.period, collector' \in since'.rain,
           periodCache' \in {periodCache, period, Unread},
           rainCache' \in {rainCache, collector, Unread},
           Running("setRain", "newsetup") => rainCache' \in since'.rain \cup {Unread}
    PROVE  PollInv'
<1>1. Cardinality(Told') + Cardinality(Asked') <= Cardinality(Told) + Cardinality(Asked)
        /\ (ClearingFirst => ClearingFirst')
  <2>1. CASE UNCHANGED <<queue, done>>
    <3>1. Told' = Told /\ Asked' = Asked
      BY <2>1 DEF Told, Asked
    <3>2. ClearingFirst => ClearingFirst'
      BY <2>1, <3>1 DEF ClearingFirst
    <3>3. QED
      BY <3>1, <3>2, CountsAreNat
  <2>2. CASE ~UNCHANGED <<queue, done>>
    BY <2>2, JobEnds
  <2>3. QED
    BY <2>1, <2>2
<1>2. PollsCounted'
  <2>1. Cardinality(Told) + Cardinality(Asked) <= lost + (IF poll = "waiting" THEN 1 ELSE 0)
    BY DEF PollInv, PollsCounted
  <2>2. queue' \in Seq(Jobs) /\ done' \in Seq(Answers)
    <3>1. CASE UNCHANGED <<queue, done>>
      BY <3>1, CountsAreNat
    <3>2. CASE ~UNCHANGED <<queue, done>>
      <4>1. PICK kind \in Answers \cup {"none"} : Finish(IF kind = "none" THEN <<>> ELSE <<kind>>)
        BY <3>2
      <4>2. (IF kind = "none" THEN <<>> ELSE <<kind>>) \in Seq(Answers)
        BY AnswerType
      <4>3. QED
        BY <3>2, <4>1, <4>2, FinishType
    <3>3. QED
      BY <3>1, <3>2
  <2>3. Cardinality(Told') \in Nat /\ Cardinality(Asked') \in Nat
    BY <2>2, PicksFinite DEF Told, Asked
  <2>4. QED
    BY <1>1, <2>1, <2>3, CountsAreNat DEF PollsCounted
<1>3. PeriodKnown'
  BY <1>1 DEF PollInv, PeriodKnown, SinceSeen
<1>4. RainKnown'
  BY DEF PollInv, RainKnown, SinceSeen, DroppingFirst
<1>5. SinceSeen' /\ DraftKnown'
  BY DEF PollInv, SinceSeen, DraftKnown
<1>6. QED
  BY <1>2, <1>3, <1>4, <1>5 DEF PollInv

LEMMA WorkerPoll ==
    ASSUME TypeOK, PollInv, Worker
    PROVE  PollInv'
<1>1. SinceSeen
  BY DEF PollInv
<1>2. CASE PollFails
  <2>1. queue # <<>> /\ Head(queue).kind = "poll" /\ ~Running("setRain", "newsetup")
          /\ Finish(<<"error">>)
    BY <1>2 DEF PollFails, Running, Fail
  <2>2. UNCHANGED <<lost, poll, draft, since, period, collector, rainCache>>
          /\ periodCache' = Unread
    BY <1>2 DEF PollFails, Fail, console, loopState, history
  <2>3. QED
    BY <1>1, <2>1, <2>2, WorkerKeepsPoll DEF SinceSeen, Answers, PollAnswers
<1>3. CASE ReadLoopPacket \/ ReadArchives
  <2>1. ~Running("setRain", "newsetup") /\ UNCHANGED <<queue, done>>
    BY <1>3 DEF ReadLoopPacket, ReadArchives, Running, Goto
  <2>2. UNCHANGED <<lost, poll, draft, since, period, collector, rainCache>>
          /\ periodCache' \in {periodCache, period, Unread}
    BY <1>3 DEF ReadLoopPacket, ReadArchives, console, loopState, outcome, history
  <2>3. QED
    BY <1>1, <2>1, <2>2, WorkerKeepsPoll DEF SinceSeen
<1>4. CASE ReadRainCollector
  <2>1. queue # <<>> /\ Head(queue).kind = "poll" /\ ~Running("setRain", "newsetup")
          /\ Finish(<<"data">>)
    BY <1>4 DEF ReadRainCollector, Running
  <2>2. UNCHANGED <<lost, poll, draft, since, period, collector, periodCache>>
          /\ rainCache' \in {rainCache, collector, Unread}
    BY <1>4 DEF ReadRainCollector, console, loopState, outcome, history
  <2>3. QED
    BY <1>1, <2>1, <2>2, WorkerKeepsPoll DEF SinceSeen, Answers, PollAnswers
<1>5. ASSUME NEW obeyed \in BOOLEAN, NEW acked \in BOOLEAN,
             SetArchivePeriod(obeyed, acked)
      PROVE  PollInv'
  <2>1. queue # <<>> /\ Head(queue).kind = "setPeriod" /\ ~Running("setRain", "newsetup")
    BY <1>5 DEF SetArchivePeriod, Running
  <2>2. PICK kind \in {"cleared", "none"} : Finish(IF kind = "none" THEN <<>> ELSE <<kind>>)
    <3>1. Finish(<<>>) \/ Finish(<<"cleared">>)
      BY <1>5 DEF SetArchivePeriod, Fail
    <3>2. QED
      BY <3>1
  <2>3. since.period \subseteq since'.period /\ period' \in since'.period /\ since'.rain = since.rain
    BY <1>5 DEF SetArchivePeriod, TypeOK
  <2>4. UNCHANGED <<lost, poll, draft, collector, rainCache>>
          /\ periodCache' \in {periodCache, Unread}
    BY <1>5 DEF SetArchivePeriod, Fail, loopState
  <2>5. QED
    BY <1>1, <2>1, <2>2, <2>3, <2>4, WorkerKeepsPoll DEF SinceSeen, Answers, PollAnswers
<1>6. CASE ReadSetupBits
  <2>1. queue # <<>> /\ Head(queue).kind = "setRain" /\ ~Running("setRain", "newsetup")
    BY <1>6 DEF ReadSetupBits, Running
  <2>2. UNCHANGED <<queue, done>> \/ Finish(<<>>)
    BY <1>6 DEF ReadSetupBits, Goto, Fail
  <2>3. UNCHANGED <<lost, poll, draft, since, period, collector, rainCache>>
          /\ periodCache' \in {periodCache, Unread}
    BY <1>6 DEF ReadSetupBits, Fail, console, loopState, history
  <2>4. QED
    BY <1>1, <2>1, <2>2, <2>3, WorkerKeepsPoll DEF SinceSeen, Answers, PollAnswers
<1>7. ASSUME NEW written \in BOOLEAN, NEW acked \in BOOLEAN,
             WriteSetupBits(written, acked)
      PROVE  PollInv'
  <2>1. queue # <<>> /\ Head(queue).kind = "setRain" /\ ~Running("setRain", "newsetup")
    BY <1>7 DEF WriteSetupBits, Running
  <2>2. UNCHANGED <<queue, done>> \/ Finish(<<>>)
    BY <1>7 DEF WriteSetupBits, Goto, Fail
  <2>3. since.rain \subseteq since'.rain /\ collector' \in since'.rain /\ since'.period = since.period
    BY <1>7 DEF WriteSetupBits, TypeOK
  <2>4. UNCHANGED <<lost, poll, draft, period, rainCache>>
          /\ periodCache' \in {periodCache, Unread}
    BY <1>7 DEF WriteSetupBits, Fail, loopState, caches
  <2>5. QED
    BY <1>1, <2>1, <2>2, <2>3, <2>4, WorkerKeepsPoll DEF SinceSeen, Answers, PollAnswers
<1>8. CASE NewSetup
  <2>1. queue # <<>> /\ Head(queue).kind = "setRain" /\ Finish(<<>>)
    BY <1>8 DEF NewSetup, Running, Fail
  <2>2. UNCHANGED <<lost, poll, draft, period, collector>>
          /\ periodCache' \in {periodCache, Unread} /\ rainCache' \in {rainCache, Unread}
    BY <1>8 DEF NewSetup, Fail, console, loopState, history
  <2>3. /\ since'.period = since.period /\ since.rain \subseteq since'.rain
        /\ rainCache' \in since'.rain \cup {Unread}
    BY <1>8 DEF NewSetup, Fail, TypeOK
  <2>4. QED
    BY <1>1, <2>1, <2>2, <2>3, WorkerKeepsPoll DEF SinceSeen, Answers, PollAnswers
<1>9. ASSUME NEW obeyed \in BOOLEAN, NEW acked \in BOOLEAN, SetEeprom(obeyed, acked)
      PROVE  PollInv'
  <2>1. queue # <<>> /\ Head(queue).kind = "setEeprom" /\ ~Running("setRain", "newsetup")
          /\ Finish(<<>>)
    BY <1>9 DEF SetEeprom, Running, Fail
  <2>2. /\ since.period \subseteq since'.period /\ period' \in since'.period
        /\ since.rain \subseteq since'.rain /\ collector' \in since'.rain
    BY <1>9 DEF SetEeprom
  <2>3. UNCHANGED <<lost, poll, draft, rainCache>> /\ periodCache' \in {periodCache, Unread}
    BY <1>9 DEF SetEeprom, Fail, loopState
  <2>4. QED
    BY <2>1, <2>2, <2>3, WorkerKeepsPoll DEF Answers, PollAnswers
<1>10. CASE OtherJob
  <2>1. queue # <<>> /\ Head(queue).kind = "other" /\ ~Running("setRain", "newsetup")
          /\ Finish(<<>>)
    BY <1>10 DEF OtherJob, Running, Fail
  <2>2. UNCHANGED <<lost, poll, draft, since, period, collector, rainCache>>
          /\ periodCache' \in {periodCache, Unread}
    BY <1>10 DEF OtherJob, Fail, console, loopState, history
  <2>3. QED
    BY <1>1, <2>1, <2>2, WorkerKeepsPoll DEF SinceSeen, Answers, PollAnswers
<1>11. QED
  BY <1>2, <1>3, <1>4, <1>5, <1>6, <1>7, <1>8, <1>9, <1>10 DEF Worker

LEMMA LoopPoll ==
    ASSUME TypeOK, PeriodCacheFresh, RainCacheFresh, PollInv, EventLoop
    PROVE  PollInv'
<1>1. /\ PollsCounted /\ PeriodKnown /\ RainKnown /\ SinceSeen /\ DraftKnown
      /\ Cardinality(Told) \in Nat /\ Cardinality(Asked) \in Nat /\ lost \in Nat
  BY CountsAreNat DEF PollInv
<1>2. CASE StartPoll
  <2> DEFINE job == [kind |-> "poll"]
  <2>1. job \in Jobs /\ job.kind = "poll" /\ Enqueue(job) /\ UNCHANGED done
    BY <1>2 DEF StartPoll, Jobs
  <2>2. poll = "idle" /\ poll' = "waiting" /\ UNCHANGED <<console, caches, lost>>
          /\ since' = [period |-> {period} \cup (IF missed THEN {periodCache} ELSE {}),
                       rain |-> {collector} \cup (IF collectorMissed THEN {rainCache} ELSE {})]
    BY <1>2 DEF StartPoll
  <2> HIDE DEF job
  <2>3. /\ Cardinality(Told') = Cardinality(Told)
        /\ Cardinality(Asked') <= Cardinality(Asked) + 1 /\ Asked' # {}
        /\ Running("setRain", "newsetup") => Running("setRain", "newsetup")'
    BY <2>1, JobAdded
  <2>4. PollsCounted'
    <3>1. Cardinality(Asked') \in Nat
      BY <2>1, CountsAreNat, AppendProperties, PicksFinite DEF Enqueue, Asked
    <3>2. QED
      BY <1>1, <2>2, <2>3, <3>1 DEF PollsCounted
  <2>5. periodCache \in {Unread, period} \/ missed => periodCache' \in since'.period \cup {Unread}
    BY <2>2 DEF caches
  <2>6. Cleared(done) => ClearingFirst'
    BY <2>1, <2>3 DEF Cleared, ClearingFirst
  <2>7. PeriodKnown'
    BY <2>2, <2>5, <2>6 DEF PeriodKnown, PeriodCacheFresh, Cleared
  <2>8. RainKnown'
    BY <2>2, <2>3 DEF RainKnown, RainCacheFresh, DroppingFirst, caches
  <2>9. SinceSeen' /\ DraftKnown'
    BY <2>2 DEF SinceSeen, DraftKnown, console
  <2>10. QED
    BY <2>4, <2>7, <2>8, <2>9 DEF PollInv
<1>3. CASE AbandonPoll
  <2>1. poll = "waiting" /\ poll' = "idle" /\ lost' = lost + 1
          /\ UNCHANGED <<period, collector, since, queue, done>>
    BY <1>3 DEF AbandonPoll, console, worker, outcome, history
  <2>2. Told' = Told /\ Asked' = Asked
    BY <2>1 DEF Told, Asked
  <2>3. QED
    BY <1>1, <2>1, <2>2 DEF PollInv, PollsCounted, PeriodKnown, RainKnown, SinceSeen, DraftKnown
<1>4. ASSUME NEW job \in Jobs, CallService(job) PROVE PollInv'
  <2>1. Enqueue(job) /\ job.kind # "poll" /\ UNCHANGED <<console, caches, done, loopState, outcome>>
    BY <1>4 DEF CallService
  <2>2. /\ Cardinality(Told') = Cardinality(Told) /\ Cardinality(Asked') = Cardinality(Asked)
        /\ ClearingFirst => ClearingFirst'
        /\ DroppingFirst => DroppingFirst'
    BY <2>1, JobAdded
  <2>3. PollsCounted'
    BY <1>1, <2>1, <2>2 DEF PollsCounted, loopState
  <2>4. QED
    BY <1>1, <2>1, <2>2, <2>3 DEF PollInv, PeriodKnown, RainKnown, SinceSeen, DraftKnown,
       console, caches, loopState, outcome, history
<1>5. ASSUME NEW i \in 1..Len(queue), CancelService(i) PROVE PollInv'
  <2>1. UNCHANGED <<console, caches, done, loopState, outcome>>
    BY <1>5 DEF CancelService
  <2>2. /\ Told' = Told /\ Asked' = Asked
        /\ ClearingFirst => ClearingFirst'
        /\ DroppingFirst => DroppingFirst'
    BY <1>5, CancelKeepsPolls
  <2>3. PollsCounted'
    BY <1>1, <2>1, <2>2 DEF PollsCounted, loopState
  <2>4. QED
    BY <1>1, <2>1, <2>2, <2>3 DEF PollInv, PeriodKnown, RainKnown, SinceSeen, DraftKnown,
       console, caches, loopState, outcome, history
<1>6. CASE ClearPeriod
  <2>1. done # <<>> /\ done' = Tail(done) /\ periodCache' = Unread
          /\ UNCHANGED <<console, rainCache, worker, loopState, outcome>>
    BY <1>6 DEF ClearPeriod
  <2>2. Cardinality(Told') \in Nat /\ Cardinality(Told') <= Cardinality(Told) /\ Asked' = Asked
    BY <2>1, AnswerTaken DEF worker
  <2>3. PollsCounted'
    BY <1>1, <2>1, <2>2 DEF PollsCounted, loopState
  <2>4. DroppingFirst' <=> DroppingFirst
    BY <2>1, <2>2 DEF DroppingFirst, Running, worker
  <2>5. QED
    BY <1>1, <2>1, <2>3, <2>4 DEF PollInv, PeriodKnown, RainKnown, SinceSeen, DraftKnown,
       console, loopState, outcome, history
<1>7. CASE PollAnswered
  <2>1. /\ poll \in {"idle", "waiting"} /\ done # <<>> /\ done' = Tail(done)
        /\ Head(done) \in PollAnswers
        /\ UNCHANGED <<console, caches, worker, draft, outcome>>
    BY <1>7 DEF PollAnswered, LoopFree, PollAnswers
  <2>2. /\ Asked' = Asked /\ Cardinality(Told') \in Nat
        /\ Cardinality(Told') <= Cardinality(Told) - 1
        /\ Cardinality(Told') = 0 => Told \subseteq {1}
        /\ ClearingFirst => ClearingFirst'
    BY <2>1, AnswerTaken DEF worker, PollAnswers
  <2>3. DroppingFirst' <=> DroppingFirst
    BY <2>1, <2>2 DEF DroppingFirst, Running, worker
  <2>4. CASE lost > 0
    <3>1. lost' = lost - 1 /\ poll' = poll
      BY <1>7, <2>4 DEF PollAnswered
    <3>2. PollsCounted'
      BY <1>1, <2>2, <3>1 DEF PollsCounted
    <3>3. QED
      BY <1>1, <2>1, <2>2, <2>3, <3>1, <3>2 DEF PollInv, PeriodKnown, RainKnown, SinceSeen,
         DraftKnown, console, caches, outcome, history
  <2>5. CASE lost = 0
    <3>1. poll = "waiting" /\ Cardinality(Told) + Cardinality(Asked) <= 1
      BY <1>1, <2>1, <2>2, <2>5 DEF PollsCounted
    <3>2. Cardinality(Told') = 0 /\ Cardinality(Asked) = 0
      BY <1>1, <2>2, <3>1
    <3>3. Asked = {} /\ Told \subseteq {1}
      BY <2>2, <3>2, CountsAreNat
    <3>4. ~ClearingFirst
      <4>1. \A i \in 1..Len(done), j \in Told : ~(j > i)
        BY <3>3
      <4>2. QED
        BY <3>3, <4>1 DEF ClearingFirst
    <3>5. ~DroppingFirst
      BY <3>3 DEF DroppingFirst
    <3>6. poll' \in {"idle", "assert"} /\ lost' = lost
      BY <1>7, <2>5 DEF PollAnswered
    <3>7. PollsCounted'
      BY <2>2, <2>5, <3>2, <3>6 DEF PollsCounted
    <3>8. QED
      BY <1>1, <2>1, <3>1, <3>4, <3>5, <3>6, <3>7 DEF PollInv, PeriodKnown, RainKnown,
         SinceSeen, DraftKnown, console, caches, outcome, history
  <2>6. QED
    BY <1>1, <2>4, <2>5
<1>8. CASE AssertSession \/ ArchiveInterval \/ LoopRead \/ ConvertValues
  <2>1. /\ poll \in PostProcess /\ poll' \in PostProcess \cup {"idle"}
        /\ UNCHANGED <<period, collector, rainCache, queue, step, done, lost, since>>
    BY <1>8 DEF AssertSession, ArchiveInterval, LoopRead, ConvertValues, PostProcess,
       console, caches, worker, outcome, history
  <2>2. periodCache' \in {periodCache, period, Unread}
    BY <1>8 DEF AssertSession, ArchiveInterval, LoopRead, ConvertValues, caches
  <2>3. Told' = Told /\ Asked' = Asked
    BY <2>1 DEF Told, Asked
  <2>4. PollsCounted'
    BY <1>1, <2>1, <2>3 DEF PollsCounted, PostProcess
  <2>5. /\ poll # "idle" /\ poll # "waiting"
        /\ periodCache \in since.period \cup {Unread} /\ rainCache \in since.rain \cup {Unread}
    BY <1>1, <2>1 DEF PeriodKnown, RainKnown, PostProcess
  <2>6. PeriodKnown' /\ RainKnown' /\ SinceSeen'
    BY <1>1, <2>1, <2>2, <2>5 DEF PeriodKnown, RainKnown, SinceSeen
  <2>7. DraftKnown'
    BY <1>1, <1>8, <2>1, <2>5 DEF DraftKnown, SinceSeen, AssertSession, ArchiveInterval,
       LoopRead, ConvertValues
  <2>8. QED
    BY <2>4, <2>6, <2>7 DEF PollInv
<1>9. QED
  BY <1>2, <1>3, <1>4, <1>5, <1>6, <1>7, <1>8 DEF EventLoop

LEMMA PollInit == Init => PollInv
<1> SUFFICES ASSUME Init PROVE PollInv
  OBVIOUS
<1>1. Told = {} /\ Asked = {}
  BY DEF Init, Told, Asked, Picks
<1>2. Cardinality(Told) = 0 /\ Cardinality(Asked) = 0
  BY <1>1, FS_EmptySet
<1>3. QED
  BY <1>2 DEF Init, PollInv, PollsCounted, PeriodKnown, RainKnown, SinceSeen, DraftKnown

LEMMA PollStutters == PollInv /\ UNCHANGED vars => PollInv'
BY DEF PollInv, PollsCounted, PeriodKnown, RainKnown, SinceSeen, DraftKnown, ClearingFirst,
   DroppingFirst, Running, Told, Asked, vars, console, caches, worker, loopState, outcome, history

(* Whatever a poll publishes was the console's at some time since the poll
   began, or left in a cache by a cancelled service or a failed job: no matter
   how many polls were given up whose answers are still to come, and which jobs
   run in between. *)
THEOREM PublishedCorrect == Safe => PublishedIsCurrent
<1>1. TypeOK /\ PeriodCacheFresh /\ RainCacheFresh /\ PollInv /\ [Next]_vars => PollInv'
  BY LoopPoll, WorkerPoll, PollStutters DEF Next
<1>2. Safe => []PollInv
  BY <1>1, PollInit, TypeCorrect, PeriodCorrect, RainCorrect, PTL DEF Safe
<1>3. PollInv /\ [Next]_vars =>
         [published' # published =>
             /\ published'.period \in since.period
             /\ published'.rain \in since.rain \cup {Unread}]_vars
  <2>1. SUFFICES ASSUME PollInv, Next, published' # published
                 PROVE  /\ published'.period \in since.period
                        /\ published'.rain \in since.rain \cup {Unread}
    OBVIOUS
  <2>2. ConvertValues
    BY <2>1 DEF Next, EventLoop, Worker, StartPoll, AbandonPoll, ClearPeriod, PollAnswered,
       AssertSession, ArchiveInterval, LoopRead, CallService, CancelService, PollFails,
       ReadLoopPacket, ReadArchives, ReadRainCollector, SetArchivePeriod, ReadSetupBits,
       WriteSetupBits, NewSetup, SetEeprom, OtherJob, Fail, outcome
  <2>3. draft \in since.period /\ rainCache \in since.rain \cup {Unread}
    BY <2>1, <2>2 DEF PollInv, DraftKnown, RainKnown, ConvertValues
  <2>4. QED
    BY <2>2, <2>3 DEF ConvertValues
<1>4. QED
  BY <1>2, <1>3, PTL DEF Safe, PublishedIsCurrent

-----------------------------------------------------------------------------
(***************************************************************************)
(* What the validation of EEPROM writes is worth: "the console has no      *)
(* write protection; validate_eeprom_write is the only guard".             *)
(***************************************************************************)

(* Byte a of the console's memory may be written with set_eeprom. *)
Writable(a) ==
    a < EepromSize /\ \A r \in ProtectedEepromRanges : ~(r[1] <= a /\ a <= r[2])

LEMMA RangesOrdered ==
    \A r \in ProtectedEepromRanges : r[1] \in Nat /\ r[2] \in Nat /\ r[1] <= r[2]
BY DEF ProtectedEepromRanges

LEMMA WriteCovers ==
    ASSUME NEW w \in Nat \X Nat, w[2] >= 1
    PROVE  /\ LastByte(w) \in Nat /\ w[1] \in Nat
           /\ Covers(w, w[1]) /\ Covers(w, LastByte(w))
           /\ \A a \in Nat : w[1] <= a /\ a <= LastByte(w) <=> Covers(w, a)
BY DEF LastByte, Covers

(* Exactly the writes go out that have a byte and only writable ones: one that
   begins before a range and ends in it, or spans it, is refused, and nothing
   is refused without need. *)
THEOREM ValidationExact ==
    ASSUME NEW w \in Nat \X Nat
    PROVE  ValidWrite(w) <=> w[2] # 0 /\ \A a \in Nat : Covers(w, a) => Writable(a)
<1>0. w[1] \in Nat /\ w[2] \in Nat
  OBVIOUS
<1>1. ASSUME ValidWrite(w), NEW a \in Nat, Covers(w, a) PROVE Writable(a)
  <2>1. /\ w[1] <= a /\ a <= LastByte(w) /\ LastByte(w) \in Nat
        /\ LastByte(w) < EepromSize
    BY <1>1, WriteCovers DEF ValidWrite
  <2>2. a < EepromSize
    BY <2>1 DEF EepromSize
  <2>3. ASSUME NEW r \in ProtectedEepromRanges PROVE ~(r[1] <= a /\ a <= r[2])
    <3>1. r[1] \in Nat /\ r[2] \in Nat
      BY RangesOrdered
    <3>2. ~(w[1] <= r[2] /\ LastByte(w) >= r[1])
      BY <1>1 DEF ValidWrite
    <3> QED BY <1>0, <2>1, <3>1, <3>2
  <2> QED BY <2>2, <2>3 DEF Writable
<1>2. ASSUME w[2] # 0, \A a \in Nat : Covers(w, a) => Writable(a) PROVE ValidWrite(w)
  <2>1. /\ w[2] >= 1 /\ LastByte(w) \in Nat
        /\ Covers(w, w[1]) /\ Covers(w, LastByte(w)) /\ w[1] <= LastByte(w)
    BY <1>0, <1>2, WriteCovers DEF Covers
  <2>2. LastByte(w) < EepromSize
    BY <1>2, <2>1 DEF Writable
  <2>3. ASSUME NEW r \in ProtectedEepromRanges, w[1] <= r[2], LastByte(w) >= r[1]
        PROVE  FALSE
    <3>1. r[1] \in Nat /\ r[2] \in Nat /\ r[1] <= r[2]
      BY RangesOrdered
    <3>2. CASE r[1] <= w[1]
      BY <1>0, <1>2, <2>1, <2>3, <3>2 DEF Writable
    <3>3. CASE ~(r[1] <= w[1])
      <4>1. Covers(w, r[1])
        BY <1>0, <2>3, <3>1, <3>3 DEF Covers
      <4> QED BY <1>2, <3>1, <4>1 DEF Writable
    <3> QED BY <3>2, <3>3
  <2> QED BY <2>1, <2>2, <2>3 DEF ValidWrite
<1> QED BY <1>1, <1>2 DEF ValidWrite

(* The two settings the client caches change only through the job that is
   meant to set them, and the collector type also through a set_eeprom that
   covers the setup bits, which are not protected. *)
SettingsManaged ==
    [][/\ period' # period =>
             Head(queue).kind = "setPeriod" /\ period' = Head(queue).value
       /\ collector' # collector =>
             \/ Head(queue).kind = "setRain" /\ collector' = Head(queue).value
             \/ Head(queue).kind = "setEeprom" /\ Covers(Head(queue).at, SetupBitsAt)]_vars

(* Whatever set_eeprom calls come, the archive period stays SETPER's. *)
THEOREM SettingsOnlyByCommand == Safe => SettingsManaged
<1> DEFINE Managed ==
        /\ period' # period =>
              Head(queue).kind = "setPeriod" /\ period' = Head(queue).value
        /\ collector' # collector =>
              \/ Head(queue).kind = "setRain" /\ collector' = Head(queue).value
              \/ Head(queue).kind = "setEeprom" /\ Covers(Head(queue).at, SetupBitsAt)
<1>1. ASSUME TypeOK, Next PROVE Managed
  <2>1. ASSUME NEW obeyed \in BOOLEAN, NEW acked \in BOOLEAN,
               SetArchivePeriod(obeyed, acked)
        PROVE  Managed
    BY <2>1 DEF SetArchivePeriod, Running
  <2>2. ASSUME NEW written \in BOOLEAN, NEW acked \in BOOLEAN,
               WriteSetupBits(written, acked)
        PROVE  Managed
    BY <2>2 DEF WriteSetupBits, Running
  <2>3. ASSUME NEW obeyed \in BOOLEAN, NEW acked \in BOOLEAN, SetEeprom(obeyed, acked)
        PROVE  Managed
    <3>1. Head(queue).kind = "setEeprom" /\ period' = period
      BY <1>1, <2>3, EepromKeepsPeriod DEF SetEeprom, Running
    <3>2. collector' # collector => Covers(Head(queue).at, SetupBitsAt)
      BY <2>3 DEF SetEeprom
    <3> QED BY <3>1, <3>2
  <2>4. CASE UNCHANGED console
    BY <2>4 DEF console
  <2>5. EventLoop => UNCHANGED console
    BY DEF EventLoop, StartPoll, AbandonPoll, ClearPeriod, PollAnswered, AssertSession,
       ArchiveInterval, LoopRead, ConvertValues, CallService, CancelService
  <2>6. PollFails \/ ReadLoopPacket \/ ReadArchives \/ ReadRainCollector \/ ReadSetupBits
          \/ NewSetup \/ OtherJob => UNCHANGED console
    BY DEF PollFails, ReadLoopPacket, ReadArchives, ReadRainCollector, ReadSetupBits,
       NewSetup, OtherJob
  <2> QED BY <1>1, <2>1, <2>2, <2>3, <2>4, <2>5, <2>6 DEF Next, Worker
<1>2. TypeOK /\ [Next]_vars => [Managed]_vars
  BY <1>1
<1> QED BY <1>2, TypeCorrect, PTL DEF Safe, SettingsManaged
=============================================================================
