------------------------------- MODULE DavisPoll -------------------------------
(***************************************************************************)
(* A poll of one config entry and the two values it caches: the archive    *)
(* period, a cached_property of the DavisProtocolClient (protocol.py), and *)
(* the rain collector type, kept by DavisVantageClient (client.py).  The   *)
(* worker runs the jobs; the event loop post-processes a poll's answer in  *)
(* async_get_current_data and clears the archive period after its service. *)
(*                                                                         *)
(* The two threads share the caches and _protocol_client without a lock,   *)
(* so every access to them is a step of its own.  The loop does nothing    *)
(* else while it post-processes.  DavisTransport has the life of the link; *)
(* here it is only there (session) or dropped after a failed job.          *)
(***************************************************************************)
EXTENDS Naturals, Sequences

CONSTANTS
    Periods,       \* archive periods the console can be set to
    Collectors,    \* rain collector types
    Loop2,         \* the use_loop2 option
    EepromWrites,  \* set_eeprom calls: <<first address, number of bytes>>
    MaxJobs,       \* bounds the jobs in the executor and answers not delivered
    Unread         \* nothing cached

ASSUME PollAssumption ==
    /\ Unread \notin Periods \cup Collectors
    /\ Periods # {} /\ Collectors # {}
    /\ Loop2 \in BOOLEAN
    /\ EepromWrites \subseteq Nat \X Nat
    /\ MaxJobs \in Nat \ {0}

VARIABLES
    period,        \* the console's archive period
    collector,     \* the collector type in the console's setup bits
    session,       \* is there a _protocol_client?
    periodCache,   \* its archive_period, if it was read
    rainCache,     \* _rain_collector
    missed,        \* history: was a service cancelled that had to clear periodCache?
    queue,         \* jobs in the executor, the running one first
    step,          \* where the running job is
    done,          \* answers on their way to the loop, oldest first
    poll,          \* where the coordinator's poll is: see PollSteps
    lost,          \* polls the coordinator gave up whose answer is still due
    draft,         \* ArchiveInterval of the answer being post-processed
    published,     \* the values of the last poll that brought data
    since,         \* history: what the poll under way may publish
    collectorMissed  \* history: did the type change and rainCache stay behind?

console   == <<period, collector>>
caches    == <<session, periodCache, rainCache, missed>>
worker    == <<queue, step>>
loopState == <<poll, lost, draft>>
history   == <<since, collectorMissed>>
outcome   == <<published, history>>
vars == <<console, caches, worker, done, loopState, outcome>>

(* The jobs that matter here; "other" is any further operation.  A service
   that sets the period is heard until its call is cancelled. *)
Jobs == [kind : {"poll", "other"}]
          \cup [kind : {"setPeriod"}, value : Periods, heard : BOOLEAN]
          \cup [kind : {"setRain"}, value : Collectors]
          \cup [kind : {"setEeprom"}, at : EepromWrites]

JobSteps == {"idle", "start", "archives", "rain", "write", "newsetup"}

(* "assert", "interval" and "convert" are the post-processing's accesses to
   shared state, "reading" its own read of the archive period. *)
PollSteps   == {"idle", "waiting", "assert", "interval", "reading", "convert"}
PostProcess == {"assert", "interval", "reading", "convert"}

TypeOK ==
    /\ period \in Periods /\ collector \in Collectors
    /\ session \in BOOLEAN
    /\ periodCache \in Periods \cup {Unread}
    /\ rainCache \in Collectors \cup {Unread}
    /\ missed \in IF periodCache = Unread THEN {FALSE} ELSE BOOLEAN
    /\ queue \in Seq(Jobs)
    /\ step \in JobSteps
    /\ done \in Seq({"cleared", "data", "error"})
    /\ poll \in PollSteps
    /\ lost \in Nat
    /\ draft \in Periods \cup {Unread}
    /\ poll = "convert" => draft \in Periods
    /\ published \in [period : Periods, rain : Collectors \cup {Unread}]
    /\ since \in [period : SUBSET Periods, rain : SUBSET Collectors]
    /\ collectorMissed \in IF rainCache = Unread THEN {FALSE} ELSE BOOLEAN

(* A set up entry: the first refresh read the archive period one way or
   another, and perhaps the collector type. *)
Init ==
    /\ period \in Periods /\ collector \in Collectors
    /\ session = TRUE
    /\ periodCache = period
    /\ rainCache \in {collector, Unread}
    /\ missed = FALSE
    /\ queue = <<>> /\ step = "idle" /\ done = <<>>
    /\ poll = "idle" /\ lost = 0 /\ draft = Unread
    /\ published = [period |-> period, rain |-> rainCache]
    /\ since = [period |-> {period}, rain |-> {collector}]
    /\ collectorMissed = FALSE

-----------------------------------------------------------------------------
(***************************************************************************)
(* The event loop                                                          *)
(***************************************************************************)
LoopFree == poll \in {"idle", "waiting"}

Enqueue(job) ==
    /\ Len(queue) + Len(done) < MaxJobs
    /\ queue' = Append(queue, job)
    /\ step' = IF queue = <<>> THEN "start" ELSE step

(* From here on `since` collects what the console has, and what was left in
   a cache that no one will clear. *)
StartPoll ==
    /\ poll = "idle"
    /\ Enqueue([kind |-> "poll"])
    /\ poll' = "waiting"
    /\ since' = [period |-> {period} \cup (IF missed THEN {periodCache} ELSE {}),
                 rain |-> {collector} \cup (IF collectorMissed THEN {rainCache} ELSE {})]
    /\ UNCHANGED <<console, caches, done, lost, draft, published, collectorMissed>>

(* The coordinator's timeout cancels the coroutine, never the job. *)
AbandonPoll ==
    /\ poll = "waiting"
    /\ poll' = "idle"
    /\ lost' = lost + 1
    /\ UNCHANGED <<console, caches, worker, done, draft, outcome>>

CallService(job) ==
    /\ LoopFree /\ job.kind # "poll"
    /\ job.kind = "setPeriod" => job.heard
    /\ Enqueue(job)
    /\ UNCHANGED <<console, caches, done, loopState, outcome>>

(* A cancelled set_archive_period: its job goes on, but nobody clears the
   cached property behind it. *)
CancelService(i) ==
    /\ LoopFree
    /\ queue[i].kind = "setPeriod"
    /\ queue' = [queue EXCEPT ![i].heard = FALSE]
    /\ UNCHANGED <<console, caches, step, done, loopState, outcome>>

(* Mutant of ClearPeriod: the service leaves the cached property alone. *)
ClearPeriodForgotten ==
    /\ LoopFree /\ done # <<>> /\ Head(done) = "cleared"
    /\ done' = Tail(done)
    /\ UNCHANGED <<console, caches, worker, loopState, outcome>>

(* The set_archive_period service resumes and clears the cached property. *)
ClearPeriod ==
    /\ LoopFree /\ done # <<>> /\ Head(done) = "cleared"
    /\ done' = Tail(done)
    /\ periodCache' = Unread /\ missed' = FALSE
    /\ UNCHANGED <<console, session, rainCache, worker, loopState, outcome>>

(* A poll's answer: without data it only sets LastError. *)
PollAnswered ==
    /\ LoopFree /\ done # <<>> /\ Head(done) \in {"data", "error"}
    /\ done' = Tail(done)
    /\ IF lost > 0
       THEN lost' = lost - 1 /\ UNCHANGED poll
       ELSE /\ poll' = IF Head(done) = "data" THEN "assert" ELSE "idle"
            /\ UNCHANGED lost
    /\ UNCHANGED <<console, caches, worker, draft, outcome>>

(* add_additional_info: the assertion, caught like any other error. *)
AssertSession ==
    /\ poll = "assert"
    /\ poll' = IF session THEN "interval" ELSE "idle"
    /\ UNCHANGED <<console, caches, worker, done, lost, draft, outcome>>

(* Mutant of ArchiveInterval: an unread period is published as it is. *)
ArchiveIntervalUnread ==
    /\ poll = "interval"
    /\ draft' = periodCache
    /\ poll' = IF session THEN "convert" ELSE "idle"
    /\ UNCHANGED <<console, caches, worker, done, lost, outcome>>

(* data["ArchiveInterval"]: from the cache, or else from the console, on the
   loop's own thread; an AttributeError when the session is gone by now. *)
ArchiveInterval ==
    /\ poll = "interval"
    /\ draft' = periodCache
    /\ poll' = IF ~session THEN "idle"
               ELSE IF periodCache = Unread THEN "reading" ELSE "convert"
    /\ UNCHANGED <<console, caches, worker, done, lost, outcome>>

(* The value goes into the protocol client the read began with, which may
   have been dropped in the meantime. *)
LoopRead ==
    /\ poll = "reading"
    /\ \/ /\ poll' = "convert"
          /\ draft' = period
          /\ periodCache' = IF session THEN period ELSE Unread
          /\ missed' = FALSE
       \/ poll' = "idle" /\ UNCHANGED <<draft, periodCache, missed>>
    /\ UNCHANGED <<console, session, rainCache, worker, done, lost, outcome>>

(* convert_values scales the rain fields by _rain_collector. *)
ConvertValues ==
    /\ poll = "convert"
    /\ published' = [period |-> draft, rain |-> rainCache]
    /\ poll' = "idle"
    /\ UNCHANGED <<console, caches, worker, done, lost, draft, history>>

-----------------------------------------------------------------------------
(***************************************************************************)
(* The worker                                                              *)
(***************************************************************************)
Running(kind, at) == queue # <<>> /\ Head(queue).kind = kind /\ step = at

Goto(next) == step' = next /\ UNCHANGED <<queue, done>>

(* The job ends; its answer is delivered to the loop if someone reads it. *)
Finish(answer) ==
    /\ queue' = Tail(queue)
    /\ step' = IF Len(queue) > 1 THEN "start" ELSE "idle"
    /\ done' = done \o answer

(* Mutant of Fail: the cached property survives the reconnect. *)
FailKeepsPeriod(answer) ==
    /\ Finish(answer)
    /\ session' = FALSE
    /\ UNCHANGED <<periodCache, missed, rainCache, published, loopState>>

(* _execute_owned drops the protocol client, and its cached properties. *)
Fail(answer) ==
    /\ Finish(answer)
    /\ session' = FALSE
    /\ periodCache' = Unread /\ missed' = FALSE
    /\ UNCHANGED <<rainCache, published, loopState>>

PollFails ==
    /\ Running("poll", "start") \/ Running("poll", "rain")
    /\ Fail(<<"error">>)
    /\ UNCHANGED <<console, history>>

(* The LOOP packet arrived; hilows have no effect here. *)
ReadLoopPacket ==
    /\ Running("poll", "start")
    /\ Goto(IF Loop2 THEN "rain" ELSE "archives")
    /\ session' = TRUE
    /\ UNCHANGED <<console, periodCache, missed, rainCache, loopState, outcome>>

(* A failed read of the archive period only skips the archives. *)
ReadArchives ==
    /\ Running("poll", "archives")
    /\ Goto("rain")
    /\ periodCache' \in IF periodCache = Unread THEN {period, Unread}
                        ELSE {periodCache}
    /\ UNCHANGED <<console, session, missed, rainCache, loopState, outcome>>

(* Likewise a failed read of the collector type leaves it unknown. *)
ReadRainCollector ==
    /\ Running("poll", "rain")
    /\ Finish(<<"data">>)
    /\ rainCache' \in IF rainCache = Unread THEN {collector, Unread}
                      ELSE {rainCache}
    /\ UNCHANGED <<console, session, periodCache, missed, loopState, outcome>>

(* SETPER; the console may obey although its ACK is lost. *)
SetArchivePeriod(obeyed, acked) ==
    /\ Running("setPeriod", "start")
    /\ period' = IF obeyed THEN Head(queue).value ELSE period
    /\ since' = [since EXCEPT !.period = @ \cup {period'}]
    /\ IF acked
       THEN /\ Finish(IF Head(queue).heard THEN <<"cleared">> ELSE <<>>)
            /\ session' = TRUE
            /\ missed' = (missed \/ (~Head(queue).heard /\ periodCache # Unread))
            /\ UNCHANGED <<periodCache, rainCache, published, loopState>>
       ELSE Fail(<<>>)
    /\ UNCHANGED <<collector, collectorMissed>>

(* Reading the setup bits before they are changed. *)
ReadSetupBits ==
    /\ Running("setRain", "start")
    /\ \/ /\ Goto("write") /\ session' = TRUE
          /\ UNCHANGED <<periodCache, missed, rainCache, published, loopState>>
       \/ Fail(<<>>)
    /\ UNCHANGED <<console, history>>

(* The console's collector type may have changed and the job fails, or was
   not the one to drop the cached type: that stays until the next successful
   set_rain_collector. *)
LeaveRainCache(changed) ==
    collectorMissed' = (collectorMissed \/ (changed /\ rainCache # Unread))

(* EEBWR; the byte may be written and its ACK lost. *)
WriteSetupBits(written, acked) ==
    /\ Running("setRain", "write")
    /\ collector' = IF written THEN Head(queue).value ELSE collector
    /\ since' = [since EXCEPT !.rain = @ \cup {collector'}]
    /\ IF acked
       THEN Goto("newsetup") /\ UNCHANGED <<caches, published, loopState, collectorMissed>>
       ELSE Fail(<<>>) /\ LeaveRainCache(written)
    /\ UNCHANGED period

(* Mutant of NewSetup: the cached type survives the change. *)
NewSetupKeepsCache ==
    /\ Running("setRain", "newsetup")
    /\ Finish(<<>>)
    /\ UNCHANGED <<console, caches, published, history, loopState>>

(* Only after NEWSETUP is acknowledged is the cached type dropped. *)
NewSetup ==
    /\ Running("setRain", "newsetup")
    /\ \/ /\ Finish(<<>>)
          /\ rainCache' = Unread /\ collectorMissed' = FALSE
          /\ UNCHANGED <<session, periodCache, missed, published, since, loopState>>
       \/ /\ Fail(<<>>)
          /\ LeaveRainCache(TRUE)
          /\ since' = [since EXCEPT !.rain = @ \cup ({rainCache} \ {Unread})]
    /\ UNCHANGED console

(* The bytes of a write: from its address on, so many. *)
LastByte(w)  == w[1] + w[2] - 1
Covers(w, a) == w[1] <= a /\ a <= LastByte(w)

EepromSize == 4096

(* Factory calibration, and what BAR= and SETPER manage. *)
ProtectedEepromRanges == {<<1, 4>>, <<5, 6>>, <<7, 10>>, <<15, 16>>, <<45, 45>>}

SetupBitsAt == 43
ArchivePeriodAt == 45

(* Mutant of ValidWrite: only a write that begins in a range overlaps it. *)
ValidWriteStart(w) ==
    /\ w[2] >= 1 /\ LastByte(w) < EepromSize
    /\ \A r \in ProtectedEepromRanges : ~(w[1] >= r[1] /\ w[1] <= r[2])

(* validate_eeprom_write. *)
ValidWrite(w) ==
    /\ w[2] >= 1 /\ LastByte(w) < EepromSize
    /\ \A r \in ProtectedEepromRanges : ~(w[1] <= r[2] /\ LastByte(w) >= r[1])

(* EEBWR after a wake-up; nothing guards the console's memory but the
   validation, and a write that it refuses fails as a job like any other. *)
SetEeprom(obeyed, acked) ==
    /\ Running("setEeprom", "start")
    /\ LET w == Head(queue).at
           written(a) == obeyed /\ ValidWrite(w) /\ Covers(w, a)
       IN /\ acked => ValidWrite(w)
          /\ period' \in IF written(ArchivePeriodAt) THEN Periods ELSE {period}
          /\ collector' \in IF written(SetupBitsAt) THEN Collectors ELSE {collector}
          /\ LeaveRainCache(written(SetupBitsAt))
    /\ since' = [period |-> since.period \cup {period'},
                 rain |-> since.rain \cup {collector'}]
    /\ IF acked
       THEN /\ Finish(<<>>) /\ session' = TRUE
            /\ UNCHANGED <<periodCache, missed, rainCache, published, loopState>>
       ELSE Fail(<<>>)

OtherJob ==
    /\ Running("other", "start")
    /\ \/ /\ Finish(<<>>) /\ session' = TRUE
          /\ UNCHANGED <<periodCache, missed, rainCache, published, loopState>>
       \/ Fail(<<>>)
    /\ UNCHANGED <<console, history>>

-----------------------------------------------------------------------------
EventLoop ==
    \/ StartPoll \/ AbandonPoll \/ ClearPeriod \/ PollAnswered
    \/ AssertSession \/ ArchiveInterval \/ LoopRead \/ ConvertValues
    \/ \E job \in Jobs : CallService(job)
    \/ \E i \in 1..Len(queue) : CancelService(i)

Worker ==
    \/ PollFails \/ ReadLoopPacket \/ ReadArchives \/ ReadRainCollector
    \/ SetArchivePeriod(TRUE, TRUE) \/ ReadSetupBits \/ NewSetup \/ OtherJob
    \/ \E obeyed \in BOOLEAN : SetArchivePeriod(obeyed, FALSE) \/ SetEeprom(obeyed, FALSE)
    \/ SetEeprom(TRUE, TRUE)
    \/ WriteSetupBits(TRUE, TRUE)
    \/ \E written \in BOOLEAN : WriteSetupBits(written, FALSE)

Next == EventLoop \/ Worker

Safe == Init /\ [][Next]_vars

-----------------------------------------------------------------------------
(* The cached archive period is the console's, unless the answer that makes
   the loop clear it is still under way, or the service that should have
   cleared it was cancelled. *)
PeriodCacheFresh ==
    periodCache \in {Unread, period} \/ missed
        \/ \E i \in 1..Len(done) : done[i] = "cleared"

(* The cached collector type is the console's, unless the set_rain_collector
   job that drops it ("Drop the cached collector type so the next poll
   re-reads it") has not got there yet, or was the one that failed half way,
   or a set_eeprom changed the setup bits behind it. *)
RainCacheFresh ==
    \/ rainCache \in {Unread, collector}
    \/ Running("setRain", "newsetup")
    \/ collectorMissed

(* What a poll publishes was true of the console at some time since the poll
   began, or is what a cancelled service or a failed job left in a cache; a
   collector that could not be read is published as unknown. *)
PublishedIsCurrent ==
    [][published' # published =>
          /\ published'.period \in since.period
          /\ published'.rain \in since.rain \cup {Unread}]_vars

(* "Polling, wake-up, actions, archive reads, EEPROM access, and shutdown use
   that owner": the event loop is never on the wire while a job is. *)
WorkerOwnsDevice == poll = "reading" => step = "idle"
=============================================================================
