# Davis Vantage integration: formal models and proofs

TLA+ models of the Home Assistant integration in
`src/custom_components/davis_vantage`, checked with TLC and, where a theorem is
named below, proved with TLAPS for every value of the constants. Line numbers
refer to files of that directory unless a path says otherwise.

## 1. The system

The integration polls a Davis Vantage weather console over a serial logger.
Home Assistant's event loop runs all coroutines of all entries; each entry owns
one worker thread on which everything that touches the serial port runs.

| Component | State it keeps | Operations | Modelled by |
|---|---|---|---|
| client transport (`client.py`, class `DavisVantageClient`) | executor queue, `_pending_io`, `_protocol_client`, `_needs_reconnect`, `_connection_state`, `_stopping`, `_executor_shutdown` | `_async_run_io`, `_execute_owned`, `async_begin_shutdown`, `async_close`, `async_cancel_shutdown` | `DavisTransport` |
| polling and its caches | `_rain_collector`, the cached properties of the protocol client | `get_current_data` on the worker, `add_additional_info` and `convert_values` on the loop, settings services | `DavisPoll` |
| coordinator (`coordinator.py`) | `_consecutive_failures`, the `connection_lost` issue | `_async_update_data` and its two outcomes | `DavisCoordinator` |
| entry lifecycle (`__init__.py`) | the loaded client, the executor of earlier clients | setup, retry, unload, reload | `DavisEntry` |
| archive download (`protocol.py`, DMPAFT) | page number, attempts, records | `get_archives`, `_read_archive_page` | `DavisArchive` |
| wire exchange (`protocol.py`; `DavisSerialXLink` of `client.py`) | what is in the buffers | `wake_up`, `send`, `retry`, `read` | `DavisWire` |
| config flow, verification, migration | entries' data, options, unique ids; a flow's step and verification | user, interface, verify, options and reconfigure steps, `verify_serial`, `async_migrate_entry` | `DavisConfigFlow` |
| EEPROM settings | console memory | `EEBRD`, `EEBWR`, `SETPER`, `NEWSETUP` | in part: `DavisPoll`, `DavisWire` |
| services (`services.py`) | none | one client call each, after finding the entry | in part: every call is a call of `DavisTransport`; `DavisEntry` has which client it reaches, `DavisPoll` the three that change what a poll reads |
| parsers, CRC, unit conversions | none | decoding | in part: `DavisReadings` has field codes, dashes, scales and which packet brings what |
| masking and post-processing (`client.py`) | none | `remove_all_incorrect_data`, `add_additional_info`, `convert_values` | `DavisReadings` |
| sensor, binary sensor, weather entities | per sensor its last value and whether it warned; entity ids | a coordinator update | `DavisEntities` |
| diagnostics, release scripts, cards, blueprints | none | reading, file rewriting | no |

How they interact: `__init__.py` builds a client and a coordinator per entry and
drives the client's shutdown; the coordinator and the services call the client;
each call is one job on the worker, which runs a transaction of the protocol
client (wake-up, command, answer); config and options flows change an entry,
whose update listener reloads it.

What is hard here:

* **Two threads.** A coroutine waits for a shielded future; a timeout cancels
  the waiter and never the job. The worker writes the connection state and the
  caches without a lock.
* **Shutdown in the middle of work.** An unload must drain what is queued, stop
  new work, survive a hanging worker, and be undone when it is refused.
* **Time.** A poll is given 15 s, a close 30 s, a silent wake-up takes 62 s.
* **An unreliable line.** Answers come late, twice, torn or not at all.
* **Failures that are passed over.** A poll does without hilows, archives or the
  collector type when their reads fail, on a link that stays open.
* **State shared by entries.** One repair issue; one set of ports and unique ids.
* **Stale knowledge.** A flow's verification, cached console settings, options
  that survive the console they were chosen for, a direction held through calm
  air, the client a service call finds in `runtime_data`.
* **Many ways to say "no data".** A dash is 255, 32767, 65535, -32768 or 0,
  depending on field and packet, and four pieces of code each know some of them.

What makes each part correct is the list of properties in section 3.

## 2. Modules

Each module names its constants, states its assumptions (`ASSUME`), and has one
action per operation, handler or stretch of code between two awaits. Operators
called "Mutant of X" are plausible wrong versions of X; no specification uses
them. They serve to show that each property does depend on the code it is about.

* **`DavisTransport`** - one entry's client and unload coroutine. State
  corresponds one to one to the attributes above: `phase` and `queue` are the
  executor, `pending` is `_pending_io`, `waiter` the coroutine behind
  `asyncio.shield`, `client` is `_protocol_client` with its link closed or open,
  `unload` and `drain` the local state of `async_unload_entry` and `async_close`.
  A job's future settles on the worker and reaches the loop in a later step
  (`Deliver`). All facade operations are one kind of call that connects and then
  succeeds or raises; a success may have a swallowed failure in it, which the
  history `suspect` remembers as long as the link stays open. The answer of a poll
  may make the loop itself read the archive period (`client.py:737`) and so open the
  port, which `loopOpened` remembers. `persistent` is the option, a variable that
  never changes. `DavisTransportProps` has its properties,
  `DavisTransport_proofs` its proofs.
* **`DeviceOwner`** - the abstract promise of the transport: accepted requests
  are carried out one at a time although their callers may be gone; a gate that
  can be shut and reopened; sealed only when nothing is left. `DavisTransport`
  implements it (`OwnsDevice`, by the mapping in `DavisTransportProps`).
* **`ClientQueues`** - clients as the entry sees them: a number of jobs and a gate
  each. `DavisEntry` uses its clients like this (`ClientsAreQueues`) and
  `DavisTransport` is one of them (`IsClientQueue`: its outstanding calls, its
  gate), so this module is the interface between the two.
* **`PageTransfer`** - what an archive download promises to its caller: pages taken
  in order, each once and whole, no early end that loses anything, no failure
  after the end. `DavisArchive` implements it (`TransfersPages`); a page is taken
  in the step that accepts it.
* **`ConsoleRegistry`** - what the config flows promise together: entries with a
  link each, and perhaps a console they are sure of, which are never shared and
  which an entry is not moved away from. `DavisConfigFlow` implements it
  (`KeepsRegistry`); flows and verifications are hidden by the mapping.
* **`DavisPoll`** - the accesses of both threads to the cached archive period and
  collector type, each a step of its own. `Fail` is `_execute_owned`'s except
  branch as far as it concerns the caches. A service may be cancelled between
  its job and the line after it (`missed` remembers that one was), a
  `set_rain_collector` may fail half way and a `set_eeprom` may write the setup bits
  (`collectorMissed` remembers that the type changed and the cached one was left),
  and `EepromWrites` is the set of ranges `set_eeprom` is called with, checked as
  `validate_eeprom_write` does.
* **`DavisCoordinator`** - the coordinators of all entries and the one issue. A
  poll is one step because everything after its only await runs undisturbed.
* **`DavisEntry`** - setups, retries, polls, service calls and unloads against
  the clock, in units of five seconds. A job is how long it has kept the worker
  (`ran`, up to `MaxJob`) and whether it raises; setup is its four awaited jobs, of
  which two may raise unnoticed.
  `awaited` is how far down the queue the job is that the coroutine waits for,
  `runtime` the client `runtime_data` names, which a service call reaches
  whatever the entry is doing.
* **`DavisReadings`** - operators, no state: what a raw answer becomes on its way
  through the unpack helpers, the masking, the post-processing, and the value
  functions of the three platforms. Values are integers in units of their
  field's resolution, so that a raw number which happens to look like a dash
  after scaling is one here, too.
* **`DavisEntities`** - the entities of an entry, extending `DavisCoordinator`:
  every step is a coordinator's step together with what it makes the entities
  do. `native` is `_attr_native_value`, `latch` is `_attr_missing_value_logged`;
  `alerts` and `bearings` are history.
* **`DavisArchive`** - client, console and line of a DMPAFT download. The console
  and line are external: they are modelled from what the client relies on.
* **`DavisWire`** - transactions on one link. Bytes carry the call they answer, as
  history that only the properties read. After a failure `_execute_owned` drops the
  link with all that is on it; but a call of kind "extra" is one of the reads
  `get_current_data` can do without, whose failure leaves the link as it is. `kept`
  remembers that this has happened since the link was opened.
* **`DavisConfigFlow`** - entries, open flows and the devices on the ports. The
  checks at the end of a flow and the change they protect are one step, as no
  await that yields lies between them. An entry id stands for the identity
  generated for it; a device is its serial number and its by-id path.

The modules are separate views of one system rather than one large model. They
meet in these places: a call of `DavisTransport` is a job of `DavisEntry` and of
`DavisPoll` and one or more transactions of `DavisWire`; `Raise` of `DavisTransport`
(the link is dropped) is `Raise` of `DavisWire` for every kind but "extra", and `Fail`
of `DavisPoll`; a failed "extra" is a success of `DavisTransport` with a suspect link,
and the read that brought nothing in `ReadArchives` and `ReadRainCollector` of
`DavisPoll`. What
`DavisEntry` takes for granted of its clients - no job gets in behind a shut
gate, a gate closes for ever only when no job is left - is `ClientQueues`, and
proved of `DavisTransport`; it is also what lets `DavisCoordinator` unload in
one step. Time and the order of a client's jobs are not part of that interface: the
order is that of `ThreadPoolExecutor`, which both modules take as it is.

## 3. What the runs check

| Run | Shows |
|---|---|
| `transport` | two calls, two unloads, with and without a persistent connection, every interleaving: the drain holds all that is outstanding; a confirmed close is quiet; no call uses the link of one that raised, and a link with a swallowed failure outlives its call only where the connection is persistent or the loop opened the port; an idle port is released, but for one the loop opened; a refused unload accepts calls again, but for a port the operating system did not close; accepted calls end and waiters resume while the worker does not hang; unloads return even when it does; the refinements of `DeviceOwner` and `ClientQueues` |
| `coordinator_shared` | *finding*: with two entries the recovery of one deletes the issue of the other's outage |
| `entry_lifecycle` | the code's own times and jobs of up to 65 s, two service calls at any time: two clients meet at the port only where the earlier one's job outlasted the refresh, the close and the wait for the retry; setups end, gate and `runtime_data` follow the entry; the refinement of `ClientQueues`, so a closed client never works again |
| `entry_overlap` | *finding*: such a job, the silent wake-up, makes a retried setup use the port together with the client before it |
| `entry_polls` | *finding*: with the default interval a poll queues behind the job of the poll before it |
| `poll_caches` | polls, services that may be cancelled or fail half way, `set_eeprom` on the setup bits and up to the archive period, and failures on both threads: caches are fresh or known to be left behind, and published values are current or what was left |
| `poll_loop_io` | *finding*: in LOOP2 mode the loop itself reads the console, next to the worker |
| `archive_download` | up to three pages, damaged, late or lost: only the expected page is accepted, a finished download is the window exactly, the final page is not acknowledged, downloads end; the refinement of `PageTransfer` |
| `config_flow` | two flows, two entries, two ports, three kinds of device: unique consoles and ports, consistent identities, LOOP2 only where it is answered; the refinement of `ConsoleRegistry`, so consoles are kept |
| `wire` | two calls with a stray byte, a lost byte and a missed write, on a link that stays open after a swallowed failure: until there is one, acknowledgements and blocks belong to the call that takes them and a confirmed write was stored or is about to be |
| `entities` | one entry, LOOP1 mode, eleven answers and failing polls: readings are real up to the two known exceptions, directions are held, the platforms agree, one warning per outage, the repair issue is there exactly during outages and no reading with it, lasting outages raise it |
| `readings_fake` | *finding*: in LOOP2 mode the condition sensors show a forecast, and an extra temperature without its sensor 165 degrees, which nobody measured |

### Findings

The runs that end in a violation each refute a sentence of the docs or of a
comment; `PROJECT.json` quotes it. Four further findings belong to runs that pass,
because the property states exactly how far the sentence is true:

* **Swallowed failures** (run `wire`). `get_current_data` logs a failed hilows,
  archive or collector read and goes on (`client.py:366-394`); the poll ends well,
  `_needs_reconnect` stays false, and the answers still on the way stay on the link:
  for the next read of the same poll, and with a persistent connection for the next
  job. Hence the condition `~kept` of `AckIsOwn`, `AnswerIsOwn` and
  `WriteConfirmed`; TLC finds each of the three violated without it. Two reads
  that miss their acknowledgements are enough: the second then takes the
  acknowledgement and the block of the first. An archive period and a collector
  type, both one byte of EEPROM, can change places, and a write can be confirmed by
  what was meant for a read.
* **An unload that cannot be undone** (run `transport`). When the operating system's
  close raises, `async_close` shuts the executor down and `async_cancel_shutdown`
  (`client.py:1113`) cannot undo it, so an entry that stays loaded rejects every
  call; `src/docs/design.md:25` says the undo also happens when a close does not
  confirm. `RefusedUnloadResumes` excepts this case and says when it can occur: the
  port must be open when the close runs, so the connection is persistent or the loop
  has opened the port.
* **A collector type that stays cached** (run `poll_caches`). `client.py:948` drops the
  cached type "so the next poll re-reads it", but only at the end: a
  `set_rain_collector` whose EEPROM write is stored and whose ACK or `NEWSETUP` fails
  leaves the old type there, and so does a `set_eeprom` that writes the setup bits
  at 0x2B, which no check protects (`src/docs/operations.md:22-25` leaves them to
  `set_rain_collector`). `collectorMissed` is exactly that.
* **Calm air** (run `entities`). `src/README.md:147` says wind directions are
  "`Unknown` if current wind speed is `0.0`"; the code holds the last direction, as
  `src/docs/design.md:129-131` says. `DirectionHeld` states what the code does.

More was seen while modelling:

* A port that the loop has opened for its read of the archive period stays open
  without a persistent connection, against `_should_close_after_transaction`
  (`client.py:209`), until the next call or the unload; `IdlePortReleased` and
  `loopOpened` name it, and the finding of `poll_loop_io` is about the same read.
* A `set_archive_period` service that is cancelled before the line that clears the
  cached period (`services.py:345`) leaves it behind although its job runs (`missed`).
* `_is_dash` compares every sensor's value with the dashes of all fields: a wind
  direction of 255 degrees and a solar radiation of 255 W/m2 are real
  (`src/docs/protocol.md:15,17`) and are shown as missing. `PresentationsAgree`
  therefore compares with the weather entity "up to" such values, and
  `DirectionHeld` knows that 255 degrees does not replace what is held.
* A humidity of zero makes `calc_dew_point` (`utils.py:164`) raise, in LOOP1 mode
  at every poll, which turns a dry reading into an outage.
* The condition sensors and the weather entity have different fallbacks when the
  icon is missing ("Sunny" against the rain rate); the last but one conjunct of
  `PresentationsAgree` is restricted to known icons.
* Two consoles swapped between ports cannot be reconfigured, because the new
  link of each entry is the old one of the other (`config_flow.py:262`).

### Bounds

* Transport: two calls are one at the device and one that is queued or arrives during
  the shutdown; two close jobs allow an unload that times out, is undone and is
  repeated while the first close job is still queued. `persistent` takes both
  values. Deadlock is not checked because an unloaded client with no calls left has
  stopped.
* Coordinator: `MaxStreak`, 5 in `entities`, exceeds the threshold of three by
  two; nothing in the code distinguishes streaks above the threshold.
* Entry: three clients (`MaxGens`) show a retry of a retry; the unit of 5 s
  divides every time in the code, and the runs use those times: 15 s for a poll, 30 s
  for a close, 5 s before the retry, the default interval of 30 s. A job takes up to
  65 s (`MaxJob`), the first multiple of 5 s that holds the 62 s of a wake-up nobody
  answers. Two service calls (`MaxCalls`) reach both a client that is being closed
  and one that was replaced. At most three jobs wait for one client (`MaxBacklog`).
  The run stops when its clients are used up.
* Poll: three jobs allow a poll, the service that changes what it read, and a
  failure between them. Two values of each setting tell stale from fresh.
  `set_eeprom` is called with the setup bits alone, which passes, and with the three
  bytes that begin there and reach the archive period, which does not (`MCWrites`).
* Archive: three pages have a first, a middle and a last; page numbers are sent
  modulo two, the hardest case, as the client ever confuses at most a page with
  the one before it (proved for every index size from two). Downloads stop.
* Config flow: two flows and two entries are what a race needs; the devices have
  a serial number and a by-id path, a serial number only, or neither, and of those
  with a serial number one answers LOOP2 and one does not. The run's `VIEW` leaves
  out the link a flow submitted once it is verified: from then on no action reads
  it before the next submission overwrites it.
* Wire: two calls, since surplus answers of one must reach the next; blocks of two
  bytes; one fault of each kind together with any number of late answers. The
  properties were also checked with three calls, without faults and with one lost
  byte and one missed write. Calls are bounded, so the run stops.
* Entities: a good answer, the same with one thing different at a time (each kind
  of dash, numbers that look like one, calm air, a north wind, rain and no rain,
  dry air, a missing packet), and a console without its sensor suite. Polls
  choose among them freely, so held values meet every answer. The proofs cover
  all other answers and LOOP2 mode.

### Fairness

* The event loop runs every ready callback and its timers fire: weak fairness of
  `Deliver` and of the unload coroutine, and of the coroutine, the worker's end
  of a job and the clock in `DavisEntry`, where job lengths are bounded.
* The worker of `DavisTransport` is **not** assumed fair. A device can block it
  for ever; the properties that need it to move state `WorkerFairness` as their
  premise. `UnloadReturns` does without.
* Each read of the client returns at its timeout at the latest: weak fairness of
  the client in `DavisArchive`, none of the console or the line.
* A loaded entry is polled on its interval (`DavisCoordinator`); whether polls
  bring data is left open.

## 4. What is proved

All proofs are checked by TLAPS to the last leaf, for any finite or infinite
sets of calls, entries, devices, flows, memories or answers that meet the
`ASSUME`s.

* **Transport** (`Invariance`). The inductive invariant `IInv` adds to the types
  and to `DrainIsComplete`: the queue has no duplicates and only queued jobs;
  one job at most is at the device; a job that raised leaves no link; the gate,
  the executor and the unload's step agree (`GateInv`); and an awaited
  close job is the last job there is (`LastJobInv`). The last two are what makes
  `ClosedIsQuiescent` inductive: a close that confirms must know that no job
  comes behind it. From `IInv` follow `DrainCorrect`, `CloseCorrect`,
  the action property `DrainsMonotonically` (during a shutdown no call is accepted)
  and the refinements `TransportOwnsDevice` and `TransportIsClientQueue`, of which the second
  counts: a step moves the number of outstanding calls by one at most
  (`OutstandingMoves`), and a close that ends the worker finds none, because of
  `DrainIsComplete`. `LinkCorrect`, `PortReleased` and `UndoCorrect` need a second
  invariant, `PortInv`, about the port between two calls: in both modes, with swallowed
  failures and reads by the loop, an open port is persistent or was opened by the loop,
  and so is one that a close could fail on.
* **Coordinator.** `NeverStale` for any number of entries; `SingleEntryReported`
  for one, which is the condition `coordinator_shared` shows to be needed. The
  invariant relates the streak to the window of the last polls.
* **Entry.** `ClosedStaysDone` and `GateCorrect` hold for all times and numbers of
  clients and calls; their invariant says what each step of the coroutine means
  for the gates of the newest client and of those before it, and that the jobs
  awaited are the jobs queued once the gate is shut. The same invariant gives the
  refinement `EntryClientsAreQueues`: every step is about one client
  (`EntryMovesQueue`), and the gate is open where a job is submitted.
  `PortHasOneUser` says for every choice of the times, and any length of jobs, how
  late a retry is when it meets an earlier client at the port: that client's job has
  run for poll timeout, close timeout and retry wait, one after the other. It
  follows from `Late`: what a setup that waits for a job still has to wait, and what
  the job has run, are together at least all the waits up to there. So `OnePortUser`
  holds while jobs are shorter than these 50 s; a silent wake-up is longer,
  and `entry_overlap` has the consequence.
* **Poll.** `PeriodCorrect` and `RainCorrect`, whatever fails or is cancelled: a
  clearing answer follows every changed period, or `missed` has it, and a collector
  type that changed is dropped by the job that is still to do it, or
  `collectorMissed` has it. `PublishedCorrect` follows from
  `PollInv`: the polls whose job or answer is still under way are no more than
  those given up and the one waited for (`PollsCounted`), so when the last one
  is answered, the clearing or dropping of a stale value, which came before it,
  has happened; until then it is still ahead (`ClearingFirst`, `DroppingFirst`).
  `ValidationExact` says what the only guard of the console's memory is worth: for
  every address and length, exactly the writes pass that have a byte, all in the
  memory and none protected. With it `SettingsOnlyByCommand` follows: whatever
  `set_eeprom` calls come, the archive period is changed by `SETPER` alone.
* **Archive.** `PageCorrect`, `AckCorrect`, `WindowCorrect`. The key fact is that
  pages on the line, then requests on the line, are at most one page behind what
  the client expects and in order, so a number modulo two or more tells them
  apart; `WindowCorrect` adds that the records kept are those of the pages
  before the expected one. It needs `Ordered`, the order in which a console
  writes its memory. `DownloadTransfersPages` makes of these the refinement of
  `PageTransfer`: the client's loop over a page gives what the page has within the
  window (`KeptIsInPage`), and where it stops early, the order of the memory
  leaves nothing for later pages (`NothingAfterStop`). `ReadsBounded` is the part
  of termination that is safety: the reads a download has left (`ReadsLeft`, pages
  times attempts) never grow and every step of the client uses one, so with the
  timeouts of its reads it ends.
* **Config flow.** `ConsolesUnique`, `LinksUnique`, `UidCorrect`, `Loop2Correct`,
  `ConsoleAlwaysKept`. The invariant says what an entry's and a result's fields
  have to do with each other (`KnownEntry`, `KnownResult`): identity, unique id,
  strength and LOOP2 change together, whenever the verification was made.
  `FlowsKeepRegistry` is the refinement of `ConsoleRegistry`: the unique id of an
  entry that is sure of its console is that console's, so the checks of unique id
  and link, made in the step that changes an entry, keep it apart from all others.
* **Entities.** For every set of answers and both packet modes: `ReadingsAreReal`,
  `DirectionIsHeld`, `PlatformsDoAgree`, `OneWarning`, `NoReadingInOutage`, and,
  through `EntitiesRefineCoordinator`, the coordinator's two invariants
  (`IssueIsTrue`). `EntityInv` says of each sensor how its value arises from the
  last answer and from what it held, so that the properties become facts about
  `DavisReadings`. `DirectionIsHeld` alone assumes something of the raw numbers,
  that no direction is 65535, which the masking drops and the property counts as
  measured. `ReadingsAreReal` excepts two values only (`KnownFake`), an extra
  temperature of 255 and conditions without a known forecast, which are those
  `readings_fake` is about; hence `GenuineWhenComplete`: where they cannot occur,
  `AllReadingsGenuine` holds.
* **Wire.** `AckCorrect` and `AnswerCorrect`, for any number of calls, faults and
  tries. The invariant has no claim but the types once a failure was swallowed on
  this link (`kept \/ Clean`), and is restored when the link is closed. On a clean
  link, the bytes of a call take two turns on the line, its wake-up and the
  rest; what is in the buffers is always sorted by turn (`InOrder`), and the bytes
  of the call under way say whether its command was obeyed (`OwnBytes`,
  `BlocksLast`, `Expecting`). A command's acknowledgement cannot be a left-over of
  an earlier call because the wake-up of this call was answered in between.
  `WriteCorrect` needs one more part, `Weighed`: twice the acknowledgements that
  are in the buffer, plus the commands still on the way, never exceeds what the
  tries allow. It assumes `Tries <= 3`, and TLC finds `WriteConfirmed` violated
  with four: the console takes the second command for the block, acknowledges the
  third, and takes the fourth for the block again; the second acknowledgement is
  then read as the block's, which nobody waits for. The code has three
  (`protocol.py:857`, `protocol.py:868`), the most that is safe.

Only model-checked:

* `AcceptedCallsEnd`, `WaitersResume`, `UnloadReturns`, `SetupReturns`,
  `DownloadEnds` and `OutageEventuallyReported`, which are liveness under fairness
  and would need reasoning about `ENABLED`, out of the prover's reach. Of
  `DownloadEnds` the safety part is proved (`ReadsBounded`).
* The violations: a counterexample is a behaviour, and TLC has it.

Proved without a run of their own are `TypeCorrect` of each module, the two
properties `ClosedMeansDone` and `ConsoleKept`, which the refinements of
`ClientQueues` and `ConsoleRegistry` say step by step in the runs, `ReadsBounded`,
`ValidationExact`, `SettingsOnlyByCommand` and `GenuineWhenComplete`.

## 5. What the models leave out

* Decoding by byte offset, unit formulas, formatting, logging. A frame is valid or
  not; CRCs do not collide, and data bytes are not taken for an ACK or a wake
  answer.
* `DavisTransport`: any poll may make the loop read the archive period; when it has
  to is in `DavisPoll`. The loop's read is one step, and what a job of the worker on
  the wire makes of it is not modelled (`poll_loop_io` is about the overlap). A port
  that outlives its client (`orphans`) is in the model; garbage collection closes it.
* `DavisEntry`: a platform that refuses its unload closes and reopens the gate
  within one moment of the model, so it is no action. An entry whose close
  timed out polls on in the model. In the code its platforms are gone by then
  (`__init__.py:206`), and whether anything still asks for polls is Home
  Assistant's business; the properties hold either way.
* `DavisPoll`: the session is dropped only by a failure, also when the option
  would keep it closed between polls.
* `DavisWire`: what is on the way when a link closes is gone. An archive download that
  fails between its pages is an "extra" whose block never came right; what a console
  still sends of it is bytes of that block. A console that
  waits for a block does not miss it. Without the second assumption a write
  whose command was acknowledged twice late could be confirmed although its
  block was lost. Answers without a CRC are not modelled.
* `DavisArchive`: a record is its time, sorting and removal of duplicates are
  the set; the handshake up to the acknowledged date belongs to the wire.
* `DavisConfigFlow`: old entries were migrated before anything else happens, at
  most one for a port and none with a unique id of its own; the probe's use of a
  port a loaded entry is reading is not related to `DavisTransport`.
* `DavisReadings`: one extra temperature and one extra humidity stand for all of
  HILOWS; wind and temperature comfort values, averages, rain totals, forecasts
  in words, the trend and the night variant of the clear condition follow the
  same path as the fields that are modelled and have no dash of their own.
* `DavisEntities`: which sensors are enabled by default, and the unique-id
  migration of `binary_sensor.py`, which runs once before there is any state.
  `EntitySetup` starts with no value, as nothing is restored after a restart.
* Services: `_entry_for_call` chooses among entries by id; no state is involved
  besides the registry's.
* `get_raw_data` hands out the dictionary the next poll replaces; no property.
* Not modelled: diagnostics (reads and redacts state), the release scripts, cards
  and blueprints, which are no part of the running program.

## 6. Plan

1. (done) transport, coordinator, entry, poll; then archive, config flow, wire.
2. (done) service calls and timing proofs of the entry; `set_eeprom` and cancelled
   services in `DavisPoll`; readings and entities with their proofs.
3. (done) proofs about `DavisWire` and of `PublishedIsCurrent`.
4. (done) `DavisEntry` and `DavisTransport` meet in `ClientQueues`; abstract
   specifications of the archive download and the config flows, with refinement
   proofs; exactness of the EEPROM validation and of the known fake readings.
5. (done) swallowed failures in `DavisTransport` and `DavisWire`, reads by the loop and
   both connection modes in `DavisTransport`, the code's own times in `DavisEntry`,
   half-failed and unguarded changes of the settings in `DavisPoll`, and the
   theorems about them without the premises they had.
6. An abstract specification of the two cached settings for `DavisPoll`.
