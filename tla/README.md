# A TLA+ model of the Modbus adapter

This directory holds TLA+ modules that model `modbus_adapter`, TLC
configurations that check them on small instances, and TLAPS proofs about them. The
definitions are translated from the source files; `PROJECT.json` maps each of them to the
lines it models.

- [The system](#the-system)
- [The modules](#the-modules)
- [The runs](#the-runs)
- [Where the code and its documents disagree](#where-the-code-and-its-documents-disagree)
- [Fairness](#fairness)
- [The proofs](#the-proofs)
- [What is not modelled](#what-is-not-modelled)
- [Plan](#plan)

## The system

The adapter polls Modbus slaves and publishes what changes. For each configured instance
`main.py` starts a worker thread that builds a `ModbusDevice`; a device has one connection,
one thread per poll group, one tick thread, and serves commands in the threads of the
command inbox.

| Component | State | Operations | Talks to |
|---|---|---|---|
| Connection (`connection.py`) | `client`, `_connected` | `connect`, `read`, `write_*`, `reconnect`, `close` | pymodbus; called by poll threads, commands, the tick |
| Pause (`pause.py`) | `_paused`, under a lock | `is_paused`, `set` | poll threads, the tick, commands |
| Polling (`poll_manager.py`, `deadband_spec.py`) | `_last`, `_blocks`, `_stop` | `_run_group`, `_poll_group`, `poll_once`, `stop` | reads from the connection, offers to the publisher |
| Read plan and codec (`coalesce`, `codec.py`) | none | `coalesce`, `decode`, `encode` | polling, `sb/read`, `sb/write` |
| Publishing (`publisher.py`) | `_pending`, under a lock | `offer`, `flush`, `_publish` | the `data()` facade and its broker |
| Device (`device.py`) | `_connected` (what was announced), `_stop` | constructor, `_tick_loop`, `stop` | flushes, health, alarms |
| Health and alarms (`health.py`, `events.py`, `metrics.py`) | interval counters, `_last_update` | `emit`, `connection`, `write`, `take_*`, `stale_count` | metrics and events facades |
| Operational metrics (`metrics.py`) | counters by family, table, verb and result, under a lock | `record_*`, `emit`, `to_dict` | polls, commands, connection and publisher record; the tick emits |
| Commands (`command_service.py`) | none of its own | `sb/read`, `sb/write`, `sb/status`, `sb/signals`, `sb/browse`, `sb/pause`, `sb/resume`, `reconnect`, `repoll` | all of the above |
| Adapter (`main.py`, `routing.py`, `instance_state.py`) | `devices` | worker, `resolve_instance`, `instance_connectivity` | the devices |

What is hard, and what makes each part correct:

- **Connection.** No lock protects `client` and `_connected`; a reconnect assigns them step
  by step while polls are under way and answers arrive late. Correct: the client is lost
  only by a reconnect that said so, and the flag follows the slave in the end.
- **Polling.** The gate reads `_last`, then writes it, then publishes, and `repoll` runs the
  same path in another thread. Blocks and single signals fail. Correct: the consumer gets no
  echo, misses no change of more than the band, and learns of every failure.
- **Read plan and codec.** Boundaries: overlaps, gaps, limits, four byte orders, rounding.
  Correct: a signal gets its own registers, in as few reads as possible, and what is written
  is what is read.
- **Publishing.** Pollers, repolls, the tick and the shutdown use one batch; publishes fail
  in the middle of an entry; joins time out. Correct: no sample vanishes or is sent twice.
- **Device.** The tick samples the link, acts later, and its emissions may be lost. Correct:
  alarm and metric follow the link and tell the same story.
- **Commands.** Batches of two callers mix at the slave, answers are lost, an unexpected
  exception ends a batch half way; state is reported while it changes; an inventory is walked
  with arbitrary page sizes. Correct: the reply and the audit trail say what the slave has
  done, a report was true while it was read, and walk, tree and list are one inventory.
- **Operational metrics.** Four kinds of threads count while a fifth drains family by family
  and its rows may be lost. Correct: each thing that happened is reported once or known to be
  lost, and each row adds up.
- **Adapter.** Instances become ready in any order, some never; routing reads a dict that
  grows meanwhile. Correct: a command acts on the instance it names or on the only one, no
  instance keeps another from starting, and the shutdown stops all.

The hazards are listed line by line in `PROJECT.json`, each with the properties that cover
it or the reason why none does.

## The modules

| Module | Models | Builds on |
|---|---|---|
| `ModbusConnection` | connect, read, reconnect of `connection.py`; pause | |
| `ModbusDevice` | tick, alarm, health metric | `ModbusConnection` |
| `Deadband` | `DeadbandSpec.exceeds` | |
| `PollManager` | poll threads, repoll, gate, immediate publishing, pause | `Deadband` |
| `SignalUpdatePublisher` | batched publishing, its tick, `ModbusDevice.stop` | |
| `SampleDelivery` | abstract: what publishing promises of each sample | |
| `ReadBlocks` | `coalesce` and the slices of a block | |
| `Codec` | `decode`, `encode` | |
| `RegisterMap` | reads, polls and writes of a slave's registers | `ReadBlocks`, `Codec` |
| `CommandService` | the batches of `sb/write` and `sb/read`, audit, allow-list | |
| `InstanceState` | the state token: `sb/status`, `sb/pause`, `sb/resume`, the keepalive's `instances[]` | |
| `SignalInventory` | `sb/signals` and both forms of `sb/browse` | |
| `Adapter` | workers, `resolve_instance` and shutdown of `main.py` and `routing.py` | |
| `OperationalMetrics` | what is recorded, drained and sent: `metrics.py` and all that call it | |

`MCPollManager`, `MCRegisterMap`, `MCAdapter` and `MCOperationalMetrics` give values to
constants that a configuration file cannot write; `MCCommandService` also puts the three
modules of the command surface side by side in one run. Modules named `*_proof` hold the
theorems: `ModbusDevice_proof` those of `ModbusConnection` too, `CommandSurface_proof` those
of `CommandService`, `InstanceState`, `SignalInventory` and of the three together; `Induction`
has the lemmas by which they argue along a sequence and about sums. An operator whose comment
begins with "Mutant" is a faulty variant of the definition that follows it: put in its place,
it breaks one of the properties. No specification uses these operators.

### State and code

**`ModbusConnection`.** `client` says whether `self.client` is set, `connected` is
`_connected`. `pc[t]` is the place of thread t in `read` (`waiting` for the answer, then
`reached` or `failed` before the flag is set) or in `reconnect` (`closing` after
`client.close()`, `forgetting`, `connecting`, `opened`, `marking`), so that every assignment
to the two fields is a step of its own. `torn` holds the threads whose socket was closed
under a waiting request. The threads exist only after `connect` has returned, hence an
attempt of `connect` is one step. A write uses the client and changes neither field.
pymodbus reopens its socket by itself, so an outage that the client survives is `slave`
alone. A paused instance begins no cycle, so no poller begins to read; `sb/read` still does.
One read stands for one cycle of a poller.

**`ModbusDevice`.** `seen` is the sample of a tick, `announced` is `ModbusDevice._connected`,
`recoveries` is the interval counter that the next health metric drains, `known` and `age`
stand for `_last_update`. `alarm`, `health` and `counted` are what a console has received;
every emission may be lost, up to a bound. Each poller stands for one signal;
a poll that reaches the slave either refreshes it or is answered with an exception.

**`PollManager`.** `last` is `_last`. A thread goes from `polling` through the blocks of its
group (`todo`), the signals of a block (`rest`), and for each signal through the gate, the
update of `last` and the publish in three steps. `image` is what the read returned, so that a
value may be old when it is published. `queue` holds the groups a repoll still has to poll.
`feed` and `good` are what a consumer holds; `turn` distinguishes two equal samples.

**`SignalUpdatePublisher`.** Samples are numbered; `_pending` is a sequence for each signal
and kind (with or without a value, because `_publish` sends the two kinds as two messages).
`hand[f]` is what a flusher took under the lock and publishes outside of it. `stage` is the
progress of `stop()`, `polling` the poll threads that have not ended; the join may time out,
so a thread may go on to offer after the last flush. `cutoff` remembers what was offered
before the joins were over.

**`ReadBlocks`, `Codec`, `RegisterMap`.** `Sorted` orders the signals of a table as the stable
`sorted` does (`Rank` counts those that come no later), `Coalescing[n]` are the blocks after n
rounds of the loop in `coalesce`, of which `Place` is one; the reference definition (`Served`)
searches all ways to split the signals. Registers are
pairs of bytes, and `decode` and `encode` do on them what the code does, with a parameter for
the size of a byte.

**`CommandService`.** An entry of a batch goes through the checks in the order of the code
(`Verdict`), then to the slave (`Apply`), then back (`Answered` or `Unanswered`), then to the
audit. `registers` is the slave, `trail` the events that arrived, `results` has one word for
each entry that is done. An entry of `sb/read` is one step, because it changes nothing, but
other callers write between two entries; `held` remembers what each signal has held since the
read began.

**`InstanceState`.** A reader goes through its calls of `is_paused` and `is_connected` one by
one (`After`), in the order of `status` and `state` for `sb/status` and of
`instance_connectivity` for the keepalive. `view` is what it has read, `witness` what was true
since it began.

**`SignalInventory`.** The handlers keep nothing, so that the state is the client's: the
latest request and its answer, and how far a walk has come. A request is a record of the keys
of its body, with values for a missing key, a null and a wrong type.

**`Adapter`.** `worker[i]` is where a worker thread is; `devices` is the dict as the sequence
of its keys. `resolve_instance` goes through `counting` (the test of the length), `picking`
(`iter` and `next`) and `finding`, and devices may register between any two of them. What a
device does with a command is in the other modules. `toStop` is the list that the shutdown
iterates over.

**`OperationalMetrics`.** A count is a bag of cells `<<family, dimensions, measure>>`.
`stats[t]` is what a poll has counted in its local dict, `interval` what the locked counters
hold, `rows` what a drain has taken and not sent yet, `received` and `lost` what became of it.
Cells with the same dimensions are one row (`Row`), which is sent or lost as a whole.
`_set_connected` is two steps (`Request` tests the flag and counts the drop, `Answer` sets
it). `happened` counts the same things when they are done and is compared with the sum.

## The runs

| Run | Instance | Shows | States |
|---|---|---|---|
| `Connection` | 1 poller, 2 callers, 1 outage, 2 reconnects, 1 pause | `ClientLostOnlyByReconnect`, `LinkFollows` | 97 k |
| `PollOnChange` | 1 group, 2 signals in 2 blocks, an absolute and a percent band, 2 changes, 1 outage, 1 pause | `LastIsPublished`, `BandRespected`, `ConsumerFollows`, `FailureIsSeen`, `PauseSettles` | 139 k |
| `PollAlways` | publishMode always, 1 repoll, 1 outage of the slave and 1 of the broker, 1 signal that cannot be decoded | `ConsumerSeesTruth` | 110 k |
| `Batch` | 1 signal, 3 samples, 1 poller, 1 repoll, 1 pause, any publish may fail | `EachSampleOnce`, `InOrderUntilStop`, `StopDrains`, `BatchLeaves`, `ImplementsDelivery` | 65 k |
| `Device` | 1 poller, 1 caller, 1 outage, 1 reconnect, 1 lost emission, any exception responses | `RecoveriesMatchAlarms`, `AlarmFollows`, `HealthFollows`, `OutageIsStale` | 393 k |
| `Registers` | 3 759 layouts, 2 gaps, bytes of 1 bit, 1 write | `PlanServesAll`, `PlanWithinLimits`, `FewestReads`, `PollAgreesWithRead`, `WrittenIsPolled` | 89 k |
| `Commands` | 2 callers, 7 write and 2 read batches, 1 loss; 1 console and the keepalive, 3 flips of the link, 3 pauses or resumes, 3 reports; 4 signals in 3 groups, 93 requests | `ReplyTellsWrites`, `TrailTellsSlave`, `ReadsTellSlave`, `ReportIsWitnessed`, `WalkIsComplete`, `TreeAgreesWithWalk` | 152 k |
| `Adapter` | 3 instances of which 1 is misconfigured, 1 caller, 2 commands, 1 flip of a link | `RoutedAsAddressed`, `ShutdownStopsAll`, `SoundInstancesStart` | 187 k |
| `Metrics` | the loop and 1 caller, plans of one block and of two of one table, 2 reads, 2 events, 1 tick | `CountsAddUp`, `RowsBalance` | 379 k |

Each run also checks a type invariant, except `PollAlways` and `Registers`. Deadlock is checked
in `PollOnChange`, `PollAlways` and `Device`. It is not in `Connection` (with every bound used
up and no client left, nothing happens any more: see `ReconnectGivesUp`), in `Batch` and
`Adapter` (the process has shut down), in `Registers` (the write is done), and in `Commands`
and `Metrics` (the bounds on commands and events are used up).

Why the bounds are enough to see what matters:

- *Connection, Device.* Two callers can reconnect at once while a poll is under way, and the
  outage can fall into each step of both. A second outage would only repeat the first: after
  recovery the state is one that start-up reaches as well. `Device` has no pause (the flag is
  then as in `Connection`); its properties exclude one that lasts.
- *PollOnChange.* Values 0 to 3 with a band of two contain changes below, at and above the
  band, a creep of two small steps, and for the percent band the base zero.
- *Batch.* Three samples: one delivered, one in a flusher's hand, one in the batch, at once.
- *Registers.* Three signals of one to three registers at five addresses touch, overlap,
  contain each other and leave gaps, with a limit of four registers. One with five registers
  exceeds the limit, as a string can.
- *Commands.* A batch for each reason an entry is skipped, fails or ends the handler, mixed
  with writes to the signal that another batch writes or reads. The three modules share no
  state, so each behaviour takes the steps of one (`scenario`). The link and the pause can
  each change between any two readings of a report. Pages of 1 to 3 over 4 signals end within,
  at and beyond the inventory; two of its signals have one id.
- *Adapter.* Three instances: one fails, and of the others each may register before, between
  and after the steps of a command. Handlers of several commands share nothing they write, so
  one caller shows what each of them sees.
- *Metrics.* Two polls, of the loop and of a repoll, can race on the flag, or one can read two
  blocks of a table; a command or a lost row takes the place of a poll. With one tick after the
  report of the constructor, each family is drained twice while counting goes on.

Some properties deserve a remark.

- `ConsumerSeesTruth` is checked for publishMode always, with failing publishes. Under
  onChange a lost value is not sent again until it changes, and a signal that was BAD and
  comes back unchanged stays BAD at the consumer: `_last` is not reset by a failure.
- `BandRespected` and `LastIsPublished` hold without repolls and with a working broker; see
  `RepollRace`.
- `InOrderUntilStop` ends with the flush of `stop()`, which runs beside a tick that is not
  joined, and is about samples of one kind.
- `TrailTellsSlave` does not say which of two callers wrote last: a write and its audit event
  are two steps.
- `ReportIsWitnessed` does not say that the fields of one reply agree: `sb/status` may say
  ONLINE and `connected: false` when the link falls in between. Each was true for a moment of
  the report.
- `RoutedAsAddressed` allows a command that names no instance to act on the first one to get
  ready, when none was ready as it came; see `UnaddressedDuringStartup` for more.
- `CountsAddUp` has drops equal to falls of the link unless two threads raced on the flag
  (`raced`): then the code counts one fall twice or misses one, which the description of
  `connectionDrops` in `docs/reference/metrics.md` does not mention.
- `RowsBalance` allows an overrun in a row without its cycle: the two are recorded in two
  steps, and a drain may fall between them.
- `AlarmFollows` and `RecoveriesMatchAlarms` assume that nothing is lost; `HealthFollows` does
  not, because the metric is sent again with every tick.
- `OutageIsStale` asks that the signals read before the outage count as stale, and allows
  those that were never read to count too, as documented.

## Where the code and its documents disagree

Each of these is a run that TLC ends with a counterexample.

| Run | Property | What happens |
|---|---|---|
| `ReconnectGivesUp` | `BackoffEnds` | The slave is down, a reconnect fails and leaves `client` at None; the slave comes back and no poll ever finds out, since `read` raises on None and nothing calls `connect` again. `instance_state.py:16` promises that the poll loop keeps retrying. |
| `RepollRace` | `LastIsPublished` | The poll thread reads, the value changes, a repoll reads the new one; both pass the gate; the updates of `_last` and the publishes fall in different orders. `poll_manager.py:68` calls `_last` the last published value. |
| `UnaddressedDuringStartup` | `UnaddressedIsRefused` | Three instances are configured, one is ready: a command that names none acts on it. `routing.py:26` promises `BAD_ARGS` "when no instance is addressed and several are configured". |

Three more that reading shows as well as a run would:

- While an instance is paused nothing reads, so a slave that goes down is not noticed and the
  state stays `PAUSED`; `docs/reference/messaging-interface.md:254` says link truth wins. It
  does over the flag (`ReportIsWitnessed`), which is not the slave.
- `float(True)` is 1.0: a bool with a deadband above one never changes again, while the
  comment of `deadband_spec.py:34` and `docs/sample-configurations.md:370` say that bools
  publish on any change.
- `stale_count` counts the keys of `_last_update`, and only a read that returns data adds one
  (`poll_manager.py:163`): a signal that was never read is never reported as stale, however
  long the outage lasts. `docs/reference/metrics.md:35` and `health.py:6` speak of configured
  signals. `OutageIsStale` enforces neither reading.

## Fairness

Only what the code does by itself is fair, and always weakly:

- the retry loop of `connect`, and a poll thread's next cycle while it is not paused;
- what has begun ends: each request and each connect has a timeout, each publish returns;
- the tick thread, and `stop()` once it was called;
- in `ModbusDevice`, time;
- in `Adapter`, each worker, a thread of its own, and the shutdown once the signal came.

Commands, pauses and their ends, failures and recoveries of the slave and of the broker, and
changes of values are never fair. A liveness property therefore says under which lasting
condition it holds (`<>[](slave = "up" /\ Polled) => ...`).

## The proofs

TLAPS proves the following for every value of the constants: any number of threads, signals,
blocks, samples, failures. The assumptions are the named `ASSUME`s of the modules: sorts and
disjointness of constants.

| Theorem | Says | Argument |
|---|---|---|
| `ModbusDevice_proof!Typing` | `TypeOK` | inductive as it stands |
| `ModbusDevice_proof!Accounting` | `ClientAccounted` | a caller ceases to account for a missing client only by storing one |
| `ModbusDevice_proof!ClientIsNotLost` | `ClientLostOnlyByReconnect` | follows from `ClientAccounted`; it is not inductive itself, since a reply "failed" may be older than the client that the same caller stored |
| `PollManager_proof!Typing` | `TypeOK` | with `InHand`: a thread that commits or offers has a signal in hand |
| `PollManager_proof!LastPublished` | `LastIsPublished` | `PublishedInv`: each poll thread works on its own signals only, and for each signal `last` is what the consumer holds unless its owner is about to publish |
| `PollManager_proof!BandIsRespected` | `BandRespected` | the same invariant: the value that passed the gate was compared with what the consumer holds |
| `SignalUpdatePublisher_proof!Typing` | `TypeOK` | inductive as it stands |
| `SignalUpdatePublisher_proof!NothingVanishes` | `NoneVanishes` | `PlacesInv`: the places a sample can be in are disjoint and together all that was offered, and a flusher that is not at work has nothing in hand |
| `SignalUpdatePublisher_proof!DeliveredOnce` | `AtMostOnce` | `PlacesInv`: a message moves its samples to where none of them is |
| `SignalUpdatePublisher_proof!EachOnce` | `EachSampleOnce` | the two before |
| `SignalUpdatePublisher_proof!DeliveredInOrder` | `InOrderUntilStop` | `OrderInv`: delivered, in the tick's hand and pending are increasing, each below the next |
| `SignalUpdatePublisher_proof!Drained` | `StopDrains` | `DrainInv`: once the last flush has taken the batch, only numbers above `cutoff` are pending, since offers count up; with `PlacesInv`, what was offered before is in a hand or gone |
| `SignalUpdatePublisher_proof!Refinement` | `ImplementsDelivery` | offer maps to Accept, a message to Deliver, a failed publish to Lose, the flush of stop to SecondFlusher, all else to a stutter |
| `ModbusDevice_proof!RecoveriesReported` | `RecoveriesMatchAlarms` | `CountsInv` adds that the counters are numbers and that losses never fall |
| `ModbusDevice_proof!DeviceKeepsConnection` | `DeviceSpec => Spec` | the device implements the connection: starting, refreshing and `LinkStep` contain a step of it, the tick and the clock leave its variables alone |
| `ModbusDevice_proof!DeviceKeepsClient` | `ClientLostOnlyByReconnect`, of a device | the refinement carries the theorem over |
| `ModbusDevice_proof!DeviceTyping` | `DeviceTypeOK` | with the connection's types, from the refinement |
| `RegisterMap_proof!ServesAll` | `PlanServesAll` | induction over the sorted signals: the blocks after n rounds have each of the first n in one place, and each block has the registers of its signals; sorting is a bijection, because ranks are |
| `RegisterMap_proof!WithinLimits` | `PlanWithinLimits` | the same induction: a block that is longer than the limit began with a signal that is |
| `RegisterMap_proof!PollsWhatReadsRead` | `PollAgreesWithRead` | a block that has all registers of a signal has them at their offset from its start |
| `RegisterMap_proof!NoFewerReads` | `FewestReads` | the signals with which the blocks begin (`Leads`): two of them cannot share a read, since something between them is further apart than the gap or the limit. With fewer reads than blocks two would have to |
| `RegisterMap_proof!WritesAreRead` | `WrittenIsPolled` | `StoredInv`: the cells of the signal written last hold what was encoded. What is encoded is decoded to what was meant (`CodingReadsBack`): swapping words and bytes twice is the identity (`AssembleInverts`), the digits of a number are read as the number (`DigitsRead`, by induction over the bytes), its sign comes back if `struct.pack` took it (`IntegerReads`), `round` is within half a step (`RoundIsNear`), and a padded text ends where the text did (`TextReads`). With `PollsWhatReadsRead`, so is it for a poll |
| `CommandSurface_proof!Typing` | `TypeOK` | with `InHand`: between its request and its audit a handler has an entry that it may try |
| `CommandSurface_proof!RepliesTellWrites` | `ReplyTellsWrites` | `WriteInv`: the results so far are those of the entries so far, and what the slave carried out is settled but for the entry at hand |
| `CommandSurface_proof!TrailIsTrue` | `TrailTellsSlave` | `TrailInv`: the caller that wrote a signal last owes its event or has sent it as its newest |
| `CommandSurface_proof!RepliesTellReads` | `ReadsTellSlave` | `ReadInv`: each entry so far that could be resolved has its place in the reply and a value that was held, and what holds now is held |
| `Adapter_proof!Typing` | `TypeOK` | with `Pickable`: a caller that picks finds a device |
| `Adapter_proof!Routed` | `RoutedAsAddressed` | `RoutingInv`: a caller that counted one device holds that one as the first of `devices`, which only grows at its end, and no other was ready when its command came |
| `Adapter_proof!Stopped` | `ShutdownStopsAll` | `ShutdownInv`: what was ready at the signal is stopped or still in the list |
| `CommandSurface_proof!StateTyping` | `StateTypeOK` | inductive as it stands |
| `CommandSurface_proof!Witnessed` | `ReportIsWitnessed` | `WitnessInv`: what a report has read so far is in its history, and so is what holds now |
| `CommandSurface_proof!WalkTyping` | `WalkTypeOK` | the list is a sequence (induction over the groups), and what `SubSeq` cuts from it as well |
| `CommandSurface_proof!WalkShowsAll` | `WalkIsComplete` | what was walked is the list up to the cursor; a page begins there and is not empty (`WalkGoesOn`) |
| `CommandSurface_proof!TreeShowsTheList` | `TreeAgreesWithWalk` | `InventoryInv`: the answer is the one to the latest request; the first match is the least index |
| `CommandSurface_proof!SurfaceKeepsParts` | `MCSpec => Spec /\ StateSpec /\ WalkSpec` | a step of the three side by side is one of one of them, and leaves the variables of the others alone: the theorems above hold of the composition |
| `CommandSurface_proof!SurfaceTyping` | `MCTypeOK` | from the composition and the three typings |
| `OperationalMetrics_proof!MetricsTyping` | `MetricsTypeOK` | with `AtBlock`: a poll that asks or has its answer is at a block of its plan |
| `OperationalMetrics_proof!MetricsAddUp` | `CountsAddUp` | `Balance`: for each cell, what happened is what is held in interval, rows, received and lost; for polls, with what is in the stats of all threads, and under either result. A step moves a bag from one place to another or adds the same bag to both sides. `DropsCounted`: while nobody raced, at most one thread has found the flag up and not yet set it |
| `OperationalMetrics_proof!MetricsRowsBalance` | `RowsBalance` | `Balancing`: the interval balances like the rows that are drained from it; the stats of a poll tell each signal of the blocks it is done with once (`PollStats`), so that a poll that ends adds a balanced row; an overrun is owed until the loop goes on (`Overruns`) |

`LastPublished` and `BandIsRespected` assume `Undisturbed`: no callers that repoll and a
broker that does not fail. Without the first they are false (`RepollRace`), without the second
`_last` runs ahead of what the consumer holds.

Some of these argue along a sequence: of sorted signals, blocks, entries, groups. The lemmas
of `Induction` make that possible: `Least`, a set of numbers has a least one, is shown from
the well-foundedness of inclusion on finite sets; `Induct` and `InductTo` follow, for sets of
numbers; and `Recursion`, that what is defined step by step exists, so that a recursive
function may be unfolded (`CoalescingSteps`, and `PowerSteps` by `EndlessRecursion`);
`FlattenSteps` unfolds the library's `FlattenSeq` in this way. The library's folds recur along
the subsets of a finite set, and `FoldsExist` shows that such a recursion has a solution: the
number that `FoldLeft` reads from bytes is unfolded with it (`UnsignedSteps`), and the sums of
`OperationalMetrics`, over threads and over the blocks of a table. For these, `SumIs` and
`SumsAdd` show that the order does not matter, and from them come `SumAdds`, `SumChanges` and
`SumOfZeros`, the three facts the proofs cite.

Of the constants they assume what the configuration's schema asks for (`LayoutsAssumption`,
`GapsAssumption`: addresses and gaps are not negative, a signal has a register or more, a bit
is a bool of length one; `PlansAssumption`: a plan has a block or more and a block a signal or more), that there are
finitely many poll threads and callers, and that a missing key, a null and a value of the
wrong type are told from numbers and refs (`NoValueAssumption`). `WritesAreRead` also assumes
that the slave has the registers of the signals (`MemoriesAssumption`; one that has not answers
with an exception, and nothing is written), that a write carries an integer for an integer
and bytes for a string (`InputsAssumption`: `encode` rounds a fraction before it packs it, raises
for what is no number, and takes the UTF-8 bytes of `str(value)` for a string, whatever the
value was), and, as the model does, scales that are positive integers: nothing in the schema forbids a negative scale, and
with a zero one `encode` raises.

Only model-checked are the liveness properties, because fairness and ENABLED are beyond the
prover: `LinkFollows`, `ConsumerFollows`, `FailureIsSeen`, `PauseSettles`,
`ConsumerSeesTruth`, `BatchLeaves`, `AlarmFollows`, `HealthFollows`, `OutageIsStale`,
`SoundInstancesStart`. Every invariant that a run checks is proved, and the refinement.

## What is not modelled

- Floats, float rounding and UTF-8 in the codec; the wording of errors; message bodies,
  topics and timestamps.
- Of the metrics: durations and latencies, running totals, `registersRead`, `signalsDecoded`,
  what `sb/read` counts, rows of zeros.
- Parsing of the configuration: sequential, without state, and its result is what the models
  have as constants. That it accepts groups with equal ids, or equal signal names under one
  unit, is therefore outside: the models take them as unique.
- The console panels, `validation/` (scripts that test the adapter against a simulator),
  packaging.
- In `PollManager`, a block that fails for good while others of its cycle succeed (a lasting
  exception response): one link answers for all blocks, and such a failure is there only as a
  link that changes between two of them.
- The addressing of the library's command inbox, which comes before `resolve_instance`.
- `ModbusConnection.close` at the end of `stop()`: the process exits after it.
- pymodbus, the broker and the slave, beyond what the code sees of them.

## Plan

Done, in this order: `ModbusConnection`; `Deadband` and `PollManager`;
`SignalUpdatePublisher` with `SampleDelivery`; `ModbusDevice`; `ReadBlocks`, `Codec` and
`RegisterMap`; `CommandService`; `Adapter` and `InstanceState`; `SignalInventory`;
`OperationalMetrics`; the proofs above.

Every invariant and refinement that the runs check is proved. What is open is on the side of
the models: floats in `Codec`, two groups that share a signal name, and NaN among the readings,
in `PollManager`.
