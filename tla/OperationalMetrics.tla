------------------------- MODULE OperationalMetrics -----------------------
(***************************************************************************)
(* What is counted and what is reported: ClientMetrics and                 *)
(* ModbusOperationalMetrics of metrics.py, with those who count (the polls *)
(* of one group, the commands, the connection, the publisher) and those    *)
(* who report: the tick of device.py, which drains the counters of one     *)
(* metric family after the other and sends them as rows, and sb/status.    *)
(*                                                                         *)
(* A count is a bag of cells; a cell is <<family, ..., measure>>, with the *)
(* dimensions of the row between.  Every record_* and every drain holds a  *)
(* lock, and is a step; what a poll counts is its own until it has ended.  *)
(* Durations, running totals, what sb/read counts, and rows of which every *)
(* count is zero are left out.                                             *)
(***************************************************************************)
EXTENDS Integers, SequencesExt

CONSTANTS
    Loop,        \* the thread of the poll group
    Callers,     \* threads that run commands
    Plans,       \* read plans the group may have: sequences of [table, signals]
    Splits,      \* bound: how many signals of a block that was read decode may
                 \* refuse, and how many have changed
    MaxEntries,  \* bound on the entries of an sb/write
    MaxReads,    \* bound on requests of polls
    MaxEvents,   \* bound on polls, commands, publishes, rows that cannot be sent
                 \* and failed attempts to connect at the start
    MaxTicks     \* bound on ticks

Threads == Callers \cup {Loop}
TablesOf(blocks) == {blocks[i].table : i \in DOMAIN blocks}
Tables == UNION {TablesOf(blocks) : blocks \in Plans}
Results == {"success", "error"}

ASSUME CallersAssumption == IsFiniteSet(Callers) /\ Loop \notin Callers
ASSUME PlansAssumption == \A plan \in Plans :
    plan # <<>> /\ plan \in Seq([table : Tables, signals : Nat \ {0}])
ASSUME SplitsAssumption == Splits \subseteq Nat \X Nat
ASSUME MetricsBounds == {MaxEntries, MaxReads, MaxEvents, MaxTicks} \subseteq Nat

\* What a poll counts by block, and what is counted of it as a whole.
BlockMeasures == {"protocolReadRequests", "protocolReadErrors", "samplesGood", "samplesBad",
                  "samplesChanged", "samplesSuppressed"}
PollMeasures == BlockMeasures \cup {"pollCycles", "pollOverruns"}
CommandMeasures == {"commandRequests", "commandErrors", "writeSignals", "writeFailures",
                    "reconnectRequests", "repollRequests"}
Verbs == {"sb/write", "sb/status", "reconnect", "repoll"}

Cells ==
    ({"poll"} \X Tables \X Results \X PollMeasures)
    \cup ({"command"} \X Verbs \X Results \X CommandMeasures)
    \cup ({"connection"} \X {"connectAttempts", "connectFailures", "reconnectAttempts",
                             "reconnectFailures", "connectionDrops"})
    \cup ({"publish"} \X {"dataMessagesPublished", "samplesPublished", "publishFailures",
                          "batchFlushes", "batchSize"})
    \cup ({"health"} \X {"readErrors", "writeErrors", "reconnects"})
    \cup ({"status"} \X {"read", "write"})

VARIABLES
    blocks,      \* the plan of the group; it does not change
    phase,       \* the device: connecting, connected, then running
    link,        \* ModbusConnection._connected
    pc, block,   \* where each thread is, and the block it is at
    outcome,     \* what became of its request
    tested,      \* the link as _set_connected found it
    stats,       \* _poll_group: what the poll has counted by table and measure
    failed,      \* and the tables on which something failed
    todo,        \* tables that are still to be recorded
    interval,    \* what is counted and not yet drained
    stage,       \* what the emission under way still has to do
    rows,        \* what is drained and not yet sent
    seen, believed,    \* the link as the tick saw it now, and before
    received,    \* what the console has been sent
    lost,        \* what could not be sent
    happened,    \* history: what was done, each time it was done
    falls,       \* history: how often the link went from up to down by a read
    raced,       \* history: a thread has set the link on a test that was out of date
    requests, events, ticks    \* environment: how many so far

poll == <<pc, block, outcome, tested, stats, failed, todo>>
report == <<stage, rows, seen, believed, received, lost>>
metricsBounds == <<requests, events, ticks>>
metricsVars ==
    <<blocks, phase, link, poll, interval, report, happened, falls, raced, metricsBounds>>

\* Poll counts are kept by result, which is known only when the poll has ended.
Fact(cell) == IF cell[1] = "poll" THEN <<"poll", cell[2], cell[4]>> ELSE cell

BagOf(b, cells) == IsABag(b) /\ DOMAIN b \subseteq cells
Count(cell, b) == IF cell \in DOMAIN b THEN b[cell] ELSE 0

MetricsTypeOK ==
    /\ blocks \in Plans
    /\ phase \in {"connecting", "connected", "running"}
    /\ link \in BOOLEAN
    /\ pc \in [Threads -> {"idle", "block", "answered", "record", "late", "overrun", "reply",
                           "reconnecting"}]
    /\ block \in [Threads -> Nat]
    /\ outcome \in [Threads -> {"none", "data", "exception", "lost", "noClient"}]
    /\ tested \in [Threads -> BOOLEAN]
    /\ failed \in [Threads -> SUBSET Tables]
    /\ todo \in [Threads -> SUBSET Tables]
    /\ DOMAIN stats = Threads
    /\ \A t \in Threads : BagOf(stats[t], {"poll"} \X Tables \X BlockMeasures)
    /\ \A b \in {interval, rows, received, lost} : BagOf(b, Cells)
    /\ BagOf(happened, {Fact(c) : c \in Cells})
    /\ seen \in BOOLEAN /\ believed \in BOOLEAN /\ raced \in BOOLEAN
    /\ {falls, requests, events, ticks} \subseteq Nat

MetricsInit ==
    /\ blocks \in Plans
    /\ phase = "connecting"
    /\ link = FALSE
    /\ pc = [t \in Threads |-> "idle"]
    /\ block = [t \in Threads |-> 1]
    /\ outcome = [t \in Threads |-> "none"]
    /\ tested = [t \in Threads |-> FALSE]
    /\ stats = [t \in Threads |-> EmptyBag]
    /\ failed = [t \in Threads |-> {}]
    /\ todo = [t \in Threads |-> {}]
    /\ interval = EmptyBag
    /\ stage = <<>>
    /\ rows = EmptyBag
    /\ seen = FALSE /\ believed = FALSE
    /\ received = EmptyBag /\ lost = EmptyBag /\ happened = EmptyBag
    /\ falls = 0 /\ raced = FALSE
    /\ requests = 0 /\ events = 0 /\ ticks = 0

\* The bag of those counts that are not zero.
Counts(f) == [x \in {y \in DOMAIN f : f[y] > 0} |-> f[x]]

Happens(counts) == happened' = happened (+) counts

\* A record_* or increment_* call: it has happened and is counted at once.
Record(counts) == interval' = interval (+) counts /\ Happens(counts)

One(family, measure) == SetToBag({<<family, measure>>})

-----------------------------------------------------------------------------
(* A poll of the group, by its loop or by a repoll command.                *)

BeginPoll(t) ==
    /\ phase = "running" /\ pc[t] = "idle"
    /\ events < MaxEvents /\ requests + Len(blocks) <= MaxReads
    /\ events' = events + 1
    /\ requests' = requests + Len(blocks)
    /\ pc' = [pc EXCEPT ![t] = "block"]
    /\ UNCHANGED <<blocks, phase, link, block, outcome, tested, stats, failed, todo, interval,
                   report, happened, falls, raced, ticks>>

Marks(how) == how # "noClient"

\* The request has its answer and _set_connected tests the flag: a drop is
\* counted before the flag is set.
Request(t) ==
    \E how \in {"data", "exception", "lost", "noClient"} :
        /\ pc[t] = "block"
        /\ pc' = [pc EXCEPT ![t] = "answered"]
        /\ outcome' = [outcome EXCEPT ![t] = how]
        /\ tested' = [tested EXCEPT ![t] = link]
        /\ interval' = IF how = "lost" /\ link
              THEN interval (+) One("connection", "connectionDrops") ELSE interval
        /\ UNCHANGED <<blocks, phase, link, block, stats, failed, todo, report, happened, falls,
                       raced, metricsBounds>>

\* Mutant: a block that cannot be read is one BAD sample.
BlockFailedOnce(b) ==
    {[protocolReadRequests |-> 1, protocolReadErrors |-> 1, samplesGood |-> 0,
      samplesBad |-> 1, samplesChanged |-> 0, samplesSuppressed |-> 0]}

\* What a block counts that cannot be read: all of its signals are BAD.
BlockFailed(b) ==
    {[protocolReadRequests |-> 1, protocolReadErrors |-> 1, samplesGood |-> 0,
      samplesBad |-> b.signals, samplesChanged |-> 0, samplesSuppressed |-> 0]}

\* And one that was read: each signal is refused by decode, changed or suppressed.
BlockRead(b) ==
    {[protocolReadRequests |-> 1, protocolReadErrors |-> 0, samplesGood |-> b.signals - n[1],
      samplesBad |-> n[1], samplesChanged |-> n[2],
      samplesSuppressed |-> b.signals - n[1] - n[2]] :
        n \in {split \in Splits : split[1] + split[2] <= b.signals}}

\* The flag is set, and the block is counted: in the poll's own stats, and
\* signal by signal in ClientMetrics.
Answer(t) ==
    LET b == blocks[block[t]]
        done == block[t] = Len(blocks)
    IN  \E n \in IF outcome[t] = "data" THEN BlockRead(b) ELSE BlockFailed(b) :
        LET counts == Counts([f \in {"poll"} \X {b.table} \X DOMAIN n |-> n[f[3]]])
            client == Counts([c \in {<<"status", "read">>, <<"health", "readErrors">>} |->
                                 IF c[1] = "status" THEN n.samplesGood ELSE n.samplesBad])
        IN  /\ pc[t] = "answered"
            /\ pc' = [pc EXCEPT ![t] = IF done THEN "record" ELSE "block"]
            /\ block' = [block EXCEPT ![t] = IF done THEN 1 ELSE block[t] + 1]
            /\ todo' = [todo EXCEPT ![t] = IF done THEN TablesOf(blocks) ELSE {}]
            /\ link' = IF Marks(outcome[t]) THEN outcome[t] # "lost" ELSE link
            /\ raced' = (raced \/ (Marks(outcome[t]) /\ tested[t] # link))
            /\ falls' = falls + (IF link /\ outcome[t] = "lost" THEN 1 ELSE 0)
            /\ stats' = [stats EXCEPT ![t] = stats[t] (+) counts]
            /\ failed' = IF n.samplesBad > 0
                  THEN [failed EXCEPT ![t] = failed[t] \cup {b.table}] ELSE failed
            /\ interval' = interval (+) client
            /\ Happens(client (+) counts)
            /\ outcome' = [outcome EXCEPT ![t] = "none"]
            /\ tested' = [tested EXCEPT ![t] = FALSE]
            /\ UNCHANGED <<blocks, phase, report, metricsBounds>>

\* Mutant: a result for which no metric is defined.
ResultUndefined(t, table) == IF table \in failed[t] THEN "partial" ELSE "success"

Result(t, table) == IF table \in failed[t] THEN "error" ELSE "success"

\* record_poll: what the poll has counted of one table.
RecordPoll(t, table) ==
    LET own == {f \in DOMAIN stats[t] : f[2] = table}
        cycle == "pollCycles"
        cells == [c \in {<<"poll", table, Result(t, table), f[3]>> : f \in own}
                    |-> stats[t][<<"poll", table, c[4]>>]]
    IN  /\ pc[t] = "record" /\ table \in todo[t]
        /\ todo' = [todo EXCEPT ![t] = todo[t] \ {table}]
        /\ pc' = IF todo[t] = {table}
              THEN [pc EXCEPT ![t] = IF t = Loop THEN "late" ELSE "reply"] ELSE pc
        /\ stats' = [stats EXCEPT ![t] = Restrict(stats[t], DOMAIN stats[t] \ own)]
        /\ interval' = interval (+) cells
              (+) SetToBag({<<"poll", table, Result(t, table), cycle>>})
        /\ Happens(SetToBag({<<"poll", table, cycle>>}))
        /\ UNCHANGED <<blocks, phase, link, block, outcome, tested, failed, report, falls, raced,
                       metricsBounds>>

\* The poll has returned; its results go with it.
Leave(t) == failed' = [failed EXCEPT ![t] = {}]

\* _run_group: the poll took less than the interval, or more.
InTime ==
    /\ pc[Loop] = "late"
    /\ \/ pc' = [pc EXCEPT ![Loop] = "idle"] /\ todo' = todo /\ Leave(Loop)
       \/ /\ pc' = [pc EXCEPT ![Loop] = "overrun"]
          /\ todo' = [todo EXCEPT ![Loop] = TablesOf(blocks)]
          /\ failed' = failed
    /\ UNCHANGED <<blocks, phase, link, block, outcome, tested, stats, interval, report, happened,
                   falls, raced, metricsBounds>>

RecordOverrun(table) ==
    /\ pc[Loop] = "overrun" /\ table \in todo[Loop]
    /\ todo' = [todo EXCEPT ![Loop] = todo[Loop] \ {table}]
    /\ IF todo[Loop] = {table} THEN pc' = [pc EXCEPT ![Loop] = "idle"] /\ Leave(Loop)
       ELSE UNCHANGED <<pc, failed>>
    /\ interval' = interval (+)
          SetToBag({<<"poll", table, Result(Loop, table), "pollOverruns">>})
    /\ Happens(SetToBag({<<"poll", table, "pollOverruns">>}))
    /\ UNCHANGED <<blocks, phase, link, block, outcome, tested, stats, report, falls, raced,
                   metricsBounds>>

-----------------------------------------------------------------------------
(* Commands and publishes.                                                 *)

\* record_command, which a handler calls at its end.
CommandCounts(verb, result, values) ==
    Counts([c \in {"command"} \X {verb} \X {result} \X CommandMeasures |->
        CASE c[4] = "commandRequests" -> 1
          [] c[4] = "commandErrors" -> IF result = "error" THEN 1 ELSE 0
          [] c[4] \in DOMAIN values -> values[c[4]]
          [] OTHER -> 0])

RepollEnds(c) ==
    /\ pc[c] = "reply"
    /\ pc' = [pc EXCEPT ![c] = "idle"]
    /\ Leave(c)
    /\ Record(CommandCounts("repoll", "success", [repollRequests |-> 1]))
    /\ UNCHANGED <<blocks, phase, link, block, outcome, tested, stats, todo, report, falls, raced,
                   metricsBounds>>

\* A command that counts nothing before its end, or what no one else reads.
Command(c, counts) ==
    /\ phase = "running" /\ pc[c] = "idle"
    /\ events < MaxEvents
    /\ events' = events + 1
    /\ Record(counts)
    /\ UNCHANGED <<blocks, phase, link, poll, report, falls, raced, requests, ticks>>

\* repoll while the instance is paused.
RepollRefused(c) == Command(c, CommandCounts("repoll", "error", [repollRequests |-> 1]))

\* Entries are written, rejected by the slave (or the link), or missed before any
\* request.  An abort leaves the rest without a result; it and a batch of which
\* nothing was written although something was tried are errors.
Write(c) ==
    \E n, written, rejected, missed \in 0..MaxEntries, result \in Results :
        /\ rejected <= missed /\ written + missed <= n
        /\ result = "success" => written + missed = n /\ (rejected > 0 => written > 0)
        /\ result = "error" /\ written + missed = n => written = 0 /\ n > 0
        /\ Command(c, CommandCounts("sb/write", result,
                                    [writeSignals |-> n, writeFailures |-> missed])
                      (+) Counts([cell \in {<<"status", "write">>, <<"health", "writeErrors">>} |->
                                     IF cell[1] = "status" THEN written ELSE rejected]))

\* reconnect: the client is closed, which clears the flag, and one attempt made.
BeginReconnect(c) ==
    /\ phase = "running" /\ pc[c] = "idle"
    /\ events < MaxEvents
    /\ events' = events + 1
    /\ pc' = [pc EXCEPT ![c] = "reconnecting"]
    /\ link' = FALSE
    /\ Record(One("connection", "reconnectAttempts"))
    /\ UNCHANGED <<blocks, phase, block, outcome, tested, stats, failed, todo, report, falls, raced,
                   requests, ticks>>

EndReconnect(c) ==
    \E result \in Results :
        /\ pc[c] = "reconnecting"
        /\ pc' = [pc EXCEPT ![c] = "idle"]
        /\ link' = (link \/ result = "success")
        /\ Record(CommandCounts("reconnect", result, [reconnectRequests |-> 1])
                  (+) (IF result = "error" THEN One("connection", "reconnectFailures")
                       ELSE EmptyBag))
        /\ UNCHANGED <<blocks, phase, block, outcome, tested, stats, failed, todo, report, falls,
                       raced, metricsBounds>>

\* What _publish and flush record (SignalUpdatePublisher): a flush, a message or
\* two with the samples they carry out of a batch, a failure.
Publish ==
    \E counts \in {[batchFlushes |-> 1], [publishFailures |-> 1]}
                  \cup {[dataMessagesPublished |-> 2, samplesPublished |-> 2, batchSize |-> 2],
                        [dataMessagesPublished |-> 1, samplesPublished |-> 1, batchSize |-> 2]} :
        /\ phase = "running"
        /\ events < MaxEvents
        /\ events' = events + 1
        /\ Record([c \in {"publish"} \X DOMAIN counts |-> counts[c[2]]])
        /\ UNCHANGED <<blocks, phase, link, poll, report, falls, raced, requests, ticks>>

-----------------------------------------------------------------------------
(* The reports: each is drained under the lock, then sent.                 *)

Families == <<"health", "connection", "poll", "publish", "command">>

\* A row has the cells of a family that have the same dimensions.
Row(cell) ==
    IF cell[1] \in {"poll", "command"} THEN <<cell[1], cell[2], cell[3]>> ELSE <<cell[1]>>

Drained(family) == Restrict(interval, {c \in DOMAIN interval : c[1] = family})

\* Mutant: the interval is not reset.
RemainingAll(family) == interval

Remaining(family) == Restrict(interval, {c \in DOMAIN interval : c[1] # family})

Resting == stage = <<>> /\ rows = EmptyBag

\* connect, in the constructor: a failed attempt is reported at once, without the
\* health metric.
ConnectFails ==
    /\ phase = "connecting" /\ Resting
    /\ events < MaxEvents
    /\ events' = events + 1
    /\ Record(One("connection", "connectAttempts") (+) One("connection", "connectFailures"))
    /\ stage' = Tail(Families)
    /\ UNCHANGED <<blocks, phase, link, poll, rows, seen, believed, received, lost, falls, raced,
                   requests, ticks>>

Connect ==
    /\ phase = "connecting" /\ Resting
    /\ phase' = "connected"
    /\ link' = TRUE
    /\ Record(One("connection", "connectAttempts"))
    /\ stage' = Families
    /\ seen' = TRUE /\ believed' = TRUE
    /\ UNCHANGED <<blocks, poll, rows, received, lost, falls, raced, metricsBounds>>

\* The constructor has reported and starts the poll loop and the tick.
Start ==
    /\ phase = "connected" /\ Resting
    /\ phase' = "running"
    /\ UNCHANGED <<blocks, link, poll, interval, report, happened, falls, raced, metricsBounds>>

Tick ==
    /\ phase = "running" /\ Resting
    /\ ticks < MaxTicks
    /\ ticks' = ticks + 1
    /\ seen' = link
    /\ stage' = Append(Families, "recovery")
    /\ UNCHANGED <<blocks, phase, link, poll, interval, rows, believed, received, lost, happened,
                   falls, raced, requests, events>>

\* (The three take_interval_* of the health metric are one step.)
Drain ==
    /\ rows = EmptyBag /\ stage # <<>> /\ Head(stage) # "recovery"
    /\ stage' = Tail(stage)
    /\ rows' = Drained(Head(stage))
    /\ interval' = Remaining(Head(stage))
    /\ UNCHANGED <<blocks, phase, link, poll, seen, believed, received, lost, happened, falls,
                   raced, metricsBounds>>

\* The next row (of a family, in any order), and the rest.
Leaves(row) == Restrict(rows, {c \in DOMAIN rows : Row(c) = row})
Stays(row) == Restrict(rows, {c \in DOMAIN rows : Row(c) # row})

Send ==
    \E c \in DOMAIN rows :
        /\ rows' = Stays(Row(c))
        /\ received' = received (+) Leaves(Row(c))
        /\ UNCHANGED <<blocks, phase, link, poll, interval, stage, seen, believed, lost, happened,
                       falls, raced, metricsBounds>>

\* _emit and HealthMetrics.emit catch what the messaging raises; the counts of
\* the row are not put back.
SendFails ==
    \E c \in DOMAIN rows :
        /\ events < MaxEvents
        /\ events' = events + 1
        /\ rows' = Stays(Row(c))
        /\ lost' = lost (+) Leaves(Row(c))
        /\ UNCHANGED <<blocks, phase, link, poll, interval, stage, seen, believed, received,
                       happened, falls, raced, requests, ticks>>

\* The end of the tick: a recovery is counted, for the next one to report.
Recover ==
    /\ rows = EmptyBag /\ stage = <<"recovery">>
    /\ stage' = <<>>
    /\ believed' = seen
    /\ Record(IF seen /\ ~believed THEN One("health", "reconnects") ELSE EmptyBag)
    /\ UNCHANGED <<blocks, phase, link, poll, rows, seen, received, lost, falls, raced,
                   metricsBounds>>

\* sb/status: to_dict drains the intervals of read and write into the reply.
Status(c) ==
    LET counts == CommandCounts("sb/status", "success", <<>>)
    IN  /\ phase = "running" /\ pc[c] = "idle"
        /\ events < MaxEvents
        /\ events' = events + 1
        /\ received' = received (+) Drained("status")
        /\ interval' = Remaining("status") (+) counts
        /\ Happens(counts)
        /\ UNCHANGED <<blocks, phase, link, poll, stage, rows, seen, believed, lost, falls, raced,
                       requests, ticks>>

-----------------------------------------------------------------------------

MetricsNext ==
    \/ \E t \in Threads :
        \/ BeginPoll(t)
        \/ Request(t)
        \/ Answer(t)
        \/ \E table \in Tables : RecordPoll(t, table)
    \/ InTime
    \/ \E table \in Tables : RecordOverrun(table)
    \/ \E c \in Callers :
        \/ RepollEnds(c)
        \/ RepollRefused(c)
        \/ Write(c)
        \/ BeginReconnect(c)
        \/ EndReconnect(c)
        \/ Status(c)
    \/ Publish
    \/ ConnectFails
    \/ Connect
    \/ Start
    \/ Tick
    \/ Drain
    \/ Send
    \/ SendFails
    \/ Recover

MetricsSpec == MetricsInit /\ [][MetricsNext]_metricsVars

-----------------------------------------------------------------------------
(* Safety.                                                                 *)

Reported == interval (+) rows (+) received (+) lost
Drops == <<"connection", "connectionDrops">>

\* How often a fact is in the stats of polls that have not ended, and how often
\* in what is reported, under whichever result.
Unended(fact) == SumFunction([t \in Threads |-> Count(fact, stats[t])])
Copies(fact) ==
    IF fact[1] = "poll"
    THEN Count(<<"poll", fact[2], "success", fact[3]>>, Reported)
         + Count(<<"poll", fact[2], "error", fact[3]>>, Reported)
    ELSE Count(fact, Reported)

\* Threads that have found a drop and counted it, but not yet set the flag.
Falling == {t \in Threads : pc[t] = "answered" /\ outcome[t] = "lost" /\ tested[t]}

\* Whatever threads count and drain at the same time, each thing that happened is
\* in exactly one place: in the stats of a poll that has not ended, in an interval
\* that is not drained, in a row under way, with the console, or in a row that
\* could not be sent; and nothing else is reported.  Drops are counted by those
\* who find the flag up: their number is that of the falls, unless a thread set
\* the flag after another did.
CountsAddUp ==
    /\ \A fact \in DOMAIN happened \cup {Fact(c) : c \in DOMAIN Reported \ {Drops}}
                     \cup UNION {DOMAIN stats[t] : t \in Threads} :
          Count(fact, happened) = Unended(fact) + Copies(fact)
    /\ ~raced => Count(Drops, Reported) = falls + Cardinality(Falling)

\* _emit_inventory: what the console is told of a table.
SignalsOf(table) ==
    [i \in DOMAIN blocks |-> IF blocks[i].table = table THEN blocks[i].signals ELSE 0]
Configured(table) == SumFunction(SignalsOf(table))
ReadBlocksOf(table) == Cardinality({i \in DOMAIN blocks : blocks[i].table = table})

\* A poll row accounts for each configured signal and each read block of its table
\* once per cycle, and a success row has no errors.
PollRowBalances(table, result, b) ==
    LET N(measure) == Count(<<"poll", table, result, measure>>, b)
    IN  /\ N("samplesGood") + N("samplesBad") = N("pollCycles") * Configured(table)
        /\ N("protocolReadRequests") = N("pollCycles") * ReadBlocksOf(table)
        /\ N("samplesChanged") + N("samplesSuppressed") = N("samplesGood")
        /\ result = "success" => N("samplesBad") + N("protocolReadErrors") = 0
        /\ result = "error" => N("samplesBad") >= N("pollCycles")

\* Each command of an error row is an error.
CommandRowBalances(verb, result, b) ==
    LET N(measure) == Count(<<"command", verb, result, measure>>, b)
    IN  /\ N("commandErrors") = IF result = "error" THEN N("commandRequests") ELSE 0
        /\ N("writeFailures") <= N("writeSignals")

RowsOf(b) ==
    /\ \A table \in Tables, result \in Results : PollRowBalances(table, result, b)
    /\ \A verb \in Verbs, result \in Results : CommandRowBalances(verb, result, b)
    /\ Count(<<"publish", "samplesPublished">>, b) <= Count(<<"publish", "batchSize">>, b)

\* A row under way is a set of whole polls or commands.  Overruns are recorded
\* apart and may come a row later, never more of them than of the cycles.
RowsBalance ==
    /\ RowsOf(rows)
    /\ \A table \in Tables, result \in Results :
          Count(<<"poll", table, result, "pollOverruns">>, Reported)
              <= Count(<<"poll", table, result, "pollCycles">>, Reported)

=============================================================================
