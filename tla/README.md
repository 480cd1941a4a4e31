# nine-core in TLA+

nine-core reads agent events off Kafka, writes each as one row of a PostgreSQL
table partitioned by week, sends what it cannot write down a ladder of delay
topics, and keeps the table's weeks: new ones ahead of the clock, old ones
dropped when the retention promise is over. This directory holds the
specifications of those parts, the TLC instances that check them, and the TLAPS
proofs of what they guarantee for every value of their constants.

## The system

| part | state | operations | talks to |
|---|---|---|---|
| group consumer, `internal/consumer` | waiting partitions, the client's cursor and pauses, the batch | `Run`: resume, bound the poll, poll, process record by record, commit; the rebalance callbacks; `Close` | the broker, the handler, the Sink |
| `cmd/core` | the signal context | wiring, SIGTERM, the fault point of the crash tests | consumer, store, forwarder |
| handler and classification, `internal/store` | the rows | `Insert`, `Classify`, `FailureCode` | PostgreSQL |
| decoder, `internal/event` | none | `Decode` | none |
| ladder, marks, forwarder, `internal/retry` | seven headers on a record | `route`, `Retry`, `Park`, `Poison`, `Apply` | the broker |
| horizon, `internal/store/partition.go` | the weekly tables | `EnsurePartitions` | PostgreSQL, the advisory lock |
| retention, `internal/store/retention.go` | tables half or wholly detached, `events_partition_drops` | `Retain`: resume, search, record, detach, count, drop, stamp | the same |
| `cmd/partition` | none | the horizon, then retention | both |
| `cmd/migrate`, schema, git hooks, CI | | not modelled, see below | |

The parts meet in three places: the committed offset (the consumer promises the
log may advance, so a row or an acknowledged forward must exist), the topics
(what one consumer's Sink produces another one reads, with its marks), and the
`events` table (a missing week makes an insert a Retry; a dropped week takes its
unique index along).

What is hard here and hard to test: the window between the handler's transaction
and the offset commit; members that take over from each other, with and without
being told; a signal anywhere in the loop; a pause, a seek and a map of waiting
partitions that are updated in different callbacks; a record that is forwarded
and redelivered; a run of the maintainer that stops between any two SQL
statements, and two maintainers at once. `PROJECT.json` lists these hazards at
their lines.

## Modules

### Consumer

The members of one group on one topic. A member's `pc` says where `Run` is:
`resume` (`resumeRipe`), `deadline` (`pollDeadline`), `poll`, `batch` (`process`),
`commit`, `closing` (Run has returned or a panic unwinds, and `Close` is next), `down`. A batch is three offsets for each
partition: `from`..`at`-1 are in `acked`, `at`..`upto`-1 are still to be handled.
`waiting` is the map of the same name with 0 for an absent key, `deadline` the one
of `pollCtx`. `rows` and `sunk` are the accounting: rows in the table, records a
Sink's destination acknowledged. `acked`, `redone` and `discarded` are history
variables no action reads for its effect.

`blocking` is the kgo client's own state: the members whose last `PollRecords` has not
been followed by `AllowRebalance`. `Poll` sets it where a batch begins, `EndBatch` is the
deferred call that clears it on every way out of `batch`, and the `continue` of an
expired poll and the empty batch set and clear it within their step. Assignments,
revocations and lost sessions wait for it (`MayRebalance`), and so does `Close`: a path out
of `batch` that forgets the call leaves a process that hangs. `Panic` is a bug in the
decoder, the handler, the Sink or the hook, whose unwinding runs the deferred calls;
`Crash` is a kill or `os.Exit`, which runs none.

One action per step of the loop. `Refuse` is every way `one` returns an error:
Fatal, Unknown, no Sink, a Forward that failed; the write or the produce whose
answer was lost may have happened. `CommitFails` likewise leaves the offset
either way. After `hold` the remaining records of the partition are skipped by
shrinking `upto`.

External, modelled from their use: the broker's log, the group coordinator, and
kgo. The assumptions about them are: an assignment starts at the committed
offset; `PollRecords` returns records in order and moves the cursor; a pause lasts
until it is resumed, across assignments; with `BlockRebalanceOnPoll` nothing is
assigned or revoked, and `Close` does not return, between a poll and `AllowRebalance`; a member the coordinator has dropped
cannot commit and, as long as its batch lasts, does not know it was dropped. The
ten millisecond floor of a bounded poll is below the tick of the clock, and the
clocks of members and broker are one.

### RetryChain

One event on the ladder, as a set of copies: delivery is at least once, so a copy
that was handled may be handled again (`Settled`). A copy is its topic and its
marks, plus two history fields, the hops behind it and the time of its first
failure. `Errors` has one error for every class `Classify` and `FailureCode` tell
apart, `Bodies` one payload for every answer of `Decode`. `route`, `build`, `Spent`,
`Round`, `eventID`, `classifyPg` and the rest carry the code's names. A mark that is
present and does not parse is `Unreadable`; `Readable` is what `Read` accepts.
`nine-failure-code` itself is left out, as nothing reads it back; whether `build`
accepts it is `Builds`. `Halt` is a consumer that stops because `route` has no
answer or the outcome is Fatal (`Refuse` is what that does to the event), `ProduceFails` one that stops because the broker
did not answer. What the delay does to a copy is Consumer's subject, so here a
copy may be handled at any time.

### Maintainer

The weeks and the processes that run `cmd/partition`. A week's table is absent,
attached, pending (a concurrent detach between its two transactions) or detached;
its line in `events_partition_drops` is absent, open or dropped, with the count or
without. `run[p]` is one run: the clock it read, its flags, the weeks left to do,
the current one, and what it will report. Every statement that changes something
is a step: `CreateWeek`, `Record` (the upsert), `Detach` and `Finalize` (the two
halves of a concurrent detach, or FINALIZE alone), `Count`, `Drop`, `Stamp`. `Fail`
is a statement that fails, `Kill` a process that ends; both free the lock.
`to_regclass` with the CREATE it guards, and `count(*)` with the UPDATE that stores
it, are single steps: they run under the lock, and the first of each pair changes
nothing. A tick is a fraction of a week, so that a promise can end inside a week;
`Tolerance` is the minute of skew `Retain` lets pass, zero ticks in every instance; a
run whose clock is ahead by no more than that may count that much more as past, and
`HorizonIsNeverDropped` allows it no more.
`Operator` adds the person who follows the advice of `ErrPendingDetachElsewhere`.
Where a statement reads the catalog twice under the lock nothing but that person
can have changed it, so the model reads it once.

### AtLeastOnce

What the group promises about its topic, with no member in sight: records arrive
with the time, `Settle` accounts for a record that is old enough and has nothing
unhandled in front of it, `Release` moves the offset over what is handled and never
back. `Consumer` instantiates it as `Queue`, with `rows \cup sunk` for what is
settled and the committed offset for what is released; `ImplementsAtLeastOnce` is the
refinement. Settling again (a redelivery) is a stuttering step. `Forsake` is the
concession to the `delay_loss` finding: it is enabled only with a delay, gives up
records without a gap, and would go from the specification with the fix.

### EventPath

The parts together. It extends Maintainer and instantiates RetryChain as `Ladder`
for one well-formed event, with `recorded` mapped to the row in the event's week: what
an insert answers is no longer free but what the table says at that moment
(`Answers`). A week that is attached takes the row or has it; one that is half
detached takes the rows of older transactions and refuses others; one that is
detached, dropped or not yet made refuses with 23514, which is a Retry. `Replay` is a
consumer reading events.parked: its Sink has no rung for that topic (`ErrOffChain`), so
a copy there leaves only by a Done; a refusal (`Ladder!Refuse`) keeps it where it is, with
or without the row that a lost answer was about. `written` counts the rows ever written for the
event. The marks carry no times here, and that a consumer halted is not remembered. The four errors of `InsertErrors` do to the event all that the fourteen of
RetryChain do: with all of them the run has the same states.

`MCConsumer`, `MCRetryChain`, `MCMaintainer` and `MCEventPath` give the constants their values.
Operators whose comment begins with "Mutant" are wrong variants of the definition
below them; no specification uses them. They show that each property can fail.

## Runs

Consumer. Bounds: records per partition (`LogSize`), ticks, faults (crashes,
panics, evictions of live members, lost answers) and churn (signals, revocations). Two
records are enough for "acked" and "not reached" in one partition, two members for
a takeover and a late commit, and one fault with one signal or revocation for each
to meet the other; more faults than that are the theorems' subject. On the delay
topic the clock ends at tick 1: a record of tick 0 ripens then, one of tick 1 does not
ripen any more, so that one partition is held while another has fresh records, a hold
comes after records of the same partition that were handled, and a hold may outlast
everything else that happens. A shutdown that waits for a hold to end is therefore
seen not to end. The liveness properties about records are about those that can ripen
(`WillRipen`). The delay run has no Sink, which keeps its states few: `Forward` differs from
`Done` in which of `rows` and `sunk` it fills, the properties of that run look at their
union, and `takeover` has a Sink.

| run | instance | result |
|---|---|---|
| takeover | 2 members, 1 partition, 2 records, no delay, 1 fault, 1 churn, fairness; 61 290 states | all hold: nothing lost, no commit goes back, the queue of AtLeastOnce is implemented, every record accounted for, every signal, error and panic ends its process |
| delay | 1 member, 2 partitions, 2 records each, delay of one tick, no Sink, 1 fault, 1 churn, fairness; 537 495 states | all hold: nothing early or out of order, progress but for the two findings, and a signal ends the process in the middle of a hold |
| delay_loss | 1 member, 2 partitions, delay | **NoLoss violated** |
| delay_stall | 2 members, 1 partition, delay, fairness | **EventuallyAccounted violated** |

RetryChain. The ladder of `chain.go`, two redeliveries, three ticks; the marks an
event may arrive with are none, those of a parked record that was replayed, an
unreadable round, and an unreadable first failure.

| run | result |
|---|---|
| ladder | holds, and with readable marks every copy comes to rest, with its event id wherever the payload or a readable header offers one; 18 688 states |
| unreadable_poison | **PoisonReachesDLQ violated** |

Maintainer and EventPath. Two ticks a week, `-behind 1`, `-ahead 1`, up to six weeks; a
promise of nothing, of half a week (which must be refused) and of a week (the floor).
The ladder of EventPath has one delay topic, which is enough for a copy to move on
and to be parked; one redelivery and one replay are enough for a copy to be handled
again before, between and after the drop of the week and the next run of the horizon.
The six initial states are the event's week, from one that is dropped at once to one
that is never made.

| run | instance | result |
|---|---|---|
| retention | EventPath: 1 maintainer, clock exact or a week fast, 2 stops, an event with 1 redelivery and 1 replay; 2 045 012 states | holds: the event is one row, on the books, or parked |
| maintainers | 2 maintainers, 1 stop; 705 848 states | holds |
| retention_progress | 1 maintainer, promises of one and two weeks, an operator, 2 stops, fairness; 201 312 states | holds; the count of a dropped week is never missing or too high |
| stale_now | 2 maintainers, exact clocks, no stops | **NoWeekReturns violated** |
| silent_drop | 1 maintainer, 2 stops | **ReportIsComplete violated** |
| advice | 1 maintainer, two promises, an operator | **AdvisedIsNotDropped violated** |

Deadlock is not checked: the bounded environment may run out of things to do, an
idle consumer waits in a poll for ever, and an event at rest stays there.

### What the violations show

* `delay_loss`. `Run` cancels the poll's context and then asks it for an error. A
  bounded poll therefore always looks like one that ran into its deadline, and the
  records it returned are dropped although the client's cursor has moved.
* `delay_stall`. `forget` clears `waiting` and leaves the pause in the client.
* `unreadable_poison`. `Park` has an answer to an unreadable round, `Poison` has none.
* `stale_now`. The clock is read before the wait for the advisory lock. It takes a
  promise at the floor and a wait across the end of a week.
* `silent_drop`. Three returns of `Retain` give `nil` where others give `out`.
* `advice`. Between the FINALIZE and the ATTACH an error message asks for, the week
  is what `resumeUnfinished` looks for, and that does not ask for the boundary.

`PROJECT.json` quotes the lines that say otherwise.

Limits of what holds. `CountedOnce` rests on `NoWeekReturns`, and so on one maintainer
at a time with a promise at the floor or above: in the `stale_now` run's behaviour a
redelivered copy is counted twice, and so it is when a slow clock makes
`EnsurePartitions`, which compares no clocks, ask for a week that is gone. `CountIsExact`
holds where nobody attaches weeks back; with an operator a run that saw the week
detached may count it, and a row that comes after the ATTACH is dropped uncounted, so
`retention_progress` checks `CountNeverTooHigh`. Nor does it hold of two maintainers that
are stopped twice: one run counts, drops and stops before the stamp; the other, whose
horizon is as stale as in `stale_now`, creates the week again, detaches it and stops
before the count; the third finds the table detached with a count in its record, drops
it and stamps the first table's number. `IdIsKept` leaves out a payload with bytes
after its JSON value: `Decode` reads the first value and accepts it, `json.Unmarshal` in
`eventID` refuses it, and such an event goes down the ladder without its id, although
the comment on `eventID` says a payload without one "is a poison record"
(`internal/retry/forwarder.go:115-117`). `EnsureCovers` is checked with one value of `-behind`: with
`Behinds = {1, 2}` it fails, because `to_regclass` finds the table of a week that an
earlier run left detached and the wider span skips it. `PastIsDropped` allows for the
refusal: a half-detached week that only the longer of two promises keeps stops every
run with that promise, and no week is dropped while nobody repairs it.

### Fairness

Consumer: a process that runs takes its next step, and one that ended is started
again by its supervisor; the coordinator times out dead members, readmits live ones
and does not for ever withhold a free partition from members that are again and
again ready for it (strong fairness: a member is not ready while it is in a batch);
time passes. Producers, faults, signals and revocations owe nothing, and are
bounded. RetryChain: a copy on the ladder is handled in the end, which says that a
Fatal error is not the database's answer for ever; for a payload that does not
decode there is nothing to assume. Maintainer: the job is on a schedule and its
statements are answered; the progress run has one maintainer because two whose
runs alternate for ever can each find the other's lock with
`pg_try_advisory_lock`, which does not wait.

## Proofs

| module | about | theorems |
|---|---|---|
| `ConsumerProofs` | Consumer | `TypeCorrect`, `OnlyDiscardsAreLost`, `NothingIsLost`, `BatchesAreExclusive`, `CommitsNeverGoBack`, `NoFaultNoRedelivery`, `CloseNeverWaits`, `WaitingHasItsRecord` |
| `ConsumerRefinement` | Consumer implements AtLeastOnce | `GroupIsAtLeastOnce` |
| `RetryChainProofs` | RetryChain | `TypeCorrect`, `NothingVanishes`, `RoundsCountTheRungs`, `VerdictsAreOfTheTopic`, `FirstFailureStays`, `TheIdGoesAlong`, `ReadableMarksForward` |
| `MaintainerProofs` | Maintainer, any runs | `TypeCorrect`, `NoTableIsOrphaned`, `StampsAreFinal`, `HorizonIsKept` |
| `MaintainerOrderlyProofs` | Maintainer, orderly runs | `DroppedWeeksStayAway`, `HorizonIsCreated`, `CountsAreNeverTooHigh`, `CountsAreExact` |
| `EventPathProofs` | EventPath | `PathIsMaintained`, `OneEventOneRow`, `RowsStayOnTheBooks`, `EventsAreAccountedFor` |

Every safety invariant and every action property of a passing run is stated by one of
them, some under a hypothesis. What a module assumes of its constants is its `ASSUME`: types, and that values
which stand for different things differ. The sets of members, partitions and
maintainers are arbitrary, and so are the ladder, the marks an event comes with, the
flags, the skews and the bounds. A theorem that needs more has it as a hypothesis,
named and discussed below.

### Consumer

All but `WaitingHasItsRecord` and `GroupIsAtLeastOnce` follow from one inductive invariant. That what is below a committed
offset is accounted for is not inductive: a commit moves the offset to `at`, so
everything from the old offset to `at` must be accounted for already, which is a fact
about the cursor the batch began at and about who else may have committed. The
conjuncts are

* `WithinLog`: cursors, batches and commits end where the log does, and `at <= upto`;
* `Ownership`: no partition is assigned to two members of the generation, and a
  process that is down and out of the group holds none;
* `Blocking`: a client blocks rebalances exactly while its member is inside `batch`, so
  that partitions come and go only between two rounds, and `Close` finds nothing to wait
  for (`CloseNeverWaits`, the safety half of `ShutdownEnds`);
* `BatchShape`: there is a batch only between a poll and the end of its commit, it
  lies within the partitions the member holds, and the cursor is at its end, also
  after a hold has set both back;
* `CommittedBehind`: the group's offset is not past the cursor of an idle holder nor
  past the beginning of a holder's batch, which makes commits monotonic;
* `Accounting`: everything below a committed offset, below the cursor of an idle
  holder, and below `at` of a batch is in `rows`, `sunk` or `discarded`;
* `NothingHeld`: without a delay no poll is bounded, nothing waits and nothing is
  discarded;
* `AckedOnce`: without a fault every running process is in the group, and an acked
  record is committed or still in a batch.

`NothingIsLost` has the hypothesis `Delay = 0`, the events topic; the run `delay_loss`
shows what a bounded poll throws away on a delay topic. `WaitingHasItsRecord` adds
`WaitsFor`, which is `WaitingIsForTheCursor` for members the group has dropped as well:
`Lost` forgets what is assigned, so it must be known that nothing else waits.

`ConsumerRefinement` proves `GroupIsAtLeastOnce`, `Spec => ImplementsAtLeastOnce`, from the
same invariant and one more, `Stamped`: no record is younger than the clock, without
which a topic with no delay could deliver early. Every step is one of the queue's or
none: `Done`, `Forward` and `Refuse` settle the record under the batch's hand, which
is in order because `Accounting` covers everything below `at`; a bounded `Poll`
forsakes what lies right behind an idle cursor; `commit` and `CommitFails` release up
to `at`, which `CommittedBehind` keeps from going back; all others leave the queue alone.

### RetryChain

Every theorem rests on what a step may add: a copy that is new was sent by one that was
on the ladder, down one rung, to Parked, to Parked with an unreadable round, or to DLQ
(`RouteCases`, `NewInflight`, `NewStopped`). The inductive invariant is `TypeOK` and
`Moving`: a copy that has not moved carries the marks the event came with, one that
has carries a round, a first failure and no verdict. Without it an unreadable round
could turn up on the second rung, where `ParkUnreadable` would date the first failure
anew and lose the header's id. Given that,

* `NothingVanishes` needs only that Done is answered where the row is there;
* `RoundsCountTheRungs` and `FirstFailureStays` are inductive, for an event that came
  without marks (`Clean` is part of the properties);
* `TheIdGoesAlong` and `ReadableMarksForward` follow the readable marks down the ladder;
* `VerdictsAreOfTheTopic` needs the dates to be in order (`Dated`), and the hypothesis
  `NoFutureMarks`: no event comes with a first failure after the clock the model starts
  with. `build` keeps a first failure it can read, so a forwarder whose clock is
  behind that of an earlier one parks a record before it first failed.

### Maintainer

`Inv` is `TypeOK` (in it, that the lock's holder is the one run past its lock
statement), `RunOK` (what a run knows of its flags, its clock and its week), `TablesOK`
(the week it works on has an open record) and `NoOrphan`. `HorizonIsKept` adds
`PastInv`: a week with a record is behind the horizon of some `-behind` (with several
values in use, not of each), and stays so as
the clock goes on, which carries the check a run made at its beginning to the `DROP`
at its end, or to the run that finishes its work. Both hold for any number of runs at
once and with a person's repairs.

The other four do not hold of any deployment, and are proved of the orderly ones:

* `Alone`: there is one maintainer. With two, a horizon computed before another run's
  drop creates the week again: the run `stale_now`. With two stops that also breaks the
  count, as said above;
* `SteadyClocks`: no run's clock is behind one that `Retain` would have accepted of
  another. With clocks two ticks behind and exact ones TLC finds a week that returns;
* `OneFloor`: a promise above the floor of one run's `-behind` is above every run's.
  With `-behind` 1 and 2 and promises of one and two weeks TLC finds a week that the
  wider horizon creates again, and with three stops a count that is not exact.

`CountsAreExact` also has the hypothesis that nobody repairs by hand: a week that is
attached back after its count takes rows the count does not have, and only
`CountsAreNeverTooHigh` is left. A job on one schedule, with one set of flags and one
host's clock, is orderly, and so is the instance of the `retention` run. The argument is that a week with a record is out of every horizon that is still to be
created (`ForgottenRecords`, `ForgottenRuns`), and that a table with a count is
detached, so that it takes no row between the count and the drop (`ExactTables`,
`ExactRuns`).

### EventPath

`PathIsMaintained` is a refinement with no mapping to state, as EventPath keeps
Maintainer's variables: a delivery is an `Insert` or leaves the table alone. With it
every theorem about Maintainer is one about EventPath. The rest is one invariant,
`Books`: the row is written at most once, and if it was written it is in an existing
table, or the table is gone with one row and a record. A week that is created had
neither table nor record, so it is not one the event was ever in. The hypotheses are
those of `CountsAreExact`. `RowAssumption` says that a week can hold the event's row.

### Only model-checked

Liveness (`EventuallyAccounted`, `AccountedUnlessStranded`, `ShutdownEnds`, `Settles`,
`PastIsDropped`) rests on fairness, which the prover does not handle. The findings are
counterexamples, which TLC gives.

## Not modelled

* `cmd/migrate` and `store.Migrate` hand over to goose; the weeks the first
  migration makes are Maintainer's initial state.
* The conversion of fields in `Decode`, the schema file, `Partitions` and `Count`:
  pure or read-only.
* Logging, the wording of errors, the text of headers and of partition bounds.
* Indexes, row-level grants, git hooks, CI.

## Plan

Done: the four components and AtLeastOnce, their composition, and proofs of all their
safety properties.

Left, should the code change: with the clock read after the lock is had, `Alone` should
not be needed, and the lock's holder being the only run past its lock statement
(`TypeOK`) takes its place in the proofs; with the result of the poll looked at before its
context, `Forsake` goes from AtLeastOnce and `NothingIsLost` loses its hypothesis.
