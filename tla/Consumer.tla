------------------------------ MODULE Consumer ------------------------------
(***************************************************************************)
(* internal/consumer: the members of one Kafka consumer group reading one   *)
(* topic.  A member polls records, hands each to the handler, accounts for  *)
(* it (a row in the database, or an acknowledgement from the Sink), and     *)
(* only then commits the offset.  With Delay > 0 the topic is a delay topic *)
(* and a record is held, by a seek and a pause, until it has aged.          *)
(*                                                                         *)
(* The broker, the group protocol and the kgo client are outside the        *)
(* repository: they are modelled from the way consumer.go uses them (an     *)
(* assignment starts at the committed offset, PollRecords moves the fetch   *)
(* cursor, a pause lasts until a resume, a member the group has dropped     *)
(* cannot commit, a poll blocks rebalances and Close until AllowRebalance). *)
(***************************************************************************)
EXTENDS Naturals, Sequences, FiniteSets

CONSTANTS
    Members,     \* processes running cmd/core on this topic and group
    Partitions,  \* partitions of the topic
    Delay,       \* Config.Delay in clock ticks, 0 for the events topic
    HasSink,     \* whether WithSink was given; cmd/core always gives one
    LogSize,     \* bound: records produced per partition
    MaxClock,    \* bound: the last tick of the clock
    MaxFaults,   \* bound: crashes, evictions, failed calls
    MaxChurn     \* bound: signals and voluntary revocations

ASSUME ConsumerConstants ==
    /\ Delay \in Nat
    /\ HasSink \in BOOLEAN
    /\ LogSize \in Nat
    /\ MaxClock \in Nat
    /\ MaxFaults \in Nat
    /\ MaxChurn \in Nat

VARIABLES
    \* the broker
    clock,       \* the clock every timestamp and every Now() is read from
    log,         \* log[p][o + 1] is the timestamp of the record at offset o
    committed,   \* the group's committed offset: the next one to be read
    enrolled,    \* members of the group's current generation
    \* one member: its kgo client and its Consumer
    pc,          \* where Run is
    signalled,   \* the members with ctx.Err() # nil: SIGTERM has arrived
    assigned,    \* the partitions the member believes it holds
    cursor,      \* the client's next fetch offset
    paused,      \* the client's paused partitions, which outlive assignments
    waiting,     \* Consumer.waiting: when a held partition ripens, 0 if absent
    deadline,    \* the deadline of pollCtx, 0 when the poll is not bounded
    from, at, upto,  \* the batch: offsets from..at-1 acked, at..upto-1 to do
    stop,        \* the members whose process ended early, on an error
    blocking,    \* the members whose client waits for AllowRebalance
    \* the outside world
    rows,        \* records with a row in the events table
    sunk,        \* records the Sink's destination has acknowledged
    \* history
    acked,       \* records some batch has appended to its acked list
    redone,      \* records handled again after they had been acked
    discarded,   \* records a poll returned and Run never looked at
    faults, churn

brokerVars == <<clock, log, committed>>
clientVars == <<assigned, cursor, paused, waiting>>
batchVars  == <<from, at, upto, stop, blocking>>
worldVars  == <<rows, sunk, acked, redone>>
boundVars  == <<faults, churn>>
vars == <<clock, log, committed, enrolled, pc, signalled, assigned, cursor,
          paused, waiting, deadline, from, at, upto, stop, blocking, rows, sunk,
          acked, redone, discarded, faults, churn>>

Idle    == {"resume", "deadline", "poll"}
Blocked == {"batch", "commit"}       \* inside batch
Running == Idle \cup Blocked \cup {"closing"}

Zeroes == [p \in Partitions |-> 0]

Init ==
    /\ clock = 0
    /\ log = [p \in Partitions |-> <<>>]
    /\ committed = Zeroes
    /\ enrolled = {}
    /\ pc = [m \in Members |-> "down"]
    /\ signalled = {}
    /\ assigned = [m \in Members |-> {}]
    /\ cursor = [m \in Members |-> Zeroes]
    /\ paused = [m \in Members |-> {}]
    /\ waiting = [m \in Members |-> Zeroes]
    /\ deadline = [m \in Members |-> 0]
    /\ from = [m \in Members |-> Zeroes]
    /\ at = [m \in Members |-> Zeroes]
    /\ upto = [m \in Members |-> Zeroes]
    /\ stop = {} /\ blocking = {}
    /\ rows = {} /\ sunk = {} /\ acked = {} /\ redone = {} /\ discarded = {}
    /\ faults = 0 /\ churn = 0

-----------------------------------------------------------------------------
(* The environment. *)

Tick ==
    /\ clock < MaxClock
    /\ clock' = clock + 1
    /\ UNCHANGED <<log, committed, enrolled, pc, signalled, clientVars, deadline,
                   batchVars, worldVars, discarded, boundVars>>

\* A record lands on the topic. One stamped late ripens after the clock's bound,
\* and is held for as long as anyone looks.
Produce(p) ==
    /\ Len(log[p]) < LogSize
    /\ log' = [log EXCEPT ![p] = Append(@, clock)]
    /\ UNCHANGED <<clock, committed, enrolled, pc, signalled, clientVars, deadline,
                   batchVars, worldVars, discarded, boundVars>>

Fault == faults < MaxFaults /\ faults' = faults + 1 /\ UNCHANGED churn
Churn == churn < MaxChurn /\ churn' = churn + 1 /\ UNCHANGED faults

\* A process that is gone keeps nothing but what the group remembers of it.
Forgotten(m) ==
    /\ pc' = [pc EXCEPT ![m] = "down"]
    /\ signalled' = signalled \ {m}
    /\ cursor' = [cursor EXCEPT ![m] = Zeroes]
    /\ paused' = [paused EXCEPT ![m] = {}]
    /\ waiting' = [waiting EXCEPT ![m] = Zeroes]
    /\ deadline' = [deadline EXCEPT ![m] = 0]
    /\ from' = [from EXCEPT ![m] = Zeroes]
    /\ at' = [at EXCEPT ![m] = Zeroes]
    /\ upto' = [upto EXCEPT ![m] = Zeroes]
    /\ stop' = stop \ {m}
    /\ blocking' = blocking \ {m}

\* New and Run: the process joins the group under a member id of its own.
Start(m) ==
    /\ pc[m] = "down"
    /\ m \notin enrolled
    /\ pc' = [pc EXCEPT ![m] = "resume"]
    /\ enrolled' = enrolled \cup {m}
    /\ UNCHANGED <<brokerVars, signalled, clientVars, deadline, batchVars,
                   worldVars, discarded, boundVars>>

\* A kill, or the fault point's os.Exit. The group goes on believing in the
\* member until its session ends.
Crash(m) ==
    /\ pc[m] \in Running
    /\ Fault
    /\ assigned' = [assigned EXCEPT ![m] = IF m \in enrolled THEN @ ELSE {}]
    /\ Forgotten(m)
    /\ UNCHANGED <<brokerVars, enrolled, worldVars, discarded>>

\* SIGINT or SIGTERM: signal.NotifyContext cancels the context Run polls with.
Signal(m) ==
    /\ pc[m] \in Running
    /\ m \notin signalled
    /\ Churn
    /\ signalled' = signalled \cup {m}
    /\ UNCHANGED <<brokerVars, enrolled, pc, clientVars, deadline, batchVars,
                   worldVars, discarded>>

\* Run has returned or a panic unwinds: the deferred Close leaves the group. It
\* waits as long as a poll of this client has not been followed by AllowRebalance.
Close(m) ==
    /\ pc[m] = "closing"
    /\ m \notin blocking
    /\ enrolled' = enrolled \ {m}
    /\ assigned' = [assigned EXCEPT ![m] = {}]
    /\ Forgotten(m)
    /\ UNCHANGED <<brokerVars, worldVars, discarded, boundVars>>

-----------------------------------------------------------------------------
(* The group. *)

\* BlockRebalanceOnPoll: no partition comes or goes between a poll and
\* AllowRebalance.
MayRebalance(m) == pc[m] \in Idle \cup Blocked /\ m \notin blocking

\* Mutant: where the group has no offset yet, the client starts at the log's end.
AssignAtEnd(m, p) ==
    /\ m \in enrolled
    /\ MayRebalance(m)
    /\ \A n \in enrolled : p \notin assigned[n]
    /\ assigned' = [assigned EXCEPT ![m] = @ \cup {p}]
    /\ cursor' = [cursor EXCEPT ![m][p] = IF committed[p] = 0 THEN Len(log[p]) ELSE committed[p]]
    /\ UNCHANGED <<brokerVars, enrolled, pc, signalled, paused, waiting, deadline,
                   batchVars, worldVars, discarded, boundVars>>

\* OnPartitionsAssigned: the fetch starts at the committed offset. The pause
\* set is not touched: a kgo pause lasts until it is resumed.
Assign(m, p) ==
    /\ m \in enrolled
    /\ MayRebalance(m)
    /\ \A n \in enrolled : p \notin assigned[n]
    /\ assigned' = [assigned EXCEPT ![m] = @ \cup {p}]
    /\ cursor' = [cursor EXCEPT ![m][p] = committed[p]]
    /\ UNCHANGED <<brokerVars, enrolled, pc, signalled, paused, waiting, deadline,
                   batchVars, worldVars, discarded, boundVars>>

\* The forget callback: what this member no longer holds it no longer waits on.
forget(m, parts) ==
    waiting' = [waiting EXCEPT ![m] = [p \in Partitions |->
                                         IF p \in parts THEN 0 ELSE @[p]]]

\* Mutant: without BlockRebalanceOnPoll a partition goes in the middle of a batch.
RevokeMidBatch(m, p) ==
    /\ m \in enrolled
    /\ pc[m] \in Idle \cup Blocked
    /\ p \in assigned[m]
    /\ Churn
    /\ assigned' = [assigned EXCEPT ![m] = @ \ {p}]
    /\ forget(m, {p})
    /\ UNCHANGED <<brokerVars, enrolled, pc, signalled, cursor, paused, deadline,
                   batchVars, worldVars, discarded>>

\* OnPartitionsRevoked.
Revoke(m, p) ==
    /\ m \in enrolled
    /\ MayRebalance(m)
    /\ p \in assigned[m]
    /\ Churn
    /\ assigned' = [assigned EXCEPT ![m] = @ \ {p}]
    /\ forget(m, {p})
    /\ UNCHANGED <<brokerVars, enrolled, pc, signalled, cursor, paused, deadline,
                   batchVars, worldVars, discarded>>

\* The session of a dead member times out, or a live one is dropped for a
\* heartbeat the broker did not get. The live one does not know it yet.
Evict(m) ==
    /\ m \in enrolled
    /\ enrolled' = enrolled \ {m}
    /\ IF pc[m] = "down"
         THEN assigned' = [assigned EXCEPT ![m] = {}] /\ UNCHANGED boundVars
         ELSE Fault /\ UNCHANGED assigned
    /\ UNCHANGED <<brokerVars, pc, signalled, cursor, paused, waiting, deadline,
                   batchVars, worldVars, discarded>>

\* Mutant: the lost callback is not wrapped in forget.
LostKeepsWaiting(m) ==
    /\ m \notin enrolled
    /\ MayRebalance(m)
    /\ enrolled' = enrolled \cup {m}
    /\ assigned' = [assigned EXCEPT ![m] = {}]
    /\ UNCHANGED <<brokerVars, pc, signalled, cursor, paused, waiting, deadline, batchVars,
                   worldVars, discarded, boundVars>>

\* OnPartitionsLost, and the client joins again.
Lost(m) ==
    /\ m \notin enrolled
    /\ MayRebalance(m)
    /\ enrolled' = enrolled \cup {m}
    /\ assigned' = [assigned EXCEPT ![m] = {}]
    /\ forget(m, assigned[m])
    /\ UNCHANGED <<brokerVars, pc, signalled, cursor, paused, deadline, batchVars,
                   worldVars, discarded, boundVars>>

-----------------------------------------------------------------------------
(* Run: one round is resumeRipe, pollDeadline, PollRecords, and a batch.     *)

resumeRipe(m) ==
    LET ready == {p \in Partitions : waiting[m][p] # 0 /\ waiting[m][p] <= clock}
    IN  /\ pc[m] = "resume"
        /\ pc' = [pc EXCEPT ![m] = "deadline"]
        /\ forget(m, ready)
        /\ paused' = [paused EXCEPT ![m] = @ \ ready]
        /\ UNCHANGED <<brokerVars, enrolled, signalled, assigned, cursor, deadline,
                       batchVars, worldVars, discarded, boundVars>>

\* The partitions that ripen first.
Soonest(m) ==
    {p \in Partitions :
        /\ waiting[m][p] # 0
        /\ \A q \in Partitions : waiting[m][q] # 0 => waiting[m][p] <= waiting[m][q]}

\* Mutant: every poll is unbounded.
PollForever(m) ==
    /\ pc[m] = "deadline"
    /\ pc' = [pc EXCEPT ![m] = "poll"]
    /\ deadline' = [deadline EXCEPT ![m] = 0]
    /\ UNCHANGED <<brokerVars, enrolled, signalled, clientVars, batchVars, worldVars,
                   discarded, boundVars>>

\* The poll is bounded by the soonest of waiting, if any. The floor of ten
\* milliseconds is below the tick of this clock.
pollDeadline(m) ==
    /\ pc[m] = "deadline"
    /\ pc' = [pc EXCEPT ![m] = "poll"]
    /\ \/ /\ \A p \in Partitions : waiting[m][p] = 0
          /\ deadline' = [deadline EXCEPT ![m] = 0]
       \/ \E p \in Soonest(m) : deadline' = [deadline EXCEPT ![m] = waiting[m][p]]
    /\ UNCHANGED <<brokerVars, enrolled, signalled, clientVars, batchVars, worldVars,
                   discarded, boundVars>>

Between(p, lo, hi) == {<<p, o>> : o \in lo..(hi - 1)}

Fetchable(m) == {p \in assigned[m] \ paused[m] : cursor[m][p] < Len(log[p])}

\* What PollRecords may return, as the cursor it leaves behind: at least one
\* record, from any of the fetchable partitions, each one's in order.
Fetches(m) ==
    {hi \in [Partitions -> 0..LogSize] :
        /\ \A p \in Partitions :
              IF p \in Fetchable(m) THEN cursor[m][p] <= hi[p] /\ hi[p] <= Len(log[p])
                                    ELSE hi[p] = cursor[m][p]
        /\ hi # cursor[m]}

\* Mutant: the test does not ask whether the context itself has ended.
BoundLooksExpired(m) == deadline[m] # 0

\* After cancel() a bounded pollCtx has an error whatever PollRecords returned,
\* so the test below it is a test for "the poll was bounded, and no shutdown".
PollLooksExpired(m) == deadline[m] # 0 /\ m \notin signalled

\* PollRecords returned records, and blocks rebalances. The continue of an expired
\* poll calls AllowRebalance on its way; a batch defers the call to its end.
Poll(m) ==
    /\ pc[m] = "poll"
    /\ \E hi \in Fetches(m) :
         /\ cursor' = [cursor EXCEPT ![m] = hi]
         /\ IF PollLooksExpired(m)
              THEN /\ pc' = [pc EXCEPT ![m] = "resume"]
                   /\ discarded' = discarded \cup
                        UNION {Between(p, cursor[m][p], hi[p]) : p \in Partitions}
                   /\ UNCHANGED batchVars
              ELSE /\ pc' = [pc EXCEPT ![m] = "batch"]
                   /\ from' = [from EXCEPT ![m] = cursor[m]]
                   /\ at' = [at EXCEPT ![m] = cursor[m]]
                   /\ upto' = [upto EXCEPT ![m] = hi]
                   /\ blocking' = blocking \cup {m}
                   /\ UNCHANGED <<stop, discarded>>
    /\ deadline' = [deadline EXCEPT ![m] = 0]
    /\ UNCHANGED <<brokerVars, enrolled, signalled, assigned, paused, waiting,
                   worldVars, boundVars>>

\* PollRecords returned no record: the deadline passed, the context ended, or the
\* fetch failed, of which process only logs a line. The loop goes round after a
\* poll that looks expired; else the empty batch commits nothing and ends it if the
\* context has ended. Both call AllowRebalance.
PollEmpty(m) ==
    /\ pc[m] = "poll"
    /\ \/ m \in signalled /\ UNCHANGED boundVars
       \/ deadline[m] # 0 /\ deadline[m] <= clock /\ UNCHANGED boundVars
       \/ Fault
    /\ pc' = [pc EXCEPT ![m] = IF m \in signalled /\ ~PollLooksExpired(m)
                              THEN "closing" ELSE "resume"]
    /\ deadline' = [deadline EXCEPT ![m] = 0]
    /\ UNCHANGED <<brokerVars, enrolled, signalled, clientVars, batchVars, worldVars,
                   discarded>>

-----------------------------------------------------------------------------
(* process: the batch, one record at a time.                                *)

\* RecordIter walks the partitions one after another: p can be the current one
\* when every other is still untouched or already finished.
Current(m, p) ==
    /\ pc[m] = "batch"
    /\ at[m][p] < upto[m][p]
    /\ \A q \in Partitions \ {p} : at[m][q] \in {from[m][q], upto[m][q]}

\* Mutant: a record ripens a tick early.
RipeEarly(p, o) == Delay = 0 \/ log[p][o + 1] + Delay <= clock + 1

ripe(p, o) == Delay = 0 \/ log[p][o + 1] + Delay <= clock

\* Mutant: the partition is paused and the offset is not set back.
HoldWithoutSeek(m, p) ==
    /\ Current(m, p)
    /\ ~ripe(p, at[m][p])
    /\ paused' = [paused EXCEPT ![m] = @ \cup {p}]
    /\ waiting' = [waiting EXCEPT ![m][p] = log[p][at[m][p] + 1] + Delay]
    /\ upto' = [upto EXCEPT ![m][p] = at[m][p]]
    /\ UNCHANGED <<brokerVars, enrolled, pc, signalled, assigned, cursor, deadline, from,
                   at, stop, blocking, worldVars, discarded, boundVars>>

\* The record is too young: seek back to it, pause, remember when it ripens,
\* and skip the rest of the partition.
hold(m, p) ==
    /\ Current(m, p)
    /\ ~ripe(p, at[m][p])
    /\ cursor' = [cursor EXCEPT ![m][p] = at[m][p]]
    /\ paused' = [paused EXCEPT ![m] = @ \cup {p}]
    /\ waiting' = [waiting EXCEPT ![m][p] = log[p][at[m][p] + 1] + Delay]
    /\ upto' = [upto EXCEPT ![m][p] = at[m][p]]
    /\ UNCHANGED <<brokerVars, enrolled, pc, signalled, assigned, deadline, from, at,
                   stop, blocking, worldVars, discarded, boundVars>>

Record(m, p) == <<p, at[m][p]>>

\* The record joins the batch's acked list.
Acknowledge(m, p) ==
    /\ at' = [at EXCEPT ![m][p] = @ + 1]
    /\ acked' = acked \cup {Record(m, p)}
    /\ redone' = redone \cup (acked \cap {Record(m, p)})

\* one, the Done branch: the handler's transaction has committed.
Done(m, p) ==
    /\ Current(m, p)
    /\ ripe(p, at[m][p])
    /\ rows' = rows \cup {Record(m, p)}
    /\ Acknowledge(m, p)
    /\ UNCHANGED <<brokerVars, enrolled, pc, signalled, clientVars, deadline, from, upto,
                   stop, blocking, sunk, discarded, boundVars>>

\* one, Retry or Poison: Forward has the destination's acknowledgement. A Retry
\* may be about a transaction that committed and whose answer was lost.
Forward(m, p) ==
    /\ HasSink
    /\ Current(m, p)
    /\ ripe(p, at[m][p])
    /\ sunk' = sunk \cup {Record(m, p)}
    /\ \/ UNCHANGED <<rows, boundVars>>
       \/ rows' = rows \cup {Record(m, p)} /\ Fault
    /\ Acknowledge(m, p)
    /\ UNCHANGED <<brokerVars, enrolled, pc, signalled, clientVars, deadline, from, upto,
                   stop, blocking, discarded>>

\* one returned an error: Fatal, Unknown, no sink, or a Forward that failed.
\* After a signal any call may fail on the cancelled context. The write or the
\* produce whose answer was lost may have happened.
Refuse(m, p) ==
    /\ Current(m, p)
    /\ ripe(p, at[m][p])
    /\ IF m \in signalled THEN UNCHANGED boundVars ELSE Fault
    /\ rows' \in {rows, rows \cup {Record(m, p)}}
    /\ sunk' \in {sunk} \cup (IF HasSink THEN {sunk \cup {Record(m, p)}} ELSE {})
    /\ stop' = stop \cup {m}
    /\ pc' = [pc EXCEPT ![m] = "commit"]
    /\ UNCHANGED <<brokerVars, enrolled, signalled, clientVars, deadline, from, at, upto,
                   blocking, acked, redone, discarded>>

EndOfBatch(m) ==
    /\ pc[m] = "batch"
    /\ at[m] = upto[m]
    /\ pc' = [pc EXCEPT ![m] = "commit"]
    /\ UNCHANGED <<brokerVars, enrolled, signalled, clientVars, deadline, batchVars,
                   worldVars, discarded, boundVars>>

-----------------------------------------------------------------------------
(* commit, and the end of batch.                                            *)

Acked(m) == {p \in Partitions : from[m][p] < at[m][p]}

\* Mutants: commit what was fetched, one past the last acked, the last acked.
CommitFetched(m) == [p \in Partitions |-> IF p \in Acked(m) THEN upto[m][p] ELSE committed[p]]
CommitPastLast(m) == [p \in Partitions |-> IF p \in Acked(m) THEN at[m][p] + 1 ELSE committed[p]]
CommitLast(m) == [p \in Partitions |-> IF p \in Acked(m) THEN at[m][p] - 1 ELSE committed[p]]

\* CommitRecords: the offset after the last acked record of each partition.
CommitRecords(m) == [p \in Partitions |-> IF p \in Acked(m) THEN at[m][p] ELSE committed[p]]

\* Nothing is left of the batch but the call it has deferred: AllowRebalance.
EndBatch(m) ==
    /\ blocking' = blocking \ {m}
    /\ from' = [from EXCEPT ![m] = Zeroes]
    /\ at' = [at EXCEPT ![m] = Zeroes]
    /\ upto' = [upto EXCEPT ![m] = Zeroes]
    /\ stop' = stop \ {m}

\* The hook agreed and the commit was answered, or there was nothing to commit.
\* Only then is the context looked at, on a context the shutdown cannot cancel.
commit(m) ==
    /\ pc[m] = "commit"
    /\ m \in enrolled \/ Acked(m) = {}
    /\ committed' = CommitRecords(m)
    /\ pc' = [pc EXCEPT ![m] = IF m \in stop \/ m \in signalled THEN "closing" ELSE "resume"]
    /\ EndBatch(m)
    /\ UNCHANGED <<clock, log, enrolled, signalled, clientVars, deadline, worldVars,
                   discarded, boundVars>>

\* Mutant: the commit runs on Run's context, which the signal has cancelled.
CommitFailsOnSignal(m) ==
    /\ pc[m] = "commit"
    /\ Acked(m) # {}
    /\ \/ (m \notin enrolled \/ m \in signalled) /\ UNCHANGED <<committed, boundVars>>
       \/ m \in enrolled /\ Fault /\ committed' \in {committed, CommitRecords(m)}
    /\ pc' = [pc EXCEPT ![m] = "closing"]
    /\ EndBatch(m)
    /\ UNCHANGED <<clock, log, enrolled, signalled, clientVars, deadline, worldVars,
                   discarded>>

\* The hook refused, the group does not know the member, or the request failed
\* on the way there or on the way back.
CommitFails(m) ==
    /\ pc[m] = "commit"
    /\ Acked(m) # {}
    /\ \/ m \notin enrolled /\ UNCHANGED <<committed, boundVars>>
       \/ m \in enrolled /\ Fault /\ committed' \in {committed, CommitRecords(m)}
    /\ pc' = [pc EXCEPT ![m] = "closing"]
    /\ EndBatch(m)
    /\ UNCHANGED <<clock, log, enrolled, signalled, clientVars, deadline, worldVars,
                   discarded>>

\* Mutant: a panic unwinds past an AllowRebalance that is not deferred.
PanicSkipsAllow(m) ==
    /\ pc[m] \in Blocked
    /\ Fault
    /\ pc' = [pc EXCEPT ![m] = "closing"]
    /\ from' = [from EXCEPT ![m] = Zeroes]
    /\ at' = [at EXCEPT ![m] = Zeroes]
    /\ upto' = [upto EXCEPT ![m] = Zeroes]
    /\ stop' = stop \ {m}
    /\ UNCHANGED <<brokerVars, enrolled, signalled, clientVars, deadline, blocking,
                   worldVars, discarded>>

\* A panic in the decoder, the handler, the Sink or the hook: nothing is
\* committed, and the deferred calls run while it unwinds, Close the last.
Panic(m) ==
    /\ pc[m] \in Blocked
    /\ Fault
    /\ pc' = [pc EXCEPT ![m] = "closing"]
    /\ EndBatch(m)
    /\ UNCHANGED <<brokerVars, enrolled, signalled, clientVars, deadline, worldVars,
                   discarded>>

-----------------------------------------------------------------------------

Run(m) ==
    \/ resumeRipe(m) \/ pollDeadline(m) \/ Poll(m) \/ PollEmpty(m)
    \/ \E p \in Partitions : hold(m, p) \/ Done(m, p) \/ Forward(m, p) \/ Refuse(m, p)
    \/ EndOfBatch(m) \/ commit(m) \/ CommitFails(m) \/ Close(m)

Next ==
    \/ Tick
    \/ \E p \in Partitions : Produce(p)
    \/ \E m \in Members :
         \/ Run(m) \/ Start(m) \/ Crash(m) \/ Panic(m) \/ Signal(m) \/ Evict(m) \/ Lost(m)
         \/ \E p \in Partitions : Assign(m, p) \/ Revoke(m, p)

Spec == Init /\ [][Next]_vars

\* A running loop takes its next step; the supervisor restarts a process that
\* ended; the coordinator drops dead members, readmits live ones and gives a
\* free partition to a member that is ready again and again; time passes.
\* Producers, faults, signals and revocations owe nothing.
Fairness ==
    /\ WF_vars(Tick)
    /\ \A m \in Members :
         /\ WF_vars(Run(m))
         /\ WF_vars(Start(m))
         /\ WF_vars(Evict(m) /\ pc[m] = "down")
         /\ WF_vars(Lost(m))
    /\ \A p \in Partitions : SF_vars(\E m \in Members : Assign(m, p))

FairSpec == Spec /\ Fairness

-----------------------------------------------------------------------------
(* Properties.                                                              *)

Records == Partitions \X (0..LogSize - 1)

BrokerType ==
    /\ clock \in 0..MaxClock
    /\ log \in [Partitions -> Seq(0..MaxClock)]
    /\ \A p \in Partitions : Len(log[p]) <= LogSize
    /\ committed \in [Partitions -> 0..LogSize]
    /\ enrolled \subseteq Members
    /\ faults \in 0..MaxFaults
    /\ churn \in 0..MaxChurn

MemberType ==
    /\ pc \in [Members -> Running \cup {"down"}]
    /\ signalled \subseteq Members
    /\ assigned \in [Members -> SUBSET Partitions]
    /\ cursor \in [Members -> [Partitions -> 0..LogSize]]
    /\ paused \in [Members -> SUBSET Partitions]
    /\ waiting \in [Members -> [Partitions -> 0..(MaxClock + Delay)]]
    /\ deadline \in [Members -> 0..(MaxClock + Delay)]

BatchType ==
    /\ from \in [Members -> [Partitions -> 0..LogSize]]
    /\ at \in [Members -> [Partitions -> 0..LogSize]]
    /\ upto \in [Members -> [Partitions -> 0..LogSize]]
    /\ stop \subseteq Members
    /\ blocking \subseteq Members

WorldType ==
    /\ rows \subseteq Records
    /\ sunk \subseteq Records
    /\ acked \subseteq Records
    /\ redone \subseteq Records
    /\ discarded \subseteq Records

TypeOK == BrokerType /\ MemberType /\ BatchType /\ WorldType

Committed == UNION {Between(p, 0, committed[p]) : p \in Partitions}

\* Every record below a committed offset has its row or its place on another
\* topic, whatever crashed, was revoked or failed on the way: package comment,
\* "committing offsets ... only for the records it has accounted for".
NoLoss == Committed \subseteq rows \cup sunk

\* The group as a queue: a record is settled when it has its row or an
\* acknowledgement, given up when a bounded poll threw it away, and released when
\* the group's offset is past it.
Queue == INSTANCE AtLeastOnce WITH
    settled <- rows \cup sunk, forsaken <- discarded, released <- committed

\* However members come, go, hold and fail, the group is an at-least-once queue:
\* no record is handled before its time ("nothing is skipped or delivered early"),
\* none for the first time before the one in front of it, and the offset passes
\* only what is handled.
ImplementsAtLeastOnce == Queue!Spec

\* The same with the records a bounded poll threw away set apart: nothing else
\* in the loop (hold, seek, early return, takeover) ever skips a record.
OnlyDiscardsLose == Committed \subseteq rows \cup sunk \cup discarded

\* No member, late, evicted or restarted, takes the group's offset back.
CommitNeverGoesBack ==
    [][\A p \in Partitions : committed[p] <= committed'[p]]_vars

\* Shutdowns, rolling restarts and rebalances alone never have an acked record
\* handled again: the commit does not run on the context a signal cancels.
NoRedeliveryWithoutFault == faults = 0 => redone = {}

\* BlockRebalanceOnPoll: a partition in one live member's batch is in no other's.
ExclusiveBatch ==
    \A m, n \in enrolled, p \in Partitions :
        m # n /\ from[m][p] < upto[m][p] => from[n][p] = upto[n][p]

\* A partition in waiting is one the member holds, paused, and seeked to exactly
\* the record whose ripening it waits for: hold skips nothing and forget leaves
\* no stale deadline.
WaitingIsForTheCursor ==
    \A m \in enrolled, p \in Partitions :
        waiting[m][p] # 0 =>
            /\ p \in assigned[m] \cap paused[m]
            /\ cursor[m][p] < Len(log[p])
            /\ waiting[m][p] = log[p][cursor[m][p] + 1] + Delay

\* The record exists, and ripens before the clock's bound.
WillRipen(p, o) == o < Len(log[p]) /\ log[p][o + 1] + Delay <= MaxClock

\* Every record produced that ripens is in the end accounted for and committed.
EventuallyAccounted ==
    \A p \in Partitions : \A o \in 0..LogSize - 1 :
        WillRipen(p, o) ~> (o < committed[p])

\* The same for a delay topic, with the two ways it fails set apart: the record
\* was in a discarded poll, or its partition came back to a member that had
\* paused it and no longer waits for it. Otherwise every hold ends: again and
\* again no other record is open that could have ripened.
AccountedUnlessStranded ==
    []<>(\A p \in Partitions : \A o \in 0..LogSize - 1 :
            WillRipen(p, o) =>
                \/ o < committed[p]
                \/ <<p, o>> \in discarded
                \/ \E m \in enrolled :
                      p \in assigned[m] \cap paused[m] /\ waiting[m][p] = 0)

\* A signal ends the process from wherever the loop is: in a batch, in a poll
\* without a bound, or in one bounded by a held partition, which it does not wait
\* out. A process that stops on its own, on an error or a panic, ends as well:
\* Close never waits for a rebalance that no path has allowed ("and Close waits
\* for it").
ShutdownEnds ==
    \A m \in Members : m \in signalled \/ pc[m] = "closing" ~> pc[m] = "down"

=============================================================================
