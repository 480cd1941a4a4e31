------------------------- MODULE ConsumerRefinement -------------------------
(***************************************************************************)
(* The consumer group implements AtLeastOnce, for every set of members and  *)
(* partitions, every delay and every bound: the initial state maps to the   *)
(* queue's, and from a state of the inductive invariant every step of the   *)
(* group is a step of the queue or leaves it as it is.                      *)
(***************************************************************************)
EXTENDS ConsumerProofs

\* No record is younger than the clock, so that with no delay every one is ripe.
Stamped == \A p \in Partitions : \A i \in 1..Len(log[p]) : log[p][i] <= clock

\* Apart from time and the producers nothing touches the clock or the log.
LEMMA ClockAndLogStep ==
    ASSUME [Next]_vars
    PROVE  \/ Tick
           \/ \E p \in Partitions : Produce(p)
           \/ UNCHANGED <<clock, log>>
<1> USE DEF brokerVars, vars
<1>1. ASSUME NEW m \in Members, Run(m) PROVE UNCHANGED <<clock, log>>
  BY <1>1 DEF Run, resumeRipe, pollDeadline, Poll, PollEmpty, hold, Done, Forward, Refuse,
     EndOfBatch, commit, CommitFails, Close
<1>2. ASSUME NEW m \in Members,
             Start(m) \/ Crash(m) \/ Panic(m) \/ Signal(m) \/ Evict(m) \/ Lost(m)
      PROVE  UNCHANGED <<clock, log>>
  BY <1>2 DEF Start, Crash, Panic, Signal, Evict, Lost
<1>3. ASSUME NEW m \in Members, NEW p \in Partitions, Assign(m, p) \/ Revoke(m, p)
      PROVE  UNCHANGED <<clock, log>>
  BY <1>3 DEF Assign, Revoke
<1>4. QED
  BY <1>1, <1>2, <1>3 DEF Next

\* A record is stamped with the clock it is produced at, and the clock only advances.
LEMMA StampedStep ==
    ASSUME TypeOK, Stamped, [Next]_vars
    PROVE  Stamped'
<1>1. clock \in Nat /\ \A p \in Partitions : log[p] \in Seq(0..MaxClock)
  BY ConsumerConstants DEF TypeOK, BrokerType
<1>2. \A p \in Partitions : \A i \in 1..Len(log[p]) : log[p][i] \in Nat
  BY <1>1, ConsumerConstants, ElementOfSeq
<1>3. CASE Tick
  <2>1. clock' = clock + 1 /\ log' = log
    BY <1>3 DEF Tick
  <2>2. ASSUME NEW p \in Partitions, NEW i \in 1..Len(log[p]) PROVE log[p][i] <= clock'
    <3>1. log[p][i] \in Nat /\ log[p][i] <= clock
      BY <1>2 DEF Stamped
    <3>2. QED
      BY <1>1, <2>1, <3>1
  <2>3. QED
    BY <2>1, <2>2 DEF Stamped
<1>4. ASSUME NEW p \in Partitions, Produce(p) PROVE Stamped'
  <2>1. log' = [log EXCEPT ![p] = Append(@, clock)] /\ clock' = clock
    BY <1>4 DEF Produce
  <2>2. log \in [Partitions -> Seq(0..MaxClock)]
    BY DEF TypeOK, BrokerType
  <2>3. ASSUME NEW q \in Partitions, NEW i \in 1..Len(log'[q]) PROVE log'[q][i] <= clock
    <3>1. CASE q # p
      BY <2>1, <2>2, <2>3, <3>1 DEF Stamped
    <3>2. CASE q = p
      <4>1. log'[p] = Append(log[p], clock)
        BY <2>1, <2>2
      <4>2. clock \in 0..MaxClock /\ log[p] \in Seq(0..MaxClock)
        BY DEF TypeOK, BrokerType
      <4>3. Len(log'[p]) = Len(log[p]) + 1 /\ Len(log[p]) \in Nat
        BY <4>1, <4>2
      <4>4. CASE i = Len(log[p]) + 1
        BY <3>2, <4>1, <4>2, <4>4, <1>1
      <4>5. CASE i \in 1..Len(log[p])
        <5>1. log'[p][i] = log[p][i]
          BY <4>1, <4>2, <4>5
        <5>2. QED
          BY <3>2, <4>5, <5>1 DEF Stamped
      <4>6. QED
        BY <2>3, <3>2, <4>3, <4>4, <4>5
    <3>3. QED
      BY <3>1, <3>2
  <2>4. QED
    BY <2>1, <2>3 DEF Stamped
<1>5. CASE UNCHANGED <<clock, log>>
  BY <1>5 DEF Stamped
<1>6. QED
  BY <1>3, <1>4, <1>5, ClockAndLogStep

\* Hence every timestamp is always in the past.
LEMMA StampedAlways == Spec => []Stamped
<1>1. Init => Stamped
  BY DEF Init, Stamped
<1>2. Inv /\ Stamped /\ [Next]_vars => Stamped'
  BY StampedStep DEF Inv
<1>3. QED
  BY <1>1, <1>2, Invariance, PTL DEF Spec

\* The record under a batch's hand is ripe by the queue's reckoning, and
\* everything before it has been handled or given up.
LEMMA CurrentMaySettle ==
    ASSUME Inv, Stamped, NEW m \in Members, NEW p \in Partitions, Current(m, p),
           ripe(p, at[m][p])
    PROVE  /\ at[m][p] \in 0..(Len(log[p]) - 1)
           /\ at[m][p] < Len(log[p])
           /\ log[p][at[m][p] + 1] + Delay <= clock
           /\ Queue!Before(p, at[m][p]) \subseteq (rows \cup sunk) \cup discarded
<1>1. /\ at[m][p] \in 0..LogSize - 1
      /\ at[m][p] + 1 \in 1..Len(log[p])
      /\ log[p][at[m][p] + 1] \in 0..MaxClock
      /\ Len(log[p]) \in Nat
  BY CurrentInBatch DEF Inv, TypeOK, BrokerType
<1>2. log[p][at[m][p] + 1] + Delay <= clock
  <2>1. log[p][at[m][p] + 1] <= clock
    BY <1>1 DEF Stamped
  <2>2. QED
    BY <1>1, <2>1, ConsumerConstants DEF ripe
<1>3. p \in assigned[m] /\ pc[m] \in Blocked
  <2>1. at[m][p] < upto[m][p] /\ pc[m] = "batch"
    BY DEF Current
  <2>2. from[m][p] <= at[m][p]
    BY DEF Inv, BatchShape, ShapeOf
  <2>3. from[m][p] \in Nat /\ at[m][p] \in Nat /\ upto[m][p] \in Nat
    BY ConsumerConstants DEF Inv, TypeOK, BatchType
  <2>4. from[m][p] < upto[m][p]
    BY <2>1, <2>2, <2>3
  <2>5. QED
    BY <2>1, <2>4, InBatchIsAssigned DEF Inv, Blocked
<1>4. \A o \in Nat : o < at[m][p] => <<p, o>> \in AccountedFor
  BY <1>3 DEF Inv, Accounting
<1>5. \A o \in 0..(at[m][p] - 1) : <<p, o>> \in AccountedFor
  BY <1>1, <1>4
<1>6. Queue!Before(p, at[m][p]) \subseteq (rows \cup sunk) \cup discarded
  BY <1>5 DEF Queue!Before, AccountedFor
<1>7. QED
  BY <1>1, <1>2, <1>6

\* Handling a record settles it, or is about one that was settled before.
LEMMA HandlingSettles ==
    ASSUME Inv, Stamped, NEW m \in Members, NEW p \in Partitions,
           Done(m, p) \/ Forward(m, p) \/ Refuse(m, p)
    PROVE  [Queue!Next]_(Queue!vars)
<1>1. Current(m, p) /\ ripe(p, at[m][p])
  BY DEF Done, Forward, Refuse
<1>2. UNCHANGED <<clock, log, committed, discarded>>
  BY DEF Done, Forward, Refuse, brokerVars
<1>3. (rows \cup sunk)' \in {rows \cup sunk, (rows \cup sunk) \cup {<<p, at[m][p]>>}}
  BY DEF Done, Forward, Refuse, Record
<1>4. CASE (rows \cup sunk)' = rows \cup sunk
  BY <1>2, <1>4 DEF Queue!vars
<1>5. CASE (rows \cup sunk)' = (rows \cup sunk) \cup {<<p, at[m][p]>>}
  <2>1. Queue!Settle(p, at[m][p])
    BY <1>1, <1>2, <1>5, CurrentMaySettle DEF Queue!Settle
  <2>2. at[m][p] \in 0..(Len(log[p]) - 1)
    BY <1>1, CurrentMaySettle
  <2>3. QED
    BY <2>1, <2>2 DEF Queue!Next
<1>6. QED
  BY <1>3, <1>4, <1>5

\* A poll gives up nothing, or the records right behind what was handled, and that
\* only on a delay topic.
LEMMA PollingForsakes ==
    ASSUME Inv, NEW m \in Members, Poll(m)
    PROVE  [Queue!Next]_(Queue!vars)
<1>1. UNCHANGED <<clock, log, committed, rows, sunk>>
  BY DEF Poll, brokerVars, worldVars
<1>2. PICK hi \in Fetches(m) :
        IF PollLooksExpired(m)
          THEN discarded' = discarded \cup
                 UNION {Between(p, cursor[m][p], hi[p]) : p \in Partitions}
          ELSE discarded' = discarded
  BY DEF Poll
<1>3. CASE ~PollLooksExpired(m)
  BY <1>1, <1>2, <1>3 DEF Queue!vars
<1>4. CASE PollLooksExpired(m)
  <2>1. Delay > 0
    <3>1. Delay # 0
      BY <1>4 DEF Inv, NothingHeld, PollLooksExpired
    <3>2. QED
      BY <3>1, ConsumerConstants
  <2>2. ASSUME NEW r \in discarded' \ discarded
        PROVE  Queue!Before(r[1], r[2]) \subseteq (rows \cup sunk) \cup discarded'
    <3>1. PICK p \in Partitions : r \in Between(p, cursor[m][p], hi[p])
      BY <1>2, <1>4, <2>2
    <3>2. PICK o \in cursor[m][p]..(hi[p] - 1) : r = <<p, o>>
      BY <3>1 DEF Between
    <3>3. cursor[m][p] \in Nat /\ hi[p] \in Nat /\ o \in Nat /\ cursor[m][p] < hi[p]
      BY <3>2, ConsumerConstants DEF Inv, TypeOK, MemberType, Fetches
    <3>4. p \in assigned[m] /\ pc[m] \in Idle
      BY <3>3 DEF Fetches, Fetchable, Poll, Idle
    <3>5. \A i \in Nat : i < cursor[m][p] => <<p, i>> \in AccountedFor
      BY <3>4 DEF Inv, Accounting
    <3>6. ASSUME NEW i \in 0..(o - 1) PROVE <<p, i>> \in (rows \cup sunk) \cup discarded'
      <4>1. CASE i < cursor[m][p]
        BY <1>2, <1>4, <3>5, <4>1 DEF AccountedFor
      <4>2. CASE i >= cursor[m][p]
        <5>1. i \in cursor[m][p]..(hi[p] - 1)
          BY <3>2, <3>3, <4>2
        <5>2. <<p, i>> \in Between(p, cursor[m][p], hi[p])
          BY <5>1 DEF Between
        <5>3. QED
          BY <1>2, <1>4, <5>2
      <4>3. QED
        BY <3>3, <4>1, <4>2
    <3>7. QED
      BY <3>2, <3>6 DEF Queue!Before
  <2>3. discarded \subseteq discarded'
    BY <1>2, <1>4
  <2>4. Queue!Forsake
    BY <1>1, <2>1, <2>2, <2>3 DEF Queue!Forsake
  <2>5. QED
    BY <2>4 DEF Queue!Next
<1>5. QED
  BY <1>3, <1>4

\* A commit releases what the batch handled; a late or refused one releases nothing.
LEMMA CommittingReleases ==
    ASSUME Inv, Inv', NEW m \in Members, commit(m) \/ CommitFails(m)
    PROVE  [Queue!Next]_(Queue!vars)
<1>1. UNCHANGED <<clock, log, rows, sunk, discarded>>
  BY DEF commit, CommitFails, worldVars
<1>2. committed' = committed \/ (m \in enrolled /\ pc[m] = "commit" /\ committed' = CommitRecords(m))
  <2>1. Acked(m) = {} => CommitRecords(m) = committed
    BY DEF Inv, TypeOK, BrokerType, CommitRecords
  <2>2. QED
    BY <2>1 DEF commit, CommitFails
<1>3. CASE committed' = committed
  BY <1>1, <1>3 DEF Queue!vars
<1>4. CASE m \in enrolled /\ pc[m] = "commit" /\ committed' = CommitRecords(m)
  <2>1. committed' \in [Partitions -> Nat]
    BY ConsumerConstants DEF Inv, TypeOK, BrokerType
  <2>2. ASSUME NEW p \in Partitions
        PROVE  /\ committed[p] <= committed'[p]
               /\ committed'[p] <= Len(log[p])
               /\ Queue!Before(p, committed'[p]) \subseteq (rows \cup sunk) \cup discarded
    <3>1. committed[p] <= committed'[p]
      BY <1>4, CommitRecordsGrows DEF Inv
    <3>2. committed'[p] <= Len(log[p])
      BY <1>1 DEF Inv, WithinLog
    <3>3. \A o \in Nat : o < committed'[p] => <<p, o>> \in AccountedFor'
      BY DEF Inv, Accounting
    <3>4. \A o \in 0..(committed'[p] - 1) : <<p, o>> \in (rows \cup sunk) \cup discarded
      BY <1>1, <2>1, <3>3 DEF AccountedFor
    <3>5. QED
      BY <3>1, <3>2, <3>4 DEF Queue!Before
  <2>3. Queue!Release
    BY <1>1, <2>1, <2>2 DEF Queue!Release
  <2>4. QED
    BY <2>3 DEF Queue!Next
<1>5. QED
  BY <1>2, <1>3, <1>4

\* Every step of the group is a step of the queue, or none.
LEMMA StepSimulates ==
    ASSUME Inv, Inv', Stamped, [Next]_vars
    PROVE  [Queue!Next]_(Queue!vars)
<1>1. CASE Tick
  BY <1>1 DEF Tick, worldVars, Queue!Next, Queue!TimePasses
<1>2. ASSUME NEW p \in Partitions, Produce(p) PROVE [Queue!Next]_(Queue!vars)
  <2>1. Queue!Arrive(p)
    BY <1>2 DEF Produce, worldVars, Queue!Arrive
  <2>2. QED
    BY <2>1 DEF Queue!Next
<1>3. CASE UNCHANGED <<clock, log, committed, rows, sunk, discarded>>
  BY <1>3 DEF Queue!vars
<1>4. ASSUME NEW m \in Members, Run(m) PROVE [Queue!Next]_(Queue!vars)
  <2>1. CASE \E p \in Partitions : Done(m, p) \/ Forward(m, p) \/ Refuse(m, p)
    BY <2>1, HandlingSettles
  <2>2. CASE Poll(m)
    BY <2>2, PollingForsakes
  <2>3. CASE commit(m) \/ CommitFails(m)
    BY <2>3, CommittingReleases
  <2>4. CASE resumeRipe(m) \/ pollDeadline(m) \/ PollEmpty(m) \/ EndOfBatch(m) \/ Close(m)
             \/ \E p \in Partitions : hold(m, p)
    BY <1>3, <2>4 DEF resumeRipe, pollDeadline, PollEmpty, EndOfBatch, Close, hold,
       brokerVars, worldVars
  <2>5. QED
    BY <1>4, <2>1, <2>2, <2>3, <2>4 DEF Run
<1>5. ASSUME NEW m \in Members,
             Start(m) \/ Crash(m) \/ Panic(m) \/ Signal(m) \/ Evict(m) \/ Lost(m)
      PROVE  [Queue!Next]_(Queue!vars)
  BY <1>3, <1>5 DEF Start, Crash, Panic, Signal, Evict, Lost, brokerVars, worldVars
<1>6. ASSUME NEW m \in Members, NEW p \in Partitions, Assign(m, p) \/ Revoke(m, p)
      PROVE  [Queue!Next]_(Queue!vars)
  BY <1>3, <1>6 DEF Assign, Revoke, brokerVars, worldVars
<1>7. CASE UNCHANGED vars
  BY <1>3, <1>7 DEF vars
<1>8. QED
  BY <1>1, <1>2, <1>4, <1>5, <1>6, <1>7 DEF Next

\* Run, batch, process, hold and commit, by any number of members, with any number
\* of crashes, panics, evictions, rebalances and lost answers, implement an at-least-once
\* queue that delivers in order and never early, and that gives up records on a
\* delay topic only.
THEOREM GroupIsAtLeastOnce == Spec => ImplementsAtLeastOnce
<1>1. Init => Queue!Init
  BY DEF Init, Zeroes, Queue!Init
<1>2. Inv /\ Inv' /\ Stamped /\ [Next]_vars => [Queue!Next]_(Queue!vars)
  BY StepSimulates
<1>3. QED
  BY <1>1, <1>2, Invariance, StampedAlways, PTL DEF Spec, ImplementsAtLeastOnce, Queue!Spec

=============================================================================
