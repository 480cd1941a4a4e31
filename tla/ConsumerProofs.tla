--------------------------- MODULE ConsumerProofs ---------------------------
(***************************************************************************)
(* Proofs about Consumer for every set of members and partitions, every     *)
(* delay and every bound.  The inductive invariant Inv says what a member   *)
(* knows at each point of its loop: before a poll everything below its      *)
(* cursor is accounted for; inside a batch everything below at is.          *)
(***************************************************************************)
EXTENDS Consumer, SequenceTheorems, TLAPS

\* No offset the group, a client or a batch keeps lies beyond the end of the log.
WithinLog ==
    \A p \in Partitions :
        /\ committed[p] <= Len(log[p])
        /\ \A m \in Members :
             /\ cursor[m][p] <= Len(log[p])
             /\ at[m][p] <= upto[m][p]
             /\ upto[m][p] <= Len(log[p])

\* The record a batch looks at is a record of the topic.
LEMMA RecordType ==
    ASSUME BatchType, NEW m \in Members, NEW p \in Partitions, Current(m, p)
    PROVE  Record(m, p) \in Records
<1>1. at[m][p] \in 0..LogSize /\ upto[m][p] \in 0..LogSize
  BY DEF BatchType
<1>2. at[m][p] \in 0..LogSize - 1
  BY <1>1, ConsumerConstants DEF Current
<1>3. QED
  BY <1>2 DEF Record, Records

\* It lies within the batch and the log, so that it has a timestamp.
LEMMA CurrentInBatch ==
    ASSUME BrokerType, BatchType, WithinLog,
           NEW m \in Members, NEW p \in Partitions, Current(m, p)
    PROVE  /\ at[m][p] \in 0..LogSize - 1
           /\ at[m][p] + 1 <= upto[m][p]
           /\ at[m][p] + 1 \in 1..Len(log[p])
           /\ log[p][at[m][p] + 1] \in 0..MaxClock
<1>1. at[m][p] \in 0..LogSize /\ upto[m][p] \in 0..LogSize
  BY DEF BatchType
<1>2. Len(log[p]) \in Nat /\ upto[m][p] <= Len(log[p])
  BY DEF BrokerType, WithinLog
<1>3. at[m][p] < upto[m][p]
  BY DEF Current
<1>4. at[m][p] + 1 \in 1..Len(log[p])
  BY <1>1, <1>2, <1>3
<1>5. log[p] \in Seq(0..MaxClock)
  BY DEF BrokerType
<1>6. log[p][at[m][p] + 1] \in 0..MaxClock
  BY <1>4, <1>5, ElementOfSeq
<1>7. QED
  BY <1>1, <1>2, <1>3, <1>4, <1>6, ConsumerConstants

\* The four parts of TypeOK, and WithinLog, are preserved by every action.
LEMMA BrokerStep ==
    ASSUME BrokerType, BatchType, [Next]_vars
    PROVE  BrokerType'
<1> USE ConsumerConstants
<1> USE DEF BrokerType, brokerVars, clientVars, batchVars, worldVars, boundVars
<1>1. CASE Tick
  BY <1>1 DEF Tick
<1>2. ASSUME NEW p \in Partitions, Produce(p) PROVE BrokerType'
  BY <1>2 DEF Produce
<1>3. ASSUME NEW m \in Members, Start(m) PROVE BrokerType'
  BY <1>3 DEF Start
<1>4. ASSUME NEW m \in Members, Crash(m) PROVE BrokerType'
  BY <1>4 DEF Crash, Fault, Forgotten
<1>5. ASSUME NEW m \in Members, Signal(m) PROVE BrokerType'
  BY <1>5 DEF Signal, Churn
<1>6. ASSUME NEW m \in Members, Close(m) PROVE BrokerType'
  BY <1>6 DEF Close, Forgotten
<1>7. ASSUME NEW m \in Members, NEW p \in Partitions, Assign(m, p) PROVE BrokerType'
  BY <1>7 DEF Assign
<1>8. ASSUME NEW m \in Members, NEW p \in Partitions, Revoke(m, p) PROVE BrokerType'
  BY <1>8 DEF Revoke, Churn, forget
<1>9. ASSUME NEW m \in Members, Evict(m) PROVE BrokerType'
  BY <1>9 DEF Evict, Fault
<1>10. ASSUME NEW m \in Members, Lost(m) PROVE BrokerType'
  BY <1>10 DEF Lost, forget
<1>11. ASSUME NEW m \in Members, resumeRipe(m) PROVE BrokerType'
  BY <1>11 DEF resumeRipe, forget
<1>12. ASSUME NEW m \in Members, pollDeadline(m) PROVE BrokerType'
  BY <1>12 DEF pollDeadline
<1>13. ASSUME NEW m \in Members, Poll(m) PROVE BrokerType'
  BY <1>13 DEF Poll
<1>14. ASSUME NEW m \in Members, PollEmpty(m) PROVE BrokerType'
  BY <1>14 DEF PollEmpty, Fault
<1>15. ASSUME NEW m \in Members, NEW p \in Partitions, hold(m, p) PROVE BrokerType'
  BY <1>15 DEF hold
<1>16. ASSUME NEW m \in Members, NEW p \in Partitions, Done(m, p) PROVE BrokerType'
  BY <1>16 DEF Done, Acknowledge
<1>17. ASSUME NEW m \in Members, NEW p \in Partitions, Forward(m, p) PROVE BrokerType'
  BY <1>17 DEF Forward, Acknowledge, Fault
<1>18. ASSUME NEW m \in Members, NEW p \in Partitions, Refuse(m, p) PROVE BrokerType'
  BY <1>18 DEF Refuse, Fault
<1>19. ASSUME NEW m \in Members, EndOfBatch(m) PROVE BrokerType'
  BY <1>19 DEF EndOfBatch
<1>20. ASSUME NEW m \in Members, commit(m) PROVE BrokerType'
  BY <1>20 DEF commit, EndBatch, CommitRecords, BatchType
<1>21. ASSUME NEW m \in Members, CommitFails(m) PROVE BrokerType'
  <2>1. CommitRecords(m) \in [Partitions -> 0..LogSize]
    BY DEF CommitRecords, BatchType
  <2>2. QED
    BY <1>21, <2>1 DEF CommitFails, Fault
<1>22. ASSUME NEW m \in Members, Panic(m) PROVE BrokerType'
  BY <1>22 DEF Panic, EndBatch, Fault, Zeroes
<1>23. CASE UNCHANGED vars
  BY <1>23 DEF vars
<1>24. QED
  BY <1>1, <1>2, <1>3, <1>4, <1>5, <1>6, <1>7, <1>8, <1>9, <1>10, <1>11, <1>12, <1>13,
      <1>14, <1>15, <1>16, <1>17, <1>18, <1>19, <1>20, <1>21, <1>22, <1>23 DEF Next, Run

LEMMA MemberStep ==
    ASSUME TypeOK, WithinLog, [Next]_vars
    PROVE  MemberType'
<1> USE ConsumerConstants
<1> USE DEF MemberType, TypeOK, Running, Idle, Blocked, brokerVars, clientVars, batchVars,
    worldVars, boundVars
<1>1. CASE Tick
  BY <1>1 DEF Tick
<1>2. ASSUME NEW p \in Partitions, Produce(p) PROVE MemberType'
  BY <1>2 DEF Produce
<1>3. ASSUME NEW m \in Members, Start(m) PROVE MemberType'
  BY <1>3 DEF Start
<1>4. ASSUME NEW m \in Members, Crash(m) PROVE MemberType'
  BY <1>4 DEF Crash, Fault, Forgotten, Zeroes
<1>5. ASSUME NEW m \in Members, Signal(m) PROVE MemberType'
  BY <1>5 DEF Signal, Churn
<1>6. ASSUME NEW m \in Members, Close(m) PROVE MemberType'
  BY <1>6 DEF Close, Forgotten, Zeroes
<1>7. ASSUME NEW m \in Members, NEW p \in Partitions, Assign(m, p) PROVE MemberType'
  BY <1>7 DEF Assign, BrokerType
<1>8. ASSUME NEW m \in Members, NEW p \in Partitions, Revoke(m, p) PROVE MemberType'
  BY <1>8 DEF Revoke, Churn, forget
<1>9. ASSUME NEW m \in Members, Evict(m) PROVE MemberType'
  BY <1>9 DEF Evict, Fault
<1>10. ASSUME NEW m \in Members, Lost(m) PROVE MemberType'
  BY <1>10 DEF Lost, forget
<1>11. ASSUME NEW m \in Members, resumeRipe(m) PROVE MemberType'
  BY <1>11 DEF resumeRipe, forget
<1>12. ASSUME NEW m \in Members, pollDeadline(m) PROVE MemberType'
  <2>1. PICK d \in 0..(MaxClock + Delay) : deadline' = [deadline EXCEPT ![m] = d]
    BY <1>12 DEF pollDeadline, Soonest
  <2>2. QED
    BY <1>12, <2>1 DEF pollDeadline
<1>13. ASSUME NEW m \in Members, Poll(m) PROVE MemberType'
  <2>1. PICK hi \in Fetches(m) : Poll(m)!2!(hi)
    BY <1>13 DEF Poll
  <2>2. hi \in [Partitions -> 0..LogSize]
    BY DEF Fetches
  <2>3. pc' \in [Members -> Running \cup {"down"}]
    BY <2>1
  <2>4. QED
    BY <1>13, <2>1, <2>2, <2>3 DEF Poll
<1>14. ASSUME NEW m \in Members, PollEmpty(m) PROVE MemberType'
  BY <1>14 DEF PollEmpty, Fault
<1>15. ASSUME NEW m \in Members, NEW p \in Partitions, hold(m, p) PROVE MemberType'
  <2>1. at[m][p] \in 0..LogSize
    BY DEF BatchType
  <2>3. log[p][at[m][p] + 1] \in 0..MaxClock
    BY <1>15, CurrentInBatch DEF hold
  <2>4. log[p][at[m][p] + 1] + Delay \in 0..(MaxClock + Delay)
    BY <2>3
  <2>5. QED
    BY <1>15, <2>1, <2>4 DEF hold
<1>16. ASSUME NEW m \in Members, NEW p \in Partitions, Done(m, p) PROVE MemberType'
  BY <1>16 DEF Done, Acknowledge
<1>17. ASSUME NEW m \in Members, NEW p \in Partitions, Forward(m, p) PROVE MemberType'
  BY <1>17 DEF Forward, Acknowledge, Fault
<1>18. ASSUME NEW m \in Members, NEW p \in Partitions, Refuse(m, p) PROVE MemberType'
  BY <1>18 DEF Refuse, Fault
<1>19. ASSUME NEW m \in Members, EndOfBatch(m) PROVE MemberType'
  BY <1>19 DEF EndOfBatch
<1>20. ASSUME NEW m \in Members, commit(m) PROVE MemberType'
  BY <1>20 DEF commit, EndBatch
<1>21. ASSUME NEW m \in Members, CommitFails(m) PROVE MemberType'
  BY <1>21 DEF CommitFails, EndBatch, Fault
<1>22. ASSUME NEW m \in Members, Panic(m) PROVE MemberType'
  BY <1>22 DEF Panic, EndBatch, Fault, Zeroes
<1>23. CASE UNCHANGED vars
  BY <1>23 DEF vars
<1>24. QED
  BY <1>1, <1>2, <1>3, <1>4, <1>5, <1>6, <1>7, <1>8, <1>9, <1>10, <1>11, <1>12, <1>13,
      <1>14, <1>15, <1>16, <1>17, <1>18, <1>19, <1>20, <1>21, <1>22, <1>23 DEF Next, Run

LEMMA BatchStep ==
    ASSUME TypeOK, [Next]_vars
    PROVE  BatchType'
<1> USE ConsumerConstants
<1> USE DEF BatchType, TypeOK, brokerVars, clientVars, batchVars, worldVars, boundVars
<1>1. CASE Tick
  BY <1>1 DEF Tick
<1>2. ASSUME NEW p \in Partitions, Produce(p) PROVE BatchType'
  BY <1>2 DEF Produce
<1>3. ASSUME NEW m \in Members, Start(m) PROVE BatchType'
  BY <1>3 DEF Start
<1>4. ASSUME NEW m \in Members, Crash(m) PROVE BatchType'
  BY <1>4 DEF Crash, Fault, Forgotten, Zeroes
<1>5. ASSUME NEW m \in Members, Signal(m) PROVE BatchType'
  BY <1>5 DEF Signal, Churn
<1>6. ASSUME NEW m \in Members, Close(m) PROVE BatchType'
  BY <1>6 DEF Close, Forgotten, Zeroes
<1>7. ASSUME NEW m \in Members, NEW p \in Partitions, Assign(m, p) PROVE BatchType'
  BY <1>7 DEF Assign
<1>8. ASSUME NEW m \in Members, NEW p \in Partitions, Revoke(m, p) PROVE BatchType'
  BY <1>8 DEF Revoke, Churn, forget
<1>9. ASSUME NEW m \in Members, Evict(m) PROVE BatchType'
  BY <1>9 DEF Evict, Fault
<1>10. ASSUME NEW m \in Members, Lost(m) PROVE BatchType'
  BY <1>10 DEF Lost, forget
<1>11. ASSUME NEW m \in Members, resumeRipe(m) PROVE BatchType'
  BY <1>11 DEF resumeRipe, forget
<1>12. ASSUME NEW m \in Members, pollDeadline(m) PROVE BatchType'
  BY <1>12 DEF pollDeadline
<1>13. ASSUME NEW m \in Members, Poll(m) PROVE BatchType'
  <2>1. PICK hi \in Fetches(m) : Poll(m)!2!(hi)
    BY <1>13 DEF Poll
  <2>2. hi \in [Partitions -> 0..LogSize] /\ cursor[m] \in [Partitions -> 0..LogSize]
    BY DEF Fetches, MemberType
  <2>3. QED
    BY <2>1, <2>2
<1>14. ASSUME NEW m \in Members, PollEmpty(m) PROVE BatchType'
  BY <1>14 DEF PollEmpty, Fault
<1>15. ASSUME NEW m \in Members, NEW p \in Partitions, hold(m, p) PROVE BatchType'
  BY <1>15 DEF hold
<1>16. ASSUME NEW m \in Members, NEW p \in Partitions, Done(m, p) PROVE BatchType'
  BY <1>16 DEF Done, Acknowledge, Current
<1>17. ASSUME NEW m \in Members, NEW p \in Partitions, Forward(m, p) PROVE BatchType'
  BY <1>17 DEF Forward, Acknowledge, Fault, Current
<1>18. ASSUME NEW m \in Members, NEW p \in Partitions, Refuse(m, p) PROVE BatchType'
  BY <1>18 DEF Refuse, Fault
<1>19. ASSUME NEW m \in Members, EndOfBatch(m) PROVE BatchType'
  BY <1>19 DEF EndOfBatch
<1>20. ASSUME NEW m \in Members, commit(m) PROVE BatchType'
  BY <1>20 DEF commit, EndBatch, Zeroes
<1>21. ASSUME NEW m \in Members, CommitFails(m) PROVE BatchType'
  BY <1>21 DEF CommitFails, EndBatch, Fault, Zeroes
<1>22. ASSUME NEW m \in Members, Panic(m) PROVE BatchType'
  BY <1>22 DEF Panic, EndBatch, Fault, Zeroes
<1>23. CASE UNCHANGED vars
  BY <1>23 DEF vars
<1>24. QED
  BY <1>1, <1>2, <1>3, <1>4, <1>5, <1>6, <1>7, <1>8, <1>9, <1>10, <1>11, <1>12, <1>13,
      <1>14, <1>15, <1>16, <1>17, <1>18, <1>19, <1>20, <1>21, <1>22, <1>23 DEF Next, Run

LEMMA WithinLogStep ==
    ASSUME TypeOK, WithinLog, [Next]_vars
    PROVE  WithinLog'
<1> USE ConsumerConstants
<1> USE DEF WithinLog, TypeOK, BrokerType, MemberType, BatchType, brokerVars, clientVars,
    batchVars, worldVars, boundVars
<1>1. CASE Tick
  BY <1>1 DEF Tick
<1>2. ASSUME NEW p \in Partitions, Produce(p) PROVE WithinLog'
  <2>1. \A q \in Partitions : Len(log'[q]) \in Nat /\ Len(log[q]) \in Nat /\ Len(log[q]) <=
      Len(log'[q])
    BY <1>2 DEF Produce
  <2>2. UNCHANGED <<committed, cursor, at, upto>>
    BY <1>2 DEF Produce
  <2>3. ASSUME NEW q \in Partitions, NEW m \in Members
        PROVE  /\ committed[q] \in Nat /\ cursor[m][q] \in Nat /\ upto[m][q] \in Nat
               /\ committed[q] <= Len(log[q])
               /\ cursor[m][q] <= Len(log[q])
               /\ at[m][q] <= upto[m][q]
               /\ upto[m][q] <= Len(log[q])
    OBVIOUS
  <2>4. \A q \in Partitions : committed'[q] <= Len(log'[q])
    BY <2>1, <2>2
  <2> HIDE DEF WithinLog, TypeOK, BrokerType, MemberType, BatchType
  <2>5. \A q \in Partitions, m \in Members :
           /\ cursor'[m][q] <= Len(log'[q])
           /\ at'[m][q] <= upto'[m][q]
           /\ upto'[m][q] <= Len(log'[q])
    BY <2>1, <2>2, <2>3
  <2>6. QED
    BY <2>4, <2>5 DEF WithinLog
<1>3. ASSUME NEW m \in Members, Start(m) PROVE WithinLog'
  BY <1>3 DEF Start
<1>4. ASSUME NEW m \in Members, Crash(m) PROVE WithinLog'
  BY <1>4 DEF Crash, Fault, Forgotten, Zeroes
<1>5. ASSUME NEW m \in Members, Signal(m) PROVE WithinLog'
  BY <1>5 DEF Signal, Churn
<1>6. ASSUME NEW m \in Members, Close(m) PROVE WithinLog'
  BY <1>6 DEF Close, Forgotten, Zeroes
<1>7. ASSUME NEW m \in Members, NEW p \in Partitions, Assign(m, p) PROVE WithinLog'
  BY <1>7 DEF Assign
<1>8. ASSUME NEW m \in Members, NEW p \in Partitions, Revoke(m, p) PROVE WithinLog'
  BY <1>8 DEF Revoke, Churn, forget
<1>9. ASSUME NEW m \in Members, Evict(m) PROVE WithinLog'
  BY <1>9 DEF Evict, Fault
<1>10. ASSUME NEW m \in Members, Lost(m) PROVE WithinLog'
  BY <1>10 DEF Lost, forget
<1>11. ASSUME NEW m \in Members, resumeRipe(m) PROVE WithinLog'
  BY <1>11 DEF resumeRipe, forget
<1>12. ASSUME NEW m \in Members, pollDeadline(m) PROVE WithinLog'
  BY <1>12 DEF pollDeadline
<1>13. ASSUME NEW m \in Members, Poll(m) PROVE WithinLog'
  <2>1. PICK hi \in Fetches(m) : Poll(m)!2!(hi)
    BY <1>13 DEF Poll
  <2>2. hi \in [Partitions -> 0..LogSize] /\ cursor[m] \in [Partitions -> 0..LogSize]
    BY DEF Fetches, MemberType
  <2>3. \A p \in Partitions : cursor[m][p] <= hi[p] /\ hi[p] <= Len(log[p])
    <3> SUFFICES ASSUME NEW p \in Partitions PROVE cursor[m][p] <= hi[p] /\ hi[p] <=
        Len(log[p])
      OBVIOUS
    <3>1. CASE p \in Fetchable(m)
      BY <3>1 DEF Fetches
    <3>2. CASE p \notin Fetchable(m)
      BY <2>2, <3>2 DEF Fetches
    <3>3. QED
      BY <3>1, <3>2
  <2>4. cursor' = [cursor EXCEPT ![m] = hi] /\ UNCHANGED <<log, committed>>
    BY <1>13, <2>1 DEF Poll
  <2>5. CASE UNCHANGED batchVars
    BY <2>2, <2>3, <2>4, <2>5
  <2>6. CASE at' = [at EXCEPT ![m] = cursor[m]] /\ upto' = [upto EXCEPT ![m] = hi]
    BY <2>2, <2>3, <2>4, <2>6
  <2>7. QED
    BY <2>1, <2>5, <2>6
<1>14. ASSUME NEW m \in Members, PollEmpty(m) PROVE WithinLog'
  BY <1>14 DEF PollEmpty, Fault
<1>15. ASSUME NEW m \in Members, NEW p \in Partitions, hold(m, p) PROVE WithinLog'
  <2>1. at[m][p] + 1 \in 1..Len(log[p])
    BY <1>15, CurrentInBatch DEF hold
  <2>2. at[m][p] \in Nat /\ at[m][p] <= Len(log[p])
    BY <2>1
  <2>3. /\ cursor' = [cursor EXCEPT ![m][p] = at[m][p]]
        /\ upto' = [upto EXCEPT ![m][p] = at[m][p]]
        /\ UNCHANGED <<log, committed, at>>
    BY <1>15 DEF hold
  <2>4. ASSUME NEW q \in Partitions, NEW n \in Members
        PROVE  /\ cursor'[n][q] <= Len(log[q])
               /\ at[n][q] <= upto'[n][q]
               /\ upto'[n][q] <= Len(log[q])
    <3>1. CASE n = m /\ q = p
      BY <2>2, <2>3, <3>1
    <3>2. CASE ~(n = m /\ q = p)
      BY <2>3, <3>2
    <3>3. QED
      BY <3>1, <3>2
  <2>5. QED
    BY <2>3, <2>4
<1>16. ASSUME NEW m \in Members, NEW p \in Partitions, Done(m, p) PROVE WithinLog'
  <2>1. at[m][p] + 1 <= upto[m][p]
    BY <1>16, CurrentInBatch DEF Done
  <2>2. at' = [at EXCEPT ![m][p] = at[m][p] + 1] /\ UNCHANGED <<log, committed, cursor, upto>>
    BY <1>16 DEF Done, Acknowledge
  <2>3. QED
    BY <2>1, <2>2
<1>17. ASSUME NEW m \in Members, NEW p \in Partitions, Forward(m, p) PROVE WithinLog'
  <2>1. at[m][p] + 1 <= upto[m][p]
    BY <1>17, CurrentInBatch DEF Forward
  <2>2. at' = [at EXCEPT ![m][p] = at[m][p] + 1] /\ UNCHANGED <<log, committed, cursor, upto>>
    BY <1>17 DEF Forward, Acknowledge
  <2>3. QED
    BY <2>1, <2>2
<1>18. ASSUME NEW m \in Members, NEW p \in Partitions, Refuse(m, p) PROVE WithinLog'
  BY <1>18 DEF Refuse, Fault
<1>19. ASSUME NEW m \in Members, EndOfBatch(m) PROVE WithinLog'
  BY <1>19 DEF EndOfBatch
<1>20. ASSUME NEW m \in Members, commit(m) PROVE WithinLog'
  BY <1>20 DEF commit, EndBatch, Zeroes, CommitRecords
<1>21. ASSUME NEW m \in Members, CommitFails(m) PROVE WithinLog'
  <2>1. \A p \in Partitions : CommitRecords(m)[p] <= Len(log[p])
    BY DEF CommitRecords
  <2>2. committed' \in {committed, CommitRecords(m)} /\ UNCHANGED <<log, cursor>>
    BY <1>21 DEF CommitFails
  <2>3. QED
    BY <1>21, <2>1, <2>2 DEF CommitFails, EndBatch, Zeroes
<1>22. ASSUME NEW m \in Members, Panic(m) PROVE WithinLog'
  BY <1>22 DEF Panic, EndBatch, Fault, Zeroes
<1>23. CASE UNCHANGED vars
  BY <1>23 DEF vars
<1>24. QED
  BY <1>1, <1>2, <1>3, <1>4, <1>5, <1>6, <1>7, <1>8, <1>9, <1>10, <1>11, <1>12, <1>13,
      <1>14, <1>15, <1>16, <1>17, <1>18, <1>19, <1>20, <1>21, <1>22, <1>23 DEF Next, Run

LEMMA WorldStep ==
    ASSUME TypeOK, [Next]_vars
    PROVE  WorldType'
<1> USE ConsumerConstants
<1> USE DEF WorldType, TypeOK, brokerVars, clientVars, batchVars, worldVars, boundVars
<1>1. CASE Tick
  BY <1>1 DEF Tick
<1>2. ASSUME NEW p \in Partitions, Produce(p) PROVE WorldType'
  BY <1>2 DEF Produce
<1>3. ASSUME NEW m \in Members, Start(m) PROVE WorldType'
  BY <1>3 DEF Start
<1>4. ASSUME NEW m \in Members, Crash(m) PROVE WorldType'
  BY <1>4 DEF Crash, Fault, Forgotten
<1>5. ASSUME NEW m \in Members, Signal(m) PROVE WorldType'
  BY <1>5 DEF Signal, Churn
<1>6. ASSUME NEW m \in Members, Close(m) PROVE WorldType'
  BY <1>6 DEF Close, Forgotten
<1>7. ASSUME NEW m \in Members, NEW p \in Partitions, Assign(m, p) PROVE WorldType'
  BY <1>7 DEF Assign
<1>8. ASSUME NEW m \in Members, NEW p \in Partitions, Revoke(m, p) PROVE WorldType'
  BY <1>8 DEF Revoke, Churn, forget
<1>9. ASSUME NEW m \in Members, Evict(m) PROVE WorldType'
  BY <1>9 DEF Evict, Fault
<1>10. ASSUME NEW m \in Members, Lost(m) PROVE WorldType'
  BY <1>10 DEF Lost, forget
<1>11. ASSUME NEW m \in Members, resumeRipe(m) PROVE WorldType'
  BY <1>11 DEF resumeRipe, forget
<1>12. ASSUME NEW m \in Members, pollDeadline(m) PROVE WorldType'
  BY <1>12 DEF pollDeadline
<1>13. ASSUME NEW m \in Members, Poll(m) PROVE WorldType'
  <2>1. PICK hi \in Fetches(m) : Poll(m)!2!(hi)
    BY <1>13 DEF Poll
  <2> DEFINE thrown == UNION {Between(p, cursor[m][p], hi[p]) : p \in Partitions}
  <2>2. hi \in [Partitions -> 0..LogSize] /\ cursor[m] \in [Partitions -> 0..LogSize]
    BY DEF Fetches, MemberType
  <2>3. ASSUME NEW r \in thrown PROVE r \in Records
    <3>1. PICK p \in Partitions : r \in Between(p, cursor[m][p], hi[p])
      OBVIOUS
    <3>2. PICK o \in cursor[m][p]..(hi[p] - 1) : r = <<p, o>>
      BY <3>1 DEF Between
    <3>3. o \in 0..LogSize - 1
      BY <2>2, <3>2
    <3>4. QED
      BY <3>2, <3>3 DEF Records
  <2>4. discarded' = discarded \/ discarded' = discarded \cup thrown
    BY <2>1
  <2>5. QED
    BY <1>13, <2>3, <2>4 DEF Poll
<1>14. ASSUME NEW m \in Members, PollEmpty(m) PROVE WorldType'
  BY <1>14 DEF PollEmpty, Fault
<1>15. ASSUME NEW m \in Members, NEW p \in Partitions, hold(m, p) PROVE WorldType'
  BY <1>15 DEF hold
<1>16. ASSUME NEW m \in Members, NEW p \in Partitions, Done(m, p) PROVE WorldType'
  <2>1. Record(m, p) \in Records
    BY <1>16, RecordType DEF Done
  <2>2. QED
    BY <1>16, <2>1 DEF Done, Acknowledge
<1>17. ASSUME NEW m \in Members, NEW p \in Partitions, Forward(m, p) PROVE WorldType'
  <2>1. Record(m, p) \in Records
    BY <1>17, RecordType DEF Forward
  <2>2. QED
    BY <1>17, <2>1 DEF Forward, Acknowledge
<1>18. ASSUME NEW m \in Members, NEW p \in Partitions, Refuse(m, p) PROVE WorldType'
  <2>1. Record(m, p) \in Records
    BY <1>18, RecordType DEF Refuse
  <2>2. QED
    BY <1>18, <2>1 DEF Refuse
<1>19. ASSUME NEW m \in Members, EndOfBatch(m) PROVE WorldType'
  BY <1>19 DEF EndOfBatch
<1>20. ASSUME NEW m \in Members, commit(m) PROVE WorldType'
  BY <1>20 DEF commit, EndBatch
<1>21. ASSUME NEW m \in Members, CommitFails(m) PROVE WorldType'
  BY <1>21 DEF CommitFails, EndBatch, Fault
<1>22. ASSUME NEW m \in Members, Panic(m) PROVE WorldType'
  BY <1>22 DEF Panic, EndBatch, Fault, Zeroes
<1>23. CASE UNCHANGED vars
  BY <1>23 DEF vars
<1>24. QED
  BY <1>1, <1>2, <1>3, <1>4, <1>5, <1>6, <1>7, <1>8, <1>9, <1>10, <1>11, <1>12, <1>13,
      <1>14, <1>15, <1>16, <1>17, <1>18, <1>19, <1>20, <1>21, <1>22, <1>23 DEF Next, Run

AccountedFor == rows \cup sunk \cup discarded

\* A dead process the group has dropped holds nothing, and no partition has two
\* holders in one generation.
Ownership ==
    /\ \A m \in Members : pc[m] = "down" /\ m \notin enrolled => assigned[m] = {}
    /\ \A m, n \in enrolled : m # n => assigned[m] \cap assigned[n] = {}

\* A client blocks rebalances exactly while its member is inside batch: every path
\* out of batch, the panic's included, has called AllowRebalance.
Blocking == \A m \in Members : m \in blocking <=> pc[m] \in Blocked

\* So no partition comes or goes but between two rounds of the loop.
LEMMA RebalancesBetweenRounds ==
    ASSUME Blocking, NEW m \in Members, MayRebalance(m)
    PROVE  pc[m] \in Idle
  BY DEF Blocking, MayRebalance, Idle, Blocked

\* The batch of a member lies within the partitions it holds, and the cursor is
\* at its end, also after a hold has set both back.
ShapeOf(m, p) ==
    /\ pc[m] \notin Blocked => from[m][p] = 0 /\ at[m][p] = 0 /\ upto[m][p] = 0
    /\ from[m][p] <= at[m][p]
    /\ pc[m] \in Blocked /\ p \in assigned[m] => cursor[m][p] = upto[m][p]
    /\ pc[m] \in Blocked /\ p \notin assigned[m] => from[m][p] = upto[m][p]
    /\ pc[m] = "commit" /\ m \notin stop => at[m][p] = upto[m][p]

BatchShape == \A m \in Members, p \in Partitions : ShapeOf(m, p)

\* Nothing below a committed offset, the cursor of an idle holder, or the place a
\* batch has reached is unaccounted for.
Accounting ==
    /\ \A p \in Partitions : \A o \in Nat : o < committed[p] => <<p, o>> \in AccountedFor
    /\ \A m \in Members : \A p \in assigned[m] : \A o \in Nat :
         /\ pc[m] \in Idle /\ o < cursor[m][p] => <<p, o>> \in AccountedFor
         /\ pc[m] \in Blocked /\ o < at[m][p] => <<p, o>> \in AccountedFor

\* The group's offset is not ahead of the member that holds the partition.
CommittedBehind ==
    \A m \in enrolled : \A p \in assigned[m] :
        /\ pc[m] \in Idle => committed[p] <= cursor[m][p]
        /\ pc[m] \in Blocked => committed[p] <= from[m][p]

\* On a topic with no delay nothing is ever held and no poll is ever bounded.
NothingHeld ==
    Delay = 0 => /\ \A m \in Members : deadline[m] = 0
                 /\ \A m \in Members : \A p \in Partitions : waiting[m][p] = 0
                 /\ discarded = {}

\* Until something fails every running process is in the group, and an acked
\* record is committed or still in its batch.
AckedOnce ==
    faults = 0 =>
        /\ redone = {}
        /\ \A m \in Members : pc[m] \in Running => m \in enrolled
        /\ \A p \in Partitions : \A o \in Nat : <<p, o>> \in acked =>
             \/ o < committed[p]
             \/ \E m \in Members : from[m][p] <= o /\ o < at[m][p]

\* A commit moves only partitions of the batch, which its member holds.
LEMMA AckedAreAssigned ==
    ASSUME TypeOK, WithinLog, BatchShape, NEW m \in Members, pc[m] = "commit",
           NEW p \in Acked(m)
    PROVE  p \in assigned[m]
<1>1. p \in Partitions /\ from[m][p] < at[m][p]
  BY DEF Acked
<1>2. from[m][p] \in Nat /\ at[m][p] \in Nat /\ upto[m][p] \in Nat /\ at[m][p] <= upto[m][p]
  BY <1>1 DEF TypeOK, BatchType, WithinLog
<1>3. from[m][p] # upto[m][p]
  BY <1>1, <1>2
<1>4. QED
  BY <1>1, <1>3 DEF BatchShape, ShapeOf, Blocked

\* What a successful poll leaves behind, for either of its two continuations.
Thrown(m, hi) == UNION {Between(p, cursor[m][p], hi[p]) : p \in Partitions}

\* The effect of a poll that returned records up to hi.
Polled(m, hi) ==
    /\ \A p \in Partitions : cursor[m][p] <= hi[p]
    /\ \A p \in Partitions \ assigned[m] : hi[p] = cursor[m][p]
    /\ cursor' = [cursor EXCEPT ![m] = hi]
    /\ \/ /\ pc' = [pc EXCEPT ![m] = "resume"]
          /\ discarded' = discarded \cup Thrown(m, hi)
          /\ UNCHANGED batchVars
       \/ /\ pc' = [pc EXCEPT ![m] = "batch"]
          /\ from' = [from EXCEPT ![m] = cursor[m]]
          /\ at' = [at EXCEPT ![m] = cursor[m]]
          /\ upto' = [upto EXCEPT ![m] = hi]
          /\ blocking' = blocking \cup {m}
          /\ UNCHANGED <<stop, discarded>>

\* Poll does what Polled says, for the offsets PollRecords left behind.
LEMMA PollCases ==
    ASSUME TypeOK, NEW m \in Members, Poll(m)
    PROVE  \E hi \in [Partitions -> 0..LogSize] : Polled(m, hi)
<1>1. PICK hi \in Fetches(m) : Poll(m)!2!(hi)
  BY DEF Poll
<1>2. hi \in [Partitions -> 0..LogSize] /\ cursor[m] \in [Partitions -> 0..LogSize]
  BY DEF Fetches, TypeOK, MemberType
<1>3. ASSUME NEW p \in Partitions
      PROVE  cursor[m][p] <= hi[p] /\ (p \notin assigned[m] => hi[p] = cursor[m][p])
  <2>1. CASE p \in Fetchable(m)
    BY <2>1 DEF Fetches, Fetchable
  <2>2. CASE p \notin Fetchable(m)
    BY <1>2, <2>2 DEF Fetches
  <2>3. QED
    BY <2>1, <2>2
<1>4. QED
  BY <1>1, <1>2, <1>3 DEF Polled, Thrown

\* Poll blocks rebalances as it enters batch, and every way out of batch allows them.
LEMMA BlockingStep ==
    ASSUME TypeOK, Blocking, [Next]_vars
    PROVE  Blocking'
<1> USE DEF Blocking, TypeOK, BrokerType, MemberType, BatchType, Running, Idle, Blocked,
    brokerVars, clientVars, batchVars, worldVars, boundVars
<1>1. CASE Tick \/ (\E p \in Partitions : Produce(p)) \/ UNCHANGED vars
  BY <1>1 DEF Tick, Produce, vars
<1>2. ASSUME NEW m \in Members, Start(m) \/ Signal(m) \/ Evict(m) \/ Lost(m) PROVE Blocking'
  BY <1>2 DEF Start, Signal, Evict, Lost
<1>3. ASSUME NEW m \in Members, Crash(m) \/ Close(m) PROVE Blocking'
  BY <1>3 DEF Crash, Close, Forgotten
<1>4. ASSUME NEW m \in Members, NEW p \in Partitions, Assign(m, p) \/ Revoke(m, p)
      PROVE  Blocking'
  BY <1>4 DEF Assign, Revoke
<1>5. ASSUME NEW m \in Members, resumeRipe(m) \/ pollDeadline(m) \/ PollEmpty(m)
      PROVE  Blocking'
  BY <1>5 DEF resumeRipe, pollDeadline, PollEmpty
<1>6. ASSUME NEW m \in Members, Poll(m) PROVE Blocking'
  <2>1. PICK hi \in [Partitions -> 0..LogSize] : Polled(m, hi)
    BY <1>6, PollCases
  <2>2. pc[m] = "poll"
    BY <1>6 DEF Poll
  <2>3. QED
    BY <2>1, <2>2 DEF Polled
<1>7. ASSUME NEW m \in Members, NEW p \in Partitions,
             hold(m, p) \/ Done(m, p) \/ Forward(m, p) \/ Refuse(m, p)
      PROVE  Blocking'
  BY <1>7 DEF hold, Done, Forward, Refuse, Current
<1>8. ASSUME NEW m \in Members, EndOfBatch(m) PROVE Blocking'
  BY <1>8 DEF EndOfBatch
<1>9. ASSUME NEW m \in Members, commit(m) \/ CommitFails(m) \/ Panic(m) PROVE Blocking'
  BY <1>9 DEF commit, CommitFails, Panic, EndBatch
<1>10. QED
  BY <1>1, <1>2, <1>3, <1>4, <1>5, <1>6, <1>7, <1>8, <1>9 DEF Next, Run

\* Assign gives out free partitions only, and a member that joins holds nothing.
LEMMA OwnershipStep ==
    ASSUME TypeOK, Ownership, [Next]_vars
    PROVE  Ownership'
<1> USE DEF Ownership, TypeOK, BrokerType, MemberType, Running, Idle, Blocked, brokerVars,
    clientVars, batchVars, worldVars, boundVars
<1>1. CASE Tick
  BY <1>1 DEF Tick
<1>2. ASSUME NEW p \in Partitions, Produce(p) PROVE Ownership'
  BY <1>2 DEF Produce
<1>3. ASSUME NEW m \in Members, Start(m) PROVE Ownership'
  BY <1>3 DEF Start
<1>4. ASSUME NEW m \in Members, Crash(m) PROVE Ownership'
  BY <1>4 DEF Crash, Fault, Forgotten
<1>5. ASSUME NEW m \in Members, Signal(m) PROVE Ownership'
  BY <1>5 DEF Signal, Churn
<1>6. ASSUME NEW m \in Members, Close(m) PROVE Ownership'
  BY <1>6 DEF Close, Forgotten
<1>7. ASSUME NEW m \in Members, NEW p \in Partitions, Assign(m, p) PROVE Ownership'
  BY <1>7 DEF Assign
<1>8. ASSUME NEW m \in Members, NEW p \in Partitions, Revoke(m, p) PROVE Ownership'
  BY <1>8 DEF Revoke, Churn, forget
<1>9. ASSUME NEW m \in Members, Evict(m) PROVE Ownership'
  BY <1>9 DEF Evict, Fault
<1>10. ASSUME NEW m \in Members, Lost(m) PROVE Ownership'
  <2>1. assigned' = [assigned EXCEPT ![m] = {}] /\ enrolled' = enrolled \cup {m} /\ pc' = pc
    BY <1>10 DEF Lost
  <2>2. \A n \in Members : assigned'[n] = {} \/ (n # m /\ assigned'[n] = assigned[n])
    BY <2>1
  <2>3. ASSUME NEW n \in enrolled', NEW k \in enrolled', n # k
        PROVE  assigned'[n] \cap assigned'[k] = {}
    <3>1. n \in Members /\ k \in Members
      BY <2>1
    <3>2. CASE n = m \/ k = m
      BY <2>1, <3>1, <3>2
    <3>3. CASE n # m /\ k # m
      <4>1. n \in enrolled /\ k \in enrolled
        BY <2>1, <3>3
      <4>2. assigned'[n] = assigned[n] /\ assigned'[k] = assigned[k]
        BY <2>1, <3>1, <3>3
      <4>3. assigned[n] \cap assigned[k] = {}
        BY <2>3, <4>1
      <4>4. QED
        BY <4>2, <4>3
    <3>4. QED
      BY <3>2, <3>3
  <2>4. \A n \in Members : pc'[n] = "down" /\ n \notin enrolled' => assigned'[n] = {}
    BY <2>1, <2>2
  <2>5. QED
    BY <2>3, <2>4
<1>11. ASSUME NEW m \in Members, resumeRipe(m) PROVE Ownership'
  BY <1>11 DEF resumeRipe, forget
<1>12. ASSUME NEW m \in Members, pollDeadline(m) PROVE Ownership'
  BY <1>12 DEF pollDeadline
<1>13. ASSUME NEW m \in Members, Poll(m) PROVE Ownership'
  BY <1>13 DEF Poll
<1>14. ASSUME NEW m \in Members, PollEmpty(m) PROVE Ownership'
  BY <1>14 DEF PollEmpty, Fault
<1>15. ASSUME NEW m \in Members, NEW p \in Partitions, hold(m, p) PROVE Ownership'
  BY <1>15 DEF hold
<1>16. ASSUME NEW m \in Members, NEW p \in Partitions, Done(m, p) PROVE Ownership'
  BY <1>16 DEF Done, Acknowledge
<1>17. ASSUME NEW m \in Members, NEW p \in Partitions, Forward(m, p) PROVE Ownership'
  BY <1>17 DEF Forward, Acknowledge, Fault
<1>18. ASSUME NEW m \in Members, NEW p \in Partitions, Refuse(m, p) PROVE Ownership'
  BY <1>18 DEF Refuse, Fault
<1>19. ASSUME NEW m \in Members, EndOfBatch(m) PROVE Ownership'
  BY <1>19 DEF EndOfBatch
<1>20. ASSUME NEW m \in Members, commit(m) PROVE Ownership'
  BY <1>20 DEF commit, EndBatch
<1>21. ASSUME NEW m \in Members, CommitFails(m) PROVE Ownership'
  BY <1>21 DEF CommitFails, EndBatch, Fault
<1>22. ASSUME NEW m \in Members, Panic(m) PROVE Ownership'
  BY <1>22 DEF Panic, EndBatch, Fault, Zeroes
<1>23. CASE UNCHANGED vars
  BY <1>23 DEF vars
<1>24. QED
  BY <1>1, <1>2, <1>3, <1>4, <1>5, <1>6, <1>7, <1>8, <1>9, <1>10, <1>11, <1>12, <1>13,
      <1>14, <1>15, <1>16, <1>17, <1>18, <1>19, <1>20, <1>21, <1>22, <1>23 DEF Next, Run

\* Poll opens a batch that ends at the cursor, hold shortens both together.
LEMMA BatchShapeStep ==
    ASSUME TypeOK, WithinLog, Ownership, Blocking, BatchShape, [Next]_vars
    PROVE  BatchShape'
<1> USE DEF BatchShape, ShapeOf, TypeOK, MemberType, BatchType, Running, Idle, Blocked,
    brokerVars, clientVars, batchVars, worldVars, boundVars
<1>1. CASE Tick
  BY <1>1 DEF Tick
<1>2. ASSUME NEW p \in Partitions, Produce(p) PROVE BatchShape'
  BY <1>2 DEF Produce
<1>3. ASSUME NEW m \in Members, Start(m) PROVE BatchShape'
  BY <1>3 DEF Start
<1>4. ASSUME NEW m \in Members, Crash(m) PROVE BatchShape'
  BY <1>4 DEF Crash, Fault, Forgotten, Zeroes
<1>5. ASSUME NEW m \in Members, Signal(m) PROVE BatchShape'
  BY <1>5 DEF Signal, Churn
<1>6. ASSUME NEW m \in Members, Close(m) PROVE BatchShape'
  BY <1>6 DEF Close, Forgotten, Zeroes
<1>7. ASSUME NEW m \in Members, NEW p \in Partitions, Assign(m, p) PROVE BatchShape'
  BY <1>7, RebalancesBetweenRounds DEF Assign
<1>8. ASSUME NEW m \in Members, NEW p \in Partitions, Revoke(m, p) PROVE BatchShape'
  BY <1>8, RebalancesBetweenRounds DEF Revoke, Churn, forget
<1>9. ASSUME NEW m \in Members, Evict(m) PROVE BatchShape'
  BY <1>9 DEF Evict, Fault
<1>10. ASSUME NEW m \in Members, Lost(m) PROVE BatchShape'
  BY <1>10, RebalancesBetweenRounds DEF Lost, forget
<1>11. ASSUME NEW m \in Members, resumeRipe(m) PROVE BatchShape'
  BY <1>11 DEF resumeRipe, forget
<1>12. ASSUME NEW m \in Members, pollDeadline(m) PROVE BatchShape'
  BY <1>12 DEF pollDeadline
<1>13. ASSUME NEW m \in Members, Poll(m) PROVE BatchShape'
  <2>1. PICK hi \in [Partitions -> 0..LogSize] : Polled(m, hi)
    BY <1>13, PollCases
  <2>2. pc[m] = "poll" /\ UNCHANGED assigned
    BY <1>13 DEF Poll
  <2>3. CASE pc' = [pc EXCEPT ![m] = "resume"] /\ UNCHANGED batchVars
    BY <2>1, <2>2, <2>3 DEF Polled
  <2>4. CASE /\ pc' = [pc EXCEPT ![m] = "batch"]
             /\ from' = [from EXCEPT ![m] = cursor[m]]
             /\ upto' = [upto EXCEPT ![m] = hi]
             /\ at' = [at EXCEPT ![m] = cursor[m]]
             /\ UNCHANGED stop
    BY <2>1, <2>2, <2>4 DEF Polled
  <2>5. QED
    BY <2>1, <2>3, <2>4 DEF Polled
<1>14. ASSUME NEW m \in Members, PollEmpty(m) PROVE BatchShape'
  BY <1>14 DEF PollEmpty, Fault
<1>15. ASSUME NEW m \in Members, NEW p \in Partitions, hold(m, p) PROVE BatchShape'
  <2>1. pc[m] = "batch" /\ p \in assigned[m]
    <3>1. pc[m] = "batch" /\ at[m][p] < upto[m][p]
      BY <1>15 DEF hold, Current
    <3>2. QED
      BY <3>1
  <2>2. /\ cursor' = [cursor EXCEPT ![m][p] = at[m][p]]
        /\ upto' = [upto EXCEPT ![m][p] = at[m][p]]
        /\ UNCHANGED <<pc, assigned, from, at, stop>>
    BY <1>15 DEF hold
  <2>3. ASSUME NEW n \in Members, NEW q \in Partitions
        PROVE  ShapeOf(n, q)'
    <3>1. CASE n = m /\ q = p
      BY <2>1, <2>2, <3>1
    <3>2. CASE ~(n = m /\ q = p)
      BY <2>2, <3>2
    <3>3. QED
      BY <3>1, <3>2
  <2>4. QED
    BY <2>3
<1>16. ASSUME NEW m \in Members, NEW p \in Partitions, Done(m, p) PROVE BatchShape'
  <2>1. pc[m] = "batch"
    BY <1>16 DEF Done, Current
  <2>2. at' = [at EXCEPT ![m][p] = at[m][p] + 1]
    BY <1>16 DEF Done, Acknowledge
  <2>3. UNCHANGED <<pc, assigned, cursor, from, upto, stop>>
    BY <1>16 DEF Done
  <2>4. QED
    BY <2>1, <2>2, <2>3
<1>17. ASSUME NEW m \in Members, NEW p \in Partitions, Forward(m, p) PROVE BatchShape'
  <2>1. pc[m] = "batch"
    BY <1>17 DEF Forward, Current
  <2>2. at' = [at EXCEPT ![m][p] = at[m][p] + 1]
    BY <1>17 DEF Forward, Acknowledge
  <2>3. UNCHANGED <<pc, assigned, cursor, from, upto, stop>>
    BY <1>17 DEF Forward
  <2>4. QED
    BY <2>1, <2>2, <2>3
<1>18. ASSUME NEW m \in Members, NEW p \in Partitions, Refuse(m, p) PROVE BatchShape'
  <2>1. pc[m] = "batch"
    BY <1>18 DEF Refuse, Current
  <2>2. pc' = [pc EXCEPT ![m] = "commit"] /\ stop' = stop \cup {m}
    BY <1>18 DEF Refuse
  <2>3. UNCHANGED <<assigned, cursor, from, at, upto>>
    BY <1>18 DEF Refuse
  <2>4. QED
    BY <2>1, <2>2, <2>3
<1>19. ASSUME NEW m \in Members, EndOfBatch(m) PROVE BatchShape'
  BY <1>19 DEF EndOfBatch
<1>20. ASSUME NEW m \in Members, commit(m) PROVE BatchShape'
  BY <1>20 DEF commit, EndBatch, Zeroes
<1>21. ASSUME NEW m \in Members, CommitFails(m) PROVE BatchShape'
  BY <1>21 DEF CommitFails, EndBatch, Fault, Zeroes
<1>22. ASSUME NEW m \in Members, Panic(m) PROVE BatchShape'
  BY <1>22 DEF Panic, EndBatch, Fault, Zeroes
<1>23. CASE UNCHANGED vars
  BY <1>23 DEF vars
<1>24. QED
  BY <1>1, <1>2, <1>3, <1>4, <1>5, <1>6, <1>7, <1>8, <1>9, <1>10, <1>11, <1>12, <1>13,
      <1>14, <1>15, <1>16, <1>17, <1>18, <1>19, <1>20, <1>21, <1>22, <1>23 DEF Next, Run

\* A commit moves the group's offset to where its holder has got, and no further.
LEMMA CommittedBehindStep ==
    ASSUME TypeOK, WithinLog, Ownership, Blocking, BatchShape, CommittedBehind, [Next]_vars
    PROVE  CommittedBehind'
<1> USE DEF CommittedBehind, TypeOK, BrokerType, MemberType, BatchType, Running, Idle,
    Blocked, brokerVars, clientVars, batchVars, worldVars, boundVars
<1>1. CASE Tick
  BY <1>1 DEF Tick
<1>2. ASSUME NEW p \in Partitions, Produce(p) PROVE CommittedBehind'
  BY <1>2 DEF Produce
<1>3. ASSUME NEW m \in Members, Start(m) PROVE CommittedBehind'
  <2>1. assigned[m] = {}
    BY <1>3 DEF Start, Ownership
  <2>2. QED
    BY <1>3, <2>1 DEF Start
<1>4. ASSUME NEW m \in Members, Crash(m) PROVE CommittedBehind'
  BY <1>4 DEF Crash, Fault, Forgotten, Zeroes
<1>5. ASSUME NEW m \in Members, Signal(m) PROVE CommittedBehind'
  BY <1>5 DEF Signal, Churn
<1>6. ASSUME NEW m \in Members, Close(m) PROVE CommittedBehind'
  BY <1>6 DEF Close, Forgotten, Zeroes
<1>7. ASSUME NEW m \in Members, NEW p \in Partitions, Assign(m, p) PROVE CommittedBehind'
  <2>1. /\ assigned' = [assigned EXCEPT ![m] = assigned[m] \cup {p}]
        /\ cursor' = [cursor EXCEPT ![m][p] = committed[p]]
        /\ pc[m] \in Idle
        /\ UNCHANGED <<committed, enrolled, pc, from>>
    BY <1>7, RebalancesBetweenRounds DEF Assign
  <2>2. ASSUME NEW n \in enrolled, NEW q \in assigned'[n]
        PROVE  /\ pc[n] \in Idle => committed[q] <= cursor'[n][q]
               /\ pc[n] \in Blocked => committed[q] <= from[n][q]
    <3>1. n \in Members /\ q \in Partitions
      BY <2>1
    <3>2. CASE n = m /\ q = p
      BY <2>1, <3>2
    <3>3. CASE ~(n = m /\ q = p)
      <4>1. q \in assigned[n] /\ cursor'[n][q] = cursor[n][q]
        BY <2>1, <3>1, <3>3
      <4>2. QED
        BY <4>1
    <3>4. QED
      BY <3>2, <3>3
  <2>3. QED
    BY <2>1, <2>2
<1>8. ASSUME NEW m \in Members, NEW p \in Partitions, Revoke(m, p) PROVE CommittedBehind'
  BY <1>8, RebalancesBetweenRounds DEF Revoke, Churn, forget
<1>9. ASSUME NEW m \in Members, Evict(m) PROVE CommittedBehind'
  BY <1>9 DEF Evict, Fault
<1>10. ASSUME NEW m \in Members, Lost(m) PROVE CommittedBehind'
  BY <1>10, RebalancesBetweenRounds DEF Lost, forget
<1>11. ASSUME NEW m \in Members, resumeRipe(m) PROVE CommittedBehind'
  BY <1>11 DEF resumeRipe, forget
<1>12. ASSUME NEW m \in Members, pollDeadline(m) PROVE CommittedBehind'
  BY <1>12 DEF pollDeadline
<1>13. ASSUME NEW m \in Members, Poll(m) PROVE CommittedBehind'
  <2>1. PICK hi \in [Partitions -> 0..LogSize] : Polled(m, hi)
    BY <1>13, PollCases
  <2>2. pc[m] = "poll" /\ UNCHANGED <<assigned, committed, enrolled>>
    BY <1>13 DEF Poll
  <2>3. ASSUME NEW n \in enrolled, NEW q \in assigned[n], n # m
        PROVE  /\ pc'[n] \in Idle => committed[q] <= cursor'[n][q]
               /\ pc'[n] \in Blocked => committed[q] <= from'[n][q]
    <3>1. pc'[n] = pc[n] /\ cursor'[n] = cursor[n] /\ from'[n] = from[n]
      BY <2>1, <2>3 DEF Polled
    <3>2. QED
      BY <3>1
  <2>4. ASSUME NEW q \in assigned[m], m \in enrolled
        PROVE  /\ pc'[m] \in Idle => committed[q] <= cursor'[m][q]
               /\ pc'[m] \in Blocked => committed[q] <= from'[m][q]
    <3>1. q \in Partitions /\ committed[q] <= cursor[m][q] /\ cursor[m][q] <= hi[q]
      BY <2>1, <2>2, <2>4 DEF Polled
    <3>2. cursor'[m][q] = hi[q]
      BY <2>1 DEF Polled
    <3>3. pc'[m] = "resume" \/ (pc'[m] = "batch" /\ from'[m][q] = cursor[m][q])
      BY <2>1 DEF Polled
    <3>4. hi[q] \in Nat /\ cursor[m][q] \in Nat /\ committed[q] \in Nat
      BY <3>1
    <3>5. QED
      BY <3>1, <3>2, <3>3, <3>4
  <2>5. QED
    BY <2>2, <2>3, <2>4
<1>14. ASSUME NEW m \in Members, PollEmpty(m) PROVE CommittedBehind'
  BY <1>14 DEF PollEmpty, Fault
<1>15. ASSUME NEW m \in Members, NEW p \in Partitions, hold(m, p) PROVE CommittedBehind'
  <2>1. pc[m] = "batch"
    BY <1>15 DEF hold, Current
  <2>2. /\ cursor' = [cursor EXCEPT ![m][p] = at[m][p]]
        /\ UNCHANGED <<pc, assigned, from, committed, enrolled>>
    BY <1>15 DEF hold
  <2>3. \A n \in Members : n # m => cursor'[n] = cursor[n]
    BY <2>2
  <2>4. QED
    BY <2>1, <2>2, <2>3
<1>16. ASSUME NEW m \in Members, NEW p \in Partitions, Done(m, p) PROVE CommittedBehind'
  BY <1>16 DEF Done, Acknowledge
<1>17. ASSUME NEW m \in Members, NEW p \in Partitions, Forward(m, p) PROVE CommittedBehind'
  BY <1>17 DEF Forward, Acknowledge, Fault
<1>18. ASSUME NEW m \in Members, NEW p \in Partitions, Refuse(m, p) PROVE CommittedBehind'
  <2>1. pc[m] = "batch" /\ pc' = [pc EXCEPT ![m] = "commit"]
    BY <1>18 DEF Refuse, Current
  <2>2. UNCHANGED <<assigned, cursor, from, committed, enrolled>>
    BY <1>18 DEF Refuse
  <2>3. QED
    BY <2>1, <2>2
<1>19. ASSUME NEW m \in Members, EndOfBatch(m) PROVE CommittedBehind'
  BY <1>19 DEF EndOfBatch
<1>20. ASSUME NEW m \in Members, commit(m) PROVE CommittedBehind'
  <2>1. committed' \in {committed, CommitRecords(m)} /\ UNCHANGED <<enrolled, assigned,
      cursor>>
    BY <1>20 DEF commit
  <2>2. pc[m] = "commit" /\ (m \in enrolled \/ committed' = committed)
    BY <1>20 DEF commit, CommitRecords
  <2>3. /\ \/ pc' = [pc EXCEPT ![m] = "closing"]
           \/ m \notin stop /\ pc' = [pc EXCEPT ![m] = "resume"]
        /\ from' = [from EXCEPT ![m] = Zeroes]
    BY <1>20 DEF commit, EndBatch
  <2>4. ASSUME NEW k \in enrolled, NEW q \in assigned[k], k # m
        PROVE  /\ pc'[k] \in Idle => committed'[q] <= cursor[k][q]
               /\ pc'[k] \in Blocked => committed'[q] <= from'[k][q]
    <3>1. q \in Partitions /\ k \in Members
      OBVIOUS
    <3>2. committed'[q] = committed[q]
      <4>1. CASE committed' = committed
        BY <4>1
      <4>2. CASE committed' = CommitRecords(m) /\ m \in enrolled
        <5>1. q \notin assigned[m]
          BY <2>4, <4>2 DEF Ownership
        <5>2. q \notin Acked(m)
          BY <2>2, <5>1, AckedAreAssigned
        <5>3. QED
          BY <3>1, <4>2, <5>2 DEF CommitRecords
      <4>3. QED
        BY <2>1, <2>2, <4>1, <4>2
    <3>3. pc'[k] = pc[k] /\ from'[k] = from[k]
      BY <2>3, <2>4, <3>1
    <3>4. QED
      BY <3>2, <3>3
  <2>5. ASSUME NEW q \in assigned[m], m \in enrolled, pc'[m] \in Idle
        PROVE  committed'[q] <= cursor[m][q]
    <3>1. q \in Partitions /\ pc' = [pc EXCEPT ![m] = "resume"] /\ m \notin stop
      BY <2>3, <2>5
    <3>2. at[m][q] = upto[m][q] /\ cursor[m][q] = upto[m][q] /\ committed[q] <= from[m][q]
      BY <2>2, <2>5, <3>1 DEF BatchShape, ShapeOf
    <3>3. from[m][q] <= at[m][q]
      BY <3>1 DEF BatchShape, ShapeOf
    <3>4. committed'[q] = committed[q] \/ committed'[q] = at[m][q]
      BY <2>1, <3>1 DEF CommitRecords
    <3>5. committed[q] \in Nat /\ at[m][q] \in Nat /\ from[m][q] \in Nat
      BY <3>1
    <3>6. QED
      BY <3>2, <3>3, <3>4, <3>5
  <2>6. pc'[m] \notin Blocked
    BY <2>3
  <2>7. QED
    BY <2>1, <2>4, <2>5, <2>6
<1>21. ASSUME NEW m \in Members, CommitFails(m) PROVE CommittedBehind'
  <2>1. committed' \in {committed, CommitRecords(m)} /\ UNCHANGED <<enrolled, assigned,
      cursor>>
    BY <1>21 DEF CommitFails
  <2>2. pc[m] = "commit" /\ (m \in enrolled \/ committed' = committed)
    BY <1>21 DEF CommitFails, CommitRecords
  <2>3. /\ \/ pc' = [pc EXCEPT ![m] = "closing"]
           \/ m \notin stop /\ pc' = [pc EXCEPT ![m] = "resume"]
        /\ from' = [from EXCEPT ![m] = Zeroes]
    BY <1>21 DEF CommitFails, EndBatch
  <2>4. ASSUME NEW k \in enrolled, NEW q \in assigned[k], k # m
        PROVE  /\ pc'[k] \in Idle => committed'[q] <= cursor[k][q]
               /\ pc'[k] \in Blocked => committed'[q] <= from'[k][q]
    <3>1. q \in Partitions /\ k \in Members
      OBVIOUS
    <3>2. committed'[q] = committed[q]
      <4>1. CASE committed' = committed
        BY <4>1
      <4>2. CASE committed' = CommitRecords(m) /\ m \in enrolled
        <5>1. q \notin assigned[m]
          BY <2>4, <4>2 DEF Ownership
        <5>2. q \notin Acked(m)
          BY <2>2, <5>1, AckedAreAssigned
        <5>3. QED
          BY <3>1, <4>2, <5>2 DEF CommitRecords
      <4>3. QED
        BY <2>1, <2>2, <4>1, <4>2
    <3>3. pc'[k] = pc[k] /\ from'[k] = from[k]
      BY <2>3, <2>4, <3>1
    <3>4. QED
      BY <3>2, <3>3
  <2>5. ASSUME NEW q \in assigned[m], m \in enrolled, pc'[m] \in Idle
        PROVE  committed'[q] <= cursor[m][q]
    <3>1. q \in Partitions /\ pc' = [pc EXCEPT ![m] = "resume"] /\ m \notin stop
      BY <2>3, <2>5
    <3>2. at[m][q] = upto[m][q] /\ cursor[m][q] = upto[m][q] /\ committed[q] <= from[m][q]
      BY <2>2, <2>5, <3>1 DEF BatchShape, ShapeOf
    <3>3. from[m][q] <= at[m][q]
      BY <3>1 DEF BatchShape, ShapeOf
    <3>4. committed'[q] = committed[q] \/ committed'[q] = at[m][q]
      BY <2>1, <3>1 DEF CommitRecords
    <3>5. committed[q] \in Nat /\ at[m][q] \in Nat /\ from[m][q] \in Nat
      BY <3>1
    <3>6. QED
      BY <3>2, <3>3, <3>4, <3>5
  <2>6. pc'[m] \notin Blocked
    BY <2>3
  <2>7. QED
    BY <2>1, <2>4, <2>5, <2>6
<1>22. ASSUME NEW m \in Members, Panic(m) PROVE CommittedBehind'
  BY <1>22 DEF Panic, EndBatch, Fault, Zeroes
<1>23. CASE UNCHANGED vars
  BY <1>23 DEF vars
<1>24. QED
  BY <1>1, <1>2, <1>3, <1>4, <1>5, <1>6, <1>7, <1>8, <1>9, <1>10, <1>11, <1>12, <1>13,
      <1>14, <1>15, <1>16, <1>17, <1>18, <1>19, <1>20, <1>21, <1>22, <1>23 DEF Next, Run

\* With no delay every record is ripe, so hold never runs.
LEMMA NothingHeldStep ==
    ASSUME TypeOK, NothingHeld, [Next]_vars
    PROVE  NothingHeld'
<1> USE DEF NothingHeld, TypeOK, BrokerType, MemberType, brokerVars, clientVars, batchVars,
    worldVars, boundVars
<1>1. CASE Tick
  BY <1>1 DEF Tick
<1>2. ASSUME NEW p \in Partitions, Produce(p) PROVE NothingHeld'
  BY <1>2 DEF Produce
<1>3. ASSUME NEW m \in Members, Start(m) PROVE NothingHeld'
  BY <1>3 DEF Start
<1>4. ASSUME NEW m \in Members, Crash(m) PROVE NothingHeld'
  BY <1>4 DEF Crash, Fault, Forgotten, Zeroes
<1>5. ASSUME NEW m \in Members, Signal(m) PROVE NothingHeld'
  BY <1>5 DEF Signal, Churn
<1>6. ASSUME NEW m \in Members, Close(m) PROVE NothingHeld'
  BY <1>6 DEF Close, Forgotten, Zeroes
<1>7. ASSUME NEW m \in Members, NEW p \in Partitions, Assign(m, p) PROVE NothingHeld'
  BY <1>7 DEF Assign
<1>8. ASSUME NEW m \in Members, NEW p \in Partitions, Revoke(m, p) PROVE NothingHeld'
  BY <1>8 DEF Revoke, Churn, forget
<1>9. ASSUME NEW m \in Members, Evict(m) PROVE NothingHeld'
  BY <1>9 DEF Evict, Fault
<1>10. ASSUME NEW m \in Members, Lost(m) PROVE NothingHeld'
  BY <1>10 DEF Lost, forget
<1>11. ASSUME NEW m \in Members, resumeRipe(m) PROVE NothingHeld'
  BY <1>11 DEF resumeRipe, forget
<1>12. ASSUME NEW m \in Members, pollDeadline(m) PROVE NothingHeld'
  BY <1>12 DEF pollDeadline, Soonest
<1>13. ASSUME NEW m \in Members, Poll(m) PROVE NothingHeld'
  BY <1>13 DEF Poll, PollLooksExpired
<1>14. ASSUME NEW m \in Members, PollEmpty(m) PROVE NothingHeld'
  BY <1>14 DEF PollEmpty, Fault
<1>15. ASSUME NEW m \in Members, NEW p \in Partitions, hold(m, p) PROVE NothingHeld'
  BY <1>15 DEF hold, ripe
<1>16. ASSUME NEW m \in Members, NEW p \in Partitions, Done(m, p) PROVE NothingHeld'
  BY <1>16 DEF Done, Acknowledge
<1>17. ASSUME NEW m \in Members, NEW p \in Partitions, Forward(m, p) PROVE NothingHeld'
  BY <1>17 DEF Forward, Acknowledge, Fault
<1>18. ASSUME NEW m \in Members, NEW p \in Partitions, Refuse(m, p) PROVE NothingHeld'
  BY <1>18 DEF Refuse, Fault
<1>19. ASSUME NEW m \in Members, EndOfBatch(m) PROVE NothingHeld'
  BY <1>19 DEF EndOfBatch
<1>20. ASSUME NEW m \in Members, commit(m) PROVE NothingHeld'
  BY <1>20 DEF commit, EndBatch
<1>21. ASSUME NEW m \in Members, CommitFails(m) PROVE NothingHeld'
  BY <1>21 DEF CommitFails, EndBatch, Fault
<1>22. ASSUME NEW m \in Members, Panic(m) PROVE NothingHeld'
  BY <1>22 DEF Panic, EndBatch, Fault, Zeroes
<1>23. CASE UNCHANGED vars
  BY <1>23 DEF vars
<1>24. QED
  BY <1>1, <1>2, <1>3, <1>4, <1>5, <1>6, <1>7, <1>8, <1>9, <1>10, <1>11, <1>12, <1>13,
      <1>14, <1>15, <1>16, <1>17, <1>18, <1>19, <1>20, <1>21, <1>22, <1>23 DEF Next, Run

\* Nothing that was accounted for is ever taken back.
LEMMA AccountedForGrows ==
    ASSUME [Next]_vars
    PROVE  AccountedFor \subseteq AccountedFor'
<1> USE DEF AccountedFor, brokerVars, clientVars, batchVars, worldVars, boundVars
<1>1. CASE Tick
  BY <1>1 DEF Tick
<1>2. ASSUME NEW p \in Partitions, Produce(p) PROVE AccountedFor \subseteq AccountedFor'
  BY <1>2 DEF Produce
<1>3. ASSUME NEW m \in Members, Start(m) PROVE AccountedFor \subseteq AccountedFor'
  BY <1>3 DEF Start
<1>4. ASSUME NEW m \in Members, Crash(m) PROVE AccountedFor \subseteq AccountedFor'
  BY <1>4 DEF Crash, Fault, Forgotten
<1>5. ASSUME NEW m \in Members, Signal(m) PROVE AccountedFor \subseteq AccountedFor'
  BY <1>5 DEF Signal, Churn
<1>6. ASSUME NEW m \in Members, Close(m) PROVE AccountedFor \subseteq AccountedFor'
  BY <1>6 DEF Close, Forgotten
<1>7. ASSUME NEW m \in Members, NEW p \in Partitions, Assign(m, p) PROVE AccountedFor
    \subseteq AccountedFor'
  BY <1>7 DEF Assign
<1>8. ASSUME NEW m \in Members, NEW p \in Partitions, Revoke(m, p) PROVE AccountedFor
    \subseteq AccountedFor'
  BY <1>8 DEF Revoke, Churn, forget
<1>9. ASSUME NEW m \in Members, Evict(m) PROVE AccountedFor \subseteq AccountedFor'
  BY <1>9 DEF Evict, Fault
<1>10. ASSUME NEW m \in Members, Lost(m) PROVE AccountedFor \subseteq AccountedFor'
  BY <1>10 DEF Lost, forget
<1>11. ASSUME NEW m \in Members, resumeRipe(m) PROVE AccountedFor \subseteq AccountedFor'
  BY <1>11 DEF resumeRipe, forget
<1>12. ASSUME NEW m \in Members, pollDeadline(m) PROVE AccountedFor \subseteq AccountedFor'
  BY <1>12 DEF pollDeadline
<1>13. ASSUME NEW m \in Members, Poll(m) PROVE AccountedFor \subseteq AccountedFor'
  BY <1>13 DEF Poll
<1>14. ASSUME NEW m \in Members, PollEmpty(m) PROVE AccountedFor \subseteq AccountedFor'
  BY <1>14 DEF PollEmpty, Fault
<1>15. ASSUME NEW m \in Members, NEW p \in Partitions, hold(m, p) PROVE AccountedFor
    \subseteq AccountedFor'
  BY <1>15 DEF hold
<1>16. ASSUME NEW m \in Members, NEW p \in Partitions, Done(m, p) PROVE AccountedFor
    \subseteq AccountedFor'
  BY <1>16 DEF Done, Acknowledge
<1>17. ASSUME NEW m \in Members, NEW p \in Partitions, Forward(m, p) PROVE AccountedFor
    \subseteq AccountedFor'
  BY <1>17 DEF Forward, Acknowledge, Fault
<1>18. ASSUME NEW m \in Members, NEW p \in Partitions, Refuse(m, p) PROVE AccountedFor
    \subseteq AccountedFor'
  BY <1>18 DEF Refuse, Fault
<1>19. ASSUME NEW m \in Members, EndOfBatch(m) PROVE AccountedFor \subseteq AccountedFor'
  BY <1>19 DEF EndOfBatch
<1>20. ASSUME NEW m \in Members, commit(m) PROVE AccountedFor \subseteq AccountedFor'
  BY <1>20 DEF commit, EndBatch
<1>21. ASSUME NEW m \in Members, CommitFails(m) PROVE AccountedFor \subseteq AccountedFor'
  BY <1>21 DEF CommitFails, EndBatch, Fault
<1>22. ASSUME NEW m \in Members, Panic(m) PROVE AccountedFor \subseteq AccountedFor'
  BY <1>22 DEF Panic, EndBatch, Fault, Zeroes
<1>23. CASE UNCHANGED vars
  BY <1>23 DEF vars
<1>24. QED
  BY <1>1, <1>2, <1>3, <1>4, <1>5, <1>6, <1>7, <1>8, <1>9, <1>10, <1>11, <1>12, <1>13,
      <1>14, <1>15, <1>16, <1>17, <1>18, <1>19, <1>20, <1>21, <1>22, <1>23 DEF Next, Run

\* An offset advances over a record only after the record is accounted for.
LEMMA AccountingStep ==
    ASSUME TypeOK, WithinLog, Ownership, Blocking, BatchShape, Accounting, [Next]_vars
    PROVE  Accounting'
<1> USE DEF Accounting, TypeOK, BrokerType, MemberType, BatchType, Running, Idle, Blocked,
    brokerVars, clientVars, batchVars, worldVars, boundVars
<1>0. AccountedFor \subseteq AccountedFor'
  BY AccountedForGrows
<1>1. CASE Tick
  BY <1>0, <1>1 DEF Tick
<1>2. ASSUME NEW p \in Partitions, Produce(p) PROVE Accounting'
  BY <1>0, <1>2 DEF Produce
<1>3. ASSUME NEW m \in Members, Start(m) PROVE Accounting'
  <2>1. assigned[m] = {} /\ pc' = [pc EXCEPT ![m] = "resume"]
    BY <1>3 DEF Start, Ownership
  <2>2. UNCHANGED <<assigned, cursor, at, committed>>
    BY <1>3 DEF Start
  <2>3. QED
    BY <1>0, <2>1, <2>2
<1>4. ASSUME NEW m \in Members, Crash(m) PROVE Accounting'
  BY <1>0, <1>4 DEF Crash, Fault, Forgotten, Zeroes
<1>5. ASSUME NEW m \in Members, Signal(m) PROVE Accounting'
  BY <1>0, <1>5 DEF Signal, Churn
<1>6. ASSUME NEW m \in Members, Close(m) PROVE Accounting'
  BY <1>0, <1>6 DEF Close, Forgotten, Zeroes
<1>7. ASSUME NEW m \in Members, NEW p \in Partitions, Assign(m, p) PROVE Accounting'
  <2>1. /\ assigned' = [assigned EXCEPT ![m] = assigned[m] \cup {p}]
        /\ cursor' = [cursor EXCEPT ![m][p] = committed[p]]
        /\ pc[m] \in Idle
        /\ UNCHANGED <<committed, pc, at>>
    BY <1>7, RebalancesBetweenRounds DEF Assign
  <2>2. ASSUME NEW n \in Members, NEW q \in assigned'[n], NEW o \in Nat
        PROVE  /\ pc[n] \in Idle /\ o < cursor'[n][q] => <<q, o>> \in AccountedFor'
               /\ pc[n] \in Blocked /\ o < at[n][q] => <<q, o>> \in AccountedFor'
    <3>1. q \in Partitions
      BY <2>1
    <3>2. CASE n = m /\ q = p
      BY <1>0, <2>1, <3>2
    <3>3. CASE ~(n = m /\ q = p)
      <4>1. q \in assigned[n] /\ cursor'[n][q] = cursor[n][q]
        BY <2>1, <3>1, <3>3
      <4>2. QED
        BY <1>0, <4>1
    <3>4. QED
      BY <3>2, <3>3
  <2>3. QED
    BY <1>0, <2>1, <2>2
<1>8. ASSUME NEW m \in Members, NEW p \in Partitions, Revoke(m, p) PROVE Accounting'
  BY <1>0, <1>8, RebalancesBetweenRounds DEF Revoke, Churn, forget
<1>9. ASSUME NEW m \in Members, Evict(m) PROVE Accounting'
  BY <1>0, <1>9 DEF Evict, Fault
<1>10. ASSUME NEW m \in Members, Lost(m) PROVE Accounting'
  BY <1>0, <1>10, RebalancesBetweenRounds DEF Lost, forget
<1>11. ASSUME NEW m \in Members, resumeRipe(m) PROVE Accounting'
  BY <1>0, <1>11 DEF resumeRipe, forget
<1>12. ASSUME NEW m \in Members, pollDeadline(m) PROVE Accounting'
  BY <1>0, <1>12 DEF pollDeadline
<1>13. ASSUME NEW m \in Members, Poll(m) PROVE Accounting'
  <2>1. PICK hi \in [Partitions -> 0..LogSize] : Polled(m, hi)
    BY <1>13, PollCases
  <2>2. pc[m] = "poll" /\ UNCHANGED <<assigned, committed>>
    BY <1>13 DEF Poll
  <2>3. ASSUME NEW n \in Members, NEW q \in assigned[n], n # m, NEW o \in Nat
        PROVE  /\ pc'[n] \in Idle /\ o < cursor'[n][q] => <<q, o>> \in AccountedFor'
               /\ pc'[n] \in Blocked /\ o < at'[n][q] => <<q, o>> \in AccountedFor'
    <3>1. pc'[n] = pc[n] /\ cursor'[n] = cursor[n] /\ at'[n] = at[n]
      BY <2>1, <2>3 DEF Polled
    <3>2. QED
      BY <1>0, <3>1
  <2>4. ASSUME NEW q \in assigned[m], NEW o \in Nat
        PROVE  /\ pc'[m] \in Idle /\ o < cursor'[m][q] => <<q, o>> \in AccountedFor'
               /\ pc'[m] \in Blocked /\ o < at'[m][q] => <<q, o>> \in AccountedFor'
    <3>1. q \in Partitions /\ cursor'[m][q] = hi[q] /\ hi[q] \in Nat /\ cursor[m][q] \in Nat
      BY <2>1 DEF Polled
    <3>2. o < cursor[m][q] => <<q, o>> \in AccountedFor'
      BY <1>0, <2>2
    <3>3. CASE pc'[m] = "batch" /\ at'[m] = cursor[m]
      BY <3>2, <3>3
    <3>4. CASE pc'[m] = "resume" /\ discarded' = discarded \cup Thrown(m, hi)
      <4>1. ASSUME o < hi[q], ~(o < cursor[m][q]) PROVE <<q, o>> \in AccountedFor'
        <5>1. o \in cursor[m][q]..(hi[q] - 1)
          BY <3>1, <4>1
        <5>2. <<q, o>> \in Between(q, cursor[m][q], hi[q])
          BY <5>1 DEF Between
        <5>3. <<q, o>> \in Thrown(m, hi)
          BY <3>1, <5>2 DEF Thrown
        <5>4. QED
          BY <3>4, <5>3 DEF AccountedFor
      <4>2. QED
        BY <3>1, <3>2, <3>4, <4>1
    <3>5. QED
      BY <2>1, <3>3, <3>4 DEF Polled
  <2>5. QED
    BY <1>0, <2>2, <2>3, <2>4
<1>14. ASSUME NEW m \in Members, PollEmpty(m) PROVE Accounting'
  BY <1>0, <1>14 DEF PollEmpty, Fault
<1>15. ASSUME NEW m \in Members, NEW p \in Partitions, hold(m, p) PROVE Accounting'
  <2>1. pc[m] = "batch"
    BY <1>15 DEF hold, Current
  <2>2. /\ cursor' = [cursor EXCEPT ![m][p] = at[m][p]]
        /\ UNCHANGED <<pc, assigned, at, committed>>
    BY <1>15 DEF hold
  <2>3. \A n \in Members : n # m => cursor'[n] = cursor[n]
    BY <2>2
  <2>4. QED
    BY <1>0, <2>1, <2>2, <2>3
<1>16. ASSUME NEW m \in Members, NEW p \in Partitions, Done(m, p) PROVE Accounting'
  <2>1. <<p, at[m][p]>> \in AccountedFor'
    BY <1>16 DEF Done, Record, AccountedFor
  <2>2. at' = [at EXCEPT ![m][p] = at[m][p] + 1] /\ UNCHANGED <<pc, assigned, cursor,
      committed>>
    BY <1>16 DEF Done, Acknowledge
  <2>3. ASSUME NEW n \in Members, NEW q \in assigned[n], NEW o \in Nat, pc[n] \in Blocked, o
      < at'[n][q]
        PROVE  <<q, o>> \in AccountedFor'
    <3>1. q \in Partitions
      OBVIOUS
    <3>2. CASE n = m /\ q = p
      <4>1. at'[m][p] = at[m][p] + 1 /\ at[m][p] \in Nat
        BY <2>2
      <4>2. o < at[m][p] \/ o = at[m][p]
        BY <2>3, <3>2, <4>1
      <4>3. QED
        BY <1>0, <2>1, <2>3, <3>2, <4>2
    <3>3. CASE ~(n = m /\ q = p)
      <4>1. at'[n][q] = at[n][q]
        BY <2>2, <3>1, <3>3
      <4>2. QED
        BY <1>0, <2>3, <4>1
    <3>4. QED
      BY <3>2, <3>3
  <2>4. QED
    BY <1>0, <2>2, <2>3
<1>17. ASSUME NEW m \in Members, NEW p \in Partitions, Forward(m, p) PROVE Accounting'
  <2>1. <<p, at[m][p]>> \in AccountedFor'
    BY <1>17 DEF Forward, Record, AccountedFor
  <2>2. at' = [at EXCEPT ![m][p] = at[m][p] + 1] /\ UNCHANGED <<pc, assigned, cursor,
      committed>>
    BY <1>17 DEF Forward, Acknowledge
  <2>3. ASSUME NEW n \in Members, NEW q \in assigned[n], NEW o \in Nat, pc[n] \in Blocked, o
      < at'[n][q]
        PROVE  <<q, o>> \in AccountedFor'
    <3>1. q \in Partitions
      OBVIOUS
    <3>2. CASE n = m /\ q = p
      <4>1. at'[m][p] = at[m][p] + 1 /\ at[m][p] \in Nat
        BY <2>2
      <4>2. o < at[m][p] \/ o = at[m][p]
        BY <2>3, <3>2, <4>1
      <4>3. QED
        BY <1>0, <2>1, <2>3, <3>2, <4>2
    <3>3. CASE ~(n = m /\ q = p)
      <4>1. at'[n][q] = at[n][q]
        BY <2>2, <3>1, <3>3
      <4>2. QED
        BY <1>0, <2>3, <4>1
    <3>4. QED
      BY <3>2, <3>3
  <2>4. QED
    BY <1>0, <2>2, <2>3
<1>18. ASSUME NEW m \in Members, NEW p \in Partitions, Refuse(m, p) PROVE Accounting'
  <2>1. pc[m] = "batch" /\ pc' = [pc EXCEPT ![m] = "commit"]
    BY <1>18 DEF Refuse, Current
  <2>2. UNCHANGED <<assigned, cursor, at, committed>>
    BY <1>18 DEF Refuse
  <2>3. QED
    BY <1>0, <2>1, <2>2
<1>19. ASSUME NEW m \in Members, EndOfBatch(m) PROVE Accounting'
  BY <1>0, <1>19 DEF EndOfBatch
<1>20. ASSUME NEW m \in Members, commit(m) PROVE Accounting'
  <2>1. committed' \in {committed, CommitRecords(m)} /\ UNCHANGED <<assigned, cursor>>
    BY <1>20 DEF commit
  <2>2. /\ pc[m] = "commit"
        /\ pc' = [pc EXCEPT ![m] = "closing"] \/ (m \notin stop /\ pc' = [pc EXCEPT ![m] =
            "resume"])
        /\ at' = [at EXCEPT ![m] = Zeroes]
    BY <1>20 DEF commit, EndBatch
  <2>3. ASSUME NEW q \in Partitions, NEW o \in Nat, o < committed'[q]
        PROVE  <<q, o>> \in AccountedFor'
    <3>1. CASE q \in Acked(m) /\ committed' = CommitRecords(m)
      <4>1. committed'[q] = at[m][q]
        BY <3>1 DEF CommitRecords
      <4>2. q \in assigned[m]
        BY <2>2, <3>1, AckedAreAssigned
      <4>3. QED
        BY <1>0, <2>2, <2>3, <4>1, <4>2
    <3>2. CASE q \notin Acked(m) \/ committed' = committed
      <4>1. committed'[q] = committed[q]
        BY <2>1, <3>2 DEF CommitRecords
      <4>2. QED
        BY <1>0, <2>3, <4>1
    <3>3. QED
      BY <2>1, <3>1, <3>2
  <2>4. ASSUME NEW k \in Members, NEW q \in assigned[k], NEW o \in Nat
        PROVE  /\ pc'[k] \in Idle /\ o < cursor[k][q] => <<q, o>> \in AccountedFor'
               /\ pc'[k] \in Blocked /\ o < at'[k][q] => <<q, o>> \in AccountedFor'
    <3>1. CASE k # m
      <4>1. pc'[k] = pc[k] /\ at'[k] = at[k]
        BY <2>2, <3>1
      <4>2. QED
        BY <1>0, <4>1
    <3>2. CASE k = m /\ pc'[m] = "resume"
      <4>1. m \notin stop /\ q \in Partitions
        BY <2>2, <3>2
      <4>2. at[m][q] = upto[m][q] /\ cursor[m][q] = upto[m][q]
        BY <2>2, <3>2, <4>1 DEF BatchShape, ShapeOf
      <4>3. QED
        BY <1>0, <2>2, <3>2, <4>2
    <3>3. CASE k = m /\ pc'[m] = "closing"
      BY <3>3
    <3>4. QED
      BY <2>2, <3>1, <3>2, <3>3
  <2>5. QED
    BY <2>1, <2>3, <2>4
<1>21. ASSUME NEW m \in Members, CommitFails(m) PROVE Accounting'
  <2>1. committed' \in {committed, CommitRecords(m)} /\ UNCHANGED <<assigned, cursor>>
    BY <1>21 DEF CommitFails
  <2>2. /\ pc[m] = "commit"
        /\ pc' = [pc EXCEPT ![m] = "closing"] \/ (m \notin stop /\ pc' = [pc EXCEPT ![m] =
            "resume"])
        /\ at' = [at EXCEPT ![m] = Zeroes]
    BY <1>21 DEF CommitFails, EndBatch
  <2>3. ASSUME NEW q \in Partitions, NEW o \in Nat, o < committed'[q]
        PROVE  <<q, o>> \in AccountedFor'
    <3>1. CASE q \in Acked(m) /\ committed' = CommitRecords(m)
      <4>1. committed'[q] = at[m][q]
        BY <3>1 DEF CommitRecords
      <4>2. q \in assigned[m]
        BY <2>2, <3>1, AckedAreAssigned
      <4>3. QED
        BY <1>0, <2>2, <2>3, <4>1, <4>2
    <3>2. CASE q \notin Acked(m) \/ committed' = committed
      <4>1. committed'[q] = committed[q]
        BY <2>1, <3>2 DEF CommitRecords
      <4>2. QED
        BY <1>0, <2>3, <4>1
    <3>3. QED
      BY <2>1, <3>1, <3>2
  <2>4. ASSUME NEW k \in Members, NEW q \in assigned[k], NEW o \in Nat
        PROVE  /\ pc'[k] \in Idle /\ o < cursor[k][q] => <<q, o>> \in AccountedFor'
               /\ pc'[k] \in Blocked /\ o < at'[k][q] => <<q, o>> \in AccountedFor'
    <3>1. CASE k # m
      <4>1. pc'[k] = pc[k] /\ at'[k] = at[k]
        BY <2>2, <3>1
      <4>2. QED
        BY <1>0, <4>1
    <3>2. CASE k = m /\ pc'[m] = "resume"
      <4>1. m \notin stop /\ q \in Partitions
        BY <2>2, <3>2
      <4>2. at[m][q] = upto[m][q] /\ cursor[m][q] = upto[m][q]
        BY <2>2, <3>2, <4>1 DEF BatchShape, ShapeOf
      <4>3. QED
        BY <1>0, <2>2, <3>2, <4>2
    <3>3. CASE k = m /\ pc'[m] = "closing"
      BY <3>3
    <3>4. QED
      BY <2>2, <3>1, <3>2, <3>3
  <2>5. QED
    BY <2>1, <2>3, <2>4
<1>22. ASSUME NEW m \in Members, Panic(m) PROVE Accounting'
  BY <1>0, <1>22 DEF Panic, EndBatch, Fault, Zeroes
<1>23. CASE UNCHANGED vars
  BY <1>0, <1>23 DEF vars
<1>24. QED
  BY <1>1, <1>2, <1>3, <1>4, <1>5, <1>6, <1>7, <1>8, <1>9, <1>10, <1>11, <1>12, <1>13,
      <1>14, <1>15, <1>16, <1>17, <1>18, <1>19, <1>20, <1>21, <1>22, <1>23 DEF Next, Run

\* Arithmetic for an acknowledgement, which moves at by one.
LEMMA StillBelow ==
    ASSUME NEW o \in Nat, NEW a \in Nat, NEW b, b = a \/ b = a + 1, o < a
    PROVE  o < b
  OBVIOUS

\* Committing is monotone because the group's offset is never ahead of the batch
\* of the member that holds the partition.
LEMMA CommitRecordsGrows ==
    ASSUME TypeOK, WithinLog, Ownership, BatchShape, CommittedBehind,
           NEW m \in enrolled, pc[m] = "commit", NEW p \in Partitions
    PROVE  committed[p] <= CommitRecords(m)[p]
<1>1. m \in Members /\ committed[p] \in Nat /\ from[m][p] \in Nat /\ at[m][p] \in Nat
  BY DEF TypeOK, BrokerType, BatchType
<1>2. CASE p \in Acked(m)
  <2>1. p \in assigned[m]
    BY <1>1, <1>2, AckedAreAssigned
  <2>2. committed[p] <= from[m][p]
    BY <2>1 DEF CommittedBehind, Blocked
  <2>3. from[m][p] < at[m][p] /\ CommitRecords(m)[p] = at[m][p]
    BY <1>2 DEF Acked, CommitRecords
  <2>4. QED
    BY <1>1, <2>2, <2>3
<1>3. CASE p \notin Acked(m)
  BY <1>1, <1>3 DEF CommitRecords
<1>4. QED
  BY <1>2, <1>3

\* A partition with a batch in progress is held by the batch's member.
LEMMA InBatchIsAssigned ==
    ASSUME TypeOK, WithinLog, BatchShape, NEW m \in Members, NEW p \in Partitions,
           from[m][p] < upto[m][p]
    PROVE  pc[m] \in Blocked /\ p \in assigned[m]
<1>1. from[m][p] \in Nat /\ upto[m][p] \in Nat
  BY DEF TypeOK, BatchType
<1>2. from[m][p] # upto[m][p] /\ upto[m][p] # 0
  BY <1>1
<1>3. QED
  BY <1>2 DEF BatchShape, ShapeOf

\* Until something fails, the record a batch is about to handle was never acked.
LEMMA NotAckedYet ==
    ASSUME TypeOK, WithinLog, Ownership, BatchShape, CommittedBehind, AckedOnce, faults = 0,
           NEW m \in Members, NEW p \in Partitions, Current(m, p)
    PROVE  Record(m, p) \notin acked
<1>1. /\ from[m][p] \in Nat /\ at[m][p] \in Nat /\ upto[m][p] \in Nat /\ committed[p] \in Nat
      /\ from[m][p] <= at[m][p] /\ at[m][p] < upto[m][p] /\ pc[m] = "batch"
  BY DEF TypeOK, BrokerType, BatchType, BatchShape, ShapeOf, Current
<1>2. m \in enrolled
  BY <1>1 DEF AckedOnce, Running, Blocked
<1>3. p \in assigned[m]
  BY <1>1, InBatchIsAssigned
<1>4. committed[p] <= from[m][p]
  BY <1>1, <1>2, <1>3 DEF CommittedBehind, Blocked
<1>5. SUFFICES ASSUME <<p, at[m][p]>> \in acked PROVE FALSE
  BY DEF Record
<1>6. at[m][p] < committed[p] \/ \E n \in Members : from[n][p] <= at[m][p] /\ at[m][p] <
    at[n][p]
  BY <1>1, <1>5 DEF AckedOnce
<1>7. PICK n \in Members : from[n][p] <= at[m][p] /\ at[m][p] < at[n][p]
  BY <1>1, <1>4, <1>6
<1>8. n # m
  BY <1>1, <1>7
<1>9. from[n][p] < upto[n][p]
  BY <1>1, <1>7 DEF TypeOK, BatchType, WithinLog
<1>10. pc[n] \in Blocked /\ p \in assigned[n]
  BY <1>9, InBatchIsAssigned
<1>11. n \in enrolled
  BY <1>10 DEF AckedOnce, Running
<1>12. QED
  BY <1>2, <1>3, <1>8, <1>10, <1>11 DEF Ownership

\* Without a fault every batch that acked a record also commits it.
LEMMA AckedOnceStep ==
    ASSUME TypeOK, WithinLog, Ownership, BatchShape, CommittedBehind, AckedOnce, [Next]_vars
    PROVE  AckedOnce'
<1> USE ConsumerConstants
<1> USE DEF AckedOnce, TypeOK, BrokerType, MemberType, BatchType, Running, Idle, Blocked,
    brokerVars, clientVars, batchVars, worldVars, boundVars
<1>1. CASE Tick
  BY <1>1 DEF Tick
<1>2. ASSUME NEW p \in Partitions, Produce(p) PROVE AckedOnce'
  BY <1>2 DEF Produce
<1>3. ASSUME NEW m \in Members, Start(m) PROVE AckedOnce'
  BY <1>3 DEF Start
<1>4. ASSUME NEW m \in Members, Crash(m) PROVE AckedOnce'
  BY <1>4 DEF Crash, Fault, Forgotten, Zeroes
<1>5. ASSUME NEW m \in Members, Signal(m) PROVE AckedOnce'
  BY <1>5 DEF Signal, Churn
<1>6. ASSUME NEW m \in Members, Close(m) PROVE AckedOnce'
  <2>1. /\ pc[m] = "closing" /\ pc' = [pc EXCEPT ![m] = "down"]
        /\ enrolled' = enrolled \ {m}
        /\ from' = [from EXCEPT ![m] = Zeroes] /\ at' = [at EXCEPT ![m] = Zeroes]
        /\ UNCHANGED <<committed, acked, redone, faults>>
    BY <1>6 DEF Close, Forgotten
  <2>2. ASSUME NEW n \in Members, NEW q \in Partitions, NEW o \in Nat,
               from[n][q] <= o /\ o < at[n][q]
        PROVE  from'[n][q] <= o /\ o < at'[n][q]
    <3>1. n # m
      <4>1. at[m][q] = 0
        BY <2>1 DEF BatchShape, ShapeOf
      <4>2. QED
        BY <2>2, <4>1
    <3>2. QED
      BY <2>1, <2>2, <3>1
  <2>3. QED
    BY <2>1, <2>2
<1>7. ASSUME NEW m \in Members, NEW p \in Partitions, Assign(m, p) PROVE AckedOnce'
  BY <1>7 DEF Assign
<1>8. ASSUME NEW m \in Members, NEW p \in Partitions, Revoke(m, p) PROVE AckedOnce'
  BY <1>8 DEF Revoke, Churn, forget
<1>9. ASSUME NEW m \in Members, Evict(m) PROVE AckedOnce'
  BY <1>9 DEF Evict, Fault
<1>10. ASSUME NEW m \in Members, Lost(m) PROVE AckedOnce'
  BY <1>10 DEF Lost, forget
<1>11. ASSUME NEW m \in Members, resumeRipe(m) PROVE AckedOnce'
  BY <1>11 DEF resumeRipe, forget
<1>12. ASSUME NEW m \in Members, pollDeadline(m) PROVE AckedOnce'
  BY <1>12 DEF pollDeadline
<1>13. ASSUME NEW m \in Members, Poll(m) PROVE AckedOnce'
  <2>1. PICK hi \in [Partitions -> 0..LogSize] : Polled(m, hi)
    BY <1>13, PollCases
  <2>2. pc[m] = "poll" /\ UNCHANGED <<enrolled, committed, acked, redone, faults>>
    BY <1>13 DEF Poll
  <2>3. \A n \in Members : pc'[n] \in Running => pc[n] \in Running
    BY <2>1, <2>2 DEF Polled
  <2>4. ASSUME NEW n \in Members, NEW q \in Partitions, NEW o \in Nat,
               from[n][q] <= o /\ o < at[n][q]
        PROVE  from'[n][q] <= o /\ o < at'[n][q]
    <3>1. n # m
      <4>1. at[m][q] = 0
        BY <2>2 DEF BatchShape, ShapeOf
      <4>2. QED
        BY <2>4, <4>1
    <3>2. from'[n] = from[n] /\ at'[n] = at[n]
      BY <2>1, <3>1 DEF Polled
    <3>3. QED
      BY <2>4, <3>2
  <2>5. QED
    BY <2>2, <2>3, <2>4
<1>14. ASSUME NEW m \in Members, PollEmpty(m) PROVE AckedOnce'
  BY <1>14 DEF PollEmpty, Fault
<1>15. ASSUME NEW m \in Members, NEW p \in Partitions, hold(m, p) PROVE AckedOnce'
  BY <1>15 DEF hold
<1>16. ASSUME NEW m \in Members, NEW p \in Partitions, Done(m, p) PROVE AckedOnce'
  <2>1. SUFFICES ASSUME faults' = 0 PROVE AckedOnce'
    OBVIOUS
  <2>2. faults = 0
    BY <1>16, <2>1 DEF Done
  <2>3. Record(m, p) \notin acked
    BY <1>16, <2>2, NotAckedYet DEF Done
  <2>4. /\ at' = [at EXCEPT ![m][p] = at[m][p] + 1]
        /\ acked' = acked \cup {<<p, at[m][p]>>}
        /\ redone' = {}
    BY <1>16, <2>2, <2>3 DEF Done, Acknowledge, Record
  <2>5. UNCHANGED <<pc, enrolled, from, committed>>
    BY <1>16 DEF Done
  <2>6. ASSUME NEW q \in Partitions, NEW o \in Nat, <<q, o>> \in acked', ~(o < committed[q])
        PROVE  \E k \in Members : from[k][q] <= o /\ o < at'[k][q]
    <3>1. CASE <<q, o>> \in acked
      <4>1. PICK k \in Members : from[k][q] <= o /\ o < at[k][q]
        BY <2>2, <2>6, <3>1
      <4>2. at[k][q] \in Nat
        OBVIOUS
      <4>3. at'[k][q] = at[k][q] \/ at'[k][q] = at[k][q] + 1
        BY <2>4
      <4>4. from[k][q] <= o /\ o < at'[k][q]
        BY <4>1, <4>2, <4>3, StillBelow
      <4>5. QED
        BY <4>4
    <3>2. CASE q = p /\ o = at[m][p]
      <4>1. from[m][p] <= at[m][p] /\ at'[m][p] = at[m][p] + 1 /\ at[m][p] \in Nat
        BY <2>4 DEF BatchShape, ShapeOf
      <4>2. from[m][q] <= o /\ o < at'[m][q]
        BY <3>2, <4>1
      <4>3. QED
        BY <4>2
    <3>3. QED
      BY <2>4, <2>6, <3>1, <3>2
  <2>7. QED
    BY <2>2, <2>4, <2>5, <2>6
<1>17. ASSUME NEW m \in Members, NEW p \in Partitions, Forward(m, p) PROVE AckedOnce'
  <2>1. SUFFICES ASSUME faults' = 0 PROVE AckedOnce'
    OBVIOUS
  <2>2. faults = 0
    BY <1>17, <2>1 DEF Forward, Fault
  <2>3. Record(m, p) \notin acked
    BY <1>17, <2>2, NotAckedYet DEF Forward
  <2>4. /\ at' = [at EXCEPT ![m][p] = at[m][p] + 1]
        /\ acked' = acked \cup {<<p, at[m][p]>>}
        /\ redone' = {}
    BY <1>17, <2>2, <2>3 DEF Forward, Acknowledge, Record
  <2>5. UNCHANGED <<pc, enrolled, from, committed>>
    BY <1>17 DEF Forward
  <2>6. ASSUME NEW q \in Partitions, NEW o \in Nat, <<q, o>> \in acked', ~(o < committed[q])
        PROVE  \E k \in Members : from[k][q] <= o /\ o < at'[k][q]
    <3>1. CASE <<q, o>> \in acked
      <4>1. PICK k \in Members : from[k][q] <= o /\ o < at[k][q]
        BY <2>2, <2>6, <3>1
      <4>2. at[k][q] \in Nat
        OBVIOUS
      <4>3. at'[k][q] = at[k][q] \/ at'[k][q] = at[k][q] + 1
        BY <2>4
      <4>4. from[k][q] <= o /\ o < at'[k][q]
        BY <4>1, <4>2, <4>3, StillBelow
      <4>5. QED
        BY <4>4
    <3>2. CASE q = p /\ o = at[m][p]
      <4>1. from[m][p] <= at[m][p] /\ at'[m][p] = at[m][p] + 1 /\ at[m][p] \in Nat
        BY <2>4 DEF BatchShape, ShapeOf
      <4>2. from[m][q] <= o /\ o < at'[m][q]
        BY <3>2, <4>1
      <4>3. QED
        BY <4>2
    <3>3. QED
      BY <2>4, <2>6, <3>1, <3>2
  <2>7. QED
    BY <2>2, <2>4, <2>5, <2>6
<1>18. ASSUME NEW m \in Members, NEW p \in Partitions, Refuse(m, p) PROVE AckedOnce'
  <2>1. SUFFICES ASSUME faults' = 0 PROVE AckedOnce'
    OBVIOUS
  <2>2. faults = 0
    BY <1>18, <2>1 DEF Refuse, Fault
  <2>3. UNCHANGED <<enrolled, from, at, committed, acked, redone>>
    BY <1>18 DEF Refuse
  <2>4. pc[m] = "batch" /\ pc' = [pc EXCEPT ![m] = "commit"]
    BY <1>18 DEF Refuse, Current
  <2>5. QED
    BY <2>2, <2>3, <2>4
<1>19. ASSUME NEW m \in Members, EndOfBatch(m) PROVE AckedOnce'
  BY <1>19 DEF EndOfBatch
<1>20. ASSUME NEW m \in Members, commit(m) PROVE AckedOnce'
  <2>1. SUFFICES ASSUME faults = 0 PROVE AckedOnce'
    BY <1>20 DEF commit
  <2>2. /\ pc[m] = "commit" /\ committed' = CommitRecords(m)
        /\ pc' = [pc EXCEPT ![m] = "closing"] \/ pc' = [pc EXCEPT ![m] = "resume"]
        /\ from' = [from EXCEPT ![m] = Zeroes] /\ at' = [at EXCEPT ![m] = Zeroes]
        /\ UNCHANGED <<enrolled, acked, redone, faults>>
    BY <1>20 DEF commit, EndBatch
  <2>3. m \in enrolled
    BY <2>1, <2>2
  <2>4. ASSUME NEW q \in Partitions, NEW o \in Nat, <<q, o>> \in acked, ~(o < committed'[q])
        PROVE  \E k \in Members : from'[k][q] <= o /\ o < at'[k][q]
    <3>1. committed[q] <= committed'[q]
      BY <2>2, <2>3, CommitRecordsGrows
    <3>2. committed[q] \in Nat /\ committed'[q] \in Nat
      BY <2>2 DEF CommitRecords
    <3>3. PICK k \in Members : from[k][q] <= o /\ o < at[k][q]
      <4>1. ~(o < committed[q])
        BY <2>4, <3>1, <3>2
      <4>2. QED
        BY <2>1, <2>4, <4>1
    <3>4. k # m
      <4>1. ASSUME k = m PROVE FALSE
        <5>1. from[m][q] < at[m][q]
          BY <3>3, <4>1
        <5>2. committed'[q] = at[m][q]
          BY <2>2, <5>1 DEF CommitRecords, Acked
        <5>3. QED
          BY <2>4, <3>3, <4>1, <5>2
      <4>2. QED
        BY <4>1
    <3>5. QED
      BY <2>2, <3>3, <3>4
  <2>5. QED
    BY <2>1, <2>2, <2>3, <2>4
<1>21. ASSUME NEW m \in Members, CommitFails(m) PROVE AckedOnce'
  BY <1>21 DEF CommitFails, EndBatch, Fault, Zeroes
<1>22. ASSUME NEW m \in Members, Panic(m) PROVE AckedOnce'
  BY <1>22 DEF Panic, EndBatch, Fault, Zeroes
<1>23. CASE UNCHANGED vars
  BY <1>23 DEF vars
<1>24. QED
  BY <1>1, <1>2, <1>3, <1>4, <1>5, <1>6, <1>7, <1>8, <1>9, <1>10, <1>11, <1>12, <1>13,
      <1>14, <1>15, <1>16, <1>17, <1>18, <1>19, <1>20, <1>21, <1>22, <1>23 DEF Next, Run

\* The inductive invariant.
Inv ==
    /\ TypeOK
    /\ WithinLog
    /\ Ownership
    /\ Blocking
    /\ BatchShape
    /\ CommittedBehind
    /\ Accounting
    /\ NothingHeld
    /\ AckedOnce

\* The invariant holds at the start, before any process has joined.
LEMMA InitInv == Init => Inv
<1> SUFFICES ASSUME Init PROVE Inv
  OBVIOUS
<1> USE ConsumerConstants DEF Init, Zeroes
<1>1. TypeOK
  BY DEF TypeOK, BrokerType, MemberType, BatchType, WorldType
<1>2. WithinLog
  BY DEF WithinLog
<1>3. Ownership /\ CommittedBehind /\ Accounting /\ AckedOnce
  BY DEF Ownership, CommittedBehind, Accounting, AckedOnce, Running, Idle, Blocked
<1>4. Blocking /\ BatchShape /\ NothingHeld
  BY DEF Blocking, BatchShape, ShapeOf, NothingHeld, Blocked
<1>5. QED
  BY <1>1, <1>2, <1>3, <1>4 DEF Inv

\* Every action preserves the invariant.
LEMMA InvStep == Inv /\ [Next]_vars => Inv'
  BY BrokerStep, MemberStep, BatchStep, WorldStep, WithinLogStep, OwnershipStep,
     BlockingStep, BatchShapeStep, CommittedBehindStep, AccountingStep, NothingHeldStep,
     AckedOnceStep
  DEF Inv, TypeOK

\* Hence it always holds.
LEMMA Invariance == Spec => []Inv
  BY InitInv, InvStep, PTL DEF Spec

\* Every variable keeps its type, for every size of group, topic and delay.
THEOREM TypeCorrect == Spec => []TypeOK
<1>1. Inv => TypeOK
  BY DEF Inv
<1>2. QED
  BY <1>1, Invariance, PTL

\* Close finds every rebalance allowed, whichever way Run ended, a panic in the
\* decoder, the handler, the Sink or the hook included: the process that stops
\* does not hang there.
THEOREM CloseNeverWaits ==
    Spec => [](\A m \in Members : pc[m] = "closing" => m \notin blocking)
<1>1. Inv => \A m \in Members : pc[m] = "closing" => m \notin blocking
  BY DEF Inv, Blocking, Blocked
<1>2. QED
  BY <1>1, Invariance, PTL

\* Accounting, restated for the set of committed records.
LEMMA CommittedAreAccountedFor == Accounting /\ TypeOK => Committed \subseteq AccountedFor
<1> SUFFICES ASSUME Accounting, TypeOK, NEW r \in Committed PROVE r \in AccountedFor
  OBVIOUS
<1>1. PICK p \in Partitions : r \in Between(p, 0, committed[p])
  BY DEF Committed
<1>2. PICK o \in 0..(committed[p] - 1) : r = <<p, o>>
  BY <1>1 DEF Between
<1>3. o \in Nat /\ o < committed[p]
  BY <1>2 DEF TypeOK, BrokerType
<1>4. QED
  BY <1>2, <1>3 DEF Accounting

\* Whatever crashes, is revoked, evicted or fails, an offset the group has
\* committed covers only records with a row, on another topic, or thrown away by
\* a bounded poll: no other path of Run, batch, process and commit loses one.
THEOREM OnlyDiscardsAreLost == Spec => []OnlyDiscardsLose
<1>1. Inv => OnlyDiscardsLose
  BY CommittedAreAccountedFor DEF Inv, OnlyDiscardsLose, AccountedFor
<1>2. QED
  BY <1>1, Invariance, PTL

\* On the events topic, where Delay is zero, nothing is lost at all.
THEOREM NothingIsLost == ASSUME Delay = 0 PROVE Spec => []NoLoss
<1>1. Inv => NoLoss
  BY CommittedAreAccountedFor DEF Inv, NoLoss, AccountedFor, NothingHeld
<1>2. QED
  BY <1>1, Invariance, PTL

\* BlockRebalanceOnPoll keeps the batches of one generation apart.
THEOREM BatchesAreExclusive == Spec => []ExclusiveBatch
<1>1. ASSUME Inv, NEW m \in enrolled, NEW n \in enrolled, NEW p \in Partitions,
             m # n, from[m][p] < upto[m][p]
      PROVE  from[n][p] = upto[n][p]
  <2>1. m \in Members /\ n \in Members
    BY <1>1 DEF Inv, TypeOK, BrokerType
  <2>2. p \in assigned[m]
    BY <1>1, <2>1, InBatchIsAssigned DEF Inv
  <2>3. p \notin assigned[n]
    BY <1>1, <2>2 DEF Inv, Ownership
  <2>4. QED
    BY <1>1, <2>1, <2>3 DEF Inv, BatchShape, ShapeOf
<1>2. Inv => ExclusiveBatch
  BY <1>1 DEF ExclusiveBatch
<1>3. QED
  BY <1>2, Invariance, PTL

\* No commit, of a member that is late, evicted or restarted, moves the group back.
THEOREM CommitsNeverGoBack == Spec => CommitNeverGoesBack
<1> DEFINE Grows == \A p \in Partitions : committed[p] <= committed'[p]
<1>1. ASSUME Inv, [Next]_vars PROVE Grows
  <2>1. \A p \in Partitions : committed[p] \in Nat
    BY <1>1 DEF Inv, TypeOK, BrokerType
  <2>2. CASE UNCHANGED committed
    BY <2>1, <2>2
  <2>3. ASSUME NEW m \in Members, commit(m) \/ CommitFails(m) PROVE Grows
    <3>1. CASE committed' = committed
      BY <2>1, <3>1
    <3>2. CASE m \in enrolled /\ pc[m] = "commit" /\ committed' = CommitRecords(m)
      BY <1>1, <3>2, CommitRecordsGrows DEF Inv
    <3>3. Acked(m) = {} => CommitRecords(m) = committed
      BY <1>1 DEF Inv, TypeOK, BrokerType, CommitRecords
    <3>4. QED
      BY <2>3, <3>1, <3>2, <3>3 DEF commit, CommitFails
  <2>4. ASSUME NEW m \in Members, Run(m) PROVE Grows
    BY <2>2, <2>3, <2>4 DEF Run, brokerVars, resumeRipe, pollDeadline, Poll, PollEmpty, hold,
       Done, Forward, Refuse, EndOfBatch, Close
  <2>5. ASSUME NEW m \in Members, NEW p \in Partitions, Assign(m, p) \/ Revoke(m, p)
        PROVE  Grows
    BY <2>2, <2>5 DEF brokerVars, Assign, Revoke
  <2>6. ASSUME NEW m \in Members,
               Start(m) \/ Crash(m) \/ Panic(m) \/ Signal(m) \/ Evict(m) \/ Lost(m)
        PROVE  Grows
    BY <2>2, <2>6 DEF brokerVars, Start, Crash, Panic, Signal, Evict, Lost
  <2>7. CASE Tick \/ (\E p \in Partitions : Produce(p)) \/ UNCHANGED vars
    BY <2>2, <2>7 DEF Tick, Produce, vars
  <2>8. QED
    BY <1>1, <2>4, <2>5, <2>6, <2>7 DEF Next
<1>2. Inv /\ [Next]_vars => [Grows]_vars
  BY <1>1
<1>3. QED
  BY <1>2, Invariance, PTL DEF Spec, CommitNeverGoesBack

\* Shutdowns and rebalances alone never have an acked record handled again.
THEOREM NoFaultNoRedelivery == Spec => []NoRedeliveryWithoutFault
<1>1. Inv => NoRedeliveryWithoutFault
  BY DEF Inv, AckedOnce, NoRedeliveryWithoutFault
<1>2. QED
  BY <1>1, Invariance, PTL

-----------------------------------------------------------------------------
(* What a member waits for.                                                  *)

\* WaitingIsForTheCursor for every member, dropped by the group or not: what Lost
\* forgets is then everything, and a process that is gone waits for nothing.
WaitsFor(m, p) ==
    waiting[m][p] # 0 =>
        /\ pc[m] # "down"
        /\ p \in assigned[m] /\ p \in paused[m]
        /\ cursor[m][p] < Len(log[p])
        /\ waiting[m][p] = log[p][cursor[m][p] + 1] + Delay

LEMMA WaitsForStep ==
    ASSUME TypeOK, WithinLog, Blocking, BatchShape,
           \A m \in Members, p \in Partitions : WaitsFor(m, p),
           [Next]_vars, NEW n \in Members, NEW q \in Partitions
    PROVE  WaitsFor(n, q)'
<1> USE ConsumerConstants
<1> USE DEF WaitsFor, TypeOK, BrokerType, MemberType, BatchType, Running, Idle, Blocked,
    brokerVars, clientVars, batchVars, worldVars, boundVars
<1>1. CASE Tick
  BY <1>1 DEF Tick
<1>2. ASSUME NEW p \in Partitions, Produce(p) PROVE WaitsFor(n, q)'
  <2>1. UNCHANGED <<pc, assigned, paused, waiting, cursor>>
    BY <1>2 DEF Produce
  <2>2. log[q] \in Seq(0..MaxClock) /\ Len(log[q]) \in Nat /\ cursor[n][q] \in Nat
    OBVIOUS
  <2>3. \/ log'[q] = log[q]
        \/ log'[q] = Append(log[q], clock)
    BY <1>2 DEF Produce
  <2>4. CASE log'[q] = log[q]
    BY <2>1, <2>4
  <2>5. CASE log'[q] = Append(log[q], clock)
    <3>1. /\ Len(log'[q]) = Len(log[q]) + 1
          /\ \A i \in 1..Len(log[q]) : log'[q][i] = log[q][i]
      BY <2>2, <2>5
    <3>2. cursor[n][q] < Len(log[q]) => /\ cursor[n][q] < Len(log'[q])
                                        /\ cursor[n][q] + 1 \in 1..Len(log[q])
      <4> HIDE DEF WaitsFor, TypeOK, BrokerType, MemberType, BatchType
      <4>1. QED
        BY <2>2, <3>1
    <3>3. QED
      BY <2>1, <3>1, <3>2
  <2>6. QED
    BY <2>3, <2>4, <2>5
<1>3. ASSUME NEW m \in Members, Start(m) PROVE WaitsFor(n, q)'
  BY <1>3 DEF Start
<1>4. ASSUME NEW m \in Members, Crash(m) PROVE WaitsFor(n, q)'
  BY <1>4 DEF Crash, Forgotten, Zeroes
<1>5. ASSUME NEW m \in Members, Signal(m) PROVE WaitsFor(n, q)'
  BY <1>5 DEF Signal
<1>6. ASSUME NEW m \in Members, Close(m) PROVE WaitsFor(n, q)'
  BY <1>6 DEF Close, Forgotten, Zeroes
<1>7. ASSUME NEW m \in Members, NEW p \in Partitions, Assign(m, p) PROVE WaitsFor(n, q)'
  <2>1. n = m /\ q = p => waiting[n][q] = 0
    BY <1>7, RebalancesBetweenRounds DEF Assign
  <2>2. CASE n = m /\ q = p
    BY <1>7, <2>1, <2>2 DEF Assign
  <2>3. CASE ~(n = m /\ q = p)
    <3>1. cursor'[n][q] = cursor[n][q] /\ (q \in assigned[n] => q \in assigned'[n])
      BY <1>7, <2>3 DEF Assign
    <3>2. UNCHANGED <<log, pc, paused, waiting>>
      BY <1>7, RebalancesBetweenRounds DEF Assign
    <3>3. QED
      BY <3>1, <3>2
  <2>4. QED
    BY <2>2, <2>3
<1>8. ASSUME NEW m \in Members, NEW p \in Partitions, Revoke(m, p) PROVE WaitsFor(n, q)'
  BY <1>8, RebalancesBetweenRounds DEF Revoke, forget
<1>9. ASSUME NEW m \in Members, Evict(m) PROVE WaitsFor(n, q)'
  BY <1>9 DEF Evict
<1>10. ASSUME NEW m \in Members, Lost(m) PROVE WaitsFor(n, q)'
  BY <1>10, RebalancesBetweenRounds DEF Lost, forget
<1>11. ASSUME NEW m \in Members, resumeRipe(m) PROVE WaitsFor(n, q)'
  BY <1>11 DEF resumeRipe, forget
<1>12. ASSUME NEW m \in Members, pollDeadline(m) PROVE WaitsFor(n, q)'
  BY <1>12 DEF pollDeadline
<1>13. ASSUME NEW m \in Members, Poll(m) PROVE WaitsFor(n, q)'
  <2>1. PICK hi \in Fetches(m) : Poll(m)!2!(hi)
    BY <1>13 DEF Poll
  <2>2. hi \in [Partitions -> 0..LogSize]
    BY DEF Fetches
  <2>3. waiting[n][q] # 0 => cursor'[n][q] = cursor[n][q]
    <3>1. CASE n = m /\ waiting[n][q] # 0
      <4>1. q \notin Fetchable(m)
        BY <3>1 DEF Fetchable
      <4>2. hi[q] = cursor[m][q]
        BY <4>1 DEF Fetches
      <4>3. QED
        BY <2>1, <3>1, <4>2
    <3>2. CASE n # m
      BY <2>1, <3>2
    <3>3. QED
      BY <3>1, <3>2
  <2>4. pc[n] # "down" => pc'[n] # "down"
    BY <2>1
  <2>5. UNCHANGED <<log, assigned, paused, waiting>>
    BY <1>13 DEF Poll
  <2>6. QED
    BY <2>3, <2>4, <2>5
<1>14. ASSUME NEW m \in Members, PollEmpty(m) PROVE WaitsFor(n, q)'
  BY <1>14 DEF PollEmpty
<1>15. ASSUME NEW m \in Members, NEW p \in Partitions, hold(m, p) PROVE WaitsFor(n, q)'
  <2>1. /\ p \in assigned[m] /\ pc[m] = "batch"
        /\ at[m][p] \in 0..LogSize - 1 /\ at[m][p] + 1 \in 1..Len(log[p])
    <3>1. from[m][p] \in Nat /\ at[m][p] \in Nat /\ upto[m][p] \in Nat
      OBVIOUS
    <3>2. from[m][p] <= at[m][p] /\ at[m][p] < upto[m][p]
      BY <1>15 DEF hold, Current, BatchShape, ShapeOf
    <3>3. from[m][p] < upto[m][p]
      <4> HIDE DEF WaitsFor, TypeOK, BrokerType, MemberType, BatchType
      <4>1. QED
        BY <3>1, <3>2
    <3>4. QED
      BY <1>15, <3>3, InBatchIsAssigned, CurrentInBatch DEF hold, Current
  <2>2. at[m][p] < Len(log[p])
    <3>1. Len(log[p]) \in Nat
      OBVIOUS
    <3> HIDE DEF WaitsFor, TypeOK, BrokerType, MemberType, BatchType
    <3>2. QED
      BY <2>1, <3>1
  <2>3. CASE n = m /\ q = p
    BY <1>15, <2>1, <2>2, <2>3 DEF hold
  <2>4. CASE ~(n = m /\ q = p)
    BY <1>15, <2>4 DEF hold
  <2>5. QED
    BY <2>3, <2>4
<1>16. ASSUME NEW m \in Members, NEW p \in Partitions, Done(m, p) PROVE WaitsFor(n, q)'
  BY <1>16 DEF Done
<1>17. ASSUME NEW m \in Members, NEW p \in Partitions, Forward(m, p) PROVE WaitsFor(n, q)'
  BY <1>17 DEF Forward
<1>18. ASSUME NEW m \in Members, NEW p \in Partitions, Refuse(m, p) PROVE WaitsFor(n, q)'
  BY <1>18 DEF Refuse
<1>19. ASSUME NEW m \in Members, EndOfBatch(m) PROVE WaitsFor(n, q)'
  BY <1>19 DEF EndOfBatch
<1>20. ASSUME NEW m \in Members, commit(m) PROVE WaitsFor(n, q)'
  BY <1>20 DEF commit
<1>21. ASSUME NEW m \in Members, CommitFails(m) PROVE WaitsFor(n, q)'
  BY <1>21 DEF CommitFails
<1>22. ASSUME NEW m \in Members, Panic(m) PROVE WaitsFor(n, q)'
  BY <1>22 DEF Panic, EndBatch, Fault, Zeroes
<1>23. CASE UNCHANGED vars
  BY <1>23 DEF vars
<1>24. QED
  BY <1>1, <1>2, <1>3, <1>4, <1>5, <1>6, <1>7, <1>8, <1>9, <1>10, <1>11, <1>12, <1>13,
      <1>14, <1>15, <1>16, <1>17, <1>18, <1>19, <1>20, <1>21, <1>22, <1>23 DEF Next, Run

\* A held partition is held, paused and seeked to the record it waits for, and the
\* deadline is that record's: through rebalances, lost sessions, restarts and new
\* records, no stale entry of waiting resumes a partition early or late.
THEOREM WaitingHasItsRecord == Spec => []WaitingIsForTheCursor
<1> DEFINE Waits == \A m \in Members, p \in Partitions : WaitsFor(m, p)
<1>1. Init => Waits
  BY DEF Init, Zeroes, WaitsFor
<1>2. Inv /\ Waits /\ [Next]_vars => Waits'
  BY WaitsForStep DEF Inv
<1>3. Inv /\ Waits => WaitingIsForTheCursor
  BY DEF Inv, TypeOK, BrokerType, WaitsFor, WaitingIsForTheCursor
<1>4. QED
  BY <1>1, <1>2, <1>3, Invariance, PTL DEF Spec

=============================================================================
