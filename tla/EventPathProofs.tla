-------------------------- MODULE EventPathProofs ---------------------------
(***************************************************************************)
(* Proofs about EventPath.  To the table, everything the ladder does with an *)
(* event is an insert or nothing: EventPath implements Maintainer, and what  *)
(* is proved of the weeks holds while an event is on its way to one of them. *)
(* From there: one event is one row, and the row stays accounted for.        *)
(***************************************************************************)
EXTENDS EventPath, MaintainerOrderlyProofs

-----------------------------------------------------------------------------
(* The table's side of a delivery.                                           *)

\* What Answers may answer: nothing new, or the row of the event in its week.
Lands ==
    /\ Inherited(week) /\ rows[week] = 0
    /\ rows' = [rows EXCEPT ![week] = 1]

LEMMA InsertKinds ==
    ASSUME NEW err \in InsertErrors
    PROVE  /\ err.kind \in {"nil", "notInserted", "net", "pg"}
           /\ err.kind = "pg" => err.code = "23514" /\ ~err.named
<1>1. \A k : Ladder!Plain(k).kind = k
  BY DEF Ladder!Plain
<1>2. /\ Ladder!Pg("23514", FALSE).kind = "pg" /\ Ladder!Pg("23514", FALSE).code = "23514"
      /\ Ladder!Pg("23514", FALSE).named = FALSE
  BY DEF Ladder!Pg
<1>3. \/ err = Ladder!Plain("nil") \/ err = Ladder!Plain("notInserted")
      \/ err = Ladder!Plain("net") \/ err = Ladder!Pg("23514", FALSE)
  BY DEF InsertErrors
<1>4. QED
  BY <1>1, <1>2, <1>3

LEMMA AnswerCases ==
    ASSUME NEW err \in InsertErrors, rows' \in Answers(err)
    PROVE  /\ Lands \/ rows' = rows
           /\ err.kind = "nil" => Lands
           /\ err.kind = "notInserted" => rows' = rows /\ rows[week] = 1
<1>1. CASE err.kind = "nil"
  BY <1>1 DEF Answers, Lands
<1>2. CASE err.kind = "notInserted"
  BY <1>2 DEF Answers
<1>3. CASE err.kind = "pg"
  BY <1>3 DEF Answers
<1>4. CASE err.kind = "net"
  BY <1>4 DEF Answers, Lands
<1>5. QED
  BY <1>1, <1>2, <1>3, <1>4, InsertKinds

LEMMA DeliverInserts ==
    ASSUME Inv, week \in Weeks, NEW c, NEW err \in InsertErrors, Deliver(c, err)
    PROVE  Insert(week) \/ UNCHANGED vars
<1>1. UNCHANGED <<clock, hasDefault, part, record, gone, lock, run, untold, advised, faults>>
  BY DEF Deliver
<1>2. Lands \/ rows' = rows
  BY AnswerCases DEF Deliver
<1>3. CASE rows' = rows
  BY <1>1, <1>3 DEF vars
<1>4. CASE Lands
  <2>1. rows[week] < MaxRows
    BY <1>4, RowAssumption DEF Lands
  <2>2. rows' = [rows EXCEPT ![week] = @ + 1]
    BY <1>4 DEF Lands
  <2>3. QED
    BY <1>1, <1>4, <2>1, <2>2 DEF Lands, Inherited, Insert
<1>5. QED
  BY <1>2, <1>3, <1>4

\* The maintainer's part of a step.
MaintainerStep == Tick \/ \E p \in Maintainers : Begin(p) \/ Step(p) \/ Fail(p) \/ Kill(p)

LEMMA TableStep ==
    ASSUME Inv, week \in Weeks, [EventNext]_<<vars, path>>
    PROVE  [Next]_vars /\ week' = week
<1>1. ASSUME NEW c \in inflight, NEW err \in InsertErrors, Deliver(c, err)
      PROVE  [Next]_vars /\ week' = week
  <2>1. Insert(week) \/ UNCHANGED vars
    BY <1>1, DeliverInserts
  <2>2. week' = week
    BY <1>1 DEF Deliver
  <2>3. QED
    BY <2>1, <2>2 DEF Next
<1>2. ASSUME NEW c \in stopped, Replay(c) PROVE UNCHANGED vars /\ week' = week
  BY <1>2 DEF Replay
<1>3. CASE MaintainerStep /\ UNCHANGED path
  BY <1>3 DEF MaintainerStep, Next, path
<1>4. CASE UNCHANGED <<vars, path>>
  BY <1>4 DEF path
<1>5. QED
  BY <1>1, <1>2, <1>3, <1>4 DEF EventNext, MaintainerStep

LEMMA TableInvariance == EventSpec => [](Inv /\ week \in Weeks)
<1>1. EventInit => Inv /\ week \in Weeks
  BY InitInv DEF EventInit
<1>2. Inv /\ week \in Weeks /\ [EventNext]_<<vars, path>> => Inv' /\ (week \in Weeks)'
  <2> SUFFICES ASSUME Inv, week \in Weeks, [EventNext]_<<vars, path>>
               PROVE  Inv' /\ week' \in Weeks
    BY DEF Weeks
  <2>1. QED
    BY TableStep, InvStep
<1>3. QED
  BY <1>1, <1>2, PTL DEF EventSpec

\* What the consumers, the ladder and a replay do between two statements of a
\* maintainer is, to the table, what Maintainer says the consumers do: everything that
\* is proved about the weeks holds on the event's path.
THEOREM PathIsMaintained == EventSpec => Spec
<1>1. EventInit => Init
  BY DEF EventInit
<1>2. Inv /\ week \in Weeks /\ [EventNext]_<<vars, path>> => [Next]_vars
  BY TableStep
<1>3. QED
  BY <1>1, <1>2, TableInvariance, PTL DEF EventSpec, Spec

-----------------------------------------------------------------------------
(* One event, one row.                                                       *)

\* The event's row is in its week's table, or went with it.
Books ==
    /\ written \in {0, 1} /\ rows[week] \in {0, 1}
    /\ rows[week] = 1 => written = 1 /\ part[week] # "absent"
    /\ written = 1 => \/ rows[week] = 1
                      \/ /\ part[week] = "absent" /\ record[week].is # "none"
                         /\ gone[week] = 1

\* What a step of a maintainer does to a week: nothing to its rows, or its table is
\* dropped with them, or there was no table and no record of one, and now it is there.
WeekKept(v) ==
    /\ rows'[v] = rows[v] /\ gone'[v] = gone[v]
    /\ part'[v] = "absent" <=> part[v] = "absent"

WeekDropped(v) ==
    /\ part[v] # "absent" /\ part'[v] = "absent" /\ record[v].is # "none"
    /\ gone'[v] = rows[v] /\ rows'[v] = 0

WeekCreated(v) ==
    /\ part[v] = "absent" /\ record[v].is = "none"
    /\ part'[v] # "absent" /\ rows'[v] = 0

LEMMA WeekStep ==
    ASSUME OrderlyInv, CountRuns, MaintainerStep, NEW v \in Weeks
    PROVE  /\ WeekKept(v) \/ WeekDropped(v) \/ WeekCreated(v)
           /\ record[v].is # "none" => record'[v].is # "none"
<1> DEFINE Goal == /\ WeekKept(v) \/ WeekDropped(v) \/ WeekCreated(v)
                   /\ record[v].is # "none" => record'[v].is # "none"
<1> SUFFICES Goal
  OBVIOUS
<1> USE DEF OrderlyInv, Inv, TypeOK, DataType, RunOK, TablesOK, CountRuns, WeekKept,
    WeekDropped, WeekCreated, Inherited, table, Working, Dropping
<1>1. CASE Tick
  BY <1>1 DEF Tick
<1>2. ASSUME NEW p \in Maintainers, Begin(p) PROVE Goal
  BY <1>2 DEF Begin
<1>3. ASSUME NEW p \in Maintainers, EnsurePartitions(p) PROVE Goal
  BY <1>3 DEF EnsurePartitions, Return
<1>4. ASSUME NEW p \in Maintainers, CreateWeek(p) PROVE Goal
  <2>1. /\ Oldest(run[p].todo) \in Weeks
        /\ record[Oldest(run[p].todo)].is = "none"
    BY <1>4, CreatedIsNew DEF CreateWeek
  <2>2. QED
    BY <1>4, <2>1 DEF CreateWeek
<1>5. ASSUME NEW p \in Maintainers, Ensured(p) PROVE Goal
  BY <1>5 DEF Ensured
<1>6. ASSUME NEW p \in Maintainers, Retain(p) PROVE Goal
  BY <1>6 DEF Retain, Return
<1>7. ASSUME NEW p \in Maintainers, Check(p) PROVE Goal
  BY <1>7 DEF Check, Return, Goto
<1>8. ASSUME NEW p \in Maintainers, Resume(p) PROVE Goal
  BY <1>8 DEF Resume
<1>9. ASSUME NEW p \in Maintainers, NextUnfinished(p) PROVE Goal
  BY <1>9 DEF NextUnfinished, Goto
<1>10. ASSUME NEW p \in Maintainers, Search(p) PROVE Goal
  BY <1>10 DEF Search, Return
<1>11. ASSUME NEW p \in Maintainers, NextCandidate(p) PROVE Goal
  BY <1>11 DEF NextCandidate, Return, Goto
<1>12. ASSUME NEW p \in Maintainers, Record(p) PROVE Goal
  BY <1>12 DEF Record, Return, Goto
<1>13. ASSUME NEW p \in Maintainers, Detach(p) PROVE Goal
  BY <1>13 DEF Detach, Return, Goto
<1>14. ASSUME NEW p \in Maintainers, Finalize(p) PROVE Goal
  BY <1>14 DEF Finalize, Return, Goto
<1>15. ASSUME NEW p \in Maintainers, Count(p) PROVE Goal
  BY <1>15 DEF Count, Goto
<1>16. ASSUME NEW p \in Maintainers, Drop(p) PROVE Goal
  BY <1>16 DEF Drop, Goto
<1>17. ASSUME NEW p \in Maintainers, Stamp(p) PROVE Goal
  BY <1>17 DEF Stamp
<1>18. ASSUME NEW p \in Maintainers, Fail(p) PROVE Goal
  BY <1>18 DEF Fail, Return
<1>19. ASSUME NEW p \in Maintainers, Kill(p) PROVE Goal
  BY <1>19 DEF Kill, Return
<1>20. QED
  BY <1>1, <1>2, <1>3, <1>4, <1>5, <1>6, <1>7, <1>8, <1>9, <1>10, <1>11, <1>12,
      <1>13, <1>14, <1>15, <1>16, <1>17, <1>18, <1>19 DEF MaintainerStep, Step

LEMMA BooksStep ==
    ASSUME CountInv, week \in Weeks, Books, [EventNext]_<<vars, path>>
    PROVE  Books'
<1>1. DataType
  BY DEF CountInv, OrderlyInv, Inv, TypeOK
<1>2. ASSUME NEW c \in inflight, NEW err \in InsertErrors, Deliver(c, err) PROVE Books'
  <2>1. /\ UNCHANGED <<part, record, gone, week>>
        /\ written' = written + rows'[week] - rows[week]
        /\ Lands \/ rows' = rows
    BY <1>2, AnswerCases DEF Deliver
  <2>2. CASE rows' = rows
    BY <2>1, <2>2 DEF Books
  <2>3. CASE Lands
    <3>1. rows[week] = 0 /\ rows'[week] = 1 /\ part[week] # "absent"
      BY <1>1, <2>3 DEF Lands, DataType, Inherited
    <3>2. written = 0
      BY <3>1 DEF Books
    <3>3. QED
      BY <2>1, <3>1, <3>2 DEF Books
  <2>4. QED
    BY <2>1, <2>2, <2>3
<1>3. ASSUME NEW c \in stopped, Replay(c) PROVE Books'
  BY <1>3 DEF Replay, vars, Books
<1>4. CASE MaintainerStep /\ UNCHANGED path
  <2>1. week' = week /\ written' = written
    BY <1>4 DEF path
  <2>2. /\ WeekKept(week) \/ WeekDropped(week) \/ WeekCreated(week)
        /\ record[week].is # "none" => record'[week].is # "none"
    BY <1>4, WeekStep DEF CountInv
  <2>3. CASE WeekKept(week)
    BY <2>1, <2>2, <2>3 DEF WeekKept, Books
  <2>4. CASE WeekDropped(week)
    BY <2>1, <2>2, <2>4 DEF WeekDropped, Books
  <2>5. CASE WeekCreated(week)
    BY <2>1, <2>2, <2>5 DEF WeekCreated, Books
  <2>6. QED
    BY <2>2, <2>3, <2>4, <2>5
<1>5. CASE UNCHANGED <<vars, path>>
  BY <1>5 DEF vars, path, Books
<1>6. QED
  BY <1>2, <1>3, <1>4, <1>5 DEF EventNext, MaintainerStep

LEMMA BooksInvariance ==
    ASSUME Orderly, ~Operator
    PROVE  EventSpec => [](CountInv /\ ExactTables /\ week \in Weeks /\ Books)
<1>1. EventInit => Books
  BY DEF EventInit, Init, Books
<1>2. CountInv /\ week \in Weeks /\ Books /\ [EventNext]_<<vars, path>> => Books'
  BY BooksStep
<1>3. EventSpec => [](CountInv /\ ExactTables)
  BY PathIsMaintained, ExactInvariance, PTL
<1>4. QED
  BY <1>1, <1>2, <1>3, TableInvariance, PTL DEF EventSpec

\* One event is one row, on every ladder and with every horizon and promise, when
\* runs are orderly: redelivered, forwarded or replayed, it never finds its week
\* again without the row it left there.
THEOREM OneEventOneRow ==
    ASSUME Orderly, ~Operator PROVE EventSpec => []CountedOnce
<1>1. Books => CountedOnce
  BY DEF Books, CountedOnce
<1>2. QED
  BY <1>1, BooksInvariance, PTL

\* A row that was written is in the table or in the count of its week's record, at
\* every step of the detach, the count and the drop.
THEOREM RowsStayOnTheBooks ==
    ASSUME Orderly, ~Operator PROVE EventSpec => []OnTheBooks
<1>1. ExactTables /\ week \in Weeks /\ Books => OnTheBooks
  BY DEF ExactTables, Books, OnTheBooks
<1>2. QED
  BY <1>1, BooksInvariance, PTL

-----------------------------------------------------------------------------
(* An event that is off the ladder is somewhere.                             *)

\* The offsets are all committed only when the row was written or a copy stopped.
Settled == inflight = {} => written = 1 \/ stopped # {}

\* Of the answers of an insert, the store takes those for Done that leave a row.
LEMMA DoneHasRow ==
    ASSUME Books, DataType, week \in Weeks, NEW c, NEW err \in InsertErrors, Deliver(c, err),
           Ladder!Outcome(err) = "Done"
    PROVE  written' = 1
<1>1. err.kind = "nil" \/ err.kind = "notInserted"
  BY InsertKinds DEF Ladder!Outcome, Ladder!Classify, Ladder!classifyPg
<1>2. written' = written + rows'[week] - rows[week]
  BY DEF Deliver
<1>3. (Lands /\ rows[week] = 0) \/ (rows' = rows /\ rows[week] = 1)
  BY <1>1, AnswerCases DEF Deliver, Lands
<1>4. CASE Lands /\ rows[week] = 0
  <2>1. rows'[week] = 1
    BY <1>4 DEF Lands, DataType
  <2>2. written = 0
    BY <1>4 DEF Books, Lands, Inherited
  <2>3. QED
    BY <1>2, <1>4, <2>1, <2>2
<1>5. CASE rows' = rows /\ rows[week] = 1
  BY <1>2, <1>5 DEF Books
<1>6. QED
  BY <1>3, <1>4, <1>5

LEMMA SettledStep ==
    ASSUME Books, DataType, week \in Weeks, Settled, [EventNext]_<<vars, path>>
    PROVE  Settled'
<1>1. ASSUME NEW c \in inflight, NEW err \in InsertErrors, Deliver(c, err) PROVE Settled'
  <2>1. CASE Ladder!Record(c, err)
    <3>1. written' = 1
      BY <1>1, <2>1, DoneHasRow DEF Ladder!Record
    <3>2. QED
      BY <3>1 DEF Settled
  <2>2. CASE Ladder!Forward(c, err)
    <3>1. inflight' # {} \/ stopped' # {}
      BY <2>2 DEF Ladder!Forward, Ladder!Settled
    <3>2. QED
      BY <3>1 DEF Settled
  <2>3. CASE Ladder!ProduceFails(c, err)
    <3>1. inflight' = inflight
      BY <2>3 DEF Ladder!ProduceFails
    <3>2. QED
      BY <3>1 DEF Settled
  <2>4. CASE Ladder!Refuse(c, err)
    <3>1. inflight' = inflight
      BY <2>4 DEF Ladder!Refuse
    <3>2. QED
      BY <1>1, <3>1 DEF Settled
  <2>5. QED
    BY <1>1, <2>1, <2>2, <2>3, <2>4 DEF Deliver
<1>2. ASSUME NEW c \in stopped, Replay(c) PROVE Settled'
  BY <1>2 DEF Replay, Settled
<1>3. CASE UNCHANGED path
  BY <1>3 DEF path, Settled
<1>4. QED
  BY <1>1, <1>2, <1>3 DEF EventNext

\* An event whose offsets are all committed is in the table, in the count of a
\* dropped week, or parked: a week that is not there yet, is being taken apart or is
\* no more does not swallow it.
THEOREM EventsAreAccountedFor ==
    ASSUME Orderly, ~Operator PROVE EventSpec => []NothingVanishes
<1>1. EventInit => Settled
  BY DEF EventInit, Settled
<1>2. CountInv /\ week \in Weeks /\ Books /\ Settled /\ [EventNext]_<<vars, path>> => Settled'
  BY SettledStep DEF CountInv, OrderlyInv, Inv, TypeOK
<1>3. ExactTables /\ week \in Weeks /\ Books /\ Settled => NothingVanishes
  BY DEF ExactTables, Books, Settled, NothingVanishes
<1>4. QED
  BY <1>1, <1>2, <1>3, BooksInvariance, PTL DEF EventSpec

=============================================================================
