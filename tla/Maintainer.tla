----------------------------- MODULE Maintainer -----------------------------
(***************************************************************************)
(* The weekly partitions of events and the command that keeps them          *)
(* (cmd/partition): EnsurePartitions creates the horizon ahead of the clock, *)
(* Retain drops the weeks past the promise.  Every SQL statement that        *)
(* changes something is a step of its own, because none of them share a      *)
(* transaction: a run that is killed, loses its connection or waits too long *)
(* for a lock stops between any two.  Several maintainers run at once and    *)
(* meet in one advisory lock.  Week w holds the ticks w * WeekTicks up to    *)
(* (w + 1) * WeekTicks.                                                      *)
(***************************************************************************)
EXTENDS Integers

CONSTANTS
    Maintainers,   \* processes running cmd/partition
    LastWeek,      \* bound: weeks are 0..LastWeek
    WeekTicks,     \* ticks of the clock in a week
    Migrated,      \* the weeks 00001_events.sql created
    Start,         \* the tick the model begins at
    MaxClock,      \* bound: the last tick
    Ahead,         \* -ahead
    Behinds,       \* the values -behind is run with
    Keeps,         \* the values -retain is run with; 0 drops nothing
    Skews,         \* how far a maintainer's clock may be from the database's
    Tolerance,     \* the skew Retain lets pass
    MaxRows,       \* bound: rows inserted in a week
    MaxFaults,     \* bound: statements that fail, processes that are killed
    Operator,      \* TRUE if a person repairs what a run refused
    None

Weeks == 0..LastWeek
weekOf(t) == t \div WeekTicks
From(w) == w * WeekTicks
To(w) == (w + 1) * WeekTicks

\* The horizon EnsurePartitions keeps for a given now.
Span(t, behind) == weekOf(t) - behind .. weekOf(t) + Ahead

ASSUME MaintainerAssumption ==
    /\ WeekTicks \in Nat \ {0} /\ Ahead \in Nat \ {0} /\ Tolerance \in Nat
    /\ LastWeek \in Nat /\ Migrated \subseteq Weeks /\ Start \in Nat /\ MaxClock \in Nat /\ Start <= MaxClock
    /\ Behinds \subseteq Nat \ {0} /\ Keeps \subseteq Nat /\ Skews \subseteq Int
    /\ MaxRows \in Nat /\ MaxFaults \in Nat /\ Operator \in BOOLEAN
    /\ None \notin Maintainers /\ None \notin Nat
    /\ \A t \in Start..MaxClock, s \in Skews, b \in Behinds :
         weekOf(t + s) - b \in Weeks /\ weekOf(t + s) + Ahead \in Weeks

VARIABLES
    clock,       \* the database's now()
    hasDefault,  \* events carries a default partition
    part,        \* a week's table: absent, attached, pending (half detached), detached
    rows,        \* the rows in it
    record,      \* its line in events_partition_drops
    gone,        \* the rows that went when the table was dropped
    lock,        \* who holds the advisory lock
    run,         \* what each maintainer is doing
    untold,      \* weeks a run dropped and returned without saying so
    advised,     \* weeks a run asked a person to finalize and attach back
    faults

vars == <<clock, hasDefault, part, rows, record, gone, lock, run, untold, advised, faults>>
table == <<part, rows, record, gone>>

NoRecord == [is |-> "none", rows |-> None]

Idle == [pc |-> "idle", now |-> 0, keep |-> 0, behind |-> 0,
         todo |-> {}, cur |-> None, out |-> {}]

Init ==
    /\ clock = Start
    /\ hasDefault \in BOOLEAN
    /\ part = [w \in Weeks |-> IF w \in Migrated THEN "attached" ELSE "absent"]
    /\ rows = [w \in Weeks |-> 0]
    /\ record = [w \in Weeks |-> NoRecord]
    /\ gone = [w \in Weeks |-> None]
    /\ lock = None
    /\ run = [p \in Maintainers |-> Idle]
    /\ untold = {}
    /\ advised = {}
    /\ faults = 0

-----------------------------------------------------------------------------
(* The database and the consumers.                                           *)

Tick ==
    /\ clock < MaxClock
    /\ clock' = clock + 1
    /\ UNCHANGED <<hasDefault, table, lock, run, untold, advised, faults>>

\* A consumer's insert. A transaction older than the first half of a concurrent
\* detach still sees the partition, and the second half waits for it.
Insert(w) ==
    /\ part[w] \in {"attached", "pending"}
    /\ rows[w] < MaxRows
    /\ rows' = [rows EXCEPT ![w] = @ + 1]
    /\ UNCHANGED <<clock, hasDefault, part, record, gone, lock, run, untold, advised, faults>>

-----------------------------------------------------------------------------
(* cmd/partition: the horizon first.                                         *)

refuseDefaultPartition == hasDefault

Oldest(S) == CHOOSE w \in S : \A v \in S : w <= v

Goto(p, pc) == run' = [run EXCEPT ![p].pc = pc]

\* A call returned and its deferred unlock ran.
Return(p) ==
    /\ run' = [run EXCEPT ![p] = Idle]
    /\ lock' = IF lock = p THEN None ELSE lock

\* main: the flags, and the clock EnsurePartitions is given.
Begin(p) ==
    /\ run[p].pc = "idle"
    /\ \E s \in Skews, b \in Behinds, k \in Keeps :
         run' = [run EXCEPT ![p] = [Idle EXCEPT !.pc = "wait", !.now = clock + s,
                                                !.keep = k, !.behind = b]]
    /\ UNCHANGED <<clock, hasDefault, table, lock, untold, advised, faults>>

\* pg_advisory_lock waits. Then no default partition may be there.
EnsurePartitions(p) ==
    /\ run[p].pc = "wait" /\ lock = None
    /\ IF refuseDefaultPartition
         THEN Return(p)
         ELSE /\ lock' = p
              /\ run' = [run EXCEPT ![p].pc = "create",
                                    ![p].todo = Span(run[p].now, run[p].behind)]
    /\ UNCHANGED <<clock, hasDefault, table, untold, advised, faults>>

\* One turn of the loop: to_regclass, and CREATE TABLE where it found no table of
\* that name, attached or not.
CreateWeek(p) ==
    /\ run[p].pc = "create" /\ run[p].todo # {}
    /\ LET w == Oldest(run[p].todo)
       IN  /\ part' = [part EXCEPT ![w] = IF @ = "absent" THEN "attached" ELSE @]
           /\ rows' = [rows EXCEPT ![w] = IF part[w] = "absent" THEN 0 ELSE @]
           /\ run' = [run EXCEPT ![p].todo = @ \ {w}]
    /\ UNCHANGED <<clock, hasDefault, record, gone, lock, untold, advised, faults>>

\* Mutant: the deferred unlock is missing.
EnsuredKeepsLock(p) ==
    /\ run[p].pc = "create" /\ run[p].todo = {}
    /\ run' = [run EXCEPT ![p] = IF @.keep = 0 THEN Idle ELSE [@ EXCEPT !.pc = "ensured"]]
    /\ UNCHANGED <<clock, hasDefault, table, lock, untold, advised, faults>>

\* EnsurePartitions returned nil, and main goes on if -retain is positive.
Ensured(p) ==
    /\ run[p].pc = "create" /\ run[p].todo = {}
    /\ lock' = None
    /\ run' = [run EXCEPT ![p] = IF @.keep = 0 THEN Idle ELSE [@ EXCEPT !.pc = "ensured"]]
    /\ UNCHANGED <<clock, hasDefault, table, untold, advised, faults>>

-----------------------------------------------------------------------------
(* Retain.                                                                   *)

\* Mutant: a failed pg_try_advisory_lock is not looked at.
RetainWithoutLock(p) ==
    /\ run[p].pc = "ensured"
    /\ lock' = p
    /\ \E s \in Skews : run' = [run EXCEPT ![p].pc = "check", ![p].now = clock + s]
    /\ UNCHANGED <<clock, hasDefault, table, untold, advised, faults>>

\* The clock is read again, and pg_try_advisory_lock does not wait.
Retain(p) ==
    /\ run[p].pc = "ensured"
    /\ IF lock # None
         THEN Return(p)
         ELSE /\ lock' = p
              /\ \E s \in Skews :
                   run' = [run EXCEPT ![p].pc = "check", ![p].now = clock + s]
    /\ UNCHANGED <<clock, hasDefault, table, untold, advised, faults>>

\* Mutant: the caller's clock is trusted.
RefusesNoClock(p) == run[p].keep < run[p].behind * WeekTicks \/ refuseDefaultPartition

\* Mutant: the floor forgets one week of the span.
RefusesLowerFloor(p) ==
    \/ run[p].now - clock > Tolerance
    \/ run[p].keep < (run[p].behind - 1) * WeekTicks
    \/ refuseDefaultPartition

\* ErrClockAhead, ErrKeepInsideHorizon, ErrDefaultPartition.
Refuses(p) ==
    \/ run[p].now - clock > Tolerance
    \/ run[p].keep < run[p].behind * WeekTicks
    \/ refuseDefaultPartition

Check(p) ==
    /\ run[p].pc = "check"
    /\ IF Refuses(p) THEN Return(p) ELSE Goto(p, "resume") /\ UNCHANGED lock
    /\ UNCHANGED <<clock, hasDefault, table, untold, advised, faults>>

Inherited(w) == part[w] \in {"attached", "pending"}

\* Mutant: the record is written and never read.
ResumeNothing(p) ==
    /\ run[p].pc = "resume"
    /\ Goto(p, "search")
    /\ UNCHANGED <<clock, hasDefault, table, lock, untold, advised, faults>>

\* resumeUnfinished's query: the open records of tables that are not inherited.
Resume(p) ==
    /\ run[p].pc = "resume"
    /\ run' = [run EXCEPT ![p].pc = "unfinished",
                          ![p].todo = {w \in Weeks : record[w].is = "open" /\ ~Inherited(w)}]
    /\ UNCHANGED <<clock, hasDefault, table, lock, untold, advised, faults>>

\* Mutant: what is found detached is dropped without a look at its count.
NextUnfinishedUncounted(p) ==
    /\ run[p].pc = "unfinished"
    /\ LET w == Oldest(run[p].todo)
       IN  IF run[p].todo = {} THEN Goto(p, "search")
           ELSE run' = [run EXCEPT ![p].cur = w, ![p].todo = @ \ {w}, ![p].pc = "redrop"]
    /\ UNCHANGED <<clock, hasDefault, table, lock, untold, advised, faults>>

\* The next of them, straight to what is left to do for it.
NextUnfinished(p) ==
    /\ run[p].pc = "unfinished"
    /\ LET w == Oldest(run[p].todo)
       IN  IF run[p].todo = {} THEN Goto(p, "search")
           ELSE run' = [run EXCEPT
                  ![p].cur = w,
                  ![p].todo = @ \ {w},
                  ![p].pc = CASE part[w] = "absent" -> "restamp"
                              [] record[w].rows = None -> "recount"
                              [] OTHER -> "redrop"]
    /\ UNCHANGED <<clock, hasDefault, table, lock, untold, advised, faults>>

\* Mutant: a partition that ends after the boundary, but begins before it.
PastByStart(p) == {w \in Weeks : Inherited(w) /\ From(w) <= run[p].now - run[p].keep}

pastPartitions(p) == {w \in Weeks : Inherited(w) /\ To(w) <= run[p].now - run[p].keep}

pendingDetach == {w \in Weeks : part[w] = "pending"}

\* The candidates, or ErrPendingDetachElsewhere, which returns nil for out.
Search(p) ==
    /\ run[p].pc = "search"
    /\ IF pendingDetach \subseteq pastPartitions(p)
         THEN /\ run' = [run EXCEPT ![p].pc = "next", ![p].todo = pastPartitions(p)]
              /\ UNCHANGED <<lock, untold, advised>>
         ELSE /\ untold' = untold \cup run[p].out
              /\ advised' = advised \cup pendingDetach
              /\ Return(p)
    /\ UNCHANGED <<clock, hasDefault, table, faults>>

\* The pending one goes first, then the oldest.
NextCandidate(p) ==
    /\ run[p].pc = "next"
    /\ LET first == run[p].todo \cap pendingDetach
           w == IF first # {} THEN Oldest(first) ELSE Oldest(run[p].todo)
       IN  IF run[p].todo = {} THEN Return(p)
           ELSE /\ run' = [run EXCEPT ![p].pc = "record", ![p].cur = w, ![p].todo = @ \ {w}]
                /\ UNCHANGED lock
    /\ UNCHANGED <<clock, hasDefault, table, untold, advised, faults>>

-----------------------------------------------------------------------------
(* dropOne, statement by statement.                                          *)

\* Mutant: the upsert has no WHERE.
RecordOverwrites(p) ==
    LET w == run[p].cur
    IN  /\ run[p].pc = "record"
        /\ record' = [record EXCEPT ![w] = [is |-> "open", rows |-> @.rows]]
        /\ Goto(p, "detach")
        /\ UNCHANGED <<clock, hasDefault, part, rows, gone, lock, untold, advised, faults>>

\* Mutant: the record comes with the count, after the detach.
RecordLater(p) ==
    /\ run[p].pc = "record"
    /\ Goto(p, "detach")
    /\ UNCHANGED <<clock, hasDefault, table, lock, untold, advised, faults>>

\* The upsert. A stamped record is ErrWeekReturned and ends the run.
Record(p) ==
    LET w == run[p].cur
    IN  /\ run[p].pc = "record"
        /\ IF record[w].is = "dropped"
             THEN Return(p) /\ UNCHANGED record
             ELSE /\ record' = [record EXCEPT ![w].is = "open"]
                  /\ Goto(p, "detach")
                  /\ UNCHANGED lock
        /\ UNCHANGED <<clock, hasDefault, part, rows, gone, untold, advised, faults>>

\* Mutant: the first half is taken for the whole.
DetachHalf(p) ==
    LET w == run[p].cur
    IN  /\ run[p].pc = "detach"
        /\ IF Inherited(w) /\ pendingDetach \subseteq {w}
             THEN /\ part' = [part EXCEPT ![w] = "pending"]
                  /\ Goto(p, "count")
                  /\ UNCHANGED lock
             ELSE Return(p) /\ UNCHANGED part
        /\ UNCHANGED <<clock, hasDefault, rows, record, gone, untold, advised, faults>>

\* DETACH CONCURRENTLY's first transaction, which is where FINALIZE begins. Postgres
\* allows one pending detach (55000), and nothing to do to one that is finished.
Detach(p) ==
    LET w == run[p].cur
    IN  /\ run[p].pc = "detach"
        /\ IF Inherited(w) /\ pendingDetach \subseteq {w}
             THEN /\ part' = [part EXCEPT ![w] = "pending"]
                  /\ Goto(p, "finalize")
                  /\ UNCHANGED lock
             ELSE Return(p) /\ UNCHANGED part
        /\ UNCHANGED <<clock, hasDefault, rows, record, gone, untold, advised, faults>>

\* Its second transaction, or FINALIZE.
Finalize(p) ==
    LET w == run[p].cur
    IN  /\ run[p].pc = "finalize"
        /\ IF part[w] = "pending"
             THEN /\ part' = [part EXCEPT ![w] = "detached"]
                  /\ Goto(p, "count")
                  /\ UNCHANGED lock
             ELSE Return(p) /\ UNCHANGED part
        /\ UNCHANGED <<clock, hasDefault, rows, record, gone, untold, advised, faults>>

\* count(*), and the UPDATE that writes it down.
Count(p) ==
    LET w == run[p].cur
    IN  /\ run[p].pc \in {"count", "recount"}
        /\ record' = [record EXCEPT ![w].rows = rows[w]]
        /\ Goto(p, IF run[p].pc = "count" THEN "drop" ELSE "redrop")
        /\ UNCHANGED <<clock, hasDefault, part, rows, gone, lock, untold, advised, faults>>

\* DROP TABLE does not ask whether the table is still detached.
Drop(p) ==
    LET w == run[p].cur
    IN  /\ run[p].pc \in {"drop", "redrop"}
        /\ part' = [part EXCEPT ![w] = "absent"]
        /\ gone' = [gone EXCEPT ![w] = rows[w]]
        /\ rows' = [rows EXCEPT ![w] = 0]
        /\ Goto(p, IF run[p].pc = "drop" THEN "stamp" ELSE "restamp")
        /\ UNCHANGED <<clock, hasDefault, record, lock, untold, advised, faults>>

Stamp(p) ==
    LET w == run[p].cur
    IN  /\ run[p].pc \in {"stamp", "restamp"}
        /\ record' = [record EXCEPT ![w].is = "dropped"]
        /\ run' = [run EXCEPT ![p].pc = IF @ = "stamp" THEN "next" ELSE "unfinished",
                              ![p].out = @ \cup {w}]
        /\ UNCHANGED <<clock, hasDefault, part, rows, gone, lock, untold, advised, faults>>

-----------------------------------------------------------------------------
(* What stops a run, and the person who reads its error.                     *)

\* A statement fails: a lock not had within lockTimeout, a server that went away.
\* Between resumeUnfinished and the loop the error is returned with nil.
Fail(p) ==
    /\ run[p].pc # "idle"
    /\ faults < MaxFaults
    /\ faults' = faults + 1
    /\ untold' = IF run[p].pc = "search" THEN untold \cup run[p].out ELSE untold
    /\ Return(p)
    /\ UNCHANGED <<clock, hasDefault, table, advised>>

\* The process is killed; its session ends, and the lock with it.
Kill(p) ==
    /\ run[p].pc # "idle"
    /\ faults < MaxFaults
    /\ faults' = faults + 1
    /\ Return(p)
    /\ UNCHANGED <<clock, hasDefault, table, untold, advised>>

\* "finish it with DETACH ... FINALIZE and then ATTACH it back, in that order"
OperatorFinalizes(w) ==
    /\ Operator /\ w \in advised /\ part[w] = "pending"
    /\ part' = [part EXCEPT ![w] = "detached"]
    /\ UNCHANGED <<clock, hasDefault, rows, record, gone, lock, run, untold, advised, faults>>

OperatorAttaches(w) ==
    /\ Operator /\ w \in advised /\ part[w] = "detached"
    /\ part' = [part EXCEPT ![w] = "attached"]
    /\ advised' = advised \ {w}
    /\ UNCHANGED <<clock, hasDefault, rows, record, gone, lock, run, untold, faults>>

Step(p) ==
    \/ EnsurePartitions(p) \/ CreateWeek(p) \/ Ensured(p)
    \/ Retain(p) \/ Check(p) \/ Resume(p) \/ NextUnfinished(p) \/ Search(p) \/ NextCandidate(p)
    \/ Record(p) \/ Detach(p) \/ Finalize(p) \/ Count(p) \/ Drop(p) \/ Stamp(p)

Next ==
    \/ Tick
    \/ \E w \in Weeks : Insert(w) \/ OperatorFinalizes(w) \/ OperatorAttaches(w)
    \/ \E p \in Maintainers : Begin(p) \/ Step(p) \/ Fail(p) \/ Kill(p)

Spec == Init /\ [][Next]_vars

\* The job is on a schedule and the clock goes on; nobody owes a row, a fault or
\* a repair.
FairSpec ==
    /\ Spec
    /\ WF_vars(Tick)
    /\ \A p \in Maintainers : WF_vars(Begin(p)) /\ WF_vars(Step(p))

-----------------------------------------------------------------------------
(* Properties.                                                               *)

PCs == {"idle", "wait", "create", "ensured", "check", "resume", "unfinished", "recount",
        "redrop", "restamp", "search", "next", "record", "detach", "finalize", "count",
        "drop", "stamp"}
Unlocked == {"idle", "wait", "ensured"}

DataType ==
    /\ clock \in Start..MaxClock /\ hasDefault \in BOOLEAN
    /\ part \in [Weeks -> {"absent", "attached", "pending", "detached"}]
    /\ rows \in [Weeks -> 0..MaxRows]
    /\ record \in [Weeks -> [is : {"none", "open", "dropped"}, rows : 0..MaxRows \cup {None}]]
    /\ gone \in [Weeks -> 0..MaxRows \cup {None}]
    /\ untold \subseteq Weeks /\ advised \subseteq Weeks /\ faults \in 0..MaxFaults

Runs == [pc : PCs, now : Int, keep : Keeps \cup {0}, behind : Behinds \cup {0},
         todo : SUBSET Weeks, cur : Weeks \cup {None}, out : SUBSET Weeks]

RunType == run \in [Maintainers -> Runs]

LockType ==
    /\ lock \in Maintainers \cup {None}
    /\ \A p \in Maintainers : run[p].pc \notin Unlocked <=> lock = p

\* Types, and the lock's holder is the one maintainer past its lock statement.
TypeOK == DataType /\ RunType /\ LockType

\* A table that is not, or no longer wholly, part of events has an open record,
\* wherever a run stopped: "without the row first it would be an orphan nobody is
\* looking for" (00002_events_retention.sql).
NoOrphan == \A w \in Weeks : part[w] \in {"pending", "detached"} => record[w].is = "open"

\* The record of a dropped week says how many rows went with it, whichever run
\* counted and whichever dropped, one run at a time: "exact rather than an estimate".
CountIsExact == \A w \in Weeks : record[w].is = "dropped" => record[w].rows = gone[w]

\* With a person who attaches weeks back between two runs the count may be one of
\* before that, and then it is too low: rows came after it and none leave a week. No
\* dropped week is ever without a count or with one that is too high.
CountNeverTooHigh ==
    \A w \in Weeks : record[w].is = "dropped" =>
        record[w].rows # None /\ record[w].rows <= gone[w]

\* A week that was dropped is not there again. ("a recreated week is the one
\* adr/0002 says can hold an event counted twice")
NoWeekReturns == \A w \in Weeks : record[w].is = "dropped" => part[w] = "absent"

\* No run drops a week that the horizon keeps alive under every -behind in use, by
\* the database's clock, which the skew Retain lets pass may be ahead of, whatever
\* promise and clock it was given: "an active partition cannot be dropped by accident".
HorizonIsNeverDropped ==
    [][\A w \in Weeks : part[w] # "absent" /\ part'[w] = "absent" =>
         \E b \in Behinds : w < weekOf(clock + Tolerance) - b]_vars

\* A stamped record is never touched, and its week, should it be back, never taken
\* apart: what to do with it "is a person's decision".
StampIsFinal ==
    [][\A w \in Weeks : record[w].is = "dropped" =>
         /\ record'[w] = record[w]
         /\ part[w] = "attached" => part'[w] = "attached"]_vars

\* EnsurePartitions "creates every weekly partition the span asks for": when it
\* returns nil all of them take rows.
EnsureCovers ==
    \A p \in Maintainers : run[p].pc = "create" /\ run[p].todo = {} =>
      \A w \in Span(run[p].now, run[p].behind) : part[w] = "attached"

\* main prints what a failed run dropped: "Whatever was dropped before the failure
\* is still dropped, and the record says so; printing it first is how the operator
\* knows where it stopped".
ReportIsComplete == untold = {}

\* A week that a run refused to finish and asked a person to attach back is dropped
\* only by a run whose own boundary it is past: finishing the detach of any other
\* "is the wrong move", because it "takes live data out of the table".
AdvisedIsNotDropped ==
    [][\A w \in advised : part[w] # "absent" /\ part'[w] = "absent" =>
         \E p \in Maintainers : run[p].cur = w /\ To(w) <= run[p].now - run[p].keep]_vars

\* A week past every promise is dropped and stamped, whatever failed on the way. The
\* one way out is the refusal: a detach a run left half done, on a week a later run's
\* promise still keeps, stops every such run until a person repairs it.
PastIsDropped ==
    \A w \in Weeks :
      [](~hasDefault /\ part[w] # "absent" /\ (\A k \in Keeps : To(w) <= clock - k) =>
           <>(\/ record[w].is = "dropped" /\ part[w] = "absent"
              \/ advised \cap pendingDetach # {}))

=============================================================================
