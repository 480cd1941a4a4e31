-------------------------- MODULE MaintainerProofs --------------------------
(***************************************************************************)
(* Proofs about Maintainer for any number of maintainers, any clocks and    *)
(* flags, and with a person repairing what a run refused.  Inv says what a  *)
(* run knows at each statement: the tables are changed by the holder of the *)
(* advisory lock and by that person only, so what the holder has read stays *)
(* as it was.  PastInv adds when a week may have a record at all.           *)
(***************************************************************************)
EXTENDS Maintainer, WellFoundedInduction, TLAPS

-----------------------------------------------------------------------------
(* The inductive invariants.                                                 *)

\* Where a run finishes what another left, where it drops what it found itself,
\* and where it does either to the week cur.
Redoing == {"unfinished", "recount", "redrop", "restamp"}
Dropping == {"record", "detach", "finalize", "count", "drop", "stamp"}
Working == Dropping \cup {"recount", "redrop", "restamp"}

\* Past Check, with the boundary still to be used.
Checked == {"resume", "search"} \cup Redoing

\* What a maintainer's clock may have shown up to now.
Shown(n) == \E t \in Start..clock, s \in Skews : n = t + s

\* What a run knows of its own flags, clock and week.
RunOK ==
    \A p \in Maintainers :
        /\ run[p].pc # "idle" => run[p].behind \in Behinds /\ run[p].keep \in Keeps
        /\ run[p].pc \in {"wait", "create", "check"} => Shown(run[p].now)
        /\ run[p].pc = "create" => run[p].todo \subseteq Span(run[p].now, run[p].behind)
        /\ run[p].pc \in Working => run[p].cur \in Weeks

\* What it knows of the tables while it holds the lock.
TablesOK ==
    \A p \in Maintainers :
        /\ run[p].pc \in Working \ {"record"} => record[run[p].cur].is = "open"
        /\ run[p].pc \in {"stamp", "restamp"} => part[run[p].cur] = "absent"
        /\ run[p].pc \in Redoing => \A w \in run[p].todo : record[w].is = "open"
        /\ run[p].pc \in Redoing \ {"unfinished"} => run[p].cur \notin run[p].todo

Inv == TypeOK /\ RunOK /\ TablesOK /\ NoOrphan

\* The week ended longer ago than some run's horizon reaches back.
Overdue(w) ==
    w \in Weeks /\ \E b \in Behinds : To(w) + b * WeekTicks <= clock + Tolerance

\* What Check lets pass: a clock within the tolerance, a promise above the floor.
Accepted(now, keep, behind) ==
    now \in Int /\ now <= clock + Tolerance /\ behind * WeekTicks <= keep

\* A week gets a record only when it is overdue, and stays overdue.
PastRecords == \A w \in Weeks : record[w].is # "none" => Overdue(w)

PastRuns ==
    \A p \in Maintainers :
        /\ run[p].pc \in Checked => Accepted(run[p].now, run[p].keep, run[p].behind)
        /\ run[p].pc \in Dropping \cup {"next"} => \A w \in run[p].todo : Overdue(w)
        /\ run[p].pc = "record" => Overdue(run[p].cur)

PastInv == Inv /\ PastRecords /\ PastRuns

-----------------------------------------------------------------------------
(* Lemmas about the operators.                                               *)

\* A set of weeks that is not empty has an oldest one.
LEMMA OldestIsMember ==
    ASSUME NEW S \in SUBSET Weeks, S # {}
    PROVE  Oldest(S) \in S
<1>1. S \subseteq Nat
  BY MaintainerAssumption DEF Weeks
<1>2. PICK w \in S : \A v \in S : ~(<<v, w>> \in OpToRel(<, Nat))
  BY <1>1, NatLessThanWellFounded, WFMin, Zenon
<1>3. ASSUME NEW v \in S PROVE w <= v
  <2>1. v \in Nat /\ w \in Nat
    BY <1>1
  <2>2. v < w => <<v, w>> \in OpToRel(<, Nat)
    BY <2>1, Zenon DEF OpToRel
  <2>3. ~(v < w)
    BY <1>2, <2>2, Zenon
  <2>4. QED
    BY <2>1, <2>3
<1>4. QED
  BY <1>3 DEF Oldest

\* Division by the length of a week, in the one form that is needed.
LEMMA DivBound ==
    ASSUME NEW k \in Nat \ {0}, NEW n \in Int, NEW c \in Int, n * k <= c
    PROVE  n <= c \div k
  BY Z3

\* What the proofs need of the constants at almost every step.
LEMMA Constants ==
    /\ Start \in Nat /\ MaxClock \in Nat /\ MaxRows \in Nat /\ MaxFaults \in Nat
    /\ WeekTicks \in Nat \ {0} /\ Tolerance \in Nat
    /\ Behinds \subseteq Nat \ {0} /\ Keeps \subseteq Nat /\ Skews \subseteq Int
    /\ Weeks \subseteq Nat
    /\ None \notin Maintainers /\ None \notin Nat
  BY MaintainerAssumption DEF Weeks

\* The values of the flags, and the sums made of them, are integers.
LEMMA Flags ==
    /\ \A b \in Behinds : b \in Int /\ b * WeekTicks \in Int
    /\ \A k \in Keeps : k \in Int
    /\ \A s \in Skews : s \in Int
    /\ \A w \in Weeks : w \in Int /\ To(w) \in Int
  BY Constants DEF To

\* A run that returned is idle, one that goes on changed where it is and no more,
\* and nobody else's run changed.
OthersKeep(p) == \A q \in Maintainers : q # p => run'[q] = run[q]

MovesTo(p, l) ==
    /\ run'[p].pc = l /\ run'[p].now = run[p].now /\ run'[p].keep = run[p].keep
    /\ run'[p].behind = run[p].behind /\ run'[p].todo = run[p].todo
    /\ run'[p].cur = run[p].cur /\ run'[p].out = run[p].out

LEMMA ReturnRuns ==
    ASSUME RunType, NEW p \in Maintainers, Return(p)
    PROVE  RunType' /\ run'[p] = Idle /\ run'[p].pc = "idle" /\ OthersKeep(p)
<1>1. Idle \in Runs /\ Idle.pc = "idle"
  BY Constants DEF Idle, Runs, PCs
<1>2. QED
  BY <1>1 DEF RunType, Return, OthersKeep

LEMMA GotoRuns ==
    ASSUME RunType, NEW p \in Maintainers, NEW l \in PCs, Goto(p, l)
    PROVE  RunType' /\ MovesTo(p, l) /\ OthersKeep(p)
<1>1. run'[p] = [run[p] EXCEPT !.pc = l]
  BY DEF RunType, Goto
<1>2. [run[p] EXCEPT !.pc = l] \in Runs /\ MovesTo(p, l)
  BY <1>1 DEF RunType, Runs, MovesTo
<1>3. QED
  BY <1>1, <1>2 DEF RunType, Goto, OthersKeep

\* Every action keeps the types of the tables.
LEMMA DataStep ==
    ASSUME DataType, RunType, RunOK, [Next]_vars
    PROVE  DataType'
<1> USE Constants
<1> USE DEF DataType, table
<1>1. CASE Tick
  BY <1>1 DEF Tick
<1>2. ASSUME NEW w \in Weeks, Insert(w) PROVE DataType'
  BY <1>2 DEF Insert
<1>3. ASSUME NEW w \in Weeks, OperatorFinalizes(w) PROVE DataType'
  BY <1>3 DEF OperatorFinalizes
<1>4. ASSUME NEW w \in Weeks, OperatorAttaches(w) PROVE DataType'
  BY <1>4 DEF OperatorAttaches
<1>5. ASSUME NEW p \in Maintainers, Begin(p) PROVE DataType'
  BY <1>5 DEF Begin
<1>6. ASSUME NEW p \in Maintainers, EnsurePartitions(p) PROVE DataType'
  BY <1>6 DEF EnsurePartitions, Return
<1>7. ASSUME NEW p \in Maintainers, CreateWeek(p) PROVE DataType'
  <2>1. Oldest(run[p].todo) \in Weeks
    BY <1>7, OldestIsMember DEF CreateWeek, RunType, Runs
  <2>2. QED
    BY <1>7, <2>1 DEF CreateWeek
<1>8. ASSUME NEW p \in Maintainers, Ensured(p) PROVE DataType'
  BY <1>8 DEF Ensured
<1>9. ASSUME NEW p \in Maintainers, Retain(p) PROVE DataType'
  BY <1>9 DEF Retain, Return
<1>10. ASSUME NEW p \in Maintainers, Check(p) PROVE DataType'
  BY <1>10 DEF Check, Return, Goto
<1>11. ASSUME NEW p \in Maintainers, Resume(p) PROVE DataType'
  BY <1>11 DEF Resume
<1>12. ASSUME NEW p \in Maintainers, NextUnfinished(p) PROVE DataType'
  BY <1>12 DEF NextUnfinished, Goto
<1>13. ASSUME NEW p \in Maintainers, Search(p) PROVE DataType'
  BY <1>13 DEF Search, Return, RunType, Runs, pendingDetach
<1>14. ASSUME NEW p \in Maintainers, NextCandidate(p) PROVE DataType'
  BY <1>14 DEF NextCandidate, Return, Goto
<1>15. ASSUME NEW p \in Maintainers, Record(p) PROVE DataType'
  BY <1>15 DEF Record, Return, Goto
<1>16. ASSUME NEW p \in Maintainers, Detach(p) PROVE DataType'
  BY <1>16 DEF Detach, Return, Goto
<1>17. ASSUME NEW p \in Maintainers, Finalize(p) PROVE DataType'
  BY <1>17 DEF Finalize, Return, Goto
<1>18. ASSUME NEW p \in Maintainers, Count(p) PROVE DataType'
  BY <1>18 DEF Count, Goto
<1>19. ASSUME NEW p \in Maintainers, Drop(p) PROVE DataType'
  <2>1. run[p].cur \in Weeks
    BY <1>19 DEF Drop, RunOK, Working, Dropping
  <2>2. 0 \in 0..MaxRows
    BY Constants
  <2>3. rows[run[p].cur] \in 0..MaxRows
    BY <2>1 DEF DataType
  <2>4. QED
    BY <1>19, <2>1, <2>2, <2>3 DEF Drop
<1>20. ASSUME NEW p \in Maintainers, Stamp(p) PROVE DataType'
  BY <1>20 DEF Stamp
<1>21. ASSUME NEW p \in Maintainers, Fail(p) PROVE DataType'
  <2>1. untold' \subseteq Weeks
    BY <1>21 DEF Fail, RunType, Runs
  <2>2. QED
    BY <1>21, <2>1 DEF Fail
<1>22. ASSUME NEW p \in Maintainers, Kill(p) PROVE DataType'
  BY <1>22 DEF Kill, Return
<1>23. CASE UNCHANGED vars
  BY <1>23 DEF vars
<1>24. QED
  BY <1>1, <1>2, <1>3, <1>4, <1>5, <1>6, <1>7, <1>8, <1>9, <1>10, <1>11, <1>12, <1>13,
      <1>14, <1>15, <1>16, <1>17, <1>18, <1>19, <1>20, <1>21, <1>22, <1>23 DEF Next,
      Step

\* The weeks a run may be given by its clock and flags are weeks of the model.
LEMMA SpanInWeeks ==
    ASSUME RunType, RunOK, DataType, NEW p \in Maintainers, run[p].pc = "wait"
    PROVE  Span(run[p].now, run[p].behind) \subseteq Weeks
<1>1. run[p].behind \in Behinds
  BY DEF RunOK
<1>2. PICK t \in Start..clock, s \in Skews : run[p].now = t + s
  BY DEF RunOK, Shown
<1>3. t \in Start..MaxClock
  BY Constants DEF DataType
<1>4. /\ weekOf(run[p].now) - run[p].behind \in Weeks
      /\ weekOf(run[p].now) + Ahead \in Weeks
  BY <1>1, <1>2, <1>3, MaintainerAssumption
<1>5. QED
  BY <1>4, MaintainerAssumption DEF Span, Weeks

\* The candidate a run takes is one of those it found.
LEMMA NextCandidateWeek ==
    ASSUME RunType, NEW p \in Maintainers, NextCandidate(p), run[p].todo # {}
    PROVE  \E w \in Weeks : /\ w \in run[p].todo
                            /\ run' = [run EXCEPT ![p].pc = "record", ![p].cur = w,
                                                  ![p].todo = @ \ {w}]
                            /\ lock' = lock
<1> DEFINE first == run[p].todo \cap pendingDetach
           w == IF first # {} THEN Oldest(first) ELSE Oldest(run[p].todo)
<1>1. run[p].todo \in SUBSET Weeks /\ first \in SUBSET Weeks
  BY DEF RunType, Runs
<1>2. w \in run[p].todo
  BY <1>1, OldestIsMember
<1>3. QED
  BY <1>1, <1>2 DEF NextCandidate

\* Every action keeps the types of the runs: the weeks on a list come from the
\* span, the records or the tables.
LEMMA RunStep ==
    ASSUME DataType, RunType, RunOK, [Next]_vars
    PROVE  RunType'
<1>1. CASE Tick
  BY <1>1 DEF Tick, RunType
<1>2. ASSUME NEW w \in Weeks, Insert(w) PROVE RunType'
  BY <1>2 DEF Insert, RunType
<1>3. ASSUME NEW w \in Weeks, OperatorFinalizes(w) PROVE RunType'
  BY <1>3 DEF OperatorFinalizes, RunType
<1>4. ASSUME NEW w \in Weeks, OperatorAttaches(w) PROVE RunType'
  BY <1>4 DEF OperatorAttaches, RunType
<1>5. ASSUME NEW p \in Maintainers, Begin(p) PROVE RunType'
  <2>1. PICK s \in Skews, b \in Behinds, k \in Keeps :
          run' = [run EXCEPT ![p] = [Idle EXCEPT !.pc = "wait", !.now = clock + s,
                                                 !.keep = k, !.behind = b]]
    BY <1>5 DEF Begin
  <2>2. clock + s \in Int
    BY Constants DEF DataType
  <2>3. [Idle EXCEPT !.pc = "wait", !.now = clock + s, !.keep = k, !.behind = b] \in Runs
    BY <2>2 DEF Idle, Runs, PCs
  <2>4. QED
    BY <2>1, <2>3 DEF RunType
<1>6. ASSUME NEW p \in Maintainers, EnsurePartitions(p) PROVE RunType'
  <2>1. CASE refuseDefaultPartition
    BY <1>6, <2>1, ReturnRuns DEF EnsurePartitions
  <2>2. CASE ~refuseDefaultPartition
    <3>1. Span(run[p].now, run[p].behind) \subseteq Weeks
      BY <1>6, SpanInWeeks DEF EnsurePartitions
    <3>2. run'[p] \in Runs
      BY <1>6, <2>2, <3>1 DEF EnsurePartitions, RunType, Runs, PCs
    <3>3. QED
      BY <1>6, <2>2, <3>2 DEF EnsurePartitions, RunType
  <2>3. QED
    BY <2>1, <2>2
<1>7. ASSUME NEW p \in Maintainers, CreateWeek(p) PROVE RunType'
  <2>1. run'[p] \in Runs
    BY <1>7 DEF CreateWeek, RunType, Runs, PCs
  <2>2. QED
    BY <1>7, <2>1 DEF CreateWeek, RunType
<1>8. ASSUME NEW p \in Maintainers, Ensured(p) PROVE RunType'
  <2>1. run'[p] \in Runs
    BY <1>8, Constants DEF Ensured, RunType, Runs, PCs, Idle
  <2>2. QED
    BY <1>8, <2>1 DEF Ensured, RunType
<1>9. ASSUME NEW p \in Maintainers, Retain(p) PROVE RunType'
  <2>1. CASE lock # None
    BY <1>9, <2>1, ReturnRuns DEF Retain
  <2>2. ASSUME NEW s \in Skews, run' = [run EXCEPT ![p].pc = "check", ![p].now = clock + s]
        PROVE  RunType'
    <3>1. clock + s \in Int
      BY Constants DEF DataType
    <3>2. run'[p] \in Runs
      BY <2>2, <3>1 DEF RunType, Runs, PCs
    <3>3. QED
      BY <2>2, <3>2 DEF RunType
  <2>3. QED
    BY <1>9, <2>1, <2>2 DEF Retain
<1>10. ASSUME NEW p \in Maintainers, Check(p) PROVE RunType'
  <2>1. "resume" \in PCs
    BY DEF PCs
  <2>2. QED
    BY <1>10, <2>1, ReturnRuns, GotoRuns DEF Check
<1>11. ASSUME NEW p \in Maintainers, Resume(p) PROVE RunType'
  <2>1. run'[p] \in Runs
    BY <1>11 DEF Resume, RunType, Runs, PCs
  <2>2. QED
    BY <1>11, <2>1 DEF Resume, RunType
<1>12. ASSUME NEW p \in Maintainers, NextUnfinished(p) PROVE RunType'
  <2>1. CASE run[p].todo = {}
    BY <1>12, <2>1, GotoRuns DEF NextUnfinished, PCs
  <2>2. CASE run[p].todo # {}
    <3>1. Oldest(run[p].todo) \in Weeks
      BY <2>2, OldestIsMember DEF RunType, Runs
    <3>2. run'[p] \in Runs
      BY <1>12, <2>2, <3>1 DEF NextUnfinished, RunType, Runs, PCs
    <3>3. QED
      BY <1>12, <2>2, <3>2 DEF NextUnfinished, RunType
  <2>3. QED
    BY <2>1, <2>2
<1>13. ASSUME NEW p \in Maintainers, Search(p) PROVE RunType'
  <2>1. CASE ~(pendingDetach \subseteq pastPartitions(p))
    BY <1>13, <2>1, ReturnRuns DEF Search
  <2>2. CASE pendingDetach \subseteq pastPartitions(p)
    <3>1. pastPartitions(p) \subseteq Weeks
      BY DEF pastPartitions
    <3>2. run'[p] \in Runs
      BY <1>13, <2>2, <3>1 DEF Search, RunType, Runs, PCs
    <3>3. QED
      BY <1>13, <2>2, <3>2 DEF Search, RunType
  <2>3. QED
    BY <2>1, <2>2
<1>14. ASSUME NEW p \in Maintainers, NextCandidate(p) PROVE RunType'
  <2>1. CASE run[p].todo = {}
    BY <1>14, <2>1, ReturnRuns DEF NextCandidate
  <2>2. CASE run[p].todo # {}
    <3>1. PICK w \in Weeks :
            run' = [run EXCEPT ![p].pc = "record", ![p].cur = w, ![p].todo = @ \ {w}]
      BY <1>14, <2>2, NextCandidateWeek
    <3>2. run'[p] \in Runs
      BY <3>1 DEF RunType, Runs, PCs
    <3>3. QED
      BY <3>1, <3>2 DEF RunType
  <2>3. QED
    BY <2>1, <2>2
<1>15. ASSUME NEW p \in Maintainers, Record(p) PROVE RunType'
  <2>1. "detach" \in PCs
    BY DEF PCs
  <2>2. QED
    BY <1>15, <2>1, ReturnRuns, GotoRuns DEF Record
<1>16. ASSUME NEW p \in Maintainers, Detach(p) PROVE RunType'
  <2>1. "finalize" \in PCs
    BY DEF PCs
  <2>2. QED
    BY <1>16, <2>1, ReturnRuns, GotoRuns DEF Detach
<1>17. ASSUME NEW p \in Maintainers, Finalize(p) PROVE RunType'
  <2>1. "count" \in PCs
    BY DEF PCs
  <2>2. QED
    BY <1>17, <2>1, ReturnRuns, GotoRuns DEF Finalize
<1>18. ASSUME NEW p \in Maintainers, Count(p) PROVE RunType'
  <2>1. "drop" \in PCs /\ "redrop" \in PCs
    BY DEF PCs
  <2>2. QED
    BY <1>18, <2>1, GotoRuns DEF Count
<1>19. ASSUME NEW p \in Maintainers, Drop(p) PROVE RunType'
  <2>1. "stamp" \in PCs /\ "restamp" \in PCs
    BY DEF PCs
  <2>2. QED
    BY <1>19, <2>1, GotoRuns DEF Drop
<1>20. ASSUME NEW p \in Maintainers, Stamp(p) PROVE RunType'
  <2>1. run[p].cur \in Weeks
    BY <1>20 DEF Stamp, RunOK, Working, Dropping
  <2>2. run'[p] \in Runs
    BY <1>20, <2>1 DEF Stamp, RunType, Runs, PCs
  <2>3. QED
    BY <1>20, <2>2 DEF Stamp, RunType
<1>21. ASSUME NEW p \in Maintainers, Fail(p) PROVE RunType'
  BY <1>21, ReturnRuns DEF Fail
<1>22. ASSUME NEW p \in Maintainers, Kill(p) PROVE RunType'
  BY <1>22, ReturnRuns DEF Kill
<1>23. CASE UNCHANGED vars
  BY <1>23 DEF vars, RunType
<1>24. QED
  BY <1>1, <1>2, <1>3, <1>4, <1>5, <1>6, <1>7, <1>8, <1>9, <1>10, <1>11, <1>12, <1>13,
      <1>14, <1>15, <1>16, <1>17, <1>18, <1>19, <1>20, <1>21, <1>22, <1>23 DEF Next,
      Step

\* Only the holder moves where the lock is needed, and it gives the lock back on
\* every way out.
LEMMA LockStep ==
    ASSUME RunType, LockType, [Next]_vars
    PROVE  LockType'
<1> USE Constants
<1> USE DEF RunType, Runs, LockType, table, Idle, PCs, Unlocked
<1>1. CASE Tick
  BY <1>1 DEF Tick
<1>2. ASSUME NEW w \in Weeks, Insert(w) PROVE LockType'
  BY <1>2 DEF Insert
<1>3. ASSUME NEW w \in Weeks, OperatorFinalizes(w) PROVE LockType'
  BY <1>3 DEF OperatorFinalizes
<1>4. ASSUME NEW w \in Weeks, OperatorAttaches(w) PROVE LockType'
  BY <1>4 DEF OperatorAttaches
<1>5. ASSUME NEW p \in Maintainers, Begin(p) PROVE LockType'
  BY <1>5 DEF Begin
<1>6. ASSUME NEW p \in Maintainers, EnsurePartitions(p) PROVE LockType'
  BY <1>6 DEF EnsurePartitions, Return
<1>7. ASSUME NEW p \in Maintainers, CreateWeek(p) PROVE LockType'
  BY <1>7 DEF CreateWeek
<1>8. ASSUME NEW p \in Maintainers, Ensured(p) PROVE LockType'
  BY <1>8 DEF Ensured
<1>9. ASSUME NEW p \in Maintainers, Retain(p) PROVE LockType'
  BY <1>9 DEF Retain, Return
<1>10. ASSUME NEW p \in Maintainers, Check(p) PROVE LockType'
  BY <1>10 DEF Check, Return, Goto
<1>11. ASSUME NEW p \in Maintainers, Resume(p) PROVE LockType'
  BY <1>11 DEF Resume
<1>12. ASSUME NEW p \in Maintainers, NextUnfinished(p) PROVE LockType'
  BY <1>12 DEF NextUnfinished, Goto
<1>13. ASSUME NEW p \in Maintainers, Search(p) PROVE LockType'
  BY <1>13 DEF Search, Return
<1>14. ASSUME NEW p \in Maintainers, NextCandidate(p) PROVE LockType'
  <2>1. lock' = IF run[p].todo = {} THEN (IF lock = p THEN None ELSE lock) ELSE lock
    BY <1>14 DEF NextCandidate, Return
  <2>2. CASE run[p].todo = {}
    BY <1>14, <2>1, <2>2, ReturnRuns DEF NextCandidate, OthersKeep
  <2>3. CASE run[p].todo # {}
    <3>1. PICK w \in Weeks :
            run' = [run EXCEPT ![p].pc = "record", ![p].cur = w, ![p].todo = @ \ {w}]
      BY <1>14, <2>3, NextCandidateWeek
    <3>2. QED
      BY <1>14, <2>1, <2>3, <3>1 DEF NextCandidate
  <2>4. QED
    BY <2>2, <2>3
<1>15. ASSUME NEW p \in Maintainers, Record(p) PROVE LockType'
  BY <1>15 DEF Record, Return, Goto
<1>16. ASSUME NEW p \in Maintainers, Detach(p) PROVE LockType'
  BY <1>16 DEF Detach, Return, Goto
<1>17. ASSUME NEW p \in Maintainers, Finalize(p) PROVE LockType'
  BY <1>17 DEF Finalize, Return, Goto
<1>18. ASSUME NEW p \in Maintainers, Count(p) PROVE LockType'
  BY <1>18 DEF Count, Goto
<1>19. ASSUME NEW p \in Maintainers, Drop(p) PROVE LockType'
  BY <1>19 DEF Drop, Goto
<1>20. ASSUME NEW p \in Maintainers, Stamp(p) PROVE LockType'
  BY <1>20 DEF Stamp
<1>21. ASSUME NEW p \in Maintainers, Fail(p) PROVE LockType'
  BY <1>21 DEF Fail, Return
<1>22. ASSUME NEW p \in Maintainers, Kill(p) PROVE LockType'
  BY <1>22 DEF Kill, Return
<1>23. CASE UNCHANGED vars
  BY <1>23 DEF vars
<1>24. QED
  BY <1>1, <1>2, <1>3, <1>4, <1>5, <1>6, <1>7, <1>8, <1>9, <1>10, <1>11, <1>12, <1>13,
      <1>14, <1>15, <1>16, <1>17, <1>18, <1>19, <1>20, <1>21, <1>22, <1>23 DEF Next,
      Step

\* The database's clock does not go back, and what a clock has shown it has shown.
LEMMA ClockGrows ==
    ASSUME DataType, [Next]_vars
    PROVE  /\ clock \in Int /\ clock' \in Int /\ clock <= clock'
           /\ \A n : Shown(n) => Shown(n)'
<1>1. clock' = clock \/ clock' = clock + 1
  BY DEF Next, vars, Tick, Insert, OperatorFinalizes, OperatorAttaches, Begin, Step,
      EnsurePartitions, CreateWeek, Ensured, Retain, Check, Resume, NextUnfinished, Search,
      NextCandidate, Record, Detach, Finalize, Count, Drop, Stamp, Fail, Kill
<1>2. clock \in Int /\ clock' \in Int /\ clock <= clock'
  BY <1>1, Constants DEF DataType
<1>3. ASSUME NEW n, Shown(n) PROVE Shown(n)'
  <2>1. PICK t \in Start..clock, s \in Skews : n = t + s
    BY <1>3 DEF Shown
  <2>2. t \in Start..clock'
    BY <1>2, Constants
  <2>3. QED
    BY <2>1, <2>2 DEF Shown
<1>4. QED
  BY <1>2, <1>3

\* A run that returns owes nothing.
LEMMA ReturnRunOK ==
    ASSUME DataType, RunType, RunOK, [Next]_vars, NEW p \in Maintainers, Return(p)
    PROVE  RunOK'
<1>1. \A n : Shown(n) => Shown(n)'
  BY ClockGrows
<1>2. run'[p].pc = "idle" /\ OthersKeep(p)
  BY ReturnRuns
<1>3. QED
  BY <1>1, <1>2 DEF RunOK, OthersKeep, Working, Dropping

\* A run keeps its flags and its clock until it is over.
LEMMA RunOKStep ==
    ASSUME DataType, RunType, RunOK, [Next]_vars
    PROVE  RunOK'
<1> USE DEF RunType, Runs, RunOK, table, PCs, Working, Dropping
<1>0. \A n : Shown(n) => Shown(n)'
  BY ClockGrows
<1>1. CASE Tick
  BY <1>1, <1>0 DEF Tick
<1>2. ASSUME NEW w \in Weeks, Insert(w) PROVE RunOK'
  BY <1>2, <1>0 DEF Insert
<1>3. ASSUME NEW w \in Weeks, OperatorFinalizes(w) PROVE RunOK'
  BY <1>3, <1>0 DEF OperatorFinalizes
<1>4. ASSUME NEW w \in Weeks, OperatorAttaches(w) PROVE RunOK'
  BY <1>4, <1>0 DEF OperatorAttaches
<1>5. ASSUME NEW p \in Maintainers, Begin(p) PROVE RunOK'
  <2>1. PICK s \in Skews, b \in Behinds, k \in Keeps :
          run' = [run EXCEPT ![p] = [Idle EXCEPT !.pc = "wait", !.now = clock + s,
                                                 !.keep = k, !.behind = b]]
    BY <1>5 DEF Begin
  <2>2. Shown(clock + s)
    BY <1>0, Constants DEF Shown, DataType
  <2>3. QED
    BY <1>0, <2>1, <2>2 DEF Idle
<1>6. ASSUME NEW p \in Maintainers, EnsurePartitions(p) PROVE RunOK'
  <2>1. CASE refuseDefaultPartition
    BY <1>6, <2>1, ReturnRunOK DEF EnsurePartitions
  <2>2. CASE ~refuseDefaultPartition
    BY <1>6, <1>0, <2>2 DEF EnsurePartitions
  <2>3. QED
    BY <2>1, <2>2
<1>7. ASSUME NEW p \in Maintainers, CreateWeek(p) PROVE RunOK'
  BY <1>7, <1>0 DEF CreateWeek
<1>8. ASSUME NEW p \in Maintainers, Ensured(p) PROVE RunOK'
  BY <1>8, <1>0 DEF Ensured, Idle
<1>9. ASSUME NEW p \in Maintainers, Retain(p) PROVE RunOK'
  <2>1. CASE lock # None
    BY <1>9, <2>1, ReturnRunOK DEF Retain
  <2>2. CASE lock = None
    <3>1. PICK s \in Skews : run' = [run EXCEPT ![p].pc = "check", ![p].now = clock + s]
      BY <1>9, <2>2 DEF Retain
    <3>2. Shown(clock + s)
      BY <1>0, Constants DEF Shown, DataType
    <3>3. /\ run'[p].pc = "check" /\ run'[p].now = clock + s
          /\ run'[p].keep = run[p].keep /\ run'[p].behind = run[p].behind
          /\ OthersKeep(p)
      BY <3>1 DEF OthersKeep
    <3>4. QED
      BY <1>9, <1>0, <3>2, <3>3 DEF Retain, OthersKeep
  <2>3. QED
    BY <2>1, <2>2
<1>10. ASSUME NEW p \in Maintainers, Check(p) PROVE RunOK'
  <2>1. CASE Return(p)
    BY <2>1, ReturnRunOK
  <2>2. CASE Goto(p, "resume")
    <3>1. MovesTo(p, "resume") /\ OthersKeep(p)
      BY <2>2, GotoRuns
    <3>2. QED
      BY <1>10, <1>0, <3>1 DEF Check, MovesTo, OthersKeep
  <2>3. QED
    BY <1>10, <2>1, <2>2 DEF Check
<1>11. ASSUME NEW p \in Maintainers, Resume(p) PROVE RunOK'
  BY <1>11, <1>0 DEF Resume
<1>12. ASSUME NEW p \in Maintainers, NextUnfinished(p) PROVE RunOK'
  <2>1. CASE run[p].todo = {}
    <3>1. MovesTo(p, "search") /\ OthersKeep(p)
      BY <1>12, <2>1, GotoRuns DEF NextUnfinished
    <3>2. QED
      BY <1>12, <1>0, <3>1 DEF NextUnfinished, MovesTo, OthersKeep
  <2>2. CASE run[p].todo # {}
    <3>1. Oldest(run[p].todo) \in Weeks
      BY <2>2, OldestIsMember
    <3>2. QED
      BY <1>12, <1>0, <2>2, <3>1 DEF NextUnfinished
  <2>3. QED
    BY <2>1, <2>2
<1>13. ASSUME NEW p \in Maintainers, Search(p) PROVE RunOK'
  <2>1. CASE Return(p)
    BY <2>1, ReturnRunOK
  <2>2. CASE run' = [run EXCEPT ![p].pc = "next", ![p].todo = pastPartitions(p)]
    BY <1>13, <1>0, <2>2 DEF Search
  <2>3. QED
    BY <1>13, <2>1, <2>2 DEF Search
<1>14. ASSUME NEW p \in Maintainers, NextCandidate(p) PROVE RunOK'
  <2>1. CASE run[p].todo = {}
    BY <1>14, <2>1, ReturnRunOK DEF NextCandidate
  <2>2. CASE run[p].todo # {}
    <3>1. PICK w \in Weeks :
            run' = [run EXCEPT ![p].pc = "record", ![p].cur = w, ![p].todo = @ \ {w}]
      BY <1>14, <2>2, NextCandidateWeek
    <3>2. /\ run'[p].pc = "record" /\ run'[p].cur = w
          /\ run'[p].keep = run[p].keep /\ run'[p].behind = run[p].behind
          /\ OthersKeep(p)
      BY <3>1 DEF OthersKeep
    <3>3. QED
      BY <1>14, <1>0, <3>2 DEF NextCandidate, OthersKeep
  <2>3. QED
    BY <2>1, <2>2
<1>15. ASSUME NEW p \in Maintainers, Record(p) PROVE RunOK'
  <2>1. CASE Return(p)
    BY <2>1, ReturnRunOK
  <2>2. CASE Goto(p, "detach")
    <3>1. MovesTo(p, "detach") /\ OthersKeep(p)
      BY <2>2, GotoRuns
    <3>2. QED
      BY <1>15, <1>0, <3>1 DEF Record, MovesTo, OthersKeep
  <2>3. QED
    BY <1>15, <2>1, <2>2 DEF Record
<1>16. ASSUME NEW p \in Maintainers, Detach(p) PROVE RunOK'
  <2>1. CASE Return(p)
    BY <2>1, ReturnRunOK
  <2>2. CASE Goto(p, "finalize")
    <3>1. MovesTo(p, "finalize") /\ OthersKeep(p)
      BY <2>2, GotoRuns
    <3>2. QED
      BY <1>16, <1>0, <3>1 DEF Detach, MovesTo, OthersKeep
  <2>3. QED
    BY <1>16, <2>1, <2>2 DEF Detach
<1>17. ASSUME NEW p \in Maintainers, Finalize(p) PROVE RunOK'
  <2>1. CASE Return(p)
    BY <2>1, ReturnRunOK
  <2>2. CASE Goto(p, "count")
    <3>1. MovesTo(p, "count") /\ OthersKeep(p)
      BY <2>2, GotoRuns
    <3>2. QED
      BY <1>17, <1>0, <3>1 DEF Finalize, MovesTo, OthersKeep
  <2>3. QED
    BY <1>17, <2>1, <2>2 DEF Finalize
<1>18. ASSUME NEW p \in Maintainers, Count(p) PROVE RunOK'
  BY <1>18, <1>0 DEF Count, Goto
<1>19. ASSUME NEW p \in Maintainers, Drop(p) PROVE RunOK'
  BY <1>19, <1>0 DEF Drop, Goto
<1>20. ASSUME NEW p \in Maintainers, Stamp(p) PROVE RunOK'
  BY <1>20, <1>0 DEF Stamp
<1>21. ASSUME NEW p \in Maintainers, Fail(p) PROVE RunOK'
  BY <1>21, ReturnRunOK DEF Fail
<1>22. ASSUME NEW p \in Maintainers, Kill(p) PROVE RunOK'
  BY <1>22, ReturnRunOK DEF Kill
<1>23. CASE UNCHANGED vars
  BY <1>23, <1>0 DEF vars
<1>24. QED
  BY <1>1, <1>2, <1>3, <1>4, <1>5, <1>6, <1>7, <1>8, <1>9, <1>10, <1>11, <1>12, <1>13,
      <1>14, <1>15, <1>16, <1>17, <1>18, <1>19, <1>20, <1>21, <1>22, <1>23 DEF Next,
      Step

\* Returning leaves the tables as they are.
LEMMA ReturnTablesOK ==
    ASSUME RunType, TablesOK, NEW p \in Maintainers, Return(p), UNCHANGED table
    PROVE  TablesOK'
<1>1. run'[p].pc = "idle" /\ OthersKeep(p)
  BY ReturnRuns
<1>2. QED
  BY <1>1 DEF TablesOK, OthersKeep, Redoing, Working, Dropping, table

\* What the lock's holder knows of the tables stays true: nobody else's run changes
\* them, and a person neither touches a record nor brings back a table that is
\* gone.
LEMMA TablesStep ==
    ASSUME Inv, [Next]_vars
    PROVE  TablesOK'
<1> USE Constants
<1> USE DEF Inv, TypeOK, DataType, RunType, Runs, RunOK, LockType, Unlocked, TablesOK,
    table, PCs, Redoing, Working, Dropping
<1>1. CASE Tick
  BY <1>1 DEF Tick
<1>2. ASSUME NEW w \in Weeks, Insert(w) PROVE TablesOK'
  BY <1>2 DEF Insert
<1>3. ASSUME NEW w \in Weeks, OperatorFinalizes(w) PROVE TablesOK'
  BY <1>3 DEF OperatorFinalizes
<1>4. ASSUME NEW w \in Weeks, OperatorAttaches(w) PROVE TablesOK'
  BY <1>4 DEF OperatorAttaches
<1>5. ASSUME NEW p \in Maintainers, Begin(p) PROVE TablesOK'
  BY <1>5 DEF Begin
<1>6. ASSUME NEW p \in Maintainers, EnsurePartitions(p) PROVE TablesOK'
  <2>1. CASE refuseDefaultPartition
    BY <1>6, <2>1, ReturnTablesOK DEF EnsurePartitions
  <2>2. CASE ~refuseDefaultPartition
    BY <1>6, <2>2 DEF EnsurePartitions
  <2>3. QED
    BY <2>1, <2>2
<1>7. ASSUME NEW p \in Maintainers, CreateWeek(p) PROVE TablesOK'
  BY <1>7 DEF CreateWeek
<1>8. ASSUME NEW p \in Maintainers, Ensured(p) PROVE TablesOK'
  BY <1>8 DEF Ensured, Idle
<1>9. ASSUME NEW p \in Maintainers, Retain(p) PROVE TablesOK'
  <2>1. CASE lock # None
    BY <1>9, <2>1, ReturnTablesOK DEF Retain
  <2>2. CASE lock = None
    BY <1>9, <2>2 DEF Retain
  <2>3. QED
    BY <2>1, <2>2
<1>10. ASSUME NEW p \in Maintainers, Check(p) PROVE TablesOK'
  <2>1. CASE Return(p)
    BY <1>10, <2>1, ReturnTablesOK DEF Check
  <2>2. CASE Goto(p, "resume") /\ ~(Return(p))
    <3>1. MovesTo(p, "resume") /\ OthersKeep(p)
      BY <2>2, GotoRuns
    <3>2. QED
      BY <1>10, <2>2, <3>1 DEF Check, MovesTo, OthersKeep
  <2>3. QED
    BY <1>10, <2>1, <2>2 DEF Check
<1>11. ASSUME NEW p \in Maintainers, Resume(p) PROVE TablesOK'
  BY <1>11 DEF Resume
<1>12. ASSUME NEW p \in Maintainers, NextUnfinished(p) PROVE TablesOK'
  BY <1>12 DEF NextUnfinished, Goto
<1>13. ASSUME NEW p \in Maintainers, Search(p) PROVE TablesOK'
  <2>1. CASE Return(p)
    BY <1>13, <2>1, ReturnTablesOK DEF Search
  <2>2. CASE run' = [run EXCEPT ![p].pc = "next", ![p].todo = pastPartitions(p)]
    BY <1>13, <2>2 DEF Search
  <2>3. QED
    BY <1>13, <2>1, <2>2 DEF Search
<1>14. ASSUME NEW p \in Maintainers, NextCandidate(p) PROVE TablesOK'
  <2>1. CASE run[p].todo = {}
    BY <1>14, <2>1, ReturnTablesOK DEF NextCandidate
  <2>2. CASE run[p].todo # {}
    <3>1. PICK w \in Weeks :
            run' = [run EXCEPT ![p].pc = "record", ![p].cur = w, ![p].todo = @ \ {w}]
      BY <1>14, <2>2, NextCandidateWeek
    <3>2. run'[p].pc = "record" /\ OthersKeep(p)
      BY <3>1 DEF OthersKeep
    <3>3. part' = part /\ record' = record
      BY <1>14 DEF NextCandidate
    <3>4. QED
      BY <3>2, <3>3 DEF OthersKeep
  <2>3. QED
    BY <2>1, <2>2
<1>15. ASSUME NEW p \in Maintainers, Record(p) PROVE TablesOK'
  <2>1. CASE Return(p) /\ UNCHANGED record
    BY <1>15, <2>1, ReturnTablesOK DEF Record
  <2>2. CASE Goto(p, "detach") /\ ~(Return(p) /\ UNCHANGED record)
    <3>1. MovesTo(p, "detach") /\ OthersKeep(p)
      BY <2>2, GotoRuns
    <3>2. QED
      BY <1>15, <2>2, <3>1 DEF Record, MovesTo, OthersKeep
  <2>3. QED
    BY <1>15, <2>1, <2>2 DEF Record
<1>16. ASSUME NEW p \in Maintainers, Detach(p) PROVE TablesOK'
  <2>1. CASE Return(p) /\ UNCHANGED part
    BY <1>16, <2>1, ReturnTablesOK DEF Detach
  <2>2. CASE Goto(p, "finalize") /\ ~(Return(p) /\ UNCHANGED part)
    <3>1. MovesTo(p, "finalize") /\ OthersKeep(p)
      BY <2>2, GotoRuns
    <3>2. QED
      BY <1>16, <2>2, <3>1 DEF Detach, MovesTo, OthersKeep
  <2>3. QED
    BY <1>16, <2>1, <2>2 DEF Detach
<1>17. ASSUME NEW p \in Maintainers, Finalize(p) PROVE TablesOK'
  <2>1. CASE Return(p) /\ UNCHANGED part
    BY <1>17, <2>1, ReturnTablesOK DEF Finalize
  <2>2. CASE Goto(p, "count") /\ ~(Return(p) /\ UNCHANGED part)
    <3>1. MovesTo(p, "count") /\ OthersKeep(p)
      BY <2>2, GotoRuns
    <3>2. QED
      BY <1>17, <2>2, <3>1 DEF Finalize, MovesTo, OthersKeep
  <2>3. QED
    BY <1>17, <2>1, <2>2 DEF Finalize
<1>18. ASSUME NEW p \in Maintainers, Count(p) PROVE TablesOK'
  BY <1>18 DEF Count, Goto
<1>19. ASSUME NEW p \in Maintainers, Drop(p) PROVE TablesOK'
  BY <1>19 DEF Drop, Goto
<1>20. ASSUME NEW p \in Maintainers, Stamp(p) PROVE TablesOK'
  BY <1>20 DEF Stamp
<1>21. ASSUME NEW p \in Maintainers, Fail(p) PROVE TablesOK'
  BY <1>21, ReturnTablesOK DEF Fail
<1>22. ASSUME NEW p \in Maintainers, Kill(p) PROVE TablesOK'
  BY <1>22, ReturnTablesOK DEF Kill
<1>23. CASE UNCHANGED vars
  BY <1>23 DEF vars
<1>24. QED
  BY <1>1, <1>2, <1>3, <1>4, <1>5, <1>6, <1>7, <1>8, <1>9, <1>10, <1>11, <1>12, <1>13,
      <1>14, <1>15, <1>16, <1>17, <1>18, <1>19, <1>20, <1>21, <1>22, <1>23 DEF Next,
      Step

\* The record is there before the first half of the detach, and open until the
\* table is gone.
LEMMA OrphanStep ==
    ASSUME Inv, [Next]_vars
    PROVE  NoOrphan'
<1> USE DEF Inv, TypeOK, DataType, RunOK, TablesOK, table, Redoing, Working, Dropping,
    NoOrphan
<1>1. CASE Tick
  BY <1>1 DEF Tick
<1>2. ASSUME NEW w \in Weeks, Insert(w) PROVE NoOrphan'
  BY <1>2 DEF Insert
<1>3. ASSUME NEW w \in Weeks, OperatorFinalizes(w) PROVE NoOrphan'
  BY <1>3 DEF OperatorFinalizes
<1>4. ASSUME NEW w \in Weeks, OperatorAttaches(w) PROVE NoOrphan'
  BY <1>4 DEF OperatorAttaches
<1>5. ASSUME NEW p \in Maintainers, Begin(p) PROVE NoOrphan'
  BY <1>5 DEF Begin
<1>6. ASSUME NEW p \in Maintainers, EnsurePartitions(p) PROVE NoOrphan'
  BY <1>6 DEF EnsurePartitions, Return
<1>7. ASSUME NEW p \in Maintainers, CreateWeek(p) PROVE NoOrphan'
  BY <1>7 DEF CreateWeek
<1>8. ASSUME NEW p \in Maintainers, Ensured(p) PROVE NoOrphan'
  BY <1>8 DEF Ensured
<1>9. ASSUME NEW p \in Maintainers, Retain(p) PROVE NoOrphan'
  BY <1>9 DEF Retain, Return
<1>10. ASSUME NEW p \in Maintainers, Check(p) PROVE NoOrphan'
  BY <1>10 DEF Check, Return, Goto
<1>11. ASSUME NEW p \in Maintainers, Resume(p) PROVE NoOrphan'
  BY <1>11 DEF Resume
<1>12. ASSUME NEW p \in Maintainers, NextUnfinished(p) PROVE NoOrphan'
  BY <1>12 DEF NextUnfinished, Goto
<1>13. ASSUME NEW p \in Maintainers, Search(p) PROVE NoOrphan'
  BY <1>13 DEF Search, Return
<1>14. ASSUME NEW p \in Maintainers, NextCandidate(p) PROVE NoOrphan'
  BY <1>14 DEF NextCandidate, Return, Goto
<1>15. ASSUME NEW p \in Maintainers, Record(p) PROVE NoOrphan'
  <2>1. record' = record \/ record' = [record EXCEPT ![run[p].cur].is = "open"]
    BY <1>15 DEF Record
  <2>2. QED
    BY <1>15, <2>1 DEF Record
<1>16. ASSUME NEW p \in Maintainers, Detach(p) PROVE NoOrphan'
  BY <1>16 DEF Detach, Return, Goto
<1>17. ASSUME NEW p \in Maintainers, Finalize(p) PROVE NoOrphan'
  BY <1>17 DEF Finalize, Return, Goto
<1>18. ASSUME NEW p \in Maintainers, Count(p) PROVE NoOrphan'
  BY <1>18 DEF Count, Goto
<1>19. ASSUME NEW p \in Maintainers, Drop(p) PROVE NoOrphan'
  BY <1>19 DEF Drop, Goto
<1>20. ASSUME NEW p \in Maintainers, Stamp(p) PROVE NoOrphan'
  BY <1>20 DEF Stamp
<1>21. ASSUME NEW p \in Maintainers, Fail(p) PROVE NoOrphan'
  BY <1>21 DEF Fail, Return
<1>22. ASSUME NEW p \in Maintainers, Kill(p) PROVE NoOrphan'
  BY <1>22 DEF Kill, Return
<1>23. CASE UNCHANGED vars
  BY <1>23 DEF vars
<1>24. QED
  BY <1>1, <1>2, <1>3, <1>4, <1>5, <1>6, <1>7, <1>8, <1>9, <1>10, <1>11, <1>12, <1>13,
      <1>14, <1>15, <1>16, <1>17, <1>18, <1>19, <1>20, <1>21, <1>22, <1>23 DEF Next,
      Step

\* Before the first run nothing is recorded.
LEMMA InitInv == Init => Inv
<1> SUFFICES ASSUME Init PROVE Inv
  OBVIOUS
<1> USE Constants DEF Init
<1>1. Idle \in Runs /\ Idle.pc = "idle"
  BY DEF Idle, Runs, PCs
<1>2. RunType
  BY <1>1 DEF RunType
<1>3. \A p \in Maintainers : run[p].pc = "idle"
  BY <1>1
<1>4. DataType
  BY MaintainerAssumption DEF DataType, NoRecord
<1>5. LockType
  BY <1>3 DEF LockType, Unlocked
<1>6. RunOK /\ TablesOK
  BY <1>3 DEF RunOK, TablesOK, Redoing, Working, Dropping
<1>7. NoOrphan
  BY DEF NoOrphan
<1>8. QED
  BY <1>2, <1>4, <1>5, <1>6, <1>7 DEF Inv, TypeOK

LEMMA InvStep == Inv /\ [Next]_vars => Inv'
  BY DataStep, RunStep, LockStep, RunOKStep, TablesStep, OrphanStep DEF Inv, TypeOK

LEMMA Invariance == Spec => []Inv
  BY InitInv, InvStep, PTL DEF Spec

\* The values of the variables are of their types, and the advisory lock has one
\* holder: the run that is between its lock statement and its unlock, whoever fails
\* or is killed meanwhile.
THEOREM TypeCorrect == Spec => []TypeOK
<1>1. Inv => TypeOK
  BY DEF Inv
<1>2. QED
  BY <1>1, Invariance, PTL

\* dropOne writes the record first: at no point a crash can leave behind is a table
\* half or wholly detached from events without an open record that a later Retain
\* resumes from. For any number of maintainers, clocks and promises, and with a
\* person repairing what a run refused.
THEOREM NoTableIsOrphaned == Spec => []NoOrphan
<1>1. Inv => NoOrphan
  BY DEF Inv
<1>2. QED
  BY <1>1, Invariance, PTL

\* Whatever happens, a stamped record stays, and its week stays attached if it is.
LEMMA StampStep ==
    ASSUME Inv, NEW v \in Weeks, record[v].is = "dropped", [Next]_vars
    PROVE  record'[v] = record[v] /\ (part[v] = "attached" => part'[v] = "attached")
<1> DEFINE Kept == record'[v] = record[v] /\ (part[v] = "attached" => part'[v] = "attached")
<1> SUFFICES Kept
  OBVIOUS
<1> USE DEF Inv, TypeOK, DataType, RunOK, TablesOK, table, Working, Dropping
<1>1. CASE Tick
  BY <1>1 DEF Tick
<1>2. ASSUME NEW w \in Weeks, Insert(w) PROVE Kept
  BY <1>2 DEF Insert
<1>3. ASSUME NEW w \in Weeks, OperatorFinalizes(w) PROVE Kept
  BY <1>3 DEF OperatorFinalizes
<1>4. ASSUME NEW w \in Weeks, OperatorAttaches(w) PROVE Kept
  BY <1>4 DEF OperatorAttaches
<1>5. ASSUME NEW p \in Maintainers, Begin(p) PROVE Kept
  BY <1>5 DEF Begin
<1>6. ASSUME NEW p \in Maintainers, EnsurePartitions(p) PROVE Kept
  BY <1>6 DEF EnsurePartitions, Return
<1>7. ASSUME NEW p \in Maintainers, CreateWeek(p) PROVE Kept
  BY <1>7 DEF CreateWeek
<1>8. ASSUME NEW p \in Maintainers, Ensured(p) PROVE Kept
  BY <1>8 DEF Ensured
<1>9. ASSUME NEW p \in Maintainers, Retain(p) PROVE Kept
  BY <1>9 DEF Retain, Return
<1>10. ASSUME NEW p \in Maintainers, Check(p) PROVE Kept
  BY <1>10 DEF Check, Return, Goto
<1>11. ASSUME NEW p \in Maintainers, Resume(p) PROVE Kept
  BY <1>11 DEF Resume
<1>12. ASSUME NEW p \in Maintainers, NextUnfinished(p) PROVE Kept
  BY <1>12 DEF NextUnfinished, Goto
<1>13. ASSUME NEW p \in Maintainers, Search(p) PROVE Kept
  BY <1>13 DEF Search, Return
<1>14. ASSUME NEW p \in Maintainers, NextCandidate(p) PROVE Kept
  BY <1>14 DEF NextCandidate, Return, Goto
<1>15. ASSUME NEW p \in Maintainers, Record(p) PROVE Kept
  BY <1>15 DEF Record, Return, Goto
<1>16. ASSUME NEW p \in Maintainers, Detach(p) PROVE Kept
  BY <1>16 DEF Detach, Return, Goto
<1>17. ASSUME NEW p \in Maintainers, Finalize(p) PROVE Kept
  BY <1>17 DEF Finalize, Return, Goto
<1>18. ASSUME NEW p \in Maintainers, Count(p) PROVE Kept
  BY <1>18 DEF Count, Goto
<1>19. ASSUME NEW p \in Maintainers, Drop(p) PROVE Kept
  BY <1>19 DEF Drop, Goto
<1>20. ASSUME NEW p \in Maintainers, Stamp(p) PROVE Kept
  BY <1>20 DEF Stamp
<1>21. ASSUME NEW p \in Maintainers, Fail(p) PROVE Kept
  BY <1>21 DEF Fail, Return
<1>22. ASSUME NEW p \in Maintainers, Kill(p) PROVE Kept
  BY <1>22 DEF Kill, Return
<1>23. CASE UNCHANGED vars
  BY <1>23 DEF vars
<1>24. QED
  BY <1>1, <1>2, <1>3, <1>4, <1>5, <1>6, <1>7, <1>8, <1>9, <1>10, <1>11, <1>12, <1>13,
      <1>14, <1>15, <1>16, <1>17, <1>18, <1>19, <1>20, <1>21, <1>22, <1>23 DEF Next,
      Step

\* No later run touches a stamped record, nor takes its week apart if it is back
\* (ErrWeekReturned), for any number of maintainers, clocks and flags.
THEOREM StampsAreFinal == Spec => StampIsFinal
<1>1. Inv /\ [Next]_vars =>
        [\A w \in Weeks : record[w].is = "dropped" =>
           /\ record'[w] = record[w]
           /\ part[w] = "attached" => part'[w] = "attached"]_vars
  BY StampStep
<1>2. QED
  BY <1>1, Invariance, PTL DEF Spec, StampIsFinal

\* A bound by the clock is one by a later clock.
LEMMA LaterBound ==
    ASSUME NEW n \in Int, NEW c \in Int, NEW d \in Int, NEW t \in Int, c <= d, n <= c + t
    PROVE  n <= d + t
  OBVIOUS

\* What was overdue is, and what a clock showed is no further ahead than it was.
LEMMA OverdueStays ==
    ASSUME DataType, [Next]_vars
    PROVE  /\ \A w : Overdue(w) => Overdue(w)'
           /\ \A n, k, b : Accepted(n, k, b) => Accepted(n, k, b)'
<1>1. clock \in Int /\ clock' \in Int /\ clock <= clock' /\ Tolerance \in Int
  BY ClockGrows, Constants
<1>2. ASSUME NEW n \in Int, n <= clock + Tolerance PROVE n <= clock' + Tolerance
  BY <1>1, <1>2, LaterBound
<1>3. ASSUME NEW w, Overdue(w) PROVE Overdue(w)'
  <2>1. PICK b \in Behinds : To(w) + b * WeekTicks <= clock + Tolerance
    BY <1>3 DEF Overdue
  <2>2. w \in Weeks
    BY <1>3 DEF Overdue
  <2>3. To(w) + b * WeekTicks \in Int
    BY <2>2, Constants DEF To
  <2>4. To(w) + b * WeekTicks <= clock' + Tolerance
    BY <1>2, <2>1, <2>3
  <2>5. QED
    BY <2>2, <2>4 DEF Overdue
<1>4. ASSUME NEW n, NEW k, NEW b, Accepted(n, k, b) PROVE Accepted(n, k, b)'
  BY <1>2, <1>4 DEF Accepted
<1>5. QED
  BY <1>3, <1>4

\* A run that returns has no boundary to keep.
LEMMA ReturnPastRuns ==
    ASSUME DataType, RunType, PastRuns, [Next]_vars, NEW p \in Maintainers, Return(p)
    PROVE  PastRuns'
<1>1. run'[p].pc = "idle" /\ OthersKeep(p)
  BY ReturnRuns
<1>2. QED
  BY <1>1, OverdueStays DEF PastRuns, OthersKeep, Checked, Redoing, Dropping

\* Past the check, a week before the boundary is overdue.
LEMMA PastIsOverdue ==
    ASSUME DataType, RunType, RunOK, PastRuns,
           NEW p \in Maintainers, run[p].pc \in Checked, NEW w \in pastPartitions(p)
    PROVE  Overdue(w)
<1>1. /\ run[p].behind \in Behinds /\ run[p].keep \in Keeps /\ run[p].now \in Int
      /\ run[p].now <= clock + Tolerance /\ run[p].behind * WeekTicks <= run[p].keep
  BY DEF RunType, Runs, RunOK, PastRuns, Accepted, Checked, Redoing
<1>2. w \in Weeks /\ To(w) <= run[p].now - run[p].keep
  BY DEF pastPartitions
<1>3. run[p].keep \in Int /\ To(w) \in Int /\ run[p].behind * WeekTicks \in Int
  BY <1>1, <1>2, Flags
<1>4. clock \in Int /\ Tolerance \in Int
  BY Constants DEF DataType
<1>5. To(w) + run[p].behind * WeekTicks <= clock + Tolerance
  BY <1>1, <1>2, <1>3, <1>4
<1>6. QED
  BY <1>1, <1>2, <1>5 DEF Overdue

\* A record is only written for a week that is overdue.
LEMMA PastRecordsStep ==
    ASSUME PastInv, [Next]_vars
    PROVE  PastRecords'
<1> USE DEF PastInv, Inv, TypeOK, DataType, RunOK, TablesOK, PastRecords, PastRuns, table,
    Working, Dropping
<1>0. \A w : Overdue(w) => Overdue(w)'
  BY OverdueStays
<1>1. CASE Tick
  BY <1>1, <1>0 DEF Tick
<1>2. ASSUME NEW w \in Weeks, Insert(w) PROVE PastRecords'
  BY <1>2, <1>0 DEF Insert
<1>3. ASSUME NEW w \in Weeks, OperatorFinalizes(w) PROVE PastRecords'
  BY <1>3, <1>0 DEF OperatorFinalizes
<1>4. ASSUME NEW w \in Weeks, OperatorAttaches(w) PROVE PastRecords'
  BY <1>4, <1>0 DEF OperatorAttaches
<1>5. ASSUME NEW p \in Maintainers, Begin(p) PROVE PastRecords'
  BY <1>5, <1>0 DEF Begin
<1>6. ASSUME NEW p \in Maintainers, EnsurePartitions(p) PROVE PastRecords'
  BY <1>6, <1>0 DEF EnsurePartitions, Return
<1>7. ASSUME NEW p \in Maintainers, CreateWeek(p) PROVE PastRecords'
  BY <1>7, <1>0 DEF CreateWeek
<1>8. ASSUME NEW p \in Maintainers, Ensured(p) PROVE PastRecords'
  BY <1>8, <1>0 DEF Ensured
<1>9. ASSUME NEW p \in Maintainers, Retain(p) PROVE PastRecords'
  BY <1>9, <1>0 DEF Retain, Return
<1>10. ASSUME NEW p \in Maintainers, Check(p) PROVE PastRecords'
  BY <1>10, <1>0 DEF Check, Return, Goto
<1>11. ASSUME NEW p \in Maintainers, Resume(p) PROVE PastRecords'
  BY <1>11, <1>0 DEF Resume
<1>12. ASSUME NEW p \in Maintainers, NextUnfinished(p) PROVE PastRecords'
  BY <1>12, <1>0 DEF NextUnfinished, Goto
<1>13. ASSUME NEW p \in Maintainers, Search(p) PROVE PastRecords'
  BY <1>13, <1>0 DEF Search, Return
<1>14. ASSUME NEW p \in Maintainers, NextCandidate(p) PROVE PastRecords'
  BY <1>14, <1>0 DEF NextCandidate, Return, Goto
<1>15. ASSUME NEW p \in Maintainers, Record(p) PROVE PastRecords'
  BY <1>15, <1>0 DEF Record, Return, Goto
<1>16. ASSUME NEW p \in Maintainers, Detach(p) PROVE PastRecords'
  BY <1>16, <1>0 DEF Detach, Return, Goto
<1>17. ASSUME NEW p \in Maintainers, Finalize(p) PROVE PastRecords'
  BY <1>17, <1>0 DEF Finalize, Return, Goto
<1>18. ASSUME NEW p \in Maintainers, Count(p) PROVE PastRecords'
  BY <1>18, <1>0 DEF Count, Goto
<1>19. ASSUME NEW p \in Maintainers, Drop(p) PROVE PastRecords'
  BY <1>19, <1>0 DEF Drop, Goto
<1>20. ASSUME NEW p \in Maintainers, Stamp(p) PROVE PastRecords'
  BY <1>20, <1>0 DEF Stamp
<1>21. ASSUME NEW p \in Maintainers, Fail(p) PROVE PastRecords'
  BY <1>21, <1>0 DEF Fail, Return
<1>22. ASSUME NEW p \in Maintainers, Kill(p) PROVE PastRecords'
  BY <1>22, <1>0 DEF Kill, Return
<1>23. CASE UNCHANGED vars
  BY <1>23, <1>0 DEF vars
<1>24. QED
  BY <1>1, <1>2, <1>3, <1>4, <1>5, <1>6, <1>7, <1>8, <1>9, <1>10, <1>11, <1>12, <1>13,
      <1>14, <1>15, <1>16, <1>17, <1>18, <1>19, <1>20, <1>21, <1>22, <1>23 DEF Next,
      Step

\* What a run is going to drop was overdue when it looked.
LEMMA PastRunsStep ==
    ASSUME DataType, RunType, RunOK, PastRuns, [Next]_vars
    PROVE  PastRuns'
<1> USE DEF RunType, Runs, PCs, PastRuns, Checked, Redoing, Dropping
<1>0. /\ \A w : Overdue(w) => Overdue(w)'
      /\ \A n, k, b : Accepted(n, k, b) => Accepted(n, k, b)'
  BY OverdueStays
<1>1. CASE Tick
  BY <1>1, <1>0 DEF Tick
<1>2. ASSUME NEW w \in Weeks, Insert(w) PROVE PastRuns'
  BY <1>2, <1>0 DEF Insert
<1>3. ASSUME NEW w \in Weeks, OperatorFinalizes(w) PROVE PastRuns'
  BY <1>3, <1>0 DEF OperatorFinalizes
<1>4. ASSUME NEW w \in Weeks, OperatorAttaches(w) PROVE PastRuns'
  BY <1>4, <1>0 DEF OperatorAttaches
<1>5. ASSUME NEW p \in Maintainers, Begin(p) PROVE PastRuns'
  BY <1>5, <1>0 DEF Begin, Idle
<1>6. ASSUME NEW p \in Maintainers, EnsurePartitions(p) PROVE PastRuns'
  <2>1. CASE refuseDefaultPartition
    BY <1>6, <2>1, ReturnPastRuns DEF EnsurePartitions
  <2>2. CASE ~refuseDefaultPartition
    BY <1>6, <1>0, <2>2 DEF EnsurePartitions
  <2>3. QED
    BY <2>1, <2>2
<1>7. ASSUME NEW p \in Maintainers, CreateWeek(p) PROVE PastRuns'
  BY <1>7, <1>0 DEF CreateWeek
<1>8. ASSUME NEW p \in Maintainers, Ensured(p) PROVE PastRuns'
  BY <1>8, <1>0 DEF Ensured, Idle
<1>9. ASSUME NEW p \in Maintainers, Retain(p) PROVE PastRuns'
  <2>1. CASE lock # None
    BY <1>9, <2>1, ReturnPastRuns DEF Retain
  <2>2. CASE lock = None
    BY <1>9, <1>0, <2>2 DEF Retain
  <2>3. QED
    BY <2>1, <2>2
<1>10. ASSUME NEW p \in Maintainers, Check(p) PROVE PastRuns'
  <2>1. CASE Refuses(p)
    BY <1>10, <2>1, ReturnPastRuns DEF Check
  <2>2. CASE ~Refuses(p)
    <3>1. MovesTo(p, "resume") /\ OthersKeep(p) /\ clock' = clock
      BY <1>10, <2>2, GotoRuns DEF Check
    <3>2. run[p].behind \in Int /\ run[p].keep \in Int /\ run[p].now \in Int
      <4>1. run[p].behind \in Behinds /\ run[p].keep \in Keeps /\ run[p].now \in Int
        BY <1>10 DEF Check, RunOK
      <4>2. QED
        BY <4>1, Flags
    <3>3. run[p].behind * WeekTicks \in Int /\ clock \in Int /\ Tolerance \in Int
      BY <3>2, Constants DEF DataType
    <3>4. Accepted(run[p].now, run[p].keep, run[p].behind)
      BY <2>2, <3>2, <3>3 DEF Refuses, Accepted
    <3>5. QED
      BY <1>0, <3>1, <3>4 DEF MovesTo, OthersKeep
  <2>3. QED
    BY <2>1, <2>2
<1>11. ASSUME NEW p \in Maintainers, Resume(p) PROVE PastRuns'
  BY <1>11, <1>0 DEF Resume
<1>12. ASSUME NEW p \in Maintainers, NextUnfinished(p) PROVE PastRuns'
  <2>1. CASE run[p].todo = {}
    <3>1. MovesTo(p, "search") /\ OthersKeep(p)
      BY <1>12, <2>1, GotoRuns DEF NextUnfinished
    <3>2. QED
      BY <1>12, <1>0, <3>1 DEF NextUnfinished, MovesTo, OthersKeep
  <2>2. CASE run[p].todo # {}
    BY <1>12, <1>0, <2>2 DEF NextUnfinished
  <2>3. QED
    BY <2>1, <2>2
<1>13. ASSUME NEW p \in Maintainers, Search(p) PROVE PastRuns'
  <2>1. CASE Return(p)
    BY <2>1, ReturnPastRuns
  <2>2. CASE run' = [run EXCEPT ![p].pc = "next", ![p].todo = pastPartitions(p)]
    <3>1. \A w \in pastPartitions(p) : w \in Weeks /\ Overdue(w)
      BY <1>13, PastIsOverdue DEF Search, pastPartitions
    <3>2. run'[p].pc = "next" /\ run'[p].todo = pastPartitions(p) /\ OthersKeep(p)
      BY <2>2 DEF OthersKeep
    <3>3. QED
      BY <1>0, <3>1, <3>2 DEF OthersKeep
  <2>3. QED
    BY <1>13, <2>1, <2>2 DEF Search
<1>14. ASSUME NEW p \in Maintainers, NextCandidate(p) PROVE PastRuns'
  <2>1. CASE run[p].todo = {}
    BY <1>14, <2>1, ReturnPastRuns DEF NextCandidate
  <2>2. CASE run[p].todo # {}
    <3>1. PICK w \in Weeks :
            /\ w \in run[p].todo
            /\ run' = [run EXCEPT ![p].pc = "record", ![p].cur = w, ![p].todo = @ \ {w}]
      BY <1>14, <2>2, NextCandidateWeek
    <3>2. /\ run'[p].pc = "record" /\ run'[p].cur = w /\ run'[p].todo = run[p].todo \ {w}
          /\ OthersKeep(p)
      BY <3>1 DEF OthersKeep
    <3>3. QED
      BY <1>14, <1>0, <3>1, <3>2 DEF NextCandidate, OthersKeep
  <2>3. QED
    BY <2>1, <2>2
<1>15. ASSUME NEW p \in Maintainers, Record(p) PROVE PastRuns'
  <2>1. CASE Return(p)
    BY <2>1, ReturnPastRuns
  <2>2. CASE Goto(p, "detach") /\ ~Return(p)
    <3>1. MovesTo(p, "detach") /\ OthersKeep(p)
      BY <2>2, GotoRuns
    <3>2. QED
      BY <1>15, <1>0, <2>2, <3>1 DEF Record, MovesTo, OthersKeep
  <2>3. QED
    BY <1>15, <2>1, <2>2 DEF Record
<1>16. ASSUME NEW p \in Maintainers, Detach(p) PROVE PastRuns'
  <2>1. CASE Return(p)
    BY <2>1, ReturnPastRuns
  <2>2. CASE Goto(p, "finalize") /\ ~Return(p)
    <3>1. MovesTo(p, "finalize") /\ OthersKeep(p)
      BY <2>2, GotoRuns
    <3>2. QED
      BY <1>16, <1>0, <2>2, <3>1 DEF Detach, MovesTo, OthersKeep
  <2>3. QED
    BY <1>16, <2>1, <2>2 DEF Detach
<1>17. ASSUME NEW p \in Maintainers, Finalize(p) PROVE PastRuns'
  <2>1. CASE Return(p)
    BY <2>1, ReturnPastRuns
  <2>2. CASE Goto(p, "count") /\ ~Return(p)
    <3>1. MovesTo(p, "count") /\ OthersKeep(p)
      BY <2>2, GotoRuns
    <3>2. QED
      BY <1>17, <1>0, <2>2, <3>1 DEF Finalize, MovesTo, OthersKeep
  <2>3. QED
    BY <1>17, <2>1, <2>2 DEF Finalize
<1>18. ASSUME NEW p \in Maintainers, Count(p) PROVE PastRuns'
  BY <1>18, <1>0 DEF Count, Goto
<1>19. ASSUME NEW p \in Maintainers, Drop(p) PROVE PastRuns'
  BY <1>19, <1>0 DEF Drop, Goto
<1>20. ASSUME NEW p \in Maintainers, Stamp(p) PROVE PastRuns'
  BY <1>20, <1>0 DEF Stamp
<1>21. ASSUME NEW p \in Maintainers, Fail(p) PROVE PastRuns'
  BY <1>21, ReturnPastRuns DEF Fail
<1>22. ASSUME NEW p \in Maintainers, Kill(p) PROVE PastRuns'
  BY <1>22, ReturnPastRuns DEF Kill
<1>23. CASE UNCHANGED vars
  BY <1>23, <1>0 DEF vars
<1>24. QED
  BY <1>1, <1>2, <1>3, <1>4, <1>5, <1>6, <1>7, <1>8, <1>9, <1>10, <1>11, <1>12, <1>13,
      <1>14, <1>15, <1>16, <1>17, <1>18, <1>19, <1>20, <1>21, <1>22, <1>23 DEF Next,
      Step

LEMMA PastInvariance == Spec => []PastInv
<1>1. Init => PastInv
  <2> SUFFICES ASSUME Init PROVE PastInv
    OBVIOUS
  <2>1. Inv
    BY InitInv
  <2>2. \A p \in Maintainers : run[p].pc = "idle"
    BY DEF Init, Idle
  <2>3. QED
    BY <2>1, <2>2 DEF Init, PastInv, PastRecords, PastRuns, NoRecord, Checked, Redoing,
        Dropping
<1>2. PastInv /\ [Next]_vars => PastInv'
  BY InvStep, PastRecordsStep, PastRunsStep DEF PastInv, Inv, TypeOK
<1>3. QED
  BY <1>1, <1>2, PTL DEF Spec

\* A week that is overdue is out of the horizon.
LEMMA OverdueIsOut ==
    ASSUME DataType, NEW w \in Weeks, Overdue(w)
    PROVE  \E b \in Behinds : w < weekOf(clock + Tolerance) - b
<1>1. PICK b \in Behinds : To(w) + b * WeekTicks <= clock + Tolerance
  BY DEF Overdue
<1>2. /\ w \in Int /\ b \in Int /\ clock + Tolerance \in Int
      /\ WeekTicks \in Nat \ {0}
  BY Constants DEF DataType
<1>3. (w + 1 + b) * WeekTicks <= clock + Tolerance
  BY <1>1, <1>2 DEF To
<1>4. w + 1 + b <= (clock + Tolerance) \div WeekTicks
  BY <1>2, <1>3, DivBound
<1>5. (clock + Tolerance) \div WeekTicks \in Int
  BY <1>2
<1>6. w < weekOf(clock + Tolerance) - b
  BY <1>2, <1>4, <1>5 DEF weekOf
<1>7. QED
  BY <1>6

\* A table goes only by the DROP TABLE of a run at that week.
LEMMA OnlyDropDrops ==
    ASSUME DataType, NEW v \in Weeks, part[v] # "absent", part'[v] = "absent", [Next]_vars
    PROVE  \E p \in Maintainers : run[p].pc \in {"drop", "redrop"} /\ v = run[p].cur
<1> DEFINE Dropped ==
       \E p \in Maintainers : run[p].pc \in {"drop", "redrop"} /\ v = run[p].cur
<1> SUFFICES Dropped
  OBVIOUS
<1> USE DEF DataType, table
<1>1. CASE Tick
  BY <1>1 DEF Tick
<1>2. ASSUME NEW w \in Weeks, Insert(w) PROVE Dropped
  BY <1>2 DEF Insert
<1>3. ASSUME NEW w \in Weeks, OperatorFinalizes(w) PROVE Dropped
  BY <1>3 DEF OperatorFinalizes
<1>4. ASSUME NEW w \in Weeks, OperatorAttaches(w) PROVE Dropped
  BY <1>4 DEF OperatorAttaches
<1>5. ASSUME NEW p \in Maintainers, Begin(p) PROVE Dropped
  BY <1>5 DEF Begin
<1>6. ASSUME NEW p \in Maintainers, EnsurePartitions(p) PROVE Dropped
  BY <1>6 DEF EnsurePartitions, Return
<1>7. ASSUME NEW p \in Maintainers, CreateWeek(p) PROVE Dropped
  BY <1>7 DEF CreateWeek
<1>8. ASSUME NEW p \in Maintainers, Ensured(p) PROVE Dropped
  BY <1>8 DEF Ensured
<1>9. ASSUME NEW p \in Maintainers, Retain(p) PROVE Dropped
  BY <1>9 DEF Retain, Return
<1>10. ASSUME NEW p \in Maintainers, Check(p) PROVE Dropped
  BY <1>10 DEF Check, Return, Goto
<1>11. ASSUME NEW p \in Maintainers, Resume(p) PROVE Dropped
  BY <1>11 DEF Resume
<1>12. ASSUME NEW p \in Maintainers, NextUnfinished(p) PROVE Dropped
  BY <1>12 DEF NextUnfinished, Goto
<1>13. ASSUME NEW p \in Maintainers, Search(p) PROVE Dropped
  BY <1>13 DEF Search, Return
<1>14. ASSUME NEW p \in Maintainers, NextCandidate(p) PROVE Dropped
  BY <1>14 DEF NextCandidate, Return, Goto
<1>15. ASSUME NEW p \in Maintainers, Record(p) PROVE Dropped
  BY <1>15 DEF Record, Return, Goto
<1>16. ASSUME NEW p \in Maintainers, Detach(p) PROVE Dropped
  BY <1>16 DEF Detach, Return, Goto
<1>17. ASSUME NEW p \in Maintainers, Finalize(p) PROVE Dropped
  BY <1>17 DEF Finalize, Return, Goto
<1>18. ASSUME NEW p \in Maintainers, Count(p) PROVE Dropped
  BY <1>18 DEF Count, Goto
<1>19. ASSUME NEW p \in Maintainers, Drop(p) PROVE Dropped
  BY <1>19 DEF Drop, Goto
<1>20. ASSUME NEW p \in Maintainers, Stamp(p) PROVE Dropped
  BY <1>20 DEF Stamp
<1>21. ASSUME NEW p \in Maintainers, Fail(p) PROVE Dropped
  BY <1>21 DEF Fail, Return
<1>22. ASSUME NEW p \in Maintainers, Kill(p) PROVE Dropped
  BY <1>22 DEF Kill, Return
<1>23. CASE UNCHANGED vars
  BY <1>23 DEF vars
<1>24. QED
  BY <1>1, <1>2, <1>3, <1>4, <1>5, <1>6, <1>7, <1>8, <1>9, <1>10, <1>11, <1>12, <1>13,
      <1>14, <1>15, <1>16, <1>17, <1>18, <1>19, <1>20, <1>21, <1>22, <1>23 DEF Next,
      Step

\* A week Retain drops is behind the horizon of at least one -behind in use, by the
\* database's clock and up to the skew it tolerates: however late after its check a
\* run gets to the DROP, however wrong its own clock, and also when the week is one
\* that an earlier run left half done.
THEOREM HorizonIsKept == Spec => HorizonIsNeverDropped
<1>1. ASSUME PastInv, [Next]_vars, NEW w \in Weeks, part[w] # "absent", part'[w] = "absent"
      PROVE  \E b \in Behinds : w < weekOf(clock + Tolerance) - b
  <2>1. PICK p \in Maintainers : run[p].pc \in {"drop", "redrop"} /\ w = run[p].cur
    BY <1>1, OnlyDropDrops DEF PastInv, Inv, TypeOK
  <2>2. record[w].is = "open"
    BY <1>1, <2>1 DEF PastInv, Inv, TablesOK, Working, Dropping
  <2>3. Overdue(w)
    BY <1>1, <2>2 DEF PastInv, PastRecords
  <2>4. QED
    BY <1>1, <2>3, OverdueIsOut DEF PastInv, Inv, TypeOK
<1>2. PastInv /\ [Next]_vars =>
        [\A w \in Weeks : part[w] # "absent" /\ part'[w] = "absent" =>
           \E b \in Behinds : w < weekOf(clock + Tolerance) - b]_vars
  BY <1>1
<1>3. QED
  BY <1>2, PastInvariance, PTL DEF Spec, HorizonIsNeverDropped

=============================================================================
