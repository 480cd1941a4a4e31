----------------------- MODULE MaintainerOrderlyProofs -----------------------
(***************************************************************************)
(* What Maintainer promises of dropped weeks and their counts, proved for   *)
(* deployments whose runs are orderly: one at a time, by clocks that do not *)
(* go back, with flags that agree on what is past.  The run stale_now shows *)
(* what two runs at once do to the first of these promises.                 *)
(***************************************************************************)
EXTENDS MaintainerProofs

-----------------------------------------------------------------------------
(* The inductive invariants.                                                 *)

\* Runs are orderly when there is one at a time, when no run's clock is behind
\* another's that Retain could have accepted, and when a promise above the floor of
\* one run's horizon is above every run's.
Alone == \A p, q \in Maintainers : p = q
SteadyClocks == \A s, r \in Skews : s <= r \/ Tolerance <= r
OneFloor == \A k \in Keeps, b, c \in Behinds : b * WeekTicks <= k => c * WeekTicks <= k
Orderly == Alone /\ SteadyClocks /\ OneFloor

\* The week is out of a run's horizon; out of every horizon a run could begin with,
\* now or later.
Behind(w, now, behind) == To(w) + behind * WeekTicks <= now
BehindAll(w) ==
    w \in Weeks /\ \A b \in Behinds, s \in Skews : Behind(w, clock + s, b)

\* No run that begins later has an earlier clock or a longer horizon.
AcceptedByAll(now, keep) ==
    /\ now \in Int /\ \A s \in Skews : now <= clock + s
    /\ \A b \in Behinds : b * WeekTicks <= keep

\* A week with a record is out of every horizon that is still to be created.
ForgottenRecords == \A w \in Weeks : record[w].is # "none" => BehindAll(w)

ForgottenRuns ==
    \A p \in Maintainers :
        /\ run[p].pc \in Checked => AcceptedByAll(run[p].now, run[p].keep)
        /\ run[p].pc \in Dropping \cup {"next"} => \A w \in run[p].todo : BehindAll(w)
        /\ run[p].pc = "record" => BehindAll(run[p].cur)
        /\ run[p].pc \in {"wait", "create"} =>
             \A w \in Weeks : record[w].is # "none" => Behind(w, run[p].now, run[p].behind)

\* What CreateWeek has passed is there.
CoveredOK ==
    \A p \in Maintainers : run[p].pc = "create" =>
        \A w \in Span(run[p].now, run[p].behind) \ run[p].todo : part[w] = "attached"

OrderlyInv == Inv /\ ForgottenRecords /\ ForgottenRuns /\ NoWeekReturns /\ CoveredOK

\* A count is never above the rows of its table, dropped or not, and no table goes
\* without one.
CountTables ==
    \A w \in Weeks :
        /\ record[w].is = "none" => record[w].rows = None
        /\ record[w].is = "open" /\ part[w] # "absent" =>
             record[w].rows = None \/ record[w].rows <= rows[w]
        /\ record[w].is # "none" /\ part[w] = "absent" =>
             record[w].rows # None /\ gone[w] # None /\ record[w].rows <= gone[w]

CountRuns ==
    \A p \in Maintainers :
        /\ run[p].pc \in Dropping \cup {"next"} => \A w \in run[p].todo : part[w] # "absent"
        /\ run[p].pc \in Dropping => run[p].cur \notin run[p].todo
        /\ run[p].pc \in Working \ {"stamp", "restamp"} => part[run[p].cur] # "absent"
        /\ run[p].pc \in {"drop", "redrop"} => record[run[p].cur].rows # None

CountInv == OrderlyInv /\ CountTables /\ CountRuns

\* Without a person's repairs a count is taken of a table nobody can write to any
\* more.
ExactTables ==
    \A w \in Weeks :
        /\ record[w].is = "open" /\ Inherited(w) => record[w].rows = None
        /\ record[w].is = "open" /\ part[w] = "detached" =>
             record[w].rows \in {None, rows[w]}
        /\ record[w].is # "none" /\ part[w] = "absent" => record[w].rows = gone[w]

ExactRuns ==
    \A p \in Maintainers :
        /\ run[p].pc \in Redoing => \A w \in run[p].todo : ~Inherited(w)
        /\ run[p].pc \in {"count", "drop", "recount", "redrop"} =>
             part[run[p].cur] = "detached"

-----------------------------------------------------------------------------
(* Proofs.                                                                    *)

\* What is out of every horizon stays out, as the clock goes on.
LEMMA BehindAllStays ==
    ASSUME DataType, [Next]_vars
    PROVE  /\ \A w : BehindAll(w) => BehindAll(w)'
           /\ \A n, k : AcceptedByAll(n, k) => AcceptedByAll(n, k)'
<1>1. clock \in Int /\ clock' \in Int /\ clock <= clock'
  BY ClockGrows
<1>2. ASSUME NEW n \in Int, NEW s \in Skews, n <= clock + s PROVE n <= clock' + s
  BY <1>1, <1>2, Flags, LaterBound
<1>3. ASSUME NEW w, BehindAll(w) PROVE BehindAll(w)'
  <2>1. w \in Weeks
    BY <1>3 DEF BehindAll
  <2>2. ASSUME NEW b \in Behinds, NEW s \in Skews
        PROVE  To(w) + b * WeekTicks <= clock' + s
    <3>1. To(w) + b * WeekTicks <= clock + s
      BY <1>3 DEF BehindAll, Behind
    <3>2. To(w) \in Int /\ b * WeekTicks \in Int
      BY <2>1, Flags
    <3>3. To(w) + b * WeekTicks \in Int
      BY <3>2
    <3>4. QED
      BY <1>2, <3>1, <3>3
  <2>3. QED
    BY <2>1, <2>2 DEF BehindAll, Behind
<1>4. ASSUME NEW n, NEW k, AcceptedByAll(n, k) PROVE AcceptedByAll(n, k)'
  BY <1>2, <1>4 DEF AcceptedByAll
<1>5. QED
  BY <1>3, <1>4

\* What one run's check lets pass is behind every run's clock and above its floor.
LEMMA CheckAcceptsForAll ==
    ASSUME SteadyClocks, OneFloor, DataType, RunType, RunOK,
           NEW p \in Maintainers, run[p].pc = "check", ~Refuses(p)
    PROVE  AcceptedByAll(run[p].now, run[p].keep)
<1>1. run[p].behind \in Behinds /\ run[p].keep \in Keeps /\ run[p].now \in Int
  BY DEF RunType, Runs, RunOK
<1>2. run[p].behind * WeekTicks \in Int /\ run[p].keep \in Int
  BY <1>1, Flags
<1>3. clock \in Int /\ Tolerance \in Int
  BY Constants DEF DataType
<1>4. run[p].now <= clock + Tolerance /\ run[p].behind * WeekTicks <= run[p].keep
  BY <1>1, <1>2, <1>3 DEF Refuses
<1>5. PICK t \in Start..clock, s \in Skews : run[p].now = t + s
  BY DEF RunOK, Shown
<1>6. t \in Int /\ t <= clock /\ s \in Int
  BY <1>3, Constants, Flags
<1>7. ASSUME NEW r \in Skews PROVE run[p].now <= clock + r
  <2>1. r \in Int
    BY Flags
  <2>2. CASE s <= r
    BY <1>3, <1>5, <1>6, <2>1, <2>2
  <2>3. CASE Tolerance <= r
    BY <1>1, <1>3, <1>4, <2>1, <2>3
  <2>4. QED
    BY <2>2, <2>3 DEF SteadyClocks
<1>8. \A b \in Behinds : b * WeekTicks <= run[p].keep
  BY <1>1, <1>4 DEF OneFloor
<1>9. QED
  BY <1>1, <1>7, <1>8 DEF AcceptedByAll

\* Past the check, a week before the boundary is out of every horizon.
LEMMA PastIsBehindAll ==
    ASSUME DataType, RunType, RunOK, ForgottenRuns,
           NEW p \in Maintainers, run[p].pc \in Checked, NEW w \in pastPartitions(p)
    PROVE  BehindAll(w)
<1>1. AcceptedByAll(run[p].now, run[p].keep) /\ run[p].keep \in Keeps
  BY DEF ForgottenRuns, RunOK, Checked, Redoing
<1>2. w \in Weeks /\ To(w) <= run[p].now - run[p].keep
  BY DEF pastPartitions
<1>3. To(w) \in Int /\ run[p].keep \in Int
  BY <1>1, <1>2, Flags
<1>4. clock \in Int /\ run[p].now \in Int
  BY <1>1, Constants DEF DataType, AcceptedByAll
<1>5. ASSUME NEW b \in Behinds, NEW s \in Skews
      PROVE  To(w) + b * WeekTicks <= clock + s
  <2>1. b * WeekTicks \in Int /\ s \in Int
    BY Flags
  <2>2. run[p].now <= clock + s /\ b * WeekTicks <= run[p].keep
    BY <1>1 DEF AcceptedByAll
  <2>3. QED
    BY <1>2, <1>3, <1>4, <2>1, <2>2
<1>6. QED
  BY <1>2, <1>5 DEF BehindAll, Behind

\* A week behind a run's horizon is not in it, so what that run creates is new.
LEMMA BehindIsOut ==
    ASSUME NEW w \in Weeks, NEW n \in Int, NEW b \in Behinds, Behind(w, n, b)
    PROVE  w \notin Span(n, b)
<1>1. w \in Int /\ b \in Int /\ WeekTicks \in Nat \ {0}
  BY Flags, Constants
<1>2. (w + 1 + b) * WeekTicks <= n
  BY <1>1 DEF Behind, To
<1>3. w + 1 + b <= n \div WeekTicks
  BY <1>1, <1>2, DivBound
<1>4. n \div WeekTicks \in Int
  BY <1>1
<1>5. w < weekOf(n) - b
  BY <1>1, <1>3, <1>4 DEF weekOf
<1>6. QED
  BY <1>1, <1>4, <1>5 DEF Span, weekOf

\* A week the horizon is about to create has no record, and its table is not half
\* taken apart.
LEMMA CreatedIsNew ==
    ASSUME Inv, ForgottenRuns, NEW p \in Maintainers, run[p].pc = "create", run[p].todo # {}
    PROVE  /\ Oldest(run[p].todo) \in Weeks
           /\ record[Oldest(run[p].todo)].is = "none"
           /\ part[Oldest(run[p].todo)] \in {"absent", "attached"}
<1> DEFINE w == Oldest(run[p].todo)
<1>1. w \in run[p].todo /\ w \in Weeks
  BY OldestIsMember DEF Inv, TypeOK, RunType, Runs
<1>2. /\ w \in Span(run[p].now, run[p].behind)
      /\ run[p].behind \in Behinds /\ run[p].now \in Int
  BY <1>1 DEF Inv, TypeOK, RunType, Runs, RunOK
<1>3. ~Behind(w, run[p].now, run[p].behind)
  BY <1>1, <1>2, BehindIsOut
<1>4. record[w].is = "none"
  BY <1>1, <1>3 DEF ForgottenRuns
<1>5. part[w] \in {"absent", "attached"}
  BY <1>1, <1>4 DEF Inv, TypeOK, DataType, NoOrphan
<1>6. QED
  BY <1>1, <1>4, <1>5

LEMMA ReturnForgottenRuns ==
    ASSUME DataType, RunType, ForgottenRuns, [Next]_vars,
           NEW p \in Maintainers, Return(p), UNCHANGED record
    PROVE  ForgottenRuns'
<1>1. run'[p].pc = "idle" /\ OthersKeep(p)
  BY ReturnRuns
<1>2. \A w, n, b : Behind(w, n, b) <=> Behind(w, n, b)'
  BY DEF Behind
<1>3. QED
  BY <1>1, <1>2, BehindAllStays DEF ForgottenRuns, OthersKeep, Checked, Redoing, Dropping

\* A record is only written for a week no horizon asks for again.
LEMMA ForgottenRecordsStep ==
    ASSUME OrderlyInv, [Next]_vars
    PROVE  ForgottenRecords'
<1> USE DEF OrderlyInv, Inv, TypeOK, DataType, RunOK, TablesOK, ForgottenRecords,
    ForgottenRuns, table, Working, Dropping
<1>0. \A w : BehindAll(w) => BehindAll(w)'
  BY BehindAllStays
<1>1. CASE Tick
  BY <1>1, <1>0 DEF Tick
<1>2. ASSUME NEW w \in Weeks, Insert(w) PROVE ForgottenRecords'
  BY <1>2, <1>0 DEF Insert
<1>3. ASSUME NEW w \in Weeks, OperatorFinalizes(w) PROVE ForgottenRecords'
  BY <1>3, <1>0 DEF OperatorFinalizes
<1>4. ASSUME NEW w \in Weeks, OperatorAttaches(w) PROVE ForgottenRecords'
  BY <1>4, <1>0 DEF OperatorAttaches
<1>5. ASSUME NEW p \in Maintainers, Begin(p) PROVE ForgottenRecords'
  BY <1>5, <1>0 DEF Begin
<1>6. ASSUME NEW p \in Maintainers, EnsurePartitions(p) PROVE ForgottenRecords'
  BY <1>6, <1>0 DEF EnsurePartitions, Return
<1>7. ASSUME NEW p \in Maintainers, CreateWeek(p) PROVE ForgottenRecords'
  BY <1>7, <1>0 DEF CreateWeek
<1>8. ASSUME NEW p \in Maintainers, Ensured(p) PROVE ForgottenRecords'
  BY <1>8, <1>0 DEF Ensured
<1>9. ASSUME NEW p \in Maintainers, Retain(p) PROVE ForgottenRecords'
  BY <1>9, <1>0 DEF Retain, Return
<1>10. ASSUME NEW p \in Maintainers, Check(p) PROVE ForgottenRecords'
  BY <1>10, <1>0 DEF Check, Return, Goto
<1>11. ASSUME NEW p \in Maintainers, Resume(p) PROVE ForgottenRecords'
  BY <1>11, <1>0 DEF Resume
<1>12. ASSUME NEW p \in Maintainers, NextUnfinished(p) PROVE ForgottenRecords'
  BY <1>12, <1>0 DEF NextUnfinished, Goto
<1>13. ASSUME NEW p \in Maintainers, Search(p) PROVE ForgottenRecords'
  BY <1>13, <1>0 DEF Search, Return
<1>14. ASSUME NEW p \in Maintainers, NextCandidate(p) PROVE ForgottenRecords'
  BY <1>14, <1>0 DEF NextCandidate, Return, Goto
<1>15. ASSUME NEW p \in Maintainers, Record(p) PROVE ForgottenRecords'
  BY <1>15, <1>0 DEF Record, Return, Goto
<1>16. ASSUME NEW p \in Maintainers, Detach(p) PROVE ForgottenRecords'
  BY <1>16, <1>0 DEF Detach, Return, Goto
<1>17. ASSUME NEW p \in Maintainers, Finalize(p) PROVE ForgottenRecords'
  BY <1>17, <1>0 DEF Finalize, Return, Goto
<1>18. ASSUME NEW p \in Maintainers, Count(p) PROVE ForgottenRecords'
  BY <1>18, <1>0 DEF Count, Goto
<1>19. ASSUME NEW p \in Maintainers, Drop(p) PROVE ForgottenRecords'
  BY <1>19, <1>0 DEF Drop, Goto
<1>20. ASSUME NEW p \in Maintainers, Stamp(p) PROVE ForgottenRecords'
  BY <1>20, <1>0 DEF Stamp
<1>21. ASSUME NEW p \in Maintainers, Fail(p) PROVE ForgottenRecords'
  BY <1>21, <1>0 DEF Fail, Return
<1>22. ASSUME NEW p \in Maintainers, Kill(p) PROVE ForgottenRecords'
  BY <1>22, <1>0 DEF Kill, Return
<1>23. CASE UNCHANGED vars
  BY <1>23, <1>0 DEF vars
<1>24. QED
  BY <1>1, <1>2, <1>3, <1>4, <1>5, <1>6, <1>7, <1>8, <1>9, <1>10, <1>11, <1>12, <1>13,
      <1>14, <1>15, <1>16, <1>17, <1>18, <1>19, <1>20, <1>21, <1>22, <1>23 DEF Next,
      Step

\* No record is written between the moment a run reads its clock and the last week
\* it creates.
LEMMA ForgottenRunsStep ==
    ASSUME Orderly, DataType, RunType, RunOK, TablesOK,
           ForgottenRecords, ForgottenRuns, [Next]_vars
    PROVE  ForgottenRuns'
<1> USE DEF Orderly, RunType, Runs, PCs, ForgottenRuns, Checked, Redoing, Dropping
<1>0. /\ \A w : BehindAll(w) => BehindAll(w)'
      /\ \A n, k : AcceptedByAll(n, k) => AcceptedByAll(n, k)'
      /\ \A w, n, b : Behind(w, n, b) <=> Behind(w, n, b)'
  BY BehindAllStays DEF Behind
<1>1. CASE Tick
  BY <1>1, <1>0 DEF Tick, table
<1>2. ASSUME NEW w \in Weeks, Insert(w) PROVE ForgottenRuns'
  BY <1>2, <1>0 DEF Insert, table
<1>3. ASSUME NEW w \in Weeks, OperatorFinalizes(w) PROVE ForgottenRuns'
  BY <1>3, <1>0 DEF OperatorFinalizes, table
<1>4. ASSUME NEW w \in Weeks, OperatorAttaches(w) PROVE ForgottenRuns'
  BY <1>4, <1>0 DEF OperatorAttaches, table
<1>5. ASSUME NEW p \in Maintainers, Begin(p) PROVE ForgottenRuns'
  <2>1. PICK s \in Skews, b \in Behinds, k \in Keeps :
          run' = [run EXCEPT ![p] = [Idle EXCEPT !.pc = "wait", !.now = clock + s,
                                                 !.keep = k, !.behind = b]]
    BY <1>5 DEF Begin
  <2>2. /\ run'[p].pc = "wait" /\ run'[p].now = clock + s /\ run'[p].behind = b
        /\ OthersKeep(p)
    BY <2>1 DEF Idle, OthersKeep
  <2>3. \A w \in Weeks : record[w].is # "none" => Behind(w, clock + s, b)
    BY DEF ForgottenRecords, BehindAll
  <2>4. QED
    BY <1>5, <1>0, <2>2, <2>3 DEF Begin, OthersKeep, table
<1>6. ASSUME NEW p \in Maintainers, EnsurePartitions(p) PROVE ForgottenRuns'
  <2>1. CASE refuseDefaultPartition
    BY <1>6, <2>1, ReturnForgottenRuns DEF EnsurePartitions, table
  <2>2. CASE ~refuseDefaultPartition
    BY <1>6, <1>0, <2>2 DEF EnsurePartitions, table
  <2>3. QED
    BY <2>1, <2>2
<1>7. ASSUME NEW p \in Maintainers, CreateWeek(p) PROVE ForgottenRuns'
  BY <1>7, <1>0 DEF CreateWeek, table
<1>8. ASSUME NEW p \in Maintainers, Ensured(p) PROVE ForgottenRuns'
  BY <1>8, <1>0 DEF Ensured, Idle, table
<1>9. ASSUME NEW p \in Maintainers, Retain(p) PROVE ForgottenRuns'
  <2>1. CASE lock # None
    BY <1>9, <2>1, ReturnForgottenRuns DEF Retain, table
  <2>2. CASE lock = None
    BY <1>9, <1>0, <2>2 DEF Retain, table
  <2>3. QED
    BY <2>1, <2>2
<1>10. ASSUME NEW p \in Maintainers, Check(p) PROVE ForgottenRuns'
  <2>1. CASE Refuses(p)
    BY <1>10, <2>1, ReturnForgottenRuns DEF Check, table
  <2>2. CASE ~Refuses(p)
    <3>1. MovesTo(p, "resume") /\ OthersKeep(p) /\ record' = record
      BY <1>10, <2>2, GotoRuns DEF Check, table
    <3>2. AcceptedByAll(run[p].now, run[p].keep)
      BY <1>10, <2>2, CheckAcceptsForAll DEF Check
    <3>3. QED
      BY <1>0, <3>1, <3>2 DEF MovesTo, OthersKeep
  <2>3. QED
    BY <2>1, <2>2
<1>11. ASSUME NEW p \in Maintainers, Resume(p) PROVE ForgottenRuns'
  BY <1>11, <1>0 DEF Resume, table
<1>12. ASSUME NEW p \in Maintainers, NextUnfinished(p) PROVE ForgottenRuns'
  <2>1. CASE run[p].todo = {}
    <3>1. MovesTo(p, "search") /\ OthersKeep(p)
      BY <1>12, <2>1, GotoRuns DEF NextUnfinished
    <3>2. QED
      BY <1>12, <1>0, <3>1 DEF NextUnfinished, MovesTo, OthersKeep, table
  <2>2. CASE run[p].todo # {}
    BY <1>12, <1>0, <2>2 DEF NextUnfinished, table
  <2>3. QED
    BY <2>1, <2>2
<1>13. ASSUME NEW p \in Maintainers, Search(p) PROVE ForgottenRuns'
  <2>1. CASE Return(p)
    BY <1>13, <2>1, ReturnForgottenRuns DEF Search, table
  <2>2. CASE run' = [run EXCEPT ![p].pc = "next", ![p].todo = pastPartitions(p)]
    <3>1. \A w \in pastPartitions(p) : BehindAll(w)
      BY <1>13, PastIsBehindAll DEF Search
    <3>2. run'[p].pc = "next" /\ run'[p].todo = pastPartitions(p) /\ OthersKeep(p)
      BY <2>2 DEF OthersKeep
    <3>3. QED
      BY <1>13, <1>0, <3>1, <3>2 DEF Search, OthersKeep, table
  <2>3. QED
    BY <1>13, <2>1, <2>2 DEF Search
<1>14. ASSUME NEW p \in Maintainers, NextCandidate(p) PROVE ForgottenRuns'
  <2>1. CASE run[p].todo = {}
    BY <1>14, <2>1, ReturnForgottenRuns DEF NextCandidate, table
  <2>2. CASE run[p].todo # {}
    <3>1. PICK w \in Weeks :
            /\ w \in run[p].todo
            /\ run' = [run EXCEPT ![p].pc = "record", ![p].cur = w, ![p].todo = @ \ {w}]
      BY <1>14, <2>2, NextCandidateWeek
    <3>2. /\ run'[p].pc = "record" /\ run'[p].cur = w /\ run'[p].todo = run[p].todo \ {w}
          /\ OthersKeep(p) /\ run[p].pc = "next" /\ record' = record
      BY <1>14, <3>1 DEF NextCandidate, OthersKeep, table
    <3>3. QED
      BY <1>0, <3>1, <3>2 DEF OthersKeep
  <2>3. QED
    BY <2>1, <2>2
<1>15. ASSUME NEW p \in Maintainers, Record(p) PROVE ForgottenRuns'
  <2>1. CASE Return(p) /\ UNCHANGED record
    BY <1>15, <2>1, ReturnForgottenRuns DEF Record
  <2>2. CASE Goto(p, "detach")
    <3>1. MovesTo(p, "detach") /\ \A q \in Maintainers : q = p
      BY <2>2, GotoRuns DEF Alone
    <3>2. QED
      BY <1>15, <1>0, <3>1 DEF Record, MovesTo
  <2>3. QED
    BY <1>15, <2>1, <2>2 DEF Record
<1>16. ASSUME NEW p \in Maintainers, Detach(p) PROVE ForgottenRuns'
  <2>1. CASE Return(p)
    BY <1>16, <2>1, ReturnForgottenRuns DEF Detach
  <2>2. CASE Goto(p, "finalize")
    <3>1. MovesTo(p, "finalize") /\ OthersKeep(p) /\ record' = record
      BY <1>16, <2>2, GotoRuns DEF Detach
    <3>2. QED
      BY <1>16, <1>0, <3>1 DEF Detach, MovesTo, OthersKeep
  <2>3. QED
    BY <1>16, <2>1, <2>2 DEF Detach
<1>17. ASSUME NEW p \in Maintainers, Finalize(p) PROVE ForgottenRuns'
  <2>1. CASE Return(p)
    BY <1>17, <2>1, ReturnForgottenRuns DEF Finalize
  <2>2. CASE Goto(p, "count")
    <3>1. MovesTo(p, "count") /\ OthersKeep(p) /\ record' = record
      BY <1>17, <2>2, GotoRuns DEF Finalize
    <3>2. QED
      BY <1>17, <1>0, <3>1 DEF Finalize, MovesTo, OthersKeep
  <2>3. QED
    BY <1>17, <2>1, <2>2 DEF Finalize
<1>18. ASSUME NEW p \in Maintainers, Count(p) PROVE ForgottenRuns'
  <2>1. \A w \in Weeks : record'[w].is # "none" => record[w].is # "none"
    BY <1>18 DEF Count, TablesOK, DataType, Working, Dropping
  <2>2. QED
    BY <1>18, <1>0, <2>1 DEF Count, Goto
<1>19. ASSUME NEW p \in Maintainers, Drop(p) PROVE ForgottenRuns'
  BY <1>19, <1>0 DEF Drop, Goto, table
<1>20. ASSUME NEW p \in Maintainers, Stamp(p) PROVE ForgottenRuns'
  <2>1. \A w \in Weeks : record'[w].is # "none" => record[w].is # "none"
    BY <1>20 DEF Stamp, TablesOK, DataType, Working, Dropping
  <2>2. QED
    BY <1>20, <1>0, <2>1 DEF Stamp, Goto
<1>21. ASSUME NEW p \in Maintainers, Fail(p) PROVE ForgottenRuns'
  BY <1>21, ReturnForgottenRuns DEF Fail, table
<1>22. ASSUME NEW p \in Maintainers, Kill(p) PROVE ForgottenRuns'
  BY <1>22, ReturnForgottenRuns DEF Kill, table
<1>23. CASE UNCHANGED vars
  BY <1>23, <1>0 DEF vars
<1>24. QED
  BY <1>1, <1>2, <1>3, <1>4, <1>5, <1>6, <1>7, <1>8, <1>9, <1>10, <1>11, <1>12, <1>13,
      <1>14, <1>15, <1>16, <1>17, <1>18, <1>19, <1>20, <1>21, <1>22, <1>23 DEF Next,
      Step

\* A week with a stamped record is not created again.
LEMMA NoReturnStep ==
    ASSUME Inv, ForgottenRuns, NoWeekReturns, [Next]_vars
    PROVE  NoWeekReturns'
<1> USE DEF Inv, TypeOK, DataType, RunOK, TablesOK, NoOrphan, NoWeekReturns, table,
    Working, Dropping
<1>1. CASE Tick
  BY <1>1 DEF Tick
<1>2. ASSUME NEW w \in Weeks, Insert(w) PROVE NoWeekReturns'
  BY <1>2 DEF Insert
<1>3. ASSUME NEW w \in Weeks, OperatorFinalizes(w) PROVE NoWeekReturns'
  BY <1>3 DEF OperatorFinalizes
<1>4. ASSUME NEW w \in Weeks, OperatorAttaches(w) PROVE NoWeekReturns'
  BY <1>4 DEF OperatorAttaches
<1>5. ASSUME NEW p \in Maintainers, Begin(p) PROVE NoWeekReturns'
  BY <1>5 DEF Begin
<1>6. ASSUME NEW p \in Maintainers, EnsurePartitions(p) PROVE NoWeekReturns'
  BY <1>6 DEF EnsurePartitions, Return
<1>7. ASSUME NEW p \in Maintainers, CreateWeek(p) PROVE NoWeekReturns'
  <2>1. record[Oldest(run[p].todo)].is = "none"
    BY <1>7, CreatedIsNew DEF CreateWeek
  <2>2. QED
    BY <1>7, <2>1 DEF CreateWeek
<1>8. ASSUME NEW p \in Maintainers, Ensured(p) PROVE NoWeekReturns'
  BY <1>8 DEF Ensured
<1>9. ASSUME NEW p \in Maintainers, Retain(p) PROVE NoWeekReturns'
  BY <1>9 DEF Retain, Return
<1>10. ASSUME NEW p \in Maintainers, Check(p) PROVE NoWeekReturns'
  BY <1>10 DEF Check, Return, Goto
<1>11. ASSUME NEW p \in Maintainers, Resume(p) PROVE NoWeekReturns'
  BY <1>11 DEF Resume
<1>12. ASSUME NEW p \in Maintainers, NextUnfinished(p) PROVE NoWeekReturns'
  BY <1>12 DEF NextUnfinished, Goto
<1>13. ASSUME NEW p \in Maintainers, Search(p) PROVE NoWeekReturns'
  BY <1>13 DEF Search, Return
<1>14. ASSUME NEW p \in Maintainers, NextCandidate(p) PROVE NoWeekReturns'
  BY <1>14 DEF NextCandidate, Return, Goto
<1>15. ASSUME NEW p \in Maintainers, Record(p) PROVE NoWeekReturns'
  BY <1>15 DEF Record, Return, Goto
<1>16. ASSUME NEW p \in Maintainers, Detach(p) PROVE NoWeekReturns'
  BY <1>16 DEF Detach, Return, Goto
<1>17. ASSUME NEW p \in Maintainers, Finalize(p) PROVE NoWeekReturns'
  BY <1>17 DEF Finalize, Return, Goto
<1>18. ASSUME NEW p \in Maintainers, Count(p) PROVE NoWeekReturns'
  BY <1>18 DEF Count, Goto
<1>19. ASSUME NEW p \in Maintainers, Drop(p) PROVE NoWeekReturns'
  BY <1>19 DEF Drop, Goto
<1>20. ASSUME NEW p \in Maintainers, Stamp(p) PROVE NoWeekReturns'
  BY <1>20 DEF Stamp
<1>21. ASSUME NEW p \in Maintainers, Fail(p) PROVE NoWeekReturns'
  BY <1>21 DEF Fail, Return
<1>22. ASSUME NEW p \in Maintainers, Kill(p) PROVE NoWeekReturns'
  BY <1>22 DEF Kill, Return
<1>23. CASE UNCHANGED vars
  BY <1>23 DEF vars
<1>24. QED
  BY <1>1, <1>2, <1>3, <1>4, <1>5, <1>6, <1>7, <1>8, <1>9, <1>10, <1>11, <1>12, <1>13,
      <1>14, <1>15, <1>16, <1>17, <1>18, <1>19, <1>20, <1>21, <1>22, <1>23 DEF Next,
      Step

\* A week the loop has passed is attached, and stays so until the run lets go of
\* the lock.
LEMMA CoveredStep ==
    ASSUME Inv, ForgottenRuns, CoveredOK, [Next]_vars
    PROVE  CoveredOK'
<1> USE DEF Inv, TypeOK, DataType, RunType, Runs, PCs, LockType, Unlocked, CoveredOK, table
<1>1. CASE Tick
  BY <1>1 DEF Tick
<1>2. ASSUME NEW w \in Weeks, Insert(w) PROVE CoveredOK'
  BY <1>2 DEF Insert
<1>3. ASSUME NEW w \in Weeks, OperatorFinalizes(w) PROVE CoveredOK'
  BY <1>3 DEF OperatorFinalizes
<1>4. ASSUME NEW w \in Weeks, OperatorAttaches(w) PROVE CoveredOK'
  BY <1>4 DEF OperatorAttaches
<1>5. ASSUME NEW p \in Maintainers, Begin(p) PROVE CoveredOK'
  BY <1>5 DEF Begin, Idle
<1>6. ASSUME NEW p \in Maintainers, EnsurePartitions(p) PROVE CoveredOK'
  BY <1>6 DEF EnsurePartitions, Return, Idle
<1>7. ASSUME NEW p \in Maintainers, CreateWeek(p) PROVE CoveredOK'
  <2>1. /\ Oldest(run[p].todo) \in Weeks
        /\ part[Oldest(run[p].todo)] \in {"absent", "attached"}
    BY <1>7, CreatedIsNew DEF CreateWeek
  <2>2. QED
    BY <1>7, <2>1 DEF CreateWeek
<1>8. ASSUME NEW p \in Maintainers, Ensured(p) PROVE CoveredOK'
  BY <1>8 DEF Ensured, Idle
<1>9. ASSUME NEW p \in Maintainers, Retain(p) PROVE CoveredOK'
  <2>1. run'[p].pc # "create" /\ OthersKeep(p)
    BY <1>9 DEF Retain, Return, Idle, OthersKeep
  <2>2. QED
    BY <1>9, <2>1 DEF Retain, OthersKeep
<1>10. ASSUME NEW p \in Maintainers, Check(p) PROVE CoveredOK'
  BY <1>10 DEF Check, Return, Goto, Idle
<1>11. ASSUME NEW p \in Maintainers, Resume(p) PROVE CoveredOK'
  BY <1>11 DEF Resume
<1>12. ASSUME NEW p \in Maintainers, NextUnfinished(p) PROVE CoveredOK'
  BY <1>12 DEF NextUnfinished, Goto
<1>13. ASSUME NEW p \in Maintainers, Search(p) PROVE CoveredOK'
  BY <1>13 DEF Search, Return, Idle
<1>14. ASSUME NEW p \in Maintainers, NextCandidate(p) PROVE CoveredOK'
  <2>1. run'[p].pc # "create" /\ OthersKeep(p)
    <3>1. CASE run[p].todo = {}
      BY <1>14, <3>1, ReturnRuns DEF NextCandidate
    <3>2. CASE run[p].todo # {}
      <4>1. PICK w \in Weeks :
              run' = [run EXCEPT ![p].pc = "record", ![p].cur = w, ![p].todo = @ \ {w}]
        BY <1>14, <3>2, NextCandidateWeek
      <4>2. QED
        BY <4>1 DEF OthersKeep
    <3>3. QED
      BY <3>1, <3>2
  <2>2. part' = part
    BY <1>14 DEF NextCandidate
  <2>3. QED
    BY <2>1, <2>2 DEF OthersKeep
<1>15. ASSUME NEW p \in Maintainers, Record(p) PROVE CoveredOK'
  BY <1>15 DEF Record, Return, Goto, Idle
<1>16. ASSUME NEW p \in Maintainers, Detach(p) PROVE CoveredOK'
  BY <1>16 DEF Detach, Return, Goto, Idle
<1>17. ASSUME NEW p \in Maintainers, Finalize(p) PROVE CoveredOK'
  BY <1>17 DEF Finalize, Return, Goto, Idle
<1>18. ASSUME NEW p \in Maintainers, Count(p) PROVE CoveredOK'
  BY <1>18 DEF Count, Goto
<1>19. ASSUME NEW p \in Maintainers, Drop(p) PROVE CoveredOK'
  BY <1>19 DEF Drop, Goto
<1>20. ASSUME NEW p \in Maintainers, Stamp(p) PROVE CoveredOK'
  BY <1>20 DEF Stamp
<1>21. ASSUME NEW p \in Maintainers, Fail(p) PROVE CoveredOK'
  BY <1>21 DEF Fail, Return, Idle
<1>22. ASSUME NEW p \in Maintainers, Kill(p) PROVE CoveredOK'
  BY <1>22 DEF Kill, Return, Idle
<1>23. CASE UNCHANGED vars
  BY <1>23 DEF vars
<1>24. QED
  BY <1>1, <1>2, <1>3, <1>4, <1>5, <1>6, <1>7, <1>8, <1>9, <1>10, <1>11, <1>12, <1>13,
      <1>14, <1>15, <1>16, <1>17, <1>18, <1>19, <1>20, <1>21, <1>22, <1>23 DEF Next,
      Step

LEMMA InitOrderly == Init => OrderlyInv
<1> SUFFICES ASSUME Init PROVE OrderlyInv
  OBVIOUS
<1>1. Inv
  BY InitInv
<1>2. \A p \in Maintainers : run[p].pc = "idle"
  BY DEF Init, Idle
<1>3. \A w \in Weeks : record[w].is = "none"
  BY DEF Init, NoRecord
<1>4. QED
  BY <1>1, <1>2, <1>3 DEF OrderlyInv, ForgottenRecords, ForgottenRuns, NoWeekReturns,
      CoveredOK, Checked, Redoing, Dropping

LEMMA OrderlyStep ==
    ASSUME Orderly PROVE OrderlyInv /\ [Next]_vars => OrderlyInv'
  BY InvStep, ForgottenRecordsStep, ForgottenRunsStep, NoReturnStep, CoveredStep
     DEF OrderlyInv, Inv, TypeOK

LEMMA OrderlyInvariance ==
    ASSUME Orderly PROVE Spec => []OrderlyInv
  BY InitOrderly, OrderlyStep, PTL DEF Spec

\* A week that was dropped is never created again, when runs are orderly.
THEOREM DroppedWeeksStayAway ==
    ASSUME Orderly PROVE Spec => []NoWeekReturns
<1>1. OrderlyInv => NoWeekReturns
  BY DEF OrderlyInv
<1>2. QED
  BY <1>1, OrderlyInvariance, PTL

\* When EnsurePartitions returns nil every week of its span takes rows, when runs
\* are orderly: none of them is a table that an interrupted Retain had detached.
THEOREM HorizonIsCreated ==
    ASSUME Orderly PROVE Spec => []EnsureCovers
<1>1. OrderlyInv => EnsureCovers
  BY DEF OrderlyInv, CoveredOK, EnsureCovers
<1>2. QED
  BY <1>1, OrderlyInvariance, PTL

LEMMA AtMostTrans ==
    ASSUME NEW a \in Int, NEW b \in Int, NEW c \in Int, a <= b, b <= c
    PROVE  a <= c
  OBVIOUS

\* Rows come and do not leave, and no table with a record is created anew.
LEMMA CountTablesStep ==
    ASSUME OrderlyInv, CountTables, CountRuns, [Next]_vars
    PROVE  CountTables'
<1> USE Constants
<1> USE DEF OrderlyInv, Inv, TypeOK, DataType, RunOK, TablesOK, NoOrphan, NoWeekReturns,
    CountTables, CountRuns, table, Working, Dropping
<1>1. CASE Tick
  BY <1>1 DEF Tick
<1>2. ASSUME NEW w \in Weeks, Insert(w) PROVE CountTables'
  <2>1. \A v \in Weeks : rows[v] \in Int /\ rows'[v] \in Int /\ rows[v] <= rows'[v]
    BY <1>2, Constants DEF Insert, DataType
  <2>2. \A v \in Weeks : record[v].rows = None \/ record[v].rows \in Int
    BY Constants DEF DataType
  <2>3. ASSUME NEW v \in Weeks, record[v].rows \in Int, record[v].rows <= rows[v]
        PROVE  record[v].rows <= rows'[v]
    BY <2>1, <2>3, AtMostTrans
  <2>4. QED
    BY <1>2, <2>2, <2>3 DEF Insert
<1>3. ASSUME NEW w \in Weeks, OperatorFinalizes(w) PROVE CountTables'
  BY <1>3 DEF OperatorFinalizes
<1>4. ASSUME NEW w \in Weeks, OperatorAttaches(w) PROVE CountTables'
  BY <1>4 DEF OperatorAttaches
<1>5. ASSUME NEW p \in Maintainers, Begin(p) PROVE CountTables'
  BY <1>5 DEF Begin
<1>6. ASSUME NEW p \in Maintainers, EnsurePartitions(p) PROVE CountTables'
  BY <1>6 DEF EnsurePartitions, Return
<1>7. ASSUME NEW p \in Maintainers, CreateWeek(p) PROVE CountTables'
  <2>1. /\ Oldest(run[p].todo) \in Weeks
        /\ record[Oldest(run[p].todo)].is = "none"
    BY <1>7, CreatedIsNew DEF CreateWeek
  <2>2. QED
    BY <1>7, <2>1 DEF CreateWeek
<1>8. ASSUME NEW p \in Maintainers, Ensured(p) PROVE CountTables'
  BY <1>8 DEF Ensured
<1>9. ASSUME NEW p \in Maintainers, Retain(p) PROVE CountTables'
  BY <1>9 DEF Retain, Return
<1>10. ASSUME NEW p \in Maintainers, Check(p) PROVE CountTables'
  BY <1>10 DEF Check, Return, Goto
<1>11. ASSUME NEW p \in Maintainers, Resume(p) PROVE CountTables'
  BY <1>11 DEF Resume
<1>12. ASSUME NEW p \in Maintainers, NextUnfinished(p) PROVE CountTables'
  BY <1>12 DEF NextUnfinished, Goto
<1>13. ASSUME NEW p \in Maintainers, Search(p) PROVE CountTables'
  BY <1>13 DEF Search, Return
<1>14. ASSUME NEW p \in Maintainers, NextCandidate(p) PROVE CountTables'
  BY <1>14 DEF NextCandidate, Return, Goto
<1>15. ASSUME NEW p \in Maintainers, Record(p) PROVE CountTables'
  BY <1>15 DEF Record, Return, Goto
<1>16. ASSUME NEW p \in Maintainers, Detach(p) PROVE CountTables'
  BY <1>16 DEF Detach, Return, Goto
<1>17. ASSUME NEW p \in Maintainers, Finalize(p) PROVE CountTables'
  BY <1>17 DEF Finalize, Return, Goto
<1>18. ASSUME NEW p \in Maintainers, Count(p) PROVE CountTables'
  BY <1>18 DEF Count, Goto
<1>19. ASSUME NEW p \in Maintainers, Drop(p) PROVE CountTables'
  BY <1>19 DEF Drop, Goto
<1>20. ASSUME NEW p \in Maintainers, Stamp(p) PROVE CountTables'
  BY <1>20 DEF Stamp
<1>21. ASSUME NEW p \in Maintainers, Fail(p) PROVE CountTables'
  BY <1>21 DEF Fail, Return
<1>22. ASSUME NEW p \in Maintainers, Kill(p) PROVE CountTables'
  BY <1>22 DEF Kill, Return
<1>23. CASE UNCHANGED vars
  BY <1>23 DEF vars
<1>24. QED
  BY <1>1, <1>2, <1>3, <1>4, <1>5, <1>6, <1>7, <1>8, <1>9, <1>10, <1>11, <1>12, <1>13,
      <1>14, <1>15, <1>16, <1>17, <1>18, <1>19, <1>20, <1>21, <1>22, <1>23 DEF Next,
      Step

LEMMA ReturnCountRuns ==
    ASSUME RunType, CountRuns, NEW p \in Maintainers, Return(p), UNCHANGED table
    PROVE  CountRuns'
<1>1. run'[p].pc = "idle" /\ OthersKeep(p)
  BY ReturnRuns
<1>2. QED
  BY <1>1 DEF CountRuns, OthersKeep, Working, Dropping, table

\* A run that drops a table has counted it, or found it counted.
LEMMA CountRunsStep ==
    ASSUME Inv, CountTables, CountRuns, [Next]_vars
    PROVE  CountRuns'
<1> USE Constants
<1> USE DEF Inv, TypeOK, DataType, RunType, Runs, PCs, RunOK, TablesOK, LockType,
    Unlocked, CountRuns, table, Working, Dropping
<1>1. CASE Tick
  BY <1>1 DEF Tick
<1>2. ASSUME NEW w \in Weeks, Insert(w) PROVE CountRuns'
  BY <1>2 DEF Insert
<1>3. ASSUME NEW w \in Weeks, OperatorFinalizes(w) PROVE CountRuns'
  BY <1>3 DEF OperatorFinalizes
<1>4. ASSUME NEW w \in Weeks, OperatorAttaches(w) PROVE CountRuns'
  BY <1>4 DEF OperatorAttaches
<1>5. ASSUME NEW p \in Maintainers, Begin(p) PROVE CountRuns'
  BY <1>5 DEF Begin, Idle
<1>6. ASSUME NEW p \in Maintainers, EnsurePartitions(p) PROVE CountRuns'
  <2>1. CASE refuseDefaultPartition
    BY <1>6, <2>1, ReturnCountRuns DEF EnsurePartitions
  <2>2. CASE ~refuseDefaultPartition
    BY <1>6, <2>2 DEF EnsurePartitions
  <2>3. QED
    BY <2>1, <2>2
<1>7. ASSUME NEW p \in Maintainers, CreateWeek(p) PROVE CountRuns'
  BY <1>7 DEF CreateWeek
<1>8. ASSUME NEW p \in Maintainers, Ensured(p) PROVE CountRuns'
  BY <1>8 DEF Ensured, Idle
<1>9. ASSUME NEW p \in Maintainers, Retain(p) PROVE CountRuns'
  <2>1. CASE lock # None
    BY <1>9, <2>1, ReturnCountRuns DEF Retain
  <2>2. CASE lock = None
    BY <1>9, <2>2 DEF Retain
  <2>3. QED
    BY <2>1, <2>2
<1>10. ASSUME NEW p \in Maintainers, Check(p) PROVE CountRuns'
  <2>1. CASE Return(p)
    BY <1>10, <2>1, ReturnCountRuns DEF Check
  <2>2. CASE Goto(p, "resume") /\ ~(Return(p))
    <3>1. MovesTo(p, "resume") /\ OthersKeep(p)
      BY <2>2, GotoRuns
    <3>2. QED
      BY <1>10, <2>2, <3>1 DEF Check, MovesTo, OthersKeep
  <2>3. QED
    BY <1>10, <2>1, <2>2 DEF Check
<1>11. ASSUME NEW p \in Maintainers, Resume(p) PROVE CountRuns'
  BY <1>11 DEF Resume
<1>12. ASSUME NEW p \in Maintainers, NextUnfinished(p) PROVE CountRuns'
  <2>1. CASE run[p].todo = {}
    <3>1. MovesTo(p, "search") /\ OthersKeep(p)
      BY <1>12, <2>1, GotoRuns DEF NextUnfinished
    <3>2. QED
      BY <1>12, <3>1 DEF NextUnfinished, MovesTo, OthersKeep
  <2>2. CASE run[p].todo # {}
    <3>1. Oldest(run[p].todo) \in Weeks
      BY <2>2, OldestIsMember
    <3>2. QED
      BY <1>12, <2>2, <3>1 DEF NextUnfinished
  <2>3. QED
    BY <2>1, <2>2
<1>13. ASSUME NEW p \in Maintainers, Search(p) PROVE CountRuns'
  <2>1. CASE Return(p)
    BY <1>13, <2>1, ReturnCountRuns DEF Search
  <2>2. CASE run' = [run EXCEPT ![p].pc = "next", ![p].todo = pastPartitions(p)]
    BY <1>13, <2>2 DEF Search, pastPartitions, Inherited
  <2>3. QED
    BY <1>13, <2>1, <2>2 DEF Search
<1>14. ASSUME NEW p \in Maintainers, NextCandidate(p) PROVE CountRuns'
  <2>1. CASE run[p].todo = {}
    BY <1>14, <2>1, ReturnCountRuns DEF NextCandidate
  <2>2. CASE run[p].todo # {}
    <3>1. PICK w \in Weeks :
            /\ w \in run[p].todo
            /\ run' = [run EXCEPT ![p].pc = "record", ![p].cur = w, ![p].todo = @ \ {w}]
      BY <1>14, <2>2, NextCandidateWeek
    <3>2. /\ run'[p].pc = "record" /\ run'[p].cur = w /\ run'[p].todo = run[p].todo \ {w}
          /\ OthersKeep(p) /\ run[p].pc = "next" /\ part' = part /\ record' = record
      BY <1>14, <3>1 DEF NextCandidate, OthersKeep
    <3>3. QED
      BY <3>1, <3>2 DEF OthersKeep
  <2>3. QED
    BY <2>1, <2>2
<1>15. ASSUME NEW p \in Maintainers, Record(p) PROVE CountRuns'
  <2>1. CASE Return(p) /\ UNCHANGED record
    BY <1>15, <2>1, ReturnCountRuns DEF Record
  <2>2. CASE Goto(p, "detach") /\ ~(Return(p) /\ UNCHANGED record)
    <3>1. MovesTo(p, "detach") /\ OthersKeep(p)
      BY <2>2, GotoRuns
    <3>2. QED
      BY <1>15, <2>2, <3>1 DEF Record, MovesTo, OthersKeep
  <2>3. QED
    BY <1>15, <2>1, <2>2 DEF Record
<1>16. ASSUME NEW p \in Maintainers, Detach(p) PROVE CountRuns'
  <2>1. CASE Return(p) /\ UNCHANGED part
    BY <1>16, <2>1, ReturnCountRuns DEF Detach
  <2>2. CASE Goto(p, "finalize") /\ ~(Return(p) /\ UNCHANGED part)
    <3>1. MovesTo(p, "finalize") /\ OthersKeep(p)
      BY <2>2, GotoRuns
    <3>2. QED
      <4>1. run[p].cur \in Weeks /\ record' = record
        BY <1>16 DEF Detach
      <4>2. \A v \in Weeks : part'[v] = "absent" <=> part[v] = "absent"
        BY <1>16 DEF Detach
      <4>3. /\ run[p].pc \in Dropping /\ run[p].todo \subseteq Weeks
            /\ \A q \in Maintainers : q # p => run[q].pc \in Unlocked
        BY <1>16 DEF Detach
      <4>4. /\ run[p].cur \notin run[p].todo /\ part[run[p].cur] # "absent"
            /\ \A v \in run[p].todo : part[v] # "absent"
        BY <1>16, <4>3 DEF Detach
      <4>5. /\ run'[p].cur \notin run'[p].todo /\ part'[run'[p].cur] # "absent"
            /\ \A v \in run'[p].todo : part'[v] # "absent"
            /\ run'[p].pc \notin {"drop", "redrop"}
        BY <3>1, <4>1, <4>2, <4>3, <4>4 DEF MovesTo
      <4>6. QED
        BY <3>1, <4>3, <4>5 DEF OthersKeep
  <2>3. QED
    BY <1>16, <2>1, <2>2 DEF Detach
<1>17. ASSUME NEW p \in Maintainers, Finalize(p) PROVE CountRuns'
  <2>1. CASE Return(p) /\ UNCHANGED part
    BY <1>17, <2>1, ReturnCountRuns DEF Finalize
  <2>2. CASE Goto(p, "count") /\ ~(Return(p) /\ UNCHANGED part)
    <3>1. MovesTo(p, "count") /\ OthersKeep(p)
      BY <2>2, GotoRuns
    <3>2. QED
      <4>1. run[p].cur \in Weeks /\ record' = record
        BY <1>17 DEF Finalize
      <4>2. \A v \in Weeks : part'[v] = "absent" <=> part[v] = "absent"
        BY <1>17 DEF Finalize
      <4>3. /\ run[p].pc \in Dropping /\ run[p].todo \subseteq Weeks
            /\ \A q \in Maintainers : q # p => run[q].pc \in Unlocked
        BY <1>17 DEF Finalize
      <4>4. /\ run[p].cur \notin run[p].todo /\ part[run[p].cur] # "absent"
            /\ \A v \in run[p].todo : part[v] # "absent"
        BY <1>17, <4>3 DEF Finalize
      <4>5. /\ run'[p].cur \notin run'[p].todo /\ part'[run'[p].cur] # "absent"
            /\ \A v \in run'[p].todo : part'[v] # "absent"
            /\ run'[p].pc \notin {"drop", "redrop"}
        BY <3>1, <4>1, <4>2, <4>3, <4>4 DEF MovesTo
      <4>6. QED
        BY <3>1, <4>3, <4>5 DEF OthersKeep
  <2>3. QED
    BY <1>17, <2>1, <2>2 DEF Finalize
<1>18. ASSUME NEW p \in Maintainers, Count(p) PROVE CountRuns'
  BY <1>18 DEF Count, Goto
<1>19. ASSUME NEW p \in Maintainers, Drop(p) PROVE CountRuns'
  BY <1>19 DEF Drop, Goto
<1>20. ASSUME NEW p \in Maintainers, Stamp(p) PROVE CountRuns'
  BY <1>20 DEF Stamp
<1>21. ASSUME NEW p \in Maintainers, Fail(p) PROVE CountRuns'
  BY <1>21, ReturnCountRuns DEF Fail
<1>22. ASSUME NEW p \in Maintainers, Kill(p) PROVE CountRuns'
  BY <1>22, ReturnCountRuns DEF Kill
<1>23. CASE UNCHANGED vars
  BY <1>23 DEF vars
<1>24. QED
  BY <1>1, <1>2, <1>3, <1>4, <1>5, <1>6, <1>7, <1>8, <1>9, <1>10, <1>11, <1>12, <1>13,
      <1>14, <1>15, <1>16, <1>17, <1>18, <1>19, <1>20, <1>21, <1>22, <1>23 DEF Next,
      Step

LEMMA CountInvariance ==
    ASSUME Orderly PROVE Spec => []CountInv
<1>1. Init => CountInv
  <2> SUFFICES ASSUME Init PROVE CountInv
    OBVIOUS
  <2>1. Init => OrderlyInv
    BY InitOrderly
  <2>2. \A p \in Maintainers : run[p].pc = "idle"
    BY DEF Init, Idle
  <2>3. \A w \in Weeks : record[w].is = "none" /\ record[w].rows = None
    BY DEF Init, NoRecord
  <2>4. QED
    BY <2>1, <2>2, <2>3 DEF CountInv, CountTables, CountRuns, Working, Dropping
<1>2. CountInv /\ [Next]_vars => CountInv'
  BY OrderlyStep, CountTablesStep, CountRunsStep DEF CountInv, OrderlyInv
<1>3. QED
  BY <1>1, <1>2, PTL DEF Spec

\* No table is dropped without a count, and no count is above what went, with a
\* person attaching weeks back between the runs.
THEOREM CountsAreNeverTooHigh ==
    ASSUME Orderly PROVE Spec => []CountNeverTooHigh
<1>1. CountInv => CountNeverTooHigh
  BY DEF CountInv, CountTables, OrderlyInv, NoWeekReturns, CountNeverTooHigh
<1>2. QED
  BY <1>1, CountInvariance, PTL

\* A table that is counted takes no more rows.
LEMMA ExactTablesStep ==
    ASSUME ~Operator, OrderlyInv, CountTables, CountRuns, ExactTables, ExactRuns,
           [Next]_vars
    PROVE  ExactTables'
<1> USE DEF OrderlyInv, Inv, TypeOK, DataType, RunOK, TablesOK, CountTables, CountRuns,
    ExactTables, ExactRuns, Inherited, table, Working, Dropping
<1>1. CASE Tick
  BY <1>1 DEF Tick
<1>2. ASSUME NEW w \in Weeks, Insert(w) PROVE ExactTables'
  BY <1>2 DEF Insert
<1>3. ASSUME NEW w \in Weeks, OperatorFinalizes(w) PROVE ExactTables'
  BY <1>3 DEF OperatorFinalizes
<1>4. ASSUME NEW w \in Weeks, OperatorAttaches(w) PROVE ExactTables'
  BY <1>4 DEF OperatorAttaches
<1>5. ASSUME NEW p \in Maintainers, Begin(p) PROVE ExactTables'
  BY <1>5 DEF Begin
<1>6. ASSUME NEW p \in Maintainers, EnsurePartitions(p) PROVE ExactTables'
  BY <1>6 DEF EnsurePartitions, Return
<1>7. ASSUME NEW p \in Maintainers, CreateWeek(p) PROVE ExactTables'
  <2>1. /\ Oldest(run[p].todo) \in Weeks
        /\ record[Oldest(run[p].todo)].is = "none"
    BY <1>7, CreatedIsNew DEF CreateWeek
  <2>2. QED
    BY <1>7, <2>1 DEF CreateWeek
<1>8. ASSUME NEW p \in Maintainers, Ensured(p) PROVE ExactTables'
  BY <1>8 DEF Ensured
<1>9. ASSUME NEW p \in Maintainers, Retain(p) PROVE ExactTables'
  BY <1>9 DEF Retain, Return
<1>10. ASSUME NEW p \in Maintainers, Check(p) PROVE ExactTables'
  BY <1>10 DEF Check, Return, Goto
<1>11. ASSUME NEW p \in Maintainers, Resume(p) PROVE ExactTables'
  BY <1>11 DEF Resume
<1>12. ASSUME NEW p \in Maintainers, NextUnfinished(p) PROVE ExactTables'
  BY <1>12 DEF NextUnfinished, Goto
<1>13. ASSUME NEW p \in Maintainers, Search(p) PROVE ExactTables'
  BY <1>13 DEF Search, Return
<1>14. ASSUME NEW p \in Maintainers, NextCandidate(p) PROVE ExactTables'
  BY <1>14 DEF NextCandidate, Return, Goto
<1>15. ASSUME NEW p \in Maintainers, Record(p) PROVE ExactTables'
  BY <1>15 DEF Record, Return, Goto
<1>16. ASSUME NEW p \in Maintainers, Detach(p) PROVE ExactTables'
  BY <1>16 DEF Detach, Return, Goto
<1>17. ASSUME NEW p \in Maintainers, Finalize(p) PROVE ExactTables'
  BY <1>17 DEF Finalize, Return, Goto
<1>18. ASSUME NEW p \in Maintainers, Count(p) PROVE ExactTables'
  BY <1>18 DEF Count, Goto
<1>19. ASSUME NEW p \in Maintainers, Drop(p) PROVE ExactTables'
  BY <1>19 DEF Drop, Goto
<1>20. ASSUME NEW p \in Maintainers, Stamp(p) PROVE ExactTables'
  BY <1>20 DEF Stamp
<1>21. ASSUME NEW p \in Maintainers, Fail(p) PROVE ExactTables'
  BY <1>21 DEF Fail, Return
<1>22. ASSUME NEW p \in Maintainers, Kill(p) PROVE ExactTables'
  BY <1>22 DEF Kill, Return
<1>23. CASE UNCHANGED vars
  BY <1>23 DEF vars
<1>24. QED
  BY <1>1, <1>2, <1>3, <1>4, <1>5, <1>6, <1>7, <1>8, <1>9, <1>10, <1>11, <1>12, <1>13,
      <1>14, <1>15, <1>16, <1>17, <1>18, <1>19, <1>20, <1>21, <1>22, <1>23 DEF Next,
      Step

LEMMA ReturnExactRuns ==
    ASSUME RunType, ExactRuns, NEW p \in Maintainers, Return(p), UNCHANGED table
    PROVE  ExactRuns'
<1>1. run'[p].pc = "idle" /\ OthersKeep(p)
  BY ReturnRuns
<1>2. QED
  BY <1>1 DEF ExactRuns, OthersKeep, Redoing, Inherited, table

\* A run counts and drops only what is wholly detached.
LEMMA ExactRunsStep ==
    ASSUME ~Operator, Inv, ExactTables, ExactRuns, [Next]_vars
    PROVE  ExactRuns'
<1> USE DEF Inv, TypeOK, DataType, RunType, Runs, PCs, RunOK, TablesOK, LockType,
    Unlocked, ExactRuns, Inherited, table, Redoing, Working, Dropping
<1>1. CASE Tick
  BY <1>1 DEF Tick
<1>2. ASSUME NEW w \in Weeks, Insert(w) PROVE ExactRuns'
  BY <1>2 DEF Insert
<1>3. ASSUME NEW w \in Weeks, OperatorFinalizes(w) PROVE ExactRuns'
  BY <1>3 DEF OperatorFinalizes
<1>4. ASSUME NEW w \in Weeks, OperatorAttaches(w) PROVE ExactRuns'
  BY <1>4 DEF OperatorAttaches
<1>5. ASSUME NEW p \in Maintainers, Begin(p) PROVE ExactRuns'
  BY <1>5 DEF Begin, Idle
<1>6. ASSUME NEW p \in Maintainers, EnsurePartitions(p) PROVE ExactRuns'
  <2>1. CASE refuseDefaultPartition
    BY <1>6, <2>1, ReturnExactRuns DEF EnsurePartitions
  <2>2. CASE ~refuseDefaultPartition
    BY <1>6, <2>2 DEF EnsurePartitions
  <2>3. QED
    BY <2>1, <2>2
<1>7. ASSUME NEW p \in Maintainers, CreateWeek(p) PROVE ExactRuns'
  BY <1>7 DEF CreateWeek
<1>8. ASSUME NEW p \in Maintainers, Ensured(p) PROVE ExactRuns'
  BY <1>8 DEF Ensured, Idle
<1>9. ASSUME NEW p \in Maintainers, Retain(p) PROVE ExactRuns'
  <2>1. CASE lock # None
    BY <1>9, <2>1, ReturnExactRuns DEF Retain
  <2>2. CASE lock = None
    BY <1>9, <2>2 DEF Retain
  <2>3. QED
    BY <2>1, <2>2
<1>10. ASSUME NEW p \in Maintainers, Check(p) PROVE ExactRuns'
  <2>1. CASE Return(p)
    BY <1>10, <2>1, ReturnExactRuns DEF Check
  <2>2. CASE Goto(p, "resume") /\ ~(Return(p))
    <3>1. MovesTo(p, "resume") /\ OthersKeep(p)
      BY <2>2, GotoRuns
    <3>2. QED
      BY <1>10, <2>2, <3>1 DEF Check, MovesTo, OthersKeep
  <2>3. QED
    BY <1>10, <2>1, <2>2 DEF Check
<1>11. ASSUME NEW p \in Maintainers, Resume(p) PROVE ExactRuns'
  BY <1>11 DEF Resume
<1>12. ASSUME NEW p \in Maintainers, NextUnfinished(p) PROVE ExactRuns'
  <2>1. CASE run[p].todo = {}
    <3>1. MovesTo(p, "search") /\ OthersKeep(p)
      BY <1>12, <2>1, GotoRuns DEF NextUnfinished
    <3>2. QED
      BY <1>12, <3>1 DEF NextUnfinished, MovesTo, OthersKeep
  <2>2. CASE run[p].todo # {}
    <3>1. Oldest(run[p].todo) \in run[p].todo
      BY <2>2, OldestIsMember
    <3>2. QED
      BY <1>12, <2>2, <3>1 DEF NextUnfinished
  <2>3. QED
    BY <2>1, <2>2
<1>13. ASSUME NEW p \in Maintainers, Search(p) PROVE ExactRuns'
  <2>1. CASE Return(p)
    BY <1>13, <2>1, ReturnExactRuns DEF Search
  <2>2. CASE run' = [run EXCEPT ![p].pc = "next", ![p].todo = pastPartitions(p)]
    BY <1>13, <2>2 DEF Search
  <2>3. QED
    BY <1>13, <2>1, <2>2 DEF Search
<1>14. ASSUME NEW p \in Maintainers, NextCandidate(p) PROVE ExactRuns'
  <2>1. CASE run[p].todo = {}
    BY <1>14, <2>1, ReturnExactRuns DEF NextCandidate
  <2>2. CASE run[p].todo # {}
    <3>1. PICK w \in Weeks :
            run' = [run EXCEPT ![p].pc = "record", ![p].cur = w, ![p].todo = @ \ {w}]
      BY <1>14, <2>2, NextCandidateWeek
    <3>2. run'[p].pc = "record" /\ OthersKeep(p) /\ part' = part
      BY <1>14, <3>1 DEF NextCandidate, OthersKeep
    <3>3. QED
      BY <3>2 DEF OthersKeep
  <2>3. QED
    BY <2>1, <2>2
<1>15. ASSUME NEW p \in Maintainers, Record(p) PROVE ExactRuns'
  <2>1. CASE Return(p) /\ UNCHANGED record
    BY <1>15, <2>1, ReturnExactRuns DEF Record
  <2>2. CASE Goto(p, "detach") /\ ~(Return(p) /\ UNCHANGED record)
    <3>1. MovesTo(p, "detach") /\ OthersKeep(p)
      BY <2>2, GotoRuns
    <3>2. QED
      BY <1>15, <2>2, <3>1 DEF Record, MovesTo, OthersKeep
  <2>3. QED
    BY <1>15, <2>1, <2>2 DEF Record
<1>16. ASSUME NEW p \in Maintainers, Detach(p) PROVE ExactRuns'
  <2>1. CASE Return(p) /\ UNCHANGED part
    BY <1>16, <2>1, ReturnExactRuns DEF Detach
  <2>2. CASE Goto(p, "finalize") /\ ~(Return(p) /\ UNCHANGED part)
    <3>1. MovesTo(p, "finalize") /\ OthersKeep(p)
      BY <2>2, GotoRuns
    <3>2. QED
      BY <1>16, <2>2, <3>1 DEF Detach, MovesTo, OthersKeep
  <2>3. QED
    BY <1>16, <2>1, <2>2 DEF Detach
<1>17. ASSUME NEW p \in Maintainers, Finalize(p) PROVE ExactRuns'
  <2>1. CASE Return(p) /\ UNCHANGED part
    BY <1>17, <2>1, ReturnExactRuns DEF Finalize
  <2>2. CASE Goto(p, "count") /\ ~(Return(p) /\ UNCHANGED part)
    <3>1. MovesTo(p, "count") /\ OthersKeep(p)
      BY <2>2, GotoRuns
    <3>2. QED
      BY <1>17, <2>2, <3>1 DEF Finalize, MovesTo, OthersKeep
  <2>3. QED
    BY <1>17, <2>1, <2>2 DEF Finalize
<1>18. ASSUME NEW p \in Maintainers, Count(p) PROVE ExactRuns'
  BY <1>18 DEF Count, Goto
<1>19. ASSUME NEW p \in Maintainers, Drop(p) PROVE ExactRuns'
  BY <1>19 DEF Drop, Goto
<1>20. ASSUME NEW p \in Maintainers, Stamp(p) PROVE ExactRuns'
  BY <1>20 DEF Stamp
<1>21. ASSUME NEW p \in Maintainers, Fail(p) PROVE ExactRuns'
  BY <1>21, ReturnExactRuns DEF Fail
<1>22. ASSUME NEW p \in Maintainers, Kill(p) PROVE ExactRuns'
  BY <1>22, ReturnExactRuns DEF Kill
<1>23. CASE UNCHANGED vars
  BY <1>23 DEF vars
<1>24. QED
  BY <1>1, <1>2, <1>3, <1>4, <1>5, <1>6, <1>7, <1>8, <1>9, <1>10, <1>11, <1>12, <1>13,
      <1>14, <1>15, <1>16, <1>17, <1>18, <1>19, <1>20, <1>21, <1>22, <1>23 DEF Next,
      Step

LEMMA ExactInvariance ==
    ASSUME Orderly, ~Operator PROVE Spec => [](CountInv /\ ExactTables)
<1>1. Init => ExactTables /\ ExactRuns
  <2> SUFFICES ASSUME Init PROVE ExactTables /\ ExactRuns
    OBVIOUS
  <2>1. \A p \in Maintainers : run[p].pc = "idle"
    BY DEF Init, Idle
  <2>2. \A w \in Weeks : record[w].is = "none"
    BY DEF Init, NoRecord
  <2>3. QED
    BY <2>1, <2>2 DEF ExactTables, ExactRuns, Redoing
<1>2. CountInv /\ ExactTables /\ ExactRuns /\ [Next]_vars => ExactTables' /\ ExactRuns'
  BY ExactTablesStep, ExactRunsStep DEF CountInv, OrderlyInv
<1>3. QED
  BY <1>1, <1>2, CountInvariance, PTL DEF Spec

\* The count in the record is exact when nobody repairs by hand, wherever runs are
\* interrupted.
THEOREM CountsAreExact ==
    ASSUME Orderly, ~Operator PROVE Spec => []CountIsExact
<1>1. CountInv /\ ExactTables => CountIsExact
  BY DEF CountInv, OrderlyInv, NoWeekReturns, ExactTables, CountIsExact
<1>2. QED
  BY <1>1, ExactInvariance, PTL

=============================================================================
