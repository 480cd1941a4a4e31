----------------------------- MODULE EventPath ------------------------------
(***************************************************************************)
(* The parts together: one event on the ladder (RetryChain) and the weeks of *)
(* the table it is bound for (Maintainer).  The table decides what an insert *)
(* answers, and the consumers, the maintainer and whoever replays a parked    *)
(* record never wait for each other: a week may be missing, half detached,    *)
(* detached, dropped or back when a copy of the event is handled.  The unique *)
(* index that makes an insert idempotent goes when its week goes.             *)
(***************************************************************************)
EXTENDS Maintainer, Sequences

CONSTANTS
    Chain, Parked, DLQ, Unreadable,   \* see RetryChain
    MaxRedelivered,  \* bound: copies handled whose offset was not committed
    MaxReplayed      \* bound: parked copies handed to a consumer of Parked

ASSUME RowAssumption == MaxRows > 0

VARIABLES
    week,        \* the week of the event's occurred_at
    inflight, stopped, redelivered,   \* see RetryChain
    replayed,
    written      \* history: how often a row of the event was written

path == <<week, inflight, stopped, redelivered, replayed, written>>

\* The event is well formed and came without marks. Times on the marks are left
\* out (every tick is 0), and a consumer that halts is where it was.
Ladder == INSTANCE RetryChain WITH
    clock <- 0, body <- "good", source <- "none", halted <- {},
    recorded <- rows[week] = 1, SourceMarks <- {}, MaxClock <- 0

\* No default partition, so that a row without a week has nowhere to go.
EventInit ==
    /\ Init /\ ~hasDefault
    /\ week \in Weeks
    /\ inflight = {Ladder!Copy(Chain[1], Ladder!NoMarks, 0, None)}
    /\ stopped = {}
    /\ redelivered = 0 /\ replayed = 0 /\ written = 0

\* One error for each thing an insert can do to the event: written, found, no week,
\* and an answer that was lost. The other Retries do what the last one may do, 23505
\* what a row that was found does, and Fatal leaves everything where it is.
InsertErrors == {Ladder!Plain("nil"), Ladder!Plain("notInserted"), Ladder!Plain("net"),
                 Ladder!Pg("23514", FALSE)}

\* What the table can answer to the insert, and the rows it then holds in the
\* event's week. A detach that is half done is seen by some transactions only.
Answers(err) ==
    LET with == [rows EXCEPT ![week] = 1]
        lands == IF Inherited(week) /\ rows[week] = 0 THEN {with} ELSE {}
    IN  CASE err.kind = "nil" -> lands
          [] err.kind = "notInserted" ->
               IF Inherited(week) /\ rows[week] = 1 THEN {rows} ELSE {}
          [] err.kind = "pg" ->
               IF part[week] # "attached" THEN {rows} ELSE {}
          [] err.kind = "net" -> {rows} \cup lands

\* consumer.one on a copy: the insert, and then the record, the forward, a produce
\* that failed, or the refusal of a copy that has no rung to go to.
Deliver(c, err) ==
    /\ rows' \in Answers(err)
    /\ written' = written + rows'[week] - rows[week]
    /\ UNCHANGED week
    /\ \/ Ladder!Record(c, err) \/ Ladder!Forward(c, err)
       \/ Ladder!ProduceFails(c, err) \/ Ladder!Refuse(c, err)
    /\ UNCHANGED <<clock, hasDefault, part, record, gone, lock, run, untold, advised,
                   faults, replayed>>

\* A consumer of Parked meets a copy there. Its Sink has no rung for that topic, so
\* only a Done lets it go on.
Replay(c) ==
    /\ c.topic = Parked /\ c \notin inflight
    /\ replayed < MaxReplayed
    /\ replayed' = replayed + 1
    /\ inflight' = inflight \cup {c}
    /\ UNCHANGED <<vars, week, stopped, redelivered, written>>

EventNext ==
    \/ \E c \in inflight, err \in InsertErrors : Deliver(c, err)
    \/ \E c \in stopped : Replay(c)
    \/ /\ Tick \/ \E p \in Maintainers : Begin(p) \/ Step(p) \/ Fail(p) \/ Kill(p)
       /\ UNCHANGED path

EventSpec == EventInit /\ [][EventNext]_<<vars, path>>

-----------------------------------------------------------------------------
(* Properties.                                                               *)

\* One event is one row, ever: a copy that is redelivered, comes down the ladder or
\* is replayed finds its row or finds no week, although the unique index that
\* Insert's ON CONFLICT relies on is dropped with the week.
CountedOnce == written <= 1

\* A row that was written is in the table or in the count of the week's record,
\* wherever the detach, the count and the drop were when it came.
OnTheBooks == written > 0 => rows[week] = 1 \/ record[week].rows = 1

\* When no offset is left to commit, the event is in the table, in the count of a
\* dropped week, or parked for a person: a week that is not there yet, or no more,
\* parks the event and does not swallow it.
NothingVanishes ==
    inflight = {} => rows[week] = 1 \/ record[week].rows = 1 \/ stopped # {}

=============================================================================
