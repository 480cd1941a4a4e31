----------------------------- MODULE RetryChain -----------------------------
(***************************************************************************)
(* One event on its way through the ladder of delay topics: the consumers   *)
(* of every rung (consumer.one with the store's handler), the verdict on    *)
(* what the insert answered (internal/store/classify.go), and the Sink that *)
(* forwards it with its marks (internal/retry).  Delivery is at least once: *)
(* a copy whose offset was not committed is handled again, so one event may *)
(* have several copies on the ladder at the same time.                      *)
(***************************************************************************)
EXTENDS Naturals, Sequences, FiniteSets

CONSTANTS
    Chain,         \* chain.go's ladder: the source topic, then the delay topics
    Parked, DLQ,   \* the two topics that end it
    None,          \* a header that is absent
    Unreadable,    \* a header whose value does not parse
    SourceMarks,   \* the marks the event may carry when it lands on Chain[1]
    MaxClock,      \* bound: the last tick of the clock
    MaxRedelivered \* bound: copies handled whose offset was not committed

ASSUME ChainAssumption ==
    /\ Chain \in Seq(STRING) /\ Len(Chain) > 0
    /\ \A i, j \in 1..Len(Chain) : Chain[i] = Chain[j] => i = j
    /\ \A i \in 1..Len(Chain) : Chain[i] \notin {Parked, DLQ, None}
    /\ Parked # DLQ
    /\ None \notin Nat \cup {"retry-exhausted", "poison"} /\ Unreadable \notin Nat \cup {None}
    /\ MaxClock \in Nat /\ MaxRedelivered \in Nat

VARIABLES
    clock,
    body,        \* what Decode makes of the payload, one of Bodies
    source,      \* the marks the event came with
    inflight,    \* copies on the ladder whose offset is not committed
    stopped,     \* copies on Parked and DLQ
    recorded,    \* the event has its row
    halted,      \* the outcomes on which a consumer refused to go on
    redelivered

vars == <<clock, body, source, inflight, stopped, recorded, halted, redelivered>>

\* garbled is no JSON, malformed is JSON that does not decode but has its event_id,
\* anonymous is JSON without one, enum is an event of a schema version this consumer
\* does not know. trailing is an event with bytes after it: Decode reads the first
\* value and stops, json.Unmarshal refuses the whole.
Bodies == {"good", "trailing", "garbled", "malformed", "anonymous", "enum"}
Undecodable == {"garbled", "malformed", "anonymous"}
Identified == {"good", "malformed", "enum"}

-----------------------------------------------------------------------------
(* chain.go *)

Tiers == Len(Chain) - 1

InChain(topic) == \E i \in 1..Len(Chain) : Chain[i] = topic

Rung(topic) == CHOOSE i \in 1..Len(Chain) : Chain[i] = topic

\* None stands for the false of the second return.
NextTopic(topic) ==
    IF InChain(topic) /\ Rung(topic) < Len(Chain) THEN Chain[Rung(topic) + 1] ELSE None

-----------------------------------------------------------------------------
(* What can go wrong with a record, and what the store makes of it.          *)

Pg(code, named) == [kind |-> "pg", code |-> code, named |-> named]
Plain(kind) == [kind |-> kind, code |-> "", named |-> FALSE]

\* One SQLSTATE for each row of the table, and one that no row names.
PgErrors == {Pg(c, FALSE) : c \in {"23505", "40001", "57P01", "23514", "08006", "42P01"}}
              \cup {Pg("23514", TRUE)}

\* context: DeadlineExceeded or Canceled; net: net.Error, SafeToRetry or a
\* ConnectError; decode and enum: what Decode returns; other: anything else.
Errors == PgErrors \cup {Plain(k) : k \in {"nil", "notInserted", "context", "net",
                                           "decode", "enum", "other"}}

ConnectionExceptions == {"08006"}

\* Mutant: a row no partition takes is taken for one that is there.
MissingWeekIsDone(err) ==
    CASE err.code = "23505" -> "Done"
      [] err.code \in {"40001", "57P01"} -> "Retry"
      [] err.code = "23514" -> IF err.named THEN "Fatal" ELSE "Done"
      [] err.code \in ConnectionExceptions -> "Retry"
      [] OTHER -> "Fatal"

classifyPg(err) ==
    CASE err.code = "23505" -> "Done"
      [] err.code \in {"40001", "57P01"} -> "Retry"
      [] err.code = "23514" -> IF err.named THEN "Fatal" ELSE "Retry"
      [] err.code \in ConnectionExceptions -> "Retry"
      [] OTHER -> "Fatal"

Classify(err) ==
    CASE err.kind \in {"nil", "notInserted"} -> "Done"
      [] err.kind \in {"context", "net"} -> "Retry"
      [] err.kind = "pg" -> classifyPg(err)
      [] OTHER -> "Fatal"

\* Mutant: an error no row of the vocabulary names travels with its text.
FailureText(err) ==
    CASE err.kind \in {"nil", "other", "notInserted"} -> "unknown"
      [] err.kind = "context" -> "timeout"
      [] err.kind = "pg" -> err.code
      [] err.kind = "net" -> "unreachable"
      [] OTHER -> "decode: value outside the contract's enum"

FailureCode(err) ==
    CASE err.kind = "nil" -> "unknown"
      [] err.kind = "context" -> "timeout"
      [] err.kind = "enum" -> "schema"
      [] err.kind = "pg" -> err.code
      [] err.kind = "net" -> "unreachable"
      [] err.kind = "decode" -> "decode"
      [] OTHER -> "unknown"

codeClasses == {"unknown", "unreadable-round", "timeout", "unreachable", "decode", "schema"}
SQLStates == {err.code : err \in PgErrors}
ValidCode(code) == code \in codeClasses \cup SQLStates

\* outcome.go: what one may be told about a record. Unknown is an answer nobody gave.
Outcomes == {"Unknown", "Done", "Retry", "Poison", "Fatal"}

\* Decode answers before the handler is asked, and its errors are Poison.
Outcome(err) == IF err.kind \in {"decode", "enum"} THEN "Poison" ELSE Classify(err)

\* The errors the event can meet now: its payload's own, or what the insert
\* answers, a conflict only where there is a row to conflict with.
Meets(err) ==
    CASE body \in Undecodable -> err.kind = "decode"
      [] body = "enum" -> err.kind = "enum"
      [] OTHER -> /\ err.kind \notin {"decode", "enum"}
                  /\ err.kind = "nil" => ~recorded
                  /\ err.kind = "notInserted" \/ err.code = "23505" => recorded

\* Whether the row is there afterwards. A timeout or a broken connection does not
\* say; every other error rolled the statement back.
Writes(err) ==
    CASE err.kind = "nil" -> {TRUE}
      [] err.kind \in {"context", "net"} -> {recorded, TRUE}
      [] OTHER -> {recorded}

-----------------------------------------------------------------------------
(* marks.go *)

\* nine-failure-code is left out: nothing reads it back, and what build refuses
\* to write is in Builds.
NoMarks == [id |-> None, round |-> None, outcome |-> None, from |-> None,
            first |-> None, parked |-> None]

Readable(marks) == Unreadable \notin {marks.round, marks.first, marks.parked}

Round(marks) == IF marks.round = None THEN 0 ELSE marks.round

\* An unreadable round counts as spent.
Spent(marks) == marks.round = Unreadable \/ Round(marks) >= Tiers

\* Mutant: the payload is not asked.
HeaderID(c) == IF Readable(c.marks) THEN c.marks.id ELSE None

\* From the header, else from the payload, where Unmarshal finds it.
eventID(c) ==
    IF Readable(c.marks) /\ c.marks.id # None THEN c.marks.id
    ELSE IF body \in Identified THEN "id" ELSE None

\* Mutant: the delay is counted from the last failure.
BuildForgetsFirst(c, outcome, spend) ==
    [id |-> IF eventID(c) = None THEN c.marks.id ELSE eventID(c),
     round |-> Round(c.marks) + spend,
     outcome |-> outcome, from |-> c.topic,
     first |-> clock,
     parked |-> IF outcome = None THEN None ELSE clock]

\* Mutant: every forward stamps nine-parked-at.
BuildAlwaysParks(c, outcome, spend) ==
    [id |-> IF eventID(c) = None THEN c.marks.id ELSE eventID(c),
     round |-> Round(c.marks) + spend,
     outcome |-> outcome, from |-> c.topic,
     first |-> IF c.marks.first = None THEN clock ELSE c.marks.first,
     parked |-> clock]

\* Only for readable marks and a code of the vocabulary. Apply replaces every
\* mark of the record, so these are all it leaves with.
build(c, outcome, spend) ==
    [id |-> IF eventID(c) = None THEN c.marks.id ELSE eventID(c),
     round |-> Round(c.marks) + spend,
     outcome |-> outcome, from |-> c.topic,
     first |-> IF c.marks.first = None THEN clock ELSE c.marks.first,
     parked |-> IF outcome = None THEN None ELSE clock]

Builds(c, code) == Readable(c.marks) /\ ValidCode(code)

\* Park's second half: the record whose round nothing can read.
ParkUnreadable(c) ==
    [id |-> eventID(c), round |-> Tiers, outcome |-> "retry-exhausted",
     from |-> c.topic, first |-> clock, parked |-> clock]

-----------------------------------------------------------------------------
(* forwarder.go *)

\* Mutant: parking spends a round too.
RouteSpendsOnParking(c, err) ==
    LET code == FailureCode(err)
        next == NextTopic(c.topic)
        retries == Outcome(err) = "Retry" /\ InChain(c.topic)
        goesOn == next # None /\ ~Spent(c.marks)
    IN  CASE Outcome(err) = "Poison" /\ Builds(c, code) ->
               {[topic |-> DLQ, marks |-> build(c, "poison", 0)]}
          [] retries /\ goesOn /\ Builds(c, code) ->
               {[topic |-> next, marks |-> build(c, None, 1)]}
          [] retries /\ ~goesOn /\ Builds(c, code) ->
               {[topic |-> Parked, marks |-> build(c, "retry-exhausted", 1)]}
          [] OTHER -> {}

\* Mutant: the second return of NextTopic is not looked at.
RouteOffTheEnd(c, err) ==
    LET code == FailureCode(err)
    IN  CASE Outcome(err) = "Poison" /\ Builds(c, code) ->
               {[topic |-> DLQ, marks |-> build(c, "poison", 0)]}
          [] Outcome(err) = "Retry" /\ Builds(c, code) ->
               {[topic |-> NextTopic(c.topic), marks |-> build(c, None, 1)]}
          [] OTHER -> {}

\* route: where the copy goes and with which marks, or nothing when it fails.
route(c, err) ==
    LET code == FailureCode(err)
        next == NextTopic(c.topic)
        retries == Outcome(err) = "Retry" /\ InChain(c.topic)
        goesOn == next # None /\ ~Spent(c.marks)
    IN  CASE Outcome(err) = "Poison" /\ Builds(c, code) ->
               {[topic |-> DLQ, marks |-> build(c, "poison", 0)]}
          [] retries /\ goesOn /\ Builds(c, code) ->
               {[topic |-> next, marks |-> build(c, None, 1)]}
          [] retries /\ ~goesOn /\ c.marks.round = Unreadable ->
               {[topic |-> Parked, marks |-> ParkUnreadable(c)]}
          [] retries /\ ~goesOn /\ Builds(c, code) ->
               {[topic |-> Parked, marks |-> build(c, "retry-exhausted", 0)]}
          [] OTHER -> {}

-----------------------------------------------------------------------------

\* hops counts the forwards behind a copy, since is when the first of them failed.
\* Copies that agree in everything are one copy here: handling the second of them
\* is the redelivery of the first.
Copy(topic, marks, hops, since) ==
    [topic |-> topic, marks |-> marks, hops |-> hops, since |-> since]

Init ==
    /\ clock = 0
    /\ body \in Bodies
    /\ source \in SourceMarks
    /\ inflight = {Copy(Chain[1], source, 0, None)}
    /\ stopped = {}
    /\ recorded = FALSE
    /\ halted = {}
    /\ redelivered = 0

Tick ==
    /\ clock < MaxClock
    /\ clock' = clock + 1
    /\ UNCHANGED <<body, source, inflight, stopped, recorded, halted, redelivered>>

\* The batch's commit took the copy's offset along, or it did not (a crash, an
\* eviction, a failed commit) and the copy comes back to the next member.
Settled(c, new) ==
    \/ inflight' = (inflight \ {c}) \cup new /\ UNCHANGED redelivered
    \/ /\ redelivered < MaxRedelivered
       /\ redelivered' = redelivered + 1
       /\ inflight' = inflight \cup new

\* Mutant: Done is also answered where the outcome is Retry.
RecordsAnything(c, err) ==
    /\ c \in inflight
    /\ Meets(err) /\ Outcome(err) \in {"Done", "Retry"}
    /\ recorded' \in Writes(err)
    /\ Settled(c, {})
    /\ UNCHANGED <<clock, body, source, stopped, halted>>

\* one: the handler answered Done.
Record(c, err) ==
    /\ c \in inflight
    /\ Meets(err) /\ Outcome(err) = "Done"
    /\ recorded' \in Writes(err)
    /\ Settled(c, {})
    /\ UNCHANGED <<clock, body, source, stopped, halted>>

\* one: Retry or Poison, and Forward had the destination's acknowledgement.
Forward(c, err) ==
    /\ c \in inflight
    /\ Meets(err)
    /\ recorded' \in Writes(err)
    /\ \E to \in route(c, err) :
         LET copy == Copy(to.topic, to.marks, c.hops + 1,
                          IF c.hops = 0 THEN clock ELSE c.since)
         IN  IF InChain(to.topic)
               THEN Settled(c, {copy}) /\ UNCHANGED stopped
               ELSE Settled(c, {}) /\ stopped' = stopped \cup {copy}
    /\ UNCHANGED <<clock, body, source, halted>>

\* one returned an error, Fatal or a Forward that cannot build its marks or knows
\* no rung: the copy stays uncommitted, although its row may have been written.
Refuse(c, err) ==
    /\ c \in inflight
    /\ Meets(err) /\ Outcome(err) # "Done"
    /\ route(c, err) = {}
    /\ recorded' \in Writes(err)
    /\ UNCHANGED <<inflight, stopped, redelivered>>

\* The consumer stops over it, and meets the copy again when restarted.
Halt(c, err) ==
    /\ Refuse(c, err)
    /\ halted' = halted \cup {Outcome(err)}
    /\ UNCHANGED <<clock, body, source>>

\* Forward's ProduceSync failed, and the broker has nothing: the consumer stops
\* and meets the copy again. (Where the broker did write it, the step is Forward's
\* redelivery.)
ProduceFails(c, err) ==
    /\ c \in inflight
    /\ Meets(err) /\ route(c, err) # {}
    /\ recorded' \in Writes(err)
    /\ UNCHANGED <<clock, body, source, inflight, stopped, halted, redelivered>>

Handle(c) == \E err \in Errors : Record(c, err) \/ Forward(c, err)

Next ==
    \/ Tick
    \/ \E c \in inflight : Handle(c) \/ \E err \in Errors : Halt(c, err) \/ ProduceFails(c, err)

Spec == Init /\ [][Next]_vars

\* A consumer that is restarted meets its next record again, and the error that
\* halted it is not the answer forever unless it is the only one.
FairSpec == Spec /\ WF_vars(\E c \in inflight : Handle(c))

-----------------------------------------------------------------------------
(* Properties.                                                              *)

MarksType ==
    [id : {None, "id"}, round : Nat \cup {None, Unreadable},
     outcome : {None, "retry-exhausted", "poison"},
     from : {Chain[i] : i \in 1..Len(Chain)} \cup {None},
     first : Nat \cup {None, Unreadable}, parked : Nat \cup {None, Unreadable}]

ASSUME SourceAssumption == SourceMarks \subseteq MarksType

TypeOK ==
    /\ clock \in 0..MaxClock
    /\ body \in Bodies
    /\ source \in SourceMarks
    /\ \A c \in inflight \cup stopped :
         /\ c.hops \in Nat /\ c.since \in Nat \cup {None}
         /\ c.marks \in MarksType
    /\ \A c \in inflight : InChain(c.topic)
    /\ \A c \in stopped : c.topic \in {Parked, DLQ}
    /\ recorded \in BOOLEAN
    /\ halted \subseteq Outcomes \ {"Unknown", "Done"}
    /\ redelivered \in 0..MaxRedelivered

\* When every offset is committed the event has its row or a copy a person can
\* find: Forward "returns only after the destination has acknowledged".
NeverVanishes == inflight = {} => recorded \/ stopped # {}

Clean == source = NoMarks

\* nine-retry-round counts the tiers behind a copy, on every topic, however often
\* it was redelivered: no tier is skipped, spent twice, or counted on the way out.
RoundsTellTheWay ==
    Clean => /\ \A c \in inflight : Round(c.marks) = c.hops /\ Rung(c.topic) = c.hops + 1
             /\ \A c \in stopped :
                  IF c.topic = Parked THEN c.hops = Tiers + 1 /\ c.marks.round = Tiers
                                      ELSE c.marks.round = c.hops - 1

\* Marks of an earlier trip, a replay from Parked included, never outlive a hop: a
\* copy that moves carries no verdict, and one that stopped the one of its topic.
VerdictMatchesTopic ==
    /\ \A c \in inflight : c.hops > 0 => c.marks.outcome = None /\ c.marks.parked = None
    /\ \A c \in stopped :
         /\ c.marks.outcome = IF c.topic = DLQ THEN "poison" ELSE "retry-exhausted"
         /\ c.marks.first <= c.marks.parked /\ c.marks.parked <= clock

\* nine-first-failed-at is the first failure, however many hops and hours ago.
FirstFailureIsKept ==
    Clean => \A c \in inflight \cup stopped : c.hops > 0 => c.marks.first = c.since

\* The id goes along on every hop when the payload offers it, and when only the
\* header of an earlier trip does: "what lets every later reader work without the
\* body". Marks that cannot be read cost the header's id, not the payload's.
IdIsKept ==
    body \in Identified \/ (Readable(source) /\ source.id # None) =>
        \A c \in inflight \cup stopped : c.hops > 0 => c.marks.id = "id"

\* Every failure Classify calls Retry, and every undecodable payload, has a code
\* the Forwarder accepts: readable marks halt a consumer on Fatal only.
OnlyFatalHalts ==
    Readable(source) => halted \subseteq {"Fatal"}

\* chain.go: "DLQ is where a Poison goes on first sight".
PoisonReachesDLQ == body \in Undecodable \cup {"enum"} ~> \E c \in stopped : c.topic = DLQ

\* Every copy comes to rest, redelivered ones and replayed ones included: the
\* ladder ends. Marks that do not parse are another matter.
Settles == Readable(source) ~> [](inflight = {})

=============================================================================
