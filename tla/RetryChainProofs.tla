-------------------------- MODULE RetryChainProofs --------------------------
(***************************************************************************)
(* Proofs about RetryChain for every ladder, every bound and every set of   *)
(* marks an event may come with.  All of them rest on one fact: a copy that *)
(* is new after a step was sent by a copy that was on the ladder before it, *)
(* down one rung, to Parked or to DLQ (NewInflight, NewStopped).            *)
(***************************************************************************)
EXTENDS RetryChain, TLAPS

-----------------------------------------------------------------------------
(* The inductive invariants.                                                 *)

\* A copy that has not moved carries the marks the event came with, one that has
\* carries what build wrote: a round, a first failure and no verdict.
Moving ==
    \A c \in inflight :
        /\ c.hops = 0 => c.marks = source
        /\ c.hops > 0 => /\ c.marks.round \in Nat /\ c.marks.first \in Nat
                         /\ c.marks.outcome = None /\ c.marks.parked = None

Inv == TypeOK /\ Moving

-----------------------------------------------------------------------------
(* Where a step puts copies.                                                 *)

\* The copy Forward produces for what route answered.
Sent(c, to) ==
    Copy(to.topic, to.marks, c.hops + 1, IF c.hops = 0 THEN clock ELSE c.since)

\* The three ways out of a rung: down, parked, and straight to DLQ.
SentDown(c, n) ==
    /\ Readable(c.marks) /\ ~Spent(c.marks) /\ Rung(c.topic) < Len(Chain)
    /\ n = Sent(c, [topic |-> Chain[Rung(c.topic) + 1], marks |-> build(c, None, 1)])

SentParked(c, n) ==
    /\ Readable(c.marks)
    /\ Rung(c.topic) = Len(Chain) \/ Spent(c.marks)
    /\ n = Sent(c, [topic |-> Parked, marks |-> build(c, "retry-exhausted", 0)])

SentUnreadable(c, n) ==
    /\ c.marks.round = Unreadable
    /\ n = Sent(c, [topic |-> Parked, marks |-> ParkUnreadable(c)])

SentToDLQ(c, n) ==
    /\ Readable(c.marks)
    /\ n = Sent(c, [topic |-> DLQ, marks |-> build(c, "poison", 0)])

\* The rung of a topic of the ladder is where the ladder has it, and no other.
LEMMA RungOfTopic ==
    ASSUME NEW topic, InChain(topic)
    PROVE  Rung(topic) \in 1..Len(Chain) /\ Chain[Rung(topic)] = topic
  BY DEF InChain, Rung

LEMMA RungIsUnique ==
    ASSUME NEW i \in 1..Len(Chain)
    PROVE  InChain(Chain[i]) /\ Rung(Chain[i]) = i
<1>1. InChain(Chain[i])
  BY DEF InChain
<1>2. QED
  BY <1>1, RungOfTopic, ChainAssumption

\* The topics that end the ladder are not on it.
LEMMA EndsAreOffTheLadder == ~InChain(Parked) /\ ~InChain(DLQ)
  BY ChainAssumption DEF InChain

\* What route answers, for a copy on the ladder.
LEMMA RouteCases ==
    ASSUME NEW c, InChain(c.topic), NEW err, NEW to \in route(c, err)
    PROVE  \/ SentDown(c, Sent(c, to)) \/ SentParked(c, Sent(c, to))
           \/ SentUnreadable(c, Sent(c, to)) \/ SentToDLQ(c, Sent(c, to))
<1> DEFINE code == FailureCode(err)
           next == NextTopic(c.topic)
           retries == Outcome(err) = "Retry" /\ InChain(c.topic)
           goesOn == next # None /\ ~Spent(c.marks)
<1>1. Rung(c.topic) \in 1..Len(Chain) /\ Len(Chain) \in Nat
  BY RungOfTopic, ChainAssumption
<1>2. next # None => Rung(c.topic) < Len(Chain) /\ next = Chain[Rung(c.topic) + 1]
  BY DEF NextTopic
<1>3. next = None => Rung(c.topic) = Len(Chain)
  <2>1. SUFFICES ASSUME Rung(c.topic) < Len(Chain) PROVE next # None
    BY <1>1
  <2>2. Rung(c.topic) + 1 \in 1..Len(Chain)
    BY <1>1, <2>1
  <2>3. QED
    BY <2>1, <2>2, ChainAssumption DEF NextTopic
<1>4. CASE Outcome(err) = "Poison" /\ Builds(c, code)
  BY <1>4 DEF route, SentToDLQ, Builds
<1>5. CASE ~(Outcome(err) = "Poison" /\ Builds(c, code)) /\ retries /\ goesOn /\ Builds(c, code)
  BY <1>2, <1>5 DEF route, SentDown, Builds
<1>6. CASE retries /\ ~goesOn /\ c.marks.round = Unreadable
  <2>1. ~Builds(c, code)
    BY <1>6 DEF Builds, Readable
  <2>2. to = [topic |-> Parked, marks |-> ParkUnreadable(c)]
    BY <1>6, <2>1 DEF route
  <2>3. QED
    BY <1>6, <2>2 DEF SentUnreadable
<1>7. CASE retries /\ ~goesOn /\ c.marks.round # Unreadable /\ Builds(c, code)
  BY <1>3, <1>7 DEF route, SentParked, Builds
<1>8. QED
  BY <1>4, <1>5, <1>6, <1>7 DEF route

\* A copy that is on the ladder after a step was there before, or was sent down
\* one rung.
LEMMA NewCopies ==
    ASSUME [Next]_vars
    PROVE  /\ \A n \in inflight' : n \in inflight \/
                \E c \in inflight, err \in Errors : \E to \in route(c, err) :
                    InChain(to.topic) /\ n = Sent(c, to)
           /\ \A n \in stopped' : n \in stopped \/
                \E c \in inflight, err \in Errors : \E to \in route(c, err) :
                    ~InChain(to.topic) /\ n = Sent(c, to)
           /\ stopped \subseteq stopped'
<1>1. CASE Tick \/ UNCHANGED vars
  BY <1>1 DEF Tick, vars
<1>2. ASSUME NEW c \in inflight, NEW err \in Errors, Record(c, err)
      PROVE  inflight' \subseteq inflight /\ stopped' = stopped
  BY <1>2 DEF Record, Settled
<1>3. ASSUME NEW c \in inflight, NEW err \in Errors, Forward(c, err)
      PROVE  \E to \in route(c, err) :
               IF InChain(to.topic)
                 THEN inflight' \subseteq inflight \cup {Sent(c, to)} /\ stopped' = stopped
                 ELSE inflight' \subseteq inflight /\ stopped' = stopped \cup {Sent(c, to)}
  BY <1>3 DEF Forward, Settled, Sent
<1>4. ASSUME NEW c \in inflight, NEW err \in Errors, Halt(c, err) \/ ProduceFails(c, err)
      PROVE  inflight' = inflight /\ stopped' = stopped
  BY <1>4 DEF Halt, Refuse, ProduceFails
<1>5. CASE \E c \in inflight, err \in Errors : Forward(c, err)
  BY <1>3, <1>5
<1>6. QED
  BY <1>1, <1>2, <1>4, <1>5 DEF Next, Handle

LEMMA NewInflight ==
    ASSUME \A c \in inflight : InChain(c.topic), [Next]_vars, NEW n \in inflight', n \notin inflight
    PROVE  \E c \in inflight : SentDown(c, n)
<1>1. PICK c \in inflight, err \in Errors :
         \E to \in route(c, err) : InChain(to.topic) /\ n = Sent(c, to)
  BY NewCopies
<1>2. PICK to \in route(c, err) : InChain(to.topic) /\ n = Sent(c, to)
  BY <1>1
<1>3. n.topic = to.topic
  BY <1>2 DEF Sent, Copy
<1>4. n.topic \notin {Parked, DLQ}
  BY <1>2, <1>3, EndsAreOffTheLadder
<1>5. ~SentParked(c, n) /\ ~SentUnreadable(c, n) /\ ~SentToDLQ(c, n)
  BY <1>4 DEF SentParked, SentUnreadable, SentToDLQ, Sent, Copy
<1>6. QED
  BY <1>2, <1>5, RouteCases

LEMMA NewStopped ==
    ASSUME \A c \in inflight : InChain(c.topic), [Next]_vars, NEW n \in stopped', n \notin stopped
    PROVE  \E c \in inflight : SentParked(c, n) \/ SentUnreadable(c, n) \/ SentToDLQ(c, n)
<1>1. PICK c \in inflight, err \in Errors :
         \E to \in route(c, err) : ~InChain(to.topic) /\ n = Sent(c, to)
  BY NewCopies
<1>2. PICK to \in route(c, err) : ~InChain(to.topic) /\ n = Sent(c, to)
  BY <1>1
<1>3. n.topic = to.topic
  BY <1>2 DEF Sent, Copy
<1>4. ~SentDown(c, n)
  <2>1. SUFFICES ASSUME SentDown(c, n) PROVE FALSE
    OBVIOUS
  <2>2. Rung(c.topic) \in 1..Len(Chain) /\ Len(Chain) \in Nat /\ Rung(c.topic) < Len(Chain)
    BY <2>1, RungOfTopic, ChainAssumption DEF SentDown
  <2>3. n.topic = Chain[Rung(c.topic) + 1]
    BY <2>1 DEF SentDown, Sent, Copy
  <2>4. Rung(c.topic) + 1 \in 1..Len(Chain)
    BY <2>2
  <2>5. QED
    BY <1>2, <1>3, <2>3, <2>4, RungIsUnique
<1>5. QED
  BY <1>2, <1>4, RouteCases

-----------------------------------------------------------------------------
(* Types.                                                                    *)

\* The id that leaves with a copy, and the round it is counted from.
LEMMA MarksOf ==
    ASSUME NEW c, c.marks \in MarksType
    PROVE  /\ eventID(c) \in {None, "id"} /\ c.marks.id \in {None, "id"}
           /\ Readable(c.marks) => /\ Round(c.marks) \in Nat
                                   /\ c.marks.first \in Nat \cup {None}
  BY ChainAssumption DEF MarksType, eventID, Readable, Round

\* What build and Park write are marks.
LEMMA BuildType ==
    ASSUME clock \in Nat, NEW c, c.marks \in MarksType, InChain(c.topic), Readable(c.marks),
           NEW outcome \in {None, "retry-exhausted", "poison"}, NEW spend \in Nat
    PROVE  /\ build(c, outcome, spend) \in MarksType
           /\ build(c, outcome, spend).round \in Nat
           /\ build(c, outcome, spend).first \in Nat
<1>1. /\ eventID(c) \in {None, "id"} /\ c.marks.id \in {None, "id"}
      /\ Round(c.marks) \in Nat /\ c.marks.first \in Nat \cup {None}
  BY MarksOf
<1>2. Round(c.marks) + spend \in Nat
  BY <1>1
<1>3. c.topic \in {Chain[i] : i \in 1..Len(Chain)}
  BY DEF InChain
<1>4. (IF c.marks.first = None THEN clock ELSE c.marks.first) \in Nat
  BY <1>1
<1>5. (IF eventID(c) = None THEN c.marks.id ELSE eventID(c)) \in {None, "id"}
  BY <1>1
<1>6. (IF outcome = None THEN None ELSE clock) \in Nat \cup {None}
  OBVIOUS
<1>7. QED
  BY <1>2, <1>3, <1>4, <1>5, <1>6 DEF build, MarksType

LEMMA ParkUnreadableType ==
    ASSUME clock \in Nat, NEW c, c.marks \in MarksType, InChain(c.topic)
    PROVE  ParkUnreadable(c) \in MarksType
<1>1. eventID(c) \in {None, "id"} /\ Tiers \in Nat
  BY MarksOf, ChainAssumption DEF Tiers
<1>2. c.topic \in {Chain[i] : i \in 1..Len(Chain)}
  BY DEF InChain
<1>3. QED
  BY <1>1, <1>2 DEF ParkUnreadable, MarksType

\* A step sends copies of the right types, and leaves the rest of them alone.
LEMMA MovingStep ==
    ASSUME Inv, [Next]_vars
    PROVE  /\ \A n \in inflight' :
                /\ n.hops \in Nat /\ n.since \in Nat \cup {None} /\ n.marks \in MarksType
                /\ InChain(n.topic)
           /\ Moving'
<1>1. clock \in Nat /\ \A c \in inflight : InChain(c.topic)
  BY ChainAssumption DEF Inv, TypeOK
<1>2. ASSUME NEW n \in inflight', n \notin inflight
      PROVE  /\ n.hops \in Nat /\ n.since \in Nat \cup {None} /\ n.marks \in MarksType
             /\ InChain(n.topic)
             /\ n.hops > 0 /\ n.marks.round \in Nat /\ n.marks.first \in Nat
             /\ n.marks.outcome = None /\ n.marks.parked = None
  <2>1. PICK c \in inflight : SentDown(c, n)
    BY <1>1, <1>2, NewInflight
  <2>2. /\ c.hops \in Nat /\ c.since \in Nat \cup {None} /\ c.marks \in MarksType
        /\ InChain(c.topic)
    BY DEF Inv, TypeOK
  <2>3. /\ n.topic = Chain[Rung(c.topic) + 1] /\ n.marks = build(c, None, 1)
        /\ n.hops = c.hops + 1 /\ n.since = IF c.hops = 0 THEN clock ELSE c.since
    BY <2>1 DEF SentDown, Sent, Copy
  <2>4. /\ n.marks \in MarksType /\ n.marks.round \in Nat /\ n.marks.first \in Nat
    BY <1>1, <2>1, <2>2, <2>3, BuildType DEF SentDown
  <2>5. n.marks.outcome = None /\ n.marks.parked = None
    BY <2>3 DEF build
  <2>6. Rung(c.topic) + 1 \in 1..Len(Chain)
    BY <2>1, <2>2, RungOfTopic, ChainAssumption DEF SentDown
  <2>7. InChain(n.topic)
    BY <2>3, <2>6, RungIsUnique
  <2>8. n.hops \in Nat /\ n.hops > 0 /\ n.since \in Nat \cup {None}
    BY <1>1, <2>2, <2>3
  <2>9. QED
    BY <2>4, <2>5, <2>7, <2>8
<1>3. source' = source
  BY DEF Next, vars, Tick, Handle, Record, Forward, Halt, Refuse, ProduceFails
<1>4. QED
  BY <1>2, <1>3 DEF Inv, TypeOK, Moving

LEMMA StoppedStep ==
    ASSUME Inv, [Next]_vars, NEW n \in stopped'
    PROVE  /\ n.hops \in Nat /\ n.since \in Nat \cup {None} /\ n.marks \in MarksType
           /\ n.topic \in {Parked, DLQ}
<1>1. clock \in Nat /\ \A c \in inflight : InChain(c.topic)
  BY ChainAssumption DEF Inv, TypeOK
<1>2. CASE n \in stopped
  BY <1>2 DEF Inv, TypeOK
<1>3. CASE n \notin stopped
  <2>1. PICK c \in inflight : SentParked(c, n) \/ SentUnreadable(c, n) \/ SentToDLQ(c, n)
    BY <1>1, <1>3, NewStopped
  <2>2. /\ c.hops \in Nat /\ c.since \in Nat \cup {None} /\ c.marks \in MarksType
        /\ InChain(c.topic)
    BY DEF Inv, TypeOK
  <2>3. /\ n.topic \in {Parked, DLQ}
        /\ n.hops = c.hops + 1 /\ n.since = IF c.hops = 0 THEN clock ELSE c.since
    BY <2>1 DEF SentParked, SentUnreadable, SentToDLQ, Sent, Copy
  <2>4. n.marks \in MarksType
    <3>1. CASE SentParked(c, n)
      BY <1>1, <2>2, <3>1, BuildType DEF SentParked, Sent, Copy
    <3>2. CASE SentUnreadable(c, n)
      BY <1>1, <2>2, <3>2, ParkUnreadableType DEF SentUnreadable, Sent, Copy
    <3>3. CASE SentToDLQ(c, n)
      BY <1>1, <2>2, <3>3, BuildType DEF SentToDLQ, Sent, Copy
    <3>4. QED
      BY <2>1, <3>1, <3>2, <3>3
  <2>5. n.hops \in Nat /\ n.since \in Nat \cup {None}
    BY <1>1, <2>2, <2>3
  <2>6. QED
    BY <2>3, <2>4, <2>5
<1>4. QED
  BY <1>2, <1>3

\* A row is written and not taken away, and what is not Done is a verdict of its own.
LEMMA AnswerTypes ==
    ASSUME NEW err \in Errors, recorded \in BOOLEAN
    PROVE  /\ Writes(err) \subseteq {recorded, TRUE}
           /\ Outcome(err) \in Outcomes \ {"Unknown"}
  BY DEF Writes, Outcome, Outcomes, Classify, classifyPg

LEMMA SettledBound ==
    ASSUME redelivered \in 0..MaxRedelivered, NEW c, NEW new, Settled(c, new)
    PROVE  redelivered' \in 0..MaxRedelivered
  BY ChainAssumption DEF Settled

LEMMA ScalarStep ==
    ASSUME TypeOK, [Next]_vars
    PROVE  /\ clock' \in 0..MaxClock /\ clock <= clock'
           /\ body' = body /\ source' = source
           /\ recorded' \in {recorded, TRUE}
           /\ halted' \subseteq Outcomes \ {"Unknown", "Done"}
           /\ redelivered' \in 0..MaxRedelivered
<1> DEFINE Kept == UNCHANGED <<clock, body, source>> /\ recorded' \in {recorded, TRUE}
           HaltedOK == halted' \subseteq Outcomes \ {"Unknown", "Done"}
           RedeliveredOK == redelivered' \in 0..MaxRedelivered
<1>1. CASE Tick
  BY <1>1, ChainAssumption DEF Tick, TypeOK
<1>2. ASSUME NEW c \in inflight, NEW err \in Errors, Record(c, err)
      PROVE  Kept /\ HaltedOK /\ RedeliveredOK
  BY <1>2, AnswerTypes, SettledBound DEF Record, TypeOK
<1>3. ASSUME NEW c \in inflight, NEW err \in Errors, Forward(c, err)
      PROVE  Kept /\ HaltedOK /\ RedeliveredOK
  <2>1. RedeliveredOK
    BY <1>3, SettledBound DEF Forward, TypeOK
  <2>2. QED
    BY <1>3, <2>1, AnswerTypes DEF Forward, TypeOK
<1>4. ASSUME NEW c \in inflight, NEW err \in Errors, Halt(c, err)
      PROVE  Kept /\ HaltedOK /\ RedeliveredOK
  BY <1>4, AnswerTypes DEF Halt, Refuse, TypeOK
<1>5. ASSUME NEW c \in inflight, NEW err \in Errors, ProduceFails(c, err)
      PROVE  Kept /\ HaltedOK /\ RedeliveredOK
  BY <1>5, AnswerTypes DEF ProduceFails, TypeOK
<1>6. CASE UNCHANGED vars
  BY <1>6, ChainAssumption DEF vars, TypeOK
<1>7. Tick \/ UNCHANGED vars \/ (Kept /\ HaltedOK /\ RedeliveredOK)
  <2> HIDE DEF Kept, HaltedOK, RedeliveredOK
  <2>1. QED
    BY <1>2, <1>3, <1>4, <1>5 DEF Next, Handle
<1>8. clock \in 0..MaxClock /\ clock <= clock
  BY ChainAssumption DEF TypeOK
<1>9. QED
  BY <1>1, <1>6, <1>7, <1>8

LEMMA InitInv == Init => Inv
<1> SUFFICES ASSUME Init PROVE Inv
  OBVIOUS
<1>1. inflight = {Copy(Chain[1], source, 0, None)}
  BY DEF Init
<1>2. 1 \in 1..Len(Chain)
  BY ChainAssumption
<1>3. InChain(Chain[1])
  BY <1>2, RungIsUnique
<1>4. source \in MarksType
  BY SourceAssumption DEF Init
<1>5. \A c \in inflight : /\ c.topic = Chain[1] /\ c.marks = source /\ c.hops = 0
                          /\ c.since = None
  BY <1>1 DEF Copy
<1>6. 0 \in 0..MaxClock /\ 0 \in 0..MaxRedelivered
  BY ChainAssumption
<1>7. \A c \in inflight : /\ c.hops \in Nat /\ c.since \in Nat \cup {None}
                          /\ c.marks \in MarksType /\ InChain(c.topic)
  BY <1>3, <1>4, <1>5
<1>8. TypeOK
  BY <1>6, <1>7 DEF Init, TypeOK
<1>9. QED
  BY <1>5, <1>8 DEF Inv, Moving

LEMMA InvStep == Inv /\ [Next]_vars => Inv'
<1> SUFFICES ASSUME Inv, [Next]_vars PROVE Inv'
  OBVIOUS
<1>1. source' \in SourceMarks /\ body' \in Bodies
  BY ScalarStep DEF Inv, TypeOK
<1>2. MarksType' = MarksType /\ \A t : InChain(t)' <=> InChain(t)
  BY DEF MarksType, InChain
<1>3. recorded' \in BOOLEAN
  BY ScalarStep DEF Inv, TypeOK
<1>4. TypeOK'
  BY <1>1, <1>3, ScalarStep, MovingStep, StoppedStep DEF Inv, TypeOK
<1>5. QED
  BY <1>4, MovingStep DEF Inv

LEMMA Invariance == Spec => []Inv
  BY InitInv, InvStep, PTL DEF Spec

\* Every copy is on the ladder or on one of the two topics that end it, with marks
\* that are what marks.go writes.
THEOREM TypeCorrect == Spec => []TypeOK
<1>1. Inv => TypeOK
  BY DEF Inv
<1>2. QED
  BY <1>1, Invariance, PTL

-----------------------------------------------------------------------------
(* Nothing vanishes.                                                         *)

\* Done means that the row is there: it was just written, or it was found.
LEMMA DoneIsRecorded ==
    ASSUME NEW err \in Errors, Meets(err), Outcome(err) = "Done", recorded' \in Writes(err)
    PROVE  recorded'
<1>1. err.kind \notin {"decode", "enum"} /\ Classify(err) = "Done"
  BY DEF Outcome
<1>2. err.kind = "nil" \/ err.kind = "notInserted" \/ (err.kind = "pg" /\ err.code = "23505")
  BY <1>1 DEF Classify, classifyPg
<1>3. err.kind = "nil" \/ recorded
  BY <1>1, <1>2 DEF Meets
<1>4. QED
  BY <1>2, <1>3 DEF Writes

LEMMA VanishStep ==
    ASSUME TypeOK, NeverVanishes, [Next]_vars
    PROVE  NeverVanishes'
<1>1. CASE Tick \/ UNCHANGED vars
  BY <1>1 DEF Tick, vars, NeverVanishes
<1>2. ASSUME NEW c \in inflight, NEW err \in Errors, Record(c, err) PROVE NeverVanishes'
  BY <1>2, DoneIsRecorded DEF Record, NeverVanishes
<1>3. ASSUME NEW c \in inflight, NEW err \in Errors, Forward(c, err) PROVE NeverVanishes'
  BY <1>3 DEF Forward, Settled, NeverVanishes
<1>4. ASSUME NEW c \in inflight, NEW err \in Errors, Halt(c, err) \/ ProduceFails(c, err)
      PROVE  NeverVanishes'
  BY <1>4 DEF Halt, Refuse, ProduceFails, NeverVanishes
<1>5. QED
  BY <1>1, <1>2, <1>3, <1>4 DEF Next, Handle

\* No order of redeliveries, lost answers, failed produces and unreadable marks
\* commits the last offset of an event that has neither its row nor a copy on Parked
\* or DLQ.
THEOREM NothingVanishes == Spec => []NeverVanishes
<1>1. Init => NeverVanishes
  BY DEF Init, NeverVanishes
<1>2. Inv /\ NeverVanishes /\ [Next]_vars => NeverVanishes'
  BY VanishStep DEF Inv
<1>3. QED
  BY <1>1, <1>2, Invariance, PTL DEF Spec

-----------------------------------------------------------------------------
(* What halts a consumer.                                                    *)

\* Every error has a code the Forwarder writes.
LEMMA CodesAreValid ==
    ASSUME NEW err \in Errors
    PROVE  ValidCode(FailureCode(err))
<1>1. err.kind = "pg" => err.code \in SQLStates
  <2>1. CASE err \in PgErrors
    BY <2>1 DEF SQLStates
  <2>2. CASE err \notin PgErrors
    <3>1. PICK k \in {"nil", "notInserted", "context", "net", "decode", "enum", "other"} :
             err = Plain(k)
      BY <2>2 DEF Errors
    <3>2. err.kind = k
      BY <3>1 DEF Plain
    <3>3. QED
      BY <3>2
  <2>3. QED
    BY <2>1, <2>2
<1>2. QED
  BY <1>1 DEF FailureCode, ValidCode, codeClasses

\* A copy with readable marks always has somewhere to go.
LEMMA ReadableIsRouted ==
    ASSUME NEW c, InChain(c.topic), Readable(c.marks), NEW err \in Errors,
           Outcome(err) \in {"Retry", "Poison"}
    PROVE  route(c, err) # {}
<1>1. Builds(c, FailureCode(err))
  BY CodesAreValid DEF Builds
<1>2. CASE Outcome(err) = "Poison"
  BY <1>1, <1>2 DEF route
<1>3. CASE Outcome(err) = "Retry"
  BY <1>1, <1>3 DEF route
<1>4. QED
  BY <1>2, <1>3

\* Marks stay readable on the ladder.
LEMMA StillReadable ==
    ASSUME Inv, Readable(source), NEW c \in inflight
    PROVE  Readable(c.marks)
  BY ChainAssumption DEF Inv, Moving, TypeOK, Readable

\* An event whose marks can be read stops a consumer only on what Classify calls
\* Fatal: Forward never fails on what it has to write, at whatever rung.
THEOREM ReadableMarksForward == Spec => []OnlyFatalHalts
<1>1. Init => OnlyFatalHalts
  BY DEF Init, OnlyFatalHalts
<1>2. ASSUME Inv, OnlyFatalHalts, [Next]_vars PROVE OnlyFatalHalts'
  <2>1. source' = source
    BY <1>2, ScalarStep DEF Inv
  <2>2. ASSUME NEW c \in inflight, NEW err \in Errors, Halt(c, err), Readable(source)
        PROVE  Outcome(err) = "Fatal"
    <3>1. InChain(c.topic) /\ Readable(c.marks)
      BY <1>2, <2>2, StillReadable DEF Inv, TypeOK
    <3>2. Outcome(err) \in Outcomes \ {"Unknown", "Done"}
      BY <1>2, <2>2, AnswerTypes DEF Halt, Refuse, Inv, TypeOK
    <3>3. QED
      BY <2>2, <3>1, <3>2, ReadableIsRouted DEF Halt, Refuse, Outcomes
  <2>3. ASSUME NEW c \in inflight, NEW err \in Errors, Halt(c, err)
        PROVE  halted' = halted \cup {Outcome(err)}
    BY <2>3 DEF Halt, Refuse
  <2>4. (\E c \in inflight, err \in Errors : Halt(c, err)) \/ halted' = halted
    BY <1>2 DEF Next, vars, Tick, Handle, Record, Forward, ProduceFails
  <2>5. Readable(source)' <=> Readable(source)
    BY <2>1 DEF Readable
  <2>6. QED
    BY <1>2, <2>2, <2>3, <2>4, <2>5 DEF OnlyFatalHalts
<1>3. QED
  BY <1>1, <1>2, Invariance, PTL DEF Spec

-----------------------------------------------------------------------------
(* What a copy carries.                                                      *)

\* What every copy that is sent has in common with the one that sent it.
LEMMA SentFields ==
    ASSUME NEW c, NEW n, \/ SentDown(c, n) \/ SentParked(c, n)
                         \/ SentUnreadable(c, n) \/ SentToDLQ(c, n)
    PROVE  /\ n.hops = c.hops + 1
           /\ n.since = IF c.hops = 0 THEN clock ELSE c.since
           /\ SentDown(c, n) => /\ n.topic = Chain[Rung(c.topic) + 1]
                                /\ n.marks = build(c, None, 1)
           /\ SentParked(c, n) => n.topic = Parked /\ n.marks = build(c, "retry-exhausted", 0)
           /\ SentUnreadable(c, n) => n.topic = Parked /\ n.marks = ParkUnreadable(c)
           /\ SentToDLQ(c, n) => n.topic = DLQ /\ n.marks = build(c, "poison", 0)
  BY DEF SentDown, SentParked, SentUnreadable, SentToDLQ, Sent, Copy

\* A copy after a step is one from before it, or one sent by one from before it.
LEMMA Sender ==
    ASSUME Inv, [Next]_vars, NEW n \in (inflight \cup stopped)', n \notin inflight \cup stopped
    PROVE  \E c \in inflight : \/ SentDown(c, n) \/ SentParked(c, n)
                               \/ SentUnreadable(c, n) \/ SentToDLQ(c, n)
<1>1. \A c \in inflight : InChain(c.topic)
  BY DEF Inv, TypeOK
<1>2. CASE n \in inflight'
  BY <1>1, <1>2, NewInflight
<1>3. CASE n \in stopped'
  BY <1>1, <1>3, NewStopped
<1>4. QED
  BY <1>2, <1>3

\* The event has an id to take along.
HasID == body \in Identified \/ (Readable(source) /\ source.id # None)

\* build writes the id when the payload offers it or the copy's marks have it, and
\* Park writes it when the payload offers it.
LEMMA IdsWritten ==
    ASSUME NEW c, c.marks \in MarksType, NEW outcome, NEW spend
    PROVE  /\ body \in Identified => eventID(c) = "id"
           /\ Readable(c.marks) /\ c.marks.id = "id" => eventID(c) = "id"
           /\ eventID(c) = "id" => /\ build(c, outcome, spend).id = "id"
                                   /\ ParkUnreadable(c).id = "id"
<1>1. c.marks.id \in {None, "id"}
  BY DEF MarksType
<1>2. body \in Identified => eventID(c) = "id"
  BY <1>1 DEF eventID
<1>3. Readable(c.marks) /\ c.marks.id = "id" => eventID(c) = "id"
  BY DEF eventID
<1>4. eventID(c) = "id" => build(c, outcome, spend).id = "id"
  BY <1>1 DEF build
<1>5. eventID(c) = "id" => ParkUnreadable(c).id = "id"
  BY DEF ParkUnreadable
<1>6. QED
  BY <1>2, <1>3, <1>4, <1>5


\* However far a copy has come, and whatever was unreadable on the way, it carries
\* the id that its payload, or the header it came with, could give.
THEOREM TheIdGoesAlong == Spec => []IdIsKept
<1>1. Init => IdIsKept
  <2>1. ASSUME Init, NEW c \in inflight \cup stopped PROVE c.hops = 0
    BY <2>1 DEF Init, Copy
  <2>2. QED
    BY <2>1 DEF IdIsKept
<1>2. ASSUME Inv, IdIsKept, [Next]_vars PROVE IdIsKept'
  <2>1. body' = body /\ source' = source
    BY <1>2, ScalarStep DEF Inv
  <2>2. HasID' <=> HasID
    BY <2>1 DEF HasID, Readable
  <2>3. ASSUME HasID, NEW n \in (inflight \cup stopped)', n \notin inflight \cup stopped
        PROVE  n.marks.id = "id"
    <3>1. PICK c \in inflight : \/ SentDown(c, n) \/ SentParked(c, n)
                                \/ SentUnreadable(c, n) \/ SentToDLQ(c, n)
      BY <1>2, <2>3, Sender
    <3>2. c.marks \in MarksType /\ c.hops \in Nat
      BY <1>2 DEF Inv, TypeOK
    <3>3. eventID(c) = "id" => n.marks.id = "id"
      BY <3>1, <3>2, SentFields, IdsWritten
    <3>4. CASE body \in Identified
      BY <3>2, <3>3, <3>4, IdsWritten
    <3>5. CASE body \notin Identified
      <4>1. Readable(source) /\ source.id # None
        BY <2>3, <3>5 DEF HasID
      <4>2. Readable(c.marks)
        BY <1>2, <4>1, StillReadable
      <4>3. CASE c.hops = 0
        <5>1. c.marks = source
          BY <1>2, <4>3 DEF Inv, Moving
        <5>2. c.marks.id = "id"
          BY <3>2, <4>1, <5>1 DEF MarksType
        <5>3. QED
          BY <3>2, <3>3, <4>2, <5>2, IdsWritten
      <4>4. CASE c.hops > 0
        <5>1. c.marks.id = "id"
          BY <1>2, <2>3, <4>4 DEF IdIsKept, HasID
        <5>2. QED
          BY <3>2, <3>3, <4>2, <5>1, IdsWritten
      <4>5. QED
        BY <3>2, <4>3, <4>4
    <3>6. QED
      BY <3>4, <3>5
  <2>4. QED
    BY <1>2, <2>2, <2>3 DEF IdIsKept, HasID
<1>3. QED
  BY <1>1, <1>2, Invariance, PTL DEF Spec

-----------------------------------------------------------------------------
(* What a copy of a clean event tells about its way.                         *)

\* The first failure a clean event's copies carry, with what it is copied from: a
\* copy that has moved knows when, and one that has not has nothing to keep.
LEMMA FirstStep ==
    ASSUME Inv, Clean, FirstFailureIsKept, [Next]_vars,
           NEW n \in (inflight \cup stopped)', n \notin inflight \cup stopped
    PROVE  n.marks.first = n.since
<1>1. PICK c \in inflight : \/ SentDown(c, n) \/ SentParked(c, n)
                            \/ SentUnreadable(c, n) \/ SentToDLQ(c, n)
  BY Sender
<1>2. c.marks \in MarksType /\ c.hops \in Nat
  BY DEF Inv, TypeOK
<1>3. Readable(source)
  BY ChainAssumption DEF Clean, NoMarks, Readable
<1>4. Readable(c.marks)
  BY <1>3, StillReadable
<1>5. ~SentUnreadable(c, n)
  BY <1>4 DEF SentUnreadable, Readable
<1>6. n.marks.first = IF c.marks.first = None THEN clock ELSE c.marks.first
  <2>1. \/ n.marks = build(c, None, 1) \/ n.marks = build(c, "retry-exhausted", 0)
        \/ n.marks = build(c, "poison", 0)
    BY <1>1, <1>5, SentFields
  <2>2. QED
    BY <2>1 DEF build
<1>7. n.since = IF c.hops = 0 THEN clock ELSE c.since
  BY <1>1, SentFields
<1>8. CASE c.hops = 0
  <2>1. c.marks.first = None
    BY <1>8 DEF Inv, Moving, Clean, NoMarks
  <2>2. QED
    BY <1>6, <1>7, <1>8, <2>1
<1>9. CASE c.hops > 0
  <2>1. c.marks.first \in Nat /\ c.marks.first = c.since
    BY <1>9 DEF Inv, Moving, FirstFailureIsKept
  <2>2. c.marks.first # None
    BY <2>1, ChainAssumption
  <2>3. QED
    BY <1>2, <1>6, <1>7, <1>9, <2>1, <2>2
<1>10. QED
  BY <1>2, <1>8, <1>9

\* nine-first-failed-at survives every hop: no rung, redelivery or verdict restarts
\* the clock an operator reads off a parked event.
THEOREM FirstFailureStays == Spec => []FirstFailureIsKept
<1>1. Init => FirstFailureIsKept
  <2>1. ASSUME Init, NEW c \in inflight \cup stopped PROVE c.hops = 0
    BY <2>1 DEF Init, Copy
  <2>2. QED
    BY <2>1 DEF FirstFailureIsKept
<1>2. ASSUME Inv, FirstFailureIsKept, [Next]_vars PROVE FirstFailureIsKept'
  <2>1. Clean' <=> Clean
    BY <1>2, ScalarStep DEF Inv, Clean, NoMarks
  <2>2. QED
    BY <1>2, <2>1, FirstStep DEF FirstFailureIsKept
<1>3. QED
  BY <1>1, <1>2, Invariance, PTL DEF Spec

\* One rung of a clean event: from the copy's own round and rung to those of what
\* it sends.
LEMMA RoundsStep ==
    ASSUME Inv, Clean, RoundsTellTheWay, [Next]_vars
    PROVE  /\ \A n \in inflight' : Round(n.marks) = n.hops /\ Rung(n.topic) = n.hops + 1
           /\ \A n \in stopped' :
                IF n.topic = Parked THEN n.hops = Tiers + 1 /\ n.marks.round = Tiers
                                    ELSE n.marks.round = n.hops - 1
<1>1. /\ \A c \in inflight : /\ InChain(c.topic) /\ c.hops \in Nat /\ c.marks \in MarksType
                             /\ Round(c.marks) = c.hops /\ Rung(c.topic) = c.hops + 1
      /\ \A c \in inflight : Readable(c.marks)
  <2>1. Readable(source)
    BY ChainAssumption DEF Clean, NoMarks, Readable
  <2>2. QED
    BY <2>1, StillReadable DEF Inv, TypeOK, RoundsTellTheWay
<1>2. Len(Chain) \in Nat /\ Tiers = Len(Chain) - 1
  BY ChainAssumption DEF Tiers
<1>3. ASSUME NEW n \in inflight', n \notin inflight
      PROVE  Round(n.marks) = n.hops /\ Rung(n.topic) = n.hops + 1
  <2>1. PICK c \in inflight : SentDown(c, n)
    BY <1>1, <1>3, NewInflight
  <2>2. n.hops = c.hops + 1 /\ n.topic = Chain[Rung(c.topic) + 1] /\ n.marks = build(c, None, 1)
    BY <2>1, SentFields
  <2>3. n.marks.round = c.hops + 1
    BY <1>1, <2>2 DEF build
  <2>4. Rung(c.topic) + 1 \in 1..Len(Chain)
    BY <1>1, <1>2, <2>1, RungOfTopic DEF SentDown
  <2>5. Rung(n.topic) = n.hops + 1
    BY <1>1, <2>2, <2>4, RungIsUnique
  <2>6. c.hops + 1 # None
    BY <1>1, ChainAssumption
  <2>7. QED
    BY <2>2, <2>3, <2>5, <2>6 DEF Round
<1>4. ASSUME NEW n \in stopped', n \notin stopped
      PROVE  IF n.topic = Parked THEN n.hops = Tiers + 1 /\ n.marks.round = Tiers
                                 ELSE n.marks.round = n.hops - 1
  <2>1. PICK c \in inflight : SentParked(c, n) \/ SentUnreadable(c, n) \/ SentToDLQ(c, n)
    BY <1>1, <1>4, NewStopped
  <2>2. ~SentUnreadable(c, n)
    BY <1>1 DEF SentUnreadable, Readable
  <2>3. n.hops = c.hops + 1
    BY <2>1, SentFields
  <2>4. CASE SentToDLQ(c, n)
    <3>1. n.topic # Parked /\ n.marks = build(c, "poison", 0)
      BY <2>4, SentFields, ChainAssumption
    <3>2. n.marks.round = c.hops + 0
      BY <1>1, <3>1 DEF build
    <3>3. QED
      BY <1>1, <2>3, <3>1, <3>2
  <2>5. CASE SentParked(c, n)
    <3>1. n.topic = Parked /\ n.marks = build(c, "retry-exhausted", 0)
      BY <2>5, SentFields
    <3>2. n.marks.round = c.hops + 0
      BY <1>1, <3>1 DEF build
    <3>3. c.hops + 1 \in 1..Len(Chain)
      BY <1>1, RungOfTopic
    <3>4. c.marks.round # Unreadable
      BY <1>1 DEF Readable
    <3>5. c.hops + 1 = Len(Chain) \/ c.hops >= Tiers
      BY <1>1, <2>5, <3>4 DEF SentParked, Spent
    <3>6. c.hops = Tiers
      BY <1>1, <1>2, <3>3, <3>5
    <3>7. QED
      BY <1>1, <1>2, <2>3, <3>1, <3>2, <3>6
  <2>6. QED
    BY <2>1, <2>2, <2>4, <2>5
<1>5. QED
  BY <1>1, <1>3, <1>4 DEF RoundsTellTheWay

\* On every ladder a clean event takes every tier once and in order, however often
\* its copies are redelivered: nine-retry-round is the number of rungs behind it, and
\* it is parked from the last one.
THEOREM RoundsCountTheRungs == Spec => []RoundsTellTheWay
<1>1. Init => RoundsTellTheWay
  <2>1. ASSUME Init, Clean PROVE RoundsTellTheWay
    <3>1. \A c \in inflight : c.topic = Chain[1] /\ c.marks = NoMarks /\ c.hops = 0
      BY <2>1 DEF Init, Clean, Copy
    <3>2. Rung(Chain[1]) = 1
      BY RungIsUnique, ChainAssumption
    <3>3. Round(NoMarks) = 0
      BY DEF Round, NoMarks
    <3>4. stopped = {}
      BY <2>1 DEF Init
    <3>5. QED
      BY <3>1, <3>2, <3>3, <3>4 DEF RoundsTellTheWay
  <2>2. QED
    BY <2>1 DEF RoundsTellTheWay
<1>2. ASSUME Inv, RoundsTellTheWay, [Next]_vars PROVE RoundsTellTheWay'
  <2>1. Clean' <=> Clean
    BY <1>2, ScalarStep DEF Inv, Clean, NoMarks
  <2>2. QED
    BY <1>2, <2>1, RoundsStep DEF RoundsTellTheWay, Round, Rung, Tiers
<1>3. QED
  BY <1>1, <1>2, Invariance, PTL DEF Spec

-----------------------------------------------------------------------------
(* The verdict on a copy that stopped.                                       *)

\* No event comes with a first failure that lies ahead of the clock: true of the
\* marks an earlier trip wrote, unless the clocks of two forwarders disagree.
NoFutureMarks == \A m \in SourceMarks : m.first \in Nat => m.first = 0

\* VerdictMatchesTopic and what it takes to keep it: the first failure a copy on the
\* ladder carries is past, and the dates of a copy that stopped are dates.
Dated ==
    /\ \A c \in inflight : c.marks.first \in Nat => c.marks.first <= clock
    /\ \A c \in stopped :
         /\ c.marks.outcome = IF c.topic = DLQ THEN "poison" ELSE "retry-exhausted"
         /\ c.marks.first \in Nat /\ c.marks.parked \in Nat
         /\ c.marks.first <= c.marks.parked /\ c.marks.parked <= clock

\* The dates build writes lie behind the clock when those it read do.
LEMMA DatesWritten ==
    ASSUME clock \in Nat, NEW c, c.marks \in MarksType, Readable(c.marks),
           c.marks.first \in Nat => c.marks.first <= clock,
           NEW outcome, NEW spend
    PROVE  /\ build(c, outcome, spend).outcome = outcome
           /\ build(c, outcome, spend).first \in Nat
           /\ build(c, outcome, spend).first <= clock
           /\ outcome # None => build(c, outcome, spend).parked = clock
<1>1. c.marks.first \in Nat \cup {None}
  BY MarksOf
<1>2. QED
  BY <1>1 DEF build

LEMMA DatedStep ==
    ASSUME Inv, Dated, [Next]_vars
    PROVE  Dated'
<1>1. /\ clock \in Nat /\ clock' \in Nat /\ clock <= clock'
      /\ \A c \in inflight : /\ InChain(c.topic) /\ c.marks \in MarksType
                             /\ c.marks.first \in Nat => c.marks.first <= clock
  <2>1. /\ clock \in 0..MaxClock /\ clock' \in 0..MaxClock /\ clock <= clock'
        /\ \A c \in inflight : InChain(c.topic) /\ c.marks \in MarksType
    BY ScalarStep DEF Inv, TypeOK
  <2>2. QED
    BY <2>1, ChainAssumption DEF Dated
<1>2. ASSUME NEW n \in inflight', n \notin inflight
      PROVE  n.marks.first \in Nat /\ n.marks.first <= clock
  <2>1. PICK c \in inflight : SentDown(c, n)
    BY <1>1, <1>2, NewInflight
  <2>2. Readable(c.marks) /\ n.marks = build(c, None, 1)
    BY <2>1, SentFields DEF SentDown
  <2>3. QED
    BY <1>1, <2>2, DatesWritten
<1>3. ASSUME NEW n \in stopped', n \notin stopped
      PROVE  /\ n.marks.outcome = IF n.topic = DLQ THEN "poison" ELSE "retry-exhausted"
             /\ n.marks.first \in Nat /\ n.marks.parked = clock /\ n.marks.first <= clock
  <2>1. PICK c \in inflight : SentParked(c, n) \/ SentUnreadable(c, n) \/ SentToDLQ(c, n)
    BY <1>1, <1>3, NewStopped
  <2>2. CASE SentParked(c, n)
    <3>1. Readable(c.marks) /\ n.topic = Parked /\ n.marks = build(c, "retry-exhausted", 0)
      BY <2>2, SentFields DEF SentParked
    <3>2. n.topic # DLQ /\ None # "retry-exhausted"
      BY <3>1, ChainAssumption
    <3>3. QED
      BY <1>1, <3>1, <3>2, DatesWritten
  <2>3. CASE SentUnreadable(c, n)
    <3>1. n.topic # DLQ /\ n.marks = ParkUnreadable(c)
      BY <2>3, SentFields, ChainAssumption
    <3>2. clock <= clock
      BY <1>1
    <3>3. QED
      BY <1>1, <3>1, <3>2 DEF ParkUnreadable
  <2>4. CASE SentToDLQ(c, n)
    <3>1. Readable(c.marks) /\ n.topic = DLQ /\ n.marks = build(c, "poison", 0)
      BY <2>4, SentFields DEF SentToDLQ
    <3>2. None # "poison"
      BY ChainAssumption
    <3>3. QED
      BY <1>1, <3>1, <3>2, DatesWritten
  <2>5. QED
    BY <2>1, <2>2, <2>3, <2>4
<1>4. ASSUME NEW n \in inflight' PROVE n.marks.first \in Nat => n.marks.first <= clock'
  BY <1>1, <1>2, <1>4
<1>5. ASSUME NEW n \in stopped'
      PROVE  /\ n.marks.outcome = IF n.topic = DLQ THEN "poison" ELSE "retry-exhausted"
             /\ n.marks.first \in Nat /\ n.marks.parked \in Nat
             /\ n.marks.first <= n.marks.parked /\ n.marks.parked <= clock'
  <2>1. CASE n \in stopped
    BY <1>1, <2>1 DEF Dated
  <2>2. CASE n \notin stopped
    BY <1>1, <1>3, <2>2
  <2>3. QED
    BY <2>1, <2>2
<1>6. QED
  BY <1>4, <1>5 DEF Dated

\* Whatever verdict and dates an event comes with, a copy that moves has dropped
\* them, and one that stopped has the verdict of the topic it is on and dates in
\* their order.
THEOREM VerdictsAreOfTheTopic ==
    ASSUME NoFutureMarks PROVE Spec => []VerdictMatchesTopic
<1>1. Init => Dated
  <2>1. ASSUME Init PROVE Dated
    <3>1. \A c \in inflight : c.marks = source
      BY <2>1 DEF Init, Copy
    <3>2. source.first \in Nat => source.first <= clock
      BY <2>1 DEF Init, NoFutureMarks
    <3>3. QED
      BY <2>1, <3>1, <3>2 DEF Init, Dated
  <2>2. QED
    BY <2>1
<1>2. Inv /\ Dated /\ [Next]_vars => Dated'
  BY DatedStep
<1>3. Inv /\ Dated => VerdictMatchesTopic
  BY DEF Inv, Moving, Dated, VerdictMatchesTopic
<1>4. QED
  BY <1>1, <1>2, <1>3, Invariance, PTL DEF Spec

=============================================================================
