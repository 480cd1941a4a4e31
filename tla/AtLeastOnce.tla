---------------------------- MODULE AtLeastOnce -----------------------------
(***************************************************************************)
(* What a consumer group promises about its topic, with no member, batch or *)
(* rebalance in sight: records arrive, each one is settled (it has its row,  *)
(* or its place on another topic) once it is old enough and not before the   *)
(* records in front of it, and an offset is released only over what is       *)
(* settled.  A delay topic may also forsake records, which is no promise but *)
(* a concession to what Run does; without a delay nothing is forsaken.       *)
(***************************************************************************)
EXTENDS Naturals, Sequences

CONSTANTS
    Partitions,
    Delay        \* how old a record must be, 0 for a topic without a delay

VARIABLES
    clock,
    log,         \* log[p][o + 1] is when the record at offset o arrived
    settled,     \* the records that are accounted for
    forsaken,    \* the records nobody will account for
    released     \* the offset the broker will not deliver below again

vars == <<clock, log, settled, forsaken, released>>

Init ==
    /\ clock = 0
    /\ log = [p \in Partitions |-> <<>>]
    /\ settled = {}
    /\ forsaken = {}
    /\ released = [p \in Partitions |-> 0]

\* The records of p before offset o.
Before(p, o) == {<<p, i>> : i \in 0..(o - 1)}

TimePasses ==
    /\ clock' = clock + 1
    /\ UNCHANGED <<log, settled, forsaken, released>>

Arrive(p) ==
    /\ log' = [log EXCEPT ![p] = Append(@, clock)]
    /\ UNCHANGED <<clock, settled, forsaken, released>>

\* Never early, and for the first time only after everything before it.
Settle(p, o) ==
    /\ o < Len(log[p])
    /\ log[p][o + 1] + Delay <= clock
    /\ Before(p, o) \subseteq settled \cup forsaken
    /\ settled' = settled \cup {<<p, o>>}
    /\ UNCHANGED <<clock, log, forsaken, released>>

\* Records are given up together, and none past one that is still open.
Forsake ==
    /\ Delay > 0
    /\ forsaken \subseteq forsaken'
    /\ \A r \in forsaken' \ forsaken : Before(r[1], r[2]) \subseteq settled \cup forsaken'
    /\ UNCHANGED <<clock, log, settled, released>>

Release ==
    /\ released' \in [Partitions -> Nat]
    /\ \A p \in Partitions :
         /\ released[p] <= released'[p]
         /\ released'[p] <= Len(log[p])
         /\ Before(p, released'[p]) \subseteq settled \cup forsaken
    /\ UNCHANGED <<clock, log, settled, forsaken>>

Next ==
    \/ TimePasses
    \/ \E p \in Partitions :
         Arrive(p) \/ \E o \in 0..(Len(log[p]) - 1) : Settle(p, o)
    \/ Forsake
    \/ Release

Spec == Init /\ [][Next]_vars

=============================================================================
