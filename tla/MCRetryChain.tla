---------------------------- MODULE MCRetryChain ----------------------------
(* Model checking instances of RetryChain.                                   *)
EXTENDS RetryChain

\* The ladder of chain.go.
Ladder == <<"events", "events.retry-5m", "events.retry-1h">>
ParkedTopic == "events.parked"
DLQTopic == "events.dlq"

\* A record straight off ingest, and a parked one replayed with its marks on.
Replayed == [id |-> "id", round |-> Tiers, outcome |-> "retry-exhausted",
             from |-> "events.retry-1h", first |-> 0, parked |-> 0]
UnreadableRound == [NoMarks EXCEPT !.round = Unreadable]
UnreadableFirst == [NoMarks EXCEPT !.round = 1, !.first = Unreadable]

WellFormed == {NoMarks, Replayed}
AnyMarks == WellFormed \cup {UnreadableRound, UnreadableFirst}
WithUnreadableRound == {UnreadableRound}

=============================================================================
