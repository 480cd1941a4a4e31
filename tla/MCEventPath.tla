---------------------------- MODULE MCEventPath -----------------------------
(* Model checking instance of EventPath.                                     *)
EXTENDS EventPath

CONSTANTS m1

OneMaintainer == {m1}
Fast == {0, 2}

\* Two rungs are enough for a copy to go on once and to be parked.
ShortLadder == <<"events", "events.retry-5m">>
ParkedTopic == "events.parked"
DLQTopic == "events.dlq"

=============================================================================
