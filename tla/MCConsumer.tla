----------------------------- MODULE MCConsumer -----------------------------
(* Model checking instances of Consumer.                                     *)
EXTENDS Consumer, TLC

CONSTANTS m1, m2, p1, p2

OneMember == {m1}
TwoMembers == {m1, m2}
OnePartition == {p1}
TwoPartitions == {p1, p2}

\* Members are alike and so are partitions: sound for the safety runs.
Symmetry == Permutations(Members) \cup Permutations(Partitions)

=============================================================================
