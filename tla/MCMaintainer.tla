---------------------------- MODULE MCMaintainer ----------------------------
(* Model checking instances of Maintainer.                                   *)
EXTENDS Maintainer

CONSTANTS m1, m2

OneMaintainer == {m1}
TwoMaintainers == {m1, m2}

Exact == {0}
Fast == {0, 2}

=============================================================================
