---------------------------- MODULE MCJobManager ----------------------------
(* Instances of JobManager for TLC. *)
EXTENDS JobManager

CONSTANTS j1, j2, a1, a2, a3, b1, b2, b3

\* Two jobs of three runs each, or one job alone.
TwoJobs == <<j1, j2>>
RunsOfTwo == {a1, a2, a3, b1, b2, b3}
JobsOfTwo == [r \in RunsOfTwo |-> IF r \in {a1, a2, a3} THEN j1 ELSE j2]

OneJob == <<j1>>
ThreeRuns == {a1, a2, a3}
JobsOfOne == [r \in ThreeRuns |-> j1]

First == {j1}
Never == {}
=============================================================================
