----------------------------- MODULE MCKnlLogs -----------------------------
(* An instance of KnlLogs for TLC: a host with two tasks, and another process. *)
EXTENDS KnlLogs

CONSTANTS t1, t2, t3, o1, o2, p1, p2

ThreeTasks == {t1, t2, t3}
TwoThreads == {o1, o2}
TwoProcs == {p1, p2}
TwoInOne == [o \in ThreeTasks \cup TwoThreads |-> IF o \in {t3, o2} THEN p2 ELSE p1]

\* "/w/knl.sqlite", "./knl.sqlite", and "knl.sqlite", which has no parent.
ThreeSpellings == {"absolute", "relative", "bare"}
BareName == {"bare"}

SecondWrites(other) == [t \in ThreeTasks |-> IF t = t2 THEN other ELSE "absolute"]

\* The tasks of the host, whose spellings are one key or two; a task of each process; each
\* caller alone.
TwoOrOne ==
    [callers : {{t1, t2}}, spelled : {SecondWrites("relative"), SecondWrites("bare")}]
    \cup [callers : {{t1, t3}, {t1}, {t2}}, spelled : {SecondWrites("bare")}]

\* Nothing, or two streams whose clock ran on or ran backwards inside one.
Old(s, n, at) == [stream |-> s, seq |-> n, clock |-> at, legacy |-> TRUE]
TwoClocks ==
    {<< >>} \cup {<<Old(1, 1, at[1]), Old(1, 2, at[2]), Old(2, 1, 1)>> :
                     at \in {<<1, 2>>, <<2, 1>>}}
=============================================================================
