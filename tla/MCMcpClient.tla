---------------------------- MODULE MCMcpClient ----------------------------
(* McpClient with one or two servers, two coroutines of the script and the handler's. *)
EXTENDS McpClient

CONSTANTS n1, n2, t1, t2

TwoServers == {n1, n2}
TwoTasks == {t1, t2}

Budget(calls, asks, buses, notes, kinds, names) ==
    [calls |-> calls, asks |-> asks, buses |-> buses, notes |-> notes, conns |-> 0,
     kinds |-> kinds, names |-> names]

\* A sample in full, two servers, notifications in full, callbacks and answers registered
\* from the handler VM, and each other kind once.
SevenBudgets ==
    {Budget(5, 1, 0, 0, {"sampling"}, {n1}), Budget(3, 1, 0, 0, {"elicitation"}, {n1}),
     Budget(3, 1, 1, 0, {"roots"}, {n1}), Budget(4, 0, 0, 0, {"roots"}, {n1, n2}),
     Budget(3, 0, 0, 3, {"progress"}, {n1}), Budget(3, 0, 1, 1, {"log"}, {n1}),
     Budget(2, 0, 0, 1, Notices \ {"progress", "log"}, {n1})}
=============================================================================
