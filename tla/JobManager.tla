----------------------------- MODULE JobManager -----------------------------
(***************************************************************************)
(* The job manager: `agent-block serve` (serve/serve.lua) over the `job`   *)
(* library (blocks/lib/job/init.tl) and `sh.exec` / `sh.kill`              *)
(* (bridge/sh.rs).                                                         *)
(*                                                                         *)
(* All that is known of a run is on a log: `run_started`, `run_ended`, the *)
(* requests for it and the refusals.  Four kinds of task share that log:   *)
(* the loop, which ticks; one task per run, which records the start, awaits*)
(* a process and records the end; the HTTP handler, which records requests *)
(* and stops; and the main coroutine, which reconciles on the way in and   *)
(* stops the runs on the way out.  They interleave wherever one awaits a   *)
(* query, an append or a process.                                          *)
(*                                                                         *)
(* `job.read` is four queries.  The first (the last ends) is a step of its *)
(* own here; the other three are taken together, since what lands between  *)
(* them gives the plan that landing before or after them gives, up to a    *)
(* stop that has nothing left to stop.  A snapshot is the length of the    *)
(* log it was taken at.                                                    *)
(*                                                                         *)
(* The calls on the manager's session are one at a time (the handle's lock *)
(* in bridge/knl.rs).  A task that is aborted inside an append either had  *)
(* not been let in, and nothing is written, or the write is with the log's *)
(* writer and lands whatever becomes of the task.                          *)
(***************************************************************************)
EXTENDS Naturals, Sequences, FiniteSets, SequencesExt

CONSTANTS Declared,   \* the declarations, in order: a sequence of jobs
          Periodic,   \* the jobs that declare `every`
          Every,      \* `every`, in units of the clock
          Runs,       \* run ids
          JobOf,      \* [Runs -> jobs]
          NoRun,      \* an event that names no run
          max_runs,   \* how many runs may be live at once
          MaxTime,    \* bound: the clock stops here
          MaxAsks,    \* bound: requests and stops the HTTP surface takes
          MaxFaults,  \* bound: crashes, and run tasks that raise
          MaxStarts   \* bound: how often a manager is started

Jobs == ToSet(Declared)

ASSUME JobAssumption ==
    /\ Declared \in Seq(Jobs) /\ Periodic \subseteq Jobs /\ NoRun \notin Runs
    /\ JobOf \in [Runs -> Jobs]
    /\ Every \in Nat /\ max_runs \in Nat \ {0}
    /\ MaxTime \in Nat /\ MaxAsks \in Nat /\ MaxFaults \in Nat /\ MaxStarts \in Nat

VARIABLES log,     \* the manager's sessions, read as one record
          now,     \* the clock, in the units events are stamped with
          mgr,     \* down, starting, up, leaving, left
          loop,    \* where the loop (or the main coroutine) is, and what it read
          task,    \* [Runs -> where the run's task is]
          proc,    \* [Runs -> the run's process]
          killed,  \* the groups sh.kill has marked
          asked,   \* the runs started on a request
          sent,    \* records of aborted tasks that are with the log's writer
          counts   \* what the bounds count

vars == <<log, now, mgr, loop, task, proc, killed, asked, sent, counts>>

Event == [kind : {"run_requested", "run_stop_requested", "run_started", "run_ended",
                  "run_skipped"},
          job : Jobs, run : Runs \cup {NoRun}, at : Nat,
          session : Nat,
          outcome : {"none", "own", "stopped", "lost"}, requested : BOOLEAN]

\* spawned  run_started not yet recorded       exited   sh.exec has answered
\* started  recorded, no process yet           done     over; handle removed
\* exec     in sh.exec, its group registered   aborted  by a stop or a crash
\* left     aborted on the way out, its handle still in the table
Task == {"none", "spawned", "started", "exec", "exited", "done", "aborted", "left"}

Loop == [pc    : {"off", "reconcile", "sleep", "read", "stops", "killing", "byhand",
                  "reread", "plan", "gone", "close"},
         ended  : Nat,         \* snapshot of the last ends
         seen   : Nat,         \* snapshot of the rest
         moment : Nat,         \* the tick's idea of now
         todo   : Seq(Runs)]   \* the stops to act on, the runs to close

Off == [pc |-> "off", ended |-> 0, seen |-> 0, moment |-> 0, todo |-> << >>]

Init ==
    /\ log = << >> /\ now = 0 /\ mgr = "down" /\ loop = Off
    /\ task = [r \in Runs |-> "none"]
    /\ proc = [r \in Runs |-> "none"]
    /\ killed = {} /\ asked = {} /\ sent = {}
    /\ counts = [asks |-> 0, faults |-> 0, starts |-> 0]

----------------------------------------------------------------------------
(* The record, and what is read off it *)

\* Stamped with the time, and written on the session of this start.
Entry(kind, job, run) ==
    [kind |-> kind, job |-> job, run |-> run, at |-> now, session |-> counts.starts,
     outcome |-> "none", requested |-> FALSE]

run_started(r) ==
    [Entry("run_started", JobOf[r], r) EXCEPT !.requested = (r \in asked)]

run_ended(r, outcome) ==
    [Entry("run_ended", JobOf[r], r) EXCEPT !.outcome = outcome]

Has(l, kind, r) == \E i \in DOMAIN l : l[i].kind = kind /\ l[i].run = r

\* LIVE_SQL: started, and not ended.
Live(l) == {r \in Runs : Has(l, "run_started", r) /\ ~Has(l, "run_ended", r)}

StartOf(l, r) == CHOOSE i \in DOMAIN l : l[i].kind = "run_started" /\ l[i].run = r

\* facts.live, a table by job: of several live runs of one job the last row wins.
LiveNow(l) ==
    {r \in Live(l) : \A q \in Live(l) :
        JobOf[q] = JobOf[r] => StartOf(l, q) <= StartOf(l, r)}

\* ENDED_SQL and the interval: never run, or ended long enough ago.
Due(l, j, moment) ==
    /\ j \in Periodic
    /\ \A i \in DOMAIN l :
         l[i].kind = "run_ended" /\ l[i].job = j => moment >= l[i].at + Every

\* REQUESTED_SQL: asked for, and no start or refusal at or after that time.
Requested(l, j) ==
    \E i \in DOMAIN l :
        /\ l[i].kind = "run_requested" /\ l[i].job = j
        /\ ~\E k \in DOMAIN l : /\ l[k].kind \in {"run_started", "run_skipped"}
                                /\ l[k].job = j /\ l[k].at >= l[i].at

\* The entries of s at the positions in I, in order.
Rows(s, I) ==
    LET f[i \in 0 .. Len(s)] ==
          IF i = 0 THEN << >>
          ELSE IF i \in I THEN Append(f[i - 1], s[i]) ELSE f[i - 1]
    IN  f[Len(s)]

\* Where the stops are whose run has not ended.
Pending(l) ==
    {i \in DOMAIN l : l[i].kind = "run_stop_requested" /\ ~Has(l, "run_ended", l[i].run)}

\* A mistake the runs catch: the rows themselves, and not their run ids.
StopRows(l) == Rows(l, Pending(l))

\* STOPS_SQL: the stops whose run has not ended, in order.
Stops(l) == Rows([i \in DOMAIN l |-> l[i].run], Pending(l))

\* Mistakes the runs catch: a start although a run of the job is live, and a cap
\* that does not count what this tick starts.
StartsOverlapping(l, ends, moment) ==
    {j \in Jobs : Requested(l, j) \/ Due(ends, j, moment)}

StartsUncounted(l, ends, moment) ==
    {j \in Jobs : /\ Requested(l, j) \/ Due(ends, j, moment)
                  /\ \A r \in Live(l) : JobOf[r] # j
                  /\ Cardinality(Live(l)) < max_runs}

\* job.tick: the jobs to start, decided in the order they are declared.
Starts(l, ends, moment) ==
    LET f[i \in 0 .. Len(Declared)] ==
          IF i = 0 THEN {}
          ELSE LET j == Declared[i] IN
               IF /\ Requested(l, j) \/ Due(ends, j, moment)
                  /\ \A r \in Live(l) : JobOf[r] # j
                  /\ Cardinality(Live(l)) + Cardinality(f[i - 1]) < max_runs
               THEN f[i - 1] \cup {j} ELSE f[i - 1]
    IN  f[Len(Declared)]

\* The runs this process holds a handle of.
Handles == {r \in Runs : task[r] \in {"spawned", "started", "exec", "exited", "left"}}

\* LIVE_GROUPS: a group is registered while its sh.exec waits.
Registered(r) == task[r] = "exec"

Seen == SubSeq(log, 1, loop.seen)

\* outcome_of, as far as who ended the run: `own` is any word of the process's.
outcome_of(r) == IF r \in killed THEN "stopped" ELSE "own"

\* The append the run's task is in the middle of.
Writing(r) ==
    CASE task[r] = "spawned" -> {<<"run_started", r>>}
      [] task[r] = "exited" -> {<<"run_ended", r>>}
      [] OTHER -> {}

\* h:abort().
Abort(r, to) ==
    /\ task' = IF r \in Handles THEN [task EXCEPT ![r] = to] ELSE task
    /\ sent' \in {sent, sent \cup Writing(r)}

----------------------------------------------------------------------------
(* Mistakes the runs catch *)

\* A start that reads the current session alone, and reconciles nothing.
StartUnreconciled ==
    /\ mgr \in {"down", "left"} /\ counts.starts < MaxStarts /\ sent = {}
    /\ mgr' = "starting"
    /\ loop' = [Off EXCEPT !.pc = "reconcile"]
    /\ counts' = [counts EXCEPT !.starts = @ + 1]
    /\ UNCHANGED <<log, now, task, proc, killed, asked, sent>>

\* A stop that aborts the task and closes the record, and forgets the process.
StopByAbort ==
    LET r == Head(loop.todo) IN
    /\ loop.pc = "stops" /\ loop.todo # << >>
    /\ Abort(r, "aborted")
    /\ loop' = IF r \in LiveNow(Seen) THEN [loop EXCEPT !.pc = "byhand"]
                                      ELSE [loop EXCEPT !.todo = Tail(@)]
    /\ UNCHANGED <<log, now, mgr, proc, killed, asked, counts>>

\* A stop that closes the record only of a run it holds a handle of.
StopHeldOnly ==
    LET r == Head(loop.todo) IN
    /\ loop.pc = "stops" /\ loop.todo # << >>
    /\ IF Registered(r)
       THEN /\ killed' = killed \cup {r}
            /\ loop' = [loop EXCEPT !.pc = "killing"]
            /\ UNCHANGED <<task, sent>>
       ELSE /\ Abort(r, "aborted")
            /\ loop' = IF r \in Handles \cap LiveNow(Seen)
                       THEN [loop EXCEPT !.pc = "byhand"] ELSE [loop EXCEPT !.todo = Tail(@)]
            /\ UNCHANGED killed
    /\ UNCHANGED <<log, now, mgr, proc, asked, counts>>

\* A plan whose refusals nobody records.
PlanSilently ==
    LET starts == Starts(Seen, SubSeq(log, 1, loop.ended), loop.moment)
        born == {CHOOSE r \in Runs : JobOf[r] = j /\ task[r] = "none" : j \in starts}
    IN  /\ loop.pc = "plan"
        /\ \A j \in starts : \E r \in Runs : JobOf[r] = j /\ task[r] = "none"
        /\ task' = [r \in Runs |-> IF r \in born THEN "spawned" ELSE task[r]]
        /\ asked' = asked \cup {r \in born : Requested(Seen, JobOf[r])}
        /\ loop' = [Off EXCEPT !.pc = "sleep"]
        /\ UNCHANGED <<log, now, mgr, proc, killed, sent, counts>>

\* Leaving that aborts the tasks and trusts that to end their processes.
LeaveByAbort(r) ==
    /\ mgr = "leaving" /\ loop.pc = "off"
    /\ r \in Handles /\ task[r] # "left"
    /\ Abort(r, "left")
    /\ UNCHANGED <<log, now, mgr, loop, proc, killed, asked, counts>>

----------------------------------------------------------------------------
(* Coming up *)

\* A new session; the runs the record says are live are nobody's.  The host of
\* the last manager drained its logs before it left.
start ==
    /\ mgr \in {"down", "left"} /\ counts.starts < MaxStarts /\ sent = {}
    /\ mgr' = "starting"
    /\ loop' = [Off EXCEPT !.pc = "reconcile", !.todo = SetToSeq(LiveNow(log))]
    /\ counts' = [counts EXCEPT !.starts = @ + 1]
    /\ UNCHANGED <<log, now, task, proc, killed, asked, sent>>

\* reconcile: one append for each, then the loop is spawned and the bus served.
reconcile ==
    /\ loop.pc = "reconcile"
    /\ IF loop.todo # << >>
       THEN /\ log' = Append(log, run_ended(Head(loop.todo), "lost"))
            /\ loop' = [loop EXCEPT !.todo = Tail(@)]
            /\ UNCHANGED mgr
       ELSE /\ mgr' = "up" /\ loop' = [loop EXCEPT !.pc = "sleep"]
            /\ UNCHANGED log
    /\ UNCHANGED <<now, task, proc, killed, asked, sent, counts>>

----------------------------------------------------------------------------
(* The tick *)

\* The first query of job.read.  Ticks are at least a second apart and an
\* Isle's tasks are polled in between, so what the last tick spawned has
\* recorded its start, or failed to.
tick_ended ==
    /\ mgr = "up"
    /\ \/ /\ loop.pc = "sleep" /\ \A r \in Runs : task[r] # "spawned"
          /\ loop' = [loop EXCEPT !.pc = "read", !.ended = Len(log), !.moment = now]
       \/ /\ loop.pc = "stops" /\ loop.todo = << >>
          /\ loop' = [loop EXCEPT !.pc = "reread", !.ended = Len(log)]
    /\ UNCHANGED <<log, now, mgr, task, proc, killed, asked, sent, counts>>

\* The others.  With stops to act on, the plan waits for a second read.
tick_facts ==
    LET stops == IF loop.pc = "read" THEN Stops(log) ELSE << >> IN
    /\ loop.pc \in {"read", "reread"}
    /\ loop' = [loop EXCEPT !.pc = IF stops = << >> THEN "plan" ELSE "stops",
                            !.seen = Len(log), !.todo = stops]
    /\ UNCHANGED <<log, now, mgr, task, proc, killed, asked, sent, counts>>

\* One stop.  A registered group is marked and signalled.  Otherwise the run's
\* task is aborted and its handle forgotten and, if the facts had the run as
\* live, its end is to be written by hand.
tick_stop ==
    LET r == Head(loop.todo) IN
    /\ loop.pc = "stops" /\ loop.todo # << >>
    /\ IF Registered(r)
       THEN /\ killed' = killed \cup {r}
            /\ loop' = [loop EXCEPT !.pc = "killing"]
            /\ UNCHANGED <<task, sent>>
       ELSE /\ Abort(r, "aborted")
            /\ loop' = IF r \in LiveNow(Seen) THEN [loop EXCEPT !.pc = "byhand"]
                                              ELSE [loop EXCEPT !.todo = Tail(@)]
            /\ UNCHANGED killed
    /\ UNCHANGED <<log, now, mgr, proc, asked, counts>>

\* The end, written by hand: `stopped` if there was a handle, else `lost`.
tick_byhand ==
    LET r == Head(loop.todo) IN
    /\ loop.pc = "byhand"
    /\ log' = Append(log, run_ended(r, IF task[r] = "aborted" THEN "stopped" ELSE "lost"))
    /\ loop' = [loop EXCEPT !.pc = "stops", !.todo = Tail(@)]
    /\ UNCHANGED <<now, mgr, task, proc, killed, asked, sent, counts>>

\* sh.kill answers once the group is gone: SIGTERM, a grace, SIGKILL.
tick_killed ==
    /\ loop.pc = "killing" /\ proc[Head(loop.todo)] # "running"
    /\ loop' = [loop EXCEPT !.pc = "stops", !.todo = Tail(@)]
    /\ UNCHANGED <<log, now, mgr, task, proc, killed, asked, sent, counts>>

\* A run id nobody has used.
Fresh(j) == CHOOSE r \in Runs : JobOf[r] = j /\ task[r] = "none"

\* job.tick, the refusals of what was requested, and a task for every start.
tick_plan ==
    LET starts == Starts(Seen, SubSeq(log, 1, loop.ended), loop.moment)
        refused == {i \in DOMAIN Declared :
                       Requested(Seen, Declared[i]) /\ Declared[i] \notin starts}
        skips == Rows(Declared, refused)
        born == {Fresh(j) : j \in starts}
    IN  /\ loop.pc = "plan"
        /\ \A j \in starts : \E r \in Runs : JobOf[r] = j /\ task[r] = "none"
        /\ log' = log \o [i \in DOMAIN skips |-> Entry("run_skipped", skips[i], NoRun)]
        /\ task' = [r \in Runs |-> IF r \in born THEN "spawned" ELSE task[r]]
        /\ asked' = asked \cup {r \in born : Requested(Seen, JobOf[r])}
        /\ loop' = [loop EXCEPT !.pc = "sleep", !.ended = 0, !.seen = 0, !.moment = 0]
        /\ UNCHANGED <<now, mgr, proc, killed, sent, counts>>

\* A query or an append fails: the pcall around the tick logs it, and the loop
\* goes back to sleep.
tick_raise ==
    /\ loop.pc \in {"read", "reread", "byhand", "plan"} /\ counts.faults < MaxFaults
    /\ loop' = [Off EXCEPT !.pc = "sleep"]
    /\ counts' = [counts EXCEPT !.faults = @ + 1]
    /\ UNCHANGED <<log, now, mgr, task, proc, killed, asked, sent>>

----------------------------------------------------------------------------
(* A run: a record, a process, a record *)

run_start(r) ==
    /\ task[r] = "spawned"
    /\ log' = Append(log, run_started(r))
    /\ task' = [task EXCEPT ![r] = "started"]
    /\ UNCHANGED <<now, mgr, loop, proc, killed, asked, sent, counts>>

\* sh.exec: the process is spawned in a group of its own, or cannot be.
run_exec(r) ==
    /\ task[r] = "started"
    /\ \/ /\ task' = [task EXCEPT ![r] = "exec"]
          /\ proc' = [proc EXCEPT ![r] = "running"]
       \/ task' = [task EXCEPT ![r] = "exited"] /\ UNCHANGED proc
    /\ UNCHANGED <<log, now, mgr, loop, killed, asked, sent, counts>>

\* The process ends: on its own, at its timeout, or signalled.
exit(r) ==
    /\ proc[r] = "running"
    /\ proc' = [proc EXCEPT ![r] = "dead"]
    /\ UNCHANGED <<log, now, mgr, loop, task, killed, asked, sent, counts>>

\* sh.exec answers, and forgets the group.
run_answer(r) ==
    /\ task[r] = "exec" /\ proc[r] = "dead"
    /\ task' = [task EXCEPT ![r] = "exited"]
    /\ UNCHANGED <<log, now, mgr, loop, proc, killed, asked, sent, counts>>

run_end(r) ==
    /\ task[r] = "exited"
    /\ log' = Append(log, run_ended(r, outcome_of(r)))
    /\ task' = [task EXCEPT ![r] = "done"]
    /\ UNCHANGED <<now, mgr, loop, proc, killed, asked, sent, counts>>

\* job.run raises: an append fails, or the config file cannot be written.  The
\* pcall around it removes the handle and records nothing.
run_raise(r) ==
    /\ task[r] \in {"spawned", "started", "exited"} /\ counts.faults < MaxFaults
    /\ task' = [task EXCEPT ![r] = "done"]
    /\ counts' = [counts EXCEPT !.faults = @ + 1]
    /\ UNCHANGED <<log, now, mgr, loop, proc, killed, asked, sent>>

\* The writer gets to what an aborted task had handed it.
land ==
    /\ \E e \in sent :
         /\ log' = Append(log, IF e[1] = "run_started" THEN run_started(e[2])
                               ELSE run_ended(e[2], outcome_of(e[2])))
         /\ sent' = sent \ {e}
    /\ UNCHANGED <<now, mgr, loop, task, proc, killed, asked, counts>>

----------------------------------------------------------------------------
(* The HTTP surface *)

request(j) ==
    /\ mgr = "up" /\ counts.asks < MaxAsks
    /\ log' = Append(log, Entry("run_requested", j, NoRun))
    /\ counts' = [counts EXCEPT !.asks = @ + 1]
    /\ UNCHANGED <<now, mgr, loop, task, proc, killed, asked, sent>>

\* DELETE: the run was live when the handler looked, and may have ended since.
stop(r) ==
    /\ mgr = "up" /\ counts.asks < MaxAsks
    /\ Has(log, "run_started", r)
    /\ log' = Append(log, Entry("run_stop_requested", JobOf[r], r))
    /\ counts' = [counts EXCEPT !.asks = @ + 1]
    /\ UNCHANGED <<now, mgr, loop, task, proc, killed, asked, sent>>

----------------------------------------------------------------------------
(* Leaving *)

\* bus.serve has returned: the loop is aborted, wherever it is.
leave ==
    /\ mgr = "up"
    /\ mgr' = "leaving" /\ loop' = Off
    /\ sent' \in {sent, sent \cup (IF loop.pc = "byhand"
                                    THEN {<<"run_ended", Head(loop.todo)>>} ELSE {})}
    /\ UNCHANGED <<log, now, task, proc, killed, asked, counts>>

\* For every handle: sh.kill, and then abort.  The entry stays in the table.
leave_kill(r) ==
    /\ mgr = "leaving" /\ loop.pc = "off"
    /\ r \in Handles /\ task[r] # "left"
    /\ IF Registered(r)
       THEN /\ killed' = killed \cup {r}
            /\ loop' = [loop EXCEPT !.pc = "gone", !.todo = <<r>>]
            /\ UNCHANGED <<task, sent>>
       ELSE Abort(r, "left") /\ UNCHANGED <<killed, loop>>
    /\ UNCHANGED <<log, now, mgr, proc, asked, counts>>

leave_abort ==
    LET r == Head(loop.todo) IN
    /\ loop.pc = "gone" /\ proc[r] # "running"
    /\ Abort(r, "left")
    /\ loop' = Off
    /\ UNCHANGED <<log, now, mgr, proc, killed, asked, counts>>

\* The read: what is live, and was in the table.
leave_read ==
    /\ mgr = "leaving" /\ loop.pc = "off"
    /\ \A r \in Handles : task[r] = "left"
    /\ loop' = [loop EXCEPT !.pc = "close", !.todo = SetToSeq(LiveNow(log) \cap Handles)]
    /\ UNCHANGED <<log, now, mgr, task, proc, killed, asked, sent, counts>>

\* The rest are recorded here, and the process ends.
leave_close ==
    /\ loop.pc = "close"
    /\ IF loop.todo # << >>
       THEN /\ log' = Append(log, run_ended(Head(loop.todo), "stopped"))
            /\ loop' = [loop EXCEPT !.todo = Tail(@)]
            /\ UNCHANGED <<mgr, task>>
       ELSE /\ mgr' = "left" /\ loop' = Off
            /\ task' = [r \in Runs |-> IF r \in Handles THEN "aborted" ELSE task[r]]
            /\ UNCHANGED log
    /\ UNCHANGED <<now, proc, killed, asked, sent, counts>>

\* The manager is killed: its tasks go with it, its processes do not.
crash ==
    /\ mgr \in {"starting", "up", "leaving"} /\ counts.faults < MaxFaults
    /\ mgr' = "down" /\ loop' = Off /\ sent' = {}
    /\ task' = [r \in Runs |-> IF r \in Handles THEN "aborted" ELSE task[r]]
    /\ proc' = [r \in Runs |-> IF proc[r] = "running" THEN "orphan" ELSE proc[r]]
    /\ counts' = [counts EXCEPT !.faults = @ + 1]
    /\ UNCHANGED <<log, now, killed, asked>>

clock ==
    /\ now < MaxTime
    /\ now' = now + 1
    /\ UNCHANGED <<log, mgr, loop, task, proc, killed, asked, sent, counts>>

----------------------------------------------------------------------------

Ticks == tick_ended \/ tick_facts \/ tick_stop \/ tick_byhand \/ tick_killed \/ tick_plan

RunSteps(r) == run_start(r) \/ run_exec(r) \/ run_answer(r) \/ run_end(r)

Next ==
    \/ start \/ reconcile
    \/ tick_ended \/ tick_facts \/ tick_stop \/ tick_byhand \/ tick_killed \/ tick_plan
    \/ tick_raise \/ land
    \/ \E r \in Runs : \/ run_start(r) \/ run_exec(r) \/ exit(r) \/ run_answer(r)
                       \/ run_end(r) \/ run_raise(r)
                       \/ stop(r) \/ leave_kill(r)
    \/ \E j \in Jobs : request(j)
    \/ leave \/ leave_abort \/ leave_read \/ leave_close
    \/ crash \/ clock

\* The runtime polls its tasks, and a group that is signalled ends: SIGKILL
\* follows.  Nothing makes a process end on its own.
Fairness ==
    /\ WF_vars(Ticks) /\ WF_vars(reconcile)
    /\ \A r \in Runs : WF_vars(RunSteps(r)) /\ WF_vars(r \in killed /\ exit(r))

Spec == Init /\ [][Next]_vars /\ Fairness

----------------------------------------------------------------------------
(* Properties *)

\* Every variable has its type.
TypeOK ==
    /\ log \in Seq(Event) /\ now \in 0 .. MaxTime
    /\ mgr \in {"down", "starting", "up", "leaving", "left"}
    /\ loop \in Loop
    /\ task \in [Runs -> Task]
    /\ proc \in [Runs -> {"none", "running", "dead", "orphan"}]
    /\ killed \subseteq Runs /\ asked \subseteq Runs
    /\ sent \subseteq {"run_started", "run_ended"} \X Runs
    /\ counts \in [asks : 0 .. MaxAsks, faults : 0 .. MaxFaults, starts : 0 .. MaxStarts]

\* "One live run per job", on the record at every moment: through stops, raises,
\* crashes and restarts, although job.tick decides on a record it read earlier
\* and the start is recorded by another task.
OneLiveRun ==
    \A q, r \in Live(log) : JobOf[q] = JobOf[r] => q = r

\* No more than max_runs runs are live on the record, nor processes held, at any
\* moment (job.tick counts what it is about to start).
AtMostMaxRuns ==
    /\ Cardinality(Live(log)) <= max_runs
    /\ Cardinality({r \in Runs : proc[r] = "running"}) <= max_runs

\* A process the manager holds is on the record as live: no end is written, by
\* hand or by the run itself, while the process still runs, and none runs that
\* was not recorded first (tick's stops, job.run).
RunningIsLive ==
    \A r \in Runs : proc[r] = "running" => r \in Live(log)

\* "Nothing outlives the manager": one that left in order has no process running,
\* although runs start and end while it is leaving (the end of serve.lua).
NothingOutlives ==
    mgr = "left" => \A r \in Runs : proc[r] # "running"

\* A restart starts clean: once the loop is up, every run that is live on the
\* record was started by this manager, whatever the ones before it left behind
\* (job.reconcile, which sees one live run for each job).
RestartClosesRuns ==
    mgr = "up" => \A r \in Live(log) : log[StartOf(log, r)].session = counts.starts

\* A run somebody asked to stop ends on the record, whatever state its task and
\* its process are in, as long as the manager stays (tick's stops).
StopsEndRuns ==
    \A r \in Runs :
        (mgr = "up" /\ Has(log, "run_stop_requested", r))
            ~> (Has(log, "run_ended", r) \/ mgr # "up")

\* A request that the manager sees is answered by a start or a refusal, as long
\* as the manager stays (tick, job.skipped).
RequestsAnswered ==
    \A j \in Jobs : (mgr = "up" /\ Requested(log, j)) ~> (~Requested(log, j) \/ mgr # "up")

\* The record is true of the runs at every moment: one live run for each job, and every process
\* the manager holds is one of them.
RecordIsTrue == TypeOK /\ OneLiveRun /\ RunningIsLive

\* Nothing is left over: no process of a manager that left in order, and no live run of the ones
\* before once the next is up.
NothingLeftOver == NothingOutlives /\ RestartClosesRuns

\* What a user asked for happens as long as the manager stays: a stop ends its run and a request
\* is answered.
AskedIsDone == StopsEndRuns /\ RequestsAnswered
=============================================================================
