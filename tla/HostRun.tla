------------------------------ MODULE HostRun ------------------------------
(***************************************************************************)
(* One execution of the host (run_capture in host.rs): the start, stage by *)
(* stage, each of which may fail and end the run with `?`; the script; and *)
(* the teardown, each step of which may fail and none of which may keep    *)
(* the next from running.                                                  *)
(*                                                                         *)
(* What is at stake is what the run still holds.  A session the script     *)
(* left open is ended by the drop of its VM, which only queues the ending  *)
(* on the log: the log must outlive both VMs and be drained after them,    *)
(* whatever failed in between.                                             *)
(***************************************************************************)
EXTENDS Naturals, Sequences, FiniteSets

CONSTANTS Sessions,    \* the sessions that may be opened
          Servers      \* the MCP servers that may be connected

\* The stages of a run, in the order of the code.
Start == <<"resolve", "dotenv", "bus", "mesh", "listen", "mcp", "root", "sql", "kv", "ts", "knl_dir",
           "spawn_main", "spawn_handler", "wire", "bridges", "handler_bridges", "tools">>

\* A mistake the runs catch: the logs are drained before the VMs are dropped.
LogsFirst == <<"drain", "join", "unlisten", "disconnect", "logs", "main", "handler",
               "ts_down">>

Teardown == <<"drain", "join", "unlisten", "disconnect", "main", "handler", "logs",
              "ts_down">>
Order == Start \o <<"script">> \o Teardown \o <<"done">>
Stages == {Order[i] : i \in DOMAIN Order}

Position(s) == CHOOSE i \in DOMAIN Order : Order[i] = s
After(s) == Order[Position(s) + 1]

VMs == {"main", "handler"}
Outcomes == {"none", "ok", "script", "deferred", "cancelled", "start", "mcp", "isle"}

VARIABLES config,     \* what the caller asked for
          stage,      \* where the run is
          held,       \* what is running on the run's behalf
          servers,    \* the connected MCP servers
          session,    \* [Sessions -> where it is]
          vm,         \* [Sessions -> the VM that holds its handle]
          script,     \* how the script ended
          failure,    \* the first failure of the teardown
          died,       \* the threads that panicked
          result      \* what the caller is handed

vars == <<config, stage, held, servers, session, vm, script, failure, died, result>>

\* What the caller may ask for: a mesh relay, an HTTP source, on_event handlers, a token that
\* cancels the run.
Config == [relay : BOOLEAN, http : BOOLEAN, auto : BOOLEAN, token : BOOLEAN]

Resources == {"dispatcher", "listener", "mesh", "ts", "main", "handler", "logs"}

TypeOK ==
    /\ config \in Config
    /\ stage \in Stages /\ held \subseteq Resources /\ servers \subseteq Servers
    /\ session \in [Sessions -> {"new", "open", "closed", "queued", "landed", "failed", "lost"}]
    /\ vm \in [Sessions -> VMs]
    /\ {script, failure, result} \subseteq Outcomes
    /\ died \subseteq VMs \cup {"logs", "ts"}

Init ==
    /\ config \in Config
    /\ stage = "resolve" /\ held = {} /\ servers = {}
    /\ session = [s \in Sessions |-> "new"] /\ vm = [s \in Sessions |-> "main"]
    /\ script = "none" /\ failure = "none" /\ died = {} /\ result = "none"

work == <<servers, session, vm, script, failure, died>>

----------------------------------------------------------------------------
(* The start *)

\* A return with `?`: every local is dropped.  The threads of the isles and of `ts` go
\* with their last handle, the mesh agent with its own.  A listener has no Drop: it goes
\* on, its sender keeps the bus open, and so the dispatcher goes on with it.
Refuse ==
    /\ stage' = "done" /\ result' = "start"
    /\ held' = IF "listener" \in held THEN held \cap {"listener", "dispatcher"} ELSE {}
    /\ UNCHANGED <<config, work>>

Reach(s, gained) ==
    /\ stage = s /\ stage' = After(s) /\ held' = held \cup gained
    /\ UNCHANGED <<config, result, work>>

\* A stage that may fail, and one that has nothing to do unless it was asked for.
Try(s, gained) == Reach(s, gained) \/ (stage = s /\ Refuse)
TryIf(asked, s, gained) == IF asked THEN Try(s, gained) ELSE Reach(s, {})

resolve_sources == Try("resolve", {})
load_dotenv == Reach("dotenv", {})
setup_event_bus == Try("bus", IF config.auto THEN {"dispatcher"} ELSE {})
connect_mesh == TryIf(config.relay, "mesh", {"mesh"})
start_http_source == TryIf(config.http, "listen", {"listener"})
with_rpc_timeout == Try("mcp", {})
project_root == Try("root", {})
open_sqlite_conn == Try("sql", {}) \/ Try("kv", {})
open_sqlite_isle == Try("ts", {"ts"})
prepare_knl_dir == Try("knl_dir", {})
spawn_isles == Try("spawn_main", {"main"})
spawn_handler_isle == Try("spawn_handler", {"handler"})
set_isles == Reach("wire", {"logs"})
register_bridges == Try("bridges", {}) \/ Try("handler_bridges", {})
inject_host_tools == Try("tools", {})

----------------------------------------------------------------------------
(* The script: what it may leave behind, and how it ends *)

Running == stage = "script" /\ script = "none"

\* A handler runs on the handler VM for the script, for a dispatcher that drains or was
\* given up on, and for a server that asks for a sample.
HandlerMayRun ==
    /\ "handler" \in held
    /\ stage = "script" \/ (script # "none" /\ ("dispatcher" \in held \/ servers # {}))

MayRun(m) == IF m = "main" THEN Running ELSE HandlerMayRun

OpenSession(s, m) ==
    /\ session[s] = "new" /\ MayRun(m)
    /\ session' = [session EXCEPT ![s] = "open"] /\ vm' = [vm EXCEPT ![s] = m]
    /\ UNCHANGED <<config, stage, held, servers, script, failure, died, result>>

CloseSession(s) ==
    /\ session[s] = "open" /\ MayRun(vm[s])
    /\ session' = [session EXCEPT ![s] = "closed"]
    /\ UNCHANGED <<config, stage, held, servers, vm, script, failure, died, result>>

Connect(n) ==
    /\ Running /\ n \notin servers /\ servers' = servers \cup {n}
    /\ UNCHANGED <<config, stage, held, session, vm, script, failure, died, result>>

\* A mistake the runs catch: the raise is passed on as it came.
AsRaised(raised) == raised

\* A raise that carries the prefix of job.defer is not a failure of the script.
script_failure(raised) == IF raised = "defers" THEN "deferred" ELSE "script"

\* biased select: a cancelled token wins over a script that has ended.  The run goes on to
\* the teardown whichever it was.
execute_script ==
    /\ Running
    /\ script' \in {"ok", script_failure("defers"), script_failure("raises")}
                     \cup (IF config.token THEN {"cancelled"} ELSE {})
    /\ stage' = After("script")
    /\ UNCHANGED <<config, held, servers, session, vm, failure, died, result>>

----------------------------------------------------------------------------
(* The teardown *)

\* Mistakes the runs catch: the last failure told; no failure told; the dispatcher is
\* joined with no bound on the wait.
LastFailure(e) == failure' = e

NoFailure(e) == failure' = failure

JoinForever ==
    \/ /\ stage = "drain" /\ stage' = "join"
       /\ UNCHANGED <<config, held, result, work>>
    \/ /\ stage = "join" /\ "dispatcher" \notin held /\ stage' = "unlisten"
       /\ UNCHANGED <<config, held, result, work>>

\* Cancel, then join within the grace: the teardown goes on when the dispatcher has ended
\* or the grace is over, whichever is first.  One that outlives the grace is detached.
drain_auto_serve ==
    /\ \/ stage = "drain" /\ stage' = "join"
       \/ stage = "join" /\ stage' = "unlisten"
    /\ UNCHANGED <<config, held, result, work>>

\* A task that was told to stop does so once the handler or the request it is in returns:
\* before the wait for it is over, after it, or never.
Stops(r, since) ==
    /\ r \in held /\ Position(stage) >= Position(since) /\ held' = held \ {r}
    /\ script # "none"
    /\ UNCHANGED <<config, stage, result, work>>

dispatcher_stops == Stops("dispatcher", "join")
listener_stops == Stops("listener", "unlisten")

\* HttpSourceHandle::shutdown: it is told to stop, and joined or given up on likewise.
listener_shutdown ==
    /\ stage = "unlisten" /\ stage' = "disconnect"
    /\ UNCHANGED <<config, held, result, work>>

\* The first failure wins.
record(e) == failure' = IF failure = "none" THEN e ELSE failure

\* disconnect_all empties the map before the first cancel is awaited; what fails is told.
disconnect_all ==
    /\ stage = "disconnect" /\ servers' = {} /\ stage' = After("disconnect")
    /\ \/ failure' = failure
       \/ servers # {} /\ record("mcp")
    /\ UNCHANGED <<config, held, session, vm, script, died, result>>

\* The drop of a VM: the handle of a session nobody closed queues the ending, and the log
\* takes it while it is up (Session::close_detached).
submit(s, m) ==
    IF session[s] = "open" /\ vm[s] = m
    THEN IF "logs" \in held THEN "queued" ELSE "lost"
    ELSE session[s]

\* A mistake the runs catch: a panic of the main VM ends the teardown.
ShutOrReturn(m, told) ==
    /\ stage = m /\ held' = held \ {m}
    /\ session' = [s \in Sessions |-> submit(s, m)]
    /\ \/ stage' = After(m) /\ UNCHANGED <<failure, died, result>>
       \/ /\ told /\ stage' = "done" /\ result' = "isle"
          /\ died' = died \cup {m, "logs"} /\ record("isle")
    /\ UNCHANGED <<config, servers, vm, script>>

\* A VM's thread is joined, or it panicked: then its sessions may go with it unsaid.
ShutVM(m, told) ==
    /\ stage = m /\ stage' = After(m) /\ held' = held \ {m}
    /\ \/ /\ session' = [s \in Sessions |-> submit(s, m)]
          /\ UNCHANGED <<failure, died>>
       \/ /\ session' \in {[s \in Sessions |-> submit(s, m)],
                           [s \in Sessions |-> IF session[s] = "open" /\ vm[s] = m
                                               THEN "lost" ELSE session[s]]}
          /\ died' = died \cup {m}
          /\ IF told THEN record("isle") ELSE UNCHANGED failure
    /\ UNCHANGED <<config, servers, vm, script, result>>

main_shutdown == ShutVM("main", TRUE)
handler_shutdown == ShutVM("handler", FALSE)

\* A mistake the runs catch: what is queued is left to the drop of the logs.
LogsNotDrained ==
    /\ stage = "logs" /\ stage' = After("logs") /\ held' = held \ {"logs"}
    /\ session' = [s \in Sessions |-> IF session[s] = "queued" THEN "lost" ELSE session[s]]
    /\ UNCHANGED <<config, servers, vm, script, failure, died, result>>

Queued == {s \in Sessions : session[s] = "queued"}

\* The drain runs what is queued before the connection's thread ends.  A detached append
\* that cannot be made (a file busy past its retries, a full disk) is told with a warning
\* and no more; a thread that panicked is logged, and what it had not run is lost.
logs_shutdown ==
    /\ stage = "logs" /\ stage' = After("logs") /\ held' = held \ {"logs"}
    /\ \E ran \in SUBSET Queued : \E kept \in SUBSET ran :
          /\ session' = [s \in Sessions |-> CASE s \in kept -> "landed"
                                              [] s \in ran \ kept -> "failed"
                                              [] s \in Queued \ ran -> "lost"
                                              [] OTHER -> session[s]]
          /\ \/ died' = died \cup {"logs"}
             \/ ran = Queued /\ died' = died
    /\ UNCHANGED <<config, servers, vm, script, failure, result>>

\* The last step, and the answer: a failure of the teardown is told before the script's.
\* The mesh agent goes with the context that held it.
ts_shutdown ==
    /\ stage = "ts_down" /\ stage' = "done" /\ held' = held \ {"ts", "mesh"}
    /\ died' \in {died, died \cup {"ts"}}
    /\ result' = IF failure # "none" THEN failure ELSE script
    /\ UNCHANGED <<config, servers, session, vm, script, failure>>

Done == stage = "done" /\ UNCHANGED vars

Begin ==
    \/ resolve_sources \/ load_dotenv \/ setup_event_bus \/ connect_mesh \/ start_http_source
    \/ with_rpc_timeout \/ project_root \/ open_sqlite_conn \/ open_sqlite_isle
    \/ prepare_knl_dir \/ spawn_isles \/ spawn_handler_isle \/ set_isles
    \/ register_bridges \/ inject_host_tools

End ==
    \/ drain_auto_serve \/ listener_shutdown \/ disconnect_all \/ main_shutdown
    \/ handler_shutdown \/ logs_shutdown \/ ts_shutdown

Script ==
    \/ \E s \in Sessions : (\E m \in VMs : OpenSession(s, m)) \/ CloseSession(s)
    \/ \E n \in Servers : Connect(n)
    \/ execute_script

Next == Begin \/ Script \/ End \/ dispatcher_stops \/ listener_stops \/ Done

\* The steps of the teardown whose wait the host bounds: a grace, a timeout of the MCP
\* client, a queue nobody adds to any more.
Bounded ==
    drain_auto_serve \/ listener_shutdown \/ disconnect_all \/ logs_shutdown \/ ts_shutdown

\* The start and the bounded steps of the teardown go on.  Nothing is assumed of the
\* script, of a handler that was told to stop, nor of the thread of a VM, which is joined
\* without a bound (mlua-isle's, and what runs on it is the script's).
Fairness == WF_vars(Begin) /\ WF_vars(Bounded)

Spec == Init /\ [][Next]_vars /\ Fairness

----------------------------------------------------------------------------
(* Properties *)

\* The ending of every session the script left open has been run by the log when the run
\* is over: it landed, or the append failed and a warning was logged.  It is lost unsaid
\* only with a thread that panicked: a failed disconnect, a VM that failed or a failed `ts`
\* never costs the log an ending (host.rs:2200-2219).
EndingsRun ==
    stage = "done" /\ script # "none" =>
       \A s \in Sessions :
          /\ session[s] \in {"new", "closed", "landed", "failed", "lost"}
          /\ session[s] = "lost" => died \cap {vm[s], "logs"} # {}

\* A log is up for as long as a VM may still hand it an ending.
LogsOutliveVMs == held \cap VMs # {} /\ script # "none" => "logs" \in held

\* Once the script was reached, the end of the run leaves nothing running and no server
\* connected, except a dispatcher or a listener that was given up on.
LetGo ==
    stage = "done" /\ script # "none" =>
       held \subseteq {"dispatcher", "listener"} /\ servers = {}

\* What the caller is told: a run whose script failed, deferred or was cancelled is never
\* reported as a success, and a deferral is only reported of a block that deferred.
ToldTheTruth ==
    stage = "done" =>
       /\ script # "ok" => result # "ok"
       /\ result = "deferred" => script = "deferred"
       /\ "main" \in died => result \notin {"ok", "deferred"}

\* The first failure wins.
FirstFailureStays == [][failure # "none" => failure' = failure]_vars

\* Once the script has ended the teardown comes to the VMs whatever the handlers and the
\* requests in flight do, and once their threads are joined it comes to its end.
TeardownEnds ==
    /\ (stage = "drain") ~> (stage = "main")
    /\ (stage = "logs") ~> (stage = "done")

\* The teardown keeps what the script left: every ending is run, the logs outlive both VMs, and
\* nothing of the run stays behind.
TeardownKeeps == TypeOK /\ EndingsRun /\ LogsOutliveVMs /\ LetGo

\* What is reported is true, and the first failure is the one that is reported.
FailuresReported == []ToldTheTruth /\ FirstFailureStays
=============================================================================
