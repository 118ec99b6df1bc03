---------------------------- MODULE HostRunProofs ----------------------------
(***************************************************************************)
(* The safety theorems of HostRun: the teardown keeps what the script left *)
(* (every ending is run, the logs outlive both VMs, nothing stays behind)   *)
(* and what is reported is true, for any number of sessions and servers    *)
(* and whichever steps fail.                                               *)
(*                                                                         *)
(* The argument is what the run holds at each stage: both VMs and the logs *)
(* from the script to the drop of the main VM, and after it less and less, *)
(* in the one order in which no ending is handed to a log that is gone.    *)
(***************************************************************************)
EXTENDS HostRun, TLAPS

----------------------------------------------------------------------------
(* The order of the stages *)

\* The stages are 27.
LEMMA OrderDomain == DOMAIN Order = 1 .. 27
BY DEF Order, Start, Teardown

\* Their names, in the order of run_capture.
LEMMA OrderNames ==
    /\ Order[1] = "resolve" /\ Order[2] = "dotenv" /\ Order[3] = "bus" /\ Order[4] = "mesh"
    /\ Order[5] = "listen" /\ Order[6] = "mcp" /\ Order[7] = "root" /\ Order[8] = "sql"
    /\ Order[9] = "kv" /\ Order[10] = "ts" /\ Order[11] = "knl_dir"
    /\ Order[12] = "spawn_main" /\ Order[13] = "spawn_handler" /\ Order[14] = "wire"
    /\ Order[15] = "bridges" /\ Order[16] = "handler_bridges" /\ Order[17] = "tools"
    /\ Order[18] = "script" /\ Order[19] = "drain" /\ Order[20] = "join"
    /\ Order[21] = "unlisten" /\ Order[22] = "disconnect" /\ Order[23] = "main"
    /\ Order[24] = "handler" /\ Order[25] = "logs" /\ Order[26] = "ts_down"
    /\ Order[27] = "done"
BY DEF Order, Start, Teardown

\* No stage comes twice.
LEMMA OrderInjective ==
    ASSUME NEW i \in 1 .. 27, NEW j \in 1 .. 27, Order[i] = Order[j] PROVE i = j
BY DEF Order, Start, Teardown

\* What comes after a stage is its neighbour.
LEMMA AfterIsNext ==
    ASSUME NEW i \in 1 .. 26 PROVE After(Order[i]) = Order[i + 1]
<1> DEFINE s == Order[i]
<1>1. i \in DOMAIN Order /\ \A k \in DOMAIN Order : Order[k] = s => k = i
  BY OrderDomain, OrderInjective
<1> HIDE DEF s
<1>2. (CHOOSE k \in DOMAIN Order : Order[k] = s) = i
  BY <1>1 DEF s
<1>3. Position(s) = i
  BY <1>2 DEF Position
<1>4. QED
  BY <1>3 DEF After, s

\* The stages of the start.
Begun == {"resolve", "dotenv", "bus", "mesh", "listen", "mcp", "root", "sql", "kv", "ts",
          "knl_dir", "spawn_main", "spawn_handler", "wire", "bridges", "handler_bridges",
          "tools"}

\* The stages of the teardown, and from which of them on no server is connected.
Ending == {"drain", "join", "unlisten", "disconnect", "main", "handler", "logs", "ts_down"}
Cut == {"main", "handler", "logs", "ts_down"}

\* Where each stage of the start, the script and four steps of the teardown lead.
LEMMA AfterEach ==
    /\ After("resolve") = "dotenv" /\ After("dotenv") = "bus" /\ After("bus") = "mesh"
    /\ After("mesh") = "listen" /\ After("listen") = "mcp" /\ After("mcp") = "root"
    /\ After("root") = "sql" /\ After("sql") = "kv" /\ After("kv") = "ts"
    /\ After("ts") = "knl_dir" /\ After("knl_dir") = "spawn_main"
    /\ After("spawn_main") = "spawn_handler" /\ After("spawn_handler") = "wire"
    /\ After("wire") = "bridges" /\ After("bridges") = "handler_bridges"
    /\ After("handler_bridges") = "tools" /\ After("tools") = "script"
    /\ After("script") = "drain" /\ After("disconnect") = "main" /\ After("main") = "handler"
    /\ After("handler") = "logs" /\ After("logs") = "ts_down"
BY OrderNames, AfterIsNext

\* The names are the stages.
LEMMA StagesAre == Stages = Begun \cup {"script"} \cup Ending \cup {"done"}
<1>1. ASSUME NEW s \in Begun \cup {"script"} \cup Ending \cup {"done"} PROVE s \in Stages
  <2>1. \E i \in 1 .. 27 : s = Order[i]
    BY OrderNames DEF Begun, Ending
  <2>2. QED
    BY <2>1, OrderDomain DEF Stages
<1>2. ASSUME NEW i \in 1 .. 27 PROVE Order[i] \in Begun \cup {"script"} \cup Ending \cup {"done"}
  <2>1. \/ i = 1 \/ i = 2 \/ i = 3 \/ i = 4 \/ i = 5 \/ i = 6 \/ i = 7 \/ i = 8 \/ i = 9
        \/ i = 10 \/ i = 11 \/ i = 12 \/ i = 13 \/ i = 14 \/ i = 15 \/ i = 16 \/ i = 17 \/ i = 18
        \/ i = 19 \/ i = 20 \/ i = 21 \/ i = 22 \/ i = 23 \/ i = 24 \/ i = 25 \/ i = 26 \/ i = 27
    OBVIOUS
  <2>2. QED
    BY <2>1, OrderNames DEF Begun, Ending
<1>3. QED
  BY <1>1, <1>2, OrderDomain DEF Stages

----------------------------------------------------------------------------
(* The inductive invariant *)

\* What the run holds at each stage.
Holds ==
    /\ stage \in {"spawn_handler", "wire", "bridges", "handler_bridges", "tools"} => "main" \in held
    /\ stage \in {"wire", "bridges", "handler_bridges", "tools"} => "handler" \in held
    /\ stage \in {"bridges", "handler_bridges", "tools"} => "logs" \in held
    /\ stage \in {"script", "drain", "join", "unlisten", "disconnect", "main"} =>
         {"main", "handler", "logs"} \subseteq held
    /\ stage = "handler" => {"handler", "logs"} \subseteq held /\ "main" \notin held
    /\ stage = "logs" => "logs" \in held /\ held \cap VMs = {}
    /\ stage = "ts_down" => held \cap {"main", "handler", "logs"} = {}
    /\ stage = "done" /\ script # "none" => held \subseteq {"dispatcher", "listener"}

\* How far the run is: the start has not run anything, and the teardown has lost
\* its servers once they are disconnected.
Phases ==
    /\ stage \in Begun => \A s \in Sessions : session[s] = "new"
    /\ stage \in Begun \cup {"script"} => script = "none" /\ failure = "none" /\ died = {}
    /\ stage \in Ending => script # "none"
    /\ stage \in Cut \/ (stage = "done" /\ script # "none") => servers = {}

\* A session is open on a VM that is there, its ending is queued on a log that is
\* up, and it is lost only with a thread that panicked.
SessionOK(s) ==
    /\ session[s] = "open" => vm[s] \in held
    /\ session[s] = "queued" => "logs" \in held
    /\ session[s] = "lost" => died \cap {vm[s], "logs"} # {}

\* How the script and the teardown may have ended, and that a panic of the main
\* VM is among the failures.
EndsOK ==
    /\ script \in {"none", "ok", "script", "deferred", "cancelled"}
    /\ failure \in {"none", "mcp", "isle"}
    /\ "main" \in died => failure # "none"
    /\ ToldTheTruth

IInv == TypeOK /\ Holds /\ Phases /\ EndsOK /\ \A s \in Sessions : SessionOK(s)

----------------------------------------------------------------------------
(* The start *)

\* A step of the start returns, or goes on to the next stage with what it gained.
LEMMA BeginDoes ==
    ASSUME Begin
    PROVE  /\ stage \in Begun /\ UNCHANGED <<config, work>>
           /\ \/ Refuse
              \/ /\ stage' = After(stage) /\ UNCHANGED result
                 /\ \E g \in SUBSET Resources :
                       /\ held' = held \cup g
                       /\ stage = "spawn_main" => "main" \in g
                       /\ stage = "spawn_handler" => "handler" \in g
                       /\ stage = "wire" => "logs" \in g
<1>1. CASE \/ resolve_sources \/ load_dotenv \/ setup_event_bus \/ connect_mesh \/ start_http_source
           \/ with_rpc_timeout \/ project_root \/ open_sqlite_conn \/ open_sqlite_isle
           \/ prepare_knl_dir
  BY <1>1 DEF resolve_sources, load_dotenv, setup_event_bus, connect_mesh, start_http_source,
     with_rpc_timeout, project_root, open_sqlite_conn, open_sqlite_isle, prepare_knl_dir,
     Try, TryIf, Reach, Refuse, Begun, Resources
<1>2. CASE \/ spawn_isles \/ spawn_handler_isle \/ set_isles \/ register_bridges
           \/ inject_host_tools
  BY <1>2 DEF spawn_isles, spawn_handler_isle, set_isles, register_bridges, inject_host_tools,
     Try, Reach, Refuse, Begun, Resources
<1>3. QED
  BY <1>1, <1>2 DEF Begin

\* The start keeps the invariant: a stage gains what the next ones count on, and
\* a return from it has run no script.
LEMMA BeginStep ==
    ASSUME IInv, Begin PROVE IInv'
<1>1. /\ stage \in Begun /\ script = "none" /\ failure = "none" /\ died = {}
      /\ \A s \in Sessions : session[s] = "new"
      /\ UNCHANGED <<config, servers, session, vm, script, failure, died>>
  BY BeginDoes DEF IInv, Phases, work
<1>2. CASE Refuse
  <2>1. TypeOK'
    BY <1>1, <1>2, StagesAre DEF IInv, TypeOK, Refuse, Outcomes, Resources
  <2>2. Holds' /\ Phases' /\ EndsOK'
    BY <1>1, <1>2 DEF Refuse, Holds, Phases, EndsOK, ToldTheTruth, Begun, Ending, Cut
  <2>3. QED
    BY <1>1, <2>1, <2>2 DEF IInv, SessionOK
<1>3. CASE stage' = After(stage) /\ UNCHANGED result
  <2>1. PICK g \in SUBSET Resources :
           \/ Refuse
           \/ /\ held' = held \cup g
              /\ stage = "spawn_main" => "main" \in g
              /\ stage = "spawn_handler" => "handler" \in g
              /\ stage = "wire" => "logs" \in g
    BY BeginDoes
  <2>2. CASE Refuse
    BY <1>2, <2>2
  <2>3. CASE ~Refuse
    <3>1. stage' \in (Begun \ {"resolve"}) \cup {"script"}
      BY <1>1, <1>3, AfterEach DEF Begun
    <3>2. TypeOK'
      BY <1>1, <1>3, <2>1, <2>3, <3>1, StagesAre DEF IInv, TypeOK
    <3>3. Phases' /\ EndsOK'
      BY <1>1, <3>1 DEF Phases, EndsOK, ToldTheTruth, Begun, Ending, Cut
    <3>4. Holds'
      BY <1>1, <1>3, <2>1, <2>3, AfterEach DEF IInv, Holds, Begun
    <3>5. QED
      BY <1>1, <3>2, <3>3, <3>4 DEF IInv, SessionOK
  <2>4. QED
    BY <2>2, <2>3
<1>4. QED
  BY <1>2, <1>3, BeginDoes

----------------------------------------------------------------------------
(* The script *)

\* A VM a session is opened on is there: the start made both, and only the
\* teardown drops them.
LEMMA MayRunHeld ==
    ASSUME IInv, NEW m \in VMs, MayRun(m) PROVE m \in held
BY DEF IInv, Holds, MayRun, Running, HandlerMayRun, VMs

\* What the script does, and what a handler does for it, keeps the invariant.
LEMMA ScriptStep ==
    ASSUME IInv, Script PROVE IInv'
<1>1. ASSUME NEW s \in Sessions, NEW m \in VMs, OpenSession(s, m) PROVE IInv'
  <2>1. /\ session' = [session EXCEPT ![s] = "open"] /\ vm' = [vm EXCEPT ![s] = m]
        /\ UNCHANGED <<config, stage, held, servers, script, failure, died, result>>
        /\ session[s] = "new" /\ m \in held /\ stage \notin Begun
    BY <1>1, MayRunHeld DEF OpenSession, MayRun, Running, HandlerMayRun, IInv, Phases, Begun
  <2>2. TypeOK' /\ Holds' /\ Phases' /\ EndsOK'
    BY <2>1 DEF IInv, TypeOK, Holds, Phases, EndsOK, ToldTheTruth
  <2>3. ASSUME NEW t \in Sessions PROVE SessionOK(t)'
    BY <2>1 DEF IInv, TypeOK, SessionOK
  <2>4. QED
    BY <2>2, <2>3 DEF IInv
<1>2. ASSUME NEW s \in Sessions, CloseSession(s) PROVE IInv'
  <2>1. /\ session' = [session EXCEPT ![s] = "closed"] /\ session[s] = "open"
        /\ UNCHANGED <<config, stage, held, servers, vm, script, failure, died, result>>
    BY <1>2 DEF CloseSession
  <2>2. TypeOK' /\ Holds' /\ Phases' /\ EndsOK'
    BY <2>1 DEF IInv, TypeOK, Holds, Phases, EndsOK, ToldTheTruth
  <2>3. ASSUME NEW t \in Sessions PROVE SessionOK(t)'
    BY <2>1 DEF IInv, TypeOK, SessionOK
  <2>4. QED
    BY <2>2, <2>3 DEF IInv
<1>3. ASSUME NEW n \in Servers, Connect(n) PROVE IInv'
  <2>1. /\ stage = "script" /\ servers' = servers \cup {n}
        /\ UNCHANGED <<config, stage, held, session, vm, script, failure, died, result>>
    BY <1>3 DEF Connect, Running
  <2>2. TypeOK' /\ Holds' /\ Phases' /\ EndsOK'
    BY <2>1 DEF IInv, TypeOK, Holds, Phases, EndsOK, ToldTheTruth, Begun, Ending, Cut
  <2>3. QED
    BY <2>1, <2>2 DEF IInv, SessionOK
<1>4. CASE execute_script
  <2>1. /\ stage = "script" /\ stage' = "drain"
        /\ script' \in {"ok", "script", "deferred", "cancelled"}
        /\ UNCHANGED <<config, held, servers, session, vm, failure, died, result>>
    BY <1>4, AfterEach DEF execute_script, Running, script_failure
  <2>2. TypeOK'
    BY <2>1, StagesAre DEF IInv, TypeOK, Outcomes, Ending
  <2>3. Holds' /\ Phases' /\ EndsOK'
    BY <2>1 DEF IInv, Holds, Phases, EndsOK, ToldTheTruth, Begun, Ending, Cut
  <2>4. QED
    BY <2>1, <2>2, <2>3 DEF IInv, SessionOK
<1>5. QED
  BY <1>1, <1>2, <1>3, <1>4 DEF Script

----------------------------------------------------------------------------
(* The teardown *)

\* A step that only lets go of a dispatcher or a listener, before the servers
\* are disconnected.
LEMMA LetGoStep ==
    ASSUME IInv, stage \in {"drain", "join", "unlisten"},
           stage' \in {"join", "unlisten", "disconnect"},
           held' \subseteq held, held \ held' \subseteq {"dispatcher", "listener"},
           UNCHANGED <<config, result, work>>
    PROVE  IInv'
<1>1. UNCHANGED <<servers, session, vm, script, failure, died>> /\ script # "none"
  BY DEF IInv, Phases, Ending, work
<1>2. TypeOK'
  BY <1>1, StagesAre DEF IInv, TypeOK, Ending
<1>3. Holds'
  BY DEF IInv, Holds
<1>4. Phases' /\ EndsOK'
  BY <1>1 DEF IInv, Phases, EndsOK, ToldTheTruth, Begun, Ending, Cut
<1>5. ASSUME NEW s \in Sessions PROVE SessionOK(s)'
  <2>1. vm[s] \in VMs
    BY DEF IInv, TypeOK
  <2>2. QED
    BY <1>1, <2>1 DEF IInv, SessionOK, VMs
<1>6. QED
  BY <1>2, <1>3, <1>4, <1>5 DEF IInv

\* A dispatcher or a listener that was told to stop does.
LEMMA StopsStep ==
    ASSUME IInv, dispatcher_stops \/ listener_stops PROVE IInv'
<1>1. PICK r \in {"dispatcher", "listener"} : held' = held \ {r}
  BY DEF dispatcher_stops, listener_stops, Stops
<1>2. UNCHANGED <<config, stage, result, servers, session, vm, script, failure, died>>
  BY DEF dispatcher_stops, listener_stops, Stops, work
<1>3. TypeOK' /\ Phases' /\ EndsOK'
  BY <1>1, <1>2 DEF IInv, TypeOK, Phases, EndsOK, ToldTheTruth
<1>4. Holds'
  BY <1>1, <1>2 DEF IInv, Holds, VMs
<1>5. ASSUME NEW s \in Sessions PROVE SessionOK(s)'
  <2>1. vm[s] \in VMs
    BY DEF IInv, TypeOK
  <2>2. QED
    BY <1>1, <1>2, <2>1 DEF IInv, SessionOK, VMs
<1>6. QED
  BY <1>3, <1>4, <1>5 DEF IInv

\* disconnect_all: the servers are gone, and a failure is told.
LEMMA DisconnectStep ==
    ASSUME IInv, disconnect_all PROVE IInv'
<1>1. /\ stage = "disconnect" /\ stage' = "main" /\ servers' = {}
      /\ failure' \in {failure, "mcp"} /\ (failure' = "none" => failure = "none")
      /\ UNCHANGED <<config, held, session, vm, script, died, result>>
  BY AfterEach DEF disconnect_all, record
<1>2. TypeOK'
  BY <1>1, StagesAre DEF IInv, TypeOK, Outcomes, Ending
<1>3. Holds' /\ Phases' /\ EndsOK'
  BY <1>1 DEF IInv, Holds, Phases, EndsOK, ToldTheTruth, Begun, Ending, Cut
<1>4. QED
  BY <1>1, <1>2, <1>3 DEF IInv, SessionOK

\* The drop of a VM while the logs are up: what was open on it is queued, or lost
\* with its thread; what is open on the other one is left alone.
LEMMA ShutVMDoes ==
    ASSUME IInv, NEW m \in VMs, NEW told, "logs" \in held, ShutVM(m, told)
    PROVE  /\ stage = m /\ stage' = After(m) /\ held' = held \ {m}
           /\ died' \in {died, died \cup {m}}
           /\ session' \in [Sessions -> {"new", "open", "closed", "queued", "landed", "failed", "lost"}]
           /\ \A s \in Sessions :
                 \/ session'[s] = session[s] /\ ~(session[s] = "open" /\ vm[s] = m)
                 \/ session'[s] = "queued"
                 \/ session'[s] = "lost" /\ m \in died' /\ vm[s] = m
           /\ UNCHANGED <<config, servers, vm, script, result>>
<1>1. /\ stage = m /\ stage' = After(m) /\ held' = held \ {m}
      /\ died' \in {died, died \cup {m}}
      /\ UNCHANGED <<config, servers, vm, script, result>>
  BY DEF ShutVM
<1>2. ASSUME NEW s \in Sessions
      PROVE  /\ session'[s] \in {session[s], "queued", "lost"}
             /\ \/ session'[s] = session[s] /\ ~(session[s] = "open" /\ vm[s] = m)
                \/ session'[s] = "queued"
                \/ session'[s] = "lost" /\ m \in died' /\ vm[s] = m
  <2>1. CASE session' = [t \in Sessions |-> submit(t, m)]
    BY <2>1 DEF submit
  <2>2. CASE /\ session' = [t \in Sessions |-> IF session[t] = "open" /\ vm[t] = m
                                               THEN "lost" ELSE session[t]]
             /\ died' = died \cup {m}
    BY <2>2
  <2>3. QED
    BY <2>1, <2>2 DEF ShutVM
<1>3. session' = [s \in Sessions |-> session'[s]]
  BY DEF ShutVM
<1>4. session' \in [Sessions -> {"new", "open", "closed", "queued", "landed", "failed", "lost"}]
  BY <1>2, <1>3 DEF IInv, TypeOK
<1>5. QED
  BY <1>1, <1>2, <1>4

\* The sessions after the drop of a VM.
LEMMA ShutVMSessions ==
    ASSUME IInv, NEW m \in VMs, NEW told, "logs" \in held, ShutVM(m, told), NEW s \in Sessions
    PROVE  SessionOK(s)'
<1>1. vm[s] \in VMs /\ SessionOK(s)
  BY DEF IInv, TypeOK
<1>2. "logs" \in held'
  BY ShutVMDoes DEF VMs
<1>3. QED
  BY <1>1, <1>2, ShutVMDoes DEF SessionOK

\* main.shutdown: a panic of the main VM is told.
LEMMA MainStep ==
    ASSUME IInv, main_shutdown PROVE IInv'
<1>1. stage = "main" /\ {"main", "handler", "logs"} \subseteq held /\ ShutVM("main", TRUE)
  BY DEF main_shutdown, ShutVM, IInv, Holds
<1>2. /\ stage' = "handler" /\ held' = held \ {"main"} /\ died' \in {died, died \cup {"main"}}
      /\ session' \in [Sessions -> {"new", "open", "closed", "queued", "landed", "failed", "lost"}]
      /\ UNCHANGED <<config, servers, vm, script, result>>
  BY <1>1, ShutVMDoes, AfterEach DEF VMs
<1>3. /\ failure' \in {failure, "isle"} /\ (failure' = "none" => failure = "none")
      /\ died' # died => failure' # "none"
  BY <1>1 DEF ShutVM, record
<1>4. TypeOK'
  BY <1>2, <1>3, StagesAre DEF IInv, TypeOK, Outcomes, Ending, VMs
<1>5. Holds'
  BY <1>1, <1>2 DEF IInv, Holds
<1>6. Phases'
  BY <1>1, <1>2 DEF IInv, Phases, Begun, Ending, Cut
<1>7. EndsOK'
  BY <1>2, <1>3 DEF IInv, EndsOK, ToldTheTruth
<1>8. ASSUME NEW s \in Sessions PROVE SessionOK(s)'
  BY <1>1, ShutVMSessions DEF VMs
<1>9. QED
  BY <1>4, <1>5, <1>6, <1>7, <1>8 DEF IInv

\* handler.shutdown: the last VM.
LEMMA HandlerStep ==
    ASSUME IInv, handler_shutdown PROVE IInv'
<1>1. /\ stage = "handler" /\ {"handler", "logs"} \subseteq held /\ "main" \notin held
      /\ ShutVM("handler", FALSE)
  BY DEF handler_shutdown, ShutVM, IInv, Holds
<1>2. /\ stage' = "logs" /\ held' = held \ {"handler"} /\ died' \in {died, died \cup {"handler"}}
      /\ session' \in [Sessions -> {"new", "open", "closed", "queued", "landed", "failed", "lost"}]
      /\ UNCHANGED <<config, servers, vm, script, result>>
  BY <1>1, ShutVMDoes, AfterEach DEF VMs
<1>3. UNCHANGED failure
  BY <1>1 DEF ShutVM
<1>4. TypeOK'
  BY <1>2, <1>3, StagesAre DEF IInv, TypeOK, Ending, VMs
<1>5. Holds'
  BY <1>1, <1>2 DEF IInv, Holds, VMs
<1>6. Phases'
  BY <1>1, <1>2 DEF IInv, Phases, Begun, Ending, Cut
<1>7. EndsOK'
  BY <1>2, <1>3 DEF IInv, EndsOK, ToldTheTruth
<1>8. ASSUME NEW s \in Sessions PROVE SessionOK(s)'
  BY <1>1, ShutVMSessions DEF VMs
<1>9. QED
  BY <1>4, <1>5, <1>6, <1>7, <1>8 DEF IInv

\* logs.shutdown: what was queued has been run, or is lost with the log's thread.
LEMMA LogsStep ==
    ASSUME IInv, logs_shutdown PROVE IInv'
<1>1. PICK ran \in SUBSET Queued, kept \in SUBSET Queued :
          /\ kept \subseteq ran
          /\ session' = [s \in Sessions |-> CASE s \in kept -> "landed"
                                              [] s \in ran \ kept -> "failed"
                                              [] s \in Queued \ ran -> "lost"
                                              [] OTHER -> session[s]]
          /\ \/ died' = died \cup {"logs"}
             \/ ran = Queued /\ died' = died
  BY DEF logs_shutdown
<1>a. ASSUME NEW s \in Sessions
      PROVE  \/ session'[s] \in {"landed", "failed"}
             \/ session'[s] = "lost" /\ "logs" \in died'
             \/ session'[s] = session[s] /\ session[s] # "queued"
  BY <1>1 DEF Queued
<1>b. session' = [s \in Sessions |-> session'[s]]
  BY <1>1
<1>c. died' \in {died, died \cup {"logs"}}
  BY <1>1
<1>2. /\ stage = "logs" /\ stage' = "ts_down" /\ held' = held \ {"logs"}
      /\ UNCHANGED <<config, servers, vm, script, failure, result>>
  BY AfterEach DEF logs_shutdown
<1>3. held \cap VMs = {}
  BY <1>2 DEF IInv, Holds
<1>4. TypeOK'
  <2>1. ASSUME NEW s \in Sessions
        PROVE  session'[s] \in {"new", "open", "closed", "queued", "landed", "failed", "lost"}
    BY <1>a DEF IInv, TypeOK
  <2>2. session' \in [Sessions -> {"new", "open", "closed", "queued", "landed", "failed", "lost"}]
    BY <1>b, <2>1
  <2>3. died' \subseteq VMs \cup {"logs", "ts"}
    BY <1>c DEF IInv, TypeOK
  <2>4. QED
    BY <1>2, <2>2, <2>3, StagesAre DEF IInv, TypeOK, Ending
<1>5. Holds'
  BY <1>2, <1>3 DEF Holds, VMs
<1>6. Phases'
  BY <1>2 DEF IInv, Phases, Begun, Ending, Cut
<1>7. EndsOK'
  BY <1>c, <1>2 DEF IInv, EndsOK, ToldTheTruth
<1>8. ASSUME NEW s \in Sessions PROVE SessionOK(s)'
  <2>1. vm[s] \in VMs /\ SessionOK(s)
    BY DEF IInv, TypeOK
  <2>2. session[s] # "open"
    BY <1>3, <2>1 DEF SessionOK
  <2>3. QED
    BY <1>a, <1>c, <1>2, <2>1, <2>2 DEF SessionOK
<1>9. QED
  BY <1>4, <1>5, <1>6, <1>7, <1>8 DEF IInv

\* ts_shutdown, and the answer: a failure of the teardown, or how the script ended.
LEMMA LastStep ==
    ASSUME IInv, ts_shutdown PROVE IInv'
<1>1. /\ stage = "ts_down" /\ stage' = "done" /\ held' = held \ {"ts", "mesh"}
      /\ died' \in {died, died \cup {"ts"}}
      /\ result' = IF failure # "none" THEN failure ELSE script
      /\ UNCHANGED <<config, servers, session, vm, script, failure>>
  BY DEF ts_shutdown
<1>2. TypeOK'
  BY <1>1, StagesAre DEF IInv, TypeOK, Outcomes
<1>3. Holds'
  BY <1>1 DEF IInv, TypeOK, Holds, Resources
<1>4. Phases'
  BY <1>1 DEF IInv, Phases, Begun, Ending, Cut
<1>5. EndsOK'
  BY <1>1 DEF IInv, Phases, EndsOK, ToldTheTruth, Ending
<1>6. ASSUME NEW s \in Sessions PROVE SessionOK(s)'
  <2>1. vm[s] \in VMs /\ SessionOK(s)
    BY DEF IInv, TypeOK
  <2>2. QED
    BY <1>1, <2>1 DEF SessionOK, VMs
<1>7. QED
  BY <1>2, <1>3, <1>4, <1>5, <1>6 DEF IInv

----------------------------------------------------------------------------
(* The theorems *)

\* The inductive invariant: what the run holds at each stage.
THEOREM Inductive == Spec => []IInv
<1>1. Init => IInv
  <2> SUFFICES ASSUME Init PROVE IInv
    OBVIOUS
  <2>1. TypeOK
    BY StagesAre DEF Init, TypeOK, Begun, Outcomes, VMs
  <2>2. Holds /\ Phases /\ EndsOK
    BY DEF Init, Holds, Phases, EndsOK, ToldTheTruth, Begun, Ending, Cut
  <2>3. QED
    BY <2>1, <2>2 DEF Init, IInv, SessionOK
<1>2. IInv /\ [Next]_vars => IInv'
  <2> SUFFICES ASSUME IInv, [Next]_vars PROVE IInv'
    OBVIOUS
  <2>1. CASE drain_auto_serve
    BY <2>1, LetGoStep DEF drain_auto_serve
  <2>2. CASE listener_shutdown
    BY <2>2, LetGoStep DEF listener_shutdown
  <2>3. CASE Done \/ UNCHANGED vars
    BY <2>3 DEF Done, vars, IInv, TypeOK, Holds, Phases, EndsOK, ToldTheTruth, SessionOK
  <2>4. QED
    BY <2>1, <2>2, <2>3, BeginStep, ScriptStep, DisconnectStep, MainStep, HandlerStep, LogsStep,
       LastStep, StopsStep DEF Next, End
<1>3. QED
  BY <1>1, <1>2, PTL DEF Spec

\* Whatever fails on the way, the ending of every session the script left open has
\* been run by its log when the run is over (it landed, or it failed with a warning)
\* unless its VM's or the log's thread panicked; a log is up while a VM may still hand it an ending; and the run leaves nothing
\* but what it gave up on (run_capture, the teardown).
THEOREM TeardownInvariant == Spec => []TeardownKeeps
<1>1. IInv => TeardownKeeps
  <2> SUFFICES ASSUME IInv PROVE TeardownKeeps
    OBVIOUS
  <2>1. TypeOK
    BY DEF IInv
  <2>2. EndingsRun
    <3> SUFFICES ASSUME stage = "done", script # "none", NEW s \in Sessions
                 PROVE  /\ session[s] \in {"new", "closed", "landed", "failed", "lost"}
                        /\ session[s] = "lost" => died \cap {vm[s], "logs"} # {}
      BY DEF EndingsRun
    <3>1. held \subseteq {"dispatcher", "listener"} /\ vm[s] \in VMs /\ SessionOK(s)
      BY DEF IInv, Holds, TypeOK
    <3>2. QED
      BY <2>1, <3>1 DEF SessionOK, VMs, TypeOK
  <2>3. LogsOutliveVMs
    BY StagesAre DEF IInv, TypeOK, Holds, Phases, LogsOutliveVMs, VMs, Begun, Ending
  <2>4. LetGo
    BY DEF IInv, Holds, Phases, LetGo
  <2>5. QED
    BY <2>1, <2>2, <2>3, <2>4 DEF TeardownKeeps
<1>2. QED
  BY <1>1, Inductive, PTL

\* The caller is told the truth, and of several failures of the teardown the
\* first (run_capture's result).
THEOREM TrueReport == Spec => FailuresReported
<1>1. IInv => ToldTheTruth
  BY DEF IInv, EndsOK
<1>2. ASSUME [Next]_vars PROVE [failure # "none" => failure' = failure]_vars
  <2>1. CASE Begin
    BY <2>1, BeginDoes DEF work
  <2>2. CASE Script
    BY <2>2 DEF Script, OpenSession, CloseSession, Connect, execute_script
  <2>3. CASE End
    BY <2>3 DEF End, drain_auto_serve, listener_shutdown, disconnect_all, main_shutdown,
       handler_shutdown, ShutVM, record, logs_shutdown, ts_shutdown, work
  <2>4. CASE dispatcher_stops \/ listener_stops \/ Done \/ UNCHANGED vars
    BY <2>4 DEF dispatcher_stops, listener_stops, Stops, Done, vars, work
  <2>5. QED
    BY <1>2, <2>1, <2>2, <2>3, <2>4 DEF Next
<1>3. QED
  BY <1>1, <1>2, Inductive, PTL DEF Spec, FailuresReported, FirstFailureStays
=============================================================================
