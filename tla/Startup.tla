------------------------------ MODULE Startup ------------------------------
(***************************************************************************)
(* One `agent-block` process from its arguments to its exit code           *)
(* (crates/agent-block/src/main.rs), with the sandbox it enters before it  *)
(* starts a thread (crates/agent-block-core/src/sandbox.rs) and the places *)
(* of its state (bridge/config.rs).  A restriction holds for the thread    *)
(* that takes it and for the threads started after it.                     *)
(***************************************************************************)
EXTENDS Naturals, FiniteSets

CONSTANTS Dirs,    \* directories: "project", "home" ($HOME/.agent-block), "moved", "tmp", "extra", "other"
          Levels   \* Landlock levels of kernels: 0 for none (or not Linux), 4 with network rules

\* cli: the arguments; env: the variables that matter; exists: directories that are there;
\* kernel: its level; unfiltered: no seccomp filter is compiled for the architecture; sandbox: the settings; held: what the main
\* thread may still do; workers: the same for the runtime's threads; wrote, used: where the block
\* wrote last and by what means it left the process; file: what --result names holds.
VARIABLE st

Unset == "unset"
Free == [writable |-> Dirs, tcp |-> TRUE, ring |-> TRUE]
Layer(a, b) == IF a # Unset THEN a ELSE b

\* What --config may name, the subcommands, and the arguments as a whole.
RunConfig == {Unset, "bare", "prompt", "broken"}
Command == {"run", "vendor"}
Cli == [command : Command, sandbox : BOOLEAN, named : {"script", "block", "both", "neither"},
        prompt : {Unset, "flag", "file"}, config : RunConfig, result : BOOLEAN]

\* Bound: the sandbox, the kernels and the environments are tried on a plain command line.
Plain(cli) == cli.named = "script" /\ cli.prompt = Unset /\ cli.config = Unset

Init ==
    \E cli \in Cli, kernel \in Levels, unfiltered \in BOOLEAN, exists \in {Dirs, Dirs \ {"home", "moved"}} :
        /\ cli.command = "vendor" => Plain([cli EXCEPT !.named = "script"])
        /\ Plain(cli) \/ (kernel = 4 /\ exists = Dirs /\ ~cli.sandbox)
        /\ unfiltered => kernel = 4 /\ exists = Dirs /\ cli.sandbox
        /\ st = [at |-> "parse", cli |-> cli, kernel |-> kernel, unfiltered |-> unfiltered,
                 exists |-> exists,
                 env |-> [sandbox |-> Unset, tcp |-> Unset, fs_rw |-> Unset, home |-> Unset, kv |-> Unset],
                 sandbox |-> [enabled |-> FALSE, fs_rw |-> {}, tcp |-> TRUE],
                 held |-> Free, workers |-> Free, prompt |-> Unset,
                 wrote |-> "project", used |-> {}, file |-> "old", code |-> 99]

Exit(n) == st' = [st EXCEPT !.at = "exit", !.code = n]

----------------------------------------------------------------------------
(* Where state lives *)

base_dir == IF st.env.home # Unset THEN st.env.home ELSE "home"
kv_path == IF st.env.kv # Unset THEN st.env.kv ELSE base_dir
knl_path == base_dir

----------------------------------------------------------------------------
(* The sandbox *)

is_truthy(raw) == raw \notin {"", "0"}
from_parts(flag, env) ==
    [enabled |-> flag \/ (env.sandbox # Unset /\ is_truthy(env.sandbox)),
     fs_rw |-> {env.fs_rw} \ {Unset, ""},
     tcp |-> env.tcp = Unset \/ is_truthy(env.tcp)]

\* A mistake the runs catch: the state directory is taken to be the one under $HOME.
HomeOnly == "home"

state_home == IF st.env.home # Unset THEN st.env.home ELSE "home"

\* A directory that is not there yet is not granted.
write_allowlist == ({"project", state_home, "tmp"} \cup st.sandbox.fs_rw) \cap st.exists

\* What cannot be had in full is refused, and with it the run.
SandboxError == Exit(1)

Boundary == [writable |-> write_allowlist, tcp |-> st.sandbox.tcp, ring |-> TRUE]

\* A mistake the runs catch: a kernel that enforces nothing is warned about and accepted.
ApplyAnyway ==
    /\ st.at = "sandbox"
    /\ st' = [st EXCEPT !.at = "seccomp",
                        !.held = IF st.sandbox.enabled /\ st.kernel \in 1..4 THEN Boundary ELSE Free]

\* Off, or not to be had, or the boundary: the file rules as far as the kernel goes, the denial of
\* TCP in full.
apply ==
    /\ st.at = "sandbox"
    /\ \/ ~st.sandbox.enabled /\ st' = [st EXCEPT !.at = "runtime"]
       \/ st.sandbox.enabled /\ SandboxError
       \/ /\ st.sandbox.enabled
          /\ st.kernel \in 1..4
          /\ st.sandbox.tcp \/ st.kernel >= 4
          /\ st' = [st EXCEPT !.at = "seccomp", !.held = Boundary]

\* Then the filter on io_uring, whose ring no filter of system calls sees into; every other call
\* is let through.  Where no filter is compiled it goes on without, saying so.
deny_io_uring ==
    /\ st.at = "seccomp"
    /\ \/ st' = [st EXCEPT !.at = "runtime", !.held.ring = st.unfiltered]
       \/ ~st.unfiltered /\ SandboxError

----------------------------------------------------------------------------
(* From the arguments to the run *)

\* Two that exclude one another are no command line.
parse ==
    /\ st.at = "parse" /\ st.cli.named = "both"
    /\ Exit(2)

resolve_project ==
    /\ st.at = "parse" /\ st.cli.named # "both"
    /\ \/ st' = [st EXCEPT !.at = "dotenv"]
       \/ Exit(1)

\* What the environment already has stays; the project's .env fills in the rest.
load_dotenv(outer, file) ==
    /\ st.at = "dotenv"
    /\ Plain(st.cli) \/ (outer = st.env /\ file = st.env)
    /\ LET env == [v \in DOMAIN outer |-> Layer(outer[v], file[v])]
       IN  st' = [st EXCEPT !.at = "sandbox", !.env = env,
                            !.sandbox = from_parts(st.cli.sandbox, env)]

\* The threads of the runtime take over what the main thread is held to.
runtime ==
    /\ st.at = "runtime"
    /\ st' = [st EXCEPT !.at = IF st.cli.command = "run" THEN "select" ELSE "command",
                        !.workers = st.held]

subcommand ==
    /\ st.at = "command"
    /\ \/ Exit(0)
       \/ Exit(1)

\* A script, or a block that is registered.
select ==
    /\ st.at = "select"
    /\ \/ st.cli.named = "neither" /\ Exit(1)
       \/ st.cli.named = "block" /\ Exit(1)
       \/ st.cli.named \in {"script", "block"} /\ st' = [st EXCEPT !.at = "config"]

\* A flag before the file of --config; a prompt from that file beside --prompt-file is refused.
read_run_config ==
    /\ st.at = "config"
    /\ LET inline == IF st.cli.prompt = "flag" THEN "flag"
                     ELSE IF st.cli.config = "prompt" THEN "config" ELSE Unset
           file == st.cli.prompt = "file"
       IN  \/ (st.cli.config = "broken" \/ (inline # Unset /\ file)) /\ Exit(1)
           \/ file /\ Exit(1)
           \/ /\ st.cli.config # "broken" /\ ~(inline # Unset /\ file)
              /\ st' = [st EXCEPT !.at = "stores", !.prompt = IF file THEN "file" ELSE inline]

parse_labels ==
    /\ st.at = "config"
    /\ Exit(1)

\* The run opens its stores first, creating the directories that are missing.
open_stores ==
    /\ st.at = "stores"
    /\ \/ {kv_path, knl_path} \subseteq st.workers.writable /\ st' = [st EXCEPT !.at = "run"]
       \/ ~({kv_path, knl_path} \subseteq st.workers.writable) /\ Exit(1)

\* The block writes files, dials out (tcp) and sets up a ring from a thread of the runtime.
Writes(dir) ==
    /\ st.at = "run" /\ dir \in st.workers.writable
    /\ st' = [st EXCEPT !.wrote = dir]
Uses(means) ==
    /\ st.at = "run" /\ st.workers[means]
    /\ st' = [st EXCEPT !.used = @ \cup {means}]

\* A mistake the runs catch: the result is written however the block ended.
ResultAnyway ==
    /\ st.at = "run"
    /\ \E code \in {0, 1, 75} :
            st' = [st EXCEPT !.at = "exit", !.code = code,
                             !.file = IF st.cli.result THEN "new" ELSE @]

\* Deferred exits with 75, any other failure with 1; only a value is written to --result.
run_capture ==
    /\ st.at = "run"
    /\ \/ Exit(75)
       \/ Exit(1)
       \/ ~st.cli.result /\ Exit(0)
       \/ st.cli.result /\ st' = [st EXCEPT !.at = "exit", !.code = 0, !.file = "new"]
       \/ st.cli.result /\ \E left \in {"old", "torn"} :
            st' = [st EXCEPT !.at = "exit", !.code = 1, !.file = left]

Envs == [sandbox : {Unset, "0", "1"}, tcp : {Unset, "0"}, fs_rw : {Unset, "extra"},
         home : {Unset, "moved"}, kv : {Unset, "other"}]
Next ==
    \/ parse \/ resolve_project
    \/ \E outer \in Envs, file \in {e \in Envs : {e.tcp, e.kv, e.fs_rw} = {Unset}} :
            load_dotenv(outer, file)
    \/ apply \/ deny_io_uring \/ runtime \/ subcommand \/ select \/ read_run_config \/ parse_labels
    \/ open_stores \/ run_capture
    \/ \E means \in {"tcp", "ring"} : Uses(means)
    \/ \E dir \in Dirs : Writes(dir)

Spec == Init /\ [][Next]_st

----------------------------------------------------------------------------
(* Properties *)

\* When --sandbox or the environment asked for it, whatever the kernel can do, a block that runs
\* writes only in the project, the state directory, /tmp and the directories it was given, dials
\* no one where TCP was denied, and has no io_uring on the architectures a filter is compiled for; a
\* boundary that is not to be had ends the process.
Contained ==
    (st.cli.sandbox \/ st.env.sandbox = "1") =>
        /\ st.wrote \in {"project", base_dir, "tmp"} \cup ({st.env.fs_rw} \ {Unset})
        /\ "ring" \in st.used => st.unfiltered
        /\ st.env.tcp = "0" => "tcp" \notin st.used

\* The sandbox does not shut a run out of its own state: where the state directory was there when
\* it started and no store was placed elsewhere, the stores open.
StateStaysOpen ==
    (st.at = "stores" /\ base_dir \in st.exists /\ st.env.kv = Unset) =>
        {kv_path, knl_path} \subseteq st.workers.writable

\* The file of --result holds this run's value exactly when the process says it went well.
ResultIsTrue ==
    st.at = "exit" => (st.file = "new" <=> (st.code = 0 /\ st.cli.result /\ st.cli.command = "run"))

\* A process does what its configuration says: it stays inside the boundary, reaches its own state
\* and tells the truth about how it went.
RunsAsConfigured == Contained /\ StateStaysOpen /\ ResultIsTrue
=============================================================================
