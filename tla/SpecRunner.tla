----------------------------- MODULE SpecRunner -----------------------------
(***************************************************************************)
(* lua-spec-runner (crates/lua-spec-runner/src/main.rs): the specs of the  *)
(* repository, or of a project's vendored modules.  A module written in    *)
(* Teal is checked as the Lua the built binary embeds, written out by      *)
(* `agent-block vendor` before the specs run.  Meanwhile sources are       *)
(* edited and the binary is built; a file's stamp is the clock's reading.  *)
(***************************************************************************)
EXTENDS Naturals, FiniteSets

CONSTANTS Lua,       \* modules of the repository written in Lua
          Teal,      \* modules of the repository written in Teal
          MaxEdits,  \* bound: edits, and so versions of a module
          MaxClock   \* bound: readings of the clock

\* tree: version and stamp of each module's source; bin: what the binary embeds and its stamp;
\* building: the versions a build has read, {} for none; project: the modules the project vendored;
\* copies: the Lua written out; seen: the sources as the runner found them; found, specs, passed,
\* ran: the specs, the ones left, the ones that passed, and what each ran against;
\* slipped: a source was edited while a build ran, or by the same reading of the clock.
VARIABLE sp

Modules == Lua \cup Teal
None == {}

\* --project, and a filter on the names of specs, one at most; anything else is no command line.
Cli == [project : BOOLEAN, filter : SUBSET Modules]

Init ==
    \E cli \in Cli, vendored \in SUBSET Modules, built \in BOOLEAN :
        /\ cli.project \/ vendored = {}
        /\ sp = [at |-> "start", cli |-> cli, clock |-> 0, edits |-> 0,
                 tree |-> [m \in Modules |-> [ver |-> 0, stamp |-> 0]],
                 bin |-> IF built THEN {[of |-> [m \in Teal |-> 0], stamp |-> 0]} ELSE None,
                 building |-> None, project |-> vendored, copies |-> None,
                 seen |-> [m \in Modules |-> 0], specs |-> {}, found |-> {}, passed |-> {},
                 failed |-> 0, ran |-> [m \in Modules |-> <<"none", 0>>], slipped |-> FALSE,
                 code |-> 99]

Exit(n) == sp' = [sp EXCEPT !.at = "exit", !.code = n]

----------------------------------------------------------------------------
(* The runner *)

parse_args ==
    /\ sp.at = "start"
    /\ \/ Exit(1)
       \/ sp' = [sp EXCEPT !.at = IF sp.cli.project THEN "dirs" ELSE "vendor"]

\* Every source of the module counts, and one newer than the binary stops the run.
module_sources(m) == sp.tree[m].stamp

\* A mistake the runs catch: the binary is taken as it is.
VendorAsBuilt ==
    /\ sp.at = "vendor"
    /\ \E b \in sp.bin :
            sp' = [sp EXCEPT !.at = "dirs", !.copies = {b.of},
                             !.seen = [m \in Modules |-> sp.tree[m].ver]]

\* The stamps are compared; what was written out before goes, and the binary writes its modules.
vendor_teal_modules ==
    /\ sp.at = "vendor"
    /\ \/ sp.bin = None /\ Exit(1)
       \/ \E b \in sp.bin :
            \/ (\E m \in Teal : module_sources(m) > b.stamp) /\ Exit(1)
            \/ Exit(1)
            \/ /\ \A m \in Teal : module_sources(m) <= b.stamp
               /\ sp' = [sp EXCEPT !.at = "dirs", !.copies = {b.of},
                                   !.seen = [m \in Modules |-> sp.tree[m].ver]]

\* A repository's run reads every module's specs, a project's those of the modules it vendored.
spec_dirs == Modules
project_spec_dirs == sp.project
discover(dirs) == {m \in dirs : m \in sp.cli.filter}

\* Nothing found is a failure, and so is a directory that cannot be read.
Discovers ==
    /\ sp.at = "dirs"
    /\ LET specs == discover(IF sp.cli.project THEN project_spec_dirs ELSE spec_dirs)
       IN  \/ specs = {} /\ Exit(1)
           \/ Exit(101)
           \/ /\ specs # {}
              /\ sp' = [sp EXCEPT !.at = "run", !.specs = specs, !.found = specs]

\* Where `require` finds a module: the project's copies, the repository's Lua, the written Lua.
Found(m) ==
    CASE sp.cli.project /\ m \in sp.project -> {<<"project", 0>>}
      [] ~(sp.cli.project /\ m \in sp.project) /\ m \in Lua -> {<<"tree", sp.tree[m].ver>>}
      [] OTHER -> {<<"binary", of[m]>> : of \in sp.copies}

\* A mistake the runs catch: a file that does not load adds no failure.
UnloadedIsNone(m) ==
    /\ sp.at = "run" /\ m \in sp.specs
    /\ \/ \E what \in Found(m) :
            sp' = [sp EXCEPT !.specs = @ \ {m}, !.passed = @ \cup {m}, !.ran[m] = what]
       \/ sp' = [sp EXCEPT !.specs = @ \ {m}]

\* One spec: its module is found and all its tests pass, some fail, or the file does not run.
run_tests(m) ==
    /\ sp.at = "run" /\ m \in sp.specs
    /\ \/ \E what \in Found(m) :
            sp' = [sp EXCEPT !.specs = @ \ {m}, !.passed = @ \cup {m}, !.ran[m] = what]
       \/ sp' = [sp EXCEPT !.specs = @ \ {m}, !.failed = @ + 1]

main ==
    /\ sp.at = "run" /\ sp.specs = {}
    /\ Exit(IF sp.failed = 0 THEN 0 ELSE 1)

----------------------------------------------------------------------------
(* Whoever works on the sources meanwhile *)

\* Bound: sources change in a run of the repository's specs, until the specs run.
Working == ~sp.cli.project /\ sp.at \in {"start", "vendor", "dirs"}
Edit(m) ==
    /\ Working /\ sp.edits < MaxEdits
    /\ sp' = [sp EXCEPT !.edits = @ + 1, !.tree[m] = [ver |-> @.ver + 1, stamp |-> sp.clock],
                        !.slipped = @ \/ sp.building # None
                                       \/ (\E b \in sp.bin : b.stamp = sp.clock)]

\* A build reads the sources first and stamps the binary last.
BuildStarts ==
    /\ Working /\ sp.building = None
    /\ \A b \in sp.bin : \E m \in Teal : sp.tree[m].ver # b.of[m]
    /\ sp' = [sp EXCEPT !.building = {[m \in Teal |-> sp.tree[m].ver]}]
BuildEnds ==
    /\ Working
    /\ \E of \in sp.building :
            sp' = [sp EXCEPT !.building = None, !.bin = {[of |-> of, stamp |-> sp.clock]}]
Tick == Working /\ sp.clock < MaxClock /\ sp' = [sp EXCEPT !.clock = @ + 1]

Next ==
    \/ parse_args \/ vendor_teal_modules \/ Discovers \/ main
    \/ \E m \in Modules : run_tests(m) \/ Edit(m)
    \/ BuildStarts \/ BuildEnds \/ Tick

Spec == Init /\ [][Next]_sp

----------------------------------------------------------------------------
(* Properties *)

\* A run that reports success found specs, ran every one of them and saw each of them pass: a
\* filter that matches nothing and a file that never ran are failures.
GreenMeansPassed ==
    (sp.at = "exit" /\ sp.code = 0) => sp.found # {} /\ sp.passed = sp.found

\* The specs of a Teal module run against the Lua of the source that was in the tree when the run
\* looked, although they run against what a binary built earlier embeds, unless the source was
\* edited during the build or within the grain of the stamps; those of a vendored module run
\* against the project's copy.
RanWhatStands ==
    \A m \in sp.passed :
        /\ sp.cli.project => sp.ran[m][1] = "project"
        /\ (~sp.cli.project /\ m \in Teal /\ ~sp.slipped) => sp.ran[m] = <<"binary", sp.seen[m]>>

\* What a green run says is true: the specs passed, and on what they were meant to run on.
GreenIsTrue == GreenMeansPassed /\ RanWhatStands
=============================================================================
