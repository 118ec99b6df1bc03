------------------------------ MODULE VmSetup ------------------------------
(***************************************************************************)
(* How the two Lua VMs of a run get their globals (build_isle_init,        *)
(* register_bridges, inject_host_tools of host.rs; bridge/mod.rs), where   *)
(* the Lua half of a bridge comes from (load_tools_module), and the tool   *)
(* registry each of them keeps (bridge/tool.rs).                           *)
(*                                                                         *)
(* The main VM runs the script, the handler VM what the script hands to    *)
(* bus.on.  A step of the setup that fails ends the run.                   *)
(***************************************************************************)
EXTENDS Naturals, Sequences, FiniteSets

CONSTANTS Extras,    \* extra_globals of a configuration: sets of <<name, what>>, where what is "fitting" for
                     \* a value of the type the set-up looks that name up with, "value" for another
                     \* value, or "unconvertible"
          HostTools, \* host_tools of a configuration: sequences of names
          Copies,    \* what `require` finds for the tools modules, one standing for all four
          Named,     \* tools a script registers: [name, described]
          MaxCalls   \* bound: calls to the tool registry

\* stage: the next step; g: the globals of each VM, by who set them; std: what is on std.fs;
\* copy, extra, host: the configuration; tools: the registries; listed: the last answer of tool.schema;
\* called: what the last tool.call came to.
VARIABLE vm

VMs == {"main", "handler"}

----------------------------------------------------------------------------
(* The steps, in their order *)

InitSteps == <<"names", "std", "overrides", "extra", "path", "registry">>
NonBus == <<"mesh", "sh", "tool", "fs", "log", "mcp", "http", "llm", "knl", "kv", "sql", "ts", "task">>
On(v, steps) == [k \in DOMAIN steps |-> [on |-> v, do |-> steps[k]]]

\* A mistake the runs catch: mesh registers first.
MeshFirst == On("main", NonBus \o <<"bus">>)
\* A mistake the runs catch: the configuration's globals go in last.
ExtraLast == On("main", <<"bus">> \o NonBus \o <<"extra">>)
\* bus comes before mesh, whose `on` is an alias of bus.on; the handler VM has neither.
register_all == On("main", <<"bus">> \o NonBus)
register_all_handler_side == On("handler", <<"bus_dispatcher", "mcp_dispatcher">> \o NonBus)
\* A mistake the runs catch: the host's tools go to the other VM.
InjectOnHandler == <<[on |-> "handler", do |-> "host_tools"]>>
inject == <<[on |-> "main", do |-> "host_tools"]>>

Steps == On("main", InitSteps) \o On("handler", InitSteps) \o register_all \o register_all_handler_side \o inject

\* What the set-up looks up among the globals Lua itself brings.
Library == {"package", "require", "pcall", "tostring", "type", "pairs", "getmetatable", "rawget"}

Init ==
    \E extra \in Extras, host \in HostTools, copy \in Copies, connected \in BOOLEAN :
        vm = [stage |-> 1, failed |-> "no", g |-> [v \in VMs |-> {<<name, "lua">> : name \in Library}], std |-> [v \in VMs |-> {}], copy |-> copy,
              extra |-> extra, host |-> host, connected |-> connected, tools |-> [v \in VMs |-> {}],
              listed |-> {}, called |-> {}, calls |-> 0]

Setter(v, name) == {x[2] : x \in {y \in vm.g[v] : y[1] = name}}
Has(v, name) == Setter(v, name) # {}

\* What load_tools_module and the walk behind it look up.
ToolsNeeds ==
    {"std", "require", "pcall", "type", "pairs", "getmetatable"}
      \cup (IF vm.copy.found = "table" /\ Len(vm.copy.levels) > 1 THEN {"rawget"} ELSE {})
      \cup (IF vm.copy.found \in {"nowhere", "error"} THEN {"tostring"} ELSE {})
      \cup (IF vm.copy.found = "nowhere" THEN {"package"} ELSE {})

\* The globals a step reads; what the source of a copy reads of its own is part of what `require` finds.
Needs(v, step) ==
    CASE step \in {"overrides", "task"} -> {"std"}
      [] step \in {"path", "registry"} -> {"package"}
      [] step = "mesh" -> {"_SCRIPT_NAME"} \cup (IF v = "main" /\ vm.connected THEN {"bus"} ELSE {})
      [] step \in {"tool", "mcp", "http"} -> {"_SCRIPT_NAME"}
      [] step = "log" -> {"_SCRIPT_NAME", "std"}
      [] step \in {"fs", "kv", "sql", "ts"} -> ToolsNeeds
      [] step = "host_tools" -> {"_TOOL_REGISTRY"}
      [] OTHER -> {}
\* A value of the configuration's own serves when it has the type the name is looked up with: a
\* string or a number for _SCRIPT_NAME, a table with the tables the set-up extends for std and
\* package; it never has a function.
Fits(name) == name \in {"_SCRIPT_NAME", "std", "package"} /\ <<name, "fitting">> \in vm.extra
Met(v, need) == Has(v, need) /\ (Setter(v, need) = {"sdk"} => Fits(need))

\* The globals a step sets.
Sets(step) ==
    CASE step = "names" -> {"_SCRIPT_NAME"}
      [] step = "bus_dispatcher" -> {"__bus_dispatch"}
      [] step = "mcp_dispatcher" -> {"__mcp_dispatch"}
      [] step = "tool" -> {"tool", "_TOOL_REGISTRY"}
      [] step \in {"std", "bus", "mesh", "sh", "log", "mcp", "http", "llm", "knl"} -> {step}
      [] OTHER -> {}

\* extra_globals go in behind the batteries and before every bridge.
extra_globals(v, globals) ==
    {x \in globals : \A e \in vm.extra : e[1] # x[1]} \cup {<<e[1], "sdk">> : e \in vm.extra}

----------------------------------------------------------------------------
(* The Lua half of a bridge *)

\* A module is the tables its __index chain goes through, nearest first: each a set of
\* <<name, "function" | "other">>.
Embedded == <<{<<"tool_specs", "function">>, <<"register_tools", "function">>, <<"shapes", "other">>}>>

\* A mistake the runs catch: what the module inherits is not looked at.
OwnOnly(levels) == {x[1] : x \in {y \in levels[1] : y[2] = "function"}}
\* The walk: a name seen at a nearer level is not taken from a farther one.
INSTALL_TOOLS_MODULE(levels) ==
    LET walk[k \in 0..Len(levels)] ==
            IF k = 0 THEN [seen |-> {}, target |-> {}]
            ELSE LET new == {x \in levels[k] : x[1] \notin walk[k - 1].seen}
                 IN  [seen |-> walk[k - 1].seen \cup {x[1] : x \in new},
                      target |-> walk[k - 1].target \cup {x[1] : x \in {y \in new : y[2] = "function"}}]
    IN  walk[Len(levels)].target

\* A mistake the runs catch: whatever goes wrong with a copy, the embedded module is there.
FallsBack(copy) == IF copy.found = "table" THEN {copy.levels} ELSE {Embedded}
\* Only a name that resolves nowhere falls back; an error in a copy, or a copy that is no table, is
\* the project's to see.
load_tools_module(copy) ==
    CASE copy.found = "nowhere" -> {Embedded}
      [] copy.found = "table" -> {copy.levels}
      [] OTHER -> {}

----------------------------------------------------------------------------
(* Setting up *)

Fresh(name, by) == [name |-> name, by |-> by, described |-> TRUE]
Step == Steps[vm.stage]
Refuses(v, step) ==
    \/ \E need \in Needs(v, step) : ~Met(v, need)
    \/ step = "extra" /\ \E e \in vm.extra : e[2] = "unconvertible"
    \/ step \in {"fs", "kv", "sql", "ts"} /\ load_tools_module(vm.copy) = {}

SetUp ==
    /\ vm.failed = "no" /\ vm.stage <= Len(Steps)
    /\ LET v == Step.on
           step == Step.do
           set == Sets(step)
       IN  IF Refuses(v, step)
           THEN vm' = [vm EXCEPT !.failed = step]
           ELSE vm' = [vm EXCEPT !.stage = @ + 1,
                    !.g[v] = IF step = "extra" THEN extra_globals(v, @)
                             ELSE {x \in @ : x[1] \notin set} \cup {<<name, "host">> : name \in set},
                    !.std[v] = IF step = "fs" THEN UNION {INSTALL_TOOLS_MODULE(m) : m \in load_tools_module(vm.copy)} ELSE @,
                    !.tools[v] = CASE step = "tool" -> {}
                                   [] step = "host_tools" -> {Fresh(vm.host[k], "rust") : k \in DOMAIN vm.host}
                                   [] OTHER -> @]

Running == vm.failed = "no" /\ vm.stage > Len(Steps)

----------------------------------------------------------------------------
(* The tool registry of a VM *)

Call == Running /\ vm.calls < MaxCalls

\* A name registered again replaces what stood there.
register(v, t) ==
    /\ Call
    /\ vm' = [vm EXCEPT !.tools[v] = {x \in @ : x.name # t.name} \cup {[name |-> t.name, by |-> "lua", described |-> t.described]},
                        !.calls = @ + 1, !.listed = {}]
\* The entry that stands when the call is made is the one that runs, whatever is registered while it does.
call(v, name) ==
    /\ Call
    /\ LET entry == {x \in vm.tools[v] : x.name = name}
       IN  \E how \in IF entry = {} THEN {"not found"} ELSE {"value", "error"} :
                vm' = [vm EXCEPT !.calls = @ + 1, !.called = {[on |-> v, name |-> name, how |-> how]}]
list(v) == {x.name : x \in vm.tools[v]}

\* A mistake the runs catch: a tool that cannot be described is left out.
SkipsUndescribed(v) ==
    /\ Call
    /\ vm' = [vm EXCEPT !.calls = @ + 1, !.listed = {<<v, {x.name : x \in {y \in vm.tools[v] : y.described}}>>}]
\* One tool without a description fails the listing.
schema(v) ==
    /\ Call
    /\ vm' = [vm EXCEPT !.calls = @ + 1,
                        !.listed = IF \A x \in vm.tools[v] : x.described THEN {<<v, list(v)>>} ELSE {}]

\* What a configuration is said to expose, before anything runs.
inspect_tools == {vm.host[k] : k \in DOMAIN vm.host}

Next ==
    \/ SetUp
    \/ \E v \in VMs : \/ schema(v)
                     \/ \E t \in Named : register(v, t) \/ call(v, t.name)

Spec == Init /\ [][Next]_vm

----------------------------------------------------------------------------
(* Properties *)

\* The steps come in an order in which each finds what it reads: a set-up fails because a value of
\* the configuration cannot be converted, because it has put a value that does not serve in the
\* place of a global the failing step reads, or because of a copy of a tools module; for nothing else.
SetupFindsItsNeeds ==
    vm.failed # "no" =>
        \/ vm.failed = "extra" /\ \E e \in vm.extra : e[2] = "unconvertible"
        \/ \E e \in vm.extra : e[1] \in Needs(Step.on, vm.failed) /\ ~Fits(e[1])
        \/ vm.failed \in {"fs", "kv", "sql", "ts"} /\ vm.copy.found \notin {"nowhere", "table"}

\* And a set-up that goes through had what it looks up everywhere: no value of the configuration
\* that does not serve has been taken for the global it stands in for.
WhatServes ==
    Running =>
        \A e \in vm.extra :
            e[1] \in {"package", "_SCRIPT_NAME", "std", "require", "pcall", "type", "pairs", "getmetatable"} => Fits(e[1])

\* When the script starts every tool the configuration promises is there to be called, on the VM
\* the script runs on, and stays there whatever the script registers.
HostToolsStand ==
    /\ Running => inspect_tools \subseteq list("main")
    /\ \A c \in vm.called : (c.on = "main" /\ c.name \in inspect_tools) => c.how # "not found"

\* No value a configuration brings takes the place of a bridge, on either VM.
BridgesStand ==
    Running => \A v \in VMs : \A name \in {"tool", "_TOOL_REGISTRY", "log", "mcp", "http", "llm", "knl", "sh", "mesh"} :
        Setter(v, name) = {"host"}

\* A copy of a tools module that is broken stops the run; a run that goes on has installed what the
\* copy answers for each name, inherited functions included, and no name it hides.
CopiesInForce ==
    Running =>
        /\ vm.copy.found \in {"nowhere", "table"}
        /\ LET levels == IF vm.copy.found = "table" THEN vm.copy.levels ELSE Embedded
               names == UNION {{x[1] : x \in levels[k]} : k \in DOMAIN levels}
               answers(name) ==
                    LET k == CHOOSE k \in DOMAIN levels :
                                /\ \E x \in levels[k] : x[1] = name
                                /\ \A j \in 1..k - 1 : \A x \in levels[j] : x[1] # name
                    IN  {x[2] : x \in {y \in levels[k] : y[1] = name}}
           IN  \A v \in VMs : vm.std[v] = {name \in names : answers(name) = {"function"}}

\* A listing names every tool that can be called on that VM, or is refused: none is left out quietly.
SchemaWhole ==
    \A l \in vm.listed : l[2] = list(l[1])

\* What the set-up of the VMs and their registries promise.
VmsAreWhole ==
    SetupFindsItsNeeds /\ WhatServes /\ BridgesStand /\ HostToolsStand /\ CopiesInForce /\ SchemaWhole
=============================================================================
