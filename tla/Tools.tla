------------------------------- MODULE Tools -------------------------------
(***************************************************************************)
(* Six components that do not share state with each other: the spec        *)
(* runner, the command line around a run, the commands of sh,              *)
(* `agent-block vendor`, the set-up of the two VMs and the kernel's event  *)
(* store.  Each initial state chooses one part, which keeps its whole      *)
(* state in one record, and a step is a step of that part; what a part     *)
(* promises is said of every behaviour of it.  MCTools adds the components *)
(* about which nothing is proved and gives the constants their values.     *)
(***************************************************************************)
EXTENDS Integers, Sequences, FiniteSets

CONSTANTS InLua, InTeal, MaxEdits, MaxClock,            \* SpecRunner
          Dirs, Levels,                                 \* Startup
          Commands, Labels, Natures, Grace, MaxTicks,   \* Shell
          Carried, Places, Runs, MaxChanges,            \* Modules
          Extras, HostTools, Copies, Named, MaxCalls,   \* VmSetup
          StreamIds, Writers, Readers, Logs, Requests, Page, MaxEvents  \* KnlStore, with MaxCalls

VARIABLES part,  \* the component of this behaviour
          its    \* its record

vars == <<part, its>>

Sp == INSTANCE SpecRunner WITH sp <- its, Lua <- InLua, Teal <- InTeal
St == INSTANCE Startup WITH st <- its
Sh == INSTANCE Shell WITH sh <- its
Md == INSTANCE Modules WITH md <- its, Embedded <- Carried, MaxEdits <- MaxChanges
Vm == INSTANCE VmSetup WITH vm <- its
Ks == INSTANCE KnlStore WITH ks <- its, Streams <- StreamIds

----------------------------------------------------------------------------
(* What the constants are *)

\* A module is written in one language.
ASSUME SpecsAssumption == InLua \cap InTeal = {}

\* Process groups have numbers, and a command that is asked to end is given time for it.
ASSUME ShellAssumption == Grace \in Nat \ {0} /\ Commands \subseteq Nat

\* The modules the binary carries have names, and a place where their copies go.
Files ==
    /\ IsFiniteSet(Carried)
    /\ IsFiniteSet(Places)
    /\ \A e \in Carried : e \in Seq(STRING) /\ Len(e) > 0
    /\ \A p \in Places : p = [tier |-> p.tier, name |-> p.name, form |-> p.form]
    /\ \A e \in Carried : Md!module_path(<<e[1]>>) \in Places
    /\ \A e \in Carried : Len(e) > 1 => Md!SubPath(e) \in Places
ASSUME FilesAssumption == Files

\* A copy of a tools module that is a table is a chain of Lua tables: a table has one value for
\* a name.
Chain(levels) ==
    /\ Len(levels) \in Nat /\ DOMAIN levels = 1..Len(levels)
    /\ \A k \in 1..Len(levels) : \A x, y \in levels[k] : x[1] = y[1] => x[2] = y[2]
Tables == \A copy \in Copies : copy.found = "table" => Chain(copy.levels)
ASSUME TablesAssumption == Tables

\* What the store is given.  A row of the log is in the first schema, where the beat may be in the
\* envelope, or in the current one, where it is not; an event a caller hands over is in the current
\* one.  A request is one the trait lets a caller make: a split names the other stream and has an
\* event for the caller's own, and an ending is one event.
IsRow(row) ==
    /\ row = [kind |-> row.kind, ver |-> row.ver, beat |-> row.beat, of |-> row.of, open |-> row.open]
    /\ row.kind \in Ks!AllKinds /\ row.ver \in {1, 2} /\ row.beat \in {"none", "envelope", "meta"}
    /\ row.ver = 2 => row.beat # "envelope"
IsLog(l) == Len(l) \in Nat /\ l = [k \in 1..Len(l) |-> l[k]] /\ \A k \in 1..Len(l) : IsRow(l[k])
IsEvent(e) == e.kind \in Ks!AllKinds /\ e.beat \in {"none", "meta"}
IsRequest(req) ==
    /\ req.stream \in StreamIds
    /\ Len(req.events) \in Nat /\ req.events = [k \in 1..Len(req.events) |-> req.events[k]]
    /\ \A k \in 1..Len(req.events) : IsEvent(req.events[k])
    /\ req.op = "append_if_many" => req.other \in StreamIds /\ Len(req.events) > 0
    /\ req.op = "append_with_open_children" => Len(req.events) = 1
AsTheTraitSays ==
    /\ Page \in Nat \ {0}
    /\ \A log \in Logs : log = [s \in StreamIds |-> log[s]] /\ \A s \in StreamIds : IsLog(log[s])
    /\ \A req \in Requests : IsRequest(req)
ASSUME StoreAssumption == AsTheTraitSays

----------------------------------------------------------------------------

Init ==
    \/ part = "sp" /\ Sp!Init
    \/ part = "st" /\ St!Init
    \/ part = "sh" /\ Sh!Init
    \/ part = "md" /\ Md!Init
    \/ part = "vm" /\ Vm!Init
    \/ part = "ks" /\ Ks!Init

Next ==
    /\ UNCHANGED part
    /\ \/ part = "sp" /\ Sp!Next
       \/ part = "st" /\ St!Next
       \/ part = "sh" /\ Sh!Next
       \/ part = "md" /\ Md!Next
       \/ part = "vm" /\ Vm!Next
       \/ part = "ks" /\ Ks!Next

Spec == Init /\ [][Next]_vars

----------------------------------------------------------------------------
(* What each part promises *)

\* The spec runner reports success only when it found specs and each of them ran and passed, on
\* the Lua of the source in the tree or on the project's own copy.
GreenIsTrue == part = "sp" => Sp!GreenIsTrue

\* A block in a sandbox writes and dials only where it may, or does not run; the sandbox leaves the
\* run its own state; the file of --result holds this run's value exactly when the exit code is 0.
RunsAsConfigured == part = "st" => St!RunsAsConfigured

\* Commands: one ended by sh.kill says so to whoever awaits it and nobody else's does; a timeout
\* leaves nothing of the group; a signalled host that has exited left no command that was awaited
\* or dropped; a host run as a command and ended by its label leaves none of its own.
CommandsEnd == part = "sh" => Sh!CommandsEnd

\* `agent-block vendor` without --force overwrites no file the user had when it began, has written
\* nothing when it is refused, and when it went well its copy is what `require` finds, sub-modules
\* included.
VendoringIsSafe == part = "md" => Md!VendoringIsSafe

\* Each step of a VM's set-up finds what it reads and no value of a configuration takes the place
\* of a bridge; every tool it promises can be called where the script runs; what is installed of a
\* tools module is what the copy in force answers; a listing names every tool or is refused.
VmsAreWhole == part = "vm" => Vm!VmsAreWhole

\* The SQLite store does what the abstract store promises, step by step (KnlStore refines
\* EventStoreSpi): whole or not at all, decided on what is there when it lands.  And a reader that
\* is through holds a gap-free run of its stream, while writers went on.
StoreKeepsItsWord ==
    /\ part = "ks" => Ks!Promise!Init
    /\ [][part = "ks" => (Ks!Promise!Next \/ UNCHANGED Ks!Promise!vars)]_vars
    /\ [](part = "ks" => Ks!ExportWhole)
=============================================================================
