---------------------------- MODULE ToolsProofs ----------------------------
(***************************************************************************)
(* Proofs about the components that do not share state with each other and *)
(* are checked together by MCTools: the spec runner (SpecRunner), the      *)
(* command line around a run (Startup), the commands of sh (Shell),        *)
(* `agent-block vendor` (Modules), the set-up of the two VMs (VmSetup) and *)
(* the kernel's event store (KnlStore), which refines what the trait       *)
(* EventStore promises (EventStoreSpi).                                    *)
(*                                                                         *)
(* A part's proof has the shape of its record, the parts of its inductive  *)
(* invariant, one lemma for each action and the theorem.                   *)
(***************************************************************************)
EXTENDS Tools, FiniteSetTheorems, SequenceTheorems, WellFoundedInduction, TLAPS

\* A non-empty set of naturals has a least member: what an argument by minimal counterexample needs,
\* of the tick at which a command is due (Shell) and of the levels of a module's walk (VmSetup).
LEMMA Smallest ==
    ASSUME NEW T, T \subseteq Nat, T # {}
    PROVE  \E x \in T : \A y \in T : x <= y
<1>1. IsWellFoundedOn(OpToRel(<, Nat), Nat)
  BY NatLessThanWellFounded
<1>2. PICK x \in T : \A y \in T : ~(<<y, x>> \in OpToRel(<, Nat))
  BY <1>1, WFMin
<1>3. \A y \in T : ~(y < x)
  BY <1>2 DEF OpToRel
<1>4. QED
  BY <1>3

\* A behaviour is one of one part, from its first state on.
LEMMA OnePart ==
    ASSUME [Next]_vars
    PROVE  /\ part' = part
           /\ part = "sp" => [Sp!Next]_its
           /\ part = "st" => [St!Next]_its
           /\ part = "sh" => [Sh!Next]_its
           /\ part = "md" => [Md!Next]_its
           /\ part = "vm" => [Vm!Next]_its
           /\ part = "ks" => [Ks!Next]_its
<1>1. CASE Next
  BY <1>1 DEF Next
<1>2. CASE UNCHANGED vars
  BY <1>2 DEF vars
<1>3. QED
  BY <1>1, <1>2

----------------------------------------------------------------------------
(* The spec runner *)

\* The record of a run has these fields.
SpShape ==
    its = [at |-> its.at, cli |-> its.cli, clock |-> its.clock, edits |-> its.edits,
           tree |-> its.tree, bin |-> its.bin, building |-> its.building, project |-> its.project,
           copies |-> its.copies, seen |-> its.seen, specs |-> its.specs, found |-> its.found,
           passed |-> its.passed, failed |-> its.failed, ran |-> its.ran, slipped |-> its.slipped,
           code |-> its.code]

\* The stamps tell: where nothing slipped between a look and a stamp, a source that is not newer
\* than the binary is the one the binary was built from, and a build under way has read what stands.
StampsTell ==
    /\ its.clock \in Nat
    /\ its.tree \in [Sp!Modules -> [ver : Nat, stamp : Nat]]
    /\ its.bin \in SUBSET [of : [InTeal -> Nat], stamp : Nat]
    /\ its.building \in SUBSET [InTeal -> Nat]
    /\ \A b \in its.bin : b.stamp <= its.clock
    /\ ~its.slipped => \A m \in InTeal :
            /\ \A b \in its.bin : b.of[m] = its.tree[m].ver \/ b.stamp < its.tree[m].stamp
            /\ \A of \in its.building : of[m] = its.tree[m].ver

\* The Lua that was written out is that of the sources the runner saw.
CopiesTrue ==
    ~its.slipped => \A m \in InTeal, of \in its.copies : of[m] = its.seen[m]

\* Every spec that was found is left to run, passed or counted as failed.
Accounted ==
    /\ its.failed \in Nat
    /\ its.ran = [m \in Sp!Modules |-> its.ran[m]]
    /\ its.project \subseteq Sp!Modules
    /\ its.found \subseteq Sp!Modules
    /\ its.passed \subseteq its.found
    /\ its.specs \subseteq its.found
    /\ its.failed = 0 => its.found = its.passed \cup its.specs
    /\ its.at = "run" => its.found # {}
    /\ its.at \in {"start", "vendor", "dirs"} => its.found = {} /\ its.failed = 0
    /\ its.cli.project => its.found \subseteq its.project

\* The inductive invariant of the spec runner.
SpInv == SpShape /\ StampsTell /\ CopiesTrue /\ Accounted /\ Sp!GreenIsTrue

\* A tree built once, and nothing run yet.
LEMMA SpInitially == Sp!Init => SpInv
<1>1. Sp!Init => SpShape /\ StampsTell /\ CopiesTrue
  BY DEF Sp!Init, SpShape, StampsTell, CopiesTrue, Sp!Modules, Sp!None
<1>2. Sp!Init => Accounted
  BY DEF Sp!Init, Accounted
<1>3. Sp!Init => Sp!GreenIsTrue
  BY DEF Sp!Init, Sp!GreenIsTrue, Sp!GreenMeansPassed, Sp!RanWhatStands
<1>4. QED
  BY <1>1, <1>2, <1>3 DEF SpInv

\* Editing a source stamps it later than every binary there is, or the edit is one that slipped.
LEMMA SpEdits ==
    ASSUME SpInv, NEW m \in Sp!Modules, Sp!Edit(m)
    PROVE  SpInv'
<1>1. SpShape'
  BY DEF SpInv, SpShape, Sp!Edit
<1>2. /\ its'.tree = [its.tree EXCEPT ![m] = [ver |-> @.ver + 1, stamp |-> its.clock]]
      /\ its'.clock = its.clock /\ its'.bin = its.bin /\ its'.building = its.building
      /\ ~its'.slipped => 
            ~its.slipped /\ its.building = {} /\ \A b \in its.bin : b.stamp # its.clock
  BY DEF SpInv, SpShape, Sp!Edit, Sp!None
<1>3. its'.tree \in [Sp!Modules -> [ver : Nat, stamp : Nat]]
  BY <1>2 DEF SpInv, StampsTell
<1>4. ASSUME ~its'.slipped, NEW t \in InTeal, NEW b \in its'.bin
      PROVE  b.of[t] = its'.tree[t].ver \/ b.stamp < its'.tree[t].stamp
  <2>0. t \in Sp!Modules /\ b \in its.bin /\ b \in [of : [InTeal -> Nat], stamp : Nat]
    BY <1>2, <1>4 DEF SpInv, StampsTell, Sp!Modules
  <2>1. its.clock \in Nat /\ b.stamp \in Nat /\ b.stamp < its.clock
    <3>1. its.clock \in Nat /\ b.stamp \in Nat /\ b.stamp <= its.clock
      BY <2>0 DEF SpInv, StampsTell
    <3>2. b.stamp # its.clock
      BY <1>2, <1>4, <2>0
    <3>3. QED
      BY <3>1, <3>2
  <2>2. CASE t = m
    BY <1>2, <2>0, <2>1, <2>2 DEF SpInv, StampsTell
  <2>3. CASE t # m
    BY <1>2, <1>4, <2>0, <2>1, <2>3 DEF SpInv, StampsTell
  <2>4. QED
    BY <2>2, <2>3
<1>5. StampsTell'
  BY <1>2, <1>3, <1>4 DEF SpInv, StampsTell
<1>6. CopiesTrue'
  BY DEF SpInv, SpShape, CopiesTrue, Sp!Edit
<1>7. Accounted' /\ Sp!GreenIsTrue'
  BY DEF SpInv, SpShape, Accounted, Sp!Edit, Sp!Working, Sp!GreenIsTrue, Sp!GreenMeansPassed,
         Sp!RanWhatStands
<1>8. QED
  BY <1>1, <1>5, <1>6, <1>7 DEF SpInv

\* What a step that leaves the sources and the binary alone keeps.
SourcesStay ==
    /\ its'.clock = its.clock /\ its'.tree = its.tree /\ its'.bin = its.bin
    /\ its'.building = its.building /\ its'.slipped = its.slipped
\* What a step that leaves the written Lua and the specs alone keeps.
SpecsStay ==
    /\ its'.cli = its.cli /\ its'.project = its.project /\ its'.seen = its.seen
    /\ its'.specs = its.specs /\ its'.found = its.found /\ its'.passed = its.passed
    /\ its'.failed = its.failed /\ its'.ran = its.ran

\* A step that leaves the sources and the binary alone keeps what their stamps tell.
LEMMA SourcesStayTold == StampsTell /\ SourcesStay => StampsTell'
  BY DEF StampsTell, SourcesStay

\* A step that runs no spec, and exits only with a failure, keeps the account and the verdict.
LEMMA SpecsStayGreen ==
    ASSUME Accounted, Sp!GreenIsTrue, SpecsStay, its'.slipped = its.slipped,
           \/ its'.at = its.at /\ its'.code = its.code
           \/ its.at \in {"start", "vendor", "dirs"} /\ its'.at \in {"start", "vendor", "dirs"}
           \/ its'.at = "exit" /\ its'.code # 0
    PROVE  Accounted' /\ Sp!GreenIsTrue'
<1>1. Accounted'
  BY DEF Accounted, SpecsStay
<1>2. Sp!GreenMeansPassed'
  BY DEF Accounted, SpecsStay, Sp!GreenIsTrue, Sp!GreenMeansPassed
<1>3. Sp!RanWhatStands'
  BY DEF SpecsStay, Sp!GreenIsTrue, Sp!RanWhatStands
<1>4. QED
  BY <1>1, <1>2, <1>3 DEF Sp!GreenIsTrue

\* cargo reading the sources, writing the binary, and time going by.
LEMMA SpBuilds ==
    ASSUME SpInv, Sp!BuildStarts \/ Sp!BuildEnds \/ Sp!Tick
    PROVE  SpInv'
<1>1. /\ SpShape' /\ SpecsStay
      /\ its'.at = its.at /\ its'.code = its.code /\ its'.slipped = its.slipped
      /\ its'.copies = its.copies
      /\ its'.tree = its.tree
  <2>1. SpShape
    BY DEF SpInv
  <2>2. CASE Sp!BuildStarts
    BY <2>1, <2>2 DEF SpShape, SpecsStay, Sp!BuildStarts
  <2>3. CASE Sp!BuildEnds
    BY <2>1, <2>3 DEF SpShape, SpecsStay, Sp!BuildEnds
  <2>4. CASE Sp!Tick
    BY <2>1, <2>4 DEF SpShape, SpecsStay, Sp!Tick
  <2>5. QED
    BY <2>2, <2>3, <2>4
<1>2. CopiesTrue'
  BY <1>1 DEF SpInv, CopiesTrue, SpecsStay
<1>3. Accounted' /\ Sp!GreenIsTrue'
  BY <1>1, SpecsStayGreen DEF SpInv
<1>4. ASSUME Sp!BuildStarts PROVE StampsTell'
  <2>1. /\ its'.clock = its.clock /\ its'.bin = its.bin
        /\ its'.building = {[m \in InTeal |-> its.tree[m].ver]}
    BY <1>4 DEF SpInv, SpShape, Sp!BuildStarts
  <2>2. [m \in InTeal |-> its.tree[m].ver] \in [InTeal -> Nat]
    BY DEF SpInv, StampsTell, Sp!Modules
  <2>3. QED
    BY <1>1, <2>1, <2>2 DEF SpInv, StampsTell
<1>5. ASSUME Sp!BuildEnds PROVE StampsTell'
  <2>1. PICK of \in its.building :
            /\ its'.clock = its.clock /\ its'.building = {}
            /\ its'.bin = {[of |-> of, stamp |-> its.clock]}
    BY <1>5 DEF SpInv, SpShape, Sp!BuildEnds, Sp!None
  <2>2. QED
    BY <1>1, <2>1 DEF SpInv, StampsTell
<1>6. ASSUME Sp!Tick PROVE StampsTell'
  <2>1. its'.clock = its.clock + 1 /\ its'.bin = its.bin /\ its'.building = its.building
    BY <1>6 DEF SpInv, SpShape, Sp!Tick
  <2>2. \A b \in its.bin : b.stamp \in Nat
    BY DEF SpInv, StampsTell
  <2>3. QED
    BY <1>1, <2>1, <2>2 DEF SpInv, StampsTell
<1>7. QED
  BY <1>1, <1>2, <1>3, <1>4, <1>5, <1>6 DEF SpInv

\* An exit that reports a failure.
LEMMA SpExits ==
    ASSUME SpInv, Sp!Exit(1) \/ Sp!Exit(101)
    PROVE  SpInv'
<1>1. /\ SpShape' /\ SpecsStay /\ SourcesStay
      /\ its'.at = "exit" /\ its'.code # 0 /\ its'.copies = its.copies
  <2>1. PICK n \in {1, 101} : its' = [its EXCEPT !.at = "exit", !.code = n]
    BY DEF Sp!Exit
  <2>2. n # 0
    BY <2>1
  <2>3. SpShape
    BY DEF SpInv
  <2>4. its'.at = "exit" /\ its'.code = n /\ its'.copies = its.copies /\ SpShape'
    BY <2>1, <2>3 DEF SpShape
  <2>5. SpecsStay /\ SourcesStay
    BY <2>1, <2>3 DEF SpShape, SpecsStay, SourcesStay
  <2>6. QED
    BY <2>2, <2>4, <2>5
<1>2. CopiesTrue'
  BY <1>1 DEF SpInv, CopiesTrue, SpecsStay, SourcesStay
<1>3. QED
  BY <1>1, <1>2, SpecsStayGreen, SourcesStayTold DEF SpInv, SourcesStay

\* vendor_teal_modules: the binary writes the copies when no source is newer than it.
LEMMA SpVendors ==
    ASSUME SpInv, Sp!vendor_teal_modules
    PROVE  SpInv'
<1>1. SUFFICES ASSUME NEW b \in its.bin, its.at = "vendor",
                      \A m \in InTeal : its.tree[m].stamp <= b.stamp,
                      its' = [its EXCEPT !.at = "dirs", !.copies = {b.of},
                                       !.seen = [m \in Sp!Modules |-> its.tree[m].ver]]
               PROVE  SpInv'
  <2>1. CASE Sp!Exit(1)
    BY <2>1, SpExits
  <2>2. CASE ~Sp!Exit(1)
    BY <2>2, <1>1 DEF Sp!vendor_teal_modules, Sp!module_sources
  <2>3. QED
    BY <2>1, <2>2
<1>2. /\ SpShape' /\ SourcesStay /\ its'.at = "dirs" /\ its'.code = its.code
      /\ its'.copies = {b.of} /\ its'.seen = [m \in Sp!Modules |-> its.tree[m].ver]
      /\ its'.cli = its.cli /\ its'.project = its.project
      /\ its'.specs = its.specs /\ its'.found = its.found /\ its'.passed = its.passed
      /\ its'.failed = its.failed /\ its'.ran = its.ran
  BY <1>1 DEF SpInv, SpShape, SourcesStay
<1>3. CopiesTrue'
  <2>1. SUFFICES ASSUME ~its.slipped, NEW m \in InTeal PROVE b.of[m] = its.tree[m].ver
    BY <1>2 DEF CopiesTrue, SourcesStay, Sp!Modules
  <2>2. b.stamp \in Nat /\ its.tree[m].stamp \in Nat
    BY DEF SpInv, StampsTell, Sp!Modules
  <2>3. QED
    BY <1>1, <2>1, <2>2 DEF SpInv, StampsTell
<1>4. Accounted' /\ Sp!GreenIsTrue'
  <2>1. its'.found = {} /\ its'.passed = {}
    BY <1>1, <1>2 DEF SpInv, Accounted
  <2>2. QED
    BY <1>1, <1>2, <2>1 DEF SpInv, Accounted, Sp!GreenIsTrue, Sp!GreenMeansPassed, Sp!RanWhatStands
<1>5. QED
  BY <1>2, <1>3, <1>4, SourcesStayTold DEF SpInv

\* parse_args: the specs of this repository need copies, those of a project do not.
LEMMA SpStarts ==
    ASSUME SpInv, Sp!parse_args
    PROVE  SpInv'
<1>1. SUFFICES ASSUME its.at = "start",
                      its' = [its EXCEPT !.at = IF its.cli.project THEN "dirs" ELSE "vendor"]
               PROVE  SpInv'
  BY SpExits DEF Sp!parse_args
<1>2. /\ SpShape' /\ SpecsStay /\ SourcesStay
      /\ its'.at \in {"dirs", "vendor"} /\ its'.copies = its.copies
  BY <1>1 DEF SpInv, SpShape, SpecsStay, SourcesStay
<1>3. CopiesTrue'
  BY <1>2 DEF SpInv, CopiesTrue, SpecsStay, SourcesStay
<1>4. QED
  BY <1>1, <1>2, <1>3, SpecsStayGreen, SourcesStayTold DEF SpInv, SourcesStay

\* discover: the specs that are found are those still to run; none at all is a failure.
LEMMA SpDiscovers ==
    ASSUME SpInv, Sp!Discovers
    PROVE  SpInv'
<1> DEFINE specs == Sp!discover(IF its.cli.project THEN Sp!project_spec_dirs ELSE Sp!spec_dirs)
<1>1. SUFFICES ASSUME its.at = "dirs", specs # {},
                      its' = [its EXCEPT !.at = "run", !.specs = specs, !.found = specs]
               PROVE  SpInv'
  BY SpExits DEF Sp!Discovers
<1>2. /\ SpShape' /\ SourcesStay /\ its'.at = "run"
      /\ its'.copies = its.copies /\ its'.seen = its.seen
      /\ its'.cli = its.cli /\ its'.project = its.project
      /\ its'.specs = specs /\ its'.found = specs /\ its'.passed = its.passed
      /\ its'.failed = its.failed /\ its'.ran = its.ran
  BY <1>1 DEF SpInv, SpShape, SourcesStay
<1>3. /\ specs \subseteq (IF its.cli.project THEN its.project ELSE Sp!Modules)
      /\ its.project \subseteq Sp!Modules
  BY DEF Sp!discover, Sp!project_spec_dirs, Sp!spec_dirs, SpInv, Accounted
<1>4. CopiesTrue'
  BY <1>2 DEF SpInv, CopiesTrue, SourcesStay
<1>5. its.passed = {} /\ its.failed = 0
  BY <1>1 DEF SpInv, Accounted
<1> HIDE DEF specs
<1>6. Accounted' /\ Sp!GreenIsTrue'
  BY <1>1, <1>2, <1>3, <1>5 DEF SpInv, Accounted, Sp!GreenIsTrue, Sp!GreenMeansPassed,
     Sp!RanWhatStands
<1>7. QED
  BY <1>2, <1>4, <1>6, SourcesStayTold DEF SpInv

\* The end of main: 0 only with nothing left to run, nothing failed and something found.
LEMMA SpMain ==
    ASSUME SpInv, Sp!main
    PROVE  SpInv'
<1>1. SUFFICES ASSUME its.at = "run", its.specs = {}, its.failed = 0, Sp!Exit(0)
               PROVE  SpInv'
  BY SpExits DEF Sp!main
<1>2. /\ SpShape' /\ SpecsStay /\ SourcesStay
      /\ its'.at = "exit" /\ its'.code = 0 /\ its'.copies = its.copies
  BY <1>1 DEF SpInv, SpShape, SpecsStay, SourcesStay, Sp!Exit
<1>3. CopiesTrue'
  BY <1>2 DEF SpInv, CopiesTrue, SpecsStay, SourcesStay
<1>4. Accounted'
  BY <1>2 DEF SpInv, Accounted, SpecsStay
<1>5. Sp!GreenMeansPassed'
  BY <1>1, <1>2 DEF SpInv, Accounted, Sp!GreenMeansPassed, SpecsStay
<1>6. Sp!RanWhatStands'
  BY <1>2 DEF SpInv, Sp!GreenIsTrue, Sp!RanWhatStands, SpecsStay, SourcesStay
<1>7. QED
  BY <1>2, <1>3, <1>4, <1>5, <1>6, SourcesStayTold DEF SpInv, Sp!GreenIsTrue

\* One spec is run, on a copy or on a file of the project.
LEMMA SpRuns ==
    ASSUME InLua \cap InTeal = {}, SpInv, NEW m \in Sp!Modules, Sp!run_tests(m)
    PROVE  SpInv'
<1> DEFINE Passes ==
        /\ its'.passed = its.passed \cup {m} /\ its'.failed = its.failed
        /\ \E what \in Sp!Found(m) : its'.ran = [its.ran EXCEPT ![m] = what]
    DoesNot == its'.passed = its.passed /\ its'.ran = its.ran /\ its'.failed = its.failed + 1
    Rest == /\ SpShape' /\ SourcesStay /\ its'.at = "run" /\ m \in its.specs
            /\ its'.copies = its.copies /\ its'.seen = its.seen
            /\ its'.cli = its.cli /\ its'.project = its.project
            /\ its'.specs = its.specs \ {m} /\ its'.found = its.found
<1>1. Rest /\ (Passes \/ DoesNot)
  <2>1. SpShape
    BY DEF SpInv
  <2>2. ASSUME NEW what \in Sp!Found(m),
               its' = [its EXCEPT !.specs = @ \ {m}, !.passed = @ \cup {m}, !.ran[m] = what]
        PROVE  Rest /\ Passes
    BY <2>1, <2>2 DEF SpShape, SourcesStay, Sp!run_tests
  <2>3. ASSUME its' = [its EXCEPT !.specs = @ \ {m}, !.failed = @ + 1]
        PROVE  Rest /\ DoesNot
    BY <2>1, <2>3 DEF SpShape, SourcesStay, Sp!run_tests
  <2>4. QED
    BY <2>2, <2>3 DEF Sp!run_tests
<1>2. CopiesTrue'
  BY <1>1 DEF SpInv, CopiesTrue, SourcesStay
<1>3. ASSUME NEW what \in Sp!Found(m)
      PROVE  /\ its.cli.project => what[1] = "project"
             /\ (~its.cli.project /\ m \in InTeal /\ ~its.slipped) =>
                     what = <<"binary", its.seen[m]>>
  BY <1>1, <1>3 DEF SpInv, Accounted, CopiesTrue, Sp!Found
<1>4. Accounted'
  <2>1. its'.ran = [x \in Sp!Modules |-> its'.ran[x]]
    BY <1>1 DEF SpInv, Accounted
  <2>2. its'.failed \in Nat /\ (its'.failed = 0 => its'.found = its'.passed \cup its'.specs)
    BY <1>1 DEF SpInv, Accounted
  <2>3. QED
    BY <1>1, <2>1, <2>2 DEF SpInv, Accounted
<1>5. Sp!RanWhatStands'
  <2>1. SUFFICES ASSUME NEW x \in its'.passed
                 PROVE  /\ its.cli.project => its'.ran[x][1] = "project"
                        /\ (~its.cli.project /\ x \in InTeal /\ ~its.slipped) =>
                                its'.ran[x] = <<"binary", its.seen[x]>>
    BY <1>1 DEF Sp!RanWhatStands, SourcesStay
  <2>2. CASE x \in its.passed /\ its'.ran[x] = its.ran[x]
    BY <2>2 DEF SpInv, Sp!GreenIsTrue, Sp!RanWhatStands
  <2>3. CASE x = m /\ its'.ran[x] \in Sp!Found(m)
    BY <1>3, <2>3
  <2>4. (x \in its.passed /\ its'.ran[x] = its.ran[x]) \/ (x = m /\ its'.ran[x] \in Sp!Found(m))
    <3>1. its.ran = [y \in Sp!Modules |-> its.ran[y]] /\ its.passed \subseteq Sp!Modules
      BY DEF SpInv, Accounted
    <3>2. CASE DoesNot
      BY <2>1, <3>2
    <3>3. CASE Passes
      BY <2>1, <3>1, <3>3
    <3>4. QED
      BY <1>1, <3>2, <3>3
  <2>5. QED
    BY <2>2, <2>3, <2>4
<1>6. Sp!GreenIsTrue'
  BY <1>1, <1>5 DEF Sp!GreenIsTrue, Sp!GreenMeansPassed
<1>7. QED
  BY <1>1, <1>2, <1>4, <1>6, SourcesStayTold DEF SpInv

\* Success of lua-spec-runner (main.rs) means that specs were found and that each of them ran and
\* passed, on what it was meant to run on, however the sources were edited and the binary built
\* meanwhile.  A module is written in Lua or in Teal.
THEOREM TheGreenIsTrue == Spec => []GreenIsTrue
<1> DEFINE Inv == part = "sp" => SpInv
<1>1. Inv /\ [Next]_vars => Inv'
  <2> SUFFICES ASSUME Inv, [Next]_vars, part' = "sp" PROVE SpInv'
    OBVIOUS
  <2>1. SpInv /\ [Sp!Next]_its
    BY OnePart
  <2>2. CASE UNCHANGED its
    BY <2>1, <2>2 DEF SpInv, SpShape, StampsTell, CopiesTrue, Accounted, Sp!GreenIsTrue,
       Sp!GreenMeansPassed, Sp!RanWhatStands
  <2>3. CASE Sp!Next
    BY <2>1, <2>3, SpecsAssumption, SpStarts, SpVendors, SpDiscovers, SpMain, SpRuns, SpEdits,
       SpBuilds DEF Sp!Next
  <2>4. QED
    BY <2>1, <2>2, <2>3
<1>2. Inv => GreenIsTrue
  BY DEF SpInv, GreenIsTrue
<1>3. Init => Inv
  BY SpInitially DEF Init
<1>4. QED
  BY <1>1, <1>2, <1>3, PTL DEF Spec

----------------------------------------------------------------------------
(* One process from its arguments to its exit code *)

\* The record of a process has these fields.
StShape ==
    its = [at |-> its.at, cli |-> its.cli, kernel |-> its.kernel,
           unfiltered |-> its.unfiltered, exists |-> its.exists, env |-> its.env, sandbox |-> its.sandbox, held |-> its.held, workers |-> its.workers,
           prompt |-> its.prompt, wrote |-> its.wrote, used |-> its.used, file |-> its.file,
           code |-> its.code]

\* What a thread may do behind the sandbox: anything where none was asked for.
Behind(thread) ==
    IF its.sandbox.enabled
    THEN thread = [writable |-> St!write_allowlist, tcp |-> its.sandbox.tcp, ring |-> its.unfiltered]
    ELSE thread = St!Free

\* How far the process is, with what it is held to there.
Settled == {"command", "select", "config", "stores", "run"}
Stages ==
    /\ its.at \in {"parse", "dotenv", "sandbox", "seccomp", "runtime", "exit"} \cup Settled
    /\ its.exists \subseteq Dirs
    /\ its.at \in {"sandbox", "seccomp", "runtime"} \cup Settled =>
            its.sandbox = St!from_parts(its.cli.sandbox, its.env)
    /\ its.at \in {"parse", "dotenv", "sandbox"} => its.held = St!Free
    /\ its.at = "seccomp" => its.sandbox.enabled /\ its.held = St!Boundary
    /\ its.at = "runtime" => Behind(its.held)
    /\ its.at \in Settled => Behind(its.workers)

\* What the block has done: nothing before it runs.
Quietly ==
    /\ its.at \notin {"run", "exit"} => its.wrote = "project" /\ its.used = {}
    /\ its.at # "exit" => its.file = "old"
    /\ its.at \in {"select", "config", "stores", "run"} => its.cli.command = "run"
    /\ its.at = "command" => its.cli.command # "run"

\* What the fields of the records above are; for the provers' sake.
LEMMA RingAnyhow ==
    \A g, h, w, t, r, q :
        g = [writable |-> w, tcp |-> t, ring |-> r] /\ h = [g EXCEPT !.ring = q] =>
            h = [writable |-> w, tcp |-> t, ring |-> q]
  OBVIOUS

\* deny_io_uring takes the ring away and leaves the rest.
LEMMA RingDenied ==
    ASSUME NEW g, NEW h, NEW w, NEW t, NEW q,
           g = [writable |-> w, tcp |-> t, ring |-> TRUE], h = [g EXCEPT !.ring = q]
    PROVE  h = [writable |-> w, tcp |-> t, ring |-> q]
  BY RingAnyhow, Zenon

\* The fields of a thread held by the sandbox.
LEMMA HeldTo ==
    ASSUME NEW h, NEW w, NEW t, NEW q, h = [writable |-> w, tcp |-> t, ring |-> q]
    PROVE  h.writable = w /\ h["ring"] = q /\ h["tcp"] = t
<1>1. h.writable = w
  BY Zenon
<1>2. h["ring"] = q
  BY Zenon
<1>3. h["tcp"] = t
  BY Zenon
<1>4. QED
  BY <1>1, <1>2, <1>3

\* The fields of the sandbox settings.
LEMMA Parts ==
    \A s, e, f, t : s = [enabled |-> e, fs_rw |-> f, tcp |-> t] =>
        s.enabled = e /\ s.fs_rw = f /\ s.tcp = t
  OBVIOUS

\* The inductive invariant of a process.
StInv == StShape /\ Stages /\ Quietly /\ St!RunsAsConfigured

\* A process that has read nothing is free and has done nothing.
LEMMA StInitially == St!Init => StInv
<1>1. SUFFICES ASSUME St!Init PROVE StInv
  OBVIOUS
<1>2. /\ StShape /\ its.at = "parse" /\ its.exists \subseteq Dirs /\ its.held = St!Free
      /\ its.wrote = "project" /\ its.used = {} /\ its.file = "old"
  BY <1>1 DEF St!Init, StShape
<1>3. Stages /\ Quietly
  BY <1>2 DEF Stages, Settled, Quietly
<1>4. St!RunsAsConfigured
  BY <1>2 DEF St!RunsAsConfigured, St!Contained, St!StateStaysOpen, St!ResultIsTrue
<1>5. QED
  BY <1>2, <1>3, <1>4 DEF StInv

\* A step that moves on without the block having done anything.
Onwards(from, to) ==
    /\ its.at \in from /\ its'.at \in to
    /\ its'.cli = its.cli /\ its'.exists = its.exists /\ its'.wrote = its.wrote
    /\ its'.used = its.used
    /\ its'.file = its.file
\* The environment and the settings of the sandbox stay.
SettingsStay ==
    its'.env = its.env /\ its'.sandbox = its.sandbox /\ its'.unfiltered = its.unfiltered

\* An exit that is a failure, or that owes no result, leaves the file of --result alone.
LEMMA StExits ==
    ASSUME StInv, NEW n \in {0, 1, 2, 75}, St!Exit(n), its.at # "exit",
           n = 0 => (its.at = "command" \/ (its.at = "run" /\ ~its.cli.result))
    PROVE  StInv'
<1>1. /\ StShape' /\ SettingsStay /\ its'.cli = its.cli /\ its'.exists = its.exists
      /\ its'.wrote = its.wrote /\ its'.used = its.used /\ its'.file = its.file
      /\ its'.at = "exit" /\ its'.code = n
  BY DEF StInv, StShape, SettingsStay, St!Exit
<1>2. Stages' /\ Quietly'
  BY <1>1 DEF StInv, Stages, Settled, Quietly
<1>3. St!Contained'
  BY <1>1 DEF StInv, St!RunsAsConfigured, St!Contained, SettingsStay, St!base_dir
<1>4. St!StateStaysOpen'
  BY <1>1 DEF St!StateStaysOpen
<1>5. St!ResultIsTrue'
  BY <1>1 DEF StInv, Quietly, St!ResultIsTrue
<1>6. QED
  BY <1>1, <1>2, <1>3, <1>4, <1>5 DEF StInv, St!RunsAsConfigured

\* A step that goes on, to a place where what held before it is enough.
LEMMA StOnwards ==
    ASSUME StInv, StShape', Stages',
           its'.at # "exit", its.at \notin {"run", "exit"},
           its'.cli = its.cli, its'.wrote = its.wrote, its'.used = its.used, its'.file = its.file,
           its'.at \in {"select", "config", "stores", "run"} => its.cli.command = "run",
           its'.at = "command" => its.cli.command # "run"
    PROVE  StInv'
<1>1. Quietly'
  BY DEF StInv, Quietly
<1>2. its.wrote = "project" /\ its.used = {}
  BY DEF StInv, Quietly
<1>3. St!Contained' /\ St!ResultIsTrue'
  BY <1>2 DEF St!Contained, St!ResultIsTrue
<1>4. ASSUME its'.at = "stores", (St!base_dir)' \in its'.exists, its'.env.kv = St!Unset
      PROVE  {St!kv_path, St!knl_path}' \subseteq its'.workers.writable
  <2>1. Behind(its.workers)' /\ its'.exists \subseteq Dirs
    BY <1>4 DEF Stages, Settled
  <2>2. {St!kv_path, St!knl_path}' = {St!base_dir}'
    BY <1>4 DEF St!kv_path, St!knl_path
  <2>3. (St!base_dir)' = (St!state_home)'
    BY DEF St!base_dir, St!state_home
  <2>4. QED
    BY <1>4, <2>1, <2>2, <2>3 DEF Behind, St!write_allowlist, St!Free
<1>5. St!StateStaysOpen'
  BY <1>4 DEF St!StateStaysOpen
<1>6. QED
  BY <1>1, <1>3, <1>5 DEF StInv, St!RunsAsConfigured

\* Parsing the arguments and finding the project.
LEMMA StBegins ==
    ASSUME StInv, St!parse \/ St!resolve_project
    PROVE  StInv'
<1>1. CASE St!Exit(1) \/ St!Exit(2)
  BY <1>1, StExits DEF St!parse, St!resolve_project
<1>2. CASE its.at = "parse" /\ its' = [its EXCEPT !.at = "dotenv"]
  <2>1. /\ StShape' /\ SettingsStay /\ its'.cli = its.cli /\ its'.exists = its.exists
        /\ its'.wrote = its.wrote /\ its'.used = its.used /\ its'.file = its.file
        /\ its'.at = "dotenv" /\ its'.held = its.held
    BY <1>2 DEF StInv, StShape, SettingsStay
  <2>2. Stages'
    BY <1>2, <2>1 DEF StInv, Stages, Settled
  <2>3. QED
    BY <1>2, <2>1, <2>2, StOnwards
<1>3. QED
  BY <1>1, <1>2 DEF St!parse, St!resolve_project

\* Loading .env, and with it the settings of the sandbox.
LEMMA StLoads ==
    ASSUME StInv, NEW outer, NEW file, St!load_dotenv(outer, file)
    PROVE  StInv'
<1>1. PICK env : /\ its.at = "dotenv"
                 /\ its' = [its EXCEPT !.at = "sandbox", !.env = env,
                                     !.sandbox = St!from_parts(its.cli.sandbox, env)]
  BY DEF St!load_dotenv
<1>2. /\ StShape' /\ its'.cli = its.cli /\ its'.exists = its.exists /\ its'.held = its.held
      /\ its'.wrote = its.wrote /\ its'.used = its.used /\ its'.file = its.file
      /\ its'.at = "sandbox" /\ its'.env = env
      /\ its'.sandbox = St!from_parts(its.cli.sandbox, env)
  BY <1>1 DEF StInv, StShape
<1>3. Stages'
  BY <1>1, <1>2 DEF StInv, Stages, Settled
<1>4. QED
  BY <1>1, <1>2, <1>3, StOnwards

\* apply restricts the calling thread, or the process ends.
LEMMA StApplies ==
    ASSUME StInv, St!apply
    PROVE  StInv'
<1>1. CASE St!Exit(1)
  BY <1>1, StExits DEF St!apply
<1>2. CASE its.at = "sandbox" /\ ~its.sandbox.enabled /\ its' = [its EXCEPT !.at = "runtime"]
  <2>1. /\ StShape' /\ SettingsStay /\ its'.cli = its.cli /\ its'.exists = its.exists
        /\ its'.wrote = its.wrote /\ its'.used = its.used /\ its'.file = its.file
        /\ its'.at = "runtime" /\ its'.held = its.held
    BY <1>2 DEF StInv, StShape, SettingsStay
  <2>2. Stages'
    BY <1>2, <2>1 DEF StInv, Stages, Settled, SettingsStay, Behind
  <2>3. QED
    BY <1>2, <2>1, <2>2, StOnwards
<1>3. CASE /\ its.at = "sandbox" /\ its.sandbox.enabled
           /\ its' = [its EXCEPT !.at = "seccomp", !.held = St!Boundary]
  <2>1. /\ StShape' /\ SettingsStay /\ its'.cli = its.cli /\ its'.exists = its.exists
        /\ its'.wrote = its.wrote /\ its'.used = its.used /\ its'.file = its.file
        /\ its'.at = "seccomp" /\ its'.held = St!Boundary
    BY <1>3 DEF StInv, StShape, SettingsStay
  <2>2. (St!Boundary)' = St!Boundary
    BY <2>1 DEF SettingsStay, St!Boundary, St!write_allowlist, St!state_home
  <2>3. Stages'
    BY <1>3, <2>1, <2>2 DEF StInv, Stages, Settled, SettingsStay
  <2>4. QED
    BY <1>3, <2>1, <2>3, StOnwards
<1>4. QED
  BY <1>1, <1>2, <1>3 DEF St!apply, St!SandboxError

\* deny_io_uring closes the way around the filter on connect, or the process ends.
LEMMA StDenies ==
    ASSUME StInv, St!deny_io_uring
    PROVE  StInv'
<1>1. CASE St!Exit(1)
  BY <1>1, StExits DEF St!deny_io_uring
<1>2. CASE /\ its.at = "seccomp"
           /\ its' = [its EXCEPT !.at = "runtime", !.held.ring = its.unfiltered]
  <2>1. its.sandbox.enabled /\ its.held = St!Boundary
    BY <1>2 DEF StInv, Stages
  <2>2. /\ StShape' /\ SettingsStay /\ its'.cli = its.cli /\ its'.exists = its.exists
        /\ its'.wrote = its.wrote /\ its'.used = its.used /\ its'.file = its.file
        /\ its'.at = "runtime" /\ its'.held = [its.held EXCEPT !.ring = its.unfiltered]
    BY <1>2 DEF StInv, StShape, SettingsStay
  <2>6. its'.held = [writable |-> St!write_allowlist, tcp |-> its.sandbox.tcp, ring |-> its.unfiltered]
    <3>1. its.held = [writable |-> St!write_allowlist, tcp |-> its.sandbox.tcp, ring |-> TRUE]
      BY <2>1, Zenon DEF St!Boundary
    <3>2. QED
      <4>1. PICK g, h, w, t, q : /\ g = its.held /\ h = its'.held /\ q = its.unfiltered
                                 /\ w = St!write_allowlist /\ t = its.sandbox.tcp
        OBVIOUS
      <4>2. g = [writable |-> w, tcp |-> t, ring |-> TRUE]
        BY <3>1, <4>1, Zenon
      <4>3. h = [g EXCEPT !.ring = q]
        BY <2>2, <4>1, Zenon
      <4>4. h = [writable |-> w, tcp |-> t, ring |-> q]
        BY <4>2, <4>3, RingDenied
      <4>5. QED
        BY <4>1, <4>4, Zenon
  <2>3. (St!write_allowlist)' = St!write_allowlist
    BY <2>2 DEF SettingsStay, St!write_allowlist, St!state_home
  <2>4. Stages'
    BY <1>2, <2>1, <2>2, <2>3, <2>6 DEF StInv, Stages, Settled, SettingsStay, Behind
  <2>5. QED
    BY <1>2, <2>2, <2>4, StOnwards
<1>3. QED
  BY <1>1, <1>2 DEF St!deny_io_uring, St!SandboxError

\* The workers of the runtime start behind the sandbox: what holds the first thread holds them.
LEMMA StForks ==
    ASSUME StInv, St!runtime
    PROVE  StInv'
<1>1. /\ StShape' /\ SettingsStay /\ its'.cli = its.cli /\ its'.exists = its.exists
      /\ its'.wrote = its.wrote /\ its'.used = its.used /\ its'.file = its.file
      /\ its.at = "runtime" /\ its'.workers = its.held
      /\ its'.at = IF its.cli.command = "run" THEN "select" ELSE "command"
  BY DEF StInv, StShape, SettingsStay, St!runtime
<1>2. (St!write_allowlist)' = St!write_allowlist
  BY <1>1 DEF SettingsStay, St!write_allowlist, St!state_home
<1>3. Stages'
  BY <1>1, <1>2 DEF StInv, Stages, Settled, SettingsStay, Behind
<1>4. QED
  BY <1>1, <1>3, StOnwards

\* The steps between the threads' start and the block's.
LEMMA StSelects ==
    ASSUME StInv,
           \/ St!subcommand \/ St!select \/ St!read_run_config
           \/ St!parse_labels \/ St!open_stores
    PROVE  StInv'
<1>1. CASE St!Exit(1)
  BY <1>1, StExits DEF St!subcommand, St!select, St!read_run_config, St!parse_labels, St!open_stores
<1>2. CASE St!Exit(0) /\ its.at = "command"
  BY <1>2, StExits
<1>3. ASSUME its.at \in {"select", "config", "stores"},
             NEW at \in {"config", "stores", "run"}, NEW prompt,
             \/ its' = [its EXCEPT !.at = at]
             \/ its' = [its EXCEPT !.at = at, !.prompt = prompt]
      PROVE  StInv'
  <2>1. /\ StShape' /\ SettingsStay /\ its'.cli = its.cli /\ its'.exists = its.exists
        /\ its'.wrote = its.wrote /\ its'.used = its.used /\ its'.file = its.file
        /\ its'.workers = its.workers /\ its'.at = at
    BY <1>3 DEF StInv, StShape, SettingsStay
  <2>2. (St!write_allowlist)' = St!write_allowlist
    BY <2>1 DEF SettingsStay, St!write_allowlist, St!state_home
  <2>3. Stages'
    BY <1>3, <2>1, <2>2 DEF StInv, Stages, Settled, SettingsStay, Behind
  <2>4. its.cli.command = "run"
    BY <1>3 DEF StInv, Quietly
  <2>5. QED
    BY <1>3, <2>1, <2>3, <2>4, StOnwards
<1>4. CASE St!subcommand
  BY <1>1, <1>2, <1>4 DEF St!subcommand
<1>5. CASE St!select
  BY <1>1, <1>3, <1>5 DEF St!select
<1>6. CASE St!read_run_config
  BY <1>1, <1>3, <1>6 DEF St!read_run_config
<1>7. CASE St!open_stores
  BY <1>1, <1>3, <1>7 DEF St!open_stores
<1>8. QED
  BY <1>1, <1>4, <1>5, <1>6, <1>7 DEF St!parse_labels

\* What the block does it does from a thread that is held to the boundary.
LEMMA StActs ==
    ASSUME StInv, \/ \E dir \in Dirs : St!Writes(dir)
                  \/ \E means \in {"tcp", "ring"} : St!Uses(means)
    PROVE  StInv'
<1>1. /\ StShape' /\ SettingsStay /\ its'.cli = its.cli /\ its'.exists = its.exists
      /\ its'.workers = its.workers /\ its.at = "run" /\ its'.at = "run" /\ its'.file = its.file
  BY DEF StInv, StShape, SettingsStay, St!Writes, St!Uses
<1>2. (St!write_allowlist)' = St!write_allowlist
  BY <1>1 DEF SettingsStay, St!write_allowlist, St!state_home
<1>3. Stages' /\ Quietly'
  BY <1>1, <1>2 DEF StInv, Stages, Settled, SettingsStay, Behind, Quietly
<1>4. St!StateStaysOpen' /\ St!ResultIsTrue'
  BY <1>1 DEF St!StateStaysOpen, St!ResultIsTrue
<1>5. /\ Behind(its.workers) /\ its.sandbox = St!from_parts(its.cli.sandbox, its.env)
      /\ St!Contained
  BY <1>1 DEF StInv, Stages, Settled, St!RunsAsConfigured
<1>6. ASSUME its.cli.sandbox \/ its.env.sandbox = "1"
      PROVE  /\ its.workers.writable \subseteq
                    {"project", St!base_dir, "tmp"} \cup ({its.env.fs_rw} \ {St!Unset})
             /\ its.workers["ring"] = its.unfiltered
             /\ its.env.tcp = "0" => ~its.workers["tcp"]
  <2>1. /\ its.sandbox.enabled
        /\ its.sandbox.fs_rw = {its.env.fs_rw} \ {St!Unset, ""}
        /\ its.env.tcp = "0" => ~its.sandbox.tcp
    <3>1. /\ its.sandbox.enabled <=>
                its.cli.sandbox \/ (its.env.sandbox # St!Unset /\ St!is_truthy(its.env.sandbox))
          /\ its.sandbox.fs_rw = {its.env.fs_rw} \ {St!Unset, ""}
          /\ its.sandbox.tcp <=> its.env.tcp = St!Unset \/ St!is_truthy(its.env.tcp)
      <4>1. PICK e, t :
              /\ e = (its.cli.sandbox \/ (its.env.sandbox # St!Unset
                                               /\ St!is_truthy(its.env.sandbox)))
              /\ t = (its.env.tcp = St!Unset \/ St!is_truthy(its.env.tcp))
        BY Zenon
      <4>2. its.sandbox = [enabled |-> e, fs_rw |-> {its.env.fs_rw} \ {St!Unset, ""}, tcp |-> t]
        BY <1>5, <4>1, Zenon DEF St!from_parts
      <4>3. /\ its.sandbox.enabled = e /\ its.sandbox.tcp = t
            /\ its.sandbox.fs_rw = {its.env.fs_rw} \ {St!Unset, ""}
        <5>1. PICK f, s : f = {its.env.fs_rw} \ {St!Unset, ""} /\ s = its.sandbox
          OBVIOUS
        <5>2. s = [enabled |-> e, fs_rw |-> f, tcp |-> t]
          BY <4>2, <5>1, Zenon
        <5>3. s.enabled = e /\ s.fs_rw = f /\ s.tcp = t
          BY <5>2, Parts
        <5>4. QED
          BY <5>1, <5>3, Zenon
      <4>4. QED
        BY <4>1, <4>3, Zenon
    <3>2. QED
      BY <1>6, <3>1 DEF St!is_truthy, St!Unset
  <2>2. its.workers = [writable |-> St!write_allowlist, tcp |-> its.sandbox.tcp, ring |-> its.unfiltered]
    BY <1>5, <2>1 DEF Behind
  <2>3. St!write_allowlist \subseteq
            {"project", St!base_dir, "tmp"} \cup ({its.env.fs_rw} \ {St!Unset})
    BY <2>1 DEF St!write_allowlist, St!state_home, St!base_dir
  <2>4. /\ its.workers.writable = St!write_allowlist /\ its.workers["ring"] = its.unfiltered
        /\ its.workers["tcp"] = its.sandbox.tcp
    BY <2>2, HeldTo
  <2>5. QED
    BY <2>1, <2>3, <2>4, Zenon
<1>7. ASSUME NEW dir \in Dirs, St!Writes(dir) PROVE St!Contained'
  <2>1. its'.wrote = dir /\ dir \in its.workers.writable /\ its'.used = its.used
    BY <1>7 DEF StInv, StShape, St!Writes
  <2>2. QED
    BY <1>1, <1>5, <1>6, <2>1 DEF SettingsStay, St!Contained, St!base_dir
<1>8. ASSUME NEW means \in {"tcp", "ring"}, St!Uses(means) PROVE St!Contained'
  <2>1. its'.wrote = its.wrote /\ its.workers[means] /\ its'.used = its.used \cup {means}
    BY <1>8 DEF StInv, StShape, St!Uses
  <2>2. QED
    BY <1>1, <1>5, <1>6, <1>8, <2>1 DEF SettingsStay, St!Contained, St!base_dir
<1>9. QED
  BY <1>1, <1>3, <1>4, <1>7, <1>8 DEF StInv, St!RunsAsConfigured

\* A run ends with its value in the file of --result, or with a code that says it did not.
LEMMA StCaptures ==
    ASSUME StInv, St!run_capture
    PROVE  StInv'
<1>1. its.at = "run" /\ its.file = "old" /\ its.cli.command = "run"
  BY DEF StInv, Quietly, St!run_capture
<1>2. CASE St!Exit(75) \/ St!Exit(1) \/ (~its.cli.result /\ St!Exit(0))
  BY <1>1, <1>2, StExits
<1>3. ASSUME NEW code \in {0, 1}, NEW file \in {"old", "torn", "new"},
             its' = [its EXCEPT !.at = "exit", !.code = code, !.file = file],
             its.cli.result, code = 0 <=> file = "new"
      PROVE  StInv'
  <2>1. /\ StShape' /\ SettingsStay /\ its'.cli = its.cli /\ its'.exists = its.exists
        /\ its'.wrote = its.wrote /\ its'.used = its.used /\ its'.file = file
        /\ its'.at = "exit" /\ its'.code = code
    BY <1>3 DEF StInv, StShape, SettingsStay
  <2>2. Stages' /\ Quietly'
    BY <2>1 DEF StInv, Stages, Settled, Quietly
  <2>3. St!Contained'
    BY <2>1 DEF StInv, St!RunsAsConfigured, St!Contained, SettingsStay, St!base_dir
  <2>4. St!StateStaysOpen' /\ St!ResultIsTrue'
    BY <1>1, <1>3, <2>1 DEF St!StateStaysOpen, St!ResultIsTrue
  <2>5. QED
    BY <2>1, <2>2, <2>3, <2>4 DEF StInv, St!RunsAsConfigured
<1>4. CASE its.cli.result /\ its' = [its EXCEPT !.at = "exit", !.code = 0, !.file = "new"]
  BY <1>3, <1>4
<1>5. CASE its.cli.result /\ \E left \in {"old", "torn"} :
                its' = [its EXCEPT !.at = "exit", !.code = 1, !.file = left]
  <2>1. PICK left \in {"old", "torn"} : its' = [its EXCEPT !.at = "exit", !.code = 1, !.file = left]
    BY <1>5
  <2>2. QED
    <3>1. 1 # 0 /\ left # "new" /\ left \in {"old", "torn", "new"} /\ its.cli.result
      BY <1>5
    <3>2. QED
      BY <1>3, <2>1, <3>1
<1>6. QED
  BY <1>2, <1>4, <1>5 DEF St!run_capture

\* Every process of agent-block does as it was configured (main.rs, sandbox.rs, config.rs): in a
\* sandbox its block writes and dials only where it may, on every kernel, or does not run; the
\* sandbox leaves the run its own state; and --result and the exit code say the same.
THEOREM EveryRunIsAsConfigured == Spec => []RunsAsConfigured
<1> DEFINE Inv == part = "st" => StInv
<1>1. Inv /\ [Next]_vars => Inv'
  <2> SUFFICES ASSUME Inv, [Next]_vars, part' = "st" PROVE StInv'
    OBVIOUS
  <2>1. StInv /\ [St!Next]_its
    BY OnePart
  <2>2. CASE UNCHANGED its
    BY <2>1, <2>2 DEF StInv, StShape, Stages, Quietly, Behind, St!RunsAsConfigured, St!Contained,
       St!StateStaysOpen, St!ResultIsTrue, St!base_dir, St!kv_path, St!knl_path, St!Boundary,
       St!write_allowlist, St!state_home
  <2>3. CASE St!Next
    BY <2>1, <2>3, StBegins, StLoads, StApplies, StDenies, StForks, StSelects, StActs, StCaptures
       DEF St!Next
  <2>4. QED
    BY <2>1, <2>2, <2>3
<1>2. Inv => RunsAsConfigured
  BY DEF StInv, RunsAsConfigured
<1>3. Init => Inv
  BY StInitially DEF Init
<1>4. QED
  BY <1>1, <1>2, <1>3, PTL DEF Spec

----------------------------------------------------------------------------
(* The commands of sh *)

\* How far the ending of the host is while its registry still tells of its commands.
Early == {"none", "forwarded"}
CmdPlaces == {"none", "spawned", "waiting", "dropped", "answered"}

\* The record of a command has these fields.
CmdShape(p) ==
    p = [at |-> p.at, label |-> p.label, nature |-> p.nature, leader |-> p.leader, rest |-> p.rest,
         grand |-> p.grand, heard |-> p.heard, answer |-> p.answer, ended |-> p.ended,
         late |-> p.late]

\* A command p whose entry in LIVE_GROUPS is l, while the host's own ending is at s: the registry
\* has it as long as somebody awaits it or let go of it, its entry knows whether sh.kill took it,
\* and a nested host that left by itself took its own commands along.
Fine(p, l, s) ==
    /\ CmdShape(p)
    /\ p.at \in CmdPlaces
    /\ p.ended \in BOOLEAN
    /\ p.heard = {} \/ \E n \in 0..Grace : p.heard = {n}
    /\ p.nature # "host" => ~p.grand
    /\ p.at = "none" => ~p.leader /\ ~p.rest
    /\ p.at # "answered" => p.answer = "none"
    /\ p.answer = "timed_out" => ~p.leader /\ ~p.rest
    /\ l # {} => p.at \in {"waiting", "dropped"}
    /\ \A g \in l : g = [label |-> g.label, killed |-> g.killed]
    /\ s \in Early =>
            /\ p.at \in {"waiting", "dropped"} => l # {} /\ (p.ended <=> \E g \in l : g.killed)
            /\ p.at \in {"none", "spawned"} => ~p.ended
            /\ p.answer \in {"ok", "killed"} => (p.answer = "killed" <=> p.ended)
    /\ s \in {"killed", "exited"} =>
            ((p.at # "answered" /\ ~p.late) => ~p.leader /\ ~p.rest)
    /\ s = "none" =>
            /\ (p.at \in {"spawned", "waiting"} /\ ~p.leader) => ~p.grand
            /\ p.answer = "killed" => ~p.grand

\* The commands' processes end, and leave their registry entry and what is known of them alone.
LEMMA Weaker ==
    ASSUME NEW p, NEW q, NEW l, NEW s, Fine(p, l, s),
           CmdShape(q), q.at = p.at, q.nature = p.nature, q.answer = p.answer, q.ended = p.ended,
           q.late = p.late,
           q.heard = {} \/ \E n \in 0..Grace : q.heard = {n},
           q.leader => p.leader, q.rest => p.rest, q.grand => p.grand,
           (s = "none" /\ p.at \in {"spawned", "waiting"} /\ ~q.leader) => ~q.grand
    PROVE  Fine(q, l, s)
  BY DEF Fine

\* SIGTERM: what a nested host does about it is done by its timer.
LEMMA TermedFine ==
    ASSUME Grace \in Nat, NEW p, NEW l, NEW s, Fine(p, l, s)
    PROVE  /\ Fine(Sh!Termed(p), l, s)
           /\ Sh!Termed(p).at = p.at /\ Sh!Termed(p).nature = p.nature
           /\ Sh!Termed(p).ended = p.ended
           /\ (Sh!Termed(p).leader /\ p.nature = "host") =>
                \E n \in 0..Grace : Sh!Termed(p).heard = {n}
<1> DEFINE q == Sh!Termed(p)
<1>1. CmdShape(p)
  BY DEF Fine
<1>2. CASE q = p
  <2>1. (p.leader /\ p.nature = "host") => p.heard # {}
    BY <1>1, <1>2 DEF Sh!Termed, CmdShape
  <2>2. QED
    BY <1>2, <2>1 DEF Fine
<1>3. CASE q = [p EXCEPT !.rest = FALSE] /\ ~p.leader
  <2>1. /\ CmdShape(q) /\ q.at = p.at /\ q.nature = p.nature /\ q.answer = p.answer
        /\ q.ended = p.ended /\ q.late = p.late /\ q.heard = p.heard
        /\ q.leader = p.leader /\ ~q.rest /\ q.grand = p.grand
    BY <1>1, <1>3 DEF CmdShape
  <2>2. QED
    BY <1>3, <2>1, Weaker DEF Fine
<1>4. CASE q = Sh!Dead(p) /\ p.nature = "plain"
  <2>1. /\ CmdShape(q) /\ q.at = p.at /\ q.nature = p.nature /\ q.answer = p.answer
        /\ q.ended = p.ended /\ q.late = p.late /\ q.heard = p.heard
        /\ ~q.leader /\ ~q.rest /\ q.grand = p.grand
    BY <1>1, <1>4 DEF CmdShape, Sh!Dead
  <2>2. QED
    BY <1>4, <2>1, Weaker DEF Fine
<1>5. CASE q = [p EXCEPT !.heard = {Grace}] /\ p.leader
  <2>1. /\ CmdShape(q) /\ q.at = p.at /\ q.nature = p.nature /\ q.answer = p.answer
        /\ q.ended = p.ended /\ q.late = p.late /\ q.heard = {Grace}
        /\ q.leader = p.leader /\ q.rest = p.rest /\ q.grand = p.grand
    BY <1>1, <1>5 DEF CmdShape
  <2>2. Grace \in 0..Grace
    OBVIOUS
  <2>3. QED
    BY <1>5, <2>1, <2>2, Weaker DEF Fine
<1>6. QED
  BY <1>2, <1>3, <1>4, <1>5 DEF Sh!Termed

\* SIGKILL to a group: its leader and the rest are gone.
LEMMA DeadFine ==
    ASSUME NEW p, NEW q, NEW l, NEW s, Fine(p, l, s), q = Sh!Dead(p),
           (s = "none" /\ p.at \in {"spawned", "waiting"}) => ~p.grand
    PROVE  Fine(q, l, s)
<1>1. CmdShape(p)
  BY DEF Fine
<1>2. /\ CmdShape(q) /\ q.at = p.at /\ q.nature = p.nature /\ q.answer = p.answer
      /\ q.ended = p.ended /\ q.late = p.late /\ q.heard = p.heard
      /\ ~q.leader /\ ~q.rest /\ q.grand = p.grand
  BY <1>1 DEF CmdShape, Sh!Dead
<1>3. QED
  BY <1>2, Weaker DEF Fine

\* The record of the host has these fields.
ShShape ==
    /\ its = [cmd |-> its.cmd, live |-> its.live, kill |-> its.kill, signal |-> its.signal,
             serving |-> its.serving, ticks |-> its.ticks]
    /\ its.cmd = [c \in Commands |-> its.cmd[c]]
    /\ its.live = [c \in Commands |-> its.live[c]]

\* The sh.kill that is under way: its time is enough for a nested host's timer to run out first.
KillInTime ==
    /\ its.kill = [at |-> its.kill.at, of |-> its.kill.of, left |-> its.kill.left]
    /\ its.kill.left \in Nat
    /\ its.signal = [at |-> its.signal.at, left |-> its.signal.left]
    /\ its.kill.at = "waiting" =>
            /\ its.kill.of \in Commands
            /\ its.signal.at = "none" =>
                LET p == its.cmd[its.kill.of]
                IN  /\ p.at \notin {"none", "spawned"}
                    /\ (p.at = "waiting" /\ p.leader /\ p.nature = "host") =>
                        \E n \in 0..Grace : p.heard = {n} /\ n + Grace <= its.kill.left

\* The inductive invariant of the commands.
ShInv ==
    /\ ShShape /\ KillInTime
    /\ \A c \in Commands : Fine(its.cmd[c], its.live[c], its.signal.at)

\* No command was started.
LEMMA ShInitially == Sh!Init => ShInv
<1>1. SUFFICES ASSUME Sh!Init PROVE ShInv
  OBVIOUS
<1>2. /\ ShShape /\ its.kill = [at |-> "idle", of |-> 0, left |-> 0]
      /\ its.signal = [at |-> "none", left |-> 0]
      /\ \A c \in Commands : its.cmd[c] = Sh!NoCommand /\ its.live[c] = {}
  BY <1>1 DEF Sh!Init, ShShape
<1>3. KillInTime
  BY <1>2 DEF KillInTime
<1>4. Fine(Sh!NoCommand, {}, "none")
  <2>1. CmdShape(Sh!NoCommand)
    BY DEF CmdShape, Sh!NoCommand
  <2>2. QED
    BY <2>1 DEF Fine, Sh!NoCommand, CmdPlaces
<1>5. ASSUME NEW c \in Commands PROVE Fine(its.cmd[c], its.live[c], its.signal.at)
  <2>1. its.cmd[c] = Sh!NoCommand /\ its.live[c] = {} /\ its.signal.at = "none"
    BY <1>2
  <2>2. QED
    BY <1>4, <2>1
<1>6. QED
  BY <1>2, <1>3, <1>5 DEF ShInv

\* A step of one command c, which becomes p with the registry entry l.
LEMMA OneCommand ==
    ASSUME ShInv, NEW c \in Commands, NEW p, NEW l,
           its'.cmd = [its.cmd EXCEPT ![c] = p], its'.live = [its.live EXCEPT ![c] = l],
           its' = [cmd |-> its'.cmd, live |-> its'.live, kill |-> its.kill, signal |-> its.signal,
                  serving |-> its.serving, ticks |-> its.ticks],
           Fine(p, l, its.signal.at),
           its.cmd[c].at \notin {"none", "spawned"} => p.at \notin {"none", "spawned"},
           (p.at = "waiting" /\ p.leader /\ p.nature = "host") =>
                /\ its.cmd[c].leader /\ its.cmd[c].nature = "host" /\ its.cmd[c].heard = p.heard
                /\ its.cmd[c].at \in {"waiting", "spawned"}
    PROVE  ShInv'
<1>1. its'.kill = its.kill /\ its'.signal = its.signal
  OBVIOUS
<1>2. \A d \in Commands : its'.cmd[d] = (IF d = c THEN p ELSE its.cmd[d])
  BY DEF ShInv, ShShape
<1>3. \A d \in Commands : its'.live[d] = (IF d = c THEN l ELSE its.live[d])
  BY DEF ShInv, ShShape
<1>4. ShShape'
  BY DEF ShInv, ShShape
<1>5. KillInTime'
  <2>1. CASE its.kill.at = "waiting" /\ its.signal.at = "none"
    <3>1. CASE its.kill.of = c
      BY <1>1, <1>2, <2>1, <3>1 DEF ShInv, KillInTime
    <3>2. CASE its.kill.of # c
      BY <1>1, <1>2, <2>1, <3>2 DEF ShInv, KillInTime
    <3>3. QED
      BY <3>1, <3>2
  <2>2. CASE ~(its.kill.at = "waiting" /\ its.signal.at = "none")
    BY <1>1, <2>2 DEF ShInv, KillInTime
  <2>3. QED
    BY <2>1, <2>2
<1>6. \A d \in Commands : Fine(its'.cmd[d], its'.live[d], its'.signal.at)
  BY <1>1, <1>2, <1>3 DEF ShInv
<1>7. QED
  BY <1>4, <1>5, <1>6 DEF ShInv

\* A step of one command that leaves the registry alone.
LEMMA OneBecomes ==
    ASSUME ShInv, NEW c \in Commands, NEW p, Sh!Becomes(c, p),
           Fine(p, its.live[c], its.signal.at),
           its.cmd[c].at \notin {"none", "spawned"} => p.at \notin {"none", "spawned"},
           (p.at = "waiting" /\ p.leader /\ p.nature = "host") =>
                /\ its.cmd[c].leader /\ its.cmd[c].nature = "host" /\ its.cmd[c].heard = p.heard
                /\ its.cmd[c].at \in {"waiting", "spawned"}
    PROVE  ShInv'
<1>1. /\ its'.cmd = [its.cmd EXCEPT ![c] = p] /\ its'.live = its.live
      /\ its' = [cmd |-> its'.cmd, live |-> its'.live, kill |-> its.kill, signal |-> its.signal,
                serving |-> its.serving, ticks |-> its.ticks]
  BY DEF ShInv, ShShape, Sh!Becomes
<1>2. its'.live = [its.live EXCEPT ![c] = its.live[c]]
  BY <1>1 DEF ShInv, ShShape
<1>3. QED
  BY <1>1, <1>2, OneCommand

\* What is left of a command that could not be spawned.
LEMMA NotSpawned ==
    ASSUME NEW p, p = [Sh!NoCommand EXCEPT !.at = "answered", !.answer = "error"]
    PROVE  /\ CmdShape(p) /\ p.at = "answered" /\ p.nature = "plain" /\ p.leader = FALSE
           /\ p.rest = FALSE /\ p.grand = FALSE /\ p.heard = {} /\ p.answer = "error"
           /\ p.ended = FALSE
  BY DEF CmdShape, Sh!NoCommand

\* A command is spawned, or the spawn fails.
LEMMA ShSpawns ==
    ASSUME ShInv, NEW c \in Commands, NEW label, NEW nature, Sh!Spawn(c, label, nature)
    PROVE  ShInv'
<1>1. /\ its.signal.at # "exited" /\ its.cmd[c].at = "none"
      /\ Fine(its.cmd[c], its.live[c], its.signal.at) /\ its.live[c] = {}
  BY DEF Sh!Spawn, Sh!Up, Sh!Cmd, ShInv, Fine
<1>2. ASSUME NEW p, Sh!Becomes(c, p), NEW rest,
             p = [Sh!NoCommand EXCEPT !.at = "spawned", !.label = label, !.nature = nature,
                                      !.leader = TRUE, !.rest = rest, !.grand = nature = "host",
                                      !.late = its.signal.at = "killed"]
      PROVE  ShInv'
  <2>1. PICK leader, grand, late : /\ leader = TRUE /\ grand = (nature = "host")
                                   /\ late = (its.signal.at = "killed")
    BY Zenon
  <2>2. p = [Sh!NoCommand EXCEPT !.at = "spawned", !.label = label, !.nature = nature,
                                 !.leader = leader, !.rest = rest, !.grand = grand, !.late = late]
    BY <1>2, <2>1, Zenon
  <2>3. /\ CmdShape(p) /\ p.at = "spawned" /\ p.nature = nature /\ p.leader = leader
        /\ p.grand = grand /\ p.late = late /\ p.heard = {} /\ p.answer = "none" /\ p.ended = FALSE
    BY <2>2 DEF CmdShape, Sh!NoCommand
  <2>4. /\ p.leader /\ (p.nature # "host" => ~p.grand) /\ (its.signal.at = "killed" => p.late)
    BY <2>1, <2>3
  <2>5. Fine(p, {}, its.signal.at)
    BY <1>1, <2>3, <2>4 DEF Fine, CmdPlaces, Early
  <2>6. QED
    BY <1>1, <1>2, <2>3, <2>5, OneBecomes
<1>3. ASSUME NEW p, Sh!Becomes(c, p),
             p = [Sh!NoCommand EXCEPT !.at = "answered", !.answer = "error"]
      PROVE  ShInv'
  <2>1. /\ CmdShape(p) /\ p.at = "answered" /\ p.nature = "plain" /\ p.leader = FALSE
        /\ p.rest = FALSE /\ p.grand = FALSE /\ p.heard = {} /\ p.answer = "error"
        /\ p.ended = FALSE
    BY <1>3, NotSpawned
  <2>2. Fine(p, {}, its.signal.at)
    BY <2>1 DEF Fine, CmdPlaces, Early
  <2>3. QED
    BY <1>1, <1>3, <2>1, <2>2, OneBecomes
<1>4. QED
  BY <1>2, <1>3, Zenon DEF Sh!Spawn

\* remember puts the group of a spawned command in LIVE_GROUPS.
LEMMA ShRemembers ==
    ASSUME ShInv, NEW c \in Commands, Sh!Remember(c)
    PROVE  ShInv'
<1>1. PICK p, q : p = its.cmd[c] /\ q = [p EXCEPT !.at = "waiting"]
  OBVIOUS
<1>2. /\ its.signal.at # "exited" /\ p.at = "spawned" /\ CmdShape(p)
      /\ Fine(p, its.live[c], its.signal.at)
  BY <1>1 DEF Sh!Remember, Sh!Up, Sh!Cmd, ShInv, Fine
<1>3. /\ CmdShape(q) /\ q.at = "waiting" /\ q.nature = p.nature /\ q.answer = p.answer
      /\ q.ended = p.ended /\ q.late = p.late /\ q.heard = p.heard
      /\ q.leader = p.leader /\ q.rest = p.rest /\ q.grand = p.grand
  BY <1>1, <1>2 DEF CmdShape
<1>4. PICK g : g = Sh!Group(p.label)
  OBVIOUS
<1>8. ~g.killed /\ g = [label |-> g.label, killed |-> g.killed]
  <2>1. ~g.killed
    BY <1>4, Zenon DEF Sh!Group
  <2>2. g = [label |-> g.label, killed |-> g.killed]
    BY <1>4 DEF Sh!Group
  <2>3. QED
    BY <2>1, <2>2
<1>5. Fine(q, {g}, its.signal.at)
  BY <1>2, <1>3, <1>8 DEF Fine, CmdPlaces
<1>6. /\ its'.cmd = [its.cmd EXCEPT ![c] = q] /\ its'.live = [its.live EXCEPT ![c] = {g}]
      /\ its' = [cmd |-> its'.cmd, live |-> its'.live, kill |-> its.kill, signal |-> its.signal,
                serving |-> its.serving, ticks |-> its.ticks]
  BY <1>1, <1>4 DEF ShInv, ShShape, Sh!Remember, Sh!remember_group, Sh!Cmd
<1>7. /\ q.at \notin {"none", "spawned"} /\ its.cmd[c].at = "spawned"
      /\ q.leader = its.cmd[c].leader /\ q.nature = its.cmd[c].nature /\ q.heard = its.cmd[c].heard
  BY <1>1, <1>2, <1>3
<1>9. QED
  BY <1>5, <1>6, <1>7, OneCommand

\* The command ends, by itself or as a nested host whose grace is over.
LEMMA ShExits ==
    ASSUME ShInv, NEW c \in Commands, Sh!Exits(c) \/ Sh!HostLeaves(c)
    PROVE  ShInv'
<1>1. PICK p : p = its.cmd[c]
  OBVIOUS
<1>2. CmdShape(p) /\ Fine(p, its.live[c], its.signal.at)
  BY <1>1 DEF ShInv, Fine
<1>3. PICK q : /\ Sh!Becomes(c, q)
               /\ \/ \E rest \in {FALSE, p.rest} :
                        q = [p EXCEPT !.leader = FALSE, !.rest = rest, !.grand = FALSE]
                  \/ q = [Sh!Dead(p) EXCEPT !.grand = FALSE]
  BY <1>1, Zenon DEF Sh!Exits, Sh!HostLeaves, Sh!Cmd
<1>4. /\ CmdShape(q) /\ q.at = p.at /\ q.nature = p.nature /\ q.answer = p.answer
      /\ q.ended = p.ended /\ q.late = p.late /\ q.heard = p.heard
      /\ ~q.leader /\ (q.rest => p.rest) /\ ~q.grand
  BY <1>2, <1>3 DEF CmdShape, Sh!Dead
<1>5. Fine(q, its.live[c], its.signal.at)
  BY <1>2, <1>4, Weaker DEF Fine
<1>6. QED
  BY <1>1, <1>3, <1>4, <1>5, OneBecomes

\* A future that is dropped kills the leader; the group stays registered.
LEMMA ShDrops ==
    ASSUME ShInv, NEW c \in Commands, Sh!Dropped(c)
    PROVE  ShInv'
<1>1. PICK p, q : p = its.cmd[c] /\ q = [p EXCEPT !.leader = FALSE, !.at = "dropped"]
  OBVIOUS
<1>2. p.at = "waiting" /\ CmdShape(p) /\ Fine(p, its.live[c], its.signal.at) /\ Sh!Becomes(c, q)
  BY <1>1 DEF Sh!Dropped, Sh!Cmd, ShInv, Fine
<1>3. /\ CmdShape(q) /\ q.at = "dropped" /\ q.nature = p.nature /\ q.answer = p.answer
      /\ q.ended = p.ended /\ q.late = p.late /\ q.heard = p.heard
      /\ ~q.leader /\ q.rest = p.rest /\ q.grand = p.grand
  BY <1>1, <1>2 DEF CmdShape
<1>4. Fine(q, its.live[c], its.signal.at)
  BY <1>2, <1>3 DEF Fine, CmdPlaces
<1>5. QED
  BY <1>1, <1>2, <1>3, <1>4, OneBecomes

\* The exec answers: the command is gone, or its time is over.
LEMMA ShAnswers ==
    ASSUME ShInv, NEW c \in Commands, Sh!Finished(c) \/ Sh!TimedOut(c)
    PROVE  ShInv'
<1>1. PICK p : p = its.cmd[c]
  OBVIOUS
<1>2. p.at = "waiting" /\ CmdShape(p) /\ Fine(p, its.live[c], its.signal.at)
  BY <1>1 DEF Sh!Finished, Sh!TimedOut, Sh!Cmd, ShInv, Fine
<1>3. PICK o, answer :
        /\ Sh!Answer(c, o, answer)
        /\ \/ o = p /\ ~p.leader /\ answer = IF Sh!WasKilled(c) THEN "killed" ELSE "ok"
           \/ o = Sh!Dead(p) /\ answer = "timed_out"
  BY <1>1 DEF Sh!Finished, Sh!TimedOut, Sh!Cmd, Sh!Killed
<1>4. /\ CmdShape(o) /\ o.at = p.at /\ o.nature = p.nature
      /\ o.ended = p.ended /\ o.late = p.late /\ o.heard = p.heard
      /\ ~o.leader /\ o.grand = p.grand /\ (answer = "timed_out" => ~o.rest)
  <2>1. CASE o = p /\ ~p.leader /\ answer = IF Sh!WasKilled(c) THEN "killed" ELSE "ok"
    BY <1>2, <2>1
  <2>2. CASE o = Sh!Dead(p) /\ answer = "timed_out"
    BY <1>2, <2>2 DEF CmdShape, Sh!Dead
  <2>3. QED
    BY <1>3, <2>1, <2>2
<1>5. PICK q : q = [o EXCEPT !.at = "answered", !.answer = answer]
  OBVIOUS
<1>6. /\ CmdShape(q) /\ q.at = "answered" /\ q.nature = p.nature /\ q.answer = answer
      /\ q.ended = p.ended /\ q.late = p.late /\ q.heard = p.heard
      /\ ~q.leader /\ q.rest = o.rest /\ q.grand = p.grand
  BY <1>4, <1>5 DEF CmdShape
<1>7. \/ answer = "timed_out"
      \/ /\ answer \in {"ok", "killed"} /\ ~p.leader
         /\ (answer = "killed" <=> \E g \in its.live[c] : g.killed)
  BY <1>3 DEF Sh!WasKilled
<1>8. Fine(q, {}, its.signal.at)
  <2>1. answer = "timed_out" => ~q.leader /\ ~q.rest
    BY <1>4, <1>6
  <2>2. its.signal.at \in Early => (answer \in {"ok", "killed"} => (answer = "killed" <=> q.ended))
    BY <1>2, <1>6, <1>7 DEF Fine
  <2>3. its.signal.at = "none" /\ answer = "killed" => ~q.grand
    BY <1>2, <1>6, <1>7 DEF Fine
  <2>4. QED
    BY <1>2, <1>6, <2>1, <2>2, <2>3 DEF Fine, CmdPlaces
<1>9. /\ its'.cmd = [its.cmd EXCEPT ![c] = q] /\ its'.live = [its.live EXCEPT ![c] = {}]
      /\ its' = [cmd |-> its'.cmd, live |-> its'.live, kill |-> its.kill, signal |-> its.signal,
                serving |-> its.serving, ticks |-> its.ticks]
  BY <1>3, <1>5 DEF ShInv, ShShape, Sh!Answer, Sh!forget_group
<1>10. QED
  BY <1>1, <1>6, <1>8, <1>9, OneCommand

\* A group that is found by its label is marked with the same step.
LEMMA Marked ==
    ASSUME NEW l, l # {}, \A g \in l : g = [label |-> g.label, killed |-> g.killed],
           NEW m, m = {[g EXCEPT !.killed = TRUE] : g \in l}
    PROVE  m # {} /\ \A g \in m : g = [label |-> g.label, killed |-> g.killed] /\ g.killed
<1>1. ASSUME NEW g \in l
      PROVE  LET h == [g EXCEPT !.killed = TRUE]
             IN  h = [label |-> h.label, killed |-> h.killed] /\ h.killed
  <2>1. PICK tt : tt = TRUE
    OBVIOUS
  <2>2. PICK h : h = [g EXCEPT !.killed = tt]
    OBVIOUS
  <2>3. h = [label |-> h.label, killed |-> h.killed] /\ h.killed = tt
    BY <2>2
  <2>4. h = [g EXCEPT !.killed = TRUE]
    BY <2>1, <2>2, Zenon
  <2>5. QED
    BY <2>1, <2>3, <2>4, Zenon
<1>2. m # {}
  BY Zenon
<1>3. ASSUME NEW h \in m PROVE h = [label |-> h.label, killed |-> h.killed] /\ h.killed
  <2>1. PICK g \in l : h = [g EXCEPT !.killed = TRUE]
    BY Zenon
  <2>2. QED
    BY <1>1, <2>1, Zenon
<1>4. QED
  BY <1>2, <1>3

\* kill_labelled takes a label's groups one by one: it marks each as killed and sends SIGTERM.
LEMMA ShKills ==
    ASSUME ShInv, Grace \in Nat \ {0}, Commands \subseteq Nat, NEW label, Sh!kill_labelled(label)
    PROVE  ShInv'
<1>1. PICK c : /\ c \in Sh!Labelled(label)
               /\ Sh!Terminate(c, Sh!take_labelled(c))
  <2>1. Sh!Labelled(label) \subseteq Nat /\ Sh!Labelled(label) # {}
    BY DEF Sh!Labelled, Sh!kill_labelled
  <2>2. \E x \in Sh!Labelled(label) : \A y \in Sh!Labelled(label) : x <= y
    BY <2>1, Smallest
  <2>3. QED
    BY <2>2 DEF Sh!kill_labelled
<1>2. c \in Commands /\ its.live[c] # {}
  BY <1>1 DEF Sh!Labelled
<1>3. PICK p, l, s, o, m :
        /\ p = its.cmd[c] /\ l = its.live[c] /\ s = its.signal.at /\ o = Sh!Termed(p)
        /\ m = {[g EXCEPT !.killed = TRUE] : g \in l}
  OBVIOUS
<1>4. PICK q : q = [o EXCEPT !.ended = TRUE]
  OBVIOUS
<1>5. Fine(p, l, s) /\ p.at \in {"waiting", "dropped"}
  BY <1>2, <1>3 DEF ShInv, Fine
<1>6. /\ Fine(o, l, s) /\ o.at = p.at /\ o.nature = p.nature
      /\ (o.leader /\ o.nature = "host") => \E n \in 0..Grace : o.heard = {n}
  BY <1>3, <1>5, TermedFine
<1>7. /\ CmdShape(q) /\ q.at = o.at /\ q.nature = o.nature /\ q.answer = o.answer
      /\ q.late = o.late /\ q.heard = o.heard
      /\ q.leader = o.leader /\ q.rest = o.rest /\ q.grand = o.grand /\ q.ended = TRUE
  <2>1. PICK tt : tt = TRUE
    OBVIOUS
  <2>2. q = [o EXCEPT !.ended = tt]
    BY <1>4, <2>1, Zenon
  <2>3. CmdShape(o)
    BY <1>6 DEF Fine
  <2>4. /\ CmdShape(q) /\ q.at = o.at /\ q.nature = o.nature /\ q.answer = o.answer
        /\ q.late = o.late /\ q.heard = o.heard
        /\ q.leader = o.leader /\ q.rest = o.rest /\ q.grand = o.grand /\ q.ended = tt
    BY <2>2, <2>3 DEF CmdShape
  <2>5. QED
    BY <2>1, <2>4, Zenon
<1>8. m # {} /\ \A g \in m : g = [label |-> g.label, killed |-> g.killed] /\ g.killed
  BY <1>2, <1>3, <1>5, Marked DEF Fine
<1>9. Fine(q, m, s)
  BY <1>5, <1>6, <1>7, <1>8 DEF Fine, CmdPlaces
<1>10. /\ its'.cmd = [its.cmd EXCEPT ![c] = q] /\ its'.live = [its.live EXCEPT ![c] = m]
       /\ its'.kill = [at |-> "waiting", of |-> c, left |-> 2 * Grace]
       /\ its'.signal = its.signal
       /\ its' = [cmd |-> its'.cmd, live |-> its'.live, kill |-> its'.kill, signal |-> its.signal,
                 serving |-> its.serving, ticks |-> its.ticks]
  <2>1. Sh!take_labelled(c) = [its.live EXCEPT ![c] = m]
    BY <1>2, <1>3 DEF Sh!take_labelled, ShInv, ShShape
  <2>2. PICK live : live = Sh!take_labelled(c)
    OBVIOUS
  <2>3. its' = [its EXCEPT !.live = live, !.cmd[c] = q,
                         !.kill = [at |-> "waiting", of |-> c, left |-> 2 * Grace]]
    BY <1>1, <1>3, <1>4, <2>2, Zenon DEF Sh!Terminate, Sh!Cmd
  <2>4. QED
    BY <2>1, <2>2, <2>3 DEF ShInv, ShShape
<1>11. ShShape'
  BY <1>10 DEF ShInv, ShShape
<1>12. /\ \A d \in Commands : its'.cmd[d] = (IF d = c THEN q ELSE its.cmd[d])
       /\ \A d \in Commands : its'.live[d] = (IF d = c THEN m ELSE its.live[d])
  BY <1>2, <1>10 DEF ShInv, ShShape
<1>13. KillInTime'
  <2>1. /\ its'.kill.at = "waiting" /\ its'.kill.of = c /\ its'.kill.left = 2 * Grace
        /\ its'.kill = [at |-> its'.kill.at, of |-> its'.kill.of, left |-> its'.kill.left]
        /\ its'.cmd[c] = q /\ 2 * Grace \in Nat
    BY <1>2, <1>10, <1>12
  <2>2. q.at \notin {"none", "spawned"}
    BY <1>5, <1>6, <1>7
  <2>3. (q.leader /\ q.nature = "host") =>
            \E n \in 0..Grace : q.heard = {n} /\ n + Grace <= 2 * Grace
    BY <1>6, <1>7
  <2>4. QED
    BY <1>2, <1>10, <2>1, <2>2, <2>3 DEF ShInv, KillInTime
<1>14. \A d \in Commands : Fine(its'.cmd[d], its'.live[d], its'.signal.at)
  BY <1>3, <1>9, <1>10, <1>12 DEF ShInv
<1>15. QED
  BY <1>11, <1>13, <1>14 DEF ShInv

\* What a group that outlives twice the grace is killed with: a nested host is not among them while
\* it still has commands of its own.
LEMMA ShReturns ==
    ASSUME ShInv, Grace \in Nat \ {0}, Sh!KillReturns
    PROVE  ShInv'
<1>1. PICK c : c = its.kill.of
  OBVIOUS
<1>2. c \in Commands /\ its.kill.at = "waiting"
  BY <1>1 DEF ShInv, KillInTime, Sh!KillReturns
<1>3. PICK p, s : p = its.cmd[c] /\ s = its.signal.at
  OBVIOUS
<1>4. Fine(p, its.live[c], s)
  BY <1>2, <1>3 DEF ShInv
<1>5. PICK q : /\ q = p \/ (q = Sh!Dead(p) /\ its.kill.left = 0)
               /\ its' = [its EXCEPT !.kill = [at |-> "idle", of |-> 0, left |-> 0], !.cmd[c] = q]
  <2>1. CASE ~p.leader /\ ~p.rest
    BY <1>1, <1>3, <2>1 DEF Sh!KillReturns, Sh!Cmd
  <2>2. CASE ~(~p.leader /\ ~p.rest)
    BY <1>1, <1>3, <2>2 DEF Sh!KillReturns, Sh!Cmd, Sh!Killed
  <2>3. QED
    BY <2>1, <2>2
<1>6. Fine(q, its.live[c], s)
  <2>1. CASE q = p
    BY <1>4, <2>1
  <2>2. CASE q = Sh!Dead(p) /\ its.kill.left = 0
    <3>1. (s = "none" /\ p.at \in {"spawned", "waiting"}) => ~p.grand
      <4>1. SUFFICES ASSUME s = "none", p.at = "waiting", p.leader, p.nature = "host"
                     PROVE  FALSE
        BY <1>1, <1>2, <1>3, <1>4 DEF ShInv, KillInTime, Fine
      <4>2. PICK n \in 0..Grace : n + Grace <= its.kill.left
        BY <1>1, <1>2, <1>3, <4>1 DEF ShInv, KillInTime
      <4>3. QED
        BY <2>2, <4>2
    <3>2. QED
      BY <1>4, <2>2, <3>1, DeadFine
  <2>3. QED
    BY <1>5, <2>1, <2>2
<1>7. /\ its'.cmd = [its.cmd EXCEPT ![c] = q] /\ its'.live = its.live /\ its'.signal = its.signal
      /\ its'.kill = [at |-> "idle", of |-> 0, left |-> 0]
      /\ its' = [cmd |-> its'.cmd, live |-> its'.live, kill |-> its'.kill, signal |-> its.signal,
                serving |-> its.serving, ticks |-> its.ticks]
  BY <1>5 DEF ShInv, ShShape
<1>8. ShShape'
  BY <1>7 DEF ShInv, ShShape
<1>9. KillInTime'
  BY <1>7 DEF ShInv, KillInTime
<1>10. \A d \in Commands : its'.cmd[d] = (IF d = c THEN q ELSE its.cmd[d])
  BY <1>2, <1>7 DEF ShInv, ShShape
<1>11. \A d \in Commands : Fine(its'.cmd[d], its'.live[d], its'.signal.at)
  BY <1>3, <1>6, <1>7, <1>10 DEF ShInv
<1>12. QED
  BY <1>8, <1>9, <1>11 DEF ShInv

\* The walks over LIVE_GROUPS, and the end of the host.
LEMMA ShSignals ==
    ASSUME ShInv, Grace \in Nat \ {0}, Sh!term_live_groups
    PROVE  ShInv'
<1>1. /\ its.signal.at = "none"
      /\ its'.cmd = Sh!signal_live_groups(its.live, "SIGTERM") /\ its'.live = its.live
      /\ its'.kill = its.kill /\ its'.signal = [at |-> "forwarded", left |-> Grace]
      /\ its' = [cmd |-> its'.cmd, live |-> its'.live, kill |-> its'.kill, signal |-> its'.signal,
                serving |-> its.serving, ticks |-> its.ticks]
  BY DEF ShInv, ShShape, Sh!term_live_groups
<1>2. \A d \in Commands :
        its'.cmd[d] = IF its.live[d] = {} THEN its.cmd[d] ELSE Sh!Termed(its.cmd[d])
  BY <1>1 DEF Sh!signal_live_groups, Sh!Cmd
<1>3. its'.cmd = [d \in Commands |-> its'.cmd[d]]
  BY <1>1 DEF Sh!signal_live_groups
<1>4. ShShape'
  BY <1>1, <1>3 DEF ShInv, ShShape
<1>5. KillInTime'
  BY <1>1 DEF ShInv, KillInTime
<1>6. ASSUME NEW d \in Commands PROVE Fine(its'.cmd[d], its'.live[d], its'.signal.at)
  <2>1. PICK p, q, l : p = its.cmd[d] /\ q = its'.cmd[d] /\ l = its.live[d]
    OBVIOUS
  <2>2. Fine(p, l, "none")
    BY <1>1, <1>6, <2>1 DEF ShInv
  <2>3. Fine(q, l, "none")
    BY <1>2, <1>6, <2>1, <2>2, TermedFine
  <2>4. Fine(q, l, "forwarded")
    BY <2>3 DEF Fine, Early
  <2>5. QED
    BY <1>1, <2>1, <2>4
<1>7. QED
  BY <1>4, <1>5, <1>6 DEF ShInv

\* kill_live_groups: SIGKILL to every group of the registry; what is being spawned is late.
LEMMA ShKillsAll ==
    ASSUME ShInv, Sh!kill_live_groups
    PROVE  ShInv'
<1> DEFINE Signalled(d) == Sh!signal_live_groups(its.live, "SIGKILL")[d]
<1>1. PICK cmd : cmd = [c \in Commands |->
                            [Signalled(c) EXCEPT !.late = @ \/ Sh!Cmd(c).at = "spawned"]]
  OBVIOUS
<1>2. /\ its.signal.at = "forwarded"
      /\ its' = [its EXCEPT !.cmd = cmd, !.live = [c \in Commands |-> {}], !.signal.at = "killed"]
  BY <1>1, Zenon DEF Sh!kill_live_groups
<1>3. /\ its'.cmd = cmd /\ its'.live = [c \in Commands |-> {}]
      /\ its'.kill = its.kill /\ its'.signal = [its.signal EXCEPT !.at = "killed"]
      /\ its' = [cmd |-> its'.cmd, live |-> its'.live, kill |-> its'.kill, signal |-> its'.signal,
                serving |-> its.serving, ticks |-> its.ticks]
  BY <1>2 DEF ShInv, ShShape
<1>4. its'.signal.at = "killed" /\ its'.signal = [at |-> its'.signal.at, left |-> its'.signal.left]
  BY <1>3 DEF ShInv, KillInTime
<1>5. ShShape'
  <2>1. cmd = [d \in Commands |-> cmd[d]]
    BY <1>1
  <2>2. QED
    BY <1>3, <2>1 DEF ShShape
<1>6. KillInTime'
  BY <1>3, <1>4 DEF ShInv, KillInTime
<1>7. ASSUME NEW d \in Commands PROVE Fine(its'.cmd[d], its'.live[d], its'.signal.at)
  <2>1. PICK p, l, o, q : /\ p = its.cmd[d] /\ l = its.live[d]
                          /\ o = (IF l = {} THEN p ELSE Sh!Dead(p)) /\ q = its'.cmd[d]
    OBVIOUS
  <2>2. Fine(p, l, "forwarded")
    BY <1>2, <1>7, <2>1 DEF ShInv
  <2>3. Fine(o, l, "forwarded")
    BY <2>1, <2>2, DeadFine
  <2>4. Signalled(d) = o
    BY <1>7, <2>1 DEF Sh!signal_live_groups, Sh!Cmd, Sh!Killed
  <2>5. PICK late : late = (o.late \/ p.at = "spawned")
    BY Zenon
  <2>6. q = [o EXCEPT !.late = late]
    <3>1. cmd[d] = [Signalled(d) EXCEPT !.late = @ \/ Sh!Cmd(d).at = "spawned"]
      BY <1>1, <1>7, Zenon
    <3>2. Signalled(d).late = o.late /\ Sh!Cmd(d).at = p.at
      BY <2>1, <2>4 DEF Sh!Cmd
    <3> HIDE DEF Signalled
    <3>3. cmd[d] = [o EXCEPT !.late = o.late \/ p.at = "spawned"]
      BY <2>4, <3>1, <3>2, Zenon
    <3>4. q = cmd[d]
      BY <1>3, <2>1
    <3>5. QED
      BY <2>5, <3>3, <3>4, Zenon
  <2>7. /\ CmdShape(q) /\ q.at = o.at /\ q.nature = o.nature /\ q.answer = o.answer
        /\ q.ended = o.ended /\ q.heard = o.heard
        /\ q.leader = o.leader /\ q.rest = o.rest /\ q.grand = o.grand /\ q.late = late
    BY <2>3, <2>6 DEF Fine, CmdShape
  <2>8. o.at = p.at /\ (l # {} => ~o.leader /\ ~o.rest)
    <3>1. CmdShape(p)
      BY <2>2 DEF Fine
    <3>2. QED
      BY <2>1, <3>1 DEF CmdShape, Sh!Dead
  <2>9. (q.at # "answered" /\ ~q.late) => ~q.leader /\ ~q.rest
    <3>1. p.at = "spawned" => late
      BY <2>5
    <3>2. l = {} => p.at \in {"none", "spawned", "answered"}
      BY <2>2 DEF Fine, CmdPlaces, Early
    <3>3. p.at = "none" => ~p.leader /\ ~p.rest
      BY <2>2 DEF Fine
    <3>4. QED
      BY <2>1, <2>7, <2>8, <3>1, <3>2, <3>3
  <2>10. Fine(q, {}, "killed")
    BY <2>3, <2>7, <2>9 DEF Fine, Early
  <2>11. QED
    BY <1>3, <1>4, <1>7, <2>1, <2>10
<1>8. QED
  BY <1>5, <1>6, <1>7 DEF ShInv

\* install_signal_cleanup: the host leaves after the last signal to its groups.
LEMMA ShLeaves ==
    ASSUME ShInv, Sh!install_signal_cleanup
    PROVE  ShInv'
<1>1. /\ its.signal.at = "killed" /\ its'.cmd = its.cmd /\ its'.live = its.live
      /\ its'.kill = its.kill /\ its'.signal = [its.signal EXCEPT !.at = "exited"]
      /\ its' = [cmd |-> its'.cmd, live |-> its'.live, kill |-> its'.kill, signal |-> its'.signal,
                serving |-> its.serving, ticks |-> its.ticks]
  BY DEF ShInv, ShShape, Sh!install_signal_cleanup
<1>2. its'.signal.at = "exited" /\ its'.signal = [at |-> its'.signal.at, left |-> its'.signal.left]
  BY <1>1 DEF ShInv, KillInTime
<1>3. ShShape' /\ KillInTime'
  BY <1>1, <1>2 DEF ShInv, ShShape, KillInTime
<1>4. ASSUME NEW p, NEW l, Fine(p, l, "killed") PROVE Fine(p, l, "exited")
  BY <1>4 DEF Fine, Early
<1>5. QED
  BY <1>1, <1>2, <1>3, <1>4 DEF ShInv

\* The timers of nested hosts count down, and one that is out is not passed over.
Down(h) == {n - 1 : n \in h \ {0}}
LEMMA CountedDown ==
    ASSUME Grace \in Nat, NEW h, NEW k, k = Down(h),
           h = {} \/ \E n \in 0..Grace : h = {n}
    PROVE  /\ k = {} \/ \E n \in 0..Grace : k = {n}
           /\ \A n \in 1..Grace : h = {n} => k = {n - 1}
<1>1. CASE h = {} \/ h = {0}
  <2>1. h \ {0} = {}
    BY <1>1
  <2>2. k = {}
    BY <2>1 DEF Down
  <2>3. QED
    BY <1>1, <2>2
<1>2. ASSUME NEW n \in 1..Grace, h = {n} PROVE k = {n - 1} /\ n - 1 \in 0..Grace
  <2>1. h \ {0} = {n}
    BY <1>2
  <2>2. QED
    BY <2>1 DEF Down
<1>3. QED
  BY <1>1, <1>2

\* A tick of time: timers of nested hosts run out before the time of an sh.kill does.
LEMMA ShTicks ==
    ASSUME ShInv, Grace \in Nat \ {0}, Sh!tick
    PROVE  ShInv'
<1>1. PICK cmd : cmd = [c \in Commands |-> [its.cmd[c] EXCEPT !.heard = {n - 1 : n \in @ \ {0}}]]
  OBVIOUS
<1>2. PICK left, due : /\ left = IF its.kill.left = 0 THEN 0 ELSE its.kill.left - 1
                       /\ due = IF its.signal.left = 0 THEN 0 ELSE its.signal.left - 1
  OBVIOUS
<1>3. /\ its' = [its EXCEPT !.ticks = @ + 1, !.kill.left = left, !.signal.left = due, !.cmd = cmd]
      /\ ~(its.kill.at = "waiting" /\ its.kill.left = 0)
      /\ \A c \in Commands : ~(its.cmd[c].leader /\ its.cmd[c].heard = {0})
  BY <1>1, <1>2 DEF Sh!tick, Sh!Cmd
<1>4. /\ its'.cmd = cmd /\ its'.live = its.live
      /\ its'.kill = [its.kill EXCEPT !.left = left]
      /\ its'.signal = [its.signal EXCEPT !.left = due]
      /\ its' = [cmd |-> its'.cmd, live |-> its'.live, kill |-> its'.kill, signal |-> its'.signal,
                serving |-> its.serving, ticks |-> its'.ticks]
  BY <1>3 DEF ShInv, ShShape
<1>5. /\ its'.kill = [at |-> its'.kill.at, of |-> its'.kill.of, left |-> its'.kill.left]
      /\ its'.kill.at = its.kill.at /\ its'.kill.of = its.kill.of /\ its'.kill.left = left
      /\ its'.signal = [at |-> its'.signal.at, left |-> its'.signal.left]
      /\ its'.signal.at = its.signal.at
  BY <1>4 DEF ShInv, KillInTime
<1>6. ShShape'
  <2>1. cmd = [d \in Commands |-> cmd[d]]
    BY <1>1
  <2>2. QED
    BY <1>4, <2>1 DEF ShInv, ShShape
<1>7. ASSUME NEW d \in Commands
      PROVE  /\ Fine(cmd[d], its.live[d], its.signal.at)
             /\ cmd[d].at = its.cmd[d].at /\ cmd[d].leader = its.cmd[d].leader
             /\ cmd[d].nature = its.cmd[d].nature
             /\ \A n \in 1..Grace : its.cmd[d].heard = {n} => cmd[d].heard = {n - 1}
  <2>1. PICK p, k, q : /\ p = its.cmd[d] /\ k = {n - 1 : n \in p.heard \ {0}}
                       /\ q = [p EXCEPT !.heard = k]
    OBVIOUS
  <2>2. Fine(p, its.live[d], its.signal.at) /\ CmdShape(p)
    BY <1>7, <2>1 DEF ShInv, Fine
  <2>3. cmd[d] = q
    BY <1>1, <1>7, <2>1
  <2>4. /\ k = {} \/ \E n \in 0..Grace : k = {n}
        /\ \A n \in 1..Grace : p.heard = {n} => k = {n - 1}
    <3>1. PICK h : h = p.heard
      OBVIOUS
    <3>2. h = {} \/ \E n \in 0..Grace : h = {n}
      BY <2>2, <3>1 DEF Fine
    <3>3. k = Down(h) /\ Grace \in Nat
      BY <2>1, <3>1 DEF Down
    <3>4. QED
      BY <3>1, <3>2, <3>3, CountedDown
  <2>5. /\ CmdShape(q) /\ q.at = p.at /\ q.nature = p.nature /\ q.answer = p.answer
        /\ q.ended = p.ended /\ q.late = p.late /\ q.heard = k
        /\ q.leader = p.leader /\ q.rest = p.rest /\ q.grand = p.grand
    BY <2>1, <2>2 DEF CmdShape
  <2>6. Fine(q, its.live[d], its.signal.at)
    BY <2>2, <2>4, <2>5, Weaker DEF Fine
  <2>7. QED
    BY <2>1, <2>3, <2>4, <2>5, <2>6
<1>8. KillInTime'
  <2>1. left \in Nat
    BY <1>2 DEF ShInv, KillInTime
  <2>2. ASSUME its.kill.at = "waiting", its.signal.at = "none"
        PROVE  LET q == cmd[its.kill.of]
               IN  /\ q.at \notin {"none", "spawned"}
                   /\ (q.at = "waiting" /\ q.leader /\ q.nature = "host") =>
                        \E n \in 0..Grace : q.heard = {n} /\ n + Grace <= left
    <3>1. PICK d : d = its.kill.of
      OBVIOUS
    <3>2. d \in Commands
      BY <2>2, <3>1 DEF ShInv, KillInTime
    <3>3. cmd[d].at \notin {"none", "spawned"}
      BY <1>7, <2>2, <3>1, <3>2 DEF ShInv, KillInTime
    <3>4. ASSUME cmd[d].at = "waiting", cmd[d].leader, cmd[d].nature = "host"
          PROVE  \E n \in 0..Grace : cmd[d].heard = {n} /\ n + Grace <= left
      <4>1. its.cmd[d].at = "waiting" /\ its.cmd[d].leader /\ its.cmd[d].nature = "host"
        BY <1>7, <3>2, <3>4
      <4>2. PICK n \in 0..Grace : its.cmd[d].heard = {n} /\ n + Grace <= its.kill.left
        BY <2>2, <3>1, <4>1 DEF ShInv, KillInTime
      <4>3. n # 0
        BY <1>3, <3>2, <4>1, <4>2
      <4>4. cmd[d].heard = {n - 1} /\ n - 1 \in 0..Grace
        BY <1>7, <3>2, <4>2, <4>3
      <4>5. its.kill.left \in Nat
        BY DEF ShInv, KillInTime
      <4>6. n - 1 + Grace <= left
        BY <1>2, <4>2, <4>3, <4>5
      <4>7. QED
        BY <4>4, <4>6
    <3>5. QED
      BY <3>1, <3>3, <3>4
  <2>3. QED
    BY <1>4, <1>5, <2>1, <2>2 DEF ShInv, KillInTime
<1>9. \A d \in Commands : Fine(its'.cmd[d], its'.live[d], its'.signal.at)
  BY <1>4, <1>5, <1>7
<1>10. QED
  BY <1>6, <1>8, <1>9 DEF ShInv

\* The commands of sh end as promised (sh.rs): sh.kill is told to whoever awaits the command it
\* ended and to nobody else, a timeout leaves nothing of the group, a signalled host that is gone
\* left nothing behind that was awaited or dropped, and a nested host that was ended by its label
\* had the time to end its own: twice a grace that is not zero is longer than the one it takes.
THEOREM EveryCommandEnds == Spec => []CommandsEnd
<1> DEFINE Inv == part = "sh" => ShInv
<1>1. Inv /\ [Next]_vars => Inv'
  <2> SUFFICES ASSUME Inv, [Next]_vars, part' = "sh" PROVE ShInv'
    OBVIOUS
  <2>1. ShInv /\ [Sh!Next]_its
    BY OnePart
  <2>2. CASE UNCHANGED its
    BY <2>1, <2>2 DEF ShInv, ShShape, KillInTime
  <2>3. CASE Sh!Next
    BY <2>1, <2>3, ShellAssumption, ShSpawns, ShRemembers, ShExits, ShAnswers, ShDrops, ShKills,
       ShReturns, ShSignals, ShKillsAll, ShLeaves, ShTicks DEF Sh!Next
  <2>4. QED
    BY <2>1, <2>2, <2>3
<1>2. Inv => CommandsEnd
  <2>1. SUFFICES ASSUME ShInv PROVE Sh!CommandsEnd
    BY DEF CommandsEnd
  <2>2. ASSUME NEW c \in Commands
        PROVE  /\ its.signal.at \in {"none", "forwarded"} =>
                    (its.cmd[c].answer \in {"ok", "killed"} =>
                        (its.cmd[c].answer = "killed") = its.cmd[c].ended)
               /\ its.cmd[c].answer = "timed_out" => ~its.cmd[c].leader /\ ~its.cmd[c].rest
               /\ its.signal.at = "exited" => ((its.cmd[c].at # "answered" /\ ~its.cmd[c].late) =>
                    ~its.cmd[c].leader /\ ~its.cmd[c].rest)
               /\ (its.cmd[c].answer = "killed" /\ its.signal.at = "none") => ~its.cmd[c].grand
    <3>1. PICK p, s : p = its.cmd[c] /\ s = its.signal.at
      OBVIOUS
    <3>2. Fine(p, its.live[c], s)
      BY <2>1, <2>2, <3>1 DEF ShInv
    <3>3. s \in {"none", "forwarded"} => (p.answer \in {"ok", "killed"} =>
              (p.answer = "killed") = p.ended)
      BY <3>2, Zenon DEF Fine, Early
    <3>4. /\ p.answer = "timed_out" => ~p.leader /\ ~p.rest
          /\ s = "exited" => ((p.at # "answered" /\ ~p.late) => ~p.leader /\ ~p.rest)
          /\ (p.answer = "killed" /\ s = "none") => ~p.grand
      BY <3>2 DEF Fine
    <3>5. QED
      BY <3>1, <3>3, <3>4, Zenon
  <2>3. QED
    BY <2>2 DEF Sh!CommandsEnd, Sh!KilledIsTold, Sh!TimedOutIsGone, Sh!ExitReachesAll,
       Sh!NestedHostLeavesNothing, Sh!Cmd
<1>3. Init => Inv
  BY ShInitially DEF Init
<1>4. QED
  BY <1>1, <1>2, <1>3, PTL DEF Spec

----------------------------------------------------------------------------
(* Vendoring *)

\* The files a run has still to look at or to write.
Paths == Seq(Places)
\* The record of a run of `agent-block vendor` has these fields.
RunShape(q) ==
    q = [at |-> q.at, force |-> q.force, check |-> q.check, write |-> q.write, held |-> q.held,
         kept |-> q.kept, wrote |-> q.wrote]
\* The record of the files and the runs has these fields.
MdShape ==
    /\ its = [disk |-> its.disk, run |-> its.run, edits |-> its.edits]
    /\ its.disk = [p \in Places |-> its.disk[p]]
    /\ its.run = [r \in Runs |-> its.run[r]]
    /\ \A r \in Runs : RunShape(its.run[r])

\* The files of a list.
Elements(s) == {s[k] : k \in 1..Len(s)}

\* What a run still has to do keeps to its promise.
Careful(q, disk) ==
    /\ q.check \in Paths /\ q.write \in Paths
    /\ q.held \subseteq Places /\ q.wrote \subseteq Places
    /\ q.kept = TRUE
    /\ q.at \in {"idle", "check", "refused"} => q.wrote = {}
    /\ \A p \in q.held : disk[p] # "none"
    /\ \A p \in q.wrote : disk[p] = "copy"
    /\ q.at \in {"check", "write"} /\ ~q.force =>
          \A p \in Elements(q.write) : p \in q.held => p \in Elements(q.check) /\ q.at = "check"

\* The inductive invariant of vendoring.
MdInv == MdShape /\ \A r \in Runs : Careful(its.run[r], its.disk)

\* The list of a finite set has every member of it, as the sub-modules that are vendored.
LEMMA Listed ==
    ASSUME NEW S, IsFiniteSet(S)
    PROVE  /\ Md!SetToSeq(S) \in Seq(S)
           /\ \A x \in S : \E k \in DOMAIN Md!SetToSeq(S) : Md!SetToSeq(S)[k] = x
<1> DEFINE n == Cardinality(S)
           P(f) == f \in [1..n -> S] /\ Md!IsInjective(f)
<1>1. n \in Nat /\ ExistsBijection(1..n, S)
  BY FS_CardinalityType
<1>2. PICK f : f \in Bijection(1..n, S)
  BY <1>1 DEF ExistsBijection
<1>3. f \in [1..n -> S] /\ \A a, b \in DOMAIN f : f[a] = f[b] => a = b
  BY <1>2 DEF Bijection, Injection, IsInjective
<1>4. P(f)
  BY <1>3 DEF Md!IsInjective
<1>5. PICK g : g = Md!SetToSeq(S)
  OBVIOUS
<1>61. Md!Cardinality(S) = Cardinality(S)
  BY Zenon DEF Md!Cardinality, Cardinality
<1>6. P(g)
  BY <1>4, <1>5, <1>61 DEF Md!SetToSeq
<1>7. g \in Injection(1..n, S)
  BY <1>6 DEF Md!IsInjective, Injection, IsInjective
<1>8. IsFiniteSet(1..n) /\ Cardinality(1..n) = n
  BY <1>1, FS_Interval
<1>9. g \in Surjection(1..n, S)
  BY <1>7, <1>8, FS_Injection
<1>10. \A x \in S : \E k \in 1..n : g[k] = x
  BY <1>9 DEF Surjection
<1>11. g \in Seq(S) /\ DOMAIN g = 1..n
  BY <1>6, <1>1
<1>12. QED
  BY <1>5, <1>10, <1>11

\* One list joined is that list: the files of one name.
LEMMA FlatOne == ASSUME NEW s PROVE Md!FlattenSeq(<<s>>) = s
<1> DEFINE D(f) == [i \in 1..1 |-> IF i = 1 THEN <<s>>[i] ELSE f[i - 1] \o <<s>>[i]]
<1>1. Len(<<s>>) = 1 /\ <<s>>[1] = s
  OBVIOUS
<1>2. Md!FlattenSeq(<<s>>) = (CHOOSE f : f = D(f))[1]
  BY <1>1 DEF Md!FlattenSeq
<1>3. [i \in 1..1 |-> s] = D([i \in 1..1 |-> s])
  OBVIOUS
<1>4. PICK g : g = (CHOOSE f : f = D(f))
  OBVIOUS
<1>5. g = D(g)
  BY <1>3, <1>4
<1>6. g[1] = s
  BY <1>5
<1>7. QED
  BY <1>2, <1>4, <1>6

\* The files of a module are its root and each of its sub-modules (resolve).
LEMMA Resolved ==
    ASSUME Files, NEW e \in Carried
    PROVE  /\ Md!resolve(<<e[1]>>) \in Paths
           /\ Md!module_path(<<e[1]>>) \in Md!Range(Md!resolve(<<e[1]>>))
           /\ Len(e) > 1 => Md!SubPath(e) \in Md!Range(Md!resolve(<<e[1]>>))
<1> DEFINE root == <<e[1]>>
           S == {x \in Carried : Len(x) > 1 /\ x[1] = root[1]}
           T == {p \in Places : p.tier = "vendored" /\ p.name = root /\ p.form = "spec"}
<1>1. IsFiniteSet(S) /\ IsFiniteSet(T)
  BY FS_Subset DEF Files
<1>2. PICK subs : subs = Md!SetToSeq(S)
  OBVIOUS
<1>3. PICK specs : specs = Md!SetToSeq(T)
  OBVIOUS
<1>4. subs \in Seq(S) /\ \A x \in S : \E k \in DOMAIN subs : subs[k] = x
  BY <1>1, <1>2, Listed
<1>5. specs \in Seq(Places)
  <2>1. specs \in Seq(T)
    BY <1>1, <1>3, Listed
  <2>2. QED
    BY <2>1
<1>6. PICK subpaths : subpaths = [k \in DOMAIN subs |-> Md!SubPath(subs[k])]
  OBVIOUS
<1>7. subpaths \in Seq(Places)
  <2>1. Len(subs) \in Nat /\ DOMAIN subs = 1..Len(subs)
    BY <1>4
  <2>2. \A k \in 1..Len(subs) : Md!SubPath(subs[k]) \in Places
    BY <1>4, <2>1 DEF Files
  <2>3. subpaths \in [1..Len(subs) -> Places]
    BY <1>6, <2>1, <2>2
  <2>4. QED
    BY <2>1, <2>3
<1>8. PICK m : m = Md!module_path(root) /\ m \in Places
  BY DEF Files
<1>9. Md!resolve(root) = <<m>> \o subpaths \o specs
  BY <1>2, <1>3, <1>6, <1>8 DEF Md!resolve, Md!subs_of, Md!specs_of
<1>10. PICK all : all = <<m>> \o subpaths \o specs
  OBVIOUS
<1>11. all \in Seq(Places)
  BY <1>5, <1>7, <1>8, <1>10
<1>12. all[1] = m /\ 1 \in DOMAIN all
  BY <1>5, <1>7, <1>8, <1>10
<1>13. ASSUME Len(e) > 1
       PROVE  Md!SubPath(e) \in Md!Range(all)
  <2>1. e \in S
    BY <1>13
  <2>2. PICK k \in DOMAIN subs : subs[k] = e
    BY <1>4, <2>1
  <2>3. k \in 1..Len(subpaths) /\ subpaths[k] = Md!SubPath(e)
    BY <1>4, <1>6, <2>2
  <2>4. k + 1 \in DOMAIN all /\ all[k + 1] = subpaths[k]
    BY <1>5, <1>7, <1>8, <1>10, <2>3
  <2>5. QED
    BY <2>3, <2>4 DEF Md!Range
<1>14. QED
  BY <1>8, <1>9, <1>10, <1>11, <1>12, <1>13 DEF Md!Range, Paths

\* No run has started.
LEMMA MdInitially == Md!Init => MdInv
<1> SUFFICES ASSUME Md!Init PROVE MdInv
  OBVIOUS
<1>1. PICK own :
        its = [disk |-> [p \in Places |-> IF p \in own THEN "own" ELSE "none"],
              run |-> [r \in Runs |-> Md!Idle], edits |-> 0]
  BY DEF Md!Init
<1>2. MdShape
  BY <1>1 DEF MdShape, RunShape, Md!Idle
<1>3. ASSUME NEW r \in Runs PROVE Careful(its.run[r], its.disk)
  <2>1. its.run[r] = Md!Idle
    BY <1>1
  <2>2. QED
    BY <2>1 DEF Careful, Md!Idle, Paths, Elements
<1>4. QED
  BY <1>2, <1>3 DEF MdInv

\* The other runs are as careful as before where a run writes its files.
LEMMA RunBecomes ==
    ASSUME MdInv, NEW r \in Runs, NEW q, NEW d,
           its' = [its EXCEPT !.run[r] = q, !.disk = d],
           d = [p \in Places |-> d[p]],
           \A p \in Places : d[p] = its.disk[p] \/ d[p] = "copy",
           RunShape(q), Careful(q, d)
    PROVE  MdInv'
<1>1. its = [disk |-> its.disk, run |-> its.run, edits |-> its.edits]
      /\ its.run = [o \in Runs |-> its.run[o]]
  BY DEF MdInv, MdShape
<1>2. its'.disk = d /\ its'.run = [its.run EXCEPT ![r] = q]
      /\ its' = [disk |-> its'.disk, run |-> its'.run, edits |-> its'.edits]
  BY <1>1
<1>3. \A o \in Runs : its'.run[o] = IF o = r THEN q ELSE its.run[o]
  BY <1>1, <1>2
<1>4. its'.run = [o \in Runs |-> its'.run[o]]
  BY <1>1, <1>2
<1>5. \A o \in Runs : RunShape(its'.run[o])
  BY <1>3 DEF MdInv, MdShape
<1>6. MdShape'
  BY <1>2, <1>4, <1>5 DEF MdShape
<1>7. ASSUME NEW o \in Runs PROVE Careful(its'.run[o], d)
  <2>1. CASE o = r
    BY <1>3, <2>1
  <2>2. CASE o # r
    <3>1. Careful(its.run[o], its.disk)
      BY DEF MdInv
    <3>2. Careful(its.run[o], d)
      BY <3>1 DEF Careful
    <3>3. QED
      BY <1>3, <2>2, <3>2
  <2>3. QED
    BY <2>1, <2>2
<1>8. QED
  BY <1>2, <1>6, <1>7 DEF MdInv

\* A step of one run that writes nothing.
LEMMA OneRunBecomes ==
    ASSUME MdInv, NEW r \in Runs, NEW q, its' = [its EXCEPT !.run[r] = q],
           RunShape(q), Careful(q, its.disk)
    PROVE  MdInv'
<1>1. PICK d : d = its.disk
  OBVIOUS
<1>2. its = [disk |-> its.disk, run |-> its.run, edits |-> its.edits]
      /\ d = [p \in Places |-> d[p]]
  BY <1>1 DEF MdInv, MdShape
<1>3. its' = [its EXCEPT !.run[r] = q, !.disk = d]
  BY <1>1, <1>2
<1>4. Careful(q, d)
  BY <1>1
<1>5. \A p \in Places : d[p] = its.disk[p] \/ d[p] = "copy"
  BY <1>1
<1>6. QED
  BY <1>2, <1>3, <1>4, <1>5, RunBecomes

\* The files are listed, each to be checked before one is written.
LEMMA MdStarts ==
    ASSUME Files, MdInv, NEW r \in Runs, NEW names, NEW force \in BOOLEAN,
           names \in {<<e>> : e \in Carried} \cup {<<<<"nowhere">>>>},
           Md!Start(r, names, force)
    PROVE  MdInv'
<1>1. PICK q : q = its.run[r]
  OBVIOUS
<1>2. RunShape(q) /\ Careful(q, its.disk) /\ q.at = "idle"
  BY <1>1 DEF MdInv, MdShape, Md!Start
<1>3. its.run = [o \in Runs |-> its.run[o]]
      /\ its = [disk |-> its.disk, run |-> its.run, edits |-> its.edits]
  BY DEF MdInv, MdShape
<1>4. PICK files : files = Md!FlattenSeq([k \in DOMAIN names |-> Md!resolve(names[k])])
  OBVIOUS
<1>5. PICK refused : refused = \E k \in DOMAIN names : Len(names[k]) > 1 \/ ~Md!find(names[k])
  OBVIOUS
<1>6. PICK held : held = {p \in Places : its.disk[p] \notin {"none", "copy"}}
  OBVIOUS
<1>7. CASE refused
  <2>1. PICK n : n = [q EXCEPT !.at = "refused"]
    OBVIOUS
  <2>2. its' = [its EXCEPT !.run[r] = n]
    BY <1>1, <1>3, <1>5, <1>7, <2>1 DEF Md!Start
  <2>3. n = [at |-> "refused", force |-> q.force, check |-> q.check, write |-> q.write,
             held |-> q.held, kept |-> q.kept, wrote |-> q.wrote]
    BY <1>2, <2>1 DEF RunShape
  <2>4. RunShape(n) /\ Careful(n, its.disk)
    BY <1>2, <2>3 DEF RunShape, Careful
  <2>5. QED
    BY <2>2, <2>4, OneRunBecomes
<1>8. CASE ~refused
  <2>1. PICK at : at = IF force THEN "write" ELSE "check"
    OBVIOUS
  <2>2. PICK n : n = [q EXCEPT !.at = at, !.force = force, !.check = files, !.write = files,
                               !.held = held]
    OBVIOUS
  <2>3. its' = [its EXCEPT !.run[r] = n]
    BY <1>1, <1>3, <1>4, <1>5, <1>6, <1>8, <2>1, <2>2 DEF Md!Start
  <2>4. n = [at |-> at, force |-> force, check |-> files, write |-> files,
             held |-> held, kept |-> q.kept, wrote |-> q.wrote]
    BY <1>2, <2>2 DEF RunShape
  <2>5. PICK e : names = <<e>> /\ (e \in Carried \/ e = <<"nowhere">>)
    OBVIOUS
  <2>6. e \in Carried /\ Len(e) <= 1
    <3>1. Len(e) > 1 \/ ~Md!find(e) => refused
      BY <1>5, <2>5
    <3>2. Md!find(e) /\ ~(Len(e) > 1)
      BY <1>8, <3>1
    <3>3. e \in Carried
      BY <3>2 DEF Md!find
    <3>4. QED
      BY <3>2, <3>3 DEF Files
  <2>7. e = <<e[1]>>
    BY <2>6 DEF Files
  <2>8. PICK s : s = Md!resolve(e)
    OBVIOUS
  <2>9. s \in Paths
    BY <2>6, <2>7, <2>8, Resolved
  <2>10. [k \in DOMAIN names |-> Md!resolve(names[k])] = <<s>>
    BY <2>5, <2>8
  <2>11. files = s
    BY <1>4, <2>10, FlatOne
  <2>12. RunShape(n)
    BY <2>4 DEF RunShape
  <2>13. Careful(n, its.disk)
    <3>1. n.check = files /\ n.write = files /\ n.held = held /\ n.at = at /\ n.force = force
          /\ n.kept = TRUE /\ n.wrote = {}
      BY <1>2, <2>4 DEF Careful
    <3>2. at # "check" => force
      BY <2>1
    <3>3. at \in {"check", "write"}
      BY <2>1
    <3>4. held \subseteq Places /\ \A p \in held : its.disk[p] # "none"
      BY <1>6
    <3>5. QED
      BY <2>9, <2>11, <3>1, <3>2, <3>3, <3>4 DEF Careful
  <2>14. QED
    BY <2>3, <2>12, <2>13, OneRunBecomes
<1>9. QED
  BY <1>7, <1>8

\* The first of the files of a list and those behind it.
LEMMA HeadAndTail ==
    ASSUME NEW s \in Paths, s # << >>
    PROVE  /\ Head(s) \in Places /\ Head(s) \in Elements(s)
           /\ Tail(s) \in Paths
           /\ \A p : p \in Elements(s) <=> p = Head(s) \/ p \in Elements(Tail(s))
<1>1. s \in Seq(Places) /\ Len(s) \in Nat \ {0}
  BY DEF Paths
<1>2. Head(s) = s[1] /\ 1 \in 1..Len(s) /\ Head(s) \in Places
  BY <1>1
<1>3. Tail(s) \in Seq(Places) /\ Len(Tail(s)) = Len(s) - 1
      /\ \A k \in 1..Len(s) - 1 : Tail(s)[k] = s[k + 1]
  BY <1>1
<1>4. \A p : p \in Elements(Tail(s)) <=> \E k \in 1..Len(s) - 1 : p = s[k + 1]
  BY <1>3 DEF Elements
<1>5. \A p : p \in Elements(s) <=> \E k \in 1..Len(s) : p = s[k]
  BY DEF Elements
<1>6. ASSUME NEW p
      PROVE  p \in Elements(s) <=> p = Head(s) \/ p \in Elements(Tail(s))
  <2>1. ASSUME NEW k \in 1..Len(s) PROVE s[k] = s[1] \/ \E j \in 1..Len(s) - 1 : s[k] = s[j + 1]
    <3>1. k = 1 \/ (k - 1 \in 1..Len(s) - 1 /\ (k - 1) + 1 = k)
      BY <1>1
    <3>2. QED
      BY <3>1
  <2>2. \A k \in 1..Len(s) - 1 : k + 1 \in 1..Len(s)
    BY <1>1
  <2>3. p \in Elements(s) => p = Head(s) \/ p \in Elements(Tail(s))
    BY <1>2, <1>4, <1>5, <2>1
  <2>4. p = Head(s) \/ p \in Elements(Tail(s)) => p \in Elements(s)
    BY <1>2, <1>4, <1>5, <2>2
  <2>5. QED
    BY <2>3, <2>4
<1>7. QED
  BY <1>2, <1>3, <1>6, <1>5 DEF Paths

\* A file that is there and is not a copy refuses the run, unless it is forced.
LEMMA MdChecks ==
    ASSUME MdInv, NEW r \in Runs, Md!Check(r)
    PROVE  MdInv'
<1>1. PICK q : q = its.run[r]
  OBVIOUS
<1>2. RunShape(q) /\ Careful(q, its.disk) /\ q.at = "check"
  BY <1>1 DEF MdInv, MdShape, Md!Check
<1>3. its.run = [o \in Runs |-> its.run[o]]
      /\ its = [disk |-> its.disk, run |-> its.run, edits |-> its.edits]
  BY DEF MdInv, MdShape
<1>4. CASE q.check = << >>
  <2>1. PICK n : n = [q EXCEPT !.at = "write"]
    OBVIOUS
  <2>2. its' = [its EXCEPT !.run[r] = n]
    BY <1>1, <1>3, <1>4, <2>1 DEF Md!Check
  <2>3. n = [at |-> "write", force |-> q.force, check |-> q.check, write |-> q.write,
             held |-> q.held, kept |-> q.kept, wrote |-> q.wrote]
    BY <1>2, <2>1 DEF RunShape
  <2>4. Elements(q.check) = {}
    BY <1>4 DEF Elements
  <2>5. RunShape(n) /\ Careful(n, its.disk)
    BY <1>2, <2>3, <2>4 DEF RunShape, Careful
  <2>6. QED
    BY <2>2, <2>5, OneRunBecomes
<1>5. CASE q.check # << >> /\ its.disk[Head(q.check)] # "none"
  <2>1. PICK n : n = [q EXCEPT !.at = "refused"]
    OBVIOUS
  <2>2. its' = [its EXCEPT !.run[r] = n]
    BY <1>1, <1>3, <1>5, <2>1 DEF Md!Check
  <2>3. n = [at |-> "refused", force |-> q.force, check |-> q.check, write |-> q.write,
             held |-> q.held, kept |-> q.kept, wrote |-> q.wrote]
    BY <1>2, <2>1 DEF RunShape
  <2>4. RunShape(n) /\ Careful(n, its.disk)
    BY <1>2, <2>3 DEF RunShape, Careful
  <2>5. QED
    BY <2>2, <2>4, OneRunBecomes
<1>6. CASE q.check # << >> /\ its.disk[Head(q.check)] = "none"
  <2>1. PICK n : n = [q EXCEPT !.check = Tail(q.check)]
    OBVIOUS
  <2>2. its' = [its EXCEPT !.run[r] = n]
    BY <1>1, <1>3, <1>6, <2>1 DEF Md!Check
  <2>3. n = [at |-> q.at, force |-> q.force, check |-> Tail(q.check), write |-> q.write,
             held |-> q.held, kept |-> q.kept, wrote |-> q.wrote]
    BY <1>2, <2>1 DEF RunShape
  <2>4. q.check \in Paths /\ Head(q.check) \notin q.held
    BY <1>2, <1>6 DEF Careful
  <2>5. Tail(q.check) \in Paths
        /\ \A p \in Elements(q.check) : p \in q.held => p \in Elements(Tail(q.check))
    BY <1>6, <2>4, HeadAndTail
  <2>6. RunShape(n) /\ Careful(n, its.disk)
    BY <1>2, <2>3, <2>5 DEF RunShape, Careful
  <2>7. QED
    BY <2>2, <2>6, OneRunBecomes
<1>7. QED
  BY <1>4, <1>5, <1>6

\* A write replaces a file that was checked.
LEMMA MdWrites ==
    ASSUME MdInv, NEW r \in Runs, Md!Write(r)
    PROVE  MdInv'
<1>1. PICK q : q = its.run[r]
  OBVIOUS
<1>2. RunShape(q) /\ Careful(q, its.disk) /\ q.at = "write"
  BY <1>1 DEF MdInv, MdShape, Md!Write
<1>3. its.run = [o \in Runs |-> its.run[o]]
      /\ its = [disk |-> its.disk, run |-> its.run, edits |-> its.edits]
      /\ its.disk = [p \in Places |-> its.disk[p]]
  BY DEF MdInv, MdShape
<1>4. ASSUME NEW at \in {"done", "failed"}, its' = [its EXCEPT !.run[r].at = at]
      PROVE  MdInv'
  <2>1. PICK n : n = [q EXCEPT !.at = at]
    OBVIOUS
  <2>2. its' = [its EXCEPT !.run[r] = n]
    BY <1>1, <1>3, <1>4, <2>1
  <2>3. n = [at |-> at, force |-> q.force, check |-> q.check, write |-> q.write,
             held |-> q.held, kept |-> q.kept, wrote |-> q.wrote]
    BY <1>2, <2>1 DEF RunShape
  <2>4. RunShape(n) /\ Careful(n, its.disk)
    BY <1>2, <2>3 DEF RunShape, Careful
  <2>5. QED
    BY <2>2, <2>4, OneRunBecomes
<1>5. ASSUME q.write # << >>, NEW p, p = Head(q.write),
             its' = [its EXCEPT !.disk[p] = "copy", !.run[r] =
                        [q EXCEPT !.write = Tail(q.write), !.wrote = q.wrote \cup {p},
                                  !.kept = q.kept /\ (q.force \/ p \notin q.held)]]
      PROVE  MdInv'
  <2>1. q.write \in Paths /\ q.kept = TRUE /\ q.held \subseteq Places /\ q.wrote \subseteq Places
    BY <1>2 DEF Careful
  <2>2. p \in Places /\ p \in Elements(q.write) /\ Tail(q.write) \in Paths
        /\ \A x : x \in Elements(Tail(q.write)) => x \in Elements(q.write)
    BY <1>5, <2>1, HeadAndTail
  <2>3. q.force \/ p \notin q.held
    BY <1>2, <2>2 DEF Careful
  <2>4. PICK kept : kept = (q.kept /\ (q.force \/ p \notin q.held))
    OBVIOUS
  <2>5. kept = TRUE
    BY <2>1, <2>3, <2>4
  <2>6. PICK n : n = [q EXCEPT !.write = Tail(q.write), !.wrote = q.wrote \cup {p}, !.kept = kept]
    OBVIOUS
  <2>7. PICK d : d = [its.disk EXCEPT ![p] = "copy"]
    OBVIOUS
  <2>8. its' = [its EXCEPT !.run[r] = n, !.disk = d]
    <3>1. [q EXCEPT !.write = Tail(q.write), !.wrote = q.wrote \cup {p},
                    !.kept = q.kept /\ (q.force \/ p \notin q.held)] = n
      BY <2>4, <2>6, Zenon
    <3>2. its' = [its EXCEPT !.disk[p] = "copy", !.run[r] = n]
      BY <1>5, <3>1, Zenon
    <3>3. QED
      BY <1>3, <2>7, <3>2
  <2>9. n = [at |-> q.at, force |-> q.force, check |-> q.check, write |-> Tail(q.write),
             held |-> q.held, kept |-> kept, wrote |-> q.wrote \cup {p}]
    BY <1>2, <2>6 DEF RunShape
  <2>10. d = [x \in Places |-> d[x]] /\ d[p] = "copy"
         /\ \A x \in Places : d[x] = its.disk[x] \/ d[x] = "copy"
    BY <1>3, <2>2, <2>7
  <2>11. RunShape(n)
    BY <2>9 DEF RunShape
  <2>12. Careful(n, d)
    <3>1. n.check = q.check /\ n.held = q.held /\ n.at = "write" /\ n.force = q.force
          /\ n.write = Tail(q.write) /\ n.kept = TRUE /\ n.wrote = q.wrote \cup {p}
      BY <1>2, <2>5, <2>9
    <3>2. \A x \in q.held : d[x] # "none"
      BY <1>2, <2>1, <2>10 DEF Careful
    <3>3. \A x \in q.wrote \cup {p} : d[x] = "copy"
      BY <1>2, <2>1, <2>10 DEF Careful
    <3>4. ~q.force => \A x \in Elements(Tail(q.write)) : x \notin q.held
      BY <1>2, <2>2 DEF Careful
    <3>5. QED
      BY <1>2, <2>1, <2>2, <3>1, <3>2, <3>3, <3>4 DEF Careful
  <2>13. QED
    BY <2>8, <2>10, <2>11, <2>12, RunBecomes
<1>6. QED
  BY <1>1, <1>4, <1>5 DEF Md!Write

\* The user puts a file of their own somewhere.
LEMMA MdEdits ==
    ASSUME MdInv, NEW p \in Places, NEW content, Md!Edit(p, content)
    PROVE  MdInv'
<1>1. its = [disk |-> its.disk, run |-> its.run, edits |-> its.edits]
      /\ its.disk = [x \in Places |-> its.disk[x]]
  BY DEF MdInv, MdShape
<1>2. PICK run : run = [r \in Runs |-> [its.run[r] EXCEPT !.held = @ \ {p}, !.wrote = @ \ {p}]]
  OBVIOUS
<1>3. its'.run = run /\ its'.disk = [its.disk EXCEPT ![p] = content]
      /\ its' = [disk |-> its'.disk, run |-> its'.run, edits |-> its'.edits]
  BY <1>1, <1>2 DEF Md!Edit
<1>4. its'.disk = [x \in Places |-> its'.disk[x]]
      /\ \A x \in Places : x # p => its'.disk[x] = its.disk[x]
  BY <1>1, <1>3
<1>5. ASSUME NEW r \in Runs
      PROVE  RunShape(run[r]) /\ Careful(run[r], its'.disk)
  <2>1. PICK q : q = its.run[r]
    OBVIOUS
  <2>2. RunShape(q) /\ Careful(q, its.disk)
    BY <2>1 DEF MdInv, MdShape
  <2>3. PICK n : n = run[r]
    OBVIOUS
  <2>4. n = [at |-> q.at, force |-> q.force, check |-> q.check, write |-> q.write,
             held |-> q.held \ {p}, kept |-> q.kept, wrote |-> q.wrote \ {p}]
    BY <1>2, <2>1, <2>2, <2>3 DEF RunShape
  <2>5. RunShape(n)
    BY <2>4 DEF RunShape
  <2>6. \A x \in q.held \ {p} : its'.disk[x] # "none"
    BY <1>4, <2>2 DEF Careful
  <2>7. \A x \in q.wrote \ {p} : its'.disk[x] = "copy"
    BY <1>4, <2>2 DEF Careful
  <2>8. Careful(n, its'.disk)
    BY <2>2, <2>4, <2>6, <2>7 DEF Careful
  <2>9. QED
    BY <2>3, <2>5, <2>8
<1>6. run = [r \in Runs |-> run[r]]
  BY <1>2
<1>7. QED
  BY <1>3, <1>4, <1>5, <1>6 DEF MdInv, MdShape

\* The places of a name that `require` tries are told apart by where they come in its order.
LEMMA Ranks ==
    /\ \A t \in {"script", "vendored", "project", "home"} :
            \E k \in 1..4 : /\ (CHOOSE j \in DOMAIN Md!Tiers : Md!Tiers[j] = t) = k
                            /\ Md!Tiers[k] = t
    /\ \A f \in {"tl", "lua", "init"} :
            \E k \in 1..3 : /\ (CHOOSE j \in DOMAIN Md!Forms : Md!Forms[j] = f) = k
                            /\ Md!Forms[k] = f
<1>1. DOMAIN Md!Tiers = 1..4 /\ Md!Tiers[1] = "script" /\ Md!Tiers[2] = "vendored"
      /\ Md!Tiers[3] = "project" /\ Md!Tiers[4] = "home"
  BY DEF Md!Tiers
<1>2. DOMAIN Md!Forms = 1..3 /\ Md!Forms[1] = "tl" /\ Md!Forms[2] = "lua" /\ Md!Forms[3] = "init"
  BY DEF Md!Forms
<1>3. QED
  BY <1>1, <1>2

\* The files `require` may find for a name.
LEMMA FoundOnes ==
    ASSUME MdShape, NEW e
    PROVE  \A p : p \in Md!Found(e) <=>
               /\ p \in Places /\ its.disk[p] # "none" /\ p.name = e
               /\ p.tier \in {"script", "vendored", "project", "home"}
               /\ p.form \in {"tl", "lua", "init"}
<1>1. DOMAIN Md!Tiers = 1..4 /\ Md!Tiers[1] = "script" /\ Md!Tiers[2] = "vendored"
      /\ Md!Tiers[3] = "project" /\ Md!Tiers[4] = "home"
  BY DEF Md!Tiers
<1>2. Md!Range(Md!Forms) = {"tl", "lua", "init"}
  BY DEF Md!Forms, Md!Range
<1>3. ASSUME NEW p
      PROVE  p \in UNION Md!Range(Md!lib_roots) <=>
                p \in Places /\ its.disk[p] # "none"
                  /\ p.tier \in {"script", "vendored", "project", "home"}
  <2>1. p \in UNION Md!Range(Md!lib_roots) <=>
            \E k \in 1..4 : p \in Places /\ p.tier = Md!Tiers[k] /\ its.disk[p] # "none"
    BY <1>1 DEF Md!lib_roots, Md!Range
  <2>2. QED
    BY <1>1, <2>1
<1>4. QED
  BY <1>2, <1>3 DEF Md!Found

\* What a run wrote, and nobody touched since, is what `require` finds.
LEMMA WrittenIsFound ==
    ASSUME Files, MdInv, NEW r \in Runs, NEW e \in Carried,
           \A p \in Md!Range(Md!resolve(<<e[1]>>)) : p \in its.run[r].wrote,
           NEW t, t = IF Len(e) = 1 THEN Md!module_path(e) ELSE Md!SubPath(e),
           \A p \in Md!Found(e) : ~(Md!Rank(p) < Md!Rank(t))
    PROVE  Md!require(e) = "copy"
<1>1. Len(e) \in Nat /\ Len(e) > 0 /\ e \in Seq(STRING)
  BY DEF Files
<1>2. t \in its.run[r].wrote
  <2>1. CASE Len(e) = 1
    <3>1. e = <<e[1]>>
      BY <1>1, <2>1
    <3>2. QED
      BY <2>1, <3>1, Resolved
  <2>2. CASE Len(e) # 1
    BY <1>1, <2>2, Resolved
  <2>3. QED
    BY <2>1, <2>2
<1>3. t \in Places /\ its.disk[t] = "copy"
  BY <1>2 DEF MdInv, Careful
<1>4. t.name = e /\ t.tier = "vendored" /\ t.form \in {"lua", "init"}
  BY DEF Md!module_path, Md!SubPath
<1>5. MdShape
  BY DEF MdInv
<1>6. t \in Md!Found(e)
  BY <1>3, <1>4, <1>5, FoundOnes
<1>7. \A p \in Md!Found(e) : Md!Rank(p) \in Nat
  <2>1. TAKE p \in Md!Found(e)
  <2>2. p.tier \in {"script", "vendored", "project", "home"} /\ p.form \in {"tl", "lua", "init"}
    BY <1>5, FoundOnes
  <2>3. PICK i \in 1..4 : (CHOOSE j \in DOMAIN Md!Tiers : Md!Tiers[j] = p.tier) = i
    BY <2>2, Ranks
  <2>4. PICK j \in 1..3 : (CHOOSE h \in DOMAIN Md!Forms : Md!Forms[h] = p.form) = j
    BY <2>2, Ranks
  <2>5. Md!Rank(p) = 10 * i + j
    BY <2>3, <2>4 DEF Md!Rank
  <2>6. QED
    BY <2>5
<1>8. \A p \in Md!Found(e) : Md!Rank(t) <= Md!Rank(p)
  BY <1>6, <1>7
<1>9. PICK n : n = Md!Nearest(e)
  OBVIOUS
<1>10. n \in Md!Found(e) /\ \A q \in Md!Found(e) : Md!Rank(n) <= Md!Rank(q)
  BY <1>6, <1>8, <1>9 DEF Md!Nearest
<1>11. Md!Rank(n) = Md!Rank(t)
  BY <1>6, <1>7, <1>8, <1>10
<1>12. n.tier = t.tier /\ n.form = t.form
  <2>1. n.tier \in {"script", "vendored", "project", "home"} /\ n.form \in {"tl", "lua", "init"}
    BY <1>5, <1>10, FoundOnes
  <2>2. PICK i \in 1..4 : (CHOOSE j \in DOMAIN Md!Tiers : Md!Tiers[j] = n.tier) = i
                          /\ Md!Tiers[i] = n.tier
    BY <2>1, Ranks
  <2>3. PICK j \in 1..3 : (CHOOSE h \in DOMAIN Md!Forms : Md!Forms[h] = n.form) = j
                          /\ Md!Forms[j] = n.form
    BY <2>1, Ranks
  <2>4. PICK k \in 1..4 : (CHOOSE h \in DOMAIN Md!Tiers : Md!Tiers[h] = t.tier) = k
                          /\ Md!Tiers[k] = t.tier
    BY <1>4, Ranks
  <2>5. PICK l \in 1..3 : (CHOOSE h \in DOMAIN Md!Forms : Md!Forms[h] = t.form) = l
                          /\ Md!Forms[l] = t.form
    BY <1>4, Ranks
  <2>6. 10 * i + j = 10 * k + l
    BY <1>11, <2>2, <2>3, <2>4, <2>5 DEF Md!Rank
  <2>7. i = k /\ j = l
    BY <2>6
  <2>8. QED
    BY <2>2, <2>3, <2>4, <2>5, <2>7
<1>13. n = t
  <2>1. n \in Places /\ n.name = e
    BY <1>5, <1>10, FoundOnes
  <2>2. n = [tier |-> n.tier, name |-> n.name, form |-> n.form]
        /\ t = [tier |-> t.tier, name |-> t.name, form |-> t.form]
    BY <1>3, <2>1 DEF Files
  <2>3. QED
    BY <1>4, <1>12, <2>1, <2>2
<1>14. Md!Found(e) # {} /\ ~(n.form = "tl")
  BY <1>4, <1>6, <1>13
<1>15. QED
  BY <1>3, <1>9, <1>13, <1>14 DEF Md!require

\* `agent-block vendor` (vendor.rs) without --force overwrites no file that stood when it began, has
\* written nothing when it is refused, and when it went well its copy is what `require` finds
\* (lib_roots, build_isle_init of host.rs), sub-modules included: for any number of runs side by
\* side, with the user's edits between their steps.
THEOREM VendorIsSafe == Spec => []VendoringIsSafe
<1> DEFINE Inv == part = "md" => MdInv
<1>1. Init => Inv
  BY MdInitially DEF Init
<1>2. Inv /\ [Next]_vars => Inv'
  <2> SUFFICES ASSUME MdInv, [Md!Next]_its
               PROVE  MdInv'
    BY OnePart
  <2>1. ASSUME NEW r \in Runs, Md!Vendor(r)
        PROVE  MdInv'
    BY <2>1, FilesAssumption, MdStarts, MdChecks, MdWrites DEF Md!Vendor
  <2>2. ASSUME NEW p \in Places, NEW content, Md!Edit(p, content)
        PROVE  MdInv'
    BY <2>2, MdEdits
  <2>3. CASE UNCHANGED its
    BY <2>3 DEF MdInv, MdShape
  <2>4. QED
    BY <2>1, <2>2, <2>3 DEF Md!Next
<1>3. Inv => VendoringIsSafe
  <2> SUFFICES ASSUME MdInv
               PROVE  Md!VendoringIsSafe
    BY DEF VendoringIsSafe
  <2>1. Md!OwnFilesKept /\ Md!RefusedWritesNothing
    BY DEF Md!OwnFilesKept, Md!RefusedWritesNothing, MdInv, Careful
  <2>2. Md!VendoredWhole
    BY FilesAssumption, WrittenIsFound DEF Md!VendoredWhole
  <2>3. QED
    BY <2>1, <2>2 DEF Md!VendoringIsSafe
<1>4. QED
  BY <1>1, <1>2, <1>3, PTL DEF Spec

----------------------------------------------------------------------------
(* The set-up of a VM *)

\* A list of n entries, and one that goes on with another.
Listing(s, S, n) == s \in Seq(S) /\ Len(s) = n
GoesOn(c, a, m, b, n) ==
    (\A k \in 1..m : c[k] = a[k]) /\ (\A k \in m + 1..m + n : c[k] = b[k - m])

\* One list behind another.
LEMMA Concatenated ==
    ASSUME NEW S, NEW m \in Nat, NEW n \in Nat, NEW a, NEW b, NEW c,
           Listing(a, S, m), Listing(b, S, n), c = a \o b
    PROVE  Listing(c, S, m + n) /\ GoesOn(c, a, m, b, n)
<1>0. a \in Seq(S) /\ b \in Seq(S) /\ Len(a) = m /\ Len(b) = n
  BY DEF Listing
<1>1. a \o b \in Seq(S) /\ Len(a \o b) = m + n
  BY <1>0, ConcatProperties
<1>2. \A k \in 1..Len(a) + Len(b) : (a \o b)[k] = IF k <= Len(a) THEN a[k] ELSE b[k - Len(a)]
  BY <1>0, ConcatProperties
<1>3. QED
  BY <1>0, <1>1, <1>2 DEF Listing, GoesOn

\* What a step may do.
Words == {"names", "std", "overrides", "extra", "path", "registry", "bus", "bus_dispatcher",
          "mcp_dispatcher", "mesh", "sh", "tool", "fs", "log", "mcp", "http", "llm", "knl", "kv",
          "sql", "ts", "task", "host_tools"}
\* The steps, with the VM each is on.
Entries == {[on |-> v, do |-> w] : v \in Vm!VMs, w \in Words}
\* A list of steps on one VM.
Ons(f, v, s, n) == \A k \in 1..n : f[k] = [on |-> v, do |-> s[k]]

\* The steps of a list, each on the VM it is for.
LEMMA OnOne ==
    ASSUME NEW v \in Vm!VMs, NEW m \in Nat, NEW s, Listing(s, Words, m), NEW f, f = Vm!On(v, s)
    PROVE  Listing(f, Entries, m) /\ Ons(f, v, s, m)
<1>0. s \in Seq(Words) /\ Len(s) = m
  BY DEF Listing
<1>1. DOMAIN s = 1..m /\ \A k \in 1..m : s[k] \in Words
  BY <1>0
<1>3. f = [k \in 1..m |-> [on |-> v, do |-> s[k]]]
  BY <1>1 DEF Vm!On
<1>5. f \in [1..m -> Entries]
  <2>1. \A k \in 1..m : [on |-> v, do |-> s[k]] \in Entries
    BY <1>1 DEF Entries
  <2>2. QED
    BY <1>3, <2>1
<1>6. f \in Seq(Entries) /\ Len(f) = m
  BY <1>5
<1>7. QED
  BY <1>3, <1>6 DEF Listing, Ons

\* The lists of steps and their lengths.
LEMMA Lists ==
    /\ Listing(Vm!InitSteps, Words, 6)
    /\ Listing(Vm!NonBus, Words, 13)
    /\ Listing(<<"bus">>, Words, 1)
    /\ Listing(<<"bus_dispatcher", "mcp_dispatcher">>, Words, 2)
    /\ Listing(Vm!inject, Entries, 1)
<1>1. /\ Vm!InitSteps \in Seq(Words) /\ Len(Vm!InitSteps) = 6
      /\ Vm!NonBus \in Seq(Words) /\ Len(Vm!NonBus) = 13
  BY DEF Vm!InitSteps, Vm!NonBus, Words
<1>2. /\ <<"bus">> \in Seq(Words) /\ <<"bus_dispatcher", "mcp_dispatcher">> \in Seq(Words)
  BY DEF Words
<1>3. PICK e : e = [on |-> "main", do |-> "host_tools"]
  OBVIOUS
<1>4. e \in Entries
  BY <1>3 DEF Entries, Words, Vm!VMs
<1>5. <<e>> \in Seq(Entries) /\ Len(<<e>>) = 1
  BY <1>4
<1>6. QED
  BY <1>1, <1>2, <1>3, <1>5 DEF Listing, Vm!inject

\* The steps one by one: the globals of each VM first, then its bridges, then the host's tools.
LEMMA TheSteps ==
    /\ Len(Vm!Steps) = 42
    /\ \A k \in 1..6 : Vm!Steps[k] = [on |-> "main", do |-> Vm!InitSteps[k]]
    /\ \A k \in 7..12 : Vm!Steps[k] = [on |-> "handler", do |-> Vm!InitSteps[k - 6]]
    /\ Vm!Steps[13] = [on |-> "main", do |-> "bus"]
    /\ \A k \in 14..26 : Vm!Steps[k] = [on |-> "main", do |-> Vm!NonBus[k - 13]]
    /\ Vm!Steps[27] = [on |-> "handler", do |-> "bus_dispatcher"]
    /\ Vm!Steps[28] = [on |-> "handler", do |-> "mcp_dispatcher"]
    /\ \A k \in 29..41 : Vm!Steps[k] = [on |-> "handler", do |-> Vm!NonBus[k - 28]]
    /\ Vm!Steps[42] = [on |-> "main", do |-> "host_tools"]
<1>1. PICK i : i = Vm!InitSteps
  OBVIOUS
<1>2. PICK n : n = Vm!NonBus
  OBVIOUS
<1>3. PICK b1 : b1 = <<"bus">>
  OBVIOUS
<1>4. PICK d1 : d1 = <<"bus_dispatcher", "mcp_dispatcher">>
  OBVIOUS
<1>5. PICK b : b = b1 \o n
  OBVIOUS
<1>6. PICK d : d = d1 \o n
  OBVIOUS
<1>7. Listing(i, Words, 6) /\ Listing(n, Words, 13) /\ Listing(b1, Words, 1)
      /\ Listing(d1, Words, 2)
  BY <1>1, <1>2, <1>3, <1>4, Lists
<1>8. Listing(b, Words, 14) /\ GoesOn(b, b1, 1, n, 13)
  <2>1. Listing(b, Words, 1 + 13) /\ GoesOn(b, b1, 1, n, 13)
    BY <1>5, <1>7, Concatenated
  <2>2. QED
    BY <2>1
<1>9. Listing(d, Words, 15) /\ GoesOn(d, d1, 2, n, 13)
  <2>1. Listing(d, Words, 2 + 13) /\ GoesOn(d, d1, 2, n, 13)
    BY <1>6, <1>7, Concatenated
  <2>2. QED
    BY <2>1
<1>10. PICK a1 : a1 = Vm!On("main", i)
  OBVIOUS
<1>11. PICK a2 : a2 = Vm!On("handler", i)
  OBVIOUS
<1>12. PICK a3 : a3 = Vm!On("main", b)
  OBVIOUS
<1>13. PICK a4 : a4 = Vm!On("handler", d)
  OBVIOUS
<1>14. PICK a5 : a5 = Vm!inject
  OBVIOUS
<1>15. "main" \in Vm!VMs /\ "handler" \in Vm!VMs
  BY DEF Vm!VMs
<1>16. Listing(a1, Entries, 6) /\ Ons(a1, "main", i, 6)
  BY <1>7, <1>10, <1>15, OnOne
<1>17. Listing(a2, Entries, 6) /\ Ons(a2, "handler", i, 6)
  BY <1>7, <1>11, <1>15, OnOne
<1>18. Listing(a3, Entries, 14) /\ Ons(a3, "main", b, 14)
  BY <1>8, <1>12, <1>15, OnOne
<1>19. Listing(a4, Entries, 15) /\ Ons(a4, "handler", d, 15)
  BY <1>9, <1>13, <1>15, OnOne
<1>20. Listing(a5, Entries, 1)
  BY <1>14, Lists
<1>21. PICK c2 : c2 = a1 \o a2
  OBVIOUS
<1>22. PICK c3 : c3 = c2 \o a3
  OBVIOUS
<1>23. PICK c4 : c4 = c3 \o a4
  OBVIOUS
<1>24. PICK c5 : c5 = c4 \o a5
  OBVIOUS
<1>25. Vm!Steps = c5
  BY <1>1, <1>2, <1>3, <1>4, <1>5, <1>6, <1>10, <1>11, <1>12, <1>13, <1>14,
     <1>21, <1>22, <1>23, <1>24, Zenon
     DEF Vm!Steps, Vm!register_all, Vm!register_all_handler_side
<1>26. Listing(c2, Entries, 12) /\ GoesOn(c2, a1, 6, a2, 6)
  <2>1. Listing(c2, Entries, 6 + 6) /\ GoesOn(c2, a1, 6, a2, 6)
    BY <1>16, <1>17, <1>21, Concatenated
  <2>2. QED
    BY <2>1
<1>27. Listing(c3, Entries, 26) /\ GoesOn(c3, c2, 12, a3, 14)
  <2>1. Listing(c3, Entries, 12 + 14) /\ GoesOn(c3, c2, 12, a3, 14)
    BY <1>18, <1>22, <1>26, Concatenated
  <2>2. QED
    BY <2>1
<1>28. Listing(c4, Entries, 41) /\ GoesOn(c4, c3, 26, a4, 15)
  <2>1. Listing(c4, Entries, 26 + 15) /\ GoesOn(c4, c3, 26, a4, 15)
    BY <1>19, <1>23, <1>27, Concatenated
  <2>2. QED
    BY <2>1
<1>29. Listing(c5, Entries, 42) /\ GoesOn(c5, c4, 41, a5, 1)
  <2>1. Listing(c5, Entries, 41 + 1) /\ GoesOn(c5, c4, 41, a5, 1)
    BY <1>20, <1>24, <1>28, Concatenated
  <2>2. QED
    BY <2>1
<1>30. \A k \in 1..6 : c5[k] = [on |-> "main", do |-> i[k]]
  BY <1>16, <1>26, <1>27, <1>28, <1>29 DEF GoesOn, Ons
<1>31. \A k \in 7..12 : c5[k] = [on |-> "handler", do |-> i[k - 6]]
  BY <1>17, <1>26, <1>27, <1>28, <1>29 DEF GoesOn, Ons
<1>32. c5[13] = [on |-> "main", do |-> b[1]]
       /\ \A k \in 14..26 : c5[k] = [on |-> "main", do |-> b[k - 12]]
  BY <1>18, <1>27, <1>28, <1>29 DEF GoesOn, Ons
<1>33. b[1] = "bus" /\ \A k \in 2..14 : b[k] = n[k - 1]
  BY <1>3, <1>8 DEF GoesOn
<1>34. \A k \in 14..26 : c5[k] = [on |-> "main", do |-> n[k - 13]]
  <2>1. \A k \in 14..26 : b[k - 12] = n[k - 13]
    BY <1>33
  <2>2. QED
    BY <1>32, <2>1
<1>35. c5[27] = [on |-> "handler", do |-> d[1]] /\ c5[28] = [on |-> "handler", do |-> d[2]]
       /\ \A k \in 29..41 : c5[k] = [on |-> "handler", do |-> d[k - 26]]
  BY <1>19, <1>28, <1>29 DEF GoesOn, Ons
<1>36. d[1] = "bus_dispatcher" /\ d[2] = "mcp_dispatcher" /\ \A k \in 3..15 : d[k] = n[k - 2]
  BY <1>4, <1>9 DEF GoesOn
<1>37. \A k \in 29..41 : c5[k] = [on |-> "handler", do |-> n[k - 28]]
  <2>1. \A k \in 29..41 : d[k - 26] = n[k - 28]
    BY <1>36
  <2>2. QED
    BY <1>35, <2>1
<1>38. c5[42] = [on |-> "main", do |-> "host_tools"]
  BY <1>14, <1>29 DEF GoesOn, Vm!inject
<1>39. Len(c5) = 42
  BY <1>29 DEF Listing
<1>40. QED
  BY <1>1, <1>2, <1>25, <1>30, <1>31, <1>32, <1>33, <1>34, <1>35, <1>36, <1>37, <1>38, <1>39

\* One number for the main VM and another for the handler VM.
Own(v, m, h) == IF v = "main" THEN m ELSE h
\* Step s is on VM v and does this.
Doing(s, v, do) == Vm!Steps[s].on = v /\ Vm!Steps[s].do = do

\* What the order of the steps says: who comes when.
LEMMA TheOrder ==
    ASSUME NEW s \in 1..42, NEW v, NEW do, Doing(s, v, do)
    PROVE  /\ v \in Vm!VMs
           /\ do \in {"overrides", "fs", "kv", "sql", "ts", "log", "task"} => s > Own(v, 2, 8)
           /\ do \in {"mesh", "tool", "log", "mcp", "http"} => s > 12
           /\ do = "names" => s = Own(v, 1, 7)
           /\ do = "std" => s = Own(v, 2, 8)
           /\ (s = 4 => do = "extra") /\ (s = 5 => do = "path") /\ (s = 14 => do = "mesh")
           /\ s \in {14, 17} => v = "main"
           /\ do = "mesh" /\ v = "main" => s > 13
           /\ do = "host_tools" <=> s = 42
           /\ do = "host_tools" => v = "main"
           /\ do = "extra" => s = Own(v, 4, 10)
           /\ s \in 1..6 => v = "main"
           /\ s \in 7..12 => v = "handler"
           /\ do = "fs" <=> s = Own(v, 17, 32)
           /\ do = "tool" => s # 42
<1>1. PICK i : i = Vm!InitSteps
  OBVIOUS
<1>2. PICK n : n = Vm!NonBus
  OBVIOUS
<1>3. i[1] = "names" /\ i[2] = "std" /\ i[3] = "overrides" /\ i[4] = "extra" /\ i[5] = "path"
      /\ i[6] = "registry"
  BY <1>1 DEF Vm!InitSteps
<1>4. n[1] = "mesh" /\ n[2] = "sh" /\ n[3] = "tool" /\ n[4] = "fs" /\ n[5] = "log" /\ n[6] = "mcp"
      /\ n[7] = "http" /\ n[8] = "llm" /\ n[9] = "knl" /\ n[10] = "kv" /\ n[11] = "sql"
      /\ n[12] = "ts" /\ n[13] = "task"
  BY <1>2 DEF Vm!NonBus
<1>5. CASE s \in 1..6
  <2>1. v = "main" /\ do = i[s]
    BY <1>1, <1>5, TheSteps DEF Doing
  <2>2. QED
    BY <1>3, <1>5, <2>1 DEF Own, Vm!VMs
<1>6. CASE s \in 7..12
  <2>1. v = "handler" /\ do = i[s - 6]
    BY <1>1, <1>6, TheSteps DEF Doing
  <2>2. QED
    BY <1>3, <1>6, <2>1 DEF Own, Vm!VMs
<1>7. CASE s = 13
  <2>1. v = "main" /\ do = "bus"
    BY <1>7, TheSteps DEF Doing
  <2>2. QED
    BY <1>7, <2>1 DEF Own, Vm!VMs
<1>8. CASE s \in 14..26
  <2>1. v = "main" /\ do = n[s - 13]
    BY <1>2, <1>8, TheSteps DEF Doing
  <2>2. QED
    BY <1>4, <1>8, <2>1 DEF Own, Vm!VMs
<1>9. CASE s \in 27..28
  <2>1. v = "handler" /\ do \in {"bus_dispatcher", "mcp_dispatcher"}
    BY <1>9, TheSteps DEF Doing
  <2>2. QED
    BY <1>9, <2>1 DEF Own, Vm!VMs
<1>10. CASE s \in 29..41
  <2>1. v = "handler" /\ do = n[s - 28]
    BY <1>2, <1>10, TheSteps DEF Doing
  <2>2. QED
    BY <1>4, <1>10, <2>1 DEF Own, Vm!VMs
<1>11. CASE s = 42
  <2>1. v = "main" /\ do = "host_tools"
    BY <1>11, TheSteps DEF Doing
  <2>2. QED
    BY <1>11, <2>1 DEF Own, Vm!VMs
<1>12. QED
  BY <1>5, <1>6, <1>7, <1>8, <1>9, <1>10, <1>11

\* Where the globals that others need are set.
LEMMA ThePlaces ==
    /\ Doing(2, "main", "std") /\ Doing(8, "handler", "std")
    /\ Doing(1, "main", "names") /\ Doing(7, "handler", "names")
    /\ Doing(13, "main", "bus")
    /\ \A w \in {"mesh", "sh", "tool", "log", "mcp", "http", "llm", "knl"} :
            /\ \E k \in 14..26 : Doing(k, "main", w)
            /\ \E k \in 29..41 : Doing(k, "handler", w)
<1>1. PICK i : i = Vm!InitSteps
  OBVIOUS
<1>2. PICK n : n = Vm!NonBus
  OBVIOUS
<1>3. i[2] = "std" /\ i[1] = "names"
  BY <1>1 DEF Vm!InitSteps
<1>4. n[1] = "mesh" /\ n[2] = "sh" /\ n[3] = "tool" /\ n[5] = "log" /\ n[6] = "mcp"
      /\ n[7] = "http" /\ n[8] = "llm" /\ n[9] = "knl"
  BY <1>2 DEF Vm!NonBus
<1>5. ASSUME NEW j \in 1..13
      PROVE  /\ \E k \in 14..26 : Vm!Steps[k] = [on |-> "main", do |-> n[j]]
             /\ \E k \in 29..41 : Vm!Steps[k] = [on |-> "handler", do |-> n[j]]
  <2>1. j + 13 \in 14..26 /\ (j + 13) - 13 = j /\ j + 28 \in 29..41 /\ (j + 28) - 28 = j
    OBVIOUS
  <2>2. Vm!Steps[j + 13] = [on |-> "main", do |-> n[j]]
    BY <1>2, <2>1, TheSteps
  <2>3. Vm!Steps[j + 28] = [on |-> "handler", do |-> n[j]]
    BY <1>2, <2>1, TheSteps
  <2>4. QED
    BY <2>1, <2>2, <2>3
<1>6. Vm!Steps[2] = [on |-> "main", do |-> i[2]] /\ Vm!Steps[1] = [on |-> "main", do |-> i[1]]
      /\ Vm!Steps[13] = [on |-> "main", do |-> "bus"]
  BY <1>1, TheSteps
<1>7. Vm!Steps[8] = [on |-> "handler", do |-> i[8 - 6]]
      /\ Vm!Steps[7] = [on |-> "handler", do |-> i[7 - 6]]
  BY <1>1, TheSteps
<1>8. ASSUME NEW w \in {"mesh", "sh", "tool", "log", "mcp", "http", "llm", "knl"}
      PROVE  \E j \in 1..13 : n[j] = w
  BY <1>4
<1>9. /\ Vm!Steps[2] = [on |-> "main", do |-> "std"]
      /\ Vm!Steps[8] = [on |-> "handler", do |-> "std"]
      /\ Vm!Steps[1] = [on |-> "main", do |-> "names"]
      /\ Vm!Steps[7] = [on |-> "handler", do |-> "names"]
  BY <1>3, <1>6, <1>7
<1>10. ASSUME NEW w \in {"mesh", "sh", "tool", "log", "mcp", "http", "llm", "knl"}
       PROVE  /\ \E k \in 14..26 : Vm!Steps[k] = [on |-> "main", do |-> w]
              /\ \E k \in 29..41 : Vm!Steps[k] = [on |-> "handler", do |-> w]
  <2>1. PICK j \in 1..13 : n[j] = w
    BY <1>8
  <2>2. QED
    BY <1>5, <2>1
<1>11. \A k, v, w : Vm!Steps[k] = [on |-> v, do |-> w] => Doing(k, v, w)
  BY DEF Doing
<1>12. QED
  BY <1>6, <1>9, <1>10, <1>11

\* Who set a name, in a set of globals.
SetterOf(g, name) == {x[2] : x \in {y \in g : y[1] = name}}

\* The globals with some set by the host, and with those a configuration brings.
HostSet(g, set) == {x \in g : x[1] \notin set} \cup {<<n, "host">> : n \in set}
ExtraSet(g, extra) ==
    {x \in g : \A e \in extra : e[1] # x[1]} \cup {<<e[1], "sdk">> : e \in extra}

\* A step of the host sets its names and leaves the others.
LEMMA HostSets ==
    ASSUME NEW g, NEW set, NEW name
    PROVE  SetterOf(HostSet(g, set), name) = IF name \in set THEN {"host"} ELSE SetterOf(g, name)
<1>0. PICK h : h = HostSet(g, set)
  OBVIOUS
<1>1. CASE name \in set
  <2>1. <<name, "host">> \in h
    BY <1>0, <1>1 DEF HostSet
  <2>2. \A x \in h : x[1] = name => x[2] = "host"
    BY <1>0, <1>1 DEF HostSet
  <2>3. QED
    BY <1>0, <1>1, <2>1, <2>2 DEF SetterOf
<1>2. CASE name \notin set
  <2>1. \A x : x \in h /\ x[1] = name <=> x \in g /\ x[1] = name
    BY <1>0, <1>2 DEF HostSet
  <2>2. {x \in h : x[1] = name} = {x \in g : x[1] = name}
    BY <2>1
  <2>3. QED
    BY <1>0, <1>2, <2>2 DEF SetterOf
<1>3. QED
  BY <1>1, <1>2

\* extra_globals takes the place of what has the same name.
LEMMA ExtraSets ==
    ASSUME NEW g, NEW extra, NEW name
    PROVE  SetterOf(ExtraSet(g, extra), name)
             = IF \E e \in extra : e[1] = name THEN {"sdk"} ELSE SetterOf(g, name)
<1>0. PICK h : h = ExtraSet(g, extra)
  OBVIOUS
<1>1. CASE \E e \in extra : e[1] = name
  <2>1. <<name, "sdk">> \in h
    BY <1>0, <1>1 DEF ExtraSet
  <2>2. \A x \in h : x[1] = name => x[2] = "sdk"
    BY <1>0, <1>1 DEF ExtraSet
  <2>3. QED
    BY <1>0, <1>1, <2>1, <2>2 DEF SetterOf
<1>2. CASE ~\E e \in extra : e[1] = name
  <2>1. \A x : x \in h /\ x[1] = name <=> x \in g /\ x[1] = name
    BY <1>0, <1>2 DEF ExtraSet
  <2>2. {x \in h : x[1] = name} = {x \in g : x[1] = name}
    BY <2>1
  <2>3. QED
    BY <1>0, <1>2, <2>2 DEF SetterOf
<1>3. QED
  BY <1>1, <1>2

\* The record of the VMs has these fields.
VmShape ==
    /\ its = [stage |-> its.stage, failed |-> its.failed, g |-> its.g, std |-> its.std,
              copy |-> its.copy, extra |-> its.extra, host |-> its.host,
              connected |-> its.connected, tools |-> its.tools, listed |-> its.listed,
              called |-> its.called, calls |-> its.calls]
    /\ its.g = [v \in Vm!VMs |-> its.g[v]]
    /\ its.std = [v \in Vm!VMs |-> its.std[v]]
    /\ its.tools = [v \in Vm!VMs |-> its.tools[v]]
    /\ its.stage \in 1..43
    /\ its.copy \in Copies

\* A global a step has set is the host's, or the configuration put its own in that place since.
Brought(name) == \E e \in its.extra : e[1] = name
\* The steps behind their VM's extra_globals, and every step of a bridge.
Late(k) == k \in 5..6 \/ k \in 11..42
SetBy(v, name, k) ==
    \/ Vm!Setter(v, name) = {"host"}
    \/ ~Late(k) /\ Vm!Setter(v, name) = {"sdk"} /\ Brought(name)
Wired ==
    \A k \in 1..42 : k < its.stage =>
        \A name \in Vm!Sets(Vm!Steps[k].do) : SetBy(Vm!Steps[k].on, name, k)

\* What Lua brings is Lua's, or the configuration put its own in that place.
Libraried ==
    \A v \in Vm!VMs : \A name \in Vm!Library :
        \/ Vm!Setter(v, name) = {"lua"}
        \/ Vm!Setter(v, name) = {"sdk"} /\ Brought(name)

\* The names every set-up looks up on the main VM behind extra_globals, with the first step there
\* that does: what the configuration put in their place stays, and serves once that step is done.
Looked == {"package", "_SCRIPT_NAME", "std", "require", "pcall", "type", "pairs", "getmetatable"}
LookedUpAt(name) == IF name = "package" THEN 5 ELSE IF name = "_SCRIPT_NAME" THEN 14 ELSE 17
Replaced ==
    its.stage > 4 => \A name \in Looked : Brought(name) => Vm!Setter("main", name) = {"sdk"}
Served ==
    \A name \in Looked : Brought(name) /\ ~Vm!Fits(name) => its.stage <= LookedUpAt(name)

\* No step of the host sets what Lua brings, and none but the first two what every set-up looks up.
LEMMA SetsOfTheHost ==
    ASSUME NEW do
    PROVE  /\ \A name \in Vm!Sets(do) : name \notin Vm!Library
           /\ do \notin {"names", "std"} => \A name \in Vm!Sets(do) : name \notin Looked
<1>1. CASE do = "names"
  BY <1>1 DEF Vm!Sets, Vm!Library
<1>2. CASE do = "bus_dispatcher"
  BY <1>2 DEF Vm!Sets, Vm!Library, Looked
<1>3. CASE do = "mcp_dispatcher"
  BY <1>3 DEF Vm!Sets, Vm!Library, Looked
<1>4. CASE do = "tool"
  BY <1>4 DEF Vm!Sets, Vm!Library, Looked
<1>5. CASE do \in {"std", "bus", "mesh", "sh", "log", "mcp", "http", "llm", "knl"}
  BY <1>5 DEF Vm!Sets, Vm!Library, Looked
<1>6. CASE do \notin {"names", "bus_dispatcher", "mcp_dispatcher", "tool", "std", "bus", "mesh", "sh",
                      "log", "mcp", "http", "llm", "knl"}
  BY <1>6 DEF Vm!Sets
<1>7. QED
  BY <1>1, <1>2, <1>3, <1>4, <1>5, <1>6

\* A step that leaves the globals and the place of the set-up leaves these as they are.
LEMMA VmStays ==
    ASSUME Wired, Libraried, Replaced, Served,
           its'.stage = its.stage, its'.g = its.g, its'.extra = its.extra
    PROVE  Wired' /\ Libraried' /\ Replaced' /\ Served'
<1>1. \A v, name : Vm!Setter(v, name)' = Vm!Setter(v, name)
  BY DEF Vm!Setter
<1>2. \A name : (Brought(name)' <=> Brought(name)) /\ (Vm!Fits(name)' <=> Vm!Fits(name))
  BY DEF Brought, Vm!Fits
<1>3. \A v, name, k : SetBy(v, name, k)' <=> SetBy(v, name, k)
  BY <1>1, <1>2 DEF SetBy
<1>4. Wired'
  BY <1>3 DEF Wired
<1>5. Libraried'
  BY <1>1, <1>2 DEF Libraried
<1>6. Replaced' /\ Served'
  BY <1>1, <1>2 DEF Replaced, Served
<1>7. QED
  BY <1>4, <1>5, <1>6

\* A name set by a step that is done is the host's, or was brought.
LEMMA WiredAt ==
    ASSUME Wired, NEW k \in 1..42, k < its.stage, NEW v, NEW do, Doing(k, v, do),
           NEW name \in Vm!Sets(do)
    PROVE  SetBy(v, name, k)
  BY DEF Wired, Doing

\* What is on std.fs comes from the copy in force.
Answered == UNION {Vm!INSTALL_TOOLS_MODULE(m) : m \in Vm!load_tools_module(its.copy)}
Installed ==
    \A v \in Vm!VMs : its.stage > Own(v, 17, 32) =>
        Vm!load_tools_module(its.copy) # {} /\ its.std[v] = Answered

\* The registry of the main VM has the host's tools, and what was answered from it was so.
Registered ==
    /\ its.stage = 43 => Vm!inspect_tools \subseteq Vm!list("main")
    /\ its.stage # 43 => its.listed = {} /\ its.called = {}
    /\ \A c \in its.called : (c.on = "main" /\ c.name \in Vm!inspect_tools) => c.how # "not found"
    /\ Vm!SchemaWhole

\* The inductive invariant of the set-up.
VmInv ==
    /\ VmShape /\ Wired /\ Libraried /\ Replaced /\ Served
    /\ Installed /\ Registered /\ Vm!SetupFindsItsNeeds

\* Nothing is set up.
LEMMA VmInitially == Vm!Init => VmInv
<1> SUFFICES ASSUME Vm!Init PROVE VmInv
  OBVIOUS
<1>1. PICK extra \in Extras, host \in HostTools, copy \in Copies, connected \in BOOLEAN :
        its = [stage |-> 1, failed |-> "no",
              g |-> [v \in Vm!VMs |-> {<<name, "lua">> : name \in Vm!Library}],
              std |-> [v \in Vm!VMs |-> {}], copy |-> copy,
              extra |-> extra, host |-> host, connected |-> connected,
              tools |-> [v \in Vm!VMs |-> {}],
              listed |-> {}, called |-> {}, calls |-> 0]
  BY DEF Vm!Init
<1>2. VmShape
  <2>1. PICK none : none = [v \in Vm!VMs |-> {}]
    OBVIOUS
  <2>2. none = [v \in Vm!VMs |-> none[v]]
    BY <2>1
  <2>3. PICK g : g = [v \in Vm!VMs |-> {<<name, "lua">> : name \in Vm!Library}]
    OBVIOUS
  <2>4. g = [v \in Vm!VMs |-> g[v]]
    BY <2>3
  <2>5. QED
    BY <1>1, <2>1, <2>2, <2>3, <2>4 DEF VmShape
<1>3. its.stage = 1 /\ its.failed = "no" /\ its.listed = {} /\ its.called = {}
  BY <1>1
<1>4. Wired
  BY <1>3 DEF Wired
<1>5. Installed
  BY <1>3 DEF Installed, Own
<1>6. Registered
  BY <1>3 DEF Registered, Vm!SchemaWhole
<1>7. Vm!SetupFindsItsNeeds
  BY <1>3 DEF Vm!SetupFindsItsNeeds
<1>8. Libraried
  <2>1. SUFFICES ASSUME NEW v \in Vm!VMs, NEW name \in Vm!Library
                 PROVE  Vm!Setter(v, name) = {"lua"}
    BY DEF Libraried
  <2>2. its.g[v] = {<<n, "lua">> : n \in Vm!Library}
    BY <1>1
  <2>3. <<name, "lua">> \in its.g[v] /\ \A x \in its.g[v] : x[2] = "lua"
    BY <2>2
  <2>4. QED
    BY <2>3 DEF Vm!Setter
<1>9. Replaced /\ Served
  BY <1>3 DEF Replaced, Served, LookedUpAt
<1>10. QED
  BY <1>2, <1>4, <1>5, <1>6, <1>7, <1>8, <1>9 DEF VmInv

\* A step finds what it needs: it fails for what the configuration or the project brought.
LEMMA VmRefuses ==
    ASSUME VmShape, Wired, Libraried, NEW v, NEW do, NEW s \in 1..42, s = its.stage,
           Doing(s, v, do), Vm!Refuses(v, do)
    PROVE  \/ do = "extra" /\ \E e \in its.extra : e[2] = "unconvertible"
           \/ \E e \in its.extra : e[1] \in Vm!Needs(v, do) /\ ~Vm!Fits(e[1])
           \/ do \in {"fs", "kv", "sql", "ts"} /\ its.copy.found \notin {"nowhere", "table"}
<1>1. v \in Vm!VMs
  BY TheOrder
<1>2. ASSUME NEW name, NEW k, SetBy(v, name, k), ~Vm!Met(v, name)
      PROVE  ~Late(k) /\ Brought(name) /\ ~Vm!Fits(name)
  BY <1>2 DEF SetBy, Vm!Met, Vm!Has
<1>3. ASSUME NEW name \in Vm!Library, ~Vm!Met(v, name)
      PROVE  Brought(name) /\ ~Vm!Fits(name)
  BY <1>1, <1>3 DEF Libraried, Vm!Met, Vm!Has
<1>4. ASSUME do \in {"overrides", "fs", "kv", "sql", "ts", "log", "task"}
      PROVE  SetBy(v, "std", Own(v, 2, 8))
  <2>1. s > Own(v, 2, 8)
    BY <1>4, TheOrder
  <2>2. PICK k : k = Own(v, 2, 8)
    OBVIOUS
  <2>3. k \in 1..42 /\ k < its.stage
    BY <2>1, <2>2 DEF Own
  <2>4. Doing(k, v, "std")
    BY <1>1, <2>2, ThePlaces DEF Own, Vm!VMs
  <2>5. "std" \in Vm!Sets("std")
    BY DEF Vm!Sets
  <2>6. QED
    BY <2>2, <2>3, <2>4, <2>5, WiredAt
<1>5. ASSUME do \in {"mesh", "tool", "log", "mcp", "http"}
      PROVE  SetBy(v, "_SCRIPT_NAME", Own(v, 1, 7))
  <2>1. s > 12
    BY <1>5, TheOrder
  <2>2. PICK k : k = Own(v, 1, 7)
    OBVIOUS
  <2>3. k \in 1..42 /\ k < its.stage
    BY <2>1, <2>2 DEF Own
  <2>4. Doing(k, v, "names")
    BY <1>1, <2>2, ThePlaces DEF Own, Vm!VMs
  <2>5. "_SCRIPT_NAME" \in Vm!Sets("names")
    BY DEF Vm!Sets
  <2>6. QED
    BY <2>2, <2>3, <2>4, <2>5, WiredAt
<1>6. ASSUME do = "mesh", v = "main"
      PROVE  Vm!Met(v, "bus")
  <2>1. 13 \in 1..42 /\ 13 < its.stage /\ Late(13)
    BY <1>6, TheOrder DEF Late
  <2>2. "bus" \in Vm!Sets("bus")
    BY DEF Vm!Sets
  <2>3. SetBy(v, "bus", 13)
    BY <1>6, <2>1, <2>2, ThePlaces, WiredAt
  <2>4. QED
    BY <1>2, <2>1, <2>3
<1>7. ASSUME do = "host_tools"
      PROVE  Vm!Met(v, "_TOOL_REGISTRY")
  <2>1. s = 42 /\ v = "main"
    BY <1>7, TheOrder
  <2>2. PICK k \in 14..26 : Doing(k, "main", "tool")
    BY ThePlaces
  <2>3. k \in 1..42 /\ k < its.stage /\ Late(k)
    BY <2>1, <2>2 DEF Late
  <2>4. "_TOOL_REGISTRY" \in Vm!Sets("tool")
    BY DEF Vm!Sets
  <2>5. SetBy(v, "_TOOL_REGISTRY", k)
    BY <2>1, <2>2, <2>3, <2>4, WiredAt
  <2>6. QED
    BY <1>2, <2>3, <2>5
<1>8. ASSUME NEW need \in Vm!Needs(v, do), ~Vm!Met(v, need)
      PROVE  Brought(need) /\ ~Vm!Fits(need)
  <2>1. CASE do \in {"overrides", "task"}
    BY <1>2, <1>4, <1>8, <2>1 DEF Vm!Needs
  <2>2. CASE do \in {"path", "registry"}
    BY <1>3, <1>8, <2>2 DEF Vm!Needs, Vm!Library
  <2>3. CASE do = "mesh"
    BY <1>2, <1>5, <1>6, <1>8, <2>3 DEF Vm!Needs
  <2>4. CASE do \in {"tool", "mcp", "http"}
    BY <1>2, <1>5, <1>8, <2>4 DEF Vm!Needs
  <2>5. CASE do = "log"
    BY <1>2, <1>4, <1>5, <1>8, <2>5 DEF Vm!Needs
  <2>6. CASE do \in {"fs", "kv", "sql", "ts"}
    <3>1. need \in Vm!ToolsNeeds
      BY <1>8, <2>6 DEF Vm!Needs
    <3>2. need = "std" \/ need \in Vm!Library
      BY <3>1 DEF Vm!ToolsNeeds, Vm!Library
    <3>3. QED
      BY <1>2, <1>3, <1>4, <1>8, <2>6, <3>2
  <2>7. CASE do = "host_tools"
    BY <1>7, <1>8, <2>7 DEF Vm!Needs
  <2>8. CASE do \notin {"overrides", "path", "registry", "mesh", "tool", "fs", "kv", "sql", "ts",
                        "log", "mcp", "http", "task", "host_tools"}
    BY <1>8, <2>8 DEF Vm!Needs
  <2>9. QED
    BY <2>1, <2>2, <2>3, <2>4, <2>5, <2>6, <2>7, <2>8
<1>9. Vm!load_tools_module(its.copy) = {} => its.copy.found \notin {"nowhere", "table"}
  BY DEF Vm!load_tools_module
<1>10. QED
  BY <1>8, <1>9 DEF Vm!Refuses, Brought

\* A step that refuses ends the set-up.
LEMMA VmFails ==
    ASSUME VmInv, NEW v, NEW do, NEW s \in 1..42, s = its.stage,
           Doing(s, v, do), Vm!Refuses(v, do),
           its' = [its EXCEPT !.failed = do]
    PROVE  VmInv'
<1>1. /\ its'.stage = its.stage /\ its'.failed = do /\ its'.g = its.g /\ its'.std = its.std
      /\ its'.copy = its.copy /\ its'.extra = its.extra /\ its'.host = its.host
      /\ its'.tools = its.tools /\ its'.listed = its.listed /\ its'.called = its.called
      /\ VmShape'
  BY DEF VmInv, VmShape
<1>2. Wired' /\ Libraried' /\ Replaced' /\ Served'
  BY <1>1, VmStays DEF VmInv
<1>3. Installed'
  BY <1>1 DEF VmInv, Installed, Answered
<1>4. Registered'
  <2>1. Registered
    BY DEF VmInv
  <2>2. Vm!inspect_tools' = Vm!inspect_tools /\ \A u : Vm!list(u)' = Vm!list(u)
    BY <1>1 DEF Vm!inspect_tools, Vm!list
  <2>3. Vm!SchemaWhole'
    BY <1>1, <2>1, <2>2 DEF Registered, Vm!SchemaWhole
  <2>4. QED
    BY <1>1, <2>1, <2>2, <2>3 DEF Registered
<1>5. Vm!SetupFindsItsNeeds'
  <2>1. /\ Vm!Step' = Vm!Steps[s] /\ Vm!Steps[s].on = v /\ its'.connected = its.connected
    BY <1>1 DEF Vm!Step, Doing, VmInv, VmShape
  <2>2. Vm!Needs(v, do)' = Vm!Needs(v, do) /\ \A name : Vm!Fits(name)' <=> Vm!Fits(name)
    BY <1>1, <2>1 DEF Vm!Needs, Vm!ToolsNeeds, Vm!Fits
  <2>3. \/ do = "extra" /\ \E e \in its.extra : e[2] = "unconvertible"
        \/ \E e \in its.extra : e[1] \in Vm!Needs(v, do) /\ ~Vm!Fits(e[1])
        \/ do \in {"fs", "kv", "sql", "ts"} /\ its.copy.found \notin {"nowhere", "table"}
    BY VmRefuses DEF VmInv
  <2>4. QED
    BY <1>1, <2>1, <2>2, <2>3 DEF Vm!SetupFindsItsNeeds
<1>6. QED
  BY <1>1, <1>2, <1>3, <1>4, <1>5 DEF VmInv

\* What a step makes of a VM's globals, and the tools the host brings.
Globals(v, do, set) ==
    IF do = "extra" THEN Vm!extra_globals(v, its.g[v]) ELSE HostSet(its.g[v], set)
\* The entries inject_host_tools makes.
HostOnes == {Vm!Fresh(its.host[k], "rust") : k \in DOMAIN its.host}

\* Each has the name it was made for.
LEMMA FreshOnes == \A n, by : Vm!Fresh(n, by).name = n
  BY DEF Vm!Fresh

\* A step of the set-up that is done.
LEMMA VmGoesOn ==
    ASSUME VmInv, NEW s \in 1..42, s = its.stage, NEW v, NEW do, its.failed = "no",
           Doing(s, v, do), ~Vm!Refuses(v, do), NEW set, set = Vm!Sets(do),
           NEW g, NEW std, NEW tools,
           g = Globals(v, do, set),
           std = IF do = "fs" THEN Answered ELSE its.std[v],
           do = "host_tools" => tools = HostOnes,
           its' = [its EXCEPT !.stage = s + 1, !.g[v] = g, !.std[v] = std, !.tools[v] = tools]
    PROVE  VmInv'
<1>1. v \in Vm!VMs
  BY TheOrder
<1>2. /\ its'.stage = s + 1 /\ its'.failed = "no" /\ its'.g = [its.g EXCEPT ![v] = g]
      /\ its'.std = [its.std EXCEPT ![v] = std]
      /\ its'.copy = its.copy /\ its'.extra = its.extra /\ its'.host = its.host
      /\ its'.tools = [its.tools EXCEPT ![v] = tools]
      /\ its'.listed = its.listed /\ its'.called = its.called
      /\ its' = [stage |-> its'.stage, failed |-> its'.failed, g |-> its'.g, std |-> its'.std,
                copy |-> its'.copy, extra |-> its'.extra, host |-> its'.host,
                connected |-> its'.connected, tools |-> its'.tools,
                listed |-> its'.listed, called |-> its'.called, calls |-> its'.calls]
  BY DEF VmInv, VmShape
<1>3. /\ \A u \in Vm!VMs : its'.g[u] = IF u = v THEN g ELSE its.g[u]
      /\ \A u \in Vm!VMs : its'.std[u] = IF u = v THEN std ELSE its.std[u]
      /\ \A u \in Vm!VMs : its'.tools[u] = IF u = v THEN tools ELSE its.tools[u]
  BY <1>1, <1>2 DEF VmInv, VmShape
<1>4. VmShape'
  <2>1. its'.g = [u \in Vm!VMs |-> its'.g[u]]
    BY <1>1, <1>2 DEF VmInv, VmShape
  <2>2. its'.std = [u \in Vm!VMs |-> its'.std[u]]
    BY <1>1, <1>2 DEF VmInv, VmShape
  <2>3. its'.tools = [u \in Vm!VMs |-> its'.tools[u]]
    BY <1>1, <1>2 DEF VmInv, VmShape
  <2>4. its'.stage \in 1..43 /\ its'.copy \in Copies
    BY <1>2 DEF VmInv, VmShape
  <2>5. QED
    BY <1>2, <2>1, <2>2, <2>3, <2>4 DEF VmShape
<1>5. \A u \in Vm!VMs : \A name : (u # v => Vm!Setter(u, name)' = Vm!Setter(u, name))
  BY <1>3 DEF Vm!Setter
<1>6. \A name : /\ Vm!Setter(v, name)' = SetterOf(g, name)
                /\ Vm!Setter(v, name) = SetterOf(its.g[v], name)
  BY <1>1, <1>3 DEF Vm!Setter, SetterOf
<1>7. ASSUME do # "extra", NEW name
      PROVE  SetterOf(g, name) = IF name \in set THEN {"host"} ELSE SetterOf(its.g[v], name)
  <2>1. PICK g0 : g0 = its.g[v]
    OBVIOUS
  <2>2. g = HostSet(g0, set)
    BY <1>7, <2>1 DEF Globals
  <2>3. SetterOf(HostSet(g0, set), name) = IF name \in set THEN {"host"} ELSE SetterOf(g0, name)
    BY HostSets
  <2>4. QED
    BY <2>1, <2>2, <2>3
<1>8. ASSUME do = "extra", NEW name
      PROVE  SetterOf(g, name) = IF Brought(name) THEN {"sdk"} ELSE SetterOf(its.g[v], name)
  <2>1. PICK g0 : g0 = its.g[v]
    OBVIOUS
  <2>2. PICK extra : extra = its.extra
    OBVIOUS
  <2>3. g = ExtraSet(g0, extra)
    BY <1>8, <2>1, <2>2 DEF Vm!extra_globals, ExtraSet, Globals
  <2>4. SetterOf(g, name) = IF \E e \in extra : e[1] = name THEN {"sdk"} ELSE SetterOf(g0, name)
    <3>1. SetterOf(ExtraSet(g0, extra), name)
            = IF \E e \in extra : e[1] = name THEN {"sdk"} ELSE SetterOf(g0, name)
      BY ExtraSets
    <3>2. QED
      BY <2>3, <3>1
  <2>5. QED
    BY <2>1, <2>2, <2>4 DEF Brought
<1>9. \A name : Brought(name)' <=> Brought(name)
  BY <1>2 DEF Brought
<1>10. Wired'
  <2>1. SUFFICES ASSUME NEW k \in 1..42, k < s + 1, NEW name \in Vm!Sets(Vm!Steps[k].do)
                 PROVE  SetBy(Vm!Steps[k].on, name, k)'
    BY <1>2 DEF Wired
  <2>2. PICK u : u = Vm!Steps[k].on
    OBVIOUS
  <2>3. CASE k = s
    <3>1. u = v /\ name \in set
      BY <2>2, <2>3 DEF Doing
    <3>2. do # "extra"
      BY <3>1 DEF Vm!Sets
    <3>3. Vm!Setter(v, name)' = {"host"}
      BY <1>6, <1>7, <3>1, <3>2
    <3>4. QED
      BY <2>2, <3>1, <3>3 DEF SetBy
  <2>4. CASE k # s
    <3>1. k < s /\ SetBy(u, name, k)
      <4>1. k < s
        BY <2>1, <2>4
      <4>2. Wired
        BY DEF VmInv
      <4>3. k < its.stage
        BY <4>1
      <4>4. SetBy(Vm!Steps[k].on, name, k)
        BY <2>1, <4>2, <4>3, Zenon DEF Wired
      <4>5. QED
        BY <2>2, <4>1, <4>4
    <3>2. u \in Vm!VMs /\ (k \in 1..6 => u = "main") /\ (k \in 7..12 => u = "handler")
      <4>1. PICK w : Doing(k, u, w)
        BY <2>2 DEF Doing
      <4>2. QED
        BY <4>1, TheOrder
    <3>3. CASE u # v
      BY <1>5, <1>9, <2>2, <3>1, <3>2, <3>3 DEF SetBy
    <3>4. CASE u = v /\ do # "extra"
      BY <1>6, <1>7, <1>9, <2>2, <3>1, <3>4 DEF SetBy
    <3>5. CASE u = v /\ do = "extra"
      <4>1. s = Own(v, 4, 10)
        BY <3>5, TheOrder
      <4>2. ~Late(k)
        BY <1>1, <3>1, <3>2, <3>5, <4>1 DEF Own, Late, Vm!VMs
      <4>3. QED
        BY <1>6, <1>8, <1>9, <2>2, <3>1, <3>5, <4>2 DEF SetBy
    <3>6. QED
      BY <3>3, <3>4, <3>5
  <2>5. QED
    BY <2>3, <2>4
<1>11. Installed'
  <2>1. SUFFICES ASSUME NEW u \in Vm!VMs, s + 1 > Own(u, 17, 32)
                 PROVE  Vm!load_tools_module(its.copy) # {} /\ its'.std[u] = Answered
    BY <1>2 DEF Installed, Answered
  <2>2. CASE u = v /\ do = "fs"
    BY <1>3, <2>2 DEF Vm!Refuses
  <2>3. CASE ~(u = v /\ do = "fs")
    <3>1. its'.std[u] = its.std[u]
      BY <1>3, <2>3
    <3>2. s > Own(u, 17, 32)
      <4>1. s # Own(u, 17, 32)
        <5>1. CASE u = v
          BY <2>3, <5>1, TheOrder
        <5>2. CASE u # v
          <6>1. Vm!Steps[17].on = "main" /\ Vm!Steps[32].on = "handler"
            BY TheSteps
          <6>2. QED
            BY <1>1, <5>2, <6>1 DEF Own, Vm!VMs, Doing
        <5>3. QED
          BY <5>1, <5>2
      <4>2. QED
        BY <2>1, <4>1 DEF Own
    <3>3. QED
      BY <3>1, <3>2 DEF VmInv, Installed
  <2>4. QED
    BY <2>2, <2>3
<1>12. Registered'
  <2>1. its.listed = {} /\ its.called = {}
    <3>1. its.stage # 43
      OBVIOUS
    <3>2. Registered
      BY DEF VmInv
    <3>3. QED
      BY <3>1, <3>2 DEF Registered
  <2>2. its'.stage = 43 => Vm!inspect_tools' \subseteq Vm!list("main")'
    <3>1. SUFFICES ASSUME s = 42 PROVE Vm!inspect_tools' \subseteq Vm!list("main")'
      BY <1>2
    <3>2. do = "host_tools" /\ v = "main"
      BY <3>1, TheOrder
    <3>3. its'.tools["main"] = {Vm!Fresh(its.host[k], "rust") : k \in DOMAIN its.host}
      BY <1>1, <1>3, <3>2 DEF HostOnes
    <3>4. \A k \in DOMAIN its.host : \E x \in its'.tools["main"] : x.name = its.host[k]
      BY <3>3, FreshOnes
    <3>5. QED
      BY <1>2, <3>4 DEF Vm!inspect_tools, Vm!list
  <2>3. QED
    BY <1>2, <2>1, <2>2 DEF Registered, Vm!SchemaWhole
<1>13. Vm!SetupFindsItsNeeds'
  BY <1>2 DEF Vm!SetupFindsItsNeeds
<1>14. \A name : Vm!Fits(name)' <=> Vm!Fits(name)
  BY <1>2 DEF Vm!Fits
<1>15. Libraried'
  <2>1. SUFFICES ASSUME NEW u \in Vm!VMs, NEW name \in Vm!Library
                 PROVE  \/ Vm!Setter(u, name)' = {"lua"}
                        \/ Vm!Setter(u, name)' = {"sdk"} /\ Brought(name)
    BY <1>9 DEF Libraried
  <2>2. Vm!Setter(u, name) = {"lua"} \/ (Vm!Setter(u, name) = {"sdk"} /\ Brought(name))
    BY DEF VmInv, Libraried
  <2>3. CASE u # v
    BY <1>5, <2>2, <2>3
  <2>4. CASE u = v /\ do # "extra"
    BY <1>6, <1>7, <2>2, <2>4, SetsOfTheHost
  <2>5. CASE u = v /\ do = "extra"
    BY <1>6, <1>8, <2>2, <2>5
  <2>6. QED
    BY <2>3, <2>4, <2>5
<1>16. Replaced'
  <2>1. SUFFICES ASSUME s + 1 > 4, NEW name \in Looked, Brought(name)
                 PROVE  Vm!Setter("main", name)' = {"sdk"}
    BY <1>2, <1>9 DEF Replaced
  <2>2. "main" \in Vm!VMs
    BY DEF Vm!VMs
  <2>3. CASE s = 4
    <3>1. v = "main" /\ do = "extra"
      BY <2>3, TheOrder
    <3>2. QED
      BY <1>6, <1>8, <2>1, <3>1
  <2>4. CASE s > 4
    <3>1. Vm!Setter("main", name) = {"sdk"}
      BY <2>1, <2>4 DEF VmInv, Replaced
    <3>2. CASE v # "main"
      BY <1>5, <2>2, <3>1, <3>2
    <3>3. CASE v = "main"
      <4>1. do \notin {"names", "std", "extra"}
        BY <2>4, <3>3, TheOrder DEF Own
      <4>2. name \notin set
        BY <2>1, <4>1, SetsOfTheHost
      <4>3. QED
        BY <1>6, <1>7, <3>1, <3>3, <4>1, <4>2
    <3>4. QED
      BY <3>2, <3>3
  <2>5. QED
    BY <2>1, <2>3, <2>4
<1>17. Served'
  <2>1. SUFFICES ASSUME NEW name \in Looked, Brought(name), ~Vm!Fits(name)
                 PROVE  s + 1 <= LookedUpAt(name)
    BY <1>2, <1>9, <1>14 DEF Served
  <2>2. s <= LookedUpAt(name) /\ LookedUpAt(name) \in {5, 14, 17}
    BY <2>1 DEF VmInv, Served, LookedUpAt
  <2>3. s # LookedUpAt(name)
    <3>1. SUFFICES ASSUME s = LookedUpAt(name) PROVE FALSE
      OBVIOUS
    <3>2. v = "main"
      BY <2>2, <3>1, TheOrder
    <3>3. name \in Vm!Needs(v, do)
      <4>1. CASE name = "package"
        <5>1. do = "path"
          BY <3>1, <4>1, TheOrder DEF LookedUpAt
        <5>2. QED
          BY <4>1, <5>1 DEF Vm!Needs
      <4>2. CASE name = "_SCRIPT_NAME"
        <5>1. do = "mesh"
          BY <3>1, <4>2, TheOrder DEF LookedUpAt
        <5>2. QED
          BY <4>2, <5>1 DEF Vm!Needs
      <4>3. CASE name \notin {"package", "_SCRIPT_NAME"}
        <5>1. do = "fs"
          BY <3>1, <3>2, <4>3, TheOrder DEF LookedUpAt, Own
        <5>2. name \in Vm!ToolsNeeds
          BY <2>1, <4>3 DEF Looked, Vm!ToolsNeeds
        <5>3. QED
          BY <5>1, <5>2 DEF Vm!Needs
      <4>4. QED
        BY <4>1, <4>2, <4>3
    <3>4. Vm!Setter(v, name) = {"sdk"}
      BY <2>1, <2>2, <3>1, <3>2 DEF VmInv, Replaced
    <3>5. ~Vm!Met(v, name)
      BY <2>1, <3>4 DEF Vm!Met
    <3>6. QED
      BY <3>3, <3>5 DEF Vm!Refuses
  <2>4. QED
    BY <2>2, <2>3
<1>18. QED
  BY <1>4, <1>10, <1>11, <1>12, <1>13, <1>15, <1>16, <1>17 DEF VmInv

\* A step of the set-up is done or refuses.
LEMMA VmSetsUp == ASSUME VmInv, Vm!SetUp PROVE VmInv'
<1>1. PICK s : s = its.stage
  OBVIOUS
<1>2. Len(Vm!Steps) = 42
  BY TheSteps
<1>3. s \in 1..42 /\ its.failed = "no"
  BY <1>1, <1>2 DEF Vm!SetUp, VmInv, VmShape
<1>4. PICK v : v = Vm!Steps[s].on
  OBVIOUS
<1>5. PICK do : do = Vm!Steps[s].do
  OBVIOUS
<1>6. Doing(s, v, do)
  BY <1>4, <1>5 DEF Doing
<1>7. PICK set : set = Vm!Sets(do)
  OBVIOUS
<1>8. CASE Vm!Refuses(v, do)
  <2>1. its' = [its EXCEPT !.failed = do]
    BY <1>1, <1>4, <1>5, <1>8 DEF Vm!SetUp, Vm!Step
  <2>2. QED
    BY <1>1, <1>3, <1>6, <1>8, <2>1, VmFails
<1>9. CASE ~Vm!Refuses(v, do)
  <2>1. PICK g : g = Globals(v, do, set)
    OBVIOUS
  <2>2. PICK std : std = IF do = "fs" THEN Answered ELSE its.std[v]
    OBVIOUS
  <2>3. PICK tools : tools = CASE do = "tool" -> {}
                                [] do = "host_tools" ->
                                     {Vm!Fresh(its.host[k], "rust") : k \in DOMAIN its.host}
                                [] OTHER -> its.tools[v]
    OBVIOUS
  <2>4. its' = [its EXCEPT !.stage = @ + 1, !.g[v] = g, !.std[v] = std, !.tools[v] = tools]
    BY <1>1, <1>4, <1>5, <1>7, <1>9, <2>1, <2>2, <2>3, Zenon
       DEF Vm!SetUp, Vm!Step, Answered, Globals, HostSet
  <2>5. its' = [its EXCEPT !.stage = s + 1, !.g[v] = g, !.std[v] = std, !.tools[v] = tools]
    BY <1>1, <2>4
  <2>6. do = "host_tools" => tools = HostOnes
    BY <2>3 DEF HostOnes
  <2>7. QED
    BY <1>1, <1>3, <1>6, <1>7, <1>9, <2>1, <2>2, <2>5, <2>6, VmGoesOn
<1>10. QED
  BY <1>8, <1>9

\* A step of the registry leaves the set-up as it is.
LEMMA VmUses ==
    ASSUME VmInv, Registered',
           NEW listed, NEW called, NEW tools, tools = [v \in Vm!VMs |-> tools[v]], NEW calls,
           its' = [its EXCEPT !.tools = tools, !.listed = listed, !.called = called,
                              !.calls = calls]
    PROVE  VmInv'
<1>1. /\ its'.stage = its.stage /\ its'.failed = its.failed /\ its'.g = its.g /\ its'.std = its.std
      /\ its'.copy = its.copy /\ its'.extra = its.extra /\ its'.host = its.host
      /\ VmShape'
  BY DEF VmInv, VmShape
<1>2. Wired' /\ Libraried' /\ Replaced' /\ Served'
  BY <1>1, VmStays DEF VmInv
<1>3. Installed'
  BY <1>1 DEF VmInv, Installed, Answered
<1>4. Vm!SetupFindsItsNeeds'
  <2>1. its'.connected = its.connected
    BY DEF VmInv, VmShape
  <2>2. QED
    BY <1>1, <2>1 DEF VmInv, Vm!SetupFindsItsNeeds, Vm!Step, Vm!Needs, Vm!ToolsNeeds, Vm!Fits
<1>5. QED
  BY <1>1, <1>2, <1>3, <1>4 DEF VmInv

\* When the registry is called the set-up is through and the host's tools are there.
LEMMA VmUnderWay ==
    ASSUME VmInv, Vm!Call
    PROVE  /\ its.stage = 43 /\ Vm!inspect_tools \subseteq Vm!list("main")
           /\ \A c \in its.called :
                (c.on = "main" /\ c.name \in Vm!inspect_tools) => c.how # "not found"
           /\ Vm!SchemaWhole
           /\ its.tools = [v \in Vm!VMs |-> its.tools[v]]
<1>1. its.stage \in 1..43 /\ its.stage > 42
  BY TheSteps DEF VmInv, VmShape, Vm!Call, Vm!Running
<1>2. its.stage = 43
  BY <1>1
<1>3. QED
  BY <1>2 DEF VmInv, VmShape, Registered

\* tool.register replaces an entry of its name and keeps every name.
LEMMA VmRegisters ==
    ASSUME VmInv, NEW u \in Vm!VMs, NEW t \in Named, Vm!register(u, t)
    PROVE  VmInv'
<1>1. PICK entry : entry = [name |-> t.name, by |-> "lua", described |-> t.described]
  OBVIOUS
<1>2. PICK tools : tools = [its.tools EXCEPT
                               ![u] = {x \in its.tools[u] : x.name # t.name} \cup {entry}]
  OBVIOUS
<1>3. Vm!Call
  BY DEF Vm!register
<1>4. PICK calls : calls = its.calls + 1
  OBVIOUS
<1>5. its' = [its EXCEPT !.tools = tools, !.listed = {}, !.called = its.called, !.calls = calls]
  BY <1>1, <1>2, <1>4 DEF Vm!register, VmInv, VmShape
<1>6. its'.tools = tools /\ its'.listed = {} /\ its'.called = its.called /\ its'.host = its.host
      /\ its'.stage = its.stage
  BY <1>5 DEF VmInv, VmShape
<1>7. tools = [v \in Vm!VMs |-> tools[v]]
  BY <1>2, <1>3, VmUnderWay
<1>8. Vm!inspect_tools' = Vm!inspect_tools
  BY <1>6 DEF Vm!inspect_tools
<1>9. Vm!list("main") \subseteq Vm!list("main")'
  <2>1. ASSUME NEW x \in its.tools["main"] PROVE \E y \in tools["main"] : y.name = x.name
    <3>1. CASE u = "main"
      <4>1. tools["main"] = {y \in its.tools["main"] : y.name # t.name} \cup {entry}
        BY <1>2, <1>3, <3>1, VmUnderWay DEF Vm!VMs
      <4>2. entry.name = t.name
        BY <1>1
      <4>3. QED
        BY <4>1, <4>2
    <3>2. CASE u # "main"
      BY <1>2, <1>3, <3>2, VmUnderWay DEF Vm!VMs
    <3>3. QED
      BY <3>1, <3>2
  <2>2. QED
    BY <1>6, <2>1 DEF Vm!list
<1>10. Registered'
  <2>1. Vm!SchemaWhole'
    BY <1>6 DEF Vm!SchemaWhole
  <2>2. QED
    BY <1>3, <1>6, <1>8, <1>9, <2>1, VmUnderWay DEF Registered
<1>11. PICK listed : listed = {}
  OBVIOUS
<1>12. PICK called : called = its.called
  OBVIOUS
<1>13. its' = [its EXCEPT !.tools = tools, !.listed = listed, !.called = called, !.calls = calls]
  BY <1>5, <1>11, <1>12
<1>14. QED
  BY <1>7, <1>10, <1>13, VmUses

\* tool.call finds what stands.
LEMMA VmCalls ==
    ASSUME VmInv, NEW u \in Vm!VMs, NEW name, Vm!call(u, name)
    PROVE  VmInv'
<1>1. Vm!Call
  BY DEF Vm!call
<1>2. PICK tools : tools = its.tools
  OBVIOUS
<1>3. PICK listed : listed = its.listed
  OBVIOUS
<1>4. PICK calls : calls = its.calls + 1
  OBVIOUS
<1>5. PICK how : /\ {x \in its.tools[u] : x.name = name} # {} => how # "not found"
                 /\ its' = [its EXCEPT !.calls = @ + 1,
                                     !.called = {[on |-> u, name |-> name, how |-> how]}]
  BY DEF Vm!call
<1>6. PICK made : made = [on |-> u, name |-> name, how |-> how]
  OBVIOUS
<1>7. PICK called : called = {made}
  OBVIOUS
<1>8. its' = [its EXCEPT !.tools = tools, !.listed = listed, !.called = called, !.calls = calls]
  BY <1>2, <1>3, <1>4, <1>5, <1>6, <1>7 DEF VmInv, VmShape
<1>9. /\ its'.tools = its.tools /\ its'.listed = its.listed /\ its'.called = {made}
      /\ its'.host = its.host
      /\ its'.stage = its.stage
  BY <1>2, <1>3, <1>7, <1>8 DEF VmInv, VmShape
<1>10. Vm!inspect_tools' = Vm!inspect_tools /\ \A v : Vm!list(v)' = Vm!list(v)
  BY <1>9 DEF Vm!inspect_tools, Vm!list
<1>11. Registered'
  <2>1. Vm!SchemaWhole'
    BY <1>1, <1>9, <1>10, VmUnderWay DEF Vm!SchemaWhole
  <2>2. u = "main" /\ name \in Vm!inspect_tools => how # "not found"
    <3>1. SUFFICES ASSUME u = "main", name \in Vm!inspect_tools PROVE how # "not found"
      OBVIOUS
    <3>2. name \in Vm!list("main")
      BY <1>1, <3>1, VmUnderWay
    <3>3. PICK x \in its.tools["main"] : x.name = name
      BY <3>2 DEF Vm!list
    <3>4. QED
      BY <1>5, <3>1, <3>3
  <2>3. made.on = u /\ made.name = name /\ made.how = how
    BY <1>6
  <2>4. QED
    BY <1>1, <1>9, <1>10, <2>1, <2>2, <2>3, VmUnderWay DEF Registered
<1>12. QED
  BY <1>1, <1>2, <1>8, <1>11, VmUses, VmUnderWay

\* tool.schema names every tool or fails.
LEMMA VmLists ==
    ASSUME VmInv, NEW u \in Vm!VMs, Vm!schema(u)
    PROVE  VmInv'
<1>1. Vm!Call
  BY DEF Vm!schema
<1>2. PICK tools : tools = its.tools
  OBVIOUS
<1>3. PICK called : called = its.called
  OBVIOUS
<1>4. PICK calls : calls = its.calls + 1
  OBVIOUS
<1>5. PICK all : all = Vm!list(u)
  OBVIOUS
<1>6. PICK listed : /\ listed \in {{<<u, all>>}, {}}
                    /\ its' = [its EXCEPT !.calls = @ + 1, !.listed = listed]
  BY <1>5 DEF Vm!schema
<1>7. its' = [its EXCEPT !.tools = tools, !.listed = listed, !.called = called, !.calls = calls]
  BY <1>2, <1>3, <1>4, <1>6 DEF VmInv, VmShape
<1>8. /\ its'.tools = its.tools /\ its'.listed = listed /\ its'.called = its.called
      /\ its'.host = its.host
      /\ its'.stage = its.stage
  BY <1>2, <1>3, <1>7 DEF VmInv, VmShape
<1>9. Vm!inspect_tools' = Vm!inspect_tools /\ \A v : Vm!list(v)' = Vm!list(v)
  BY <1>8 DEF Vm!inspect_tools, Vm!list
<1>10. Registered'
  <2>1. Vm!SchemaWhole'
    BY <1>5, <1>6, <1>8, <1>9 DEF Vm!SchemaWhole
  <2>2. QED
    BY <1>1, <1>8, <1>9, <2>1, VmUnderWay DEF Registered
<1>11. QED
  BY <1>1, <1>2, <1>7, <1>10, VmUses, VmUnderWay

----------------------------------------------------------------------------
(* The walk of load_tools_module, in closed form *)

\* The names of a table; those of the first k; the tables that are first for a name; and the
\* names taken from the first k.
Within(level) == {x[1] : x \in level}
SeenBy(levels, k) == UNION {Within(levels[j]) : j \in 1..k}
FirstAt(levels, name, j) ==
    name \in Within(levels[j]) /\ \A i \in 1..j - 1 : name \notin Within(levels[i])
Callable(level, name) == \E x \in level : x[1] = name /\ x[2] = "function"
TakenBy(levels, k) ==
    {name \in SeenBy(levels, k) :
        \E j \in 1..k : FirstAt(levels, name, j) /\ Callable(levels[j], name)}

\* What the walk looks at in one table.
New(level, seen) == {x \in level : x[1] \notin seen}
Functions(level) == {y \in level : y[2] = "function"}

\* One table further, the names seen and taken are those of the definition above.
LEMMA OneLevelOn ==
    ASSUME NEW levels, Chain(levels), NEW k \in 1..Len(levels), NEW seen, NEW target, NEW new,
           seen = SeenBy(levels, k - 1), target = TakenBy(levels, k - 1),
           new = New(levels[k], seen)
    PROVE  /\ seen \cup Within(new) = SeenBy(levels, k)
           /\ target \cup Within(Functions(new)) = TakenBy(levels, k)
<1>1. k \in Nat /\ k >= 1 /\ 1..k = (1..k - 1) \cup {k}
  BY DEF Chain
<1>2. \A n : n \in SeenBy(levels, k) <=> n \in seen \/ n \in Within(levels[k])
  BY <1>1 DEF SeenBy
<1>3. \A n : n \in Within(new) <=> n \in Within(levels[k]) /\ n \notin seen
  BY DEF Within, New
<1>4. seen \cup Within(new) = SeenBy(levels, k)
  BY <1>2, <1>3
<1>5. \A n : n \in seen <=> \E j \in 1..k - 1 : n \in Within(levels[j])
  BY DEF SeenBy
<1>6. \A n : n \in Within(Functions(new)) <=> n \notin seen /\ Callable(levels[k], n)
  BY DEF Within, Functions, New, Callable
<1>7. \A n : FirstAt(levels, n, k) <=> n \in Within(levels[k]) /\ n \notin seen
  BY <1>5 DEF FirstAt
<1>8. \A n : Callable(levels[k], n) => n \in Within(levels[k])
  BY DEF Callable, Within
<1>9. ASSUME NEW n
      PROVE  n \in TakenBy(levels, k) <=> n \in target \/ n \in Within(Functions(new))
  <2>1. n \in TakenBy(levels, k) <=>
            /\ n \in SeenBy(levels, k)
            /\ \E j \in 1..k : FirstAt(levels, n, j) /\ Callable(levels[j], n)
    BY DEF TakenBy
  <2>2. n \in target <=>
            /\ n \in seen
            /\ \E j \in 1..k - 1 : FirstAt(levels, n, j) /\ Callable(levels[j], n)
    BY DEF TakenBy
  <2>3. ASSUME NEW j \in 1..k - 1, FirstAt(levels, n, j) PROVE n \in seen
    BY <1>5, <2>3 DEF FirstAt
  <2>4. (\E j \in 1..k : FirstAt(levels, n, j) /\ Callable(levels[j], n)) <=>
            \/ \E j \in 1..k - 1 : FirstAt(levels, n, j) /\ Callable(levels[j], n)
            \/ FirstAt(levels, n, k) /\ Callable(levels[k], n)
    BY <1>1
  <2>5. QED
    BY <1>2, <1>6, <1>7, <1>8, <2>1, <2>2, <2>3, <2>4
<1>10. QED
  BY <1>4, <1>9

\* The state of the walk behind k tables, its step, and the function it is written as.
At(levels, k) == [seen |-> SeenBy(levels, k), target |-> TakenBy(levels, k)]
OneOn(levels, k, w) ==
    [seen |-> w.seen \cup Within(New(levels[k], w.seen)),
     target |-> w.target \cup Within(Functions(New(levels[k], w.seen)))]
Walk(levels, f) ==
    [k \in 0..Len(levels) |->
        IF k = 0 THEN [seen |-> {}, target |-> {}] ELSE OneOn(levels, k, f[k - 1])]

\* The walk starts with nothing.
LEMMA AtStart == ASSUME NEW levels PROVE At(levels, 0) = [seen |-> {}, target |-> {}]
<1>1. SeenBy(levels, 0) = {}
  BY DEF SeenBy
<1>2. TakenBy(levels, 0) = {}
  BY <1>1 DEF TakenBy
<1>3. QED
  BY <1>1, <1>2 DEF At

\* A step of the walk goes from one state of the closed form to the next.
LEMMA OneOnIsAt ==
    ASSUME NEW levels, Chain(levels), NEW k \in 1..Len(levels)
    PROVE  OneOn(levels, k, At(levels, k - 1)) = At(levels, k)
<1>1. PICK w : w = At(levels, k - 1)
  OBVIOUS
<1>2. w.seen = SeenBy(levels, k - 1) /\ w.target = TakenBy(levels, k - 1)
  BY <1>1 DEF At
<1>3. PICK new : new = New(levels[k], w.seen)
  OBVIOUS
<1>4. PICK seen : seen = w.seen
  OBVIOUS
<1>5. PICK target : target = w.target
  OBVIOUS
<1>6. /\ seen \cup Within(new) = SeenBy(levels, k)
      /\ target \cup Within(Functions(new)) = TakenBy(levels, k)
  BY <1>2, <1>3, <1>4, <1>5, OneLevelOn
<1>7. QED
  BY <1>1, <1>3, <1>4, <1>5, <1>6 DEF OneOn, At

\* A function that satisfies the recursion is the closed form: no least table is left where they
\* differ.
LEMMA WalkIsKnown ==
    ASSUME NEW levels, Chain(levels), NEW f, f = Walk(levels, f)
    PROVE  \A k \in 0..Len(levels) : f[k] = At(levels, k)
<1> DEFINE Bad == {k \in 0..Len(levels) : f[k] # At(levels, k)}
<1>1. Len(levels) \in Nat
  BY DEF Chain
<1>2. f[0] = At(levels, 0)
  BY <1>1, AtStart DEF Walk
<1>3. ASSUME NEW k \in 1..Len(levels), f[k - 1] = At(levels, k - 1)
      PROVE  f[k] = At(levels, k)
  <2>1. f[k] = OneOn(levels, k, f[k - 1])
    <3>1. k \in 0..Len(levels) /\ k # 0
      BY <1>1
    <3>2. QED
      BY <3>1 DEF Walk
  <2>2. QED
    BY <1>3, <2>1, OneOnIsAt
<1>4. ASSUME Bad # {} PROVE FALSE
  <2>1. Bad \subseteq Nat
    OBVIOUS
  <2>2. PICK k \in Bad : \A j \in Bad : k <= j
    BY <1>4, <2>1, Smallest
  <2>3. k # 0
    BY <1>2, <2>2
  <2>4. k \in 1..Len(levels) /\ k - 1 \in 0..Len(levels) /\ ~(k <= k - 1)
    BY <1>1, <2>2, <2>3
  <2>5. f[k - 1] = At(levels, k - 1)
    BY <2>2, <2>4
  <2>6. QED
    BY <1>3, <2>2, <2>4, <2>5
<1>5. QED
  BY <1>4

\* The closed form satisfies the recursion, so there is such a function.
LEMMA WalkExists ==
    ASSUME NEW levels, Chain(levels)
    PROVE  \E f : f = Walk(levels, f)
<1>1. PICK f : f = [k \in 0..Len(levels) |-> At(levels, k)]
  OBVIOUS
<1>2. Len(levels) \in Nat
  BY DEF Chain
<1>3. ASSUME NEW k \in 0..Len(levels)
      PROVE  f[k] = IF k = 0 THEN [seen |-> {}, target |-> {}] ELSE OneOn(levels, k, f[k - 1])
  <2>1. CASE k = 0
    BY <1>1, <1>2, <2>1, AtStart
  <2>2. CASE k # 0
    <3>1. k \in 1..Len(levels) /\ k - 1 \in 0..Len(levels)
      BY <1>2, <2>2
    <3>2. f[k] = At(levels, k) /\ f[k - 1] = At(levels, k - 1)
      BY <1>1, <3>1
    <3>3. QED
      BY <2>2, <3>1, <3>2, OneOnIsAt
  <2>3. QED
    BY <2>1, <2>2
<1>4. f = Walk(levels, f)
  BY <1>1, <1>3 DEF Walk
<1>5. QED
  BY <1>4

\* INSTALL_TOOLS_MODULE takes the functions of the nearest tables.
LEMMA WhatIsInstalled ==
    ASSUME NEW levels, Chain(levels)
    PROVE  Vm!INSTALL_TOOLS_MODULE(levels) = TakenBy(levels, Len(levels))
<1>1. PICK f : f = CHOOSE w : w = Walk(levels, w)
  OBVIOUS
<1>2. f = Walk(levels, f)
  BY <1>1, WalkExists
<1>3. Vm!INSTALL_TOOLS_MODULE(levels) = f[Len(levels)].target
  BY <1>1, Zenon DEF Vm!INSTALL_TOOLS_MODULE, Walk, OneOn, Within, New, Functions
<1>4. f[Len(levels)] = At(levels, Len(levels))
  BY <1>2, WalkIsKnown DEF Chain
<1>5. QED
  BY <1>3, <1>4 DEF At

\* What the tables answer for a name, as CopiesInForce states it: the value at the first table
\* that has the name.
Nearest(levels, name) ==
    CHOOSE k \in DOMAIN levels :
        /\ \E x \in levels[k] : x[1] = name
        /\ \A j \in 1..k - 1 : \A x \in levels[j] : x[1] # name
Value(level, name) == {x[2] : x \in {y \in level : y[1] = name}}
AllNames(levels) == UNION {{x[1] : x \in levels[k]} : k \in DOMAIN levels}
Answering(levels) ==
    {name \in AllNames(levels) : Value(levels[Nearest(levels, name)], name) = {"function"}}

\* The first table of a name is there and is the one the lookup of Lua stops at.
LEMMA NearestIsFirst ==
    ASSUME NEW levels, Chain(levels), NEW name \in AllNames(levels)
    PROVE  /\ Nearest(levels, name) \in 1..Len(levels)
           /\ FirstAt(levels, name, Nearest(levels, name))
           /\ \A j \in 1..Len(levels) : FirstAt(levels, name, j) => j = Nearest(levels, name)
<1>1. PICK n : n = Len(levels)
  OBVIOUS
<1>2. n \in Nat /\ DOMAIN levels = 1..n
  BY <1>1 DEF Chain
<1>3. \A j : name \in Within(levels[j]) <=> \E x \in levels[j] : x[1] = name
  BY DEF Within
<1>4. \A j : FirstAt(levels, name, j) <=>
            /\ \E x \in levels[j] : x[1] = name
            /\ \A i \in 1..j - 1 : \A x \in levels[i] : x[1] # name
  BY <1>3 DEF FirstAt
<1> DEFINE T == {j \in 1..n : name \in Within(levels[j])}
<1>5. T # {}
  BY <1>2, <1>3 DEF AllNames
<1>6. T \subseteq Nat
  BY <1>2
<1>7. PICK k \in T : \A j \in T : k <= j
  BY <1>5, <1>6, Smallest
<1>8. k \in 1..n /\ FirstAt(levels, name, k)
  <2>1. k \in 1..n /\ name \in Within(levels[k])
    BY <1>7
  <2>2. ASSUME NEW i \in 1..k - 1 PROVE name \notin Within(levels[i])
    <3>1. i \in 1..n /\ ~(k <= i)
      BY <1>2, <2>1
    <3>2. QED
      BY <1>7, <3>1
  <2>3. QED
    BY <2>1, <2>2 DEF FirstAt
<1>9. ASSUME NEW i \in 1..n, NEW j \in 1..n, FirstAt(levels, name, i), FirstAt(levels, name, j)
      PROVE  i = j
  <2>1. ~(i \in 1..j - 1) /\ ~(j \in 1..i - 1)
    BY <1>9 DEF FirstAt
  <2>2. QED
    BY <1>2, <2>1
<1>10. Nearest(levels, name) \in DOMAIN levels /\ FirstAt(levels, name, Nearest(levels, name))
  <2>1. \E j \in DOMAIN levels :
            /\ \E x \in levels[j] : x[1] = name
            /\ \A i \in 1..j - 1 : \A x \in levels[i] : x[1] # name
    BY <1>2, <1>4, <1>8
  <2>2. /\ Nearest(levels, name) \in DOMAIN levels
        /\ \E x \in levels[Nearest(levels, name)] : x[1] = name
        /\ \A i \in 1..Nearest(levels, name) - 1 : \A x \in levels[i] : x[1] # name
    BY <2>1, Zenon DEF Nearest
  <2>3. QED
    BY <1>4, <2>2
<1>11. QED
  BY <1>1, <1>2, <1>9, <1>10

\* The walk of INSTALL_TOOLS_MODULE takes exactly the names whose nearest value is a function.
LEMMA TakenIsAnswering ==
    ASSUME NEW levels, Chain(levels)
    PROVE  TakenBy(levels, Len(levels)) = Answering(levels)
<1>1. SeenBy(levels, Len(levels)) = AllNames(levels)
  BY DEF SeenBy, AllNames, Within, Chain
<1>2. ASSUME NEW name \in AllNames(levels)
      PROVE  (\E j \in 1..Len(levels) : FirstAt(levels, name, j) /\ Callable(levels[j], name))
               <=> Value(levels[Nearest(levels, name)], name) = {"function"}
  <2>1. PICK k : k = Nearest(levels, name)
    OBVIOUS
  <2>2. /\ k \in 1..Len(levels) /\ FirstAt(levels, name, k)
        /\ \A j \in 1..Len(levels) : FirstAt(levels, name, j) => j = k
    BY <2>1, NearestIsFirst
  <2>3. (\E j \in 1..Len(levels) : FirstAt(levels, name, j) /\ Callable(levels[j], name))
          <=> Callable(levels[k], name)
    BY <2>2
  <2>4. PICK level : level = levels[k]
    OBVIOUS
  <2>5. \A x, y \in level : x[1] = y[1] => x[2] = y[2]
    BY <2>2, <2>4 DEF Chain
  <2>6. Callable(level, name) <=> Value(level, name) = {"function"}
    <3>1. ASSUME Callable(level, name) PROVE Value(level, name) = {"function"}
      <4>1. PICK x \in level : x[1] = name /\ x[2] = "function"
        BY <3>1 DEF Callable
      <4>2. \A y \in level : y[1] = name => y[2] = "function"
        BY <2>5, <4>1
      <4>3. QED
        BY <4>1, <4>2 DEF Value
    <3>2. ASSUME Value(level, name) = {"function"} PROVE Callable(level, name)
      <4>1. "function" \in Value(level, name)
        BY <3>2
      <4>2. QED
        BY <4>1 DEF Value, Callable
    <3>3. QED
      BY <3>1, <3>2
  <2>7. QED
    BY <2>1, <2>3, <2>4, <2>6
<1>3. QED
  BY <1>1, <1>2 DEF TakenBy, Answering

\* The module the binary carries is one table with a value for each name.
LEMMA EmbeddedIsAChain == Chain(Vm!Embedded)
<1>1. PICK a : a = {<<"tool_specs", "function">>, <<"register_tools", "function">>,
                    <<"shapes", "other">>}
  OBVIOUS
<1>2. Vm!Embedded = <<a>>
  BY <1>1 DEF Vm!Embedded
<1>3. Len(<<a>>) = 1 /\ DOMAIN <<a>> = 1..1 /\ <<a>>[1] = a
  OBVIOUS
<1>4. \A x, y \in a : x[1] = y[1] => x[2] = y[2]
  BY <1>1
<1>5. QED
  BY <1>2, <1>3, <1>4 DEF Chain

\* A run that is under way has installed what the copy in force answers.
LEMMA CopiesAreInForce == ASSUME Tables, VmInv PROVE Vm!CopiesInForce
<1> SUFFICES ASSUME Vm!Running PROVE Vm!CopiesInForce
  BY Zenon DEF Vm!CopiesInForce
<1>1. its.stage = 43 /\ its.copy \in Copies
  BY TheSteps DEF Vm!Running, VmInv, VmShape
<1>2. \A v \in Vm!VMs : Vm!load_tools_module(its.copy) # {} /\ its.std[v] = Answered
  BY <1>1 DEF VmInv, Installed, Own
<1>3. its.copy.found \in {"nowhere", "table"}
  BY <1>2 DEF Vm!load_tools_module, Vm!VMs
<1>4. PICK levels : levels = IF its.copy.found = "table" THEN its.copy.levels ELSE Vm!Embedded
  OBVIOUS
<1>5. Vm!load_tools_module(its.copy) = {levels}
  BY <1>3, <1>4 DEF Vm!load_tools_module
<1>6. Answered = Vm!INSTALL_TOOLS_MODULE(levels)
  BY <1>5 DEF Answered
<1>7. Chain(levels)
  BY <1>1, <1>4, EmbeddedIsAChain DEF Tables
<1>8. Answered = Answering(levels)
  BY <1>6, <1>7, WhatIsInstalled, TakenIsAnswering
<1>9. \A v \in Vm!VMs : its.std[v] = Answering(levels)
  BY <1>2, <1>8
<1>10. \A v \in Vm!VMs :
          its.std[v] = Answering(IF its.copy.found = "table" THEN its.copy.levels ELSE Vm!Embedded)
  BY <1>4, <1>9
<1>11. QED
  BY <1>3, <1>10, Zenon DEF Vm!CopiesInForce, Answering, AllNames, Value, Nearest

\* Once the VMs stand, each of these globals is the host's: its step comes behind extra_globals.
LEMMA TheBridgesStand == ASSUME VmInv PROVE Vm!BridgesStand
<1> SUFFICES ASSUME Vm!Running,
                    NEW v \in Vm!VMs,
                    NEW name \in {"tool", "_TOOL_REGISTRY", "log", "mcp", "http", "llm", "knl",
                                  "sh", "mesh"}
             PROVE  Vm!Setter(v, name) = {"host"}
  BY Zenon DEF Vm!BridgesStand
<1>1. its.stage = 43
  BY TheSteps DEF Vm!Running, VmInv, VmShape
<1>2. PICK w : /\ w \in {"mesh", "sh", "tool", "log", "mcp", "http", "llm", "knl"}
               /\ name \in Vm!Sets(w)
  <2>1. CASE name = "_TOOL_REGISTRY"
    <3>1. "_TOOL_REGISTRY" \in Vm!Sets("tool")
      BY DEF Vm!Sets
    <3>2. QED
      BY <2>1, <3>1
  <2>2. CASE name # "_TOOL_REGISTRY"
    <3>1. name \in Vm!Sets(name)
      BY <2>2 DEF Vm!Sets
    <3>2. QED
      BY <2>2, <3>1
  <2>3. QED
    BY <2>1, <2>2
<1>3. PICK k : k \in 14..41 /\ Doing(k, v, w)
  <2>1. (\E k \in 14..26 : Doing(k, "main", w)) /\ (\E k \in 29..41 : Doing(k, "handler", w))
    BY <1>2, ThePlaces
  <2>2. v = "main" \/ v = "handler"
    BY DEF Vm!VMs
  <2>3. QED
    BY <2>1, <2>2
<1>4. k \in 1..42 /\ k < its.stage /\ Late(k)
  BY <1>1, <1>3 DEF Late
<1>5. Wired
  BY DEF VmInv
<1>6. SetBy(v, name, k)
  BY <1>2, <1>3, <1>4, <1>5, WiredAt
<1>7. QED
  BY <1>4, <1>6 DEF SetBy

\* The set-up of the two VMs (build_isle_init, register_bridges, inject_host_tools of host.rs),
\* the Lua half of a bridge (load_tools_module) and the tool registry (bridge/tool.rs): a set-up
\* fails only for what the configuration or the project brought, one that goes through was given
\* what it looks up, no value of a configuration takes the place of a bridge, the promised tools are there and stay, what is on std.fs is what the copy
\* in force answers, and a listing is whole or refused - for every configuration.
THEOREM EveryVmIsWhole == Spec => []VmsAreWhole
<1> DEFINE Inv == part = "vm" => VmInv
<1>1. Init => Inv
  BY VmInitially DEF Init
<1>2. Inv /\ [Next]_vars => Inv'
  <2> SUFFICES ASSUME VmInv, [Vm!Next]_its PROVE VmInv'
    BY OnePart
  <2>1. CASE Vm!SetUp
    BY <2>1, VmSetsUp
  <2>2. ASSUME NEW v \in Vm!VMs, Vm!schema(v) PROVE VmInv'
    BY <2>2, VmLists
  <2>3. ASSUME NEW v \in Vm!VMs, NEW t \in Named, Vm!register(v, t) PROVE VmInv'
    BY <2>3, VmRegisters
  <2>4. ASSUME NEW v \in Vm!VMs, NEW t \in Named, Vm!call(v, t.name) PROVE VmInv'
    BY <2>4, VmCalls
  <2>5. CASE UNCHANGED its
    <3>1. VmShape'
      BY <2>5 DEF VmInv, VmShape
    <3>3. Wired' /\ Libraried' /\ Replaced' /\ Served'
      BY <2>5, VmStays DEF VmInv
    <3>4. Installed'
      BY <2>5 DEF VmInv, Installed, Answered
    <3>5. Registered' /\ Vm!SetupFindsItsNeeds'
      <4>1. Vm!inspect_tools' = Vm!inspect_tools /\ \A v : Vm!list(v)' = Vm!list(v)
        BY <2>5 DEF Vm!inspect_tools, Vm!list
      <4>2. Vm!SchemaWhole' <=> Vm!SchemaWhole
        BY <2>5, <4>1 DEF Vm!SchemaWhole
      <4>3. Registered'
        BY <2>5, <4>1, <4>2 DEF VmInv, Registered
      <4>4. Vm!SetupFindsItsNeeds'
        BY <2>5 DEF VmInv, Vm!SetupFindsItsNeeds, Vm!Step, Vm!Needs, Vm!ToolsNeeds, Vm!Fits
      <4>5. QED
        BY <4>3, <4>4
    <3>6. QED
      BY <3>1, <3>3, <3>4, <3>5 DEF VmInv
  <2>6. QED
    BY <2>1, <2>2, <2>3, <2>4, <2>5, Zenon DEF Vm!Next
<1>3. Inv => VmsAreWhole
  <2> SUFFICES ASSUME VmInv PROVE Vm!VmsAreWhole
    BY DEF VmsAreWhole
  <2>1. Vm!SetupFindsItsNeeds /\ Vm!SchemaWhole
    BY DEF VmInv, Registered
  <2>2. Vm!HostToolsStand
    <3>1. Vm!Running => its.stage = 43
      BY TheSteps DEF Vm!Running, VmInv, VmShape
    <3>2. QED
      BY <3>1 DEF VmInv, Registered, Vm!HostToolsStand
  <2>3. Vm!WhatServes
    <3>1. Vm!Running => its.stage = 43
      BY TheSteps DEF Vm!Running, VmInv, VmShape
    <3>2. \A e \in its.extra : Brought(e[1])
      BY DEF Brought
    <3>3. QED
      BY <3>1, <3>2 DEF VmInv, Served, LookedUpAt, Looked, Vm!WhatServes
  <2>4. QED
    BY <2>1, <2>2, <2>3, TablesAssumption, CopiesAreInForce, TheBridgesStand, Zenon DEF Vm!VmsAreWhole
<1>4. QED
  BY <1>1, <1>2, <1>3, PTL DEF Spec

----------------------------------------------------------------------------
(* The event store: the members of a set of places in their order (Ascending) *)

\* a has the members of S among the first n places, ascending.
Ordered(a, n, S) ==
    /\ Len(a) \in Nat /\ a = [j \in 1..Len(a) |-> a[j]]
    /\ \A j \in 1..Len(a) : a[j] \in 1..n /\ a[j] \in S
    /\ \A k \in 1..n : k \in S => \E j \in 1..Len(a) : a[j] = k
    /\ \A i, j \in 1..Len(a) : i < j => a[i] < a[j]

\* The recursion of Ascending.
OneFurther(S, k, a) == IF k \in S THEN Append(a, k) ELSE a
Upto(n, S, f) == [k \in 0..n |-> IF k = 0 THEN << >> ELSE OneFurther(S, k, f[k - 1])]

\* A function that satisfies it exists for every length.
LEMMA UptoExists ==
    ASSUME NEW n \in Nat, NEW S
    PROVE  \E f : f = Upto(n, S, f)
<1> DEFINE Bad == {m \in Nat : ~\E f : f = Upto(m, S, f)}
<1>1. ASSUME Bad # {} PROVE FALSE
  <2>1. Bad \subseteq Nat
    OBVIOUS
  <2>2. PICK m \in Bad : \A j \in Bad : m <= j
    BY <1>1, <2>1, Smallest
  <2>3. m # 0
    <3>1. PICK f : f = [k \in 0..0 |-> << >>]
      OBVIOUS
    <3>2. f = Upto(0, S, f)
      BY <3>1 DEF Upto
    <3>3. 0 \notin Bad
      BY <3>2
    <3>4. QED
      BY <2>2, <3>3
  <2>4. m - 1 \in Nat /\ ~(m <= m - 1)
    BY <2>2, <2>3
  <2>5. PICK f : f = Upto(m - 1, S, f)
    BY <2>2, <2>4
  <2>6. PICK g : g = [k \in 0..m |-> IF k = m THEN OneFurther(S, m, f[m - 1]) ELSE f[k]]
    OBVIOUS
  <2>7. ASSUME NEW k \in 0..m
        PROVE  g[k] = IF k = 0 THEN << >> ELSE OneFurther(S, k, g[k - 1])
    <3>1. CASE k = m
      <4>1. g[k] = OneFurther(S, m, f[m - 1])
        BY <2>6, <3>1
      <4>2. m - 1 \in 0..m /\ m - 1 # m
        BY <2>4
      <4>3. g[m - 1] = f[m - 1]
        BY <2>6, <4>2
      <4>4. QED
        BY <2>3, <3>1, <4>1, <4>3
    <3>2. CASE k = 0
      <4>1. 0 \in 0..m - 1 /\ 0 \in 0..m
        BY <2>4
      <4>2. f[0] = << >>
        BY <2>5, <4>1 DEF Upto
      <4>3. QED
        BY <2>3, <2>6, <3>2, <4>1, <4>2
    <3>3. CASE k # m /\ k # 0
      <4>1. k \in 0..m - 1 /\ k - 1 \in 0..m /\ k - 1 # m
        BY <2>4, <3>3
      <4>2. f[k] = OneFurther(S, k, f[k - 1])
        BY <2>5, <3>3, <4>1 DEF Upto
      <4>3. g[k] = f[k] /\ g[k - 1] = f[k - 1]
        BY <2>6, <3>3, <4>1
      <4>4. QED
        BY <3>3, <4>2, <4>3
    <3>4. QED
      BY <3>1, <3>2, <3>3
  <2>8. g = Upto(m, S, g)
    BY <2>6, <2>7 DEF Upto
  <2>9. QED
    BY <2>2, <2>8
<1>2. QED
  BY <1>1

\* One place further.
LEMMA OrderedFurther ==
    ASSUME NEW k \in Nat \ {0}, NEW S, NEW a, NEW b, Ordered(a, k - 1, S), b = OneFurther(S, k, a)
    PROVE  Ordered(b, k, S)
<1>1. PICK m : m = Len(a)
  OBVIOUS
<1>2. /\ m \in Nat /\ a = [j \in 1..m |-> a[j]]
      /\ \A j \in 1..m : a[j] \in 1..k - 1 /\ a[j] \in S
      /\ \A i \in 1..k - 1 : i \in S => \E j \in 1..m : a[j] = i
      /\ \A i, j \in 1..m : i < j => a[i] < a[j]
  BY <1>1 DEF Ordered
<1>3. \A i \in 1..k : i \in 1..k - 1 \/ i = k
  OBVIOUS
<1>4. CASE k \notin S
  <2>1. b = a
    BY <1>4 DEF OneFurther
  <2>2. \A i \in 1..k - 1 : i \in 1..k
    OBVIOUS
  <2>3. QED
    BY <1>1, <1>2, <1>3, <1>4, <2>1, <2>2 DEF Ordered
<1>5. CASE k \in S
  <2>1. b = Append(a, k)
    BY <1>5 DEF OneFurther
  <2>2. a \in Seq(Nat)
    <3>1. a \in [1..m -> Nat]
      BY <1>2
    <3>2. QED
      BY <1>2, <3>1
  <2>3. Len(b) = m + 1 /\ b = [j \in 1..m + 1 |-> b[j]]
    <3>1. b \in Seq(Nat) /\ Len(b) = m + 1
      BY <1>1, <2>1, <2>2
    <3>2. b \in [1..Len(b) -> Nat]
      BY <3>1
    <3>3. QED
      BY <3>1, <3>2
  <2>4. (\A j \in 1..m : b[j] = a[j]) /\ b[m + 1] = k
    BY <1>1, <2>1, <2>2
  <2>5. \A j \in 1..m + 1 : j \in 1..m \/ j = m + 1
    BY <1>2
  <2>6. \A j \in 1..m + 1 : b[j] \in 1..k /\ b[j] \in S
    BY <1>2, <1>5, <2>4, <2>5
  <2>7. \A i \in 1..k : i \in S => \E j \in 1..m + 1 : b[j] = i
    <3>1. \A j \in 1..m : j \in 1..m + 1
      BY <1>2
    <3>2. m + 1 \in 1..m + 1
      BY <1>2
    <3>3. QED
      BY <1>2, <1>3, <2>4, <3>1, <3>2
  <2>8. ASSUME NEW i \in 1..m + 1, NEW j \in 1..m + 1, i < j PROVE b[i] < b[j]
    <3>1. i \in 1..m
      BY <1>2, <2>8
    <3>2. CASE j \in 1..m
      BY <1>2, <2>4, <2>8, <3>1, <3>2
    <3>3. CASE j = m + 1
      BY <1>2, <2>4, <3>1, <3>3
    <3>4. QED
      BY <2>5, <3>2, <3>3
  <2>9. PICK p : p = m + 1
    OBVIOUS
  <2>10. /\ Len(b) = p /\ p \in Nat /\ b = [j \in 1..p |-> b[j]]
         /\ \A j \in 1..p : b[j] \in 1..k /\ b[j] \in S
         /\ \A i \in 1..k : i \in S => \E j \in 1..p : b[j] = i
         /\ \A i, j \in 1..p : i < j => b[i] < b[j]
    <3>1. Len(b) = p /\ p \in Nat /\ b = [j \in 1..p |-> b[j]]
      <4>1. Len(b) = p /\ p \in Nat
        BY <1>2, <2>3, <2>9
      <4>2. b = [j \in 1..p |-> b[j]]
        BY <2>3, <2>9, Zenon
      <4>3. QED
        BY <4>1, <4>2
    <3>2. \A j \in 1..p : b[j] \in 1..k /\ b[j] \in S
      BY <2>6, <2>9
    <3>3. \A i \in 1..k : i \in S => \E j \in 1..p : b[j] = i
      BY <2>7, <2>9
    <3>4. \A i, j \in 1..p : i < j => b[i] < b[j]
      BY <2>8, <2>9
    <3>5. QED
      BY <3>1, <3>2, <3>3, <3>4
  <2>11. QED
    BY <2>10 DEF Ordered
<1>6. QED
  BY <1>4, <1>5

\* Ascending gives the members of S in their order.
LEMMA AscendingIsOrdered ==
    ASSUME NEW n \in Nat, NEW S
    PROVE  Ordered(Ks!Ascending(n, S), n, S)
<1>1. PICK f : f = CHOOSE g : g = Upto(n, S, g)
  OBVIOUS
<1>2. f = Upto(n, S, f)
  BY <1>1, UptoExists
<1>3. Ks!Ascending(n, S) = f[n]
  BY <1>1, Zenon DEF Ks!Ascending, Upto, OneFurther
<1> DEFINE Bad == {k \in 0..n : ~Ordered(f[k], k, S)}
<1>4. ASSUME Bad # {} PROVE FALSE
  <2>1. Bad \subseteq Nat
    OBVIOUS
  <2>2. PICK k \in Bad : \A j \in Bad : k <= j
    BY <1>4, <2>1, Smallest
  <2>3. CASE k = 0
    <3>1. f[0] = << >>
      BY <1>2 DEF Upto
    <3>2. Ordered(<< >>, 0, S)
      BY DEF Ordered
    <3>3. QED
      BY <2>2, <2>3, <3>1, <3>2
  <2>4. CASE k # 0
    <3>1. k \in 0..n /\ k - 1 \in 0..n /\ ~(k <= k - 1) /\ k \in Nat \ {0}
      BY <2>2, <2>4
    <3>2. Ordered(f[k - 1], k - 1, S)
      BY <2>2, <3>1
    <3>3. f[k] = OneFurther(S, k, f[k - 1])
      BY <1>2, <2>4, <3>1 DEF Upto
    <3>4. Ordered(f[k], k, S)
      BY <3>1, <3>2, <3>3, OrderedFurther
    <3>5. QED
      BY <2>2, <3>4
  <2>5. QED
    BY <2>3, <2>4
<1>5. n \in 0..n
  OBVIOUS
<1>6. QED
  BY <1>3, <1>4, <1>5

\* Two lists of the same places in their order agree wherever both have an entry.
LEMMA OrderedAgree ==
    ASSUME NEW n, NEW S, NEW a, NEW b, Ordered(a, n, S), Ordered(b, n, S), n \in Nat,
           NEW k \in 1..Len(a), k \in 1..Len(b),
           \A j \in 1..k - 1 : a[j] = b[j]
    PROVE  ~(a[k] < b[k])
<1>0. SUFFICES ASSUME a[k] < b[k] PROVE FALSE
  OBVIOUS
<1>1. PICK p, q : p = Len(a) /\ q = Len(b)
  OBVIOUS
<1>2. /\ p \in Nat /\ q \in Nat /\ k \in 1..p /\ k \in 1..q
      /\ \A j \in 1..p : a[j] \in 1..n /\ a[j] \in S
      /\ \A i \in 1..n : i \in S => \E j \in 1..q : b[j] = i
      /\ \A i, j \in 1..p : i < j => a[i] < a[j]
      /\ \A i, j \in 1..q : i < j => b[i] < b[j]
      /\ \A j \in 1..q : b[j] \in 1..n
  BY <1>1 DEF Ordered
<1>3. PICK i \in 1..q : b[i] = a[k]
  BY <1>2
<1>4. b[i] \in Int /\ b[k] \in Int /\ a[k] \in Int
  BY <1>2
<1>5. CASE i < k
  <2>1. i \in 1..k - 1 /\ i \in 1..p
    BY <1>2, <1>5
  <2>2. a[i] = b[i] /\ a[i] < a[k]
    BY <1>2, <1>5, <2>1
  <2>3. QED
    BY <1>3, <1>4, <2>2
<1>6. CASE i = k
  BY <1>0, <1>3, <1>4, <1>6
<1>7. CASE k < i
  <2>1. b[k] < b[i]
    BY <1>2, <1>7
  <2>2. QED
    BY <1>0, <1>3, <1>4, <2>1
<1>8. QED
  BY <1>2, <1>5, <1>6, <1>7

\* One that agrees with the other as far as it goes is not shorter.
LEMMA OrderedNotShorter ==
    ASSUME NEW n, NEW S, NEW a, NEW b, Ordered(a, n, S), Ordered(b, n, S), n \in Nat,
           \A k : k \in 1..Len(a) /\ k \in 1..Len(b) => a[k] = b[k]
    PROVE  ~(Len(a) < Len(b))
<1>0. SUFFICES ASSUME Len(a) < Len(b) PROVE FALSE
  OBVIOUS
<1>1. PICK p, q : p = Len(a) /\ q = Len(b)
  OBVIOUS
<1>2. /\ p \in Nat /\ q \in Nat /\ p < q
      /\ \A i \in 1..n : i \in S => \E j \in 1..p : a[j] = i
      /\ \A i, j \in 1..q : i < j => b[i] < b[j]
      /\ \A j \in 1..q : b[j] \in 1..n /\ b[j] \in S
  BY <1>0, <1>1 DEF Ordered
<1>3. p + 1 \in 1..q
  BY <1>2
<1>4. PICK i \in 1..p : a[i] = b[p + 1]
  BY <1>2, <1>3
<1>5. i \in 1..q /\ i < p + 1
  BY <1>2
<1>6. a[i] = b[i]
  BY <1>1, <1>5
<1>7. b[i] < b[p + 1] /\ b[i] \in Int
  BY <1>2, <1>3, <1>5
<1>8. QED
  BY <1>4, <1>6, <1>7

\* So there is one.
LEMMA OneOrder ==
    ASSUME NEW n \in Nat, NEW S, NEW a, NEW b, Ordered(a, n, S), Ordered(b, n, S)
    PROVE  a = b
<1>1. PICK p, q : p = Len(a) /\ q = Len(b)
  OBVIOUS
<1>2. p \in Nat /\ q \in Nat /\ a = [j \in 1..p |-> a[j]] /\ b = [j \in 1..q |-> b[j]]
  BY <1>1 DEF Ordered
<1>3. \A j : (j \in 1..p => a[j] \in Int) /\ (j \in 1..q => b[j] \in Int)
  BY <1>1 DEF Ordered
<1> DEFINE Bad == {k \in Nat : k \in 1..p /\ k \in 1..q /\ a[k] # b[k]}
<1>4. ASSUME Bad # {} PROVE FALSE
  <2>1. Bad \subseteq Nat
    OBVIOUS
  <2>2. PICK k \in Bad : \A j \in Bad : k <= j
    BY <1>4, <2>1, Smallest
  <2>3. k \in 1..p /\ k \in 1..q /\ a[k] # b[k]
    BY <2>2
  <2>4. ASSUME NEW j \in 1..k - 1 PROVE a[j] = b[j]
    <3>1. j \in Nat /\ j \in 1..p /\ j \in 1..q /\ ~(k <= j)
      BY <1>2, <2>3
    <3>2. QED
      BY <2>2, <3>1
  <2>5. ~(a[k] < b[k])
    BY <1>1, <2>3, <2>4, OrderedAgree
  <2>6. ~(b[k] < a[k])
    BY <1>1, <2>3, <2>4, OrderedAgree
  <2>7. QED
    BY <1>3, <2>3, <2>5, <2>6
<1>5. \A k : k \in 1..p /\ k \in 1..q => a[k] = b[k]
  BY <1>4
<1>6. ~(p < q) /\ ~(q < p)
  BY <1>1, <1>5, OrderedNotShorter
<1>7. p = q
  BY <1>2, <1>6
<1>8. QED
  BY <1>2, <1>5, <1>7

\* Whatever lists the members of S in order is what Ascending gives.
LEMMA AscendingIs ==
    ASSUME NEW n \in Nat, NEW S, NEW a, Ordered(a, n, S)
    PROVE  Ks!Ascending(n, S) = a
  BY AscendingIsOrdered, OneOrder

\* Only the members among the first n places count.
LEMMA SameMembers ==
    ASSUME NEW n \in Nat, NEW S, NEW T, \A k \in 1..n : k \in S <=> k \in T
    PROVE  Ks!Ascending(n, S) = Ks!Ascending(n, T)
<1>1. PICK a : a = Ks!Ascending(n, S)
  OBVIOUS
<1>2. Ordered(a, n, S)
  BY <1>1, AscendingIsOrdered
<1>3. Ordered(a, n, T)
  BY <1>2 DEF Ordered
<1>4. QED
  BY <1>1, <1>3, AscendingIs

\* A run of places from one on.
Starts(S, n, from) == \A k \in 1..n : k \in S <=> k >= from
RunFrom(n, from) == [j \in 1..n + 1 - from |-> from + j - 1]

\* What Ascending gives of all places from one on.
LEMMA ARun ==
    ASSUME NEW n \in Nat, NEW from \in Nat, from >= 1, from <= n + 1, NEW S, Starts(S, n, from)
    PROVE  Ks!Ascending(n, S) = RunFrom(n, from)
<1>1. PICK m : m = n + 1 - from
  OBVIOUS
<1>2. m \in Nat
  BY <1>1
<1>3. PICK a : a = [j \in 1..m |-> from + j - 1]
  OBVIOUS
<1>4. a \in Seq(Int) /\ Len(a) = m
  <2>1. a \in [1..m -> Int]
    BY <1>3
  <2>2. QED
    BY <1>2, <2>1
<1>5. \A j \in 1..m : a[j] = from + j - 1 /\ a[j] \in 1..n /\ a[j] >= from
  BY <1>1, <1>3
<1>6. ASSUME NEW k \in 1..n, k \in S PROVE \E j \in 1..m : a[j] = k
  <2>1. k >= from
    BY <1>6 DEF Starts
  <2>2. k + 1 - from \in 1..m /\ from + (k + 1 - from) - 1 = k
    BY <1>1, <2>1
  <2>3. QED
    BY <1>5, <2>2
<1>7. \A i, j \in 1..m : i < j => a[i] < a[j]
  BY <1>2, <1>5
<1>8. a = [j \in 1..m |-> a[j]]
  BY <1>3
<1>9. \A j \in 1..m : a[j] \in S
  BY <1>5 DEF Starts
<1>10. Ordered(a, n, S)
  BY <1>2, <1>4, <1>5, <1>6, <1>7, <1>8, <1>9 DEF Ordered
<1>11. Ks!Ascending(n, S) = a
  BY <1>10, AscendingIs
<1>12. QED
  BY <1>1, <1>3, <1>11 DEF RunFrom

----------------------------------------------------------------------------
(* The queue of the store's thread *)

\* A function on 1..m is a list.
LEMMA AList ==
    ASSUME NEW m \in Nat, NEW x, x = [k \in 1..m |-> x[k]]
    PROVE  \E X : x \in Seq(X) /\ Len(x) = m
<1>1. PICK X : X = {x[k] : k \in 1..m}
  OBVIOUS
<1>2. x \in [1..m -> X]
  BY <1>1
<1>3. x \in Seq(X) /\ Len(x) = m
  BY <1>2
<1>4. QED
  BY <1>3

\* And a list is a function.
LEMMA AFunction ==
    ASSUME NEW X, NEW t \in Seq(X)
    PROVE  Len(t) \in Nat /\ t \in [1..Len(t) -> X]
  OBVIOUS

\* What a list of m entries is to its tail, to one more entry and to its beginning.
LEMMA ListFacts ==
    ASSUME NEW m \in Nat, NEW x, x = [k \in 1..m |-> x[k]]
    PROVE  /\ Len(x) = m
           /\ m > 0 => /\ x # << >> /\ Head(x) = x[1] /\ Len(Tail(x)) = m - 1
                       /\ Tail(x) = [k \in 1..m - 1 |-> x[k + 1]]
           /\ m = 0 <=> x = << >>
<1>1. PICK X : x \in Seq(X) /\ Len(x) = m
  BY AList
<1>2. m > 0 => /\ x # << >> /\ Head(x) = x[1] /\ Len(Tail(x)) = m - 1
               /\ Tail(x) = [k \in 1..m - 1 |-> x[k + 1]]
  <2>1. SUFFICES ASSUME m > 0
                 PROVE  /\ x # << >> /\ Head(x) = x[1] /\ Len(Tail(x)) = m - 1
                        /\ Tail(x) = [k \in 1..m - 1 |-> x[k + 1]]
    OBVIOUS
  <2>2. x # << >> /\ Head(x) = x[1]
    BY <1>1, <2>1
  <2>3. Tail(x) \in Seq(X) /\ Len(Tail(x)) = m - 1
    BY <1>1, <2>1, <2>2
  <2>4. \A k \in 1..m - 1 : Tail(x)[k] = x[k + 1]
    BY <1>1, <2>1, <2>2
  <2>5. Tail(x) \in [1..m - 1 -> X]
    <3>1. Tail(x) \in [1..Len(Tail(x)) -> X]
      BY <2>3, AFunction
    <3>2. QED
      BY <2>3, <3>1
  <2>6. QED
    BY <2>2, <2>3, <2>4, <2>5
<1>3. m = 0 <=> x = << >>
  BY <1>1
<1>4. QED
  BY <1>1, <1>2, <1>3

\* One list behind another, and a part of a list.
LEMMA Joined ==
    ASSUME NEW m \in Nat, NEW n \in Nat, NEW x, NEW y,
           x = [k \in 1..m |-> x[k]], y = [k \in 1..n |-> y[k]]
    PROVE  /\ x \o y = [k \in 1..m + n |-> IF k <= m THEN x[k] ELSE y[k - m]]
           /\ Len(x \o y) = m + n
<1>1. PICK X : x \in Seq(X) /\ Len(x) = m
  BY AList
<1>2. PICK Y : y \in Seq(Y) /\ Len(y) = n
  BY AList
<1>3. PICK Z : Z = X \cup Y
  OBVIOUS
<1>4. x \in Seq(Z) /\ y \in Seq(Z)
  BY <1>1, <1>2, <1>3
<1>5. PICK z : z = x \o y
  OBVIOUS
<1>6. z \in Seq(Z) /\ Len(z) = m + n
  BY <1>1, <1>2, <1>4, <1>5
<1>7. \A k \in 1..m + n : z[k] = IF k <= m THEN x[k] ELSE y[k - m]
  BY <1>1, <1>2, <1>4, <1>5
<1>8. z \in [1..m + n -> Z]
  <2>1. z \in [1..Len(z) -> Z]
    BY <1>6, AFunction
  <2>2. QED
    BY <1>6, <2>1
<1>9. z = [k \in 1..m + n |-> IF k <= m THEN x[k] ELSE y[k - m]]
  BY <1>7, <1>8
<1>10. QED
  BY <1>5, <1>6, <1>9

\* What SubSeq gives of a list.
LEMMA Sliced ==
    ASSUME NEW m \in Nat, NEW x, x = [k \in 1..m |-> x[k]],
           NEW i \in Nat, NEW j \in Nat, 1 <= i, i <= j + 1, j <= m
    PROVE  /\ SubSeq(x, i, j) = [k \in 1..j + 1 - i |-> x[i + k - 1]]
           /\ Len(SubSeq(x, i, j)) = j + 1 - i
<1>1. PICK X : x \in Seq(X) /\ Len(x) = m
  BY AList
<1>2. PICK z : z = SubSeq(x, i, j)
  OBVIOUS
<1>3. z \in Seq(X) /\ Len(z) = j + 1 - i
  <2>1. CASE i = j + 1
    BY <1>1, <1>2, <2>1
  <2>2. CASE i <= j
    BY <1>1, <1>2, <2>2
  <2>3. QED
    BY <2>1, <2>2
<1>4. \A k \in 1..j + 1 - i : z[k] = x[i + k - 1]
  BY <1>1, <1>2
<1>5. z \in [1..j + 1 - i -> X]
  <2>1. z \in [1..Len(z) -> X]
    BY <1>3, AFunction
  <2>2. QED
    BY <1>3, <2>1
<1>6. z = [k \in 1..j + 1 - i |-> x[i + k - 1]]
  BY <1>4, <1>5
<1>7. QED
  BY <1>2, <1>3, <1>6

\* The bounds of a slice of a list.
Slices(m, x, i, j) ==
    /\ m \in Nat /\ x = [k \in 1..m |-> x[k]]
    /\ i \in Nat /\ j \in Nat /\ 1 <= i /\ i <= j + 1 /\ j <= m

\* The slice of a list is a list.
LEMMA SliceIs ==
    ASSUME NEW m, NEW x, NEW i, NEW j, Slices(m, x, i, j)
    PROVE  SubSeq(x, i, j) = [k \in 1..j + 1 - i |-> x[i + k - 1]]
<1>1. /\ m \in Nat /\ x = [k \in 1..m |-> x[k]]
      /\ i \in Nat /\ j \in Nat /\ 1 <= i /\ i <= j + 1 /\ j <= m
  BY DEF Slices
<1>2. QED
  BY <1>1, Sliced

\* The places of the jobs nobody waits for, and what those jobs are to write.
Unasked(q) == {k \in DOMAIN q : q[k].by = {}}
Waits(q) == Ks!Ascending(Len(q), Unasked(q))
OwedOf(q) == [k \in DOMAIN Waits(q) |-> q[Waits(q)[k]].req]

\* What the mapping makes of the queue.
LEMMA OwedNow == Ks!Owed = OwedOf(its.queue)
  BY Zenon DEF Ks!Owed, Ks!Unawaited, OwedOf, Waits, Unasked

\* The places in their order, and the list they give.
LEMMA OwedIsAList ==
    ASSUME NEW n \in Nat, NEW q, Len(q) = n
    PROVE  /\ Ordered(Waits(q), n, Unasked(q))
           /\ Len(OwedOf(q)) = Len(Waits(q))
           /\ OwedOf(q) = [k \in 1..Len(Waits(q)) |-> q[Waits(q)[k]].req]
           /\ OwedOf(q) = [k \in 1..Len(Waits(q)) |-> OwedOf(q)[k]]
<1>1. PICK a : a = Waits(q)
  OBVIOUS
<1>2. Ordered(a, n, Unasked(q))
  BY <1>1, AscendingIsOrdered DEF Waits
<1>3. PICK m : m = Len(a)
  OBVIOUS
<1>4. m \in Nat /\ a = [j \in 1..m |-> a[j]]
  BY <1>2, <1>3 DEF Ordered
<1>5. DOMAIN a = 1..m
  BY <1>4
<1>6. PICK x : x = OwedOf(q)
  OBVIOUS
<1>7. x = [k \in 1..m |-> q[a[k]].req]
  BY <1>1, <1>5, <1>6 DEF OwedOf
<1>8. x = [k \in 1..m |-> x[k]]
  BY <1>7
<1>9. Len(x) = m
  BY <1>4, <1>8, ListFacts
<1>10. QED
  BY <1>1, <1>2, <1>3, <1>6, <1>7, <1>8, <1>9

\* A job is handed over.
Longer(q, r, n, job) ==
    /\ n \in Nat /\ Len(q) = n /\ DOMAIN q = 1..n /\ Len(r) = n + 1 /\ DOMAIN r = 1..n + 1
    /\ \A k \in 1..n : r[k] = q[k]
    /\ r[n + 1] = job

\* A job nobody waits for is the last of those owed; any other changes nothing there.
LEMMA OwedGrows ==
    ASSUME NEW n, NEW q, NEW r, NEW job, Longer(q, r, n, job)
    PROVE  /\ job.by # {} => OwedOf(r) = OwedOf(q)
           /\ job.by = {} => /\ Len(OwedOf(r)) = Len(OwedOf(q)) + 1
                             /\ SubSeq(OwedOf(r), 1, Len(OwedOf(q))) = OwedOf(q)
<1> SUFFICES ASSUME n \in Nat, Len(q) = n, DOMAIN q = 1..n, Len(r) = n + 1, DOMAIN r = 1..n + 1,
                    \A k \in 1..n : r[k] = q[k], r[n + 1] = job
             PROVE  /\ job.by # {} => OwedOf(r) = OwedOf(q)
                    /\ job.by = {} => /\ Len(OwedOf(r)) = Len(OwedOf(q)) + 1
                                      /\ SubSeq(OwedOf(r), 1, Len(OwedOf(q))) = OwedOf(q)
  BY DEF Longer
<1>1. PICK a, S, T : a = Waits(q) /\ S = Unasked(q) /\ T = Unasked(r)
  OBVIOUS
<1>2. PICK m : m = Len(a)
  OBVIOUS
<1>3. /\ Ordered(a, n, S) /\ OwedOf(q) = [k \in 1..m |-> q[a[k]].req]
      /\ Len(OwedOf(q)) = m
  BY <1>1, <1>2, OwedIsAList
<1>4. \A k \in 1..n : k \in 1..n + 1
  OBVIOUS
<1>5. \A k \in 1..n : k \in S <=> k \in T
  BY <1>1, <1>4 DEF Unasked
<1>6. n + 1 \in T <=> job.by = {}
  BY <1>1 DEF Unasked
<1>7. Ordered(a, n, T)
  BY <1>3, <1>5 DEF Ordered
<1>8. m \in Nat /\ a = [j \in 1..m |-> a[j]] /\ \A j \in 1..m : a[j] \in 1..n
  BY <1>2, <1>3 DEF Ordered
<1>9. PICK b : b = OneFurther(T, n + 1, a)
  OBVIOUS
<1>10. Ordered(b, n + 1, T)
  <2>1. n + 1 \in Nat \ {0} /\ (n + 1) - 1 = n
    OBVIOUS
  <2>2. Ordered(a, (n + 1) - 1, T)
    BY <1>7, <2>1
  <2>3. QED
    BY <1>9, <2>1, <2>2, OrderedFurther
<1>11. Waits(r) = b
  <2>1. n + 1 \in Nat
    OBVIOUS
  <2>2. QED
    BY <1>1, <1>10, <2>1, AscendingIs DEF Waits
<1>12. ASSUME job.by # {} PROVE OwedOf(r) = OwedOf(q)
  <2>1. b = a
    BY <1>6, <1>9, <1>12 DEF OneFurther
  <2>2. DOMAIN a = 1..m
    BY <1>8
  <2>3. OwedOf(r) = [k \in 1..m |-> r[a[k]].req]
    BY <1>11, <2>1, <2>2 DEF OwedOf
  <2>4. \A k \in 1..m : r[a[k]] = q[a[k]]
    BY <1>8
  <2>5. QED
    BY <1>3, <2>3, <2>4
<1>13. ASSUME job.by = {}
       PROVE  Len(OwedOf(r)) = m + 1 /\ SubSeq(OwedOf(r), 1, m) = OwedOf(q)
  <2>1. b = Append(a, n + 1)
    BY <1>6, <1>9, <1>13 DEF OneFurther
  <2>2. PICK X : a \in Seq(X) /\ Len(a) = m
    BY <1>8, AList
  <2>3. PICK Y : Y = X \cup {n + 1}
    OBVIOUS
  <2>4. a \in Seq(Y)
    BY <2>2, <2>3
  <2>5. Len(b) = m + 1 /\ \A k \in 1..m : b[k] = a[k]
    BY <2>1, <2>2, <2>3, <2>4
  <2>6. PICK x : x = OwedOf(r)
    OBVIOUS
  <2>7. /\ x = [k \in 1..m + 1 |-> r[b[k]].req] /\ Len(x) = m + 1
        /\ x = [k \in 1..m + 1 |-> x[k]]
    <3>1. n + 1 \in Nat
      OBVIOUS
    <3>2. /\ Len(OwedOf(r)) = Len(Waits(r))
          /\ OwedOf(r) = [k \in 1..Len(Waits(r)) |-> r[Waits(r)[k]].req]
          /\ OwedOf(r) = [k \in 1..Len(Waits(r)) |-> OwedOf(r)[k]]
      BY <3>1, OwedIsAList
    <3>3. QED
      BY <1>11, <2>5, <2>6, <3>2, Zenon
  <2>8. \A k \in 1..m : k \in 1..m + 1
    BY <1>8
  <2>9. \A k \in 1..m : x[k] = q[a[k]].req
    <3>1. ASSUME NEW k \in 1..m PROVE x[k] = q[a[k]].req
      <4>1. x[k] = r[b[k]].req
        BY <2>7, <2>8
      <4>2. b[k] = a[k] /\ a[k] \in 1..n
        BY <1>8, <2>5
      <4>3. QED
        BY <4>1, <4>2
    <3>2. QED
      BY <3>1
  <2>10. m + 1 \in Nat /\ 1 <= m + 1 /\ m <= m + 1
    BY <1>8
  <2>11. SubSeq(x, 1, m) = [k \in 1..m |-> x[k]]
    <3>1. SubSeq(x, 1, m) = [k \in 1..m + 1 - 1 |-> x[1 + k - 1]]
      BY <1>8, <2>7, <2>10, Sliced
    <3>2. m + 1 - 1 = m /\ \A k \in 1..m : 1 + k - 1 = k
      BY <1>8
    <3>3. QED
      BY <3>1, <3>2
  <2>12. SubSeq(x, 1, m) = OwedOf(q)
    BY <1>3, <2>9, <2>11
  <2>13. QED
    BY <2>6, <2>7, <2>12
<1>14. QED
  BY <1>3, <1>12, <1>13

\* The places of the queue behind its head: each one less.
Shifted(n, S, T, a, m, d, b) ==
    /\ Ordered(a, n, S) /\ m = Len(a)
    /\ d \in {0, 1} /\ d <= m
    /\ \A j \in 1..m : j > d => a[j] > 1
    /\ \A j \in 1..m : j <= d => a[j] = 1
    /\ \A k \in 1..n - 1 : k \in T <=> k + 1 \in S
    /\ b = [j \in 1..m - d |-> a[j + d] - 1]

\* They are the places in order of what is left of the queue.
LEMMA OrderedShifts ==
    ASSUME NEW n \in Nat, n > 0, NEW S, NEW T, NEW a, NEW m, NEW d, NEW b,
           Shifted(n, S, T, a, m, d, b)
    PROVE  Ordered(b, n - 1, T) /\ Len(b) = m - d
<1> /\ Ordered(a, n, S) /\ m = Len(a)
    /\ d \in {0, 1} /\ d <= m
    /\ \A j \in 1..m : j > d => a[j] > 1
    /\ \A j \in 1..m : j <= d => a[j] = 1
    /\ \A k \in 1..n - 1 : k \in T <=> k + 1 \in S
    /\ b = [j \in 1..m - d |-> a[j + d] - 1]
  BY DEF Shifted
<1>1. /\ m \in Nat
      /\ \A j \in 1..m : a[j] \in 1..n /\ a[j] \in S
      /\ \A k \in 1..n : k \in S => \E j \in 1..m : a[j] = k
      /\ \A i, j \in 1..m : i < j => a[i] < a[j]
  BY DEF Ordered
<1>2. PICK p : p = m - d
  OBVIOUS
<1>3. p \in Nat
  BY <1>1, <1>2
<1>4. b = [j \in 1..p |-> b[j]] /\ Len(b) = p
  <2>1. b = [j \in 1..p |-> a[j + d] - 1]
    BY <1>2
  <2>2. b = [j \in 1..p |-> b[j]]
    BY <2>1
  <2>3. QED
    BY <1>3, <2>2, ListFacts
<1>5. \A j \in 1..p : b[j] = a[j + d] - 1 /\ j + d \in 1..m /\ j + d > d
  BY <1>1, <1>2
<1>6. ASSUME NEW j \in 1..p PROVE b[j] \in 1..n - 1 /\ b[j] \in T
  <2>1. a[j + d] \in 1..n /\ a[j + d] \in S /\ a[j + d] > 1 /\ b[j] = a[j + d] - 1
    BY <1>1, <1>5
  <2>2. b[j] \in 1..n - 1 /\ b[j] + 1 = a[j + d]
    <3>1. PICK c : c = a[j + d]
      OBVIOUS
    <3>2. c \in 1..n /\ c > 1 => c - 1 \in 1..n - 1 /\ (c - 1) + 1 = c
      OBVIOUS
    <3>3. QED
      BY <2>1, <3>1, <3>2
  <2>3. QED
    BY <2>1, <2>2
<1>7. ASSUME NEW k \in 1..n - 1, k \in T PROVE \E j \in 1..p : b[j] = k
  <2>1. k + 1 \in 1..n /\ k + 1 \in S /\ k + 1 > 1
    BY <1>7
  <2>2. PICK i \in 1..m : a[i] = k + 1
    BY <1>1, <2>1
  <2>3. i > d
    BY <1>1, <2>1, <2>2
  <2>4. i - d \in 1..p /\ (i - d) + d = i
    BY <1>1, <1>2, <2>3
  <2>5. b[i - d] = a[i] - 1
    BY <1>5, <2>4
  <2>6. QED
    BY <2>2, <2>4, <2>5
<1>8. ASSUME NEW i \in 1..p, NEW j \in 1..p, i < j PROVE b[i] < b[j]
  <2>1. i + d \in 1..m /\ j + d \in 1..m /\ i + d < j + d
    <3>1. i + d \in 1..m /\ j + d \in 1..m
      BY <1>5
    <3>2. d \in Int /\ i \in Int /\ j \in Int
      BY <1>3
    <3>3. QED
      BY <1>8, <3>1, <3>2
  <2>2. a[i + d] < a[j + d] /\ a[i + d] \in Int /\ a[j + d] \in Int
    BY <1>1, <2>1
  <2>3. QED
    BY <1>5, <2>2
<1>9. QED
  BY <1>2, <1>3, <1>4, <1>6, <1>7, <1>8 DEF Ordered

\* The job at the head of the queue is taken.
LEMMA OwedShrinks ==
    ASSUME NEW n \in Nat, n > 0, NEW q, NEW t,
           Len(q) = n, DOMAIN q = 1..n, Len(t) = n - 1, DOMAIN t = 1..n - 1,
           \A k \in 1..n - 1 : t[k] = q[k + 1]
    PROVE  /\ q[1].by # {} => OwedOf(t) = OwedOf(q)
           /\ q[1].by = {} => /\ OwedOf(q) # << >> /\ Head(OwedOf(q)) = q[1].req
                              /\ OwedOf(t) = Tail(OwedOf(q))
<1>1. PICK a, S, T : a = Waits(q) /\ S = Unasked(q) /\ T = Unasked(t)
  OBVIOUS
<1>2. PICK m : m = Len(a)
  OBVIOUS
<1>3. PICK x : x = OwedOf(q)
  OBVIOUS
<1>4. Ordered(a, n, S) /\ x = [k \in 1..m |-> q[a[k]].req] /\ x = [k \in 1..m |-> x[k]]
  BY <1>1, <1>2, <1>3, OwedIsAList
<1>5. \A k \in 1..n - 1 : k \in T <=> k + 1 \in S
  <2>1. \A k \in 1..n - 1 : k + 1 \in 1..n
    OBVIOUS
  <2>2. QED
    BY <1>1, <2>1 DEF Unasked
<1>6. 1 \in S <=> q[1].by = {}
  BY <1>1 DEF Unasked
<1>7. /\ m \in Nat
      /\ \A j \in 1..m : a[j] \in 1..n /\ a[j] \in S
      /\ \A k \in 1..n : k \in S => \E j \in 1..m : a[j] = k
      /\ \A i, j \in 1..m : i < j => a[i] < a[j]
  BY <1>2, <1>4 DEF Ordered
<1>8. PICK y : y = OwedOf(t)
  OBVIOUS
<1>9. ASSUME NEW d \in {0, 1}, d <= m, NEW b, b = [j \in 1..m - d |-> a[j + d] - 1],
             \A j \in 1..m : j > d => a[j] > 1,
             \A j \in 1..m : j <= d => a[j] = 1
      PROVE  y = [j \in 1..m - d |-> x[j + d]]
  <2>1. Ordered(b, n - 1, T) /\ Len(b) = m - d
    <3>1. Shifted(n, S, T, a, m, d, b)
      BY <1>2, <1>4, <1>5, <1>9 DEF Shifted
    <3>2. QED
      BY <3>1, OrderedShifts
  <2>2. n - 1 \in Nat
    OBVIOUS
  <2>3. Waits(t) = b
    BY <1>1, <2>1, <2>2, AscendingIs DEF Waits
  <2>4. y = [j \in 1..m - d |-> t[b[j]].req]
    <3>1. OwedOf(t) = [k \in 1..Len(Waits(t)) |-> t[Waits(t)[k]].req]
      BY <2>2, OwedIsAList
    <3>2. QED
      BY <1>8, <2>1, <2>3, <3>1, Zenon
  <2>5. ASSUME NEW j \in 1..m - d PROVE t[b[j]].req = x[j + d]
    <3>1. j + d \in 1..m /\ j + d > d
      BY <1>7
    <3>2. b[j] = a[j + d] - 1 /\ a[j + d] \in 1..n /\ a[j + d] > 1
      BY <1>7, <1>9, <3>1
    <3>3. b[j] \in 1..n - 1 /\ b[j] + 1 = a[j + d]
      <4>1. PICK c : c = a[j + d]
        OBVIOUS
      <4>2. c \in 1..n /\ c > 1 => c - 1 \in 1..n - 1 /\ (c - 1) + 1 = c
        OBVIOUS
      <4>3. QED
        BY <3>2, <4>1, <4>2
    <3>4. t[b[j]] = q[a[j + d]]
      BY <3>3
    <3>5. x[j + d] = q[a[j + d]].req
      BY <1>4, <3>1
    <3>6. QED
      BY <3>4, <3>5
  <2>6. QED
    BY <2>4, <2>5
<1>10. ASSUME q[1].by # {} PROVE y = x
  <2>1. \A j \in 1..m : a[j] > 1
    BY <1>6, <1>7, <1>10
  <2>2. PICK d : d = 0
    OBVIOUS
  <2>3. PICK b : b = [j \in 1..m - d |-> a[j + d] - 1]
    OBVIOUS
  <2>4. d \in {0, 1} /\ d <= m
    BY <1>7, <2>2
  <2>5. \A j \in 1..m : j <= d => a[j] = 1
    BY <1>7, <2>2
  <2>6. y = [j \in 1..m - d |-> x[j + d]]
    BY <1>9, <2>1, <2>3, <2>4, <2>5
  <2>7. m - d = m /\ \A j \in 1..m : j + d = j
    BY <1>7, <2>2
  <2>8. y = [j \in 1..m |-> x[j]]
    BY <2>6, <2>7
  <2>9. QED
    BY <1>4, <2>8
<1>11. ASSUME q[1].by = {} PROVE x # << >> /\ Head(x) = q[1].req /\ y = Tail(x)
  <2>1. PICK i \in 1..m : a[i] = 1
    BY <1>6, <1>7, <1>11
  <2>2. 1 \in 1..m /\ a[1] \in 1..n
    BY <1>7, <2>1
  <2>3. a[1] = 1
    <3>1. CASE i = 1
      BY <2>1, <3>1
    <3>2. CASE 1 < i
      <4>1. a[1] < a[i]
        BY <1>7, <2>2, <3>2
      <4>2. QED
        BY <2>1, <2>2, <4>1
    <3>3. QED
      BY <1>7, <3>1, <3>2
  <2>4. ASSUME NEW j \in 1..m, j > 1 PROVE a[j] > 1
    <3>1. a[1] < a[j]
      BY <1>7, <2>2, <2>4
    <3>2. QED
      BY <2>3, <3>1
  <2>5. \A j \in 1..m : j <= 1 => a[j] = 1
    BY <1>7, <2>3
  <2>6. PICK b : b = [j \in 1..m - 1 |-> a[j + 1] - 1]
    OBVIOUS
  <2>7. 1 \in {0, 1} /\ 1 <= m
    BY <1>7, <2>2
  <2>8. y = [j \in 1..m - 1 |-> x[j + 1]]
    BY <1>9, <2>4, <2>5, <2>6, <2>7
  <2>9. x # << >> /\ Head(x) = x[1] /\ Tail(x) = [k \in 1..m - 1 |-> x[k + 1]]
    BY <1>4, <1>7, <2>7, ListFacts
  <2>10. x[1] = q[1].req
    BY <1>4, <2>2, <2>3
  <2>11. QED
    BY <2>8, <2>9, <2>10
<1>12. QED
  BY <1>3, <1>8, <1>10, <1>11

\* There are not more members than places.
LEMMA OrderedFits == ASSUME NEW n \in Nat, NEW S, NEW a, Ordered(a, n, S) PROVE Len(a) <= n
<1>1. PICK m : m = Len(a)
  OBVIOUS
<1>2. /\ m \in Nat
      /\ \A j \in 1..m : a[j] \in 1..n
      /\ \A i, j \in 1..m : i < j => a[i] < a[j]
  BY <1>1 DEF Ordered
<1> DEFINE Bad == {j \in 1..m : a[j] < j}
<1>3. ASSUME Bad # {} PROVE FALSE
  <2>1. Bad \subseteq Nat
    OBVIOUS
  <2>2. PICK j \in Bad : \A i \in Bad : j <= i
    BY <1>3, <2>1, Smallest
  <2>3. j \in 1..m /\ a[j] < j /\ a[j] \in 1..n
    BY <1>2, <2>2
  <2>4. j - 1 \in 1..m /\ j - 1 < j
    BY <1>2, <2>3
  <2>5. a[j - 1] < a[j] /\ a[j - 1] \in 1..n
    BY <1>2, <2>3, <2>4
  <2>6. a[j - 1] < j - 1
    BY <2>3, <2>5
  <2>7. j - 1 \in Bad /\ ~(j <= j - 1)
    BY <2>4, <2>6
  <2>8. QED
    BY <2>2, <2>7
<1>4. CASE m = 0
  BY <1>1, <1>4
<1>5. CASE m # 0
  <2>1. m \in 1..m
    BY <1>2, <1>5
  <2>2. ~(a[m] < m) /\ a[m] \in 1..n
    BY <1>2, <1>3, <2>1
  <2>3. QED
    BY <1>1, <1>2, <2>2
<1>6. QED
  BY <1>4, <1>5

----------------------------------------------------------------------------
(* The rows of the store and what is written to it *)

\* Reading brings a row into the current shape, once or twice.
LEMMA Upcasts ==
    ASSUME NEW row, IsRow(row), NEW u, u = Ks!upcast(row)
    PROVE  /\ u.kind = row.kind /\ u.ver = 2 /\ u.beat = Ks!Current(row).beat
           /\ Ks!upcast(u) = u
<1>1. row = [kind |-> row.kind, ver |-> row.ver, beat |-> row.beat, of |-> row.of, open |-> row.open]
  BY DEF IsRow
<1>2. Ks!Current(row).beat = IF row.beat = "none" THEN "none" ELSE "meta"
  BY DEF Ks!Current
<1>3. CASE row.ver # 1
  <2>1. u = row
    BY <1>3 DEF Ks!upcast
  <2>2. QED
    BY <1>2, <1>3, <2>1 DEF IsRow, Ks!upcast
<1>4. CASE row.ver = 1
  <2>1. u = [row EXCEPT !.ver = 2, !.beat = IF @ = "envelope" THEN "meta" ELSE @]
    BY <1>4 DEF Ks!upcast
  <2>2. u.kind = row.kind /\ u.ver = 2 /\ u.beat = IF row.beat = "envelope" THEN "meta" ELSE row.beat
    BY <1>1, <2>1
  <2>3. Ks!upcast(u) = u
    BY <2>2 DEF Ks!upcast
  <2>4. QED
    BY <1>2, <2>2, <2>3 DEF IsRow
<1>5. QED
  BY <1>3, <1>4

\* The places of a log with these kinds from here on, and what a read of them gives.
WithKinds(l, kinds, from) == {k \in 1..Len(l) : k >= from /\ l[k].kind \in kinds}
Cut(m, limit) == IF m < limit THEN m ELSE limit

Found(l, kinds, from) == Ks!Ascending(Len(l), WithKinds(l, kinds, from))
Gives(l, a, limit) == [k \in 1..Cut(Len(a), limit) |-> [seq |-> a[k], row |-> l[a[k]]]]

\* What read_kinds gives: the rows of those kinds from a place on, in order, cut at the limit.
LEMMA Reads ==
    ASSUME NEW s, IsLog(its.log[s]), NEW kinds, NEW from \in Nat, NEW limit \in Nat
    PROVE  /\ Ordered(Found(its.log[s], kinds, from), Len(its.log[s]), WithKinds(its.log[s], kinds, from))
           /\ Len(Found(its.log[s], kinds, from)) <= Len(its.log[s])
           /\ Ks!read_kinds(s, kinds, from, limit)
                = Gives(its.log[s], Found(its.log[s], kinds, from), limit)
<1>0. PICK l, a : l = its.log[s] /\ a = Found(l, kinds, from) /\ IsLog(l)
  OBVIOUS
<1>1. PICK n : n = Len(l)
  OBVIOUS
<1>2. n \in Nat /\ l = [k \in 1..n |-> l[k]]
  BY <1>0, <1>1 DEF IsLog
<1>3. DOMAIN l = 1..n /\ a = Ks!Ascending(n, WithKinds(l, kinds, from))
  BY <1>0, <1>1, <1>2 DEF Found
<1>4. PICK all : all = [k \in 1..n |-> [seq |-> k, row |-> l[k]]]
  OBVIOUS
<1>5. Ks!Numbered(s) = all
  BY <1>0, <1>3, <1>4 DEF Ks!Numbered
<1>6. DOMAIN all = 1..n /\ Len(all) = n
  <2>1. DOMAIN all = 1..n /\ all = [k \in 1..n |-> all[k]]
    BY <1>4
  <2>2. QED
    BY <1>2, <2>1, ListFacts
<1>7. \A k \in 1..n : all[k].row = l[k]
  BY <1>4
<1>8. {k \in DOMAIN all : k >= from /\ all[k].row.kind \in kinds} = WithKinds(l, kinds, from)
  BY <1>1, <1>6, <1>7 DEF WithKinds
<1>9. Ordered(a, n, WithKinds(l, kinds, from)) /\ Len(a) <= n
  BY <1>2, <1>3, AscendingIsOrdered, OrderedFits
<1>10. Ks!read_kinds(s, kinds, from, limit) = [k \in 1..Cut(Len(a), limit) |-> all[a[k]]]
  <2>1. Ks!Ascending(Len(all), {k \in DOMAIN all : k >= from /\ all[k].row.kind \in kinds}) = a
    BY <1>3, <1>6, <1>8
  <2>2. QED
    BY <1>5, <2>1, Zenon DEF Ks!read_kinds, Cut
<1>11. ASSUME NEW k \in 1..Cut(Len(a), limit)
       PROVE  all[a[k]] = [seq |-> a[k], row |-> l[a[k]]]
  <2>1. Len(a) \in Nat
    BY <1>9 DEF Ordered
  <2>2. k \in 1..Len(a)
    BY <2>1 DEF Cut
  <2>3. a[k] \in 1..n
    BY <1>9, <2>2 DEF Ordered
  <2>4. QED
    BY <1>4, <2>3
<1>12. Ks!read_kinds(s, kinds, from, limit) = Gives(l, a, limit)
  BY <1>10, <1>11 DEF Gives
<1>13. QED
  BY <1>0, <1>1, <1>9, <1>12

\* The shape of the state, and logs of rows.
KsShape ==
    /\ its = [log |-> its.log, queue |-> its.queue, writer |-> its.writer, reader |-> its.reader,
             calls |-> its.calls]
    /\ its.log = [s \in StreamIds |-> its.log[s]]
    /\ its.writer = [w \in Writers |-> its.writer[w]]
    /\ its.reader = [r \in Readers |-> its.reader[r]]
KeepsRows == \A s \in StreamIds : IsLog(its.log[s])

\* A log in the current shape.
Shown(l) == [k \in DOMAIN l |-> Ks!Current(l[k])]

\* A stream as the mapping shows it.
LEMMA StreamsNow ==
    ASSUME NEW s \in StreamIds
    PROVE  Ks!CurrentStreams[s] = Shown(its.log[s])
  BY DEF Ks!CurrentStreams, Shown

\* Showing a log in the current shape keeps its length, kinds and names.
LEMMA ShownIsAList ==
    ASSUME NEW l, IsLog(l)
    PROVE  /\ DOMAIN Shown(l) = 1..Len(l) /\ Len(Shown(l)) = Len(l)
           /\ Shown(l) = [k \in 1..Len(l) |-> Ks!Current(l[k])]
           /\ Shown(l) = [k \in 1..Len(l) |-> Shown(l)[k]]
           /\ \A k \in 1..Len(l) :
                /\ Shown(l)[k].kind = l[k].kind /\ Shown(l)[k].of = l[k].of
                /\ Shown(l)[k].beat = Ks!Current(l[k]).beat
<1>1. PICK n : n = Len(l)
  OBVIOUS
<1>2. n \in Nat /\ l = [k \in 1..n |-> l[k]]
  BY <1>1 DEF IsLog
<1>3. DOMAIN l = 1..n
  BY <1>2
<1>4. PICK x : x = Shown(l)
  OBVIOUS
<1>5. x = [k \in 1..n |-> Ks!Current(l[k])]
  BY <1>3, <1>4 DEF Shown
<1>6. DOMAIN x = 1..n /\ x = [k \in 1..n |-> x[k]]
  BY <1>5
<1>7. Len(x) = n
  BY <1>2, <1>6, ListFacts
<1>8. \A row : /\ Ks!Current(row).kind = row.kind /\ Ks!Current(row).of = row.of
  BY DEF Ks!Current
<1>9. \A k \in 1..n : x[k] = Ks!Current(l[k])
  BY <1>5
<1>10. QED
  BY <1>1, <1>4, <1>5, <1>6, <1>7, <1>8, <1>9

\* Marks are found whatever schema they were written under.
LEMMA SeesMarks ==
    ASSUME NEW l, IsLog(l), NEW s, l = its.log[s]
    PROVE  (\E k \in DOMAIN Ks!seen(s, {"mark"}) : Ks!seen(s, {"mark"})[k].beat = "meta")
             <=> \E k \in 1..Len(l) : l[k].kind = "mark" /\ Ks!Current(l[k]).beat = "meta"
<1>1. PICK n : n = Len(l)
  OBVIOUS
<1>2. n \in Nat
  BY <1>1 DEF IsLog
<1>3. PICK a : a = Ks!Ascending(n, WithKinds(l, {"mark"}, 0))
  OBVIOUS
<1>4. PICK m : m = Len(a)
  OBVIOUS
<1>5. PICK found : found = Ks!read_kinds(s, {"mark"}, 0, n)
  OBVIOUS
<1>6. /\ Ordered(a, n, WithKinds(l, {"mark"}, 0)) /\ m <= n
      /\ found = [k \in 1..Cut(m, n) |-> [seq |-> a[k], row |-> l[a[k]]]]
  <2>1. PICK kinds : kinds = {"mark"}
    OBVIOUS
  <2>2. PICK from \in Nat : from = 0
    OBVIOUS
  <2>3. a = Found(l, kinds, from)
    BY <1>1, <1>3, <2>1, <2>2 DEF Found
  <2>4. /\ Ordered(a, n, WithKinds(l, kinds, from)) /\ m <= n
        /\ Ks!read_kinds(s, kinds, from, n) = Gives(l, a, n)
    BY <1>1, <1>2, <1>4, <2>3, Reads
  <2>5. QED
    BY <1>4, <1>5, <2>1, <2>2, <2>4 DEF Gives
<1>7. /\ m \in Nat
      /\ \A j \in 1..m : a[j] \in 1..n /\ a[j] \in WithKinds(l, {"mark"}, 0)
      /\ \A k \in 1..n : k \in WithKinds(l, {"mark"}, 0) => \E j \in 1..m : a[j] = k
  BY <1>4, <1>6 DEF Ordered
<1>8. Cut(m, n) = m
  BY <1>2, <1>6, <1>7 DEF Cut
<1>9. found = [k \in 1..m |-> [seq |-> a[k], row |-> l[a[k]]]]
  BY <1>6, <1>8
<1>10. DOMAIN found = 1..m /\ \A k \in 1..m : found[k].row = l[a[k]]
  BY <1>9
<1>11. PICK rows : rows = Ks!rows_of(found)
  OBVIOUS
<1>12. DOMAIN rows = 1..m /\ \A k \in 1..m : rows[k] = l[a[k]]
  BY <1>10, <1>11 DEF Ks!rows_of
<1>13. PICK x : x = Ks!seen(s, {"mark"})
  OBVIOUS
<1>14. x = Ks!project(rows)
  BY <1>1, <1>5, <1>11, <1>13 DEF Ks!seen
<1>15. DOMAIN x = 1..m /\ \A k \in 1..m : x[k] = Ks!upcast(Ks!upcast(l[a[k]]))
  BY <1>12, <1>14 DEF Ks!project
<1>16. \A k \in 1..m : x[k].beat = Ks!Current(l[a[k]]).beat
  <2>1. ASSUME NEW k \in 1..m PROVE x[k].beat = Ks!Current(l[a[k]]).beat
    <3>1. IsRow(l[a[k]])
      BY <1>1, <1>7 DEF IsLog
    <3>2. PICK u : u = Ks!upcast(l[a[k]])
      OBVIOUS
    <3>3. u.beat = Ks!Current(l[a[k]]).beat /\ Ks!upcast(u) = u
      BY <3>1, <3>2, Upcasts
    <3>4. QED
      BY <1>15, <3>2, <3>3
  <2>2. QED
    BY <2>1
<1>17. \A k \in 1..n : k \in WithKinds(l, {"mark"}, 0) <=> l[k].kind = "mark"
  BY <1>1 DEF WithKinds
<1>18. ASSUME NEW k \in 1..m, x[k].beat = "meta"
       PROVE  \E j \in 1..n : l[j].kind = "mark" /\ Ks!Current(l[j]).beat = "meta"
  BY <1>7, <1>16, <1>17, <1>18
<1>19. ASSUME NEW j \in 1..n, l[j].kind = "mark", Ks!Current(l[j]).beat = "meta"
       PROVE  \E k \in 1..m : x[k].beat = "meta"
  <2>1. PICK k \in 1..m : a[k] = j
    BY <1>7, <1>17, <1>19
  <2>2. QED
    BY <1>16, <1>19, <2>1
<1>20. QED
  BY <1>1, <1>13, <1>15, <1>18, <1>19

\* All kinds from a place on: the rows from there.
FirstOf(from) == IF from = 0 THEN 1 ELSE from
RowsFrom(l, first, limit) ==
    [k \in 1..Cut(Len(l) + 1 - first, limit) |-> [seq |-> first + k - 1, row |-> l[first + k - 1]]]

\* A read of all kinds is a run of the log.
LEMMA ReadsOn ==
    ASSUME NEW l, IsLog(l), NEW s, l = its.log[s], NEW from \in Nat, NEW first \in Nat,
           first = FirstOf(from), first <= Len(l) + 1, NEW limit \in Nat
    PROVE  Ks!read_kinds(s, Ks!AllKinds, from, limit) = RowsFrom(l, first, limit)
<1>1. PICK n, S : n = Len(l) /\ S = WithKinds(l, Ks!AllKinds, from)
  OBVIOUS
<1>2. n \in Nat /\ \A k \in 1..n : IsRow(l[k])
  BY <1>1 DEF IsLog
<1>3. \A k \in 1..n : k \in S <=> k >= first
  <2>1. \A k \in 1..n : l[k].kind \in Ks!AllKinds
    BY <1>2 DEF IsRow
  <2>2. \A k \in 1..n : k \in S <=> k >= from
    BY <1>1, <2>1 DEF WithKinds
  <2>3. QED
    BY <1>2, <2>2 DEF FirstOf
<1>4. PICK a : a = Ks!Ascending(n, S)
  OBVIOUS
<1>5. PICK m : m = n + 1 - first
  OBVIOUS
<1>6. m \in Nat
  BY <1>1, <1>2, <1>5
<1>7. a = [j \in 1..m |-> first + j - 1]
  <2>1. first >= 1 /\ first <= n + 1
    BY <1>1 DEF FirstOf
  <2>2. n \in Nat /\ first \in Nat /\ first >= 1 /\ first <= n + 1
    BY <1>2, <2>1
  <2>3. Starts(S, n, first)
    BY <1>3 DEF Starts
  <2>4. Ks!Ascending(n, S) = RunFrom(n, first)
    BY <2>2, <2>3, ARun
  <2>5. QED
    BY <1>4, <1>5, <2>4 DEF RunFrom
<1>8. Len(a) = m
  <2>1. a = [j \in 1..m |-> a[j]]
    BY <1>7
  <2>2. QED
    BY <1>6, <2>1, ListFacts
<1>9. Ks!read_kinds(s, Ks!AllKinds, from, limit)
        = [k \in 1..Cut(Len(a), limit) |-> [seq |-> a[k], row |-> l[a[k]]]]
  <2>1. a = Found(l, Ks!AllKinds, from)
    BY <1>1, <1>4 DEF Found
  <2>2. Ks!read_kinds(s, Ks!AllKinds, from, limit) = Gives(l, a, limit)
    BY <2>1, Reads
  <2>3. QED
    BY <2>2 DEF Gives
<1>10. ASSUME NEW k \in 1..Cut(m, limit) PROVE a[k] = first + k - 1
  <2>1. k \in 1..m
    BY <1>6 DEF Cut
  <2>2. QED
    BY <1>7, <2>1
<1>11. Ks!read_kinds(s, Ks!AllKinds, from, limit)
         = [k \in 1..Cut(m, limit) |-> [seq |-> first + k - 1, row |-> l[first + k - 1]]]
  BY <1>8, <1>9, <1>10
<1>12. QED
  BY <1>1, <1>5, <1>11 DEF RowsFrom

\* An empty stream is seen to be empty.
LEMMA SeesEmpty ==
    ASSUME NEW l, IsLog(l), NEW s, l = its.log[s]
    PROVE  Ks!read_kinds(s, Ks!AllKinds, 0, 1) = << >> <=> Len(l) = 0
<1>1. PICK n : n = Len(l)
  OBVIOUS
<1>2. n \in Nat
  BY <1>1 DEF IsLog
<1>3. PICK x : x = Ks!read_kinds(s, Ks!AllKinds, 0, 1)
  OBVIOUS
<1>4. n + 1 - 1 = n /\ 1 <= n + 1
  BY <1>2
<1>5. x = [k \in 1..Cut(n, 1) |-> [seq |-> 1 + k - 1, row |-> l[1 + k - 1]]]
  <2>1. x = [k \in 1..Cut(n + 1 - 1, 1) |-> [seq |-> 1 + k - 1, row |-> l[1 + k - 1]]]
    <3>1. 1 = FirstOf(0) /\ 1 <= Len(l) + 1
      BY <1>1, <1>4 DEF FirstOf
    <3>2. Ks!read_kinds(s, Ks!AllKinds, 0, 1) = RowsFrom(l, 1, 1)
      BY <3>1, ReadsOn
    <3>3. QED
      BY <1>1, <1>3, <3>2 DEF RowsFrom
  <2>2. QED
    BY <1>4, <2>1
<1>6. PICK c : c = Cut(n, 1)
  OBVIOUS
<1>7. c \in Nat /\ (c = 0 <=> n = 0)
  BY <1>2, <1>6 DEF Cut
<1>8. x = [k \in 1..c |-> x[k]]
  BY <1>5, <1>6
<1>9. c = 0 <=> x = << >>
  BY <1>7, <1>8, ListFacts
<1>10. QED
  BY <1>1, <1>3, <1>7, <1>9

\* The decision that runs in the transaction is the one on the streams as they are.
LEMMA Decides ==
    ASSUME KeepsRows, NEW req, IsRequest(req)
    PROVE  Ks!decide_none(req) <=> Ks!Promise!Declines(req)
<1>1. req.stream \in StreamIds /\ IsLog(its.log[req.stream])
  BY DEF IsRequest, KeepsRows
<1>2. ASSUME req.op = "append_if_many"
      PROVE  Ks!read_kinds(req.other, Ks!AllKinds, 0, 1) # << >>
               <=> Ks!CurrentStreams[req.other] # << >>
  <2>1. req.other \in StreamIds /\ IsLog(its.log[req.other])
    BY <1>2 DEF IsRequest, KeepsRows
  <2>2. PICK l : l = its.log[req.other]
    OBVIOUS
  <2>3. Ks!read_kinds(req.other, Ks!AllKinds, 0, 1) = << >> <=> Len(l) = 0
    BY <2>1, <2>2, SeesEmpty
  <2>4. Len(l) \in Nat /\ Shown(l) = [k \in 1..Len(l) |-> Shown(l)[k]]
    BY <2>1, <2>2, ShownIsAList DEF IsLog
  <2>5. Len(l) = 0 <=> Shown(l) = << >>
    BY <2>4, ListFacts
  <2>6. QED
    BY <2>1, <2>2, <2>3, <2>5, StreamsNow
<1>3. (\E k \in DOMAIN Ks!seen(req.stream, {"mark"}) :
            Ks!seen(req.stream, {"mark"})[k].beat = "meta")
        <=> \E k \in DOMAIN Ks!CurrentStreams[req.stream] :
                /\ Ks!CurrentStreams[req.stream][k].kind = "mark"
                /\ Ks!CurrentStreams[req.stream][k].beat = "meta"
  <2>1. PICK l : l = its.log[req.stream]
    OBVIOUS
  <2>2. Ks!CurrentStreams[req.stream] = Shown(l)
    BY <1>1, <2>1, StreamsNow
  <2>3. /\ DOMAIN Shown(l) = 1..Len(l)
        /\ \A k \in 1..Len(l) : /\ Shown(l)[k].kind = l[k].kind
                                /\ Shown(l)[k].beat = Ks!Current(l[k]).beat
    BY <1>1, <2>1, ShownIsAList
  <2>4. (\E k \in DOMAIN Ks!seen(req.stream, {"mark"}) :
            Ks!seen(req.stream, {"mark"})[k].beat = "meta")
          <=> \E k \in 1..Len(l) : l[k].kind = "mark" /\ Ks!Current(l[k]).beat = "meta"
    BY <1>1, <2>1, SeesMarks
  <2>5. QED
    BY <2>2, <2>3, <2>4
<1>4. QED
  BY <1>2, <1>3 DEF Ks!decide_none, Ks!Promise!Declines

----------------------------------------------------------------------------
(* What a write leaves *)

\* Rows appended to rows are rows, seen as what is there and what is added.
LEMMA ShownJoins ==
    ASSUME NEW a, NEW b, IsLog(a), IsLog(b)
    PROVE  IsLog(a \o b) /\ Shown(a \o b) = Shown(a) \o Shown(b)
<1>1. PICK m, n : m = Len(a) /\ n = Len(b)
  OBVIOUS
<1>2. /\ m \in Nat /\ a = [k \in 1..m |-> a[k]] /\ \A k \in 1..m : IsRow(a[k])
      /\ n \in Nat /\ b = [k \in 1..n |-> b[k]] /\ \A k \in 1..n : IsRow(b[k])
  BY <1>1 DEF IsLog
<1>3. PICK c : c = a \o b
  OBVIOUS
<1>4. Len(c) = m + n /\ c = [k \in 1..m + n |-> IF k <= m THEN a[k] ELSE b[k - m]]
  BY <1>2, <1>3, Joined
<1>5. DOMAIN c = 1..m + n /\ c = [k \in 1..m + n |-> c[k]]
  BY <1>4
<1>6. \A k \in 1..m + n : IF k <= m THEN k \in 1..m /\ c[k] = a[k]
                                    ELSE k - m \in 1..n /\ c[k] = b[k - m]
  BY <1>2, <1>4
<1>7. IsLog(c)
  <2>1. \A k \in 1..m + n : IsRow(c[k])
    BY <1>2, <1>6
  <2>2. QED
    BY <1>2, <1>4, <1>5, <2>1 DEF IsLog
<1>8. PICK u, v : u = Shown(a) /\ v = Shown(b)
  OBVIOUS
<1>9. /\ u = [k \in 1..m |-> Ks!Current(a[k])] /\ u = [k \in 1..m |-> u[k]]
      /\ v = [k \in 1..n |-> Ks!Current(b[k])] /\ v = [k \in 1..n |-> v[k]]
  BY <1>1, <1>8, ShownIsAList
<1>10. u \o v = [k \in 1..m + n |-> IF k <= m THEN u[k] ELSE v[k - m]]
  BY <1>2, <1>9, Joined
<1>11. Shown(c) = [k \in 1..m + n |-> Ks!Current(c[k])]
  BY <1>5 DEF Shown
<1>12. ASSUME NEW k \in 1..m + n
       PROVE  Ks!Current(c[k]) = IF k <= m THEN u[k] ELSE v[k - m]
  <2>1. CASE k <= m
    <3>1. k \in 1..m /\ c[k] = a[k]
      BY <1>6, <2>1
    <3>2. u[k] = Ks!Current(a[k])
      BY <1>9, <3>1
    <3>3. QED
      BY <2>1, <3>1, <3>2
  <2>2. CASE ~(k <= m)
    <3>1. k - m \in 1..n /\ c[k] = b[k - m]
      BY <1>6, <2>2
    <3>2. v[k - m] = Ks!Current(b[k - m])
      BY <1>9, <3>1
    <3>3. QED
      BY <2>2, <3>1, <3>2
  <2>3. QED
    BY <2>1, <2>2
<1>13. Shown(c) = u \o v
  BY <1>10, <1>11, <1>12
<1>14. QED
  BY <1>3, <1>7, <1>8, <1>13

\* The children that are open, asked of the rows or of the streams as seen.
LEMMA ChildrenSeen ==
    ASSUME KeepsRows, NEW s
    PROVE  Ks!open_children_in(s) = Ks!Promise!OpenChildren(Ks!CurrentStreams, s)
<1>1. ASSUME NEW c \in StreamIds
      PROVE  /\ DOMAIN Ks!CurrentStreams[c] = DOMAIN its.log[c]
             /\ \A k \in DOMAIN its.log[c] :
                  /\ Ks!CurrentStreams[c][k].kind = its.log[c][k].kind
                  /\ Ks!CurrentStreams[c][k].of = its.log[c][k].of
  <2>1. PICK l : l = its.log[c] /\ IsLog(l)
    BY DEF KeepsRows
  <2>2. DOMAIN l = 1..Len(l)
    BY <2>1 DEF IsLog
  <2>3. Ks!CurrentStreams[c] = Shown(l)
    BY <2>1, StreamsNow
  <2>4. QED
    BY <2>1, <2>2, <2>3, ShownIsAList
<1>2. QED
  BY <1>1 DEF Ks!open_children_in, Ks!Promise!OpenChildren

----------------------------------------------------------------------------
(* What a job that succeeds adds *)

\* An event as it is kept, with the children it names.
KeptAs(e, kids) == [kind |-> e.kind, beat |-> e.beat, of |-> e.of, open |-> kids]

\* A list of events.
IsEvents(ev, n) == n \in Nat /\ ev = [k \in 1..n |-> ev[k]] /\ \A k \in 1..n : IsEvent(ev[k])

\* `prepared` makes a row of an event.
LEMMA PreparedRow ==
    ASSUME NEW e, IsEvent(e), NEW row, NEW kids, row = [Ks!prepared(e) EXCEPT !.open = kids]
    PROVE  IsRow(row) /\ Ks!Current(row) = KeptAs(e, kids)
<1>1. row = [kind |-> e.kind, ver |-> 2, beat |-> e.beat, of |-> e.of, open |-> kids]
  BY DEF Ks!prepared
<1>2. row.kind = e.kind /\ row.ver = 2 /\ row.beat = e.beat /\ row.of = e.of /\ row.open = kids
  BY <1>1
<1>3. row = [kind |-> row.kind, ver |-> row.ver, beat |-> row.beat, of |-> row.of, open |-> row.open]
  BY <1>1, <1>2
<1>4. IsRow(row)
  BY <1>2, <1>3 DEF IsRow, IsEvent
<1>5. e.beat = IF row.beat = "none" THEN "none" ELSE "meta"
  BY <1>2 DEF IsEvent
<1>6. QED
  BY <1>2, <1>4, <1>5 DEF Ks!Current, KeptAs

\* So does it of each of a list.
LEMMA PreparedList ==
    ASSUME NEW n, NEW ev, IsEvents(ev, n)
    PROVE  /\ Len(Ks!Prepared(ev)) = n /\ Ks!Prepared(ev) = [k \in 1..n |-> Ks!prepared(ev[k])]
           /\ IsLog(Ks!Prepared(ev))
           /\ Shown(Ks!Prepared(ev)) = [k \in 1..n |-> KeptAs(ev[k], {})]
<1>1. n \in Nat /\ DOMAIN ev = 1..n /\ \A k \in 1..n : IsEvent(ev[k])
  BY DEF IsEvents
<1>2. PICK p : p = Ks!Prepared(ev)
  OBVIOUS
<1>3. p = [k \in 1..n |-> Ks!prepared(ev[k])]
  BY <1>1, <1>2 DEF Ks!Prepared
<1>4. DOMAIN p = 1..n /\ p = [k \in 1..n |-> p[k]] /\ \A k \in 1..n : p[k] = Ks!prepared(ev[k])
  BY <1>3
<1>5. Len(p) = n
  BY <1>1, <1>4, ListFacts
<1>6. ASSUME NEW k \in 1..n
      PROVE  IsRow(p[k]) /\ Ks!Current(p[k]) = KeptAs(ev[k], {})
  <2>1. IsEvent(ev[k]) /\ p[k] = Ks!prepared(ev[k])
    BY <1>1, <1>4
  <2>2. p[k] = [Ks!prepared(ev[k]) EXCEPT !.open = {}]
    BY <2>1 DEF Ks!prepared
  <2>3. QED
    BY <2>1, <2>2, PreparedRow
<1>7. IsLog(p)
  BY <1>1, <1>4, <1>5, <1>6 DEF IsLog
<1>8. Shown(p) = [k \in 1..n |-> KeptAs(ev[k], {})]
  <2>1. Shown(p) = [k \in 1..n |-> Ks!Current(p[k])]
    BY <1>4 DEF Shown
  <2>2. QED
    BY <1>6, <2>1
<1>9. QED
  BY <1>2, <1>3, <1>5, <1>7, <1>8

\* Rows in a row are a log.
LEMMA AsLog ==
    ASSUME NEW n \in Nat, NEW p, p = [k \in 1..n |-> p[k]], \A k \in 1..n : IsRow(p[k])
    PROVE  IsLog(p)
<1>1. Len(p) = n
  BY ListFacts
<1>2. QED
  BY <1>1 DEF IsLog

\* An ending names the children that are open.
EndingOf(ev, kids) == [Ks!Prepared(ev) EXCEPT ![1].open = kids]

\* An ending that was prepared is the row the trait keeps.
LEMMA PreparedEnding ==
    ASSUME NEW ev, IsEvents(ev, 1), NEW kids, NEW p, p = EndingOf(ev, kids)
    PROVE  IsLog(p) /\ Shown(p) = [k \in 1..1 |-> KeptAs(ev[k], kids)]
<1>1. Ks!Prepared(ev) = [k \in 1..1 |-> Ks!prepared(ev[k])]
  <2>1. 1 \in Nat /\ IsEvents(ev, 1)
    OBVIOUS
  <2>2. QED
    BY <2>1, PreparedList
<1>2. PICK row : row = [Ks!prepared(ev[1]) EXCEPT !.open = kids]
  OBVIOUS
<1>3. DOMAIN p = 1..1 /\ p[1] = row /\ p = [k \in 1..1 |-> p[k]]
  <2>1. PICK q : q = Ks!Prepared(ev)
    OBVIOUS
  <2>2. DOMAIN q = 1..1 /\ q[1] = Ks!prepared(ev[1]) /\ 1 \in DOMAIN q
    BY <1>1, <2>1
  <2>3. p = [q EXCEPT ![1].open = kids]
    BY <2>1 DEF EndingOf
  <2>4. DOMAIN p = 1..1 /\ p = [k \in 1..1 |-> p[k]]
    BY <2>2, <2>3
  <2>5. p[1] = [q[1] EXCEPT !.open = kids]
    BY <2>2, <2>3
  <2>6. QED
    BY <1>2, <2>2, <2>4, <2>5
<1>4. IsEvent(ev[1])
  BY DEF IsEvents
<1>5. IsRow(row) /\ Ks!Current(row) = KeptAs(ev[1], kids)
  BY <1>2, <1>4, PreparedRow
<1>6. Len(p) = 1
  BY <1>3, ListFacts
<1>7. \A k \in 1..1 : k = 1
  OBVIOUS
<1>8. IsLog(p)
  <2>1. \A k \in 1..1 : IsRow(p[k])
    BY <1>3, <1>5, <1>7
  <2>2. QED
    BY <1>3, <2>1, AsLog
<1>9. Shown(p) = [k \in 1..1 |-> Ks!Current(p[k])]
  BY <1>3 DEF Shown
<1>10. QED
  BY <1>3, <1>5, <1>7, <1>8, <1>9

\* What each stream gets, given the children that are open.
Mine(req, kids) ==
    IF req.op = "append_with_open_children"
    THEN [Ks!Prepared(Ks!Own(req)) EXCEPT ![1].open = kids] ELSE Ks!Prepared(Ks!Own(req))
More(req, s, kids) ==
    IF s = req.stream THEN Mine(req, kids)
    ELSE IF s = req.other THEN Ks!Prepared(Ks!Elsewhere(req)) ELSE << >>

\* What a transaction that goes through makes of the logs.
LEMMA WrittenIs ==
    ASSUME NEW req
    PROVE  Ks!Written(req) = [s \in StreamIds |->
                                its.log[s] \o More(req, s, Ks!open_children_in(req.stream))]
BY DEF Ks!Written, More, Mine

\* The events of a request that a stream gets.
Part(req, s) ==
    LET own == IF req.op = "append_if_many" THEN 1 ELSE Len(req.events)
    IN  IF s = req.stream THEN SubSeq(req.events, 1, own)
        ELSE IF s = req.other THEN SubSeq(req.events, own + 1, Len(req.events)) ELSE << >>
Kids(req) ==
    IF req.op = "append_with_open_children"
    THEN Ks!Promise!OpenChildren(Ks!CurrentStreams, req.stream) ELSE {}

\* What the trait says a stream gets.
LEMMA BatchIs ==
    ASSUME NEW req, NEW s
    PROVE  Ks!Promise!Batch(req, s) = [k \in DOMAIN Part(req, s) |-> KeptAs(Part(req, s)[k], Kids(req))]
BY DEF Ks!Promise!Batch, Ks!Promise!Kept, KeptAs, Part, Kids

\* A part of a list of events is a list of events.
LEMMA PartOfEvents ==
    ASSUME NEW n, NEW ev, IsEvents(ev, n), NEW i \in Nat, NEW j \in Nat, 1 <= i, i <= j + 1, j <= n
    PROVE  IsEvents(SubSeq(ev, i, j), j + 1 - i)
<1>1. n \in Nat /\ ev = [k \in 1..n |-> ev[k]] /\ \A k \in 1..n : IsEvent(ev[k])
  BY DEF IsEvents
<1>2. PICK m, p : m = j + 1 - i /\ p = SubSeq(ev, i, j)
  OBVIOUS
<1>3. p = [k \in 1..m |-> ev[i + k - 1]]
  BY <1>1, <1>2, Sliced
<1>4. m \in Nat /\ p = [k \in 1..m |-> p[k]] /\ \A k \in 1..m : p[k] = ev[i + k - 1]
  BY <1>2, <1>3
<1>5. \A k \in 1..m : i + k - 1 \in 1..n
  BY <1>1, <1>2
<1>6. IsEvents(p, m)
  BY <1>1, <1>4, <1>5 DEF IsEvents
<1>7. QED
  BY <1>2, <1>6

\* The same part, whichever way it is cut.
LEMMA SameParts ==
    ASSUME NEW req, IsRequest(req), NEW n, n = Len(req.events)
    PROVE  /\ IsEvents(req.events, n)
           /\ Part(req, req.stream) = Ks!Own(req)
           /\ IsEvents(Ks!Own(req), IF req.op = "append_if_many" THEN 1 ELSE n)
           /\ IsEvents(Ks!Elsewhere(req), IF req.op = "append_if_many" THEN n - 1 ELSE 0)
           /\ req.stream # req.other => Part(req, req.other) = Ks!Elsewhere(req)
<1>1. PICK ev : ev = req.events
  OBVIOUS
<1>2. n \in Nat /\ ev = [k \in 1..n |-> ev[k]] /\ \A k \in 1..n : IsEvent(ev[k])
  BY <1>1 DEF IsRequest
<1>3. IsEvents(ev, n)
  BY <1>2 DEF IsEvents
<1>4. IsEvents(<< >>, 0)
  BY DEF IsEvents
<1>5. CASE req.op = "append_if_many"
  <2>1. n > 0
    BY <1>5 DEF IsRequest
  <2>2. Ks!Own(req) = SubSeq(ev, 1, 1) /\ Ks!Elsewhere(req) = Tail(ev)
    BY <1>1, <1>5 DEF Ks!Own, Ks!Elsewhere
  <2>3. Part(req, req.stream) = SubSeq(ev, 1, 1)
    BY <1>1, <1>5 DEF Part
  <2>4. req.stream # req.other => Part(req, req.other) = SubSeq(ev, 1 + 1, n)
    BY <1>1, <1>5 DEF Part
  <2>5. SubSeq(ev, 2, n) = [k \in 1..n + 1 - 2 |-> ev[2 + k - 1]]
    BY <1>2, <2>1, Sliced
  <2>6. Tail(ev) = [k \in 1..n - 1 |-> ev[k + 1]]
    BY <1>2, <2>1, ListFacts
  <2>7. SubSeq(ev, 2, n) = Tail(ev)
    <3>1. n + 1 - 2 = n - 1 /\ \A k \in 1..n - 1 : 2 + k - 1 = k + 1
      BY <1>2
    <3>2. QED
      BY <2>5, <2>6, <3>1
  <2>8. IsEvents(SubSeq(ev, 2, n), n + 1 - 2)
    <3>1. 2 \in Nat /\ n \in Nat /\ 1 <= 2 /\ 2 <= n + 1 /\ n <= n
      BY <1>2, <2>1
    <3>2. QED
      BY <1>3, <3>1, PartOfEvents
  <2>9. IsEvents(Tail(ev), n - 1)
    <3>1. n + 1 - 2 = n - 1
      BY <1>2
    <3>2. QED
      BY <2>7, <2>8, <3>1
  <2>10. IsEvents(SubSeq(ev, 1, 1), 1 + 1 - 1)
    <3>1. 1 \in Nat /\ 1 <= 1 /\ 1 <= 1 + 1 /\ 1 <= n
      BY <1>2, <2>1
    <3>2. QED
      BY <1>3, <3>1, PartOfEvents
  <2>11. IsEvents(SubSeq(ev, 1, 1), 1)
    <3>1. 1 + 1 - 1 = 1
      OBVIOUS
    <3>2. QED
      BY <2>10, <3>1
  <2>12. 1 + 1 = 2
    OBVIOUS
  <2>13. QED
    BY <1>1, <1>3, <1>5, <2>2, <2>3, <2>4, <2>7, <2>9, <2>11, <2>12
<1>6. CASE req.op # "append_if_many"
  <2>1. Ks!Own(req) = ev /\ Ks!Elsewhere(req) = << >>
    BY <1>1, <1>6 DEF Ks!Own, Ks!Elsewhere
  <2>2. Part(req, req.stream) = SubSeq(ev, 1, n)
    BY <1>1, <1>6 DEF Part
  <2>3. req.stream # req.other => Part(req, req.other) = SubSeq(ev, n + 1, n)
    BY <1>1, <1>6 DEF Part
  <2>4. SubSeq(ev, 1, n) = [k \in 1..n + 1 - 1 |-> ev[1 + k - 1]]
    BY <1>2, Sliced
  <2>5. SubSeq(ev, 1, n) = ev
    <3>1. n + 1 - 1 = n /\ \A k \in 1..n : 1 + k - 1 = k
      BY <1>2
    <3>2. QED
      BY <1>2, <2>4, <3>1
  <2>6. PICK i : i = n + 1
    OBVIOUS
  <2>7. SubSeq(ev, i, n) = [k \in 1..n + 1 - i |-> ev[i + k - 1]]
    <3>1. i \in Nat /\ 1 <= i /\ i <= n + 1 /\ n <= n
      BY <1>2, <2>6
    <3>2. Slices(n, ev, i, n)
      BY <1>2, <3>1 DEF Slices
    <3>3. QED
      BY <3>2, SliceIs
  <2>8. SubSeq(ev, n + 1, n) = << >>
    <3>1. n + 1 - i = 0
      BY <1>2, <2>6
    <3>2. PICK z : z = SubSeq(ev, n + 1, n)
      OBVIOUS
    <3>3. z = [k \in 1..0 |-> z[k]]
      BY <2>6, <2>7, <3>1, <3>2
    <3>4. QED
      BY <3>2, <3>3, ListFacts
  <2>9. QED
    BY <1>1, <1>3, <1>4, <1>6, <2>1, <2>2, <2>3, <2>5, <2>8
<1>7. QED
  BY <1>5, <1>6

\* What a stream gets is, in the current shape, the batch the trait says.
LEMMA Batches ==
    ASSUME KeepsRows, NEW req, IsRequest(req), NEW s
    PROVE  /\ IsLog(More(req, s, Ks!open_children_in(req.stream)))
           /\ Shown(More(req, s, Ks!open_children_in(req.stream))) = Ks!Promise!Batch(req, s)
<1>1. PICK kids, n : kids = Ks!open_children_in(req.stream) /\ n = Len(req.events)
  OBVIOUS
<1>2. Ks!Promise!OpenChildren(Ks!CurrentStreams, req.stream) = kids
  BY <1>1, ChildrenSeen
<1>3. Ks!Promise!Batch(req, s) = [k \in DOMAIN Part(req, s) |-> KeptAs(Part(req, s)[k], Kids(req))]
  BY BatchIs
<1>4. /\ Part(req, req.stream) = Ks!Own(req)
      /\ IsEvents(Ks!Own(req), IF req.op = "append_if_many" THEN 1 ELSE n)
      /\ IsEvents(Ks!Elsewhere(req), IF req.op = "append_if_many" THEN n - 1 ELSE 0)
      /\ req.stream # req.other => Part(req, req.other) = Ks!Elsewhere(req)
  BY <1>1, SameParts
<1>5. PICK o, e, m, j : /\ o = Ks!Own(req) /\ m = (IF req.op = "append_if_many" THEN 1 ELSE n)
                        /\ e = Ks!Elsewhere(req)
                        /\ j = (IF req.op = "append_if_many" THEN n - 1 ELSE 0)
  OBVIOUS
<1>6. IsEvents(o, m) /\ IsEvents(e, j)
  BY <1>4, <1>5
<1>7. DOMAIN o = 1..m /\ DOMAIN e = 1..j
  BY <1>6 DEF IsEvents
<1>8. CASE s = req.stream /\ req.op = "append_with_open_children"
  <2>1. m = 1
    BY <1>1, <1>5, <1>8 DEF IsRequest
  <2>2. PICK p : p = EndingOf(o, kids)
    OBVIOUS
  <2>3. More(req, s, kids) = p
    BY <1>5, <1>8, <2>2 DEF More, Mine, EndingOf
  <2>4. IsLog(p) /\ Shown(p) = [k \in 1..1 |-> KeptAs(o[k], kids)]
    <3>1. IsEvents(o, 1)
      BY <1>6, <2>1
    <3>2. QED
      BY <2>2, <3>1, PreparedEnding
  <2>5. Kids(req) = kids
    BY <1>2, <1>8 DEF Kids
  <2>6. Ks!Promise!Batch(req, s) = [k \in 1..1 |-> KeptAs(o[k], kids)]
    BY <1>3, <1>4, <1>5, <1>7, <1>8, <2>1, <2>5
  <2>7. QED
    BY <1>1, <2>3, <2>4, <2>6
<1>9. CASE s = req.stream /\ req.op # "append_with_open_children"
  <2>1. More(req, s, kids) = Ks!Prepared(o)
    BY <1>5, <1>9 DEF More, Mine
  <2>2. IsLog(Ks!Prepared(o)) /\ Shown(Ks!Prepared(o)) = [k \in 1..m |-> KeptAs(o[k], {})]
    BY <1>6, PreparedList
  <2>3. Kids(req) = {}
    BY <1>9 DEF Kids
  <2>4. Ks!Promise!Batch(req, s) = [k \in 1..m |-> KeptAs(o[k], {})]
    BY <1>3, <1>4, <1>5, <1>7, <1>9, <2>3
  <2>5. QED
    BY <1>1, <2>1, <2>2, <2>4
<1>10. CASE s # req.stream /\ s = req.other
  <2>1. More(req, s, kids) = Ks!Prepared(e)
    BY <1>5, <1>10 DEF More
  <2>2. IsLog(Ks!Prepared(e)) /\ Shown(Ks!Prepared(e)) = [k \in 1..j |-> KeptAs(e[k], {})]
    BY <1>6, PreparedList
  <2>3. Ks!Promise!Batch(req, s) = [k \in 1..j |-> KeptAs(e[k], Kids(req))]
    BY <1>3, <1>4, <1>5, <1>7, <1>10
  <2>4. [k \in 1..j |-> KeptAs(e[k], Kids(req))] = [k \in 1..j |-> KeptAs(e[k], {})]
    <3>1. CASE req.op = "append_with_open_children"
      <4>1. j = 0
        BY <1>5, <3>1
      <4>2. \A k \in 1..0 : FALSE
        OBVIOUS
      <4>3. QED
        BY <4>1, <4>2
    <3>2. CASE req.op # "append_with_open_children"
      BY <3>2 DEF Kids
    <3>3. QED
      BY <3>1, <3>2
  <2>5. QED
    BY <1>1, <2>1, <2>2, <2>3, <2>4
<1>11. CASE s # req.stream /\ s # req.other
  <2>1. More(req, s, kids) = << >> /\ Part(req, s) = << >>
    BY <1>11 DEF More, Part
  <2>2. IsLog(<< >>)
    BY DEF IsLog
  <2>3. Shown(<< >>) = << >>
    BY DEF Shown
  <2>4. Ks!Promise!Batch(req, s) = << >>
    BY <1>3, <2>1
  <2>5. QED
    BY <1>1, <2>1, <2>2, <2>3, <2>4
<1>12. QED
  BY <1>8, <1>9, <1>10, <1>11

----------------------------------------------------------------------------
(* The queue and the calls under way *)

\* A call is idle, handed over, or over and not yet told.
IsWriter(me) ==
    /\ me = [at |-> me.at, req |-> me.req, parked |-> me.parked, answer |-> me.answer]
    /\ me.at \in {"idle", "queued", "ran"}

\* A job is one nobody waits for, or the call under way of its caller.
IsJob(job, wr) ==
    /\ job.req \in Requests
    /\ \/ job.by = {} /\ job.req.op = "detach_append"
       \/ \E w \in Writers : job.by = {w} /\ wr[w].at = "queued" /\ wr[w].req = {job.req}
IsQueue(q, wr) ==
    /\ Len(q) \in Nat /\ q = [k \in 1..Len(q) |-> q[k]]
    /\ \A k \in 1..Len(q) : IsJob(q[k], wr)
    /\ \A j, k \in 1..Len(q) : j # k /\ q[j].by = q[k].by => q[j].by = {}

\* Jobs do not care for calls that are not handed over.
LEMMA QueueKept ==
    ASSUME NEW q, NEW wr, NEW wr2, IsQueue(q, wr),
           \A w \in Writers : wr[w].at = "queued" => wr2[w] = wr[w]
    PROVE  IsQueue(q, wr2)
<1>1. \A k \in 1..Len(q) : IsJob(q[k], wr)
  BY DEF IsQueue
<1>2. \A k \in 1..Len(q) : IsJob(q[k], wr2)
  BY <1>1 DEF IsJob
<1>3. QED
  BY <1>2 DEF IsQueue

\* A list with one more entry.
LEMMA OneMore ==
    ASSUME NEW m \in Nat, NEW q, q = [k \in 1..m |-> q[k]], NEW x, NEW r, r = Append(q, x)
    PROVE  /\ Len(r) = m + 1 /\ r = [k \in 1..m + 1 |-> r[k]]
           /\ \A k \in 1..m : r[k] = q[k]
           /\ r[m + 1] = x
<1>1. PICK X : q \in Seq(X) /\ Len(q) = m
  BY AList
<1>2. r = [k \in 1..m + 1 |-> IF k = m + 1 THEN x ELSE q[k]] /\ Len(r) = m + 1
  BY <1>1
<1>3. QED
  BY <1>2

\* A job at the end of the queue.
LEMMA QueueGrows ==
    ASSUME NEW q, NEW wr, NEW wr2, IsQueue(q, wr),
           \A w \in Writers : wr[w].at = "queued" => wr2[w] = wr[w],
           NEW job, IsJob(job, wr2), \A w \in Writers : w \in job.by => wr[w].at # "queued"
    PROVE  IsQueue(Append(q, job), wr2)
<1>1. PICK m : m = Len(q)
  OBVIOUS
<1>2. /\ m \in Nat /\ q = [k \in 1..m |-> q[k]]
      /\ \A k \in 1..m : IsJob(q[k], wr)
      /\ \A j, k \in 1..m : j # k /\ q[j].by = q[k].by => q[j].by = {}
  BY <1>1 DEF IsQueue
<1>3. PICK r : r = Append(q, job)
  OBVIOUS
<1>4. /\ Len(r) = m + 1 /\ r = [k \in 1..m + 1 |-> r[k]]
      /\ \A k \in 1..m : r[k] = q[k]
      /\ r[m + 1] = job
  BY <1>2, <1>3, OneMore
<1>5. ASSUME NEW k \in 1..m PROVE IsJob(q[k], wr2)
  <2>1. PICK was : was = q[k]
    OBVIOUS
  <2>2. IsJob(was, wr)
    BY <1>2, <2>1
  <2>3. IsJob(was, wr2)
    BY <2>2 DEF IsJob
  <2>4. QED
    BY <2>1, <2>3
<1>6. \A k \in 1..m + 1 : k \in 1..m \/ k = m + 1
  BY <1>2
<1>7. \A k \in 1..m + 1 : IsJob(r[k], wr2)
  BY <1>4, <1>5, <1>6
<1>8. ASSUME NEW k \in 1..m, q[k].by = job.by
      PROVE  job.by = {}
  <2>1. CASE q[k].by = {}
    BY <1>8, <2>1
  <2>2. CASE \E w \in Writers : q[k].by = {w} /\ wr[w].at = "queued"
    BY <1>8, <2>2
  <2>3. QED
    BY <1>2, <2>1, <2>2 DEF IsJob
<1>9. \A j, k \in 1..m + 1 : j # k /\ r[j].by = r[k].by => r[j].by = {}
  <2>1. SUFFICES ASSUME NEW j \in 1..m + 1, NEW k \in 1..m + 1, j # k, r[j].by = r[k].by
                 PROVE  r[j].by = {}
    OBVIOUS
  <2>2. CASE j \in 1..m /\ k \in 1..m
    BY <1>2, <1>4, <2>1, <2>2
  <2>3. CASE j = m + 1 /\ k \in 1..m
    BY <1>4, <1>8, <2>1, <2>3
  <2>4. CASE k = m + 1 /\ j \in 1..m
    BY <1>4, <1>8, <2>1, <2>4
  <2>5. QED
    BY <1>6, <2>1, <2>2, <2>3, <2>4
<1>10. m + 1 \in Nat
  BY <1>2
<1>11. QED
  BY <1>3, <1>4, <1>7, <1>9, <1>10 DEF IsQueue

\* The job at the head has gone; its caller, if there is one, waits for no other.
LEMMA QueueTail ==
    ASSUME NEW q, NEW wr, NEW wr2, IsQueue(q, wr), q # << >>,
           \A w \in Writers : w \notin Head(q).by => wr2[w] = wr[w]
    PROVE  /\ IsQueue(Tail(q), wr2) /\ IsJob(Head(q), wr)
           /\ Head(q).by # {} => OwedOf(Tail(q)) = OwedOf(q)
           /\ Head(q).by = {} => /\ OwedOf(q) # << >> /\ Head(OwedOf(q)) = Head(q).req
                                 /\ OwedOf(Tail(q)) = Tail(OwedOf(q))
<1>1. PICK m : m = Len(q)
  OBVIOUS
<1>2. /\ m \in Nat /\ q = [k \in 1..m |-> q[k]]
      /\ \A k \in 1..m : IsJob(q[k], wr)
      /\ \A j, k \in 1..m : j # k /\ q[j].by = q[k].by => q[j].by = {}
  BY <1>1 DEF IsQueue
<1>3. m > 0
  BY <1>2, ListFacts
<1>4. PICK t : t = Tail(q)
  OBVIOUS
<1>5. Head(q) = q[1] /\ Len(t) = m - 1 /\ t = [k \in 1..m - 1 |-> q[k + 1]]
  BY <1>2, <1>3, <1>4, ListFacts
<1>6. /\ DOMAIN q = 1..m /\ DOMAIN t = 1..m - 1 /\ t = [k \in 1..m - 1 |-> t[k]]
      /\ \A k \in 1..m - 1 : t[k] = q[k + 1]
  BY <1>2, <1>5
<1>7. m - 1 \in Nat /\ 1 \in 1..m /\ \A k \in 1..m - 1 : k + 1 \in 1..m /\ k + 1 # 1
  BY <1>2, <1>3
<1>8. ASSUME NEW k \in 1..m - 1
      PROVE  IsJob(t[k], wr2)
  <2>1. t[k] = q[k + 1] /\ IsJob(q[k + 1], wr)
    BY <1>2, <1>6, <1>7
  <2>2. \A w \in Writers : q[k + 1].by = {w} => w \notin q[1].by
    <3>1. SUFFICES ASSUME NEW w \in Writers, q[k + 1].by = {w}, w \in q[1].by
                   PROVE  FALSE
      OBVIOUS
    <3>2. q[1].by = {w}
      BY <1>2, <1>7, <3>1 DEF IsJob
    <3>3. QED
      BY <1>2, <1>7, <3>1, <3>2
  <2>3. QED
    BY <1>5, <2>1, <2>2 DEF IsJob
<1>9. \A j, k \in 1..m - 1 : j # k /\ t[j].by = t[k].by => t[j].by = {}
  <2>1. SUFFICES ASSUME NEW j \in 1..m - 1, NEW k \in 1..m - 1, j # k, t[j].by = t[k].by
                 PROVE  t[j].by = {}
    OBVIOUS
  <2>2. t[j] = q[j + 1] /\ t[k] = q[k + 1] /\ j + 1 \in 1..m /\ k + 1 \in 1..m /\ j + 1 # k + 1
    BY <1>6, <1>7, <2>1
  <2>3. QED
    BY <1>2, <2>1, <2>2
<1>10. IsQueue(t, wr2)
  BY <1>5, <1>6, <1>7, <1>8, <1>9 DEF IsQueue
<1>11. /\ q[1].by # {} => OwedOf(t) = OwedOf(q)
       /\ q[1].by = {} => /\ OwedOf(q) # << >> /\ Head(OwedOf(q)) = q[1].req
                          /\ OwedOf(t) = Tail(OwedOf(q))
  <2>1. /\ m \in Nat /\ m > 0 /\ Len(q) = m /\ DOMAIN q = 1..m /\ Len(t) = m - 1
        /\ DOMAIN t = 1..m - 1 /\ \A k \in 1..m - 1 : t[k] = q[k + 1]
    BY <1>1, <1>2, <1>3, <1>5, <1>6
  <2>2. QED
    BY <2>1, OwedShrinks
<1>12. QED
  BY <1>2, <1>4, <1>5, <1>7, <1>10, <1>11

----------------------------------------------------------------------------
(* The store's state as its callers see it *)

Streamed(log) == [s \in StreamIds |-> Shown(log[s])]
Callers(wr) == [w \in Writers |-> Ks!Status(wr[w])]

\* The mapping before and after a step, as operators on the record's parts.
LEMMA SeenNow ==
    /\ Ks!CurrentStreams = Streamed(its.log) /\ Ks!CurrentStreams' = Streamed(its'.log)
    /\ Ks!CurrentCallers = Callers(its.writer) /\ Ks!CurrentCallers' = Callers(its'.writer)
    /\ Ks!Owed = OwedOf(its.queue) /\ Ks!Owed' = OwedOf(its'.queue)
BY DEF Ks!CurrentStreams, Ks!CurrentCallers, Ks!Owed, Ks!Unawaited, OwedOf, Waits, Unasked,
       Streamed, Callers, Shown

\* The phases of a call.
LEMMA StatusIs ==
    ASSUME NEW me
    PROVE  /\ me.at = "idle" => Ks!Status(me) = [at |-> "idle", req |-> me.req, outcome |-> me.answer]
           /\ me.at = "queued" => Ks!Status(me) = [at |-> "called", req |-> me.req, outcome |-> me.answer]
           /\ me.at = "ran" => Ks!Status(me) = [at |-> "done", req |-> me.req,
                                    outcome |-> IF me.parked THEN "refused" ELSE me.answer]
BY DEF Ks!Status, Ks!Phase

\* A call that is told, and one that ends.
Tells(a) == [a EXCEPT !.at = "idle", !.req = {}]
EndsWith(a, y) == [a EXCEPT !.at = "done", !.outcome = y]

\* What telling a caller does to its call.
LEMMA StatusMoves ==
    ASSUME NEW o, NEW r, NEW t
    PROVE  Tells([at |-> o, req |-> r, outcome |-> t]) = [at |-> "idle", req |-> {}, outcome |-> t]
<1>1. PICK a : a = [at |-> o, req |-> r, outcome |-> t]
  OBVIOUS
<1>2. PICK c : c = [a EXCEPT !.at = "idle"]
  OBVIOUS
<1>3. c = [at |-> "idle", req |-> r, outcome |-> t]
  BY <1>1, <1>2
<1>4. Tells(a) = [c EXCEPT !.req = {}]
  BY <1>2 DEF Tells
<1>5. QED
  BY <1>1, <1>3, <1>4

\* One call moves on.
LEMMA OneCaller ==
    ASSUME NEW wr, wr = [v \in Writers |-> wr[v]], NEW w \in Writers, NEW me, NEW wr2,
           wr2 = [wr EXCEPT ![w] = me]
    PROVE  /\ wr2 = [v \in Writers |-> wr2[v]] /\ wr2[w] = me
           /\ \A v \in Writers : v # w => wr2[v] = wr[v]
           /\ Callers(wr)[w] = Ks!Status(wr[w]) /\ Callers(wr2)[w] = Ks!Status(me)
           /\ Callers(wr2) = [Callers(wr) EXCEPT ![w] = Ks!Status(me)]
BY DEF Callers

\* What holds of the log, the calls and the queue.
WriteSide ==
    /\ KsShape /\ KeepsRows
    /\ \A w \in Writers : IsWriter(its.writer[w])
    /\ IsQueue(its.queue, its.writer)

\* A step that leaves the log alone.
LEMMA LogAlone ==
    ASSUME KeepsRows, its'.log = its.log
    PROVE  KeepsRows' /\ Ks!CurrentStreams' = Ks!CurrentStreams
BY SeenNow DEF KeepsRows

\* A step of a reader is no step of the store.
LEMMA MapReader ==
    ASSUME WriteSide, KsShape', its'.log = its.log, its'.queue = its.queue, its'.writer = its.writer
    PROVE  WriteSide' /\ UNCHANGED Ks!Promise!vars
BY SeenNow, LogAlone DEF WriteSide, Ks!Promise!vars

\* A call comes back with what happened, a refusal that was parked included.
LEMMA MapReturn ==
    ASSUME WriteSide, NEW w \in Writers, Ks!Return(w)
    PROVE  WriteSide' /\ Ks!Promise!Told(w) /\ its'.log = its.log /\ its'.reader = its.reader
<1>1. PICK me, wr, new : /\ wr = its.writer /\ me = wr[w]
                         /\ new = [at |-> "idle", req |-> {}, parked |-> FALSE, answer |-> Ks!taken(w)]
  OBVIOUS
<1>2. /\ me.at = "ran" /\ wr = [v \in Writers |-> wr[v]]
      /\ Ks!taken(w) = IF me.parked THEN "refused" ELSE me.answer
  BY <1>1 DEF WriteSide, KsShape, Ks!Return, Ks!taken
<1>3. PICK wr2 : wr2 = [wr EXCEPT ![w] = new]
  OBVIOUS
<1>4. its' = [its EXCEPT !.writer = wr2]
  BY <1>1, <1>3 DEF Ks!Return
<1>5. its'.log = its.log /\ its'.queue = its.queue /\ its'.reader = its.reader /\ its'.writer = wr2
  BY <1>4 DEF WriteSide, KsShape
<1>6. /\ wr2 = [v \in Writers |-> wr2[v]] /\ wr2[w] = new
      /\ \A v \in Writers : v # w => wr2[v] = wr[v]
      /\ Callers(wr)[w] = Ks!Status(me)
      /\ Callers(wr2) = [Callers(wr) EXCEPT ![w] = Ks!Status(new)]
  <2>1. wr = [v \in Writers |-> wr[v]] /\ wr2 = [wr EXCEPT ![w] = new]
    BY <1>2, <1>3
  <2>2. /\ wr2 = [v \in Writers |-> wr2[v]] /\ wr2[w] = new
        /\ \A v \in Writers : v # w => wr2[v] = wr[v]
        /\ Callers(wr)[w] = Ks!Status(wr[w])
        /\ Callers(wr2) = [Callers(wr) EXCEPT ![w] = Ks!Status(new)]
    BY <2>1, OneCaller
  <2>3. QED
    BY <1>1, <2>2
<1>7. KsShape'
  BY <1>4, <1>5, <1>6 DEF WriteSide, KsShape
<1>8. Ks!Status(me) = [at |-> "done", req |-> me.req, outcome |-> Ks!taken(w)]
  BY <1>2, StatusIs
<1>9. new.at = "idle" /\ new.req = {} /\ new.answer = Ks!taken(w)
  BY <1>1
<1>10. Ks!Status(new) = [at |-> "idle", req |-> {}, outcome |-> Ks!taken(w)]
  BY <1>9, StatusIs
<1>11. Ks!Status(new) = Tells(Ks!Status(me))
  <2>1. PICK a, b, t, r : a = Ks!Status(me) /\ b = Ks!Status(new) /\ t = Ks!taken(w) /\ r = me.req
    OBVIOUS
  <2>2. a = [at |-> "done", req |-> r, outcome |-> t] /\ b = [at |-> "idle", req |-> {}, outcome |-> t]
    BY <1>8, <1>10, <2>1
  <2>3. b = Tells(a)
    BY <2>2, StatusMoves
  <2>4. QED
    BY <2>1, <2>3
<1>12. IsQueue(its'.queue, its'.writer)
  <2>1. \A v \in Writers : wr[v].at = "queued" => wr2[v] = wr[v]
    BY <1>1, <1>2, <1>6
  <2>2. IsQueue(its.queue, wr)
    BY <1>1 DEF WriteSide
  <2>3. QED
    BY <1>5, <2>1, <2>2, QueueKept
<1>13. \A v \in Writers : IsWriter(its'.writer[v])
  <2>1. IsWriter(new)
    BY <1>1 DEF IsWriter
  <2>2. QED
    BY <1>1, <1>5, <1>6, <2>1 DEF WriteSide
<1>14. WriteSide'
  BY <1>5, <1>7, <1>12, <1>13, LogAlone DEF WriteSide
<1>15. Ks!Promise!Told(w)
  <2>1. Ks!CurrentCallers[w].at = "done"
    BY <1>1, <1>6, <1>8, SeenNow
  <2>2. Ks!CurrentCallers' = [Ks!CurrentCallers EXCEPT ![w] = Ks!Status(new)]
    BY <1>1, <1>5, <1>6, SeenNow
  <2>3. Ks!CurrentCallers[w] = Ks!Status(me)
    BY <1>1, <1>6, SeenNow
  <2>4. Ks!CurrentCallers'
          = [Ks!CurrentCallers EXCEPT ![w] = [Ks!CurrentCallers[w] EXCEPT !.at = "idle", !.req = {}]]
    <3>1. Tells(Ks!CurrentCallers[w]) = [Ks!CurrentCallers[w] EXCEPT !.at = "idle", !.req = {}]
      BY DEF Tells
    <3>2. QED
      BY <1>11, <2>2, <2>3, <3>1
  <2>5. Ks!Owed' = Ks!Owed /\ Ks!CurrentStreams' = Ks!CurrentStreams
    BY <1>5, SeenNow
  <2>6. QED
    BY <2>1, <2>4, <2>5 DEF Ks!Promise!Told
<1>16. QED
  BY <1>5, <1>14, <1>15

\* Several fields of the store's state change.
LEMMA FieldsOfKs ==
    ASSUME NEW a, NEW l, NEW q, NEW wr, NEW rd, NEW c,
           a = [log |-> l, queue |-> q, writer |-> wr, reader |-> rd, calls |-> c],
           NEW l2, NEW q2, NEW wr2, NEW rd2, NEW c2
    PROVE  /\ [a EXCEPT !.calls = c2, !.queue = q2, !.writer = wr2]
                = [log |-> l, queue |-> q2, writer |-> wr2, reader |-> rd, calls |-> c2]
           /\ [a EXCEPT !.calls = c2, !.queue = q2]
                = [log |-> l, queue |-> q2, writer |-> wr, reader |-> rd, calls |-> c2]
           /\ [a EXCEPT !.calls = c2, !.writer = wr2]
                = [log |-> l, queue |-> q, writer |-> wr2, reader |-> rd, calls |-> c2]
           /\ [a EXCEPT !.calls = c2, !.reader = rd2]
                = [log |-> l, queue |-> q, writer |-> wr, reader |-> rd2, calls |-> c2]
           /\ [a EXCEPT !.queue = q2, !.writer = wr2]
                = [log |-> l, queue |-> q2, writer |-> wr2, reader |-> rd, calls |-> c]
           /\ [a EXCEPT !.writer = wr2, !.log = l2]
                = [log |-> l2, queue |-> q, writer |-> wr2, reader |-> rd, calls |-> c]
           /\ [a EXCEPT !.reader = rd2]
                = [log |-> l, queue |-> q, writer |-> wr, reader |-> rd2, calls |-> c]
<1>1. PICK b : b = [a EXCEPT !.calls = c2]
  OBVIOUS
<1>2. b = [log |-> l, queue |-> q, writer |-> wr, reader |-> rd, calls |-> c2]
  BY <1>1
<1>3. PICK d : d = [b EXCEPT !.queue = q2]
  OBVIOUS
<1>4. d = [log |-> l, queue |-> q2, writer |-> wr, reader |-> rd, calls |-> c2]
  BY <1>2, <1>3
<1>5. PICK e : e = [a EXCEPT !.queue = q2]
  OBVIOUS
<1>6. e = [log |-> l, queue |-> q2, writer |-> wr, reader |-> rd, calls |-> c]
  BY <1>5
<1>7. PICK f : f = [a EXCEPT !.writer = wr2]
  OBVIOUS
<1>8. f = [log |-> l, queue |-> q, writer |-> wr2, reader |-> rd, calls |-> c]
  BY <1>7
<1>9. [a EXCEPT !.calls = c2, !.queue = q2, !.writer = wr2] = [d EXCEPT !.writer = wr2]
  BY <1>1, <1>3
<1>10. [a EXCEPT !.calls = c2, !.queue = q2] = d
  BY <1>1, <1>3
<1>11. [a EXCEPT !.calls = c2, !.writer = wr2] = [b EXCEPT !.writer = wr2]
  BY <1>1
<1>12. [a EXCEPT !.calls = c2, !.reader = rd2] = [b EXCEPT !.reader = rd2]
  BY <1>1
<1>13. [a EXCEPT !.queue = q2, !.writer = wr2] = [e EXCEPT !.writer = wr2]
  BY <1>5
<1>14. [a EXCEPT !.writer = wr2, !.log = l2] = [f EXCEPT !.log = l2]
  BY <1>7
<1>15. [d EXCEPT !.writer = wr2]
         = [log |-> l, queue |-> q2, writer |-> wr2, reader |-> rd, calls |-> c2]
  BY <1>4
<1>16. /\ [b EXCEPT !.writer = wr2]
            = [log |-> l, queue |-> q, writer |-> wr2, reader |-> rd, calls |-> c2]
       /\ [b EXCEPT !.reader = rd2]
            = [log |-> l, queue |-> q, writer |-> wr, reader |-> rd2, calls |-> c2]
  BY <1>2
<1>17. [e EXCEPT !.writer = wr2]
         = [log |-> l, queue |-> q2, writer |-> wr2, reader |-> rd, calls |-> c]
  BY <1>6
<1>18. [f EXCEPT !.log = l2]
         = [log |-> l2, queue |-> q, writer |-> wr2, reader |-> rd, calls |-> c]
  BY <1>8
<1>19. [a EXCEPT !.reader = rd2]
         = [log |-> l, queue |-> q, writer |-> wr, reader |-> rd2, calls |-> c]
  OBVIOUS
<1>20. QED
  BY <1>4, <1>9, <1>10, <1>11, <1>12, <1>13, <1>14, <1>15, <1>16, <1>17, <1>18, <1>19

\* What a job at the end of the queue is to the appends nobody waits for.
LEMMA OwedAppends ==
    ASSUME NEW q, NEW wr, IsQueue(q, wr), NEW job, NEW r, r = Append(q, job)
    PROVE  /\ job.by # {} => OwedOf(r) = OwedOf(q)
           /\ job.by = {} => /\ Len(OwedOf(r)) = Len(OwedOf(q)) + 1
                             /\ SubSeq(OwedOf(r), 1, Len(OwedOf(q))) = OwedOf(q)
<1>1. PICK n : n = Len(q)
  OBVIOUS
<1>2. n \in Nat /\ q = [k \in 1..n |-> q[k]]
  BY <1>1 DEF IsQueue
<1>3. /\ Len(r) = n + 1 /\ r = [k \in 1..n + 1 |-> r[k]] /\ \A k \in 1..n : r[k] = q[k]
      /\ r[n + 1] = job
  BY <1>2, OneMore
<1>4. PICK t : t = r
  OBVIOUS
<1>5. /\ n \in Nat /\ Len(q) = n /\ DOMAIN q = 1..n /\ Len(t) = n + 1 /\ DOMAIN t = 1..n + 1
      /\ \A k \in 1..n : t[k] = q[k]
      /\ t[n + 1] = job
  BY <1>1, <1>2, <1>3, <1>4
<1>6. /\ job.by # {} => OwedOf(t) = OwedOf(q)
      /\ job.by = {} => /\ Len(OwedOf(t)) = Len(OwedOf(q)) + 1
                        /\ SubSeq(OwedOf(t), 1, Len(OwedOf(q))) = OwedOf(q)
  <2>1. Longer(q, t, n, job)
    BY <1>5 DEF Longer
  <2>2. QED
    BY <2>1, OwedGrows
<1>7. QED
  BY <1>4, <1>6

\* A call is handed over: a call of the trait begins.
LEMMA MapSubmit ==
    ASSUME WriteSide, NEW w \in Writers, NEW req \in Requests, its.writer[w].at = "idle",
           Ks!Submit(w, req)
    PROVE  WriteSide' /\ Ks!Promise!Call(w) /\ its'.log = its.log /\ its'.reader = its.reader
<1>1. PICK q, wr, new, job : /\ q = its.queue /\ wr = its.writer
                             /\ new = [Ks!NoCall EXCEPT !.at = "queued", !.req = {req}]
                             /\ job = [by |-> {w}, req |-> req]
  OBVIOUS
<1>2. wr = [v \in Writers |-> wr[v]] /\ wr[w].at = "idle"
  BY <1>1 DEF WriteSide, KsShape
<1>3. new = [at |-> "queued", req |-> {req}, parked |-> FALSE, answer |-> "none yet"]
  <2>1. PICK one : one = [Ks!NoCall EXCEPT !.at = "queued"]
    OBVIOUS
  <2>2. one = [at |-> "queued", req |-> {}, parked |-> FALSE, answer |-> "none yet"]
    BY <2>1 DEF Ks!NoCall
  <2>3. new = [one EXCEPT !.req = {req}]
    BY <1>1, <2>1
  <2>4. QED
    BY <2>2, <2>3
<1>4. PICK wr2, q2 : wr2 = [wr EXCEPT ![w] = new] /\ q2 = Append(q, job)
  OBVIOUS
<1>5. its' = [its EXCEPT !.calls = its.calls + 1, !.queue = q2, !.writer = wr2]
  BY <1>1, <1>4 DEF Ks!Submit, WriteSide, KsShape
<1>6. its' = [log |-> its.log, queue |-> q2, writer |-> wr2, reader |-> its.reader,
             calls |-> its.calls + 1]
  BY <1>5, FieldsOfKs DEF WriteSide, KsShape
<1>7. its'.log = its.log /\ its'.queue = q2 /\ its'.reader = its.reader /\ its'.writer = wr2
  BY <1>6
<1>8. /\ wr2 = [v \in Writers |-> wr2[v]] /\ wr2[w] = new
      /\ \A v \in Writers : v # w => wr2[v] = wr[v]
      /\ Callers(wr)[w] = Ks!Status(wr[w]) /\ Callers(wr2)[w] = Ks!Status(new)
      /\ Callers(wr2) = [Callers(wr) EXCEPT ![w] = Ks!Status(new)]
  <2>1. wr = [v \in Writers |-> wr[v]] /\ wr2 = [wr EXCEPT ![w] = new]
    BY <1>2, <1>4
  <2>2. QED
    BY <2>1, OneCaller
<1>9. KsShape'
  BY <1>6, <1>7, <1>8 DEF WriteSide, KsShape
<1>10. new.at = "queued" /\ new.req = {req} /\ new.answer = "none yet"
  BY <1>3
<1>11. Ks!Status(new) = [at |-> "called", req |-> {req}, outcome |-> "none yet"]
  BY <1>10, StatusIs
<1>12. IsQueue(q2, wr2)
  <2>1. \A v \in Writers : wr[v].at = "queued" => wr2[v] = wr[v]
    BY <1>2, <1>8
  <2>2. IsQueue(q, wr)
    BY <1>1 DEF WriteSide
  <2>3. job.by = {w} /\ job.req = req
    BY <1>1
  <2>4. IsJob(job, wr2)
    BY <1>8, <1>10, <2>3 DEF IsJob
  <2>5. \A v \in Writers : v \in job.by => wr[v].at # "queued"
    BY <1>2, <2>3
  <2>6. IsQueue(Append(q, job), wr2)
    BY <2>1, <2>2, <2>4, <2>5, QueueGrows
  <2>7. QED
    BY <1>4, <2>6
<1>13. \A v \in Writers : IsWriter(wr2[v])
  <2>1. IsWriter(new)
    BY <1>3 DEF IsWriter
  <2>2. \A v \in Writers : IsWriter(wr[v])
    BY <1>1 DEF WriteSide
  <2>3. QED
    BY <1>8, <2>1, <2>2
<1>14. WriteSide'
  BY <1>7, <1>9, <1>12, <1>13, LogAlone DEF WriteSide
<1>15. OwedOf(q2) = OwedOf(q)
  <2>1. IsQueue(q, wr)
    BY <1>1 DEF WriteSide
  <2>2. job.by # {}
    BY <1>1
  <2>3. QED
    BY <1>4, <2>1, <2>2, OwedAppends
<1>16. Ks!Promise!Call(w)
  <2>1. Ks!CurrentCallers[w].at = "idle"
    <3>1. Ks!Status(wr[w]) = [at |-> "idle", req |-> wr[w].req, outcome |-> wr[w].answer]
      BY <1>2, StatusIs
    <3>2. QED
      BY <1>1, <1>8, <3>1, SeenNow
  <2>2. Ks!CurrentCallers' = [Ks!CurrentCallers EXCEPT ![w] =
                                [at |-> "called", req |-> {req}, outcome |-> "none yet"]]
    BY <1>1, <1>7, <1>8, <1>11, SeenNow
  <2>3. Ks!CurrentCallers'[w].req = {req}
    <3>1. Ks!CurrentCallers' = Callers(wr2)
      BY <1>7, SeenNow
    <3>2. Callers(wr2)[w] = [at |-> "called", req |-> {req}, outcome |-> "none yet"]
      BY <1>8, <1>11
    <3>3. PICK st : st = Callers(wr2)[w]
      OBVIOUS
    <3>4. st.req = {req}
      <4>1. st = [at |-> "called", req |-> {req}, outcome |-> "none yet"]
        BY <3>2, <3>3
      <4>2. QED
        BY <4>1
    <3>5. QED
      BY <3>1, <3>3, <3>4
  <2>4. Ks!Owed' = Ks!Owed /\ Ks!CurrentStreams' = Ks!CurrentStreams
    BY <1>1, <1>7, <1>15, SeenNow
  <2>5. QED
    BY <2>1, <2>2, <2>3, <2>4 DEF Ks!Promise!Call, Ks!Promise!Idle
<1>17. QED
  BY <1>7, <1>14, <1>16

\* A malformed batch is refused before anything is handed over.
IsOver(req) == [Ks!NoCall EXCEPT !.at = "ran", !.req = {req}, !.parked = TRUE]
Parks(w, req) == its' = [its EXCEPT !.calls = its.calls + 1, !.writer = [its.writer EXCEPT ![w] = IsOver(req)]]

\* It is the refusal at once of the trait.
LEMMA MapAtOnce ==
    ASSUME WriteSide, NEW w \in Writers, NEW req \in Requests, its.writer[w].at = "idle",
           ~Ks!AllValid(req), Parks(w, req)
    PROVE  WriteSide' /\ Ks!Promise!RefuseAtOnce(w) /\ its'.log = its.log /\ its'.reader = its.reader
<1>1. PICK wr, new : wr = its.writer /\ new = IsOver(req)
  OBVIOUS
<1>2. wr = [v \in Writers |-> wr[v]] /\ wr[w].at = "idle"
  BY <1>1 DEF WriteSide, KsShape
<1>3. new = [at |-> "ran", req |-> {req}, parked |-> TRUE, answer |-> "none yet"]
  <2>1. PICK one : one = [Ks!NoCall EXCEPT !.at = "ran"]
    OBVIOUS
  <2>2. one = [at |-> "ran", req |-> {}, parked |-> FALSE, answer |-> "none yet"]
    BY <2>1 DEF Ks!NoCall
  <2>3. PICK two : two = [one EXCEPT !.req = {req}]
    OBVIOUS
  <2>4. two = [at |-> "ran", req |-> {req}, parked |-> FALSE, answer |-> "none yet"]
    BY <2>2, <2>3
  <2>5. new = [two EXCEPT !.parked = TRUE]
    BY <1>1, <2>1, <2>3 DEF IsOver
  <2>6. QED
    BY <2>4, <2>5
<1>4. PICK wr2 : wr2 = [wr EXCEPT ![w] = new]
  OBVIOUS
<1>5. its' = [its EXCEPT !.calls = its.calls + 1, !.writer = wr2]
  BY <1>1, <1>4 DEF Parks
<1>6. its' = [log |-> its.log, queue |-> its.queue, writer |-> wr2, reader |-> its.reader,
             calls |-> its.calls + 1]
  BY <1>5, FieldsOfKs DEF WriteSide, KsShape
<1>7. its'.log = its.log /\ its'.queue = its.queue /\ its'.reader = its.reader /\ its'.writer = wr2
  BY <1>6
<1>8. /\ wr2 = [v \in Writers |-> wr2[v]] /\ wr2[w] = new
      /\ \A v \in Writers : v # w => wr2[v] = wr[v]
      /\ Callers(wr)[w] = Ks!Status(wr[w]) /\ Callers(wr2)[w] = Ks!Status(new)
      /\ Callers(wr2) = [Callers(wr) EXCEPT ![w] = Ks!Status(new)]
  <2>1. wr = [v \in Writers |-> wr[v]] /\ wr2 = [wr EXCEPT ![w] = new]
    BY <1>2, <1>4
  <2>2. QED
    BY <2>1, OneCaller
<1>9. KsShape'
  BY <1>6, <1>7, <1>8 DEF WriteSide, KsShape
<1>10. new.at = "ran" /\ new.req = {req} /\ new.parked = TRUE
  BY <1>3
<1>11. Ks!Status(new) = [at |-> "done", req |-> {req}, outcome |-> "refused"]
  BY <1>10, StatusIs
<1>12. IsQueue(its.queue, wr2)
  <2>1. \A v \in Writers : wr[v].at = "queued" => wr2[v] = wr[v]
    BY <1>2, <1>8
  <2>2. IsQueue(its.queue, wr)
    BY <1>1 DEF WriteSide
  <2>3. QED
    BY <2>1, <2>2, QueueKept
<1>13. \A v \in Writers : IsWriter(wr2[v])
  <2>1. IsWriter(new)
    BY <1>3 DEF IsWriter
  <2>2. \A v \in Writers : IsWriter(wr[v])
    BY <1>1 DEF WriteSide
  <2>3. QED
    BY <1>8, <2>1, <2>2
<1>14. WriteSide'
  BY <1>7, <1>9, <1>12, <1>13, LogAlone DEF WriteSide
<1>15. Ks!Promise!RefuseAtOnce(w)
  <2>1. Ks!CurrentCallers[w].at = "idle"
    <3>1. Ks!Status(wr[w]) = [at |-> "idle", req |-> wr[w].req, outcome |-> wr[w].answer]
      BY <1>2, StatusIs
    <3>2. QED
      BY <1>1, <1>8, <3>1, SeenNow
  <2>2. Ks!CurrentCallers' = [Ks!CurrentCallers EXCEPT ![w] =
                                [at |-> "done", req |-> {req}, outcome |-> "refused"]]
    BY <1>1, <1>7, <1>8, <1>11, SeenNow
  <2>3. Ks!CurrentCallers'[w].req = {req}
    <3>1. Ks!CurrentCallers' = Callers(wr2)
      BY <1>7, SeenNow
    <3>2. PICK st : st = Callers(wr2)[w]
      OBVIOUS
    <3>3. st = [at |-> "done", req |-> {req}, outcome |-> "refused"]
      BY <1>8, <1>11, <3>2
    <3>4. st.req = {req}
      BY <3>3
    <3>5. QED
      BY <3>1, <3>2, <3>4
  <2>4. Ks!Owed' = Ks!Owed /\ Ks!CurrentStreams' = Ks!CurrentStreams
    BY <1>7, SeenNow
  <2>5. Ks!Promise!Malformed(req)
    BY DEF Ks!AllValid, Ks!validate_event, Ks!Promise!Malformed
  <2>6. QED
    BY <2>1, <2>2, <2>3, <2>4, <2>5 DEF Ks!Promise!RefuseAtOnce, Ks!Promise!Idle
<1>16. QED
  BY <1>7, <1>14, <1>15

\* A write nobody waits for is handed over, or dropped when it is malformed.
LEMMA MapDetach ==
    ASSUME WriteSide, NEW w \in Writers, NEW req \in Requests, Ks!detach_append(w, req)
    PROVE  /\ WriteSide' /\ its'.log = its.log /\ its'.reader = its.reader
           /\ Ks!Promise!Detach(w) \/ UNCHANGED Ks!Promise!vars
<1>1. PICK q, wr, job : q = its.queue /\ wr = its.writer /\ job = [by |-> {}, req |-> req]
  OBVIOUS
<1>2. PICK q2 : q2 = IF Ks!AllValid(req) THEN Append(q, job) ELSE q
  OBVIOUS
<1>3. /\ wr[w].at = "idle" /\ req.op = "detach_append"
      /\ its' = [its EXCEPT !.calls = its.calls + 1, !.queue = q2]
  BY <1>1, <1>2 DEF Ks!detach_append, Ks!Free, WriteSide, KsShape
<1>4. its' = [log |-> its.log, queue |-> q2, writer |-> its.writer, reader |-> its.reader,
             calls |-> its.calls + 1]
  BY <1>3, FieldsOfKs DEF WriteSide, KsShape
<1>5. its'.log = its.log /\ its'.queue = q2 /\ its'.reader = its.reader /\ its'.writer = wr
  BY <1>1, <1>4
<1>6. KsShape'
  BY <1>1, <1>4, <1>5 DEF WriteSide, KsShape
<1>7. IsQueue(q, wr)
  BY <1>1 DEF WriteSide
<1>8. job.by = {} /\ job.req = req
  BY <1>1
<1>9. IsQueue(q2, wr)
  <2>1. IsJob(job, wr)
    BY <1>3, <1>8 DEF IsJob
  <2>2. \A v \in Writers : v \in job.by => wr[v].at # "queued"
    BY <1>8
  <2>3. IsQueue(Append(q, job), wr)
    BY <1>7, <2>1, <2>2, QueueGrows
  <2>4. QED
    BY <1>2, <1>7, <2>3
<1>10. WriteSide'
  BY <1>1, <1>5, <1>6, <1>9, LogAlone DEF WriteSide
<1>11. Ks!CurrentStreams' = Ks!CurrentStreams /\ Ks!CurrentCallers' = Ks!CurrentCallers
  BY <1>1, <1>5, SeenNow
<1>12. CASE Ks!AllValid(req)
  <2>1. q2 = Append(q, job)
    BY <1>2, <1>12
  <2>2. Len(OwedOf(q2)) = Len(OwedOf(q)) + 1 /\ SubSeq(OwedOf(q2), 1, Len(OwedOf(q))) = OwedOf(q)
    BY <1>7, <1>8, <2>1, OwedAppends
  <2>3. Ks!Owed = OwedOf(q) /\ Ks!Owed' = OwedOf(q2)
    BY <1>1, <1>5, SeenNow
  <2>4. Ks!CurrentCallers[w].at = "idle"
    <3>1. Ks!Status(wr[w]) = [at |-> "idle", req |-> wr[w].req, outcome |-> wr[w].answer]
      BY <1>3, StatusIs
    <3>2. Ks!CurrentCallers[w] = Ks!Status(wr[w])
      BY <1>1, SeenNow DEF Callers
    <3>3. QED
      BY <3>1, <3>2
  <2>5. Ks!Promise!Detach(w)
    BY <1>11, <2>2, <2>3, <2>4 DEF Ks!Promise!Detach, Ks!Promise!Idle
  <2>6. QED
    BY <1>5, <1>10, <2>5
<1>13. CASE ~Ks!AllValid(req)
  <2>1. Ks!Owed' = Ks!Owed
    BY <1>1, <1>2, <1>5, <1>13, SeenNow
  <2>2. QED
    BY <1>5, <1>10, <1>11, <2>1 DEF Ks!Promise!vars
<1>14. QED
  BY <1>12, <1>13

----------------------------------------------------------------------------
(* The job at the head of the queue has its transaction *)

\* The record of its caller, if it has one, when the transaction is over.
IsThrough(me, parked, answer) == [me EXCEPT !.at = "ran", !.parked = parked, !.answer = answer]
Through(wr, by, parked, answer) ==
    [w \in Writers |-> IF w \in by THEN IsThrough(wr[w], parked, answer) ELSE wr[w]]
Told(parked, answer) == IF parked THEN "refused" ELSE answer

\* A call that is through is done, with the outcome its caller will be told.
LEMMA ThroughIs ==
    ASSUME NEW me, IsWriter(me), NEW parked \in BOOLEAN, NEW answer, NEW new,
           new = IsThrough(me, parked, answer)
    PROVE  /\ IsWriter(new)
           /\ Ks!Status(new) = [at |-> "done", req |-> me.req, outcome |-> Told(parked, answer)]
<1>1. PICK a, r, p, b : a = me.at /\ r = me.req /\ p = me.parked /\ b = me.answer
  OBVIOUS
<1>2. me = [at |-> a, req |-> r, parked |-> p, answer |-> b]
  BY <1>1 DEF IsWriter
<1>3. PICK one : one = [me EXCEPT !.at = "ran"]
  OBVIOUS
<1>4. one = [at |-> "ran", req |-> r, parked |-> p, answer |-> b]
  BY <1>2, <1>3
<1>5. PICK two : two = [one EXCEPT !.parked = parked]
  OBVIOUS
<1>6. two = [at |-> "ran", req |-> r, parked |-> parked, answer |-> b]
  BY <1>4, <1>5
<1>7. new = [two EXCEPT !.answer = answer]
  BY <1>3, <1>5 DEF IsThrough
<1>8. new = [at |-> "ran", req |-> r, parked |-> parked, answer |-> answer]
  BY <1>6, <1>7
<1>9. new.at = "ran" /\ new.req = r /\ new.parked = parked /\ new.answer = answer
  BY <1>8
<1>10. IsWriter(new)
  BY <1>8, <1>9 DEF IsWriter
<1>11. QED
  BY <1>1, <1>9, <1>10, StatusIs DEF Told

\* The step seen by the callers and by the appends nobody waits for.
Waited(wr, wr2, w, req, parked, answer) ==
    /\ Callers(wr)[w].at = "called" /\ Callers(wr)[w].req = {req}
    /\ Callers(wr2) = [Callers(wr) EXCEPT ![w] = EndsWith(Callers(wr)[w], Told(parked, answer))]

\* For the trait, the one caller of the job ends.
LEMMA CallerThrough ==
    ASSUME NEW wr, wr = [v \in Writers |-> wr[v]], \A v \in Writers : IsWriter(wr[v]),
           NEW w \in Writers, NEW req, wr[w].at = "queued", wr[w].req = {req},
           NEW parked \in BOOLEAN, NEW answer, NEW wr2, wr2 = Through(wr, {w}, parked, answer)
    PROVE  Waited(wr, wr2, w, req, parked, answer)
<1>1. PICK me, new : me = wr[w] /\ new = IsThrough(me, parked, answer)
  OBVIOUS
<1>2. Ks!Status(new) = [at |-> "done", req |-> me.req, outcome |-> Told(parked, answer)]
  BY <1>1, ThroughIs
<1>3. Ks!Status(me) = [at |-> "called", req |-> me.req, outcome |-> me.answer]
  BY <1>1, StatusIs
<1>4. PICK st, st2, r, o, t : /\ st = Ks!Status(me) /\ st2 = Ks!Status(new) /\ r = me.req
                              /\ o = me.answer /\ t = Told(parked, answer)
  OBVIOUS
<1>5. /\ st = [at |-> "called", req |-> r, outcome |-> o]
      /\ st2 = [at |-> "done", req |-> r, outcome |-> t]
  BY <1>2, <1>3, <1>4
<1>6. st2 = EndsWith(st, t)
  <2>1. PICK d : d = [st EXCEPT !.at = "done"]
    OBVIOUS
  <2>2. d = [at |-> "done", req |-> r, outcome |-> o]
    BY <1>5, <2>1
  <2>3. EndsWith(st, t) = [d EXCEPT !.outcome = t]
    BY <2>1 DEF EndsWith
  <2>4. QED
    BY <1>5, <2>2, <2>3
<1>7. st.at = "called" /\ st.req = {req}
  <2>1. st.at = "called" /\ st.req = r
    BY <1>5
  <2>2. QED
    BY <1>1, <1>4, <2>1
<1>8. Callers(wr)[w] = st
  BY <1>1, <1>4 DEF Callers
<1>9. wr2 = [wr EXCEPT ![w] = new]
  BY <1>1 DEF Through
<1>10. Callers(wr2) = [Callers(wr) EXCEPT ![w] = st2]
  <2>1. PICK wr3 : wr3 = [wr EXCEPT ![w] = new]
    OBVIOUS
  <2>2. Callers(wr3) = [Callers(wr) EXCEPT ![w] = Ks!Status(new)]
    BY <2>1, OneCaller
  <2>3. QED
    BY <1>4, <1>9, <2>1, <2>2
<1>11. QED
  BY <1>4, <1>6, <1>7, <1>8, <1>10 DEF Waited

\* What every end of a transaction does to the queue and the calls.
RunsHead(parked, answer) ==
    /\ its.queue # << >>
    /\ its'.queue = Tail(its.queue)
    /\ its'.writer = Through(its.writer, Head(its.queue).by, parked, answer)
    /\ its'.reader = its.reader
Awaited(job, parked, answer) ==
    /\ Ks!Owed' = Ks!Owed
    /\ \E w \in Writers : Waited(its.writer, its'.writer, w, job.req, parked, answer)
Detached(job) ==
    /\ job.req.op = "detach_append" /\ Ks!CurrentCallers' = Ks!CurrentCallers
    /\ Ks!Owed # << >> /\ Head(Ks!Owed) = job.req /\ Ks!Owed' = Tail(Ks!Owed)

\* Running the head of the queue ends its caller's call or takes the first append owed.
LEMMA HeadRuns ==
    ASSUME WriteSide, KsShape', KeepsRows', NEW parked \in BOOLEAN, NEW answer, RunsHead(parked, answer)
    PROVE  /\ WriteSide' /\ Head(its.queue).req \in Requests
           /\ Awaited(Head(its.queue), parked, answer) \/ Detached(Head(its.queue))
<1>1. PICK q, wr, wr2, job, by :
        /\ q = its.queue /\ wr = its.writer /\ wr2 = its'.writer /\ job = Head(q) /\ by = job.by
  OBVIOUS
<1>2. /\ wr = [v \in Writers |-> wr[v]] /\ \A v \in Writers : IsWriter(wr[v])
      /\ IsQueue(q, wr) /\ q # << >>
  BY <1>1 DEF WriteSide, KsShape, RunsHead
<1>3. wr2 = Through(wr, by, parked, answer) /\ its'.queue = Tail(q)
  BY <1>1 DEF RunsHead
<1>4. \A v \in Writers : wr2[v] = IF v \in by THEN IsThrough(wr[v], parked, answer) ELSE wr[v]
  BY <1>3 DEF Through
<1>5. \A v \in Writers : IsWriter(wr2[v])
  BY <1>2, <1>4, ThroughIs
<1>6. /\ IsQueue(Tail(q), wr2) /\ IsJob(job, wr)
      /\ by # {} => OwedOf(Tail(q)) = OwedOf(q)
      /\ by = {} => /\ OwedOf(q) # << >> /\ Head(OwedOf(q)) = job.req
                    /\ OwedOf(Tail(q)) = Tail(OwedOf(q))
  <2>1. \A v \in Writers : v \notin Head(q).by => wr2[v] = wr[v]
    BY <1>1, <1>4
  <2>2. /\ IsQueue(Tail(q), wr2) /\ IsJob(Head(q), wr)
        /\ Head(q).by # {} => OwedOf(Tail(q)) = OwedOf(q)
        /\ Head(q).by = {} => /\ OwedOf(q) # << >> /\ Head(OwedOf(q)) = Head(q).req
                              /\ OwedOf(Tail(q)) = Tail(OwedOf(q))
    BY <1>2, <2>1, QueueTail
  <2>3. QED
    BY <1>1, <2>2
<1>7. WriteSide'
  BY <1>1, <1>3, <1>5, <1>6 DEF WriteSide
<1>8. Ks!Owed = OwedOf(q) /\ Ks!Owed' = OwedOf(Tail(q))
  BY <1>1, <1>3, SeenNow
<1>9. job.req \in Requests
  BY <1>6 DEF IsJob
<1>10. CASE by = {} /\ job.req.op = "detach_append"
  <2>1. wr2 = wr
    BY <1>2, <1>3, <1>10 DEF Through
  <2>2. Ks!CurrentCallers' = Ks!CurrentCallers
    BY <1>1, <2>1, SeenNow
  <2>3. Detached(job)
    BY <1>6, <1>8, <1>10, <2>2 DEF Detached
  <2>4. QED
    BY <1>1, <1>7, <1>9, <2>3
<1>11. CASE \E w \in Writers : by = {w} /\ wr[w].at = "queued" /\ wr[w].req = {job.req}
  <2>1. PICK w \in Writers : by = {w} /\ wr[w].at = "queued" /\ wr[w].req = {job.req}
    BY <1>11
  <2>2. PICK req : req = job.req
    OBVIOUS
  <2>3. wr2 = Through(wr, {w}, parked, answer)
    BY <1>3, <2>1
  <2>4. Waited(wr, wr2, w, req, parked, answer)
    BY <1>2, <2>1, <2>2, <2>3, CallerThrough
  <2>5. Ks!Owed' = Ks!Owed
    BY <1>6, <1>8, <2>1
  <2>6. Awaited(job, parked, answer)
    BY <1>1, <2>2, <2>4, <2>5 DEF Awaited
  <2>7. QED
    BY <1>1, <1>7, <1>9, <2>6
<1>12. QED
  BY <1>1, <1>6, <1>10, <1>11 DEF IsJob

\* What a job that succeeds leaves is, in the current shape, each stream with its batch.
LEMMA Lands ==
    ASSUME KeepsRows, NEW req, IsRequest(req), its'.log = Ks!Written(req)
    PROVE  /\ KeepsRows'
           /\ \A s \in StreamIds : \E more : IsLog(more) /\ its'.log[s] = its.log[s] \o more
           /\ Ks!CurrentStreams'
                = [s \in StreamIds |-> Ks!CurrentStreams[s] \o Ks!Promise!Batch(req, s)]
           /\ req.op = "detach_append" =>
                Ks!CurrentStreams' = [Ks!CurrentStreams EXCEPT ![req.stream] =
                    Ks!CurrentStreams[req.stream] \o Ks!Promise!Batch(req, req.stream)]
<1>1. PICK log, log2, kids : log = its.log /\ log2 = its'.log /\ kids = Ks!open_children_in(req.stream)
  OBVIOUS
<1>2. log2 = [s \in StreamIds |-> log[s] \o More(req, s, kids)]
  BY <1>1, WrittenIs
<1>3. ASSUME NEW s \in StreamIds
      PROVE  /\ log2[s] = log[s] \o More(req, s, kids)
             /\ IsLog(log[s]) /\ IsLog(More(req, s, kids)) /\ IsLog(log2[s])
             /\ Shown(log2[s]) = Shown(log[s]) \o Ks!Promise!Batch(req, s)
  <2>1. PICK a, b : a = log[s] /\ b = More(req, s, kids)
    OBVIOUS
  <2>2. IsLog(a)
    BY <1>1, <2>1 DEF KeepsRows
  <2>3. IsLog(b) /\ Shown(b) = Ks!Promise!Batch(req, s)
    BY <1>1, <2>1, Batches
  <2>4. IsLog(a \o b) /\ Shown(a \o b) = Shown(a) \o Shown(b)
    BY <2>2, <2>3, ShownJoins
  <2>5. log2[s] = a \o b
    BY <1>2, <2>1
  <2>6. QED
    BY <2>1, <2>2, <2>3, <2>4, <2>5
<1>4. KeepsRows'
  BY <1>1, <1>3 DEF KeepsRows
<1>5. \A s \in StreamIds : \E more : IsLog(more) /\ its'.log[s] = its.log[s] \o more
  BY <1>1, <1>3
<1>6. Ks!CurrentStreams = Streamed(log) /\ Ks!CurrentStreams' = Streamed(log2)
  BY <1>1, SeenNow
<1>7. \A s \in StreamIds : Streamed(log)[s] = Shown(log[s]) /\ Streamed(log2)[s] = Shown(log2[s])
  BY DEF Streamed
<1>8. Streamed(log2) = [s \in StreamIds |-> Streamed(log)[s] \o Ks!Promise!Batch(req, s)]
  BY <1>3, <1>7 DEF Streamed
<1>9. ASSUME req.op = "detach_append"
      PROVE  Streamed(log2) = [Streamed(log) EXCEPT ![req.stream] =
                                Streamed(log)[req.stream] \o Ks!Promise!Batch(req, req.stream)]
  <2>1. req.stream \in StreamIds
    BY DEF IsRequest
  <2>2. ASSUME NEW s \in StreamIds, s # req.stream
        PROVE  Streamed(log2)[s] = Streamed(log)[s]
    <3>1. PICK n : n = Len(req.events)
      OBVIOUS
    <3>2. Ks!Elsewhere(req) = << >>
      BY <1>9 DEF Ks!Elsewhere
    <3>3. More(req, s, kids) = << >>
      BY <2>2, <3>2 DEF More, Ks!Prepared
    <3>4. PICK a : a = log[s]
      OBVIOUS
    <3>5. IsLog(a) /\ log2[s] = a \o << >>
      BY <1>3, <3>3, <3>4
    <3>6. a \o << >> = a
      <4>1. PICK m : m = Len(a)
        OBVIOUS
      <4>2. m \in Nat /\ a = [k \in 1..m |-> a[k]]
        BY <3>5, <4>1 DEF IsLog
      <4>3. PICK X : a \in Seq(X)
        BY <4>2, AList
      <4>4. QED
        BY <4>3
    <3>7. QED
      BY <1>7, <3>4, <3>5, <3>6
  <2>3. PICK all, all2, x : all = Streamed(log) /\ all2 = Streamed(log2) /\ x = req.stream
    OBVIOUS
  <2>4. all = [s \in StreamIds |-> all[s]] /\ all2 = [s \in StreamIds |-> all2[s]]
    BY <2>3 DEF Streamed
  <2>5. all2[x] = all[x] \o Ks!Promise!Batch(req, x)
    BY <1>8, <2>1, <2>3
  <2>6. \A s \in StreamIds : s # x => all2[s] = all[s]
    BY <2>2, <2>3
  <2>7. all2 = [all EXCEPT ![x] = all[x] \o Ks!Promise!Batch(req, x)]
    BY <2>4, <2>5, <2>6
  <2>8. QED
    BY <2>3, <2>7
<1>10. QED
  BY <1>4, <1>5, <1>6, <1>8, <1>9

\* The jobs' record is the one of `Went`.
LEMMA WentIs ==
    ASSUME NEW job, NEW parked, NEW answer
    PROVE  Ks!Went(job, parked, answer) = Through(its.writer, job.by, parked, answer)
BY DEF Ks!Went, Through, IsThrough

\* A caller's call ends.
LEMMA EndsFor ==
    ASSUME NEW w \in Writers, NEW req, NEW parked, NEW answer,
           Waited(its.writer, its'.writer, w, req, parked, answer)
    PROVE  /\ Ks!Promise!Running(w) /\ Ks!CurrentCallers[w].req = {req}
           /\ Ks!Promise!Ends(w, Told(parked, answer))
<1>1. Ks!CurrentCallers = Callers(its.writer) /\ Ks!CurrentCallers' = Callers(its'.writer)
  BY SeenNow
<1>2. /\ Ks!CurrentCallers[w].at = "called" /\ Ks!CurrentCallers[w].req = {req}
      /\ Ks!CurrentCallers' = [Ks!CurrentCallers EXCEPT ![w] =
                                 EndsWith(Ks!CurrentCallers[w], Told(parked, answer))]
  BY <1>1 DEF Waited
<1>3. Ks!Promise!Ends(w, Told(parked, answer))
  BY <1>2 DEF Ks!Promise!Ends, EndsWith
<1>4. QED
  BY <1>2, <1>3 DEF Ks!Promise!Running

\* What a transaction does is one step of the trait, whichever way it ends.
Kept(req) ==
    /\ ~Ks!decide_none(req) /\ Ks!AllValid(req) /\ its'.log = Ks!Written(req)
Ended(req, parked, answer) ==
    \/ its'.log = its.log /\ parked = FALSE /\ answer = "failed"
    \/ its'.log = its.log /\ parked = FALSE /\ answer = "declined" /\ Ks!decide_none(req)
    \/ its'.log = its.log /\ parked = TRUE /\ ~Ks!decide_none(req) /\ ~Ks!AllValid(req)
    \/ parked = FALSE /\ answer = "kept" /\ Kept(req)

\* A job that ends is one step of the trait, and logs only grow.
LEMMA OneStep ==
    ASSUME AsTheTraitSays, WriteSide, KsShape', NEW parked \in BOOLEAN, NEW answer,
           RunsHead(parked, answer), Ended(Head(its.queue).req, parked, answer)
    PROVE  /\ WriteSide'
           /\ \A s \in StreamIds : \/ its'.log[s] = its.log[s]
                                 \/ \E more : IsLog(more) /\ its'.log[s] = its.log[s] \o more
           /\ Ks!Promise!Next
<1>1. PICK job, req : job = Head(its.queue) /\ req = job.req
  OBVIOUS
<1>2. KeepsRows
  BY DEF WriteSide
<1>3. req \in Requests /\ IsRequest(req)
  <2>1. IsQueue(its.queue, its.writer) /\ its.queue # << >>
    BY DEF WriteSide, RunsHead
  <2>2. IsJob(Head(its.queue), its.writer)
    BY <2>1, QueueTail
  <2>3. QED
    BY <1>1, <2>2 DEF IsJob, AsTheTraitSays
<1>4. Ended(req, parked, answer)
  BY <1>1
<1>5. Ks!decide_none(req) <=> Ks!Promise!Declines(req)
  BY <1>2, <1>3, Decides
<1>6. Ks!AllValid(req) <=> ~Ks!Promise!Malformed(req)
  BY DEF Ks!AllValid, Ks!validate_event, Ks!Promise!Malformed
<1>7. ASSUME its'.log = Ks!Written(req)
      PROVE  /\ KeepsRows'
             /\ \A s \in StreamIds : \E more : IsLog(more) /\ its'.log[s] = its.log[s] \o more
             /\ Ks!CurrentStreams'
                  = [s \in StreamIds |-> Ks!CurrentStreams[s] \o Ks!Promise!Batch(req, s)]
             /\ req.op = "detach_append" =>
                  Ks!CurrentStreams' = [Ks!CurrentStreams EXCEPT ![req.stream] =
                      Ks!CurrentStreams[req.stream] \o Ks!Promise!Batch(req, req.stream)]
  BY <1>2, <1>3, <1>7, Lands
<1>8. ASSUME its'.log = its.log
      PROVE  KeepsRows' /\ Ks!CurrentStreams' = Ks!CurrentStreams
  BY <1>2, <1>8, LogAlone
<1>9. KeepsRows'
  BY <1>4, <1>7, <1>8 DEF Ended, Kept
<1>10. \A s \in StreamIds : \/ its'.log[s] = its.log[s]
                          \/ \E more : IsLog(more) /\ its'.log[s] = its.log[s] \o more
  BY <1>4, <1>7 DEF Ended, Kept
<1>11. WriteSide' /\ (Awaited(job, parked, answer) \/ Detached(job))
  BY <1>1, <1>9, HeadRuns
<1>12. CASE Awaited(job, parked, answer)
  <2>1. PICK w \in Writers : Waited(its.writer, its'.writer, w, req, parked, answer)
    BY <1>1, <1>12 DEF Awaited
  <2>2. Ks!Owed' = Ks!Owed
    BY <1>12 DEF Awaited
  <2>3. /\ Ks!Promise!Running(w) /\ Ks!CurrentCallers[w].req = {req}
        /\ Ks!Promise!Ends(w, Told(parked, answer))
    BY <2>1, EndsFor
  <2>4. CASE its'.log = its.log /\ parked = FALSE /\ answer = "failed"
    <3>1. Ks!Promise!Fail(w)
      BY <1>8, <2>2, <2>3, <2>4 DEF Ks!Promise!Fail, Told
    <3>2. QED
      BY <1>10, <1>11, <3>1 DEF Ks!Promise!Next
  <2>5. CASE its'.log = its.log /\ parked = FALSE /\ answer = "declined" /\ Ks!decide_none(req)
    <3>1. Ks!Promise!Decline(w)
      BY <1>5, <1>8, <2>2, <2>3, <2>5 DEF Ks!Promise!Decline, Told
    <3>2. QED
      BY <1>10, <1>11, <3>1 DEF Ks!Promise!Next
  <2>6. CASE its'.log = its.log /\ parked = TRUE /\ ~Ks!decide_none(req) /\ ~Ks!AllValid(req)
    <3>1. Ks!Promise!Refuse(w)
      BY <1>5, <1>6, <1>8, <2>2, <2>3, <2>6 DEF Ks!Promise!Refuse, Told
    <3>2. QED
      BY <1>10, <1>11, <3>1 DEF Ks!Promise!Next
  <2>7. CASE parked = FALSE /\ answer = "kept" /\ Kept(req)
    <3>1. Ks!Promise!Keep(w)
      BY <1>5, <1>6, <1>7, <2>2, <2>3, <2>7 DEF Ks!Promise!Keep, Told, Kept
    <3>2. QED
      BY <1>10, <1>11, <3>1 DEF Ks!Promise!Next
  <2>8. QED
    BY <1>4, <2>4, <2>5, <2>6, <2>7 DEF Ended
<1>13. CASE Detached(job)
  <2>1. /\ req.op = "detach_append" /\ Ks!CurrentCallers' = Ks!CurrentCallers
        /\ Ks!Owed # << >> /\ Head(Ks!Owed) = req /\ Ks!Owed' = Tail(Ks!Owed)
    BY <1>1, <1>13 DEF Detached
  <2>2. CASE its'.log = its.log
    <3>1. Ks!Promise!Land
      BY <1>8, <2>1, <2>2 DEF Ks!Promise!Land
    <3>2. QED
      BY <1>10, <1>11, <3>1 DEF Ks!Promise!Next
  <2>3. CASE its'.log = Ks!Written(req)
    <3>1. Ks!Promise!Land
      BY <1>7, <2>1, <2>3 DEF Ks!Promise!Land
    <3>2. QED
      BY <1>10, <1>11, <3>1 DEF Ks!Promise!Next
  <2>4. QED
    BY <1>4, <2>2, <2>3 DEF Ended, Kept
<1>14. QED
  BY <1>11, <1>12, <1>13

\* A transaction, and one that fails.
OverWith(rest, job, req, parked, answer, log2) ==
    /\ parked \in BOOLEAN
    /\ its' = [rest EXCEPT !.writer = Ks!Went(job, parked, answer), !.log = log2]
    /\ \/ log2 = its.log /\ parked = FALSE /\ answer = "failed"
       \/ log2 = its.log /\ parked = FALSE /\ answer = "declined" /\ Ks!decide_none(req)
       \/ log2 = its.log /\ parked = TRUE /\ ~Ks!decide_none(req) /\ ~Ks!AllValid(req)
       \/ /\ parked = FALSE /\ answer = "kept" /\ ~Ks!decide_none(req) /\ Ks!AllValid(req)
          /\ log2 = Ks!Written(req)

\* A transaction, gone through or failed, is a step of the trait.
LEMMA MapTransaction ==
    ASSUME AsTheTraitSays, WriteSide, Ks!transaction \/ Ks!Fails
    PROVE  /\ WriteSide' /\ its'.reader = its.reader
           /\ \A s \in StreamIds : \/ its'.log[s] = its.log[s]
                                 \/ \E more : IsLog(more) /\ its'.log[s] = its.log[s] \o more
           /\ Ks!Promise!Next
<1>1. PICK q2, job, req : q2 = Tail(its.queue) /\ job = Head(its.queue) /\ req = job.req
  OBVIOUS
<1>2. PICK rest : rest = [its EXCEPT !.queue = q2]
  OBVIOUS
<1>3. its = [log |-> its.log, queue |-> its.queue, writer |-> its.writer, reader |-> its.reader,
            calls |-> its.calls]
  BY DEF WriteSide, KsShape
<1>4. rest = [log |-> its.log, queue |-> q2, writer |-> its.writer, reader |-> its.reader,
              calls |-> its.calls]
  BY <1>2, <1>3
<1>5. its.queue # << >>
  BY DEF Ks!transaction, Ks!Fails
<1>6. \E parked, answer, log2 : OverWith(rest, job, req, parked, answer, log2)
  <2>1. ASSUME NEW wr2, its' = [rest EXCEPT !.writer = wr2]
        PROVE  its' = [rest EXCEPT !.writer = wr2, !.log = its.log]
    <3>1. PICK one : one = [rest EXCEPT !.writer = wr2]
      OBVIOUS
    <3>2. one = [log |-> its.log, queue |-> q2, writer |-> wr2, reader |-> its.reader,
                 calls |-> its.calls]
      BY <1>4, <3>1
    <3>3. [one EXCEPT !.log = its.log] = one
      BY <3>2
    <3>4. [rest EXCEPT !.writer = wr2, !.log = its.log] = [one EXCEPT !.log = its.log]
      BY <3>1
    <3>5. QED
      BY <2>1, <3>1, <3>3, <3>4
  <2>2. CASE Ks!Fails
    <3>1. its' = [rest EXCEPT !.writer = Ks!Went(job, FALSE, "failed")]
      BY <1>1, <1>2, <2>2 DEF Ks!Fails
    <3>2. its' = [rest EXCEPT !.writer = Ks!Went(job, FALSE, "failed"), !.log = its.log]
      BY <2>1, <3>1
    <3>3. OverWith(rest, job, req, FALSE, "failed", its.log)
      BY <3>2 DEF OverWith
    <3>4. QED
      BY <3>3
  <2>3. CASE Ks!transaction
    <3>1. \/ /\ Ks!decide_none(req)
             /\ its' = [rest EXCEPT !.writer = Ks!Went(job, FALSE, "declined")]
          \/ /\ ~Ks!decide_none(req) /\ ~Ks!AllValid(req)
             /\ its' = [rest EXCEPT !.writer = Ks!Went(job, TRUE, "declined")]
          \/ /\ ~Ks!decide_none(req) /\ Ks!AllValid(req)
             /\ its' = [rest EXCEPT !.writer = Ks!Went(job, FALSE, "kept"), !.log = Ks!Written(req)]
      BY <1>1, <1>2, <2>3 DEF Ks!transaction
    <3>2. CASE Ks!decide_none(req) /\ its' = [rest EXCEPT !.writer = Ks!Went(job, FALSE, "declined")]
      <4>1. its' = [rest EXCEPT !.writer = Ks!Went(job, FALSE, "declined"), !.log = its.log]
        BY <2>1, <3>2
      <4>2. OverWith(rest, job, req, FALSE, "declined", its.log)
        BY <3>2, <4>1 DEF OverWith
      <4>3. QED
        BY <4>2
    <3>3. CASE /\ ~Ks!decide_none(req) /\ ~Ks!AllValid(req)
               /\ its' = [rest EXCEPT !.writer = Ks!Went(job, TRUE, "declined")]
      <4>1. its' = [rest EXCEPT !.writer = Ks!Went(job, TRUE, "declined"), !.log = its.log]
        BY <2>1, <3>3
      <4>2. OverWith(rest, job, req, TRUE, "declined", its.log)
        BY <3>3, <4>1 DEF OverWith
      <4>3. QED
        BY <4>2
    <3>4. CASE /\ ~Ks!decide_none(req) /\ Ks!AllValid(req)
               /\ its' = [rest EXCEPT !.writer = Ks!Went(job, FALSE, "kept"), !.log = Ks!Written(req)]
      <4>1. OverWith(rest, job, req, FALSE, "kept", Ks!Written(req))
        BY <3>4 DEF OverWith
      <4>2. QED
        BY <4>1
    <3>5. QED
      BY <3>1, <3>2, <3>3, <3>4
  <2>4. QED
    BY <2>2, <2>3
<1>7. PICK parked, answer, log2 : OverWith(rest, job, req, parked, answer, log2)
  BY <1>6
<1>8. PICK wr2 : wr2 = Through(its.writer, job.by, parked, answer)
  OBVIOUS
<1>9. its' = [log |-> log2, queue |-> q2, writer |-> wr2, reader |-> its.reader, calls |-> its.calls]
  <2>1. its' = [rest EXCEPT !.writer = wr2, !.log = log2]
    BY <1>7, <1>8, WentIs DEF OverWith
  <2>2. QED
    BY <1>4, <2>1, FieldsOfKs
<1>10. its'.log = log2 /\ its'.queue = q2 /\ its'.writer = wr2 /\ its'.reader = its.reader
  BY <1>9
<1>11. KsShape'
  <2>1. log2 = [s \in StreamIds |-> log2[s]]
    <3>1. its.log = [s \in StreamIds |-> its.log[s]]
      BY DEF WriteSide, KsShape
    <3>2. log2 = its.log \/ log2 = Ks!Written(req)
      BY <1>7 DEF OverWith
    <3>3. Ks!Written(req) = [s \in StreamIds |-> Ks!Written(req)[s]]
      BY WrittenIs
    <3>4. QED
      BY <3>1, <3>2, <3>3
  <2>2. wr2 = [w \in Writers |-> wr2[w]]
    BY <1>8 DEF Through
  <2>3. its.reader = [r \in Readers |-> its.reader[r]]
    BY DEF WriteSide, KsShape
  <2>4. QED
    BY <1>9, <1>10, <2>1, <2>2, <2>3 DEF KsShape
<1>12. RunsHead(parked, answer)
  BY <1>1, <1>5, <1>8, <1>10 DEF RunsHead
<1>13. Ended(Head(its.queue).req, parked, answer)
  BY <1>1, <1>7, <1>10 DEF Ended, Kept, OverWith
<1>14. parked \in BOOLEAN
  BY <1>7 DEF OverWith
<1>15. QED
  BY <1>10, <1>11, <1>12, <1>13, <1>14, OneStep

----------------------------------------------------------------------------
(* The readers of whole streams *)

\* The rows of a log from place b + 1 on, in the current shape and with their places.
AsRead(l, b, got) ==
    /\ b \in Nat /\ Len(got) \in Nat /\ Len(l) \in Nat /\ b + Len(got) <= Len(l)
    /\ got = [k \in 1..Len(got) |-> got[k]]
    /\ \A k \in 1..Len(got) : got[k] = [seq |-> b + k, row |-> Ks!upcast(l[b + k])]

\* A reader between two pages has read from the first row on; one that is through holds a run that
\* reaches where the log was when it began.
OnPage(me, l) ==
    /\ AsRead(l, 0, me.got) /\ me.had \in Nat /\ me.had <= Len(l)
    /\ me.from \in Nat
    /\ (me.from = 0 /\ Len(me.got) = 0) \/ me.from = Len(me.got) + 1
IsTold(me, l, b) ==
    /\ AsRead(l, b, me.got) /\ me.had \in Nat /\ me.had <= b + Len(me.got)
    /\ Len(me.got) = 0 => me.had = 0
    /\ me.form # "tail" => b = 0
    /\ me.form = "messages" => me.printed = Ks!messages_of(me.got)
HasFields(me) ==
    me = [at |-> me.at, form |-> me.form, stream |-> me.stream, from |-> me.from, had |-> me.had,
          got |-> me.got, printed |-> me.printed]
IsReader(me, log) ==
    /\ HasFields(me)
    /\ me.at = "page" => me.stream \in StreamIds /\ OnPage(me, log[me.stream])
    /\ me.at = "told" => me.stream \in StreamIds /\ \E b : IsTold(me, log[me.stream], b)
ReadSide == \A r \in Readers : IsReader(its.reader[r], its.log)

\* A log that has grown.
Grown(l, l2) ==
    /\ Len(l) \in Nat /\ Len(l2) \in Nat /\ Len(l) <= Len(l2)
    /\ \A k \in 1..Len(l) : l2[k] = l[k]

\* Appending to a log is growing.
LEMMA Grows ==
    ASSUME NEW l, IsLog(l), NEW l2, l2 = l \/ \E more : IsLog(more) /\ l2 = l \o more
    PROVE  Grown(l, l2)
<1>1. Len(l) \in Nat /\ l = [k \in 1..Len(l) |-> l[k]]
  BY DEF IsLog
<1>2. CASE l2 = l
  BY <1>1, <1>2 DEF Grown
<1>3. CASE \E more : IsLog(more) /\ l2 = l \o more
  <2>1. PICK more : IsLog(more) /\ l2 = l \o more
    BY <1>3
  <2>2. PICK m, n : m = Len(l) /\ n = Len(more)
    OBVIOUS
  <2>3. m \in Nat /\ n \in Nat /\ l = [k \in 1..m |-> l[k]] /\ more = [k \in 1..n |-> more[k]]
    BY <1>1, <2>1, <2>2 DEF IsLog
  <2>4. /\ l \o more = [k \in 1..m + n |-> IF k <= m THEN l[k] ELSE more[k - m]]
        /\ Len(l \o more) = m + n
    BY <2>3, Joined
  <2>5. PICK j : j = l \o more
    OBVIOUS
  <2>6. Len(j) = m + n /\ \A k \in 1..m + n : k <= m => j[k] = l[k]
    BY <2>4, <2>5
  <2>7. \A k \in 1..m : k \in 1..m + n /\ k <= m
    BY <2>3
  <2>8. \A k \in 1..m : j[k] = l[k]
    BY <2>6, <2>7
  <2>9. m <= m + n /\ m + n \in Nat
    BY <2>3
  <2>10. Grown(l, j)
    BY <2>2, <2>3, <2>6, <2>8, <2>9 DEF Grown
  <2>11. QED
    BY <2>1, <2>5, <2>10
<1>4. QED
  BY <1>2, <1>3

\* What was read is still there.
LEMMA StillRead ==
    ASSUME NEW l, NEW l2, Grown(l, l2), NEW b, NEW got, AsRead(l, b, got)
    PROVE  AsRead(l2, b, got)
<1>1. PICK n, m, m2 : n = Len(got) /\ m = Len(l) /\ m2 = Len(l2)
  OBVIOUS
<1>2. /\ b \in Nat /\ n \in Nat /\ m \in Nat /\ b + n <= m /\ got = [k \in 1..n |-> got[k]]
      /\ \A k \in 1..n : got[k] = [seq |-> b + k, row |-> Ks!upcast(l[b + k])]
  BY <1>1 DEF AsRead
<1>3. m2 \in Nat /\ m <= m2 /\ \A k \in 1..m : l2[k] = l[k]
  BY <1>1 DEF Grown
<1>4. \A k \in 1..n : b + k \in 1..m
  BY <1>2
<1>5. \A k \in 1..n : got[k] = [seq |-> b + k, row |-> Ks!upcast(l2[b + k])]
  BY <1>2, <1>3, <1>4
<1>6. b + n <= m2
  BY <1>2, <1>3
<1>7. QED
  BY <1>1, <1>2, <1>3, <1>5, <1>6 DEF AsRead

\* What holds of a reader still holds when the logs have grown.
LEMMA StillReader ==
    ASSUME NEW me, NEW log, NEW log2, IsReader(me, log),
           \A s \in StreamIds : Grown(log[s], log2[s])
    PROVE  IsReader(me, log2)
<1>1. CASE me.at = "page"
  <2>1. PICK l, l2 : l = log[me.stream] /\ l2 = log2[me.stream]
    OBVIOUS
  <2>2. me.stream \in StreamIds /\ OnPage(me, l) /\ Grown(l, l2)
    BY <1>1, <2>1 DEF IsReader
  <2>3. AsRead(l2, 0, me.got)
    BY <2>2, StillRead DEF OnPage
  <2>4. me.had \in Nat /\ Len(l) \in Nat /\ Len(l2) \in Nat /\ me.had <= Len(l) /\ Len(l) <= Len(l2)
    BY <2>2 DEF OnPage, Grown
  <2>5. me.had <= Len(l2)
    BY <2>4
  <2>6. OnPage(me, l2)
    BY <2>2, <2>3, <2>5 DEF OnPage
  <2>7. QED
    BY <1>1, <2>1, <2>2, <2>6 DEF IsReader
<1>2. CASE me.at = "told"
  <2>1. PICK l, l2 : l = log[me.stream] /\ l2 = log2[me.stream]
    OBVIOUS
  <2>2. me.stream \in StreamIds /\ Grown(l, l2)
    BY <1>2, <2>1 DEF IsReader
  <2>3. PICK b : IsTold(me, l, b)
    BY <1>2, <2>1 DEF IsReader
  <2>4. AsRead(l2, b, me.got)
    BY <2>2, <2>3, StillRead DEF IsTold
  <2>5. IsTold(me, l2, b)
    BY <2>3, <2>4 DEF IsTold
  <2>6. QED
    BY <1>2, <2>1, <2>2, <2>5 DEF IsReader
<1>3. CASE me.at # "page" /\ me.at # "told"
  BY <1>3 DEF IsReader
<1>4. QED
  BY <1>1, <1>2, <1>3

\* A step that writes nothing but to the ends of the logs leaves the readers what they have.
LEMMA ReadersStay ==
    ASSUME KeepsRows, ReadSide, its'.reader = its.reader,
           \A s \in StreamIds : \/ its'.log[s] = its.log[s]
                              \/ \E more : IsLog(more) /\ its'.log[s] = its.log[s] \o more
    PROVE  ReadSide'
<1>1. PICK log, log2 : log = its.log /\ log2 = its'.log
  OBVIOUS
<1>2. ASSUME NEW s \in StreamIds PROVE Grown(log[s], log2[s])
  <2>1. IsLog(log[s]) /\ (log2[s] = log[s] \/ \E more : IsLog(more) /\ log2[s] = log[s] \o more)
    BY <1>1 DEF KeepsRows
  <2>2. QED
    BY <2>1, Grows
<1>3. ASSUME NEW r \in Readers PROVE IsReader(its.reader[r], log2)
  <2>1. PICK me : me = its.reader[r]
    OBVIOUS
  <2>2. IsReader(me, log)
    BY <1>1, <2>1 DEF ReadSide
  <2>3. QED
    BY <1>2, <2>1, <2>2, StillReader
<1>4. QED
  BY <1>1, <1>3 DEF ReadSide

\* The reader's record when it begins, goes on to a page and is through.
Fresh(s, form, had) == [Ks!NoRead EXCEPT !.at = "page", !.form = form, !.stream = s, !.had = had]
ReadsFurther(me, from, got) == [me EXCEPT !.from = from, !.got = got]
Shows(me, got, printed) == [me EXCEPT !.at = "told", !.got = got, !.printed = printed]

\* The fields of a reader that begins.
LEMMA FreshIs ==
    ASSUME NEW s, NEW form, NEW had, NEW new, new = Fresh(s, form, had)
    PROVE  /\ HasFields(new) /\ new.at = "page" /\ new.form = form /\ new.stream = s
           /\ new.from = 0 /\ new.had = had /\ new.got = << >>
<1>1. PICK none, any : none = Ks!NoRead /\ any = CHOOSE t \in StreamIds : TRUE
  OBVIOUS
<1>2. none = [at |-> "idle", form |-> "events", stream |-> any, from |-> 0, had |-> 0,
              got |-> << >>, printed |-> << >>]
  BY <1>1 DEF Ks!NoRead
<1>3. PICK one : one = [none EXCEPT !.at = "page"]
  OBVIOUS
<1>4. one = [at |-> "page", form |-> "events", stream |-> any, from |-> 0, had |-> 0,
             got |-> << >>, printed |-> << >>]
  BY <1>2, <1>3
<1>5. PICK two : two = [one EXCEPT !.form = form]
  OBVIOUS
<1>6. two = [at |-> "page", form |-> form, stream |-> any, from |-> 0, had |-> 0,
             got |-> << >>, printed |-> << >>]
  BY <1>4, <1>5
<1>7. PICK three : three = [two EXCEPT !.stream = s]
  OBVIOUS
<1>8. three = [at |-> "page", form |-> form, stream |-> s, from |-> 0, had |-> 0,
               got |-> << >>, printed |-> << >>]
  BY <1>6, <1>7
<1>9. PICK last : last = [three EXCEPT !.had = had]
  OBVIOUS
<1>10. last = [at |-> "page", form |-> form, stream |-> s, from |-> 0, had |-> had,
               got |-> << >>, printed |-> << >>]
  BY <1>8, <1>9
<1>11. last = new
  BY <1>1, <1>3, <1>5, <1>7, <1>9 DEF Fresh
<1>12. HasFields(last)
  BY <1>10 DEF HasFields
<1>13. /\ last.at = "page" /\ last.form = form /\ last.stream = s
       /\ last.from = 0 /\ last.had = had /\ last.got = << >>
  BY <1>10
<1>14. QED
  BY <1>11, <1>12, <1>13

\* The fields of a reader that goes on to the next page.
LEMMA ReadsFurtherIs ==
    ASSUME NEW me, HasFields(me), NEW from, NEW got, NEW new, new = ReadsFurther(me, from, got)
    PROVE  /\ HasFields(new) /\ new.at = me.at /\ new.form = me.form /\ new.stream = me.stream
           /\ new.from = from /\ new.had = me.had /\ new.got = got
<1>1. PICK a, f, s, c, h, g, p :
        /\ a = me.at /\ f = me.form /\ s = me.stream /\ c = me.from /\ h = me.had
        /\ g = me.got /\ p = me.printed
  OBVIOUS
<1>2. me = [at |-> a, form |-> f, stream |-> s, from |-> c, had |-> h, got |-> g, printed |-> p]
  BY <1>1 DEF HasFields
<1>3. PICK one : one = [me EXCEPT !.from = from]
  OBVIOUS
<1>4. one = [at |-> a, form |-> f, stream |-> s, from |-> from, had |-> h, got |-> g, printed |-> p]
  BY <1>2, <1>3
<1>5. PICK last : last = [one EXCEPT !.got = got]
  OBVIOUS
<1>6. last = [at |-> a, form |-> f, stream |-> s, from |-> from, had |-> h, got |-> got,
              printed |-> p]
  BY <1>4, <1>5
<1>7. last = new
  BY <1>3, <1>5 DEF ReadsFurther
<1>8. HasFields(last)
  BY <1>6 DEF HasFields
<1>9. /\ last.at = a /\ last.form = f /\ last.stream = s /\ last.from = from /\ last.had = h
      /\ last.got = got
  BY <1>6
<1>10. QED
  BY <1>1, <1>7, <1>8, <1>9

\* The fields of a reader that is through.
LEMMA ShowsIs ==
    ASSUME NEW me, HasFields(me), NEW got, NEW printed, NEW new, new = Shows(me, got, printed)
    PROVE  /\ HasFields(new) /\ new.at = "told" /\ new.form = me.form /\ new.stream = me.stream
           /\ new.had = me.had /\ new.got = got /\ new.printed = printed
<1>1. PICK a, f, s, c, h, g, p :
        /\ a = me.at /\ f = me.form /\ s = me.stream /\ c = me.from /\ h = me.had
        /\ g = me.got /\ p = me.printed
  OBVIOUS
<1>2. me = [at |-> a, form |-> f, stream |-> s, from |-> c, had |-> h, got |-> g, printed |-> p]
  BY <1>1 DEF HasFields
<1>3. PICK one : one = [me EXCEPT !.at = "told"]
  OBVIOUS
<1>4. one = [at |-> "told", form |-> f, stream |-> s, from |-> c, had |-> h, got |-> g,
             printed |-> p]
  BY <1>2, <1>3
<1>5. PICK two : two = [one EXCEPT !.got = got]
  OBVIOUS
<1>6. two = [at |-> "told", form |-> f, stream |-> s, from |-> c, had |-> h, got |-> got,
             printed |-> p]
  BY <1>4, <1>5
<1>7. PICK last : last = [two EXCEPT !.printed = printed]
  OBVIOUS
<1>8. last = [at |-> "told", form |-> f, stream |-> s, from |-> c, had |-> h, got |-> got,
              printed |-> printed]
  BY <1>6, <1>7
<1>9. last = new
  BY <1>3, <1>5, <1>7 DEF Shows
<1>10. HasFields(last)
  BY <1>8 DEF HasFields
<1>11. /\ last.at = "told" /\ last.form = f /\ last.stream = s /\ last.had = h
       /\ last.got = got /\ last.printed = printed
  BY <1>8
<1>12. QED
  BY <1>1, <1>9, <1>10, <1>11

\* A page of the export is the rows from where the reader is on.
PageOf(l, first, limit) ==
    [k \in 1..Cut(Len(l) + 1 - first, limit) |->
        [seq |-> first + k - 1, row |-> Ks!upcast(l[first + k - 1])]]

\* A page of the log, upcast, is PageOf.
LEMMA PageIs ==
    ASSUME NEW l, IsLog(l), NEW s, l = its.log[s], NEW from \in Nat, NEW first \in Nat,
           first = FirstOf(from), first <= Len(l) + 1, NEW limit \in Nat
    PROVE  Ks!Upcasted(Ks!read_kinds(s, Ks!AllKinds, from, limit)) = PageOf(l, first, limit)
<1>1. PICK m, p : m = Cut(Len(l) + 1 - first, limit) /\ p = Ks!read_kinds(s, Ks!AllKinds, from, limit)
  OBVIOUS
<1>2. p = [k \in 1..m |-> [seq |-> first + k - 1, row |-> l[first + k - 1]]]
  <2>1. Ks!read_kinds(s, Ks!AllKinds, from, limit) = RowsFrom(l, first, limit)
    BY ReadsOn
  <2>2. QED
    BY <1>1, <2>1 DEF RowsFrom
<1>3. DOMAIN p = 1..m
  BY <1>2
<1>4. ASSUME NEW k \in 1..m
      PROVE  [p[k] EXCEPT !.row = Ks!upcast(p[k].row)]
               = [seq |-> first + k - 1, row |-> Ks!upcast(l[first + k - 1])]
  <2>1. PICK e, q, r : e = p[k] /\ q = first + k - 1 /\ r = l[first + k - 1]
    OBVIOUS
  <2>2. e = [seq |-> q, row |-> r]
    BY <1>2, <2>1
  <2>3. e.row = r
    BY <2>2
  <2>4. [e EXCEPT !.row = Ks!upcast(e.row)] = [seq |-> q, row |-> Ks!upcast(r)]
    BY <2>2, <2>3
  <2>5. QED
    BY <2>1, <2>4
<1>5. Ks!Upcasted(p) = [k \in 1..m |-> [p[k] EXCEPT !.row = Ks!upcast(p[k].row)]]
  BY <1>3 DEF Ks!Upcasted
<1>6. QED
  BY <1>1, <1>4, <1>5 DEF PageOf

\* A page joined to what the reader has: one that is not full is the last.
JoinedTo(me, page) == me.got \o page

\* A reader between pages has asked for the next one and joined it.
TakesPage(me, l, limit, page, got2) ==
    /\ IsLog(l) /\ OnPage(me, l) /\ limit \in Nat \ {0}
    /\ page = PageOf(l, FirstOf(me.from), limit)
    /\ got2 = JoinedTo(me, page)

\* It has then read from row 1 on, and a page that is not full ends the log.
HasJoined(me, l, limit, page, got2) ==
    /\ FirstOf(me.from) \in Nat /\ FirstOf(me.from) <= Len(l) + 1
    /\ AsRead(l, 0, got2) /\ Len(page) \in Nat
    /\ Len(page) < limit => Len(got2) = Len(l)
    /\ ~(Len(page) < limit) => page[Len(page)].seq + 1 = Len(got2) + 1 /\ me.from < Len(got2) + 1

\* A page read from the log joins what the reader has.
LEMMA PageJoins ==
    ASSUME NEW l, NEW me, NEW limit, NEW page, NEW got2, TakesPage(me, l, limit, page, got2)
    PROVE  HasJoined(me, l, limit, page, got2)
<1> /\ IsLog(l) /\ OnPage(me, l) /\ limit \in Nat \ {0}
    /\ page = PageOf(l, FirstOf(me.from), limit)
    /\ got2 = JoinedTo(me, page)
  BY DEF TakesPage
<1>1. PICK n, m, got, from, c : /\ n = Len(me.got) /\ m = Len(l) /\ got = me.got /\ from = me.from
                                /\ c = Cut(m - n, limit)
  OBVIOUS
<1>2. /\ n \in Nat /\ m \in Nat /\ n <= m /\ got = [k \in 1..n |-> got[k]]
      /\ \A k \in 1..n : got[k] = [seq |-> 0 + k, row |-> Ks!upcast(l[0 + k])]
      /\ from \in Nat /\ ((from = 0 /\ n = 0) \/ from = n + 1)
  BY <1>1 DEF OnPage, AsRead
<1>3. FirstOf(from) = n + 1
  BY <1>2 DEF FirstOf
<1>4. c \in Nat /\ c <= m - n /\ c <= limit /\ (c < limit => c = m - n)
  <2>1. PICK d : d = m - n
    OBVIOUS
  <2>2. d \in Nat /\ limit \in Nat
    BY <1>2, <2>1
  <2>3. c = IF d < limit THEN d ELSE limit
    BY <1>1, <2>1 DEF Cut
  <2>4. c \in Nat /\ c <= d /\ c <= limit /\ (c < limit => c = d)
    BY <2>2, <2>3
  <2>5. QED
    BY <2>1, <2>4
<1>5. m + 1 - (n + 1) = m - n
  BY <1>2
<1>6. page = [k \in 1..c |-> [seq |-> n + 1 + k - 1, row |-> Ks!upcast(l[n + 1 + k - 1])]]
  BY <1>1, <1>3, <1>5 DEF PageOf
<1>7. page = [k \in 1..c |-> page[k]]
  BY <1>6
<1>8. Len(page) = c
  BY <1>4, <1>7, ListFacts
<1>9. \A k \in 1..c : page[k] = [seq |-> n + k, row |-> Ks!upcast(l[n + k])]
  <2>1. \A k \in 1..c : n + 1 + k - 1 = n + k
    BY <1>2, <1>4
  <2>2. QED
    BY <1>6, <2>1
<1>10. PICK j : j = got \o page
  OBVIOUS
<1>11. j = [k \in 1..n + c |-> IF k <= n THEN got[k] ELSE page[k - n]] /\ Len(j) = n + c
  BY <1>2, <1>4, <1>7, <1>10, Joined
<1>12. j = [k \in 1..n + c |-> j[k]]
  BY <1>11
<1>13. ASSUME NEW k \in 1..n + c
       PROVE  j[k] = [seq |-> 0 + k, row |-> Ks!upcast(l[0 + k])]
  <2>1. CASE k <= n
    <3>1. k \in 1..n
      BY <1>2, <1>4, <2>1
    <3>2. j[k] = got[k]
      BY <1>11, <2>1
    <3>3. QED
      BY <1>2, <3>1, <3>2
  <2>2. CASE ~(k <= n)
    <3>1. k - n \in 1..c /\ n + (k - n) = 0 + k
      BY <1>2, <1>4, <2>2
    <3>2. j[k] = page[k - n]
      BY <1>11, <2>2
    <3>3. page[k - n] = [seq |-> n + (k - n), row |-> Ks!upcast(l[n + (k - n)])]
      BY <1>9, <3>1
    <3>4. QED
      BY <3>1, <3>2, <3>3
  <2>3. QED
    BY <2>1, <2>2
<1>14. AsRead(l, 0, j)
  <2>1. 0 \in Nat /\ n + c \in Nat /\ 0 + (n + c) <= m
    BY <1>2, <1>4
  <2>2. QED
    BY <1>1, <1>2, <1>11, <1>12, <1>13, <2>1 DEF AsRead
<1>15. ASSUME ~(c < limit)
       PROVE  page[c].seq + 1 = n + c + 1 /\ from < n + c + 1
  <2>1. c \in 1..c /\ c >= 1
    BY <1>4, <1>15
  <2>2. PICK e, q, u : e = page[c] /\ q = n + c /\ u = Ks!upcast(l[n + c])
    OBVIOUS
  <2>3. e = [seq |-> q, row |-> u]
    BY <1>9, <2>1, <2>2
  <2>4. e.seq = q
    BY <2>3
  <2>5. from < n + c + 1
    BY <1>2, <1>4, <2>1
  <2>6. QED
    BY <2>2, <2>4, <2>5
<1>16. c < limit => n + c = m
  BY <1>2, <1>4
<1>17. FirstOf(from) \in Nat /\ FirstOf(from) <= m + 1
  BY <1>2, <1>3
<1>18. j = got2
  BY <1>1, <1>10 DEF JoinedTo
<1>19. QED
  BY <1>1, <1>4, <1>8, <1>11, <1>14, <1>15, <1>16, <1>17, <1>18 DEF HasJoined

\* The last rows of a log in one read.
LastOf(l, n) == IF Len(l) < n THEN 0 ELSE Len(l) - n

\* They are a run that reaches the end of the log.
LEMMA TailIs ==
    ASSUME NEW s, IsLog(its.log[s]), NEW start, start = LastOf(its.log[s], 2), NEW got,
           got = Ks!Upcasted(SubSeq(Ks!Numbered(s), start + 1, Len(Ks!Numbered(s))))
    PROVE  /\ AsRead(its.log[s], start, got) /\ start + Len(got) = Len(its.log[s])
           /\ Len(got) = 0 => Len(its.log[s]) = 0
           /\ Len(Ks!Numbered(s)) = Len(its.log[s])
<1>1. PICK l, m, all : l = its.log[s] /\ m = Len(l) /\ all = Ks!Numbered(s)
  OBVIOUS
<1>2. m \in Nat /\ l = [k \in 1..m |-> l[k]] /\ DOMAIN l = 1..m
  BY <1>1 DEF IsLog
<1>3. all = [k \in 1..m |-> [seq |-> k, row |-> l[k]]]
  BY <1>1, <1>2 DEF Ks!Numbered
<1>4. all = [k \in 1..m |-> all[k]] /\ \A k \in 1..m : all[k] = [seq |-> k, row |-> l[k]]
  BY <1>3
<1>5. Len(all) = m
  BY <1>2, <1>4, ListFacts
<1>6. start \in Nat /\ start <= m /\ (m > 0 => start < m)
  BY <1>1, <1>2 DEF LastOf
<1>7. PICK i, c : i = start + 1 /\ c = m - start
  OBVIOUS
<1>8. i \in Nat /\ 1 <= i /\ i <= m + 1 /\ m <= m /\ c \in Nat /\ m + 1 - i = c
  BY <1>2, <1>6, <1>7
<1>9. PICK p : p = SubSeq(all, i, m)
  OBVIOUS
<1>10. p = [k \in 1..c |-> all[i + k - 1]]
  <2>1. SubSeq(all, i, m) = [k \in 1..m + 1 - i |-> all[i + k - 1]]
    <3>1. Slices(m, all, i, m)
      BY <1>2, <1>4, <1>8 DEF Slices
    <3>2. QED
      BY <3>1, SliceIs
  <2>2. QED
    BY <1>8, <1>9, <2>1
<1>11. DOMAIN p = 1..c
  BY <1>10
<1>12. ASSUME NEW k \in 1..c
       PROVE  [p[k] EXCEPT !.row = Ks!upcast(p[k].row)]
                = [seq |-> start + k, row |-> Ks!upcast(l[start + k])]
  <2>1. i + k - 1 = start + k /\ start + k \in 1..m
    BY <1>2, <1>6, <1>7
  <2>2. PICK e, q, r : e = p[k] /\ q = start + k /\ r = l[start + k]
    OBVIOUS
  <2>3. e = all[start + k]
    BY <1>10, <2>1, <2>2
  <2>4. e = [seq |-> q, row |-> r]
    BY <1>4, <2>1, <2>2, <2>3
  <2>5. e.row = r
    BY <2>4
  <2>6. [e EXCEPT !.row = Ks!upcast(e.row)] = [seq |-> q, row |-> Ks!upcast(r)]
    BY <2>4, <2>5
  <2>7. QED
    BY <2>2, <2>6
<1>13. PICK g : g = Ks!Upcasted(p)
  OBVIOUS
<1>14. g = [k \in 1..c |-> [p[k] EXCEPT !.row = Ks!upcast(p[k].row)]]
  BY <1>11, <1>13 DEF Ks!Upcasted
<1>15. g = [k \in 1..c |-> g[k]]
       /\ \A k \in 1..c : g[k] = [seq |-> start + k, row |-> Ks!upcast(l[start + k])]
  BY <1>12, <1>14
<1>16. Len(g) = c
  BY <1>8, <1>15, ListFacts
<1>17. AsRead(l, start, g)
  <2>1. start + c <= m
    BY <1>2, <1>6, <1>7
  <2>2. QED
    BY <1>1, <1>2, <1>6, <1>8, <1>15, <1>16, <2>1 DEF AsRead
<1>18. start + c = m /\ (c = 0 => m = 0)
  BY <1>2, <1>6, <1>7
<1>19. g = got
  BY <1>1, <1>5, <1>7, <1>9, <1>13
<1>20. QED
  BY <1>1, <1>5, <1>16, <1>17, <1>18, <1>19

\* A reader moves on: no step of the store.
LEMMA OneReader ==
    ASSUME WriteSide, ReadSide, NEW r \in Readers, NEW new, IsReader(new, its.log), NEW rd2,
           rd2 = [its.reader EXCEPT ![r] = new], NEW calls,
           its' = [log |-> its.log, queue |-> its.queue, writer |-> its.writer, reader |-> rd2,
                  calls |-> calls]
    PROVE  WriteSide' /\ ReadSide' /\ UNCHANGED Ks!Promise!vars
<1>1. PICK rd : rd = its.reader
  OBVIOUS
<1>2. rd = [t \in Readers |-> rd[t]]
  BY <1>1 DEF WriteSide, KsShape
<1>3. rd2 = [t \in Readers |-> rd2[t]] /\ rd2[r] = new /\ \A t \in Readers : t # r => rd2[t] = rd[t]
  BY <1>1, <1>2
<1>4. its'.log = its.log /\ its'.queue = its.queue /\ its'.writer = its.writer /\ its'.reader = rd2
  OBVIOUS
<1>5. KsShape'
  BY <1>3, <1>4 DEF WriteSide, KsShape
<1>6. \A t \in Readers : IsReader(rd2[t], its.log)
  BY <1>1, <1>3 DEF ReadSide
<1>7. ReadSide'
  BY <1>4, <1>6 DEF ReadSide
<1>8. QED
  BY <1>4, <1>5, <1>7, MapReader

\* A reader begins: the trait sees nothing of it.
LEMMA MapBegin ==
    ASSUME WriteSide, ReadSide, NEW r \in Readers, NEW s \in StreamIds, NEW form, Ks!Begin(r, s, form)
    PROVE  WriteSide' /\ ReadSide' /\ UNCHANGED Ks!Promise!vars
<1>1. PICK had, new, rd2 : /\ had = Len(its.log[s]) /\ new = Fresh(s, form, had)
                           /\ rd2 = [its.reader EXCEPT ![r] = new]
  OBVIOUS
<1>2. its' = [its EXCEPT !.calls = its.calls + 1, !.reader = rd2]
  BY <1>1 DEF Ks!Begin, Fresh, WriteSide, KsShape
<1>3. its' = [log |-> its.log, queue |-> its.queue, writer |-> its.writer, reader |-> rd2,
             calls |-> its.calls + 1]
  BY <1>2, FieldsOfKs DEF WriteSide, KsShape
<1>4. /\ HasFields(new) /\ new.at = "page" /\ new.form = form /\ new.stream = s
      /\ new.from = 0 /\ new.had = had /\ new.got = << >>
  BY <1>1, FreshIs
<1>5. had \in Nat /\ Len(its.log[s]) = had
  BY <1>1 DEF WriteSide, KeepsRows, IsLog
<1>6. AsRead(its.log[s], 0, << >>)
  <2>1. Len(<< >>) = 0 /\ << >> = [k \in 1..0 |-> << >>[k]]
    OBVIOUS
  <2>2. 0 \in Nat /\ 0 + 0 <= had /\ \A k \in 1..0 : FALSE
    BY <1>5
  <2>3. QED
    BY <1>5, <2>1, <2>2 DEF AsRead
<1>7. OnPage(new, its.log[s])
  BY <1>4, <1>5, <1>6 DEF OnPage
<1>8. IsReader(new, its.log)
  BY <1>4, <1>7 DEF IsReader
<1>9. PICK c : c = its.calls + 1
  OBVIOUS
<1>10. its' = [log |-> its.log, queue |-> its.queue, writer |-> its.writer, reader |-> rd2, calls |-> c]
  BY <1>3, <1>9
<1>11. QED
  BY <1>1, <1>8, <1>10, OneReader

\* A reader is done: the trait sees nothing of it.
LEMMA MapClose ==
    ASSUME WriteSide, ReadSide, NEW r \in Readers, Ks!Close(r)
    PROVE  WriteSide' /\ ReadSide' /\ UNCHANGED Ks!Promise!vars
<1>1. PICK new, rd2 : new = Ks!NoRead /\ rd2 = [its.reader EXCEPT ![r] = new]
  OBVIOUS
<1>2. its' = [its EXCEPT !.reader = rd2]
  BY <1>1 DEF Ks!Close
<1>3. its' = [log |-> its.log, queue |-> its.queue, writer |-> its.writer, reader |-> rd2,
             calls |-> its.calls]
  BY <1>2, FieldsOfKs DEF WriteSide, KsShape
<1>4. IsReader(new, its.log)
  <2>1. PICK any : any = CHOOSE t \in StreamIds : TRUE
    OBVIOUS
  <2>2. new = [at |-> "idle", form |-> "events", stream |-> any, from |-> 0, had |-> 0,
               got |-> << >>, printed |-> << >>]
    BY <1>1, <2>1 DEF Ks!NoRead
  <2>3. HasFields(new) /\ new.at = "idle"
    BY <2>2 DEF HasFields
  <2>4. QED
    BY <2>3 DEF IsReader
<1>5. PICK c : c = its.calls
  OBVIOUS
<1>6. its' = [log |-> its.log, queue |-> its.queue, writer |-> its.writer, reader |-> rd2, calls |-> c]
  BY <1>3, <1>5
<1>7. QED
  BY <1>1, <1>4, <1>6, OneReader

\* A reader that is through shows what it has, the messages as records.
Printed(me, got) == IF me.form = "messages" THEN Ks!messages_of(got) ELSE << >>

\* Shown is that record.
LEMMA ShownIs ==
    ASSUME NEW r, NEW me, me = its.reader[r], NEW got
    PROVE  Ks!Shown(r, got) = Shows(me, got, Printed(me, got))
BY DEF Ks!Shown, Shows, Printed

\* A reader that is through with a run of its log is what the invariant asks.
LEMMA ThroughWith ==
    ASSUME NEW log, NEW me, IsReader(me, log), me.stream \in StreamIds, NEW got, NEW b,
           AsRead(log[me.stream], b, got), me.had \in Nat, me.had <= b + Len(got),
           Len(got) = 0 => me.had = 0, me.form # "tail" => b = 0
    PROVE  IsReader(Shows(me, got, Printed(me, got)), log)
<1>1. PICK new, printed : printed = Printed(me, got) /\ new = Shows(me, got, printed)
  OBVIOUS
<1>2. HasFields(me)
  BY DEF IsReader
<1>3. /\ HasFields(new) /\ new.at = "told" /\ new.form = me.form /\ new.stream = me.stream
      /\ new.had = me.had /\ new.got = got /\ new.printed = printed
  BY <1>1, <1>2, ShowsIs
<1>4. new.form = "messages" => new.printed = Ks!messages_of(new.got)
  BY <1>1, <1>3 DEF Printed
<1>5. IsTold(new, log[me.stream], b)
  BY <1>3, <1>4 DEF IsTold
<1>6. IsReader(new, log)
  BY <1>3, <1>5 DEF IsReader
<1>7. QED
  BY <1>1, <1>6

\* A page of a whole read: the trait sees nothing of it.
LEMMA MapWhole ==
    ASSUME AsTheTraitSays, WriteSide, ReadSide, NEW r \in Readers,
           its.reader[r].form # "tail", Ks!read_whole(r)
    PROVE  WriteSide' /\ ReadSide' /\ UNCHANGED Ks!Promise!vars
<1>1. PICK me, log, l, page, got2, from :
        /\ me = its.reader[r] /\ log = its.log /\ l = log[me.stream] /\ from = me.from
        /\ page = Ks!Upcasted(Ks!read_kinds(me.stream, Ks!AllKinds, me.from, Page))
        /\ got2 = me.got \o page
  OBVIOUS
<1>2. IsReader(me, log) /\ me.at = "page" /\ me.form # "tail"
  BY <1>1 DEF ReadSide, Ks!read_whole
<1>3. me.stream \in StreamIds /\ OnPage(me, l) /\ HasFields(me)
  BY <1>1, <1>2 DEF IsReader
<1>4. IsLog(l)
  BY <1>1, <1>3 DEF WriteSide, KeepsRows
<1>5. Page \in Nat \ {0} /\ Page \in Nat /\ from \in Nat
  BY <1>1, <1>3 DEF AsTheTraitSays, OnPage
<1>6. PICK p2 : p2 = PageOf(l, FirstOf(me.from), Page)
  OBVIOUS
<1>7. PICK g2 : g2 = JoinedTo(me, p2)
  OBVIOUS
<1>8. /\ FirstOf(me.from) \in Nat /\ FirstOf(me.from) <= Len(l) + 1
      /\ AsRead(l, 0, g2) /\ Len(p2) \in Nat
      /\ Len(p2) < Page => Len(g2) = Len(l)
      /\ ~(Len(p2) < Page) => p2[Len(p2)].seq + 1 = Len(g2) + 1 /\ me.from < Len(g2) + 1
  <2>1. TakesPage(me, l, Page, p2, g2)
    BY <1>3, <1>4, <1>5, <1>6, <1>7 DEF TakesPage
  <2>2. HasJoined(me, l, Page, p2, g2)
    BY <2>1, PageJoins
  <2>3. QED
    BY <2>2 DEF HasJoined
<1>9. page = p2
  <2>1. PICK first, s : first = FirstOf(me.from) /\ s = me.stream
    OBVIOUS
  <2>2. first \in Nat /\ first <= Len(l) + 1 /\ first = FirstOf(from) /\ l = its.log[s]
    BY <1>1, <1>8, <2>1
  <2>3. Ks!Upcasted(Ks!read_kinds(s, Ks!AllKinds, from, Page)) = PageOf(l, first, Page)
    BY <1>4, <1>5, <2>2, PageIs
  <2>4. QED
    BY <1>1, <1>6, <2>1, <2>3
<1>10. got2 = g2
  BY <1>1, <1>7, <1>9 DEF JoinedTo
<1>11. PICK new : new = IF Len(page) < Page \/ Ks!next(page) <= me.from THEN Ks!Shown(r, got2)
                        ELSE [me EXCEPT !.from = Ks!next(page), !.got = got2]
  OBVIOUS
<1>12. its' = [its EXCEPT !.reader[r] = new]
  BY <1>1, <1>11 DEF Ks!read_whole
<1>13. PICK rd2 : rd2 = [its.reader EXCEPT ![r] = new]
  OBVIOUS
<1>14. its' = [its EXCEPT !.reader = rd2]
  BY <1>12, <1>13
<1>15. its' = [log |-> its.log, queue |-> its.queue, writer |-> its.writer, reader |-> rd2,
              calls |-> its.calls]
  BY <1>14, FieldsOfKs DEF WriteSide, KsShape
<1>16. IsReader(new, log)
  <2>1. CASE Len(page) < Page
    <3>1. new = Shows(me, got2, Printed(me, got2))
      BY <1>1, <1>11, <2>1, ShownIs
    <3>2. AsRead(l, 0, got2) /\ Len(got2) = Len(l)
      BY <1>8, <1>9, <1>10, <2>1
    <3>3. /\ me.had \in Nat /\ me.had <= 0 + Len(got2) /\ (Len(got2) = 0 => me.had = 0)
          /\ Len(got2) \in Nat
      <4>1. me.had \in Nat /\ me.had <= Len(l) /\ Len(l) \in Nat
        BY <1>3 DEF OnPage, AsRead
      <4>2. QED
        BY <3>2, <4>1
    <3>4. IsReader(Shows(me, got2, Printed(me, got2)), log)
      BY <1>1, <1>2, <1>3, <3>2, <3>3, ThroughWith
    <3>5. QED
      BY <3>1, <3>4
  <2>2. CASE ~(Len(page) < Page)
    <3>1. Ks!next(page) = Len(got2) + 1 /\ from < Len(got2) + 1 /\ AsRead(l, 0, got2)
      BY <1>1, <1>8, <1>9, <1>10, <2>2 DEF Ks!next
    <3>2. Len(got2) \in Nat
      BY <3>1 DEF AsRead
    <3>3. ~(Ks!next(page) <= me.from)
      <4>1. PICK x, y : x = Ks!next(page) /\ y = Len(got2)
        OBVIOUS
      <4>2. x = y + 1 /\ from < y + 1 /\ from \in Nat /\ y \in Nat
        BY <1>5, <3>1, <3>2, <4>1
      <4>3. ~(x <= from)
        BY <4>2
      <4>4. QED
        BY <1>1, <4>1, <4>3
    <3>4. PICK on : on = Len(got2) + 1
      OBVIOUS
    <3>5. new = ReadsFurther(me, on, got2)
      BY <1>11, <2>2, <3>1, <3>3, <3>4 DEF ReadsFurther
    <3>6. /\ HasFields(new) /\ new.at = me.at /\ new.form = me.form /\ new.stream = me.stream
          /\ new.from = on /\ new.had = me.had /\ new.got = got2
      BY <1>3, <3>5, ReadsFurtherIs
    <3>7. on \in Nat
      BY <3>2, <3>4
    <3>8. OnPage(new, l)
      BY <1>3, <3>1, <3>4, <3>6, <3>7 DEF OnPage
    <3>9. QED
      BY <1>1, <1>2, <1>3, <3>6, <3>8 DEF IsReader
  <2>3. QED
    BY <2>1, <2>2
<1>17. PICK c : c = its.calls
  OBVIOUS
<1>18. its' = [log |-> its.log, queue |-> its.queue, writer |-> its.writer, reader |-> rd2, calls |-> c]
  BY <1>15, <1>17
<1>19. IsReader(new, its.log)
  BY <1>1, <1>16
<1>20. QED
  BY <1>13, <1>18, <1>19, OneReader

\* The read of the last rows: the trait sees nothing of it.
LEMMA MapLast ==
    ASSUME WriteSide, ReadSide, NEW r \in Readers, Ks!read_last(r, 2)
    PROVE  WriteSide' /\ ReadSide' /\ UNCHANGED Ks!Promise!vars
<1>1. PICK me, log, s, l, start, got :
        /\ me = its.reader[r] /\ log = its.log /\ s = me.stream /\ l = log[s]
        /\ start = LastOf(its.log[s], 2)
        /\ got = Ks!Upcasted(SubSeq(Ks!Numbered(s), start + 1, Len(Ks!Numbered(s))))
  OBVIOUS
<1>2. IsReader(me, log) /\ me.at = "page" /\ me.form = "tail"
  BY <1>1 DEF ReadSide, Ks!read_last
<1>3. s \in StreamIds /\ OnPage(me, l)
  BY <1>1, <1>2 DEF IsReader
<1>4. IsLog(its.log[s])
  BY <1>3 DEF WriteSide, KeepsRows
<1>5. start = LastOf(its.log[s], 2)
      /\ got = Ks!Upcasted(SubSeq(Ks!Numbered(s), start + 1, Len(Ks!Numbered(s))))
  BY <1>1
<1>6. /\ AsRead(its.log[s], start, got) /\ start + Len(got) = Len(its.log[s])
      /\ Len(got) = 0 => Len(its.log[s]) = 0
      /\ Len(Ks!Numbered(s)) = Len(its.log[s])
  BY <1>4, <1>5, TailIs
<1>7. PICK new, rd2 : new = Ks!Shown(r, got) /\ rd2 = [its.reader EXCEPT ![r] = new]
  OBVIOUS
<1>8. its' = [its EXCEPT !.reader = rd2]
  <2>1. start = IF Len(Ks!Numbered(s)) < 2 THEN 0 ELSE Len(Ks!Numbered(s)) - 2
    BY <1>5, <1>6 DEF LastOf
  <2>2. QED
    BY <1>1, <1>7, <2>1 DEF Ks!read_last
<1>9. its' = [log |-> its.log, queue |-> its.queue, writer |-> its.writer, reader |-> rd2,
             calls |-> its.calls]
  BY <1>8, FieldsOfKs DEF WriteSide, KsShape
<1>10. new = Shows(me, got, Printed(me, got))
  <2>1. me = its.reader[r]
    BY <1>1
  <2>2. Ks!Shown(r, got) = Shows(me, got, Printed(me, got))
    BY <2>1, ShownIs
  <2>3. QED
    BY <1>7, <2>2
<1>11. AsRead(l, start, got) /\ start + Len(got) = Len(l) /\ (Len(got) = 0 => Len(l) = 0)
  BY <1>1, <1>6
<1>12. /\ me.had \in Nat /\ me.had <= start + Len(got) /\ (Len(got) = 0 => me.had = 0)
  <2>1. me.had \in Nat /\ me.had <= Len(l) /\ Len(l) \in Nat
    BY <1>3 DEF OnPage, AsRead
  <2>2. QED
    BY <1>11, <2>1
<1>13. IsReader(Shows(me, got, Printed(me, got)), log)
  BY <1>1, <1>2, <1>3, <1>11, <1>12, ThroughWith
<1>14. IsReader(new, its.log)
  BY <1>1, <1>10, <1>13
<1>15. PICK c : c = its.calls
  OBVIOUS
<1>16. its' = [log |-> its.log, queue |-> its.queue, writer |-> its.writer, reader |-> rd2, calls |-> c]
  BY <1>9, <1>15
<1>17. QED
  BY <1>7, <1>14, <1>16, OneReader

\* The conversation that is printed is every message of what was read.
TalkIn(got) == {k \in DOMAIN got : got[k].row.kind = "msg_user"}
AllPrinted(l, got, printed) ==
    [k \in DOMAIN printed |-> printed[k].seq]
      = Ks!Ascending(Len(got), {k \in DOMAIN got : l[k].kind = "msg_user"})

\* The places of the messages printed are those of the messages in the log.
LEMMA PrintsAll ==
    ASSUME NEW l, IsLog(l), NEW got, AsRead(l, 0, got), NEW printed, printed = Ks!messages_of(got)
    PROVE  AllPrinted(l, got, printed)
<1>1. PICK n, T, U, talk : /\ n = Len(got) /\ T = TalkIn(got)
                           /\ U = {k \in DOMAIN got : l[k].kind = "msg_user"}
                           /\ talk = Ks!Ascending(n, T)
  OBVIOUS
<1>2. /\ n \in Nat /\ got = [k \in 1..n |-> got[k]] /\ n <= Len(l) /\ Len(l) \in Nat
      /\ \A k \in 1..n : got[k] = [seq |-> 0 + k, row |-> Ks!upcast(l[0 + k])]
  BY <1>1 DEF AsRead
<1>3. ASSUME NEW k \in 1..n
      PROVE  got[k].seq = k /\ got[k].row.kind = l[k].kind
  <2>1. 0 + k = k /\ k \in 1..Len(l)
    BY <1>2
  <2>2. PICK e, u : e = got[k] /\ u = Ks!upcast(l[k])
    OBVIOUS
  <2>3. e = [seq |-> k, row |-> u]
    BY <1>2, <2>1, <2>2
  <2>4. e.seq = k /\ e.row = u
    BY <2>3
  <2>5. IsRow(l[k])
    BY <2>1 DEF IsLog
  <2>6. u.kind = l[k].kind
    BY <2>2, <2>5, Upcasts
  <2>7. QED
    BY <2>2, <2>4, <2>6
<1>4. DOMAIN got = 1..n
  BY <1>2
<1>5. \A k \in 1..n : k \in T <=> k \in U
  BY <1>1, <1>3, <1>4 DEF TalkIn
<1>6. Ks!Ascending(n, T) = Ks!Ascending(n, U)
  BY <1>2, <1>5, SameMembers
<1>7. Ordered(talk, n, T)
  BY <1>1, <1>2, AscendingIsOrdered
<1>8. PICK m : m = Len(talk)
  OBVIOUS
<1>9. m \in Nat /\ talk = [j \in 1..m |-> talk[j]] /\ \A j \in 1..m : talk[j] \in 1..n
  BY <1>7, <1>8 DEF Ordered
<1>10. printed = [k \in 1..m |-> Ks!message_of(got[talk[k]])]
  <2>1. DOMAIN talk = 1..m
    BY <1>9
  <2>2. printed = [k \in DOMAIN talk |-> Ks!message_of(got[talk[k]])]
    BY <1>1 DEF Ks!messages_of, TalkIn
  <2>3. QED
    BY <2>1, <2>2
<1>11. DOMAIN printed = 1..m
  BY <1>10
<1>12. ASSUME NEW k \in 1..m PROVE printed[k].seq = talk[k]
  <2>1. PICK e, p : e = got[talk[k]] /\ p = printed[k]
    OBVIOUS
  <2>2. e.seq = talk[k]
    BY <1>3, <1>9, <2>1
  <2>3. p = [seq |-> e.seq, beat |-> e.row.beat]
    BY <1>10, <2>1 DEF Ks!message_of
  <2>4. p.seq = e.seq
    BY <2>3
  <2>5. QED
    BY <2>1, <2>2, <2>4
<1>13. [k \in DOMAIN printed |-> printed[k].seq] = talk
  BY <1>9, <1>11, <1>12
<1>14. QED
  BY <1>1, <1>6, <1>13 DEF AllPrinted

\* What a reader has when it is through is whole.
LEMMA WholeNow ==
    ASSUME WriteSide, ReadSide
    PROVE  Ks!ExportWhole
<1>1. SUFFICES ASSUME NEW r \in Readers, its.reader[r].at = "told"
               PROVE  LET me == its.reader[r]
                          stored == its.log[me.stream]
                      IN  /\ \A k \in DOMAIN me.got :
                                /\ me.got[k].seq = me.got[1].seq + k - 1
                                /\ me.got[k].row.ver = 2
                                /\ me.got[k].row.kind = stored[me.got[k].seq].kind
                                /\ me.got[k].row.beat = Ks!Current(stored[me.got[k].seq]).beat
                          /\ me.got = << >> => me.had = 0
                          /\ me.got # << >> => /\ me.got[Len(me.got)].seq >= me.had
                                               /\ me.form # "tail" => me.got[1].seq = 1
                          /\ me.form = "messages" =>
                                [k \in DOMAIN me.printed |-> me.printed[k].seq]
                                  = Ks!Ascending(Len(me.got),
                                        {k \in DOMAIN me.got : stored[k].kind = "msg_user"})
  BY DEF Ks!ExportWhole
<1>2. PICK me, l, got, n : me = its.reader[r] /\ l = its.log[me.stream] /\ got = me.got /\ n = Len(got)
  OBVIOUS
<1>3. me.stream \in StreamIds /\ \E b : IsTold(me, l, b)
  BY <1>1, <1>2 DEF ReadSide, IsReader
<1>4. PICK b : IsTold(me, l, b)
  BY <1>3
<1>5. IsLog(l)
  BY <1>2, <1>3 DEF WriteSide, KeepsRows
<1>6. /\ b \in Nat /\ n \in Nat /\ Len(l) \in Nat /\ b + n <= Len(l) /\ got = [k \in 1..n |-> got[k]]
      /\ \A k \in 1..n : got[k] = [seq |-> b + k, row |-> Ks!upcast(l[b + k])]
      /\ me.had \in Nat /\ me.had <= b + n /\ (n = 0 => me.had = 0) /\ (me.form # "tail" => b = 0)
      /\ AsRead(l, b, got) /\ (me.form = "messages" => me.printed = Ks!messages_of(got))
  BY <1>2, <1>4 DEF IsTold, AsRead
<1>7. ASSUME NEW k \in 1..n
      PROVE  /\ got[k].seq = b + k /\ got[k].row.ver = 2
             /\ got[k].row.kind = l[b + k].kind /\ got[k].row.beat = Ks!Current(l[b + k]).beat
  <2>1. b + k \in 1..Len(l)
    BY <1>6
  <2>2. PICK e, q, row, u : e = got[k] /\ q = b + k /\ row = l[b + k] /\ u = Ks!upcast(row)
    OBVIOUS
  <2>3. e = [seq |-> q, row |-> u]
    BY <1>6, <2>2
  <2>4. e.seq = q /\ e.row = u
    BY <2>3
  <2>5. IsRow(row)
    BY <1>5, <2>1, <2>2 DEF IsLog
  <2>6. u.kind = row.kind /\ u.ver = 2 /\ u.beat = Ks!Current(row).beat
    BY <2>2, <2>5, Upcasts
  <2>7. QED
    BY <2>2, <2>4, <2>6
<1>8. DOMAIN got = 1..n /\ (got = << >> <=> n = 0)
  BY <1>6, ListFacts
<1>9. ASSUME NEW k \in 1..n
      PROVE  got[k].seq = got[1].seq + k - 1
  <2>1. 1 \in 1..n
    BY <1>6
  <2>2. got[k].seq = b + k /\ got[1].seq = b + 1
    BY <1>7, <2>1
  <2>3. b + k = b + 1 + k - 1
    BY <1>6
  <2>4. QED
    BY <2>2, <2>3
<1>10. ASSUME n # 0
       PROVE  got[n].seq >= me.had /\ (me.form # "tail" => got[1].seq = 1)
  <2>1. n \in 1..n /\ 1 \in 1..n
    BY <1>6, <1>10
  <2>2. got[n].seq = b + n /\ got[1].seq = b + 1
    BY <1>7, <2>1
  <2>3. PICK last, first, had : last = got[n].seq /\ first = got[1].seq /\ had = me.had
    OBVIOUS
  <2>4. b \in Nat /\ n \in Nat /\ had \in Nat /\ had <= b + n /\ (me.form # "tail" => b = 0)
    BY <1>6, <2>3
  <2>5. last >= had /\ (me.form # "tail" => first = 1)
    BY <2>2, <2>3, <2>4
  <2>6. QED
    BY <2>3, <2>5
<1>11. ASSUME me.form = "messages"
       PROVE  [k \in DOMAIN me.printed |-> me.printed[k].seq]
                = Ks!Ascending(n, {k \in DOMAIN got : l[k].kind = "msg_user"})
  <2>1. PICK printed : printed = me.printed
    OBVIOUS
  <2>2. AsRead(l, 0, got) /\ printed = Ks!messages_of(got)
    BY <1>6, <1>11, <2>1
  <2>3. AllPrinted(l, got, printed)
    BY <1>5, <2>2, PrintsAll
  <2>4. QED
    BY <1>2, <2>1, <2>3 DEF AllPrinted
<1>12. \A k \in DOMAIN got :
            /\ got[k].seq = got[1].seq + k - 1
            /\ got[k].row.ver = 2
            /\ got[k].row.kind = l[got[k].seq].kind
            /\ got[k].row.beat = Ks!Current(l[got[k].seq]).beat
  BY <1>7, <1>8, <1>9
<1>13. got = << >> => me.had = 0
  BY <1>6, <1>8
<1>14. got # << >> => got[n].seq >= me.had /\ (me.form # "tail" => got[1].seq = 1)
  BY <1>8, <1>10
<1>15. QED
  BY <1>2, <1>11, <1>12, <1>13, <1>14

----------------------------------------------------------------------------
(* Every step *)

\* The store's inductive invariant.
KsInv == WriteSide /\ ReadSide

\* The invariant holds at the start, which is a start of the trait's.
LEMMA KsInit ==
    ASSUME AsTheTraitSays, Ks!Init
    PROVE  KsInv /\ Ks!Promise!Init
<1>1. PICK log \in Logs :
        its = [log |-> log, queue |-> << >>, writer |-> [w \in Writers |-> Ks!NoCall],
              reader |-> [r \in Readers |-> Ks!NoRead], calls |-> 0]
  BY DEF Ks!Init
<1>2. /\ its.log = log /\ its.queue = << >> /\ its.writer = [w \in Writers |-> Ks!NoCall]
      /\ its.reader = [r \in Readers |-> Ks!NoRead] /\ its.calls = 0
  BY <1>1
<1>3. log = [s \in StreamIds |-> log[s]] /\ \A s \in StreamIds : IsLog(log[s])
  BY DEF AsTheTraitSays
<1>4. KsShape
  BY <1>1, <1>2, <1>3 DEF KsShape
<1>5. KeepsRows
  BY <1>2, <1>3 DEF KeepsRows
<1>6. IsWriter(Ks!NoCall) /\ Ks!Status(Ks!NoCall) = [at |-> "idle", req |-> {}, outcome |-> "none yet"]
  <2>1. PICK me : me = Ks!NoCall
    OBVIOUS
  <2>2. me = [at |-> "idle", req |-> {}, parked |-> FALSE, answer |-> "none yet"]
    BY <2>1 DEF Ks!NoCall
  <2>3. me.at = "idle" /\ me.req = {} /\ me.answer = "none yet"
    BY <2>2
  <2>4. IsWriter(me)
    BY <2>2 DEF IsWriter
  <2>5. Ks!Status(me) = [at |-> "idle", req |-> {}, outcome |-> "none yet"]
    BY <2>3, StatusIs
  <2>6. QED
    BY <2>1, <2>4, <2>5
<1>7. Len(<< >>) = 0 /\ << >> = [k \in 1..0 |-> << >>[k]]
  OBVIOUS
<1>8. IsQueue(its.queue, its.writer)
  <2>1. \A k \in 1..0 : FALSE
    OBVIOUS
  <2>2. QED
    BY <1>2, <1>7, <2>1 DEF IsQueue
<1>9. WriteSide
  BY <1>2, <1>4, <1>5, <1>6, <1>8 DEF WriteSide
<1>10. ReadSide
  <2>1. PICK none, any : none = Ks!NoRead /\ any = CHOOSE t \in StreamIds : TRUE
    OBVIOUS
  <2>2. none = [at |-> "idle", form |-> "events", stream |-> any, from |-> 0, had |-> 0,
                got |-> << >>, printed |-> << >>]
    BY <2>1 DEF Ks!NoRead
  <2>3. HasFields(none) /\ none.at = "idle"
    BY <2>2 DEF HasFields
  <2>4. IsReader(none, log)
    BY <2>3 DEF IsReader
  <2>5. QED
    BY <1>2, <2>1, <2>4 DEF ReadSide
<1>11. Ks!CurrentCallers = [w \in Writers |-> [at |-> "idle", req |-> {}, outcome |-> "none yet"]]
  BY <1>2, <1>6, SeenNow DEF Callers
<1>12. Ks!Owed = << >>
  <2>1. PICK a, x : a = Waits(<< >>) /\ x = OwedOf(<< >>)
    OBVIOUS
  <2>2. /\ Ordered(Waits(<< >>), 0, Unasked(<< >>))
        /\ Len(OwedOf(<< >>)) = Len(Waits(<< >>))
        /\ OwedOf(<< >>) = [k \in 1..Len(Waits(<< >>)) |-> OwedOf(<< >>)[k]]
    BY <1>7, OwedIsAList
  <2>3. Len(a) = 0
    <3>1. Len(a) <= 0 /\ Len(a) \in Nat
      BY <2>1, <2>2, OrderedFits DEF Ordered
    <3>2. QED
      BY <3>1
  <2>4. x = [k \in 1..0 |-> x[k]]
    BY <2>1, <2>2, <2>3
  <2>5. x = << >>
    BY <2>4, ListFacts
  <2>6. QED
    BY <1>2, <2>1, <2>5, SeenNow
<1>13. QED
  BY <1>9, <1>10, <1>11, <1>12 DEF KsInv, Ks!Promise!Init

\* A step of the store is a step the trait allows, or none.
LEMMA KsStep ==
    ASSUME AsTheTraitSays, KsInv, Ks!Next
    PROVE  KsInv' /\ (Ks!Promise!Next \/ UNCHANGED Ks!Promise!vars)
<1>1. WriteSide /\ ReadSide /\ KeepsRows
  BY DEF KsInv, WriteSide
<1>2. ASSUME its'.log = its.log, its'.reader = its.reader
      PROVE  ReadSide'
  BY <1>1, <1>2, ReadersStay
<1>3. ASSUME NEW w \in Writers, NEW req \in Requests, Ks!Free(w, req), Ks!Submit(w, req)
      PROVE  KsInv' /\ Ks!Promise!Next
  <2>1. its.writer[w].at = "idle"
    BY <1>3 DEF Ks!Free
  <2>2. WriteSide' /\ Ks!Promise!Call(w) /\ its'.log = its.log /\ its'.reader = its.reader
    BY <1>1, <1>3, <2>1, MapSubmit
  <2>3. QED
    BY <1>2, <2>2 DEF KsInv, Ks!Promise!Next
<1>4. ASSUME NEW w \in Writers, Ks!Return(w)
      PROVE  KsInv' /\ Ks!Promise!Next
  <2>1. WriteSide' /\ Ks!Promise!Told(w) /\ its'.log = its.log /\ its'.reader = its.reader
    BY <1>1, <1>4, MapReturn
  <2>2. QED
    BY <1>2, <2>1 DEF KsInv, Ks!Promise!Next
<1>5. ASSUME NEW w \in Writers, NEW req \in Requests, Ks!append_many(w, req)
      PROVE  KsInv' /\ Ks!Promise!Next
  <2>1. Ks!Free(w, req)
    BY <1>5 DEF Ks!append_many
  <2>2. CASE Ks!Submit(w, req)
    BY <1>3, <2>1, <2>2
  <2>3. CASE ~Ks!AllValid(req) /\ Parks(w, req)
    <3>1. its.writer[w].at = "idle"
      BY <2>1 DEF Ks!Free
    <3>2. WriteSide' /\ Ks!Promise!RefuseAtOnce(w) /\ its'.log = its.log /\ its'.reader = its.reader
      BY <1>1, <2>3, <3>1, MapAtOnce
    <3>3. QED
      BY <1>2, <3>2 DEF KsInv, Ks!Promise!Next
  <2>4. QED
    BY <1>5, <2>2, <2>3 DEF Ks!append_many, Parks, IsOver
<1>6. ASSUME NEW w \in Writers, NEW req \in Requests, Ks!detach_append(w, req)
      PROVE  KsInv' /\ (Ks!Promise!Next \/ UNCHANGED Ks!Promise!vars)
  <2>1. /\ WriteSide' /\ its'.log = its.log /\ its'.reader = its.reader
        /\ Ks!Promise!Detach(w) \/ UNCHANGED Ks!Promise!vars
    BY <1>1, <1>6, MapDetach
  <2>2. QED
    BY <1>2, <2>1 DEF KsInv, Ks!Promise!Next
<1>7. ASSUME Ks!transaction \/ Ks!Fails
      PROVE  KsInv' /\ Ks!Promise!Next
  <2>1. /\ WriteSide' /\ its'.reader = its.reader
        /\ \A s \in StreamIds : \/ its'.log[s] = its.log[s]
                              \/ \E more : IsLog(more) /\ its'.log[s] = its.log[s] \o more
        /\ Ks!Promise!Next
    BY <1>1, <1>7, MapTransaction
  <2>2. ReadSide'
    BY <1>1, <2>1, ReadersStay
  <2>3. QED
    BY <2>1, <2>2 DEF KsInv
<1>8. ASSUME NEW r \in Readers,
             \/ (its.reader[r].form # "tail" /\ Ks!read_whole(r))
             \/ Ks!read_last(r, 2) \/ Ks!Close(r)
             \/ \E s \in StreamIds, form \in {"events", "messages", "tail"} : Ks!Begin(r, s, form)
      PROVE  KsInv' /\ UNCHANGED Ks!Promise!vars
  BY <1>1, <1>8, MapWhole, MapLast, MapClose, MapBegin DEF KsInv
<1>9. ASSUME NEW w \in Writers, NEW req \in Requests,
             \/ Ks!append(w, req) \/ Ks!append_if(w, req) \/ Ks!append_if_many(w, req)
             \/ Ks!append_with_open_children(w, req)
      PROVE  KsInv' /\ Ks!Promise!Next
  BY <1>3, <1>5, <1>9 DEF Ks!append, Ks!append_if, Ks!append_if_many, Ks!append_with_open_children
<1>10. QED
  BY <1>4, <1>5, <1>6, <1>7, <1>8, <1>9 DEF Ks!Next

\* A step that changes nothing.
LEMMA KsStays ==
    ASSUME KsInv, its' = its
    PROVE  KsInv' /\ UNCHANGED Ks!Promise!vars
<1>1. KsShape' /\ its'.log = its.log /\ its'.queue = its.queue /\ its'.writer = its.writer
  BY DEF KsInv, WriteSide, KsShape
<1>2. WriteSide' /\ UNCHANGED Ks!Promise!vars
  BY <1>1, MapReader DEF KsInv
<1>3. ReadSide'
  BY DEF KsInv, ReadSide
<1>4. QED
  BY <1>2, <1>3 DEF KsInv

\* The SQLite store keeps the promise of the trait EventStore for any streams, writers, readers,
\* requests, logs and page size: it starts as the abstract store does and each of its steps is one
\* of the abstract store's or none, so that a write lands whole or not at all, is decided on what is
\* there when it lands, whichever schema it was written under, and is answered with what happened;
\* and what an export or a tail holds when it is through is a whole run of its stream.
THEOREM TheStoreKeepsItsWord == Spec => StoreKeepsItsWord
<1> DEFINE Inv == part = "ks" => KsInv
           Step == part = "ks" => (Ks!Promise!Next \/ UNCHANGED Ks!Promise!vars)
           Whole == part = "ks" => Ks!ExportWhole
           First == part = "ks" => Ks!Promise!Init
<1>1. Init => Inv /\ First
  BY StoreAssumption, KsInit DEF Init
<1>2. Inv /\ [Next]_vars => Inv' /\ Step
  <2>1. SUFFICES ASSUME Inv, [Next]_vars, part = "ks"
                 PROVE  KsInv' /\ (Ks!Promise!Next \/ UNCHANGED Ks!Promise!vars)
    BY OnePart
  <2>2. KsInv /\ [Ks!Next]_its
    BY <2>1, OnePart
  <2>3. CASE Ks!Next
    BY <2>2, <2>3, StoreAssumption, KsStep
  <2>4. CASE its' = its
    BY <2>2, <2>4, KsStays
  <2>5. QED
    BY <2>2, <2>3, <2>4
<1>3. Inv => Whole
  BY WholeNow DEF KsInv
<1>4. Init /\ [][Next]_vars => First /\ [][Step]_vars /\ []Whole
  BY <1>1, <1>2, <1>3, PTL
<1>5. QED
  BY <1>4 DEF Spec, StoreKeepsItsWord
=============================================================================
