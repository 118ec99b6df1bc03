------------------------------ MODULE Modules ------------------------------
(***************************************************************************)
(* The modules of a project: where require finds one                       *)
(* (crates/agent-block-core/src/host.rs, embedded.rs) and `agent-block     *)
(* vendor`, which writes embedded modules into .agent-block/lib            *)
(* (crates/agent-block/src/vendor.rs).  Vendor processes and the user's    *)
(* editor work on one disk; every look at a file and every write is a step *)
(* of its own.                                                             *)
(***************************************************************************)
EXTENDS Naturals, Sequences, SequencesExt, FiniteSetsExt

CONSTANTS Embedded,  \* names of the embedded modules, sub-modules too: <<"m">>, <<"m", "a">>
          Places,    \* files a module may be in: [tier, name, form]
          Runs,      \* vendor processes
          MaxEdits   \* bound: changes the user makes

\* disk: what each place holds: "none", "copy" (as vendored), "own" (the user's), "bad" (own, and
\* it does not type-check); run: per vendor process its arguments, the files left to check and to
\* write and what it met; edits: changes so far.
VARIABLE md

Tiers == <<"script", "vendored", "project", "home">>
Forms == <<"tl", "lua", "init">>
Idle == [at |-> "idle", force |-> FALSE, check |-> << >>, write |-> << >>, held |-> {},
         kept |-> TRUE, wrote |-> {}]

Init ==
    \E own \in kSubset(1, Places) \cup kSubset(2, Places) \cup {{}} :
        md = [disk |-> [p \in Places |-> IF p \in own THEN "own" ELSE "none"], run |-> [r \in Runs |-> Idle], edits |-> 0]

----------------------------------------------------------------------------
(* require *)

\* The tiers, nearest first; one whose directory is missing holds nothing.
lib_roots == [k \in DOMAIN Tiers |-> {p \in Places : p.tier = Tiers[k] /\ md.disk[p] # "none"}]

\* Within a tier <name>.tl, then <name>.lua, then <name>/init.lua; a .d.tl is no module.
Rank(p) == 10 * (CHOOSE k \in DOMAIN Tiers : Tiers[k] = p.tier)
               + (CHOOSE k \in DOMAIN Forms : Forms[k] = p.form)
Found(name) == {p \in UNION Range(lib_roots) : p.name = name /\ p.form \in Range(Forms)}
Nearest(name) == CHOOSE p \in Found(name) : \A q \in Found(name) : Rank(p) <= Rank(q)

\* A .tl that does not type-check fails the require; nothing farther is tried.
require(name) ==
    IF Found(name) # {}
    THEN LET p == Nearest(name)
         IN  IF p.form = "tl" /\ md.disk[p] = "bad" THEN "error" ELSE md.disk[p]
    ELSE IF name \in Embedded THEN "embedded" ELSE "missing"

----------------------------------------------------------------------------
(* agent-block vendor *)

find(name) == name \in Embedded
subs_of(name) == SetToSeq({e \in Embedded : Len(e) > 1 /\ e[1] = name[1]})
module_path(name) == [tier |-> "vendored", name |-> name, form |-> "init"]
SubPath(sub) == [tier |-> "vendored", name |-> sub, form |-> "lua"]

specs_of(name) ==
    SetToSeq({p \in Places : p.tier = "vendored" /\ p.name = name /\ p.form = "spec"})

\* A mistake the runs catch: the module without its sub-modules.
RootOnly(name) == <<module_path(name)>> \o specs_of(name)

\* A root module with every sub-module it has and its specs; a sub-module by itself is refused.
resolve(name) ==
    LET subs == subs_of(name)
    IN  <<module_path(name)>> \o [k \in DOMAIN subs |-> SubPath(subs[k])] \o specs_of(name)

Start(r, names, force) ==
    /\ md.run[r].at = "idle"
    /\ LET refused == \E k \in DOMAIN names : Len(names[k]) > 1 \/ ~find(names[k])
           files == FlattenSeq([k \in DOMAIN names |-> resolve(names[k])])
       IN  md' = [md EXCEPT !.run[r] =
                    IF refused THEN [@ EXCEPT !.at = "refused"]
                    ELSE [@ EXCEPT !.at = IF force THEN "write" ELSE "check", !.force = force,
                                   !.check = files, !.write = files,
                                   !.held = {p \in Places : md.disk[p] \notin {"none", "copy"}}]]

\* A mistake the runs catch: only the module's own file is looked for.
CheckFirst(r) ==
    /\ md.run[r].at = "check"
    /\ md' = [md EXCEPT !.run[r].at =
                IF md.disk[Head(md.run[r].check)] # "none" THEN "refused" ELSE "write"]

\* Without --force every target is looked for before the first is written.
Check(r) ==
    /\ md.run[r].at = "check"
    /\ LET run == md.run[r]
       IN  md' = [md EXCEPT !.run[r] =
                IF run.check = << >> THEN [@ EXCEPT !.at = "write"]
                ELSE IF md.disk[Head(run.check)] # "none" THEN [@ EXCEPT !.at = "refused"]
                ELSE [run EXCEPT !.check = Tail(run.check)]]

\* A mistake the runs catch: the next target is looked for between two writes.
WriteChecking(r) ==
    /\ md.run[r].at = "write"
    /\ LET run == md.run[r]
       IN  IF run.write = << >> THEN md' = [md EXCEPT !.run[r].at = "done"]
           ELSE md' = [md EXCEPT !.disk[Head(run.write)] = "copy",
                                 !.run[r].write = Tail(@), !.run[r].check = Tail(run.write),
                                 !.run[r].wrote = @ \cup {Head(run.write)},
                                 !.run[r].at = IF run.force THEN "write" ELSE "check"]

\* One file; a write that fails ends the run with the files before it in place.
Write(r) ==
    /\ md.run[r].at = "write"
    /\ LET run == md.run[r]
       IN  IF run.write = << >> THEN md' = [md EXCEPT !.run[r].at = "done"]
           ELSE LET p == Head(run.write)
                IN  \/ md' = [md EXCEPT !.disk[p] = "copy", !.run[r] =
                                [run EXCEPT !.write = Tail(run.write), !.wrote = run.wrote \cup {p},
                                            !.kept = run.kept /\ (run.force \/ p \notin run.held)]]
                    \/ md' = [md EXCEPT !.run[r].at = "failed"]

Vendor(r) ==
    \/ \E names \in {<<e>> : e \in Embedded} \cup {<<<<"nowhere">>>>}, force \in BOOLEAN :
            Start(r, names, force)
    \/ Check(r)
    \/ Write(r)

\* The user edits, adds or removes a file; whoever held it no longer does.
Edit(p, content) ==
    /\ md.edits < MaxEdits
    /\ md.disk[p] # content
    /\ md' = [md EXCEPT !.disk[p] = content, !.edits = @ + 1,
                        !.run = [r \in Runs |-> [md.run[r] EXCEPT !.held = @ \ {p},
                                                                 !.wrote = @ \ {p}]]]

Next ==
    \/ \E r \in Runs : Vendor(r)
    \/ \E p \in Places, content \in {"none", "own", "bad"} :
            (content = "bad" => p.form = "tl") /\ Edit(p, content)

Spec == Init /\ [][Next]_md

----------------------------------------------------------------------------
(* Properties *)

\* A file the user had on disk when a run without --force began, and has not touched since, is
\* not overwritten by that run, whatever other runs do meanwhile.
OwnFilesKept == \A r \in Runs : md.run[r].kept

\* A run that is refused because something is already there has written nothing itself.
RefusedWritesNothing == \A r \in Runs : md.run[r].at = "refused" => md.run[r].wrote = {}

\* After a run that succeeded, while its files are as it wrote them, require of the module and of
\* each of its sub-modules finds the vendored copy and never the embedded original beside it,
\* unless a nearer file of that name shadows it.
VendoredWhole ==
    \A r \in Runs, e \in Embedded :
        (md.run[r].at = "done" /\ \E p \in md.run[r].wrote : p.name = <<e[1]>> /\ p.form = "init") =>
            \/ require(e) = "copy"
            \/ \E p \in Found(e) : Rank(p) < Rank(IF Len(e) = 1 THEN module_path(e) ELSE SubPath(e))
            \/ \E p \in Range(resolve(<<e[1]>>)) : p \notin md.run[r].wrote

\* What `agent-block vendor` promises.
VendoringIsSafe == OwnFilesKept /\ RefusedWritesNothing /\ VendoredWhole
=============================================================================
