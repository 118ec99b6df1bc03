----------------------------- MODULE FsInspect -----------------------------
(***************************************************************************)
(* std.fs.inspect (crates/agent-block-core/src/bridge/fs.rs): what is at a *)
(* path, without following its last component.  The answer is put together *)
(* from up to three looks at the disk, on the blocking pool, and other     *)
(* programs change the disk between them.                                  *)
(***************************************************************************)
EXTENDS Naturals, FiniteSets

CONSTANTS Ids,        \* identities (dev, ino) of files
          MaxChanges  \* bound: changes other programs make

\* disk: what is at the path and at the place a link there may lead to; at, meta, canonical: how
\* far the call is and what it has seen; answer; reached: the <<place, identity>> pairs the path
\* or its target led to since the call began, <<"path", 0>> where it led to nothing.
VARIABLE fi

Kind == {"file", "dir", "other", "symlink", "missing"}
Node == {n \in [kind : Kind, to : {"path", "target", "none"}, id : Ids] :
            (n.kind = "symlink") <=> (n.to # "none")}
Nowhere == {}
Inspected(kind, dangling, canonical, id) ==
    [raised |-> FALSE, kind |-> kind, dangling |-> dangling, canonical |-> canonical, id |-> id]
Raised == [raised |-> TRUE]

\* Where the path leads: a place, nowhere, or round in a circle.
Resolved(disk) ==
    LET p == disk.path
    IN  CASE p.kind = "missing"                       -> "not found"
          [] p.kind \notin {"missing", "symlink"}     -> "path"
          [] p.kind = "symlink" /\ p.to = "path"      -> "loop"
          [] p.kind = "symlink" /\ p.to = "target" /\ disk.target.kind = "symlink" -> "loop"
          [] p.kind = "symlink" /\ p.to = "target" /\ disk.target.kind = "missing" -> "not found"
          [] OTHER                                    -> "target"

Reached(disk) ==
    {<<place, disk[place].id>> : place \in {pl \in DOMAIN disk : disk[pl].kind \notin {"missing", "symlink"}}}
        \cup (IF Resolved(disk) = "not found" THEN {<<"path", 0>>} ELSE {})

Init ==
    \E p, t \in Node :
        /\ p.id # t.id
        /\ fi = [disk |-> [path |-> p, target |-> t], at |-> "look", meta |-> {}, canonical |-> {},
                 answer |-> {}, reached |-> Reached([path |-> p, target |-> t]), changes |-> 0]

Answer(a) == fi' = [fi EXCEPT !.at = "done", !.answer = {a}]

\* The device and the inode, which tell files apart.
identity(meta) == {meta.id}

\* The last component, not followed; what is not there is an answer, any other failure is raised.
symlink_metadata ==
    /\ fi.at = "look"
    /\ \/ fi.disk.path.kind = "missing" /\ Answer(Inspected("missing", FALSE, Nowhere, {}))
       \/ /\ fi.disk.path.kind # "missing"
          /\ fi' = [fi EXCEPT !.at = "resolve", !.meta = {fi.disk.path}]
       \/ Answer(Raised)

\* A link that leads to nothing dangles; a file that is gone by now, or a circle, is raised.
canonicalize ==
    /\ fi.at = "resolve"
    /\ \E meta \in fi.meta :
        LET to == Resolved(fi.disk)
        IN  \/ /\ to = "not found" /\ meta.kind = "symlink"
               /\ Answer(Inspected("symlink", TRUE, Nowhere, {}))
            \/ to = "not found" /\ meta.kind # "symlink" /\ Answer(Raised)
            \/ to = "loop" /\ Answer(Raised)
            \/ to \in {"path", "target"} /\ fi' = [fi EXCEPT !.at = "identify", !.canonical = {to}]
            \/ Answer(Raised)

\* A mistake the runs catch: a link is known by its own identity.
OwnIdentity ==
    /\ fi.at = "identify"
    /\ \E meta \in fi.meta, to \in fi.canonical :
            Answer(Inspected(meta.kind, FALSE, {to}, identity(meta)))

\* The identity of a link is its target's, looked up where it was resolved to.
metadata ==
    /\ fi.at = "identify"
    /\ \E meta \in fi.meta, to \in fi.canonical :
        \/ /\ meta.kind # "symlink"
           /\ Answer(Inspected(meta.kind, FALSE, {to}, identity(meta)))
        \/ /\ meta.kind = "symlink" /\ fi.disk[to].kind \notin {"missing", "symlink"}
           /\ Answer(Inspected(meta.kind, FALSE, {to}, identity(fi.disk[to])))
        \/ meta.kind = "symlink" /\ Answer(Raised)

inspect == symlink_metadata \/ canonicalize \/ metadata

\* Another program puts something else there.
Change(place, node) ==
    /\ fi.at # "done" /\ fi.changes < MaxChanges /\ fi.disk[place] # node
    /\ node.id \notin {fi.disk[o].id : o \in DOMAIN fi.disk \ {place}}
    /\ LET disk == [fi.disk EXCEPT ![place] = node]
       IN  fi' = [fi EXCEPT !.disk = disk, !.changes = @ + 1, !.reached = @ \cup Reached(disk)]

Next ==
    \/ inspect
    \/ \E place \in {"path", "target"}, node \in Node : Change(place, node)

Spec == Init /\ [][Next]_fi

----------------------------------------------------------------------------
(* Properties *)

\* What a path is said to be was so at some moment of the call, however the disk changed between
\* its looks: a path said to be free or to dangle led to nothing, and an identity is one that a
\* file had, never that of the link, so two names of one file compare equal.
AnswerWasTrue ==
    \A a \in fi.answer : ~a.raised =>
        /\ (a.kind = "missing" \/ a.dangling) => <<"path", 0>> \in fi.reached
        /\ a.canonical = {} <=> (a.kind = "missing" \/ a.dangling)
        /\ \A id \in a.id : \E r \in fi.reached : r[2] = id
=============================================================================
