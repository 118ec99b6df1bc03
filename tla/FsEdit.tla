------------------------------ MODULE FsEdit ------------------------------
(***************************************************************************)
(* std.fs.read_versioned, std.fs.edit and std.fs.rollback on one file      *)
(* (crates/agent-block-core/src/bridge/fs.rs), called by coroutines of one *)
(* VM.  Every read and every write of the file is an await, and other      *)
(* calls run between them.  A text is a sequence of characters, of which   *)
(* only the newline matters; its version is the text itself, since the     *)
(* fingerprint tells texts apart.                                          *)
(***************************************************************************)
EXTENDS Naturals, Sequences, SequencesExt, FiniteSets

CONSTANTS Tasks,     \* coroutines
          Texts,     \* what the file may hold at first
          Batches,   \* lists of edits a call may make; [start, end, right, replace] each
          MaxCalls   \* bound: calls in a run

\* file, snapshot: what the file holds and the text kept for rollback;
\* call: per coroutine where it is, what it read last, and the two texts of its edit;
\* before: what the file held when the last edit was written; crossed: two calls overlapped.
VARIABLE fs

None == << "none" >>
NL == "nl"
Idle == [at |-> "idle", seen |-> None, old |-> None, new |-> None, edits |-> << >>]

Init ==
    \E text \in Texts :
        fs = [file |-> text, snapshot |-> None, call |-> [t \in Tasks |-> Idle],
              before |-> None, crossed |-> FALSE, calls |-> 0]

----------------------------------------------------------------------------
(* Lines *)

Trailing(text) == text # << >> /\ Last(text) = NL
split_lines(text) ==
    LET body == IF Trailing(text) THEN Front(text) ELSE text
        cuts == <<0>> \o SetToSortSeq({i \in DOMAIN body : body[i] = NL}, <) \o <<Len(body) + 1>>
    IN  [k \in 1..Len(cuts) - 1 |-> SubSeq(body, cuts[k] + 1, cuts[k + 1] - 1)]

Joined(lines) ==
    FlattenSeq([k \in DOMAIN lines |-> (IF k = 1 THEN << >> ELSE <<NL>>) \o lines[k]])
join_lines(lines, trailing) == Joined(lines) \o (IF trailing THEN <<NL>> ELSE << >>)

\* What an edit puts in the place of its lines.
Replacement(e) == IF e.replace = << >> THEN << >> ELSE split_lines(e.replace \o <<NL>>)

----------------------------------------------------------------------------
(* The checks of one call and the splice *)

\* The text the caller expects: what it read there, or something else.
Expected(e, seen) ==
    LET lines == split_lines(seen)
    IN  IF e.right /\ seen # None /\ e.start >= 1 /\ e.end <= Len(lines)
        THEN Joined(SubSeq(lines, e.start, e.end)) ELSE <<"other">>

\* What is wrong with an edit, {} for nothing.
Reason(e, seen, lines) ==
    CASE e.start = 0 \/ e.end < e.start -> {"bad_range"}
      [] e.start # 0 /\ e.end >= e.start /\ e.end > Len(lines) -> {"out_of_range"}
      [] OTHER -> IF Joined(SubSeq(lines, e.start, e.end)) # Expected(e, seen)
                  THEN {"expect_mismatch"} ELSE {}

\* Every edit that does not pass is told, not the first alone.
EditFailure(edits, seen, text) ==
    UNION {{<<i, why>> : why \in Reason(edits[i], seen, split_lines(text))} : i \in DOMAIN edits}

Overlapping(edits) ==
    LET ordered == SortSeq(edits, LAMBDA a, b : a.start < b.start)
    IN  \E k \in 1..Len(edits) - 1 : ordered[k].end >= ordered[k + 1].start

Rejected(edits, seen, text) ==
    \/ edits = << >>
    \/ EditFailure(edits, seen, text) # {}
    \/ Overlapping(edits)

\* A mistake the runs catch: the edits are made from the top, with the numbers as given.
SpliceDown(lines, edits) ==
    FoldLeft(LAMBDA out, e : SubSeq(out, 1, e.start - 1) \o Replacement(e)
                                 \o SubSeq(out, e.end + 1, Len(out)),
             lines, SortSeq(edits, LAMBDA a, b : a.start < b.start))

\* From the last edit up, so the numbers of the others stay true.
splice(lines, edits) ==
    FoldLeft(LAMBDA out, e : SubSeq(out, 1, e.start - 1) \o Replacement(e)
                                 \o SubSeq(out, e.end + 1, Len(out)),
             lines, SortSeq(edits, LAMBDA a, b : a.start > b.start))

----------------------------------------------------------------------------
(* The three entries *)

Busy == \E t \in Tasks : fs.call[t].at # "idle"
Begin(t) == fs.call[t].at = "idle" /\ fs.calls < MaxCalls
Done(t) == [Idle EXCEPT !.seen = fs.call[t].seen]

read_versioned(t) ==
    /\ Begin(t)
    /\ fs' = [fs EXCEPT !.call[t].seen = fs.file, !.calls = @ + 1]

\* The read and, on the VM thread, every check; a refused batch writes nothing.
edit(t, edits, based) ==
    /\ Begin(t)
    /\ LET seen == fs.call[t].seen
           text == fs.file
           stale == based /\ seen # None /\ seen # text
       IN  fs' = [fs EXCEPT !.calls = @ + 1, !.crossed = @ \/ Busy,
                            !.call[t] = IF stale \/ Rejected(edits, seen, text) THEN @
                                        ELSE [at |-> "write", seen |-> seen, old |-> text, edits |-> edits,
                                              new |-> join_lines(splice(split_lines(text), edits),
                                                                 Trailing(text))]]

\* The write of an edit.  One that fails leaves the file as it was or emptied, and keeps nothing.
write_string(t) ==
    /\ fs.call[t].at = "write"
    /\ \/ fs' = [fs EXCEPT !.file = fs.call[t].new, !.before = fs.file, !.call[t].at = "keep"]
       \/ \E left \in {fs.file, << >>} : fs' = [fs EXCEPT !.file = left, !.call[t] = Done(t)]

\* A mistake the runs catch: the text that is kept is the one just written.
KeepNew(t) ==
    /\ fs.call[t].at = "keep"
    /\ fs' = [fs EXCEPT !.snapshot = fs.call[t].new, !.call[t] = Done(t)]

\* Back on the VM thread after the write: the text that was read is kept for rollback.
keep(t) ==
    /\ fs.call[t].at = "keep"
    /\ fs' = [fs EXCEPT !.snapshot = fs.call[t].old, !.call[t] = Done(t)]

\* The kept text is taken out first and written afterwards.
rollback(t) ==
    /\ Begin(t)
    /\ fs' = [fs EXCEPT !.calls = @ + 1, !.snapshot = None, !.crossed = @ \/ Busy,
                        !.call[t] = IF fs.snapshot = None THEN @
                                    ELSE [@ EXCEPT !.at = "undo", !.old = fs.snapshot]]

\* The write of a rollback.  When it fails the kept text is lost all the same.
Undo(t) ==
    /\ fs.call[t].at = "undo"
    /\ \/ fs' = [fs EXCEPT !.file = fs.call[t].old, !.call[t].at = "undone"]
       \/ \E left \in {fs.file, << >>} : fs' = [fs EXCEPT !.file = left, !.call[t] = Done(t)]
Undone(t) ==
    /\ fs.call[t].at = "undone"
    /\ fs' = [fs EXCEPT !.before = None, !.call[t] = Done(t)]

Next ==
    \E t \in Tasks :
        \/ read_versioned(t)
        \/ \E edits \in Batches, based \in BOOLEAN : edit(t, edits, based)
        \/ write_string(t)
        \/ keep(t)
        \/ rollback(t)
        \/ Undo(t)
        \/ Undone(t)

Spec == Init /\ [][Next]_fs

----------------------------------------------------------------------------
(* Properties *)

Covers(e, k) == e.start <= k /\ k <= e.end

\* The lines an edited text has: each line that no edit covers, and each replacement
\* once, where its edit starts.
Wanted(lines, edits) ==
    FlattenSeq([k \in DOMAIN lines |->
        IF \E i \in DOMAIN edits : Covers(edits[i], k)
        THEN LET e == edits[CHOOSE i \in DOMAIN edits : Covers(edits[i], k)]
             IN  IF e.start = k THEN Replacement(e) ELSE << >>
        ELSE <<lines[k]>>])

\* What an accepted batch is about to write is its text with exactly the named lines
\* replaced, whatever the order and the sizes of the edits, and no newline gained or lost.
EditsExact ==
    \A t \in Tasks : fs.call[t].at = "write" =>
        fs.call[t].new = join_lines(Wanted(split_lines(fs.call[t].old), fs.call[t].edits),
                                    Trailing(fs.call[t].old))

\* While calls do not overlap, the text kept for rollback is the one the file held when the
\* last edit that reached the file was written, and a rollback puts that one back.
UndoRestores ==
    ~fs.crossed =>
        /\ ~Busy => fs.snapshot \in {None, fs.before}
        /\ \A t \in Tasks : fs.call[t].at = "undone" => fs.file = fs.before
=============================================================================
