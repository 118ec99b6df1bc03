--------------------------- MODULE KnlLogsProofs ---------------------------
(***************************************************************************)
(* Theorems about KnlLogs, for any set of callers in any number of         *)
(* processes, however they spell the path, any log an earlier release      *)
(* left, any number of crashes, panics and aborted calls, and any number   *)
(* of threads those calls left behind: the migration keeps the history,    *)
(* callers that share a key share a log, and every log is drained.         *)
(*                                                                         *)
(* The invariant is in three parts.  What is true of the callers: who      *)
(* holds a log is not opening one.  What is true of the logs: an open has  *)
(* the lock and finds its key free, a log in use is the one in the map,    *)
(* and one with jobs queued is still to be reached.  What is true of the   *)
(* file: an old table is all of the history, wherever it is, and while it  *)
(* is aside nothing of it is in `events`.  The steps are sorted by what    *)
(* they do to the file (FileMoves): nothing, the rename, the schema, the   *)
(* import, an append.                                                      *)
(***************************************************************************)
EXTENDS KnlLogs, FiniteSetTheorems, SequenceTheorems, TLAPS

----------------------------------------------------------------------------
(* The invariant *)

\* Who holds a log is between calls, only callers call, and a thread is left behind by a
\* caller of its process.
Held ==
    /\ \A t \in Tasks : HasLog(t) => call[t] = "idle"
    /\ \A t \in Tasks : HasLog(t) \/ call[t] # "idle" => t \in callers
    /\ \A o \in Orphans : call[o] # "idle" => \E c \in callers : ProcOf[c] = ProcOf[o]

\* Who opens holds the lock of a host that is up, whose map has no log for the key.
Locked ==
    \A t \in Tasks : call[t] # "idle" =>
        /\ lock[ProcOf[t]] = t /\ host[ProcOf[t]] = "up"
        /\ files[ProcOf[t]][Mine(t)] = NoTask

\* A log in a map was opened in that process, and its opener holds it.
Mapped ==
    \A p \in Procs, k \in Keys : files[p][k] # NoTask =>
        ProcOf[files[p][k]] = p /\ handle[files[p][k]] = files[p][k]

\* While the host is up, a log in use is the one in the map.
InMap ==
    \A t \in Tasks : HasLog(t) /\ host[ProcOf[t]] = "up" =>
        files[ProcOf[t]][Mine(t)] = handle[t]

\* A log with jobs queued is in use, will be joined, or has no thread.
Reached ==
    \A log \in Tasks : queue[log] # << >> =>
        /\ handle[log] = log
        /\ \/ host[ProcOf[log]] = "up"
           \/ dead[log]
           \/ host[ProcOf[log]] = "draining" /\ log \in draining[ProcOf[log]]

Kept == Locked /\ Mapped /\ InMap /\ Reached

\* A table that is not there has no rows; an old one is what was written, and nothing
\* of it is anywhere else.
Whole ==
    /\ written \in LegacyLogs
    /\ events.shape = "none" => events.rows = << >>
    /\ aside.shape = "none" => aside.rows = << >>
    /\ events.shape = "old" => events.rows = written /\ aside.shape = "none"
    /\ aside.shape = "old" =>
         /\ aside.rows = written /\ events.shape # "old"
         /\ \A i \in DOMAIN events.rows : ~events.rows[i].legacy

\* What one caller alone knows: past its first look, unless that found an earlier
\* release's table, there is none aside.
LooksTrue(t) ==
    \/ HasLog(t)
    \/ call[t] \in {"events", "version", "column", "rename"}
    \/ call[t] \in {"ladder", "index"} /\ ~found[t]

Knows(t) == LooksTrue(t) => aside.shape = "none"
AloneKnows == Alone /\ Attended => \A t \in Tasks : Knows(t)

\* Who met an earlier release's log and was given the log: no table is an old one.
NoOld == events.shape # "old" /\ aside.shape # "old"
GivenAll == \A t \in Tasks : HasLog(t) /\ found[t] => NoOld

FileInv == Whole /\ LegacyKept /\ StreamsInOrder

LogsInv == TypeOK /\ Held /\ Kept /\ FileInv /\ GivenAll /\ AloneKnows

----------------------------------------------------------------------------
(* Rows *)

\* The rows of the first n that are of the stream s.
Of(rows, n, s) == {i \in 1 .. n : rows[i].stream = s}

\* The seq a row of s would have as the n-th is how many of them are its stream's.
LEMMA HeadIs ==
    ASSUME NEW rows \in Seq(Row), NEW n \in 0 .. Len(rows), NEW s
    PROVE  /\ HeadSeq(SubSeq(rows, 1, n), s) = Cardinality(Of(rows, n, s))
           /\ Cardinality(Of(rows, n, s)) \in Nat
<1>1. /\ DOMAIN SubSeq(rows, 1, n) = 1 .. n
      /\ \A i \in 1 .. n : SubSeq(rows, 1, n)[i] = rows[i]
  BY SubSeqProperties
<1>2. {i \in DOMAIN SubSeq(rows, 1, n) : SubSeq(rows, 1, n)[i].stream = s} = Of(rows, n, s)
  BY <1>1 DEF Of
<1>3. IsFiniteSet(Of(rows, n, s))
  <2>1. IsFiniteSet(1 .. n) /\ Of(rows, n, s) \subseteq 1 .. n
    BY FS_Interval DEF Of
  <2>2. QED
    BY <2>1, FS_Subset
<1>4. QED
  BY <1>2, <1>3, FS_CardinalityType DEF HeadSeq

\* The stream order of a table is its numbering.
InOrder(rows) ==
    \A i \in DOMAIN rows : rows[i].seq = HeadSeq(SubSeq(rows, 1, i), rows[i].stream)

\* What AppendAll makes of a table and the rows it is given.
Appended(rows, more, after) ==
    /\ after \in Seq(Row)
    /\ Len(rows) \in Nat /\ Len(more) \in Nat /\ Len(after) = Len(rows) + Len(more)
    /\ DOMAIN rows = 1 .. Len(rows) /\ DOMAIN more = 1 .. Len(more)
    /\ DOMAIN after = 1 .. (Len(rows) + Len(more))
    /\ \A i \in 1 .. Len(rows) : after[i] = rows[i]
    /\ \A i \in 1 .. Len(more) :
         /\ after[Len(rows) + i].stream = more[i].stream
         /\ after[Len(rows) + i].clock = more[i].clock
         /\ after[Len(rows) + i].legacy = more[i].legacy
    /\ InOrder(rows) => InOrder(after)

\* A row with another seq.
LEMMA Renumbered ==
    ASSUME NEW r \in Row, NEW n \in Nat
    PROVE  LET x == [r EXCEPT !.seq = n] IN
           /\ x \in Row /\ x.seq = n
           /\ x.stream = r.stream /\ x.clock = r.clock /\ x.legacy = r.legacy
BY DEF Row

\* Nothing before is touched, nothing but its seq is changed in a row, and a table in
\* order stays in order.
LEMMA AppendAllIs ==
    ASSUME NEW rows \in Seq(Row), NEW more \in Seq(Row)
    PROVE  Appended(rows, more, AppendAll(rows, more))
<1> DEFINE all == rows \o more
           after == AppendAll(rows, more)
           n == Len(rows)
           seqOf(k) == HeadSeq(SubSeq(all, 1, k), all[k].stream)
<1>1. /\ all \in Seq(Row) /\ n \in Nat /\ Len(more) \in Nat /\ Len(all) = n + Len(more)
      /\ DOMAIN all = 1 .. (n + Len(more)) /\ DOMAIN rows = 1 .. n
      /\ DOMAIN more = 1 .. Len(more)
  OBVIOUS
<1>2. /\ \A i \in 1 .. n : all[i] = rows[i] /\ all[i] \in Row
      /\ \A i \in 1 .. Len(more) : all[n + i] = more[i]
  OBVIOUS
<1>3. after = [k \in DOMAIN all |-> IF k <= n THEN all[k] ELSE [all[k] EXCEPT !.seq = seqOf(k)]]
  BY DEF AppendAll
<1>4. \A k \in DOMAIN all : all[k] \in Row /\ seqOf(k) \in Nat
  <2>1. ASSUME NEW k \in DOMAIN all PROVE seqOf(k) \in Nat
    <3>1. k \in 0 .. Len(all)
      BY <1>1
    <3> HIDE DEF all
    <3>2. QED
      BY <1>1, <3>1, HeadIs
  <2>2. \A k \in DOMAIN all : all[k] \in Row
    BY <1>1
  <2>3. QED
    BY <2>1, <2>2
<1> HIDE DEF all, after, seqOf, n
<1>5. /\ DOMAIN after = 1 .. (n + Len(more))
      /\ \A i \in 1 .. n : after[i] = rows[i]
  BY <1>1, <1>2, <1>3
<1>6. ASSUME NEW k \in (n + 1) .. (n + Len(more))
      PROVE  /\ after[k] \in Row /\ after[k].seq = seqOf(k)
             /\ after[k].stream = all[k].stream /\ after[k].clock = all[k].clock
             /\ after[k].legacy = all[k].legacy
  <2>1. k \in DOMAIN all /\ ~(k <= n)
    BY <1>1
  <2>2. after[k] = [all[k] EXCEPT !.seq = seqOf(k)]
    BY <1>3, <2>1
  <2>3. QED
    BY <1>4, <2>1, <2>2, Renumbered
<1>7. \A k \in DOMAIN all : after[k] \in Row /\ after[k].stream = all[k].stream
  <2>1. ASSUME NEW k \in DOMAIN all PROVE after[k] \in Row /\ after[k].stream = all[k].stream
    <3>1. CASE k <= n
      BY <1>1, <1>2, <1>5, <3>1
    <3>2. CASE ~(k <= n)
      <4>1. k \in (n + 1) .. (n + Len(more))
        BY <1>1, <3>2
      <4>2. QED
        BY <1>6, <4>1
    <3>3. QED
      BY <3>1, <3>2
  <2>2. QED
    BY <2>1
<1>8. after \in Seq(Row) /\ Len(after) = n + Len(more)
  <2>1. after \in [1 .. (n + Len(more)) -> Row] /\ n + Len(more) \in Nat
    BY <1>1, <1>3, <1>5, <1>7
  <2>2. QED
    BY <2>1
<1>9. ASSUME NEW i \in 1 .. Len(more)
      PROVE  /\ after[n + i].stream = more[i].stream
             /\ after[n + i].clock = more[i].clock
             /\ after[n + i].legacy = more[i].legacy
  <2>1. n + i \in (n + 1) .. (n + Len(more)) /\ all[n + i] = more[i]
    BY <1>1, <1>2
  <2>2. QED
    BY <1>6, <2>1
<1>10. ASSUME InOrder(rows), NEW k \in DOMAIN after
       PROVE  after[k].seq = HeadSeq(SubSeq(after, 1, k), after[k].stream)
  <2> DEFINE s == after[k].stream
  <2>1. k \in 1 .. (n + Len(more)) /\ k \in 0 .. Len(after) /\ k \in DOMAIN all
    BY <1>1, <1>5, <1>8
  <2>2. HeadSeq(SubSeq(after, 1, k), s) = Cardinality(Of(after, k, s))
    BY <1>8, <2>1, HeadIs
  <2>3. CASE k <= n
    <3>1. k \in DOMAIN rows /\ k \in 0 .. Len(rows)
      BY <1>1, <2>1, <2>3 DEF n
    <3>2. after[k] = rows[k] /\ \A i \in 1 .. k : after[i] = rows[i]
      BY <1>1, <1>5, <2>1, <2>3
    <3>3. Of(after, k, s) = Of(rows, k, s)
      BY <3>2 DEF Of
    <3>4. HeadSeq(SubSeq(rows, 1, k), s) = Cardinality(Of(rows, k, s))
      BY <3>1, HeadIs
    <3>5. rows[k].seq = HeadSeq(SubSeq(rows, 1, k), rows[k].stream)
      BY <1>10, <3>1 DEF InOrder
    <3>6. QED
      BY <2>2, <3>2, <3>3, <3>4, <3>5
  <2>4. CASE ~(k <= n)
    <3>1. k \in (n + 1) .. (n + Len(more))
      BY <1>1, <2>1, <2>4
    <3>2. after[k].seq = HeadSeq(SubSeq(all, 1, k), s)
      BY <1>6, <3>1 DEF seqOf
    <3>3. HeadSeq(SubSeq(all, 1, k), s) = Cardinality(Of(all, k, s))
      <4>1. k \in 0 .. Len(all)
        BY <1>1, <2>1
      <4>2. QED
        BY <1>1, <4>1, HeadIs
    <3>4. Of(after, k, s) = Of(all, k, s)
      <4>1. \A i \in 1 .. k : after[i].stream = all[i].stream
        <5>1. \A i \in 1 .. k : i \in DOMAIN all
          BY <1>1, <2>1
        <5>2. QED
          BY <1>7, <5>1
      <4>2. QED
        BY <4>1 DEF Of
    <3>5. QED
      BY <2>2, <3>2, <3>3, <3>4
  <2>5. QED
    BY <2>3, <2>4
<1>11. InOrder(rows) => InOrder(after)
  BY <1>10 DEF InOrder
<1>12. QED
  BY <1>1, <1>5, <1>8, <1>9, <1>11 DEF Appended, n, after

----------------------------------------------------------------------------
(* Where an event of the earlier release is *)

\* The entries of a table that are the event r.
Copies(rows, r) ==
    {i \in DOMAIN rows : rows[i].legacy /\ rows[i].stream = r.stream
                         /\ rows[i].seq = r.seq /\ rows[i].clock = r.clock}

\* None, one, or as many as before.
LEMMA OccurrencesAre ==
    /\ \A rows, r : Copies(rows, r) = {} => Occurrences(rows, r) = 0
    /\ \A rows, r : (\E k : Copies(rows, r) = {k}) => Occurrences(rows, r) = 1
    /\ \A rows, r, more : Copies(rows, r) = Copies(more, r)
                            => Occurrences(rows, r) = Occurrences(more, r)
    /\ \A r : Occurrences(<< >>, r) = 0
<1>1. \A rows, r : Occurrences(rows, r) = Cardinality(Copies(rows, r))
  BY DEF Occurrences, Copies
<1>2. Cardinality({}) = 0
  BY FS_EmptySet
<1>3. \A k : Cardinality({k}) = 1
  BY FS_Singleton
<1>4. \A r : Copies(<< >>, r) = {}
  <2>1. DOMAIN << >> = {}
    OBVIOUS
  <2>2. QED
    BY <2>1 DEF Copies
<1>5. QED
  BY <1>1, <1>2, <1>3, <1>4

----------------------------------------------------------------------------
(* The moves of the file *)

MovesAside ==
    events.shape # "none" /\ aside.shape = "none" /\ aside' = events /\ events' = NoTable

Creates == events.shape = "none" /\ events' = Table("new", << >>) /\ aside' = aside

Brings(rows) ==
    LET got == import_legacy(rows) IN
    /\ ~got.reordered /\ events' = Table("new", got.rows) /\ aside' = NoTable

ImportsAll ==
    /\ aside.shape = "old" /\ events.shape # "none"
    /\ \E order : \E rows \in LegacyRows(order) : Brings(rows)

Writes ==
    /\ events.shape = "new" /\ aside' = aside
    /\ \E r \in Row : ~r.legacy /\ events' = Table("new", AppendAll(events.rows, <<r>>))

FileMoves ==
    /\ written' = written
    /\ UNCHANGED <<events, aside>> \/ MovesAside \/ Creates \/ ImportsAll \/ Writes

\* What is to be shown of the file after a move.
LEMMA FileIs ==
    FileInv <=>
    /\ Whole
    /\ \A i \in DOMAIN written :
         Occurrences(events.rows, written[i]) + Occurrences(aside.rows, written[i]) = 1
    /\ events.shape = "new" => InOrder(events.rows)
    /\ aside.shape = "new" => InOrder(aside.rows)
BY DEF FileInv, LegacyKept, StreamsInOrder, InOrder

\* The same, after the move.
LEMMA FileIsNext ==
    FileInv' <=>
    /\ Whole'
    /\ \A i \in DOMAIN written' :
         Occurrences(events'.rows, written'[i]) + Occurrences(aside'.rows, written'[i]) = 1
    /\ events'.shape = "new" => InOrder(events'.rows)
    /\ aside'.shape = "new" => InOrder(aside'.rows)
<1>1. LegacyKept' <=>
        \A i \in DOMAIN written' :
          Occurrences(events'.rows, written'[i]) + Occurrences(aside'.rows, written'[i]) = 1
  BY DEF LegacyKept, Occurrences
<1>2. StreamsInOrder' <=>
        \A table \in {events', aside'} : table.shape = "new" =>
          \A i \in DOMAIN table.rows :
            table.rows[i].seq = HeadSeq(SubSeq(table.rows, 1, i), table.rows[i].stream)
  BY DEF StreamsInOrder, HeadSeq
<1>3. StreamsInOrder' <=>
        /\ events'.shape = "new" => InOrder(events'.rows)
        /\ aside'.shape = "new" => InOrder(aside'.rows)
  BY <1>2 DEF InOrder
<1>4. QED
  BY <1>1, <1>3 DEF FileInv

\* The tables there are.
LEMMA TableIs ==
    ASSUME NEW shape, NEW rows
    PROVE  /\ Table(shape, rows).shape = shape /\ Table(shape, rows).rows = rows
           /\ NoTable.shape = "none" /\ NoTable.rows = << >>
BY DEF Table, NoTable

\* The rename: what was in `events` is aside.
LEMMA AsideKeeps ==
    ASSUME TypeOK, FileInv, written' = written, MovesAside
    PROVE  FileInv'
<1>1. /\ events.shape # "none" /\ aside.shape = "none" /\ aside' = events
      /\ events'.shape = "none" /\ events'.rows = << >>
  BY TableIs DEF MovesAside
<1>2. Whole /\ aside.rows = << >>
  BY <1>1, FileIs DEF Whole
<1>3. Whole'
  <2>1. DOMAIN << >> = {}
    OBVIOUS
  <2>2. QED
    BY <1>1, <1>2, <2>1 DEF Whole
<1>4. ASSUME NEW i \in DOMAIN written'
      PROVE  Occurrences(events'.rows, written'[i]) + Occurrences(aside'.rows, written'[i]) = 1
  <2>1. Occurrences(events.rows, written[i]) + Occurrences(aside.rows, written[i]) = 1
    BY <1>4, FileIs
  <2>2. events'.rows = aside.rows /\ aside'.rows = events.rows /\ written' = written
    BY <1>1, <1>2
  <2>3. Occurrences(aside.rows, written[i]) = 0
    BY <1>2, OccurrencesAre
  <2>4. Occurrences(events.rows, written[i]) = 1
    <3>1. Occurrences(events.rows, written[i]) \in Nat
      <4>1. events.rows \in Seq(Row)
        BY DEF TypeOK, TableType
      <4>2. DOMAIN events.rows = 1 .. Len(events.rows) /\ Len(events.rows) \in Nat
        BY <4>1
      <4>3. IsFiniteSet(DOMAIN events.rows)
        BY <4>2, FS_Interval
      <4>4. QED
        BY <4>3, FS_Subset, FS_CardinalityType DEF Occurrences
    <3>2. QED
      BY <2>1, <2>3, <3>1
  <2>5. QED
    BY <2>2, <2>3, <2>4
<1>5. QED
  BY <1>1, <1>3, <1>4, FileIs, FileIsNext

\* The ladder's schema: an empty table for none.
LEMMA CreateKeeps ==
    ASSUME TypeOK, FileInv, written' = written, Creates
    PROVE  FileInv'
<1>1. /\ events.shape = "none" /\ aside' = aside
      /\ events'.shape = "new" /\ events'.rows = << >>
  BY TableIs DEF Creates
<1>2. Whole /\ events.rows = << >>
  BY <1>1, FileIs DEF Whole
<1>3. Whole'
  <2>1. DOMAIN << >> = {}
    OBVIOUS
  <2>2. QED
    BY <1>1, <1>2, <2>1 DEF Whole
<1>4. InOrder(<< >>)
  BY DEF InOrder
<1>5. QED
  BY <1>1, <1>2, <1>3, <1>4, FileIs, FileIsNext

\* An append: one row more, and it is not of the earlier release.
LEMMA WriteKeeps ==
    ASSUME TypeOK, FileInv, written' = written, Writes
    PROVE  FileInv'
<1>1. events.shape = "new" /\ aside' = aside
  BY DEF Writes
<1>2. PICK r \in Row : ~r.legacy /\ events' = Table("new", AppendAll(events.rows, <<r>>))
  BY DEF Writes
<1> DEFINE after == AppendAll(events.rows, <<r>>)
           n == Len(events.rows)
<1>3. events.rows \in Seq(Row) /\ <<r>> \in Seq(Row) /\ Len(<<r>>) = 1 /\ <<r>>[1] = r
  BY DEF TypeOK, TableType
<1>4. Appended(events.rows, <<r>>, after)
  BY <1>3, AppendAllIs
<1>5. events'.shape = "new" /\ events'.rows = after
  BY <1>2, TableIs
<1> HIDE DEF after
<1>6. /\ n \in Nat /\ DOMAIN events.rows = 1 .. n /\ DOMAIN after = 1 .. (n + 1)
      /\ \A i \in 1 .. n : after[i] = events.rows[i]
      /\ InOrder(events.rows) => InOrder(after)
  BY <1>3, <1>4 DEF Appended
<1>7. ~after[n + 1].legacy
  <2>1. after[n + 1].legacy = <<r>>[1].legacy
    BY <1>3, <1>4 DEF Appended
  <2>2. QED
    BY <1>2, <1>3, <2>1
<1> HIDE DEF n
<1>8. \A i \in DOMAIN after : after[i].legacy => i \in DOMAIN events.rows
  BY <1>6, <1>7
<1>9. ASSUME NEW w PROVE Copies(after, w) = Copies(events.rows, w)
  <2>1. ASSUME NEW i \in Copies(after, w) PROVE i \in Copies(events.rows, w)
    <3>1. i \in DOMAIN after /\ after[i].legacy
      BY DEF Copies
    <3>2. i \in DOMAIN events.rows /\ after[i] = events.rows[i]
      BY <1>6, <1>8, <3>1
    <3>3. QED
      BY <3>2 DEF Copies
  <2>2. ASSUME NEW i \in Copies(events.rows, w) PROVE i \in Copies(after, w)
    <3>1. i \in DOMAIN events.rows
      BY DEF Copies
    <3>2. i \in DOMAIN after /\ after[i] = events.rows[i]
      BY <1>6, <3>1
    <3>3. QED
      BY <3>2 DEF Copies
  <2>3. QED
    BY <2>1, <2>2
<1>10. \A w : Occurrences(after, w) = Occurrences(events.rows, w)
  BY <1>9, OccurrencesAre
<1>11. Whole'
  <2>1. aside.shape = "old" => \A i \in DOMAIN after : ~after[i].legacy
    <3>1. aside.shape = "old" => \A i \in DOMAIN events.rows : ~events.rows[i].legacy
      BY FileIs DEF Whole
    <3>2. QED
      BY <1>6, <1>8, <3>1
  <2>2. QED
    BY <1>1, <1>5, <2>1, FileIs DEF Whole
<1>12. QED
  BY <1>1, <1>5, <1>6, <1>10, <1>11, FileIs, FileIsNext

\* The import: every row of the old table, once, under the seq it had.
LEMMA ImportKeeps ==
    ASSUME TypeOK, FileInv, written' = written, ImportsAll
    PROVE  FileInv'
<1>1. aside.shape = "old" /\ events.shape # "none"
  BY DEF ImportsAll
<1>2. PICK order : \E rows \in LegacyRows(order) : Brings(rows)
  BY DEF ImportsAll
<1>3. PICK rows \in LegacyRows(order) : Brings(rows)
  BY <1>2
<1>4. /\ Whole /\ aside.rows = written /\ events.shape = "new"
      /\ \A i \in DOMAIN events.rows : ~events.rows[i].legacy
      /\ InOrder(events.rows)
  BY <1>1, FileIs DEF Whole, TypeOK, TableType
<1>5. events.rows \in Seq(Row) /\ written \in Seq(Row) /\ DOMAIN written = 1 .. Len(written)
      /\ Len(written) \in Nat
  BY DEF TypeOK, TableType
<1>6. \A i \in DOMAIN written : written[i].legacy
  BY <1>4, LegacyAssumption DEF Whole
<1>7. \A i, j \in DOMAIN written :
        written[i].stream = written[j].stream /\ written[i].seq = written[j].seq => i = j
  BY <1>4, LegacyAssumption DEF Whole
<1>8. /\ rows \in [1 .. Len(written) -> Row] /\ DOMAIN rows = DOMAIN written
      /\ \A i \in DOMAIN written : \E k \in DOMAIN rows : rows[k] = written[i]
      /\ \A k \in DOMAIN rows : \E i \in DOMAIN written : rows[k] = written[i]
  <2>1. rows \in [DOMAIN written -> ToSet(written)] /\ ToSet(rows) = ToSet(written)
    BY <1>4 DEF LegacyRows
  <2>2. \A i \in DOMAIN written : written[i] \in Row
    BY <1>5
  <2>3. QED
    BY <1>5, <2>1, <2>2 DEF ToSet
<1>9. \A i, j \in DOMAIN rows :
        rows[i].stream = rows[j].stream /\ rows[i].seq = rows[j].seq => i = j
  <2>1. \A i, j \in DOMAIN rows : i < j =>
          IF order = "clock" THEN ByClock(rows[i], rows[j]) ELSE ByStream(rows[i], rows[j])
    BY DEF LegacyRows
  <2>2. \A r \in Row : ~ByClock(r, r) /\ ~ByStream(r, r)
    BY DEF ByClock, ByStream, Row
  <2>3. \A i, j \in DOMAIN rows : i < j => rows[i] # rows[j]
    BY <1>8, <2>1, <2>2
  <2>4. \A i, j \in DOMAIN rows :
          rows[i].stream = rows[j].stream /\ rows[i].seq = rows[j].seq => rows[i] = rows[j]
    <3> SUFFICES ASSUME NEW i \in DOMAIN rows, NEW j \in DOMAIN rows,
                        rows[i].stream = rows[j].stream, rows[i].seq = rows[j].seq
                 PROVE  rows[i] = rows[j]
      OBVIOUS
    <3>1. PICK a \in DOMAIN written : rows[i] = written[a]
      BY <1>8
    <3>2. PICK b \in DOMAIN written : rows[j] = written[b]
      BY <1>8
    <3>3. a = b
      BY <1>7, <3>1, <3>2
    <3>4. QED
      BY <3>1, <3>2, <3>3
  <2>5. ASSUME NEW i \in DOMAIN rows, NEW j \in DOMAIN rows,
               rows[i].stream = rows[j].stream /\ rows[i].seq = rows[j].seq
        PROVE  i = j
    <3>1. rows[i] = rows[j]
      BY <2>4, <2>5
    <3>2. i \in Nat /\ j \in Nat
      BY <1>5, <1>8
    <3>3. ~(i < j) /\ ~(j < i)
      BY <2>3, <3>1
    <3>4. QED
      BY <3>2, <3>3
  <2>6. QED
    BY <2>5
<1> DEFINE got == import_legacy(rows)
           after == AppendAll(events.rows, rows)
           n == Len(events.rows)
<1>10. /\ got.rows = after
       /\ \A i \in DOMAIN rows : after[n + i].seq = rows[i].seq
       /\ events' = Table("new", after) /\ aside' = NoTable
  BY <1>3 DEF Brings, import_legacy
<1>11. rows \in Seq(Row) /\ Len(rows) = Len(written)
  BY <1>5, <1>8
<1>12. Appended(events.rows, rows, after)
  BY <1>5, <1>11, AppendAllIs
<1>13. /\ events'.shape = "new" /\ events'.rows = after
       /\ aside'.shape = "none" /\ aside'.rows = << >>
  BY <1>10, TableIs
<1> HIDE DEF got, after
<1>14. /\ n \in Nat /\ DOMAIN events.rows = 1 .. n /\ DOMAIN rows = 1 .. Len(rows)
       /\ DOMAIN after = 1 .. (n + Len(rows)) /\ Len(rows) \in Nat
       /\ \A i \in 1 .. n : after[i] = events.rows[i]
       /\ InOrder(after)
  BY <1>4, <1>12 DEF Appended
<1>15. \A i \in DOMAIN rows :
         /\ n + i \in DOMAIN after
         /\ after[n + i].stream = rows[i].stream
         /\ after[n + i].clock = rows[i].clock
         /\ after[n + i].legacy = rows[i].legacy
         /\ after[n + i].seq = rows[i].seq
  BY <1>10, <1>12, <1>14 DEF Appended
<1> HIDE DEF n
<1>16. ASSUME NEW i \in DOMAIN written
       PROVE  Occurrences(after, written[i]) = 1
  <2>1. PICK k \in DOMAIN rows : rows[k] = written[i]
    BY <1>8
  <2>2. n + k \in Copies(after, written[i])
    <3>1. written[i].legacy
      BY <1>6
    <3>2. QED
      BY <1>15, <2>1, <3>1 DEF Copies
  <2>3. ASSUME NEW j \in Copies(after, written[i]) PROVE j = n + k
    <3>1. j \in DOMAIN after /\ after[j].legacy /\ after[j].stream = written[i].stream
          /\ after[j].seq = written[i].seq
      BY DEF Copies
    <3>2. ~(j \in 1 .. n)
      <4>1. j \in 1 .. n => ~after[j].legacy
        BY <1>4, <1>14
      <4>2. QED
        BY <3>1, <4>1
    <3>3. PICK m \in DOMAIN rows : j = n + m
      <4>1. j - n \in 1 .. Len(rows) /\ j = n + (j - n)
        BY <1>14, <3>1, <3>2
      <4>2. QED
        BY <1>14, <4>1
    <3>4. rows[m].stream = rows[k].stream /\ rows[m].seq = rows[k].seq
      BY <1>15, <2>1, <3>1, <3>3
    <3>5. m = k
      BY <1>9, <3>4
    <3>6. QED
      BY <3>3, <3>5
  <2>4. Copies(after, written[i]) = {n + k}
    BY <2>2, <2>3
  <2>5. QED
    BY <2>4, OccurrencesAre
<1>17. Whole'
  BY <1>4, <1>13 DEF Whole
<1>18. ASSUME NEW i \in DOMAIN written'
       PROVE  Occurrences(events'.rows, written'[i]) + Occurrences(aside'.rows, written'[i]) = 1
  <2>1. Occurrences(after, written[i]) = 1 /\ Occurrences(<< >>, written[i]) = 0
    BY <1>16, <1>18, OccurrencesAre
  <2>2. QED
    BY <1>13, <2>1
<1>19. QED
  BY <1>13, <1>14, <1>17, <1>18, FileIsNext

\* So every move keeps the file whole.
LEMMA FileKept ==
    ASSUME TypeOK, FileInv, FileMoves
    PROVE  FileInv'
<1>1. ASSUME UNCHANGED <<events, aside, written>> PROVE FileInv'
  <2>1. Whole'
    BY <1>1, FileIs DEF Whole
  <2>2. QED
    BY <1>1, <2>1, FileIs, FileIsNext
<1>2. QED
  BY <1>1, AsideKeeps, CreateKeeps, ImportKeeps, WriteKeeps DEF FileMoves

----------------------------------------------------------------------------
(* The open *)

Progress == {"idle", "gone"} \cup Preparing \cup Opening

\* Nothing but the open itself and the file.
Still == UNCHANGED <<found, lock, open>>
Quiet == UNCHANGED <<frozen, ends, counts>>

\* The endings of a step, for a caller.
Unmoved(t, pc) == Step(t, pc) /\ Still
Told(t, legacy) ==
    found' = [found EXCEPT ![t] = legacy] /\ Step(t, "ladder") /\ UNCHANGED <<lock, open>>
Refused(t) == Step(t, "idle") /\ LetGo(t) /\ UNCHANGED <<found, open>>
Given(t) ==
    /\ Step(t, "idle") /\ LetGo(t) /\ UNCHANGED found
    /\ handle' = [handle EXCEPT ![t] = t]
    /\ files' = [files EXCEPT ![ProcOf[t]] = [@ EXCEPT ![Mine(t)] = t]]

\* A caller is no orphan.
LEMMA CallerForms ==
    ASSUME NEW t \in Tasks
    PROVE  /\ Fails(t) => Refused(t)
           /\ \A b \in BOOLEAN : Answer(t, b) => Told(t, b)
           /\ \A pc : Onward(t, pc) => Unmoved(t, pc)
           /\ HandOut(t) => Given(t)
<1>1. t \notin Orphans
  BY LogsAssumption
<1>2. Over(t) = "idle"
  BY <1>1 DEF Over
<1>3. QED
  BY <1>2 DEF Fails, Refused, Answer, Told, Onward, Unmoved, Still, HandOut, Given

\* A thread left behind holds no lock and is given nothing.
LEMMA OrphanForms ==
    ASSUME TypeOK, NEW o \in Orphans
    PROVE  /\ Fails(o) => Unmoved(o, IF call[o] \in Preparing THEN "gone" ELSE "idle")
           /\ \A b \in BOOLEAN : Answer(o, b) => Unmoved(o, "gone")
           /\ \A pc \in Preparing : Onward(o, pc) => Unmoved(o, pc)
           /\ \A pc \in Opening : Onward(o, pc) => Unmoved(o, "idle")
           /\ HandOut(o) => Unmoved(o, "idle")
<1>1. o \notin Tasks /\ ProcOf[o] \in Procs /\ o # NoTask
  BY LogsAssumption DEF Openers
<1>2. LetGo(o) => lock' = lock
  <2>1. lock \in [Procs -> Tasks \cup {NoTask}]
    BY DEF TypeOK
  <2>2. lock[ProcOf[o]] # o
    BY <1>1, <2>1
  <2>3. [lock EXCEPT ![ProcOf[o]] = lock[ProcOf[o]]] = lock
    BY <1>1, <2>1
  <2>4. LetGo(o) => lock' = [lock EXCEPT ![ProcOf[o]] = IF lock[ProcOf[o]] = o THEN NoTask
                                                         ELSE lock[ProcOf[o]]]
    BY DEF LetGo
  <2>5. QED
    BY <2>2, <2>3, <2>4
<1>3. \A pc \in Opening : pc \notin Preparing
  BY DEF Preparing, Opening
<1>4. Fails(o) => Unmoved(o, IF call[o] \in Preparing THEN "gone" ELSE "idle")
  BY <1>2 DEF Fails, Over, Unmoved, Still, open
<1>5. \A b \in BOOLEAN : Answer(o, b) => Unmoved(o, "gone")
  BY <1>1 DEF Answer, Unmoved, Still, open
<1>6. \A pc \in Preparing : Onward(o, pc) => Unmoved(o, pc)
  BY <1>1 DEF Onward, Unmoved, Still
<1>7. \A pc \in Opening : Onward(o, pc) => Unmoved(o, "idle")
  BY <1>1, <1>3 DEF Onward, Unmoved, Still
<1>8. HandOut(o) => Unmoved(o, "idle")
  BY <1>1, <1>2 DEF HandOut, Unmoved, Still, open
<1>9. QED
  BY <1>4, <1>5, <1>6, <1>7, <1>8

\* What a step of an open does: it moves the file, and its caller goes on, is answered,
\* is refused, or is given the log.
OpenMove(t) ==
    /\ call[t] # "idle" /\ Quiet
    /\ FileMoves /\ version' \in 0..1
    /\ Knows(t) => Knows(t)'
    /\ \/ Refused(t)
       \/ \E b \in BOOLEAN : Told(t, b)
       \/ \E pc \in Preparing \cup Opening : Unmoved(t, pc)
       \/ Given(t) /\ (found[t] => NoOld')

\* What a step of a thread left behind does: it moves the file, and a check of the file
\* stays one until it is over; only such a check puts a table aside.
OrphanMove(o) ==
    /\ call[o] # "idle" /\ Quiet
    /\ FileMoves /\ version' \in 0..1
    /\ \E pc \in Progress :
          /\ Unmoved(o, pc)
          /\ IF call[o] \in Preparing THEN pc \in Preparing \cup {"gone"}
             ELSE /\ call[o] \in Opening
                  /\ aside.shape = "none" => aside'.shape = "none"

\* Where a caller is after each.
LEMMA CallerMoves ==
    ASSUME TypeOK, NEW t \in Tasks
    PROVE  /\ Refused(t) => call'[t] = "idle" /\ handle'[t] = handle[t]
           /\ \A b \in BOOLEAN : Told(t, b) =>
                call'[t] = "ladder" /\ found'[t] = b /\ handle'[t] = handle[t]
           /\ \A pc : Unmoved(t, pc) =>
                call'[t] = pc /\ found'[t] = found[t] /\ handle'[t] = handle[t]
<1>1. t \in DOMAIN call /\ t \in DOMAIN found
  BY DEF TypeOK, Openers
<1>2. QED
  BY <1>1 DEF Refused, Told, Unmoved, Step, Still, open

\* The four reads leave the file alone.
LEMMA PrepareForm ==
    ASSUME TypeOK, NEW o \in Openers, prepare_legacy(o)
    PROVE  /\ call[o] \in Preparing /\ Quiet /\ FileMoves /\ version' \in 0..1 /\ aside' = aside
           /\ \/ \E b \in BOOLEAN : Answer(o, b)
              \/ \E pc \in Preparing : Onward(o, pc)
           /\ call[o] = "legacy" /\ aside.shape # "none" => Answer(o, TRUE)
<1>1. /\ UNCHANGED <<frozen, file, ends, counts>>
      /\ \/ /\ call[o] = "legacy"
            /\ IF aside.shape # "none" THEN Answer(o, TRUE) ELSE Onward(o, "events")
         \/ /\ call[o] = "events"
            /\ IF events.shape = "none" THEN Answer(o, FALSE) ELSE Onward(o, "version")
         \/ /\ call[o] = "version"
            /\ IF version # 0 THEN Answer(o, FALSE) ELSE Onward(o, "column")
         \/ /\ call[o] = "column"
            /\ IF events.shape = "new" THEN Answer(o, FALSE) ELSE Onward(o, "rename")
  BY DEF prepare_legacy
<1>2. call[o] \in Preparing
  BY <1>1 DEF Preparing
<1>3. FileMoves /\ version' \in 0..1 /\ aside' = aside
  BY <1>1 DEF FileMoves, file, frozen, TypeOK
<1>4. (\E b \in BOOLEAN : Answer(o, b)) \/ (\E pc \in Preparing : Onward(o, pc))
  BY <1>1 DEF Preparing
<1>5. QED
  BY <1>1, <1>2, <1>3, <1>4 DEF Quiet

\* The rename.
LEMMA RenameForm ==
    ASSUME TypeOK, NEW o \in Openers, rename(o)
    PROVE  /\ call[o] = "rename" /\ Quiet /\ FileMoves /\ version' \in 0..1
           /\ Answer(o, TRUE) \/ Fails(o)
<1>1. /\ call[o] = "rename" /\ UNCHANGED <<frozen, version, ends, counts>>
      /\ \/ MovesAside /\ Answer(o, TRUE)
         \/ UNCHANGED <<events, aside>> /\ Fails(o)
  BY DEF rename, MovesAside
<1>2. FileMoves /\ version' \in 0..1
  BY <1>1 DEF FileMoves, frozen, TypeOK
<1>3. QED
  BY <1>1, <1>2 DEF Quiet

\* The store's ladder.
LEMMA LadderForm ==
    ASSUME TypeOK, NEW o \in Openers, open_with(o)
    PROVE  /\ call[o] = "ladder" /\ Quiet /\ FileMoves /\ version' \in 0..1 /\ aside' = aside
           /\ Fails(o) \/ Onward(o, "index")
<1>1. /\ call[o] = "ladder" /\ UNCHANGED <<frozen, aside, ends, counts>>
      /\ \/ Fails(o) /\ UNCHANGED <<events, version>>
         \/ /\ Onward(o, "index") /\ version' = 1
            /\ version # 0 => events' = events
            /\ version = 0 => events.shape = "none" /\ events' = Table("new", << >>)
  BY DEF open_with
<1>2. aside' = aside /\ version' \in 0..1
  BY <1>1 DEF TypeOK
<1>3. FileMoves
  BY <1>1 DEF FileMoves, Creates, frozen
<1>4. QED
  BY <1>1, <1>2, <1>3 DEF Quiet

\* The indexes, after which a caller that met no earlier release's log has the log.
LEMMA IndexForm ==
    ASSUME TypeOK, NEW o \in Openers, ensure_indexes(o)
    PROVE  /\ call[o] = "index" /\ Quiet /\ FileMoves /\ version' \in 0..1 /\ aside' = aside
           /\ \/ Fails(o)
              \/ Onward(o, "clock")
              \/ (o \in Tasks => ~found[o]) /\ HandOut(o)
<1>1. /\ call[o] = "index" /\ UNCHANGED <<frozen, file, ends, counts>>
      /\ \/ Fails(o)
         \/ Onward(o, "clock")
         \/ (o \in Tasks => ~found[o]) /\ HandOut(o)
  BY DEF ensure_indexes
<1>2. aside' = aside /\ version' \in 0..1 /\ FileMoves
  BY <1>1 DEF TypeOK, file, frozen, FileMoves
<1>3. QED
  BY <1>1, <1>2 DEF Quiet

\* One attempt at the import.
LEMMA ImportForm ==
    ASSUME TypeOK, NEW o \in Openers, NEW order \in {"clock", "stream"}, Imports(o, order)
    PROVE  /\ call[o] = order /\ Quiet /\ FileMoves /\ version' \in 0..1
           /\ \/ UNCHANGED <<events, aside>> /\ (Fails(o) \/ Onward(o, "stream"))
              \/ events'.shape = "new" /\ aside'.shape = "none" /\ HandOut(o)
<1>1. /\ call[o] = order /\ UNCHANGED <<frozen, version, ends, counts>>
      /\ \/ UNCHANGED <<events, aside>> /\ (Fails(o) \/ Onward(o, "stream"))
         \/ ImportsAll /\ HandOut(o)
  <2>1. /\ call[o] = order /\ UNCHANGED <<frozen, version, ends, counts>>
        /\ \/ Fails(o) /\ UNCHANGED <<events, aside>>
           \/ /\ aside.shape = "old" /\ events.shape # "none"
              /\ \E rows \in LegacyRows(order) :
                   \/ UNCHANGED <<events, aside>> /\ (Fails(o) \/ Onward(o, "stream"))
                   \/ Brings(rows) /\ HandOut(o)
    BY DEF Imports, Brings
  <2>2. QED
    BY <2>1 DEF ImportsAll
<1>2. version' \in 0..1 /\ FileMoves
  BY <1>1 DEF TypeOK, frozen, FileMoves
<1>3. ImportsAll => events'.shape = "new" /\ aside'.shape = "none"
  <2>1. ImportsAll =>
          \E rows : events' = Table("new", import_legacy(rows).rows) /\ aside' = NoTable
    BY DEF ImportsAll, Brings
  <2>2. QED
    BY <2>1, TableIs
<1>4. QED
  BY <1>1, <1>2, <1>3 DEF Quiet

\* So every step of a caller's open is one of those of OpenMove.
LEMMA OpenForm ==
    ASSUME TypeOK, Held, NEW t \in Tasks, open_file(t)
    PROVE  OpenMove(t)
<1>1. t \in Openers /\ (call[t] # "idle" => ~HasLog(t))
  BY DEF Openers, Held
<1>2. CASE prepare_legacy(t)
  <2>1. /\ call[t] \in Preparing /\ Quiet /\ FileMoves /\ version' \in 0..1 /\ aside' = aside
        /\ \/ \E b \in BOOLEAN : Answer(t, b)
           \/ \E pc \in Preparing : Onward(t, pc)
        /\ call[t] = "legacy" /\ aside.shape # "none" => Answer(t, TRUE)
    BY <1>1, <1>2, PrepareForm
  <2>2. /\ (\E b \in BOOLEAN : Told(t, b)) \/ (\E pc \in Preparing : Unmoved(t, pc))
        /\ call[t] = "legacy" /\ aside.shape # "none" => Told(t, TRUE)
    BY <2>1, CallerForms
  <2>3. call[t] # "idle" /\ ~HasLog(t)
    BY <1>1, <2>1 DEF Preparing
  <2>4. ASSUME Knows(t) PROVE Knows(t)'
    <3>1. CASE call[t] # "legacy"
      BY <2>1, <2>4, <3>1 DEF Knows, LooksTrue, Preparing
    <3>2. CASE call[t] = "legacy" /\ aside.shape = "none"
      BY <2>1, <3>2 DEF Knows
    <3>3. CASE call[t] = "legacy" /\ aside.shape # "none"
      <4>1. call'[t] = "ladder" /\ found'[t] = TRUE /\ handle'[t] = handle[t]
        BY <2>2, <3>3, CallerMoves
      <4>2. QED
        BY <2>3, <4>1 DEF Knows, LooksTrue, HasLog
    <3>4. QED
      BY <3>1, <3>2, <3>3
  <2>5. QED
    BY <2>1, <2>2, <2>3, <2>4 DEF OpenMove
<1>3. CASE rename(t)
  <2>1. /\ call[t] = "rename" /\ Quiet /\ FileMoves /\ version' \in 0..1
        /\ Answer(t, TRUE) \/ Fails(t)
    BY <1>1, <1>3, RenameForm
  <2>2. Told(t, TRUE) \/ Refused(t)
    BY <2>1, CallerForms
  <2>3. /\ handle'[t] = handle[t]
        /\ (call'[t] = "ladder" /\ found'[t] = TRUE) \/ call'[t] = "idle"
    BY <2>2, CallerMoves
  <2>4. ~LooksTrue(t)'
    BY <1>1, <2>1, <2>3 DEF LooksTrue, HasLog
  <2>5. QED
    BY <2>1, <2>2, <2>4 DEF OpenMove, Knows
<1>4. CASE open_with(t)
  <2>1. /\ call[t] = "ladder" /\ Quiet /\ FileMoves /\ version' \in 0..1 /\ aside' = aside
        /\ Fails(t) \/ Onward(t, "index")
    BY <1>1, <1>4, LadderForm
  <2>2. Refused(t) \/ Unmoved(t, "index")
    BY <2>1, CallerForms
  <2>3. /\ handle'[t] = handle[t]
        /\ (call'[t] = "index" /\ found'[t] = found[t]) \/ call'[t] = "idle"
    BY <2>2, CallerMoves
  <2>4. Knows(t) => Knows(t)'
    BY <1>1, <2>1, <2>3 DEF Knows, LooksTrue, HasLog
  <2>5. QED
    BY <2>1, <2>2, <2>4 DEF OpenMove, Opening
<1>5. CASE ensure_indexes(t)
  <2>1. /\ call[t] = "index" /\ Quiet /\ FileMoves /\ version' \in 0..1 /\ aside' = aside
        /\ \/ Fails(t)
           \/ Onward(t, "clock")
           \/ ~found[t] /\ HandOut(t)
    BY <1>1, <1>5, IndexForm
  <2>2. \/ Refused(t)
        \/ Unmoved(t, "clock")
        \/ ~found[t] /\ Given(t)
    BY <2>1, CallerForms
  <2>3. ASSUME Knows(t) PROVE Knows(t)'
    <3>1. CASE ~found[t]
      BY <2>1, <2>3, <3>1 DEF Knows, LooksTrue
    <3>2. CASE Refused(t) \/ Unmoved(t, "clock")
      <4>1. handle'[t] = handle[t] /\ call'[t] \in {"idle", "clock"}
        BY <3>2, CallerMoves
      <4>2. QED
        BY <1>1, <2>1, <4>1 DEF Knows, LooksTrue, HasLog
    <3>3. QED
      BY <2>2, <3>1, <3>2
  <2>4. QED
    BY <2>1, <2>2, <2>3 DEF OpenMove, Opening
<1>6. ASSUME NEW order \in {"clock", "stream"}, Imports(t, order) PROVE OpenMove(t)
  <2>1. /\ call[t] = order /\ Quiet /\ FileMoves /\ version' \in 0..1
        /\ \/ UNCHANGED <<events, aside>> /\ (Fails(t) \/ Onward(t, "stream"))
           \/ events'.shape = "new" /\ aside'.shape = "none" /\ HandOut(t)
    BY <1>1, <1>6, ImportForm
  <2>2. call[t] # "idle" /\ ~HasLog(t)
    BY <1>1, <2>1
  <2>3. CASE Fails(t) \/ Onward(t, "stream")
    <3>1. Refused(t) \/ Unmoved(t, "stream")
      BY <2>3, CallerForms
    <3>2. handle'[t] = handle[t] /\ call'[t] \in {"idle", "stream"}
      BY <3>1, CallerMoves
    <3>3. ~LooksTrue(t)'
      BY <2>2, <3>2 DEF LooksTrue, HasLog
    <3>4. QED
      BY <2>1, <2>2, <3>1, <3>3 DEF OpenMove, Knows, Opening
  <2>4. CASE events'.shape = "new" /\ aside'.shape = "none" /\ HandOut(t)
    <3>1. Given(t)
      BY <2>4, CallerForms
    <3>2. NoOld' /\ Knows(t)'
      BY <2>4 DEF NoOld, Knows
    <3>3. QED
      BY <2>1, <2>2, <3>1, <3>2 DEF OpenMove
  <2>5. QED
    BY <2>1, <2>3, <2>4
<1>7. QED
  BY <1>2, <1>3, <1>4, <1>5, <1>6 DEF open_file, migrate_legacy

\* And every step of a thread left behind one of those of OrphanMove.
LEMMA OrphanForm ==
    ASSUME TypeOK, NEW o \in Orphans, open_file(o)
    PROVE  OrphanMove(o)
<1>1. o \in Openers
  BY DEF Openers
<1>2. Preparing \subseteq Progress /\ {"idle", "gone"} \subseteq Progress
  BY DEF Progress
<1>3. CASE prepare_legacy(o)
  <2>1. /\ call[o] \in Preparing /\ Quiet /\ FileMoves /\ version' \in 0..1
        /\ \/ \E b \in BOOLEAN : Answer(o, b)
           \/ \E pc \in Preparing : Onward(o, pc)
    BY <1>1, <1>3, PrepareForm
  <2>2. \E pc \in Preparing \cup {"gone"} : Unmoved(o, pc)
    BY <2>1, OrphanForms
  <2>3. call[o] # "idle"
    BY <2>1 DEF Preparing
  <2>4. QED
    BY <1>2, <2>1, <2>2, <2>3 DEF OrphanMove
<1>4. CASE rename(o)
  <2>1. /\ call[o] = "rename" /\ Quiet /\ FileMoves /\ version' \in 0..1
        /\ Answer(o, TRUE) \/ Fails(o)
    BY <1>1, <1>4, RenameForm
  <2>2. call[o] \in Preparing
    BY <2>1 DEF Preparing
  <2>3. Unmoved(o, "gone")
    BY <2>1, <2>2, OrphanForms
  <2>4. QED
    BY <1>2, <2>1, <2>2, <2>3 DEF OrphanMove
<1>5. CASE open_with(o) \/ ensure_indexes(o) \/ migrate_legacy(o)
  <2>1. /\ call[o] \in Opening /\ Quiet /\ FileMoves /\ version' \in 0..1
        /\ aside.shape = "none" => aside'.shape = "none"
        /\ Fails(o) \/ HandOut(o) \/ \E pc \in Opening : Onward(o, pc)
    <3>1. CASE open_with(o)
      BY <1>1, <3>1, LadderForm DEF Opening
    <3>2. CASE ensure_indexes(o)
      BY <1>1, <3>2, IndexForm DEF Opening
    <3>3. ASSUME NEW order \in {"clock", "stream"}, Imports(o, order)
          PROVE  /\ call[o] \in Opening /\ Quiet /\ FileMoves /\ version' \in 0..1
                 /\ aside.shape = "none" => aside'.shape = "none"
                 /\ Fails(o) \/ HandOut(o) \/ \E pc \in Opening : Onward(o, pc)
      <4>1. /\ call[o] = order /\ Quiet /\ FileMoves /\ version' \in 0..1
            /\ \/ UNCHANGED <<events, aside>> /\ (Fails(o) \/ Onward(o, "stream"))
               \/ events'.shape = "new" /\ aside'.shape = "none" /\ HandOut(o)
        BY <1>1, <3>3, ImportForm
      <4>2. QED
        BY <4>1 DEF Opening
    <3>4. QED
      BY <1>5, <3>1, <3>2, <3>3 DEF migrate_legacy
  <2>2. call[o] # "idle" /\ call[o] \notin Preparing
    BY <2>1 DEF Opening, Preparing
  <2>3. Unmoved(o, "idle")
    BY <2>1, <2>2, OrphanForms
  <2>4. QED
    BY <1>2, <2>1, <2>2, <2>3 DEF OrphanMove
<1>6. QED
  BY <1>3, <1>4, <1>5 DEF open_file

----------------------------------------------------------------------------
(* Every step keeps the invariant *)

\* The tables stay tables, and an old one does not come back.
LEMMA FileTypes ==
    ASSUME TypeOK, FileInv, FileMoves
    PROVE  /\ events' \in TableType /\ aside' \in TableType /\ written' \in Seq(Row)
           /\ NoOld => NoOld'
<1>1. events \in TableType /\ aside \in TableType /\ written \in Seq(Row) /\ written' = written
  BY DEF TypeOK, FileMoves
<1>2. events.rows \in Seq(Row) /\ aside.rows \in Seq(Row)
  BY <1>1 DEF TableType
<1>3. NoTable \in TableType /\ \A rows \in Seq(Row) : Table("new", rows) \in TableType
  BY DEF NoTable, Table, TableType
<1>4. NoTable.shape = "none" /\ \A rows : Table("new", rows).shape = "new"
  BY TableIs
<1>5. CASE UNCHANGED <<events, aside>> \/ MovesAside
  BY <1>1, <1>3, <1>4, <1>5 DEF MovesAside, NoOld
<1>6. CASE Creates
  <2>1. << >> \in Seq(Row)
    OBVIOUS
  <2>2. QED
    BY <1>1, <1>3, <1>4, <1>6, <2>1 DEF Creates, NoOld
<1>7. CASE ImportsAll
  <2>1. PICK order : \E rows \in LegacyRows(order) : Brings(rows)
    BY <1>7 DEF ImportsAll
  <2>2. PICK rows \in LegacyRows(order) : Brings(rows)
    BY <2>1
  <2>3. events' = Table("new", AppendAll(events.rows, rows)) /\ aside' = NoTable
    BY <2>2 DEF Brings, import_legacy
  <2>4. rows \in Seq(Row)
    <3>1. /\ rows \in [DOMAIN aside.rows -> ToSet(aside.rows)]
          /\ DOMAIN aside.rows = 1 .. Len(aside.rows) /\ Len(aside.rows) \in Nat
      BY <1>2 DEF LegacyRows
    <3>2. ToSet(aside.rows) \subseteq Row
      BY <1>2 DEF ToSet
    <3>3. rows \in [1 .. Len(aside.rows) -> Row]
      BY <3>1, <3>2
    <3>4. QED
      BY <3>1, <3>3
  <2>5. AppendAll(events.rows, rows) \in Seq(Row)
    BY <1>2, <2>4, AppendAllIs DEF Appended
  <2>6. QED
    BY <1>1, <1>3, <1>4, <2>3, <2>5 DEF NoOld
<1>8. CASE Writes
  <2>1. PICK r \in Row : events' = Table("new", AppendAll(events.rows, <<r>>))
    BY <1>8 DEF Writes
  <2>2. <<r>> \in Seq(Row) /\ aside' = aside
    BY <1>8 DEF Writes
  <2>3. AppendAll(events.rows, <<r>>) \in Seq(Row)
    BY <1>2, <2>2, AppendAllIs DEF Appended
  <2>4. QED
    BY <1>1, <1>3, <1>4, <2>1, <2>2, <2>3 DEF NoOld
<1>9. QED
  BY <1>5, <1>6, <1>7, <1>8 DEF FileMoves

\* What every step has to leave, beside the file.
LEMMA LogsInvIsNext ==
    ASSUME TypeOK', Held', Kept', FileInv', GivenAll',
           Alone' /\ Attended' => \A t \in Tasks : Knows(t)'
    PROVE  LogsInv'
BY DEF LogsInv, AloneKnows

\* How a caller writes the path does not change, and is a key.
LEMMA KeysStay ==
    ASSUME TypeOK
    PROVE  /\ \A t \in Tasks : Mine(t) \in Keys
           /\ UNCHANGED frozen => \A t \in Tasks : Mine(t)' = Mine(t)
<1>1. \A t \in Tasks : spelled[t] \in Spellings
  BY DEF TypeOK
<1>2. QED
  BY <1>1 DEF Mine, key_of, Keys, frozen

\* The processes of the openers, and the logs of the maps.
LEMMA Places ==
    ASSUME TypeOK
    PROVE  /\ \A o \in Openers : ProcOf[o] \in Procs
           /\ \A p \in Procs, k \in Keys : files[p][k] \in Tasks \cup {NoTask}
           /\ \A t \in Tasks : handle[t] \in Tasks \cup {NoTask}
           /\ NoTask \notin Tasks /\ Tasks \subseteq Openers /\ Orphans \subseteq Openers
           /\ Tasks \cap Orphans = {}
BY LogsAssumption DEF TypeOK, Openers

\* A step that leaves the file alone, and makes of the callers no more than it says.
LEMMA QuietKeeps ==
    ASSUME LogsInv, UNCHANGED <<frozen, file>>, TypeOK', Held', Kept',
           \A t \in Tasks : HasLog(t)' /\ found'[t] => HasLog(t) /\ found[t],
           Alone /\ Attended' =>
               \A t \in Tasks : LooksTrue(t)' => LooksTrue(t) /\ Attended
    PROVE  LogsInv'
<1>1. /\ TypeOK /\ FileInv /\ GivenAll
      /\ Alone /\ Attended => \A t \in Tasks : Knows(t)
  BY DEF LogsInv, AloneKnows
<1>2. UNCHANGED <<events, aside, written, callers>>
  BY DEF frozen, file
<1>3. FileInv'
  <2>1. FileMoves
    BY <1>2 DEF FileMoves
  <2>2. QED
    BY <1>1, <2>1, FileKept
<1>4. GivenAll'
  <2>1. \A t \in Tasks : HasLog(t)' /\ found'[t] => NoOld
    BY <1>1 DEF GivenAll
  <2>2. NoOld' <=> NoOld
    BY <1>2 DEF NoOld
  <2>3. QED
    BY <2>1, <2>2 DEF GivenAll
<1>5. Alone' /\ Attended' => \A t \in Tasks : Knows(t)'
  BY <1>1, <1>2 DEF Alone, Knows
<1>6. QED
  BY <1>3, <1>4, <1>5, LogsInvIsNext

CallTypes ==
    /\ call \in [Openers -> Progress]
    /\ found \in [Tasks -> BOOLEAN] /\ handle \in [Tasks -> Tasks \cup {NoTask}]
    /\ lock \in [Procs -> Tasks \cup {NoTask}]
    /\ files \in [Procs -> [Keys -> Tasks \cup {NoTask}]]

\* What the move of an opener leaves of the others.
Others(o) ==
    /\ \A x \in Openers : x # o => call'[x] = call[x]
    /\ \A u \in Tasks : u # o => found'[u] = found[u] /\ handle'[u] = handle[u]

\* The map is as it was, or has the caller's log under its key.
Entered(t) ==
    /\ handle'[t] = t /\ call'[t] = "idle"
    /\ \A p \in Procs, k \in Keys :
         files'[p][k] = IF p = ProcOf[t] /\ k = Mine(t) THEN t ELSE files[p][k]

\* A step of a caller's open changes its own caller only, who holds no log before it,
\* goes on with the lock or lets go of it, and puts its log in the map by being given it.
LEMMA CallerKeeps ==
    ASSUME TypeOK, Held, NEW t \in Tasks, OpenMove(t)
    PROVE  /\ CallTypes' /\ Others(t) /\ handle[t] = NoTask
           /\ lock' = lock \/ (call'[t] = "idle" /\ LetGo(t))
           /\ UNCHANGED open \/ Entered(t)
           /\ HasLog(t)' /\ found'[t] => NoOld'
<1>1. handle[t] = NoTask /\ call[t] # "idle"
  BY DEF OpenMove, Held, HasLog
<1>2. CallTypes /\ ProcOf[t] \in Procs /\ t \in Openers /\ Mine(t) \in Keys /\ t # NoTask
  BY Places, KeysStay DEF TypeOK, CallTypes, Progress
<1>3. \A pc \in Progress :
        Step(t, pc) => /\ call' \in [Openers -> Progress]
                       /\ call'[t] = pc /\ \A x \in Openers : x # t => call'[x] = call[x]
  BY <1>2 DEF Step, CallTypes
<1>4. LetGo(t) => lock' \in [Procs -> Tasks \cup {NoTask}]
  BY <1>2 DEF LetGo, CallTypes
<1>5. {"idle", "ladder"} \subseteq Progress /\ Preparing \cup Opening \subseteq Progress
  BY DEF Progress, Opening
<1>6. CASE Refused(t)
  <2>1. Step(t, "idle") /\ LetGo(t) /\ UNCHANGED <<found, files, handle>>
    BY <1>6 DEF Refused, open
  <2>2. /\ call' \in [Openers -> Progress]
        /\ call'[t] = "idle" /\ \A x \in Openers : x # t => call'[x] = call[x]
    BY <1>3, <1>5, <2>1
  <2>3. CallTypes' /\ Others(t)
    BY <1>2, <1>4, <2>1, <2>2 DEF CallTypes, Others
  <2>4. QED
    BY <1>1, <2>1, <2>2, <2>3 DEF open, HasLog
<1>7. ASSUME NEW b \in BOOLEAN, Told(t, b)
      PROVE  CallTypes' /\ Others(t) /\ UNCHANGED <<lock, open>> /\ ~HasLog(t)'
  <2>1. found' = [found EXCEPT ![t] = b] /\ Step(t, "ladder") /\ UNCHANGED <<lock, files, handle>>
    BY <1>7 DEF Told, open
  <2>2. /\ call' \in [Openers -> Progress]
        /\ \A x \in Openers : x # t => call'[x] = call[x]
    BY <1>3, <1>5, <2>1
  <2>3. found' \in [Tasks -> BOOLEAN] /\ \A u \in Tasks : u # t => found'[u] = found[u]
    BY <1>2, <2>1 DEF CallTypes
  <2>4. CallTypes' /\ Others(t)
    BY <1>2, <2>1, <2>2, <2>3 DEF CallTypes, Others
  <2>5. QED
    BY <1>1, <2>1, <2>4 DEF open, HasLog
<1>8. ASSUME NEW pc \in Preparing \cup Opening, Unmoved(t, pc)
      PROVE  CallTypes' /\ Others(t) /\ UNCHANGED <<lock, open>> /\ ~HasLog(t)'
  <2>1. Step(t, pc) /\ UNCHANGED <<found, lock, files, handle>>
    BY <1>8 DEF Unmoved, Still, open
  <2>2. /\ call' \in [Openers -> Progress]
        /\ \A x \in Openers : x # t => call'[x] = call[x]
    BY <1>3, <1>5, <2>1
  <2>3. CallTypes' /\ Others(t)
    BY <1>2, <2>1, <2>2 DEF CallTypes, Others
  <2>4. QED
    BY <1>1, <2>1, <2>3 DEF open, HasLog
<1>9. CASE Given(t) /\ (found[t] => NoOld')
  <2>1. /\ Step(t, "idle") /\ LetGo(t) /\ UNCHANGED found
        /\ handle' = [handle EXCEPT ![t] = t]
        /\ files' = [files EXCEPT ![ProcOf[t]] = [files[ProcOf[t]] EXCEPT ![Mine(t)] = t]]
    BY <1>9 DEF Given
  <2>2. /\ call' \in [Openers -> Progress]
        /\ call'[t] = "idle" /\ \A x \in Openers : x # t => call'[x] = call[x]
    BY <1>3, <1>5, <2>1
  <2>3. /\ handle' \in [Tasks -> Tasks \cup {NoTask}] /\ handle'[t] = t
        /\ \A u \in Tasks : u # t => handle'[u] = handle[u]
    BY <1>2, <2>1 DEF CallTypes
  <2> DEFINE mine == [files[ProcOf[t]] EXCEPT ![Mine(t)] = t]
  <2>4. /\ mine \in [Keys -> Tasks \cup {NoTask}]
        /\ \A k \in Keys : mine[k] = IF k = Mine(t) THEN t ELSE files[ProcOf[t]][k]
    <3>1. files[ProcOf[t]] \in [Keys -> Tasks \cup {NoTask}]
      BY <1>2 DEF CallTypes
    <3>2. QED
      BY <1>2, <3>1
  <2>5. files' = [files EXCEPT ![ProcOf[t]] = mine]
    BY <2>1
  <2> HIDE DEF mine
  <2>6. /\ files' \in [Procs -> [Keys -> Tasks \cup {NoTask}]]
        /\ \A p \in Procs : files'[p] = IF p = ProcOf[t] THEN mine ELSE files[p]
    BY <1>2, <2>4, <2>5 DEF CallTypes
  <2>7. Entered(t)
    BY <2>2, <2>3, <2>4, <2>6 DEF Entered
  <2>8. CallTypes' /\ Others(t)
    BY <1>2, <1>4, <2>1, <2>2, <2>3, <2>6 DEF CallTypes, Others
  <2>9. QED
    BY <1>1, <1>9, <2>1, <2>2, <2>7, <2>8
<1>10. QED
  BY <1>1, <1>6, <1>7, <1>8, <1>9 DEF OpenMove

\* A step of an open.
LEMMA OpenKeeps ==
    ASSUME LogsInv, NEW t \in Tasks, OpenMove(t)
    PROVE  LogsInv'
<1>1. /\ TypeOK /\ Held /\ Kept /\ FileInv /\ GivenAll
      /\ Alone /\ Attended => \A u \in Tasks : Knows(u)
  BY DEF LogsInv, AloneKnows
<1>2. FileInv' /\ events' \in TableType /\ aside' \in TableType /\ written' \in Seq(Row)
      /\ (NoOld => NoOld')
  BY <1>1, FileKept, FileTypes DEF OpenMove
<1>3. /\ CallTypes' /\ Others(t) /\ handle[t] = NoTask
      /\ lock' = lock \/ (call'[t] = "idle" /\ LetGo(t))
      /\ UNCHANGED open \/ Entered(t)
      /\ HasLog(t)' /\ found'[t] => NoOld'
  BY <1>1, CallerKeeps
<1>4. /\ UNCHANGED <<frozen, queue, dead, draining, host, counts>> /\ version' \in 0..1
      /\ call[t] # "idle" /\ (Knows(t) => Knows(t)')
  BY DEF OpenMove, Quiet, ends
<1>5. /\ \A o \in Openers : ProcOf[o] \in Procs
      /\ NoTask \notin Tasks /\ Tasks \subseteq Openers /\ Orphans \subseteq Openers
      /\ Tasks \cap Orphans = {}
      /\ \A u \in Tasks : Mine(u) \in Keys /\ Mine(u)' = Mine(u)
  BY <1>1, <1>4, Places, KeysStay
<1>6. TypeOK'
  BY <1>1, <1>2, <1>3, <1>4 DEF TypeOK, CallTypes, Progress, frozen
<1>7. GivenAll'
  <2>1. ASSUME NEW u \in Tasks, HasLog(u)', found'[u] PROVE NoOld'
    <3>1. CASE u = t
      BY <1>3, <2>1, <3>1
    <3>2. CASE u # t
      <4>1. HasLog(u) /\ found[u]
        BY <1>3, <2>1, <3>2 DEF HasLog, Others
      <4>2. QED
        BY <1>1, <1>2, <4>1 DEF GivenAll
    <3>3. QED
      BY <3>1, <3>2
  <2>2. QED
    BY <2>1 DEF GivenAll
<1>8. \A u \in Tasks : handle'[u] = handle[u] \/ (u = t /\ Entered(t))
  BY <1>3 DEF Others, open
<1>9. Held'
  <2>1. callers' = callers /\ t \in callers
    BY <1>1, <1>4 DEF Held, frozen
  <2>2. ASSUME NEW u \in Tasks
        PROVE  /\ HasLog(u)' => call'[u] = "idle"
               /\ HasLog(u)' \/ call'[u] # "idle" => u \in callers'
    <3>1. CASE u = t
      BY <1>3, <1>8, <2>1, <3>1 DEF HasLog, Entered
    <3>2. CASE u # t
      BY <1>1, <1>3, <1>5, <2>1, <3>2 DEF Held, HasLog, Others
    <3>3. QED
      BY <3>1, <3>2
  <2>3. \A o \in Orphans : call'[o] = call[o]
    BY <1>3, <1>5 DEF Others
  <2>4. \A o \in Orphans : call'[o] # "idle" => \E c \in callers' : ProcOf[c] = ProcOf[o]
    BY <1>1, <2>1, <2>3 DEF Held
  <2>5. QED
    BY <2>2, <2>4 DEF Held
<1> DEFINE p == ProcOf[t]
<1>10. /\ lock[p] = t /\ host[p] = "up" /\ files[p][Mine(t)] = NoTask
       /\ p \in Procs
  BY <1>1, <1>4, <1>5 DEF Kept, Locked
<1>11. \A u \in Tasks : u # t /\ ProcOf[u] = p => call[u] = "idle"
  BY <1>1, <1>10 DEF Kept, Locked
<1>12. \A q \in Procs, k \in Keys :
         files'[q][k] = files[q][k] \/ (Entered(t) /\ q = p /\ k = Mine(t) /\ files'[q][k] = t)
  BY <1>3 DEF Entered, open
<1> HIDE DEF p
<1>13. Locked'
  <2>1. ASSUME NEW u \in Tasks, call'[u] # "idle"
        PROVE  /\ lock'[ProcOf[u]] = u /\ host'[ProcOf[u]] = "up"
               /\ files'[ProcOf[u]][Mine(u)'] = NoTask
    <3>1. CASE u = t
      <4>1. lock' = lock /\ UNCHANGED open
        BY <1>3, <2>1, <3>1 DEF Entered
      <4>2. QED
        BY <1>4, <1>5, <1>10, <3>1, <4>1 DEF p, open
    <3>2. CASE u # t
      <4>1. call[u] # "idle" /\ ProcOf[u] # p /\ ProcOf[u] \in Procs
        BY <1>3, <1>5, <1>11, <2>1, <3>2 DEF Others
      <4>2. /\ lock[ProcOf[u]] = u /\ host[ProcOf[u]] = "up"
            /\ files[ProcOf[u]][Mine(u)] = NoTask
        BY <1>1, <4>1 DEF Kept, Locked
      <4>3. lock'[ProcOf[u]] = lock[ProcOf[u]]
        <5>1. lock \in [Procs -> Tasks \cup {NoTask}]
          BY <1>1 DEF TypeOK
        <5>2. QED
          BY <1>3, <4>1, <5>1 DEF LetGo, p
      <4>4. files'[ProcOf[u]][Mine(u)] = files[ProcOf[u]][Mine(u)]
        BY <1>5, <1>12, <4>1
      <4>5. QED
        BY <1>4, <1>5, <4>2, <4>3, <4>4
    <3>3. QED
      BY <3>1, <3>2
  <2>2. QED
    BY <2>1 DEF Locked
<1>14. Mapped'
  <2>1. ASSUME NEW q \in Procs, NEW k \in Keys, files'[q][k] # NoTask
        PROVE  ProcOf[files'[q][k]] = q /\ handle'[files'[q][k]] = files'[q][k]
    <3>1. CASE files'[q][k] = files[q][k]
      <4>1. ProcOf[files[q][k]] = q /\ handle[files[q][k]] = files[q][k]
        BY <1>1, <2>1, <3>1 DEF Kept, Mapped
      <4>2. files[q][k] \in Tasks /\ files[q][k] # t
        BY <1>1, <1>3, <2>1, <3>1, <4>1, Places
      <4>3. handle'[files[q][k]] = handle[files[q][k]]
        BY <1>8, <4>2
      <4>4. QED
        BY <3>1, <4>1, <4>3
    <3>2. CASE Entered(t) /\ q = p /\ k = Mine(t) /\ files'[q][k] = t
      BY <3>2 DEF Entered, p
    <3>3. QED
      BY <1>12, <3>1, <3>2
  <2>2. QED
    BY <2>1 DEF Mapped
<1>15. InMap'
  <2>1. ASSUME NEW u \in Tasks, HasLog(u)', host'[ProcOf[u]] = "up"
        PROVE  files'[ProcOf[u]][Mine(u)'] = handle'[u]
    <3>1. CASE u = t
      <4>1. Entered(t)
        BY <1>3, <1>8, <2>1, <3>1 DEF HasLog
      <4>2. QED
        BY <1>5, <1>10, <3>1, <4>1 DEF Entered, p
    <3>2. CASE u # t
      <4>1. HasLog(u) /\ host[ProcOf[u]] = "up" /\ handle'[u] = handle[u]
        BY <1>3, <1>4, <2>1, <3>2 DEF HasLog, Others
      <4>2. files[ProcOf[u]][Mine(u)] = handle[u] /\ handle[u] # NoTask
        BY <1>1, <4>1 DEF Kept, InMap, HasLog
      <4>3. ~(ProcOf[u] = p /\ Mine(u) = Mine(t))
        BY <1>10, <4>2
      <4>4. ProcOf[u] \in Procs /\ Mine(u) \in Keys /\ Mine(u)' = Mine(u)
        BY <1>5
      <4>5. files'[ProcOf[u]][Mine(u)] = files[ProcOf[u]][Mine(u)]
        BY <1>12, <4>3, <4>4
      <4>6. QED
        BY <4>1, <4>2, <4>4, <4>5
    <3>3. QED
      BY <3>1, <3>2
  <2>2. QED
    BY <2>1 DEF InMap
<1>16. Reached'
  <2>1. \A u \in Tasks : HasLog(u) => handle'[u] = handle[u]
    BY <1>3, <1>8 DEF HasLog
  <2>2. QED
    BY <1>1, <1>4, <1>5, <2>1 DEF Kept, Reached, HasLog
<1>17. Alone' /\ Attended' => \A u \in Tasks : Knows(u)'
  <2> SUFFICES ASSUME Alone', Attended', NEW u \in Tasks PROVE Knows(u)'
    OBVIOUS
  <2>1. Alone /\ callers = {t} /\ callers' = callers
    BY <1>1, <1>4 DEF Alone, Held, frozen
  <2>2. Attended
    BY <1>3, <1>5 DEF Attended, Others
  <2>3. CASE u = t
    BY <1>1, <1>4, <2>1, <2>2, <2>3
  <2>4. CASE u # t
    <3>1. ~HasLog(u)' /\ call'[u] = "idle"
      BY <1>9, <2>1, <2>4 DEF Held
    <3>2. QED
      BY <3>1 DEF Knows, LooksTrue
  <2>5. QED
    BY <2>3, <2>4
<1>18. QED
  BY <1>2, <1>6, <1>7, <1>9, <1>13, <1>14, <1>15, <1>16, <1>17, LogsInvIsNext DEF Kept

\* The logs are as they were, but for lock and host kept the same: so is what is kept.
LEMMA SameLogs ==
    ASSUME TypeOK, Kept, UNCHANGED <<frozen, lock, open, host, draining>>,
           \A t \in Tasks : call'[t] # "idle" => call[t] # "idle",
           \A t \in Tasks : dead[t] => dead'[t],
           \A t \in Tasks : queue'[t] # << >> =>
               \/ queue[t] # << >>
               \/ host[ProcOf[t]] = "up" /\ handle[t] = t
    PROVE  Kept'
<1>1. UNCHANGED <<files, handle>> /\ \A t \in Tasks : Mine(t)' = Mine(t)
  BY KeysStay DEF open
<1>2. Locked'
  BY <1>1 DEF Kept, Locked
<1>3. Mapped'
  BY <1>1 DEF Kept, Mapped
<1>4. InMap'
  BY <1>1 DEF Kept, InMap, HasLog
<1>5. Reached'
  <2>1. ASSUME NEW log \in Tasks, queue'[log] # << >>
        PROVE  /\ handle'[log] = log
               /\ \/ host'[ProcOf[log]] = "up"
                  \/ dead'[log]
                  \/ host'[ProcOf[log]] = "draining" /\ log \in draining'[ProcOf[log]]
    BY <1>1, <2>1 DEF Kept, Reached
  <2>2. QED
    BY <2>1 DEF Reached
<1>6. QED
  BY <1>2, <1>3, <1>4, <1>5 DEF Kept

\* A step of a thread left behind.
LEMMA OrphanKeeps ==
    ASSUME LogsInv, NEW o \in Orphans, OrphanMove(o)
    PROVE  LogsInv'
<1>1. /\ TypeOK /\ Held /\ Kept /\ FileInv /\ GivenAll
      /\ Alone /\ Attended => \A u \in Tasks : Knows(u)
  BY DEF LogsInv, AloneKnows
<1>2. FileInv' /\ events' \in TableType /\ aside' \in TableType /\ written' \in Seq(Row)
      /\ (NoOld => NoOld')
  BY <1>1, FileKept, FileTypes DEF OrphanMove
<1>3. PICK pc \in Progress :
        /\ Unmoved(o, pc)
        /\ IF call[o] \in Preparing THEN pc \in Preparing \cup {"gone"}
           ELSE /\ call[o] \in Opening
                /\ aside.shape = "none" => aside'.shape = "none"
  BY DEF OrphanMove
<1>4. /\ UNCHANGED <<frozen, queue, dead, draining, host, counts>> /\ version' \in 0..1
      /\ UNCHANGED <<found, lock, open>> /\ call' = [call EXCEPT ![o] = pc]
      /\ call[o] # "idle"
  BY <1>3 DEF OrphanMove, Quiet, ends, Unmoved, Still, Step
<1>5. Tasks \subseteq Openers /\ Orphans \subseteq Openers /\ Tasks \cap Orphans = {}
  BY <1>1, Places
<1>6. /\ call' \in [Openers -> Progress] /\ call'[o] = pc
      /\ \A x \in Openers : x # o => call'[x] = call[x]
      /\ \A t \in Tasks : call'[t] = call[t]
  BY <1>1, <1>4, <1>5 DEF TypeOK, Progress
<1>7. TypeOK'
  BY <1>1, <1>2, <1>4, <1>6 DEF TypeOK, Progress, frozen, open
<1>8. Held'
  BY <1>1, <1>4, <1>5, <1>6 DEF Held, HasLog, frozen, open
<1>9. Kept'
  BY <1>1, <1>4, <1>6, SameLogs
<1>10. GivenAll'
  BY <1>1, <1>2, <1>4 DEF GivenAll, HasLog, open
<1>11. Alone' /\ Attended' => \A u \in Tasks : Knows(u)'
  <2> SUFFICES ASSUME Alone', Attended', NEW u \in Tasks PROVE Knows(u)'
    OBVIOUS
  <2>1. call[o] \notin Preparing /\ call[o] # "gone"
    <3>1. pc \notin Preparing \cup {"gone"}
      BY <1>6 DEF Attended
    <3>2. "gone" \notin Opening
      BY DEF Opening
    <3>3. QED
      BY <1>3, <3>1, <3>2
  <2>2. Attended
    BY <1>5, <1>6, <2>1 DEF Attended
  <2>3. Alone
    BY <1>4 DEF Alone, frozen
  <2>4. Knows(u)
    BY <1>1, <2>2, <2>3
  <2>5. aside.shape = "none" => aside'.shape = "none"
    BY <1>3, <2>1
  <2>6. LooksTrue(u)' <=> LooksTrue(u)
    BY <1>4, <1>6 DEF LooksTrue, HasLog, open
  <2>7. QED
    BY <2>4, <2>5, <2>6 DEF Knows
<1>12. QED
  BY <1>2, <1>7, <1>8, <1>9, <1>10, <1>11, LogsInvIsNext

\* Logs::file: the log that is open is handed out, or an open begins.
LEMMA CallKeeps ==
    ASSUME LogsInv, NEW t \in Tasks, Call(t)
    PROVE  LogsInv'
<1>1. TypeOK /\ Held /\ Kept
  BY DEF LogsInv
<1> DEFINE p == ProcOf[t]
           log == files[p][Mine(t)]
<1>2. /\ t \in callers /\ handle[t] = NoTask /\ call[t] = "idle" /\ host[p] = "up"
      /\ lock[p] = NoTask
      /\ found' = [found EXCEPT ![t] = FALSE]
      /\ UNCHANGED <<frozen, file, files, ends, counts>>
      /\ \/ /\ log # NoTask /\ handle' = [handle EXCEPT ![t] = log]
            /\ UNCHANGED <<call, lock>>
         \/ /\ log = NoTask
            /\ call' = [call EXCEPT ![t] = "legacy"] /\ lock' = [lock EXCEPT ![p] = t]
            /\ UNCHANGED handle
  BY DEF Call, Calls, Step
<1>3. /\ p \in Procs /\ Mine(t) \in Keys /\ log \in Tasks \cup {NoTask} /\ t # NoTask
      /\ t \in Openers /\ Tasks \subseteq Openers /\ Orphans \subseteq Openers
      /\ Tasks \cap Orphans = {}
      /\ \A u \in Tasks : Mine(u)' = Mine(u) /\ Mine(u) \in Keys /\ ProcOf[u] \in Procs
  BY <1>1, <1>2, Places, KeysStay
<1>4. log # NoTask => ProcOf[log] = p /\ handle[log] = log
  BY <1>1, <1>3 DEF Kept, Mapped
<1>5. UNCHANGED <<files, queue, dead, draining, host>>
  BY <1>2 DEF ends
<1> HIDE DEF log
<1>6. found' \in [Tasks -> BOOLEAN] /\ found'[t] = FALSE
      /\ \A u \in Tasks : u # t => found'[u] = found[u]
  BY <1>1, <1>2 DEF TypeOK
<1>7. /\ call' \in [Openers -> Progress]
      /\ handle' \in [Tasks -> Tasks \cup {NoTask}] /\ lock' \in [Procs -> Tasks \cup {NoTask}]
      /\ \A x \in Openers : x # t => call'[x] = call[x]
      /\ \A u \in Tasks : u # t => handle'[u] = handle[u]
      /\ \A q \in Procs : q # p => lock'[q] = lock[q]
      /\ \/ /\ log # NoTask /\ handle'[t] = log /\ call'[t] = "idle"
         \/ /\ log = NoTask /\ handle'[t] = NoTask /\ call'[t] = "legacy" /\ lock'[p] = t
  <2>1. "legacy" \in Progress
    BY DEF Progress, Preparing
  <2>2. CASE /\ log # NoTask /\ handle' = [handle EXCEPT ![t] = log]
             /\ UNCHANGED <<call, lock>>
    BY <1>1, <1>2, <1>3, <2>2 DEF TypeOK, Progress
  <2>3. CASE /\ log = NoTask
             /\ call' = [call EXCEPT ![t] = "legacy"] /\ lock' = [lock EXCEPT ![p] = t]
             /\ UNCHANGED handle
    <3>1. call \in [Openers -> Progress]
      BY <1>1 DEF TypeOK, Progress
    <3>2. /\ call' \in [Openers -> Progress] /\ call'[t] = "legacy"
          /\ \A x \in Openers : x # t => call'[x] = call[x]
      BY <1>3, <2>1, <2>3, <3>1
    <3>3. QED
      BY <1>1, <1>2, <1>3, <2>3, <3>2 DEF TypeOK
  <2>4. QED
    BY <1>2, <2>2, <2>3
<1>8. TypeOK'
  BY <1>1, <1>2, <1>5, <1>6, <1>7 DEF TypeOK, Progress, frozen, file
<1>9. Held'
  <2>1. callers' = callers
    BY <1>2 DEF frozen
  <2>2. ASSUME NEW u \in Tasks
        PROVE  /\ HasLog(u)' => call'[u] = "idle"
               /\ HasLog(u)' \/ call'[u] # "idle" => u \in callers'
    <3>1. CASE u = t
      BY <1>2, <1>7, <2>1, <3>1 DEF HasLog
    <3>2. CASE u # t
      BY <1>1, <1>3, <1>7, <2>1, <3>2 DEF Held, HasLog
    <3>3. QED
      BY <3>1, <3>2
  <2>3. \A o \in Orphans : call'[o] = call[o]
    BY <1>3, <1>7
  <2>4. QED
    BY <1>1, <2>1, <2>2, <2>3 DEF Held
<1>10. Locked'
  <2>1. ASSUME NEW u \in Tasks, ProcOf[u] = p, call[u] # "idle" PROVE FALSE
    <3>1. lock[ProcOf[u]] = u
      BY <1>1, <2>1 DEF Kept, Locked
    <3>2. u # NoTask
      BY <1>1, Places
    <3>3. QED
      BY <1>2, <2>1, <3>1, <3>2
  <2>2. ASSUME NEW u \in Tasks, call'[u] # "idle"
        PROVE  /\ lock'[ProcOf[u]] = u /\ host'[ProcOf[u]] = "up"
               /\ files'[ProcOf[u]][Mine(u)'] = NoTask
    <3>1. CASE u = t
      BY <1>2, <1>3, <1>5, <1>7, <2>2, <3>1 DEF log
    <3>2. CASE u # t
      <4>1. call[u] # "idle"
        BY <1>3, <1>7, <2>2, <3>2
      <4>2. ProcOf[u] # p
        BY <2>1, <4>1
      <4>3. QED
        BY <1>1, <1>3, <1>5, <1>7, <4>1, <4>2 DEF Kept, Locked
    <3>3. QED
      BY <3>1, <3>2
  <2>3. QED
    BY <2>2 DEF Locked
<1>11. \A u \in Tasks : HasLog(u) => handle'[u] = handle[u]
  BY <1>2, <1>7 DEF HasLog
<1>12. Mapped'
  <2>1. \A q \in Procs, k \in Keys : files[q][k] \in Tasks \cup {NoTask}
    BY <1>1, Places
  <2>2. QED
    BY <1>1, <1>5, <1>11, <2>1 DEF Kept, Mapped, HasLog
<1>13. InMap'
  <2>1. ASSUME NEW u \in Tasks, HasLog(u)', host'[ProcOf[u]] = "up"
        PROVE  files'[ProcOf[u]][Mine(u)'] = handle'[u]
    <3>1. CASE u = t
      BY <1>3, <1>5, <1>7, <2>1, <3>1 DEF HasLog, log
    <3>2. CASE u # t
      BY <1>1, <1>3, <1>5, <1>7, <2>1, <3>2 DEF Kept, InMap, HasLog
    <3>3. QED
      BY <3>1, <3>2
  <2>2. QED
    BY <2>1 DEF InMap
<1>14. Reached'
  <2>1. ASSUME NEW l \in Tasks, queue'[l] # << >>
        PROVE  /\ handle'[l] = l
               /\ \/ host'[ProcOf[l]] = "up"
                  \/ dead'[l]
                  \/ host'[ProcOf[l]] = "draining" /\ l \in draining'[ProcOf[l]]
    <3>1. /\ handle[l] = l
          /\ \/ host[ProcOf[l]] = "up"
             \/ dead[l]
             \/ host[ProcOf[l]] = "draining" /\ l \in draining[ProcOf[l]]
      BY <1>1, <1>5, <2>1 DEF Kept, Reached
    <3>2. HasLog(l)
      <4>1. NoTask \notin Tasks
        BY <1>1, Places
      <4>2. QED
        BY <3>1, <4>1 DEF HasLog
    <3>3. QED
      BY <1>5, <1>11, <3>1, <3>2
  <2>2. QED
    BY <2>1 DEF Reached
<1>15. ASSUME NEW u \in Tasks, HasLog(u)', found'[u] PROVE HasLog(u) /\ found[u]
  BY <1>6, <1>7, <1>15 DEF HasLog
<1>16. ASSUME Alone, Attended', NEW u \in Tasks, LooksTrue(u)' PROVE LooksTrue(u) /\ Attended
  <2>1. Attended
    BY <1>3, <1>7, <1>16 DEF Attended
  <2>2. CASE u # t
    BY <1>3, <1>6, <1>7, <1>16, <2>1, <2>2 DEF LooksTrue, HasLog
  <2>3. CASE u = t
    <3>1. log # NoTask
      BY <1>7, <1>16, <2>3 DEF LooksTrue, HasLog
    <3>2. log \in Tasks /\ HasLog(log)
      BY <1>3, <1>4, <3>1 DEF HasLog
    <3>3. log \in callers
      BY <1>1, <3>2 DEF Held
    <3>4. log = t
      BY <1>2, <1>16, <3>3 DEF Alone
    <3>5. QED
      BY <1>2, <3>2, <3>4 DEF HasLog
  <2>4. QED
    BY <2>2, <2>3
<1>17. UNCHANGED <<frozen, file>>
  BY <1>2
<1>18. QED
  BY <1>8, <1>9, <1>10, <1>12, <1>13, <1>14, <1>15, <1>16, <1>17, QuietKeeps DEF Kept

\* The counters of the bounds.
LEMMA CountsType ==
    ASSUME TypeOK
    PROVE  /\ counts.stops < MaxStops =>
                [counts EXCEPT !.stops = @ + 1] \in [stops : 0..MaxStops, appends : 0..MaxAppends]
           /\ counts.appends < MaxAppends =>
                [counts EXCEPT !.appends = @ + 1] \in [stops : 0..MaxStops, appends : 0..MaxAppends]
<1>1. counts \in [stops : 0..MaxStops, appends : 0..MaxAppends]
      /\ MaxStops \in Nat /\ MaxAppends \in Nat
  BY LogsAssumption DEF TypeOK
<1>2. counts.stops \in 0..MaxStops /\ counts.appends \in 0..MaxAppends
  BY <1>1
<1>3. counts.stops < MaxStops => counts.stops + 1 \in 0..MaxStops
  BY <1>1, <1>2
<1>4. counts.appends < MaxAppends => counts.appends + 1 \in 0..MaxAppends
  BY <1>1, <1>2
<1>5. QED
  BY <1>1, <1>3, <1>4

\* An aborted call: its thread goes on without it, or nothing was under way.
LEMMA AbortKeeps ==
    ASSUME LogsInv, NEW t \in Tasks, Abort(t)
    PROVE  LogsInv'
<1>1. TypeOK /\ Held /\ Kept
  BY DEF LogsInv
<1>2. /\ call[t] # "idle" /\ counts.stops < MaxStops /\ LetGo(t)
      /\ counts' = [counts EXCEPT !.stops = @ + 1]
      /\ UNCHANGED <<frozen, file, found, open, ends>>
  BY DEF Abort
<1>3. /\ t \in Openers /\ Tasks \subseteq Openers /\ Orphans \subseteq Openers
      /\ Tasks \cap Orphans = {} /\ ProcOf[t] \in Procs
      /\ call \in [Openers -> Progress]
      /\ \A u \in Tasks : Mine(u)' = Mine(u) /\ ProcOf[u] \in Procs
  BY <1>1, <1>2, Places, KeysStay DEF TypeOK, Progress
<1>4. /\ call' \in [Openers -> Progress] /\ call'[t] = "idle"
      /\ \A u \in Tasks : u # t => call'[u] = call[u]
      /\ \A o \in Orphans :
            call'[o] = call[o] \/ (call[o] = "idle" /\ ProcOf[o] = ProcOf[t])
  <2>1. CASE call' = [call EXCEPT ![t] = "idle"]
    BY <1>3, <2>1 DEF Progress
  <2>2. ASSUME NEW o \in Orphans, ProcOf[o] = ProcOf[t], call[o] = "idle",
               call' = [call EXCEPT ![t] = "idle", ![o] = call[t]]
        PROVE  /\ call' \in [Openers -> Progress] /\ call'[t] = "idle"
               /\ \A u \in Tasks : u # t => call'[u] = call[u]
               /\ \A x \in Orphans :
                     call'[x] = call[x] \/ (call[x] = "idle" /\ ProcOf[x] = ProcOf[t])
    <3>1. o \in Openers /\ o \notin Tasks /\ o # t /\ "idle" \in Progress /\ call[t] \in Progress
      BY <1>3 DEF Progress
    <3>2. call' \in [Openers -> Progress]
      BY <1>3, <2>2, <3>1
    <3>3. \A x \in Openers : call'[x] = IF x = o THEN call[t] ELSE
                                         IF x = t THEN "idle" ELSE call[x]
      BY <1>3, <2>2, <3>1
    <3>4. QED
      BY <1>3, <2>2, <3>1, <3>2, <3>3
  <2>3. QED
    BY <2>1, <2>2 DEF Abort, Step
<1>5. /\ lock' \in [Procs -> Tasks \cup {NoTask}]
      /\ \A q \in Procs : q # ProcOf[t] => lock'[q] = lock[q]
  BY <1>1, <1>2, <1>3, LogsAssumption DEF LetGo, TypeOK
<1>6. counts' \in [stops : 0..MaxStops, appends : 0..MaxAppends]
  BY <1>1, <1>2, CountsType
<1>7. TypeOK'
  BY <1>1, <1>2, <1>4, <1>5, <1>6 DEF TypeOK, Progress, frozen, file, open, ends
<1>8. UNCHANGED <<files, handle, queue, dead, draining, host, callers>>
  BY <1>2 DEF open, ends, frozen
<1>9. Held'
  <2>1. t \in callers
    BY <1>1, <1>2 DEF Held
  <2>2. \A o \in Orphans : call'[o] # "idle" => \E c \in callers' : ProcOf[c] = ProcOf[o]
    BY <1>1, <1>4, <1>8, <2>1 DEF Held
  <2>3. \A u \in Tasks : call'[u] = call[u] \/ call'[u] = "idle"
    BY <1>4
  <2>4. QED
    BY <1>1, <1>8, <2>2, <2>3 DEF Held, HasLog
<1>10. Locked'
  <2>1. ASSUME NEW u \in Tasks, call'[u] # "idle"
        PROVE  /\ lock'[ProcOf[u]] = u /\ host'[ProcOf[u]] = "up"
               /\ files'[ProcOf[u]][Mine(u)'] = NoTask
    <3>1. u # t /\ call[u] # "idle"
      BY <1>4, <2>1
    <3>2. /\ lock[ProcOf[u]] = u /\ host[ProcOf[u]] = "up"
          /\ files[ProcOf[u]][Mine(u)] = NoTask /\ lock[ProcOf[t]] = t
      BY <1>1, <1>2, <3>1 DEF Kept, Locked
    <3>3. ProcOf[u] # ProcOf[t]
      BY <3>1, <3>2
    <3>4. QED
      BY <1>3, <1>5, <1>8, <3>2, <3>3
  <2>2. QED
    BY <2>1 DEF Locked
<1>11. Mapped' /\ InMap' /\ Reached'
  BY <1>1, <1>3, <1>8 DEF Kept, Mapped, InMap, Reached, HasLog
<1>12. ASSUME Attended', NEW u \in Tasks, LooksTrue(u)' PROVE LooksTrue(u) /\ Attended
  <2>1. Attended
    BY <1>4, <1>12 DEF Attended, Preparing
  <2>2. LooksTrue(u)
    BY <1>2, <1>4, <1>8, <1>12 DEF LooksTrue, HasLog
  <2>3. QED
    BY <2>1, <2>2
<1>13. \A u \in Tasks : HasLog(u)' /\ found'[u] => HasLog(u) /\ found[u]
  BY <1>2, <1>8 DEF HasLog
<1>14. UNCHANGED <<frozen, file>>
  BY <1>2
<1>15. QED
  BY <1>7, <1>9, <1>10, <1>11, <1>12, <1>13, <1>14, QuietKeeps DEF Kept

\* A step of no opener.
LEMMA NoOpenerMoves ==
    ASSUME TypeOK, Held, UNCHANGED <<frozen, call, found, open>>
    PROVE  /\ Held' /\ (Attended' <=> Attended)
           /\ \A u \in Tasks : HasLog(u)' /\ found'[u] => HasLog(u) /\ found[u]
           /\ \A u \in Tasks : LooksTrue(u)' => LooksTrue(u)
<1>1. UNCHANGED <<callers, call, found, handle>>
  BY DEF frozen, open
<1>2. QED
  BY <1>1 DEF Held, Attended, LooksTrue, HasLog

\* An append is queued.
LEMMA SubmitKeeps ==
    ASSUME LogsInv, NEW t \in Tasks, submit(t)
    PROVE  LogsInv'
<1>1. TypeOK /\ Held /\ Kept
  BY DEF LogsInv
<1> DEFINE log == handle[t]
<1>2. /\ log # NoTask /\ host[ProcOf[t]] = "up" /\ counts.appends < MaxAppends
      /\ \E s \in {Fresh} \cup DOMAIN sessions(events.rows) :
           queue' = [queue EXCEPT ![log] = Append(@, s)]
      /\ counts' = [counts EXCEPT !.appends = @ + 1]
      /\ UNCHANGED <<frozen, file, call, found, lock, open, dead, draining, host>>
  BY DEF submit
<1>3. PICK s \in {Fresh} \cup DOMAIN sessions(events.rows) :
        queue' = [queue EXCEPT ![log] = Append(@, s)]
  BY <1>2
<1>4. s \in Nat
  <2>1. events.rows \in Seq(Row)
    BY <1>1 DEF TypeOK, TableType
  <2>2. \A i \in DOMAIN events.rows : events.rows[i].stream \in Nat
    <3>1. \A i \in DOMAIN events.rows : events.rows[i] \in Row
      BY <2>1
    <3>2. \A r \in Row : r.stream \in Nat
      BY DEF Row
    <3>3. QED
      BY <3>1, <3>2
  <2>3. DOMAIN sessions(events.rows) = {events.rows[i].stream : i \in DOMAIN events.rows}
    BY DEF sessions
  <2>4. QED
    BY <2>2, <2>3, LogsAssumption
<1>5. log \in Tasks /\ handle[log] = log /\ host[ProcOf[log]] = "up"
  <2>1. log \in Tasks /\ ProcOf[t] \in Procs /\ Mine(t) \in Keys
    BY <1>1, <1>2, Places, KeysStay
  <2>2. files[ProcOf[t]][Mine(t)] = log
    BY <1>1, <1>2 DEF Kept, InMap, HasLog
  <2>3. ProcOf[log] = ProcOf[t] /\ handle[log] = log
    BY <1>1, <1>2, <2>1, <2>2 DEF Kept, Mapped
  <2>4. QED
    BY <1>2, <2>1, <2>3
<1> HIDE DEF log
<1>6. queue' \in [Tasks -> Seq(Nat)] /\ \A u \in Tasks : u # log => queue'[u] = queue[u]
  <2>1. Append(queue[log], s) \in Seq(Nat)
    BY <1>1, <1>4, <1>5 DEF TypeOK
  <2>2. QED
    BY <1>1, <1>3, <1>5, <2>1 DEF TypeOK
<1>7. counts' \in [stops : 0..MaxStops, appends : 0..MaxAppends]
  BY <1>1, <1>2, CountsType
<1>8. TypeOK'
  BY <1>1, <1>2, <1>6, <1>7 DEF TypeOK, frozen, file, open
<1>9. Kept'
  BY <1>1, <1>2, <1>5, <1>6, SameLogs
<1>10. /\ Held' /\ (Attended' <=> Attended)
       /\ \A u \in Tasks : HasLog(u)' /\ found'[u] => HasLog(u) /\ found[u]
       /\ \A u \in Tasks : LooksTrue(u)' => LooksTrue(u)
  BY <1>1, <1>2, NoOpenerMoves
<1>11. QED
  BY <1>2, <1>8, <1>9, <1>10, QuietKeeps

\* A queued append is run, or fails.
LEMMA RunKeeps ==
    ASSUME LogsInv, NEW log \in Tasks, write(log)
    PROVE  LogsInv'
<1>1. /\ TypeOK /\ Held /\ Kept /\ FileInv /\ GivenAll
      /\ Alone /\ Attended => \A u \in Tasks : Knows(u)
  BY DEF LogsInv, AloneKnows
<1> DEFINE r == [stream |-> Head(queue[log]), seq |-> 0, clock |-> 0, legacy |-> FALSE]
<1>2. /\ queue[log] # << >> /\ queue' = [queue EXCEPT ![log] = Tail(@)]
      /\ \/ UNCHANGED events
         \/ events.shape = "new" /\ events' = Table("new", AppendAll(events.rows, <<r>>))
      /\ UNCHANGED <<frozen, aside, version, call, found, lock, open, dead, draining, host,
                     counts>>
  BY DEF write
<1>3. queue[log] \in Seq(Nat) /\ Head(queue[log]) \in Nat /\ Tail(queue[log]) \in Seq(Nat)
  BY <1>1, <1>2 DEF TypeOK
<1>4. r \in Row /\ ~r.legacy
  BY <1>3 DEF Row
<1> HIDE DEF r
<1>5. FileMoves
  <2>1. written' = written
    BY <1>2 DEF frozen
  <2>2. UNCHANGED <<events, aside>> \/ Writes
    BY <1>2, <1>4 DEF Writes
  <2>3. QED
    BY <2>1, <2>2 DEF FileMoves
<1>6. FileInv' /\ events' \in TableType /\ aside' \in TableType /\ written' \in Seq(Row)
      /\ (NoOld => NoOld')
  BY <1>1, <1>5, FileKept, FileTypes
<1>7. queue' \in [Tasks -> Seq(Nat)] /\ \A u \in Tasks : u # log => queue'[u] = queue[u]
  BY <1>1, <1>2, <1>3 DEF TypeOK
<1>8. TypeOK'
  BY <1>1, <1>2, <1>6, <1>7 DEF TypeOK, frozen, open
<1>9. Kept'
  BY <1>1, <1>2, <1>7, SameLogs
<1>10. /\ Held' /\ (Attended' <=> Attended)
       /\ \A u \in Tasks : HasLog(u)' /\ found'[u] => HasLog(u) /\ found[u]
       /\ \A u \in Tasks : LooksTrue(u)' => LooksTrue(u)
  BY <1>1, <1>2, NoOpenerMoves
<1>11. GivenAll'
  BY <1>1, <1>6, <1>10 DEF GivenAll
<1>12. Alone' /\ Attended' => \A u \in Tasks : Knows(u)'
  <2>1. Alone' => Alone
    BY <1>2 DEF Alone, frozen
  <2>2. aside' = aside
    BY <1>2
  <2>3. QED
    BY <1>1, <1>10, <2>1, <2>2 DEF Knows
<1>13. QED
  BY <1>6, <1>8, <1>9, <1>10, <1>11, <1>12, LogsInvIsNext

\* The thread of a log panics.
LEMMA PanicKeeps ==
    ASSUME LogsInv, NEW log \in Tasks, panics(log)
    PROVE  LogsInv'
<1>1. TypeOK /\ Held /\ Kept
  BY DEF LogsInv
<1>2. /\ counts.stops < MaxStops /\ dead' = [dead EXCEPT ![log] = TRUE]
      /\ counts' = [counts EXCEPT !.stops = @ + 1]
      /\ UNCHANGED <<frozen, file, call, found, lock, open, queue, draining, host>>
  BY DEF panics
<1>3. dead' \in [Tasks -> BOOLEAN] /\ \A u \in Tasks : dead[u] => dead'[u]
  BY <1>1, <1>2 DEF TypeOK
<1>4. counts' \in [stops : 0..MaxStops, appends : 0..MaxAppends]
  BY <1>1, <1>2, CountsType
<1>5. TypeOK'
  BY <1>1, <1>2, <1>3, <1>4 DEF TypeOK, frozen, file, open
<1>6. Kept'
  BY <1>1, <1>2, <1>3, SameLogs
<1>7. /\ Held' /\ (Attended' <=> Attended)
      /\ \A u \in Tasks : HasLog(u)' /\ found'[u] => HasLog(u) /\ found[u]
      /\ \A u \in Tasks : LooksTrue(u)' => LooksTrue(u)
  BY <1>1, <1>2, NoOpenerMoves
<1>8. QED
  BY <1>2, <1>5, <1>6, <1>7, QuietKeeps

\* The way down: the map is drained.
LEMMA ShutdownKeeps ==
    ASSUME LogsInv, NEW p \in Procs, shutdown(p)
    PROVE  LogsInv'
<1>1. TypeOK /\ Held /\ Kept
  BY DEF LogsInv
<1> DEFINE logs == {files[p][k] : k \in Keys} \ {NoTask}
<1>2. /\ host[p] = "up" /\ lock[p] = NoTask
      /\ files' = [files EXCEPT ![p] = NoFiles]
      /\ draining' = [draining EXCEPT ![p] = logs]
      /\ host' = [host EXCEPT ![p] = IF logs = {} THEN "down" ELSE "draining"]
      /\ UNCHANGED <<frozen, file, call, found, lock, handle, queue, dead, counts>>
  BY DEF shutdown
<1>3. /\ \A u \in Tasks : Mine(u)' = Mine(u) /\ Mine(u) \in Keys /\ ProcOf[u] \in Procs
      /\ \A q \in Procs, k \in Keys : files[q][k] \in Tasks \cup {NoTask}
      /\ NoTask \notin Tasks
  BY <1>1, <1>2, Places, KeysStay
<1>4. /\ NoFiles \in [Keys -> Tasks \cup {NoTask}]
      /\ \A k \in Keys : NoFiles[k] = NoTask
  BY DEF NoFiles
<1>5. logs \subseteq Tasks
  BY <1>3
<1>6. /\ files' \in [Procs -> [Keys -> Tasks \cup {NoTask}]]
      /\ files'[p] = NoFiles /\ \A q \in Procs : q # p => files'[q] = files[q]
  BY <1>1, <1>2, <1>4 DEF TypeOK
<1>7. /\ draining' \in [Procs -> SUBSET Tasks]
      /\ draining'[p] = logs /\ \A q \in Procs : q # p => draining'[q] = draining[q]
  BY <1>1, <1>2, <1>5 DEF TypeOK
<1>8. /\ host' \in [Procs -> {"up", "draining", "down"}]
      /\ host'[p] = IF logs = {} THEN "down" ELSE "draining"
      /\ \A q \in Procs : q # p => host'[q] = host[q]
  BY <1>1, <1>2 DEF TypeOK
<1>9. TypeOK'
  BY <1>1, <1>2, <1>6, <1>7, <1>8 DEF TypeOK, frozen, file
<1>10. Locked'
  <2>1. ASSUME NEW u \in Tasks, ProcOf[u] = p, call[u] # "idle" PROVE FALSE
    <3>1. lock[ProcOf[u]] = u
      BY <1>1, <2>1 DEF Kept, Locked
    <3>2. u # NoTask
      BY <1>1, Places
    <3>3. QED
      BY <1>2, <2>1, <3>1, <3>2
  <2>2. ASSUME NEW u \in Tasks, call'[u] # "idle"
        PROVE  /\ lock'[ProcOf[u]] = u /\ host'[ProcOf[u]] = "up"
               /\ files'[ProcOf[u]][Mine(u)'] = NoTask
    <3>1. call[u] # "idle" /\ ProcOf[u] # p /\ ProcOf[u] \in Procs /\ lock' = lock
      BY <1>2, <1>3, <2>1, <2>2
    <3>2. /\ lock[ProcOf[u]] = u /\ host[ProcOf[u]] = "up"
          /\ files[ProcOf[u]][Mine(u)] = NoTask
      BY <1>1, <3>1 DEF Kept, Locked
    <3>3. files'[ProcOf[u]] = files[ProcOf[u]] /\ host'[ProcOf[u]] = host[ProcOf[u]]
      BY <1>6, <1>8, <3>1
    <3>4. QED
      BY <1>3, <3>1, <3>2, <3>3
  <2>3. QED
    BY <2>2 DEF Locked
<1>11. Mapped'
  <2>1. ASSUME NEW q \in Procs, NEW k \in Keys, files'[q][k] # NoTask
        PROVE  ProcOf[files'[q][k]] = q /\ handle'[files'[q][k]] = files'[q][k]
    <3>1. q # p
      BY <1>4, <1>6, <2>1
    <3>2. files'[q] = files[q] /\ handle' = handle
      BY <1>2, <1>6, <3>1
    <3>3. QED
      BY <1>1, <2>1, <3>2 DEF Kept, Mapped
  <2>2. QED
    BY <2>1 DEF Mapped
<1>12. InMap'
  <2>1. ASSUME NEW u \in Tasks, HasLog(u)', host'[ProcOf[u]] = "up"
        PROVE  files'[ProcOf[u]][Mine(u)'] = handle'[u]
    <3>1. ProcOf[u] # p
      BY <1>8, <2>1
    <3>2. QED
      BY <1>1, <1>2, <1>3, <1>6, <1>8, <2>1, <3>1 DEF Kept, InMap, HasLog
  <2>2. QED
    BY <2>1 DEF InMap
<1>13. Reached'
  <2>1. ASSUME NEW log \in Tasks, queue'[log] # << >>
        PROVE  /\ handle'[log] = log
               /\ \/ host'[ProcOf[log]] = "up"
                  \/ dead'[log]
                  \/ host'[ProcOf[log]] = "draining" /\ log \in draining'[ProcOf[log]]
    <3>1. handle[log] = log /\ queue[log] # << >>
      BY <1>1, <1>2, <2>1 DEF Kept, Reached
    <3>2. CASE ProcOf[log] = p
      <4>1. HasLog(log)
        BY <1>3, <3>1 DEF HasLog
      <4>2. files[p][Mine(log)] = log
        BY <1>1, <1>2, <3>1, <3>2, <4>1 DEF Kept, InMap
      <4>3. log \in logs
        BY <1>3, <4>2
      <4>4. QED
        BY <1>2, <1>7, <1>8, <3>1, <3>2, <4>3
    <3>3. CASE ProcOf[log] # p
      BY <1>1, <1>2, <1>3, <1>7, <1>8, <3>1, <3>3 DEF Kept, Reached
    <3>4. QED
      BY <3>2, <3>3
  <2>2. QED
    BY <2>1 DEF Reached
<1>14. /\ Held' /\ (Attended' <=> Attended)
       /\ \A u \in Tasks : HasLog(u)' /\ found'[u] => HasLog(u) /\ found[u]
       /\ \A u \in Tasks : LooksTrue(u)' => LooksTrue(u)
  BY <1>1, <1>2 DEF Held, Attended, LooksTrue, HasLog, frozen
<1>15. UNCHANGED <<frozen, file>>
  BY <1>2
<1>16. QED
  BY <1>9, <1>10, <1>11, <1>12, <1>13, <1>14, <1>15, QuietKeeps DEF Kept

\* A log is joined.
LEMMA JoinKeeps ==
    ASSUME LogsInv, NEW p \in Procs, NEW log \in Tasks, joined(p, log)
    PROVE  LogsInv'
<1>1. TypeOK /\ Held /\ Kept
  BY DEF LogsInv
<1> DEFINE left == draining[p] \ {log}
<1>2. /\ host[p] = "draining" /\ log \in draining[p]
      /\ queue[log] = << >> \/ dead[log]
      /\ draining' = [draining EXCEPT ![p] = left]
      /\ host' = [host EXCEPT ![p] = IF left = {} THEN "down" ELSE @]
      /\ UNCHANGED <<frozen, file, call, found, lock, open, queue, dead, counts>>
  BY DEF joined, Joins
<1>3. \A u \in Tasks : Mine(u)' = Mine(u) /\ Mine(u) \in Keys /\ ProcOf[u] \in Procs
  BY <1>1, <1>2, Places, KeysStay
<1>4. /\ draining' \in [Procs -> SUBSET Tasks]
      /\ draining'[p] = left /\ \A q \in Procs : q # p => draining'[q] = draining[q]
  BY <1>1, <1>2 DEF TypeOK
<1>5. /\ host' \in [Procs -> {"up", "draining", "down"}]
      /\ host'[p] = IF left = {} THEN "down" ELSE "draining"
      /\ \A q \in Procs : q # p => host'[q] = host[q]
  BY <1>1, <1>2 DEF TypeOK
<1>6. TypeOK'
  BY <1>1, <1>2, <1>4, <1>5 DEF TypeOK, frozen, file, open
<1>7. UNCHANGED <<files, handle>>
  BY <1>2 DEF open
<1>8. \A q \in Procs : host'[q] = "up" <=> host[q] = "up"
  BY <1>2, <1>5
<1>9. Locked' /\ Mapped' /\ InMap'
  BY <1>1, <1>2, <1>3, <1>7, <1>8 DEF Kept, Locked, Mapped, InMap, HasLog
<1>10. Reached'
  <2>1. ASSUME NEW l \in Tasks, queue'[l] # << >>
        PROVE  /\ handle'[l] = l
               /\ \/ host'[ProcOf[l]] = "up"
                  \/ dead'[l]
                  \/ host'[ProcOf[l]] = "draining" /\ l \in draining'[ProcOf[l]]
    <3>1. /\ handle[l] = l /\ queue[l] # << >>
          /\ \/ host[ProcOf[l]] = "up"
             \/ dead[l]
             \/ host[ProcOf[l]] = "draining" /\ l \in draining[ProcOf[l]]
      BY <1>1, <1>2, <2>1 DEF Kept, Reached
    <3>2. CASE dead[l] \/ ProcOf[l] # p
      BY <1>2, <1>3, <1>4, <1>5, <1>7, <3>1, <3>2
    <3>3. CASE ~dead[l] /\ ProcOf[l] = p
      <4>1. l \in draining[p] /\ l # log
        BY <1>2, <3>1, <3>3
      <4>2. l \in left
        BY <4>1
      <4>3. QED
        BY <1>4, <1>5, <1>7, <3>1, <3>3, <4>2
    <3>4. QED
      BY <3>2, <3>3
  <2>2. QED
    BY <2>1 DEF Reached
<1>11. /\ Held' /\ (Attended' <=> Attended)
       /\ \A u \in Tasks : HasLog(u)' /\ found'[u] => HasLog(u) /\ found[u]
       /\ \A u \in Tasks : LooksTrue(u)' => LooksTrue(u)
  BY <1>1, <1>2, NoOpenerMoves
<1>12. UNCHANGED <<frozen, file>>
  BY <1>2
<1>13. QED
  BY <1>6, <1>9, <1>10, <1>11, <1>12, QuietKeeps DEF Kept

\* A crash: what the process had in memory is gone.
LEMMA CrashKeeps ==
    ASSUME LogsInv, NEW p \in Procs, crash(p)
    PROVE  LogsInv'
<1>1. TypeOK /\ Held /\ Kept
  BY DEF LogsInv
<1>2. /\ counts.stops < MaxStops
      /\ call' = [o \in Openers |-> IF ProcOf[o] = p THEN "idle" ELSE call[o]]
      /\ found' = [t \in Tasks |-> IF ProcOf[t] = p THEN FALSE ELSE found[t]]
      /\ handle' = [t \in Tasks |-> IF ProcOf[t] = p THEN NoTask ELSE handle[t]]
      /\ queue' = [t \in Tasks |-> IF ProcOf[t] = p THEN << >> ELSE queue[t]]
      /\ dead' = [t \in Tasks |-> IF ProcOf[t] = p THEN FALSE ELSE dead[t]]
      /\ lock' = [lock EXCEPT ![p] = NoTask] /\ files' = [files EXCEPT ![p] = NoFiles]
      /\ draining' = [draining EXCEPT ![p] = {}] /\ host' = [host EXCEPT ![p] = "up"]
      /\ counts' = [counts EXCEPT !.stops = @ + 1]
      /\ UNCHANGED <<frozen, file>>
  BY DEF crash
<1>3. /\ Tasks \subseteq Openers /\ Orphans \subseteq Openers /\ NoTask \notin Tasks
      /\ \A u \in Tasks : Mine(u)' = Mine(u) /\ Mine(u) \in Keys /\ ProcOf[u] \in Procs
      /\ \A q \in Procs, k \in Keys : files[q][k] \in Tasks \cup {NoTask}
  BY <1>1, <1>2, Places, KeysStay
<1>4. /\ NoFiles \in [Keys -> Tasks \cup {NoTask}]
      /\ \A k \in Keys : NoFiles[k] = NoTask
  BY DEF NoFiles
<1>5. call' \in [Openers -> Progress]
  BY <1>1, <1>2 DEF TypeOK, Progress
<1>6. found' \in [Tasks -> BOOLEAN] /\ dead' \in [Tasks -> BOOLEAN]
  <2>1. found' \in [Tasks -> BOOLEAN]
    BY <1>1, <1>2 DEF TypeOK
  <2>2. dead' \in [Tasks -> BOOLEAN]
    BY <1>1, <1>2 DEF TypeOK
  <2>3. QED
    BY <2>1, <2>2
<1>7. handle' \in [Tasks -> Tasks \cup {NoTask}]
  BY <1>1, <1>2 DEF TypeOK
<1>8. queue' \in [Tasks -> Seq(Nat)]
  <2>1. << >> \in Seq(Nat) /\ queue \in [Tasks -> Seq(Nat)]
    BY <1>1 DEF TypeOK
  <2>2. QED
    BY <1>2, <2>1
<1>9. /\ files' \in [Procs -> [Keys -> Tasks \cup {NoTask}]]
      /\ files'[p] = NoFiles /\ \A q \in Procs : q # p => files'[q] = files[q]
  BY <1>1, <1>2, <1>4 DEF TypeOK
<1>10. /\ lock' \in [Procs -> Tasks \cup {NoTask}]
       /\ \A q \in Procs : q # p => lock'[q] = lock[q]
  BY <1>1, <1>2 DEF TypeOK
<1>11. /\ draining' \in [Procs -> SUBSET Tasks] /\ host' \in [Procs -> {"up", "draining", "down"}]
       /\ host'[p] = "up"
       /\ \A q \in Procs : q # p => draining'[q] = draining[q] /\ host'[q] = host[q]
  BY <1>1, <1>2 DEF TypeOK
<1>12. counts' \in [stops : 0..MaxStops, appends : 0..MaxAppends]
  BY <1>1, <1>2, CountsType
<1>13. UNCHANGED <<written, callers, spelled, events, aside, version>>
  BY <1>2 DEF frozen, file
<1>14. TypeOK'
  BY <1>1, <1>5, <1>6, <1>7, <1>8, <1>9, <1>10, <1>11, <1>12, <1>13 DEF TypeOK, Progress
<1>15. \A o \in Openers : IF ProcOf[o] = p THEN call'[o] = "idle" ELSE call'[o] = call[o]
  BY <1>2
<1>16. \A t \in Tasks :
         IF ProcOf[t] = p
         THEN found'[t] = FALSE /\ handle'[t] = NoTask /\ queue'[t] = << >> /\ dead'[t] = FALSE
         ELSE /\ found'[t] = found[t] /\ handle'[t] = handle[t]
              /\ queue'[t] = queue[t] /\ dead'[t] = dead[t]
  BY <1>2
<1>17. Held'
  <2>1. \A t \in Tasks : (HasLog(t)' => HasLog(t)) /\ (call'[t] = call[t] \/ call'[t] = "idle")
    BY <1>3, <1>15, <1>16 DEF HasLog
  <2>2. \A o \in Orphans : call'[o] = call[o] \/ call'[o] = "idle"
    BY <1>3, <1>15
  <2>3. QED
    BY <1>1, <1>13, <2>1, <2>2 DEF Held
<1>18. Locked'
  <2>1. ASSUME NEW u \in Tasks, call'[u] # "idle"
        PROVE  /\ lock'[ProcOf[u]] = u /\ host'[ProcOf[u]] = "up"
               /\ files'[ProcOf[u]][Mine(u)'] = NoTask
    <3>1. ProcOf[u] # p /\ call[u] # "idle"
      BY <1>3, <1>15, <2>1
    <3>2. QED
      BY <1>1, <1>3, <1>9, <1>10, <1>11, <3>1 DEF Kept, Locked
  <2>2. QED
    BY <2>1 DEF Locked
<1>19. Mapped'
  <2>1. ASSUME NEW q \in Procs, NEW k \in Keys, files'[q][k] # NoTask
        PROVE  ProcOf[files'[q][k]] = q /\ handle'[files'[q][k]] = files'[q][k]
    <3>1. q # p
      BY <1>4, <1>9, <2>1
    <3>2. files'[q][k] = files[q][k] /\ files[q][k] \in Tasks
      BY <1>3, <1>9, <2>1, <3>1
    <3>3. ProcOf[files[q][k]] = q /\ handle[files[q][k]] = files[q][k]
      BY <1>1, <2>1, <3>2 DEF Kept, Mapped
    <3>4. QED
      BY <1>16, <3>1, <3>2, <3>3
  <2>2. QED
    BY <2>1 DEF Mapped
<1>20. InMap'
  <2>1. ASSUME NEW u \in Tasks, HasLog(u)', host'[ProcOf[u]] = "up"
        PROVE  files'[ProcOf[u]][Mine(u)'] = handle'[u]
    <3>1. ProcOf[u] # p /\ HasLog(u) /\ handle'[u] = handle[u]
      BY <1>16, <2>1 DEF HasLog
    <3>2. QED
      BY <1>1, <1>3, <1>9, <1>11, <2>1, <3>1 DEF Kept, InMap
  <2>2. QED
    BY <2>1 DEF InMap
<1>21. Reached'
  <2>1. ASSUME NEW l \in Tasks, queue'[l] # << >>
        PROVE  /\ handle'[l] = l
               /\ \/ host'[ProcOf[l]] = "up"
                  \/ dead'[l]
                  \/ host'[ProcOf[l]] = "draining" /\ l \in draining'[ProcOf[l]]
    <3>1. ProcOf[l] # p
      BY <1>16, <2>1
    <3>2. QED
      BY <1>1, <1>3, <1>11, <1>16, <2>1, <3>1 DEF Kept, Reached
  <2>2. QED
    BY <2>1 DEF Reached
<1>22. \A u \in Tasks : HasLog(u)' /\ found'[u] => HasLog(u) /\ found[u]
  BY <1>16 DEF HasLog
<1>23. ASSUME Alone, Attended', NEW u \in Tasks, LooksTrue(u)' PROVE LooksTrue(u) /\ Attended
  <2>1. ProcOf[u] # p /\ LooksTrue(u)
    BY <1>3, <1>15, <1>16, <1>23 DEF LooksTrue, HasLog
  <2>2. callers = {u}
    <3>1. u \in callers
      BY <1>1, <2>1 DEF Held, LooksTrue
    <3>2. QED
      BY <1>23, <3>1 DEF Alone
  <2>3. ASSUME NEW o \in Orphans PROVE call[o] \notin Preparing \cup {"gone"}
    <3>1. CASE ProcOf[o] = p
      <4>1. call[o] = "idle"
        BY <1>1, <2>1, <2>2, <3>1 DEF Held
      <4>2. QED
        BY <4>1 DEF Preparing
    <3>2. CASE ProcOf[o] # p
      BY <1>3, <1>15, <1>23, <3>2 DEF Attended
    <3>3. QED
      BY <3>1, <3>2
  <2>4. QED
    BY <2>1, <2>3 DEF Attended
<1>24. UNCHANGED <<frozen, file>>
  BY <1>2
<1>25. QED
  BY <1>14, <1>17, <1>18, <1>19, <1>20, <1>21, <1>22, <1>23, <1>24, QuietKeeps DEF Kept

----------------------------------------------------------------------------
(* The theorems *)

\* At the start the file is the earlier release's, or there is none.
LEMMA LogsInit == Init => LogsInv
<1> SUFFICES ASSUME Init PROVE LogsInv
  OBVIOUS
<1>1. /\ written \in LegacyLogs /\ written \in Seq(Row)
      /\ \A i \in DOMAIN written : written[i].legacy
      /\ \A i, j \in DOMAIN written :
           written[i].stream = written[j].stream /\ written[i].seq = written[j].seq => i = j
  BY LegacyAssumption DEF Init
<1>2. /\ events.rows = written /\ events.shape \in {"none", "old"}
      /\ events.shape = "none" => written = << >>
      /\ aside = NoTable /\ aside.shape = "none" /\ aside.rows = << >>
  <2>1. CASE written = << >>
    BY <2>1, TableIs DEF Init
  <2>2. CASE written # << >>
    BY <2>2, TableIs DEF Init
  <2>3. QED
    BY <2>1, <2>2
<1>3. events \in TableType /\ aside \in TableType
  <2>1. NoTable \in TableType /\ Table("old", written) \in TableType
    BY <1>1 DEF NoTable, Table, TableType
  <2>2. QED
    BY <2>1 DEF Init
<1>4. callers \subseteq Tasks /\ spelled \in [Tasks -> Spellings]
  BY LogsAssumption DEF Init
<1>5. /\ files \in [Procs -> [Keys -> Tasks \cup {NoTask}]]
      /\ \A p \in Procs, k \in Keys : files[p][k] = NoTask
  BY DEF Init, NoFiles
<1>6. TypeOK
  BY <1>1, <1>3, <1>4, <1>5, LogsAssumption DEF Init, TypeOK
<1>7. \A t \in Tasks : ~HasLog(t) /\ call[t] = "idle" /\ queue[t] = << >>
  BY DEF Init, HasLog, Openers
<1>8. \A o \in Orphans : call[o] = "idle"
  BY DEF Init, Openers
<1>9. Held
  BY <1>7, <1>8 DEF Held
<1>10. Kept
  BY <1>5, <1>7 DEF Kept, Locked, Mapped, InMap, Reached
<1>11. FileInv
  <2>1. Whole
    BY <1>1, <1>2 DEF Whole
  <2>2. ASSUME NEW i \in DOMAIN written
        PROVE  Occurrences(events.rows, written[i]) + Occurrences(aside.rows, written[i]) = 1
    <3>1. Copies(written, written[i]) = {i}
      BY <1>1 DEF Copies
    <3>2. Occurrences(written, written[i]) = 1 /\ Occurrences(<< >>, written[i]) = 0
      BY <3>1, OccurrencesAre
    <3>3. QED
      BY <1>2, <3>2
  <2>3. QED
    BY <1>2, <2>1, <2>2, FileIs
<1>12. QED
  BY <1>6, <1>7, <1>9, <1>10, <1>11 DEF LogsInv, GivenAll, AloneKnows, Knows, LooksTrue

\* Every step keeps the invariant.
LEMMA LogsStep ==
    ASSUME LogsInv, [Next]_vars
    PROVE  LogsInv'
<1>1. TypeOK /\ Held /\ Kept
  BY DEF LogsInv
<1>2. ASSUME NEW t \in Tasks, Call(t) \/ Abort(t) \/ submit(t) \/ write(t) \/ panics(t)
      PROVE  LogsInv'
  BY <1>2, CallKeeps, AbortKeeps, SubmitKeeps, RunKeeps, PanicKeeps
<1>3. ASSUME NEW o \in Openers, open_file(o) PROVE LogsInv'
  <2>1. CASE o \in Tasks
    BY <1>1, <1>3, <2>1, OpenForm, OpenKeeps
  <2>2. CASE o \in Orphans
    BY <1>1, <1>3, <2>2, OrphanForm, OrphanKeeps
  <2>3. QED
    BY <2>1, <2>2 DEF Openers
<1>4. ASSUME NEW p \in Procs,
             shutdown(p) \/ crash(p) \/ (\E t \in Tasks : joined(p, t))
      PROVE  LogsInv'
  BY <1>4, ShutdownKeeps, CrashKeeps, JoinKeeps
<1>5. CASE UNCHANGED vars
  <2>1. /\ UNCHANGED <<frozen, file, call, found, lock, open, queue, dead, draining, host>>
        /\ UNCHANGED <<files, handle, counts, written, callers, spelled, events, aside, version>>
    BY <1>5 DEF vars, frozen, file, open, ends
  <2>2. TypeOK'
    BY <1>1, <2>1 DEF TypeOK
  <2>3. Kept'
    BY <1>1, <2>1, SameLogs
  <2>4. /\ Held' /\ (Attended' <=> Attended)
        /\ \A u \in Tasks : HasLog(u)' /\ found'[u] => HasLog(u) /\ found[u]
        /\ \A u \in Tasks : LooksTrue(u)' => LooksTrue(u)
    BY <1>1, <2>1, NoOpenerMoves
  <2>5. QED
    BY <2>1, <2>2, <2>3, <2>4, QuietKeeps
<1>6. QED
  BY <1>2, <1>3, <1>4, <1>5 DEF Next

\* So the invariant holds in every state of every behaviour.
LEMMA LogsInvariant == Spec => []LogsInv
<1>1. Init => LogsInv
  BY LogsInit
<1>2. LogsInv /\ [Next]_vars => LogsInv'
  BY LogsStep
<1>3. QED
  BY <1>1, <1>2, PTL DEF Spec

\* Nothing aside: every event an earlier release wrote is in `events`.
LEMMA NoneAside ==
    ASSUME LogsInv, aside.shape = "none", NEW i \in DOMAIN written
    PROVE  Occurrences(events.rows, written[i]) = 1
<1>1. FileInv /\ aside.rows = << >>
  BY FileIs DEF LogsInv, Whole
<1>2. Occurrences(events.rows, written[i]) + Occurrences(aside.rows, written[i]) = 1
  BY <1>1, FileIs
<1>3. Occurrences(aside.rows, written[i]) = 0
  BY <1>1, OccurrencesAre
<1>4. Occurrences(events.rows, written[i]) \in Nat
  <2>1. events.rows \in Seq(Row)
    BY DEF LogsInv, TypeOK, TableType
  <2>2. IsFiniteSet(DOMAIN events.rows)
    <3>1. DOMAIN events.rows = 1 .. Len(events.rows) /\ Len(events.rows) \in Nat
      BY <2>1
    <3>2. QED
      BY <3>1, FS_Interval
  <2>3. QED
    BY <2>2, FS_Subset, FS_CardinalityType DEF Occurrences
<1>5. QED
  BY <1>2, <1>3, <1>4

\* Who met the earlier release's log has its events, or a new table is aside.
LEMMA GivenMeans ==
    ASSUME LogsInv
    PROVE  MigratedIsComplete
<1>1. ASSUME NEW t \in Tasks, HasLog(t), found[t], aside.shape # "new"
      PROVE  \A i \in DOMAIN written : Occurrences(events.rows, written[i]) = 1
  <2>1. aside.shape # "old"
    BY <1>1 DEF LogsInv, GivenAll, NoOld
  <2>2. aside.shape = "none"
    BY <1>1, <2>1 DEF LogsInv, TypeOK, TableType
  <2>3. QED
    BY <2>2, NoneAside
<1>2. QED
  BY <1>1 DEF MigratedIsComplete

\* What one caller knows makes the log it was given complete.
LEMMA AloneMeans ==
    ASSUME LogsInv
    PROVE  AloneIsComplete
<1>1. ASSUME Alone, Attended, NEW t \in Tasks, HasLog(t), NEW i \in DOMAIN written
      PROVE  written[i].stream \in DOMAIN sessions(events.rows)
  <2>1. aside.shape = "none"
    BY <1>1 DEF LogsInv, AloneKnows, Knows, LooksTrue
  <2>2. Occurrences(events.rows, written[i]) = 1
    BY <2>1, NoneAside
  <2>3. Copies(events.rows, written[i]) # {}
    BY <2>2, OccurrencesAre
  <2>4. \E k \in DOMAIN events.rows : events.rows[k].stream = written[i].stream
    BY <2>3 DEF Copies
  <2>5. QED
    BY <2>4 DEF sessions
<1>2. QED
  BY <1>1 DEF AloneIsComplete

\* In whatever order openers of several processes crash, are aborted or meet between
\* the rename, the ladder and the import, the threads of aborted callers among them, each
\* event an earlier release wrote is in the file once, under the seq it had; every stream
\* is in its order; and who met that log and was given the new one, or is the only caller
\* and left no check of the file behind, has all of it (prepare_legacy, migrate_legacy,
\* import_legacy, Logs::file).
THEOREM TheHistoryIsKept == Spec => []HistoryKept
<1>1. LogsInv => HistoryKept
  BY AloneMeans, GivenMeans DEF LogsInv, FileInv, HistoryKept
<1>2. QED
  BY <1>1, LogsInvariant, PTL

\* Callers of a process whose spellings of the path are one key share one log, however
\* their calls overlap and are aborted, and however many keys the file has, no log that
\* was handed out is left with jobs queued when its process has shut its logs down, but
\* one whose own thread panicked (Logs::file, key_of, Logs::shutdown).
THEOREM EveryLogIsDrained == Spec => []SharedAndDrained
<1>1. LogsInv => SharedAndDrained
  <2> SUFFICES ASSUME LogsInv PROVE SharedAndDrained
    OBVIOUS
  <2>1. Kept
    BY DEF LogsInv
  <2>2. ASSUME NEW t \in Tasks, NEW u \in Tasks, ProcOf[t] = ProcOf[u],
               host[ProcOf[t]] = "up", OneKey(t, u), HasLog(t), HasLog(u)
        PROVE  handle[t] = handle[u]
    <3>1. Mine(t) = Mine(u)
      BY <2>2 DEF OneKey, Mine, key_of
    <3>2. QED
      BY <2>1, <2>2, <3>1 DEF Kept, InMap
  <2>3. DrainedWhenDown
    BY <2>1 DEF Kept, Reached, DrainedWhenDown
  <2>4. QED
    BY <2>2, <2>3 DEF SharedAndDrained, Shared
<1>2. QED
  BY <1>1, LogsInvariant, PTL
=============================================================================
