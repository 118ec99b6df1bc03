------------------------------ MODULE KnlLogs ------------------------------
(***************************************************************************)
(* The open logs of a host (knl/logs.rs) and one database file they share: *)
(* `Logs::file` opens it once per key behind a lock held across the open,  *)
(* an open brings the log of an earlier release forward, and               *)
(* `Logs::shutdown` drains what is queued on each log's writer.            *)
(*                                                                         *)
(* Four things make this hard.  The migration is three transactions (the   *)
(* rename, the store's own ladder, the import) and a process may die       *)
(* between any two.  The checks that decide on the rename are read before  *)
(* its transaction begins.  What an open does runs on threads of its own:  *)
(* a caller that is aborted lets go of the lock while its thread goes on,  *)
(* and its next call runs beside that thread.  And the key is the path as  *)
(* given when its parent cannot be made canonical, so that a process may   *)
(* have two logs on the file, and two processes (a running host and        *)
(* `agent-block knl`) have one each.                                       *)
(***************************************************************************)
EXTENDS Naturals, Sequences, FiniteSets, SequencesExt

CONSTANTS Tasks,       \* the callers; a log is named by the one that opened it
          Orphans,     \* bound: the threads that aborted callers left behind
          NoTask,      \* nobody holds the lock, no log
          Procs,       \* the processes they run in
          ProcOf,      \* [Tasks and Orphans -> Procs]
          Spellings,   \* how a caller may write the path
          Bare,        \* those with no parent to make canonical, as "knl.sqlite"
          Settings,    \* who may call in a behaviour, and how each writes the path
          LegacyLogs,  \* what an earlier release may have left
          Fresh,       \* a stream no log has yet
          MaxStops,    \* bound: crashes, panics and aborted calls
          MaxAppends   \* bound: events submitted

Row == [stream : Nat, seq : Nat, clock : Nat, legacy : BOOLEAN]

\* What an earlier release may have left: the rows of its table, whose primary key was
\* (stream, seq).
ASSUME LegacyAssumption ==
    \A rows \in LegacyLogs :
        /\ rows \in Seq(Row)
        /\ \A i \in DOMAIN rows : rows[i].legacy /\ rows[i].stream # Fresh
        /\ \A i, j \in DOMAIN rows :
              rows[i].stream = rows[j].stream /\ rows[i].seq = rows[j].seq => i = j

Openers == Tasks \cup Orphans
Keys == Spellings \cup {"file"}

ASSUME LogsAssumption ==
    /\ NoTask \notin Openers /\ Tasks \cap Orphans = {}
    /\ ProcOf \in [Openers -> Procs]
    /\ Settings \subseteq [callers : SUBSET Tasks, spelled : [Tasks -> Spellings]]
    /\ Bare \subseteq Spellings /\ "file" \notin Spellings
    /\ Fresh \in Nat /\ MaxStops \in Nat /\ MaxAppends \in Nat

VARIABLES written,   \* what the earlier release had written
          callers,   \* the tasks that call, of this behaviour
          spelled,   \* [Tasks -> how each writes the path]
          events,    \* the table `events`
          aside,     \* the table `knl_legacy_events`
          version,   \* the file's user_version
          call,      \* [Openers -> where the open of a caller, or of its thread, is]
          found,     \* [Tasks -> what its prepare_legacy answered]
          lock,      \* [Procs -> the task that holds `files`, or none]
          files,     \* [Procs -> [Keys -> the log, or none]]
          handle,    \* [Tasks -> the log it was given, or none]
          queue,     \* [Tasks -> the streams of the appends queued on its log's writer]
          dead,      \* [Tasks -> whether its log's thread has panicked]
          draining,  \* [Procs -> the logs that Logs::shutdown has yet to join]
          host,      \* [Procs -> up, draining, down]
          counts

file == <<events, aside, version>>
frozen == <<written, callers, spelled>>
open == <<files, handle>>
ends == <<queue, dead, draining, host>>
vars == <<frozen, file, call, found, lock, open, ends, counts>>

NoTable == [shape |-> "none", rows |-> << >>]
Table(shape, rows) == [shape |-> shape, rows |-> rows]

\* idle      not calling                     rename   about to begin the rename
\* legacy    is knl_legacy_events there?     ladder   SqliteEventLog::open_with
\* events    is `events` there?              index    ensure_indexes
\* version   user_version                    clock    import, ordered by clock
\* column    has `events` a position?        stream   import, ordered by stream
\* gone      the end of a prepare_legacy whose caller was aborted
Preparing == {"legacy", "events", "version", "column", "rename"}
Opening == {"ladder", "index", "clock", "stream"}

TableType == [shape : {"none", "old", "new"}, rows : Seq(Row)]

TypeOK ==
    /\ written \in Seq(Row) /\ callers \subseteq Tasks /\ spelled \in [Tasks -> Spellings]
    /\ events \in TableType /\ aside \in TableType
    /\ version \in 0..1
    /\ call \in [Openers -> {"idle", "gone"} \cup Preparing \cup Opening]
    /\ found \in [Tasks -> BOOLEAN] /\ dead \in [Tasks -> BOOLEAN]
    /\ lock \in [Procs -> Tasks \cup {NoTask}] /\ handle \in [Tasks -> Tasks \cup {NoTask}]
    /\ files \in [Procs -> [Keys -> Tasks \cup {NoTask}]]
    /\ queue \in [Tasks -> Seq(Nat)] /\ draining \in [Procs -> SUBSET Tasks]
    /\ host \in [Procs -> {"up", "draining", "down"}]
    /\ counts \in [stops : 0..MaxStops, appends : 0..MaxAppends]

NoFiles == [k \in Keys |-> NoTask]

\* A file of an earlier release, or none at all.
Init ==
    /\ written \in LegacyLogs
    /\ \E set \in Settings : callers = set.callers /\ spelled = set.spelled
    /\ events = IF written = << >> THEN NoTable ELSE Table("old", written)
    /\ aside = NoTable /\ version = 0
    /\ call = [o \in Openers |-> "idle"] /\ found = [t \in Tasks |-> FALSE]
    /\ lock = [p \in Procs |-> NoTask] /\ files = [p \in Procs |-> NoFiles]
    /\ handle = [t \in Tasks |-> NoTask]
    /\ queue = [t \in Tasks |-> << >>] /\ dead = [t \in Tasks |-> FALSE]
    /\ draining = [p \in Procs |-> {}] /\ host = [p \in Procs |-> "up"]
    /\ counts = [stops |-> 0, appends |-> 0]

----------------------------------------------------------------------------
(* Streams of a table *)

HeadSeq(rows, s) == Cardinality({i \in DOMAIN rows : rows[i].stream = s})

\* Each of `more` is appended in turn, under the next seq of its stream.
AppendAll(rows, more) ==
    LET all == rows \o more
    IN  [k \in DOMAIN all |->
           IF k <= Len(rows) THEN all[k]
           ELSE [all[k] EXCEPT !.seq = HeadSeq(SubSeq(all, 1, k), all[k].stream)]]

\* Logs::sessions: every stream, and where it got to.
sessions(rows) ==
    [s \in {rows[i].stream : i \in DOMAIN rows} |-> HeadSeq(rows, s)]

\* ORDER BY epoch_ms, stream, seq  and  ORDER BY stream, seq
ByStream(a, b) == a.stream < b.stream \/ (a.stream = b.stream /\ a.seq < b.seq)
ByClock(a, b) == a.clock < b.clock \/ (a.clock = b.clock /\ ByStream(a, b))

\* The rows an import reads, all of them, in the order of the attempt.
LegacyRows(order) ==
    {rows \in [DOMAIN aside.rows -> ToSet(aside.rows)] :
       /\ ToSet(rows) = ToSet(aside.rows)
       /\ \A i, j \in DOMAIN rows : i < j =>
             IF order = "clock" THEN ByClock(rows[i], rows[j]) ELSE ByStream(rows[i], rows[j])}

\* Mistakes the runs catch: the renumbering is not looked for; the old seq is kept, in
\* whatever order the rows come; the spelling is the key.
ImportRenumbered(rows) ==
    [rows |-> AppendAll(events.rows, rows), reordered |-> FALSE]

ImportUnordered(rows) ==
    [rows |-> events.rows \o rows, reordered |-> FALSE]

KeyAsSpelled(spelling) == spelling

\* legacy_row: what is kept of a row is all but its coordinates; `seq` is the store's.
\* import_legacy: one transaction, which answers the table it leaves, and whether a row
\* was renumbered (then it is rolled back).
import_legacy(rows) ==
    LET after == AppendAll(events.rows, rows)
    IN  [rows |-> after,
         reordered |-> \E i \in DOMAIN rows : after[Len(events.rows) + i].seq # rows[i].seq]

\* key_of: the canonical parent and the name; the path as it was given when its parent
\* cannot be made canonical (the parent of a bare name is "").
key_of(spelling) == IF spelling \in Bare THEN spelling ELSE "file"

----------------------------------------------------------------------------
(* Logs::file and the open *)

Step(o, pc) == call' = [call EXCEPT ![o] = pc]

\* The lock is let go of by the guard's drop; the thread of an aborted caller has none.
LetGo(o) ==
    LET p == ProcOf[o]
    IN  lock' = [lock EXCEPT ![p] = IF @ = o THEN NoTask ELSE @]

\* Where an open ends that hands out nothing.
Over(o) == IF o \in Orphans /\ call[o] \in Preparing THEN "gone" ELSE "idle"

Fails(o) == Step(o, Over(o)) /\ LetGo(o) /\ UNCHANGED <<found, open>>

Mine(t) == key_of(spelled[t])

\* The file is in the map: its log is handed out.  It is not: the open begins.
Calls(t) ==
    LET log == files[ProcOf[t]][Mine(t)]
    IN  /\ t \in callers /\ handle[t] = NoTask /\ call[t] = "idle"
        /\ host[ProcOf[t]] = "up"
        /\ IF log # NoTask
           THEN /\ handle' = [handle EXCEPT ![t] = log]
                /\ UNCHANGED <<call, lock>>
           ELSE /\ Step(t, "legacy") /\ lock' = [lock EXCEPT ![ProcOf[t]] = t]
                /\ UNCHANGED handle
        /\ found' = [found EXCEPT ![t] = FALSE]
        /\ UNCHANGED <<frozen, file, files, ends, counts>>

\* A mistake the runs catch: the map is looked at under the lock, the open is not.
CallUnlocked(t) == Calls(t)

\* The lock is held over the look and the open.
Call(t) == lock[ProcOf[t]] = NoTask /\ Calls(t)

\* An answer of prepare_legacy.  A thread whose caller was aborted answers nobody.
Answer(o, legacy) ==
    /\ IF o \in Tasks THEN found' = [found EXCEPT ![o] = legacy] /\ Step(o, "ladder")
                       ELSE Step(o, "gone") /\ UNCHANGED found
    /\ UNCHANGED <<lock, open>>

\* The open goes on.  An aborted one stops at the end of the job that was under way.
Onward(o, pc) ==
    /\ Step(o, IF o \in Tasks \/ pc \in Preparing THEN pc ELSE "idle")
    /\ UNCHANGED <<found, lock, open>>

\* A mistake the runs catch: a table already moved aside is taken for one that has been
\* imported.
PrepareUnfinished(o) ==
    /\ \/ call[o] = "legacy" /\ aside.shape # "none" /\ Answer(o, FALSE)
       \/ call[o] = "legacy" /\ aside.shape = "none" /\ Onward(o, "column")
       \/ call[o] = "column"
          /\ IF events.shape = "old" THEN Onward(o, "rename") ELSE Answer(o, FALSE)
    /\ UNCHANGED <<frozen, file, ends, counts>>

\* The reads of prepare_legacy, each on its own; the rename is decided by the last.
prepare_legacy(o) ==
    /\ \/ /\ call[o] = "legacy"
          /\ IF aside.shape # "none" THEN Answer(o, TRUE) ELSE Onward(o, "events")
       \/ /\ call[o] = "events"
          /\ IF events.shape = "none" THEN Answer(o, FALSE) ELSE Onward(o, "version")
       \/ /\ call[o] = "version"
          /\ IF version # 0 THEN Answer(o, FALSE) ELSE Onward(o, "column")
       \/ /\ call[o] = "column"
          /\ IF events.shape = "new" THEN Answer(o, FALSE) ELSE Onward(o, "rename")
    /\ UNCHANGED <<frozen, file, ends, counts>>

\* ALTER TABLE events RENAME TO knl_legacy_events, in its transaction.
rename(o) ==
    /\ call[o] = "rename"
    /\ IF events.shape # "none" /\ aside.shape = "none"
       THEN /\ aside' = events /\ events' = NoTable
            /\ Answer(o, TRUE)
       ELSE Fails(o) /\ UNCHANGED <<events, aside>>
    /\ UNCHANGED <<frozen, version, ends, counts>>

\* The store's ladder: it creates its schema in a file of version 0 that has no
\* `events`, and refuses one that has.
open_with(o) ==
    /\ call[o] = "ladder"
    /\ IF version = 0 /\ events.shape # "none"
       THEN Fails(o) /\ UNCHANGED <<events, version>>
       ELSE /\ version' = 1
            /\ events' = IF version = 0 THEN Table("new", << >>) ELSE events
            /\ Onward(o, "index")
    /\ UNCHANGED <<frozen, aside, ends, counts>>

HandOut(o) ==
    /\ Step(o, "idle") /\ LetGo(o)
    /\ IF o \in Tasks
       THEN /\ handle' = [handle EXCEPT ![o] = o]
            /\ files' = [files EXCEPT ![ProcOf[o]] = [@ EXCEPT ![Mine(o)] = o]]
       ELSE UNCHANGED open
    /\ UNCHANGED found

\* A mistake the runs catch: handed out, and then imported.
HandsOutFirst(o) ==
    /\ call[o] = "index" /\ events.shape # "none" /\ HandOut(o)
    /\ UNCHANGED <<frozen, file, ends, counts>>

\* ensure_indexes: an index on `events`, which has to be there.
ensure_indexes(o) ==
    /\ call[o] = "index"
    /\ IF events.shape = "none" THEN Fails(o)
       ELSE IF o \in Tasks /\ found[o] THEN Onward(o, "clock") ELSE HandOut(o)
    /\ UNCHANGED <<frozen, file, ends, counts>>

\* One attempt; the import and the drop land together or not at all.  Only a
\* renumbering is answered by the other order.
Imports(o, order) ==
    /\ call[o] = order
    /\ \/ /\ aside.shape # "old" \/ events.shape = "none"
          /\ Fails(o) /\ UNCHANGED <<events, aside>>
       \/ /\ aside.shape = "old" /\ events.shape # "none"
          /\ \E rows \in LegacyRows(order) :
               LET got == import_legacy(rows)
               IN  \/ /\ got.reordered
                      /\ IF order = "clock" THEN Onward(o, "stream") ELSE Fails(o)
                      /\ UNCHANGED <<events, aside>>
                   \/ /\ ~got.reordered
                      /\ events' = Table("new", got.rows) /\ aside' = NoTable
                      /\ HandOut(o)
    /\ UNCHANGED <<frozen, version, ends, counts>>

migrate_legacy(o) == Imports(o, "clock") \/ Imports(o, "stream")

\* A mistake the runs catch: an aborted open keeps the lock.
AbortLocked(t) ==
    /\ call[t] # "idle" /\ counts.stops < MaxStops
    /\ call' = [call EXCEPT ![t] = "idle"]
    /\ counts' = [counts EXCEPT !.stops = @ + 1]
    /\ UNCHANGED <<frozen, file, found, lock, open, ends>>

\* The caller is aborted inside the open: the future is dropped, and the lock with it.
\* What was under way goes on without it, and a job not yet sent is never run.
Abort(t) ==
    /\ call[t] # "idle" /\ counts.stops < MaxStops
    /\ LetGo(t)
    /\ \/ call[t] \in Opening /\ Step(t, "idle")
       \/ \E o \in Orphans :
             /\ ProcOf[o] = ProcOf[t] /\ call[o] = "idle"
             /\ call' = [call EXCEPT ![t] = "idle", ![o] = call[t]]
    /\ counts' = [counts EXCEPT !.stops = @ + 1]
    /\ UNCHANGED <<frozen, file, found, open, ends>>

----------------------------------------------------------------------------
(* The logs in use, the way down, and a crash *)

\* An append submitted and not waited for, as the drop backstop does, to a stream of the
\* log or to a new one.
submit(t) ==
    LET log == handle[t] IN
    /\ log # NoTask /\ host[ProcOf[t]] = "up" /\ counts.appends < MaxAppends
    /\ ~dead[log]
    /\ \E s \in {Fresh} \cup DOMAIN sessions(events.rows) :
           queue' = [queue EXCEPT ![log] = Append(@, s)]
    /\ counts' = [counts EXCEPT !.appends = @ + 1]
    /\ UNCHANGED <<frozen, file, call, found, lock, open, dead, draining, host>>

\* A log's writer thread runs the job at the head of its queue, which may fail.
write(log) ==
    /\ queue[log] # << >> /\ ~dead[log]
    /\ queue' = [queue EXCEPT ![log] = Tail(@)]
    /\ \/ UNCHANGED events
       \/ /\ events.shape = "new"
          /\ events' = Table("new", AppendAll(events.rows,
                          <<[stream |-> Head(queue[log]), seq |-> 0, clock |-> 0,
                             legacy |-> FALSE]>>))
    /\ UNCHANGED <<frozen, aside, version, call, found, lock, open, dead, draining, host,
                   counts>>

\* The thread of a log panics, and what is queued on it is never run.
panics(log) ==
    /\ handle[log] = log /\ ~dead[log] /\ counts.stops < MaxStops
    /\ dead' = [dead EXCEPT ![log] = TRUE]
    /\ counts' = [counts EXCEPT !.stops = @ + 1]
    /\ UNCHANGED <<frozen, file, call, found, lock, open, queue, draining, host>>

\* Logs::shutdown: the map is drained, then each log runs what is queued and stops.  The
\* host calls it once no VM is left to call `file` (HostRun).
shutdown(p) ==
    LET logs == {files[p][k] : k \in Keys} \ {NoTask} IN
    /\ host[p] = "up" /\ lock[p] = NoTask
    /\ files' = [files EXCEPT ![p] = NoFiles]
    /\ draining' = [draining EXCEPT ![p] = logs]
    /\ host' = [host EXCEPT ![p] = IF logs = {} THEN "down" ELSE "draining"]
    /\ UNCHANGED <<frozen, file, call, found, lock, handle, queue, dead, counts>>

\* A log is joined, and those of `left` are still to be.
Joins(p, log, left) ==
    /\ host[p] = "draining" /\ log \in draining[p]
    /\ queue[log] = << >> \/ dead[log]
    /\ draining' = [draining EXCEPT ![p] = left]
    /\ host' = [host EXCEPT ![p] = IF left = {} THEN "down" ELSE @]
    /\ UNCHANGED <<frozen, file, call, found, lock, open, queue, dead, counts>>

\* A mistake the runs catch: the first failure ends the way down.
JoinsUntilOneFails(p, log) ==
    Joins(p, log, IF dead[log] THEN {} ELSE draining[p] \ {log})

\* The log has run what was queued on it, or its thread has panicked; that is collected,
\* and the next log is joined.
joined(p, log) == Joins(p, log, draining[p] \ {log})

\* What a process had in memory is gone, and it is started again.
crash(p) ==
    /\ counts.stops < MaxStops
    /\ LET Its(f, S, v) == [o \in S |-> IF ProcOf[o] = p THEN v ELSE f[o]]
       IN  /\ call' = Its(call, Openers, "idle") /\ found' = Its(found, Tasks, FALSE)
           /\ handle' = Its(handle, Tasks, NoTask) /\ queue' = Its(queue, Tasks, << >>)
           /\ dead' = Its(dead, Tasks, FALSE)
    /\ lock' = [lock EXCEPT ![p] = NoTask] /\ files' = [files EXCEPT ![p] = NoFiles]
    /\ draining' = [draining EXCEPT ![p] = {}] /\ host' = [host EXCEPT ![p] = "up"]
    /\ counts' = [counts EXCEPT !.stops = @ + 1]
    /\ UNCHANGED <<frozen, file>>

open_file(o) ==
    prepare_legacy(o) \/ rename(o) \/ open_with(o) \/ ensure_indexes(o) \/ migrate_legacy(o)

Next ==
    \/ \E t \in Tasks : Call(t) \/ Abort(t) \/ submit(t) \/ write(t) \/ panics(t)
    \/ \E o \in Openers : open_file(o)
    \/ \E p \in Procs : shutdown(p) \/ crash(p) \/ \E t \in Tasks : joined(p, t)

\* Some caller that has no log comes back, and some open goes on; of a thread left behind
\* nothing is assumed.
Fairness ==
    /\ WF_vars(\E t \in Tasks : Call(t))
    /\ WF_vars(\E t \in Tasks : open_file(t))

Spec == Init /\ [][Next]_vars /\ Fairness

----------------------------------------------------------------------------
(* What has to hold *)

Occurrences(rows, r) ==
    Cardinality({i \in DOMAIN rows : rows[i].legacy /\ rows[i].stream = r.stream
                                     /\ rows[i].seq = r.seq /\ rows[i].clock = r.clock})

\* Whoever opens, dies or is aborted in whatever order, each event an earlier release
\* wrote is in the file once, under the seq it had (migrate_legacy and its per-row check).
LegacyKept ==
    \A i \in DOMAIN written :
        Occurrences(events.rows, written[i]) + Occurrences(aside.rows, written[i]) = 1

\* The stream order of a log is its numbering: an import that found the clock running
\* backwards did not leave a stream out of order (the second, BY_STREAM, attempt).
StreamsInOrder ==
    \A table \in {events, aside} : table.shape = "new" =>
        \A i \in DOMAIN table.rows :
            table.rows[i].seq = HeadSeq(SubSeq(table.rows, 1, i), table.rows[i].stream)

HasLog(t) == handle[t] # NoTask

\* A caller that met an earlier release's log and was given the log has all of it, a
\* crash or an abort between the rename and the import notwithstanding; unless another
\* opener has moved the new table aside (OwnedStays).
MigratedIsComplete ==
    \A t \in Tasks : HasLog(t) /\ found[t] =>
        \/ aside.shape = "new"
        \/ \A i \in DOMAIN written : Occurrences(events.rows, written[i]) = 1

Alone == \E t \in Tasks : callers = {t}

\* No thread that checks the file for an earlier release was left behind by its caller.
Attended == \A o \in Orphans : call[o] \notin Preparing \cup {"gone"}

\* With one caller, no handle shows a log without its history: every session of the
\* earlier release is listed, through crashes and aborts anywhere in the open but beside
\* the caller's own abandoned checks.
AloneIsComplete ==
    Alone /\ Attended =>
        \A t \in Tasks : HasLog(t) =>
            \A i \in DOMAIN written : written[i].stream \in DOMAIN sessions(events.rows)

\* A caller that keeps calling gets a log, after at most MaxStops crashes and aborts and
\* beside the threads they left, unless its process is brought down or such a thread has
\* moved the new table aside.
AloneGetsIn ==
    Alone ~> \/ \E t \in callers : HasLog(t) \/ host[ProcOf[t]] # "up"
             \/ aside.shape = "new"

\* The migration loses, doubles and renumbers nothing, in whatever order openers crash,
\* are aborted or meet, and who is given the log is given all of it.
HistoryKept == TypeOK /\ LegacyKept /\ StreamsInOrder /\ MigratedIsComplete /\ AloneIsComplete

\* Two spellings of the file that Logs::file says are one key.
OneKey(t, u) == spelled[t] = spelled[u] \/ {spelled[t], spelled[u]} \cap Bare = {}

\* Callers of one process who spell the path alike, or with a parent there is, share a
\* log, however their calls overlap and are aborted.
Shared ==
    \A t, u \in Tasks :
        /\ ProcOf[t] = ProcOf[u] /\ host[ProcOf[t]] = "up" /\ OneKey(t, u)
        /\ HasLog(t) /\ HasLog(u)
        => handle[t] = handle[u]

\* A process that has shut its logs down left nothing queued on any log it ever handed
\* out, but on one whose thread had panicked, and a panic of one keeps no other from it.
DrainedWhenDown ==
    \A log \in Tasks : host[ProcOf[log]] = "down" => queue[log] = << >> \/ dead[log]

\* What every caller appends to is one log for a key, and is drained before the end.
SharedAndDrained == Shared /\ DrainedWhenDown

\* logs.rs says that prepare_legacy leaves alone a file eventsdb already owns: its table
\* is never the one moved aside.
OwnedStays == aside.shape # "new"
=============================================================================
