-------------------------- MODULE JobManagerProofs --------------------------
(***************************************************************************)
(* Theorems about JobManager, for any jobs, runs, cap and bounds: the      *)
(* record never shows two live runs of a job or more than max_runs runs,   *)
(* a process the manager holds is one of them, and nothing is left over by *)
(* a manager that left or by the ones before.                              *)
(*                                                                         *)
(* job.tick decides on a record it read earlier, and another task records  *)
(* the start.  What is one to a job is therefore not the live runs but the *)
(* claims: the runs that are live, are about to be recorded by their task, *)
(* or are in the hands of the log's writer.                                *)
(***************************************************************************)
EXTENDS JobManager, FiniteSetTheorems, WellFoundedInduction, TLAPS

----------------------------------------------------------------------------
(* The invariant *)

Started(l) == {r \in Runs : Has(l, "run_started", r)}
Ended(l) == {r \in Runs : Has(l, "run_ended", r)}

\* The runs with a start that is not of session n.
Earlier(l, n) ==
    {r \in Runs : \E i \in DOMAIN l : /\ l[i].kind = "run_started" /\ l[i].run = r
                                      /\ l[i].session # n}

\* Every stop names a run.
StopsNamed(l) == \A i \in DOMAIN l : l[i].kind = "run_stop_requested" => l[i].run \in Runs

Claims ==
    Live(log) \cup {r \in Runs : task[r] = "spawned" \/ <<"run_started", r>> \in sent}

Ticking == {"sleep", "read", "stops", "killing", "byhand", "reread", "plan"}
Acting == {"started", "exec", "exited"}
Over == {"done", "aborted", "left"}

\* Where the loop is while the manager is in each of its states.
Phases ==
    /\ mgr \in {"down", "left"} => loop.pc = "off"
    /\ mgr = "starting" <=> loop.pc = "reconcile"
    /\ mgr = "up" <=> loop.pc \in Ticking
    /\ loop.pc \in {"killing", "byhand", "gone"} => loop.todo # << >>
    /\ loop.seen <= Len(log)

\* What the record says of a run in each state of its task.
TaskOK(r) ==
    /\ task[r] \in {"none", "spawned"} => r \notin Started(log)
    /\ task[r] \in Acting => r \in Live(log)
    /\ proc[r] = "running" => task[r] = "exec"
    /\ task[r] \in Acting \cup {"spawned"} =>
          mgr \in {"up", "leaving"} /\ loop.pc # "close"
    /\ task[r] = "left" => mgr = "leaving"
    /\ task[r] = "spawned" => loop.pc \notin Ticking \ {"sleep"}

\* What the log's writer still has is of a task that is no more.
SentOK(r) ==
    /\ <<"run_started", r>> \in sent =>
          r \notin Started(log) /\ task[r] \in Over /\ mgr \in {"leaving", "left"}
    /\ <<"run_ended", r>> \in sent => r \in Started(log) /\ task[r] \in Over

\* The ends that are to be written are of runs whose task is no more.
TodoOK ==
    /\ \A k \in DOMAIN loop.todo :
          loop.pc \in {"reconcile", "close"} \/ (loop.pc = "byhand" /\ k = 1) =>
             loop.todo[k] \in Started(log) /\ task[loop.todo[k]] \in Over
    /\ loop.pc = "reconcile" => Live(log) \subseteq {loop.todo[k] : k \in DOMAIN loop.todo}

\* One claim to a job, and no more than the cap.
ClaimsOK ==
    /\ \A q, r \in Claims : JobOf[q] = JobOf[r] => q = r
    /\ IsFiniteSet(Claims) /\ Cardinality(Claims) <= max_runs

\* What is live was live when the plan was read, and is this manager's.
ReadOK ==
    /\ Ended(log) \subseteq Started(log) /\ StopsNamed(log)
    /\ loop.pc = "plan" => Live(log) \subseteq Live(Seen)
    /\ mgr = "up" => Live(log) \cap Earlier(log, counts.starts) = {}
    /\ mgr \in {"down", "starting"} => sent = {}

IInv ==
    /\ TypeOK /\ Phases /\ TodoOK /\ ClaimsOK /\ ReadOK
    /\ \A r \in Runs : TaskOK(r) /\ SentOK(r)

----------------------------------------------------------------------------
(* Induction over the naturals *)

\* A non-empty set of naturals has a least element.
LEMMA LeastNat ==
    ASSUME NEW B \in SUBSET Nat, B # {}
    PROVE  \E n \in B : \A m \in B : n <= m
<1> DEFINE T == {0 .. n : n \in B}
<1>1. IsWellFoundedOn(StrictSubsetOrdering(Nat), FiniteSubsetsOf(Nat))
  BY FS_StrictSubsetOrderingWellFounded
<1>2. T \subseteq FiniteSubsetsOf(Nat)
  <2>1. SUFFICES ASSUME NEW n \in B PROVE 0 .. n \in FiniteSubsetsOf(Nat)
    OBVIOUS
  <2>2. IsFiniteSet(0 .. n)
    BY FS_Interval
  <2>3. QED
    BY <2>2 DEF FiniteSubsetsOf
<1>3. T # {}
  OBVIOUS
<1> HIDE DEF T
<1>4. PICK x \in T : \A y \in T : ~ (<<y, x>> \in StrictSubsetOrdering(Nat))
  BY <1>1, <1>2, <1>3, WFMin
<1>5. PICK n \in B : x = 0 .. n
  BY DEF T
<1>6. ASSUME NEW m \in B, m < n PROVE FALSE
  <2>1. 0 .. m \in T
    BY DEF T
  <2>2. n \in 0 .. n /\ n \notin 0 .. m
    BY <1>6
  <2>3. 0 .. m \in SUBSET Nat /\ 0 .. n \in SUBSET Nat
        /\ 0 .. m \subseteq 0 .. n /\ 0 .. m # 0 .. n
    BY <2>2, <1>6
  <2>4. QED
    BY <1>4, <1>5, <2>1, <2>3 DEF StrictSubsetOrdering
<1>7. QED
  BY <1>6

\* A set that holds 0 and is closed under successor holds every natural.
LEMMA SetInduction ==
    ASSUME NEW S, 0 \in S, \A n \in Nat : n \in S => n + 1 \in S
    PROVE  \A n \in Nat : n \in S
<1> SUFFICES ASSUME ~ (\A n \in Nat : n \in S) PROVE FALSE
  OBVIOUS
<1> DEFINE B == Nat \ S
<1>1. B \in SUBSET Nat /\ B # {}
  OBVIOUS
<1>2. PICK n \in B : \A m \in B : n <= m
  BY <1>1, LeastNat
<1>3. n # 0
  BY <1>2
<1>4. n - 1 \in Nat /\ n - 1 \notin B
  BY <1>2, <1>3
<1>5. QED
  BY <1>2, <1>4

----------------------------------------------------------------------------
(* The record *)

\* LIVE_SQL, in terms of what started and what ended.
LEMMA LiveIs ==
    ASSUME NEW l
    PROVE  Live(l) = Started(l) \ Ended(l) /\ Started(l) \subseteq Runs /\ Ended(l) \subseteq Runs
BY DEF Live, Started, Ended

\* A run with a start of another session has a start.
LEMMA EarlierStarted ==
    ASSUME NEW l, NEW n
    PROVE  Earlier(l, n) \subseteq Started(l)
BY DEF Earlier, Started, Has

\* What an entry at the end of the record changes about what it has.
LEMMA HasAppend ==
    ASSUME NEW l \in Seq(Event), NEW e \in Event, NEW k, NEW r
    PROVE  Has(Append(l, e), k, r) <=> Has(l, k, r) \/ (e.kind = k /\ e.run = r)
<1> DEFINE m == Append(l, e)
<1>1. /\ Len(m) = Len(l) + 1 /\ DOMAIN l = 1 .. Len(l) /\ DOMAIN m = 1 .. Len(m)
      /\ Len(l) \in Nat /\ m[Len(m)] = e
      /\ \A i \in 1 .. Len(l) : m[i] = l[i]
  OBVIOUS
<1> HIDE DEF m
<1>2. ASSUME Has(l, k, r) PROVE Has(m, k, r)
  BY <1>1, <1>2 DEF Has
<1>3. ASSUME e.kind = k, e.run = r PROVE Has(m, k, r)
  BY <1>1, <1>3 DEF Has
<1>4. ASSUME Has(m, k, r), ~ Has(l, k, r) PROVE e.kind = k /\ e.run = r
  <2>1. PICK i \in DOMAIN m : m[i].kind = k /\ m[i].run = r
    BY <1>4 DEF Has
  <2>2. i = Len(m)
    BY <1>1, <1>4, <2>1 DEF Has
  <2>3. QED
    BY <1>1, <2>1, <2>2
<1>5. QED
  BY <1>2, <1>3, <1>4 DEF m

\* What the steps that write leave true of the record.  S and E are the runs
\* whose start, and whose end, was written.
Wrote(S, E) ==
    /\ log' \in Seq(Event) /\ Len(log) <= Len(log')
    /\ \A k \in 0 .. Len(log) : SubSeq(log', 1, k) = SubSeq(log, 1, k)
    /\ Started(log') = Started(log) \cup S /\ Ended(log') = Ended(log) \cup E
    /\ Earlier(log', counts.starts) = Earlier(log, counts.starts)
    /\ StopsNamed(log')

\* One entry, stamped with the session of this start (append).
LEMMA WroteOne ==
    ASSUME log \in Seq(Event), StopsNamed(log), NEW e \in Event, log' = Append(log, e),
           e.session = counts.starts,
           e.kind \in {"run_started", "run_ended", "run_stop_requested"} => e.run \in Runs
    PROVE  Wrote(IF e.kind = "run_started" THEN {e.run} ELSE {},
                 IF e.kind = "run_ended" THEN {e.run} ELSE {})
<1>1. /\ Len(log') = Len(log) + 1 /\ DOMAIN log = 1 .. Len(log) /\ DOMAIN log' = 1 .. Len(log')
      /\ Len(log) \in Nat /\ log'[Len(log')] = e /\ log' \in Seq(Event)
      /\ \A i \in 1 .. Len(log) : log'[i] = log[i]
  OBVIOUS
<1>2. ASSUME NEW k \in 0 .. Len(log) PROVE SubSeq(log', 1, k) = SubSeq(log, 1, k)
  BY <1>1
<1>3. \A k, r : Has(log', k, r) <=> Has(log, k, r) \/ (e.kind = k /\ e.run = r)
  BY HasAppend
<1>4. Started(log') = Started(log) \cup (IF e.kind = "run_started" THEN {e.run} ELSE {})
  BY <1>3 DEF Started
<1>5. Ended(log') = Ended(log) \cup (IF e.kind = "run_ended" THEN {e.run} ELSE {})
  BY <1>3 DEF Ended
<1>6. Earlier(log', counts.starts) = Earlier(log, counts.starts)
  BY <1>1 DEF Earlier
<1>7. StopsNamed(log')
  BY <1>1 DEF StopsNamed
<1>8. QED
  BY <1>1, <1>2, <1>4, <1>5, <1>6, <1>7 DEF Wrote

\* A step that leaves the record alone.
LEMMA WroteNothing ==
    ASSUME log \in Seq(Event), StopsNamed(log), log' = log
    PROVE  Wrote({}, {})
<1>1. \A k \in 0 .. Len(log) : SubSeq(log', 1, k) = SubSeq(log, 1, k)
  OBVIOUS
<1>2. Len(log) <= Len(log')
  OBVIOUS
<1>3. Started(log') = Started(log) /\ Ended(log') = Ended(log)
      /\ Earlier(log', counts.starts) = Earlier(log, counts.starts) /\ StopsNamed(log')
  OBVIOUS
<1>4. QED
  BY <1>1, <1>2, <1>3 DEF Wrote

\* The entries the manager writes are events of this start's session.
LEMMA EntryType ==
    ASSUME TypeOK, NEW j \in Jobs, NEW r \in Runs \cup {NoRun},
           NEW k \in {"run_requested", "run_stop_requested", "run_started", "run_ended",
                      "run_skipped"}
    PROVE  /\ Entry(k, j, r) \in Event /\ Entry(k, j, r).session = counts.starts
           /\ Entry(k, j, r).kind = k /\ Entry(k, j, r).run = r
BY JobAssumption DEF TypeOK, Entry, Event

\* job.run's first record.
LEMMA WroteStart ==
    ASSUME TypeOK, StopsNamed(log), NEW r \in Runs, log' = Append(log, run_started(r))
    PROVE  Wrote({r}, {})
<1>1. PICK y : y = Entry("run_started", JobOf[r], r)
  OBVIOUS
<1>2. JobOf[r] \in Jobs
  BY JobAssumption
<1>3. /\ y \in Event /\ y.session = counts.starts /\ y.kind = "run_started" /\ y.run = r
  BY <1>1, <1>2, EntryType
<1> DEFINE b == r \in asked
<1> b \in BOOLEAN
  OBVIOUS
<1> HIDE DEF b
<1>4. PICK x : x = [y EXCEPT !.requested = b]
  OBVIOUS
<1>5. /\ x \in Event /\ x.session = counts.starts /\ x.kind = "run_started" /\ x.run = r
  BY <1>3, <1>4 DEF Event
<1>6. log' = Append(log, x)
  BY <1>1, <1>4 DEF run_started, b
<1>7. QED
  BY <1>5, <1>6, WroteOne DEF TypeOK

\* A run's end, written by its task, by hand, at a reconcile or on the way out.
LEMMA WroteEnd ==
    ASSUME TypeOK, StopsNamed(log), NEW r \in Runs,
           NEW o \in {"own", "stopped", "lost"}, log' = Append(log, run_ended(r, o))
    PROVE  Wrote({}, {r})
<1>1. PICK y : y = Entry("run_ended", JobOf[r], r)
  OBVIOUS
<1>2. JobOf[r] \in Jobs
  BY JobAssumption
<1>3. /\ y \in Event /\ y.session = counts.starts /\ y.kind = "run_ended" /\ y.run = r
  BY <1>1, <1>2, EntryType
<1>4. PICK x : x = [y EXCEPT !.outcome = o]
  OBVIOUS
<1>5. /\ x \in Event /\ x.session = counts.starts /\ x.kind = "run_ended" /\ x.run = r
  <2>1. o \in {"none", "own", "stopped", "lost"}
    OBVIOUS
  <2>2. QED
    BY <1>3, <1>4, <2>1 DEF Event
<1>6. log' = Append(log, x)
  BY <1>1, <1>4 DEF run_ended
<1>7. QED
  BY <1>5, <1>6, WroteOne DEF TypeOK

\* A request or a stop: neither a start nor an end.
LEMMA WroteAsk ==
    ASSUME TypeOK, StopsNamed(log), NEW j \in Jobs,
           NEW k \in {"run_requested", "run_stop_requested"}, NEW r \in Runs \cup {NoRun},
           k = "run_stop_requested" => r \in Runs, log' = Append(log, Entry(k, j, r))
    PROVE  Wrote({}, {})
<1>1. PICK y : y = Entry(k, j, r)
  OBVIOUS
<1>2. /\ y \in Event /\ y.session = counts.starts /\ y.kind = k /\ y.run = r
  BY <1>1, EntryType
<1>3. log' = Append(log, y)
  BY <1>1
<1>4. QED
  BY <1>2, <1>3, WroteOne DEF TypeOK

\* Entries that are neither starts, nor ends, nor stops.
LEMMA WroteMany ==
    ASSUME log \in Seq(Event), StopsNamed(log), NEW m \in Seq(Event), log' = log \o m,
           \A i \in 1 .. Len(m) : m[i].kind = "run_skipped"
    PROVE  Wrote({}, {})
<1>1. /\ Len(log') = Len(log) + Len(m) /\ DOMAIN log = 1 .. Len(log)
      /\ DOMAIN log' = 1 .. Len(log') /\ Len(log) \in Nat /\ Len(m) \in Nat
      /\ log' \in Seq(Event) /\ \A i \in 1 .. Len(log) : log'[i] = log[i]
  <2>1. log' \in Seq(Event) /\ Len(log') = Len(log) + Len(m)
    OBVIOUS
  <2>2. Len(log) \in Nat /\ Len(m) \in Nat /\ DOMAIN log = 1 .. Len(log)
    OBVIOUS
  <2>3. DOMAIN log' = 1 .. Len(log')
    BY <2>1
  <2>4. \A i \in 1 .. Len(log) : log'[i] = log[i]
    OBVIOUS
  <2>5. QED
    BY <2>1, <2>2, <2>3, <2>4
<1>2. ASSUME NEW i \in DOMAIN log', i \notin DOMAIN log PROVE log'[i].kind = "run_skipped"
  <2>1. i - Len(log) \in 1 .. Len(m) /\ log'[i] = m[i - Len(log)]
    BY <1>1, <1>2
  <2>2. QED
    BY <2>1
<1>3. ASSUME NEW k \in 0 .. Len(log) PROVE SubSeq(log', 1, k) = SubSeq(log, 1, k)
  BY <1>1
<1>4. ASSUME NEW k \in {"run_started", "run_ended"}, NEW r
      PROVE  Has(log', k, r) <=> Has(log, k, r)
  <2>1. ASSUME Has(log, k, r) PROVE Has(log', k, r)
    <3>1. PICK i \in DOMAIN log : log[i].kind = k /\ log[i].run = r
      BY <2>1 DEF Has
    <3>2. i \in DOMAIN log' /\ log'[i] = log[i]
      BY <1>1
    <3>3. QED
      BY <3>1, <3>2 DEF Has
  <2>2. ASSUME Has(log', k, r) PROVE Has(log, k, r)
    <3>1. PICK i \in DOMAIN log' : log'[i].kind = k /\ log'[i].run = r
      BY <2>2 DEF Has
    <3>2. i \in DOMAIN log /\ log'[i] = log[i]
      BY <1>1, <1>2, <3>1
    <3>3. QED
      BY <3>1, <3>2 DEF Has
  <2>3. QED
    BY <2>1, <2>2
<1>5. Started(log') = Started(log) \cup {} /\ Ended(log') = Ended(log) \cup {}
  BY <1>4 DEF Started, Ended
<1>6. Earlier(log', counts.starts) = Earlier(log, counts.starts)
  <2>1. \A i \in DOMAIN log : i \in DOMAIN log' /\ log'[i] = log[i]
    BY <1>1
  <2>2. \A i \in DOMAIN log' : log'[i].kind = "run_started" =>
           i \in DOMAIN log /\ log'[i] = log[i]
    BY <1>1, <1>2
  <2>3. QED
    BY <2>1, <2>2 DEF Earlier
<1>7. StopsNamed(log')
  BY <1>1, <1>2 DEF StopsNamed
<1>8. QED
  BY <1>1, <1>3, <1>5, <1>6, <1>7 DEF Wrote

\* The refusals of a tick.
LEMMA WroteSkips ==
    ASSUME TypeOK, StopsNamed(log), NEW sk \in Seq(Jobs),
           log' = log \o [i \in DOMAIN sk |-> Entry("run_skipped", sk[i], NoRun)]
    PROVE  Wrote({}, {})
<1>1. \A i \in DOMAIN sk : Entry("run_skipped", sk[i], NoRun) \in Event
                           /\ Entry("run_skipped", sk[i], NoRun).kind = "run_skipped"
  <2>1. TAKE i \in DOMAIN sk
  <2>2. sk[i] \in Jobs
    OBVIOUS
  <2>3. QED
    BY <2>2, EntryType
<1>2. DOMAIN sk = 1 .. Len(sk) /\ Len(sk) \in Nat
  OBVIOUS
<1>3. PICK m : m = [i \in DOMAIN sk |-> Entry("run_skipped", sk[i], NoRun)]
  OBVIOUS
<1>4. m \in Seq(Event) /\ Len(m) = Len(sk) /\ \A i \in 1 .. Len(sk) : m[i].kind = "run_skipped"
  <2>1. m \in [1 .. Len(sk) -> Event]
    BY <1>1, <1>2, <1>3
  <2>2. m \in Seq(Event) /\ Len(m) = Len(sk)
    BY <1>2, <2>1
  <2>3. \A i \in 1 .. Len(sk) : m[i].kind = "run_skipped"
    BY <1>1, <1>2, <1>3
  <2>4. QED
    BY <2>2, <2>3
<1>5. log' = log \o m
  BY <1>3
<1>6. QED
  BY <1>4, <1>5, WroteMany DEF TypeOK

----------------------------------------------------------------------------
(* The rows of a query *)

RowStep(v, s, I, i) == IF i \in I THEN Append(v, s[i]) ELSE v

\* What it is to be the rows of the first n entries of s.
IsRows(f, s, I, n) ==
    f = [i \in 0 .. n |-> IF i = 0 THEN << >> ELSE RowStep(f[i - 1], s, I, i)]

\* The rows of any number of entries exist.
LEMMA RowsExist ==
    ASSUME NEW s, NEW I
    PROVE  \A n \in Nat : \E f : IsRows(f, s, I, n)
<1> DEFINE S == {n \in Nat : \E f : IsRows(f, s, I, n)}
<1>1. 0 \in S
  <2> DEFINE f0 == [i \in 0 .. 0 |-> << >>]
  <2>1. IsRows(f0, s, I, 0)
    BY DEF IsRows
  <2>2. QED
    BY <2>1
<1>2. ASSUME NEW n \in Nat, n \in S PROVE n + 1 \in S
  <2>1. PICK f : IsRows(f, s, I, n)
    BY <1>2
  <2> DEFINE g == [i \in 0 .. (n + 1) |->
                     IF i = n + 1 THEN RowStep(f[n], s, I, n + 1) ELSE f[i]]
  <2>2. \A i \in 0 .. n : f[i] = IF i = 0 THEN << >> ELSE RowStep(f[i - 1], s, I, i)
    BY <2>1 DEF IsRows
  <2>3. ASSUME NEW i \in 0 .. (n + 1)
        PROVE  g[i] = IF i = 0 THEN << >> ELSE RowStep(g[i - 1], s, I, i)
    <3>1. CASE i = n + 1
      <4>1. g[n] = f[n] /\ i - 1 = n /\ i # 0
        BY <3>1
      <4>2. QED
        BY <3>1, <4>1
    <3>2. CASE i # n + 1 /\ i # 0
      <4>1. i \in 0 .. n /\ i - 1 \in 0 .. (n + 1) /\ i - 1 # n + 1
        BY <3>2
      <4>2. g[i] = f[i] /\ g[i - 1] = f[i - 1]
        BY <3>2, <4>1
      <4>3. QED
        BY <2>2, <3>2, <4>1, <4>2
    <3>3. CASE i = 0
      BY <2>2, <3>3
    <3>4. QED
      BY <3>1, <3>2, <3>3
  <2>4. IsRows(g, s, I, n + 1)
    <3>1. g = [i \in 0 .. (n + 1) |-> g[i]]
      OBVIOUS
    <3> HIDE DEF g
    <3>2. QED
      BY <2>3, <3>1 DEF IsRows
  <2>5. QED
    BY <2>4
<1> HIDE DEF S
<1>3. \A n \in Nat : n \in S
  BY <1>1, <1>2, SetInduction
<1>4. QED
  BY <1>3 DEF S

\* A query over entries that are all in T answers with a sequence of T.
LEMMA RowsType ==
    ASSUME NEW s, NEW I, NEW T, Len(s) \in Nat, \A i \in 1 .. Len(s) : i \in I => s[i] \in T
    PROVE  Rows(s, I) \in Seq(T)
<1>1. \E f : IsRows(f, s, I, Len(s))
  BY RowsExist
<1>2. PICK f : IsRows(f, s, I, Len(s)) /\ Rows(s, I) = f[Len(s)]
  BY <1>1 DEF IsRows, RowStep, Rows
<1>3. \A i \in 0 .. Len(s) : f[i] = IF i = 0 THEN << >> ELSE RowStep(f[i - 1], s, I, i)
  BY <1>2 DEF IsRows
<1> DEFINE S == {i \in Nat : i <= Len(s) => f[i] \in Seq(T)}
<1>4. 0 \in S
  <2>1. f[0] = << >>
    BY <1>3
  <2>2. << >> \in Seq(T)
    OBVIOUS
  <2>3. QED
    BY <2>1, <2>2
<1>5. ASSUME NEW i \in Nat, i \in S PROVE i + 1 \in S
  <2>1. CASE i + 1 <= Len(s)
    <3>1. f[i] \in Seq(T)
      BY <1>5, <2>1
    <3>2. f[i + 1] = RowStep(f[i], s, I, i + 1)
      <4>1. i + 1 \in 0 .. Len(s) /\ i + 1 # 0 /\ (i + 1) - 1 = i
        BY <2>1
      <4>2. QED
        BY <1>3, <4>1
    <3>3. i + 1 \in I => s[i + 1] \in T
      BY <2>1
    <3>4. CASE i + 1 \in I
      <4>1. PICK v \in Seq(T) : v = f[i]
        BY <3>1
      <4>2. PICK x \in T : x = s[i + 1]
        BY <3>3, <3>4
      <4>3. f[i + 1] = Append(v, x)
        BY <3>2, <3>4, <4>1, <4>2 DEF RowStep
      <4>4. Append(v, x) \in Seq(T)
        OBVIOUS
      <4>5. f[i + 1] \in Seq(T) /\ i + 1 \in Nat
        BY <4>3, <4>4
      <4>6. QED
        BY <4>5
    <3>5. CASE i + 1 \notin I
      BY <3>1, <3>2, <3>5 DEF RowStep
    <3>6. QED
      BY <3>4, <3>5
  <2>2. QED
    BY <2>1
<1> HIDE DEF S
<1>6. \A i \in Nat : i \in S
  BY <1>4, <1>5, SetInduction
<1>7. QED
  BY <1>2, <1>6 DEF S

\* STOPS_SQL answers with runs.
LEMMA StopsType ==
    ASSUME NEW l \in Seq(Event), StopsNamed(l)
    PROVE  Stops(l) \in Seq(Runs)
<1>1. DOMAIN l = 1 .. Len(l) /\ Len(l) \in Nat
  OBVIOUS
<1>2. PICK s : s = [i \in DOMAIN l |-> l[i].run]
  OBVIOUS
<1>3. Len(s) = Len(l) /\ \A i \in DOMAIN l : s[i] = l[i].run
  BY <1>1, <1>2
<1>4. \A i \in 1 .. Len(s) : i \in Pending(l) => s[i] \in Runs
  BY <1>1, <1>3 DEF Pending, StopsNamed
<1>5. Rows(s, Pending(l)) \in Seq(Runs)
  BY <1>1, <1>3, <1>4, RowsType
<1>6. QED
  BY <1>2, <1>5 DEF Stops

----------------------------------------------------------------------------
(* The plan of a tick *)

\* What deciding about one declaration adds to the jobs to start.
PlanStep(v, l, ends, moment, i) ==
    IF /\ Requested(l, Declared[i]) \/ Due(ends, Declared[i], moment)
       /\ \A r \in Live(l) : JobOf[r] # Declared[i]
       /\ Cardinality(Live(l)) + Cardinality(v) < max_runs
    THEN v \cup {Declared[i]} ELSE v

\* What it is to be the plan for the first n declarations.
IsPlan(f, l, ends, moment, n) ==
    f = [i \in 0 .. n |-> IF i = 0 THEN {} ELSE PlanStep(f[i - 1], l, ends, moment, i)]

\* The plan for any number of declarations exists.
LEMMA PlanExists ==
    ASSUME NEW l, NEW ends, NEW moment
    PROVE  \A n \in Nat : \E f : IsPlan(f, l, ends, moment, n)
<1> DEFINE S == {n \in Nat : \E f : IsPlan(f, l, ends, moment, n)}
<1>1. 0 \in S
  <2> DEFINE f0 == [i \in 0 .. 0 |-> {}]
  <2>1. IsPlan(f0, l, ends, moment, 0)
    BY DEF IsPlan
  <2>2. QED
    BY <2>1
<1>2. ASSUME NEW n \in Nat, n \in S PROVE n + 1 \in S
  <2>1. PICK f : IsPlan(f, l, ends, moment, n)
    BY <1>2
  <2> DEFINE g == [i \in 0 .. (n + 1) |->
                     IF i = n + 1 THEN PlanStep(f[n], l, ends, moment, n + 1) ELSE f[i]]
  <2>2. \A i \in 0 .. n : f[i] = IF i = 0 THEN {} ELSE PlanStep(f[i - 1], l, ends, moment, i)
    BY <2>1 DEF IsPlan
  <2>3. ASSUME NEW i \in 0 .. (n + 1)
        PROVE  g[i] = IF i = 0 THEN {} ELSE PlanStep(g[i - 1], l, ends, moment, i)
    <3>1. CASE i = n + 1
      <4>1. g[n] = f[n] /\ i - 1 = n /\ i # 0
        BY <3>1
      <4>2. QED
        BY <3>1, <4>1
    <3>2. CASE i # n + 1 /\ i # 0
      <4>1. i \in 0 .. n /\ i - 1 \in 0 .. (n + 1) /\ i - 1 # n + 1
        BY <3>2
      <4>2. g[i] = f[i] /\ g[i - 1] = f[i - 1]
        BY <3>2, <4>1
      <4>3. QED
        BY <2>2, <3>2, <4>1, <4>2
    <3>3. CASE i = 0
      BY <2>2, <3>3
    <3>4. QED
      BY <3>1, <3>2, <3>3
  <2>4. IsPlan(g, l, ends, moment, n + 1)
    <3>1. g = [i \in 0 .. (n + 1) |-> g[i]]
      OBVIOUS
    <3> HIDE DEF g
    <3>2. QED
      BY <2>3, <3>1 DEF IsPlan
  <2>5. QED
    BY <2>4
<1> HIDE DEF S
<1>3. \A n \in Nat : n \in S
  BY <1>1, <1>2, SetInduction
<1>4. QED
  BY <1>3 DEF S

\* Jobs that may start beside the live runs of l: none has a live run, and
\* with them the cap is kept.
Startable(v, l) ==
    /\ v \subseteq Jobs /\ IsFiniteSet(v)
    /\ \A j \in v : \A r \in Live(l) : JobOf[r] # j
    /\ v # {} => Cardinality(Live(l)) + Cardinality(v) <= max_runs

\* One declaration.
LEMMA PlanStepStartable ==
    ASSUME NEW v, NEW l, NEW ends, NEW moment, NEW i \in 1 .. Len(Declared),
           Startable(v, l), IsFiniteSet(Live(l))
    PROVE  Startable(PlanStep(v, l, ends, moment, i), l)
<1>1. PICK j : j = Declared[i]
  OBVIOUS
<1>2. j \in Jobs
  BY <1>1, JobAssumption
<1>3. CASE PlanStep(v, l, ends, moment, i) = v
  BY <1>3
<1>4. CASE /\ PlanStep(v, l, ends, moment, i) = v \cup {j}
           /\ \A r \in Live(l) : JobOf[r] # j
           /\ Cardinality(Live(l)) + Cardinality(v) < max_runs
  <2>1. /\ IsFiniteSet(v \cup {j})
        /\ Cardinality(v \cup {j}) = Cardinality(v) \/ Cardinality(v \cup {j}) = Cardinality(v) + 1
    BY FS_AddElement DEF Startable
  <2>2. Cardinality(v) \in Nat /\ Cardinality(Live(l)) \in Nat
    BY FS_CardinalityType DEF Startable
  <2>3. Cardinality(Live(l)) + Cardinality(v \cup {j}) <= max_runs
    BY <1>4, <2>1, <2>2, JobAssumption
  <2>4. v \cup {j} \subseteq Jobs /\ \A k \in v \cup {j} : \A r \in Live(l) : JobOf[r] # k
    BY <1>2, <1>4 DEF Startable
  <2>5. QED
    BY <1>4, <2>1, <2>3, <2>4 DEF Startable
<1>5. QED
  BY <1>1, <1>3, <1>4 DEF PlanStep

\* job.tick: what it starts is startable, whatever the record it decides on.
LEMMA StartsStartable ==
    ASSUME NEW l, NEW ends, NEW moment, IsFiniteSet(Live(l))
    PROVE  Startable(Starts(l, ends, moment), l)
<1> DEFINE n == Len(Declared)
<1>0. n \in Nat
  BY JobAssumption
<1> HIDE DEF n
<1>1. \E f : IsPlan(f, l, ends, moment, n)
  BY <1>0, PlanExists
<1>2. PICK f : IsPlan(f, l, ends, moment, n) /\ Starts(l, ends, moment) = f[n]
  BY <1>1 DEF IsPlan, PlanStep, Starts, n
<1>3. \A i \in 0 .. n : f[i] = IF i = 0 THEN {} ELSE PlanStep(f[i - 1], l, ends, moment, i)
  BY <1>2 DEF IsPlan
<1> DEFINE S == {i \in Nat : i <= n => Startable(f[i], l)}
<1>4. 0 \in S
  <2>1. f[0] = {}
    BY <1>0, <1>3
  <2>2. Startable({}, l)
    BY FS_EmptySet DEF Startable
  <2>3. QED
    BY <2>1, <2>2
<1>5. ASSUME NEW i \in Nat, i \in S PROVE i + 1 \in S
  <2>1. CASE i + 1 <= n
    <3>1. Startable(f[i], l)
      BY <1>0, <1>5, <2>1
    <3>2. f[i + 1] = PlanStep(f[i], l, ends, moment, i + 1)
      <4>1. i + 1 \in 0 .. n /\ i + 1 # 0 /\ (i + 1) - 1 = i
        BY <1>0, <2>1
      <4>2. QED
        BY <1>3, <4>1
    <3>3. i + 1 \in 1 .. Len(Declared)
      BY <1>0, <2>1 DEF n
    <3>4. QED
      BY <3>1, <3>2, <3>3, PlanStepStartable
  <2>2. QED
    BY <2>1
<1> HIDE DEF S
<1>6. \A i \in Nat : i \in S
  BY <1>4, <1>5, SetInduction
<1>7. QED
  BY <1>0, <1>2, <1>6 DEF S

----------------------------------------------------------------------------
(* The live runs *)

\* A record is finite, and so are the runs it has started.
LEMMA LiveFinite ==
    ASSUME NEW l \in Seq(Event)
    PROVE  IsFiniteSet(Live(l))
<1> DEFINE D == {i \in DOMAIN l : l[i].kind = "run_started" /\ l[i].run \in Runs}
           f == [i \in D |-> l[i].run]
<1>1. IsFiniteSet(D)
  <2>1. IsFiniteSet(1 .. Len(l))
    BY FS_Interval
  <2>2. D \in SUBSET (1 .. Len(l))
    OBVIOUS
  <2> HIDE DEF D
  <2>3. QED
    BY <2>1, <2>2, FS_Subset
<1>2. f \in Surjection(D, Started(l))
  <2>1. \A i \in D : l[i].run \in Started(l)
    BY DEF Started, Has
  <2>2. \A r \in Started(l) : \E i \in D : f[i] = r
    BY DEF Started, Has
  <2>3. QED
    BY <2>1, <2>2 DEF Surjection
<1> HIDE DEF D, f
<1>3. IsFiniteSet(Started(l))
  BY <1>1, <1>2, FS_Surjection
<1>4. QED
  <2>1. Live(l) \in SUBSET Started(l)
    BY LiveIs
  <2>2. QED
    BY <1>3, <2>1, FS_Subset

\* facts.live loses nothing as long as there is one live run to a job.
LEMMA LiveNowIsLive ==
    ASSUME NEW l \in Seq(Event), \A q, r \in Live(l) : JobOf[q] = JobOf[r] => q = r
    PROVE  LiveNow(l) = Live(l)
<1>1. SUFFICES ASSUME NEW r \in Live(l), NEW q \in Live(l), JobOf[q] = JobOf[r]
               PROVE  StartOf(l, q) <= StartOf(l, r)
  BY DEF LiveNow
<1>2. q = r
  BY <1>1
<1>3. \E i \in DOMAIN l : l[i].kind = "run_started" /\ l[i].run = r
  BY DEF Live, Has
<1>4. StartOf(l, r) \in DOMAIN l
  BY <1>3 DEF StartOf
<1>5. StartOf(l, r) \in Nat
  BY <1>4
<1>6. QED
  BY <1>2, <1>5

\* Listing a finite set loses nothing.
LEMMA Listed ==
    ASSUME NEW S, IsFiniteSet(S), NEW T, S \subseteq T
    PROVE  /\ SetToSeq(S) \in Seq(T)
           /\ \A k \in DOMAIN SetToSeq(S) : SetToSeq(S)[k] \in S
           /\ S \subseteq {SetToSeq(S)[k] : k \in DOMAIN SetToSeq(S)}
<1> DEFINE n == Cardinality(S)
           q == SetToSeq(S)
<1>1. n \in Nat /\ \E f \in [1 .. n -> S] : IsInjective(f)
  BY FS_CardinalityType DEF ExistsBijection, Bijection, Injection
<1>2. q \in [1 .. n -> S] /\ IsInjective(q)
  BY <1>1 DEF SetToSeq
<1> HIDE DEF q
<1>3. q \in Injection(1 .. n, S)
  BY <1>2 DEF Injection
<1>4. IsFiniteSet(1 .. n) /\ Cardinality(1 .. n) = n
  BY <1>1, FS_Interval
<1>5. q \in Surjection(1 .. n, S)
  BY <1>3, <1>4, FS_Injection
<1>6. q \in Seq(T) /\ DOMAIN q = 1 .. n
  BY <1>1, <1>2
<1>7. QED
  BY <1>2, <1>5, <1>6 DEF Surjection, q

----------------------------------------------------------------------------
(* The steps *)

\* Claims that are given up leave the rest one to a job, and within the cap.
LEMMA ClaimsShrink ==
    ASSUME ClaimsOK, Claims' \subseteq Claims
    PROVE  ClaimsOK'
<1>1. IsFiniteSet(Claims') /\ Cardinality(Claims') <= Cardinality(Claims)
  BY FS_Subset DEF ClaimsOK
<1>2. Cardinality(Claims') \in Nat /\ Cardinality(Claims) \in Nat
  BY <1>1, FS_CardinalityType DEF ClaimsOK
<1>3. Cardinality(Claims') <= max_runs
  BY <1>1, <1>2, JobAssumption DEF ClaimsOK
<1>4. \A q, r \in Claims' : JobOf[q] = JobOf[r] => q = r
  BY DEF ClaimsOK
<1>5. QED
  BY <1>1, <1>3, <1>4 DEF ClaimsOK

\* A step that touches neither the record, nor a task, nor the writer.
LEMMA ClaimsStay ==
    ASSUME ClaimsOK, UNCHANGED <<log, task, sent>>
    PROVE  ClaimsOK'
<1>1. log' = log /\ task' = task /\ sent' = sent
  OBVIOUS
<1>2. Claims' \subseteq Claims
  BY <1>1 DEF Claims
<1>3. QED
  BY <1>2, ClaimsShrink

\* The loop is off.
LEMMA OffType ==
    Off \in Loop /\ Off.pc = "off" /\ Off.seen = 0 /\ Off.todo = << >>
BY DEF Off, Loop

\* One fault more, within the bound.
LEMMA FaultCounted ==
    ASSUME TypeOK, counts.faults < MaxFaults,
           counts' = [counts EXCEPT !.faults = counts.faults + 1]
    PROVE  /\ counts' \in [asks : 0 .. MaxAsks, faults : 0 .. MaxFaults, starts : 0 .. MaxStarts]
           /\ counts'.starts = counts.starts
<1>1. counts \in [asks : 0 .. MaxAsks, faults : 0 .. MaxFaults, starts : 0 .. MaxStarts]
  BY DEF TypeOK
<1>2. counts.faults + 1 \in 0 .. MaxFaults
  BY <1>1, JobAssumption
<1>3. QED
  BY <1>1, <1>2

\* The clock.
LEMMA ClockStep ==
    ASSUME IInv, clock
    PROVE  IInv'
<1> USE DEF clock
<1>1. Wrote({}, {})
  BY WroteNothing DEF IInv, ReadOK, TypeOK
<1>2. TypeOK'
  BY JobAssumption DEF IInv, TypeOK
<1>3. Phases' /\ TodoOK' /\ ReadOK'
  BY DEF IInv, Phases, TodoOK, ReadOK, Seen
<1>4. ClaimsOK'
  BY ClaimsStay DEF IInv
<1>5. \A r \in Runs : (TaskOK(r) /\ SentOK(r))'
  BY DEF IInv, TaskOK, SentOK
<1>6. QED
  BY <1>2, <1>3, <1>4, <1>5 DEF IInv

\* The first query of a read.
LEMMA TickEndedStep ==
    ASSUME IInv, tick_ended
    PROVE  IInv'
<1> USE DEF tick_ended
<1>1. Len(log) \in Nat /\ now \in Nat /\ loop \in Loop /\ loop.pc \in {"sleep", "stops"}
  BY DEF IInv, TypeOK
<1>2. /\ loop' \in Loop /\ loop'.pc \in {"read", "reread"} /\ loop'.seen = loop.seen
      /\ loop'.todo = loop.todo
  BY <1>1 DEF Loop
<1>3. TypeOK'
  BY <1>2 DEF IInv, TypeOK
<1>4. Phases'
  BY <1>1, <1>2 DEF IInv, Phases, Ticking
<1>5. TodoOK' /\ ReadOK'
  BY <1>1, <1>2 DEF IInv, TodoOK, ReadOK
<1>6. ClaimsOK'
  BY ClaimsStay DEF IInv
<1>7. \A r \in Runs : (TaskOK(r) /\ SentOK(r))'
  BY <1>1, <1>2 DEF IInv, TaskOK, SentOK, Ticking
<1>8. QED
  BY <1>3, <1>4, <1>5, <1>6, <1>7 DEF IInv

\* A run records its start: what was claimed is live.
LEMMA RunStartStep ==
    ASSUME IInv, NEW r \in Runs, run_start(r)
    PROVE  IInv'
<1> USE DEF run_start
<1>1. Wrote({r}, {})
  BY WroteStart DEF IInv, ReadOK
<1>2. /\ Started(log') = Started(log) \cup {r} /\ Ended(log') = Ended(log)
      /\ Live(log) = Started(log) \ Ended(log) /\ Live(log') = Started(log') \ Ended(log')
      /\ r \notin Started(log) /\ Ended(log) \subseteq Started(log)
  BY <1>1, LiveIs DEF Wrote, IInv, TaskOK, ReadOK
<1>3. Live(log') = Live(log) \cup {r}
  BY <1>2
<1>4. /\ task' = [task EXCEPT ![r] = "started"] /\ task[r] = "spawned" /\ task \in [Runs -> Task]
      /\ UNCHANGED <<mgr, loop, proc, sent, counts>>
  BY DEF IInv, TypeOK
<1>5. TypeOK'
  BY <1>1, <1>4 DEF Wrote, IInv, TypeOK, Task
<1>6. Phases'
  BY <1>1, <1>4 DEF Wrote, IInv, Phases, TypeOK, Loop
<1>7. TodoOK'
  BY <1>2, <1>3, <1>4 DEF IInv, TodoOK, Phases, TaskOK, Over
<1>8. ClaimsOK'
  <2>1. Claims' \subseteq Claims
    BY <1>3, <1>4 DEF Claims
  <2>2. QED
    BY <2>1, ClaimsShrink DEF IInv
<1>9. ReadOK'
  <2>1. loop.pc # "plan" /\ mgr \in {"up", "leaving"}
    BY <1>4 DEF IInv, TaskOK, Ticking
  <2>2. r \notin Earlier(log, counts.starts) /\ StopsNamed(log')
        /\ Earlier(log', counts.starts) = Earlier(log, counts.starts)
    BY <1>1, <1>2, EarlierStarted DEF Wrote
  <2>3. QED
    BY <1>2, <1>3, <1>4, <2>1, <2>2 DEF IInv, ReadOK
<1>10. ASSUME NEW q \in Runs PROVE (TaskOK(q) /\ SentOK(q))'
  <2>1. TaskOK(q) /\ SentOK(q) /\ TaskOK(r) /\ SentOK(r)
    BY DEF IInv
  <2>2. CASE q = r
    BY <1>2, <1>3, <1>4, <2>1, <2>2 DEF TaskOK, SentOK, Acting, Over, Ticking
  <2>3. CASE q # r
    <3>1. task'[q] = task[q]
      BY <1>4, <2>3
    <3>2. QED
      BY <1>2, <1>3, <1>4, <2>1, <2>3, <3>1 DEF TaskOK, SentOK
  <2>4. QED
    BY <2>2, <2>3
<1>11. QED
  BY <1>5, <1>6, <1>7, <1>8, <1>9, <1>10 DEF IInv

\* A step of one run that writes nothing, and that a run which is over does
\* not take.
Moves(r) ==
    /\ TypeOK' /\ UNCHANGED <<log, mgr, loop, sent>> /\ counts'.starts = counts.starts
    /\ \A q \in Runs \ {r} : task'[q] = task[q] /\ proc'[q] = proc[q]
    /\ task'[r] = task[r] \/ (task[r] \in Acting \cup {"spawned"} /\ task'[r] # "spawned")
    /\ TaskOK(r)'

\* Such a step keeps the invariant: the claims can only become fewer.
LEMMA MoveStep ==
    ASSUME IInv, NEW r \in Runs, Moves(r)
    PROVE  IInv'
<1>1. /\ UNCHANGED <<log, mgr, loop, sent>> /\ counts'.starts = counts.starts
      /\ \A q \in Runs \ {r} : task'[q] = task[q] /\ proc'[q] = proc[q]
      /\ task'[r] = task[r] \/ (task[r] \in Acting \cup {"spawned"} /\ task'[r] # "spawned")
  BY DEF Moves
<1>2. TaskOK(r) /\ SentOK(r)
  BY DEF IInv
<1>3. Phases'
  BY <1>1 DEF IInv, Phases
<1>4. TodoOK'
  <2>1. \A q \in Runs : task[q] \in Over => task'[q] \in Over
    BY <1>1 DEF Over, Acting
  <2>2. \A k \in DOMAIN loop.todo : loop.todo[k] \in Runs
    BY DEF IInv, TypeOK, Loop
  <2>3. QED
    BY <1>1, <2>1, <2>2 DEF IInv, TodoOK
<1>5. ClaimsOK'
  <2>1. \A q \in Runs : task'[q] = "spawned" => task[q] = "spawned"
    BY <1>1
  <2>2. Claims' \subseteq Claims
    BY <1>1, <2>1 DEF Claims
  <2>3. QED
    BY <2>2, ClaimsShrink DEF IInv
<1>6. ReadOK'
  BY <1>1 DEF IInv, ReadOK, Seen
<1>7. ASSUME NEW q \in Runs PROVE (TaskOK(q) /\ SentOK(q))'
  <2>1. CASE q = r
    <3>1. SentOK(r)'
      BY <1>1, <1>2 DEF SentOK, Acting, Over
    <3>2. QED
      BY <2>1, <3>1 DEF Moves
  <2>2. CASE q # r
    <3>1. TaskOK(q) /\ SentOK(q)
      BY DEF IInv
    <3>2. QED
      BY <1>1, <2>2, <3>1 DEF TaskOK, SentOK
  <2>3. QED
    BY <2>1, <2>2
<1>8. QED
  BY <1>3, <1>4, <1>5, <1>6, <1>7 DEF IInv, Moves

\* sh.exec, with a process or without.
LEMMA RunExecStep ==
    ASSUME IInv, NEW r \in Runs, run_exec(r)
    PROVE  IInv'
<1>1. /\ task \in [Runs -> Task] /\ proc \in [Runs -> {"none", "running", "dead", "orphan"}]
      /\ task[r] = "started" /\ UNCHANGED <<log, now, mgr, loop, killed, asked, sent, counts>>
      /\ TaskOK(r)
  BY DEF IInv, TypeOK, run_exec
<1>2. PICK b \in {"exec", "exited"} :
         /\ task' = [task EXCEPT ![r] = b]
         /\ (proc' = [proc EXCEPT ![r] = "running"] /\ b = "exec") \/ (proc' = proc /\ b = "exited")
  BY DEF run_exec
<1>3. (proc' = [proc EXCEPT ![r] = "running"] /\ b = "exec") \/ (proc' = proc /\ b = "exited")
  BY <1>2
<1>4. TypeOK'
  BY <1>1, <1>2, <1>3 DEF IInv, TypeOK, Task
<1>5. TaskOK(r)'
  BY <1>1, <1>2, <1>3 DEF TaskOK, Acting
<1>6. QED
  <2>1. \A q \in Runs \ {r} : task'[q] = task[q] /\ proc'[q] = proc[q]
    BY <1>1, <1>2, <1>3
  <2>2. Moves(r)
    BY <1>1, <1>2, <1>4, <1>5, <2>1 DEF Moves, Acting
  <2>3. QED
    BY <2>2, MoveStep

\* A process ends.
LEMMA ExitStep ==
    ASSUME IInv, NEW r \in Runs, exit(r)
    PROVE  IInv'
<1>1. /\ task \in [Runs -> Task] /\ proc \in [Runs -> {"none", "running", "dead", "orphan"}]
      /\ proc' = [proc EXCEPT ![r] = "dead"] /\ TaskOK(r)
      /\ UNCHANGED <<log, now, mgr, loop, task, killed, asked, sent, counts>>
  BY DEF IInv, TypeOK, exit
<1>2. TypeOK'
  BY <1>1 DEF IInv, TypeOK
<1>3. TaskOK(r)'
  BY <1>1 DEF TaskOK
<1>4. Moves(r)
  BY <1>1, <1>2, <1>3 DEF Moves
<1>5. QED
  BY <1>4, MoveStep

\* sh.exec answers.
LEMMA RunAnswerStep ==
    ASSUME IInv, NEW r \in Runs, run_answer(r)
    PROVE  IInv'
<1>1. /\ task \in [Runs -> Task] /\ task' = [task EXCEPT ![r] = "exited"] /\ task[r] = "exec"
      /\ proc[r] = "dead" /\ TaskOK(r)
      /\ UNCHANGED <<log, now, mgr, loop, proc, killed, asked, sent, counts>>
  BY DEF IInv, TypeOK, run_answer
<1>2. TypeOK'
  BY <1>1 DEF IInv, TypeOK, Task
<1>3. TaskOK(r)'
  BY <1>1 DEF TaskOK, Acting
<1>4. Moves(r)
  BY <1>1, <1>2, <1>3 DEF Moves, Acting
<1>5. QED
  BY <1>4, MoveStep

\* job.run raises.
LEMMA RunRaiseStep ==
    ASSUME IInv, NEW r \in Runs, run_raise(r)
    PROVE  IInv'
<1>1. /\ task \in [Runs -> Task] /\ task' = [task EXCEPT ![r] = "done"]
      /\ task[r] \in {"spawned", "started", "exited"} /\ TaskOK(r)
      /\ UNCHANGED <<log, now, mgr, loop, proc, killed, asked, sent>>
  BY DEF IInv, TypeOK, run_raise
<1>2. /\ counts' \in [asks : 0 .. MaxAsks, faults : 0 .. MaxFaults, starts : 0 .. MaxStarts]
      /\ counts'.starts = counts.starts
  <2>1. counts.faults < MaxFaults /\ counts' = [counts EXCEPT !.faults = counts.faults + 1]
    BY DEF run_raise
  <2>2. QED
    BY <2>1, FaultCounted DEF IInv
<1>3. TypeOK'
  BY <1>1, <1>2 DEF IInv, TypeOK, Task
<1>4. TaskOK(r)'
  BY <1>1 DEF TaskOK, Acting
<1>5. Moves(r)
  BY <1>1, <1>2, <1>3, <1>4 DEF Moves, Acting
<1>6. QED
  BY <1>5, MoveStep

\* What follows from writing no start: what is live was live, and what the
\* loop has read is still there.
LEMMA NoStart ==
    ASSUME IInv, NEW E, Wrote({}, E)
    PROVE  /\ log' \in Seq(Event) /\ Len(log) <= Len(log') /\ StopsNamed(log')
           /\ SubSeq(log', 1, loop.seen) = Seen /\ loop.seen <= Len(log')
           /\ Started(log') = Started(log) /\ Ended(log') = Ended(log) \cup E
           /\ Live(log') = Live(log) \ E /\ Live(log) = Started(log) \ Ended(log)
           /\ Earlier(log', counts.starts) = Earlier(log, counts.starts)
<1>1. loop.seen \in 0 .. Len(log) /\ loop.seen \in Nat /\ Len(log) \in Nat
  BY DEF IInv, Phases, TypeOK, Loop
<1>2. log' \in Seq(Event) /\ Len(log) <= Len(log') /\ Len(log') \in Nat
  BY DEF Wrote
<1>3. SubSeq(log', 1, loop.seen) = Seen /\ loop.seen <= Len(log')
  BY <1>1, <1>2 DEF Wrote, Seen
<1>4. Live(log') = Started(log') \ Ended(log') /\ Live(log) = Started(log) \ Ended(log)
  BY LiveIs
<1>5. Started(log') = Started(log) /\ Ended(log') = Ended(log) \cup E
  BY DEF Wrote
<1>6. QED
  BY <1>2, <1>3, <1>4, <1>5 DEF Wrote

\* A run records its end.
LEMMA RunEndStep ==
    ASSUME IInv, NEW r \in Runs, run_end(r)
    PROVE  IInv'
<1>1. /\ task \in [Runs -> Task] /\ task' = [task EXCEPT ![r] = "done"] /\ task[r] = "exited"
      /\ TaskOK(r) /\ SentOK(r)
      /\ UNCHANGED <<now, mgr, loop, proc, killed, asked, sent, counts>>
  BY DEF IInv, TypeOK, run_end
<1>2. Wrote({}, {r})
  <2>1. outcome_of(r) \in {"own", "stopped", "lost"}
    BY DEF outcome_of
  <2>2. QED
    BY <2>1, WroteEnd DEF run_end, IInv, ReadOK
<1>3. /\ log' \in Seq(Event) /\ Started(log') = Started(log) /\ Ended(log') = Ended(log) \cup {r}
      /\ Live(log') = Live(log) \ {r} /\ Live(log) = Started(log) \ Ended(log)
  BY <1>2, NoStart
<1>4. TypeOK'
  BY <1>1, <1>3 DEF IInv, TypeOK, Task
<1>5. Phases'
  BY <1>1, <1>2, NoStart DEF IInv, Phases
<1>6. TodoOK'
  <2>1. \A q \in Runs : task[q] \in Over => task'[q] \in Over
    BY <1>1 DEF Over
  <2>2. \A k \in DOMAIN loop.todo : loop.todo[k] \in Runs
    BY DEF IInv, TypeOK, Loop
  <2>3. QED
    BY <1>1, <1>3, <2>1, <2>2 DEF IInv, TodoOK
<1>7. ClaimsOK'
  <2>1. \A q \in Runs : task'[q] = "spawned" => task[q] = "spawned"
    BY <1>1
  <2>2. Claims' \subseteq Claims
    BY <1>1, <1>3, <2>1 DEF Claims
  <2>3. QED
    BY <2>2, ClaimsShrink DEF IInv
<1>8. ReadOK'
  <2>1. Ended(log') \subseteq Started(log')
    BY <1>1, <1>3 DEF IInv, ReadOK, TaskOK, Acting
  <2>2. loop.pc = "plan" => Live(log') \subseteq Live(Seen')
    BY <1>1, <1>2, <1>3, NoStart DEF IInv, ReadOK, Seen
  <2>3. StopsNamed(log') /\ Earlier(log', counts.starts) = Earlier(log, counts.starts)
    BY <1>2, NoStart
  <2>4. QED
    BY <1>1, <1>3, <2>1, <2>2, <2>3 DEF IInv, ReadOK
<1>9. ASSUME NEW q \in Runs PROVE (TaskOK(q) /\ SentOK(q))'
  <2>1. CASE q = r
    BY <1>1, <1>3, <2>1 DEF TaskOK, SentOK, Acting, Over
  <2>2. CASE q # r
    <3>1. TaskOK(q) /\ SentOK(q) /\ task'[q] = task[q]
      BY <1>1, <2>2 DEF IInv
    <3>2. QED
      BY <1>1, <1>3, <2>2, <3>1 DEF TaskOK, SentOK
  <2>3. QED
    BY <2>1, <2>2
<1>10. QED
  BY <1>4, <1>5, <1>6, <1>7, <1>8, <1>9 DEF IInv

\* An end somebody else writes of a run whose task is no more: the loop by
\* hand, the main coroutine at a reconcile or on the way out, the log's
\* writer.  What becomes of the loop is up to the step.
Closes(r) ==
    /\ Wrote({}, {r}) /\ r \in Started(log) /\ task[r] \in Over
    /\ UNCHANGED <<now, mgr, task, proc, killed, asked, counts>>
    /\ sent' \subseteq sent
    /\ loop' \in Loop /\ loop'.seen = loop.seen /\ Phases' /\ TodoOK'
    /\ loop'.pc = loop.pc \/ (loop.pc = "byhand" /\ loop'.pc = "stops")

\* Such an end keeps the invariant.
LEMMA CloseStep ==
    ASSUME IInv, NEW r \in Runs, Closes(r)
    PROVE  IInv'
<1>1. /\ r \in Started(log) /\ task[r] \in Over /\ loop'.seen = loop.seen
      /\ UNCHANGED <<now, mgr, task, proc, killed, asked, counts>> /\ sent' \subseteq sent
      /\ loop'.pc = loop.pc \/ (loop.pc = "byhand" /\ loop'.pc = "stops")
  BY DEF Closes
<1>2. /\ log' \in Seq(Event) /\ Started(log') = Started(log) /\ Ended(log') = Ended(log) \cup {r}
      /\ Live(log') = Live(log) \ {r} /\ Live(log) = Started(log) \ Ended(log)
      /\ StopsNamed(log') /\ Earlier(log', counts.starts) = Earlier(log, counts.starts)
      /\ SubSeq(log', 1, loop.seen) = Seen
  BY NoStart DEF Closes
<1>3. TypeOK'
  BY <1>1, <1>2 DEF IInv, TypeOK, Closes
<1>4. ClaimsOK'
  <2>1. Claims' \subseteq Claims
    BY <1>1, <1>2 DEF Claims
  <2>2. QED
    BY <2>1, ClaimsShrink DEF IInv
<1>5. ReadOK'
  BY <1>1, <1>2 DEF IInv, ReadOK, Seen
<1>6. ASSUME NEW q \in Runs PROVE (TaskOK(q) /\ SentOK(q))'
  <2>1. TaskOK(q) /\ SentOK(q)
    BY DEF IInv
  <2>2. TaskOK(q)'
    BY <1>1, <1>2, <2>1 DEF TaskOK, Acting, Over, Ticking
  <2>3. SentOK(q)'
    BY <1>1, <1>2, <2>1 DEF SentOK
  <2>4. QED
    BY <2>2, <2>3
<1>7. QED
  BY <1>3, <1>4, <1>5, <1>6 DEF IInv, Closes

\* The first of a list of runs, and the rest.
LEMMA HeadTail ==
    ASSUME NEW s \in Seq(Runs), s # << >>
    PROVE  /\ Head(s) = s[1] /\ 1 \in DOMAIN s /\ Head(s) \in Runs /\ Tail(s) \in Seq(Runs)
           /\ \A k \in DOMAIN Tail(s) : k + 1 \in DOMAIN s /\ Tail(s)[k] = s[k + 1]
           /\ \A k \in DOMAIN s : k = 1 \/ (k - 1 \in DOMAIN Tail(s) /\ s[k] = Tail(s)[k - 1])
<1>1. Len(s) \in Nat /\ Len(s) # 0 /\ DOMAIN s = 1 .. Len(s)
  OBVIOUS
<1>2. Tail(s) \in Seq(Runs) /\ Len(Tail(s)) = Len(s) - 1
  BY <1>1
<1>3. DOMAIN Tail(s) = 1 .. Len(Tail(s))
  BY <1>2
<1>4. ASSUME NEW k \in DOMAIN Tail(s) PROVE k + 1 \in DOMAIN s /\ Tail(s)[k] = s[k + 1]
  BY <1>1, <1>2, <1>3
<1>5. ASSUME NEW k \in DOMAIN s, k # 1 PROVE k - 1 \in DOMAIN Tail(s) /\ s[k] = Tail(s)[k - 1]
  <2>1. k - 1 \in DOMAIN Tail(s)
    BY <1>1, <1>2, <1>3, <1>5
  <2>2. Tail(s)[k - 1] = s[(k - 1) + 1] /\ (k - 1) + 1 = k
    BY <1>1, <1>4, <2>1
  <2>3. QED
    BY <2>1, <2>2
<1>6. Head(s) = s[1] /\ 1 \in DOMAIN s /\ s[1] \in Runs
  BY <1>1
<1>7. QED
  BY <1>2, <1>4, <1>5, <1>6

\* The end of a run the last manager left behind.
LEMMA ReconcileOneStep ==
    ASSUME IInv, reconcile, loop.todo # << >>
    PROVE  IInv'
<1> DEFINE r == Head(loop.todo)
<1>1. /\ loop \in Loop /\ loop.todo \in Seq(Runs) /\ loop.pc = "reconcile"
      /\ log' = Append(log, run_ended(r, "lost"))
      /\ loop' = [loop EXCEPT !.todo = Tail(loop.todo)]
      /\ UNCHANGED <<mgr, now, task, proc, killed, asked, sent, counts>>
  BY DEF IInv, TypeOK, Loop, reconcile
<1>2. /\ r = loop.todo[1] /\ 1 \in DOMAIN loop.todo /\ r \in Runs /\ Tail(loop.todo) \in Seq(Runs)
      /\ \A k \in DOMAIN Tail(loop.todo) :
            k + 1 \in DOMAIN loop.todo /\ Tail(loop.todo)[k] = loop.todo[k + 1]
      /\ \A k \in DOMAIN loop.todo :
            k = 1 \/ (k - 1 \in DOMAIN Tail(loop.todo) /\ loop.todo[k] = Tail(loop.todo)[k - 1])
  BY <1>1, HeadTail
<1> HIDE DEF r
<1>3. Wrote({}, {r})
  BY <1>1, <1>2, WroteEnd DEF IInv, ReadOK
<1>4. /\ loop' \in Loop /\ loop'.pc = loop.pc /\ loop'.seen = loop.seen
      /\ loop'.todo = Tail(loop.todo)
  BY <1>1, <1>2 DEF Loop
<1>5. r \in Started(log) /\ task[r] \in Over
  BY <1>1, <1>2 DEF IInv, TodoOK
<1>6. /\ Started(log') = Started(log) /\ Live(log') = Live(log) \ {r} /\ loop.seen <= Len(log')
  BY <1>3, NoStart
<1>7. Phases'
  BY <1>1, <1>4, <1>6 DEF IInv, Phases, Ticking
<1>8. TodoOK'
  <2>1. \A k \in DOMAIN Tail(loop.todo) :
           Tail(loop.todo)[k] \in Started(log) /\ task[Tail(loop.todo)[k]] \in Over
    BY <1>1, <1>2 DEF IInv, TodoOK
  <2>2. ASSUME NEW q \in Live(log')
        PROVE  q \in {Tail(loop.todo)[k] : k \in DOMAIN Tail(loop.todo)}
    <3>1. q # r /\ q \in {loop.todo[k] : k \in DOMAIN loop.todo}
      BY <1>1, <1>6, <2>2 DEF IInv, TodoOK
    <3>2. PICK k \in DOMAIN loop.todo : q = loop.todo[k]
      BY <3>1
    <3>3. QED
      BY <1>2, <3>1, <3>2
  <2>3. QED
    BY <1>1, <1>4, <1>6, <2>1, <2>2 DEF TodoOK
<1>9. Closes(r)
  BY <1>1, <1>3, <1>4, <1>5, <1>7, <1>8 DEF Closes
<1>10. QED
  BY <1>2, <1>9, CloseStep

\* The end, written by hand.
LEMMA TickByhandStep ==
    ASSUME IInv, tick_byhand
    PROVE  IInv'
<1> DEFINE r == Head(loop.todo)
           o == IF task[r] = "aborted" THEN "stopped" ELSE "lost"
<1>1. /\ loop \in Loop /\ loop.todo \in Seq(Runs) /\ loop.pc = "byhand" /\ loop.todo # << >>
      /\ log' = Append(log, run_ended(r, o))
      /\ loop' = [loop EXCEPT !.pc = "stops", !.todo = Tail(loop.todo)]
      /\ UNCHANGED <<mgr, now, task, proc, killed, asked, sent, counts>>
  BY DEF IInv, TypeOK, Phases, Loop, tick_byhand
<1>2. r = loop.todo[1] /\ 1 \in DOMAIN loop.todo /\ r \in Runs /\ Tail(loop.todo) \in Seq(Runs)
  BY <1>1, HeadTail
<1>3. o \in {"own", "stopped", "lost"}
  OBVIOUS
<1> HIDE DEF r, o
<1>4. Wrote({}, {r})
  BY <1>1, <1>2, <1>3, WroteEnd DEF IInv, ReadOK
<1>5. /\ loop' \in Loop /\ loop'.pc = "stops" /\ loop'.seen = loop.seen
  BY <1>1, <1>2 DEF Loop
<1>6. r \in Started(log) /\ task[r] \in Over
  BY <1>1, <1>2 DEF IInv, TodoOK
<1>7. loop.seen <= Len(log')
  BY <1>4, NoStart
<1>8. Phases'
  BY <1>1, <1>5, <1>7 DEF IInv, Phases, Ticking
<1>9. TodoOK'
  BY <1>5 DEF TodoOK
<1>10. Closes(r)
  BY <1>1, <1>4, <1>5, <1>6, <1>8, <1>9 DEF Closes
<1>11. QED
  BY <1>2, <1>10, CloseStep

\* The end of a run whose handle was still in the table on the way out.
LEMMA LeaveCloseOneStep ==
    ASSUME IInv, leave_close, loop.todo # << >>
    PROVE  IInv'
<1> DEFINE r == Head(loop.todo)
<1>1. /\ loop \in Loop /\ loop.todo \in Seq(Runs) /\ loop.pc = "close"
      /\ log' = Append(log, run_ended(r, "stopped"))
      /\ loop' = [loop EXCEPT !.todo = Tail(loop.todo)]
      /\ UNCHANGED <<mgr, now, task, proc, killed, asked, sent, counts>>
  BY DEF IInv, TypeOK, Loop, leave_close
<1>2. /\ r = loop.todo[1] /\ 1 \in DOMAIN loop.todo /\ r \in Runs /\ Tail(loop.todo) \in Seq(Runs)
      /\ \A k \in DOMAIN Tail(loop.todo) :
            k + 1 \in DOMAIN loop.todo /\ Tail(loop.todo)[k] = loop.todo[k + 1]
  BY <1>1, HeadTail
<1> HIDE DEF r
<1>3. Wrote({}, {r})
  BY <1>1, <1>2, WroteEnd DEF IInv, ReadOK
<1>4. /\ loop' \in Loop /\ loop'.pc = loop.pc /\ loop'.seen = loop.seen
      /\ loop'.todo = Tail(loop.todo)
  BY <1>1, <1>2 DEF Loop
<1>5. r \in Started(log) /\ task[r] \in Over
  BY <1>1, <1>2 DEF IInv, TodoOK
<1>6. Started(log') = Started(log) /\ loop.seen <= Len(log')
  BY <1>3, NoStart
<1>7. Phases'
  BY <1>1, <1>4, <1>6 DEF IInv, Phases, Ticking
<1>8. TodoOK'
  <2>1. \A k \in DOMAIN Tail(loop.todo) :
           Tail(loop.todo)[k] \in Started(log) /\ task[Tail(loop.todo)[k]] \in Over
    BY <1>1, <1>2 DEF IInv, TodoOK
  <2>2. QED
    BY <1>1, <1>4, <1>6, <2>1 DEF TodoOK
<1>9. Closes(r)
  BY <1>1, <1>3, <1>4, <1>5, <1>7, <1>8 DEF Closes
<1>10. QED
  BY <1>2, <1>9, CloseStep

\* The writer gets to an end.
LEMMA LandEndStep ==
    ASSUME IInv, NEW r \in Runs, <<"run_ended", r>> \in sent,
           log' = Append(log, run_ended(r, outcome_of(r))), sent' \subseteq sent,
           UNCHANGED <<now, mgr, loop, task, proc, killed, asked, counts>>
    PROVE  IInv'
<1>1. outcome_of(r) \in {"own", "stopped", "lost"}
  BY DEF outcome_of
<1>2. Wrote({}, {r})
  BY <1>1, WroteEnd DEF IInv, ReadOK
<1>3. r \in Started(log) /\ task[r] \in Over
  BY DEF IInv, SentOK
<1>4. loop.pc # "reconcile" /\ loop \in Loop
  BY DEF IInv, ReadOK, Phases, TypeOK
<1>5. Started(log') = Started(log) /\ loop.seen <= Len(log')
  BY <1>2, NoStart
<1>6. Phases'
  BY <1>5 DEF IInv, Phases
<1>7. TodoOK'
  BY <1>4, <1>5 DEF IInv, TodoOK
<1>8. Closes(r)
  BY <1>2, <1>3, <1>4, <1>6, <1>7 DEF Closes
<1>9. QED
  BY <1>8, CloseStep

\* The writer gets to a start: the claim it was becomes a live run.
LEMMA LandStartStep ==
    ASSUME IInv, NEW r \in Runs, <<"run_started", r>> \in sent,
           log' = Append(log, run_started(r)), sent' = sent \ {<<"run_started", r>>},
           UNCHANGED <<now, mgr, loop, task, proc, killed, asked, counts>>
    PROVE  IInv'
<1>1. Wrote({r}, {})
  BY WroteStart DEF IInv, ReadOK
<1>2. r \notin Started(log) /\ task[r] \in Over /\ mgr \in {"leaving", "left"}
  BY DEF IInv, SentOK
<1>3. /\ Started(log') = Started(log) \cup {r} /\ Ended(log') = Ended(log)
      /\ Live(log) = Started(log) \ Ended(log) /\ Live(log') = Started(log') \ Ended(log')
      /\ Ended(log) \subseteq Started(log)
  BY <1>1, LiveIs DEF Wrote, IInv, ReadOK
<1>4. Live(log') = Live(log) \cup {r}
  BY <1>2, <1>3
<1>5. TypeOK'
  BY <1>1 DEF Wrote, IInv, TypeOK
<1>6. Phases'
  BY <1>1 DEF Wrote, IInv, Phases, TypeOK, Loop
<1>7. TodoOK'
  BY <1>2, <1>3 DEF IInv, TodoOK, Phases
<1>8. ClaimsOK'
  <2>1. Claims' \subseteq Claims
    BY <1>4 DEF Claims
  <2>2. QED
    BY <2>1, ClaimsShrink DEF IInv
<1>9. ReadOK'
  <2>1. loop.pc # "plan" /\ mgr # "up"
    BY <1>2 DEF IInv, Phases, Ticking
  <2>2. StopsNamed(log')
    BY <1>1 DEF Wrote
  <2>3. QED
    BY <1>2, <1>3, <2>1, <2>2 DEF ReadOK
<1>10. ASSUME NEW q \in Runs PROVE (TaskOK(q) /\ SentOK(q))'
  <2>1. TaskOK(q) /\ SentOK(q) /\ SentOK(r)
    BY DEF IInv
  <2>2. TaskOK(q)'
    BY <1>2, <1>3, <1>4, <2>1 DEF TaskOK, Over
  <2>3. SentOK(q)'
    BY <1>2, <1>3, <2>1 DEF SentOK
  <2>4. QED
    BY <2>2, <2>3
<1>11. QED
  BY <1>5, <1>6, <1>7, <1>8, <1>9, <1>10 DEF IInv

\* The writer.
LEMMA LandStep ==
    ASSUME IInv, land
    PROVE  IInv'
<1>1. PICK e \in sent :
         /\ log' = Append(log, IF e[1] = "run_started" THEN run_started(e[2])
                               ELSE run_ended(e[2], outcome_of(e[2])))
         /\ sent' = sent \ {e}
  BY DEF land
<1>2. UNCHANGED <<now, mgr, loop, task, proc, killed, asked, counts>>
  BY DEF land
<1>3. PICK k \in {"run_started", "run_ended"}, r \in Runs : e = <<k, r>>
  BY <1>1 DEF IInv, TypeOK
<1>4. CASE k = "run_started"
  BY <1>1, <1>2, <1>3, <1>4, LandStartStep
<1>5. CASE k = "run_ended"
  BY <1>1, <1>2, <1>3, <1>5, LandEndStep
<1>6. QED
  BY <1>4, <1>5

\* A request, or a stop, while the manager is up: nothing starts or ends.
LEMMA AskStep ==
    ASSUME IInv, Wrote({}, {}), counts.asks < MaxAsks,
           counts' = [counts EXCEPT !.asks = @ + 1],
           UNCHANGED <<now, mgr, loop, task, proc, killed, asked, sent>>
    PROVE  IInv'
<1>1. /\ counts' \in [asks : 0 .. MaxAsks, faults : 0 .. MaxFaults, starts : 0 .. MaxStarts]
      /\ counts'.starts = counts.starts
  <2>1. counts \in [asks : 0 .. MaxAsks, faults : 0 .. MaxFaults, starts : 0 .. MaxStarts]
    BY DEF IInv, TypeOK
  <2>2. counts.asks + 1 \in 0 .. MaxAsks
    BY <2>1, JobAssumption
  <2>3. QED
    BY <2>1, <2>2
<1>2. /\ log' \in Seq(Event) /\ Started(log') = Started(log) /\ Ended(log') = Ended(log)
      /\ Live(log') = Live(log) /\ StopsNamed(log') /\ SubSeq(log', 1, loop.seen) = Seen
      /\ Earlier(log', counts.starts) = Earlier(log, counts.starts) /\ loop.seen <= Len(log')
  <2>1. PICK E : E = {}
    OBVIOUS
  <2>2. Wrote({}, E)
    BY <2>1
  <2>3. /\ log' \in Seq(Event) /\ Started(log') = Started(log) /\ StopsNamed(log')
        /\ Ended(log') = Ended(log) \cup E /\ Live(log') = Live(log) \ E
        /\ Earlier(log', counts.starts) = Earlier(log, counts.starts) /\ loop.seen <= Len(log')
        /\ SubSeq(log', 1, loop.seen) = Seen
    BY <2>2, NoStart
  <2>4. QED
    BY <2>1, <2>3
<1>3. TypeOK'
  BY <1>1, <1>2 DEF IInv, TypeOK
<1>4. Phases' /\ TodoOK'
  BY <1>2 DEF IInv, Phases, TodoOK
<1>5. ReadOK'
  BY <1>1, <1>2 DEF IInv, ReadOK, Seen
<1>6. ClaimsOK'
  <2>1. Claims' \subseteq Claims
    BY <1>2 DEF Claims
  <2>2. QED
    BY <2>1, ClaimsShrink DEF IInv
<1>7. \A r \in Runs : (TaskOK(r) /\ SentOK(r))'
  BY <1>2 DEF IInv, TaskOK, SentOK
<1>8. QED
  BY <1>3, <1>4, <1>5, <1>6, <1>7 DEF IInv

\* POST.
LEMMA RequestStep ==
    ASSUME IInv, NEW j \in Jobs, request(j)
    PROVE  IInv'
<1>1. Wrote({}, {})
  BY WroteAsk DEF IInv, ReadOK, request
<1>2. QED
  BY <1>1, AskStep DEF request

\* DELETE.
LEMMA StopStep ==
    ASSUME IInv, NEW r \in Runs, stop(r)
    PROVE  IInv'
<1>1. JobOf[r] \in Jobs
  BY JobAssumption
<1>2. Wrote({}, {})
  BY <1>1, WroteAsk DEF IInv, ReadOK, stop
<1>3. QED
  BY <1>2, AskStep DEF stop

\* With one live run to a job the facts have every live run, and it can be
\* listed.
LEMMA LiveListed ==
    ASSUME IInv, NEW S, S \subseteq LiveNow(log)
    PROVE  /\ LiveNow(log) = Live(log)
           /\ SetToSeq(S) \in Seq(Runs)
           /\ \A k \in DOMAIN SetToSeq(S) : SetToSeq(S)[k] \in S
           /\ S \subseteq {SetToSeq(S)[k] : k \in DOMAIN SetToSeq(S)}
<1>1. log \in Seq(Event) /\ \A q, r \in Live(log) : JobOf[q] = JobOf[r] => q = r
  BY DEF IInv, TypeOK, ClaimsOK, Claims
<1>2. LiveNow(log) = Live(log) /\ Live(log) \subseteq Runs /\ IsFiniteSet(Live(log))
  BY <1>1, LiveNowIsLive, LiveFinite, LiveIs
<1>3. IsFiniteSet(S) /\ S \subseteq Runs
  BY <1>2, FS_Subset
<1>4. QED
  BY <1>2, <1>3, Listed

\* A manager comes up, and has the runs that are nobody's to close.
LEMMA StartStep ==
    ASSUME IInv, start
    PROVE  IInv'
<1>1. /\ mgr \in {"down", "left"} /\ sent = {} /\ mgr' = "starting" /\ loop.pc = "off"
      /\ UNCHANGED <<log, now, task, proc, killed, asked, sent>>
  BY DEF start, IInv, Phases
<1>2. PICK todo : todo = SetToSeq(LiveNow(log))
  OBVIOUS
<1>3. /\ todo \in Seq(Runs) /\ \A k \in DOMAIN todo : todo[k] \in Live(log)
      /\ Live(log) \subseteq {todo[k] : k \in DOMAIN todo}
  BY <1>2, LiveListed
<1>4. loop' = [Off EXCEPT !.pc = "reconcile", !.todo = todo]
  BY <1>2 DEF start
<1>5. /\ loop' \in Loop /\ loop'.pc = "reconcile" /\ loop'.todo = todo /\ loop'.seen = 0
  BY <1>3, <1>4 DEF Loop, Off
<1>6. counts' \in [asks : 0 .. MaxAsks, faults : 0 .. MaxFaults, starts : 0 .. MaxStarts]
  <2>1. /\ counts \in [asks : 0 .. MaxAsks, faults : 0 .. MaxFaults, starts : 0 .. MaxStarts]
        /\ counts.starts < MaxStarts /\ counts' = [counts EXCEPT !.starts = counts.starts + 1]
    BY DEF start, IInv, TypeOK
  <2>2. counts.starts + 1 \in 0 .. MaxStarts
    BY <2>1, JobAssumption
  <2>3. QED
    BY <2>1, <2>2
<1>7. TypeOK'
  BY <1>1, <1>5, <1>6 DEF IInv, TypeOK
<1>8. Phases'
  <2>1. Len(log) \in Nat
    BY DEF IInv, TypeOK
  <2>2. QED
    BY <1>1, <1>5, <2>1 DEF Phases, Ticking
<1>9. TodoOK'
  <2>1. ASSUME NEW r \in Live(log) PROVE r \in Started(log) /\ task[r] \in Over
    <3>1. r \in Runs /\ r \in Started(log)
      BY LiveIs
    <3>2. TaskOK(r) /\ task[r] \in Task
      BY <3>1 DEF IInv, TypeOK
    <3>3. QED
      BY <1>1, <3>1, <3>2 DEF TaskOK, Task, Acting, Over
  <2>2. QED
    BY <1>1, <1>3, <1>5, <2>1 DEF TodoOK
<1>10. ClaimsOK'
  BY <1>1, ClaimsStay DEF IInv
<1>11. ReadOK'
  BY <1>1, <1>5 DEF IInv, ReadOK
<1>12. \A r \in Runs : (TaskOK(r) /\ SentOK(r))'
  BY <1>1, <1>5 DEF IInv, TaskOK, SentOK, Ticking
<1>13. QED
  BY <1>7, <1>8, <1>9, <1>10, <1>11, <1>12 DEF IInv

\* Nothing is left to reconcile, so nothing is live: the manager is up.
LEMMA ReconciledStep ==
    ASSUME IInv, reconcile, loop.todo = << >>
    PROVE  IInv'
<1>1. /\ loop \in Loop /\ loop.pc = "reconcile" /\ mgr' = "up" /\ mgr = "starting" /\ sent = {}
      /\ loop' = [loop EXCEPT !.pc = "sleep"]
      /\ UNCHANGED <<log, now, task, proc, killed, asked, sent, counts>>
  BY DEF reconcile, IInv, TypeOK, Phases, ReadOK
<1>2. /\ loop' \in Loop /\ loop'.pc = "sleep" /\ loop'.seen = loop.seen
  BY <1>1 DEF Loop
<1>3. Live(log) = {}
  BY <1>1 DEF IInv, TodoOK
<1>4. TypeOK'
  BY <1>1, <1>2 DEF IInv, TypeOK
<1>5. Phases'
  BY <1>1, <1>2 DEF IInv, Phases, Ticking
<1>6. TodoOK'
  BY <1>2 DEF TodoOK
<1>7. ClaimsOK'
  BY <1>1, ClaimsStay DEF IInv
<1>8. ReadOK'
  BY <1>1, <1>2, <1>3 DEF IInv, ReadOK
<1>9. \A r \in Runs : (TaskOK(r) /\ SentOK(r))'
  BY <1>1, <1>2, <1>3 DEF IInv, TaskOK, SentOK, Ticking
<1>10. QED
  BY <1>4, <1>5, <1>6, <1>7, <1>8, <1>9 DEF IInv

\* The other queries of a read.
LEMMA TickFactsStep ==
    ASSUME IInv, tick_facts
    PROVE  IInv'
<1>1. /\ loop \in Loop /\ loop.pc \in {"read", "reread"} /\ Len(log) \in Nat /\ log \in Seq(Event)
      /\ UNCHANGED <<log, now, mgr, task, proc, killed, asked, sent, counts>>
  BY DEF tick_facts, IInv, TypeOK
<1>2. PICK stops \in Seq(Runs) : stops = IF loop.pc = "read" THEN Stops(log) ELSE << >>
  <2>1. Stops(log) \in Seq(Runs)
    BY <1>1, StopsType DEF IInv, ReadOK
  <2>2. << >> \in Seq(Runs)
    OBVIOUS
  <2>3. QED
    BY <2>1, <2>2
<1>3. PICK pc \in {"plan", "stops"} :
         loop' = [loop EXCEPT !.pc = pc, !.seen = Len(log), !.todo = stops]
  BY <1>2 DEF tick_facts
<1>4. loop' \in Loop /\ loop'.pc \in {"plan", "stops"} /\ loop'.seen = Len(log)
  BY <1>1, <1>2, <1>3 DEF Loop
<1>5. TypeOK'
  BY <1>1, <1>4 DEF IInv, TypeOK
<1>6. Phases'
  BY <1>1, <1>4 DEF IInv, Phases, Ticking
<1>7. TodoOK'
  BY <1>4 DEF TodoOK
<1>8. ClaimsOK'
  BY <1>1, ClaimsStay DEF IInv
<1>9. ReadOK'
  <2>1. SubSeq(log, 1, Len(log)) = log
    BY <1>1
  <2>2. QED
    BY <1>1, <1>4, <2>1 DEF IInv, ReadOK, Seen
<1>10. \A r \in Runs : (TaskOK(r) /\ SentOK(r))'
  BY <1>1, <1>4 DEF IInv, TaskOK, SentOK, Ticking
<1>11. QED
  BY <1>5, <1>6, <1>7, <1>8, <1>9, <1>10 DEF IInv

\* sh.kill answers the loop.
LEMMA TickKilledStep ==
    ASSUME IInv, tick_killed
    PROVE  IInv'
<1>1. /\ loop \in Loop /\ loop.pc = "killing" /\ loop.todo # << >> /\ loop.todo \in Seq(Runs)
      /\ loop' = [loop EXCEPT !.pc = "stops", !.todo = Tail(loop.todo)]
      /\ UNCHANGED <<log, now, mgr, task, proc, killed, asked, sent, counts>>
  BY DEF tick_killed, IInv, TypeOK, Phases, Loop
<1>2. Tail(loop.todo) \in Seq(Runs)
  BY <1>1, HeadTail
<1>3. loop' \in Loop /\ loop'.pc = "stops" /\ loop'.seen = loop.seen
  BY <1>1, <1>2 DEF Loop
<1>4. TypeOK'
  BY <1>1, <1>3 DEF IInv, TypeOK
<1>5. Phases'
  BY <1>1, <1>3 DEF IInv, Phases, Ticking
<1>6. TodoOK'
  BY <1>3 DEF TodoOK
<1>7. ClaimsOK'
  BY <1>1, ClaimsStay DEF IInv
<1>8. ReadOK'
  BY <1>1, <1>3 DEF IInv, ReadOK
<1>9. \A r \in Runs : (TaskOK(r) /\ SentOK(r))'
  BY <1>1, <1>3 DEF IInv, TaskOK, SentOK, Ticking
<1>10. QED
  BY <1>4, <1>5, <1>6, <1>7, <1>8, <1>9 DEF IInv

\* A query or an append of a tick fails.
LEMMA TickRaiseStep ==
    ASSUME IInv, tick_raise
    PROVE  IInv'
<1>1. /\ loop.pc \in {"read", "reread", "byhand", "plan"} /\ Len(log) \in Nat
      /\ loop' = [Off EXCEPT !.pc = "sleep"]
      /\ UNCHANGED <<log, now, mgr, task, proc, killed, asked, sent>>
  BY DEF tick_raise, IInv, TypeOK
<1>2. /\ counts' \in [asks : 0 .. MaxAsks, faults : 0 .. MaxFaults, starts : 0 .. MaxStarts]
      /\ counts'.starts = counts.starts
  <2>1. counts.faults < MaxFaults /\ counts' = [counts EXCEPT !.faults = counts.faults + 1]
    BY DEF tick_raise
  <2>2. QED
    BY <2>1, FaultCounted DEF IInv
<1>3. loop' \in Loop /\ loop'.pc = "sleep" /\ loop'.seen = 0
  <2>1. PICK y : y = Off
    OBVIOUS
  <2>2. y \in Loop /\ y.seen = 0 /\ loop' = [y EXCEPT !.pc = "sleep"]
    BY <1>1, <2>1, OffType
  <2>3. QED
    BY <2>2 DEF Loop
<1>4. TypeOK'
  BY <1>1, <1>2, <1>3 DEF IInv, TypeOK
<1>5. Phases'
  BY <1>1, <1>3 DEF IInv, Phases, Ticking
<1>6. TodoOK'
  BY <1>3 DEF TodoOK
<1>7. ClaimsOK'
  BY <1>1, ClaimsStay DEF IInv
<1>8. ReadOK'
  BY <1>1, <1>2, <1>3 DEF IInv, ReadOK
<1>9. \A r \in Runs : (TaskOK(r) /\ SentOK(r))'
  BY <1>1, <1>3 DEF IInv, TaskOK, SentOK, Ticking
<1>10. QED
  BY <1>4, <1>5, <1>6, <1>7, <1>8, <1>9 DEF IInv

\* The read on the way out: every handle that is left is of an aborted task.
LEMMA LeaveReadStep ==
    ASSUME IInv, leave_read
    PROVE  IInv'
<1>1. /\ mgr = "leaving" /\ loop.pc = "off" /\ loop \in Loop /\ Len(log) \in Nat
      /\ \A r \in Handles : task[r] = "left"
      /\ UNCHANGED <<log, now, mgr, task, proc, killed, asked, sent, counts>>
  BY DEF leave_read, IInv, TypeOK
<1>2. PICK todo : todo = SetToSeq(LiveNow(log) \cap Handles)
  OBVIOUS
<1>3. PICK S : S = LiveNow(log) \cap Handles
  OBVIOUS
<1>4. S \subseteq LiveNow(log) /\ todo = SetToSeq(S)
  BY <1>2, <1>3
<1>5. LiveNow(log) = Live(log) /\ todo \in Seq(Runs) /\ \A k \in DOMAIN todo : todo[k] \in S
  BY <1>4, LiveListed
<1>6. loop' = [loop EXCEPT !.pc = "close", !.todo = todo]
  BY <1>2 DEF leave_read
<1>7. loop' \in Loop /\ loop'.pc = "close" /\ loop'.seen = loop.seen /\ loop'.todo = todo
  BY <1>1, <1>5, <1>6 DEF Loop
<1>8. TypeOK'
  BY <1>1, <1>7 DEF IInv, TypeOK
<1>9. Phases'
  BY <1>1, <1>7 DEF IInv, Phases, Ticking
<1>10. TodoOK'
  <2>1. \A k \in DOMAIN todo : todo[k] \in Started(log) /\ task[todo[k]] \in Over
    BY <1>1, <1>3, <1>5, LiveIs DEF Over
  <2>2. QED
    BY <1>1, <1>7, <2>1 DEF TodoOK
<1>11. ClaimsOK'
  BY <1>1, ClaimsStay DEF IInv
<1>12. ReadOK'
  BY <1>1, <1>7 DEF IInv, ReadOK
<1>13. ASSUME NEW r \in Runs PROVE (TaskOK(r) /\ SentOK(r))'
  <2>1. task[r] \notin Acting \cup {"spawned"}
    BY <1>1 DEF Handles, Acting
  <2>2. TaskOK(r) /\ SentOK(r)
    BY DEF IInv
  <2>3. QED
    BY <1>1, <1>7, <2>1, <2>2 DEF TaskOK, SentOK, Acting
<1>14. QED
  BY <1>8, <1>9, <1>10, <1>11, <1>12, <1>13 DEF IInv

\* The process of the manager ends, in order or not: its tasks go with it.
LEMMA TasksGone ==
    ASSUME IInv, task' = [r \in Runs |-> IF r \in Handles THEN "aborted" ELSE task[r]]
    PROVE  /\ task' \in [Runs -> Task]
           /\ \A r \in Runs : \/ task'[r] = "aborted"
                              \/ task'[r] = task[r] /\ task[r] \in {"none", "done", "aborted"}
           /\ \A r \in Runs : task'[r] = "none" => task[r] = "none"
<1>1. \A r \in Runs : task[r] \in Task
  BY DEF IInv, TypeOK
<1>2. QED
  BY <1>1 DEF Handles, Task

\* Nothing is left to close: the manager has left.
LEMMA LeftStep ==
    ASSUME IInv, leave_close, loop.todo = << >>
    PROVE  IInv'
<1>1. /\ loop.pc = "close" /\ mgr' = "left" /\ loop' = Off /\ Len(log) \in Nat
      /\ task' = [r \in Runs |-> IF r \in Handles THEN "aborted" ELSE task[r]]
      /\ UNCHANGED <<log, now, proc, killed, asked, sent, counts>>
  BY DEF leave_close, IInv, TypeOK
<1>2. mgr \notin {"down", "starting", "up", "left"}
  BY <1>1 DEF IInv, Phases, Ticking
<1>3. /\ task' \in [Runs -> Task]
      /\ \A r \in Runs : \/ task'[r] = "aborted"
                         \/ task'[r] = task[r] /\ task[r] \in {"none", "done", "aborted"}
      /\ \A r \in Runs : task'[r] = "none" => task[r] = "none"
  BY <1>1, TasksGone
<1>4. TypeOK'
  BY <1>1, <1>3, OffType DEF IInv, TypeOK
<1>5. Phases' /\ TodoOK'
  BY <1>1, OffType DEF Phases, TodoOK, Ticking
<1>6. ClaimsOK'
  <2>1. Claims' \subseteq Claims
    BY <1>1, <1>3 DEF Claims
  <2>2. QED
    BY <2>1, ClaimsShrink DEF IInv
<1>7. ReadOK'
  BY <1>1, OffType DEF IInv, ReadOK
<1>8. ASSUME NEW r \in Runs PROVE (TaskOK(r) /\ SentOK(r))'
  <2>1. TaskOK(r) /\ SentOK(r)
    BY DEF IInv
  <2>2. TaskOK(r)'
    BY <1>1, <1>2, <1>3, <2>1, OffType DEF TaskOK, Acting, Ticking
  <2>3. SentOK(r)'
    BY <1>1, <1>3, <2>1 DEF SentOK, Over
  <2>4. QED
    BY <2>2, <2>3
<1>9. QED
  BY <1>4, <1>5, <1>6, <1>7, <1>8 DEF IInv

\* The manager is killed.
LEMMA CrashStep ==
    ASSUME IInv, crash
    PROVE  IInv'
<1>1. /\ mgr' = "down" /\ loop' = Off /\ sent' = {} /\ Len(log) \in Nat
      /\ task' = [r \in Runs |-> IF r \in Handles THEN "aborted" ELSE task[r]]
      /\ proc' = [r \in Runs |-> IF proc[r] = "running" THEN "orphan" ELSE proc[r]]
      /\ UNCHANGED <<log, now, killed, asked>>
  BY DEF crash, IInv, TypeOK
<1>2. counts' \in [asks : 0 .. MaxAsks, faults : 0 .. MaxFaults, starts : 0 .. MaxStarts]
  <2>1. counts.faults < MaxFaults /\ counts' = [counts EXCEPT !.faults = counts.faults + 1]
    BY DEF crash
  <2>2. QED
    BY <2>1, FaultCounted DEF IInv
<1>3. /\ task' \in [Runs -> Task]
      /\ \A r \in Runs : \/ task'[r] = "aborted"
                         \/ task'[r] = task[r] /\ task[r] \in {"none", "done", "aborted"}
      /\ \A r \in Runs : task'[r] = "none" => task[r] = "none"
  BY <1>1, TasksGone
<1>4. /\ proc' \in [Runs -> {"none", "running", "dead", "orphan"}]
      /\ \A r \in Runs : proc'[r] # "running"
  BY <1>1 DEF IInv, TypeOK
<1>5. TypeOK'
  BY <1>1, <1>2, <1>3, <1>4, OffType DEF IInv, TypeOK
<1>6. Phases' /\ TodoOK'
  BY <1>1, OffType DEF Phases, TodoOK, Ticking
<1>7. ClaimsOK'
  <2>1. Claims' \subseteq Claims
    BY <1>1, <1>3 DEF Claims
  <2>2. QED
    BY <2>1, ClaimsShrink DEF IInv
<1>8. ReadOK'
  BY <1>1, OffType DEF IInv, ReadOK
<1>9. ASSUME NEW r \in Runs PROVE (TaskOK(r) /\ SentOK(r))'
  <2>1. TaskOK(r)
    BY DEF IInv
  <2>2. TaskOK(r)'
    BY <1>1, <1>3, <1>4, <2>1, OffType DEF TaskOK, Acting, Ticking
  <2>3. SentOK(r)'
    BY <1>1 DEF SentOK
  <2>4. QED
    BY <2>2, <2>3
<1>10. QED
  BY <1>5, <1>6, <1>7, <1>8, <1>9 DEF IInv

\* h:abort() of a run without a process: its task goes, and what it was
\* writing may be with the log's writer.  A start is written only by a task
\* that is aborted on the way out.
Aborts(r, to) ==
    /\ to \in {"aborted", "left"} /\ Abort(r, to) /\ proc[r] # "running"
    /\ to = "left" \/ task[r] = "spawned" => mgr = "leaving"
    /\ UNCHANGED <<log, now, mgr, proc, killed, asked, counts>>
    /\ loop' \in Loop /\ Phases' /\ TodoOK' /\ loop'.pc \notin {"plan", "close"}
    /\ loop'.pc \in Ticking => loop.pc \in Ticking \ {"sleep"}

\* What an abort changes.
LEMMA AbortFacts ==
    ASSUME IInv, NEW r \in Runs, NEW to \in {"aborted", "left"}, Abort(r, to)
    PROVE  /\ task' \in [Runs -> Task] /\ \A q \in Runs \ {r} : task'[q] = task[q]
           /\ task'[r] = to \/ (task'[r] = task[r] /\ task[r] \in {"none", "done", "aborted"})
           /\ sent \subseteq sent'
           /\ \A k, q : <<k, q>> \in sent' =>
                 \/ <<k, q>> \in sent
                 \/ /\ q = r /\ task'[r] = to
                    /\ \/ k = "run_started" /\ task[r] = "spawned"
                       \/ k = "run_ended" /\ task[r] = "exited"
           /\ sent' \subseteq {"run_started", "run_ended"} \X Runs
<1>1. /\ task \in [Runs -> Task] /\ task[r] \in Task
      /\ sent \subseteq {"run_started", "run_ended"} \X Runs
  BY DEF IInv, TypeOK
<1>2. task' = IF r \in Handles THEN [task EXCEPT ![r] = to] ELSE task
  BY DEF Abort
<1>3. task' \in [Runs -> Task] /\ \A q \in Runs \ {r} : task'[q] = task[q]
  BY <1>1, <1>2 DEF Task
<1>4. task'[r] = to \/ (task'[r] = task[r] /\ task[r] \in {"none", "done", "aborted"})
  BY <1>1, <1>2 DEF Handles, Task
<1>5. \/ sent' = sent
      \/ task[r] = "spawned" /\ sent' = sent \cup {<<"run_started", r>>}
      \/ task[r] = "exited" /\ sent' = sent \cup {<<"run_ended", r>>}
  BY DEF Abort, Writing
<1>6. sent \subseteq sent' /\ sent' \subseteq {"run_started", "run_ended"} \X Runs
  BY <1>1, <1>5
<1>7. ASSUME NEW k, NEW q, <<k, q>> \in sent', <<k, q>> \notin sent
      PROVE  /\ q = r /\ task'[r] = to
             /\ \/ k = "run_started" /\ task[r] = "spawned"
                \/ k = "run_ended" /\ task[r] = "exited"
  BY <1>4, <1>5, <1>7
<1>8. QED
  BY <1>3, <1>4, <1>6, <1>7

\* An abort keeps the invariant.
LEMMA AbortStep ==
    ASSUME IInv, NEW r \in Runs, NEW to, Aborts(r, to)
    PROVE  IInv'
<1>1. /\ to \in {"aborted", "left"} /\ proc[r] # "running"
      /\ to = "left" \/ task[r] = "spawned" => mgr = "leaving"
      /\ UNCHANGED <<log, now, mgr, proc, killed, asked, counts>>
      /\ loop' \in Loop /\ loop'.pc \notin {"plan", "close"}
      /\ loop'.pc \in Ticking => loop.pc \in Ticking \ {"sleep"}
  BY DEF Aborts
<1>2. /\ task' \in [Runs -> Task] /\ \A q \in Runs \ {r} : task'[q] = task[q]
      /\ task'[r] = to \/ (task'[r] = task[r] /\ task[r] \in {"none", "done", "aborted"})
      /\ sent \subseteq sent'
      /\ \A k, q : <<k, q>> \in sent' =>
            \/ <<k, q>> \in sent
            \/ /\ q = r /\ task'[r] = to
               /\ \/ k = "run_started" /\ task[r] = "spawned"
                  \/ k = "run_ended" /\ task[r] = "exited"
      /\ sent' \subseteq {"run_started", "run_ended"} \X Runs
  BY <1>1, AbortFacts DEF Aborts
<1>3. TypeOK'
  BY <1>1, <1>2 DEF IInv, TypeOK
<1>4. ClaimsOK'
  <2>1. ASSUME NEW q \in Runs, task'[q] = "spawned" \/ <<"run_started", q>> \in sent'
        PROVE  task[q] = "spawned" \/ <<"run_started", q>> \in sent
    <3>1. task'[r] # "spawned"
      BY <1>1, <1>2
    <3>2. CASE task'[q] = "spawned"
      BY <1>2, <3>1, <3>2
    <3>3. CASE <<"run_started", q>> \in sent'
      BY <1>2, <3>3
    <3>4. QED
      BY <2>1, <3>2, <3>3
  <2>2. Claims' \subseteq Claims
    BY <1>1, <2>1 DEF Claims
  <2>3. QED
    BY <2>2, ClaimsShrink DEF IInv
<1>5. ReadOK'
  <2>1. mgr \in {"down", "starting"} => sent' = {}
    <3>1. SUFFICES ASSUME mgr \in {"down", "starting"} PROVE sent' = {}
      OBVIOUS
    <3>2. sent = {} /\ task[r] \notin {"spawned", "exited"}
      BY <3>1 DEF IInv, ReadOK, TaskOK, Acting
    <3>3. \A e \in sent' : \E k, q : e = <<k, q>>
      BY <1>2
    <3>4. QED
      BY <1>2, <3>2, <3>3
  <2>2. QED
    BY <1>1, <2>1 DEF IInv, ReadOK
<1>6. ASSUME NEW q \in Runs PROVE (TaskOK(q) /\ SentOK(q))'
  <2>1. TaskOK(q) /\ SentOK(q) /\ TaskOK(r)
    BY DEF IInv
  <2>2. TaskOK(q)'
    <3>1. CASE q = r
      BY <1>1, <1>2, <2>1, <3>1 DEF TaskOK, Acting
    <3>2. CASE q # r
      <4>1. task'[q] = task[q]
        BY <1>2, <3>2
      <4>2. QED
        BY <1>1, <2>1, <4>1 DEF TaskOK
    <3>3. QED
      BY <3>1, <3>2
  <2>3. SentOK(q)'
    <3>1. ASSUME <<"run_started", q>> \in sent'
          PROVE  q \notin Started(log) /\ task'[q] \in Over /\ mgr \in {"leaving", "left"}
      <4>1. CASE <<"run_started", q>> \in sent
        BY <1>1, <1>2, <2>1, <4>1 DEF SentOK, Over
      <4>2. CASE q = r /\ task'[r] = to /\ task[r] = "spawned"
        BY <1>1, <2>1, <4>2 DEF TaskOK, Over
      <4>3. QED
        BY <1>2, <3>1, <4>1, <4>2
    <3>2. ASSUME <<"run_ended", q>> \in sent'
          PROVE  q \in Started(log) /\ task'[q] \in Over
      <4>1. CASE <<"run_ended", q>> \in sent
        BY <1>1, <1>2, <2>1, <4>1 DEF SentOK, Over
      <4>2. CASE q = r /\ task'[r] = to /\ task[r] = "exited"
        BY <1>1, <2>1, <4>2, LiveIs DEF TaskOK, Acting, Over
      <4>3. QED
        BY <1>2, <3>2, <4>1, <4>2
    <3>3. QED
      BY <1>1, <3>1, <3>2 DEF SentOK
  <2>4. QED
    BY <2>2, <2>3
<1>7. QED
  BY <1>3, <1>4, <1>5, <1>6 DEF IInv, Aborts

\* sh.kill marks a group and waits: nothing but the loop moves.
LEMMA MarkStep ==
    ASSUME IInv, killed' \subseteq Runs, loop' \in Loop, loop'.pc \in {"killing", "gone"}, Phases',
           loop'.pc = "killing" => loop.pc = "stops",
           UNCHANGED <<log, now, mgr, task, proc, asked, sent, counts>>
    PROVE  IInv'
<1>1. TypeOK'
  BY DEF IInv, TypeOK
<1>2. TodoOK'
  BY DEF TodoOK
<1>3. ClaimsOK'
  BY ClaimsStay DEF IInv
<1>4. ReadOK'
  BY DEF IInv, ReadOK
<1>5. \A r \in Runs : (TaskOK(r) /\ SentOK(r))'
  BY DEF IInv, TaskOK, SentOK, Ticking
<1>6. QED
  BY <1>1, <1>2, <1>3, <1>4, <1>5 DEF IInv

\* What has a start in what was read has one in the record.
LEMMA SeenStarted ==
    ASSUME IInv
    PROVE  Live(Seen) \subseteq Started(log)
<1>1. log \in Seq(Event) /\ loop.seen \in Nat /\ loop.seen <= Len(log)
  BY DEF IInv, Phases, TypeOK, Loop
<1>2. DOMAIN Seen = 1 .. loop.seen /\ \A i \in 1 .. loop.seen : Seen[i] = log[i]
  BY <1>1 DEF Seen
<1>3. DOMAIN log = 1 .. Len(log) /\ Len(log) \in Nat
  BY <1>1
<1>4. \A i \in DOMAIN Seen : i \in DOMAIN log /\ Seen[i] = log[i]
  BY <1>1, <1>2, <1>3
<1>5. QED
  BY <1>4 DEF Live, Started, Has

\* One stop.
LEMMA TickStopStep ==
    ASSUME IInv, tick_stop
    PROVE  IInv'
<1> DEFINE r == Head(loop.todo)
<1>1. /\ loop \in Loop /\ loop.todo \in Seq(Runs) /\ loop.pc = "stops" /\ loop.todo # << >>
      /\ UNCHANGED <<log, now, mgr, proc, asked, counts>>
  BY DEF IInv, TypeOK, Loop, tick_stop
<1>2. r = loop.todo[1] /\ 1 \in DOMAIN loop.todo /\ r \in Runs /\ Tail(loop.todo) \in Seq(Runs)
  BY <1>1, HeadTail
<1>3. \/ /\ Registered(r) /\ killed' = killed \cup {r} /\ loop' = [loop EXCEPT !.pc = "killing"]
         /\ UNCHANGED <<task, sent>>
      \/ /\ ~Registered(r) /\ Abort(r, "aborted") /\ UNCHANGED killed
         /\ \/ r \in LiveNow(Seen) /\ loop' = [loop EXCEPT !.pc = "byhand"]
            \/ loop' = [loop EXCEPT !.todo = Tail(loop.todo)]
  BY DEF tick_stop
<1> HIDE DEF r
<1>4. TaskOK(r) /\ task[r] \in Task
  BY <1>2 DEF IInv, TypeOK
<1>5. CASE /\ Registered(r) /\ killed' = killed \cup {r} /\ loop' = [loop EXCEPT !.pc = "killing"]
           /\ UNCHANGED <<task, sent>>
  <2>1. /\ loop' \in Loop /\ loop'.pc = "killing" /\ loop'.todo = loop.todo
        /\ loop'.seen = loop.seen
    BY <1>1, <1>5 DEF Loop
  <2>2. killed' \subseteq Runs
    BY <1>2, <1>5 DEF IInv, TypeOK
  <2>3. Phases'
    BY <1>1, <2>1 DEF IInv, Phases, Ticking
  <2>4. QED
    BY <1>1, <1>5, <2>1, <2>2, <2>3, MarkStep
<1>6. ASSUME ~Registered(r), Abort(r, "aborted"), UNCHANGED killed,
             \/ r \in LiveNow(Seen) /\ loop' = [loop EXCEPT !.pc = "byhand"]
             \/ loop' = [loop EXCEPT !.todo = Tail(loop.todo)]
      PROVE  IInv'
  <2>1. /\ loop' \in Loop /\ loop'.seen = loop.seen
        /\ \/ r \in LiveNow(Seen) /\ loop'.pc = "byhand" /\ loop'.todo = loop.todo
           \/ loop'.pc = "stops"
    BY <1>1, <1>2, <1>6 DEF Loop
  <2>2. proc[r] # "running" /\ task[r] # "spawned" /\ task[r] # "exec"
    BY <1>1, <1>4, <1>6 DEF TaskOK, Registered, Ticking
  <2>3. Phases'
    BY <1>1, <2>1 DEF IInv, Phases, Ticking
  <2>4. TodoOK'
    <3>1. CASE loop'.pc = "stops"
      BY <3>1 DEF TodoOK
    <3>2. CASE r \in LiveNow(Seen) /\ loop'.pc = "byhand" /\ loop'.todo = loop.todo
      <4>1. r \in Started(log)
        BY <3>2, SeenStarted DEF LiveNow
      <4>2. task'[r] = "aborted" \/ (task'[r] = task[r] /\ task[r] \in {"none", "done", "aborted"})
        BY <1>2, <1>6, AbortFacts
      <4>3. task[r] # "none"
        BY <1>4, <4>1 DEF TaskOK
      <4>4. task'[r] \in Over
        BY <4>2, <4>3 DEF Over
      <4>5. QED
        BY <1>1, <1>2, <3>2, <4>1, <4>4 DEF TodoOK
    <3>3. QED
      BY <2>1, <3>1, <3>2
  <2>5. Aborts(r, "aborted")
    BY <1>1, <1>6, <2>1, <2>2, <2>3, <2>4 DEF Aborts, Ticking
  <2>6. QED
    BY <1>2, <2>5, AbortStep
<1>7. QED
  BY <1>3, <1>5, <1>6

\* bus.serve has returned.
LEMMA LeaveStep ==
    ASSUME IInv, leave
    PROVE  IInv'
<1>1. /\ mgr = "up" /\ mgr' = "leaving" /\ loop' = Off /\ Len(log) \in Nat
      /\ UNCHANGED <<log, now, task, proc, killed, asked, counts>>
  BY DEF leave, IInv, TypeOK
<1>2. \/ sent' = sent
      \/ loop.pc = "byhand" /\ sent' = sent \cup {<<"run_ended", Head(loop.todo)>>}
  BY DEF leave
<1>3. PICK h : h = Head(loop.todo)
  OBVIOUS
<1>4. loop.pc = "byhand" => h \in Runs /\ h \in Started(log) /\ task[h] \in Over
  <2>1. SUFFICES ASSUME loop.pc = "byhand"
                 PROVE  h \in Runs /\ h \in Started(log) /\ task[h] \in Over
    OBVIOUS
  <2>2. loop.todo \in Seq(Runs) /\ loop.todo # << >>
    BY <2>1 DEF IInv, TypeOK, Phases, Loop
  <2>3. h = loop.todo[1] /\ 1 \in DOMAIN loop.todo /\ h \in Runs
    BY <1>3, <2>2, HeadTail
  <2>4. QED
    BY <2>1, <2>3 DEF IInv, TodoOK
<1>5. \A k, q : <<k, q>> \in sent' =>
         <<k, q>> \in sent \/ (k = "run_ended" /\ q = h /\ loop.pc = "byhand")
  BY <1>2, <1>3
<1>6. TypeOK'
  <2>1. sent' \subseteq {"run_started", "run_ended"} \X Runs
    BY <1>2, <1>3, <1>4 DEF IInv, TypeOK
  <2>2. QED
    BY <1>1, <2>1, OffType DEF IInv, TypeOK
<1>7. Phases' /\ TodoOK'
  BY <1>1, OffType DEF Phases, TodoOK, Ticking
<1>8. ClaimsOK'
  <2>1. Claims' \subseteq Claims
    BY <1>1, <1>5 DEF Claims
  <2>2. QED
    BY <2>1, ClaimsShrink DEF IInv
<1>9. ReadOK'
  BY <1>1, OffType DEF IInv, ReadOK
<1>10. ASSUME NEW q \in Runs PROVE (TaskOK(q) /\ SentOK(q))'
  <2>1. TaskOK(q) /\ SentOK(q)
    BY DEF IInv
  <2>2. TaskOK(q)'
    BY <1>1, <2>1, OffType DEF TaskOK, Ticking
  <2>3. SentOK(q)'
    BY <1>1, <1>4, <1>5, <2>1 DEF SentOK
  <2>4. QED
    BY <2>2, <2>3
<1>11. QED
  BY <1>6, <1>7, <1>8, <1>9, <1>10 DEF IInv

\* On the way out: the group is marked, or the task is aborted.
LEMMA LeaveKillStep ==
    ASSUME IInv, NEW r \in Runs, leave_kill(r)
    PROVE  IInv'
<1>1. /\ mgr = "leaving" /\ loop.pc = "off" /\ loop \in Loop
      /\ UNCHANGED <<log, now, mgr, proc, asked, counts>>
  BY DEF leave_kill, IInv, TypeOK
<1>2. CASE Registered(r)
  <2>1. /\ killed' = killed \cup {r} /\ loop' = [loop EXCEPT !.pc = "gone", !.todo = <<r>>]
        /\ UNCHANGED <<task, sent>>
    BY <1>2 DEF leave_kill
  <2>2. <<r>> \in Seq(Runs) /\ <<r>> # << >>
    OBVIOUS
  <2>3. /\ loop' \in Loop /\ loop'.pc = "gone" /\ loop'.todo = <<r>> /\ loop'.seen = loop.seen
    BY <1>1, <2>1, <2>2 DEF Loop
  <2>4. killed' \subseteq Runs
    BY <2>1 DEF IInv, TypeOK
  <2>5. Phases'
    BY <1>1, <2>2, <2>3 DEF IInv, Phases, Ticking
  <2>6. QED
    BY <1>1, <2>1, <2>3, <2>4, <2>5, MarkStep
<1>3. CASE ~Registered(r)
  <2>1. Abort(r, "left") /\ UNCHANGED <<killed, loop>>
    BY <1>3 DEF leave_kill
  <2>2. TaskOK(r)
    BY DEF IInv
  <2>3. proc[r] # "running"
    BY <1>3, <2>2 DEF TaskOK, Registered
  <2>4. Phases'
    BY <1>1, <2>1 DEF IInv, Phases
  <2>5. TodoOK'
    BY <1>1, <2>1 DEF TodoOK
  <2>6. Aborts(r, "left")
    BY <1>1, <2>1, <2>3, <2>4, <2>5 DEF Aborts, Ticking
  <2>7. QED
    BY <2>6, AbortStep
<1>4. QED
  BY <1>2, <1>3

\* The group is gone, and the task is aborted.
LEMMA LeaveAbortStep ==
    ASSUME IInv, leave_abort
    PROVE  IInv'
<1> DEFINE r == Head(loop.todo)
<1>1. /\ loop.pc = "gone" /\ loop.todo \in Seq(Runs) /\ loop.todo # << >> /\ Len(log) \in Nat
      /\ proc[r] # "running" /\ Abort(r, "left") /\ loop' = Off
      /\ UNCHANGED <<log, now, mgr, proc, killed, asked, counts>>
  BY DEF leave_abort, IInv, TypeOK, Loop, Phases
<1>2. r \in Runs
  BY <1>1, HeadTail
<1> HIDE DEF r
<1>3. mgr = "leaving"
  BY <1>1 DEF IInv, Phases, Ticking, TypeOK
<1>4. Phases' /\ TodoOK'
  BY <1>1, <1>3, OffType DEF Phases, TodoOK, Ticking
<1>5. Aborts(r, "left")
  BY <1>1, <1>3, <1>4, OffType DEF Aborts, Ticking
<1>6. QED
  BY <1>2, <1>5, AbortStep

\* The claims of a plan.  What is live is within what the plan saw live; a job
\* it starts has no live run there, and counts against the cap.
LEMMA PlanClaims ==
    ASSUME ClaimsOK, NEW l, NEW starts, Startable(starts, l), IsFiniteSet(Live(l)),
           Live(log) \subseteq Live(l), Live(log) \subseteq Claims,
           NEW born, NEW g \in Surjection(starts, born), born \subseteq Runs,
           \A j \in starts : JobOf[g[j]] = j, Claims' \subseteq Live(log) \cup born
    PROVE  ClaimsOK'
<1>1. ASSUME NEW q \in born PROVE JobOf[q] \in starts /\ q = g[JobOf[q]]
  BY DEF Surjection
<1>2. \A q, r \in Live(log) \cup born : JobOf[q] = JobOf[r] => q = r
  <2>1. SUFFICES ASSUME NEW q \in Live(log) \cup born, NEW r \in Live(log) \cup born,
                        JobOf[q] = JobOf[r]
                 PROVE  q = r
    OBVIOUS
  <2>2. CASE q \in born /\ r \in born
    BY <1>1, <2>1, <2>2
  <2>3. CASE q \in Live(log) /\ r \in Live(log)
    BY <2>1, <2>3 DEF ClaimsOK
  <2>4. CASE q \in Live(log) /\ r \in born
    BY <1>1, <2>1, <2>4 DEF Startable
  <2>5. CASE q \in born /\ r \in Live(log)
    BY <1>1, <2>1, <2>5 DEF Startable
  <2>6. QED
    BY <2>1, <2>2, <2>3, <2>4, <2>5
<1>3. /\ IsFiniteSet(born) /\ Cardinality(born) <= Cardinality(starts)
      /\ IsFiniteSet(starts)
  BY FS_Surjection DEF Startable
<1>4. IsFiniteSet(Live(log)) /\ Cardinality(Live(log)) <= Cardinality(Live(l))
  BY FS_Subset
<1>5. /\ IsFiniteSet(Live(log) \cup born)
      /\ Cardinality(Live(log) \cup born) =
           Cardinality(Live(log)) + Cardinality(born) - Cardinality(Live(log) \cap born)
  BY <1>3, <1>4, FS_Union
<1>6. IsFiniteSet(Live(log) \cap born)
  BY <1>4, FS_Subset
<1>7. /\ Cardinality(Live(log) \cap born) \in Nat /\ Cardinality(Live(log)) \in Nat
      /\ Cardinality(born) \in Nat /\ Cardinality(Live(l)) \in Nat /\ Cardinality(starts) \in Nat
  BY <1>3, <1>4, <1>6, FS_CardinalityType
<1>8. Cardinality(Live(log) \cup born) <= max_runs
  <2>1. CASE starts # {}
    BY <1>3, <1>4, <1>5, <1>7, <2>1, JobAssumption DEF Startable
  <2>2. CASE starts = {}
    <3>1. Live(log) \cup born = Live(log)
      BY <2>2 DEF Surjection
    <3>2. Cardinality(Live(log)) <= Cardinality(Claims) /\ Cardinality(Claims) \in Nat
          /\ Cardinality(Claims) <= max_runs
      BY FS_Subset, FS_CardinalityType DEF ClaimsOK
    <3>3. Cardinality(Live(log)) <= max_runs
      BY <1>7, <3>2, JobAssumption
    <3>4. QED
      BY <3>1, <3>3, Zenon
  <2>3. QED
    BY <2>1, <2>2
<1>9. IsFiniteSet(Claims') /\ Cardinality(Claims') <= Cardinality(Live(log) \cup born)
  BY <1>5, FS_Subset
<1>10. Cardinality(Claims') \in Nat /\ Cardinality(Live(log) \cup born) \in Nat
  BY <1>5, <1>9, FS_CardinalityType
<1>11. Cardinality(Claims') <= max_runs
  BY <1>8, <1>9, <1>10, JobAssumption
<1>12. QED
  BY <1>2, <1>9, <1>11 DEF ClaimsOK

\* The plan: refusals, and a task for every start.
LEMMA TickPlanStep ==
    ASSUME IInv, tick_plan
    PROVE  IInv'
<1>1. PICK starts : starts = Starts(Seen, SubSeq(log, 1, loop.ended), loop.moment)
  OBVIOUS
<1>2. PICK refused : refused = {i \in DOMAIN Declared :
                                  Requested(Seen, Declared[i]) /\ Declared[i] \notin starts}
  OBVIOUS
<1>3. PICK sk : sk = Rows(Declared, refused)
  OBVIOUS
<1>4. PICK born : born = {Fresh(j) : j \in starts}
  OBVIOUS
<1>5. /\ loop.pc = "plan"
      /\ \A j \in starts : \E r \in Runs : JobOf[r] = j /\ task[r] = "none"
      /\ log' = log \o [i \in DOMAIN sk |-> Entry("run_skipped", sk[i], NoRun)]
      /\ task' = [r \in Runs |-> IF r \in born THEN "spawned" ELSE task[r]]
      /\ asked' = asked \cup {r \in born : Requested(Seen, JobOf[r])}
      /\ loop' = [loop EXCEPT !.pc = "sleep", !.ended = 0, !.seen = 0, !.moment = 0]
      /\ UNCHANGED <<now, mgr, proc, killed, sent, counts>>
  BY <1>1, <1>2, <1>3, <1>4 DEF tick_plan
<1>6. /\ log \in Seq(Event) /\ loop \in Loop /\ loop.seen \in Nat /\ loop.seen <= Len(log)
      /\ task \in [Runs -> Task] /\ StopsNamed(log)
  BY DEF IInv, TypeOK, Loop, Phases, ReadOK
<1>7. sk \in Seq(Jobs)
  <2>1. Len(Declared) \in Nat /\ \A i \in 1 .. Len(Declared) : Declared[i] \in Jobs
    BY JobAssumption
  <2>2. QED
    BY <1>3, <2>1, RowsType
<1>8. Wrote({}, {})
  BY <1>5, <1>6, <1>7, WroteSkips DEF IInv
<1>9. /\ log' \in Seq(Event) /\ Started(log') = Started(log) /\ Ended(log') = Ended(log)
      /\ Live(log') = Live(log) /\ StopsNamed(log') /\ Len(log') \in Nat
      /\ Earlier(log', counts.starts) = Earlier(log, counts.starts)
  <2>1. PICK E : E = {}
    OBVIOUS
  <2>2. Wrote({}, E)
    BY <1>8, <2>1
  <2>3. /\ log' \in Seq(Event) /\ Started(log') = Started(log) /\ StopsNamed(log')
        /\ Ended(log') = Ended(log) \cup E /\ Live(log') = Live(log) \ E
        /\ Earlier(log', counts.starts) = Earlier(log, counts.starts)
    BY <2>2, NoStart
  <2>4. Len(log') \in Nat
    BY <2>3
  <2>5. QED
    BY <2>1, <2>3, <2>4
<1>10. ASSUME NEW j \in starts
       PROVE  Fresh(j) \in Runs /\ JobOf[Fresh(j)] = j /\ task[Fresh(j)] = "none"
  BY <1>5 DEF Fresh
<1>11. born \subseteq Runs /\ \A r \in born : task[r] = "none"
  BY <1>4, <1>10
<1>12. mgr = "up" /\ \A r \in Runs : task[r] # "spawned" /\ <<"run_started", r>> \notin sent
  BY <1>5 DEF IInv, Phases, Ticking, TaskOK, SentOK
<1>13. loop' \in Loop /\ loop'.pc = "sleep" /\ loop'.seen = 0
  <2>1. PICK y : y = [loop EXCEPT !.pc = "sleep", !.ended = 0]
    OBVIOUS
  <2>2. y \in Loop /\ y.pc = "sleep"
    BY <1>6, <2>1 DEF Loop
  <2>3. loop' = [y EXCEPT !.seen = 0, !.moment = 0]
    BY <1>5, <2>1
  <2>4. QED
    BY <2>2, <2>3 DEF Loop
<1>14. TypeOK'
  <2>1. asked' \subseteq Runs
    BY <1>5, <1>11 DEF IInv, TypeOK
  <2>2. task' \in [Runs -> Task]
    BY <1>5, <1>6 DEF Task
  <2>3. QED
    BY <1>5, <1>9, <1>13, <2>1, <2>2 DEF IInv, TypeOK
<1>15. Phases'
  BY <1>5, <1>9, <1>12, <1>13 DEF IInv, Phases, Ticking
<1>16. TodoOK'
  BY <1>13 DEF TodoOK
<1>17. ClaimsOK'
  <2>1. Seen \in Seq(Event)
    BY <1>6 DEF Seen
  <2>2. IsFiniteSet(Live(Seen))
    BY <2>1, LiveFinite
  <2>3. Startable(starts, Seen)
    BY <1>1, <2>2, StartsStartable
  <2>4. Live(log) \subseteq Live(Seen) /\ Live(log) \subseteq Claims /\ ClaimsOK
    BY <1>5 DEF IInv, ReadOK, Claims
  <2>5. PICK g : g = [j \in starts |-> Fresh(j)]
    OBVIOUS
  <2>6. g \in Surjection(starts, born) /\ \A j \in starts : JobOf[g[j]] = j
    BY <1>4, <1>10, <2>5 DEF Surjection
  <2>7. Claims' \subseteq Live(log) \cup born
    <3>1. \A r \in Runs : task'[r] = "spawned" => r \in born
      BY <1>5, <1>12
    <3>2. QED
      BY <1>5, <1>9, <1>12, <3>1 DEF Claims
  <2>8. QED
    BY <1>11, <2>2, <2>3, <2>4, <2>6, <2>7, PlanClaims
<1>18. ReadOK'
  BY <1>5, <1>9, <1>12, <1>13 DEF IInv, ReadOK
<1>19. ASSUME NEW r \in Runs PROVE (TaskOK(r) /\ SentOK(r))'
  <2>1. TaskOK(r) /\ SentOK(r)
    BY DEF IInv
  <2>2. CASE r \in born
    <3>1. task[r] = "none" /\ task'[r] = "spawned"
      BY <1>5, <1>11, <2>2
    <3>2. QED
      BY <1>5, <1>9, <1>12, <1>13, <2>1, <3>1 DEF TaskOK, SentOK, Acting, Over, Ticking
  <2>3. CASE r \notin born
    <3>1. task'[r] = task[r]
      BY <1>5, <2>3
    <3>2. QED
      BY <1>5, <1>9, <1>12, <1>13, <2>1, <3>1 DEF TaskOK, SentOK
  <2>4. QED
    BY <2>2, <2>3
<1>20. QED
  BY <1>14, <1>15, <1>16, <1>17, <1>18, <1>19 DEF IInv

----------------------------------------------------------------------------
(* The theorems *)

\* The invariant holds before anything has been recorded.
LEMMA InitIInv ==
    Init => IInv
<1> SUFFICES ASSUME Init PROVE IInv
  OBVIOUS
<1>1. /\ log = << >> /\ loop = Off /\ mgr = "down" /\ sent = {}
      /\ \A r \in Runs : task[r] = "none" /\ proc[r] = "none"
  BY DEF Init
<1>2. Started(log) = {} /\ Ended(log) = {} /\ Live(log) = {} /\ StopsNamed(log)
  BY <1>1 DEF Started, Ended, Live, Has, StopsNamed
<1>3. TypeOK
  <2>1. log \in Seq(Event)
    BY <1>1
  <2>2. task \in [Runs -> Task] /\ proc \in [Runs -> {"none", "running", "dead", "orphan"}]
    BY DEF Init, Task
  <2>3. counts \in [asks : 0 .. MaxAsks, faults : 0 .. MaxFaults, starts : 0 .. MaxStarts]
    BY JobAssumption DEF Init
  <2>4. QED
    BY <1>1, <2>1, <2>2, <2>3, OffType, JobAssumption DEF Init, TypeOK
<1>4. Phases /\ TodoOK
  BY <1>1, OffType DEF Phases, TodoOK, Ticking
<1>5. ClaimsOK
  <2>1. Claims = {}
    BY <1>1, <1>2 DEF Claims
  <2>2. QED
    BY <2>1, FS_EmptySet, JobAssumption DEF ClaimsOK
<1>6. ReadOK
  BY <1>1, <1>2, OffType DEF ReadOK
<1>7. \A r \in Runs : TaskOK(r) /\ SentOK(r)
  BY <1>1, <1>2 DEF TaskOK, SentOK, Acting
<1>8. QED
  BY <1>3, <1>4, <1>5, <1>6, <1>7 DEF IInv

\* The invariant of the job manager, inductive: through stops, raises, crashes,
\* restarts and appends that land late, there is one claim to a job and no
\* more claims than the cap.
THEOREM Inductive == Spec => []IInv
<1>1. ASSUME IInv, [Next]_vars PROVE IInv'
  <2>1. CASE UNCHANGED vars
    <3>1. UNCHANGED <<log, now, mgr, loop, task, proc, killed, asked, sent, counts>>
      BY <2>1 DEF vars
    <3>2. TypeOK' /\ Phases' /\ TodoOK'
      BY <1>1, <3>1 DEF IInv, TypeOK, Phases, TodoOK
    <3>3. ClaimsOK' /\ ReadOK'
      BY <1>1, <3>1 DEF IInv, ClaimsOK, Claims, ReadOK, Seen
    <3>4. \A r \in Runs : (TaskOK(r) /\ SentOK(r))'
      BY <1>1, <3>1 DEF IInv, TaskOK, SentOK
    <3>5. QED
      BY <3>2, <3>3, <3>4 DEF IInv
  <2>2. ASSUME reconcile PROVE IInv'
    BY <1>1, <2>2, ReconcileOneStep, ReconciledStep
  <2>3. ASSUME leave_close PROVE IInv'
    BY <1>1, <2>3, LeaveCloseOneStep, LeftStep
  <2>4. ASSUME NEW r \in Runs,
               \/ run_start(r) \/ run_exec(r) \/ exit(r) \/ run_answer(r) \/ run_end(r)
               \/ run_raise(r) \/ stop(r) \/ leave_kill(r)
        PROVE  IInv'
    BY <1>1, <2>4, RunStartStep, RunExecStep, ExitStep, RunAnswerStep, RunEndStep,
       RunRaiseStep, StopStep, LeaveKillStep
  <2>5. ASSUME tick_ended \/ tick_facts \/ tick_stop \/ tick_byhand \/ tick_killed \/ tick_plan
               \/ tick_raise
        PROVE  IInv'
    BY <1>1, <2>5, TickEndedStep, TickFactsStep, TickStopStep, TickByhandStep, TickKilledStep,
       TickPlanStep, TickRaiseStep
  <2>6. ASSUME start \/ land \/ leave \/ leave_abort \/ leave_read \/ crash \/ clock PROVE IInv'
    BY <1>1, <2>6, StartStep, LandStep, LeaveStep, LeaveAbortStep, LeaveReadStep, CrashStep,
       ClockStep
  <2>7. ASSUME NEW j \in Jobs, request(j) PROVE IInv'
    BY <1>1, <2>7, RequestStep
  <2>8. QED
    BY <1>1, <2>1, <2>2, <2>3, <2>4, <2>5, <2>6, <2>7 DEF Next
<1>2. QED
  BY <1>1, InitIInv, PTL DEF Spec

\* The record is true of the runs at every moment, however many jobs and runs
\* there are: one live run for each job, and every process the manager holds is
\* one of them (job.tick, job.run, tick's stops in serve.lua).
THEOREM TrueRecord == Spec => []RecordIsTrue
<1>1. ASSUME IInv PROVE RecordIsTrue
  <2>1. TypeOK
    BY <1>1 DEF IInv
  <2>2. OneLiveRun
    BY <1>1 DEF IInv, ClaimsOK, Claims, OneLiveRun
  <2>3. RunningIsLive
    BY <1>1 DEF IInv, TaskOK, Acting, RunningIsLive
  <2>4. QED
    BY <2>1, <2>2, <2>3 DEF RecordIsTrue
<1>2. QED
  BY <1>1, Inductive, PTL

\* A manager that left in order has no process running, and once a manager is
\* up every live run on the record is its own, whatever the ones before left
\* behind (the end of serve.lua, job.reconcile).
THEOREM CleanEnds == Spec => []NothingLeftOver
<1>1. ASSUME IInv PROVE NothingLeftOver
  <2>1. NothingOutlives
    BY <1>1 DEF IInv, TaskOK, Acting, NothingOutlives
  <2>2. ASSUME mgr = "up", NEW r \in Live(log)
        PROVE  log[StartOf(log, r)].session = counts.starts
    <3>1. r \in Runs /\ r \notin Earlier(log, counts.starts)
      BY <1>1, <2>2, LiveIs DEF IInv, ReadOK
    <3>2. \E i \in DOMAIN log : log[i].kind = "run_started" /\ log[i].run = r
      BY DEF Live, Has
    <3>3. PICK i \in DOMAIN log : /\ i = StartOf(log, r)
                                  /\ log[i].kind = "run_started" /\ log[i].run = r
      BY <3>2 DEF StartOf
    <3>4. QED
      BY <3>1, <3>3 DEF Earlier
  <2>3. QED
    BY <2>1, <2>2 DEF NothingLeftOver, RestartClosesRuns
<1>2. QED
  BY <1>1, Inductive, PTL

\* No more than max_runs runs are live on the record, and no more processes are
\* held, at any moment, although job.tick counts on a record that others are
\* writing to (job.tick's max_runs).
THEOREM CapKept == Spec => []AtMostMaxRuns
<1>1. ASSUME IInv PROVE AtMostMaxRuns
  <2> DEFINE R == {r \in Runs : proc[r] = "running"}
  <2>1. Live(log) \subseteq Claims /\ IsFiniteSet(Claims) /\ Cardinality(Claims) <= max_runs
    BY <1>1 DEF IInv, ClaimsOK, Claims
  <2>2. R \subseteq Live(log)
    BY <1>1 DEF IInv, TaskOK, Acting
  <2>3. R \subseteq Claims
    BY <2>1, <2>2
  <2> HIDE DEF R
  <2>4. /\ IsFiniteSet(R) /\ Cardinality(R) <= Cardinality(Claims)
        /\ IsFiniteSet(Live(log)) /\ Cardinality(Live(log)) <= Cardinality(Claims)
    BY <2>1, <2>3, FS_Subset
  <2>5. Cardinality(R) \in Nat /\ Cardinality(Live(log)) \in Nat /\ Cardinality(Claims) \in Nat
    BY <2>1, <2>4, FS_CardinalityType
  <2>6. Cardinality(R) <= max_runs /\ Cardinality(Live(log)) <= max_runs
    BY <2>1, <2>4, <2>5, JobAssumption
  <2>7. QED
    BY <2>6 DEF AtMostMaxRuns, R
<1>2. QED
  BY <1>1, Inductive, PTL
=============================================================================
