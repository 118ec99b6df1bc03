--------------------------- MODULE McpClientProofs ---------------------------
(***************************************************************************)
(* Theorems about McpClient, for any servers, coroutines, capacity of the  *)
(* notification channel and bounds: connections and registrations stay     *)
(* whole, notifications are delivered in order, and disconnect_all means   *)
(* all.                                                                    *)
(*                                                                         *)
(* What carries the first is the lock.  Its writer is alone, so whoever    *)
(* connects or disconnects knows that no request is in flight; and what a  *)
(* task may hold in each phase of its call says the rest.                  *)
(***************************************************************************)
EXTENDS McpClient, FiniteSetTheorems, SequenceTheorems, TLAPS

----------------------------------------------------------------------------
(* The least of a set of naturals *)

\* Min of a set of naturals that is not empty is in it and bounds it: Promote
\* looks for the first writer of the queue with it.
LEMMA MinIs ==
    ASSUME NEW B \in SUBSET Nat, B # {}
    PROVE  Min(B) \in B /\ \A m \in B : Min(B) <= m
<1> DEFINE T == {0 .. n : n \in B}
<1>1. IsWellFoundedOn(StrictSubsetOrdering(Nat), FiniteSubsetsOf(Nat))
  BY FS_StrictSubsetOrderingWellFounded
<1>2. T \subseteq FiniteSubsetsOf(Nat)
  <2>1. SUFFICES ASSUME NEW n \in B PROVE 0 .. n \in FiniteSubsetsOf(Nat)
    OBVIOUS
  <2>2. IsFiniteSet(0 .. n)
    BY FS_Interval
  <2>3. QED
    BY <2>2 DEF FiniteSubsetsOf
<1>3. T # {}
  OBVIOUS
<1> HIDE DEF T
<1>4. PICK x \in T : \A y \in T : ~ (<<y, x>> \in StrictSubsetOrdering(Nat))
  BY <1>1, <1>2, <1>3, WFMin
<1>5. PICK n \in B : x = 0 .. n
  BY DEF T
<1>6. ASSUME NEW m \in B, m < n PROVE FALSE
  <2>1. 0 .. m \in T
    BY DEF T
  <2>2. n \in 0 .. n /\ n \notin 0 .. m
    BY <1>6
  <2>3. 0 .. m \in SUBSET Nat /\ 0 .. n \in SUBSET Nat
        /\ 0 .. m \subseteq 0 .. n /\ 0 .. m # 0 .. n
    BY <2>2, <1>6
  <2>4. QED
    BY <1>4, <1>5, <2>1, <2>3 DEF StrictSubsetOrdering
<1>7. n \in B /\ \A m \in B : n <= m
  BY <1>6
<1>8. QED
  BY <1>7 DEF Min

----------------------------------------------------------------------------
(* The lock *)

WaiterT == [task : All, write : BOOLEAN]
LockT == [held : SUBSET All, excl : BOOLEAN, queue : Seq(WaiterT)]

\* What is invariant about the lock, of the tasks B that are in a call and the
\* tasks W that write: a writer holds it alone, and the queue holds tasks that
\* have not got it, each once and as what it is.
Locked(l, B, W) ==
    /\ l.held \subseteq B
    /\ l.excl => l.held = {} \/ \E t \in W : l.held = {t}
    /\ ~l.excl => l.held \cap W = {}
    /\ \A i \in DOMAIN l.queue :
         /\ l.queue[i].task \in B /\ l.queue[i].task \notin l.held
         /\ l.queue[i].write <=> l.queue[i].task \in W
    /\ \A i, j \in DOMAIN l.queue : l.queue[i].task = l.queue[j].task => i = j

\* The three outcomes of Promote: as it was, readers let in, or a writer.
PromotesReaders(l, n) ==
    /\ l.excl => l.held = {}
    /\ \A i \in 1 .. n : ~l.queue[i].write
    /\ Promote(l) = [held |-> l.held \cup {l.queue[i].task : i \in 1 .. n}, excl |-> FALSE,
                     queue |-> SubSeq(l.queue, n + 1, Len(l.queue))]

PromotesWriter(l) ==
    /\ l.held = {} /\ l.queue # << >> /\ l.queue[1].write
    /\ Promote(l) = [held |-> {l.queue[1].task}, excl |-> TRUE, queue |-> Tail(l.queue)]

\* First come, first served: the readers up to the first writer, or it alone.
LEMMA PromoteForm ==
    ASSUME NEW l \in LockT
    PROVE  \/ Promote(l) = l
           \/ \E n \in 1 .. Len(l.queue) : PromotesReaders(l, n)
           \/ PromotesWriter(l)
<1> DEFINE q == l.queue
           writers == {i \in DOMAIN q : q[i].write}
           n == IF writers = {} THEN Len(q) ELSE Min(writers) - 1
<1>1. q \in Seq(WaiterT) /\ DOMAIN q = 1 .. Len(q) /\ Len(q) \in Nat
  BY DEF LockT
<1>2. /\ n \in 0 .. Len(q) /\ (\A i \in 1 .. n : ~q[i].write)
      /\ n < Len(q) => q[n + 1].write
  <2>1. CASE writers = {}
    BY <1>1, <2>1
  <2>2. CASE writers # {}
    <3>1. writers \in SUBSET Nat
      BY <1>1
    <3> HIDE DEF writers
    <3>2. Min(writers) \in writers /\ \A m \in writers : Min(writers) <= m
      BY <2>2, <3>1, MinIs
    <3>3. n = Min(writers) - 1 /\ Min(writers) \in 1 .. Len(q) /\ q[Min(writers)].write
      BY <1>1, <2>2, <3>2 DEF writers
    <3> HIDE DEF n
    <3>4. n \in 0 .. Len(q) /\ n + 1 = Min(writers)
      BY <1>1, <3>3
    <3>5. ASSUME NEW i \in 1 .. n, q[i].write PROVE FALSE
      <4>1. i < Min(writers) /\ i \in DOMAIN q
        BY <1>1, <3>3, <3>4
      <4>2. Min(writers) <= i
        BY <3>2, <3>5, <4>1 DEF writers
      <4>3. QED
        BY <3>3, <4>1, <4>2
    <3>6. QED
      BY <3>3, <3>4, <3>5
  <2>3. QED
    BY <2>1, <2>2
<1>3. Promote(l) =
        IF q = << >> \/ (l.excl /\ l.held # {}) THEN l
        ELSE IF n > 0 THEN [held |-> l.held \cup {q[i].task : i \in 1 .. n}, excl |-> FALSE,
                            queue |-> SubSeq(q, n + 1, Len(q))]
        ELSE IF l.held = {} THEN [held |-> {Head(q).task}, excl |-> TRUE, queue |-> Tail(q)]
        ELSE l
  BY DEF Promote
<1> HIDE DEF n
<1>4. CASE q = << >> \/ (l.excl /\ l.held # {})
  BY <1>2, <1>3, <1>4
<1>5. CASE ~(q = << >> \/ (l.excl /\ l.held # {})) /\ n > 0
  <2>1. PromotesReaders(l, n)
    BY <1>2, <1>3, <1>5 DEF PromotesReaders
  <2>2. n \in 1 .. Len(l.queue)
    BY <1>1, <1>2, <1>5
  <2>3. QED
    BY <2>1, <2>2
<1>6. CASE ~(q = << >> \/ (l.excl /\ l.held # {})) /\ ~(n > 0) /\ l.held = {}
  <2>1. n = 0 /\ Len(q) > 0 /\ q # << >>
    BY <1>1, <1>2, <1>6
  <2>2. q[1].write /\ Head(q) = q[1]
    BY <1>1, <1>2, <2>1
  <2>3. PromotesWriter(l)
    BY <1>3, <1>6, <2>1, <2>2 DEF PromotesWriter
  <2>4. QED
    BY <2>3
<1>7. CASE ~(q = << >> \/ (l.excl /\ l.held # {})) /\ ~(n > 0) /\ l.held # {}
  BY <1>2, <1>3, <1>7
<1>8. QED
  BY <1>4, <1>5, <1>6, <1>7

\* Promote keeps the invariant, and takes the lock from nobody.
LEMMA PromoteKeeps ==
    ASSUME NEW l \in LockT, NEW B \in SUBSET All, NEW W, Locked(l, B, W)
    PROVE  /\ Promote(l) \in LockT /\ Locked(Promote(l), B, W)
           /\ l.held \subseteq Promote(l).held
<1> DEFINE q == l.queue
           m == Promote(l)
<1>1. /\ q \in Seq(WaiterT) /\ DOMAIN q = 1 .. Len(q) /\ Len(q) \in Nat
      /\ l.held \in SUBSET All /\ l.excl \in BOOLEAN
  BY DEF LockT
<1>2. CASE m = l
  BY <1>2
<1>3. ASSUME NEW n \in 1 .. Len(q), PromotesReaders(l, n)
      PROVE  m \in LockT /\ Locked(m, B, W) /\ l.held \subseteq m.held
  <2> DEFINE R == {q[i].task : i \in 1 .. n}
             r == SubSeq(q, n + 1, Len(q))
  <2>1. /\ r \in Seq(WaiterT) /\ Len(r) = Len(q) - n /\ DOMAIN r = 1 .. (Len(q) - n)
        /\ \A i \in 1 .. (Len(q) - n) : r[i] = q[n + i]
    <3>1. r \in Seq(WaiterT) /\ Len(r) = Len(q) - n
      BY <1>1
    <3>2. \A i \in 1 .. (Len(q) - n) : r[i] = q[n + i]
      BY <1>1
    <3>3. DOMAIN r = 1 .. Len(r)
      BY <3>1
    <3>4. QED
      BY <3>1, <3>2, <3>3
  <2>2. m.held = l.held \cup R /\ m.excl = FALSE /\ m.queue = r
        /\ m = [held |-> l.held \cup R, excl |-> FALSE, queue |-> r]
    BY <1>3 DEF PromotesReaders
  <2> HIDE DEF m, r
  <2>3. \A i \in 1 .. n : q[i].task \in B /\ q[i].task \notin W
    <3>1. SUFFICES ASSUME NEW i \in 1 .. n PROVE q[i].task \in B /\ q[i].task \notin W
      OBVIOUS
    <3>2. i \in DOMAIN q
      BY <1>1
    <3>3. ~q[i].write
      BY <1>3 DEF PromotesReaders
    <3>4. QED
      BY <3>2, <3>3 DEF Locked
  <2>4. R \subseteq B /\ R \cap W = {} /\ l.held \cap W = {} /\ l.held \subseteq B
    BY <1>3, <2>3 DEF Locked, PromotesReaders
  <2>5. m \in LockT
    <3>1. l.held \cup R \in SUBSET All
      BY <1>1, <2>4
    <3> HIDE DEF R
    <3>2. QED
      BY <2>1, <2>2, <3>1 DEF LockT
  <2>6. \A i \in DOMAIN r : /\ r[i].task \in B /\ r[i].task \notin l.held \cup R
                            /\ r[i].write <=> r[i].task \in W
    <3>1. SUFFICES ASSUME NEW i \in DOMAIN r
                   PROVE  /\ r[i].task \in B /\ r[i].task \notin l.held \cup R
                          /\ r[i].write <=> r[i].task \in W
      OBVIOUS
    <3>2. r[i] = q[n + i] /\ n + i \in DOMAIN q /\ \A j \in 1 .. n : j \in DOMAIN q /\ j # n + i
      BY <1>1, <2>1
    <3>3. QED
      BY <3>2 DEF Locked
  <2>7. \A i, j \in DOMAIN r : r[i].task = r[j].task => i = j
    <3>1. SUFFICES ASSUME NEW i \in DOMAIN r, NEW j \in DOMAIN r, r[i].task = r[j].task
                   PROVE  i = j
      OBVIOUS
    <3>2. /\ r[i] = q[n + i] /\ n + i \in DOMAIN q /\ r[j] = q[n + j] /\ n + j \in DOMAIN q
          /\ i \in Nat /\ j \in Nat
      BY <1>1, <2>1, SMTT(30)
    <3>3. n + i = n + j
      BY <3>1, <3>2 DEF Locked
    <3>4. QED
      BY <3>2, <3>3
  <2> HIDE DEF R
  <2>8. QED
    BY <2>2, <2>4, <2>5, <2>6, <2>7 DEF Locked
<1>4. ASSUME PromotesWriter(l)
      PROVE  m \in LockT /\ Locked(m, B, W) /\ l.held \subseteq m.held
  <2> DEFINE r == Tail(q)
             t == q[1].task
  <2>1. l.held = {} /\ q # << >> /\ q[1].write
    BY <1>4 DEF PromotesWriter
  <2>2. Len(q) > 0
    BY <1>1, <2>1
  <2>3. /\ r \in Seq(WaiterT) /\ Len(r) = Len(q) - 1 /\ DOMAIN r = 1 .. (Len(q) - 1)
        /\ \A i \in 1 .. (Len(q) - 1) : r[i] = q[i + 1]
    BY <1>1, <2>1, <2>2
  <2>4. m.held = {t} /\ m.excl = TRUE /\ m.queue = r
        /\ m = [held |-> {t}, excl |-> TRUE, queue |-> r]
    BY <1>4 DEF PromotesWriter
  <2>5. t \in B /\ t \in W /\ t \in All
    BY <1>1, <2>1, <2>2 DEF Locked
  <2> HIDE DEF m, r
  <2>6. m \in LockT
    BY <2>3, <2>4, <2>5 DEF LockT
  <2>7. \A i \in DOMAIN r : /\ r[i].task \in B /\ r[i].task # t
                            /\ r[i].write <=> r[i].task \in W
    <3>1. SUFFICES ASSUME NEW i \in DOMAIN r
                   PROVE  /\ r[i].task \in B /\ r[i].task # t
                          /\ r[i].write <=> r[i].task \in W
      OBVIOUS
    <3>2. r[i] = q[i + 1] /\ i + 1 \in DOMAIN q /\ i + 1 # 1 /\ 1 \in DOMAIN q
      BY <1>1, <2>2, <2>3
    <3>3. QED
      BY <3>2 DEF Locked
  <2>8. \A i, j \in DOMAIN r : r[i].task = r[j].task => i = j
    <3>1. SUFFICES ASSUME NEW i \in DOMAIN r, NEW j \in DOMAIN r, r[i].task = r[j].task
                   PROVE  i = j
      OBVIOUS
    <3>2. /\ r[i] = q[i + 1] /\ i + 1 \in DOMAIN q /\ r[j] = q[j + 1] /\ j + 1 \in DOMAIN q
          /\ i \in Nat /\ j \in Nat
      BY <1>1, <2>3
    <3>3. i + 1 = j + 1
      BY <3>1, <3>2 DEF Locked
    <3>4. QED
      BY <3>2, <3>3
  <2> HIDE DEF t
  <2>9. QED
    BY <2>1, <2>4, <2>5, <2>6, <2>7, <2>8 DEF Locked
<1>5. QED
  BY <1>2, <1>3, <1>4, PromoteForm

\* It says nothing of tasks that neither hold the lock nor wait for it.
LEMMA LockedMore ==
    ASSUME NEW l, NEW B, NEW C, B \subseteq C, NEW W, NEW V,
           \A t \in B : t \in W <=> t \in V, Locked(l, B, W)
    PROVE  Locked(l, C, V)
BY DEF Locked

\* The tasks in a call become C, of which V write: t comes, as a writer or not; or t goes.
Comes(l, t, write, B, W, C, V) ==
    /\ l \in LockT /\ B \in SUBSET All /\ Locked(l, B, W) /\ t \in All /\ t \notin B
    /\ C \in SUBSET All /\ B \subseteq C /\ t \in C
    /\ \A u \in B : u \in W <=> u \in V
    /\ write \in BOOLEAN /\ (write <=> t \in V)

Goes(l, t, B, W, C, V) ==
    /\ l \in LockT /\ B \in SUBSET All /\ Locked(l, B, W) /\ t \in l.held
    /\ C \in SUBSET All /\ B \ {t} \subseteq C
    /\ \A u \in B \ {t} : u \in W <=> u \in V

\* A task that was in no call asks for the lock.
LEMMA AcquireKeeps ==
    ASSUME NEW l, NEW t, NEW write, NEW B, NEW W, NEW C, NEW V, Comes(l, t, write, B, W, C, V)
    PROVE  /\ Acquire(l, t, write) \in LockT /\ Locked(Acquire(l, t, write), C, V)
           /\ l.held \subseteq Acquire(l, t, write).held
<1> USE DEF Comes
<1> DEFINE w == Waiter(t, write)
           q == l.queue
           r == Append(q, w)
           m == [l EXCEPT !.queue = r]
<1>1. q \in Seq(WaiterT) /\ DOMAIN q = 1 .. Len(q) /\ Len(q) \in Nat
  BY DEF LockT
<1>2. w \in WaiterT /\ w.task = t /\ w.write = write
  BY DEF WaiterT, Waiter
<1> HIDE DEF w
<1>3. /\ r \in Seq(WaiterT) /\ DOMAIN r = 1 .. (Len(q) + 1) /\ r[Len(q) + 1] = w
      /\ \A i \in 1 .. Len(q) : r[i] = q[i]
  BY <1>1, <1>2
<1>4. m \in LockT /\ m.held = l.held /\ m.excl = l.excl /\ m.queue = r
  <2> HIDE DEF r
  <2>1. QED
    BY <1>3 DEF LockT
<1>5. Locked(l, C, V)
  BY LockedMore
<1> HIDE DEF r, m
<1>6. \A i \in DOMAIN r : /\ r[i].task \in C /\ r[i].task \notin l.held
                          /\ r[i].write <=> r[i].task \in V
  <2>1. SUFFICES ASSUME NEW i \in DOMAIN r
                 PROVE  /\ r[i].task \in C /\ r[i].task \notin l.held
                        /\ r[i].write <=> r[i].task \in V
    OBVIOUS
  <2>2. CASE i = Len(q) + 1
    <3>1. t \notin l.held
      BY DEF Locked
    <3>2. QED
      BY <1>2, <1>3, <2>2, <3>1
  <2>3. CASE i # Len(q) + 1
    <3>1. i \in DOMAIN q /\ r[i] = q[i]
      BY <1>1, <1>3, <2>3
    <3>2. QED
      BY <1>5, <3>1 DEF Locked
  <2>4. QED
    BY <2>2, <2>3
<1>7. \A i, j \in DOMAIN r : r[i].task = r[j].task => i = j
  <2>1. SUFFICES ASSUME NEW i \in DOMAIN r, NEW j \in DOMAIN r, r[i].task = r[j].task
                 PROVE  i = j
    OBVIOUS
  <2>2. \A k \in DOMAIN r : k # Len(q) + 1 => k \in DOMAIN q /\ r[k] = q[k] /\ r[k].task # t
    <3>1. SUFFICES ASSUME NEW k \in DOMAIN r, k # Len(q) + 1
                   PROVE  k \in DOMAIN q /\ r[k] = q[k] /\ r[k].task # t
      OBVIOUS
    <3>2. k \in DOMAIN q /\ r[k] = q[k]
      BY <1>1, <1>3, <3>1
    <3>3. QED
      BY <3>2 DEF Locked
  <2>3. r[Len(q) + 1].task = t
    BY <1>2, <1>3
  <2>4. QED
    BY <2>1, <2>2, <2>3 DEF Locked
<1>8. Locked(m, C, V)
  BY <1>4, <1>5, <1>6, <1>7 DEF Locked
<1>9. Acquire(l, t, write) = Promote(m)
  BY DEF Acquire, m, r, w
<1>10. QED
  BY <1>4, <1>8, <1>9, PromoteKeeps

\* A task that holds the lock gives it back.
LEMMA ReleaseKeeps ==
    ASSUME NEW l, NEW t, NEW B, NEW W, NEW C, NEW V, Goes(l, t, B, W, C, V)
    PROVE  /\ Release(l, t) \in LockT /\ Locked(Release(l, t), C, V)
           /\ l.held \ {t} \subseteq Release(l, t).held
<1> USE DEF Goes
<1> DEFINE m == [l EXCEPT !.held = l.held \ {t}]
<1>1. m \in LockT /\ m.held = l.held \ {t} /\ m.excl = l.excl /\ m.queue = l.queue
  BY DEF LockT
<1> HIDE DEF m
<1>2. Locked(m, B \ {t}, W)
  BY <1>1 DEF Locked
<1>3. Locked(m, C, V)
  BY <1>2, LockedMore
<1>4. Release(l, t) = Promote(m)
  BY DEF Release, m
<1>5. QED
  BY <1>1, <1>3, <1>4, PromoteKeeps

----------------------------------------------------------------------------
(* The invariant *)

InCall == {"wait", "flag", "flight", "closing"}
InHand == {"flight", "closing"}

TaskT == [at : {"idle", "run"} \cup InCall, op : Reads \cup Writes \cup {"none", "handler"},
          server : Servers \cup {Nobody}, conn : 0 .. MaxConns, inject : BOOLEAN]

Item == [server : Servers, n : Nat]

\* The types TypeOK leaves open.
Types ==
    /\ TypeOK
    /\ task \in [All -> TaskT] /\ lock \in LockT
    /\ counts \in [calls : Nat, asks : Nat, buses : Nat, notes : Nat, conns : Nat,
                   kinds : SUBSET Kinds, names : SUBSET Servers]

\* What a task may have in each phase of its call.
PhaseOK(x) ==
    /\ x.at = "idle" => x.op = "none"
    /\ x.at = "run" => x.op = "handler"
    /\ x.at \in InCall => x.op \in Reads \cup Writes /\ x.server \in Servers
    /\ x.at = "flag" => x.op = "call"
    /\ x.at = "closing" => x.op \in {"disconnect", "disconnect_all"}
    /\ x.at = "flight" => x.op \in {"ask", "call", "connect"}
    /\ x.at \notin InHand => x.conn = 0

Busy == {t \in All : task[t].at \in InCall}
Writers == {t \in All : task[t].op \in Writes}

\* Tasks and the lock: what has a connection in hand holds the lock.
Locks ==
    /\ \A t \in All : PhaseOK(task[t])
    /\ \A t \in All : task[t].at \in InHand => t \in lock.held
    /\ Locked(lock, Busy, Writers)

\* The map, the services that run and the connections in hand: a request has
\* the one of its name, a connect or a disconnect one no name has.
Wired ==
    /\ \A s \in Servers : servers[s] # 0 => servers[s] \in live
    /\ \A s, u \in Servers : servers[s] # 0 /\ servers[s] = servers[u] => s = u
    /\ \A t \in All : task[t].at = "flight" /\ task[t].op \in {"ask", "call"} =>
          task[t].conn # 0 /\ servers[task[t].server] = task[t].conn
    /\ \A t \in All : task[t].at \in InHand /\ task[t].op \in Writes =>
          task[t].conn \in live /\ \A s \in Servers : servers[s] # task[t].conn
    /\ NoOrphans

\* A mark that is set, or about to be, is of a function that is there.
Marks ==
    /\ MarkedIsCallable
    /\ \A t \in All : task[t].op = "mark" => Callable(task[t].server)

\* One callback at a time.
Delivery ==
    /\ channel \in Seq(Item)
    /\ notices \in [accepted : Seq(Item), running : Seq(Item), delivered : Seq(Item)]
    /\ Len(notices.running) <= 1
    /\ DeliveredInOrder

IInv == Types /\ Locks /\ Wired /\ Marks /\ Delivery

----------------------------------------------------------------------------
(* A task moves *)

Moves(t, x) == task' = [task EXCEPT ![t] = x] /\ x \in TaskT /\ PhaseOK(x)

\* Where a call returns to.
Home(t) == IF t = Handler THEN [Idle EXCEPT !.at = "run", !.op = "handler"] ELSE Idle

\* It has nothing in hand there, and is in no call.
LEMMA HomeIs ==
    ASSUME NEW t \in All
    PROVE  /\ Home(t) \in TaskT /\ PhaseOK(Home(t)) /\ Home(t).conn = 0
           /\ Home(t).at \in {"idle", "run"} /\ Home(t).op \in {"none", "handler"}
           /\ Home(t).at \notin InCall /\ Home(t).at \notin InHand /\ Home(t).op \notin Writes
<1>1. 0 \in 0 .. MaxConns
  BY McpAssumption
<1>2. CASE t = Handler
  <2>1. Home(t) = [at |-> "run", op |-> "handler", server |-> Nobody, conn |-> 0,
                   inject |-> FALSE]
    BY <1>2 DEF Home, Idle
  <2>2. QED
    BY <1>1, <2>1 DEF TaskT, PhaseOK, InCall, InHand, Writes
<1>3. CASE t # Handler
  <2>1. Home(t) = [at |-> "idle", op |-> "none", server |-> Nobody, conn |-> 0,
                   inject |-> FALSE]
    BY <1>3 DEF Home, Idle
  <2>2. QED
    BY <1>1, <2>1 DEF TaskT, PhaseOK, InCall, InHand, Writes
<1>4. QED
  BY <1>2, <1>3

\* Finish is a move home that releases the lock.
LEMMA FinishIs ==
    ASSUME NEW t \in All, Finish(t)
    PROVE  Moves(t, Home(t)) /\ lock' = Release(lock, t)
<1>1. Home(t) \in TaskT /\ PhaseOK(Home(t))
  BY HomeIs
<1>2. task' = [task EXCEPT ![t] = Home(t)] /\ lock' = Release(lock, t)
  BY DEF Finish, Home
<1>3. QED
  BY <1>1, <1>2 DEF Moves

\* What a move does to the function of tasks.
LEMMA MoveIs ==
    ASSUME Types, NEW t \in All, NEW x, Moves(t, x)
    PROVE  /\ task' \in [All -> TaskT] /\ task'[t] = x
           /\ \A u \in All : u # t => task'[u] = task[u]
BY DEF Types, Moves

\* The lock and the kind of call stay: the handler starts or ends, or the holder of the
\* lock goes on.
LEMMA LocksStay ==
    ASSUME Types, Locks, NEW t \in All, NEW x, Moves(t, x), lock' = lock,
           x.at \in InCall <=> task[t].at \in InCall,
           x.op \in Writes <=> task[t].op \in Writes,
           x.at \in InHand => t \in lock.held
    PROVE  Locks' /\ lock' \in LockT
<1>1. /\ task'[t] = x /\ PhaseOK(x) /\ lock \in LockT
      /\ \A u \in All : u # t => task'[u] = task[u]
  BY MoveIs DEF Moves, Types
<1>2. Busy \subseteq Busy' /\ (\A u \in Busy : u \in Writers <=> u \in Writers')
  BY <1>1 DEF Busy, Writers
<1>3. Locked(lock, Busy', Writers')
  <2>1. Locked(lock, Busy, Writers)
    BY DEF Locks
  <2> HIDE DEF Busy, Writers
  <2>2. QED
    BY <1>2, <2>1, LockedMore
<1>4. \A u \in All : PhaseOK(task'[u]) /\ (task'[u].at \in InHand => u \in lock.held)
  BY <1>1 DEF Locks
<1>5. QED
  BY <1>1, <1>3, <1>4 DEF Locks

\* A call begins: the task asks for the lock.
LEMMA LocksEnter ==
    ASSUME Types, Locks, NEW t \in All, NEW x, Moves(t, x),
           task[t].at \notin InCall, x.at \in InCall, x.at \notin InHand,
           lock' = Acquire(lock, t, x.op \in Writes)
    PROVE  Locks' /\ lock' \in LockT
<1>1. /\ task'[t] = x /\ PhaseOK(x) /\ lock \in LockT
      /\ \A u \in All : u # t => task'[u] = task[u]
  BY MoveIs DEF Moves, Types
<1>2. /\ Busy \in SUBSET All /\ Busy' \in SUBSET All /\ t \notin Busy /\ t \in Busy'
      /\ Busy \subseteq Busy' /\ (\A u \in Busy : u \in Writers <=> u \in Writers')
      /\ (x.op \in Writes) \in BOOLEAN /\ (x.op \in Writes <=> t \in Writers')
  BY <1>1 DEF Busy, Writers
<1>3. Locked(lock, Busy, Writers)
  BY DEF Locks
<1>4. lock' \in LockT /\ Locked(lock', Busy', Writers') /\ lock.held \subseteq lock'.held
  <2> HIDE DEF Busy, Writers
  <2> DEFINE w == x.op \in Writes
  <2>1. w \in BOOLEAN /\ (w <=> t \in Writers') /\ lock' = Acquire(lock, t, w)
    BY <1>2
  <2> HIDE DEF w
  <2>2. Comes(lock, t, w, Busy, Writers, Busy', Writers')
    BY <1>1, <1>2, <1>3, <2>1 DEF Comes
  <2>3. QED
    BY <2>1, <2>2, AcquireKeeps
<1>5. \A u \in All : PhaseOK(task'[u]) /\ (task'[u].at \in InHand => u \in lock'.held)
  BY <1>1, <1>4 DEF Locks
<1>6. QED
  BY <1>4, <1>5 DEF Locks

\* A call ends: the task gives the lock back.
LEMMA LocksLeave ==
    ASSUME Types, Locks, NEW t \in All, t \in lock.held, Moves(t, Home(t)),
           lock' = Release(lock, t)
    PROVE  Locks' /\ lock' \in LockT
<1> DEFINE x == Home(t)
<1>1. /\ task'[t] = x /\ PhaseOK(x) /\ lock \in LockT
      /\ \A u \in All : u # t => task'[u] = task[u]
  BY MoveIs DEF Moves, Types
<1>2. x.at \notin InHand
  BY HomeIs
<1> HIDE DEF x
<1>3. /\ Busy \in SUBSET All /\ Busy' \in SUBSET All
      /\ Busy \ {t} \subseteq Busy' /\ (\A u \in Busy \ {t} : u \in Writers <=> u \in Writers')
  BY <1>1 DEF Busy, Writers
<1>4. Locked(lock, Busy, Writers)
  BY DEF Locks
<1>5. lock' \in LockT /\ Locked(lock', Busy', Writers') /\ lock.held \ {t} \subseteq lock'.held
  <2> HIDE DEF Busy, Writers
  <2>1. Goes(lock, t, Busy, Writers, Busy', Writers')
    BY <1>1, <1>3, <1>4 DEF Goes
  <2>2. QED
    BY <2>1, ReleaseKeeps
<1>6. \A u \in All : PhaseOK(task'[u]) /\ (task'[u].at \in InHand => u \in lock'.held)
  BY <1>1, <1>2, <1>5 DEF Locks
<1>7. QED
  BY <1>5, <1>6 DEF Locks

\* `call` gives the lock back and asks for it again.
LEMMA LocksAgain ==
    ASSUME Types, Locks, NEW t \in All, t \in lock.held, NEW x, Moves(t, x),
           x.at = "wait", x.op \notin Writes,
           lock' = Acquire(Release(lock, t), t, FALSE)
    PROVE  Locks' /\ lock' \in LockT
<1> DEFINE m == Release(lock, t)
           B == Busy \ {t}
<1>1. /\ task'[t] = x /\ PhaseOK(x) /\ lock \in LockT
      /\ \A u \in All : u # t => task'[u] = task[u]
  BY MoveIs DEF Moves, Types
<1>2. /\ Busy \in SUBSET All /\ Busy' \in SUBSET All /\ t \in Busy'
      /\ B \in SUBSET All /\ t \notin B /\ B \subseteq Busy'
      /\ (\A u \in B : u \in Writers <=> u \in Writers') /\ t \notin Writers'
  BY <1>1 DEF Busy, Writers, InCall
<1>3. Locked(lock, Busy, Writers)
  BY DEF Locks
<1>4. m \in LockT /\ Locked(m, B, Writers) /\ lock.held \ {t} \subseteq m.held
  <2> HIDE DEF Busy, Writers
  <2>1. Goes(lock, t, Busy, Writers, B, Writers)
    BY <1>1, <1>2, <1>3 DEF Goes
  <2>2. QED
    BY <2>1, ReleaseKeeps
<1>5. lock' \in LockT /\ Locked(lock', Busy', Writers') /\ m.held \subseteq lock'.held
  <2> HIDE DEF Busy, Writers, m, B
  <2>1. lock' = Acquire(m, t, FALSE) /\ FALSE \in BOOLEAN
    BY DEF m
  <2>2. Comes(m, t, FALSE, B, Writers, Busy', Writers')
    BY <1>2, <1>4, <2>1 DEF Comes
  <2>3. QED
    BY <2>1, <2>2, AcquireKeeps
<1>6. x.at \notin InHand
  BY DEF InHand
<1>7. \A u \in All : PhaseOK(task'[u]) /\ (task'[u].at \in InHand => u \in lock'.held)
  BY <1>1, <1>4, <1>5, <1>6 DEF Locks
<1>8. QED
  BY <1>5, <1>7 DEF Locks

\* The lock at work: while a writer has it, nobody else has a connection in hand.
LEMMA WriterIsAlone ==
    ASSUME Types, Locks, NEW t \in All, t \in lock.held, task[t].op \in Writes
    PROVE  \A u \in All : u # t => task[u].at \notin InHand /\ task[u].conn = 0
<1>1. Locked(lock, Busy, Writers) /\ t \in Writers
  BY DEF Locks, Writers
<1>2. lock.held = {t}
  BY <1>1 DEF Locked, Types, LockT
<1>3. QED
  BY <1>2 DEF Locks, PhaseOK

----------------------------------------------------------------------------
(* Connections *)

\* A step that takes no connection in hand, and puts none back but a request's.
LEMMA WiredQuiet ==
    ASSUME Types, Wired, NEW t \in All, NEW x, Moves(t, x), x.conn = 0, x.at \notin InHand,
           task[t].conn = 0 \/ task[t].op \notin Writes, servers' = servers, live' = live
    PROVE  Wired'
<1>1. task'[t] = x /\ \A u \in All : u # t => task'[u] = task[u]
  BY MoveIs
<1>2. 0 \notin live
  BY DEF Types, TypeOK
<1>3. NoOrphans'
  <2>1. SUFFICES ASSUME NEW c \in live
                 PROVE  \/ \E s \in Servers : c = servers[s]
                        \/ \E u \in All : task'[u].op \in Writes /\ c = task'[u].conn
    BY DEF NoOrphans
  <2>2. \/ \E s \in Servers : c = servers[s]
        \/ \E u \in All : task[u].op \in Writes /\ c = task[u].conn
    BY DEF Wired, NoOrphans
  <2>3. QED
    BY <1>1, <1>2, <2>2
<1>4. x.at # "flight"
  BY DEF InHand
<1>5. QED
  BY <1>1, <1>3, <1>4 DEF Wired

\* A request finds the connection of its name.
LEMMA WiredLookup ==
    ASSUME Types, Wired, NEW t \in All, NEW x, Moves(t, x), task[t].op \notin Writes,
           x.op \notin Writes, x.server \in Servers, servers[x.server] # 0,
           x.conn = servers[x.server], servers' = servers, live' = live
    PROVE  Wired'
<1>1. task'[t] = x /\ \A u \in All : u # t => task'[u] = task[u]
  BY MoveIs
<1>2. NoOrphans'
  <2>1. SUFFICES ASSUME NEW c \in live
                 PROVE  \/ \E s \in Servers : c = servers[s]
                        \/ \E u \in All : task'[u].op \in Writes /\ c = task'[u].conn
    BY DEF NoOrphans
  <2>2. \/ \E s \in Servers : c = servers[s]
        \/ \E u \in All : task[u].op \in Writes /\ c = task[u].conn
    BY DEF Wired, NoOrphans
  <2>3. QED
    BY <1>1, <2>2
<1>3. QED
  BY <1>1, <1>2 DEF Wired

\* A connect starts a service no name has yet.
LEMMA WiredHandshake ==
    ASSUME Types, Locks, Wired, NEW t \in All, NEW x, Moves(t, x), task[t].op \in Writes,
           task[t].at \notin InHand, x.op \in Writes, NEW c \in Fresh, x.conn = c,
           servers' = servers, live' = live \cup {c}
    PROVE  Wired'
<1>1. task'[t] = x /\ \A u \in All : u # t => task'[u] = task[u]
  BY MoveIs
<1>2. c # 0 /\ c \notin live /\ 0 \notin live
  BY DEF Fresh, Types, TypeOK
<1>3. task[t].conn = 0
  BY DEF Locks, PhaseOK
<1>4. NoOrphans'
  <2>1. SUFFICES ASSUME NEW d \in live \cup {c}
                 PROVE  \/ \E s \in Servers : d = servers[s]
                        \/ \E u \in All : task'[u].op \in Writes /\ d = task'[u].conn
    BY DEF NoOrphans
  <2>2. CASE d = c
    BY <1>1, <2>2
  <2>3. CASE d \in live
    <3>1. \/ \E s \in Servers : d = servers[s]
          \/ \E u \in All : task[u].op \in Writes /\ d = task[u].conn
      BY <2>3 DEF Wired, NoOrphans
    <3>2. QED
      BY <1>1, <1>2, <1>3, <2>3, <3>1
  <2>4. QED
    BY <2>2, <2>3
<1>5. \A s \in Servers : servers[s] # c
  BY <1>2 DEF Wired
<1>6. x.op \notin {"ask", "call"}
  BY DEF Writes
<1>7. QED
  BY <1>1, <1>4, <1>5, <1>6 DEF Wired

\* The service in hand ends, as a connect that fails and a disconnect do.
LEMMA WiredDropped ==
    ASSUME Types, Locks, Wired, NEW t \in All, NEW x, Moves(t, x), task[t].op \in Writes,
           t \in lock.held, task[t].at \in InHand, x.conn = 0, x.at \notin InHand,
           servers' = servers, live' = live \ {task[t].conn}
    PROVE  Wired'
<1>1. task'[t] = x /\ \A u \in All : u # t => task'[u] = task[u]
  BY MoveIs
<1>2. \A u \in All : u # t => task[u].at \notin InHand /\ task[u].conn = 0
  BY WriterIsAlone
<1>3. \A s \in Servers : servers[s] # task[t].conn
  BY DEF Wired
<1>4. \A u \in All : task'[u].at \notin InHand /\ task'[u].at # "flight"
  BY <1>1, <1>2 DEF InHand
<1>5. NoOrphans'
  <2>1. SUFFICES ASSUME NEW c \in live \ {task[t].conn}
                 PROVE  \E s \in Servers : c = servers[s]
    BY DEF NoOrphans
  <2>2. c # 0
    BY DEF Types, TypeOK
  <2>3. \/ \E s \in Servers : c = servers[s]
        \/ \E u \in All : task[u].op \in Writes /\ c = task[u].conn
    BY DEF Wired, NoOrphans
  <2>4. QED
    BY <1>2, <2>2, <2>3
<1>6. \A s \in Servers : servers[s] # 0 => servers[s] \in live \ {task[t].conn}
  BY <1>3 DEF Wired
<1>7. QED
  BY <1>4, <1>5, <1>6 DEF Wired

\* A connect puts the service in hand into the map; the one the name had ends.
LEMMA WiredInsert ==
    ASSUME Types, Locks, Wired, NEW t \in All, NEW x, Moves(t, x), task[t].op \in Writes,
           t \in lock.held, task[t].at \in InHand, x.conn = 0, x.at \notin InHand,
           task[t].server \in Servers, Insert(t)
    PROVE  Wired'
<1> DEFINE n == task[t].server
           k == task[t].conn
<1>1. task'[t] = x /\ \A u \in All : u # t => task'[u] = task[u]
  BY MoveIs
<1>2. \A u \in All : u # t => task[u].at \notin InHand /\ task[u].conn = 0
  BY WriterIsAlone
<1>3. k \in live /\ (\A s \in Servers : servers[s] # k) /\ k # 0
  BY DEF Wired, Types, TypeOK
<1>4. /\ servers'[n] = k /\ (\A s \in Servers : s # n => servers'[s] = servers[s])
      /\ live' = live \ {servers[n]}
  BY DEF Insert, Types, TypeOK
<1>5. \A u \in All : task'[u].at \notin InHand /\ task'[u].at # "flight"
  BY <1>1, <1>2 DEF InHand
<1> HIDE DEF k, n
<1>6. n \in Servers
  BY DEF n
<1>7. NoOrphans'
  <2>1. SUFFICES ASSUME NEW c \in live' PROVE \E s \in Servers : c = servers'[s]
    BY DEF NoOrphans
  <2>2. c # 0 /\ c \in live /\ c # servers[n]
    BY <1>4 DEF Types, TypeOK
  <2>3. \/ \E s \in Servers : c = servers[s]
        \/ \E u \in All : task[u].op \in Writes /\ c = task[u].conn
    BY <2>2 DEF Wired, NoOrphans
  <2>4. CASE \E s \in Servers : c = servers[s]
    BY <1>4, <2>2, <2>4
  <2>5. CASE \E u \in All : task[u].op \in Writes /\ c = task[u].conn
    <3>1. c = k
      BY <1>2, <2>2, <2>5 DEF k
    <3>2. QED
      BY <1>4, <1>6, <3>1
  <2>6. QED
    BY <2>3, <2>4, <2>5
<1>8. \A s \in Servers : servers'[s] # 0 => servers'[s] \in live'
  <2>1. SUFFICES ASSUME NEW s \in Servers, servers'[s] # 0 PROVE servers'[s] \in live'
    OBVIOUS
  <2>2. CASE s = n
    BY <1>3, <1>4, <1>6, <2>2
  <2>3. CASE s # n
    BY <1>4, <1>6, <2>1, <2>3 DEF Wired
  <2>4. QED
    BY <2>2, <2>3
<1>9. \A s, u \in Servers : servers'[s] # 0 /\ servers'[s] = servers'[u] => s = u
  <2>1. SUFFICES ASSUME NEW s \in Servers, NEW u \in Servers, servers'[s] # 0,
                        servers'[s] = servers'[u]
                 PROVE  s = u
    OBVIOUS
  <2>2. CASE s # n /\ u # n
    BY <1>4, <2>1, <2>2 DEF Wired
  <2>3. CASE s = n \/ u = n
    BY <1>3, <1>4, <2>1, <2>3
  <2>4. QED
    BY <2>2, <2>3
<1>10. QED
  BY <1>5, <1>7, <1>8, <1>9 DEF Wired

\* A disconnect takes the connection of a name out of the map.
LEMMA WiredTakeOut ==
    ASSUME Types, Locks, Wired, NEW t \in All, NEW x, Moves(t, x), task[t].op \in Writes,
           t \in lock.held, task[t].at \notin InHand, x.op \in Writes, x.at = "closing",
           NEW n \in Servers, servers[n] # 0, x.conn = servers[n],
           servers' = [servers EXCEPT ![n] = 0], live' = live
    PROVE  Wired'
<1>1. task'[t] = x /\ \A u \in All : u # t => task'[u] = task[u]
  BY MoveIs
<1>2. \A u \in All : u # t => task[u].at \notin InHand /\ task[u].conn = 0
  BY WriterIsAlone
<1>3. servers'[n] = 0 /\ \A s \in Servers : s # n => servers'[s] = servers[s]
  BY DEF Types, TypeOK
<1>4. task[t].conn = 0
  BY DEF Locks, PhaseOK
<1>5. \A u \in All : u # t => task'[u].at \notin InHand /\ task'[u].at # "flight"
  BY <1>1, <1>2 DEF InHand
<1>6. x.conn \in live /\ \A s \in Servers : servers'[s] # x.conn
  BY <1>3 DEF Wired
<1>7. NoOrphans'
  <2>1. SUFFICES ASSUME NEW c \in live
                 PROVE  \/ \E s \in Servers : c = servers'[s]
                        \/ \E u \in All : task'[u].op \in Writes /\ c = task'[u].conn
    BY DEF NoOrphans
  <2>2. c # 0
    BY DEF Types, TypeOK
  <2>3. \/ \E s \in Servers : c = servers[s]
        \/ \E u \in All : task[u].op \in Writes /\ c = task[u].conn
    BY DEF Wired, NoOrphans
  <2>4. CASE \E s \in Servers : c = servers[s]
    BY <1>1, <1>3, <2>4
  <2>5. CASE \E u \in All : task[u].op \in Writes /\ c = task[u].conn
    BY <1>2, <1>4, <2>2, <2>5
  <2>6. QED
    BY <2>3, <2>4, <2>5
<1>8. \A s, u \in Servers : servers'[s] # 0 /\ servers'[s] = servers'[u] => s = u
  BY <1>3 DEF Wired
<1>9. QED
  BY <1>1, <1>3, <1>5, <1>6, <1>7, <1>8 DEF Wired

----------------------------------------------------------------------------
(* The steps of a call *)

CountT == [calls : Nat, asks : Nat, buses : Nat, notes : Nat, conns : Nat,
           kinds : SUBSET Kinds, names : SUBSET Servers]
MarkT == [marked : BOOLEAN, trace_context : BOOLEAN]

\* The step that AllMeansAll allows: a disconnect_all that ends leaves no connection.
AllDone ==
    \A t \in All : task[t].op = "disconnect_all" /\ task'[t].op # "disconnect_all" =>
       \A s \in Servers : servers'[s] = 0

\* What a step of a call owes besides the lock and the connections.
LEMMA Moved ==
    ASSUME IInv, NEW t \in All, NEW x, Moves(t, x), Locks', lock' \in LockT, Wired',
           kind' = kind, servers' \in [Servers -> 0 .. MaxConns], live' \subseteq 1 .. MaxConns,
           traced' \subseteq 1 .. MaxConns, registry' \in [Servers -> MarkT],
           callbacks' \in [Servers -> SUBSET VMs], asker' \in All \cup {Nobody},
           channel' = channel, notices' = notices, counts' \in CountT,
           \A s \in Servers : Callable(s) => Callable(s)',
           \A s \in Servers : registry'[s].marked => registry[s].marked \/ Callable(s)',
           x.op = "mark" => Callable(x.server)',
           \/ task[t].op # "disconnect_all" \/ x.op = "disconnect_all"
           \/ \A s \in Servers : servers'[s] = 0
    PROVE  IInv' /\ AllDone
<1> USE DEF IInv
<1>1. /\ task' \in [All -> TaskT] /\ task'[t] = x /\ x \in TaskT
      /\ \A u \in All : u # t => task'[u] = task[u]
  BY MoveIs DEF Moves
<1>2. Types'
  <2>1. \A u \in All : /\ task'[u].at \in {"idle", "run", "flag", "wait", "flight", "closing"}
                       /\ task'[u].op \in Reads \cup Writes \cup {"none", "handler"}
    BY <1>1 DEF TaskT, InCall
  <2>2. lock'.held \subseteq All /\ lock'.excl \in BOOLEAN
    BY DEF LockT
  <2>3. Len(channel') <= Capacity /\ kind' \in Kinds
    BY DEF Types, TypeOK
  <2>4. TypeOK'
    BY <2>1, <2>2, <2>3 DEF TypeOK, MarkT
  <2>5. QED
    BY <1>1, <2>4 DEF Types, CountT
<1>3. Marks'
  <2>1. \A u \in All : task[u].op = "mark" => task[u].server \in Servers
    <3>1. SUFFICES ASSUME NEW u \in All, task[u].op = "mark" PROVE task[u].server \in Servers
      OBVIOUS
    <3>2. task[u].at \in {"idle", "run"} \cup InCall /\ PhaseOK(task[u])
      BY DEF Types, TaskT, Locks
    <3>3. QED
      BY <3>1, <3>2 DEF PhaseOK
  <2>2. MarkedIsCallable'
    BY DEF Marks, MarkedIsCallable
  <2>3. \A u \in All : task'[u].op = "mark" => Callable(task[u].server)'
    BY <1>1, <2>1 DEF Marks
  <2>4. QED
    BY <2>2, <2>3 DEF Marks
<1>4. Delivery'
  BY DEF Delivery, DeliveredInOrder
<1>5. AllDone
  BY <1>1 DEF AllDone
<1>6. QED
  BY <1>2, <1>3, <1>4, <1>5

\* What most of the steps leave alone.
Aside == /\ UNCHANGED <<kind, callbacks, asker, channel, notices, counts>>
         /\ traced' = traced

\* The types of what a step leaves alone, for Moved.
LEMMA TypesOf ==
    ASSUME IInv
    PROVE  /\ servers \in [Servers -> 0 .. MaxConns] /\ live \subseteq 1 .. MaxConns
           /\ traced \subseteq 1 .. MaxConns /\ registry \in [Servers -> MarkT]
           /\ callbacks \in [Servers -> SUBSET VMs] /\ asker \in All \cup {Nobody}
           /\ counts \in CountT
BY DEF IInv, Types, TypeOK, MarkT, CountT

\* A call that has nothing in hand but a request's connection returns.
LEMMA FinishKeeps ==
    ASSUME IInv, NEW t \in All, t \in lock.held, Finish(t), Aside,
           task[t].conn = 0 \/ task[t].op \notin Writes, servers' = servers, live' = live,
           registry' \in [Servers -> MarkT],
           \A s \in Servers : registry'[s].marked => registry[s].marked \/ Callable(s),
           task[t].op # "disconnect_all" \/ \A s \in Servers : servers[s] = 0
    PROVE  IInv' /\ AllDone
<1>1. Moves(t, Home(t)) /\ lock' = Release(lock, t)
  BY FinishIs
<1>2. Home(t).conn = 0 /\ Home(t).at \notin InHand /\ Home(t).op # "mark"
  BY HomeIs
<1>3. Locks' /\ lock' \in LockT
  BY <1>1, LocksLeave DEF IInv
<1>4. Wired'
  BY <1>1, <1>2, WiredQuiet DEF IInv
<1>5. QED
  BY <1>1, <1>2, <1>3, <1>4, Moved, TypesOf DEF Aside, Callable

\* What holds of a task that is about to take a step under the lock.
LEMMA HasIs ==
    ASSUME IInv, NEW t \in All, NEW op, Has(t, op), op \in Reads \cup Writes
    PROVE  /\ t \in lock.held /\ task[t].op = op /\ task[t].at = "wait"
           /\ task[t].conn = 0 /\ task[t].server \in Servers /\ task[t].at \in InCall
           /\ task[t].at \notin InHand /\ task[t] \in TaskT
<1>1. PhaseOK(task[t]) /\ task[t] \in TaskT
  BY DEF IInv, Locks, Types
<1>2. QED
  BY <1>1 DEF Has, PhaseOK, InCall, InHand

\* A task goes on, with a phase and a connection its call allows.
GoOn(t, at, c) ==
    /\ task' = [task EXCEPT ![t].at = at, ![t].conn = c]
    /\ at \in {"wait", "flight", "closing"} /\ c \in 0 .. MaxConns
    /\ task[t].op \in Reads \cup Writes /\ task[t].server \in Servers
    /\ at = "closing" => task[t].op \in {"disconnect", "disconnect_all"}
    /\ at = "flight" => task[t].op \in {"ask", "call", "connect"}
    /\ at = "wait" => c = 0

\* The steps of a task that goes on: the phase and the connection change, not the call.
LEMMA GoesOn ==
    ASSUME IInv, NEW t \in All, NEW at, NEW c, GoOn(t, at, c)
    PROVE  \E x : /\ Moves(t, x) /\ x.at = at /\ x.conn = c /\ x.op = task[t].op
                  /\ x.server = task[t].server /\ x.at \in InCall
<1> USE DEF GoOn
<1>1. task \in [All -> TaskT] /\ task[t] \in TaskT
  BY DEF IInv, Types
<1>2. PICK y : y = task[t]
  OBVIOUS
<1>3. PICK x : x = [y EXCEPT !.at = at, !.conn = c]
  OBVIOUS
<1>4. /\ x \in TaskT /\ x.at = at /\ x.conn = c /\ x.op = y.op /\ x.server = y.server
  <2>1. y \in TaskT /\ at \in {"idle", "run"} \cup InCall
    BY <1>1, <1>2 DEF InCall
  <2>2. QED
    BY <1>3, <2>1 DEF TaskT
<1>5. task' = [task EXCEPT ![t] = x]
  BY <1>1, <1>2, <1>3
<1>6. PhaseOK(x) /\ x.at \in InCall
  BY <1>2, <1>4 DEF PhaseOK, InHand, InCall
<1>7. QED
  BY <1>2, <1>4, <1>5, <1>6 DEF Moves

\* A call begins: the bridge asks for the lock, and a registration puts its function in
\* the table first.
LEMMA BeginKeeps ==
    ASSUME IInv, NEW t \in All, NEW op \in Reads \cup Writes, NEW s \in Servers,
           NEW at \in {"wait", "flag"}, at = "flag" => op = "call", Begin(t, op, s, at),
           IF op = "mark" THEN \E k \in Kinds : Register(t, s, k) ELSE callbacks' = callbacks
    PROVE  IInv' /\ AllDone
<1>1. PICK y : y = Idle
  OBVIOUS
<1>2. PICK x : x = [y EXCEPT !.at = at, !.op = op, !.server = s]
  OBVIOUS
<1>3. /\ task' = [task EXCEPT ![t] = x] /\ lock' = Acquire(lock, t, op \in Writes)
      /\ kind' = kind /\ servers' = servers /\ live' = live /\ traced' = traced
      /\ registry' = registry /\ asker' = asker /\ channel' = channel /\ notices' = notices
  BY <1>1, <1>2 DEF Begin, conns, events
<1>4. x \in TaskT /\ x.at = at /\ x.op = op /\ x.server = s /\ x.conn = 0
  <2>1. y \in TaskT /\ y.conn = 0
    <3>1. 0 \in 0 .. MaxConns
      BY McpAssumption
    <3>2. QED
      BY <1>1, <3>1 DEF Idle, TaskT
  <2>2. QED
    BY <1>2, <2>1 DEF TaskT, InCall
<1>5. PhaseOK(x) /\ x.at \in InCall /\ x.at \notin InHand
  BY <1>4 DEF PhaseOK, InCall, InHand
<1>6. Moves(t, x)
  BY <1>3, <1>4, <1>5 DEF Moves
<1>7. /\ task[t].at \notin InCall /\ task[t].conn = 0 /\ task[t].op # "disconnect_all"
  <2>1. task[t].at \in {"idle", "run"}
    BY DEF Begin, MayCall
  <2>2. PhaseOK(task[t])
    BY DEF IInv, Locks
  <2>3. QED
    BY <2>1, <2>2 DEF PhaseOK, InCall, InHand
<1>8. Locks' /\ lock' \in LockT
  BY <1>3, <1>4, <1>5, <1>6, <1>7, LocksEnter DEF IInv
<1>9. Wired'
  BY <1>3, <1>4, <1>5, <1>6, <1>7, WiredQuiet DEF IInv
<1>10. counts' \in CountT
  <2>1. counts \in CountT /\ counts.calls > 0
    BY TypesOf DEF Begin, MayCall
  <2>2. PICK n : n = IF op = "connect" THEN counts.conns + 1 ELSE counts.conns
    OBVIOUS
  <2>3. n \in Nat /\ counts.calls - 1 \in Nat
    BY <2>1, <2>2 DEF CountT
  <2>4. PICK m : m = counts.calls - 1
    OBVIOUS
  <2>5. counts' = [counts EXCEPT !.calls = m, !.conns = n]
    BY <2>2, <2>4 DEF Begin
  <2>6. QED
    BY <2>1, <2>3, <2>4, <2>5 DEF CountT
<1>11. callbacks' \in [Servers -> SUBSET VMs] /\ (\A u \in Servers : Callable(u) => Callable(u)')
       /\ (op = "mark" => Callable(s)')
  <2>1. CASE op = "mark"
    <3>1. PICK k \in Kinds : Register(t, s, k)
      BY <2>1
    <3>2. PICK v \in VMs : /\ v = Table(t, k) /\ (k \in Asks => v = "handler")
                           /\ callbacks' = [callbacks EXCEPT ![s] = @ \cup {v}]
      BY <3>1 DEF Register, Table, VMs
    <3>3. kind' = kind /\ kind = k
      BY <1>3, <3>1 DEF Register
    <3>4. callbacks \in [Servers -> SUBSET VMs]
      BY TypesOf
    <3>5. /\ callbacks' \in [Servers -> SUBSET VMs] /\ v \in callbacks'[s]
          /\ \A u \in Servers : callbacks[u] \subseteq callbacks'[u]
      BY <3>2, <3>4
    <3>6. QED
      BY <3>2, <3>3, <3>5 DEF Callable, VMs
  <2>2. CASE op # "mark"
    BY <1>3, <2>2, TypesOf DEF Callable
  <2>3. QED
    BY <2>1, <2>2
<1>12. QED
  BY <1>3, <1>4, <1>6, <1>7, <1>8, <1>9, <1>10, <1>11, Moved, TypesOf DEF Callable

\* A round trip begins, or is refused.
LEMMA LookupKeeps ==
    ASSUME IInv, NEW t \in All, NEW op \in {"ask", "call"}, NEW mayRefuse,
           Lookup(t, op, mayRefuse)
    PROVE  IInv' /\ AllDone
<1>1. /\ t \in lock.held /\ task[t].op = op /\ task[t].at = "wait"
      /\ task[t].conn = 0 /\ task[t].server \in Servers /\ task[t].at \in InCall
  <2>1. Has(t, op) /\ op \in Reads \cup Writes
    BY DEF Lookup, Reads
  <2>2. QED
    BY <2>1, HasIs
<1>2. Aside /\ servers' = servers /\ live' = live /\ registry' = registry
  BY DEF Lookup, Aside, conns, events
<1>3. CASE Finish(t)
  BY <1>1, <1>2, <1>3, FinishKeeps, TypesOf
<1>4. CASE /\ servers[task[t].server] # 0
           /\ task' = [task EXCEPT ![t].at = "flight", ![t].conn = servers[task[t].server]]
           /\ UNCHANGED lock
  <2>1. PICK c : c = servers[task[t].server]
    OBVIOUS
  <2>2. c \in 0 .. MaxConns /\ c # 0
    BY <1>1, <1>4, <2>1, TypesOf
  <2>3. PICK x : /\ Moves(t, x) /\ x.at = "flight" /\ x.conn = c /\ x.op = task[t].op
                 /\ x.server = task[t].server /\ x.at \in InCall
    <3>1. task[t].op \in Reads \cup Writes /\ task[t].op \in {"ask", "call", "connect"}
      BY <1>1 DEF Reads
    <3>2. task' = [task EXCEPT ![t].at = "flight", ![t].conn = c]
      BY <1>4, <2>1
    <3>3. GoOn(t, "flight", c)
      BY <1>1, <2>2, <3>1, <3>2 DEF GoOn
    <3>4. QED
      BY <3>3, GoesOn
  <2>4. x.op \notin Writes /\ x.op # "mark" /\ x.op # "disconnect_all"
    BY <1>1, <2>3 DEF Writes
  <2>5. Locks' /\ lock' \in LockT
    BY <1>1, <1>4, <2>3, LocksStay DEF IInv
  <2>6. Wired'
    BY <1>1, <1>2, <2>1, <2>2, <2>3, <2>4, WiredLookup DEF IInv
  <2>7. QED
    BY <1>2, <2>3, <2>4, <2>5, <2>6, Moved, TypesOf DEF Aside, Callable
<1>5. QED
  BY <1>3, <1>4 DEF Lookup

\* A round trip ends, with an answer or by its timeout.
LEMMA AnswerKeeps ==
    ASSUME IInv, NEW t \in All, Answer(t) \/ Timeout(t)
    PROVE  IInv' /\ AllDone
<1>1. /\ task[t].at = "flight" /\ task[t].op \in {"ask", "call"} /\ Finish(t)
      /\ Aside /\ servers' = servers /\ live' = live /\ registry' = registry
  BY DEF Answer, Timeout, Aside, conns, events
<1>2. t \in lock.held /\ task[t].op \notin Writes /\ task[t].op # "disconnect_all"
  BY <1>1 DEF IInv, Locks, InHand, Writes
<1>3. QED
  BY <1>1, <1>2, FinishKeeps, TypesOf

\* What needs no answer.
LEMMA TellKeeps ==
    ASSUME IInv, NEW t \in All, Tell(t)
    PROVE  IInv' /\ AllDone
<1>1. /\ t \in lock.held /\ task[t].op = "tell" /\ task[t].conn = 0
  BY HasIs DEF Tell, Reads
<1>2. Finish(t) /\ Aside /\ servers' = servers /\ live' = live /\ registry' = registry
  BY DEF Tell, Aside, conns, events
<1>3. QED
  BY <1>1, <1>2, FinishKeeps, TypesOf

\* A mark is set, for a function that is there.
LEMMA MarkKeeps ==
    ASSUME IInv, NEW t \in All, NEW k, Mark(t, k)
    PROVE  IInv' /\ AllDone
<1>1. /\ t \in lock.held /\ task[t].op = "mark" /\ task[t].conn = 0 /\ task[t].server \in Servers
  BY HasIs DEF Mark, Reads
<1>2. /\ Finish(t) /\ Aside /\ servers' = servers /\ live' = live
      /\ registry' = [registry EXCEPT ![task[t].server].marked = TRUE]
  BY DEF Mark, Aside, conns, events
<1>3. Callable(task[t].server)
  BY <1>1 DEF IInv, Marks
<1>4. PICK n : n = task[t].server
  OBVIOUS
<1>5. /\ registry' = [registry EXCEPT ![n] = [registry[n] EXCEPT !.marked = TRUE]]
      /\ n \in Servers /\ Callable(n) /\ registry \in [Servers -> MarkT] /\ registry[n] \in MarkT
  BY <1>1, <1>2, <1>3, <1>4, TypesOf
<1>6. PICK y : y = [registry[n] EXCEPT !.marked = TRUE]
  OBVIOUS
<1>7. y \in MarkT
  BY <1>5, <1>6 DEF MarkT
<1>8. registry' = [registry EXCEPT ![n] = y]
  BY <1>5, <1>6
<1>9. registry' \in [Servers -> MarkT]
  BY <1>5, <1>7, <1>8
<1>10. \A s \in Servers : registry'[s].marked => registry[s].marked \/ Callable(s)
  BY <1>5, <1>8
<1>11. QED
  BY <1>1, <1>2, <1>9, <1>10, FinishKeeps

\* `call` reads the trace flag, and asks for the lock again.
LEMMA TraceKeeps ==
    ASSUME IInv, NEW t \in All, trace_context_enabled(t)
    PROVE  IInv' /\ AllDone
<1>1. /\ t \in lock.held /\ task[t].at = "flag" /\ lock' = Acquire(Release(lock, t), t, FALSE)
      /\ Aside /\ servers' = servers /\ live' = live /\ registry' = registry
      /\ task' = [task EXCEPT ![t].at = "wait",
                              ![t].inject = registry[task[t].server].trace_context]
  BY DEF trace_context_enabled, Aside, conns, events
<1>2. task \in [All -> TaskT] /\ task[t] \in TaskT /\ PhaseOK(task[t])
  BY DEF IInv, Types, Locks
<1>3. task[t].op = "call" /\ task[t].server \in Servers /\ task[t].conn = 0
  BY <1>1, <1>2 DEF PhaseOK, InCall, InHand
<1>4. PICK b : b = registry[task[t].server].trace_context
  OBVIOUS
<1>5. b \in BOOLEAN
  BY <1>3, <1>4, TypesOf DEF MarkT
<1>6. PICK y : y = task[t]
  OBVIOUS
<1>7. PICK x : x = [y EXCEPT !.at = "wait", !.inject = b]
  OBVIOUS
<1>8. x \in TaskT /\ x.at = "wait" /\ x.op = y.op /\ x.server = y.server /\ x.conn = y.conn
  BY <1>2, <1>5, <1>6, <1>7 DEF TaskT, InCall
<1>9. task' = [task EXCEPT ![t] = x]
  BY <1>1, <1>2, <1>4, <1>6, <1>7
<1>10. Moves(t, x)
  BY <1>3, <1>6, <1>8, <1>9 DEF Moves, PhaseOK, InCall, InHand, Reads
<1>11. x.op = "call" /\ x.op \notin Writes /\ x.conn = 0 /\ x.at \notin InHand
  BY <1>3, <1>6, <1>8 DEF Writes, InHand
<1>12. Locks' /\ lock' \in LockT
  BY <1>1, <1>8, <1>10, <1>11, LocksAgain DEF IInv
<1>13. Wired'
  BY <1>1, <1>3, <1>10, <1>11, WiredQuiet DEF IInv
<1>14. QED
  BY <1>1, <1>3, <1>10, <1>11, <1>12, <1>13, Moved, TypesOf DEF Aside, Callable

----------------------------------------------------------------------------
(* The steps of connecting and disconnecting *)

\* The handshake begins, or the child process does not start.
LEMMA HandshakeKeeps ==
    ASSUME IInv, NEW t \in All, NEW spawned, Handshake(t, spawned)
    PROVE  IInv' /\ AllDone
<1>1. /\ t \in lock.held /\ task[t].op = "connect" /\ task[t].at = "wait"
      /\ task[t].conn = 0 /\ task[t].server \in Servers /\ task[t].at \in InCall
      /\ task[t].at \notin InHand
  <2>1. Has(t, "connect") /\ "connect" \in Reads \cup Writes
    BY DEF Handshake, Writes
  <2>2. QED
    BY <2>1, HasIs
<1>2. /\ UNCHANGED <<kind, callbacks, asker, channel, notices, counts>> /\ servers' = servers
  BY DEF Handshake, events
<1>3. CASE Finish(t) /\ UNCHANGED <<registry, traced, live>>
  <2>1. Aside
    BY <1>2, <1>3 DEF Aside
  <2>2. QED
    BY <1>1, <1>2, <1>3, <2>1, FinishKeeps, TypesOf
<1>4. ASSUME NEW on \in BOOLEAN, NEW c \in Fresh,
             set_trace_context(task[t].server, on),
             traced' = IF on THEN traced \cup {c} ELSE traced \ {c},
             live' = live \cup {c},
             task' = [task EXCEPT ![t].at = "flight", ![t].conn = c],
             UNCHANGED lock
      PROVE  IInv' /\ AllDone
  <2>1. c \in 1 .. MaxConns /\ c \in 0 .. MaxConns
    BY McpAssumption DEF Fresh
  <2>2. PICK x : /\ Moves(t, x) /\ x.at = "flight" /\ x.conn = c /\ x.op = task[t].op
                 /\ x.server = task[t].server /\ x.at \in InCall
    <3>1. task[t].op \in Reads \cup Writes /\ task[t].op \in {"ask", "call", "connect"}
      BY <1>1 DEF Writes
    <3>2. GoOn(t, "flight", c)
      BY <1>1, <1>4, <2>1, <3>1 DEF GoOn
    <3>3. QED
      BY <3>2, GoesOn
  <2>3. x.op \in Writes /\ task[t].op \in Writes /\ x.op # "mark" /\ x.op # "disconnect_all"
    BY <1>1, <2>2 DEF Writes
  <2>4. Locks' /\ lock' \in LockT
    BY <1>1, <1>4, <2>2, LocksStay DEF IInv
  <2>5. Wired'
    BY <1>1, <1>2, <1>4, <2>2, <2>3, WiredHandshake DEF IInv
  <2>6. PICK n : n = task[t].server
    OBVIOUS
  <2>7. /\ registry' = [registry EXCEPT ![n] = [registry[n] EXCEPT !.trace_context = on]]
        /\ n \in Servers /\ registry \in [Servers -> MarkT] /\ registry[n] \in MarkT
    BY <1>1, <1>4, <2>6, TypesOf DEF set_trace_context
  <2>8. PICK y : y = [registry[n] EXCEPT !.trace_context = on]
    OBVIOUS
  <2>9. y \in MarkT /\ y.marked = registry[n].marked
    BY <2>7, <2>8 DEF MarkT
  <2>10. registry' = [registry EXCEPT ![n] = y]
    BY <2>7, <2>8
  <2>11. registry' \in [Servers -> MarkT]
         /\ \A s \in Servers : registry'[s].marked => registry[s].marked
    BY <2>7, <2>9, <2>10
  <2>12. traced' \subseteq 1 .. MaxConns /\ live' \subseteq 1 .. MaxConns
    BY <1>4, <2>1, TypesOf
  <2>13. QED
    BY <1>1, <1>2, <2>2, <2>3, <2>4, <2>5, <2>11, <2>12, Moved, TypesOf DEF Callable
<1>5. QED
  BY <1>3, <1>4 DEF Handshake

\* The handshake ends.
LEMMA ConnectedKeeps ==
    ASSUME IInv, NEW t \in All, Connected(t)
    PROVE  IInv' /\ AllDone
<1>1. /\ task[t].at = "flight" /\ task[t].op = "connect" /\ Finish(t) /\ Aside
      /\ registry' = registry
  BY DEF Connected, Aside, events
<1>2. /\ t \in lock.held /\ task[t].at \in InHand /\ task[t].server \in Servers
      /\ task[t].op \in Writes
  BY <1>1 DEF IInv, Locks, PhaseOK, InHand, InCall, Writes
<1>3. /\ Moves(t, Home(t)) /\ lock' = Release(lock, t)
  BY <1>1, FinishIs
<1>4. Home(t).conn = 0 /\ Home(t).at \notin InHand /\ Home(t).op # "mark"
  BY HomeIs
<1>5. Locks' /\ lock' \in LockT
  BY <1>2, <1>3, LocksLeave DEF IInv
<1>6. CASE Insert(t)
  <2>1. Wired'
    BY <1>2, <1>3, <1>4, <1>6, WiredInsert DEF IInv
  <2>2. task[t].conn \in 0 .. MaxConns
    BY DEF IInv, Types, TaskT
  <2>3. servers' \in [Servers -> 0 .. MaxConns] /\ live' \subseteq 1 .. MaxConns
    BY <1>2, <1>6, <2>2, TypesOf DEF Insert
  <2>4. QED
    BY <1>1, <1>3, <1>4, <1>5, <2>1, <2>3, Moved, TypesOf DEF Aside, Callable
<1>7. CASE live' = live \ {task[t].conn} /\ UNCHANGED servers
  <2>1. Wired'
    BY <1>2, <1>3, <1>4, <1>7, WiredDropped DEF IInv
  <2>2. servers' \in [Servers -> 0 .. MaxConns] /\ live' \subseteq 1 .. MaxConns
    BY <1>7, TypesOf
  <2>3. QED
    BY <1>1, <1>3, <1>4, <1>5, <2>1, <2>2, Moved, TypesOf DEF Aside, Callable
<1>8. QED
  BY <1>6, <1>7 DEF Connected

\* A name goes out of the map before its connection is cancelled.
LEMMA TakeOutKeeps ==
    ASSUME IInv, NEW t \in All, NEW op \in {"disconnect", "disconnect_all"}, Has(t, op),
           NEW n \in Servers, servers[n] # 0, TakeOut(t, n), Aside, live' = live,
           registry' = registry
    PROVE  IInv' /\ AllDone
<1>1. /\ t \in lock.held /\ task[t].op = op /\ task[t].at = "wait"
      /\ task[t].conn = 0 /\ task[t].server \in Servers /\ task[t].at \in InCall
      /\ task[t].at \notin InHand
  <2>1. op \in Reads \cup Writes
    BY DEF Writes
  <2>2. QED
    BY <2>1, HasIs
<1>2. PICK c : c = servers[n]
  OBVIOUS
<1>3. c \in 0 .. MaxConns
  BY <1>2, TypesOf
<1>4. PICK x : /\ Moves(t, x) /\ x.at = "closing" /\ x.conn = c /\ x.op = task[t].op
               /\ x.server = task[t].server /\ x.at \in InCall
  <2>1. task[t].op \in Reads \cup Writes /\ task[t].op \in {"disconnect", "disconnect_all"}
    BY <1>1 DEF Writes
  <2>2. task' = [task EXCEPT ![t].at = "closing", ![t].conn = c]
    BY <1>2 DEF TakeOut
  <2>3. GoOn(t, "closing", c)
    BY <1>1, <1>3, <2>1, <2>2 DEF GoOn
  <2>4. QED
    BY <2>3, GoesOn
<1>5. x.op \in Writes /\ task[t].op \in Writes /\ x.op # "mark"
  BY <1>1, <1>4 DEF Writes
<1>6. servers' = [servers EXCEPT ![n] = 0] /\ lock' = lock
  BY DEF TakeOut
<1>7. Locks' /\ lock' \in LockT
  BY <1>1, <1>4, <1>6, LocksStay DEF IInv
<1>8. Wired'
  BY <1>1, <1>2, <1>4, <1>5, <1>6, WiredTakeOut DEF IInv
<1>9. servers' \in [Servers -> 0 .. MaxConns]
  BY <1>6, TypesOf, McpAssumption
<1>10. QED
  BY <1>1, <1>4, <1>5, <1>7, <1>8, <1>9, Moved, TypesOf DEF Aside, Callable

\* disconnect, of a name that is connected or not.
LEMMA DisconnectKeeps ==
    ASSUME IInv, NEW t \in All, disconnect(t)
    PROVE  IInv' /\ AllDone
<1>1. /\ Has(t, "disconnect") /\ Aside /\ live' = live /\ registry' = registry
  BY DEF disconnect, Aside, events
<1>2. /\ t \in lock.held /\ task[t].op = "disconnect" /\ task[t].conn = 0
      /\ task[t].server \in Servers
  BY <1>1, HasIs DEF Writes
<1>3. CASE servers[task[t].server] = 0
  <2>1. Finish(t) /\ servers' = servers
    BY <1>3 DEF disconnect
  <2>2. QED
    BY <1>1, <1>2, <2>1, FinishKeeps, TypesOf
<1>4. CASE servers[task[t].server] # 0
  <2>1. TakeOut(t, task[t].server)
    BY <1>4 DEF disconnect
  <2>2. PICK n : n = task[t].server
    OBVIOUS
  <2>3. n \in Servers /\ servers[n] # 0 /\ TakeOut(t, n)
    BY <1>2, <1>4, <2>1, <2>2
  <2>4. QED
    BY <1>1, <2>3, TakeOutKeeps
<1>5. QED
  BY <1>3, <1>4

\* disconnect_all, which ends only when the map is empty.
LEMMA DisconnectAllKeeps ==
    ASSUME IInv, NEW t \in All, disconnect_all(t)
    PROVE  IInv' /\ AllDone
<1>1. /\ Has(t, "disconnect_all") /\ Aside /\ live' = live /\ registry' = registry
  BY DEF disconnect_all, Aside, events
<1>2. t \in lock.held /\ task[t].op = "disconnect_all" /\ task[t].conn = 0
  BY <1>1, HasIs DEF Writes
<1>3. CASE \A s \in Servers : servers[s] = 0
  <2>1. Finish(t) /\ servers' = servers
    BY <1>3 DEF disconnect_all
  <2>2. QED
    BY <1>1, <1>2, <1>3, <2>1, FinishKeeps, TypesOf
<1>4. CASE ~ \A s \in Servers : servers[s] = 0
  <2>1. PICK n \in Servers : servers[n] # 0 /\ TakeOut(t, n)
    BY <1>4 DEF disconnect_all
  <2>2. QED
    BY <1>1, <2>1, TakeOutKeeps
<1>5. QED
  BY <1>3, <1>4

\* A cancel ends; disconnect returns, disconnect_all goes on.
LEMMA CancelledKeeps ==
    ASSUME IInv, NEW t \in All, Cancelled(t)
    PROVE  IInv' /\ AllDone
<1>1. /\ task[t].at = "closing" /\ live' = live \ {task[t].conn} /\ Aside
      /\ registry' = registry /\ servers' = servers
  BY DEF Cancelled, Aside, events
<1>2. /\ t \in lock.held /\ task[t].at \in InHand /\ task[t].server \in Servers
      /\ task[t].op \in Writes /\ task[t].op \in {"disconnect", "disconnect_all"}
      /\ task[t].at \in InCall
  BY <1>1 DEF IInv, Locks, PhaseOK, InHand, InCall, Writes
<1>3. servers' \in [Servers -> 0 .. MaxConns] /\ live' \subseteq 1 .. MaxConns
  BY <1>1, TypesOf
<1>4. CASE task[t].op = "disconnect"
  <2>1. Moves(t, Home(t)) /\ lock' = Release(lock, t)
    BY <1>4, FinishIs DEF Cancelled
  <2>2. Home(t).conn = 0 /\ Home(t).at \notin InHand /\ Home(t).op # "mark"
    BY HomeIs
  <2>3. Locks' /\ lock' \in LockT
    BY <1>2, <2>1, LocksLeave DEF IInv
  <2>4. Wired'
    BY <1>1, <1>2, <2>1, <2>2, WiredDropped DEF IInv
  <2>5. QED
    BY <1>1, <1>3, <1>4, <2>1, <2>2, <2>3, <2>4, Moved, TypesOf DEF Aside, Callable
<1>5. CASE task[t].op # "disconnect"
  <2>1. task' = [task EXCEPT ![t].at = "wait", ![t].conn = 0] /\ lock' = lock
    BY <1>5 DEF Cancelled
  <2>2. PICK x : /\ Moves(t, x) /\ x.at = "wait" /\ x.conn = 0 /\ x.op = task[t].op
                 /\ x.server = task[t].server /\ x.at \in InCall
    <3>1. 0 \in 0 .. MaxConns
      BY McpAssumption
    <3>2. GoOn(t, "wait", 0)
      BY <1>2, <2>1, <3>1 DEF GoOn
    <3>3. QED
      BY <3>2, GoesOn
  <2>3. x.at \notin InHand /\ x.op # "mark"
    BY <1>2, <2>2 DEF InHand
  <2>4. Locks' /\ lock' \in LockT
    BY <1>2, <2>1, <2>2, LocksStay DEF IInv
  <2>5. Wired'
    BY <1>1, <1>2, <2>2, <2>3, WiredDropped DEF IInv
  <2>6. QED
    BY <1>1, <1>2, <1>3, <1>5, <2>2, <2>3, <2>4, <2>5, Moved, TypesOf DEF Aside, Callable
<1>6. QED
  BY <1>4, <1>5

----------------------------------------------------------------------------
(* The handler of what a server asks *)

\* The handler VM starts to run a handler, for a server or the bus, or is done with it.
LEMMA HandlerKeeps ==
    ASSUME IInv, (\E t \in All, k \in Asks : Ask(t, k)) \/ bus_dispatch \/ Served
    PROVE  IInv' /\ AllDone
<1>1. Handler \in All /\ 0 \in 0 .. MaxConns
  BY McpAssumption DEF All
<1>2. PhaseOK(task[Handler])
  BY <1>1 DEF IInv, Locks
<1>3. /\ UNCHANGED <<kind, servers, traced, live, registry, callbacks, lock, channel, notices>>
      /\ task[Handler].at \in {"idle", "run"} /\ asker' \in All \cup {Nobody}
  BY DEF Ask, bus_dispatch, Served, conns, events
<1>4. /\ task[Handler].at \notin InCall /\ task[Handler].conn = 0
      /\ task[Handler].op \notin Writes /\ task[Handler].op # "disconnect_all"
  BY <1>2, <1>3 DEF PhaseOK, InCall, InHand, Writes
<1>5. PICK x : /\ Moves(Handler, x) /\ x.conn = 0 /\ x.op \notin Writes /\ x.op # "mark"
               /\ x.at \notin InCall /\ x.at \notin InHand
  <2>1. CASE (\E t \in All, k \in Asks : Ask(t, k)) \/ bus_dispatch
    <3>1. task' = [task EXCEPT ![Handler] = Home(Handler)]
      BY <2>1 DEF Ask, bus_dispatch, Home
    <3>2. Moves(Handler, Home(Handler))
      BY <1>1, <3>1, HomeIs DEF Moves
    <3>3. QED
      BY <1>1, <3>2, HomeIs
  <2>2. CASE Served
    <3>1. PICK y : y = Idle
      OBVIOUS
    <3>2. task' = [task EXCEPT ![Handler] = y]
      BY <2>2, <3>1 DEF Served
    <3>3. y \in TaskT /\ y.at = "idle" /\ y.op = "none" /\ y.conn = 0
      BY <1>1, <3>1 DEF Idle, TaskT
    <3>4. Moves(Handler, y)
      BY <3>2, <3>3 DEF Moves, PhaseOK, InCall
    <3>5. QED
      BY <3>3, <3>4 DEF InCall, InHand, Writes
  <2>3. QED
    BY <2>1, <2>2
<1>6. Locks' /\ lock' \in LockT
  BY <1>1, <1>3, <1>4, <1>5, LocksStay DEF IInv
<1>7. Wired'
  BY <1>1, <1>3, <1>4, <1>5, WiredQuiet DEF IInv
<1>8. counts' \in CountT
  <2>1. counts \in CountT
    BY TypesOf
  <2>2. CASE \E t \in All, k \in Asks : Ask(t, k)
    <3>1. PICK m : m = counts.asks - 1
      OBVIOUS
    <3>2. counts' = [counts EXCEPT !.asks = m] /\ counts.asks > 0
      BY <2>2, <3>1 DEF Ask
    <3>3. m \in Nat
      BY <2>1, <3>1, <3>2 DEF CountT
    <3>4. QED
      BY <2>1, <3>2, <3>3 DEF CountT
  <2>3. CASE Served
    BY <2>1, <2>3 DEF Served
  <2>4. CASE bus_dispatch
    <3>1. PICK m : m = counts.buses - 1
      OBVIOUS
    <3>2. counts' = [counts EXCEPT !.buses = m] /\ counts.buses > 0
      BY <2>4, <3>1 DEF bus_dispatch
    <3>3. m \in Nat
      BY <2>1, <3>1, <3>2 DEF CountT
    <3>4. QED
      BY <2>1, <3>2, <3>3 DEF CountT
  <2>5. QED
    BY <2>2, <2>3, <2>4
<1>9. QED
  BY <1>1, <1>3, <1>4, <1>5, <1>6, <1>7, <1>8, Moved, TypesOf DEF Callable

----------------------------------------------------------------------------
(* What a server tells *)

\* The steps of notifications leave calls and connections alone.
LEMMA NoticesKeep ==
    ASSUME IInv, UNCHANGED <<kind, conns, registry, callbacks, task, lock, asker>>,
           counts' \in CountT, Len(channel') <= Capacity, Delivery'
    PROVE  IInv' /\ AllDone
<1>1. servers' = servers /\ traced' = traced /\ live' = live
  BY DEF conns
<1>2. Types'
  BY <1>1 DEF IInv, Types, TypeOK, CountT
<1>3. Locks'
  BY DEF IInv, Locks, Busy, Writers
<1>4. Wired' /\ Marks'
  BY <1>1 DEF IInv, Wired, NoOrphans, Marks, MarkedIsCallable, Callable
<1>5. AllDone
  BY DEF AllDone
<1>6. QED
  BY <1>2, <1>3, <1>4, <1>5 DEF IInv

\* Concatenation of notifications, in the form the order of delivery needs.
LEMMA ItemsAssociate ==
    ASSUME NEW s \in Seq(Item), NEW t \in Seq(Item), NEW u \in Seq(Item)
    PROVE  (s \o t) \o u = s \o (t \o u)
BY ConcatAssociative

\* A notification goes onto the channel, or is dropped.
LEMMA NotifyKeeps ==
    ASSUME IInv, NEW k, NEW c, Notify(k, c)
    PROVE  IInv' /\ AllDone
<1> DEFINE s == CHOOSE n \in Servers : servers[n] = c
           item == [server |-> s, n |-> counts.notes]
<1>1. /\ counts.notes > 0 /\ (\E n \in Servers : servers[n] = c)
      /\ counts' = [counts EXCEPT !.notes = counts.notes - 1]
      /\ UNCHANGED <<kind, conns, registry, callbacks, task, lock, asker>>
      /\ \/ UNCHANGED events
         \/ Len(channel) < Capacity /\ Accept(item)
  BY DEF Notify, try_send
<1>2. s \in Servers
  BY <1>1
<1>3. counts \in CountT
  BY TypesOf
<1>4. item \in Item
  BY <1>2, <1>3 DEF Item, CountT
<1> HIDE DEF item, s
<1>5. counts' \in CountT
  <2>1. PICK m : m = counts.notes - 1
    OBVIOUS
  <2>2. m \in Nat
    BY <1>1, <1>3, <2>1 DEF CountT
  <2>3. counts' = [counts EXCEPT !.notes = m]
    BY <1>1, <2>1
  <2>4. QED
    BY <1>3, <2>2, <2>3 DEF CountT
<1>6. /\ channel \in Seq(Item) /\ notices \in [accepted : Seq(Item), running : Seq(Item),
                                               delivered : Seq(Item)]
      /\ Len(notices.running) <= 1 /\ Len(channel) <= Capacity
      /\ notices.accepted = (notices.delivered \o notices.running) \o channel
  BY DEF IInv, Delivery, DeliveredInOrder, Types, TypeOK
<1>7. CASE UNCHANGED events
  <2>1. channel' = channel /\ notices' = notices
    BY <1>7 DEF events
  <2>2. Delivery'
    BY <2>1 DEF IInv, Delivery, DeliveredInOrder
  <2>3. QED
    BY <1>1, <1>5, <1>6, <2>1, <2>2, NoticesKeep
<1>8. CASE Len(channel) < Capacity /\ Accept(item)
  <2>1. PICK a, r, d : a = notices.accepted /\ r = notices.running /\ d = notices.delivered
    OBVIOUS
  <2>2. a \in Seq(Item) /\ r \in Seq(Item) /\ d \in Seq(Item)
    BY <1>6, <2>1
  <2>3. /\ channel' = Append(channel, item) /\ notices'.accepted = Append(a, item)
        /\ notices'.running = r /\ notices'.delivered = d
        /\ notices' = [notices EXCEPT !.accepted = Append(a, item)]
    BY <1>6, <1>8, <2>1 DEF Accept
  <2>4. Append(a, item) = (d \o r) \o Append(channel, item)
    <3>1. PICK e : e = d \o r
      OBVIOUS
    <3>2. e \in Seq(Item) /\ a = e \o channel
      BY <1>6, <2>1, <2>2, <3>1
    <3>3. Append(e \o channel, item) = e \o Append(channel, item)
      <4>1. e \o channel \in Seq(Item) /\ <<item>> \in Seq(Item)
        BY <1>4, <1>6, <3>2
      <4>2. Append(e \o channel, item) = (e \o channel) \o <<item>>
        BY <1>4, <4>1, AppendIsConcat
      <4>3. Append(channel, item) = channel \o <<item>>
        BY <1>4, <1>6, AppendIsConcat
      <4>4. (e \o channel) \o <<item>> = e \o (channel \o <<item>>)
        <5>1. e \in Seq(Item) /\ channel \in Seq(Item) /\ <<item>> \in Seq(Item)
          BY <1>6, <3>2, <4>1
        <5>2. QED
          BY <5>1, ItemsAssociate, ZenonT(40)
      <4>5. QED
        BY <4>2, <4>3, <4>4
    <3>4. QED
      BY <3>1, <3>2, <3>3
  <2>5. Append(a, item) \in Seq(Item) /\ Append(channel, item) \in Seq(Item)
    BY <1>4, <1>6, <2>2
  <2>6. PICK b : b = Append(a, item)
    OBVIOUS
  <2>7. notices' \in [accepted : Seq(Item), running : Seq(Item), delivered : Seq(Item)]
    BY <1>6, <2>3, <2>5, <2>6
  <2>8. Delivery'
    BY <1>6, <2>1, <2>3, <2>4, <2>5, <2>7 DEF Delivery, DeliveredInOrder
  <2>9. Len(channel') <= Capacity
    BY <1>4, <1>6, <1>8, <2>3, McpAssumption
  <2>10. QED
    BY <1>1, <1>5, <2>8, <2>9, NoticesKeep
<1>9. QED
  BY <1>1, <1>7, <1>8

\* The dispatch task takes the next notification when no callback runs.
LEMMA DispatchKeeps ==
    ASSUME IInv, start_dispatch_task
    PROVE  IInv' /\ AllDone
<1>1. /\ channel # << >> /\ notices.running = << >> /\ channel' = Tail(channel)
      /\ notices' = [notices EXCEPT !.running = <<Head(channel)>>]
      /\ UNCHANGED <<kind, conns, registry, callbacks, task, lock, asker, counts>>
  BY DEF start_dispatch_task
<1>2. /\ channel \in Seq(Item) /\ notices \in [accepted : Seq(Item), running : Seq(Item),
                                               delivered : Seq(Item)]
      /\ Len(channel) <= Capacity /\ Capacity \in Nat
      /\ notices.accepted = (notices.delivered \o notices.running) \o channel
  BY McpAssumption DEF IInv, Delivery, DeliveredInOrder, Types, TypeOK
<1>3. PICK a, d, h, r : /\ a = notices.accepted /\ d = notices.delivered
                        /\ h = Head(channel) /\ r = <<h>>
  OBVIOUS
<1>4. /\ a \in Seq(Item) /\ d \in Seq(Item) /\ h \in Item /\ Tail(channel) \in Seq(Item)
      /\ Len(channel) \in Nat /\ Len(Tail(channel)) = Len(channel) - 1
  BY <1>1, <1>2, <1>3
<1>5. r \in Seq(Item) /\ Len(r) = 1
  BY <1>3, <1>4
<1>6. channel = r \o Tail(channel)
  BY <1>1, <1>2, <1>3, <1>4, <1>5
<1>7. a = (d \o r) \o Tail(channel)
  <2>1. a = d \o channel
    BY <1>1, <1>2, <1>3, <1>4, ConcatEmptySeq
  <2>2. (d \o r) \o Tail(channel) = d \o (r \o Tail(channel))
    BY <1>4, <1>5, ItemsAssociate
  <2>3. QED
    BY <1>6, <2>1, <2>2
<1>8. /\ notices' = [notices EXCEPT !.running = r] /\ notices'.running = r
      /\ notices'.accepted = a /\ notices'.delivered = d
  BY <1>1, <1>2, <1>3
<1>9. notices' \in [accepted : Seq(Item), running : Seq(Item), delivered : Seq(Item)]
  BY <1>2, <1>5, <1>8
<1>10. Delivery' /\ Len(channel') <= Capacity
  <2>1. DeliveredInOrder'
    BY <1>1, <1>7, <1>8 DEF DeliveredInOrder
  <2>2. channel' \in Seq(Item) /\ Len(channel') <= Capacity /\ Len(notices'.running) <= 1
    BY <1>1, <1>2, <1>4, <1>5, <1>8
  <2>3. QED
    BY <1>9, <2>1, <2>2 DEF Delivery
<1>11. counts' \in CountT
  BY <1>1, TypesOf
<1>12. QED
  BY <1>1, <1>10, <1>11, NoticesKeep

\* The callback ends, and its notification is delivered.
LEMMA CallbackKeeps ==
    ASSUME IInv, NEW i \in DOMAIN notices.running, CallbackEnds(i)
    PROVE  IInv' /\ AllDone
<1>1. PICK a, r, d : a = notices.accepted /\ r = notices.running /\ d = notices.delivered
  OBVIOUS
<1>2. /\ notices' = [notices EXCEPT !.running = RemoveAt(r, i), !.delivered = Append(d, r[i])]
      /\ channel' = channel
      /\ UNCHANGED <<kind, conns, registry, callbacks, task, lock, asker, counts>>
  BY <1>1 DEF CallbackEnds
<1>3. /\ channel \in Seq(Item) /\ notices \in [accepted : Seq(Item), running : Seq(Item),
                                               delivered : Seq(Item)]
      /\ Len(channel) <= Capacity /\ Len(r) <= 1 /\ a = (d \o r) \o channel
      /\ a \in Seq(Item) /\ r \in Seq(Item) /\ d \in Seq(Item) /\ i \in DOMAIN r
  BY <1>1 DEF IInv, Delivery, DeliveredInOrder, Types, TypeOK
<1>4. Len(r) = 1 /\ i = 1 /\ r[i] \in Item
  <2>1. DOMAIN r = 1 .. Len(r) /\ Len(r) \in Nat
    BY <1>3
  <2>2. i \in 1 .. Len(r) /\ Len(r) <= 1
    BY <1>3, <2>1
  <2>3. QED
    BY <1>3, <2>1, <2>2, ElementOfSeq
<1>5. r = <<r[i]>>
  BY <1>3, <1>4
<1>6. RemoveAt(r, i) = << >>
  <2>1. SubSeq(r, 1, 0) = << >> /\ SubSeq(r, 2, 1) = << >>
    BY <1>3, <1>4
  <2>2. RemoveAt(r, i) = << >> \o << >>
    BY <1>4, <2>1 DEF RemoveAt
  <2>3. << >> \in Seq(Item)
    OBVIOUS
  <2>4. QED
    BY <2>2, <2>3, ConcatEmptySeq
<1>7. PICK e, z : e = Append(d, r[i]) /\ z = << >>
  OBVIOUS
<1>8. e \in Seq(Item) /\ z \in Seq(Item) /\ Len(z) = 0 /\ e \o z = e
  BY <1>3, <1>4, <1>7, ConcatEmptySeq
<1>9. e = d \o r
  BY <1>3, <1>4, <1>5, <1>7, AppendIsConcat
<1>10. /\ notices' = [notices EXCEPT !.running = z, !.delivered = e]
       /\ notices'.running = z /\ notices'.delivered = e /\ notices'.accepted = a
  BY <1>1, <1>2, <1>3, <1>6, <1>7
<1>11. notices' \in [accepted : Seq(Item), running : Seq(Item), delivered : Seq(Item)]
  BY <1>3, <1>8, <1>10
<1>12. Delivery' /\ Len(channel') <= Capacity
  <2>1. a = (e \o z) \o channel
    BY <1>3, <1>8, <1>9
  <2>2. DeliveredInOrder'
    BY <1>2, <1>10, <2>1 DEF DeliveredInOrder
  <2>3. channel' \in Seq(Item) /\ Len(channel') <= Capacity /\ Len(notices'.running) <= 1
    BY <1>2, <1>3, <1>8, <1>10
  <2>4. QED
    BY <1>11, <2>2, <2>3 DEF Delivery
<1>13. counts' \in CountT
  BY <1>2, TypesOf
<1>14. QED
  BY <1>2, <1>12, <1>13, NoticesKeep

----------------------------------------------------------------------------
(* Every step *)

\* The initial states: nothing is connected, nobody calls.
LEMMA InitHolds == Init => IInv
<1> SUFFICES ASSUME Init PROVE IInv
  OBVIOUS
<1>1. 0 \in 0 .. MaxConns /\ Capacity \in Nat /\ MaxConns \in Nat
  BY McpAssumption
<1>2. PICK b \in Budgets : counts = [b EXCEPT !.conns = 0] /\ kind \in b.kinds
  BY DEF Init
<1>3. b \in CountT
  BY McpAssumption DEF CountT
<1>4. counts \in CountT /\ kind \in Kinds
  BY <1>2, <1>3 DEF CountT
<1>5. /\ Idle \in TaskT /\ Idle.at = "idle" /\ Idle.op = "none" /\ Idle.conn = 0
  BY <1>1 DEF Idle, TaskT
<1>6. \A t \in All : task[t] = Idle
  BY DEF Init
<1>7. task \in [All -> TaskT]
  BY <1>5 DEF Init
<1>8. lock \in LockT /\ lock.held = {} /\ lock.excl = FALSE /\ lock.queue = << >>
  BY DEF Init, LockT
<1>9. /\ servers \in [Servers -> 0 .. MaxConns] /\ live = {} /\ traced = {}
      /\ registry \in [Servers -> MarkT] /\ callbacks \in [Servers -> SUBSET VMs]
      /\ (\A s \in Servers : servers[s] = 0 /\ ~registry[s].marked)
      /\ asker = Nobody
  BY <1>1 DEF Init, MarkT, NoCallbacks
<1>10. channel = << >> /\ Len(channel) = 0
  BY DEF Init
<1>11. Types
  <2>1. \A t \in All : /\ task[t].at \in {"idle", "run", "flag", "wait", "flight", "closing"}
                       /\ task[t].op \in Reads \cup Writes \cup {"none", "handler"}
    BY <1>5, <1>6
  <2>2. Len(channel) <= Capacity
    BY <1>1, <1>10
  <2>3. TypeOK
    BY <1>4, <1>8, <1>9, <2>1, <2>2 DEF TypeOK, MarkT
  <2>4. QED
    BY <1>4, <1>7, <1>8, <2>3 DEF Types, CountT
<1>12. Locks
  <2>1. PhaseOK(Idle) /\ Idle.at \notin InHand
    BY <1>5 DEF PhaseOK, InCall, InHand
  <2>2. Locked(lock, Busy, Writers)
    BY <1>8 DEF Locked
  <2>3. QED
    BY <1>6, <2>1, <2>2 DEF Locks
<1>13. Wired
  BY <1>5, <1>6, <1>9 DEF Wired, NoOrphans, InHand
<1>14. Marks
  BY <1>5, <1>6, <1>9 DEF Marks, MarkedIsCallable
<1>15. Delivery
  <2>1. /\ notices.accepted = << >> /\ notices.running = << >> /\ notices.delivered = << >>
        /\ notices = [accepted |-> << >>, running |-> << >>, delivered |-> << >>]
    BY DEF Init
  <2>2. << >> \in Seq(Item) /\ Len(<< >>) = 0 /\ (<< >> \o << >>) \o << >> = << >>
    BY ConcatEmptySeq
  <2>3. notices \in [accepted : Seq(Item), running : Seq(Item), delivered : Seq(Item)]
    BY <2>1, <2>2
  <2>4. QED
    BY <1>10, <2>1, <2>2, <2>3 DEF Delivery, DeliveredInOrder
<1>16. QED
  BY <1>11, <1>12, <1>13, <1>14, <1>15 DEF IInv

\* A call of the bridge is a beginning of one kind or another.
LEMMA CallKeeps ==
    ASSUME IInv, NEW t \in All, NEW s \in Servers, Call(t, s)
    PROVE  IInv' /\ AllDone
<1>1. CASE \E op \in {"ask", "tell", "connect", "disconnect", "disconnect_all"} :
             BeginRead(t, op, s)
  <2>1. PICK op \in {"ask", "tell", "connect", "disconnect", "disconnect_all"} :
          BeginRead(t, op, s)
    BY <1>1
  <2>2. /\ op \in Reads \cup Writes /\ op # "mark" /\ Begin(t, op, s, "wait")
        /\ callbacks' = callbacks
    BY <2>1 DEF BeginRead, Reads, Writes
  <2>3. QED
    BY <2>2, BeginKeeps
<1>2. CASE mcp_call(t, s)
  <2>1. /\ "call" \in Reads \cup Writes /\ Begin(t, "call", s, "flag") /\ callbacks' = callbacks
    BY <1>2 DEF mcp_call, Reads
  <2>2. QED
    BY <2>1, BeginKeeps
<1>3. CASE \E k \in Kinds : Register(t, s, k)
  <2>1. /\ "mark" \in Reads \cup Writes /\ Begin(t, "mark", s, "wait")
        /\ \E k \in Kinds : Register(t, s, k)
    BY <1>3 DEF Register, Reads
  <2>2. QED
    BY <2>1, BeginKeeps
<1>4. \/ \E op \in {"ask", "tell", "connect", "disconnect", "disconnect_all"} :
             BeginRead(t, op, s)
      \/ mcp_call(t, s)
      \/ \E k \in Kinds : Register(t, s, k)
  BY DEF Call, Kinds, Notices, Asks, mcp_list_tools, mcp_list_resources,
         mcp_list_resource_templates,
         mcp_read_resource, mcp_list_prompts, mcp_get_prompt, mcp_complete, mcp_subscribe,
         mcp_unsubscribe, mcp_ping, mcp_server_info, mcp_cancel, mcp_notify_roots, mcp_connect,
         mcp_connect_http, mcp_disconnect, manager_disconnect_all, mcp_on_progress, mcp_on_log,
         mcp_on_resource_update, mcp_on_resources_list_changed, mcp_on_tools_list_changed,
         mcp_on_prompts_list_changed, mcp_set_sampling_handler, mcp_set_roots_handler,
         mcp_set_elicitation_handler
<1>5. QED
  BY <1>1, <1>2, <1>3, <1>4

\* What goes on under the lock.
LEMMA AnswersKeep ==
    ASSUME IInv, NEW t \in All, Answers(t)
    PROVE  IInv' /\ AllDone
<1>1. \/ trace_context_enabled(t)
      \/ \E op \in {"ask", "call"}, b \in BOOLEAN : Lookup(t, op, b)
      \/ Tell(t) \/ (\E k \in Kinds : Mark(t, k)) \/ (\E b \in BOOLEAN : Handshake(t, b))
      \/ Connected(t) \/ disconnect(t) \/ disconnect_all(t) \/ Cancelled(t)
  BY DEF Answers, Registered, Kinds, Notices, Asks, list_tools, list_resources,
         list_resource_templates, read_resource, list_prompts, subscribe, unsubscribe, ping,
         get_prompt, complete, call_tool, server_info, send_cancelled,
         notify_roots_list_changed, mark_on_progress, mark_on_log, mark_on_resource_updated,
         mark_on_resource_list_changed, mark_on_tool_list_changed, mark_on_prompt_list_changed,
         mark_sampling, mark_roots, mark_elicitation, connect, connect_http
<1>2. QED
  BY <1>1, TraceKeeps, LookupKeeps, TellKeeps, MarkKeeps, HandshakeKeeps, ConnectedKeeps,
     DisconnectKeeps, DisconnectAllKeeps, CancelledKeeps

\* Every step keeps the invariant, and is one that AllMeansAll allows.
LEMMA NextKeeps == IInv /\ [Next]_vars => IInv' /\ (AllDone \/ UNCHANGED vars)
<1> SUFFICES ASSUME IInv, [Next]_vars PROVE IInv' /\ (AllDone \/ UNCHANGED vars)
  OBVIOUS
<1>1. CASE UNCHANGED vars
  <2>1. counts' \in CountT /\ Len(channel') <= Capacity
    BY <1>1, TypesOf DEF vars, IInv, Types, TypeOK
  <2>2. Delivery'
    BY <1>1 DEF vars, IInv, Delivery, DeliveredInOrder
  <2>3. UNCHANGED <<kind, conns, registry, callbacks, task, lock, asker>>
    BY <1>1 DEF vars, conns
  <2>4. QED
    BY <1>1, <2>1, <2>2, <2>3, NoticesKeep
<1>2. ASSUME NEW t \in All, (\E s \in Servers : Call(t, s)) \/ Answers(t) \/ Answer(t) \/ Timeout(t)
      PROVE  IInv' /\ AllDone
  BY <1>2, CallKeeps, AnswersKeep, AnswerKeeps
<1>3. CASE (\E t \in All : create_message(t) \/ list_roots(t) \/ create_elicitation(t)) \/ bus_dispatch \/ Served
  <2>1. (\E t \in All, k \in Asks : Ask(t, k)) \/ bus_dispatch \/ Served
    BY <1>3 DEF create_message, list_roots, create_elicitation, Asks
  <2>2. QED
    BY <2>1, HandlerKeeps
<1>4. CASE start_dispatch_task
  BY <1>4, DispatchKeeps
<1>5. CASE \E i \in DOMAIN notices.running : CallbackEnds(i)
  BY <1>5, CallbackKeeps
<1>6. CASE \E c \in live : Told(c)
  <2>1. \E k, c : Notify(k, c)
    BY <1>6 DEF Told, on_progress, on_logging_message, on_resource_updated,
                on_resource_list_changed, on_tool_list_changed, on_prompt_list_changed
  <2>2. QED
    BY <2>1, NotifyKeeps
<1>7. QED
  BY <1>1, <1>2, <1>3, <1>4, <1>5, <1>6 DEF Next

----------------------------------------------------------------------------
(* The theorems *)

\* The inductive invariant: the lock has one writer or readers only, who has a connection in
\* hand holds the lock, and the map, the services and the marks agree.
THEOREM Inductive == Spec => []IInv
<1>1. Init => IInv
  BY InitHolds
<1>2. IInv /\ [Next]_vars => IInv'
  BY NextKeeps
<1>3. QED
  BY <1>1, <1>2, PTL DEF Spec

\* A request in flight keeps its connection, no service runs that nobody owns, and no mark is
\* set before its function is in the table of a VM that registered it (bridge/mcp.rs, agent-block-mcp/src/lib.rs).
THEOREM WholeConnections == Spec => []ConnectionsWhole
<1>1. IInv => ConnectionsWhole
  <2>1. SUFFICES ASSUME IInv PROVE ConnectionsWhole
    OBVIOUS
  <2>2. FlightKeepsConnection
    <3>1. SUFFICES ASSUME NEW t \in All, task[t].at = "flight", task[t].op \in {"ask", "call"}
                   PROVE  task[t].conn \in live /\ servers[task[t].server] = task[t].conn
      BY DEF FlightKeepsConnection
    <3>2. task[t].conn # 0 /\ servers[task[t].server] = task[t].conn
      BY <2>1, <3>1 DEF IInv, Wired
    <3>3. task[t].server \in Servers
      BY <2>1, <3>1 DEF IInv, Locks, PhaseOK, InCall
    <3>4. QED
      BY <2>1, <3>2, <3>3 DEF IInv, Wired
  <2>3. QED
    BY <2>1, <2>2 DEF IInv, Types, Wired, Marks, ConnectionsWhole
<1>2. QED
  BY <1>1, Inductive, PTL

\* Notifications reach their callbacks in the order the channel accepted them, each once
\* (handler.rs, the dispatch task of lib.rs).
THEOREM OrderedDelivery == Spec => []DeliveredInOrder
<1>1. IInv => DeliveredInOrder
  BY DEF IInv, Delivery
<1>2. QED
  BY <1>1, Inductive, PTL

\* disconnect_all returns only when no connection is left (disconnect_all of lib.rs).
THEOREM AllIsAll == Spec => AllMeansAll
<1>1. IInv /\ [Next]_vars => [AllDone]_vars
  BY NextKeeps
<1>2. [AllDone]_vars =>
        [\A t \in All : task[t].op = "disconnect_all" /\ task'[t].op # "disconnect_all" =>
            \A s \in Servers : servers'[s] = 0]_vars
  BY DEF AllDone
<1>3. Spec => [][AllDone]_vars
  BY <1>1, Inductive, PTL DEF Spec
<1>4. QED
  BY <1>2, <1>3, PTL DEF AllMeansAll
=============================================================================
