---------------------------- MODULE KnlTreeProofs ----------------------------
(***************************************************************************)
(* Theorems about the whole tree of sessions: a child and the reservation  *)
(* that pays for it exist together, an ending accounts for every child,    *)
(* the logs implement the accounts of KnlAccounts, and no unit of budget   *)
(* is ever there twice.                                                    *)
(*                                                                         *)
(* The argument has two halves.  LogMoves sorts the steps of every handle  *)
(* by what they do to the logs: nothing, a stream begins, one event is     *)
(* appended to a stream that has begun, or a child is allocated.  The      *)
(* theorems are then about those four moves, and not about the actions.    *)
(*                                                                         *)
(* Conservation also needs sums: a sum over a finite set does not depend   *)
(* on the order in which its terms are taken (SumsCongruent), and grows by *)
(* one term with one element (SumInsert).  So the units change, with every *)
(* event written, by that event's Gain, and no move has a positive one.    *)
(***************************************************************************)
EXTENDS KnlSessionProofs, KnlUnits

----------------------------------------------------------------------------
(* Handles are on streams that have begun *)

Rooted == \A h \in Handles : handle[h].pc # "free" => log[handle[h].stream] # << >>

\* A log that has begun stays begun.
LEMMA BegunStays ==
    ASSUME TypeInv, Grows, NEW s \in Streams, log[s] # << >>
    PROVE  log'[s] # << >>
<1>1. log[s] \in Seq(Event)
  BY DEF TypeInv, TypeOK
<1>2. PICK w \in Seq(Event) : log'[s] = log[s] \o w
  BY DEF Grows
<1>3. Len(log[s]) > 0
  BY <1>1, EmptySeq
<1>4. Len(log'[s]) > 0
  BY <1>1, <1>2, <1>3
<1>5. QED
  BY <1>4

\* What a step may make of one handle: nothing, the same stream's handle, or a
\* handle on a stream that has begun.
Roots(old, new) ==
    \/ new.pc = "free"
    \/ old.pc # "free" /\ new.stream = old.stream
    \/ log'[new.stream] # << >>

\* A step that does only that to every handle leaves them all rooted.
LEMMA RootsAll ==
    ASSUME TypeInv, Grows, Rooted, \A k \in Handles : Roots(handle[k], handle'[k])
    PROVE  Rooted'
<1>1. ASSUME NEW k \in Handles, handle'[k].pc # "free"
      PROVE  log'[handle'[k].stream] # << >>
  <2>1. CASE handle[k].pc # "free" /\ handle'[k].stream = handle[k].stream
    <3>1. handle[k].stream \in Streams /\ log[handle[k].stream] # << >>
      BY <2>1 DEF TypeInv, Placed, Rooted
    <3>2. QED
      BY <2>1, <3>1, BegunStays
  <2>2. QED
    BY <1>1, <2>1 DEF Roots
<1>2. QED
  BY <1>1 DEF Rooted

\* A step that changes one handle, or ends a call.
LEMMA RootsOne ==
    ASSUME TypeInv, Grows, Rooted, NEW h \in Handles, NEW new,
           handle' = [handle EXCEPT ![h] = new] \/ Done(h, new),
           Roots(handle[h], new)
    PROVE  Rooted'
<1>1. ASSUME NEW k \in Handles PROVE Roots(handle[k], handle'[k])
  <2>1. handle[k] \in Handle
    BY DEF TypeInv, TypeOK
  <2>2. Roots(handle[k], handle[k])
    BY DEF Roots
  <2>3. CASE k = h
    BY <2>3 DEF TypeInv, TypeOK, Done
  <2>4. CASE k # h /\ handle'[k] = handle[k]
    BY <2>2, <2>4
  <2>5. CASE k # h /\ handle'[k] # handle[k]
    <3>1. k = handle[h].from /\ handle'[k] = [handle[k] EXCEPT !.pc = "idle"]
      BY <2>5 DEF TypeInv, TypeOK, Done
    <3>2. handle[k].pc = "lent"
      BY <3>1, SessionAssumption DEF TypeInv, Lent
    <3>3. handle'[k].stream = handle[k].stream
      BY <2>1, <3>1 DEF Handle
    <3>4. QED
      BY <3>2, <3>3 DEF Roots
  <2>6. QED
    BY <2>3, <2>4, <2>5
<1>2. QED
  BY <1>1, RootsAll

\* Every action keeps the handles rooted.
LEMMA RootedStep ==
    ASSUME TypeInv, Rooted, Next
    PROVE  Rooted'
<1>1. TypeInv' /\ Grows
  BY StepType
<1>2. CASE Crash
  <2>1. \A h \in Handles : handle'[h].pc = "free"
    BY <1>2, FreeType DEF Crash
  <2>2. QED
    BY <2>1 DEF Rooted
<1>3. ASSUME NEW h \in Handles, HandleStep(h) PROVE Rooted'
  <2>1. handle[h] \in Handle
    BY DEF TypeInv, TypeOK
  <2>2. Roots(handle[h], Free)
    BY FreeType DEF Roots
  <2>3. ASSUME UNCHANGED handle PROVE Rooted'
    <3>1. \A k \in Handles : Roots(handle[k], handle'[k])
      BY <2>3 DEF Roots
    <3>2. QED
      BY <1>1, <3>1, RootsAll
  <2>4. ASSUME NEW t \in Streams, NEW g \in Grants, open_on(h, t, g) PROVE Rooted'
    <3> DEFINE new == [Free EXCEPT !.pc = "idle", !.stream = t]
               w == IF g = NoLedger THEN <<opened_event>>
                                    ELSE <<opened_event, granted_event(g)>>
    <3>1. (handle' = [handle EXCEPT ![h] = new] \/ UNCHANGED handle) /\ Write(t, w)
          /\ log[t] = << >>
      BY <2>4 DEF open_on
    <3>2. new.stream = t
      BY DEF Free
    <3>3. log'[t] # << >>
      <4>1. Len(w) > 0 /\ w \in Seq({opened_event, granted_event(g)})
        <5>1. CASE g = NoLedger
          BY <5>1
        <5>2. CASE g # NoLedger
          BY <5>2
        <5>3. QED
          BY <5>1, <5>2
      <4> HIDE DEF w
      <4>2. log'[t] = << >> \o w
        BY <3>1 DEF Write, TypeInv, TypeOK
      <4>3. Len(<< >> \o w) > 0
        BY <4>1, ConcatEmptySeq
      <4>4. QED
        BY <4>2, <4>3
    <3> HIDE DEF new
    <3>4. Roots(handle[h], new)
      BY <3>2, <3>3 DEF Roots
    <3>5. QED
      BY <1>1, <2>3, <3>1, <3>4, RootsOne
  <2>5. ASSUME NEW t \in Streams, NEW g \in Grants, resume_read(h, t, g) PROVE Rooted'
    <3> DEFINE new == [Free EXCEPT !.pc = "read", !.stream = t, !.grant = g,
                                   !.head = Len(log[t]), !.bal = fold_balance(log[t])]
    <3>1. handle' = [handle EXCEPT ![h] = new] /\ log' = log /\ HasOpened(log[t])
      BY <2>5 DEF resume_read
    <3>2. new.stream = t
      BY DEF Free
    <3>3. log'[t] # << >>
      BY <3>1 DEF HasOpened
    <3> HIDE DEF new
    <3>4. Roots(handle[h], new)
      BY <3>2, <3>3 DEF Roots
    <3>5. QED
      BY <1>1, <3>1, <3>4, RootsOne
  <2>6. ASSUME resume_check(h) PROVE Rooted'
    <3> DEFINE vetted == [handle[h] EXCEPT
                            !.pc = IF handle[h].grant = NoLedger THEN "idle" ELSE "grant",
                            !.from = NoHandle]
               new == IF HasEnded(log[StreamOf(h)]) THEN Free ELSE vetted
    <3>1. handle[h].pc = "read" /\ Done(h, new)
      BY <2>6 DEF resume_check
    <3>2. vetted.stream = handle[h].stream
      BY <2>1 DEF Handle
    <3> HIDE DEF vetted
    <3>3. Roots(handle[h], new)
      BY <2>2, <3>1, <3>2 DEF Roots
    <3> HIDE DEF new
    <3>4. QED
      BY <1>1, <3>1, <3>3, RootsOne
  <2>7. ASSUME grant_more(h) PROVE Rooted'
    <3> DEFINE new == [handle[h] EXCEPT !.pc = "idle", !.grant = NoLedger]
    <3>1. handle[h].pc = "grant" /\ (Done(h, new) \/ Done(h, Free))
      BY <2>7 DEF grant_more
    <3>2. new.stream = handle[h].stream
      BY <2>1 DEF Handle
    <3> HIDE DEF new
    <3>3. Roots(handle[h], new)
      BY <3>1, <3>2 DEF Roots
    <3>4. QED
      BY <1>1, <2>2, <3>1, <3>3, RootsOne
  <2>8. ASSUME NEW p \in Handles, NEW c \in Streams, NEW a \in Amounts,
               open_child(p, h, c, a)
        PROVE  Rooted'
    <3>1. handle[p].pc = "idle" /\ (ChildRefused(p, h, c, a) \/ ChildOpened(p, h, c, a))
      BY <2>8, OpenChildForm
    <3>2. CASE ChildRefused(p, h, c, a)
      BY <2>3, <3>2 DEF ChildRefused
    <3>3. CASE ChildOpened(p, h, c, a)
      <4> DEFINE child == [Free EXCEPT !.pc = "child", !.stream = c, !.from = p]
                 ps == StreamOf(p)
                 born == <<child_opened_event(ps), child_granted_event(a, ps)>>
      <4>1. /\ handle'[h] = child
            /\ handle'[p] = [handle[p] EXCEPT !.pc = "lent"]
            /\ \A k \in Handles : k # h /\ k # p => handle'[k] = handle[k]
            /\ log'[c] = born
        <5>1. AfterChildOpened(p, h, c, a)
          BY <2>8, <3>3, ChildOpenedForm
        <5>2. QED
          BY <5>1 DEF AfterChildOpened
      <4>2. child.stream = c /\ Len(born) = 2
        BY DEF Free
      <4> HIDE DEF child, born
      <4>3. ASSUME NEW k \in Handles PROVE Roots(handle[k], handle'[k])
        <5>1. CASE k = h
          <6>1. log'[c] # << >>
            BY <4>1, <4>2
          <6>2. QED
            BY <4>1, <4>2, <5>1, <6>1 DEF Roots
        <5>2. CASE k # h /\ k = p
          <6>1. handle'[k].stream = handle[k].stream
            BY <4>1, <5>2 DEF TypeInv, TypeOK, Handle
          <6>2. QED
            BY <3>1, <5>2, <6>1 DEF Roots
        <5>3. CASE k # h /\ k # p
          BY <4>1, <5>3 DEF Roots
        <5>4. QED
          BY <5>1, <5>2, <5>3
      <4>4. QED
        BY <1>1, <4>3, RootsAll
    <3>4. QED
      BY <3>1, <3>2, <3>3
  <2>9. ASSUME NEW new, handle' = [handle EXCEPT ![h] = new], handle[h].pc # "free",
               new.stream = handle[h].stream
        PROVE  Rooted'
    <3>1. Roots(handle[h], new)
      BY <2>9 DEF Roots
    <3>2. QED
      BY <1>1, <2>9, <3>1, RootsOne
  <2>10. ASSUME child_read(h) PROVE Rooted'
    <3> DEFINE new == [handle[h] EXCEPT !.pc = "read", !.head = Len(log[StreamOf(h)]),
                                        !.bal = fold_balance(log[StreamOf(h)])]
    <3>1. handle[h].pc = "child" /\ handle' = [handle EXCEPT ![h] = new]
      BY <2>10 DEF child_read, TypeInv, TypeOK
    <3>2. new.stream = handle[h].stream
      BY <2>1 DEF Handle
    <3> HIDE DEF new
    <3>3. QED
      BY <2>9, <3>1, <3>2
  <2>11. ASSUME remaining_head(h) PROVE Rooted'
    <3> DEFINE new == [handle[h] EXCEPT !.pc = "ledger", !.seen = Len(log[StreamOf(h)])]
    <3>1. handle[h].pc = "idle" /\ handle' = [handle EXCEPT ![h] = new]
      BY <2>11 DEF remaining_head, Idle, TypeInv, TypeOK
    <3>2. new.stream = handle[h].stream
      BY <2>1 DEF Handle
    <3> HIDE DEF new
    <3>3. QED
      BY <2>9, <3>1, <3>2
  <2>12. ASSUME remaining_ledger(h) PROVE Rooted'
    <3> DEFINE new == [handle[h] EXCEPT !.pc = "idle", !.head = handle[h].seen,
                                        !.bal = fold_balance(log[StreamOf(h)]), !.seen = 0]
    <3>1. handle[h].pc = "ledger" /\ handle' = [handle EXCEPT ![h] = new]
      BY <2>12 DEF remaining_ledger, TypeInv, TypeOK
    <3>2. new.stream = handle[h].stream
      BY <2>1 DEF Handle
    <3> HIDE DEF new
    <3>3. QED
      BY <2>9, <3>1, <3>2
  <2>13. ASSUME close_with(h) PROVE Rooted'
    <3> DEFINE new == [handle[h] EXCEPT !.closed = TRUE]
    <3>1. handle[h].pc = "idle" /\ (handle' = [handle EXCEPT ![h] = new] \/ UNCHANGED handle)
      BY <2>13 DEF close_with, Open, Idle, TypeInv, TypeOK
    <3>2. new.stream = handle[h].stream
      BY <2>1 DEF Handle
    <3> HIDE DEF new
    <3>3. QED
      BY <2>3, <2>9, <3>1, <3>2
  <2>14. ASSUME drop(h) PROVE Rooted'
    <3> DEFINE queued == [Free EXCEPT !.pc = "dropped", !.stream = StreamOf(h)]
               new == IF handle[h].closed THEN Free ELSE queued
    <3>1. handle' = [handle EXCEPT ![h] = new] /\ handle[h].pc = "idle"
      BY <2>14 DEF drop, Idle
    <3>2. queued.stream = handle[h].stream
      BY DEF Free, StreamOf
    <3> HIDE DEF queued
    <3>3. Roots(handle[h], new)
      BY <2>2, <3>1, <3>2 DEF Roots
    <3> HIDE DEF new
    <3>4. QED
      BY <1>1, <3>1, <3>3, RootsOne
  <2>15. ASSUME close_detached(h) PROVE Rooted'
    <3>1. handle' = [handle EXCEPT ![h] = Free]
      BY <2>15 DEF close_detached
    <3>2. QED
      BY <1>1, <2>2, <3>1, RootsOne
  <2>16. ASSUME GiveUp(h) PROVE Rooted'
    <3> DEFINE idle == [handle[h] EXCEPT !.pc = "idle", !.seen = 0]
               new == IF handle[h].pc = "ledger" THEN idle ELSE Free
    <3>1. Done(h, new)
      BY <2>16 DEF GiveUp
    <3>2. idle.stream = handle[h].stream
      BY <2>1 DEF Handle
    <3> HIDE DEF idle
    <3>3. Roots(handle[h], new)
      BY <2>2, <3>2 DEF Roots
    <3> HIDE DEF new
    <3>4. QED
      BY <1>1, <3>1, <3>3, RootsOne
  <2>17. (append(h) \/ (\E a \in Amounts : reserve(h, a) \/ spend(h, a)))
           => UNCHANGED handle
    BY DEF append, reserve, spend
  <2>18. QED
    BY <1>3, <2>3, <2>4, <2>5, <2>6, <2>7, <2>8, <2>10, <2>11, <2>12, <2>13, <2>14,
       <2>15, <2>16, <2>17 DEF HandleStep
<1>4. QED
  BY <1>2, <1>3 DEF Next

----------------------------------------------------------------------------
(* The moves of the logs *)

\* The events a stream opened by its owner begins with.
FirstEvents(g) ==
    IF g = NoLedger THEN <<opened_event>> ELSE <<opened_event, granted_event(g)>>

\* Only the stream t changes, and to l.
Becomes(t, l) == \A u \in Streams : log'[u] = IF u = t THEN l ELSE log[u]

\* open_on: a stream nobody has written to begins.
Births(t, g) == log[t] = << >> /\ g \in Balance /\ Becomes(t, FirstEvents(g))

\* What any one event appended to t was decided on.
Lawful(t, e) ==
    LET balance == fold_balance(log[t]) IN
    /\ e.kind # KIND_SESSION_OPENED
    /\ e.kind = KIND_BUDGET_RESERVED =>
         e.peer = NoStream /\ balance # NoLedger /\ e.amount <= balance
    /\ e.kind = KIND_BUDGET_SPENT => balance # NoLedger
    /\ e.kind = KIND_BUDGET_GRANTED => e.peer = NoStream
    /\ e.kind = KIND_SESSION_CLOSED =>
         IF e.dropped THEN e.children = {} ELSE e.children = open_children_in(t)

Appends(t, e) ==
    /\ log[t] # << >> /\ e \in Event /\ Lawful(t, e)
    /\ Becomes(t, log[t] \o <<e>>)

\* open_child, when it is not refused: both streams move.
BornOf(p, a) == <<child_opened_event(p), child_granted_event(a, p)>>

Allocates(p, c, a) ==
    LET balance == fold_balance(log[p]) IN
    /\ log[p] # << >> /\ log[c] = << >> /\ ~HasEnded(log[p])
    /\ balance = NoLedger \/ a <= balance
    /\ \A u \in Streams :
         log'[u] = IF u = c THEN BornOf(p, a)
                   ELSE IF u = p THEN log[u] \o <<allocated_event(a, c)>> ELSE log[u]

Moves ==
    \/ UNCHANGED log
    \/ \E t \in Streams : (\E g \in Balance : Births(t, g)) \/ (\E e \in Event : Appends(t, e))
    \/ \E p \in Streams, c \in Streams, a \in 0 .. MaxI64 : Allocates(p, c, a)

\* Appending one event that was decided on is a move.
LEMMA AppendMoves ==
    ASSUME TypeInv, NEW t \in Streams, log[t] # << >>, NEW e \in Event,
           Write(t, <<e>>), Lawful(t, e)
    PROVE  Moves
<1>1. Becomes(t, log[t] \o <<e>>)
  BY DEF Becomes, Write, TypeInv, TypeOK
<1>2. Appends(t, e)
  BY <1>1 DEF Appends
<1>3. QED
  BY <1>2 DEF Moves

\* An event of a kind no decision is about: an owner's grant, a refusal, a note.
LEMMA FreelyLawful ==
    ASSUME NEW t, NEW e,
           \/ e.kind = KIND_BUDGET_GRANTED /\ e.peer = NoStream
           \/ e.kind \in {KIND_BUDGET_REFUSED, KIND_OTHER}
    PROVE  Lawful(t, e)
BY DEF Lawful, KIND_SESSION_OPENED, KIND_SESSION_CLOSED, KIND_BUDGET_GRANTED,
       KIND_BUDGET_RESERVED, KIND_BUDGET_REFUSED, KIND_BUDGET_SPENT, KIND_OTHER

\* Every step of every handle does one of the four things to the logs.
LEMMA LogMoves ==
    ASSUME TypeInv, Rooted, Next
    PROVE  Moves
<1>1. \A t \in Streams : log[t] \in Seq(Event)
  BY DEF TypeInv, TypeOK
<1>2. UNCHANGED log => Moves
  BY DEF Moves
<1>3. Crash => UNCHANGED log
  BY DEF Crash
<1>4. 0 \in 0 .. MaxI64
  BY LedgerAssumption
<1>5. ASSUME NEW h \in Handles, HandleStep(h) PROVE Moves
  <2> DEFINE s == StreamOf(h)
             balance == fold_balance(log[s])
  <2>1. handle[h].pc # "free" => s \in Streams /\ log[s] # << >>
    BY DEF TypeInv, Placed, StreamOf, Rooted
  <2>2. ASSUME NEW t \in Streams, NEW g \in Grants, open_on(h, t, g) PROVE Moves
    <3>1. Write(t, FirstEvents(g)) /\ log[t] = << >> /\ g \in Balance
      BY <2>2, AmountTypes DEF open_on, FirstEvents
    <3>2. FirstEvents(g) \in Seq(Event)
      <4>1. opened_event \in Event
        BY <1>4, EventTypes
      <4>2. CASE g = NoLedger
        BY <4>1, <4>2 DEF FirstEvents
      <4>3. CASE g # NoLedger
        <5>1. granted_event(g) \in Event
          BY <1>4, <4>3, AmountTypes, EventTypes
        <5>2. <<opened_event, granted_event(g)>> \in Seq(Event)
          BY <4>1, <5>1
        <5>3. QED
          BY <4>3, <5>2 DEF FirstEvents
      <4>4. QED
        BY <4>2, <4>3
    <3>3. << >> \o FirstEvents(g) = FirstEvents(g)
      BY <3>2, ConcatEmptySeq
    <3>4. Births(t, g)
      BY <3>1, <3>3 DEF Births, Becomes, Write, TypeInv, TypeOK
    <3>5. QED
      BY <3>1, <3>4 DEF Moves
  <2>3. ASSUME grant_more(h) PROVE Moves
    <3> DEFINE e == granted_event(handle[h].grant)
    <3>1. s \in Streams /\ log[s] # << >> /\ Write(s, <<e>>)
      BY <2>1, <2>3 DEF grant_more
    <3>2. handle[h].grant \in 0 .. MaxI64
      BY <2>3 DEF grant_more, TypeInv, TypeOK, Placed, Handle, Balance
    <3>3. e \in Event
      BY <1>4, <3>1, <3>2, EventTypes
    <3>4. e.kind = KIND_BUDGET_GRANTED /\ e.peer = NoStream
      BY DEF granted_event, kernel_event
    <3> HIDE DEF e
    <3>5. Lawful(s, e)
      BY <3>4, FreelyLawful
    <3>6. QED
      BY <3>1, <3>3, <3>5, AppendMoves
  <2>4. ASSUME NEW p \in Handles, NEW c \in Streams, NEW a \in Amounts,
               open_child(p, h, c, a)
        PROVE  Moves
    <3> DEFINE ps == StreamOf(p)
               pb == fold_balance(log[ps])
    <3>1. /\ ps \in Streams /\ ~HasEnded(log[ps]) /\ log[c] = << >>
          /\ a \in 0 .. MaxI64 /\ handle[p].pc = "idle"
          /\ ChildRefused(p, h, c, a) \/ ChildOpened(p, h, c, a)
      BY <2>4, OpenChildForm
    <3>2. log[ps] # << >>
      BY <3>1 DEF Rooted, StreamOf
    <3>3. CASE ChildRefused(p, h, c, a)
      <4> DEFINE e == allocation_refused_event(a, pb, c)
      <4>1. e \in Event /\ Write(ps, <<e>>)
        BY <3>3 DEF ChildRefused
      <4>2. e.kind = KIND_BUDGET_REFUSED
        BY EventKinds
      <4> HIDE DEF e
      <4>3. Lawful(ps, e)
        BY <4>2, FreelyLawful
      <4>4. QED
        BY <3>1, <3>2, <4>1, <4>3, AppendMoves
    <3>4. CASE ChildOpened(p, h, c, a)
      <4>1. pb = NoLedger \/ a <= pb
        BY <3>4 DEF ChildOpened
      <4>2. \A t \in Streams :
              log'[t] = IF t = c THEN BornOf(ps, a)
                        ELSE IF t = ps THEN log[t] \o <<allocated_event(a, c)>> ELSE log[t]
        <5>1. AfterChildOpened(p, h, c, a)
          BY <2>4, <3>4, ChildOpenedForm
        <5>2. QED
          BY <5>1 DEF AfterChildOpened, BornOf
      <4>3. Allocates(ps, c, a)
        BY <3>1, <3>2, <4>1, <4>2 DEF Allocates
      <4>4. QED
        BY <3>1, <4>3 DEF Moves
    <3>5. QED
      BY <3>1, <3>3, <3>4
  <2>5. ASSUME append(h) PROVE Moves
    <3> DEFINE e == kernel_event(KIND_OTHER)
    <3>1. s \in Streams /\ log[s] # << >> /\ Write(s, <<e>>)
      BY <2>1, <2>5 DEF append, Open, Idle
    <3>2. e \in Event /\ e.kind = KIND_OTHER
      BY <1>4, <3>1, EventTypes, EventKinds
    <3> HIDE DEF e
    <3>3. Lawful(s, e)
      BY <3>2, FreelyLawful
    <3>4. QED
      BY <3>1, <3>2, <3>3, AppendMoves
  <2>6. ASSUME NEW a \in Amounts, handle[h].pc = "idle", check_amount(a), HasGrant(log[s])
        PROVE  /\ a \in 0 .. MaxI64 /\ s \in Streams /\ log[s] # << >>
               /\ balance \in 0 .. MaxI64 /\ balance # NoLedger
    <3>1. a \in 0 .. MaxI64 /\ s \in Streams /\ log[s] # << >>
      BY <2>1, <2>6, AmountTypes
    <3>2. balance \in Balance /\ balance # NoLedger
      BY <1>1, <2>6, <3>1, FoldBalanceType, GrantMakesLedger
    <3>3. QED
      BY <3>1, <3>2 DEF Balance
  <2>7. ASSUME NEW a \in Amounts, reserve(h, a) PROVE Moves
    <3> DEFINE e == IF balance >= a THEN budget_move_event(KIND_BUDGET_RESERVED, a)
                                    ELSE refused_event(a, balance)
    <3>1. /\ a \in 0 .. MaxI64 /\ s \in Streams /\ log[s] # << >>
          /\ balance \in 0 .. MaxI64 /\ balance # NoLedger
      BY <2>6, <2>7 DEF reserve, Open, Idle
    <3>2. Write(s, <<e>>)
      BY <2>7 DEF reserve
    <3>3. e \in Event
      BY <3>1, EventTypes
    <3>4. Lawful(s, e)
      <4>1. CASE balance >= a
        <5>1. e.kind = KIND_BUDGET_RESERVED /\ e.amount = a /\ e.peer = NoStream
          BY <4>1, EventKinds
        <5>2. a <= balance
          BY <3>1, <4>1
        <5> HIDE DEF e
        <5>3. QED
          BY <3>1, <5>1, <5>2, KindsDiffer DEF Lawful
      <4>2. CASE ~ (balance >= a)
        <5>1. e.kind = KIND_BUDGET_REFUSED
          BY <4>2, EventKinds
        <5> HIDE DEF e
        <5>2. QED
          BY <5>1, FreelyLawful
      <4>3. QED
        BY <4>1, <4>2
    <3> HIDE DEF e
    <3>5. QED
      BY <3>1, <3>2, <3>3, <3>4, AppendMoves
  <2>8. ASSUME NEW a \in Amounts, spend(h, a) PROVE Moves
    <3> DEFINE e == budget_move_event(KIND_BUDGET_SPENT, a)
    <3>1. /\ a \in 0 .. MaxI64 /\ s \in Streams /\ log[s] # << >> /\ balance # NoLedger
          /\ Write(s, <<e>>)
      BY <2>6, <2>8 DEF spend, Open, Idle
    <3>2. e \in Event /\ e.kind = KIND_BUDGET_SPENT
      BY <3>1, EventTypes, EventKinds
    <3> HIDE DEF e
    <3>3. Lawful(s, e)
      BY <3>1, <3>2, KindsDiffer DEF Lawful
    <3>4. QED
      BY <3>1, <3>2, <3>3, AppendMoves
  <2>9. ASSUME NEW cs \in SUBSET Streams, NEW d \in BOOLEAN, handle[h].pc # "free",
               Write(s, <<closing_event(cs, d)>>),
               IF d THEN cs = {} ELSE cs = open_children_in(s)
        PROVE  Moves
    <3> DEFINE e == closing_event(cs, d)
    <3>1. e \in Event /\ e.kind = KIND_SESSION_CLOSED /\ s \in Streams /\ log[s] # << >>
      BY <1>4, <2>1, <2>9, EventTypes, EventKinds
    <3>2. e.children = cs /\ e.dropped = d
      BY DEF closing_event, kernel_event
    <3>3. Write(s, <<e>>)
      BY <2>9
    <3> HIDE DEF e
    <3>4. Lawful(s, e)
      BY <2>9, <3>1, <3>2, KindsDiffer
         DEF Lawful, KIND_SESSION_CLOSED, KIND_SESSION_OPENED, KIND_BUDGET_GRANTED
    <3>5. QED
      BY <3>1, <3>3, <3>4, AppendMoves
  <2>10. ASSUME close_with(h) PROVE Moves
    <3>1. /\ handle[h].pc # "free" /\ open_children_in(s) \in SUBSET Streams
          /\ Write(s, <<closing_event(open_children_in(s), FALSE)>>)
      BY <2>10 DEF close_with, Open, Idle, open_children_in
    <3>2. QED
      BY <2>9, <3>1
  <2>11. ASSUME close_detached(h) PROVE Moves
    <3>1. handle[h].pc # "free" /\ Write(s, <<closing_event({}, TRUE)>>)
      BY <2>11 DEF close_detached
    <3>2. QED
      BY <2>9, <3>1
  <2>12. ((\E t \in Streams, g \in Grants : resume_read(h, t, g)) \/ resume_check(h)
           \/ child_read(h) \/ remaining_head(h) \/ remaining_ledger(h) \/ drop(h)
           \/ GiveUp(h))
         => UNCHANGED log
    BY DEF resume_read, resume_check, child_read, remaining_head, remaining_ledger,
           drop, GiveUp
  <2>13. QED
    BY <1>2, <1>5, <2>2, <2>3, <2>4, <2>5, <2>7, <2>8, <2>10, <2>11, <2>12
       DEF HandleStep
<1>6. QED
  BY <1>2, <1>3, <1>5 DEF Next

----------------------------------------------------------------------------
(* What the moves leave in a log *)

\* A log opens with its first event, and only with it.
OpensFirst(l) == \A i \in DOMAIN l : (i = 1) <=> (l[i].kind = KIND_SESSION_OPENED)

\* The entries of a log that pay for the child c.
PaidIn(l, c) == {i \in DOMAIN l : l[i].kind = KIND_BUDGET_RESERVED /\ l[i].peer = c}

\* A log with one event more.
LEMMA OneMore ==
    ASSUME NEW l \in Seq(Event), NEW e \in Event
    PROVE  LET m == l \o <<e>> IN
           /\ m \in Seq(Event) /\ m # << >> /\ Len(l) \in Nat /\ Len(m) = Len(l) + 1
           /\ DOMAIN l = 1 .. Len(l) /\ DOMAIN m = 1 .. (Len(l) + 1)
           /\ m[Len(l) + 1] = e /\ \A i \in DOMAIN l : m[i] = l[i]
<1> DEFINE m == l \o <<e>>
<1>1. /\ m \in Seq(Event) /\ Len(l) \in Nat /\ Len(m) = Len(l) + 1
      /\ DOMAIN l = 1 .. Len(l) /\ DOMAIN m = 1 .. (Len(l) + 1)
      /\ m[Len(l) + 1] = e /\ \A i \in DOMAIN l : m[i] = l[i]
  OBVIOUS
<1>2. m # << >>
  BY <1>1
<1>3. QED
  BY <1>1, <1>2

\* What it has ended with, what it opens with and what it pays for.
LEMMA OneMoreMeans ==
    ASSUME NEW l \in Seq(Event), l # << >>, NEW e \in Event
    PROVE  LET m == l \o <<e>> IN
           /\ HasEnded(m) <=> HasEnded(l) \/ e.kind = KIND_SESSION_CLOSED
           /\ m[1] = l[1] /\ (Len(l) > 1 => m[2] = l[2])
           /\ OpensFirst(l) /\ e.kind # KIND_SESSION_OPENED => OpensFirst(m)
           /\ \A c : PaidIn(m, c) =
                       IF e.kind = KIND_BUDGET_RESERVED /\ e.peer = c
                       THEN PaidIn(l, c) \cup {Len(l) + 1} ELSE PaidIn(l, c)
<1> DEFINE m == l \o <<e>>
<1>1. /\ m \in Seq(Event) /\ m # << >> /\ Len(l) \in Nat /\ Len(m) = Len(l) + 1
      /\ DOMAIN l = 1 .. Len(l) /\ DOMAIN m = 1 .. (Len(l) + 1)
      /\ m[Len(l) + 1] = e /\ \A i \in DOMAIN l : m[i] = l[i]
  BY OneMore
<1>2. Len(l) > 0
  BY EmptySeq
<1> HIDE DEF m
<1>3. HasEnded(m) <=> HasEnded(l) \/ e.kind = KIND_SESSION_CLOSED
  BY <1>1 DEF HasEnded
<1>4. m[1] = l[1] /\ (Len(l) > 1 => m[2] = l[2])
  BY <1>1, <1>2
<1>5. OpensFirst(l) /\ e.kind # KIND_SESSION_OPENED => OpensFirst(m)
  BY <1>1, <1>2 DEF OpensFirst
<1>6. \A c : PaidIn(m, c) = IF e.kind = KIND_BUDGET_RESERVED /\ e.peer = c
                            THEN PaidIn(l, c) \cup {Len(l) + 1} ELSE PaidIn(l, c)
  BY <1>1 DEF PaidIn
<1>7. QED
  BY <1>3, <1>4, <1>5, <1>6 DEF m

\* What a log of two events, an opening and a grant, or of the opening alone
\* opens with, pays for and has ended with.
LEMMA BirthMeans ==
    ASSUME NEW o \in Event, o.kind = KIND_SESSION_OPENED,
           NEW g \in Event, g.kind = KIND_BUDGET_GRANTED,
           NEW l, l = <<o>> \/ l = <<o, g>>
    PROVE  /\ l \in Seq(Event) /\ l # << >> /\ l[1] = o /\ OpensFirst(l) /\ ~HasEnded(l)
           /\ \A c : PaidIn(l, c) = {}
<1>1. /\ KIND_SESSION_OPENED # KIND_BUDGET_GRANTED
      /\ KIND_SESSION_OPENED # KIND_SESSION_CLOSED /\ KIND_BUDGET_GRANTED # KIND_SESSION_CLOSED
      /\ KIND_SESSION_OPENED # KIND_BUDGET_RESERVED /\ KIND_BUDGET_GRANTED # KIND_BUDGET_RESERVED
  BY DEF KIND_SESSION_OPENED, KIND_SESSION_CLOSED, KIND_BUDGET_GRANTED, KIND_BUDGET_RESERVED
<1>2. /\ l \in Seq(Event) /\ Len(l) \in {1, 2} /\ DOMAIN l = 1 .. Len(l) /\ l[1] = o
      /\ Len(l) = 2 => l[2] = g
  <2>1. CASE l = <<o>>
    BY <2>1
  <2>2. CASE l = <<o, g>>
    BY <2>2
  <2>3. QED
    BY <2>1, <2>2
<1>3. l # << >>
  BY <1>2
<1>4. \A i \in DOMAIN l : (i = 1 /\ l[i] = o) \/ (i = 2 /\ l[i] = g)
  BY <1>2
<1>5. OpensFirst(l)
  BY <1>1, <1>4 DEF OpensFirst
<1>6. ~HasEnded(l) /\ \A c : PaidIn(l, c) = {}
  BY <1>1, <1>4 DEF HasEnded, PaidIn
<1>7. QED
  BY <1>2, <1>3, <1>5, <1>6

\* So of the events an owner's open writes...
LEMMA FirstMeans ==
    ASSUME NEW g \in Balance
    PROVE  LET l == FirstEvents(g) IN
           /\ l \in Seq(Event) /\ l # << >> /\ OpensFirst(l) /\ ~HasEnded(l)
           /\ l[1].peer = NoStream /\ \A c : PaidIn(l, c) = {}
<1>1. 0 \in 0 .. MaxI64
  BY LedgerAssumption
<1> DEFINE n == IF g = NoLedger THEN 0 ELSE g
<1>2. n \in 0 .. MaxI64
  BY <1>1 DEF Balance
<1>3. FirstEvents(g) = <<opened_event>> \/ FirstEvents(g) = <<opened_event, granted_event(n)>>
  BY DEF FirstEvents
<1> HIDE DEF n
<1>4. granted_event(n).kind = KIND_BUDGET_GRANTED /\ opened_event.kind = KIND_SESSION_OPENED
      /\ opened_event.peer = NoStream
  BY DEF opened_event, granted_event, kernel_event
<1>5. opened_event \in Event /\ granted_event(n) \in Event
  <2>1. \A k \in Kinds : kernel_event(k) \in Event
    BY LedgerAssumption DEF Event, kernel_event
  <2>2. KIND_SESSION_OPENED \in Kinds /\ KIND_BUDGET_GRANTED \in Kinds
    BY DEF Kinds, KernelOnly
  <2>3. \A e \in Event : [e EXCEPT !.amount = n] \in Event
    BY <1>2 DEF Event
  <2>4. QED
    BY <2>1, <2>2, <2>3 DEF opened_event, granted_event
<1> DEFINE o == opened_event
           e == granted_event(n)
           l == FirstEvents(g)
<1> HIDE DEF o, e, l
<1>6. /\ o \in Event /\ o.kind = KIND_SESSION_OPENED /\ e \in Event
      /\ e.kind = KIND_BUDGET_GRANTED /\ (l = <<o>> \/ l = <<o, e>>) /\ o.peer = NoStream
  BY <1>3, <1>4, <1>5 DEF o, e, l
<1>7. /\ l \in Seq(Event) /\ l # << >> /\ l[1] = o /\ OpensFirst(l) /\ ~HasEnded(l)
      /\ \A c : PaidIn(l, c) = {}
  BY <1>6, BirthMeans
<1>8. QED
  BY <1>6, <1>7 DEF l

\* ...and of the events a child's stream begins with.
LEMMA BornMeans ==
    ASSUME NEW p \in Streams, NEW a \in 0 .. MaxI64
    PROVE  LET l == BornOf(p, a) IN
           /\ l \in Seq(Event) /\ l # << >> /\ OpensFirst(l) /\ ~HasEnded(l)
           /\ l[1].peer = p /\ Len(l) = 2 /\ l[2] = child_granted_event(a, p)
           /\ \A c : PaidIn(l, c) = {}
<1> DEFINE o == child_opened_event(p)
           e == child_granted_event(a, p)
           l == BornOf(p, a)
<1>1. o \in Event /\ e \in Event
  BY EventTypes
<1>2. o.kind = KIND_SESSION_OPENED /\ e.kind = KIND_BUDGET_GRANTED /\ o.peer = p
  BY DEF child_opened_event, child_granted_event, granted_event, kernel_event
<1>3. l = <<o, e>>
  BY DEF BornOf
<1> HIDE DEF o, e, l
<1>4. /\ l \in Seq(Event) /\ l # << >> /\ l[1] = o /\ OpensFirst(l) /\ ~HasEnded(l)
      /\ \A c : PaidIn(l, c) = {}
  BY <1>1, <1>2, <1>3, BirthMeans
<1>5. Len(l) = 2 /\ l[2] = e
  BY <1>3
<1>6. QED
  BY <1>2, <1>4, <1>5 DEF l, e

----------------------------------------------------------------------------
(* Children and the reservations that pay for them *)

\* AllocationsPaired of one pair: the parent p's log and the child c's.
PairOK(lp, lc, p, c) ==
    IF lc # << >> /\ lc[1].peer = p
    THEN \E i \in DOMAIN lp :
            /\ PaidIn(lp, c) = {i}
            /\ Len(lc) > 1
            /\ lc[2] = child_granted_event(lp[i].amount, p)
    ELSE PaidIn(lp, c) = {}

\* AllocationsPaired is that of every pair, and an opening at the head of every log.
LEMMA PairedIs ==
    AllocationsPaired <=>
      /\ \A c \in Streams : OpensFirst(log[c])
      /\ \A c, p \in Streams : PairOK(log[p], log[c], p, c)
BY DEF AllocationsPaired, OpensFirst, PairOK, PaidIn, PaidFor

\* So it is in the next state.
LEMMA PairedIsNext ==
    AllocationsPaired' <=>
      /\ \A c \in Streams : OpensFirst(log'[c])
      /\ \A c, p \in Streams : PairOK(log'[p], log'[c], p, c)
BY DEF AllocationsPaired, OpensFirst, PairOK, PaidIn, PaidFor

\* A log with one event more that pays for nobody keeps a pair as it was, on
\* either side of it.
LEMMA PairKept ==
    ASSUME NEW lp \in Seq(Event), NEW lc \in Seq(Event), NEW p \in Streams, NEW c \in Streams,
           PairOK(lp, lc, p, c), NEW e \in Event
    PROVE  /\ ~(e.kind = KIND_BUDGET_RESERVED /\ e.peer = c) /\ lp # << >> =>
                PairOK(lp \o <<e>>, lc, p, c)
           /\ lc # << >> => PairOK(lp, lc \o <<e>>, p, c)
<1>1. ASSUME ~(e.kind = KIND_BUDGET_RESERVED /\ e.peer = c), lp # << >>
      PROVE  PairOK(lp \o <<e>>, lc, p, c)
  <2> DEFINE m == lp \o <<e>>
  <2>1. /\ DOMAIN lp \subseteq DOMAIN m /\ \A i \in DOMAIN lp : m[i] = lp[i]
        /\ PaidIn(m, c) = PaidIn(lp, c)
    <3>1. /\ DOMAIN lp = 1 .. Len(lp) /\ DOMAIN m = 1 .. (Len(lp) + 1) /\ Len(lp) \in Nat
          /\ \A i \in DOMAIN lp : m[i] = lp[i]
      BY OneMore
    <3>2. PaidIn(m, c) = PaidIn(lp, c)
      BY <1>1, OneMoreMeans
    <3>3. QED
      BY <3>1, <3>2
  <2> HIDE DEF m
  <2>2. PairOK(m, lc, p, c)
    BY <2>1 DEF PairOK
  <2>3. QED
    BY <2>2 DEF m
<1>2. ASSUME lc # << >> PROVE PairOK(lp, lc \o <<e>>, p, c)
  <2> DEFINE m == lc \o <<e>>
  <2>1. m # << >> /\ m[1] = lc[1] /\ Len(m) = Len(lc) + 1 /\ Len(lc) \in Nat
        /\ (Len(lc) > 1 => m[2] = lc[2])
    BY <1>2, OneMore, OneMoreMeans
  <2> HIDE DEF m
  <2>2. PairOK(lp, m, p, c)
    BY <1>2, <2>1 DEF PairOK
  <2>3. QED
    BY <2>2 DEF m
<1>3. QED
  BY <1>1, <1>2

\* A stream that has not begun is nobody's parent and pays for nobody.
LEMMA EmptyPays ==
    ASSUME NEW lc, NEW p, NEW c, PairOK(<< >>, lc, p, c)
    PROVE  ~(lc # << >> /\ lc[1].peer = p)
BY DEF PairOK

\* A stream that has begun without a parent keeps every pair.
LEMMA BirthPairs ==
    ASSUME TypeInv, AllocationsPaired, NEW t \in Streams, NEW g \in Balance, Births(t, g)
    PROVE  AllocationsPaired'
<1> DEFINE l == FirstEvents(g)
<1>1. /\ l \in Seq(Event) /\ l # << >> /\ OpensFirst(l)
      /\ l[1].peer = NoStream /\ \A c : PaidIn(l, c) = {}
  BY FirstMeans
<1>2. log[t] = << >> /\ \A u \in Streams : log'[u] = IF u = t THEN l ELSE log[u]
  BY DEF Births, Becomes
<1> HIDE DEF l
<1>3. /\ \A c \in Streams : OpensFirst(log[c])
      /\ \A c, p \in Streams : PairOK(log[p], log[c], p, c)
  BY PairedIs
<1>4. \A c \in Streams : OpensFirst(log'[c])
  BY <1>1, <1>2, <1>3
<1>5. ASSUME NEW c \in Streams, NEW p \in Streams PROVE PairOK(log'[p], log'[c], p, c)
  <2>1. PairOK(log[p], log[c], p, c)
    BY <1>3
  <2>2. CASE c = t
    <3>1. log'[c][1].peer # p
      BY <1>1, <1>2, <2>2, LedgerAssumption
    <3>2. PaidIn(log[p], c) = {}
      BY <1>2, <2>1, <2>2 DEF PairOK
    <3>3. PaidIn(log'[p], c) = {}
      BY <1>1, <1>2, <3>2
    <3>4. QED
      BY <3>1, <3>3 DEF PairOK
  <2>3. CASE c # t /\ p = t
    <3>1. ~(log[c] # << >> /\ log[c][1].peer = p)
      BY <1>2, <2>1, <2>3, EmptyPays
    <3>2. log'[c] = log[c] /\ PaidIn(log'[p], c) = {}
      BY <1>1, <1>2, <2>3
    <3>3. QED
      BY <3>1, <3>2 DEF PairOK
  <2>4. CASE c # t /\ p # t
    BY <1>2, <2>1, <2>4
  <2>5. QED
    BY <2>2, <2>3, <2>4
<1>6. QED
  BY <1>4, <1>5, PairedIsNext

\* So does an event that opens no child.
LEMMA AppendPairs ==
    ASSUME TypeInv, AllocationsPaired, NEW t \in Streams, NEW e \in Event, Appends(t, e)
    PROVE  AllocationsPaired'
<1> DEFINE m == log[t] \o <<e>>
<1>1. /\ log[t] # << >> /\ e.kind # KIND_SESSION_OPENED
      /\ e.kind = KIND_BUDGET_RESERVED => e.peer = NoStream
      /\ \A u \in Streams : log'[u] = IF u = t THEN m ELSE log[u]
  BY DEF Appends, Lawful, Becomes
<1>2. \A u \in Streams : log[u] \in Seq(Event)
  BY DEF TypeInv, TypeOK
<1>3. /\ \A c \in Streams : OpensFirst(log[c])
      /\ \A c, p \in Streams : PairOK(log[p], log[c], p, c)
  BY PairedIs
<1>4. OpensFirst(m) /\ m \in Seq(Event)
  BY <1>1, <1>2, <1>3, OneMore, OneMoreMeans
<1>5. \A c \in Streams : OpensFirst(log'[c])
  BY <1>1, <1>3, <1>4
<1>6. ASSUME NEW c \in Streams, NEW p \in Streams PROVE PairOK(log'[p], log'[c], p, c)
  <2>1. ~(e.kind = KIND_BUDGET_RESERVED /\ e.peer = c)
    BY <1>1, LedgerAssumption
  <2>2. PairOK(log[p], log'[c], p, c)
    BY <1>1, <1>2, <1>3, PairKept
  <2>3. log'[c] \in Seq(Event)
    BY <1>1, <1>2, <1>4
  <2>4. CASE p = t
    <3>1. log'[p] = log[p] \o <<e>> /\ log[p] # << >> /\ log[p] \in Seq(Event)
      BY <1>1, <1>2, <2>4
    <3>2. PairOK(log[p] \o <<e>>, log'[c], p, c)
      BY <2>1, <2>2, <2>3, <3>1, PairKept
    <3>3. QED
      BY <3>1, <3>2
  <2>5. CASE p # t
    BY <1>1, <2>2, <2>5
  <2>6. QED
    BY <2>4, <2>5
<1>7. QED
  BY <1>5, <1>6, PairedIsNext

\* Opening a child makes one pair, and leaves the others alone.
LEMMA AllocationPairs ==
    ASSUME TypeInv, AllocationsPaired, NEW p \in Streams, NEW c \in Streams,
           NEW a \in 0 .. MaxI64, Allocates(p, c, a)
    PROVE  AllocationsPaired'
<1> DEFINE e == allocated_event(a, c)
           m == log[p] \o <<e>>
           l == BornOf(p, a)
<1>1. /\ log[p] # << >> /\ log[c] = << >> /\ p # c
      /\ \A u \in Streams : log'[u] = IF u = c THEN l ELSE IF u = p THEN m ELSE log[u]
  BY DEF Allocates
<1>2. /\ l \in Seq(Event) /\ l # << >> /\ OpensFirst(l) /\ l[1].peer = p /\ Len(l) = 2
      /\ l[2] = child_granted_event(a, p) /\ \A d : PaidIn(l, d) = {}
  BY BornMeans
<1>3. e \in Event
  BY EventTypes
<1>4. e.kind = KIND_BUDGET_RESERVED /\ e.amount = a /\ e.peer = c
  BY DEF allocated_event, kernel_event
<1>5. \A u \in Streams : log[u] \in Seq(Event)
  BY DEF TypeInv, TypeOK
<1> HIDE DEF e, l
<1>6. /\ m # << >> /\ DOMAIN m = 1 .. (Len(log[p]) + 1) /\ Len(log[p]) \in Nat
      /\ m[Len(log[p]) + 1] = e
  BY <1>3, <1>5, OneMore
<1>7. /\ OpensFirst(log[p]) => OpensFirst(m)
      /\ PaidIn(m, c) = PaidIn(log[p], c) \cup {Len(log[p]) + 1}
  <2>1. e.kind # KIND_SESSION_OPENED
    BY <1>4 DEF KIND_BUDGET_RESERVED, KIND_SESSION_OPENED
  <2>2. QED
    BY <1>1, <1>3, <1>4, <1>5, <2>1, OneMoreMeans
<1>8. /\ \A d \in Streams : OpensFirst(log[d])
      /\ \A d, q \in Streams : PairOK(log[q], log[d], q, d)
  BY PairedIs
<1>9. \A d \in Streams : OpensFirst(log'[d])
  BY <1>1, <1>2, <1>7, <1>8
<1>10. ASSUME NEW d \in Streams, NEW q \in Streams PROVE PairOK(log'[q], log'[d], q, d)
  <2>1. PairOK(log[q], log[d], q, d)
    BY <1>8
  <2>2. CASE d = c /\ q = p
    <3>1. PaidIn(log[p], c) = {}
      BY <1>1, <2>1, <2>2 DEF PairOK
    <3>2. log'[q] = m /\ log'[d] = l /\ PaidIn(m, c) = {Len(log[p]) + 1}
      BY <1>1, <1>7, <2>2, <3>1
    <3>3. Len(log[p]) + 1 \in DOMAIN m /\ m[Len(log[p]) + 1].amount = a
      BY <1>4, <1>6
    <3> DEFINE n == Len(log[p]) + 1
    <3> HIDE DEF m, n
    <3>4. /\ n \in DOMAIN m /\ PaidIn(m, c) = {n} /\ Len(l) > 1
          /\ l[2] = child_granted_event(m[n].amount, p)
      BY <1>2, <3>2, <3>3 DEF n
    <3>5. PairOK(m, l, p, c)
      BY <1>2, <3>4 DEF PairOK
    <3>6. QED
      BY <2>2, <3>2, <3>5
  <2>3. CASE d = c /\ q # p
    <3>1. PaidIn(log[q], d) = {}
      BY <1>1, <2>1, <2>3 DEF PairOK
    <3>2. PaidIn(log'[q], d) = {} /\ log'[d] = l
      BY <1>1, <1>2, <2>3, <3>1
    <3>3. QED
      BY <1>2, <2>3, <3>2 DEF PairOK
  <2>4. CASE d # c /\ q = c
    <3>1. ~(log[d] # << >> /\ log[d][1].peer = q)
      BY <1>1, <2>1, <2>4, EmptyPays
    <3>2. log'[q] = l
      BY <1>1, <2>4
    <3>3. CASE d = p
      <4>1. log'[d] = m /\ m[1] = log[d][1] /\ log[d] # << >>
        BY <1>1, <1>3, <1>5, <3>3, OneMoreMeans
      <4>2. QED
        BY <1>2, <3>1, <3>2, <4>1 DEF PairOK
    <3>4. CASE d # p
      <4>1. log'[d] = log[d]
        BY <1>1, <2>4, <3>4
      <4>2. QED
        BY <1>2, <3>1, <3>2, <4>1 DEF PairOK
    <3>5. QED
      BY <3>3, <3>4
  <2>5. CASE d # c /\ q # c
    <3>1. log'[d] \in Seq(Event) /\ PairOK(log[q], log'[d], q, d)
      <4>1. CASE d = p
        <5>1. log'[d] = log[d] \o <<e>> /\ log[d] # << >> /\ log[d] \in Seq(Event)
          BY <1>1, <1>5, <2>5, <4>1
        <5>2. PairOK(log[q], log[d] \o <<e>>, q, d)
          BY <1>3, <1>5, <2>1, <5>1, PairKept
        <5>3. QED
          BY <1>3, <5>1, <5>2, OneMore
      <4>2. CASE d # p
        BY <1>1, <1>5, <2>1, <2>5, <4>2
      <4>3. QED
        BY <4>1, <4>2
    <3>2. CASE q = p
      <4>1. log'[q] = log[q] \o <<e>> /\ log[q] # << >> /\ log[q] \in Seq(Event)
        BY <1>1, <1>5, <2>5, <3>2
      <4>2. ~(e.kind = KIND_BUDGET_RESERVED /\ e.peer = d)
        BY <1>4, <2>5
      <4>3. PairOK(log[q] \o <<e>>, log'[d], q, d)
        BY <1>3, <3>1, <4>1, <4>2, PairKept
      <4>4. QED
        BY <4>1, <4>3
    <3>3. CASE q # p
      BY <1>1, <2>5, <3>1, <3>3
    <3>4. QED
      BY <3>2, <3>3
  <2>6. QED
    BY <2>2, <2>3, <2>4, <2>5
<1>11. QED
  BY <1>9, <1>10, PairedIsNext

----------------------------------------------------------------------------
(* Endings *)

\* The streams ever opened from p, and what it is for an ending of p's log to
\* account for them.
Born(L, p) == {c \in Streams : L[c] # << >> /\ L[c][1].peer = p}

AccountsFor(L, e, p) ==
    /\ e.children \subseteq Born(L, p)
    /\ ~e.dropped => \A c \in Born(L, p) : c \in e.children \/ HasEnded(L[c])

\* EndingsAccountForChildren is that of every ending of every log (close_with).
LEMMA EndingsAre ==
    EndingsAccountForChildren <=>
      \A p \in Streams : \A i \in DOMAIN log[p] :
        log[p][i].kind = KIND_SESSION_CLOSED => AccountsFor(log, log[p][i], p)
BY DEF EndingsAccountForChildren, AccountsFor, Born

\* So it is in the next state.
LEMMA EndingsAreNext ==
    EndingsAccountForChildren' <=>
      \A p \in Streams : \A i \in DOMAIN log'[p] :
        log'[p][i].kind = KIND_SESSION_CLOSED => AccountsFor(log', log'[p][i], p)
BY DEF EndingsAccountForChildren, AccountsFor, Born, HasEnded

\* A session that has ended stays ended.
LEMMA EndedStays ==
    ASSUME TypeInv, Grows, NEW c \in Streams, HasEnded(log[c])
    PROVE  HasEnded(log'[c])
<1>1. log[c] \in Seq(Event)
  BY DEF TypeInv, TypeOK
<1>2. PICK w \in Seq(Event) : log'[c] = log[c] \o w
  BY DEF Grows
<1>3. /\ DOMAIN log[c] \subseteq DOMAIN (log[c] \o w)
      /\ \A i \in DOMAIN log[c] : (log[c] \o w)[i] = log[c][i]
  BY <1>1
<1>4. QED
  BY <1>2, <1>3 DEF HasEnded

\* While no child is opened from p, an ending that accounts for p's children
\* goes on doing so.
LEMMA StillAccounts ==
    ASSUME TypeInv, Grows, NEW p \in Streams, NEW e, AccountsFor(log, e, p),
           Born(log', p) = Born(log, p)
    PROVE  AccountsFor(log', e, p)
<1>1. \A c \in Born(log, p) : HasEnded(log[c]) => HasEnded(log'[c])
  BY EndedStays DEF Born
<1>2. QED
  BY <1>1 DEF AccountsFor

\* A stream an owner opens is nobody's child and carries no ending (open_on).
LEMMA BirthEndings ==
    ASSUME TypeInv, Grows, EndingsAccountForChildren,
           NEW t \in Streams, NEW g \in Balance, Births(t, g)
    PROVE  EndingsAccountForChildren'
<1> DEFINE l == FirstEvents(g)
<1>1. l \in Seq(Event) /\ ~HasEnded(l) /\ l[1].peer = NoStream
  BY FirstMeans
<1>2. log[t] = << >> /\ \A u \in Streams : log'[u] = IF u = t THEN l ELSE log[u]
  BY DEF Births, Becomes
<1> HIDE DEF l
<1>3. ASSUME NEW p \in Streams PROVE Born(log', p) = Born(log, p)
  BY <1>1, <1>2, LedgerAssumption DEF Born
<1>4. ASSUME NEW p \in Streams, NEW i \in DOMAIN log'[p],
             log'[p][i].kind = KIND_SESSION_CLOSED
      PROVE  AccountsFor(log', log'[p][i], p)
  <2>1. p # t
    BY <1>1, <1>2, <1>4 DEF HasEnded
  <2>2. AccountsFor(log, log'[p][i], p)
    BY <1>2, <1>4, <2>1, EndingsAre
  <2>3. QED
    BY <1>3, <2>2, StillAccounts
<1>5. QED
  BY <1>4, EndingsAreNext

\* The ending a close appends is the scan taken in the same transaction, and the
\* drop backstop's names nobody (close_with, close_detached).
LEMMA AppendEndings ==
    ASSUME TypeInv, Grows, AllocationsPaired, EndingsAccountForChildren,
           NEW t \in Streams, NEW e \in Event, Appends(t, e)
    PROVE  EndingsAccountForChildren'
<1> DEFINE m == log[t] \o <<e>>
<1>1. /\ log[t] # << >> /\ Lawful(t, e)
      /\ \A u \in Streams : log'[u] = IF u = t THEN m ELSE log[u]
  BY DEF Appends, Becomes
<1>2. \A u \in Streams : log[u] \in Seq(Event)
  BY DEF TypeInv, TypeOK
<1>3. /\ m # << >> /\ m[1] = log[t][1] /\ DOMAIN log[t] = 1 .. Len(log[t])
      /\ DOMAIN m = 1 .. (Len(log[t]) + 1) /\ Len(log[t]) \in Nat
      /\ m[Len(log[t]) + 1] = e /\ \A i \in DOMAIN log[t] : m[i] = log[t][i]
  BY <1>1, <1>2, OneMore, OneMoreMeans
<1> HIDE DEF m
<1>4. ASSUME NEW p \in Streams PROVE Born(log', p) = Born(log, p)
  BY <1>1, <1>3 DEF Born
<1>5. ASSUME e.kind = KIND_SESSION_CLOSED PROVE AccountsFor(log, e, t)
  <2>1. open_children_in(t) = {c \in Born(log, t) : ~HasEnded(log[c])}
    <3>1. \A c \in Streams : OpensFirst(log[c])
      BY PairedIs
    <3>2. \A c \in Streams : log[c] # << >> => 1 \in DOMAIN log[c]
      <4>1. SUFFICES ASSUME NEW c \in Streams, log[c] # << >> PROVE 1 \in DOMAIN log[c]
        OBVIOUS
      <4>2. Len(log[c]) > 0 /\ DOMAIN log[c] = 1 .. Len(log[c]) /\ Len(log[c]) \in Nat
        BY <1>2, <4>1, EmptySeq
      <4>3. QED
        BY <4>2
    <3>3. \A c \in Streams :
            (\E i \in DOMAIN log[c] : log[c][i].kind = KIND_SESSION_OPENED /\ log[c][i].peer = t)
              <=> (log[c] # << >> /\ log[c][1].peer = t)
      <4>1. SUFFICES ASSUME NEW c \in Streams
                     PROVE  (\E i \in DOMAIN log[c] :
                               log[c][i].kind = KIND_SESSION_OPENED /\ log[c][i].peer = t)
                              <=> (log[c] # << >> /\ log[c][1].peer = t)
        OBVIOUS
      <4>2. \A i \in DOMAIN log[c] : (i = 1) <=> (log[c][i].kind = KIND_SESSION_OPENED)
        BY <3>1 DEF OpensFirst
      <4>3. log[c] = << >> => DOMAIN log[c] = {}
        OBVIOUS
      <4>4. CASE log[c] = << >>
        BY <4>3, <4>4
      <4>5. CASE log[c] # << >>
        BY <3>2, <4>2, <4>5
      <4>6. QED
        BY <4>4, <4>5
    <3>4. QED
      BY <3>3 DEF open_children_in, Born
  <2>2. IF e.dropped THEN e.children = {} ELSE e.children = open_children_in(t)
    BY <1>1, <1>5 DEF Lawful
  <2>3. QED
    BY <2>1, <2>2 DEF AccountsFor
<1>6. ASSUME NEW p \in Streams, NEW i \in DOMAIN log'[p],
             log'[p][i].kind = KIND_SESSION_CLOSED
      PROVE  AccountsFor(log', log'[p][i], p)
  <2>1. AccountsFor(log, log'[p][i], p)
    <3>1. CASE p = t /\ i = Len(log[t]) + 1
      BY <1>1, <1>3, <1>5, <1>6, <3>1
    <3>2. CASE p = t /\ i # Len(log[t]) + 1
      BY <1>1, <1>3, <1>6, <3>2, EndingsAre
    <3>3. CASE p # t
      BY <1>1, <1>6, <3>3, EndingsAre
    <3>4. QED
      BY <3>1, <3>2, <3>3
  <2>2. QED
    BY <1>4, <2>1, StillAccounts
<1>7. QED
  BY <1>6, EndingsAreNext

\* A parent that opens a child has no ending to be made false by it (open_child).
LEMMA AllocationEndings ==
    ASSUME TypeInv, Grows, EndingsAccountForChildren, NEW p \in Streams, NEW c \in Streams,
           NEW a \in 0 .. MaxI64, Allocates(p, c, a)
    PROVE  EndingsAccountForChildren'
<1> DEFINE e == allocated_event(a, c)
           m == log[p] \o <<e>>
           l == BornOf(p, a)
<1>1. /\ log[p] # << >> /\ log[c] = << >> /\ p # c /\ ~HasEnded(log[p])
      /\ \A u \in Streams : log'[u] = IF u = c THEN l ELSE IF u = p THEN m ELSE log[u]
  BY DEF Allocates
<1>2. ~HasEnded(l) /\ l[1].peer = p
  BY BornMeans
<1>3. m # << >> /\ m[1] = log[p][1] /\ ~HasEnded(m)
  <2>1. log[p] \in Seq(Event) /\ e \in Event
    BY EventTypes DEF TypeInv, TypeOK
  <2>2. e.kind # KIND_SESSION_CLOSED
    BY DEF allocated_event, kernel_event, KIND_BUDGET_RESERVED, KIND_SESSION_CLOSED
  <2> HIDE DEF e
  <2>3. QED
    BY <1>1, <2>1, <2>2, OneMore, OneMoreMeans
<1> HIDE DEF m, l
<1>4. ASSUME NEW q \in Streams, q # p PROVE Born(log', q) = Born(log, q)
  BY <1>1, <1>2, <1>3, <1>4 DEF Born
<1>5. ASSUME NEW q \in Streams, NEW i \in DOMAIN log'[q],
             log'[q][i].kind = KIND_SESSION_CLOSED
      PROVE  AccountsFor(log', log'[q][i], q)
  <2>1. q # p /\ q # c
    BY <1>1, <1>2, <1>3, <1>5 DEF HasEnded
  <2>2. AccountsFor(log, log'[q][i], q)
    BY <1>1, <1>5, <2>1, EndingsAre
  <2>3. QED
    BY <1>4, <2>1, <2>2, StillAccounts
<1>6. QED
  BY <1>5, EndingsAreNext

----------------------------------------------------------------------------
(* The invariant of the tree *)

TreeInv == TypeInv /\ Rooted /\ AllocationsPaired /\ EndingsAccountForChildren

\* At the start nothing has been written and nobody holds anything.
LEMMA TreeInit == Init => TreeInv
<1> SUFFICES ASSUME Init PROVE TreeInv
  OBVIOUS
<1>1. TypeInv
  BY InitType
<1>2. Rooted
  BY FreeType DEF Init, Rooted
<1>3. \A s \in Streams : log[s] = << >>
  BY DEF Init
<1>4. AllocationsPaired
  <2>1. \A c : PaidIn(<< >>, c) = {}
    BY DEF PaidIn
  <2>2. OpensFirst(<< >>)
    BY DEF OpensFirst
  <2>3. \A c, p : PairOK(<< >>, << >>, p, c)
    BY <2>1 DEF PairOK
  <2>4. QED
    BY <1>3, <2>2, <2>3, PairedIs
<1>5. EndingsAccountForChildren
  BY <1>3, EndingsAre
<1>6. QED
  BY <1>1, <1>2, <1>4, <1>5 DEF TreeInv

\* Every step keeps it.
LEMMA TreeStep ==
    ASSUME TreeInv, [Next]_vars
    PROVE  TreeInv'
<1>1. TypeInv /\ Rooted /\ AllocationsPaired /\ EndingsAccountForChildren
  BY DEF TreeInv
<1>2. ASSUME UNCHANGED log PROVE AllocationsPaired' /\ EndingsAccountForChildren'
  BY <1>1, <1>2, PairedIs, PairedIsNext, EndingsAre, EndingsAreNext
<1>3. CASE UNCHANGED vars
  <2>1. UNCHANGED log /\ UNCHANGED handle
    BY <1>3 DEF vars
  <2>2. TypeInv' /\ Rooted'
    BY <1>1, <1>3, <2>1, StutterType DEF Rooted
  <2>3. QED
    BY <1>2, <2>1, <2>2 DEF TreeInv
<1>4. CASE Next
  <2>1. TypeInv' /\ Grows /\ Rooted' /\ Moves
    BY <1>1, <1>4, StepType, RootedStep, LogMoves
  <2>2. ASSUME NEW t \in Streams, NEW g \in Balance, Births(t, g)
        PROVE  AllocationsPaired' /\ EndingsAccountForChildren'
    BY <1>1, <2>1, <2>2, BirthPairs, BirthEndings
  <2>3. ASSUME NEW t \in Streams, NEW e \in Event, Appends(t, e)
        PROVE  AllocationsPaired' /\ EndingsAccountForChildren'
    BY <1>1, <2>1, <2>3, AppendPairs, AppendEndings
  <2>4. ASSUME NEW p \in Streams, NEW c \in Streams, NEW a \in 0 .. MaxI64, Allocates(p, c, a)
        PROVE  AllocationsPaired' /\ EndingsAccountForChildren'
    BY <1>1, <2>1, <2>4, AllocationPairs, AllocationEndings
  <2>5. AllocationsPaired' /\ EndingsAccountForChildren'
    BY <1>2, <2>1, <2>2, <2>3, <2>4 DEF Moves
  <2>6. QED
    BY <2>1, <2>5 DEF TreeInv
<1>5. QED
  BY <1>3, <1>4

\* The invariant of the tree holds in every state of every behaviour.
LEMMA TreeInvariant == Spec => []TreeInv
<1>1. Init => TreeInv
  BY TreeInit
<1>2. TreeInv /\ [Next]_vars => TreeInv'
  BY TreeStep
<1>3. QED
  BY <1>1, <1>2, PTL DEF Spec

\* However calls, cancellations and crashes interleave, a child's stream and the
\* reservation that pays for it are there together, with the same amount, once
\* (Session::open_child, EventStore::append_if_many).
THEOREM ChildrenArePaidFor == Spec => []AllocationsPaired
<1>1. TreeInv => AllocationsPaired
  BY DEF TreeInv
<1>2. QED
  BY <1>1, TreeInvariant, PTL

\* Every ending a close wrote names each child that was open, and every child it
\* does not name has an ending of its own, however handles of other processes
\* open and close children meanwhile (append_with_open_children).
THEOREM EndingsNameTheirChildren == Spec => []EndingsAccountForChildren
<1>1. TreeInv => EndingsAccountForChildren
  BY DEF TreeInv
<1>2. QED
  BY <1>1, TreeInvariant, PTL

----------------------------------------------------------------------------
(* The logs implement the accounts *)

\* The account and the life one log stands for.
Life(l) == IF l = << >> THEN "none" ELSE IF HasEnded(l) THEN "ended" ELSE "open"

\* What the accounts are of a log, before and after a step.
LEMMA AccountsAre ==
    /\ AccountOf = [s \in Streams |-> fold_balance(log[s])]
    /\ LifeOf = [s \in Streams |-> Life(log[s])]
    /\ AccountOf' = [s \in Streams |-> fold_balance(log'[s])]
    /\ LifeOf' = [s \in Streams |-> Life(log'[s])]
BY DEF AccountOf, LifeOf, Life, HasEnded

\* What the events a stream begins with fold to.
LEMMA FoldOfBirth ==
    ASSUME NEW o \in Event, o.kind = KIND_SESSION_OPENED,
           NEW g \in Event, g.kind = KIND_BUDGET_GRANTED
    PROVE  fold_balance(<<o>>) = NoLedger /\ fold_balance(<<o, g>>) = g.amount
<1>1. << >> \in Seq(Event) /\ <<o>> \in Seq(Event)
  OBVIOUS
<1>2. << >> \o <<o>> = <<o>> /\ <<o>> \o <<g>> = <<o, g>>
  <2>1. << >> \o <<o>> = <<o>>
    BY <1>1
  <2>2. <<o>> \o <<g>> \in Seq(Event) /\ <<o, g>> \in Seq(Event)
    OBVIOUS
  <2>3. Len(<<o>> \o <<g>>) = 2 /\ Len(<<o, g>>) = 2
    OBVIOUS
  <2>4. \A i \in 1 .. 2 : (<<o>> \o <<g>>)[i] = <<o, g>>[i]
    OBVIOUS
  <2>5. QED
    BY <2>1, <2>2, <2>3, <2>4, SeqEqual
<1>3. fold_balance(<< >>) = NoLedger
  BY <1>1, FoldedEnds
<1>4. fold_balance(<<o>>) = FoldStep(NoLedger, o)
  BY <1>1, <1>2, <1>3, FoldAppend
<1>5. FoldStep(NoLedger, o) = NoLedger
  BY DEF FoldStep, KIND_SESSION_OPENED, KIND_BUDGET_GRANTED, KIND_BUDGET_RESERVED,
         KIND_BUDGET_SPENT
<1>6. fold_balance(<<o, g>>) = FoldStep(NoLedger, g)
  BY <1>1, <1>2, <1>4, <1>5, FoldAppend
<1>7. FoldStep(NoLedger, g) = g.amount
  <2>1. g.amount \in 0 .. MaxI64
    BY DEF Event
  <2>2. QED
    BY <2>1, LedgerAssumption DEF FoldStep, saturating_add, floor0, NoLedger
<1>8. QED
  BY <1>4, <1>5, <1>6, <1>7

\* An owner's open gives the account its quota (open_on)...
LEMMA FoldOfFirst ==
    ASSUME NEW g \in Balance
    PROVE  fold_balance(FirstEvents(g)) = g
<1>1. 0 \in 0 .. MaxI64
  BY LedgerAssumption
<1> DEFINE n == IF g = NoLedger THEN 0 ELSE g
           e == granted_event(n)
           o == opened_event
<1>2. n \in 0 .. MaxI64
  BY <1>1 DEF Balance
<1>3. o.kind = KIND_SESSION_OPENED
  BY DEF opened_event, kernel_event
<1>4. FirstEvents(g) = IF g = NoLedger THEN <<o>> ELSE <<o, e>>
  BY DEF FirstEvents
<1> HIDE DEF n
<1>5. e.kind = KIND_BUDGET_GRANTED /\ e.amount = n
  BY DEF granted_event, kernel_event
<1>6. o \in Event /\ e \in Event
  <2>1. \A k \in Kinds : kernel_event(k) \in Event
    BY LedgerAssumption DEF Event, kernel_event
  <2>2. KIND_SESSION_OPENED \in Kinds /\ KIND_BUDGET_GRANTED \in Kinds
    BY DEF Kinds, KernelOnly
  <2>3. \A x \in Event : [x EXCEPT !.amount = n] \in Event
    BY <1>2 DEF Event
  <2>4. QED
    BY <2>1, <2>2, <2>3 DEF opened_event, granted_event
<1> HIDE DEF o, e
<1>7. fold_balance(<<o>>) = NoLedger /\ fold_balance(<<o, e>>) = n
  BY <1>3, <1>5, <1>6, FoldOfBirth
<1>8. QED
  BY <1>4, <1>7 DEF n

\* ...and a child's stream begins with what its parent paid (open_child).
LEMMA FoldOfBorn ==
    ASSUME NEW p \in Streams, NEW a \in 0 .. MaxI64
    PROVE  fold_balance(BornOf(p, a)) = a
<1> DEFINE o == child_opened_event(p)
           e == child_granted_event(a, p)
<1>1. o \in Event /\ e \in Event
  BY EventTypes
<1>2. o.kind = KIND_SESSION_OPENED /\ e.kind = KIND_BUDGET_GRANTED /\ e.amount = a
  BY DEF child_opened_event, child_granted_event, granted_event, kernel_event
<1>3. BornOf(p, a) = <<o, e>>
  BY DEF BornOf
<1> HIDE DEF o, e
<1>4. QED
  BY <1>1, <1>2, <1>3, FoldOfBirth

\* A stream that begins is an account that opens.
LEMMA BirthRefines ==
    ASSUME TypeInv, NEW t \in Streams, NEW g \in Balance, Births(t, g)
    PROVE  Accounts!Begin(t, g)
<1> DEFINE l == FirstEvents(g)
<1>1. log[t] = << >> /\ \A u \in Streams : log'[u] = IF u = t THEN l ELSE log[u]
  BY DEF Births, Becomes
<1>2. l # << >> /\ ~HasEnded(l) /\ fold_balance(l) = g
  BY FirstMeans, FoldOfFirst
<1> HIDE DEF l
<1>3. Life(l) = "open" /\ Life(log[t]) = "none"
  BY <1>1, <1>2 DEF Life
<1>4. LifeOf[t] = "none"
  BY <1>3, AccountsAre
<1>5. LifeOf' = [LifeOf EXCEPT ![t] = "open"]
  BY <1>1, <1>3, AccountsAre
<1>6. AccountOf' = [AccountOf EXCEPT ![t] = g]
  BY <1>1, <1>2, AccountsAre
<1>7. QED
  BY <1>4, <1>5, <1>6 DEF Accounts!Begin

\* An event appended to a stream is a grant, a reservation, a charge or an end
\* of its account, or leaves the accounts alone.
LEMMA AppendRefines ==
    ASSUME TypeInv, NEW t \in Streams, NEW e \in Event, Appends(t, e)
    PROVE  Accounts!AccountsNext \/ UNCHANGED <<AccountOf, LifeOf>>
<1> DEFINE b == fold_balance(log[t])
           m == log[t] \o <<e>>
           n == e.amount
<1>1. /\ log[t] # << >> /\ log[t] \in Seq(Event) /\ Lawful(t, e)
      /\ \A u \in Streams : log'[u] = IF u = t THEN m ELSE log[u]
  BY DEF Appends, Becomes, TypeInv, TypeOK
<1>2. m # << >> /\ (HasEnded(m) <=> HasEnded(log[t]) \/ e.kind = KIND_SESSION_CLOSED)
  BY <1>1, OneMore, OneMoreMeans
<1>3. fold_balance(m) = FoldStep(b, e) /\ b \in Balance /\ n \in 0 .. MaxI64
  BY <1>1, FoldAppend, FoldBalanceType DEF Event
<1> HIDE DEF m
<1>4. AccountOf' = [AccountOf EXCEPT ![t] = FoldStep(b, e)] /\ AccountOf[t] = b
  BY <1>1, <1>3, AccountsAre
<1>5. LifeOf[t] # "none" /\ LifeOf' = [LifeOf EXCEPT ![t] = Life(m)]
  <2>1. Life(log[t]) # "none"
    BY <1>1 DEF Life
  <2>2. QED
    BY <1>1, <2>1, AccountsAre
<1>6. ASSUME e.kind # KIND_SESSION_CLOSED PROVE UNCHANGED LifeOf
  <2>1. Life(m) = Life(log[t])
    BY <1>1, <1>2, <1>6 DEF Life
  <2>2. QED
    BY <1>1, <2>1, AccountsAre
<1>7. ASSUME FoldStep(b, e) = b PROVE UNCHANGED AccountOf
  BY <1>1, <1>3, <1>7, AccountsAre
<1>8. 0 <= n /\ n <= MaxI64 /\ floor0(n) = n
  BY <1>3, LedgerAssumption DEF floor0
<1> HIDE DEF b, n
<1>9. CASE e.kind = KIND_BUDGET_GRANTED
  <2>1. FoldStep(b, e) = saturating_add(floor0(b), n)
    BY <1>8, <1>9 DEF FoldStep, n
  <2>2. UNCHANGED LifeOf
    BY <1>6, <1>9 DEF KIND_BUDGET_GRANTED, KIND_SESSION_CLOSED
  <2>3. Accounts!Grant(t, n)
    BY <1>4, <1>5, <2>1, <2>2
       DEF Accounts!Grant, Accounts!saturating_add, Accounts!floor0, saturating_add, floor0
  <2>4. QED
    BY <1>3, <2>3 DEF Accounts!AccountsNext
<1>10. CASE e.kind = KIND_BUDGET_RESERVED
  <2>1. b # NoLedger /\ n <= b
    BY <1>1, <1>10 DEF Lawful, b, n
  <2>2. FoldStep(b, e) = b - n
    <3>1. FoldStep(b, e) = floor0(b - n)
      BY <1>8, <1>10, <2>1 DEF FoldStep, n, KIND_BUDGET_GRANTED, KIND_BUDGET_RESERVED
    <3>2. b \in 0 .. MaxI64
      BY <1>3, <2>1 DEF Balance
    <3>3. QED
      BY <1>3, <2>1, <3>1, <3>2, LedgerAssumption DEF floor0
  <2>3. UNCHANGED LifeOf
    BY <1>6, <1>10 DEF KIND_BUDGET_RESERVED, KIND_SESSION_CLOSED
  <2>4. Accounts!Take(t, n)
    BY <1>4, <2>1, <2>2, <2>3 DEF Accounts!Take, Accounts!NoLedger, NoLedger
  <2>5. QED
    BY <1>3, <2>4 DEF Accounts!AccountsNext
<1>11. CASE e.kind = KIND_BUDGET_SPENT
  <2>1. b # NoLedger
    BY <1>1, <1>11 DEF Lawful, b
  <2>2. FoldStep(b, e) = floor0(b - n)
    BY <1>8, <1>11, <2>1 DEF FoldStep, n, KIND_BUDGET_GRANTED, KIND_BUDGET_SPENT
  <2>3. UNCHANGED LifeOf
    BY <1>6, <1>11 DEF KIND_BUDGET_SPENT, KIND_SESSION_CLOSED
  <2>4. Accounts!Charge(t, n)
    BY <1>4, <2>1, <2>2, <2>3
       DEF Accounts!Charge, Accounts!NoLedger, NoLedger, Accounts!floor0, floor0
  <2>5. QED
    BY <1>3, <2>4 DEF Accounts!AccountsNext
<1>12. ASSUME e.kind \notin {KIND_BUDGET_GRANTED, KIND_BUDGET_RESERVED, KIND_BUDGET_SPENT}
       PROVE  UNCHANGED AccountOf
  <2>1. FoldStep(b, e) = b
    BY <1>12 DEF FoldStep
  <2>2. QED
    BY <1>7, <2>1 DEF b
<1>13. CASE e.kind = KIND_SESSION_CLOSED
  <2>1. UNCHANGED AccountOf
    BY <1>12, <1>13 DEF KIND_SESSION_CLOSED, KIND_BUDGET_GRANTED, KIND_BUDGET_RESERVED,
                        KIND_BUDGET_SPENT
  <2>2. Life(m) = "ended"
    BY <1>2, <1>13 DEF Life
  <2>3. Accounts!End(t)
    BY <1>5, <2>1, <2>2 DEF Accounts!End
  <2>4. QED
    BY <2>3 DEF Accounts!AccountsNext
<1>14. CASE e.kind \notin {KIND_BUDGET_GRANTED, KIND_BUDGET_RESERVED, KIND_BUDGET_SPENT,
                           KIND_SESSION_CLOSED}
  BY <1>6, <1>12, <1>14
<1>15. QED
  BY <1>9, <1>10, <1>11, <1>13, <1>14

\* A child opened from p is units that leave p's account for the child's.
LEMMA AllocationRefines ==
    ASSUME TypeInv, NEW p \in Streams, NEW c \in Streams, NEW a \in 0 .. MaxI64,
           Allocates(p, c, a)
    PROVE  Accounts!Allocate(p, c, a)
<1> DEFINE b == fold_balance(log[p])
           e == allocated_event(a, c)
           m == log[p] \o <<e>>
           l == BornOf(p, a)
<1>1. /\ log[p] # << >> /\ log[c] = << >> /\ p # c /\ ~HasEnded(log[p])
      /\ b = NoLedger \/ a <= b
      /\ \A u \in Streams : log'[u] = IF u = c THEN l ELSE IF u = p THEN m ELSE log[u]
  BY DEF Allocates
<1>2. l # << >> /\ ~HasEnded(l) /\ fold_balance(l) = a
  BY BornMeans, FoldOfBorn
<1>3. log[p] \in Seq(Event) /\ e \in Event /\ b \in Balance
  BY EventTypes, FoldBalanceType DEF TypeInv, TypeOK
<1>4. e.kind = KIND_BUDGET_RESERVED /\ e.amount = a
  BY DEF allocated_event, kernel_event
<1> HIDE DEF e, l
<1>5. m # << >> /\ ~HasEnded(m)
  <2>1. e.kind # KIND_SESSION_CLOSED
    BY <1>4 DEF KIND_BUDGET_RESERVED, KIND_SESSION_CLOSED
  <2>2. QED
    BY <1>1, <1>3, <2>1, OneMore, OneMoreMeans
<1>6. fold_balance(m) = FoldStep(b, e)
  BY <1>3, FoldAppend
<1> HIDE DEF b, m
<1>7. FoldStep(b, e) = IF b = NoLedger THEN b ELSE b - a
  <2>1. floor0(a) = a
    BY LedgerAssumption DEF floor0
  <2>2. CASE b = NoLedger
    BY <1>4, <2>2 DEF FoldStep, KIND_BUDGET_RESERVED, KIND_BUDGET_GRANTED
  <2>3. CASE b # NoLedger
    <3>1. FoldStep(b, e) = floor0(b - a)
      BY <1>4, <2>1, <2>3 DEF FoldStep, KIND_BUDGET_RESERVED, KIND_BUDGET_GRANTED
    <3>2. b \in 0 .. MaxI64 /\ a <= b
      BY <1>1, <1>3, <2>3 DEF Balance
    <3>3. QED
      BY <2>3, <3>1, <3>2, LedgerAssumption DEF floor0
  <2>4. QED
    BY <2>2, <2>3
<1>8. /\ Life(log[p]) = "open" /\ Life(log[c]) = "none"
      /\ Life(l) = "open" /\ Life(m) = Life(log[p])
  BY <1>1, <1>2, <1>5 DEF Life
<1>9. LifeOf[p] = "open" /\ LifeOf[c] = "none" /\ AccountOf[p] = b
  BY <1>8, AccountsAre DEF b
<1>10. LifeOf' = [LifeOf EXCEPT ![c] = "open"]
  BY <1>1, <1>8, AccountsAre
<1>11. AccountOf' = [AccountOf EXCEPT ![p] = IF b = NoLedger THEN b ELSE b - a, ![c] = a]
  <2>1. \A s \in Streams :
          fold_balance(log'[s]) = IF s = c THEN a
                                  ELSE IF s = p THEN (IF b = NoLedger THEN b ELSE b - a)
                                  ELSE fold_balance(log[s])
    BY <1>1, <1>2, <1>6, <1>7
  <2>2. QED
    BY <1>1, <2>1, AccountsAre
<1>12. QED
  BY <1>1, <1>9, <1>10, <1>11 DEF Accounts!Allocate, Accounts!NoLedger, NoLedger

\* The initial logs are the initial accounts.
LEMMA RefinesInit == Init => Accounts!AccountsInit
<1> SUFFICES ASSUME Init PROVE Accounts!AccountsInit
  OBVIOUS
<1>1. \A s \in Streams : log[s] = << >>
  BY DEF Init
<1>2. fold_balance(<< >>) = NoLedger
  <2>1. << >> \in Seq(Event) /\ Len(<< >>) = 0
    OBVIOUS
  <2>2. QED
    BY <2>1, FoldedEnds
<1>3. Life(<< >>) = "none"
  BY DEF Life
<1>4. AccountOf = [s \in Streams |-> NoLedger] /\ LifeOf = [s \in Streams |-> "none"]
  BY <1>1, <1>2, <1>3, AccountsAre
<1>5. QED
  BY <1>4 DEF Accounts!AccountsInit, Accounts!NoLedger, NoLedger

\* Every step is a move of the accounts, or leaves them alone.
LEMMA RefinesStep ==
    ASSUME TreeInv, [Next]_vars
    PROVE  [Accounts!AccountsNext]_(Accounts!avars)
<1>1. ASSUME UNCHANGED log PROVE UNCHANGED <<AccountOf, LifeOf>>
  BY <1>1, AccountsAre
<1>2. CASE UNCHANGED vars
  BY <1>1, <1>2 DEF vars, Accounts!avars
<1>3. CASE Next
  <2>1. TypeInv /\ Moves
    BY <1>3, LogMoves DEF TreeInv
  <2>2. ASSUME NEW t \in Streams, NEW g \in Balance, Births(t, g)
        PROVE  Accounts!AccountsNext
    <3>1. Accounts!Begin(t, g)
      BY <2>1, <2>2, BirthRefines
    <3>2. QED
      BY <3>1 DEF Accounts!AccountsNext, Accounts!Balance, Accounts!NoLedger, Balance, NoLedger
  <2>3. ASSUME NEW t \in Streams, NEW e \in Event, Appends(t, e)
        PROVE  Accounts!AccountsNext \/ UNCHANGED <<AccountOf, LifeOf>>
    BY <2>1, <2>3, AppendRefines
  <2>4. ASSUME NEW p \in Streams, NEW c \in Streams, NEW a \in 0 .. MaxI64, Allocates(p, c, a)
        PROVE  Accounts!AccountsNext
    <3>1. Accounts!Allocate(p, c, a)
      BY <2>1, <2>4, AllocationRefines
    <3>2. QED
      BY <3>1 DEF Accounts!AccountsNext
  <2>5. Accounts!AccountsNext \/ UNCHANGED <<AccountOf, LifeOf>>
    BY <1>1, <2>1, <2>2, <2>3, <2>4 DEF Moves
  <2>6. QED
    BY <2>5 DEF Accounts!avars
<1>4. QED
  BY <1>2, <1>3

\* The event logs, with their handles, caches, cancelled calls and crashes,
\* implement one account per session moved in single steps: deciding on a log
\* inside a transaction is as good as that (KnlAccounts; Session::reserve, spend,
\* open_child, open_on, grant_more, close_with, close_detached).
THEOREM LogsImplementAccounts == Spec => ImplementsAccounts
<1>1. Init => Accounts!AccountsInit
  BY RefinesInit
<1>2. TreeInv /\ [Next]_vars => [Accounts!AccountsNext]_(Accounts!avars)
  BY RefinesStep
<1>3. QED
  BY <1>1, <1>2, TreeInvariant, PTL DEF Spec, ImplementsAccounts, Accounts!AccountsSpec

----------------------------------------------------------------------------
(* Sums over finite sets *)

\* The element a sum takes out of a set next, for the subsets of S.
Pick(S) == [s \in SUBSET S |-> CHOOSE x \in s : TRUE]

\* What it is to be the sums of the values of g over the sets of a family D that has,
\* with a set, the set without its next element.
IsSumOn(F, g, c, D) == F = [s \in D |-> IF s = {} THEN 0 ELSE g[c[s]] + F[s \ {c[s]}]]

\* A choice of one element from every set that has one.
Picks(c, S) == \A s \in SUBSET S : s # {} => c[s] \in s

\* The sum of g over S (MapThenSumSet, with its values as a function).
SumOver(g, S) == (CHOOSE F : IsSumOn(F, g, Pick(S), SUBSET S))[S]

\* An element of s, and the rest of s.
Smaller(c, s, S) ==
    /\ c[s] \in s /\ s \ {c[s]} \in SUBSET S
    /\ Cardinality(s \ {c[s]}) \in Nat /\ Cardinality(s) = Cardinality(s \ {c[s]}) + 1

\* Of a non-empty set an element can be taken, and what is left is smaller.
LEMMA PickOne ==
    ASSUME NEW S, IsFiniteSet(S), NEW c, Picks(c, S), NEW s \in SUBSET S, s # {}
    PROVE  Smaller(c, s, S)
<1>1. c[s] \in s
  BY DEF Picks
<1>2. IsFiniteSet(s) /\ IsFiniteSet(s \ {c[s]})
  BY FS_Subset
<1>3. Cardinality(s) \in Nat /\ Cardinality(s \ {c[s]}) = Cardinality(s) - 1
      /\ Cardinality(s \ {c[s]}) \in Nat
  BY <1>1, <1>2, FS_RemoveElement, FS_CardinalityType
<1>4. QED
  BY <1>1, <1>2, <1>3 DEF Smaller

\* Sums over the sets of up to n elements exist, and so does the sum over S.
LEMMA SumsExist ==
    ASSUME NEW S, IsFiniteSet(S), NEW g \in [S -> Int], NEW c, Picks(c, S)
    PROVE  \E F : IsSumOn(F, g, c, SUBSET S)
<1> DEFINE D(n) == {s \in SUBSET S : Cardinality(s) <= n}
           T == {n \in Nat : \E F : IsSumOn(F, g, c, D(n))}
<1>1. 0 \in T
  <2> DEFINE F == [s \in D(0) |-> 0]
  <2>1. ASSUME NEW s \in D(0), s # {} PROVE FALSE
    <3>1. s \in SUBSET S /\ Cardinality(s) <= 0
      OBVIOUS
    <3>2. Smaller(c, s, S)
      BY <2>1, <3>1, PickOne
    <3>3. QED
      BY <3>1, <3>2 DEF Smaller
  <2>2. IsSumOn(F, g, c, D(0))
    BY <2>1 DEF IsSumOn
  <2>3. QED
    BY <2>2
<1>2. ASSUME NEW n \in Nat, n \in T PROVE n + 1 \in T
  <2>1. PICK F : IsSumOn(F, g, c, D(n))
    BY <1>2
  <2> DEFINE V(s) == IF s = {} THEN 0 ELSE g[c[s]] + F[s \ {c[s]}]
             G == [s \in D(n + 1) |-> V(s)]
  <2>2. ASSUME NEW s \in D(n + 1), s # {} PROVE s \ {c[s]} \in D(n)
    <3>1. s \in SUBSET S /\ Cardinality(s) <= n + 1
      OBVIOUS
    <3>2. Smaller(c, s, S)
      BY <2>2, <3>1, PickOne
    <3>3. QED
      BY <3>1, <3>2 DEF Smaller
  <2>3. \A s \in D(n) : s \in D(n + 1) /\ F[s] = V(s)
    <3>1. ASSUME NEW s \in D(n) PROVE s \in D(n + 1)
      <4>1. Cardinality(s) \in Nat
        BY FS_Subset, FS_CardinalityType
      <4>2. QED
        BY <4>1
    <3>2. \A s \in D(n) : F[s] = V(s)
      BY <2>1 DEF IsSumOn
    <3>3. QED
      BY <3>1, <3>2
  <2>4. \A s \in D(n + 1) : s # {} => G[s \ {c[s]}] = F[s \ {c[s]}]
    BY <2>2, <2>3
  <2> HIDE DEF D
  <2>5. \A s \in D(n + 1) : V(s) = IF s = {} THEN 0 ELSE g[c[s]] + G[s \ {c[s]}]
    BY <2>4
  <2>6. IsSumOn(G, g, c, D(n + 1))
    BY <2>5 DEF IsSumOn
  <2>7. QED
    BY <2>6
<1> HIDE DEF T
<1>3. \A n \in Nat : n \in T
  BY <1>1, <1>2, SetInduction
<1>4. Cardinality(S) \in Nat /\ D(Cardinality(S)) = SUBSET S
  <2>1. \A s \in SUBSET S : Cardinality(s) <= Cardinality(S)
    BY FS_Subset
  <2>2. QED
    BY <2>1, FS_CardinalityType
<1>5. QED
  BY <1>3, <1>4 DEF T

\* What a sum of integers is, whatever the order of its terms: nothing of nothing,
\* and an element's value more with every element.
SumOf(F, g, S) ==
    /\ IsFiniteSet(S)
    /\ g \in [S -> Int]
    /\ F[{}] = 0
    /\ \A s \in SUBSET S : F[s] \in Int
    /\ \A x \in S : \A s \in SUBSET S : x \notin s => F[s \cup {x}] = g[x] + F[s]

\* The order in which a sum takes the elements out does not matter.
LEMMA SumsAgree ==
    ASSUME NEW S, IsFiniteSet(S), NEW g \in [S -> Int], NEW c, Picks(c, S),
           NEW F, IsSumOn(F, g, c, SUBSET S)
    PROVE  SumOf(F, g, S)
<1> DEFINE T == {n \in Nat : \A s \in SUBSET S : Cardinality(s) = n => F[s] \in Int}
<1>1. \A s \in SUBSET S : F[s] = IF s = {} THEN 0 ELSE g[c[s]] + F[s \ {c[s]}]
  BY DEF IsSumOn
<1>2. \A s \in SUBSET S : Cardinality(s) \in Nat /\ (Cardinality(s) = 0 <=> s = {})
  BY FS_Subset, FS_CardinalityType, FS_EmptySet
<1>3. 0 \in T
  <2>1. F[{}] = 0
    BY <1>1
  <2>2. ASSUME NEW s \in SUBSET S, Cardinality(s) = 0 PROVE F[s] \in Int
    <3>1. s = {}
      BY <1>2, <2>2
    <3>2. QED
      BY <2>1, <3>1
  <2>3. QED
    BY <2>2
<1>4. ASSUME NEW n \in Nat, n \in T PROVE n + 1 \in T
  <2>1. ASSUME NEW s \in SUBSET S, Cardinality(s) = n + 1 PROVE F[s] \in Int
    <3>1. s # {}
      BY <1>2, <2>1
    <3>2. Smaller(c, s, S)
      BY <3>1, PickOne
    <3>3. c[s] \in S /\ s \ {c[s]} \in SUBSET S /\ Cardinality(s \ {c[s]}) = n
      BY <2>1, <3>2 DEF Smaller
    <3>4. F[s \ {c[s]}] \in Int /\ g[c[s]] \in Int
      BY <1>4, <3>3
    <3>5. F[s] = g[c[s]] + F[s \ {c[s]}]
      BY <1>1, <3>1
    <3>6. QED
      BY <3>4, <3>5
  <2>2. QED
    BY <2>1
<1>5. \A n \in Nat : n \in T
  <2> HIDE DEF T
  <2>1. QED
    BY <1>3, <1>4, SetInduction
<1>6. \A s \in SUBSET S : F[s] \in Int
  BY <1>2, <1>5
<1> DEFINE U == {n \in Nat : \A x \in S : \A s \in SUBSET S :
                               Cardinality(s) = n /\ x \notin s => F[s \cup {x}] = g[x] + F[s]}
<1>7. 0 \in U
  <2> SUFFICES ASSUME NEW x \in S, NEW s \in SUBSET S, Cardinality(s) = 0
               PROVE  F[s \cup {x}] = g[x] + F[s]
    OBVIOUS
  <2>1. s = {} /\ s \cup {x} = {x} /\ {x} \in SUBSET S /\ {x} # {}
    BY <1>2
  <2>2. c[{x}] = x
    BY <2>1 DEF Picks
  <2>3. F[{x}] = g[x] + F[{}]
    <3>1. {x} \ {x} = {}
      OBVIOUS
    <3>2. QED
      BY <1>1, <2>1, <2>2, <3>1
  <2>4. QED
    BY <2>1, <2>3
<1>8. ASSUME NEW n \in Nat, n \in U PROVE n + 1 \in U
  <2> SUFFICES ASSUME NEW x \in S, NEW s \in SUBSET S, Cardinality(s) = n + 1, x \notin s
               PROVE  F[s \cup {x}] = g[x] + F[s]
    OBVIOUS
  <2> DEFINE t == s \cup {x}
             y == c[t]
  <2>1. t \in SUBSET S /\ t # {} /\ y \in t
    BY DEF Picks
  <2>2. F[t] = g[y] + F[t \ {y}]
    BY <1>1, <2>1
  <2>3. CASE y = x
    <3>1. t \ {y} = s
      BY <2>3
    <3>2. QED
      BY <2>2, <2>3, <3>1
  <2>4. CASE y # x
    <3> DEFINE r == s \ {y}
    <3>1. /\ y \in s /\ y \in S /\ t \ {y} = r \cup {x} /\ r \cup {y} = s
          /\ r \in SUBSET S /\ x \notin r /\ y \notin r
      BY <2>1, <2>4
    <3>2. Cardinality(r) = n
      <4>1. IsFiniteSet(s)
        BY FS_Subset
      <4>2. Cardinality(s \ {y}) = IF y \in s THEN Cardinality(s) - 1 ELSE Cardinality(s)
        <5> HIDE DEF y
        <5>1. QED
          BY <4>1, FS_RemoveElement
      <4>3. QED
        BY <3>1, <4>2
    <3> HIDE DEF r, t
    <3>3. F[r \cup {x}] = g[x] + F[r] /\ F[r \cup {y}] = g[y] + F[r]
      BY <1>8, <3>1, <3>2
    <3>4. g[x] \in Int /\ g[y] \in Int /\ F[r] \in Int
      BY <1>6, <3>1
    <3>5. F[t] = g[y] + (g[x] + F[r]) /\ F[s] = g[y] + F[r]
      BY <2>2, <3>1, <3>3
    <3>6. F[t] = g[x] + F[s]
      BY <3>4, <3>5
    <3>7. QED
      BY <3>6 DEF t
  <2>5. QED
    BY <2>3, <2>4
<1>9. \A n \in Nat : n \in U
  <2> HIDE DEF U
  <2>1. QED
    BY <1>7, <1>8, SetInduction
<1>10. \A x \in S : \A s \in SUBSET S : x \notin s => F[s \cup {x}] = g[x] + F[s]
  BY <1>2, <1>9
<1>11. F[{}] = 0
  BY <1>1
<1>12. QED
  BY <1>6, <1>10, <1>11 DEF SumOf

\* Two sums, of functions that agree on a set, agree on it.
LEMMA SumsCongruent ==
    ASSUME NEW S, NEW g, NEW F, SumOf(F, g, S), NEW T, NEW h, NEW G, SumOf(G, h, T),
           NEW A, A \in SUBSET S, A \in SUBSET T, \A x \in A : g[x] = h[x]
    PROVE  F[A] = G[A]
<1> DEFINE U == {n \in Nat : \A s \in SUBSET A : Cardinality(s) = n => F[s] = G[s]}
<1>1. \A s \in SUBSET A : /\ IsFiniteSet(s) /\ Cardinality(s) \in Nat
                          /\ Cardinality(s) = 0 <=> s = {}
  <2>1. IsFiniteSet(S)
    BY DEF SumOf
  <2>2. \A s \in SUBSET A : IsFiniteSet(s)
    BY <2>1, FS_Subset
  <2>3. QED
    BY <2>2, FS_CardinalityType, FS_EmptySet
<1>2. 0 \in U
  <2>1. F[{}] = 0 /\ G[{}] = 0
    BY DEF SumOf
  <2>2. QED
    BY <1>1, <2>1
<1>3. ASSUME NEW n \in Nat, n \in U PROVE n + 1 \in U
  <2>1. ASSUME NEW s \in SUBSET A, Cardinality(s) = n + 1 PROVE F[s] = G[s]
    <3>1. s # {}
      BY <1>1, <2>1
    <3>2. PICK x : x \in s
      BY <3>1
    <3> DEFINE r == s \ {x}
    <3>3. r \in SUBSET A /\ x \notin r /\ r \cup {x} = s /\ x \in A
      BY <3>2
    <3>4. Cardinality(r) = n
      <4>1. IsFiniteSet(s)
        BY <1>1
      <4>2. Cardinality(s \ {x}) = IF x \in s THEN Cardinality(s) - 1 ELSE Cardinality(s)
        BY <4>1, FS_RemoveElement
      <4>3. QED
        BY <2>1, <3>2, <4>2
    <3> HIDE DEF r
    <3>5. F[r] = G[r]
      BY <1>3, <3>3, <3>4
    <3>6. F[r \cup {x}] = g[x] + F[r]
      <4>1. x \in S /\ r \in SUBSET S
        BY <3>3
      <4>2. QED
        BY <3>3, <4>1 DEF SumOf
    <3>7. G[r \cup {x}] = h[x] + G[r]
      <4>1. x \in T /\ r \in SUBSET T
        BY <3>3
      <4>2. QED
        BY <3>3, <4>1 DEF SumOf
    <3>8. QED
      BY <3>3, <3>5, <3>6, <3>7
  <2>2. QED
    BY <2>1
<1>4. \A n \in Nat : n \in U
  <2> HIDE DEF U
  <2>1. QED
    BY <1>2, <1>3, SetInduction
<1>5. A \in SUBSET A /\ Cardinality(A) \in Nat
  BY <1>1
<1>6. QED
  BY <1>4, <1>5

\* The sum over S is one of those sums.
LEMMA SumOverIs ==
    ASSUME NEW S, IsFiniteSet(S), NEW g \in [S -> Int]
    PROVE  \E F : SumOf(F, g, S) /\ SumOver(g, S) = F[S]
<1> DEFINE c == Pick(S)
           F == CHOOSE F : IsSumOn(F, g, c, SUBSET S)
<1>1. Picks(c, S)
  BY DEF Picks, Pick
<1> HIDE DEF c
<1>2. \E G : IsSumOn(G, g, c, SUBSET S)
  BY <1>1, SumsExist
<1>3. IsSumOn(F, g, c, SUBSET S)
  BY <1>2
<1>4. SumOver(g, S) = F[S]
  BY DEF SumOver, c
<1> HIDE DEF F
<1>5. SumOf(F, g, S)
  BY <1>1, <1>3, SumsAgree
<1>6. QED
  BY <1>4, <1>5

\* A sum of integers is one.
LEMMA SumType ==
    ASSUME NEW S, IsFiniteSet(S), NEW g \in [S -> Int]
    PROVE  SumOver(g, S) \in Int
<1>1. PICK F : SumOf(F, g, S) /\ SumOver(g, S) = F[S]
  BY SumOverIs
<1>2. S \in SUBSET S
  OBVIOUS
<1>3. QED
  BY <1>1, <1>2 DEF SumOf

\* A set with one element more.
LEMMA SumInsert ==
    ASSUME NEW S, IsFiniteSet(S), NEW g \in [S -> Int], NEW x, x \notin S,
           NEW h \in [S \cup {x} -> Int], \A y \in S : h[y] = g[y]
    PROVE  SumOver(h, S \cup {x}) = h[x] + SumOver(g, S)
<1> DEFINE T == S \cup {x}
<1>1. IsFiniteSet(T) /\ x \in T /\ S \in SUBSET T /\ h \in [T -> Int]
  BY FS_AddElement
<1>2. PICK F : SumOf(F, g, S) /\ SumOver(g, S) = F[S]
  BY SumOverIs
<1>3. PICK G : SumOf(G, h, T) /\ SumOver(h, T) = G[T]
  <2> HIDE DEF T
  <2>1. QED
    BY <1>1, SumOverIs
<1>4. G[S \cup {x}] = h[x] + G[S]
  <2> HIDE DEF T
  <2>1. QED
    BY <1>1, <1>3 DEF SumOf
<1>5. F[S] = G[S]
  <2> HIDE DEF T
  <2>1. S \in SUBSET S /\ \A y \in S : g[y] = h[y]
    OBVIOUS
  <2>2. QED
    BY <1>1, <1>2, <1>3, <2>1, SumsCongruent
<1>6. QED
  BY <1>2, <1>3, <1>4, <1>5

\* A function that is changed at one point.
LEMMA SumUpdate ==
    ASSUME NEW S, IsFiniteSet(S), NEW g \in [S -> Int], NEW h \in [S -> Int], NEW x \in S,
           \A y \in S : y # x => h[y] = g[y]
    PROVE  SumOver(h, S) = SumOver(g, S) + h[x] - g[x]
<1> DEFINE R == S \ {x}
           r == [y \in R |-> g[y]]
<1>1. IsFiniteSet(R) /\ x \notin R /\ R \cup {x} = S
  BY FS_RemoveElement
<1>2. r \in [R -> Int] /\ (\A y \in R : g[y] = r[y]) /\ \A y \in R : h[y] = r[y]
  OBVIOUS
<1> HIDE DEF R, r
<1>3. SumOver(g, R \cup {x}) = g[x] + SumOver(r, R)
  <2>1. g \in [R \cup {x} -> Int]
    BY <1>1
  <2>2. QED
    BY <1>1, <1>2, <2>1, SumInsert
<1>4. SumOver(h, R \cup {x}) = h[x] + SumOver(r, R)
  <2>1. h \in [R \cup {x} -> Int]
    BY <1>1
  <2>2. QED
    BY <1>1, <1>2, <2>1, SumInsert
<1>5. SumOver(r, R) \in Int /\ g[x] \in Int /\ h[x] \in Int
  BY <1>1, <1>2, SumType
<1>6. SumOver(g, S) = g[x] + SumOver(r, R) /\ SumOver(h, S) = h[x] + SumOver(r, R)
  BY <1>1, <1>3, <1>4
<1>7. QED
  BY <1>5, <1>6

----------------------------------------------------------------------------
(* The units of a log *)

EntriesIn(l) == UNION {{s} \X DOMAIN l[s] : s \in Streams}

\* What one event hands out, and what it brings in when it is written on the balance b.
HandedBy(e) == IF e.kind = KIND_BUDGET_RESERVED /\ e.peer = NoStream THEN e.amount ELSE 0

EntersBy(b, e) ==
    IF \/ e.kind = KIND_BUDGET_GRANTED /\ e.peer = NoStream
       \/ e.kind = KIND_BUDGET_RESERVED /\ e.peer # NoStream /\ b = NoLedger
    THEN e.amount ELSE 0

Left(l) == [s \in Streams |-> floor0(fold_balance(l[s]))]
Handed(l) == [x \in EntriesIn(l) |-> HandedBy(l[x[1]][x[2]])]
Entered(l) == [x \in EntriesIn(l) |-> EntersBy(Folded(l[x[1]])[x[2] - 1], l[x[1]][x[2]])]

\* What is there beyond what entered: UnitsConserved says it is not more than 0.
Units(l) == SumOver(Left(l), Streams) + SumOver(Handed(l), EntriesIn(l))
              - SumOver(Entered(l), EntriesIn(l))

\* What an event written on the balance b adds to that.
Gain(b, e) == floor0(FoldStep(b, e)) - floor0(b) + HandedBy(e) - EntersBy(b, e)

\* Logs whose units can be summed.
Booked(l) == l \in [Streams -> Seq(Event)] /\ IsFiniteSet(EntriesIn(l))

\* The sums range over integers.
LEMMA UnitTypes ==
    ASSUME NEW l, Booked(l)
    PROVE  /\ Left(l) \in [Streams -> Int]
           /\ Handed(l) \in [EntriesIn(l) -> Int]
           /\ Entered(l) \in [EntriesIn(l) -> Int]
<1>1. \A s \in Streams : l[s] \in Seq(Event)
  BY DEF Booked
<1>2. \A e \in Event : \A b : e.amount \in Int /\ HandedBy(e) \in Int /\ EntersBy(b, e) \in Int
  <2>1. \A e \in Event : e.amount \in Int
    BY LedgerAssumption DEF Event
  <2>2. QED
    BY <2>1 DEF HandedBy, EntersBy
<1>3. \A s \in Streams : floor0(fold_balance(l[s])) \in Int
  <2>1. \A b \in Balance : floor0(b) \in Int
    BY LedgerAssumption DEF Balance, NoLedger, floor0
  <2>2. QED
    BY <1>1, <2>1, FoldBalanceType
<1>4. \A x \in EntriesIn(l) : l[x[1]][x[2]] \in Event
  <2>1. ASSUME NEW x \in EntriesIn(l) PROVE l[x[1]][x[2]] \in Event
    <3>1. PICK s \in Streams : x \in {s} \X DOMAIN l[s]
      BY DEF EntriesIn
    <3>2. x[1] = s /\ x[2] \in DOMAIN l[s]
      BY <3>1
    <3>3. \A i \in DOMAIN l[s] : l[s][i] \in Event
      BY <1>1
    <3>4. QED
      BY <3>2, <3>3
  <2>2. QED
    BY <2>1
<1>5. QED
  BY <1>2, <1>3, <1>4 DEF Left, Handed, Entered

\* One event more on one stream.
Grown(l, t, e) == [l EXCEPT ![t] = @ \o <<e>>]

\* It is an entry more, and the entries before it are what they were.
LEMMA GrownEntries ==
    ASSUME NEW l, Booked(l), NEW t \in Streams, NEW e \in Event
    PROVE  LET m == Grown(l, t, e)
               n == <<t, Len(l[t]) + 1>> IN
           /\ Booked(m) /\ n \notin EntriesIn(l) /\ EntriesIn(m) = EntriesIn(l) \cup {n}
           /\ Handed(m)[n] = HandedBy(e) /\ Entered(m)[n] = EntersBy(fold_balance(l[t]), e)
           /\ \A x \in EntriesIn(l) : Handed(m)[x] = Handed(l)[x] /\ Entered(m)[x] = Entered(l)[x]
<1> DEFINE m == Grown(l, t, e)
           k == Len(l[t])
           n == <<t, k + 1>>
<1>1. l[t] \in Seq(Event) /\ l \in [Streams -> Seq(Event)] /\ IsFiniteSet(EntriesIn(l))
  BY DEF Booked
<1>2. /\ l[t] \o <<e>> \in Seq(Event) /\ k \in Nat
      /\ DOMAIN l[t] = 1 .. k /\ DOMAIN (l[t] \o <<e>>) = 1 .. (k + 1)
      /\ (l[t] \o <<e>>)[k + 1] = e /\ \A i \in DOMAIN l[t] : (l[t] \o <<e>>)[i] = l[t][i]
  BY <1>1, OneMore
<1>3. /\ m \in [Streams -> Seq(Event)] /\ m[t] = l[t] \o <<e>>
      /\ \A s \in Streams : s # t => m[s] = l[s]
  BY <1>1, <1>2 DEF Grown
<1>4. \A i \in 0 .. k : Folded(m[t])[i] = Folded(l[t])[i]
  <2>1. <<e>> \in Seq(Event)
    OBVIOUS
  <2>2. QED
    BY <1>1, <1>3, <2>1, FoldedPrefix
<1> HIDE DEF m, k
<1>5. n \notin EntriesIn(l)
  <2>1. ASSUME n \in EntriesIn(l) PROVE FALSE
    <3>1. PICK s \in Streams : n \in {s} \X DOMAIN l[s]
      BY <2>1 DEF EntriesIn
    <3>2. t = s /\ k + 1 \in DOMAIN l[s]
      BY <3>1
    <3>3. QED
      BY <1>2, <3>2
  <2>2. QED
    BY <2>1
<1>6. EntriesIn(m) = EntriesIn(l) \cup {n}
  <2>1. DOMAIN m[t] = DOMAIN l[t] \cup {k + 1}
    BY <1>2, <1>3
  <2>2. \A x : x \in EntriesIn(m) <=> \E s \in Streams : x \in {s} \X DOMAIN m[s]
    BY DEF EntriesIn
  <2>3. \A x : x \in EntriesIn(l) <=> \E s \in Streams : x \in {s} \X DOMAIN l[s]
    BY DEF EntriesIn
  <2>4. ASSUME NEW x \in EntriesIn(m) PROVE x \in EntriesIn(l) \cup {n}
    <3>1. PICK s \in Streams : x \in {s} \X DOMAIN m[s]
      BY <2>2
    <3>2. PICK i \in DOMAIN m[s] : x = <<s, i>>
      BY <3>1
    <3>3. CASE s = t /\ i = k + 1
      BY <3>2, <3>3
    <3>4. CASE i \in DOMAIN l[s]
      BY <2>3, <3>2, <3>4
    <3>5. QED
      BY <1>3, <2>1, <3>2, <3>3, <3>4
  <2>5. ASSUME NEW x \in EntriesIn(l) PROVE x \in EntriesIn(m)
    <3>1. PICK s \in Streams : x \in {s} \X DOMAIN l[s]
      BY <2>3
    <3>2. DOMAIN l[s] \subseteq DOMAIN m[s]
      BY <1>3, <2>1
    <3>3. QED
      BY <2>2, <3>1, <3>2
  <2>6. n \in EntriesIn(m)
    <3>1. k + 1 \in DOMAIN m[t]
      BY <2>1
    <3>2. n \in {t} \X DOMAIN m[t]
      BY <3>1
    <3>3. QED
      BY <2>2, <3>2
  <2>7. QED
    BY <2>4, <2>5, <2>6
<1>7. Booked(m)
  BY <1>1, <1>3, <1>6, FS_AddElement DEF Booked
<1>8. Handed(m)[n] = HandedBy(e) /\ Entered(m)[n] = EntersBy(fold_balance(l[t]), e)
  <2>1. n \in EntriesIn(m) /\ n[1] = t /\ n[2] = k + 1 /\ (k + 1) - 1 = k
    BY <1>2, <1>6
  <2>2. m[t][k + 1] = e /\ Folded(m[t])[k] = fold_balance(l[t])
    <3>1. m[t][k + 1] = e
      BY <1>2, <1>3
    <3>2. k \in 0 .. k
      BY <1>2
    <3>3. Folded(m[t])[k] = Folded(l[t])[k]
      BY <1>4, <3>2
    <3>4. QED
      BY <3>1, <3>3 DEF fold_balance, k
  <2> HIDE DEF n
  <2>3. Handed(m)[n] = HandedBy(m[n[1]][n[2]])
    BY <2>1 DEF Handed
  <2>4. Entered(m)[n] = EntersBy(Folded(m[n[1]])[n[2] - 1], m[n[1]][n[2]])
    BY <2>1 DEF Entered
  <2>5. QED
    BY <2>1, <2>2, <2>3, <2>4
<1>9. ASSUME NEW x \in EntriesIn(l)
      PROVE  Handed(m)[x] = Handed(l)[x] /\ Entered(m)[x] = Entered(l)[x]
  <2>1. PICK s \in Streams : x \in {s} \X DOMAIN l[s]
    BY DEF EntriesIn
  <2>2. x[1] = s /\ x[2] \in DOMAIN l[s]
    BY <2>1
  <2>3. m[s][x[2]] = l[s][x[2]] /\ Folded(m[s])[x[2] - 1] = Folded(l[s])[x[2] - 1]
    <3>1. CASE s = t
      <4>1. x[2] \in 1 .. k /\ x[2] - 1 \in 0 .. k
        BY <1>2, <2>2, <3>1
      <4>2. Folded(m[s])[x[2] - 1] = Folded(l[s])[x[2] - 1]
        BY <1>4, <3>1, <4>1
      <4>3. m[s][x[2]] = l[s][x[2]]
        BY <1>2, <1>3, <2>2, <3>1
      <4>4. QED
        BY <4>2, <4>3
    <3>2. QED
      BY <1>3, <3>1
  <2>4. x \in EntriesIn(m)
    BY <1>6
  <2>5. /\ Handed(m)[x] = HandedBy(m[x[1]][x[2]]) /\ Handed(l)[x] = HandedBy(l[x[1]][x[2]])
        /\ Entered(m)[x] = EntersBy(Folded(m[x[1]])[x[2] - 1], m[x[1]][x[2]])
        /\ Entered(l)[x] = EntersBy(Folded(l[x[1]])[x[2] - 1], l[x[1]][x[2]])
    BY <2>4 DEF Handed, Entered
  <2>6. QED
    BY <2>2, <2>3, <2>5
<1>10. QED
  BY <1>5, <1>6, <1>7, <1>8, <1>9 DEF m, k

\* So the units change by what the event gains.
LEMMA GrownUnits ==
    ASSUME IsFiniteSet(Streams), NEW l, Booked(l), NEW t \in Streams, NEW e \in Event
    PROVE  LET m == Grown(l, t, e) IN
           /\ Booked(m) /\ Units(l) \in Int /\ Units(m) \in Int
           /\ Units(m) = Units(l) + Gain(fold_balance(l[t]), e)
<1> DEFINE m == Grown(l, t, e)
           n == <<t, Len(l[t]) + 1>>
           b == fold_balance(l[t])
<1>1. /\ Booked(m) /\ n \notin EntriesIn(l) /\ EntriesIn(m) = EntriesIn(l) \cup {n}
      /\ Handed(m)[n] = HandedBy(e) /\ Entered(m)[n] = EntersBy(b, e)
      /\ \A x \in EntriesIn(l) : Handed(m)[x] = Handed(l)[x] /\ Entered(m)[x] = Entered(l)[x]
  BY GrownEntries
<1>2. l[t] \in Seq(Event) /\ l \in [Streams -> Seq(Event)]
  BY DEF Booked
<1>3. /\ Left(m) \in [Streams -> Int] /\ Left(l) \in [Streams -> Int]
      /\ Left(l)[t] = floor0(b) /\ Left(m)[t] = floor0(FoldStep(b, e))
      /\ \A s \in Streams : s # t => Left(m)[s] = Left(l)[s]
  <2>1. m[t] = l[t] \o <<e>> /\ \A s \in Streams : s # t => m[s] = l[s]
    BY <1>2 DEF Grown
  <2>2. fold_balance(m[t]) = FoldStep(b, e)
    BY <1>2, <2>1, FoldAppend
  <2>3. Left(m) \in [Streams -> Int] /\ Left(l) \in [Streams -> Int]
    BY <1>1, UnitTypes
  <2> HIDE DEF m
  <2>4. QED
    BY <2>1, <2>2, <2>3 DEF Left
<1>4. /\ Handed(m) \in [EntriesIn(m) -> Int] /\ Handed(l) \in [EntriesIn(l) -> Int]
      /\ Entered(m) \in [EntriesIn(m) -> Int] /\ Entered(l) \in [EntriesIn(l) -> Int]
      /\ IsFiniteSet(EntriesIn(m)) /\ IsFiniteSet(EntriesIn(l))
  BY <1>1, UnitTypes DEF Booked
<1> HIDE DEF m, n
<1>5. SumOver(Left(m), Streams) = SumOver(Left(l), Streams) + Left(m)[t] - Left(l)[t]
  BY <1>3, SumUpdate
<1>6. SumOver(Handed(m), EntriesIn(m)) = Handed(m)[n] + SumOver(Handed(l), EntriesIn(l))
  BY <1>1, <1>4, SumInsert
<1>7. SumOver(Entered(m), EntriesIn(m)) = Entered(m)[n] + SumOver(Entered(l), EntriesIn(l))
  BY <1>1, <1>4, SumInsert
<1>8. /\ SumOver(Left(l), Streams) \in Int /\ SumOver(Handed(l), EntriesIn(l)) \in Int
      /\ SumOver(Entered(l), EntriesIn(l)) \in Int
  BY <1>3, <1>4, SumType
<1>9. Left(m)[t] \in Int /\ Left(l)[t] \in Int /\ Handed(m)[n] \in Int /\ Entered(m)[n] \in Int
  BY <1>1, <1>3, <1>4
<1>10. Units(l) \in Int /\ Units(m) \in Int
       /\ Units(m) = Units(l) + (Left(m)[t] - Left(l)[t] + Handed(m)[n] - Entered(m)[n])
  BY <1>5, <1>6, <1>7, <1>8, <1>9 DEF Units
<1>11. Gain(b, e) = Left(m)[t] - Left(l)[t] + Handed(m)[n] - Entered(m)[n]
  BY <1>1, <1>3 DEF Gain
<1>12. QED
  BY <1>1, <1>10, <1>11 DEF m

----------------------------------------------------------------------------
(* No move makes units *)

\* The opening of a stream moves none; an owner's grant to a new ledger brings in
\* what it leaves; a child's grant leaves what the parent's reservation took.
LEMMA Gains ==
    ASSUME NEW e \in Event
    PROVE  /\ e.kind = KIND_SESSION_OPENED => Gain(NoLedger, e) = 0
           /\ e.kind = KIND_BUDGET_GRANTED /\ e.peer = NoStream => Gain(NoLedger, e) = 0
           /\ e.kind = KIND_BUDGET_GRANTED /\ e.peer # NoStream => Gain(NoLedger, e) = e.amount
           /\ \A b \in Balance : e.kind = KIND_BUDGET_RESERVED /\ e.peer # NoStream
                                  /\ (b = NoLedger \/ e.amount <= b) => Gain(b, e) = -e.amount
<1>1. e.amount \in 0 .. MaxI64 /\ MaxI64 \in Nat
  BY LedgerAssumption DEF Event
<1>2. e.kind = KIND_SESSION_OPENED => Gain(NoLedger, e) = 0
  BY DEF Gain, HandedBy, EntersBy, FoldStep, floor0, NoLedger, KIND_SESSION_OPENED,
         KIND_BUDGET_GRANTED, KIND_BUDGET_RESERVED, KIND_BUDGET_SPENT
<1>3. e.kind = KIND_BUDGET_GRANTED
        => Gain(NoLedger, e) = IF e.peer = NoStream THEN 0 ELSE e.amount
  BY <1>1 DEF Gain, HandedBy, EntersBy, FoldStep, saturating_add, floor0, NoLedger,
              KIND_BUDGET_GRANTED, KIND_BUDGET_RESERVED
<1>4. ASSUME NEW b \in Balance, e.kind = KIND_BUDGET_RESERVED, e.peer # NoStream,
             b = NoLedger \/ e.amount <= b
      PROVE  Gain(b, e) = -e.amount
  BY <1>1, <1>4 DEF Balance, Gain, HandedBy, EntersBy, FoldStep, floor0, NoLedger,
                    KIND_BUDGET_GRANTED, KIND_BUDGET_RESERVED
<1>5. QED
  BY <1>2, <1>3, <1>4

\* An event decided on by Lawful gains nothing: saturation and a spend lose units, a
\* reservation hands out what it takes.
LEMMA LawfulGains ==
    ASSUME TypeInv, NEW t \in Streams, NEW e \in Event, Lawful(t, e)
    PROVE  Gain(fold_balance(log[t]), e) \in Int /\ Gain(fold_balance(log[t]), e) <= 0
<1> DEFINE b == fold_balance(log[t])
<1>1. e.amount \in 0 .. MaxI64 /\ MaxI64 \in Nat
  BY LedgerAssumption DEF Event
<1>2. b \in Balance
  BY FoldBalanceType DEF TypeInv, TypeOK
<1>3. /\ e.kind = KIND_BUDGET_RESERVED => e.peer = NoStream /\ b # NoLedger /\ e.amount <= b
      /\ e.kind = KIND_BUDGET_GRANTED => e.peer = NoStream
  BY DEF Lawful
<1> HIDE DEF b
<1>4. CASE e.kind = KIND_BUDGET_GRANTED
  <2>1. HandedBy(e) = 0 /\ EntersBy(b, e) = e.amount
    BY <1>3, <1>4 DEF HandedBy, EntersBy, KIND_BUDGET_GRANTED, KIND_BUDGET_RESERVED
  <2>2. FoldStep(b, e) = saturating_add(floor0(b), floor0(e.amount))
    BY <1>4 DEF FoldStep
  <2>3. floor0(b) \in 0 .. MaxI64 /\ floor0(e.amount) = e.amount
    BY <1>1, <1>2 DEF floor0, Balance, NoLedger
  <2>4. /\ saturating_add(floor0(b), e.amount) \in Nat
        /\ saturating_add(floor0(b), e.amount) <= floor0(b) + e.amount
    BY <1>1, <2>3 DEF saturating_add
  <2>5. floor0(FoldStep(b, e)) = saturating_add(floor0(b), e.amount)
    BY <2>2, <2>3, <2>4 DEF floor0
  <2>6. QED
    BY <1>1, <2>1, <2>3, <2>4, <2>5 DEF Gain, b
<1>5. CASE e.kind = KIND_BUDGET_RESERVED
  BY <1>1, <1>2, <1>3, <1>5
     DEF Balance, Gain, HandedBy, EntersBy, FoldStep, floor0, NoLedger, b,
         KIND_BUDGET_GRANTED, KIND_BUDGET_RESERVED
<1>6. CASE e.kind \notin {KIND_BUDGET_GRANTED, KIND_BUDGET_RESERVED}
  <2>1. HandedBy(e) = 0 /\ EntersBy(b, e) = 0
    BY <1>6 DEF HandedBy, EntersBy
  <2>2. floor0(FoldStep(b, e)) \in Int /\ floor0(b) \in Int
        /\ floor0(FoldStep(b, e)) <= floor0(b)
    BY <1>1, <1>2, <1>6 DEF FoldStep, floor0, Balance, NoLedger
  <2>3. QED
    BY <2>1, <2>2 DEF Gain, b
<1>7. QED
  BY <1>4, <1>5, <1>6

\* The logs can be summed, and no unit is there twice.
UnitsInv == Booked(log) /\ Units(log) <= 0

\* A stream that begins with an opening and a grant.
LEMMA GrownTwice ==
    ASSUME NEW l, Booked(l), NEW c \in Streams, l[c] = << >>,
           NEW o \in Event, o.kind = KIND_SESSION_OPENED,
           NEW g \in Event, g.kind = KIND_BUDGET_GRANTED
    PROVE  /\ Booked(Grown(l, c, o)) /\ Booked(Grown(Grown(l, c, o), c, g))
           /\ Grown(l, c, o) = [l EXCEPT ![c] = <<o>>]
           /\ Grown(Grown(l, c, o), c, g) = [l EXCEPT ![c] = <<o, g>>]
           /\ Units(l) \in Int /\ Units(Grown(l, c, o)) = Units(l)
           /\ Units(Grown(Grown(l, c, o), c, g)) = Units(l) + Gain(NoLedger, g)
<1> DEFINE k == Grown(l, c, o)
           m == Grown(k, c, g)
<1>1. Booked(k) /\ Units(l) \in Int /\ Units(k) = Units(l) + Gain(fold_balance(l[c]), o)
  BY UnitsAssumption, GrownUnits
<1>2. l \in [Streams -> Seq(Event)] /\ << >> \in Seq(Event) /\ <<o>> \in Seq(Event)
  BY DEF Booked
<1>3. fold_balance(<< >>) = NoLedger /\ fold_balance(<<o>>) = NoLedger
  BY <1>2, FoldOfBirth, FoldedEnds
<1>4. k = [l EXCEPT ![c] = <<o>>] /\ k[c] = <<o>>
  <2>1. << >> \o <<o>> = <<o>>
    OBVIOUS
  <2>2. QED
    BY <1>2, <2>1 DEF Grown
<1>5. Units(k) = Units(l)
  BY <1>1, <1>3, Gains
<1>6. m = [l EXCEPT ![c] = <<o, g>>]
  <2>1. <<o>> \o <<g>> = <<o, g>>
    <3>1. <<o>> \o <<g>> \in Seq(Event) /\ <<o, g>> \in Seq(Event)
      OBVIOUS
    <3>2. Len(<<o>> \o <<g>>) = 2 /\ Len(<<o, g>>) = 2
      OBVIOUS
    <3>3. \A i \in 1 .. 2 : (<<o>> \o <<g>>)[i] = <<o, g>>[i]
      OBVIOUS
    <3>4. QED
      BY <3>1, <3>2, <3>3, SeqEqual
  <2>2. m = [k EXCEPT ![c] = <<o, g>>]
    BY <1>4, <2>1 DEF Grown
  <2>3. QED
    BY <1>2, <1>4, <2>2
<1> HIDE DEF k
<1>7. Booked(m) /\ Units(m) = Units(k) + Gain(fold_balance(k[c]), g)
  BY <1>1, UnitsAssumption, GrownUnits
<1>8. QED
  BY <1>1, <1>3, <1>4, <1>5, <1>6, <1>7 DEF k

\* open_on brings in what it leaves.
LEMMA BirthUnits ==
    ASSUME TypeInv, TypeInv', UnitsInv, NEW t \in Streams, NEW g \in Balance, Births(t, g)
    PROVE  UnitsInv'
<1> DEFINE n == IF g = NoLedger THEN 0 ELSE g
           o == opened_event
           e == granted_event(n)
<1>1. n \in 0 .. MaxI64
  BY LedgerAssumption DEF Balance, NoLedger
<1>2. o \in Event /\ e \in Event
  BY <1>1, EventTypes
<1>3. o.kind = KIND_SESSION_OPENED /\ e.kind = KIND_BUDGET_GRANTED /\ e.peer = NoStream
  BY DEF opened_event, granted_event, kernel_event
<1>4. /\ log[t] = << >>
      /\ \A u \in Streams : log'[u] = IF u = t THEN FirstEvents(g) ELSE log[u]
  BY DEF Births, Becomes
<1>5. FirstEvents(g) = <<o>> \/ FirstEvents(g) = <<o, e>>
  BY DEF FirstEvents
<1>6. log \in [Streams -> Seq(Event)] /\ log' \in [Streams -> Seq(Event)]
  BY DEF TypeInv, TypeOK
<1>7. log' = [log EXCEPT ![t] = <<o>>] \/ log' = [log EXCEPT ![t] = <<o, e>>]
  BY <1>4, <1>5, <1>6
<1> HIDE DEF n, o, e
<1>8. /\ Booked(Grown(log, t, o)) /\ Booked(Grown(Grown(log, t, o), t, e))
      /\ Grown(log, t, o) = [log EXCEPT ![t] = <<o>>]
      /\ Grown(Grown(log, t, o), t, e) = [log EXCEPT ![t] = <<o, e>>]
      /\ Units(log) \in Int /\ Units(Grown(log, t, o)) = Units(log)
      /\ Units(Grown(Grown(log, t, o), t, e)) = Units(log) + Gain(NoLedger, e)
  BY <1>2, <1>3, <1>4, GrownTwice DEF UnitsInv
<1>9. Gain(NoLedger, e) = 0
  BY <1>2, <1>3, Gains
<1>10. Booked(log') /\ Units(log') = Units(log)
  <2>1. CASE log' = Grown(log, t, o)
    BY <1>8, <2>1
  <2>2. CASE log' = Grown(Grown(log, t, o), t, e)
    BY <1>8, <1>9, <2>2
  <2>3. QED
    BY <1>7, <1>8, <2>1, <2>2
<1>11. QED
  BY <1>8, <1>10 DEF UnitsInv

\* An event that was decided on adds none.
LEMMA AppendUnits ==
    ASSUME TypeInv, TypeInv', UnitsInv, NEW t \in Streams, NEW e \in Event, Appends(t, e)
    PROVE  UnitsInv'
<1>1. Lawful(t, e) /\ \A u \in Streams : log'[u] = IF u = t THEN log[t] \o <<e>> ELSE log[u]
  BY DEF Appends, Becomes
<1>2. log \in [Streams -> Seq(Event)] /\ log' \in [Streams -> Seq(Event)]
  BY DEF TypeInv, TypeOK
<1>3. log' = Grown(log, t, e)
  BY <1>1, <1>2 DEF Grown
<1> DEFINE m == Grown(log, t, e)
           gain == Gain(fold_balance(log[t]), e)
<1>4. Booked(m) /\ Units(log) \in Int /\ Units(m) = Units(log) + gain
  BY UnitsAssumption, GrownUnits DEF UnitsInv
<1>5. gain \in Int /\ gain <= 0
  BY <1>1, LawfulGains
<1> HIDE DEF m, gain
<1>6. Booked(m) /\ Units(m) <= 0
  BY <1>4, <1>5 DEF UnitsInv
<1>7. QED
  BY <1>3, <1>6 DEF UnitsInv, m

\* open_child takes from the parent what it gives the child, or brings it in.
LEMMA AllocationUnits ==
    ASSUME TypeInv, TypeInv', UnitsInv, NEW p \in Streams, NEW c \in Streams,
           NEW a \in 0 .. MaxI64, Allocates(p, c, a)
    PROVE  UnitsInv'
<1> DEFINE e == allocated_event(a, c)
           o == child_opened_event(p)
           g == child_granted_event(a, p)
           b == fold_balance(log[p])
<1>1. e \in Event /\ o \in Event /\ g \in Event
  <2>1. 0 \in 0 .. MaxI64
    BY LedgerAssumption
  <2>2. QED
    BY <2>1, EventTypes
<1>2. /\ e.kind = KIND_BUDGET_RESERVED /\ e.peer # NoStream /\ e.amount = a
      /\ o.kind = KIND_SESSION_OPENED
      /\ g.kind = KIND_BUDGET_GRANTED /\ g.peer # NoStream /\ g.amount = a
  BY LedgerAssumption DEF allocated_event, child_opened_event, child_granted_event,
                          granted_event, kernel_event
<1>3. /\ log[p] # << >> /\ log[c] = << >> /\ (b = NoLedger \/ a <= b)
      /\ \A u \in Streams : log'[u] = IF u = c THEN <<o, g>>
                                      ELSE IF u = p THEN log[u] \o <<e>> ELSE log[u]
  BY DEF Allocates, BornOf
<1> HIDE DEF e, o, g
<1>4. log \in [Streams -> Seq(Event)] /\ log' \in [Streams -> Seq(Event)] /\ b \in Balance
  BY FoldBalanceType DEF TypeInv, TypeOK
<1> HIDE DEF b
<1> DEFINE k == Grown(log, p, e)
<1>5. Booked(k) /\ Units(log) \in Int /\ Units(k) \in Int /\ Units(k) = Units(log) + Gain(b, e)
  BY <1>1, UnitsAssumption, GrownUnits DEF UnitsInv, b
<1>6. p # c /\ k[c] = << >> /\ log' = [k EXCEPT ![c] = <<o, g>>]
  <2>1. p # c
    BY <1>3
  <2>2. k[c] = << >> /\ k[p] = log[p] \o <<e>> /\ k \in [Streams -> Seq(Event)]
        /\ \A u \in Streams : u # p => k[u] = log[u]
    BY <1>1, <1>3, <1>4, <2>1 DEF Grown
  <2> HIDE DEF k
  <2>3. QED
    BY <1>3, <1>4, <2>1, <2>2
<1> HIDE DEF k
<1>7. /\ Booked(Grown(Grown(k, c, o), c, g))
      /\ Grown(Grown(k, c, o), c, g) = [k EXCEPT ![c] = <<o, g>>]
      /\ Units(Grown(Grown(k, c, o), c, g)) = Units(k) + Gain(NoLedger, g)
  BY <1>1, <1>2, <1>5, <1>6, GrownTwice
<1>8. Gain(b, e) = -a /\ Gain(NoLedger, g) = a
  BY <1>1, <1>2, <1>3, <1>4, Gains
<1>9. Booked(log') /\ Units(log') = Units(k) + a /\ Units(k) = Units(log) + (-a)
  BY <1>5, <1>6, <1>7, <1>8
<1>10. Units(log') = Units(log)
  BY <1>5, <1>9
<1>11. QED
  BY <1>9, <1>10 DEF UnitsInv

\* At the start there is nothing to sum.
LEMMA UnitsInit == Init => UnitsInv
<1> SUFFICES ASSUME Init PROVE UnitsInv
  OBVIOUS
<1>1. log \in [Streams -> Seq(Event)] /\ \A s \in Streams : log[s] = << >>
  BY DEF Init
<1>2. EntriesIn(log) = {}
  <2>1. DOMAIN << >> = {}
    OBVIOUS
  <2>2. \A s \in Streams : DOMAIN log[s] = {}
    BY <1>1, <2>1
  <2>3. QED
    BY <2>2 DEF EntriesIn
<1>3. Booked(log)
  BY <1>1, <1>2, FS_EmptySet DEF Booked
<1>4. \A g : g \in [{} -> Int] => SumOver(g, {}) = 0
  <2>1. ASSUME NEW g \in [{} -> Int] PROVE SumOver(g, {}) = 0
    <3>1. PICK F : SumOf(F, g, {}) /\ SumOver(g, {}) = F[{}]
      BY SumOverIs, FS_EmptySet
    <3>2. QED
      BY <3>1 DEF SumOf
  <2>2. QED
    BY <2>1
<1>5. SumOver(Handed(log), EntriesIn(log)) = 0 /\ SumOver(Entered(log), EntriesIn(log)) = 0
  BY <1>2, <1>3, <1>4, UnitTypes
<1>6. SumOver(Left(log), Streams) = 0
  <2>1. fold_balance(<< >>) = NoLedger
    <3>1. << >> \in Seq(Event) /\ Len(<< >>) = 0
      OBVIOUS
    <3>2. QED
      BY <3>1, FoldedEnds
  <2>2. \A s \in Streams : Left(log)[s] = 0
    <3>1. floor0(NoLedger) = 0
      BY DEF floor0, NoLedger
    <3>2. QED
      BY <1>1, <2>1, <3>1 DEF Left
  <2>3. PICK F : SumOf(F, Left(log), Streams) /\ SumOver(Left(log), Streams) = F[Streams]
    BY <1>3, UnitsAssumption, UnitTypes, SumOverIs
  <2> DEFINE Z == [s \in SUBSET Streams |-> 0]
  <2>4. SumOf(Z, Left(log), Streams)
    <3>1. Left(log) \in [Streams -> Int]
      BY <1>3, UnitTypes
    <3>2. QED
      BY <2>2, <3>1, UnitsAssumption DEF SumOf
  <2>5. Streams \in SUBSET Streams /\ Z[Streams] = 0
    OBVIOUS
  <2> HIDE DEF Z
  <2>6. F[Streams] = Z[Streams]
    BY <2>3, <2>4, <2>5, SumsCongruent
  <2>7. QED
    BY <2>3, <2>5, <2>6
<1>7. QED
  BY <1>3, <1>5, <1>6 DEF UnitsInv, Units

\* Every step keeps it.
LEMMA UnitsStep ==
    ASSUME TreeInv, UnitsInv, [Next]_vars
    PROVE  UnitsInv'
<1>1. ASSUME UNCHANGED log PROVE UnitsInv'
  BY <1>1 DEF UnitsInv
<1>2. CASE UNCHANGED vars
  BY <1>1, <1>2 DEF vars
<1>3. CASE Next
  <2>1. TypeInv /\ TypeInv' /\ Moves
    BY <1>3, StepType, LogMoves DEF TreeInv
  <2>2. ASSUME NEW t \in Streams, NEW g \in Balance, Births(t, g) PROVE UnitsInv'
    BY <2>1, <2>2, BirthUnits
  <2>3. ASSUME NEW t \in Streams, NEW e \in Event, Appends(t, e) PROVE UnitsInv'
    BY <2>1, <2>3, AppendUnits
  <2>4. ASSUME NEW p \in Streams, NEW c \in Streams, NEW a \in 0 .. MaxI64, Allocates(p, c, a)
        PROVE  UnitsInv'
    BY <2>1, <2>4, AllocationUnits
  <2>5. QED
    BY <1>1, <2>1, <2>2, <2>3, <2>4 DEF Moves
<1>4. QED
  BY <1>2, <1>3

\* The sums of UnitsConserved are the sums above, taken in some order.
LEMMA UnitsMean ==
    ASSUME UnitsInv
    PROVE  UnitsConserved
<1> DEFINE E == EntriesIn(log)
           pick(s) == CHOOSE x \in s : TRUE
           c == [s \in SUBSET E |-> pick(s)]
           d == [s \in SUBSET Streams |-> pick(s)]
<1>1. Booked(log) /\ IsFiniteSet(E) /\ IsFiniteSet(Streams) /\ E = Entries
  BY UnitsAssumption DEF UnitsInv, Booked, EntriesIn, Entries
<1>2. Picks(c, E) /\ Picks(d, Streams)
  BY DEF Picks
<1>3. /\ \A x \in E : HandedOut(x) = Handed(log)[x] /\ Entering(x) = Entered(log)[x]
      /\ \A s \in Streams : floor0(fold_balance(log[s])) = Left(log)[s]
  BY DEF HandedOut, Entering, EntryAt, BalanceBefore, Handed, Entered, HandedBy, EntersBy, Left
<1>4. /\ Left(log) \in [Streams -> Int]
      /\ Handed(log) \in [E -> Int] /\ Entered(log) \in [E -> Int]
  BY <1>1, UnitTypes
<1>5. MapThenSumSet(HandedOut, Entries) = SumOver(Handed(log), E)
  <2> DEFINE V(G, s) == IF s = {} THEN 0 ELSE HandedOut(pick(s)) + G[s \ {pick(s)}]
             F == CHOOSE G : G = [s \in SUBSET E |-> V(G, s)]
  <2>1. MapThenSumSet(HandedOut, Entries) = F[E]
    BY <1>1 DEF MapThenSumSet, MapThenFoldSet
  <2>2. ASSUME NEW G, NEW s \in SUBSET E
        PROVE  V(G, s) = IF s = {} THEN 0 ELSE Handed(log)[c[s]] + G[s \ {c[s]}]
    <3>1. s # {} => c[s] \in E /\ c[s] = pick(s)
      BY <1>2 DEF Picks
    <3>2. s # {} => HandedOut(pick(s)) = Handed(log)[c[s]]
      BY <1>3, <3>1
    <3> HIDE DEF pick, c
    <3>3. QED
      BY <3>1, <3>2
  <2> HIDE DEF V
  <2>3. \A G : IsSumOn(G, Handed(log), c, SUBSET E) <=> G = [s \in SUBSET E |-> V(G, s)]
    BY <2>2 DEF IsSumOn
  <2>4. \E G : G = [s \in SUBSET E |-> V(G, s)]
    BY <1>1, <1>2, <1>4, <2>3, SumsExist
  <2>5. F = [s \in SUBSET E |-> V(F, s)]
    BY <2>4
  <2> HIDE DEF F
  <2>6. SumOf(F, Handed(log), E)
    BY <1>1, <1>2, <1>4, <2>3, <2>5, SumsAgree
  <2>7. PICK G : SumOf(G, Handed(log), E) /\ SumOver(Handed(log), E) = G[E]
    BY <1>1, <1>4, SumOverIs
  <2>8. E \in SUBSET E
    OBVIOUS
  <2>9. F[E] = G[E]
    BY <2>6, <2>7, <2>8, SumsCongruent
  <2>10. QED
    BY <2>1, <2>7, <2>9
<1>6. MapThenSumSet(Entering, Entries) = SumOver(Entered(log), E)
  <2> DEFINE V(G, s) == IF s = {} THEN 0 ELSE Entering(pick(s)) + G[s \ {pick(s)}]
             F == CHOOSE G : G = [s \in SUBSET E |-> V(G, s)]
  <2>1. MapThenSumSet(Entering, Entries) = F[E]
    BY <1>1 DEF MapThenSumSet, MapThenFoldSet
  <2>2. ASSUME NEW G, NEW s \in SUBSET E
        PROVE  V(G, s) = IF s = {} THEN 0 ELSE Entered(log)[c[s]] + G[s \ {c[s]}]
    <3>1. s # {} => c[s] \in E /\ c[s] = pick(s)
      BY <1>2 DEF Picks
    <3>2. s # {} => Entering(pick(s)) = Entered(log)[c[s]]
      BY <1>3, <3>1
    <3> HIDE DEF pick, c
    <3>3. QED
      BY <3>1, <3>2
  <2> HIDE DEF V
  <2>3. \A G : IsSumOn(G, Entered(log), c, SUBSET E) <=> G = [s \in SUBSET E |-> V(G, s)]
    BY <2>2 DEF IsSumOn
  <2>4. \E G : G = [s \in SUBSET E |-> V(G, s)]
    BY <1>1, <1>2, <1>4, <2>3, SumsExist
  <2>5. F = [s \in SUBSET E |-> V(F, s)]
    BY <2>4
  <2> HIDE DEF F
  <2>6. SumOf(F, Entered(log), E)
    BY <1>1, <1>2, <1>4, <2>3, <2>5, SumsAgree
  <2>7. PICK G : SumOf(G, Entered(log), E) /\ SumOver(Entered(log), E) = G[E]
    BY <1>1, <1>4, SumOverIs
  <2>8. E \in SUBSET E
    OBVIOUS
  <2>9. F[E] = G[E]
    BY <2>6, <2>7, <2>8, SumsCongruent
  <2>10. QED
    BY <2>1, <2>7, <2>9
<1>7. MapThenSumSet(LAMBDA s : floor0(fold_balance(log[s])), Streams) = SumOver(Left(log), Streams)
  <2> DEFINE V(G, s) == IF s = {} THEN 0 ELSE floor0(fold_balance(log[pick(s)])) + G[s \ {pick(s)}]
             F == CHOOSE G : G = [s \in SUBSET Streams |-> V(G, s)]
  <2>1. MapThenSumSet(LAMBDA s : floor0(fold_balance(log[s])), Streams) = F[Streams]
    BY <1>1 DEF MapThenSumSet, MapThenFoldSet
  <2>2. ASSUME NEW G, NEW s \in SUBSET Streams
        PROVE  V(G, s) = IF s = {} THEN 0 ELSE Left(log)[d[s]] + G[s \ {d[s]}]
    <3>1. s # {} => d[s] \in Streams /\ d[s] = pick(s)
      BY <1>2 DEF Picks
    <3>2. s # {} => floor0(fold_balance(log[pick(s)])) = Left(log)[d[s]]
      BY <1>3, <3>1
    <3> HIDE DEF pick, d
    <3>3. QED
      BY <3>1, <3>2
  <2> HIDE DEF V
  <2>3. \A G : IsSumOn(G, Left(log), d, SUBSET Streams) <=> G = [s \in SUBSET Streams |-> V(G, s)]
    BY <2>2 DEF IsSumOn
  <2>4. \E G : G = [s \in SUBSET Streams |-> V(G, s)]
    BY <1>1, <1>2, <1>4, <2>3, SumsExist
  <2>5. F = [s \in SUBSET Streams |-> V(F, s)]
    BY <2>4
  <2> HIDE DEF F
  <2>6. SumOf(F, Left(log), Streams)
    BY <1>1, <1>2, <1>4, <2>3, <2>5, SumsAgree
  <2>7. PICK G : SumOf(G, Left(log), Streams) /\ SumOver(Left(log), Streams) = G[Streams]
    BY <1>1, <1>4, SumOverIs
  <2>8. Streams \in SUBSET Streams
    OBVIOUS
  <2>9. F[Streams] = G[Streams]
    BY <2>6, <2>7, <2>8, SumsCongruent
  <2>10. QED
    BY <2>1, <2>7, <2>9
<1>8. /\ SumOver(Left(log), Streams) \in Int
      /\ SumOver(Handed(log), E) \in Int /\ SumOver(Entered(log), E) \in Int
  BY <1>1, <1>4, SumType
<1>9. SumOver(Left(log), Streams) + SumOver(Handed(log), E) - SumOver(Entered(log), E) <= 0
  BY DEF UnitsInv, Units
<1>10. SumOver(Left(log), Streams) + SumOver(Handed(log), E) <= SumOver(Entered(log), E)
  <2> HIDE DEF E
  <2>1. QED
    BY <1>8, <1>9
<1> HIDE DEF E
<1>11. QED
  BY <1>5, <1>6, <1>7, <1>10 DEF UnitsConserved

\* However handles of several processes open, pay, grant, close, cancel and crash,
\* no unit of budget is ever there twice: what is left in the sessions, with what
\* has been handed out, is at most what owners granted and unfunded parents gave
\* (fold_balance, Session::open_child, reserve, spend).
THEOREM UnitsAreConserved == Spec => []UnitsConserved
<1>1. Init => UnitsInv
  BY UnitsInit
<1>2. TreeInv /\ UnitsInv /\ [Next]_vars => UnitsInv'
  BY UnitsStep
<1>3. UnitsInv => UnitsConserved
  BY UnitsMean
<1>4. QED
  BY <1>1, <1>2, <1>3, TreeInvariant, PTL DEF Spec
=============================================================================
