-------------------------- MODULE KnlSessionProofs --------------------------
(***************************************************************************)
(* Theorems about KnlSession, for any set of streams and handles, any      *)
(* amounts, any i64 range and any bound on the log.                        *)
(*                                                                         *)
(* First the laws of the budget fold, for every log and every i64 range:   *)
(* it is defined, it stays a balance, an event appended later changes      *)
(* nothing about what a prefix folds to, and it moves the balance by one   *)
(* FoldStep.  Folded is a recursive function, so all of this is by         *)
(* induction on the length of a prefix.  The induction is over a set of    *)
(* naturals (SetInduction), which needs no operator parameter: it follows  *)
(* from the well-foundedness of strict inclusion on the finite sets 0..n.  *)
(*                                                                         *)
(* Then types, with logs that only grow (StepType), and on them the safety *)
(* theorems: a cached balance is never stale, a resume that records a      *)
(* grant read a log with no ending, every entry of a ledger is true of the *)
(* balance it was written against, and no child is opened from an ended    *)
(* session.                                                                *)
(***************************************************************************)
EXTENDS KnlSession, FiniteSetTheorems, WellFoundedInduction, SequenceTheorems, TLAPS

----------------------------------------------------------------------------
(* Induction over the naturals *)

\* A non-empty set of naturals has a least element.
LEMMA LeastNat ==
    ASSUME NEW B \in SUBSET Nat, B # {}
    PROVE  \E n \in B : \A m \in B : n <= m
<1> DEFINE T == {0 .. n : n \in B}
<1>1. IsWellFoundedOn(StrictSubsetOrdering(Nat), FiniteSubsetsOf(Nat))
  BY FS_StrictSubsetOrderingWellFounded
<1>2. T \subseteq FiniteSubsetsOf(Nat)
  <2>1. SUFFICES ASSUME NEW n \in B PROVE 0 .. n \in FiniteSubsetsOf(Nat)
    OBVIOUS
  <2>2. IsFiniteSet(0 .. n)
    BY FS_Interval
  <2>3. QED
    BY <2>2 DEF FiniteSubsetsOf
<1>3. T # {}
  OBVIOUS
<1> HIDE DEF T
<1>4. PICK x \in T : \A y \in T : ~ (<<y, x>> \in StrictSubsetOrdering(Nat))
  BY <1>1, <1>2, <1>3, WFMin
<1>5. PICK n \in B : x = 0 .. n
  BY DEF T
<1>6. ASSUME NEW m \in B, m < n PROVE FALSE
  <2>1. 0 .. m \in T
    BY DEF T
  <2>2. n \in 0 .. n /\ n \notin 0 .. m
    BY <1>6
  <2>3. 0 .. m \in SUBSET Nat /\ 0 .. n \in SUBSET Nat
        /\ 0 .. m \subseteq 0 .. n /\ 0 .. m # 0 .. n
    BY <2>2, <1>6
  <2>4. QED
    BY <1>4, <1>5, <2>1, <2>3 DEF StrictSubsetOrdering
<1>7. QED
  BY <1>6

\* A set that holds 0 and is closed under successor holds every natural.
LEMMA SetInduction ==
    ASSUME NEW S, 0 \in S, \A n \in Nat : n \in S => n + 1 \in S
    PROVE  \A n \in Nat : n \in S
<1> SUFFICES ASSUME ~ (\A n \in Nat : n \in S) PROVE FALSE
  OBVIOUS
<1> DEFINE B == Nat \ S
<1>1. B \in SUBSET Nat /\ B # {}
  OBVIOUS
<1>2. PICK n \in B : \A m \in B : n <= m
  BY <1>1, LeastNat
<1>3. n # 0
  BY <1>2
<1>4. n - 1 \in Nat /\ n - 1 \notin B
  BY <1>2, <1>3
<1>5. QED
  BY <1>2, <1>4

----------------------------------------------------------------------------
(* One step of the fold *)

\* An event moves a balance to a balance: never below zero, never past
\* i64::MAX (fold_balance's saturating_add and max(0)).
LEMMA FoldStepType ==
    ASSUME NEW b \in Balance, NEW e \in Event
    PROVE  FoldStep(b, e) \in Balance
BY LedgerAssumption
   DEF FoldStep, Balance, Event, NoLedger, saturating_add, floor0,
       KIND_BUDGET_GRANTED, KIND_BUDGET_RESERVED, KIND_BUDGET_SPENT

----------------------------------------------------------------------------
(* The recursive definition *)

\* What it is to be the fold of the first n events of l.
IsFoldUpTo(f, l, n) ==
    f = [i \in 0 .. n |-> IF i = 0 THEN NoLedger ELSE FoldStep(f[i - 1], l[i])]

\* Two folds of one log agree wherever both are defined.
LEMMA FoldsAgree ==
    ASSUME NEW l, NEW f, NEW g, NEW n \in Nat, NEW m \in Nat, n <= m,
           IsFoldUpTo(f, l, n), IsFoldUpTo(g, l, m)
    PROVE  \A i \in 0 .. n : f[i] = g[i]
<1> DEFINE S == {i \in Nat : i <= n => f[i] = g[i]}
<1>1. 0 \in S
  BY DEF IsFoldUpTo
<1>2. ASSUME NEW i \in Nat, i \in S PROVE i + 1 \in S
  <2>1. CASE ~ (i + 1 <= n)
    BY <2>1
  <2>2. CASE i + 1 <= n
    <3>1. f[i] = g[i]
      BY <1>2, <2>2
    <3>2. i + 1 \in 0 .. n /\ i + 1 \in 0 .. m /\ i + 1 # 0 /\ (i + 1) - 1 = i
      BY <2>2
    <3>3. f[i + 1] = FoldStep(f[i], l[i + 1])
      BY <3>2 DEF IsFoldUpTo
    <3>4. g[i + 1] = FoldStep(g[i], l[i + 1])
      BY <3>2 DEF IsFoldUpTo
    <3>5. QED
      BY <3>1, <3>3, <3>4
  <2>3. QED
    BY <2>1, <2>2
<1> HIDE DEF S
<1>3. \A i \in Nat : i \in S
  BY <1>1, <1>2, SetInduction
<1>4. QED
  BY <1>3 DEF S

\* The fold of any number of events of a log exists.
LEMMA FoldExists ==
    ASSUME NEW l
    PROVE  \A n \in Nat : \E f : IsFoldUpTo(f, l, n)
<1> DEFINE S == {n \in Nat : \E f : IsFoldUpTo(f, l, n)}
<1>1. 0 \in S
  <2> DEFINE f0 == [i \in 0 .. 0 |-> NoLedger]
  <2>1. IsFoldUpTo(f0, l, 0)
    BY DEF IsFoldUpTo
  <2>2. QED
    BY <2>1
<1>2. ASSUME NEW n \in Nat, n \in S PROVE n + 1 \in S
  <2>1. PICK f : IsFoldUpTo(f, l, n)
    BY <1>2
  <2> DEFINE g == [i \in 0 .. (n + 1) |->
                     IF i = n + 1 THEN FoldStep(f[n], l[n + 1]) ELSE f[i]]
  <2>2. \A i \in 0 .. n : f[i] = IF i = 0 THEN NoLedger ELSE FoldStep(f[i - 1], l[i])
    BY <2>1 DEF IsFoldUpTo
  <2>3. ASSUME NEW i \in 0 .. (n + 1)
        PROVE  g[i] = IF i = 0 THEN NoLedger ELSE FoldStep(g[i - 1], l[i])
    <3>1. CASE i = n + 1
      <4>1. g[n] = f[n] /\ i - 1 = n /\ i # 0
        BY <3>1
      <4>2. QED
        BY <3>1, <4>1
    <3>2. CASE i # n + 1 /\ i # 0
      <4>1. i \in 0 .. n /\ i - 1 \in 0 .. (n + 1) /\ i - 1 # n + 1
        BY <3>2
      <4>2. g[i] = f[i] /\ g[i - 1] = f[i - 1]
        BY <3>2, <4>1
      <4>3. QED
        BY <2>2, <3>2, <4>1, <4>2
    <3>3. CASE i = 0
      BY <2>2, <3>3
    <3>4. QED
      BY <3>1, <3>2, <3>3
  <2>4. IsFoldUpTo(g, l, n + 1)
    <3>1. g = [i \in 0 .. (n + 1) |-> g[i]]
      OBVIOUS
    <3> HIDE DEF g
    <3>2. QED
      BY <2>3, <3>1 DEF IsFoldUpTo
  <2>5. QED
    BY <2>4
<1> HIDE DEF S
<1>3. \A n \in Nat : n \in S
  BY <1>1, <1>2, SetInduction
<1>4. QED
  BY <1>3 DEF S

\* Folded(l) is the function its recursive definition describes.
LEMMA FoldedIsFold ==
    ASSUME NEW l, Len(l) \in Nat
    PROVE  IsFoldUpTo(Folded(l), l, Len(l))
<1>1. \E f : IsFoldUpTo(f, l, Len(l))
  BY FoldExists
<1>2. QED
  BY <1>1 DEF Folded, IsFoldUpTo

\* What a prefix folds to is a balance.
LEMMA FoldedType ==
    ASSUME NEW l \in Seq(Event)
    PROVE  \A i \in 0 .. Len(l) : Folded(l)[i] \in Balance
<1> DEFINE F == Folded(l)
           S == {i \in Nat : i <= Len(l) => F[i] \in Balance}
<1>1. \A i \in 0 .. Len(l) : F[i] = IF i = 0 THEN NoLedger ELSE FoldStep(F[i - 1], l[i])
  BY FoldedIsFold DEF IsFoldUpTo
<1> HIDE DEF F
<1>2. 0 \in S
  BY <1>1 DEF Balance
<1>3. ASSUME NEW i \in Nat, i \in S PROVE i + 1 \in S
  <2>1. CASE i + 1 <= Len(l)
    <3>1. F[i] \in Balance /\ l[i + 1] \in Event
      BY <1>3, <2>1
    <3>2. F[i + 1] = FoldStep(F[i], l[i + 1])
      <4>1. i + 1 \in 0 .. Len(l) /\ i + 1 # 0 /\ (i + 1) - 1 = i
        BY <2>1
      <4>2. QED
        BY <1>1, <4>1
    <3>3. QED
      BY <3>1, <3>2, FoldStepType
  <2>2. QED
    BY <2>1
<1> HIDE DEF S
<1>4. \A i \in Nat : i \in S
  BY <1>2, <1>3, SetInduction
<1>5. QED
  BY <1>4 DEF S, F

\* What a log of well-formed events folds to is a balance (fold_balance).
LEMMA FoldBalanceType ==
    ASSUME NEW l \in Seq(Event)
    PROVE  fold_balance(l) \in Balance
<1>1. Len(l) \in 0 .. Len(l)
  OBVIOUS
<1>2. QED
  BY <1>1, FoldedType DEF fold_balance

\* Appending events changes nothing about what the log before them folds to:
\* the past of a ledger is settled.
LEMMA FoldedPrefix ==
    ASSUME NEW l \in Seq(Event), NEW m \in Seq(Event)
    PROVE  \A i \in 0 .. Len(l) : Folded(l \o m)[i] = Folded(l)[i]
<1> DEFINE F == Folded(l)
           G == Folded(l \o m)
<1>1. /\ l \o m \in Seq(Event) /\ Len(l \o m) = Len(l) + Len(m)
      /\ \A i \in 1 .. Len(l) : (l \o m)[i] = l[i]
      /\ Len(l) \in Nat /\ Len(m) \in Nat
  OBVIOUS
<1>2. IsFoldUpTo(F, l, Len(l)) /\ IsFoldUpTo(G, l \o m, Len(l \o m))
  <2>1. Len(l \o m) \in Nat
    BY <1>1
  <2>2. IsFoldUpTo(F, l, Len(l))
    BY <1>1, FoldedIsFold
  <2>3. IsFoldUpTo(G, l \o m, Len(l \o m))
    BY <2>1, FoldedIsFold
  <2>4. QED
    BY <2>2, <2>3
<1> HIDE DEF F, G
<1>3. IsFoldUpTo(F, l \o m, Len(l))
  <2>1. \A i \in 0 .. Len(l) :
          (IF i = 0 THEN NoLedger ELSE FoldStep(F[i - 1], l[i]))
            = (IF i = 0 THEN NoLedger ELSE FoldStep(F[i - 1], (l \o m)[i]))
    BY <1>1
  <2>2. QED
    BY <1>2, <2>1 DEF IsFoldUpTo
<1>4. \A i \in 0 .. Len(l) : F[i] = G[i]
  <2>1. Len(l) <= Len(l \o m) /\ Len(l \o m) \in Nat
    BY <1>1
  <2>2. QED
    BY <1>1, <1>2, <1>3, <2>1, FoldsAgree
<1>5. QED
  BY <1>4 DEF F, G

\* One event more is one FoldStep more.
LEMMA FoldAppend ==
    ASSUME NEW l \in Seq(Event), NEW e \in Event
    PROVE  fold_balance(l \o <<e>>) = FoldStep(fold_balance(l), e)
<1> DEFINE m == l \o <<e>>
<1>1. m \in Seq(Event) /\ Len(m) = Len(l) + 1 /\ m[Len(m)] = e /\ Len(l) \in Nat
  OBVIOUS
<1>2. Folded(m)[Len(l)] = Folded(l)[Len(l)]
  <2>1. <<e>> \in Seq(Event) /\ Len(l) \in 0 .. Len(l)
    OBVIOUS
  <2>2. QED
    BY <2>1, FoldedPrefix
<1> HIDE DEF m
<1>3. IsFoldUpTo(Folded(m), m, Len(m))
  BY <1>1, FoldedIsFold
<1>4. Folded(m)[Len(m)] = FoldStep(Folded(m)[Len(l)], e)
  <2>1. Len(m) \in 0 .. Len(m) /\ Len(m) # 0 /\ Len(m) - 1 = Len(l)
    BY <1>1
  <2>2. QED
    BY <1>1, <1>3, <2>1 DEF IsFoldUpTo
<1>5. QED
  BY <1>2, <1>4 DEF fold_balance, m

\* A log that carries a grant has a ledger: last_grant is Some exactly when the
\* decision of a reserve or a spend has a balance to measure against.
LEMMA GrantMakesLedger ==
    ASSUME NEW l \in Seq(Event), HasGrant(l)
    PROVE  fold_balance(l) # NoLedger
<1> DEFINE F == Folded(l)
<1>1. PICK g \in 1 .. Len(l) : l[g].kind = KIND_BUDGET_GRANTED
  BY DEF HasGrant
<1>2. \A i \in 0 .. Len(l) : F[i] = IF i = 0 THEN NoLedger ELSE FoldStep(F[i - 1], l[i])
  BY FoldedIsFold DEF IsFoldUpTo
<1>3. \A i \in 0 .. Len(l) : F[i] \in Balance
  BY FoldedType
<1> HIDE DEF F
<1>4. ASSUME NEW i \in 1 .. Len(l), l[i].kind = KIND_BUDGET_GRANTED \/ F[i - 1] # NoLedger
      PROVE  F[i] # NoLedger
  <2>1. F[i] = FoldStep(F[i - 1], l[i]) /\ F[i - 1] \in Balance /\ l[i] \in Event
    BY <1>2, <1>3
  <2>2. QED
    BY <1>4, <2>1, LedgerAssumption, SMTT(30)
       DEF FoldStep, Balance, Event, NoLedger, saturating_add, floor0,
           KIND_BUDGET_GRANTED, KIND_BUDGET_RESERVED, KIND_BUDGET_SPENT
<1> DEFINE S == {i \in Nat : g <= i /\ i <= Len(l) => F[i] # NoLedger}
<1>5. 0 \in S
  BY <1>1
<1>6. ASSUME NEW i \in Nat, i \in S PROVE i + 1 \in S
  <2>1. CASE g <= i + 1 /\ i + 1 <= Len(l)
    <3>1. i + 1 \in 1 .. Len(l) /\ (i + 1) - 1 = i
      BY <2>1
    <3>2. l[i + 1].kind = KIND_BUDGET_GRANTED \/ F[i] # NoLedger
      BY <1>1, <1>6, <2>1
    <3>3. QED
      BY <1>4, <3>1, <3>2
  <2>2. QED
    BY <2>1
<1> HIDE DEF S
<1>7. \A i \in Nat : i \in S
  BY <1>5, <1>6, SetInduction
<1>8. QED
  BY <1>1, <1>7 DEF S, F, fold_balance

----------------------------------------------------------------------------
(* Types *)

\* A handle that is not free is on a stream, and one about to record a grant
\* has one to record.
Placed ==
    \A h \in Handles :
        /\ handle[h].pc # "free" => handle[h].stream \in Streams
        /\ handle[h].pc = "grant" => handle[h].grant # NoLedger

\* The lock discipline of open_child: only a child in the making holds a
\* parent's lock, the parent is lent to it, and to nobody else.
Lent ==
    \A h \in Handles : handle[h].from # NoHandle =>
        /\ handle[h].pc \in {"child", "read"}
        /\ handle[handle[h].from].pc = "lent"
        /\ \A k \in Handles : handle[k].from = handle[h].from => k = h

TypeInv == TypeOK /\ Placed /\ Lent

\* The kernel's event builders build well-formed events.
LEMMA EventTypes ==
    ASSUME NEW n \in 0 .. MaxI64, NEW b \in 0 .. MaxI64, NEW s \in Streams,
           NEW cs \in SUBSET Streams, NEW d \in BOOLEAN
    PROVE  /\ opened_event \in Event
           /\ kernel_event(KIND_OTHER) \in Event
           /\ granted_event(n) \in Event
           /\ budget_move_event(KIND_BUDGET_RESERVED, n) \in Event
           /\ budget_move_event(KIND_BUDGET_SPENT, n) \in Event
           /\ refused_event(n, b) \in Event
           /\ allocated_event(n, s) \in Event
           /\ allocation_refused_event(n, b, s) \in Event
           /\ child_opened_event(s) \in Event
           /\ child_granted_event(n, s) \in Event
           /\ closing_event(cs, d) \in Event
<1>1. \A k \in Kinds : kernel_event(k) \in Event
  BY LedgerAssumption DEF Event, kernel_event
<1>2. {KIND_SESSION_OPENED, KIND_SESSION_CLOSED, KIND_BUDGET_GRANTED,
       KIND_BUDGET_RESERVED, KIND_BUDGET_REFUSED, KIND_BUDGET_SPENT, KIND_OTHER}
        \subseteq Kinds
  BY DEF Kinds, KernelOnly
<1>3. ASSUME NEW e \in Event
      PROVE  /\ [e EXCEPT !.amount = n] \in Event
             /\ [e EXCEPT !.peer = s] \in Event
             /\ [e EXCEPT !.remaining = b] \in Event
             /\ [e EXCEPT !.children = cs] \in Event
             /\ [e EXCEPT !.dropped = d] \in Event
             /\ [e EXCEPT !.amount = n, !.remaining = b] \in Event
             /\ [e EXCEPT !.amount = n, !.peer = s] \in Event
             /\ [e EXCEPT !.children = cs, !.dropped = d] \in Event
  BY DEF Event
<1>4. opened_event \in Event /\ kernel_event(KIND_OTHER) \in Event
  BY <1>1, <1>2 DEF opened_event
<1>5. granted_event(n) \in Event
  BY <1>1, <1>2, <1>3 DEF granted_event
<1>6. /\ budget_move_event(KIND_BUDGET_RESERVED, n) \in Event
      /\ budget_move_event(KIND_BUDGET_SPENT, n) \in Event
  BY <1>1, <1>2, <1>3 DEF budget_move_event
<1>7. refused_event(n, b) \in Event
  BY <1>1, <1>2, <1>3 DEF refused_event
<1>8. allocated_event(n, s) \in Event
  BY <1>1, <1>2, <1>3 DEF allocated_event
<1>9. allocation_refused_event(n, b, s) \in Event
  BY <1>3, <1>7 DEF allocation_refused_event
<1>10. child_opened_event(s) \in Event
  BY <1>1, <1>2, <1>3 DEF child_opened_event
<1>11. child_granted_event(n, s) \in Event
  BY <1>3, <1>5 DEF child_granted_event
<1>12. closing_event(cs, d) \in Event
  BY <1>1, <1>2, <1>3 DEF closing_event
<1>13. QED
  BY <1>4, <1>5, <1>6, <1>7, <1>8, <1>9, <1>10, <1>11, <1>12

\* An amount that passed check_amount is one an i64 holds.
LEMMA AmountTypes ==
    /\ \A a \in Amounts : check_amount(a) => a \in 0 .. MaxI64
    /\ Grants \subseteq Balance
    /\ \A g \in Grants : g # NoLedger => g \in 0 .. MaxI64
<1>1. ASSUME NEW a \in Amounts, check_amount(a) PROVE a \in 0 .. MaxI64
  <2>1. a \in -MaxI64 .. MaxI64 /\ MaxI64 \in Nat
    BY LedgerAssumption, SessionAssumption
  <2>2. QED
    BY <1>1, <2>1 DEF check_amount
<1>2. QED
  BY <1>1 DEF Grants, Balance

\* So is the handle that is not there.
LEMMA FreeType == Free \in Handle /\ Free.pc = "free" /\ Free.from = NoHandle
<1>1. NoLedger \in Balance /\ "free" \in Phase
  BY DEF Balance, Phase
<1>2. QED
  BY <1>1 DEF Free, Handle

\* Writing well-formed events keeps the logs well-formed.
LEMMA WriteType ==
    ASSUME TypeOK, NEW s \in Streams, NEW w \in Seq(Event), Write(s, w)
    PROVE  log' \in [Streams -> Seq(Event)]
BY DEF TypeOK, Write

\* A step that changes one handle, takes no lock and gives none back keeps the
\* handles well-formed.
LEMMA OneHandleType ==
    ASSUME TypeInv, NEW h \in Handles, NEW after \in Handle,
           handle' = [handle EXCEPT ![h] = after],
           after.pc # "free" => after.stream \in Streams,
           after.pc = "grant" => after.grant # NoLedger,
           handle[h].pc # "lent",
           after.from = handle[h].from,
           after.from # NoHandle => after.pc \in {"child", "read"}
    PROVE  handle' \in [Handles -> Handle] /\ Placed' /\ Lent'
<1>1. handle' \in [Handles -> Handle]
  BY DEF TypeInv, TypeOK
<1>2. Placed'
  BY DEF TypeInv, TypeOK, Placed
<1>3. Lent'
  BY DEF TypeInv, TypeOK, Lent, Handle
<1>4. QED
  BY <1>1, <1>2, <1>3

\* So does ending a call, whether or not it held a parent's lock.
LEMMA DoneType ==
    ASSUME TypeInv, NEW h \in Handles, NEW after \in Handle, Done(h, after),
           after.pc # "free" => after.stream \in Streams,
           after.pc = "grant" => after.grant # NoLedger,
           handle[h].pc # "lent", after.from = NoHandle
    PROVE  handle' \in [Handles -> Handle] /\ Placed' /\ Lent'
<1>1. handle' \in [Handles -> Handle]
  BY ZenonT(40) DEF TypeInv, TypeOK, Done, Handle, Phase
<1>2. Placed'
  BY SessionAssumption DEF TypeInv, TypeOK, Placed, Lent, Done, Handle
<1>3. Lent'
  <2>1. \A k \in Handles : handle'[k].from = IF k = h THEN NoHandle ELSE handle[k].from
    BY DEF TypeInv, TypeOK, Done, Handle
  <2>2. \A k \in Handles : k # h /\ k # handle[h].from => handle'[k] = handle[k]
    BY DEF Done
  <2>3. SUFFICES ASSUME NEW k \in Handles, handle'[k].from # NoHandle
                 PROVE  /\ handle'[k].pc \in {"child", "read"}
                        /\ handle'[handle'[k].from].pc = "lent"
                        /\ \A j \in Handles : handle'[j].from = handle'[k].from => j = k
    BY DEF Lent
  <2>4. k # h /\ handle'[k].from = handle[k].from /\ handle[k].from \in Handles
    BY <2>1, <2>3 DEF TypeInv, TypeOK, Handle
  <2>5. k # handle[h].from /\ handle[k].from # handle[h].from /\ handle[k].from # h
    <3>1. /\ handle[k].pc \in {"child", "read"} /\ handle[handle[k].from].pc = "lent"
          /\ \A j \in Handles : handle[j].from = handle[k].from => j = k
      BY <2>3, <2>4 DEF TypeInv, Lent
    <3>2. handle[h].from # NoHandle => handle[handle[h].from].pc = "lent"
      BY DEF TypeInv, Lent
    <3>3. QED
      BY <2>4, <3>1, <3>2, SessionAssumption
  <2>6. QED
    BY <2>1, <2>2, <2>4, <2>5, <2>3 DEF TypeInv, Lent
<1>4. QED
  BY <1>1, <1>2, <1>3

\* What a handle step writes to a stream extends it by well-formed events: the
\* past of a log never changes.
Grows == \A s \in Streams : \E w \in Seq(Event) : log'[s] = log[s] \o w

\* A transaction that appends to one stream only makes logs grow.
LEMMA WriteGrows ==
    ASSUME TypeOK, NEW s \in Streams, NEW w \in Seq(Event), Write(s, w)
    PROVE  Grows
<1>1. ASSUME NEW t \in Streams PROVE \E v \in Seq(Event) : log'[t] = log[t] \o v
  <2>1. CASE t = s
    BY <2>1 DEF Write, TypeOK
  <2>2. CASE t # s
    <3>1. log'[t] = log[t] /\ log[t] \in Seq(Event)
      BY <2>2 DEF Write, TypeOK
    <3>2. log[t] = log[t] \o << >> /\ << >> \in Seq(Event)
      BY <3>1
    <3>3. QED
      BY <3>1, <3>2
  <2>3. QED
    BY <2>1, <2>2
<1>2. QED
  BY <1>1 DEF Grows

\* A step that leaves the database alone makes no log shrink.
LEMMA SameGrows ==
    ASSUME TypeOK, UNCHANGED log
    PROVE  Grows
<1>1. \A s \in Streams : log[s] \in Seq(Event)
  BY DEF TypeOK
<1>2. \A s \in Streams : log'[s] = log[s] \o << >> /\ << >> \in Seq(Event)
  BY <1>1
<1>3. QED
  BY <1>2 DEF Grows

----------------------------------------------------------------------------
(* The type invariant is inductive *)

\* What an allocation writes on the parent's ledger is nothing, a refusal or a
\* reservation; the last two only when the child's stream is empty and the
\* parent has not ended.
LEMMA AllocationForm ==
    ASSUME TypeOK, NEW p \in Streams, NEW c \in Streams, NEW a \in 0 .. MaxI64,
           Allocation(p, c, a) # << >>
    PROVE  LET balance == fold_balance(log[p]) IN
           /\ log[c] = << >> /\ ~HasEnded(log[p])
           /\ balance \in Balance
           /\ \/ /\ balance # NoLedger /\ balance < a
                 /\ Allocation(p, c, a) = <<allocation_refused_event(a, balance, c)>>
                 /\ allocation_refused_event(a, balance, c) \in Event
                 /\ allocation_refused_event(a, balance, c).kind = KIND_BUDGET_REFUSED
              \/ /\ balance = NoLedger \/ a <= balance
                 /\ Allocation(p, c, a) = <<allocated_event(a, c)>>
                 /\ allocated_event(a, c) \in Event
                 /\ allocated_event(a, c).kind = KIND_BUDGET_RESERVED
<1> DEFINE balance == fold_balance(log[p])
<1>1. balance \in Balance
  BY FoldBalanceType DEF TypeOK
<1>2. log[c] = << >> /\ ~HasEnded(log[p])
  BY DEF Allocation
<1>3. CASE balance # NoLedger /\ balance < a
  <2>1. balance \in 0 .. MaxI64
    BY <1>1, <1>3 DEF Balance
  <2>2. allocation_refused_event(a, balance, c) \in Event
    BY <2>1, EventTypes
  <2>3. allocation_refused_event(a, balance, c).kind = KIND_BUDGET_REFUSED
    BY DEF allocation_refused_event, refused_event, kernel_event
  <2>4. Allocation(p, c, a) = <<allocation_refused_event(a, balance, c)>>
    BY <1>2, <1>3 DEF Allocation
  <2>5. QED
    BY <1>1, <1>2, <1>3, <2>2, <2>3, <2>4
<1>4. CASE ~ (balance # NoLedger /\ balance < a)
  <2>1. balance = NoLedger \/ a <= balance
    BY <1>1, <1>4, LedgerAssumption DEF Balance, NoLedger
  <2>2. allocated_event(a, c) \in Event
    BY EventTypes
  <2>3. allocated_event(a, c).kind = KIND_BUDGET_RESERVED
    BY DEF allocated_event, kernel_event
  <2>4. Allocation(p, c, a) = <<allocated_event(a, c)>>
    BY <1>2, <1>4 DEF Allocation
  <2>5. QED
    BY <1>1, <1>2, <2>1, <2>2, <2>3, <2>4
<1>5. QED
  BY <1>3, <1>4

\* The two outcomes of opening a child.  A refusal is written and no handle
\* moves...
ChildRefused(p, h, c, a) ==
    LET s == StreamOf(p)
        balance == fold_balance(log[s])
    IN  /\ balance # NoLedger /\ balance < a
        /\ allocation_refused_event(a, balance, c) \in Event
        /\ Write(s, <<allocation_refused_event(a, balance, c)>>)
        /\ UNCHANGED handle

\* ...or both ledgers move and the parent is lent to its child's handle.
ChildOpened(p, h, c, a) ==
    LET s == StreamOf(p)
        balance == fold_balance(log[s])
        born == <<child_opened_event(s), child_granted_event(a, s)>>
    IN  /\ balance = NoLedger \/ a <= balance
        /\ allocated_event(a, c) \in Event
        /\ log' = [log EXCEPT ![s] = @ \o <<allocated_event(a, c)>>, ![c] = born]
        /\ handle' = [handle EXCEPT
                        ![p].pc = "lent",
                        ![h] = [Free EXCEPT !.pc = "child", !.stream = c, !.from = p]]

\* What open_child does, its two outcomes taken apart: a refusal
\* recorded on the parent, or an allocation.
LEMMA OpenChildForm ==
    ASSUME TypeInv, NEW p \in Handles, NEW h \in Handles, NEW c \in Streams,
           NEW a \in Amounts, open_child(p, h, c, a)
    PROVE  /\ StreamOf(p) \in Streams /\ a \in 0 .. MaxI64
           /\ fold_balance(log[StreamOf(p)]) \in Balance
           /\ log[c] = << >> /\ ~HasEnded(log[StreamOf(p)])
           /\ child_opened_event(StreamOf(p)) \in Event
           /\ child_granted_event(a, StreamOf(p)) \in Event
           /\ handle[p].pc = "idle" /\ handle[h].pc = "free"
           /\ ChildRefused(p, h, c, a) \/ ChildOpened(p, h, c, a)
<1> DEFINE s == StreamOf(p)
           balance == fold_balance(log[s])
           own == Allocation(s, c, a)
<1>1. s \in Streams
  BY DEF open_child, Open, Idle, StreamOf, TypeInv, Placed
<1>2. a \in 0 .. MaxI64
  BY AmountTypes DEF open_child
<1>3. own # << >> /\ handle[p].pc = "idle" /\ handle[h].pc = "free"
  BY DEF open_child, Open, Idle
<1>4. child_opened_event(s) \in Event /\ child_granted_event(a, s) \in Event
  BY <1>1, <1>2, EventTypes
<1>5. KIND_BUDGET_REFUSED # KIND_BUDGET_RESERVED
  BY DEF KIND_BUDGET_REFUSED, KIND_BUDGET_RESERVED
<1>6. /\ log[c] = << >> /\ ~HasEnded(log[s]) /\ balance \in Balance
      /\ \/ /\ balance # NoLedger /\ balance < a
            /\ own = <<allocation_refused_event(a, balance, c)>>
            /\ allocation_refused_event(a, balance, c) \in Event
            /\ own[1].kind = KIND_BUDGET_REFUSED
         \/ /\ balance = NoLedger \/ a <= balance
            /\ own = <<allocated_event(a, c)>>
            /\ allocated_event(a, c) \in Event
            /\ own[1].kind # KIND_BUDGET_REFUSED
  <2>1. TypeOK
    BY DEF TypeInv
  <2> HIDE DEF s
  <2>2. QED
    BY <1>1, <1>2, <1>3, <1>5, <2>1, AllocationForm
<1>7. /\ own[1].kind = KIND_BUDGET_REFUSED => Write(s, own) /\ UNCHANGED handle
      /\ own[1].kind # KIND_BUDGET_REFUSED =>
           /\ log' = [log EXCEPT ![s] = @ \o own,
                                 ![c] = <<child_opened_event(s), child_granted_event(a, s)>>]
           /\ handle' = [handle EXCEPT
                           ![p].pc = "lent",
                           ![h] = [Free EXCEPT !.pc = "child", !.stream = c, !.from = p]]
  BY DEF open_child
<1> HIDE DEF own
<1>8. CASE own[1].kind = KIND_BUDGET_REFUSED
  <2>1. ChildRefused(p, h, c, a)
    BY <1>6, <1>7, <1>8 DEF ChildRefused
  <2>2. QED
    BY <1>1, <1>2, <1>3, <1>4, <1>6, <2>1
<1>9. CASE own[1].kind # KIND_BUDGET_REFUSED
  <2>1. ChildOpened(p, h, c, a)
    BY <1>6, <1>7, <1>9 DEF ChildOpened
  <2>2. QED
    BY <1>1, <1>2, <1>3, <1>4, <1>6, <2>1
<1>10. QED
  BY <1>8, <1>9

\* A resume builds its handle's cache from the log it has just read.
LEMMA ReadType ==
    ASSUME TypeInv, NEW s \in Streams
    PROVE  Len(log[s]) \in Nat /\ fold_balance(log[s]) \in Balance
<1>1. log[s] \in Seq(Event)
  BY DEF TypeInv, TypeOK
<1>2. QED
  BY <1>1, FoldBalanceType

\* What the logs and the handles are after a child is opened.
AfterChildOpened(p, h, c, a) ==
    LET s == StreamOf(p)
        own == <<allocated_event(a, c)>>
        born == <<child_opened_event(s), child_granted_event(a, s)>>
    IN  /\ p # h /\ own \in Seq(Event) /\ born \in Seq(Event)
        /\ \A t \in Streams :
             log'[t] = IF t = c THEN born ELSE IF t = s THEN log[t] \o own ELSE log[t]
        /\ log' \in [Streams -> Seq(Event)]
        /\ handle' \in [Handles -> Handle]
        /\ handle'[h] = [Free EXCEPT !.pc = "child", !.stream = c, !.from = p]
        /\ handle'[p] = [handle[p] EXCEPT !.pc = "lent"]
        /\ \A k \in Handles : k # h /\ k # p => handle'[k] = handle[k]

\* After an allocation the parent is lent, the new handle is in the making,
\* and both logs have grown by what the transaction wrote.
LEMMA ChildOpenedForm ==
    ASSUME TypeInv, NEW p \in Handles, NEW h \in Handles, NEW c \in Streams,
           NEW a \in Amounts, open_child(p, h, c, a), ChildOpened(p, h, c, a)
    PROVE  AfterChildOpened(p, h, c, a)
<1> DEFINE s == StreamOf(p)
           own == <<allocated_event(a, c)>>
           born == <<child_opened_event(s), child_granted_event(a, s)>>
           child == [Free EXCEPT !.pc = "child", !.stream = c, !.from = p]
           lent == [handle[p] EXCEPT !.pc = "lent"]
<1>1. /\ s \in Streams /\ handle[p].pc = "idle" /\ handle[h].pc = "free"
      /\ child_opened_event(s) \in Event /\ child_granted_event(a, s) \in Event
  BY OpenChildForm
<1>2. /\ allocated_event(a, c) \in Event
      /\ log' = [log EXCEPT ![s] = @ \o own, ![c] = born]
      /\ handle' = [handle EXCEPT ![p].pc = "lent", ![h] = child]
  BY DEF ChildOpened
<1>3. born \in Seq(Event) /\ own \in Seq(Event) /\ p # h
  BY <1>1, <1>2
<1>4. /\ log \in [Streams -> Seq(Event)]
      /\ handle \in [Handles -> Handle]
  BY DEF TypeInv, TypeOK
<1>5. child \in Handle
  BY FreeType DEF Free, Handle, Phase
<1>6. lent \in Handle
  <2>1. handle[p] \in Handle /\ "lent" \in Phase
    BY <1>4 DEF Phase
  <2>2. QED
    BY <2>1 DEF Handle
<1>7. handle' = [[handle EXCEPT ![p] = lent] EXCEPT ![h] = child]
  BY <1>2, <1>4
<1> HIDE DEF s, own, born, child, lent
<1>8. /\ \A t \in Streams :
           log'[t] = IF t = c THEN born ELSE IF t = s THEN log[t] \o own ELSE log[t]
      /\ DOMAIN log' = Streams /\ log' = [t \in Streams |-> log'[t]]
  BY <1>1, <1>2, <1>4
<1>9. \A t \in Streams : log'[t] \in Seq(Event)
  <2>1. \A t \in Streams : log[t] \o own \in Seq(Event) /\ log[t] \in Seq(Event)
    BY <1>3, <1>4
  <2>2. QED
    BY <1>3, <1>8, <2>1
<1>10. log' \in [Streams -> Seq(Event)]
  BY <1>8, <1>9
<1>11. /\ handle' \in [Handles -> Handle]
       /\ handle'[h] = child /\ handle'[p] = lent
       /\ \A k \in Handles : k # h /\ k # p => handle'[k] = handle[k]
  BY <1>3, <1>4, <1>5, <1>6, <1>7
<1>12. QED
  BY <1>3, <1>8, <1>10, <1>11 DEF s, own, born, child, lent, AfterChildOpened

\* open_child keeps the invariant: the parent was idle, so nobody held its lock.
LEMMA OpenChildType ==
    ASSUME TypeInv, NEW p \in Handles, NEW h \in Handles, NEW c \in Streams,
           NEW a \in Amounts, open_child(p, h, c, a)
    PROVE  TypeInv' /\ Grows
<1> DEFINE s == StreamOf(p)
           own == <<allocated_event(a, c)>>
           born == <<child_opened_event(s), child_granted_event(a, s)>>
<1>1. TypeOK
  BY DEF TypeInv
<1>2. /\ s \in Streams /\ log[c] = << >>
      /\ handle[p].pc = "idle" /\ handle[h].pc = "free"
      /\ ChildRefused(p, h, c, a) \/ ChildOpened(p, h, c, a)
  BY OpenChildForm
<1>3. CASE ChildRefused(p, h, c, a)
  <2>1. PICK e \in Event : Write(s, <<e>>)
    BY <1>3 DEF ChildRefused
  <2>2. <<e>> \in Seq(Event)
    OBVIOUS
  <2>3. log' \in [Streams -> Seq(Event)] /\ Grows
    BY <1>1, <1>2, <2>1, <2>2, WriteType, WriteGrows
  <2>4. UNCHANGED handle
    BY <1>3 DEF ChildRefused
  <2>5. QED
    BY <2>3, <2>4 DEF TypeInv, TypeOK, Placed, Lent
<1>4. CASE ChildOpened(p, h, c, a)
  <2> DEFINE child == [Free EXCEPT !.pc = "child", !.stream = c, !.from = p]
  <2>1. child.pc = "child" /\ child.stream = c /\ child.from = p
    BY DEF Free
  <2>2. /\ p # h /\ own \in Seq(Event) /\ born \in Seq(Event)
        /\ \A t \in Streams :
             log'[t] = IF t = c THEN born ELSE IF t = s THEN log[t] \o own ELSE log[t]
        /\ log' \in [Streams -> Seq(Event)]
        /\ handle' \in [Handles -> Handle]
        /\ handle'[h] = child
        /\ handle'[p] = [handle[p] EXCEPT !.pc = "lent"]
        /\ \A k \in Handles : k # h /\ k # p => handle'[k] = handle[k]
    <3>1. AfterChildOpened(p, h, c, a)
      BY <1>4, ChildOpenedForm
    <3>2. QED
      BY <3>1 DEF AfterChildOpened
  <2> HIDE DEF s, own, born, child
  <2>3. Grows
    <3>1. ASSUME NEW t \in Streams PROVE \E v \in Seq(Event) : log'[t] = log[t] \o v
      <4>1. log[t] \in Seq(Event) /\ << >> \in Seq(Event)
        BY <1>1 DEF TypeOK
      <4>2. log[t] \o << >> = log[t] /\ << >> \o born = born
        BY <4>1, <2>2
      <4>3. QED
        BY <1>2, <2>2, <4>1, <4>2
    <3>2. QED
      BY <3>1 DEF Grows
  <2>4. /\ handle'[p].pc = "lent" /\ handle'[p].from = handle[p].from
        /\ handle'[p].stream = handle[p].stream
    <3>1. handle[p] \in Handle
      BY <1>1 DEF TypeOK
    <3>2. QED
      BY <2>2, <3>1 DEF Handle
  <2>5. Placed'
    <3>1. handle[p].stream \in Streams
      BY <1>2 DEF s, StreamOf
    <3>2. ASSUME NEW k \in Handles, handle'[k].pc # "free"
          PROVE  handle'[k].stream \in Streams
      BY <2>1, <2>2, <2>4, <3>1, <3>2, ZenonT(40) DEF TypeInv, Placed
    <3>3. ASSUME NEW k \in Handles, handle'[k].pc = "grant"
          PROVE  handle'[k].grant # NoLedger
      <4>1. k # h /\ k # p
        BY <2>1, <2>2, <2>4, <3>3
      <4>2. handle'[k] = handle[k]
        BY <2>2, <4>1
      <4>3. QED
        BY <3>3, <4>2 DEF TypeInv, Placed
    <3>4. QED
      BY <3>2, <3>3 DEF Placed
  <2>6. Lent'
    <3>1. handle[p].from = NoHandle
      BY <1>2 DEF TypeInv, Lent
    <3>2. \A k \in Handles : handle[k].from # p
      BY <1>2, SessionAssumption DEF TypeInv, Lent
    <3>3. p # NoHandle
      BY SessionAssumption
    <3>4. ASSUME NEW k \in Handles, handle'[k].from # NoHandle, k # h
          PROVE  /\ k # p /\ handle'[k] = handle[k]
                 /\ handle[k].pc \in {"child", "read"}
                 /\ handle[handle[k].from].pc = "lent"
                 /\ \A j \in Handles : handle[j].from = handle[k].from => j = k
                 /\ handle[k].from \in Handles
      <4>1. k # p
        BY <2>4, <3>1, <3>4
      <4>2. handle'[k] = handle[k]
        BY <2>2, <3>4, <4>1
      <4>3. QED
        BY <1>1, <3>4, <4>1, <4>2 DEF TypeInv, TypeOK, Lent, Handle
    <3>5. SUFFICES ASSUME NEW k \in Handles, handle'[k].from # NoHandle
                   PROVE  /\ handle'[k].pc \in {"child", "read"}
                          /\ handle'[handle'[k].from].pc = "lent"
                          /\ \A j \in Handles : handle'[j].from = handle'[k].from => j = k
      BY DEF Lent
    <3>6. CASE k = h
      <4>1. handle'[k].from = p /\ handle'[k].pc = "child"
        BY <2>1, <2>2, <3>6
      <4>2. \A j \in Handles : handle'[j].from = p => j = h
        BY <2>2, <2>4, <3>1, <3>2, <3>3
      <4>3. QED
        BY <2>4, <3>6, <4>1, <4>2
    <3>7. CASE k # h
      <4>1. handle[k].from # h /\ handle[k].from # p
        BY <1>2, <3>4, <3>5, <3>7
      <4>2. handle'[handle[k].from] = handle[handle[k].from]
        BY <2>2, <3>4, <3>5, <3>7, <4>1
      <4>3. ASSUME NEW j \in Handles, handle'[j].from = handle[k].from PROVE j = k
        <5>1. j # h
          BY <2>1, <2>2, <4>1, <4>3
        <5>2. handle'[j].from = handle[j].from
          BY <2>2, <2>4, <5>1
        <5>3. \A i \in Handles : handle[i].from = handle[k].from => i = k
          BY <3>4, <3>5, <3>7
        <5>4. QED
          BY <4>3, <5>2, <5>3
      <4>4. QED
        BY <3>4, <3>5, <3>7, <4>2, <4>3
    <3>8. QED
      BY <3>6, <3>7
  <2>7. QED
    BY <2>2, <2>3, <2>5, <2>6 DEF TypeInv, TypeOK
<1>5. QED
  BY <1>2, <1>3, <1>4

\* A step that only writes well-formed events keeps the invariant.
LEMMA WriteOnlyType ==
    ASSUME TypeInv, NEW s \in Streams, NEW e \in Event, Write(s, <<e>>), UNCHANGED handle
    PROVE  TypeInv' /\ Grows
<1>1. <<e>> \in Seq(Event) /\ TypeOK
  BY DEF TypeInv
<1>2. log' \in [Streams -> Seq(Event)] /\ Grows
  BY <1>1, WriteType, WriteGrows
<1>3. QED
  BY <1>2 DEF TypeInv, TypeOK, Placed, Lent

\* Every action keeps the invariant and extends the logs.
LEMMA StepType ==
    ASSUME TypeInv, Next
    PROVE  TypeInv' /\ Grows
<1>1. TypeOK
  BY DEF TypeInv
<1>2. ASSUME UNCHANGED log, handle' \in [Handles -> Handle], Placed', Lent'
      PROVE  TypeInv' /\ Grows
  BY <1>1, <1>2, SameGrows DEF TypeInv, TypeOK
<1>3. ASSUME Crash PROVE TypeInv' /\ Grows
  <2>1. handle' = [h \in Handles |-> Free] /\ UNCHANGED log
    BY <1>3 DEF Crash
  <2>2. handle' \in [Handles -> Handle] /\ Placed' /\ Lent'
    BY <2>1, FreeType DEF Placed, Lent
  <2>3. QED
    BY <1>2, <2>1, <2>2
<1>4. ASSUME NEW h \in Handles, HandleStep(h) PROVE TypeInv' /\ Grows
  <2> DEFINE s == StreamOf(h)
  <2>1. handle[h] \in Handle
    BY <1>1 DEF TypeOK
  <2>2. handle[h].pc # "free" => s \in Streams
    BY DEF TypeInv, Placed, StreamOf
  <2>3. handle[h].pc \notin {"child", "read"} => handle[h].from = NoHandle
    BY DEF TypeInv, Lent
  <2>4. ASSUME NEW t \in Streams, NEW g \in Grants, open_on(h, t, g)
        PROVE  TypeInv' /\ Grows
    <3> DEFINE w == IF g = NoLedger THEN <<opened_event>>
                                    ELSE <<opened_event, granted_event(g)>>
               new == [Free EXCEPT !.pc = "idle", !.stream = t]
    <3>1. /\ handle[h].pc = "free" /\ Write(t, w)
          /\ handle' = [handle EXCEPT ![h] = new] \/ UNCHANGED handle
      BY <2>4 DEF open_on
    <3>2. w \in Seq(Event)
      <4>1. opened_event \in Event /\ (g # NoLedger => granted_event(g) \in Event)
        <5>1. 0 \in 0 .. MaxI64
          BY LedgerAssumption
        <5>2. opened_event \in Event
          BY <5>1, EventTypes
        <5>3. QED
          BY <5>1, <5>2, AmountTypes, EventTypes
      <4>2. QED
        BY <4>1
    <3>3. new \in Handle /\ new.pc = "idle" /\ new.stream = t /\ new.from = NoHandle
      BY FreeType DEF Free, Handle, Phase
    <3> HIDE DEF w, new
    <3>4. log' \in [Streams -> Seq(Event)] /\ Grows
      BY <1>1, <3>1, <3>2, WriteType, WriteGrows
    <3>5. CASE handle' = [handle EXCEPT ![h] = new]
      <4>1. handle' \in [Handles -> Handle] /\ Placed' /\ Lent'
        BY <2>3, <3>1, <3>3, <3>5, OneHandleType
      <4>2. QED
        BY <3>4, <4>1 DEF TypeInv, TypeOK
    <3>6. CASE UNCHANGED handle
      BY <3>4, <3>6 DEF TypeInv, TypeOK, Placed, Lent
    <3>7. QED
      BY <3>1, <3>5, <3>6
  <2>5. ASSUME NEW t \in Streams, NEW g \in Grants, resume_read(h, t, g)
        PROVE  TypeInv' /\ Grows
    <3> DEFINE new == [Free EXCEPT !.pc = "read", !.stream = t, !.grant = g,
                                   !.head = Len(log[t]), !.bal = fold_balance(log[t])]
    <3>1. handle[h].pc = "free" /\ handle' = [handle EXCEPT ![h] = new] /\ UNCHANGED log
      BY <2>5 DEF resume_read
    <3>2. g \in Balance /\ Len(log[t]) \in Nat /\ fold_balance(log[t]) \in Balance
      BY AmountTypes, ReadType
    <3>3. new \in Handle /\ new.pc = "read" /\ new.stream = t /\ new.from = NoHandle
      BY <3>2, FreeType DEF Free, Handle, Phase
    <3> HIDE DEF new
    <3>4. handle' \in [Handles -> Handle] /\ Placed' /\ Lent'
      BY <2>3, <3>1, <3>3, OneHandleType
    <3>5. QED
      BY <1>2, <3>1, <3>4
  <2>6. ASSUME resume_check(h) PROVE TypeInv' /\ Grows
    <3> DEFINE new == IF HasEnded(log[s]) THEN Free
                      ELSE [handle[h] EXCEPT
                              !.pc = IF handle[h].grant = NoLedger THEN "idle" ELSE "grant",
                              !.from = NoHandle]
    <3>1. handle[h].pc = "read" /\ Done(h, new) /\ UNCHANGED log
      BY <2>6 DEF resume_check
    <3>2. /\ new \in Handle /\ new.from = NoHandle
          /\ new.pc # "free" => new.stream \in Streams
          /\ new.pc = "grant" => new.grant # NoLedger
      <4>1. CASE HasEnded(log[s])
        BY <4>1, FreeType
      <4>2. CASE ~HasEnded(log[s])
        BY <2>1, <2>2, <3>1, <4>2 DEF Handle, Phase, StreamOf
      <4>3. QED
        BY <4>1, <4>2
    <3> HIDE DEF new
    <3>3. handle' \in [Handles -> Handle] /\ Placed' /\ Lent'
      BY <3>1, <3>2, DoneType
    <3>4. QED
      BY <1>2, <3>1, <3>3
  <2>7. ASSUME grant_more(h) PROVE TypeInv' /\ Grows
    <3> DEFINE new == [handle[h] EXCEPT !.pc = "idle", !.grant = NoLedger]
               w == <<granted_event(handle[h].grant)>>
    <3>1. handle[h].pc = "grant" /\ Write(s, w) /\ (Done(h, new) \/ Done(h, Free))
      BY <2>7 DEF grant_more
    <3>2. s \in Streams /\ handle[h].grant \in 0 .. MaxI64
      BY <2>1, <2>2, <3>1 DEF TypeInv, Placed, Handle, Balance
    <3>3. w \in Seq(Event)
      <4>1. granted_event(handle[h].grant) \in Event
        BY <3>2, EventTypes
      <4>2. QED
        BY <4>1
    <3>4. log' \in [Streams -> Seq(Event)] /\ Grows
      BY <1>1, <3>1, <3>2, <3>3, WriteType, WriteGrows
    <3>5. new \in Handle /\ new.pc = "idle" /\ new.stream = s /\ new.from = NoHandle
      BY <2>1, <2>3, <3>1 DEF Handle, Phase, Balance, StreamOf
    <3> HIDE DEF new
    <3>6. handle' \in [Handles -> Handle] /\ Placed' /\ Lent'
      <4>1. CASE Done(h, new)
        BY <3>1, <3>2, <3>5, <4>1, DoneType
      <4>2. CASE Done(h, Free)
        BY <3>1, <4>2, DoneType, FreeType
      <4>3. QED
        BY <3>1, <4>1, <4>2
    <3>7. QED
      BY <3>4, <3>6 DEF TypeInv, TypeOK
  <2>8. ASSUME NEW p \in Handles, NEW c \in Streams, NEW a \in Amounts,
               open_child(p, h, c, a)
        PROVE  TypeInv' /\ Grows
    BY <2>8, OpenChildType
  <2>9. ASSUME child_read(h) PROVE TypeInv' /\ Grows
    <3> DEFINE new == [handle[h] EXCEPT !.pc = "read", !.head = Len(log[s]),
                                        !.bal = fold_balance(log[s])]
    <3>1. handle[h].pc = "child" /\ handle' = [handle EXCEPT ![h] = new] /\ UNCHANGED log
      BY <1>1, <2>9 DEF child_read, TypeOK
    <3>2. Len(log[s]) \in Nat /\ fold_balance(log[s]) \in Balance /\ s \in Streams
      BY <2>2, <3>1, ReadType
    <3>3. new \in Handle /\ new.pc = "read" /\ new.stream = s /\ new.from = handle[h].from
      BY <2>1, <3>2 DEF Handle, Phase, StreamOf
    <3> HIDE DEF new
    <3>4. handle' \in [Handles -> Handle] /\ Placed' /\ Lent'
      BY <3>1, <3>2, <3>3, OneHandleType
    <3>5. QED
      BY <1>2, <3>1, <3>4
  <2>10. 0 \in 0 .. MaxI64
    BY LedgerAssumption
  <2>11. ASSUME append(h) PROVE TypeInv' /\ Grows
    <3>1. s \in Streams /\ kernel_event(KIND_OTHER) \in Event
      BY <2>2, <2>10, <2>11, EventTypes DEF append, Open, Idle
    <3>2. QED
      BY <2>11, <3>1, WriteOnlyType DEF append
  <2>12. ASSUME NEW a \in Amounts, reserve(h, a) PROVE TypeInv' /\ Grows
    <3> DEFINE balance == fold_balance(log[s])
    <3>1. s \in Streams /\ a \in 0 .. MaxI64 /\ HasGrant(log[s])
      BY <2>2, <2>12, AmountTypes DEF reserve, Open, Idle
    <3>2. balance \in 0 .. MaxI64
      <4>1. balance \in Balance /\ balance # NoLedger
        BY <1>1, <3>1, FoldBalanceType, GrantMakesLedger DEF TypeOK
      <4>2. QED
        BY <4>1 DEF Balance
    <3>3. /\ budget_move_event(KIND_BUDGET_RESERVED, a) \in Event
          /\ refused_event(a, balance) \in Event
      BY <3>1, <3>2, EventTypes
    <3>4. \E e \in Event : Write(s, <<e>>) /\ UNCHANGED handle
      BY <2>12, <3>3 DEF reserve
    <3>5. QED
      BY <3>1, <3>4, WriteOnlyType
  <2>13. ASSUME NEW a \in Amounts, spend(h, a) PROVE TypeInv' /\ Grows
    <3>1. s \in Streams /\ a \in 0 .. MaxI64
      BY <2>2, <2>13, AmountTypes DEF spend, Open, Idle
    <3>2. budget_move_event(KIND_BUDGET_SPENT, a) \in Event
      BY <3>1, EventTypes
    <3>3. QED
      BY <2>13, <3>1, <3>2, WriteOnlyType DEF spend
  <2>14. ASSUME remaining_head(h) PROVE TypeInv' /\ Grows
    <3> DEFINE new == [handle[h] EXCEPT !.pc = "ledger", !.seen = Len(log[s])]
    <3>1. handle[h].pc = "idle" /\ handle' = [handle EXCEPT ![h] = new] /\ UNCHANGED log
      BY <1>1, <2>14 DEF remaining_head, Idle, TypeOK
    <3>2. Len(log[s]) \in Nat /\ s \in Streams
      BY <2>2, <3>1, ReadType
    <3>3. new \in Handle /\ new.pc = "ledger" /\ new.stream = s /\ new.from = handle[h].from
      BY <2>1, <3>2 DEF Handle, Phase, StreamOf
    <3> HIDE DEF new
    <3>4. handle' \in [Handles -> Handle] /\ Placed' /\ Lent'
      BY <2>3, <3>1, <3>2, <3>3, OneHandleType
    <3>5. QED
      BY <1>2, <3>1, <3>4
  <2>15. ASSUME remaining_ledger(h) PROVE TypeInv' /\ Grows
    <3> DEFINE new == [handle[h] EXCEPT !.pc = "idle", !.head = handle[h].seen,
                                        !.bal = fold_balance(log[s]), !.seen = 0]
    <3>1. handle[h].pc = "ledger" /\ handle' = [handle EXCEPT ![h] = new] /\ UNCHANGED log
      BY <1>1, <2>15 DEF remaining_ledger, TypeOK
    <3>2. fold_balance(log[s]) \in Balance /\ s \in Streams
      BY <2>2, <3>1, ReadType
    <3>3. new \in Handle /\ new.pc = "idle" /\ new.stream = s /\ new.from = handle[h].from
      BY <2>1, <3>2 DEF Handle, Phase, StreamOf
    <3> HIDE DEF new
    <3>4. handle' \in [Handles -> Handle] /\ Placed' /\ Lent'
      BY <2>3, <3>1, <3>2, <3>3, OneHandleType
    <3>5. QED
      BY <1>2, <3>1, <3>4
  <2>16. ASSUME close_with(h) PROVE TypeInv' /\ Grows
    <3> DEFINE new == [handle[h] EXCEPT !.closed = TRUE]
               e == closing_event(open_children_in(s), FALSE)
    <3>1. /\ handle[h].pc = "idle" /\ Write(s, <<e>>)
          /\ handle' = [handle EXCEPT ![h] = new] \/ UNCHANGED handle
      BY <1>1, <2>16 DEF close_with, Open, Idle, TypeOK
    <3>2. s \in Streams /\ open_children_in(s) \in SUBSET Streams
      BY <2>2, <3>1 DEF open_children_in
    <3>3. e \in Event
      BY <2>10, <3>2, EventTypes
    <3>4. new \in Handle /\ new.pc = "idle" /\ new.stream = s /\ new.from = handle[h].from
      BY <2>1, <3>1 DEF Handle, StreamOf
    <3> HIDE DEF new, e
    <3>5. <<e>> \in Seq(Event)
      BY <3>3
    <3>6. log' \in [Streams -> Seq(Event)] /\ Grows
      BY <1>1, <3>1, <3>2, <3>5, WriteType, WriteGrows
    <3>7. CASE handle' = [handle EXCEPT ![h] = new]
      <4>1. handle' \in [Handles -> Handle] /\ Placed' /\ Lent'
        BY <2>3, <3>1, <3>2, <3>4, <3>7, OneHandleType
      <4>2. QED
        BY <3>6, <4>1 DEF TypeInv, TypeOK
    <3>8. CASE UNCHANGED handle
      BY <3>1, <3>2, <3>3, <3>8, WriteOnlyType
    <3>9. QED
      BY <3>1, <3>7, <3>8
  <2>17. ASSUME drop(h) PROVE TypeInv' /\ Grows
    <3> DEFINE new == IF handle[h].closed THEN Free
                      ELSE [Free EXCEPT !.pc = "dropped", !.stream = s]
    <3>1. handle[h].pc = "idle" /\ handle' = [handle EXCEPT ![h] = new] /\ UNCHANGED log
      BY <2>17 DEF drop, Idle
    <3>2. /\ new \in Handle /\ new.from = NoHandle /\ new.pc # "grant"
          /\ new.pc # "free" => new.stream \in Streams
      <4>1. CASE handle[h].closed
        BY <4>1, FreeType
      <4>2. CASE ~handle[h].closed
        BY <2>2, <3>1, <4>2, FreeType DEF Free, Handle, Phase
      <4>3. QED
        BY <4>1, <4>2
    <3> HIDE DEF new
    <3>3. handle' \in [Handles -> Handle] /\ Placed' /\ Lent'
      BY <2>3, <3>1, <3>2, OneHandleType
    <3>4. QED
      BY <1>2, <3>1, <3>3
  <2>18. ASSUME close_detached(h) PROVE TypeInv' /\ Grows
    <3> DEFINE e == closing_event({}, TRUE)
    <3>1. handle[h].pc = "dropped" /\ Write(s, <<e>>) /\ handle' = [handle EXCEPT ![h] = Free]
      BY <2>18 DEF close_detached
    <3>2. s \in Streams /\ e \in Event
      BY <2>2, <2>10, <3>1, EventTypes
    <3> HIDE DEF e
    <3>3. <<e>> \in Seq(Event)
      BY <3>2
    <3>4. log' \in [Streams -> Seq(Event)] /\ Grows
      BY <1>1, <3>1, <3>2, <3>3, WriteType, WriteGrows
    <3>5. handle' \in [Handles -> Handle] /\ Placed' /\ Lent'
      BY <2>3, <3>1, FreeType, OneHandleType
    <3>6. QED
      BY <3>4, <3>5 DEF TypeInv, TypeOK
  <2>19. ASSUME GiveUp(h) PROVE TypeInv' /\ Grows
    <3> DEFINE new == IF handle[h].pc = "ledger"
                      THEN [handle[h] EXCEPT !.pc = "idle", !.seen = 0] ELSE Free
    <3>1. /\ handle[h].pc \in {"ledger", "child", "read", "grant", "dropped"}
          /\ Done(h, new) /\ UNCHANGED log
      BY <2>19 DEF GiveUp
    <3>2. /\ new \in Handle /\ new.from = NoHandle /\ new.pc # "grant"
          /\ new.pc # "free" => new.stream \in Streams
      <4>1. CASE handle[h].pc = "ledger"
        BY <2>1, <2>2, <2>3, <4>1 DEF Handle, Phase, StreamOf
      <4>2. CASE handle[h].pc # "ledger"
        BY <4>2, FreeType
      <4>3. QED
        BY <4>1, <4>2
    <3> HIDE DEF new
    <3>3. handle' \in [Handles -> Handle] /\ Placed' /\ Lent'
      BY <3>1, <3>2, DoneType
    <3>4. QED
      BY <1>2, <3>1, <3>3
  <2>20. QED
    BY <1>4, <2>4, <2>5, <2>6, <2>7, <2>8, <2>9, <2>11, <2>12, <2>13, <2>14,
       <2>15, <2>16, <2>17, <2>18, <2>19 DEF HandleStep
<1>5. QED
  BY <1>3, <1>4 DEF Next

\* The type invariant holds of an empty database with no handles.
LEMMA InitType == Init => TypeInv
<1>1. SUFFICES ASSUME Init PROVE TypeInv
  OBVIOUS
<1>2. log \in [Streams -> Seq(Event)]
  BY <1>1 DEF Init
<1>3. handle \in [Handles -> Handle]
  BY <1>1, FreeType DEF Init
<1>4. Placed /\ Lent
  BY <1>1, FreeType DEF Init, Placed, Lent
<1>5. QED
  BY <1>2, <1>3, <1>4 DEF TypeInv, TypeOK

\* A stuttering step preserves the type invariant and shrinks no log.
LEMMA StutterType ==
    ASSUME TypeInv, UNCHANGED vars
    PROVE  TypeInv' /\ Grows
BY SameGrows DEF TypeInv, TypeOK, Placed, Lent, vars

\* Every reachable state is well-typed: no log ever holds a malformed event or
\* an amount outside 0 .. i64::MAX, whatever handles do, fail or crash.
THEOREM TypeCorrect == Spec => []TypeOK
<1>1. Init => TypeInv
  BY InitType
<1>2. TypeInv /\ [Next]_vars => TypeInv'
  BY StepType, StutterType
<1>3. TypeInv => TypeOK
  BY DEF TypeInv
<1>4. QED
  BY <1>1, <1>2, <1>3, PTL DEF Spec

----------------------------------------------------------------------------
(* Caches *)

\* The phases in which a handle's balance cache is in use.
Caching == {"idle", "ledger", "read", "grant", "lent"}

\* What is invariant about one handle x against the logs L.  Besides the two
\* properties it says that the head `remaining` works from has been reached.
CacheOK(x, L) ==
    /\ x.pc \in Caching =>
         \E k \in x.head .. Len(L[x.stream]) : x.bal = Folded(L[x.stream])[k]
    /\ x.pc = "ledger" => x.seen <= Len(L[x.stream])
    /\ x.pc = "grant" =>
         \A i \in 1 .. x.head : L[x.stream][i].kind # KIND_SESSION_CLOSED

CacheInv == \A h \in Handles : CacheOK(handle[h], log)

\* Logs that grow leave it true.
LEMMA CacheGrows ==
    ASSUME TypeInv, TypeInv', Grows, NEW x \in Handle,
           x.pc # "free" => x.stream \in Streams, CacheOK(x, log)
    PROVE  CacheOK(x, log')
<1>1. CASE x.pc \notin Caching
  BY <1>1 DEF CacheOK, Caching
<1>2. CASE x.pc \in Caching
  <2> DEFINE l == log[x.stream]
  <2>1. x.stream \in Streams /\ x.head \in Nat /\ x.seen \in Nat
    BY <1>2 DEF Caching, Handle
  <2>2. PICK w \in Seq(Event) : log'[x.stream] = l \o w
    BY <2>1 DEF Grows
  <2>3. /\ l \in Seq(Event) /\ Len(l) \in Nat /\ Len(l \o w) = Len(l) + Len(w)
        /\ Len(w) \in Nat /\ \A i \in 1 .. Len(l) : (l \o w)[i] = l[i]
    BY <2>1 DEF TypeInv, TypeOK
  <2>4. PICK k \in x.head .. Len(l) : x.bal = Folded(l)[k]
    BY <1>2 DEF CacheOK
  <2>5. k \in 0 .. Len(l) /\ k \in x.head .. Len(l \o w) /\ x.head <= Len(l)
    BY <2>1, <2>3, <2>4
  <2>6. Folded(l \o w)[k] = Folded(l)[k]
    BY <2>3, <2>5, FoldedPrefix
  <2>7. x.pc = "ledger" => x.seen <= Len(l \o w)
    BY <2>1, <2>3 DEF CacheOK
  <2>8. x.pc = "grant" => \A i \in 1 .. x.head : (l \o w)[i].kind # KIND_SESSION_CLOSED
    BY <2>1, <2>3, <2>5 DEF CacheOK
  <2> HIDE DEF l
  <2>9. QED
    BY <2>2, <2>4, <2>5, <2>6, <2>7, <2>8 DEF CacheOK
<1>3. QED
  BY <1>1, <1>2

\* A handle that is not there, or has no cache in use, has nothing to keep.
LEMMA NoCache ==
    ASSUME NEW x, x.pc \in {"free", "child", "dropped"}, NEW L
    PROVE  CacheOK(x, L)
BY DEF CacheOK, Caching

\* A step that leaves the handles alone.
LEMMA SameCache ==
    ASSUME TypeInv, TypeInv', Grows, CacheInv, UNCHANGED handle
    PROVE  CacheInv'
<1>1. ASSUME NEW h \in Handles PROVE CacheOK(handle[h], log')
  BY CacheGrows DEF TypeInv, TypeOK, Placed, CacheInv
<1>2. QED
  BY <1>1 DEF CacheInv

\* A step that changes one handle.
LEMMA OneHandleCache ==
    ASSUME TypeInv, TypeInv', Grows, CacheInv, NEW h \in Handles, NEW new,
           handle' = [handle EXCEPT ![h] = new], CacheOK(new, log')
    PROVE  CacheInv'
<1>1. ASSUME NEW k \in Handles PROVE CacheOK(handle'[k], log')
  <2>1. CASE k = h
    BY <2>1 DEF TypeInv, TypeOK
  <2>2. CASE k # h
    <3>1. handle'[k] = handle[k]
      BY <2>2 DEF TypeInv, TypeOK
    <3>2. CacheOK(handle[k], log')
      BY CacheGrows DEF TypeInv, TypeOK, Placed, CacheInv
    <3>3. QED
      BY <3>1, <3>2
  <2>3. QED
    BY <2>1, <2>2
<1>2. QED
  BY <1>1 DEF CacheInv

\* A step that ends a call: a parent that gets its lock back keeps its cache.
LEMMA DoneCache ==
    ASSUME TypeInv, TypeInv', Grows, CacheInv, NEW h \in Handles, NEW new,
           Done(h, new), CacheOK(new, log')
    PROVE  CacheInv'
<1>1. ASSUME NEW k \in Handles PROVE CacheOK(handle'[k], log')
  <2>1. handle[k] \in Handle /\ CacheOK(handle[k], log')
    BY CacheGrows DEF TypeInv, TypeOK, Placed, CacheInv
  <2>2. CASE k = h
    BY <2>2 DEF Done
  <2>3. CASE k # h /\ k = handle[h].from
    <3>1. handle[k].pc = "lent"
      BY <2>3, SessionAssumption DEF TypeInv, Lent
    <3>2. handle'[k] = [handle[k] EXCEPT !.pc = "idle"]
      BY <2>3 DEF Done
    <3>3. /\ handle'[k].pc = "idle" /\ handle'[k].head = handle[k].head
          /\ handle'[k].bal = handle[k].bal /\ handle'[k].stream = handle[k].stream
      BY <2>1, <3>2 DEF Handle
    <3>4. QED
      BY <2>1, <3>1, <3>3 DEF CacheOK, Caching
  <2>4. CASE k # h /\ k # handle[h].from
    BY <2>1, <2>4 DEF Done
  <2>5. QED
    BY <2>2, <2>3, <2>4
<1>2. QED
  BY <1>1 DEF CacheInv

\* What a log folds to is at the end of its prefixes, and nothing at the start.
LEMMA FoldedEnds ==
    ASSUME NEW l \in Seq(Event)
    PROVE  Folded(l)[0] = NoLedger /\ fold_balance(l) = Folded(l)[Len(l)] /\ Len(l) \in Nat
<1>1. Len(l) \in Nat
  OBVIOUS
<1>2. IsFoldUpTo(Folded(l), l, Len(l))
  BY <1>1, FoldedIsFold
<1>3. 0 \in 0 .. Len(l)
  BY <1>1
<1>4. Folded(l)[0] = NoLedger
  BY <1>2, <1>3 DEF IsFoldUpTo
<1>5. QED
  BY <1>1, <1>4 DEF fold_balance

\* Every action keeps the caches true.
LEMMA CacheStep ==
    ASSUME TypeInv, CacheInv, Next
    PROVE  CacheInv'
<1>1. TypeInv' /\ Grows
  BY StepType
<1>2. CASE Crash
  <2>1. \A h \in Handles : handle'[h].pc = "free"
    BY <1>2, FreeType DEF Crash
  <2>2. QED
    BY <2>1, NoCache DEF CacheInv
<1>3. ASSUME NEW h \in Handles, HandleStep(h) PROVE CacheInv'
  <2> DEFINE s == StreamOf(h)
             l == log[s]
  <2>1. handle[h] \in Handle /\ CacheOK(handle[h], log)
    BY DEF TypeInv, TypeOK, CacheInv
  <2>2. ASSUME handle[h].pc # "free"
        PROVE  /\ s \in Streams /\ l \in Seq(Event) /\ Len(l) \in Nat
               /\ fold_balance(l) = Folded(l)[Len(l)]
               /\ CacheOK(handle[h], log')
    <3>1. s \in Streams /\ l \in Seq(Event)
      BY <2>2 DEF TypeInv, TypeOK, Placed, StreamOf
    <3>2. CacheOK(handle[h], log')
      BY <1>1, <2>1, CacheGrows DEF TypeInv, Placed
    <3>3. QED
      BY <3>1, <3>2, FoldedEnds
  <2>3. ASSUME NEW t \in Streams, NEW g \in Grants, open_on(h, t, g) PROVE CacheInv'
    <3> DEFINE new == [Free EXCEPT !.pc = "idle", !.stream = t]
    <3>1. handle' = [handle EXCEPT ![h] = new] \/ UNCHANGED handle
      BY <2>3 DEF open_on
    <3>2. CacheOK(new, log')
      <4>1. /\ new.pc = "idle" /\ new.stream = t /\ new.head = 0 /\ new.bal = NoLedger
        BY DEF Free
      <4>2. log'[t] \in Seq(Event)
        BY <1>1 DEF TypeInv, TypeOK
      <4>3. Folded(log'[t])[0] = NoLedger /\ 0 \in 0 .. Len(log'[t])
        BY <4>2, FoldedEnds
      <4> HIDE DEF new
      <4>4. QED
        BY <4>1, <4>3 DEF CacheOK
    <3> HIDE DEF new
    <3>3. QED
      BY <1>1, <3>1, <3>2, OneHandleCache, SameCache
  <2>4. ASSUME NEW t \in Streams, NEW g \in Grants, resume_read(h, t, g) PROVE CacheInv'
    <3> DEFINE new == [Free EXCEPT !.pc = "read", !.stream = t, !.grant = g,
                                   !.head = Len(log[t]), !.bal = fold_balance(log[t])]
    <3>1. handle' = [handle EXCEPT ![h] = new] /\ log' = log
      BY <2>4 DEF resume_read
    <3>2. CacheOK(new, log')
      <4>1. /\ new.pc = "read" /\ new.stream = t /\ new.head = Len(log[t])
            /\ new.bal = fold_balance(log[t])
        BY DEF Free
      <4>2. log[t] \in Seq(Event)
        BY DEF TypeInv, TypeOK
      <4>3. new.bal = Folded(log[t])[Len(log[t])] /\ Len(log[t]) \in new.head .. Len(log[t])
        BY <4>1, <4>2, FoldedEnds
      <4> HIDE DEF new
      <4>4. QED
        BY <3>1, <4>1, <4>3 DEF CacheOK
    <3> HIDE DEF new
    <3>3. QED
      BY <1>1, <3>1, <3>2, OneHandleCache
  <2>5. ASSUME resume_check(h) PROVE CacheInv'
    <3> DEFINE vetted == [handle[h] EXCEPT
                            !.pc = IF handle[h].grant = NoLedger THEN "idle" ELSE "grant",
                            !.from = NoHandle]
               new == IF HasEnded(l) THEN Free ELSE vetted
    <3>1. handle[h].pc = "read" /\ Done(h, new) /\ log' = log
      BY <2>5 DEF resume_check
    <3>2. CacheOK(new, log')
      <4>1. CASE HasEnded(l)
        BY <4>1, FreeType, NoCache
      <4>2. CASE ~HasEnded(l)
        <5>1. /\ vetted.pc \in {"idle", "grant"} /\ vetted.stream = handle[h].stream
              /\ vetted.head = handle[h].head /\ vetted.bal = handle[h].bal
          BY <2>1 DEF Handle
        <5>2. PICK k \in handle[h].head .. Len(l) : handle[h].bal = Folded(l)[k]
          BY <2>1, <3>1 DEF CacheOK, Caching, StreamOf
        <5>3. \A i \in 1 .. handle[h].head : l[i].kind # KIND_SESSION_CLOSED
          <6>1. handle[h].head \in Nat /\ handle[h].head <= Len(l) /\ l \in Seq(Event)
            BY <2>1, <2>2, <3>1, <5>2 DEF Handle
          <6>2. QED
            BY <4>2, <6>1 DEF HasEnded
        <5> HIDE DEF vetted
        <5>4. CacheOK(vetted, log)
          BY <5>1, <5>2, <5>3 DEF CacheOK, StreamOf
        <5>5. QED
          BY <3>1, <4>2, <5>4
      <4>3. QED
        BY <4>1, <4>2
    <3> HIDE DEF new
    <3>3. QED
      BY <1>1, <3>1, <3>2, DoneCache
  <2>6. ASSUME grant_more(h) PROVE CacheInv'
    <3> DEFINE new == [handle[h] EXCEPT !.pc = "idle", !.grant = NoLedger]
    <3>1. handle[h].pc = "grant" /\ (Done(h, new) \/ Done(h, Free))
      BY <2>6 DEF grant_more
    <3>2. CacheOK(new, log')
      <4>1. /\ new.pc = "idle" /\ new.stream = handle[h].stream
            /\ new.head = handle[h].head /\ new.bal = handle[h].bal
        BY <2>1 DEF Handle
      <4> HIDE DEF new
      <4>2. QED
        BY <2>2, <3>1, <4>1 DEF CacheOK, Caching
    <3>3. CacheOK(Free, log')
      BY FreeType, NoCache
    <3> HIDE DEF new
    <3>4. QED
      BY <1>1, <3>1, <3>2, <3>3, DoneCache
  <2>7. ASSUME NEW p \in Handles, NEW c \in Streams, NEW a \in Amounts,
               open_child(p, h, c, a)
        PROVE  CacheInv'
    <3>1. handle[p].pc = "idle" /\ (ChildRefused(p, h, c, a) \/ ChildOpened(p, h, c, a))
      BY <2>7, OpenChildForm
    <3>2. CASE ChildRefused(p, h, c, a)
      BY <1>1, <3>2, SameCache DEF ChildRefused
    <3>3. CASE ChildOpened(p, h, c, a)
      <4> DEFINE child == [Free EXCEPT !.pc = "child", !.stream = c, !.from = p]
      <4>1. /\ handle'[h] = child
            /\ handle'[p] = [handle[p] EXCEPT !.pc = "lent"]
            /\ \A k \in Handles : k # h /\ k # p => handle'[k] = handle[k]
        <5>1. AfterChildOpened(p, h, c, a)
          BY <2>7, <3>3, ChildOpenedForm
        <5>2. QED
          BY <5>1 DEF AfterChildOpened
      <4>2. child.pc = "child"
        BY DEF Free
      <4> HIDE DEF child
      <4>3. ASSUME NEW k \in Handles PROVE CacheOK(handle'[k], log')
        <5>1. handle[k] \in Handle /\ CacheOK(handle[k], log')
          BY <1>1, CacheGrows DEF TypeInv, TypeOK, Placed, CacheInv
        <5>2. CASE k = h
          BY <4>1, <4>2, <5>2, NoCache
        <5>3. CASE k # h /\ k = p
          <6>1. /\ handle'[k].pc = "lent" /\ handle'[k].stream = handle[k].stream
                /\ handle'[k].head = handle[k].head /\ handle'[k].bal = handle[k].bal
            BY <4>1, <5>1, <5>3 DEF Handle
          <6>2. QED
            BY <3>1, <5>1, <5>3, <6>1 DEF CacheOK, Caching
        <5>4. CASE k # h /\ k # p
          BY <4>1, <5>1, <5>4
        <5>5. QED
          BY <5>2, <5>3, <5>4
      <4>4. QED
        BY <4>3 DEF CacheInv
    <3>4. QED
      BY <3>1, <3>2, <3>3
  <2>8. ASSUME child_read(h) PROVE CacheInv'
    <3> DEFINE new == [handle[h] EXCEPT !.pc = "read", !.head = Len(l),
                                        !.bal = fold_balance(l)]
    <3>1. handle[h].pc = "child" /\ handle' = [handle EXCEPT ![h] = new] /\ log' = log
      BY <2>8 DEF child_read, TypeInv, TypeOK
    <3>2. CacheOK(new, log')
      <4>1. /\ new.pc = "read" /\ new.stream = s /\ new.head = Len(l)
            /\ new.bal = fold_balance(l)
        BY <2>1 DEF Handle, StreamOf
      <4>2. new.bal = Folded(l)[Len(l)] /\ Len(l) \in new.head .. Len(l)
        BY <2>2, <3>1, <4>1
      <4> HIDE DEF new
      <4>3. QED
        BY <3>1, <4>1, <4>2 DEF CacheOK
    <3> HIDE DEF new
    <3>3. QED
      BY <1>1, <3>1, <3>2, OneHandleCache
  <2>9. ASSUME UNCHANGED handle PROVE CacheInv'
    BY <1>1, <2>9, SameCache
  <2>10. ASSUME remaining_head(h) PROVE CacheInv'
    <3> DEFINE new == [handle[h] EXCEPT !.pc = "ledger", !.seen = Len(l)]
    <3>1. handle[h].pc = "idle" /\ handle' = [handle EXCEPT ![h] = new] /\ log' = log
      BY <2>10 DEF remaining_head, Idle, TypeInv, TypeOK
    <3>2. CacheOK(new, log')
      <4>1. /\ new.pc = "ledger" /\ new.stream = s /\ new.head = handle[h].head
            /\ new.bal = handle[h].bal /\ new.seen = Len(l)
        BY <2>1 DEF Handle, StreamOf
      <4> HIDE DEF new
      <4>2. QED
        BY <2>1, <2>2, <3>1, <4>1 DEF CacheOK, Caching, StreamOf
    <3> HIDE DEF new
    <3>3. QED
      BY <1>1, <3>1, <3>2, OneHandleCache
  <2>11. ASSUME remaining_ledger(h) PROVE CacheInv'
    <3> DEFINE new == [handle[h] EXCEPT !.pc = "idle", !.head = handle[h].seen,
                                        !.bal = fold_balance(l), !.seen = 0]
    <3>1. handle[h].pc = "ledger" /\ handle' = [handle EXCEPT ![h] = new] /\ log' = log
      BY <2>11 DEF remaining_ledger, TypeInv, TypeOK
    <3>2. CacheOK(new, log')
      <4>1. /\ new.pc = "idle" /\ new.stream = s /\ new.head = handle[h].seen
            /\ new.bal = fold_balance(l) /\ handle[h].seen \in Nat
        BY <2>1 DEF Handle, StreamOf
      <4>2. handle[h].seen <= Len(l)
        BY <2>1, <3>1 DEF CacheOK, StreamOf
      <4>3. new.bal = Folded(l)[Len(l)] /\ Len(l) \in new.head .. Len(l)
        BY <2>2, <3>1, <4>1, <4>2
      <4> HIDE DEF new
      <4>4. QED
        BY <3>1, <4>1, <4>3 DEF CacheOK
    <3> HIDE DEF new
    <3>3. QED
      BY <1>1, <3>1, <3>2, OneHandleCache
  <2>12. ASSUME close_with(h) PROVE CacheInv'
    <3> DEFINE new == [handle[h] EXCEPT !.closed = TRUE]
    <3>1. handle[h].pc = "idle" /\ (handle' = [handle EXCEPT ![h] = new] \/ UNCHANGED handle)
      BY <2>12 DEF close_with, Open, Idle, TypeInv, TypeOK
    <3>2. CacheOK(new, log')
      <4>1. /\ new.pc = "idle" /\ new.stream = handle[h].stream
            /\ new.head = handle[h].head /\ new.bal = handle[h].bal
        BY <2>1, <3>1 DEF Handle
      <4> HIDE DEF new
      <4>2. QED
        BY <2>2, <3>1, <4>1 DEF CacheOK, Caching
    <3> HIDE DEF new
    <3>3. QED
      BY <1>1, <2>9, <3>1, <3>2, OneHandleCache
  <2>13. ASSUME drop(h) PROVE CacheInv'
    <3> DEFINE new == IF handle[h].closed THEN Free
                      ELSE [Free EXCEPT !.pc = "dropped", !.stream = s]
    <3>1. handle' = [handle EXCEPT ![h] = new]
      BY <2>13 DEF drop
    <3>2. new.pc \in {"free", "dropped"}
      BY DEF Free
    <3> HIDE DEF new
    <3>3. CacheOK(new, log')
      BY <3>2, NoCache
    <3>4. QED
      BY <1>1, <3>1, <3>3, OneHandleCache
  <2>14. ASSUME close_detached(h) PROVE CacheInv'
    <3>1. handle' = [handle EXCEPT ![h] = Free]
      BY <2>14 DEF close_detached
    <3>2. CacheOK(Free, log')
      BY FreeType, NoCache
    <3>3. QED
      BY <1>1, <3>1, <3>2, OneHandleCache
  <2>15. ASSUME GiveUp(h) PROVE CacheInv'
    <3> DEFINE idle == [handle[h] EXCEPT !.pc = "idle", !.seen = 0]
               new == IF handle[h].pc = "ledger" THEN idle ELSE Free
    <3>1. Done(h, new)
      BY <2>15 DEF GiveUp
    <3>2. CacheOK(new, log')
      <4>1. CASE handle[h].pc = "ledger"
        <5>1. /\ idle.pc = "idle" /\ idle.stream = handle[h].stream
              /\ idle.head = handle[h].head /\ idle.bal = handle[h].bal
          BY <2>1 DEF Handle
        <5> HIDE DEF idle
        <5>2. CacheOK(idle, log')
          BY <2>2, <4>1, <5>1 DEF CacheOK, Caching
        <5>3. QED
          BY <4>1, <5>2
      <4>2. CASE handle[h].pc # "ledger"
        BY <4>2, FreeType, NoCache
      <4>3. QED
        BY <4>1, <4>2
    <3> HIDE DEF new
    <3>3. QED
      BY <1>1, <3>1, <3>2, DoneCache
  <2>16. (append(h) \/ (\E a \in Amounts : reserve(h, a) \/ spend(h, a)))
           => UNCHANGED handle
    BY DEF append, reserve, spend
  <2>17. QED
    BY <1>3, <2>3, <2>4, <2>5, <2>6, <2>7, <2>8, <2>9, <2>10, <2>11, <2>12,
       <2>13, <2>14, <2>15, <2>16 DEF HandleStep
<1>4. QED
  BY <1>2, <1>3 DEF Next

\* With no handle there is no cache to be stale.
LEMMA CacheInit == Init => CacheInv
BY FreeType, NoCache DEF Init, CacheInv

\* A stuttering step leaves the caches as they were.
LEMMA CacheStutter ==
    ASSUME TypeInv, CacheInv, UNCHANGED vars
    PROVE  CacheInv'
BY DEF CacheInv, CacheOK, vars

\* The cache invariant holds in every state of every behaviour.
LEMMA CacheInvariant == Spec => [](TypeInv /\ CacheInv)
<1>1. Init => TypeInv /\ CacheInv
  BY InitType, CacheInit
<1>2. TypeInv /\ CacheInv /\ [Next]_vars => TypeInv' /\ CacheInv'
  BY StepType, StutterType, CacheStep, CacheStutter
<1>3. QED
  BY <1>1, <1>2, PTL DEF Spec

\* A read of the balance answered from the cache is never stale, for any number
\* of handles on a stream and any interleaving of their calls
\* (Session::remaining, Session::resume).
THEOREM CacheIsNeverStale == Spec => []CacheNeverStale
<1>1. TypeInv /\ CacheInv => CacheNeverStale
  BY DEF CacheInv, CacheOK, Caching, CacheNeverStale, StreamOf
<1>2. QED
  BY <1>1, CacheInvariant, PTL

\* A resume records its owner's grant only after a log read in which nothing
\* had ended the session (resume_on).
THEOREM ResumesReadNoEnding == Spec => []ResumedBeforeEnding
<1>1. TypeInv /\ CacheInv => ResumedBeforeEnding
  BY DEF CacheInv, CacheOK, ResumedBeforeEnding, StreamOf
<1>2. QED
  BY <1>1, CacheInvariant, PTL

----------------------------------------------------------------------------
(* Ledgers *)

\* The reservations of a log that open a child.
OpensChild(e) == e.kind = KIND_BUDGET_RESERVED /\ e.peer # NoStream

\* What is invariant about one log: NoOverdraft and NoChildAfterEnding of it.
LogOK(l) ==
    /\ \A i \in DOMAIN l : TrueOf(Folded(l)[i - 1], l[i])
    /\ \A i, j \in DOMAIN l :
         l[i].kind = KIND_SESSION_CLOSED /\ OpensChild(l[j]) => j < i

\* What a transaction decided before it appended e to l.
EntryOK(l, e) ==
    /\ TrueOf(fold_balance(l), e)
    /\ OpensChild(e) => ~HasEnded(l)

LogsInv == \A s \in Streams : LogOK(log[s])

\* Deciding on the log one is appending to keeps it true.
LEMMA AppendOK ==
    ASSUME NEW l \in Seq(Event), NEW e \in Event, LogOK(l), EntryOK(l, e)
    PROVE  LogOK(l \o <<e>>)
<1> DEFINE m == l \o <<e>>
<1>1. /\ m \in Seq(Event) /\ Len(m) = Len(l) + 1 /\ m[Len(l) + 1] = e
      /\ Len(l) \in Nat /\ \A i \in 1 .. Len(l) : m[i] = l[i]
      /\ DOMAIN m = 1 .. Len(l) + 1 /\ DOMAIN l = 1 .. Len(l)
  OBVIOUS
<1>2. \A i \in 0 .. Len(l) : Folded(m)[i] = Folded(l)[i]
  <2>1. <<e>> \in Seq(Event)
    OBVIOUS
  <2>2. QED
    BY <2>1, FoldedPrefix
<1> HIDE DEF m
<1>3. ASSUME NEW i \in DOMAIN m PROVE TrueOf(Folded(m)[i - 1], m[i])
  <2>1. CASE i \in 1 .. Len(l)
    <3>1. m[i] = l[i] /\ Folded(m)[i - 1] = Folded(l)[i - 1]
      BY <1>1, <1>2, <2>1
    <3>2. TrueOf(Folded(l)[i - 1], l[i])
      BY <1>1, <2>1 DEF LogOK
    <3>3. QED
      BY <3>1, <3>2
  <2>2. CASE i = Len(l) + 1
    <3>1. m[i] = e /\ i - 1 = Len(l) /\ Len(l) \in 0 .. Len(l)
      BY <1>1, <2>2
    <3>2. Folded(m)[i - 1] = fold_balance(l)
      BY <1>2, <3>1 DEF fold_balance
    <3>3. QED
      BY <3>1, <3>2 DEF EntryOK
  <2>3. QED
    BY <1>1, <2>1, <2>2
<1>4. ASSUME NEW i \in DOMAIN m, NEW j \in DOMAIN m,
             m[i].kind = KIND_SESSION_CLOSED, OpensChild(m[j])
      PROVE  j < i
  <2>1. CASE j = Len(l) + 1
    <3>1. ~HasEnded(l)
      BY <1>1, <1>4, <2>1 DEF EntryOK
    <3>2. i = Len(l) + 1
      BY <1>1, <1>4, <3>1 DEF HasEnded
    <3>3. FALSE
      BY <1>1, <1>4, <2>1, <3>2 DEF OpensChild, KIND_SESSION_CLOSED, KIND_BUDGET_RESERVED
    <3>4. QED
      BY <3>3
  <2>2. CASE j # Len(l) + 1
    BY <1>1, <1>4, <2>2 DEF LogOK
  <2>3. QED
    BY <2>1, <2>2
<1>5. QED
  BY <1>3, <1>4 DEF LogOK, m

\* Entries that neither take units nor speak of the balance need no decision.
LEMMA NeutralOK ==
    ASSUME NEW l, NEW e,
           e.kind \notin {KIND_BUDGET_RESERVED, KIND_BUDGET_REFUSED, KIND_BUDGET_SPENT}
    PROVE  EntryOK(l, e)
BY DEF EntryOK, TrueOf, OpensChild

\* An empty log is a truthful one.
LEMMA EmptyOK == LogOK(<< >>)
BY DEF LogOK

\* The two events a stream begins with.
LEMMA BirthOK ==
    ASSUME NEW e \in Event, e.kind = KIND_SESSION_OPENED,
           NEW g \in Event, g.kind = KIND_BUDGET_GRANTED
    PROVE  LogOK(<<e>>) /\ LogOK(<<e, g>>)
<1>1. << >> \in Seq(Event) /\ << >> \o <<e>> = <<e>> /\ <<e>> \in Seq(Event)
      /\ <<e>> \o <<g>> = <<e, g>>
  <2>1. << >> \in Seq(Event) /\ <<e>> \in Seq(Event)
    OBVIOUS
  <2>2. << >> \o <<e>> = <<e>>
    BY <2>1
  <2>3. <<e>> \o <<g>> = <<e, g>>
    <3>1. <<e>> \o <<g>> \in Seq(Event) /\ <<e, g>> \in Seq(Event)
      OBVIOUS
    <3>2. Len(<<e>> \o <<g>>) = 2 /\ Len(<<e, g>>) = 2
      OBVIOUS
    <3>3. \A i \in 1 .. 2 : (<<e>> \o <<g>>)[i] = <<e, g>>[i]
      OBVIOUS
    <3>4. QED
      BY <3>1, <3>2, <3>3, SeqEqual
  <2>4. QED
    BY <2>1, <2>2, <2>3
<1>2. \A l : EntryOK(l, e) /\ EntryOK(l, g)
  BY NeutralOK DEF KIND_SESSION_OPENED, KIND_BUDGET_GRANTED, KIND_BUDGET_RESERVED,
                   KIND_BUDGET_REFUSED, KIND_BUDGET_SPENT
<1>3. LogOK(<<e>>)
  BY <1>1, <1>2, EmptyOK, AppendOK
<1>4. LogOK(<<e, g>>)
  BY <1>1, <1>2, <1>3, AppendOK
<1>5. QED
  BY <1>3, <1>4

\* A step that appends one event it decided on.
LEMMA WriteOK ==
    ASSUME TypeInv, LogsInv, NEW s \in Streams, NEW e \in Event,
           Write(s, <<e>>), EntryOK(log[s], e)
    PROVE  LogsInv'
<1>1. \A t \in Streams : log[t] \in Seq(Event) /\ LogOK(log[t])
  BY DEF TypeInv, TypeOK, LogsInv
<1>2. LogOK(log[s] \o <<e>>)
  BY <1>1, AppendOK
<1>3. \A t \in Streams : log'[t] = IF t = s THEN log[s] \o <<e>> ELSE log[t]
  BY DEF Write, TypeInv, TypeOK
<1>4. QED
  BY <1>1, <1>2, <1>3 DEF LogsInv

\* The kinds the builders give their events, and the fields a decision reads.
LEMMA EventKinds ==
    ASSUME NEW n, NEW b, NEW c, NEW s, NEW cs, NEW d
    PROVE  /\ opened_event.kind = KIND_SESSION_OPENED
           /\ child_opened_event(s).kind = KIND_SESSION_OPENED
           /\ granted_event(n).kind = KIND_BUDGET_GRANTED
           /\ child_granted_event(n, s).kind = KIND_BUDGET_GRANTED
           /\ closing_event(cs, d).kind = KIND_SESSION_CLOSED
           /\ kernel_event(KIND_OTHER).kind = KIND_OTHER
           /\ LET e == budget_move_event(KIND_BUDGET_RESERVED, n)
              IN  e.kind = KIND_BUDGET_RESERVED /\ e.amount = n /\ e.peer = NoStream
           /\ budget_move_event(KIND_BUDGET_SPENT, n).kind = KIND_BUDGET_SPENT
           /\ LET e == refused_event(n, b)
              IN  e.kind = KIND_BUDGET_REFUSED /\ e.amount = n /\ e.remaining = b
           /\ LET e == allocated_event(n, c)
              IN  e.kind = KIND_BUDGET_RESERVED /\ e.amount = n
           /\ LET e == allocation_refused_event(n, b, c)
              IN  e.kind = KIND_BUDGET_REFUSED /\ e.amount = n /\ e.remaining = b
BY DEF opened_event, child_opened_event, granted_event, child_granted_event,
       closing_event, kernel_event, budget_move_event, refused_event,
       allocated_event, allocation_refused_event

\* The kinds are seven different strings.
LEMMA KindsDiffer ==
    /\ KIND_SESSION_OPENED \notin {KIND_BUDGET_RESERVED, KIND_BUDGET_REFUSED, KIND_BUDGET_SPENT}
    /\ KIND_SESSION_CLOSED \notin {KIND_BUDGET_RESERVED, KIND_BUDGET_REFUSED, KIND_BUDGET_SPENT}
    /\ KIND_BUDGET_GRANTED \notin {KIND_BUDGET_RESERVED, KIND_BUDGET_REFUSED, KIND_BUDGET_SPENT}
    /\ KIND_OTHER \notin {KIND_BUDGET_RESERVED, KIND_BUDGET_REFUSED, KIND_BUDGET_SPENT}
    /\ KIND_BUDGET_RESERVED # KIND_BUDGET_REFUSED
    /\ KIND_BUDGET_RESERVED # KIND_BUDGET_SPENT
    /\ KIND_BUDGET_REFUSED # KIND_BUDGET_SPENT
BY DEF KIND_SESSION_OPENED, KIND_SESSION_CLOSED, KIND_BUDGET_GRANTED,
       KIND_BUDGET_RESERVED, KIND_BUDGET_REFUSED, KIND_BUDGET_SPENT, KIND_OTHER

\* Every action writes only what it decided on the log it writes to.
LEMMA LogsStep ==
    ASSUME TypeInv, LogsInv, Next
    PROVE  LogsInv'
<1>1. \A t \in Streams : log[t] \in Seq(Event)
  BY DEF TypeInv, TypeOK
<1>2. ASSUME UNCHANGED log PROVE LogsInv'
  BY <1>2 DEF LogsInv
<1>3. Crash => UNCHANGED log
  BY DEF Crash
<1>4. 0 \in 0 .. MaxI64
  BY LedgerAssumption
<1>5. ASSUME NEW h \in Handles, HandleStep(h) PROVE LogsInv'
  <2> DEFINE s == StreamOf(h)
             balance == fold_balance(log[s])
  <2>1. handle[h].pc # "free" => s \in Streams
    BY DEF TypeInv, Placed, StreamOf
  <2>2. ASSUME NEW t \in Streams, NEW g \in Grants, open_on(h, t, g) PROVE LogsInv'
    <3> DEFINE w == IF g = NoLedger THEN <<opened_event>>
                                    ELSE <<opened_event, granted_event(g)>>
    <3>1. Write(t, w) /\ log[t] = << >>
      BY <2>2 DEF open_on
    <3>2. LogOK(w) /\ w \in Seq(Event)
      <4>1. opened_event \in Event /\ opened_event.kind = KIND_SESSION_OPENED
        BY <1>4, EventTypes, EventKinds
      <4>2. CASE g = NoLedger
        <5>1. granted_event(0) \in Event /\ granted_event(0).kind = KIND_BUDGET_GRANTED
          BY <1>4, EventTypes, EventKinds
        <5>2. LogOK(<<opened_event>>)
          BY <4>1, <5>1, BirthOK
        <5>3. <<opened_event>> \in Seq(Event)
          BY <4>1
        <5>4. QED
          BY <4>2, <5>2, <5>3
      <4>3. CASE g # NoLedger
        <5>1. granted_event(g) \in Event /\ granted_event(g).kind = KIND_BUDGET_GRANTED
          BY <1>4, <4>3, AmountTypes, EventTypes, EventKinds
        <5>2. LogOK(<<opened_event, granted_event(g)>>)
          BY <4>1, <5>1, BirthOK
        <5>3. <<opened_event, granted_event(g)>> \in Seq(Event)
          BY <4>1, <5>1
        <5>4. QED
          BY <4>3, <5>2, <5>3
      <4>4. QED
        BY <4>2, <4>3
    <3> HIDE DEF w
    <3>3. << >> \o w = w
      BY <3>2, ConcatEmptySeq
    <3>4. \A u \in Streams : log'[u] = IF u = t THEN w ELSE log[u]
      BY <3>1, <3>3 DEF Write, TypeInv, TypeOK
    <3>5. QED
      BY <3>2, <3>4 DEF LogsInv
  <2>3. ASSUME grant_more(h) PROVE LogsInv'
    <3> DEFINE e == granted_event(handle[h].grant)
    <3>1. s \in Streams /\ Write(s, <<e>>)
      BY <2>1, <2>3 DEF grant_more
    <3>2. handle[h].grant \in 0 .. MaxI64
      BY <2>3 DEF grant_more, TypeInv, TypeOK, Placed, Handle, Balance
    <3>3. e \in Event /\ EntryOK(log[s], e)
      <4>1. e \in Event
        BY <1>4, <3>1, <3>2, EventTypes
      <4>2. e.kind = KIND_BUDGET_GRANTED
        BY EventKinds
      <4> HIDE DEF e
      <4>3. QED
        BY <4>1, <4>2, KindsDiffer, NeutralOK
    <3> HIDE DEF e
    <3>4. QED
      BY <3>1, <3>3, WriteOK
  <2>4. ASSUME NEW p \in Handles, NEW c \in Streams, NEW a \in Amounts,
               open_child(p, h, c, a)
        PROVE  LogsInv'
    <3> DEFINE ps == StreamOf(p)
               pb == fold_balance(log[ps])
    <3>1. /\ ps \in Streams /\ ~HasEnded(log[ps]) /\ log[c] = << >>
          /\ child_opened_event(ps) \in Event /\ child_granted_event(a, ps) \in Event
          /\ ChildRefused(p, h, c, a) \/ ChildOpened(p, h, c, a)
      BY <2>4, OpenChildForm
    <3>2. CASE ChildRefused(p, h, c, a)
      <4> DEFINE e == allocation_refused_event(a, pb, c)
      <4>1. pb # NoLedger /\ pb < a /\ e \in Event /\ Write(ps, <<e>>)
        BY <3>2 DEF ChildRefused
      <4>2. e.kind = KIND_BUDGET_REFUSED /\ e.amount = a /\ e.remaining = pb
        BY EventKinds
      <4> HIDE DEF e
      <4>3. EntryOK(log[ps], e)
        BY <4>1, <4>2, KindsDiffer DEF EntryOK, TrueOf, OpensChild
      <4>4. QED
        BY <3>1, <4>1, <4>3, WriteOK
    <3>3. CASE ChildOpened(p, h, c, a)
      <4> DEFINE e == allocated_event(a, c)
                 born == <<child_opened_event(ps), child_granted_event(a, ps)>>
      <4>1. (pb = NoLedger \/ a <= pb) /\ e \in Event
        BY <3>3 DEF ChildOpened
      <4>2. e.kind = KIND_BUDGET_RESERVED /\ e.amount = a
        BY EventKinds
      <4>3. LogOK(born)
        <5>1. /\ child_opened_event(ps).kind = KIND_SESSION_OPENED
              /\ child_granted_event(a, ps).kind = KIND_BUDGET_GRANTED
          BY EventKinds
        <5>2. QED
          BY <3>1, <5>1, BirthOK
      <4>4. \A t \in Streams :
              log'[t] = IF t = c THEN born ELSE IF t = ps THEN log[t] \o <<e>> ELSE log[t]
        <5>1. AfterChildOpened(p, h, c, a)
          BY <2>4, <3>3, ChildOpenedForm
        <5>2. QED
          BY <5>1 DEF AfterChildOpened
      <4> HIDE DEF e, born
      <4>5. EntryOK(log[ps], e)
        BY <3>1, <4>1, <4>2, KindsDiffer DEF EntryOK, TrueOf
      <4>6. LogOK(log[ps] \o <<e>>)
        BY <1>1, <3>1, <4>1, <4>5, AppendOK DEF LogsInv
      <4>7. QED
        BY <4>3, <4>4, <4>6 DEF LogsInv
    <3>4. QED
      BY <3>1, <3>2, <3>3
  <2>5. ASSUME append(h) PROVE LogsInv'
    <3> DEFINE e == kernel_event(KIND_OTHER)
    <3>1. s \in Streams /\ Write(s, <<e>>)
      BY <2>1, <2>5 DEF append, Open, Idle
    <3>2. e \in Event /\ EntryOK(log[s], e)
      BY <1>4, <3>1, EventTypes, EventKinds, KindsDiffer, NeutralOK
    <3> HIDE DEF e
    <3>3. QED
      BY <3>1, <3>2, WriteOK
  <2>6. ASSUME NEW a \in Amounts, handle[h].pc = "idle", check_amount(a), HasGrant(log[s])
        PROVE  a \in 0 .. MaxI64 /\ s \in Streams /\ balance \in 0 .. MaxI64
                 /\ balance # NoLedger
    <3>1. a \in 0 .. MaxI64 /\ s \in Streams
      BY <2>1, <2>6, AmountTypes
    <3>2. balance \in Balance /\ balance # NoLedger
      BY <1>1, <2>6, <3>1, FoldBalanceType, GrantMakesLedger
    <3>3. QED
      BY <3>1, <3>2 DEF Balance
  <2>7. ASSUME NEW a \in Amounts, reserve(h, a) PROVE LogsInv'
    <3> DEFINE e == IF balance >= a THEN budget_move_event(KIND_BUDGET_RESERVED, a)
                                    ELSE refused_event(a, balance)
    <3>1. /\ a \in 0 .. MaxI64 /\ s \in Streams /\ balance \in 0 .. MaxI64
          /\ balance # NoLedger
      BY <2>6, <2>7 DEF reserve, Open, Idle
    <3>2. Write(s, <<e>>)
      BY <2>7 DEF reserve
    <3>3. e \in Event
      BY <3>1, EventTypes
    <3>4. EntryOK(log[s], e)
      <4>1. CASE balance >= a
        <5>1. e.kind = KIND_BUDGET_RESERVED /\ e.amount = a /\ e.peer = NoStream
          BY <4>1, EventKinds
        <5>2. a <= balance
          BY <3>1, <4>1
        <5> HIDE DEF e
        <5>3. QED
          BY <5>1, <5>2, KindsDiffer DEF EntryOK, TrueOf, OpensChild
      <4>2. CASE ~ (balance >= a)
        <5>1. e.kind = KIND_BUDGET_REFUSED /\ e.amount = a /\ e.remaining = balance
          BY <4>2, EventKinds
        <5>2. balance < a
          BY <3>1, <4>2
        <5> HIDE DEF e
        <5>3. QED
          BY <3>1, <5>1, <5>2, KindsDiffer DEF EntryOK, TrueOf, OpensChild
      <4>3. QED
        BY <4>1, <4>2
    <3> HIDE DEF e
    <3>5. QED
      BY <3>1, <3>2, <3>3, <3>4, WriteOK
  <2>8. ASSUME NEW a \in Amounts, spend(h, a) PROVE LogsInv'
    <3> DEFINE e == budget_move_event(KIND_BUDGET_SPENT, a)
    <3>1. a \in 0 .. MaxI64 /\ s \in Streams /\ balance # NoLedger /\ Write(s, <<e>>)
      BY <2>6, <2>8 DEF spend, Open, Idle
    <3>2. e \in Event /\ e.kind = KIND_BUDGET_SPENT
      BY <3>1, EventTypes, EventKinds
    <3> HIDE DEF e
    <3>3. EntryOK(log[s], e)
      BY <3>1, <3>2, KindsDiffer DEF EntryOK, TrueOf, OpensChild
    <3>4. QED
      BY <3>1, <3>2, <3>3, WriteOK
  <2>9. ASSUME NEW cs \in SUBSET Streams, NEW d \in BOOLEAN, s \in Streams,
               Write(s, <<closing_event(cs, d)>>)
        PROVE  LogsInv'
    <3> DEFINE e == closing_event(cs, d)
    <3>1. e \in Event /\ EntryOK(log[s], e)
      BY <1>4, <2>9, EventTypes, EventKinds, KindsDiffer, NeutralOK
    <3> HIDE DEF e
    <3>2. QED
      BY <2>9, <3>1, WriteOK DEF e
  <2>10. ASSUME close_with(h) PROVE LogsInv'
    <3>1. /\ s \in Streams /\ open_children_in(s) \in SUBSET Streams
          /\ Write(s, <<closing_event(open_children_in(s), FALSE)>>)
      BY <2>1, <2>10 DEF close_with, Open, Idle, open_children_in
    <3>2. QED
      BY <2>9, <3>1
  <2>11. ASSUME close_detached(h) PROVE LogsInv'
    <3>1. s \in Streams /\ Write(s, <<closing_event({}, TRUE)>>)
      BY <2>1, <2>11 DEF close_detached
    <3>2. QED
      BY <2>9, <3>1
  <2>12. ((\E t \in Streams, g \in Grants : resume_read(h, t, g)) \/ resume_check(h)
           \/ child_read(h) \/ remaining_head(h) \/ remaining_ledger(h) \/ drop(h)
           \/ GiveUp(h))
         => UNCHANGED log
    BY DEF resume_read, resume_check, child_read, remaining_head, remaining_ledger,
           drop, GiveUp
  <2>13. QED
    BY <1>2, <1>5, <2>2, <2>3, <2>4, <2>5, <2>7, <2>8, <2>10, <2>11, <2>12
       DEF HandleStep
<1>6. QED
  BY <1>2, <1>3, <1>5 DEF Next

\* Every log is truthful in every state of every behaviour.
LEMMA LogsInvariant == Spec => [](TypeInv /\ LogsInv)
<1>1. Init => TypeInv /\ LogsInv
  <2>1. Init => LogsInv
    BY EmptyOK DEF Init, LogsInv
  <2>2. QED
    BY <2>1, InitType
<1>2. TypeInv /\ LogsInv /\ [Next]_vars => TypeInv' /\ LogsInv'
  <2>1. TypeInv /\ LogsInv /\ UNCHANGED vars => LogsInv'
    BY DEF LogsInv, vars
  <2>2. QED
    BY <2>1, StepType, StutterType, LogsStep
<1>3. QED
  BY <1>1, <1>2, PTL DEF Spec

\* No unit is reserved twice, for any number of handles, children and restarts:
\* every reservation was covered by the ledger it is written on, and every
\* refusal reports the balance that was there (Session::reserve, open_child).
THEOREM NoUnitReservedTwice == Spec => []NoOverdraft
<1>1. LogsInv => NoOverdraft
  BY DEF LogsInv, LogOK, NoOverdraft
<1>2. QED
  BY <1>1, LogsInvariant, PTL

\* However closes, drops and child openings interleave, no child is opened from
\* a session whose log carries an ending (Session::open_child).
THEOREM EndedSessionsOpenNoChild == Spec => []NoChildAfterEnding
<1>1. LogsInv => NoChildAfterEnding
  BY DEF LogsInv, LogOK, OpensChild, NoChildAfterEnding
<1>2. QED
  BY <1>1, LogsInvariant, PTL
=============================================================================
