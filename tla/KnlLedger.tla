------------------------------ MODULE KnlLedger ------------------------------
(***************************************************************************)
(* The events of a kernel session's log that carry meaning for the kernel, *)
(* and the budget folded out of them (knl/budget.rs, the event builders of *)
(* knl/session.rs).                                                        *)
(*                                                                         *)
(* A stream's log is a sequence of events; an event's seq is its index.    *)
(* Of an event's `data` the model keeps the amount, the balance a refusal  *)
(* reports, the other stream an allocation names (its `parent` or `child`) *)
(* and, on an ending, the open children and whether the drop backstop      *)
(* wrote it.  Tags, owners, scope ids and meta are not kept: no decision   *)
(* of the kernel reads them.                                               *)
(***************************************************************************)
EXTENDS Integers, Sequences

CONSTANTS Streams,   \* stream ids (uuids, minted fresh by every open)
          NoStream,  \* "no parent and no child": the field is absent
          MaxI64     \* i64::MAX, where saturating_add stops

ASSUME LedgerAssumption == NoStream \notin Streams /\ MaxI64 \in Nat \ {0}

----------------------------------------------------------------------------
(* Events *)

KIND_SESSION_OPENED == "session_opened"
KIND_SESSION_CLOSED == "session_closed"
KIND_BUDGET_GRANTED == "budget_granted"
KIND_BUDGET_RESERVED == "budget_reserved"
KIND_BUDGET_REFUSED == "budget_refused"
KIND_BUDGET_SPENT == "budget_spent"

\* The kinds only the kernel writes: `append` refuses them from a caller.
KernelOnly == {KIND_SESSION_OPENED, KIND_SESSION_CLOSED, KIND_BUDGET_GRANTED,
               KIND_BUDGET_RESERVED, KIND_BUDGET_REFUSED, KIND_BUDGET_SPENT}

\* Every other kind is the shell's; one stands for all of them.
KIND_OTHER == "other"
Kinds == KernelOnly \cup {KIND_OTHER}

Event == [kind      : Kinds,
          amount    : 0 .. MaxI64,
          remaining : 0 .. MaxI64,
          peer      : Streams \cup {NoStream},
          children  : SUBSET Streams,
          dropped   : BOOLEAN]

kernel_event(kind) ==
    [kind |-> kind, amount |-> 0, remaining |-> 0, peer |-> NoStream,
     children |-> {}, dropped |-> FALSE]

opened_event == kernel_event(KIND_SESSION_OPENED)

granted_event(amount) ==
    [kernel_event(KIND_BUDGET_GRANTED) EXCEPT !.amount = amount]

budget_move_event(kind, amount) ==
    [kernel_event(kind) EXCEPT !.amount = amount]

refused_event(amount, balance) ==
    [kernel_event(KIND_BUDGET_REFUSED) EXCEPT !.amount = amount,
                                              !.remaining = balance]

\* The four events of an allocation: what the parent's ledger records...
allocated_event(amount, child) ==
    [kernel_event(KIND_BUDGET_RESERVED) EXCEPT !.amount = amount, !.peer = child]

allocation_refused_event(amount, balance, child) ==
    [refused_event(amount, balance) EXCEPT !.peer = child]

\* ...and the two events the child's stream begins with.
child_opened_event(parent) ==
    [kernel_event(KIND_SESSION_OPENED) EXCEPT !.peer = parent]

child_granted_event(amount, parent) ==
    [granted_event(amount) EXCEPT !.peer = parent]

closing_event(children, dropped) ==
    [kernel_event(KIND_SESSION_CLOSED) EXCEPT !.children = children,
                                              !.dropped = dropped]

----------------------------------------------------------------------------
(* The ledger *)

\* Option<i64>: None before the first grant.  A balance is never negative, so
\* -1 is free to stand for None.
NoLedger == -1
Balance == {NoLedger} \cup (0 .. MaxI64)

\* A mistake the runs catch: any amount passes.
CheckNothing(amount) == amount \in Int

\* A negative amount is the caller's error, refused before anything is touched.
check_amount(amount) == amount >= 0

saturating_add(a, b) == IF a + b > MaxI64 THEN MaxI64 ELSE a + b

floor0(n) == IF n < 0 THEN 0 ELSE n

\* A mistake the runs catch: a deduction makes a ledger where there was none.
FoldFromZero(balance, event) ==
    IF event.kind = KIND_BUDGET_GRANTED
    THEN saturating_add(floor0(balance), floor0(event.amount))
    ELSE IF event.kind \in {KIND_BUDGET_RESERVED, KIND_BUDGET_SPENT}
    THEN floor0(floor0(balance) - floor0(event.amount))
    ELSE balance

\* What one event does to the balance: the body of fold_balance's loop.
FoldStep(balance, event) ==
    IF event.kind = KIND_BUDGET_GRANTED
    THEN saturating_add(floor0(balance), floor0(event.amount))
    ELSE IF /\ event.kind \in {KIND_BUDGET_RESERVED, KIND_BUDGET_SPENT}
            /\ balance # NoLedger
    THEN floor0(balance - floor0(event.amount))
    ELSE balance

\* The balance after each prefix of a log: Folded(l)[i] is what the first i
\* events fold to.
Folded(l) ==
    LET f[i \in 0 .. Len(l)] ==
            IF i = 0 THEN NoLedger ELSE FoldStep(f[i - 1], l[i])
    IN  f

fold_balance(l) == Folded(l)[Len(l)]

\* last_grant(events) is Some: the log carries a budget_granted.
HasGrant(l) == \E i \in DOMAIN l : l[i].kind = KIND_BUDGET_GRANTED

\* Whether the log carries an ending, and where.
HasEnded(l) == \E i \in DOMAIN l : l[i].kind = KIND_SESSION_CLOSED

HasOpened(l) == \E i \in DOMAIN l : l[i].kind = KIND_SESSION_OPENED
=============================================================================
