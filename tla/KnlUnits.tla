------------------------------ MODULE KnlUnits ------------------------------
(***************************************************************************)
(* What holds of the whole tree of sessions: the units in it, and the      *)
(* accounts the logs implement.                                            *)
(***************************************************************************)
EXTENDS KnlSession, FiniteSetsExt

\* A sum over the sessions is one over finitely many: their ids are uuids.
ASSUME UnitsAssumption == IsFiniteSet(Streams)

\* The log as the accounts of KnlAccounts: an account is a ledger's fold.
AccountOf == [s \in Streams |-> fold_balance(log[s])]
LifeOf == [s \in Streams |-> IF log[s] = <<>> THEN "none"
                             ELSE IF HasEnded(log[s]) THEN "ended" ELSE "open"]
Accounts == INSTANCE KnlAccounts WITH account <- AccountOf, life <- LifeOf

\* Every step of every handle moves the accounts as KnlAccounts allows, or not
\* at all: deciding on a log inside a transaction is as good as an account
\* moved in one step (reserve, spend, open_child, open_on, grant_more, close).
ImplementsAccounts == Accounts!AccountsSpec

EntryAt(x) == log[x[1]][x[2]]
BalanceBefore(x) == Folded(log[x[1]])[x[2] - 1]

\* Units enter the tree by an owner's grant, or with a child whose parent had
\* no ledger to pay from.
Entering(x) ==
    LET e == EntryAt(x) IN
    IF \/ e.kind = KIND_BUDGET_GRANTED /\ e.peer = NoStream
       \/ /\ e.kind = KIND_BUDGET_RESERVED /\ e.peer # NoStream
          /\ BalanceBefore(x) = NoLedger
    THEN e.amount ELSE 0

\* Units handed out for use: reservations that name no child.
HandedOut(x) ==
    LET e == EntryAt(x) IN
    IF e.kind = KIND_BUDGET_RESERVED /\ e.peer = NoStream THEN e.amount ELSE 0

\* No unit is ever there twice: what is left in all the sessions together, and
\* what has been handed out, is at most what entered.  Saturation, a spend and
\* the end of a child lose units and never make them (fold_balance,
\* Session::open_child: "nothing is returned when the child closes").
UnitsConserved ==
    MapThenSumSet(LAMBDA s : floor0(fold_balance(log[s])), Streams)
      + MapThenSumSet(HandedOut, Entries)
    <= MapThenSumSet(Entering, Entries)
=============================================================================
