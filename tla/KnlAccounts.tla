----------------------------- MODULE KnlAccounts -----------------------------
(***************************************************************************)
(* What the kernel promises about budgets, with no log, no handles and no  *)
(* caches: one account per session, and the only moves there are.  An      *)
(* account is raised by an owner's grant and by nothing else; units reach  *)
(* a child only by leaving its parent's account in the same step; a        *)
(* session opens once, and no child opens from one that has ended.  An     *)
(* ended session's account still moves: an ending bars handles, not facts. *)
(***************************************************************************)
EXTENDS KnlLedger

VARIABLES account,  \* [Streams -> Balance]: NoLedger is a session with no quota
          life      \* [Streams -> {"none", "open", "ended"}]

avars == <<account, life>>

AccountsInit ==
    /\ account = [s \in Streams |-> NoLedger]
    /\ life = [s \in Streams |-> "none"]

Begin(s, quota) ==
    /\ life[s] = "none"
    /\ life' = [life EXCEPT ![s] = "open"]
    /\ account' = [account EXCEPT ![s] = quota]

Grant(s, n) ==
    /\ life[s] # "none"
    /\ account' = [account EXCEPT ![s] = saturating_add(floor0(@), n)]
    /\ UNCHANGED life

\* A reservation takes units that are there; a spend takes what it can.
Take(s, n) ==
    /\ account[s] # NoLedger /\ n <= account[s]
    /\ account' = [account EXCEPT ![s] = @ - n]
    /\ UNCHANGED life

Charge(s, n) ==
    /\ account[s] # NoLedger
    /\ account' = [account EXCEPT ![s] = floor0(@ - n)]
    /\ UNCHANGED life

\* A parent with no quota has no account to pay from, and is not refused.
Allocate(p, c, n) ==
    /\ life[p] = "open" /\ life[c] = "none"
    /\ account[p] = NoLedger \/ n <= account[p]
    /\ account' = [account EXCEPT ![p] = IF @ = NoLedger THEN @ ELSE @ - n,
                                  ![c] = n]
    /\ life' = [life EXCEPT ![c] = "open"]

End(s) ==
    /\ life[s] # "none"
    /\ life' = [life EXCEPT ![s] = "ended"]
    /\ UNCHANGED account

AccountsNext ==
    \E s \in Streams :
        \/ \E q \in Balance : Begin(s, q)
        \/ \E n \in 0 .. MaxI64 :
              \/ Grant(s, n)
              \/ Take(s, n)
              \/ Charge(s, n)
              \/ \E c \in Streams : Allocate(s, c, n)
        \/ End(s)

AccountsSpec == AccountsInit /\ [][AccountsNext]_avars
=============================================================================
