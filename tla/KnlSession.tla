----------------------------- MODULE KnlSession -----------------------------
(***************************************************************************)
(* Sessions: handles that read and write the streams of one event log      *)
(* (knl/session.rs), as the Lua bridge drives them (bridge/knl.rs).        *)
(*                                                                         *)
(* The log is durable and shared; a handle is a value of one process.      *)
(* Every write is one transaction on the log, so it is one step here.      *)
(* What takes several steps is what awaits the store several times:        *)
(*   - `remaining` reads the head, then the ledger, then sets its cache;   *)
(*   - `resume` reads the log, then asks whether the stream has ended,     *)
(*     then records the owner's new grant;                                 *)
(*   - `open_child` commits the allocation, then resumes the new stream.   *)
(* Between those steps any other handle moves.  The bridge holds the       *)
(* handle's own lock for the whole call, so a handle in the middle of one  *)
(* takes no other, and a parent stays locked until its child's handle is   *)
(* built.  A call that fails or is cancelled part-way (`GiveUp`) leaves    *)
(* what it had written and nothing else.                                   *)
(*                                                                         *)
(* Handles may belong to different processes on one database file, so the  *)
(* endings that dropped handles have queued are not ordered against the    *)
(* writes of others.                                                       *)
(***************************************************************************)
EXTENDS KnlLedger, FiniteSets

CONSTANTS Handles,    \* handle slots: at most this many handles live at once
          NoHandle,   \* "opened by nobody": not a child in the making
          Amounts,    \* the amounts callers ask with, negative ones included
          MaxEvents,  \* bound: the database grows to this many events
          MaxNotes    \* bound: of which so many are the shell's own

ASSUME SessionAssumption ==
    /\ NoHandle \notin Handles
    /\ Amounts \subseteq -MaxI64 .. MaxI64
    /\ MaxEvents \in Nat /\ MaxNotes \in Nat

VARIABLES log,     \* [Streams -> Seq(Event)]: the database
          handle   \* [Handles -> Handle]: the live handles

vars == <<log, handle>>

----------------------------------------------------------------------------
(* Handles *)

\* free    no handle
\* idle    between calls
\* ledger  in remaining, head read and found moved, ledger not yet read
\* child   allocation committed, its log not yet read
\* read    resuming: the log was read, has_ended not yet asked
\* grant   resuming: vetted, the owner's grant not yet recorded
\* lent    a parent whose lock an unfinished open_child holds
\* dropped collected without a close: the ending is in the log's queue
Phase == {"free", "idle", "ledger", "child", "read", "grant", "lent", "dropped"}

Handle == [pc     : Phase,
           stream : Streams \cup {NoStream},
           closed : BOOLEAN,
           head   : Nat,      \* balance cache: the head it was taken at
           bal    : Balance,  \* balance cache: the fold
           seen   : Nat,      \* the head `remaining` is working from
           grant  : Balance,  \* the grant a resume was asked to record
           from   : Handles \cup {NoHandle}]  \* the parent handle it locks

Free == [pc |-> "free", stream |-> NoStream, closed |-> FALSE, head |-> 0,
         bal |-> NoLedger, seen |-> 0, grant |-> NoLedger, from |-> NoHandle]

Init ==
    /\ log = [s \in Streams |-> <<>>]
    /\ handle = [h \in Handles |-> Free]

Idle(h) == handle[h].pc = "idle"
Open(h) == Idle(h) /\ ~handle[h].closed
StreamOf(h) == handle[h].stream

\* The bounds on the database's size.
Entries == UNION {{s} \X DOMAIN log[s] : s \in Streams}
Room(n) == Cardinality(Entries) + n <= MaxEvents
RoomForNote ==
    Cardinality({x \in Entries : log[x[1]][x[2]].kind = KIND_OTHER}) < MaxNotes

\* One transaction that appends `events` to the stream `s`.
Write(s, events) == log' = [log EXCEPT ![s] = @ \o events]

\* The handles after h's call is over: h becomes `after`, and a parent whose
\* lock the call held gets it back.
Done(h, after) ==
    handle' = [k \in Handles |->
                 IF k = h THEN after
                 ELSE IF k = handle[h].from THEN [handle[k] EXCEPT !.pc = "idle"]
                 ELSE handle[k]]

\* What the owner may grant: nothing, or an amount the bridge lets through.
Grants == {NoLedger} \cup {a \in Amounts : check_amount(a)}

----------------------------------------------------------------------------
(* Mistakes the runs catch: what a definition below would be with a bug in it *)

\* resume_check: the stream is resumed whether or not it has ended.
ResumeUnchecked(h) ==
    /\ handle[h].pc = "read"
    /\ Done(h, [handle[h] EXCEPT
                  !.pc = IF handle[h].grant = NoLedger THEN "idle" ELSE "grant",
                  !.from = NoHandle])
    /\ UNCHANGED log

\* Allocation: the child's stream may be in use.
AllocateTaken(parent, c, amount) ==
    LET balance == fold_balance(log[parent])
    IN  IF HasEnded(log[parent]) THEN <<>>
        ELSE IF balance # NoLedger /\ balance < amount
             THEN <<allocation_refused_event(amount, balance, c)>>
             ELSE <<allocated_event(amount, c)>>

\* Allocation: the parent may have ended.
AllocateEnded(parent, c, amount) ==
    LET balance == fold_balance(log[parent])
    IN  IF log[c] # <<>> THEN <<>>
        ELSE IF balance # NoLedger /\ balance < amount
             THEN <<allocation_refused_event(amount, balance, c)>>
             ELSE <<allocated_event(amount, c)>>

\* Allocation: the parent pays with what it has.
AllocateUncovered(parent, c, amount) ==
    IF log[c] # <<>> \/ HasEnded(log[parent]) THEN <<>>
    ELSE <<allocated_event(amount, c)>>

\* reserve: the decision is taken on the handle's cached balance.
ReserveFromCache(h, amount) ==
    LET balance == floor0(handle[h].bal) IN
    /\ Open(h)
    /\ check_amount(amount)
    /\ HasGrant(log[StreamOf(h)])
    /\ Room(1)
    /\ Write(StreamOf(h), IF balance >= amount
                          THEN <<budget_move_event(KIND_BUDGET_RESERVED, amount)>>
                          ELSE <<refused_event(amount, balance)>>)
    /\ UNCHANGED handle

\* remaining_ledger: the ledger read first and the head after it.
LedgerBeforeHead(h) ==
    /\ handle[h].pc = "ledger"
    /\ handle' = [handle EXCEPT ![h].pc = "idle",
                                ![h].head = Len(log[StreamOf(h)]),
                                ![h].bal = Folded(log[StreamOf(h)])[handle[h].seen],
                                ![h].seen = 0]
    /\ UNCHANGED log

\* open_children_in: the children this process holds, not those of the log.
HeldChildren(s) ==
    {c \in Streams : /\ \E h \in Handles : handle[h].stream = c
                     /\ \E i \in DOMAIN log[c] :
                          /\ log[c][i].kind = KIND_SESSION_OPENED
                          /\ log[c][i].peer = s
                     /\ ~HasEnded(log[c])}

----------------------------------------------------------------------------
(* Opening *)

\* session_opened and the grant in one batch, on a stream nobody has written
\* to.  The caller may be gone by the time the batch lands: then the stream is
\* open and nobody holds it.
open_on(h, s, grant) ==
    /\ handle[h].pc = "free"
    /\ log[s] = <<>> /\ Room(2)
    /\ Write(s, IF grant = NoLedger THEN <<opened_event>>
                                    ELSE <<opened_event, granted_event(grant)>>)
    /\ \/ handle' = [handle EXCEPT ![h] = [Free EXCEPT !.pc = "idle", !.stream = s]]
       \/ UNCHANGED handle

\* resume: the log is read once; what it folds to seeds the handle's cache.
resume_read(h, s, grant) ==
    /\ handle[h].pc = "free"
    /\ HasOpened(log[s])
    /\ handle' = [handle EXCEPT ![h] =
                    [Free EXCEPT !.pc = "read", !.stream = s, !.grant = grant,
                                 !.head = Len(log[s]),
                                 !.bal = fold_balance(log[s])]]
    /\ UNCHANGED log

\* has_ended, a read of its own: an ended stream is not resumed.  With no
\* grant to record the handle is handed out here.
resume_check(h) ==
    /\ handle[h].pc = "read"
    /\ Done(h, IF HasEnded(log[StreamOf(h)]) THEN Free
               ELSE [handle[h] EXCEPT
                       !.pc = IF handle[h].grant = NoLedger THEN "idle" ELSE "grant",
                       !.from = NoHandle])
    /\ UNCHANGED log

\* The bridge records the owner's grant with grant_more, a plain append: it
\* asks nothing of the log, neither an ending nor a ledger.
grant_more(h) ==
    /\ handle[h].pc = "grant"
    /\ Room(1)
    /\ Write(StreamOf(h), <<granted_event(handle[h].grant)>>)
    /\ \/ Done(h, [handle[h] EXCEPT !.pc = "idle", !.grant = NoLedger])
       \/ Done(h, Free)

\* What the parent's log gains when c is opened from it with `amount`, decided
\* inside the transaction; << >> is the decision to write nothing.
Allocation(parent, c, amount) ==
    LET balance == fold_balance(log[parent])
    IN  IF log[c] # <<>> \/ HasEnded(log[parent]) THEN <<>>
        ELSE IF balance # NoLedger /\ balance < amount
             THEN <<allocation_refused_event(amount, balance, c)>>
             ELSE <<allocated_event(amount, c)>>

\* open_child, the transaction: both ledgers move, or a refusal is recorded on
\* the parent, or nothing is.  On success the parent stays locked while the
\* child's handle is built from the events just written.
open_child(p, h, c, amount) ==
    LET own == Allocation(StreamOf(p), c, amount) IN
    /\ Open(p) /\ handle[h].pc = "free"
    /\ check_amount(amount)
    /\ own # <<>>
    /\ Room(IF own[1].kind = KIND_BUDGET_REFUSED THEN 1 ELSE 3)
    /\ IF own[1].kind = KIND_BUDGET_REFUSED
       THEN /\ Write(StreamOf(p), own)
            /\ UNCHANGED handle
       ELSE /\ log' = [log EXCEPT ![StreamOf(p)] = @ \o own,
                                  ![c] = <<child_opened_event(StreamOf(p)),
                                           child_granted_event(amount, StreamOf(p))>>]
            /\ handle' = [handle EXCEPT
                            ![p].pc = "lent",
                            ![h] = [Free EXCEPT !.pc = "child", !.stream = c, !.from = p]]

\* open_child's resume of the new stream: the read that builds the handle.
child_read(h) ==
    /\ handle[h].pc = "child"
    /\ handle' = [handle EXCEPT ![h].pc = "read",
                                ![h].head = Len(log[StreamOf(h)]),
                                ![h].bal = fold_balance(log[StreamOf(h)])]
    /\ UNCHANGED log

----------------------------------------------------------------------------
(* Writing *)

\* append, of a kind that is not the kernel's.
append(h) ==
    /\ Open(h)
    /\ Room(1) /\ RoomForNote
    /\ Write(StreamOf(h), <<kernel_event(KIND_OTHER)>>)
    /\ UNCHANGED handle

\* reserve: the ledger is folded and the answer recorded in one transaction.
reserve(h, amount) ==
    LET balance == fold_balance(log[StreamOf(h)]) IN
    /\ Open(h)
    /\ check_amount(amount)
    /\ HasGrant(log[StreamOf(h)])
    /\ Room(1)
    /\ Write(StreamOf(h), IF balance >= amount
                          THEN <<budget_move_event(KIND_BUDGET_RESERVED, amount)>>
                          ELSE <<refused_event(amount, balance)>>)
    /\ UNCHANGED handle

\* spend: recorded whatever the balance, as long as there is a ledger.
spend(h, amount) ==
    /\ Open(h)
    /\ check_amount(amount)
    /\ HasGrant(log[StreamOf(h)])
    /\ Room(1)
    /\ Write(StreamOf(h), <<budget_move_event(KIND_BUDGET_SPENT, amount)>>)
    /\ UNCHANGED handle

----------------------------------------------------------------------------
(* Reading the balance *)

\* remaining, the head: a head that has not moved answers from the cache.
remaining_head(h) ==
    /\ Idle(h)
    /\ Len(log[StreamOf(h)]) > handle[h].head
    /\ handle' = [handle EXCEPT ![h].pc = "ledger",
                                ![h].seen = Len(log[StreamOf(h)])]
    /\ UNCHANGED log

\* remaining, the ledger: folded as it is now, recorded against the head read
\* before it.
remaining_ledger(h) ==
    /\ handle[h].pc = "ledger"
    /\ handle' = [handle EXCEPT ![h].pc = "idle",
                                ![h].head = handle[h].seen,
                                ![h].bal = fold_balance(log[StreamOf(h)]),
                                ![h].seen = 0]
    /\ UNCHANGED log

----------------------------------------------------------------------------
(* Ending *)

\* The store's child scan: the streams whose opening names s as their parent
\* and that carry no ending.
open_children_in(s) ==
    {c \in Streams : /\ \E i \in DOMAIN log[c] :
                          /\ log[c][i].kind = KIND_SESSION_OPENED
                          /\ log[c][i].peer = s
                     /\ ~HasEnded(log[c])}

\* close: the scan and the boundary are one transaction, and the handle's flag
\* is set once it has landed - unless the caller was cancelled meanwhile.
close_with(h) ==
    /\ Open(h)
    /\ Room(1)
    /\ Write(StreamOf(h), <<closing_event(open_children_in(StreamOf(h)), FALSE)>>)
    /\ \/ handle' = [handle EXCEPT ![h].closed = TRUE]
       \/ UNCHANGED handle

\* Drop: a closed handle just goes; an open one queues its ending.
drop(h) ==
    /\ Idle(h)
    /\ handle' = [handle EXCEPT ![h] =
                    IF handle[h].closed THEN Free
                    ELSE [Free EXCEPT !.pc = "dropped", !.stream = StreamOf(h)]]
    /\ UNCHANGED log

\* The queued ending lands; the detached path cannot scan for children.
close_detached(h) ==
    /\ handle[h].pc = "dropped"
    /\ Room(1)
    /\ Write(StreamOf(h), <<closing_event({}, TRUE)>>)
    /\ handle' = [handle EXCEPT ![h] = Free]

----------------------------------------------------------------------------
(* Failure *)

\* A call fails part-way (a busy store, an undecodable row) or its task is
\* cancelled: a handle under construction is gone, `remaining` leaves its cache
\* alone, a queued ending is reported and lost.
GiveUp(h) ==
    /\ handle[h].pc \in {"ledger", "child", "read", "grant", "dropped"}
    /\ Done(h, IF handle[h].pc = "ledger"
               THEN [handle[h] EXCEPT !.pc = "idle", !.seen = 0] ELSE Free)
    /\ UNCHANGED log

\* The process is killed: every handle and every queued ending is gone, and no
\* ending is written.
Crash ==
    /\ \E h \in Handles : handle[h].pc # "free"
    /\ handle' = [h \in Handles |-> Free]
    /\ UNCHANGED log

----------------------------------------------------------------------------

HandleStep(h) ==
    \/ \E s \in Streams, g \in Grants : open_on(h, s, g)
    \/ \E s \in Streams, g \in Grants : resume_read(h, s, g)
    \/ resume_check(h)
    \/ grant_more(h)
    \/ \E p \in Handles, c \in Streams, a \in Amounts : open_child(p, h, c, a)
    \/ child_read(h)
    \/ append(h)
    \/ \E a \in Amounts : reserve(h, a)
    \/ \E a \in Amounts : spend(h, a)
    \/ remaining_head(h)
    \/ remaining_ledger(h)
    \/ close_with(h)
    \/ drop(h)
    \/ close_detached(h)
    \/ GiveUp(h)

Next == Crash \/ \E h \in Handles : HandleStep(h)

Spec == Init /\ [][Next]_vars

----------------------------------------------------------------------------
(* Properties *)

\* Every variable has its type: the logs hold well-formed events, no amount
\* of them negative or past i64::MAX.
TypeOK ==
    /\ log \in [Streams -> Seq(Event)]
    /\ handle \in [Handles -> Handle]

\* The balance a handle has cached is the ledger's at some point no earlier
\* than the head it is recorded against (Session::remaining, Session::resume).
\* So a cache whose head is still the store's head holds exactly the ledger's
\* balance: a read answered from the cache is never stale, whatever other
\* handles wrote between the head read and the ledger read.
CacheNeverStale ==
    \A h \in Handles :
        handle[h].pc \in {"idle", "ledger", "read", "grant", "lent"} =>
            \E k \in handle[h].head .. Len(log[StreamOf(h)]) :
                handle[h].bal = Folded(log[StreamOf(h)])[k]

\* What an entry of a ledger says of the balance just before it: a reservation
\* was covered, a refusal was short and reports what there was, a deduction was
\* taken from an account that exists.
TrueOf(before, e) ==
    /\ e.kind = KIND_BUDGET_RESERVED /\ before # NoLedger => e.amount <= before
    /\ e.kind = KIND_BUDGET_REFUSED
         => before # NoLedger /\ e.remaining = before /\ before < e.amount
    /\ e.kind = KIND_BUDGET_SPENT => before # NoLedger

\* Every entry of every ledger is true of the balance just before it, an
\* allocation to a child among them: two handles, or a handle and a child being
\* opened, never take the same units (Session::reserve, Session::spend,
\* Session::open_child).
NoOverdraft ==
    \A s \in Streams : \A i \in DOMAIN log[s] :
        TrueOf(Folded(log[s])[i - 1], log[s][i])

\* The entries of p's log that pay for the child c.
PaidFor(p, c) ==
    {i \in DOMAIN log[p] : log[p][i].kind = KIND_BUDGET_RESERVED /\ log[p][i].peer = c}

\* A child and the reservation that pays for it exist together (open_child): a
\* stream opens once, with its first event; one opened from p holds the grant of
\* exactly what one reservation on p's ledger names it for; and a reservation
\* that names a child has that child's stream open under p.
AllocationsPaired ==
    /\ \A c \in Streams : \A i \in DOMAIN log[c] :
         (i = 1) <=> (log[c][i].kind = KIND_SESSION_OPENED)
    /\ \A c \in Streams : \A p \in Streams :
         IF log[c] # <<>> /\ log[c][1].peer = p
         THEN \E i \in DOMAIN log[p] :
                /\ PaidFor(p, c) = {i}
                /\ Len(log[c]) > 1
                /\ log[c][2] = child_granted_event(log[p][i].amount, p)
         ELSE PaidFor(p, c) = {}

\* No child is opened under a parent whose log already carries an ending, even
\* one another handle wrote, or a drop queued (open_child decides inside the
\* transaction).
NoChildAfterEnding ==
    \A p \in Streams : \A i, j \in DOMAIN log[p] :
        /\ log[p][i].kind = KIND_SESSION_CLOSED
        /\ log[p][j].kind = KIND_BUDGET_RESERVED /\ log[p][j].peer # NoStream
        => j < i

\* An ending written by a close accounts for every child: each one ever opened
\* from the stream is named on it as still open, or has an ending of its own;
\* and what it names are children (append_with_open_children).  An ending the
\* drop backstop wrote names none.
EndingsAccountForChildren ==
    \A p \in Streams : \A i \in DOMAIN log[p] :
        log[p][i].kind = KIND_SESSION_CLOSED =>
            LET born == {c \in Streams : log[c] # <<>> /\ log[c][1].peer = p}
            IN  /\ log[p][i].children \subseteq born
                /\ ~log[p][i].dropped =>
                     \A c \in born : c \in log[p][i].children \/ HasEnded(log[c])

\* A resume that goes on to record a grant found no ending in the log it read:
\* the has_ended read comes after the log read, never before (resume_on).
ResumedBeforeEnding ==
    \A h \in Handles : handle[h].pc = "grant" =>
        \A i \in 1 .. handle[h].head : log[StreamOf(h)][i].kind # KIND_SESSION_CLOSED
=============================================================================
