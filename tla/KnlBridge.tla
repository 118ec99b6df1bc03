----------------------------- MODULE KnlBridge -----------------------------
(***************************************************************************)
(* The kernel as Lua sees it (bridge/knl.rs): what `knl.open` and          *)
(* `knl.resume` accept, which database and stream a handle is on, how a    *)
(* handle ends (close, the __close of a scope, collection), and how a      *)
(* raised message is read back by `knl.error`.  What the ledger does is in *)
(* KnlSession; here a session is what it writes.                           *)
(*                                                                         *)
(* A handle's methods share its lock and hold it over the store's await.   *)
(* A call may be cancelled there: its job runs all the same, and nobody    *)
(* hears how it went.                                                      *)
(***************************************************************************)
EXTENDS Naturals, Sequences, SequencesExt, FiniteSets

CONSTANTS Handles,   \* handle slots, each used once; a handle that opens a stream names it
          Roots,     \* bound: the slots that open sessions of their own; the others open children or resume
          Texts,     \* what Lua may hand to knl.error: sequences of lines of words
          Reasons,   \* one-line reasons of failures
          HostLabels,\* the host's labels for its sessions: sets of <<key, value>>
          Labels,    \* bound: the labels the script gives each slot's session
          MaxAppends \* bound: appends

\* log: what each stream of each database holds; h: the handles; queue: the endings handed over by
\* collected handles; lost: one of them failed; appends: how many there were; host: its labels.
VARIABLE kb

Db(name, n) == [name |-> name, n |-> n]
Default == Db("default", 0)
Dbs == {Default, Db("file", 0)} \cup {Db("mem", h) : h \in Handles}
Streams == Handles \cup {"mine", "system", "minted"}
Event(kind, by) == [kind |-> kind, by |-> by, meta |-> {}]

NoHandle == [at |-> "none", opts |-> {}, db |-> Default, stream |-> "minted", id |-> "minted",
             closed |-> FALSE, busy |-> "no", parent |-> {}, left |-> "inside", raised |-> "nothing",
             err |-> "none", cancelled |-> FALSE]
Init ==
    \E labels \in HostLabels :
    kb = [host |-> labels, log |-> [d \in Dbs |-> [s \in Streams |->
                    IF d = Default /\ s \in {"mine", "system"} THEN <<Event("opened", {})>> ELSE << >>]],
          h |-> [h \in Handles |-> NoHandle], queue |-> << >>, lost |-> FALSE, appends |-> 0]

Me(h) == kb.h[h]
Becomes(h, new) == kb' = [kb EXCEPT !.h[h] = new]
GivesUp(h, err) == [Me(h) EXCEPT !.at = "gone", !.err = err, !.opts = {}, !.parent = {}]

----------------------------------------------------------------------------
(* Options *)

Owner == {"unset", "me", "anon", "system"}
BudgetOpt == {"none", "grant", "from_parent", "both", "neither", "negative"}
StoreSpec == {"unset", "mem", "file", "other"}
Meta(h) == Labels[h]

\* Bound: at most one of the options is not the usual one.
Unusual(o) ==
    Cardinality({k \in {"owner", "store"} : o[k] # IF k = "owner" THEN "me" ELSE "unset"})
      + Cardinality({o.budget} \ {IF o.parent = {} THEN "grant" ELSE "from_parent"})
      + Cardinality({o.parent} \ ({{}} \cup {{h} : h \in Handles}))
      + Cardinality({o.stray} \ {FALSE})
OpenOpts ==
    {o \in [owner : Owner, budget : BudgetOpt, store : StoreSpec, stray : BOOLEAN,
            parent : {{}, {"a table"}} \cup {{h} : h \in Handles}] : Unusual(o) <= 1}
ResumeOpts ==
    {o \in [budget : BudgetOpt, store : StoreSpec, session : {"mine", "system"} \cup Handles] :
        Cardinality({o.budget, o.store, o.session} \ {"grant", "unset", "mine"}) <= 1}

\* An owner's grant, or an allocation out of a parent's balance: one of them, and not negative.
budget_source(b) == b \in {"none", "grant", "from_parent"}
grant_only(b) == b \in {"none", "grant"}
owner_of(owner) == owner \notin {"anon", "system"}
store_target(store) == store # "other"

\* The parent is taken off first, and what is left is read strictly: a stray key, or a value of
\* another type, refuses the whole.
parse_parent(parent) == parent \subseteq Handles
without_parent(o) == [k \in DOMAIN o \ {"parent"} |-> o[k]]
from_lua(rest) == ~rest.stray

\* A mistake the runs catch: the script's labels replace the host's.
ScriptOnly(host, script) == IF script = {} THEN host ELSE script

\* The host's labels with the script's on top; an opening with none carries no labels.
under_host_labels(host, script) ==
    script \cup {l \in host : \A own \in script : own[1] # l[1]}
with_meta(event, meta) == [event EXCEPT !.meta = meta]

\* A parent asks for an allocation, and an allocation for a parent.
OptionsOk(o) ==
    /\ parse_parent(o.parent) /\ from_lua(without_parent(o))
    /\ owner_of(o.owner) /\ budget_source(o.budget) /\ store_target(o.store)
    /\ (o.parent # {}) = (o.budget = "from_parent")

open_session(h, o) ==
    /\ Me(h).at = "none" /\ (h \in Roots) = (o.parent = {})
    /\ \A p \in o.parent \cap Handles : p # h /\ Me(p).at = "idle"
    /\ IF OptionsOk(o)
       THEN Becomes(h, [Me(h) EXCEPT !.at = IF o.parent = {} THEN "open" ELSE "child", !.opts = {o},
                                     !.parent = o.parent])
       ELSE Becomes(h, GivesUp(h, "validation"))
resume_session(h, o) ==
    /\ Me(h).at = "none" /\ h \notin Roots
    /\ IF grant_only(o.budget) /\ store_target(o.store)
       THEN Becomes(h, [Me(h) EXCEPT !.at = "resume", !.opts = {o}])
       ELSE Becomes(h, GivesUp(h, "validation"))

----------------------------------------------------------------------------
(* Opening and resuming *)

Store(h, store) == CASE store = "mem" -> Db("mem", h) [] store = "file" -> Db("file", 0) [] OTHER -> Default

\* A mistake the runs catch: the handle keeps the id it was issued.
OwnId(h, stream) == "minted"
adopt_id(h, stream) == stream

Up(h, db, stream) ==
    [Me(h) EXCEPT !.at = "idle", !.opts = {}, !.db = db, !.stream = stream, !.id = adopt_id(h, stream)]
Grant(h, o) == IF o.budget = "none" THEN << >> ELSE <<Event("granted", {h})>>

\* The opening of a session of this run, root or child.
Opening(h) == with_meta(Event("opened", {h}), under_host_labels(kb.host, Meta(h)))

\* The opening and the grant are one write.
open_sqlite(h, o) ==
    LET db == Store(h, o.store)
    IN  /\ Me(h).at = "open"
        /\ \/ kb' = [kb EXCEPT !.h[h] = Up(h, db, h),
                               !.log[db][h] = @ \o <<Opening(h)>> \o Grant(h, o)]
           \/ Becomes(h, GivesUp(h, "store"))

\* The parent's database where the options name none.
open_child_store(h, o, p) == IF o.store = "unset" THEN Me(p).db ELSE Store(h, o.store)

\* A mistake the runs catch: the child goes wherever its store is.
AnyDatabase(parent, child) == TRUE
SameDatabase(parent, child) == parent = child

\* Under the parent's lock: the allocation and the opening are one write on one database.
open_child_session(h, o, p) ==
    LET db == open_child_store(h, o, p)
    IN  /\ Me(h).at = "child"
        /\ Me(p).busy = "no"
        /\ \/ ~Me(p).closed /\ ~SameDatabase(Me(p).db, db) /\ Becomes(h, GivesUp(h, "validation"))
           \/ (Me(p).closed \/ Me(p).at # "idle") /\ Becomes(h, GivesUp(h, "closed"))
           \/ Becomes(h, GivesUp(h, "store"))
           \/ /\ ~Me(p).closed /\ Me(p).at = "idle" /\ SameDatabase(Me(p).db, db)
              /\ kb' = [kb EXCEPT !.h[h] = GivesUp(h, "refused"),
                                  !.log[Me(p).db][Me(p).stream] = Append(@, Event("refused", {h}))]
           \/ /\ ~Me(p).closed /\ Me(p).at = "idle" /\ SameDatabase(Me(p).db, db)
              /\ kb' = [kb EXCEPT !.h[h] = Up(h, db, h),
                                  !.log = [[kb.log EXCEPT ![Me(p).db][Me(p).stream] = Append(@, Event("allocated", {h}))]
                                             EXCEPT ![db][h] = <<Opening(h), Event("granted", {h})>>]]

HasEnded(events) == \E k \in DOMAIN events : events[k].kind = "closed"

\* A mistake the runs catch: the grant is recorded while the stream is read.
GrantFirst(h, o) ==
    LET db == Store(h, o.store)
        found == kb.log[db][o.session]
    IN  /\ Me(h).at = "resume"
        /\ \/ (found = << >> \/ HasEnded(found)) /\ Becomes(h, GivesUp(h, "not resumable"))
           \/ /\ found # << >> /\ ~HasEnded(found)
              /\ kb' = [kb EXCEPT !.h[h] = IF o.session = "system" THEN GivesUp(h, "validation")
                                           ELSE Up(h, db, o.session),
                                  !.log[db][o.session] = @ \o Grant(h, o)]

\* Nothing is granted before the stream is known to be one a script may resume.
resume_on(h, o) ==
    LET db == Store(h, o.store)
        found == kb.log[db][o.session]
    IN  /\ Me(h).at = "resume"
        /\ \/ Becomes(h, GivesUp(h, "store"))
           \/ (found = << >> \/ HasEnded(found)) /\ Becomes(h, GivesUp(h, "not resumable"))
           \/ found # << >> /\ o.session = "system" /\ Becomes(h, GivesUp(h, "validation"))
           \/ /\ found # << >> /\ ~HasEnded(found) /\ o.session # "system"
              /\ kb' = [kb EXCEPT !.h[h] = Up(h, db, o.session), !.log[db][o.session] = @ \o Grant(h, o)]

----------------------------------------------------------------------------
(* A handle's methods and its end *)

Lock(h, call) ==
    /\ Me(h).at = "idle" /\ Me(h).busy = "no"
    /\ Becomes(h, [Me(h) EXCEPT !.busy = call])

\* A method that writes one event; a closed handle refuses it.
Method(h) ==
    /\ Me(h).at = "idle" /\ Me(h).busy = "no" /\ ~Me(h).closed /\ kb.appends < MaxAppends
    /\ kb' = [kb EXCEPT !.h[h].busy = "append", !.appends = @ + 1]
append(h) == Method(h)
reserve(h) == Method(h)
spend(h) == Method(h)
close(h) == ~Me(h).closed /\ Lock(h, "close")

\* The scope of `local s <close>` is left, by its body's error or without one.
close_meta(h, how) ==
    /\ Me(h).at = "idle" /\ Me(h).busy = "no" /\ Me(h).left = "inside"
    /\ Becomes(h, IF Me(h).closed
                  THEN [Me(h) EXCEPT !.left = how, !.raised = IF how = "unwinding" THEN "body" ELSE "nothing"]
                  ELSE [Me(h) EXCEPT !.left = how, !.busy = "scope"])

Kind(h) == IF Me(h).busy = "append" THEN "event" ELSE "closed"
Wrote(h) == [kb.log EXCEPT ![Me(h).db][Me(h).stream] = Append(@, Event(Kind(h), {h}))]

\* A mistake the runs catch: what __close raises replaces the body's error.
CloseRaises(h) == "close"
\* A failed ending is raised on a clean exit and logged under an error that is on its way up.
Raised(h) == IF Me(h).left = "unwinding" THEN "body" ELSE "close"

\* The flag moves after the write landed.
Lands(h) ==
    /\ Me(h).busy # "no"
    /\ kb' = [kb EXCEPT !.log = Wrote(h), !.h[h].busy = "no", !.h[h].closed = Me(h).busy # "append",
                        !.h[h].raised = IF Me(h).busy = "scope" /\ Me(h).left = "unwinding" THEN "body" ELSE @]
Fails(h) ==
    /\ Me(h).busy # "no"
    /\ Becomes(h, [Me(h) EXCEPT !.busy = "no", !.raised = IF Me(h).busy = "scope" THEN Raised(h) ELSE @])
\* Bound: one call is cancelled.
Cancelled(h) ==
    /\ Me(h).busy # "no" /\ \A o \in Handles : ~Me(o).cancelled
    /\ \E after \in {kb.log, Wrote(h)} :
            kb' = [kb EXCEPT !.log = after,
                             !.h[h] = [@ EXCEPT !.busy = "no", !.cancelled = TRUE, !.raised = "cancelled"]]

\* A mistake the runs catch: a handle that is collected has left its scope and needs no ending.
DropAfterScope(h) ==
    /\ Me(h).at = "idle" /\ Me(h).busy = "no"
    /\ kb' = [kb EXCEPT !.h[h].at = "gone", !.h[h].closed = TRUE,
                        !.queue = IF Me(h).closed \/ Me(h).left # "inside" THEN @ ELSE Append(@, h)]

\* Collection: an ending that is still missing is handed to the log and not waited for.
drop(h) ==
    /\ Me(h).at = "idle" /\ Me(h).busy = "no"
    /\ \A o \in Handles : ~(Me(o).at = "child" /\ h \in Me(o).parent)
    /\ kb' = [kb EXCEPT !.h[h].at = "gone", !.h[h].closed = TRUE,
                        !.queue = IF Me(h).closed THEN @ ELSE Append(@, h)]
drained ==
    /\ kb.queue # << >>
    /\ LET h == Head(kb.queue)
       IN  \/ kb' = [kb EXCEPT !.queue = Tail(@),
                               !.log[Me(h).db][Me(h).stream] = Append(@, Event("closed", {h}))]
           \/ kb' = [kb EXCEPT !.queue = Tail(@), !.lost = TRUE]

Next ==
    \/ \E h \in Handles :
        \/ Me(h).at = "none" /\ \E o \in OpenOpts : open_session(h, o)
        \/ Me(h).at = "none" /\ \E o \in ResumeOpts : resume_session(h, o)
        \/ \E o \in Me(h).opts : \/ open_sqlite(h, o) \/ resume_on(h, o)
                                 \/ \E p \in Me(h).parent : open_child_session(h, o, p)
        \/ append(h) \/ reserve(h) \/ spend(h) \/ close(h) \/ Lands(h) \/ Fails(h) \/ Cancelled(h) \/ drop(h)
        \/ \E how \in {"clean", "unwinding"} : close_meta(h, how)
    \/ drained

Spec == Init /\ [][Next]_kb

----------------------------------------------------------------------------
(* Messages: lines of words, of which ":" stands for a colon and a space *)

Kinds == {"validation", "busy", "closed"}
attributed(method, kind, reason) == <<"knl", ":", method, ":", kind, ":">> \o reason

\* What follows the first place of a word in a line: {} where it has none.
After(line, at) == SubSeq(line, at, Len(line))
Marks(line) == {k \in 1..Len(line) - 1 : line[k] = "knl" /\ line[k + 1] = ":"}
Colons(line) == {k \in DOMAIN line : line[k] = ":"}
First(places) == CHOOSE k \in places : \A j \in places : k <= j

Unread(text) == [kind |-> {}, method |-> {}, retryable |-> FALSE, message |-> text]

\* A mistake the runs catch: the kind is taken from the end of the line.
ReadFromEnd(text) ==
    IF {k \in DOMAIN text : Marks(text[k]) # {}} = {} THEN Unread(text)
    ELSE LET line == text[First({k \in DOMAIN text : Marks(text[k]) # {}})]
             last == CHOOSE k \in Colons(line) : \A j \in Colons(line) : j <= k
         IN  [kind |-> {SubSeq(line, last - 1, last - 1)}, method |-> {SubSeq(line, 3, 3)},
              retryable |-> FALSE, message |-> <<After(line, last + 1)>>]

\* The first line with the mark; after it the method, the kind and the message.
error_table(text) ==
    LET marked == {k \in DOMAIN text : Marks(text[k]) # {}}
        line == text[First(marked)]
        rest == After(line, First(Marks(line)) + 2)
        m == First(Colons(rest))
        tail == After(rest, m + 1)
        c == First(Colons(tail))
    IN  IF marked = {} THEN Unread(text)
        ELSE IF Colons(rest) = {} THEN Unread(text)
        ELSE IF Colons(tail) = {} THEN Unread(text)
        ELSE IF ~(c = 2 /\ tail[1] \in Kinds) THEN Unread(text)
        ELSE [kind |-> {SubSeq(tail, 1, 1)}, method |-> {SubSeq(rest, 1, m - 1)},
              retryable |-> tail[1] = "busy", message |-> <<After(tail, c + 1)>>]

----------------------------------------------------------------------------
(* Properties *)

By(h, kind) ==
    {x \in UNION {{d} \X {s} \X DOMAIN kb.log[d][s] : d \in Dbs, s \in Streams} :
        LET event == kb.log[x[1]][x[2]][x[3]] IN event.kind = kind /\ event.by = {h}}

\* A call that is refused for what it asked has written nothing, whichever check refused it and
\* however far it had come: no stream, no grant, on no database.
RefusedOpensNothing ==
    \A h \in Handles : Me(h).err = "validation" =>
        \A kind \in {"opened", "granted", "allocated", "refused"} : By(h, kind) = {}

\* Over closes that failed and were tried again, a scope left by an error and collection, a handle
\* ends its session once: it never writes two endings, and once it is gone and the log has drained
\* there is one, unless a call was cancelled or the log lost the last try.
EndsOnce ==
    \A h \in Handles :
        ~Me(h).cancelled =>
            /\ Cardinality(By(h, "closed")) <= 1
            /\ (Me(h).at = "gone" /\ Me(h).err = "none" /\ kb.queue = << >> /\ ~kb.lost) =>
                    Cardinality(By(h, "closed")) = 1

\* A body's own error is what its caller sees, whatever becomes of the ending; and a scope that was
\* left quietly has its ending in the log.
BodyErrorWins ==
    \A h \in Handles :
        (Me(h).left # "inside" /\ Me(h).busy = "no" /\ ~Me(h).cancelled) =>
            /\ Me(h).left = "unwinding" => Me(h).raised = "body"
            /\ (Me(h).left = "clean" /\ Me(h).raised = "nothing") => By(h, "closed") # {}

\* Every session this run opens, roots and children alike, can be found by the run: its opening
\* carries each of the host's labels, under the script's own value where the script names the key.
RunIsLabelled ==
    \A d \in Dbs, s \in Streams : \A k \in DOMAIN kb.log[d][s] :
        LET event == kb.log[d][s][k]
        IN  (event.kind = "opened" /\ event.by # {}) =>
                \A l \in kb.host :
                    LET found == {m \in event.meta : m[1] = l[1]}
                    IN  found = {l} \/ found = {<<l[1], "mine">>}

\* A child is in its parent's database, paid for there, and every handle finds what it wrote under
\* the id it reports.
ChildBesideParent ==
    \A h \in Handles : Me(h).at = "idle" =>
        /\ kb.log[Me(h).db][Me(h).id] # << >>
        /\ \A x \in By(h, "opened") \cup By(h, "event") \cup By(h, "closed") : x[2] = Me(h).id
        /\ \A p \in Me(h).parent :
                /\ Me(h).db = Me(p).db
                /\ \E x \in By(h, "allocated") : x[1] = Me(h).db /\ x[2] = Me(p).stream

\* knl.error gives back what the bridge raised, wherever Lua has put the message, and leaves alone
\* a text that the bridge did not raise.
ErrorsReadBack ==
    kb.queue = << >> /\ kb.h = [h \in Handles |-> NoHandle] =>
        /\ \A text \in Texts : error_table(text) = Unread(text)
        /\ \A text \in Texts, kind \in Kinds, reason \in Reasons :
                LET raised == attributed("open", kind, reason)
                    read == [kind |-> {<<kind>>}, method |-> {<<"open">>}, retryable |-> kind = "busy",
                             message |-> <<reason>>]
                IN  /\ error_table(<<raised>> \o text) = read
                    /\ error_table(text \o <<raised>>) = read
                    /\ error_table(<<<<"script", ":">> \o raised>> \o text) = read
=============================================================================
