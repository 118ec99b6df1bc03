----------------------------- MODULE KnlStore -----------------------------
(***************************************************************************)
(* The kernel's event store: sqlite_store.rs on eventsdb's log, read       *)
(* through the upcasting seam of event_store.rs, and the readers of whole  *)
(* streams, `agent-block knl export` (crates/agent-block/src/knl.rs) and   *)
(* the tail view (knl/projection.rs).                                      *)
(*                                                                         *)
(* A call validates what it can, hands a job to the log's one thread and   *)
(* waits.  The job runs as one transaction later, after whatever was       *)
(* handed over before it; a decision runs inside it and has no way to fail *)
(* but to say no, so a refusal is parked beside it and raised when the     *)
(* call comes back.                                                        *)
(***************************************************************************)
EXTENDS Naturals, Sequences

CONSTANTS Streams, Writers, Readers,
          Logs,       \* what the log may hold at first, rows of the first schema included
          Requests,   \* the writes callers make
          Page,       \* PAGE
          MaxCalls,   \* bound: calls
          MaxEvents   \* bound: events of a stream

\* log: the rows of each stream as stored; queue: the jobs of the log's thread; writer, reader:
\* the calls under way; calls: how many there were.
VARIABLE ks

NoCall == [at |-> "idle", req |-> {}, parked |-> FALSE, answer |-> "none yet"]
NoRead == [at |-> "idle", form |-> "events", stream |-> CHOOSE s \in Streams : TRUE,
           from |-> 0, had |-> 0, got |-> << >>, printed |-> << >>]

Init ==
    \E log \in Logs :
        ks = [log |-> log, queue |-> << >>, writer |-> [w \in Writers |-> NoCall],
              reader |-> [r \in Readers |-> NoRead], calls |-> 0]

----------------------------------------------------------------------------
(* Reading: from the first schema to the current one *)

\* A mistake the runs catch: an old row is taken as it stands.
AsStored(row) == [row EXCEPT !.ver = 2]

\* BeatIntoMeta: in the first schema the beat was a field of the envelope.
upcast(row) ==
    IF row.ver # 1 THEN row
    ELSE [row EXCEPT !.ver = 2, !.beat = IF @ = "envelope" THEN "meta" ELSE @]

\* The log applies the chain and the seam applies it again.
project(rows) == [k \in DOMAIN rows |-> upcast(upcast(rows[k]))]

\* The members of S among the first n places, in their order.
Ascending(n, S) ==
    LET upto[k \in 0..n] == IF k = 0 THEN << >>
                            ELSE IF k \in S THEN Append(upto[k - 1], k) ELSE upto[k - 1]
    IN  upto[n]

\* Rows carry their sequence number here, the place they have in the stream.
Numbered(s) == [k \in DOMAIN ks.log[s] |-> [seq |-> k, row |-> ks.log[s][k]]]
read_kinds(s, kinds, from, limit) ==
    LET all == Numbered(s)
        found == Ascending(Len(all), {k \in DOMAIN all : k >= from /\ all[k].row.kind \in kinds})
    IN  [k \in 1..(IF Len(found) < limit THEN Len(found) ELSE limit) |-> all[found[k]]]
AllKinds == {"mark", "msg_user", "opened", "granted", "closed"}
rows_of(numbered) == [k \in DOMAIN numbered |-> numbered[k].row]
seen(s, kinds) == project(rows_of(read_kinds(s, kinds, 0, Len(ks.log[s]))))

----------------------------------------------------------------------------
(* Writing *)

\* What the caller put in `ver` is overwritten.
prepared(e) == [kind |-> e.kind, ver |-> 2, beat |-> e.beat, of |-> e.of, open |-> {}]
validate_event(e) == e.good
AllValid(req) == \A k \in DOMAIN req.events : validate_event(req.events[k])

Prepared(events) == [k \in DOMAIN events |-> prepared(events[k])]

\* The part of a request each stream gets.
Own(req) == IF req.op = "append_if_many" THEN SubSeq(req.events, 1, 1) ELSE req.events
Elsewhere(req) == IF req.op = "append_if_many" THEN Tail(req.events) ELSE << >>

Free(w, req) ==
    /\ ks.writer[w].at = "idle" /\ ks.calls < MaxCalls
    /\ \A s \in Streams : Len(ks.log[s]) + Len(req.events) <= MaxEvents
Submit(w, req) ==
    ks' = [ks EXCEPT !.calls = @ + 1, !.queue = Append(@, [by |-> {w}, req |-> req]),
                     !.writer[w] = [NoCall EXCEPT !.at = "queued", !.req = {req}]]

\* These check before they hand the job over: a malformed event never takes the write lock.
append_many(w, req) ==
    /\ Free(w, req) /\ req.op = "append_many"
    /\ \/ AllValid(req) /\ Submit(w, req)
       \/ ~AllValid(req) /\ ks' = [ks EXCEPT !.calls = @ + 1,
                              !.writer[w] = [NoCall EXCEPT !.at = "ran", !.req = {req}, !.parked = TRUE]]
append(w, req) == Len(req.events) = 1 /\ append_many(w, req)

\* These hand the decision over, and check what it answers inside the transaction.
append_if(w, req) == Free(w, req) /\ req.op = "append_if" /\ Submit(w, req)
append_if_many(w, req) == Free(w, req) /\ req.op = "append_if_many" /\ Submit(w, req)
append_with_open_children(w, req) ==
    Free(w, req) /\ req.op = "append_with_open_children" /\ Submit(w, req)

\* Nobody waits for this one; one that is malformed is dropped with a warning.
detach_append(w, req) ==
    /\ Free(w, req) /\ req.op = "detach_append"
    /\ ks' = [ks EXCEPT !.calls = @ + 1,
                        !.queue = IF AllValid(req) THEN Append(@, [by |-> {}, req |-> req]) ELSE @]

\* The streams opened under this one that have no ending, in one SELECT over the database.
open_children_in(s) ==
    {c \in Streams : /\ \E k \in DOMAIN ks.log[c] : ks.log[c][k].kind = "opened" /\ ks.log[c][k].of = s
                     /\ ~\E k \in DOMAIN ks.log[c] : ks.log[c][k].kind = "closed"}

\* A mistake the runs catch: whether the other stream is empty is asked of the budget's kinds.
OtherFiltered(req) ==
    \/ req.op = "append_if" /\ \E k \in DOMAIN seen(req.stream, {"mark"}) :
            seen(req.stream, {"mark"})[k].beat = "meta"
    \/ req.op = "append_if_many" /\ seen(req.other, {"granted"}) # << >>

\* The decisions: a mark once for a beat, an opening of a stream with nothing on it.
decide_none(req) ==
    \/ req.op = "append_if" /\ \E k \in DOMAIN seen(req.stream, {"mark"}) :
            seen(req.stream, {"mark"})[k].beat = "meta"
    \/ req.op = "append_if_many" /\ read_kinds(req.other, AllKinds, 0, 1) # << >>

\* What a job that succeeds leaves in the log.
Written(req) ==
    LET own == Prepared(Own(req))
        mine == IF req.op = "append_with_open_children"
                THEN [own EXCEPT ![1].open = open_children_in(req.stream)] ELSE own
    IN  [s \in Streams |-> ks.log[s] \o (IF s = req.stream THEN mine
                                         ELSE IF s = req.other THEN Prepared(Elsewhere(req)) ELSE << >>)]

\* The transaction of the job at the head of the queue; the callers' record of how it went.
Went(job, parked, answer) ==
    [w \in Writers |-> IF w \in job.by
                       THEN [ks.writer[w] EXCEPT !.at = "ran", !.parked = parked, !.answer = answer]
                       ELSE ks.writer[w]]
transaction ==
    /\ ks.queue # << >>
    /\ LET job == Head(ks.queue)
           rest == [ks EXCEPT !.queue = Tail(@)]
       IN  \/ /\ decide_none(job.req)
              /\ ks' = [rest EXCEPT !.writer = Went(job, FALSE, "declined")]
           \/ /\ ~decide_none(job.req) /\ ~AllValid(job.req)
              /\ ks' = [rest EXCEPT !.writer = Went(job, TRUE, "declined")]
           \/ /\ ~decide_none(job.req) /\ AllValid(job.req)
              /\ ks' = [rest EXCEPT !.writer = Went(job, FALSE, "kept"), !.log = Written(job.req)]

\* Busy, a full disk, a corrupt row, a log that has stopped: the transaction leaves no trace.
Fails ==
    /\ ks.queue # << >>
    /\ ks' = [ks EXCEPT !.queue = Tail(@), !.writer = Went(Head(ks.queue), FALSE, "failed")]

\* A mistake the runs catch: what was parked is left there.
RaisedNever(w) == ks.writer[w].answer

taken(w) == IF ks.writer[w].parked THEN "refused" ELSE ks.writer[w].answer
Return(w) ==
    /\ ks.writer[w].at = "ran"
    /\ ks' = [ks EXCEPT !.writer[w] = [at |-> "idle", req |-> {}, parked |-> FALSE, answer |-> taken(w)]]

----------------------------------------------------------------------------
(* Readers of whole streams *)

Begin(r, s, form) ==
    /\ ks.reader[r].at = "idle" /\ ks.calls < MaxCalls
    /\ ks' = [ks EXCEPT !.calls = @ + 1,
                        !.reader[r] = [NoRead EXCEPT !.at = "page", !.form = form, !.stream = s,
                                                     !.had = Len(ks.log[s])]]

\* One record per event of the conversation, with its beat and its place.
message_of(n) == [seq |-> n.seq, beat |-> n.row.beat]
messages_of(got) ==
    LET talk == Ascending(Len(got), {k \in DOMAIN got : got[k].row.kind = "msg_user"})
    IN  [k \in DOMAIN talk |-> message_of(got[talk[k]])]

Upcasted(numbered) == [k \in DOMAIN numbered |-> [numbered[k] EXCEPT !.row = upcast(@)]]

\* A mistake the runs catch: the next page starts at the last event of this one.
NextAgain(page) == page[Len(page)].seq
next(page) == page[Len(page)].seq + 1

Shown(r, got) ==
    [ks.reader[r] EXCEPT !.at = "told", !.got = got,
        !.printed = IF ks.reader[r].form = "messages" THEN messages_of(got) ELSE << >>]
\* A page that is not full is the last; so is one that does not move the cursor.
read_whole(r) ==
    /\ ks.reader[r].at = "page"
    /\ LET me == ks.reader[r]
           page == Upcasted(read_kinds(me.stream, AllKinds, me.from, Page))
           got == me.got \o page
       IN  ks' = [ks EXCEPT !.reader[r] =
                    IF Len(page) < Page \/ next(page) <= me.from THEN Shown(r, got)
                    ELSE [me EXCEPT !.from = next(page), !.got = got]]
\* The last n events, in one read.
read_last(r, n) ==
    /\ ks.reader[r].at = "page" /\ ks.reader[r].form = "tail"
    /\ LET all == Numbered(ks.reader[r].stream)
           start == IF Len(all) < n THEN 0 ELSE Len(all) - n
       IN  ks' = [ks EXCEPT !.reader[r] = Shown(r, Upcasted(SubSeq(all, start + 1, Len(all))))]
Close(r) ==
    /\ ks.reader[r].at = "told"
    /\ ks' = [ks EXCEPT !.reader[r] = NoRead]

Next ==
    \/ \E w \in Writers : \/ Return(w)
                          \/ \E req \in Requests :
                                \/ append(w, req) \/ append_many(w, req) \/ append_if(w, req)
                                \/ append_if_many(w, req) \/ append_with_open_children(w, req)
                                \/ detach_append(w, req)
    \/ transaction \/ Fails
    \/ \E r \in Readers : \/ (ks.reader[r].form # "tail" /\ read_whole(r))
                          \/ read_last(r, 2) \/ Close(r)
                          \/ \E s \in Streams, form \in {"events", "messages", "tail"} : Begin(r, s, form)

Spec == Init /\ [][Next]_ks

----------------------------------------------------------------------------
(* Properties *)

\* A row as a reader is to see it, whichever schema it was written under.
Current(row) == [kind |-> row.kind, beat |-> IF row.beat = "none" THEN "none" ELSE "meta",
                 of |-> row.of, open |-> row.open]

CurrentStreams == [s \in Streams |-> [k \in DOMAIN ks.log[s] |-> Current(ks.log[s][k])]]

\* A call as its caller sees it.
Phase == [idle |-> "idle", queued |-> "called", ran |-> "done"]
Status(me) == [at |-> Phase[me.at], req |-> me.req,
               outcome |-> IF me.at = "ran" /\ me.parked THEN "refused" ELSE me.answer]
CurrentCallers == [w \in Writers |-> Status(ks.writer[w])]

\* The jobs of the queue that nobody waits for.
Unawaited == Ascending(Len(ks.queue), {k \in DOMAIN ks.queue : ks.queue[k].by = {}})
Owed == [k \in DOMAIN Unawaited |-> ks.queue[Unawaited[k]].req]

Promise == INSTANCE EventStoreSpi WITH
    streams <- CurrentStreams, caller <- CurrentCallers, owed <- Owed

\* A reader that is through holds a gap-free run of one stream that ends no earlier than the
\* stream did when it began, read from the first event except for the tail, each event in the
\* current shape and in its place, while writers went on; the conversation it prints is every
\* message of that run.
ExportWhole ==
    \A r \in Readers :
        LET me == ks.reader[r]
            stored == ks.log[me.stream]
        IN  me.at = "told" =>
                /\ \A k \in DOMAIN me.got :
                        /\ me.got[k].seq = me.got[1].seq + k - 1
                        /\ me.got[k].row.ver = 2
                        /\ me.got[k].row.kind = stored[me.got[k].seq].kind
                        /\ me.got[k].row.beat = Current(stored[me.got[k].seq]).beat
                /\ me.got = << >> => me.had = 0
                /\ me.got # << >> => /\ me.got[Len(me.got)].seq >= me.had
                                     /\ me.form # "tail" => me.got[1].seq = 1
                /\ me.form = "messages" =>
                        [k \in DOMAIN me.printed |-> me.printed[k].seq]
                          = Ascending(Len(me.got), {k \in DOMAIN me.got : stored[k].kind = "msg_user"})

\* Every write of the store is one the trait allows: whole or not at all, decided on the current
\* shape of the streams at the instant it lands, and answered with what happened.  A refusal is
\* never told as a decision that said no, and old rows decide as new ones do.  And what a reader
\* has when it is through is whole.
StoreKeepsItsWord == Promise!Spec /\ []ExportWhole
=============================================================================
