--------------------------- MODULE EventStoreSpi ---------------------------
(***************************************************************************)
(* What an event store promises its callers: the trait EventStore of       *)
(* knl/event_store.rs.  A write is one step on the streams as a reader     *)
(* sees them: all of it or none of it, decided on the streams as they are  *)
(* in that step, and the caller is told what happened and nothing else.    *)
(***************************************************************************)
EXTENDS Naturals, Sequences

CONSTANTS Streams, Writers

\* streams: the events of each stream in the current shape; caller: each writer's call, its
\* request while it runs, how it went and what it was told; owed: detached appends not yet landed.
VARIABLES streams, caller, owed

vars == <<streams, caller, owed>>

Idle(w) == caller[w].at = "idle"
Running(w) == caller[w].at = "called"

\* The streams that were opened under s and have no ending.
OpenChildren(all, s) ==
    {c \in Streams : /\ \E k \in DOMAIN all[c] : all[c][k].kind = "opened" /\ all[c][k].of = s
                     /\ \A k \in DOMAIN all[c] : all[c][k].kind # "closed"}

\* A condition is a question about the streams at the instant of the write.
Declines(req) ==
    \/ req.op = "append_if" /\ \E k \in DOMAIN streams[req.stream] :
            streams[req.stream][k].kind = "mark" /\ streams[req.stream][k].beat = "meta"
    \/ req.op = "append_if_many" /\ streams[req.other] # << >>

Malformed(req) == \E k \in DOMAIN req.events : ~req.events[k].good

\* The event as it is kept: an ending names the children that are open.
Kept(req, e) ==
    [kind |-> e.kind, beat |-> e.beat, of |-> e.of,
     open |-> IF req.op = "append_with_open_children" THEN OpenChildren(streams, req.stream) ELSE {}]

\* One event of a split goes to the caller's own stream and the rest to the other.
Batch(req, s) ==
    LET own == IF req.op = "append_if_many" THEN 1 ELSE Len(req.events)
        part == IF s = req.stream THEN SubSeq(req.events, 1, own)
                ELSE IF s = req.other THEN SubSeq(req.events, own + 1, Len(req.events)) ELSE << >>
    IN  [k \in DOMAIN part |-> Kept(req, part[k])]

Ends(w, outcome) == caller' = [caller EXCEPT ![w] = [@ EXCEPT !.at = "done", !.outcome = outcome]]

Init ==
    /\ caller = [w \in Writers |-> [at |-> "idle", req |-> {}, outcome |-> "none yet"]]
    /\ owed = << >>

Call(w) ==
    /\ Idle(w)
    /\ \E req \in caller'[w].req :
            /\ caller' = [caller EXCEPT ![w] = [at |-> "called", req |-> {req}, outcome |-> "none yet"]]
            /\ UNCHANGED <<streams, owed>>
Keep(w) ==
    /\ Running(w)
    /\ \E req \in caller[w].req :
            /\ ~Declines(req) /\ ~Malformed(req)
            /\ streams' = [s \in Streams |-> streams[s] \o Batch(req, s)]
    /\ Ends(w, "kept") /\ UNCHANGED owed
Decline(w) ==
    /\ Running(w)
    /\ \E req \in caller[w].req : Declines(req)
    /\ Ends(w, "declined") /\ UNCHANGED <<streams, owed>>
Refuse(w) ==
    /\ Running(w)
    /\ \E req \in caller[w].req : Malformed(req) /\ ~Declines(req)
    /\ Ends(w, "refused") /\ UNCHANGED <<streams, owed>>
RefuseAtOnce(w) ==
    /\ Idle(w)
    /\ \E req \in caller'[w].req :
            /\ Malformed(req)
            /\ caller' = [caller EXCEPT ![w] = [at |-> "done", req |-> {req}, outcome |-> "refused"]]
    /\ UNCHANGED <<streams, owed>>
Fail(w) ==
    /\ Running(w)
    /\ Ends(w, "failed") /\ UNCHANGED <<streams, owed>>
Told(w) ==
    /\ caller[w].at = "done"
    /\ caller' = [caller EXCEPT ![w] = [@ EXCEPT !.at = "idle", !.req = {}]]
    /\ UNCHANGED <<streams, owed>>

\* A write nobody waits for lands whole in its turn, or is lost with a warning.
Detach(w) ==
    /\ Idle(w)
    /\ Len(owed') = Len(owed) + 1 /\ SubSeq(owed', 1, Len(owed)) = owed
    /\ UNCHANGED <<streams, caller>>
Land ==
    /\ owed # << >> /\ owed' = Tail(owed)
    /\ \/ streams' = [streams EXCEPT ![Head(owed).stream] = @ \o Batch(Head(owed), Head(owed).stream)]
       \/ UNCHANGED streams
    /\ UNCHANGED caller

Next ==
    \/ \E w \in Writers : \/ Call(w) \/ Keep(w) \/ Decline(w) \/ Refuse(w) \/ RefuseAtOnce(w)
                          \/ Fail(w) \/ Told(w) \/ Detach(w)
    \/ Land

Spec == Init /\ [][Next]_vars
=============================================================================
