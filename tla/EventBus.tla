------------------------------ MODULE EventBus ------------------------------
(***************************************************************************)
(* The event bus: sources push events into one bounded channel, a single   *)
(* loop dispatches them one at a time to the handler registered for their  *)
(* kind, and the handler's result goes back on a one-shot ack channel.     *)
(*                                                                         *)
(*   sources     http_source::handle, BusRelayHandler::handle, bus.emit    *)
(*   registry    bus.on and bus.on_any (bridge/bus.rs): the Lua function   *)
(*               is loaded on the handler Isle first, then the EventBus    *)
(*               learns that there is one                                  *)
(*   loop        EventBus::run and dispatch (bus/dispatcher.rs), driven by *)
(*               bus.serve in the script, or by the host (auto-serve)      *)
(*   shutdown    a signal or the host's drain cancels a token; the grace   *)
(*               window bounds what follows                                *)
(*                                                                         *)
(* The loop, every source, every bus.on call and every handler are tasks   *)
(* of their own: a handler runs as a spawned task which the loop joins.    *)
(***************************************************************************)
EXTENDS Naturals, Sequences, FiniteSets, SequencesExt

CONSTANTS Requests,   \* events that may arrive
          Emits,      \* those of them that carry no ack channel (bus.emit)
          Kinds,      \* event kinds
          KindOf,     \* [Requests -> Kinds]
          AnyKey,     \* the key of the on_any handler
          Regs,       \* calls of bus.on and bus.on_any, each with its function
          KeyOf,      \* [Regs -> Kinds \cup {AnyKey}]
          Nobody,     \* no function, no request
          HostKeys,   \* the keys the host installs Rust handlers for
          AutoServe,  \* BlockConfig::auto_serve_bus
          Capacity    \* AGENT_BLOCK_BUS_CAPACITY

Keys == Kinds \cup {AnyKey}

ASSUME BusAssumption ==
    /\ AnyKey \notin Kinds /\ Nobody \notin Requests \cup Regs
    /\ Emits \subseteq Requests /\ HostKeys \subseteq Keys
    /\ KindOf \in [Requests -> Kinds] /\ KeyOf \in [Regs -> Keys]
    /\ Capacity \in Nat \ {0}
    /\ AutoServe \in BOOLEAN /\ (AutoServe => HostKeys # {})

VARIABLES table,     \* the handler Isle's __bus_handlers and __bus_on_any
          handlers,  \* the EventBus's own table: what kind of handler a key has
          reg,       \* how far each bus.on call is
          loop,      \* home (nobody took the bus), ready, busy, exited
          shutdown,  \* the token is cancelled
          host,      \* script, draining, joined, down
          queue,     \* the channel
          current,   \* the request being dispatched
          req        \* [Requests -> record], below

vars == <<table, handlers, reg, loop, shutdown, host, queue, current, req>>

\* at      new, sending (in tx.send), waiting (for its ack), done
\* ack     the ack channel: none, open, what was sent on it, or dropped unsent
\* answer  what the source made of it
\* task    the handler's task: none, spawned, running, how it ended, cancelled
\* ran     the Lua function it reached
Request == [at     : {"new", "sending", "waiting", "done"},
            ack    : {"none", "open", "ok", "error", "dropped"},
            answer : {"none", "sent", "ok", "error", "dropped", "closed", "timeout",
                      "denied", "lost"},
            task   : {"none", "spawned", "running", "ok", "error", "cancelled"},
            ran    : Regs \cup {Nobody}]

Init ==
    /\ table = [k \in Keys |-> Nobody]
    /\ handlers = [k \in Keys |-> IF k \in HostKeys THEN "host" ELSE "none"]
    /\ reg = [g \in Regs |-> "idle"]
    /\ loop = IF AutoServe THEN "ready" ELSE "home"
    /\ shutdown = FALSE
    /\ host = "script"
    /\ queue = << >>
    /\ current = Nobody
    /\ req = [r \in Requests |->
                [at |-> "new", ack |-> "none", answer |-> "none", task |-> "none",
                 ran |-> Nobody]]

\* The handler the loop finds for a kind: its own, or the fallback.
HandlerOf(kind) == IF handlers[kind] # "none" THEN handlers[kind] ELSE handlers[AnyKey]

----------------------------------------------------------------------------
(* Mistakes the runs catch: what a definition below would be with a bug in it *)

\* on_register: registered before it is loaded.
RegisterFirst(g) ==
    /\ host = "script" /\ reg[g] = "idle" /\ loop = "home"
    /\ handlers' = [handlers EXCEPT ![KeyOf[g]] = "lua"]
    /\ reg' = [reg EXCEPT ![g] = "ok"]
    /\ UNCHANGED <<table, loop, shutdown, host, queue, current, req>>

\* send: the channel has no bound.
SendUnbounded(r) ==
    /\ req[r].at = "sending" /\ loop # "exited"
    /\ queue' = Append(queue, r)
    /\ req' = [req EXCEPT ![r] =
                 IF r \in Emits THEN [@ EXCEPT !.at = "done", !.answer = "sent"]
                                ELSE [@ EXCEPT !.at = "waiting", !.ack = "open"]]
    /\ UNCHANGED <<table, handlers, reg, loop, shutdown, host, current>>

\* send: a receiver that is gone is not noticed.
SendForever(r) ==
    /\ req[r].at = "sending" /\ loop # "exited" /\ Len(queue) < Capacity
    /\ queue' = Append(queue, r)
    /\ req' = [req EXCEPT ![r] =
                 IF r \in Emits THEN [@ EXCEPT !.at = "done", !.answer = "sent"]
                                ELSE [@ EXCEPT !.at = "waiting", !.ack = "open"]]
    /\ UNCHANGED <<table, handlers, reg, loop, shutdown, host, current>>

\* timeout: the clock covers the wait in the channel and not the handler.
TimeoutInQueue(r) ==
    /\ req[r].at = "waiting" /\ req[r].ack = "open" /\ r # current
    /\ req' = [req EXCEPT ![r].at = "done", ![r].answer = "timeout"]
    /\ UNCHANGED <<table, handlers, reg, loop, shutdown, host, queue, current>>

\* take: the handler's task is spawned and not joined.
TakeUnjoined ==
    LET r == Head(queue) IN
    /\ loop = "ready" /\ ~shutdown /\ queue # << >>
    /\ queue' = Tail(queue)
    /\ req' = [req EXCEPT ![r].task = "spawned"]
    /\ UNCHANGED <<table, handlers, reg, shutdown, host, loop, current>>

\* take: the select is not biased towards the token.
TakeUnbiased ==
    LET r == Head(queue) IN
    /\ loop = "ready" /\ queue # << >>
    /\ queue' = Tail(queue)
    /\ IF HandlerOf(KindOf[r]) = "none"
       THEN /\ req' = [req EXCEPT ![r].ack = IF @ = "open" THEN "error" ELSE @]
            /\ UNCHANGED <<loop, current>>
       ELSE /\ loop' = "busy" /\ current' = r
            /\ req' = [req EXCEPT ![r].task = "spawned"]
    /\ UNCHANGED <<table, handlers, reg, shutdown, host>>

\* deliver_ack: a handler that raised is acked like one that returned.
AckAlwaysOk ==
    /\ loop = "busy" /\ req[current].task \in {"ok", "error"}
    /\ req' = [req EXCEPT ![current].ack = IF @ = "open" THEN "ok" ELSE @]
    /\ loop' = "ready" /\ current' = Nobody
    /\ UNCHANGED <<table, handlers, reg, shutdown, host, queue>>

\* grace_expired: the window waits for the handler in flight.
GraceAwaitsHandler ==
    /\ ~AutoServe /\ shutdown
    /\ loop = "busy" /\ req[current].task \in {"ok", "error"}
    /\ loop' = "exited" /\ queue' = << >> /\ current' = Nobody
    /\ UNCHANGED <<table, handlers, reg, shutdown, host, req>>

\* drain_join: the join has no window.
JoinExited ==
    /\ host = "draining" /\ shutdown /\ loop = "exited"
    /\ host' = "joined"
    /\ UNCHANGED <<table, handlers, reg, loop, shutdown, queue, current, req>>

----------------------------------------------------------------------------
(* Registration *)

\* The function is loaded into the handler Isle's table; one that is no Lua function,
\* or does not load there, is refused...
Load(g) ==
    /\ host = "script" /\ reg[g] = "idle"
    /\ \/ /\ table' = [table EXCEPT ![KeyOf[g]] = g]
          /\ reg' = [reg EXCEPT ![g] = "loaded"]
       \/ /\ reg' = [reg EXCEPT ![g] = "refused"]
          /\ UNCHANGED table
    /\ UNCHANGED <<handlers, loop, shutdown, host, queue, current, req>>
on_load(g) == KeyOf[g] # AnyKey /\ Load(g)
on_any_load(g) == KeyOf[g] = AnyKey /\ Load(g)

\* The last registration of a kind, or of the fallback, stands.
on(g) == handlers' = [handlers EXCEPT ![KeyOf[g]] = "lua"]

\* ...and then, if the bus is still there, registered; otherwise refused.
on_register(g) ==
    /\ host = "script" /\ reg[g] = "loaded"
    /\ IF loop = "home"
       THEN /\ on(g)
            /\ reg' = [reg EXCEPT ![g] = "ok"]
       ELSE /\ reg' = [reg EXCEPT ![g] = "refused"]
            /\ UNCHANGED handlers
    /\ UNCHANGED <<table, loop, shutdown, host, queue, current, req>>

----------------------------------------------------------------------------
(* Sources *)

\* A request arrives; the listener's Host, Origin and token checks may deny it.
arrive(r) ==
    /\ host # "down" /\ r \notin Emits /\ req[r].at = "new"
    /\ \/ req' = [req EXCEPT ![r].at = "sending"]
       \/ req' = [req EXCEPT ![r].at = "done", ![r].answer = "denied"]
    /\ UNCHANGED <<table, handlers, reg, loop, shutdown, host, queue, current>>

\* bus.emit, which only the script's VM has.
emit(r) ==
    /\ host = "script" /\ r \in Emits /\ req[r].at = "new"
    /\ req' = [req EXCEPT ![r].at = "sending"]
    /\ UNCHANGED <<table, handlers, reg, loop, shutdown, host, queue, current>>

\* tx.send: waits for room in the channel, fails once the receiver is gone.  A
\* fire-and-forget event is the source's business no longer.
send(r) ==
    /\ req[r].at = "sending"
    /\ \/ /\ loop = "exited"
          /\ req' = [req EXCEPT ![r].at = "done", ![r].answer = "closed"]
          /\ UNCHANGED queue
       \/ /\ loop # "exited" /\ Len(queue) < Capacity
          /\ queue' = Append(queue, r)
          /\ req' = [req EXCEPT ![r] =
                       IF r \in Emits THEN [@ EXCEPT !.at = "done", !.answer = "sent"]
                                      ELSE [@ EXCEPT !.at = "waiting", !.ack = "open"]]
    /\ UNCHANGED <<table, handlers, reg, loop, shutdown, host, current>>

\* The ack arrives: the handler's result, or the news that there is none.
wake(r) ==
    /\ req[r].at = "waiting" /\ req[r].ack # "open"
    /\ req' = [req EXCEPT ![r].at = "done", ![r].answer = req[r].ack]
    /\ UNCHANGED <<table, handlers, reg, loop, shutdown, host, queue, current>>

\* ACK_TIMEOUT passes first: 504, and the receiver is gone.
timeout(r) ==
    /\ req[r].at = "waiting" /\ req[r].ack = "open"
    /\ req' = [req EXCEPT ![r].at = "done", ![r].answer = "timeout"]
    /\ UNCHANGED <<table, handlers, reg, loop, shutdown, host, queue, current>>

----------------------------------------------------------------------------
(* The loop *)

\* bus.serve takes the bus; a second call, or one after the host took it, fails.
serve ==
    /\ host = "script" /\ loop = "home"
    /\ loop' = "ready"
    /\ UNCHANGED <<table, handlers, reg, shutdown, host, queue, current, req>>

\* The rx.recv branch: not taken once the token is cancelled, the select is
\* biased.  With no handler the event is nacked and the loop goes on.
take ==
    LET r == Head(queue) IN
    /\ loop = "ready" /\ ~shutdown /\ queue # << >>
    /\ queue' = Tail(queue)
    /\ IF HandlerOf(KindOf[r]) = "none"
       THEN /\ req' = [req EXCEPT ![r].ack = IF @ = "open" THEN "error" ELSE @]
            /\ UNCHANGED <<loop, current>>
       ELSE /\ loop' = "busy" /\ current' = r
            /\ req' = [req EXCEPT ![r].task = "spawned"]
    /\ UNCHANGED <<table, handlers, reg, shutdown, host>>

\* The join has resolved: deliver_ack, and round again.  A source that gave up
\* has dropped its receiver, and the result is discarded.
deliver_ack ==
    /\ loop = "busy" /\ req[current].task \in {"ok", "error"}
    /\ req' = [req EXCEPT ![current].ack = IF @ = "open" THEN req[current].task ELSE @]
    /\ loop' = "ready" /\ current' = Nobody
    /\ UNCHANGED <<table, handlers, reg, shutdown, host, queue>>

\* The receiver goes: the acks of everything it held are dropped unsent.
Dropped(rs) ==
    [r \in Requests |-> IF r \in rs /\ req[r].ack = "open"
                        THEN [req[r] EXCEPT !.ack = "dropped"] ELSE req[r]]

\* The cancelled branch: the channel is closed, not drained.
loop_stop ==
    /\ loop = "ready" /\ shutdown
    /\ loop' = "exited" /\ queue' = << >>
    /\ req' = Dropped(ToSet(queue))
    /\ UNCHANGED <<table, handlers, reg, shutdown, host, current>>

----------------------------------------------------------------------------
(* Handlers *)

\* LuaHandler::call: __bus_dispatch looks its function up when it runs.
LuaTarget(kind) == IF table[kind] # Nobody THEN table[kind] ELSE table[AnyKey]

call(r) ==
    LET target == LuaTarget(KindOf[r]) IN
    /\ req[r].task = "spawned"
    /\ req' = [req EXCEPT ![r] =
                 IF HandlerOf(KindOf[r]) = "host" THEN [@ EXCEPT !.task = "running"]
                 ELSE IF target = Nobody THEN [@ EXCEPT !.task = "error"]
                 ELSE [@ EXCEPT !.task = "running", !.ran = target]]
    /\ UNCHANGED <<table, handlers, reg, loop, shutdown, host, queue, current>>

\* The handler returns, or raises or panics (a panic is an error ack).
finish(r) ==
    /\ req[r].task = "running"
    /\ \E result \in {"ok", "error"} : req' = [req EXCEPT ![r].task = result]
    /\ UNCHANGED <<table, handlers, reg, loop, shutdown, host, queue, current>>

----------------------------------------------------------------------------
(* Shutdown *)

\* SIGTERM or Ctrl+C while bus.serve runs.
signal ==
    /\ ~AutoServe /\ loop \in {"ready", "busy"} /\ ~shutdown
    /\ shutdown' = TRUE
    /\ UNCHANGED <<table, handlers, reg, loop, host, queue, current, req>>

\* run_with_grace gives up on a handler: the loop is dropped in the middle of
\* its dispatch, the event and its ack sender with it.  The handler's task is
\* not: the join handle is dropped, which detaches it.
grace_expired ==
    /\ ~AutoServe /\ shutdown
    /\ loop = "busy" /\ req[current].task \in {"spawned", "running"}
    /\ loop' = "exited" /\ queue' = << >> /\ current' = Nobody
    /\ req' = Dropped({current} \cup ToSet(queue))
    /\ UNCHANGED <<table, handlers, reg, shutdown, host>>

\* The script returns: it is not inside bus.serve.
script_end ==
    /\ host = "script"
    /\ AutoServe \/ loop \in {"home", "exited"}
    /\ host' = IF AutoServe THEN "draining" ELSE "joined"
    /\ UNCHANGED <<table, handlers, reg, loop, shutdown, queue, current, req>>

\* The embedder's own token unwinds a script parked in bus.serve
\* (execute_script): the loop goes the way it does when the grace window is over.
script_cancelled ==
    /\ ~AutoServe /\ host = "script" /\ loop \in {"ready", "busy"}
    /\ host' = "joined"
    /\ loop' = "exited" /\ queue' = << >> /\ current' = Nobody
    /\ req' = Dropped({current} \cup ToSet(queue))
    /\ UNCHANGED <<table, handlers, reg, shutdown>>

\* drain_auto_serve: a grace window for the queue, then the token.
drain_cancel ==
    /\ host = "draining" /\ ~shutdown
    /\ shutdown' = TRUE
    /\ UNCHANGED <<table, handlers, reg, loop, host, queue, current, req>>

\* Its join: the loop has exited, or the second grace window is over and the
\* loop is left running, detached.
drain_join ==
    /\ host = "draining" /\ shutdown
    /\ loop = "exited" \/ loop = "busy"
    /\ host' = "joined"
    /\ UNCHANGED <<table, handlers, reg, loop, shutdown, queue, current, req>>

\* The process ends: what still runs or waits is cut off.
teardown ==
    /\ host = "joined"
    /\ host' = "down"
    /\ loop' = "exited" /\ queue' = << >> /\ current' = Nobody
    /\ req' = [r \in Requests |->
                 [req[r] EXCEPT
                    !.task = IF @ \in {"spawned", "running"} THEN "cancelled" ELSE @,
                    !.answer = IF req[r].at \in {"sending", "waiting"} THEN "lost" ELSE @,
                    !.at = IF @ \in {"sending", "waiting"} THEN "done" ELSE @]]
    /\ UNCHANGED <<table, handlers, reg, shutdown>>

----------------------------------------------------------------------------

Next ==
    \/ \E g \in Regs : on_load(g) \/ on_any_load(g) \/ on_register(g)
    \/ \E r \in Requests :
          arrive(r) \/ emit(r) \/ send(r) \/ wake(r) \/ timeout(r) \/ call(r) \/ finish(r)
    \/ serve \/ take \/ deliver_ack \/ loop_stop
    \/ signal \/ grace_expired
    \/ script_end \/ script_cancelled \/ drain_cancel \/ drain_join \/ teardown

\* What the runtime owes: a task that can move is polled, a timer that is due
\* fires.  The channel's semaphore is first come, first served, so a sender that
\* can be let in again and again is let in.  Nothing is assumed of handlers, of
\* the script, of signals or of the arrival of requests.
Fairness ==
    /\ WF_vars(take) /\ WF_vars(deliver_ack) /\ WF_vars(loop_stop)
    /\ WF_vars(grace_expired) /\ WF_vars(drain_cancel) /\ WF_vars(drain_join)
    /\ \A r \in Requests : WF_vars(wake(r)) /\ WF_vars(timeout(r)) /\ SF_vars(send(r))

Spec == Init /\ [][Next]_vars /\ Fairness

\* What nobody guarantees: every handler is polled, and returns.
HandlersReturn == \A r \in Requests : WF_vars(call(r)) /\ WF_vars(finish(r))

----------------------------------------------------------------------------
(* Properties *)

\* Every variable has its type, and the channel stays within its capacity.
TypeOK ==
    /\ table \in [Keys -> Regs \cup {Nobody}]
    /\ handlers \in [Keys -> {"none", "lua", "host"}]
    /\ reg \in [Regs -> {"idle", "loaded", "ok", "refused"}]
    /\ loop \in {"home", "ready", "busy", "exited"}
    /\ shutdown \in BOOLEAN
    /\ host \in {"script", "draining", "joined", "down"}
    /\ queue \in Seq(Requests) /\ Len(queue) <= Capacity
    /\ current \in Requests \cup {Nobody}
    /\ req \in [Requests -> Request]

\* "One handler at a time": whatever is queued, timed out or shutting down, no
\* two handlers' tasks are alive together (EventBus::dispatch awaits the join),
\* a handler the grace window left behind included.
OneHandlerAtATime ==
    Cardinality({r \in Requests : req[r].task \in {"spawned", "running"}}) <= 1

\* An answer is the truth about the handler: ok means it returned, and a
\* request told that the bus is closed, or denied, never reached a handler, so
\* trying it again elsewhere repeats nothing (http_source::handle).
AnswersAreTrue ==
    \A r \in Requests :
        /\ req[r].answer = "ok" => req[r].task = "ok"
        /\ req[r].answer \in {"closed", "denied"} => req[r].task = "none"
        /\ req[r].answer = "error" => req[r].task \in {"none", "error"}

\* A key the EventBus dispatches to Lua has its function on the handler Isle:
\* no interleaving of bus.on calls and bus.serve makes __bus_dispatch fail with
\* "no Lua handler" (bus.on loads before it registers).
RegisteredIsCallable ==
    \A k \in Keys : handlers[k] = "lua" => table[k] # Nobody

\* Once the token is cancelled no handler is started, however many events are
\* queued (the biased select of EventBus::run).
NoStartAfterShutdown ==
    [][shutdown => \A r \in Requests : req[r].task = "none" => req'[r].task = "none"]_vars

\* The bus lets go: after the token is cancelled bus.serve returns, or the host
\* stops waiting for the loop, even if the handler in flight never does
\* (run_with_grace, drain_auto_serve).
StopsInTime == shutdown ~> (loop = "exited" \/ host \in {"joined", "down"})

\* A request in the channel is answered, whatever its handler does: by the ack,
\* by its loss, or by the timeout (http_source::handle).
SentIsAnswered ==
    \A r \in Requests : (req[r].at = "waiting") ~> (req[r].at = "done")

\* With handlers that return, backpressure ends: a source blocked on a full
\* channel gets in, or learns that the bus is gone, once somebody serves.
SendersGetThrough ==
    HandlersReturn =>
        \A r \in Requests :
            (req[r].at = "sending" /\ loop # "home") ~> (req[r].at = "done")

\* At every moment of a bus: the state has its types and the channel its bound, no two handlers'
\* tasks are alive together, and what the loop dispatches to is there to be called.
BusInv == TypeOK /\ OneHandlerAtATime /\ RegisteredIsCallable

\* Nobody waits for ever on an auto-served bus: the host lets go of a handler that does not
\* return, a request in the channel is answered, and a blocked source gets through.
NobodyWaitsForever == StopsInTime /\ SentIsAnswered /\ SendersGetThrough
=============================================================================
