----------------------------- MODULE McpClient -----------------------------
(***************************************************************************)
(* The MCP client: the manager of connections (agent-block-mcp/src/lib.rs) *)
(* behind the read-write lock of the `mcp.*` bridge (bridge/mcp.rs), and   *)
(* the handler of what servers send on their own (handler.rs).             *)
(*                                                                         *)
(* A request holds the lock for reading across its round trip, a connect   *)
(* or a disconnect holds it for writing across its own, and the lock is    *)
(* fair: a writer that waits holds back the readers behind it.  A server   *)
(* that serves a request may ask the client for a sample first, and the    *)
(* Lua handler of that may make a request of its own: it then waits behind *)
(* a writer that waits for the first request, which waits for it.  Only    *)
(* the timeout of a round trip undoes that.                                *)
(***************************************************************************)
EXTENDS Naturals, Sequences, FiniteSets, SequencesExt

CONSTANTS Servers,     \* names of servers
          Tasks,       \* the coroutines of the script
          Handler,     \* the coroutine of the handler VM
          Nobody,      \* no task
          Capacity,    \* NOTIFY_CHANNEL_CAPACITY
          MaxConns,    \* bound: connections made
          Budgets      \* bounds: the calls, asks, bus events, notifications and names of a behaviour

All == Tasks \cup {Handler}

\* The bridge is registered on both VMs, and each has its own tables of functions.
VMs == {"main", "handler"}

Notices == {"progress", "log", "resource_updated", "resource_list", "tool_list",
            "prompt_list"}
Asks == {"sampling", "roots", "elicitation"}
Kinds == Notices \cup Asks

ASSUME McpAssumption ==
    /\ Handler \notin Tasks /\ Nobody \notin All
    /\ Capacity \in Nat \ {0} /\ MaxConns \in Nat \ {0}
    /\ Budgets \subseteq [calls : Nat, asks : Nat, buses : Nat, notes : Nat, conns : Nat,
                          kinds : SUBSET Kinds, names : SUBSET Servers]

VARIABLES kind,       \* the kind of callback this behaviour registers
          servers,    \* [Servers -> the connection in the map, 0 for none]
          traced,     \* the connections made with trace_context
          live,       \* the connections whose service runs
          registry,   \* [Servers -> the marks, and the trace flag]
          callbacks,  \* [Servers -> the VMs whose table has a function for it]
          task,       \* [All -> the call it is in]
          lock,       \* the read-write lock
          asker,      \* the task whose request the handler's sample is for
          channel,    \* the notifications accepted and not delivered
          notices,    \* the notifications accepted, in their callback and delivered
          counts

vars == <<kind, servers, traced, live, registry, callbacks, task, lock, asker, channel,
          notices, counts>>
conns == <<servers, traced, live>>
events == <<channel, notices>>

Idle == [at |-> "idle", op |-> "none", server |-> Nobody, conn |-> 0, inject |-> FALSE]
Reads == {"ask", "call", "tell", "mark"}
Writes == {"connect", "disconnect", "disconnect_all"}

TypeOK ==
    /\ kind \in Kinds
    /\ servers \in [Servers -> 0..MaxConns]
    /\ live \subseteq 1..MaxConns /\ traced \subseteq 1..MaxConns
    /\ registry \in [Servers -> [marked : BOOLEAN, trace_context : BOOLEAN]]
    /\ callbacks \in [Servers -> SUBSET VMs]
    /\ \A t \in All : /\ task[t].at \in {"idle", "run", "flag", "wait", "flight", "closing"}
                      /\ task[t].op \in Reads \cup Writes \cup {"none", "handler"}
    /\ lock.held \subseteq All /\ lock.excl \in BOOLEAN
    /\ asker \in All \cup {Nobody}
    /\ Len(channel) <= Capacity

\* The tables of functions, as the bridge sets them up on each VM.
NoCallbacks == [s \in Servers |-> {}]

Init ==
    /\ \E b \in Budgets : counts = [b EXCEPT !.conns = 0] /\ kind \in b.kinds
    /\ servers = [s \in Servers |-> 0] /\ traced = {} /\ live = {}
    /\ registry = [s \in Servers |-> [marked |-> FALSE, trace_context |-> FALSE]]
    /\ callbacks = NoCallbacks
    /\ task = [t \in All |-> Idle] /\ asker = Nobody
    /\ lock = [held |-> {}, excl |-> FALSE, queue |-> << >>]
    /\ channel = << >> /\ notices = [accepted |-> << >>, running |-> << >>, delivered |-> << >>]

----------------------------------------------------------------------------
(* tokio's RwLock: first come, first served *)

Waiter(t, write) == [task |-> t, write |-> write]

\* Whoever is at the head of the queue and may have the lock has it: the writer alone, or
\* every reader up to the next writer.
Promote(l) ==
    LET writers == {i \in DOMAIN l.queue : l.queue[i].write}
        n == IF writers = {} THEN Len(l.queue) ELSE Min(writers) - 1
        readers == {l.queue[i].task : i \in 1..n}
    IN  IF l.queue = << >> \/ (l.excl /\ l.held # {}) THEN l
        ELSE IF n > 0 THEN [held |-> l.held \cup readers, excl |-> FALSE,
                            queue |-> SubSeq(l.queue, n + 1, Len(l.queue))]
        ELSE IF l.held = {} THEN [held |-> {Head(l.queue).task}, excl |-> TRUE,
                                  queue |-> Tail(l.queue)]
        ELSE l

\* A mistake the runs catch: a write made under the read lock.
AcquireShared(l, t, write) == Promote([l EXCEPT !.queue = Append(@, Waiter(t, FALSE))])

Acquire(l, t, write) == Promote([l EXCEPT !.queue = Append(@, Waiter(t, write))])
Release(l, t) == Promote([l EXCEPT !.held = @ \ {t}])

----------------------------------------------------------------------------
(* Making a call: the bridge asks for the lock *)

\* The script calls when it is idle; the handler VM while it runs a handler.
MayCall(t) ==
    /\ counts.calls > 0
    /\ IF t = Handler THEN task[t].at = "run" ELSE task[t].at = "idle"

Begin(t, op, s, at) ==
    /\ MayCall(t) /\ s \in counts.names
    /\ task' = [task EXCEPT ![t] = [Idle EXCEPT !.at = at, !.op = op, !.server = s]]
    /\ lock' = Acquire(lock, t, op \in Writes)
    /\ counts' = [counts EXCEPT !.calls = @ - 1, !.conns = IF op = "connect" THEN @ + 1 ELSE @]
    /\ UNCHANGED <<kind, conns, registry, asker, events>>

BeginRead(t, op, s) == Begin(t, op, s, "wait") /\ UNCHANGED callbacks

mcp_list_tools(t, s) == BeginRead(t, "ask", s)
mcp_list_resources(t, s) == BeginRead(t, "ask", s)
mcp_list_resource_templates(t, s) == BeginRead(t, "ask", s)
mcp_read_resource(t, s) == BeginRead(t, "ask", s)
mcp_list_prompts(t, s) == BeginRead(t, "ask", s)
mcp_get_prompt(t, s) == BeginRead(t, "ask", s)
mcp_complete(t, s) == BeginRead(t, "ask", s)
mcp_subscribe(t, s) == BeginRead(t, "ask", s)
mcp_unsubscribe(t, s) == BeginRead(t, "ask", s)
mcp_ping(t, s) == BeginRead(t, "ask", s)

\* `call` reads the trace flag under a guard of its own, before it asks for the lock again.
mcp_call(t, s) == Begin(t, "call", s, "flag") /\ UNCHANGED callbacks

mcp_server_info(t, s) == BeginRead(t, "tell", s)
mcp_cancel(t, s) == BeginRead(t, "tell", s)
mcp_notify_roots(t, s) == BeginRead(t, "tell", s)

mcp_connect(t, s) == counts.conns < MaxConns /\ BeginRead(t, "connect", s)
mcp_connect_http(t, s) == counts.conns < MaxConns /\ BeginRead(t, "connect", s)
mcp_disconnect(t, s) == BeginRead(t, "disconnect", s)
manager_disconnect_all(t, s) == BeginRead(t, "disconnect_all", s)

\* A mistake the runs catch: the mark is set before the function is where it is looked for.
MarkFirst(t, s, k) ==
    /\ kind = k /\ Begin(t, "mark", s, "wait") /\ UNCHANGED callbacks

\* Whose table it is: what answers a request runs on the handler VM, whoever registers it;
\* a callback of a notification stays on the VM of the code that registers it.
Table(t, k) == IF k \in Asks \/ t = Handler THEN "handler" ELSE "main"

\* The function goes into its table first (through `isle.exec` for an answer, where loading
\* it may fail); then the one mark of the server is set, under a guard.
Register(t, s, k) ==
    /\ kind = k /\ Begin(t, "mark", s, "wait")
    /\ callbacks' = [callbacks EXCEPT ![s] = @ \cup {Table(t, k)}]

mcp_on_progress(t, s) == Register(t, s, "progress")
mcp_on_log(t, s) == Register(t, s, "log")
mcp_on_resource_update(t, s) == Register(t, s, "resource_updated")
mcp_on_resources_list_changed(t, s) == Register(t, s, "resource_list")
mcp_on_tools_list_changed(t, s) == Register(t, s, "tool_list")
mcp_on_prompts_list_changed(t, s) == Register(t, s, "prompt_list")
mcp_set_sampling_handler(t, s) == Register(t, s, "sampling")
mcp_set_roots_handler(t, s) == Register(t, s, "roots")
mcp_set_elicitation_handler(t, s) == Register(t, s, "elicitation")

Call(t, s) ==
    \/ mcp_list_tools(t, s) \/ mcp_list_resources(t, s) \/ mcp_list_resource_templates(t, s)
    \/ mcp_read_resource(t, s) \/ mcp_list_prompts(t, s) \/ mcp_get_prompt(t, s)
    \/ mcp_complete(t, s) \/ mcp_subscribe(t, s) \/ mcp_unsubscribe(t, s) \/ mcp_ping(t, s)
    \/ mcp_call(t, s) \/ mcp_server_info(t, s) \/ mcp_cancel(t, s) \/ mcp_notify_roots(t, s)
    \/ mcp_connect(t, s) \/ mcp_connect_http(t, s) \/ mcp_disconnect(t, s)
    \/ manager_disconnect_all(t, s)
    \/ mcp_on_progress(t, s) \/ mcp_on_log(t, s) \/ mcp_on_resource_update(t, s)
    \/ mcp_on_resources_list_changed(t, s) \/ mcp_on_tools_list_changed(t, s)
    \/ mcp_on_prompts_list_changed(t, s)
    \/ mcp_set_sampling_handler(t, s) \/ mcp_set_roots_handler(t, s)
    \/ mcp_set_elicitation_handler(t, s)

----------------------------------------------------------------------------
(* Under the lock *)

Has(t, op) == t \in lock.held /\ task[t].op = op /\ task[t].at = "wait"

\* The call returns; in the handler VM, to the Lua function that made it.
Finish(t) ==
    /\ task' = [task EXCEPT ![t] = IF t = Handler
                                   THEN [Idle EXCEPT !.at = "run", !.op = "handler"]
                                   ELSE Idle]
    /\ lock' = Release(lock, t)

\* The trace flag of the name, whoever connected it; then the lock again, from the back.
trace_context_enabled(t) ==
    /\ t \in lock.held /\ task[t].at = "flag"
    /\ task' = [task EXCEPT ![t].at = "wait",
                            ![t].inject = registry[task[t].server].trace_context]
    /\ lock' = Acquire(Release(lock, t), t, FALSE)
    /\ UNCHANGED <<kind, conns, registry, callbacks, asker, events, counts>>

\* The round trip begins with a look-up; an unknown name, or arguments that are not an
\* object, end it.
Lookup(t, op, mayRefuse) ==
    /\ Has(t, op)
    /\ \/ /\ servers[task[t].server] # 0
          /\ task' = [task EXCEPT ![t].at = "flight", ![t].conn = servers[task[t].server]]
          /\ UNCHANGED lock
       \/ (mayRefuse \/ servers[task[t].server] = 0) /\ Finish(t)
    /\ UNCHANGED <<kind, conns, registry, callbacks, asker, events, counts>>

list_tools(t) == Lookup(t, "ask", FALSE)
list_resources(t) == Lookup(t, "ask", FALSE)
list_resource_templates(t) == Lookup(t, "ask", FALSE)
read_resource(t) == Lookup(t, "ask", FALSE)
list_prompts(t) == Lookup(t, "ask", FALSE)
subscribe(t) == Lookup(t, "ask", FALSE)
unsubscribe(t) == Lookup(t, "ask", FALSE)
ping(t) == Lookup(t, "ask", FALSE)
get_prompt(t) == Lookup(t, "ask", TRUE)
complete(t) == Lookup(t, "ask", TRUE)
call_tool(t) == Lookup(t, "call", TRUE)

\* The server answers, once it has what it asked for; or the transport fails.
Answer(t) ==
    /\ task[t].at = "flight" /\ task[t].op \in {"ask", "call"} /\ asker # t
    /\ Finish(t)
    /\ UNCHANGED <<kind, conns, registry, callbacks, asker, events, counts>>

\* A mistake the runs catch: a round trip without a bound.
NoTimeout(t) == FALSE /\ UNCHANGED vars

\* rpc_timeout: the wait is given up, whatever the server is doing.
Timeout(t) ==
    /\ task[t].at = "flight" /\ task[t].op \in {"ask", "call"}
    /\ Finish(t)
    /\ UNCHANGED <<kind, conns, registry, callbacks, asker, events, counts>>

\* What needs no answer: it is read, or sent by a task of its own.
Tell(t) ==
    /\ Has(t, "tell") /\ Finish(t)
    /\ UNCHANGED <<kind, conns, registry, callbacks, asker, events, counts>>

server_info(t) == Tell(t)
send_cancelled(t) == Tell(t)
notify_roots_list_changed(t) == Tell(t)

Mark(t, k) ==
    /\ kind = k /\ Has(t, "mark") /\ Finish(t)
    /\ registry' = [registry EXCEPT ![task[t].server].marked = TRUE]
    /\ UNCHANGED <<kind, conns, callbacks, asker, events, counts>>

mark_on_progress(t) == Mark(t, "progress")
mark_on_log(t) == Mark(t, "log")
mark_on_resource_updated(t) == Mark(t, "resource_updated")
mark_on_resource_list_changed(t) == Mark(t, "resource_list")
mark_on_tool_list_changed(t) == Mark(t, "tool_list")
mark_on_prompt_list_changed(t) == Mark(t, "prompt_list")
mark_sampling(t) == Mark(t, "sampling")
mark_roots(t) == Mark(t, "roots")
mark_elicitation(t) == Mark(t, "elicitation")

Registered(t) ==
    \/ mark_on_progress(t) \/ mark_on_log(t) \/ mark_on_resource_updated(t)
    \/ mark_on_resource_list_changed(t) \/ mark_on_tool_list_changed(t)
    \/ mark_on_prompt_list_changed(t) \/ mark_sampling(t) \/ mark_roots(t)
    \/ mark_elicitation(t)

----------------------------------------------------------------------------
(* Connecting and disconnecting: the lock for writing, across the handshake *)

set_trace_context(s, on) == registry' = [registry EXCEPT ![s].trace_context = on]

\* The connection that is next: one no name and no task has.
Fresh == {c \in 1..MaxConns \ live : \A d \in 1..MaxConns \ live : c <= d}

\* The flag is set before the handshake, and stays if the handshake fails.
Handshake(t, spawned) ==
    /\ Has(t, "connect")
    /\ \/ /\ spawned /\ Finish(t) /\ UNCHANGED <<registry, traced, live>>
       \/ \E on \in BOOLEAN, c \in Fresh :
             /\ set_trace_context(task[t].server, on)
             /\ traced' = IF on THEN traced \cup {c} ELSE traced \ {c}
             /\ live' = live \cup {c}
             /\ task' = [task EXCEPT ![t].at = "flight", ![t].conn = c]
             /\ UNCHANGED lock
    /\ UNCHANGED <<kind, servers, callbacks, asker, events, counts>>

\* A child process may fail to start before anything was noted; an HTTP server has none.
connect(t) == Handshake(t, TRUE)
connect_http(t) == Handshake(t, FALSE)

\* A mistake the runs catch: the connection under the name is left to itself.
InsertBeside(t) ==
    /\ servers' = [servers EXCEPT ![task[t].server] = task[t].conn] /\ UNCHANGED live

\* `insert` drops the connection the name had.
Insert(t) ==
    /\ servers' = [servers EXCEPT ![task[t].server] = task[t].conn]
    /\ live' = live \ {servers[task[t].server]}

\* The handshake ends with a connection, or fails or times out and the service is dropped.
Connected(t) ==
    /\ task[t].at = "flight" /\ task[t].op = "connect" /\ Finish(t)
    /\ \/ Insert(t)
       \/ live' = live \ {task[t].conn} /\ UNCHANGED servers
    /\ UNCHANGED <<kind, traced, registry, callbacks, asker, events, counts>>

\* The entry goes before the cancel is awaited.
TakeOut(t, s) ==
    /\ servers' = [servers EXCEPT ![s] = 0]
    /\ task' = [task EXCEPT ![t].at = "closing", ![t].conn = servers[s]]
    /\ UNCHANGED lock

disconnect(t) ==
    LET s == task[t].server IN
    /\ Has(t, "disconnect")
    /\ IF servers[s] = 0 THEN Finish(t) /\ UNCHANGED servers ELSE TakeOut(t, s)
    /\ UNCHANGED <<kind, traced, live, registry, callbacks, asker, events, counts>>

disconnect_all(t) ==
    /\ Has(t, "disconnect_all")
    /\ IF \A s \in Servers : servers[s] = 0
       THEN Finish(t) /\ UNCHANGED servers
       ELSE \E s \in Servers : servers[s] # 0 /\ TakeOut(t, s)
    /\ UNCHANGED <<kind, traced, live, registry, callbacks, asker, events, counts>>

\* Mistakes the runs catch: the first failure ends the loop; a cancel that fails is left.
StopAtFailure(t) ==
    /\ task[t].at = "closing" /\ live' = live \ {task[t].conn} /\ Finish(t)
    /\ UNCHANGED <<kind, servers, traced, registry, callbacks, asker, events, counts>>

\* The cancel is acknowledged, fails or times out: the service is dropped in each case, and
\* disconnect_all goes on to the next.
Cancelled(t) ==
    /\ task[t].at = "closing" /\ live' = live \ {task[t].conn}
    /\ IF task[t].op = "disconnect" THEN Finish(t)
       ELSE task' = [task EXCEPT ![t].at = "wait", ![t].conn = 0] /\ UNCHANGED lock
    /\ UNCHANGED <<kind, servers, traced, registry, callbacks, asker, events, counts>>

----------------------------------------------------------------------------
(* What a server asks of the client *)

\* While it serves a request of t.  Without a mark the client answers at once (an error,
\* or Decline for an elicitation); with one the Lua handler runs.
Ask(t, k) ==
    /\ kind = k /\ counts.asks > 0
    /\ task[t].at = "flight" /\ task[t].op \in {"ask", "call"} /\ t # Handler
    /\ registry[task[t].server].marked
    /\ task[Handler].at = "idle"
    /\ task' = [task EXCEPT ![Handler] = [Idle EXCEPT !.at = "run", !.op = "handler"]]
    /\ asker' = t /\ counts' = [counts EXCEPT !.asks = @ - 1]
    /\ UNCHANGED <<kind, conns, registry, callbacks, lock, events>>

create_message(t) == Ask(t, "sampling")
list_roots(t) == Ask(t, "roots")
create_elicitation(t) == Ask(t, "elicitation")

\* The bus dispatches an event to a handler of the script (EventBus), which may use `mcp.*`.
bus_dispatch ==
    /\ counts.buses > 0 /\ task[Handler].at = "idle"
    /\ task' = [task EXCEPT ![Handler] = [Idle EXCEPT !.at = "run", !.op = "handler"]]
    /\ asker' = Nobody /\ counts' = [counts EXCEPT !.buses = @ - 1]
    /\ UNCHANGED <<kind, conns, registry, callbacks, lock, events>>

\* The handler returns, and a server that had asked goes on.
Served ==
    /\ task[Handler].at = "run"
    /\ task' = [task EXCEPT ![Handler] = Idle] /\ asker' = Nobody
    /\ UNCHANGED <<kind, conns, registry, callbacks, lock, events, counts>>

----------------------------------------------------------------------------
(* What a server tells the client *)

\* Mistakes the runs catch: a full channel grows; a task for each notification.
Accept(item) ==
    /\ channel' = Append(channel, item)
    /\ notices' = [notices EXCEPT !.accepted = Append(@, item)]

SpawnEach ==
    /\ channel # << >> /\ channel' = Tail(channel)
    /\ notices' = [notices EXCEPT !.running = Append(@, Head(channel))]
    /\ UNCHANGED <<kind, conns, registry, callbacks, task, lock, asker, counts>>

\* Onto the channel, or dropped when it is full.
try_send(item) == IF Len(channel) < Capacity THEN Accept(item) ELSE UNCHANGED events

\* A notification without a mark is dropped.
Notify(k, c) ==
    LET s == CHOOSE n \in Servers : servers[n] = c
        item == [server |-> s, n |-> counts.notes]
    IN
    /\ kind = k /\ counts.notes > 0 /\ \E n \in Servers : servers[n] = c
    /\ counts' = [counts EXCEPT !.notes = @ - 1]
    /\ IF registry[s].marked THEN try_send(item) ELSE UNCHANGED events
    /\ UNCHANGED <<kind, conns, registry, callbacks, task, lock, asker>>

on_progress(c) == Notify("progress", c)
on_logging_message(c) == Notify("log", c)
on_resource_updated(c) == Notify("resource_updated", c)
on_resource_list_changed(c) == Notify("resource_list", c)
on_tool_list_changed(c) == Notify("tool_list", c)
on_prompt_list_changed(c) == Notify("prompt_list", c)

Told(c) ==
    \/ on_progress(c) \/ on_logging_message(c) \/ on_resource_updated(c)
    \/ on_resource_list_changed(c) \/ on_tool_list_changed(c) \/ on_prompt_list_changed(c)

\* The dispatch task: one item, awaited on the main VM, before the next.  What it calls is
\* in that VM's table; without one the call returns at once (CallbackEnds) and says nothing.
start_dispatch_task ==
    /\ channel # << >> /\ notices.running = << >>
    /\ channel' = Tail(channel)
    /\ notices' = [notices EXCEPT !.running = <<Head(channel)>>]
    /\ UNCHANGED <<kind, conns, registry, callbacks, task, lock, asker, counts>>

\* The callback returns, or raises: the error is logged and the loop goes on.
CallbackEnds(i) ==
    /\ notices' = [notices EXCEPT !.running = RemoveAt(@, i),
                                  !.delivered = Append(@, notices.running[i])]
    /\ UNCHANGED <<kind, conns, registry, callbacks, task, lock, asker, channel, counts>>

----------------------------------------------------------------------------
Answers(t) ==
    \/ trace_context_enabled(t)
    \/ list_tools(t) \/ list_resources(t) \/ list_resource_templates(t) \/ read_resource(t)
    \/ list_prompts(t) \/ subscribe(t) \/ unsubscribe(t) \/ ping(t) \/ get_prompt(t)
    \/ complete(t) \/ call_tool(t)
    \/ server_info(t) \/ send_cancelled(t) \/ notify_roots_list_changed(t) \/ Registered(t)
    \/ connect(t) \/ connect_http(t) \/ Connected(t)
    \/ disconnect(t) \/ disconnect_all(t) \/ Cancelled(t)

Next ==
    \/ \E t \in All : (\E s \in Servers : Call(t, s)) \/ Answers(t) \/ Answer(t) \/ Timeout(t)
    \/ \E t \in All : create_message(t) \/ list_roots(t) \/ create_elicitation(t)
    \/ bus_dispatch \/ Served \/ start_dispatch_task
    \/ \E i \in DOMAIN notices.running : CallbackEnds(i)
    \/ \E c \in live : Told(c)

\* Everything under the lock is bounded by rpc_timeout; a Lua handler that is not waiting
\* comes back.  Whether a server answers is its own affair.
Fairness ==
    /\ \A t \in All : WF_vars(Answers(t)) /\ WF_vars(Timeout(t))
    /\ WF_vars(Served) /\ WF_vars(start_dispatch_task)
    /\ WF_vars(\E i \in DOMAIN notices.running : CallbackEnds(i))

Spec == Init /\ [][Next]_vars /\ Fairness

----------------------------------------------------------------------------
(* Properties *)

\* A request in flight keeps its connection: neither a disconnect nor a connect under the
\* same name takes it away before the answer or the timeout.
FlightKeepsConnection ==
    \A t \in All :
       task[t].at = "flight" /\ task[t].op \in {"ask", "call"} =>
          task[t].conn \in live /\ servers[task[t].server] = task[t].conn

\* No connection is left running that the map does not hold, except the one a connect or
\* a disconnect has in hand: a replaced or a cancelled one is never left behind.
NoOrphans ==
    live \subseteq {servers[s] : s \in Servers}
                      \cup {task[t].conn : t \in {u \in All : task[u].op \in Writes}}

\* A request is answered by the handler VM's function.  A notification is given to the main
\* VM, whose table has the function unless it was a handler that registered it.
Callable(s) ==
    IF kind \in Asks THEN "handler" \in callbacks[s]
                     ELSE "main" \in callbacks[s] \/ "handler" \in callbacks[s]

\* A mark is only set once the function is in the table of its VM: a request a server sends
\* never meets a mark without the function that answers it, and a notification does only
\* where the callback was registered from the handler VM.
MarkedIsCallable == \A s \in Servers : registry[s].marked => Callable(s)

\* Notifications are delivered in the order they were accepted, each once; what was dropped
\* is what found the channel full.
DeliveredInOrder ==
    notices.accepted = notices.delivered \o notices.running \o channel

\* disconnect_all does not return while a connection is left, whatever failed on the way.
AllMeansAll ==
    [][\A t \in All : task[t].op = "disconnect_all" /\ task'[t].op # "disconnect_all" =>
          \A s \in Servers : servers'[s] = 0]_vars

\* Every call returns: no cycle of the lock, a writer and the handler of a sample outlasts
\* the timeout of a round trip.
CallsReturn ==
    \A t \in All : task[t].at \in {"wait", "flag"} ~> task[t].at \in {"idle", "run"}

\* Connections and registrations stay whole under the lock: a call keeps its connection, none is
\* left without an owner, and no mark is set before its function is in a table.
ConnectionsWhole == TypeOK /\ FlightKeepsConnection /\ NoOrphans /\ MarkedIsCallable
=============================================================================
