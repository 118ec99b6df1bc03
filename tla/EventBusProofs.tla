---------------------------- MODULE EventBusProofs ----------------------------
(***************************************************************************)
(* The safety theorems of EventBus: its invariant (types, a bounded        *)
(* channel, one handler at a time, a registered key is callable), answers  *)
(* that are the truth about the handler, and no handler started after      *)
(* the token is cancelled.                                                 *)
(*                                                                         *)
(* None of them is inductive by itself.  What carries them is where a      *)
(* request can be: not sent yet, in the channel (once, no handler has seen *)
(* it, nothing was acked), in dispatch (the one request whose handler the  *)
(* loop awaits), or past it.                                               *)
(***************************************************************************)
EXTENDS EventBus, SequenceTheorems, FiniteSetTheorems, TLAPS

----------------------------------------------------------------------------
(* The inductive invariant *)

\* A function that bus.on has loaded, registered yet or not, is in the table.
LoadedIsThere == \A g \in Regs : reg[g] = "loaded" => table[KeyOf[g]] # Nobody

\* What one request x says is consistent: nothing happened to it before it was
\* sent, and neither its ack nor its answer contradicts its handler's end.
Consistent(x) ==
    /\ x.at \in {"new", "sending"} =>
         x.task = "none" /\ x.ack = "none" /\ x.answer = "none"
    /\ x.ack = "ok" => x.task = "ok"
    /\ x.ack = "error" => x.task \in {"none", "error"}
    /\ x.answer = "ok" => x.task = "ok"
    /\ x.answer = "error" => x.task \in {"none", "error"}
    /\ x.answer \in {"closed", "denied"} => x.task = "none"

\* Sent, and nothing has been acked: its source waits, gave up, or never waited.
InFlight(x) ==
    /\ x.at \in {"waiting", "done"}
    /\ x.ack \in {"none", "open"}
    /\ x.answer \in {"none", "sent", "timeout"}

\* The channel holds a request at most once, and none that a handler has seen.
ChannelOK ==
    /\ \A i \in 1 .. Len(queue) : InFlight(req[queue[i]]) /\ req[queue[i]].task = "none"
    /\ \A i, j \in 1 .. Len(queue) : queue[i] = queue[j] => i = j

\* The request in dispatch has its handler's task and still its ack.
DispatchOK ==
    loop = "busy" => /\ current \in Requests
                     /\ InFlight(req[current]) /\ req[current].task # "none"

\* A handler's task is alive.
Alive(r) == req[r].task \in {"spawned", "running"}

\* No task outlives its dispatch while the loop can start another one.
AliveOK ==
    /\ loop \in {"home", "ready"} => \A r \in Requests : ~Alive(r)
    /\ loop = "busy" => \A r \in Requests : Alive(r) => r = current
    /\ \A r, s \in Requests : Alive(r) /\ Alive(s) => r = s

IInv == /\ TypeOK /\ RegisteredIsCallable /\ LoadedIsThere
        /\ \A r \in Requests : Consistent(req[r])
        /\ ChannelOK /\ DispatchOK /\ AliveOK

----------------------------------------------------------------------------
(* What the steps do to a request, field by field *)

\* Request r has these fields after the step, and no other request changes.
Sets(r, at, ack, answer, task) ==
    /\ req' \in [Requests -> Request]
    /\ \A s \in Requests \ {r} : req'[s] = req[s]
    /\ req'[r].at = at /\ req'[r].ack = ack /\ req'[r].answer = answer /\ req'[r].task = task

\* A request that becomes y has the fields of y.
LEMMA Update ==
    ASSUME TypeOK, NEW r \in Requests, NEW y \in Request, req' = [req EXCEPT ![r] = y]
    PROVE  Sets(r, y.at, y.ack, y.answer, y.task)
BY DEF TypeOK, Sets

\* The same for a record given as what it was and what is set in it.
LEMMA UpdateTo ==
    ASSUME TypeOK, NEW r \in Requests, NEW y \in Request, req' = [req EXCEPT ![r] = y],
           NEW at, NEW ack, NEW answer, NEW task,
           y.at = at, y.ack = ack, y.answer = answer, y.task = task
    PROVE  Sets(r, at, ack, answer, task)
BY Update

\* arrive, emit: the request is being sent, or denied.
LEMMA ArriveDoes ==
    ASSUME TypeOK, NEW r \in Requests, arrive(r) \/ emit(r)
    PROVE  /\ req[r].at = "new"
           /\ \/ Sets(r, "sending", req[r].ack, req[r].answer, req[r].task)
              \/ Sets(r, "done", req[r].ack, "denied", req[r].task)
<1> DEFINE x == req[r]
<1>1. x \in Request
  BY DEF TypeOK
<1>2. ASSUME NEW y, y = [x EXCEPT !.at = "sending"]
      PROVE  /\ y \in Request /\ y.at = "sending" /\ y.ack = x.ack /\ y.answer = x.answer
             /\ y.task = x.task
  BY <1>1, <1>2 DEF Request
<1>3. ASSUME NEW y, y = [x EXCEPT !.at = "done", !.answer = "denied"]
      PROVE  /\ y \in Request /\ y.at = "done" /\ y.ack = x.ack /\ y.answer = "denied"
             /\ y.task = x.task
  BY <1>1, <1>3 DEF Request
<1>4. \/ req' = [req EXCEPT ![r] = [x EXCEPT !.at = "sending"]]
      \/ req' = [req EXCEPT ![r] = [x EXCEPT !.at = "done", !.answer = "denied"]]
  BY DEF arrive, emit, TypeOK
<1>5. x.at = "new"
  BY DEF arrive, emit
<1> HIDE DEF x
<1>6. QED
  BY <1>2, <1>3, <1>4, <1>5, UpdateTo DEF x

\* send: refused by a bus that is gone, or in the channel.
LEMMA SendDoes ==
    ASSUME TypeOK, NEW r \in Requests, send(r)
    PROVE  /\ req[r].at = "sending"
           /\ \/ /\ loop = "exited" /\ UNCHANGED queue
                 /\ Sets(r, "done", req[r].ack, "closed", req[r].task)
              \/ /\ loop # "exited" /\ Len(queue) < Capacity /\ queue' = Append(queue, r)
                 /\ \/ Sets(r, "done", req[r].ack, "sent", req[r].task)
                    \/ Sets(r, "waiting", "open", req[r].answer, req[r].task)
<1> DEFINE x == req[r]
<1>1. x \in Request
  BY DEF TypeOK
<1>2. ASSUME NEW y, y = [x EXCEPT !.at = "done", !.answer = "closed"]
      PROVE  /\ y \in Request /\ y.at = "done" /\ y.ack = x.ack /\ y.answer = "closed"
             /\ y.task = x.task
  BY <1>1, <1>2 DEF Request
<1>3. ASSUME NEW y, y = [x EXCEPT !.at = "done", !.answer = "sent"]
      PROVE  /\ y \in Request /\ y.at = "done" /\ y.ack = x.ack /\ y.answer = "sent"
             /\ y.task = x.task
  BY <1>1, <1>3 DEF Request
<1>4. ASSUME NEW y, y = [x EXCEPT !.at = "waiting", !.ack = "open"]
      PROVE  /\ y \in Request /\ y.at = "waiting" /\ y.ack = "open" /\ y.answer = x.answer
             /\ y.task = x.task
  BY <1>1, <1>4 DEF Request
<1>5. x.at = "sending"
  BY DEF send
<1>6. CASE loop = "exited"
  <2>1. /\ req' = [req EXCEPT ![r] = [x EXCEPT !.at = "done", !.answer = "closed"]]
        /\ UNCHANGED queue
    BY <1>6 DEF send, TypeOK
  <2> HIDE DEF x
  <2>2. QED
    BY <1>2, <1>5, <1>6, <2>1, UpdateTo DEF x
<1>7. CASE loop # "exited"
  <2>1. /\ Len(queue) < Capacity /\ queue' = Append(queue, r)
        /\ req' = [req EXCEPT ![r] =
                     IF r \in Emits THEN [x EXCEPT !.at = "done", !.answer = "sent"]
                                    ELSE [x EXCEPT !.at = "waiting", !.ack = "open"]]
    BY <1>7 DEF send, TypeOK
  <2>2. \/ req' = [req EXCEPT ![r] = [x EXCEPT !.at = "done", !.answer = "sent"]]
        \/ req' = [req EXCEPT ![r] = [x EXCEPT !.at = "waiting", !.ack = "open"]]
    BY <2>1
  <2> HIDE DEF x
  <2>3. QED
    BY <1>3, <1>4, <1>5, <1>7, <2>1, <2>2, UpdateTo DEF x
<1>8. QED
  BY <1>6, <1>7

\* wake, timeout: the answer is what was acked, or that the time is over.
LEMMA WakeDoes ==
    ASSUME TypeOK, NEW r \in Requests, wake(r) \/ timeout(r)
    PROVE  /\ req[r].at = "waiting" /\ req[r].ack \in {"none", "open", "ok", "error", "dropped"}
           /\ \/ /\ req[r].ack # "open"
                 /\ Sets(r, "done", req[r].ack, req[r].ack, req[r].task)
              \/ Sets(r, "done", req[r].ack, "timeout", req[r].task)
<1> DEFINE x == req[r]
<1>1. x \in Request /\ x.at = "waiting"
  BY DEF TypeOK, wake, timeout
<1>2. ASSUME NEW y, y = [x EXCEPT !.at = "done", !.answer = x.ack], x.ack # "open"
      PROVE  /\ y \in Request /\ y.at = "done" /\ y.ack = x.ack /\ y.answer = x.ack
             /\ y.task = x.task
  BY <1>1, <1>2 DEF Request
<1>3. ASSUME NEW y, y = [x EXCEPT !.at = "done", !.answer = "timeout"]
      PROVE  /\ y \in Request /\ y.at = "done" /\ y.ack = x.ack /\ y.answer = "timeout"
             /\ y.task = x.task
  BY <1>1, <1>3 DEF Request
<1>4. \/ /\ x.ack # "open" /\ req' = [req EXCEPT ![r] = [x EXCEPT !.at = "done", !.answer = x.ack]]
      \/ req' = [req EXCEPT ![r] = [x EXCEPT !.at = "done", !.answer = "timeout"]]
  BY DEF wake, timeout, TypeOK
<1>5. x.ack \in {"none", "open", "ok", "error", "dropped"}
  BY <1>1 DEF Request
<1> HIDE DEF x
<1>6. QED
  BY <1>1, <1>2, <1>3, <1>4, <1>5, UpdateTo DEF x

\* call, finish: the handler's task goes on, or ends.
LEMMA HandlerDoes ==
    ASSUME TypeOK, NEW r \in Requests, call(r) \/ finish(r)
    PROVE  /\ req[r].task \in {"spawned", "running"}
           /\ \E t \in {"running", "ok", "error"} :
                 Sets(r, req[r].at, req[r].ack, req[r].answer, t)
<1> DEFINE x == req[r]
           target == LuaTarget(KindOf[r])
<1>1. x \in Request /\ x.task \in {"spawned", "running"}
  BY DEF TypeOK, call, finish
<1>2. target \in Regs \cup {Nobody}
  BY BusAssumption DEF LuaTarget, TypeOK, Keys
<1>3. ASSUME NEW t \in {"running", "ok", "error"}, NEW y, y = [x EXCEPT !.task = t]
      PROVE  /\ y \in Request /\ y.at = x.at /\ y.ack = x.ack /\ y.answer = x.answer
             /\ y.task = t
  BY <1>1, <1>3 DEF Request
<1>4. ASSUME NEW y, y = [x EXCEPT !.task = "running", !.ran = target]
      PROVE  /\ y \in Request /\ y.at = x.at /\ y.ack = x.ack /\ y.answer = x.answer
             /\ y.task = "running"
  <2> HIDE DEF target
  <2>1. QED
    BY <1>1, <1>2, <1>4 DEF Request
<1>5. \/ \E t \in {"running", "ok", "error"} : req' = [req EXCEPT ![r] = [x EXCEPT !.task = t]]
      \/ req' = [req EXCEPT ![r] = [x EXCEPT !.task = "running", !.ran = target]]
  <2>1. CASE call(r)
    BY <2>1 DEF call, TypeOK
  <2>2. CASE finish(r)
    BY <2>2 DEF finish, TypeOK
  <2>3. QED
    BY <2>1, <2>2
<1> HIDE DEF x, target
<1>6. QED
  BY <1>1, <1>3, <1>4, <1>5, UpdateTo DEF x

\* take: nacked for want of a handler, or in dispatch with a task of its own.
LEMMA TakeDoes ==
    ASSUME TypeOK, take
    PROVE  LET r == Head(queue) IN
           /\ r \in Requests
           /\ \/ /\ UNCHANGED <<loop, current>>
                 /\ \E a \in {"error", req[r].ack} :
                       Sets(r, req[r].at, a, req[r].answer, req[r].task)
              \/ /\ loop' = "busy" /\ current' = r
                 /\ Sets(r, req[r].at, req[r].ack, req[r].answer, "spawned")
<1> DEFINE r == Head(queue)
           x == req[r]
<1>1. r \in Requests
  BY DEF TypeOK, take
<1>2. x \in Request
  BY <1>1 DEF TypeOK
<1>3. ASSUME NEW a \in {"error", x.ack}, NEW y, y = [x EXCEPT !.ack = a]
      PROVE  /\ y \in Request /\ y.at = x.at /\ y.ack = a /\ y.answer = x.answer
             /\ y.task = x.task
  BY <1>2, <1>3 DEF Request
<1>4. ASSUME NEW y, y = [x EXCEPT !.task = "spawned"]
      PROVE  /\ y \in Request /\ y.at = x.at /\ y.ack = x.ack /\ y.answer = x.answer
             /\ y.task = "spawned"
  BY <1>2, <1>4 DEF Request
<1>5. CASE HandlerOf(KindOf[r]) = "none"
  <2> DEFINE a == IF x.ack = "open" THEN "error" ELSE x.ack
  <2>1. UNCHANGED <<loop, current>> /\ req' = [req EXCEPT ![r] = [x EXCEPT !.ack = a]]
    BY <1>1, <1>5 DEF take, TypeOK
  <2>2. a \in {"error", x.ack}
    OBVIOUS
  <2> HIDE DEF x, r, a
  <2>3. Sets(r, x.at, a, x.answer, x.task)
    BY <1>1, <1>3, <2>1, <2>2, UpdateTo
  <2>4. QED
    BY <1>1, <2>1, <2>2, <2>3 DEF x, r, a
<1>6. CASE HandlerOf(KindOf[r]) # "none"
  <2>1. loop' = "busy" /\ current' = r /\ req' = [req EXCEPT ![r] = [x EXCEPT !.task = "spawned"]]
    BY <1>1, <1>6 DEF take, TypeOK
  <2> HIDE DEF x, r
  <2>2. QED
    BY <1>1, <1>4, <2>1, UpdateTo DEF x, r
<1>7. QED
  BY <1>5, <1>6

\* deliver_ack: the ack, if somebody holds its other end, is how the handler ended.
LEMMA DeliverDoes ==
    ASSUME TypeOK, DispatchOK, deliver_ack
    PROVE  /\ current \in Requests /\ req[current].task \in {"ok", "error"}
           /\ \E a \in {req[current].ack, req[current].task} :
                 Sets(current, req[current].at, a, req[current].answer, req[current].task)
<1> DEFINE x == req[current]
           a == IF x.ack = "open" THEN x.task ELSE x.ack
<1>1. current \in Requests /\ x.task \in {"ok", "error"} /\ x \in Request
  BY DEF TypeOK, DispatchOK, deliver_ack
<1>2. ASSUME NEW y, y = [x EXCEPT !.ack = a]
      PROVE  /\ y \in Request /\ y.at = x.at /\ y.ack = a /\ y.answer = x.answer
             /\ y.task = x.task
  <2>1. a \in {"none", "open", "ok", "error", "dropped"}
    BY <1>1 DEF Request
  <2> HIDE DEF a
  <2>2. QED
    BY <1>1, <1>2, <2>1 DEF Request
<1>3. req' = [req EXCEPT ![current] = [x EXCEPT !.ack = a]]
  BY <1>1 DEF deliver_ack, TypeOK
<1>4. a \in {x.ack, x.task}
  OBVIOUS
<1> HIDE DEF x, a
<1>5. Sets(current, x.at, a, x.answer, x.task)
  BY <1>1, <1>2, <1>3, UpdateTo
<1>6. QED
  BY <1>1, <1>4, <1>5 DEF x

\* A receiver that goes: the acks it held are dropped, and no more.
LEMMA DropDoes ==
    ASSUME TypeOK, NEW rs, req' = Dropped(rs)
    PROVE  /\ req' \in [Requests -> Request]
           /\ \A r \in Requests :
                 /\ req'[r].at = req[r].at /\ req'[r].answer = req[r].answer
                 /\ req'[r].task = req[r].task
                 /\ \/ req'[r].ack = req[r].ack
                    \/ req[r].ack = "open" /\ req'[r].ack = "dropped"
<1>1. ASSUME NEW x \in Request, NEW y, y = [x EXCEPT !.ack = "dropped"]
      PROVE  /\ y \in Request /\ y.at = x.at /\ y.ack = "dropped" /\ y.answer = x.answer
             /\ y.task = x.task
  BY <1>1 DEF Request
<1>2. ASSUME NEW r \in Requests
      PROVE  /\ \/ req'[r] = req[r]
                \/ req[r].ack = "open" /\ req'[r] = [req[r] EXCEPT !.ack = "dropped"]
             /\ req[r] \in Request
  BY DEF Dropped, TypeOK
<1>3. req' = [r \in Requests |-> req'[r]]
  BY DEF Dropped
<1>4. \A r \in Requests : req'[r] \in Request
  BY <1>1, <1>2
<1>5. req' \in [Requests -> Request]
  BY <1>3, <1>4
<1>6. QED
  BY <1>1, <1>2, <1>5

\* The ends of the loop: the channel is empty, nothing is in dispatch.
LEMMA LoopEnds ==
    ASSUME loop_stop \/ grace_expired \/ script_cancelled
    PROVE  /\ \E rs : req' = Dropped(rs)
           /\ queue' = << >> /\ loop' = "exited" /\ current' \in {current, Nobody}
           /\ host' \in {host, "joined"} /\ UNCHANGED <<table, handlers, reg, shutdown>>
BY DEF loop_stop, grace_expired, script_cancelled

\* teardown: a task that was alive is cancelled, and who waited will not know.
LEMMA TeardownDoes ==
    ASSUME TypeOK, teardown
    PROVE  /\ req' \in [Requests -> Request]
           /\ \A r \in Requests :
                 /\ req[r].at \in {"sending", "waiting"} =>
                      req'[r].at = "done" /\ req'[r].answer = "lost"
                 /\ req[r].at \notin {"sending", "waiting"} =>
                      req'[r].at = req[r].at /\ req'[r].answer = req[r].answer
                 /\ req'[r].ack = req[r].ack
                 /\ req[r].task \in {"spawned", "running"} => req'[r].task = "cancelled"
                 /\ req[r].task \notin {"spawned", "running"} => req'[r].task = req[r].task
<1>1. ASSUME NEW r \in Requests
      PROVE  /\ req'[r] \in Request
             /\ req[r].at \in {"sending", "waiting"} =>
              req'[r].at = "done" /\ req'[r].answer = "lost"
             /\ req[r].at \notin {"sending", "waiting"} =>
              req'[r].at = req[r].at /\ req'[r].answer = req[r].answer
             /\ req'[r].ack = req[r].ack
             /\ req[r].task \in {"spawned", "running"} => req'[r].task = "cancelled"
             /\ req[r].task \notin {"spawned", "running"} => req'[r].task = req[r].task
  <2>1. PICK x \in Request : x = req[r]
    BY DEF TypeOK
  <2>2. PICK t : t = IF x.task \in {"spawned", "running"} THEN "cancelled" ELSE x.task
    OBVIOUS
  <2>3. PICK w : w = IF x.at \in {"sending", "waiting"} THEN "lost" ELSE x.answer
    OBVIOUS
  <2>4. PICK a : a = IF x.at \in {"sending", "waiting"} THEN "done" ELSE x.at
    OBVIOUS
  <2>5. PICK y : y = req'[r]
    OBVIOUS
  <2>6. y = [x EXCEPT !.task = t, !.answer = w, !.at = a]
    BY <2>1, <2>2, <2>3, <2>4, <2>5 DEF teardown
  <2>7. t \in {"none", "spawned", "running", "ok", "error", "cancelled"}
    BY <2>2 DEF Request
  <2>8. w \in {"none", "sent", "ok", "error", "dropped", "closed", "timeout", "denied", "lost"}
    BY <2>3 DEF Request
  <2>9. a \in {"new", "sending", "waiting", "done"}
    BY <2>4 DEF Request
  <2>10. y \in Request /\ y.at = a /\ y.answer = w /\ y.task = t /\ y.ack = x.ack
    BY <2>6, <2>7, <2>8, <2>9 DEF Request
  <2>11. QED
    BY <2>1, <2>2, <2>3, <2>4, <2>5, <2>10
<1>2. req' = [r \in Requests |-> req'[r]]
  BY DEF teardown
<1>3. QED
  BY <1>1, <1>2

----------------------------------------------------------------------------
(* Types *)

\* Every step keeps the types, and the channel its bound.
LEMMA TypeStep ==
    ASSUME TypeOK, DispatchOK, [Next]_vars PROVE TypeOK'
<1> USE BusAssumption
<1>1. ASSUME NEW g \in Regs, on_load(g) \/ on_any_load(g) PROVE TypeOK'
  BY <1>1 DEF on_load, on_any_load, Load, TypeOK, Keys
<1>2. ASSUME NEW g \in Regs, on_register(g) PROVE TypeOK'
  BY <1>2 DEF on_register, on, TypeOK, Keys
<1>3. ASSUME NEW r \in Requests, arrive(r) \/ emit(r) PROVE TypeOK'
  BY <1>3, ArriveDoes DEF Sets, arrive, emit, TypeOK
<1>4. ASSUME NEW r \in Requests, send(r) PROVE TypeOK'
  <2>1. req' \in [Requests -> Request]
    BY <1>4, SendDoes DEF Sets
  <2>2. \/ UNCHANGED queue
        \/ queue' = Append(queue, r) /\ Len(queue) < Capacity
    BY <1>4, SendDoes
  <2>3. queue' \in Seq(Requests) /\ Len(queue') <= Capacity
    BY <2>2, SMTT(30) DEF TypeOK
  <2>4. QED
    BY <1>4, <2>1, <2>3 DEF send, TypeOK
<1>5. ASSUME NEW r \in Requests, wake(r) \/ timeout(r) PROVE TypeOK'
  BY <1>5, WakeDoes DEF Sets, wake, timeout, TypeOK
<1>6. ASSUME NEW r \in Requests, call(r) \/ finish(r) PROVE TypeOK'
  BY <1>6, HandlerDoes, ZenonT(40) DEF Sets, call, finish, TypeOK
<1>7. CASE serve \/ signal \/ script_end \/ drain_cancel \/ drain_join
  BY <1>7 DEF serve, signal, script_end, drain_cancel, drain_join, TypeOK
<1>8. CASE take
  <2>1. queue' \in Seq(Requests) /\ Len(queue') <= Capacity
    BY <1>8 DEF take, TypeOK
  <2>2. req' \in [Requests -> Request]
    BY <1>8, TakeDoes DEF Sets
  <2>3. loop' \in {loop, "busy"} /\ current' \in Requests \cup {Nobody}
    BY <1>8, TakeDoes DEF TypeOK
  <2>4. QED
    BY <1>8, <2>1, <2>2, <2>3 DEF take, TypeOK
<1>9. CASE deliver_ack
  BY <1>9, DeliverDoes DEF deliver_ack, Sets, TypeOK
<1>10. CASE loop_stop \/ grace_expired \/ script_cancelled
  <2>1. req' \in [Requests -> Request]
    BY <1>10, LoopEnds, DropDoes
  <2>2. queue' = << >>
    BY <1>10, LoopEnds
  <2>3. queue' \in Seq(Requests) /\ Len(queue') <= Capacity
    BY <2>2
  <2>4. QED
    BY <1>10, <2>1, <2>3, LoopEnds DEF TypeOK
<1>11. CASE teardown
  <2>1. queue' = << >>
    BY <1>11 DEF teardown
  <2>2. queue' \in Seq(Requests) /\ Len(queue') <= Capacity
    BY <2>1
  <2>3. req' \in [Requests -> Request]
    BY <1>11, TeardownDoes
  <2>4. QED
    BY <1>11, <2>2, <2>3 DEF teardown, TypeOK
<1>12. CASE UNCHANGED vars
  BY <1>12 DEF vars, TypeOK
<1>13. QED
  BY <1>1, <1>2, <1>3, <1>4, <1>5, <1>6, <1>7, <1>8, <1>9, <1>10, <1>11, <1>12 DEF Next

----------------------------------------------------------------------------
(* Registration *)

\* A function is in the table before its key is registered, and only another one
\* takes its place.
LEMMA RegistrationStep ==
    ASSUME TypeOK, RegisteredIsCallable, LoadedIsThere, [Next]_vars
    PROVE  RegisteredIsCallable' /\ LoadedIsThere'
<1> USE BusAssumption
<1>1. ASSUME NEW g \in Regs, on_load(g) \/ on_any_load(g)
      PROVE  RegisteredIsCallable' /\ LoadedIsThere'
  BY <1>1 DEF on_load, on_any_load, Load, TypeOK, RegisteredIsCallable, LoadedIsThere
<1>2. ASSUME NEW g \in Regs, on_register(g)
      PROVE  RegisteredIsCallable' /\ LoadedIsThere'
  BY <1>2 DEF on_register, on, TypeOK, RegisteredIsCallable, LoadedIsThere
<1>3. CASE UNCHANGED <<table, handlers, reg>>
  BY <1>3 DEF RegisteredIsCallable, LoadedIsThere
<1>4. QED
  BY <1>1, <1>2, <1>3 DEF Next, vars, arrive, emit, send, wake, timeout, call, finish, serve,
     take, deliver_ack, loop_stop, signal, grace_expired, script_end, script_cancelled,
     drain_cancel, drain_join, teardown

----------------------------------------------------------------------------
(* Requests *)

\* The first request of the channel, which is in no other place of it: what
\* `take` leaves is still in order.
LEMMA HeadOfChannel ==
    ASSUME TypeOK, ChannelOK, queue # << >>
    PROVE  /\ Head(queue) \in Requests /\ Tail(queue) \in Seq(Requests)
           /\ InFlight(req[Head(queue)]) /\ req[Head(queue)].task = "none"
           /\ Len(Tail(queue)) = Len(queue) - 1
           /\ \A i \in 1 .. Len(Tail(queue)) :
                 /\ i + 1 \in 1 .. Len(queue) /\ Tail(queue)[i] = queue[i + 1]
                 /\ Tail(queue)[i] # Head(queue)
<1>1. /\ queue \in Seq(Requests) /\ Len(queue) \in Nat /\ Len(queue) > 0
      /\ Head(queue) = queue[1] /\ 1 \in 1 .. Len(queue)
  BY DEF TypeOK
<1>2. /\ Tail(queue) \in Seq(Requests) /\ Len(Tail(queue)) = Len(queue) - 1
      /\ \A i \in 1 .. Len(Tail(queue)) : Tail(queue)[i] = queue[i + 1]
  BY <1>1, HeadTailProperties
<1>3. ASSUME NEW i \in 1 .. Len(Tail(queue))
      PROVE  i + 1 \in 1 .. Len(queue) /\ queue[i + 1] # queue[1]
  BY <1>1, <1>2 DEF ChannelOK
<1>4. QED
  BY <1>1, <1>2, <1>3 DEF ChannelOK, TypeOK

\* No step makes what a request says inconsistent.
LEMMA ConsistentStep ==
    ASSUME TypeOK, ChannelOK, DispatchOK, \A r \in Requests : Consistent(req[r]), [Next]_vars,
           NEW s \in Requests
    PROVE  Consistent(req'[s])
<1>1. ASSUME NEW r \in Requests, arrive(r) \/ emit(r) PROVE Consistent(req'[s])
  BY <1>1, ArriveDoes DEF Sets, Consistent
<1>2. ASSUME NEW r \in Requests, send(r) PROVE Consistent(req'[s])
  BY <1>2, SendDoes DEF Sets, Consistent
<1>3. ASSUME NEW r \in Requests, wake(r) \/ timeout(r) PROVE Consistent(req'[s])
  BY <1>3, WakeDoes DEF Sets, Consistent
<1>4. ASSUME NEW r \in Requests, call(r) \/ finish(r) PROVE Consistent(req'[s])
  BY <1>4, HandlerDoes DEF Sets, Consistent
<1>5. CASE take
  <2>1. queue # << >>
    BY <1>5 DEF take
  <2>2. QED
    BY <1>5, <2>1, HeadOfChannel, TakeDoes DEF Sets, Consistent, InFlight
<1>6. CASE deliver_ack
  BY <1>6, DeliverDoes DEF deliver_ack, DispatchOK, InFlight, Sets, Consistent
<1>7. CASE loop_stop \/ grace_expired \/ script_cancelled
  BY <1>7, LoopEnds, DropDoes DEF Consistent
<1>8. CASE teardown
  BY <1>8, TeardownDoes DEF Consistent
<1>9. CASE UNCHANGED req
  BY <1>9
<1>10. QED
  BY <1>1, <1>2, <1>3, <1>4, <1>5, <1>6, <1>7, <1>8, <1>9 DEF Next, vars, on_load, on_any_load,
     Load, on_register, serve, signal, script_end, drain_cancel, drain_join

\* No step puts a request into the channel twice, or one that a handler has seen.
LEMMA ChannelStep ==
    ASSUME TypeOK, ChannelOK, DispatchOK, \A r \in Requests : Consistent(req[r]), [Next]_vars
    PROVE  ChannelOK'
<1>1. ASSUME NEW r \in Requests, send(r) PROVE ChannelOK'
  <2>1. \A i \in 1 .. Len(queue) : queue[i] \in Requests /\ queue[i] # r
    BY <1>1, SendDoes DEF ChannelOK, InFlight, TypeOK
  <2>2. \A s \in Requests \ {r} : req'[s] = req[s]
    BY <1>1, SendDoes DEF Sets
  <2>3. CASE loop = "exited"
    BY <1>1, <2>1, <2>2, <2>3, SendDoes DEF ChannelOK
  <2>4. CASE loop # "exited"
    <3>1. queue' = Append(queue, r) /\ queue \in Seq(Requests) /\ Len(queue) \in Nat
      BY <1>1, <2>4, SendDoes DEF TypeOK
    <3>2. /\ Len(queue') = Len(queue) + 1 /\ queue'[Len(queue) + 1] = r
          /\ \A i \in 1 .. Len(queue) : queue'[i] = queue[i]
      BY <3>1, AppendProperties
    <3>3. InFlight(req'[r]) /\ req'[r].task = "none"
      BY <1>1, <2>4, SendDoes DEF Sets, Consistent, InFlight
    <3>4. ASSUME NEW i \in 1 .. Len(queue')
          PROVE  \/ i \in 1 .. Len(queue) /\ queue'[i] = queue[i]
                 \/ i = Len(queue) + 1 /\ queue'[i] = r
      BY <3>1, <3>2
    <3>5. QED
      BY <2>1, <2>2, <3>3, <3>4 DEF ChannelOK
  <2>5. QED
    BY <2>3, <2>4
<1>2. CASE take
  <2>1. queue # << >> /\ queue' = Tail(queue)
    BY <1>2 DEF take
  <2>2. \A s \in Requests \ {Head(queue)} : req'[s] = req[s]
    BY <1>2, TakeDoes DEF Sets
  <2>3. Len(queue) \in Nat /\ \A i \in 1 .. Len(queue) : queue[i] \in Requests
    BY DEF TypeOK
  <2>4. ASSUME NEW i \in 1 .. Len(queue')
        PROVE  /\ i \in Nat /\ i + 1 \in 1 .. Len(queue) /\ queue'[i] = queue[i + 1]
               /\ queue[i + 1] \in Requests \ {Head(queue)}
    BY <2>1, <2>3, HeadOfChannel
  <2>5. \A i \in 1 .. Len(queue') : InFlight(req'[queue'[i]]) /\ req'[queue'[i]].task = "none"
    BY <2>2, <2>4 DEF ChannelOK
  <2>6. \A i, j \in 1 .. Len(queue') : queue'[i] = queue'[j] => i = j
    BY <2>4 DEF ChannelOK
  <2>7. QED
    BY <2>5, <2>6 DEF ChannelOK
<1>3. CASE loop_stop \/ grace_expired \/ script_cancelled \/ teardown
  <2>1. queue' = << >>
    BY <1>3, LoopEnds DEF teardown
  <2>2. QED
    BY <2>1 DEF ChannelOK
<1>4. ASSUME UNCHANGED queue,
             \A r \in Requests : InFlight(req[r]) /\ req[r].task = "none" =>
                InFlight(req'[r]) /\ req'[r].task = "none"
      PROVE  ChannelOK'
  BY <1>4 DEF ChannelOK, TypeOK
<1>5. ASSUME NEW r \in Requests, arrive(r) \/ emit(r) \/ wake(r) \/ timeout(r)
      PROVE  ChannelOK'
  <2>1. ASSUME NEW s \in Requests, InFlight(req[s]), req[s].task = "none"
        PROVE  InFlight(req'[s]) /\ req'[s].task = "none"
    BY <1>5, <2>1, ArriveDoes, WakeDoes DEF InFlight, Sets
  <2>2. QED
    BY <1>4, <1>5, <2>1 DEF arrive, emit, wake, timeout
<1>6. ASSUME NEW r \in Requests, call(r) \/ finish(r) PROVE ChannelOK'
  <2>1. ASSUME NEW s \in Requests, req[s].task = "none" PROVE req'[s] = req[s]
    BY <1>6, <2>1, HandlerDoes DEF Sets
  <2>2. QED
    BY <1>4, <1>6, <2>1 DEF call, finish
<1>7. CASE deliver_ack
  <2>1. ASSUME NEW s \in Requests, req[s].task = "none" PROVE req'[s] = req[s]
    BY <1>7, <2>1, DeliverDoes DEF Sets
  <2>2. QED
    BY <1>4, <1>7, <2>1 DEF deliver_ack
<1>8. CASE UNCHANGED <<queue, req>>
  BY <1>4, <1>8
<1>9. QED
  BY <1>1, <1>2, <1>3, <1>5, <1>6, <1>7, <1>8 DEF Next, vars, on_load, on_any_load,
     Load, on_register, serve, signal, script_end, drain_cancel, drain_join

----------------------------------------------------------------------------
(* The loop and the handlers' tasks *)

\* What the loop dispatches keeps its task, and its ack until the loop sends it.
LEMMA DispatchStep ==
    ASSUME TypeOK, ChannelOK, DispatchOK, [Next]_vars PROVE DispatchOK'
<1>1. CASE take
  <2>1. queue # << >>
    BY <1>1 DEF take
  <2>2. QED
    BY <1>1, <2>1, HeadOfChannel, TakeDoes DEF take, DispatchOK, InFlight, Sets
<1>2. CASE deliver_ack \/ loop_stop \/ grace_expired \/ script_cancelled \/ teardown \/ serve
  BY <1>2 DEF deliver_ack, loop_stop, grace_expired, script_cancelled, teardown, serve, DispatchOK
<1>3. ASSUME NEW r \in Requests,
             arrive(r) \/ emit(r) \/ send(r) \/ wake(r) \/ timeout(r) \/ call(r) \/ finish(r)
      PROVE  DispatchOK'
  <2>1. ASSUME NEW s \in Requests, InFlight(req[s]), req[s].task # "none"
        PROVE  InFlight(req'[s]) /\ req'[s].task # "none"
    BY <1>3, <2>1, ArriveDoes, SendDoes, WakeDoes, HandlerDoes DEF InFlight, Sets
  <2>2. QED
    BY <1>3, <2>1 DEF arrive, emit, send, wake, timeout, call, finish, DispatchOK
<1>4. CASE UNCHANGED <<loop, current, req>>
  BY <1>4 DEF DispatchOK
<1>5. QED
  BY <1>1, <1>2, <1>3, <1>4 DEF Next, vars, on_load, on_any_load, Load, on_register, signal,
     script_end, drain_cancel, drain_join

\* The only task a step starts is that of the request the loop takes, when no
\* other is alive; what the loop leaves behind alive is the last one.
LEMMA AliveStep ==
    ASSUME TypeOK, ChannelOK, DispatchOK, AliveOK, [Next]_vars PROVE AliveOK'
<1>1. CASE take
  <2>1. queue # << >> /\ loop = "ready" /\ \A r \in Requests : ~Alive(r)
    BY <1>1 DEF take, AliveOK
  <2>2. \A s \in Requests \ {Head(queue)} : ~Alive(s)'
    BY <1>1, <2>1, TakeDoes DEF Sets, Alive
  <2>3. CASE loop' = "busy" /\ current' = Head(queue)
    BY <2>2, <2>3 DEF AliveOK
  <2>4. CASE /\ UNCHANGED <<loop, current>>
             /\ \E a : Sets(Head(queue), req[Head(queue)].at, a, req[Head(queue)].answer,
                           req[Head(queue)].task)
    <3>1. Head(queue) \in Requests
      BY <1>1, TakeDoes
    <3>2. req'[Head(queue)].task \notin {"spawned", "running"}
      BY <2>1, <2>4, <3>1 DEF Sets, Alive
    <3>3. QED
      BY <2>1, <2>2, <2>4, <3>1, <3>2 DEF AliveOK, Alive
  <2>5. QED
    BY <1>1, <2>3, <2>4, TakeDoes
<1>2. CASE deliver_ack
  <2>1. \A s \in Requests : Alive(s)' => Alive(s) /\ s # current
    BY <1>2, DeliverDoes DEF Sets, Alive
  <2>2. QED
    BY <1>2, <2>1 DEF deliver_ack, AliveOK
<1>3. CASE loop_stop \/ grace_expired \/ script_cancelled
  <2>1. \A r \in Requests : Alive(r)' => Alive(r)
    BY <1>3, LoopEnds, DropDoes DEF Alive
  <2>2. QED
    BY <1>3, <2>1, LoopEnds DEF AliveOK
<1>4. CASE teardown
  <2>1. \A r \in Requests : Alive(r)' => Alive(r)
    BY <1>4, TeardownDoes DEF Alive
  <2>2. QED
    BY <1>4, <2>1 DEF teardown, AliveOK
<1>5. ASSUME NEW r \in Requests,
             arrive(r) \/ emit(r) \/ send(r) \/ wake(r) \/ timeout(r) \/ call(r) \/ finish(r)
      PROVE  AliveOK'
  <2>1. \A s \in Requests : Alive(s)' => Alive(s)
    BY <1>5, ArriveDoes, SendDoes, WakeDoes, HandlerDoes DEF Sets, Alive
  <2>2. UNCHANGED <<loop, current>>
    BY <1>5 DEF arrive, emit, send, wake, timeout, call, finish
  <2>3. QED
    BY <2>1, <2>2 DEF AliveOK
<1>6. CASE serve \/ UNCHANGED <<loop, current, req>>
  <2>1. \A r \in Requests : Alive(r)' => Alive(r)
    BY <1>6 DEF serve, Alive
  <2>2. QED
    BY <1>6, <2>1 DEF serve, AliveOK
<1>7. QED
  BY <1>1, <1>2, <1>3, <1>4, <1>5, <1>6 DEF Next, vars, on_load, on_any_load,
     Load, on_register, signal, script_end, drain_cancel, drain_join

----------------------------------------------------------------------------
(* The theorems *)

\* The inductive invariant: where a request can be, and what it can say there.
THEOREM Inductive == Spec => []IInv
<1>1. Init => IInv
  <2> SUFFICES ASSUME Init PROVE IInv
    OBVIOUS
  <2>1. TypeOK
    <3>1. req \in [Requests -> Request]
      BY DEF Init, Request
    <3>2. queue \in Seq(Requests) /\ Len(queue) <= Capacity
      BY BusAssumption DEF Init
    <3>3. QED
      BY <3>1, <3>2, BusAssumption DEF Init, TypeOK, Keys
  <2>2. RegisteredIsCallable /\ LoadedIsThere
    BY DEF Init, RegisteredIsCallable, LoadedIsThere
  <2>3. \A r \in Requests : Consistent(req[r]) /\ ~Alive(r)
    BY DEF Init, Consistent, Alive
  <2>4. ChannelOK /\ DispatchOK /\ AliveOK
    BY <2>3 DEF Init, ChannelOK, DispatchOK, AliveOK
  <2>5. QED
    BY <2>1, <2>2, <2>3, <2>4 DEF IInv
<1>2. IInv /\ [Next]_vars => IInv'
  BY TypeStep, RegistrationStep, ConsistentStep, ChannelStep, DispatchStep, AliveStep DEF IInv
<1>3. QED
  BY <1>1, <1>2, PTL DEF Spec

\* Two handlers are never alive together, a detached one included: of the alive
\* ones any two are the same (EventBus::dispatch awaits the join; the loop that
\* run_with_grace drops starts nothing more).
LEMMA AtMostOneAlive == ASSUME AliveOK PROVE OneHandlerAtATime
<1> DEFINE A == {r \in Requests : req[r].task \in {"spawned", "running"}}
<1>1. CASE A = {}
  BY <1>1, FS_EmptySet DEF OneHandlerAtATime
<1>2. CASE A # {}
  <2>1. PICK a \in Requests : a \in A
    BY <1>2
  <2>2. A = {a}
    BY <2>1 DEF AliveOK, Alive
  <2>3. Cardinality(A) = 1
    BY <2>2, FS_Singleton
  <2>4. QED
    BY <2>3 DEF OneHandlerAtATime
<1>3. QED
  BY <1>1, <1>2

\* At every moment the state has its types and the channel its bound, no two
\* handlers are alive together, and what the loop dispatches to Lua is loaded
\* on the handler Isle (EventBus::run, dispatch, bus.on), for any number of
\* requests, kinds, registrations and any capacity.
THEOREM BusInvariant == Spec => []BusInv
<1>1. IInv => BusInv
  BY AtMostOneAlive DEF IInv, BusInv
<1>2. QED
  BY <1>1, Inductive, PTL

\* What a source tells its client about an event is what became of its handler
\* (http_source::handle, deliver_ack): ok only if it returned, refused only if
\* none was started, and a refusal stays true.
THEOREM TruthfulAnswers == Spec => []AnswersAreTrue
<1>1. IInv => AnswersAreTrue
  BY DEF IInv, Consistent, AnswersAreTrue
<1>2. QED
  BY <1>1, Inductive, PTL

\* After the token is cancelled no event reaches a handler (the biased select of
\* EventBus::run), whichever way the shutdown began.
THEOREM NoLateStart == Spec => NoStartAfterShutdown
<1>1. ASSUME TypeOK, DispatchOK, [Next]_vars, shutdown, NEW r \in Requests, req[r].task = "none"
      PROVE  req'[r].task = "none"
  <2>1. ~take
    BY <1>1 DEF take
  <2>2. ASSUME NEW s \in Requests,
               arrive(s) \/ emit(s) \/ send(s) \/ wake(s) \/ timeout(s) \/ call(s) \/ finish(s)
        PROVE  req'[r].task = "none"
    BY <1>1, <2>2, ArriveDoes, SendDoes, WakeDoes, HandlerDoes DEF Sets
  <2>3. CASE deliver_ack
    BY <1>1, <2>3, DeliverDoes DEF Sets
  <2>4. CASE loop_stop \/ grace_expired \/ script_cancelled \/ teardown
    BY <1>1, <2>4, LoopEnds, DropDoes, TeardownDoes
  <2>5. CASE UNCHANGED req
    BY <1>1, <2>5
  <2>6. QED
    BY <1>1, <2>1, <2>2, <2>3, <2>4, <2>5 DEF Next, vars, on_load, on_any_load, Load,
       on_register, serve, signal, script_end, drain_cancel, drain_join
<1>2. IInv /\ [Next]_vars
        => [shutdown => \A r \in Requests : req[r].task = "none" => req'[r].task = "none"]_vars
  BY <1>1 DEF IInv
<1>3. QED
  BY <1>2, Inductive, PTL DEF Spec, NoStartAfterShutdown
=============================================================================
