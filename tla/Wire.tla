-------------------------------- MODULE Wire --------------------------------
(***************************************************************************)
(* What leaves a script for another process and what comes back:           *)
(* `http.request` with its trace headers and its event streams             *)
(* (bridge/http.rs), `mesh.send` and `mesh.request` with the handler at    *)
(* the other end (bridge/mesh.rs, BusRelayHandler of host.rs), and the     *)
(* conversion every one of them goes through (lua_json.rs).                *)
(*                                                                         *)
(* A conversion that may fail answers a set: {} for an error.              *)
(***************************************************************************)
EXTENDS Naturals, Sequences, SequencesExt, FiniteSets

CONSTANTS Streams,   \* bodies of event streams: sequences of "data:", "nl", words, and the
                     \* "lead" and "trail" byte of a character of two
          Explicit,  \* sets of headers a script sets, each <<name in lower case, name as spelled>>
          Envs,      \* what the environment says: functions of Names to "unset", "empty" and "set"
          Values,    \* Lua values a script sends
          Jsons,     \* JSON values
          MaxDepth,  \* MAX_DEPTH, the nesting both conversions accept
          SendTicks, \* mesh.send's timeout (10 s)
          AckTicks   \* mesh.request's timeout and the handler's (30 s)

\* http: the request under way; mesh: the exchange under way.
VARIABLE w

Names == {"x-trace-id", "x-run-id", "x-agent-id", "x-agent-name"}

----------------------------------------------------------------------------
(* JSON and Lua values *)

Json(t, v, items, fields) == [t |-> t, v |-> v, items |-> items, fields |-> fields]
Null == Json("null", "", << >>, {})
Lua(t, v, seq, map, tagged) == [t |-> t, v |-> v, seq |-> seq, map |-> map, tagged |-> tagged]
LuaNull == Lua("null", "", << >>, {}, FALSE)

RECURSIVE json_to_lua(_, _)
RECURSIVE lua_to_json_inner(_, _)

\* A mistake the runs catch: an empty array gets no metatable.
Untagged(items) == FALSE
array_metatable(items) == items = << >>

json_to_lua(j, depth) ==
    IF depth > MaxDepth THEN {}
    ELSE LET items == [k \in DOMAIN j.items |-> json_to_lua(j.items[k], depth + 1)]
             fields == {<<f[1], json_to_lua(f[2], depth + 1)>> : f \in j.fields}
             The(found) == CHOOSE x \in found : TRUE
         IN  IF (\E k \in DOMAIN items : items[k] = {}) \/ (\E f \in fields : f[2] = {}) THEN {}
             ELSE CASE j.t = "null" -> {LuaNull}
                    [] j.t \in {"array", "object"} ->
                        {Lua("table", "", [k \in DOMAIN items |-> The(items[k])],
                             {<<"string", f[1], The(f[2])>> : f \in fields},
                             j.t = "array" /\ array_metatable(items))}
                    [] OTHER -> {Lua(j.t, j.v, << >>, {}, FALSE)}

is_tagged_array(table) == table.tagged

lua_to_json_inner(val, depth) ==
    IF depth > MaxDepth THEN {}
    ELSE LET items == [k \in DOMAIN val.seq |-> lua_to_json_inner(val.seq[k], depth + 1)]
             fields == {<<f[2], lua_to_json_inner(f[3], depth + 1)>> : f \in val.map}
             The(found) == CHOOSE x \in found : TRUE
         IN  CASE val.t \in {"nil", "null"} -> {Null}
               [] val.t \in {"boolean", "number", "string"} -> {Json(val.t, val.v, << >>, {})}
               [] val.t = "table" /\ (val.seq # << >> \/ is_tagged_array(val)) ->
                    IF \E k \in DOMAIN items : items[k] = {} THEN {}
                    ELSE {Json("array", "", [k \in DOMAIN items |-> The(items[k])], {})}
               [] val.t = "table" /\ val.seq = << >> /\ ~is_tagged_array(val) ->
                    IF (\E f \in val.map : f[1] = "other") \/ (\E f \in fields : f[2] = {}) THEN {}
                    ELSE {Json("object", "", << >>, {<<f[1], The(f[2])>> : f \in fields})}
               [] OTHER -> {}     \* functions, user data, numbers and strings JSON has no form for
lua_to_json(val) == lua_to_json_inner(val, 0)

----------------------------------------------------------------------------
(* The trace context a payload carries *)

\* What the environment says, the agent's own id standing in for a missing one.
ObsOf(env, id) ==
    LET said == {n \in Names : env[n] = "set"}
    IN  said \cup IF env["x-agent-id"] # "set" /\ id # {} THEN {"x-agent-id"} ELSE {}
ObsField(env, id) == {<<"__ab_obs", Json("object", "", << >>, {<<n, Json("string", n, << >>, {})>> : n \in ObsOf(env, id)})>>}

\* A mistake the runs catch: what the payload already carries is replaced.
InsertAnyway(fields, env, id) == {f \in fields : f[1] # "__ab_obs"} \cup ObsField(env, id)
\* A context the payload carries is not replaced, and an empty one is not added.
insert_obs(fields, env, id) ==
    IF (\E f \in fields : f[1] = "__ab_obs") \/ ObsOf(env, id) = {} THEN fields
    ELSE fields \cup ObsField(env, id)
inject_obs_context(j, env, id) ==
    CASE j.t = "object" -> [j EXCEPT !.fields = insert_obs(@, env, id)]
      [] j.t = "null" /\ insert_obs({}, env, id) # {} -> Json("object", "", << >>, insert_obs({}, env, id))
      [] OTHER -> j

----------------------------------------------------------------------------
(* http.request *)

Quiet == [at |-> "idle", stream |-> FALSE, listening |-> FALSE, explicit |-> {}, env |-> [n \in Names |-> "unset"],
          id |-> {}, sent |-> {}, body |-> << >>, got |-> 0, torn |-> {}, buffer |-> << >>, called |-> << >>, result |-> "none"]
Idle == [at |-> "idle", kind |-> "send", payload |-> {}, age |-> 0, ackAge |-> 0, event |-> "none", handled |-> "no",
         result |-> "none"]
Init == w = [http |-> Quiet, mesh |-> Idle]

Http == w.http
Goes(h) == w' = [w EXCEPT !.http = h]
Fails(why) == Goes([Http EXCEPT !.at = "done", !.result = why])

\* A mistake the runs catch: a header counts as set only in the spelling of the list.
AsSpelled(explicit) == {h[2] : h \in explicit}
explicit_headers(explicit) == {h[1] : h \in explicit}

\* The agent's id stands in where the variable is not there at all; an empty variable sends none.
trace_headers(env, id) ==
    {n \in Names : env[n] = "set"} \cup
        IF env["x-agent-id"] = "unset" /\ id # {} THEN {"x-agent-id"} ELSE {}

http_request(stream, listening, explicit, env, id) ==
    /\ Http.at = "idle" /\ w.mesh.at = "idle"
    /\ \/ Fails("invalid method")
       \/ Goes([Quiet EXCEPT !.at = "sent", !.stream = stream, !.listening = stream /\ listening,
                             !.explicit = explicit, !.env = env, !.id = id,
                             !.sent = {<<h[1], "script">> : h \in explicit}
                                        \cup {<<n, "trace">> : n \in trace_headers(env, id) \ explicit_headers(explicit)}])

Responds ==
    /\ Http.at = "sent"
    /\ \/ \E why \in {"timeout", "connection", "request"} : Fails(why)
       \/ ~Http.stream /\ \E why \in {"read", "too large", "ok"} : Fails(why)
       \/ Http.stream /\ \E body \in Streams : Goes([Http EXCEPT !.at = "streaming", !.body = body])

Blank(buffer, k) == k + 1 <= Len(buffer) /\ buffer[k] = "nl" /\ buffer[k + 1] = "nl"
FirstBlank(buffer) == CHOOSE k \in DOMAIN buffer : Blank(buffer, k) /\ \A i \in 1..k - 1 : ~Blank(buffer, i)

RECURSIVE dispatch(_, _)

\* The data lines of an event block: {} or the words behind the prefix, line by line.
LineEnds(block) == {k \in 1..Len(block) + 1 : k = Len(block) + 1 \/ block[k] = "nl"}
LineStarts(block) == {1} \cup {k + 1 : k \in LineEnds(block) \ {Len(block) + 1}}
DataStarts(block) == {k \in LineStarts(block) : k <= Len(block) /\ block[k] = "data:"}
LineAt(block, k) == SubSeq(block, k + 1, (CHOOSE e \in LineEnds(block) : e >= k /\ \A x \in LineEnds(block) : x >= k => e <= x) - 1)
DataLines(block) ==
    LET starts == SetToSortSeq(DataStarts(block), <)
    IN  [i \in DOMAIN starts |-> LineAt(block, starts[i])]
Done == <<"[DONE]">>

\* A mistake the runs catch: at most one event of a chunk is handed on.
OnePerChunk(buffer, called) ==
    IF ~\E k \in DOMAIN buffer : Blank(buffer, k) THEN [buffer |-> buffer, called |-> called, done |-> FALSE]
    ELSE [buffer |-> << >>, called |-> called \o DataLines(SubSeq(buffer, 1, FirstBlank(buffer) - 1)), done |-> FALSE]
\* Every complete event in the buffer, up to the sentinel.
dispatch(buffer, called) ==
    IF ~\E k \in DOMAIN buffer : Blank(buffer, k) THEN [buffer |-> buffer, called |-> called, done |-> FALSE]
    ELSE LET pos == FirstBlank(buffer)
             lines == DataLines(SubSeq(buffer, 1, pos - 1))
             stops == {k \in DOMAIN lines : lines[k] = Done}
             rest == SubSeq(buffer, pos + 2, Len(buffer))
         IN  IF stops = {} THEN dispatch(rest, called \o lines)
             ELSE [buffer |-> rest, done |-> TRUE,
                   called |-> called \o SubSeq(lines, 1, (CHOOSE k \in stops : \A j \in stops : k <= j) - 1)]

\* Each chunk is decoded on its own: half a character becomes a replacement character.
from_utf8_lossy(chunk) ==
    [k \in DOMAIN chunk |->
       IF \/ chunk[k] = "lead" /\ (k = Len(chunk) \/ chunk[k + 1] # "trail")
          \/ chunk[k] = "trail" /\ (k = 1 \/ chunk[k - 1] # "lead")
       THEN "replacement" ELSE chunk[k]]

\* The next chunk, wherever the network cut it.
read_sse(n) ==
    /\ Http.at = "streaming" /\ n <= Len(Http.body) - Http.got
    /\ LET chunk == SubSeq(Http.body, Http.got + 1, Http.got + n)
           new == dispatch(Http.buffer \o from_utf8_lossy(chunk), Http.called)
           read == [Http EXCEPT !.got = @ + n,
                                !.torn = @ \cup IF Last(chunk) = "lead" THEN {Http.got + n} ELSE {}]
       IN  \/ Goes([read EXCEPT !.buffer = new.buffer, !.called = new.called,
                                !.at = IF new.done THEN "done" ELSE @, !.result = IF new.done THEN "ok" ELSE @])
           \* the callback raises at one of the lines it is given
           \/ /\ Http.listening
              /\ \E k \in Len(Http.called) + 1..Len(new.called) :
                    Goes([read EXCEPT !.called = SubSeq(new.called, 1, k), !.at = "done",
                                      !.result = "callback"])
SseEnds ==
    /\ Http.at = "streaming"
    /\ \/ Http.got = Len(Http.body) /\ Fails("ok")
       \/ Fails("stream")

----------------------------------------------------------------------------
(* mesh.send and mesh.request *)

Mesh == w.mesh
Moves(m) == w' = [w EXCEPT !.mesh = m]
Limit == IF Mesh.kind = "send" THEN SendTicks ELSE AckTicks

mesh_request(kind, val, env, connected) ==
    /\ Mesh.at = "idle" /\ Http.at = "idle"
    /\ IF ~connected \/ lua_to_json(val) = {} THEN Moves([Idle EXCEPT !.at = "done", !.kind = kind, !.result = "raised"])
       ELSE Moves([Idle EXCEPT !.at = "waiting", !.kind = kind, !.event = "travels",
                               !.payload = {inject_obs_context(j, env, {"me"}) : j \in lua_to_json(val)}])

\* The other host hands the event to its bus and waits there while the bus is full.
Enqueued ==
    /\ Mesh.event = "travels"
    /\ Moves([Mesh EXCEPT !.event = "queued"])
BusClosed ==
    /\ Mesh.event = "travels"
    /\ Moves([Mesh EXCEPT !.event = "closed"])
\* The event's turn: its handler runs to its end, or the event is thrown away with its ack.
Handled(how) ==
    /\ Mesh.handled = "no" /\ Mesh.event \in {"queued", "answered late"}
    /\ Moves([Mesh EXCEPT !.handled = how])

\* A mistake the runs catch: the answer does not wait for the handler.
AnswersAtOnce ==
    /\ Mesh.event = "queued"
    /\ Moves([Mesh EXCEPT !.event = "value"])
\* What the handler said, or {"error": ...} in its place: the handler failed, its ack was
\* dropped, or nobody answered in time.  A handler may say {"error": ...} itself.
handle ==
    /\ Mesh.event = "queued"
    /\ \/ Mesh.handled = "ok" /\ \E form \in {"value", "error"} : Moves([Mesh EXCEPT !.event = form])
       \/ Mesh.handled \in {"failed", "dropped"} /\ Moves([Mesh EXCEPT !.event = "error"])
       \/ Mesh.ackAge = AckTicks /\ Moves([Mesh EXCEPT !.event = "answered late"])

\* A request hands on whatever came back, {"error": ...} like any other value; a send
\* throws it away and returns.
Told(event) ==
    CASE Mesh.kind = "send" -> "returned"
      [] Mesh.kind = "request" /\ event = "value" -> "value"
      [] OTHER -> "error"

\* The answer comes back, or is lost with the connection, or comes when nobody waits any more.
Returns ==
    /\ Mesh.at = "waiting"
    /\ \/ /\ Mesh.event \in {"value", "error", "closed", "answered late"}
          /\ Moves([Mesh EXCEPT !.at = "done", !.result = Told(Mesh.event)])
       \/ Moves([Mesh EXCEPT !.at = "done", !.result = "raised"])
Passes ==
    /\ Mesh.at = "waiting" /\ Mesh.age < Limit
    /\ Moves([Mesh EXCEPT !.age = @ + 1,
                          !.ackAge = IF Mesh.event = "queued" /\ @ < AckTicks THEN @ + 1 ELSE @])

Next ==
    \/ Http.at = "idle" /\ \E stream, listening \in BOOLEAN, explicit \in Explicit, env \in Envs, id \in {{}, {"me"}} :
            http_request(stream, listening, explicit, env, id)
    \/ Responds \/ SseEnds
    \/ Http.at = "streaming" /\ \E n \in 1..Len(Http.body) : read_sse(n)
    \/ Mesh.at = "idle" /\ \E kind \in {"send", "request"}, val \in Values, env \in Envs, connected \in BOOLEAN :
            mesh_request(kind, val, env, connected)
    \/ Enqueued \/ BusClosed \/ handle \/ Returns \/ Passes
    \/ \E how \in {"ok", "failed", "dropped"} : Handled(how)

Spec == Init /\ [][Next]_w

----------------------------------------------------------------------------
(* Properties *)

\* The data lines of a body that a blank line follows, up to the sentinel, in their order.
Complete(body) ==
    LET ends == {k \in DataStarts(body) : \E b \in k..Len(body) : Blank(body, b)}
        stops == {k \in ends : LineAt(body, k) = Done}
        told == SetToSortSeq({k \in ends : \A s \in stops : k < s}, <)
    IN  [i \in DOMAIN told |-> LineAt(body, told[i])]

\* What has arrived, with a character the end of a chunk cut in two replaced.
Arrived ==
    [k \in 1..Http.got |->
       IF (Http.body[k] = "lead" /\ k \in Http.torn) \/ (Http.body[k] = "trail" /\ k - 1 \in Http.torn)
       THEN "replacement" ELSE Http.body[k]]

\* A listener hears the complete events of what has arrived, each once and in order, wherever the
\* network cut the stream, and the text of each as it was but for the characters that were cut in
\* two; one that raised has heard a beginning of them.
ChunksDontMatter ==
    LET told == Complete(Arrived)
    IN  IF Http.result = "callback" THEN IsPrefix(Http.called, told) ELSE Http.called = told

\* A header the script set is sent as the script set it, in whatever spelling, and the trace context
\* fills the others: never both.
OwnHeadersWin ==
    Http.at # "idle" => \A h \in Http.sent : h[2] = "trace" => h[1] \notin {e[1] : e \in Http.explicit}

\* What a script got from elsewhere and passes on arrives as it was: an empty array is still one and
\* a null is still there.  A value one conversion accepts is within the nesting of the other.
RoundTrips ==
    Http.at = "idle" /\ Mesh.at = "idle" =>
        \A j \in Jsons : \A val \in json_to_lua(j, 0) : lua_to_json(val) = {j}

\* The trace context is added to a payload and takes nothing away, a context of the script's own
\* least of all.
PayloadArrives ==
    Http.at = "idle" /\ Mesh.at = "idle" =>
        \A j \in Jsons, env \in Envs, id \in {{}, {"me"}} :
            LET sent == inject_obs_context(j, env, id)
            IN  /\ j.fields \subseteq sent.fields /\ j.items = sent.items
                /\ j.t \in {"object", "null"} => \A f \in sent.fields \ j.fields : f[1] = "__ab_obs"
                /\ Cardinality({f \in sent.fields : f[1] = "__ab_obs"}) <= 1

\* A request that came back with a value, not in the form of an error, was handled at the other
\* end by a handler that ran to its end.  A send that returned says less: that its event was given
\* to a handler or thrown away, or that the bus was closed; it is never still waiting there.
AnsweredWasHandled ==
    /\ Mesh.result = "value" => Mesh.handled = "ok"
    /\ Mesh.result = "returned" => Mesh.handled # "no" \/ Mesh.event = "closed"
=============================================================================
