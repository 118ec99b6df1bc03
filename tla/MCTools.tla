------------------------------ MODULE MCTools ------------------------------
(***************************************************************************)
(* An instance of Tools for TLC, with the other components that share no   *)
(* state: what Lua reaches through the host (std.fs, std.ts, http, mesh,   *)
(* knl and its queries) and the managers.  As in Tools, each initial state *)
(* chooses one part, a step is a step of that part, and every part's       *)
(* properties are checked on it.                                           *)
(***************************************************************************)
EXTENDS Tools

Fs == INSTANCE FsEdit WITH
        fs <- its, Tasks <- {1, 2}, MaxCalls <- 4,
        Texts <- {<<"a", "nl", "b", "nl", "c", "nl">>, <<"a", "nl", "nl", "b">>, <<"nl">>},
        Batches <- {<<[start |-> 1, end |-> 1, right |-> TRUE, replace |-> <<"x", "nl", "y">>],
                      [start |-> 2, end |-> 3, right |-> TRUE, replace |-> << >>]>>,
                    <<[start |-> 2, end |-> 2, right |-> TRUE, replace |-> <<"z">>],
                      [start |-> 1, end |-> 1, right |-> TRUE, replace |-> << >>]>>,
                    <<[start |-> 1, end |-> 1, right |-> TRUE, replace |-> << >>]>>,
                    <<[start |-> 1, end |-> 2, right |-> TRUE, replace |-> <<"w">>],
                      [start |-> 2, end |-> 2, right |-> TRUE, replace |-> <<"v">>]>>,
                    <<[start |-> 0, end |-> 1, right |-> FALSE, replace |-> << >>]>>}

Fi == INSTANCE FsInspect WITH fi <- its, Ids <- 1..3, MaxChanges <- 2

Ts == INSTANCE TsSeries WITH
        ts <- its, Names <- {"s"}, Times <- {-1, 1, 3}, Keys <- {"j", "k"}, Widths <- {2, 3},
        TagSets <- {{<<"k", "text", "1">>}, {<<"k", "num", "1">>, <<"j", "text", "1">>}},
        Values <- {<<"num", 2>>, <<"text", "v">>}, Page <- 2, MaxRows <- 3

Place(tier, name, form) == [tier |-> tier, name |-> name, form |-> form]
ThreeModules == {<<"m">>, <<"m", "a">>, <<"n">>}
SevenPlaces ==
    {Place("script", <<"m">>, "lua"), Place("vendored", <<"m">>, "tl"),
     Place("vendored", <<"m">>, "init"), Place("vendored", <<"m", "a">>, "lua"),
     Place("vendored", <<"n">>, "init"), Place("vendored", <<"n">>, "spec"),
     Place("project", <<"m">>, "d.tl")}

Entry(tier, name, form) == [tier |-> tier, name |-> name, form |-> form]
Sv == INSTANCE Serving WITH
        sv <- its, Tiers <- <<"project", "home">>, Names <- <<"a", "b">>, Managers <- {1, 2},
        Clients <- {1}, Declared <- {"none", "bad", "b"}, MaxChanges <- 1, MaxStarts <- 2,
        Disks <- {{Entry("project", "a", "dir"), Entry("project", "a", "file"), Entry("home", "b", "file")},
                  {Entry("project", "a", "file"), Entry("home", "a", "dir"), Entry("home", "b", "dir")}}

Row(kind, ver, beat, of) == [kind |-> kind, ver |-> ver, beat |-> beat, of |-> of, open |-> {}]
Ev(kind, beat, of, good) == [kind |-> kind, beat |-> beat, of |-> of, good |-> good]
Req(op, stream, other, events) == [op |-> op, stream |-> stream, other |-> other, events |-> events]
TwoLogs ==
    {[p |-> <<Row("opened", 1, "none", "none"), Row("mark", 1, "envelope", "none")>>, c |-> << >>],
     [p |-> <<Row("opened", 2, "none", "none"), Row("msg_user", 2, "meta", "none")>>,
      c |-> <<Row("opened", 1, "envelope", "p")>>]}
EightRequests ==
    {Req("append_many", "p", "none", <<Ev("msg_user", "none", "none", TRUE)>>),
     Req("append_many", "c", "none", <<Ev("msg_user", "meta", "none", TRUE), Ev("msg_user", "none", "none", FALSE)>>),
     Req("append_if", "p", "none", <<Ev("mark", "meta", "none", TRUE)>>),
     Req("append_if", "p", "none", <<Ev("mark", "meta", "none", FALSE)>>),
     Req("append_if_many", "p", "c", <<Ev("granted", "none", "none", TRUE), Ev("opened", "none", "p", TRUE), Ev("granted", "none", "none", TRUE)>>),
     Req("append_if_many", "p", "c", <<Ev("granted", "none", "none", TRUE), Ev("opened", "none", "p", FALSE)>>),
     Req("append_with_open_children", "p", "none", <<Ev("closed", "none", "none", TRUE)>>),
     Req("detach_append", "c", "none", <<Ev("closed", "none", "none", TRUE)>>)}

Kb == INSTANCE KnlBridge WITH
        kb <- its, Handles <- {"h1", "h2"}, Roots <- {"h1"}, MaxAppends <- 1,
        HostLabels <- {{<<"run", "host">>, <<"job", "host">>}},
        Labels <- [h1 |-> {<<"run", "mine">>, <<"topic", "mine">>}, h2 |-> {}],
        Texts <- {<< >>, <<<<"a", ":", "b">>>>, <<<<"stack", "traceback", ":">>, <<"x">>>>, <<<<"knl", "busy", ":">>>>},
        Reasons <- {<<"a">>, <<"a", ":", "b">>, <<"knl", ":", "a", ":", "busy", ":", "b">>, << >>}

UpTo(n, alphabet) == UNION {[1..k -> alphabet] : k \in 0..n}
Kq == INSTANCE KnlQuery WITH
        kq <- its, MaxRows <- 2,
        Tails <- UpTo(5, {"-", "nl", "?", ";"}) \cup UpTo(5, {"q", "?", ";", "[", "]"})
                   \cup UpTo(5, {"/", "*", "?"}) \cup UpTo(4, {":", "$", "?", "1", "a"}),
        Given <- {[named |-> {}, values |-> << >>], [named |-> {}, values |-> <<"v", "w">>],
                  [named |-> {}, values |-> <<"table">>], [named |-> {<<"a">>, <<":", "1">>}, values |-> << >>]}

J(t, v, items, fields) == [t |-> t, v |-> v, items |-> items, fields |-> fields]
L(t, seq, map, tagged) == [t |-> t, v |-> "", seq |-> seq, map |-> map, tagged |-> tagged]
Flat == {J("null", "", << >>, {}), J("number", "1", << >>, {}), J("string", "1", << >>, {}),
         J("array", "", << >>, {}), J("object", "", << >>, {})}
Over(js) == {J("array", "", items, {}) : items \in UNION {[1..k -> js] : k \in 1..2}}
              \cup {J("object", "", << >>, {<<"a", x>>, <<"__ab_obs", y>>}) : x \in js, y \in js}
              \cup {J("object", "", << >>, {<<"a", x>>}) : x \in js}
Str == L("string", << >>, {}, FALSE)
TraceEnv(f, g) == [n \in {"x-trace-id", "x-run-id", "x-agent-id", "x-agent-name"} |->
                     CASE n = "x-trace-id" -> f [] n = "x-agent-id" -> g [] OTHER -> "unset"]
Wi == INSTANCE Wire WITH
        w <- its, MaxDepth <- 2, SendTicks <- 1, AckTicks <- 3,
        Streams <- {<<"data:", "a", "nl", "nl", "data:", "b", "nl", "data:", "[DONE]", "nl", "nl", "data:", "c", "nl", "nl">>,
                    <<"event", "nl", "data:", "a", "nl", "nl", "nl", "data:", "b", "c", "nl", "data:", "d", "nl", "nl", "data:", "e">>,
                    <<"data:", "lead", "trail", "nl", "nl", "data:", "a", "lead", "trail", "nl", "nl">>},
        Explicit <- {{}, {<<"x-trace-id", "X-Trace-Id">>}, {<<"x-agent-id", "x-agent-id">>, <<"accept", "Accept">>}},
        Envs <- {TraceEnv(f, g) : f \in {"unset", "set"}, g \in {"unset", "empty", "set"}},
        Values <- {L("nil", << >>, {}, FALSE), L("function", << >>, {}, FALSE), Str,
                   L("table", <<Str>>, {<<"string", "k", Str>>}, FALSE), L("table", << >>, {}, TRUE),
                   L("table", << >>, {<<"string", "__ab_obs", Str>>}, FALSE),
                   L("table", << >>, {<<"other", "k", Str>>}, FALSE)},
        Jsons <- Flat \cup Over(Flat) \cup Over({J("array", "", <<j>>, {}) : j \in Flat})
                   \cup Over({J("array", "", <<J("array", "", <<j>>, {})>>, {}) : j \in Flat})

Copy(found, levels) == [found |-> found, levels |-> levels]
SomeHostTools == {<< >>, <<"t">>, <<"t", "u">>, <<"t", "t">>}
SomeExtras ==
    {{}, {<<"std", "value">>}, {<<"deep", "unconvertible">>}, {<<"tool", "value">>, <<"mine", "value">>},
     {<<"_TOOL_REGISTRY", "value">>, <<"bus", "value">>}, {<<"package", "value">>},
     {<<"_SCRIPT_NAME", "value">>}, {<<"rawget", "value">>},
     {<<"_SCRIPT_NAME", "fitting">>, <<"package", "fitting">>, <<"std", "fitting">>}}
TwoNamed == {[name |-> "t", described |-> TRUE], [name |-> "s", described |-> FALSE]}
SomeCopies ==
    {Copy("nowhere", << >>), Copy("error", << >>), Copy("no table", << >>),
     Copy("table", <<{<<"tool_specs", "function">>},
                     {<<"tool_specs", "function">>, <<"register_tools", "function">>, <<"shapes", "other">>}>>),
     Copy("table", <<{<<"register_tools", "other">>}, {<<"tool_specs", "function">>},
                     {<<"register_tools", "function">>, <<"tool_specs", "other">>}>>)}

MCInit ==
    \/ Init
    \/ part = "wi" /\ Wi!Init
    \/ part = "kq" /\ Kq!Init
    \/ part = "kb" /\ Kb!Init
    \/ part = "sv" /\ Sv!Init
    \/ part = "fs" /\ Fs!Init
    \/ part = "fi" /\ Fi!Init
    \/ part = "ts" /\ Ts!Init

MCNext ==
    \/ Next
    \/ /\ UNCHANGED part
       /\ \/ part = "wi" /\ Wi!Next
          \/ part = "kq" /\ Kq!Next
          \/ part = "kb" /\ Kb!Next
          \/ part = "sv" /\ Sv!Next
          \/ part = "fs" /\ Fs!Next
          \/ part = "fi" /\ Fi!Next
          \/ part = "ts" /\ Ts!Next

MCSpec == MCInit /\ [][MCNext]_vars

----------------------------------------------------------------------------
(* Properties: what each component promises, in the parts its module states *)

\* std.fs: a batch of edits writes the file it read with exactly the named lines replaced, a
\* rollback puts back what the last edit found while calls do not overlap, and what inspect
\* answers was so at some moment of the call.
FilesAsTold ==
    /\ part = "fs" => Fs!EditsExact /\ Fs!UndoRestores
    /\ part = "fi" => Fi!AnswerWasTrue

\* std.ts: pages of a series joined are the series, no row twice and none left out, while no row
\* older than the last page is appended between them (`shifted`), and the buckets of a range add up
\* to the range for every width.
SeriesWhole == part = "ts" => Ts!PagesJoin /\ Ts!BucketsAddUp

\* `serve` and `mcp`: a manager's jobs are those of the blocks that stand for their names, a tool
\* that is listed is answered when called as its schema says, and a client with the token of the
\* file is accepted over restarts of the manager.
ServedAsListed == part = "sv" => Sv!JobsRunWhatStands /\ Sv!ListedIsAnswered /\ Sv!ClientsAccepted

\* The kernel's bridge: a call refused for what it asked has written nothing; over failed closes,
\* scopes and collection a handle ends its session once, and the error a script sees from a scope
\* is its body's; every session of a run carries the host's labels; a child is in the database of
\* its parent; knl.error gives back what was raised, wherever Lua has put the message.
HandlesAsTold ==
    part = "kb" =>
        /\ Kb!RefusedOpensNothing /\ Kb!EndsOnce /\ Kb!BodyErrorWins
        /\ Kb!RunIsLabelled /\ Kb!ChildBesideParent /\ Kb!ErrorsReadBack

\* What a query sends is one statement with the caller's parameters in the caller's order, and rows
\* that are cut off are said to be.
QueriesAsMeant == part = "kq" => Kq!PlansMean /\ Kq!CutIsTold

\* On the wire: the events of a stream do not depend on where its chunks were cut; a header the
\* script set is sent as it was set; JSON that goes into Lua and back is the same JSON; the trace
\* context takes nothing away from a payload; a mesh request that answered with a value was
\* handled, and a send returns once its event is out of the other host's queue.
WireIsFaithful ==
    part = "wi" =>
        /\ Wi!ChunksDontMatter /\ Wi!OwnHeadersWin /\ Wi!RoundTrips
        /\ Wi!PayloadArrives /\ Wi!AnsweredWasHandled
=============================================================================
