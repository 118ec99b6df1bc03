----------------------------- MODULE KnlQuery -----------------------------
(***************************************************************************)
(* A caller's own SQL over the log (knl/query.rs): the scan that finds the *)
(* statement's first word, its end and its parameters, the rewriting that  *)
(* gives every parameter a position, and the cap on the rows that come     *)
(* back (sqlite_store.rs, bridge/knl.rs).                                  *)
(*                                                                         *)
(* SQL is a sequence of characters by class: "a" a letter, "1" a digit,    *)
(* "q" a quote, "nl" a line end, "sel" the word SELECT, and others as they *)
(* are.  $a stands for $stream and $aa for $sessions.                      *)
(*                                                                         *)
(* The statement is sent inside another, which has the cap.  The scan lets *)
(* a `;` and a comment at the end through; inside the other statement both *)
(* are a syntax error, which SQLite answers.                               *)
(***************************************************************************)
EXTENDS Naturals, Sequences, FiniteSets

CONSTANTS Tails,     \* what follows SELECT in the texts that are tried
          Given,     \* the parameters a caller gives: [named, values]
          MaxRows    \* bound: rows the statement finds

\* sql: the text; at: the scan's place; params: the parameters found, as [from, to, name]; ended: a
\* `;` was passed; plan: the text and values that are sent; rows, limit: what the statement finds
\* and what the caller allows; answer: what comes back.
VARIABLE kq

Stream == "this session"
Sessions == <<"one", "another">>
STREAM_PARAM == <<"$", "a">>
SESSIONS_TOKEN == <<"$", "a", "a">>

Init ==
    \E tail \in Tails :
        kq = [sql |-> <<"sel", "nl">> \o tail, at |-> 1, keyword |-> "none", params |-> << >>,
              ended |-> FALSE, phase |-> "scan", out |-> << >>, values |-> << >>, given |-> << >>,
              rows |-> 0, limit |-> 0, answer |-> [rows |-> 0, truncated |-> FALSE]]

----------------------------------------------------------------------------
(* The scan, one token at a step *)

Last == Len(kq.sql)
Here == kq.sql[kq.at]
Next1 == IF kq.at < Last THEN kq.sql[kq.at + 1] ELSE "end"
Scanning == kq.phase = "scan" /\ kq.at <= Last

\* The first of `places` at or after a position, or the end of the text.
From(places, k) ==
    IF \E p \in places : p >= k THEN CHOOSE p \in places : p >= k /\ \A o \in places : o >= k => p <= o
    ELSE Last + 1
Least(a, b) == IF a < b THEN a ELSE b

\* A mistake the runs catch: a comment is text like any other.
LineComment(k) == k + 1
\* Past the two characters, and on to the end of the line.
line_comment(k) == From({p \in DOMAIN kq.sql : kq.sql[p] = "nl"}, k + 2)
block_comment(k) ==
    Least(From({p \in 1..Last - 1 : kq.sql[p] = "*" /\ kq.sql[p + 1] = "/"}, k + 2) + 2, Last + 1)

Closer(open) == IF open = "[" THEN "]" ELSE open
\* A doubled quote stands for itself; a bracket has no such form.
skip_quoted(k) ==
    LET close == Closer(kq.sql[k])
        ends(p) == /\ kq.sql[p] = close
                   /\ close # "]" =>
                        \E n \in 0..Last : /\ p - n > k /\ n % 2 = 0
                                           /\ \A j \in p - n..p : kq.sql[j] = close
                                           /\ (p - n - 1 = k \/ kq.sql[p - n - 1] # close)
                                           /\ (p = Last \/ kq.sql[p + 1] # close)
    IN  Least(From({p \in k + 1..Last : ends(p)}, k + 1) + 1, Last + 1)
ident_end(k) == From({p \in DOMAIN kq.sql : kq.sql[p] \notin {"a", "sel", "1", "$"}}, k)

Skip(to) == kq' = [kq EXCEPT !.at = to]
Found(to, name) ==
    kq' = [kq EXCEPT !.at = to, !.params = Append(@, [from |-> kq.at, to |-> to, name |-> name])]

Blank ==
    /\ Scanning
    /\ \/ Here = "nl" /\ Skip(kq.at + 1)
       \/ Here = "-" /\ Next1 = "-" /\ Skip(line_comment(kq.at))
       \/ Here = "/" /\ Next1 = "*" /\ Skip(block_comment(kq.at))
Text == Scanning /\ Here # "nl" /\ ~(Here = "-" /\ Next1 = "-") /\ ~(Here = "/" /\ Next1 = "*")
Refused == kq' = [kq EXCEPT !.phase = "refused"]

\* A mistake the runs catch: what follows the `;` is scanned with the rest.
ScanOn == FALSE
\* Anything but blanks and comments after a `;` is a second statement.
SecondStatement == kq.ended

scan ==
    /\ Text
    /\ \/ SecondStatement /\ Refused
       \/ /\ ~SecondStatement
          /\ \/ Here = ";" /\ kq' = [kq EXCEPT !.ended = TRUE, !.at = @ + 1]
             \/ Here \in {"q", "["} /\ Skip(skip_quoted(kq.at))
             \/ /\ Here = "?"
                /\ LET end == From({p \in DOMAIN kq.sql : kq.sql[p] # "1"}, kq.at + 1)
                   IN  Found(end, IF end = kq.at + 1 THEN <<"?">> ELSE <<"?", "1">>)
             \/ /\ Here \in {"$", ":"}
                /\ LET end == ident_end(kq.at + 1)
                   IN  IF end > kq.at + 1 THEN Found(end, SubSeq(kq.sql, kq.at, end - 1)) ELSE Skip(end)
             \/ /\ Here \in {"a", "sel"}
                /\ kq' = [kq EXCEPT !.at = ident_end(kq.at),
                                    !.keyword = IF @ = "none" THEN Here ELSE @]
             \/ Here \notin {";", "q", "[", "?", "$", ":", "a", "sel"} /\ Skip(kq.at + 1)

----------------------------------------------------------------------------
(* The plan *)

\* The values of one parameter: none where the caller gave none that fits.
scalar(v) == v # "table"
Positional == {k \in DOMAIN kq.params : kq.params[k].name = <<"?">>}
Values(given, k) ==
    LET name == kq.params[k].name
        nth == Cardinality({j \in Positional : j <= k})
    IN  CASE name = STREAM_PARAM   -> {<<Stream>>}
          [] name = SESSIONS_TOKEN -> {Sessions}
          [] name = <<"?">>        -> IF given.named = {} /\ nth <= Len(given.values)
                                      THEN {<<given.values[nth]>>} ELSE {}
          [] name = <<"?", "1">>   -> {}
          [] OTHER                 -> IF name \in given.named \/ Tail(name) \in given.named
                                      THEN {<<name>>} ELSE {}
Resolved(given) ==
    /\ \A k \in DOMAIN kq.params : Values(given, k) # {}
    /\ \A k \in DOMAIN given.values : scalar(given.values[k])
    /\ given.named = {} => Len(given.values) <= Cardinality(Positional)

Holes(k) == IF kq.params[k].name = SESSIONS_TOKEN THEN <<"(", "?", ",", "?", ")">> ELSE <<"?">>

\* The text up to the k-th parameter with a question mark in the place of each.
RECURSIVE Rewritten(_)
Rewritten(k) ==
    IF k = 0 THEN << >>
    ELSE Rewritten(k - 1)
           \o SubSeq(kq.sql, IF k = 1 THEN 1 ELSE kq.params[k - 1].to, kq.params[k].from - 1) \o Holes(k)
RECURSIVE Bound(_, _)
Bound(given, k) ==
    IF k = 0 THEN << >> ELSE Bound(given, k - 1) \o CHOOSE v \in Values(given, k) : TRUE
resolve(given) ==
    LET n == Len(kq.params)
    IN  [kq EXCEPT !.phase = "plan", !.values = Bound(given, n),
                   !.out = Rewritten(n) \o SubSeq(kq.sql, IF n = 0 THEN 1 ELSE kq.params[n].to, Last),
                   !.given = <<given>>]

\* An empty set of sessions, no time to run, a first word that does not read, a parameter that has
\* no value or a value that has no parameter: nothing is sent.
plan(given) ==
    /\ kq.phase = "scan" /\ kq.at > Last
    /\ \/ (kq.keyword # "sel" \/ ~Resolved(given)) /\ Refused
       \/ kq.keyword = "sel" /\ Resolved(given) /\ kq' = resolve(given)
Unasked == kq.phase = "scan" /\ kq.at = 1 /\ kq.keyword = "none" /\ Refused

----------------------------------------------------------------------------
(* SQLite *)

\* How SQLite reads a text, a character at a time: where each one stands.
Letters == {"a", "sel", "1", "$"}
Read(text) ==
    LET follows(k) == IF k < Len(text) THEN text[k + 1] ELSE "end"
        Plain(k) ==
            CASE text[k] = "-" /\ follows(k) = "-" -> "line"
              [] text[k] = "/" /\ follows(k) = "*" -> "/"
              [] text[k] \in {"q", "["} -> text[k]
              [] text[k] \in {"a", "sel"} -> "word"
              [] text[k] \in {":", "$"} -> "name"
              [] OTHER -> "code"
        Mode[k \in 0..Len(text)] ==
            IF k = 0 THEN "code"
            ELSE LET was == Mode[k - 1]
                 IN  CASE was = "line" -> IF text[k] = "nl" THEN "code" ELSE "line"
                       [] was = "q" -> IF text[k] = "q" THEN "code" ELSE "q"
                       [] was = "[" -> IF text[k] = "]" THEN "code" ELSE "["
                       [] was = "/" -> "block *"
                       [] was = "block *" -> IF text[k] = "*" /\ follows(k) = "/" THEN "* /" ELSE "block *"
                       [] was = "* /" -> "code"
                       [] was \in {"word", "name"} /\ text[k] \in Letters -> was
                       [] OTHER -> Plain(k)
    IN  Mode

\* The marks that SQLite takes for a parameter: question marks, and names with something in them.
Quoted == {"line", "q", "[", "/", "block *", "* /"}
Marks(text) ==
    LET mode == Read(text)
    IN  {k \in DOMAIN text :
            /\ mode[k - 1] \notin Quoted
            /\ \/ text[k] = "?" /\ mode[k] = "code"
               \/ /\ mode[k] = "name" /\ (text[k] = ":" \/ mode[k - 1] \notin {"name", "word"})
                  /\ k < Len(text) /\ text[k + 1] \in Letters}
Code(text) ==
    LET mode == Read(text)
    IN  {k \in DOMAIN text : mode[k] \notin Quoted /\ mode[k - 1] \notin Quoted
                              /\ text[k] \notin {"nl", " "}}

\* A mistake the runs catch: as many rows are asked for as the caller allows.
CapAtLimit(limit) == limit
\* One row more than the caller allows says that the answer was cut.
cap(limit) == limit + 1

\* SELECT * FROM ({plan.sql}) LIMIT {cap}
Before == <<"sel", " ", "*", " ", "a", " ", "(">>
Behind == <<")", " ", "a", " ", "1">>
wrap(text) == Before \o text \o Behind

\* What SQLite can compile of it: the parenthesis is closed, outside every comment and quote,
\* and no `;` ends the statement before that.
Compiles(text) ==
    /\ Len(wrap(text)) \in Code(wrap(text))
    /\ \A k \in Code(wrap(text)) : wrap(text)[k] # ";"

query(rows, limit) ==
    /\ kq.phase = "plan" /\ Compiles(kq.out)
    /\ LET got == Least(rows, cap(limit))
       IN  kq' = [kq EXCEPT !.phase = "answered", !.rows = rows, !.limit = limit,
                            !.answer = [rows |-> Least(got, limit), truncated |-> got > limit]]
\* Whatever does not compile, runs out of time or cannot be carried over.
query_error == kq.phase = "plan" /\ Refused

Next ==
    \/ Blank \/ scan \/ Unasked \/ query_error
    \/ \E given \in Given : plan(given)
    \/ \E rows \in 0..MaxRows, limit \in 0..MaxRows : query(rows, limit)

Spec == Init /\ [][Next]_kq

----------------------------------------------------------------------------
(* Properties *)

\* The parameters that get values are those SQLite finds in the caller's text, in its order, and
\* nothing but blanks and comments follows a `;`.
ScannedAsRead ==
    kq.phase = "plan" =>
        /\ {kq.params[k].from : k \in DOMAIN kq.params} = Marks(kq.sql)
        /\ \A k \in DOMAIN kq.params, j \in DOMAIN kq.params : k < j => kq.params[k].from < kq.params[j].from
        /\ \A k \in Code(kq.sql), j \in Code(kq.sql) : kq.sql[k] = ";" => j <= k

\* What is answered was sent as one statement with the cap around it, which SQLite reads as it was
\* meant: its only parameters are bare question marks, one for every value; and the caller's text
\* had neither a `;` nor a comment or a quote that the end of the text cuts short.
SentAsMeant ==
    kq.phase = "answered" =>
        LET sent == wrap(kq.out)
        IN  /\ Cardinality(Marks(sent)) = Len(kq.values)
            /\ \A k \in Marks(sent) : sent[k] = "?" /\ sent[k + 1] # "1"
            /\ \A k \in Code(kq.sql) : kq.sql[k] # ";"
            /\ Read(kq.sql)[Len(kq.sql)] \notin Quoted \ {"* /"}

PlansMean == ScannedAsRead /\ SentAsMeant

\* The rows that come back are all there are, or as many as the caller allows and a word that
\* there are more.
CutIsTold ==
    kq.phase = "answered" =>
        /\ kq.answer.rows = Least(kq.rows, kq.limit)
        /\ kq.answer.truncated <=> kq.rows > kq.limit
=============================================================================
