----------------------------- MODULE TsSeries -----------------------------
(***************************************************************************)
(* std.ts, the time series of a script (crates/agent-block-core/src/bridge *)
(* /ts.rs): a table of rows (series, ts, tags, value) in rowid order that  *)
(* scripts append to, and a reader that fetches a series page by page with *)
(* limit and offset while others append.  The SQL the bridge builds is     *)
(* modelled by the rows it selects.                                        *)
(***************************************************************************)
EXTENDS Integers, Sequences, SequencesExt, FiniteSets, FiniteSetsExt

CONSTANTS Names,     \* series
          Times,     \* timestamps, negative ones too
          TagSets,   \* tags of a row or of a filter: sets of <<key, type, v>>
          Values,    \* JSON values: <<"num", n>> or <<"text", v>>
          Keys,      \* tag keys that have only letters, digits and underscores
          Widths,    \* bucket_ms
          Page,      \* the limit the reader asks for
          MaxRows    \* bound: rows in the table

\* rows: the table; got: what the reader has fetched of series `name` through `filter`;
\* ended: its last page was short; shifted: a row was appended before what it has.
VARIABLE ts

NULL == "null"
Init ==
    \E name \in Names, filter \in TagSets :
        ts = [rows |-> << >>, name |-> name, filter |-> filter, got |-> << >>,
              ended |-> FALSE, shifted |-> FALSE]

validate_tag_key(tags) == \A tag \in tags : tag[1] \in Keys

\* A filter value is bound as text; a tag stored as a number or a boolean is not text.
collect_tag_filter(filter) == {<<tag[1], "text", tag[3]>> : tag \in filter}

\* Options that are not given are empty sets.
Raw(name, filter) ==
    [series |-> name, tags |-> filter, from |-> Min(Times), to |-> Max(Times),
     agg |-> "none", bucket_ms |-> {}, limit |-> {}, offset |-> {}]

Refused(opts) ==
    \/ \E width \in opts.bucket_ms : width <= 0 \/ opts.agg = "none"
    \/ \E n \in opts.limit \cup opts.offset : n < 0
    \/ ~validate_tag_key(opts.tags)

Selected(rows, opts) ==
    {i \in DOMAIN rows :
        /\ rows[i].series = opts.series
        /\ opts.from <= rows[i].ts /\ rows[i].ts <= opts.to
        /\ collect_tag_filter(opts.tags) \subseteq rows[i].tags}

\* A mistake the runs catch: rows of one instant come newest first.
NewestFirst(rows, opts) ==
    SetToSortSeq(Selected(rows, opts),
                 LAMBDA i, j : rows[i].ts < rows[j].ts \/ (rows[i].ts = rows[j].ts /\ i > j))

\* ORDER BY ts, rowid
Ordered(rows, opts) ==
    SetToSortSeq(Selected(rows, opts),
                 LAMBDA i, j : rows[i].ts < rows[j].ts \/ (rows[i].ts = rows[j].ts /\ i < j))

\* ORDER BY ts DESC, rowid DESC LIMIT 1
Latest(rows, opts) ==
    {i \in Selected(rows, opts) :
        \A j \in Selected(rows, opts) : rows[j].ts < rows[i].ts \/ (rows[j].ts = rows[i].ts /\ j <= i)}

\* LIMIT and OFFSET
Window(s, opts) ==
    LET skip == IF opts.offset = {} THEN 0 ELSE Max(opts.offset)
    IN  SubSeq(s, skip + 1, Min({Len(s)} \cup {skip + n : n \in opts.limit}))

\* CAST(value AS REAL): what is not a number counts as zero.
Cast(v) == IF v[1] = "num" THEN v[2] ELSE 0
Total(rows, at) == MapThenSumSet(LAMBDA i : Cast(rows[i].value), at)
Aggregate(rows, at, agg) ==
    CASE agg = "count" -> Cardinality(at)
      [] agg # "count" /\ at = {} -> NULL
      [] agg = "sum" /\ at # {} -> Total(rows, at)
      [] agg = "avg" /\ at # {} -> <<Total(rows, at), Cardinality(at)>>

\* A mistake the runs catch: the bucket is rounded up, past the range's last instant.
BucketUp(t, width) == ((t + width - 1) \div width) * width

\* Division of SQL integers goes towards zero.
bucket_ts(t, width) == width * (IF t >= 0 THEN t \div width ELSE -((-t) \div width))

\* The rows of a query: indexes of rows, one value, or [bucket_ts, value] for each bucket.
\* The last of a range is its latest row, the last of a bucket its latest timestamp.
build_query_sql(rows, opts) ==
    LET at == Selected(rows, opts)
        all == Ordered(rows, opts)
        Bucketed(width) ==
            LET keys == SetToSortSeq({bucket_ts(rows[i].ts, width) : i \in at}, <)
                In(b) == {i \in at : bucket_ts(rows[i].ts, width) = b}
            IN  [k \in DOMAIN keys |->
                    [bucket_ts |-> keys[k],
                     value |-> IF opts.agg = "last" THEN Max({rows[i].ts : i \in In(keys[k])})
                               ELSE Aggregate(rows, In(keys[k]), opts.agg)]]
    IN  IF opts.agg = "none" THEN Window(all, opts)
        ELSE IF opts.bucket_ms # {}
        THEN Window(Bucketed(CHOOSE width \in opts.bucket_ms : TRUE), opts)
        ELSE IF opts.agg = "last" THEN SetToSeq(Latest(rows, opts))
        ELSE <<Aggregate(rows, at, opts.agg)>>

last(rows, name, filter) == Latest(rows, Raw(name, filter))

----------------------------------------------------------------------------
(* Operations *)

append(name, value, tags, at) ==
    /\ Len(ts.rows) < MaxRows
    /\ validate_tag_key(tags)
    /\ LET row == [series |-> name, ts |-> at, tags |-> tags, value |-> value]
           seen == ts.got # << >> /\ at < ts.rows[Last(ts.got)].ts
       IN  ts' = [ts EXCEPT !.rows = Append(@, row), !.shifted = @ \/ seen]

\* One page: the rows after those it has.
query ==
    LET opts == [Raw(ts.name, ts.filter) EXCEPT !.limit = {Page}, !.offset = {Len(ts.got)}]
        rows == build_query_sql(ts.rows, opts)
    IN  /\ ~ts.ended /\ ~Refused(opts)
        /\ ts' = [ts EXCEPT !.got = @ \o rows, !.ended = Len(rows) < Page]

Next ==
    \/ \E name \in Names, value \in Values, tags \in TagSets, at \in Times :
            append(name, value, tags, at)
    \/ query

Spec == Init /\ [][Next]_ts

----------------------------------------------------------------------------
(* Properties *)

\* The pages a reader has, laid end to end, are the first rows of the whole result, none
\* missing and none twice, unless a row was appended before the place it has reached; and
\* the row std.ts.last answers is the one that result ends with.
PagesJoin ==
    LET all == build_query_sql(ts.rows, Raw(ts.name, ts.filter))
    IN  /\ ~ts.shifted => IsPrefix(ts.got, all)
        /\ last(ts.rows, ts.name, ts.filter) = (IF all = << >> THEN {} ELSE {Last(all)})

\* For every width of a bucket the counts and the sums of the buckets add up to those of the
\* range, and the last timestamp of a bucket is less than a width away from where it starts.
BucketsAddUp ==
    \A name \in Names, width \in Widths :
        LET Opts(agg, w) == [Raw(name, {}) EXCEPT !.agg = agg, !.bucket_ms = w]
            Whole(agg) == build_query_sql(ts.rows, Opts(agg, {}))[1]
            Parts(agg) == build_query_sql(ts.rows, Opts(agg, {width}))
            Added(agg) == MapThenSumSet(LAMBDA k : Parts(agg)[k].value, DOMAIN Parts(agg))
        IN  /\ ~Refused(Opts("count", {width}))
            /\ Added("count") = Whole("count")
            /\ Whole("count") > 0 => Added("sum") = Whole("sum")
            /\ \A k \in DOMAIN Parts("last") :
                    LET row == Parts("last")[k]
                    IN  /\ row.value < row.bucket_ts + width
                        /\ row.value > row.bucket_ts - (IF row.bucket_ts > 0 THEN 1 ELSE width)
=============================================================================
