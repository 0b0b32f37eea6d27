----------------------------- MODULE Aggregator -----------------------------
(***************************************************************************)
(* Server-side aggregations (internal/domain/query/aggregator.go): nested  *)
(* terms, date histograms and histograms over projected items, and the     *)
(* correlated owner key (owner.go) that terms fans jointly owned runs out  *)
(* by.                                                                     *)
(*                                                                         *)
(* An item maps fields to values; a missing field is not in the domain.    *)
(* Items have indices, and groups are sets of those: equal items count     *)
(* each.  The buckets of a result are a set: the code sorts them by key.   *)
(***************************************************************************)
EXTENDS Values, FiniteSets

CONSTANTS Aggs,       \* the maps of aggregations in queries, and those nested in them
          Nesting(_)  \* how deep a map nests others

ASSUME AggsAssumption ==
    \A aggs \in Aggs :
        /\ Nesting(aggs) \in Nat
        /\ \A name \in DOMAIN aggs :
               aggs[name].aggs \in Aggs /\ Nesting(aggs[name].aggs) < Nesting(aggs)

-----------------------------------------------------------------------------
\* owner.go; a name is a sequence of letters.

OwnerKey(team, component) == team \o <<"|">> \o component

\* Mutant: cut at the last separator.
SplitOwnerKey_Last(key) ==
    LET cut == SelectLastInSeq(key, LAMBDA c : c = "|")
    IN <<SubSeq(key, 1, cut - 1), SubSeq(key, cut + 1, Len(key))>>

\* Cut at the first separator: a component's name may hold another one.
SplitOwnerKey(key) ==
    LET cut == SelectInSeq(key, LAMBDA c : c = "|")
    IN <<SubSeq(key, 1, cut - 1), SubSeq(key, cut + 1, Len(key))>>

-----------------------------------------------------------------------------
\* Mutant: a list is one key.
keysOf_WholeList(item, field) ==
    IF field \notin DOMAIN item THEN {Nil} ELSE {item[field]}

\* A list fans out into one bucket per distinct element, and an empty one into
\* none; a missing field has a bucket of its own.
keysOf(item, field) ==
    IF field \notin DOMAIN item THEN {Nil}
    ELSE IF item[field].kind = "list" THEN {Value("string", e) : e \in ToSet(item[field].v)}
    ELSE {item[field]}

\* Hours, days of 24 and months of 30: what matters is which times fall together.
truncateTime(t, interval) ==
    CASE interval = "hour" -> t [] interval = "day" -> t \div 24 [] OTHER -> t \div 720

\* An item without a date is in no bucket.
monthsOf(item, agg) ==
    IF agg.field \notin DOMAIN item THEN {}
    ELSE {Value("string", truncateTime(item[agg.field].v, agg.interval))}

\* One bucket for each key, with what the aggregations below it come to over its
\* group; one that fails fails all.
bucketsFor(group, keys, below) ==
    LET members(k) == {i \in group : k \in keys[i]}
        buckets == {[key |-> k, docCount |-> Cardinality(members(k)), aggs |-> below[members(k)]]
                      : k \in UNION {keys[i] : i \in group}}
    IN IF \E b \in buckets : b.aggs = Failed THEN Failed
       ELSE [docCount |-> 0, sum |-> 0, buckets |-> buckets]

applyTerms(items, group, agg, below) ==
    bucketsFor(group, [i \in group |-> keysOf(items[i], agg.field)], below)

applyDateHistogram(items, group, agg, below) ==
    IF \E i \in group : agg.field \in DOMAIN items[i] /\ items[i][agg.field].kind # "time" THEN Failed
    ELSE bucketsFor(group, [i \in group |-> monthsOf(items[i], agg)], below)

\* Mutant: an observation is counted in its smallest bucket only.
cumulative_Disjoint(values, bounds, b) ==
    Cardinality({i \in DOMAIN values : values[i] <= b /\ \A c \in ToSet(bounds) : values[i] <= c => b <= c})

\* Counts are cumulative; a bound given twice is counted twice.
cumulative(values, bounds, b) ==
    Cardinality({i \in DOMAIN values : values[i] <= b}) * Cardinality({j \in DOMAIN bounds : bounds[j] = b})

applyHistogram(items, group, agg) ==
    LET present == {i \in group : agg.field \in DOMAIN items[i]}
        values == [i \in present |-> items[i][agg.field].v]
        bucket(b) == [key |-> Value("float", b), docCount |-> cumulative(values, agg.bounds, b), aggs |-> <<>>]
    IN IF \/ agg.bounds = <<>> \/ agg.aggs # <<>>
          \/ \E i \in present : items[i][agg.field].kind \notin {"int", "float"}
       THEN Failed
       ELSE [docCount |-> Cardinality(present), sum |-> SumFunction(values),
             buckets |-> {bucket(b) : b \in ToSet(agg.bounds)}]

\* results maps nested aggregations, and groups, to what those come to.
applyAgg(items, group, agg, results) ==
    CASE agg.op = "terms" -> applyTerms(items, group, agg, results[agg.aggs])
      [] agg.op = "date_histogram" -> applyDateHistogram(items, group, agg, results[agg.aggs])
      [] agg.op = "histogram" -> applyHistogram(items, group, agg)
      [] OTHER -> Failed

\* aggs maps names to aggregations; one that fails fails all.
evaluateGroup(items, group, aggs, results) ==
    LET result == [name \in DOMAIN aggs |-> applyAgg(items, group, aggs[name], results)]
    IN IF \E name \in DOMAIN aggs : result[name] = Failed THEN Failed ELSE result

evaluation(items) ==
    LET results[aggs \in Aggs] == [group \in SUBSET DOMAIN items |-> evaluateGroup(items, group, aggs, results)]
    IN results

EvaluateAggs(items, aggs) == evaluation(items)[aggs][DOMAIN items]
=============================================================================
