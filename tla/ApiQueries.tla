----------------------------- MODULE ApiQueries -----------------------------
(***************************************************************************)
(* What the answers of ApiServer are made of: the queries that parameters  *)
(* become (internal/api/query_params.go), and what the query engine makes  *)
(* of them over the rows of the in-memory repository (repo/memory.go).     *)
(* What aggregations come to is a parameter: Aggregator's subject.         *)
(***************************************************************************)
EXTENDS ApiServer, QueryEval

CONSTANTS Known,          \* fields that filters may name (validFields)
          DefaultSize,    \* of a page
          Filter,         \* filters of the queries, and their clauses
          Depth(_),       \* how deep a filter nests its clauses
          Evaluate(_, _)  \* items, aggregations -> their results, or Failed

ASSUME QueriesAssumption ==
    /\ DefaultSize \in Nat \ {0} /\ IsFiniteSet(FirstRows)
    /\ \A q \in Query :
           /\ q.filter \in Filter /\ q.from \in Nat
           /\ DOMAIN q.sort = 1..Len(q.sort) /\ Len(q.sort) \in Nat

\* Only a GET that does not say where to start is walked through.
ASSUME WalkAssumption ==
    \A r \in Request :
        r.walk => /\ r.path = "entity" /\ r.method = "GET" /\ r.params.from = <<>>
                  /\ IsFiniteSet(r.params.filters)

\* A filter nests filters, in lists, to some depth.
ASSUME FilterAssumption ==
    \A f \in Filter :
        /\ Depth(f) \in Nat
        /\ f.op = "bool" =>
               {f.must, f.must_not, f.should} \subseteq Seq({c \in Filter : Depth(c) < Depth(f)})
        /\ f.op = "terms" => f.values \in Seq(ToSet(f.values))

\* The rows of an entity have the same fields, with values of the same kinds, and
\* an id (repo/projection.go).
ASSUME RowAssumption ==
    \A x, y \in Row :
        /\ DOMAIN x = DOMAIN y /\ "id" \in DOMAIN x /\ x.id.kind # "list"
        /\ \A field \in DOMAIN x :
               /\ x[field] = Value(y[field].kind, x[field].v)
               /\ x[field].v \in IF x[field].kind = "list" THEN Seq(Int) ELSE Int

\* What a filter evaluates to, given what other filters, its clauses, do.
evaluate(f, x, results) ==
    LET evaluateAll(list) == [i \in DOMAIN list |-> results[list[i]][x]]
    IN IF f.op = "bool" THEN matchBool(evaluateAll(f.must), evaluateAll(f.must_not), evaluateAll(f.should))
       ELSE matchField(f, x)

Match[f \in Filter] == [x \in Row |-> evaluate(f, x, Match)]

\* A row that cannot be evaluated fails the query.
fails(rows, filter) == \E x \in rows : Match[filter][x] = "error"
matched(rows, filter) == {x \in rows : Match[filter][x] = "yes"}

hitsOf(rows, q) ==
    IF fails(rows, q.filter) THEN {} ELSE queryEntities(matched(rows, q.filter), q)

\* A query without aggregations has the empty map of them.
aggregationsOf(rows, q) ==
    LET results == Evaluate(filterProject(matched(rows, q.filter), q), q.aggs)
    IN IF q.aggs = <<>> THEN {<<>>}
       ELSE IF fails(rows, q.filter) \/ results = Failed THEN {}
       ELSE {results}

\* The queries a GET may become whose page starts at an offset.
queriesOf(r, start) ==
    LET params == [size |-> r.params.size, sort |-> r.params.sort, filters |-> r.params.filters,
                   from |-> IF start = firstPage(r) THEN r.params.from
                            ELSE <<[parses |-> {"int", "float"}, v |-> start]>>]
    IN IF invalid(params, Known) THEN {} ELSE parseQueryParams(params, DefaultSize)

ASSUME AnswersAssumption ==
    /\ \A r \in Request : \A o \in 0..MaxOffset : Queries(r, o) = queriesOf(r, o)
    /\ \A q \in Query : \A rows \in SUBSET Row :
           Hits(rows, q) = hitsOf(rows, q) /\ Aggregations(rows, q) = aggregationsOf(rows, q)

-----------------------------------------------------------------------------
\* What a filter without clauses means.
holds(f, x) ==
    LET present == f.field \in DOMAIN x
        same(v) == \E i \in DOMAIN elements(x[f.field]) :
                       comparable(elements(x[f.field])[i], v) /\ elements(x[f.field])[i].v = v.v
    IN CASE f.op = "none" -> TRUE
         [] f.op = "term" -> present /\ same(f.value)
         [] f.op = "terms" -> present /\ \E v \in ToSet(f.values) : same(v)
         [] f.op = "range" ->
                /\ present
                /\ \A b \in DOMAIN f.range :
                       LET a == x[f.field].v
                           v == f.range[b].v
                       IN (b = "gt" => a > v) /\ (b = "gte" => a >= v) /\ (b = "lt" => a < v) /\ (b = "lte" => a <= v)
         [] f.op = "exists" -> present /\ (x[f.field].kind = "list" => x[f.field].v # <<>>)
         [] OTHER -> FALSE

\* What a filter means, whatever the order its clauses are looked at in.
means(f, x, meaning) ==
    IF f.op = "bool"
    THEN /\ \A c \in ToSet(f.must) : meaning[c][x]
         /\ ~ \E c \in ToSet(f.must_not) : meaning[c][x]
         /\ f.must # <<>> \/ f.should = <<>> \/ \E c \in ToSet(f.should) : meaning[c][x]
    ELSE holds(f, x)

satisfies[f \in Filter] == [x \in Row |-> means(f, x, satisfies)]

matching(rows, q) == {x \in rows : satisfies[q.filter][x]}

\* a is before b under the first sort field in which they differ.  As in the code,
\* a field that is not sortable, a list's, is passed over: it is not refused, as
\* docs/query-guide.md:146 has it.
sortable(x, field) == field \in DOMAIN x /\ x[field].kind # "list"
ahead(sort, a, b) ==
    \E k \in DOMAIN sort :
        /\ sortable(a, sort[k].field)
        /\ IF sort[k].desc THEN a[sort[k].field].v > b[sort[k].field].v
                           ELSE a[sort[k].field].v < b[sort[k].field].v
        /\ \A j \in 1..(k - 1) :
               sortable(a, sort[j].field) => a[sort[j].field].v = b[sort[j].field].v

\* The rows are ones that a page may hold, which has no limit unless the size is
\* positive (-1 asks for all rows, as 0 does in the code, and not for aggregations
\* only, as docs/architecture/api.md:55 has it): every match before the page is ahead
\* of, or level with, what is on it, and so is what is on it of every match after.
isPage(page, rows, q) ==
    LET all == matching(rows, q)
        left == IF q.from > Cardinality(all) THEN 0 ELSE Cardinality(all) - q.from
    IN /\ IsInjective(page) /\ ToSet(page) \subseteq all
       /\ Len(page) = IF q.size > 0 /\ q.size < left THEN q.size ELSE left
       /\ \A i \in DOMAIN page :
              /\ Cardinality({x \in all : ahead(q.sort, x, page[i])}) < q.from + i
              /\ Cardinality({x \in all : ~ahead(q.sort, page[i], x)}) >= q.from + i

\* For filters of every form, the hits of an answer are one page of the matches
\* in one state between request and answer (no row too many, none skipped, none
\* twice, none out of order), and its aggregations count every match in a state
\* that is not before that one: they may be ahead of the hits, never a part.
AnswersAreExact ==
    answered /\ response.status = 200 =>
        \E i \in during : \E j \in i..Len(moments) :
            /\ query.aggsOnly \/ isPage(response.hits, moments[i], query)
            /\ query.aggs = <<>> \/
                 response.aggregations = Evaluate(SetToSeq(matching(moments[j], query)), query.aggs)

\* A walk has come to its last page, in an order that tells all rows apart.
walked == /\ phase = "answered" /\ request.walk /\ response.status = 200
          /\ query.size > 0 /\ lastPage
          /\ \E s \in ToSet(query.sort) : s.field = "id"
pages == collected \o response.hits

\* While rows are only added, a walk skips none that was there when it began,
\* though each addition may shift the pages; and if nothing changes, its pages
\* are the result, each row once.
PagesSkipNothing ==
    walked =>
        /\ (\A i \in 1..(Len(moments) - 1) : moments[i] \subseteq moments[i + 1]) =>
               matching(moments[1], query) \subseteq ToSet(pages)
        /\ Len(moments) = 1 => IsInjective(pages) /\ ToSet(pages) = matching(store, query)

\* A GET that compares numeric fields with numbers, as the API documents, is
\* answered unless a query fails on its way.
comparesNumbers ==
    \A p \in request.params.filters :
        /\ \A x \in Row : x[p.field].kind \in {"int", "float"}
        /\ \A i \in DOMAIN p.vals : p.vals[i].parses \cap {"int", "float"} # {}
NumberFiltersAnswered ==
    answered /\ response.status = 500 /\ ~failed =>
        ~(request.method = "GET" /\ comparesNumbers)
=============================================================================
