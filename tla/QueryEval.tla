------------------------------ MODULE QueryEval ------------------------------
(***************************************************************************)
(* The query engine (internal/domain/query/evaluator.go), the shared part  *)
(* of the in-memory repository's queries (repo/memory.go) and the URL      *)
(* parameters of the HTTP API (internal/api/query_params.go).              *)
(*                                                                         *)
(* A row maps fields to values.  Filters are records with an "op"; what a  *)
(* filter's clauses evaluate to is an argument of what it does itself.  A  *)
(* store is a set of rows.                                                 *)
(***************************************************************************)
EXTENDS Values, FiniteSets

NoFilter == [op |-> "none"]

\* The first error ends an evaluation, and so does the first result that settles
\* it; clauses after that are not looked at.
settle(results, stop, outcome, otherwise) ==
    LET first == SelectInSeq(results, LAMBDA r : r \in {"error", stop})
    IN IF first = 0 THEN otherwise ELSE IF results[first] = "error" THEN "error" ELSE outcome

matchAnyElement(list, candidates) ==
    settle([i \in DOMAIN list |->
                settle([j \in DOMAIN candidates |->
                            compareFieldValue(list[i], candidates[j], list[i].v = candidates[j].v)],
                       "yes", "yes", "no")],
           "yes", "yes", "no")

matchTerm(f, x) ==
    IF f.value = Nil THEN "error"
    ELSE IF f.field \notin DOMAIN x THEN "no"
    ELSE matchAnyElement(elements(x[f.field]), <<f.value>>)

matchTerms(f, x) ==
    IF f.field \notin DOMAIN x THEN "no" ELSE matchAnyElement(elements(x[f.field]), f.values)

\* range maps the bounds that are given to values.
within(fieldVal, bound, v) ==
    compareFieldValue(fieldVal, v,
        CASE bound = "gt" -> fieldVal.v > v.v [] bound = "gte" -> fieldVal.v >= v.v
          [] bound = "lt" -> fieldVal.v < v.v [] bound = "lte" -> fieldVal.v <= v.v)

\* A bound that is not given rules nothing out.
matchRange(f, x) ==
    LET bounds == <<"gt", "gte", "lt", "lte">>
        result(b) == IF b \in DOMAIN f.range THEN within(x[f.field], b, f.range[b]) ELSE "yes"
    IN IF f.range = <<>> THEN "error"
       ELSE IF f.field \notin DOMAIN x THEN "no"
       ELSE IF x[f.field].kind = "list" THEN "error"
       ELSE settle([i \in 1..4 |-> result(bounds[i])], "no", "no", "yes")

exists(f, x) ==
    verdict(f.field \in DOMAIN x /\ (x[f.field].kind = "list" => x[f.field].v # <<>>))

\* Filters without clauses.
matchField(f, x) ==
    CASE f.op = "none" -> "yes"
      [] f.op = "term" -> matchTerm(f, x)
      [] f.op = "terms" -> matchTerms(f, x)
      [] f.op = "range" -> matchRange(f, x)
      [] f.op = "exists" -> exists(f, x)
      [] OTHER -> "error"

\* Mutant: a should clause is required next to must clauses, too.
matchBool_ShouldAlways(must, must_not, should) ==
    settle(must, "no", "no",
           settle(must_not, "yes", "no",
                  IF should # <<>> THEN settle(should, "yes", "yes", "no") ELSE "yes"))

\* What the clauses evaluate to decides, one list after the other; should counts
\* only when there is no must.
matchBool(must, must_not, should) ==
    settle(must, "no", "no",
           settle(must_not, "yes", "no",
                  IF must = <<>> /\ should # <<>> THEN settle(should, "yes", "yes", "no") ELSE "yes"))

-----------------------------------------------------------------------------
\* Sorting and paging.

\* Mutant: only the first sort field counts.
Less_FirstField(sort, a, b) ==
    sort # <<>> /\ LET c == compareAny(valueOf(a, sort[1].field), valueOf(b, sort[1].field))
                   IN IF sort[1].desc THEN c > 0 ELSE c < 0

\* The first field in which two rows differ decides.
Less(sort, a, b) ==
    LET compare(k) == compareAny(valueOf(a, sort[k].field), valueOf(b, sort[k].field))
    IN \E k \in DOMAIN sort :
           /\ IF sort[k].desc THEN compare(k) > 0 ELSE compare(k) < 0
           /\ \A j \in 1..(k - 1) : compare(j) = 0

\* A stable sort.  Less is a strict weak order, as every row of an entity has
\* the same fields with values of the same kinds.
SortBy(rows, sort) ==
    LET before(j, i) == Less(sort, rows[j], rows[i]) \/ (j < i /\ ~Less(sort, rows[i], rows[j]))
        rank(i) == Cardinality({j \in DOMAIN rows : before(j, i)}) + 1
    IN [p \in DOMAIN rows |-> rows[CHOOSE i \in DOMAIN rows : rank(i) = p]]

\* Mutant: a page ends one row late.
Paginate_LongPage(rows, from, size) ==
    IF from >= Len(rows) THEN <<>>
    ELSE LET rest == SubSeq(rows, from + 1, Len(rows))
         IN IF size > 0 /\ size + 1 < Len(rest) THEN SubSeq(rest, 1, size + 1) ELSE rest

\* A size of 0 asks for all rows, and so does a negative one.  from is not
\* negative.
Paginate(rows, from, size) ==
    IF from >= Len(rows) THEN <<>>
    ELSE LET rest == SubSeq(rows, from + 1, Len(rows))
         IN IF size > 0 /\ size < Len(rest) THEN SubSeq(rest, 1, size) ELSE rest

-----------------------------------------------------------------------------
\* The in-memory repository's queries.

\* A snapshot of a map lists its values in any order, and so those that match.
snapshots(rows) == SetToSeqs(rows)

\* What a query that no row fails may answer: a page of the matching rows.
queryEntities(matches, q) ==
    {Paginate(SortBy(s, q.sort), q.from, q.size) : s \in snapshots(matches)}

\* Mutant: the aggregations are computed over the page, not over every match.
filterProject_Page(matches, q) == Paginate(SetToSeq(matches), q.from, q.size)

\* Sort and page do not concern the aggregations, nor does the order.
filterProject(matches, q) == SetToSeq(matches)

-----------------------------------------------------------------------------
\* URL parameters.  A text is [parses, v]: what it can be read as, and as which
\* value.  params holds size and from (a sequence of at most one text), sort
\* (tokens), and the filters, one for each key: [field, suffix, vals].

inferValue(text) ==
    Value(IF "time" \in text.parses THEN "time" ELSE IF "int" \in text.parses THEN "int"
          ELSE IF "float" \in text.parses THEN "float" ELSE "string", text.v)

parseSortFields(tokens) == SelectSeq(tokens, LAMBDA t : t.field # "")

termClause(p) ==
    IF Len(p.vals) = 1 THEN [op |-> "term", field |-> p.field, value |-> inferValue(p.vals[1])]
    ELSE [op |-> "terms", field |-> p.field, values |-> [i \in DOMAIN p.vals |-> inferValue(p.vals[i])]]

\* The bounds of a field are one clause; of several values of a bound the first counts.
rangeClause(filters, field) ==
    LET bounds == {p \in filters : p.field = field /\ p.suffix \in {"gt", "gte", "lt", "lte"}}
    IN [op |-> "range", field |-> field,
        range |-> [b \in {p.suffix : p \in bounds} |->
                      inferValue((CHOOSE p \in bounds : p.suffix = b).vals[1])]]

termClauses(filters) == {termClause(p) : p \in {x \in filters : x.suffix = ""}}
rangeClauses(filters) ==
    {rangeClause(filters, p.field) : p \in {x \in filters : x.suffix \in {"gt", "gte", "lt", "lte"}}}
existsClauses(filters) ==
    {[op |-> "exists", field |-> p.field] : p \in {x \in filters : x.suffix = "exists"}}

\* Term clauses come first, then ranges, then exists; each kind comes out of a Go
\* map, in any order.
clauses(filters) ==
    {t \o r \o e : t \in SetToSeqs(termClauses(filters)), r \in SetToSeqs(rangeClauses(filters)),
                  e \in SetToSeqs(existsClauses(filters))}

allOf(sequence) ==
    CASE sequence = <<>> -> NoFilter
      [] Len(sequence) = 1 -> sequence[1]
      [] OTHER -> [op |-> "bool", must |-> sequence, must_not |-> <<>>, should |-> <<>>]

invalid(params, known) ==
    \/ \E text \in ToSet(params.size) \cup ToSet(params.from) : "int" \notin text.parses
    \/ \E p \in params.filters : p.field \notin known

\* The queries that valid parameters may become.
parseQueryParams(params, defaultSize) ==
    {[filter |-> allOf(s), sort |-> parseSortFields(params.sort), aggsOnly |-> FALSE, aggs |-> <<>>,
      from |-> IF params.from = <<>> THEN 0 ELSE params.from[1].v,
      size |-> IF params.size = <<>> THEN defaultSize ELSE params.size[1].v]
       : s \in clauses(params.filters)}
=============================================================================
