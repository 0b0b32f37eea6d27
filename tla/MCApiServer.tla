----------------------------- MODULE MCApiServer -----------------------------
(* ApiServer for TLC: workflow runs, two with the same number, and one       *)
(* request for each way through the handlers, the parameters and the filters. *)
EXTENDS ApiQueries, Aggregator

row(id, number, status, duration, teams) ==
    [id |-> Value("string", id), number |-> Value("int", number), status |-> Value("string", status),
     duration |-> Value("float", duration), team_name |-> Value("list", teams)]

Stored == {row(1, 5, 1, 20, <<7>>), row(2, 5, 1, 60, <<7, 8>>)}
Rows == Stored \cup {row(1, 5, 2, 20, <<7>>), row(3, 4, 1, 40, <<>>)}
Fields == {"id", "number", "status", "duration", "team_name"}

text(v) == [parses |-> {}, v |-> v]
int(v) == [parses |-> {"int", "float"}, v |-> v]
float(v) == [parses |-> {"float"}, v |-> v]
asc(field) == [field |-> field, desc |-> FALSE]
desc(field) == [field |-> field, desc |-> TRUE]
where(field, suffix, vals) == [field |-> field, suffix |-> suffix, vals |-> vals]

NoParams == [size |-> <<>>, from |-> <<>>, sort |-> <<>>, filters |-> {}]
get(walk, size, from, sort, filters) ==
    [path |-> "entity", method |-> "GET", walk |-> walk, body |-> <<>>,
     params |-> [size |-> size, from |-> from, sort |-> sort, filters |-> filters]]
other(path, method) == [path |-> path, method |-> method, walk |-> FALSE, body |-> <<>>, params |-> NoParams]
post(q) == [other("entity", "POST") EXCEPT !.body = <<q>>]

bool(must, must_not, should) ==
    [op |-> "bool", must |-> must, must_not |-> must_not, should |-> should]
term(field, v) == [op |-> "term", field |-> field, value |-> v]
terms(field, aggs) == [op |-> "terms", field |-> field, aggs |-> aggs]
durations == [op |-> "histogram", field |-> "duration", bounds |-> <<30, 60>>, aggs |-> <<>>]
byTeam == [teams |-> terms("team_name", [durations |-> durations])]
search(filter, size, aggsOnly, aggs) ==
    [filter |-> filter, sort |-> <<asc("id")>>, from |-> 0, size |-> size, aggsOnly |-> aggsOnly, aggs |-> aggs]

ok == term("status", Value("string", 1))
long == [op |-> "range", field |-> "duration", range |-> [gte |-> Value("float", 40)]]

Requests == {
    get(TRUE, <<int(1)>>, <<>>, <<asc("number"), desc("id")>>, {}),
    get(TRUE, <<int(1)>>, <<>>, <<desc("number"), asc(""), asc("id")>>, {where("status", "", <<text(1)>>)}),
    get(FALSE, <<>>, <<int(1)>>, <<asc("team_name"), desc("duration")>>, {}),
    get(FALSE, <<int(0)>>, <<>>, <<>>, {where("duration", "gt", <<float(20)>>), where("duration", "lte", <<float(60)>>),
                                        where("team_name", "exists", <<text(0)>>)}),
    get(FALSE, <<>>, <<>>, <<>>, {where("number", "lt", <<float(5)>>), where("number", "gte", <<int(4)>>),
                                  where("status", "", <<text(1), text(2)>>)}),
    get(FALSE, <<>>, <<>>, <<>>, {where("team_name", "", <<text(8)>>), where("status", "", <<int(1)>>)}),
    get(FALSE, <<>>, <<>>, <<>>, {where("duration", "gte", <<int(40)>>)}),
    get(FALSE, <<>>, <<>>, <<>>, {where("owner", "", <<text(1)>>)}),
    get(FALSE, <<text(1)>>, <<>>, <<>>, {}),
    get(FALSE, <<int(-1)>>, <<int(1)>>, <<desc("id")>>, {}),
    other("entity", "POST"), other("entity", "PUT"), other("ownership", "POST"), other("ownership", "GET"),
    post(search(bool(<<>>, <<term("id", Value("string", 3))>>, <<ok, long>>), 1, FALSE, byTeam)),
    post(search(bool(<<ok>>, <<>>, <<term("id", Value("string", 3))>>), 0, TRUE, byTeam)),
    post(search(NoFilter, 0, FALSE, [times |-> [durations EXCEPT !.field = "status"]])),
    post(search(NoFilter, 0, TRUE, <<>>)),
    post(search(term("status", Nil), 0, FALSE, <<>>)),
    post(search([op |-> "range", field |-> "number", range |-> <<>>], 0, FALSE, <<>>)),
    post(search([op |-> "fuzzy", field |-> "status"], 0, FALSE, <<>>))}

AllQueries ==
    {EveryRow} \cup UNION {ToSet(r.body) : r \in Requests}
    \cup UNION {queriesOf(r, o) : r \in Requests, o \in 0..MaxOffset}

\* Filters with their clauses, and how deep those nest.
RECURSIVE nested(_), depth(_)
clausesOf(f) == IF f.op = "bool" THEN ToSet(f.must) \cup ToSet(f.must_not) \cup ToSet(f.should) ELSE {}
nested(f) == {f} \cup UNION {nested(c) : c \in clausesOf(f)}
depth(f) == IF f.op = "bool" THEN 1 + Max({0} \cup {depth(c) : c \in clausesOf(f)}) ELSE 0
AllFilters == UNION {nested(q.filter) : q \in AllQueries}

\* The same for aggregations.
RECURSIVE nestedAggs(_), nesting(_)
nestedAggs(aggs) == {aggs} \cup UNION {nestedAggs(aggs[name].aggs) : name \in DOMAIN aggs}
nesting(aggs) == Max({0} \cup {1 + nesting(aggs[name].aggs) : name \in DOMAIN aggs})
AllAggs == UNION {nestedAggs(q.aggs) : q \in AllQueries}
=============================================================================
