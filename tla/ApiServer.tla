------------------------------ MODULE ApiServer ------------------------------
(***************************************************************************)
(* The HTTP API (internal/api/server.go): a request is parsed, its hits    *)
(* are fetched, then its aggregations, as two queries of a store that      *)
(* ingestion changes meanwhile; a client may walk through a result page by *)
(* page.  Also the start and the shutdown of the server.  Only the header  *)
(* of a request has to arrive in time: a handler waits for the body of a   *)
(* POST, and for its client to take the answer, as long as that may take.  *)
(*                                                                         *)
(* A query is answered from one state of the store or fails: what          *)
(* QueryPromise says when no reply is lost.  What it answers is a          *)
(* parameter here and ApiQueries' subject.  Requests do not interact, so   *)
(* there is one at a time.                                                 *)
(***************************************************************************)
EXTENDS Integers, Sequences

CONSTANTS Row,         \* rows an upsert may store; row.id names the entity
          FirstRows,   \* rows stored at first
          Request,     \* requests clients make
          Query,       \* queries that requests become
          MaxWrites,   \* bound on upserts
          MaxOffset,   \* bound on where a page starts
          Queries(_, _),      \* request, offset -> what a GET may become; nothing if it is invalid
          Hits(_, _),         \* rows, query -> the pages it may fetch; none if it fails
          Aggregations(_, _)  \* rows, query -> its possible aggregations; none if they fail

EveryRow == [filter |-> [op |-> "none"], sort |-> <<>>, from |-> 0, size |-> 0,
             aggsOnly |-> FALSE, aggs |-> <<>>]

\* A request has a path ("entity" or "ownership"), a method, and the parameters
\* of a GET or the body of a POST (none if it cannot be decoded).  The client
\* of a walk goes on to the next page.
ASSUME ApiAssumption ==
    /\ FirstRows \subseteq Row /\ \A x, y \in FirstRows : x.id = y.id => x = y
    /\ MaxWrites \in Nat /\ MaxOffset \in Nat
    /\ \A r \in Request :
           /\ r.params.from # <<>> => r.params.from[1].v \in 0..MaxOffset
           /\ r.body # <<>> => r.body[1] \in Query
           /\ \A o \in 0..MaxOffset : Queries(r, o) \subseteq Query
    /\ EveryRow \in Query
    /\ \A q \in Query : q.size \in Int /\ \A rows \in SUBSET Row : Hits(rows, q) \subseteq Seq(Row)

VARIABLES store,      \* the rows of the entity
          phase,      \* "idle", "reading" a body, "received", "fetching", "aggregating",
                      \* "writing" the answer, or "answered" when the client has it
          request, query,
          hits,       \* the rows fetched
          response,   \* its status, hits and aggregations
          moments,    \* states of the store since the client's first request
          received,   \* index of the moment the current request was received in
          offset,     \* where the current page starts
          collected,  \* rows of the earlier pages of the walk
          failed,     \* whether a query failed on its way
          server, cancelled, returned, writes

call == <<request, query, hits, response, offset, collected, failed>>
ghosts == <<moments, received>>
service == <<server, cancelled, returned>>
vars == <<store, phase, call, ghosts, service, writes>>

None == [status |-> 0, hits |-> <<>>, aggregations |-> <<>>]

quiet == /\ phase = "idle" /\ query = EveryRow /\ hits = <<>> /\ response = None
         /\ moments = <<>> /\ received = 0 /\ offset = 0 /\ collected = <<>> /\ failed = FALSE

Init ==
    /\ store = FirstRows /\ request \in Request /\ quiet
    /\ server = "new" /\ cancelled = FALSE /\ returned = FALSE /\ writes = 0

\* The handler is at work, or waits for its client.
handling == phase \in {"reading", "received", "fetching", "aggregating", "writing"}

answered == phase \in {"writing", "answered"}

-----------------------------------------------------------------------------
\* Ingestion and clients (external).

Upsert ==
    /\ writes < MaxWrites /\ writes' = writes + 1
    /\ \E row \in Row \ store : store' = {x \in store : x.id # row.id} \cup {row}
    /\ moments' = IF phase = "idle" THEN moments ELSE Append(moments, store')
    /\ UNCHANGED <<phase, call, received, service>>

\* Where the page starts that a request asks for.
firstPage(r) == IF r.params.from = <<>> THEN 0 ELSE r.params.from[1].v

hasBody(r) == r.method = "POST" /\ r.path = "entity"

\* A handler starts as soon as it has the header of its request.
Send ==
    /\ server = "serving" /\ phase = "idle"
    /\ request' \in Request /\ moments' = <<store>> /\ received' = 1
    /\ phase' = IF hasBody(request') THEN "reading" ELSE "received"
    /\ offset' = firstPage(request')
    /\ UNCHANGED <<store, query, hits, response, collected, failed, service, writes>>

SendBody ==
    /\ phase = "reading" /\ phase' = "received"
    /\ UNCHANGED <<store, call, ghosts, service, writes>>

ReadAnswer ==
    /\ phase = "writing" /\ phase' = "answered"
    /\ UNCHANGED <<store, call, ghosts, service, writes>>

\* A page with as many rows as were asked for is followed by another request.
lastPage == \/ ~request.walk \/ response.status # 200
            \/ query.size <= 0 \/ Len(response.hits) < query.size

NextPage ==
    /\ server = "serving" /\ phase = "answered" /\ ~lastPage
    /\ phase' = "received" /\ received' = Len(moments)
    /\ offset + query.size <= MaxOffset /\ offset' = offset + query.size
    /\ collected' = collected \o response.hits
    /\ hits' = <<>> /\ response' = None
    /\ UNCHANGED <<store, request, query, moments, failed, service, writes>>

\* A client that has its answer leaves, or one that its handler waits for: that
\* ends the handler with an error that nobody gets.  (A query whose client leaves
\* fails, QueryFails.)
Leave ==
    /\ phase \in {"reading", "writing", "answered"}
    /\ phase' = "idle" /\ query' = EveryRow /\ hits' = <<>> /\ response' = None
    /\ moments' = <<>> /\ received' = 0 /\ offset' = 0 /\ collected' = <<>> /\ failed' = FALSE
    /\ UNCHANGED <<store, request, service, writes>>

-----------------------------------------------------------------------------
\* The handlers.

answer(status, rows, aggregations) ==
    /\ phase' = "writing"
    /\ response' = [status |-> status, hits |-> rows, aggregations |-> aggregations]

writeError(status) == answer(status, <<>>, <<>>)

fetch(q) ==
    /\ query' = q
    /\ phase' = IF q.aggsOnly THEN "aggregating" ELSE "fetching"
    /\ UNCHANGED response

HandleGet ==
    /\ phase = "received" /\ request.method = "GET" /\ request.path = "entity"
    /\ IF Queries(request, offset) = {} THEN writeError(400) /\ UNCHANGED query
       ELSE \E q \in Queries(request, offset) : fetch(q)
    /\ UNCHANGED <<store, request, hits, offset, collected, failed, ghosts, service, writes>>

HandlePost ==
    /\ phase = "received" /\ request.method = "POST" /\ request.path = "entity"
    /\ IF request.body = <<>> THEN writeError(400) /\ UNCHANGED query ELSE fetch(request.body[1])
    /\ UNCHANGED <<store, request, hits, offset, collected, failed, ghosts, service, writes>>

\* The diagnostics list every workflow.
HandleOwnership ==
    /\ phase = "received" /\ request.method = "GET" /\ request.path = "ownership"
    /\ fetch(EveryRow)
    /\ UNCHANGED <<store, request, hits, offset, collected, failed, ghosts, service, writes>>

MethodNotAllowed ==
    /\ phase = "received"
    /\ request.method # "GET" /\ (request.path = "entity" => request.method # "POST")
    /\ writeError(405)
    /\ UNCHANGED <<store, request, query, hits, offset, collected, failed, ghosts, service, writes>>

\* A client that has its hits asks for the aggregations, if there are any.
FetchHits ==
    /\ phase = "fetching"
    /\ IF Hits(store, query) = {} THEN writeError(500) /\ UNCHANGED hits
       ELSE \E rows \in Hits(store, query) :
                /\ hits' = rows
                /\ IF query.aggs = <<>> THEN answer(200, rows, <<>>)
                   ELSE phase' = "aggregating" /\ UNCHANGED response
    /\ UNCHANGED <<store, request, query, offset, collected, failed, ghosts, service, writes>>

\* Mutant: hits without their aggregations are better than nothing.
FetchAggregations_HitsAnyway ==
    /\ phase = "aggregating"
    /\ IF Aggregations(store, query) = {} THEN answer(200, hits, <<>>)
       ELSE \E a \in Aggregations(store, query) : answer(200, hits, a)
    /\ UNCHANGED <<store, request, query, hits, offset, collected, failed, ghosts, service, writes>>

FetchAggregations ==
    /\ phase = "aggregating"
    /\ IF Aggregations(store, query) = {} THEN writeError(500)
       ELSE \E a \in Aggregations(store, query) : answer(200, hits, a)
    /\ UNCHANGED <<store, request, query, hits, offset, collected, failed, ghosts, service, writes>>

\* Mutant: the deadline is one of the first query only.
QueryFails_FirstOnly ==
    /\ phase = "fetching"
    /\ failed' = TRUE
    /\ \E status \in {500, 504} : writeError(status)
    /\ UNCHANGED <<store, request, query, hits, offset, collected, ghosts, service, writes>>

\* A query fails on its way, or the deadline of the request passes.
QueryFails ==
    /\ phase \in {"fetching", "aggregating"}
    /\ failed' = TRUE
    /\ \E status \in {500, 504} : writeError(status)
    /\ UNCHANGED <<store, request, query, hits, offset, collected, ghosts, service, writes>>

-----------------------------------------------------------------------------
\* Run.

\* A server that cannot listen is logged.
Listen ==
    /\ server = "new"
    /\ server' \in {"serving", "failed"}
    /\ UNCHANGED <<store, phase, call, ghosts, cancelled, returned, writes>>

Cancel ==
    /\ ~cancelled /\ cancelled' = TRUE
    /\ UNCHANGED <<store, phase, call, ghosts, server, returned, writes>>

Shutdown ==
    /\ cancelled /\ server # "closing"
    /\ server' = "closing"
    /\ UNCHANGED <<store, phase, call, ghosts, cancelled, returned, writes>>

\* Mutant: Close instead of Shutdown, which does not wait.
Return_Close ==
    /\ server = "closing" /\ ~returned
    /\ returned' = TRUE
    /\ UNCHANGED <<store, phase, call, ghosts, server, cancelled, writes>>

\* Shutdown waits for the request that is being handled.
Return ==
    /\ server = "closing" /\ ~returned /\ ~handling
    /\ returned' = TRUE
    /\ UNCHANGED <<store, phase, call, ghosts, server, cancelled, writes>>

-----------------------------------------------------------------------------
Parse == HandleGet \/ HandlePost \/ HandleOwnership \/ MethodNotAllowed
Next ==
    \/ Upsert \/ Send \/ SendBody \/ ReadAnswer \/ NextPage \/ Leave
    \/ Parse \/ FetchHits \/ FetchAggregations \/ QueryFails
    \/ Listen \/ Cancel \/ Shutdown \/ Return

\* Handlers run and deadlines pass.  Neither that a query is answered is assumed
\* nor that a client ever sends what it announced or reads what it asked for.
Fairness ==
    /\ WF_vars(Parse) /\ WF_vars(QueryFails)
    /\ WF_vars(Shutdown) /\ WF_vars(Return)

Spec == Init /\ [][Next]_vars /\ Fairness

-----------------------------------------------------------------------------
\* Nothing is handled any more once Run has returned.
TypeOK ==
    /\ store \subseteq Row
    /\ \A x, y \in store : x.id = y.id => x = y
    /\ phase \in {"idle", "reading", "received", "fetching", "aggregating", "writing", "answered"}
    /\ request \in Request /\ query \in Query
    /\ {hits, collected, response.hits} \subseteq Seq(Row)
    /\ response.status \in {0, 200, 400, 405, 500, 504}
    /\ moments \in Seq(SUBSET Row) /\ received \in 0..Len(moments)
    /\ offset \in 0..MaxOffset /\ writes \in 0..MaxWrites
    /\ server \in {"new", "serving", "failed", "closing"}
    /\ {cancelled, returned, failed} \subseteq BOOLEAN
    /\ returned => ~handling

during == received..Len(moments)

\* What a successful answer says held in the store while the request was handled:
\* its hits in one moment and its aggregations in that moment or a later one,
\* however ingestion goes on between the two queries and between two pages.
AnswersAreOfTheirTime ==
    answered /\ response.status = 200 =>
        \E i \in during : \E j \in i..Len(moments) :
            /\ query.aggsOnly \/ response.hits \in Hits(moments[i], query)
            /\ query.aggs = <<>> \/ response.aggregations \in Aggregations(moments[j], query)

\* A client that the server waits for sends, reads or leaves in the end.
ClientsKeepUp == WF_vars(SendBody \/ ReadAnswer \/ Leave)

\* The stop waits for the request being handled, and no query may ever be answered:
\* its deadline holds for the hits and for the aggregations, so that only a client
\* that stalls keeps Run from returning.
StopsWhenClientsKeepUp == ClientsKeepUp => (cancelled ~> returned)
=============================================================================
