--------------------------- MODULE ApiServerProofs ---------------------------
(***************************************************************************)
(* What answers of the API are, for any number of requests, rows, writes   *)
(* and pages, and filters of any form:                                     *)
(*   - hits and aggregations held in the store while their request was     *)
(*     handled, whatever the query engine computes (AnswersOfTheirTime);   *)
(*   - hits are one page of the rows that the filter means, and            *)
(*     aggregations count all of them (AnswersExact);                      *)
(*   - a walk through the pages skips no row (PagesSkip).                  *)
(*                                                                         *)
(* The last moment is the store as it is, so what a query answers is of    *)
(* the last moment at that time; moments are only added, so it stays of    *)
(* one of them, and what is fetched later is of the same or a later one.   *)
(* An evaluation without an error tells what its filter means, by          *)
(* induction over the depth of the filter; a sort is a strict weak order,  *)
(* so a page can be told by how many matches are ahead of its rows.  In a  *)
(* walk, where an id tells all rows apart, that number is a row's          *)
(* position, which additions only increase: a match not yet collected      *)
(* never falls behind the walk.                                            *)
(***************************************************************************)
EXTENDS ApiQueries, FiniteSetTheorems, SequenceTheorems, WellFoundedInduction, TLAPS

\* The moments of a request end with the present.
MomentsEndNow ==
    phase # "idle" => received >= 1 /\ received <= Len(moments) /\ moments[Len(moments)] = store

\* Hits that wait for their aggregations.
HitsAreOfTheirTime ==
    phase = "aggregating" /\ ~query.aggsOnly =>
        \E i \in during : hits \in Hits(moments[i], query)

\* Run returns after it has closed the server, which takes no request any more.
ClosedFirst == returned => server = "closing"

\* They and the type invariant keep each other.
IndInv == TypeOK /\ MomentsEndNow /\ HitsAreOfTheirTime /\ AnswersAreOfTheirTime /\ ClosedFirst

\* Nothing has been asked at first.
LEMMA InitInv == Init => IndInv
  <1> SUFFICES ASSUME Init  PROVE IndInv
    OBVIOUS
  <1>1. phase = "idle" /\ moments = <<>> /\ hits = <<>> /\ collected = <<>> /\ response = None
    BY DEF Init, quiet
  <1>2. query \in Query /\ offset \in 0..MaxOffset /\ received \in 0..Len(moments) /\ writes \in 0..MaxWrites
    BY <1>1, ApiAssumption DEF Init, quiet
  <1>3. {hits, collected, response.hits} \subseteq Seq(Row) /\ moments \in Seq(SUBSET Row)
    BY <1>1 DEF None
  <1>4. response.status = 0  BY <1>1 DEF None
  <1>5. TypeOK
    BY <1>1, <1>2, <1>3, <1>4, ApiAssumption DEF TypeOK, Init, quiet, handling
  <1> QED
    BY <1>1, <1>5 DEF IndInv, MomentsEndNow, HitsAreOfTheirTime, AnswersAreOfTheirTime, answered, Init, ClosedFirst

-----------------------------------------------------------------------------
\* Ingestion and clients.

\* The sequence of moments with one more.
LEMMA OneMore ==
    ASSUME NEW S, NEW s \in Seq(S), NEW x \in S
    PROVE  /\ Append(s, x) \in Seq(S) /\ Len(Append(s, x)) = Len(s) + 1 /\ Len(s) \in Nat
           /\ \A i \in 1..Len(s) : Append(s, x)[i] = s[i]
           /\ Append(s, x)[Len(s) + 1] = x
  BY AppendProperties

\* A row that is stored adds a moment; what held in an earlier one still did.
LEMMA UpsertInv ==
    ASSUME IndInv, Upsert  PROVE IndInv'
  <1>1. TypeOK /\ MomentsEndNow /\ HitsAreOfTheirTime /\ AnswersAreOfTheirTime /\ ClosedFirst
    BY DEF IndInv
  <1>2. PICK row \in Row \ store : store' = {x \in store : x.id # row.id} \cup {row}
    BY DEF Upsert
  <1>3. UNCHANGED <<phase, request, query, hits, response, offset, collected, failed, received,
                    server, cancelled, returned>>
    BY DEF Upsert, call, service
  <1>4. store' \subseteq Row /\ \A x, y \in store' : x.id = y.id => x = y
    BY <1>1, <1>2 DEF TypeOK
  <1>5. writes' \in 0..MaxWrites
    BY <1>1, ApiAssumption DEF TypeOK, Upsert
  <1>5a. ClosedFirst'  BY <1>1, <1>3 DEF ClosedFirst
  <1>6. CASE phase = "idle"
    <2>1. moments' = moments  BY <1>6 DEF Upsert
    <2>2. TypeOK'  BY <1>1, <1>3, <1>4, <1>5, <2>1 DEF TypeOK, handling
    <2> QED
      BY <1>3, <1>5a, <1>6, <2>2 DEF IndInv, MomentsEndNow, HitsAreOfTheirTime, AnswersAreOfTheirTime, answered
  <1>7. CASE phase # "idle"
    <2>1. /\ moments' \in Seq(SUBSET Row) /\ Len(moments) \in Nat /\ Len(moments') = Len(moments) + 1
          /\ \A i \in 1..Len(moments) : moments'[i] = moments[i]
          /\ moments'[Len(moments) + 1] = store'
      <3>1. moments' = Append(moments, store') /\ store' \in SUBSET Row /\ moments \in Seq(SUBSET Row)
        BY <1>1, <1>4, <1>7 DEF Upsert, TypeOK
      <3> QED  BY <3>1, OneMore
    <2>2. received \in 1..Len(moments)  BY <1>1, <1>7, <2>1 DEF MomentsEndNow, TypeOK
    <2>3. TypeOK'
      <3>1. received' \in 0..Len(moments')  BY <1>3, <2>1, <2>2
      <3> QED  BY <1>1, <1>3, <1>4, <1>5, <2>1, <3>1 DEF TypeOK, handling
    <2>4. MomentsEndNow'  BY <1>3, <2>1, <2>2 DEF MomentsEndNow
    <2>5. \A i \in during : i \in during' /\ moments'[i] = moments[i]
      BY <1>3, <2>1, <2>2 DEF during
    <2>6. HitsAreOfTheirTime'  BY <1>1, <1>3, <2>5 DEF HitsAreOfTheirTime
    <2>7. AnswersAreOfTheirTime'
      <3> SUFFICES ASSUME answered, response.status = 200
                   PROVE  AnswersAreOfTheirTime'
        BY <1>3 DEF AnswersAreOfTheirTime, answered
      <3>1a. PICK i \in during : \E j \in i..Len(moments) :
                /\ query.aggsOnly \/ response.hits \in Hits(moments[i], query)
                /\ query.aggs = <<>> \/ response.aggregations \in Aggregations(moments[j], query)
        BY <1>1 DEF AnswersAreOfTheirTime
      <3>1. PICK j \in i..Len(moments) :
                /\ query.aggsOnly \/ response.hits \in Hits(moments[i], query)
                /\ query.aggs = <<>> \/ response.aggregations \in Aggregations(moments[j], query)
        BY <3>1a
      <3>2. j \in during /\ j \in i..Len(moments')
        BY <2>1, <2>2, <3>1 DEF during
      <3>3. i \in during' /\ moments'[i] = moments[i] /\ moments'[j] = moments[j]
        BY <2>5, <3>1, <3>2
      <3> QED  BY <1>3, <3>1, <3>2, <3>3 DEF AnswersAreOfTheirTime
    <2> QED  BY <1>5a, <2>3, <2>4, <2>6, <2>7 DEF IndInv
  <1> QED  BY <1>6, <1>7

\* A request begins with the present as its only moment; the next page goes on
\* from the last one.
LEMMA ClientInv ==
    ASSUME IndInv, Send \/ SendBody \/ ReadAnswer \/ NextPage \/ Leave  PROVE IndInv'
  <1>1. TypeOK /\ MomentsEndNow /\ ClosedFirst  BY DEF IndInv
  <1>2. UNCHANGED service  BY DEF Send, SendBody, ReadAnswer, NextPage, Leave
  <1>2a. ClosedFirst'  BY <1>1, <1>2 DEF ClosedFirst, service
  <1>3. ASSUME phase' \in {"idle", "reading", "received"}
        PROVE  HitsAreOfTheirTime' /\ AnswersAreOfTheirTime' /\ ClosedFirst'
    BY <1>2a, <1>3 DEF HitsAreOfTheirTime, AnswersAreOfTheirTime, answered
  <1>4. CASE Send
    <2>1. /\ moments' = <<store>> /\ received' = 1 /\ store' = store /\ request' \in Request
          /\ UNCHANGED <<store, query, hits, response, collected, failed, server, cancelled, returned, writes>>
      BY <1>4 DEF Send, service
    <2>2. moments' \in Seq(SUBSET Row) /\ Len(moments') = 1 /\ moments'[1] = store'
      BY <1>1, <2>1 DEF TypeOK
    <2>3. offset' \in 0..MaxOffset  BY <1>4, <2>1, ApiAssumption DEF Send, firstPage
    <2>4. phase' \in {"reading", "received"} /\ ~returned
      BY <1>1, <1>4 DEF Send, ClosedFirst
    <2>5. TypeOK'  BY <1>1, <2>1, <2>2, <2>3, <2>4 DEF TypeOK
    <2>6. MomentsEndNow'  BY <2>1, <2>2 DEF MomentsEndNow
    <2> QED  BY <1>3, <2>4, <2>5, <2>6 DEF IndInv
  <1>5. CASE NextPage
    <2>1. /\ phase = "answered" /\ phase' = "received" /\ received' = Len(moments)
          /\ offset' = offset + query.size /\ offset + query.size <= MaxOffset /\ ~(query.size <= 0)
          /\ collected' = collected \o response.hits /\ hits' = <<>> /\ response' = None
          /\ UNCHANGED <<store, request, query, moments, failed, server, cancelled, returned, writes>>
      BY <1>5 DEF NextPage, lastPage, service
    <2>2. moments \in Seq(SUBSET Row) /\ Len(moments) \in Nat /\ received \in Nat
      BY <1>1 DEF TypeOK
    <2>3. Len(moments) >= 1 /\ moments[Len(moments)] = store
      BY <1>1, <2>1, <2>2 DEF MomentsEndNow
    <2>4. offset' \in 0..MaxOffset
      <3>1. query.size \in Int /\ offset \in Nat  BY <1>1, ApiAssumption DEF TypeOK
      <3> QED  BY <2>1, <3>1, ApiAssumption
    <2>5. {hits', collected', response'.hits} \subseteq Seq(Row) /\ response'.status = 0
      BY <1>1, <2>1, ConcatProperties DEF TypeOK, None
    <2>6. TypeOK'
      <3>1. ~returned  BY <1>1, <1>5 DEF NextPage, ClosedFirst
      <3>2. received' \in 0..Len(moments')  BY <2>1, <2>2
      <3> QED  BY <1>1, <2>1, <2>4, <2>5, <3>1, <3>2 DEF TypeOK
    <2>7. MomentsEndNow'  BY <2>1, <2>2, <2>3 DEF MomentsEndNow
    <2> QED  BY <1>3, <2>1, <2>6, <2>7 DEF IndInv
  <1>6. CASE Leave
    <2>1. /\ phase' = "idle" /\ query' = EveryRow /\ hits' = <<>> /\ response' = None
          /\ moments' = <<>> /\ received' = 0 /\ offset' = 0 /\ collected' = <<>> /\ failed' = FALSE
          /\ UNCHANGED <<store, request, server, cancelled, returned, writes>>
      BY <1>6 DEF Leave, service
    <2>2. {hits', collected', response'.hits} \subseteq Seq(Row) /\ response'.status = 0
      BY <2>1 DEF None
    <2>3. offset' \in 0..MaxOffset /\ received' \in 0..Len(moments') /\ query' \in Query
      BY <2>1, ApiAssumption
    <2>4. TypeOK'
      <3>1. moments' \in Seq(SUBSET Row) /\ ~handling'  BY <2>1 DEF handling
      <3>2. failed' \in BOOLEAN  BY <2>1
      <3> QED  BY <1>1, <2>1, <2>2, <2>3, <3>1, <3>2 DEF TypeOK
    <2> QED  BY <1>3, <2>1, <2>4 DEF IndInv, MomentsEndNow
  <1>7. CASE SendBody \/ ReadAnswer
    <2>1. /\ UNCHANGED <<store, request, query, hits, response, moments, received, offset, collected, failed,
                         server, cancelled, returned, writes>>
          /\ \/ phase = "reading" /\ phase' = "received"
             \/ phase = "writing" /\ phase' = "answered"
      BY <1>7 DEF SendBody, ReadAnswer, call, ghosts, service
    <2>2. TypeOK'
      <3>1. ~returned  BY <1>1, <2>1 DEF TypeOK, handling
      <3> QED  BY <1>1, <2>1, <3>1 DEF TypeOK
    <2>3. MomentsEndNow'  BY <1>1, <2>1 DEF MomentsEndNow
    <2>4. HitsAreOfTheirTime'  BY <2>1 DEF HitsAreOfTheirTime
    <2>5. AnswersAreOfTheirTime'
      <3>1. AnswersAreOfTheirTime  BY DEF IndInv
      <3>2. answered' => answered  BY <2>1 DEF answered
      <3>3. during' = during  BY <2>1 DEF during
      <3> QED  BY <2>1, <3>1, <3>2, <3>3 DEF AnswersAreOfTheirTime
    <2> QED  BY <1>2a, <2>2, <2>3, <2>4, <2>5 DEF IndInv
  <1> QED  BY <1>4, <1>5, <1>6, <1>7

-----------------------------------------------------------------------------
\* The handlers.

\* What a handler may do: it goes on to phase p with the query q, the hits h and
\* the answer a.
handlerBecomes(p, q, h, a) ==
    /\ phase' = p /\ p \in {"fetching", "aggregating", "writing"}
    /\ query' = q /\ q \in Query
    /\ hits' = h /\ h \in Seq(Row)
    /\ response' = a /\ a.hits \in Seq(Row) /\ a.status \in {0, 200, 400, 405, 500, 504}
    /\ failed' \in BOOLEAN
    /\ UNCHANGED <<store, request, offset, collected, ghosts, service, writes>>

\* So a step keeps types and moments.
LEMMA HandlerStep ==
    ASSUME IndInv, handling, NEW p, NEW q, NEW h, NEW a, handlerBecomes(p, q, h, a),
           HitsAreOfTheirTime', AnswersAreOfTheirTime'
    PROVE  IndInv'
  <1>1. TypeOK /\ MomentsEndNow /\ ClosedFirst  BY DEF IndInv
  <1>2. UNCHANGED <<store, request, offset, collected, moments, received, server, cancelled, returned, writes>>
    BY DEF handlerBecomes, ghosts, service
  <1>3. ~returned /\ phase # "idle"  BY <1>1 DEF TypeOK, handling
  <1>4. TypeOK'  BY <1>1, <1>2, <1>3 DEF handlerBecomes, TypeOK
  <1>5. MomentsEndNow' /\ ClosedFirst'  BY <1>1, <1>2, <1>3 DEF MomentsEndNow, ClosedFirst
  <1> QED  BY <1>4, <1>5 DEF IndInv

\* The present is a moment of a request that is being handled.
LEMMA Present ==
    ASSUME IndInv, phase # "idle"
    PROVE  /\ Len(moments) \in during /\ moments[Len(moments)] = store
           /\ \A i \in during : i \in Nat /\ Len(moments) \in i..Len(moments)
  <1>1. received \in Nat /\ Len(moments) \in Nat /\ received <= Len(moments)
    BY DEF IndInv, TypeOK, MomentsEndNow
  <1> QED  BY <1>1 DEF IndInv, MomentsEndNow, during

\* An error is an answer without rows.
LEMMA ErrorInv ==
    ASSUME IndInv, handling, NEW status \in {400, 405, 500, 504}, writeError(status),
           UNCHANGED <<query, hits>>, failed' \in BOOLEAN,
           UNCHANGED <<store, request, offset, collected, ghosts, service, writes>>
    PROVE  IndInv'
  <1> DEFINE a == [status |-> status, hits |-> <<>>, aggregations |-> <<>>]
  <1>1. phase' = "writing" /\ response' = a /\ a.status = status /\ a.hits = <<>>
    BY DEF writeError, answer
  <1>2. query \in Query /\ hits \in Seq(Row)  BY DEF IndInv, TypeOK
  <1>3. handlerBecomes("writing", query, hits, a)  BY <1>1, <1>2 DEF handlerBecomes
  <1>4. HitsAreOfTheirTime' /\ AnswersAreOfTheirTime'
    BY <1>1 DEF HitsAreOfTheirTime, AnswersAreOfTheirTime
  <1> QED  BY <1>3, <1>4, HandlerStep

\* Parsing fetches nothing yet.
LEMMA FetchInv ==
    ASSUME IndInv, handling, NEW q \in Query, fetch(q),
           UNCHANGED <<store, request, hits, offset, collected, failed, ghosts, service, writes>>
    PROVE  IndInv'
  <1>1. /\ hits \in Seq(Row) /\ response.hits \in Seq(Row) /\ failed \in BOOLEAN
        /\ response.status \in {0, 200, 400, 405, 500, 504}
    BY DEF IndInv, TypeOK
  <1>2. /\ phase' = (IF q.aggsOnly THEN "aggregating" ELSE "fetching")
        /\ query' = q /\ response' = response
    BY DEF fetch
  <1>3. handlerBecomes(phase', q, hits, response)  BY <1>1, <1>2 DEF handlerBecomes
  <1>4. HitsAreOfTheirTime' /\ AnswersAreOfTheirTime'
    BY <1>2 DEF HitsAreOfTheirTime, AnswersAreOfTheirTime, answered
  <1> QED  BY <1>3, <1>4, HandlerStep

\* Parsing ends with an error or fetches for a query.
LEMMA ParseInv ==
    ASSUME IndInv, Parse  PROVE IndInv'
  <1>1. TypeOK  BY DEF IndInv
  <1>2. handling /\ failed \in BOOLEAN
    BY <1>1 DEF Parse, HandleGet, HandlePost, HandleOwnership, MethodNotAllowed, handling, TypeOK
  <1>3. UNCHANGED <<store, request, hits, offset, collected, failed, ghosts, service, writes>>
    BY DEF Parse, HandleGet, HandlePost, HandleOwnership, MethodNotAllowed
  <1>4. ASSUME NEW status \in {400, 405}, writeError(status), UNCHANGED query  PROVE IndInv'
    BY <1>2, <1>3, <1>4, ErrorInv
  <1>5. ASSUME NEW q \in Query, fetch(q)  PROVE IndInv'
    BY <1>2, <1>3, <1>5, FetchInv
  <1>6. CASE HandleGet
    <2>1. Queries(request, offset) \subseteq Query  BY <1>1, ApiAssumption DEF TypeOK
    <2> QED  BY <1>4, <1>5, <1>6, <2>1 DEF HandleGet
  <1>7. CASE HandlePost
    <2>1. request.body # <<>> => request.body[1] \in Query  BY <1>1, ApiAssumption DEF TypeOK
    <2> QED  BY <1>4, <1>5, <1>7, <2>1 DEF HandlePost
  <1>8. CASE HandleOwnership
    BY <1>5, <1>8, ApiAssumption DEF HandleOwnership
  <1>9. CASE MethodNotAllowed
    BY <1>4, <1>9 DEF MethodNotAllowed
  <1> QED  BY <1>6, <1>7, <1>8, <1>9 DEF Parse

\* What the store answers now is of the last moment.
LEMMA FetchHitsInv ==
    ASSUME IndInv, FetchHits  PROVE IndInv'
  <1>1. TypeOK  BY DEF IndInv
  <1>2. handling /\ phase # "idle" /\ failed \in BOOLEAN /\ query \in Query /\ hits \in Seq(Row)
    BY <1>1 DEF FetchHits, handling, TypeOK
  <1>3. UNCHANGED <<store, request, query, offset, collected, failed, ghosts, service, writes>>
    BY DEF FetchHits
  <1>4. CASE Hits(store, query) = {}
    BY <1>2, <1>3, <1>4, ErrorInv DEF FetchHits
  <1>5. CASE Hits(store, query) # {}
    <2>1. PICK rows \in Hits(store, query) :
              /\ hits' = rows
              /\ IF query.aggs = <<>> THEN answer(200, rows, <<>>)
                 ELSE phase' = "aggregating" /\ UNCHANGED response
      BY <1>5 DEF FetchHits
    <2>2. rows \in Seq(Row)
      <3>1. store \in SUBSET Row  BY <1>1 DEF TypeOK
      <3>2. Hits(store, query) \subseteq Seq(Row)  BY <1>2, <3>1, ApiAssumption
      <3> QED  BY <3>2
    <2>3. moments' = moments /\ during' = during  BY <1>3 DEF ghosts, during
    <2>4. Len(moments) \in during /\ rows \in Hits(moments[Len(moments)], query)
      BY <1>2, Present
    <2>5. CASE query.aggs = <<>>
      <3> PICK a : a = [status |-> 200, hits |-> rows, aggregations |-> <<>>]
        OBVIOUS
      <3>1. phase' = "writing" /\ response' = a /\ a.status = 200 /\ a.hits = rows
        BY <2>1, <2>5 DEF answer
      <3>2. handlerBecomes("writing", query, rows, a)
        BY <1>2, <1>3, <2>1, <2>2, <3>1 DEF handlerBecomes
      <3>3. HitsAreOfTheirTime'  BY <3>1 DEF HitsAreOfTheirTime
      <3>4. AnswersAreOfTheirTime'
        <4>1. Len(moments) \in Len(moments)..Len(moments)  BY <1>2, <2>4, Present
        <4> QED  BY <1>3, <2>3, <2>4, <2>5, <3>1, <4>1 DEF AnswersAreOfTheirTime
      <3> QED  BY <1>2, <3>2, <3>3, <3>4, HandlerStep
    <2>6. CASE query.aggs # <<>>
      <3>1. phase' = "aggregating" /\ response' = response  BY <2>1, <2>6
      <3>2. response.hits \in Seq(Row) /\ response.status \in {0, 200, 400, 405, 500, 504}
        BY <1>1 DEF TypeOK
      <3>3. handlerBecomes("aggregating", query, rows, response)
        BY <1>2, <1>3, <2>1, <2>2, <3>1, <3>2 DEF handlerBecomes
      <3>4. HitsAreOfTheirTime'  BY <1>3, <2>1, <2>3, <2>4 DEF HitsAreOfTheirTime
      <3>5. AnswersAreOfTheirTime'  BY <3>1 DEF AnswersAreOfTheirTime, answered
      <3> QED  BY <1>2, <3>3, <3>4, <3>5, HandlerStep
    <2> QED  BY <2>5, <2>6
  <1> QED  BY <1>4, <1>5

\* The aggregations are of the last moment, which is not before that of the hits.
LEMMA FetchAggregationsInv ==
    ASSUME IndInv, FetchAggregations  PROVE IndInv'
  <1>1. TypeOK /\ HitsAreOfTheirTime  BY DEF IndInv
  <1>2. handling /\ phase = "aggregating" /\ failed \in BOOLEAN /\ query \in Query /\ hits \in Seq(Row)
    BY <1>1 DEF FetchAggregations, handling, TypeOK
  <1>3. UNCHANGED <<store, request, query, hits, offset, collected, failed, ghosts, service, writes>>
    BY DEF FetchAggregations
  <1>4. CASE Aggregations(store, query) = {}
    BY <1>2, <1>3, <1>4, ErrorInv DEF FetchAggregations
  <1>5. CASE Aggregations(store, query) # {}
    <2>1. PICK g \in Aggregations(store, query) : answer(200, hits, g)
      BY <1>5 DEF FetchAggregations
    <2> PICK a : a = [status |-> 200, hits |-> hits, aggregations |-> g]
      OBVIOUS
    <2>2. phase' = "writing" /\ response' = a /\ a.status = 200 /\ a.hits = hits /\ a.aggregations = g
      BY <2>1 DEF answer
    <2>3. handlerBecomes("writing", query, hits, a)
      BY <1>2, <1>3, <2>2 DEF handlerBecomes
    <2>4. HitsAreOfTheirTime'  BY <2>2 DEF HitsAreOfTheirTime
    <2>5. AnswersAreOfTheirTime'
      <3>1. moments' = moments /\ during' = during  BY <1>3 DEF ghosts, during
      <3>2. g \in Aggregations(moments[Len(moments)], query)  BY <1>2, Present
      <3>3. PICK i \in during : query.aggsOnly \/ hits \in Hits(moments[i], query)
        BY <1>1, <1>2, Present DEF HitsAreOfTheirTime
      <3>4. Len(moments) \in i..Len(moments)  BY <1>2, Present
      <3> QED  BY <1>3, <2>2, <3>1, <3>2, <3>3, <3>4 DEF AnswersAreOfTheirTime
    <2> QED  BY <1>2, <2>3, <2>4, <2>5, HandlerStep
  <1> QED  BY <1>4, <1>5

\* A query that fails ends its request with an error.
LEMMA QueryFailsInv ==
    ASSUME IndInv, QueryFails  PROVE IndInv'
  <1>1. handling  BY DEF QueryFails, handling
  <1>2. PICK status \in {500, 504} : writeError(status)  BY DEF QueryFails
  <1> QED  BY <1>1, <1>2, ErrorInv DEF QueryFails

-----------------------------------------------------------------------------
\* The server's own steps leave the request that is being handled alone.
LEMMA RunInv ==
    ASSUME IndInv, Listen \/ Cancel \/ Shutdown \/ Return \/ UNCHANGED vars
    PROVE  IndInv'
  <1>1. TypeOK /\ MomentsEndNow /\ HitsAreOfTheirTime /\ AnswersAreOfTheirTime /\ ClosedFirst
    BY DEF IndInv
  <1>2. UNCHANGED <<store, phase, call, ghosts, writes>>
    BY DEF Listen, Cancel, Shutdown, Return, vars
  <1>3. UNCHANGED <<store, phase, request, query, hits, response, offset, collected, failed,
                    moments, received, writes>>
    BY <1>2 DEF call, ghosts
  <1>4. /\ server' \in {"new", "serving", "failed", "closing"}
        /\ {cancelled', returned'} \subseteq BOOLEAN
        /\ returned' => ~handling
        /\ ClosedFirst'
    <2>1. CASE Listen  BY <1>1, <2>1 DEF TypeOK, Listen, ClosedFirst
    <2>2. CASE Cancel  BY <1>1, <2>2 DEF TypeOK, Cancel, ClosedFirst
    <2>3. CASE Shutdown  BY <1>1, <2>3 DEF TypeOK, Shutdown, ClosedFirst
    <2>4. CASE Return  BY <1>1, <2>4 DEF TypeOK, Return, ClosedFirst
    <2>5. CASE UNCHANGED vars  BY <1>1, <2>5 DEF TypeOK, ClosedFirst, vars, service
    <2> QED  BY <2>1, <2>2, <2>3, <2>4, <2>5
  <1>5. TypeOK'  BY <1>1, <1>3, <1>4 DEF TypeOK, handling
  <1>6. MomentsEndNow' /\ HitsAreOfTheirTime' /\ AnswersAreOfTheirTime'
    BY <1>1, <1>3 DEF MomentsEndNow, HitsAreOfTheirTime, AnswersAreOfTheirTime, answered, during
  <1> QED  BY <1>4, <1>5, <1>6 DEF IndInv

\* Every step keeps the invariant.
LEMMA StepInv == IndInv /\ [Next]_vars => IndInv'
  BY UpsertInv, ClientInv, ParseInv, FetchHitsInv, FetchAggregationsInv, QueryFailsInv, RunInv DEF Next

\* So the invariant holds whatever requests come.
THEOREM IndInvHolds == Spec => []IndInv
  <1> QED  BY InitInv, StepInv, PTL DEF Spec

\* Requests, queries and answers have their types, and nothing is handled any more
\* once Run has returned.
THEOREM TypeCorrect == Spec => []TypeOK
  <1>1. IndInv => TypeOK  BY DEF IndInv
  <1> QED  BY <1>1, IndInvHolds, PTL

\* Whatever the engine answers, a response puts together what held in one moment of
\* its request with what held in that moment or a later one.
THEOREM AnswersOfTheirTime == Spec => []AnswersAreOfTheirTime
  <1>1. IndInv => AnswersAreOfTheirTime  BY DEF IndInv
  <1> QED  BY <1>1, IndInvHolds, PTL

-----------------------------------------------------------------------------
\* Filters: what an evaluation comes to.

\* A set of numbers has a least one.
LEMMA NatMin ==
    ASSUME NEW T \in SUBSET Nat, T # {}
    PROVE  \E m \in T : \A n \in T : m <= n
  <1> DEFINE R == OpToRel(<, Nat)
  <1>1. IsWellFoundedOn(R, Nat)  BY NatLessThanWellFounded
  <1>2. \A x, y \in Nat : y < x => <<y, x>> \in R  BY DEF OpToRel
  <1> HIDE DEF R
  <1>3. PICK m \in T : \A n \in T : <<n, m>> \notin R  BY <1>1, WFMin
  <1>4. \A n \in T : ~(n < m)  BY <1>2, <1>3
  <1>5. \A n \in T : m <= n  BY <1>4
  <1> QED  BY <1>5

\* It is what Min returns.
LEMMA MinOf ==
    ASSUME NEW T \in SUBSET Nat, T # {}
    PROVE  Min(T) \in T /\ \A n \in T : Min(T) <= n
  BY NatMin DEF Min

\* What a filter comes to depends on the filters that nest less deep only.
LooksAtClauses(F, S) ==
    \A f \in Filter : \A g, h \in [Filter -> S] :
        (\A c \in Filter : Depth(c) < Depth(f) => g[c] = h[c]) => F[f][g] = F[f][h]

\* F has a fixed point.
IsDefined(F, S) == \E g \in [Filter -> S] : \A f \in Filter : g[f] = F[f][g]

\* Filters nest to a depth, so what they come to by such steps is defined.
LEMMA FilterRecursion ==
    ASSUME NEW S, S # {}, NEW F \in [Filter -> [[Filter -> S] -> S]], LooksAtClauses(F, S)
    PROVE  IsDefined(F, S)
  <1> DEFINE Good(n, g) == \A f \in Filter : Depth(f) < n => g[f] = F[f][g]
             G == [n \in Nat |-> CHOOSE g \in [Filter -> S] : Good(n, g)]
             g0 == [f \in Filter |-> G[Depth(f) + 1][f]]
  <1>0. \A f \in Filter : Depth(f) \in Nat  BY FilterAssumption
  <1>a. \A f \in Filter : \A g, h \in [Filter -> S] :
            (\A c \in Filter : Depth(c) < Depth(f) => g[c] = h[c]) => F[f][g] = F[f][h]
    BY DEF LooksAtClauses
  <1>1. \A n \in Nat : \E g \in [Filter -> S] : Good(n, g)
    <2> DEFINE T == {n \in Nat : ~ \E g \in [Filter -> S] : Good(n, g)}
    <2> SUFFICES ASSUME T # {}  PROVE FALSE
      OBVIOUS
    <2>1. PICK n \in T : \A k \in T : n <= k  BY NatMin
    <2>2. n # 0
      <3>1. PICK s \in S : TRUE  OBVIOUS
      <3>2. [f \in Filter |-> s] \in [Filter -> S]  OBVIOUS
      <3>3. Good(0, [f \in Filter |-> s])  BY <1>0
      <3> QED  BY <3>2, <3>3
    <2>3. n - 1 \in Nat /\ n - 1 \notin T  BY <2>1, <2>2
    <2>4. PICK g \in [Filter -> S] : Good(n - 1, g)  BY <2>3
    <2> DEFINE h == [f \in Filter |-> F[f][g]]
    <2>5. h \in [Filter -> S]  OBVIOUS
    <2>6. ASSUME NEW f \in Filter, Depth(f) < n  PROVE h[f] = F[f][h]
      <3>1. \A c \in Filter : Depth(c) < Depth(f) => g[c] = h[c]
        BY <1>0, <2>3, <2>4, <2>6
      <3> QED  BY <1>a, <2>5, <3>1
    <2> QED  BY <2>5, <2>6
  <1>2. ASSUME NEW n \in Nat, NEW g \in [Filter -> S], NEW h \in [Filter -> S], Good(n, g), Good(n, h),
               NEW f \in Filter, Depth(f) < n
        PROVE  g[f] = h[f]
    <2> DEFINE T == {k \in Nat : \E c \in Filter : Depth(c) = k /\ Depth(c) < n /\ g[c] # h[c]}
    <2> SUFFICES ASSUME T # {}  PROVE FALSE
      BY <1>0, <1>2
    <2>1. PICK k \in T : \A l \in T : k <= l  BY NatMin
    <2>2. PICK c \in Filter : Depth(c) = k /\ Depth(c) < n /\ g[c] # h[c]  BY <2>1
    <2>3. \A d \in Filter : Depth(d) < Depth(c) => g[d] = h[d]
      <3> SUFFICES ASSUME NEW d \in Filter, Depth(d) < Depth(c), g[d] # h[d]  PROVE FALSE
        OBVIOUS
      <3>1. Depth(d) \in T  BY <1>0, <2>2
      <3> QED  BY <1>0, <2>1, <2>2, <3>1
    <2>4. F[c][g] = F[c][h]  BY <1>a, <2>3
    <2>5. g[c] = F[c][g] /\ h[c] = F[c][h]  BY <1>2, <2>2
    <2> QED  BY <2>2, <2>4, <2>5
  <1>3. \A n \in Nat : G[n] \in [Filter -> S] /\ Good(n, G[n])  BY <1>1
  <1> HIDE DEF G
  <1>4. \A f \in Filter : G[Depth(f) + 1] \in [Filter -> S]  BY <1>0, <1>3
  <1>5. g0 \in [Filter -> S]  BY <1>4
  <1>6. ASSUME NEW f \in Filter  PROVE g0[f] = F[f][g0]
    <2> DEFINE n == Depth(f) + 1
    <2>1. n \in Nat /\ Depth(f) < n /\ G[n] \in [Filter -> S] /\ Good(n, G[n])  BY <1>0, <1>3
    <2>2. ASSUME NEW c \in Filter, Depth(c) < Depth(f)  PROVE g0[c] = G[n][c]
      <3> DEFINE m == Depth(c) + 1
      <3>1. m \in Nat /\ G[m] \in [Filter -> S] /\ Good(m, G[m])  BY <1>0, <1>3
      <3>2. Good(m, G[n]) /\ Depth(c) < m  BY <1>0, <2>1, <2>2
      <3>3. G[m][c] = G[n][c]  BY <1>2, <2>1, <3>1, <3>2
      <3> QED  BY <3>3
    <2>3. F[f][g0] = F[f][G[n]]  BY <1>a, <1>5, <2>1, <2>2
    <2> QED  BY <2>1, <2>3
  <1> QED  BY <1>5, <1>6 DEF IsDefined

\* What evaluations come to.
Verdict == {"yes", "no", "error"}

\* An evaluation ends with an error, goes through everything, or is settled.
LEMMA Settled ==
    ASSUME NEW n \in Nat, NEW results, DOMAIN results = 1..n, Len(results) = n,
           NEW stop, NEW outcome, NEW otherwise
    PROVE  \/ settle(results, stop, outcome, otherwise) = "error"
           \/ /\ settle(results, stop, outcome, otherwise) = otherwise
              /\ \A i \in 1..n : results[i] \notin {"error", stop}
           \/ /\ settle(results, stop, outcome, otherwise) = outcome
              /\ \E i \in 1..n : results[i] = stop
  <1> DEFINE I == {i \in 1..n : results[i] \in {"error", stop}}
             first == SelectInSeq(results, LAMBDA r : r \in {"error", stop})
  <1>1. first = IF I # {} THEN Min(I) ELSE 0  BY DEF SelectInSeq
  <1>2. I # {} => Min(I) \in I
    <2>1. I \in SUBSET Nat  OBVIOUS
    <2> QED  BY <2>1, MinOf
  <1>3. settle(results, stop, outcome, otherwise) =
            IF first = 0 THEN otherwise ELSE IF results[first] = "error" THEN "error" ELSE outcome
    BY DEF settle
  <1> HIDE DEF first
  <1>4. CASE I = {}
    BY <1>1, <1>3, <1>4
  <1>5. CASE I # {}
    <2>1. first \in I  BY <1>1, <1>2, <1>5
    <2>2. first # 0 /\ first \in 1..n /\ results[first] \in {"error", stop}  BY <2>1
    <2>3. CASE results[first] = "error"  BY <1>3, <2>2, <2>3
    <2>4. CASE results[first] # "error"
      <3>1. results[first] = stop  BY <2>2, <2>4
      <3>2. settle(results, stop, outcome, otherwise) = outcome  BY <1>3, <2>2, <2>4
      <3> QED  BY <2>2, <3>1, <3>2
    <2> QED  BY <2>3, <2>4
  <1> QED  BY <1>4, <1>5

\* What is made of a list, element by element, is a list as long.
LEMMA Mapped ==
    ASSUME NEW S, NEW s \in Seq(S), NEW T, NEW t \in [DOMAIN s -> T]
    PROVE  /\ Len(s) \in Nat /\ DOMAIN s = 1..Len(s)
           /\ t \in Seq(T) /\ Len(t) = Len(s) /\ DOMAIN t = 1..Len(s)
           /\ t = <<>> <=> s = <<>>
  <1>1. Len(s) \in Nat /\ DOMAIN s = 1..Len(s)  BY LenProperties
  <1>2. t \in Seq(T) /\ DOMAIN t = 1..Len(s)  BY <1>1
  <1>3. Len(t) = Len(s)  BY <1>1, <1>2, LenProperties
  <1>4. Len(<<>>) = 0 /\ (t # <<>> => Len(t) # 0) /\ (s # <<>> => Len(s) # 0)
    BY <1>2, EmptySeq
  <1>5. t = <<>> <=> s = <<>>  BY <1>3, <1>4
  <1> QED  BY <1>1, <1>2, <1>3, <1>5

\* A value of a field is the value that a filter names.
is(a, b) == comparable(a, b) /\ a.v = b.v

\* Without an error, some element is one of the candidates, or none is.
LEMMA MatchesAny ==
    ASSUME NEW n \in Nat, NEW list, DOMAIN list = 1..n, Len(list) = n,
           NEW m \in Nat, NEW candidates, DOMAIN candidates = 1..m, Len(candidates) = m
    PROVE  \/ matchAnyElement(list, candidates) = "error"
           \/ /\ matchAnyElement(list, candidates) = "yes"
              /\ \E i \in 1..n : \E j \in 1..m : is(list[i], candidates[j])
           \/ /\ matchAnyElement(list, candidates) = "no"
              /\ \A i \in 1..n : \A j \in 1..m : ~is(list[i], candidates[j])
  <1> DEFINE compared(i, j) == compareFieldValue(list[i], candidates[j], list[i].v = candidates[j].v)
             row(i) == [j \in DOMAIN candidates |-> compared(i, j)]
             inner(i) == settle(row(i), "yes", "yes", "no")
             outer == [i \in DOMAIN list |-> inner(i)]
             result == settle(outer, "yes", "yes", "no")
  <1>1. \A i \in 1..n : \A j \in 1..m :
            /\ compared(i, j) = "yes" => is(list[i], candidates[j])
            /\ compared(i, j) \notin {"error", "yes"} => ~is(list[i], candidates[j])
    BY DEF compareFieldValue, verdict, is
  <1>1a. matchAnyElement(list, candidates) = result
    BY DEF matchAnyElement
  <1> HIDE DEF compared
  <1>2. ASSUME NEW i \in 1..n
        PROVE  \/ inner(i) = "error"
               \/ inner(i) = "no" /\ \A j \in 1..m : ~is(list[i], candidates[j])
               \/ inner(i) = "yes" /\ \E j \in 1..m : is(list[i], candidates[j])
    <2>1. DOMAIN row(i) = 1..m  OBVIOUS
    <2>2. Len(row(i)) = m
      <3>1. row(i) \in [DOMAIN candidates -> {row(i)[j] : j \in DOMAIN candidates}]  OBVIOUS
      <3>2. row(i) = [j \in 1..m |-> row(i)[j]]  OBVIOUS
      <3> QED  BY <3>1, <3>2, LenProperties
    <2>3. \A j \in 1..m : row(i)[j] = compared(i, j)  OBVIOUS
    <2> HIDE DEF row
    <2>4. \/ inner(i) = "error"
          \/ inner(i) = "no" /\ \A j \in 1..m : row(i)[j] \notin {"error", "yes"}
          \/ inner(i) = "yes" /\ \E j \in 1..m : row(i)[j] = "yes"
      BY <2>1, <2>2, Settled
    <2> QED  BY <1>1, <2>3, <2>4
  <1> HIDE DEF inner
  <1>3. DOMAIN outer = 1..n /\ Len(outer) = n
    <2>1. outer \in [1..n -> {inner(i) : i \in 1..n}]  OBVIOUS
    <2> QED  BY <2>1, LenProperties
  <1>4. \A i \in 1..n : outer[i] = inner(i)  OBVIOUS
  <1> HIDE DEF outer
  <1>5. \/ result = "error"
        \/ result = "no" /\ \A i \in 1..n : outer[i] \notin {"error", "yes"}
        \/ result = "yes" /\ \E i \in 1..n : outer[i] = "yes"
    BY <1>3, Settled
  <1> QED  BY <1>1a, <1>2, <1>4, <1>5

\* The elements of a field of a row are a list.
LEMMA ElementsAreListed ==
    ASSUME NEW x \in Row, NEW field \in DOMAIN x
    PROVE  \E n \in Nat : DOMAIN elements(x[field]) = 1..n /\ Len(elements(x[field])) = n
  <1>1. CASE x[field].kind = "list"
    <2>1. x[field].v \in Seq(Int)  BY <1>1, RowAssumption
    <2> DEFINE v == x[field].v
               t == [i \in DOMAIN v |-> Value("string", v[i])]
    <2>2. t \in [DOMAIN v -> {t[i] : i \in DOMAIN v}]  OBVIOUS
    <2>3. Len(v) \in Nat /\ DOMAIN t = 1..Len(v) /\ Len(t) = Len(v)  BY <2>1, <2>2, Mapped
    <2> QED  BY <1>1, <2>3 DEF elements
  <1>2. CASE x[field].kind # "list"
    BY <1>2 DEF elements
  <1> QED  BY <1>1, <1>2

-----------------------------------------------------------------------------
\* result says what fact says, unless it is an error.
Tells(result, fact) == result \in Verdict /\ (result # "error" => (result = "yes" <=> fact))

\* A field is the value of a term, or has it in its list.
LEMMA TermMeaning ==
    ASSUME NEW f, NEW x \in Row, f.op = "term"
    PROVE  Tells(matchTerm(f, x), holds(f, x))
  <1>1. CASE f.value = Nil
    <2>1. matchTerm(f, x) = "error"  BY <1>1 DEF matchTerm
    <2> QED  BY <2>1 DEF Tells, Verdict
  <1>2. CASE f.value # Nil /\ f.field \notin DOMAIN x
    BY <1>2 DEF matchTerm, Tells, Verdict, holds
  <1>3. CASE f.value # Nil /\ f.field \in DOMAIN x
    <2> DEFINE list == elements(x[f.field])
               c == <<f.value>>
    <2>1. matchTerm(f, x) = matchAnyElement(list, c)  BY <1>3 DEF matchTerm
    <2>2. PICK n \in Nat : DOMAIN list = 1..n /\ Len(list) = n  BY <1>3, ElementsAreListed
    <2>3. holds(f, x) <=> \E i \in 1..n : is(list[i], f.value)
      BY <1>3, <2>2 DEF holds, is
    <2>4. DOMAIN c = 1..1 /\ Len(c) = 1 /\ c[1] = f.value  OBVIOUS
    <2> HIDE DEF list, c
    <2>5. \/ matchAnyElement(list, c) = "error"
          \/ /\ matchAnyElement(list, c) = "yes"
             /\ \E i \in 1..n : \E j \in 1..1 : is(list[i], c[j])
          \/ /\ matchAnyElement(list, c) = "no"
             /\ \A i \in 1..n : \A j \in 1..1 : ~is(list[i], c[j])
      BY <2>2, <2>4, MatchesAny
    <2> QED  BY <2>1, <2>3, <2>4, <2>5 DEF Tells, Verdict
  <1> QED  BY <1>1, <1>2, <1>3

\* Or one of the values.
LEMMA TermsMeaning ==
    ASSUME NEW f \in Filter, NEW x \in Row, f.op = "terms"
    PROVE  Tells(matchTerms(f, x), holds(f, x))
  <1>1. CASE f.field \notin DOMAIN x
    BY <1>1 DEF matchTerms, Tells, Verdict, holds
  <1>2. CASE f.field \in DOMAIN x
    <2> DEFINE list == elements(x[f.field])
               c == f.values
    <2>1. matchTerms(f, x) = matchAnyElement(list, c)  BY <1>2 DEF matchTerms
    <2>2. PICK n \in Nat : DOMAIN list = 1..n /\ Len(list) = n  BY <1>2, ElementsAreListed
    <2>3. c \in Seq(ToSet(c))  BY FilterAssumption
    <2>4. PICK m \in Nat : DOMAIN c = 1..m /\ Len(c) = m  BY <2>3, LenProperties
    <2>5. holds(f, x) <=> \E j \in 1..m : \E i \in 1..n : is(list[i], c[j])
      <3>1. holds(f, x) <=> \E v \in ToSet(c) : \E i \in 1..n : is(list[i], v)
        BY <1>2, <2>2 DEF holds, is
      <3> HIDE DEF list, c
      <3>2. ToSet(c) = {c[j] : j \in 1..m}  BY <2>4 DEF ToSet
      <3> QED  BY <3>1, <3>2
    <2> HIDE DEF list, c
    <2>6. \/ matchAnyElement(list, c) = "error"
          \/ /\ matchAnyElement(list, c) = "yes"
             /\ \E i \in 1..n : \E j \in 1..m : is(list[i], c[j])
          \/ /\ matchAnyElement(list, c) = "no"
             /\ \A i \in 1..n : \A j \in 1..m : ~is(list[i], c[j])
      BY <2>2, <2>4, MatchesAny
    <2> QED  BY <2>1, <2>5, <2>6 DEF Tells, Verdict
  <1> QED  BY <1>1, <1>2

\* A row is in a range if each of its bounds holds.
LEMMA RangeMeaning ==
    ASSUME NEW f, NEW x \in Row, f.op = "range"
    PROVE  Tells(matchRange(f, x), holds(f, x))
  <1> DEFINE bounds == <<"gt", "gte", "lt", "lte">>
             result(b) == IF b \in DOMAIN f.range THEN within(x[f.field], b, f.range[b]) ELSE "yes"
             results == [i \in 1..4 |-> result(bounds[i])]
             keeps(b) == LET a == x[f.field].v
                             v == f.range[b].v
                         IN (b = "gt" => a > v) /\ (b = "gte" => a >= v) /\ (b = "lt" => a < v) /\ (b = "lte" => a <= v)
  <1>1. CASE f.range = <<>>
    <2>1. matchRange(f, x) = "error"  BY <1>1 DEF matchRange
    <2> QED  BY <2>1 DEF Tells, Verdict
  <1>2. CASE f.range # <<>> /\ f.field \notin DOMAIN x
    BY <1>2 DEF matchRange, Tells, Verdict, holds
  <1>3. CASE f.range # <<>> /\ f.field \in DOMAIN x /\ x[f.field].kind = "list"
    BY <1>3 DEF matchRange, Tells, Verdict
  <1>4. CASE f.range # <<>> /\ f.field \in DOMAIN x /\ x[f.field].kind # "list"
    <2>1. matchRange(f, x) = settle(results, "no", "no", "yes")  BY <1>4 DEF matchRange
    <2>2. holds(f, x) <=> \A b \in DOMAIN f.range : keeps(b)  BY <1>4 DEF holds
    <2>3. ASSUME NEW b \in {"gt", "gte", "lt", "lte"}
          PROVE  /\ result(b) = "no" => b \in DOMAIN f.range /\ ~keeps(b)
                 /\ result(b) \notin {"error", "no"} => (b \in DOMAIN f.range => keeps(b))
      BY <2>3 DEF within, compareFieldValue, verdict
    <2>4. \A b \in DOMAIN f.range : b \notin {"gt", "gte", "lt", "lte"} => keeps(b)
      OBVIOUS
    <2>5. DOMAIN results = 1..4 /\ Len(results) = 4
      <3>1. results \in [1..4 -> {results[i] : i \in 1..4}] /\ 4 \in Nat  OBVIOUS
      <3> QED  BY <3>1, LenProperties
    <2>6. \A i \in 1..4 : results[i] = result(bounds[i])  OBVIOUS
    <2>7. /\ \A i \in 1..4 : bounds[i] \in {"gt", "gte", "lt", "lte"}
          /\ \A b \in {"gt", "gte", "lt", "lte"} : \E i \in 1..4 : b = bounds[i]
      <3>1. \A i \in 1..4 : i = 1 \/ i = 2 \/ i = 3 \/ i = 4  OBVIOUS
      <3>2. bounds[1] = "gt" /\ bounds[2] = "gte" /\ bounds[3] = "lt" /\ bounds[4] = "lte"  OBVIOUS
      <3> QED  BY <3>1, <3>2
    <2> HIDE DEF results, result, keeps, bounds
    <2>8. \/ settle(results, "no", "no", "yes") = "error"
          \/ settle(results, "no", "no", "yes") = "yes" /\ \A i \in 1..4 : results[i] \notin {"error", "no"}
          \/ settle(results, "no", "no", "yes") = "no" /\ \E i \in 1..4 : results[i] = "no"
      <3>1. PICK n \in Nat : n = 4  OBVIOUS
      <3>2. DOMAIN results = 1..n /\ Len(results) = n  BY <2>5, <3>1
      <3>3. \/ settle(results, "no", "no", "yes") = "error"
            \/ settle(results, "no", "no", "yes") = "yes" /\ \A i \in 1..n : results[i] \notin {"error", "no"}
            \/ settle(results, "no", "no", "yes") = "no" /\ \E i \in 1..n : results[i] = "no"
        BY <3>2, Settled
      <3> QED  BY <3>1, <3>3
    <2>9. CASE \A i \in 1..4 : results[i] \notin {"error", "no"}
      <3>1. \A b \in DOMAIN f.range : keeps(b)  BY <2>3, <2>4, <2>6, <2>7, <2>9
      <3>2. ~ \E i \in 1..4 : results[i] = "no"  BY <2>9
      <3> QED  BY <2>1, <2>2, <2>8, <3>1, <3>2 DEF Tells, Verdict
    <2>10. CASE \E i \in 1..4 : results[i] = "no"
      <3>1. ~ \A b \in DOMAIN f.range : keeps(b)  BY <2>3, <2>6, <2>7, <2>10
      <3> QED  BY <2>1, <2>2, <2>8, <2>10, <3>1 DEF Tells, Verdict
    <2> QED  BY <2>1, <2>8, <2>9, <2>10 DEF Tells, Verdict
  <1> QED  BY <1>1, <1>2, <1>3, <1>4

\* A filter without clauses tells what holds.
LEMMA FieldMeaning ==
    ASSUME NEW f \in Filter, NEW x \in Row, f.op # "bool"
    PROVE  Tells(matchField(f, x), holds(f, x))
  <1>1. CASE f.op = "term"  BY <1>1, TermMeaning DEF matchField
  <1>2. CASE f.op = "terms"  BY <1>2, TermsMeaning DEF matchField
  <1>3. CASE f.op = "range"  BY <1>3, RangeMeaning DEF matchField
  <1>4. CASE f.op \in {"none", "exists"}
    BY <1>4 DEF matchField, holds, exists, verdict, Tells, Verdict
  <1>5. CASE f.op \notin {"none", "term", "terms", "range", "exists"}
    BY <1>5 DEF matchField, Tells, Verdict
  <1> QED  BY <1>1, <1>2, <1>3, <1>4, <1>5

\* What three lists of results come to.
LEMMA BoolResult ==
    ASSUME NEW must \in Seq(Verdict), NEW must_not \in Seq(Verdict), NEW should \in Seq(Verdict)
    PROVE  \/ matchBool(must, must_not, should) = "error"
           \/ /\ matchBool(must, must_not, should) = "yes"
              /\ \A i \in DOMAIN must : must[i] = "yes"
              /\ \A i \in DOMAIN must_not : must_not[i] = "no"
              /\ must # <<>> \/ should = <<>> \/ \E i \in DOMAIN should : should[i] = "yes"
           \/ /\ matchBool(must, must_not, should) = "no"
              /\ \/ \E i \in DOMAIN must : must[i] = "no"
                 \/ \E i \in DOMAIN must_not : must_not[i] = "yes"
                 \/ must = <<>> /\ should # <<>> /\ \A i \in DOMAIN should : should[i] = "no"
  <1> DEFINE third == IF must = <<>> /\ should # <<>> THEN settle(should, "yes", "yes", "no") ELSE "yes"
             second == settle(must_not, "yes", "no", third)
             first == settle(must, "no", "no", second)
  <1>1. matchBool(must, must_not, should) = first  BY DEF matchBool
  <1>2. ASSUME NEW list \in Seq(Verdict)
        PROVE  /\ Len(list) \in Nat /\ DOMAIN list = 1..Len(list)
               /\ \A i \in DOMAIN list : list[i] \in Verdict
    BY LenProperties
  <1>3. \/ third = "error"
        \/ /\ third = "yes"
           /\ must # <<>> \/ should = <<>> \/ \E i \in DOMAIN should : should[i] = "yes"
        \/ /\ third = "no"
           /\ must = <<>> /\ should # <<>> /\ \A i \in DOMAIN should : should[i] = "no"
    <2>1. \/ settle(should, "yes", "yes", "no") = "error"
          \/ /\ settle(should, "yes", "yes", "no") = "no"
             /\ \A i \in 1..Len(should) : should[i] \notin {"error", "yes"}
          \/ /\ settle(should, "yes", "yes", "no") = "yes"
             /\ \E i \in 1..Len(should) : should[i] = "yes"
      BY <1>2, Settled
    <2> QED  BY <1>2, <2>1 DEF Verdict
  <1> HIDE DEF third
  <1>4. \/ second = "error"
        \/ second = third /\ \A i \in DOMAIN must_not : must_not[i] = "no"
        \/ second = "no" /\ \E i \in DOMAIN must_not : must_not[i] = "yes"
    <2>1. \/ second = "error"
          \/ second = third /\ \A i \in 1..Len(must_not) : must_not[i] \notin {"error", "yes"}
          \/ second = "no" /\ \E i \in 1..Len(must_not) : must_not[i] = "yes"
      BY <1>2, Settled
    <2> QED  BY <1>2, <2>1 DEF Verdict
  <1> HIDE DEF second
  <1>5. \/ first = "error"
        \/ first = second /\ \A i \in DOMAIN must : must[i] = "yes"
        \/ first = "no" /\ \E i \in DOMAIN must : must[i] = "no"
    <2>1. \/ first = "error"
          \/ first = second /\ \A i \in 1..Len(must) : must[i] \notin {"error", "no"}
          \/ first = "no" /\ \E i \in 1..Len(must) : must[i] = "no"
      BY <1>2, Settled
    <2> QED  BY <1>2, <2>1 DEF Verdict
  <1> HIDE DEF first
  <1> QED  BY <1>1, <1>3, <1>4, <1>5

\* The clauses of a filter are filters that nest less deep.
LEMMA Clauses ==
    ASSUME NEW f \in Filter, f.op = "bool", NEW list \in {f.must, f.must_not, f.should}
    PROVE  /\ list \in Seq(Filter)
           /\ \A i \in DOMAIN list : list[i] \in Filter /\ Depth(list[i]) < Depth(f)
  <1> DEFINE D == {c \in Filter : Depth(c) < Depth(f)}
  <1>1. list \in Seq(D)  BY FilterAssumption
  <1>2. \A i \in DOMAIN list : list[i] \in D  BY <1>1, LenProperties
  <1>3. list \in Seq(Filter)
    <2>1. D \subseteq Filter  OBVIOUS
    <2> QED  BY <1>1, <2>1, SeqMonotonic
  <1> QED  BY <1>2, <1>3

\* An evaluation comes to a verdict.
LEMMA EvaluationType ==
    ASSUME NEW f \in Filter, NEW x \in Row, NEW results \in [Filter -> [Row -> Verdict]]
    PROVE  evaluate(f, x, results) \in Verdict
  <1>1. CASE f.op = "bool"
    <2> DEFINE all(list) == [i \in DOMAIN list |-> results[list[i]][x]]
    <2>1. ASSUME NEW list \in {f.must, f.must_not, f.should}  PROVE all(list) \in Seq(Verdict)
      <3>1. list \in Seq(Filter) /\ \A i \in DOMAIN list : list[i] \in Filter  BY <1>1, Clauses
      <3>2. all(list) \in [DOMAIN list -> Verdict]  BY <3>1
      <3> HIDE DEF all
      <3> QED  BY <3>1, <3>2, Mapped
    <2>2. evaluate(f, x, results) = matchBool(all(f.must), all(f.must_not), all(f.should))
      BY <1>1 DEF evaluate
    <2>3. all(f.must) \in Seq(Verdict) /\ all(f.must_not) \in Seq(Verdict) /\ all(f.should) \in Seq(Verdict)
      BY <2>1
    <2> HIDE DEF all
    <2>4. matchBool(all(f.must), all(f.must_not), all(f.should)) \in {"error", "yes", "no"}
      BY <2>3, BoolResult
    <2> QED  BY <2>2, <2>4 DEF Verdict
  <1>2. CASE f.op # "bool"
    BY <1>2, FieldMeaning DEF evaluate, Tells
  <1> QED  BY <1>1, <1>2

\* It looks at the results of its clauses only.
LEMMA EvaluationIsLocal ==
    ASSUME NEW f \in Filter, NEW x \in Row, NEW T,
           NEW g \in [Filter -> [Row -> T]], NEW h \in [Filter -> [Row -> T]],
           \A c \in Filter : Depth(c) < Depth(f) => g[c] = h[c]
    PROVE  evaluate(f, x, g) = evaluate(f, x, h)
  <1>1. CASE f.op = "bool"
    <2>1. ASSUME NEW list \in {f.must, f.must_not, f.should}
          PROVE  [i \in DOMAIN list |-> g[list[i]][x]] = [i \in DOMAIN list |-> h[list[i]][x]]
      <3>1. \A i \in DOMAIN list : list[i] \in Filter /\ Depth(list[i]) < Depth(f)
        BY <1>1, Clauses
      <3> QED  BY <3>1
    <2> QED  BY <1>1, <2>1 DEF evaluate
  <1>2. CASE f.op # "bool"
    BY <1>2 DEF evaluate
  <1> QED  BY <1>1, <1>2

\* So the evaluation of filters is well defined.
LEMMA MatchIs ==
    /\ Match = [f \in Filter |-> [x \in Row |-> evaluate(f, x, Match)]]
    /\ Match \in [Filter -> [Row -> Verdict]]
  <1> DEFINE S == [Row -> Verdict]
             F == [f \in Filter |-> [g \in [Filter -> S] |-> [x \in Row |-> evaluate(f, x, g)]]]
  <1>1. \A f \in Filter : \A g \in [Filter -> S] : [x \in Row |-> evaluate(f, x, g)] \in S
    BY EvaluationType
  <1>2. F \in [Filter -> [[Filter -> S] -> S]]  BY <1>1
  <1>3. ASSUME NEW f \in Filter, NEW g \in [Filter -> S], NEW h \in [Filter -> S],
               \A c \in Filter : Depth(c) < Depth(f) => g[c] = h[c]
        PROVE  F[f][g] = F[f][h]
    <2>1. \A x \in Row : evaluate(f, x, g) = evaluate(f, x, h)  BY <1>3, EvaluationIsLocal
    <2> QED  BY <2>1
  <1>4. S # {}
    <2>1. [x \in Row |-> "yes"] \in S  BY DEF Verdict
    <2> QED  BY <2>1
  <1>5. \A f \in Filter : \A g \in [Filter -> S] : F[f][g] = [x \in Row |-> evaluate(f, x, g)]
    OBVIOUS
  <1> HIDE DEF S, F
  <1>6. PICK g \in [Filter -> S] : \A f \in Filter : g[f] = F[f][g]
    <2>1. LooksAtClauses(F, S)  BY <1>3 DEF LooksAtClauses
    <2>2. IsDefined(F, S)  BY <1>2, <1>4, <2>1, FilterRecursion
    <2> QED  BY <2>2 DEF IsDefined
  <1>7. g = [f \in Filter |-> [x \in Row |-> evaluate(f, x, g)]]  BY <1>5, <1>6
  <1>8. Match = [f \in Filter |-> [x \in Row |-> evaluate(f, x, Match)]]  BY <1>7 DEF Match
  <1>9. Match = g
    <2> DEFINE T == Verdict \cup {Match[p[1]][p[2]] : p \in Filter \X Row}
    <2>1. Match \in [Filter -> [Row -> T]] /\ g \in [Filter -> [Row -> T]]
      <3>1. \A f \in Filter : Match[f] = [x \in Row |-> evaluate(f, x, Match)]
        BY <1>8
      <3>2. \A f \in Filter : \A x \in Row : Match[f][x] \in T
        <4> TAKE f \in Filter
        <4> TAKE x \in Row
        <4>1. <<f, x>> \in Filter \X Row /\ <<f, x>>[1] = f /\ <<f, x>>[2] = x  OBVIOUS
        <4> QED  BY <4>1
      <3> HIDE DEF T
      <3>3. \A f \in Filter : Match[f] \in [Row -> T]  BY <3>1, <3>2
      <3>4. Match \in [Filter -> [Row -> T]]  BY <1>8, <3>3
      <3>5. Verdict \subseteq T  BY DEF T
      <3>6. g \in [Filter -> [Row -> T]]  BY <3>5 DEF S
      <3> QED  BY <3>4, <3>6
    <2> HIDE DEF T
    <2> DEFINE U == {k \in Nat : \E f \in Filter : Depth(f) = k /\ Match[f] # g[f]}
    <2>2. ASSUME U # {}  PROVE FALSE
      <3>1. PICK k \in U : \A l \in U : k <= l  BY <2>2, NatMin
      <3>2. PICK f \in Filter : Depth(f) = k /\ Match[f] # g[f]  BY <3>1
      <3>3. ASSUME NEW c \in Filter, Depth(c) < Depth(f)  PROVE Match[c] = g[c]
        <4>1. Depth(c) \in Nat /\ Depth(f) \in Nat  BY FilterAssumption
        <4>2. Depth(c) \notin U  BY <3>1, <3>2, <3>3, <4>1
        <4> QED  BY <4>1, <4>2
      <3>4. \A x \in Row : evaluate(f, x, Match) = evaluate(f, x, g)
        BY <2>1, <3>3, EvaluationIsLocal
      <3>5. Match[f] = [x \in Row |-> evaluate(f, x, Match)]  BY <1>8
      <3>6. g[f] = [x \in Row |-> evaluate(f, x, g)]  BY <1>7
      <3> QED  BY <3>2, <3>4, <3>5, <3>6
    <2>3. \A f \in Filter : Match[f] = g[f]  BY <2>2, FilterAssumption
    <2> QED  BY <1>7, <1>8, <2>3
  <1> QED  BY <1>8, <1>9 DEF S

\* Filters hold or do not, which depends on what their clauses mean only.
LEMMA MeaningType ==
    ASSUME NEW f, NEW x, NEW meaning
    PROVE  means(f, x, meaning) \in BOOLEAN
  <1>1. holds(f, x) \in BOOLEAN  BY DEF holds
  <1> QED  BY <1>1 DEF means

LEMMA MeaningIsLocal ==
    ASSUME NEW f \in Filter, NEW x \in Row, NEW T,
           NEW g \in [Filter -> [Row -> T]], NEW h \in [Filter -> [Row -> T]],
           \A c \in Filter : Depth(c) < Depth(f) => g[c] = h[c]
    PROVE  means(f, x, g) = means(f, x, h)
  <1>1. CASE f.op = "bool"
    <2>1. ASSUME NEW list \in {f.must, f.must_not, f.should}, NEW c \in ToSet(list)
          PROVE  g[c] = h[c]
      <3>1. PICK i \in DOMAIN list : c = list[i]  BY <2>1 DEF ToSet
      <3> QED  BY <1>1, <3>1, Clauses
    <2>2. /\ \A c \in ToSet(f.must) : g[c] = h[c]
          /\ \A c \in ToSet(f.must_not) : g[c] = h[c]
          /\ \A c \in ToSet(f.should) : g[c] = h[c]
      BY <2>1
    <2>3. means(f, x, g) <=> means(f, x, h)  BY <1>1, <2>2 DEF means
    <2> QED  BY <2>3, MeaningType
  <1>2. CASE f.op # "bool"
    BY <1>2 DEF means
  <1> QED  BY <1>1, <1>2

\* And so is their meaning.
LEMMA SatisfiesIs ==
    /\ satisfies = [f \in Filter |-> [x \in Row |-> means(f, x, satisfies)]]
    /\ satisfies \in [Filter -> [Row -> BOOLEAN]]
  <1> DEFINE S == [Row -> BOOLEAN]
             F == [f \in Filter |-> [g \in [Filter -> S] |-> [x \in Row |-> means(f, x, g)]]]
  <1>1. \A f \in Filter : \A g \in [Filter -> S] : [x \in Row |-> means(f, x, g)] \in S
    BY MeaningType
  <1>2. F \in [Filter -> [[Filter -> S] -> S]]  BY <1>1
  <1>3. ASSUME NEW f \in Filter, NEW g \in [Filter -> S], NEW h \in [Filter -> S],
               \A c \in Filter : Depth(c) < Depth(f) => g[c] = h[c]
        PROVE  F[f][g] = F[f][h]
    <2>1. \A x \in Row : means(f, x, g) = means(f, x, h)  BY <1>3, MeaningIsLocal
    <2> QED  BY <2>1
  <1>4. S # {}
    <2>1. [x \in Row |-> TRUE] \in S  OBVIOUS
    <2> QED  BY <2>1
  <1>5. \A f \in Filter : \A g \in [Filter -> S] : F[f][g] = [x \in Row |-> means(f, x, g)]
    OBVIOUS
  <1> HIDE DEF S, F
  <1>6. PICK g \in [Filter -> S] : \A f \in Filter : g[f] = F[f][g]
    <2>1. LooksAtClauses(F, S)  BY <1>3 DEF LooksAtClauses
    <2>2. IsDefined(F, S)  BY <1>2, <1>4, <2>1, FilterRecursion
    <2> QED  BY <2>2 DEF IsDefined
  <1>7. g = [f \in Filter |-> [x \in Row |-> means(f, x, g)]]  BY <1>5, <1>6
  <1>8. satisfies = [f \in Filter |-> [x \in Row |-> means(f, x, satisfies)]]  BY <1>7 DEF satisfies
  <1>9. satisfies = g
    <2> DEFINE T == BOOLEAN \cup {satisfies[p[1]][p[2]] : p \in Filter \X Row}
    <2>1. satisfies \in [Filter -> [Row -> T]] /\ g \in [Filter -> [Row -> T]]
      <3>1. \A f \in Filter : satisfies[f] = [x \in Row |-> means(f, x, satisfies)]
        BY <1>8
      <3>2. \A f \in Filter : \A x \in Row : satisfies[f][x] \in T
        <4> TAKE f \in Filter
        <4> TAKE x \in Row
        <4>1. <<f, x>> \in Filter \X Row /\ <<f, x>>[1] = f /\ <<f, x>>[2] = x  OBVIOUS
        <4> QED  BY <4>1
      <3> HIDE DEF T
      <3>3. \A f \in Filter : satisfies[f] \in [Row -> T]  BY <3>1, <3>2
      <3>4. satisfies \in [Filter -> [Row -> T]]  BY <1>8, <3>3
      <3>5. BOOLEAN \subseteq T  BY DEF T
      <3>6. g \in [Filter -> [Row -> T]]  BY <3>5 DEF S
      <3> QED  BY <3>4, <3>6
    <2> HIDE DEF T
    <2> DEFINE U == {k \in Nat : \E f \in Filter : Depth(f) = k /\ satisfies[f] # g[f]}
    <2>2. ASSUME U # {}  PROVE FALSE
      <3>1. PICK k \in U : \A l \in U : k <= l  BY <2>2, NatMin
      <3>2. PICK f \in Filter : Depth(f) = k /\ satisfies[f] # g[f]  BY <3>1
      <3>3. ASSUME NEW c \in Filter, Depth(c) < Depth(f)  PROVE satisfies[c] = g[c]
        <4>1. Depth(c) \in Nat /\ Depth(f) \in Nat  BY FilterAssumption
        <4>2. Depth(c) \notin U  BY <3>1, <3>2, <3>3, <4>1
        <4> QED  BY <4>1, <4>2
      <3>4. \A x \in Row : means(f, x, satisfies) = means(f, x, g)
        BY <2>1, <3>3, MeaningIsLocal
      <3>5. satisfies[f] = [x \in Row |-> means(f, x, satisfies)]  BY <1>8
      <3>6. g[f] = [x \in Row |-> means(f, x, g)]  BY <1>7
      <3> QED  BY <3>2, <3>4, <3>5, <3>6
    <2>3. \A f \in Filter : satisfies[f] = g[f]  BY <2>2, FilterAssumption
    <2> QED  BY <1>7, <1>8, <2>3
  <1> QED  BY <1>8, <1>9 DEF S

\* Whatever the order of its clauses, a filter without an error tells what it means.
LEMMA FilterMeaning ==
    ASSUME NEW f \in Filter, NEW x \in Row
    PROVE  Tells(Match[f][x], satisfies[f][x])
  <1> DEFINE U == {k \in Nat : \E c \in Filter : Depth(c) = k /\ ~Tells(Match[c][x], satisfies[c][x])}
  <1>1. ASSUME U # {}  PROVE FALSE
    <2>1. PICK k \in U : \A l \in U : k <= l  BY <1>1, NatMin
    <2>2. PICK g \in Filter : Depth(g) = k /\ ~Tells(Match[g][x], satisfies[g][x])  BY <2>1
    <2>3. ASSUME NEW c \in Filter, Depth(c) < Depth(g)  PROVE Tells(Match[c][x], satisfies[c][x])
      <3>1. Depth(c) \in Nat /\ Depth(g) \in Nat  BY FilterAssumption
      <3>2. Depth(c) \notin U  BY <2>1, <2>2, <2>3, <3>1
      <3> QED  BY <3>1, <3>2
    <2>4. Match[g][x] = evaluate(g, x, Match) /\ satisfies[g][x] = means(g, x, satisfies)
      <3>1. Match[g] = [y \in Row |-> evaluate(g, y, Match)]  BY MatchIs
      <3>2. satisfies[g] = [y \in Row |-> means(g, y, satisfies)]  BY SatisfiesIs
      <3> QED  BY <3>1, <3>2
    <2>5. CASE g.op # "bool"
      <3>1. Tells(matchField(g, x), holds(g, x))  BY <2>5, FieldMeaning
      <3> QED  BY <2>2, <2>4, <2>5, <3>1 DEF evaluate, means
    <2>6. CASE g.op = "bool"
      <3> DEFINE all(list) == [i \in DOMAIN list |-> Match[list[i]][x]]
      <3>1. ASSUME NEW list \in {g.must, g.must_not, g.should}
            PROVE  /\ all(list) \in Seq(Verdict) /\ (all(list) = <<>> <=> list = <<>>)
                   /\ DOMAIN all(list) = DOMAIN list
                   /\ \A i \in DOMAIN list : Tells(all(list)[i], satisfies[list[i]][x])
        <4>1. list \in Seq(Filter) /\ \A i \in DOMAIN list : list[i] \in Filter /\ Depth(list[i]) < Depth(g)
          BY <2>6, Clauses
        <4>2. all(list) \in [DOMAIN list -> Verdict]  BY <4>1, MatchIs
        <4>3. \A i \in DOMAIN list : all(list)[i] = Match[list[i]][x]  OBVIOUS
        <4>4. \A i \in DOMAIN list : Tells(all(list)[i], satisfies[list[i]][x])
          BY <2>3, <4>1, <4>3
        <4> HIDE DEF all
        <4> QED  BY <4>1, <4>2, <4>4, Mapped
      <3>2. Match[g][x] = matchBool(all(g.must), all(g.must_not), all(g.should))
        BY <2>4, <2>6 DEF evaluate
      <3> HIDE DEF all
      <3>3. /\ all(g.must) \in Seq(Verdict) /\ (all(g.must) = <<>> <=> g.must = <<>>)
            /\ DOMAIN all(g.must) = DOMAIN g.must
            /\ \A i \in DOMAIN g.must : Tells(all(g.must)[i], satisfies[g.must[i]][x])
        BY <3>1
      <3>4. /\ all(g.must_not) \in Seq(Verdict)
            /\ DOMAIN all(g.must_not) = DOMAIN g.must_not
            /\ \A i \in DOMAIN g.must_not : Tells(all(g.must_not)[i], satisfies[g.must_not[i]][x])
        BY <3>1
      <3>5. /\ all(g.should) \in Seq(Verdict) /\ (all(g.should) = <<>> <=> g.should = <<>>)
            /\ DOMAIN all(g.should) = DOMAIN g.should
            /\ \A i \in DOMAIN g.should : Tells(all(g.should)[i], satisfies[g.should[i]][x])
        BY <3>1
      <3>6. satisfies[g][x] <=>
                /\ \A i \in DOMAIN g.must : satisfies[g.must[i]][x]
                /\ ~ \E i \in DOMAIN g.must_not : satisfies[g.must_not[i]][x]
                /\ g.must # <<>> \/ g.should = <<>> \/ \E i \in DOMAIN g.should : satisfies[g.should[i]][x]
        BY <2>4, <2>6 DEF means, ToSet
      <3>7. \/ Match[g][x] = "error"
            \/ /\ Match[g][x] = "yes"
               /\ \A i \in DOMAIN g.must : all(g.must)[i] = "yes"
               /\ \A i \in DOMAIN g.must_not : all(g.must_not)[i] = "no"
               /\ g.must # <<>> \/ g.should = <<>> \/ \E i \in DOMAIN g.should : all(g.should)[i] = "yes"
            \/ /\ Match[g][x] = "no"
               /\ \/ \E i \in DOMAIN g.must : all(g.must)[i] = "no"
                  \/ \E i \in DOMAIN g.must_not : all(g.must_not)[i] = "yes"
                  \/ g.must = <<>> /\ g.should # <<>> /\ \A i \in DOMAIN g.should : all(g.should)[i] = "no"
        BY <3>2, <3>3, <3>4, <3>5, BoolResult
      <3>8. CASE Match[g][x] = "error"  BY <2>2, <3>8 DEF Tells, Verdict
      <3>9. CASE Match[g][x] = "yes"
        <4>1. satisfies[g][x]  BY <3>3, <3>4, <3>5, <3>6, <3>7, <3>9 DEF Tells
        <4> QED  BY <2>2, <3>9, <4>1 DEF Tells, Verdict
      <3>10. CASE Match[g][x] = "no"
        <4>1. ~satisfies[g][x]  BY <3>3, <3>4, <3>5, <3>6, <3>7, <3>10 DEF Tells
        <4> QED  BY <2>2, <3>10, <4>1 DEF Tells, Verdict
      <3> QED  BY <3>7, <3>8, <3>9, <3>10
    <2> QED  BY <2>5, <2>6
  <1> QED  BY <1>1, FilterAssumption

-----------------------------------------------------------------------------
\* Sorting and pages.

\* A sort is a list of fields.
SortFields(sort) == DOMAIN sort = 1..Len(sort) /\ Len(sort) \in Nat

\* The number that a sort by a field goes by.
sortKey(x, field) == IF sortable(x, field) THEN x[field].v ELSE 0

\* Sort keys are numbers, and comparing values compares them.
LEMMA SortKeys ==
    ASSUME NEW a \in Row, NEW b \in Row, NEW field
    PROVE  /\ sortKey(a, field) \in Int
           /\ sortable(a, field) <=> sortable(b, field)
           /\ compareAny(valueOf(a, field), valueOf(b, field)) = sortKey(a, field) - sortKey(b, field)
  <1>1. DOMAIN a = DOMAIN b  BY RowAssumption
  <1>2. CASE field \notin DOMAIN a
    <2>1. valueOf(a, field) = Nil /\ valueOf(b, field) = Nil  BY <1>1, <1>2 DEF valueOf
    <2>2. compareAny(Nil, Nil) = 0  BY DEF compareAny, Nil, Value
    <2> QED  BY <1>1, <1>2, <2>1, <2>2 DEF sortKey, sortable
  <1>3. CASE field \in DOMAIN a
    <2>1. a[field] = Value(b[field].kind, a[field].v)  BY <1>3, RowAssumption
    <2>2. a[field].kind = b[field].kind  BY <2>1 DEF Value
    <2>3. a[field].kind # "list" => a[field].v \in Int /\ b[field].v \in Int
      <3>1. a[field].v \in IF a[field].kind = "list" THEN Seq(Int) ELSE Int  BY <1>3, RowAssumption
      <3>2. b[field].v \in IF b[field].kind = "list" THEN Seq(Int) ELSE Int  BY <1>1, <1>3, RowAssumption
      <3> QED  BY <2>2, <3>1, <3>2
    <2>4. valueOf(a, field) = a[field] /\ valueOf(b, field) = b[field]  BY <1>1, <1>3 DEF valueOf
    <2>5. sortable(a, field) <=> sortable(b, field)  BY <1>1, <2>2 DEF sortable
    <2>6. CASE a[field].kind = "list"
      <3>1. ~sortable(a, field) /\ compareAny(a[field], b[field]) = 0
        BY <2>6 DEF sortable, compareAny
      <3> QED  BY <2>4, <2>5, <3>1 DEF sortKey
    <2>7. CASE a[field].kind # "list"
      <3>1. sortable(a, field) /\ compareAny(a[field], b[field]) = a[field].v - b[field].v
        BY <1>3, <2>2, <2>7 DEF sortable, compareAny
      <3> QED  BY <2>3, <2>4, <2>5, <2>7, <3>1 DEF sortKey
    <2> QED  BY <2>6, <2>7
  <1> QED  BY <1>2, <1>3

\* The order of the rows in a sort: the first key in which they differ decides.
precedes(sort, a, b) ==
    \E k \in DOMAIN sort :
        /\ IF sort[k].desc THEN sortKey(a, sort[k].field) > sortKey(b, sort[k].field)
                           ELSE sortKey(a, sort[k].field) < sortKey(b, sort[k].field)
        /\ \A j \in 1..(k - 1) : sortKey(a, sort[j].field) = sortKey(b, sort[j].field)

\* It is the order in which rows are sorted, and the one that pages are told by.
LEMMA LessIsPrecedes ==
    ASSUME NEW sort, NEW a \in Row, NEW b \in Row
    PROVE  Less(sort, a, b) <=> precedes(sort, a, b)
  <1> DEFINE compare(k) == compareAny(valueOf(a, sort[k].field), valueOf(b, sort[k].field))
             x(k) == sortKey(a, sort[k].field)
             y(k) == sortKey(b, sort[k].field)
  <1>1. \A k : x(k) \in Int /\ y(k) \in Int /\ compare(k) = x(k) - y(k)  BY SortKeys
  <1>2. Less(sort, a, b) <=>
          \E k \in DOMAIN sort :
            /\ IF sort[k].desc THEN compare(k) > 0 ELSE compare(k) < 0
            /\ \A j \in 1..(k - 1) : compare(j) = 0
    BY DEF Less
  <1>3. precedes(sort, a, b) <=>
          \E k \in DOMAIN sort :
            /\ IF sort[k].desc THEN x(k) > y(k) ELSE x(k) < y(k)
            /\ \A j \in 1..(k - 1) : x(j) = y(j)
    BY DEF precedes
  <1> HIDE DEF compare, x, y
  <1>4. \A k : /\ compare(k) > 0 <=> x(k) > y(k)
               /\ compare(k) < 0 <=> x(k) < y(k)
               /\ compare(k) = 0 <=> x(k) = y(k)
    BY <1>1
  <1> QED  BY <1>2, <1>3, <1>4

LEMMA AheadIsPrecedes ==
    ASSUME NEW sort, NEW a \in Row, NEW b \in Row
    PROVE  ahead(sort, a, b) <=> precedes(sort, a, b)
  <1> DEFINE x(k) == sortKey(a, sort[k].field)
             y(k) == sortKey(b, sort[k].field)
             s(k) == sortable(a, sort[k].field)
  <1>1. \A k : /\ x(k) = IF s(k) THEN a[sort[k].field].v ELSE 0
               /\ y(k) = IF s(k) THEN b[sort[k].field].v ELSE 0
    BY SortKeys DEF sortKey
  <1>2. ahead(sort, a, b) <=>
          \E k \in DOMAIN sort :
            /\ s(k)
            /\ IF sort[k].desc THEN a[sort[k].field].v > b[sort[k].field].v
                               ELSE a[sort[k].field].v < b[sort[k].field].v
            /\ \A j \in 1..(k - 1) : s(j) => a[sort[j].field].v = b[sort[j].field].v
    BY DEF ahead
  <1>3. precedes(sort, a, b) <=>
          \E k \in DOMAIN sort :
            /\ IF sort[k].desc THEN x(k) > y(k) ELSE x(k) < y(k)
            /\ \A j \in 1..(k - 1) : x(j) = y(j)
    BY DEF precedes
  <1> HIDE DEF x, y, s
  <1>4. \A k : /\ s(k) /\ (IF sort[k].desc THEN a[sort[k].field].v > b[sort[k].field].v
                                         ELSE a[sort[k].field].v < b[sort[k].field].v)
                   <=> IF sort[k].desc THEN x(k) > y(k) ELSE x(k) < y(k)
               /\ (s(k) => a[sort[k].field].v = b[sort[k].field].v) <=> x(k) = y(k)
    BY <1>1
  <1> QED  BY <1>2, <1>3, <1>4

\* Rows that no key tells apart.
level(sort, a, b) == \A k \in DOMAIN sort : sortKey(a, sort[k].field) = sortKey(b, sort[k].field)

\* Rows that are level are level with, and before, the same rows; of two rows that
\* are not, one is before the other.
LEMMA PrecedesOrders ==
    ASSUME NEW sort, SortFields(sort), NEW a \in Row, NEW b \in Row
    PROVE  /\ precedes(sort, a, b) \/ precedes(sort, b, a) \/ level(sort, a, b)
           /\ ~(precedes(sort, a, b) /\ precedes(sort, b, a))
           /\ ~(precedes(sort, a, b) /\ level(sort, a, b))
           /\ ~(precedes(sort, b, a) /\ level(sort, a, b))
           /\ level(sort, a, b) <=> level(sort, b, a)
  <1> DEFINE x(k) == sortKey(a, sort[k].field)
             y(k) == sortKey(b, sort[k].field)
             D == {k \in DOMAIN sort : x(k) # y(k)}
  <1>1. \A k : x(k) \in Int /\ y(k) \in Int  BY SortKeys
  <1>2. DOMAIN sort = 1..Len(sort) /\ Len(sort) \in Nat  BY DEF SortFields
  <1>3. /\ precedes(sort, a, b) <=>
             \E k \in DOMAIN sort :
               /\ IF sort[k].desc THEN x(k) > y(k) ELSE x(k) < y(k)
               /\ \A j \in 1..(k - 1) : x(j) = y(j)
        /\ precedes(sort, b, a) <=>
             \E k \in DOMAIN sort :
               /\ IF sort[k].desc THEN y(k) > x(k) ELSE y(k) < x(k)
               /\ \A j \in 1..(k - 1) : y(j) = x(j)
        /\ level(sort, a, b) <=> \A k \in DOMAIN sort : x(k) = y(k)
        /\ level(sort, b, a) <=> \A k \in DOMAIN sort : y(k) = x(k)
    BY DEF precedes, level
  <1>4. D # {} => \E k \in D : \A j \in 1..(k - 1) : x(j) = y(j)
    <2> SUFFICES ASSUME D # {}  PROVE \E k \in D : \A j \in 1..(k - 1) : x(j) = y(j)
      OBVIOUS
    <2>1. D \in SUBSET Nat  BY <1>2
    <2>2. PICK k \in D : \A l \in D : k <= l  BY <2>1, NatMin
    <2>3. ASSUME NEW j \in 1..(k - 1)  PROVE x(j) = y(j)
      <3>1. k \in 1..Len(sort)  BY <1>2, <2>2
      <3>2. j \in DOMAIN sort /\ ~(k <= j)  BY <1>2, <3>1
      <3> QED  BY <2>2, <3>2
    <2> QED  BY <2>2, <2>3
  <1> HIDE DEF x, y
  <1>5. precedes(sort, a, b) \/ precedes(sort, b, a) \/ level(sort, a, b)
    <2>1. CASE D = {}  BY <1>3, <2>1
    <2>2. CASE D # {}
      <3>1. PICK k \in D : \A j \in 1..(k - 1) : x(j) = y(j)  BY <1>4, <2>2
      <3>2. x(k) < y(k) \/ x(k) > y(k)  BY <1>1, <3>1
      <3> QED  BY <1>3, <3>1, <3>2
    <2> QED  BY <2>1, <2>2
  <1>6. ASSUME precedes(sort, a, b), precedes(sort, b, a)  PROVE FALSE
    <2>1. PICK k \in DOMAIN sort : /\ IF sort[k].desc THEN x(k) > y(k) ELSE x(k) < y(k)
                                   /\ \A j \in 1..(k - 1) : x(j) = y(j)
      BY <1>3, <1>6
    <2>2. PICK l \in DOMAIN sort : /\ IF sort[l].desc THEN y(l) > x(l) ELSE y(l) < x(l)
                                   /\ \A j \in 1..(l - 1) : y(j) = x(j)
      BY <1>3, <1>6
    <2>3. x(k) # y(k) /\ x(l) # y(l)  BY <1>1, <2>1, <2>2
    <2>4. k \in Nat /\ l \in Nat /\ k >= 1 /\ l >= 1  BY <1>2
    <2>5. ~(k < l) /\ ~(l < k)  BY <2>1, <2>2, <2>3, <2>4
    <2>6. k = l  BY <2>4, <2>5
    <2> QED  BY <1>1, <2>1, <2>2, <2>6
  <1>7. ~(precedes(sort, a, b) /\ level(sort, a, b))  BY <1>1, <1>3
  <1>8. ~(precedes(sort, b, a) /\ level(sort, a, b))  BY <1>1, <1>3
  <1> QED  BY <1>3, <1>5, <1>6, <1>7, <1>8

\* The order is transitive, across rows that are level too.
LEMMA PrecedesTransitive ==
    ASSUME NEW sort, SortFields(sort), NEW a \in Row, NEW b \in Row, NEW c \in Row
    PROVE  /\ precedes(sort, a, b) /\ precedes(sort, b, c) => precedes(sort, a, c)
           /\ precedes(sort, a, b) /\ level(sort, b, c) => precedes(sort, a, c)
           /\ level(sort, a, b) /\ precedes(sort, b, c) => precedes(sort, a, c)
           /\ level(sort, a, b) /\ level(sort, b, c) => level(sort, a, c)
  <1> DEFINE x(k) == sortKey(a, sort[k].field)
             y(k) == sortKey(b, sort[k].field)
             z(k) == sortKey(c, sort[k].field)
  <1>1. \A k : x(k) \in Int /\ y(k) \in Int /\ z(k) \in Int  BY SortKeys
  <1>2. \A k \in DOMAIN sort : k \in Nat /\ k >= 1 /\ \A j \in 1..(k - 1) : j \in DOMAIN sort /\ j \in Nat
    BY DEF SortFields
  <1>3. /\ precedes(sort, a, b) <=>
             \E k \in DOMAIN sort :
               /\ IF sort[k].desc THEN x(k) > y(k) ELSE x(k) < y(k)
               /\ \A j \in 1..(k - 1) : x(j) = y(j)
        /\ precedes(sort, b, c) <=>
             \E k \in DOMAIN sort :
               /\ IF sort[k].desc THEN y(k) > z(k) ELSE y(k) < z(k)
               /\ \A j \in 1..(k - 1) : y(j) = z(j)
        /\ precedes(sort, a, c) <=>
             \E k \in DOMAIN sort :
               /\ IF sort[k].desc THEN x(k) > z(k) ELSE x(k) < z(k)
               /\ \A j \in 1..(k - 1) : x(j) = z(j)
        /\ level(sort, a, b) <=> \A k \in DOMAIN sort : x(k) = y(k)
        /\ level(sort, b, c) <=> \A k \in DOMAIN sort : y(k) = z(k)
        /\ level(sort, a, c) <=> \A k \in DOMAIN sort : x(k) = z(k)
    BY DEF precedes, level
  <1> HIDE DEF x, y, z
  <1>4. ASSUME precedes(sort, a, b), precedes(sort, b, c)  PROVE precedes(sort, a, c)
    <2>1. PICK k \in DOMAIN sort : /\ IF sort[k].desc THEN x(k) > y(k) ELSE x(k) < y(k)
                                   /\ \A j \in 1..(k - 1) : x(j) = y(j)
      BY <1>3, <1>4
    <2>2. PICK l \in DOMAIN sort : /\ IF sort[l].desc THEN y(l) > z(l) ELSE y(l) < z(l)
                                   /\ \A j \in 1..(l - 1) : y(j) = z(j)
      BY <1>3, <1>4
    <2>3. k \in Nat /\ l \in Nat /\ k >= 1 /\ l >= 1  BY <1>2
    <2>4. CASE k < l
      <3>1. y(k) = z(k) /\ \A j \in 1..(k - 1) : x(j) = z(j)  BY <2>1, <2>2, <2>3, <2>4
      <3> QED  BY <1>3, <2>1, <3>1
    <2>5. CASE l < k
      <3>1. x(l) = y(l) /\ \A j \in 1..(l - 1) : x(j) = z(j)  BY <2>1, <2>2, <2>3, <2>5
      <3> QED  BY <1>3, <2>2, <3>1
    <2>6. CASE k = l
      <3>1. \A j \in 1..(k - 1) : x(j) = z(j)  BY <2>1, <2>2, <2>6
      <3>2. IF sort[k].desc THEN x(k) > z(k) ELSE x(k) < z(k)  BY <1>1, <2>1, <2>2, <2>6
      <3> QED  BY <1>3, <3>1, <3>2
    <2> QED  BY <2>3, <2>4, <2>5, <2>6
  <1>5. precedes(sort, a, b) /\ level(sort, b, c) => precedes(sort, a, c)
    BY <1>2, <1>3
  <1>6. level(sort, a, b) /\ precedes(sort, b, c) => precedes(sort, a, c)
    BY <1>2, <1>3
  <1>7. level(sort, a, b) /\ level(sort, b, c) => level(sort, a, c)
    BY <1>3
  <1> QED  BY <1>4, <1>5, <1>6, <1>7

\* The numbers before one in a relation, and the place that they give it.
Before(R, n, i) == {j \in 1..n : <<j, i>> \in R}
Rank(R, n, i) == Cardinality(Before(R, n, i)) + 1

\* A relation that puts n numbers in a row.
StrictOrder(R, n) ==
    /\ \A i \in 1..n : <<i, i>> \notin R
    /\ \A i, j \in 1..n : i # j => <<i, j>> \in R \/ <<j, i>> \in R
    /\ \A i, j, k \in 1..n : <<i, j>> \in R /\ <<j, k>> \in R => <<i, k>> \in R

\* In a strict order of n numbers, how many come before one tells its place.
LEMMA Ranks ==
    ASSUME NEW n \in Nat, NEW R, StrictOrder(R, n)
    PROVE  /\ \A i \in 1..n : Rank(R, n, i) \in 1..n
           /\ \A p \in 1..n : \E i \in 1..n : Rank(R, n, i) = p
           /\ \A i, j \in 1..n : Rank(R, n, i) = Rank(R, n, j) => i = j
           /\ \A i, j \in 1..n : Rank(R, n, i) < Rank(R, n, j) => <<i, j>> \in R
  <1> DEFINE rank == [i \in 1..n |-> Rank(R, n, i)]
  <1>1. IsFiniteSet(1..n) /\ Cardinality(1..n) = n
    BY FS_Interval
  <1>2. ASSUME NEW i \in 1..n
        PROVE  /\ IsFiniteSet(Before(R, n, i)) /\ Cardinality(Before(R, n, i)) \in Nat
               /\ Cardinality(Before(R, n, i)) < n
    <2>1. Before(R, n, i) \in SUBSET (1..n) /\ i \notin Before(R, n, i)
      BY DEF Before, StrictOrder
    <2>2. /\ IsFiniteSet(Before(R, n, i)) /\ Cardinality(Before(R, n, i)) <= Cardinality(1..n)
          /\ Cardinality(1..n) = Cardinality(Before(R, n, i)) => 1..n = Before(R, n, i)
      BY <1>1, <2>1, FS_Subset
    <2>3. Cardinality(Before(R, n, i)) \in Nat  BY <2>2, FS_CardinalityType
    <2>4. Cardinality(Before(R, n, i)) # n  BY <1>1, <2>1, <2>2
    <2> QED  BY <1>1, <2>2, <2>3, <2>4
  <1>3. \A i \in 1..n : Rank(R, n, i) = Cardinality(Before(R, n, i)) + 1  BY DEF Rank
  <1>4. ASSUME NEW i \in 1..n, NEW j \in 1..n, <<i, j>> \in R  PROVE Rank(R, n, i) < Rank(R, n, j)
    <2>1. Before(R, n, i) \in SUBSET Before(R, n, j) /\ i \in Before(R, n, j) /\ i \notin Before(R, n, i)
      BY <1>4 DEF Before, StrictOrder
    <2>2. IsFiniteSet(Before(R, n, j))  BY <1>2
    <2>3. /\ Cardinality(Before(R, n, i)) <= Cardinality(Before(R, n, j))
          /\ Cardinality(Before(R, n, j)) = Cardinality(Before(R, n, i)) => Before(R, n, j) = Before(R, n, i)
      BY <2>1, <2>2, FS_Subset
    <2>4. Cardinality(Before(R, n, i)) \in Nat /\ Cardinality(Before(R, n, j)) \in Nat  BY <1>2
    <2>5. Cardinality(Before(R, n, j)) # Cardinality(Before(R, n, i))  BY <2>1, <2>3
    <2>6. Cardinality(Before(R, n, i)) < Cardinality(Before(R, n, j))  BY <2>3, <2>4, <2>5
    <2> QED  BY <1>3, <2>4, <2>6
  <1>5. \A i \in 1..n : Rank(R, n, i) \in 1..n
    <2> TAKE i \in 1..n
    <2>1. Cardinality(Before(R, n, i)) \in Nat /\ Cardinality(Before(R, n, i)) < n  BY <1>2
    <2> QED  BY <1>3, <2>1
  <1>6. ASSUME NEW i \in 1..n, NEW j \in 1..n
        PROVE  /\ Rank(R, n, i) = Rank(R, n, j) => i = j
               /\ Rank(R, n, i) < Rank(R, n, j) => <<i, j>> \in R
    <2>1. Rank(R, n, i) \in 1..n /\ Rank(R, n, j) \in 1..n  BY <1>5
    <2>2. <<i, j>> \in R => Rank(R, n, i) < Rank(R, n, j)  BY <1>4
    <2>3. <<j, i>> \in R => Rank(R, n, j) < Rank(R, n, i)  BY <1>4
    <2>4. i # j => <<i, j>> \in R \/ <<j, i>> \in R  BY DEF StrictOrder
    <2> QED  BY <2>1, <2>2, <2>3, <2>4
  <1>7. \A i \in 1..n : rank[i] = Rank(R, n, i)  OBVIOUS
  <1>8. rank \in [1..n -> 1..n]  BY <1>5
  <1> HIDE DEF rank
  <1>9. rank \in Injection(1..n, 1..n)
    BY <1>6, <1>7, <1>8 DEF Injection, IsInjective
  <1>10. rank \in Surjection(1..n, 1..n)
    BY <1>1, <1>9, FS_Injection
  <1>11. \A p \in 1..n : \E i \in 1..n : Rank(R, n, i) = p  BY <1>7, <1>10 DEF Surjection
  <1> QED  BY <1>5, <1>6, <1>11

\* What SortBy makes of rows: the same rows, none ahead of one before it.
LEMMA Sorted ==
    ASSUME NEW sort, SortFields(sort), NEW n \in Nat, NEW rows \in [1..n -> Row]
    PROVE  /\ SortBy(rows, sort) \in [1..n -> Row]
           /\ \E place \in [1..n -> 1..n] :
                 /\ \A p \in 1..n : SortBy(rows, sort)[p] = rows[place[p]]
                 /\ \A i \in 1..n : \E p \in 1..n : place[p] = i
                 /\ \A p, q \in 1..n : place[p] = place[q] => p = q
                 /\ \A p, q \in 1..n : p < q => ~ahead(sort, rows[place[q]], rows[place[p]])
  <1> DEFINE before(j, i) == Less(sort, rows[j], rows[i]) \/ (j < i /\ ~Less(sort, rows[i], rows[j]))
             R == {e \in (1..n) \X (1..n) : before(e[1], e[2])}
             at(p) == CHOOSE i \in 1..n : Rank(R, n, i) = p
             place == [p \in 1..n |-> at(p)]
  <1>1. \A i, j \in 1..n :
            before(j, i) <=> \/ precedes(sort, rows[j], rows[i])
                             \/ j < i /\ level(sort, rows[j], rows[i])
    <2> TAKE i, j \in 1..n
    <2>1. rows[i] \in Row /\ rows[j] \in Row  OBVIOUS
    <2>2. /\ Less(sort, rows[j], rows[i]) <=> precedes(sort, rows[j], rows[i])
          /\ Less(sort, rows[i], rows[j]) <=> precedes(sort, rows[i], rows[j])
      BY <2>1, LessIsPrecedes
    <2> QED  BY <2>1, <2>2, PrecedesOrders
  <1>2. \A i, j \in 1..n : <<j, i>> \in R <=> before(j, i)
    <2> TAKE i, j \in 1..n
    <2>1. <<j, i>>[1] = j /\ <<j, i>>[2] = i /\ <<j, i>> \in (1..n) \X (1..n)  OBVIOUS
    <2> QED  BY <2>1
  <1>3. \A i \in 1..n : Cardinality({j \in DOMAIN rows : before(j, i)}) + 1 = Rank(R, n, i)
    <2> TAKE i \in 1..n
    <2>1. {j \in DOMAIN rows : before(j, i)} = Before(R, n, i)  BY <1>2 DEF Before
    <2> QED  BY <2>1 DEF Rank
  <1>4. SortBy(rows, sort) = [p \in 1..n |-> rows[at(p)]]
    <2> DEFINE r(i) == Cardinality({j \in DOMAIN rows : before(j, i)}) + 1
               a(p) == CHOOSE i \in DOMAIN rows : r(i) = p
    <2>1. SortBy(rows, sort) = [p \in DOMAIN rows |-> rows[a(p)]]
      BY DEF SortBy
    <2>2. \A i \in 1..n : r(i) = Rank(R, n, i)  BY <1>3
    <2>3. DOMAIN rows = 1..n  OBVIOUS
    <2> HIDE DEF r, R
    <2>4. \A p : a(p) = at(p)
      <3> TAKE p
      <3>1. \A i : (i \in DOMAIN rows /\ r(i) = p) <=> (i \in 1..n /\ Rank(R, n, i) = p)
        BY <2>2, <2>3
      <3> QED  BY <3>1
    <2> HIDE DEF a, at
    <2> QED  BY <2>1, <2>3, <2>4
  <1> HIDE DEF before
  <1>5. \A i \in 1..n : <<i, i>> \notin R
    BY <1>1, <1>2, PrecedesOrders
  <1>6. \A i, j \in 1..n : i # j => <<i, j>> \in R \/ <<j, i>> \in R
    <2> TAKE i, j \in 1..n
    <2>1. rows[i] \in Row /\ rows[j] \in Row  OBVIOUS
    <2>2. \/ precedes(sort, rows[i], rows[j]) \/ precedes(sort, rows[j], rows[i])
          \/ level(sort, rows[i], rows[j]) /\ level(sort, rows[j], rows[i])
      BY <2>1, PrecedesOrders
    <2> HIDE DEF R
    <2> QED  BY <1>1, <1>2, <2>2
  <1>7. \A i, j, k \in 1..n : <<i, j>> \in R /\ <<j, k>> \in R => <<i, k>> \in R
    <2> TAKE i, j, k \in 1..n
    <2>1. rows[i] \in Row /\ rows[j] \in Row /\ rows[k] \in Row  OBVIOUS
    <2>2. /\ precedes(sort, rows[i], rows[j]) /\ precedes(sort, rows[j], rows[k]) => precedes(sort, rows[i], rows[k])
          /\ precedes(sort, rows[i], rows[j]) /\ level(sort, rows[j], rows[k]) => precedes(sort, rows[i], rows[k])
          /\ level(sort, rows[i], rows[j]) /\ precedes(sort, rows[j], rows[k]) => precedes(sort, rows[i], rows[k])
          /\ level(sort, rows[i], rows[j]) /\ level(sort, rows[j], rows[k]) => level(sort, rows[i], rows[k])
      BY <2>1, PrecedesTransitive
    <2>3. i < j /\ j < k => i < k  OBVIOUS
    <2> HIDE DEF R
    <2> QED  BY <1>1, <1>2, <2>2, <2>3
  <1> HIDE DEF R
  <1>8. StrictOrder(R, n)  BY <1>5, <1>6, <1>7 DEF StrictOrder
  <1>9. \A p \in 1..n : at(p) \in 1..n /\ Rank(R, n, at(p)) = p
    <2> TAKE p \in 1..n
    <2>1. \E i \in 1..n : Rank(R, n, i) = p  BY <1>8, Ranks
    <2> QED  BY <2>1
  <1> HIDE DEF at
  <1>10. place \in [1..n -> 1..n] /\ \A p \in 1..n : place[p] = at(p)  BY <1>9
  <1> HIDE DEF place
  <1>11. \A i \in 1..n : \E p \in 1..n : place[p] = i
    <2> TAKE i \in 1..n
    <2> DEFINE p == Rank(R, n, i)
    <2>1. p \in 1..n  BY <1>8, Ranks
    <2>2. place[p] \in 1..n /\ Rank(R, n, place[p]) = p  BY <1>9, <1>10, <2>1
    <2>3. place[p] = i  BY <1>8, <2>2, Ranks
    <2> QED  BY <2>1, <2>3
  <1>12. \A p, q \in 1..n : place[p] = place[q] => p = q
    <2> TAKE p, q \in 1..n
    <2>1. Rank(R, n, place[p]) = p /\ Rank(R, n, place[q]) = q  BY <1>9, <1>10
    <2> QED  BY <2>1
  <1>13. \A p, q \in 1..n : p < q => ~ahead(sort, rows[place[q]], rows[place[p]])
    <2> TAKE p, q \in 1..n
    <2> SUFFICES ASSUME p < q  PROVE ~ahead(sort, rows[place[q]], rows[place[p]])
      OBVIOUS
    <2>1. place[p] \in 1..n /\ place[q] \in 1..n /\ <<place[p], place[q]>> \in R
      <3>1. place[p] \in 1..n /\ place[q] \in 1..n /\ Rank(R, n, place[p]) = p /\ Rank(R, n, place[q]) = q
        BY <1>9, <1>10
      <3>2. Rank(R, n, place[p]) < Rank(R, n, place[q])  BY <3>1
      <3>3. <<place[p], place[q]>> \in R  BY <1>8, <3>1, <3>2, Ranks
      <3> QED  BY <3>1, <3>3
    <2>2. rows[place[p]] \in Row /\ rows[place[q]] \in Row  BY <2>1
    <2>3. \/ precedes(sort, rows[place[p]], rows[place[q]])
          \/ level(sort, rows[place[p]], rows[place[q]])
      BY <1>1, <1>2, <2>1
    <2>4. ~precedes(sort, rows[place[q]], rows[place[p]])  BY <2>2, <2>3, PrecedesOrders
    <2> QED  BY <2>2, <2>4, AheadIsPrecedes
  <1>14. /\ SortBy(rows, sort) \in [1..n -> Row]
         /\ \A p \in 1..n : SortBy(rows, sort)[p] = rows[place[p]]
    BY <1>4, <1>9, <1>10
  <1> QED  BY <1>10, <1>11, <1>12, <1>13, <1>14

\* A snapshot lists every element of a set once.
LEMMA Listings ==
    ASSUME NEW S, IsFiniteSet(S), NEW s \in SetToSeqs(S)
    PROVE  /\ Cardinality(S) \in Nat /\ s \in [1..Cardinality(S) -> S]
           /\ \A i, j \in 1..Cardinality(S) : s[i] = s[j] => i = j
           /\ \A x \in S : \E i \in 1..Cardinality(S) : s[i] = x
  <1> DEFINE n == Cardinality(S)
  <1>1. n \in Nat  BY FS_CardinalityType
  <1>2. s \in [1..n -> S] /\ \A i, j \in 1..n : i # j => s[i] # s[j]
    BY DEF SetToSeqs
  <1> HIDE DEF n
  <1>3. s \in Injection(1..n, S)  BY <1>2 DEF Injection, IsInjective
  <1>4. Cardinality(1..n) = n  BY <1>1, FS_Interval
  <1>5. s \in Surjection(1..n, S)
    <2>1. Cardinality(1..n) = Cardinality(S)  BY <1>4 DEF n
    <2> QED  BY <1>3, <2>1, FS_Injection
  <1>6. \A x \in S : \E i \in 1..n : s[i] = x  BY <1>5 DEF Surjection
  <1> QED  BY <1>1, <1>2, <1>6 DEF n

\* Where a page starts and how long it is.
left(n, from) == IF from > n THEN 0 ELSE n - from
pageSize(n, from, size) == IF size > 0 /\ size < left(n, from) THEN size ELSE left(n, from)

\* The rows of a page, in the order of all.
isSlice(page, rows, n, from, size) ==
    /\ Len(page) = pageSize(n, from, size)
    /\ \A i \in 1..pageSize(n, from, size) : from + i \in 1..n /\ page[i] = rows[from + i]

\* A page is as long as it may be, and made of what follows its start.
LEMMA Paginated ==
    ASSUME NEW T, NEW n \in Nat, NEW rows \in [1..n -> T], NEW from \in Nat, NEW size \in Int
    PROVE  /\ Paginate(rows, from, size) \in Seq(T)
           /\ pageSize(n, from, size) \in Nat
           /\ isSlice(Paginate(rows, from, size), rows, n, from, size)
  <1>1. rows \in Seq(T)  OBVIOUS
  <1>2. Len(rows) = n  BY <1>1, LenProperties
  <1>3. CASE from >= n
    <2>1. Paginate(rows, from, size) = <<>>  BY <1>2, <1>3 DEF Paginate
    <2>2. pageSize(n, from, size) = 0  BY <1>3 DEF pageSize, left
    <2>3. <<>> \in Seq(T) /\ Len(<<>>) = 0  BY EmptySeq
    <2> QED  BY <2>1, <2>2, <2>3 DEF isSlice
  <1>4. CASE from < n
    <2> DEFINE rest == SubSeq(rows, from + 1, n)
    <2>1. /\ rest \in Seq(T) /\ Len(rest) = n - from
          /\ \A i \in 1..(n - from) : rest[i] = rows[from + i]
      <3>1. \A i \in (from + 1)..n : rows[i] \in T  OBVIOUS
      <3>2. /\ rest \in Seq(T) /\ Len(rest) = IF from + 1 <= n THEN n - (from + 1) + 1 ELSE 0
            /\ \A i \in 1..(n - (from + 1) + 1) : rest[i] = rows[(from + 1) + i - 1]
        BY <3>1, SubSeqProperties
      <3> QED  BY <1>4, <3>2
    <2>2. Paginate(rows, from, size) = IF size > 0 /\ size < Len(rest) THEN SubSeq(rest, 1, size) ELSE rest
      BY <1>2, <1>4 DEF Paginate
    <2>3. left(n, from) = n - from  BY <1>4 DEF left
    <2> HIDE DEF rest
    <2>4. CASE size > 0 /\ size < n - from
      <3>1. pageSize(n, from, size) = size  BY <2>3, <2>4 DEF pageSize
      <3>2. \A i \in 1..size : rest[i] \in T /\ rest[i] = rows[from + i]  BY <2>1, <2>4
      <3>3. /\ SubSeq(rest, 1, size) \in Seq(T) /\ Len(SubSeq(rest, 1, size)) = IF 1 <= size THEN size - 1 + 1 ELSE 0
            /\ \A i \in 1..(size - 1 + 1) : SubSeq(rest, 1, size)[i] = rest[1 + i - 1]
        BY <3>2, SubSeqProperties
      <3>4. Paginate(rows, from, size) = SubSeq(rest, 1, size)  BY <2>1, <2>2, <2>4
      <3>5. \A i \in 1..size : SubSeq(rest, 1, size)[i] = rows[from + i] /\ from + i \in 1..n
        BY <2>4, <3>2, <3>3
      <3> QED  BY <2>4, <3>1, <3>3, <3>4, <3>5 DEF isSlice
    <2>5. CASE ~(size > 0 /\ size < n - from)
      <3>1. pageSize(n, from, size) = n - from  BY <2>3, <2>5 DEF pageSize
      <3>2. Paginate(rows, from, size) = rest  BY <2>1, <2>2, <2>5
      <3> QED  BY <1>4, <2>1, <3>1, <3>2 DEF isSlice
    <2> QED  BY <2>4, <2>5
  <1> QED  BY <1>3, <1>4

\* A page of the sorted matches is one that the query may answer.
LEMMA SortedPage ==
    ASSUME NEW rows, NEW q, matching(rows, q) \subseteq Row, IsFiniteSet(matching(rows, q)),
           SortFields(q.sort), q.from \in Nat, q.size \in Int, NEW s \in SetToSeqs(matching(rows, q))
    PROVE  isPage(Paginate(SortBy(s, q.sort), q.from, q.size), rows, q)
  <1> DEFINE all == matching(rows, q)
             n == Cardinality(all)
             t == SortBy(s, q.sort)
             page == Paginate(t, q.from, q.size)
             m == pageSize(n, q.from, q.size)
  <1>1. /\ n \in Nat /\ s \in [1..n -> all]
        /\ \A i, j \in 1..n : s[i] = s[j] => i = j
        /\ \A x \in all : \E i \in 1..n : s[i] = x
    BY Listings
  <1>2. s \in [1..n -> Row] /\ IsFiniteSet(all) /\ all \subseteq Row  BY <1>1
  <1>a. m = IF q.size > 0 /\ q.size < (IF q.from > Cardinality(all) THEN 0 ELSE Cardinality(all) - q.from)
            THEN q.size ELSE IF q.from > Cardinality(all) THEN 0 ELSE Cardinality(all) - q.from
    BY DEF pageSize, left
  <1> HIDE DEF all
  <1>b. n = Cardinality(all)  OBVIOUS
  <1> HIDE DEF n, m
  <1>3. t \in [1..n -> Row]  BY <1>1, <1>2, Sorted
  <1>4. PICK place \in [1..n -> 1..n] :
             /\ \A p \in 1..n : t[p] = s[place[p]]
             /\ \A i \in 1..n : \E p \in 1..n : place[p] = i
             /\ \A p, r \in 1..n : place[p] = place[r] => p = r
             /\ \A p, r \in 1..n : p < r => ~ahead(q.sort, s[place[r]], s[place[p]])
    BY <1>1, <1>2, Sorted
  <1> HIDE DEF t
  <1>5. t \in [1..n -> all]  BY <1>1, <1>3, <1>4
  <1>6. /\ \A x \in all : \E p \in 1..n : t[p] = x
        /\ \A p, r \in 1..n : t[p] = t[r] => p = r
        /\ \A p, r \in 1..n : p < r => ~ahead(q.sort, t[r], t[p])
    <2>1. \A x \in all : \E p \in 1..n : t[p] = x
      <3> TAKE x \in all
      <3>1. PICK i \in 1..n : s[i] = x  BY <1>1
      <3>2. PICK p \in 1..n : place[p] = i  BY <1>4
      <3> QED  BY <1>4, <3>1, <3>2
    <2>2. \A p, r \in 1..n : t[p] = t[r] => p = r
      <3> TAKE p, r \in 1..n
      <3>1. place[p] \in 1..n /\ place[r] \in 1..n /\ t[p] = s[place[p]] /\ t[r] = s[place[r]]
        BY <1>4
      <3>2. \A i, j \in 1..n : s[i] = s[j] => i = j  BY <1>1
      <3>3. s[place[p]] = s[place[r]] => place[p] = place[r]  BY <3>1, <3>2
      <3>4. place[p] = place[r] => p = r  BY <1>4
      <3> QED  BY <3>1, <3>3, <3>4
    <2>3. \A p, r \in 1..n : p < r => ~ahead(q.sort, t[r], t[p])
      <3> TAKE p, r \in 1..n
      <3> QED  BY <1>4
    <2> QED  BY <2>1, <2>2, <2>3
  <1>7. /\ page \in Seq(all) /\ Len(page) = m
        /\ \A i \in 1..m : q.from + i \in 1..n /\ page[i] = t[q.from + i]
    <2> DEFINE l == pageSize(n, q.from, q.size)
    <2>1. /\ page \in Seq(all) /\ Len(page) = l
          /\ \A i \in 1..l : q.from + i \in 1..n /\ page[i] = t[q.from + i]
      <3>1. PICK from \in Nat : from = q.from  OBVIOUS
      <3>2. PICK size \in Int : size = q.size  OBVIOUS
      <3>3. n \in Nat /\ t \in [1..n -> all]  BY <1>1, <1>5
      <3>4. /\ Paginate(t, from, size) \in Seq(all)
            /\ isSlice(Paginate(t, from, size), t, n, from, size)
        <4>1. PICK T : T = all  OBVIOUS
        <4>2. PICK k \in Nat : k = n  BY <3>3
        <4>3. PICK r \in [1..k -> T] : r = t  BY <3>3, <4>1, <4>2
        <4>4. Paginate(r, from, size) \in Seq(T)  BY Paginated
        <4>5. isSlice(Paginate(r, from, size), r, k, from, size)  BY Paginated
        <4> QED  BY <4>1, <4>2, <4>3, <4>4, <4>5
      <3> QED  BY <3>1, <3>2, <3>4 DEF isSlice
    <2> QED  BY <2>1 DEF m
  <1>8. DOMAIN page = 1..m /\ m \in Nat  BY <1>7, LenProperties
  <1> HIDE DEF page
  <1>9. IsInjective(page) /\ ToSet(page) \subseteq all
    <2>1. \A i \in 1..m : page[i] \in all  BY <1>5, <1>7
    <2>2. \A i, j \in 1..m : page[i] = page[j] => i = j
      <3> TAKE i, j \in 1..m
      <3>1. q.from + i \in 1..n /\ q.from + j \in 1..n /\ page[i] = t[q.from + i] /\ page[j] = t[q.from + j]
        BY <1>7
      <3>2. page[i] = page[j] => q.from + i = q.from + j  BY <1>6, <3>1
      <3> QED  BY <3>2
    <2> QED  BY <1>8, <2>1, <2>2 DEF IsInjective, ToSet
  <1>10. ASSUME NEW i \in 1..m
         PROVE  /\ Cardinality({x \in all : ahead(q.sort, x, page[i])}) < q.from + i
                /\ Cardinality({x \in all : ~ahead(q.sort, page[i], x)}) >= q.from + i
    <2> DEFINE p == q.from + i
               A == {x \in all : ahead(q.sort, x, t[p])}
               B == {x \in all : ~ahead(q.sort, t[p], x)}
    <2>1. p \in 1..n /\ page[i] = t[p]  BY <1>7
    <2> HIDE DEF p
    <2>2. t[p] \in Row /\ ~ahead(q.sort, t[p], t[p])
      <3>1. t[p] \in Row  BY <1>3, <2>1
      <3> QED  BY <3>1, AheadIsPrecedes, PrecedesOrders
    <2>3. IsFiniteSet(A) /\ Cardinality(A) <= p - 1 /\ Cardinality(A) \in Nat
      <3> DEFINE low == 1..(p - 1)
                 f == [x \in A |-> CHOOSE k \in 1..n : t[k] = x]
      <3>1. \A x \in A : f[x] \in 1..n /\ t[f[x]] = x  BY <1>6
      <3>2. \A x \in A : f[x] \in low
        <4> TAKE x \in A
        <4>1. f[x] \in 1..n /\ ahead(q.sort, t[f[x]], t[p])  BY <3>1
        <4> HIDE DEF f
        <4>2. ~(p < f[x]) /\ p # f[x]  BY <1>6, <2>1, <2>2, <4>1
        <4> QED  BY <2>1, <4>1, <4>2
      <3>3. f \in [A -> low]  BY <3>2
      <3> HIDE DEF f
      <3>4. f \in Injection(A, low)
        <4>1. \A x, y \in A : f[x] = f[y] => x = y  BY <3>1
        <4> HIDE DEF A
        <4> QED  BY <3>3, <4>1 DEF Injection, IsInjective
      <3>5. IsFiniteSet(low) /\ Cardinality(low) = p - 1
        <4>1. p - 1 \in Int /\ p >= 1 /\ p \in Int  BY <1>1, <2>1
        <4>2. PICK b \in Int : b = p - 1  BY <4>1
        <4>a. PICK a \in Int : a = 1  OBVIOUS
        <4>3. IsFiniteSet(a..b) /\ Cardinality(a..b) = IF a > b THEN 0 ELSE b - a + 1
          BY FS_Interval
        <4>4. IsFiniteSet(1..b) /\ Cardinality(1..b) = b  BY <4>1, <4>2, <4>a, <4>3
        <4> QED  BY <4>2, <4>3, <4>4
      <3> HIDE DEF A, low
      <3>6. IsFiniteSet(A) /\ Cardinality(A) <= Cardinality(low)  BY <3>4, <3>5, FS_Injection
      <3> QED  BY <3>5, <3>6, FS_CardinalityType
    <2>4. Cardinality(B) >= p
      <3> DEFINE high == 1..p
                 f == [k \in high |-> t[k]]
      <3>1. \A k \in high : k \in 1..n /\ t[k] \in B
        <4> TAKE k \in high
        <4>1. k \in 1..n /\ (k < p \/ k = p)  BY <1>1, <2>1
        <4>2. ~ahead(q.sort, t[p], t[k])  BY <1>6, <2>1, <2>2, <4>1
        <4>3. t[k] \in all  BY <1>5, <4>1
        <4> QED  BY <4>1, <4>2, <4>3
      <3>2. B \in SUBSET all  OBVIOUS
      <3>3. IsFiniteSet(B)  BY <1>2, <3>2, FS_Subset
      <3> HIDE DEF B
      <3>4. f \in Injection(high, B)
        <4>1. f \in [high -> B]  BY <3>1
        <4>2. \A k, l \in high : f[k] = f[l] => k = l  BY <1>6, <3>1
        <4> HIDE DEF f, high
        <4> QED  BY <4>1, <4>2 DEF Injection, IsInjective
      <3>5. Cardinality(high) = p
        <4>1. p >= 1 /\ p \in Int  BY <2>1
        <4> QED  BY <4>1, FS_Interval
      <3> HIDE DEF f, high
      <3>6. Cardinality(high) <= Cardinality(B)  BY <3>3, <3>4, FS_Injection
      <3>7. Cardinality(B) \in Nat  BY <3>3, FS_CardinalityType
      <3> QED  BY <2>1, <3>5, <3>6, <3>7
    <2>5. p - 1 < p /\ p \in Nat  BY <2>1
    <2> HIDE DEF A, B
    <2>6. Cardinality(A) < p  BY <2>3, <2>5
    <2> QED  BY <2>1, <2>4, <2>6 DEF A, B, p
  <1>11. Len(page) = IF q.size > 0 /\ q.size < (IF q.from > Cardinality(all) THEN 0 ELSE Cardinality(all) - q.from)
                     THEN q.size ELSE IF q.from > Cardinality(all) THEN 0 ELSE Cardinality(all) - q.from
    BY <1>7, <1>a
  <1>12. isPage(page, rows, q)  BY <1>8, <1>9, <1>10, <1>11 DEF isPage, all
  <1> QED  BY <1>12 DEF page, t

-----------------------------------------------------------------------------
\* Answers.

\* What the rows of an entity are at any time.
Stored(rows) ==
    /\ rows \subseteq Row /\ IsFiniteSet(rows)
    /\ \A x, y \in rows : x.id = y.id => x = y

\* If no row fails a query, the rows it selects are the ones its filter means.
LEMMA Matches ==
    ASSUME NEW q \in Query, NEW rows, rows \subseteq Row, ~fails(rows, q.filter)
    PROVE  matched(rows, q.filter) = matching(rows, q)
  <1> DEFINE f == q.filter
  <1>1. f \in Filter  BY QueriesAssumption
  <1>2. ASSUME NEW x \in rows  PROVE Match[f][x] = "yes" <=> satisfies[f][x]
    <2>1. Tells(Match[f][x], satisfies[f][x])  BY <1>1, FilterMeaning
    <2>2. Match[f][x] # "error"  BY DEF fails
    <2> QED  BY <2>1, <2>2 DEF Tells
  <1> QED  BY <1>2 DEF matched, matching

\* The hits of a query are a page of the matches.
LEMMA HitsArePages ==
    ASSUME NEW q \in Query, NEW rows, Stored(rows), NEW page \in Hits(rows, q)
    PROVE  isPage(page, rows, q)
  <1>1. rows \in SUBSET Row  BY DEF Stored
  <1>2. page \in hitsOf(rows, q)  BY <1>1, AnswersAssumption
  <1>3. ~fails(rows, q.filter)  BY <1>2 DEF hitsOf
  <1>4. page \in queryEntities(matching(rows, q), q)  BY <1>1, <1>2, <1>3, Matches DEF hitsOf
  <1>5. PICK s \in SetToSeqs(matching(rows, q)) : page = Paginate(SortBy(s, q.sort), q.from, q.size)
    BY <1>4 DEF queryEntities, snapshots
  <1>6. matching(rows, q) \subseteq Row /\ IsFiniteSet(matching(rows, q))
    <2>1. matching(rows, q) \in SUBSET rows  BY DEF matching
    <2> QED  BY <2>1, FS_Subset DEF Stored
  <1>7. SortFields(q.sort) /\ q.from \in Nat /\ q.size \in Int
    BY QueriesAssumption, ApiAssumption DEF SortFields
  <1> QED  BY <1>5, <1>6, <1>7, SortedPage

\* Its aggregations are computed over all of them.
LEMMA AggregationsAreOfMatches ==
    ASSUME NEW q \in Query, NEW rows, rows \subseteq Row, q.aggs # <<>>, NEW a \in Aggregations(rows, q)
    PROVE  a = Evaluate(SetToSeq(matching(rows, q)), q.aggs)
  <1>1. a \in aggregationsOf(rows, q)  BY AnswersAssumption
  <1>2. ~fails(rows, q.filter) /\ a = Evaluate(filterProject(matched(rows, q.filter), q), q.aggs)
    BY <1>1 DEF aggregationsOf
  <1> QED  BY <1>2, Matches DEF filterProject

\* The store and each of its moments hold finitely many rows, one with an id.
MomentsAreStored == Stored(store) /\ \A i \in 1..Len(moments) : Stored(moments[i])

\* So they are at first, and stay.
LEMMA InitStored == Init => MomentsAreStored
  <1> SUFFICES ASSUME Init  PROVE MomentsAreStored
    OBVIOUS
  <1>1. store = FirstRows /\ moments = <<>>  BY DEF Init, quiet
  <1> QED  BY <1>1, ApiAssumption, QueriesAssumption DEF MomentsAreStored, Stored

LEMMA StepStored == IndInv /\ MomentsAreStored /\ [Next]_vars => MomentsAreStored'
  <1> SUFFICES ASSUME IndInv, MomentsAreStored, [Next]_vars  PROVE MomentsAreStored'
    OBVIOUS
  <1>1. moments \in Seq(SUBSET Row) /\ Len(moments) \in Nat /\ store \subseteq Row
    BY DEF IndInv, TypeOK
  <1>2. Stored(store) /\ \A i \in 1..Len(moments) : Stored(moments[i])  BY DEF MomentsAreStored
  <1>3. CASE Upsert
    <2>1. PICK row \in Row \ store : store' = {x \in store : x.id # row.id} \cup {row}
      BY <1>3 DEF Upsert
    <2>2. Stored(store')
      <3>1. {x \in store : x.id # row.id} \in SUBSET store  OBVIOUS
      <3>2. IsFiniteSet({x \in store : x.id # row.id})  BY <1>2, <3>1, FS_Subset DEF Stored
      <3>3. IsFiniteSet(store')  BY <2>1, <3>2, FS_AddElement
      <3> QED  BY <1>2, <2>1, <3>3 DEF Stored
    <2>3. CASE phase = "idle"
      <3>1. moments' = moments  BY <1>3, <2>3 DEF Upsert
      <3> QED  BY <1>2, <2>2, <3>1 DEF MomentsAreStored
    <2>4. CASE phase # "idle"
      <3>1. moments' = Append(moments, store') /\ store' \in SUBSET Row
        BY <1>3, <2>2, <2>4 DEF Upsert, Stored
      <3>2. /\ Len(moments') = Len(moments) + 1 /\ \A i \in 1..Len(moments) : moments'[i] = moments[i]
            /\ moments'[Len(moments) + 1] = store'
        BY <1>1, <3>1, OneMore
      <3>3. ASSUME NEW i \in 1..Len(moments')  PROVE Stored(moments'[i])
        <4>1. i \in 1..Len(moments) \/ i = Len(moments) + 1  BY <1>1, <3>2
        <4> QED  BY <1>2, <2>2, <3>2, <4>1
      <3> QED  BY <2>2, <3>3 DEF MomentsAreStored
    <2> QED  BY <2>3, <2>4
  <1>4. CASE Send
    <2>1. store' = store /\ moments' = <<store>>  BY <1>4 DEF Send
    <2>2. Len(moments') = 1 /\ moments'[1] = store  BY <2>1
    <2> QED  BY <1>2, <2>1, <2>2 DEF MomentsAreStored
  <1>5. CASE Leave
    <2>1. store' = store /\ moments' = <<>>  BY <1>5 DEF Leave
    <2>2. Len(moments') = 0  BY <2>1
    <2> QED  BY <1>2, <2>1, <2>2 DEF MomentsAreStored
  <1>6. CASE UNCHANGED <<store, moments>>
    BY <1>2, <1>6 DEF MomentsAreStored
  <1>7. Upsert \/ Send \/ Leave \/ UNCHANGED <<store, moments>>
    BY DEF Next, vars, ghosts, SendBody, ReadAnswer, NextPage, Parse, HandleGet, HandlePost, HandleOwnership, MethodNotAllowed,
           FetchHits, FetchAggregations, QueryFails, Listen, Cancel, Shutdown, Return
  <1> QED  BY <1>3, <1>4, <1>5, <1>6, <1>7

\* What an answer may put together is exact.
LEMMA TimelyIsExact == IndInv /\ MomentsAreStored => AnswersAreExact
  <1> SUFFICES ASSUME IndInv, MomentsAreStored, answered, response.status = 200
               PROVE  AnswersAreExact
    BY DEF AnswersAreExact
  <1>1. /\ query \in Query /\ Len(moments) \in Nat /\ received >= 1 /\ received \in Nat
        /\ AnswersAreOfTheirTime
    BY DEF IndInv, TypeOK, MomentsEndNow, answered
  <1>2. PICK i \in during : \E j \in i..Len(moments) :
            /\ query.aggsOnly \/ response.hits \in Hits(moments[i], query)
            /\ query.aggs = <<>> \/ response.aggregations \in Aggregations(moments[j], query)
    BY <1>1 DEF AnswersAreOfTheirTime
  <1>3. PICK j \in i..Len(moments) :
            /\ query.aggsOnly \/ response.hits \in Hits(moments[i], query)
            /\ query.aggs = <<>> \/ response.aggregations \in Aggregations(moments[j], query)
    BY <1>2
  <1>4. i \in 1..Len(moments) /\ j \in 1..Len(moments)  BY <1>1, <1>2, <1>3 DEF during
  <1>5. Stored(moments[i]) /\ Stored(moments[j]) /\ moments[j] \subseteq Row
    BY <1>4 DEF MomentsAreStored, Stored
  <1>6. query.aggsOnly \/ isPage(response.hits, moments[i], query)
    BY <1>1, <1>3, <1>5, HitsArePages
  <1>7. query.aggs = <<>> \/ response.aggregations = Evaluate(SetToSeq(matching(moments[j], query)), query.aggs)
    BY <1>1, <1>3, <1>5, AggregationsAreOfMatches
  <1> QED  BY <1>2, <1>3, <1>6, <1>7 DEF AnswersAreExact

\* For filters of any form over any rows, hits are one page of the matches of one
\* moment, and aggregations count every match of that moment or a later one.
THEOREM AnswersExact == Spec => []AnswersAreExact
  <1>1. Init => IndInv /\ MomentsAreStored  BY InitInv, InitStored
  <1>2. IndInv /\ MomentsAreStored /\ [Next]_vars => (IndInv /\ MomentsAreStored)'
    BY StepInv, StepStored
  <1> QED  BY <1>1, <1>2, TimelyIsExact, PTL DEF Spec

-----------------------------------------------------------------------------
\* The queries of a walk.

\* A list of a set's elements has them all; two lists, one after the other, have
\* the elements of both, each once if no element is in both.
LEMMA ListedSet ==
    ASSUME NEW S, IsFiniteSet(S), NEW s \in SetToSeqs(S)
    PROVE  s \in Seq(S) /\ ToSet(s) = S
  <1> DEFINE n == Cardinality(S)
  <1>1. /\ n \in Nat /\ s \in [1..n -> S]
        /\ \A x \in S : \E i \in 1..n : s[i] = x
    BY Listings
  <1> HIDE DEF n
  <1>2. s \in Seq(S)  BY <1>1
  <1>3. ToSet(s) = S  BY <1>1 DEF ToSet
  <1> QED  BY <1>2, <1>3

LEMMA Joined ==
    ASSUME NEW T, NEW s \in Seq(T), NEW t \in Seq(T)
    PROVE  /\ s \o t \in Seq(T)
           /\ ToSet(s \o t) = ToSet(s) \cup ToSet(t)
           /\ IsInjective(s) /\ IsInjective(t) /\ ToSet(s) \cap ToSet(t) = {} => IsInjective(s \o t)
  <1> DEFINE u == s \o t
             m == Len(s)
             n == Len(t)
  <1>1. /\ m \in Nat /\ n \in Nat /\ DOMAIN s = 1..m /\ DOMAIN t = 1..n
        /\ u \in Seq(T) /\ Len(u) = m + n
        /\ \A i \in 1..(m + n) : u[i] = IF i <= m THEN s[i] ELSE t[i - m]
    BY LenProperties, ConcatProperties
  <1>2. DOMAIN u = 1..(m + n)  BY <1>1, LenProperties
  <1> HIDE DEF u, m, n
  <1>3. \A i \in 1..m : i \in 1..(m + n) /\ u[i] = s[i]  BY <1>1
  <1>4. \A i \in 1..n : m + i \in 1..(m + n) /\ u[m + i] = t[i]
    <2> TAKE i \in 1..n
    <2>1. m + i \in 1..(m + n) /\ ~(m + i <= m) /\ (m + i) - m = i  BY <1>1
    <2> QED  BY <1>1, <2>1
  <1>5. \A i \in 1..(m + n) : (i \in 1..m /\ u[i] = s[i]) \/ (i - m \in 1..n /\ u[i] = t[i - m])
    BY <1>1
  <1>6. ToSet(u) = ToSet(s) \cup ToSet(t)
    <2>1. \A x \in ToSet(u) : x \in ToSet(s) \cup ToSet(t)
      BY <1>1, <1>2, <1>5 DEF ToSet
    <2>2. \A x \in ToSet(s) : x \in ToSet(u)  BY <1>1, <1>2, <1>3 DEF ToSet
    <2>3. \A x \in ToSet(t) : x \in ToSet(u)
      <3> TAKE x \in ToSet(t)
      <3>1. PICK i \in 1..n : x = t[i]  BY <1>1 DEF ToSet
      <3>2. PICK k \in 1..(m + n) : k = m + i  BY <1>4
      <3>3. u[k] = x  BY <1>4, <3>1, <3>2
      <3> QED  BY <1>2, <3>3 DEF ToSet
    <2> QED  BY <2>1, <2>2, <2>3
  <1>7. ASSUME IsInjective(s), IsInjective(t), ToSet(s) \cap ToSet(t) = {}
        PROVE  IsInjective(u)
    <2>1. \A i, j \in 1..m : s[i] = s[j] => i = j  BY <1>1, <1>7 DEF IsInjective
    <2>2. \A i, j \in 1..n : t[i] = t[j] => i = j  BY <1>1, <1>7 DEF IsInjective
    <2>3. \A i \in 1..m, j \in 1..n : s[i] # t[j]  BY <1>1, <1>7 DEF ToSet
    <2>4. ASSUME NEW i \in 1..(m + n), NEW j \in 1..(m + n), u[i] = u[j]  PROVE i = j
      <3>1. (i \in 1..m /\ u[i] = s[i]) \/ (i - m \in 1..n /\ u[i] = t[i - m])  BY <1>5
      <3>2. (j \in 1..m /\ u[j] = s[j]) \/ (j - m \in 1..n /\ u[j] = t[j - m])  BY <1>5
      <3>3. CASE i \in 1..m /\ u[i] = s[i] /\ j \in 1..m /\ u[j] = s[j]  BY <2>1, <2>4, <3>3
      <3>4. CASE i - m \in 1..n /\ u[i] = t[i - m] /\ j - m \in 1..n /\ u[j] = t[j - m]
        <4>1. i - m = j - m  BY <2>2, <2>4, <3>4
        <4> QED  BY <1>1, <4>1
      <3>5. CASE i \in 1..m /\ u[i] = s[i] /\ j - m \in 1..n /\ u[j] = t[j - m]
        <4>1. s[i] # t[j - m]  BY <2>3, <3>5
        <4> QED  BY <2>4, <3>5, <4>1
      <3>6. CASE i - m \in 1..n /\ u[i] = t[i - m] /\ j \in 1..m /\ u[j] = s[j]
        <4>1. s[j] # t[i - m]  BY <2>3, <3>6
        <4> QED  BY <2>4, <3>6, <4>1
      <3> QED  BY <3>1, <3>2, <3>3, <3>4, <3>5, <3>6
    <2> QED  BY <1>2, <2>4 DEF IsInjective
  <1> QED  BY <1>1, <1>6, <1>7 DEF u

\* The clauses that parameters become, in whatever order they are listed.
clauseSet(filters) == termClauses(filters) \cup rangeClauses(filters) \cup existsClauses(filters)

\* Finitely many parameters make finitely many clauses, and each list has all.
LEMMA FiniteClauses ==
    ASSUME NEW filters, IsFiniteSet(filters)
    PROVE  IsFiniteSet(termClauses(filters)) /\ IsFiniteSet(rangeClauses(filters)) /\ IsFiniteSet(existsClauses(filters))
  <1>1. IsFiniteSet(termClauses(filters))
    <2> DEFINE P == {x \in filters : x.suffix = ""}
               f == [p \in P |-> termClause(p)]
    <2>1. P \in SUBSET filters  OBVIOUS
    <2>2. IsFiniteSet(P)  BY <2>1, FS_Subset
    <2>3. f \in Surjection(P, termClauses(filters))  BY DEF Surjection, termClauses
    <2> HIDE DEF P, f
    <2> QED  BY <2>2, <2>3, FS_Surjection
  <1>2. IsFiniteSet(rangeClauses(filters))
    <2> DEFINE P == {x \in filters : x.suffix \in {"gt", "gte", "lt", "lte"}}
               f == [p \in P |-> rangeClause(filters, p.field)]
    <2>1. P \in SUBSET filters  OBVIOUS
    <2>2. IsFiniteSet(P)  BY <2>1, FS_Subset
    <2>3. f \in Surjection(P, rangeClauses(filters))  BY DEF Surjection, rangeClauses
    <2> HIDE DEF P, f
    <2> QED  BY <2>2, <2>3, FS_Surjection
  <1>3. IsFiniteSet(existsClauses(filters))
    <2> DEFINE P == {x \in filters : x.suffix = "exists"}
               f == [p \in P |-> [op |-> "exists", field |-> p.field]]
    <2>1. P \in SUBSET filters  OBVIOUS
    <2>2. IsFiniteSet(P)  BY <2>1, FS_Subset
    <2>3. f \in Surjection(P, existsClauses(filters))  BY DEF Surjection, existsClauses
    <2> HIDE DEF P, f
    <2> QED  BY <2>2, <2>3, FS_Surjection
  <1> QED  BY <1>1, <1>2, <1>3

LEMMA ClausesListed ==
    ASSUME NEW filters, IsFiniteSet(filters), NEW s \in clauses(filters)
    PROVE  s \in Seq(clauseSet(filters)) /\ ToSet(s) = clauseSet(filters)
  <1> DEFINE C == clauseSet(filters)
  <1>1. PICK t \in SetToSeqs(termClauses(filters)), r \in SetToSeqs(rangeClauses(filters)),
             e \in SetToSeqs(existsClauses(filters)) : s = t \o r \o e
    BY DEF clauses
  <1>2. /\ t \in Seq(termClauses(filters)) /\ ToSet(t) = termClauses(filters)
        /\ r \in Seq(rangeClauses(filters)) /\ ToSet(r) = rangeClauses(filters)
        /\ e \in Seq(existsClauses(filters)) /\ ToSet(e) = existsClauses(filters)
    BY FiniteClauses, ListedSet
  <1>3. C = termClauses(filters) \cup rangeClauses(filters) \cup existsClauses(filters)  BY DEF clauseSet
  <1> HIDE DEF C
  <1>4. t \in Seq(C) /\ r \in Seq(C) /\ e \in Seq(C)  BY <1>2, <1>3
  <1>5. t \o r \in Seq(C) /\ ToSet(t \o r) = termClauses(filters) \cup rangeClauses(filters)
    BY <1>2, <1>4, Joined
  <1>6. s \in Seq(C) /\ ToSet(s) = C
    <2>1. PICK u \in Seq(C) : u = t \o r  BY <1>5
    <2>2. u \o e \in Seq(C) /\ ToSet(u \o e) = ToSet(u) \cup ToSet(e)  BY <1>4, Joined
    <2>3. s = u \o e  BY <1>1, <2>1
    <2> QED  BY <1>2, <1>3, <1>5, <2>1, <2>2, <2>3
  <1> QED  BY <1>6 DEF C

\* All of some clauses holds if each of them does.
LEMMA AllOfMeans ==
    ASSUME NEW T, NEW s \in Seq(T), allOf(s) \in Filter, NEW x \in Row
    PROVE  satisfies[allOf(s)][x] <=> \A c \in ToSet(s) : satisfies[c][x]
  <1>1. satisfies[allOf(s)][x] = means(allOf(s), x, satisfies)  BY SatisfiesIs
  <1>2. DOMAIN s = 1..Len(s) /\ Len(s) \in Nat  BY LenProperties
  <1>3. CASE s = <<>>
    <2>1. allOf(s) = NoFilter  BY <1>3 DEF allOf
    <2>2. means(NoFilter, x, satisfies)  BY DEF means, holds, NoFilter
    <2>3. ToSet(s) = {}  BY <1>3 DEF ToSet
    <2> QED  BY <1>1, <2>1, <2>2, <2>3
  <1>4. CASE Len(s) = 1
    <2>1. s # <<>>  BY <1>4
    <2>2. allOf(s) = s[1]  BY <1>4, <2>1 DEF allOf
    <2>3. ToSet(s) = {s[1]}  BY <1>2, <1>4 DEF ToSet
    <2> QED  BY <2>2, <2>3
  <1>5. CASE s # <<>> /\ Len(s) # 1
    <2> DEFINE f == [op |-> "bool", must |-> s, must_not |-> <<>>, should |-> <<>>]
    <2>1. allOf(s) = f  BY <1>5 DEF allOf
    <2>2. f.op = "bool" /\ f.must = s /\ f.must_not = <<>> /\ f.should = <<>>  OBVIOUS
    <2> HIDE DEF f
    <2>3. ToSet(f.must_not) = {}  BY <2>2 DEF ToSet
    <2>4. means(f, x, satisfies) <=> \A c \in ToSet(s) : satisfies[c][x]
      BY <1>5, <2>2, <2>3 DEF means
    <2> QED  BY <1>1, <2>1, <2>4
  <1> QED  BY <1>3, <1>4, <1>5

\* What a walk asks for: its pages' queries differ in where they start, and in
\* the order of their clauses, which does not matter.
sizeOf(r) == IF r.params.size = <<>> THEN DefaultSize ELSE r.params.size[1].v
meant(rows, r) == {x \in rows : \A c \in clauseSet(r.params.filters) : satisfies[c][x]}

\* A query of a walk for the page that starts at an offset.
QueryOf(r, o, q) ==
    /\ q \in Query /\ q.from = o /\ q.sort = parseSortFields(r.params.sort) /\ q.size = sizeOf(r)
    /\ q.aggsOnly = FALSE /\ q.aggs = <<>>
    /\ \A rows \in SUBSET Row : matching(rows, q) = meant(rows, r)

\* That is what the parameters of a walk become.
LEMMA QueryOfWalk ==
    ASSUME NEW r \in Request, r.walk, NEW o \in 0..MaxOffset, NEW q \in Queries(r, o)
    PROVE  QueryOf(r, o, q)
  <1>1. q \in Query  BY ApiAssumption
  <1>2. r.params.from = <<>> /\ IsFiniteSet(r.params.filters)  BY WalkAssumption
  <1>3. firstPage(r) = 0  BY <1>2 DEF firstPage
  <1> DEFINE from == IF o = firstPage(r) THEN r.params.from ELSE <<[parses |-> {"int", "float"}, v |-> o]>>
             params == [size |-> r.params.size, sort |-> r.params.sort, filters |-> r.params.filters,
                        from |-> from]
  <1>4. q \in parseQueryParams(params, DefaultSize)
    <2>1. q \in queriesOf(r, o)  BY AnswersAssumption
    <2> QED  BY <2>1 DEF queriesOf
  <1>5. (IF from = <<>> THEN 0 ELSE from[1].v) = o
    <2>1. CASE o = 0
      BY <1>2, <1>3, <2>1
    <2>2. CASE o # 0
      <3>1. from = <<[parses |-> {"int", "float"}, v |-> o]>>  BY <1>3, <2>2
      <3>2. from # <<>> /\ from[1].v = o  BY <3>1
      <3> QED  BY <3>2
    <2> QED  BY <2>1, <2>2
  <1>6. params.size = r.params.size /\ params.sort = r.params.sort /\ params.filters = r.params.filters
        /\ params.from = from
    OBVIOUS
  <1> HIDE DEF params, from
  <1>7. PICK s \in clauses(params.filters) :
            q = [filter |-> allOf(s), sort |-> parseSortFields(params.sort), aggsOnly |-> FALSE, aggs |-> <<>>,
                 from |-> IF params.from = <<>> THEN 0 ELSE params.from[1].v,
                 size |-> IF params.size = <<>> THEN DefaultSize ELSE params.size[1].v]
    BY <1>4 DEF parseQueryParams
  <1>8. /\ q.filter = allOf(s) /\ q.sort = parseSortFields(r.params.sort) /\ q.aggsOnly = FALSE
        /\ q.aggs = <<>> /\ q.from = o /\ q.size = sizeOf(r)
    BY <1>5, <1>6, <1>7 DEF sizeOf
  <1>9. ASSUME NEW rows \in SUBSET Row  PROVE matching(rows, q) = meant(rows, r)
    <2>1. s \in Seq(clauseSet(r.params.filters)) /\ ToSet(s) = clauseSet(r.params.filters)
      BY <1>2, <1>6, ClausesListed
    <2>2. allOf(s) \in Filter  BY <1>1, <1>8, QueriesAssumption
    <2>3. \A x \in rows : satisfies[allOf(s)][x] <=> \A c \in clauseSet(r.params.filters) : satisfies[c][x]
      BY <2>1, <2>2, AllOfMeans
    <2> QED  BY <1>8, <2>3 DEF matching, meant
  <1> QED  BY <1>1, <1>8, <1>9 DEF QueryOf

-----------------------------------------------------------------------------
\* Positions of rows.

\* A sort that tells all rows apart.
TellsApart(q) == \E s \in ToSet(q.sort) : s.field = "id"

\* Being ahead is a strict order, and one of two rows with different ids is.
LEMMA AheadOrders ==
    ASSUME NEW sort, SortFields(sort), NEW a \in Row, NEW b \in Row, NEW c \in Row
    PROVE  /\ ~ahead(sort, a, a)
           /\ ahead(sort, a, b) => ~ahead(sort, b, a)
           /\ ahead(sort, a, b) /\ ahead(sort, b, c) => ahead(sort, a, c)
  <1>1. /\ ahead(sort, a, a) <=> precedes(sort, a, a)
        /\ ahead(sort, a, b) <=> precedes(sort, a, b)
        /\ ahead(sort, b, a) <=> precedes(sort, b, a)
        /\ ahead(sort, b, c) <=> precedes(sort, b, c)
        /\ ahead(sort, a, c) <=> precedes(sort, a, c)
    BY AheadIsPrecedes
  <1>2. ~precedes(sort, a, a)  BY PrecedesOrders
  <1>3. ~(precedes(sort, a, b) /\ precedes(sort, b, a))  BY PrecedesOrders
  <1>4. precedes(sort, a, b) /\ precedes(sort, b, c) => precedes(sort, a, c)  BY PrecedesTransitive
  <1> QED  BY <1>1, <1>2, <1>3, <1>4

LEMMA AheadTells ==
    ASSUME NEW q, SortFields(q.sort), TellsApart(q), NEW a \in Row, NEW b \in Row, a.id # b.id
    PROVE  ahead(q.sort, a, b) \/ ahead(q.sort, b, a)
  <1>1. PICK k \in DOMAIN q.sort : q.sort[k].field = "id"  BY DEF TellsApart, ToSet
  <1>2. sortable(a, "id") /\ sortable(b, "id")  BY RowAssumption DEF sortable
  <1>3. a.id = Value(b.id.kind, a.id.v) /\ b.id = Value(b.id.kind, b.id.v)
    <2>1. "id" \in DOMAIN a /\ "id" \in DOMAIN b  BY RowAssumption
    <2>2. a["id"] = Value(b["id"].kind, a["id"].v) /\ b["id"] = Value(b["id"].kind, b["id"].v)
      BY <2>1, RowAssumption
    <2> QED  BY <2>2
  <1>4. a.id.v # b.id.v  BY <1>3
  <1>5. sortKey(a, "id") = a.id.v /\ sortKey(b, "id") = b.id.v  BY <1>2 DEF sortKey
  <1>6. ~level(q.sort, a, b)  BY <1>1, <1>4, <1>5 DEF level
  <1>7. precedes(q.sort, a, b) \/ precedes(q.sort, b, a)  BY <1>6, PrecedesOrders
  <1> QED  BY <1>7, AheadIsPrecedes

\* How many matches are ahead of a row.
aheadOf(rows, q, x) == {y \in matching(rows, q) : ahead(q.sort, y, x)}
position(rows, q, x) == Cardinality(aheadOf(rows, q, x))

\* Of finitely many rows finitely many match.
LEMMA FiniteMatches ==
    ASSUME NEW q, NEW rows, Stored(rows), NEW x
    PROVE  /\ matching(rows, q) \subseteq rows /\ matching(rows, q) \subseteq Row
           /\ IsFiniteSet(matching(rows, q)) /\ Cardinality(matching(rows, q)) \in Nat
           /\ IsFiniteSet(aheadOf(rows, q, x)) /\ position(rows, q, x) \in Nat
  <1>1. matching(rows, q) \in SUBSET rows  BY DEF matching
  <1>2. IsFiniteSet(matching(rows, q))  BY <1>1, FS_Subset DEF Stored
  <1>3. aheadOf(rows, q, x) \in SUBSET matching(rows, q)  BY DEF aheadOf
  <1>4. IsFiniteSet(aheadOf(rows, q, x))  BY <1>2, <1>3, FS_Subset
  <1> QED  BY <1>1, <1>2, <1>4, FS_CardinalityType DEF Stored, position

\* A match that is ahead of another has an earlier position.
LEMMA PositionsOrder ==
    ASSUME NEW q, SortFields(q.sort), NEW rows, Stored(rows),
           NEW x \in matching(rows, q), NEW y \in matching(rows, q), ahead(q.sort, x, y)
    PROVE  position(rows, q, x) < position(rows, q, y)
  <1> DEFINE A == aheadOf(rows, q, x)
             B == aheadOf(rows, q, y)
  <1>1. IsFiniteSet(B) /\ Cardinality(A) \in Nat /\ Cardinality(B) \in Nat /\ matching(rows, q) \subseteq Row
    BY FiniteMatches DEF position
  <1>2. A \in SUBSET B
    <2> SUFFICES ASSUME NEW z \in A  PROVE z \in B
      OBVIOUS
    <2>1. z \in matching(rows, q) /\ ahead(q.sort, z, x)  BY DEF aheadOf
    <2>2. z \in Row /\ x \in Row /\ y \in Row  BY <1>1, <2>1
    <2>3. ahead(q.sort, z, y)  BY <2>1, <2>2, AheadOrders
    <2> QED  BY <2>1, <2>3 DEF aheadOf
  <1>3. x \in B /\ x \notin A
    <2>1. x \in Row  BY <1>1
    <2>2. ~ahead(q.sort, x, x)  BY <2>1, AheadOrders
    <2> QED  BY <2>2 DEF aheadOf
  <1> HIDE DEF A, B
  <1>4. Cardinality(A) <= Cardinality(B) /\ (Cardinality(B) = Cardinality(A) => B = A)
    BY <1>1, <1>2, FS_Subset
  <1>5. Cardinality(A) < Cardinality(B)  BY <1>1, <1>3, <1>4
  <1> QED  BY <1>5 DEF A, B, position

\* Positions tell the matches apart, and are less than their number.
LEMMA Positions ==
    ASSUME NEW q, SortFields(q.sort), TellsApart(q), NEW rows, Stored(rows), NEW x \in matching(rows, q)
    PROVE  /\ position(rows, q, x) \in Nat /\ position(rows, q, x) < Cardinality(matching(rows, q))
           /\ \A y \in matching(rows, q) : position(rows, q, x) = position(rows, q, y) => x = y
  <1> DEFINE all == matching(rows, q)
             A == aheadOf(rows, q, x)
  <1>1. /\ all \subseteq rows /\ all \subseteq Row /\ IsFiniteSet(all) /\ Cardinality(all) \in Nat
        /\ Cardinality(A) \in Nat
    BY FiniteMatches DEF position
  <1>2. A \in SUBSET all /\ x \in all /\ x \notin A
    <2>1. x \in Row  BY <1>1
    <2>2. ~ahead(q.sort, x, x)  BY <2>1, AheadOrders
    <2> QED  BY <2>2 DEF aheadOf
  <1>3. Cardinality(A) < Cardinality(all)
    <2> HIDE DEF A, all
    <2>1. Cardinality(A) <= Cardinality(all) /\ (Cardinality(all) = Cardinality(A) => all = A)
      BY <1>1, <1>2, FS_Subset
    <2> QED  BY <1>1, <1>2, <2>1
  <1>4. ASSUME NEW y \in all, position(rows, q, x) = position(rows, q, y), x # y  PROVE FALSE
    <2>1. x \in Row /\ y \in Row /\ x.id # y.id  BY <1>1, <1>4 DEF Stored
    <2>2. ahead(q.sort, x, y) \/ ahead(q.sort, y, x)  BY <2>1, AheadTells
    <2>3. position(rows, q, x) \in Nat /\ position(rows, q, y) \in Nat  BY FiniteMatches
    <2>4. ahead(q.sort, x, y) => position(rows, q, x) < position(rows, q, y)  BY PositionsOrder
    <2>5. ahead(q.sort, y, x) => position(rows, q, y) < position(rows, q, x)  BY PositionsOrder
    <2> QED  BY <1>4, <2>2, <2>3, <2>4, <2>5
  <1> QED  BY <1>1, <1>3, <1>4 DEF position

\* Rows that are added only put a match further back.
LEMMA PositionsGrow ==
    ASSUME NEW q, NEW rows, NEW more, Stored(more), rows \subseteq more, Stored(rows), NEW x
    PROVE  position(rows, q, x) <= position(more, q, x)
  <1> DEFINE A == aheadOf(rows, q, x)
             B == aheadOf(more, q, x)
  <1>1. A \in SUBSET B  BY DEF aheadOf, matching
  <1>2. IsFiniteSet(B)  BY FiniteMatches
  <1> HIDE DEF A, B
  <1>3. Cardinality(A) <= Cardinality(B)  BY <1>1, <1>2, FS_Subset
  <1> QED  BY <1>3 DEF position, A, B

\* A page holds the matches whose positions are in its range.
LEMMA PageHolds ==
    ASSUME NEW q, SortFields(q.sort), TellsApart(q), q.from \in Nat, NEW rows, Stored(rows),
           NEW page \in Seq(Row), isPage(page, rows, q)
    PROVE  /\ IsInjective(page) /\ Len(page) \in Nat
           /\ ToSet(page) = {x \in matching(rows, q) :
                               q.from <= position(rows, q, x) /\ position(rows, q, x) < q.from + Len(page)}
  <1> DEFINE all == matching(rows, q)
             m == Len(page)
             in(x) == q.from <= position(rows, q, x) /\ position(rows, q, x) < q.from + m
  <1>1. DOMAIN page = 1..m /\ m \in Nat  BY LenProperties
  <1>2. /\ IsInjective(page) /\ ToSet(page) \subseteq all
        /\ \A i \in DOMAIN page :
              /\ Cardinality({x \in all : ahead(q.sort, x, page[i])}) < q.from + i
              /\ Cardinality({x \in all : ~ahead(q.sort, page[i], x)}) >= q.from + i
    BY DEF isPage
  <1>3. ASSUME NEW i \in 1..m  PROVE page[i] \in all /\ position(rows, q, page[i]) = q.from + i - 1
    <2> DEFINE p == page[i]
               A == aheadOf(rows, q, p)
               B == {x \in all : ~ahead(q.sort, p, x)}
    <2>1. p \in all  BY <1>1, <1>2 DEF ToSet
    <2>2. Cardinality(A) < q.from + i /\ Cardinality(B) >= q.from + i
      BY <1>1, <1>2 DEF aheadOf
    <2>3. B = A \cup {p} /\ p \notin A
      <3>1. all \subseteq Row /\ all \subseteq rows  BY FiniteMatches
      <3>2. ~ahead(q.sort, p, p)  BY <2>1, <3>1, AheadOrders
      <3>3. ASSUME NEW x \in all, x # p  PROVE ahead(q.sort, x, p) <=> ~ahead(q.sort, p, x)
        <4>1. x \in Row /\ p \in Row /\ x.id # p.id  BY <2>1, <3>1, <3>3 DEF Stored
        <4> QED  BY <4>1, AheadTells, AheadOrders
      <3> QED  BY <2>1, <3>2, <3>3 DEF aheadOf
    <2>4. IsFiniteSet(A) /\ Cardinality(A) \in Nat  BY FiniteMatches DEF position
    <2> HIDE DEF A, B
    <2>5. Cardinality(B) = Cardinality(A) + 1  BY <2>3, <2>4, FS_AddElement
    <2>6. Cardinality(A) = q.from + i - 1  BY <1>1, <2>2, <2>4, <2>5
    <2> QED  BY <2>1, <2>6 DEF A, position
  <1>4. \A i \in 1..m : in(page[i])
    <2> TAKE i \in 1..m
    <2>1. position(rows, q, page[i]) = q.from + i - 1  BY <1>3
    <2> QED  BY <1>1, <2>1
  <1>5. ASSUME NEW x \in all, in(x)  PROVE \E i \in 1..m : page[i] = x
    <2>1. position(rows, q, x) \in Nat  BY FiniteMatches
    <2>2. PICK i \in 1..m : position(rows, q, x) = q.from + i - 1
      <3>1. position(rows, q, x) - q.from + 1 \in 1..m  BY <1>1, <1>5, <2>1
      <3>2. PICK i \in 1..m : i = position(rows, q, x) - q.from + 1  BY <3>1
      <3> QED  BY <2>1, <3>2
    <2>3. page[i] \in all /\ position(rows, q, page[i]) = position(rows, q, x)  BY <1>3, <2>2
    <2>4. page[i] = x  BY <2>3, Positions
    <2> QED  BY <2>4
  <1> HIDE DEF in, all
  <1>6. ToSet(page) = {x \in all : in(x)}
    <2>1. \A x \in ToSet(page) : x \in all /\ in(x)  BY <1>1, <1>3, <1>4 DEF ToSet
    <2>2. \A x \in all : in(x) => x \in ToSet(page)  BY <1>1, <1>5 DEF ToSet
    <2> QED  BY <2>1, <2>2
  <1> QED  BY <1>1, <1>2, <1>6 DEF in, all

\* A page that is not full is the last one; a full one has as many rows as it may.
LEMMA PageLength ==
    ASSUME NEW q, SortFields(q.sort), TellsApart(q), q.from \in Nat, q.size \in Nat, q.size > 0,
           NEW rows, Stored(rows), NEW page \in Seq(Row), isPage(page, rows, q)
    PROVE  /\ Len(page) >= q.size => Len(page) = q.size
           /\ Len(page) < q.size =>
                  \A x \in matching(rows, q) : position(rows, q, x) < q.from + Len(page)
  <1> DEFINE n == Cardinality(matching(rows, q))
  <1>1. n \in Nat  BY FiniteMatches
  <1>2. Len(page) = IF q.size > 0 /\ q.size < (IF q.from > n THEN 0 ELSE n - q.from)
                    THEN q.size ELSE IF q.from > n THEN 0 ELSE n - q.from
    BY DEF isPage
  <1>3. \A x \in matching(rows, q) : position(rows, q, x) \in Nat /\ position(rows, q, x) < n
    BY Positions
  <1> HIDE DEF n
  <1>4. Len(page) >= q.size => Len(page) = q.size  BY <1>1, <1>2
  <1>5. Len(page) < q.size => n <= q.from + Len(page)  BY <1>1, <1>2
  <1>6. Len(page) \in Nat  BY LenProperties
  <1> QED  BY <1>1, <1>3, <1>4, <1>5, <1>6

-----------------------------------------------------------------------------
\* Walks.

\* A query is under way, or has been answered.
asking == \/ phase \in {"fetching", "aggregating"}
          \/ answered /\ response.status = 200

\* The query of a walk is one of its request, for the page it is at.
QueryIsOfRequest == request.walk /\ asking => query \in Queries(request, offset)

\* A walk begins with nothing.
StartsEmpty == phase = "idle" => collected = <<>>

\* Rows have only been added since the walk began.
Growing == \A i \in 1..(Len(moments) - 1) : moments[i] \subseteq moments[i + 1]

\* While rows are only added, a match of the first moment is collected or lies ahead
\* of the walk, where it stays; if nothing changes, what is collected is what
\* lies behind.
ReachedOrAhead(q) ==
    Growing => \A x \in matching(moments[1], q) :
                   x \in ToSet(collected) \/ offset <= position(moments[received], q, x)
LiesBehind(q) ==
    Len(moments) = 1 =>
        /\ IsInjective(collected)
        /\ ToSet(collected) = {x \in matching(moments[1], q) : position(moments[1], q, x) < offset}

\* So it is for every query the walk may ask, if its order tells all rows apart.
NothingSkipped ==
    request.walk /\ phase # "idle" =>
        \A o \in 0..MaxOffset : \A q \in Queries(request, o) :
            TellsApart(q) /\ q.size > 0 => ReachedOrAhead(q) /\ LiesBehind(q)

\* All that a walk relies on.
WalkInv == IndInv /\ MomentsAreStored /\ QueryIsOfRequest /\ StartsEmpty /\ NothingSkipped

\* No walk is under way at first.
LEMMA InitWalk == Init => QueryIsOfRequest /\ StartsEmpty /\ NothingSkipped
  BY DEF Init, quiet, QueryIsOfRequest, asking, answered, StartsEmpty, NothingSkipped

\* The parameters of a walk become its query, which stays until it is answered.
LEMMA StepQuery ==
    ASSUME IndInv, QueryIsOfRequest, StartsEmpty, [Next]_vars
    PROVE  QueryIsOfRequest' /\ StartsEmpty'
  <1>1. request \in Request  BY DEF IndInv, TypeOK
  <1>2. CASE UNCHANGED <<phase, request, query, response, offset, collected>>
    BY <1>2 DEF QueryIsOfRequest, asking, answered, StartsEmpty
  <1>3. CASE phase' \in {"reading", "received"}
    BY <1>3 DEF QueryIsOfRequest, asking, answered, StartsEmpty
  <1>4. CASE Leave
    BY <1>4 DEF Leave, QueryIsOfRequest, asking, answered, StartsEmpty
  <1>5. CASE HandleGet
    <2>1. UNCHANGED <<request, offset>> /\ phase' # "idle"
      BY <1>5 DEF HandleGet, writeError, answer, fetch
    <2>2. CASE Queries(request, offset) = {}
      <3>1. phase' = "writing" /\ response'.status = 400
        BY <1>5, <2>2 DEF HandleGet, writeError, answer
      <3> QED  BY <3>1 DEF QueryIsOfRequest, asking, answered, StartsEmpty
    <2>3. CASE Queries(request, offset) # {}
      <3>1. query' \in Queries(request, offset)
        BY <1>5, <2>3 DEF HandleGet, fetch
      <3> QED  BY <2>1, <3>1 DEF QueryIsOfRequest, StartsEmpty
    <2> QED  BY <2>2, <2>3
  <1>6. CASE HandlePost \/ HandleOwnership
    <2>1. request' = request /\ phase' # "idle"
      BY <1>6 DEF HandlePost, HandleOwnership, writeError, answer, fetch
    <2>2. ~request.walk  BY <1>1, <1>6, WalkAssumption DEF HandlePost, HandleOwnership
    <2> QED  BY <2>1, <2>2 DEF QueryIsOfRequest, StartsEmpty
  <1>7. CASE MethodNotAllowed \/ QueryFails
    <2>1. phase' = "writing" /\ response'.status # 200
      BY <1>7 DEF MethodNotAllowed, QueryFails, writeError, answer
    <2> QED  BY <2>1 DEF QueryIsOfRequest, asking, answered, StartsEmpty
  <1>8. CASE FetchHits \/ FetchAggregations
    <2>1. UNCHANGED <<request, query, offset>> /\ asking /\ phase' # "idle"
      BY <1>8 DEF FetchHits, FetchAggregations, writeError, answer, asking
    <2> QED  BY <2>1 DEF QueryIsOfRequest, StartsEmpty
  <1>9. CASE Upsert  BY <1>2, <1>9 DEF Upsert, call
  <1>10. CASE Send \/ SendBody \/ NextPage  BY <1>3, <1>10 DEF Send, SendBody, NextPage
  <1>10a. CASE ReadAnswer
    <2>1. UNCHANGED <<request, query, response, offset, collected>> /\ phase = "writing" /\ phase' = "answered"
      BY <1>10a DEF ReadAnswer, call
    <2> QED  BY <2>1 DEF QueryIsOfRequest, asking, answered, StartsEmpty
  <1>11. CASE Listen \/ Cancel \/ Shutdown \/ Return \/ UNCHANGED vars
    BY <1>2, <1>11 DEF Listen, Cancel, Shutdown, Return, vars, call
  <1> QED  BY <1>4, <1>5, <1>6, <1>7, <1>8, <1>9, <1>10, <1>10a, <1>11 DEF Next, Parse

\* If each moment adds to the one before it, so does each to all before it.
LEMMA Grown ==
    ASSUME Growing, Len(moments) \in Nat, NEW i \in 1..Len(moments), NEW j \in i..Len(moments)
    PROVE  moments[i] \subseteq moments[j]
  <1> DEFINE U == {k \in i..Len(moments) : ~(moments[i] \subseteq moments[k])}
  <1>1. ASSUME U # {}  PROVE FALSE
    <2>1. U \in SUBSET Nat  OBVIOUS
    <2>2. PICK m \in U : \A k \in U : m <= k  BY <1>1, <2>1, NatMin
    <2>3. m \in i..Len(moments) /\ ~(moments[i] \subseteq moments[m])  BY <2>2
    <2>4. m # i  BY <2>3
    <2>5. m - 1 \in i..Len(moments) /\ m - 1 \in 1..(Len(moments) - 1) /\ (m - 1) + 1 = m
      BY <2>3, <2>4
    <2>6. m - 1 \notin U  BY <2>2, <2>5
    <2>7. moments[i] \subseteq moments[m - 1]  BY <2>5, <2>6
    <2>8. moments[m - 1] \subseteq moments[m]
      <3>1. moments[m - 1] \subseteq moments[(m - 1) + 1]  BY <2>5 DEF Growing
      <3> QED  BY <2>5, <3>1
    <2> QED  BY <2>3, <2>7, <2>8
  <1> QED  BY <1>1

\* Two queries of a walk select the same rows.
LEMMA SameWalk ==
    ASSUME NEW r \in Request, r.walk, NEW o \in 0..MaxOffset, NEW q \in Queries(r, o),
           NEW p \in 0..MaxOffset, NEW t \in Queries(r, p), NEW rows, rows \subseteq Row
    PROVE  matching(rows, q) = matching(rows, t)
  <1>1. QueryOf(r, o, q) /\ QueryOf(r, p, t)  BY QueryOfWalk
  <1> QED  BY <1>1 DEF QueryOf

\* The hits of an answer of a walk are the matches in its page's range, in one of
\* the moments of the request for the page.
PageOf(q, i) ==
    /\ ToSet(response.hits) =
           {x \in matching(moments[i], q) :
               offset <= position(moments[i], q, x) /\ position(moments[i], q, x) < offset + Len(response.hits)}
    /\ Len(response.hits) < q.size =>
           \A x \in matching(moments[i], q) : position(moments[i], q, x) < offset + Len(response.hits)

\* An answer of a walk is such a page.
LEMMA PageOfWalk ==
    ASSUME IndInv, MomentsAreStored, QueryIsOfRequest,
           answered, response.status = 200, request.walk,
           NEW o \in 0..MaxOffset, NEW q \in Queries(request, o), TellsApart(q), q.size > 0
    PROVE  /\ query \in Queries(request, offset) /\ offset \in 0..MaxOffset /\ query.size = q.size
           /\ response.hits \in Seq(Row) /\ IsInjective(response.hits) /\ Len(response.hits) \in Nat
           /\ Len(response.hits) >= q.size => Len(response.hits) = q.size
           /\ \E i \in during : PageOf(q, i)
  <1>1. /\ request \in Request /\ offset \in 0..MaxOffset /\ response.hits \in Seq(Row)
        /\ Len(moments) \in Nat /\ received \in Nat /\ received >= 1
    BY DEF IndInv, TypeOK, MomentsEndNow, answered
  <1>2. query \in Queries(request, offset)  BY DEF QueryIsOfRequest, asking
  <1>3. QueryOf(request, offset, query) /\ QueryOf(request, o, q)  BY <1>1, <1>2, QueryOfWalk
  <1>4. /\ query \in Query /\ query.from = offset /\ query.sort = q.sort /\ query.size = q.size
        /\ query.aggsOnly = FALSE
    BY <1>3 DEF QueryOf
  <1>5. SortFields(query.sort) /\ TellsApart(query) /\ query.from \in Nat /\ query.size \in Nat /\ query.size > 0
    BY <1>1, <1>4, QueriesAssumption, ApiAssumption DEF SortFields, TellsApart
  <1>6. PICK i \in during : isPage(response.hits, moments[i], query)
    <2>1. AnswersAreExact  BY TimelyIsExact
    <2> QED  BY <1>4, <2>1 DEF AnswersAreExact
  <1>7. Stored(moments[i]) /\ moments[i] \subseteq Row
    <2>1. i \in 1..Len(moments)  BY <1>1 DEF during
    <2> QED  BY <2>1 DEF MomentsAreStored, Stored
  <1> DEFINE rows == moments[i]
             page == response.hits
  <1> HIDE DEF rows, page
  <1>8. Stored(rows) /\ rows \subseteq Row /\ page \in Seq(Row) /\ isPage(page, rows, query)
    BY <1>1, <1>6, <1>7 DEF rows, page
  <1>9. /\ IsInjective(page) /\ Len(page) \in Nat
        /\ ToSet(page) = {x \in matching(rows, query) :
             query.from <= position(rows, query, x) /\ position(rows, query, x) < query.from + Len(page)}
    BY <1>5, <1>8, PageHolds
  <1>10. /\ Len(page) >= query.size => Len(page) = query.size
         /\ Len(page) < query.size =>
              \A x \in matching(rows, query) : position(rows, query, x) < query.from + Len(page)
    BY <1>5, <1>8, PageLength
  <1>11. \A x : matching(rows, query) = matching(rows, q) /\ position(rows, query, x) = position(rows, q, x)
    <2> TAKE x
    <2>1. PICK r \in Request : r = request  BY <1>1
    <2>2. PICK p \in 0..MaxOffset : p = offset  BY <1>1
    <2>3. PICK t \in Queries(r, p) : t = query  BY <1>2, <2>1, <2>2
    <2>4. r.walk /\ q \in Queries(r, o)  BY <2>1
    <2>5. matching(rows, t) = matching(rows, q)  BY <1>8, <2>4, SameWalk
    <2>6. aheadOf(rows, t, x) = aheadOf(rows, q, x)  BY <1>4, <2>3, <2>5 DEF aheadOf
    <2> QED  BY <2>3, <2>5, <2>6 DEF position
  <1>12. /\ ToSet(page) = {x \in matching(rows, q) :
              offset <= position(rows, q, x) /\ position(rows, q, x) < offset + Len(page)}
         /\ Len(page) < q.size => \A x \in matching(rows, q) : position(rows, q, x) < offset + Len(page)
    BY <1>4, <1>9, <1>10, <1>11
  <1>13. PageOf(q, i)  BY <1>12 DEF PageOf, rows, page
  <1> QED  BY <1>1, <1>2, <1>4, <1>9, <1>10, <1>13 DEF page

\* While rows are only added, a match stays one and moves back only.
LEMMA StaysAhead ==
    ASSUME IndInv, MomentsAreStored, phase # "idle", Growing, NEW q, NEW x \in matching(moments[1], q),
           NEW i \in during
    PROVE  /\ x \in matching(moments[i], q)
           /\ position(moments[received], q, x) <= position(moments[i], q, x)
           /\ position(moments[i], q, x) <= position(moments[Len(moments)], q, x)
           /\ position(moments[received], q, x) \in Nat /\ position(moments[i], q, x) \in Nat
           /\ position(moments[Len(moments)], q, x) \in Nat
  <1>1. Len(moments) \in Nat /\ received \in Nat /\ received >= 1 /\ received <= Len(moments)
    BY DEF IndInv, TypeOK, MomentsEndNow
  <1> DEFINE n == Len(moments)
  <1>2. /\ received \in 1..n /\ i \in 1..n /\ n \in 1..n /\ i \in received..n /\ n \in i..n
        /\ 1 \in 1..n /\ i \in 1..n
    BY <1>1 DEF during
  <1>3. moments[1] \subseteq moments[i]  BY <1>1, <1>2, Grown
  <1>4. moments[received] \subseteq moments[i]  BY <1>1, <1>2, Grown
  <1>5. moments[i] \subseteq moments[n]  BY <1>1, <1>2, Grown
  <1>6. Stored(moments[received]) /\ Stored(moments[i]) /\ Stored(moments[n])
    BY <1>2 DEF MomentsAreStored
  <1>7. x \in matching(moments[i], q)  BY <1>3 DEF matching
  <1>8. /\ position(moments[received], q, x) <= position(moments[i], q, x)
        /\ position(moments[i], q, x) <= position(moments[n], q, x)
    BY <1>4, <1>5, <1>6, PositionsGrow
  <1>9. /\ position(moments[received], q, x) \in Nat /\ position(moments[i], q, x) \in Nat
        /\ position(moments[n], q, x) \in Nat
    BY <1>6, FiniteMatches
  <1> QED  BY <1>7, <1>8, <1>9

-----------------------------------------------------------------------------
\* A walk begins with no page and every match ahead.
LEMMA SendWalk ==
    ASSUME WalkInv, Send  PROVE NothingSkipped'
  <1>1. /\ request' \in Request /\ moments' = <<store>> /\ received' = 1 /\ offset' = firstPage(request')
        /\ collected' = <<>>
    <2>1. collected = <<>>  BY DEF WalkInv, StartsEmpty, Send
    <2> QED  BY <2>1 DEF Send
  <1>2. Len(moments') = 1 /\ moments'[1] = store  BY <1>1
  <1>3. Stored(store)  BY DEF WalkInv, MomentsAreStored
  <1> SUFFICES ASSUME request'.walk, NEW o \in 0..MaxOffset, NEW q \in Queries(request', o)
               PROVE  ReachedOrAhead(q)' /\ LiesBehind(q)'
    BY DEF NothingSkipped
  <1>4. offset' = 0  BY <1>1, WalkAssumption DEF firstPage
  <1>5. \A x : position(store, q, x) \in Nat  BY <1>3, FiniteMatches
  <1>6. ReachedOrAhead(q)'
    <2>1. \A x : offset' <= position(store, q, x)  BY <1>4, <1>5
    <2>2. \A x : offset' <= position(moments'[received'], q, x)  BY <1>1, <1>2, <2>1
    <2> QED  BY <2>2 DEF ReachedOrAhead
  <1>7. LiesBehind(q)'
    <2>1. ToSet(collected') = {} /\ IsInjective(collected')  BY <1>1 DEF ToSet, IsInjective
    <2>2. \A x : ~(position(moments'[1], q, x) < offset')  BY <1>2, <1>4, <1>5
    <2>3. {x \in matching(moments'[1], q) : position(moments'[1], q, x) < offset'} = {}  BY <2>2
    <2> QED  BY <2>1, <2>3 DEF LiesBehind
  <1> QED  BY <1>6, <1>7

\* What ingestion adds is another moment; the walk stays where it is.
LEMMA UpsertWalk ==
    ASSUME WalkInv, Upsert  PROVE NothingSkipped'
  <1>1. UNCHANGED <<phase, request, offset, collected, received>>  BY DEF Upsert, call
  <1>2. /\ moments \in Seq(SUBSET Row) /\ Len(moments) \in Nat /\ store \subseteq Row
        /\ phase # "idle" => received >= 1 /\ received <= Len(moments) /\ received \in Nat
    BY DEF WalkInv, IndInv, TypeOK, MomentsEndNow
  <1> SUFFICES ASSUME request.walk, phase # "idle", NEW o \in 0..MaxOffset, NEW q \in Queries(request, o),
                      TellsApart(q), q.size > 0
               PROVE  ReachedOrAhead(q)' /\ LiesBehind(q)'
    BY <1>1 DEF NothingSkipped
  <1>3. /\ Len(moments') = Len(moments) + 1
        /\ \A i \in 1..Len(moments) : moments'[i] = moments[i]
    <2>1. moments' = Append(moments, store')  BY DEF Upsert
    <2>2. store' \in SUBSET Row
      <3>1. PICK row \in Row \ store : store' = {x \in store : x.id # row.id} \cup {row}  BY DEF Upsert
      <3> QED  BY <1>2, <3>1
    <2> QED  BY <1>2, <2>1, <2>2, OneMore
  <1>4. moments'[1] = moments[1] /\ moments'[received'] = moments[received]
    <2>1. 1 \in 1..Len(moments) /\ received \in 1..Len(moments)  BY <1>2
    <2> QED  BY <1>1, <1>3, <2>1
  <1>5. Growing' => Growing
    <2>1. ASSUME Growing', NEW i \in 1..(Len(moments) - 1)  PROVE moments[i] \subseteq moments[i + 1]
      <3>1. i \in 1..(Len(moments') - 1) /\ i \in 1..Len(moments) /\ i + 1 \in 1..Len(moments)  BY <1>2, <1>3
      <3>2. moments'[i] \subseteq moments'[i + 1]  BY <2>1, <3>1 DEF Growing
      <3>3. moments'[i] = moments[i] /\ moments'[i + 1] = moments[i + 1]  BY <1>3, <3>1
      <3> QED  BY <3>2, <3>3
    <2> QED  BY <2>1 DEF Growing
  <1>6. ReachedOrAhead(q)  BY DEF WalkInv, NothingSkipped
  <1>7. ReachedOrAhead(q)'  BY <1>1, <1>4, <1>5, <1>6 DEF ReachedOrAhead
  <1>8. LiesBehind(q)'
    <2>1. Len(moments') # 1  BY <1>2, <1>3
    <2> QED  BY <2>1 DEF LiesBehind
  <1> QED  BY <1>7, <1>8

\* A full page takes the walk past what it holds, and past nothing else.
LEMMA NextPageWalk ==
    ASSUME WalkInv, NextPage  PROVE NothingSkipped'
  <1>1. /\ phase = "answered" /\ answered /\ request.walk /\ response.status = 200
        /\ ~(Len(response.hits) < query.size)
        /\ UNCHANGED <<request, moments>> /\ received' = Len(moments) /\ offset' = offset + query.size
        /\ collected' = collected \o response.hits
    BY DEF NextPage, lastPage, answered
  <1>2. IndInv /\ MomentsAreStored /\ QueryIsOfRequest /\ NothingSkipped  BY DEF WalkInv
  <1>3. /\ Len(moments) \in Nat /\ received \in Nat /\ received >= 1 /\ received <= Len(moments)
        /\ collected \in Seq(Row) /\ offset \in Nat
    BY <1>1, <1>2 DEF IndInv, TypeOK, MomentsEndNow
  <1> SUFFICES ASSUME NEW o \in 0..MaxOffset, NEW q \in Queries(request, o), TellsApart(q), q.size > 0
               PROVE  ReachedOrAhead(q)' /\ LiesBehind(q)'
    BY <1>1 DEF NothingSkipped
  <1> DEFINE page == response.hits
             m == Len(page)
             pos(i, x) == position(moments[i], q, x)
  <1>4. /\ query.size = q.size /\ page \in Seq(Row) /\ IsInjective(page) /\ m \in Nat
        /\ m >= q.size => m = q.size
        /\ \E i \in during : PageOf(q, i)
    BY <1>1, <1>2, PageOfWalk
  <1>5. q.size \in Nat
    <2>1. request \in Request  BY <1>2 DEF IndInv, TypeOK
    <2> QED  BY <1>1, <2>1, ApiAssumption
  <1>6. m = q.size /\ offset' = offset + m  BY <1>1, <1>4, <1>5
  <1>7. PICK i \in during : PageOf(q, i)  BY <1>4
  <1>8. ToSet(page) = {x \in matching(moments[i], q) : offset <= pos(i, x) /\ pos(i, x) < offset + m}
    BY <1>7 DEF PageOf
  <1>9. ReachedOrAhead(q) /\ LiesBehind(q)  BY <1>1, <1>2 DEF NothingSkipped
  <1>10. /\ ToSet(collected') = ToSet(collected) \cup ToSet(page)
         /\ IsInjective(collected) /\ ToSet(collected) \cap ToSet(page) = {} => IsInjective(collected')
    BY <1>1, <1>3, <1>4, Joined
  <1> HIDE DEF page, m
  <1>11. ASSUME Growing, NEW x \in matching(moments[1], q)
         PROVE  x \in ToSet(collected') \/ offset' <= pos(Len(moments), x)
    <2>1. CASE x \in ToSet(collected)  BY <1>10, <2>1
    <2>2. CASE x \notin ToSet(collected)
      <3>1. offset <= pos(received, x)  BY <1>9, <1>11, <2>2 DEF ReachedOrAhead
      <3>2. /\ x \in matching(moments[i], q) /\ pos(received, x) <= pos(i, x) /\ pos(i, x) <= pos(Len(moments), x)
            /\ pos(received, x) \in Nat /\ pos(i, x) \in Nat /\ pos(Len(moments), x) \in Nat
        BY <1>1, <1>2, <1>11, StaysAhead
      <3> HIDE DEF pos
      <3>3. CASE pos(i, x) < offset + m
        <4>1. offset <= pos(i, x)  BY <1>3, <3>1, <3>2
        <4>2. x \in ToSet(page)  BY <1>8, <3>2, <3>3, <4>1
        <4> QED  BY <1>10, <4>2
      <3>4. CASE ~(pos(i, x) < offset + m)
        <4>1. offset + m <= pos(Len(moments), x)  BY <1>3, <1>4, <3>2, <3>4
        <4> QED  BY <1>6, <4>1
      <3> QED  BY <3>3, <3>4
    <2> QED  BY <2>1, <2>2
  <1>12. ReachedOrAhead(q)'
    <2>1. Growing' => Growing  BY <1>1 DEF Growing
    <2> QED  BY <1>1, <1>11, <2>1 DEF ReachedOrAhead
  <1>13. ASSUME Len(moments) = 1
         PROVE  /\ IsInjective(collected')
                /\ ToSet(collected') = {x \in matching(moments[1], q) : pos(1, x) < offset'}
    <2>1. i = 1  BY <1>3, <1>7, <1>13 DEF during
    <2>2. /\ IsInjective(collected)
          /\ ToSet(collected) = {x \in matching(moments[1], q) : pos(1, x) < offset}
      BY <1>9, <1>13 DEF LiesBehind
    <2>3. ToSet(page) = {x \in matching(moments[1], q) : offset <= pos(1, x) /\ pos(1, x) < offset + m}
      BY <1>8, <2>1
    <2>4. \A x \in matching(moments[1], q) : pos(1, x) \in Nat
      <3>1. Stored(moments[1])
        <4>1. 1 \in 1..Len(moments)  BY <1>13
        <4> QED  BY <1>2, <4>1 DEF MomentsAreStored
      <3> QED  BY <3>1, FiniteMatches
    <2> HIDE DEF pos
    <2>5. ToSet(collected) \cap ToSet(page) = {}  BY <1>3, <2>2, <2>3, <2>4
    <2>6. ToSet(collected) \cup ToSet(page) = {x \in matching(moments[1], q) : pos(1, x) < offset + m}
      BY <1>3, <1>4, <2>2, <2>3, <2>4
    <2> QED  BY <1>6, <1>10, <2>2, <2>5, <2>6
  <1>14. LiesBehind(q)'  BY <1>1, <1>13 DEF LiesBehind
  <1> QED  BY <1>12, <1>14

\* Every step keeps the invariant of walks.
LEMMA StepWalk == WalkInv /\ [Next]_vars => WalkInv'
  <1> SUFFICES ASSUME WalkInv, [Next]_vars  PROVE WalkInv'
    OBVIOUS
  <1>1. IndInv' /\ MomentsAreStored' /\ QueryIsOfRequest' /\ StartsEmpty'
    BY StepInv, StepStored, StepQuery DEF WalkInv
  <1>2. NothingSkipped'
    <2>1. CASE UNCHANGED <<request, moments, received, offset, collected>> /\ phase # "idle"
      <3>1. NothingSkipped  BY DEF WalkInv
      <3> QED  BY <2>1, <3>1 DEF NothingSkipped, ReachedOrAhead, LiesBehind, Growing
    <2>2. CASE phase' = "idle"  BY <2>2 DEF NothingSkipped
    <2>3. CASE Send  BY <2>3, SendWalk
    <2>4. CASE Upsert  BY <2>4, UpsertWalk
    <2>5. CASE NextPage  BY <2>5, NextPageWalk
    <2>6a. CASE SendBody \/ ReadAnswer
      <3>1. UNCHANGED <<request, moments, received, offset, collected>> /\ phase # "idle"
        BY <2>6a DEF SendBody, ReadAnswer, call, ghosts
      <3> QED  BY <2>1, <3>1
    <2>6. CASE Parse \/ FetchHits \/ FetchAggregations \/ QueryFails
      <3>1. UNCHANGED <<request, moments, received, offset, collected>> /\ phase # "idle"
        BY <2>6 DEF Parse, HandleGet, HandlePost, HandleOwnership, MethodNotAllowed, FetchHits,
                    FetchAggregations, QueryFails, ghosts
      <3> QED  BY <2>1, <3>1
    <2>7. CASE Listen \/ Cancel \/ Shutdown \/ Return \/ UNCHANGED vars
      <3>1. UNCHANGED <<phase, request, moments, received, offset, collected>>
        BY <2>7 DEF Listen, Cancel, Shutdown, Return, vars, call, ghosts
      <3> QED  BY <2>1, <2>2, <3>1
    <2>8. CASE Leave  BY <2>2, <2>8 DEF Leave
    <2> QED  BY <2>3, <2>4, <2>5, <2>6, <2>6a, <2>7, <2>8 DEF Next
  <1> QED  BY <1>1, <1>2 DEF WalkInv

\* Past the last page nothing lies ahead.
LEMMA WalkIsComplete == WalkInv => PagesSkipNothing
  <1> SUFFICES ASSUME WalkInv, walked
               PROVE  /\ Growing => matching(moments[1], query) \subseteq ToSet(pages)
                      /\ Len(moments) = 1 => IsInjective(pages) /\ ToSet(pages) = matching(store, query)
    BY DEF PagesSkipNothing, Growing
  <1>1. /\ phase = "answered" /\ answered /\ request.walk /\ response.status = 200
        /\ query.size > 0 /\ Len(response.hits) < query.size /\ TellsApart(query)
  <2>1. phase = "answered" /\ answered /\ request.walk /\ response.status = 200 /\ TellsApart(query)
    BY DEF walked, answered, TellsApart
  <2>2. query.size \in Int
    <3>1. query \in Query  BY DEF WalkInv, IndInv, TypeOK
    <3> QED  BY <3>1, ApiAssumption
  <2>3. query.size > 0 /\ Len(response.hits) < query.size
    BY <2>1, <2>2 DEF walked, lastPage
  <2> QED  BY <2>1, <2>3
  <1>2. IndInv /\ MomentsAreStored /\ QueryIsOfRequest /\ NothingSkipped  BY DEF WalkInv
  <1>3. /\ Len(moments) \in Nat /\ received \in Nat /\ received >= 1 /\ received <= Len(moments)
        /\ collected \in Seq(Row) /\ offset \in Nat /\ offset \in 0..MaxOffset /\ query \in Query
        /\ moments[Len(moments)] = store /\ response.hits \in Seq(Row)
    BY <1>1, <1>2 DEF IndInv, TypeOK, MomentsEndNow
  <1>4. query \in Queries(request, offset)  BY <1>1, <1>2 DEF QueryIsOfRequest, asking
  <1>5. query.size \in Nat /\ Len(response.hits) \in Nat /\ query.size > 0
    <2>1. query.size \in Int /\ Len(response.hits) \in Nat  BY <1>3, ApiAssumption, LenProperties
    <2> QED  BY <1>1, <2>1
  <1> DEFINE page == response.hits
             m == Len(page)
             q == query
             pos(i, x) == position(moments[i], q, x)
  <1>6. IsInjective(page) /\ \E i \in during : PageOf(q, i)
    BY <1>1, <1>2, <1>3, <1>4, <1>5, PageOfWalk
  <1>7. PICK i \in during : PageOf(q, i)  BY <1>6
  <1>8. /\ ToSet(page) = {x \in matching(moments[i], q) : offset <= pos(i, x) /\ pos(i, x) < offset + m}
        /\ \A x \in matching(moments[i], q) : pos(i, x) < offset + m
    BY <1>1, <1>7 DEF PageOf
  <1>9. ReachedOrAhead(q) /\ LiesBehind(q)  BY <1>1, <1>2, <1>3, <1>4, <1>5 DEF NothingSkipped
  <1>10. /\ ToSet(pages) = ToSet(collected) \cup ToSet(page)
         /\ IsInjective(collected) /\ ToSet(collected) \cap ToSet(page) = {} => IsInjective(pages)
    BY <1>3, <1>6, Joined DEF pages
  <1> HIDE DEF page, m
  <1>11. ASSUME Growing, NEW x \in matching(moments[1], q)  PROVE x \in ToSet(pages)
    <2>1. CASE x \in ToSet(collected)  BY <1>10, <2>1
    <2>2. CASE x \notin ToSet(collected)
      <3>1. offset <= pos(received, x)  BY <1>9, <1>11, <2>2 DEF ReachedOrAhead
      <3>2. /\ x \in matching(moments[i], q) /\ pos(received, x) <= pos(i, x)
            /\ pos(received, x) \in Nat /\ pos(i, x) \in Nat
        BY <1>1, <1>2, <1>11, StaysAhead
      <3> HIDE DEF pos, q
      <3>3. offset <= pos(i, x)  BY <1>3, <3>1, <3>2
      <3> QED  BY <1>8, <1>10, <3>2, <3>3
    <2> QED  BY <2>1, <2>2
  <1>12. ASSUME Len(moments) = 1
         PROVE  IsInjective(pages) /\ ToSet(pages) = matching(store, q)
    <2>1. i = 1 /\ moments[1] = store  BY <1>3, <1>7, <1>12 DEF during
    <2>2. /\ IsInjective(collected)
          /\ ToSet(collected) = {x \in matching(moments[1], q) : pos(1, x) < offset}
      BY <1>9, <1>12 DEF LiesBehind
    <2>3. /\ ToSet(page) = {x \in matching(moments[1], q) : offset <= pos(1, x) /\ pos(1, x) < offset + m}
          /\ \A x \in matching(moments[1], q) : pos(1, x) < offset + m
      BY <1>8, <2>1
    <2>4. \A x \in matching(moments[1], q) : pos(1, x) \in Nat
      <3>1. Stored(moments[1])
        <4>1. 1 \in 1..Len(moments)  BY <1>12
        <4> QED  BY <1>2, <4>1 DEF MomentsAreStored
      <3> QED  BY <3>1, FiniteMatches
    <2> HIDE DEF pos, q
    <2>5. ToSet(collected) \cap ToSet(page) = {}  BY <1>3, <2>2, <2>3, <2>4
    <2>6. ToSet(collected) \cup ToSet(page) = matching(moments[1], q)
      BY <1>3, <2>2, <2>3, <2>4
    <2> QED  BY <1>10, <2>1, <2>2, <2>5, <2>6
  <1> QED  BY <1>11, <1>12

\* While rows are only added, the pages of a walk have every row that matched when it
\* began, however additions shift them; if nothing changes, they are the result.
THEOREM PagesSkip == Spec => []PagesSkipNothing
  <1>1. Init => WalkInv  BY InitInv, InitStored, InitWalk DEF WalkInv
  <1> QED  BY <1>1, StepWalk, WalkIsComplete, PTL DEF Spec
=============================================================================
