------------------------ MODULE MetricsServiceProofs ------------------------
(***************************************************************************)
(* That a metric's cache never goes back in time, that only a lost reply   *)
(* makes it empty, that nothing of the service runs once Run has returned, *)
(* and that a scrape shows for each metric the series that one state of    *)
(* the store should have, for every number of metrics, store states, rows, *)
(* owners and faults.                                                      *)
(*                                                                         *)
(* A loop waits for its call before it makes the next one, so the call     *)
(* under way is answered from a state that is not older than the cached    *)
(* one; this is what the invariant says of calls that are answered already.*)
(*                                                                         *)
(* The second half follows a tree from the rows to the series.  A loop of  *)
(* the walk takes the places that some labels lead to, one for each        *)
(* labelling that some row has, to those with a label more (EachIs); the   *)
(* rows that a place groups are the ones that have all its labels.  So the *)
(* walk ends at one histogram for each full labelling, and the items that  *)
(* are projected have the labels that the store's rows should.             *)
(***************************************************************************)
EXTENDS MetricsSeries, FiniteSetTheorems, SequenceTheorems, WellFoundedInduction, TLAPS

Phase == {"starting", "waiting", "refreshing", "stopped"}
Cached == [at : 0..now, arrived : BOOLEAN]

\* No connection is accepted after the return.
ClosedForGood == returned => server = "closing"

\* A call is answered from a state that is not older than what is cached.
AnswersAreNewer ==
    \A m \in Metric : \A i \in DOMAIN calls[m] : calls[m][i] # 0 => cache[m].at <= calls[m][i]

\* A metric that was answered once is missing only where a reply was lost.
missing(c) == c.at # 0 /\ ~c.arrived
MissingTakesFault ==
    \A m \in Metric : missing(cache[m]) \/ missing(shown[m]) => faults > 0

IndInv == TypeOK /\ ClosedForGood /\ AnswersAreNewer /\ MissingTakesFault

\* What the assumptions say in numbers.
LEMMA Numbers ==
    /\ Len(Stores) \in Nat \ {0} /\ DOMAIN Stores = 1..Len(Stores)
    /\ Len(Metrics) \in Nat /\ DOMAIN Metrics = 1..Len(Metrics)
    /\ \A k \in DOMAIN Metrics : Metrics[k] \in Metric
    /\ MaxFaults \in Nat
  BY MetricsAssumption DEF Metric, ToSet

\* Nothing has been asked or cached at first.
LEMMA InitInv == Init => IndInv
  <1> SUFFICES ASSUME Init  PROVE IndInv
    OBVIOUS
  <1>1. \A m \in Metric : calls[m] = <<>> /\ loop[m] = "starting" /\ cache[m] = Nothing /\ shown[m] = Nothing
    BY DEF Init
  <1>2. Nothing \in [at : 0..now, arrived : BOOLEAN] /\ Nothing.at = 0
    BY DEF Init, Nothing
  <1>3. TypeOK
    <2>1. now \in DOMAIN Stores /\ scrape \in 0..(Len(Metrics) + 1) /\ faults \in 0..MaxFaults
      BY Numbers DEF Init
    <2>2. calls \in [Metric -> Seq(0..now)] /\ \A m \in Metric : Len(calls[m]) = 0
      BY <1>1 DEF Init
    <2>3. {cache, shown} \subseteq [Metric -> [at : 0..now, arrived : BOOLEAN]]
      BY <1>2 DEF Init
    <2> QED  BY <1>1, <2>1, <2>2, <2>3 DEF Init, TypeOK
  <1>4. ClosedForGood  BY DEF Init, ClosedForGood
  <1>5. AnswersAreNewer  BY <1>1 DEF AnswersAreNewer
  <1>6. MissingTakesFault  BY <1>1, <1>2 DEF MissingTakesFault, missing
  <1> QED  BY <1>3, <1>4, <1>5, <1>6 DEF IndInv

-----------------------------------------------------------------------------
\* Steps of a loop.

\* A sequence of one element without it.
LEMMA RemoveOnly ==
    ASSUME NEW S, NEW s \in Seq(S), Len(s) = 1, NEW i \in DOMAIN s
    PROVE  i = 1 /\ s[i] \in S /\ RemoveAt(s, i) = <<>>
  <1>1. i = 1 /\ s[i] \in S  OBVIOUS
  <1>2. SubSeq(s, 1, 0) = <<>> /\ SubSeq(s, 2, 1) = <<>>  OBVIOUS
  <1> QED  BY <1>1, <1>2 DEF RemoveAt

\* A loop that has a call under way has this one only, and goes on.
LEMMA OneCall ==
    ASSUME IndInv, NEW m \in Metric, NEW i \in DOMAIN calls[m]
    PROVE  /\ loop[m] = "refreshing" /\ i = 1 /\ calls[m] \in Seq(0..now) /\ Len(calls[m]) = 1
           /\ calls[m][i] \in 0..now /\ RemoveAt(calls[m], i) = <<>>
  <1>1. calls[m] \in Seq(0..now) /\ Len(calls[m]) = (IF loop[m] = "refreshing" THEN 1 ELSE 0)
    BY DEF IndInv, TypeOK
  <1>2. Len(calls[m]) = 1 /\ loop[m] = "refreshing"  BY <1>1
  <1> PICK s : s = calls[m]
    OBVIOUS
  <1>3. s \in Seq(0..now) /\ Len(s) = 1 /\ i \in DOMAIN s  BY <1>1, <1>2
  <1>4. i = 1 /\ s[i] \in 0..now /\ RemoveAt(s, i) = <<>>
    <2> PICK S : S = 0..now
      OBVIOUS
    <2>1. s \in Seq(S)  BY <1>3
    <2> QED  BY <1>3, <2>1, RemoveOnly
  <1> QED  BY <1>1, <1>2, <1>4

\* What a loop may do: it goes on to phase p with the calls c under way and the
\* tree k cached.
loopBecomes(m, p, c, k) ==
    /\ loop' = [loop EXCEPT ![m] = p] /\ p \in Phase
    /\ calls' = [calls EXCEPT ![m] = c] /\ c \in Seq(0..now)
    /\ Len(c) = IF p = "refreshing" THEN 1 ELSE 0
    /\ cache' = [cache EXCEPT ![m] = k] /\ k \in Cached
    /\ \A i \in DOMAIN c : c[i] # 0 => k.at <= c[i]
    /\ missing(k) => faults' > 0
    /\ faults' \in 0..MaxFaults /\ faults' >= faults
    /\ UNCHANGED <<now, http, cancelled, returned>>

\* Such a step keeps the invariant.
LEMMA LoopStep ==
    ASSUME IndInv, NEW m \in Metric, loop[m] # "stopped",
           NEW p, NEW c, NEW k, loopBecomes(m, p, c, k)
    PROVE  IndInv'
  <1> USE DEF loopBecomes
  <1>1. TypeOK /\ ClosedForGood /\ AnswersAreNewer /\ MissingTakesFault  BY DEF IndInv
  <1>2. UNCHANGED <<now, server, scrape, shown, cancelled, returned>>  BY DEF http
  <1>3. ~returned  BY <1>1 DEF TypeOK
  <1>4. /\ loop'[m] = p /\ calls'[m] = c /\ cache'[m] = k
        /\ \A n \in Metric \ {m} :
               loop'[n] = loop[n] /\ calls'[n] = calls[n] /\ cache'[n] = cache[n]
    <2>1. m \in DOMAIN loop /\ m \in DOMAIN calls /\ m \in DOMAIN cache  BY <1>1 DEF TypeOK
    <2> QED  BY <1>1, <2>1 DEF TypeOK
  <1>5. TypeOK'
    <2>1. loop' \in [Metric -> Phase]  BY <1>1 DEF TypeOK, Phase
    <2>2. calls' \in [Metric -> Seq(0..now)]  BY <1>1 DEF TypeOK
    <2>3. cache' \in [Metric -> Cached] /\ shown \in [Metric -> Cached]
      BY <1>1 DEF TypeOK, Cached
    <2>4. \A n \in Metric : Len(calls'[n]) = IF loop'[n] = "refreshing" THEN 1 ELSE 0
      BY <1>1, <1>4 DEF TypeOK
    <2> QED  BY <1>1, <1>2, <1>3, <2>1, <2>2, <2>3, <2>4 DEF TypeOK, Cached, Phase
  <1>6. ClosedForGood'  BY <1>1, <1>2 DEF ClosedForGood
  <1>7. AnswersAreNewer'  BY <1>1, <1>4 DEF AnswersAreNewer
  <1>8. MissingTakesFault'
    <2>1. faults \in Nat /\ faults' \in Nat  BY <1>1, Numbers DEF TypeOK
    <2> QED  BY <1>1, <1>2, <1>4, <2>1 DEF MissingTakesFault
  <1> QED  BY <1>5, <1>6, <1>7, <1>8 DEF IndInv

\* The tree stays as it is while nothing is answered.
LEMMA SameTree ==
    ASSUME IndInv, NEW m \in Metric
    PROVE  /\ cache = [cache EXCEPT ![m] = cache[m]] /\ cache[m] \in Cached
           /\ missing(cache[m]) => faults > 0
           /\ faults \in 0..MaxFaults
  BY DEF IndInv, TypeOK, MissingTakesFault, Cached

LEMMA TickInv ==
    ASSUME IndInv, NEW m \in Metric, Tick(m)  PROVE IndInv'
  <1>1. calls[m] = <<>> /\ Append(calls[m], 0) = <<0>>
    <2>1. calls[m] \in Seq(0..now) /\ Len(calls[m]) = 0
      BY DEF IndInv, TypeOK, Tick
    <2>2. calls[m] = <<>>  BY <2>1, EmptySeq
    <2>3. Append(<<>>, 0) = <<0>>  OBVIOUS
    <2> QED  BY <2>2, <2>3
  <1>2. <<0>> \in Seq(0..now) /\ Len(<<0>>) = 1 /\ \A i \in DOMAIN <<0>> : <<0>>[i] = 0
    <2>1. now \in Nat  BY Numbers DEF IndInv, TypeOK
    <2> QED  BY <2>1
  <1>3. calls' = [calls EXCEPT ![m] = <<0>>]  BY <1>1 DEF IndInv, TypeOK, Tick
  <1>4. faults' \in 0..MaxFaults /\ faults' >= faults /\ (missing(cache[m]) => faults' > 0)
    BY SameTree, Numbers DEF Tick
  <1>5. loopBecomes(m, "refreshing", <<0>>, cache[m])
    BY <1>2, <1>3, <1>4, SameTree DEF Tick, loopBecomes, Phase
  <1> QED  BY <1>5, LoopStep DEF Tick

\* The domain answers from the state it has now.
LEMMA ServeInv ==
    ASSUME IndInv, NEW m \in Metric, Serve(m)  PROVE IndInv'
  <1>1. PICK i \in DOMAIN calls[m] : calls' = [calls EXCEPT ![m][i] = now]
    BY DEF Serve
  <1>2. /\ loop[m] = "refreshing" /\ i = 1 /\ calls[m] \in Seq(0..now) /\ Len(calls[m]) = 1
    BY OneCall
  <1>3. now \in Nat /\ cache[m].at <= now /\ cache[m].at \in Nat
    BY Numbers DEF IndInv, TypeOK
  <1> PICK c : c = [calls[m] EXCEPT ![i] = now]
    OBVIOUS
  <1>4. c \in Seq(0..now) /\ Len(c) = 1 /\ \A j \in DOMAIN c : c[j] = now
    BY <1>2, <1>3
  <1>5. calls' = [calls EXCEPT ![m] = c]  BY <1>1 DEF IndInv, TypeOK
  <1>6. loop' = [loop EXCEPT ![m] = "refreshing"]
    BY <1>2 DEF Serve, IndInv, TypeOK
  <1>7. faults' \in 0..MaxFaults /\ faults' >= faults /\ (missing(cache[m]) => faults' > 0)
    BY SameTree, Numbers DEF Serve
  <1>8. loopBecomes(m, "refreshing", c, cache[m])
    BY <1>3, <1>4, <1>5, <1>6, <1>7, SameTree DEF Serve, loopBecomes, Phase
  <1> QED  BY <1>2, <1>8, LoopStep

\* What an answer puts into the cache, and that it is not older than what was there.
LEMMA Answered ==
    ASSUME IndInv, NEW m \in Metric, Answer(m)
    PROVE  \E k \in Cached :
               /\ k.at >= cache[m].at /\ (missing(k) => faults' > 0)
               /\ faults' \in 0..MaxFaults /\ faults' >= faults
               /\ loop[m] = "refreshing" /\ loop' = [loop EXCEPT ![m] = "waiting"]
               /\ calls' = [calls EXCEPT ![m] = <<>>]
               /\ cache' = [cache EXCEPT ![m] = k]
  <1>1. PICK i \in DOMAIN calls[m] :
            /\ calls[m][i] # 0 /\ endCall(m, i)
            /\ \/ cache' = [cache EXCEPT ![m] = [at |-> calls[m][i], arrived |-> TRUE]] /\ faults' = faults
               \/ fault /\ cache' = [cache EXCEPT ![m] = [at |-> calls[m][i], arrived |-> FALSE]]
    BY DEF Answer
  <1>2. /\ loop[m] = "refreshing" /\ calls[m][i] \in 0..now /\ RemoveAt(calls[m], i) = <<>>
    BY OneCall
  <1>3. cache[m].at <= calls[m][i]  BY <1>1 DEF IndInv, AnswersAreNewer
  <1>4. cache[m].at \in Nat /\ faults \in Nat /\ faults <= MaxFaults /\ MaxFaults \in Nat
    BY Numbers DEF IndInv, TypeOK
  <1>5. /\ loop' = [loop EXCEPT ![m] = "waiting"]
        /\ calls' = [calls EXCEPT ![m] = <<>>]
    BY <1>1, <1>2 DEF endCall, IndInv, TypeOK
  <1>6. CASE cache' = [cache EXCEPT ![m] = [at |-> calls[m][i], arrived |-> TRUE]] /\ faults' = faults
    <2> DEFINE k == [at |-> calls[m][i], arrived |-> TRUE]
    <2>1. k \in Cached /\ k.at >= cache[m].at /\ ~missing(k)
      BY <1>2, <1>3, <1>4 DEF Cached, missing
    <2>2. faults' \in 0..MaxFaults /\ faults' >= faults  BY <1>4, <1>6
    <2> HIDE DEF k
    <2> QED  BY <1>2, <1>5, <1>6, <2>1, <2>2 DEF k
  <1>7. CASE fault /\ cache' = [cache EXCEPT ![m] = [at |-> calls[m][i], arrived |-> FALSE]]
    <2> DEFINE k == [at |-> calls[m][i], arrived |-> FALSE]
    <2>1. k \in Cached /\ k.at >= cache[m].at
      BY <1>2, <1>3, <1>4 DEF Cached
    <2>2. faults' \in 0..MaxFaults /\ faults' >= faults /\ faults' > 0
      BY <1>4, <1>7 DEF fault
    <2> HIDE DEF k
    <2> QED  BY <1>2, <1>5, <1>7, <2>1, <2>2 DEF k
  <1> QED  BY <1>1, <1>6, <1>7

LEMMA AnswerInv ==
    ASSUME IndInv, NEW m \in Metric, Answer(m)  PROVE IndInv'
  <1>1. PICK k \in Cached :
            /\ k.at >= cache[m].at /\ (missing(k) => faults' > 0)
            /\ faults' \in 0..MaxFaults /\ faults' >= faults
            /\ loop[m] = "refreshing" /\ loop' = [loop EXCEPT ![m] = "waiting"]
            /\ calls' = [calls EXCEPT ![m] = <<>>]
            /\ cache' = [cache EXCEPT ![m] = k]
    BY Answered
  <1>2. UNCHANGED <<now, http, cancelled, returned>>  BY DEF Answer
  <1>3. loopBecomes(m, "waiting", <<>>, k)  BY <1>1, <1>2 DEF loopBecomes, Phase
  <1> QED  BY <1>1, <1>3, LoopStep

LEMMA FailInv ==
    ASSUME IndInv, NEW m \in Metric, Fail(m)  PROVE IndInv'
  <1>1. PICK i \in DOMAIN calls[m] : endCall(m, i)
    BY DEF Fail
  <1>2. loop[m] = "refreshing" /\ RemoveAt(calls[m], i) = <<>>
    BY OneCall
  <1>3. faults \in Nat /\ faults <= MaxFaults /\ MaxFaults \in Nat
    BY Numbers DEF IndInv, TypeOK
  <1>4. faults' \in 0..MaxFaults /\ faults' >= faults
    BY <1>3 DEF Fail, fault
  <1>5. /\ loop' = [loop EXCEPT ![m] = "waiting"]
        /\ calls' = [calls EXCEPT ![m] = <<>>]
    BY <1>1, <1>2 DEF endCall, IndInv, TypeOK
  <1>6. missing(cache[m]) => faults' > 0  BY <1>3, <1>4, SameTree
  <1>7. loopBecomes(m, "waiting", <<>>, cache[m])
    BY <1>4, <1>5, <1>6, SameTree DEF Fail, loopBecomes, Phase
  <1> QED  BY <1>2, <1>7, LoopStep

LEMMA StopInv ==
    ASSUME IndInv, NEW m \in Metric, Stop(m)  PROVE IndInv'
  <1>1. loop[m] = "waiting" /\ calls[m] = <<>>
    <2>1. calls[m] \in Seq(0..now) /\ Len(calls[m]) = 0
      BY DEF IndInv, TypeOK, Stop
    <2> QED  BY <2>1 DEF Stop
  <1>2. calls' = [calls EXCEPT ![m] = <<>>]  BY <1>1 DEF Stop, IndInv, TypeOK
  <1>3. faults' \in 0..MaxFaults /\ faults' >= faults /\ (missing(cache[m]) => faults' > 0)
    BY SameTree, Numbers DEF Stop
  <1>4. /\ loop' = [loop EXCEPT ![m] = "stopped"]
        /\ cache' = [cache EXCEPT ![m] = cache[m]]
        /\ UNCHANGED <<now, http, cancelled, returned>>
    BY SameTree DEF Stop
  <1>5. loopBecomes(m, "stopped", <<>>, cache[m])
    BY <1>2, <1>3, <1>4, SameTree DEF loopBecomes, Phase
  <1> QED  BY <1>1, <1>5, LoopStep

-----------------------------------------------------------------------------
\* Steps that leave the loops alone.

\* The store goes on to its next state; what is older stays valid.
LEMMA ChangeInv ==
    ASSUME IndInv, Change  PROVE IndInv'
  <1>1. TypeOK /\ ClosedForGood /\ AnswersAreNewer /\ MissingTakesFault  BY DEF IndInv
  <1>2. now \in Nat /\ now' \in DOMAIN Stores /\ 0..now \subseteq 0..(now')
    BY <1>1, Numbers DEF TypeOK, Change
  <1>3. UNCHANGED <<loop, calls, cache, server, scrape, shown, cancelled, returned, faults>>
    BY DEF Change, loops, http
  <1>4. calls \in [Metric -> Seq(0..(now'))]
    <2>1. ASSUME NEW m \in Metric  PROVE calls[m] \in Seq(0..(now'))
      <3>1. calls[m] \in Seq(0..now)  BY <1>1 DEF TypeOK
      <3> QED  BY <1>2, <3>1, SeqMonotonic
    <2> QED  BY <1>1, <2>1 DEF TypeOK
  <1>5. {cache, shown} \subseteq [Metric -> [at : 0..(now'), arrived : BOOLEAN]]
    BY <1>1, <1>2 DEF TypeOK
  <1>6. TypeOK'  BY <1>1, <1>2, <1>3, <1>4, <1>5 DEF TypeOK
  <1> QED
    BY <1>1, <1>3, <1>6 DEF IndInv, ClosedForGood, AnswersAreNewer, MissingTakesFault

\* The server starts or stops, a scrape begins or ends, or nothing happens.
LEMMA HttpInv ==
    ASSUME IndInv,
           Listen \/ StartScrape \/ Collect \/ EndScrape \/ Cancel \/ Shutdown \/ Return \/ UNCHANGED vars
    PROVE  IndInv'
  <1>1. TypeOK /\ ClosedForGood /\ AnswersAreNewer /\ MissingTakesFault  BY DEF IndInv
  <1>2. UNCHANGED <<now, loop, calls, cache>>
    BY DEF Listen, StartScrape, Collect, EndScrape, Cancel, Shutdown, Return, vars, loops
  <1>3. faults \in Nat /\ faults' \in 0..MaxFaults /\ faults' >= faults
    BY <1>1, Numbers
       DEF TypeOK, Listen, StartScrape, Collect, EndScrape, Cancel, Shutdown, Return, fault, vars
  <1>4. /\ shown' \in [Metric -> Cached]
        /\ \A m \in Metric : missing(shown'[m]) => faults' > 0
    <2>1. shown \in [Metric -> Cached] /\ cache \in [Metric -> Cached] /\ now \in Nat
      BY <1>1, Numbers DEF TypeOK, Cached
    <2>2. CASE UNCHANGED shown  BY <1>1, <1>3, <2>1, <2>2 DEF MissingTakesFault
    <2>3. CASE Collect
      <3>1. scrape \in DOMAIN Metrics /\ Metrics[scrape] \in Metric  BY <2>3, Numbers DEF Collect
      <3>2. shown' = [shown EXCEPT ![Metrics[scrape]] = cache[Metrics[scrape]]]  BY <2>3 DEF Collect
      <3> QED  BY <1>1, <1>3, <2>1, <3>1, <3>2 DEF MissingTakesFault
    <2>4. CASE EndScrape
      <3>1. shown' = [m \in Metric |-> Nothing]  BY <2>4 DEF EndScrape
      <3>2. Nothing \in Cached /\ Nothing.at = 0  BY <2>1 DEF Nothing, Cached
      <3> QED  BY <3>1, <3>2 DEF missing
    <2> QED  BY <2>2, <2>3, <2>4 DEF Listen, StartScrape, Cancel, Shutdown, Return, vars, http
  <1>5. /\ server' \in {"new", "serving", "failed", "closing"} /\ scrape' \in 0..(Len(Metrics) + 1)
        /\ cancelled' \in BOOLEAN /\ returned' \in BOOLEAN
    <2>1. scrape' \in 0..(Len(Metrics) + 1)
      <3>1. scrape \in 0..(Len(Metrics) + 1)  BY <1>1 DEF TypeOK
      <3>2. CASE UNCHANGED scrape  BY <3>1, <3>2
      <3>3. CASE StartScrape \/ Collect \/ EndScrape
        BY <3>3, Numbers DEF StartScrape, Collect, EndScrape
      <3> QED  BY <3>2, <3>3 DEF Listen, Cancel, Shutdown, Return, vars, http
    <2>2. server' \in {"new", "serving", "failed", "closing"}
      BY <1>1 DEF TypeOK, Listen, StartScrape, Collect, EndScrape, Cancel, Shutdown, Return, vars, http
    <2>3. cancelled' \in BOOLEAN /\ returned' \in BOOLEAN
      BY <1>1 DEF TypeOK, Listen, StartScrape, Collect, EndScrape, Cancel, Shutdown, Return, vars
    <2> QED  BY <2>1, <2>2, <2>3
  <1>6. /\ returned' => scrape' = 0 /\ \A m \in Metric : loop[m] = "stopped"
        /\ ClosedForGood'
    BY <1>1, Numbers
       DEF TypeOK, ClosedForGood,
           Listen, StartScrape, Collect, EndScrape, Cancel, Shutdown, Return, vars, http
  <1>7. TypeOK'  BY <1>1, <1>2, <1>3, <1>4, <1>5, <1>6 DEF TypeOK, Cached
  <1>8. AnswersAreNewer'  BY <1>1, <1>2 DEF AnswersAreNewer
  <1>9. MissingTakesFault'  BY <1>1, <1>2, <1>3, <1>4 DEF MissingTakesFault
  <1> QED  BY <1>6, <1>7, <1>8, <1>9 DEF IndInv

-----------------------------------------------------------------------------
\* The theorems about the loops.

\* Every step keeps the invariant.
LEMMA StepInv == IndInv /\ [Next]_vars => IndInv'
  <1> SUFFICES ASSUME IndInv, [Next]_vars  PROVE IndInv'
    OBVIOUS
  <1>1. CASE Change
    BY <1>1, ChangeInv
  <1>2. CASE Listen \/ StartScrape \/ Collect \/ EndScrape \/ Cancel \/ Shutdown \/ Return \/ UNCHANGED vars
    BY <1>2, HttpInv
  <1>3. ASSUME NEW m \in Metric, Loop(m) \/ Fail(m) \/ Stop(m)  PROVE IndInv'
    BY <1>3, TickInv, ServeInv, AnswerInv, FailInv, StopInv DEF Loop
  <1> QED  BY <1>1, <1>2, <1>3 DEF Next

\* The invariant holds.
THEOREM IndInvHolds == Spec => []IndInv
  <1> QED  BY InitInv, StepInv, PTL DEF Spec

\* One call per loop at a time, and once Run has returned no loop runs and no
\* scrape is served.
THEOREM TypeCorrect == Spec => []TypeOK
  <1>1. IndInv => TypeOK  BY DEF IndInv
  <1> QED  BY <1>1, IndInvHolds, PTL

\* A metric that has been answered is missing from a scrape only if a reply was
\* lost: what ScrapeShowsOneState needs of the service's steps.
THEOREM MissingOnlyByFault == Spec => []MissingTakesFault
  <1>1. IndInv => MissingTakesFault  BY DEF IndInv
  <1> QED  BY <1>1, IndInvHolds, PTL

\* A step that changes a cache puts a state into it that is not older.
LEMMA CacheStep ==
    IndInv /\ [Next]_vars => [\A m \in Metric : cache'[m].at >= cache[m].at]_vars
  <1> SUFFICES ASSUME IndInv, Next  PROVE \A m \in Metric : cache'[m].at >= cache[m].at
    OBVIOUS
  <1>1. \A n \in Metric : cache[n].at \in Nat
    BY Numbers DEF IndInv, TypeOK
  <1>2. CASE UNCHANGED cache
    BY <1>1, <1>2
  <1>3. ASSUME NEW m \in Metric, Answer(m)  PROVE \A n \in Metric : cache'[n].at >= cache[n].at
    <2>1. PICK k \in Cached : k.at >= cache[m].at /\ cache' = [cache EXCEPT ![m] = k]
      BY <1>3, Answered
    <2>2. cache \in [Metric -> Cached]  BY DEF IndInv, TypeOK, Cached
    <2> QED  BY <1>1, <2>1, <2>2
  <1> QED
    BY <1>2, <1>3
       DEF Next, Loop, Change, Listen, StartScrape, Collect, EndScrape, Cancel, Shutdown, Return,
           Tick, Serve, Fail, Stop, loops

\* However refreshes fail, time out and overlap with scrapes, a cache is never
\* overwritten with what an older state of the store gave.
THEOREM CacheOnlyAdvances == Spec => CacheNeverGoesBack
  <1> QED  BY IndInvHolds, CacheStep, PTL DEF Spec, CacheNeverGoesBack

-----------------------------------------------------------------------------
\* The evaluation of aggregations.

\* A set of numbers has a least one.
LEMMA NatMin ==
    ASSUME NEW T \in SUBSET Nat, T # {}
    PROVE  \E m \in T : \A n \in T : m <= n
  <1> DEFINE R == OpToRel(<, Nat)
  <1>1. IsWellFoundedOn(R, Nat)  BY NatLessThanWellFounded
  <1>2. \A x, y \in Nat : y < x => <<y, x>> \in R  BY DEF OpToRel
  <1> HIDE DEF R
  <1>3. PICK m \in T : \A n \in T : <<n, m>> \notin R  BY <1>1, WFMin
  <1>4. \A n \in T : ~(n < m)  BY <1>2, <1>3
  <1>5. \A n \in T : m <= n  BY <1>4
  <1> QED  BY <1>5

\* What groups come to under a map of aggregations depends on the maps nested in it only.
LEMMA EvaluationIsLocal ==
    ASSUME NEW rows, NEW group, NEW aggs \in Aggs, NEW r, NEW s,
           \A a \in Aggs : Nesting(a) < Nesting(aggs) => r[a] = s[a]
    PROVE  evaluateGroup(rows, group, aggs, r) = evaluateGroup(rows, group, aggs, s)
  <1>1. ASSUME NEW name \in DOMAIN aggs
        PROVE  applyAgg(rows, group, aggs[name], r) = applyAgg(rows, group, aggs[name], s)
    <2>1. r[aggs[name].aggs] = s[aggs[name].aggs]  BY AggsAssumption
    <2> QED  BY <2>1 DEF applyAgg
  <1> QED  BY <1>1 DEF evaluateGroup

\* So the evaluation of aggregations is well defined.
LEMMA EvaluationIs ==
    ASSUME NEW rows, NEW aggs \in Aggs, NEW group \in SUBSET DOMAIN rows
    PROVE  evaluation(rows)[aggs][group] = evaluateGroup(rows, group, aggs, evaluation(rows))
  <1> DEFINE step(a, r) == [g \in SUBSET DOMAIN rows |-> evaluateGroup(rows, g, a, r)]
             Good(n, r) == \A a \in Aggs : Nesting(a) < n => r[a] = step(a, r)
             G == [n \in Nat |-> CHOOSE r : Good(n, r)]
             g0 == [a \in Aggs |-> G[Nesting(a) + 1][a]]
  <1>0. \A a \in Aggs : Nesting(a) \in Nat  BY AggsAssumption
  <1>local. ASSUME NEW a \in Aggs, NEW r, NEW s, \A c \in Aggs : Nesting(c) < Nesting(a) => r[c] = s[c]
        PROVE  step(a, r) = step(a, s)
    BY <1>local, EvaluationIsLocal
  <1>def. evaluation(rows) = CHOOSE results : results = [a \in Aggs |-> step(a, results)]
    BY DEF evaluation
  <1>step. \A r : step(aggs, r)[group] = evaluateGroup(rows, group, aggs, r)
    OBVIOUS
  <1> HIDE DEF step
  <1>1. \A n \in Nat : \E r : Good(n, r)
    <2> DEFINE T == {n \in Nat : ~ \E r : Good(n, r)}
    <2> SUFFICES ASSUME T # {}  PROVE FALSE
      OBVIOUS
    <2>1. PICK n \in T : \A k \in T : n <= k  BY NatMin
    <2>2. n # 0  BY <1>0, <2>1
    <2>3. n - 1 \in Nat /\ n - 1 \notin T  BY <2>1, <2>2
    <2>4. PICK g : Good(n - 1, g)  BY <2>3
    <2> DEFINE h == [a \in Aggs |-> step(a, g)]
    <2>5. ASSUME NEW a \in Aggs, Nesting(a) < n  PROVE h[a] = step(a, h)
      <3>1. \A c \in Aggs : Nesting(c) < Nesting(a) => g[c] = h[c]
        BY <1>0, <2>3, <2>4, <2>5
      <3>2. step(a, g) = step(a, h)  BY <1>local, <3>1
      <3> QED  BY <3>2
    <2>6. Good(n, h)  BY <2>5
    <2> QED  BY <2>1, <2>6
  <1>2. ASSUME NEW n \in Nat, NEW g, NEW h, Good(n, g), Good(n, h), NEW a \in Aggs, Nesting(a) < n
        PROVE  g[a] = h[a]
    <2> DEFINE T == {k \in Nat : \E c \in Aggs : Nesting(c) = k /\ Nesting(c) < n /\ g[c] # h[c]}
    <2> SUFFICES ASSUME T # {}  PROVE FALSE
      BY <1>0, <1>2
    <2>1. PICK k \in T : \A l \in T : k <= l  BY NatMin
    <2>2. PICK c \in Aggs : Nesting(c) = k /\ Nesting(c) < n /\ g[c] # h[c]  BY <2>1
    <2>3. \A d \in Aggs : Nesting(d) < Nesting(c) => g[d] = h[d]
      <3> SUFFICES ASSUME NEW d \in Aggs, Nesting(d) < Nesting(c), g[d] # h[d]  PROVE FALSE
        OBVIOUS
      <3>1. Nesting(d) \in T  BY <1>0, <2>2
      <3> QED  BY <1>0, <2>1, <2>2, <3>1
    <2>4. step(c, g) = step(c, h)  BY <1>local, <2>3
    <2>5. g[c] = step(c, g) /\ h[c] = step(c, h)  BY <1>2, <2>2
    <2> QED  BY <2>2, <2>4, <2>5
  <1>3. \A n \in Nat : Good(n, G[n])
    <2> SUFFICES ASSUME NEW n \in Nat  PROVE Good(n, G[n])
      OBVIOUS
    <2>1. \E r : Good(n, r)  BY <1>1
    <2>2. G[n] = CHOOSE r : Good(n, r)  OBVIOUS
    <2> HIDE DEF Good, G
    <2> QED  BY <2>1, <2>2
  <1> HIDE DEF G
  <1>4. ASSUME NEW a \in Aggs  PROVE g0[a] = step(a, g0)
    <2> DEFINE n == Nesting(a) + 1
    <2>1. n \in Nat /\ Nesting(a) < n /\ Good(n, G[n])  BY <1>0, <1>3
    <2>2. ASSUME NEW c \in Aggs, Nesting(c) < Nesting(a)  PROVE g0[c] = G[n][c]
      <3> DEFINE m == Nesting(c) + 1
      <3>1. m \in Nat /\ Good(m, G[m])  BY <1>0, <1>3
      <3>2. Good(m, G[n]) /\ Nesting(c) < m  BY <1>0, <2>1, <2>2
      <3>3. G[m][c] = G[n][c]
        <4> HIDE DEF Good
        <4> QED  BY <1>2, <3>1, <3>2
      <3> QED  BY <3>3
    <2>3. step(a, g0) = step(a, G[n])  BY <1>local, <2>2
    <2>4. G[n][a] = step(a, G[n])  BY <2>1
    <2> QED  BY <2>3, <2>4
  <1>5. g0 = [a \in Aggs |-> step(a, g0)]
    <2>1. g0 = [a \in Aggs |-> g0[a]]  OBVIOUS
    <2> HIDE DEF g0
    <2> QED  BY <1>4, <2>1
  <1> HIDE DEF g0
  <1>6. evaluation(rows) = [a \in Aggs |-> step(a, evaluation(rows))]
    BY <1>def, <1>5
  <1>7. evaluation(rows)[aggs] = step(aggs, evaluation(rows))
    BY <1>6
  <1> QED  BY <1>7, <1>step

-----------------------------------------------------------------------------
\* What the aggregations of the queries come to.

\* The keys of the buckets that an item goes into.
keysAt(x, field) ==
    IF field = "created_at" THEN monthsOf(x, [field |-> field, interval |-> "month"]) ELSE keysOf(x, field)

\* Dates are dates.
Dated(rows, field) ==
    field = "created_at" => \A i \in DOMAIN rows : field \in DOMAIN rows[i] => rows[i][field].kind = "time"

\* The rows of a group that have a key.
sharing(rows, group, field, k) == {i \in group : k \in keysAt(rows[i], field)}

\* A bucket for each key, over the rows of the group that have it.
bucketsAt(rows, group, field, sub) ==
    {[key |-> k, docCount |-> Cardinality(sharing(rows, group, field, k)),
      aggs |-> evaluation(rows)[sub][sharing(rows, group, field, k)]]
        : k \in UNION {keysAt(rows[i], field) : i \in group}}

\* Nothing that is nested fails.
Computed(rows, aggs) == \A group \in SUBSET DOMAIN rows : evaluation(rows)[aggs][group] # Failed

\* Buckets are made for the keys, if nothing below them fails.
LEMMA BucketsFor ==
    ASSUME NEW rows, NEW group \in SUBSET DOMAIN rows, NEW field, NEW sub \in Aggs, Computed(rows, sub),
           NEW keys, keys = [i \in group |-> keysAt(rows[i], field)]
    PROVE  bucketsFor(group, keys, evaluation(rows)[sub]) =
               [docCount |-> 0, sum |-> 0, buckets |-> bucketsAt(rows, group, field, sub)]
  <1> DEFINE members(k) == {i \in group : k \in keys[i]}
             below == evaluation(rows)[sub]
             buckets == {[key |-> k, docCount |-> Cardinality(members(k)), aggs |-> below[members(k)]]
                           : k \in UNION {keys[i] : i \in group}}
  <1>1. \A k : members(k) = sharing(rows, group, field, k)  BY DEF sharing
  <1>2. UNION {keys[i] : i \in group} = UNION {keysAt(rows[i], field) : i \in group}
    <2>1. {keys[i] : i \in group} = {keysAt(rows[i], field) : i \in group}  OBVIOUS
    <2> QED  BY <2>1
  <1>3. buckets = bucketsAt(rows, group, field, sub)
    <2> HIDE DEF members
    <2> QED  BY <1>1, <1>2 DEF bucketsAt
  <1>4. \A b \in buckets : b.aggs # Failed
    <2>1. \A k : members(k) \in SUBSET DOMAIN rows  OBVIOUS
    <2> HIDE DEF members
    <2> QED  BY <2>1 DEF Computed
  <1>5. bucketsFor(group, keys, evaluation(rows)[sub]) =
            IF \E b \in buckets : b.aggs = Failed THEN Failed
            ELSE [docCount |-> 0, sum |-> 0, buckets |-> buckets]
    BY DEF bucketsFor
  <1> HIDE DEF buckets
  <1> QED  BY <1>3, <1>4, <1>5

\* A grouping comes to its buckets.
LEMMA Grouped ==
    ASSUME NEW rows, NEW field, field # "error", NEW sub, nest(field, sub) \in Aggs,
           Dated(rows, field), Computed(rows, sub)
    PROVE  /\ Computed(rows, nest(field, sub))
           /\ \A group \in SUBSET DOMAIN rows :
                  evaluation(rows)[nest(field, sub)][group][field].buckets =
                      bucketsAt(rows, group, field, sub)
  <1> PICK aggs : aggs = nest(field, sub)
    OBVIOUS
  <1> DEFINE agg == aggs[field]
             below == evaluation(rows)[sub]
             result(group) == [docCount |-> 0, sum |-> 0, buckets |-> bucketsAt(rows, group, field, sub)]
  <1>1. /\ DOMAIN aggs = {field} /\ agg.field = field /\ agg.interval = "month" /\ agg.aggs = sub
        /\ agg.op = IF field = "created_at" THEN "date_histogram" ELSE "terms"
    BY DEF nest
  <1>2. aggs \in Aggs  OBVIOUS
  <1>3. sub \in Aggs  BY <1>1, <1>2, AggsAssumption
  <1>4. ASSUME NEW group \in SUBSET DOMAIN rows
        PROVE  applyAgg(rows, group, agg, evaluation(rows)) = result(group)
    <2>1. CASE field = "created_at"
      <3> DEFINE keys == [i \in group |-> monthsOf(rows[i], agg)]
      <3>1. applyAgg(rows, group, agg, evaluation(rows)) =
                applyDateHistogram(rows, group, agg, below)
        BY <1>1, <2>1 DEF applyAgg
      <3>2. keys = [i \in group |-> keysAt(rows[i], field)]
        BY <1>1, <2>1 DEF keysAt, monthsOf
      <3>3. applyDateHistogram(rows, group, agg, below) = bucketsFor(group, keys, below)
        BY <1>1, <2>1 DEF applyDateHistogram, Dated
      <3> HIDE DEF keys
      <3> QED  BY <1>3, <3>1, <3>2, <3>3, BucketsFor
    <2>2. CASE field # "created_at"
      <3> DEFINE keys == [i \in group |-> keysOf(rows[i], agg.field)]
      <3>1. applyAgg(rows, group, agg, evaluation(rows)) = applyTerms(rows, group, agg, below)
        BY <1>1, <2>2 DEF applyAgg
      <3>2. keys = [i \in group |-> keysAt(rows[i], field)]
        BY <1>1, <2>2 DEF keysAt
      <3>3. applyTerms(rows, group, agg, below) = bucketsFor(group, keys, below)
        BY DEF applyTerms
      <3> HIDE DEF keys
      <3> QED  BY <1>3, <3>1, <3>2, <3>3, BucketsFor
    <2> QED  BY <2>1, <2>2
  <1>5. ASSUME NEW group \in SUBSET DOMAIN rows
        PROVE  DOMAIN evaluation(rows)[aggs][group] = {field} /\ evaluation(rows)[aggs][group][field] = result(group)
    <2> DEFINE r == [name \in DOMAIN aggs |-> applyAgg(rows, group, aggs[name], evaluation(rows))]
    <2>1. evaluation(rows)[aggs][group] = evaluateGroup(rows, group, aggs, evaluation(rows))
      BY <1>2, EvaluationIs
    <2>2. evaluateGroup(rows, group, aggs, evaluation(rows)) =
              IF \E name \in DOMAIN aggs : r[name] = Failed THEN Failed ELSE r
      BY DEF evaluateGroup
    <2>3. DOMAIN r = {field} /\ r[field] = result(group)
      BY <1>1, <1>4
    <2>4. result(group) # Failed
      <3>1. "docCount" \in DOMAIN result(group) /\ "docCount" \notin DOMAIN Failed  BY DEF Failed
      <3> HIDE DEF result
      <3> QED  BY <3>1
    <2> HIDE DEF r, result
    <2> QED  BY <1>1, <2>1, <2>2, <2>3, <2>4
  <1>6. Computed(rows, aggs)
    <2>1. DOMAIN Failed = {"error"}  BY DEF Failed
    <2> QED  BY <1>5, <2>1 DEF Computed
  <1>7. \A group \in SUBSET DOMAIN rows :
            evaluation(rows)[aggs][group][field].buckets = bucketsAt(rows, group, field, sub)
    <2> SUFFICES ASSUME NEW group \in SUBSET DOMAIN rows
                 PROVE  evaluation(rows)[aggs][group][field].buckets = bucketsAt(rows, group, field, sub)
      OBVIOUS
    <2>1. evaluation(rows)[aggs][group][field] = result(group)  BY <1>5
    <2>2. result(group).buckets = bucketsAt(rows, group, field, sub)  OBVIOUS
    <2> HIDE DEF result
    <2> QED  BY <2>1, <2>2
  <1> QED  BY <1>6, <1>7

\* A bound that is given once is counted once.
LEMMA Counted ==
    ASSUME NEW values, IsFiniteSet(DOMAIN values), NEW list, IsInjective(list), NEW b \in ToSet(list)
    PROVE  cumulative(values, list, b) = Cardinality({i \in DOMAIN values : values[i] <= b})
  <1> DEFINE S == {i \in DOMAIN values : values[i] <= b}
             T == {j \in DOMAIN list : list[j] = b}
  <1>1. PICK j \in DOMAIN list : list[j] = b  BY DEF ToSet
  <1>2. T = {j}  BY <1>1 DEF IsInjective
  <1>3. Cardinality(T) = 1  BY <1>2, FS_Singleton
  <1>4. IsFiniteSet(S)  BY FS_Subset
  <1>5. Cardinality(S) \in Nat  BY <1>4, FS_CardinalityType
  <1>6. cumulative(values, list, b) = Cardinality(S) * Cardinality(T)  BY DEF cumulative
  <1> HIDE DEF S, T
  <1>7. Cardinality(S) * 1 = Cardinality(S)  BY <1>5
  <1> QED  BY <1>3, <1>6, <1>7 DEF S

\* The buckets of a histogram, by their bounds.
bucketsOf(B, count) == {[key |-> Value("float", b), docCount |-> count[b], aggs |-> <<>>] : b \in B}

\* A histogram's buckets as a map.
LEMMA BucketMap ==
    ASSUME NEW agg, NEW B, NEW count, agg.buckets = bucketsOf(B, count)
    PROVE  extractBucketMap(agg) = [b \in B |-> count[b]]
  <1> DEFINE bucket(b) == [key |-> Value("float", b), docCount |-> count[b], aggs |-> <<>>]
             at(u) == CHOOSE b \in agg.buckets : b.key.v = u
  <1>1. \A b : bucket(b).key.v = b /\ bucket(b).docCount = count[b]  BY DEF Value
  <1>2. agg.buckets = {bucket(b) : b \in B}  BY DEF bucketsOf
  <1> HIDE DEF bucket
  <1>3. {b.key.v : b \in agg.buckets} = B  BY <1>1, <1>2
  <1>4. ASSUME NEW u \in B  PROVE at(u).docCount = count[u]
    <2>1. bucket(u) \in agg.buckets /\ bucket(u).key.v = u  BY <1>1, <1>2
    <2>2. at(u) \in agg.buckets /\ at(u).key.v = u  BY <2>1
    <2>3. PICK b \in B : at(u) = bucket(b)  BY <1>2, <2>2
    <2>4. b = u  BY <1>1, <2>2, <2>3
    <2> QED  BY <1>1, <2>3, <2>4
  <1>5. extractBucketMap(agg) = [u \in {b.key.v : b \in agg.buckets} |-> at(u).docCount]
    BY DEF extractBucketMap
  <1> HIDE DEF at
  <1> QED  BY <1>3, <1>4, <1>5

\* What a histogram says of a group.
total(value, group) == SumFunction([i \in group |-> value[i]])
within(value, group, B) == [b \in B |-> Cardinality({i \in group : value[i] <= b})]

\* What is measured.
valuesOf(rows, field) == [i \in DOMAIN rows |-> rows[i][field].v]

\* The histogram of a field that every row has.
LEMMA Histogram ==
    ASSUME NEW rows, IsFiniteSet(DOMAIN rows), NEW field, field # "error", NEW m \in Metric,
           leaf(field, m) \in Aggs,
           \A i \in DOMAIN rows : field \in DOMAIN rows[i] /\ rows[i][field].kind = "float"
    PROVE  /\ Computed(rows, leaf(field, m))
           /\ \A group \in SUBSET DOMAIN rows :
                  LET agg == evaluation(rows)[leaf(field, m)][group][field]
                  IN /\ agg.docCount = Cardinality(group)
                     /\ agg.sum = total(valuesOf(rows, field), group)
                     /\ extractBucketMap(agg) = within(valuesOf(rows, field), group, ToSet(bounds[m]))
  <1> PICK aggs : aggs = leaf(field, m)
    OBVIOUS
  <1> DEFINE agg == aggs[field]
             below(group, b) == Cardinality({i \in group : rows[i][field].v <= b})
             bucket(group, b) == [key |-> Value("float", b), docCount |-> below(group, b), aggs |-> <<>>]
             result(group) ==
                 [docCount |-> Cardinality(group), sum |-> SumFunction([i \in group |-> rows[i][field].v]),
                  buckets |-> {bucket(group, b) : b \in ToSet(bounds[m])}]
  <1>1. /\ DOMAIN aggs = {field} /\ agg.op = "histogram" /\ agg.field = field /\ agg.bounds = bounds[m]
        /\ agg.aggs = <<>>
    BY DEF leaf
  <1>2. bounds[m] # <<>> /\ IsInjective(bounds[m])  BY SeriesAssumption
  <1>3. ASSUME NEW group \in SUBSET DOMAIN rows
        PROVE  applyAgg(rows, group, agg, evaluation(rows)) = result(group)
    <2> DEFINE present == {i \in group : agg.field \in DOMAIN rows[i]}
               values == [i \in present |-> rows[i][agg.field].v]
               made(b) == [key |-> Value("float", b), docCount |-> cumulative(values, agg.bounds, b), aggs |-> <<>>]
               all == {made(b) : b \in ToSet(agg.bounds)}
    <2>1. present = group  BY <1>1
    <2>2. values = [i \in group |-> rows[i][field].v]  BY <1>1
    <2>3. IsFiniteSet(group)  BY FS_Subset
    <2>4. \A b \in ToSet(bounds[m]) : made(b) = bucket(group, b)
      <3> SUFFICES ASSUME NEW b \in ToSet(bounds[m])  PROVE made(b) = bucket(group, b)
        OBVIOUS
      <3>1. DOMAIN values = group  BY <2>2
      <3>2. cumulative(values, bounds[m], b) = Cardinality({i \in DOMAIN values : values[i] <= b})
        <4> HIDE DEF values
        <4> QED  BY <1>2, <2>3, <3>1, Counted
      <3>3. {i \in DOMAIN values : values[i] <= b} = {i \in group : rows[i][field].v <= b}
        BY <2>2
      <3>4. cumulative(values, bounds[m], b) = below(group, b)
        <4> HIDE DEF values
        <4> QED  BY <3>2, <3>3
      <3> HIDE DEF below, values
      <3> QED  BY <1>1, <3>4
    <2>5. all = {bucket(group, b) : b \in ToSet(bounds[m])}
      <3> HIDE DEF made, bucket
      <3> QED  BY <1>1, <2>4
    <2>6. applyHistogram(rows, group, agg) =
              [docCount |-> Cardinality(present), sum |-> SumFunction(values), buckets |-> all]
      <3>1. \A i \in present : rows[i][agg.field].kind = "float"  BY <1>1
      <3>2. /\ ~(agg.bounds = <<>> \/ agg.aggs # <<>>)
            /\ ~ \E i \in present : rows[i][agg.field].kind \notin {"int", "float"}
        BY <1>1, <1>2, <3>1
      <3>3. applyHistogram(rows, group, agg) =
                IF \/ agg.bounds = <<>> \/ agg.aggs # <<>>
                   \/ \E i \in present : rows[i][agg.field].kind \notin {"int", "float"}
                THEN Failed
                ELSE [docCount |-> Cardinality(present), sum |-> SumFunction(values), buckets |-> all]
        BY DEF applyHistogram
      <3> HIDE DEF present, values, all
      <3> QED  BY <3>2, <3>3
    <2>7. applyAgg(rows, group, agg, evaluation(rows)) = applyHistogram(rows, group, agg)
      BY <1>1 DEF applyAgg
    <2>8. result(group) = [docCount |-> Cardinality(present), sum |-> SumFunction(values), buckets |-> all]
      <3> DEFINE v == [i \in group |-> rows[i][field].v]
      <3>1. values = v  BY <2>2
      <3>2. result(group) = [docCount |-> Cardinality(group), sum |-> SumFunction(v),
                             buckets |-> {bucket(group, b) : b \in ToSet(bounds[m])}]
        OBVIOUS
      <3> HIDE DEF v, values, present, all, bucket, result
      <3> QED  BY <2>1, <2>5, <3>1, <3>2
    <2> HIDE DEF present, values, all, result
    <2> QED  BY <2>6, <2>7, <2>8
  <1>4. ASSUME NEW group \in SUBSET DOMAIN rows
        PROVE  DOMAIN evaluation(rows)[aggs][group] = {field} /\ evaluation(rows)[aggs][group][field] = result(group)
    <2> DEFINE r == [name \in DOMAIN aggs |-> applyAgg(rows, group, aggs[name], evaluation(rows))]
    <2>1. evaluation(rows)[aggs][group] = evaluateGroup(rows, group, aggs, evaluation(rows))
      BY EvaluationIs
    <2>2. evaluateGroup(rows, group, aggs, evaluation(rows)) =
              IF \E name \in DOMAIN aggs : r[name] = Failed THEN Failed ELSE r
      BY DEF evaluateGroup
    <2>3. DOMAIN r = {field} /\ r[field] = result(group)
      <3> HIDE DEF result
      <3> QED  BY <1>1, <1>3
    <2>4. result(group) # Failed
      <3>1. "docCount" \in DOMAIN result(group) /\ "docCount" \notin DOMAIN Failed  BY DEF Failed
      <3> HIDE DEF result
      <3> QED  BY <3>1
    <2> HIDE DEF r, result
    <2> QED  BY <1>1, <2>1, <2>2, <2>3, <2>4
  <1>5. Computed(rows, aggs)
    <2>1. DOMAIN Failed = {"error"}  BY DEF Failed
    <2> HIDE DEF result
    <2> QED  BY <1>4, <2>1 DEF Computed
  <1>6. ASSUME NEW group \in SUBSET DOMAIN rows
        PROVE  LET a == evaluation(rows)[aggs][group][field]
               IN /\ a.docCount = Cardinality(group)
                  /\ a.sum = total(valuesOf(rows, field), group)
                  /\ extractBucketMap(a) = within(valuesOf(rows, field), group, ToSet(bounds[m]))
    <2> PICK a : a = evaluation(rows)[aggs][group][field]
      OBVIOUS
    <2>1. a = result(group)  BY <1>4
    <2>2. a.docCount = Cardinality(group) /\ a.sum = SumFunction([i \in group |-> rows[i][field].v])
      BY <2>1
    <2>3. a.buckets = {bucket(group, b) : b \in ToSet(bounds[m])}  BY <2>1
    <2>4. extractBucketMap(a) = [b \in ToSet(bounds[m]) |-> below(group, b)]
      <3> DEFINE B == ToSet(bounds[m])
                 count == [b \in B |-> below(group, b)]
                 made(b) == [key |-> Value("float", b), docCount |-> count[b], aggs |-> <<>>]
      <3>1. \A b \in B : count[b] = below(group, b)  OBVIOUS
      <3>2. \A b \in B : made(b) = bucket(group, b)
        <4> HIDE DEF count, below
        <4> QED  BY <3>1
      <3>3. a.buckets = {made(b) : b \in B}
        <4> HIDE DEF made, bucket
        <4> QED  BY <2>3, <3>2
      <3>4. a.buckets = bucketsOf(B, count)  BY <3>3 DEF bucketsOf
      <3>5. extractBucketMap(a) = [b \in B |-> count[b]]
        <4> HIDE DEF count, B
        <4> QED  BY <3>4, BucketMap
      <3> HIDE DEF count, below
      <3> QED  BY <3>1, <3>5
    <2> PICK value : value = valuesOf(rows, field)
      OBVIOUS
    <2>5. \A i \in group : value[i] = rows[i][field].v  BY DEF valuesOf
    <2>6. [i \in group |-> rows[i][field].v] = [i \in group |-> value[i]]  BY <2>5
    <2>7. \A b : below(group, b) = Cardinality({i \in group : value[i] <= b})
      <3>1. \A b : {i \in group : rows[i][field].v <= b} = {i \in group : value[i] <= b}  BY <2>5
      <3> QED  BY <3>1
    <2>8. [b \in ToSet(bounds[m]) |-> below(group, b)] = within(value, group, ToSet(bounds[m]))
      <3> HIDE DEF below
      <3> QED  BY <2>7 DEF within
    <2>9. a.sum = total(value, group)  BY <2>2, <2>6 DEF total
    <2> HIDE DEF below
    <2> QED  BY <2>2, <2>4, <2>8, <2>9
  <1>7. \A group \in SUBSET DOMAIN rows :
            LET a == evaluation(rows)[aggs][group][field]
            IN /\ a.docCount = Cardinality(group)
               /\ a.sum = total(valuesOf(rows, field), group)
               /\ extractBucketMap(a) = within(valuesOf(rows, field), group, ToSet(bounds[m]))
    BY <1>6
  <1> QED  BY <1>5, <1>7

-----------------------------------------------------------------------------
\* The walk through a tree.

\* The labels that come of an item's keys.
labelsAt(x, field) == {labelOf(field, k) : k \in keysAt(x, field)}

\* Keys are of the right type, and labels tell them apart.
ToldApart(rows, field) ==
    \A i, j \in DOMAIN rows : \A k \in keysAt(rows[i], field) : \A l \in keysAt(rows[j], field) :
        keyOK(field, k) /\ (labelOf(field, k) = labelOf(field, l) => k = l)

\* The items that have all of some labels.
members(rows, labels) ==
    {i \in DOMAIN rows : \A f \in DOMAIN labels : labels[f] \in labelsAt(rows[i], f)}

\* The labels of some fields that some item has.
anyLabel(rows, fields) == UNION {UNION {labelsAt(rows[i], f) : f \in fields} : i \in DOMAIN rows}
\* One label for each of some fields, such that some item has them all.
labellings(rows, fields) ==
    {labels \in [fields -> anyLabel(rows, fields)] : fields = {} \/ members(rows, labels) # {}}

\* One label for each of some fields.
isOver(labels, fields) == labels = [f \in fields |-> labels[f]]

\* The labellings are those that some item has.
LEMMA Labellings ==
    ASSUME NEW rows, NEW fields, NEW labels
    PROVE  labels \in labellings(rows, fields) <=>
               /\ isOver(labels, fields)
               /\ fields = {} \/ members(rows, labels) # {}
  <1>1. ASSUME labels \in labellings(rows, fields)
        PROVE  isOver(labels, fields) /\ (fields = {} \/ members(rows, labels) # {})
    BY <1>1 DEF labellings, isOver
  <1>2. ASSUME isOver(labels, fields), fields = {} \/ members(rows, labels) # {}
        PROVE  labels \in labellings(rows, fields)
    <2>1. DOMAIN labels = fields  BY <1>2 DEF isOver
    <2>2. ASSUME NEW f \in fields  PROVE labels[f] \in anyLabel(rows, fields)
      <3>1. PICK i \in members(rows, labels) : TRUE  BY <1>2, <2>2
      <3>2. i \in DOMAIN rows /\ labels[f] \in labelsAt(rows[i], f)  BY <2>1, <3>1 DEF members
      <3> QED  BY <3>2 DEF anyLabel
    <2>3. labels \in [fields -> anyLabel(rows, fields)]  BY <1>2, <2>2 DEF isOver
    <2> QED  BY <1>2, <2>3 DEF labellings
  <1> QED  BY <1>1, <1>2

\* The places that a walk over some fields comes to: one for all that some item has,
\* at what the rest of the query comes to over the items that have it.
placesOf(rows, fields, aggs) ==
    {[labels |-> labels, aggs |-> evaluation(rows)[aggs][members(rows, labels)]]
        : labels \in labellings(rows, fields)}

\* Adding a label to some.
LEMMA LabelIs ==
    ASSUME NEW labels, NEW field, NEW l
    PROVE  /\ DOMAIN label(labels, field, l) = DOMAIN labels \cup {field}
           /\ label(labels, field, l)[field] = l
           /\ \A f \in DOMAIN labels : f # field => label(labels, field, l)[f] = labels[f]
           /\ isOver(label(labels, field, l), DOMAIN labels \cup {field})
  <1> DEFINE new == [f \in DOMAIN labels \cup {field} |-> IF f = field THEN l ELSE labels[f]]
  <1>1. label(labels, field, l) = new  BY DEF label
  <1>2. DOMAIN new = DOMAIN labels \cup {field} /\ new[field] = l
        /\ \A f \in DOMAIN labels : f # field => new[f] = labels[f]
    OBVIOUS
  <1>3. isOver(new, DOMAIN labels \cup {field})  BY DEF isOver
  <1> HIDE DEF new
  <1> QED  BY <1>1, <1>2, <1>3

\* The items that share a key are the ones that have its label.
LEMMA SharingIsMembers ==
    ASSUME NEW rows, NEW labels, NEW field, field \notin DOMAIN labels, ToldApart(rows, field),
           NEW j \in DOMAIN rows, NEW k \in keysAt(rows[j], field)
    PROVE  sharing(rows, members(rows, labels), field, k) =
               members(rows, label(labels, field, labelOf(field, k)))
  <1> DEFINE new == label(labels, field, labelOf(field, k))
  <1>1. /\ DOMAIN new = DOMAIN labels \cup {field} /\ new[field] = labelOf(field, k)
        /\ \A f \in DOMAIN labels : new[f] = labels[f]
    BY DEF label
  <1> HIDE DEF new
  <1>2. ASSUME NEW i \in DOMAIN rows
        PROVE  k \in keysAt(rows[i], field) <=> labelOf(field, k) \in labelsAt(rows[i], field)
    BY DEF labelsAt, ToldApart
  <1>3. ASSUME NEW i \in DOMAIN rows
        PROVE  i \in members(rows, new) <=> i \in members(rows, labels) /\ k \in keysAt(rows[i], field)
    BY <1>1, <1>2 DEF members
  <1>4. members(rows, new) \subseteq DOMAIN rows /\ members(rows, labels) \subseteq DOMAIN rows
    BY DEF members
  <1>5. sharing(rows, members(rows, labels), field, k) = members(rows, new)
    BY <1>3, <1>4 DEF sharing
  <1> QED  BY <1>5 DEF new

\* A loop over the buckets comes to the places with a label more.
LEMMA EachIs ==
    ASSUME NEW rows, NEW fields, NEW field, field \notin fields, field # "error",
           NEW sub, nest(field, sub) \in Aggs, Dated(rows, field), ToldApart(rows, field), Computed(rows, sub)
    PROVE  each(placesOf(rows, fields, nest(field, sub)), field) = placesOf(rows, fields \cup {field}, sub)
  <1> DEFINE aggs == nest(field, sub)
             at(labels) == [labels |-> labels, aggs |-> evaluation(rows)[aggs][members(rows, labels)]]
             next(labels) == [labels |-> labels, aggs |-> evaluation(rows)[sub][members(rows, labels)]]
             step(p, b) == [labels |-> label(p.labels, field, labelOf(field, b.key)), aggs |-> b.aggs]
             bucket(labels, k) ==
                 LET s == sharing(rows, members(rows, labels), field, k)
                 IN [key |-> k, docCount |-> Cardinality(s), aggs |-> evaluation(rows)[sub][s]]
             places == placesOf(rows, fields, aggs)
  <1>1. \A labels : /\ at(labels).labels = labels
                    /\ at(labels).aggs = evaluation(rows)[aggs][members(rows, labels)]
    OBVIOUS
  <1>2. places = {at(labels) : labels \in labellings(rows, fields)}  BY DEF placesOf
  <1>3. placesOf(rows, fields \cup {field}, sub) = {next(labels) : labels \in labellings(rows, fields \cup {field})}
    BY DEF placesOf
  <1>4. \A labels : evaluation(rows)[aggs][members(rows, labels)][field].buckets =
                        bucketsAt(rows, members(rows, labels), field, sub)
    <2>1. \A labels : members(rows, labels) \in SUBSET DOMAIN rows  BY DEF members
    <2> QED  BY <2>1, Grouped
  <1>5. \A labels : bucketsAt(rows, members(rows, labels), field, sub) =
                        {bucket(labels, k) : k \in UNION {keysAt(rows[i], field) : i \in members(rows, labels)}}
    BY DEF bucketsAt
  <1>6. \A labels, k : bucket(labels, k).key = k
                       /\ bucket(labels, k).aggs = evaluation(rows)[sub][sharing(rows, members(rows, labels), field, k)]
    OBVIOUS
  <1>7. \A p, b : step(p, b) = [labels |-> label(p.labels, field, labelOf(field, b.key)), aggs |-> b.aggs]
    OBVIOUS
  <1>8. \A q : q \in each(places, field) <=>
                   \E p \in places : \E b \in p.aggs[field].buckets : keyOK(field, b.key) /\ q = step(p, b)
    BY DEF each
  <1> HIDE DEF at, step, bucket, places
  \* Every bucket leads to such a place.
  <1>9. ASSUME NEW labels \in labellings(rows, fields), NEW i \in members(rows, labels),
               NEW k \in keysAt(rows[i], field)
        PROVE  /\ keyOK(field, k)
               /\ label(labels, field, labelOf(field, k)) \in labellings(rows, fields \cup {field})
               /\ step(at(labels), bucket(labels, k)) = next(label(labels, field, labelOf(field, k)))
    <2> DEFINE new == label(labels, field, labelOf(field, k))
    <2>1. isOver(labels, fields)  BY Labellings
    <2>2. DOMAIN labels = fields  BY <2>1 DEF isOver
    <2>3. i \in DOMAIN rows  BY DEF members
    <2>4. sharing(rows, members(rows, labels), field, k) = members(rows, new)
      BY <2>2, <2>3, SharingIsMembers
    <2>5. i \in members(rows, new)  BY <2>4 DEF sharing
    <2>6. isOver(new, fields \cup {field})  BY <2>2, LabelIs
    <2>7. new \in labellings(rows, fields \cup {field})
      <3> HIDE DEF new
      <3> QED  BY <2>5, <2>6, Labellings
    <2>8. step(at(labels), bucket(labels, k)) = next(new)
      <3> HIDE DEF new
      <3>1. step(at(labels), bucket(labels, k)) =
                [labels |-> label(labels, field, labelOf(field, k)), aggs |-> evaluation(rows)[sub][members(rows, new)]]
        BY <1>1, <1>6, <1>7, <2>4
      <3> QED  BY <3>1 DEF new
    <2>9. keyOK(field, k)  BY <2>3 DEF ToldApart
    <2> QED  BY <2>7, <2>8, <2>9
  \* And every such place is led to.
  <1>10. ASSUME NEW new \in labellings(rows, fields \cup {field})
         PROVE  \E labels \in labellings(rows, fields) : \E i \in members(rows, labels) :
                    \E k \in keysAt(rows[i], field) : new = label(labels, field, labelOf(field, k))
    <2> DEFINE labels == [f \in fields |-> new[f]]
    <2>1. isOver(new, fields \cup {field}) /\ members(rows, new) # {}  BY Labellings
    <2>2. PICK i \in members(rows, new) : TRUE  BY <2>1
    <2>3. DOMAIN new = fields \cup {field}  BY <2>1 DEF isOver
    <2>4. i \in DOMAIN rows /\ \A f \in fields \cup {field} : new[f] \in labelsAt(rows[i], f)
      BY <2>2, <2>3 DEF members
    <2>5. DOMAIN labels = fields /\ (\A f \in fields : labels[f] = new[f])
      OBVIOUS
    <2>over. isOver(labels, fields)  BY DEF isOver
    <2> HIDE DEF labels
    <2>6. i \in members(rows, labels)  BY <2>4, <2>5 DEF members
    <2>7. labels \in labellings(rows, fields)  BY <2>over, <2>6, Labellings
    <2>8. PICK k \in keysAt(rows[i], field) : new[field] = labelOf(field, k)
      BY <2>4 DEF labelsAt
    <2>9. new = label(labels, field, labelOf(field, k))
      <3> PICK l : l = label(labels, field, labelOf(field, k))
        OBVIOUS
      <3>1. /\ DOMAIN l = fields \cup {field} /\ l[field] = labelOf(field, k)
            /\ \A f \in fields : l[f] = labels[f]
        BY <2>5 DEF label
      <3>3. isOver(l, fields \cup {field})  BY <2>5, LabelIs
      <3>4. \A f \in fields \cup {field} : l[f] = new[f]  BY <2>5, <2>8, <3>1
      <3>5. l = new  BY <2>1, <3>3, <3>4 DEF isOver
      <3> QED  BY <3>5
    <2> QED  BY <2>6, <2>7, <2>8, <2>9
  <1>11. ASSUME NEW q \in each(places, field)  PROVE q \in placesOf(rows, fields \cup {field}, sub)
    <2>1. PICK p \in places : \E b \in p.aggs[field].buckets : keyOK(field, b.key) /\ q = step(p, b)
      BY <1>8, <1>11
    <2>2. PICK b \in p.aggs[field].buckets : q = step(p, b)  BY <2>1
    <2>3. PICK labels \in labellings(rows, fields) : p = at(labels)  BY <1>2
    <2>4. p.aggs[field].buckets =
              {bucket(labels, k) : k \in UNION {keysAt(rows[i], field) : i \in members(rows, labels)}}
      BY <1>1, <1>4, <1>5, <2>3
    <2>5. PICK k \in UNION {keysAt(rows[i], field) : i \in members(rows, labels)} : b = bucket(labels, k)
      BY <2>2, <2>4
    <2>6. PICK i \in members(rows, labels) : k \in keysAt(rows[i], field)  BY <2>5
    <2> HIDE DEF next
    <2> QED  BY <1>3, <1>9, <2>2, <2>3, <2>5, <2>6
  <1>12. ASSUME NEW q \in placesOf(rows, fields \cup {field}, sub)  PROVE q \in each(places, field)
    <2> HIDE DEF next
    <2>1. PICK new \in labellings(rows, fields \cup {field}) : q = next(new)  BY <1>3
    <2>2. PICK labels \in labellings(rows, fields) : \E i \in members(rows, labels) :
                   \E k \in keysAt(rows[i], field) : new = label(labels, field, labelOf(field, k))
      BY <1>10
    <2>3. PICK i \in members(rows, labels) :
                   \E k \in keysAt(rows[i], field) : new = label(labels, field, labelOf(field, k))
      BY <2>2
    <2>4. PICK k \in keysAt(rows[i], field) : new = label(labels, field, labelOf(field, k))  BY <2>3
    <2>5. keyOK(field, k) /\ q = step(at(labels), bucket(labels, k))  BY <1>9, <2>1, <2>4
    <2>6. at(labels) \in places  BY <1>2
    <2>7. at(labels).aggs[field].buckets =
              {bucket(labels, x) : x \in UNION {keysAt(rows[j], field) : j \in members(rows, labels)}}
      BY <1>1, <1>4, <1>5
    <2>8. bucket(labels, k) \in at(labels).aggs[field].buckets  BY <2>7
    <2> QED  BY <1>6, <1>8, <2>5, <2>6, <2>8
  <1>13. each(places, field) = placesOf(rows, fields \cup {field}, sub)
    BY <1>11, <1>12
  <1> QED  BY <1>13 DEF places

\* A walk starts at the root, with no labels, over all items.
LEMMA StartIs ==
    ASSUME NEW rows, NEW aggs
    PROVE  start(EvaluateAggs(rows, aggs)) = placesOf(rows, {}, aggs)
  <1> DEFINE at(labels) == [labels |-> labels, aggs |-> evaluation(rows)[aggs][members(rows, labels)]]
  <1>1. DOMAIN <<>> = {}  OBVIOUS
  <1>2. isOver(<<>>, {})
    <2> PICK e : e = [f \in {} |-> <<>>[f]]
      OBVIOUS
    <2>1. e = <<>>  OBVIOUS
    <2> QED  BY <2>1 DEF isOver
  <1>3. ASSUME NEW labels, isOver(labels, {})  PROVE labels = <<>>
    BY <1>2, <1>3 DEF isOver
  <1>4. \A labels : labels \in labellings(rows, {}) <=> labels = <<>>
    <2>1. \A labels : labels \in labellings(rows, {}) <=> isOver(labels, {})
      BY Labellings
    <2> QED  BY <1>2, <1>3, <2>1
  <1>5. labellings(rows, {}) = {<<>>}  BY <1>4
  <1>6. members(rows, <<>>) = DOMAIN rows  BY <1>1 DEF members
  <1>7. placesOf(rows, {}, aggs) = {at(labels) : labels \in labellings(rows, {})}
    BY DEF placesOf
  <1>8. {at(labels) : labels \in labellings(rows, {})} = {at(<<>>)}
    <2> HIDE DEF at
    <2> QED  BY <1>5
  <1>9. at(<<>>) = [labels |-> <<>>, aggs |-> EvaluateAggs(rows, aggs)]
    BY <1>6 DEF EvaluateAggs
  <1> HIDE DEF at
  <1> QED  BY <1>7, <1>8, <1>9 DEF start

\* What is nested in a map of aggregations is one.
LEMMA Nested ==
    ASSUME NEW field, NEW sub, nest(field, sub) \in Aggs
    PROVE  sub \in Aggs
  <1>1. field \in DOMAIN nest(field, sub) /\ nest(field, sub)[field].aggs = sub  BY DEF nest
  <1> QED  BY <1>1, AggsAssumption

\* Items that a walk over some fields tells apart.
Walkable(rows, fields) ==
    \A f \in fields : f # "error" /\ Dated(rows, f) /\ ToldApart(rows, f)

\* The walk through the owners, workflows and branches.
LEMMA BranchWalk ==
    ASSUME NEW rows, NEW aggs, byOwner(aggs) \in Aggs,
           Walkable(rows, {"owner", "workflow_id", "workflow_name", "branch"}), Computed(rows, aggs)
    PROVE  eachBranch(EvaluateAggs(rows, byOwner(aggs))) =
               placesOf(rows, {"owner", "workflow_id", "workflow_name", "branch"}, aggs)
  <1> DEFINE a1 == nest("branch", aggs)
             a2 == nest("workflow_name", a1)
             a3 == nest("workflow_id", a2)
             a4 == nest("owner", a3)
  <1>1. a4 = byOwner(aggs)  BY DEF byOwner
  <1>2. a4 \in Aggs  BY <1>1
  <1> HIDE DEF a4
  <1>3. a3 \in Aggs  BY <1>2, Nested DEF a4
  <1> HIDE DEF a3
  <1>4. a2 \in Aggs  BY <1>3, Nested DEF a3
  <1> HIDE DEF a2
  <1>5. a1 \in Aggs  BY <1>4, Nested DEF a2
  <1>walk. \A f \in {"owner", "workflow_id", "workflow_name", "branch"} :
            f # "error" /\ Dated(rows, f) /\ ToldApart(rows, f)
    BY DEF Walkable
  <1>6. Computed(rows, a1)  BY <1>5, <1>walk, Grouped
  <1> HIDE DEF a1
  <1>7. Computed(rows, a2)  BY <1>4, <1>6, <1>walk, Grouped DEF a2
  <1>8. Computed(rows, a3)  BY <1>3, <1>7, <1>walk, Grouped DEF a3
  <1>9. start(EvaluateAggs(rows, a4)) = placesOf(rows, {}, a4)  BY StartIs
  <1>10. each(placesOf(rows, {}, a4), "owner") = placesOf(rows, {} \cup {"owner"}, a3)
    BY <1>2, <1>8, <1>walk, EachIs DEF a4
  <1>11. each(placesOf(rows, {"owner"}, a3), "workflow_id") = placesOf(rows, {"owner"} \cup {"workflow_id"}, a2)
    BY <1>3, <1>7, <1>walk, EachIs DEF a3
  <1>12. each(placesOf(rows, {"owner", "workflow_id"}, a2), "workflow_name") =
             placesOf(rows, {"owner", "workflow_id"} \cup {"workflow_name"}, a1)
    BY <1>4, <1>6, <1>walk, EachIs DEF a2
  <1>13. each(placesOf(rows, {"owner", "workflow_id", "workflow_name"}, a1), "branch") =
             placesOf(rows, {"owner", "workflow_id", "workflow_name"} \cup {"branch"}, aggs)
    BY <1>5, <1>walk, EachIs DEF a1
  <1>14. /\ {} \cup {"owner"} = {"owner"}
         /\ {"owner"} \cup {"workflow_id"} = {"owner", "workflow_id"}
         /\ {"owner", "workflow_id"} \cup {"workflow_name"} = {"owner", "workflow_id", "workflow_name"}
         /\ {"owner", "workflow_id", "workflow_name"} \cup {"branch"} = {"owner", "workflow_id", "workflow_name", "branch"}
    OBVIOUS
  <1> QED  BY <1>1, <1>9, <1>10, <1>11, <1>12, <1>13, <1>14 DEF eachBranch

\* One series: what the rows of a group come to.
seriesOf(m, labels, group, value) ==
    [labels |-> labels, count |-> Cardinality(group), sum |-> total(value, group),
     buckets |-> within(value, group, ToSet(bounds[m]))]

\* Items that a histogram over a field takes.
Measured(rows, field) ==
    /\ IsFiniteSet(DOMAIN rows)
    /\ \A i \in DOMAIN rows : field \in DOMAIN rows[i] /\ rows[i][field].kind = "float"

\* The series for the places that a walk comes to.
seriesAt(m, rows, fields, field) ==
    {seriesOf(m, labels, members(rows, labels), valuesOf(rows, field)) : labels \in labellings(rows, fields)}

\* At the end of a walk, each place has a histogram of the items with its labels.
LEMMA HistogramsAre ==
    ASSUME NEW rows, NEW fields, NEW field, field # "error", NEW m \in Metric, leaf(field, m) \in Aggs,
           Measured(rows, field)
    PROVE  histograms(placesOf(rows, fields, leaf(field, m)), field) =
               seriesAt(m, rows, fields, field)
  <1> DEFINE aggs == leaf(field, m)
             at(labels) == [labels |-> labels, aggs |-> evaluation(rows)[aggs][members(rows, labels)]]
             made(p) == [labels |-> p.labels, count |-> p.aggs[field].docCount, sum |-> p.aggs[field].sum,
                         buckets |-> extractBucketMap(p.aggs[field])]
             value == valuesOf(rows, field)
  <1>1. \A labels : /\ at(labels).labels = labels
                    /\ at(labels).aggs = evaluation(rows)[aggs][members(rows, labels)]
    OBVIOUS
  <1>2. placesOf(rows, fields, aggs) = {at(labels) : labels \in labellings(rows, fields)}
    BY DEF placesOf
  <1>3. histograms(placesOf(rows, fields, aggs), field) = {made(p) : p \in placesOf(rows, fields, aggs)}
    BY DEF histograms
  <1>4. ASSUME NEW labels
        PROVE  made(at(labels)) = seriesOf(m, labels, members(rows, labels), value)
    <2> PICK group : group = members(rows, labels)
      OBVIOUS
    <2> PICK agg : agg = evaluation(rows)[aggs][group][field]
      OBVIOUS
    <2>1. group \in SUBSET DOMAIN rows  BY DEF members
    <2>2. /\ agg.docCount = Cardinality(group)
          /\ agg.sum = total(value, group)
          /\ extractBucketMap(agg) = within(value, group, ToSet(bounds[m]))
      BY <2>1, Histogram DEF Measured
    <2>7. made(at(labels)) =
              [labels |-> labels, count |-> agg.docCount, sum |-> agg.sum, buckets |-> extractBucketMap(agg)]
      <3>1. at(labels).aggs[field] = agg  BY <1>1
      <3> HIDE DEF at
      <3> QED  BY <1>1, <3>1
    <2> HIDE DEF made, at
    <2> QED  BY <2>2, <2>7 DEF seriesOf
  <1> HIDE DEF made, at, aggs, value
  <1>5. {made(p) : p \in placesOf(rows, fields, aggs)} = {made(at(labels)) : labels \in labellings(rows, fields)}
    BY <1>2
  <1>6. {made(at(labels)) : labels \in labellings(rows, fields)} =
            {seriesOf(m, labels, members(rows, labels), value) : labels \in labellings(rows, fields)}
    BY <1>4
  <1> QED  BY <1>3, <1>5, <1>6 DEF aggs, value, seriesAt

\* The fields that the queries group by, and the one they measure.
prCycleFields == {"repo_id", "created_at", "state"}
workflowRunFields == {"owner", "workflow_id", "workflow_name", "branch", "status"}
workflowTaskFields == {"owner", "workflow_id", "workflow_name", "branch", "task_name", "task_order", "status"}

fieldsOf(m) ==
    CASE m = "pr_cycle_time" -> prCycleFields
      [] m = "workflow_run_duration" -> workflowRunFields
      [] OTHER -> workflowTaskFields
valueField(m) == IF m = "pr_cycle_time" THEN "cycle_time" ELSE "duration"

\* The series that are emitted for a metric.
seriesFrom(m, rows) == seriesAt(m, rows, fieldsOf(m), valueField(m))

\* The tree of pull requests is emitted as these series.
LEMMA EmitPRCycle ==
    ASSUME NEW m \in Metric, m = "pr_cycle_time", NEW rows, Walkable(rows, prCycleFields), Measured(rows, "cycle_time")
    PROVE  emit(m, EvaluateAggs(rows, queryOf(m))) = seriesFrom(m, rows)
  <1> DEFINE a0 == leaf("cycle_time", m)
             a1 == nest("state", a0)
             a2 == nest("created_at", a1)
             a3 == nest("repo_id", a2)
  <1>1. a3 = queryOf(m)  BY DEF queryOf, prCycleQuery
  <1>2. a3 \in Aggs  BY <1>1, SeriesAssumption
  <1> HIDE DEF a3
  <1>3. a2 \in Aggs  BY <1>2, Nested DEF a3
  <1> HIDE DEF a2
  <1>4. a1 \in Aggs  BY <1>3, Nested DEF a2
  <1> HIDE DEF a1
  <1>5. a0 \in Aggs  BY <1>4, Nested DEF a1
  <1>6. Computed(rows, a0)  BY <1>5, Histogram DEF Measured
  <1> HIDE DEF a0
  <1>walk. \A f \in {"repo_id", "created_at", "state"} : f # "error" /\ Dated(rows, f) /\ ToldApart(rows, f)
    BY DEF Walkable, prCycleFields
  <1>7. Computed(rows, a1)  BY <1>4, <1>6, <1>walk, Grouped DEF a1
  <1>8. Computed(rows, a2)  BY <1>3, <1>7, <1>walk, Grouped DEF a2
  <1>9. start(EvaluateAggs(rows, a3)) = placesOf(rows, {}, a3)  BY StartIs
  <1>10. each(placesOf(rows, {}, a3), "repo_id") = placesOf(rows, {} \cup {"repo_id"}, a2)
    BY <1>2, <1>8, <1>walk, EachIs DEF a3
  <1>11. each(placesOf(rows, {"repo_id"}, a2), "created_at") = placesOf(rows, {"repo_id"} \cup {"created_at"}, a1)
    BY <1>3, <1>7, <1>walk, EachIs DEF a2
  <1>12. each(placesOf(rows, {"repo_id", "created_at"}, a1), "state") =
             placesOf(rows, {"repo_id", "created_at"} \cup {"state"}, a0)
    BY <1>4, <1>6, <1>walk, EachIs DEF a1
  <1>13. /\ {} \cup {"repo_id"} = {"repo_id"}
         /\ {"repo_id"} \cup {"created_at"} = {"repo_id", "created_at"}
         /\ {"repo_id", "created_at"} \cup {"state"} = prCycleFields
    BY DEF prCycleFields
  <1>14. emit(m, EvaluateAggs(rows, a3)) = histograms(placesOf(rows, prCycleFields, a0), "cycle_time")
    BY <1>9, <1>10, <1>11, <1>12, <1>13 DEF emit, emitPRCycleTree
  <1>15. histograms(placesOf(rows, prCycleFields, a0), "cycle_time") = seriesFrom(m, rows)
    BY <1>5, HistogramsAre DEF a0, seriesFrom, fieldsOf, valueField
  <1> QED  BY <1>1, <1>14, <1>15

\* So is the tree of runs.
LEMMA EmitWorkflowRun ==
    ASSUME NEW m \in Metric, m = "workflow_run_duration", NEW rows,
           Walkable(rows, workflowRunFields), Measured(rows, "duration")
    PROVE  emit(m, EvaluateAggs(rows, queryOf(m))) = seriesFrom(m, rows)
  <1> DEFINE a0 == leaf("duration", m)
             a1 == nest("status", a0)
             query == byOwner(a1)
             branches == {"owner", "workflow_id", "workflow_name", "branch"}
  <1>1. query = queryOf(m)  BY DEF queryOf, workflowRunQuery
  <1>2. query \in Aggs  BY <1>1, SeriesAssumption
  <1> HIDE DEF a1
  <1>3. a1 \in Aggs  BY <1>2, Nested DEF byOwner
  <1>4. a0 \in Aggs  BY <1>3, Nested DEF a1
  <1>5. Computed(rows, a0)  BY <1>4, Histogram DEF Measured
  <1> HIDE DEF a0
  <1>walk. "status" # "error" /\ Dated(rows, "status") /\ ToldApart(rows, "status") /\ Walkable(rows, branches)
    BY DEF Walkable, workflowRunFields
  <1>6. Computed(rows, a1)  BY <1>3, <1>5, <1>walk, Grouped DEF a1
  <1>7. eachBranch(EvaluateAggs(rows, query)) = placesOf(rows, branches, a1)
    BY <1>2, <1>6, <1>walk, BranchWalk
  <1>8. each(placesOf(rows, branches, a1), "status") = placesOf(rows, branches \cup {"status"}, a0)
    BY <1>3, <1>5, <1>walk, EachIs DEF a1
  <1>9. branches \cup {"status"} = workflowRunFields  BY DEF workflowRunFields
  <1>10. emit(m, EvaluateAggs(rows, query)) = histograms(placesOf(rows, workflowRunFields, a0), "duration")
    <2> HIDE DEF branches, query
    <2> QED  BY <1>7, <1>8, <1>9 DEF emit, emitWorkflowRunTree
  <1>11. histograms(placesOf(rows, workflowRunFields, a0), "duration") = seriesFrom(m, rows)
    BY <1>4, HistogramsAre DEF a0, seriesFrom, fieldsOf, valueField
  <1> HIDE DEF query
  <1> QED  BY <1>1, <1>10, <1>11

\* And the tree of tasks.
LEMMA EmitWorkflowTask ==
    ASSUME NEW m \in Metric, m \notin {"pr_cycle_time", "workflow_run_duration"}, NEW rows,
           Walkable(rows, workflowTaskFields), Measured(rows, "duration")
    PROVE  emit(m, EvaluateAggs(rows, queryOf(m))) = seriesFrom(m, rows)
  <1>0. m = "workflow_task_duration"  BY MetricsAssumption DEF Metric, ToSet
  <1> DEFINE a0 == leaf("duration", m)
             a1 == nest("status", a0)
             a2 == nest("task_order", a1)
             a3 == nest("task_name", a2)
             query == byOwner(a3)
             branches == {"owner", "workflow_id", "workflow_name", "branch"}
  <1>1. query = queryOf(m)  BY <1>0 DEF queryOf, workflowTaskQuery
  <1>2. query \in Aggs  BY <1>1, SeriesAssumption
  <1> HIDE DEF a3
  <1>3. a3 \in Aggs  BY <1>2, Nested DEF byOwner
  <1> HIDE DEF a2
  <1>4. a2 \in Aggs  BY <1>3, Nested DEF a3
  <1> HIDE DEF a1
  <1>5. a1 \in Aggs  BY <1>4, Nested DEF a2
  <1>6. a0 \in Aggs  BY <1>5, Nested DEF a1
  <1>7. Computed(rows, a0)  BY <1>6, Histogram DEF Measured
  <1> HIDE DEF a0
  <1>walk. /\ \A f \in {"task_name", "task_order", "status"} : f # "error" /\ Dated(rows, f) /\ ToldApart(rows, f)
        /\ Walkable(rows, branches)
    BY DEF Walkable, workflowTaskFields
  <1>8. Computed(rows, a1)  BY <1>5, <1>7, <1>walk, Grouped DEF a1
  <1>9. Computed(rows, a2)  BY <1>4, <1>8, <1>walk, Grouped DEF a2
  <1>10. Computed(rows, a3)  BY <1>3, <1>9, <1>walk, Grouped DEF a3
  <1>11. eachBranch(EvaluateAggs(rows, query)) = placesOf(rows, branches, a3)
    BY <1>2, <1>10, <1>walk, BranchWalk
  <1>12. each(placesOf(rows, branches, a3), "task_name") = placesOf(rows, branches \cup {"task_name"}, a2)
    BY <1>3, <1>9, <1>walk, EachIs DEF a3
  <1>13. each(placesOf(rows, branches \cup {"task_name"}, a2), "task_order") =
             placesOf(rows, (branches \cup {"task_name"}) \cup {"task_order"}, a1)
    BY <1>4, <1>8, <1>walk, EachIs DEF a2
  <1>14. each(placesOf(rows, (branches \cup {"task_name"}) \cup {"task_order"}, a1), "status") =
             placesOf(rows, ((branches \cup {"task_name"}) \cup {"task_order"}) \cup {"status"}, a0)
    BY <1>5, <1>7, <1>walk, EachIs DEF a1
  <1>15. ((branches \cup {"task_name"}) \cup {"task_order"}) \cup {"status"} = workflowTaskFields
    BY DEF workflowTaskFields
  <1>16. emit(m, EvaluateAggs(rows, query)) = histograms(placesOf(rows, workflowTaskFields, a0), "duration")
    <2> HIDE DEF branches, query
    <2> QED  BY <1>0, <1>11, <1>12, <1>13, <1>14, <1>15 DEF emit, emitWorkflowTaskTree
  <1>17. histograms(placesOf(rows, workflowTaskFields, a0), "duration") = seriesFrom(m, rows)
    BY <1>0, <1>6, HistogramsAre DEF a0, seriesFrom, fieldsOf, valueField
  <1> HIDE DEF query
  <1> QED  BY <1>1, <1>16, <1>17

-----------------------------------------------------------------------------
\* Owner keys.

\* Cutting at the first separator gives back the names that a key was made of.
LEMMA OwnerKeySplits ==
    ASSUME NEW S, NEW team \in Seq(S), NEW component \in Seq(S), "|" \in S, "|" \notin ToSet(team)
    PROVE  SplitOwnerKey(OwnerKey(team, component)) = <<team, component>>
  <1> DEFINE key == OwnerKey(team, component)
             head == team \o <<"|">>
             n == Len(team)
             I == {i \in 1..Len(key) : key[i] = "|"}
  <1>1. n \in Nat /\ Len(component) \in Nat  BY LenProperties
  <1>2. <<"|">> \in Seq(S) /\ Len(<<"|">>) = 1 /\ <<"|">>[1] = "|"  OBVIOUS
  <1>3. /\ head \in Seq(S) /\ Len(head) = n + 1
        /\ \A i \in 1..(n + 1) : head[i] = IF i <= n THEN team[i] ELSE "|"
    <2>1. /\ head \in Seq(S) /\ Len(head) = n + 1
          /\ \A i \in 1..(n + 1) : head[i] = IF i <= n THEN team[i] ELSE <<"|">>[i - n]
      BY <1>2, ConcatProperties
    <2>2. \A i \in 1..(n + 1) : ~(i <= n) => i - n = 1  BY <1>1
    <2> HIDE DEF head, n
    <2> QED  BY <1>2, <2>1, <2>2
  <1>4. key = head \o component  BY DEF OwnerKey
  <1> HIDE DEF head, key
  <1>5. /\ key \in Seq(S) /\ Len(key) = n + 1 + Len(component)
        /\ \A i \in 1..Len(key) : key[i] = IF i <= n + 1 THEN head[i] ELSE component[i - (n + 1)]
    <2>1. /\ head \o component \in Seq(S) /\ Len(head \o component) = Len(head) + Len(component)
          /\ \A i \in 1 .. Len(head) + Len(component) :
                 (head \o component)[i] = IF i <= Len(head) THEN head[i] ELSE component[i - Len(head)]
      BY <1>3, ConcatProperties
    <2> HIDE DEF n
    <2> QED  BY <1>3, <1>4, <2>1
  <1>6. n + 1 \in I
    <2>1. n + 1 \in 1..Len(key) /\ key[n + 1] = head[n + 1]  BY <1>1, <1>5
    <2>2. head[n + 1] = "|"  BY <1>1, <1>3
    <2> QED  BY <2>1, <2>2
  <1>7. \A i \in 1..n : key[i] = team[i] /\ key[i] # "|"
    <2> SUFFICES ASSUME NEW i \in 1..n  PROVE key[i] = team[i] /\ key[i] # "|"
      OBVIOUS
    <2>1. key[i] = team[i]  BY <1>1, <1>3, <1>5
    <2>2. team[i] \in ToSet(team)  BY DEF ToSet
    <2> QED  BY <2>1, <2>2
  <1>8. \A i \in I : n + 1 <= i
    BY <1>1, <1>5, <1>7
  <1>9. I \in SUBSET Nat /\ I # {}  BY <1>1, <1>5, <1>6
  <1>10. Min(I) \in I /\ Min(I) <= n + 1  BY <1>6, <1>9, NatMin DEF Min
  <1>11. Min(I) = n + 1  BY <1>1, <1>8, <1>9, <1>10
  <1>12. SelectInSeq(key, LAMBDA c : c = "|") = n + 1
    <2>1. SelectInSeq(key, LAMBDA c : c = "|") = IF I # {} THEN Min(I) ELSE 0  BY DEF SelectInSeq
    <2> HIDE DEF I
    <2> QED  BY <1>9, <1>11, <2>1
  <1> HIDE DEF I
  <1>13. SubSeq(key, 1, n + 1 - 1) = team
    <2>1. /\ SubSeq(key, 1, n) \in Seq(S) /\ Len(SubSeq(key, 1, n)) = n
          /\ \A i \in 1..n : SubSeq(key, 1, n)[i] = key[i]
      <3>1. \A i \in 1..n : key[i] \in S  BY <1>1, <1>7
      <3> QED  BY <1>1, <3>1, SubSeqProperties
    <2>2. SubSeq(key, 1, n) = team
      BY <1>7, <2>1
    <2> QED  BY <1>1, <2>2
  <1>14. SubSeq(key, n + 1 + 1, Len(key)) = component
    <2> DEFINE r == SubSeq(key, n + 2, Len(key))
    <2>1. /\ r \in Seq(S) /\ Len(r) = IF n + 2 <= Len(key) THEN Len(key) - (n + 2) + 1 ELSE 0
          /\ \A i \in 1..(Len(key) - (n + 2) + 1) : r[i] = key[n + 2 + i - 1]
      <3>1. \A i \in n + 2 .. Len(key) : key[i] \in S  BY <1>1, <1>5
      <3>2. n + 2 \in Int /\ Len(key) \in Int  BY <1>1, <1>5
      <3> QED  BY <3>1, <3>2, SubSeqProperties
    <2>2. Len(r) = Len(component)  BY <1>1, <1>5, <2>1
    <2>3. \A i \in 1..Len(component) : r[i] = component[i]
      <3> SUFFICES ASSUME NEW i \in 1..Len(component)  PROVE r[i] = component[i]
        OBVIOUS
      <3>1. r[i] = key[n + 2 + i - 1]  BY <1>1, <1>5, <2>1
      <3>2. n + 2 + i - 1 = n + 1 + i /\ n + 1 + i \in 1..Len(key) /\ ~(n + 1 + i <= n + 1) /\ (n + 1 + i) - (n + 1) = i
        BY <1>1, <1>5
      <3>3. key[n + 1 + i] = component[i]
        <4>1. key[n + 1 + i] = component[(n + 1 + i) - (n + 1)]  BY <1>5, <3>2
        <4> QED  BY <3>2, <4>1
      <3> HIDE DEF r
      <3> QED  BY <3>1, <3>2, <3>3
    <2> HIDE DEF r
    <2>4. r = component  BY <2>1, <2>2, <2>3
    <2>5. n + 1 + 1 = n + 2  BY <1>1
    <2> QED  BY <2>4, <2>5 DEF r
  <1>15. SplitOwnerKey(key) = <<SubSeq(key, 1, n + 1 - 1), SubSeq(key, n + 1 + 1, Len(key))>>
    BY <1>12 DEF SplitOwnerKey
  <1> HIDE DEF n
  <1> QED  BY <1>13, <1>14, <1>15 DEF key

-----------------------------------------------------------------------------
\* The projected items.

\* A value has a kind and a content.
LEMMA ValueIs == \A kind, v : Value(kind, v).kind = kind /\ Value(kind, v).v = v
  BY DEF Value

\* The kind of a field that is neither a list nor a date.
kindOf(field) == IF field = "task_order" THEN "int" ELSE "string"

\* A field with one value in each item, all of a kind.
LEMMA PlainField ==
    ASSUME NEW rows, NEW field, field \notin {"owner", "created_at"},
           \A i \in DOMAIN rows :
               field \in DOMAIN rows[i] /\ rows[i][field] = Value(kindOf(field), rows[i][field].v)
    PROVE  /\ Dated(rows, field) /\ ToldApart(rows, field)
           /\ \A i \in DOMAIN rows : labelsAt(rows[i], field) = {rows[i][field].v}
  <1>1. ASSUME NEW i \in DOMAIN rows  PROVE keysAt(rows[i], field) = {rows[i][field]}
    <2>1. rows[i][field].kind = kindOf(field)  BY ValueIs
    <2> QED  BY <2>1 DEF keysAt, keysOf, kindOf
  <1>2. ASSUME NEW i \in DOMAIN rows, NEW k \in keysAt(rows[i], field)
        PROVE  keyOK(field, k) /\ labelOf(field, k) = rows[i][field].v /\ k = Value(kindOf(field), labelOf(field, k))
    <2>1. k = rows[i][field]  BY <1>1
    <2>2. k.kind = kindOf(field)  BY <2>1, ValueIs
    <2> QED  BY <2>1, <2>2 DEF keyOK, intKey, strKey, labelOf, kindOf
  <1>3. ToldApart(rows, field)  BY <1>2 DEF ToldApart
  <1>4. ASSUME NEW i \in DOMAIN rows  PROVE labelsAt(rows[i], field) = {rows[i][field].v}
    BY <1>1, <1>2 DEF labelsAt
  <1> QED  BY <1>3, <1>4 DEF Dated

\* A date, by the month.
LEMMA DateField ==
    ASSUME NEW rows, NEW field, field = "created_at",
           \A i \in DOMAIN rows : field \in DOMAIN rows[i] /\ rows[i][field] = Value("time", rows[i][field].v)
    PROVE  /\ Dated(rows, field) /\ ToldApart(rows, field)
           /\ \A i \in DOMAIN rows : labelsAt(rows[i], field) = {rows[i][field].v \div 720}
  <1>1. ASSUME NEW i \in DOMAIN rows
        PROVE  keysAt(rows[i], field) = {Value("string", rows[i][field].v \div 720)}
    BY DEF keysAt, monthsOf, truncateTime
  <1>2. ASSUME NEW i \in DOMAIN rows, NEW k \in keysAt(rows[i], field)
        PROVE  keyOK(field, k) /\ labelOf(field, k) = rows[i][field].v \div 720 /\ k = Value("string", labelOf(field, k))
    <2>1. k = Value("string", rows[i][field].v \div 720)  BY <1>1
    <2>2. k.kind = "string" /\ k.v = rows[i][field].v \div 720  BY <2>1 DEF Value
    <2> QED  BY <2>1, <2>2 DEF keyOK, strKey, labelOf
  <1>3. ToldApart(rows, field)  BY <1>2 DEF ToldApart
  <1>4. ASSUME NEW i \in DOMAIN rows  PROVE labelsAt(rows[i], field) = {rows[i][field].v \div 720}
    BY <1>1, <1>2 DEF labelsAt
  <1>5. Dated(rows, field)
    <2>1. \A i \in DOMAIN rows : rows[i][field].kind = "time"  BY ValueIs
    <2> QED  BY <2>1 DEF Dated
  <1> QED  BY <1>3, <1>4, <1>5

\* Owners whose keys can be cut into their names.
Splits(owners) ==
    \A o \in ToSet(owners) : SplitOwnerKey(OwnerKey(o.team, o.component)) = <<o.team, o.component>>

\* The labels of owners.
ownerLabels(owners) == {<<o.team, o.component>> : o \in ToSet(owners)}

\* The owners' keys are told apart by the names that are cut from them.
LEMMA OwnerField ==
    ASSUME NEW rows, NEW field, field = "owner", NEW owners,
           \A i \in DOMAIN rows :
               /\ field \in DOMAIN rows[i] /\ rows[i][field] = Value("list", ownerKeys(owners[i]))
               /\ Splits(owners[i])
    PROVE  /\ Dated(rows, field) /\ ToldApart(rows, field)
           /\ \A i \in DOMAIN rows : labelsAt(rows[i], field) = ownerLabels(owners[i])
  <1> DEFINE key(o) == Value("string", OwnerKey(o.team, o.component))
  <1>1. ASSUME NEW i \in DOMAIN rows  PROVE keysAt(rows[i], field) = {key(o) : o \in ToSet(owners[i])}
    <2>1. rows[i][field].kind = "list" /\ rows[i][field].v = ownerKeys(owners[i])  BY ValueIs
    <2>2. keysAt(rows[i], field) = {Value("string", e) : e \in ToSet(ownerKeys(owners[i]))}
      BY <2>1 DEF keysAt, keysOf
    <2>3. ToSet(ownerKeys(owners[i])) = {OwnerKey(o.team, o.component) : o \in ToSet(owners[i])}
      BY DEF ToSet, ownerKeys
    <2> QED  BY <2>2, <2>3
  <1>2. ASSUME NEW i \in DOMAIN rows, NEW o \in ToSet(owners[i])
        PROVE  keyOK(field, key(o)) /\ labelOf(field, key(o)) = <<o.team, o.component>>
    <2>1. key(o).kind = "string" /\ key(o).v = OwnerKey(o.team, o.component)  BY DEF Value
    <2> HIDE DEF key
    <2> QED  BY <2>1 DEF keyOK, strKey, labelOf, Splits
  <1>3. \A o, p : <<o.team, o.component>> = <<p.team, p.component>> => key(o) = key(p)
    <2> SUFFICES ASSUME NEW o, NEW p, <<o.team, o.component>> = <<p.team, p.component>>  PROVE key(o) = key(p)
      OBVIOUS
    <2>1. o.team = p.team /\ o.component = p.component  OBVIOUS
    <2> QED  BY <2>1
  <1> HIDE DEF key
  <1>4. ToldApart(rows, field)
    <2> SUFFICES ASSUME NEW i \in DOMAIN rows, NEW j \in DOMAIN rows,
                        NEW k \in keysAt(rows[i], field), NEW l \in keysAt(rows[j], field)
                 PROVE  keyOK(field, k) /\ (labelOf(field, k) = labelOf(field, l) => k = l)
      BY DEF ToldApart
    <2>1. PICK o \in ToSet(owners[i]) : k = key(o)  BY <1>1
    <2>2. PICK p \in ToSet(owners[j]) : l = key(p)  BY <1>1
    <2> QED  BY <1>2, <1>3, <2>1, <2>2
  <1>5. ASSUME NEW i \in DOMAIN rows  PROVE labelsAt(rows[i], field) = ownerLabels(owners[i])
    <2>1. labelsAt(rows[i], field) = {labelOf(field, key(o)) : o \in ToSet(owners[i])}
      BY <1>1 DEF labelsAt
    <2> QED  BY <1>2, <2>1 DEF ownerLabels
  <1> QED  BY <1>4, <1>5 DEF Dated

\* Rows that say of a store's rows what a metric should.
Says(m, store, rows) ==
    \A i \in DOMAIN rows :
        /\ \A labels : labels \in labelsOf(m, store, i) <=>
               /\ isOver(labels, fieldsOf(m))
               /\ \A f \in fieldsOf(m) : labels[f] \in labelsAt(rows[i], f)
        /\ rows[i][valueField(m)].v = observed(m, store, i)

\* The rows that a metric is about.
rowsOf(m, store) ==
    CASE m = "pr_cycle_time" -> store.prs [] m = "workflow_run_duration" -> store.runs [] OTHER -> store.tasks

\* Then the series are what they should be.
LEMMA SeriesAreExpected ==
    ASSUME NEW m, NEW store, NEW rows, DOMAIN rows = DOMAIN rowsOf(m, store), Says(m, store, rows),
           fieldsOf(m) # {}
    PROVE  seriesFrom(m, rows) = expectedOf(m, store)
  <1> DEFINE F == fieldsOf(m)
             value == valuesOf(rows, valueField(m))
             all == DOMAIN rows
             of(labels) == {i \in all : labels \in labelsOf(m, store, i)}
             what(labels) ==
                 [labels |-> labels, count |-> Cardinality(of(labels)),
                  sum |-> SumFunction([i \in of(labels) |-> observed(m, store, i)]),
                  buckets |-> [b \in ToSet(bounds[m]) |-> Cardinality({i \in of(labels) : observed(m, store, i) <= b})]]
  <1>1. expectedOf(m, store) = {what(labels) : labels \in UNION {labelsOf(m, store, i) : i \in all}}
    BY DEF expectedOf, rowsOf
  <1>2. seriesFrom(m, rows) = {seriesOf(m, labels, members(rows, labels), value) : labels \in labellings(rows, F)}
    BY DEF seriesFrom, seriesAt
  <1>3. \A i \in all : value[i] = observed(m, store, i)  BY DEF valuesOf, Says
  <1>4. ASSUME NEW labels, isOver(labels, F)  PROVE members(rows, labels) = of(labels)
    <2>1. DOMAIN labels = F  BY <1>4 DEF isOver
    <2>2. \A i \in all : labels \in labelsOf(m, store, i) <=> \A f \in F : labels[f] \in labelsAt(rows[i], f)
      BY <1>4 DEF Says
    <2> QED  BY <2>1, <2>2 DEF members
  <1>5. \A labels : labels \in labellings(rows, F) <=> labels \in UNION {labelsOf(m, store, i) : i \in all}
    <2> SUFFICES ASSUME NEW labels
                 PROVE  labels \in labellings(rows, F) <=> \E i \in all : labels \in labelsOf(m, store, i)
      OBVIOUS
    <2>1. \A i \in all : labels \in labelsOf(m, store, i) => isOver(labels, F)  BY DEF Says
    <2>2. labels \in labellings(rows, F) <=> isOver(labels, F) /\ members(rows, labels) # {}
      BY Labellings
    <2>3. isOver(labels, F) => (members(rows, labels) # {} <=> \E i \in all : labels \in labelsOf(m, store, i))
      BY <1>4
    <2> QED  BY <2>1, <2>2, <2>3
  <1>6. labellings(rows, F) = UNION {labelsOf(m, store, i) : i \in all}  BY <1>5
  <1>7. ASSUME NEW labels \in labellings(rows, F)
        PROVE  seriesOf(m, labels, members(rows, labels), value) = what(labels)
    <2> PICK group : group = members(rows, labels)
      OBVIOUS
    <2>1. group = of(labels)  BY <1>4, Labellings
    <2>2. group \subseteq all  BY DEF members
    <2>3. \A i \in group : value[i] = observed(m, store, i)  BY <1>3, <2>2
    <2> HIDE DEF value, of, all
    <2>4. [i \in group |-> value[i]] = [i \in group |-> observed(m, store, i)]  BY <2>3
    <2>5. \A b : {i \in group : value[i] <= b} = {i \in group : observed(m, store, i) <= b}  BY <2>3
    <2>6. [b \in ToSet(bounds[m]) |-> Cardinality({i \in group : value[i] <= b})] =
              [b \in ToSet(bounds[m]) |-> Cardinality({i \in group : observed(m, store, i) <= b})]
      BY <2>5
    <2>7. seriesOf(m, labels, group, value) =
              [labels |-> labels, count |-> Cardinality(group),
               sum |-> SumFunction([i \in group |-> observed(m, store, i)]),
               buckets |-> [b \in ToSet(bounds[m]) |-> Cardinality({i \in group : observed(m, store, i) <= b})]]
      BY <2>4, <2>6 DEF seriesOf, total, within
    <2> QED  BY <2>1, <2>7
  <1> HIDE DEF what
  <1> QED  BY <1>1, <1>2, <1>6, <1>7

\* What the queries run over can be walked and measured, and says what it should.
Faithful(m, store) ==
    LET rows == items(m, store)
    IN /\ DOMAIN rows = DOMAIN rowsOf(m, store)
       /\ Walkable(rows, fieldsOf(m)) /\ Measured(rows, valueField(m))
       /\ Says(m, store, rows)

\* A list of rows has finitely many.
LEMMA RowsAreFinite ==
    ASSUME NEW list, list \in Seq(ToSet(list))
    PROVE  IsFiniteSet(DOMAIN list)
  <1>1. Len(list) \in Nat /\ DOMAIN list = 1..Len(list)  BY LenProperties
  <1> QED  BY <1>1, FS_Interval

\* So it is for pull requests,
LEMMA PullRequestsAreFaithful ==
    ASSUME NEW m, m = "pr_cycle_time", NEW store, store.prs \in Seq(ToSet(store.prs))
    PROVE  Faithful(m, store)
  <1> DEFINE rows == items(m, store)
  <1>1. rows = [i \in DOMAIN store.prs |-> projectPullRequest(store.prs[i], store.clock)]
    BY DEF items
  <1> HIDE DEF rows
  <1>2. DOMAIN rows = DOMAIN store.prs  BY <1>1
  <1>3. ASSUME NEW i \in DOMAIN rows
        PROVE  /\ {"repo_id", "state", "created_at", "cycle_time"} \subseteq DOMAIN rows[i]
               /\ rows[i]["repo_id"] = Value("string", store.prs[i].repo)
               /\ rows[i]["state"] = Value("string", store.prs[i].state)
               /\ rows[i]["created_at"] = Value("time", store.prs[i].created)
               /\ rows[i]["cycle_time"] = Value("float", prCycleTimeSeconds(store.prs[i], store.clock))
    <2>1. rows[i] = projectPullRequest(store.prs[i], store.clock)  BY <1>1
    <2> QED  BY <2>1 DEF projectPullRequest
  <1>4. \A i \in DOMAIN rows :
            /\ rows[i]["repo_id"].v = store.prs[i].repo /\ rows[i]["state"].v = store.prs[i].state
            /\ rows[i]["created_at"].v = store.prs[i].created
            /\ rows[i]["cycle_time"].v = prCycleTimeSeconds(store.prs[i], store.clock)
            /\ rows[i]["cycle_time"].kind = "float"
    BY <1>3, ValueIs
  <1>5. ASSUME NEW f \in {"repo_id", "state"}
        PROVE  /\ Dated(rows, f) /\ ToldApart(rows, f)
               /\ \A i \in DOMAIN rows : labelsAt(rows[i], f) = {rows[i][f].v}
    <2>1. \A i \in DOMAIN rows : f \in DOMAIN rows[i] /\ rows[i][f] = Value(kindOf(f), rows[i][f].v)
      BY <1>3, <1>4 DEF kindOf
    <2> QED  BY <2>1, PlainField
  <1>6. /\ Dated(rows, "created_at") /\ ToldApart(rows, "created_at")
        /\ \A i \in DOMAIN rows : labelsAt(rows[i], "created_at") = {rows[i]["created_at"].v \div 720}
    BY <1>3, <1>4, DateField
  <1>7. fieldsOf(m) = {"repo_id", "created_at", "state"} /\ valueField(m) = "cycle_time"
    BY DEF fieldsOf, prCycleFields, valueField
  <1>8. Walkable(rows, fieldsOf(m))  BY <1>5, <1>6, <1>7 DEF Walkable
  <1>9. Measured(rows, valueField(m))
    BY <1>2, <1>3, <1>4, <1>7, RowsAreFinite DEF Measured
  <1>10. Says(m, store, rows)
    <2> SUFFICES ASSUME NEW i \in DOMAIN rows
                 PROVE  /\ \A labels : labels \in labelsOf(m, store, i) <=>
                               /\ isOver(labels, fieldsOf(m))
                               /\ \A f \in fieldsOf(m) : labels[f] \in labelsAt(rows[i], f)
                        /\ rows[i][valueField(m)].v = observed(m, store, i)
      BY DEF Says
    <2> DEFINE l == [repo_id |-> store.prs[i].repo, created_at |-> store.prs[i].created \div 720,
                     state |-> store.prs[i].state]
    <2>1. labelsOf(m, store, i) = {l}  BY DEF labelsOf
    <2>2. /\ labelsAt(rows[i], "repo_id") = {l["repo_id"]} /\ labelsAt(rows[i], "created_at") = {l["created_at"]}
          /\ labelsAt(rows[i], "state") = {l["state"]}
      BY <1>4, <1>5, <1>6
    <2>3. isOver(l, fieldsOf(m))  BY <1>7 DEF isOver
    <2> HIDE DEF l
    <2>4. ASSUME NEW labels, isOver(labels, fieldsOf(m)),
                 \A f \in fieldsOf(m) : labels[f] \in labelsAt(rows[i], f)
          PROVE  labels = l
      <3>1. \A f \in fieldsOf(m) : labels[f] = l[f]  BY <1>7, <2>2, <2>4
      <3> QED  BY <2>3, <2>4, <3>1 DEF isOver
    <2>5. \A f \in fieldsOf(m) : l[f] \in labelsAt(rows[i], f)  BY <1>7, <2>2
    <2>6. rows[i][valueField(m)].v = observed(m, store, i)  BY <1>4, <1>7 DEF observed
    <2> QED  BY <2>1, <2>3, <2>4, <2>5, <2>6
  <1> QED  BY <1>2, <1>8, <1>9, <1>10 DEF Faithful, rowsOf, rows

\* for runs, each of which has the labels of every pair that owns it,
LEMMA WorkflowRunsAreFaithful ==
    ASSUME NEW m, m = "workflow_run_duration", NEW store, store.runs \in Seq(ToSet(store.runs)),
           \A r \in ToSet(store.runs) : Splits(r.owners)
    PROVE  Faithful(m, store)
  <1> DEFINE rows == items(m, store)
             owners == [i \in DOMAIN store.runs |-> store.runs[i].owners]
  <1>1. rows = [i \in DOMAIN store.runs |-> projectWorkflowRun(store.runs[i])]
    BY DEF items
  <1> HIDE DEF rows
  <1>2. DOMAIN rows = DOMAIN store.runs  BY <1>1
  <1>3. ASSUME NEW i \in DOMAIN rows
        PROVE  /\ {"owner", "workflow_id", "workflow_name", "branch", "status", "duration"} \subseteq DOMAIN rows[i]
               /\ rows[i]["owner"] = Value("list", ownerKeys(store.runs[i].owners))
               /\ rows[i]["workflow_id"] = Value("string", store.runs[i].workflow)
               /\ rows[i]["workflow_name"] = Value("string", store.runs[i].name)
               /\ rows[i]["branch"] = Value("string", store.runs[i].branch)
               /\ rows[i]["status"] = Value("string", store.runs[i].status)
               /\ rows[i]["duration"] = Value("float", store.runs[i].duration)
    <2>1. rows[i] = projectWorkflowRun(store.runs[i])  BY <1>1
    <2> QED  BY <2>1 DEF projectWorkflowRun
  <1>4. \A i \in DOMAIN rows :
            /\ rows[i]["workflow_id"].v = store.runs[i].workflow /\ rows[i]["workflow_name"].v = store.runs[i].name
            /\ rows[i]["branch"].v = store.runs[i].branch /\ rows[i]["status"].v = store.runs[i].status
            /\ rows[i]["duration"].v = store.runs[i].duration /\ rows[i]["duration"].kind = "float"
    BY <1>3, ValueIs
  <1>5. ASSUME NEW f \in {"workflow_id", "workflow_name", "branch", "status"}
        PROVE  /\ Dated(rows, f) /\ ToldApart(rows, f)
               /\ \A i \in DOMAIN rows : labelsAt(rows[i], f) = {rows[i][f].v}
    <2>1. \A i \in DOMAIN rows : f \in DOMAIN rows[i] /\ rows[i][f] = Value(kindOf(f), rows[i][f].v)
      BY <1>3, <1>4 DEF kindOf
    <2> QED  BY <2>1, PlainField
  <1>6. /\ Dated(rows, "owner") /\ ToldApart(rows, "owner")
        /\ \A i \in DOMAIN rows : labelsAt(rows[i], "owner") = ownerLabels(store.runs[i].owners)
    <2>1. \A i \in DOMAIN rows : owners[i] = store.runs[i].owners  BY <1>2
    <2>2. \A i \in DOMAIN rows : Splits(store.runs[i].owners)  BY <1>2 DEF ToSet
    <2> HIDE DEF owners
    <2>3. \A i \in DOMAIN rows : /\ "owner" \in DOMAIN rows[i] /\ rows[i]["owner"] = Value("list", ownerKeys(owners[i]))
                                 /\ Splits(owners[i])
      BY <1>3, <2>1, <2>2
    <2> QED  BY <2>1, <2>3, OwnerField
  <1>7. fieldsOf(m) = {"owner", "workflow_id", "workflow_name", "branch", "status"} /\ valueField(m) = "duration"
    BY DEF fieldsOf, workflowRunFields, valueField
  <1>8. Walkable(rows, fieldsOf(m))  BY <1>5, <1>6, <1>7 DEF Walkable
  <1>9. Measured(rows, valueField(m))
    BY <1>2, <1>3, <1>4, <1>7, RowsAreFinite DEF Measured
  <1>10. Says(m, store, rows)
    <2> SUFFICES ASSUME NEW i \in DOMAIN rows
                 PROVE  /\ \A labels : labels \in labelsOf(m, store, i) <=>
                               /\ isOver(labels, fieldsOf(m))
                               /\ \A f \in fieldsOf(m) : labels[f] \in labelsAt(rows[i], f)
                        /\ rows[i][valueField(m)].v = observed(m, store, i)
      BY DEF Says
    <2> DEFINE r == store.runs[i]
               l(o) == [owner |-> <<o.team, o.component>>, workflow_id |-> r.workflow,
                        workflow_name |-> r.name, branch |-> r.branch, status |-> r.status]
    <2>1. labelsOf(m, store, i) = {l(o) : o \in ToSet(r.owners)}  BY DEF labelsOf
    <2>2. \A o : /\ labelsAt(rows[i], "workflow_id") = {l(o)["workflow_id"]}
                 /\ labelsAt(rows[i], "workflow_name") = {l(o)["workflow_name"]}
                 /\ labelsAt(rows[i], "branch") = {l(o)["branch"]} /\ labelsAt(rows[i], "status") = {l(o)["status"]}
      BY <1>4, <1>5
    <2>3. \A o : isOver(l(o), fieldsOf(m)) /\ l(o)["owner"] = <<o.team, o.component>>
      BY <1>7 DEF isOver
    <2> HIDE DEF l
    <2>4. labelsAt(rows[i], "owner") = {<<o.team, o.component>> : o \in ToSet(r.owners)}
      BY <1>6 DEF ownerLabels
    <2>5. ASSUME NEW labels, isOver(labels, fieldsOf(m)),
                 \A f \in fieldsOf(m) : labels[f] \in labelsAt(rows[i], f)
          PROVE  labels \in labelsOf(m, store, i)
      <3>1. PICK o \in ToSet(r.owners) : labels["owner"] = <<o.team, o.component>>  BY <1>7, <2>4, <2>5
      <3>2. \A f \in fieldsOf(m) : labels[f] = l(o)[f]  BY <1>7, <2>2, <2>3, <2>5, <3>1
      <3>3. labels = l(o)  BY <2>3, <2>5, <3>2 DEF isOver
      <3> QED  BY <2>1, <3>3
    <2>6. ASSUME NEW labels \in labelsOf(m, store, i)
          PROVE  isOver(labels, fieldsOf(m)) /\ \A f \in fieldsOf(m) : labels[f] \in labelsAt(rows[i], f)
      <3>1. PICK o \in ToSet(r.owners) : labels = l(o)  BY <2>1
      <3> QED  BY <1>7, <2>2, <2>3, <2>4, <3>1
    <2>7. rows[i][valueField(m)].v = observed(m, store, i)  BY <1>4, <1>7 DEF observed
    <2> QED  BY <2>5, <2>6, <2>7
  <1> QED  BY <1>2, <1>8, <1>9, <1>10 DEF Faithful, rowsOf, rows

\* and for tasks.
LEMMA WorkflowTasksAreFaithful ==
    ASSUME NEW m, m = "workflow_task_duration", NEW store, store.tasks \in Seq(ToSet(store.tasks)),
           \A t \in ToSet(store.tasks) : Splits(t.owners)
    PROVE  Faithful(m, store)
  <1> DEFINE rows == items(m, store)
             owners == [i \in DOMAIN store.tasks |-> store.tasks[i].owners]
  <1>1. rows = [i \in DOMAIN store.tasks |-> projectWorkflowTask(store.tasks[i])]
    BY DEF items
  <1> HIDE DEF rows
  <1>2. DOMAIN rows = DOMAIN store.tasks  BY <1>1
  <1>3. ASSUME NEW i \in DOMAIN rows
        PROVE  /\ {"owner", "workflow_id", "workflow_name", "branch", "task_name", "task_order", "status",
                   "duration"} \subseteq DOMAIN rows[i]
               /\ rows[i]["owner"] = Value("list", ownerKeys(store.tasks[i].owners))
               /\ rows[i]["workflow_id"] = Value("string", store.tasks[i].workflow)
               /\ rows[i]["workflow_name"] = Value("string", store.tasks[i].name)
               /\ rows[i]["branch"] = Value("string", store.tasks[i].branch)
               /\ rows[i]["task_name"] = Value("string", store.tasks[i].task)
               /\ rows[i]["task_order"] = Value("int", store.tasks[i].order)
               /\ rows[i]["status"] = Value("string", store.tasks[i].status)
               /\ rows[i]["duration"] = Value("float", store.tasks[i].duration)
    <2>1. rows[i] = projectWorkflowTask(store.tasks[i])  BY <1>1
    <2> QED  BY <2>1 DEF projectWorkflowTask
  <1>4. \A i \in DOMAIN rows :
            /\ rows[i]["workflow_id"].v = store.tasks[i].workflow /\ rows[i]["workflow_name"].v = store.tasks[i].name
            /\ rows[i]["branch"].v = store.tasks[i].branch /\ rows[i]["task_name"].v = store.tasks[i].task
            /\ rows[i]["task_order"].v = store.tasks[i].order /\ rows[i]["status"].v = store.tasks[i].status
            /\ rows[i]["duration"].v = store.tasks[i].duration /\ rows[i]["duration"].kind = "float"
    BY <1>3, ValueIs
  <1>5. ASSUME NEW f \in {"workflow_id", "workflow_name", "branch", "task_name", "status"}
        PROVE  /\ Dated(rows, f) /\ ToldApart(rows, f)
               /\ \A i \in DOMAIN rows : labelsAt(rows[i], f) = {rows[i][f].v}
    <2>1. \A i \in DOMAIN rows : f \in DOMAIN rows[i] /\ rows[i][f] = Value(kindOf(f), rows[i][f].v)
      BY <1>3, <1>4 DEF kindOf
    <2> QED  BY <2>1, PlainField
  <1>order. /\ Dated(rows, "task_order") /\ ToldApart(rows, "task_order")
         /\ \A i \in DOMAIN rows : labelsAt(rows[i], "task_order") = {rows[i]["task_order"].v}
    <2>1. \A i \in DOMAIN rows : /\ "task_order" \in DOMAIN rows[i]
                                 /\ rows[i]["task_order"] = Value(kindOf("task_order"), rows[i]["task_order"].v)
      BY <1>3, <1>4 DEF kindOf
    <2> QED  BY <2>1, PlainField
  <1>6. /\ Dated(rows, "owner") /\ ToldApart(rows, "owner")
        /\ \A i \in DOMAIN rows : labelsAt(rows[i], "owner") = ownerLabels(store.tasks[i].owners)
    <2>1. \A i \in DOMAIN rows : owners[i] = store.tasks[i].owners  BY <1>2
    <2>2. \A i \in DOMAIN rows : Splits(store.tasks[i].owners)  BY <1>2 DEF ToSet
    <2> HIDE DEF owners
    <2>3. \A i \in DOMAIN rows : /\ "owner" \in DOMAIN rows[i] /\ rows[i]["owner"] = Value("list", ownerKeys(owners[i]))
                                 /\ Splits(owners[i])
      BY <1>3, <2>1, <2>2
    <2> QED  BY <2>1, <2>3, OwnerField
  <1>7. /\ fieldsOf(m) = {"owner", "workflow_id", "workflow_name", "branch", "task_name", "task_order", "status"}
        /\ valueField(m) = "duration"
    BY DEF fieldsOf, workflowTaskFields, valueField
  <1>8. Walkable(rows, fieldsOf(m))  BY <1>5, <1>order, <1>6, <1>7 DEF Walkable
  <1>9. Measured(rows, valueField(m))
    BY <1>2, <1>3, <1>4, <1>7, RowsAreFinite DEF Measured
  <1>10. Says(m, store, rows)
    <2> SUFFICES ASSUME NEW i \in DOMAIN rows
                 PROVE  /\ \A labels : labels \in labelsOf(m, store, i) <=>
                               /\ isOver(labels, fieldsOf(m))
                               /\ \A f \in fieldsOf(m) : labels[f] \in labelsAt(rows[i], f)
                        /\ rows[i][valueField(m)].v = observed(m, store, i)
      BY DEF Says
    <2> DEFINE t == store.tasks[i]
               l(o) == [owner |-> <<o.team, o.component>>, workflow_id |-> t.workflow, workflow_name |-> t.name,
                        branch |-> t.branch, task_name |-> t.task, task_order |-> t.order, status |-> t.status]
    <2>1. labelsOf(m, store, i) = {l(o) : o \in ToSet(t.owners)}  BY DEF labelsOf
    <2>2. \A o : /\ labelsAt(rows[i], "workflow_id") = {l(o)["workflow_id"]}
                 /\ labelsAt(rows[i], "workflow_name") = {l(o)["workflow_name"]}
                 /\ labelsAt(rows[i], "branch") = {l(o)["branch"]}
                 /\ labelsAt(rows[i], "task_name") = {l(o)["task_name"]}
                 /\ labelsAt(rows[i], "task_order") = {l(o)["task_order"]}
                 /\ labelsAt(rows[i], "status") = {l(o)["status"]}
      BY <1>4, <1>5, <1>order
    <2>3. \A o : isOver(l(o), fieldsOf(m)) /\ l(o)["owner"] = <<o.team, o.component>>
      BY <1>7 DEF isOver
    <2> HIDE DEF l
    <2>4. labelsAt(rows[i], "owner") = {<<o.team, o.component>> : o \in ToSet(t.owners)}
      BY <1>6 DEF ownerLabels
    <2>5. ASSUME NEW labels, isOver(labels, fieldsOf(m)),
                 \A f \in fieldsOf(m) : labels[f] \in labelsAt(rows[i], f)
          PROVE  labels \in labelsOf(m, store, i)
      <3>1. PICK o \in ToSet(t.owners) : labels["owner"] = <<o.team, o.component>>  BY <1>7, <2>4, <2>5
      <3>2. \A f \in fieldsOf(m) : labels[f] = l(o)[f]  BY <1>7, <2>2, <2>3, <2>5, <3>1
      <3>3. labels = l(o)  BY <2>3, <2>5, <3>2 DEF isOver
      <3> QED  BY <2>1, <3>3
    <2>6. ASSUME NEW labels \in labelsOf(m, store, i)
          PROVE  isOver(labels, fieldsOf(m)) /\ \A f \in fieldsOf(m) : labels[f] \in labelsAt(rows[i], f)
      <3>1. PICK o \in ToSet(t.owners) : labels = l(o)  BY <2>1
      <3> QED  BY <1>7, <2>2, <2>3, <2>4, <3>1
    <2>7. rows[i][valueField(m)].v = observed(m, store, i)  BY <1>4, <1>7 DEF observed
    <2> QED  BY <2>5, <2>6, <2>7
  <1> QED  BY <1>2, <1>8, <1>9, <1>10 DEF Faithful, rowsOf, rows

\* The series of a store are what they should be.
LEMMA SeriesIs ==
    ASSUME NEW m \in Metric, NEW v \in DOMAIN Stores
    PROVE  series[m][v] = expected[m][v]
  <1> DEFINE store == Stores[v]
             rows == items(m, store)
  <1>1. m \in {"pr_cycle_time", "workflow_run_duration", "workflow_task_duration"}
    BY MetricsAssumption DEF Metric, ToSet
  <1>2. series[m][v] = emit(m, EvaluateAggs(rows, queryOf(m)))
    BY DEF series, trees
  <1>3. expected[m][v] = expectedOf(m, store)  BY DEF expected
  <1>4. ASSUME NEW r \in ToSet(store.runs) \cup ToSet(store.tasks)  PROVE Splits(r.owners)
    <2> SUFFICES ASSUME NEW o \in ToSet(r.owners)
                 PROVE  SplitOwnerKey(OwnerKey(o.team, o.component)) = <<o.team, o.component>>
      BY DEF Splits
    <2>1. /\ o.team \in Seq(ToSet(o.team)) /\ "|" \notin ToSet(o.team)
          /\ o.component \in Seq(ToSet(o.component))
      BY SeriesAssumption
    <2> DEFINE S == ToSet(o.team) \cup ToSet(o.component) \cup {"|"}
    <2>2. o.team \in Seq(S) /\ o.component \in Seq(S)  BY <2>1
    <2> QED  BY <2>1, <2>2, OwnerKeySplits
  <1>5. Faithful(m, store)
    <2>1. /\ store.prs \in Seq(ToSet(store.prs))
          /\ store.runs \in Seq(ToSet(store.runs)) /\ store.tasks \in Seq(ToSet(store.tasks))
      BY SeriesAssumption
    <2> HIDE DEF store
    <2> QED  BY <1>1, <1>4, <2>1, PullRequestsAreFaithful, WorkflowRunsAreFaithful, WorkflowTasksAreFaithful
  <1>6. /\ DOMAIN rows = DOMAIN rowsOf(m, store)
        /\ Walkable(rows, fieldsOf(m)) /\ Measured(rows, valueField(m)) /\ Says(m, store, rows)
    BY <1>5 DEF Faithful
  <1>7. fieldsOf(m) # {}  BY DEF fieldsOf, prCycleFields, workflowRunFields, workflowTaskFields
  <1> HIDE DEF rows, store
  <1>8. seriesFrom(m, rows) = expectedOf(m, store)  BY <1>6, <1>7, SeriesAreExpected
  <1>9. emit(m, EvaluateAggs(rows, queryOf(m))) = seriesFrom(m, rows)
    <2>1. CASE m = "pr_cycle_time"
      BY <1>6, <2>1, EmitPRCycle DEF fieldsOf, valueField
    <2>2. CASE m = "workflow_run_duration"
      BY <1>6, <2>2, EmitWorkflowRun DEF fieldsOf, valueField
    <2>3. CASE m = "workflow_task_duration"
      BY <1>6, <2>3, EmitWorkflowTask DEF fieldsOf, valueField
    <2> QED  BY <1>1, <2>1, <2>2, <2>3
  <1> QED  BY <1>2, <1>3, <1>8, <1>9 DEF rows, store

\* Whatever refreshes run between the reads of a scrape, it shows the series of
\* one state of the store for every metric, for every store, query and schedule.
THEOREM ScrapeOneState == Spec => []ScrapeShowsOneState
  <1>1. IndInv => ScrapeShowsOneState
    <2> SUFFICES ASSUME IndInv, NEW m \in Metric
                 PROVE  \/ emitted(m, shown[m]) = IF shown[m].at = 0 THEN {} ELSE expected[m][shown[m].at]
                        \/ emitted(m, shown[m]) = {} /\ faults > 0
      BY DEF ScrapeShowsOneState
    <2> PICK c : c = shown[m]
      OBVIOUS
    <2>1. c \in Cached /\ now \in DOMAIN Stores
      BY DEF IndInv, TypeOK, Cached
    <2>2. c.at \in 0..now /\ c.arrived \in BOOLEAN  BY <2>1 DEF Cached
    <2>3. CASE c.at = 0
      BY <2>3 DEF emitted
    <2>4. CASE c.at # 0 /\ c.arrived
      <3>1. c.at \in DOMAIN Stores  BY <2>1, <2>2, <2>4, Numbers
      <3>2. series[m][c.at] = expected[m][c.at]  BY <3>1, SeriesIs
      <3> QED  BY <2>4, <3>2 DEF emitted
    <2>5. CASE c.at # 0 /\ ~c.arrived
      <3>1. faults > 0  BY <2>5 DEF IndInv, MissingTakesFault, missing
      <3> QED  BY <2>5, <3>1 DEF emitted
    <2> QED  BY <2>2, <2>3, <2>4, <2>5
  <1> QED  BY <1>1, IndInvHolds, PTL
=============================================================================
