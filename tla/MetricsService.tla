--------------------------- MODULE MetricsService ---------------------------
(***************************************************************************)
(* MetricsService (internal/metrics/service.go): a refresh loop for each   *)
(* of three metrics asks the domain for an aggregation and caches the      *)
(* tree; a Prometheus scrape reads the three caches one after the other.   *)
(* Also the start and the shutdown of its HTTP server.                     *)
(*                                                                         *)
(* The domain's store goes through the states Stores; an aggregation is    *)
(* computed from one of them, and named by its index here: the memory      *)
(* repository takes all it needs under one lock.  (SQLite reads table by   *)
(* table, which SQLiteQueries models.)  What is in the trees and which     *)
(* histograms a scrape makes of them is MetricsSeries'.                    *)
(* Scrapes do not interact, so there is one at a time.  The lengths of the *)
(* loops' intervals (a backoff from 2 s up to the refresh interval) are    *)
(* abstracted: a timer fires at any time.  Refresh, which only tests call, *)
(* is left out.                                                            *)
(***************************************************************************)
EXTENDS Integers, SequencesExt

CONSTANTS Metrics,    \* the metrics served, in the order Collect reads them
          Stores,     \* the states of the store, in order
          MaxFaults   \* bound on failed and garbled calls

Metric == ToSet(Metrics)

ASSUME MetricsAssumption ==
    /\ Metrics \in Seq({"pr_cycle_time", "workflow_run_duration", "workflow_task_duration"})
    /\ Stores \in Seq(ToSet(Stores)) /\ Stores # <<>>
    /\ MaxFaults \in Nat

VARIABLES now,        \* index of the store's state
          loop,       \* metric -> "starting", "waiting", "refreshing" or "stopped"
          calls,      \* metric -> its calls to the domain: 0, or the state that answers
          cache,      \* metric -> the state of its tree (0: none), and whether it arrived
          server,     \* "new", "serving", "failed" or "closing"
          scrape,     \* metrics the running scrape has read, plus one; 0: no scrape
          shown,      \* metric -> what the running scrape has read from its cache
          cancelled,  \* the context has ended
          returned,   \* Run has returned
          faults

loops == <<loop, calls, cache>>
http == <<server, scrape, shown>>
vars == <<now, loops, http, cancelled, returned, faults>>

Nothing == [at |-> 0, arrived |-> FALSE]

Init ==
    /\ now = 1
    /\ loop = [m \in Metric |-> "starting"]
    /\ calls = [m \in Metric |-> <<>>]
    /\ cache = [m \in Metric |-> Nothing]
    /\ server = "new" /\ scrape = 0 /\ shown = [m \in Metric |-> Nothing]
    /\ cancelled = FALSE /\ returned = FALSE /\ faults = 0

fault == faults < MaxFaults /\ faults' = faults + 1

-----------------------------------------------------------------------------
\* The domain (external).

Change ==
    /\ now < Len(Stores) /\ now' = now + 1
    /\ UNCHANGED <<loops, http, cancelled, returned, faults>>

Serve(m) ==
    /\ \E i \in DOMAIN calls[m] : calls[m][i] = 0 /\ calls' = [calls EXCEPT ![m][i] = now]
    /\ UNCHANGED <<now, loop, cache, http, cancelled, returned, faults>>

-----------------------------------------------------------------------------
\* runMetricLoop.

\* Mutant: the loop does not wait for a refresh before the next tick.
Tick_Concurrent(m) ==
    /\ loop[m] \in {"starting", "waiting"} /\ Len(calls[m]) < 2
    /\ loop' = [loop EXCEPT ![m] = "waiting"]
    /\ calls' = [calls EXCEPT ![m] = Append(@, 0)]
    /\ UNCHANGED <<now, cache, http, cancelled, returned, faults>>

\* The first refresh at once, later ones when the timer fires.  Both cases of
\* the select may be ready, so a tick can come after the end of the context.
Tick(m) ==
    /\ loop[m] \in {"starting", "waiting"}
    /\ loop' = [loop EXCEPT ![m] = "refreshing"]
    /\ calls' = [calls EXCEPT ![m] = Append(@, 0)]
    /\ UNCHANGED <<now, cache, http, cancelled, returned, faults>>

endCall(m, i) ==
    /\ calls' = [calls EXCEPT ![m] = RemoveAt(@, i)]
    /\ loop' = [loop EXCEPT ![m] = "waiting"]

\* refreshPRCycle, refreshWorkflowRun, refreshWorkflowTask.
Answer(m) ==
    \E i \in DOMAIN calls[m] :
        /\ calls[m][i] # 0
        /\ endCall(m, i)
        /\ \/ /\ cache' = [cache EXCEPT ![m] = [at |-> calls[m][i], arrived |-> TRUE]]
              /\ UNCHANGED faults
           \/ /\ fault
              /\ cache' = [cache EXCEPT ![m] = [at |-> calls[m][i], arrived |-> FALSE]]
        /\ UNCHANGED <<now, http, cancelled, returned>>

\* Mutant: a failed refresh ends the loop.
Fail_EndsLoop(m) ==
    /\ calls[m] # <<>>
    /\ IF cancelled THEN UNCHANGED faults ELSE fault
    /\ calls' = [calls EXCEPT ![m] = <<>>] /\ loop' = [loop EXCEPT ![m] = "stopped"]
    /\ UNCHANGED <<now, cache, http, cancelled, returned>>

\* The call fails, times out, or ends with the context: the cache stays.
Fail(m) ==
    /\ IF cancelled THEN UNCHANGED faults ELSE fault
    /\ \E i \in DOMAIN calls[m] : endCall(m, i)
    /\ UNCHANGED <<now, cache, http, cancelled, returned>>

Stop(m) ==
    /\ cancelled /\ loop[m] = "waiting"
    /\ loop' = [loop EXCEPT ![m] = "stopped"]
    /\ UNCHANGED <<now, calls, cache, http, cancelled, returned, faults>>

Loop(m) == Tick(m) \/ Serve(m) \/ Answer(m)

-----------------------------------------------------------------------------
\* The HTTP server and Collect.

\* A server that cannot listen is logged; the loops go on.
Listen ==
    /\ server = "new"
    /\ \/ server' = "serving" /\ UNCHANGED faults
       \/ server' = "failed" /\ fault
    /\ UNCHANGED <<now, loops, scrape, shown, cancelled, returned>>

StartScrape ==
    /\ server = "serving" /\ scrape = 0
    /\ scrape' = 1
    /\ UNCHANGED <<now, loops, server, shown, cancelled, returned, faults>>

\* The next cache is loaded, and its tree emitted if there is one.
Collect ==
    /\ scrape \in DOMAIN Metrics
    /\ scrape' = scrape + 1
    /\ shown' = [shown EXCEPT ![Metrics[scrape]] = cache[Metrics[scrape]]]
    /\ UNCHANGED <<now, loops, server, cancelled, returned, faults>>

EndScrape ==
    /\ scrape = Len(Metrics) + 1
    /\ scrape' = 0 /\ shown' = [m \in Metric |-> Nothing]
    /\ UNCHANGED <<now, loops, server, cancelled, returned, faults>>

-----------------------------------------------------------------------------
\* Run.

Cancel ==
    /\ ~cancelled
    /\ cancelled' = TRUE
    /\ UNCHANGED <<now, loops, http, returned, faults>>

\* Mutant: Run waits for a server nobody shuts down; only a failed one ends.
Shutdown_Forgotten ==
    /\ cancelled /\ server = "failed"
    /\ server' = "closing"
    /\ UNCHANGED <<now, loops, scrape, shown, cancelled, returned, faults>>

\* No connection is accepted any more.
Shutdown ==
    /\ cancelled /\ server # "closing"
    /\ server' = "closing"
    /\ UNCHANGED <<now, loops, scrape, shown, cancelled, returned, faults>>

\* Mutant: Run returns without waiting for its goroutines.
Return_WithoutWait ==
    /\ server = "closing" /\ scrape = 0 /\ ~returned
    /\ returned' = TRUE
    /\ UNCHANGED <<now, loops, http, cancelled, faults>>

\* Shutdown waits for the scrape that runs, and the wait group for the loops.
Return ==
    /\ server = "closing" /\ scrape = 0 /\ ~returned
    /\ \A m \in Metric : loop[m] = "stopped"
    /\ returned' = TRUE
    /\ UNCHANGED <<now, loops, http, cancelled, faults>>

-----------------------------------------------------------------------------
Next ==
    \/ Change \/ Listen \/ StartScrape \/ Collect \/ EndScrape
    \/ Cancel \/ Shutdown \/ Return
    \/ \E m \in Metric : Loop(m) \/ Fail(m) \/ Stop(m)

\* Timers fire and calls end; the server's goroutines run.  A select with two
\* ready cases picks either in the end.
Fairness ==
    /\ WF_vars(Listen) /\ WF_vars(Collect) /\ WF_vars(EndScrape)
    /\ WF_vars(Shutdown) /\ WF_vars(Return)
    /\ \A m \in Metric : WF_vars(Loop(m)) /\ SF_vars(Stop(m))

Spec == Init /\ [][Next]_vars /\ Fairness

-----------------------------------------------------------------------------
\* A loop has one call at a time, and nothing of the service runs once Run has
\* returned.
TypeOK ==
    /\ now \in DOMAIN Stores
    /\ loop \in [Metric -> {"starting", "waiting", "refreshing", "stopped"}]
    /\ calls \in [Metric -> Seq(0..now)]
    /\ {cache, shown} \subseteq [Metric -> [at : 0..now, arrived : BOOLEAN]]
    /\ server \in {"new", "serving", "failed", "closing"}
    /\ scrape \in 0..(Len(Metrics) + 1)
    /\ cancelled \in BOOLEAN /\ returned \in BOOLEAN /\ faults \in 0..MaxFaults
    /\ \A m \in Metric : Len(calls[m]) = IF loop[m] = "refreshing" THEN 1 ELSE 0
    /\ returned => scrape = 0 /\ \A m \in Metric : loop[m] = "stopped"

\* A slow refresh never overwrites the result of a later one: scrapes do not
\* jump back in time.
CacheNeverGoesBack == [][\A m \in Metric : cache'[m].at >= cache[m].at]_vars

\* Failed, late and lost answers delay a metric but do not end it: until the
\* service is stopped, every state of the store or a later one gets cached.
CatchesUp ==
    \A m \in Metric, v \in DOMAIN Stores :
        now = v ~> (cache[m].at >= v /\ cache[m].arrived) \/ cancelled

\* Run returns once its context ends, though a tick may come before the end is
\* seen, a call may be running, the server may not have started or have failed.
StopsWhenCancelled == cancelled ~> returned
=============================================================================
