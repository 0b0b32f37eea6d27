---------------------------- MODULE MetricsSeries ----------------------------
(***************************************************************************)
(* What a scrape of MetricsService shows: the rows of the store projected  *)
(* (internal/domain/repo/projection.go), aggregated by the three nested    *)
(* queries, and the cached tree walked into histograms                     *)
(* (internal/metrics/service.go).                                          *)
(***************************************************************************)
EXTENDS MetricsService, Aggregator

CONSTANT bounds       \* metric -> the bucket boundaries of its histograms

-----------------------------------------------------------------------------
\* What the aggregations run over (repo/projection.go).

ownerKeys(owners) == [i \in DOMAIN owners |-> OwnerKey(owners[i].team, owners[i].component)]

\* An open pull request's cycle lasts until now.
prCycleTimeSeconds(pr, clock) ==
    (IF pr.state \in {"MERGED", "DECLINED"} THEN pr.updated ELSE clock) - pr.created

projectPullRequest(pr, clock) ==
    [repo_id |-> Value("string", pr.repo), state |-> Value("string", pr.state),
     created_at |-> Value("time", pr.created),
     cycle_time |-> Value("float", prCycleTimeSeconds(pr, clock))]

projectWorkflowRun(r) ==
    [owner |-> Value("list", ownerKeys(r.owners)), workflow_id |-> Value("string", r.workflow),
     workflow_name |-> Value("string", r.name), branch |-> Value("string", r.branch),
     status |-> Value("string", r.status), duration |-> Value("float", r.duration)]

projectWorkflowTask(t) ==
    [owner |-> Value("list", ownerKeys(t.owners)), workflow_id |-> Value("string", t.workflow),
     workflow_name |-> Value("string", t.name), branch |-> Value("string", t.branch),
     task_name |-> Value("string", t.task), task_order |-> Value("int", t.order),
     status |-> Value("string", t.status), duration |-> Value("float", t.duration)]

items(m, store) ==
    CASE m = "pr_cycle_time" ->
             [i \in DOMAIN store.prs |-> projectPullRequest(store.prs[i], store.clock)]
      [] m = "workflow_run_duration" -> [i \in DOMAIN store.runs |-> projectWorkflowRun(store.runs[i])]
      [] OTHER -> [i \in DOMAIN store.tasks |-> projectWorkflowTask(store.tasks[i])]

-----------------------------------------------------------------------------
\* The queries: groupings with a histogram at their end.  An aggregation is named
\* after its field.
nest(field, aggs) ==
    [name \in {field} |->
        [op |-> IF name = "created_at" THEN "date_histogram" ELSE "terms",
         field |-> name, interval |-> "month", aggs |-> aggs]]
leaf(field, m) ==
    [name \in {field} |-> [op |-> "histogram", field |-> name, bounds |-> bounds[m], aggs |-> <<>>]]

prCycleQuery ==
    nest("repo_id", nest("created_at", nest("state", leaf("cycle_time", "pr_cycle_time"))))

byOwner(aggs) == nest("owner", nest("workflow_id", nest("workflow_name", nest("branch", aggs))))
workflowRunQuery == byOwner(nest("status", leaf("duration", "workflow_run_duration")))
workflowTaskQuery ==
    byOwner(nest("task_name", nest("task_order", nest("status", leaf("duration", "workflow_task_duration")))))

queryOf(m) ==
    CASE m = "pr_cycle_time" -> prCycleQuery
      [] m = "workflow_run_duration" -> workflowRunQuery
      [] OTHER -> workflowTaskQuery

\* The answers to the queries.
trees == [m \in Metric |-> [v \in DOMAIN Stores |-> EvaluateAggs(items(m, Stores[v]), queryOf(m))]]

-----------------------------------------------------------------------------
\* The trees as series.  Labels are named after the fields; owner stands for the
\* labels of team and component.

\* Numbers come out of JSON as floats; intKey takes both.
intKey(key) == key.kind \in {"int", "float"}
strKey(key) == key.kind = "string"

keyOK(field, key) == IF field = "task_order" THEN intKey(key) ELSE strKey(key)
labelOf(field, key) == IF field = "owner" THEN SplitOwnerKey(key.v) ELSE key.v

label(labels, field, l) == [f \in DOMAIN labels \cup {field} |-> IF f = field THEN l ELSE labels[f]]

\* The loop over the buckets of an aggregation, for each place it is at in the tree.
\* A key of the wrong type ends the emission, and one that is no owner's is passed
\* over.  The keys of the three queries are all of the right type, and owner keys
\* all have a separator; what was emitted before is therefore left out.
start(result) == {[labels |-> <<>>, aggs |-> result]}
each(places, field) ==
    UNION {{[labels |-> label(p.labels, field, labelOf(field, b.key)), aggs |-> b.aggs]
              : b \in {x \in p.aggs[field].buckets : keyOK(field, x.key)}} : p \in places}

extractBucketMap(agg) ==
    [upper \in {b.key.v : b \in agg.buckets} |->
        (CHOOSE b \in agg.buckets : b.key.v = upper).docCount]

histograms(places, field) ==
    {[labels |-> p.labels, count |-> p.aggs[field].docCount, sum |-> p.aggs[field].sum,
      buckets |-> extractBucketMap(p.aggs[field])] : p \in places}

emitPRCycleTree(result) ==
    histograms(each(each(each(start(result), "repo_id"), "created_at"), "state"), "cycle_time")

eachBranch(result) ==
    each(each(each(each(start(result), "owner"), "workflow_id"), "workflow_name"), "branch")
emitWorkflowRunTree(result) == histograms(each(eachBranch(result), "status"), "duration")
emitWorkflowTaskTree(result) ==
    histograms(each(each(each(eachBranch(result), "task_name"), "task_order"), "status"), "duration")

emit(m, result) ==
    CASE m = "pr_cycle_time" -> emitPRCycleTree(result)
      [] m = "workflow_run_duration" -> emitWorkflowRunTree(result)
      [] OTHER -> emitWorkflowTaskTree(result)

series == [m \in Metric |-> [v \in DOMAIN Stores |-> emit(m, trees[m][v])]]

\* Nothing is emitted for a tree that is not there.  A lost reply leaves a done
\* message, which the query client takes for a result without aggregations.
emitted(m, c) == IF c.at # 0 /\ c.arrived THEN series[m][c.at] ELSE {}

-----------------------------------------------------------------------------
\* What a metric should say of a store: each run or task counts for each of the
\* pairs that own it, each pull request for its repo.
labelsOf(m, store, i) ==
    CASE m = "pr_cycle_time" ->
             LET pr == store.prs[i]
             IN {[repo_id |-> pr.repo, created_at |-> pr.created \div 720, state |-> pr.state]}
      [] m = "workflow_run_duration" ->
             LET r == store.runs[i]
             IN {[owner |-> <<o.team, o.component>>, workflow_id |-> r.workflow, workflow_name |-> r.name,
                  branch |-> r.branch, status |-> r.status] : o \in ToSet(r.owners)}
      [] OTHER ->
             LET t == store.tasks[i]
             IN {[owner |-> <<o.team, o.component>>, workflow_id |-> t.workflow, workflow_name |-> t.name,
                  branch |-> t.branch, task_name |-> t.task, task_order |-> t.order, status |-> t.status]
                   : o \in ToSet(t.owners)}

observed(m, store, i) ==
    CASE m = "pr_cycle_time" -> prCycleTimeSeconds(store.prs[i], store.clock)
      [] m = "workflow_run_duration" -> store.runs[i].duration
      [] OTHER -> store.tasks[i].duration

expectedOf(m, store) ==
    LET all == DOMAIN (CASE m = "pr_cycle_time" -> store.prs [] m = "workflow_run_duration" -> store.runs
                         [] OTHER -> store.tasks)
        of(L) == {i \in all : L \in labelsOf(m, store, i)}
    IN {[labels |-> L, count |-> Cardinality(of(L)),
         sum |-> SumFunction([i \in of(L) |-> observed(m, store, i)]),
         buckets |-> [b \in ToSet(bounds[m]) |-> Cardinality({i \in of(L) : observed(m, store, i) <= b})]]
          : L \in UNION {labelsOf(m, store, i) : i \in all}}

\* Lists of rows.  A team's name has no separator of owner keys in it (owner.go);
\* bounds of a histogram are given once.
ASSUME SeriesAssumption ==
    /\ DOMAIN bounds = Metric
    /\ \A m \in Metric :
           /\ queryOf(m) \in Aggs
           /\ bounds[m] \in Seq(ToSet(bounds[m])) /\ bounds[m] # <<>> /\ IsInjective(bounds[m])
    /\ \A v \in DOMAIN Stores :
           LET store == Stores[v]
           IN /\ store.prs \in Seq(ToSet(store.prs))
              /\ store.runs \in Seq(ToSet(store.runs)) /\ store.tasks \in Seq(ToSet(store.tasks))
              /\ \A r \in ToSet(store.runs) \cup ToSet(store.tasks) : \A o \in ToSet(r.owners) :
                     /\ o.team \in Seq(ToSet(o.team)) /\ "|" \notin ToSet(o.team)
                     /\ o.component \in Seq(ToSet(o.component))

expected == [m \in Metric |-> [v \in DOMAIN Stores |-> expectedOf(m, Stores[v])]]

\* Whatever refreshes run between the reads of a scrape, the series it emits for
\* a metric are those of one state of the store, every owner's share in full and
\* under the owner's own names, each series once; only before the first refresh,
\* or when the reply of the last one was lost, is a metric missing.
ScrapeShowsOneState ==
    \A m \in Metric :
        \/ emitted(m, shown[m]) = IF shown[m].at = 0 THEN {} ELSE expected[m][shown[m].at]
        \/ emitted(m, shown[m]) = {} /\ faults > 0
=============================================================================
