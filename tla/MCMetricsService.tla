-------------------------- MODULE MCMetricsService --------------------------
(* MetricsService for TLC: a run owned by two pairs, a component whose name  *)
(* holds the separator, pull requests of two months.                         *)
EXTENDS MetricsSeries

Served == <<"pr_cycle_time", "workflow_task_duration">>

owner(team, component) == [team |-> team, component |-> component]
core == owner(<<"t">>, <<"c">>)
piped == owner(<<"t">>, <<"c", "|", "d">>)
unknown == owner(<<"u">>, <<"u">>)

run(owners, status, duration) ==
    [owners |-> owners, workflow |-> "w", name |-> "n", branch |-> "main", status |-> status,
     duration |-> duration]
task(owners, order, duration) ==
    [task |-> "build", order |-> order] @@ run(owners, "ok", duration)
pr(repo, state, created, updated) ==
    [repo |-> repo, state |-> state, created |-> created, updated |-> updated]

StoreStates == <<
    [clock |-> 800,
     runs |-> <<run(<<core, piped>>, "ok", 3), run(<<piped>>, "ok", 5)>>,
     tasks |-> <<task(<<core, piped>>, 1, 2), task(<<unknown>>, 2, 3)>>,
     prs |-> <<pr("r", "OPEN", 790, 790), pr("r", "OPEN", 798, 799)>>],
    [clock |-> 810,
     runs |-> <<run(<<core, piped>>, "failed", 4), run(<<piped>>, "ok", 5), run(<<unknown>>, "ok", 9)>>,
     tasks |-> <<task(<<core, piped>>, 1, 2), task(<<core>>, 1, 6)>>,
     prs |-> <<pr("r", "MERGED", 790, 806), pr("r", "OPEN", 798, 799), pr("s", "DECLINED", 700, 709)>>]>>

Bounds == [m \in Metric |-> IF m = "pr_cycle_time" THEN <<5, 12>> ELSE <<3, 5>>]

\* Maps of aggregations with those they nest, and how deep.
RECURSIVE nested(_), nesting(_)
nested(aggs) == {aggs} \cup UNION {nested(aggs[name].aggs) : name \in DOMAIN aggs}
nesting(aggs) == Max({0} \cup {1 + nesting(aggs[name].aggs) : name \in DOMAIN aggs})
AllAggs == UNION {nested(queryOf(m)) : m \in Metric}
=============================================================================
