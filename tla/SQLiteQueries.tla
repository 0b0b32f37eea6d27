--------------------------- MODULE SQLiteQueries ---------------------------
(***************************************************************************)
(* The queries of SQLiteRepository over several tables, next to its        *)
(* writers: the workflows, workflow_runs and workflow_tasks tables, and a  *)
(* query that reads them and the components one statement after the other, *)
(* without a transaction around them (internal/domain/repo/sqlite.go).     *)
(*                                                                         *)
(* A statement sees the rows committed when it runs (WAL), so everything   *)
(* may be committed between two statements of one query.  Queries do not   *)
(* interact: there is one at a time.  What a run and a task refer to never *)
(* changes, the repos of a workflow do.  The queries over one table are    *)
(* one statement, evaluated in QueryEval; repos, commits and pull requests *)
(* are rows no other table's query reads.                                  *)
(***************************************************************************)
EXTENDS SQLiteRepository, Sequences, FiniteSetsExt

CONSTANTS Workflow,    \* workflow ids
          Run,         \* workflow run ids
          Task,        \* workflow task ids
          workflowOf,  \* run -> the workflow it refers to
          runOf,       \* task -> the run it refers to
          Unknown      \* the fallback label "unknown"

ASSUME ReferenceAssumption ==
    /\ workflowOf \in [Run -> Workflow]
    /\ runOf \in [Task -> Run]
    /\ Unknown \notin Component

\* Every non-empty table has a last row: tables are finite.
ASSUME LastRowAssumption ==
    \A S \in SUBSET Component : S # {} => \E c \in S : \A d \in S : c >= d

Own == INSTANCE Ownership

VARIABLES workflows,  \* the stored rows: workflow id -> its repos
          runs,       \* ids of the stored runs
          tasks,      \* ids of the stored tasks
          query,      \* the query that runs: "none" or what it asks for
          todo,       \* its statements that have not run yet, in order
          read,       \* the rows its statements have returned
          orphans,    \* runs and tasks it read before what they refer to was stored
          unowned     \* repos that no component listed at some moment of the query

refTables == <<workflows, runs, tasks>>
reader == <<query, todo, read, orphans, unowned>>
allVars == <<vars, refTables, reader>>

NothingRead == [components |-> NoRows, workflows |-> <<>>,
                runs |-> {}, tasks |-> {}, listed |-> {}]

QueriesInit ==
    /\ Init
    /\ workflows = <<>>
    /\ runs = {}
    /\ tasks = {}
    /\ query = "none" /\ todo = <<>>
    /\ read = NothingRead /\ orphans = {} /\ unowned = {}

-----------------------------------------------------------------------------
\* The other writers: one statement each.

AddWorkflow(w, repoIDs) ==
    /\ unlocked
    /\ workflows' = [v \in DOMAIN workflows \cup {w} |->
                      IF v = w THEN repoIDs ELSE workflows[v]]
    /\ UNCHANGED <<vars, runs, tasks, reader>>

AddWorkflowRun(run) ==
    /\ unlocked
    /\ runs' = runs \cup {run}
    /\ UNCHANGED <<vars, workflows, tasks, reader>>

AddWorkflowTask(task) ==
    /\ unlocked
    /\ tasks' = tasks \cup {task}
    /\ UNCHANGED <<vars, workflows, runs, reader>>

-----------------------------------------------------------------------------
\* ORDER BY name, and the last component that lists a repo takes it.
repoToComponent(rows) ==
    [r \in Repo |->
        LET listing == {c \in Component : r \in rows[c].repoIDs}
        IN  IF listing = {} THEN NoName ELSE Max(listing)]

componentToTeam(rows) == [c \in Component |-> rows[c].teamName]

\* The rest of ownerLookupFromDB: the owners the answer reports for a workflow.
\* A workflow whose row was not read has no repos.
reportedOwners(w) ==
    Own!owners(repoToComponent(read.components), componentToTeam(read.components),
               IF w \in DOMAIN read.workflows THEN read.workflows[w] ELSE {})

withoutComponent == {r \in Repo : repoToComponent(components)[r] = NoName}

\* Mutant: the runs are read before the tasks that refer to them.
statements_RunsFirst(q) ==
    CASE q = "runs"        -> <<"runs", "components", "workflows">>
      [] q = "tasks"       -> <<"runs", "tasks", "components", "workflows">>
      [] q = "diagnostics" -> <<"listed", "components", "workflows">>

\* The statements of QueryWorkflowRuns, QueryWorkflowTasks and
\* OwnershipDiagnostics; the last two of each are ownerLookupFromDB's.
statements(q) ==
    CASE q = "runs"        -> <<"runs", "components", "workflows">>
      [] q = "tasks"       -> <<"tasks", "runs", "components", "workflows">>
      [] q = "diagnostics" -> <<"listed", "components", "workflows">>

BeginQuery(q) ==
    /\ query = "none"
    /\ query' = q
    /\ todo' = statements(q)
    /\ unowned' = withoutComponent
    /\ UNCHANGED <<vars, refTables, read, orphans>>

\* Mutant: the reader sees the stripped rows of the transaction that is open,
\* whose target it has not written yet.
visibleComponents_Stripped ==
    IF tx = "loaded"
    THEN [c \in Component |-> [components[c] EXCEPT !.repoIDs = @ \ {txEvent.repoID}]]
    ELSE components

\* Other connections see what is committed.
visibleComponents == components

ReadWorkflows ==
    /\ read' = IF Head(todo) = "listed" THEN [read EXCEPT !.listed = DOMAIN workflows]
               ELSE [read EXCEPT !.workflows = workflows]
    /\ UNCHANGED orphans

ReadRuns ==
    /\ read' = [read EXCEPT !.runs = runs]
    /\ orphans' = orphans \cup {run \in runs : workflowOf[run] \notin DOMAIN workflows}

ReadTasks ==
    /\ read' = [read EXCEPT !.tasks = tasks]
    /\ orphans' = orphans \cup {task \in tasks : runOf[task] \notin runs}

ReadComponents ==
    /\ read' = [read EXCEPT !.components = visibleComponents]
    /\ UNCHANGED orphans

\* The next statement of the query returns.
ReadTable ==
    /\ todo # <<>>
    /\ \/ Head(todo) \in {"listed", "workflows"} /\ ReadWorkflows
       \/ Head(todo) = "runs" /\ ReadRuns
       \/ Head(todo) = "tasks" /\ ReadTasks
       \/ Head(todo) = "components" /\ ReadComponents
    /\ todo' = Tail(todo)
    /\ UNCHANGED <<vars, refTables, query, unowned>>

\* What a query has read is local to it.
forget ==
    /\ query' = "none" /\ todo' = <<>>
    /\ read' = NothingRead /\ orphans' = {} /\ unowned' = {}

\* The query returns: its rows are filtered and emitted, or a statement failed.
EndQuery ==
    /\ query # "none"
    /\ forget
    /\ UNCHANGED <<vars, refTables>>

QueriesNext ==
    \/ /\ Write
       /\ unowned' = IF query = "none" THEN {} ELSE unowned \cup withoutComponent'
       /\ UNCHANGED <<refTables, query, todo, read, orphans>>
    \/ Crash /\ forget /\ UNCHANGED refTables
    \/ \E w \in Workflow, repoIDs \in SUBSET Repo : AddWorkflow(w, repoIDs)
    \/ \E run \in Run : AddWorkflowRun(run)
    \/ \E task \in Task : AddWorkflowTask(task)
    \/ \E q \in {"runs", "tasks", "diagnostics"} : BeginQuery(q)
    \/ ReadTable
    \/ EndQuery

QueriesSpec == QueriesInit /\ [][QueriesNext]_allVars /\ Fairness

-----------------------------------------------------------------------------
answered == query # "none" /\ todo = <<>>

\* What a query reads is closed under its references, although it reads table
\* by table while the tables grow: the run of a task, the workflow of a run and
\* the row of a listed workflow are in the answer, unless they were not stored
\* when the row that refers to them was read.
ReferencesResolve ==
    answered =>
        /\ \A task \in read.tasks \ orphans : runOf[task] \in read.runs
        /\ \A run \in read.runs \ orphans : workflowOf[run] \in DOMAIN read.workflows
        /\ read.listed \subseteq DOMAIN read.workflows

\* A repo that had a component all through the query has an owner in the
\* answer: a repo moving from one component to another is never seen in
\* between, stripped from the one and not yet added to the other.
OwnedReposStayOwned ==
    answered =>
        \A w \in DOMAIN read.workflows :
            (read.workflows[w] \ unowned # {}) => Own!UnknownOwner \notin reportedOwners(w)
=============================================================================
