----------------------- MODULE SQLiteRepositoryProofs -----------------------
(***************************************************************************)
(* Proofs about SQLiteRepository and its queries, for every set of repos,  *)
(* components, teams, workflows, runs and tasks.  The onboarding           *)
(* transaction is atomic because the rows it has read stay current until   *)
(* it ends, which is what the write lock is for.  What a query promises    *)
(* follows from the order of its statements.                               *)
(***************************************************************************)
EXTENDS SQLiteQueries, TLAPS

\* The rows a transaction computes its writes from are the committed ones until
\* it commits: every other writer waits for the lock.
LoadedRowsAreCurrent == tx = "loaded" => txLoaded = components

TxInv == TypeOK /\ LoadedRowsAreCurrent

\* The initial tables satisfy the transaction invariant.
LEMMA InitTxInv == Init => TxInv
  BY DEF Init, TxInv, TypeOK, LoadedRowsAreCurrent, ComponentRecord, ZeroComponent, NoRows

\* The row the transaction upserts, and the rows it strips, are well typed.
LEMMA RowsWrittenType ==
    ASSUME TypeOK, NEW o \in OnboardingEvent
    PROVE  rowsWritten(o) \in [Component -> ComponentRecord]
  <1>1. o.repoID \in Repo /\ o.component \in Component /\ o.team \in Team
    BY DEF OnboardingEvent
  <1>2. targetRow(o) \in ComponentRecord
    BY <1>1 DEF TypeOK, targetRow, ComponentRecord
  <1>3. ASSUME NEW c \in Component
        PROVE  [txLoaded[c] EXCEPT !.repoIDs = @ \ {o.repoID}] \in ComponentRecord
    BY DEF TypeOK, ComponentRecord
  <1> QED
    BY <1>2, <1>3 DEF TypeOK, rowsWritten

\* Every step keeps the transaction invariant.
LEMMA NextTxInv == TxInv /\ [Next]_vars => TxInv'
  <1> SUFFICES ASSUME TxInv, [Next]_vars PROVE TxInv'
    OBVIOUS
  <1> USE DEF TxInv, LoadedRowsAreCurrent
  <1>1. ASSUME NEW t \in Team, AddTeam(t) PROVE TxInv'
    BY <1>1 DEF AddTeam, unlocked, TypeOK
  <1>2. ASSUME NEW comp \in ComponentEvent, AddComponent(comp) PROVE TxInv'
    <2>1. comp \in ComponentRecord /\ comp.name \in Component
      BY DEF ComponentEvent, ComponentRecord
    <2> QED
      BY <1>2, <2>1 DEF AddComponent, unlocked, TypeOK
  <1>3. ASSUME NEW o \in OnboardingEvent, BeginOnboarding(o) PROVE TxInv'
    <2>1. o # NoEvent
      BY TableAssumption DEF OnboardingEvent
    <2> QED
      BY <1>3, <2>1 DEF BeginOnboarding, unlocked, tables, TypeOK
  <1> NoRows \in [Component -> ComponentRecord]
    BY DEF NoRows, ZeroComponent, ComponentRecord
  <1>4. CASE LoadComponents
    BY <1>4 DEF LoadComponents, tables, TypeOK
  <1>5. CASE CommitOnboarding
    <2>1. txEvent \in OnboardingEvent
      BY <1>5 DEF CommitOnboarding, TypeOK
    <2>2. rowsWritten(txEvent) \in [Component -> ComponentRecord]
      BY <2>1, RowsWrittenType
    <2>3. txEvent.team \in Team
      BY <2>1 DEF OnboardingEvent
    <2> QED
      BY <1>5, <2>2, <2>3 DEF CommitOnboarding, TypeOK
  <1>6. CASE FailOnboarding
    BY <1>6 DEF FailOnboarding, tables, TypeOK
  <1>7. CASE RollbackOnboarding
    BY <1>7 DEF RollbackOnboarding, tables, TypeOK
  <1>8. CASE Crash
    BY <1>8 DEF Crash, tables, TypeOK
  <1>9. CASE UNCHANGED vars
    BY <1>9 DEF vars, TypeOK
  <1> QED
    BY <1>1, <1>2, <1>3, <1>4, <1>5, <1>6, <1>7, <1>8, <1>9 DEF Next, Write

\* The transaction invariant holds in every reachable state.
THEOREM TxInvHolds == Spec => []TxInv
  BY InitTxInv, NextTxInv, PTL DEF Spec

\* Type correctness, for every set of repos, components and teams.
THEOREM TypeCorrect == Spec => []TypeOK
  <1>1. TxInv => TypeOK
    BY DEF TxInv
  <1> QED
    BY <1>1, TxInvHolds, PTL

\* A commit is one whole onboarding event applied to the committed tables.
LEMMA CommitOnboards ==
    ASSUME TxInv, CommitOnboarding
    PROVE  Table!Onboard(txEvent) /\ txEvent \in OnboardingEvent
  <1>1. /\ txEvent \in OnboardingEvent
        /\ txLoaded = components
        /\ components \in [Component -> ComponentRecord]
    BY DEF TxInv, TypeOK, LoadedRowsAreCurrent, CommitOnboarding
  <1>2. ASSUME NEW c \in Component, txEvent.repoID \notin components[c].repoIDs
        PROVE  [components[c] EXCEPT !.repoIDs = @ \ {txEvent.repoID}] = components[c]
    <2>1. components[c] \in ComponentRecord
      BY <1>1
    <2>2. components[c].repoIDs \ {txEvent.repoID} = components[c].repoIDs
      BY <1>2
    <2> QED
      BY <2>1, <2>2 DEF ComponentRecord
  <1>3. components' = [c \in Component |->
            IF c = txEvent.component THEN Table!upsertTarget(components[c], txEvent)
            ELSE [components[c] EXCEPT !.repoIDs = @ \ {txEvent.repoID}]]
    BY <1>1, <1>2
       DEF CommitOnboarding, rowsWritten, targetRow, Table!upsertTarget
  <1> QED
    BY <1>1, <1>3 DEF CommitOnboarding, Table!Onboard

\* The tables only ever change by one whole event: failures and crashes in the
\* middle of the transaction leave them alone.
THEOREM OnboardingAtomic == Spec => OnboardingIsAtomic
  <1>1. TxInv /\ [Next]_vars => [Table!Next]_tables
    <2> SUFFICES ASSUME TxInv, [Next]_vars PROVE [Table!Next]_tables
      OBVIOUS
    <2>1. ASSUME NEW t \in Team, AddTeam(t) PROVE Table!Next
      BY <2>1 DEF AddTeam, Table!Next, Table!StoreTeam
    <2>2. ASSUME NEW comp \in ComponentEvent, AddComponent(comp) PROVE Table!Next
      <3>1. comp \in [name : Component, teamName : Team, repoIDs : SUBSET Repo \ {{}}]
        BY DEF ComponentEvent
      <3> QED
        BY <2>2, <3>1 DEF AddComponent, Table!Next, Table!Replace
    <2>3. CASE CommitOnboarding
      BY <2>3, CommitOnboards DEF OnboardingEvent, Table!Next
    <2>4. CASE \/ \E o \in OnboardingEvent : BeginOnboarding(o)
               \/ LoadComponents \/ FailOnboarding \/ RollbackOnboarding \/ Crash
               \/ UNCHANGED vars
      BY <2>4 DEF BeginOnboarding, LoadComponents, FailOnboarding, RollbackOnboarding,
                  Crash, vars, tables
    <2> QED
      BY <2>1, <2>2, <2>3, <2>4 DEF Next, Write
  <1> QED
    BY <1>1, TxInvHolds, PTL DEF Spec, OnboardingIsAtomic

\* After a committed onboarding no other component lists the repo.
THEOREM OnboardingExclusive == Spec => OnboardingLeavesNoOtherMember
  <1>1. TxInv /\ [Next]_vars =>
            [\A r \in Repo, c \in Component :
                (CommitOnboarding /\ txEvent.repoID = r /\ txEvent.component # c)
                    => r \notin components'[c].repoIDs]_vars
    <2> SUFFICES ASSUME TxInv, CommitOnboarding,
                        NEW c \in Component, txEvent.component # c
                 PROVE  txEvent.repoID \notin components'[c].repoIDs
      OBVIOUS
    <2>1. components'[c] = [components[c] EXCEPT !.repoIDs = @ \ {txEvent.repoID}]
      BY CommitOnboards DEF Table!Onboard
    <2>2. components[c] \in ComponentRecord
      BY DEF TxInv, TypeOK
    <2> QED
      BY <2>1, <2>2 DEF ComponentRecord
  <1> QED
    BY <1>1, TxInvHolds, PTL DEF Spec, OnboardingLeavesNoOtherMember

-----------------------------------------------------------------------------
\* The queries over several tables, for every interleaving with the writers.

\* What has been read and what is stored, statement by statement.  The runs
\* are still to be read in the first two states of a query for tasks, and
\* first in one for runs.
runsToRead == {<<"tasks", "runs", "components", "workflows">>,
               <<"runs", "components", "workflows">>}
componentsToRead == runsToRead \cup {<<"listed", "components", "workflows">>,
                                     <<"components", "workflows">>}

NoQueryInv == query = "none" => todo = <<>> /\ read = NothingRead

StatementsInv == todo \in componentsToRead \cup {<<"workflows">>, <<>>}

TasksInv ==
    /\ \A task \in read.tasks \ orphans : runOf[task] \in runs
    /\ todo \notin runsToRead => \A task \in read.tasks \ orphans : runOf[task] \in read.runs

RunsInv ==
    /\ \A run \in read.runs \ orphans : workflowOf[run] \in DOMAIN workflows
    /\ todo = <<>> =>
          \A run \in read.runs \ orphans : workflowOf[run] \in DOMAIN read.workflows

ListedInv ==
    /\ read.listed \subseteq DOMAIN workflows
    /\ todo = <<>> => read.listed \subseteq DOMAIN read.workflows

OwnedInv ==
    query # "none" =>
        /\ withoutComponent \subseteq unowned
        /\ todo \notin componentsToRead =>
              \A r \in Repo \ unowned : repoToComponent(read.components)[r] # NoName

ReadInv ==
    /\ DOMAIN read = {"components", "workflows", "runs", "tasks", "listed"}
    /\ NoQueryInv
    /\ StatementsInv
    /\ TasksInv
    /\ RunsInv
    /\ ListedInv

FlowsInv ==
    /\ \A w \in DOMAIN workflows : workflows[w] \subseteq Repo
    /\ \A w \in DOMAIN read.workflows : read.workflows[w] \subseteq Repo

-----------------------------------------------------------------------------
\* The steps of a query and of the other tables' writers do not disturb the
\* teams and the components: what SQLiteRepositoryProofs proves of Spec holds
\* of QueriesSpec.
THEOREM WritersAsBefore == QueriesSpec => Spec
  <1>1. QueriesInit => Init
    BY DEF QueriesInit
  <1>2. [QueriesNext]_allVars => [Next]_vars
    BY DEF QueriesNext, Next, allVars, AddWorkflow, AddWorkflowRun, AddWorkflowTask,
           BeginQuery, ReadTable, EndQuery
  <1> QED
    BY <1>1, <1>2, PTL DEF QueriesSpec, Spec

-----------------------------------------------------------------------------
\* The three queries start with these statements.
LEMMA StatementsOf ==
    /\ statements("runs") = <<"runs", "components", "workflows">>
    /\ statements("tasks") = <<"tasks", "runs", "components", "workflows">>
    /\ statements("diagnostics") = <<"listed", "components", "workflows">>
  BY DEF statements

\* A statement that returns leaves the rest of its query.
LEMMA NextStatement ==
    ASSUME StatementsInv, todo # <<>>, todo' = Tail(todo)
    PROVE  /\ StatementsInv'
           /\ todo' \in runsToRead <=> Head(todo) = "tasks"
           /\ todo' \in componentsToRead <=> Head(todo) \in {"tasks", "runs", "listed"}
           /\ todo' = <<>> <=> Head(todo) = "workflows"
           /\ todo \in runsToRead <=> Head(todo) \in {"tasks", "runs"}
           /\ todo \in componentsToRead <=> Head(todo) # "workflows"
  <1>1. CASE todo = <<"tasks", "runs", "components", "workflows">>
    <2>1. todo' = <<"runs", "components", "workflows">> /\ Head(todo) = "tasks"
      BY <1>1
    <2> QED
      BY <1>1, <2>1 DEF StatementsInv, runsToRead, componentsToRead
  <1>2. CASE todo = <<"runs", "components", "workflows">>
    <2>1. todo' = <<"components", "workflows">> /\ Head(todo) = "runs"
      BY <1>2
    <2> QED
      BY <1>2, <2>1 DEF StatementsInv, runsToRead, componentsToRead
  <1>3. CASE todo = <<"listed", "components", "workflows">>
    <2>1. todo' = <<"components", "workflows">> /\ Head(todo) = "listed"
      BY <1>3
    <2> QED
      BY <1>3, <2>1 DEF StatementsInv, runsToRead, componentsToRead
  <1>4. CASE todo = <<"components", "workflows">>
    <2>1. todo' = <<"workflows">> /\ Head(todo) = "components"
      BY <1>4
    <2> QED
      BY <1>4, <2>1 DEF StatementsInv, runsToRead, componentsToRead
  <1>5. CASE todo = <<"workflows">>
    <2>1. todo' = <<>> /\ Head(todo) = "workflows"
      BY <1>5
    <2> QED
      BY <1>5, <2>1 DEF StatementsInv, runsToRead, componentsToRead
  <1> QED
    BY <1>1, <1>2, <1>3, <1>4, <1>5 DEF StatementsInv, runsToRead, componentsToRead

LEMMA InitReadInv == QueriesInit => ReadInv
  BY DEF QueriesInit, ReadInv, NoQueryInv, StatementsInv, TasksInv, RunsInv, ListedInv,
         NothingRead, runsToRead, componentsToRead

\* The stored rows only grow, so what has been found stays.
LEMMA WritersKeepReadInv ==
    ASSUME ReadInv, UNCHANGED <<query, todo, read, orphans>>,
           runs \subseteq runs', DOMAIN workflows \subseteq DOMAIN workflows'
    PROVE  ReadInv'
  BY DEF ReadInv, NoQueryInv, StatementsInv, TasksInv, RunsInv, ListedInv

\* A query that returns, or that dies with its process, is forgotten.
LEMMA ForgetKeepsReadInv ==
    ASSUME ReadInv, forget, UNCHANGED refTables
    PROVE  ReadInv'
  BY DEF ReadInv, forget, refTables, NoQueryInv, StatementsInv, TasksInv, RunsInv, ListedInv,
         NothingRead, runsToRead, componentsToRead

LEMMA BeginKeepsReadInv ==
    ASSUME ReadInv, NEW q \in {"runs", "tasks", "diagnostics"}, BeginQuery(q)
    PROVE  ReadInv'
  <1>1. todo' \in componentsToRead /\ query' # "none"
    BY StatementsOf DEF BeginQuery, componentsToRead, runsToRead
  <1>2. /\ read.tasks = {} /\ read.runs = {} /\ read.listed = {}
        /\ read' = read /\ orphans' = orphans
        /\ DOMAIN read = {"components", "workflows", "runs", "tasks", "listed"}
    BY DEF ReadInv, NoQueryInv, BeginQuery, NothingRead
  <1> QED
    BY <1>1, <1>2 DEF ReadInv, NoQueryInv, StatementsInv, TasksInv, RunsInv, ListedInv

LEMMA ReadKeepsReadInv ==
    ASSUME ReadInv, ReadTable
    PROVE  ReadInv'
  <1>1. todo # <<>> /\ todo' = Tail(todo) /\ UNCHANGED <<refTables, query>>
    BY DEF ReadTable
  <1>2. StatementsInv /\ query # "none"
    BY <1>1 DEF ReadInv, NoQueryInv
  <1>3. /\ StatementsInv'
        /\ todo' \in runsToRead <=> Head(todo) = "tasks"
        /\ todo' = <<>> <=> Head(todo) = "workflows"
        /\ todo \in runsToRead <=> Head(todo) \in {"tasks", "runs"}
    BY <1>1, <1>2, NextStatement
  <1>4. NoQueryInv'
    BY <1>1, <1>2 DEF NoQueryInv
  <1> USE <1>1, <1>3
  <1>5. CASE Head(todo) = "tasks"
    BY <1>4, <1>5 DEF ReadTable, ReadTasks, ReadInv, TasksInv, RunsInv, ListedInv, refTables
  <1>6. CASE Head(todo) = "runs"
    BY <1>4, <1>6 DEF ReadTable, ReadRuns, ReadInv, TasksInv, RunsInv, ListedInv, refTables
  <1>7. CASE Head(todo) = "listed"
    BY <1>4, <1>7 DEF ReadTable, ReadWorkflows, ReadInv, TasksInv, RunsInv, ListedInv, refTables
  <1>8. CASE Head(todo) = "components"
    BY <1>4, <1>8 DEF ReadTable, ReadComponents, ReadInv, TasksInv, RunsInv, ListedInv, refTables
  <1>9. CASE Head(todo) = "workflows"
    BY <1>4, <1>9 DEF ReadTable, ReadWorkflows, ReadInv, TasksInv, RunsInv, ListedInv, refTables
  <1> QED
    BY <1>5, <1>6, <1>7, <1>8, <1>9 DEF ReadTable

LEMMA NextReadInv == ReadInv /\ [QueriesNext]_allVars => ReadInv'
  <1> SUFFICES ASSUME ReadInv, [QueriesNext]_allVars PROVE ReadInv'
    OBVIOUS
  <1>1. CASE Write /\ UNCHANGED <<refTables, query, todo, read, orphans>>
    BY <1>1, WritersKeepReadInv DEF refTables
  <1>2. CASE Crash /\ forget /\ UNCHANGED refTables
    BY <1>2, ForgetKeepsReadInv
  <1>3. ASSUME NEW w \in Workflow, NEW repoIDs \in SUBSET Repo, AddWorkflow(w, repoIDs)
        PROVE  ReadInv'
    BY <1>3, WritersKeepReadInv DEF AddWorkflow, reader
  <1>4. ASSUME NEW run \in Run, AddWorkflowRun(run) PROVE ReadInv'
    BY <1>4, WritersKeepReadInv DEF AddWorkflowRun, reader
  <1>5. ASSUME NEW task \in Task, AddWorkflowTask(task) PROVE ReadInv'
    BY <1>5, WritersKeepReadInv DEF AddWorkflowTask, reader
  <1>6. ASSUME NEW q \in {"runs", "tasks", "diagnostics"}, BeginQuery(q) PROVE ReadInv'
    BY <1>6, BeginKeepsReadInv
  <1>7. CASE ReadTable
    BY <1>7, ReadKeepsReadInv
  <1>8. CASE EndQuery
    BY <1>8, ForgetKeepsReadInv DEF EndQuery
  <1>9. CASE UNCHANGED allVars
    BY <1>9, WritersKeepReadInv DEF allVars, refTables, reader
  <1> QED
    BY <1>1, <1>2, <1>3, <1>4, <1>5, <1>6, <1>7, <1>8, <1>9 DEF QueriesNext

\* The run of a task, the workflow of a run and the row of a listed workflow
\* are in the answer, unless they were not stored when the referring row was
\* read, for any number of rows.
THEOREM AnswersAreClosed == QueriesSpec => []ReferencesResolve
  <1>1. ReadInv => ReferencesResolve
    BY DEF ReadInv, TasksInv, RunsInv, ListedInv, ReferencesResolve, answered,
           runsToRead
  <1> QED
    BY <1>1, InitReadInv, NextReadInv, PTL DEF QueriesSpec

-----------------------------------------------------------------------------
\* A workflow's row, stored or read, lists repos.
LEMMA NextFlowsInv == FlowsInv /\ ReadInv /\ [QueriesNext]_allVars => FlowsInv'
  <1> SUFFICES ASSUME FlowsInv, ReadInv, [QueriesNext]_allVars PROVE FlowsInv'
    OBVIOUS
  <1> USE DEF FlowsInv
  <1>1. CASE UNCHANGED <<refTables, read>>
    BY <1>1 DEF refTables
  <1>2. CASE forget /\ UNCHANGED refTables
    BY <1>2 DEF forget, NothingRead, refTables
  <1>3. ASSUME NEW w \in Workflow, NEW repoIDs \in SUBSET Repo, AddWorkflow(w, repoIDs)
        PROVE  FlowsInv'
    BY <1>3 DEF AddWorkflow, reader
  <1>4. CASE ReadTable
    <2>1. /\ read'.workflows \in {read.workflows, workflows}
          /\ workflows' = workflows
      BY <1>4 DEF ReadTable, ReadWorkflows, ReadRuns, ReadTasks, ReadComponents, refTables,
                  ReadInv
    <2> QED
      BY <2>1
  <1> QED
    BY <1>1, <1>2, <1>3, <1>4
       DEF QueriesNext, AddWorkflowRun, AddWorkflowTask, BeginQuery, EndQuery, allVars,
           reader, refTables

\* A repo that has had a component since the query began has one in the rows
\* that the query reads.
LEMMA NextOwnedInv == OwnedInv /\ ReadInv /\ [QueriesNext]_allVars => OwnedInv'
  <1> SUFFICES ASSUME OwnedInv, ReadInv, [QueriesNext]_allVars, query' # "none"
               PROVE  /\ withoutComponent' \subseteq unowned'
                      /\ todo' \notin componentsToRead =>
                            \A r \in Repo \ unowned' :
                                repoToComponent(read'.components)[r] # NoName
    BY DEF OwnedInv
  <1>1. CASE Write /\ UNCHANGED <<query, todo, read>>
             /\ unowned' = IF query = "none" THEN {} ELSE unowned \cup withoutComponent'
    <2>1. unowned \subseteq unowned' /\ withoutComponent' \subseteq unowned'
      BY <1>1
    <2> QED
      BY <1>1, <2>1 DEF OwnedInv
  <1>2. CASE UNCHANGED <<vars, reader>>
    BY <1>2 DEF OwnedInv, vars, reader, tables, withoutComponent
  <1>3. ASSUME NEW q \in {"runs", "tasks", "diagnostics"}, BeginQuery(q)
        PROVE  unowned' = withoutComponent' /\ todo' \in componentsToRead
    <2>1. todo' \in componentsToRead
      BY <1>3, StatementsOf DEF BeginQuery, componentsToRead, runsToRead
    <2> QED
      BY <1>3, <2>1 DEF BeginQuery, vars, tables, withoutComponent
  <1>4. CASE ReadTable
    <2>1. /\ UNCHANGED <<components, query, unowned>>
          /\ todo # <<>> /\ todo' = Tail(todo)
      BY <1>4 DEF ReadTable, vars, tables
    <2>2. withoutComponent \subseteq unowned /\ withoutComponent' = withoutComponent
      BY <2>1 DEF OwnedInv, withoutComponent
    <2>3. /\ todo' \in componentsToRead <=> Head(todo) \in {"tasks", "runs", "listed"}
          /\ todo \in componentsToRead <=> Head(todo) # "workflows"
      BY <2>1, NextStatement DEF ReadInv
    <2>4. CASE Head(todo) = "components"
      <3>1. read'.components = components
        BY <1>4, <2>4 DEF ReadTable, ReadComponents, visibleComponents, ReadInv
      <3> QED
        BY <2>1, <2>2, <3>1 DEF withoutComponent
    <2>5. CASE Head(todo) = "workflows"
      <3>1. read'.components = read.components
        BY <1>4, <2>5 DEF ReadTable, ReadWorkflows, ReadInv
      <3> QED
        BY <2>1, <2>2, <2>3, <2>5, <3>1 DEF OwnedInv
    <2>6. CASE Head(todo) \in {"tasks", "runs", "listed"}
      BY <2>1, <2>2, <2>3, <2>6
    <2> QED
      BY <1>4, <2>4, <2>5, <2>6 DEF ReadTable
  <1>5. CASE EndQuery \/ forget
    BY <1>5 DEF EndQuery, forget
  <1> QED
    BY <1>1, <1>2, <1>3, <1>4, <1>5
       DEF QueriesNext, AddWorkflow, AddWorkflowRun, AddWorkflowTask, allVars

\* The component that the lookup names for a repo is a component's name.
LEMMA NamesAreComponents ==
    ASSUME NEW rows, NEW r \in Repo, repoToComponent(rows)[r] # NoName
    PROVE  repoToComponent(rows)[r] \in Component
  <1> DEFINE listing == {c \in Component : r \in rows[c].repoIDs}
  <1>1. repoToComponent(rows)[r] = IF listing = {} THEN NoName ELSE Max(listing)
    BY DEF repoToComponent
  <1>2. listing # {} => Max(listing) \in listing
    BY LastRowAssumption DEF Max
  <1> QED
    BY <1>1, <1>2

\* A repo that had a component all through the query has an owner in the
\* answer: nobody sees a repo in between two components.
THEOREM OwnedStayOwned == QueriesSpec => []OwnedReposStayOwned
  <1>1. QueriesInit => FlowsInv /\ OwnedInv
    BY DEF QueriesInit, FlowsInv, OwnedInv, NothingRead
  <1>2. ReadInv /\ FlowsInv /\ OwnedInv => OwnedReposStayOwned
    <2> SUFFICES ASSUME ReadInv, FlowsInv, OwnedInv, answered,
                        NEW w \in DOMAIN read.workflows,
                        NEW r \in read.workflows[w] \ unowned
                 PROVE  Own!UnknownOwner \notin reportedOwners(w)
      BY DEF OwnedReposStayOwned
    <2> DEFINE rtc == repoToComponent(read.components)
               ct  == componentToTeam(read.components)
               resolved == {Own!Owner(rtc[q], Own!teamOrUnknown(ct, rtc[q])) :
                                q \in {p \in read.workflows[w] : rtc[p] # NoName}}
    <2>1. read.workflows[w] \subseteq Repo
      BY DEF FlowsInv
    <2>2. rtc[r] # NoName
      BY <2>1 DEF OwnedInv, answered, componentsToRead, runsToRead
    <2>3. resolved # {}
      BY <2>2
    <2>4. ASSUME NEW q \in read.workflows[w], rtc[q] # NoName
          PROVE  Own!Owner(rtc[q], Own!teamOrUnknown(ct, rtc[q])) # Own!UnknownOwner
      <3>1. rtc[q] \in Component
        BY <2>1, <2>4, NamesAreComponents
      <3>2. rtc[q] # Unknown
        BY <3>1, ReferenceAssumption
      <3> QED
        BY <3>2 DEF Own!Owner, Own!UnknownOwner
    <2>5. Own!UnknownOwner \notin resolved
      BY <2>4
    <2>6. reportedOwners(w) = resolved
      <3> HIDE DEF rtc, ct
      <3>1. reportedOwners(w) = Own!owners(rtc, ct, read.workflows[w])
        BY DEF reportedOwners, rtc, ct
      <3> QED
        BY <2>3, <3>1 DEF Own!owners
    <2> QED
      BY <2>5, <2>6
  <1> QED
    BY <1>1, <1>2, InitReadInv, NextReadInv, NextFlowsInv, NextOwnedInv, PTL DEF QueriesSpec
=============================================================================
