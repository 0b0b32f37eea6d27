-------------------------- MODULE MemoryRepository --------------------------
(***************************************************************************)
(* MemoryRepository (internal/domain/repo/memory.go): the maps behind the  *)
(* ownership of workflows, with the two reverse indexes the write path     *)
(* maintains by hand.  Every Add method holds the write lock from its      *)
(* first statement to its last, so each is one action.  Every query takes  *)
(* its snapshot of all the maps it needs under one read lock, so a query   *)
(* is a state function.                                                    *)
(*                                                                         *)
(* A map is a total function whose value for an absent key is Go's zero    *)
(* value.  A component's repo list is a set: every use of it is a          *)
(* membership test, an addition or a deletion.                             *)
(*                                                                         *)
(* Repos, commits and pull requests are plain upserts that no other map    *)
(* depends on; EventDelivery follows them from the stream to the store.    *)
(***************************************************************************)
EXTENDS Ownership

CONSTANTS Repo,       \* repo ids
          Component,  \* component names
          Team,       \* team names
          EventTeam,  \* team names a component event may carry
          Workflow,   \* workflow ids
          Run         \* workflow run ids

ASSUME NamesAssumption ==
    /\ NoName \notin Component \cup Team \cup Workflow \cup Run
    /\ Unknown \notin Component \cup Team \cup {NoName}
    /\ EventTeam \subseteq Team \cup {NoName}

VARIABLES teams,            \* stored team names
          components,       \* component name -> model.Component
          componentToTeam,  \* reverse index: component name -> team name
          repoToComponent,  \* reverse index: repo id -> component name
          workflows,        \* workflow id -> model.Workflow
          workflowRuns,     \* run id -> id of the run's workflow
          workflowTasks     \* run ids that have a stored task

ownershipVars == <<teams, components, componentToTeam, repoToComponent>>
cicdVars == <<workflows, workflowRuns, workflowTasks>>
vars == <<ownershipVars, cicdVars>>

ComponentRecord ==
    [name : Component \cup {NoName}, teamName : Team \cup {NoName},
     repoIDs : SUBSET Repo]

ZeroComponent == [name |-> NoName, teamName |-> NoName, repoIDs |-> {}]

WorkflowRecord == [id : Workflow \cup {NoName}, repoIDs : SUBSET Repo]

ZeroWorkflow == [id |-> NoName, repoIDs |-> {}]

\* A component event.  The config crawler validates that the repo list is not
\* empty and that the team is there; the domain validates neither, and its
\* diagnostics have a reason for a component without a team, so EventTeam
\* says whether the team may be missing.
ComponentEvent ==
    [name : Component, teamName : EventTeam, repoIDs : SUBSET Repo \ {{}}]

\* A self-onboarding event (ADR-007); team and component are validated.
OnboardingEvent == [repoID : Repo, component : Component, team : Team]

Init ==
    /\ teams = {}
    /\ components = [c \in Component |-> ZeroComponent]
    /\ componentToTeam = [c \in Component |-> NoName]
    /\ repoToComponent = [r \in Repo |-> NoName]
    /\ workflows = [w \in Workflow |-> ZeroWorkflow]
    /\ workflowRuns = [n \in Run |-> NoName]
    /\ workflowTasks = {}

-----------------------------------------------------------------------------
AddTeam(t) ==
    /\ teams' = teams \cup {t}
    /\ UNCHANGED <<components, componentToTeam, repoToComponent, cicdVars>>

\* Mutant: a component without a team is indexed under the fallback label.
AddComponent_DefaultsTeam(comp) ==
    /\ components' = [components EXCEPT ![comp.name] = comp]
    /\ componentToTeam' = [componentToTeam EXCEPT ![comp.name] =
           IF comp.teamName = NoName THEN Unknown ELSE comp.teamName]
    /\ UNCHANGED <<teams, repoToComponent, cicdVars>>

\* Mutant: index entries of the previous version survive a shrinking re-ingest.
AddComponent_KeepsStaleEntries(comp) ==
    /\ components' = [components EXCEPT ![comp.name] = comp]
    /\ componentToTeam' = [componentToTeam EXCEPT ![comp.name] = comp.teamName]
    /\ repoToComponent' = [r \in Repo |-> IF r \in comp.repoIDs THEN comp.name
                                          ELSE repoToComponent[r]]
    /\ UNCHANGED <<teams, cicdVars>>

\* Mutant: the first claim wins, a repo that has an owner keeps it.
AddComponent_FirstWins(comp) ==
    /\ components' = [components EXCEPT ![comp.name] = comp]
    /\ componentToTeam' = [componentToTeam EXCEPT ![comp.name] = comp.teamName]
    /\ repoToComponent' =
           [r \in Repo |-> IF r \in comp.repoIDs /\ repoToComponent[r] = NoName THEN comp.name
                           ELSE IF r \notin comp.repoIDs /\ repoToComponent[r] = comp.name THEN NoName
                           ELSE repoToComponent[r]]
    /\ UNCHANGED <<teams, cicdVars>>

\* Mutant: stale entries are dropped without asking who holds them now.
AddComponent_DropsOthersEntries(comp) ==
    /\ components' = [components EXCEPT ![comp.name] = comp]
    /\ componentToTeam' = [componentToTeam EXCEPT ![comp.name] = comp.teamName]
    /\ repoToComponent' =
           [r \in Repo |-> IF r \in comp.repoIDs THEN comp.name
                           ELSE IF r \in components[comp.name].repoIDs THEN NoName
                           ELSE repoToComponent[r]]
    /\ UNCHANGED <<teams, cicdVars>>

\* The stored component is replaced.  Index entries that pointed from the
\* previous version's repos to this component go first, then every repo of
\* the new version is pointed at it, whoever held it before.
AddComponent(comp) ==
    LET stale == {r \in components[comp.name].repoIDs :
                      repoToComponent[r] = comp.name}
    IN  /\ components' = [components EXCEPT ![comp.name] = comp]
        /\ componentToTeam' = [componentToTeam EXCEPT ![comp.name] = comp.teamName]
        /\ repoToComponent' =
               [r \in Repo |-> IF r \in comp.repoIDs THEN comp.name
                               ELSE IF r \in stale THEN NoName
                               ELSE repoToComponent[r]]
        /\ UNCHANGED <<teams, cicdVars>>

\* The components once the repo is stripped from the component the index
\* names, and from no other one.
stripFromPrevious(o) ==
    LET prevName == repoToComponent[o.repoID]
    IN  IF prevName \in {NoName, o.component} THEN components
        ELSE [components EXCEPT ![prevName].repoIDs = @ \ {o.repoID}]

\* Mutant: the team index is left to a later component event.
AddRepoOnboarding_ForgetsTeamIndex(o) ==
    /\ teams' = teams \cup {o.team}
    /\ components' =
           [stripFromPrevious(o) EXCEPT
               ![o.component] = [name     |-> o.component,
                                 teamName |-> o.team,
                                 repoIDs  |-> @.repoIDs \cup {o.repoID}]]
    /\ repoToComponent' = [repoToComponent EXCEPT ![o.repoID] = o.component]
    /\ UNCHANGED <<componentToTeam, cicdVars>>

\* Mutant: the target component is overwritten, not extended.
AddRepoOnboarding_ReplacesMembers(o) ==
    /\ teams' = teams \cup {o.team}
    /\ components' =
           [stripFromPrevious(o) EXCEPT
               ![o.component] = [name     |-> o.component,
                                 teamName |-> o.team,
                                 repoIDs  |-> {o.repoID}]]
    /\ componentToTeam' = [componentToTeam EXCEPT ![o.component] = o.team]
    /\ repoToComponent' = [repoToComponent EXCEPT ![o.repoID] = o.component]
    /\ UNCHANGED cicdVars

AddRepoOnboarding(o) ==
    /\ teams' = teams \cup {o.team}
    /\ components' =
           [stripFromPrevious(o) EXCEPT
               ![o.component] = [name     |-> o.component,
                                 teamName |-> o.team,
                                 repoIDs  |-> @.repoIDs \cup {o.repoID}]]
    /\ componentToTeam' = [componentToTeam EXCEPT ![o.component] = o.team]
    /\ repoToComponent' = [repoToComponent EXCEPT ![o.repoID] = o.component]
    /\ UNCHANGED cicdVars

AddWorkflow(w, repoIDs) ==
    /\ workflows' = [workflows EXCEPT ![w] = [id |-> w, repoIDs |-> repoIDs]]
    /\ UNCHANGED <<ownershipVars, workflowRuns, workflowTasks>>

AddWorkflowRun(n, w) ==
    /\ workflowRuns' = [workflowRuns EXCEPT ![n] = w]
    /\ UNCHANGED <<ownershipVars, workflows, workflowTasks>>

AddWorkflowTask(n) ==
    /\ workflowTasks' = workflowTasks \cup {n}
    /\ UNCHANGED <<ownershipVars, workflows, workflowRuns>>

\* The writes that no component or onboarding event makes.
OtherAdd ==
    \/ \E t \in Team : AddTeam(t)
    \/ \E w \in Workflow, repoIDs \in SUBSET Repo : AddWorkflow(w, repoIDs)
    \/ \E n \in Run, w \in Workflow : AddWorkflowRun(n, w)
    \/ \E n \in Run : AddWorkflowTask(n)

Next ==
    \/ \E comp \in ComponentEvent : AddComponent(comp)
    \/ \E o \in OnboardingEvent : AddRepoOnboarding(o)
    \/ OtherAdd

Spec == Init /\ [][Next]_vars

-----------------------------------------------------------------------------
\* Queries.  A query's snapshot is the current state.

workflowRepos(w) == IF w = NoName THEN {} ELSE workflows[w].repoIDs

workflowOwners(w) == owners(repoToComponent, componentToTeam, workflowRepos(w))

\* The owners a run, or any of its tasks, is projected with.  A task whose run
\* is not stored yet has the empty workflow id, and so the unknown owner.
projectedOwners(n) == workflowOwners(workflowRuns[n])

OwnershipDiagnostics ==
    [w \in {v \in Workflow : workflows[v].id # NoName} |->
        diagnose(repoToComponent, componentToTeam, workflowRepos(w))]

QueryTeams == teams \cup {Unknown}

-----------------------------------------------------------------------------
\* The maps and indexes hold values of their Go types.
TypeOK ==
    /\ teams \subseteq Team
    /\ components \in [Component -> ComponentRecord]
    /\ componentToTeam \in [Component -> Team \cup {NoName}]
    /\ repoToComponent \in [Repo -> Component \cup {NoName}]
    /\ workflows \in [Workflow -> WorkflowRecord]
    /\ workflowRuns \in [Run -> Workflow \cup {NoName}]
    /\ workflowTasks \subseteq Run

\* The reverse indexes that AddComponent and AddRepoOnboarding maintain by
\* hand never drift from the stored components: a repo is indexed only under
\* a component that is stored and lists it, and the indexed team of a
\* component is the stored one.
IndexesAgree ==
    /\ \A r \in Repo : repoToComponent[r] # NoName =>
           /\ components[repoToComponent[r]].name = repoToComponent[r]
           /\ r \in components[repoToComponent[r]].repoIDs
    /\ \A c \in Component : componentToTeam[c] = components[c].teamName

\* Every owner that projectWorkflowRun and projectWorkflowTask report, other
\* than the unknown fallback, is backed by a stored component that lists one
\* of the workflow's repos and carries the reported team.
OwnersAreBacked ==
    \A n \in Run : \A o \in projectedOwners(n) : o # UnknownOwner =>
        \E r \in workflowRepos(workflowRuns[n]) :
            /\ r \in components[o.component].repoIDs
            /\ components[o.component].name = o.component
            /\ \/ components[o.component].teamName = o.team
               \/ components[o.component].teamName = NoName /\ o.team = Unknown

\* The diagnostics endpoint explains what queries return: "ok" exactly when
\* some owner has a real team, "no_team_for_component" exactly when components
\* resolve but none has a team, the other reasons exactly when the only owner
\* is the unknown fallback.  diagnose and owners are separate code paths.
DiagnosisExplainsOwners ==
    \A w \in DOMAIN OwnershipDiagnostics :
        LET reason == OwnershipDiagnostics[w]
            os     == workflowOwners(w)
        IN  /\ (reason = "ok") <=> (\E o \in os : o.team # Unknown)
            /\ (reason = "no_team_for_component") <=>
                   (ownerTeams(os) = {Unknown} /\ Unknown \notin ownerComponents(os))
            /\ (reason \in {"missing_repo_id", "no_component_for_repo"}) <=>
                   (os = {UnknownOwner})

\* An onboarding event's effect is already visible in the store.
applied(o) ==
    /\ o.team \in teams
    /\ components[o.component].teamName = o.team
    /\ o.repoID \in components[o.component].repoIDs
    /\ repoToComponent[o.repoID] = o.component

\* AddRepoOnboarding is idempotent: a redelivered event that is still in
\* effect changes nothing, so no step that changes the store applies one.
OnboardingIdempotent ==
    [][\A o \in OnboardingEvent : applied(o) => ~AddRepoOnboarding(o)]_vars

\* What memory.go:140 and ADR-007 say of AddRepoOnboarding: afterwards no other
\* component lists the repo.
OnboardingLeavesNoOtherMember ==
    [][\A o \in OnboardingEvent : AddRepoOnboarding(o) =>
           \A c \in Component \ {o.component} :
               o.repoID \notin components'[c].repoIDs]_vars
=============================================================================
