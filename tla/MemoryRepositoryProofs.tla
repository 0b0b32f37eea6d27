----------------------- MODULE MemoryRepositoryProofs -----------------------
(***************************************************************************)
(* Proofs about MemoryRepository, for every set of repos, components,      *)
(* teams, workflows and runs.                                              *)
(*                                                                         *)
(* IndexesAgree is inductive together with TypeOK, and everything else     *)
(* rests on it: AddComponent looks for stale index entries only among the  *)
(* repos of the component's previous version, which finds all of them      *)
(* exactly because an indexed repo is always listed by its component.      *)
(***************************************************************************)
EXTENDS OwnershipEvents, TLAPS

IndInv == TypeOK /\ IndexesAgree

\* Init establishes the inductive invariant: all maps are empty.
LEMMA InitIndInv == Init => IndInv
  <1> SUFFICES ASSUME Init PROVE IndInv
    OBVIOUS
  <1>1. TypeOK
    BY DEF Init, TypeOK, ComponentRecord, ZeroComponent, WorkflowRecord, ZeroWorkflow
  <1>2. IndexesAgree
    BY DEF Init, IndexesAgree, ZeroComponent
  <1> QED
    BY <1>1, <1>2 DEF IndInv

\* A component event keeps the indexes and the components in agreement.
LEMMA AddComponentIndInv ==
    ASSUME IndInv, NEW comp \in ComponentEvent, AddComponent(comp)
    PROVE  IndInv'
  <1> DEFINE c == comp.name
  <1>1. /\ c \in Component
        /\ comp.teamName \in Team \cup {NoName}
        /\ comp.repoIDs \in SUBSET Repo
        /\ comp \in ComponentRecord
    BY NamesAssumption DEF ComponentEvent, ComponentRecord
  <1>2. TypeOK'
    BY <1>1 DEF IndInv, TypeOK, AddComponent, cicdVars
  <1>3. ASSUME NEW r \in Repo, repoToComponent'[r] # NoName
        PROVE  /\ components'[repoToComponent'[r]].name = repoToComponent'[r]
               /\ r \in components'[repoToComponent'[r]].repoIDs
    <2>1. CASE r \in comp.repoIDs
      BY <1>1, <2>1 DEF IndInv, TypeOK, AddComponent
    <2>2. CASE r \notin comp.repoIDs
      <3>1. repoToComponent'[r] = repoToComponent[r]
        BY <1>3, <2>2 DEF AddComponent
      <3>2. repoToComponent[r] # c
        BY <1>1, <1>3, <2>2, <3>1 DEF IndInv, IndexesAgree, AddComponent
      <3>3. components'[repoToComponent[r]] = components[repoToComponent[r]]
        BY <1>1, <1>3, <3>1, <3>2 DEF IndInv, TypeOK, AddComponent
      <3> QED
        BY <1>3, <3>1, <3>3 DEF IndInv, IndexesAgree
    <2> QED
      BY <2>1, <2>2
  <1>4. ASSUME NEW d \in Component
        PROVE  componentToTeam'[d] = components'[d].teamName
    BY <1>1 DEF IndInv, IndexesAgree, TypeOK, AddComponent
  <1> QED
    BY <1>2, <1>3, <1>4 DEF IndInv, IndexesAgree

\* stripFromPrevious touches no component but the one the index names, and
\* takes from it no repo but the onboarded one.
LEMMA StripProperties ==
    ASSUME TypeOK, NEW o \in OnboardingEvent
    PROVE  /\ stripFromPrevious(o) \in [Component -> ComponentRecord]
           /\ \A d \in Component :
                  /\ stripFromPrevious(o)[d].name = components[d].name
                  /\ stripFromPrevious(o)[d].teamName = components[d].teamName
                  /\ components[d].repoIDs \ {o.repoID}
                         \subseteq stripFromPrevious(o)[d].repoIDs
  BY NamesAssumption DEF TypeOK, OnboardingEvent, stripFromPrevious, ComponentRecord

\* A self-onboarding event keeps the indexes and the components in agreement.
LEMMA AddRepoOnboardingIndInv ==
    ASSUME IndInv, NEW o \in OnboardingEvent, AddRepoOnboarding(o)
    PROVE  IndInv'
  <1> DEFINE S == stripFromPrevious(o)
  <1>1. o.repoID \in Repo /\ o.component \in Component /\ o.team \in Team
    BY DEF OnboardingEvent
  <1>2. /\ S \in [Component -> ComponentRecord]
        /\ \A d \in Component :
               /\ S[d].name = components[d].name
               /\ S[d].teamName = components[d].teamName
               /\ components[d].repoIDs \ {o.repoID} \subseteq S[d].repoIDs
    BY StripProperties DEF IndInv
  <1>3. components' = [S EXCEPT ![o.component] =
                          [name |-> o.component, teamName |-> o.team,
                           repoIDs |-> S[o.component].repoIDs \cup {o.repoID}]]
    BY DEF AddRepoOnboarding
  <1> HIDE DEF S
  <1>4. components' \in [Component -> ComponentRecord]
    BY <1>1, <1>2, <1>3 DEF ComponentRecord
  <1>5. TypeOK'
    BY <1>1, <1>4 DEF IndInv, TypeOK, AddRepoOnboarding, cicdVars
  <1>6. ASSUME NEW r \in Repo, repoToComponent'[r] # NoName
        PROVE  /\ components'[repoToComponent'[r]].name = repoToComponent'[r]
               /\ r \in components'[repoToComponent'[r]].repoIDs
    <2>1. CASE r = o.repoID
      BY <1>1, <1>2, <1>3, <2>1 DEF IndInv, TypeOK, AddRepoOnboarding
    <2>2. CASE r # o.repoID
      <3>1. /\ repoToComponent'[r] = repoToComponent[r]
            /\ repoToComponent[r] \in Component
        BY <1>1, <1>6, <2>2 DEF IndInv, TypeOK, AddRepoOnboarding
      <3>2. /\ components[repoToComponent[r]].name = repoToComponent[r]
            /\ r \in components[repoToComponent[r]].repoIDs
        BY <1>6, <3>1 DEF IndInv, IndexesAgree
      <3> QED
        BY <1>1, <1>2, <1>3, <2>2, <3>1, <3>2
    <2> QED
      BY <2>1, <2>2
  <1>7. ASSUME NEW d \in Component
        PROVE  componentToTeam'[d] = components'[d].teamName
    BY <1>1, <1>2, <1>3 DEF IndInv, IndexesAgree, TypeOK, AddRepoOnboarding
  <1> QED
    BY <1>5, <1>6, <1>7 DEF IndInv, IndexesAgree

\* Every step of the repository, and every stuttering step, keeps IndInv.
LEMMA NextIndInv == IndInv /\ [Next]_vars => IndInv'
  <1> SUFFICES ASSUME IndInv, [Next]_vars PROVE IndInv'
    OBVIOUS
  <1>1. ASSUME NEW t \in Team, AddTeam(t) PROVE IndInv'
    BY <1>1 DEF IndInv, TypeOK, IndexesAgree, AddTeam, cicdVars
  <1>2. ASSUME NEW comp \in ComponentEvent, AddComponent(comp) PROVE IndInv'
    BY <1>2, AddComponentIndInv
  <1>3. ASSUME NEW o \in OnboardingEvent, AddRepoOnboarding(o) PROVE IndInv'
    BY <1>3, AddRepoOnboardingIndInv
  <1>4. ASSUME NEW w \in Workflow, NEW repoIDs \in SUBSET Repo, AddWorkflow(w, repoIDs)
        PROVE  IndInv'
    BY <1>4 DEF IndInv, TypeOK, IndexesAgree, AddWorkflow, ownershipVars, WorkflowRecord
  <1>5. ASSUME NEW n \in Run, NEW w \in Workflow, AddWorkflowRun(n, w) PROVE IndInv'
    BY <1>5 DEF IndInv, TypeOK, IndexesAgree, AddWorkflowRun, ownershipVars
  <1>6. ASSUME NEW n \in Run, AddWorkflowTask(n) PROVE IndInv'
    BY <1>6 DEF IndInv, TypeOK, IndexesAgree, AddWorkflowTask, ownershipVars
  <1>7. CASE UNCHANGED vars
    BY <1>7 DEF IndInv, TypeOK, IndexesAgree, vars, ownershipVars, cicdVars
  <1> QED
    BY <1>1, <1>2, <1>3, <1>4, <1>5, <1>6, <1>7 DEF Next, OtherAdd

\* The inductive invariant holds in every reachable state.
THEOREM IndInvHolds == Spec => []IndInv
  BY InitIndInv, NextIndInv, PTL DEF Spec

\* Every map and index always holds values of its type.
THEOREM TypeCorrect == Spec => []TypeOK
  <1>1. IndInv => TypeOK
    BY DEF IndInv
  <1> QED
    BY <1>1, IndInvHolds, PTL

\* repoToComponent and componentToTeam never drift from the components map.
THEOREM IndexesCorrect == Spec => []IndexesAgree
  <1>1. IndInv => IndexesAgree
    BY DEF IndInv
  <1> QED
    BY <1>1, IndInvHolds, PTL

-----------------------------------------------------------------------------
\* Every owner a query reports for a run is backed by a stored component that
\* lists one of the workflow's repos and carries the reported team.
THEOREM OwnersCorrect == Spec => []OwnersAreBacked
  <1>1. IndInv => OwnersAreBacked
    <2> SUFFICES ASSUME IndInv,
                        NEW n \in Run, NEW o \in projectedOwners(n), o # UnknownOwner
                 PROVE  \E r \in workflowRepos(workflowRuns[n]) :
                            /\ r \in components[o.component].repoIDs
                            /\ components[o.component].name = o.component
                            /\ \/ components[o.component].teamName = o.team
                               \/ /\ components[o.component].teamName = NoName
                                  /\ o.team = Unknown
      BY DEF OwnersAreBacked
    <2> DEFINE R == workflowRepos(workflowRuns[n])
    <2>1. R \subseteq Repo
      BY DEF IndInv, TypeOK, workflowRepos, WorkflowRecord
    <2>2. PICK r \in R : /\ repoToComponent[r] # NoName
                         /\ o = Owner(repoToComponent[r],
                                      teamOrUnknown(componentToTeam, repoToComponent[r]))
      BY DEF projectedOwners, workflowOwners, owners
    <2>3. /\ o.component = repoToComponent[r]
          /\ o.team = teamOrUnknown(componentToTeam, repoToComponent[r])
      BY <2>2 DEF Owner
    <2>4. repoToComponent[r] \in Component
      BY <2>1, <2>2 DEF IndInv, TypeOK
    <2> QED
      BY <2>1, <2>2, <2>3, <2>4 DEF IndInv, IndexesAgree, teamOrUnknown
  <1> QED
    BY <1>1, IndInvHolds, PTL

-----------------------------------------------------------------------------
\* The two resolution paths agree on any well-typed indexes: what diagnose
\* reports is what owners returns.
LEMMA DiagnoseVersusOwners ==
    ASSUME TypeOK, NEW R \in SUBSET Repo
    PROVE  LET reason == diagnose(repoToComponent, componentToTeam, R)
               os     == owners(repoToComponent, componentToTeam, R)
           IN  /\ (reason = "ok") <=> (\E o \in os : o.team # Unknown)
               /\ (reason = "no_team_for_component") <=>
                      (ownerTeams(os) = {Unknown} /\ Unknown \notin ownerComponents(os))
               /\ (reason \in {"missing_repo_id", "no_component_for_repo"}) <=>
                      (os = {UnknownOwner})
  <1> DEFINE out(r) == resolveRepo(repoToComponent, componentToTeam, r)
             pair(r) == Owner(repoToComponent[r],
                              teamOrUnknown(componentToTeam, repoToComponent[r]))
             owned == {q \in R : repoToComponent[q] # NoName}
             os == owners(repoToComponent, componentToTeam, R)
             reason == diagnose(repoToComponent, componentToTeam, R)
  <1>1. ASSUME NEW r \in R
        PROVE  /\ out(r) = "ok" <=> r \in owned /\ pair(r).team # Unknown
               /\ out(r) = "no_team_for_component" <=> r \in owned /\ pair(r).team = Unknown
               /\ out(r) = "no_component_for_repo" <=> r \notin owned
               /\ out(r) \in {"ok", "no_team_for_component", "no_component_for_repo"}
               /\ r \in owned => pair(r).component # Unknown
    <2>1. repoToComponent[r] \in Component \cup {NoName}
      BY DEF TypeOK
    <2>2. /\ pair(r).component = repoToComponent[r]
          /\ pair(r).team = teamOrUnknown(componentToTeam, repoToComponent[r])
      BY DEF Owner
    <2>3. r \in owned <=> repoToComponent[r] # NoName
      OBVIOUS
    <2>4. r \in owned => componentToTeam[repoToComponent[r]] \in Team \cup {NoName}
      BY <2>1 DEF TypeOK
    <2> QED
      BY <2>1, <2>2, <2>3, <2>4, NamesAssumption DEF resolveRepo, teamOrUnknown
  <1>2. os = IF owned = {} THEN {UnknownOwner} ELSE {pair(r) : r \in owned}
    BY DEF owners
  <1>3. reason = IF R = {} THEN "missing_repo_id"
                 ELSE IF \E r \in R : out(r) = "ok" THEN "ok"
                 ELSE IF \E r \in R : out(r) = "no_team_for_component"
                      THEN "no_team_for_component"
                 ELSE "no_component_for_repo"
    BY DEF diagnose
  <1>4. UnknownOwner.component = Unknown /\ UnknownOwner.team = Unknown
    BY DEF UnknownOwner, Owner
  <1> HIDE DEF out, pair, os, reason
  <1>5. (reason = "ok") <=> (\E o \in os : o.team # Unknown)
    BY <1>1, <1>2, <1>3, <1>4
  <1>6. (reason = "no_team_for_component") <=>
            (ownerTeams(os) = {Unknown} /\ Unknown \notin ownerComponents(os))
    <2>1. CASE owned = {}
      BY <1>1, <1>2, <1>3, <1>4, <2>1 DEF ownerTeams, ownerComponents
    <2>2. CASE owned # {}
      <3>1. os = {pair(r) : r \in owned}
        BY <1>2, <2>2
      <3>2. Unknown \notin ownerComponents(os)
        BY <1>1, <3>1 DEF ownerComponents
      <3>3. ownerTeams(os) = {pair(r).team : r \in owned}
        BY <3>1 DEF ownerTeams
      <3>4. (ownerTeams(os) = {Unknown}) <=> (\A r \in owned : pair(r).team = Unknown)
        BY <2>2, <3>3
      <3> QED
        BY <1>1, <1>3, <2>2, <3>2, <3>4
    <2> QED
      BY <2>1, <2>2
  <1>7. (reason \in {"missing_repo_id", "no_component_for_repo"}) <=> (os = {UnknownOwner})
    <2>1. CASE owned = {}
      BY <1>1, <1>2, <1>3, <2>1
    <2>2. CASE owned # {}
      <3>1. os # {UnknownOwner}
        BY <1>1, <1>2, <1>4, <2>2
      <3> QED
        BY <1>1, <1>3, <2>2, <3>1
    <2> QED
      BY <2>1, <2>2
  <1> QED
    BY <1>5, <1>6, <1>7 DEF os, reason

\* The diagnostics endpoint always explains what the queries return.
THEOREM DiagnosisCorrect == Spec => []DiagnosisExplainsOwners
  <1>1. IndInv => DiagnosisExplainsOwners
    <2> SUFFICES ASSUME IndInv, NEW w \in DOMAIN OwnershipDiagnostics
                 PROVE  LET reason == OwnershipDiagnostics[w]
                            os     == workflowOwners(w)
                        IN  /\ (reason = "ok") <=> (\E o \in os : o.team # Unknown)
                            /\ (reason = "no_team_for_component") <=>
                                   (/\ ownerTeams(os) = {Unknown}
                                    /\ Unknown \notin ownerComponents(os))
                            /\ (reason \in {"missing_repo_id", "no_component_for_repo"})
                                   <=> (os = {UnknownOwner})
      BY DEF DiagnosisExplainsOwners
    <2>1. w \in Workflow
      BY DEF OwnershipDiagnostics
    <2>2. workflowRepos(w) \in SUBSET Repo
      BY <2>1 DEF IndInv, TypeOK, workflowRepos, WorkflowRecord
    <2>3. OwnershipDiagnostics[w]
              = diagnose(repoToComponent, componentToTeam, workflowRepos(w))
      BY DEF OwnershipDiagnostics
    <2> QED
      BY <2>2, <2>3, DiagnoseVersusOwners DEF IndInv, workflowOwners
  <1> QED
    BY <1>1, IndInvHolds, PTL

-----------------------------------------------------------------------------
\* Under IndInv, a component event is applied as the abstract map applies it: the
\* stale entries AddComponent finds are all the entries there are.
LEMMA AddComponentClaims ==
    ASSUME IndInv, NEW comp \in ComponentEvent, AddComponent(comp), event' = claimOf(comp)
    PROVE  Promise!Apply(claimOf(comp)) /\ claimOf(comp) \in Promise!Claims
  <1>1. /\ comp.name \in Component
        /\ comp.teamName \in Team \cup {NoName}
        /\ comp.repoIDs \in SUBSET Repo
    BY NamesAssumption DEF ComponentEvent
  <1>2. ASSUME NEW r \in Repo
        PROVE  (r \in components[comp.name].repoIDs /\ repoToComponent[r] = comp.name)
                   <=> repoToComponent[r] = comp.name
    BY <1>1, NamesAssumption DEF IndInv, IndexesAgree
  <1>3. repoToComponent' =
            [r \in Repo |-> IF r \in comp.repoIDs THEN comp.name
                            ELSE IF repoToComponent[r] = comp.name THEN NoName
                            ELSE repoToComponent[r]]
    BY <1>2 DEF AddComponent
  <1>4. Promise!Apply(claimOf(comp))
    BY <1>3 DEF AddComponent, claimOf, Promise!Apply
  <1> QED
    BY <1>1, <1>4 DEF claimOf, Promise!Claims

\* An onboarding event points its repo and its component where they belong and
\* leaves every other entry of the indexes alone.
LEMMA AddRepoOnboardingMoves ==
    ASSUME IndInv, NEW o \in OnboardingEvent, AddRepoOnboarding(o), event' = moveOf(o)
    PROVE  Promise!Apply(moveOf(o)) /\ moveOf(o) \in Promise!Moves
  <1>1. o.repoID \in Repo /\ o.component \in Component /\ o.team \in Team
    BY DEF OnboardingEvent
  <1>2. repoToComponent' = [r \in Repo |-> IF r \in {o.repoID} THEN o.component
                                           ELSE repoToComponent[r]]
    BY <1>1 DEF IndInv, TypeOK, AddRepoOnboarding
  <1>3. Promise!Apply(moveOf(o))
    BY <1>2 DEF AddRepoOnboarding, moveOf, Promise!Apply
  <1> QED
    BY <1>1, <1>3 DEF moveOf, Promise!Moves

\* The hand-maintained indexes implement last-write-wins ownership: each step is
\* the abstract step of the event it applies, and a step that applies none
\* changes no owner.
THEOREM ImplementsOwnershipMap == EventsSpec => LastWriteWins
  <1>1. EventsInit => Promise!Init
    BY DEF EventsInit, Init, Promise!Init
  <1>2. IndInv /\ [EventsNext]_<<vars, event>>
            => [Promise!Next]_<<event, repoToComponent, componentToTeam>>
    <2> SUFFICES ASSUME IndInv, [EventsNext]_<<vars, event>>
                 PROVE  [Promise!Next]_<<event, repoToComponent, componentToTeam>>
      OBVIOUS
    <2>1. ASSUME NEW comp \in ComponentEvent, AddComponent(comp), event' = claimOf(comp)
          PROVE  Promise!Next
      BY <2>1, AddComponentClaims DEF Promise!Next
    <2>2. ASSUME NEW o \in OnboardingEvent, AddRepoOnboarding(o), event' = moveOf(o)
          PROVE  Promise!Next
      BY <2>2, AddRepoOnboardingMoves DEF Promise!Next
    <2>3. ASSUME OtherAdd
          PROVE  UNCHANGED <<repoToComponent, componentToTeam>>
      BY <2>3 DEF OtherAdd, AddTeam, AddWorkflow, AddWorkflowRun, AddWorkflowTask, ownershipVars
    <2>4. CASE UNCHANGED <<vars, event>>
      BY <2>4 DEF vars, ownershipVars
    <2> QED
      BY <2>1, <2>2, <2>3, <2>4 DEF EventsNext
  <1>3. EventsInit /\ [][EventsNext]_<<vars, event>> => Spec
    <2>1. EventsInit => Init
      BY DEF EventsInit
    <2>2. [EventsNext]_<<vars, event>> => [Next]_vars
      BY DEF EventsNext, Next
    <2> QED
      BY <2>1, <2>2, PTL DEF Spec
  <1> QED
    BY <1>1, <1>2, <1>3, IndInvHolds, PTL DEF EventsSpec, LastWriteWins, Promise!Spec

-----------------------------------------------------------------------------
\* Re-applying an onboarding event that is still in effect changes nothing.
LEMMA ReapplyingChangesNothing ==
    ASSUME IndInv, NEW o \in OnboardingEvent, applied(o), AddRepoOnboarding(o)
    PROVE  UNCHANGED vars
  <1>1. o.repoID \in Repo /\ o.component \in Component /\ o.team \in Team
    BY DEF OnboardingEvent
  <1>2. stripFromPrevious(o) = components
    BY DEF applied, stripFromPrevious
  <1>3. [name |-> o.component, teamName |-> o.team,
         repoIDs |-> components[o.component].repoIDs \cup {o.repoID}]
            = components[o.component]
    <2>1. components[o.component] \in ComponentRecord
      BY <1>1 DEF IndInv, TypeOK
    <2>2. /\ components[o.component].name = o.component
          /\ components[o.component].teamName = o.team
          /\ components[o.component].repoIDs \cup {o.repoID}
                 = components[o.component].repoIDs
      BY <1>1, NamesAssumption DEF IndInv, IndexesAgree, applied
    <2> QED
      BY <2>1, <2>2 DEF ComponentRecord
  <1>4. components' = components
    BY <1>1, <1>2, <1>3 DEF IndInv, TypeOK, AddRepoOnboarding
  <1>5. /\ teams' = teams
        /\ componentToTeam' = componentToTeam
        /\ repoToComponent' = repoToComponent
    BY <1>1 DEF IndInv, TypeOK, IndexesAgree, applied, AddRepoOnboarding
  <1> QED
    BY <1>4, <1>5 DEF vars, ownershipVars, AddRepoOnboarding

\* AddRepoOnboarding is idempotent in every reachable state.
THEOREM OnboardingIsIdempotent == Spec => OnboardingIdempotent
  <1>1. IndInv /\ [Next]_vars =>
            [\A o \in OnboardingEvent : applied(o) => ~AddRepoOnboarding(o)]_vars
    BY ReapplyingChangesNothing
  <1> QED
    BY <1>1, IndInvHolds, PTL DEF Spec, OnboardingIdempotent
=============================================================================
