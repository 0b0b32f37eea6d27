-------------------------- MODULE OwnershipEvents ---------------------------
(***************************************************************************)
(* MemoryRepository with an auxiliary variable: the ownership event that   *)
(* was applied last.  It ties each step to the event that caused it, so    *)
(* that an event the repository ignores, or applies in part, is not        *)
(* mistaken for another event or for no step at all.                       *)
(***************************************************************************)
EXTENDS MemoryRepository

VARIABLE event

claimOf(comp) == [kind |-> "claim", component |-> comp.name, team |-> comp.teamName,
                  repos |-> comp.repoIDs]
moveOf(o) == [kind |-> "move", component |-> o.component, team |-> o.team,
              repos |-> {o.repoID}]

Promise == INSTANCE OwnershipMap
           WITH ownerOf <- repoToComponent, teamOf <- componentToTeam

EventsInit == Init /\ event = Promise!NoEvent

\* HandleComponent and HandleRepoOnboarding pass an event on; the other events
\* are no ownership events.
EventsNext ==
    \/ \E comp \in ComponentEvent : AddComponent(comp) /\ event' = claimOf(comp)
    \/ \E o \in OnboardingEvent : AddRepoOnboarding(o) /\ event' = moveOf(o)
    \/ OtherAdd /\ UNCHANGED event

EventsSpec == EventsInit /\ [][EventsNext]_<<vars, event>>

\* The incremental indexes implement last-write-wins ownership: after every
\* component or onboarding event, each repo of the event belongs to its
\* component and the component to its team, whoever held them before; a
\* component event releases exactly the repos it no longer lists; and no other
\* owner changes, by these events or by any other step.
LastWriteWins == Promise!Spec
=============================================================================
