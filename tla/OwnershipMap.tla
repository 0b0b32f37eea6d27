---------------------------- MODULE OwnershipMap ----------------------------
(***************************************************************************)
(* What the domain promises about repository ownership, with no indexes:   *)
(* every repo has at most one owning component, every component at most    *)
(* one team, and the last write wins (ADR-006, ADR-007).  Each step        *)
(* applies one event, in full:                                             *)
(*                                                                         *)
(*   claim  a component event: the component owns exactly the repos the    *)
(*          event lists, and releases the ones it owned and no longer      *)
(*          lists;                                                         *)
(*   move   a self-onboarding event: one repo changes owner, every other   *)
(*          repo keeps its own.                                            *)
(***************************************************************************)
CONSTANTS Repo, Component, Team, NoName

VARIABLES event,    \* the event applied last
          ownerOf,  \* repo -> owning component, NoName when it has none
          teamOf    \* component -> team, NoName when it has none

NoEvent == [kind |-> "none", component |-> NoName, team |-> NoName, repos |-> {}]

Claims == [kind : {"claim"}, component : Component, team : Team \cup {NoName},
           repos : SUBSET Repo]
Moves == [kind : {"move"}, component : Component, team : Team,
          repos : {{r} : r \in Repo}]

Init == /\ event = NoEvent
        /\ ownerOf = [r \in Repo |-> NoName]
        /\ teamOf = [c \in Component |-> NoName]

\* Whatever was there before, the event's repos belong to its component now and
\* the component to the event's team.
Apply(e) ==
    /\ event' = e
    /\ teamOf' = [teamOf EXCEPT ![e.component] = e.team]
    /\ ownerOf' = [r \in Repo |->
           IF r \in e.repos THEN e.component
           ELSE IF e.kind = "claim" /\ ownerOf[r] = e.component THEN NoName
           ELSE ownerOf[r]]

Next == \E e \in Claims \cup Moves : Apply(e)

Spec == Init /\ [][Next]_<<event, ownerOf, teamOf>>
=============================================================================
