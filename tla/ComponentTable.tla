--------------------------- MODULE ComponentTable ---------------------------
(***************************************************************************)
(* What ADR-007 promises about component membership, each event atomic: a  *)
(* component event replaces the component, an onboarding event stores the  *)
(* team, takes the repo from every other component and adds it to its own. *)
(***************************************************************************)
CONSTANTS Repo, Component, Team

VARIABLES teams,      \* stored team names
          components  \* component name -> stored component

upsertTarget(comp, o) ==
    [name |-> o.component, teamName |-> o.team, repoIDs |-> comp.repoIDs \cup {o.repoID}]

StoreTeam(t) == teams' = teams \cup {t} /\ UNCHANGED components

Replace(comp) ==
    /\ components' = [components EXCEPT ![comp.name] = comp]
    /\ UNCHANGED teams

Onboard(o) ==
    /\ teams' = teams \cup {o.team}
    /\ components' = [c \in Component |->
           IF c = o.component THEN upsertTarget(components[c], o)
           ELSE [components[c] EXCEPT !.repoIDs = @ \ {o.repoID}]]

Next ==
    \/ \E t \in Team : StoreTeam(t)
    \/ \E comp \in [name : Component, teamName : Team, repoIDs : SUBSET Repo \ {{}}] :
           Replace(comp)
    \/ \E o \in [repoID : Repo, component : Component, team : Team] : Onboard(o)
=============================================================================
