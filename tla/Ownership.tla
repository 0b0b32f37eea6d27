----------------------------- MODULE Ownership -----------------------------
(***************************************************************************)
(* How a workflow's owners are derived from the ownership indexes, as both *)
(* repositories do it (newOwnerLookup in memory.go, shared by sqlite.go):  *)
(* workflow -> repos -> component -> team.  rtc maps a repo to its         *)
(* component's name, ct a component's name to its team's name; an absent   *)
(* key reads as the empty string, NoName, as in a Go map.                  *)
(*                                                                         *)
(* A workflow's repo list is a set here: its order only orders the         *)
(* emitted arrays, and duplicates are collapsed by the code.               *)
(***************************************************************************)
CONSTANTS NoName,   \* the empty string
          Unknown   \* the fallback label "unknown"

Owner(compName, teamName) == [component |-> compName, team |-> teamName]

UnknownOwner == Owner(Unknown, Unknown)

\* The outcome of resolving a single repo, as reported per repo by diagnose.
resolveRepo(rtc, ct, repoID) ==
    IF rtc[repoID] = NoName THEN "no_component_for_repo"
    ELSE IF ct[rtc[repoID]] = NoName THEN "no_team_for_component"
    ELSE "ok"

teamOrUnknown(ct, compName) ==
    IF ct[compName] = NoName THEN Unknown ELSE ct[compName]

\* Mutant: only one of the owned repos decides (the behaviour ADR-007 replaced).
owners_OneRepoDecides(rtc, ct, repoIDs) ==
    LET owned == {q \in repoIDs : rtc[q] # NoName}
        r     == CHOOSE q \in owned : TRUE
    IN  IF owned = {} THEN {UnknownOwner}
        ELSE {Owner(rtc[r], teamOrUnknown(ct, rtc[r]))}

\* Every repo that maps to a component contributes that component's owner pair.
owners(rtc, ct, repoIDs) ==
    LET resolved == {Owner(rtc[r], teamOrUnknown(ct, rtc[r])) :
                        r \in {q \in repoIDs : rtc[q] # NoName}}
    IN  IF resolved = {} THEN {UnknownOwner} ELSE resolved

ownerComponents(ownerSet) == {o.component : o \in ownerSet}

ownerTeams(ownerSet) == {o.team : o \in ownerSet}

\* The workflow's overall reason, computed from the per-repo outcomes.
diagnose(rtc, ct, repoIDs) ==
    LET perRepo == {resolveRepo(rtc, ct, r) : r \in repoIDs}
    IN  IF repoIDs = {} THEN "missing_repo_id"
        ELSE IF "ok" \in perRepo THEN "ok"
        ELSE IF "no_team_for_component" \in perRepo THEN "no_team_for_component"
        ELSE "no_component_for_repo"
=============================================================================
