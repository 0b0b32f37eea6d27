-------------------------- MODULE SQLiteRepository --------------------------
(***************************************************************************)
(* SQLiteRepository (internal/domain/repo/sqlite.go): the teams and the    *)
(* components tables, written by the consumers of three subjects that run  *)
(* concurrently.  SQLiteQueries adds the other tables and the queries.     *)
(*                                                                         *)
(* AddTeam and AddComponent are single statements.  AddRepoOnboarding is a *)
(* transaction of several: its first statement, the team's INSERT, takes   *)
(* SQLite's write lock, the components are then read and rewritten, and    *)
(* other connections see nothing until Commit (WAL).  Any statement may    *)
(* fail, which returns through the deferred Rollback, and the process may  *)
(* crash, which loses the transaction and keeps the tables.  A writer that *)
(* finds the lock taken waits; one that gives up after busy_timeout        *)
(* returns an error and has changed nothing, so it needs no action.        *)
(*                                                                         *)
(* Component names are numbers: the order of ORDER BY name.  What a        *)
(* transaction has read is a local variable: a return forgets it.          *)
(***************************************************************************)
EXTENDS Integers

CONSTANTS Repo,       \* repo ids
          Component,  \* component names, ordered as their strings are
          Team,       \* team names
          NoName,     \* the empty string
          NoEvent     \* no transaction is open

ASSUME TableAssumption ==
    /\ Component \subseteq Nat
    /\ NoName \notin Component \cup Team
    /\ NoEvent \notin [repoID : Repo, component : Component, team : Team]

VARIABLES teams,       \* committed team names
          components,  \* committed rows: component name -> model.Component
          tx,          \* "idle", or how far the open transaction has come
          txEvent,     \* the onboarding event the transaction applies
          txLoaded     \* the rows it has read

tables == <<teams, components>>
vars == <<teams, components, tx, txEvent, txLoaded>>

ComponentRecord ==
    [name : Component \cup {NoName}, teamName : Team \cup {NoName},
     repoIDs : SUBSET Repo]

ZeroComponent == [name |-> NoName, teamName |-> NoName, repoIDs |-> {}]
NoRows == [c \in Component |-> ZeroComponent]

\* The events the crawlers publish: the repo list of a component, its team
\* and both names of an onboarding event are validated before publishing.
ComponentEvent ==
    [name : Component, teamName : Team, repoIDs : SUBSET Repo \ {{}}]

OnboardingEvent == [repoID : Repo, component : Component, team : Team]

Init ==
    /\ teams = {}
    /\ components = NoRows
    /\ tx = "idle"
    /\ txEvent = NoEvent
    /\ txLoaded = NoRows

-----------------------------------------------------------------------------
\* The write lock is free.
unlocked == tx = "idle"

AddTeam(t) ==
    /\ unlocked
    /\ teams' = teams \cup {t}
    /\ UNCHANGED <<components, tx, txEvent, txLoaded>>

AddComponent(comp) ==
    /\ unlocked
    /\ components' = [components EXCEPT ![comp.name] = comp]
    /\ UNCHANGED <<teams, tx, txEvent, txLoaded>>

\* BeginTx and the INSERT of the team, invisible outside the transaction.
BeginOnboarding(o) ==
    /\ unlocked
    /\ tx' = "begun"
    /\ txEvent' = o
    /\ UNCHANGED <<tables, txLoaded>>

\* SELECT ... FROM components, inside the transaction.
LoadComponents ==
    /\ tx = "begun"
    /\ tx' = "loaded"
    /\ txLoaded' = components
    /\ UNCHANGED <<tables, txEvent>>

\* The target row as the transaction writes it, from the rows it has read.
targetRow(o) ==
    [name |-> o.component, teamName |-> o.team,
     repoIDs |-> txLoaded[o.component].repoIDs \cup {o.repoID}]

\* Mutant: the loop over the rows ends after the first one.
rowsWritten_FirstRowOnly(o) ==
    [c \in Component |->
        IF c = o.component THEN targetRow(o)
        ELSE IF o.repoID \in txLoaded[c].repoIDs /\ \A d \in Component : c <= d
             THEN [txLoaded[c] EXCEPT !.repoIDs = @ \ {o.repoID}]
        ELSE components[c]]

\* The components once the transaction's UPDATEs (the repo stripped from every
\* other row that lists it) and its upsert are visible.
rowsWritten(o) ==
    [c \in Component |->
        IF c = o.component THEN targetRow(o)
        ELSE IF o.repoID \in txLoaded[c].repoIDs
             THEN [txLoaded[c] EXCEPT !.repoIDs = @ \ {o.repoID}]
        ELSE components[c]]

CommitOnboarding ==
    /\ tx = "loaded"
    /\ teams' = teams \cup {txEvent.team}
    /\ components' = rowsWritten(txEvent)
    /\ tx' = "idle"
    /\ txEvent' = NoEvent
    /\ txLoaded' = NoRows

\* A statement of the transaction, or its Commit, returns an error.
FailOnboarding ==
    /\ tx \in {"begun", "loaded"}
    /\ tx' = "failed"
    /\ txLoaded' = NoRows
    /\ UNCHANGED <<tables, txEvent>>

\* Mutant: the error path returns without rolling back.
RollbackOnboarding_Forgotten ==
    /\ tx = "failed"
    /\ UNCHANGED vars

\* Mutant: the lock is released and the failed event kept for a retry.
RollbackOnboarding_KeepsEvent ==
    /\ tx = "failed"
    /\ tx' = "idle"
    /\ UNCHANGED <<tables, txEvent, txLoaded>>

\* The deferred Rollback releases the lock.
RollbackOnboarding ==
    /\ tx = "failed"
    /\ tx' = "idle"
    /\ txEvent' = NoEvent
    /\ UNCHANGED <<tables, txLoaded>>

\* Mutant: what the transaction wrote so far survives the crash.
Crash_KeepsStrippedRows ==
    /\ tx # "idle"
    /\ components' = IF tx # "loaded" THEN components
                     ELSE [rowsWritten(txEvent) EXCEPT
                              ![txEvent.component] = components[txEvent.component]]
    /\ tx' = "idle"
    /\ txEvent' = NoEvent
    /\ txLoaded' = NoRows
    /\ UNCHANGED teams

\* The process dies in the middle of a transaction and is started again:
\* SQLite discards the uncommitted writes.
Crash ==
    /\ tx # "idle"
    /\ tx' = "idle"
    /\ txEvent' = NoEvent
    /\ txLoaded' = NoRows
    /\ UNCHANGED tables

Write ==
    \/ \E t \in Team : AddTeam(t)
    \/ \E comp \in ComponentEvent : AddComponent(comp)
    \/ \E o \in OnboardingEvent : BeginOnboarding(o)
    \/ LoadComponents
    \/ CommitOnboarding
    \/ FailOnboarding
    \/ RollbackOnboarding

Next == Write \/ Crash

\* A statement that is running returns (busy_timeout bounds its wait), and a
\* function that returns runs its deferred calls.
Fairness == WF_vars(LoadComponents \/ CommitOnboarding \/ FailOnboarding)
            /\ WF_vars(RollbackOnboarding)

Spec == Init /\ [][Next]_vars /\ Fairness

-----------------------------------------------------------------------------
\* The tables hold rows of the schema; an event is open exactly in a
\* transaction.
TypeOK ==
    /\ teams \subseteq Team
    /\ components \in [Component -> ComponentRecord]
    /\ tx \in {"idle", "begun", "loaded", "failed"}
    /\ txEvent \in OnboardingEvent \cup {NoEvent}
    /\ (tx = "idle") <=> (txEvent = NoEvent)
    /\ txLoaded \in [Component -> ComponentRecord]

\* The multi-statement transaction, with its failures and crashes, implements
\* atomic onboarding: the tables only ever change by one whole event.
Table == INSTANCE ComponentTable
OnboardingIsAtomic == [][Table!Next]_tables

\* What ADR-007 says of an onboarding event: afterwards no other component
\* lists the repo.  (MemoryRepository does not have this property.)
OnboardingLeavesNoOtherMember ==
    [][\A r \in Repo, c \in Component :
           (CommitOnboarding /\ txEvent.repoID = r /\ txEvent.component # c)
               => r \notin components'[c].repoIDs]_vars

\* The write lock that BeginOnboarding takes is always given back, on every
\* error path.
LockIsReleased == (tx # "idle") ~> (tx = "idle")
=============================================================================
