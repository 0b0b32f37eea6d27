CONSTANTS
    NoName = NoName
    NoEvent = NoEvent
    Unknown = Unknown
    Repo = {r1}
    Component = {1, 2}
    Team = {t1}
    Workflow = {w1}
    Run = {b1}
    Task = {s1}
    workflowOf <- MCworkflowOf
    runOf <- MCrunOf
SPECIFICATION QueriesSpec
INVARIANTS TypeOK ReferencesResolve OwnedReposStayOwned
PROPERTIES OnboardingIsAtomic OnboardingLeavesNoOtherMember LockIsReleased
