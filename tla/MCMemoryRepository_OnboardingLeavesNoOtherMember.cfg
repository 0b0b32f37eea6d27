CONSTANTS
    NoName = NoName
    Unknown = Unknown
    Repo = {r1, r2}
    Component = {c1, c2, c3}
    Team = {t1}
    EventTeam <- WithTeam
    Workflow = {w1}
    Run = {n1}
SPECIFICATION EventsSpec
PROPERTY OnboardingLeavesNoOtherMember
