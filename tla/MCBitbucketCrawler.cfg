CONSTANTS
    NoSHA = NoSHA
    Repo = {r1}
    Commit = {a, b, c}
    MaxPR = 1
    MaxFaults = 2
SPECIFICATION Spec
INVARIANTS TypeOK CursorsCoverAttempted
PROPERTIES CommitsArePublished OnboardingFollowsPush PullRequestsConverge
