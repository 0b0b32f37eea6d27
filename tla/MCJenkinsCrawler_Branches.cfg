CONSTANTS
    Job = {main, feature}
    Pipeline = {lib}
    pipelinePath <- OnePipeline
    Build = {b1, b2, b3}
    NoBuild = NoBuild
    Repo = {app}
    remoteRepos <- OneBuildHasAll
    repoOverrides <- NoOverrides
    MaxResets = 1
    MaxFaults = 1
SPECIFICATION Spec
INVARIANTS TypeOK NothingElseIsSkipped
SYMMETRY Branches
