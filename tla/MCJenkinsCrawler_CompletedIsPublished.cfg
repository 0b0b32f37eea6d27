CONSTANTS
    Job = {main}
    Pipeline = {lib}
    pipelinePath <- OnePipeline
    Build = {b1, b2}
    NoBuild = NoBuild
    Repo = {app}
    remoteRepos <- OneBuildHasAll
    repoOverrides <- NoOverrides
    MaxResets = 0
    MaxFaults = 0
SPECIFICATION Spec
PROPERTY CompletedIsPublished
