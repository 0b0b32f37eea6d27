-------------------------- MODULE MCJenkinsCrawler --------------------------
(* JenkinsCrawler for TLC: the jobs are branches of one pipeline. *)
EXTENDS JenkinsCrawler, TLC

\* Branches are alike: sound for the runs that check invariants.
Branches == Permutations(Job)

\* Every job belongs to the one pipeline.
OnePipeline == [j \in Job |-> CHOOSE p \in Pipeline : TRUE]

\* One build checks out every repo, the others the first.
OneBuildHasAll ==
    LET all == CHOOSE b \in Build : TRUE
        app == CHOOSE r \in Repo : TRUE
    IN [b \in Build |-> IF b = all THEN Repo ELSE {app}]

NoOverrides == [p \in Pipeline |-> {}]
=============================================================================
