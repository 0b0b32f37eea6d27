--------------------------- MODULE JenkinsCrawler ---------------------------
(***************************************************************************)
(* The incremental Jenkins crawler (internal/ingest/jenkins).  A crawl     *)
(* first asks every discovered job for its new builds, then publishes them *)
(* pipeline by pipeline: the workflow, each job's runs and tasks, and the  *)
(* job's cursor, the highest build number published.  The branch jobs of a *)
(* multibranch pipeline share one workflow and have a cursor each.         *)
(*                                                                         *)
(* A build is an id; its number counts within its job and starts over when *)
(* the job is deleted and created again.  Builds run concurrently, so they *)
(* may complete in any order.                                              *)
(*                                                                         *)
(* faults counts failed calls and crashes, MaxFaults bounds them.          *)
(* Not modelled: the folder walk of discoverJobs and the class lookup of   *)
(* classifyConfiguredJobs (Discover yields the jobs that could be listed). *)
(***************************************************************************)
EXTENDS Integers, FiniteSetsExt

CONSTANTS Job,            \* paths of the pipeline jobs
          Pipeline,       \* canonical pipeline paths, the workflow ids
          pipelinePath,   \* job -> the pipeline it belongs to
          Build,          \* build ids
          NoBuild,        \* no build, no job
          Repo,           \* repo ids
          remoteRepos,    \* build -> the repos in its BuildData actions
          repoOverrides,  \* pipeline -> the configured override, or {}
          MaxResets,      \* bound on deletions of a job
          MaxFaults       \* bound on failed calls and crashes

ASSUME CrawlerAssumption ==
    /\ pipelinePath \in [Job -> Pipeline]
    /\ remoteRepos \in [Build -> SUBSET Repo]
    /\ repoOverrides \in [Pipeline -> SUBSET Repo]
    /\ NoBuild \notin Build \cup Job
    /\ MaxResets \in Nat /\ MaxFaults \in Nat

VARIABLES
    \* the Jenkins server
    state,        \* per build: "none", "running", "done" or "purged"
    job,          \* per build, its job
    number,       \* per build, its number
    nextNumber,   \* per job, the number its next build gets
    resets,       \* deletions of jobs so far
    \* the KV bucket ingest-jenkins-cursors; 0 is no cursor
    kv,
    \* the crawler
    cursors,      \* per job, the cursor in memory
    loaded,       \* whether the cursors have been read from the bucket
    pc,           \* where the running crawl is; "idle" between crawls
    todo,         \* jobs still to be asked for builds
    fetched,      \* per job, the new builds of this crawl
    groups,       \* pipelines this crawl has still to publish
    members,      \* jobs of the pipeline being published still to be crawled
    cur,          \* the job being asked or crawled
    left,         \* builds of cur whose run is still to be published
    run,          \* the build whose tasks are still to be published
    \* what has reached the INGEST stream
    workflow,     \* per pipeline, the RepoIDs last published for it
    published,    \* builds whose run has been published
    tasked,       \* builds whose tasks have been published
    \* what a property excuses
    failed,       \* builds a call about which returned an error
    overtaken,    \* builds still running when a later number was fetched
    reborn,       \* builds whose number an earlier build of the job had
    faults        \* failures and crashes so far

server == <<state, job, number, nextNumber, resets, reborn>>
memory == <<cursors, loaded>>
fetching == <<todo, fetched>>
publishing == <<groups, members, left, run>>
events == <<workflow, published, tasked, failed>>
vars == <<server, kv, memory, pc, cur, fetching, publishing, events, overtaken, faults>>

noBuilds == [j \in Job |-> {}]

Init ==
    /\ state = [b \in Build |-> "none"] /\ job = [b \in Build |-> NoBuild]
    /\ number = [b \in Build |-> 0] /\ nextNumber = [j \in Job |-> 1]
    /\ resets = 0 /\ reborn = {}
    /\ kv = [j \in Job |-> 0] /\ cursors = [j \in Job |-> 0] /\ loaded = FALSE
    /\ pc = "idle" /\ cur = NoBuild /\ todo = {} /\ fetched = noBuilds
    /\ groups = {} /\ members = {} /\ left = {} /\ run = NoBuild
    /\ workflow = [p \in Pipeline |-> {}]
    /\ published = {} /\ tasked = {} /\ failed = {} /\ overtaken = {}
    /\ faults = 0

fault == faults < MaxFaults /\ faults' = faults + 1

\* A call about builds bs that succeeds, or fails and leaves them to no one.
attempt(bs, ok) ==
    IF ok THEN UNCHANGED <<failed, faults>> ELSE fault /\ failed' = failed \cup bs

\* Save and Clear (to 0): a write that returns an error may have reached the
\* bucket all the same.
put(j, n, ok) ==
    \E landed \in {TRUE, ok} : kv' = IF landed THEN [kv EXCEPT ![j] = n] ELSE kv

-----------------------------------------------------------------------------
\* The server (external).

buildsOf(j, s) == {b \in Build : job[b] = j /\ state[b] = s}
numbers(bs) == {number[b] : b \in bs}

\* A build id not used yet; which one matters only through remoteRepos.
freshBuild == CHOOSE b \in Build : state[b] = "none"

StartBuild(j) ==
    /\ \E b \in Build : state[b] = "none"
    /\ state' = [state EXCEPT ![freshBuild] = "running"]
    /\ job' = [job EXCEPT ![freshBuild] = j]
    /\ number' = [number EXCEPT ![freshBuild] = nextNumber[j]]
    /\ nextNumber' = [nextNumber EXCEPT ![j] = @ + 1]
    /\ reborn' = IF \E b \in Build : job[b] = j /\ number[b] = nextNumber[j]
                 THEN reborn \cup {freshBuild} ELSE reborn
    /\ UNCHANGED <<resets, kv, memory, pc, cur, fetching, publishing, events, overtaken, faults>>

\* From here on the build has a result and is the lastCompletedBuild if its
\* number is the highest.
FinishBuild(b) ==
    /\ state[b] = "running"
    /\ state' = [state EXCEPT ![b] = "done"]
    /\ UNCHANGED <<job, number, nextNumber, resets, reborn>>
    /\ UNCHANGED <<kv, memory, pc, cur, fetching, publishing, events, overtaken, faults>>

\* A completed build is deleted; its number is not used again.
PurgeBuild(b) ==
    /\ state[b] = "done"
    /\ state' = [state EXCEPT ![b] = "purged"]
    /\ UNCHANGED <<job, number, nextNumber, resets, reborn>>
    /\ UNCHANGED <<kv, memory, pc, cur, fetching, publishing, events, overtaken, faults>>

\* The job is deleted and created again.
ResetJob(j) ==
    /\ resets < MaxResets /\ nextNumber[j] > 1
    /\ resets' = resets + 1
    /\ state' = [b \in Build |-> IF job[b] = j THEN "purged" ELSE state[b]]
    /\ nextNumber' = [nextNumber EXCEPT ![j] = 1]
    /\ UNCHANGED <<job, number, reborn>>
    /\ UNCHANGED <<kv, memory, pc, cur, fetching, publishing, events, overtaken, faults>>

-----------------------------------------------------------------------------
\* Crawl, first half: every job is asked for its new builds.

\* A tick starts a crawl unless one is running; the first of the process reads
\* the cursors from the bucket, or starts without any when that fails.
StartCrawl(loadOK) ==
    /\ pc = "idle"
    /\ IF loadOK THEN UNCHANGED faults ELSE ~loaded /\ fault
    /\ cursors' = IF loaded THEN cursors
                  ELSE IF loadOK THEN kv
                  ELSE [j \in Job |-> 0]
    /\ loaded' = TRUE
    /\ pc' = "discover"
    /\ UNCHANGED <<server, kv, cur, fetching, publishing, events, overtaken>>

\* A folder that cannot be listed is left out of this crawl; when the root
\* cannot, the crawl ends with nothing to do.
Discover(found) ==
    /\ pc = "discover"
    /\ IF found = Job THEN UNCHANGED faults ELSE fault
    /\ todo' = found /\ groups' = {pipelinePath[j] : j \in found}
    /\ pc' = "next"
    /\ UNCHANGED <<server, kv, memory, cur, fetched, members, left, run, events, overtaken>>

\* Mutant: that the last completed build is behind the cursor goes unnoticed.
Probe_KeepsCursor(j, ok, clearOK) ==
    LET done == numbers(buildsOf(j, "done"))
        nothingNew == ok /\ (done = {} \/ Max(done) <= cursors[j])
    IN /\ pc = "next" /\ j \in todo
       /\ IF ok /\ clearOK THEN UNCHANGED faults ELSE fault
       /\ clearOK
       /\ IF nothingNew THEN UNCHANGED <<pc, cur>> ELSE pc' = "fetch" /\ cur' = j
       /\ todo' = todo \ {j}
       /\ UNCHANGED <<server, kv, memory, fetched, publishing, events, overtaken>>

\* No completed build, or none since the cursor: the job has nothing new.  A
\* last completed build behind the cursor clears the cursor, in the bucket
\* unless that fails.  A failed probe fetches the builds anyway.
Probe(j, ok, clearOK) ==
    LET done == numbers(buildsOf(j, "done"))
        behind == ok /\ done # {} /\ Max(done) < cursors[j]
        nothingNew == ok /\ (done = {} \/ Max(done) = cursors[j])
    IN /\ pc = "next" /\ j \in todo
       /\ IF ok /\ clearOK THEN UNCHANGED faults ELSE fault
       /\ clearOK \/ behind
       /\ IF behind THEN /\ put(j, 0, clearOK)
                         /\ cursors' = [cursors EXCEPT ![j] = 0]
                    ELSE UNCHANGED <<kv, cursors>>
       /\ IF nothingNew THEN UNCHANGED <<pc, cur>> ELSE pc' = "fetch" /\ cur' = j
       /\ todo' = todo \ {j}
       /\ UNCHANGED <<server, loaded, fetched, publishing, events, overtaken>>

\* Mutant: the lowest new number is taken for the one published before.
newBuilds_OffByOne(j) ==
    {b \in buildsOf(j, "done") : number[b] > cursors[j] + 1}

newBuilds(j) == {b \in buildsOf(j, "done") : number[b] > cursors[j]}

\* GetBuilds, on a server that may have moved on since the probe.  A failure
\* counts as no builds.
GetBuilds(ok) ==
    /\ pc = "fetch"
    /\ IF ok THEN UNCHANGED faults ELSE fault
    /\ fetched' = [fetched EXCEPT ![cur] = IF ok THEN newBuilds(cur) ELSE {}]
    /\ overtaken' = overtaken \cup {b \in buildsOf(cur, "running") :
                                       \E n \in numbers(fetched'[cur]) : n > number[b]}
    /\ pc' = "next" /\ cur' = NoBuild
    /\ UNCHANGED <<server, kv, memory, todo, publishing, events>>

-----------------------------------------------------------------------------
\* Crawl, second half: the pipelines are published one by one.

jobsOf(p) == {j \in Job : pipelinePath[j] = p}

extractRepoIDs(bs) == UNION {remoteRepos[b] : b \in bs}

\* A pipeline none of whose jobs has a new build is skipped; for another the
\* workflow is published, with the repos the new builds checked out.  A failed
\* publish is logged and its runs are published all the same.
PublishWorkflow(p, ok) ==
    LET new == UNION {fetched[j] : j \in jobsOf(p)}
        repoIDs == IF extractRepoIDs(new) = {} THEN repoOverrides[p] ELSE extractRepoIDs(new)
    IN /\ pc = "next" /\ todo = {} /\ members = {} /\ p \in groups
       /\ IF ok THEN UNCHANGED faults ELSE new # {} /\ fault
       /\ workflow' = IF ok /\ new # {} THEN [workflow EXCEPT ![p] = repoIDs] ELSE workflow
       /\ groups' = groups \ {p}
       /\ members' = {j \in jobsOf(p) : fetched[j] # {}}
       /\ UNCHANGED <<server, kv, memory, pc, cur, fetching, left, run>>
       /\ UNCHANGED <<published, tasked, failed, overtaken>>

CrawlJob(j) ==
    /\ pc = "next" /\ j \in members
    /\ pc' = "runs" /\ cur' = j /\ members' = members \ {j} /\ left' = fetched[j]
    /\ UNCHANGED <<server, kv, memory, fetching, groups, run, events, overtaken, faults>>

\* A failed publish is logged and the loop goes on.
PublishRun(b, ok) ==
    /\ pc = "runs" /\ b \in left
    /\ attempt({b}, ok)
    /\ published' = IF ok THEN published \cup {b} ELSE published
    /\ left' = left \ {b} /\ run' = b /\ pc' = "tasks"
    /\ UNCHANGED <<server, kv, memory, cur, fetching, groups, members, workflow, tasked, overtaken>>

\* GetStages and its tasks.  It also fails for a build purged meanwhile.
PublishTasks(ok) ==
    /\ pc = "tasks"
    /\ IF ~ok /\ state[run] = "purged"
       THEN failed' = failed \cup {run} /\ UNCHANGED faults
       ELSE attempt({run}, ok)
    /\ ok => state[run] # "purged"
    /\ tasked' = IF ok THEN tasked \cup {run} ELSE tasked
    /\ run' = NoBuild /\ pc' = "runs"
    /\ UNCHANGED <<server, kv, memory, cur, fetching, groups, members, left>>
    /\ UNCHANGED <<workflow, published, overtaken>>

\* Mutant: the cursor is saved as soon as one run is out.
SaveCursor_Early(ok) ==
    /\ pc = "runs" /\ left # fetched[cur]
    /\ IF ok THEN UNCHANGED faults ELSE fault
    /\ put(cur, Max(numbers(fetched[cur])), ok)
    /\ cursors' = IF ok THEN [cursors EXCEPT ![cur] = Max(numbers(fetched[cur]))] ELSE cursors
    /\ IF left = {} THEN pc' = "next" /\ cur' = NoBuild ELSE UNCHANGED <<pc, cur>>
    /\ UNCHANGED <<server, loaded, fetching, publishing, events, overtaken>>

\* Mutant: the cursor is saved at the last build the server has completed.
SaveCursor_AtLastCompleted(ok) ==
    LET top == Max(numbers(buildsOf(cur, "done")) \cup numbers(fetched[cur]))
    IN /\ pc = "runs" /\ left = {}
       /\ IF ok THEN UNCHANGED faults ELSE fault
       /\ put(cur, top, ok)
       /\ cursors' = IF ok THEN [cursors EXCEPT ![cur] = top] ELSE cursors
       /\ pc' = "next" /\ cur' = NoBuild
       /\ UNCHANGED <<server, loaded, fetching, publishing, events, overtaken>>

\* Mutant: a failed save ends the crawl in the middle of the pipeline.
SaveCursor_FailureReturns(ok) ==
    /\ pc = "runs" /\ left = {}
    /\ IF ok THEN UNCHANGED faults ELSE fault
    /\ put(cur, Max(numbers(fetched[cur])), ok)
    /\ cursors' = IF ok THEN [cursors EXCEPT ![cur] = Max(numbers(fetched[cur]))] ELSE cursors
    /\ IF ok THEN pc' = "next" /\ cur' = NoBuild ELSE pc' = "idle" /\ UNCHANGED cur
    /\ UNCHANGED <<server, loaded, fetching, publishing, events, overtaken>>

\* The highest number of the builds just published becomes the cursor.  When
\* Save fails the cursor in memory stays where it was.
SaveCursor(ok) ==
    LET maxPublished == Max(numbers(fetched[cur]))
    IN /\ pc = "runs" /\ left = {}
       /\ IF ok THEN UNCHANGED faults ELSE fault
       /\ put(cur, maxPublished, ok)
       /\ cursors' = IF ok THEN [cursors EXCEPT ![cur] = maxPublished] ELSE cursors
       /\ pc' = "next" /\ cur' = NoBuild
       /\ UNCHANGED <<server, loaded, fetching, publishing, events, overtaken>>

\* All pipelines published.
EndCrawl ==
    /\ pc = "next" /\ todo = {} /\ members = {} /\ groups = {}
    /\ pc' = "idle" /\ fetched' = noBuilds
    /\ UNCHANGED <<server, kv, memory, cur, todo, publishing, events, overtaken, faults>>

\* The process is killed and started again: memory is lost, the bucket kept.
Crash ==
    /\ fault
    /\ cursors' = [j \in Job |-> 0] /\ loaded' = FALSE
    /\ pc' = "idle" /\ cur' = NoBuild /\ todo' = {} /\ fetched' = noBuilds
    /\ groups' = {} /\ members' = {} /\ left' = {} /\ run' = NoBuild
    /\ UNCHANGED <<server, kv, events, overtaken>>

\* One step of the crawler itself.
CrawlStep ==
    \/ \E ok \in BOOLEAN :
           \/ StartCrawl(ok) \/ GetBuilds(ok) \/ PublishTasks(ok) \/ SaveCursor(ok)
           \/ \E j \in Job, clearOK \in BOOLEAN : Probe(j, ok, clearOK)
           \/ \E p \in Pipeline : PublishWorkflow(p, ok)
           \/ \E b \in left : PublishRun(b, ok)
    \/ \E found \in SUBSET Job : Discover(found)
    \/ \E j \in Job : CrawlJob(j)
    \/ EndCrawl

Next ==
    \/ \E j \in Job : StartBuild(j) \/ ResetJob(j)
    \/ \E b \in Build : FinishBuild(b) \/ PurgeBuild(b)
    \/ CrawlStep
    \/ Crash

\* The ticker keeps ticking, and a call that was made returns.
Spec == Init /\ [][Next]_vars /\ WF_vars(CrawlStep)

-----------------------------------------------------------------------------
\* Every fetched build is one of its job, the crawl's position a step of Crawl.
TypeOK ==
    /\ state \in [Build -> {"none", "running", "done", "purged"}]
    /\ job \in [Build -> Job \cup {NoBuild}]
    /\ number \in [Build -> Nat]
    /\ nextNumber \in [Job -> Nat]
    /\ resets \in Nat
    /\ kv \in [Job -> Nat]
    /\ cursors \in [Job -> Nat]
    /\ loaded \in BOOLEAN
    /\ pc \in {"idle", "discover", "next", "fetch", "runs", "tasks"}
    /\ todo \subseteq Job
    /\ fetched \in [Job -> SUBSET Build]
    /\ groups \subseteq Pipeline
    /\ members \subseteq Job
    /\ cur \in Job \cup {NoBuild}
    /\ (pc \in {"fetch", "runs", "tasks"}) <=> (cur \in Job)
    /\ left \subseteq Build
    /\ run \in Build \cup {NoBuild}
    /\ (pc = "tasks") <=> (run \in Build)
    /\ workflow \in [Pipeline -> SUBSET Repo]
    /\ published \subseteq Build /\ tasked \subseteq Build
    /\ failed \subseteq Build /\ overtaken \subseteq Build /\ reborn \subseteq Build
    /\ faults \in Nat

\* The build's run and tasks were handed to the stream, or a call failed.
attempted(b) == b \in failed \/ b \in published \cap tasked

\* A completed build below a cursor, in memory or in the bucket, has been
\* published: no crash, failed save, lost cursor, purge or clear puts a cursor
\* above a build not yet attempted.  The two exceptions are inherent in a
\* watermark of numbers: a build that was still running when a later one was
\* published, and a number used again after the job was recreated.
NothingElseIsSkipped ==
    \A b \in Build :
        (state[b] = "done" /\ (number[b] <= kv[job[b]] \/ number[b] <= cursors[job[b]])) =>
            attempted(b) \/ b \in overtaken \cup reborn

\* Every completed build that stays on the server is published in the end,
\* with the same two exceptions.
CompletedBuildsArePublished ==
    \A b \in Build :
        (state[b] = "done") ~>
            (attempted(b) \/ b \in overtaken \cup reborn \/ state[b] = "purged")

\* A recreated job is noticed while its builds are behind the cursor: the last of
\* them is published though the number was passed long ago, even if the cursor
\* cannot be cleared or comes back in a restart.  Only another build that
\* completes first may take the job past its old cursor.
behindCursor(b) ==
    /\ state[b] = "done" /\ number[b] < cursors[job[b]]
    /\ number[b] = Max(numbers(buildsOf(job[b], "done")))
another(b) == \E c \in buildsOf(job[b], "done") : number[c] > number[b]
RecreatedJobIsNoticed ==
    \A b \in Build :
        behindCursor(b) ~> (attempted(b) \/ state[b] = "purged" \/ another(b))

\* What crawler_test.go:872 says of a build in progress: when it completes, it
\* is published (unless a call failed, or it was deleted first).
CompletedIsPublished ==
    \A b \in Build :
        (state[b] = "done") ~> (b \in published \cup failed \/ state[b] = "purged")
=============================================================================
