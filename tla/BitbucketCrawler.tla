-------------------------- MODULE BitbucketCrawler --------------------------
(***************************************************************************)
(* The incremental Bitbucket crawler (internal/ingest/bitbucket): crawls   *)
(* on a ticker, one at a time, each repo from the commit its cursor names. *)
(* Cursors live in memory and in a JetStream KV bucket that outlives the   *)
(* process.  The server goes on changing between any two calls.            *)
(*                                                                         *)
(* Every call of the crawler may fail, and the process may be killed       *)
(* between any two of them; faults counts those events and MaxFaults       *)
(* bounds them.  Commits are abstract: anc gives a commit's ancestors,     *)
(* itself included, so GetCommits(since) is a set difference.              *)
(*                                                                         *)
(* Not modelled: PublishRepo, which repeats in full on every tick and      *)
(* guards nothing, and the choice among candidate config paths; the file   *)
(* a repo is onboarded from is identified by the tip commit it is read at. *)
(***************************************************************************)
EXTENDS Naturals

CONSTANTS Repo,       \* repos of the configured projects
          Commit,     \* commit ids
          NoSHA,      \* the empty string: no cursor, no commit, no repo
          MaxPR,      \* bound on the changes to a repo's pull requests
          MaxFaults   \* bound on failed calls and crashes

ASSUME CrawlerAssumption ==
    /\ NoSHA \notin Commit \cup Repo
    /\ MaxPR \in Nat /\ MaxFaults \in Nat

VARIABLES
    \* the Bitbucket server
    anc,          \* per repo and commit, its ancestors; {} if not created yet
    tip,          \* per repo, the tip of the default branch
    prVersion,    \* per repo, the version of its pull requests
    \* the KV bucket ingest-bitbucket-cursors
    kv,
    \* the crawler
    cursors,      \* per repo, the cursor in memory
    loaded,       \* whether the cursors have been read from the bucket
    pc,           \* where the running crawl is; "idle" between crawls
    todo,         \* repos this crawl has still to visit
    cur,          \* the repo being crawled
    batch,        \* fetched commits not yet published
    head,         \* the newest fetched commit, commits[0]
    \* what has reached the INGEST stream
    published,    \* per repo, commits published
    failed,       \* per repo, commits whose publish returned an error
    onboarded,    \* per repo, the commit its last onboarding event was read at
    missed,       \* repos one of whose onboardings failed or died in a crash
    prPublished,  \* per repo, the pull request version last published
    faults        \* failures and crashes so far

server == <<anc, tip, prVersion>>
memory == <<cursors, loaded>>
position == <<pc, todo, cur, batch, head>>
events == <<published, failed, onboarded, missed, prPublished>>
vars == <<server, kv, memory, position, events, faults>>

SHA == Commit \cup {NoSHA}

\* The commits reachable from a commit of a repo.
reach(r, c) == IF c = NoSHA THEN {} ELSE anc[r][c]

Init ==
    /\ anc = [r \in Repo |-> [c \in Commit |-> {}]]
    /\ tip = [r \in Repo |-> NoSHA]
    /\ prVersion = [r \in Repo |-> 0]
    /\ kv = [r \in Repo |-> NoSHA]
    /\ cursors = [r \in Repo |-> NoSHA]
    /\ loaded = FALSE
    /\ pc = "idle" /\ todo = {} /\ cur = NoSHA /\ batch = {} /\ head = NoSHA
    /\ published = [r \in Repo |-> {}]
    /\ failed = [r \in Repo |-> {}]
    /\ onboarded = [r \in Repo |-> NoSHA] /\ missed = {}
    /\ prPublished = [r \in Repo |-> 0]
    /\ faults = 0

fault == faults < MaxFaults /\ faults' = faults + 1

\* Save and Clear (an empty value): a write that returns an error may have
\* reached the bucket all the same.
put(r, sha, ok) ==
    \E landed \in {TRUE, ok} : kv' = IF landed THEN [kv EXCEPT ![r] = sha] ELSE kv

-----------------------------------------------------------------------------
\* The server (external).

\* An id no commit of the repo has yet; which one makes no difference.
freshCommit(r) == CHOOSE c \in Commit : anc[r][c] = {}

\* A push on top of any commit: of the tip, or of an older one (a force-push).
Push(r, parent) ==
    /\ \E c \in Commit : anc[r][c] = {}
    /\ anc' = [anc EXCEPT ![r][freshCommit(r)] = reach(r, parent) \cup {freshCommit(r)}]
    /\ tip' = [tip EXCEPT ![r] = freshCommit(r)]
    /\ UNCHANGED <<prVersion, kv, memory, position, events, faults>>

\* A force-push back to an older commit.
Rewind(r, c) ==
    /\ c # tip[r]
    /\ tip' = [tip EXCEPT ![r] = c]
    /\ UNCHANGED <<anc, prVersion, kv, memory, position, events, faults>>

ChangePullRequest(r) ==
    /\ prVersion[r] < MaxPR
    /\ prVersion' = [prVersion EXCEPT ![r] = @ + 1]
    /\ UNCHANGED <<anc, tip, kv, memory, position, events, faults>>

-----------------------------------------------------------------------------
\* Crawl and crawlProject.

\* A tick starts a crawl unless one is running.  The first crawl of the
\* process reads the cursors from the bucket, or starts without any when that
\* fails.
StartCrawl(loadOK) ==
    /\ pc = "idle"
    /\ IF loadOK THEN UNCHANGED faults ELSE ~loaded /\ fault
    /\ cursors' = IF loaded THEN cursors
                  ELSE IF loadOK THEN kv
                  ELSE [r \in Repo |-> NoSHA]
    /\ loaded' = TRUE
    /\ pc' = "next" /\ todo' = Repo
    /\ UNCHANGED <<server, kv, cur, batch, head, events>>

VisitRepo(r) ==
    /\ pc = "next" /\ r \in todo
    /\ pc' = "fetch" /\ cur' = r /\ todo' = todo \ {r}
    /\ UNCHANGED <<server, kv, memory, batch, head, events, faults>>

\* All repos visited.
EndCrawl ==
    /\ pc = "next" /\ todo = {}
    /\ pc' = "idle"
    /\ UNCHANGED <<server, kv, memory, todo, cur, batch, head, events, faults>>

\* GetRepos fails: the project is skipped.
GetReposFails ==
    /\ pc = "next" /\ todo = Repo
    /\ fault
    /\ pc' = "idle" /\ todo' = {}
    /\ UNCHANGED <<server, kv, memory, cur, batch, head, events>>

leaveRepo == pc' = "next" /\ cur' = NoSHA /\ batch' = {} /\ head' = NoSHA

-----------------------------------------------------------------------------
\* crawlCommits.

\* GetCommits(since): the commits reachable from the tip and not from the
\* cursor, newest first.  Nothing new skips the onboarding.
GetCommits ==
    /\ pc = "fetch"
    /\ batch' = reach(cur, tip[cur]) \ reach(cur, cursors[cur])
    /\ IF batch' = {} THEN pc' = "prs" /\ UNCHANGED head
                      ELSE pc' = "publish" /\ head' = tip[cur]
    /\ UNCHANGED <<server, kv, memory, todo, cur, events, faults>>

\* GetCommits fails with a cursor, because the commit is gone from the server
\* or because the call failed: the cursor is cleared, in the bucket unless
\* that fails too, and the fetch is repeated from scratch.
GetCommitsCursorError(clearOK) ==
    /\ pc = "fetch" /\ cursors[cur] # NoSHA
    /\ IF clearOK /\ cursors[cur] \notin reach(cur, tip[cur]) THEN UNCHANGED faults ELSE fault
    /\ put(cur, NoSHA, clearOK)
    /\ cursors' = [cursors EXCEPT ![cur] = NoSHA]
    /\ UNCHANGED <<server, loaded, position, events>>

\* Mutant: a failed call drops the repo it was about and the crawl goes on as
\* if it had succeeded.
GetCommitsError_GoesOn ==
    /\ pc = "fetch" /\ cursors[cur] = NoSHA
    /\ fault
    /\ pc' = "prs" /\ cur' = NoSHA /\ UNCHANGED <<batch, head>>
    /\ UNCHANGED <<server, kv, memory, todo, events>>

\* GetCommits fails without a cursor: crawlRepo returns the error, the rest of
\* the repo is left to the next tick.
GetCommitsError ==
    /\ pc = "fetch" /\ cursors[cur] = NoSHA
    /\ fault
    /\ leaveRepo
    /\ UNCHANGED <<server, kv, memory, todo, events>>

\* Mutant: only the newest commit of the batch is published.
PublishCommit_NewestOnly(c, ok) ==
    /\ pc = "publish" /\ c = head
    /\ IF ok THEN UNCHANGED <<failed, faults>>
             ELSE fault /\ failed' = [failed EXCEPT ![cur] = @ \cup {c}]
    /\ published' = IF ok THEN [published EXCEPT ![cur] = @ \cup {c}] ELSE published
    /\ batch' = {}
    /\ UNCHANGED <<server, kv, memory, pc, todo, cur, head, onboarded, missed, prPublished>>

\* A failed publish is logged and the loop goes on.
PublishCommit(c, ok) ==
    /\ pc = "publish" /\ c \in batch
    /\ IF ok THEN UNCHANGED <<failed, faults>>
             ELSE fault /\ failed' = [failed EXCEPT ![cur] = @ \cup {c}]
    /\ published' = IF ok THEN [published EXCEPT ![cur] = @ \cup {c}] ELSE published
    /\ batch' = batch \ {c}
    /\ UNCHANGED <<server, kv, memory, pc, todo, cur, head, onboarded, missed, prPublished>>

\* Mutant: the cursor is saved at the tip the server has now.
SaveCursor_AtCurrentTip(ok) ==
    /\ pc = "publish" /\ batch = {}
    /\ IF ok THEN UNCHANGED faults ELSE fault
    /\ put(cur, tip[cur], ok)
    /\ cursors' = IF ok THEN [cursors EXCEPT ![cur] = tip[cur]] ELSE cursors
    /\ pc' = "onboard"
    /\ UNCHANGED <<server, loaded, todo, cur, batch, head, events>>

\* Mutant: the bucket is written when the batch is fetched, not when it has
\* been published.
SaveCursor_BeforePublish(ok) ==
    /\ pc = "publish"
    /\ IF ok THEN UNCHANGED faults ELSE fault
    /\ put(cur, head, ok)
    /\ cursors' = IF ok THEN [cursors EXCEPT ![cur] = head] ELSE cursors
    /\ pc' = IF batch = {} THEN "onboard" ELSE pc
    /\ UNCHANGED <<server, loaded, todo, cur, batch, head, events>>

\* Save comes after the last publish; when it fails the cursor in memory stays
\* where it was.  Either way there were new commits.
SaveCursor(ok) ==
    /\ pc = "publish" /\ batch = {}
    /\ IF ok THEN UNCHANGED faults ELSE fault
    /\ put(cur, head, ok)
    /\ cursors' = IF ok THEN [cursors EXCEPT ![cur] = head] ELSE cursors
    /\ pc' = "onboard"
    /\ UNCHANGED <<server, loaded, todo, cur, batch, head, events>>

-----------------------------------------------------------------------------
\* selfOnboardRepo and crawlPullRequests.

\* Mutant: a repo is onboarded from the first file it ever had.
SelfOnboardRepo_FirstOnly(ok) ==
    /\ pc = "onboard"
    /\ IF ok THEN UNCHANGED <<missed, faults>> ELSE fault /\ missed' = missed \cup {cur}
    /\ onboarded' = IF ok /\ onboarded[cur] = NoSHA
                    THEN [onboarded EXCEPT ![cur] = tip[cur]] ELSE onboarded
    /\ pc' = "prs"
    /\ UNCHANGED <<server, kv, memory, todo, cur, batch, head, published, failed, prPublished>>

\* The config file is read at the tip the server has now; a failed read or
\* publish is logged and skipped.
SelfOnboardRepo(ok) ==
    /\ pc = "onboard"
    /\ IF ok THEN UNCHANGED <<missed, faults>> ELSE fault /\ missed' = missed \cup {cur}
    /\ onboarded' = IF ok THEN [onboarded EXCEPT ![cur] = tip[cur]] ELSE onboarded
    /\ pc' = "prs"
    /\ UNCHANGED <<server, kv, memory, todo, cur, batch, head, published, failed, prPublished>>

\* Mutant: pull requests are only fetched for repos that have new commits.
CrawlPullRequests_OnlyWithCommits(ok) ==
    /\ pc = "prs"
    /\ IF ok THEN UNCHANGED faults ELSE fault
    /\ prPublished' = IF ok /\ head # NoSHA
                      THEN [prPublished EXCEPT ![cur] = prVersion[cur]] ELSE prPublished
    /\ leaveRepo
    /\ UNCHANGED <<server, kv, memory, todo, published, failed, onboarded, missed>>

\* The pull requests are fetched and published in full on every visit.  A
\* change between the fetch and the publish is one the next visit sees.
CrawlPullRequests(ok) ==
    /\ pc = "prs"
    /\ IF ok THEN UNCHANGED faults ELSE fault
    /\ prPublished' = IF ok THEN [prPublished EXCEPT ![cur] = prVersion[cur]] ELSE prPublished
    /\ leaveRepo
    /\ UNCHANGED <<server, kv, memory, todo, published, failed, onboarded, missed>>

-----------------------------------------------------------------------------
\* The process is killed and started again: memory is lost, the bucket kept.
\* The bucket may already name commits whose onboarding had still to come.
Crash ==
    /\ fault
    /\ cursors' = [r \in Repo |-> NoSHA]
    /\ loaded' = FALSE
    /\ pc' = "idle" /\ todo' = {} /\ cur' = NoSHA /\ batch' = {} /\ head' = NoSHA
    /\ missed' = IF pc = "onboard" THEN missed \cup {cur} ELSE missed
    /\ UNCHANGED <<server, kv, published, failed, onboarded, prPublished>>

\* One step of the crawler itself.
CrawlStep ==
    \/ \E ok \in BOOLEAN :
           StartCrawl(ok) \/ SaveCursor(ok) \/ SelfOnboardRepo(ok) \/ CrawlPullRequests(ok)
    \/ \E r \in Repo : VisitRepo(r)
    \/ EndCrawl \/ GetReposFails
    \/ GetCommits \/ GetCommitsError
    \/ \E clearOK \in BOOLEAN : GetCommitsCursorError(clearOK)
    \/ \E c \in batch, ok \in BOOLEAN : PublishCommit(c, ok)

Next ==
    \/ \E r \in Repo :
           \/ \E parent \in reach(r, tip[r]) \cup {tip[r]} : Push(r, parent)
           \/ \E c \in reach(r, tip[r]) : Rewind(r, c)
           \/ ChangePullRequest(r)
    \/ CrawlStep
    \/ Crash

\* The ticker keeps ticking, and a call that was made returns.
Spec == Init /\ [][Next]_vars /\ WF_vars(CrawlStep)

-----------------------------------------------------------------------------
\* The cursors are commits, the crawl's position is one of crawlRepo's steps.
TypeOK ==
    /\ anc \in [Repo -> [Commit -> SUBSET Commit]]
    /\ tip \in [Repo -> SHA]
    /\ prVersion \in [Repo -> Nat]
    /\ kv \in [Repo -> SHA]
    /\ cursors \in [Repo -> SHA]
    /\ loaded \in BOOLEAN
    /\ pc \in {"idle", "next", "fetch", "publish", "onboard", "prs"}
    /\ todo \subseteq Repo
    /\ cur \in Repo \cup {NoSHA}
    /\ (pc \in {"fetch", "publish", "onboard", "prs"}) => (cur \in Repo)
    /\ batch \subseteq Commit
    /\ head \in SHA
    /\ published \in [Repo -> SUBSET Commit]
    /\ failed \in [Repo -> SUBSET Commit]
    /\ onboarded \in [Repo -> SHA]
    /\ missed \subseteq Repo
    /\ prPublished \in [Repo -> Nat]
    /\ faults \in Nat

\* Every commit reachable from a commit of the repo was handed to the stream.
attempted(r, c) == reach(r, c) \subseteq published[r] \cup failed[r]

\* A cursor never stands for commits that were not fetched and handed to the
\* publisher, whatever crashed, failed or was force-pushed in between: what
\* the next crawl leaves out because of a cursor has been attempted.
CursorsCoverAttempted ==
    \A r \in Repo : attempted(r, kv[r]) /\ attempted(r, cursors[r])

\* Every commit that stays on the default branch is published, unless its
\* publish failed: no crash, lost cursor, failed save or force-push loses one.
CommitsArePublished ==
    \A r \in Repo, c \in Commit :
        (c \in reach(r, tip[r])) ~>
            (c \in published[r] \cup failed[r] \/ c \notin reach(r, tip[r]))

\* A commit that becomes the tip has the repo onboarded from it while it stays
\* the tip, through crashes, failed saves and refetches, unless that onboarding
\* itself failed or died after the cursor was saved: new commits are the only
\* trigger, so it is never repeated.
OnboardingFollowsPush ==
    \A r \in Repo, c \in Commit :
        (tip[r] = c /\ c \notin published[r] \cup failed[r]) ~>
            (onboarded[r] = c \/ tip[r] # c \/ r \in missed)

\* The pull requests' latest version reaches the stream whatever failed before.
PullRequestsConverge ==
    \A r \in Repo, v \in 1..MaxPR :
        (prVersion[r] = v) ~> (prPublished[r] >= v)
=============================================================================
