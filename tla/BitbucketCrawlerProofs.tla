------------------------ MODULE BitbucketCrawlerProofs ------------------------
(***************************************************************************)
(* That a cursor of the Bitbucket crawler never stands for a commit the    *)
(* crawler has not handed to the stream, for every set of repos and        *)
(* commits and any number of faults.                                       *)
(*                                                                         *)
(* The invariant needs two facts besides: a cursor names a commit that     *)
(* exists, so that no later push changes its ancestors, and while a batch  *)
(* is being published, what is left of it is all that is missing of the    *)
(* ancestors of head, the commit the cursor will be.                       *)
(***************************************************************************)
EXTENDS BitbucketCrawler, TLAPS

CursorsExist ==
    \A r \in Repo :
        /\ kv[r] # NoSHA => anc[r][kv[r]] # {}
        /\ cursors[r] # NoSHA => anc[r][cursors[r]] # {}

BatchCompletesHead ==
    pc = "publish" =>
        /\ head \in Commit
        /\ anc[cur][head] # {}
        /\ anc[cur][head] \subseteq published[cur] \cup failed[cur] \cup batch

IndInv == TypeOK /\ CursorsExist /\ CursorsCoverAttempted /\ BatchCompletesHead

\* The crawler starts with no cursors and no batch.
LEMMA InitInv == Init => IndInv
  <1> SUFFICES ASSUME Init  PROVE IndInv
    OBVIOUS
  <1>1. TypeOK  BY CrawlerAssumption DEF Init, TypeOK, SHA
  <1>2. CursorsExist  BY DEF Init, CursorsExist
  <1>3. CursorsCoverAttempted  BY DEF Init, CursorsCoverAttempted, attempted, reach
  <1>4. BatchCompletesHead  BY DEF Init, BatchCompletesHead
  <1> QED  BY <1>1, <1>2, <1>3, <1>4 DEF IndInv

-----------------------------------------------------------------------------
\* Types.

\* What a write to the bucket leaves in it has the bucket's type.
LEMMA PutType ==
    ASSUME kv \in [Repo -> SHA], NEW r \in Repo, NEW s \in SHA, NEW ok \in BOOLEAN,
           put(r, s, ok)
    PROVE  kv' \in [Repo -> SHA]
  BY DEF put

\* The server's steps preserve the type invariant.
LEMMA ServerTypes ==
    ASSUME TypeOK, NEW r \in Repo,
           \/ \E parent \in reach(r, tip[r]) \cup {tip[r]} : Push(r, parent)
           \/ \E c \in reach(r, tip[r]) : Rewind(r, c)
           \/ ChangePullRequest(r)
    PROVE  TypeOK'
  <1>1. ASSUME NEW parent \in reach(r, tip[r]) \cup {tip[r]}, Push(r, parent)
        PROVE  TypeOK'
    <2>1. freshCommit(r) \in Commit  BY <1>1 DEF Push, freshCommit
    <2>2. reach(r, tip[r]) \subseteq Commit  BY DEF TypeOK, reach, SHA
    <2>3. parent \in SHA  BY <2>2 DEF TypeOK, SHA
    <2>4. reach(r, parent) \cup {freshCommit(r)} \subseteq Commit
      BY <2>1, <2>3 DEF TypeOK, reach, SHA
    <2>5. anc' \in [Repo -> [Commit -> SUBSET Commit]] /\ tip' \in [Repo -> SHA]
      BY <1>1, <2>1, <2>4 DEF Push, TypeOK, SHA
    <2>6. UNCHANGED <<prVersion, kv, memory, position, events, faults>>
      BY <1>1 DEF Push
    <2> QED  BY <2>5, <2>6 DEF TypeOK, memory, position, events
  <1>2. ASSUME NEW c \in reach(r, tip[r]), Rewind(r, c)
        PROVE  TypeOK'
    <2>1. c \in Commit  BY DEF TypeOK, reach, SHA
    <2> QED  BY <1>2, <2>1 DEF Rewind, TypeOK, memory, position, events, SHA
  <1>3. ASSUME ChangePullRequest(r)  PROVE TypeOK'
    BY <1>3 DEF ChangePullRequest, TypeOK, memory, position, events
  <1> QED  BY <1>1, <1>2, <1>3

\* The steps that only move the crawl along preserve it.
LEMMA MoveTypes ==
    ASSUME TypeOK,
           \/ \E ok \in BOOLEAN : StartCrawl(ok)
           \/ \E r \in Repo : VisitRepo(r)
           \/ EndCrawl \/ GetReposFails \/ GetCommits \/ GetCommitsError
           \/ Crash
    PROVE  TypeOK'
  <1>1. ASSUME NEW ok \in BOOLEAN, StartCrawl(ok)  PROVE TypeOK'
    BY <1>1 DEF StartCrawl, TypeOK, server, events, fault, SHA
  <1>2. ASSUME NEW r \in Repo, VisitRepo(r)  PROVE TypeOK'
    BY <1>2 DEF VisitRepo, TypeOK, server, memory, events
  <1>3. ASSUME EndCrawl \/ GetReposFails  PROVE TypeOK'
    BY <1>3 DEF EndCrawl, GetReposFails, TypeOK, server, memory, events, fault
  <1>4. ASSUME GetCommits  PROVE TypeOK'
    <2>1. cur \in Repo /\ pc = "fetch"  BY <1>4 DEF GetCommits, TypeOK
    <2>2. batch' \subseteq Commit  BY <1>4, <2>1 DEF GetCommits, TypeOK, reach, SHA
    <2>3. head' \in SHA  BY <1>4, <2>1 DEF GetCommits, TypeOK
    <2>4. pc' \in {"prs", "publish"}  BY <1>4 DEF GetCommits
    <2>5. UNCHANGED <<server, kv, memory, todo, cur, events, faults>>
      BY <1>4 DEF GetCommits
    <2> QED  BY <2>1, <2>2, <2>3, <2>4, <2>5 DEF TypeOK, server, memory, events
  <1>5. ASSUME GetCommitsError  PROVE TypeOK'
    BY <1>5 DEF GetCommitsError, leaveRepo, TypeOK, server, memory, events, fault, SHA
  <1>6. ASSUME Crash  PROVE TypeOK'
    <2>1. missed' \subseteq Repo
      <3>1. pc = "onboard" => cur \in Repo  BY DEF TypeOK
      <3> QED  BY <1>6, <3>1 DEF Crash, TypeOK
    <2>2. cursors' \in [Repo -> SHA] /\ faults' \in Nat
      BY <1>6 DEF Crash, TypeOK, fault, SHA
    <2>3. /\ loaded' = FALSE /\ pc' = "idle" /\ todo' = {} /\ cur' = NoSHA
          /\ batch' = {} /\ head' = NoSHA
          /\ UNCHANGED <<server, kv, published, failed, onboarded, prPublished>>
      BY <1>6 DEF Crash
    <2> QED  BY <2>1, <2>2, <2>3 DEF TypeOK, server, SHA
  <1> QED  BY <1>1, <1>2, <1>3, <1>4, <1>5, <1>6

\* The steps that write the bucket or the stream preserve it.
LEMMA WriteTypes ==
    ASSUME TypeOK, NEW ok \in BOOLEAN,
           \/ GetCommitsCursorError(ok)
           \/ \E c \in batch : PublishCommit(c, ok)
           \/ SaveCursor(ok) \/ SelfOnboardRepo(ok) \/ CrawlPullRequests(ok)
    PROVE  TypeOK'
  <1>1. ASSUME GetCommitsCursorError(ok)  PROVE TypeOK'
    <2>1. cur \in Repo  BY <1>1 DEF GetCommitsCursorError, TypeOK
    <2>2. kv' \in [Repo -> SHA]
      <3>1. NoSHA \in SHA  BY DEF SHA
      <3> QED  BY <1>1, <2>1, <3>1, PutType DEF GetCommitsCursorError, TypeOK
    <2>3. cursors' \in [Repo -> SHA] /\ faults' \in Nat
      BY <1>1 DEF GetCommitsCursorError, TypeOK, fault, SHA
    <2> QED  BY <1>1, <2>2, <2>3
             DEF GetCommitsCursorError, TypeOK, server, position, events
  <1>2. ASSUME NEW c \in batch, PublishCommit(c, ok)  PROVE TypeOK'
    <2>1. cur \in Repo /\ c \in Commit /\ pc = "publish"
      BY <1>2 DEF PublishCommit, TypeOK
    <2>2. published' \in [Repo -> SUBSET Commit]  BY <1>2, <2>1 DEF PublishCommit, TypeOK
    <2>3. failed' \in [Repo -> SUBSET Commit]  BY <1>2, <2>1 DEF PublishCommit, TypeOK, events
    <2>4. faults' \in Nat /\ batch' \subseteq Commit
      BY <1>2 DEF PublishCommit, TypeOK, fault
    <2> QED  BY <1>2, <2>2, <2>3, <2>4 DEF PublishCommit, TypeOK, server, memory
  <1>3. ASSUME SaveCursor(ok)  PROVE TypeOK'
    <2>1. cur \in Repo /\ head \in SHA  BY <1>3 DEF SaveCursor, TypeOK
    <2>2. kv' \in [Repo -> SHA]  BY <1>3, <2>1, PutType DEF SaveCursor, TypeOK
    <2>3. cursors' \in [Repo -> SHA] /\ faults' \in Nat
      BY <1>3, <2>1 DEF SaveCursor, TypeOK, fault
    <2> QED  BY <1>3, <2>1, <2>2, <2>3 DEF SaveCursor, TypeOK, server, events
  <1>4. ASSUME SelfOnboardRepo(ok)  PROVE TypeOK'
    <2>1. cur \in Repo  BY <1>4 DEF SelfOnboardRepo, TypeOK
    <2>2. onboarded' \in [Repo -> SHA] /\ missed' \subseteq Repo /\ faults' \in Nat
      BY <1>4, <2>1 DEF SelfOnboardRepo, TypeOK, fault
    <2> QED  BY <1>4, <2>1, <2>2 DEF SelfOnboardRepo, TypeOK, server, memory
  <1>5. ASSUME CrawlPullRequests(ok)  PROVE TypeOK'
    <2>1. cur \in Repo  BY <1>5 DEF CrawlPullRequests, TypeOK
    <2>2. prPublished' \in [Repo -> Nat] /\ faults' \in Nat
      BY <1>5, <2>1 DEF CrawlPullRequests, TypeOK, fault
    <2> QED  BY <1>5, <2>2 DEF CrawlPullRequests, leaveRepo, TypeOK, server, memory, SHA
  <1> QED  BY <1>1, <1>2, <1>3, <1>4, <1>5

\* Every step preserves the type invariant.
LEMMA TypeStep == TypeOK /\ [Next]_vars => TypeOK'
  <1> SUFFICES ASSUME TypeOK, [Next]_vars  PROVE TypeOK'
    OBVIOUS
  <1>1. CASE Next
    BY <1>1, ServerTypes, MoveTypes, WriteTypes DEF Next, CrawlStep
  <1>2. CASE UNCHANGED vars
    BY <1>2 DEF vars, server, memory, position, events, TypeOK
  <1> QED  BY <1>1, <1>2

-----------------------------------------------------------------------------
\* The cursors.

\* What is true of the old cursor and of the one written is true of the bucket
\* after a write, whether it landed or not.
LEMMA PutCursor ==
    ASSUME kv \in [Repo -> SHA], NEW r \in Repo, NEW s \in SHA, NEW ok \in BOOLEAN,
           put(r, s, ok), NEW q \in Repo
    PROVE  kv'[q] = kv[q] \/ (q = r /\ kv'[q] = s)
  BY DEF put

\* A push leaves the ancestors of every commit that exists as they were.
LEMMA PushKeepsAncestors ==
    ASSUME TypeOK, NEW r \in Repo, NEW parent, Push(r, parent),
           NEW q \in Repo, NEW c \in Commit, anc[q][c] # {}
    PROVE  anc'[q][c] = anc[q][c]
  <1>1. freshCommit(r) \in Commit /\ anc[r][freshCommit(r)] = {}
    BY DEF Push, freshCommit
  <1>2. ~(q = r /\ c = freshCommit(r))  BY <1>1
  <1> QED  BY <1>1, <1>2 DEF Push, TypeOK

\* The server's steps leave the cursors' commits and the batch's head alone.
LEMMA ServerInv ==
    ASSUME IndInv, TypeOK', NEW r \in Repo,
           \/ \E parent \in reach(r, tip[r]) \cup {tip[r]} : Push(r, parent)
           \/ \E c \in reach(r, tip[r]) : Rewind(r, c)
           \/ ChangePullRequest(r)
    PROVE  IndInv'
  <1>1. UNCHANGED <<kv, cursors, pc, cur, batch, head, published, failed>>
    BY DEF Push, Rewind, ChangePullRequest, memory, position, events
  <1>2. ASSUME NEW q \in Repo, NEW c \in Commit, anc[q][c] # {}
        PROVE  anc'[q][c] = anc[q][c]
    BY <1>2, PushKeepsAncestors DEF Rewind, ChangePullRequest, IndInv
  <1>3. CursorsExist'
    <2> SUFFICES ASSUME NEW q \in Repo
                 PROVE  /\ kv[q] # NoSHA => anc'[q][kv[q]] # {}
                        /\ cursors[q] # NoSHA => anc'[q][cursors[q]] # {}
      BY <1>1 DEF CursorsExist
    <2> QED  BY <1>2 DEF IndInv, CursorsExist, TypeOK, SHA
  <1>4. CursorsCoverAttempted'
    <2> SUFFICES ASSUME NEW q \in Repo
                 PROVE  attempted(q, kv[q])' /\ attempted(q, cursors[q])'
      BY DEF CursorsCoverAttempted
    <2>1. kv[q] # NoSHA => anc'[q][kv[q]] = anc[q][kv[q]]
      BY <1>2 DEF IndInv, CursorsExist, TypeOK, SHA
    <2>2. cursors[q] # NoSHA => anc'[q][cursors[q]] = anc[q][cursors[q]]
      BY <1>2 DEF IndInv, CursorsExist, TypeOK, SHA
    <2> QED  BY <1>1, <2>1, <2>2 DEF IndInv, CursorsCoverAttempted, attempted, reach
  <1>5. BatchCompletesHead'
    <2> SUFFICES ASSUME pc = "publish"
                 PROVE  /\ head \in Commit
                        /\ anc'[cur][head] # {}
                        /\ anc'[cur][head] \subseteq published[cur] \cup failed[cur] \cup batch
      BY <1>1 DEF BatchCompletesHead
    <2>1. cur \in Repo /\ head \in Commit /\ anc[cur][head] # {}
      BY DEF IndInv, BatchCompletesHead, TypeOK
    <2>2. anc'[cur][head] = anc[cur][head]  BY <1>2, <2>1
    <2> QED  BY <2>1, <2>2 DEF IndInv, BatchCompletesHead
  <1> QED  BY <1>3, <1>4, <1>5 DEF IndInv

\* A step that touches neither the commits nor the stream's record of them,
\* and that moves the cursors only to what they are in the bucket or to none,
\* keeps their invariants.
LEMMA CursorsKept ==
    ASSUME IndInv, UNCHANGED <<anc, published, failed>>,
           \A r \in Repo : kv'[r] \in {kv[r], NoSHA},
           \A r \in Repo : cursors'[r] \in {cursors[r], kv[r], NoSHA}
    PROVE  CursorsExist' /\ CursorsCoverAttempted'
  <1>1. CursorsExist'  BY DEF IndInv, CursorsExist
  <1>2. CursorsCoverAttempted'
    BY DEF IndInv, CursorsCoverAttempted, attempted, reach
  <1> QED  BY <1>1, <1>2

\* The steps of the crawl outside the publishing of a batch.
LEMMA MoveInv ==
    ASSUME IndInv, TypeOK',
           \/ \E ok \in BOOLEAN : StartCrawl(ok) \/ SelfOnboardRepo(ok) \/ CrawlPullRequests(ok)
           \/ \E r \in Repo : VisitRepo(r)
           \/ EndCrawl \/ GetReposFails \/ GetCommitsError
           \/ Crash
    PROVE  IndInv'
  <1>1. UNCHANGED <<anc, published, failed, kv>>
    BY DEF StartCrawl, SelfOnboardRepo, CrawlPullRequests, VisitRepo, EndCrawl,
           GetReposFails, GetCommitsError, Crash, server, events
  <1>2. \A r \in Repo : cursors'[r] \in {cursors[r], kv[r], NoSHA}
    BY DEF StartCrawl, SelfOnboardRepo, CrawlPullRequests, VisitRepo, EndCrawl,
           GetReposFails, GetCommitsError, Crash, memory
  <1>3. pc' # "publish"
    BY DEF StartCrawl, SelfOnboardRepo, CrawlPullRequests, VisitRepo, EndCrawl,
           GetReposFails, GetCommitsError, Crash, leaveRepo
  <1> QED  BY <1>1, <1>2, <1>3, CursorsKept DEF IndInv, BatchCompletesHead

\* What GetCommits leaves out because of the cursor has been attempted.
LEMMA FetchInv == ASSUME IndInv, TypeOK', GetCommits  PROVE IndInv'
  <1>1. UNCHANGED <<anc, published, failed, kv, cursors, cur>>
    BY DEF GetCommits, server, events, memory
  <1>2. CursorsExist' /\ CursorsCoverAttempted'  BY <1>1, CursorsKept
  <1>3. BatchCompletesHead'
    <2> SUFFICES ASSUME pc' = "publish"
                 PROVE  /\ head' \in Commit
                        /\ anc[cur][head'] # {}
                        /\ anc[cur][head'] \subseteq published[cur] \cup failed[cur] \cup batch'
      BY <1>1 DEF BatchCompletesHead
    <2>1. cur \in Repo  BY DEF GetCommits, IndInv, TypeOK
    <2>2. /\ head' = tip[cur]
          /\ batch' = reach(cur, tip[cur]) \ reach(cur, cursors[cur])
          /\ batch' # {}
      BY DEF GetCommits
    <2>3. tip[cur] # NoSHA /\ anc[cur][tip[cur]] # {} /\ reach(cur, tip[cur]) = anc[cur][tip[cur]]
      BY <2>2 DEF reach
    <2>4. tip[cur] \in Commit  BY <2>1, <2>3 DEF IndInv, TypeOK, SHA
    <2>5. reach(cur, cursors[cur]) \subseteq published[cur] \cup failed[cur]
      BY <2>1 DEF IndInv, CursorsCoverAttempted, attempted
    <2> QED  BY <2>2, <2>3, <2>4, <2>5
  <1> QED  BY <1>2, <1>3 DEF IndInv

\* Clearing a cursor is always safe: the next fetch only grows.
LEMMA ClearInv ==
    ASSUME IndInv, TypeOK', NEW ok \in BOOLEAN, GetCommitsCursorError(ok)
    PROVE  IndInv'
  <1>1. UNCHANGED <<anc, published, failed, pc>> /\ pc = "fetch"
    BY DEF GetCommitsCursorError, server, events, position
  <1>2. cur \in Repo  BY <1>1 DEF IndInv, TypeOK
  <1>3. \A r \in Repo : kv'[r] \in {kv[r], NoSHA}
    <2>1. NoSHA \in SHA  BY DEF SHA
    <2> QED  BY <1>2, <2>1, PutCursor DEF GetCommitsCursorError, IndInv, TypeOK
  <1>4. \A r \in Repo : cursors'[r] \in {cursors[r], kv[r], NoSHA}
    BY DEF GetCommitsCursorError, IndInv, TypeOK
  <1> QED  BY <1>1, <1>3, <1>4, CursorsKept DEF IndInv, BatchCompletesHead

\* A commit leaves the batch for published or failed.
LEMMA PublishInv ==
    ASSUME IndInv, TypeOK', NEW ok \in BOOLEAN, NEW c \in batch, PublishCommit(c, ok)
    PROVE  IndInv'
  <1>1. UNCHANGED <<anc, kv, cursors, pc, cur, head>> /\ pc = "publish"
    BY DEF PublishCommit, server, memory
  <1>2. cur \in Repo  BY <1>1 DEF IndInv, TypeOK
  <1>3. /\ published[cur] \cup failed[cur] \cup batch
             \subseteq published'[cur] \cup failed'[cur] \cup batch'
        /\ \A r \in Repo : published[r] \cup failed[r] \subseteq published'[r] \cup failed'[r]
    <2>1. CASE ok
      BY <1>2, <2>1 DEF PublishCommit, IndInv, TypeOK
    <2>2. CASE ~ok
      <3>1. /\ published' = published /\ batch' = batch \ {c}
            /\ failed' = [failed EXCEPT ![cur] = @ \cup {c}]
        BY <2>2 DEF PublishCommit
      <3>2. failed'[cur] = failed[cur] \cup {c}  BY <1>2, <3>1 DEF IndInv, TypeOK
      <3>3. \A r \in Repo : r # cur => failed'[r] = failed[r]
        BY <3>1 DEF IndInv, TypeOK
      <3> QED  BY <3>1, <3>2, <3>3
    <2> QED  BY <2>1, <2>2
  <1>4. CursorsExist'  BY <1>1 DEF IndInv, CursorsExist
  <1>5. CursorsCoverAttempted'
    <2> SUFFICES ASSUME NEW r \in Repo
                 PROVE  attempted(r, kv[r])' /\ attempted(r, cursors[r])'
      BY DEF CursorsCoverAttempted
    <2>1. attempted(r, kv[r]) /\ attempted(r, cursors[r])
      BY DEF IndInv, CursorsCoverAttempted
    <2> QED  BY <1>1, <1>3, <2>1 DEF attempted, reach
  <1>6. BatchCompletesHead'  BY <1>1, <1>3 DEF IndInv, BatchCompletesHead
  <1> QED  BY <1>4, <1>5, <1>6 DEF IndInv

\* With the batch empty every ancestor of head has been attempted.
LEMMA SaveInv ==
    ASSUME IndInv, TypeOK', NEW ok \in BOOLEAN, SaveCursor(ok)
    PROVE  IndInv'
  <1>1. UNCHANGED <<anc, published, failed>> /\ pc = "publish" /\ pc' = "onboard" /\ batch = {}
    BY DEF SaveCursor, server, events
  <1>2. cur \in Repo  BY <1>1 DEF IndInv, TypeOK
  <1>3. /\ head \in Commit /\ head \in SHA /\ anc[cur][head] # {}
        /\ anc[cur][head] \subseteq published[cur] \cup failed[cur]
    BY <1>1 DEF IndInv, BatchCompletesHead, SHA
  <1>4. \A r \in Repo : kv'[r] = kv[r] \/ (r = cur /\ kv'[r] = head)
    BY <1>2, <1>3, PutCursor DEF SaveCursor, IndInv, TypeOK
  <1>5. \A r \in Repo : cursors'[r] = cursors[r] \/ (r = cur /\ cursors'[r] = head)
    BY <1>2 DEF SaveCursor, IndInv, TypeOK
  <1>6. CursorsExist'
    BY <1>1, <1>3, <1>4, <1>5 DEF IndInv, CursorsExist
  <1>7. CursorsCoverAttempted'
    <2>1. attempted(cur, head)  BY <1>3, CrawlerAssumption DEF attempted, reach
    <2>2. ASSUME NEW r \in Repo
          PROVE  attempted(r, kv'[r]) /\ attempted(r, cursors'[r])
      BY <1>4, <1>5, <2>1 DEF IndInv, CursorsCoverAttempted
    <2> QED  BY <1>1, <2>2 DEF CursorsCoverAttempted, attempted, reach
  <1>8. BatchCompletesHead'  BY <1>1 DEF BatchCompletesHead
  <1> QED  BY <1>6, <1>7, <1>8 DEF IndInv

\* Every step preserves the inductive invariant.
LEMMA InvStep == IndInv /\ [Next]_vars => IndInv'
  <1> SUFFICES ASSUME IndInv, [Next]_vars  PROVE IndInv'
    OBVIOUS
  <1>1. TypeOK'  BY TypeStep DEF IndInv
  <1>2. CASE Next
    BY <1>1, <1>2, ServerInv, MoveInv, FetchInv, ClearInv, PublishInv, SaveInv
    DEF Next, CrawlStep
  <1>3. CASE UNCHANGED vars
    BY <1>1, <1>3, CursorsKept
    DEF vars, server, memory, position, events, IndInv, BatchCompletesHead
  <1> QED  BY <1>2, <1>3

\* The inductive invariant holds throughout.
THEOREM IndInvHolds == Spec => []IndInv
  BY InitInv, InvStep, PTL DEF Spec

\* Type correctness of the crawler and its server.
THEOREM TypeCorrect == Spec => []TypeOK
  BY IndInvHolds, PTL DEF IndInv

\* Whatever a cursor makes the next crawl skip has been handed to the stream,
\* through any crashes, failed calls, lost cursors and force-pushes.
THEOREM CursorsCorrect == Spec => []CursorsCoverAttempted
  BY IndInvHolds, PTL DEF IndInv
=============================================================================
