------------------------ MODULE JenkinsCrawlerProofs ------------------------
(***************************************************************************)
(* That a cursor of the Jenkins crawler is never above a build that no one *)
(* attempted to publish, for every set of jobs and builds, any number of   *)
(* deletions of jobs and of faults.                                        *)
(*                                                                         *)
(* The property speaks of completed builds.  The invariant also speaks of  *)
(* running ones, which complete later, and of the builds of the crawl that *)
(* is under way; and it needs three facts about numbers: those of a job    *)
(* have no gaps, not even after it was recreated, so that a new build with *)
(* a number at or below a cursor has a predecessor with that number;       *)
(* builds on the server have different ones; and some number is the        *)
(* highest.                                                                *)
(***************************************************************************)
EXTENDS JenkinsCrawler, TLAPS

live(b) == state[b] \in {"running", "done"}
used(j) == {number[b] : b \in {c \in Build : job[c] = j}}
excused(b) == attempted(b) \/ b \in overtaken \cup reborn

\* A build at or below number n of job j needs no further crawl.
covered(j, n) ==
    \A b \in Build : job[b] = j /\ live(b) /\ number[b] <= n => excused(b)

JobsKnown == \A b \in Build : state[b] = "none" <=> job[b] = NoBuild

NumbersGapless ==
    \A j \in Job :
        /\ nextNumber[j] >= 1
        /\ 1..(nextNumber[j] - 1) \subseteq used(j)
        /\ \A n \in used(j) : n >= 1 /\ 1..n \subseteq used(j)

LiveNumbersDiffer ==
    \A b, c \in Build : live(b) /\ live(c) /\ job[b] = job[c] =>
        number[b] < nextNumber[job[b]] /\ (number[b] = number[c] => b = c)

NumbersTopped ==
    \A j \in Job : \A ns \in SUBSET used(j) : ns # {} => \E m \in ns : \A n \in ns : m >= n

ServerInv == JobsKnown /\ NumbersGapless /\ LiveNumbersDiffer /\ NumbersTopped

CursorsUsed == \A j \in Job : {kv[j], cursors[j]} \subseteq used(j) \cup {0}
CursorsCover == \A j \in Job : covered(j, kv[j]) /\ covered(j, cursors[j])

\* Between the builds a job was asked for there are only builds it left out for
\* a reason.
FetchedCover ==
    \A j \in Job : \A f \in fetched[j] :
        /\ job[f] = j
        /\ \A b \in Build : job[b] = j /\ live(b) /\ number[b] <= number[f] =>
               excused(b) \/ b \in fetched[j]

\* Of the builds of the job being crawled, all but those left have been
\* attempted; of one whose tasks are due, the run has.
PublishingCovers ==
    pc \in {"runs", "tasks"} =>
        /\ fetched[cur] # {}
        /\ \A b \in fetched[cur] :
               b \in left \/ attempted(b) \/ (pc = "tasks" /\ b = run /\ b \in published \cup failed)

\* Publishing begins when every job has been asked.
AskedBeforePublishing ==
    /\ members # {} => todo = {} /\ pc \in {"next", "runs", "tasks"}
    /\ \A j \in members : fetched[j] # {}

IndInv == /\ TypeOK /\ ServerInv /\ CursorsUsed /\ CursorsCover
          /\ FetchedCover /\ PublishingCovers /\ AskedBeforePublishing

\* The server has no builds at first, the crawler no cursors and nothing to do.
LEMMA InitInv == Init => IndInv
  <1> SUFFICES ASSUME Init  PROVE IndInv
    OBVIOUS
  <1>1. TypeOK  BY CrawlerAssumption DEF Init, TypeOK, noBuilds
  <1>2. \A j \in Job, b \in Build : job[b] # j
    BY CrawlerAssumption DEF Init
  <1>3. \A j \in Job : used(j) = {}  BY <1>2 DEF used
  <1>4. ServerInv
    <2>1. JobsKnown  BY DEF Init, JobsKnown
    <2>2. NumbersGapless  BY <1>3 DEF Init, NumbersGapless
    <2>3. LiveNumbersDiffer  BY DEF Init, LiveNumbersDiffer, live
    <2>4. NumbersTopped  BY <1>3 DEF NumbersTopped
    <2> QED  BY <2>1, <2>2, <2>3, <2>4 DEF ServerInv
  <1>5. CursorsUsed  BY DEF Init, CursorsUsed
  <1>6. CursorsCover  BY <1>2 DEF CursorsCover, covered
  <1>7. FetchedCover /\ PublishingCovers /\ AskedBeforePublishing
    BY DEF Init, noBuilds, FetchedCover, PublishingCovers, AskedBeforePublishing
  <1> QED  BY <1>1, <1>4, <1>5, <1>6, <1>7 DEF IndInv

-----------------------------------------------------------------------------
\* Types.

\* The numbers of the builds of a crawl have a highest one, which is used.
LEMMA HighestNumber ==
    ASSUME TypeOK, NumbersTopped, FetchedCover, NEW j \in Job, fetched[j] # {}
    PROVE  /\ Max(numbers(fetched[j])) \in used(j) /\ Max(numbers(fetched[j])) \in Nat
           /\ \E f \in fetched[j] : number[f] = Max(numbers(fetched[j]))
           /\ \A f \in fetched[j] : number[f] <= Max(numbers(fetched[j]))
  <1> DEFINE ns == numbers(fetched[j])
  <1>1. ns \in SUBSET used(j) /\ ns # {}
    BY DEF numbers, used, FetchedCover, TypeOK
  <1>2. PICK m \in ns : \A n \in ns : m >= n
    BY <1>1 DEF NumbersTopped
  <1>3. Max(ns) \in ns /\ \A n \in ns : Max(ns) >= n
    BY <1>2 DEF Max
  <1>4. ns \subseteq Nat  BY DEF numbers, TypeOK
  <1> HIDE DEF ns
  <1>5. \A f \in fetched[j] : number[f] \in ns  BY DEF ns, numbers
  <1>6. \E f \in fetched[j] : number[f] = Max(ns)  BY <1>3 DEF ns, numbers
  <1>7. \A f \in fetched[j] : number[f] <= Max(ns)  BY <1>3, <1>4, <1>5
  <1> QED  BY <1>1, <1>3, <1>4, <1>6, <1>7 DEF ns

\* What a write to the bucket leaves in it has the bucket's type.
LEMMA PutType ==
    ASSUME kv \in [Job -> Nat], NEW j \in Job, NEW n \in Nat, NEW ok \in BOOLEAN, put(j, n, ok)
    PROVE  kv' \in [Job -> Nat]
  BY DEF put

\* The server's steps preserve the type invariant.
LEMMA ServerTypes ==
    ASSUME TypeOK,
           \/ \E j \in Job : StartBuild(j) \/ ResetJob(j)
           \/ \E b \in Build : FinishBuild(b) \/ PurgeBuild(b)
    PROVE  TypeOK'
  <1>1. ASSUME NEW j \in Job, StartBuild(j)  PROVE TypeOK'
    <2>1. freshBuild \in Build  BY <1>1 DEF StartBuild, freshBuild
    <2>2. state' \in [Build -> {"none", "running", "done", "purged"}]
      BY <1>1, <2>1 DEF StartBuild, TypeOK
    <2>3. job' \in [Build -> Job \cup {NoBuild}]  BY <1>1, <2>1 DEF StartBuild, TypeOK
    <2>4. number' \in [Build -> Nat] /\ nextNumber' \in [Job -> Nat]
      BY <1>1, <2>1 DEF StartBuild, TypeOK
    <2>5. reborn' \subseteq Build  BY <1>1, <2>1 DEF StartBuild, TypeOK
    <2>6. UNCHANGED <<resets, kv, memory, pc, cur, fetching, publishing, events, overtaken, faults>>
      BY <1>1 DEF StartBuild
    <2> QED  BY <2>2, <2>3, <2>4, <2>5, <2>6 DEF TypeOK, memory, fetching, publishing, events
  <1>2. ASSUME NEW j \in Job, ResetJob(j)  PROVE TypeOK'
    <2>1. /\ state' \in [Build -> {"none", "running", "done", "purged"}]
          /\ nextNumber' \in [Job -> Nat] /\ resets' \in Nat
      BY <1>2 DEF ResetJob, TypeOK
    <2> QED  BY <1>2, <2>1 DEF ResetJob, TypeOK, memory, fetching, publishing, events
  <1>3. ASSUME NEW b \in Build, FinishBuild(b) \/ PurgeBuild(b)  PROVE TypeOK'
    BY <1>3 DEF FinishBuild, PurgeBuild, TypeOK, memory, fetching, publishing, events
  <1> QED  BY <1>1, <1>2, <1>3

\* The crawler's steps preserve it.
LEMMA AskTypes ==
    ASSUME TypeOK, NEW ok \in BOOLEAN,
           \/ StartCrawl(ok) \/ GetBuilds(ok)
           \/ \E found \in SUBSET Job : Discover(found)
           \/ \E j \in Job, clearOK \in BOOLEAN : Probe(j, ok, clearOK)
    PROVE  TypeOK'
  <1>1. ASSUME StartCrawl(ok)  PROVE TypeOK'
    <2>1. cursors' \in [Job -> Nat] /\ faults' \in Nat
      BY <1>1 DEF StartCrawl, TypeOK, fault
    <2> QED  BY <1>1, <2>1 DEF StartCrawl, TypeOK, server, fetching, publishing, events
  <1>2. ASSUME NEW found \in SUBSET Job, Discover(found)  PROVE TypeOK'
    <2>1. groups' \subseteq Pipeline /\ faults' \in Nat
      BY <1>2, CrawlerAssumption DEF Discover, TypeOK, fault
    <2> QED  BY <1>2, <2>1 DEF Discover, TypeOK, server, memory, events
  <1>3. ASSUME NEW j \in Job, NEW clearOK \in BOOLEAN, Probe(j, ok, clearOK)  PROVE TypeOK'
    <2>1. kv' \in [Job -> Nat] /\ cursors' \in [Job -> Nat] /\ faults' \in Nat
      BY <1>3, PutType DEF Probe, TypeOK, fault
    <2>2. /\ todo' \subseteq Job /\ pc = "next"
          /\ (pc' = "fetch" /\ cur' = j) \/ (pc' = pc /\ cur' = cur)
      BY <1>3 DEF Probe, TypeOK
    <2>3. UNCHANGED <<server, loaded, fetched, publishing, events, overtaken>>
      BY <1>3 DEF Probe
    <2> QED  BY <2>1, <2>2, <2>3 DEF TypeOK, server, publishing, events
  <1>4. ASSUME GetBuilds(ok)  PROVE TypeOK'
    <2>1. cur \in Job /\ pc = "fetch"  BY <1>4 DEF GetBuilds, TypeOK
    <2>2. newBuilds(cur) \subseteq Build /\ buildsOf(cur, "running") \subseteq Build
      BY DEF newBuilds, buildsOf
    <2>3. fetched' \in [Job -> SUBSET Build] /\ faults' \in Nat
      BY <1>4, <2>1, <2>2 DEF GetBuilds, TypeOK, fault
    <2>4. overtaken' \subseteq Build  BY <1>4, <2>2 DEF GetBuilds, TypeOK
    <2>5. pc' = "next" /\ cur' = NoBuild /\ UNCHANGED <<server, kv, memory, todo, publishing, events>>
      BY <1>4 DEF GetBuilds
    <2> QED
      BY <2>1, <2>3, <2>4, <2>5, CrawlerAssumption DEF TypeOK, server, memory, publishing, events
  <1> QED  BY <1>1, <1>2, <1>3, <1>4

LEMMA PublishTypes ==
    ASSUME TypeOK, NumbersTopped, FetchedCover, PublishingCovers, NEW ok \in BOOLEAN,
           \/ \E p \in Pipeline : PublishWorkflow(p, ok)
           \/ \E j \in Job : CrawlJob(j)
           \/ \E b \in left : PublishRun(b, ok)
           \/ PublishTasks(ok) \/ SaveCursor(ok) \/ EndCrawl \/ Crash
    PROVE  TypeOK'
  <1>1. ASSUME NEW p \in Pipeline, PublishWorkflow(p, ok)  PROVE TypeOK'
    <2> DEFINE new == UNION {fetched[j] : j \in jobsOf(p)}
               repoIDs == IF extractRepoIDs(new) = {} THEN repoOverrides[p] ELSE extractRepoIDs(new)
    <2>1. new \subseteq Build  BY DEF TypeOK, jobsOf
    <2>2. repoIDs \subseteq Repo  BY <2>1, CrawlerAssumption DEF extractRepoIDs
    <2>3. workflow' \in {workflow, [workflow EXCEPT ![p] = repoIDs]}  BY <1>1 DEF PublishWorkflow
    <2> HIDE DEF new, repoIDs
    <2>4. workflow' \in [Pipeline -> SUBSET Repo]  BY <2>2, <2>3 DEF TypeOK
    <2>5. members' \subseteq Job /\ groups' \subseteq Pipeline /\ faults' \in Nat
      BY <1>1 DEF PublishWorkflow, TypeOK, jobsOf, fault
    <2>6. UNCHANGED <<server, kv, memory, pc, cur, fetching, left, run, published, tasked, failed, overtaken>>
      BY <1>1 DEF PublishWorkflow
    <2> QED  BY <2>4, <2>5, <2>6 DEF TypeOK, server, memory, fetching
  <1>2. ASSUME NEW j \in Job, CrawlJob(j)  PROVE TypeOK'
    BY <1>2 DEF CrawlJob, TypeOK, server, memory, fetching, events
  <1>3. ASSUME NEW b \in left, PublishRun(b, ok)  PROVE TypeOK'
    <2>1. b \in Build  BY DEF TypeOK
    <2>2. failed' \subseteq Build /\ faults' \in Nat
      BY <1>3, <2>1 DEF PublishRun, TypeOK, attempt, fault
    <2> QED  BY <1>3, <2>1, <2>2 DEF PublishRun, TypeOK, server, memory, fetching
  <1>4. ASSUME PublishTasks(ok)  PROVE TypeOK'
    <2>1. run \in Build /\ pc = "tasks"  BY <1>4 DEF PublishTasks, TypeOK
    <2>2. failed' \subseteq Build /\ faults' \in Nat
      BY <1>4, <2>1 DEF PublishTasks, TypeOK, attempt, fault
    <2>3. tasked' \subseteq Build  BY <1>4, <2>1 DEF PublishTasks, TypeOK
    <2>4. /\ run' = NoBuild /\ pc' = "runs"
          /\ UNCHANGED <<server, kv, memory, cur, fetching, groups, members, left, workflow, published, overtaken>>
      BY <1>4 DEF PublishTasks
    <2> QED  BY <2>1, <2>2, <2>3, <2>4, CrawlerAssumption DEF TypeOK, server, memory, fetching
  <1>5. ASSUME SaveCursor(ok)  PROVE TypeOK'
    <2>1. cur \in Job /\ pc = "runs"  BY <1>5 DEF SaveCursor, TypeOK
    <2>2. Max(numbers(fetched[cur])) \in Nat
      BY <2>1, HighestNumber DEF PublishingCovers
    <2>3. kv' \in [Job -> Nat] /\ cursors' \in [Job -> Nat] /\ faults' \in Nat
      BY <1>5, <2>1, <2>2, PutType DEF SaveCursor, TypeOK, fault
    <2>4. pc' = "next" /\ cur' = NoBuild /\ UNCHANGED <<server, loaded, fetching, publishing, events, overtaken>>
      BY <1>5 DEF SaveCursor
    <2> QED  BY <2>1, <2>3, <2>4, CrawlerAssumption DEF TypeOK, server, fetching, publishing, events
  <1>6. ASSUME EndCrawl  PROVE TypeOK'
    BY <1>6 DEF EndCrawl, noBuilds, TypeOK, server, memory, publishing, events
  <1>7. ASSUME Crash  PROVE TypeOK'
    <2>1. cursors' \in [Job -> Nat] /\ fetched' \in [Job -> SUBSET Build] /\ faults' \in Nat
      BY <1>7 DEF Crash, noBuilds, TypeOK, fault
    <2> QED  BY <1>7, <2>1, CrawlerAssumption DEF Crash, TypeOK, server, events
  <1> QED  BY <1>1, <1>2, <1>3, <1>4, <1>5, <1>6, <1>7

\* Every step preserves the type invariant.
LEMMA TypeStep == IndInv /\ [Next]_vars => TypeOK'
  <1> SUFFICES ASSUME IndInv, [Next]_vars  PROVE TypeOK'
    OBVIOUS
  <1>1. CASE Next
    BY <1>1, ServerTypes, AskTypes, PublishTypes DEF Next, CrawlStep, IndInv, ServerInv
  <1>2. CASE UNCHANGED vars
    BY <1>2 DEF vars, server, memory, fetching, publishing, events, TypeOK, IndInv
  <1> QED  BY <1>1, <1>2
-----------------------------------------------------------------------------
\* What steps leave true.

\* No step takes back an attempt or an excuse.
excusesKept ==
    /\ published \subseteq published' /\ tasked \subseteq tasked' /\ failed \subseteq failed'
    /\ overtaken \subseteq overtaken' /\ reborn \subseteq reborn'

LEMMA ExcusedStays ==
    ASSUME excusesKept, NEW b
    PROVE  (excused(b) => excused(b)') /\ (attempted(b) => attempted(b)')
  BY DEF excusesKept, excused, attempted

\* Builds that are neither started nor get a number keep the facts about them,
\* while some may finish or go.
LEMMA ServerKept ==
    ASSUME ServerInv, UNCHANGED <<job, number, nextNumber>>,
           \A b \in Build : live(b)' => live(b),
           \A b \in Build : state'[b] = "none" <=> state[b] = "none"
    PROVE  ServerInv'
  <1>1. \A j \in Job : used(j)' = used(j)  BY DEF used
  <1>2. JobsKnown'  BY DEF ServerInv, JobsKnown
  <1>3. NumbersGapless'  BY <1>1 DEF ServerInv, NumbersGapless
  <1>4. LiveNumbersDiffer'  BY DEF ServerInv, LiveNumbersDiffer
  <1>5. NumbersTopped'  BY <1>1 DEF ServerInv, NumbersTopped
  <1> QED  BY <1>2, <1>3, <1>4, <1>5 DEF ServerInv

\* Cursors that move only to what they are in the bucket, or to none, go on
\* covering what they covered.
LEMMA CursorsKept ==
    ASSUME IndInv, excusesKept, UNCHANGED <<job, number>>,
           \A b \in Build : live(b)' => live(b),
           \A j \in Job : kv'[j] \in {kv[j], 0},
           \A j \in Job : cursors'[j] \in {cursors[j], kv[j], 0}
    PROVE  CursorsUsed' /\ CursorsCover'
  <1>1. \A j \in Job : used(j)' = used(j)  BY DEF used
  <1>2. CursorsUsed'  BY <1>1 DEF IndInv, CursorsUsed
  <1>3. \A j \in Job : covered(j, 0)
    <2>1. \A j \in Job, b \in Build : job[b] = j => number[b] \in used(j)  BY DEF used
    <2>2. \A j \in Job, b \in Build : job[b] = j => number[b] >= 1
      BY <2>1 DEF IndInv, ServerInv, NumbersGapless
    <2>3. \A b \in Build : number[b] \in Nat  BY DEF IndInv, TypeOK
    <2> QED  BY <2>2, <2>3 DEF covered
  <1>4. \A j \in Job : \A n : covered(j, n) => covered(j, n)'
    BY ExcusedStays DEF covered
  <1>5. CursorsCover'  BY <1>3, <1>4 DEF IndInv, CursorsCover
  <1> QED  BY <1>2, <1>5

\* The builds of a crawl that stay, or are given up with it, are as before.
LEMMA FetchedKept ==
    ASSUME IndInv, excusesKept, UNCHANGED <<job, number>>,
           \A b \in Build : live(b)' => live(b),
           \A j \in Job : fetched'[j] \in {fetched[j], {}}
    PROVE  FetchedCover'
  <1> SUFFICES ASSUME NEW j \in Job, NEW f \in fetched'[j]
               PROVE  /\ job[f] = j
                      /\ \A b \in Build : job[b] = j /\ live(b)' /\ number[b] <= number[f] =>
                             excused(b)' \/ b \in fetched'[j]
    BY DEF FetchedCover
  <1>1. fetched'[j] = fetched[j]  OBVIOUS
  <1> QED  BY <1>1, ExcusedStays DEF IndInv, FetchedCover

-----------------------------------------------------------------------------
\* The server.

\* Everything that changes when a build is started.
LEMMA StartEffect ==
    ASSUME TypeOK, JobsKnown, NEW j \in Job, StartBuild(j)
    PROVE  /\ freshBuild \in Build /\ ~live(freshBuild)
           /\ \A i \in Job : job[freshBuild] # i
           /\ job'[freshBuild] = j /\ number'[freshBuild] = nextNumber[j]
           /\ \A b \in Build \ {freshBuild} :
                  job'[b] = job[b] /\ number'[b] = number[b] /\ state'[b] = state[b]
           /\ state'[freshBuild] = "running"
           /\ used(j)' = used(j) \cup {nextNumber[j]}
           /\ \A i \in Job \ {j} : used(i)' = used(i)
           /\ nextNumber' = [nextNumber EXCEPT ![j] = @ + 1]
           /\ nextNumber[j] \in used(j) => freshBuild \in reborn'
           /\ excusesKept
           /\ UNCHANGED <<kv, cursors, pc, cur, todo, fetched, members, left, run,
                          published, tasked, failed>>
  <1>1. freshBuild \in Build /\ state[freshBuild] = "none"
    BY DEF StartBuild, freshBuild
  <1>2. \A i \in Job : job[freshBuild] # i
    BY <1>1, CrawlerAssumption DEF JobsKnown
  <1>3. /\ job' = [job EXCEPT ![freshBuild] = j]
        /\ number' = [number EXCEPT ![freshBuild] = nextNumber[j]]
        /\ state' = [state EXCEPT ![freshBuild] = "running"]
        /\ nextNumber' = [nextNumber EXCEPT ![j] = @ + 1]
    BY DEF StartBuild
  <1>4. /\ job'[freshBuild] = j /\ number'[freshBuild] = nextNumber[j]
        /\ state'[freshBuild] = "running"
        /\ \A b \in Build \ {freshBuild} :
               job'[b] = job[b] /\ number'[b] = number[b] /\ state'[b] = state[b]
    BY <1>1, <1>3 DEF TypeOK
  <1>5. used(j)' = used(j) \cup {nextNumber[j]}  BY <1>1, <1>2, <1>4 DEF used
  <1>6. \A i \in Job \ {j} : used(i)' = used(i)  BY <1>1, <1>2, <1>4 DEF used
  <1>7. nextNumber[j] \in used(j) => freshBuild \in reborn'
    BY DEF StartBuild, used
  <1>8. /\ UNCHANGED <<kv, cursors, pc, cur, todo, fetched, members, left, run>>
        /\ UNCHANGED <<published, tasked, failed, overtaken>> /\ reborn \subseteq reborn'
    BY DEF StartBuild, memory, fetching, publishing, events
  <1> QED  BY <1>1, <1>2, <1>3, <1>4, <1>5, <1>6, <1>7, <1>8 DEF live, excusesKept

\* A new build has a number of its own among those on the server, leaves no
\* gap, and if a build had its number before, it is reborn.
LEMMA StartInv ==
    ASSUME IndInv, TypeOK', NEW j \in Job, StartBuild(j)
    PROVE  IndInv'
  <1>1. TypeOK /\ ServerInv /\ JobsKnown /\ NumbersGapless /\ LiveNumbersDiffer /\ NumbersTopped
    BY DEF IndInv, ServerInv
  <1>2. PICK new \in Build :
        /\ ~live(new)
        /\ \A i \in Job : job[new] # i
        /\ job'[new] = j /\ number'[new] = nextNumber[j]
        /\ \A b \in Build \ {new} :
               job'[b] = job[b] /\ number'[b] = number[b] /\ state'[b] = state[b]
        /\ state'[new] = "running"
        /\ used(j)' = used(j) \cup {nextNumber[j]}
        /\ \A i \in Job \ {j} : used(i)' = used(i)
        /\ nextNumber' = [nextNumber EXCEPT ![j] = @ + 1]
        /\ nextNumber[j] \in used(j) => new \in reborn'
        /\ excusesKept
        /\ UNCHANGED <<kv, cursors, pc, cur, todo, fetched, members, left, run,
                       published, tasked, failed>>
    BY <1>1, StartEffect
  <1>3. nextNumber[j] \in Nat /\ nextNumber[j] >= 1 /\ nextNumber'[j] = nextNumber[j] + 1
    BY <1>1, <1>2 DEF TypeOK, NumbersGapless
  <1>4. \A i \in Job : used(i) \subseteq Nat  BY <1>1 DEF TypeOK, used
  <1>5. JobsKnown'  BY <1>1, <1>2, CrawlerAssumption DEF JobsKnown
  <1>6. NumbersGapless'
    <2> SUFFICES ASSUME NEW i \in Job
                 PROVE  /\ nextNumber'[i] >= 1
                        /\ 1..(nextNumber'[i] - 1) \subseteq used(i)'
                        /\ \A n \in used(i)' : n >= 1 /\ 1..n \subseteq used(i)'
      BY DEF NumbersGapless
    <2>1. CASE i = j
      <3>1. 1..(nextNumber[j] - 1) \subseteq used(j)  BY <1>1 DEF NumbersGapless
      <3>2. \A n \in used(j) : n >= 1 /\ 1..n \subseteq used(j)  BY <1>1 DEF NumbersGapless
      <3>3. 1..nextNumber[j] \subseteq used(j)'  BY <1>2, <1>3, <3>1
      <3> QED  BY <1>2, <1>3, <2>1, <3>2, <3>3
    <2>2. CASE i # j
      <3>1. used(i)' = used(i) /\ nextNumber'[i] = nextNumber[i]
        BY <1>1, <1>2, <2>2 DEF TypeOK
      <3> QED  BY <1>1, <3>1 DEF NumbersGapless
    <2> QED  BY <2>1, <2>2
  <1>7. LiveNumbersDiffer'
    <2> SUFFICES ASSUME NEW b \in Build, NEW c \in Build, live(b)', live(c)', job'[b] = job'[c]
                 PROVE  number'[b] < nextNumber'[job'[b]] /\ (number'[b] = number'[c] => b = c)
      BY DEF LiveNumbersDiffer
    <2>1. ASSUME NEW d \in Build \ {new}, live(d)'
          PROVE  /\ live(d) /\ job[d] \in Job /\ number[d] \in Nat
                 /\ nextNumber[job[d]] \in Nat /\ number[d] < nextNumber[job[d]]
                 /\ number'[d] < nextNumber'[job'[d]]
      <3>1. live(d)  BY <1>2, <2>1 DEF live
      <3>2. job[d] \in Job  BY <1>1, <3>1 DEF JobsKnown, TypeOK, live
      <3>3. number[d] < nextNumber[job[d]]  BY <1>1, <3>1 DEF LiveNumbersDiffer
      <3>4. nextNumber'[job[d]] \in {nextNumber[job[d]], nextNumber[job[d]] + 1}
        BY <1>1, <1>2, <3>2 DEF TypeOK
      <3> QED  BY <1>1, <1>2, <3>1, <3>2, <3>3, <3>4 DEF TypeOK
    <2>2. number'[b] < nextNumber'[job'[b]]
      BY <1>2, <1>3, <2>1
    <2>3. ASSUME number'[b] = number'[c], b # c  PROVE FALSE
      <3>1. CASE b = new
        <4>1. c \in Build \ {new} /\ job[c] = j /\ number[c] < nextNumber[j]
          BY <1>2, <2>1, <2>3, <3>1
        <4> QED  BY <1>2, <1>3, <2>1, <2>3, <3>1, <4>1
      <3>2. CASE c = new
        <4>1. b \in Build \ {new} /\ job[b] = j /\ number[b] < nextNumber[j]
          BY <1>2, <2>1, <2>3, <3>2
        <4> QED  BY <1>2, <1>3, <2>1, <2>3, <3>2, <4>1
      <3>3. CASE b # new /\ c # new
        BY <1>1, <1>2, <2>1, <2>3, <3>3 DEF LiveNumbersDiffer
      <3> QED  BY <3>1, <3>2, <3>3
    <2> QED  BY <2>2, <2>3
  <1>8. NumbersTopped'
    <2> SUFFICES ASSUME NEW i \in Job, NEW ns \in SUBSET used(i)', ns # {}
                 PROVE  \E m \in ns : \A n \in ns : m >= n
      BY DEF NumbersTopped
    <2>1. CASE nextNumber[j] \notin ns \/ i # j
      <3>1. ns \in SUBSET used(i)  BY <1>2, <2>1
      <3> QED  BY <1>1, <3>1 DEF NumbersTopped
    <2>2. CASE nextNumber[j] \in ns /\ i = j
      <3> DEFINE old == ns \ {nextNumber[j]}
      <3>1. old \in SUBSET used(j)  BY <1>2, <2>2
      <3>2. CASE old = {}
        <4>1. \A n \in ns : n = nextNumber[j]  BY <3>2
        <4> QED  BY <1>3, <2>2, <4>1
      <3>3. CASE old # {}
        <4>1. PICK m \in old : \A n \in old : m >= n  BY <1>1, <3>1, <3>3 DEF NumbersTopped
        <4>2. m \in Nat /\ \A n \in old : n \in Nat  BY <1>4, <3>1
        <4>3. CASE m >= nextNumber[j]  BY <4>1, <4>3
        <4>4. CASE ~(m >= nextNumber[j])
          <5>1. \A n \in ns : nextNumber[j] >= n  BY <1>3, <4>1, <4>2, <4>4
          <5> QED  BY <2>2, <5>1
        <4> QED  BY <4>3, <4>4
      <3> QED  BY <3>2, <3>3
    <2> QED  BY <2>1, <2>2
  <1>9. CursorsUsed'  BY <1>2 DEF IndInv, CursorsUsed
  \* a cursor, or the number of a fetched build, at or above the new number
  <1>10. ASSUME NEW n \in used(j) \cup {0}, nextNumber[j] <= n
         PROVE  excused(new)'
    <2>1. n \in used(j)  BY <1>3, <1>10
    <2>2. nextNumber[j] \in 1..n  BY <1>3, <1>4, <1>10, <2>1
    <2>3. nextNumber[j] \in used(j)  BY <1>1, <2>1, <2>2 DEF NumbersGapless
    <2> QED  BY <1>2, <2>3 DEF excused
  <1>11. CursorsCover'
    <2> SUFFICES ASSUME NEW i \in Job, NEW n \in {kv[i], cursors[i]},
                        NEW b \in Build, job'[b] = i, live(b)', number'[b] <= n
                 PROVE  excused(b)'
      BY <1>2 DEF CursorsCover, covered
    <2>1. n \in used(i) \cup {0}  BY DEF IndInv, CursorsUsed
    <2>2. CASE b = new  BY <1>2, <1>10, <2>1, <2>2
    <2>3. CASE b # new
      <3>1. job[b] = i /\ live(b) /\ number[b] <= n  BY <1>2, <2>3 DEF live
      <3>2. excused(b)  BY <3>1 DEF IndInv, CursorsCover, covered
      <3> QED  BY <1>2, <3>2, ExcusedStays
    <2> QED  BY <2>2, <2>3
  <1>12. FetchedCover'
    <2> SUFFICES ASSUME NEW i \in Job, NEW f \in fetched[i]
                 PROVE  /\ job'[f] = i
                        /\ \A b \in Build : job'[b] = i /\ live(b)' /\ number'[b] <= number'[f] =>
                               excused(b)' \/ b \in fetched[i]
      BY <1>2 DEF FetchedCover
    <2>1. f \in Build /\ job[f] = i  BY <1>1 DEF IndInv, FetchedCover, TypeOK
    <2>2. f # new /\ job'[f] = i /\ number'[f] = number[f] /\ number[f] \in used(i)
      BY <1>2, <2>1 DEF used
    <2>3. ASSUME NEW b \in Build, job'[b] = i, live(b)', number'[b] <= number'[f]
          PROVE  excused(b)' \/ b \in fetched[i]
      <3>1. CASE b = new  BY <1>2, <1>10, <2>2, <2>3, <3>1
      <3>2. CASE b # new
        <4>1. job[b] = i /\ live(b) /\ number[b] <= number[f]  BY <1>2, <2>2, <2>3, <3>2 DEF live
        <4>2. excused(b) \/ b \in fetched[i]  BY <4>1 DEF IndInv, FetchedCover
        <4> QED  BY <1>2, <4>2, ExcusedStays
      <3> QED  BY <3>1, <3>2
    <2> QED  BY <2>2, <2>3
  <1>13. PublishingCovers' /\ AskedBeforePublishing'
    BY <1>2 DEF IndInv, PublishingCovers, attempted, AskedBeforePublishing
  <1> QED
    BY <1>5, <1>6, <1>7, <1>8, <1>9, <1>11, <1>12, <1>13 DEF IndInv, ServerInv

\* Finished builds were covered while they ran, and those that are gone need
\* not be.
LEMMA FinishInv ==
    ASSUME IndInv, TypeOK', NEW b \in Build, FinishBuild(b) \/ PurgeBuild(b)
    PROVE  IndInv'
  <1>1. /\ UNCHANGED <<job, number, nextNumber, kv, cursors, pc, cur, todo, fetched, members, left,
                       run, published, tasked, failed, overtaken, reborn>>
    BY DEF FinishBuild, PurgeBuild, memory, fetching, publishing, events
  <1>2. \A c \in Build : (live(c)' => live(c)) /\ (state'[c] = "none" <=> state[c] = "none")
    BY DEF FinishBuild, PurgeBuild, live, IndInv, TypeOK
  <1>3. excusesKept  BY <1>1 DEF excusesKept
  <1>4. ServerInv'  BY <1>1, <1>2, ServerKept DEF IndInv
  <1>5. CursorsUsed' /\ CursorsCover' /\ FetchedCover'
    BY <1>1, <1>2, <1>3, CursorsKept, FetchedKept
  <1>6. PublishingCovers' /\ AskedBeforePublishing'
    BY <1>1 DEF IndInv, PublishingCovers, attempted, AskedBeforePublishing
  <1> QED  BY <1>4, <1>5, <1>6 DEF IndInv

\* A recreated job starts counting again, with none of its old builds left.
LEMMA ResetInv ==
    ASSUME IndInv, TypeOK', NEW j \in Job, ResetJob(j)
    PROVE  IndInv'
  <1>1. /\ UNCHANGED <<job, number, kv, cursors, pc, cur, todo, fetched, members, left,
                       run, published, tasked, failed, overtaken, reborn>>
        /\ nextNumber' = [nextNumber EXCEPT ![j] = 1]
        /\ state' = [b \in Build |-> IF job[b] = j THEN "purged" ELSE state[b]]
    BY DEF ResetJob, memory, fetching, publishing, events
  <1>2. \A c \in Build : live(c)' => live(c) /\ job[c] # j
    BY <1>1 DEF live
  <1>3. \A i \in Job : used(i)' = used(i)  BY <1>1 DEF used
  <1>4. \A i \in Job : nextNumber'[i] = IF i = j THEN 1 ELSE nextNumber[i]
    BY <1>1 DEF IndInv, TypeOK
  <1>5. JobsKnown'
    BY <1>1, CrawlerAssumption DEF IndInv, ServerInv, JobsKnown
  <1>6. NumbersGapless'  BY <1>3, <1>4 DEF IndInv, ServerInv, NumbersGapless
  <1>7. LiveNumbersDiffer'
    <2>1. \A c \in Build : live(c)' => job[c] \in Job
      BY <1>2 DEF IndInv, ServerInv, JobsKnown, TypeOK, live
    <2> QED  BY <1>1, <1>2, <1>4, <2>1 DEF IndInv, ServerInv, LiveNumbersDiffer
  <1>8. NumbersTopped'  BY <1>3 DEF IndInv, ServerInv, NumbersTopped
  <1>9. excusesKept  BY <1>1 DEF excusesKept
  <1>10. CursorsUsed' /\ CursorsCover' /\ FetchedCover'
    BY <1>1, <1>2, <1>9, CursorsKept, FetchedKept
  <1>11. PublishingCovers' /\ AskedBeforePublishing'
    BY <1>1 DEF IndInv, PublishingCovers, attempted, AskedBeforePublishing
  <1> QED  BY <1>5, <1>6, <1>7, <1>8, <1>10, <1>11 DEF IndInv, ServerInv

-----------------------------------------------------------------------------
\* The crawl.

\* The steps that neither fetch nor publish a build.
LEMMA MoveInv ==
    ASSUME IndInv, TypeOK', NEW ok \in BOOLEAN,
           \/ StartCrawl(ok)
           \/ \E found \in SUBSET Job : Discover(found)
           \/ \E j \in Job, clearOK \in BOOLEAN : Probe(j, ok, clearOK)
           \/ \E p \in Pipeline : PublishWorkflow(p, ok)
           \/ \E j \in Job : CrawlJob(j)
           \/ EndCrawl \/ Crash
    PROVE  IndInv'
  <1>1. /\ UNCHANGED <<state, job, number, nextNumber, published, tasked, failed, overtaken, reborn>>
        /\ \A j \in Job : kv'[j] \in {kv[j], 0}
        /\ \A j \in Job : cursors'[j] \in {cursors[j], kv[j], 0}
        /\ \A j \in Job : fetched'[j] \in {fetched[j], {}}
    <2>1. ASSUME NEW j \in Job, NEW clearOK \in BOOLEAN, Probe(j, ok, clearOK)
          PROVE  /\ \A i \in Job : kv'[i] \in {kv[i], 0}
                 /\ \A i \in Job : cursors'[i] \in {cursors[i], 0}
      BY <2>1 DEF Probe, put, IndInv, TypeOK
    <2> QED
      BY <2>1 DEF StartCrawl, Discover, Probe, PublishWorkflow, CrawlJob, EndCrawl, Crash, noBuilds,
                  server, memory, fetching, events
  <1>2. excusesKept /\ \A b \in Build : live(b)' => live(b)
    BY <1>1 DEF excusesKept, live
  <1>3. ServerInv'  BY <1>1, <1>2, ServerKept DEF IndInv
  <1>4. CursorsUsed' /\ CursorsCover' /\ FetchedCover'
    BY <1>1, <1>2, CursorsKept, FetchedKept
  <1>5. PublishingCovers'
    <2>1. CASE pc' \notin {"runs", "tasks"}  BY <2>1 DEF PublishingCovers
    <2>2. CASE pc' \in {"runs", "tasks"}
      <3>1. PICK j \in Job : CrawlJob(j)
        BY <2>2 DEF StartCrawl, Discover, Probe, PublishWorkflow, EndCrawl, Crash
      <3> QED  BY <3>1 DEF CrawlJob, fetching, IndInv, AskedBeforePublishing, PublishingCovers
    <2> QED  BY <2>1, <2>2
  <1>6. AskedBeforePublishing'
    BY DEF StartCrawl, Discover, Probe, PublishWorkflow, CrawlJob, EndCrawl, Crash,
           fetching, publishing, IndInv, AskedBeforePublishing
  <1> QED  BY <1>3, <1>4, <1>5, <1>6 DEF IndInv

\* What GetBuilds leaves out is running, and now overtaken, or was covered by
\* the cursor.
LEMMA FetchInv ==
    ASSUME IndInv, TypeOK', NEW ok \in BOOLEAN, GetBuilds(ok)
    PROVE  IndInv'
  <1>1. /\ UNCHANGED <<state, job, number, nextNumber, kv, cursors, todo, members, left, run,
                       published, tasked, failed, reborn>>
        /\ pc = "fetch" /\ pc' = "next"
    BY DEF GetBuilds, server, memory, publishing, events
  <1>2. cur \in Job  BY <1>1 DEF IndInv, TypeOK
  <1>3. fetched' = [fetched EXCEPT ![cur] = IF ok THEN newBuilds(cur) ELSE {}]
    BY DEF GetBuilds
  <1>4. \A i \in Job \ {cur} : fetched'[i] = fetched[i]  BY <1>3 DEF IndInv, TypeOK
  <1>5. fetched'[cur] \subseteq newBuilds(cur)
        /\ (fetched'[cur] # {} => fetched'[cur] = newBuilds(cur))
    BY <1>2, <1>3 DEF IndInv, TypeOK
  <1>6. overtaken' = overtaken \cup {b \in buildsOf(cur, "running") :
                                        \E n \in numbers(fetched'[cur]) : n > number[b]}
    BY DEF GetBuilds
  <1>7. excusesKept /\ \A b \in Build : live(b)' => live(b)
    BY <1>1, <1>6 DEF excusesKept, live
  <1>8. ServerInv'  BY <1>1, <1>7, ServerKept DEF IndInv
  <1>9. CursorsUsed' /\ CursorsCover'  BY <1>1, <1>7, CursorsKept
  <1>10. FetchedCover'
    <2> SUFFICES ASSUME NEW i \in Job, NEW f \in fetched'[i]
                 PROVE  /\ job[f] = i
                        /\ \A b \in Build : job[b] = i /\ live(b) /\ number[b] <= number[f] =>
                               excused(b)' \/ b \in fetched'[i]
      BY <1>1 DEF FetchedCover, live
    <2>1. CASE i # cur
      BY <1>4, <1>7, <2>1, ExcusedStays DEF IndInv, FetchedCover
    <2>2. CASE i = cur
      <3>1. f \in Build /\ job[f] = cur /\ state[f] = "done" /\ number[f] > cursors[cur]
        BY <1>5, <2>2 DEF newBuilds, buildsOf
      <3>2. ASSUME NEW b \in Build, job[b] = cur, live(b), number[b] <= number[f]
            PROVE  excused(b)' \/ b \in fetched'[cur]
        <4>1. number[b] \in Nat /\ number[f] \in Nat /\ cursors[cur] \in Nat
          BY <1>2, <3>1 DEF IndInv, TypeOK
        <4>2. CASE state[b] = "running"
          <5>1. number[b] # number[f]
            BY <3>1, <3>2, <4>2 DEF IndInv, ServerInv, LiveNumbersDiffer, live
          <5>2. number[f] \in numbers(fetched'[cur]) /\ number[f] > number[b]
            BY <2>2, <3>2, <4>1, <5>1 DEF numbers
          <5>3. b \in overtaken'  BY <1>6, <3>2, <4>2, <5>2 DEF buildsOf
          <5> QED  BY <5>3 DEF excused
        <4>3. CASE state[b] = "done" /\ number[b] > cursors[cur]
          <5>1. b \in newBuilds(cur)  BY <3>2, <4>3 DEF newBuilds, buildsOf
          <5> QED  BY <1>5, <2>2, <5>1
        <4>4. CASE state[b] = "done" /\ ~(number[b] > cursors[cur])
          <5>1. number[b] <= cursors[cur]  BY <4>1, <4>4
          <5>2. excused(b)  BY <1>2, <3>2, <5>1 DEF IndInv, CursorsCover, covered
          <5> QED  BY <1>7, <5>2, ExcusedStays
        <4> QED  BY <3>2, <4>2, <4>3, <4>4 DEF live
      <3> QED  BY <2>2, <3>1, <3>2
    <2> QED  BY <2>1, <2>2
  <1>11. PublishingCovers'  BY <1>1 DEF PublishingCovers
  <1>12. AskedBeforePublishing'
    BY <1>1 DEF IndInv, AskedBeforePublishing
  <1> QED  BY <1>8, <1>9, <1>10, <1>11, <1>12 DEF IndInv

\* A build leaves the crawl's list when its run is handed to the stream, or
\* that failed, and is settled when its tasks are.
LEMMA PublishInv ==
    ASSUME IndInv, TypeOK', NEW ok \in BOOLEAN,
           (\E b \in left : PublishRun(b, ok)) \/ PublishTasks(ok)
    PROVE  IndInv'
  <1>1. /\ UNCHANGED <<state, job, number, nextNumber, kv, cursors, cur, todo, fetched, members,
                       overtaken, reborn>>
        /\ pc \in {"runs", "tasks"}
    BY DEF PublishRun, PublishTasks, server, memory, fetching
  <1>2. excusesKept /\ \A b \in Build : live(b)' => live(b)
    BY <1>1 DEF PublishRun, PublishTasks, attempt, excusesKept, live
  <1>3. ServerInv'  BY <1>1, <1>2, ServerKept DEF IndInv
  <1>4. CursorsUsed' /\ CursorsCover' /\ FetchedCover'
    BY <1>1, <1>2, CursorsKept, FetchedKept
  <1>5. PublishingCovers'
    <2> SUFFICES ASSUME NEW c \in fetched[cur]
                 PROVE  c \in left' \/ attempted(c)'
                        \/ (pc' = "tasks" /\ c = run' /\ c \in published' \cup failed')
      BY <1>1 DEF IndInv, PublishingCovers
    <2>1. \/ c \in left \/ attempted(c)
          \/ (pc = "tasks" /\ c = run /\ c \in published \cup failed)
      BY <1>1 DEF IndInv, PublishingCovers
    <2>2. attempted(c) => attempted(c)'  BY <1>2, ExcusedStays
    <2>3. ASSUME NEW b \in left, PublishRun(b, ok)
          PROVE  c \in left' \/ attempted(c)'
                 \/ (pc' = "tasks" /\ c = run' /\ c \in published' \cup failed')
      <3>1. pc = "runs" /\ left' = left \ {b} /\ run' = b /\ pc' = "tasks"
        BY <2>3 DEF PublishRun
      <3>2. b \in published' \cup failed'  BY <2>3 DEF PublishRun, attempt
      <3> QED  BY <2>1, <2>2, <3>1, <3>2
    <2>4. ASSUME PublishTasks(ok)
          PROVE  c \in left' \/ attempted(c)'
      <3>1. left' = left /\ published' = published  BY <2>4 DEF PublishTasks
      <3>2. run \in tasked' \/ run \in failed'  BY <2>4 DEF PublishTasks, attempt
      <3>3. failed \subseteq failed'  BY <1>2 DEF excusesKept
      <3> QED  BY <2>1, <2>2, <3>1, <3>2, <3>3 DEF attempted
    <2> QED  BY <2>3, <2>4
  <1>6. AskedBeforePublishing'
    BY <1>1 DEF PublishRun, PublishTasks, IndInv, AskedBeforePublishing
  <1> QED  BY <1>3, <1>4, <1>5, <1>6 DEF IndInv

\* With none of its builds left, a job is covered up to the highest of them.
LEMMA SaveInv ==
    ASSUME IndInv, TypeOK', NEW ok \in BOOLEAN, SaveCursor(ok)
    PROVE  IndInv'
  <1> DEFINE top == Max(numbers(fetched[cur]))
  <1>1. /\ UNCHANGED <<state, job, number, nextNumber, todo, fetched, members, left, run,
                       published, tasked, failed, overtaken, reborn>>
        /\ pc = "runs" /\ pc' = "next" /\ left = {}
    BY DEF SaveCursor, server, fetching, publishing, events
  <1>2. cur \in Job  BY <1>1 DEF IndInv, TypeOK
  <1>3. /\ top \in used(cur) /\ top \in Nat
        /\ \E f \in fetched[cur] : number[f] = top
    BY <1>1, <1>2, HighestNumber DEF IndInv, ServerInv, PublishingCovers
  <1>4. covered(cur, top)
    <2> SUFFICES ASSUME NEW b \in Build, job[b] = cur, live(b), number[b] <= top
                 PROVE  excused(b)
      BY DEF covered
    <2>1. excused(b) \/ b \in fetched[cur]
      BY <1>2, <1>3 DEF IndInv, FetchedCover
    <2>2. b \in fetched[cur] => attempted(b)
      BY <1>1 DEF IndInv, PublishingCovers
    <2> QED  BY <2>1, <2>2 DEF excused
  <1>5. \A j \in Job : kv'[j] = kv[j] \/ (j = cur /\ kv'[j] = top)
    BY <1>2 DEF SaveCursor, put, IndInv, TypeOK
  <1>6. \A j \in Job : cursors'[j] = cursors[j] \/ (j = cur /\ cursors'[j] = top)
    BY <1>2 DEF SaveCursor, IndInv, TypeOK
  <1> HIDE DEF top
  <1>7. ServerInv'
    <2>1. \A b \in Build : live(b)' => live(b)  BY <1>1 DEF live
    <2> QED  BY <1>1, <2>1, ServerKept DEF IndInv
  <1>8. CursorsUsed'
    <2>1. \A j \in Job : used(j)' = used(j)  BY <1>1 DEF used
    <2> QED  BY <1>3, <1>5, <1>6, <2>1 DEF IndInv, CursorsUsed
  <1>9. CursorsCover'
    <2>1. \A j \in Job : covered(j, kv'[j]) /\ covered(j, cursors'[j])
      BY <1>4, <1>5, <1>6 DEF IndInv, CursorsCover
    <2> QED  BY <1>1, <2>1 DEF CursorsCover, covered, live, excused, attempted
  <1>10. FetchedCover'
    BY <1>1 DEF IndInv, FetchedCover, live, excused, attempted
  <1>11. PublishingCovers' /\ AskedBeforePublishing'
    BY <1>1 DEF IndInv, PublishingCovers, AskedBeforePublishing
  <1> QED  BY <1>7, <1>8, <1>9, <1>10, <1>11 DEF IndInv

\* Every step preserves the inductive invariant.
LEMMA InvStep == IndInv /\ [Next]_vars => IndInv'
  <1> SUFFICES ASSUME IndInv, [Next]_vars  PROVE IndInv'
    OBVIOUS
  <1>1. TypeOK'  BY TypeStep
  <1>2. CASE Next
    BY <1>1, <1>2, StartInv, FinishInv, ResetInv, MoveInv, FetchInv, PublishInv, SaveInv
    DEF Next, CrawlStep
  <1>3. CASE UNCHANGED vars
    <2>1. /\ UNCHANGED <<state, job, number, nextNumber, kv, cursors, pc, cur, todo, fetched, members,
                         left, run, published, tasked, failed, overtaken, reborn>>
      BY <1>3 DEF vars, server, memory, fetching, publishing, events
    <2>2. excusesKept /\ \A b \in Build : live(b)' => live(b)
      BY <2>1 DEF excusesKept, live
    <2>3. ServerInv' /\ CursorsUsed' /\ CursorsCover' /\ FetchedCover'
      BY <2>1, <2>2, ServerKept, CursorsKept, FetchedKept DEF IndInv
    <2>4. PublishingCovers' /\ AskedBeforePublishing'
      BY <2>1 DEF IndInv, PublishingCovers, attempted, AskedBeforePublishing
    <2> QED  BY <1>1, <2>3, <2>4 DEF IndInv
  <1> QED  BY <1>2, <1>3

-----------------------------------------------------------------------------
\* The inductive invariant holds throughout.
THEOREM IndInvHolds == Spec => []IndInv
  BY InitInv, InvStep, PTL DEF Spec

\* Type correctness of the crawler and its server; among others, pc and the
\* job and build in hand go together.
THEOREM TypeCorrect == Spec => []TypeOK
  BY IndInvHolds, PTL DEF IndInv

\* A completed build at or below a cursor has been published, or a call about
\* it failed, or it is one of the two kinds a watermark of numbers cannot tell:
\* through crashes, failed saves and clears, purges and deleted jobs.
THEOREM NothingElseSkipped == Spec => []NothingElseIsSkipped
  <1>1. IndInv => NothingElseIsSkipped
    <2> SUFFICES ASSUME IndInv, NEW b \in Build, state[b] = "done",
                        number[b] <= kv[job[b]] \/ number[b] <= cursors[job[b]]
                 PROVE  attempted(b) \/ b \in overtaken \cup reborn
      BY DEF NothingElseIsSkipped
    <2>1. live(b)  BY DEF live
    <2>2. job[b] \in Job  BY <2>1 DEF IndInv, ServerInv, JobsKnown, TypeOK, live
    <2> QED  BY <2>1, <2>2 DEF IndInv, CursorsCover, covered, excused
  <1> QED  BY <1>1, IndInvHolds, PTL
=============================================================================
