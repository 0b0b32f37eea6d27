# A formal model of dalikamata

dalikamata ingests git, CI/CD and platform-configuration data (Bitbucket, Jenkins, YAML files), carries
it as events over NATS JetStream to a domain service, stores it, resolves which team owns what, and
answers queries and metrics about it. This directory holds TLA+ models of the parts whose correctness
depends on order, failure or accumulated state, the TLC configurations that check them, and TLAPS proofs
of the results that matter most. Paths below are relative to the repository's root; `crawler.go:233`
without a directory means the crawler under discussion.

## 1. Inventory

| Component | State it keeps | Operations | Talks to |
|---|---|---|---|
| Bitbucket ingestor `internal/ingest/bitbucket` | cursor map in memory (repo -> newest SHA), KV bucket `ingest-bitbucket-cursors` | `Crawl` on a ticker: repos, commits since the cursor, self-onboarding, pull requests | Bitbucket REST, KV bucket, INGEST stream |
| Jenkins ingestor `internal/ingest/jenkins` | cursor map (job -> highest build number), KV bucket `ingest-jenkins-cursors` | `Crawl` on a ticker: discover, probe, fetch, publish workflow, runs, tasks | Jenkins REST, KV bucket, INGEST stream |
| Config ingestor `internal/ingest/config`, `internal/config/component` | none | one pass over the YAML files, one component event each | file system, INGEST stream |
| Publishers `internal/domain/nats/publish.go`, `*_publisher.go` | none | `publish`, retried while the stream does not exist | JetStream |
| Event port `internal/domain/nats/port.go` | nine durable consumers | create stream and consumers; decode, handle, ack or nak | JetStream, domain service |
| Domain service `internal/domain/service.go` | none | one repository call per event or query | repositories |
| In-memory repository `repo/memory.go`, `repo/projection.go` | nine maps, two of them hand-maintained reverse indexes | `Add*` under the write lock, `Query*` on a snapshot under the read lock, `OwnershipDiagnostics` | event port, query port |
| SQLite repository `repo/sqlite.go` | one table per entity | `Add*` as statements, onboarding as a transaction, `Query*` as several reads | SQLite in WAL mode |
| Query engine `internal/domain/query` | none | filter, sort, paginate, aggregate | repositories |
| Query protocol `nats/query_port.go`, `nats/query_client.go` | a subscription per subject, an inbox per call | request, data messages, done or error terminator, client deadlines | core NATS, domain service |
| Metrics service `internal/metrics` | a cached aggregation tree per metric | three refresh loops with backoff, Prometheus `Collect`, shutdown | query client |
| HTTP API `internal/api` | none | parameters or body to a query, hits, then aggregations, shutdown | query client |
| Process wiring `cmd/`, `internal/app`, `internal/nats` | none | flags, embedded server, start and stop | everything |

What is hard, and what makes each part correct:

* **Crawlers.** The remote server changes between any two calls of a crawl; any call can fail; the process
  can be killed between publishing and saving a cursor; saving can succeed although it reports an error.
  *Correct if* a cursor never makes the next crawl skip something that was not handed to the stream, and if
  everything that stays on the server is handed to the stream in the end.
* **Delivery.** At-least-once, explicit acks, five deliveries at most; a message delivered a second time
  arrives after newer ones. *Correct if* nothing published disappears silently and a stale redelivery is not
  the last word for data that is crawled again.
* **Ownership.** Component events replace a whole component, onboarding events move one repo, in any order
  and any number of times, and the memory repository maintains the reverse indexes by hand. *Correct if* the
  indexes stay what the stored components imply, the last write wins, and what the diagnostics explain is
  what queries report.
* **SQLite.** Onboarding is several statements while other consumers write, and a query reads up to four
  tables in statements of its own. *Correct if* onboarding is atomic, works on current rows and always returns
  the write lock, and if a query finds what its rows refer to and never sees a repo between two components.
* **Query protocol.** An answer is a stream of messages over a bus that may lose them, from a process that may
  stop, to a client with two deadlines. *Correct if* a caller gets an error or exactly what the store held at
  one moment, and gets it in the end.
* **Query engine.** Filters whose clauses may fail, sorts that leave ties, pages, nested aggregations with
  multi-valued fields. *Correct if* a page holds the rows it should, in an order the sort allows, and
  aggregations count every match.
* **Metrics service and HTTP API.** Caches refreshed while they are read, answers made of two queries, a
  shutdown at any moment. *Correct if* what is shown comes from one state and never from an older one than
  before, and if a stop comes to its end although queries fail.

`PROJECT.json` lists the hazards line by line, with the property that covers each, or why none does.

## 2. Modules

```
Ownership --> MemoryRepository
                     |
                     +--> OwnershipEvents --refinement (LastWriteWins)--> OwnershipMap (abstract)
                                ^  MCMemoryRepository, MemoryRepositoryProofs
SQLiteRepository --refinement (OnboardingIsAtomic)--> ComponentTable (abstract)
   |
   +--> SQLiteQueries (with Ownership)  <-- MCSQLiteRepository, SQLiteRepositoryProofs
QueryProtocol --refinement (ImplementsPromise)--> QueryPromise (abstract)
            ^  MCQueryProtocol, QueryProtocolProofs
Values --> QueryEval, Aggregator
MetricsService ---+
                  +--> MetricsSeries (with Aggregator)  <-- MCMetricsService, MetricsServiceProofs
ApiServer --------+--> ApiQueries (with QueryEval)  <-- MCApiServer (with Aggregator), ApiServerProofs
BitbucketCrawler  <-- MCBitbucketCrawler, BitbucketCrawlerProofs
JenkinsCrawler    <-- MCJenkinsCrawler, JenkinsCrawlerProofs
EventDelivery     <-- MCEventDelivery, EventDeliveryProofs
```

**Ownership** holds the pure part that both repositories share: `resolveRepo`, `owners` and `diagnose` are
the closures that `newOwnerLookup` returns (`memory.go:191-266`), over two indexes passed as arguments.
Go's missing map key is the value `NoName`; a repo list is a set, because every use of it is a membership
test, an addition or a deletion, and its order only orders output.

**MemoryRepository** has one variable per map that ownership depends on and one action per `Add` method;
each method holds the write lock from its first to its last statement, so each is one step. Queries take all
the maps they need under one read lock and so are state functions (`projectedOwners`,
`OwnershipDiagnostics`). `AddComponent` and `AddRepoOnboarding` update the reverse indexes incrementally,
exactly as the code does; that this is enough is what is checked.

**OwnershipMap** is the promise of ADR-006 and ADR-007 without indexes. It has a variable of its own for the `event`
applied last, and a step does all that the event says: a component event takes over every repo it lists, whoever
had them, and releases the others it owned; an onboarding event moves one repo.

**OwnershipEvents** is MemoryRepository with that event as an auxiliary variable, set by the step that handles it.
`LastWriteWins` says that it implements OwnershipMap, with `ownerOf <- repoToComponent` and
`teamOf <- componentToTeam`: an event that the repository ignored, or applied to some of its repos only, would
change `event` without what belongs to it.

**SQLiteRepository** models `AddTeam` and `AddComponent` as single statements and `AddRepoOnboarding` as the
transaction it is: `BeginOnboarding` (BEGIN and the INSERT that takes the write lock), `LoadComponents` (the
SELECT), `CommitOnboarding` (the UPDATEs and the upsert become visible), `FailOnboarding` followed by the
deferred `RollbackOnboarding`, and `Crash`. `rowsWritten` computes from the rows that were *loaded*, so a
missing lock shows. That a writer waits while another has the lock (`unlocked`) is SQLite's doing.
Component names are numbers, because queries depend on their order.

**ComponentTable** is the same table with atomic events.

**SQLiteQueries** adds the tables `workflows`, `workflow_runs` and `workflow_tasks` with their writers, and the
queries that read several tables. `statements` lists what `QueryWorkflowRuns`, `QueryWorkflowTasks` and
`OwnershipDiagnostics` read, in their order; `ReadTable` is one of those statements, and anything may be
committed before the next. `repoToComponent` is what `ownerLookupFromDB` makes of the component rows: they come
ordered by name and the last one that lists a repo takes it. The schema has no foreign keys, and runs, tasks
and workflows travel on different consumers, so a row may be stored before the one it refers to: `orphans`
remembers those.

**QueryPromise** says what a call of the query client means: an error and no rows, or what the store held at one
moment between request and answer; only if the network lost a reply may rows be missing.

**QueryProtocol** is the protocol that implements it. `queue` and `serving` are a subject's subscription and its
one goroutine, `inbox` the client's subscription. `Begin`, `SendNext`, `SendDone` and `SendFails` are the
handlers of `query_port.go`, which differ in what a failed send does: an entity query still sends an error,
diagnostics and aggregations return without a terminator (`kind`). `Receive` and `GiveUp` are the loop of
`streamQuery`: `c.timeout` is compared after a row only, the context ends a wait as well. Core NATS is external:
a reconnect may lose a message (`Lose`), a full subscription drops one and fails the next read (`Overflow`), and
a request without a subscriber is answered at once ("no responders"). `Stop` and `Exit` are the end of the
domain process.

**Values** are the values of fields and how they compare: with the value of a filter (`comparable`,
`compareFieldValue`) and with each other in a sort (`compareAny`), as `evaluator.go` does it.

**Aggregator** is `aggregator.go` and `owner.go` on small values: terms over single and multi-valued fields, month
histograms, histograms with cumulative buckets, nested. A group is a set of places in the list of items, so equal
items count each. `evaluation` is a recursive function over a set of maps of aggregations (`Aggs`) that nest
others to some depth (`Nesting`). Texts that owner keys are made of are sequences, so that joining and
splitting them is modelled.

**MetricsService** is the service around it: the refresh loops (`Tick`, `Answer`, `Fail`, `Stop`), a scrape that
loads one cache after the other (`Collect`), and the start and the end (`Listen`, `Shutdown`, `Return`). A cache
holds *which* state of the store its tree is of, and whether the reply arrived; what the tree says is the next module's.
An aggregation is computed from one state (`Serve`): the in-memory repository takes all rows under one lock. SQLite
reads them table by table, and which states its rows may come from is SQLiteQueries' subject.

**MetricsSeries** composes the two. `trees` is what the domain answers to the three nested queries, over
the projected rows; `emit` walks a tree into series the way the `emit...Tree` functions do, one `each` for
each of their nested loops, and `histograms` at the end; its property compares them with a direct count
(`expectedOf`).

**QueryEval** is the query engine without its recursion: what a filter without clauses evaluates to
(`matchField`), with its three outcomes (yes, no, error); what the results of clauses come to (`matchBool`), one
after the other with the code's early ends (`settle`); `Less`, `SortBy`, `Paginate`; and the translation of URL
parameters into queries. Go's map order is a choice: of the rows of a snapshot (`snapshots`) and of the clauses of
a GET (`clauses`).

**ApiServer** is the server: a request is parsed (`HandleGet`, `HandlePost`, `HandleOwnership`,
`MethodNotAllowed`), its hits and then its aggregations are fetched (`FetchHits`, `FetchAggregations`) from a store
that changes in between, and a client may go on to the next page. A handler starts with the header of a request: it
then waits for the body (`reading`) and, when it is done, for its client to take the answer (`writing`), without a
deadline, because `Run` sets `ReadHeaderTimeout` only. `moments` records the states of the store
during a walk, which is what answers are compared with. A query here is answered from one state or fails: that
is QueryPromise without lost replies. What a GET becomes and what a query may answer are constant operators
(`Queries`, `Hits`, `Aggregations`): the server treats the engine as a black box.

**ApiQueries** gives these operators QueryEval's meaning (`queriesOf`, `hitsOf`, `aggregationsOf`) and states what
answers are worth, with definitions of its own (`satisfies`, `isPage`) and not the engine's. `Match` and
`satisfies` are recursive functions over a set of filters (`Filter`) that nest their clauses to some depth
(`Depth`). What aggregations come to is a parameter, `Evaluate`; in the runs it is Aggregator's `EvaluateAggs`.

**BitbucketCrawler** models server, KV bucket, crawler and stream. `pc` is the position inside
`crawlRepo`: `fetch`, `publish`, `onboard`, `prs`, or between repos (`next`) or crawls (`idle`). Every remote
call is a step of its own, and the server may `Push`, `Rewind` (force-push) and change pull requests between
any two. A commit is an id with a set of ancestors, so that `GetCommits(since)` is the set difference that the
Bitbucket API computes; `commits[0]` is the tip at the time of the fetch (`head`). `put` is a KV write that
may land although it returns an error. `Crash` is a restart: memory is lost, the bucket stays.

**JenkinsCrawler** follows the two halves of `Crawl`: `Discover`, then for each job `Probe` and `GetBuilds`;
then for each pipeline `PublishWorkflow`, and for each of its jobs `CrawlJob`, `PublishRun`, `PublishTasks`,
`SaveCursor`. The probe and the fetch are separate steps, so the server may complete, delete or restart
builds between them. A build is an id with a number; numbers start over when a job is recreated.

**EventDelivery** follows an entity's versions from the source through `publish`, the durable consumer
(`Deliver`, `Redeliver`), the handler (`Handle`: the upsert, or a nak), and `Ack`, to the store. Handler and
ack are separate steps because the process may die between them. One entity stands for its subject: rows of
different entities do not interact on this path. JetStream itself is external and modelled from how
`port.go` configures it: explicit acks, `MaxDeliver`, one callback at a time per consumer.

Ghost variables, which no step of the program reads, record what a property excuses: `failed` (a call about
the item returned an error), `missed` (an onboarding failed or died), `overtaken` (a build was still running
when a later one was fetched), `reborn` (a number was used before the job was recreated), `applied` and
`exhausted` (versions ever stored, or given up after `MaxDeliver`), `snap`, `lost` and `hurt` (what a query was
served from, whether a reply of it was lost, whether a fault took its terminator), `orphans` and `unowned` (rows
read before what they refer to was stored; repos without a component at some moment of a query), `failed` in
ApiServer (a query failed on its way).

## 3. Runs

Every `MC` module EXTENDS the component module. Sizes are distinct states. Deadlock is checked in every run but
those of QueryProtocol, MetricsService and ApiServer, where it may end: all calls have returned and the bounds
are used up, or the service has returned.

| Run | Instance | What it shows |
|---|---|---|
| `memory_ownership` | 2 repos, 3 components, 1 team or none, 1 workflow, 1 run (115k) | Indexes agree with the components after every sequence of events; every reported owner is backed by a stored component; the diagnosis agrees with the owners; onboarding is idempotent; `OwnershipMap` is implemented: after every event its repos and its component have the owners it says, and no other owner changes. No depth bound: the whole state space. |
| `memory_onboarding_exclusive` *(violation)* | as above, team required | An onboarding strips the repo only from the component the index names, not from an earlier claimant. |
| `sqlite_repository` | 1 repo, 2 components, 1 team, 1 workflow, 1 run, 1 task (116k) | Onboarding implements the atomic table through failures and crashes, leaves the repo in one component, and always gives the lock back; what a query reads table by table is closed under its references, and a repo that has a component all the time has an owner in every answer. |
| `bitbucket_crawl` | 1 repo, 3 commits, 1 pull request change, 2 faults (77k) | Cursors cover only what was handed to the stream; every commit that stays on the branch is published unless its publish failed; a push leads to an onboarding; pull requests converge. |
| `jenkins_crawl` | 1 job, 3 builds, 1 reset, 1 fault (143k) | Liveness: every completed build is published in the end, but for the two kinds a watermark of numbers cannot tell; of a recreated job, a build behind the old cursor is published (or deleted, or another overtakes the cursor first), whatever number it has. |
| `jenkins_branches` | 2 branches of one pipeline, 3 builds, 1 reset, 1 fault (690k, branches symmetric) | Safety: no cursor above an unattempted completed build. |
| `jenkins_in_progress` *(violation)* | 1 job, 2 builds, no faults | A build still running while a later one is published is never published. |
| `event_delivery` | 2 entities (one re-crawled), 2 versions, 2 deliveries, 2 pending, 3 faults (88k) | Nothing published is lost silently; everything published is stored once or used up; re-crawled entities converge. |
| `query_protocol` | 2 calls, 2 rows, a subject of each kind, 1 write, 1 fault | Answers are snapshots (`QueryPromise` is implemented); an answer has one terminator, at its end, which arrives unless a fault or the stop took it. |
| `metrics_service` | 2 metrics, 2 states of the store, 2 faults (53k) | A scrape shows each metric as it was in one state of the store, shared owners, separators in names, months and bucket bounds included; caches never go back and catch up; the service stops. |
| `api_requests` | 4 row versions, 21 requests, 2 writes (14k) | Answers hold what was true while their request was handled; they are exact pages with complete aggregations, for every operator and every way through the handlers; walks skip nothing; the server stops if its clients keep up, though no query is ever answered. |
| `api_number_filter` *(violation)* | as above | A whole number compared with a float field is answered with 500. |

Why the bounds are enough for the interesting cases:

* Three components are the least in which one repo has an indexed claimant, an unindexed claimant and an
  onboarding target that is neither; two repos let an event shrink a list without emptying it.
* Three commits give a cursor, a commit on top of it and a force-push that replaces that one; two faults give
  a failed cursor save *and* a crash, or an ambiguous write and a failed clear.
* Three builds give one published, one overtaken and one new; a reset lets a number come twice; two branches
  have a cursor each and share a workflow.
* Three faults with two deliveries let one message be used up (which takes two) with one fault to spare;
  two pending messages let a nak'd message come after a newer one. `MaxDeliver` is 5 in the code
  (`port.go:16`); only the comparison of tries with it matters.
* SQLite's tables and its query multiply: two components suffice for a repo that moves, one row of each table for
  a reference that is stored between two statements. A third claimant and a second repo are covered by the
  theorems, which hold for every size.
* Two calls on one subject wait for each other, on two subjects they do not; two rows give a first, a last
  and a lost one. The theorems of `QueryProtocolProofs` hold for any number.
* Two metrics are enough for a scrape whose caches come from different states. The query of the third,
  `workflow_run_duration`, is the one for tasks without its two task levels.
* The requests of `api_requests` are one for each operator, clause kind, endpoint, error and page size; the rows
  have equal and different values of each field and an empty list, and one row has two versions.

Bounds by name: `MaxPR` (pull request changes), `MaxFaults` (failed calls and crashes), `MaxResets` (job
deletions), `MaxVersion`, `MaxPending` (an entity's versions and unacked messages), `MaxWrites` (changes of the store while
queries run), `MaxOffset` (where a page may start: three times the largest page, more than there are rows), and the
sizes of the sets `Commit` and `Build`, which limit how many are ever created. Branch symmetry is used only where invariants,
and no liveness, are checked.

Every property of a passing run has at least one mutant: an operator `X_WhatIsBroken` next to the definition
`X`, the way a plausible bug would change it. With the mutant in place of the definition, TLC finds the
property violated.

## 4. Fairness

* Crawlers: `WF_vars(CrawlStep)`. The ticker fires again and again (`service.go`, `runRefreshLoop`), the
  `running` flag only skips a tick while a crawl runs, and a call that was made returns, with success or with
  an error. Nothing is assumed of the server: pushes, builds and deletions are never forced to happen.
  Faults are bounded by `MaxFaults`, so what the liveness properties say is that the crawler recovers once
  calls stop failing.
* SQLite: a running statement returns (`busy_timeout` bounds its wait), and a function that returns runs its
  deferred `Rollback`.
* Delivery: weak fairness of the publishing tick, of the domain's restart (the process supervisor's) and of
  each consumer; strong fairness of redelivery only, because a waiting message is not deliverable while a
  callback has another one, and newer messages must not hold it up for ever.
* Queries: a handler's goroutine and a client's loop run (`WF_vars(Handle(s))`, `WF_vars(Receive(q))`). Nothing is
  assumed of the context of a call: a call whose terminator was lost may wait for ever. (Both callers set a
  deadline, `metrics/service.go` and `api/server.go`; that they then return is the context's own promise.)
* Metrics: timers fire, and a call to the domain ends, with an answer or with its timeout. `Stop` is strongly
  fair because a tick may be ready whenever the end of the context is, and Go's `select` picks one of the ready
  cases at random. A scrape is read by its client (`WF_vars(EndScrape)`): the code sets no write timeout, so a
  scraper that stalls would keep the service from stopping.
* API: a request that has been received is parsed, its deadline passes (`QueryFails`), the server's goroutines run.
  That a query is answered is not assumed, and nothing is assumed of clients: that they send, read or leave in the
  end (`ClientsKeepUp`) is a hypothesis that `StopsWhenClientsKeepUp` states. Without it the stop may take for ever
  (section 7).

## 5. What is proved

TLAPS checks the following for every value of the constants allowed by the modules' assumptions: any number
of repos, components, teams, commits, builds, messages, requests, faults. Those assumptions say no more than this:

* `NamesAssumption`, `TableAssumption`, `LastRowAssumption`: the empty string is not a name; "unknown" is not one
  either (a component called `unknown` could not be told from the fallback); names in SQLite are ordered and a
  table has a last row.
* `ReferenceAssumption`, `ProtocolAssumption`: a run refers to a workflow and a task to a run; subjects are of one of
  three kinds.
* `CrawlerAssumption` (one in each crawler): builds have the repos they have and jobs the pipelines; a job is not
  a build.
* `DeliveryAssumption`, `MetricsAssumption`: a message is delivered at least once, an entity may have a message
  pending, the metrics are those of the code, and the store has a state.
* `AggsAssumption`: aggregations nest to a finite depth, and what is nested in one is one too.
* `SeriesAssumption`: the three queries are among the aggregations, each with a list of bounds that has no bound
  twice; the store has lists of rows; no team's name holds the separator of owner keys (`owner.go` relies on it).
* `ApiAssumption`: at most one stored row has an entity's id; requests become queries; the engine answers a query
  with sequences of rows. `TypeCorrect` and `AnswersOfTheirTime` use no other assumption: they hold whatever the
  engine computes. The other two theorems about the API need the following.
* `AnswersAssumption`: the engine computes `hitsOf` and `aggregationsOf`, and a GET becomes `queriesOf`. The runs
  give the constants just these values.
* `FilterAssumption`: filters nest lists of filters, to a finite depth.
* `RowAssumption`: the rows of an entity have the same fields, with values of the same kinds, and an id
  (`projection.go` makes every row of an entity with the same map literal).
* `QueriesAssumption`: the default page size is positive (`query_params.go`), the store is finite at first, a query
  has a list of sort fields and does not start before the first row.
* `WalkAssumption`: what is walked through page by page is a GET of entities that does not itself say where to start.
* The bounds named in section 3 are naturals.

| Module | Theorem | States |
|---|---|---|
| `MemoryRepositoryProofs` | `TypeCorrect`, `IndexesCorrect`, `OwnersCorrect`, `DiagnosisCorrect` | the four invariants of `memory_ownership` |
| | `ImplementsOwnershipMap` | `EventsSpec => LastWriteWins`, the refinement |
| | `OnboardingIsIdempotent` | the action property |
| `SQLiteRepositoryProofs` | `TypeCorrect`, `OnboardingAtomic`, `OnboardingExclusive` | `TypeOK`, the implementation of `ComponentTable`, `OnboardingLeavesNoOtherMember` |
| | `WritersAsBefore` | `QueriesSpec => Spec`: the theorems above hold next to queries, too |
| | `AnswersAreClosed`, `OwnedStayOwned` | `ReferencesResolve`, `OwnedReposStayOwned` |
| `QueryProtocolProofs` | `TypeCorrect`, `RequestsServedOnce`, `NoRowMissing` | `TypeOK`, `ServedOnce` (no request is taken twice), `NothingMissing` |
| | `OneTerminator` | `AnswersEndOnce`: nothing follows a terminator, and nobody answers its query any more |
| | `AnswersAreSnapshots` | `Spec => ImplementsPromise`, the refinement |
| `BitbucketCrawlerProofs` | `TypeCorrect`, `CursorsCorrect` | `TypeOK` and `CursorsCoverAttempted` |
| `JenkinsCrawlerProofs` | `TypeCorrect`, `NothingElseSkipped` | `TypeOK` and `NothingElseIsSkipped` |
| `EventDeliveryProofs` | `TypeCorrect`, `NothingLost` | `TypeOK` and `NothingLostInDelivery` |
| `MetricsServiceProofs` | `TypeCorrect`, `CacheOnlyAdvances` | `TypeOK` and the action property `CacheNeverGoesBack` |
| | `MissingOnlyByFault` | a metric answered once is missing from a scrape only if a reply was lost |
| | `ScrapeOneState` | `ScrapeShowsOneState`: a scrape shows for each metric the series one state of the store should have |
| `ApiServerProofs` | `TypeCorrect`, `AnswersOfTheirTime` | `TypeOK` and `AnswersAreOfTheirTime` |
| | `AnswersExact` | `AnswersAreExact`: hits are one page of the matches of one state, aggregations count all of a state that is not older |
| | `PagesSkip` | `PagesSkipNothing`: a walk through the pages skips nothing while rows are only added |

*Memory repository.* `IndInv` is `TypeOK` and `IndexesAgree`, and needs nothing more: that a repo is indexed
only under a component stored under that very name is what lets a re-ingest delete "the previous version's"
entries, and what makes the stripped component of an onboarding the one the index names. `StripProperties`
and one lemma per composite event carry the proof. `OwnersAreBacked` and `DiagnosisExplainsOwners` follow from
`IndInv` state by state. The refinement follows because, with the indexes in agreement, the entries
`AddComponent` deletes are exactly the repos the component owns: an owned repo is always a listed one. The event
itself, which the step records, says which of OwnershipMap's steps it has to be.

*SQLite.* While a transaction runs, the rows it has read are the rows of the table (`LoadedRowsAreCurrent` in
`TxInv`), because every other write needs the lock; with it, `rowsWritten`, which is
computed from the rows read earlier, equals `ComponentTable`'s `Onboard` on the rows at the commit, and
every other step of the transaction is a stutter of the tables.

*SQLite queries.* `ReadInv` follows the statements that are still to run. A task that was read refers to a run
that is stored, and rows are never deleted, so the run is still there when the runs are read afterwards; the
same for the workflow of a run. With the two reads in the other order the invariant breaks at once. For
`OwnedReposStayOwned` it is enough that `unowned` holds every repo without a component, at every moment of the
query, because a commit changes all rows of an onboarding in one step.

*Query protocol.* The refinement needs to know that a terminator means completeness. `NothingMissing` is the
invariant for it: what a caller has read, what is in its inbox and what its handler has left to send make up
the rows the query was served from, and a terminator stands behind all of them, unless a reply was lost or the
next read fails. It holds step by step because messages of one inbox are not reordered, and because of
`ServedOnce`: a request waits in one queue, is taken by one handler and served once. That is also why an answer has
one terminator (`OneTerminator`): who sends it leaves the query, and nobody else can take it up. When a call returns an
answer, the rows read are then the whole snapshot.

*Bitbucket crawler.* `CursorsCoverAttempted` speaks of everything reachable from a cursor, but `SaveCursor`
looks only at the batch. `IndInv` adds `CursorsExist` (a cursor, in memory or in the bucket, names a commit that
was created, so that a push, which creates another, does not change its ancestors) and
`BatchCompletesHead` (while a batch is being published, everything reachable from `head` has been attempted
or is still in the batch). The fetch establishes the latter from the cursor's coverage: what the difference
left out was reachable from the cursor. An empty batch then gives the new cursor's coverage.

*Jenkins crawler.* The watermark is a number, and the invariant is about numbers. `FetchedCover` says that the
builds a job was asked for have no gap: whatever has a number at or below one of them is among them, was handed to
the stream, or is excused. `PublishingCovers` says that of those builds all but the ones `left` were handed to the
stream, so that the highest of them may become the cursor. `CursorsCover` speaks of running builds, too, since they
complete without the crawler's doing. The server is part of the argument: numbers of a job have no gaps, even after
it was recreated (`NumbersGapless`), so a build that gets a number at or below a cursor takes one that was used
before and is `reborn`; and builds that are on the server together have different numbers
(`LiveNumbersDiffer`), so the highest one is unique.

*Event delivery.* `messageOK` counts: each delivery of a message but the one under way was in vain, and took a
fault; a message whose upsert has returned is in `applied`. Hence a message that leaves the stream was applied, or
was used up by `MaxDeliver` failures, and a restart, which puts messages that are being handled back, loses nothing.
That a consumer has one callback at a time is what keeps the messages of an entity apart.

*Metrics service.* `AnswersAreNewer` says of a call that is answered already that its state is not older than the
cached one: a loop has one call at a time (`TypeOK`), so no older call can answer after a newer one. `MissingTakesFault`
follows the flag of a lost reply from the call to the cache and to the scrape. So a scrape shows the series of a
state of the store, and what is left is that these are what they should be (`SeriesIs`), which has nothing to do
with steps.

*Aggregations and series.* That nested aggregations are evaluated at all is `EvaluationIs`, by the depth to which
they nest, as for filters below. A grouping then comes to one bucket for each key in its group (`Grouped`), and
the histogram at the end of a query to the counts of its group (`Histogram`). The walk is a chain of loops, and
`EachIs` is what each of them keeps: the places it has come to are one for each labelling that some item has, and the
group at a place is exactly the items that have all its labels (`placesOf`). This holds because labels tell the
keys of a field apart (`ToldApart`); for owners that is `OwnerKeySplits`: what was joined is cut again at the first
separator, which no team's name holds. `StartIs` is the root; three, five and seven applications of `EachIs` give
the three emissions. At last the projected items have the labels that `labelsOf` gives the stored rows, every pair
of a jointly owned run included (`PullRequestsAreFaithful`, `WorkflowRunsAreFaithful`, `WorkflowTasksAreFaithful`),
so the series are the ones of the direct count, none missing and none twice.

*HTTP API.* `MomentsEndNow`: the last recorded moment is the store as it is, so what a query answers is of the last
moment then. Moments are only added, so it stays of one of the request (`HitsAreOfTheirTime` carries the hits to the
second query), and what the second query answers is of the same moment or a later one. That nothing is handled after
the return needs `ClosedFirst`: `Run` returns only after it has closed the server, which accepts no request then.

*Query engine.* Evaluation is recursive, and each recursive function needs a proof that it is defined at all: the
step from the results of all filters to results of all filters looks at clauses only (`EvaluationIsLocal`), clauses
nest less deep, so there is a fixed point (`FilterRecursion`, by the least depth at which one would be missing).
`FilterMeaning` compares evaluation and meaning by the same kind of induction: without an error a filter tells what
it means, although it looks at its clauses in order, stops early, and may never see the clause that fails
(`BoolResult`, over `Settled`). For the sort, `PrecedesOrders` and `PrecedesTransitive` show that comparing field after
field is a strict weak order on the rows of an entity; this is where rows of different kinds would break it. Then
the number of rows before a row is its place (`Ranks`), `SortBy` is a permutation in which nothing stands behind
something it is ahead of (`Sorted`), and a slice of it is what `isPage` asks for (`SortedPage`), with ties in any order.
`AnswersExact` joins that with `AnswersOfTheirTime`. It needs two more facts about the store (`MomentsAreStored`): each
moment is finite, and has one row for an id.

*Walks.* With an id in the sort every match has a position of its own (`Positions`), and a page holds the matches
whose positions are in its range (`PageHolds`). Each page is asked for by a query parsed anew, whose clauses may come
out of Go's map in another order and hide or show another error; that they select the same rows is `SameWalk`.
`NothingSkipped` is the invariant: a row that is added only moves matches back (`PositionsGrow`), so a match that
has not been collected stays ahead of the walk, and a page collects all of those it passes; if nothing changes, what
was collected is exactly what lies behind. A page that is not full ends the walk, and nothing lies ahead of its
end. The invariant is kept for *every* query the walk may ask next, because which one it asks is not known before.

TLC checked each of these invariants (`IndInv`, `WalkInv`) on the bounds of section 3 before it was proved.

## 6. What is only model-checked

* Every liveness property (`CommitsArePublished`, `OnboardingFollowsPush`, `PullRequestsConverge`,
  `CompletedBuildsArePublished`, `LockIsReleased`, `PublishedIsStored`, `RecrawledConverges`, `TerminatorArrives`,
  `CatchesUp`, `StopsWhenCancelled`, `StopsWhenClientsKeepUp`, `RecreatedJobIsNoticed`): liveness under fairness is
  beyond the installed prover.

Every safety invariant and every action property that a run checks and the refinements of `OwnershipMap`,
`ComponentTable` and `QueryPromise` are theorems.

## 7. Findings

Three places where the code and what the repository says of it differ have a run that shows it and an entry in
`PROJECT.json` that quotes the line:

1. `memory.go:142`: after two component events claim a repo, onboarding it elsewhere strips it from the later
   claimant only. SQLite strips it from both.
2. `jenkins/crawler.go:165`: builds complete out of order; one still running below the new cursor is never
   published.
3. `api/query_params.go:226`: `filter.duration.gte=40` is answered with 500, because 40 is read as an int and the
   engine does not compare an int with a float field; `40.0` works.

Three more places where the models follow the code and a doc says otherwise:

* `query/evaluator.go:282`: a sort by a list field (`team_name`, `component_name`, `repo_ids`) is answered with 200 and
  passes over the field, as ADR-007:68 and the code's comment say. `docs/query-guide.md:146` and ADR-007:78 say that it
  is an error. `AnswersAreExact` holds with the field passed over (`sortable`); `api_requests` sorts by `team_name`.
* `query/evaluator.go:203`: a negative size is no limit, so `size=-1` is answered with every row.
  `docs/architecture/api.md:55` and ADR-004:53 say that `-1` means aggregations only, which in the code is
  `aggs_only` (`server.go:251`); `api/openapi.yaml:659` says that the minimum is 0. `isPage` follows the code;
  `api_requests` asks for -1.
* `api/server.go:92`: the comment of `Run` says that it blocks until its context is cancelled; a client that does not
  send the body it announced, or does not read its answer, blocks it for as long as it likes, because neither has a
  deadline. `cancelled ~> returned` does not hold without `ClientsKeepUp`. The process ends after its grace period all
  the same (`cmd/dalikamata/api.go:43`).

The models also show, and the definitions follow, these behaviours:

* `memory.go:114`: a shrinking re-ingest deletes the index entry of a repo that another component still lists; the
  diagnostics then report `no_component_for_repo`. With SQLite (`sqlite.go:453`) the greatest component name owns
  a doubly claimed repo, not the last writer: the two repositories disagree.
* `bitbucket/crawler.go:225`: a failed publish is logged and the cursor is advanced past it.
* `jenkins/crawler.go:187`: an incremental crawl overwrites a workflow's repos with those of its new builds.
* A reply that core NATS loses on a reconnect shortens an answer without an error (`QueryPromise`'s one
  exception); a lost aggregation reply makes `Aggregate` return nothing and no error (`query_client.go:183`), and
  the metric disappears until the next refresh.
* An aggregation larger than a NATS message is not answered at all (`query_port.go:214`): its caller waits for the
  deadline. The same when a row of the diagnostics cannot be sent (`query_port.go:149`).
* Requests that are queued when the domain stops are dropped; the comment at `query_port.go:29` says that
  subscriptions are drained, but `Unsubscribe` does not wait.
* The same GET may be answered with 200 or 500, because its clauses come out of a Go map and the first one that
  does not match hides one that fails (`query_params.go:169`). A text that looks like a number, compared with a
  string field, is such a clause.
* Hits and aggregations of one response are of two moments (`server.go:268`), and so are the tables of one SQLite
  query or aggregation: a workflow's repos may be newer than the owners they are looked up in. What QueryProtocol and
  MetricsService call the state that an answer is of is one moment with the in-memory repository only.
* An onboarding that is delivered again after a later event of its repo is applied as the last event written and
  undoes the later one. The excused builds of a recreated job (`reborn`) are the ones whose number was used before; of
  those, the ones behind the old cursor are noticed (`RecreatedJobIsNoticed`), and those that overtake it before the
  next probe hide the ones before them.
* A negative `from` is not refused (`query_params.go:98`), and `Paginate` slices with it: that panics in the domain
  process (`evaluator.go:202`), where nothing recovers. `QueriesAssumption` keeps it out of the model.
* `exists` ignores its value; without a sort that tells
  all rows apart, pages of the in-memory repository may repeat and skip rows.
* A component whose name holds the separator of owner keys is split at the first one, so the team must not hold
  it (`owner.go:8`); the configuration does not check that.

## 8. Not modelled, and the plan

Left out for good: process wiring (flags, the embedded NATS server, the start of services; the stop of the domain
is in QueryProtocol), the fake servers used by tests, YAML and JSON decoding (its outcome is modelled: an event,
or none), log messages, the paging of the HTTP clients, the static pages of the API. Inside the modelled parts:
`PublishRepo`, which repeats in full on every tick and guards nothing; the order of candidate config paths; the
folder walk of `discoverJobs` (its outcome, a subset of the jobs, is modelled); messages that cannot be decoded;
the lengths of the metrics' backoff; slices that the in-memory repository shares with a running query.

What the plan has left, in its order:

1. **Pipeline**: a crawler, delivery and a repository together: what a restart of a domain with the
   in-memory repository forgets and no cursor brings back, commits shared by forks, and a branch job that is
   classified wrongly for one crawl.
2. **ConfigCrawler**: duplicate names, skipped files and what is published when a file fails.
3. **Shared slices**: `AddRepoOnboarding`'s in-place edit of a component next to a query that reads it.
