# CivicOS in TLA+

CivicOS watches the web pages of local governments. An ingestion worker scans
the active sources on a schedule, keeps every version of every page as evidence,
projects canonical civic records from them, feeds a semantic index, and writes a
briefing per organization and day. A FastAPI service gives tenants search,
grounded answers, notebooks, briefings and a founder console over the same
PostgreSQL database.

What is hard about the program happens between processes and between requests:
several workers and the API meet in PostgreSQL, an S3 bucket and a Qdrant
collection, under READ COMMITTED, with leases that expire, statements that raise
and processes that die; a request of the API awaits the database or a language
model several times, and what it learned in one step may be stale in the next.
That is what these modules model. Inside one process the worker is sequential:
it runs one job after the other.

Paths below are relative to `src/`; `ingestion/` stands for
`ingestion/src/civicos_ingestion/`, `api/` for `backend/src/civicos_api/`,
`0012` and the like for the files of `database/migrations/`.

## Inventory

| Component | State | Operations | Meets the others through | Module |
|---|---|---|---|---|
| Discovery queue (`ingestion/repository.py`, `service.py`, 0002) | `discovery_jobs`, `source_scan_runs` | claim a batch, start, complete, fail a scan; activate a source | leases; calls archive for every page | DiscoveryQueue |
| Founder refresh (`api/ingestion.py`, 0012) | `ingestion_runs`, `ingestion_run_sources` | request a refresh; workers advance and close it | rows it shares with the queue | DiscoveryQueue, RefreshRun |
| Document archive (`ingestion/service.py`, `repository.py`, `storage.py`) | `documents`, `document_versions`, `source_observations`, S3 objects | fetch, upload, append a version, observe | row and advisory locks; triggers of the vector index | DocumentStore, EvidenceLog |
| Canonical records (`repository.py`, `canonical.py`, 0013, 0014) | `canonical_records`, their versions and changes, `canonical_backfill_runs` | project in a scan, project in a backfill | the archive's transaction, row locks, a unique constraint | CanonicalProjection |
| Vector index (`vector_index.py`, 0004) | `vector_index_jobs`, the Qdrant points | triggers enqueue; claim, write, complete, fail | triggers on documents, leases | VectorIndex |
| Daily briefings (`briefing.py`, `api/briefings.py`, 0006) | `daily_briefing_jobs`, `daily_briefings`, deliveries, subscriptions | enqueue per date, claim, collect, complete, fail; subscribe, read | leases; reads what scans have stored | DailyBriefing, Edition |
| Research notebooks (`api/notebooks.py`, 0005) | notebooks, entries, citations, saved documents and searches | create, save, add a note or highlight, summarize, timeline, read, export | the lock of the notebook row; versions that scans store; a language model | Notebook, ResearchLog |
| Search ranking (`api/search.py`) | none of its own | keyword, semantic, hybrid search, in both views | PostgreSQL, Qdrant, PostgreSQL again | Retrieval |
| Assistant (`api/assistant.py`) | none of its own | retrieve, draft, validate the claims | search, a language model | Retrieval |
| Rate limiter (`api/observability.py`) | a deque of times per client, in the process | allow | every request | RateLimiter |
| Sign-in and tenant administrators (`api/auth.py`, `main.py`, `users.py`, `bootstrap_founder.py`, 0007, 0010, 0011) | users, memberships, tokens | sign in, verify, resolve the membership, list, provision, update | requests in flight; operators; deployments | TenantAccess |
| API routes (`api/main.py`) | none | one handler per route | the services above | where their requests begin |
| Retry delays, founder brief, metrics, migration runner, crawler frontier, founder signals, document processing, knowledge graph, public beta, frontend, schema, deployment | | | | see "Not modelled" |

What makes each correct, and what is hard about it:

* **Discovery queue.** A lease is given up by its holder only; a source that
  stays active is scanned again and again, whoever dies; what `complete_job` and
  `fail_job` write agrees with the refresh. Hard: leases that expire in the
  middle of a batch, commits whose acknowledgement is lost, late workers.
* **Founder refresh.** A source is in one unfinished refresh; a refresh closes
  after its last source with the right outcome, and does close. Hard: the
  decision to close is made on a READ COMMITTED snapshot of other workers' rows.
* **Archive.** Versions are only appended and no body follows itself; every
  version has its bytes and its observation; the archive ends at what the
  publisher last served, if that can be stored. Hard: upload and transaction are
  two systems; a crawl holds bodies for as long as it takes to fetch the rest of
  the source.
* **Canonical records.** No version without its projection; nothing but a new
  record is announced as new; a record does not go back to an older version.
  Hard: the backfill is one long transaction beside running scans, its locks are
  kept until it ends, and the table has two unique constraints of which the
  upsert resolves one.
* **Vector index.** No change of a document that follows the claim of its job is
  lost, and a stale point heals. Hard: the document changes while its job is
  claimed and while it is processed, and the jobs of all its versions write one
  point that no lease protects.
* **Daily briefings.** One edition per organization and date, published once,
  final, and delivered to who is subscribed then; an enqueued one appears. Hard:
  the content is upserted before the lease is checked, so the rollback is what
  protects a published edition; dates are counted in two time zones.
* **Notebooks.** Entries are numbered without a gap and never change; generated
  entries cite what was read for them; an export carries the citations of all it
  lists. Hard: the evidence of a summary is read in one transaction and cited in
  another, with a model's answer and other requests between them; an export is
  four statements that see four states.
* **Search and assistant.** Only rows that pass the filter are shown, in the
  version they had then; a fused list is ordered by the sums of its reciprocal
  ranks; an answer cites enough different evidence that was retrieved. Hard:
  Qdrant is behind PostgreSQL, which changes between the reads.
* **Edge of the API.** No window of a minute sees more than the limit; whoever is
  served is a member in that role; an account that is switched off stays so. Hard: a
  request asks the database for its role once and acts on it later, while
  operators, administrators, sign-ins and deployments write the same rows.

## Modules

| Module | Models | Actions and the code they stand for |
|---|---|---|
| `DiscoveryQueue` | the queue, its scans and the refreshes that ride on them | `Claim` (`claim_discovery_jobs`), `StartScan`, `BeginComplete`/`CommitComplete` and `BeginFail`/`CommitFail` (one transaction each, split where it reads other workers' rows), `Enqueue` (`api/ingestion.py`), `Activate`/`Deactivate` (the trigger of 0002), `ScanRaises`, `StartScanFails`, `FailUnstarted` (the exceptions), `BecomeDue`, `ExpireLease`, `CooldownEnds` (the clock), `Crash` |
| `RefreshRun` | what a refresh promises, without queue, leases and workers | `Request`, `Start`, `Finish` (which may close refreshes) |
| `DocumentStore` | one document in the archive | `Fetch` (crawler), `Put` (extraction and S3), `Lock`, `ReadLatest`, `Commit` (the statements of `persist_resource`), `Discard` (any of them raised), of which `Reject` are the cases that raise every time |
| `EvidenceLog` | what the archive promises | `Log` |
| `CanonicalProjection` | the records of one document | `Fetch`/`FetchUnchanged`, `Read`/`Wake`, `ScanUpsert`, `ScanReject` (a scan's transaction); `Check`, `Select`, `Examine`, `BackfillUpsert`, `BackfillReject`, `Finish` (the backfill); `Crash` |
| `VectorIndex` | the outbox and the point of one document | `ObserveChanged`, `ObserveUnchanged` (triggers of 0004), `BeginClaim`/`Claim` (the snapshot and the row locks of `claim_vector_index_jobs`), `WritePoint`, `Complete`, `Fail`, `ExpireLease`, `Crash` |
| `DailyBriefing` | the briefings of one organization | `Poll`, `Claim`, `Collect`, `Complete`, `Fail`, `Crash` (`run_due_jobs`), `Subscribe`, `Unsubscribe`, `MarkRead` (API), `Observe` (scans), `Tick`, `ExpireLease` (clock) |
| `Edition` | what a reader is promised | `Publish`, `MarkRead`, `ChangeSubscription` |
| `Notebook` | the notebooks of one owner under several requests | `Create`, `Save` (one transaction each); `AddNote`, `AddHighlight`, then `Lock` (`_owned_notebook` with FOR UPDATE, the position), `Insert` (entry, citations, commit); `Generate` (`notebook_evidence`), `DraftSummary`/`DraftTimeline`/`RejectDraft` (`NotebookService`), then `Lock` and `Insert` (`add_generated_entry`); `List`, `ListReferences`, `Answer` (the snapshot of a read or an export); `Abort`; `NewVersion` (scans), `SetMember` (an operator) |
| `ResearchLog` | what a notebook promises | `Store`, `Keep`, `AppendStep` |
| `RateLimiter` | `InMemoryRateLimiter` | `Allow`, `Refuse`; no specification of its own |
| `TenantAccess` | a request from the limiter to its answer (`EXTENDS RateLimiter`) | `Arrive` (`RequestContextMiddleware`: limited, too large, let in), `Verify` and `Resolve` (`AuthenticationMiddleware`), `Login`, `Me`, `Ingestion`, `ListUsers`, `Provision`, `Update` (handlers and the functions of 0007), `Fail`, `Leave`; `Deploy` (`bootstrap_founder`), `Crash`, `SetAccount`, `SetMember` (an operator), `Tick` |
| `Retrieval` | one search or answer at a time | `Begin`, `Keyword`, `Candidates`/`NoCandidates` (Qdrant), `Recheck`, `WithoutSemantic` (fusion and response), `Draft`/`NoDraft` (`GroundedAnswerService`), `Fail`, `Finish`; `NewVersion`, `Retag` (scans and edits between the reads) |
| `MC...` | definitions a `.cfg` cannot express: symmetry, sets of pages and bodies, a negative zone | |
| `...Proofs` | theorems about the module they extend | |

Composition: `DiscoveryQueue` holds queue and refresh together, since they share
transactions; `CanonicalProjection` is the part of the archive's transaction that
`DocumentStore` leaves out; `TenantAccess` extends `RateLimiter`; `Retrieval`
is search and assistant in one, since the assistant calls the search. The other
modules meet through a few facts that each takes as an action of its
environment: that scans recur (`ObserveUnchanged`), that versions are stored
(`NewVersion`), that documents are observed (`Observe`).

Conventions shared by all of them:

* A variable is a column or a table by the key that matters (its comment names
  it), or what a process holds in memory between two transactions. An action is
  one committed transaction, and a transaction is split wherever another process
  may commit something it depends on.
* `now()` and lease times are predicates: `live` says that a lease has not
  expired, `due` that a job may run. Only `DailyBriefing`, where dates and windows
  are computed from it, and `TenantAccess`, where the limiter and the tokens
  compare with it, have a clock.
* A lease token is a fresh UUID in the code. In `DiscoveryQueue` it is a value of
  its own, because a worker may hold several stale ones. In `VectorIndex` and
  `DailyBriefing` a worker finishes its batch before it claims again, so the
  worker itself stands for its token.
* A crash loses a process' memory and leaves the tables alone. The process comes
  back idle. `railway.toml` restarts it ten times and then gives up; the models
  assume that somebody starts it again.
* A citation row of a notebook is named by the entry it was created for, a token
  by the time it was issued at; a signature, a secret, a ranking and the answer of
  a language model are choices of the environment.
* Operators whose comment starts with "Mutant" are plausible mistakes of the
  code. No specification uses them; each property is known to fail when the
  operator after it is replaced by the mutant.
* The abstract specifications `RefreshRun`, `EvidenceLog`, `Edition` and
  `ResearchLog` are instantiated at the end of the module that implements them
  (`INSTANCE ... WITH`), and their `Spec` is a property of its runs.

## Runs

| Run | Instance | What it checks |
|---|---|---|
| `DiscoveryQueue_workers` | 2 sources, 2 refreshes, 2 workers, 3 tokens, no crash | `OneRefreshPerSource`: a source is in one unfinished refresh; `ScanAgreesWithRefresh`; `RunAgreesWithSources`: a run closes with the outcome of its sources; `LiveLeaseIsKept`: only its holder gives up a live lease |
| `DiscoveryQueue_recovery` | 2 sources, 1 refresh, 1 worker, batches of 2, 4 tokens, 1 crash, lost acknowledgements, a source switched on and off | `SourceKeepsBeingScanned`; the queue implements `RefreshRun` |
| `DiscoveryQueue_closing` | 2 sources, 1 refresh, 2 workers, 2 tokens, no crash | `RefreshFinishes`, although two workers may each leave the end to the other |
| `DiscoveryQueue_orphan` | the same with 1 worker, 4 tokens and 1 crash; violated | after a crash in mid-scan it does not |
| `DocumentStore_overlap` | 4 bodies (two texts, another identifier, one without a text), 2 workers, 2 edits | `VersionsHaveArtifacts`, `ObservationsMatchVersions`, the archive implements `EvidenceLog`, `StoreCatchesUpUnlessRefused` |
| `CanonicalProjection_replicas` | 5 pages (two texts, a second number, another type, a scan without text), 2 workers, 2 edits, 1 crash, possibly a version of an earlier release | `VersionsAreProjected`, `CompletedMeansProjected`, `OnlyNewRecordsAreNew`, `ProjectionIsCurrent`, `ChangedContentIsStoredUnlessRenumbered` |
| `VectorIndex_outbox` | 2 versions, 1 metadata change, 2 indexers, 1 crash | `NoLostReindex`: no change after a claim is lost; `FencedWorkerIsCurrent`; `StaleIndexHeals` |
| `DailyBriefing_dates` | 2 dates of 2 ticks, a zone 1 tick west, 2 workers, 1 reader, 1 document, any number of crashes and failures | `EditionAgreesWithJob`, `NoNewsTwice`, the briefings implement `Edition`, `BriefingIsPublished` |
| `Notebook_requests` | 1 notebook, 2 requests, 2 documents (one dated, one without a text), 2 versions of each, 2 entries | `PositionStaysFree`, `ExportedEntriesKeepTheirCitations`, `GeneratedEntriesAreGrounded`, the notebook implements `ResearchLog` |
| `TenantAccess_edge` | 1 user, 2 roles, both ways to authenticate, 2 clients, 1 request at a time, limit, window and lifetime 2, clock to 2 | `RateIsBounded`, `LimitedOnlyWhenUsedUp`, `ServedWhileMember`, `SwitchedOffStaysOff` |
| `TenantAccess_managed` | 2 users, 1 client, no clock; violated | an administrator's update is rejected although the guard lets it through |
| `Retrieval_search` | 3 documents and 1 of another tenant, 2 record types, results limited to 2, 2 claims with 2 citations, 1 change | `ResultsPassTheFilter`, `AnswersAreGrounded`, `FusionRanksByReciprocalRanks` |

Each module's type invariant is checked by one of its runs; those of `VectorIndex`
and `TenantAccess` are proved only.

### Why the bounds are enough

* **Two workers** are needed for every race these tables have: each is between
  one holder of a lease, row or snapshot and one other process. A third worker
  could only hold a second stale lease, which the fence treats like the first.
* **Two sources** make a refresh whose end depends on somebody else's row, **two
  refreshes** make the busy check matter. Three or four tokens let a lease expire,
  be taken over and expire again.
* **Four bodies, two edits**: a page may change, change back and skip a fetch, get
  an identifier that is refused, and become unreadable.
* **Five pages, two edits** and a version of an earlier release: the record of a
  type is made by the backfill, overtaken by a scan, changes its text, its type
  or its identifier, while the other worker holds an old snapshot.
* **Two versions, one metadata change** are one old and one new job for one
  point, and a change while either is claimed or processed.
* **Two dates of two ticks**: the zone puts local midnight inside the database's
  day, so that windows and dates are out of step; batches of two jobs occur. The
  limit of a section never cuts with one document; no property depends on which
  documents it cuts, and `NewsOnce` is proved for every limit.
* **Two requests, two entries** in one notebook: one request waits for the row
  the other holds, one exports while the other inserts. Two documents are one
  that a timeline may list and one that has no text; two versions let one be
  superseded between reading and citing. `MaxEntries` guards the lock, so a
  request that has read its position always finishes. Requests in different
  notebooks share nothing; the proofs hold for any number of both.
* **One request at a time** at the edge: between two of its steps the operator,
  the clock and the restarts do everything another request could do to accounts
  and memberships, and more. Requests that meet inside a single statement are the
  write skew described below. One user is enough, since every update and
  provisioning of another one is rejected; two clients share the process of the
  limiter. Limit and window of 2 let a window slide past its first event; a clock
  up to 2 brings the tokens to their expiry.
* **Three documents, limit 2**: rankings of different length and order, one
  document in both, one cut off. One change falls between any two reads. Drafts
  of up to three claims, with one number too many, include everything that
  validation distinguishes. `Scale` = 61 * 62 * 63 is a multiple of the
  denominators up to rank 3, so that scores are exact whole numbers at these limits,
  as `ScaleAssumption` asks.
* Crashes, edits and tokens are bounded by guards or by the size of a constant
  set (`MaxCrashes`, `MaxEdits`, `MaxMeta`, `MaxVersion`, `MaxVersions`,
  `MaxEntries`, `MaxChanges`, `MaxTime`, `Token`, `Run`, `LastDate`); nothing
  else is.

### Fairness

Liveness is checked under `FairSpec` of the module only. The modules of the API
have none: a request may always be lost.

* Weak fairness of the worker's own steps: a call of psycopg, httpx or S3 returns
  or raises. Weak fairness of `ExpireLease` and `BecomeDue`: time passes.
* Strong fairness of claiming a given job: claims are ordered by `run_after` and
  a batch is finite, so a due job is not passed over for ever, though another
  worker's lock may hide it from a single `SKIP LOCKED`.
* Strong fairness of the decisive step of a job (starting a scan, uploading and
  committing a version, writing the point, completing a briefing within its
  lease): a job that is retried again and again succeeds at some point. Without
  it every liveness property fails for an S3 bucket that is down for good. It is
  asked of no step that the code refuses each time: in `DocumentStore` a body
  without an extractable text or with a refused record is never uploaded or
  committed, weak fairness of `Reject` says that the scan goes on without it, and
  `StoreCatchesUpUnlessRefused` names both.
* Strong fairness of the steps that wait for a lock in `CanonicalProjection`:
  PostgreSQL queues the waiters of a row.
* No fairness of crashes, failures, requests, edits, readers and founders. In
  `DailyBriefing` crashes are not even bounded. * `StaleIndexHeals` also needs
  `ObserveUnchanged` to recur: `SourceKeepsBeingScanned` is what justifies that.

## Findings

1. **A crashed scan keeps its refresh open for ever** (`DiscoveryQueue_orphan`).
   `start_scan` takes up only refresh rows that are still `queued`, and the end of
   a scan matches rows by scan id. The row of a scan whose worker died stays
   `running`; its refresh never closes and refreshes of that source are refused.
   There is no other way to it: `OrphansNeedACrash` proves that a running row
   has its worker unless a worker has crashed or the acknowledgement of
   `start_scan` can be lost.
2. **Administrators cannot change users** (`TenantAccess_managed`).
   `core.update_organization_user` (0007) returns a table with a column
   `user_id`, and the condition of its UPDATE says `user_id` without a table:
   PL/pgSQL rejects that as ambiguous at every call, and `api/main.py:584` makes
   a 409 of it. `core.provision_organization_user` has the same with
   `ON CONFLICT (external_subject)`, while
  `database/tests/0007_authentication_and_user_management_test.sql:43` expects a
  provisioning to succeed. The header of 0011 explains the error for
   another function and repairs that one.

Seen while modelling, without a run that is expected to fail; a property that
holds states what remains true where there is one:

* The upsert of a canonical record resolves conflicts on the deduplication key,
  but the table also has `UNIQUE (organization_id, raw_document_id, record_type)`
  (0013:49): a page that gets another identifier of the same type raises on every
  scan and is not archived again (`docs/canonical-civic-records.md:21` promises
  changes). `ChangedContentIsStoredUnlessRenumbered` and
  `StoreCatchesUpUnlessRefused` are liveness up to that.
* `claim_vector_index_jobs` (0004:134) is one READ COMMITTED statement. Its `FOR
  UPDATE SKIP LOCKED` follows a job row to its newest version, but the document and
  the topics are joined as of the statement's snapshot. If a `persist_resource`
  commits in between, the worker gets a valid lease with the metadata from before,
  and may complete the job with it: the filter payload in Qdrant is then out of
  date with every job completed, against `docs/search.md:23` ("metadata or topic
  changes requeue the latest version so Qdrant filter payloads remain current").
  `NoLostReindex` and `FencedWorkerIsCurrent` except exactly the jobs that were
  leased so (`behind`), and are violated without the exception. The next
  observation of the document heals it (`StaleIndexHeals`).
* The backfill selects the latest version that has a text (`repository.py:991`). A
  version of an earlier release without one, such as a scanned PDF, gets no record,
  and the run is `completed` nevertheless. `CompletedMeansProjected` speaks of the
  selected version.
* A backfill that selected the version of an earlier release and is overtaken
  by a scan projects it after the newer one (`repository.py:976`), and the
  neighbours of that version may be announced as new. `ProjectionIsCurrent` and
  `OnlyNewRecordsAreNew` are exact about these exceptions.
* A briefing is generated at the first poll of its date and never again
  (`briefing.py:37`); what is observed later on the date is in no edition, against
  `docs/daily-briefings.md:27`. A date without a poll never gets a job.
* Two scans of one source overlap after a lease has expired, although
  `docs/railway-ingestion.md:11` says that a leased source cannot be scanned by
  another worker. The properties of `DiscoveryQueue` and `DocumentStore` hold
  with such scans.
* The Qdrant point may show an older version until the next scan
  (`docs/search.md:22`); a document that fails leaves no observation
  (`docs/autonomous-discovery.md:41`).
* Fusion keeps one hit per document. In the canonical view, where a document
  may have several records, the lower-ranked record replaces the higher one
  (`search.py:493`; `docs/search.md:36`), and the semantic index is never asked
  there, hence not by the assistant (`docs/assistant.md:24`).
* The references of an export may include those of entries it does not list
  (`notebooks.py:226`). A timeline takes the first row per document of a UNION
  without an order, against "deterministic" in `docs/research-notebooks.md:28`.
  The labels `[C1]` of a generated summary are not stored with its citations. The
  check that begins a notebook's transaction looks at the user's `is_active`, not
  at the membership's.
* The guard of the final administrator (0007:162) covers deactivation but not a
  change of role, and two requests could pass it together. Neither can happen while
  every update is rejected (finding 2), so no property here depends on the guard.
* A point of Qdrant whose identifier cannot be read raises outside of the `try`
  around the request (`search.py:374`): the search fails with a 500 where it would
  fall back to keywords for a failed request.
* Two requests for different sources may both pass the cooldown of a refresh
  (`api/ingestion.py:27`); for one source the unique index of 0012:45 refuses the
  second. `Enqueue` is one step, so `OneRefreshPerSource` shows what the busy
  check is for and takes the index on trust for two requests inside it. Two scans
  that upsert entities in different orders may deadlock (`repository.py:289`); one
  is rolled back and repeated. The backoff of a job that has failed 31 times
  overflows an integer, and the exception ends the worker (`briefing.py:219`,
  `repository.py:922`).

## Proofs

Proved for every value of the constants that satisfies the assumptions of the
module (`ConstantsAssumption`; `LimiterAssumption` and `AccessAssumption` in
`TenantAccess`, `RetrievalAssumption` and `ScaleAssumption` in `Retrieval`), which
TLC evaluates in every run of it. They say that `None` is nothing else, that
bounds are natural numbers and limits positive, that named subsets are subsets,
and in `Retrieval` that there are finitely many documents. `ScaleAssumption` asks
that the unit of the scores be a multiple of 60 + rank for every rank that can
occur, so that the model ranks like exact sums of 1 / (60 + rank); there is such
a unit for every limit and every number of documents. No proof needs it: the
theorems hold for rounded scores too.

| Module | Theorems | The inductive invariant |
|---|---|---|
| `DiscoveryQueueProofs` | `TypeCorrect`, `RefreshOutcome` (`RunAgreesWithSources`), `RefreshImplemented` (`ImplementsRefresh`), `LeaseKept` (`LiveLeaseIsKept`), `RefreshesDisjoint` (`OneRefreshPerSource`), `ScanAgrees` (`ScanAgreesWithRefresh`), `OrphansNeedACrash` (`RunningIsAttended`), `RefreshFinal` (`ClosedRefreshIsFinal`) | `PhaseInv`: in the middle of a job a worker has a source and a token. `ClosingInv`: from the statement that decides to close a run to its commit, the only source of the run that may still be running is the worker's own; without it a run could be closed over an unfinished source, since the decision is taken on a snapshot. For the scans, on top of it, `HoldInv`: no two workers hold one token, and `RowInv`: the row of a token that is held is at the phase of its worker; stale workers are harmless because their tokens match no row. `RunningIsAttended` is inductive on `PhaseInv`; `RefreshFinal` follows from the refinement and the outcome. |
| `DocumentStoreProofs` | `TypeCorrect`, `ArtifactsKept`, `ObservationsKept`, `LogImplemented` | `LockInv`: one worker is inside its transaction, and has read the present. `StoredInv`: a body is uploaded before its transaction begins. |
| `CanonicalProjectionProofs` | `TypeCorrect`, `EveryVersionProjected` (`VersionsAreProjected`), `BackfillComplete` (`CompletedMeansProjected`), `NewMeansNew` (`OnlyNewRecordsAreNew`), `RecordsAreCurrent` (`ProjectionIsCurrent`) | `LockInv`: who writes holds the document or the run. `KnowledgeInv`: a record that a worker has seen is still of that identifier. `BackfillInv`: a backfill writes nothing but version 1, which nobody else has projected, and holds the row of what it has written. `ScanInv`: a scan that does not know the record it finds was overtaken by the backfill, and nothing came between. The four properties need each other and are proved together. |
| `VectorIndexProofs` | `TypeCorrect`, `Fenced`, `ReindexNotLost` | `WrittenIsSent`: a job about to be completed was written with what it was claimed with. With the fence it gives `NoLostReindex`, which is not inductive alone. `ClaimsWhenIdle`: a claim runs only while its worker holds nothing. Both theorems except the jobs leased by a claim that a change overtook. |
| `DailyBriefingProofs` | `TypeCorrect`, `EditionsAgree`, `NewsOnce`, `EditionImplemented` | `LeaseInv`: a leased job is in processing, hence not published. `DeliveryInv`: no deliveries before the edition. `WindowInv`: editions and drafts hold documents of their own window; windows of two dates are disjoint by arithmetic on `DayLength`. |
| `NotebookProofs` | `TypeCorrect`, `PositionsDense` (`PositionsAreDense`, which no run needs), `PositionFree` (`PositionStaysFree`), `ExportComplete` (`ExportedEntriesKeepTheirCitations`), `GeneratedGrounded` (`GeneratedEntriesAreGrounded`), `CitationsStored` (`CiteInv`), `RecordKept` (`RecordIsPermanent`), `LogImplemented` (`ImplementsResearchLog`) | `LockInv`: the lock of a notebook and the request inserting there belong together; hence the maximum plus one that it read stays the next position. `ReadFits`, `JobFits`: what was read for an entry is stored and known to its notebook, and stays so while the model answers, because entries and versions are only added. `ExportFits`: an export lists entries that are there, before it lists references. |
| `TenantAccessProofs` | `TypeCorrect`, `RateBounded` (`RateIsBounded`), `LimitedForCause` (`LimitedOnlyWhenUsedUp`), `LimiterExact` (`LimiterCountsTheWindow`), `MembersServed` (`ServedWhileMember`), `OffStaysOff` (`SwitchedOffStaysOff`) | `DequeInv`: the deque never holds more than the limit, its times are in order, and what was popped has expired; from it any two events `Limit` apart are a window apart. That popping ends is an argument by a least element; what it leaves is then exactly the last window, so the limiter refuses if and only if the window is used up. `RoleFits`: the role of a request was its user's at some time since it arrived. |
| `RetrievalProofs` | `TypeCorrect`, `ResultsFiltered` (`ResultsPassTheFilter`), `AnswersGrounded` (`AnswersAreGrounded`), `FusionRanks` (`FusionRanksByReciprocalRanks`), `SemanticComplete` (`SemanticSearchIsComplete`) | `AllSeen`: the keyword hits and the results are among the rows that passed the filter while the search ran, and so is whatever passes now. The loops (the second look at the candidates, the two passes of the fusion, the sums) are recursive functions over positions; `Induction` reduces a statement about all positions to a least one that fails, and shows that every loop has the value its equation demands. From there: after i hits the dictionaries have each of their documents once, with the sum of its reciprocal ranks so far; and the places of the sort are a bijection, since there are as many of them as entries. |

Each `Invariance` theorem has one lemma per action or group of actions. The
refinement theorems map initial states to initial states and every step to a
step or a stutter, from the same invariant.

The name in parentheses is the property that the theorem states. Seven of them are
in no run and say what the properties of the runs leave open: `RunningIsAttended`
(finding 1 takes a crash or a lost acknowledgement), `ClosedRefreshIsFinal`,
`PositionsAreDense`, `CiteInv`, `RecordIsPermanent`, `LimiterCountsTheWindow` and
`SemanticSearchIsComplete`.

Only model-checked is all liveness (`SourceKeepsBeingScanned`, `RefreshFinishes`,
`StoreCatchesUpUnlessRefused`, `StaleIndexHeals`, `BriefingIsPublished`,
`ChangedContentIsStoredUnlessRenumbered`), which needs fairness and ENABLED. Every
other property of a run that is expected to hold is proved.

## Not modelled

* Text extraction, classification and signal detection are regular expressions
  and parsers; their results are inputs (`Content`, `Body`). Which texts match a
  query, and how they rank, is any ranking; the answer of a language model is
  any sequence of claims. The confidence label of an answer and the rendering of
  responses are left out.
* The five sections of a briefing besides new documents: queries of the same
  shape over tables the workers here do not write.
* Retry delays: a failed job may be claimed at any later time, which includes
  every delay. Their overflow is far beyond what TLC could count to.
* Row-level security: every model is inside one organization, except for the
  candidates of other tenants in `Retrieval`.
* The founder brief (`founder_brief.py`, 0009) repeats the job protocol of
  `DailyBriefing` without subscriptions and deliveries; a second copy would say
  nothing new.
* The migration runner: what a crash between a file and its row in the ledger
  does depends on the SQL of each file.
* The crawler's frontier lives in one call of one coroutine and depends on the
  parsing of pages, robots files and URLs. `DocumentStore` takes the fetch of one
  page from it; a crawl that raises is a failed scan of `DiscoveryQueue`.
* Metrics are counters behind one lock (the list of durations keeps its last
  1000). Founder signals and watchlists, the knowledge graph, and the feedback
  and analytics of the public beta are single statements over one table each.
* The routes of the API that only read or insert one row, the web frontend, the
  schema, seeds and deployment scripts.

## Where to go on

What is left are the components above, each with its reason. If the code of
finding 2 is repaired, `Update` in `TenantAccess` loses its guard `Ambiguous`, and
the guard of the final administrator deserves a property; with two requests
(`Request = {r1, r2}`) the model then also has to split `Update` into the
statements of its function. `Enqueue` of `DiscoveryQueue` could be split at its busy
check in the same way, with the unique index as a guard of the insert.
