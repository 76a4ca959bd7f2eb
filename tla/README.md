# A verification of the parliamentary question system

The repository ingests the answers a public company gave to parliamentary
questions, indexes them in PostgreSQL with pgvector, and serves retrieval and
drafting to authenticated officers. This directory holds TLA+ models of it, the
TLC instances that check them and the TLAPS proofs about them.

Line references are to the repository; paths are relative to `nhpc_qa/` unless
they start with another directory.

## 1. The system

| Part | State | Operations | Talks to |
|------|-------|------------|----------|
| work queue (`core/queue.py`, migration 004) | table `sync_queue` (status, deadline, attempts, claim), `workers`, `sync_log` | `enqueue`, `claim_ready`, `complete`, `fail`, `recover_stale`, `heartbeat`, `watcher_alive` | observer, workers, upload and tree routes |
| watcher (`watcher/runner.py`, `watcher/sync.py`) | the observer's undelivered events, the claimed job, debounce timers of supporting documents | event handlers, `_work_once`, `main`, `process_upsert`, `process_delete`, `reactivate` | queue, source tree, pipeline, index |
| crawler (`pipeline/crawl/crawler.py`) | `organized/<session>/<house>/<question>/`, manifest | finding and naming questions, choosing the latest reply, reset of a question's output, copy, finalize | source tree |
| document readers (`pipeline/parse/reader.py`, `layout.py`, `tables.py`, `llm.py`) | none | pages, conversion, recognition, tables | files, vision and table services |
| parse pipeline (`pipeline/parse/*`) | `parsed.json` per question | pick, route, extract (line ranges of a model, prose, rules), group answers, place tables, flag, atomic write | `organized/`, language model |
| index (`pipeline/index/*`) | `diaries`, `sub_questions`, `answer_groups`, `answer_tables`, `annexures`, vectors | load (one transaction per document), embed rows without a vector | `parsed.json`, database |
| orchestrator (`pipeline/orchestrator.py`) | none | crawl, parse, load, embed in order | the stages |
| purge and hard delete (`watcher/purge.py`, `api/tree_routes.py`) | rows, `organized/`, source files, queue rows | purge after a grace period; admin delete in five stages | database, file system, queue |
| uploads (`api/upload_routes.py`, `api/security/upload_guard.py`) | staging directory, `uploads` audit rows | stage, validate, move, enqueue, status | source tree, queue |
| accounts (`api/security/*`, `api/auth_routes.py`) | `users` (role, active, must change, failed logins, lock, hash), `sessions`, attempts per address | login, logout, lock-out, change and reset password, create, deactivate, reactivate, `create-admin` | every route |
| supporting documents (`supporting/ingest.py`, `api/supporting_routes.py`) | `supporting_documents`, chunks, category folders, timers | ingest, supersede, soft delete, hard delete | watcher, retrieval |
| retrieval (`retrieval/graph/*`, `retrieval/search/*`, `retrieval/verify.py`) | the state of one query; the verify cache | parse query, retrieve, fuse, widen, rerank, verify, assemble | database, models |
| drafting (`retrieval/generation/*`, `api/draft_routes.py`) | `query_audit`, the pacing window | gather what was shown and attached, call the model, verify citations, turn empty parts into gaps, flag unused documents, export | retrieval, models, feedback |
| feedback (`retrieval/feedback/store.py`) | `query_runs`, `query_results`, `feedback` | store a run, record a vote | database |
| entities (`entities/*`) | entity dictionary, aliases, links | mine, merge, extract | database, models |
| providers (`core/providers/*`) | none or a process-wide model | chat, embed, rerank, with retries | external services |
| migrations and sessions (`core/db/*`) | `schema_migrations` | apply in order | database |
| tracing, logging, configuration, command line | trace spans, settings | | all |

### What is hard in it

* Several processes share the queue: `nhpc watch` under systemd
  (`Restart=always`), the watcher thread that `nhpc serve` starts by default,
  and manual `nhpc watch --once`. Claims, recoveries and retries interleave.
* File events arrive while the folder they are about is being processed.
* A process may die between any two statements; the queue survives, undelivered
  file events do not.
* `organized/` is shared by all workers: each upsert crawls the whole corpus.
* Hard delete and purge run beside the workers, in several committed steps.
* The API uses one autocommit connection from many request threads: every
  read-then-write pair of statements can interleave with another request.

### What makes the parts correct

* Queue: one live row per folder; a claim belongs to one worker until that
  worker ends it or is dead; a folder is handed out only after it settled; every
  job ends; a failing job is given up after a fixed number of attempts.
* Watcher: when the events of a folder are delivered and its job is done, the
  index holds the folder's current content; only an absent folder is taken out.
* Crawler, parse, index: what the index holds for a document comes from one
  crawl of one folder; a re-run changes nothing; a failing document does not
  stop or damage the others.
* Delete: a deleted document does not come back, and a failed delete leaves it
  retrievable.
* Uploads: all files of an upload become visible or none does, and every folder
  that received a file is processed.
* Accounts: an administrator remains; a password somebody else knows opens
  nothing but the page that replaces it; a new password signs out what was opened
  with an earlier one.
* Ingest of a reply: no answer block is lost, answers are shared by place and not
  by wording, a table ends in one answer, and a guess is put before a human.
* Drafts and feedback: a draft cites only what was given to the model, and what
  the model left out stays in sight; an officer's vote is the one that is stored.
* Retrieval: fusion depends only on ranks; an answer shown as verified was
  verified; degraded paths still answer.

## 2. Plan

In the order of importance, each module with its MC module and proofs where
the table says so.

| Module | What | Status |
|--------|------|--------|
| `SyncQueue` | table and workers | done, proved |
| `FolderLease` | what the queue promises; `SyncQueue` and the jobs of `Corpus` implement it | done, proved |
| `MirroredTree` | what ingestion promises; `WatcherSync` and `Corpus` implement it | done, proved |
| `WatcherSync` | `SyncQueue` with source tree, observer and slice | done, proved |
| `Corpus` | the stages of the slice over the shared `organized/`, with purge and hard delete | done, proved |
| `UploadIntake` | staged upload, commit, enqueue, status | done, proved |
| `SupportingDocs` | timers, ingest, versions, deletes of reference documents | done, proved |
| `RetrievalGraph` | the query graph with degraded paths and the verdict cache | done, proved |
| `Accounts` | login, lock-out, sessions, administration | done, proved |
| `OfficerDesk` with `DraftAssist`, `ModelClient` | stored searches, votes and drafts over the one connection | done, proved |
| `ReplyIngest` with `CrawlSelect`, `AnswerSpans`, `ModelClient` | a question from its folders to its record | done, proved |

Every invariant and action property of the passing runs is a theorem. What the
plan leaves are weaker hypotheses for some of them (section 5 says which are
needed). Rank fusion as an operator, migrations and the entity dictionary are no
longer planned: their results would be free choices or have no order in which
anything could go wrong.

## 3. Modules

### `SyncQueue` and `FolderLease`

`SyncQueue` has the rows of `sync_queue` and, per worker process, where it is in
`runner.main` / `_work_once` (`pc`), the row it claimed (`job`) and how long it
has worked on it (`elapsed`). Every queue function is one SQL statement on an
autocommit connection and so one step:

| Action | Code |
|--------|------|
| `Enqueue` = `Insert` or `Coalesce` | `queue.enqueue`: INSERT, or ON CONFLICT DO UPDATE on the partial unique index |
| `StartService`, `StartDrainer`, `BeginTick` | `runner.main`, the head of `_work_once`: `recover_stale` with cutoff 0, the configured one |
| `Claim`, `Drained` | `queue.claim_ready`, and its empty answer |
| `Succeed`, `FailJob`, `FailRaises` | `queue.complete`, `queue.fail`, and the unique violation `fail` may raise |
| `StopService`, `Crash` | clean stop, death of the process |
| `Withdraw` | `DELETE FROM sync_queue` of an admin's hard delete |
| `Tick` | the database clock |

`complete` and `fail` address the row by id and do not check who owns it; the
model keeps that (`Stored`, `job` is only an id). Times are relative to now, so
no clock variable grows: `due`, `quiet`, `age`. Row ids stand for the serial
key; an id may be reused when its row is finished and no worker holds it, which
no statement can observe.

`FolderLease` is the promise with rows, deadlines and retries left out: per
folder `clear`, `waiting`, `orphaned`, or the worker that holds it.
`SyncQueue!ImplementsLease` is `FolderLease!Spec` under the mapping `Lease`.

### `WatcherSync`

Adds the source tree as a version number per question folder, watchdog's
undelivered events, the two steps of the slice that matter (read the source,
store what was read) and what the index then holds. `Decide` is the branch of
`_work_once` on the claimed event and on whether the folder exists. A folder is
named by its canonical question id, here and in `Corpus`: of a folder whose name
`canonical_qid` changes, `process_upsert` and `process_delete` look for rows by
the raw name (`sync.py` 66) while the crawler stored them under the canonical one
(`crawler.py` 350), which is outside these modules.

### `MirroredTree`

The promise of ingestion with queue, stages and copies left out: the tree changes
as it likes, and what a search shows of a folder changes only by becoming what the
folder holds at that moment (`Refresh`). It says nothing of when: that is
`DoneMeansInSync` and `SettledInSync`. `WatcherSync!ImplementsMirror` and
`Corpus!ImplementsMirror` are its `Spec` with `Shown`, the text of an active row, for
what is shown. It is an atomic specification of something that takes a job from
claim to reactivation: the step that refreshes is the store in `WatcherSync`, and in
`Corpus` the `Load` of an active document, its `Reactivate`, or its soft delete.

### `Corpus`

What `WatcherSync` takes as one read and one store is here the five stages of
`process_upsert` over `organized/`, which all workers share: walk and reset
(`crawler`), copy, parse, load, embed. `Docs` are question folders; a folder's
content is a version, and each place that holds it (`source`, `organized.copy`,
`organized.parsed`, `index.text`, `index.vector`) remembers which. `Overlaps` are
the pairs of documents that one `--only` token selects both, since the pipeline
matches substrings of a path. `purge` (list, human confirmation, DELETE) and
`admin` (the five stages of `delete_path`) run beside the workers. The queue is
reduced to a row per folder: whether it waits, who holds it, and how often it was
claimed; `SyncQueue` shows why that is what is left of it. `Upsets` names the
disturbances of an instance: locked folders, failing documents, crashes, purges,
hard deletes. A document has one text; sub-questions that vanish from a re-parse
are below this abstraction.

A parse reads `metadata.json` first and the answer later (`Read`, `ReadLater`).
Another worker's crawl may remove the folder in between: `read_document` does not
raise, so the record comes out without an answer (`blank`), is written, loaded
without sub-questions, and the job ends as done. `Loaded` keeps the old text then,
since the loader deletes nothing, and the history `index.unread` marks the
document: "kept" while that text is what a search showed anyway, "hidden" once a
soft-deleted text would be brought back by it. A copy that is still being written
when it is read counts as blank.

### `UploadIntake`

Requests stream into a staging folder side by side (`Stage`, an await per file),
then run alone from collision check to answer, because the route does not await
there (`LoopFree`). `tree`, `index` and `tried` hold whose bytes lie where. A file
moved into the tree is queued by the request and by the watcher, and the two
meet in the folder's one live row (`WithRow`). `Status` is `upload_status`.
`Crash` takes the API, the watcher (a process of its own under systemd) or both,
since by default the watcher is a daemon thread of the API (`api/app.py` 395-405).
With the watcher go the events it had not enqueued; the history `lost` keeps their
folders until their next job.

### `SupportingDocs`

One in-process timer thread per file event (`thread`), the handler's dictionary
of the last timer of a file (`timers`), and one row per content (`docs`). An
ingest is parse, row, removal of the old tables, new tables: steps of their own
because each statement is committed by itself. The upload route does the same
beside the watcher, which sees the upload's own move. Nothing is excluded: a file
is removed, renamed, overwritten, uploaded or hard-deleted while a thread stores
it, and two threads store one content side by side (upload and timer, or two
timers after the unlocked pop of `runner.py` 189). What that breaks is kept apart by
histories: `late` has the documents that were last stored from a file that no
longer held what was read of it, `crossed` those whose last stores overlapped,
`missed` the files whose event, store or removal died with a process, and `retired` what an
administrator deactivated. One upload at a time is the code (the route does not
await while it stores); one watcher, one category, one hard delete at a time and,
in the run, no content twice under different names (`Twins`) are bounds.

### `RetrievalGraph`

A request walks the nodes of `build_graph`; its record `run[q]` has the
candidates as notes, an id with the version of the text that was read. Scores
are a choice, so a cut to the best k is any k of them, and a weak result is any
(an empty one always). Every SELECT and INSERT is a step, as is every model
call; the index changes meanwhile, and the cache of verdicts is shared. `of`,
`redone`, `blind`, `after` and `passed` are for the properties only. Left out:
annexures, the optional draft node, and the trace that is stored afterwards.
`PlateauMin` is at least 4 in the code; two candidates show the same branch.

### `Accounts`

One step per statement of `users.py`, by request threads and by commands of the
shell, which share the tables. A sign-in is `CheckAddress` (the budget of its
address), then `Attempt` (the attempt counted and the row read), then `WrongPassword` or `RightPassword`, then `OpenSession`; what
it read is in `request[r].seen`. `set_password` and `set_active` are two
statements each, the second of which is `Sweep`. A password is the number it was
issued under and who thought of it, so that `OwnPassword` can speak of who knows
it. `late` marks a sign-in that had read the row before a password was set; it is
for the properties only. The failure counter stops at `MaxFails`, beyond which
no branch distinguishes it. `check_ip_rate_limit` and `record_ip_attempt` are two
calls without a lock (`deps.py` 61-75), so requests that were let in side by side
all count: `hits` ends at most at `MostHits`, the budget and one for every other
request.

### `OfficerDesk`, `DraftAssist` and `ModelClient`

`OfficerDesk` has the three tables of a search and what is read and written by
the routes that store a run, record a vote and build a draft, one step per
statement. `tx` is the transaction on the one connection: only `save_run` opens
one, and `Joins` says whether a statement of another request may fall into it
("shared transactions"). How the driver treats a commit inside such a transaction
is modelled from how the code uses it; that two searches are stored at once in
overlapping transactions is not modelled. A vote is about a reply or, without a
`doc_key`, about the search as a whole (`Targets`). `DraftAssist` holds `build_draft` after the
model's answer as operators: citations verified, empty parts moved to gaps,
unused documents flagged. A model's output is anything: parts without text that
cite, parts and gaps without a label (`""` is a label to the code, so a blank part
without one hides behind any gap without one), contradictions that cite what was
never given. The citations of parts and key points are cleaned; those of a
contradiction are not. `ModelClient` has the retry policy of each client as
a record: which outcomes are good, which are asked for again, and how often.

### `ReplyIngest`, `CrawlSelect` and `AnswerSpans`

`CrawlSelect` has the crawler's decisions as operators: which folders are
questions and which are reported instead (`Walked`, `Reported`), which folders are
one question (`QuestionId`), the candidates and the latest reply (`Key`, `Best`,
`SelectLatest`), and the organised folder (`Organised`). A name is what the
crawler's patterns find in it. `AnswerSpans` has the text as a sequence of kinds
of lines, and on it the repair and acceptance of a model's line ranges
(`Resolved`, `Accepted`), the older contract (`ProsePairs`), the splitter
(`SplitPairs`), rows of a table (`RowPairs`), and then sharing (`SameAnswer`),
grouping, the lookup of a group by label (`Found`) and the home of a table
(`Homes`). `ReplyIngest` walks one question through them: crawl, pick, read page by
page with services that may fail (what the text parser saw is kept if no page gave
anything else, and a file that could not be converted is read as the letters among
its bytes), route by layout, ask the model with retries and
re-prompts, fall back, cross-check, and build the record with its flags. Kept of
the flags are those that send a record to review. Not modelled: replies to
several question numbers at once, annexures, dates, languages.

## 4. Runs

| Run | Asks | Bounds |
|-----|------|--------|
| `queue_leases` | claims exclusive, one worker per folder, settling, the lease, whose holder alone finishes a job | 2 folders, 3 rows, one service, one drainer, 3 launches; job time = stale cutoff = 2 ticks |
| `queue_shared` | what survives services that start while others work and hard deletes; every job ends once events stop | 1 folder, 3 rows, same workers, 3 attempts |
| `watcher_calm` | done means in sync; a search changes only to what the folder holds, so a soft delete is of an absent folder | 1 folder, 3 changes, 2 undelivered events |
| `corpus_sync` | a finished job has indexed its folder or loaded a record whose answer another crawl removed; nothing newer is replaced; a search changes only to what the folder holds; quiet means in sync, and edits that stop lead to quiet | 2 documents, 2 workers of which one may die, 3 changes, 2 attempts |
| `corpus_disturbed` | `parsed.json` never lies beside files it was not made from | 2 documents with overlapping tokens, 1 worker, 2 changes, every disturbance |
| `supporting_settled` | once timers have run: what lies in the folder is offered, with tables, and what is offered has its file, but for the documents in the histories | 3 names, 2 contents, 3 timers, 3 changes |
| `uploads` | refused uploads leave nothing, nothing is overwritten unasked, what an accepted upload wrote is worked on, "done" is true | 2 requests, 2 places in 2 folders, 1 crash of the API, the watcher or both |
| `retrieval` | an outage costs no candidate, verdicts repeat, every request ends | 2 requests for one canonical query, 2 documents with a sub-question each, 1 change of the index |
| `accounts` | an administrator remains; own passwords; a new password signs out; attempts of an address exceed its budget by the requests let in side by side at most | 2 accounts, 2 sessions, 2 requests, 2 passwords per account, lock-out after 2 failures, a budget of 1 |
| `desk` | what a draft cites can be traced to the stored search, nothing vanishes from a draft, recorded votes and drafts are kept, requests end | 2 requests, 3 asks, 1 search, 1 reply, 1 attached document, 1 part, 1 key point, contradiction or gap beside it, 2 tries per call |
| `ingest` | no block lost, shared by place, one home per table, doubt is reviewed | 9 files of which 3 lie in 2 folders, texts of up to 6 lines, proposals of up to 2 parts, 2 answers per purpose, 2 tries per call |
| `watcher_lost_event` (violation) | done means in sync when the folder changes during its job | |

Two folders and three rows are enough for every pair of rows the statements
compare: a live and a finished row of one folder, and a row of another. A stale
cutoff of two ticks separates fresh, aging and stale claims; three launches
give every order of two workers' start, crash and restart. `MaxStarts` also
bounds crashes and stops, so the liveness run needs no bound on time. In
`Corpus` two documents suffice because a stage treats every document but its own
alike, and three changes let one folder change before, between and after the
stages of two jobs. One mortal worker is enough for a death beside a live one
(`corpus_disturbed` has the only worker die); a second would only let both die. An
old text that a record without an answer brings back ("hidden") takes a fourth
change, which the proofs cover and not the run. In `SupportingDocs` a rename needs a third name, and an upload
stores under its own (`Named`); three changes drop a file, upload its content and
remove it again while it is being stored. In `RetrievalGraph` two candidates and a batch of
one make a model call fail after another one succeeded; with one retriever's
SELECT per retrieval a widened search is still a second one. In `Accounts` two of
everything let any two statements of two requests meet on one account or on two.
In `OfficerDesk` one reply is enough for a run to show it, lose it and be voted on,
and one note beside one part is enough for a blank part to meet a gap of its own
label, a gap that says "attached", a key point or a contradiction.
In `ReplyIngest` three files give a question, two replies that compete, and every
combination of a reply with something that is none; two parts or two pairs share,
conflict or leave a block to nobody; a reply with a table that looks like an answer
and one that does not makes every way of assigning tables differ. In the passing run the question does not lie
among the replies, tables are those of supporting layouts and labels printed in a
text are consistent: the divergences below show what happens otherwise.

`SyncQueue!FinishedByOwner` and `WatcherSync!SoftDeleteOnlyAbsent` are in no run, since
the refinements in the same runs are stronger; they are proved (`OwnersFinish`,
`DeletedOnlyWhenAbsent`). `Corpus!ImplementsLease` is proved too (`CorpusLeases`), and
TLC confirms it with `corpus_sync.cfg` and that property.

The type invariants of `WatcherSync` and `SupportingDocs` are in no run, since the
properties that are compare their state field by field; both are proved
(`WatcherTyped`, `SupportingTypes`).

### Divergences

The violation run is a disagreement of the code with its own comment and a
finding in `PROJECT.json` with the line quoted. The modules state more properties
that the code does not have. They are not among the runs; where a configuration
is named, TLC with that file and the module's MC module shows the behaviour.

| Property | Configuration | What happens |
|----------|---------------|--------------|
| `SyncQueue!ClaimExclusive` | `queue_two_owners.cfg` | a service that starts beside a drainer takes back the row the drainer works on |
| `SyncQueue!RetryBudget` | `queue_poison_job.cfg` | a job that kills its worker is claimed without limit; `recover_stale` does not look at `attempts` |
| `Corpus!VectorOfText` | `corpus_stale_vector.cfg` | a changed text keeps the vector of the earlier one until it is embedded anew |
| `Corpus!DoneIsIndexed` | `corpus_silent_noop.cfg` | a document that fails to parse, whose token also matches another one: the job ends as done |
| `Corpus!DoneIsSuccess` | `corpus_sync.cfg` with that property | another worker's crawl removes the folder between `metadata.json` and the answer: the record without an answer is loaded and the job is done, against "A SLICE THAT INGESTED NOTHING IS A FAILURE, NOT A SUCCESS" (`watcher/sync.py` 174) |
| `Corpus!KeepsUnchanged` | `corpus_resets_parsed.cfg` | each crawl removes `parsed.json` of documents that did not change |
| `Corpus!PurgesRetiredOnly` | `corpus_purge_race.cfg` | a folder that returns before the confirmation is purged while active |
| `Corpus!GoneIsUnsearchable` | `corpus_rises.cfg` | a hard delete beside the upsert of its folder leaves the document searchable |
| `Corpus!WholeOrGone` | `corpus_half_deleted.cfg` | under autocommit the rollback of a failed purge step undoes nothing |
| `SupportingDocs!TypedDateWins` | `supporting_vintage.cfg` | the watcher stores an uploaded file once more and overwrites the typed date |
| `RetrievalGraph!VerdictOfText` | `retrieval_text.cfg` | the verdict cache is keyed by id, so a verdict on an older text is applied |
| `RetrievalGraph!AlwaysSameVerdict` | `retrieval.cfg` with that invariant | two requests side by side judge a candidate differently, or one that could not read the cache replaces a verdict |
| `SupportingDocs!OneOfferPerFile` | `supporting_settled.cfg` with that invariant | a file overwritten in place is offered as two documents |
| `SupportingDocs!VanishedIsWithdrawn` | `supporting_settled.cfg` with that invariant | a file removed while it is being stored is soft-deleted first and offered afterwards, against "A file vanished from the supporting tree -> soft-delete its row" (`supporting/ingest.py` 355-358) |
| `SupportingDocs!DuplicateIsHarmless` | `supporting_settled.cfg` with that invariant | two threads that store one content side by side both insert its tables, against "Ingestion is idempotent (sha256), so a duplicate timer firing is harmless" (`watcher/runner.py` 149-150) |
| `UploadIntake!FailedIsTrue` | `uploads.cfg` with that invariant | an old failed row shows a later upload as failed |
| `Accounts!AdminRemains` | `accounts.cfg` with `Upsets = {"overlaps"}` | two deactivations each count two administrators, and none is left |
| `Accounts!OwnPassword`, `EarlierSignedOut` | `accounts.cfg` with `Upsets = {"raises"}` | a sign-in that renews a hash made with weaker parameters writes the password it read back over one set meanwhile |
| `Accounts!WithinBudget` | `accounts.cfg` with that invariant | two sign-ins from one address are both let in on its last attempt, against "Raises 429 when an IP has burned its attempt budget" (`api/security/deps.py` 62) |
| `OfficerDesk!AckedIsKept` | `desk_lost_vote.cfg` | a vote inside another request's transaction is undone with it, after the officer was told it is recorded |
| `OfficerDesk!EveryCiteResolves` | `desk.cfg` with that invariant | the citations of a contradiction are shown as the model made them up, against "Every citation the model emits is checked" (`retrieval/generation/assist.py` 352-355) |
| `OfficerDesk!UnusedIsFlagged` | `desk.cfg` with that invariant | a gap that mentions attached documents excuses every one of them |
| `OfficerDesk!PartsPrint` | `desk_headless.cfg` | a table without columns counts as an answer and is not printed |
| `OfficerDesk!WithinRate` | `desk.cfg` with that invariant | two threads pass the throttle side by side |
| `ReplyIngest!FallbackIsReviewed` | `ingest.cfg` with that invariant | a reply split by rules is not flagged for that |
| `ReplyIngest!IdsAreUnique` | `ingest.cfg` with that invariant and `PartLabels = {2, 9}` | labels printed in the questions override unique ones, so two sub-questions carry one id |
| `ReplyIngest!TablesAreKept` | `ingest.cfg` with that invariant | a table that the model's line ranges or prose give to no part is in no answer, as is one that does not look like an answer when every part is answered by one that does |
| `ReplyIngest!QuestionIsNoReply` | `ingest_swapped.cfg` | a question file that looks less like one than its reply is taken for the reply |
| `ReplyIngest!EveryFolderSeen` | `ingest_unseen.cfg` | a question folder without a prefix beside one with a prefix is neither taken nor reported |

Where a theorem of section 5 states such a property under a hypothesis, the named
cause is the only one: `OnlyDeathsExceedBudget` for `RetryBudget`, `NothingRises`,
`PurgesTheRetired` and `DeletesWhole` for those of `Corpus`, `VerdictsAgree` for
`AlwaysSameVerdict`. `DoneIsSuccess`, `VanishedIsWithdrawn`, `DuplicateIsHarmless` and
`WithinBudget` differ from the checked `DoneIsIndexed`, `OfferedHasFile`, `TablesWhole`
and `TypeOK` only in a history or a bound that names the cause (`unread`, `late`,
`crossed`, `MostHits`), and these are proved.

**Environment constants.** `SoloStart` says services start only while no job
runs (one watcher, restarted by systemd, and no drainer beside it);
`HardDeletes` says admins delete while workers run; `CalmWhileBusy` says a
folder does not change during its own job; `Upsets` names the disturbances of
`Corpus`, of `Accounts` ("overlaps": two deactivations side by side, "raises": the
cost of a hash is raised and sign-ins renew hashes) and of `OfficerDesk` ("shared
transactions", "retirements"); `Overlaps` are token clashes in `Corpus`, `Twins` is of `SupportingDocs`, `Layers` are the optional
layers that are configured. The runs with the weak setting show what still
holds, the violation runs what does not. `corpus_sync` has no overlapping tokens
and no failing documents for the reason the row of `DoneIsIndexed` gives, and no
hard deletes for that of `GoneIsUnsearchable`.

**Fairness.** Queue (`FairSpec`): time passes; a service keeps polling
(`while not _STOP`) and is restarted (`Restart=always`); a worker that drains
claims or finds nothing; a job ends (the stages have timeouts, and an exception
is a `FailJob`). Drainers are started by hand and crashes are not fair. `Corpus`:
events are delivered, a worker takes a waiting job and goes on with it; a
failing stage, a crash, an edit or an administrator is never forced.
`RetrievalGraph` and `OfficerDesk`: a request's thread goes on, since model calls
have timeouts, and the pacing window passes.

Deadlock is not checked where a bound on changes, requests or launches lets the
model come to rest, as the system does when nobody uses it.

## 5. Proofs

A module's theorems and lemmas are in the module named after it with `Proofs`.
They hold for every value of the constants that meets the named assumptions and
the hypothesis a theorem states. Most hypotheses are needed: section 4 names the
configuration that shows what happens otherwise, or the text below says it.

### `WatcherSyncProofs`

First the queue, for any environment:

* `TypeCorrect`: types, with "a worker holds a row exactly while busy" as the
  strengthening that makes them inductive.
* `OneLiveRow`: a folder never has two live rows, with nothing assumed about when
  services start or admins delete. The only step that could revive a row, `fail`,
  is stopped by the unique index (`Conflicts`).
* `SettledBeforeClaim`: if one back-off is at least the settle window, no row is
  claimed within the window of its last event. Invariant `SettleInv`: a live row
  has been quiet for the window, or its deadline plus its quiet time reaches it;
  and a row on which `fail` can be called was tried at least once. With a settle
  window above 30 seconds the assumption fails, and so does the property.
* `ExclusiveClaims`, `OwnersFinish`, `FolderToOneWorker`: under `SoloStart` and
  jobs no longer than the stale cutoff. Invariant `LeaseInv`: a busy worker's row
  is in process, owned by it, and its claim is no older than the work on it, so
  no recovery takes it.
* `LeaseImplemented`: under the same assumptions and without hard deletes every
  step of the queue is a step of `FolderLease` or leaves the lease alone.
* `OnlyDeathsExceedBudget`: under the assumptions of the lease the retry limit of
  `fail` is the limit of the queue, unless a worker dies in the middle of a job
  (`NobodyDiesAtWork`). Invariant `BudgetInv`: a pending row is below the limit, and
  a row in process is in somebody's hands, so that a recovery finds nothing to
  release. `queue_poison_job.cfg` shows the deaths.
* `WatcherDrivesQueue`, without hypothesis: a behaviour of the watcher is a behaviour
  of the queue, so all of these hold of the watcher. It needs that an undelivered event
  names a folder and an event (`Addressed`).

Then the watcher: `WatcherTyped`, `WatchedFoldersInSync`, `DeletedOnlyWhenAbsent` and `WatcherMirrors`, all under
`Careful`: the assumptions of the lease, no hard deletes, and a folder that is
left alone during its own job (the violation run drops the last one). The
invariant builds on the queue's:

* `NoticeInv`: the last undelivered event of a folder that is gone is a delete.
* `RowInv`: so is the event of a live row of such a folder, unless a further event
  is on its way or was lost. Delivery merges events in order, so the row ends with
  the last one.
* `TaskInv`: a job knows the event of its row, and each of its stages sees the
  folder as it still is.
* `SettledInv`: what is neither open nor in work agrees with the index.

`WatcherMirrors` is the refinement of `MirroredTree`: by `TaskInv` the folder at the
store still holds what the crawl read, and at the soft delete it is still absent.

### `CorpusProofs`

* `CorpusTyped`, without hypothesis.
* `ParsesBelong`: with one worker, under every disturbance and any tokens,
  `parsed.json` was made from the files beside it. A second worker may copy
  between another one's parse and its write, which is why one is assumed.

What destroys rows goes wrong only where it meets a job of the same folder, so the
other theorems do not forbid purges and hard deletes: they are about behaviours in
which `DeletesApart` (a hard delete finds no worker on its document, and none starts
on it meanwhile) or `PurgesApart` (the same of what a purge has listed) always holds. The
configurations of section 4 show what happens where it does not. All but
`DeletesWhole` assume that a token selects one document.

* `LoadsGoForward` (`DeletesApart`): a load never replaces a text by an older one, for
  any number of workers. Invariants: a worker keeps its row (`Owned`), and what is
  parsed lies in age between what is loaded and the copy (`OrderInv`).
* `DoneJobsAreIndexed`: if moreover no folder is locked. Once a job's crawl reached
  its own folder, other crawls only remove or repeat what it needs (`FreshInv`), or
  leave a record without an answer, which `unread` marks.
* `OneWorkerReadsAll`: with one worker no document is ever `unread`, under every
  disturbance (`ReadInv`). A second worker's crawl is therefore the only cause.
* `NothingRises` (`DeletesApart`): what is gone cannot be found in a quiet system, even
  with locked folders and with deletes that fail half-way. Invariant: whatever is gone and
  still shown is noticed or has a job (`GoneInv`); a delete has hidden its document
  before it withdraws the job (`DeletedInv`). That tokens are distinct is needed: with
  overlapping tokens and a purge TLC finds a neighbour's upsert that loads a purged
  document from the copy that is still in `organized/`, and nobody is left to hide it.
* `PurgesTheRetired` (`PurgesApart`): a purge deletes soft-deleted records only. Invariant:
  what is listed stays hidden (`ListedInv`).
* `DeletesWhole`: no document is left without its questions if the second `DELETE` of a
  hard delete does not fail, with any tokens and disturbances. Invariant: a
  diary without questions is the one between the two statements (`WholeInv`).
* `QuietIsInSync` (both, no locked folders, and `FailsWhole`: a delete that fails has
  deleted nothing): what nobody has to work on is in sync or `unread` (`SyncInv`), for
  which it combines the invariants above.
* `CorpusMirrors` (`PurgesApart`, no locked folders, no hard deletes): what a load, a
  reactivation or a soft delete changes for a search is what the folder holds then,
  although it was read, copied and parsed steps earlier and beside other workers. The
  hypothesis is what it takes: with `corpus_sync.cfg` and `Upsets` set to `{"locks"}`,
  `{"purges"}` or `{"deletes"}`, or with overlapping tokens, TLC finds a search that
  shows something the folder does not hold, or hides a folder that is there.
* `CorpusLeases`: while nobody deletes by hand, the jobs of `Corpus` are a
  `FolderLease`, the specification that `LeaseImplemented` shows of the queue. What
  `Corpus` takes for granted of its queue is therefore what `SyncQueue` delivers, with
  a death and the recovery of its claim in one step.

### `SupportingDocsProofs`

The proofs are about three kinds of steps, whatever the operation: the folder
changes and threads are armed for it (`Change`), a thread goes on (`Advance`), a row
is stored (`Stores`). Nothing is assumed about what runs side by side.

* `SupportingTypes`: the types. That nobody stores a content of no file is part of
  what makes them inductive (`BusyHasFile`).
* `ReturnedFilesAreStoredLast`: a delete timer of a file that is back is followed by
  an upsert of it (`UpsertsLast`), since the settle time exceeds the second a delete
  waits, although the unlocked pop may lose either timer.
* `OfferedDocumentsHaveFiles`. Invariant `FolderInv`, part `HasFile`: an active document
  has its file, a delete of it waits, a process died with the event, or it is `late`.
  A delete that waits withdraws the document, unless the file is back, when by
  `UpsertsLast` an upsert follows it.
* `DocumentsHaveTheirTables`. Invariant `TableInv`: a document outside `crossed` has one
  thread at most that stores it (`Single`), no tables between the removal and the
  insert (`Cleared`), and otherwise its table once or a thread that will make it
  (`Whole`). `crossed` is left by a store that overlaps with no other.
* `DroppedFilesAreOffered`: if a content lies in the folder once (`~Twins`).
  Invariant `OfferInv`: a file is pending, offered, in the hands of a rename, retired
  or its document `late` (`Offers`). With twins (`supporting_settled.cfg` with
  `Twins = TRUE`) a file whose twin is deleted is no longer offered.

### `UploadIntakeProofs`

`UploadsTyped`, `RefusedOwnNothing`, `ReplacesOnlyIfAsked`, `ShownDoneIsIndexed` and
`WrittenStaysHandled`, without hypothesis. From its commit to its answer a request
has the event loop for itself (`OneWrites`), so what the collision check found still
holds when a file is moved (`MovesAreClear`), and only a request that passed every
check owns a file (`OwnersCommitted`). `WrittenStaysHandled` rests on `WaitsOrLost`: a
file that no job has read has a live row, an event, or an event that died with the
watcher; and an accepted upload enqueued each of its folders before its answer, so
only files of requests that got none, or were refused by a failing move, can be
among the last.

### `RetrievalGraphProofs`

`GraphTyped`, `VerdictsRepeat` and `AnswersAreWhole`, without hypothesis. `Sound` is
about one request: judged and unjudged candidates partition what passed the
filter. `Cross` is about the cache and two requests: what one judged is cached, or a
later verdict replaced it.

`VerdictsAgree` proves `AlwaysSameVerdict` under two hypotheses: no two requests for
one canonical query judge the same candidate side by side (`[]JudgeApart`), and the
SELECT of the cached verdicts does not fail (`[][LooksUp]_vars`). `ApartInv` adds to
the invariant that no verdict was replaced and that what a request judges or has
still to store is not in the cache. TLC finds the statement violated when either
hypothesis is dropped; for the second one it takes three requests, of which the one
that could not read the cache replaces what another one stored.

### `AccountsProofs`

* `AccountsTyped`, without hypothesis. Its part on `hits` counts the requests between
  `CheckAddress` and `Attempt`: together with the attempts made they stay within
  `MostHits`.
* `AdminStays`: if deactivations do not overlap. `AdminInv`: at most one is under
  way, and while it is, another active administrator stays.
* `OwnedPasswords` (`RowsOwned`) and `ChangedPasswordsSignOut` (`PassInv`): if the cost
  of a hash is not raised. A session of an earlier password is swept, was the one
  that asked, or belongs to a sign-in that had read the row before.

### `OfficerDeskProofs`

* `CitationsResolve`, without hypothesis. That a citation was given to the model is a
  matter of `DraftAssist`; that it can still be traced when the draft is out is one of
  the tables. `TraceInv`: a reply a request has loaded is in the stored search or was
  purged, through rollbacks of the search, retirements, purges and a second draft of
  the same search.
* `NothingIsLost`, without hypothesis: the gaps are added after the empty parts left,
  so what a removed part cited is flagged (the mutant swaps the two), and no
  statement changes a finished draft.
* `VotesAreKept`: if statements of other requests do not fall into an open
  transaction. `TransactionInv`: what a rollback would restore has the same votes
  and drafts as the tables have, so no rollback can lose one.

### `ReplyIngestProofs`

`IngestInvariant`: the text read is a sequence of lines (`DocInv`), and while the
pairs come from a model's line ranges they hold every answer block, each with the
words of its place (`LocatedInv`). On it rest

* `BlocksAreKept` and `PlaceDecides`, for records whose labels are unique
  (`IdsAreUnique`; otherwise a group is found under the wrong label);
* `TablesHaveOneHome`, without hypothesis. Each of the six ways to pairs gives
  finitely many pairs that begin at different lines (`WellPlaced`); so one pair is the
  first to have a table, and one group has that pair (`PlacedOnce`), or the last of the
  groups is dealt it (`DealtOnce`). `HomeInv` adds which tables the parts of a line-range
  answer have: all, where the model named them all, otherwise those that look like an
  answer, or all where none does;
* `DoubtsAreReviewed`: if the crawler takes no question for a reply (`TellsReplies`;
  `ingest_swapped.cfg` shows a question that is taken for one and passes without
  review). `DoubtInv`: from the crawl on, every doubt is covered by a flag that
  triggers a review, and flags are only added. A pair without words is in a group
  without words (`EmptyIsLowConfidence`), which is flagged.

### What the proofs rest on

Assumed are the named assumptions on the constants (`QueueAssumption`,
`WatcherAssumption`, `CorpusAssumption`, `UploadAssumption`, `RetrievalAssumption`,
`AccountsAssumption`, `DeskAssumption`, `DraftAssumption`, `ModelClientAssumption`,
`IngestAssumption`, `CrawlAssumption`, `LetterAssumption`, `SupportingAssumption`), which TLC evaluates in
the runs, and each theorem's hypothesis.

Only model-checked: `EventuallyDrained`, `EventuallyRests`, `EveryQueryEnds` and
`EveryRequestEnds`, because liveness under fairness is beyond the prover.

## 6. Not modelled

`PROJECT.json` lists each part with its status and reason. Nothing of these parts
is modelled:

* The orchestrator: stages in order, stopped by the first exit code. Nothing runs
  beside them that `Corpus` does not have.
* The entity dictionary: an offline batch in which the similarity of strings and
  a person's review decide. Both would be free choices.
* Migrations: files applied in order, once, by one operator.
* Tracing and logging: best-effort observation, which no other part reads.
* Application, configuration, command line, experiments, scripts, deployment:
  wiring, validation of settings, measurements.

Of parts that are modelled, this is left out or a free choice:

* Recognition of text, tables, layouts, dates and languages; which words a file or
  folder name holds; which names and contents the upload guard refuses; the score
  of a candidate. These are data, and what the code does with any result of them
  is modelled.
* Replies to several question numbers at once, annexures, and flags that do not
  send a record to review.
* The crawler's manifest and dry run, answer embeddings, the date back-fill and the
  restore of `parsed.json`.
* The optional draft node of the query graph, the wording of prompts and of
  exported documents.
* The tables `workers` and `sync_log` and the audit rows of accounts, which only
  report.
* Creating a category of supporting documents and serving its files.
