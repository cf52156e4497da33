# Verification of the new-multi-rag platform

TLA+ models of the stateful parts of the repository, TLC configurations that
check them on small instances, and TLAPS proofs of what matters most for
instances of every size. Paths are relative to the repository's root; `WS` is
`src/web-scrapper-workspace`, `IB` is
`src/ingestion-workspace/ingestion-backend`, `RA` is `src/rag-app-workspace`,
`PC` is `src/shared-libs/platform-common/src/platform_common`.

## 1. The system

Three applications share one library. The **web scrapper** crawls sites and
indexes their pages; the **ingestion** backend manages uploaded files and indexes
them through pipelines; the **RAG** app answers questions from the indexes and
measures its answers. Each has an HTTP API, PostgreSQL rows, a Redis queue and
worker processes; vectors go to Qdrant, content to a file system.

### Inventory

| component | state it keeps | operations | talks to |
|---|---|---|---|
| scrape job fan-out and fan-in (`WS/apps/worker/src/worker/tasks.py`, `WS/libs/shared/.../scrape_coordinator.py`, `WS/libs/scrapper-core/.../core`) | row `scrape_jobs`; Redis `total`, `completed`, `finalize_scheduled`, `result:<i>`; files and vectors of the pages | orchestrate, scrape a page (with retries), count it, elect the last, finalize | RQ, Redis, Qdrant, disk, the links API |
| crawl and scrape rows, API and reuse (`WS/apps/api`, `crawl_service.py`, the repositories) | rows `crawl_jobs`, `crawl_results`, `scrape_jobs`; `links.jsonl` | `POST /crawls`, `/scrapes`, `/pipelines/crawl-scrape`; the crawl task, the combined task | RQ; one request reuses another's crawl |
| crawl engine (`WS/libs/crawler-core/src/web_crawler/core`) | frontier, visited set, batch, list of links | collect, fetch in parallel, process results, return | HTTP or a browser |
| text splitting (`WS/libs/scrapper-core/.../text_splitter.py`, its copy in `IB`) | none between calls | split a text into chunks | page tasks and the indexer |
| page extraction, embedding (`WS/libs/scrapper-core`, `PC/embeddings`) | none between calls | calls of services | browser, embedding service |
| file manager: file operations (`IB/src/file_manager`) | rows `files`, `jobs`; the files on disk | upload, append, rename, delete; duplicate records | FIFO queue to one worker |
| file manager: upload sessions (`IB/src/file_manager/core/chunks.py`, `service.py`) | row `chunk_uploads`; a directory of chunk files | save a chunk, complete | creates the file manager's jobs |
| ingestion pipelines (`IB/src/ingestion_service`) | rows `pipelines`, `pipeline_runs`, `indexed_files`; Qdrant points | change directories, manual run, queued sync, cron sync | the same worker's event loop, Qdrant, the web scrapper |
| Qdrant collections (`PC/vector/qdrant_store.py`) | collections | ensure, upsert, delete | Qdrant |
| RAG chat and its metrics (`RA/apps/rag-api`, `RA/apps/eval-worker`) | sessions, messages, traces, metrics | chat, compute the metrics of an answer | RQ, models |
| RAG evaluation (the same, `evaluation_repository.py`) | golden datasets, runs and their items | import with replace, create a run, run it | RQ, models |
| retrieval, reranking, generation, metrics (`RA/libs`) | none between questions | search, rerank, generate, score an item | Qdrant, LiteLLM |
| authentication, SSRF guard, settings (`PC`) | none | filters | - |
| frontend, proxy, containers, migrations | UI and deployment | - | - |

### What is hard

* **Fan-in by counters.** Page tasks of several worker processes share a Redis
  counter; each executes INCR and then, in a second command, reads the total. The
  last one schedules the finalize task, which deletes the keys the others may
  still be reading, one key at a time. A page that fails is enqueued again as a
  new task. Any task can die between two commands, and RQ does not run it again.
* **Rows against files.** A crawl is COMPLETED, and can be reused, before its links
  are in the file that a scrape reads. A request decides from rows that workers
  are changing, commits, and only then enqueues.
* **Completion order.** Pages are fetched in parallel batches and handled as they
  complete; bounds, de-duplication and depths must hold in every order.
* **Read, commit, enqueue** in each handler of the file manager, with a worker that
  repeats some of the checks and not others; no transaction spans row and disk.
* **Two ways to sync** a pipeline, only one of which asks whether a sync is under
  way, on one event loop, while files and the pipeline's directories change.
* **Shared temporary files.** Chunks are sent again, several at a time, and a completion
  may run next to a chunk request or another completion on the same directory.
* **Enqueue before commit.** The chat request gives its metrics task to a worker before
  the rows it is about are visible; a run's task has three nested ways to fail.
* **Bookkeeping next to data.** The splitters count lengths beside the strings they
  build; the reranker's scores are applied by index, with a default for the missing.

`PROJECT.json` lists the hazards one by one, at their lines, with the properties
that would catch them.

### What makes each component correct

* scrape job: the fan-in is never early; it loses no page; every page reported is
  indexed; the job ends unless something crashed; one finalize task.
* rows and reuse: every row settles; a scrape covers its crawl; what is skipped is
  indexed; reusing a crawl never makes a scrape fail.
* engine: `max_pages` and `max_depth` hold in every order; every page is fetched
  once; depths are real; with one worker the crawl is breadth-first and complete.
* file manager: a quiescent SYNCED row describes what is on disk; an append is
  applied once; a deleted file leaves nothing; a duplicate is never stored.
* pipelines: the index holds what the records say; after a sync it is what the files
  are; no run blocks the pipeline for ever.
* upload sessions: what a job is created for is the declared content, once, and an
  acknowledged chunk is kept.
* RAG jobs: metrics and runs do not stay pending; a dataset is not taken from under a
  run; a completed run has dealt with its dataset.
* algorithms: chunks are bounded and lose no text; a reranked list is the best of what
  was retrieved, in the order of its scores; an answer says where it comes from; the
  metrics of an item agree.

## 2. Plan

Built, in this order (the most important behaviour first):

1. `ScrapeBarrier`, the abstract promise of a scrape job, and `ScrapeJob`, which
   implements it; `ScrapeJobProofs`.
2. `CrawlPipeline`: rows, reuse and links file around the scrape job, which is a
   few steps here (`FanOut`, `FinishScrape`); `CrawlPipelineProofs`.
3. `CrawlTree`, the abstract promise of a crawl, and `CrawlEngine`, which implements it: the
   crawl that `CrawlPipeline` takes as one step; `CrawlEngineProofs`.
4. `FileManager`: file rows, jobs and the disk; `FileManagerProofs`.
5. `SyncRunner`: pipelines over the files, which change here as `FileManager` has it,
   one job of a file at a time; changes of the pipeline's directories; `SyncRunnerProofs`.
6. `UploadSession`: the chunks and completions that precede `FileManager`'s upload
   and append jobs; `UploadSessionProofs`.
7. `RagJobs`: chat, metrics, datasets and evaluation runs around one queue;
   `RagJobsProofs`.
8. `TextSplitter` and `RagPipeline`: the two sequential algorithms, the second of which
   is one step (`EvaluateItem`, `Answer`) of `RagJobs`; `AlgorithmProofs`, about both.

Next, in order:

1. Abstract specifications for the file manager (a file that is created, changed and
   deleted atomically) and for the index of a pipeline (a set of files that syncs
   change), which `FileManager` and `SyncRunner` implement outside the histories
   their properties except.
2. Several scrape jobs over the workers of one queue.

None of the modules declares a RECURSIVE operator.

## 3. Modules and code

Every definition is mapped to its lines in `PROJECT.json`. A step is what one process
does between two points at which another can act on the same state: a Redis command,
a commit, a query, an await that matters.

**ScrapeJob** (`WS/apps/worker/src/worker/tasks.py:117-283`, `scrape_coordinator.py`,
`finalize.py`). `total`, `completed`, `scheduled` and `stored` are the four kinds of
Redis keys; `orch`, `pc[p]` and `fin[f]` are the places of the orchestrator, of page
p's current task and of the finalize tasks; `idle` counts free workers. `mark_page_finished`
is two steps (`IncrCompleted`, `ReadTotal`), `try_schedule_finalize` and the enqueue
two more, `cleanup_scrape_job` four deletes, in the order of the code. Histories: `outcome`,
`counted`. A page is abstracted to whether it succeeds, has vectors, has files.

**ScrapeBarrier** knows the row, how each page was resolved, and what is published.
`ScrapeJob` implements it under `published <- artifacts` and equal names.

**CrawlPipeline** (`apps/api/src/api/main.py`, `crawl_service.py`, the repositories,
`links_file.py`, `crawl_links.py`). A request is a crawl, a scrape or a combined
pipeline; the decision from existing rows, the commit and the enqueue are three steps,
with a crash possible between them; the crawl task commits its result and COMPLETED and
only then writes `links.jsonl`.

**CrawlEngine** (`engine.py`, `frontier.py`, `link_extractor.py`). The frontier is a
sequence, a batch is taken from its head at once, its pages are fetched in any order and their
results handled in any order, as are the links of a page. `Sites` gives the link graph; a
fetch may fail.

**CrawlTree** knows no frontier, batch or worker: pages join one tree, each along a link of a
page that joined before it and could be read, and a crawl returns when the tree has `max_pages`
pages or no link is left to follow. `CrawlEngine` implements it under
`pages <- ` the elements of `discovered` and `outcome <- ` the end of `phase` (`TreeSpec`).

**FileManager** (`IB/src/file_manager`, `IB/apps/api/routes/files.py`, `IB/apps/worker`).
Each request has a handler (read; commit; push) and at most one job; the worker takes a
job, loads the row, changes the disk, commits, cleans up. `seen` and `loaded` are the
ORM snapshots of the two sessions: an attribute set to the value that was loaded is not
in the UPDATE (`Flushed`), which decides what a row says after two sessions met.

**SyncRunner** (`IB/src/ingestion_service/core/sync_runner.py`, `pipeline_runner.py`,
`indexer.py`). `records[f][t]` and `points[f][t]` are the `indexed_files` row and the
Qdrant points made for file f by task t (point ids contain the run id, so re-indexing
does not overwrite). `dirs` is what `PATCH /pipelines/{id}` sets, `folders[t]` what a
task read when it started. A task reads, compares, and then works through new, changed and
removed files: delete, upsert and commit are steps of their own. The worker loop runs
one task or file job at a time; the cron's sync runs beside it, and reads the pipeline
twice (`Tick`, `CronStart`). `Valid` is `validate_pipeline_config`. The switch and the
seed URL of the web scraper are no variable: `PATCH` may change them at any time, so they
are open when a task starts. A pipeline that is no longer valid is refused (`Refuse`): a
manual run FAILED, a sync raises before it has a row. A manual run with the scraper
enabled crawls before it reads (`Crawl`, `ScraperFails`).

**UploadSession** (`chunks.py`, `service.py`, `IB/apps/api/routes/uploads.py`,
`IB/src/shared/io/async_files.py`). `savePhase` and `phase` are the places of the chunk and
completion requests, each with its own ORM snapshot (`saved[s].seen`); the stitched file is
an object of its own under one path (`stitched`, `data`), so that a completion that
reopens, moves or unlinks it acts on what another one holds open. `Abandon` is the except
clause of `complete_chunk_upload`. Content is declared, short, or other of the same length.
`matching` are the jobs whose file `find_duplicate_in_directory` finds: PROCESSING or SYNCED
with the declared hash. `FileLeaves` and `FileReturns` are what later jobs and requests do
to such a file, and files of other sessions may match too, at any look.

**RagJobs** (`RA/apps/rag-api/.../chat.py`, `evaluate.py`, `RA/apps/eval-worker/.../tasks.py`,
the two repositories). `chat`, `importer` and `request` are the places of the three kinds of
request, `work[w]` what a worker has in hand; `metrics`, `dataset`, `run` and `item` are
committed rows. `Refused` is what the unique name and the foreign keys of the database
refuse. The three try blocks of `run_evaluation` are `SaveRaises` (inner), `LoopRaises`
(outer) and `JobDies` (none). Histories: `early`, `lost`.

**TextSplitter** (the two `text_splitter.py`, one algorithm). A text is the lengths of its
words, a chunk the list of pieces that are joined and the length of the result; the
counters `current_length`, `sub_len` and `overlap_len` are the code's.

**RagPipeline** (`rag_core/pipeline.py`, `vector_core/search.py`, `litellm_reranker.py`,
`generator.py`, `eval_core/`). One question: a search result, the reranker's reply (its
shape, its indices, its scores), the models' answers, and hit, recall, precision, mrr, ndcg
and Kendall's tau as the sets, counts and fractions they are computed from, with the code's
answers where there is nothing to divide by: ndcg is 0.0 when no chunk is relevant, tau None for
fewer than two shared chunks. `Gain` stands for the
code's `1 / log2(rank + 1)`: positive integers that fall with the rank, which is what the
comparisons of the metrics depend on.

MC modules hold what a .cfg cannot write: symmetry, link graphs, contents, texts.
`MCAlgorithms` puts the two algorithms side by side in one run.

## 4. Runs

| run | instance | shows |
|---|---|---|
| `scrape_job` | 0-3 pages, 1 or 2 workers, 1 retry, 1 crash or error | the fan-in is never early, loses nothing and ends; refinement of `ScrapeBarrier`; with one worker one finalize task and an exact `pages_scraped` |
| `scrape_once` (violated) | 2 pages, 2 workers, no faults | two pages both schedule the finalize task |
| `crawl` | 3 requests, at most 2 crawls, 1 worker, 1 crash | reuse, coverage and skipping are right; every row settles |
| `crawl_engine` | all sites of 4 pages and an offsite one, 1-3 fetch workers, depth 1-2, 3 or 5 pages | bounds, depths, end; refinement of `CrawlTree` (each page once, no link left out); one worker is breadth-first and complete |
| `files` | 2 uploads, 2 appends, renames or deletes, 1 fault | settled rows match the disk; appends once; nothing left; nothing stays PROCESSING |
| `files_copies` (violated) | 2 uploads of one content | both are stored |
| `sync_runner` | 2 files, 1 manual run, 1 queued sync, 1 cron sync, 1 file operation or change of directories, 1 fault | index and records agree; a sync reconciles; no run blocks the pipeline |
| `sync_twins` (violated) | 2 files with one content, 1 manual run | both are indexed, the second record is refused |
| `uploads` | 2 chunks, 3 chunk requests with any index and content, 2 completions, 1 crash | what is created is the declared content, once; acknowledged chunks are kept |
| `rag_jobs` | 1 chat, 2 imports, 1 run of 2 questions, 2 workers, 2 faults | datasets are kept, completed runs are whole, jobs settle |
| `rag_pending` (violated) | 1 chat, 1 worker, no faults | the metrics stay pending |
| `algorithms` | texts of 1-4 tokens of 9 shapes, chunk size 4, overlaps 0, 3 and 6; up to 3 of 5 points, 3 scores, top_k 1, 2 and 5, metrics at 1, 2 and 5 | chunks are bounded and keep the text; reranking, answers and metrics are right |

Bounds. Three pages are the least for which one is first, one between and one last
while a fourth task (finalize) runs; two workers meet wherever more would, because each
hazard is between two commands of two tasks. Three requests are one that makes a
crawl, one that makes another or reuses it, and one that decides while the second is under
way (it makes no third crawl). Four
linked pages have every diamond, cycle and short cut of depth two. Two changes of one file meet
each other and the upload; a third only repeats a meeting. One fault at every
point shows every half-done step; what a second would add is a fault during a recovery,
and the code recovers in one place only (`mark_job_failed`). In `sync_runner` files may
be uploaded before the pipeline begins, so that the one operation can be a change or a
removal of an indexed file, and a change of directories can remove one or all.
Contents, like the request names of `uploads`, are only compared; the two that one file
may have are symmetric.
Three chunk requests are one for each chunk and one that sends a chunk again, with the
same or other data; two completions are an answer that was lost or refused and the
client's second try. Two imports of a name, one of which may replace the other, meet every
step of one run; two faults of a worker are an error and the error of its handler. Tokens of
9 shapes are those shorter than, as long as and longer than a chunk, with and without
double spaces and words that do not fit; four of them fill a chunk, overlap into the next, and
meet a sliced one on both sides. Three chunks have every order and every set of ties.

CHECK_DEADLOCK is FALSE everywhere: each system stops when its requests are done.

**Fairness.** `JobCompletes`, `RowsSettle`, `CrawlEnds`, `FilesSettle` and `JobsSettle` assume weak
fairness of each task that a worker has in hand or in its queue (rq workers and the
worker loop never stop polling, and FIFO queues reach each task) and of each handler
between its request and its answer. No client has to make a request, no fault has to
happen, and each of the five (but `CrawlEnds`, which has none) exempts what a crash
hit, because the code has no recovery from a crash: the row stays. `JobsSettle` exempts just the
jobs that died, and the two ways in which the code leaves a row without any crash:
a mode that `SearchMode` refuses, and metrics computed before their commit.

**Exceptions stated in properties.** `SyncedMatchesDisk` and its companions except
files a job of which failed after changing the disk (an append that is rejected as a duplicate has
already been appended, `operations.py:56`). `PointsAreRecorded` and `ActiveRunsMove`
except files that two tasks had in hand at once, that changed on disk between the query
and the indexing, that a manual run indexed a second time, or at which something
failed; in each the code does set record and points apart. Dropping an exception
makes TLC show how. `CreatedIsWhole` is for completions of a session that
are answered one after the other: two at the same time share the stitched file, and the
second can truncate what the first has moved to staging. `CreatedOnce` allows, after a crash, a
second append, and a second upload of a file that `find_duplicate_in_directory` no longer
finds (FAILED, DELETED, or with another hash); `AckedChunkKept` allows a lost index when
chunk requests overlap.

## 5. What disagrees

1. `scrape_once`: the finalize task is not "once only" (`scrape_coordinator.py:61`). The
   clean-up of the first finalize deletes `total` before a slow page compares its count
   with it: that page reads 0, elects itself, and when `finalize_scheduled` is deleted
   too, its SET NX succeeds and a second finalize is enqueued. No retry is needed.
2. `files_copies`: two uploads of one content can both be stored
   (`src/ingestion-workspace/README.md:70`).
3. `sync_twins`: a manual run indexes two files of one content, and the refused record
   leaves the run PROCESSING and the pipeline blocked (`pipeline_runner.py:65`).
4. `rag_pending`: metrics that are to be filled after the response stay pending when a
   worker is quicker than the commit (`rag-platform-plan.md:196`, `chat.py:204`).

Seen while modelling, without a run of its own:

* `src/CODE_ANALYSIS.md:27-29` lists as unfixed: B4, retries of a page never run because
  `process_scrape_page` swallows exceptions; B5, a scrape with 0 links never schedules
  finalize and stays RUNNING; B6, a manual pipeline run hangs because its child process
  never sets it RUNNING. The code does otherwise: `page_task.py:215-218` re-raises and
  `tasks.py:209-220` enqueues the retry, `tasks.py:146-148` enqueues finalize at once when
  no page task will run, and a manual run has no child process and sets its own row
  (`pipeline_runner.py`). `JobCompletes` (with 0 links and with retries in its bounds) and
  `ActiveRunsMove` hold because of that; they would not of the code the document describes.
* A crawl is COMPLETED before its links file is written, where `PROJECT_EXPLAINED.md:259-261`
  has the opposite order; `CrawlPipeline` has the code's, and what depends on it holds.
* With two fetch workers or more the traversal is not breadth-first (`engine.py:38`): a page can
  be recorded at a greater depth than its shortest path, and not be expanded.
* A failed completion of an upload removes the chunk files and keeps the session's row; a
  second try is told that chunk files are missing.
* A rerank reply that leaves a document out ranks it, at 0, before documents with negative
  logits; a fusion that answers "" discards two partial answers that said something; an
  image chunk without data makes the answer "no sources".
* An import that loses a race, or whose dataset has a run, is answered 500, not 409. A run whose
  mode is not a `SearchMode` stays running.
* A pipeline whose directories are all removed keeps its points: the cron passes it over
  and a sync is refused.

And left as the exceptions of section 4: a deleted file's row can become
PROCESSING, FAILED or SYNCED again when a handler with an older snapshot commits after
the delete; a file can be SYNCED while a job is pending for it; a failing clean-up of
staging turns a success into FAILED; a rename during a cron sync yields a record
without points, which no later sync repairs; a cron sync and a queued sync that both
index a new file leave the second run PROCESSING, because its record is refused.

## 6. Proofs

`ScrapeJobProofs` proves for every number of pages, workers, retries and faults, from
`ConstantsAssumption` only (all four are naturals, at least one worker):

* `TypeCorrect`: `Spec => []TypeOK`.
* `InductiveInvariant`: `Spec => []IInv`.
* `NeverPremature`, `NeverLost`, `ReportedPagesIndexed`: three safety invariants of
  run `scrape_job`; the fourth, `OneWorkerExact`, is below.
* `ImplementsBarrier`: `Spec => Barrier!Spec`.

None of these three is inductive. `IInv` (in `ScrapeJob`) is the conjunction of

* `PageInv`: what each place of a page task says of its history (counted pages have an
  outcome, stored results have one, pages beyond `links` never exist);
* `FanOutInv`: which pages the orchestrator has enqueued at each of its places;
* `CounterInv`: the Redis keys are unborn, or `total` is the number of links and `completed` the number
  of counted pages, or they are being deleted, and then every page is
  counted and every success on disk. This is the heart: a page that compares its INCR
  with `total` may compare it with 0, after the deletion, and is then right for another
  reason;
* `ElectionInv`: whoever believes to be the last is right to the extent that all
  pages are counted (not that it is the only one, which is false);
* `FilesInv`: what a finalize task holds, and that results are deleted only after the
  files are there - also when two finalize tasks run;
* `VectorInv`: a result that says success follows the upsert.

Each part has a lemma that a step preserves it, one case per action that can disturb
it; `Frame`, `PageMoves`, `CounterFrame` and `Stable` say what the others leave alone.
`LastIsLast` turns the comparison of two numbers into "all pages are counted", by the
cardinality theorems of finite sets. The refinement needs, beside `IInv`, that a job
whose pages or finalize tasks exist is not pending any more (`StartedInv`).

`OneWorkerIsExact`, `Spec => []OneWorkerExact`, has an invariant of its own (`OneInv`). With one
worker no two pages are at `counted` or `elected` together, so one finalize task is
queued (`OnceInv`), and it has loaded every result when it deletes any (`ExactInv`); that the
number of workers, idle and busy, never changes is proved on the way (`WorkersKept`).

`CrawlPipelineProofs` proves, for any number of requests, links, workers and faults, from
`PipelineAssumption` (the requests are finitely many):

* `PipelineInvariant`: `Spec => []IInv`, and `ScrapesHaveResults`: `Spec => []ScrapeHasResult`.
* `ScrapesCoverCrawls`, `SkippedAreIndexed` and `ScrapesFailWithTheirCrawls`, the three
  properties of run `crawl` that need `NumWorkers = 1`, their hypothesis. It is
  what is deployed (`docker-compose.yaml:69`, `run-worker.sh:5`: one rq process); with two, a scrape
  that reuses a crawl may read `links.jsonl` before the crawl's task has written it.

`IInv` follows a request in order: rows are committed after the decision and tasks queued
after the rows (`Ordered`), a result is there once a crawl's task has gone beyond the
commit (`Crawls`), a scrape is of a crawl that has one (`Scrapes`), and behind each flag and each
"skipped" there is a completed scrape (`Evident`). With one worker it adds that a task that
runs is alone (`OneWorker`), hence that the task of a crawl has ended, its file written or
lost to a crash, when a scrape of it counts its pages (`Covered`), and, without faults, which
rows failed and why (`Faultless`). That `find_completed_by_config` returns a crawl if there is
one is a lemma (`Latest`), by the least element of a set of naturals.

`CrawlEngineProofs` proves, for all sites, limits and numbers of workers, from
`EngineAssumption` (a page has finitely many links):

* `EngineInvariant`: `Spec => []IInv`, and `EngineTypes`: `Spec => []TypeOK`.
* `PagesAreLimited`, `DepthsAreOfPaths`, `OneWorkerIsBreadthFirst` and `OneWorkerIsComplete`:
  the safety invariants of run `crawl_engine`; and `PagesAreFetchedOnce`: no URL is fetched
  or listed twice.
* `ImplementsTree`: `Spec => TreeSpec`, the refinement of `CrawlTree`.

A URL that was visited is in one place only, the batch, the results or the list
(`Distinct`, `Seen`), so that cardinalities of the three add up to the pages that count against the
limit (`Counted`). Each item has a path that is in the list before it (`AllReal`). With
one worker the frontier is sorted by depth, at most one apart (`BreadthOrder`), which gives the
distance, and every link of an expanded page is visited or waits (`LinksKept`, `Found`), which gives
completeness. `Within`, the pages a number of clicks away, is a recursive function; its equation
is derived from the well-founded order of the naturals.

For the refinement, every item that waits anywhere already has its place in the tree (`TreeInv`);
it keeps it, because the list only grows (`GrownStays`). `CollectBatch` and `Fetch` are
stutters, `ProcessResult` joins a page (`ProcessJoins`), and a return with an empty
frontier has followed every link, because `LinksKept` leaves a link nowhere else to be
(`ReturnsWhole`). Unlike `OneWorkerIsComplete` this holds for any number of workers
and with pages that fail: what completion order can change is the place of a page in the
tree, hence whether its links are still within `max_depth`, and not whether they are followed.

`FileManagerProofs` proves, for any number of uploads, changes and faults, from
`FileManagerAssumption` (requests are finitely many, uploads are not changes, a content is not
empty):

* `FileInvariant`: `Spec => []FileInv`, and `FileTypes`: `Spec => []TypeOK`.
* `SyncedIsTrue`, `AppendsAreKept` and `DeletedIsGone`: the safety invariants of run `files`.

Two ORM snapshots stand between a row and what was done to it, so the invariant is about
what may differ: a request is in the Redis list once and with the right job status
(`QueueInv`), a handler's `seen` is of a row that exists (`HandlerInv`), and the row is what
the worker loaded or PROCESSING until it commits (`LoadedInv`), so that `Flushed` drops an
attribute only when it is there already. `RowInv` then says of each file that no fault
has torn and no failed job abandoned: between jobs its path holds what the row's hash
says and its other names hold nothing (`AtRest`), and in a job the disk is ahead by what that
job does at that step (`MidJob`). The hash is the upload and each append that succeeded.

`SyncRunnerProofs` proves, for any number of files, runs, syncs, cron firings, edits and faults,
from `SyncAssumption` (types and bounds of the constants; `None` is no file, task or content):

* `TypeCorrect`: `Spec => []TypeOK`, and `Inductive`: `Spec => []TInv`, of any files.
* `Invariant`: `Spec => []IInv`, and from it `PointsRecorded`, `Reconciles` and `RowsMove`,
  the safety invariants of run `sync_runner`, under the hypothesis `OwnContent`: no content is that
  of two files. Run `sync_runner` has such files. Without the hypothesis the code does
  otherwise, because it compares contents where it means files: of two files with one
  content one may be passed over, or its record refused (run `sync_twins`).

`TInv` says which task the loop and the cron have in hand (`Scheduled`), that
an item of work is of its task's stage, and that records, points and items of a
file are of contents it has had (`DbOK`, `ItemsOK`). `IInv` then follows each file that is not
suspect, the histories that section 4 excepts: it has one record, is in one place of all
that is still to do, and the item fits the record (`Single`, `Fits`); its points are those of its
record, or those of the step that its task has come to between delete, upsert
and commit (`Matched`, `Halfway`). A sync that is `fresh` (nothing changed under it) is
alone, and what it has still to do is all that separates records from files
(`FreshOK`, `Remaining`); when nothing is left they are the same, which is `SyncReconciles`. `Rows`
relates a row to what has become of its task; a sync that has not started has none.

`UploadSessionProofs` proves, for any number of chunks, chunk requests, completions and
crashes:

* `SessionInvariant`: `Spec => []IInv`.
* `ChunksAreKept`, `JobsAreWhole` and `OneJob`: the invariants of run `uploads`.

`IInv` adds to types where acknowledged chunks are (`OnDisk`), what requests in flight loaded
as long as they did not overlap (`Recorded`, `Alone`), which completion's stitched file the path
names and which were moved (`Objects`), and, for completions one at a time, what each place has verified
(`Whole`) and when a second job is possible (`Once`): without a crash a completion that could
make it cannot have begun; after one, a completion that is about to make an upload's second
job has looked when no earlier file matched, so that each of them is in `left`.

`AlgorithmProofs` proves, for every text, size and overlap, from `SplitterAssumption`
(sizes and overlaps are naturals, a text is a sequence of tokens, no word is longer than
its token):

* `SplitInvariant`: `SplitSpec => []IInv`.
* `ChunksBounded`: `SplitSpec => []ChunkBound`.
* `TextIsKept`: `SplitSpec => []TextKept`.

`ChunkBound` speaks of finished chunks only. `IInv` adds that the chunk and the slice in the making
are bounded and no longer than their counters (`Counted`), that the overlap's counter is a
space ahead of its string and at most `chunk_overlap` (`OverlapCounted`), what the
outer loops' guards say in the inner ones (`Inside`), and types (`Texture`).
Lists of pieces are built and taken apart at their ends only, so lemmas on `Add`, `Insert` and
`SubSeq` suffice and no induction over the text is needed for it.

`TextKept` needs more (`KeptInv`). The chunks and the list that a loop is filling are one
sequence of lists, `Made`. Its pieces are of what the loops have passed (`Ordered`), each list
ends later than the ones before and what it repeats of them is, up to its last repeated piece
and joined, shorter than `chunk_overlap` (`Following`), every word that was
passed is in one (`Kept`), and during the overlap loop what is kept and what is left are the
two parts of the closed chunk, the kept one joined shorter than its counter (`Overlapping`). A joined length is a prefix sum (`Joined`); that one exists for
every list is proved by the least element of a set of naturals (`Upwards`, `SumsExist`), and
what appending a piece or putting one in front does to it by `JoinedAppend` and `JoinedInsert`. A step does one of four things to `Made`, each
a lemma: nothing (`SameLists`), a new list (`NewList`), a piece more in the last one
(`LongerList`), or it drops the last one, which is empty (`FewerLists`).

The same module proves of `RagPipeline`, for every collection, limit, `top_k`, reply of
the reranker and answers of the models, from `PipelineAssumption` (a point's id is unique
in its collection, the limits are positive, an item expects finitely many sources, the gains are
positive and fall with the rank):

* `PipelineInvariant`: `PipeSpec => []PipeInv`.
* `RerankKeepsOrder`: `PipeSpec => []RerankOrder`.
* `AnswersAreGrounded`: `PipeSpec => []AnswerGrounded`.
* `MetricsAreConsistent`: `PipeSpec => []MetricsAgree`.

The reranked list is defined by the place of each chunk, which is the number of chunks ahead
of it. That places are a permutation of 1 .. n, as a stable sort's are, is proved from
the cardinalities of these sets: the sets ahead of two chunks are contained one in the other,
strictly (`RankInv`). `AnswerGrounded` needs which model was asked about what (`AnswerInv`).

`MetricsAgree` compares the discounted gain of a list with the ideal one. Gains are
prefix sums too, a recursive function of the rank (`Gains`) whose equation and type follow from
`SumsExist` (`GainsDef`, `GainsStep`), and the inductions over ranks from `Upwards`
(`ByRank`). The first is `NoMoreThanIdeal`: up to each rank a set of relevant ranks gains no more than as many first
ranks do, and as much just when no relevant rank follows an irrelevant one among those that
count. `GainsAreSome` and `IdealIsSome` settle the zeros: something is gained just with a hit, and
the ideal order gains something just when a chunk of the list is relevant. `RanksIn` relates the ranks of a list to the counts that recall, precision and hit
use, `HitsAgree` and `NdcgAgrees` settle one list, and `NothingReordered` the tau of
retrieved against reranked.

`RagJobsProofs` proves, for any number of chats, imports, runs, workers and faults, from
`RagAssumption` (the questions of a dataset are finitely many, `None` is no import):

* `TypeCorrect`: `Spec => []TypeOK`, by `TypeInv`, which adds that the stage a worker
  is in fits the job it has.
* `DatasetsAreKept`: `Spec => []DatasetsKept`.
* `CompletedRunsAreWhole`: `Spec => []CompletedRunIsWhole`.

`DatasetsKept` is not inductive: a request in flight carries the id of a dataset, and so does
a queued job. `IInv` adds that a request that says it has committed a row has one, and one
that has not has none (`RowsSound`); that jobs queued or in hand are for rows that
are there (`JobsSound`), so that no worker marks a row that was never committed; and that an
import has read another dataset, of an import that was answered (`DataSound`). With
it the case that matters is short: an import that commits has nothing but the dataset it read,
no committed run is of that one, so there is no committed run at all.

`CompletedRunIsWhole` counts. A run has one job, in the queue or in one worker's hands
(`JobOnce`), so the sums the worker carries are of that run's items and of no others; `Counts`
relates them to the items at each place of the loop, and a question that is neither completed
nor failed to a fault that was used up.

Every safety invariant that a passing run checks, and both refinements, are theorems. Checked
by TLC only: liveness (`JobCompletes`, `RowsSettle`, `CrawlEnds`, `FilesSettle`,
`JobsSettle`), which rests on fairness and so on ENABLED, out of the prover's reach; and
the four violations, which are counterexamples.

## 7. Not modelled

* Page extraction, the browser, embedding and RAGAS: calls of services without state of their
  own; their outcome (an answer or an exception) is a choice of the task that calls them.
* Frontend, proxy, containers, migrations, CLI, read endpoints, authentication and the
  SSRF guard: no state that the modelled components share.
* Creation of a Qdrant collection: a check and a create against a server whose answer
  to the second creator is an error, which the tasks that call it already may meet.
* Within the modules: a Redis client that repeats a command whose answer was lost;
  several scrape jobs sharing the workers of one queue (`ScrapeJob` has one job); the
  page queue is a set, which admits every FIFO order; the links API's pages of
  5000 are one GET; in `CrawlPipeline` page tasks occupy no worker; appends that stop in the middle of
  a file; staging leftovers; database errors and the creation of pipelines in
  `SyncRunner`; what the web scraper that a manual run starts does (it only may refuse); a
  file is one point; the descriptions and texts of datasets and chats.
