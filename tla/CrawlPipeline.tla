---------------------------- MODULE CrawlPipeline ----------------------------
(***************************************************************************)
(* From an API request to crawl and scrape rows.  Requests for one crawl   *)
(* configuration (seed, depth, pages, mode) meet in the API; each may      *)
(* start a crawl, a crawl followed by a scrape, or a scrape of a crawl     *)
(* that is already there, and may be told that there is nothing to do.     *)
(* Worker processes run the tasks.                                         *)
(*                                                                         *)
(* A request makes at most one crawl row and one scrape row, so both are   *)
(* named by the request.  A step is one statement or commit of a session,  *)
(* one enqueue, one write to the links file; a row is visible to others    *)
(* from its commit on.  What happens between the fan-out of a scrape and   *)
(* its finalize task is module ScrapeJob; here it is one step.             *)
(***************************************************************************)
EXTENDS Integers, FiniteSets

CONSTANTS
    Requests,       \* bound: API requests
    Collections,    \* qdrant_collection values a pipeline request may name
    NoCollection,   \* qdrant_collection is None
    MaxLinks,       \* bound: links of a crawl
    NumWorkers,     \* rq worker processes
    MaxFaults       \* bound: crashes and I/O errors

ASSUME PipelineAssumption ==
    /\ IsFiniteSet(Requests)
    /\ NoCollection \notin Collections
    /\ MaxLinks \in Nat
    /\ NumWorkers \in Nat \ {0}
    /\ MaxFaults \in Nat

VARIABLES
    req,            \* where the handler of each request is
    plan,           \* what it decided to enqueue
    target,         \* the crawl its scrape is for
    coll,           \* payload.qdrant_collection
    crawlStatus,    \* crawl_jobs.status, "none" before the row is committed
    hasResult,      \* the crawl has a crawl_results row
    finishedAt,     \* crawl_jobs.finished_at, as a rank
    indexed,        \* crawl_jobs.markdown_indexed_at is set
    links,          \* len(links) of the crawl
    file,           \* lines of links.jsonl on disk, -1 without the file
    scrapeStatus,   \* scrape_jobs.status
    pages,          \* page tasks the scrape was fanned out into, -1 before
    crawlTask,      \* where run_crawl_job or run_crawl_and_scrape_job is
    scrapeTask,     \* where run_scrape_job is, and the page tasks after it
    idle,           \* workers without a task
    faults          \* faults so far

apiVars    == <<req, plan, target, coll>>
crawlVars  == <<crawlStatus, hasResult, finishedAt, indexed, links, file>>
scrapeVars == <<scrapeStatus, pages>>
vars == <<apiVars, crawlVars, scrapeVars, crawlTask, scrapeTask, idle, faults>>

CrawlRunning == {"crawling", "writing", "failing", "handover"}

Init ==
    /\ req = [r \in Requests |-> "new"]
    /\ plan = [r \in Requests |-> "none"]
    /\ target = [r \in Requests |-> r]
    /\ coll = [r \in Requests |-> NoCollection]
    /\ crawlStatus = [r \in Requests |-> "none"]
    /\ hasResult = [r \in Requests |-> FALSE]
    /\ finishedAt = [r \in Requests |-> 0]
    /\ indexed = [r \in Requests |-> FALSE]
    /\ links = [r \in Requests |-> 0]
    /\ file = [r \in Requests |-> -1]
    /\ scrapeStatus = [r \in Requests |-> "none"]
    /\ pages = [r \in Requests |-> -1]
    /\ crawlTask = [r \in Requests |-> "none"]
    /\ scrapeTask = [r \in Requests |-> "none"]
    /\ idle = NumWorkers /\ faults = 0

TakeWorker == idle > 0 /\ idle' = idle - 1
FreeWorker == idle' = idle + 1
Fault      == faults < MaxFaults /\ faults' = faults + 1

-----------------------------------------------------------------------------
(* The API handlers. *)

CompletedCrawls == {c \in Requests : crawlStatus[c] = "completed"}

\* find_completed_by_config: the crawl that finished last.
LatestCrawl ==
    CHOOSE c \in CompletedCrawls :
        \A d \in CompletedCrawls : finishedAt[d] <= finishedAt[c]

\* find_completed_for_crawl: with a collection only its scrapes count.
CompletedScrapes(c, q) ==
    {s \in Requests : /\ target[s] = c /\ scrapeStatus[s] = "completed"
                      /\ q = NoCollection \/ coll[s] = q}

AlreadyIndexed(c, q) ==
    IF q = NoCollection THEN indexed[c] ELSE CompletedScrapes(c, q) # {}

Decide(r, phase, what, c, q) ==
    /\ req[r] = "new"
    /\ req' = [req EXCEPT ![r] = phase]
    /\ plan' = [plan EXCEPT ![r] = what]
    /\ target' = [target EXCEPT ![r] = c]
    /\ coll' = [coll EXCEPT ![r] = q]
    /\ UNCHANGED <<crawlVars, scrapeVars, crawlTask, scrapeTask, idle, faults>>

\* POST /crawls
RequestCrawl(r) == Decide(r, "inserted", "crawl", r, NoCollection)

\* POST /scrapes of an existing crawl.  The row it read decides all three conditions.
RequestScrape(r) ==
    \E c \in Requests :
        /\ crawlStatus[c] # "none"
        /\ IF crawlStatus[c] = "completed" /\ hasResult[c] /\ ~indexed[c]
           THEN Decide(r, "inserted", "scrape", c, NoCollection)
           ELSE Decide(r, "rejected", "none", c, NoCollection)

\* Mutant: the pipeline reuses a crawl that has not completed.
MutantRequestPipeline(r) ==
    \E q \in Collections \cup {NoCollection} :
        LET started == {c \in Requests : crawlStatus[c] \in {"running", "completed"}}
        IN  IF started = {}
            THEN Decide(r, "inserted", "crawlAndScrape", r, q)
            ELSE \E c \in started :
                    IF AlreadyIndexed(c, q)
                    THEN Decide(r, "skipped", "none", c, q)
                    ELSE Decide(r, "deciding", "scrape", c, q)

\* POST /pipelines/crawl-scrape: look for a completed crawl, and skip if it is indexed.
RequestPipeline(r) ==
    \E q \in Collections \cup {NoCollection} :
        \/ /\ CompletedCrawls = {}
           /\ Decide(r, "inserted", "crawlAndScrape", r, q)
        \/ /\ CompletedCrawls # {} /\ AlreadyIndexed(LatestCrawl, q)
           /\ Decide(r, "skipped", "none", LatestCrawl, q)
        \/ /\ CompletedCrawls # {} /\ ~AlreadyIndexed(LatestCrawl, q)
           /\ Decide(r, "deciding", "scrape", LatestCrawl, q)

\* create_pending_scrape_job asks again: a query if there is a collection, else the
\* attribute of the crawl object that the session already holds.
InsertScrape(r) ==
    /\ req[r] = "deciding"
    /\ req' = [req EXCEPT ![r] =
                   IF coll[r] # NoCollection /\ AlreadyIndexed(target[r], coll[r])
                   THEN "rejected" ELSE "inserted"]
    /\ UNCHANGED <<plan, target, coll, crawlVars, scrapeVars, crawlTask, scrapeTask,
                   idle, faults>>

\* db.commit()
CommitRows(r) ==
    /\ req[r] = "inserted"
    /\ req' = [req EXCEPT ![r] = "committed"]
    /\ crawlStatus' = IF plan[r] = "scrape" THEN crawlStatus
                      ELSE [crawlStatus EXCEPT ![r] = "pending"]
    /\ scrapeStatus' = IF plan[r] = "crawl" THEN scrapeStatus
                       ELSE [scrapeStatus EXCEPT ![r] = "pending"]
    /\ UNCHANGED <<plan, target, coll, hasResult, finishedAt, indexed, links, file,
                   pages, crawlTask, scrapeTask, idle, faults>>

\* enqueue_crawl, enqueue_crawl_and_scrape or enqueue_scrape.
EnqueueTask(r) ==
    /\ req[r] = "committed"
    /\ req' = [req EXCEPT ![r] = "answered"]
    /\ IF plan[r] = "scrape"
       THEN scrapeTask' = [scrapeTask EXCEPT ![r] = "queued"] /\ UNCHANGED crawlTask
       ELSE crawlTask' = [crawlTask EXCEPT ![r] = "queued"] /\ UNCHANGED scrapeTask
    /\ UNCHANGED <<plan, target, coll, crawlVars, scrapeVars, idle, faults>>

\* The process dies or Redis refuses: the session rolls back, unless it had committed.
ApiDies(r) ==
    /\ req[r] \in {"deciding", "inserted", "committed"}
    /\ Fault
    /\ req' = [req EXCEPT ![r] = "died"]
    /\ UNCHANGED <<plan, target, coll, crawlVars, scrapeVars, crawlTask, scrapeTask, idle>>

-----------------------------------------------------------------------------
(* run_crawl_job, and run_crawl_and_scrape_job around it. *)

GoTo(c, from, to) == crawlTask[c] = from /\ crawlTask' = [crawlTask EXCEPT ![c] = to]

TakeCrawl(c) ==
    /\ GoTo(c, "queued", "crawling")
    /\ TakeWorker
    /\ crawlStatus' = [crawlStatus EXCEPT ![c] = "running"]
    /\ UNCHANGED <<apiVars, hasResult, finishedAt, indexed, links, file, scrapeVars,
                   scrapeTask, faults>>

\* datetime.now(UTC): later than every finish so far.
Finish(c, status) ==
    /\ crawlStatus' = [crawlStatus EXCEPT ![c] = status]
    /\ finishedAt' = [finishedAt EXCEPT ![c] =
           1 + Cardinality({d \in Requests \ {c} : finishedAt[d] > 0})]

\* The engine returned: complete_crawl commits the result and COMPLETED.
CompleteCrawl(c) ==
    /\ GoTo(c, "crawling", "writing")
    /\ Finish(c, "completed")
    /\ hasResult' = [hasResult EXCEPT ![c] = TRUE]
    /\ \E n \in 0 .. MaxLinks : links' = [links EXCEPT ![c] = n]
    /\ UNCHANGED <<apiVars, indexed, file, scrapeVars, scrapeTask, idle, faults>>

\* LinksFileWriter.write opens the file, which empties it, and adds line after line.
WriteLinks(c) ==
    /\ crawlTask[c] = "writing" /\ file[c] < links[c]
    /\ file' = [file EXCEPT ![c] = @ + 1]
    /\ UNCHANGED <<apiVars, crawlStatus, hasResult, finishedAt, indexed, links,
                   scrapeVars, crawlTask, scrapeTask, idle, faults>>

\* Mutant: the task does not wait for the background write.
MutantLinksWritten(c) ==
    /\ \/ /\ plan[c] = "crawlAndScrape"
          /\ GoTo(c, "writing", "handover")
          /\ UNCHANGED idle
       \/ /\ plan[c] = "crawl"
          /\ GoTo(c, "writing", "done")
          /\ FreeWorker
    /\ UNCHANGED <<apiVars, crawlVars, scrapeVars, scrapeTask, faults>>

\* The write returned; a combined task goes on to its scrape.
LinksWritten(c) ==
    /\ file[c] = links[c]
    /\ \/ /\ plan[c] = "crawlAndScrape"
          /\ GoTo(c, "writing", "handover")
          /\ UNCHANGED idle
       \/ /\ plan[c] = "crawl"
          /\ GoTo(c, "writing", "done")
          /\ FreeWorker
    /\ UNCHANGED <<apiVars, crawlVars, scrapeVars, scrapeTask, faults>>

\* enqueue_scrape at the end of the combined task.
HandOver(c) ==
    /\ GoTo(c, "handover", "done")
    /\ scrapeTask' = [scrapeTask EXCEPT ![c] = "queued"]
    /\ FreeWorker
    /\ UNCHANGED <<apiVars, crawlVars, scrapeVars, faults>>

\* The engine, or as a fault the disk, raises: fail_crawl commits FAILED, also over a
\* COMPLETED that others have read.
FailCrawl(c) ==
    /\ \/ crawlTask[c] = "crawling" /\ UNCHANGED faults
       \/ crawlTask[c] = "writing" /\ Fault
    /\ Finish(c, "failed")
    /\ IF plan[c] = "crawlAndScrape"
       THEN crawlTask' = [crawlTask EXCEPT ![c] = "failing"] /\ UNCHANGED idle
       ELSE crawlTask' = [crawlTask EXCEPT ![c] = "done"] /\ FreeWorker
    /\ UNCHANGED <<apiVars, hasResult, indexed, links, file, scrapeVars, scrapeTask>>

\* Mutant: the failed crawl phase is only logged and re-raised.
MutantFailScrapeToo(c) ==
    /\ GoTo(c, "failing", "done")
    /\ FreeWorker
    /\ UNCHANGED <<apiVars, crawlVars, scrapeVars, scrapeTask, faults>>

\* "Crawl phase failed": the combined task fails its scrape and enqueues nothing.
FailScrapeToo(c) ==
    /\ GoTo(c, "failing", "done")
    /\ scrapeStatus' = [scrapeStatus EXCEPT ![c] = "failed"]
    /\ FreeWorker
    /\ UNCHANGED <<apiVars, crawlVars, pages, scrapeTask, faults>>

CrawlKilled(c) ==
    /\ crawlTask[c] \in CrawlRunning
    /\ Fault
    /\ crawlTask' = [crawlTask EXCEPT ![c] = "lost"]
    /\ FreeWorker
    /\ UNCHANGED <<apiVars, crawlVars, scrapeVars, scrapeTask>>

-----------------------------------------------------------------------------
(* run_scrape_job.  `rq worker crawl scrape scrape-page`: crawls go first. *)

CrawlQueueEmpty == \A c \in Requests : crawlTask[c] # "queued"

EndScrapeTask(s, from, status) ==
    /\ scrapeTask[s] = from
    /\ scrapeTask' = [scrapeTask EXCEPT ![s] = "done"]
    /\ scrapeStatus' = [scrapeStatus EXCEPT ![s] = status]

\* Without a crawl result the task raises before its try: the row stays as it is.
TakeScrape(s) ==
    /\ scrapeTask[s] = "queued" /\ CrawlQueueEmpty
    /\ IF hasResult[target[s]]
       THEN /\ TakeWorker
            /\ scrapeTask' = [scrapeTask EXCEPT ![s] = "fetching"]
            /\ scrapeStatus' = [scrapeStatus EXCEPT ![s] = "running"]
       ELSE /\ idle > 0 /\ UNCHANGED <<idle, scrapeStatus>>
            /\ scrapeTask' = [scrapeTask EXCEPT ![s] = "done"]
    /\ UNCHANGED <<apiVars, crawlVars, pages, crawlTask, faults>>

\* Mutant: the loop over the API's pages drops the last link.
MutantFanOut(s) ==
    /\ scrapeTask[s] = "fetching" /\ file[target[s]] >= 0
    /\ scrapeTask' = [scrapeTask EXCEPT ![s] = "fanned"]
    /\ pages' = [pages EXCEPT ![s] = IF file[target[s]] = 0 THEN 0 ELSE file[target[s]] - 1]
    /\ FreeWorker
    /\ UNCHANGED <<apiVars, crawlVars, scrapeStatus, crawlTask, faults>>

\* fetch_crawl_links reads through the API what is in the file now, whatever the
\* crawl's status, and one page task is enqueued per link.
FanOut(s) ==
    /\ scrapeTask[s] = "fetching" /\ file[target[s]] >= 0
    /\ scrapeTask' = [scrapeTask EXCEPT ![s] = "fanned"]
    /\ pages' = [pages EXCEPT ![s] = file[target[s]]]
    /\ FreeWorker
    /\ UNCHANGED <<apiVars, crawlVars, scrapeStatus, crawlTask, faults>>

\* The API answers 404 without the file, 500 when its last line is torn.
LinksUnreadable(s) ==
    /\ EndScrapeTask(s, "fetching", "failed")
    /\ file[target[s]] < links[target[s]]
    /\ FreeWorker
    /\ UNCHANGED <<apiVars, crawlVars, pages, crawlTask, faults>>

\* Mutant: the flag is set whatever the collection.
MutantFinishScrape(s) ==
    /\ EndScrapeTask(s, "fanned", "completed")
    /\ indexed' = [indexed EXCEPT ![target[s]] = TRUE]
    /\ UNCHANGED <<apiVars, crawlStatus, hasResult, finishedAt, links, file, pages,
                   crawlTask, idle, faults>>

\* run_scrape_finalize: COMPLETED, and the crawl's flag if there is no collection.
FinishScrape(s) ==
    /\ EndScrapeTask(s, "fanned", "completed")
    /\ indexed' = [indexed EXCEPT ![target[s]] = @ \/ coll[s] = NoCollection]
    /\ UNCHANGED <<apiVars, crawlStatus, hasResult, finishedAt, links, file, pages,
                   crawlTask, idle, faults>>

\* An error in the orchestrator or in the finalize task is committed as FAILED.
FailScrape(s) ==
    /\ Fault
    /\ \/ EndScrapeTask(s, "fetching", "failed") /\ FreeWorker
       \/ EndScrapeTask(s, "fanned", "failed") /\ UNCHANGED idle
    /\ UNCHANGED <<apiVars, crawlVars, pages, crawlTask>>

ScrapeKilled(s) ==
    /\ Fault
    /\ \/ scrapeTask[s] = "fetching" /\ FreeWorker
       \/ scrapeTask[s] = "fanned" /\ UNCHANGED idle
    /\ scrapeTask' = [scrapeTask EXCEPT ![s] = "lost"]
    /\ UNCHANGED <<apiVars, crawlVars, scrapeVars, crawlTask>>

-----------------------------------------------------------------------------

Arrive(r) == RequestCrawl(r) \/ RequestScrape(r) \/ RequestPipeline(r)

Handle(r) == InsertScrape(r) \/ CommitRows(r) \/ EnqueueTask(r)

RunCrawl(c) ==
    \/ TakeCrawl(c) \/ CompleteCrawl(c) \/ WriteLinks(c) \/ LinksWritten(c)
    \/ HandOver(c) \/ FailScrapeToo(c)

RunScrape(s) == TakeScrape(s) \/ FanOut(s) \/ LinksUnreadable(s) \/ FinishScrape(s)

FaultStep(r) == ApiDies(r) \/ CrawlKilled(r) \/ FailScrape(r) \/ ScrapeKilled(r)

Next == \E r \in Requests :
    Arrive(r) \/ Handle(r) \/ RunCrawl(r) \/ FailCrawl(r) \/ RunScrape(r) \/ FaultStep(r)

Spec == Init /\ [][Next]_vars

\* A handler runs to its answer and a worker goes on with its task; requests, errors
\* and crashes may or may not happen.
Fairness == \A r \in Requests :
    WF_vars(Handle(r)) /\ WF_vars(RunCrawl(r)) /\ WF_vars(RunScrape(r))

FairSpec == Spec /\ Fairness

-----------------------------------------------------------------------------
(* Properties. *)

\* The crawl ended well: its task returned and its row says so.
Sound(c) == crawlTask[c] = "done" /\ crawlStatus[c] = "completed"

\* run_scrape_job raises before its try when the crawl has no result, which would leave
\* the row PENDING for ever.  No order of requests, crashes and failed crawls gets there.
ScrapeHasResult ==
    \A s \in Requests : scrapeTask[s] = "queued" => hasResult[target[s]]

\* With the one worker of docker-compose a scrape that completes has covered every link
\* of its crawl, though the crawl is COMPLETED, and reused, before its file is written.
CompletedScrapeCoversCrawl ==
    \A s \in Requests :
        scrapeStatus[s] = "completed" /\ Sound(target[s]) => pages[s] = links[target[s]]

\* A request is answered "skipped" only if all the links of the crawl it names have
\* been scraped, into the collection it names or into the default one.
SkippedIsIndexed ==
    \A r \in Requests : req[r] = "skipped" /\ Sound(target[r]) =>
        \E s \in Requests : /\ target[s] = target[r] /\ coll[s] = coll[r]
                            /\ scrapeStatus[s] = "completed"
                            /\ pages[s] = links[target[r]]

\* Unless something crashed, a scrape fails for one reason: its own crawl failed.
\* Reusing a crawl never makes it fail.
ScrapeFailsWithItsCrawl ==
    \A s \in Requests : scrapeStatus[s] = "failed" /\ faults = 0 =>
        plan[s] = "crawlAndScrape" /\ crawlStatus[s] = "failed"

\* Without crashes no row stays PENDING or RUNNING.
RowsSettle == <>[](faults > 0 \/ \A r \in Requests :
    /\ crawlStatus[r] \in {"none", "completed", "failed"}
    /\ scrapeStatus[r] \in {"none", "completed", "failed"})

=============================================================================
