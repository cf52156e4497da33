------------------------------ MODULE ScrapeJob ------------------------------
(***************************************************************************)
(* One scrape job of the web scrapper: the orchestrator task fans out one  *)
(* RQ task per page, the page tasks count themselves in Redis, the one     *)
(* that finds itself last schedules the finalize task, and that task       *)
(* writes the files, deletes the Redis keys and completes the row.         *)
(*                                                                         *)
(* A step is one command of one process: a Redis command, a commit, an     *)
(* enqueue.  Some rq workers run the tasks; each runs one task at a        *)
(* time.  A Redis key that is absent reads as 0 in every reader            *)
(* (int(redis.get(..) or 0)), so an absent counter is 0 here.              *)
(*                                                                         *)
(* The scrape-page queue is a set: any queued page may be next.  That      *)
(* admits every order RQ's FIFO lists can produce.                         *)
(***************************************************************************)
EXTENDS Naturals, FiniteSets

CONSTANTS
    MaxPages,       \* bound: links of the crawl
    NumWorkers,     \* bound: rq worker processes serving the three queues
    MaxRetries,     \* settings.scrape_max_retries
    MaxFaults       \* bound: crashes and errors outside a page's own retries

ASSUME ConstantsAssumption ==
    /\ MaxPages \in Nat
    /\ NumWorkers \in Nat \ {0}
    /\ MaxRetries \in Nat
    /\ MaxFaults \in Nat

Pages == 0 .. (MaxPages - 1)

\* A finalize task is named by who enqueued it: a page, or the orchestrator
\* when there is no page at all.
Orchestrator == MaxPages
Finalizers   == 0 .. MaxPages

VARIABLES
    links,          \* len(links), what the crawl found; fixed before the job starts
    status,         \* scrape_jobs.status
    pagesScraped,   \* scrape_jobs.pages_scraped
    total,          \* scrape:job:<id>:total
    completed,      \* scrape:job:<id>:completed
    scheduled,      \* scrape:job:<id>:finalize_scheduled exists
    stored,         \* pages p with a key scrape:job:<id>:result:<p>
    orch,           \* where run_scrape_job is
    next,           \* its enumerate(links) index
    pc,             \* where the task of each page is
    attempt,        \* the attempt argument of that task
    local,          \* the value its INCR returned
    fin,            \* where each finalize task is
    loaded,         \* the successful pages that task loaded
    vectors,        \* pages whose points, if the page has text, are in Qdrant
    artifacts,      \* pages with files on disk
    outcome,        \* history: the payload stored for each page
    counted,        \* history: pages whose INCR was executed
    idle,           \* workers without a task
    faults          \* faults so far

redisVars == <<total, completed, scheduled, stored>>
rowVars   == <<status, pagesScraped>>
orchVars  == <<orch, next>>
pageVars  == <<pc, attempt, local, vectors, outcome, counted>>
finVars   == <<fin, loaded, artifacts>>
vars == <<links, redisVars, rowVars, orchVars, pageVars, finVars, idle, faults>>

OrchStates == {"queued", "fetching", "fanout", "returning", "done", "lost"}
PageStates == {"absent", "queued", "scraping", "upserted", "saved", "counted",
               "elected", "scheduling", "done", "lost"}
FinStates  == {"none", "queued", "loading", "persisting", "delTotal", "delCompleted",
               "delScheduled", "delResults", "completing", "done", "lost"}

PageRunning == {"scraping", "upserted", "saved", "counted", "elected", "scheduling"}
FinRunning  == {"loading", "persisting", "delTotal", "delCompleted", "delScheduled",
                "delResults", "completing"}

TypeOK ==
    /\ links \in 0 .. MaxPages
    /\ status \in {"pending", "running", "completed", "failed"}
    /\ pagesScraped \in Nat
    /\ total \in 0 .. MaxPages
    /\ completed \in Nat
    /\ scheduled \in BOOLEAN
    /\ stored \in SUBSET Pages
    /\ orch \in OrchStates
    /\ next \in 0 .. MaxPages
    /\ pc \in [Pages -> PageStates]
    /\ attempt \in [Pages -> 0 .. MaxRetries]
    /\ local \in [Pages -> Nat]
    /\ fin \in [Finalizers -> FinStates]
    /\ loaded \in [Finalizers -> SUBSET Pages]
    /\ vectors \in SUBSET Pages
    /\ artifacts \in SUBSET Pages
    /\ outcome \in [Pages -> {"open", "ok", "failed"}]
    /\ counted \in SUBSET Pages
    /\ idle \in Nat
    /\ faults \in 0 .. MaxFaults

Init ==
    /\ links \in 0 .. MaxPages
    /\ status = "pending" /\ pagesScraped = 0
    /\ total = 0 /\ completed = 0 /\ scheduled = FALSE /\ stored = {}
    /\ orch = "queued" /\ next = 0
    /\ pc = [p \in Pages |-> "absent"]
    /\ attempt = [p \in Pages |-> 0]
    /\ local = [p \in Pages |-> 0]
    /\ fin = [f \in Finalizers |-> "none"]
    /\ loaded = [f \in Finalizers |-> {}]
    /\ vectors = {} /\ artifacts = {}
    /\ outcome = [p \in Pages |-> "open"]
    /\ counted = {}
    /\ idle \in 1 .. NumWorkers /\ faults = 0

-----------------------------------------------------------------------------
(* Workers.  `rq worker crawl scrape scrape-page` takes from the scrape    *)
(* queue first; a worker is busy until its task returns, raises or dies.   *)

TakeWorker == idle > 0 /\ idle' = idle - 1
FreeWorker == idle' = idle + 1

ScrapeQueueEmpty == orch # "queued" /\ \A f \in Finalizers : fin[f] # "queued"

Fault == faults < MaxFaults /\ faults' = faults + 1

-----------------------------------------------------------------------------
(* The orchestrator, run_scrape_job. *)

\* start_scrape and its commit.
OrchStart ==
    /\ orch = "queued"
    /\ TakeWorker
    /\ orch' = "fetching"
    /\ status' = "running"
    /\ UNCHANGED <<redisVars, pagesScraped, next, pageVars, finVars, faults>>

\* fetch_crawl_links, then init_scrape_job.  No task of the job exists yet, so
\* nobody can see the keys change one by one.
OrchInit ==
    /\ orch = "fetching"
    /\ orch' = "fanout"
    /\ total' = links
    /\ completed' = 0 /\ scheduled' = FALSE /\ stored' = {}
    /\ UNCHANGED <<rowVars, next, pageVars, finVars, idle, faults>>

\* enqueue_scrape_page of the next link.
OrchEnqueue ==
    /\ orch = "fanout" /\ next < links
    /\ pc' = [pc EXCEPT ![next] = "queued"]
    /\ next' = next + 1
    /\ UNCHANGED <<redisVars, rowVars, orch, attempt, local, vectors, outcome,
                   counted, finVars, idle, faults>>

\* Mutant: a crawl without links leaves nobody to finalize the job.
MutantOrchZero ==
    /\ orch = "fanout" /\ next = links /\ links = 0
    /\ orch' = "returning"
    /\ UNCHANGED <<redisVars, rowVars, next, pageVars, finVars, idle, faults>>

\* No link: the orchestrator enqueues the finalize task itself.
OrchZero ==
    /\ orch = "fanout" /\ next = links /\ links = 0
    /\ orch' = "returning"
    /\ fin' = [fin EXCEPT ![Orchestrator] = "queued"]
    /\ UNCHANGED <<redisVars, rowVars, next, pageVars, loaded, artifacts, idle, faults>>

OrchReturn ==
    /\ \/ orch = "fanout" /\ next = links /\ links > 0
       \/ orch = "returning"
    /\ orch' = "done"
    /\ FreeWorker
    /\ UNCHANGED <<redisVars, rowVars, next, pageVars, finVars, faults>>

\* The API, Redis or the timeout raises: the except clause commits FAILED.  What was
\* enqueued stays enqueued, the push that raised included if Redis had executed it.
OrchFail ==
    /\ orch \in {"fetching", "fanout", "returning"}
    /\ Fault
    /\ orch' = "done"
    /\ status' = "failed"
    /\ FreeWorker
    /\ UNCHANGED <<redisVars, pagesScraped, next, pageVars, finVars>>

OrchKilled ==
    /\ orch \in {"fetching", "fanout", "returning"}
    /\ Fault
    /\ orch' = "lost"
    /\ FreeWorker
    /\ UNCHANGED <<redisVars, rowVars, next, pageVars, finVars>>

-----------------------------------------------------------------------------
(* A page task, run_scrape_page. *)

TakePage(p) ==
    /\ pc[p] = "queued" /\ ScrapeQueueEmpty
    /\ TakeWorker
    /\ pc' = [pc EXCEPT ![p] = "scraping"]
    /\ UNCHANGED <<redisVars, rowVars, orchVars, attempt, local, vectors, outcome,
                   counted, finVars, faults>>

\* process_scrape_page: the upsert into Qdrant is its last command.
Upsert(p) ==
    /\ pc[p] = "scraping"
    /\ pc' = [pc EXCEPT ![p] = "upserted"]
    /\ vectors' = vectors \cup {p}
    /\ UNCHANGED <<redisVars, rowVars, orchVars, attempt, local, outcome, counted,
                   finVars, idle, faults>>

StoreResult(p, r) ==
    /\ pc' = [pc EXCEPT ![p] = "saved"]
    /\ stored' = stored \cup {p}
    /\ outcome' = [outcome EXCEPT ![p] = r]

\* Mutant: the result is stored before the vectors are in Qdrant.
MutantSaveOk(p) ==
    /\ pc[p] \in {"scraping", "upserted"}
    /\ StoreResult(p, "ok")
    /\ UNCHANGED <<total, completed, scheduled, rowVars, orchVars, attempt, local,
                   vectors, counted, finVars, idle, faults>>

SaveOk(p) ==
    /\ pc[p] = "upserted"
    /\ StoreResult(p, "ok")
    /\ UNCHANGED <<total, completed, scheduled, rowVars, orchVars, attempt, local,
                   vectors, counted, finVars, idle, faults>>

\* Mutant: the last attempt is compared with <= and retried once more.
MutantRetryBound(p) ==
    /\ pc[p] \in {"scraping", "upserted"} /\ attempt[p] <= MaxRetries
    /\ attempt' = [attempt EXCEPT ![p] = @ + 1]
    /\ pc' = [pc EXCEPT ![p] = "queued"]
    /\ FreeWorker
    /\ UNCHANGED <<redisVars, rowVars, orchVars, local, vectors, outcome, counted,
                   finVars, faults>>

\* Mutant: the except clause does not return, and goes on to count the page.
MutantRetryFallsThrough(p) ==
    /\ pc[p] \in {"scraping", "upserted"} /\ attempt[p] < MaxRetries
    /\ pc' = [pc EXCEPT ![p] = "saved"]
    /\ UNCHANGED <<redisVars, rowVars, orchVars, attempt, local, vectors, outcome,
                   counted, finVars, idle, faults>>

\* Scraping, embedding, the upsert or the save raised, with attempts left: enqueue
\* the next attempt and return.  An upsert may have landed before the error.
Retry(p) ==
    /\ pc[p] \in {"scraping", "upserted"} /\ attempt[p] < MaxRetries
    /\ attempt' = [attempt EXCEPT ![p] = @ + 1]
    /\ pc' = [pc EXCEPT ![p] = "queued"]
    /\ FreeWorker
    /\ UNCHANGED <<redisVars, rowVars, orchVars, local, vectors, outcome, counted,
                   finVars, faults>>

\* The last attempt raised: store failed_page_payload.
SaveFailed(p) ==
    /\ pc[p] \in {"scraping", "upserted"} /\ attempt[p] >= MaxRetries
    /\ StoreResult(p, "failed")
    /\ UNCHANGED <<total, completed, scheduled, rowVars, orchVars, attempt, local,
                   vectors, counted, finVars, idle, faults>>

\* Mutant: the page counts itself as soon as it is scraped, before its result is stored.
MutantIncrCompleted(p) ==
    /\ pc[p] \in {"upserted", "saved"}
    /\ completed' = completed + 1
    /\ local' = [local EXCEPT ![p] = completed + 1]
    /\ counted' = counted \cup {p}
    /\ pc' = [pc EXCEPT ![p] = "counted"]
    /\ UNCHANGED <<total, scheduled, stored, rowVars, orchVars, attempt, vectors,
                   outcome, finVars, idle, faults>>

\* mark_page_finished, first command: INCR completed.
IncrCompleted(p) ==
    /\ pc[p] = "saved"
    /\ completed' = completed + 1
    /\ local' = [local EXCEPT ![p] = completed + 1]
    /\ counted' = counted \cup {p}
    /\ pc' = [pc EXCEPT ![p] = "counted"]
    /\ UNCHANGED <<total, scheduled, stored, rowVars, orchVars, attempt, vectors,
                   outcome, finVars, idle, faults>>

\* Mutant: off by one, the page before the last believes it is the last.
MutantReadTotal(p) ==
    /\ pc[p] = "counted"
    /\ IF local[p] + 1 >= total
       THEN pc' = [pc EXCEPT ![p] = "elected"] /\ UNCHANGED idle
       ELSE pc' = [pc EXCEPT ![p] = "done"] /\ FreeWorker
    /\ UNCHANGED <<redisVars, rowVars, orchVars, attempt, local, vectors, outcome,
                   counted, finVars, faults>>

\* mark_page_finished, second command: GET total, and the comparison.
ReadTotal(p) ==
    /\ pc[p] = "counted"
    /\ IF local[p] >= total
       THEN pc' = [pc EXCEPT ![p] = "elected"] /\ UNCHANGED idle
       ELSE pc' = [pc EXCEPT ![p] = "done"] /\ FreeWorker
    /\ UNCHANGED <<redisVars, rowVars, orchVars, attempt, local, vectors, outcome,
                   counted, finVars, faults>>

\* try_schedule_finalize: SET finalize_scheduled NX.
TrySchedule(p) ==
    /\ pc[p] = "elected"
    /\ \/ /\ ~scheduled
          /\ scheduled' = TRUE
          /\ pc' = [pc EXCEPT ![p] = "scheduling"]
          /\ UNCHANGED idle
       \/ /\ scheduled
          /\ pc' = [pc EXCEPT ![p] = "done"]
          /\ FreeWorker
          /\ UNCHANGED scheduled
    /\ UNCHANGED <<total, completed, stored, rowVars, orchVars, attempt, local,
                   vectors, outcome, counted, finVars, faults>>

EnqueueFinalize(p) ==
    /\ pc[p] = "scheduling"
    /\ pc' = [pc EXCEPT ![p] = "done"]
    /\ fin' = [fin EXCEPT ![p] = "queued"]
    /\ FreeWorker
    /\ UNCHANGED <<redisVars, rowVars, orchVars, attempt, local, vectors, outcome,
                   counted, loaded, artifacts, faults>>

\* The horse dies, or a command outside the try raises: RQ files the task under
\* failed and, without an RQ Retry, never runs it again.
PageKilled(p) ==
    /\ pc[p] \in PageRunning
    /\ Fault
    /\ pc' = [pc EXCEPT ![p] = "lost"]
    /\ FreeWorker
    /\ UNCHANGED <<redisVars, rowVars, orchVars, attempt, local, vectors, outcome,
                   counted, finVars>>

-----------------------------------------------------------------------------
(* The finalize task, run_scrape_finalize. *)

TakeFinalize(f) ==
    /\ fin[f] = "queued"
    /\ TakeWorker
    /\ fin' = [fin EXCEPT ![f] = "loading"]
    /\ UNCHANGED <<redisVars, rowVars, orchVars, pageVars, loaded, artifacts, faults>>

\* Mutant: the last index is not read.
MutantLoadResults(f) ==
    /\ fin[f] = "loading"
    /\ LET ok == {p \in stored : p + 1 < total /\ outcome[p] = "ok"}
       IN  /\ loaded' = [loaded EXCEPT ![f] = ok]
           /\ fin' = [fin EXCEPT ![f] = IF ok = {} THEN "delTotal" ELSE "persisting"]
    /\ UNCHANGED <<redisVars, rowVars, orchVars, pageVars, artifacts, idle, faults>>

\* load_page_results reads total, then the keys 0 .. total - 1; finalize_scrape_job
\* keeps the successful ones.  Only the cleanup of another finalize task could change
\* the keys meanwhile, and its first command makes total 0.
LoadResults(f) ==
    /\ fin[f] = "loading"
    /\ LET ok == {p \in stored : p < total /\ outcome[p] = "ok"}
       IN  /\ loaded' = [loaded EXCEPT ![f] = ok]
           /\ fin' = [fin EXCEPT ![f] = IF ok = {} THEN "delTotal" ELSE "persisting"]
    /\ UNCHANGED <<redisVars, rowVars, orchVars, pageVars, artifacts, idle, faults>>

\* persist_job_artifacts writes the files of one page after the other.
PersistPage(f, p) ==
    /\ fin[f] = "persisting" /\ p \in loaded[f] \ artifacts
    /\ artifacts' = artifacts \cup {p}
    /\ UNCHANGED <<redisVars, rowVars, orchVars, pageVars, fin, loaded, idle, faults>>

\* Mutant: the Redis keys are deleted without waiting for the background writes.
MutantPersisted(f) ==
    /\ fin[f] = "persisting"
    /\ fin' = [fin EXCEPT ![f] = "delTotal"]
    /\ UNCHANGED <<redisVars, rowVars, orchVars, pageVars, loaded, artifacts, idle, faults>>

\* flush_background_writes returned: every page of the batch is on disk.
Persisted(f) ==
    /\ fin[f] = "persisting" /\ loaded[f] \subseteq artifacts
    /\ fin' = [fin EXCEPT ![f] = "delTotal"]
    /\ UNCHANGED <<redisVars, rowVars, orchVars, pageVars, loaded, artifacts, idle, faults>>

\* cleanup_scrape_job: four commands, one after the other.
CleanupStep(f, from, to) ==
    /\ fin[f] = from
    /\ fin' = [fin EXCEPT ![f] = to]
    /\ UNCHANGED <<rowVars, orchVars, pageVars, loaded, artifacts, idle, faults>>

DeleteTotal(f) ==
    /\ CleanupStep(f, "delTotal", "delCompleted")
    /\ total' = 0 /\ UNCHANGED <<completed, scheduled, stored>>

DeleteCompleted(f) ==
    /\ CleanupStep(f, "delCompleted", "delScheduled")
    /\ completed' = 0 /\ UNCHANGED <<total, scheduled, stored>>

DeleteScheduled(f) ==
    /\ CleanupStep(f, "delScheduled", "delResults")
    /\ scheduled' = FALSE /\ UNCHANGED <<total, completed, stored>>

DeleteResults(f) ==
    /\ CleanupStep(f, "delResults", "completing")
    /\ stored' = {} /\ UNCHANGED <<total, completed, scheduled>>

\* complete_scrape, and its commit.
CompleteScrape(f) ==
    /\ fin[f] = "completing"
    /\ fin' = [fin EXCEPT ![f] = "done"]
    /\ status' = "completed"
    /\ pagesScraped' = Cardinality(loaded[f])
    /\ FreeWorker
    /\ UNCHANGED <<redisVars, orchVars, pageVars, loaded, artifacts, faults>>

\* A disk, Redis or database error: the except clause commits FAILED.
FinalizeFail(f) ==
    /\ fin[f] \in FinRunning
    /\ Fault
    /\ fin' = [fin EXCEPT ![f] = "done"]
    /\ status' = "failed"
    /\ FreeWorker
    /\ UNCHANGED <<redisVars, pagesScraped, orchVars, pageVars, loaded, artifacts>>

FinalizeKilled(f) ==
    /\ fin[f] \in FinRunning
    /\ Fault
    /\ fin' = [fin EXCEPT ![f] = "lost"]
    /\ FreeWorker
    /\ UNCHANGED <<redisVars, rowVars, orchVars, pageVars, loaded, artifacts>>

-----------------------------------------------------------------------------

OrchStep ==
    /\ UNCHANGED links
    /\ OrchStart \/ OrchInit \/ OrchEnqueue \/ OrchZero \/ OrchReturn

PageStep(p) ==
    /\ UNCHANGED links
    /\ \/ TakePage(p) \/ Upsert(p) \/ SaveOk(p) \/ Retry(p) \/ SaveFailed(p)
       \/ IncrCompleted(p) \/ ReadTotal(p) \/ TrySchedule(p) \/ EnqueueFinalize(p)

FinalizeStep(f) ==
    /\ UNCHANGED links
    /\ \/ TakeFinalize(f) \/ LoadResults(f) \/ Persisted(f)
       \/ \E p \in Pages : PersistPage(f, p)
       \/ DeleteTotal(f) \/ DeleteCompleted(f) \/ DeleteScheduled(f)
       \/ DeleteResults(f) \/ CompleteScrape(f)

FaultStep ==
    /\ UNCHANGED links
    /\ \/ OrchFail \/ OrchKilled
       \/ \E p \in Pages : PageKilled(p)
       \/ \E f \in Finalizers : FinalizeFail(f) \/ FinalizeKilled(f)

Next ==
    \/ OrchStep
    \/ \E p \in Pages : PageStep(p)
    \/ \E f \in Finalizers : FinalizeStep(f)
    \/ FaultStep

Spec == Init /\ [][Next]_vars

\* A worker that has a task goes on with it, and an idle worker takes a waiting task.
\* Nothing makes a fault happen.
Fairness ==
    /\ WF_vars(OrchStep)
    /\ \A p \in Pages : WF_vars(PageStep(p))
    /\ \A f \in Finalizers : WF_vars(FinalizeStep(f))

FairSpec == Spec /\ Fairness

-----------------------------------------------------------------------------
(* Properties. *)

\* The finalize task is never enqueued while a page is still to be scraped, retried
\* or counted: every page of the crawl has stored its result and executed its INCR,
\* whatever the interleaving, the retries and the crashes (tasks.py, "After all page
\* workers finish").
NoPrematureFinalize ==
    (\E f \in Finalizers : fin[f] # "none") =>
        \A p \in 0 .. (links - 1) : p \in counted /\ outcome[p] # "open"

\* cleanup_scrape_job never destroys the only copy of a page: a successful page is in
\* Redis or on disk at every moment, also when the finalize task dies half-way.
NoPageLost ==
    \A p \in Pages : outcome[p] = "ok" => p \in stored \cup artifacts

\* A page reported as scraped has its vectors in Qdrant.
StoredPagesIndexed ==
    \A p \in Pages : outcome[p] = "ok" => p \in vectors

\* try_schedule_finalize: "Return True if this caller should enqueue the finalize task
\* (once only)" (scrape_coordinator.py:61).
FinalizeOnceOnly ==
    Cardinality({f \in Finalizers : fin[f] # "none"}) <= 1

\* Workers that are idle or have a task; their number never changes.
Workers ==
    idle + Cardinality({p \in Pages : pc[p] \in PageRunning})
         + Cardinality({f \in Finalizers : fin[f] \in FinRunning})
         + (IF orch \in {"fetching", "fanout", "returning"} THEN 1 ELSE 0)

\* With the one worker of docker-compose the job is finalized once, and a completed job
\* reports the number of pages that were scraped; neither holds with two workers.
OneWorkerExact == Workers = 1 =>
    /\ FinalizeOnceOnly
    /\ status = "completed" =>
           pagesScraped = Cardinality({p \in Pages : outcome[p] = "ok"})

\* Without crashes the job never stays PENDING or RUNNING: whatever pages fail, the
\* fan-in is reached and the row ends COMPLETED.
JobCompletes == <>[](status = "completed" \/ faults > 0)

-----------------------------------------------------------------------------
(* The inductive invariant behind the safety properties. *)

LinkedPages == 0 .. (links - 1)
AllCounted  == LinkedPages \subseteq counted
OkPages     == {p \in Pages : outcome[p] = "ok"}

\* A page is resolved, then counted, in this order and once.
PageInv == \A p \in Pages :
    /\ pc[p] # "absent" => p < links
    /\ pc[p] \in {"absent", "queued", "scraping", "upserted"} =>
           p \notin counted /\ outcome[p] = "open"
    /\ pc[p] = "saved" => p \notin counted /\ outcome[p] # "open"
    /\ pc[p] \in {"counted", "elected", "scheduling", "done"} => p \in counted
    /\ p \in counted => p < links /\ outcome[p] # "open"
    /\ outcome[p] = "ok" => p < links

\* The fan-out creates each page task once.
FanOutInv ==
    /\ next <= links
    /\ orch \in {"queued", "fetching"} => next = 0
    /\ orch \in {"queued", "fetching", "fanout"} =>
           \A p \in Pages : p >= next => pc[p] = "absent"

\* The three phases of the job's counters: not written, counting, deleted again.
KeysUnborn ==
    /\ orch \in {"queued", "fetching", "done", "lost"}
    /\ counted = {}
    /\ \A p \in Pages : pc[p] = "absent" /\ outcome[p] = "open"
KeysLive == total = links /\ completed = Cardinality(counted)
KeysGone == total = 0 /\ AllCounted /\ OkPages \subseteq artifacts

CounterInv ==
    /\ KeysUnborn \/ KeysLive \/ KeysGone
    /\ orch \in {"fanout", "returning"} => KeysLive \/ KeysGone
    /\ \A p \in Pages : pc[p] = "counted" => local[p] <= Cardinality(counted)

\* Whoever believes to be last is right, and so is every finalize task.
ElectionInv ==
    /\ \A p \in Pages : pc[p] \in {"elected", "scheduling"} => AllCounted
    /\ \A f \in Finalizers :
        /\ fin[f] # "none" => AllCounted
        /\ fin[f] \in {"delCompleted", "delScheduled", "delResults", "completing"} =>
               total = 0

\* What a finalize task holds, and when it may delete the results.
FilesInv ==
    /\ artifacts \subseteq OkPages
    /\ OkPages \subseteq stored \cup artifacts
    /\ \A f \in Finalizers :
        /\ loaded[f] \subseteq OkPages
        /\ fin[f] = "persisting" => OkPages \subseteq loaded[f] \cup artifacts
        /\ fin[f] \in {"delTotal", "delCompleted", "delScheduled", "delResults",
                       "completing"} => OkPages \subseteq artifacts

\* A page that got as far as its result has its vectors.
VectorInv == \A p \in Pages :
    pc[p] = "upserted" \/ outcome[p] = "ok" => p \in vectors

IInv == PageInv /\ FanOutInv /\ CounterInv /\ ElectionInv /\ FilesInv /\ VectorInv

\* The job implements the barrier it is meant to be.
Barrier == INSTANCE ScrapeBarrier WITH published <- artifacts
BarrierSpec == Barrier!Spec

=============================================================================
