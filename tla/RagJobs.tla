------------------------------ MODULE RagJobs ------------------------------
(* The RAG application's background work: chat requests whose metrics an      *)
(* rq job computes after the answer, golden datasets, and evaluation runs     *)
(* over them.  The API's handlers and the eval workers meet in one queue and  *)
(* in one PostgreSQL database; a step is a commit, a query whose answer is    *)
(* used later, or a push or pop of the queue.                                 *)
EXTENDS Naturals, FiniteSets, Sequences

CONSTANTS Chats,        \* POST /chat requests
          Imports,      \* POST /evaluate/datasets requests, all of one name;
                        \* the dataset an import creates has the import's name
          Items,        \* the questions of a dataset
          Runs,         \* POST /evaluate/runs requests
          Workers,      \* work-horses of eval workers
          MaxFaults,    \* bound on crashes, timeouts and database errors
          None

ASSUME RagAssumption ==
    /\ MaxFaults \in Nat /\ IsFiniteSet(Items)
    /\ None \notin Imports

VARIABLES chat,         \* where each chat request is
          metrics,      \* committed chat_message_metrics.status, by chat
          early,        \* history: chats whose job ran before their commit
          importer,     \* where each import request is
          seen,         \* the dataset of the same name an import has read
          dataset,      \* committed golden_datasets rows
          request,      \* where each run request is
          run,          \* evaluation_runs rows; of status "none" the request only
          item,         \* committed evaluation_run_items.status, by run
          queue,        \* the rq queue: jobs not yet taken
          work,         \* what each worker has in hand
          lost,         \* history: jobs, by argument, nobody will finish
          faults        \* faults so far

chatVars == <<chat, metrics, early>>
dataVars == <<importer, seen, dataset>>
runVars == <<request, run, item>>
vars == <<chatVars, dataVars, runVars, queue, work, lost, faults>>

MetricsJob(c) == [task |-> "compute_chat_metrics", arg |-> c]
RunJob(r) == [task |-> "run_evaluation", arg |-> r]
Jobs == {MetricsJob(c) : c \in Chats} \cup {RunJob(r) : r \in Runs}

Idle == [job |-> None, at |-> "idle", todo |-> {}, item |-> None]
NoRun == [status |-> "none", of |-> None, valid |-> TRUE, itemCount |-> 0]
Committed == {r \in Runs : run[r].status # "none"}

Init ==
    /\ chat = [c \in Chats |-> "new"]
    /\ metrics = [c \in Chats |-> "absent"]
    /\ early = {}
    /\ importer = [d \in Imports |-> "new"]
    /\ seen = [d \in Imports |-> None]
    /\ dataset = [d \in Imports |-> "absent"]
    /\ request = [r \in Runs |-> "new"]
    /\ run = [r \in Runs |-> NoRun]
    /\ item = [r \in Runs |-> [x \in Items |-> "none"]]
    /\ queue = <<>>
    /\ work = [w \in Workers |-> Idle]
    /\ lost = {}
    /\ faults = 0

Fault == faults < MaxFaults /\ faults' = faults + 1

-----------------------------------------------------------------------------
(* POST /chat: answer, write the rows in one transaction, enqueue the metrics *)
(* job, and only then commit.                                                 *)

ChatMove(c, from, to) == chat[c] = from /\ chat' = [chat EXCEPT ![c] = to]

(* Retrieval, reranking or generation raises, or the request names a session  *)
(* that does not exist: nothing has been committed.                           *)
ChatFails(c) ==
    /\ \E from \in {"new", "answered"} : ChatMove(c, from, "error")
    /\ UNCHANGED <<metrics, early, dataVars, runVars, queue, work, lost, faults>>

Answer(c) ==
    /\ ChatMove(c, "new", "answered")
    /\ UNCHANGED <<metrics, early, dataVars, runVars, queue, work, lost, faults>>

(* ragas_enabled or chat_metrics_async is off: no metrics row and no job.     *)
CommitChatOnly(c) ==
    /\ ChatMove(c, "answered", "ok")
    /\ UNCHANGED <<metrics, early, dataVars, runVars, queue, work, lost, faults>>

(* The messages, the trace and the pending metrics are flushed, not committed *)
EnqueueMetrics(c) ==
    /\ ChatMove(c, "answered", "enqueued")
    /\ queue' = Append(queue, MetricsJob(c))
    /\ UNCHANGED <<metrics, early, dataVars, runVars, work, lost, faults>>

CommitChat(c) ==
    /\ ChatMove(c, "enqueued", "ok")
    /\ metrics' = [metrics EXCEPT ![c] = "pending"]
    /\ UNCHANGED <<early, dataVars, runVars, queue, work, lost, faults>>

(* The process dies, the queue refuses the job, or the commit fails.          *)
ChatDies(c) ==
    /\ Fault
    /\ \E from \in {"answered", "enqueued"} : ChatMove(c, from, "error")
    /\ UNCHANGED <<metrics, early, dataVars, runVars, queue, work, lost>>

-----------------------------------------------------------------------------
(* POST /evaluate/datasets, with and without replace                          *)

ImportMove(d, from, to) ==
    importer[d] = from /\ importer' = [importer EXCEPT ![d] = to]

Present == {d \in Imports : dataset[d] = "present"}

(* get_dataset_by_name: an existing dataset is a 409 unless replace is set    *)
ImportExists(d) ==
    /\ Present # {}
    /\ ImportMove(d, "new", "conflict")
    /\ UNCHANGED <<seen, dataset, chatVars, runVars, queue, work, lost, faults>>

ImportRead(d) ==
    /\ ImportMove(d, "new", "read")
    /\ seen' = [seen EXCEPT ![d] = IF Present = {} THEN None
                                   ELSE CHOOSE e \in Present : TRUE]
    /\ UNCHANGED <<dataset, chatVars, runVars, queue, work, lost, faults>>

\* Mutant: without the foreign key of evaluation_runs.
RefusedNoKey(d) == Present \ {seen[d]} # {}

(* What the database refuses when the dataset that was read is deleted and    *)
(* the new one inserted: evaluation_runs.dataset_id may not become NULL or    *)
(* dangle, and the name is unique.                                            *)
Refused(d) ==
    \/ \E r \in Committed : run[r].of = seen[d]
    \/ Present \ {seen[d]} # {}

ImportCommit(d) ==
    /\ ~ Refused(d)
    /\ ImportMove(d, "read", "ok")
    /\ dataset' = [e \in Imports |-> IF e = d THEN "present"
                                     ELSE IF e = seen[d] THEN "deleted"
                                     ELSE dataset[e]]
    /\ UNCHANGED <<seen, chatVars, runVars, queue, work, lost, faults>>

(* An IntegrityError is not the ValueError the route catches: a 500           *)
ImportRefused(d) ==
    /\ Refused(d)
    /\ ImportMove(d, "read", "error")
    /\ UNCHANGED <<seen, dataset, chatVars, runVars, queue, work, lost, faults>>

-----------------------------------------------------------------------------
(* POST /evaluate/runs: commit the row, then enqueue                          *)

RequestMove(r, from, to) ==
    request[r] = from /\ request' = [request EXCEPT ![r] = to]

(* A client knows the id of every dataset whose import was answered; valid    *)
(* says whether retrieval_mode, an unchecked string, names a SearchMode.      *)
RunRead(r) ==
    \E d \in {e \in Imports : importer[e] = "ok"}, valid \in BOOLEAN :
        /\ RequestMove(r, "new", IF d \in Present THEN "read" ELSE "not found")
        /\ run' = [run EXCEPT ![r].of = d, ![r].valid = valid]
        /\ UNCHANGED <<item, chatVars, dataVars, queue, work, lost, faults>>

(* The foreign key refuses the row of a run whose dataset is gone.            *)
RunCommit(r) ==
    /\ run[r].of \in Present
    /\ RequestMove(r, "read", "committed")
    /\ run' = [run EXCEPT ![r].status = "queued"]
    /\ UNCHANGED <<item, chatVars, dataVars, queue, work, lost, faults>>

RunRefused(r) ==
    /\ run[r].of \notin Present
    /\ RequestMove(r, "read", "error")
    /\ UNCHANGED <<run, item, chatVars, dataVars, queue, work, lost, faults>>

\* Mutant: the task is given the id of the dataset instead of the run's.
RunEnqueueWrongId(r) ==
    /\ RequestMove(r, "committed", "ok")
    /\ queue' = Append(queue, RunJob(run[r].of))
    /\ UNCHANGED <<run, item, chatVars, dataVars, work, lost, faults>>

RunEnqueue(r) ==
    /\ RequestMove(r, "committed", "ok")
    /\ queue' = Append(queue, RunJob(r))
    /\ UNCHANGED <<run, item, chatVars, dataVars, work, lost, faults>>

(* The process dies, or the queue cannot be reached, after the commit.        *)
RequestDies(r) ==
    /\ Fault
    /\ RequestMove(r, "committed", "error")
    /\ lost' = lost \cup {r}
    /\ UNCHANGED <<run, item, chatVars, dataVars, queue, work>>

-----------------------------------------------------------------------------
(* The eval worker: a job is popped and runs in a work-horse of its own       *)

Take(w) ==
    /\ work[w].at = "idle" /\ queue # <<>>
    /\ queue' = Tail(queue)
    /\ work' = [work EXCEPT ![w] =
          [Idle EXCEPT !.job = Head(queue),
                       !.at = IF Head(queue) \in {MetricsJob(c) : c \in Chats}
                              THEN "trace" ELSE "load"]]
    /\ UNCHANGED <<chatVars, dataVars, runVars, lost, faults>>

Goto(w, from, to) == work[w].at = from /\ work' = [work EXCEPT ![w].at = to]
Finished(w, from) == work[w].at = from /\ work' = [work EXCEPT ![w] = Idle]
Arg(w) == work[w].job.arg

(* compute_chat_metrics: a trace that is not committed yet is a trace that is *)
(* not there.                                                                 *)
ReadTrace(w) ==
    /\ Goto(w, "trace", IF chat[Arg(w)] = "ok" THEN "score" ELSE "missing")
    /\ UNCHANGED <<chatVars, dataVars, runVars, queue, lost, faults>>

(* update_metrics changes the row only if this later query sees it.           *)
TraceNotFound(w) ==
    /\ Finished(w, "missing")
    /\ metrics' = [metrics EXCEPT ![Arg(w)] =
                      IF @ = "absent" THEN @ ELSE "failed"]
    /\ early' = early \cup {Arg(w)}
    /\ UNCHANGED <<chat, dataVars, runVars, queue, lost, faults>>

\* Mutant: the exception of a metric is not caught, the row stays as it is.
ScoreUncaught(w) ==
    \E status \in {"completed", "pending"} :
        /\ Finished(w, "score")
        /\ metrics' = [metrics EXCEPT ![Arg(w)] = status]
        /\ UNCHANGED <<chat, early, dataVars, runVars, queue, lost, faults>>

(* The scores are stored, or the exception that computing them raised.        *)
Score(w) ==
    \E status \in {"completed", "failed"} :
        /\ Finished(w, "score")
        /\ metrics' = [metrics EXCEPT ![Arg(w)] = status]
        /\ UNCHANGED <<chat, early, dataVars, runVars, queue, lost, faults>>

(* run_evaluation                                                             *)
MarkRunning(w) ==
    /\ Goto(w, "load", "parse")
    /\ run' = [run EXCEPT ![Arg(w)].status = "running"]
    /\ UNCHANGED <<request, item, chatVars, dataVars, queue, lost, faults>>

(* SearchMode(...) raises outside the try: the job ends, the row does not     *)
ParseConfig(w) ==
    /\ work[w].at = "parse"
    /\ IF run[Arg(w)].valid THEN Goto(w, "parse", "list")
                            ELSE Finished(w, "parse")
    /\ UNCHANGED <<chatVars, dataVars, runVars, queue, lost, faults>>

ListItems(w) ==
    /\ work[w].at = "list"
    /\ work' = [work EXCEPT ![w].at = "next", ![w].todo =
          IF dataset[run[Arg(w)].of] = "present" THEN Items ELSE {}]
    /\ UNCHANGED <<chatVars, dataVars, runVars, queue, lost, faults>>

SetItem(w, x, status) == item' = [item EXCEPT ![Arg(w)][x] = status]

CreateRunItem(w) ==
    \E x \in work[w].todo :
        /\ work[w].at = "next"
        /\ work' = [work EXCEPT ![w].at = "evaluate", ![w].item = x,
                                ![w].todo = @ \ {x}]
        /\ SetItem(w, x, "pending")
        /\ UNCHANGED <<request, run, chatVars, dataVars, queue, lost, faults>>

(* Retrieval, reranking, generation or a metric may raise.                    *)
EvaluateItem(w) ==
    /\ \E to \in {"save", "item error"} : Goto(w, "evaluate", to)
    /\ UNCHANGED <<chatVars, dataVars, runVars, queue, lost, faults>>

SaveRunItem(w) ==
    /\ Goto(w, "save", "next")
    /\ SetItem(w, work[w].item, "completed")
    /\ UNCHANGED <<request, run, chatVars, dataVars, queue, lost, faults>>

\* Mutant: the failure of an item is not committed.
FailRunItemUnsaved(w) ==
    /\ Goto(w, "item error", "next")
    /\ UNCHANGED <<chatVars, dataVars, runVars, queue, lost, faults>>

FailRunItem(w) ==
    /\ Goto(w, "item error", "next")
    /\ SetItem(w, work[w].item, "failed")
    /\ UNCHANGED <<request, run, chatVars, dataVars, queue, lost, faults>>

(* aggregate_run_metrics averages the completed items only                    *)
ItemsOf(r, status) == {x \in Items : item[r][x] = status}

MarkCompleted(w) ==
    /\ work[w].todo = {}
    /\ Finished(w, "next")
    /\ run' = [run EXCEPT ![Arg(w)].status = "completed",
                          ![Arg(w)].itemCount =
                              Cardinality(ItemsOf(Arg(w), "completed"))]
    /\ UNCHANGED <<request, item, chatVars, dataVars, queue, lost, faults>>

MarkFailed(w) ==
    /\ Finished(w, "run error")
    /\ run' = [run EXCEPT ![Arg(w)].status = "failed"]
    /\ UNCHANGED <<request, item, chatVars, dataVars, queue, lost, faults>>

-----------------------------------------------------------------------------
(* Faults of a worker.  A timeout of rq is an exception raised once, wherever *)
(* the job is; a database error is one raised by a commit.                    *)

(* Inside the loop's inner try: the item is given up, and the run goes on.    *)
SaveRaises(w) ==
    /\ Fault
    /\ Goto(w, "save", "item error")
    /\ UNCHANGED <<chatVars, dataVars, runVars, queue, lost>>

(* create_run_item raises before its id is known: the item is skipped, and    *)
(* its row was committed or not.                                              *)
CreateRaises(w) ==
    /\ Fault
    /\ work[w].at = "next"
    /\ \E x \in work[w].todo :
          /\ work' = [work EXCEPT ![w].todo = @ \ {x}]
          /\ \/ SetItem(w, x, "pending")
             \/ UNCHANGED item
    /\ UNCHANGED <<request, run, chatVars, dataVars, queue, lost>>

(* In the inner handler, or after the loop: the outer handler fails the run.  *)
LoopRaises(w) ==
    /\ Fault
    /\ \/ Goto(w, "item error", "run error")
       \/ work[w].todo = {} /\ Goto(w, "next", "run error")
    /\ UNCHANGED <<chatVars, dataVars, runVars, queue, lost>>

(* Outside every try, or the work-horse is killed: the job is lost as it is,  *)
(* rq does not repeat it.                                                     *)
JobDies(w) ==
    /\ Fault
    /\ work[w].at # "idle"
    /\ work' = [work EXCEPT ![w] = Idle]
    /\ lost' = lost \cup {Arg(w)}
    /\ UNCHANGED <<chatVars, dataVars, runVars, queue>>

-----------------------------------------------------------------------------
ChatStep(c) == ChatFails(c) \/ Answer(c) \/ CommitChatOnly(c)
               \/ EnqueueMetrics(c) \/ CommitChat(c)
ImportStep(d) == ImportExists(d) \/ ImportRead(d) \/ ImportCommit(d)
                 \/ ImportRefused(d)
RequestStep(r) == RunRead(r) \/ RunCommit(r) \/ RunRefused(r) \/ RunEnqueue(r)
MetricsTask(w) == ReadTrace(w) \/ TraceNotFound(w) \/ Score(w)
RunTask(w) == MarkRunning(w) \/ ParseConfig(w) \/ ListItems(w)
              \/ CreateRunItem(w) \/ EvaluateItem(w) \/ SaveRunItem(w)
              \/ FailRunItem(w) \/ MarkCompleted(w) \/ MarkFailed(w)
WorkerStep(w) == Take(w) \/ MetricsTask(w) \/ RunTask(w)
WorkerFault(w) == SaveRaises(w) \/ CreateRaises(w) \/ LoopRaises(w) \/ JobDies(w)

Next ==
    \/ \E c \in Chats : ChatStep(c) \/ ChatDies(c)
    \/ \E d \in Imports : ImportStep(d)
    \/ \E r \in Runs : RequestStep(r) \/ RequestDies(r)
    \/ \E w \in Workers : WorkerStep(w) \/ WorkerFault(w)

(* A worker keeps working on what it has and polls the queue; a request that  *)
(* was begun is carried through.                                              *)
Fairness ==
    /\ \A w \in Workers : WF_vars(WorkerStep(w))
    /\ \A c \in Chats : WF_vars(CommitChat(c))
    /\ \A r \in Runs : WF_vars(RunEnqueue(r))

Spec == Init /\ [][Next]_vars /\ Fairness

-----------------------------------------------------------------------------
(* Properties                                                                 *)

(* Every variable holds what its column, queue or process can hold.           *)
TypeOK ==
    /\ chat \in [Chats -> {"new", "answered", "enqueued", "ok", "error"}]
    /\ metrics \in [Chats -> {"absent", "pending", "completed", "failed"}]
    /\ early \subseteq Chats
    /\ importer \in [Imports -> {"new", "read", "ok", "conflict", "error"}]
    /\ seen \in [Imports -> Imports \cup {None}]
    /\ dataset \in [Imports -> {"absent", "present", "deleted"}]
    /\ request \in [Runs -> {"new", "not found", "read", "committed", "ok",
                             "error"}]
    /\ run \in [Runs -> [status : {"none", "queued", "running", "completed",
                                  "failed"},
                        of : Imports \cup {None}, valid : BOOLEAN,
                        itemCount : Nat]]
    /\ item \in [Runs -> [Items -> {"none", "pending", "completed", "failed"}]]
    /\ queue \in Seq(Jobs)
    /\ work \in [Workers -> [job : Jobs \cup {None},
                             at : {"idle", "trace", "missing", "score", "load",
                                   "parse", "list", "next", "evaluate", "save",
                                   "item error", "run error"},
                             todo : SUBSET Items, item : Items \cup {None}]]
    /\ lost \subseteq Chats \cup Runs
    /\ faults \in 0..MaxFaults

(* Replacing golden datasets never takes one from under an evaluation run,    *)
(* whichever requests interleave: the dataset of every committed run is       *)
(* there, at most one of a name is, and an answered import disappears only    *)
(* through an answered import that had read it.                               *)
DatasetsKept ==
    /\ \A r \in Committed : run[r].of \in Present
    /\ \A d, e \in Present : d = e
    /\ \A d \in Imports :
          /\ importer[d] = "ok" <=> dataset[d] # "absent"
          /\ dataset[d] = "deleted" =>
                \E e \in Imports : importer[e] = "ok" /\ seen[e] = d

(* get_run_progress                                                           *)
Progress(r) ==
    [total |-> IF run[r].of \in Present THEN Cardinality(Items) ELSE 0,
     completed |-> Cardinality(ItemsOf(r, "completed")),
     failed |-> Cardinality(ItemsOf(r, "failed"))]

(* A run reported completed has dealt with its whole dataset: all its         *)
(* questions are completed or failed but for one per fault, and the item      *)
(* count its means were taken over is the number of the completed ones.       *)
CompletedRunIsWhole ==
    \A r \in Runs : run[r].status = "completed" =>
        LET p == Progress(r) IN
            /\ p.total = Cardinality(Items)
            /\ p.completed + p.failed + faults >= p.total
            /\ run[r].itemCount = p.completed

(* A queued run of a valid configuration is completed or failed in the end,   *)
(* and metrics once pending are completed or failed in the end, unless the    *)
(* job died or, for metrics, ran before the request had committed.            *)
JobsSettle ==
    /\ \A r \in Runs :
          run[r].status = "queued" ~>
              \/ run[r].status \in {"completed", "failed"}
              \/ r \in lost \/ ~ run[r].valid
    /\ \A c \in Chats :
          metrics[c] = "pending" ~>
              \/ metrics[c] \in {"completed", "failed"}
              \/ c \in lost \cup early

(* The plan's promise for chat metrics: pending metrics are filled after the  *)
(* response, so somebody still has to do it.  The code breaks it without any  *)
(* fault: the job is in the queue before the row is committed.                *)
MetricsFilled ==
    \A c \in Chats : metrics[c] = "pending" =>
        \/ \E n \in 1..Len(queue) : queue[n] = MetricsJob(c)
        \/ \E w \in Workers : work[w].job = MetricsJob(c)
=============================================================================
