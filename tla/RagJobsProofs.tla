---------------------------- MODULE RagJobsProofs ----------------------------
(* Theorems about RagJobs for any number of requests, datasets, questions,    *)
(* runs, workers and faults: type correctness, that replacing a dataset never *)
(* takes it from under an evaluation run, and that a completed run has dealt  *)
(* with every question but for one per fault.                                 *)
EXTENDS RagJobs, FiniteSetTheorems, TLAPS

\* TypeOK in the parts that actions change separately.
ChatTypes ==
    /\ chat \in [Chats -> {"new", "answered", "enqueued", "ok", "error"}]
    /\ metrics \in [Chats -> {"absent", "pending", "completed", "failed"}]
    /\ early \subseteq Chats
DataTypes ==
    /\ importer \in [Imports -> {"new", "read", "ok", "conflict", "error"}]
    /\ seen \in [Imports -> Imports \cup {None}]
    /\ dataset \in [Imports -> {"absent", "present", "deleted"}]
RunRow == [status : {"none", "queued", "running", "completed", "failed"},
           of : Imports \cup {None}, valid : BOOLEAN, itemCount : Nat]
RunTypes ==
    /\ request \in [Runs -> {"new", "not found", "read", "committed", "ok", "error"}]
    /\ run \in [Runs -> RunRow]
    /\ item \in [Runs -> [Items -> {"none", "pending", "completed", "failed"}]]
MetricsStages == {"trace", "missing", "score"}
RunStages == {"load", "parse", "list", "next", "evaluate", "save", "item error", "run error"}
Stages == {"idle"} \cup MetricsStages \cup RunStages
Hand == [job : Jobs \cup {None}, at : Stages, todo : SUBSET Items,
         item : Items \cup {None}]
\* A worker is in a stage of the task its job is for.
HandFits(h) ==
    /\ h.at \in MetricsStages => \E c \in Chats : h.job = MetricsJob(c)
    /\ h.at \in RunStages => \E r \in Runs : h.job = RunJob(r)
WorkTypes ==
    /\ work \in [Workers -> Hand]
    /\ \A w \in Workers : HandFits(work[w])
RestTypes == lost \subseteq Chats \cup Runs /\ faults \in 0 .. MaxFaults

TypeInv == ChatTypes /\ DataTypes /\ RunTypes /\ queue \in Seq(Jobs) /\ WorkTypes /\ RestTypes

-----------------------------------------------------------------------------
(* Type correctness.                                                          *)

LEMMA TypeParts == TypeInv => TypeOK
  BY ZenonT(40) DEF TypeInv, TypeOK, ChatTypes, DataTypes, RunTypes, RunRow, WorkTypes, Hand, Stages,
         MetricsStages, RunStages, RestTypes

LEMMA JobTypes ==
  /\ \A c \in Chats : MetricsJob(c) \in Jobs /\ MetricsJob(c).arg = c
  /\ \A r \in Runs : RunJob(r) \in Jobs /\ RunJob(r).arg = r
  /\ \A c, r : MetricsJob(c) # RunJob(r)
  /\ \A j \in Jobs : \/ \E c \in Chats : j = MetricsJob(c)
                     \/ \E r \in Runs : j = RunJob(r)
<1>1. \A c : MetricsJob(c).arg = c /\ MetricsJob(c).task = "compute_chat_metrics"
  BY DEF MetricsJob
<1>2. \A r : RunJob(r).arg = r /\ RunJob(r).task = "run_evaluation"
  BY DEF RunJob
<1>3. "compute_chat_metrics" # "run_evaluation"
  OBVIOUS
<1> QED
  BY <1>1, <1>2, <1>3, Zenon DEF Jobs

LEMMA ArgTypes ==
  ASSUME NEW j \in Jobs
  PROVE  j.arg \in Chats \cup Runs
  BY JobTypes

\* What an action leaves alone keeps its type.
LEMMA Frames ==
  ASSUME TypeInv
  PROVE  /\ UNCHANGED chatVars => ChatTypes'
         /\ UNCHANGED dataVars => DataTypes'
         /\ UNCHANGED runVars => RunTypes'
         /\ UNCHANGED queue => (queue \in Seq(Jobs))'
         /\ UNCHANGED work => WorkTypes'
         /\ UNCHANGED <<lost, faults>> => RestTypes'
  BY DEF TypeInv, chatVars, dataVars, runVars, ChatTypes, DataTypes, RunTypes, WorkTypes,
         RestTypes

LEMMA FaultTypes ==
  ASSUME TypeInv, Fault
  PROVE  faults' \in 0 .. MaxFaults
  BY RagAssumption DEF TypeInv, RestTypes, Fault

LEMMA TypeInit == Init => TypeInv
<1> SUFFICES ASSUME Init PROVE TypeInv
  OBVIOUS
<1>1. queue \in Seq(Jobs) /\ RestTypes
  BY RagAssumption DEF Init, RestTypes
<1>2. ChatTypes /\ DataTypes
  BY DEF Init, ChatTypes, DataTypes
<1>3. RunTypes
  BY DEF Init, RunTypes, RunRow, NoRun
<1>4. WorkTypes
  BY DEF Init, WorkTypes, Idle, Hand, HandFits, Stages, MetricsStages, RunStages
<1> QED
  BY <1>1, <1>2, <1>3, <1>4 DEF TypeInv

LEMMA TypeChat == TypeInv /\ (\E c \in Chats : ChatStep(c) \/ ChatDies(c)) => TypeInv'
<1> SUFFICES ASSUME TypeInv, NEW c \in Chats, ChatStep(c) \/ ChatDies(c) PROVE TypeInv'
  OBVIOUS
<1>1. DataTypes' /\ RunTypes' /\ WorkTypes'
  <2>1. UNCHANGED <<dataVars, runVars, work>>
    BY DEF ChatStep, ChatFails, Answer, CommitChatOnly, EnqueueMetrics, CommitChat, ChatDies
  <2> QED
    BY <2>1, Frames
<1>2. ChatTypes'
  BY DEF TypeInv, ChatTypes, ChatMove, ChatStep, ChatFails, Answer, CommitChatOnly,
         EnqueueMetrics, CommitChat, ChatDies
<1>3. (queue \in Seq(Jobs))'
  <2>1. queue' = queue \/ queue' = Append(queue, MetricsJob(c))
    BY DEF ChatStep, ChatFails, Answer, CommitChatOnly, EnqueueMetrics, CommitChat, ChatDies
  <2> QED
    BY <2>1, JobTypes DEF TypeInv
<1>4. RestTypes'
  <2>1. UNCHANGED lost /\ (UNCHANGED faults \/ Fault)
    BY DEF ChatStep, ChatFails, Answer, CommitChatOnly, EnqueueMetrics, CommitChat, ChatDies
  <2> QED
    BY <2>1, FaultTypes DEF TypeInv, RestTypes
<1> QED
  BY <1>1, <1>2, <1>3, <1>4 DEF TypeInv

LEMMA TypeImport == TypeInv /\ (\E d \in Imports : ImportStep(d)) => TypeInv'
<1> SUFFICES ASSUME TypeInv, NEW d \in Imports, ImportStep(d) PROVE TypeInv'
  OBVIOUS
<1>1. UNCHANGED <<chatVars, runVars, queue, work, lost, faults>>
  BY DEF ImportStep, ImportExists, ImportRead, ImportCommit, ImportRefused
<1>2. DataTypes'
  <2>1. Present # {} => (CHOOSE e \in Present : TRUE) \in Imports
    BY DEF Present
  <2> QED
    BY ZenonT(40), <2>1 DEF TypeInv, DataTypes, ImportMove, ImportStep, ImportExists, ImportRead,
                ImportCommit, ImportRefused
<1> QED
  BY <1>1, <1>2, Frames DEF TypeInv

LEMMA TypeRequest == TypeInv /\ (\E r \in Runs : RequestStep(r) \/ RequestDies(r)) => TypeInv'
<1> SUFFICES ASSUME TypeInv, NEW r \in Runs, RequestStep(r) \/ RequestDies(r) PROVE TypeInv'
  OBVIOUS
<1> USE DEF RequestStep
<1>1. UNCHANGED <<chatVars, dataVars, work>>
  BY DEF RunRead, RunCommit, RunRefused, RunEnqueue, RequestDies
<1>2. RunTypes'
  <2>1. request' \in [Runs -> {"new", "not found", "read", "committed", "ok", "error"}]
    BY DEF TypeInv, RunTypes, RequestMove, RunRead, RunCommit, RunRefused, RunEnqueue,
           RequestDies
  <2>2. run' \in [Runs -> RunRow]
    <3>1. UNCHANGED run \/ RunRead(r) \/ RunCommit(r)
      BY DEF RunRefused, RunEnqueue, RequestDies
    <3>2. CASE RunRead(r)
      <4>1. PICK d \in Imports, valid \in BOOLEAN :
               run' = [run EXCEPT ![r].of = d, ![r].valid = valid]
        BY <3>2 DEF RunRead
      <4> QED
        BY ZenonT(40), <4>1 DEF TypeInv, RunTypes, RunRow
    <3>3. CASE RunCommit(r)
      BY ZenonT(40), <3>3 DEF TypeInv, RunTypes, RunRow, RunCommit
    <3> QED
      BY <3>1, <3>2, <3>3 DEF TypeInv, RunTypes
  <2> QED
    BY <2>1, <2>2 DEF TypeInv, RunTypes, RunRead, RunCommit, RunRefused, RunEnqueue,
                      RequestDies
<1>3. (queue \in Seq(Jobs))'
  <2>1. queue' = queue \/ queue' = Append(queue, RunJob(r))
    BY DEF RunRead, RunCommit, RunRefused, RunEnqueue, RequestDies
  <2> QED
    BY <2>1, JobTypes DEF TypeInv
<1>4. RestTypes'
  <2>1. /\ UNCHANGED faults \/ Fault
        /\ UNCHANGED lost \/ lost' = lost \cup {r}
    BY DEF RunRead, RunCommit, RunRefused, RunEnqueue, RequestDies
  <2> QED
    BY <2>1, FaultTypes DEF TypeInv, RestTypes
<1> QED
  BY <1>1, <1>2, <1>3, <1>4, Frames DEF TypeInv

\* What a worker's step leaves in its hand keeps the type of work.
LEMMA HandTypes ==
  ASSUME TypeInv, NEW w \in Workers
  PROVE  /\ \A h \in Hand : HandFits(h) /\ work' = [work EXCEPT ![w] = h] => WorkTypes'
         /\ \A from, to \in MetricsStages : Goto(w, from, to) => WorkTypes'
         /\ \A from, to \in RunStages : Goto(w, from, to) => WorkTypes'
         /\ work' = [work EXCEPT ![w] = Idle] => WorkTypes'
<1>1. ASSUME NEW h \in Hand, HandFits(h), work' = [work EXCEPT ![w] = h]
      PROVE  WorkTypes'
  BY <1>1 DEF TypeInv, WorkTypes
<1>2. ASSUME NEW from, NEW to, Goto(w, from, to),
             \/ from \in MetricsStages /\ to \in MetricsStages
             \/ from \in RunStages /\ to \in RunStages
      PROVE  WorkTypes'
  <2> DEFINE h == [work[w] EXCEPT !.at = to]
  <2>1. work[w] \in Hand /\ HandFits(work[w]) /\ work[w].at = from
    BY <1>2 DEF TypeInv, WorkTypes, Goto
  <2>2. h \in Hand /\ h.at = to /\ h.job = work[w].job
    BY <1>2, <2>1 DEF Hand, Stages
  <2>3. MetricsStages \cap RunStages = {}
    BY DEF MetricsStages, RunStages
  <2>4. HandFits(h)
    BY <1>2, <2>1, <2>2, <2>3, Zenon DEF HandFits
  <2>5. work' = [work EXCEPT ![w] = h]
    BY <1>2 DEF Goto
  <2> QED
    BY <1>1, <2>2, <2>4, <2>5
<1>3. Idle \in Hand /\ HandFits(Idle)
  BY DEF Idle, Hand, HandFits, Stages, MetricsStages, RunStages
<1> QED
  BY <1>1, <1>2, <1>3

\* The argument of a worker's task is a chat or a run, as its stage says.
LEMMA HandArg ==
  ASSUME TypeInv, NEW w \in Workers
  PROVE  /\ work[w].at \in MetricsStages => Arg(w) \in Chats
         /\ work[w].at \in RunStages => Arg(w) \in Runs
         /\ work[w].at # "idle" => Arg(w) \in Chats \cup Runs
<1>1. work[w].at \in Stages /\ HandFits(work[w])
  BY DEF TypeInv, WorkTypes, Hand
<1> QED
  BY <1>1, JobTypes DEF HandFits, Stages, Arg

LEMMA TypeTake ==
  ASSUME TypeInv, NEW w \in Workers, Take(w)
  PROVE  TypeInv'
<1> DEFINE job == Head(queue)
           mine == job \in {MetricsJob(c) : c \in Chats}
           h == [Idle EXCEPT !.job = job, !.at = IF mine THEN "trace" ELSE "load"]
<1>1. job \in Jobs /\ Tail(queue) \in Seq(Jobs)
  BY DEF TypeInv, Take
<1>2. /\ h \in Hand
      /\ h.job = job /\ h.at = IF mine THEN "trace" ELSE "load"
  BY <1>1 DEF Idle, Hand, Stages, MetricsStages, RunStages
<1>3. HandFits(h)
  <2>1. (h.at \in MetricsStages => mine) /\ (h.at \in RunStages => ~ mine)
    BY <1>2 DEF MetricsStages, RunStages
  <2> QED
    BY <1>1, <1>2, <2>1, JobTypes DEF HandFits
<1>4. WorkTypes'
  <2>1. work' = [work EXCEPT ![w] = h]
    BY DEF Take
  <2> QED
    BY <1>2, <1>3, <2>1, HandTypes
<1>5. UNCHANGED <<chatVars, dataVars, runVars, lost, faults>> /\ queue' = Tail(queue)
  BY DEF Take
<1> QED
  BY <1>1, <1>4, <1>5, Frames DEF TypeInv

LEMMA TypeMetrics ==
  ASSUME TypeInv, NEW w \in Workers, MetricsTask(w)
  PROVE  TypeInv'
<1>1. UNCHANGED <<dataVars, runVars, queue, lost, faults>>
  BY DEF MetricsTask, ReadTrace, TraceNotFound, Score
<1>2. WorkTypes'
  <2>1. CASE ReadTrace(w)
    <3>1. Goto(w, "trace", "score") \/ Goto(w, "trace", "missing")
      BY <2>1 DEF ReadTrace, Goto
    <3> QED
      BY <3>1, HandTypes DEF MetricsStages
  <2>2. CASE TraceNotFound(w) \/ Score(w)
    BY <2>2, HandTypes DEF TraceNotFound, Score, Finished
  <2> QED
    BY <2>1, <2>2 DEF MetricsTask
<1>3. ChatTypes'
  <2>1. CASE ReadTrace(w)
    <3>1. UNCHANGED chatVars
      BY <2>1 DEF ReadTrace
    <3> QED
      BY <3>1, Frames
  <2>2. CASE TraceNotFound(w)
    <3>1. Arg(w) \in Chats
      BY <2>2, HandArg DEF TraceNotFound, Finished, MetricsStages
    <3> QED
      BY <2>2, <3>1 DEF TypeInv, ChatTypes, TraceNotFound
  <2>3. CASE Score(w)
    BY <2>3 DEF TypeInv, ChatTypes, Score
  <2> QED
    BY <2>1, <2>2, <2>3 DEF MetricsTask
<1> QED
  BY <1>1, <1>2, <1>3, Frames DEF TypeInv

\* What a worker may do to the rows of runs and of their items.
LEMMA StatusTypes ==
  ASSUME TypeInv, NEW w \in Workers, NEW s \in {"running", "failed"},
         UNCHANGED <<request, item>>, run' = [run EXCEPT ![Arg(w)].status = s]
  PROVE  RunTypes'
  BY ZenonT(40) DEF TypeInv, RunTypes, RunRow

LEMMA CountTypes ==
  ASSUME TypeInv, NEW w \in Workers, MarkCompleted(w)
  PROVE  RunTypes'
<1> DEFINE done == ItemsOf(Arg(w), "completed")
<1>1. Cardinality(done) \in Nat
  <2>1. done \subseteq Items
    BY DEF ItemsOf
  <2> QED
    BY <2>1, FS_Subset, FS_CardinalityType, RagAssumption
<1>2. run' = [run EXCEPT ![Arg(w)].status = "completed", ![Arg(w)].itemCount = Cardinality(done)]
  BY DEF MarkCompleted
<1>3. run' \in [Runs -> RunRow]
  <2> HIDE DEF done
  <2> QED
    BY ZenonT(40), <1>1, <1>2 DEF TypeInv, RunTypes, RunRow
<1> QED
  BY <1>3 DEF TypeInv, RunTypes, MarkCompleted

LEMMA ItemTypes ==
  ASSUME TypeInv, NEW w \in Workers, NEW x, NEW s \in {"pending", "completed", "failed"},
         UNCHANGED <<request, run>>, SetItem(w, x, s)
  PROVE  RunTypes'
  BY DEF TypeInv, RunTypes, SetItem

\* A question is taken up: the worker has it in hand or gives it up at once.
LEMMA TodoTypes ==
  ASSUME TypeInv, NEW w \in Workers, NEW x \in work[w].todo, work[w].at = "next"
  PROVE  /\ x \in Items
         /\ work' = [work EXCEPT ![w].at = "evaluate", ![w].item = x, ![w].todo = @ \ {x}]
              => WorkTypes'
         /\ work' = [work EXCEPT ![w].todo = @ \ {x}] => WorkTypes'
<1>1. /\ work[w] \in Hand /\ HandFits(work[w]) /\ x \in Items
      /\ "next" \in RunStages \ MetricsStages /\ "evaluate" \in RunStages \ MetricsStages
  BY DEF TypeInv, WorkTypes, Hand, RunStages, MetricsStages
<1>2. ASSUME work' = [work EXCEPT ![w].at = "evaluate", ![w].item = x, ![w].todo = @ \ {x}]
      PROVE  WorkTypes'
  <2> DEFINE h == [work[w] EXCEPT !.at = "evaluate", !.item = x, !.todo = @ \ {x}]
  <2>1. h \in Hand /\ h.at = "evaluate" /\ h.job = work[w].job
    BY <1>1 DEF Hand, Stages
  <2>2. HandFits(h)
    BY <1>1, <2>1 DEF HandFits
  <2>3. work' = [work EXCEPT ![w] = h]
    BY <1>2
  <2> QED
    BY <2>1, <2>2, <2>3, HandTypes
<1>3. ASSUME work' = [work EXCEPT ![w].todo = @ \ {x}]
      PROVE  WorkTypes'
  <2> DEFINE h == [work[w] EXCEPT !.todo = @ \ {x}]
  <2>1. h \in Hand /\ h.at = work[w].at /\ h.job = work[w].job
    BY <1>1 DEF Hand
  <2>2. HandFits(h)
    BY <1>1, <2>1 DEF HandFits
  <2>3. work' = [work EXCEPT ![w] = h]
    BY <1>3
  <2> QED
    BY <2>1, <2>2, <2>3, HandTypes
<1> QED
  BY <1>1, <1>2, <1>3

LEMMA TypeRun ==
  ASSUME TypeInv, NEW w \in Workers, RunTask(w)
  PROVE  TypeInv'
<1>1. UNCHANGED <<chatVars, dataVars, queue, lost, faults>>
  BY DEF RunTask, MarkRunning, ParseConfig, ListItems, CreateRunItem, EvaluateItem,
         SaveRunItem, FailRunItem, MarkCompleted, MarkFailed
<1>2. RunTypes'
  <2>1. CASE MarkRunning(w) \/ MarkFailed(w)
    BY <2>1, StatusTypes DEF MarkRunning, MarkFailed
  <2>2. CASE ParseConfig(w) \/ ListItems(w) \/ EvaluateItem(w)
    <3>1. UNCHANGED runVars
      BY <2>2 DEF ParseConfig, ListItems, EvaluateItem
    <3> QED
      BY <3>1, Frames
  <2>3. CASE CreateRunItem(w) \/ SaveRunItem(w) \/ FailRunItem(w)
    BY <2>3, ItemTypes DEF CreateRunItem, SaveRunItem, FailRunItem
  <2>4. CASE MarkCompleted(w)
    BY <2>4, CountTypes
  <2> QED
    BY <2>1, <2>2, <2>3, <2>4 DEF RunTask
<1>3. WorkTypes'
  <2>1. CASE MarkRunning(w) \/ SaveRunItem(w) \/ FailRunItem(w)
    BY <2>1, HandTypes DEF MarkRunning, SaveRunItem, FailRunItem, RunStages
  <2>2. CASE ParseConfig(w)
    BY <2>2, HandTypes DEF ParseConfig, Finished, RunStages
  <2>3. CASE EvaluateItem(w)
    BY <2>3, HandTypes DEF EvaluateItem, RunStages
  <2>4. CASE MarkCompleted(w) \/ MarkFailed(w)
    BY <2>4, HandTypes DEF MarkCompleted, MarkFailed, Finished
  <2>5. CASE CreateRunItem(w)
    BY <2>5, TodoTypes DEF CreateRunItem
  <2>6. CASE ListItems(w)
    <3>1. PICK t \in SUBSET Items : work' = [work EXCEPT ![w].at = "next", ![w].todo = t]
      BY <2>6 DEF ListItems
    <3> DEFINE h == [work[w] EXCEPT !.at = "next", !.todo = t]
    <3>2. /\ work[w] \in Hand /\ HandFits(work[w]) /\ work[w].at = "list"
          /\ "list" \in RunStages /\ "next" \in RunStages \ MetricsStages
      BY <2>6 DEF ListItems, TypeInv, WorkTypes, RunStages, MetricsStages
    <3>3. h \in Hand /\ h.at = "next" /\ h.job = work[w].job
      BY <3>2 DEF Hand, Stages
    <3>4. HandFits(h)
      BY <3>2, <3>3 DEF HandFits
    <3>5. work' = [work EXCEPT ![w] = h]
      BY <3>1
    <3> QED
      BY <3>3, <3>4, <3>5, HandTypes
  <2> QED
    BY <2>1, <2>2, <2>3, <2>4, <2>5, <2>6 DEF RunTask
<1> QED
  BY <1>1, <1>2, <1>3, Frames DEF TypeInv

LEMMA TypeFault ==
  ASSUME TypeInv, NEW w \in Workers, WorkerFault(w)
  PROVE  TypeInv'
<1>1. UNCHANGED <<chatVars, dataVars, queue>> /\ Fault
  BY DEF WorkerFault, SaveRaises, CreateRaises, LoopRaises, JobDies
<1>2. RunTypes'
  <2>1. UNCHANGED runVars \/ (\E x : UNCHANGED <<request, run>> /\ SetItem(w, x, "pending"))
    BY DEF WorkerFault, SaveRaises, CreateRaises, LoopRaises, JobDies, runVars
  <2> QED
    BY <2>1, Frames, ItemTypes
<1>3. WorkTypes'
  <2>1. CASE SaveRaises(w) \/ LoopRaises(w)
    BY <2>1, HandTypes DEF SaveRaises, LoopRaises, RunStages
  <2>2. CASE CreateRaises(w)
    BY <2>2, TodoTypes DEF CreateRaises
  <2>3. CASE JobDies(w)
    BY <2>3, HandTypes DEF JobDies
  <2> QED
    BY <2>1, <2>2, <2>3 DEF WorkerFault
<1>4. RestTypes'
  <2>1. UNCHANGED lost \/ (work[w].at # "idle" /\ lost' = lost \cup {Arg(w)})
    BY DEF WorkerFault, SaveRaises, CreateRaises, LoopRaises, JobDies
  <2> QED
    BY <1>1, <2>1, FaultTypes, HandArg DEF TypeInv, RestTypes
<1> QED
  BY <1>1, <1>2, <1>3, <1>4, Frames DEF TypeInv

LEMMA TypeStep == TypeInv /\ [Next]_vars => TypeInv'
<1>1. ASSUME TypeInv, UNCHANGED vars PROVE TypeInv'
  BY <1>1, Frames DEF TypeInv, vars
<1>2. ASSUME TypeInv, NEW w \in Workers, WorkerStep(w) \/ WorkerFault(w) PROVE TypeInv'
  BY <1>2, TypeTake, TypeMetrics, TypeRun, TypeFault DEF WorkerStep
<1> QED
  BY <1>1, <1>2, TypeChat, TypeImport, TypeRequest DEF Next

(* Every row, queued job and worker's hand is what its column, its queue or   *)
(* its task can hold, for any number of requests, workers and faults.         *)
THEOREM TypeCorrect == Spec => []TypeOK
<1>1. TypeInv /\ [Next]_vars => TypeInv'
  BY TypeStep
<1> QED
  BY <1>1, TypeInit, TypeParts, PTL DEF Spec

-----------------------------------------------------------------------------
(* Datasets are never taken from under a run.  The invariant says, beside the *)
(* property: a request has its row exactly when it says so, a job is queued   *)
(* or run only for a row that is there, and an import has read a dataset      *)
(* another import answered for.                                               *)

Sent(job) == \A r \in Runs : job = RunJob(r) => r \in Committed
JobsSound ==
    /\ \A n \in DOMAIN queue : Sent(queue[n])
    /\ \A w \in Workers : work[w].at # "idle" => Sent(work[w].job)
RowsSound ==
    \A r \in Runs : /\ request[r] \in {"committed", "ok"} => r \in Committed
                    /\ request[r] \in {"new", "read", "not found"} => r \notin Committed
DataSound ==
    /\ \A d \in Imports : seen[d] # None => seen[d] # d /\ importer[seen[d]] = "ok"
    /\ \A d, e \in Present : d = e
    /\ \A d \in Imports :
          /\ importer[d] = "ok" <=> dataset[d] # "absent"
          /\ dataset[d] = "deleted" =>
                \E e \in Imports : importer[e] = "ok" /\ seen[e] = d
RunsKept == \A r \in Committed : run[r].of \in Present

IInv == TypeInv /\ JobsSound /\ RowsSound /\ DataSound /\ RunsKept

\* The rows of runs are the same as far as datasets are concerned.
RowsFrame ==
    /\ Committed' = Committed
    /\ \A r \in Committed : run'[r].of = run[r].of

LEMMA KeptInit == Init => IInv
<1> SUFFICES ASSUME Init PROVE IInv
  OBVIOUS
<1>1. Committed = {} /\ Present = {}
  BY DEF Init, Committed, Present, NoRun
<1>2. DOMAIN queue = {}
  BY DEF Init
<1>3. JobsSound /\ RowsSound /\ RunsKept
  BY <1>1, <1>2 DEF Init, JobsSound, RowsSound, RunsKept, Idle
<1>4. DataSound
  BY <1>1 DEF Init, DataSound
<1> QED
  BY <1>3, <1>4, TypeInit DEF IInv

LEMMA KeptFrames ==
  ASSUME IInv
  PROVE  /\ UNCHANGED dataVars => DataSound' /\ Present' = Present
         /\ UNCHANGED run => RowsFrame
         /\ RowsFrame /\ UNCHANGED dataVars => RunsKept'
         /\ RowsFrame /\ UNCHANGED request => RowsSound'
         /\ RowsFrame /\ UNCHANGED <<queue, work>> => JobsSound'
<1>1. UNCHANGED dataVars => DataSound' /\ Present' = Present
  BY DEF IInv, DataSound, dataVars, Present
<1>2. UNCHANGED run => RowsFrame
  BY DEF RowsFrame, Committed
<1>3. RowsFrame /\ UNCHANGED dataVars => RunsKept'
  BY <1>1 DEF IInv, RunsKept, RowsFrame
<1>4. RowsFrame /\ UNCHANGED request => RowsSound'
  BY DEF IInv, RowsSound, RowsFrame
<1>5. RowsFrame /\ UNCHANGED <<queue, work>> => JobsSound'
  BY DEF IInv, JobsSound, Sent, RowsFrame
<1> QED
  BY <1>1, <1>2, <1>3, <1>4, <1>5

LEMMA KeptChat == IInv /\ (\E c \in Chats : ChatStep(c) \/ ChatDies(c)) => IInv'
<1> SUFFICES ASSUME IInv, NEW c \in Chats, ChatStep(c) \/ ChatDies(c) PROVE IInv'
  OBVIOUS
<1>1. /\ UNCHANGED <<dataVars, request, run, work>>
      /\ UNCHANGED queue \/ queue' = Append(queue, MetricsJob(c))
  BY DEF ChatStep, ChatFails, Answer, CommitChatOnly, EnqueueMetrics, CommitChat, ChatDies,
         runVars
<1>2. JobsSound'
  <2>1. CASE UNCHANGED queue
    BY <1>1, <2>1, KeptFrames
  <2>2. CASE queue' = Append(queue, MetricsJob(c))
    <3>1. Committed' = Committed /\ Sent(MetricsJob(c))
      BY <1>1, JobTypes DEF Committed, Sent
    <3>2. \A n \in DOMAIN queue' : \/ n \in DOMAIN queue /\ queue'[n] = queue[n]
                                   \/ queue'[n] = MetricsJob(c)
      BY <2>2, JobTypes DEF IInv, TypeInv
    <3> QED
      BY <1>1, <3>1, <3>2 DEF IInv, JobsSound, Sent
  <2> QED
    BY <1>1, <2>1, <2>2
<1> QED
  BY <1>1, <1>2, KeptFrames, TypeChat DEF IInv

LEMMA KeptImport == IInv /\ (\E d \in Imports : ImportStep(d)) => IInv'
<1> SUFFICES ASSUME IInv, NEW d \in Imports, ImportStep(d) PROVE IInv'
  OBVIOUS
<1>1. UNCHANGED <<request, run, queue, work>>
  BY DEF ImportStep, ImportExists, ImportRead, ImportCommit, ImportRefused, runVars
<1>2. DataTypes
  BY DEF IInv, TypeInv
<1>3. DataSound' /\ RunsKept'
  <2>1. CASE ImportExists(d) \/ ImportRefused(d)
    <3>1. /\ UNCHANGED <<seen, dataset>> /\ importer[d] # "ok"
          /\ \E s \in {"conflict", "error"} : importer' = [importer EXCEPT ![d] = s]
      BY <2>1 DEF ImportExists, ImportRefused, ImportMove
    <3>2. DataSound'
      BY <1>2, <3>1 DEF IInv, DataTypes, DataSound, Present
    <3> QED
      BY <1>1, <3>1, <3>2 DEF IInv, RunsKept, Committed, Present
  <2>2. CASE ImportRead(d)
    <3>1. /\ dataset' = dataset /\ importer[d] = "new"
          /\ importer' = [importer EXCEPT ![d] = "read"]
      BY <2>2 DEF ImportRead, ImportMove
    <3>2. PICK e \in Present \cup {None} : seen' = [seen EXCEPT ![d] = e]
      BY <2>2 DEF ImportRead
    <3>3. e # None => e # d /\ importer[e] = "ok" /\ e \in Imports
      BY <3>1 DEF IInv, DataSound, Present
    <3>4. DataSound'
      BY <1>2, <3>1, <3>2, <3>3 DEF IInv, DataTypes, DataSound, Present
    <3> QED
      BY <1>1, <3>1, <3>4 DEF IInv, RunsKept, Committed, Present
  <2>3. CASE ImportCommit(d)
    <3>1. /\ importer[d] = "read" /\ seen' = seen
          /\ importer' = [importer EXCEPT ![d] = "ok"]
          /\ dataset' = [e \in Imports |-> IF e = d THEN "present"
                                           ELSE IF e = seen[d] THEN "deleted" ELSE dataset[e]]
          /\ \A r \in Committed : run[r].of # seen[d]
          /\ Present \ {seen[d]} = {}
      BY <2>3 DEF ImportCommit, ImportMove, Refused
    <3>2. Committed = {} /\ Committed' = {}
      BY <1>1, <3>1 DEF IInv, RunsKept, Committed
    <3>3. /\ Present' = {d}
          /\ \A e \in Imports : dataset'[e] = "deleted" => dataset[e] = "deleted" \/ e = seen[d]
      BY <3>1 DEF Present
    <3>4. \A e \in Imports : seen[e] # None => seen[e] # e /\ importer'[seen[e]] = "ok"
      BY <1>2, <3>1 DEF IInv, DataTypes, DataSound
    <3>5. ASSUME NEW e \in Imports PROVE importer'[e] = "ok" <=> dataset'[e] # "absent"
      BY <1>2, <3>1, RagAssumption DEF IInv, DataTypes, DataSound
    <3>6. ASSUME NEW e \in Imports, dataset'[e] = "deleted"
          PROVE  \E f \in Imports : importer'[f] = "ok" /\ seen'[f] = e
      BY <1>2, <3>1, <3>3, <3>6 DEF IInv, DataTypes, DataSound
    <3>7. DataSound'
      BY <3>1, <3>3, <3>4, <3>5, <3>6 DEF DataSound
    <3> QED
      BY <3>2, <3>7 DEF RunsKept
  <2> QED
    BY <2>1, <2>2, <2>3 DEF ImportStep
<1> QED
  BY <1>1, <1>3, KeptFrames, TypeImport DEF IInv

LEMMA KeptRequest == IInv /\ (\E r \in Runs : RequestStep(r) \/ RequestDies(r)) => IInv'
<1> SUFFICES ASSUME IInv, NEW r \in Runs, RequestStep(r) \/ RequestDies(r) PROVE IInv'
  OBVIOUS
<1>1. UNCHANGED <<dataVars, work>> /\ RunTypes
  BY DEF RequestStep, RunRead, RunCommit, RunRefused, RunEnqueue, RequestDies, IInv, TypeInv
<1>2. JobsSound' /\ RowsSound' /\ RunsKept'
  <2>1. CASE RunRead(r)
    <3>1. PICK d \in Imports, valid \in BOOLEAN :
             run' = [run EXCEPT ![r].of = d, ![r].valid = valid]
      BY <2>1 DEF RunRead
    <3>2. /\ queue' = queue /\ request[r] = "new"
          /\ \E s \in {"read", "not found"} : request' = [request EXCEPT ![r] = s]
      BY <2>1 DEF RunRead, RequestMove
    <3>3. r \notin Committed
      BY <3>2 DEF IInv, RowsSound
    <3>4. RowsFrame
      BY <1>1, <3>1, <3>3 DEF RunTypes, RunRow, RowsFrame, Committed
    <3>5. RowsSound'
      BY <1>1, <3>2, <3>3, <3>4 DEF IInv, RunTypes, RowsSound, RowsFrame
    <3> QED
      BY <1>1, <3>2, <3>4, <3>5, KeptFrames
  <2>2. CASE RunCommit(r)
    <3>1. /\ run[r].of \in Present /\ queue' = queue
          /\ request' = [request EXCEPT ![r] = "committed"]
          /\ run' = [run EXCEPT ![r].status = "queued"]
      BY <2>2 DEF RunCommit, RequestMove
    <3>2. /\ Committed' = Committed \cup {r}
          /\ \A q \in Runs : run'[q].of = run[q].of
      BY <1>1, <3>1 DEF RunTypes, RunRow, Committed
    <3>3. RowsSound'
      BY <1>1, <3>1, <3>2 DEF IInv, RunTypes, RowsSound
    <3>4. JobsSound'
      BY <1>1, <3>1, <3>2 DEF IInv, JobsSound, Sent
    <3>5. RunsKept'
      BY <1>1, <3>1, <3>2, KeptFrames DEF IInv, RunsKept, Committed
    <3> QED
      BY <3>3, <3>4, <3>5
  <2>3. CASE RunRefused(r) \/ RequestDies(r)
    <3>1. /\ UNCHANGED <<run, queue>> /\ request' = [request EXCEPT ![r] = "error"]
      BY <2>3 DEF RunRefused, RequestDies, RequestMove
    <3>2. RowsSound'
      BY <1>1, <3>1 DEF IInv, RunTypes, RowsSound, Committed
    <3> QED
      BY <1>1, <3>1, <3>2, KeptFrames
  <2>4. CASE RunEnqueue(r)
    <3>1. /\ request[r] = "committed" /\ request' = [request EXCEPT ![r] = "ok"]
          /\ run' = run /\ queue' = Append(queue, RunJob(r))
      BY <2>4 DEF RunEnqueue, RequestMove
    <3>2. r \in Committed /\ Committed' = Committed
      BY <3>1 DEF IInv, RowsSound, Committed
    <3>3. RowsSound'
      BY <1>1, <3>1, <3>2 DEF IInv, RunTypes, RowsSound
    <3>4. \A n \in DOMAIN queue' : \/ n \in DOMAIN queue /\ queue'[n] = queue[n]
                                   \/ queue'[n] = RunJob(r)
      BY <3>1, JobTypes DEF IInv, TypeInv
    <3>5. Sent(RunJob(r))
      BY <3>2, JobTypes DEF Sent
    <3>6. JobsSound'
      BY <1>1, <3>2, <3>4, <3>5 DEF IInv, JobsSound, Sent
    <3> QED
      BY <1>1, <3>1, <3>3, <3>6, KeptFrames
  <2> QED
    BY <2>1, <2>2, <2>3, <2>4 DEF RequestStep
<1> QED
  BY <1>1, <1>2, KeptFrames, TypeRequest DEF IInv

\* A worker's step keeps its job or drops it, and leaves the other workers alone.
HandKept(w) ==
    /\ queue' = queue
    /\ \A v \in Workers \ {w} : work'[v] = work[v]
    /\ work'[w].at # "idle" => work[w].at # "idle" /\ work'[w].job = work[w].job

LEMMA HandSteps ==
  ASSUME TypeInv, NEW w \in Workers, WorkerStep(w) \/ WorkerFault(w), ~ Take(w)
  PROVE  HandKept(w)
<1> USE DEF Goto, Finished, Idle, TypeInv, WorkTypes, Hand, HandKept
<1>1. CASE MetricsTask(w)
  BY <1>1 DEF MetricsTask, ReadTrace, TraceNotFound, Score
<1>2. CASE MarkRunning(w)
  BY <1>2 DEF MarkRunning
<1>3. CASE ParseConfig(w)
  BY <1>3 DEF ParseConfig
<1>4. CASE ListItems(w)
  BY <1>4 DEF ListItems
<1>5. CASE CreateRunItem(w)
  BY <1>5 DEF CreateRunItem
<1>6. CASE EvaluateItem(w)
  BY <1>6 DEF EvaluateItem
<1>7. CASE SaveRunItem(w)
  BY <1>7 DEF SaveRunItem
<1>8. CASE FailRunItem(w)
  BY <1>8 DEF FailRunItem
<1>9. CASE MarkCompleted(w)
  BY <1>9 DEF MarkCompleted
<1>10. CASE MarkFailed(w)
  BY <1>10 DEF MarkFailed
<1>11. CASE SaveRaises(w)
  BY <1>11 DEF SaveRaises
<1>12. CASE CreateRaises(w)
  BY <1>12 DEF CreateRaises
<1>13. CASE LoopRaises(w)
  BY <1>13 DEF LoopRaises
<1>14. CASE JobDies(w)
  BY <1>14 DEF JobDies
<1> QED
  BY <1>1, <1>2, <1>3, <1>4, <1>5, <1>6, <1>7, <1>8, <1>9, <1>10, <1>11, <1>12, <1>13,
     <1>14 DEF WorkerStep, RunTask, WorkerFault

LEMMA KeptWorker ==
  ASSUME IInv, NEW w \in Workers, WorkerStep(w) \/ WorkerFault(w)
  PROVE  IInv'
<1>1. UNCHANGED <<dataVars, request>> /\ TypeInv /\ RunTypes
  BY DEF WorkerStep, MetricsTask, RunTask, WorkerFault, Take, ReadTrace, TraceNotFound, Score,
         MarkRunning, ParseConfig, ListItems, CreateRunItem, EvaluateItem, SaveRunItem,
         FailRunItem, MarkCompleted, MarkFailed, SaveRaises, CreateRaises, LoopRaises, JobDies,
         runVars, IInv, TypeInv
<1>2. RowsFrame
  <2>1. CASE UNCHANGED run
    BY <2>1, KeptFrames
  <2>2. CASE MarkRunning(w) \/ MarkCompleted(w) \/ MarkFailed(w)
    <3>1. /\ work[w].at \in RunStages
          /\ \E s \in {"running", "completed", "failed"} :
                \A r \in Runs : /\ run'[r].of = run[r].of
                                /\ run'[r].status = IF r = Arg(w) THEN s ELSE run[r].status
      <4>1. CASE MarkRunning(w)
        BY ZenonT(40), <1>1, <4>1 DEF MarkRunning, Goto, RunStages, RunTypes, RunRow
      <4>2. CASE MarkCompleted(w)
        BY <1>1, <4>2 DEF MarkCompleted, Finished, RunStages, RunTypes, RunRow
      <4>3. CASE MarkFailed(w)
        BY ZenonT(40), <1>1, <4>3 DEF MarkFailed, Finished, RunStages, RunTypes, RunRow
      <4> QED
        BY <2>2, <4>1, <4>2, <4>3
    <3>2. Arg(w) \in Committed
      <4>1. PICK r \in Runs : work[w].job = RunJob(r)
        BY <1>1, <3>1 DEF TypeInv, WorkTypes, HandFits
      <4>2. Arg(w) = r /\ work[w].at # "idle"
        BY <3>1, <4>1, JobTypes DEF Arg, RunStages
      <4> QED
        BY <4>1, <4>2 DEF IInv, JobsSound, Sent
    <3> QED
      BY <3>1, <3>2 DEF RowsFrame, Committed
  <2> QED
    BY <2>1, <2>2 DEF WorkerStep, MetricsTask, RunTask, WorkerFault, Take, ReadTrace,
       TraceNotFound, Score, ParseConfig, ListItems, CreateRunItem, EvaluateItem, SaveRunItem,
       FailRunItem, SaveRaises, CreateRaises, LoopRaises, JobDies, runVars
<1>3. JobsSound'
  <2>1. CASE Take(w)
    <3> DEFINE job == Head(queue)
    <3>1. /\ Sent(job)
          /\ \A n \in DOMAIN Tail(queue) : n + 1 \in DOMAIN queue /\ Tail(queue)[n] = queue[n + 1]
      <4>1. queue \in Seq(Jobs) /\ queue # <<>>
        BY <1>1, <2>1 DEF TypeInv, Take
      <4>2. 1 \in DOMAIN queue /\ job = queue[1]
        BY <4>1
      <4> QED
        BY <4>1, <4>2 DEF IInv, JobsSound
    <3>2. /\ queue' = Tail(queue) /\ work'[w].job = job
          /\ \A v \in Workers \ {w} : work'[v] = work[v]
      BY <1>1, <2>1 DEF Take, TypeInv, WorkTypes, Idle
    <3> HIDE DEF job
    <3> QED
      BY <1>2, <3>1, <3>2 DEF IInv, JobsSound, Sent, RowsFrame
  <2>2. CASE ~ Take(w)
    <3>1. HandKept(w)
      BY <1>1, <2>2, HandSteps
    <3> QED
      BY <1>2, <3>1 DEF HandKept, IInv, JobsSound, Sent, RowsFrame
  <2> QED
    BY <2>1, <2>2
<1>4. TypeInv'
  BY <1>1, TypeTake, TypeMetrics, TypeRun, TypeFault DEF WorkerStep
<1> QED
  BY <1>1, <1>2, <1>3, <1>4, KeptFrames DEF IInv

LEMMA KeptStep == IInv /\ [Next]_vars => IInv'
<1>1. ASSUME IInv, UNCHANGED vars PROVE IInv'
  BY <1>1, KeptFrames, TypeStep DEF IInv, vars, runVars
<1> QED
  BY <1>1, KeptChat, KeptImport, KeptRequest, KeptWorker DEF Next

(* However many imports with replace and evaluation runs interleave: the      *)
(* dataset of every committed run is there, at most one dataset of a name is, *)
(* and an answered dataset disappears only through an import that read it.    *)
THEOREM DatasetsAreKept == Spec => []DatasetsKept
<1>1. IInv => DatasetsKept
  BY DEF IInv, RunsKept, DataSound, DatasetsKept
<1>2. IInv /\ [Next]_vars => IInv'
  BY KeptStep
<1> QED
  BY <1>1, <1>2, KeptInit, PTL DEF Spec

-----------------------------------------------------------------------------
(* A completed run has dealt with its dataset.                                *)

\* A worker that has the job of a run in hand.
Has(w, r) == work[w].at # "idle" /\ work[w].job = RunJob(r)

\* A run has one job, from when its request has enqueued it.
JobOnce ==
    /\ \A m, n \in DOMAIN queue : \A r \in Runs :
           queue[m] = RunJob(r) /\ queue[n] = RunJob(r) => m = n
    /\ \A r \in Runs : \A v, w \in Workers : Has(v, r) /\ Has(w, r) => v = w
    /\ \A r \in Runs : \A w \in Workers : Has(w, r) =>
           request[r] = "ok" /\ \A n \in DOMAIN queue : queue[n] # RunJob(r)
    /\ \A r \in Runs : \A n \in DOMAIN queue : queue[n] = RunJob(r) => request[r] = "ok"

\* All but n of the questions outside T are completed or failed.
Undone(row, T) == {x \in Items \ T : row[x] \notin {"completed", "failed"}}
Few(row, T, n) == Cardinality(Undone(row, T)) <= n

\* What a worker has still to do is all that is undone, but for one per fault.
HandCount(h, row, n) ==
    /\ h.at = "next" => Few(row, h.todo, n)
    /\ h.at \in {"evaluate", "save", "item error"} => Few(row, h.todo \cup {h.item}, n)
RowCount(r) ==
    run[r].status = "completed" =>
        /\ request[r] = "ok"
        /\ \A n \in DOMAIN queue : queue[n] # RunJob(r)
        /\ \A w \in Workers : ~ Has(w, r)
        /\ Few(item[r], {}, faults)
        /\ run[r].itemCount = Cardinality(ItemsOf(r, "completed"))
Counts ==
    /\ \A r \in Runs : \A w \in Workers : Has(w, r) => HandCount(work[w], item[r], faults)
    /\ \A r \in Runs : RowCount(r)

WholeInv == IInv /\ JobOnce /\ Counts

\* More faults excuse more questions.
LEMMA FewMore ==
  ASSUME NEW row, NEW T, NEW m \in Nat, NEW n \in Nat, Few(row, T, m), m <= n,
         NEW new, NEW U, Undone(new, U) \subseteq Undone(row, T)
  PROVE  Few(new, U, n)
<1>1. Undone(row, T) \subseteq Items
  BY DEF Undone
<1>2. /\ IsFiniteSet(Undone(row, T))
      /\ Cardinality(Undone(new, U)) <= Cardinality(Undone(row, T))
      /\ IsFiniteSet(Undone(new, U))
  <2>1. IsFiniteSet(Undone(row, T))
    BY <1>1, FS_Subset, RagAssumption
  <2> QED
    BY <2>1, FS_Subset
<1>3. Cardinality(Undone(row, T)) \in Nat /\ Cardinality(Undone(new, U)) \in Nat
  BY <1>2, FS_CardinalityType
<1> QED
  BY <1>2, <1>3 DEF Few

LEMMA FewSkip ==
  ASSUME NEW row, NEW T, NEW n \in Nat, Few(row, T, n), NEW x, NEW new, NEW U,
         Undone(new, U) \subseteq Undone(row, T) \cup {x}
  PROVE  Few(new, U, n + 1)
<1>1. Undone(row, T) \subseteq Items
  BY DEF Undone
<1>2. IsFiniteSet(Undone(row, T))
  BY <1>1, FS_Subset, RagAssumption
<1> DEFINE S == Undone(row, T) \cup {x}
<1>3. /\ IsFiniteSet(S)
      /\ Cardinality(S) = Cardinality(Undone(row, T))
         \/ Cardinality(S) = Cardinality(Undone(row, T)) + 1
  BY <1>2, FS_AddElement
<1> HIDE DEF S
<1>4. IsFiniteSet(Undone(new, U)) /\ Cardinality(Undone(new, U)) <= Cardinality(S)
  <2>1. Undone(new, U) \in SUBSET S
    BY DEF S
  <2> QED
    BY <1>3, <2>1, FS_Subset
<1>5. /\ Cardinality(Undone(row, T)) \in Nat /\ Cardinality(Undone(new, U)) \in Nat
      /\ Cardinality(S) \in Nat
  BY <1>2, <1>3, <1>4, FS_CardinalityType
<1> QED
  BY <1>3, <1>4, <1>5 DEF Few

LEMMA FewSame ==
  ASSUME NEW row, NEW T, NEW m \in Nat, NEW n \in Nat, Few(row, T, m), m <= n
  PROVE  Few(row, T, n)
BY FewMore

LEMMA WholeInit == Init => JobOnce /\ Counts
<1> SUFFICES ASSUME Init PROVE JobOnce /\ Counts
  OBVIOUS
<1>1. DOMAIN queue = {} /\ \A r, w : w \in Workers => ~ Has(w, r)
  BY DEF Init, Has, Idle
<1>2. \A r \in Runs : run[r].status # "completed"
  BY DEF Init, NoRun
<1> QED
  BY <1>1, <1>2 DEF JobOnce, Counts, RowCount

\* Faults are counted, and what does not touch the jobs of runs keeps their counts.
LEMMA FaultsGrow ==
  ASSUME TypeInv, UNCHANGED faults \/ Fault
  PROVE  faults \in Nat /\ faults' \in Nat /\ faults <= faults'
BY RagAssumption DEF TypeInv, RestTypes, Fault

LEMMA CountsKept ==
  ASSUME TypeInv, Counts, UNCHANGED item, UNCHANGED faults \/ Fault,
         \A r \in Runs : request[r] = "ok" => request'[r] = "ok",
         \A r \in Runs : run'[r].status = "completed" => run'[r] = run[r],
         \A r \in Runs : \A w \in Workers : Has(w, r)' => Has(w, r) /\ work'[w] = work[w],
         \A r \in Runs : request[r] = "ok" =>
             \A n \in DOMAIN queue' : queue'[n] = RunJob(r) =>
                 \E m \in DOMAIN queue : queue[m] = RunJob(r)
  PROVE  Counts'
<1>1. faults \in Nat /\ faults' \in Nat /\ faults <= faults'
  BY FaultsGrow
<1>2. ASSUME NEW r \in Runs, NEW w \in Workers, Has(w, r)'
      PROVE  HandCount(work'[w], item'[r], faults')
  <2>1. HandCount(work[w], item[r], faults) /\ work'[w] = work[w]
    BY <1>2 DEF Counts
  <2> QED
    BY <1>1, <2>1, FewSame DEF HandCount
<1>3. ASSUME NEW r \in Runs, run'[r].status = "completed"
      PROVE  RowCount(r)'
  <2>1. run'[r] = run[r] /\ RowCount(r)
    BY <1>3 DEF Counts
  <2>2. ItemsOf(r, "completed")' = ItemsOf(r, "completed")
    BY DEF ItemsOf
  <2>3. Few(item'[r], {}, faults')
    BY <1>1, <1>3, <2>1, FewSame DEF RowCount
  <2> QED
    BY <1>3, <2>1, <2>2, <2>3 DEF RowCount
<1> QED
  BY <1>2, <1>3 DEF Counts, RowCount

LEMMA WholeChat ==
  ASSUME WholeInv, NEW c \in Chats, ChatStep(c) \/ ChatDies(c)
  PROVE  JobOnce' /\ Counts'
<1>1. /\ UNCHANGED <<request, run, item, work>>
      /\ UNCHANGED queue \/ queue' = Append(queue, MetricsJob(c))
      /\ UNCHANGED faults \/ Fault
  BY DEF ChatStep, ChatFails, Answer, CommitChatOnly, EnqueueMetrics, CommitChat, ChatDies,
         runVars
<1>2. \A n \in DOMAIN queue' : \/ n \in DOMAIN queue /\ queue'[n] = queue[n]
                               \/ queue'[n] = MetricsJob(c)
  BY <1>1 DEF WholeInv, IInv, TypeInv
<1>3. \A n \in DOMAIN queue' : \A r \in Runs :
          queue'[n] = RunJob(r) => n \in DOMAIN queue /\ queue[n] = RunJob(r)
  BY <1>2, JobTypes
<1>4. \A w, r : Has(w, r)' <=> Has(w, r)
  BY <1>1 DEF Has
<1>5. JobOnce'
  BY <1>1, <1>3, <1>4 DEF WholeInv, JobOnce
<1>6. Counts'
  BY <1>1, <1>3, <1>4, CountsKept DEF WholeInv, IInv
<1> QED
  BY <1>5, <1>6

LEMMA WholeRequest ==
  ASSUME WholeInv, NEW r \in Runs, RequestStep(r) \/ RequestDies(r)
  PROVE  JobOnce' /\ Counts'
<1>1. /\ UNCHANGED <<work, item>> /\ (UNCHANGED faults \/ Fault)
      /\ RunTypes /\ queue \in Seq(Jobs) /\ TypeInv /\ Counts
  BY DEF RequestStep, RunRead, RunCommit, RunRefused, RunEnqueue, RequestDies, WholeInv, IInv,
         TypeInv
<1>2. \A w, q : Has(w, q)' <=> Has(w, q)
  BY <1>1 DEF Has
<1>3. CASE ~ RunEnqueue(r)
  <2>1. /\ queue' = queue
        /\ request[r] # "ok" /\ \A q \in Runs \ {r} : request'[q] = request[q]
    <3> USE <1>1 DEF RequestMove, RunTypes
    <3>1. CASE RunRead(r)
      BY <3>1 DEF RunRead
    <3>2. CASE RunCommit(r)
      BY <3>2 DEF RunCommit
    <3>3. CASE RunRefused(r)
      BY <3>3 DEF RunRefused
    <3>4. CASE RequestDies(r)
      BY <3>4 DEF RequestDies
    <3> QED
      BY <1>3, <3>1, <3>2, <3>3, <3>4 DEF RequestStep
  <2>2. \A q \in Runs : run'[q].status = "completed" => run'[q] = run[q]
    <3>1. run[r].status # "completed"
      BY <2>1 DEF WholeInv, Counts, RowCount
    <3>2. CASE RunRead(r)
      <4>1. PICK d \in Imports, valid \in BOOLEAN :
               run' = [run EXCEPT ![r].of = d, ![r].valid = valid]
        BY <3>2 DEF RunRead
      <4>2. run'[r].status = run[r].status /\ \A q \in Runs \ {r} : run'[q] = run[q]
        BY <1>1, <4>1 DEF RunTypes, RunRow
      <4> QED
        BY <3>1, <4>2
    <3>3. CASE RunCommit(r)
      <4>1. run'[r].status = "queued" /\ \A q \in Runs \ {r} : run'[q] = run[q]
        BY <1>1, <3>3 DEF RunCommit, RunTypes, RunRow
      <4> QED
        BY <4>1
    <3>4. CASE RunRefused(r) \/ RequestDies(r)
      BY <3>4 DEF RunRefused, RequestDies
    <3> QED
      BY <1>3, <3>2, <3>3, <3>4 DEF RequestStep
  <2>3. \A q \in Runs : request[q] = "ok" => request'[q] = "ok"
    BY <2>1
  <2>4. JobOnce'
    BY <1>2, <2>1, <2>3 DEF WholeInv, JobOnce
  <2>5. Counts'
    BY <1>1, <1>2, <2>1, <2>2, <2>3, CountsKept
  <2> QED
    BY <2>4, <2>5
<1>4. CASE RunEnqueue(r)
  <2>1. /\ request[r] = "committed" /\ request' = [request EXCEPT ![r] = "ok"]
        /\ run' = run /\ queue' = Append(queue, RunJob(r)) /\ UNCHANGED faults
    BY <1>4 DEF RunEnqueue, RequestMove
  <2> DEFINE L == Len(queue)
  <2>2. /\ L \in Nat /\ DOMAIN queue = 1 .. L /\ DOMAIN queue' = 1 .. (L + 1)
        /\ queue'[L + 1] = RunJob(r) /\ \A n \in 1 .. L : queue'[n] = queue[n]
    BY <1>1, <2>1, JobTypes
  <2> HIDE DEF L
  <2>3. /\ \A n \in DOMAIN queue : queue[n] # RunJob(r)
        /\ \A w \in Workers : ~ Has(w, r)
        /\ request'[r] = "ok" /\ \A q \in Runs \ {r} : request'[q] = request[q]
    BY <1>1, <2>1 DEF WholeInv, JobOnce, RunTypes
  <2>4. \A n \in DOMAIN queue' : \A q \in Runs : queue'[n] = RunJob(q) =>
            \/ n \in DOMAIN queue /\ queue[n] = RunJob(q) /\ q # r
            \/ n = L + 1 /\ q = r
    BY <2>2, <2>3, JobTypes
  <2>5. JobOnce'
    BY <1>2, <2>2, <2>3, <2>4 DEF WholeInv, JobOnce
  <2>6. Counts'
    <3>1. \A q \in Runs : request[q] = "ok" => request'[q] = "ok" /\ q # r
      BY <2>1, <2>3
    <3>2. \A q \in Runs : run'[q].status = "completed" => run'[q] = run[q]
      BY <2>1
    <3>3. \A q \in Runs : request[q] = "ok" =>
             \A n \in DOMAIN queue' : queue'[n] = RunJob(q) =>
                 \E m \in DOMAIN queue : queue[m] = RunJob(q)
      BY <2>4, <3>1
    <3> QED
      BY <1>1, <1>2, <3>1, <3>2, <3>3, CountsKept
  <2> QED
    BY <2>5, <2>6
<1> QED
  BY <1>3, <1>4

LEMMA WholeTake ==
  ASSUME WholeInv, NEW w \in Workers, Take(w)
  PROVE  JobOnce' /\ Counts'
<1> DEFINE job == Head(queue)
<1>1. /\ TypeInv /\ Counts /\ queue \in Seq(Jobs) /\ work \in [Workers -> Hand]
  BY DEF WholeInv, IInv, TypeInv, WorkTypes
<1>2. /\ work[w].at = "idle" /\ queue # <<>> /\ queue' = Tail(queue)
      /\ UNCHANGED <<request, run, item, faults>>
      /\ \A v \in Workers \ {w} : work'[v] = work[v]
      /\ work'[w].job = job /\ work'[w].at \in {"trace", "load"}
  BY <1>1 DEF Take, runVars, Idle
<1>3. /\ 1 \in DOMAIN queue /\ job = queue[1]
      /\ \A n \in DOMAIN queue' :
             n + 1 \in DOMAIN queue /\ n + 1 # 1 /\ queue'[n] = queue[n + 1]
      /\ \A m, n \in DOMAIN queue' : m + 1 = n + 1 => m = n
  <2>1. queue' = Tail(queue)
    BY <1>2
  <2>2. Len(queue) \in Nat /\ Len(queue) # 0 /\ DOMAIN queue = 1 .. Len(queue)
        /\ DOMAIN queue' = 1 .. (Len(queue) - 1)
        /\ \A n \in 1 .. (Len(queue) - 1) : queue'[n] = queue[n + 1]
    BY <1>1, <1>2
  <2>3. job = queue[1]
    BY <1>1, <1>2
  <2> QED
    BY <2>2, <2>3
<1> HIDE DEF job
<1>4. \A r \in Runs : \A v \in Workers : Has(v, r)' <=>
          \/ v # w /\ Has(v, r)
          \/ v = w /\ queue[1] = RunJob(r)
  BY <1>2, <1>3 DEF Has
<1>5. \A r \in Runs : ~ Has(w, r)
  BY <1>2 DEF Has
<1>6. JobOnce'
  <2>1. \A m, n \in DOMAIN queue' : \A r \in Runs :
            queue'[m] = RunJob(r) /\ queue'[n] = RunJob(r) => m = n
    BY <1>3 DEF WholeInv, JobOnce
  <2>2. \A r \in Runs : \A v, u \in Workers : Has(v, r)' /\ Has(u, r)' => v = u
    BY <1>3, <1>4 DEF WholeInv, JobOnce
  <2>3. \A r \in Runs : \A v \in Workers : Has(v, r)' =>
            request'[r] = "ok" /\ \A n \in DOMAIN queue' : queue'[n] # RunJob(r)
    BY <1>2, <1>3, <1>4 DEF WholeInv, JobOnce
  <2>4. \A r \in Runs : \A n \in DOMAIN queue' : queue'[n] = RunJob(r) => request'[r] = "ok"
    BY <1>2, <1>3 DEF WholeInv, JobOnce
  <2> QED
    BY <2>1, <2>2, <2>3, <2>4 DEF JobOnce
<1>7. ASSUME NEW r \in Runs, NEW v \in Workers, Has(v, r)'
      PROVE  HandCount(work'[v], item'[r], faults')
  <2>1. CASE v = w
    BY <1>2, <2>1 DEF HandCount
  <2>2. CASE v # w
    <3>1. Has(v, r) /\ work'[v] = work[v]
      BY <1>2, <1>4, <1>7, <2>2
    <3> QED
      BY <1>1, <1>2, <3>1 DEF Counts
  <2> QED
    BY <2>1, <2>2
<1>8. ASSUME NEW r \in Runs
      PROVE  RowCount(r)'
  <2>1. RowCount(r)
    BY <1>1 DEF Counts
  <2>2. ItemsOf(r, "completed")' = ItemsOf(r, "completed")
    BY <1>2 DEF ItemsOf
  <2> QED
    BY <1>2, <1>3, <1>4, <2>1, <2>2 DEF RowCount
<1> QED
  BY <1>6, <1>7, <1>8 DEF Counts

LEMMA OnceHands ==
  ASSUME JobOnce, NEW w \in Workers, HandKept(w), UNCHANGED request
  PROVE  JobOnce' /\ \A r \in Runs : \A v \in Workers : Has(v, r)' => Has(v, r)
<1>1. ASSUME NEW r \in Runs, NEW v \in Workers, Has(v, r)'
      PROVE  Has(v, r)
  <2>1. CASE v = w
    BY <1>1, <2>1 DEF Has, HandKept
  <2>2. CASE v # w
    BY <1>1, <2>2 DEF Has, HandKept
  <2> QED
    BY <2>1, <2>2
<1>2. queue' = queue
  BY DEF HandKept
<1> QED
  BY <1>1, <1>2 DEF JobOnce

LEMMA WholeMetrics ==
  ASSUME WholeInv, NEW w \in Workers, MetricsTask(w)
  PROVE  JobOnce' /\ Counts'
<1>1. /\ UNCHANGED <<queue, request, run, item, faults>>
      /\ TypeInv /\ JobOnce /\ Counts /\ ~ Take(w)
  <2>1. work[w].at # "idle"
    BY DEF MetricsTask, ReadTrace, TraceNotFound, Score, Goto, Finished
  <2> QED
    BY <2>1 DEF MetricsTask, ReadTrace, TraceNotFound, Score, runVars, WholeInv, IInv, Take
<1>2. HandKept(w)
  BY <1>1, HandSteps DEF WorkerStep
<1>3. JobOnce' /\ \A r \in Runs : \A v \in Workers : Has(v, r)' => Has(v, r)
  BY <1>1, <1>2, OnceHands
<1>4. \A r \in Runs : ~ Has(w, r)
  <2>1. work[w].at \in MetricsStages
    BY DEF MetricsTask, ReadTrace, TraceNotFound, Score, Goto, Finished, MetricsStages
  <2>2. PICK c \in Chats : work[w].job = MetricsJob(c)
    BY <1>1, <2>1 DEF TypeInv, WorkTypes, HandFits
  <2> QED
    BY <2>2, JobTypes DEF Has
<1>5. \A r \in Runs : \A v \in Workers : Has(v, r)' => Has(v, r) /\ work'[v] = work[v]
  BY <1>2, <1>3, <1>4 DEF HandKept
<1>6. Counts'
  BY <1>1, <1>5, CountsKept
<1> QED
  BY <1>3, <1>6

\* A worker's step on the run it has: its hand and, at the end, the row have to count.
LEMMA WholeHand ==
  ASSUME WholeInv, NEW w \in Workers, NEW r \in Runs, Has(w, r), HandKept(w),
         UNCHANGED request, UNCHANGED faults \/ Fault,
         \A q \in Runs \ {r} : item'[q] = item[q] /\ run'[q] = run[q],
         work'[w].at # "idle" => HandCount(work'[w], item'[r], faults'),
         run'[r].status = "completed" =>
             /\ work'[w].at = "idle" /\ Few(item'[r], {}, faults')
             /\ run'[r].itemCount = Cardinality(ItemsOf(r, "completed")')
  PROVE  JobOnce' /\ Counts'
<1>1. TypeInv /\ JobOnce /\ Counts
  BY DEF WholeInv, IInv
<1>2. JobOnce' /\ \A q \in Runs : \A v \in Workers : Has(v, q)' => Has(v, q)
  BY <1>1, OnceHands
<1>3. faults \in Nat /\ faults' \in Nat /\ faults <= faults'
  BY <1>1, FaultsGrow
<1>4. /\ \A v \in Workers : Has(v, r) => v = w
      /\ request[r] = "ok" /\ \A n \in DOMAIN queue : queue[n] # RunJob(r)
  BY <1>1 DEF JobOnce
<1>5. \A q \in Runs : Has(w, q) => q = r
  <2>1. \A q \in Runs : RunJob(q) = RunJob(r) => q = r
    BY JobTypes
  <2> QED
    BY <2>1 DEF Has
<1>6. ASSUME NEW q \in Runs, NEW v \in Workers, Has(v, q)'
      PROVE  HandCount(work'[v], item'[q], faults')
  <2>1. CASE v = w
    <3>1. q = r
      BY <1>2, <1>5, <1>6, <2>1
    <3> QED
      BY <1>6, <2>1, <3>1 DEF Has
  <2>2. CASE v # w
    <3>1. Has(v, q) /\ q # r /\ work'[v] = work[v]
      BY <1>2, <1>4, <1>6, <2>2 DEF HandKept
    <3>2. HandCount(work[v], item[q], faults) /\ item'[q] = item[q]
      BY <1>1, <3>1 DEF Counts
    <3> QED
      BY <1>3, <3>1, <3>2, FewSame DEF HandCount
  <2> QED
    BY <2>1, <2>2
<1>7. ASSUME NEW q \in Runs, run'[q].status = "completed"
      PROVE  RowCount(q)'
  <2>1. CASE q = r
    <3>1. \A v \in Workers : ~ Has(v, r)'
      BY <1>2, <1>4, <1>7, <2>1 DEF Has
    <3> QED
      BY <1>4, <1>7, <2>1, <3>1 DEF RowCount, HandKept
  <2>2. CASE q # r
    <3>1. RowCount(q) /\ run'[q] = run[q] /\ item'[q] = item[q]
      BY <1>1, <2>2 DEF Counts
    <3>2. ItemsOf(q, "completed")' = ItemsOf(q, "completed")
      BY <3>1 DEF ItemsOf
    <3>3. Few(item'[q], {}, faults')
      BY <1>3, <1>7, <3>1, FewSame DEF RowCount
    <3> QED
      BY <1>2, <1>7, <3>1, <3>2, <3>3 DEF RowCount, HandKept
  <2> QED
    BY <2>1, <2>2
<1> QED
  BY <1>2, <1>6, <1>7 DEF Counts, RowCount

\* What a task of a run is about.
LEMMA RunHand ==
  ASSUME WholeInv, NEW w \in Workers, work[w].at \in RunStages
  PROVE  \E r \in Runs :
             /\ Has(w, r) /\ Arg(w) = r /\ r \in Committed
             /\ HandCount(work[w], item[r], faults)
             /\ run[r].status # "completed"
<1>1. TypeInv /\ Counts
  BY DEF WholeInv, IInv
<1>2. PICK r \in Runs : work[w].job = RunJob(r)
  BY <1>1 DEF TypeInv, WorkTypes, HandFits
<1>3. Has(w, r) /\ Arg(w) = r
  BY <1>2, JobTypes DEF Has, Arg, RunStages
<1>4. r \in Committed
  BY <1>2, <1>3 DEF WholeInv, IInv, JobsSound, Sent, Has
<1>5. HandCount(work[w], item[r], faults) /\ run[r].status # "completed"
  BY <1>1, <1>3 DEF Counts, RowCount
<1> QED
  BY <1>3, <1>4, <1>5

\* What setting the status of a question does to what is undone.
LEMMA SetUndone ==
  ASSUME NEW row, NEW new, NEW x, NEW T,
         \A y \in Items \ {x} : new[y] = row[y]
  PROVE  /\ Undone(new, T \cup {x}) \subseteq Undone(row, T \cup {x})
         /\ new[x] \in {"completed", "failed"} => Undone(new, T) \subseteq Undone(row, T \cup {x})
         /\ Undone(new, T \ {x}) \subseteq Undone(row, T) \cup {x}
BY DEF Undone

LEMMA WholeRun ==
  ASSUME WholeInv, NEW w \in Workers, RunTask(w)
  PROVE  JobOnce' /\ Counts'
<1>1. /\ work[w].at \in RunStages /\ UNCHANGED <<request, queue, faults>>
      /\ TypeInv /\ RunTypes /\ work \in [Workers -> Hand]
  <2>1. work[w].at \in RunStages
    BY DEF RunTask, MarkRunning, ParseConfig, ListItems, CreateRunItem, EvaluateItem,
           SaveRunItem, FailRunItem, MarkCompleted, MarkFailed, Goto, Finished, RunStages
  <2> QED
    BY <2>1 DEF RunTask, MarkRunning, ParseConfig, ListItems, CreateRunItem, EvaluateItem,
                SaveRunItem, FailRunItem, MarkCompleted, MarkFailed, runVars, WholeInv, IInv,
                TypeInv, WorkTypes
<1>2. PICK r \in Runs : /\ Has(w, r) /\ Arg(w) = r /\ r \in Committed
                        /\ HandCount(work[w], item[r], faults)
                        /\ run[r].status # "completed"
  BY <1>1, RunHand
<1>3. HandKept(w)
  <2>1. ~ Take(w)
    BY <1>1 DEF Take, RunStages
  <2> QED
    BY <1>1, <2>1, HandSteps DEF WorkerStep
<1>4. work[w].todo \in SUBSET Items /\ faults \in Nat
  <2>1. work[w] \in Hand
    BY <1>1
  <2> QED
    BY <1>1, <2>1, RagAssumption DEF Hand, TypeInv, RestTypes
<1> DEFINE Done == /\ \A q \in Runs \ {r} : item'[q] = item[q] /\ run'[q] = run[q]
                   /\ work'[w].at # "idle" => HandCount(work'[w], item'[r], faults')
                   /\ run'[r].status = "completed" =>
                          /\ work'[w].at = "idle" /\ Few(item'[r], {}, faults')
                          /\ run'[r].itemCount = Cardinality(ItemsOf(r, "completed")')
<1>5. SUFFICES Done
  BY <1>1, <1>2, <1>3, WholeHand
<1>6. CASE MarkRunning(w) \/ MarkFailed(w)
  <2>1. /\ item' = item /\ run'[r].status # "completed"
        /\ \A q \in Runs \ {r} : run'[q] = run[q]
    <3>1. PICK s \in {"running", "failed"} : run' = [run EXCEPT ![r].status = s]
      BY <1>2, <1>6 DEF MarkRunning, MarkFailed
    <3>2. run'[r].status = s /\ \A q \in Runs \ {r} : run'[q] = run[q]
      BY <1>1, <3>1 DEF RunTypes, RunRow
    <3> QED
      BY <1>6, <3>2 DEF MarkRunning, MarkFailed
  <2>2. work'[w].at \in {"parse", "idle"}
    <3>1. CASE MarkRunning(w)
      BY <1>1, <3>1 DEF MarkRunning, Goto, Hand
    <3>2. CASE MarkFailed(w)
      BY <1>1, <3>2 DEF MarkFailed, Finished, Idle
    <3> QED
      BY <1>6, <3>1, <3>2
  <2> QED
    BY <2>1, <2>2 DEF HandCount
<1>7. CASE ParseConfig(w)
  <2>1. UNCHANGED <<item, run>> /\ work'[w].at \in {"list", "idle"}
    BY <1>1, <1>7 DEF ParseConfig, runVars, Goto, Finished, Idle, Hand
  <2> QED
    BY <1>2, <2>1 DEF HandCount
<1>8. CASE ListItems(w)
  <2>1. dataset[run[r].of] = "present"
    BY <1>2 DEF WholeInv, IInv, RunsKept, Present
  <2>2. /\ UNCHANGED <<item, run>> /\ work'[w].at = "next" /\ work'[w].todo = Items
    BY <1>1, <1>2, <1>8, <2>1 DEF ListItems, runVars, Hand
  <2>3. Few(item[r], Items, faults)
    <3>1. Undone(item[r], Items) = {}
      BY DEF Undone
    <3> QED
      BY <1>4, <3>1, FS_EmptySet DEF Few
  <2> QED
    BY <1>1, <1>2, <2>2, <2>3 DEF HandCount
<1>9. CASE CreateRunItem(w)
  <2>1. PICK x \in work[w].todo :
           /\ work[w].at = "next"
           /\ work' = [work EXCEPT ![w].at = "evaluate", ![w].item = x, ![w].todo = @ \ {x}]
           /\ SetItem(w, x, "pending") /\ run' = run
    BY <1>9 DEF CreateRunItem
  <2>2. /\ work'[w].at = "evaluate" /\ work'[w].item = x /\ work'[w].todo = work[w].todo \ {x}
    BY <1>1, <2>1 DEF Hand
  <2>3. /\ \A q \in Runs \ {r} : item'[q] = item[q]
        /\ \A y \in Items \ {x} : item'[r][y] = item[r][y]
    BY <1>1, <1>2, <2>1 DEF SetItem, RunTypes
  <2>4. work[w].todo \cup {x} = work[w].todo /\ (work[w].todo \ {x}) \cup {x} = work[w].todo
    BY <2>1
  <2>5. Few(item[r], work[w].todo, faults)
    BY <1>2, <2>1 DEF HandCount
  <2>6. Undone(item'[r], work[w].todo \cup {x}) \subseteq Undone(item[r], work[w].todo \cup {x})
    BY <2>3, SetUndone
  <2>7. Few(item'[r], (work[w].todo \ {x}) \cup {x}, faults)
    <3>1. Undone(item'[r], work[w].todo) \subseteq Undone(item[r], work[w].todo)
      BY <2>4, <2>6
    <3>2. Few(item'[r], work[w].todo, faults)
      BY <1>4, <2>5, <3>1, FewMore
    <3> QED
      BY <2>4, <3>2
  <2> QED
    BY <1>1, <1>2, <2>1, <2>2, <2>3, <2>7 DEF HandCount
<1>10. CASE EvaluateItem(w)
  <2>1. /\ UNCHANGED <<item, run>> /\ work[w].at = "evaluate"
        /\ work'[w].at \in {"save", "item error"}
        /\ work'[w].todo = work[w].todo /\ work'[w].item = work[w].item
    BY <1>1, <1>10 DEF EvaluateItem, runVars, Goto, Hand
  <2> QED
    BY <1>1, <1>2, <2>1 DEF HandCount
<1>11. CASE SaveRunItem(w) \/ FailRunItem(w)
  <2> DEFINE x == work[w].item
  <2>1. /\ run' = run /\ work[w].at \in {"save", "item error"} /\ work'[w].at = "next"
        /\ work'[w].todo = work[w].todo
    BY <1>1, <1>11 DEF SaveRunItem, FailRunItem, Goto, Hand
  <2>2. PICK s \in {"completed", "failed"} : SetItem(w, x, s)
    BY <1>11 DEF SaveRunItem, FailRunItem
  <2>3. /\ \A q \in Runs \ {r} : item'[q] = item[q]
        /\ \A y \in Items \ {x} : item'[r][y] = item[r][y]
        /\ x \in Items => item'[r][x] = s
    BY <1>1, <1>2, <2>2 DEF SetItem, RunTypes
  <2>4. Few(item[r], work[w].todo \cup {x}, faults)
    BY <1>2, <2>1 DEF HandCount
  <2>5. Undone(item'[r], work[w].todo) \subseteq Undone(item[r], work[w].todo \cup {x})
    BY <2>3 DEF Undone
  <2>6. Few(item'[r], work[w].todo, faults)
    BY <1>4, <2>4, <2>5, FewMore
  <2> QED
    BY <1>1, <1>2, <2>1, <2>3, <2>6 DEF HandCount
<1>12. CASE MarkCompleted(w)
  <2>1. /\ work[w].todo = {} /\ work[w].at = "next" /\ item' = item /\ work'[w].at = "idle"
        /\ run' = [run EXCEPT ![r].status = "completed",
                              ![r].itemCount = Cardinality(ItemsOf(r, "completed"))]
    BY <1>1, <1>2, <1>12 DEF MarkCompleted, Finished, Idle
  <2>2. /\ run'[r].itemCount = Cardinality(ItemsOf(r, "completed"))
        /\ \A q \in Runs \ {r} : run'[q] = run[q]
    <3>1. run \in [Runs -> RunRow] /\ run[r] \in RunRow
      BY <1>1 DEF RunTypes
    <3>2. run'[r] = [[run[r] EXCEPT !.status = "completed"] EXCEPT
                        !.itemCount = Cardinality(ItemsOf(r, "completed"))]
      BY <2>1, <3>1
    <3>3. run'[r].itemCount = Cardinality(ItemsOf(r, "completed"))
      BY <3>1, <3>2 DEF RunRow
    <3>4. \A q \in Runs \ {r} : run'[q] = run[q]
      BY <2>1, <3>1
    <3> QED
      BY <3>3, <3>4
  <2>3. ItemsOf(r, "completed")' = ItemsOf(r, "completed")
    BY <2>1 DEF ItemsOf
  <2>4. Few(item[r], {}, faults)
    BY <1>2, <2>1 DEF HandCount
  <2> QED
    BY <1>1, <2>1, <2>2, <2>3, <2>4
<1> QED
  BY <1>6, <1>7, <1>8, <1>9, <1>10, <1>11, <1>12 DEF RunTask

LEMMA WholeFault ==
  ASSUME WholeInv, NEW w \in Workers, WorkerFault(w)
  PROVE  JobOnce' /\ Counts'
<1>1. /\ UNCHANGED <<request, queue, run>> /\ Fault
      /\ TypeInv /\ RunTypes /\ work \in [Workers -> Hand] /\ JobOnce /\ Counts
      /\ work[w].at # "idle"
  <2>1. work[w].at # "idle" /\ Fault
    BY DEF WorkerFault, SaveRaises, CreateRaises, LoopRaises, JobDies, Goto
  <2> QED
    BY <2>1 DEF WorkerFault, SaveRaises, CreateRaises, LoopRaises, JobDies, runVars, WholeInv,
                IInv, TypeInv, WorkTypes
<1>2. HandKept(w)
  <2>1. ~ Take(w)
    BY <1>1 DEF Take
  <2> QED
    BY <1>1, <2>1, HandSteps
<1>3. faults \in Nat /\ faults' = faults + 1 /\ faults' \in Nat
  BY <1>1, RagAssumption DEF TypeInv, RestTypes, Fault
<1>4. CASE JobDies(w)
  <2>1. item' = item /\ work'[w].at = "idle"
    BY <1>1, <1>4 DEF JobDies, runVars, Idle
  <2>2. \A r \in Runs : \A v \in Workers : Has(v, r)' => Has(v, r) /\ work'[v] = work[v]
    <3>1. \A r \in Runs : ~ Has(w, r)'
      BY <2>1 DEF Has
    <3> QED
      BY <1>1, <1>2, <3>1, OnceHands DEF HandKept
  <2>3. Counts'
    BY <1>1, <2>1, <2>2, CountsKept
  <2> QED
    BY <1>1, <1>2, <2>3, OnceHands
<1>5. CASE SaveRaises(w) \/ CreateRaises(w) \/ LoopRaises(w)
  <2>1. work[w].at \in RunStages
    BY <1>5 DEF SaveRaises, CreateRaises, LoopRaises, Goto, RunStages
  <2>2. PICK r \in Runs : /\ Has(w, r) /\ Arg(w) = r /\ r \in Committed
                          /\ HandCount(work[w], item[r], faults)
                          /\ run[r].status # "completed"
    BY <2>1, RunHand
  <2> DEFINE Done == /\ \A q \in Runs \ {r} : item'[q] = item[q]
                     /\ work'[w].at # "idle" => HandCount(work'[w], item'[r], faults')
  <2>3. SUFFICES Done
    BY <1>1, <1>2, <2>2, WholeHand
  <2>4. CASE SaveRaises(w)
    <3>1. /\ item' = item /\ work[w].at = "save" /\ work'[w].at = "item error"
          /\ work'[w].todo = work[w].todo /\ work'[w].item = work[w].item
      BY <1>1, <2>4 DEF SaveRaises, Goto, runVars, Hand
    <3>2. Few(item[r], work[w].todo \cup {work[w].item}, faults)
      BY <2>2, <3>1 DEF HandCount
    <3>3. Few(item[r], work[w].todo \cup {work[w].item}, faults')
      BY <1>3, <3>2, FewSame
    <3> QED
      BY <3>1, <3>3 DEF HandCount
  <2>5. CASE CreateRaises(w)
    <3>1. PICK x \in work[w].todo :
             /\ work[w].at = "next"
             /\ work' = [work EXCEPT ![w].todo = @ \ {x}]
             /\ SetItem(w, x, "pending") \/ UNCHANGED item
      BY <2>5 DEF CreateRaises
    <3>2. work'[w].at = "next" /\ work'[w].todo = work[w].todo \ {x}
      BY <1>1, <3>1 DEF Hand
    <3>3. /\ \A q \in Runs \ {r} : item'[q] = item[q]
          /\ \A y \in Items \ {x} : item'[r][y] = item[r][y]
      <4>1. CASE SetItem(w, x, "pending")
        BY <1>1, <2>2, <4>1 DEF SetItem, RunTypes
      <4>2. CASE UNCHANGED item
        BY <4>2
      <4> QED
        BY <3>1, <4>1, <4>2
    <3>4. Undone(item'[r], work[w].todo \ {x}) \subseteq Undone(item[r], work[w].todo) \cup {x}
      BY <3>3, SetUndone
    <3>5. Few(item[r], work[w].todo, faults)
      BY <2>2, <3>1 DEF HandCount
    <3>6. Few(item'[r], work[w].todo \ {x}, faults')
      BY <1>3, <3>4, <3>5, FewSkip
    <3> QED
      BY <3>2, <3>3, <3>6 DEF HandCount
  <2>6. CASE LoopRaises(w)
    <3>1. \/ Goto(w, "item error", "run error")
          \/ Goto(w, "next", "run error")
      BY <2>6 DEF LoopRaises
    <3>2. item' = item /\ work' = [work EXCEPT ![w].at = "run error"]
      BY <2>6, <3>1 DEF LoopRaises, Goto, runVars
    <3>3. item' = item /\ work'[w].at = "run error"
      BY <1>1, <3>2 DEF Hand
    <3> QED
      BY <3>3 DEF HandCount
  <2> QED
    BY <1>5, <2>4, <2>5, <2>6
<1> QED
  BY <1>4, <1>5 DEF WorkerFault

LEMMA WholeStep == WholeInv /\ [Next]_vars => WholeInv'
<1> SUFFICES ASSUME WholeInv, [Next]_vars PROVE JobOnce' /\ Counts'
  BY KeptStep DEF WholeInv
<1>1. TypeInv /\ JobOnce /\ Counts
  BY DEF WholeInv, IInv
<1>2. ASSUME UNCHANGED <<runVars, queue, work, faults>>
      PROVE  JobOnce' /\ Counts'
  <2>1. /\ UNCHANGED <<request, run, item, queue, work, faults>>
        /\ \A w, r : Has(w, r)' <=> Has(w, r)
    BY <1>2 DEF runVars, Has
  <2>2. JobOnce'
    BY <1>1, <2>1 DEF JobOnce
  <2>3. Counts'
    BY <1>1, <2>1, CountsKept
  <2> QED
    BY <2>2, <2>3
<1>3. ASSUME NEW d \in Imports, ImportStep(d)
      PROVE  UNCHANGED <<runVars, queue, work, faults>>
  BY <1>3 DEF ImportStep, ImportExists, ImportRead, ImportCommit, ImportRefused
<1>4. ASSUME UNCHANGED vars
      PROVE  UNCHANGED <<runVars, queue, work, faults>>
  BY <1>4 DEF vars
<1> QED
  BY <1>2, <1>3, <1>4, WholeChat, WholeRequest, WholeTake, WholeMetrics, WholeRun, WholeFault
     DEF Next, WorkerStep

(* CompletedRunIsWhole: an evaluation run that is reported completed has      *)
(* completed or failed every question of its dataset but for one per fault,   *)
(* and its means are over as many answers as it reports                       *)
(* (run_evaluation, tasks.py; aggregate_run_metrics).                         *)
THEOREM CompletedRunsAreWhole == Spec => []CompletedRunIsWhole
<1>1. ASSUME WholeInv
      PROVE  CompletedRunIsWhole
  <2> SUFFICES ASSUME NEW r \in Runs, run[r].status = "completed"
               PROVE  /\ Progress(r).total = Cardinality(Items)
                      /\ Progress(r).completed + Progress(r).failed + faults
                            >= Progress(r).total
                      /\ run[r].itemCount = Progress(r).completed
    BY DEF CompletedRunIsWhole
  <2> DEFINE C == ItemsOf(r, "completed")
             F == ItemsOf(r, "failed")
             U == Undone(item[r], {})
  <2>1. run[r].of \in Present
    BY <1>1 DEF WholeInv, IInv, RunsKept, Committed
  <2>2. Few(item[r], {}, faults) /\ run[r].itemCount = Cardinality(C)
    BY <1>1 DEF WholeInv, Counts, RowCount
  <2>3. Items = (C \cup F) \cup U /\ C \subseteq Items /\ F \subseteq Items /\ U \subseteq Items
    BY DEF ItemsOf, Undone
  <2>4. /\ Progress(r).total = Cardinality(Items) /\ Progress(r).completed = Cardinality(C)
        /\ Progress(r).failed = Cardinality(F)
    BY <2>1 DEF Progress
  <2>5. Cardinality(U) <= faults
    BY <2>2 DEF Few
  <2> HIDE DEF C, F, U
  <2>6. /\ IsFiniteSet(C) /\ IsFiniteSet(F) /\ IsFiniteSet(U)
        /\ Cardinality(C) \in Nat /\ Cardinality(F) \in Nat /\ Cardinality(U) \in Nat
    BY <2>3, FS_Subset, FS_CardinalityType, RagAssumption
  <2>7. /\ IsFiniteSet(C \cup F)
        /\ Cardinality(C \cup F) = Cardinality(C) + Cardinality(F) - Cardinality(C \cap F)
        /\ Cardinality(C \cap F) \in Nat
    BY <2>6, FS_Union, FS_Intersection, FS_CardinalityType
  <2>8. /\ Cardinality(Items) =
               Cardinality(C \cup F) + Cardinality(U) - Cardinality((C \cup F) \cap U)
        /\ Cardinality((C \cup F) \cap U) \in Nat
    BY <2>3, <2>6, <2>7, FS_Union, FS_Intersection, FS_CardinalityType
  <2>9. faults \in Nat
    BY <1>1, RagAssumption DEF WholeInv, IInv, TypeInv, RestTypes
  <2>10. Cardinality(C) + Cardinality(F) + faults >= Cardinality(Items)
    BY <2>5, <2>6, <2>7, <2>8, <2>9
  <2> QED
    BY <2>2, <2>4, <2>10
<1>2. Init => WholeInv
  BY KeptInit, WholeInit DEF WholeInv
<1> QED
  BY <1>1, <1>2, WholeStep, PTL DEF Spec
=============================================================================
