-------------------------- MODULE FileManagerProofs --------------------------
(***************************************************************************)
(* Theorems about FileManager for any number of uploads, requests and      *)
(* faults.                                                                 *)
(***************************************************************************)
EXTENDS FileManager, FiniteSetTheorems, SequenceTheorems, TLAPS

-----------------------------------------------------------------------------
(* Types. *)

\* TypeOK in the parts that actions change separately, without the queue's length.
HandlerTypes ==
    /\ phase \in [Requests -> {"new", "open", "read", "duplicate", "committed",
                               "answered", "died"}]
    /\ op \in [Requests -> {"none", "upload", "append", "rename", "delete"}]
    /\ file \in [Requests -> Uploads]
    /\ seen \in [Requests -> Statuses]
    /\ payload \in [Requests -> Names \cup {NoPath}]
    /\ content \in [Uploads -> Seq(Pieces)]
JobTypes ==
    /\ job \in [Requests -> {"none", "pending", "processing", "success", "failed"}]
    /\ queue \in Seq(Requests)
RowTypes ==
    /\ status \in [Uploads -> Statuses]
    /\ path \in [Uploads -> Names \cup {NoPath}]
    /\ hash \in [Uploads -> Seq(Pieces)]
DiskTypes == disk \in [Uploads -> [Names -> Seq(Pieces)]]
WorkerTypes ==
    /\ current \in Requests \cup {NoJob}
    /\ step \in {"idle", "load", "run", "check", "commit", "cleanup", "fail"}
    /\ loaded \in Statuses
FaultTypes == torn \subseteq Uploads /\ faults \in 0 .. MaxFaults

TypeInv == HandlerTypes /\ JobTypes /\ RowTypes /\ DiskTypes /\ WorkerTypes /\ FaultTypes

\* A running worker has a request, which says what it is about.
Taken ==
    /\ step # "idle" => current \in Requests
    /\ step # "idle" /\ op[current] \in {"append", "rename"} => payload[current] \in Names

LEMMA Members ==
    /\ Uploads \subseteq Requests /\ Changes \subseteq Requests
    /\ Appended \in Pieces /\ Original \in Names /\ NewNames \subseteq Names
    /\ NoPath \notin Names /\ NoJob \notin Requests /\ Uploads \cap Changes = {}
    /\ MaxFaults \in Nat
  BY FileManagerAssumption DEF Requests, Pieces, Names

LEMMA TypeInit == Init => TypeInv
  <1> SUFFICES ASSUME Init PROVE TypeInv
    OBVIOUS
  <1> USE Members DEF Init
  <1>1. HandlerTypes
    <2>1. content \in [Uploads -> Seq(Pieces)]
      BY FileManagerAssumption
    <2>2. QED
      BY <2>1 DEF HandlerTypes, Statuses
  <1>2. JobTypes
    BY DEF JobTypes
  <1>3. RowTypes /\ DiskTypes
    BY DEF RowTypes, DiskTypes, Statuses
  <1>4. WorkerTypes /\ FaultTypes
    BY DEF WorkerTypes, FaultTypes, Statuses
  <1>5. QED
    BY <1>1, <1>2, <1>3, <1>4 DEF TypeInv

LEMMA TypeAccept ==
    ASSUME TypeInv, NEW c \in Changes, NEW from, NEW to \in {"open", "read"},
           NEW o \in {"append", "rename", "delete"}, NEW a \in Names \cup {NoPath},
           Accept(c, from, to, o, a)
    PROVE  TypeInv'
  <1>1. HandlerTypes'
    BY Members DEF TypeInv, HandlerTypes, RowTypes, Accept
  <1>2. UNCHANGED <<job, queue, rowVars, disk, workerVars, torn, faults>>
    BY DEF Accept
  <1>3. QED
    BY <1>1, <1>2 DEF TypeInv, JobTypes, RowTypes, DiskTypes, WorkerTypes, FaultTypes, rowVars,
                      workerVars

LEMMA TypeArrive == TypeInv /\ Arrive => TypeInv'
  <1> SUFFICES ASSUME TypeInv, Arrive PROVE TypeInv'
    OBVIOUS
  <1>1. ASSUME NEW u \in Uploads, RequestUpload(u) PROVE TypeInv'
    <2>1. /\ phase' \in {[phase EXCEPT ![u] = "read"], [phase EXCEPT ![u] = "duplicate"]}
          /\ UNCHANGED <<op, file, seen, payload, content, job, queue, rowVars, disk,
                         workerVars, torn, faults>>
      BY <1>1 DEF RequestUpload
    <2>2. HandlerTypes'
      BY <2>1 DEF TypeInv, HandlerTypes
    <2>3. QED
      BY <2>1, <2>2 DEF TypeInv, JobTypes, RowTypes, DiskTypes, WorkerTypes, FaultTypes,
                        rowVars, workerVars
  <1>2. ASSUME NEW c \in Changes,
               InitAppend(c) \/ CompleteAppend(c) \/ RequestRename(c) \/ RequestDelete(c)
        PROVE  TypeInv'
    <2>1. path[file[c]] \in Names \cup {NoPath}
      BY Members DEF TypeInv, HandlerTypes, RowTypes
    <2>2. QED
      BY <1>2, <2>1, Members, TypeAccept DEF InitAppend, CompleteAppend, RequestRename,
         RequestDelete
  <1>3. QED
    BY <1>1, <1>2 DEF Arrive

LEMMA TypeHandle == TypeInv /\ (\E r \in Requests : Handle(r) \/ ApiDies(r)) => TypeInv'
  <1> SUFFICES ASSUME TypeInv, NEW r \in Requests, Handle(r) \/ ApiDies(r) PROVE TypeInv'
    OBVIOUS
  <1> USE DEF TypeInv, rowVars, workerVars
  <1>1. DiskTypes' /\ WorkerTypes' /\ FaultTypes'
    BY Members DEF Handle, CommitUpload, CommitDuplicate, CommitChange, Enqueue, ApiDies, Fault,
           DiskTypes, WorkerTypes, FaultTypes
  <1>2. HandlerTypes'
    BY Members DEF Handle, CommitUpload, CommitDuplicate, CommitChange, Enqueue, ApiDies,
       HandlerTypes
  <1>3. JobTypes'
    BY Members DEF Handle, CommitUpload, CommitDuplicate, CommitChange, Enqueue, ApiDies,
       JobTypes
  <1>4. RowTypes'
    <2>1. CASE r \in Uploads /\ (CommitUpload(r) \/ CommitDuplicate(r))
      <3>1. content[r] \in Seq(Pieces)
        BY <2>1 DEF HandlerTypes
      <3>2. \E s \in {"processing", "duplicate"} :
                /\ status' = [status EXCEPT ![r] = s]
                /\ hash' = [hash EXCEPT ![r] = content[r]] /\ path' = path
        BY <2>1 DEF CommitUpload, CommitDuplicate
      <3>3. QED
        BY <2>1, <3>1, <3>2 DEF RowTypes, Statuses
    <2>2. CASE CommitChange(r)
      BY <2>2 DEF CommitChange, Flushed, RowTypes, HandlerTypes, Statuses
    <2>3. CASE Enqueue(r) \/ ApiDies(r)
      BY <2>3 DEF Enqueue, ApiDies, RowTypes
    <2>4. QED
      BY <2>1, <2>2, <2>3 DEF Handle
  <1>5. QED
    BY <1>1, <1>2, <1>3, <1>4

LEMMA TypeWorker ==
    ASSUME TypeInv, Taken, Worker \/ JobRaises \/ WorkerDies
    PROVE  TypeInv'
  <1> USE Members DEF TypeInv
  <1>1. /\ UNCHANGED <<handlerVars, queue>> \/ TakeJob
        /\ UNCHANGED handlerVars
    BY DEF Worker, TakeJob, LoadFile, MoveUpload, AppendToFile, CheckAppended, RenameFile,
           UnlinkFile, CommitJob, Cleanup, FailJob, JobRaises, WorkerDies, Raise, ChangeDisk,
           GoIdle, Succeed
  <1>2. HandlerTypes'
    BY <1>1 DEF HandlerTypes, handlerVars
  <1>3. CASE TakeJob
    <2>1. queue \in Seq(Requests) /\ queue # <<>>
      BY <1>3 DEF TakeJob, JobTypes
    <2>2. Head(queue) \in Requests /\ Tail(queue) \in Seq(Requests)
      BY <2>1
    <2>3. JobTypes' /\ WorkerTypes'
      BY <1>3, <2>2 DEF TakeJob, JobTypes, WorkerTypes
    <2>4. QED
      BY <1>2, <1>3, <2>3 DEF TakeJob, RowTypes, DiskTypes, FaultTypes, rowVars
  <1>4. CASE ~ TakeJob
    <2>0. step # "idle"
      BY <1>4 DEF Worker, LoadFile, MoveUpload, AppendToFile, CheckAppended, RenameFile,
           UnlinkFile, CommitJob, Cleanup, FailJob, JobRaises, WorkerDies, Running
    <2>1. current \in Requests /\ file[current] \in Uploads
      BY <2>0 DEF Taken, HandlerTypes
    <2>2. JobTypes'
      BY <1>1, <1>4, <2>1 DEF JobTypes, Worker, LoadFile, MoveUpload, AppendToFile,
         CheckAppended, RenameFile, UnlinkFile, CommitJob, Cleanup, FailJob, JobRaises,
         WorkerDies, Raise, ChangeDisk, GoIdle, Succeed
    <2>3. WorkerTypes'
      BY <1>4, <2>1 DEF WorkerTypes, RowTypes, Statuses, Worker, LoadFile, MoveUpload, AppendToFile,
         CheckAppended, RenameFile, UnlinkFile, CommitJob, Cleanup, FailJob, JobRaises,
         WorkerDies, Raise, ChangeDisk, GoIdle, Succeed
    <2>4. FaultTypes'
      BY <1>4, <2>1 DEF FaultTypes, Fault, Worker, LoadFile, MoveUpload, AppendToFile,
         CheckAppended, RenameFile, UnlinkFile, CommitJob, Cleanup, FailJob, JobRaises,
         WorkerDies, Raise, ChangeDisk, GoIdle, Succeed
    <2>5. DiskTypes'
      <3>1. disk[file[current]] \in [Names -> Seq(Pieces)]
        BY <2>1 DEF DiskTypes
      <3>2. ASSUME NEW f \in Uploads, NEW c \in [Names -> Seq(Pieces)],
                   disk' = [disk EXCEPT ![f] = c]
            PROVE  DiskTypes'
        BY <3>2 DEF DiskTypes
      <3>3. CASE MoveUpload
        <4>1. CASE current \in Uploads
          <5>1. [disk[current] EXCEPT ![Original] = content[current]] \in [Names -> Seq(Pieces)]
            BY <4>1 DEF DiskTypes, HandlerTypes
          <5>2. QED
            BY <3>2, <3>3, <4>1, <5>1 DEF MoveUpload, ChangeDisk
        <4>2. CASE current \notin Uploads
          <5>1. disk' = disk
            BY <3>3, <4>2 DEF MoveUpload, ChangeDisk, DiskTypes
          <5>2. QED
            BY <5>1 DEF DiskTypes
        <4>3. QED
          BY <4>1, <4>2
      <3>4. CASE AppendToFile
        <4> DEFINE f == file[current]
                   c == [disk[f] EXCEPT ![payload[current]] = Append(@, Appended)]
        <4>1. c \in [Names -> Seq(Pieces)]
          BY <3>1, <2>1, <3>4, <2>0 DEF Taken, AppendToFile, Running
        <4>2. disk' = disk \/ disk' = [disk EXCEPT ![f] = c]
          BY <3>4 DEF AppendToFile, ChangeDisk
        <4> HIDE DEF c
        <4>3. QED
          BY <2>1, <3>2, <4>1, <4>2 DEF DiskTypes
      <3>5. CASE RenameFile
        <4> DEFINE f == file[current]
                   c == [n \in Names |-> CASE n = payload[current] -> disk[f][path[f]]
                            [] n = path[f] /\ n # payload[current] -> <<>>
                            [] OTHER -> disk[f][n]]
        <4>1. disk' = disk \/ (disk' = [disk EXCEPT ![f] = c] /\ path[f] # NoPath)
          BY <3>5 DEF RenameFile, ChangeDisk
        <4>2. path[f] # NoPath => c \in [Names -> Seq(Pieces)]
          <5>1. path[f] # NoPath => path[f] \in Names
            BY <2>1 DEF RowTypes
          <5>2. path[f] # NoPath => disk[f][path[f]] \in Seq(Pieces)
            BY <3>1, <5>1
          <5>3. <<>> \in Seq(Pieces)
            OBVIOUS
          <5>4. \A n \in Names : disk[f][n] \in Seq(Pieces)
            BY <3>1
          <5>5. QED
            BY <5>2, <5>3, <5>4
        <4> HIDE DEF c
        <4>3. QED
          BY <2>1, <3>2, <4>1, <4>2 DEF DiskTypes
      <3>6. CASE UnlinkFile
        <4> DEFINE c == [n \in Names |-> IF n = path[file[current]] THEN <<>>
                                         ELSE disk[file[current]][n]]
        <4>1. c \in [Names -> Seq(Pieces)]
          BY <3>1
        <4>2. disk' = [disk EXCEPT ![file[current]] = c]
          BY <3>6 DEF UnlinkFile, ChangeDisk
        <4> HIDE DEF c
        <4>3. QED
          BY <2>1, <3>2, <4>1, <4>2
      <3>7. CASE disk' = disk
        BY <3>7 DEF DiskTypes
      <3>8. QED
        BY <1>4, <3>3, <3>4, <3>5, <3>6, <3>7 DEF Worker, LoadFile, CheckAppended, CommitJob,
           Cleanup, FailJob, JobRaises, WorkerDies, GoIdle, Succeed
    <2>6. RowTypes'
      <3>1. CASE CommitJob
        <4> DEFINE f == file[current]
        <4>1. PICK s \in Statuses, p \in Names \cup {NoPath}, h \in Seq(Pieces) :
                 /\ status' = [status EXCEPT ![f] = s]
                 /\ path' = [path EXCEPT ![f] = p]
                 /\ hash' = [hash EXCEPT ![f] = h]
          <5>1. status[f] \in Statuses /\ path[f] \in Names \cup {NoPath}
                /\ hash[f] \in Seq(Pieces) /\ content[f] \in Seq(Pieces)
                /\ payload[current] \in Names \cup {NoPath}
            BY <2>1 DEF RowTypes, HandlerTypes
          <5>2. op[current] = "append" => disk[f][payload[current]] \in Seq(Pieces)
            BY <2>0, <2>1 DEF DiskTypes, Taken
          <5> DEFINE s == Flushed(status[f], loaded, Result)
                     p == CASE op[current] = "upload" -> Original
                            [] op[current] = "rename" -> payload[current]
                            [] OTHER -> path[f]
                     h == CASE op[current] = "upload" -> content[f]
                            [] op[current] = "append" -> disk[f][payload[current]]
                            [] OTHER -> hash[f]
          <5>3. s \in Statuses
            BY <5>1 DEF Flushed, Result, Statuses
          <5>4. p \in Names \cup {NoPath}
            BY <5>1
          <5>5. h \in Seq(Pieces)
            BY <5>1, <5>2
          <5>6. /\ status' = [status EXCEPT ![f] = s]
                /\ path' = [path EXCEPT ![f] = p]
                /\ hash' = [hash EXCEPT ![f] = h]
            BY <2>1, <3>1 DEF CommitJob, RowTypes
          <5> HIDE DEF s, p, h
          <5>7. QED
            BY <5>3, <5>4, <5>5, <5>6
        <4>2. QED
          BY <2>1, <4>1 DEF RowTypes
      <3>2. CASE FailJob
        BY <2>1, <3>2 DEF FailJob, RowTypes, Flushed, Statuses
      <3>3. CASE UNCHANGED rowVars
        BY <3>3 DEF RowTypes, rowVars
      <3>4. QED
        BY <1>4, <3>1, <3>2, <3>3 DEF Worker, LoadFile, MoveUpload, AppendToFile,
           CheckAppended, RenameFile, UnlinkFile, Cleanup, JobRaises, WorkerDies, Raise,
           ChangeDisk
    <2>7. QED
      BY <1>2, <2>2, <2>3, <2>4, <2>5, <2>6
  <1>5. QED
    BY <1>3, <1>4

-----------------------------------------------------------------------------
(* Requests, queue and worker. *)

\* A request makes one job, which is in the queue once, and then with the worker.
QueueInv ==
    /\ \A i, j \in DOMAIN queue : queue[i] = queue[j] => i = j
    /\ \A i \in DOMAIN queue : phase[queue[i]] = "answered" /\ job[queue[i]] = "pending"
    /\ \A r \in Requests :
          /\ phase[r] \in {"new", "open", "read", "duplicate"} => job[r] = "none"
          /\ phase[r] = "committed" => job[r] = "pending"
    /\ current = NoJob <=> step = "idle"
    /\ step # "idle" => phase[current] = "answered"
    /\ step \in {"load", "run", "check", "commit"} => job[current] = "processing"
    /\ step = "cleanup" => job[current] = "success"
    /\ step = "fail" => \/ job[current] = "processing"
                        \/ (file[current] \in torn /\ job[current] = "success")

\* What a request is about; a row is there before anything is asked of the file.
HandlerInv ==
    /\ \A u \in Uploads : file[u] = u
    /\ \A r \in Requests :
          /\ op[r] = "upload" <=> r \in Uploads
          /\ phase[r] \notin {"new", "open"} /\ op[r] \in {"append", "rename"} =>
                 payload[r] \in Names
          /\ status[file[r]] = "none" => phase[r] \in {"new", "read", "duplicate", "died"}
    /\ \A c \in Changes : status[file[c]] = "none" => phase[c] = "new"
    /\ \A u \in Uploads : phase[u] \in {"new", "read", "duplicate"} => status[u] = "none"

\* While a job runs, only handlers change the file's status.
LoadedInv ==
    step \in {"run", "check", "commit", "fail"} =>
        status[file[current]] \in {loaded, "processing"}

HandlerStep(r) ==
    \/ r \in Uploads /\ RequestUpload(r)
    \/ r \in Changes /\ (InitAppend(r) \/ CompleteAppend(r) \/ RequestRename(r) \/ RequestDelete(r))
    \/ Handle(r) \/ ApiDies(r)
WorkerStep == Worker \/ JobRaises \/ WorkerDies

LEMMA NextSteps == Next => (\E r \in Requests : HandlerStep(r)) \/ WorkerStep
  BY Members DEF Next, Arrive, FaultStep, HandlerStep, WorkerStep

\* The steps of a handler, as far as its request, its job and the queue are concerned.
Asks(r) ==
    /\ phase[r] \in {"new", "open"} /\ phase'[r] \in {"open", "read", "duplicate"}
    /\ phase'[r] = "duplicate" => r \in Uploads
    /\ UNCHANGED <<job, queue, rowVars>>
Commits(r) ==
    /\ phase[r] = "read" /\ phase'[r] = "committed"
    /\ job' = [job EXCEPT ![r] = "pending"]
    /\ UNCHANGED <<op, payload, queue>>
Records(r) ==
    /\ r \in Uploads /\ phase[r] = "duplicate" /\ phase'[r] = "answered"
    /\ UNCHANGED <<op, payload, job, queue>>
Pushes(r) ==
    /\ phase[r] = "committed" /\ phase'[r] = "answered"
    /\ queue' = Append(queue, r)
    /\ UNCHANGED <<op, payload, job, rowVars>>
Dies(r) ==
    /\ phase[r] \in {"read", "duplicate", "committed"} /\ phase'[r] = "died"
    /\ UNCHANGED <<op, payload, job, queue, rowVars>>

LEMMA HandlerFrame ==
    ASSUME TypeInv, NEW r \in Requests, HandlerStep(r)
    PROVE  /\ UNCHANGED <<file, content, path, disk, workerVars, torn>>
           /\ \A q \in Requests \ {r} : /\ phase'[q] = phase[q] /\ op'[q] = op[q]
                                        /\ payload'[q] = payload[q] /\ job'[q] = job[q]
           /\ Asks(r) \/ Commits(r) \/ Records(r) \/ Pushes(r) \/ Dies(r)
  <1> USE Members DEF TypeInv, HandlerTypes, JobTypes, rowVars, workerVars
  <1>1. CASE r \in Uploads /\ RequestUpload(r)
    BY <1>1 DEF RequestUpload, Asks
  <1>2. CASE r \in Changes /\ (InitAppend(r) \/ CompleteAppend(r) \/ RequestRename(r)
                              \/ RequestDelete(r))
    BY <1>2 DEF InitAppend, CompleteAppend, RequestRename, RequestDelete, Accept, Asks
  <1>3. CASE r \in Uploads /\ CommitUpload(r)
    BY <1>3 DEF CommitUpload, Commits
  <1>4. CASE r \in Uploads /\ CommitDuplicate(r)
    BY <1>4 DEF CommitDuplicate, Records
  <1>5. CASE CommitChange(r)
    BY <1>5 DEF CommitChange, Commits
  <1>6. CASE Enqueue(r)
    BY <1>6 DEF Enqueue, Pushes
  <1>7. CASE ApiDies(r)
    BY <1>7 DEF ApiDies, Dies
  <1>8. QED
    BY <1>1, <1>2, <1>3, <1>4, <1>5, <1>6, <1>7 DEF HandlerStep, Handle

\* The worker goes on with its job, which was in the queue when it took it.
Ends == step' = "idle" /\ current' = NoJob
WorkerMove ==
    \/ /\ step = "idle" /\ queue # <<>> /\ step' = "load"
       /\ current' = Head(queue) /\ queue' = Tail(queue)
       /\ job' = [job EXCEPT ![Head(queue)] = "processing"]
    \/ /\ step \in {"load", "run", "check"} /\ step' \in {"run", "check", "commit"}
       /\ UNCHANGED <<current, queue, job>>
    \/ /\ step \in {"run", "check", "commit", "cleanup"} /\ step' = "fail"
       /\ step # "run" => file[current] \in torn'
       /\ UNCHANGED <<current, queue, job>>
    \/ /\ step = "commit" /\ step' = "cleanup" /\ job' = [job EXCEPT ![current] = "success"]
       /\ UNCHANGED <<current, queue>>
    \/ /\ step = "fail" /\ Ends /\ job' = [job EXCEPT ![current] = "failed"]
       /\ queue' = queue
    \/ /\ step # "idle" /\ Ends
       /\ UNCHANGED <<queue, job>>

LEMMA WorkerFrame ==
    ASSUME TypeInv, WorkerStep
    PROVE  /\ UNCHANGED handlerVars /\ torn \subseteq torn'
           /\ WorkerMove
  <1> USE DEF Ends, WorkerMove, Raise, ChangeDisk, GoIdle, Running, Succeed
  <1>1. CASE TakeJob
    BY <1>1 DEF TakeJob
  <1>2. CASE LoadFile
    BY <1>2 DEF LoadFile
  <1>3. CASE MoveUpload \/ UnlinkFile
    BY <1>3 DEF MoveUpload, UnlinkFile
  <1>4. CASE AppendToFile
    BY <1>4 DEF AppendToFile
  <1>5. CASE CheckAppended
    BY <1>5 DEF CheckAppended
  <1>6. CASE RenameFile
    BY <1>6 DEF RenameFile
  <1>7. CASE CommitJob
    BY <1>7 DEF CommitJob
  <1>8. CASE Cleanup \/ WorkerDies
    BY <1>8 DEF Cleanup, WorkerDies
  <1>9. CASE FailJob
    BY <1>9 DEF FailJob
  <1>10. CASE JobRaises
    BY <1>10 DEF JobRaises
  <1>11. QED
    BY <1>1, <1>2, <1>3, <1>4, <1>5, <1>6, <1>7, <1>8, <1>9, <1>10 DEF WorkerStep, Worker

LEMMA QueueHandler ==
    ASSUME TypeInv, QueueInv, NEW r \in Requests, HandlerStep(r)
    PROVE  QueueInv'
  <1>1. /\ UNCHANGED <<file, workerVars, torn>>
        /\ \A q \in Requests \ {r} : phase'[q] = phase[q] /\ job'[q] = job[q]
        /\ Asks(r) \/ Commits(r) \/ Records(r) \/ Pushes(r) \/ Dies(r)
    BY HandlerFrame
  <1>2. /\ queue \in Seq(Requests) /\ current \in Requests \cup {NoJob}
        /\ job \in [Requests -> {"none", "pending", "processing", "success", "failed"}]
        /\ step # "idle" => current \in Requests
    BY DEF TypeInv, JobTypes, WorkerTypes, QueueInv
  <1>3. phase[r] \notin {"answered", "died"}
    BY <1>1 DEF Asks, Commits, Records, Pushes, Dies
  <1>4. step # "idle" => current \in Requests \ {r}
    BY <1>2, <1>3 DEF QueueInv
  <1>5. CASE ~ Pushes(r)
    <2>1. queue' = queue
      BY <1>1, <1>5 DEF Asks, Commits, Records, Dies
    <2>2. \A i \in DOMAIN queue : queue[i] \in Requests \ {r}
      BY <1>2, <1>3 DEF QueueInv
    <2>3. /\ phase'[r] \in {"open", "read", "duplicate"} => job'[r] = "none"
          /\ phase'[r] = "committed" => job'[r] = "pending"
          /\ phase'[r] # "new"
      BY <1>1, <1>2, <1>5 DEF Asks, Commits, Records, Dies, QueueInv
    <2>4. QED
      BY <1>1, <1>2, <1>4, <2>1, <2>2, <2>3 DEF QueueInv, workerVars
  <1>6. CASE Pushes(r)
    <2> DEFINE n == Len(queue)
    <2>1. /\ n \in Nat /\ DOMAIN queue = 1 .. n /\ DOMAIN queue' = 1 .. (n + 1)
          /\ queue'[n + 1] = r /\ \A i \in 1 .. n : queue'[i] = queue[i]
      BY <1>2, <1>6 DEF Pushes
    <2> HIDE DEF n
    <2>2. \A i \in DOMAIN queue : queue[i] \in Requests \ {r}
      BY <1>2, <1>3 DEF QueueInv
    <2>3. job' = job /\ job[r] = "pending" /\ phase'[r] = "answered"
      BY <1>6 DEF Pushes, QueueInv
    <2>4. \A i \in DOMAIN queue' : i = n + 1 \/ i \in DOMAIN queue
      BY <2>1
    <2>5. QED
      BY <1>1, <1>2, <1>4, <2>1, <2>2, <2>3, <2>4 DEF QueueInv, workerVars
  <1>7. QED
    BY <1>5, <1>6

LEMMA QueueWorker ==
    ASSUME TypeInv, QueueInv, WorkerStep
    PROVE  QueueInv'
  <1>1. UNCHANGED <<phase, file>> /\ torn \subseteq torn' /\ WorkerMove
    BY WorkerFrame DEF handlerVars
  <1>2. /\ queue \in Seq(Requests) /\ current \in Requests \cup {NoJob}
        /\ job \in [Requests -> {"none", "pending", "processing", "success", "failed"}]
        /\ step # "idle" => current \in Requests
        /\ NoJob \notin Requests
        /\ step \in {"idle", "load", "run", "check", "commit", "cleanup", "fail"}
    BY Members DEF TypeInv, JobTypes, WorkerTypes, QueueInv
  <1>3. CASE queue' = queue
    <2>1. \A i \in DOMAIN queue : queue[i] \in Requests /\ queue[i] # current
      BY <1>2 DEF QueueInv
    <2>2. \A q \in Requests \ {current} : job'[q] = job[q]
      BY <1>1, <1>2, <1>3 DEF WorkerMove
    <2>3. step # "idle"
      BY <1>1, <1>2, <1>3 DEF WorkerMove
    <2>4. /\ current = NoJob <=> step = "idle"
          /\ step' # "idle" => current' = current
          /\ step' = "idle" <=> current' = NoJob
      BY <1>1, <1>2, <1>3, <2>3 DEF WorkerMove, Ends, QueueInv
    <2>5. /\ step' \in {"load", "run", "check", "commit"} => job'[current] = "processing"
          /\ step' = "cleanup" => job'[current] = "success"
          /\ step' = "fail" => \/ job'[current] = "processing"
                              \/ (file[current] \in torn' /\ job'[current] = "success")
      <3>1. step' \in {"load", "run", "check", "commit"} =>
                step \in {"load", "run", "check"} /\ job' = job
        BY <1>1, <2>3 DEF WorkerMove, Ends
      <3>2. step' = "cleanup" => job' = [job EXCEPT ![current] = "success"]
        BY <1>1, <2>3 DEF WorkerMove, Ends
      <3>3. step' = "fail" => /\ step \in {"run", "check", "commit", "cleanup"} /\ job' = job
                              /\ step = "cleanup" => file[current] \in torn'
        BY <1>1, <2>3 DEF WorkerMove, Ends
      <3>4. step \in {"load", "run", "check", "commit"} => job[current] = "processing"
        BY DEF QueueInv
      <3>5. step = "cleanup" => job[current] = "success"
        BY DEF QueueInv
      <3>6. step' = "cleanup" => job'[current] = "success"
        BY <1>2, <2>3, <3>2
      <3>7. QED
        BY <3>1, <3>3, <3>4, <3>5, <3>6
    <2>6. phase[current] = "answered"
      BY <2>3 DEF QueueInv
    <2>7. QED
      BY <1>1, <1>2, <1>3, <2>1, <2>2, <2>3, <2>4, <2>5, <2>6 DEF QueueInv
  <1>4. CASE queue' # queue
    <2> DEFINE r == Head(queue)
    <2>1. /\ step = "idle" /\ step' = "load" /\ current' = r /\ queue' = Tail(queue)
          /\ queue # <<>> /\ job' = [job EXCEPT ![r] = "processing"]
      BY <1>1, <1>4 DEF WorkerMove
    <2>2. /\ 1 \in DOMAIN queue /\ r = queue[1] /\ r \in Requests
          /\ \A i \in DOMAIN queue' :
                 i + 1 \in DOMAIN queue /\ i + 1 # 1 /\ queue'[i] = queue[i + 1]
          /\ \A i, j \in DOMAIN queue' : i + 1 = j + 1 => i = j
      <3>1. /\ Len(queue) \in Nat /\ Len(queue) # 0 /\ DOMAIN queue = 1 .. Len(queue)
            /\ DOMAIN queue' = 1 .. (Len(queue) - 1)
            /\ \A i \in 1 .. (Len(queue) - 1) : queue'[i] = queue[i + 1]
        BY <1>2, <2>1
      <3>2. r = queue[1] /\ r \in Requests
        BY <1>2, <2>1
      <3>3. QED
        BY <3>1, <3>2
    <2> HIDE DEF r
    <2>3. /\ phase[r] = "answered" /\ job'[r] = "processing"
          /\ \A q \in Requests \ {r} : job'[q] = job[q]
      BY <1>2, <2>1, <2>2 DEF QueueInv
    <2>4. \A i \in DOMAIN queue' : queue'[i] \in Requests \ {r}
      BY <1>2, <2>2 DEF QueueInv
    <2>5. QED
      BY <1>1, <1>2, <2>1, <2>2, <2>3, <2>4 DEF QueueInv
  <1>5. QED
    BY <1>3, <1>4

LEMMA TakenHolds == TypeInv /\ QueueInv /\ HandlerInv => Taken
  BY DEF TypeInv, WorkerTypes, QueueInv, HandlerInv, Taken

\* What a handler does to the rows of files.
RowMove(r) ==
    \/ (Asks(r) \/ Pushes(r) \/ Dies(r)) /\ UNCHANGED <<status, hash>>
    \/ /\ r \in Uploads /\ Commits(r)
       /\ status' = [status EXCEPT ![r] = "processing"]
       /\ hash' = [hash EXCEPT ![r] = content[r]]
    \/ /\ Records(r)
       /\ status' = [status EXCEPT ![r] = "duplicate"]
       /\ hash' = [hash EXCEPT ![r] = content[r]]
    \/ /\ r \in Changes /\ Commits(r) /\ hash' = hash
       /\ \E s \in {status[file[r]], "processing"} : status' = [status EXCEPT ![file[r]] = s]

LEMMA RowFrame ==
    ASSUME TypeInv, NEW r \in Requests, HandlerStep(r)
    PROVE  RowMove(r)
  <1> USE DEF RowMove, rowVars
  <1>1. CASE r \in Uploads /\ RequestUpload(r)
    BY <1>1 DEF RequestUpload, Asks, TypeInv, HandlerTypes
  <1>2. CASE r \in Changes /\ (InitAppend(r) \/ CompleteAppend(r) \/ RequestRename(r)
                              \/ RequestDelete(r))
    BY <1>2 DEF InitAppend, CompleteAppend, RequestRename, RequestDelete, Accept, Asks, TypeInv,
                HandlerTypes
  <1>3. CASE r \in Uploads /\ CommitUpload(r)
    BY <1>3 DEF CommitUpload, Commits, TypeInv, HandlerTypes
  <1>4. CASE r \in Uploads /\ CommitDuplicate(r)
    BY <1>4 DEF CommitDuplicate, Records, TypeInv, HandlerTypes
  <1>5. CASE r \in Changes /\ CommitChange(r)
    <2>1. Commits(r)
      BY <1>5 DEF CommitChange, Commits, TypeInv, HandlerTypes
    <2>2. status' = [status EXCEPT ![file[r]] = Flushed(@, seen[r], "processing")]
          /\ hash' = hash
      BY <1>5 DEF CommitChange
    <2>3. Flushed(status[file[r]], seen[r], "processing") \in {status[file[r]], "processing"}
      BY DEF Flushed
    <2>4. QED
      BY <1>5, <2>1, <2>2, <2>3
  <1>6. CASE Enqueue(r) \/ ApiDies(r)
    BY <1>6 DEF Enqueue, ApiDies, Pushes, Dies, TypeInv, HandlerTypes
  <1>7. QED
    BY <1>1, <1>2, <1>3, <1>4, <1>5, <1>6 DEF HandlerStep, Handle

\* What a request asks is known when it is accepted, of a file that has a row.
LEMMA AskFrame ==
    ASSUME TypeInv, HandlerInv, NEW r \in Requests, HandlerStep(r), Asks(r)
    PROVE  /\ r \in Uploads => /\ op'[r] = op[r] /\ phase[r] = "new"
                              /\ phase'[r] \in {"read", "duplicate"}
           /\ r \in Changes =>
                 /\ op'[r] \in {"append", "rename", "delete"}
                 /\ phase'[r] # "open" /\ op'[r] \in {"append", "rename"} => payload'[r] \in Names
                 /\ status[file[r]] # "none"
  <1> USE Members DEF TypeInv, HandlerTypes
  <1>1. CASE r \in Uploads /\ RequestUpload(r)
    BY <1>1 DEF RequestUpload
  <1>2. CASE r \in Changes /\ (InitAppend(r) \/ RequestRename(r) \/ RequestDelete(r))
    BY <1>2 DEF InitAppend, RequestRename, RequestDelete, Accept
  <1>3. CASE r \in Changes /\ CompleteAppend(r)
    <2>1. phase[r] = "open" /\ status[file[r]] # "none" /\ path[file[r]] \in Names
      BY <1>3 DEF CompleteAppend, Accept, HandlerInv, RowTypes
    <2>2. QED
      BY <1>3, <2>1 DEF CompleteAppend, Accept
  <1>4. CASE Handle(r) \/ ApiDies(r)
    BY <1>4 DEF Handle, CommitUpload, CommitDuplicate, CommitChange, Enqueue, ApiDies, Asks
  <1>5. QED
    BY <1>1, <1>2, <1>3, <1>4 DEF HandlerStep

LEMMA HandlerHandler ==
    ASSUME TypeInv, HandlerInv, NEW r \in Requests, HandlerStep(r)
    PROVE  HandlerInv'
  <1>1. /\ UNCHANGED file
        /\ \A q \in Requests \ {r} : /\ phase'[q] = phase[q] /\ op'[q] = op[q]
                                     /\ payload'[q] = payload[q]
        /\ Asks(r) \/ Commits(r) \/ Records(r) \/ Pushes(r) \/ Dies(r)
    BY HandlerFrame
  <1>2. /\ status \in [Uploads -> Statuses] /\ file \in [Requests -> Uploads]
        /\ \A u \in Uploads : file[u] = u /\ u \in Requests
        /\ r \in Uploads \/ r \in Changes
        /\ Uploads \cap Changes = {} /\ Changes \subseteq Requests
    BY Members DEF TypeInv, RowTypes, HandlerTypes, HandlerInv, Requests
  <1>3. \A f \in Uploads : status'[f] = "none" => status[f] = "none"
    BY <1>2, RowFrame DEF RowMove
  <1>4. \A f \in Uploads : status'[f] = status[f] \/ f = file[r]
    BY <1>2, RowFrame DEF RowMove, Records
  <1>5. /\ op'[r] = "upload" <=> r \in Uploads
        /\ phase'[r] \notin {"new", "open"} /\ op'[r] \in {"append", "rename"} =>
               payload'[r] \in Names
    <2>1. CASE Asks(r)
      BY <1>2, <2>1, AskFrame DEF HandlerInv
    <2>2. CASE ~ Asks(r)
      <3>1. op' = op /\ payload' = payload /\ phase[r] \notin {"new", "open"}
        BY <1>1, <2>2 DEF Commits, Records, Pushes, Dies
      <3>2. QED
        BY <3>1 DEF HandlerInv
    <2>3. QED
      BY <2>1, <2>2
  <1>6. status'[file[r]] = "none" => phase'[r] \in {"new", "read", "duplicate", "died"}
    <2>1. CASE Asks(r)
      BY <1>2, <1>3, <2>1, AskFrame DEF Asks
    <2>2. CASE Commits(r)
      <3>1. r \in Uploads => status'[file[r]] # "none"
        BY <1>2, <2>2, RowFrame DEF RowMove, Asks, Commits, Records, Pushes, Dies
      <3>2. QED
        BY <1>2, <1>3, <2>2, <3>1 DEF Commits, HandlerInv
    <2>3. CASE Records(r)
      <3>1. status'[file[r]] = "duplicate"
        BY <1>2, <2>3, RowFrame DEF RowMove, Asks, Commits, Records, Pushes, Dies
      <3>2. QED
        BY <3>1
    <2>4. CASE Pushes(r)
      BY <1>2, <1>3, <2>4 DEF Pushes, HandlerInv
    <2>5. CASE Dies(r)
      BY <2>5 DEF Dies
    <2>6. QED
      BY <1>1, <2>1, <2>2, <2>3, <2>4, <2>5
  <1>7. \A c \in Changes : status'[file[c]] = "none" => phase'[c] = "new"
    <2>1. r \in Changes => (status[file[r]] = "none" => ~ Asks(r) /\ phase[r] = "new")
      BY AskFrame DEF HandlerInv
    <2>2. r \in Changes => status'[file[r]] # "none"
      BY <1>1, <1>2, <1>3, <2>1 DEF Commits, Records, Pushes, Dies
    <2>3. \A c \in Changes \ {r} : phase'[c] = phase[c] /\ file[c] \in Uploads
      BY <1>1, <1>2
    <2>4. QED
      BY <1>1, <1>2, <1>3, <2>2, <2>3 DEF HandlerInv
  <1>8. \A u \in Uploads : phase'[u] \in {"new", "read", "duplicate"} => status'[u] = "none"
    <2>1. ASSUME NEW u \in Uploads, u # r, phase'[u] \in {"new", "read", "duplicate"}
          PROVE  status'[u] = "none"
      <3>1. phase[u] = phase'[u] /\ status[u] = "none"
        BY <1>1, <1>2, <2>1 DEF HandlerInv
      <3>2. r \in Changes /\ file[r] = u => status'[u] = "none"
        <4>1. r \in Changes /\ file[r] = u => phase[r] = "new" /\ ~ Asks(r)
          BY <3>1, AskFrame DEF HandlerInv
        <4>2. QED
          BY <1>1, <4>1 DEF Commits, Records, Pushes, Dies
      <3>3. QED
        BY <1>2, <1>4, <2>1, <3>1, <3>2
    <2>2. ASSUME r \in Uploads, phase'[r] \in {"new", "read", "duplicate"}
          PROVE  status'[r] = "none"
      <3>1. Asks(r)
        BY <1>1, <2>2 DEF Commits, Records, Pushes, Dies
      <3>2. status[r] = "none" /\ status' = status
        <4>1. phase[r] = "new"
          BY <2>2, <3>1, AskFrame
        <4>2. QED
          BY <2>2, <3>1, <4>1 DEF HandlerInv, Asks, rowVars
      <3>3. QED
        BY <3>2
    <2>3. QED
      BY <2>1, <2>2
  <1>9. \A q \in Requests :
           /\ op'[q] = "upload" <=> q \in Uploads
           /\ phase'[q] \notin {"new", "open"} /\ op'[q] \in {"append", "rename"} =>
                  payload'[q] \in Names
           /\ status'[file[q]] = "none" => phase'[q] \in {"new", "read", "duplicate", "died"}
    <2>1. ASSUME NEW q \in Requests, q # r
          PROVE  /\ op'[q] = "upload" <=> q \in Uploads
                 /\ phase'[q] \notin {"new", "open"} /\ op'[q] \in {"append", "rename"} =>
                        payload'[q] \in Names
                 /\ status'[file[q]] = "none" =>
                        phase'[q] \in {"new", "read", "duplicate", "died"}
      <3>1. phase'[q] = phase[q] /\ op'[q] = op[q] /\ payload'[q] = payload[q]
        BY <1>1, <2>1
      <3>2. file[q] \in Uploads
        BY <1>2
      <3>3. QED
        BY <1>3, <3>1, <3>2 DEF HandlerInv
    <2>2. QED
      BY <1>5, <1>6, <2>1
  <1>10. QED
    BY <1>1, <1>2, <1>7, <1>8, <1>9 DEF HandlerInv


\* What a handler does to the row of a file: it is made once, and then only its status
\* is touched.
LEMMA RowsHandler ==
    ASSUME TypeInv, HandlerInv, NEW r \in Requests, HandlerStep(r), NEW f \in Uploads
    PROVE  \/ /\ status[f] # "none" /\ hash'[f] = hash[f]
              /\ status'[f] \in {status[f], "processing"}
           \/ status[f] = "none" /\ status'[f] = "none"
           \/ /\ status[f] = "none" /\ hash'[f] = content[f]
              /\ status'[f] \in {"processing", "duplicate"}
  <1>1. /\ status \in [Uploads -> Statuses] /\ hash \in [Uploads -> Seq(Pieces)]
        /\ file \in [Requests -> Uploads]
    BY DEF TypeInv, RowTypes, HandlerTypes
  <1>2. CASE UNCHANGED <<status, hash>>
    BY <1>2
  <1>3. CASE /\ r \in Uploads /\ phase[r] \in {"read", "duplicate"}
             /\ \E s \in {"processing", "duplicate"} : status' = [status EXCEPT ![r] = s]
             /\ hash' = [hash EXCEPT ![r] = content[r]]
    BY <1>1, <1>3 DEF HandlerInv
  <1>4. CASE /\ r \in Changes /\ phase[r] = "read" /\ hash' = hash
             /\ \E s \in {status[file[r]], "processing"} :
                    status' = [status EXCEPT ![file[r]] = s]
    BY <1>1, <1>4 DEF HandlerInv
  <1>5. QED
    BY <1>2, <1>3, <1>4, RowFrame DEF RowMove, Commits, Records

\* What the worker does to the rows of files: only that of its job, at its end.
LEMMA RowsWorker ==
    ASSUME TypeInv, WorkerStep
    PROVE  \/ UNCHANGED rowVars
           \/ /\ step = "commit" /\ CommitJob
           \/ /\ step = "fail" /\ FailJob
  BY DEF WorkerStep, Worker, TakeJob, LoadFile, MoveUpload, AppendToFile, CheckAppended,
     RenameFile, UnlinkFile, Cleanup, JobRaises, WorkerDies, Raise, ChangeDisk, CommitJob, FailJob

\* The status that the worker gives the file of its job.
LEMMA StatusWorker ==
    ASSUME TypeInv, Taken, LoadedInv, WorkerStep
    PROVE  /\ step = "idle" => status' = status
           /\ step # "idle" =>
                  /\ \A f \in Uploads : f # file[current] => status'[f] = status[f]
                  /\ \/ status'[file[current]] = status[file[current]]
                     \/ step = "commit" /\ status'[file[current]] = Result
                     \/ step = "fail" /\ status'[file[current]] = "failed"
           /\ CommitJob => status'[file[current]] \in {Result, "processing"}
  <1>1. /\ status \in [Uploads -> Statuses]
        /\ step # "idle" => file[current] \in Uploads
    BY DEF TypeInv, RowTypes, HandlerTypes, Taken
  <1>2. CASE UNCHANGED rowVars /\ ~ CommitJob
    BY <1>2 DEF rowVars
  <1>3. CASE CommitJob
    <2>1. /\ step = "commit" /\ status[file[current]] \in {loaded, "processing"}
          /\ status' = [status EXCEPT ![file[current]] =
                                Flushed(status[file[current]], loaded, Result)]
      BY <1>3 DEF CommitJob, LoadedInv
    <2>2. Flushed(status[file[current]], loaded, Result) \in {Result, status[file[current]]}
          /\ Flushed(status[file[current]], loaded, Result) \in {Result, "processing"}
      BY <2>1 DEF Flushed
    <2>3. QED
      BY <1>1, <2>1, <2>2
  <1>4. CASE step = "fail" /\ FailJob
    BY <1>1, <1>4 DEF FailJob, Flushed, CommitJob
  <1>5. QED
    BY <1>2, <1>3, <1>4, RowsWorker

LEMMA HandlerWorker ==
    ASSUME TypeInv, QueueInv, HandlerInv, LoadedInv, WorkerStep
    PROVE  HandlerInv'
  <1>1. UNCHANGED <<phase, op, file, payload>>
    BY WorkerFrame DEF handlerVars
  <1>2. \A f \in Uploads : /\ status'[f] = "none" => status[f] = "none"
                           /\ status[f] = "none" => status'[f] = "none"
    <2>1. step # "idle" => status[file[current]] # "none"
      BY TakenHolds DEF HandlerInv, QueueInv, Taken
    <2>2. Taken /\ Result # "none"
      BY TakenHolds DEF Result
    <2>3. QED
      BY <2>1, <2>2, StatusWorker
  <1>3. file \in [Requests -> Uploads] /\ Changes \subseteq Requests /\ Uploads \subseteq Requests
    BY Members DEF TypeInv, HandlerTypes
  <1>4. QED
    BY <1>1, <1>2, <1>3 DEF HandlerInv

LEMMA LoadedHandler ==
    ASSUME TypeInv, QueueInv, HandlerInv, LoadedInv, NEW r \in Requests, HandlerStep(r)
    PROVE  LoadedInv'
  <1>1. UNCHANGED <<file, step, current, loaded>>
    BY HandlerFrame DEF workerVars
  <1>2. SUFFICES ASSUME step \in {"run", "check", "commit", "fail"}
                 PROVE  status'[file[current]] \in {loaded, "processing"}
    BY <1>1 DEF LoadedInv
  <1>3. /\ current \in Requests /\ file[current] \in Uploads
        /\ status[file[current]] # "none" /\ status[file[current]] \in {loaded, "processing"}
    BY <1>2, TakenHolds DEF TypeInv, HandlerTypes, HandlerInv, QueueInv, Taken, LoadedInv
  <1>4. QED
    BY <1>3, RowsHandler

LEMMA LoadedWorker ==
    ASSUME TypeInv, LoadedInv, WorkerStep
    PROVE  LoadedInv'
  <1> USE DEF LoadedInv, Raise, ChangeDisk, GoIdle, Running, Succeed, handlerVars, rowVars
  <1>1. CASE TakeJob \/ LoadFile \/ CommitJob \/ Cleanup \/ FailJob \/ WorkerDies
    BY <1>1 DEF TakeJob, LoadFile, CommitJob, Cleanup, FailJob, WorkerDies
  <1>2. CASE MoveUpload \/ UnlinkFile
    BY <1>2 DEF MoveUpload, UnlinkFile
  <1>3. CASE AppendToFile
    BY <1>3 DEF AppendToFile
  <1>4. CASE CheckAppended
    BY <1>4 DEF CheckAppended
  <1>5. CASE RenameFile
    BY <1>5 DEF RenameFile
  <1>6. CASE JobRaises
    BY <1>6 DEF JobRaises
  <1>7. QED
    BY <1>1, <1>2, <1>3, <1>4, <1>5, <1>6 DEF WorkerStep, Worker

-----------------------------------------------------------------------------
(* Files. *)

Empty(f) == \A n \in Names : disk[f][n] = <<>>
Whole(f) == path[f] # NoPath /\ Only(f, path[f], hash[f])

\* A job of the file changed the disk and did not get to change the row, or may have:
\* its worker died.
Abandoned(f) == \E r \in Requests : file[r] = f /\ job[r] = "processing" /\ r # current
Exempt(f) == f \in torn \/ Abandoned(f)

Midway(f) == step \in {"check", "commit"} /\ file[current] = f

\* Between jobs, and before a job has changed the disk.
AtRest(f) ==
    /\ Empty(f) \/ Whole(f)
    /\ status[f] = "synced" => Whole(f)
    /\ status[f] = "deleted" => Empty(f)

\* The disk is ahead of the row.
MidJob(f) ==
    /\ step = "check" => op[current] = "append"
    /\ op[current] \in {"upload", "append", "rename", "delete"}
    /\ op[current] = "upload" => path[f] = NoPath /\ Only(f, Original, content[f])
    /\ op[current] = "append" => /\ path[f] # NoPath /\ payload[current] = path[f]
                                 /\ Only(f, path[f], Append(hash[f], Appended))
    /\ op[current] = "rename" => path[f] # NoPath /\ Only(f, payload[current], hash[f])
    /\ op[current] = "delete" => Empty(f)

\* The hash is that of the upload and of every append that succeeded.
Appends(n) == [i \in 1 .. n |-> Appended]
RowInv(f) ==
    /\ path[f] = NoPath => SuccessfulAppends(f) = {}
    /\ status[f] # "none" =>
           hash[f] = content[f] \o Appends(Cardinality(SuccessfulAppends(f)))
    /\ status[f] = "none" => path[f] = NoPath
    /\ job[f] \in {"none", "pending", "processing"} => path[f] = NoPath
    /\ IF Midway(f) THEN MidJob(f) ELSE AtRest(f)

FileInv ==
    /\ TypeInv /\ QueueInv /\ HandlerInv /\ LoadedInv
    /\ \A f \in Uploads : ~ Exempt(f) => RowInv(f)

LEMMA OneMore ==
    ASSUME NEW c \in Seq(Pieces), NEW n \in Nat
    PROVE  Append(c \o Appends(n), Appended) = c \o Appends(n + 1)
  <1>1. /\ Appends(n) \in Seq(Pieces) /\ Appends(n + 1) \in Seq(Pieces)
        /\ <<Appended>> \in Seq(Pieces) /\ c \o Appends(n) \in Seq(Pieces)
    BY Members DEF Appends
  <1>2. Appends(n + 1) = Append(Appends(n), Appended)
    <2> DEFINE t == Append(Appends(n), Appended)
    <2>1. t \in Seq(Pieces) /\ Len(t) = n + 1 /\ \A i \in 1 .. (n + 1) : t[i] = Appended
      BY Members DEF Appends
    <2>2. Len(Appends(n + 1)) = n + 1 /\ \A i \in 1 .. (n + 1) : Appends(n + 1)[i] = Appended
      BY DEF Appends
    <2> HIDE DEF t
    <2>3. Appends(n + 1) = t
      BY <1>1, <2>1, <2>2, SeqEqual
    <2>4. QED
      BY <2>3 DEF t
  <1>3. Append(c \o Appends(n), Appended) = (c \o Appends(n)) \o <<Appended>>
    BY <1>1, Members, AppendIsConcat
  <1>4. Append(Appends(n), Appended) = Appends(n) \o <<Appended>>
    BY <1>1, Members, AppendIsConcat
  <1>5. (c \o Appends(n)) \o <<Appended>> = c \o (Appends(n) \o <<Appended>>)
    BY <1>1, ConcatAssociative
  <1>6. QED
    BY <1>2, <1>3, <1>4, <1>5

LEMMA NoneYet == ASSUME NEW c \in Seq(Pieces) PROVE c \o Appends(0) = c
  BY Members DEF Appends

\* A file that is exempt stays exempt.
LEMMA ExemptHandler ==
    ASSUME FileInv, NEW r \in Requests, HandlerStep(r), NEW f \in Uploads, Exempt(f)
    PROVE  Exempt(f)'
  <1>1. /\ UNCHANGED <<file, current, torn>>
        /\ \A q \in Requests \ {r} : job'[q] = job[q]
        /\ Asks(r) \/ Commits(r) \/ Records(r) \/ Pushes(r) \/ Dies(r)
    BY HandlerFrame DEF FileInv, workerVars
  <1>2. job[r] # "processing" \/ job'[r] = job[r]
    BY <1>1 DEF FileInv, QueueInv, Asks, Commits, Records, Pushes, Dies
  <1>3. QED
    BY <1>1, <1>2 DEF Exempt, Abandoned

LEMMA ExemptWorker ==
    ASSUME FileInv, WorkerStep, NEW f \in Uploads, Exempt(f)
    PROVE  Exempt(f)'
  <1>1. UNCHANGED file /\ torn \subseteq torn' /\ WorkerMove
    BY WorkerFrame DEF FileInv, handlerVars
  <1>2. CASE f \in torn
    BY <1>1, <1>2 DEF Exempt
  <1>3. ASSUME NEW r \in Requests, file[r] = f, job[r] = "processing", r # current
        PROVE  Exempt(f)'
    <2>1. r # NoJob /\ job \in [Requests -> {"none", "pending", "processing", "success", "failed"}]
      BY Members DEF FileInv, TypeInv, JobTypes
    <2>2. queue # <<>> => r # Head(queue)
      <3>1. queue \in Seq(Requests)
        BY DEF FileInv, TypeInv, JobTypes
      <3>2. queue # <<>> => 1 \in DOMAIN queue /\ Head(queue) = queue[1]
        BY <3>1
      <3>3. QED
        BY <1>3, <3>2 DEF FileInv, QueueInv
    <2>3. r # current' /\ job'[r] = "processing"
      BY <1>1, <1>3, <2>1, <2>2 DEF WorkerMove, Ends
    <2>4. QED
      BY <1>1, <1>3, <2>3 DEF Exempt, Abandoned
  <1>4. QED
    BY <1>2, <1>3 DEF Exempt, Abandoned

LEMMA Finite ==
    \A f \in Uploads : /\ IsFiniteSet(SuccessfulAppends(f))
                       /\ Cardinality(SuccessfulAppends(f)) \in Nat
  BY FileManagerAssumption, FS_Subset, FS_CardinalityType DEF SuccessfulAppends

LEMMA RowHandler ==
    ASSUME FileInv, NEW r \in Requests, HandlerStep(r), NEW f \in Uploads, RowInv(f)
    PROVE  RowInv(f)'
  <1> USE DEF FileInv
  <1>1. /\ UNCHANGED <<file, content, path, disk, step, current>>
        /\ \A q \in Requests \ {r} : /\ op'[q] = op[q] /\ payload'[q] = payload[q]
                                     /\ job'[q] = job[q]
        /\ Asks(r) \/ Commits(r) \/ Records(r) \/ Pushes(r) \/ Dies(r)
    BY HandlerFrame DEF workerVars
  <1>2. job[r] \in {"none", "pending"} /\ job'[r] \in {"none", "pending"}
    BY <1>1 DEF TypeInv, JobTypes, QueueInv, Asks, Commits, Records, Pushes, Dies
  <1>3. SuccessfulAppends(f)' = SuccessfulAppends(f)
    BY <1>1, <1>2 DEF SuccessfulAppends
  <1>4. /\ content[f] \in Seq(Pieces) /\ f \in Requests /\ file[f] = f
        /\ path[f] = NoPath => SuccessfulAppends(f) = {}
        /\ status[f] # "none" =>
               hash[f] = content[f] \o Appends(Cardinality(SuccessfulAppends(f)))
        /\ status[f] = "none" => path[f] = NoPath
        /\ job[f] \in {"none", "pending", "processing"} => path[f] = NoPath
    BY Members DEF TypeInv, HandlerTypes, HandlerInv, RowInv
  <1>5. status'[f] # "none" =>
            hash'[f] = content[f] \o Appends(Cardinality(SuccessfulAppends(f)))
    <2>1. CASE status[f] # "none"
      BY <1>4, <2>1, RowsHandler
    <2>2. CASE status[f] = "none" /\ status'[f] # "none"
      <3>1. hash'[f] = content[f]
        BY <2>2, RowsHandler
      <3>2. Cardinality(SuccessfulAppends(f)) = 0
        BY <1>4, <2>2, FS_EmptySet
      <3>3. QED
        BY <1>4, <3>1, <3>2, NoneYet
    <2>3. QED
      BY <2>1, <2>2
  <1>6. status'[f] = "none" => path'[f] = NoPath
    BY <1>1, <1>4, RowsHandler
  <1>7. job'[f] \in {"none", "pending", "processing"} => path'[f] = NoPath
    BY <1>1, <1>2, <1>4
  <1>8. IF Midway(f)' THEN MidJob(f)' ELSE AtRest(f)'
    <2>1. CASE Midway(f)
      <3>1. MidJob(f) /\ step # "idle" /\ file[current] = f
        BY <2>1 DEF RowInv, Midway
      <3>2. current \in Requests /\ phase[current] = "answered" /\ status[f] # "none"
        BY <3>1, TakenHolds DEF Taken, QueueInv, HandlerInv
      <3>3. current # r
        BY <1>1, <3>2 DEF Asks, Commits, Records, Pushes, Dies
      <3>4. hash'[f] = hash[f]
        BY <3>2, RowsHandler
      <3>5. MidJob(f)'
        BY <1>1, <3>1, <3>2, <3>3, <3>4 DEF MidJob, Only, Empty
      <3>6. QED
        BY <1>1, <2>1, <3>5 DEF Midway
    <2>2. CASE ~ Midway(f)
      <3>1. AtRest(f)
        BY <2>2 DEF RowInv
      <3>2. Empty(f)' = Empty(f)
        BY <1>1 DEF Empty
      <3>3. Whole(f) => Whole(f)'
        <4>1. Whole(f) => hash'[f] = hash[f]
          BY <1>4, RowsHandler DEF Whole
        <4>2. QED
          BY <1>1, <4>1 DEF Whole, Only
      <3>4. /\ status'[f] = "synced" => status[f] = "synced"
            /\ status'[f] = "deleted" => status[f] = "deleted"
        BY RowsHandler
      <3>5. AtRest(f)'
        BY <3>1, <3>2, <3>3, <3>4 DEF AtRest
      <3>6. QED
        BY <1>1, <2>2, <3>5 DEF Midway
    <2>3. QED
      BY <2>1, <2>2
  <1>9. QED
    BY <1>1, <1>3, <1>4, <1>5, <1>6, <1>7, <1>8 DEF RowInv

\* A step of the worker that leaves the file and its row alone.
LEMMA RowKept ==
    ASSUME NEW f \in Uploads, RowInv(f), ~ Midway(f), ~ Midway(f)',
           UNCHANGED content, path'[f] = path[f], hash'[f] = hash[f], disk'[f] = disk[f],
           SuccessfulAppends(f)' = SuccessfulAppends(f),
           status'[f] = "none" <=> status[f] = "none",
           status'[f] \in {"synced", "deleted"} => status'[f] = status[f],
           job'[f] \in {"none", "pending", "processing"} =>
               job[f] \in {"none", "pending", "processing"}
    PROVE  RowInv(f)'
  <1>1. AtRest(f)
    BY DEF RowInv
  <1>2. AtRest(f)'
    BY <1>1 DEF AtRest, Empty, Whole, Only
  <1>3. QED
    BY <1>2 DEF RowInv

\* The worker touches no file but that of its job.
LEMMA OtherFiles ==
    ASSUME TypeInv, Taken, HandlerInv, WorkerStep, NEW f \in Uploads,
           step = "idle" \/ f # file[current]
    PROVE  path'[f] = path[f] /\ hash'[f] = hash[f] /\ disk'[f] = disk[f]
  <1>1. /\ path \in [Uploads -> Names \cup {NoPath}] /\ hash \in [Uploads -> Seq(Pieces)]
        /\ disk \in [Uploads -> [Names -> Seq(Pieces)]]
    BY DEF TypeInv, RowTypes, DiskTypes
  <1>2. path'[f] = path[f] /\ hash'[f] = hash[f]
    BY <1>1, RowsWorker DEF CommitJob, FailJob, rowVars
  <1>3. disk'[f] = disk[f]
    <2>1. \/ disk' = disk
          \/ /\ step # "idle"
             /\ \E c : disk' = [disk EXCEPT ![file[current]] = c]
      <3>1. CASE MoveUpload
        <4>1. file[current] = current
          BY <3>1 DEF MoveUpload, Running, Taken, HandlerInv
        <4>2. QED
          BY <3>1, <4>1 DEF MoveUpload, Running, ChangeDisk
      <3>2. CASE AppendToFile
        BY <3>2 DEF AppendToFile, Running, ChangeDisk
      <3>3. CASE RenameFile \/ UnlinkFile
        BY <3>3 DEF RenameFile, UnlinkFile, Running, ChangeDisk
      <3>4. CASE disk' = disk
        BY <3>4
      <3>5. QED
        BY <3>1, <3>2, <3>3, <3>4 DEF WorkerStep, Worker, TakeJob, LoadFile, CheckAppended,
           CommitJob, Cleanup, FailJob, JobRaises, WorkerDies, Succeed
    <2>2. QED
      BY <1>1, <2>1
  <1>4. QED
    BY <1>2, <1>3

LEMMA RowOther ==
    ASSUME FileInv, WorkerStep, NEW f \in Uploads, RowInv(f),
           step = "idle" \/ f # file[current]
    PROVE  RowInv(f)'
  <1> USE DEF FileInv
  <1>1. UNCHANGED <<phase, op, file, content>> /\ WorkerMove /\ Taken
    BY WorkerFrame, TakenHolds DEF handlerVars
  <1>2. path'[f] = path[f] /\ hash'[f] = hash[f] /\ disk'[f] = disk[f]
    BY <1>1, OtherFiles
  <1>3. status'[f] = status[f]
    BY <1>1, StatusWorker
  <1>4. /\ job \in [Requests -> {"none", "pending", "processing", "success", "failed"}]
        /\ queue # <<>> => Head(queue) \in Requests /\ job[Head(queue)] = "pending"
        /\ f \in Requests /\ file[f] = f
    <2>1. queue \in Seq(Requests)
      BY DEF TypeInv, JobTypes
    <2>2. queue # <<>> => 1 \in DOMAIN queue /\ Head(queue) = queue[1] /\ Head(queue) \in Requests
      BY <2>1
    <2>3. QED
      BY <2>2, Members DEF TypeInv, JobTypes, QueueInv, HandlerInv
  <1>5. \A q \in Requests : file[q] = f =>
            \/ job'[q] = job[q]
            \/ job[q] = "pending" /\ job'[q] = "processing"
    BY <1>1, <1>4 DEF WorkerMove
  <1>6. SuccessfulAppends(f)' = SuccessfulAppends(f)
    BY <1>1, <1>5 DEF SuccessfulAppends
  <1>7. ~ Midway(f) /\ ~ Midway(f)'
    BY <1>1 DEF Midway, WorkerMove, Ends
  <1>8. job'[f] \in {"none", "pending", "processing"} =>
            job[f] \in {"none", "pending", "processing"}
    BY <1>4, <1>5
  <1>9. QED
    BY <1>1, <1>2, <1>3, <1>6, <1>7, <1>8, RowKept

\* What the lemmas on the file of the worker's job start from.
LEMMA OwnFacts ==
    ASSUME FileInv, step # "idle", NEW f, f = file[current], ~ Exempt(f), RowInv(f)
    PROVE  /\ f \in Uploads /\ current \in Requests /\ current # NoJob
           /\ file \in [Requests -> Uploads] /\ file[f] = f
           /\ op \in [Requests -> {"none", "upload", "append", "rename", "delete"}]
           /\ job \in [Requests -> {"none", "pending", "processing", "success", "failed"}]
           /\ disk \in [Uploads -> [Names -> Seq(Pieces)]]
           /\ path \in [Uploads -> Names \cup {NoPath}] /\ hash \in [Uploads -> Seq(Pieces)]
           /\ hash[f] \in Seq(Pieces) /\ content[f] \in Seq(Pieces)
           /\ op[current] = "upload" <=> current \in Uploads
           /\ op[current] = "upload" => current = f
           /\ op[current] \in {"append", "rename"} => payload[current] \in Names
           /\ status[f] # "none"
           /\ step \in {"load", "run", "check", "commit", "fail"} => job[current] = "processing"
           /\ step = "cleanup" => job[current] = "success"
           /\ step \notin {"check", "commit"} => AtRest(f)
           /\ step \in {"check", "commit"} => MidJob(f)
  <1>1. /\ current \in Requests /\ current # NoJob
        /\ op[current] \in {"append", "rename"} => payload[current] \in Names
    BY Members, TakenHolds DEF FileInv, Taken
  <1>2. f \in Uploads /\ file[f] = f /\ f \in Requests
    BY <1>1, Members DEF FileInv, TypeInv, HandlerTypes, HandlerInv
  <1>3. status[f] # "none"
    BY <1>1 DEF FileInv, QueueInv, HandlerInv
  <1>4. /\ step \in {"load", "run", "check", "commit", "fail"} => job[current] = "processing"
        /\ step = "cleanup" => job[current] = "success"
    BY DEF FileInv, QueueInv, Exempt
  <1>5. op[current] = "upload" => current = f
    BY <1>1 DEF FileInv, HandlerInv
  <1>6. /\ step \notin {"check", "commit"} => AtRest(f)
        /\ step \in {"check", "commit"} => MidJob(f)
    BY DEF RowInv, Midway
  <1>7. QED
    BY <1>1, <1>2, <1>3, <1>4, <1>5, <1>6
       DEF FileInv, TypeInv, HandlerTypes, JobTypes, RowTypes, DiskTypes, HandlerInv

\* A job that stops, or loads the row, leaves the file as it is.
LEMMA RowStops ==
    ASSUME FileInv, step # "idle", NEW f, f = file[current], ~ Exempt(f), RowInv(f),
           step \notin {"check", "commit"}, step' \notin {"check", "commit"},
           UNCHANGED <<handlerVars, job, rowVars, disk>>
    PROVE  RowInv(f)'
  <1>1. SuccessfulAppends(f)' = SuccessfulAppends(f)
    BY DEF SuccessfulAppends, handlerVars
  <1>2. ~ Midway(f) /\ ~ Midway(f)'
    BY DEF Midway
  <1>3. f \in Uploads
    BY OwnFacts
  <1>4. QED
    BY <1>1, <1>2, <1>3, RowKept DEF handlerVars, rowVars

\* A job that changes the disk gets the file midway.
LEMMA RowStarts ==
    ASSUME NEW f, RowInv(f), file[current] = f, step' \in {"check", "commit"}, MidJob(f)',
           UNCHANGED <<handlerVars, job, rowVars, current>>
    PROVE  RowInv(f)'
  <1>1. SuccessfulAppends(f)' = SuccessfulAppends(f)
    BY DEF SuccessfulAppends, handlerVars
  <1>2. Midway(f)'
    BY DEF Midway, handlerVars
  <1>3. QED
    BY <1>1, <1>2 DEF RowInv, handlerVars, rowVars

LEMMA RowMoveUpload ==
    ASSUME FileInv, MoveUpload, NEW f, f = file[current], ~ Exempt(f), RowInv(f)
    PROVE  RowInv(f)'
  <1>1. /\ step = "run" /\ op[current] = "upload" /\ step' = "commit"
        /\ disk' = [disk EXCEPT ![current] = [disk[current] EXCEPT ![Original] = content[current]]]
        /\ UNCHANGED <<handlerVars, job, rowVars, current>>
    BY DEF MoveUpload, Running, ChangeDisk
  <1>2. /\ f = current /\ f \in Uploads /\ AtRest(f) /\ job[f] = "processing"
        /\ disk[f] \in [Names -> Seq(Pieces)]
    BY <1>1, OwnFacts
  <1>3. path[f] = NoPath /\ Empty(f)
    BY <1>2 DEF RowInv, AtRest, Whole
  <1>4. disk'[f] = [n \in Names |-> IF n = Original THEN content[f] ELSE <<>>]
    <2>1. disk'[f] = [disk[f] EXCEPT ![Original] = content[f]]
      BY <1>1, <1>2, OwnFacts
    <2>2. \A n \in Names : disk[f][n] = <<>>
      BY <1>3 DEF Empty
    <2>3. QED
      BY <1>2, <2>1, <2>2
  <1>5. MidJob(f)'
    BY <1>1, <1>2, <1>3, <1>4 DEF MidJob, Only, handlerVars, rowVars
  <1>6. QED
    BY <1>1, <1>2, <1>5, RowStarts

LEMMA RowAppend ==
    ASSUME FileInv, AppendToFile, NEW f, f = file[current], ~ Exempt(f), RowInv(f)
    PROVE  RowInv(f)'
  <1> DEFINE p == payload[current]
  <1>1. step = "run" /\ op[current] = "append"
    BY DEF AppendToFile, Running
  <1>2. /\ f \in Uploads /\ AtRest(f) /\ p \in Names
        /\ disk[f] \in [Names -> Seq(Pieces)] /\ disk \in [Uploads -> [Names -> Seq(Pieces)]]
    BY <1>1, OwnFacts
  <1>3. CASE disk[f][p] = <<>>
    <2>1. step' = "fail" /\ UNCHANGED <<handlerVars, job, rowVars, disk>>
      BY <1>3 DEF AppendToFile, Raise
    <2>2. QED
      BY <1>1, <2>1, RowStops
  <1>4. CASE disk[f][p] # <<>>
    <2>1. /\ step' = "check" /\ UNCHANGED <<handlerVars, job, rowVars, current>>
          /\ disk' = [disk EXCEPT ![f] = [disk[f] EXCEPT ![p] = Append(@, Appended)]]
      BY <1>4 DEF AppendToFile, ChangeDisk
    <2>2. path[f] # NoPath /\ Only(f, path[f], hash[f])
      BY <1>2, <1>4 DEF AtRest, Empty, Whole
    <2>3. p = path[f] /\ disk[f][p] = hash[f]
      BY <1>2, <1>4, <2>2 DEF Only
    <2>4. disk'[f] = [disk[f] EXCEPT ![p] = Append(hash[f], Appended)]
      BY <1>2, <2>1, <2>3
    <2>5. disk'[f] = [n \in Names |-> IF n = path[f] THEN Append(hash[f], Appended) ELSE <<>>]
      BY <1>2, <2>2, <2>3, <2>4 DEF Only
    <2>6. MidJob(f)'
      BY <1>1, <2>1, <2>2, <2>3, <2>5 DEF MidJob, Only, handlerVars, rowVars
    <2>7. QED
      BY <2>1, <2>6, RowStarts
  <1>5. QED
    BY <1>3, <1>4

LEMMA RowCheck ==
    ASSUME FileInv, CheckAppended, NEW f, f = file[current], ~ Exempt(f), ~ Exempt(f)', RowInv(f)
    PROVE  RowInv(f)'
  <1>1. step = "check" /\ file' = file
    BY DEF CheckAppended, Raise, handlerVars
  <1>2. MidJob(f)
    BY <1>1, OwnFacts
  <1>3. step' = "commit" /\ UNCHANGED <<handlerVars, job, rowVars, disk, current>>
    BY <1>1 DEF CheckAppended, Exempt
  <1>4. MidJob(f)'
    BY <1>2, <1>3 DEF MidJob, Only, Empty, handlerVars, rowVars
  <1>5. QED
    BY <1>3, <1>4, RowStarts

LEMMA RowRename ==
    ASSUME FileInv, RenameFile, NEW f, f = file[current], ~ Exempt(f), RowInv(f)
    PROVE  RowInv(f)'
  <1> DEFINE p == payload[current]
             d == [n \in Names |-> CASE n = p -> disk[f][path[f]]
                                     [] n = path[f] /\ n # p -> <<>>
                                     [] OTHER -> disk[f][n]]
  <1>1. step = "run" /\ op[current] = "rename"
    BY DEF RenameFile, Running
  <1>2. /\ f \in Uploads /\ AtRest(f) /\ p \in Names
        /\ disk[f] \in [Names -> Seq(Pieces)] /\ disk \in [Uploads -> [Names -> Seq(Pieces)]]
        /\ path[f] \in Names \cup {NoPath}
    BY <1>1, OwnFacts
  <1>3. CASE step' = "fail" /\ UNCHANGED <<handlerVars, job, rowVars, disk>>
    BY <1>1, <1>3, RowStops
  <1>4. CASE /\ path[f] # NoPath /\ disk[f][path[f]] # <<>> /\ step' = "commit"
             /\ UNCHANGED <<handlerVars, job, rowVars, current>>
             /\ disk' = [disk EXCEPT ![f] = d]
    <2>1. Only(f, path[f], hash[f])
      BY <1>2, <1>4 DEF AtRest, Empty, Whole
    <2>2. disk[f][path[f]] = hash[f] /\ \A n \in Names : n # path[f] => disk[f][n] = <<>>
      BY <1>2, <1>4, <2>1 DEF Only
    <2>3. \A n \in Names : d[n] = IF n = p THEN hash[f] ELSE <<>>
      BY <2>2
    <2>4. d = [n \in Names |-> IF n = p THEN hash[f] ELSE <<>>]
      BY <2>3
    <2> HIDE DEF d
    <2>5. disk'[f] = d
      BY <1>2, <1>4
    <2>6. MidJob(f)'
      BY <1>1, <1>4, <2>4, <2>5 DEF MidJob, Only, handlerVars, rowVars
    <2>7. QED
      BY <1>4, <2>6, RowStarts
  <1>5. QED
    BY <1>3, <1>4 DEF RenameFile, ChangeDisk, Raise

LEMMA RowUnlink ==
    ASSUME FileInv, UnlinkFile, NEW f, f = file[current], ~ Exempt(f), RowInv(f)
    PROVE  RowInv(f)'
  <1>1. /\ step = "run" /\ op[current] = "delete" /\ step' = "commit"
        /\ disk' = [disk EXCEPT ![f] = [n \in Names |-> IF n = path[f] THEN <<>> ELSE disk[f][n]]]
        /\ UNCHANGED <<handlerVars, job, rowVars, current>>
    BY DEF UnlinkFile, Running, ChangeDisk
  <1>2. f \in Uploads /\ AtRest(f) /\ disk \in [Uploads -> [Names -> Seq(Pieces)]]
    BY <1>1, OwnFacts
  <1>3. \A n \in Names : n # path[f] => disk[f][n] = <<>>
    BY <1>2 DEF AtRest, Empty, Whole, Only
  <1>4. disk'[f] = [n \in Names |-> IF n = path[f] THEN <<>> ELSE disk[f][n]]
    BY <1>1, <1>2
  <1>5. Empty(f)'
    BY <1>3, <1>4 DEF Empty
  <1>6. MidJob(f)'
    BY <1>1, <1>5 DEF MidJob, handlerVars
  <1>7. QED
    BY <1>1, <1>6, RowStarts

LEMMA RowCommit ==
    ASSUME FileInv, CommitJob, NEW f, f = file[current], ~ Exempt(f), RowInv(f)
    PROVE  RowInv(f)'
  <1> DEFINE appends == SuccessfulAppends(f)
             o == op[current]
             p == CASE o = "upload" -> Original
                    [] o = "rename" -> payload[current]
                    [] OTHER -> path[f]
             h == CASE o = "upload" -> content[f]
                    [] o = "append" -> disk[f][payload[current]]
                    [] OTHER -> hash[f]
  <1>1. /\ step = "commit" /\ step' = "cleanup"
        /\ job' = [job EXCEPT ![current] = "success"]
        /\ UNCHANGED <<handlerVars, disk, current>>
        /\ path' = [path EXCEPT ![f] = p] /\ hash' = [hash EXCEPT ![f] = h]
    BY DEF CommitJob, Succeed
  <1>2. /\ f \in Uploads /\ current \in Requests /\ file[f] = f /\ MidJob(f)
        /\ f \in Requests /\ file \in [Requests -> Uploads]
        /\ job \in [Requests -> {"none", "pending", "processing", "success", "failed"}]
        /\ job[current] = "processing" /\ status[f] # "none"
        /\ path \in [Uploads -> Names \cup {NoPath}] /\ hash \in [Uploads -> Seq(Pieces)]
        /\ content[f] \in Seq(Pieces) /\ hash[f] \in Seq(Pieces)
        /\ o = "upload" => current = f
        /\ o = "rename" => payload[current] \in Names
        /\ NoPath \notin Names /\ Original \in Names
    BY <1>1, OwnFacts, Members
  <1>3. path'[f] = p /\ hash'[f] = h /\ UNCHANGED <<file, content, op, payload, disk>>
    BY <1>1, <1>2 DEF handlerVars
  <1>4. status'[f] \in {Result, "processing"}
    <2>1. WorkerStep
      BY DEF WorkerStep, Worker
    <2>2. QED
      BY <2>1, StatusWorker, TakenHolds DEF FileInv
  <1> HIDE DEF p, h
  <1>5. /\ o \in {"upload", "append", "rename", "delete"}
        /\ o = "upload" => /\ path[f] = NoPath /\ p = Original /\ h = content[f]
                           /\ Only(f, Original, content[f])
        /\ o = "append" => /\ path[f] # NoPath /\ p = path[f] /\ h = Append(hash[f], Appended)
                           /\ Only(f, path[f], h)
        /\ o = "rename" => /\ path[f] # NoPath /\ p = payload[current] /\ p \in Names
                           /\ h = hash[f] /\ Only(f, p, h)
        /\ o = "delete" => p = path[f] /\ h = hash[f] /\ Empty(f)
    <2>1. o = "append" => disk[f][payload[current]] = Append(hash[f], Appended)
      <3>1. o = "append" => /\ payload[current] = path[f] /\ path[f] \in Names
                            /\ Only(f, path[f], Append(hash[f], Appended))
        BY <1>2 DEF MidJob
      <3>2. QED
        BY <3>1 DEF Only
    <2>2. QED
      BY <1>2, <2>1 DEF MidJob, p, h
  <1>6. AtRest(f)'
    <2>1. o = "delete" => Empty(f)' /\ status'[f] \in {"deleted", "processing"}
      BY <1>3, <1>4, <1>5 DEF Empty, Result
    <2>2. o # "delete" => Whole(f)' /\ status'[f] \in {"synced", "processing"}
      <3>1. o # "delete" => p # NoPath /\ Only(f, p, h)
        BY <1>2, <1>5
      <3>2. QED
        BY <1>3, <1>4, <3>1 DEF Whole, Only, Result
    <2>3. QED
      BY <2>1, <2>2 DEF AtRest
  <1>7. /\ o = "append" => appends' = appends \cup {current}
        /\ o # "append" => appends' = appends
        /\ current \notin appends
    BY <1>1, <1>2, <1>3 DEF SuccessfulAppends
  <1>8. /\ path[f] = NoPath => appends = {}
        /\ hash[f] = content[f] \o Appends(Cardinality(appends))
        /\ job[f] \in {"none", "pending", "processing"} => path[f] = NoPath
        /\ IsFiniteSet(appends) /\ Cardinality(appends) \in Nat
    BY <1>2, Finite DEF RowInv
  <1> HIDE DEF appends
  <1>9. h = content[f] \o Appends(Cardinality(appends'))
    <2>1. CASE o = "upload"
      <3>1. appends' = {} /\ h = content[f]
        BY <1>5, <1>7, <1>8, <2>1
      <3>2. Cardinality(appends') = 0
        BY <3>1, FS_EmptySet
      <3>3. QED
        BY <1>2, <3>1, <3>2, NoneYet
    <2>2. CASE o = "append"
      <3>1. Cardinality(appends') = Cardinality(appends) + 1
        BY <1>7, <1>8, <2>2, FS_AddElement
      <3>2. h = Append(content[f] \o Appends(Cardinality(appends)), Appended)
        BY <1>5, <1>8, <2>2
      <3>3. QED
        BY <1>2, <1>8, <3>1, <3>2, OneMore
    <2>3. CASE o \in {"rename", "delete"}
      BY <1>5, <1>7, <1>8, <2>3
    <2>4. QED
      BY <1>5, <2>1, <2>2, <2>3
  <1>10. path'[f] = NoPath => appends' = {}
    BY <1>2, <1>3, <1>5, <1>7, <1>8
  <1>11. job'[f] \in {"none", "pending", "processing"} => path'[f] = NoPath
    <2>1. current = f => job'[f] = "success"
      BY <1>1, <1>2
    <2>2. current # f => job'[f] = job[f]
      BY <1>1, <1>2
    <2>3. CASE o = "upload"
      BY <1>2, <2>1, <2>3
    <2>4. CASE o # "upload" /\ current # f
      BY <1>3, <1>5, <1>8, <2>2, <2>4
    <2>5. QED
      BY <2>1, <2>3, <2>4
  <1>12. status'[f] # "none" /\ ~ Midway(f)'
    BY <1>1, <1>4 DEF Result, Midway
  <1>13. QED
    BY <1>3, <1>6, <1>9, <1>10, <1>11, <1>12 DEF RowInv, appends

LEMMA RowFail ==
    ASSUME FileInv, FailJob, NEW f, f = file[current], ~ Exempt(f), RowInv(f)
    PROVE  RowInv(f)'
  <1>1. /\ step = "fail" /\ step' = "idle" /\ job' = [job EXCEPT ![current] = "failed"]
        /\ UNCHANGED <<handlerVars, path, hash, disk>>
    BY DEF FailJob, GoIdle
  <1>2. /\ f \in Uploads /\ f \in Requests /\ current \in Requests
        /\ job \in [Requests -> {"none", "pending", "processing", "success", "failed"}]
        /\ job[current] = "processing" /\ status[f] # "none"
    BY <1>1, OwnFacts, Members
  <1>3. SuccessfulAppends(f)' = SuccessfulAppends(f)
    BY <1>1, <1>2 DEF SuccessfulAppends, handlerVars
  <1>4. status'[f] \in {status[f], "failed"}
    BY <1>2 DEF FailJob, Flushed, FileInv, TypeInv, RowTypes
  <1>5. job'[f] \in {"none", "pending", "processing"} =>
            job[f] \in {"none", "pending", "processing"}
    BY <1>1, <1>2
  <1>6. ~ Midway(f) /\ ~ Midway(f)'
    BY <1>1 DEF Midway
  <1>7. QED
    BY <1>1, <1>2, <1>3, <1>4, <1>5, <1>6, RowKept DEF handlerVars

LEMMA RowDies ==
    ASSUME FileInv, WorkerDies, NEW f, f = file[current], ~ Exempt(f), ~ Exempt(f)', RowInv(f)
    PROVE  RowInv(f)'
  <1>1. /\ step # "idle" /\ step' = "idle" /\ current' = NoJob
        /\ UNCHANGED <<handlerVars, job, rowVars, disk>>
    BY DEF WorkerDies, GoIdle
  <1>2. job[current] # "processing"
    BY <1>1, OwnFacts DEF Exempt, Abandoned, handlerVars
  <1>3. step \notin {"check", "commit"}
    BY <1>1, <1>2, OwnFacts
  <1>4. QED
    BY <1>1, <1>3, RowStops

LEMMA RowWorker ==
    ASSUME FileInv, WorkerStep, NEW f \in Uploads, ~ Exempt(f), ~ Exempt(f)', RowInv(f)
    PROVE  RowInv(f)'
  <1>1. CASE step = "idle" \/ f # file[current]
    BY <1>1, RowOther
  <1>2. CASE step # "idle" /\ f = file[current]
    <2>1. CASE LoadFile \/ Cleanup
      BY <1>2, <2>1, RowStops DEF LoadFile, Cleanup, GoIdle
    <2>2. CASE MoveUpload \/ AppendToFile \/ CheckAppended
      BY <1>2, <2>2, RowMoveUpload, RowAppend, RowCheck
    <2>3. CASE RenameFile \/ UnlinkFile
      BY <1>2, <2>3, RowRename, RowUnlink
    <2>4. CASE CommitJob \/ FailJob \/ WorkerDies
      BY <1>2, <2>4, RowCommit, RowFail, RowDies
    <2>5. CASE JobRaises
      <3>1. step = "run" /\ step' = "fail" /\ UNCHANGED <<handlerVars, job, rowVars, disk>>
        BY <1>2, <2>5 DEF JobRaises, Raise, Exempt, handlerVars
      <3>2. QED
        BY <1>2, <3>1, RowStops
    <2>6. QED
      BY <1>2, <2>1, <2>2, <2>3, <2>4, <2>5 DEF WorkerStep, Worker, TakeJob
  <1>3. QED
    BY <1>1, <1>2

LEMMA FileStart == Init => FileInv
  <1> SUFFICES ASSUME Init PROVE FileInv
    OBVIOUS
  <1>1. TypeInv
    BY TypeInit
  <1>2. QueueInv
    BY Members DEF Init, QueueInv
  <1>3. HandlerInv
    BY Members DEF Init, HandlerInv
  <1>4. LoadedInv
    BY DEF Init, LoadedInv
  <1>5. ASSUME NEW f \in Uploads PROVE RowInv(f)
    <2>1. f \in Requests /\ path[f] = NoPath /\ status[f] = "none"
      BY <1>5, Members DEF Init
    <2>2. SuccessfulAppends(f) = {}
      BY DEF Init, SuccessfulAppends
    <2>3. AtRest(f) /\ ~ Midway(f)
      BY <1>5, <2>1 DEF Init, AtRest, Empty, Midway
    <2>4. QED
      BY <2>1, <2>2, <2>3 DEF RowInv
  <1>6. QED
    BY <1>1, <1>2, <1>3, <1>4, <1>5 DEF FileInv

LEMMA FileStep == FileInv /\ [Next]_vars => FileInv'
  <1>1. ASSUME FileInv, NEW r \in Requests, HandlerStep(r) PROVE FileInv'
    <2>1. TypeInv'
      <3>1. Arrive \/ Handle(r) \/ ApiDies(r)
        BY <1>1 DEF HandlerStep, Arrive
      <3>2. QED
        BY <1>1, <3>1, TypeArrive, TypeHandle DEF FileInv
    <2>2. QueueInv' /\ HandlerInv' /\ LoadedInv'
      BY <1>1, QueueHandler, HandlerHandler, LoadedHandler DEF FileInv
    <2>3. ASSUME NEW f \in Uploads, ~ Exempt(f)' PROVE RowInv(f)'
      <3>1. ~ Exempt(f)
        BY <1>1, <2>3, ExemptHandler
      <3>2. QED
        BY <1>1, <3>1, RowHandler DEF FileInv
    <2>4. QED
      BY <2>1, <2>2, <2>3 DEF FileInv
  <1>2. ASSUME FileInv, WorkerStep PROVE FileInv'
    <2>1. TypeInv'
      BY <1>2, TypeWorker, TakenHolds DEF FileInv, WorkerStep
    <2>2. QueueInv' /\ HandlerInv' /\ LoadedInv'
      BY <1>2, QueueWorker, HandlerWorker, LoadedWorker DEF FileInv
    <2>3. ASSUME NEW f \in Uploads, ~ Exempt(f)' PROVE RowInv(f)'
      <3>1. ~ Exempt(f)
        BY <1>2, <2>3, ExemptWorker
      <3>2. QED
        BY <1>2, <2>3, <3>1, RowWorker DEF FileInv
    <2>4. QED
      BY <2>1, <2>2, <2>3 DEF FileInv
  <1>3. ASSUME FileInv, UNCHANGED vars PROVE FileInv'
    <2> USE <1>3 DEF FileInv, vars, handlerVars, rowVars, workerVars
    <2>1. TypeInv'
      BY DEF TypeInv, HandlerTypes, JobTypes, RowTypes, DiskTypes, WorkerTypes, FaultTypes
    <2>2. QueueInv' /\ HandlerInv' /\ LoadedInv'
      BY DEF QueueInv, HandlerInv, LoadedInv
    <2>3. ASSUME NEW f \in Uploads, ~ Exempt(f)' PROVE RowInv(f)'
      <3>1. ~ Exempt(f)
        BY <2>3 DEF Exempt, Abandoned
      <3>2. SuccessfulAppends(f)' = SuccessfulAppends(f)
        BY DEF SuccessfulAppends
      <3>3. (Midway(f)' = Midway(f)) /\ (MidJob(f) => MidJob(f)') /\ (AtRest(f) => AtRest(f)')
        BY DEF Midway, MidJob, AtRest, Empty, Whole, Only
      <3>4. QED
        BY <2>3, <3>1, <3>2, <3>3 DEF RowInv
    <2>4. QED
      BY <2>1, <2>2, <2>3
  <1>4. QED
    BY <1>1, <1>2, <1>3, NextSteps

\* Row, queue and disk keep to each other, whatever handlers and worker do, and whatever
\* crashes, except for files that a failed or abandoned job has left halfway.
THEOREM FileInvariant == Spec => []FileInv
  BY FileStart, FileStep, PTL DEF Spec

-----------------------------------------------------------------------------

\* The queue holds a request once, so it is never longer than the requests are many.
LEMMA QueueIsShort ==
    ASSUME TypeInv, QueueInv
    PROVE  Len(queue) <= Cardinality(Requests)
  <1>1. queue \in Seq(Requests) /\ Len(queue) \in Nat /\ DOMAIN queue = 1 .. Len(queue)
        /\ queue \in [1 .. Len(queue) -> Requests]
    BY DEF TypeInv, JobTypes
  <1>2. queue \in Injection(1 .. Len(queue), Requests)
    BY <1>1 DEF QueueInv, Injection, IsInjective
  <1>3. IsFiniteSet(Requests)
    BY FileManagerAssumption
  <1>4. Cardinality(1 .. Len(queue)) <= Cardinality(Requests)
    BY <1>2, <1>3, FS_Injection
  <1>5. Cardinality(1 .. Len(queue)) = Len(queue)
    BY <1>1, FS_Interval
  <1>6. QED
    BY <1>4, <1>5

\* The type invariant, and the bound on the Redis list.
THEOREM FileTypes == Spec => []TypeOK
  <1>1. FileInv => TypeOK
    BY QueueIsShort DEF FileInv, TypeInv, HandlerTypes, JobTypes, RowTypes, DiskTypes,
       WorkerTypes, FaultTypes, TypeOK
  <1>2. QED
    BY <1>1, FileInvariant, PTL

\* Once a file's handlers and jobs are over, it is not exempt and no job is midway.
LEMMA SettledRow ==
    ASSUME FileInv, NEW f \in Uploads, Settled(f), f \notin torn
    PROVE  RowInv(f) /\ AtRest(f)
  <1>1. ~ Exempt(f)
    BY DEF Settled, Exempt, Abandoned
  <1>2. RowInv(f)
    BY <1>1 DEF FileInv
  <1>3. ~ Midway(f)
    BY TakenHolds DEF FileInv, Taken, QueueInv, Midway, Settled
  <1>4. QED
    BY <1>2, <1>3 DEF RowInv

\* When a file's handlers and jobs are over and its row says SYNCED, the disk has the
\* row's content under the row's path and nothing else of the file.
THEOREM SyncedIsTrue == Spec => []SyncedMatchesDisk
  <1>1. FileInv => SyncedMatchesDisk
    BY SettledRow DEF SyncedMatchesDisk, AtRest, Whole
  <1>2. QED
    BY <1>1, FileInvariant, PTL

\* A settled SYNCED file has its upload, and each append that was reported as a success
\* once, whichever way appends, renames and failed jobs were interleaved.
THEOREM AppendsAreKept == Spec => []AppendsKeptOnce
  <1>1. ASSUME FileInv PROVE AppendsKeptOnce
    <2>1. SUFFICES ASSUME NEW f \in Uploads, Settled(f), status[f] = "synced", f \notin torn
                   PROVE  disk[f][path[f]] =
                              content[f] \o Appends(Cardinality(SuccessfulAppends(f)))
      BY DEF AppendsKeptOnce, Appends
    <2>2. RowInv(f) /\ Whole(f) /\ path[f] \in Names
      BY <1>1, <2>1, SettledRow DEF AtRest, Whole, FileInv, TypeInv, RowTypes
    <2>3. disk[f][path[f]] = hash[f]
      BY <2>2 DEF Whole, Only
    <2>4. QED
      BY <2>1, <2>2, <2>3 DEF RowInv
  <1>2. QED
    BY <1>1, FileInvariant, PTL

\* A settled DELETED row has nothing on disk, under any name the file ever had.
THEOREM DeletedIsGone == Spec => []DeletedLeavesNothing
  <1>1. FileInv => DeletedLeavesNothing
    BY SettledRow DEF DeletedLeavesNothing, AtRest, Empty
  <1>2. QED
    BY <1>1, FileInvariant, PTL

=============================================================================
