----------------------------- MODULE FileManager -----------------------------
(***************************************************************************)
(* Uploads, appends, renames and deletes of the ingestion backend.  An API *)
(* handler reads the file's row, commits the row and a job, and then       *)
(* pushes the job on a Redis list; one worker takes the jobs in order,     *)
(* changes the disk and commits the row.  Row, queue and disk share no     *)
(* transaction, and handlers run concurrently with each other and with the *)
(* worker.                                                                 *)
(*                                                                         *)
(* Each request makes at most one job, named by the request; an upload     *)
(* also makes the file.  A request that is refused changes nothing, and is *)
(* not a step.  The directory exists.  Content is a sequence of pieces and *)
(* stands for its SHA-256 as well; <<>> is no file, since no file is empty.*)
(* The path of a file is its unique prefix and a name: no two files can    *)
(* collide, so the name stands for the path.                               *)
(***************************************************************************)
EXTENDS Naturals, FiniteSets, Sequences

CONSTANTS
    Uploads,        \* bound: upload requests; also the files they make
    Changes,        \* bound: append, rename and delete requests
    NoJob,          \* the worker is idle
    Contents,       \* what the uploads may contain: functions from Uploads to sequences
    Appended,       \* the piece that every append adds
    Original,       \* original_name of every upload
    NewNames,       \* names a rename may ask for
    NoPath,         \* relative_path is None
    MaxFaults       \* bound: crashes and I/O errors

Requests == Uploads \cup Changes
Names    == {Original} \cup NewNames
Pieces   == {Appended} \cup UNION {UNION {{c[u][i] : i \in DOMAIN c[u]} : u \in Uploads} : c \in Contents}

ASSUME FileManagerAssumption ==
    /\ IsFiniteSet(Requests)
    /\ Uploads \cap Changes = {} /\ NoJob \notin Requests
    /\ Contents # {} /\ Contents \subseteq [Uploads -> Seq(Pieces) \ {<<>>}]
    /\ NoPath \notin Names
    /\ MaxFaults \in Nat

VARIABLES
    phase,          \* where the handler of each request is
    op,             \* SyncJob.operation of its job
    file,           \* SyncJob.file_id
    seen,           \* the file status that the handler's session loaded
    payload,        \* the append's target_relative_path, the rename's new_name
    job,            \* SyncJob.status
    queue,          \* the Redis list, the next job first
    content,        \* what was uploaded
    status,         \* files.status, "none" before the row is committed
    path,           \* files.relative_path
    hash,           \* files.content_hash
    disk,           \* what is under each path of the file
    current,        \* the job the worker is running
    step,           \* where it is in that job
    loaded,         \* the file status that the worker's session loaded
    torn,           \* history: files a job of which failed after it changed the disk
    faults          \* faults so far

handlerVars == <<phase, op, file, seen, payload, content>>
rowVars     == <<status, path, hash>>
workerVars  == <<current, step, loaded>>
vars == <<handlerVars, job, queue, rowVars, disk, workerVars, torn, faults>>

Statuses == {"none", "processing", "synced", "failed", "deleted", "duplicate"}

TypeOK ==
    /\ phase \in [Requests -> {"new", "open", "read", "duplicate", "committed",
                               "answered", "died"}]
    /\ op \in [Requests -> {"none", "upload", "append", "rename", "delete"}]
    /\ file \in [Requests -> Uploads]
    /\ seen \in [Requests -> Statuses]
    /\ payload \in [Requests -> Names \cup {NoPath}]
    /\ job \in [Requests -> {"none", "pending", "processing", "success", "failed"}]
    /\ queue \in Seq(Requests) /\ Len(queue) <= Cardinality(Requests)
    /\ content \in [Uploads -> Seq(Pieces)]
    /\ status \in [Uploads -> Statuses]
    /\ path \in [Uploads -> Names \cup {NoPath}]
    /\ hash \in [Uploads -> Seq(Pieces)]
    /\ disk \in [Uploads -> [Names -> Seq(Pieces)]]
    /\ current \in Requests \cup {NoJob}
    /\ step \in {"idle", "load", "run", "check", "commit", "cleanup", "fail"}
    /\ loaded \in Statuses
    /\ torn \subseteq Uploads
    /\ faults \in 0 .. MaxFaults

Init ==
    /\ phase = [r \in Requests |-> "new"]
    /\ op = [r \in Requests |-> IF r \in Uploads THEN "upload" ELSE "none"]
    /\ file \in [Requests -> Uploads] /\ \A u \in Uploads : file[u] = u
    /\ seen = [r \in Requests |-> "none"]
    /\ payload = [r \in Requests |-> NoPath]
    /\ job = [r \in Requests |-> "none"]
    /\ queue = <<>>
    /\ content \in Contents
    /\ status = [f \in Uploads |-> "none"]
    /\ path = [f \in Uploads |-> NoPath]
    /\ hash = [f \in Uploads |-> <<>>]
    /\ disk = [f \in Uploads |-> [n \in Names |-> <<>>]]
    /\ current = NoJob /\ step = "idle" /\ loaded = "none"
    /\ torn = {} /\ faults = 0

Fault == faults < MaxFaults /\ faults' = faults + 1

\* What a flush writes: an attribute that is set to the value the session loaded is
\* not part of the UPDATE.
Flushed(row, snapshot, value) == IF value = snapshot THEN row ELSE value

-----------------------------------------------------------------------------
(* The API handlers. *)

\* find_duplicate_in_directory
SameContent(c) == {f \in Uploads : hash[f] = c /\ status[f] \in {"processing", "synced"}}

\* complete_chunk_upload of an upload, up to the duplicate check; with two matches
\* scalar_one_or_none raises and nothing is done.
RequestUpload(u) ==
    /\ phase[u] = "new"
    /\ \/ SameContent(content[u]) = {} /\ phase' = [phase EXCEPT ![u] = "read"]
       \/ /\ Cardinality(SameContent(content[u])) = 1
          /\ phase' = [phase EXCEPT ![u] = "duplicate"]
    /\ UNCHANGED <<op, file, seen, payload, content, job, queue, rowVars, disk,
                   workerVars, torn, faults>>

\* create_upload_job, up to its commit.
CommitUpload(u) ==
    /\ phase[u] = "read"
    /\ phase' = [phase EXCEPT ![u] = "committed"]
    /\ status' = [status EXCEPT ![u] = "processing"]
    /\ hash' = [hash EXCEPT ![u] = content[u]]
    /\ job' = [job EXCEPT ![u] = "pending"]
    /\ UNCHANGED <<op, file, seen, payload, content, queue, path, disk, workerVars,
                   torn, faults>>

\* create_duplicate_record: a row, and neither a job nor a file.
CommitDuplicate(u) ==
    /\ phase[u] = "duplicate"
    /\ phase' = [phase EXCEPT ![u] = "answered"]
    /\ status' = [status EXCEPT ![u] = "duplicate"]
    /\ hash' = [hash EXCEPT ![u] = content[u]]
    /\ UNCHANGED <<op, file, seen, payload, content, job, queue, path, disk,
                   workerVars, torn, faults>>

Accept(c, from, to, operation, argument) ==
    /\ phase[c] = from
    /\ phase' = [phase EXCEPT ![c] = to]
    /\ op' = [op EXCEPT ![c] = operation]
    /\ seen' = [seen EXCEPT ![c] = status[file[c]]]
    /\ payload' = [payload EXCEPT ![c] = argument]
    /\ UNCHANGED <<file, content, job, queue, rowVars, disk, workerVars, torn, faults>>

\* init_append
InitAppend(c) ==
    /\ status[file[c]] = "synced"
    /\ Accept(c, "new", "open", "append", NoPath)

\* complete_append: the row it reads first stays the session's snapshot, and decides.
CompleteAppend(c) ==
    /\ status[file[c]] # "deleted" /\ path[file[c]] # NoPath
    /\ Accept(c, "open", "read", "append", path[file[c]])

RequestRename(c) ==
    /\ status[file[c]] \in {"synced", "failed"}
    /\ \E n \in NewNames : Accept(c, "new", "read", "rename", n)

RequestDelete(c) ==
    /\ status[file[c]] \notin {"none", "deleted"}
    /\ Accept(c, "new", "read", "delete", NoPath)

\* status = PROCESSING, the job, and db.commit().
CommitChange(c) ==
    /\ phase[c] = "read"
    /\ phase' = [phase EXCEPT ![c] = "committed"]
    /\ status' = [status EXCEPT ![file[c]] = Flushed(@, seen[c], "processing")]
    /\ job' = [job EXCEPT ![c] = "pending"]
    /\ UNCHANGED <<op, file, seen, payload, content, queue, path, hash, disk,
                   workerVars, torn, faults>>

\* Mutant: the push is repeated, as if it had not been acknowledged.
MutantEnqueue(r) ==
    /\ phase[r] = "committed"
    /\ queue' = Append(queue, r)
    /\ UNCHANGED <<handlerVars, job, rowVars, disk, workerVars, torn, faults>>

\* enqueue_job: LPUSH, against the worker's BRPOP.
Enqueue(r) ==
    /\ phase[r] = "committed"
    /\ phase' = [phase EXCEPT ![r] = "answered"]
    /\ queue' = Append(queue, r)
    /\ UNCHANGED <<op, file, seen, payload, content, job, rowVars, disk, workerVars,
                   torn, faults>>

\* The API dies, or Redis refuses the push: what was committed stays.
ApiDies(r) ==
    /\ phase[r] \in {"read", "duplicate", "committed"}
    /\ Fault
    /\ phase' = [phase EXCEPT ![r] = "died"]
    /\ UNCHANGED <<op, file, seen, payload, content, job, queue, rowVars, disk,
                   workerVars, torn>>

-----------------------------------------------------------------------------
(* The worker: run_job. *)

\* dequeue_job, and the commit of PROCESSING.
TakeJob ==
    /\ step = "idle" /\ queue # <<>>
    /\ current' = Head(queue) /\ queue' = Tail(queue)
    /\ job' = [job EXCEPT ![Head(queue)] = "processing"]
    /\ step' = "load"
    /\ UNCHANGED <<handlerVars, rowVars, disk, loaded, torn, faults>>

\* db.get(FileRecord)
LoadFile ==
    /\ step = "load"
    /\ loaded' = status[file[current]]
    /\ step' = "run"
    /\ UNCHANGED <<handlerVars, job, queue, rowVars, disk, current, torn, faults>>

\* The process_ function raises: the session rolls back and mark_job_failed loads the row.
Raise ==
    /\ loaded' = status[file[current]]
    /\ step' = "fail"
    /\ UNCHANGED <<handlerVars, job, queue, rowVars, current>>

Running(operation) == step = "run" /\ op[current] = operation

ChangeDisk(f, content_of, to) ==
    /\ disk' = [disk EXCEPT ![f] = content_of]
    /\ step' = to
    /\ UNCHANGED <<handlerVars, job, queue, rowVars, current, loaded, torn, faults>>

\* process_upload_job: the staged file is moved to its path.
MoveUpload ==
    /\ Running("upload")
    /\ ChangeDisk(current, [disk[current] EXCEPT ![Original] = content[current]], "commit")

\* Mutant: the staged data replaces the file.
MutantAppendToFile ==
    /\ Running("append")
    /\ LET f == file[current]
           target == disk[f][payload[current]]
       IN  IF target # <<>>
           THEN ChangeDisk(f, [disk[f] EXCEPT ![payload[current]] = <<Appended>>], "check")
           ELSE Raise /\ UNCHANGED <<disk, torn, faults>>

\* process_append_job: the target's path is the one that the handler saw.
AppendToFile ==
    /\ Running("append")
    /\ LET f == file[current]
           target == disk[f][payload[current]]
       IN  IF target # <<>>
           THEN ChangeDisk(f, [disk[f] EXCEPT ![payload[current]] = Append(@, Appended)],
                           "check")
           ELSE Raise /\ UNCHANGED <<disk, torn, faults>>

\* assert_no_duplicate_in_directory, on the hash of what is on disk now.
CheckAppended ==
    /\ step = "check"
    /\ LET f == file[current]
       IN  IF SameContent(disk[f][payload[current]]) \subseteq {f}
           THEN /\ step' = "commit"
                /\ UNCHANGED <<handlerVars, job, queue, rowVars, disk, current, loaded,
                               torn, faults>>
           ELSE Raise /\ torn' = torn \cup {f} /\ UNCHANGED <<disk, faults>>

\* process_rename_job: the path is the row's.
RenameFile ==
    /\ Running("rename")
    /\ LET f == file[current]
       IN  IF path[f] # NoPath /\ disk[f][path[f]] # <<>>
           THEN ChangeDisk(f, [n \in Names |->
                    CASE n = payload[current] -> disk[f][path[f]]
                      [] n = path[f] /\ n # payload[current] -> <<>>
                      [] OTHER -> disk[f][n]], "commit")
           ELSE Raise /\ UNCHANGED <<disk, torn, faults>>

\* Mutant: the row is marked and the file is left to a cleanup.
MutantUnlinkFile ==
    /\ Running("delete")
    /\ ChangeDisk(file[current], disk[file[current]], "commit")

\* process_delete_job
UnlinkFile ==
    /\ Running("delete")
    /\ ChangeDisk(file[current],
                  [n \in Names |-> IF n = path[file[current]] THEN <<>>
                                   ELSE disk[file[current]][n]], "commit")

GoIdle == step' = "idle" /\ current' = NoJob /\ loaded' = "none"

Succeed ==
    /\ job' = [job EXCEPT ![current] = "success"]
    /\ step' = "cleanup"
    /\ UNCHANGED <<handlerVars, queue, disk, current, loaded, torn, faults>>

Result == IF op[current] = "delete" THEN "deleted" ELSE "synced"

\* Mutant: a rename does not record the new path.
MutantCommitJob ==
    /\ step = "commit"
    /\ LET f == file[current]
       IN  /\ status' = [status EXCEPT ![f] = Flushed(@, loaded, Result)]
           /\ path' = [path EXCEPT ![f] = IF op[current] = "upload" THEN Original ELSE @]
           /\ hash' = [hash EXCEPT ![f] = CASE op[current] = "upload" -> content[f]
                                            [] op[current] = "append" -> disk[f][payload[current]]
                                            [] OTHER -> @]
    /\ Succeed

\* The attributes that the process_ function set, job.status = SUCCESS, and db.commit().
CommitJob ==
    /\ step = "commit"
    /\ LET f == file[current]
       IN  /\ status' = [status EXCEPT ![f] = Flushed(@, loaded, Result)]
           /\ path' = [path EXCEPT ![f] = CASE op[current] = "upload" -> Original
                                            [] op[current] = "rename" -> payload[current]
                                            [] OTHER -> @]
           /\ hash' = [hash EXCEPT ![f] = CASE op[current] = "upload" -> content[f]
                                            [] op[current] = "append" -> disk[f][payload[current]]
                                            [] OTHER -> @]
    /\ Succeed

\* _cleanup_staging, after the commit.
Cleanup ==
    /\ step = "cleanup"
    /\ GoIdle
    /\ UNCHANGED <<handlerVars, job, queue, rowVars, disk, torn, faults>>

\* Mutant: the file is left as it is.
MutantFailJob ==
    /\ step = "fail"
    /\ job' = [job EXCEPT ![current] = "failed"]
    /\ GoIdle
    /\ UNCHANGED <<handlerVars, queue, rowVars, disk, torn, faults>>

\* mark_job_failed: a file whose delete failed keeps its status.
FailJob ==
    /\ step = "fail"
    /\ status' = IF op[current] = "delete" THEN status
                 ELSE [status EXCEPT ![file[current]] = Flushed(@, loaded, "failed")]
    /\ job' = [job EXCEPT ![current] = "failed"]
    /\ GoIdle
    /\ UNCHANGED <<handlerVars, queue, path, hash, disk, torn, faults>>

\* The disk or the database raises: before or after the disk was changed, or when the
\* staged file is removed, after the commit of a success.
JobRaises ==
    /\ step \in {"run", "check", "commit", "cleanup"}
    /\ Fault
    /\ Raise
    /\ torn' = IF step = "run" THEN torn ELSE torn \cup {file[current]}
    /\ UNCHANGED disk

\* The job was popped from the list: a worker that starts again does not find it.
WorkerDies ==
    /\ step # "idle"
    /\ Fault
    /\ GoIdle
    /\ UNCHANGED <<handlerVars, job, queue, rowVars, disk, torn>>

-----------------------------------------------------------------------------

Arrive ==
    \/ \E u \in Uploads : RequestUpload(u)
    \/ \E c \in Changes : InitAppend(c) \/ CompleteAppend(c) \/ RequestRename(c)
                            \/ RequestDelete(c)

Handle(r) ==
    \/ r \in Uploads /\ (CommitUpload(r) \/ CommitDuplicate(r))
    \/ r \in Changes /\ CommitChange(r)
    \/ Enqueue(r)

Worker ==
    \/ TakeJob \/ LoadFile \/ MoveUpload \/ AppendToFile \/ CheckAppended
    \/ RenameFile \/ UnlinkFile \/ CommitJob \/ Cleanup \/ FailJob

FaultStep == JobRaises \/ WorkerDies \/ \E r \in Requests : ApiDies(r)

Next == Arrive \/ (\E r \in Requests : Handle(r)) \/ Worker \/ FaultStep

Spec == Init /\ [][Next]_vars

\* A handler runs to its answer and the worker goes on with its loop; no client has to
\* ask for anything, and no fault has to happen.
Fairness == (\A r \in Requests : WF_vars(Handle(r))) /\ WF_vars(Worker)

FairSpec == Spec /\ Fairness

-----------------------------------------------------------------------------
(* Properties. *)

\* No handler is between its read and its answer, and every job of the file has ended.
\* A request that died after its commit, or a job whose worker died, never ends.
Settled(f) == \A r \in Requests : file[r] = f =>
    phase[r] \notin {"read", "committed"} /\ job[r] \notin {"pending", "processing"}

Only(f, n, c) == disk[f] = [m \in Names |-> IF m = n THEN c ELSE <<>>]

\* A settled SYNCED row is the truth about the disk: its path holds content with its
\* hash, and nothing of the file is left under another name, whatever handlers and jobs
\* met.  Excepted are files with a job that failed after it changed the disk.
SyncedMatchesDisk ==
    \A f \in Uploads : Settled(f) /\ status[f] = "synced" /\ f \notin torn =>
        path[f] # NoPath /\ Only(f, path[f], hash[f])

SuccessfulAppends(f) ==
    {r \in Requests : file[r] = f /\ op[r] = "append" /\ job[r] = "success"}

\* No append is lost, and none is applied twice: the file is what was uploaded followed
\* by the data of each append that was reported as a success.
AppendsKeptOnce ==
    \A f \in Uploads : Settled(f) /\ status[f] = "synced" /\ f \notin torn =>
        disk[f][path[f]] =
            content[f] \o [i \in 1 .. Cardinality(SuccessfulAppends(f)) |-> Appended]

\* A settled DELETED row has left nothing on disk.
DeletedLeavesNothing ==
    \A f \in Uploads : Settled(f) /\ status[f] = "deleted" /\ f \notin torn =>
        \A n \in Names : disk[f][n] = <<>>

\* Without faults no file stays PROCESSING, whichever of its jobs succeed or fail.
FilesSettle == <>[](faults > 0 \/ \A f \in Uploads : status[f] # "processing")

\* "Duplicates are recorded in the database only (status `duplicate`) - no disk write, no
\* worker job" (README.md:70): no two synced files of the directory have one content.
NoTwoCopies ==
    \A f, g \in Uploads :
        f # g /\ status[f] = "synced" /\ status[g] = "synced" =>
            disk[f][path[f]] # disk[g][path[g]]

=============================================================================
