----------------------------- MODULE SyncRunner ------------------------------
(***************************************************************************)
(* One ingestion pipeline: manual runs and queued syncs, which the worker  *)
(* loop runs one after the other and in turn with the file jobs, and the   *)
(* cron's syncs, which run on the same event loop and may be anywhere when *)
(* the worker loop is anywhere.  Each indexes files into Qdrant, under its *)
(* own run id, and keeps IndexedFile rows of what it indexed.              *)
(*                                                                         *)
(* A step is what lies between two awaits that matter: a query, a call of  *)
(* Qdrant, a commit.  A file is one point; its content stands for its hash *)
(* too.  Two files may have the same content: duplicates are only looked   *)
(* for within a directory, and a pipeline may have several.  The order of  *)
(* the files in a query's result is open, and so is the order in which the *)
(* worker looks at its three queues.  The pipeline's web scraper may be    *)
(* switched, and its URL changed, at any time: what a task reads of them   *)
(* when it starts is open.  The crawl that a run starts in the scraper is  *)
(* module CrawlPipeline's; here it only may fail the run.                  *)
(***************************************************************************)
EXTENDS Naturals, FiniteSets

CONSTANTS
    Files,          \* bound: files of the pipeline's directories
    ContentsOf,     \* what each file may contain: a function to sets
    None,           \* no content, no file, no task
    Runs,           \* bound: POST /pipelines/{id}/run
    Syncs,          \* bound: POST /pipelines/{id}/sync
    Ticks,          \* bound: firings of the cron trigger
    MaxEdits,       \* bound: file operations
    MaxFaults       \* bound: crashes and Qdrant errors

Tasks    == Runs \cup Syncs \cup Ticks
Contents == UNION {ContentsOf[f] : f \in Files}

ASSUME SyncAssumption ==
    /\ DOMAIN ContentsOf = Files
    /\ None \notin Files \cup Tasks \cup Contents
    /\ MaxEdits \in Nat /\ MaxFaults \in Nat

VARIABLES
    status,         \* files.status
    hash,           \* files.content_hash
    path,           \* files.relative_path: a rename makes the next one
    disk,           \* the content of each file, and the path it is under
    edit,           \* the file job that an API request has queued, if any
    editing,        \* the file whose job has changed the disk and not yet the row
    edits,          \* file operations, and changes of the pipeline, so far
    dirs,           \* the files in the pipeline's directory_names
    folders,        \* those that each task read with the pipeline when it started
    row,            \* pipeline_runs.status of each task
    pc,             \* where each task is
    seen,           \* what its first query returned
    todo,           \* the new, changed and removed files it has still to do
    doing,          \* the one it is doing
    records,        \* indexed_files: content_hash of the row made for a file by a task
    points,         \* Qdrant: content of the point made for a file by a task
    worker,         \* the task that the worker loop runs
    cron,           \* the task that the scheduler runs
    suspect,        \* history: files whose record and points may differ, see below
    fresh,          \* history: the sync alone since whose reading nothing has changed
    faults          \* faults so far

fileVars == <<status, hash, path, disk, edit, editing, edits>>
pipeVars == <<dirs, folders>>
taskVars == <<row, pc, seen, todo, doing>>
dbVars   == <<records, points>>
vars == <<fileVars, pipeVars, taskVars, dbVars, worker, cron, suspect, fresh, faults>>

Owned(table, f) == {table[f][t] : t \in Tasks} \ {None}

NoWork == [file |-> None, kind |-> "none", hash |-> None, path |-> 0, by |-> None,
           stage |-> "none"]

TypeOK ==
    /\ status \in [Files -> {"none", "processing", "synced", "deleted"}]
    /\ hash \in [Files -> Contents \cup {None}]
    /\ path \in [Files -> 0 .. MaxEdits]
    /\ disk \in [Files -> [content : Contents \cup {None}, path : 0 .. MaxEdits]]
    /\ edit \in [Files -> {"none", "upload", "append", "rename", "delete"}]
    /\ editing \in Files \cup {None}
    /\ edits \in 0 .. MaxEdits
    /\ dirs \subseteq Files /\ folders \in [Tasks -> SUBSET Files]
    /\ row \in [Tasks -> {"none", "pending", "processing", "success", "failed"}]
    /\ pc \in [Tasks -> {"new", "checked", "committed", "queued", "crawl", "read",
                         "compare", "work", "done", "dead"}]
    /\ \A t \in Tasks : \A i \in todo[t] \cup {doing[t]} :
        /\ i.file \in Files \cup {None}
        /\ i.kind \in {"none", "new", "changed", "removed"}
        /\ i.hash \in Contents \cup {None} /\ i.path \in 0 .. MaxEdits
        /\ i.by \in Tasks \cup {None}
        /\ i.stage \in {"none", "delete", "index", "commit"}
    /\ records \in [Files -> [Tasks -> Contents \cup {None}]]
    /\ points \in [Files -> [Tasks -> Contents \cup {None}]]
    /\ worker \in Runs \cup Syncs \cup {None} /\ cron \in Ticks \cup {None}
    /\ suspect \subseteq Files
    /\ fresh \in Tasks \cup {None}
    /\ faults \in 0 .. MaxFaults

\* Some files were uploaded before the pipeline was created; none is indexed.
Init ==
    /\ status \in [Files -> {"none", "synced"}]
    /\ hash \in [Files -> Contents \cup {None}]
    /\ \A f \in Files :
           hash[f] \in (IF status[f] = "synced" THEN ContentsOf[f] ELSE {None})
    /\ path = [f \in Files |-> 0]
    /\ disk = [f \in Files |-> [content |-> hash[f], path |-> 0]]
    /\ edit = [f \in Files |-> "none"] /\ editing = None /\ edits = 0
    /\ dirs = Files /\ folders = [t \in Tasks |-> {}]
    /\ row = [t \in Tasks |-> "none"]
    /\ pc = [t \in Tasks |-> "new"]
    /\ seen = [t \in Tasks |-> {}]
    /\ todo = [t \in Tasks |-> {}]
    /\ doing = [t \in Tasks |-> NoWork]
    /\ records = [f \in Files |-> [t \in Tasks |-> None]]
    /\ points = [f \in Files |-> [t \in Tasks |-> None]]
    /\ worker = None /\ cron = None
    /\ suspect = {} /\ fresh = None
    /\ faults = 0

WorkerIdle == worker = None /\ editing = None

Fault == faults < MaxFaults /\ faults' = faults + 1

-----------------------------------------------------------------------------
(* Files change as module FileManager has it, here with one job of a file at a time. *)

RequestUpload(f) ==
    /\ status[f] = "none" /\ edits < MaxEdits
    /\ \E c \in ContentsOf[f] : hash' = [hash EXCEPT ![f] = c]
    /\ status' = [status EXCEPT ![f] = "processing"]
    /\ edit' = [edit EXCEPT ![f] = "upload"]
    /\ edits' = edits + 1 /\ fresh' = None
    /\ UNCHANGED <<path, disk, editing, pipeVars, taskVars, dbVars,
                   worker, cron, suspect, faults>>

RequestEdit(f) ==
    /\ status[f] = "synced" /\ edits < MaxEdits
    /\ status' = [status EXCEPT ![f] = "processing"]
    /\ \E what \in {"append", "rename", "delete"} : edit' = [edit EXCEPT ![f] = what]
    /\ edits' = edits + 1 /\ fresh' = None
    /\ UNCHANGED <<hash, path, disk, editing, pipeVars, taskVars, dbVars,
                   worker, cron, suspect, faults>>

\* The worker loop runs the file's job: first the disk,
EditDisk(f) ==
    /\ edit[f] # "none" /\ WorkerIdle
    /\ editing' = f
    /\ \/ /\ edit[f] = "upload"
          /\ disk' = [disk EXCEPT ![f].content = hash[f]]
       \/ /\ edit[f] = "append"
          /\ \E c \in ContentsOf[f] \ {hash[f]} : disk' = [disk EXCEPT ![f].content = c]
       \/ /\ edit[f] = "rename"
          /\ disk' = [disk EXCEPT ![f].path = @ + 1]
       \/ /\ edit[f] = "delete"
          /\ disk' = [disk EXCEPT ![f].content = None]
    /\ fresh' = None
    /\ UNCHANGED <<status, hash, path, edit, edits, pipeVars, taskVars, dbVars, worker,
                   cron, suspect, faults>>

\* then the row.
EditRow ==
    /\ editing # None
    /\ status' = [status EXCEPT ![editing] =
                      IF edit[editing] = "delete" THEN "deleted" ELSE "synced"]
    /\ hash' = [hash EXCEPT ![editing] =
                      IF edit[editing] = "delete" THEN @ ELSE disk[editing].content]
    /\ path' = [path EXCEPT ![editing] = disk[editing].path]
    /\ edit' = [edit EXCEPT ![editing] = "none"]
    /\ editing' = None /\ fresh' = None
    /\ UNCHANGED <<disk, edits, pipeVars, taskVars, dbVars, worker, cron, suspect, faults>>

\* PATCH /pipelines/{id}: directories may be added or removed at any time, and all of them
\* removed.  Each file has a directory of its own.
UpdatePipeline ==
    /\ edits < MaxEdits
    /\ \E d \in (SUBSET Files) \ {dirs} : dirs' = d
    /\ edits' = edits + 1 /\ fresh' = None
    /\ UNCHANGED <<status, hash, path, disk, edit, editing, folders, taskVars, dbVars,
                   worker, cron, suspect, faults>>

-----------------------------------------------------------------------------
(* The API, and the start of a task. *)

GoTo(t, from, to) == pc[t] = from /\ pc' = [pc EXCEPT ![t] = to]

\* start_pipeline and trigger_pipeline_sync ask for an active run; the latter refuses a
\* pipeline without directories.
CheckActive(t) ==
    /\ t \in Runs \cup Syncs
    /\ t \in Syncs => dirs # {}
    /\ \A u \in Tasks : row[u] \notin {"pending", "processing"}
    /\ GoTo(t, "new", "checked")
    /\ UNCHANGED <<fileVars, pipeVars, row, seen, todo, doing, dbVars,
                   worker, cron, suspect, fresh, faults>>

\* A manual run has its row before it is enqueued,
CommitRun(t) ==
    /\ t \in Runs
    /\ GoTo(t, "checked", "committed")
    /\ row' = [row EXCEPT ![t] = "pending"]
    /\ UNCHANGED <<fileVars, pipeVars, seen, todo, doing, dbVars, worker, cron, suspect,
                   fresh, faults>>

\* a sync has none until the worker starts it.
Enqueue(t) ==
    /\ GoTo(t, IF t \in Runs THEN "committed" ELSE "checked", "queued")
    /\ UNCHANGED <<fileVars, pipeVars, row, seen, todo, doing, dbVars,
                   worker, cron, suspect, fresh, faults>>

ApiDies(t) ==
    /\ pc[t] \in {"checked", "committed"}
    /\ Fault
    /\ pc' = [pc EXCEPT ![t] = "dead"]
    /\ UNCHANGED <<fileVars, pipeVars, row, seen, todo, doing, dbVars,
                   worker, cron, suspect, fresh>>

\* validate_pipeline_config: there is something to index, and the web scraper, if it is
\* enabled, has a seed URL.
Scrapers == {"off", "on", "no url"}
Valid(scraper) == scraper = "on" \/ (scraper = "off" /\ dirs # {})

\* The pipeline is loaded once, before the run's row is committed: a change of it after
\* that is for the next task.  A manual run with the scraper enabled crawls first.
Start(t) ==
    /\ \E scraper \in Scrapers :
        /\ Valid(scraper)
        /\ GoTo(t, "queued", IF t \in Runs /\ scraper = "on" THEN "crawl" ELSE "read")
    /\ row' = [row EXCEPT ![t] = "processing"]
    /\ folders' = [folders EXCEPT ![t] = dirs]
    /\ fresh' = None
    /\ UNCHANGED <<fileVars, dirs, seen, todo, doing, dbVars, suspect, faults>>

\* A pipeline that is not valid any more: a manual run fails, a sync raises before it has
\* a row, and the worker loop and the cron go on with what is next.
Refuse(t) ==
    /\ cron = t \/ (t \in Runs \cup Syncs /\ WorkerIdle)
    /\ \E scraper \in Scrapers : ~Valid(scraper)
    /\ GoTo(t, "queued", "done")
    /\ row' = IF t \in Runs THEN [row EXCEPT ![t] = "failed"] ELSE row
    /\ cron' = IF cron = t THEN None ELSE cron
    /\ UNCHANGED <<fileVars, pipeVars, seen, todo, doing, dbVars, worker, suspect, fresh,
                   faults>>

\* The worker loop takes a run or a sync from its queue.
Dequeue(t) ==
    /\ t \in Runs \cup Syncs /\ WorkerIdle
    /\ Start(t)
    /\ worker' = t
    /\ UNCHANGED cron

\* sync_all_pipelines, at most one at a time, asks nobody.  It passes over a pipeline that
\* had no directories when all pipelines were read,
Tick(t) ==
    /\ t \in Ticks /\ cron = None /\ dirs # {}
    /\ GoTo(t, "new", "queued")
    /\ cron' = t
    /\ UNCHANGED <<fileVars, pipeVars, row, seen, todo, doing, dbVars, worker, suspect,
                   fresh, faults>>

\* and reads it again when its turn has come.
CronStart(t) ==
    /\ cron = t
    /\ Start(t)
    /\ UNCHANGED <<worker, cron>>

\* start_crawl_scrape_pipeline: the scraper has answered, with the ids of its jobs.
Crawl(t) ==
    /\ GoTo(t, "crawl", "read")
    /\ UNCHANGED <<fileVars, pipeVars, row, seen, todo, doing, dbVars, worker, cron,
                   suspect, fresh, faults>>

-----------------------------------------------------------------------------
(* What to do. *)

SyncedFiles(t) == {[file |-> f, hash |-> hash[f], path |-> path[f]] :
                      f \in {g \in folders[t] : status[g] = "synced"}}

Recorded(f) == {u \in Tasks : records[f][u] # None}

IndexedHashes == UNION {Owned(records, f) : f \in Files}

Item(s, kind, by) == [file |-> s.file, kind |-> kind, hash |-> s.hash, path |-> s.path,
                      by |-> by, stage |-> "none"]

\* The first query: a sync reads the files, a manual run the records.
Read(t) ==
    /\ GoTo(t, "read", "compare")
    /\ seen' = [seen EXCEPT ![t] = IF t \in Runs THEN IndexedHashes ELSE SyncedFiles(t)]
    /\ fresh' = IF t \in Runs \/ {worker, cron} \ {t} # {None} \/ folders[t] # dirs
                THEN None ELSE t
    /\ UNCHANGED <<fileVars, pipeVars, row, todo, doing, dbVars, worker, cron, suspect,
                   faults>>

\* What another task, which runs at the same time, has still to do.
Others(t) == UNION {todo[u] : u \in {worker, cron} \ {t, None}}

FilesOf(items) == {i.file : i \in items}

Decide(t, items) ==
    /\ GoTo(t, "compare", "work")
    /\ todo' = [todo EXCEPT ![t] = items]
    /\ seen' = [seen EXCEPT ![t] = {}]
    /\ suspect' = suspect \cup (FilesOf(items) \cap FilesOf(Others(t)))
                     \cup (IF t \in Runs THEN {f \in FilesOf(items) : Recorded(f) # {}} ELSE {})
    /\ UNCHANGED <<fileVars, pipeVars, row, doing, dbVars, worker, cron, fresh, faults>>

\* One of several new files with the same content is enough.
NewFiles(files) ==
    {N \in SUBSET files : /\ {s.hash : s \in N} = {s.hash : s \in files}
                          /\ \A r, s \in N : r.hash = s.hash => r = s}

\* indexed_by_file_id has one record of each file, whichever the query returned last.
Known == {k \in [Files -> Tasks \cup {None}] : \A f \in Files :
             IF Recorded(f) = {} THEN k[f] = None ELSE k[f] \in Recorded(f)}

Removed(files) ==
    UNION {{Item([file |-> f, hash |-> None, path |-> 0], "removed", u) : u \in Recorded(f)} :
              f \in Files \ FilesOf(files)}

Changed(files, k) ==
    {Item(s, "changed", k[s.file]) :
        s \in {r \in files : k[r.file] # None /\ records[r.file][k[r.file]] # r.hash}}

New(files) ==
    {{Item(s, "new", None) : s \in N} :
        N \in NewFiles({s \in files : s.hash \notin IndexedHashes /\ Recorded(s.file) = {}})}

\* Mutant: files that are no longer there are not looked for.
MutantCompareSync(t) ==
    /\ t \notin Runs
    /\ \E k \in Known, new \in New(seen[t]) : Decide(t, new \cup Changed(seen[t], k))

\* Mutant: a file that is indexed with another content is new as well as changed.
MutantCompareNew(t) ==
    /\ t \notin Runs
    /\ \E k \in Known,
          N \in NewFiles({s \in seen[t] : s.hash \notin IndexedHashes}) :
           Decide(t, {Item(s, "new", None) : s \in N} \cup Changed(seen[t], k)
                         \cup Removed(seen[t]))

\* sync_pipeline, parts 2 and 3.
CompareSync(t) ==
    /\ t \notin Runs
    /\ \E k \in Known, new \in New(seen[t]) :
           Decide(t, new \cup Changed(seen[t], k) \cup Removed(seen[t]))

\* run_pipeline_job: every file whose content was not indexed, twins included.  A file
\* that is indexed with another content gets a second record, and keeps its old points.
CompareRun(t) ==
    /\ t \in Runs
    /\ Decide(t, {Item(s, "new", None) : s \in {r \in SyncedFiles(t) : r.hash \notin seen[t]}})

-----------------------------------------------------------------------------
(* Doing it: new files first, then the changed, then the removed ones. *)

Turn(i, items) ==
    /\ i.kind = "changed" => \A j \in items : j.kind # "new"
    /\ i.kind = "removed" => \A j \in items : j.kind = "removed"

\* The item t goes on with: the one in its hands, or the next one.
CurrentItem(t, stage, kinds) ==
    IF doing[t] # NoWork THEN {i \in {doing[t]} : i.stage = stage}
    ELSE {i \in todo[t] : i.kind \in kinds /\ Turn(i, todo[t])}

Deleting(t) == CurrentItem(t, "delete", {"changed", "removed"})
Indexing(t) == CurrentItem(t, "index", {"new"})

Missing(i) == disk[i.file].path # i.path \/ disk[i.file].content = None

Cleared(f)     == [points EXCEPT ![f] = [u \in Tasks |-> None]]
Upserted(t, i) == IF Missing(i) THEN points
                  ELSE [points EXCEPT ![i.file][t] = disk[i.file].content]

Proceed(t, i, stage) == doing' = [doing EXCEPT ![t] = [i EXCEPT !.stage = stage]]

\* Mutant: a changed file is indexed again without deleting its old points.
MutantDeletePoints(t) ==
    /\ pc[t] = "work"
    /\ \E i \in Deleting(t) :
        /\ points' = IF i.kind = "changed" THEN points ELSE Cleared(i.file)
        /\ Proceed(t, i, IF i.kind = "changed" THEN "index" ELSE "commit")
    /\ UNCHANGED <<fileVars, pipeVars, row, pc, seen, todo, records,
                   worker, cron, suspect, fresh, faults>>

\* delete_by_filter: the points of all runs.
DeletePoints(t) ==
    /\ pc[t] = "work"
    /\ \E i \in Deleting(t) :
        /\ points' = Cleared(i.file)
        /\ Proceed(t, i, IF i.kind = "changed" THEN "index" ELSE "commit")
    /\ UNCHANGED <<fileVars, pipeVars, row, pc, seen, todo, records,
                   worker, cron, suspect, fresh, faults>>

\* index_file, if the file is still under the path that was read.  Without it a sync goes
\* on to its record, and a manual run to its next file.
IndexFile(t) ==
    /\ pc[t] = "work"
    /\ \E i \in Indexing(t) :
        /\ points' = Upserted(t, i)
        /\ IF t \in Runs /\ Missing(i)
           THEN todo' = [todo EXCEPT ![t] = @ \ {i}] /\ UNCHANGED doing
           ELSE Proceed(t, i, "commit") /\ UNCHANGED todo
        /\ suspect' = IF Missing(i) \/ disk[i.file].content # i.hash
                      THEN suspect \cup {i.file} ELSE suspect
    /\ UNCHANGED <<fileVars, pipeVars, row, pc, seen, records, worker, cron, fresh, faults>>

Leave(t) ==
    /\ worker' = IF worker = t THEN None ELSE worker
    /\ cron' = IF cron = t THEN None ELSE cron
    /\ todo' = [todo EXCEPT ![t] = {}]
    /\ doing' = [doing EXCEPT ![t] = NoWork]
    /\ seen' = [seen EXCEPT ![t] = {}]

\* The row of an item: what a task is about to insert or change.
Key(t, i) == <<i.file, IF i.kind = "new" THEN t ELSE i.by>>

\* ix_indexed_files_pipeline_content_hash is unique; an UPDATE needs its row.
Refused(t, i) ==
    \/ /\ i.kind # "removed"
       /\ \E f \in Files, u \in Tasks : <<f, u>> # Key(t, i) /\ records[f][u] = i.hash
    \/ i.kind = "changed" /\ records[i.file][i.by] = None

Commit(t, value) ==
    /\ pc[t] = "work" /\ doing[t].stage = "commit"
    /\ ~Refused(t, doing[t])
    /\ records' = [records EXCEPT ![doing[t].file][Key(t, doing[t])[2]] = value]
    /\ todo' = [todo EXCEPT ![t] = {i \in @ : i # [doing[t] EXCEPT !.stage = "none"]}]
    /\ doing' = [doing EXCEPT ![t] = NoWork]
    /\ UNCHANGED <<fileVars, pipeVars, row, pc, seen, points, worker, cron, suspect,
                   fresh, faults>>

\* Mutant: the path is recorded instead of the hash.
MutantCommitRecord(t) == Commit(t, doing[t].path)

\* INSERT, UPDATE or DELETE of the IndexedFile row.
CommitRecord(t) == Commit(t, doing[t].hash)

\* IntegrityError.  The failed flush expires the session's objects, and the except clause
\* begins by reading one (pipeline.id, run.id): that raises again, and the row of the run
\* stays as it is.
CommitRefused(t) ==
    /\ pc[t] = "work" /\ doing[t].stage = "commit"
    /\ Refused(t, doing[t])
    /\ pc' = [pc EXCEPT ![t] = "dead"]
    /\ Leave(t)
    /\ UNCHANGED <<fileVars, pipeVars, row, dbVars, suspect, fresh, faults>>

Finish(t) ==
    /\ todo[t] = {} /\ doing[t] = NoWork
    /\ GoTo(t, "work", "done")
    /\ row' = [row EXCEPT ![t] = "success"]
    /\ Leave(t)
    /\ UNCHANGED <<fileVars, pipeVars, dbVars, suspect, fresh, faults>>

\* A call of Qdrant, or of the embedding service before it, raises, after it took effect
\* or before: the except clause commits FAILED.
QdrantFails(t) ==
    /\ pc[t] = "work"
    /\ Fault
    /\ \E i \in Deleting(t) \cup Indexing(t) :
        /\ \/ UNCHANGED points
           \/ i \in Deleting(t) /\ points' = Cleared(i.file)
           \/ i \in Indexing(t) /\ points' = Upserted(t, i)
        /\ suspect' = suspect \cup {i.file}
    /\ row' = [row EXCEPT ![t] = "failed"]
    /\ pc' = [pc EXCEPT ![t] = "done"]
    /\ Leave(t)
    /\ UNCHANGED <<fileVars, pipeVars, records, fresh>>

\* The scraper answers with an error, or not within 60 s: the run fails.
ScraperFails(t) ==
    /\ Fault
    /\ GoTo(t, "crawl", "done")
    /\ row' = [row EXCEPT ![t] = "failed"]
    /\ Leave(t)
    /\ UNCHANGED <<fileVars, pipeVars, dbVars, suspect, fresh>>

\* The process dies with whatever it is doing; the jobs were popped from their lists.
WorkerDies ==
    /\ ~WorkerIdle \/ cron # None
    /\ Fault
    /\ LET dead == {worker, cron} \cap Tasks
       IN  /\ pc' = [t \in Tasks |-> IF t \in dead THEN "dead" ELSE pc[t]]
           /\ suspect' = suspect \cup ({editing} \cap Files)
                             \cup ({doing[t].file : t \in dead} \cap Files)
           /\ todo' = [t \in Tasks |-> IF t \in dead THEN {} ELSE todo[t]]
           /\ doing' = [t \in Tasks |-> IF t \in dead THEN NoWork ELSE doing[t]]
           /\ seen' = [t \in Tasks |-> IF t \in dead THEN {} ELSE seen[t]]
    /\ edit' = [f \in Files |-> IF f = editing THEN "none" ELSE edit[f]]
    /\ editing' = None /\ worker' = None /\ cron' = None /\ fresh' = None
    /\ UNCHANGED <<status, hash, path, disk, edits, pipeVars, row, dbVars>>

-----------------------------------------------------------------------------

Edit ==
    \/ EditRow \/ UpdatePipeline
    \/ \E f \in Files : RequestUpload(f) \/ RequestEdit(f) \/ EditDisk(f)

Request(t) == CommitRun(t) \/ Enqueue(t)

Work(t) ==
    \/ Dequeue(t) \/ CronStart(t) \/ Refuse(t) \/ Crawl(t) \/ Read(t)
    \/ CompareSync(t) \/ CompareRun(t)
    \/ DeletePoints(t) \/ IndexFile(t) \/ CommitRecord(t) \/ CommitRefused(t) \/ Finish(t)

FaultStep == WorkerDies \/ \E t \in Tasks : ApiDies(t) \/ ScraperFails(t) \/ QdrantFails(t)

Next == Edit \/ FaultStep \/ \E t \in Tasks : CheckActive(t) \/ Request(t) \/ Tick(t) \/ Work(t)

Spec == Init /\ [][Next]_vars

-----------------------------------------------------------------------------
(* Properties. *)

\* Whenever no task runs, Qdrant holds for each file exactly the contents that
\* indexed_files says it does: across renames, changes, deletes and re-indexing nothing is
\* left that a later sync could not find.  Excepted (suspect) are files that were in the
\* hands of two tasks at once or changed on disk between the query and the indexing, files
\* that a manual run indexed again, and files at which a run failed half-way.
PointsAreRecorded ==
    worker = None /\ cron = None =>
        \A f \in Files \ suspect : Owned(points, f) = Owned(records, f)

\* A sync does what it is for: if neither a file nor the pipeline's directories have changed
\* and no other task has run since it read them, then after it succeeded the index is the
\* synced files of the directories, each once and with its content, and nothing of any
\* other file.
SyncReconciles ==
    \A t \in Syncs \cup Ticks : fresh = t /\ row[t] = "success" =>
        \A f \in Files \ suspect :
            Owned(points, f) =
                IF status[f] = "synced" /\ f \in dirs THEN {hash[f]} ELSE {}

\* A row that says a run is active belongs to a run that somebody will go on with: the API
\* refuses every request while there is one, and nothing else ever ends it.  Excepted are
\* crashes, and histories with files of the kinds above.
ActiveRunsMove ==
    faults = 0 /\ suspect = {} =>
        \A t \in Tasks : row[t] \in {"pending", "processing"} =>
            \/ pc[t] \in {"committed", "queued"}
            \/ t \in {worker, cron}

\* "Get currently indexed hashes so we don't duplicate on manual manual runs"
\* (pipeline_runner.py:65): no content is in the pipeline's index twice.
ContentIndexedOnce ==
    \A f, g \in Files : f # g => Owned(points, f) \cap Owned(points, g) = {}

=============================================================================
