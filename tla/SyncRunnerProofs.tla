--------------------------- MODULE SyncRunnerProofs ---------------------------
(***************************************************************************)
(* Proofs about a pipeline with any number of files, runs, syncs, cron     *)
(* firings, edits and faults: TypeOK, PointsAreRecorded, SyncReconciles    *)
(* and ActiveRunsMove.                                                     *)
(*                                                                         *)
(* The inductive invariant has two parts.  TInv says where tasks, files    *)
(* and tables are and holds of any files.  The rest of IInv follows each   *)
(* file that is not suspect from the query to the commit, and needs files  *)
(* whose contents differ (OwnContent): of twins, one may be passed over or *)
(* refused because of the other.                                           *)
(***************************************************************************)
EXTENDS SyncRunner, TLAPS

-----------------------------------------------------------------------------
(* Types. *)

Kinds  == {"new", "changed", "removed"}
Stages == {"none", "delete", "index", "commit"}

ItemSet == [file : Files \cup {None}, kind : Kinds \cup {"none"}, hash : Contents \cup {None},
            path : 0 .. MaxEdits, by : Tasks \cup {None}, stage : Stages]

FileSet == [file : Files, hash : Contents \cup {None}, path : 0 .. MaxEdits]

FileTypes ==
    /\ status \in [Files -> {"none", "processing", "synced", "deleted"}]
    /\ hash \in [Files -> Contents \cup {None}]
    /\ path \in [Files -> 0 .. MaxEdits]
    /\ disk \in [Files -> [content : Contents \cup {None}, path : 0 .. MaxEdits]]
    /\ edit \in [Files -> {"none", "upload", "append", "rename", "delete"}]
    /\ editing \in Files \cup {None}
    /\ edits \in 0 .. MaxEdits

TaskTypes ==
    /\ dirs \in SUBSET Files /\ folders \in [Tasks -> SUBSET Files]
    /\ row \in [Tasks -> {"none", "pending", "processing", "success", "failed"}]
    /\ pc \in [Tasks -> {"new", "checked", "committed", "queued", "crawl", "read",
                         "compare", "work", "done", "dead"}]
    /\ worker \in Runs \cup Syncs \cup {None} /\ cron \in Ticks \cup {None}
    /\ suspect \in SUBSET Files
    /\ fresh \in Tasks \cup {None}
    /\ faults \in 0 .. MaxFaults

WorkTypes ==
    /\ doing \in [Tasks -> ItemSet] /\ todo \in [Tasks -> SUBSET ItemSet]
    /\ seen = [t \in Tasks |-> seen[t]]
    /\ \A t \in Tasks : seen[t] \subseteq IF t \in Runs THEN Contents ELSE FileSet

DbTypes ==
    /\ records \in [Files -> [Tasks -> Contents \cup {None}]]
    /\ points \in [Files -> [Tasks -> Contents \cup {None}]]

\* What TypeOK says, and the types of seen, todo and doing, which it leaves open.
TypeInv == FileTypes /\ TaskTypes /\ WorkTypes /\ DbTypes

-----------------------------------------------------------------------------
(* The inductive invariant. *)

Running == {"crawl", "read", "compare", "work"}

\* Only the tasks of the worker loop and of the cron are under way.
Scheduled ==
    /\ \A t \in Tasks : pc[t] \in Running => t \in {worker, cron}
    /\ worker # None => pc[worker] \in Running
    /\ cron # None => pc[cron] \in Running \cup {"queued"}
    /\ \A t \in Tasks :
        /\ pc[t] # "work" => todo[t] = {} /\ doing[t] = NoWork
        /\ pc[t] # "compare" => seen[t] = {}

\* A file that is synced is on the disk as its row says, and so will it be after its job.
Settled(f) ==
    /\ disk[f].path <= edits
    /\ edit[f] = "rename" /\ editing # f => disk[f].path < edits
    /\ disk[f].content \in ContentsOf[f] \cup {None}
    /\ status[f] = "synced" =>
        /\ edit[f] = "none"
        /\ hash[f] \in ContentsOf[f]
    /\ edit[f] \in {"upload", "append", "rename"} => hash[f] \in ContentsOf[f]
    /\ edit[f] \in {"append", "rename"} /\ editing # f => disk[f].content # None
    /\ status[f] = "synced" => disk[f].content # None
    /\ editing = f =>
        /\ edit[f] # "none"
        /\ edit[f] # "delete" => disk[f].content # None
    /\ edit[f] # "none" => status[f] = "processing"

\* What a task has to do, and what it has in hand.
Idle(i) == [i EXCEPT !.stage = "none"]

ItemOK(t, i) ==
    /\ i.file \in Files /\ i.kind \in Kinds /\ i.stage = "none"
    /\ i.kind # "removed" => i.hash \in ContentsOf[i.file]
    /\ i.kind = "removed" => i.hash = None
    /\ i.kind # "new" => t \notin Runs /\ i.by \in Tasks

InHand(t) == doing[t] # NoWork =>
    /\ Idle(doing[t]) \in todo[t]
    /\ \/ doing[t].stage = "index" /\ doing[t].kind = "changed"
       \/ doing[t].stage = "commit"

SeenOK(t) ==
    /\ \A s \in seen[t] : s.hash \in ContentsOf[s.file]
    /\ \A r, s \in seen[t] : r.file = s.file => r = s

FilesOK == FileTypes /\ \A f \in Files : Settled(f)

ItemsOK ==
    /\ \A t \in Tasks : InHand(t) /\ \A i \in todo[t] : ItemOK(t, i)
    /\ \A t \in Tasks \ Runs : SeenOK(t)

DbOK ==
    /\ DbTypes
    /\ \A f \in Files, t \in Tasks :
        /\ records[f][t] \in ContentsOf[f] \cup {None}
        /\ points[f][t] \in ContentsOf[f] \cup {None}

\* A file that is not suspect has one record at most, and is at most once in all that is
\* still to do; what is to be done fits the record.
Fits(i) == Recorded(i.file) = IF i.kind = "new" THEN {} ELSE {i.by}

Single(f) ==
    /\ \A t, u \in Recorded(f) : t = u
    /\ \A t, u \in Tasks : \A i \in todo[t], j \in todo[u] :
           i.file = f /\ j.file = f => t = u /\ i = j
    /\ \A t \in Tasks : \A i \in todo[t] : i.file = f => Fits(i)

\* Its points are those of the record, or of the step that its task has come to.
Halfway(f, i) ==
    IF i.stage = "index" \/ i.kind = "removed" THEN Owned(points, f) = {}
    ELSE Owned(points, f) = {i.hash}

Matched(f) ==
    /\ \A t \in Tasks : doing[t].file = f => Halfway(f, doing[t])
    /\ (\A t \in Tasks : doing[t].file # f) => Owned(points, f) = Owned(records, f)

Unsuspected == \A f \in Files \ suspect : Single(f) /\ Matched(f)

\* The sync that is fresh is alone, and what it has still to do is all that is missing.
Wanted(f) == IF status[f] = "synced" /\ f \in dirs THEN {hash[f]} ELSE {}

Brings(i) == IF i.kind = "removed" THEN {} ELSE {i.hash}

Remaining(items, f) ==
    /\ \A i \in items : i.file = f => Brings(i) = Wanted(f)
    /\ (\A i \in items : i.file # f) => Owned(records, f) = Wanted(f)

FreshOK(t) ==
    /\ t \notin Runs /\ folders[t] = dirs
    /\ \A u \in {worker, cron} \ {t, None} : pc[u] = "queued"
    /\ pc[t] \notin {"new", "checked", "committed", "queued", "crawl", "read"}
    /\ pc[t] = "compare" => seen[t] = SyncedFiles(t)
    /\ pc[t] = "work" => \A f \in Files \ suspect : Remaining(todo[t], f)
    /\ row[t] = "success" => \A f \in Files \ suspect : Owned(records, f) = Wanted(f)

Fresh == \A t \in Tasks : fresh = t => FreshOK(t)

\* Rows and what has become of their tasks.
Rows == \A t \in Tasks :
    /\ pc[t] \in Running => row[t] = "processing"
    /\ row[t] = "success" => pc[t] = "done"
    /\ row[t] \in {"pending", "processing"} =>
           pc[t] \in Running \cup {"committed", "queued", "dead"}
    /\ pc[t] = "dead" => faults > 0 \/ suspect # {}
    /\ t \notin Runs /\ pc[t] \in {"new", "checked", "committed", "queued"} =>
           row[t] \notin {"pending", "processing"}

\* The first part holds whatever the files contain, the second if their contents differ.
TInv == FilesOK /\ TaskTypes /\ WorkTypes /\ DbOK /\ Scheduled /\ ItemsOK
IInv == TInv /\ Unsuspected /\ Fresh /\ Rows

\* The contents of different files are different.
OwnContent == \A f, g \in Files : f # g => ContentsOf[f] \cap ContentsOf[g] = {}

-----------------------------------------------------------------------------
(* Files. *)

LEMMA ContentOf == ASSUME NEW f \in Files PROVE ContentsOf[f] \subseteq Contents
  BY DEF Contents

LEMMA InitFiles == Init => FilesOK
<1> SUFFICES ASSUME Init PROVE FilesOK
  OBVIOUS
<1>1. \A f \in Files : disk[f] = [content |-> hash[f], path |-> 0]
  BY DEF Init
<1>2. disk \in [Files -> [content : Contents \cup {None}, path : 0 .. MaxEdits]]
  BY SyncAssumption DEF Init
<1>3. FileTypes
  BY <1>2, SyncAssumption DEF Init, FileTypes
<1>4. ASSUME NEW f \in Files PROVE Settled(f)
  <2>1. None \notin ContentsOf[f] /\ f # None
    BY ContentOf, SyncAssumption
  <2> QED BY <2>1, <1>1, SyncAssumption DEF Init, Settled
<1> QED BY <1>3, <1>4 DEF FilesOK

LEMMA UploadFiles ==
  ASSUME FilesOK, NEW f \in Files, RequestUpload(f) PROVE FilesOK'
<1> USE DEF FilesOK, RequestUpload
<1>1. FileTypes'
  BY ContentOf, SyncAssumption DEF FileTypes
<1>2. ASSUME NEW g \in Files PROVE Settled(g)'
  BY SyncAssumption DEF FileTypes, Settled
<1> QED BY <1>1, <1>2

LEMMA EditFiles ==
  ASSUME FilesOK, NEW f \in Files, RequestEdit(f) PROVE FilesOK'
<1> USE DEF FilesOK, RequestEdit
<1>1. FileTypes'
  BY SyncAssumption DEF FileTypes
<1>2. ASSUME NEW g \in Files PROVE Settled(g)'
  BY SyncAssumption DEF FileTypes, Settled
<1> QED BY <1>1, <1>2

LEMMA DiskFiles ==
  ASSUME FilesOK, NEW f \in Files, EditDisk(f) PROVE FilesOK'
<1> USE DEF FilesOK
<1>1. editing = None /\ editing' = f /\ edit[f] # "none"
      /\ UNCHANGED <<status, hash, path, edit, edits>>
  BY DEF EditDisk, WorkerIdle
<1>2. PICK d \in [content : Contents \cup {None}, path : 0 .. MaxEdits] :
        /\ disk' = [disk EXCEPT ![f] = d]
        /\ d.path <= edits
        /\ d.content \in ContentsOf[f] \cup {None}
        /\ edit[f] # "delete" => d.content # None
  <2>1. disk[f] \in [content : Contents \cup {None}, path : 0 .. MaxEdits] /\ Settled(f)
        /\ edits \in 0 .. MaxEdits /\ f # None /\ ContentsOf[f] \subseteq Contents
        /\ None \notin ContentsOf[f] /\ MaxEdits \in Nat /\ hash[f] \in Contents \cup {None}
    BY ContentOf, SyncAssumption DEF FileTypes
  <2>2. CASE edit[f] = "upload"
    <3> DEFINE e == [disk[f] EXCEPT !.content = hash[f]]
    <3>1. disk' = [disk EXCEPT ![f] = e]
      BY <2>2 DEF EditDisk
    <3>2. e \in [content : Contents \cup {None}, path : 0 .. MaxEdits]
      BY <2>1, <2>2 DEF Settled
    <3>3. e.path <= edits /\ e.content \in ContentsOf[f] \cup {None}
          /\ (edit[f] # "delete" => e.content # None)
      BY <2>1, <2>2 DEF Settled
    <3> HIDE DEF e
    <3> QED BY <3>1, <3>2, <3>3
  <2>3. CASE edit[f] = "append"
    <3>0. PICK c \in ContentsOf[f] : disk' = [disk EXCEPT ![f].content = c]
      BY <2>3 DEF EditDisk
    <3> DEFINE e == [disk[f] EXCEPT !.content = c]
    <3>1. disk' = [disk EXCEPT ![f] = e]
      BY <3>0
    <3>2. e \in [content : Contents \cup {None}, path : 0 .. MaxEdits]
      BY <2>1, <2>3 DEF Settled
    <3>3. e.path <= edits /\ e.content \in ContentsOf[f] \cup {None}
          /\ (edit[f] # "delete" => e.content # None)
      BY <2>1, <2>3 DEF Settled
    <3> HIDE DEF e
    <3> QED BY <3>1, <3>2, <3>3
  <2>4. CASE edit[f] = "rename"
    <3> DEFINE e == [disk[f] EXCEPT !.path = @ + 1]
    <3>1. disk' = [disk EXCEPT ![f] = e]
      BY <2>4 DEF EditDisk
    <3>2. e \in [content : Contents \cup {None}, path : 0 .. MaxEdits]
      BY <2>1, <2>4, <1>1 DEF Settled
    <3>3. e.path <= edits /\ e.content \in ContentsOf[f] \cup {None}
          /\ (edit[f] # "delete" => e.content # None)
      BY <2>1, <2>4, <1>1 DEF Settled
    <3> HIDE DEF e
    <3> QED BY <3>1, <3>2, <3>3
  <2>5. CASE edit[f] = "delete"
    <3> DEFINE e == [disk[f] EXCEPT !.content = None]
    <3>1. disk' = [disk EXCEPT ![f] = e]
      BY <2>5 DEF EditDisk
    <3>2. e \in [content : Contents \cup {None}, path : 0 .. MaxEdits]
      BY <2>1, <2>5 DEF Settled
    <3>3. e.path <= edits /\ e.content \in ContentsOf[f] \cup {None}
          /\ (edit[f] # "delete" => e.content # None)
      BY <2>1, <2>5 DEF Settled
    <3> HIDE DEF e
    <3> QED BY <3>1, <3>2, <3>3
  <2> QED BY <2>2, <2>3, <2>4, <2>5 DEF EditDisk
<1>3. FileTypes'
  BY <1>1, <1>2 DEF FileTypes
<1>4. ASSUME NEW g \in Files PROVE Settled(g)'
  BY <1>1, <1>2, SyncAssumption DEF FileTypes, Settled
<1> QED BY <1>3, <1>4

LEMMA RowFiles == ASSUME FilesOK, EditRow PROVE FilesOK'
<1> USE DEF FilesOK
<1>1. PICK f \in Files : f = editing
  BY DEF EditRow, FileTypes
<1>2. UNCHANGED <<disk, edits>> /\ editing' = None /\ edit' = [edit EXCEPT ![f] = "none"]
      /\ status' = [status EXCEPT ![f] = IF edit[f] = "delete" THEN "deleted" ELSE "synced"]
      /\ hash' = [hash EXCEPT ![f] = IF edit[f] = "delete" THEN @ ELSE disk[f].content]
      /\ path' = [path EXCEPT ![f] = disk[f].path]
  BY <1>1 DEF EditRow
<1>3. FileTypes'
  BY <1>1, <1>2 DEF FileTypes
<1>4. ASSUME NEW g \in Files PROVE Settled(g)'
  BY <1>1, <1>2, SyncAssumption DEF FileTypes, Settled
<1> QED BY <1>3, <1>4

LEMMA DeathFiles == ASSUME FilesOK, WorkerDies PROVE FilesOK'
<1> USE DEF FilesOK
<1>1. UNCHANGED <<status, hash, path, disk, edits>> /\ editing' = None
      /\ edit' = [f \in Files |-> IF f = editing THEN "none" ELSE edit[f]]
  BY DEF WorkerDies
<1>2. FileTypes'
  BY <1>1 DEF FileTypes
<1>3. ASSUME NEW g \in Files PROVE Settled(g)'
  BY <1>1, SyncAssumption DEF FileTypes, Settled
<1> QED BY <1>2, <1>3

LEMMA SameFiles == ASSUME FilesOK, UNCHANGED fileVars PROVE FilesOK'
  BY DEF FilesOK, FileTypes, Settled, fileVars

\* Every other step leaves the files alone.
LEMMA NextFiles == ASSUME FilesOK, [Next]_vars PROVE FilesOK'
<1>1. CASE Edit
  <2>1. CASE UpdatePipeline
    BY <2>1, SyncAssumption DEF UpdatePipeline, FilesOK, FileTypes, Settled
  <2> QED BY <1>1, <2>1, RowFiles, UploadFiles, EditFiles, DiskFiles DEF Edit
<1>2. CASE WorkerDies
  BY <1>2, DeathFiles
<1>3. CASE UNCHANGED fileVars
  BY <1>3, SameFiles
<1>4. ASSUME NEW t \in Tasks,
             ApiDies(t) \/ ScraperFails(t) \/ QdrantFails(t) \/ CheckActive(t) \/ Request(t)
                \/ Tick(t) \/ Work(t)
      PROVE  UNCHANGED fileVars
  BY <1>4 DEF ApiDies, ScraperFails, QdrantFails, CheckActive, Request, CommitRun, Enqueue,
     Tick, Work, Dequeue, CronStart, Start, Refuse, Crawl, Read, CompareSync, CompareRun, Decide,
     DeletePoints, IndexFile, CommitRecord, Commit, CommitRefused, Finish
<1> QED BY <1>1, <1>2, <1>3, <1>4 DEF Next, FaultStep, vars
-----------------------------------------------------------------------------
(* What a task decides to do. *)

\* A decision of the right type, and one that is right about the files outside S.
Typed(t, items) == items \subseteq ItemSet /\ \A i \in items : ItemOK(t, i)

Planned(items, S) ==
    /\ \A i, j \in items : i.file \notin S /\ i.file = j.file => i = j
    /\ \A i \in items : i.file \notin S => Fits(i)

LEMMA ItemFields ==
  ASSUME NEW s, NEW kind, NEW by, NEW i, i = Item(s, kind, by)
  PROVE  /\ i.file = s.file /\ i.kind = kind /\ i.hash = s.hash /\ i.by = by
         /\ i.path = s.path /\ i.stage = "none"
  BY DEF Item

LEMMA ItemTyped ==
  ASSUME NEW s \in FileSet, NEW kind \in Kinds, NEW by \in Tasks \cup {None}
  PROVE  Item(s, kind, by) \in ItemSet
  BY DEF Item, FileSet, ItemSet, Stages

LEMMA SyncedTyped ==
  ASSUME FilesOK, TaskTypes, NEW t \in Tasks
  PROVE  /\ SyncedFiles(t) \subseteq FileSet
         /\ \A s \in SyncedFiles(t) :
                /\ s.file \in folders[t] /\ status[s.file] = "synced" /\ s.hash = hash[s.file]
                /\ s.hash \in ContentsOf[s.file]
         /\ \A r, s \in SyncedFiles(t) : r.file = s.file => r = s
         /\ \A f \in folders[t] : status[f] = "synced" =>
                \E s \in SyncedFiles(t) : s.file = f
<1>1. folders[t] \subseteq Files
  BY DEF TaskTypes
<1>2. \A s \in SyncedFiles(t) : \E f \in folders[t] :
          s = [file |-> f, hash |-> hash[f], path |-> path[f]] /\ status[f] = "synced"
  BY DEF SyncedFiles
<1>3. \A f \in folders[t] : status[f] = "synced" =>
          [file |-> f, hash |-> hash[f], path |-> path[f]] \in SyncedFiles(t)
  BY DEF SyncedFiles
<1>4. \A f \in Files : /\ hash[f] \in Contents \cup {None} /\ path[f] \in 0 .. MaxEdits
                       /\ status[f] = "synced" => hash[f] \in ContentsOf[f]
  BY DEF FilesOK, FileTypes, Settled
<1> HIDE DEF SyncedFiles
<1>5. ASSUME NEW s \in SyncedFiles(t)
      PROVE  /\ s \in FileSet /\ s.file \in folders[t] /\ status[s.file] = "synced"
             /\ s.hash = hash[s.file] /\ s.path = path[s.file] /\ s.hash \in ContentsOf[s.file]
  <2>1. PICK f \in folders[t] : /\ s = [file |-> f, hash |-> hash[f], path |-> path[f]]
                                /\ status[f] = "synced"
    BY <1>2
  <2> QED BY <2>1, <1>1, <1>4 DEF FileSet
<1>6. ASSUME NEW r \in SyncedFiles(t), NEW s \in SyncedFiles(t), r.file = s.file
      PROVE  r = s
  BY <1>5, <1>6 DEF FileSet
<1>7. ASSUME NEW f \in folders[t], status[f] = "synced"
      PROVE  \E s \in SyncedFiles(t) : s.file = f
  BY <1>3, <1>7
<1> QED BY <1>5, <1>6, <1>7

LEMMA SyncPlan ==
  ASSUME TInv, NEW t \in Tasks, CompareSync(t)
  PROVE  \E items :
             /\ Decide(t, items) /\ Typed(t, items)
             /\ Unsuspected => Planned(items, suspect)
             /\ OwnContent /\ Unsuspected /\ fresh = t /\ FreshOK(t) =>
                    \A f \in Files \ suspect : Remaining(items, f)
<1> DEFINE C == {s \in seen[t] : s.hash \notin IndexedHashes /\ Recorded(s.file) = {}}
           Gone(f) == [file |-> f, hash |-> None, path |-> 0]
<1>1. PICK k \in Known, N \in NewFiles(C) :
        Decide(t, {Item(s, "new", None) : s \in N} \cup Changed(seen[t], k) \cup Removed(seen[t]))
  BY DEF CompareSync, New
<1> DEFINE items == {Item(s, "new", None) : s \in N} \cup Changed(seen[t], k)
                        \cup Removed(seen[t])
<1>2. t \notin Runs /\ pc[t] = "compare"
  BY <1>1 DEF CompareSync, Decide, GoTo
<1>3. /\ seen[t] \subseteq FileSet
      /\ \A s \in seen[t] : s.file \in Files /\ s.hash \in ContentsOf[s.file]
      /\ \A r, s \in seen[t] : r.file = s.file => r = s
  BY <1>2 DEF TInv, WorkTypes, ItemsOK, SeenOK, FileSet
<1>4. \A s \in N : s \in seen[t] /\ Recorded(s.file) = {}
  BY DEF NewFiles
<1>5. \A f \in Files : /\ Recorded(f) \subseteq Tasks
                       /\ Recorded(f) = {} => k[f] = None
                       /\ Recorded(f) # {} => k[f] \in Recorded(f)
                       /\ Unsuspected /\ f \notin suspect =>
                              \A u, v \in Recorded(f) : u = v
  BY DEF Known, Recorded, Unsuspected, Single
<1>6. ASSUME NEW i \in items
      PROVE  \/ \E s \in N : i = Item(s, "new", None)
             \/ \E s \in seen[t] : /\ k[s.file] # None /\ records[s.file][k[s.file]] # s.hash
                                   /\ i = Item(s, "changed", k[s.file])
             \/ \E f \in Files \ FilesOf(seen[t]) : \E u \in Recorded(f) :
                    i = Item(Gone(f), "removed", u)
  BY DEF Changed, Removed
<1> HIDE DEF items
<1> DEFINE IsNew(i) == \E s \in N : /\ i = Item(s, "new", None) /\ i.kind = "new"
                                    /\ i.file = s.file /\ i.hash = s.hash
           IsChanged(i) == \E s \in seen[t] :
                              /\ i = Item(s, "changed", k[s.file]) /\ i.kind = "changed"
                              /\ i.file = s.file /\ i.hash = s.hash
                              /\ i.by = k[s.file] /\ i.by \in Recorded(i.file)
           IsRemoved(i) == /\ i.file \in Files \ FilesOf(seen[t]) /\ i.by \in Recorded(i.file)
                           /\ i = Item(Gone(i.file), "removed", i.by) /\ i.kind = "removed"
                           /\ i.hash = None
<1>7. ASSUME NEW i \in items
      PROVE  IsNew(i) \/ IsChanged(i) \/ IsRemoved(i)
  <2>1. ASSUME NEW s \in N, i = Item(s, "new", None)
        PROVE  IsNew(i)
    BY <2>1, ItemFields
  <2>2. ASSUME NEW s \in seen[t], k[s.file] # None, i = Item(s, "changed", k[s.file])
        PROVE  IsChanged(i)
    <3>1. k[s.file] \in Recorded(s.file)
      BY <1>3, <1>5, <2>2
    <3> QED BY <2>2, <3>1, ItemFields
  <2>3. ASSUME NEW f \in Files \ FilesOf(seen[t]), NEW u \in Recorded(f),
               i = Item(Gone(f), "removed", u)
        PROVE  IsRemoved(i)
    <3>1. i.file = f /\ i.by = u /\ i.kind = "removed" /\ i.hash = None
      BY <2>3 DEF Item
    <3> QED BY <2>3, <3>1
  <2> QED BY <1>6, <2>1, <2>2, <2>3
<1>8. ASSUME NEW i \in items
      PROVE  /\ i \in ItemSet /\ ItemOK(t, i)
             /\ Unsuspected /\ i.file \notin suspect => Fits(i)
  <2>1. CASE IsNew(i)
    <3>1. PICK s \in seen[t] : /\ i = Item(s, "new", None) /\ i.kind = "new" /\ i.file = s.file
                               /\ i.hash = s.hash /\ Recorded(s.file) = {}
      BY <2>1, <1>4
    <3>2. i \in ItemSet /\ i.stage = "none"
      BY <3>1, <1>3, ItemTyped, ItemFields DEF Kinds
    <3> QED BY <3>1, <3>2, <1>3 DEF ItemOK, Fits, Kinds
  <2>2. CASE IsChanged(i)
    <3>1. PICK s \in seen[t] : /\ i = Item(s, "changed", k[s.file]) /\ i.kind = "changed"
                               /\ i.file = s.file /\ i.hash = s.hash
                               /\ i.by = k[s.file] /\ i.by \in Recorded(i.file)
      BY <2>2
    <3>2. i.by \in Tasks /\ s.file \in Files
      BY <3>1, <1>3, <1>5
    <3>3. i \in ItemSet /\ i.stage = "none"
      BY <3>1, <3>2, <1>3, ItemTyped, ItemFields DEF Kinds
    <3>4. ItemOK(t, i)
      BY <3>1, <3>2, <3>3, <1>2, <1>3 DEF ItemOK, Kinds
    <3>5. Unsuspected /\ i.file \notin suspect => Recorded(i.file) = {i.by}
      BY <3>1, <3>2, <1>5
    <3> QED BY <3>1, <3>3, <3>4, <3>5 DEF Fits
  <2>3. CASE IsRemoved(i)
    <3>1. Gone(i.file) \in FileSet
      BY <2>3, SyncAssumption DEF FileSet
    <3>2. i.by \in Tasks
      BY <2>3, <1>5
    <3>3. i \in ItemSet /\ i.stage = "none"
      BY <2>3, <3>1, <3>2, ItemTyped, ItemFields DEF Kinds
    <3> QED BY <2>3, <3>2, <3>3, <1>2, <1>5 DEF ItemOK, Fits, Kinds
  <2> QED BY <1>7, <2>1, <2>2, <2>3
<1>9. ASSUME Unsuspected, NEW i \in items, NEW j \in items, i.file \notin suspect,
             i.file = j.file
      PROVE  i = j
  <2>1. IsNew(i) \/ IsChanged(i) => i.file \in FilesOf(seen[t])
    BY <1>4 DEF FilesOf
  <2>2. IsNew(j) \/ IsChanged(j) => j.file \in FilesOf(seen[t])
    BY <1>4 DEF FilesOf
  <2>3. i.file \in Files /\ \A u, v \in Recorded(i.file) : u = v
    BY <1>8, <1>9, <1>5 DEF ItemOK
  <2>4. CASE IsNew(i)
    <3>1. Recorded(i.file) = {}
      BY <2>4, <1>4
    <3>2. IsNew(j)
      BY <3>1, <2>1, <2>2, <2>4, <1>7, <1>9
    <3> QED BY <2>4, <3>2, <1>3, <1>4, <1>9
  <2>5. CASE IsChanged(i)
    <3>1. IsChanged(j)
      <4>1. ~IsNew(j)
        BY <2>5, <1>4, <1>9
      <4> QED BY <4>1, <2>1, <2>2, <2>5, <1>7, <1>9
    <3> QED BY <2>5, <3>1, <1>3, <1>9
  <2>6. CASE IsRemoved(i)
    <3>1. IsRemoved(j)
      BY <2>6, <2>2, <1>7, <1>9
    <3> QED BY <2>6, <3>1, <2>3, <1>9
  <2> QED BY <1>7, <2>4, <2>5, <2>6
<1>10. ASSUME OwnContent, Unsuspected, fresh = t, FreshOK(t), NEW f \in Files, f \notin suspect
       PROVE  Remaining(items, f)
  <2>1. folders[t] = dirs /\ seen[t] = SyncedFiles(t)
    BY <1>2, <1>10 DEF FreshOK
  <2>2. \A s \in seen[t] : s.file \in dirs /\ status[s.file] = "synced" /\ s.hash = hash[s.file]
    BY <2>1, SyncedTyped DEF TInv
  <2>3. f \in dirs /\ status[f] = "synced" => \E s \in seen[t] : s.file = f
    BY <2>1, SyncedTyped DEF TInv
  <2>4. ASSUME NEW i \in items, i.file = f
        PROVE  Brings(i) = Wanted(f)
    <3>1. CASE IsNew(i) \/ IsChanged(i)
      <4>1. PICK s \in seen[t] : i.file = s.file /\ i.hash = s.hash /\ i.kind # "removed"
        BY <3>1, <1>4
      <4> QED BY <2>2, <2>4, <4>1 DEF Brings, Wanted
    <3>2. CASE IsRemoved(i)
      <4>1. ~\E s \in seen[t] : s.file = f
        BY <2>4, <3>2 DEF FilesOf
      <4> QED BY <2>3, <3>2, <4>1 DEF Brings, Wanted
    <3> QED BY <1>7, <3>1, <3>2
  <2>5. ASSUME \A i \in items : i.file # f
        PROVE  Owned(records, f) = Wanted(f)
    <3>1. CASE \E s \in seen[t] : s.file = f
      <4>1. PICK s \in seen[t] : s.file = f
        BY <3>1
      <4>2. s.hash = hash[f] /\ hash[f] \in ContentsOf[f] /\ Wanted(f) = {hash[f]}
        BY <4>1, <2>2, <1>3 DEF Wanted
      <4>3. Recorded(f) # {}
        <5> SUFFICES ASSUME Recorded(f) = {} PROVE FALSE
          OBVIOUS
        <5>1. hash[f] \notin IndexedHashes
          <6> SUFFICES ASSUME NEW g \in Files, NEW u \in Tasks, records[g][u] = hash[f],
                              hash[f] # None
                       PROVE  FALSE
            BY DEF IndexedHashes, Owned
          <6>1. hash[f] \in ContentsOf[g]
            BY DEF TInv, DbOK
          <6> QED BY <1>10, <6>1, <4>2 DEF OwnContent, Recorded
        <5>2. PICK r \in N : r.hash = s.hash
          BY <5>1, <4>1, <4>2 DEF NewFiles
        <5>3. r.file = f
          BY <1>10, <5>2, <4>2, <1>3, <1>4 DEF OwnContent
        <5>4. Item(r, "new", None) \in items
          BY DEF items
        <5> QED BY <5>3, <5>4, <2>5, ItemFields
      <4>4. k[f] # None /\ k[f] \in Recorded(f) /\ \A v \in Recorded(f) : v = k[f]
        <5>1. None \notin Tasks
          BY SyncAssumption
        <5> QED BY <5>1, <4>3, <1>5, <1>10
      <4>5. records[f][k[f]] = hash[f]
        <5> SUFFICES ASSUME records[f][k[f]] # hash[f] PROVE FALSE
          OBVIOUS
        <5>1. Item(s, "changed", k[s.file]) \in items
          BY <4>1, <4>2, <4>4 DEF items, Changed
        <5> QED BY <5>1, <4>1, <2>5, ItemFields
      <4> QED BY <4>2, <4>4, <4>5 DEF Owned, Recorded
    <3>2. CASE ~\E s \in seen[t] : s.file = f
      <4>1. f \in Files \ FilesOf(seen[t]) /\ Wanted(f) = {}
        BY <3>2, <2>3 DEF FilesOf, Wanted
      <4>2. Recorded(f) = {}
        <5> SUFFICES ASSUME NEW u \in Recorded(f) PROVE FALSE
          OBVIOUS
        <5>1. Item(Gone(f), "removed", u) \in items
          BY <4>1 DEF items, Removed
        <5>2. Item(Gone(f), "removed", u).file = f
          BY DEF Item
        <5> QED BY <5>1, <5>2, <2>5
      <4> QED BY <4>1, <4>2 DEF Owned, Recorded
    <3> QED BY <3>1, <3>2
  <2> QED BY <2>4, <2>5 DEF Remaining
<1>11. Typed(t, items) /\ (Unsuspected => Planned(items, suspect))
  BY <1>8, <1>9 DEF Typed, Planned
<1>12. Decide(t, items)
  BY <1>1 DEF items
<1> QED BY <1>10, <1>11, <1>12

LEMMA RunPlan ==
  ASSUME TInv, NEW t \in Tasks, CompareRun(t)
  PROVE  \E items : Decide(t, items) /\ Typed(t, items) /\ Planned(items, suspect')
<1> DEFINE items == {Item(s, "new", None) : s \in {r \in SyncedFiles(t) : r.hash \notin seen[t]}}
<1>1. Decide(t, items) /\ t \in Runs
  BY DEF CompareRun
<1>2. ASSUME NEW i \in items
      PROVE  \E s \in SyncedFiles(t) :
                 /\ i = Item(s, "new", None) /\ i.file = s.file /\ i.kind = "new"
                 /\ i.hash = s.hash /\ i.stage = "none"
  <2>1. PICK s \in SyncedFiles(t) : i = Item(s, "new", None)
    OBVIOUS
  <2> QED BY <2>1, ItemFields
<1> HIDE DEF items
<1>3. ASSUME NEW i \in items
      PROVE  i \in ItemSet /\ ItemOK(t, i)
  BY <1>2, ItemTyped, SyncedTyped DEF TInv, ItemOK, Kinds, FileSet
<1>4. ASSUME NEW i \in items, NEW j \in items, i.file = j.file
      PROVE  i = j
  BY <1>2, <1>4, SyncedTyped DEF TInv
<1>5. ASSUME NEW i \in items, i.file \notin suspect'
      PROVE  Fits(i)
  <2>1. i.file \notin {f \in FilesOf(items) : Recorded(f) # {}}
    BY <1>1, <1>5 DEF Decide
  <2> QED BY <1>2, <2>1 DEF FilesOf, Fits
<1> QED BY <1>1, <1>3, <1>4, <1>5 DEF Typed, Planned
-----------------------------------------------------------------------------
(* Types of the rest. *)

\* The item in hand, or the one a task takes up.
LEMMA Taken ==
  ASSUME WorkTypes, ItemsOK, NEW t \in Tasks, NEW i \in Deleting(t) \cup Indexing(t)
  PROVE  /\ i \in ItemSet /\ Idle(i) \in todo[t] /\ ItemOK(t, Idle(i))
         /\ i.file \in Files /\ i.kind \in Kinds
         /\ i.kind # "removed" => i.hash \in ContentsOf[i.file]
         /\ i \in Deleting(t) => /\ doing[t] = NoWork /\ i \in todo[t] /\ i.stage = "none"
                                 /\ i.kind \in {"changed", "removed"}
         /\ i \in Indexing(t) =>
                \/ doing[t] = NoWork /\ i \in todo[t] /\ i.kind = "new" /\ i.stage = "none"
                \/ /\ doing[t] = i /\ doing[t] # NoWork
                   /\ i.kind = "changed" /\ i.stage = "index" /\ t \notin Runs
<1>1. \/ doing[t] # NoWork /\ i = doing[t] /\ i.stage \in {"delete", "index"}
      \/ doing[t] = NoWork /\ i \in todo[t]
  BY DEF Deleting, Indexing, CurrentItem
<1>2. i \in ItemSet
  BY <1>1 DEF WorkTypes
<1>3. CASE doing[t] # NoWork /\ i = doing[t] /\ i.stage \in {"delete", "index"}
  <2>1. i.stage = "index" /\ i.kind = "changed" /\ Idle(i) \in todo[t] /\ ItemOK(t, Idle(i))
    BY <1>3 DEF ItemsOK, InHand
  <2>2. Idle(i).file = i.file /\ Idle(i).hash = i.hash /\ Idle(i).kind = i.kind
    BY <1>2 DEF Idle, ItemSet
  <2>3. i \notin Deleting(t)
    BY <1>3, <2>1 DEF Deleting, CurrentItem
  <2> QED BY <1>2, <1>3, <2>1, <2>2, <2>3 DEF ItemOK
<1>4. CASE doing[t] = NoWork /\ i \in todo[t]
  <2>1. ItemOK(t, i)
    BY <1>4 DEF ItemsOK
  <2>2. Idle(i) = i
    BY <1>2, <2>1 DEF Idle, ItemSet, ItemOK
  <2>3. i \in Deleting(t) => i.kind \in {"changed", "removed"}
    BY <1>4 DEF Deleting, CurrentItem
  <2>4. i \in Indexing(t) => i.kind = "new"
    BY <1>4 DEF Indexing, CurrentItem
  <2> QED BY <1>2, <1>4, <2>1, <2>2, <2>3, <2>4 DEF ItemOK
<1> QED BY <1>1, <1>3, <1>4

\* The item that is to be committed.
LEMMA Held ==
  ASSUME WorkTypes, ItemsOK, NEW t \in Tasks, doing[t].stage = "commit",
         NEW i, i = doing[t]
  PROVE  /\ i # NoWork /\ i \in ItemSet /\ Idle(i) \in todo[t] /\ ItemOK(t, Idle(i))
         /\ i.file \in Files /\ i.kind \in Kinds
         /\ i.kind # "removed" => i.hash \in ContentsOf[i.file]
         /\ i.kind = "removed" => i.hash = None
         /\ i.kind # "new" => t \notin Runs /\ i.by \in Tasks
<1>1. i # NoWork /\ i \in ItemSet
  BY DEF NoWork, WorkTypes
<1>2. Idle(i) \in todo[t] /\ ItemOK(t, Idle(i))
  BY <1>1 DEF ItemsOK, InHand
<1>3. Idle(i).file = i.file /\ Idle(i).hash = i.hash /\ Idle(i).kind = i.kind
      /\ Idle(i).by = i.by
  BY <1>1 DEF Idle, ItemSet
<1> QED BY <1>1, <1>2, <1>3 DEF ItemOK

LEMMA NextTasks ==
  ASSUME TInv, [Next]_vars
  PROVE  TaskTypes'
<1> USE DEF TInv, TaskTypes
<1>1. CASE Edit
  BY <1>1 DEF Edit, EditRow, UpdatePipeline, RequestUpload, RequestEdit, EditDisk, pipeVars,
     taskVars
<1>2. CASE WorkerDies
  <2>1. suspect' \in SUBSET Files
    BY <1>2 DEF WorkerDies
  <2>2. pc' \in [Tasks -> {"new", "checked", "committed", "queued", "crawl", "read",
                           "compare", "work", "done", "dead"}]
    BY <1>2 DEF WorkerDies
  <2> QED BY <1>2, <2>1, <2>2, SyncAssumption DEF WorkerDies, Fault, pipeVars
<1>3. ASSUME NEW t \in Tasks, CheckActive(t) \/ CommitRun(t) \/ Enqueue(t) \/ Tick(t)
                                \/ Dequeue(t) \/ CronStart(t) \/ Refuse(t) \/ Crawl(t)
      PROVE  TaskTypes'
  BY <1>3 DEF CheckActive, CommitRun, Enqueue, Tick, Dequeue, CronStart, Start, Refuse, Crawl,
     GoTo, pipeVars
<1>4. ASSUME NEW t \in Tasks, ApiDies(t) \/ ScraperFails(t)
      PROVE  TaskTypes'
  BY <1>4, SyncAssumption DEF ApiDies, ScraperFails, Fault, GoTo, Leave, pipeVars
<1>5. ASSUME NEW t \in Tasks, QdrantFails(t)
      PROVE  TaskTypes'
  <2>1. PICK i \in Deleting(t) \cup Indexing(t) : suspect' = suspect \cup {i.file}
    BY <1>5 DEF QdrantFails
  <2>2. i.file \in Files
    BY Taken
  <2> QED BY <1>5, <2>1, <2>2, SyncAssumption DEF QdrantFails, Fault, Leave, pipeVars
<1>6. ASSUME NEW t \in Tasks, Read(t)
      PROVE  TaskTypes'
  BY <1>6 DEF Read, GoTo, pipeVars
<1>7. ASSUME NEW t \in Tasks, NEW items, Decide(t, items), Typed(t, items)
      PROVE  TaskTypes'
  <2>1. \A u \in {worker, cron} \ {t, None} : u \in Tasks
    BY DEF Tasks
  <2>2. FilesOf(Others(t)) \subseteq Files
    BY <2>1 DEF FilesOf, Others, ItemsOK, ItemOK
  <2>3. suspect' \in SUBSET Files
    <3>1. CASE t \in Runs
      <4>1. {f \in FilesOf(items) : Recorded(f) # {}} \subseteq Files
        BY <1>7 DEF Typed, ItemOK, FilesOf
      <4> QED BY <1>7, <2>2, <4>1 DEF Decide
    <3> QED BY <1>7, <2>2, <3>1 DEF Decide
  <2> QED BY <1>7, <2>3 DEF Decide, GoTo, pipeVars
<1>8. ASSUME NEW t \in Tasks, DeletePoints(t) \/ CommitRecord(t)
      PROVE  TaskTypes'
  BY <1>8 DEF DeletePoints, CommitRecord, Commit, pipeVars
<1>9. ASSUME NEW t \in Tasks, IndexFile(t)
      PROVE  TaskTypes'
  <2>1. PICK i \in Indexing(t) : suspect' \in {suspect, suspect \cup {i.file}}
    BY <1>9 DEF IndexFile
  <2>2. i.file \in Files
    BY Taken
  <2> QED BY <1>9, <2>1, <2>2 DEF IndexFile, pipeVars
<1>10. ASSUME NEW t \in Tasks, CommitRefused(t) \/ Finish(t)
      PROVE  TaskTypes'
  BY <1>10 DEF CommitRefused, Finish, GoTo, Leave, pipeVars
<1>11. CASE UNCHANGED vars
  BY <1>11 DEF vars, pipeVars, taskVars
<1>12. ASSUME NEW t \in Tasks, CompareSync(t) \/ CompareRun(t)
       PROVE  TaskTypes'
  BY <1>7, <1>12, SyncPlan, RunPlan
<1> HIDE DEF TInv, TaskTypes
<1> QED BY <1>1, <1>2, <1>3, <1>4, <1>5, <1>6, <1>8, <1>9, <1>10, <1>11, <1>12
     DEF Next, FaultStep, Request, Work
-----------------------------------------------------------------------------
(* What the tasks see, have to do and have in hand. *)

WorkOK == WorkTypes /\ ItemsOK

LEMMA SameWork == ASSUME WorkOK, UNCHANGED <<seen, todo, doing>> PROVE WorkOK'
  BY DEF WorkOK, WorkTypes, ItemsOK, InHand, ItemOK, SeenOK, Idle

LEMMA NoWorkTyped == NoWork \in ItemSet /\ NoWork.file = None /\ NoWork.stage = "none"
  BY SyncAssumption DEF NoWork, ItemSet, Stages

\* The tasks of a set are over, and what they had to do is forgotten.
Over(dead) ==
    /\ todo' = [t \in Tasks |-> IF t \in dead THEN {} ELSE todo[t]]
    /\ doing' = [t \in Tasks |-> IF t \in dead THEN NoWork ELSE doing[t]]
    /\ seen' = [t \in Tasks |-> IF t \in dead THEN {} ELSE seen[t]]

LEMMA OverLeft == ASSUME WorkOK, NEW t \in Tasks, Leave(t) PROVE Over({t})
  BY DEF WorkOK, WorkTypes, Leave, Over

LEMMA OverWork == ASSUME WorkOK, NEW dead, Over(dead) PROVE WorkOK'
<1>1. WorkTypes'
  BY NoWorkTyped DEF WorkOK, WorkTypes, Over
<1>2. ASSUME NEW t \in Tasks
      PROVE  InHand(t)' /\ (\A i \in todo[t] : ItemOK(t, i))' /\ (t \notin Runs => SeenOK(t)')
  <2>1. CASE t \in dead
    BY <2>1 DEF InHand, SeenOK, Over
  <2>2. CASE t \notin dead
    <3>1. todo'[t] = todo[t] /\ doing'[t] = doing[t] /\ seen'[t] = seen[t]
      BY <2>2 DEF Over
    <3>2. InHand(t) /\ (\A i \in todo[t] : ItemOK(t, i)) /\ (t \notin Runs => SeenOK(t))
      BY DEF WorkOK, ItemsOK
    <3> QED BY <3>1, <3>2 DEF InHand, SeenOK, ItemOK, Idle
  <2> QED BY <2>1, <2>2
<1> QED BY <1>1, <1>2 DEF WorkOK, ItemsOK

LEMMA ReadWork == ASSUME TInv, NEW t \in Tasks, Read(t) PROVE WorkOK'
<1>1. UNCHANGED <<todo, doing>>
      /\ seen' = [seen EXCEPT ![t] = IF t \in Runs THEN IndexedHashes ELSE SyncedFiles(t)]
  BY DEF Read
<1>2. IndexedHashes \subseteq Contents
  BY DEF TInv, DbOK, DbTypes, IndexedHashes, Owned
<1>3. /\ SyncedFiles(t) \subseteq FileSet
      /\ \A s \in SyncedFiles(t) : s.hash \in ContentsOf[s.file]
      /\ \A r, s \in SyncedFiles(t) : r.file = s.file => r = s
  BY SyncedTyped DEF TInv
<1>4. WorkTypes'
  BY <1>1, <1>2, <1>3 DEF TInv, WorkTypes
<1>5. ASSUME NEW u \in Tasks \ Runs PROVE SeenOK(u)'
  BY <1>1, <1>3 DEF TInv, ItemsOK, WorkTypes, SeenOK
<1>6. ASSUME NEW u \in Tasks
      PROVE  InHand(u)' /\ (\A i \in todo[u] : ItemOK(u, i))'
  BY <1>1 DEF TInv, ItemsOK, InHand, ItemOK, Idle
<1> QED BY <1>4, <1>5, <1>6 DEF WorkOK, ItemsOK

LEMMA DecideWork ==
  ASSUME TInv, NEW t \in Tasks, NEW items, Decide(t, items), Typed(t, items) PROVE WorkOK'
<1>1. UNCHANGED doing /\ todo' = [todo EXCEPT ![t] = items] /\ seen' = [seen EXCEPT ![t] = {}]
      /\ pc[t] = "compare"
  BY DEF Decide, GoTo
<1>2. WorkTypes'
  BY <1>1 DEF TInv, WorkTypes, Typed
<1>3. ASSUME NEW u \in Tasks
      PROVE  InHand(u)' /\ (\A i \in todo[u] : ItemOK(u, i))' /\ (u \notin Runs => SeenOK(u)')
  <2>1. doing[t] = NoWork
    BY <1>1 DEF TInv, Scheduled
  <2>2. InHand(u)'
    BY <1>1, <2>1 DEF TInv, WorkTypes, ItemsOK, InHand, Idle
  <2>3. (\A i \in todo[u] : ItemOK(u, i))'
    BY <1>1 DEF TInv, WorkTypes, ItemsOK, ItemOK, Typed
  <2>4. u \notin Runs => SeenOK(u)'
    BY <1>1 DEF TInv, WorkTypes, ItemsOK, SeenOK
  <2> QED BY <2>2, <2>3, <2>4
<1> QED BY <1>2, <1>3 DEF WorkOK, ItemsOK

\* Taking an item to its next stage.
LEMMA ProceedWork ==
  ASSUME TInv, NEW t \in Tasks, NEW i \in Deleting(t) \cup Indexing(t), NEW stage,
         (stage = "index" /\ i.kind = "changed") \/ stage = "commit",
         Proceed(t, i, stage), UNCHANGED <<seen, todo>>
  PROVE  WorkOK'
<1> DEFINE j == [i EXCEPT !.stage = stage]
<1>1. doing' = [doing EXCEPT ![t] = j]
  BY DEF Proceed
<1>2. i \in ItemSet /\ Idle(i) \in todo[t]
  BY Taken DEF TInv
<1>3. j \in ItemSet /\ j.stage = stage /\ j.kind = i.kind
  BY <1>2 DEF ItemSet, Stages
<1>4. Idle(j) = Idle(i)
  BY <1>2 DEF ItemSet, Idle
<1> HIDE DEF j
<1>5. WorkTypes'
  BY <1>1, <1>3 DEF TInv, WorkTypes
<1>6. ASSUME NEW u \in Tasks
      PROVE  InHand(u)'
  <2>1. CASE u = t
    <3>1. doing'[u] = j
      BY <1>1, <2>1 DEF TInv, WorkTypes
    <3> QED BY <3>1, <2>1, <1>2, <1>3, <1>4 DEF InHand, Idle
  <2>2. CASE u # t
    <3>1. doing'[u] = doing[u]
      BY <1>1, <2>2 DEF TInv, WorkTypes
    <3> QED BY <3>1 DEF TInv, ItemsOK, InHand, Idle
  <2> QED BY <2>1, <2>2
<1>7. ASSUME NEW u \in Tasks
      PROVE  (\A k \in todo[u] : ItemOK(u, k))' /\ (u \notin Runs => SeenOK(u)')
  BY DEF TInv, ItemsOK, SeenOK, ItemOK
<1> QED BY <1>5, <1>6, <1>7 DEF WorkOK, ItemsOK

\* Being done with an item, or passing over it.
LEMMA DoneWork ==
  ASSUME WorkOK, NEW t \in Tasks, NEW rest \in SUBSET todo[t], UNCHANGED seen,
         todo' = [todo EXCEPT ![t] = rest], doing' = [doing EXCEPT ![t] = NoWork]
  PROVE  WorkOK'
<1>1. WorkTypes'
  BY NoWorkTyped DEF WorkOK, WorkTypes
<1>2. ASSUME NEW u \in Tasks
      PROVE  InHand(u)' /\ (\A i \in todo[u] : ItemOK(u, i))' /\ (u \notin Runs => SeenOK(u)')
  BY DEF WorkOK, WorkTypes, ItemsOK, InHand, SeenOK, ItemOK, Idle
<1> QED BY <1>1, <1>2 DEF WorkOK, ItemsOK

\* What IndexFile does to the item and to the points.
LEMMA IndexCases ==
  ASSUME TInv, NEW t \in Tasks, IndexFile(t)
  PROVE  \E i \in Indexing(t) :
            /\ points' = Upserted(t, i)
            /\ \/ /\ t \in Runs /\ Missing(i)
                  /\ todo' = [todo EXCEPT ![t] = @ \ {i}]
                  /\ doing[t] = NoWork /\ doing' = [doing EXCEPT ![t] = NoWork]
               \/ Proceed(t, i, "commit") /\ UNCHANGED todo
            /\ suspect' = IF Missing(i) \/ disk[i.file].content # i.hash
                          THEN suspect \cup {i.file} ELSE suspect
<1>1. PICK i \in Indexing(t) :
        /\ points' = Upserted(t, i)
        /\ IF t \in Runs /\ Missing(i)
           THEN todo' = [todo EXCEPT ![t] = @ \ {i}] /\ UNCHANGED doing
           ELSE Proceed(t, i, "commit") /\ UNCHANGED todo
        /\ suspect' = IF Missing(i) \/ disk[i.file].content # i.hash
                      THEN suspect \cup {i.file} ELSE suspect
  BY DEF IndexFile
<1>2. t \in Runs => doing[t] = NoWork
  BY Taken DEF TInv
<1>3. ASSUME UNCHANGED doing, t \in Runs PROVE doing' = [doing EXCEPT ![t] = NoWork]
  BY <1>2, <1>3 DEF TInv, WorkTypes
<1> QED BY <1>1, <1>2, <1>3

\* A record is changed only if no other stands in its way, and the item is done.
LEMMA NextWork == ASSUME TInv, [Next]_vars PROVE WorkOK'
<1> USE DEF TInv, WorkOK
<1>1. CASE Edit
  BY <1>1, SameWork DEF Edit, EditRow, UpdatePipeline, RequestUpload, RequestEdit, EditDisk,
     taskVars
<1>2. CASE WorkerDies
  <2>1. Over({worker, cron} \cap Tasks)
    BY <1>2 DEF WorkerDies, Over
  <2> QED BY <2>1, OverWork
<1>3. ASSUME NEW t \in Tasks, CheckActive(t) \/ CommitRun(t) \/ Enqueue(t) \/ Tick(t)
                                \/ Dequeue(t) \/ CronStart(t) \/ Refuse(t) \/ Crawl(t)
                                \/ ApiDies(t)
      PROVE  WorkOK'
  BY <1>3, SameWork DEF CheckActive, CommitRun, Enqueue, Tick, Dequeue, CronStart, Start,
     Refuse, Crawl, ApiDies
<1>4. ASSUME NEW t \in Tasks, ScraperFails(t) \/ QdrantFails(t) \/ CommitRefused(t) \/ Finish(t)
      PROVE  WorkOK'
  BY <1>4, OverLeft, OverWork DEF ScraperFails, QdrantFails, CommitRefused, Finish
<1>5. ASSUME NEW t \in Tasks, CompareSync(t) \/ CompareRun(t)
      PROVE  WorkOK'
  BY <1>5, SyncPlan, RunPlan, DecideWork
<1>6. ASSUME NEW t \in Tasks, DeletePoints(t)
      PROVE  WorkOK'
  <2>1. PICK i \in Deleting(t) : Proceed(t, i, IF i.kind = "changed" THEN "index" ELSE "commit")
    BY <1>6 DEF DeletePoints
  <2> DEFINE stage == IF i.kind = "changed" THEN "index" ELSE "commit"
  <2>2. (stage = "index" /\ i.kind = "changed") \/ stage = "commit"
    OBVIOUS
  <2>3. Proceed(t, i, stage) /\ UNCHANGED <<seen, todo>>
    BY <1>6, <2>1 DEF DeletePoints
  <2> HIDE DEF stage
  <2> QED BY <2>2, <2>3, ProceedWork
<1>7. ASSUME NEW t \in Tasks, IndexFile(t)
      PROVE  WorkOK'
  <2>1. PICK i \in Indexing(t) :
          \/ todo' = [todo EXCEPT ![t] = @ \ {i}] /\ doing' = [doing EXCEPT ![t] = NoWork]
          \/ Proceed(t, i, "commit") /\ UNCHANGED todo
    BY <1>7, IndexCases
  <2>2. UNCHANGED seen
    BY <1>7 DEF IndexFile
  <2>3. CASE todo' = [todo EXCEPT ![t] = @ \ {i}] /\ doing' = [doing EXCEPT ![t] = NoWork]
    <3> DEFINE rest == todo[t] \ {i}
    <3>1. rest \in SUBSET todo[t] /\ todo' = [todo EXCEPT ![t] = rest]
      BY <2>3
    <3> HIDE DEF rest
    <3> QED BY <2>2, <2>3, <3>1, DoneWork
  <2>4. CASE Proceed(t, i, "commit") /\ UNCHANGED todo
    BY <2>2, <2>4, ProceedWork
  <2> QED BY <2>1, <2>3, <2>4
<1>8. ASSUME NEW t \in Tasks, CommitRecord(t)
      PROVE  WorkOK'
  <2> DEFINE rest == {i \in todo[t] : i # [doing[t] EXCEPT !.stage = "none"]}
  <2>1. /\ rest \in SUBSET todo[t] /\ todo' = [todo EXCEPT ![t] = rest]
        /\ doing' = [doing EXCEPT ![t] = NoWork] /\ UNCHANGED seen
    BY <1>8 DEF CommitRecord, Commit
  <2> HIDE DEF rest
  <2> QED BY <2>1, DoneWork
<1>9. CASE UNCHANGED vars
  BY <1>9, SameWork DEF vars, taskVars
<1>10. ASSUME NEW t \in Tasks, Read(t) PROVE WorkOK'
  BY <1>10, ReadWork
<1> HIDE DEF TInv, WorkOK
<1> QED BY <1>1, <1>2, <1>3, <1>4, <1>5, <1>6, <1>7, <1>8, <1>9, <1>10
     DEF Next, FaultStep, Request, Work

-----------------------------------------------------------------------------
(* The tables. *)

TableOK(table) ==
    /\ table \in [Files -> [Tasks -> Contents \cup {None}]]
    /\ \A f \in Files, t \in Tasks : table[f][t] \in ContentsOf[f] \cup {None}

LEMMA ClearedTable ==
  ASSUME TableOK(points), NEW f \in Files, NEW new, new = Cleared(f)
  PROVE  /\ TableOK(new) /\ \A u \in Tasks : new[f][u] = None
         /\ \A g \in Files : g # f => new[g] = points[g]
  BY DEF TableOK, Cleared

LEMMA UpsertedTable ==
  ASSUME TInv, NEW t \in Tasks, NEW i, i.file \in Files, NEW new, new = Upserted(t, i)
  PROVE  /\ TableOK(new)
         /\ \A g \in Files, u \in Tasks : i.file # g \/ t # u => new[g][u] = points[g][u]
         /\ ~Missing(i) => new[i.file][t] = disk[i.file].content
<1>1. TableOK(points)
  BY DEF TInv, DbOK, DbTypes, TableOK
<1>2. CASE Missing(i)
  BY <1>1, <1>2 DEF Upserted
<1>3. CASE ~Missing(i)
  <2> DEFINE value == disk[i.file].content
             f == i.file
  <2>1. value \in ContentsOf[f] \cup {None} /\ f \in Files
    BY DEF TInv, FilesOK, Settled
  <2>2. new = [points EXCEPT ![f][t] = value]
    BY <1>3 DEF Upserted
  <2> HIDE DEF value, f
  <2>3. /\ TableOK(new) /\ new[f][t] = value
        /\ \A g \in Files, u \in Tasks : f # g \/ t # u => new[g][u] = points[g][u]
    <3>1. points \in [Files -> [Tasks -> Contents \cup {None}]] /\ value \in Contents \cup {None}
      BY <1>1, <2>1, ContentOf DEF TableOK
    <3>2. /\ new \in [Files -> [Tasks -> Contents \cup {None}]] /\ new[f][t] = value
          /\ \A g \in Files, u \in Tasks : f # g \/ t # u => new[g][u] = points[g][u]
      BY <2>1, <2>2, <3>1
    <3> QED BY <1>1, <2>1, <3>2 DEF TableOK
  <2> QED BY <2>3 DEF value, f
<1> QED BY <1>2, <1>3

LEMMA CommitTable ==
  ASSUME TInv, NEW t \in Tasks, CommitRecord(t), NEW i, i = doing[t], NEW u, u = Key(t, i)[2]
  PROVE  /\ u \in Tasks /\ i.hash \in ContentsOf[i.file] \cup {None}
         /\ TableOK(records') /\ records'[i.file][u] = i.hash
         /\ \A g \in Files, v \in Tasks :
                i.file # g \/ u # v => records'[g][v] = records[g][v]
<1>1. doing[t].stage = "commit" /\ records' = [records EXCEPT ![i.file][u] = i.hash]
  BY DEF CommitRecord, Commit
<1>2. i.file \in Files /\ u \in Tasks /\ i.hash \in ContentsOf[i.file] \cup {None}
  <2>1. /\ i.file \in Files
        /\ i.kind # "removed" => i.hash \in ContentsOf[i.file]
        /\ i.kind = "removed" => i.hash = None
        /\ i.kind # "new" => i.by \in Tasks
    BY <1>1, Held DEF TInv
  <2>2. u = IF i.kind = "new" THEN t ELSE i.by
    BY DEF Key
  <2> QED BY <2>1, <2>2
<1>3. TableOK(records)
  BY DEF TInv, DbOK, DbTypes, TableOK
<1> DEFINE f == i.file
           value == i.hash
           new == records'
<1>4. new = [records EXCEPT ![f][u] = value]
  BY <1>1
<1>5. f \in Files /\ u \in Tasks /\ value \in ContentsOf[f] \cup {None}
  BY <1>2
<1> HIDE DEF f, value, new
<1>6. records \in [Files -> [Tasks -> Contents \cup {None}]] /\ value \in Contents \cup {None}
  BY <1>3, <1>5, ContentOf DEF TableOK
<1>7. /\ new \in [Files -> [Tasks -> Contents \cup {None}]] /\ new[f][u] = value
      /\ \A g \in Files, v \in Tasks : f # g \/ u # v => new[g][v] = records[g][v]
  BY <1>4, <1>5, <1>6
<1>8. TableOK(new)
  BY <1>3, <1>5, <1>7 DEF TableOK
<1> QED BY <1>2, <1>7, <1>8 DEF f, value, new

LEMMA NextTables == ASSUME TInv, [Next]_vars PROVE DbOK'
<1>1. TableOK(points) /\ TableOK(records)
  BY DEF TInv, DbOK, DbTypes, TableOK
<1>2. ASSUME TableOK(points'), TableOK(records') PROVE DbOK'
  BY <1>2 DEF DbOK, DbTypes, TableOK
<1>3. CASE UNCHANGED dbVars
  BY <1>1, <1>2, <1>3 DEF dbVars
<1>4. ASSUME NEW t \in Tasks, DeletePoints(t) PROVE DbOK'
  <2>1. PICK i \in Deleting(t) : points' = Cleared(i.file) /\ records' = records
    BY <1>4 DEF DeletePoints
  <2>2. i.file \in Files
    BY Taken DEF TInv
  <2> QED BY <1>1, <1>2, <2>1, <2>2, ClearedTable
<1>5. ASSUME NEW t \in Tasks, IndexFile(t) PROVE DbOK'
  <2>1. PICK i \in Indexing(t) : points' = Upserted(t, i) /\ records' = records
    BY <1>5 DEF IndexFile
  <2>2. i.file \in Files
    BY Taken DEF TInv
  <2> QED BY <1>1, <1>2, <2>1, <2>2, UpsertedTable
<1>6. ASSUME NEW t \in Tasks, QdrantFails(t) PROVE DbOK'
  <2>1. PICK i \in Deleting(t) \cup Indexing(t) :
          points' \in {points, Cleared(i.file), Upserted(t, i)} /\ records' = records
    BY <1>6 DEF QdrantFails
  <2>2. i.file \in Files
    BY Taken DEF TInv
  <2> QED BY <1>1, <1>2, <2>1, <2>2, ClearedTable, UpsertedTable
<1>7. ASSUME NEW t \in Tasks, CommitRecord(t) PROVE DbOK'
  <2>1. TableOK(records')
    BY <1>7, CommitTable
  <2> QED BY <1>1, <1>2, <1>7, <2>1 DEF CommitRecord, Commit
<1>8. ASSUME NEW t \in Tasks,
             \/ ApiDies(t) \/ ScraperFails(t) \/ CheckActive(t) \/ Request(t) \/ Tick(t)
             \/ Dequeue(t) \/ CronStart(t) \/ Refuse(t) \/ Crawl(t) \/ Read(t)
             \/ CompareSync(t) \/ CompareRun(t) \/ CommitRefused(t) \/ Finish(t)
      PROVE  UNCHANGED dbVars
  BY <1>8 DEF ApiDies, ScraperFails, CheckActive, Request, CommitRun, Enqueue, Tick, Dequeue,
     CronStart, Start, Refuse, Crawl, Read, CompareSync, CompareRun, Decide, CommitRefused,
     Finish
<1>9. Edit \/ WorkerDies \/ UNCHANGED vars => UNCHANGED dbVars
  BY DEF Edit, EditRow, UpdatePipeline, RequestUpload, RequestEdit, EditDisk, WorkerDies, vars,
     dbVars
<1> QED BY <1>3, <1>4, <1>5, <1>6, <1>7, <1>8, <1>9 DEF Next, FaultStep, Work

-----------------------------------------------------------------------------
(* Where the tasks are. *)

\* A task that is not under way takes a step of the API or of the cron.
LEMMA ApiScheduled ==
  ASSUME TInv, NEW t \in Tasks,
         \/ CheckActive(t) \/ CommitRun(t) \/ Enqueue(t) \/ ApiDies(t) \/ Tick(t)
         \/ Dequeue(t) \/ CronStart(t) \/ Refuse(t)
  PROVE  /\ Scheduled' /\ UNCHANGED <<seen, todo, doing, dbVars, suspect>>
         /\ pc[t] \in {"new", "checked", "committed", "queued"}
         /\ pc' = [pc EXCEPT ![t] = pc'[t]]
<1> USE DEF TInv, TaskTypes, Scheduled, Running
<1>0. None \notin Tasks
  BY SyncAssumption
<1>1. CASE CheckActive(t) \/ CommitRun(t) \/ Enqueue(t) \/ ApiDies(t)
  <2>1. /\ pc[t] \in {"new", "checked", "committed"}
        /\ pc' = [pc EXCEPT ![t] = pc'[t]]
        /\ pc'[t] \in {"checked", "committed", "queued", "dead"}
    BY <1>1 DEF CheckActive, CommitRun, Enqueue, ApiDies, GoTo
  <2>2. UNCHANGED <<seen, todo, doing, dbVars, suspect, worker, cron>>
    BY <1>1 DEF CheckActive, CommitRun, Enqueue, ApiDies
  <2>3. worker # None => worker # t /\ worker \in Tasks
    BY <2>1 DEF Tasks
  <2>4. cron # None => cron # t /\ cron \in Tasks
    BY <2>1 DEF Tasks
  <2>5. \A u \in Tasks : u # t => pc'[u] = pc[u]
    BY <2>1
  <2>6. Scheduled'
    BY <2>1, <2>2, <2>3, <2>4, <2>5
  <2> QED BY <2>1, <2>2, <2>6
<1>2. CASE Tick(t)
  BY <1>0, <1>2 DEF Tick, GoTo
<1>3. CASE Dequeue(t)
  BY <1>0, <1>3 DEF Dequeue, WorkerIdle, Start, GoTo
<1>4. CASE CronStart(t)
  BY <1>0, <1>4 DEF CronStart, Start, GoTo
<1>5. CASE Refuse(t)
  <2>1. /\ pc[t] = "queued" /\ pc' = [pc EXCEPT ![t] = "done"]
        /\ UNCHANGED <<seen, todo, doing, dbVars, suspect, worker>>
        /\ cron' = IF cron = t THEN None ELSE cron
    BY <1>5 DEF Refuse, GoTo
  <2>2. pc'[t] = "done" /\ \A u \in Tasks : u # t => pc'[u] = pc[u]
    BY <2>1
  <2>3. worker # None => worker # t /\ worker \in Tasks
    BY <2>1 DEF Tasks
  <2>4. cron' # None => cron' = cron /\ cron' # t /\ cron' \in Tasks
    BY <2>1 DEF Tasks
  <2>5. \A u \in Tasks : pc'[u] \in Running => u \in {worker', cron'}
    BY <2>1, <2>2
  <2>6. Scheduled'
    BY <2>1, <2>2, <2>3, <2>4, <2>5
  <2> QED BY <2>1, <2>2, <2>6
<1> QED BY <1>1, <1>2, <1>3, <1>4, <1>5

\* A task that is under way goes on,
LEMMA GoesOn ==
  ASSUME TInv, NEW t \in Tasks,
         \/ Crawl(t) \/ Read(t) \/ CompareSync(t) \/ CompareRun(t) \/ DeletePoints(t)
         \/ IndexFile(t) \/ CommitRecord(t)
  PROVE  /\ Scheduled' /\ UNCHANGED <<worker, cron, row, dirs, folders, faults>>
         /\ pc[t] \in Running /\ pc'[t] \in Running /\ pc' = [pc EXCEPT ![t] = pc'[t]]
<1> USE DEF TInv, TaskTypes, WorkTypes, Scheduled, Running
<1>0. None \notin Tasks
  BY SyncAssumption
<1>1. CASE Read(t)
  BY <1>0, <1>1 DEF Read, GoTo, pipeVars
<1>2. CASE CompareSync(t) \/ CompareRun(t)
  <2>1. PICK items : Decide(t, items)
    BY <1>2 DEF CompareSync, CompareRun
  <2> QED BY <1>0, <2>1 DEF Decide, GoTo, pipeVars
<1>3. CASE DeletePoints(t)
  BY <1>0, <1>3 DEF DeletePoints, Proceed, pipeVars
<1>4. CASE IndexFile(t)
  <2>1. PICK i \in Indexing(t) :
          /\ UNCHANGED <<pipeVars, row, pc, seen, worker, cron, faults>> /\ pc[t] = "work"
          /\ todo' \in {todo, [todo EXCEPT ![t] = @ \ {i}]}
          /\ doing' \in {doing, [doing EXCEPT ![t] = [i EXCEPT !.stage = "commit"]]}
    BY <1>4 DEF IndexFile, Proceed
  <2> QED BY <1>0, <2>1 DEF pipeVars
<1>5. CASE CommitRecord(t)
  BY <1>0, <1>5 DEF CommitRecord, Commit, pipeVars
<1>6. CASE Crawl(t)
  BY <1>0, <1>6 DEF Crawl, GoTo, pipeVars
<1> QED BY <1>1, <1>2, <1>3, <1>4, <1>5, <1>6

\* or leaves.
LEMMA Leaves ==
  ASSUME TInv, NEW t \in Tasks,
         CommitRefused(t) \/ Finish(t) \/ QdrantFails(t) \/ ScraperFails(t)
  PROVE  /\ Scheduled' /\ UNCHANGED <<dirs, folders, fresh, status, hash, records>>
         /\ pc[t] \in Running /\ pc' = [pc EXCEPT ![t] = pc'[t]]
         /\ pc'[t] \in {"done", "dead"} /\ Over({t})
<1> USE DEF TInv, TaskTypes, WorkTypes, Scheduled, Running
<1>0. None \notin Tasks
  BY SyncAssumption
<1>1. /\ Leave(t) /\ pc[t] \in Running /\ UNCHANGED <<fileVars, pipeVars, fresh, records>>
      /\ pc' = [pc EXCEPT ![t] = "done"] \/ pc' = [pc EXCEPT ![t] = "dead"]
  BY DEF CommitRefused, Finish, QdrantFails, ScraperFails, GoTo, dbVars
<1>2. Scheduled'
  <2>1. /\ worker' = IF worker = t THEN None ELSE worker
        /\ cron' = IF cron = t THEN None ELSE cron
        /\ todo' = [todo EXCEPT ![t] = {}] /\ doing' = [doing EXCEPT ![t] = NoWork]
        /\ seen' = [seen EXCEPT ![t] = {}]
    BY <1>1 DEF Leave
  <2>2. pc'[t] \in {"done", "dead"} /\ \A u \in Tasks : u # t => pc'[u] = pc[u]
    BY <1>1
  <2>3. \A u \in Tasks : pc'[u] \in Running => u \in {worker', cron'}
    BY <2>1, <2>2
  <2>4. /\ worker' # None => pc'[worker'] \in Running
        /\ cron' # None => pc'[cron'] \in Running \cup {"queued"}
    <3>1. worker \in Tasks \cup {None} /\ cron \in Tasks \cup {None}
      BY DEF Tasks
    <3> QED BY <2>1, <2>2, <3>1
  <2>5. \A u \in Tasks : /\ pc'[u] # "work" => todo'[u] = {} /\ doing'[u] = NoWork
                         /\ pc'[u] # "compare" => seen'[u] = {}
    BY <2>1, <2>2
  <2> QED BY <2>3, <2>4, <2>5
<1> QED BY <1>1, <1>2, OverLeft DEF WorkOK, fileVars, pipeVars

LEMMA DeathScheduled == ASSUME TInv, WorkerDies PROVE Scheduled'
  BY SyncAssumption DEF TInv, TaskTypes, Scheduled, Running, WorkerDies

LEMMA NextScheduled == ASSUME TInv, [Next]_vars PROVE Scheduled'
<1>1. CASE Edit \/ UNCHANGED vars
  BY <1>1 DEF TInv, Scheduled, Running, Edit, EditRow, UpdatePipeline, RequestUpload,
     RequestEdit, EditDisk, vars, taskVars
<1>2. CASE WorkerDies
  BY <1>2, DeathScheduled
<1> QED BY <1>1, <1>2, ApiScheduled, GoesOn, Leaves DEF Next, FaultStep, Request, Work

-----------------------------------------------------------------------------

LEMMA InitTyped == Init => TInv
<1> SUFFICES ASSUME Init PROVE TInv
  OBVIOUS
<1>1. TaskTypes
  BY SyncAssumption DEF Init, TaskTypes
<1>2. WorkTypes /\ ItemsOK
  BY NoWorkTyped DEF Init, WorkTypes, ItemsOK, InHand, SeenOK
<1>3. DbOK
  BY DEF Init, DbOK, DbTypes
<1>4. Scheduled
  BY DEF Init, Scheduled, Running
<1> QED BY <1>1, <1>2, <1>3, <1>4, InitFiles DEF TInv

LEMMA NextTyped == ASSUME TInv, [Next]_vars PROVE TInv'
  BY NextFiles, NextTasks, NextWork, NextTables, NextScheduled DEF TInv, WorkOK

THEOREM Inductive == Spec => []TInv
<1>1. Init => TInv
  BY InitTyped
<1>2. TInv /\ [Next]_vars => TInv'
  BY NextTyped
<1> QED BY <1>1, <1>2, PTL DEF Spec

\* The state has the types that TypeOK gives it, whatever the files contain, and however
\* many tasks and faults there are.
THEOREM TypeCorrect == Spec => []TypeOK
<1>1. ASSUME TInv PROVE TypeOK
  <2> USE DEF TInv
  <2>1. ASSUME NEW t \in Tasks, NEW i \in todo[t] \cup {doing[t]}
        PROVE  /\ i.file \in Files \cup {None}
               /\ i.kind \in {"none", "new", "changed", "removed"}
               /\ i.hash \in Contents \cup {None} /\ i.path \in 0 .. MaxEdits
               /\ i.by \in Tasks \cup {None}
               /\ i.stage \in {"none", "delete", "index", "commit"}
    <3>1. i \in ItemSet
      BY <1>1 DEF WorkTypes
    <3> QED BY <3>1 DEF ItemSet, Kinds, Stages
  <2> QED BY <1>1, <2>1 DEF FilesOK, FileTypes, TaskTypes, DbOK, DbTypes, TypeOK
<1> QED BY <1>1, Inductive, PTL
-----------------------------------------------------------------------------
(* Files that are not suspect. *)

\* The one task that has a file to do is the one that has it in hand.
LEMMA OneHand ==
  ASSUME TInv, Unsuspected, NEW f \in Files \ suspect, NEW t \in Tasks, NEW i \in todo[t],
         i.file = f, NEW u \in Tasks, doing[u].file = f
  PROVE  u = t /\ Idle(doing[u]) = i
<1>1. doing[u] # NoWork
  BY NoWorkTyped, SyncAssumption
<1>2. Idle(doing[u]) \in todo[u]
  BY <1>1 DEF TInv, ItemsOK, InHand
<1>3. Idle(doing[u]).file = f
  BY DEF Idle, TInv, WorkTypes, ItemSet
<1> QED BY <1>2, <1>3 DEF Unsuspected, Single

\* A file that a step leaves alone.
LEMMA OtherFile ==
  ASSUME Unsuspected, NEW f \in Files \ suspect,
         records'[f] = records[f], points'[f] = points[f],
         \A u \in Tasks : \A i : i.file = f => (i \in todo'[u] <=> i \in todo[u]),
         \A u \in Tasks : doing'[u] = doing[u] \/ (doing[u].file # f /\ doing'[u].file # f)
  PROVE  Single(f)' /\ Matched(f)'
<1>1. Single(f) /\ Matched(f)
  BY DEF Unsuspected
<1>2. Recorded(f)' = Recorded(f) /\ Owned(points, f)' = Owned(points, f)
      /\ Owned(records, f)' = Owned(records, f)
  BY DEF Recorded, Owned
<1>3. \A i : i.file = f => Fits(i)' = Fits(i)
  BY <1>2 DEF Fits
<1>4. Single(f)'
  BY <1>1, <1>2, <1>3 DEF Single
<1>5. \A u \in Tasks : doing'[u].file = f => doing'[u] = doing[u]
  OBVIOUS
<1>6. Matched(f)'
  BY <1>1, <1>2, <1>5 DEF Matched, Halfway
<1> QED BY <1>4, <1>6

LEMMA SameUnsuspected ==
  ASSUME Unsuspected, UNCHANGED <<todo, doing, dbVars, suspect>> PROVE Unsuspected'
<1> SUFFICES ASSUME NEW f \in Files \ suspect PROVE Single(f)' /\ Matched(f)'
  BY DEF Unsuspected
<1> QED BY OtherFile DEF dbVars

LEMMA OverUnsuspected ==
  ASSUME TInv, Unsuspected, NEW dead \in SUBSET Tasks, Over(dead), suspect \subseteq suspect',
         \A t \in dead : doing[t].file \in suspect' \cup {None},
         records' = records, \A f \in Files \ suspect' : points'[f] = points[f]
  PROVE  Unsuspected'
<1> SUFFICES ASSUME NEW f \in Files \ suspect' PROVE Single(f)' /\ Matched(f)'
  BY DEF Unsuspected
<1>1. Single(f) /\ Matched(f) /\ f # None
  BY SyncAssumption DEF Unsuspected
<1>2. Recorded(f)' = Recorded(f) /\ Owned(points, f)' = Owned(points, f)
      /\ Owned(records, f)' = Owned(records, f)
  BY DEF Recorded, Owned
<1>3. \A u \in Tasks : todo'[u] \subseteq todo[u]
  BY DEF Over
<1>4. Single(f)'
  BY <1>1, <1>2, <1>3 DEF Single, Fits
<1>5. \A u \in Tasks : (doing'[u].file = f \/ doing[u].file = f) => doing'[u] = doing[u]
  BY <1>1, NoWorkTyped DEF Over
<1>6. Matched(f)'
  BY <1>1, <1>2, <1>5 DEF Matched, Halfway
<1> QED BY <1>4, <1>6

LEMMA DecideUnsuspected ==
  ASSUME TInv, Unsuspected, NEW t \in Tasks, NEW items,
         Decide(t, items), Typed(t, items), Planned(items, suspect')
  PROVE  Unsuspected'
<1> SUFFICES ASSUME NEW f \in Files \ suspect' PROVE Single(f)' /\ Matched(f)'
  BY DEF Unsuspected
<1>1. /\ UNCHANGED <<doing, records, points>> /\ todo' = [todo EXCEPT ![t] = items]
      /\ f \notin suspect /\ f \notin FilesOf(items) \cap FilesOf(Others(t))
  BY DEF Decide, dbVars
<1>2. Single(f) /\ Matched(f)
  BY <1>1 DEF Unsuspected
<1>3. Recorded(f)' = Recorded(f) /\ \A i : i.file = f => Fits(i)' = Fits(i)
  BY <1>1 DEF Recorded, Fits
<1>4. ASSUME NEW u \in Tasks, u # t, NEW i \in items, NEW j \in todo[u], i.file = f, j.file = f
      PROVE  FALSE
  <2>1. u \in {worker, cron} \ {t, None}
    <3>1. pc[u] = "work"
      BY <1>4 DEF TInv, Scheduled
    <3> QED BY <3>1, <1>4, SyncAssumption DEF TInv, Scheduled, Running
  <2>2. j \in Others(t)
    BY <2>1 DEF Others
  <2> QED BY <1>1, <1>4, <2>2 DEF FilesOf
<1>5. \A u \in Tasks : todo'[u] = IF u = t THEN items ELSE todo[u]
  BY <1>1 DEF TInv, WorkTypes
<1>6. Single(f)'
  <2>1. \A u, v \in Recorded(f)' : u = v
    BY <1>2, <1>3 DEF Single
  <2>2. ASSUME NEW u \in Tasks, NEW v \in Tasks, NEW i \in todo'[u], NEW j \in todo'[v],
               i.file = f, j.file = f
        PROVE  u = v /\ i = j
    <3>1. CASE u = t /\ v = t
      BY <3>1, <2>2, <1>5 DEF Planned
    <3>2. CASE u # t /\ v # t
      BY <3>2, <2>2, <1>5, <1>2 DEF Single
    <3>3. CASE u = t /\ v # t
      BY <3>3, <2>2, <1>5, <1>4
    <3>4. CASE u # t /\ v = t
      BY <3>4, <2>2, <1>5, <1>4
    <3> QED BY <3>1, <3>2, <3>3, <3>4
  <2>3. ASSUME NEW u \in Tasks, NEW i \in todo'[u], i.file = f
        PROVE  Fits(i)'
    BY <2>3, <1>2, <1>3, <1>5 DEF Single, Planned
  <2> QED BY <2>1, <2>2, <2>3 DEF Single
<1>7. Matched(f)'
  <2>1. Owned(points, f)' = Owned(points, f) /\ Owned(records, f)' = Owned(records, f)
    BY <1>1 DEF Owned
  <2> QED BY <2>1, <1>1, <1>2 DEF Matched, Halfway
<1> QED BY <1>6, <1>7

LEMMA DeleteUnsuspected ==
  ASSUME TInv, Unsuspected, NEW t \in Tasks, DeletePoints(t) PROVE Unsuspected'
<1>1. PICK i \in Deleting(t) :
        /\ points' = Cleared(i.file)
        /\ Proceed(t, i, IF i.kind = "changed" THEN "index" ELSE "commit")
  BY DEF DeletePoints
<1> DEFINE j == [i EXCEPT !.stage = IF i.kind = "changed" THEN "index" ELSE "commit"]
<1>2. UNCHANGED <<todo, records, suspect>> /\ doing' = [doing EXCEPT ![t] = j]
  BY <1>1 DEF DeletePoints, Proceed
<1>3. /\ i.file \in Files /\ doing[t] = NoWork /\ i \in todo[t]
      /\ i.kind \in {"changed", "removed"} /\ i \in ItemSet
  BY Taken DEF TInv
<1>4. /\ j.file = i.file /\ j.kind = i.kind
      /\ j.stage = IF i.kind = "changed" THEN "index" ELSE "commit"
  BY <1>3 DEF ItemSet
<1> HIDE DEF j
<1>5. \A u \in Tasks : doing'[u] = IF u = t THEN j ELSE doing[u]
  BY <1>2 DEF TInv, WorkTypes
<1>6. /\ \A u \in Tasks : points'[i.file][u] = None
      /\ \A g \in Files : g # i.file => points'[g] = points[g]
  BY <1>1, <1>3, ClearedTable DEF TInv, DbOK, DbTypes, TableOK
<1> SUFFICES ASSUME NEW f \in Files \ suspect PROVE Single(f)' /\ Matched(f)'
  BY <1>2 DEF Unsuspected
<1>7. CASE f = i.file
  <2>1. Single(f)'
    BY <1>2 DEF Unsuspected, Single, Fits, Recorded
  <2>2. \A u \in Tasks : doing'[u].file = f => u = t
    BY <1>3, <1>5, <1>7, OneHand
  <2>3. Owned(points, f)' = {}
    BY <1>6, <1>7 DEF Owned
  <2>4. doing'[t] = j /\ j.file = f
    BY <1>4, <1>5, <1>7
  <2>5. Halfway(f, j)'
    BY <1>3, <1>4, <2>3 DEF Halfway
  <2> QED BY <2>1, <2>2, <2>4, <2>5 DEF Matched
<1>8. CASE f # i.file
  <2>1. f # None
    BY SyncAssumption
  <2>2. records'[f] = records[f] /\ points'[f] = points[f]
    BY <1>2, <1>6, <1>8
  <2>3. \A u \in Tasks : \A k : k.file = f => (k \in todo'[u] <=> k \in todo[u])
    BY <1>2
  <2>4. \A u \in Tasks : doing'[u] = doing[u] \/ (doing[u].file # f /\ doing'[u].file # f)
    BY <2>1, <1>3, <1>4, <1>5, <1>8, NoWorkTyped
  <2>5. f \in Files \ suspect
    OBVIOUS
  <2> QED BY <2>2, <2>3, <2>4, <2>5, OtherFile
<1> QED BY <1>7, <1>8

\* What is indexed is what was to be indexed, or the file becomes suspect.
LEMMA IndexUnsuspected ==
  ASSUME TInv, Unsuspected, NEW t \in Tasks, IndexFile(t) PROVE Unsuspected'
<1>1. PICK i \in Indexing(t) :
        /\ points' = Upserted(t, i)
        /\ \/ /\ t \in Runs /\ Missing(i)
              /\ todo' = [todo EXCEPT ![t] = @ \ {i}]
              /\ doing[t] = NoWork /\ doing' = [doing EXCEPT ![t] = NoWork]
           \/ Proceed(t, i, "commit") /\ UNCHANGED todo
        /\ suspect' = IF Missing(i) \/ disk[i.file].content # i.hash
                      THEN suspect \cup {i.file} ELSE suspect
  BY IndexCases
<1> DEFINE j == [i EXCEPT !.stage = "commit"]
<1>2. records' = records /\ suspect \subseteq suspect'
  BY <1>1 DEF IndexFile
<1>3. /\ i.file \in Files /\ i \in ItemSet /\ Idle(i) \in todo[t] /\ i.kind # "removed"
      /\ i.hash \in ContentsOf[i.file]
      /\ \/ doing[t] = NoWork /\ i \in todo[t] /\ i.kind = "new"
         \/ doing[t] = i /\ i.stage = "index"
  BY Taken DEF TInv
<1>4. j.file = i.file /\ j.kind = i.kind /\ j.stage = "commit" /\ j.hash = i.hash
  BY <1>3 DEF ItemSet
<1>5. Idle(i).file = i.file /\ (i.stage = "index" \/ Idle(i) = i)
  <2>1. i \in todo[t] => Idle(i) = i
    BY <1>3 DEF TInv, ItemsOK, ItemOK, Idle, ItemSet
  <2> QED BY <2>1, <1>3 DEF Idle, ItemSet
<1>6. \A u \in Tasks : doing'[u] = IF u = t THEN doing'[t] ELSE doing[u]
  BY <1>1 DEF TInv, WorkTypes, Proceed
<1>7. doing'[t] \in {j, NoWork} /\ doing[t] \in {i, NoWork}
  BY <1>1, <1>3 DEF TInv, WorkTypes, Proceed
<1>8. /\ \A g \in Files, u \in Tasks : i.file # g \/ t # u => points'[g][u] = points[g][u]
      /\ ~Missing(i) => points'[i.file][t] = disk[i.file].content
      /\ TableOK(points') /\ TableOK(points)
  BY <1>1, <1>3, UpsertedTable DEF TInv, DbOK, DbTypes, TableOK
<1>9. \A u \in Tasks : \A k : k.file # i.file => (k \in todo'[u] <=> k \in todo[u])
  BY <1>1 DEF TInv, WorkTypes
<1> SUFFICES ASSUME NEW f \in Files \ suspect' PROVE Single(f)' /\ Matched(f)'
  BY DEF Unsuspected
<1>10. f \in Files \ suspect /\ f # None
  BY <1>2, SyncAssumption
<1>11. CASE f = i.file
  <2>1. ~Missing(i) /\ disk[f].content = i.hash
    BY <1>1, <1>11
  <2>2. UNCHANGED todo /\ doing'[t] = j
    BY <1>1, <2>1 DEF TInv, WorkTypes, Proceed
  <2>3. Single(f)'
    BY <1>2, <1>10, <2>2 DEF Unsuspected, Single, Fits, Recorded
  <2>4. \A u \in Tasks : doing[u].file = f => u = t
    BY <1>3, <1>5, <1>10, <1>11, OneHand
  <2>5. \A u \in Tasks : doing'[u].file = f => u = t
    BY <1>6, <2>4
  <2>6. \A u \in Tasks : points[f][u] = None
    <3>1. Owned(points, f) = {}
      <4>1. CASE doing[t] = i /\ i.stage = "index"
        BY <4>1, <1>10, <1>11 DEF Unsuspected, Matched, Halfway
      <4>2. CASE doing[t] = NoWork /\ i \in todo[t] /\ i.kind = "new"
        <5>1. \A u \in Tasks : doing[u].file # f
          BY <4>2, <2>4, <1>10, NoWorkTyped
        <5>2. Recorded(f) = {}
          <6>1. Fits(i)
            BY <4>2, <1>10, <1>11 DEF Unsuspected, Single
          <6> QED BY <6>1, <4>2, <1>11 DEF Fits
        <5>3. Owned(records, f) = {}
          BY <5>2 DEF Owned, Recorded
        <5> QED BY <5>1, <5>3, <1>10 DEF Unsuspected, Matched
      <4> QED BY <4>1, <4>2, <1>3
    <3> QED BY <3>1 DEF Owned
  <2>7. Owned(points, f)' = {i.hash}
    <3>1. i.hash # None
      BY <1>3, ContentOf, SyncAssumption
    <3> QED BY <3>1, <2>1, <2>6, <1>8, <1>11 DEF Owned
  <2>8. Halfway(f, j)'
    BY <1>3, <1>4, <2>7 DEF Halfway
  <2> QED BY <2>2, <2>3, <2>5, <2>8, <1>4, <1>11 DEF Matched
<1>12. CASE f # i.file
  <2>1. records'[f] = records[f]
    BY <1>2
  <2>2. points'[f] = points[f]
    BY <1>8, <1>12 DEF TableOK
  <2>3. \A u \in Tasks : \A k : k.file = f => (k \in todo'[u] <=> k \in todo[u])
    BY <1>9, <1>12
  <2>4. \A u \in Tasks : doing'[u] = doing[u] \/ (doing[u].file # f /\ doing'[u].file # f)
    BY <1>4, <1>6, <1>7, <1>10, <1>12, NoWorkTyped
  <2> QED BY <1>10, <2>1, <2>2, <2>3, <2>4, OtherFile
<1> QED BY <1>11, <1>12

\* The record becomes what the points are.
LEMMA CommitUnsuspected ==
  ASSUME TInv, Unsuspected, NEW t \in Tasks, CommitRecord(t) PROVE Unsuspected'
<1>1. PICK i : i = doing[t]
  OBVIOUS
<1>2. PICK u : u = Key(t, i)[2]
  OBVIOUS
<1>3. /\ UNCHANGED <<points, suspect>> /\ i.stage = "commit"
      /\ todo' = [todo EXCEPT ![t] = {k \in @ : k # Idle(i)}]
      /\ doing' = [doing EXCEPT ![t] = NoWork]
  BY <1>1 DEF CommitRecord, Commit, Idle
<1>4. /\ i # NoWork /\ i \in ItemSet /\ Idle(i) \in todo[t] /\ i.file \in Files
      /\ i.kind \in Kinds
      /\ i.kind # "removed" => i.hash \in ContentsOf[i.file]
      /\ i.kind = "removed" => i.hash = None
  BY <1>1, <1>3, Held DEF TInv
<1>5. Idle(i).file = i.file /\ Idle(i).kind = i.kind /\ Idle(i).by = i.by
  BY <1>4 DEF Idle, ItemSet
<1>6. /\ u \in Tasks /\ TableOK(records') /\ TableOK(records) /\ records'[i.file][u] = i.hash
      /\ \A g \in Files, v \in Tasks : i.file # g \/ u # v => records'[g][v] = records[g][v]
  BY <1>1, <1>2, CommitTable DEF TInv, DbOK, DbTypes, TableOK
<1>7. u = IF i.kind = "new" THEN t ELSE i.by
  BY <1>2 DEF Key
<1>8. \A v \in Tasks : /\ doing'[v] = IF v = t THEN NoWork ELSE doing[v]
                       /\ todo'[v] \subseteq todo[v]
                       /\ \A k : k # Idle(i) => (k \in todo'[v] <=> k \in todo[v])
  BY <1>3 DEF TInv, WorkTypes
<1>9. Idle(i) \notin todo'[t]
  BY <1>3 DEF TInv, WorkTypes
<1> SUFFICES ASSUME NEW f \in Files \ suspect PROVE Single(f)' /\ Matched(f)'
  BY <1>3 DEF Unsuspected
<1>10. f # None
  BY SyncAssumption
<1>11. CASE f = i.file
  <2>1. \A v \in Tasks : \A k \in todo'[v] : k.file # f
    BY <1>4, <1>5, <1>8, <1>9, <1>11 DEF Unsuspected, Single
  <2>2. \A v \in Tasks : doing'[v].file # f
    BY <1>4, <1>5, <1>8, <1>10, <1>11, NoWorkTyped, OneHand
  <2>3. Fits(Idle(i))
    BY <1>4, <1>5, <1>11 DEF Unsuspected, Single
  <2>4. Recorded(f) = IF i.kind = "new" THEN {} ELSE {i.by}
    BY <2>3, <1>5, <1>11 DEF Fits
  <2>5. \A v \in Tasks : v # u => records'[f][v] = None
    BY <2>4, <1>6, <1>7, <1>11 DEF Recorded
  <2>6. Owned(records, f)' = {i.hash} \ {None}
    BY <2>5, <1>6, <1>11 DEF Owned
  <2>7. Owned(points, f)' = {i.hash} \ {None}
    <3>1. Owned(points, f) = IF i.kind = "removed" THEN {} ELSE {i.hash}
      BY <1>1, <1>3, <1>11 DEF Unsuspected, Matched, Halfway
    <3>2. None \notin ContentsOf[f]
      BY ContentOf, SyncAssumption
    <3>3. Owned(points, f)' = Owned(points, f)
      BY <1>3 DEF Owned
    <3> QED BY <3>1, <3>2, <3>3, <1>4, <1>11
  <2>8. Single(f)'
    BY <2>1, <2>5 DEF Single, Recorded
  <2> QED BY <2>2, <2>6, <2>7, <2>8 DEF Matched
<1>12. CASE f # i.file
  <2>1. records'[f] = records[f] /\ points'[f] = points[f]
    BY <1>3, <1>6, <1>12 DEF TableOK
  <2>2. \A v \in Tasks : \A k : k.file = f => (k \in todo'[v] <=> k \in todo[v])
    BY <1>5, <1>8, <1>12
  <2>3. \A v \in Tasks : doing'[v] = doing[v] \/ (doing[v].file # f /\ doing'[v].file # f)
    BY <1>1, <1>8, <1>10, <1>12, NoWorkTyped
  <2>4. f \in Files \ suspect
    OBVIOUS
  <2> QED BY <2>1, <2>2, <2>3, <2>4, OtherFile
<1> QED BY <1>11, <1>12

\* A record is refused only for a file that is suspect.
LEMMA RefusedSuspect ==
  ASSUME OwnContent, TInv, Unsuspected, NEW t \in Tasks, doing[t].stage = "commit",
         Refused(t, doing[t])
  PROVE  doing[t].file \in suspect
<1>1. PICK i : i = doing[t]
  OBVIOUS
<1>2. /\ Idle(i) \in todo[t] /\ i.file \in Files /\ i \in ItemSet
      /\ i.kind # "removed" => i.hash \in ContentsOf[i.file]
      /\ i.kind # "new" => i.by \in Tasks
  BY <1>1, Held DEF TInv
<1> SUFFICES ASSUME i.file \notin suspect PROVE FALSE
  BY <1>1
<1>3. Fits(Idle(i))
  BY <1>2 DEF Unsuspected, Single, Idle, ItemSet
<1>4. Recorded(i.file) = IF i.kind = "new" THEN {} ELSE {i.by}
  BY <1>2, <1>3 DEF Fits, Idle, ItemSet
<1>5. i.kind = "changed" => records[i.file][i.by] # None
  BY <1>4 DEF Recorded
<1>6. PICK g \in Files, u \in Tasks : <<g, u>> # Key(t, i) /\ records[g][u] = i.hash
                                      /\ i.kind # "removed"
  BY <1>1, <1>5 DEF Refused
<1>7. i.hash \in ContentsOf[i.file] /\ i.hash # None
  BY <1>2, <1>6, ContentOf, SyncAssumption
<1>8. i.hash \in ContentsOf[g]
  BY <1>6, <1>7 DEF TInv, DbOK
<1>9. g = i.file
  BY <1>2, <1>7, <1>8 DEF OwnContent
<1>10. u \in Recorded(i.file)
  BY <1>6, <1>7, <1>9 DEF Recorded
<1> QED BY <1>4, <1>6, <1>9, <1>10 DEF Key

\* A task leaves with a file in hand only if the file is suspect.
LEMMA LeavesUnsuspected ==
  ASSUME OwnContent, TInv, Unsuspected, NEW t \in Tasks,
         CommitRefused(t) \/ Finish(t) \/ QdrantFails(t) \/ ScraperFails(t)
  PROVE  Unsuspected'
<1>1. Over({t}) /\ records' = records
  BY Leaves
<1>2. CASE CommitRefused(t)
  <2>1. UNCHANGED <<points, suspect>> /\ doing[t].file \in suspect
    BY <1>2, RefusedSuspect DEF CommitRefused, dbVars
  <2> QED BY <1>1, <2>1, OverUnsuspected
<1>3. CASE Finish(t)
  <2>1. UNCHANGED <<points, suspect>> /\ doing[t].file = None
    BY <1>3, NoWorkTyped DEF Finish, dbVars
  <2> QED BY <1>1, <2>1, OverUnsuspected
<1>4. CASE ScraperFails(t)
  <2>1. UNCHANGED <<points, suspect>> /\ doing[t] = NoWork
    BY <1>4 DEF ScraperFails, dbVars, GoTo, TInv, Scheduled
  <2> QED BY <1>1, <2>1, OverUnsuspected, NoWorkTyped
<1>5. CASE QdrantFails(t)
  <2>1. PICK i \in Deleting(t) \cup Indexing(t) :
          /\ points' \in {points, Cleared(i.file), Upserted(t, i)}
          /\ suspect' = suspect \cup {i.file}
    BY <1>5 DEF QdrantFails
  <2>2. i.file \in Files /\ doing[t] \in {i, NoWork}
    BY Taken DEF TInv
  <2>3. TableOK(points)
    BY DEF TInv, DbOK, DbTypes, TableOK
  <2>4. ASSUME NEW f \in Files \ suspect' PROVE points'[f] = points[f]
    <3>1. f # i.file
      BY <2>1
    <3>2. Cleared(i.file)[f] = points[f]
      BY <3>1, <2>2, <2>3, ClearedTable
    <3>3. Upserted(t, i)[f] = points[f]
      BY <3>1, <2>2, <2>3 DEF Upserted, TableOK
    <3> QED BY <2>1, <3>2, <3>3
  <2>5. doing[t].file \in suspect' \cup {None}
    BY <2>1, <2>2, NoWorkTyped
  <2> QED BY <1>1, <2>1, <2>4, <2>5, OverUnsuspected
<1> QED BY <1>2, <1>3, <1>4, <1>5

LEMMA DeathUnsuspected == ASSUME TInv, Unsuspected, WorkerDies PROVE Unsuspected'
<1> DEFINE dead == {worker, cron} \cap Tasks
<1>1. dead \in SUBSET Tasks /\ Over(dead) /\ UNCHANGED <<records, points>>
  BY DEF WorkerDies, Over, dbVars
<1>2. suspect' = suspect \cup ({editing} \cap Files) \cup ({doing[t].file : t \in dead} \cap Files)
  BY DEF WorkerDies
<1>3. ASSUME NEW t \in dead PROVE doing[t].file \in suspect' \cup {None}
  <2>1. doing[t].file \in Files \cup {None}
    BY DEF TInv, WorkTypes, ItemSet
  <2> QED BY <1>2, <2>1
<1> HIDE DEF dead
<1> QED BY <1>1, <1>2, <1>3, OverUnsuspected

LEMMA NextUnsuspected ==
  ASSUME OwnContent, TInv, Unsuspected, [Next]_vars PROVE Unsuspected'
<1>1. CASE Edit \/ UNCHANGED vars
  BY <1>1, SameUnsuspected DEF Edit, EditRow, UpdatePipeline, RequestUpload, RequestEdit,
     EditDisk, vars, taskVars
<1>2. ASSUME NEW t \in Tasks,
             \/ CheckActive(t) \/ CommitRun(t) \/ Enqueue(t) \/ ApiDies(t) \/ Tick(t)
             \/ Dequeue(t) \/ CronStart(t) \/ Refuse(t)
      PROVE  Unsuspected'
  BY <1>2, ApiScheduled, SameUnsuspected
<1>3. ASSUME NEW t \in Tasks, Crawl(t) \/ Read(t) PROVE Unsuspected'
  BY <1>3, SameUnsuspected DEF Crawl, Read
<1>4. ASSUME NEW t \in Tasks, CompareSync(t) PROVE Unsuspected'
  <2>1. PICK items : Decide(t, items) /\ Typed(t, items) /\ Planned(items, suspect)
    BY <1>4, SyncPlan
  <2>2. Planned(items, suspect')
    BY <2>1 DEF Planned, Decide
  <2> QED BY <2>1, <2>2, DecideUnsuspected
<1>5. ASSUME NEW t \in Tasks, CompareRun(t) PROVE Unsuspected'
  BY <1>5, RunPlan, DecideUnsuspected
<1> QED BY <1>1, <1>2, <1>3, <1>4, <1>5, DeleteUnsuspected, IndexUnsuspected,
     CommitUnsuspected, LeavesUnsuspected, DeathUnsuspected
     DEF Next, FaultStep, Request, Work
-----------------------------------------------------------------------------
(* The sync that is fresh. *)

\* While a sync is fresh no other task is under way.
LEMMA FreshAlone ==
  ASSUME TInv, NEW t \in Tasks, FreshOK(t), NEW u \in Tasks, pc[u] \in Running PROVE u = t
<1>1. u \in {worker, cron} /\ u # None
  BY SyncAssumption DEF TInv, Scheduled
<1> QED BY <1>1 DEF FreshOK, Running

\* Nothing that FreshOK speaks of is changed by what another task does before it is under way.
LEMMA ApiFresh ==
  ASSUME TInv, NEW t \in Tasks, FreshOK(t), NEW u \in Tasks, t = fresh', fresh' = fresh,
         \/ CheckActive(u) \/ CommitRun(u) \/ Enqueue(u) \/ ApiDies(u) \/ Tick(u)
         \/ Refuse(u)
  PROVE  FreshOK(t)'
<1>1. /\ UNCHANGED <<seen, todo, doing, records, suspect, status, hash, path, dirs, folders>>
      /\ pc[u] \in {"new", "checked", "committed", "queued"} /\ pc' = [pc EXCEPT ![u] = pc'[u]]
      /\ \A v \in Tasks : v # u => row'[v] = row[v]
      /\ \/ pc[u] # "queued" /\ UNCHANGED <<worker, cron>>
         \/ pc[u] # "queued" /\ worker' = worker /\ cron' = u /\ pc'[u] = "queued"
         \/ worker' = worker /\ cron' = IF cron = u THEN None ELSE cron
  BY DEF CheckActive, CommitRun, Enqueue, ApiDies, Tick, Refuse, GoTo, fileVars, pipeVars,
     dbVars, TInv, TaskTypes
<1>2. u # t
  BY <1>1 DEF FreshOK
<1>3. \A v \in Tasks : v # u => pc'[v] = pc[v]
  BY <1>1 DEF TInv, TaskTypes
<1>4. \A v \in {worker, cron} \ {u, t, None} : v \in Tasks /\ pc'[v] = "queued"
  BY <1>1, <1>3 DEF FreshOK, TInv, TaskTypes, Tasks
<1>5. ASSUME NEW v \in {worker', cron'} \ {t, None} PROVE pc'[v] = "queued"
  <2>1. u # None /\ worker # u
    BY <1>1, SyncAssumption DEF TInv, Scheduled, Running
  <2>2. v # u => v \in {worker, cron} \ {u, t, None}
    BY <1>1, <1>5
  <2>3. v = u => pc'[u] = "queued"
    <3>1. cron = u => pc[u] = "queued"
      BY <1>1, <2>1 DEF TInv, Scheduled, Running
    <3> QED BY <1>1, <1>5, <2>1, <3>1
  <2> QED BY <1>4, <2>2, <2>3
<1>6. pc'[t] = pc[t] /\ row'[t] = row[t]
  BY <1>1, <1>2, <1>3
<1>7. SyncedFiles(t)' = SyncedFiles(t)
  BY <1>1 DEF SyncedFiles
<1>8. \A f : Wanted(f)' = Wanted(f) /\ Owned(records, f)' = Owned(records, f)
             /\ Remaining(todo[t], f)' = Remaining(todo[t], f)
  BY <1>1 DEF Wanted, Owned, Remaining, Brings
<1> QED BY <1>1, <1>5, <1>6, <1>7, <1>8 DEF FreshOK

LEMMA ReadFresh ==
  ASSUME TInv, Rows, NEW t \in Tasks, Read(t), fresh' # None PROVE fresh' = t /\ FreshOK(t)'
<1>1. /\ t \notin Runs /\ {worker, cron} \ {t} = {None} /\ folders[t] = dirs
      /\ fresh' = t /\ seen' = [seen EXCEPT ![t] = SyncedFiles(t)] /\ pc[t] = "read"
      /\ pc' = [pc EXCEPT ![t] = "compare"]
      /\ UNCHANGED <<status, hash, path, dirs, folders, row, todo, worker, cron, suspect>>
  BY DEF Read, GoTo, fileVars, pipeVars
<1>2. pc'[t] = "compare" /\ seen'[t] = SyncedFiles(t)
  BY <1>1 DEF TInv, TaskTypes, WorkTypes
<1>3. row'[t] # "success"
  BY <1>1 DEF Rows, Running
<1>4. SyncedFiles(t)' = SyncedFiles(t)
  BY <1>1 DEF SyncedFiles
<1> QED BY <1>1, <1>2, <1>3, <1>4 DEF FreshOK

\* What FreshOK says of one that goes on working.
LEMMA WorkFresh ==
  ASSUME TInv, Rows, NEW t \in Tasks, FreshOK(t), pc[t] \in Running, pc'[t] = "work",
         UNCHANGED <<worker, cron, row, dirs, folders, status, hash, path>>,
         pc' = [pc EXCEPT ![t] = pc'[t]],
         \A f \in Files \ suspect' : Remaining(todo[t], f)'
  PROVE  FreshOK(t)'
<1>1. row'[t] # "success"
  BY DEF Rows
<1>2. \A v \in {worker, cron} \ {t, None} : pc'[v] = "queued"
  <2>1. \A v \in {worker, cron} \ {t, None} : v \in Tasks /\ v # t
    BY DEF TInv, TaskTypes, Tasks
  <2> QED BY <2>1 DEF FreshOK, TInv, TaskTypes
<1> QED BY <1>1, <1>2 DEF FreshOK

LEMMA CompareFresh ==
  ASSUME OwnContent, TInv, Unsuspected, Rows, NEW t \in Tasks, fresh = t, FreshOK(t),
         CompareSync(t)
  PROVE  FreshOK(t)'
<1>1. PICK items : Decide(t, items) /\ \A f \in Files \ suspect : Remaining(items, f)
  BY SyncPlan
<1>2. /\ todo'[t] = items /\ pc'[t] = "work" /\ pc[t] \in Running /\ suspect \subseteq suspect'
      /\ UNCHANGED <<worker, cron, row, dirs, folders, status, hash, path, records>>
      /\ pc' = [pc EXCEPT ![t] = pc'[t]]
  BY <1>1 DEF Decide, GoTo, Running, fileVars, pipeVars, dbVars, TInv, TaskTypes, WorkTypes
<1>3. ASSUME NEW f \in Files \ suspect' PROVE Remaining(todo[t], f)'
  <2>1. Remaining(items, f)
    BY <1>1, <1>2
  <2>2. Wanted(f)' = Wanted(f) /\ Owned(records, f)' = Owned(records, f)
    BY <1>2 DEF Wanted, Owned
  <2> QED BY <1>2, <2>1, <2>2 DEF Remaining, Brings
<1> QED BY <1>2, <1>3, WorkFresh

LEMMA PointsFresh ==
  ASSUME TInv, Rows, NEW t \in Tasks, FreshOK(t), DeletePoints(t) \/ IndexFile(t)
  PROVE  FreshOK(t)'
<1>1. /\ pc[t] = "work" /\ pc' = pc /\ suspect \subseteq suspect'
      /\ UNCHANGED <<worker, cron, row, dirs, folders, status, hash, path, records>>
  BY DEF DeletePoints, IndexFile, fileVars, pipeVars
<1>2. todo' = todo
  <2>1. CASE DeletePoints(t)
    BY <2>1 DEF DeletePoints
  <2>2. CASE IndexFile(t)
    BY <2>2 DEF IndexFile, FreshOK
  <2> QED BY <2>1, <2>2
<1>3. pc[t] \in Running /\ pc'[t] = "work" /\ pc' = [pc EXCEPT ![t] = pc'[t]]
  BY <1>1 DEF Running, TInv, TaskTypes
<1>4. ASSUME NEW f \in Files \ suspect' PROVE Remaining(todo[t], f)'
  <2>1. Remaining(todo[t], f)
    BY <1>1 DEF FreshOK
  <2>2. Wanted(f)' = Wanted(f) /\ Owned(records, f)' = Owned(records, f)
    BY <1>1 DEF Wanted, Owned
  <2> QED BY <1>2, <2>1, <2>2 DEF Remaining, Brings
<1> QED BY <1>1, <1>3, <1>4, WorkFresh

\* Committing an item brings what is wanted of its file.
LEMMA CommitFresh ==
  ASSUME TInv, Unsuspected, Rows, NEW t \in Tasks, FreshOK(t), CommitRecord(t)
  PROVE  FreshOK(t)'
<1>1. PICK i : i = doing[t]
  OBVIOUS
<1>2. PICK u : u = Key(t, i)[2]
  OBVIOUS
<1>3. /\ pc[t] = "work" /\ pc' = pc /\ i.stage = "commit"
      /\ todo' = [todo EXCEPT ![t] = {k \in @ : k # Idle(i)}]
      /\ UNCHANGED <<worker, cron, row, dirs, folders, status, hash, path, suspect>>
  BY <1>1 DEF CommitRecord, Commit, fileVars, pipeVars, Idle
<1>4. /\ i \in ItemSet /\ Idle(i) \in todo[t] /\ i.file \in Files /\ i.kind \in Kinds
      /\ i.kind # "removed" => i.hash \in ContentsOf[i.file]
      /\ i.kind = "removed" => i.hash = None
  BY <1>1, <1>3, Held DEF TInv
<1>5. Idle(i).file = i.file /\ Idle(i).kind = i.kind /\ Idle(i).by = i.by
      /\ Idle(i).hash = i.hash
  BY <1>4 DEF Idle, ItemSet
<1>6. /\ records'[i.file][u] = i.hash /\ TableOK(records') /\ TableOK(records)
      /\ \A g \in Files, v \in Tasks : i.file # g \/ u # v => records'[g][v] = records[g][v]
      /\ u \in Tasks
  BY <1>1, <1>2, CommitTable DEF TInv, DbOK, DbTypes, TableOK
<1>7. u = IF i.kind = "new" THEN t ELSE i.by
  BY <1>2 DEF Key
<1>8. todo'[t] = {k \in todo[t] : k # Idle(i)}
  BY <1>3 DEF TInv, WorkTypes
<1>9. ASSUME NEW f \in Files \ suspect PROVE Remaining(todo[t], f)'
  <2>1. Remaining(todo[t], f)
    BY <1>3 DEF FreshOK
  <2>2. Wanted(f)' = Wanted(f)
    BY <1>3 DEF Wanted
  <2>3. CASE f = i.file
    <3>1. Brings(Idle(i)) = Wanted(f)
      BY <2>1, <2>3, <1>4, <1>5 DEF Remaining
    <3>2. Recorded(f) = IF i.kind = "new" THEN {} ELSE {i.by}
      <4>1. Fits(Idle(i))
        BY <2>3, <1>4, <1>5 DEF Unsuspected, Single
      <4> QED BY <4>1, <2>3, <1>5 DEF Fits
    <3>3. \A v \in Tasks : v # u => records'[f][v] = None
      BY <3>2, <2>3, <1>6, <1>7 DEF Recorded
    <3>4. Owned(records, f)' = {i.hash} \ {None}
      BY <3>3, <2>3, <1>6 DEF Owned
    <3>5. None \notin ContentsOf[f]
      BY ContentOf, SyncAssumption
    <3>6. Owned(records, f)' = Wanted(f)
      BY <3>1, <3>4, <3>5, <2>3, <1>4, <1>5 DEF Brings
    <3>7. \A k \in todo'[t] : k.file = f => Brings(k) = Wanted(f)
      BY <2>1, <1>8 DEF Remaining
    <3> QED BY <3>6, <3>7, <2>2 DEF Remaining, Brings
  <2>4. CASE f # i.file
    <3>1. Owned(records, f)' = Owned(records, f)
      BY <2>4, <1>6 DEF Owned
    <3>2. \A k : k.file = f => (k \in todo'[t] <=> k \in todo[t])
      BY <2>4, <1>5, <1>8
    <3> QED BY <3>1, <3>2, <2>1, <2>2 DEF Remaining, Brings
  <2> QED BY <2>3, <2>4
<1>10. pc[t] \in Running /\ pc'[t] = "work" /\ pc' = [pc EXCEPT ![t] = pc'[t]]
  BY <1>3 DEF Running, TInv, TaskTypes
<1> QED BY <1>3, <1>9, <1>10, WorkFresh

LEMMA LeavesFresh ==
  ASSUME TInv, Rows, NEW t \in Tasks, FreshOK(t),
         CommitRefused(t) \/ Finish(t) \/ QdrantFails(t) \/ ScraperFails(t)
  PROVE  FreshOK(t)'
<1>1. /\ UNCHANGED <<dirs, folders, status, hash, records>> /\ pc' = [pc EXCEPT ![t] = pc'[t]]
      /\ pc'[t] \in {"done", "dead"} /\ pc[t] \in Running
  BY Leaves
<1>2. /\ worker' \in {worker, None} /\ cron' \in {cron, None} /\ suspect \subseteq suspect'
      /\ row'[t] = "success" => todo[t] = {} /\ pc[t] = "work"
  BY DEF CommitRefused, Finish, QdrantFails, ScraperFails, Leave, GoTo, Rows, Running, TInv,
     TaskTypes
<1>3. \A v \in {worker', cron'} \ {t, None} : pc'[v] = "queued"
  <2>1. \A v \in {worker, cron} \ {t, None} : v \in Tasks /\ v # t
    BY DEF TInv, TaskTypes, Tasks
  <2> QED BY <2>1, <1>1, <1>2 DEF FreshOK, TInv, TaskTypes
<1>4. ASSUME row'[t] = "success", NEW f \in Files \ suspect'
      PROVE  Owned(records, f)' = Wanted(f)'
  <2>1. Remaining(todo[t], f) /\ todo[t] = {}
    BY <1>2, <1>4 DEF FreshOK
  <2> QED BY <2>1, <1>1 DEF Remaining, Owned, Wanted
<1> QED BY <1>1, <1>3, <1>4 DEF FreshOK

LEMMA NextFresh ==
  ASSUME OwnContent, IInv, [Next]_vars PROVE Fresh'
<1> SUFFICES ASSUME NEW t \in Tasks, fresh' = t PROVE FreshOK(t)'
  BY DEF Fresh
<1>0. None # t
  BY SyncAssumption
<1>1. CASE UNCHANGED vars
  <2>1. /\ UNCHANGED <<seen, todo, records, suspect, status, hash, path, dirs, folders>>
        /\ UNCHANGED <<worker, cron, pc, row, fresh>>
    BY <1>1 DEF vars, fileVars, pipeVars, taskVars, dbVars
  <2>2. FreshOK(t)
    BY <2>1 DEF IInv, Fresh
  <2>3. SyncedFiles(t)' = SyncedFiles(t)
    BY <2>1 DEF SyncedFiles
  <2>4. \A f : Wanted(f)' = Wanted(f) /\ Owned(records, f)' = Owned(records, f)
               /\ Remaining(todo[t], f)' = Remaining(todo[t], f)
    BY <2>1 DEF Wanted, Owned, Remaining, Brings
  <2> QED BY <2>1, <2>2, <2>3, <2>4 DEF FreshOK
<1>2. CASE Edit \/ WorkerDies
  BY <1>0, <1>2 DEF Edit, EditRow, UpdatePipeline, RequestUpload, RequestEdit, EditDisk,
     WorkerDies
<1>3. ASSUME NEW u \in Tasks, Dequeue(u) \/ CronStart(u) PROVE FALSE
  BY <1>0, <1>3 DEF Dequeue, CronStart, Start
<1>4. ASSUME NEW u \in Tasks, Read(u) PROVE FreshOK(t)'
  BY <1>0, <1>4, ReadFresh DEF IInv
<1>5. ASSUME fresh' = fresh PROVE fresh = t /\ FreshOK(t)
  BY <1>5 DEF IInv, Fresh
<1>6. ASSUME NEW u \in Tasks,
             \/ CheckActive(u) \/ CommitRun(u) \/ Enqueue(u) \/ ApiDies(u) \/ Tick(u)
             \/ Refuse(u)
      PROVE  FreshOK(t)'
  <2>1. fresh' = fresh
    BY <1>6 DEF CheckActive, CommitRun, Enqueue, ApiDies, Tick, Refuse
  <2> QED BY <2>1, <1>5, <1>6, ApiFresh DEF IInv
<1>7. ASSUME NEW u \in Tasks,
             \/ CompareSync(u) \/ CompareRun(u) \/ DeletePoints(u) \/ IndexFile(u)
             \/ CommitRecord(u)
             \/ CommitRefused(u) \/ Finish(u) \/ QdrantFails(u) \/ ScraperFails(u)
      PROVE  FreshOK(t)'
  <2>1. fresh' = fresh
    BY <1>7 DEF CompareSync, CompareRun, Decide, DeletePoints, IndexFile, CommitRecord, Commit,
       CommitRefused, Finish, QdrantFails, ScraperFails
  <2>2. pc[u] \in Running
    BY <1>7, GoesOn, Leaves DEF IInv
  <2>3. u = t
    BY <2>1, <2>2, <1>5, FreshAlone DEF IInv
  <2>4. ~CompareRun(u)
    BY <2>1, <2>3, <1>5 DEF CompareRun, FreshOK
  <2> QED BY <2>1, <2>3, <2>4, <1>5, <1>7, CompareFresh, PointsFresh, CommitFresh, LeavesFresh
      DEF IInv
<1>8. ASSUME NEW u \in Tasks, Crawl(u) PROVE FALSE
  <2>1. fresh' = fresh /\ pc[u] = "crawl"
    BY <1>8 DEF Crawl, GoTo
  <2>2. u = t
    BY <2>1, <1>5, FreshAlone DEF IInv, Running
  <2> QED BY <2>1, <2>2, <1>5 DEF FreshOK
<1> QED BY <1>1, <1>2, <1>3, <1>4, <1>6, <1>7, <1>8 DEF Next, FaultStep, Request, Work

-----------------------------------------------------------------------------
(* Rows. *)

LEMMA NextRows == ASSUME OwnContent, IInv, [Next]_vars PROVE Rows'
<1> USE DEF IInv, TInv, TaskTypes, Rows, Running
<1>1. CASE Edit \/ UNCHANGED vars
  BY <1>1 DEF Edit, EditRow, UpdatePipeline, RequestUpload, RequestEdit, EditDisk, vars,
     taskVars
<1>2. CASE WorkerDies
  <2>1. faults' > 0 /\ suspect \subseteq suspect'
    BY <1>2, SyncAssumption DEF WorkerDies, Fault
  <2>2. row' = row /\ \A t \in Tasks : pc'[t] \in {pc[t], "dead"}
    BY <1>2 DEF WorkerDies
  <2>3. ASSUME NEW t \in Tasks, row[t] = "success" PROVE pc'[t] = "done"
    <3>1. pc[t] = "done"
      BY <2>3
    <3>2. t \notin {worker, cron}
      BY <3>1, SyncAssumption DEF Scheduled
    <3> QED BY <1>2, <3>1, <3>2 DEF WorkerDies
  <2> QED BY <2>1, <2>2, <2>3
<1>3. ASSUME NEW t \in Tasks, CheckActive(t) \/ Enqueue(t) \/ Tick(t) PROVE Rows'
  BY <1>3 DEF CheckActive, Enqueue, Tick, GoTo
<1>4. ASSUME NEW t \in Tasks, CommitRun(t) PROVE Rows'
  BY <1>4 DEF CommitRun, GoTo
<1>5. ASSUME NEW t \in Tasks, ApiDies(t) PROVE Rows'
  <2>1. faults' > 0
    BY <1>5, SyncAssumption DEF ApiDies, Fault
  <2> QED BY <1>5, <2>1 DEF ApiDies
<1>6. ASSUME NEW t \in Tasks, Dequeue(t) \/ CronStart(t) PROVE Rows'
  BY <1>6 DEF Dequeue, CronStart, Start, GoTo
<1>7. ASSUME NEW t \in Tasks,
             \/ Crawl(t) \/ Read(t) \/ CompareSync(t) \/ CompareRun(t) \/ DeletePoints(t)
             \/ IndexFile(t) \/ CommitRecord(t)
      PROVE  Rows'
  <2>1. /\ UNCHANGED <<row, faults>> /\ pc[t] \in Running /\ pc'[t] \in Running
        /\ pc' = [pc EXCEPT ![t] = pc'[t]]
    BY <1>7, GoesOn
  <2>2. suspect \subseteq suspect'
    BY <1>7 DEF Crawl, Read, CompareSync, CompareRun, Decide, DeletePoints, IndexFile,
       CommitRecord, Commit
  <2> QED BY <2>1, <2>2
<1>8. ASSUME NEW t \in Tasks, CommitRefused(t) PROVE Rows'
  <2>1. suspect # {}
    BY <1>8, RefusedSuspect DEF CommitRefused
  <2> QED BY <1>8, <2>1 DEF CommitRefused
<1>9. ASSUME NEW t \in Tasks, Finish(t) \/ ScraperFails(t) \/ QdrantFails(t) PROVE Rows'
  <2>1. /\ pc[t] \in Running /\ pc' = [pc EXCEPT ![t] = "done"]
        /\ row' = [row EXCEPT ![t] = "success"] \/ row' = [row EXCEPT ![t] = "failed"]
        /\ suspect \subseteq suspect' /\ faults' \in {faults, faults + 1}
    BY <1>9 DEF Finish, ScraperFails, QdrantFails, GoTo, Fault
  <2> QED BY <2>1, SyncAssumption
<1>10. ASSUME NEW t \in Tasks, Refuse(t) PROVE Rows'
  BY <1>10 DEF Refuse, GoTo
<1> HIDE DEF IInv, TInv, TaskTypes, Rows, Running
<1> QED BY <1>1, <1>2, <1>3, <1>4, <1>5, <1>6, <1>7, <1>8, <1>9, <1>10
     DEF Next, FaultStep, Request, Work

-----------------------------------------------------------------------------

LEMMA InitMatched == Init => Unsuspected /\ Fresh /\ Rows
<1> SUFFICES ASSUME Init PROVE Unsuspected /\ Fresh /\ Rows
  OBVIOUS
<1>1. Unsuspected
  BY SyncAssumption, NoWorkTyped DEF Init, Unsuspected, Single, Matched, Recorded, Owned
<1>2. Fresh
  BY SyncAssumption DEF Init, Fresh
<1>3. Rows
  BY DEF Init, Rows, Running
<1> QED BY <1>1, <1>2, <1>3

THEOREM Invariant == ASSUME OwnContent PROVE Spec => []IInv
<1>1. Init => IInv
  BY InitTyped, InitMatched DEF IInv
<1>2. IInv /\ [Next]_vars => IInv'
  <2> SUFFICES ASSUME IInv, [Next]_vars PROVE IInv'
    OBVIOUS
  <2>1. TInv' /\ Unsuspected'
    BY NextTyped, NextUnsuspected DEF IInv
  <2> QED BY <2>1, NextFresh, NextRows DEF IInv
<1> QED BY <1>1, <1>2, PTL DEF Spec

\* Where nobody has a file in hand, its points are those of its record.
LEMMA Agree ==
  ASSUME IInv, NEW f \in Files \ suspect, \A t \in Tasks : pc[t] # "work"
  PROVE  Owned(points, f) = Owned(records, f)
<1>1. \A t \in Tasks : doing[t].file # f
  BY NoWorkTyped, SyncAssumption DEF IInv, TInv, Scheduled
<1> QED BY <1>1 DEF IInv, Unsuspected, Matched

\* Whenever no task is under way, Qdrant has for each file that is not suspect what
\* indexed_files says it has, in pipelines whose files differ in content.
THEOREM PointsRecorded == ASSUME OwnContent PROVE Spec => []PointsAreRecorded
<1>1. IInv => PointsAreRecorded
  <2> SUFFICES ASSUME IInv, worker = None, cron = None, NEW f \in Files \ suspect
               PROVE  Owned(points, f) = Owned(records, f)
    BY DEF PointsAreRecorded
  <2>1. \A t \in Tasks : pc[t] # "work"
    BY SyncAssumption DEF IInv, TInv, Scheduled, Running
  <2> QED BY <2>1, Agree
<1> QED BY <1>1, Invariant, PTL

\* A sync that nothing disturbed, and that succeeded, has made the index of every file that
\* is not suspect what its row says it should be.
THEOREM Reconciles == ASSUME OwnContent PROVE Spec => []SyncReconciles
<1>1. IInv => SyncReconciles
  <2> SUFFICES ASSUME IInv, NEW t \in Syncs \cup Ticks, fresh = t, row[t] = "success",
                      NEW f \in Files \ suspect
               PROVE  Owned(points, f) = Wanted(f)
    BY DEF SyncReconciles, Wanted
  <2>1. t \in Tasks
    BY DEF Tasks
  <2>2. FreshOK(t) /\ pc[t] = "done"
    BY <2>1 DEF IInv, Fresh, Rows
  <2>3. \A u \in Tasks : pc[u] # "work"
    BY <2>1, <2>2, FreshAlone DEF IInv, Running
  <2>4. Owned(points, f) = Owned(records, f)
    BY <2>3, Agree
  <2> QED BY <2>2, <2>4 DEF FreshOK
<1> QED BY <1>1, Invariant, PTL

\* No row is left active by a task that is over, but for crashes and suspect files.
THEOREM RowsMove == ASSUME OwnContent PROVE Spec => []ActiveRunsMove
<1>1. IInv => ActiveRunsMove
  BY DEF IInv, TInv, TaskTypes, Scheduled, Rows, ActiveRunsMove
<1> QED BY <1>1, Invariant, PTL
=============================================================================
