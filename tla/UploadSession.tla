---------------------------- MODULE UploadSession ----------------------------
(***************************************************************************)
(* One chunked upload session of the ingestion backend, from its init to   *)
(* the job it creates.  The session is a row (received_chunks) and a       *)
(* directory of chunk files.  Every chunk is a request, and so is the      *)
(* completion; each loads the row into a session of its own, goes through  *)
(* awaits for the disk, and commits.  Clients send chunks again, and ask   *)
(* for completion again after an error or a lost answer.                   *)
(*                                                                         *)
(* A request that is refused changes nothing, and is not a step.  What a   *)
(* chunk request carries is the declared data, something shorter, or       *)
(* something else of the same length.  The file "stitched" is an object of *)
(* its own, named after the completion that made it, because a completion  *)
(* that runs next to it may open, move or unlink the path meanwhile.       *)
(***************************************************************************)
EXTENDS Naturals, FiniteSets

CONSTANTS
    TotalChunks,    \* total_chunks of the session
    Saves,          \* bound: PUT .../chunks/{chunk_index}
    Completions,    \* bound: POST .../complete
    NoFile          \* no object

ASSUME UploadAssumption == TotalChunks \in Nat \ {0} /\ NoFile \notin Completions

VARIABLES
    operation,      \* ChunkUpload.operation
    row,            \* the session's row exists
    received,       \* received_chunks
    tempDir,        \* the directory of the chunk files exists
    chunk,          \* the chunk files
    stitched,       \* the object under the path "stitched"
    data,           \* what is in each object
    savePhase,      \* where each chunk request is
    saved,          \* its chunk_index, what it carries, and the received_chunks it loaded
    phase,          \* where each completion is
    target,         \* the object it stitches into, then the one it staged
    written,        \* what it has written so far
    jobs,           \* the completions that committed a file or append job
    matching,       \* those whose file find_duplicate_in_directory finds
    left,           \* history: those whose file it did not find at some time
    acked,          \* history: chunks whose request was answered with 204
    overlapped,     \* history: two chunk requests were in flight together
    crossed,        \* history: two completions were in flight together
    crashed         \* history: the API died

saveVars     == <<savePhase, saved>>
completeVars == <<phase, target, written>>
diskVars     == <<tempDir, chunk, stitched, data>>
jobVars      == <<jobs, matching, left>>
histories    == <<acked, overlapped, crossed, crashed>>
vars == <<operation, row, received, diskVars, saveVars, completeVars, jobVars,
          histories>>

Indices == 0 .. TotalChunks - 1
Carried == {"declared", "short", "other"}
Empty   == [i \in Indices |-> "none"]
Declared == [i \in Indices |-> "declared"]

Saving     == {s \in Saves : savePhase[s] \in {"loaded", "written"}}
Completing == {c \in Completions : phase[c] \notin {"new", "answered", "failed"}}

\* init_chunk_upload of an upload, or of an append through its own route.
Init ==
    /\ operation \in {"upload", "append"}
    /\ row = TRUE /\ received = {}
    /\ tempDir = TRUE /\ chunk = Empty
    /\ stitched = NoFile /\ data = [c \in Completions |-> Empty]
    /\ savePhase = [s \in Saves |-> "new"]
    /\ saved = [s \in Saves |-> [index |-> 0, carries |-> "declared", seen |-> {}]]
    /\ phase = [c \in Completions |-> "new"]
    /\ target = [c \in Completions |-> NoFile]
    /\ written = [c \in Completions |-> Empty]
    /\ jobs = {} /\ matching = {} /\ left = {} /\ acked = {}
    /\ overlapped = FALSE /\ crossed = FALSE /\ crashed = FALSE

-----------------------------------------------------------------------------
(* save_chunk *)

LoadForSave(s) ==
    /\ savePhase[s] = "new" /\ row
    /\ \E i \in Indices, d \in Carried :
           saved' = [saved EXCEPT ![s] = [index |-> i, carries |-> d, seen |-> received]]
    /\ savePhase' = [savePhase EXCEPT ![s] = "loaded"]
    /\ overlapped' = (overlapped \/ Saving # {})
    /\ UNCHANGED <<operation, row, received, diskVars, completeVars, jobVars, acked, crossed,
                   crashed>>

\* Without the directory the write raises.
WriteChunk(s) ==
    /\ savePhase[s] = "loaded"
    /\ IF tempDir
       THEN /\ chunk' = [chunk EXCEPT ![saved[s].index] = saved[s].carries]
            /\ savePhase' = [savePhase EXCEPT ![s] = "written"]
       ELSE /\ savePhase' = [savePhase EXCEPT ![s] = "failed"]
            /\ UNCHANGED chunk
    /\ UNCHANGED <<operation, row, received, tempDir, stitched, data, saved, completeVars,
                   jobVars, histories>>

\* Mutant: the list of the last request replaces what was received before.
MutantCommitChunk(s) ==
    /\ savePhase[s] = "written" /\ row
    /\ received' = {saved[s].index}
    /\ savePhase' = [savePhase EXCEPT ![s] = "answered"]
    /\ acked' = acked \cup {saved[s].index}
    /\ UNCHANGED <<operation, row, diskVars, saved, completeVars, jobVars, overlapped, crossed,
                   crashed>>

\* received_chunks is computed from the row as it was loaded; an unchanged list is no
\* UPDATE, and a row that is gone makes the flush or the refresh raise.
CommitChunk(s) ==
    /\ savePhase[s] = "written"
    /\ IF row
       THEN LET all == saved[s].seen \cup {saved[s].index}
            IN  /\ received' = IF all = saved[s].seen THEN received ELSE all
                /\ savePhase' = [savePhase EXCEPT ![s] = "answered"]
                /\ acked' = acked \cup {saved[s].index}
       ELSE /\ savePhase' = [savePhase EXCEPT ![s] = "failed"]
            /\ UNCHANGED <<received, acked>>
    /\ UNCHANGED <<operation, row, diskVars, saved, completeVars, jobVars, overlapped, crossed,
                   crashed>>

-----------------------------------------------------------------------------
(* stitch_chunks: an error here leaves the session as it is. *)

GoOn(c, to) == phase' = [phase EXCEPT ![c] = to]

\* INCOMPLETE_UPLOAD and MISSING_CHUNK_FILE are refusals.
LoadForComplete(c) ==
    /\ phase[c] = "new"
    /\ row /\ received = Indices
    /\ \A i \in Indices : chunk[i] # "none"
    /\ GoOn(c, "open")
    /\ crossed' = (crossed \/ Completing # {})
    /\ UNCHANGED <<operation, row, received, diskVars, saveVars, target, written, jobVars,
                   acked, overlapped, crashed>>

\* dest.open("wb"): a file that is there is truncated, whoever has it open.
OpenStitched(c) ==
    /\ phase[c] = "open"
    /\ IF tempDir
       THEN LET f == IF stitched = NoFile THEN c ELSE stitched
            IN  /\ stitched' = f /\ data' = [data EXCEPT ![f] = Empty]
                /\ target' = [target EXCEPT ![c] = f]
                /\ GoOn(c, "stitching")
       ELSE GoOn(c, "failed") /\ UNCHANGED <<stitched, data, target>>
    /\ UNCHANGED <<operation, row, received, tempDir, chunk, saveVars, written, jobVars,
                   histories>>

\* The next chunk, in order; the file may have been removed.
StitchChunk(c) ==
    /\ phase[c] = "stitching"
    /\ \E i \in Indices :
        /\ \A j \in Indices : written[c][j] = "none" <=> j >= i
        /\ IF chunk[i] # "none"
           THEN /\ data' = [data EXCEPT ![target[c]][i] = chunk[i]]
                /\ written' = [written EXCEPT ![c][i] = chunk[i]]
                /\ UNCHANGED phase
           ELSE GoOn(c, "failed") /\ UNCHANGED <<data, written>>
    /\ UNCHANGED <<operation, row, received, tempDir, chunk, stitched, saveVars, target,
                   jobVars, histories>>

\* SIZE_MISMATCH, or go on.
CheckSize(c) ==
    /\ phase[c] = "stitching"
    /\ \A i \in Indices : written[c][i] # "none"
    /\ GoOn(c, IF \E i \in Indices : written[c][i] = "short" THEN "failed" ELSE "stitched")
    /\ UNCHANGED <<operation, row, received, diskVars, saveVars, target, written, jobVars,
                   histories>>

-----------------------------------------------------------------------------
(* complete_chunk_upload after stitching *)

\* Mutant: the error is passed on and the chunks are left for another attempt.
MutantAbandon(c) == GoOn(c, "failed") /\ UNCHANGED diskVars

\* except Exception: the stitched file and the chunks are removed, the row stays.
Abandon(c) ==
    /\ GoOn(c, "failed")
    /\ tempDir' = FALSE /\ chunk' = Empty /\ stitched' = NoFile
    /\ UNCHANGED data

\* Mutant: the hash that the client sent is recorded without being compared.
MutantVerifyHash(c) ==
    /\ phase[c] = "stitched" /\ stitched # NoFile
    /\ GoOn(c, "verified")
    /\ UNCHANGED <<operation, row, received, diskVars, saveVars, target, written, jobVars,
                   histories>>

\* verify_stitched_hash reads what the path holds now.
VerifyHash(c) ==
    /\ phase[c] = "stitched"
    /\ IF stitched # NoFile /\ data[stitched] = Declared
       THEN GoOn(c, "verified") /\ UNCHANGED diskVars
       ELSE Abandon(c)
    /\ UNCHANGED <<operation, row, received, saveVars, target, written, jobVars, histories>>

\* find_duplicate_in_directory: a PROCESSING or SYNCED file of the directory with the hash,
\* of this session or of another.  One match gets a row without a job, two raise; an append
\* does not look.
FindDuplicate(c) ==
    /\ phase[c] = "verified"
    /\ \/ /\ operation = "append" \/ matching = {}
          /\ GoOn(c, "moving") /\ UNCHANGED diskVars
       \/ /\ operation = "upload" /\ Cardinality(matching) <= 1
          /\ GoOn(c, "cleaning") /\ UNCHANGED diskVars
       \/ operation = "upload" /\ Abandon(c)
    /\ UNCHANGED <<operation, row, received, saveVars, target, written, jobVars, histories>>

\* finalize_to_staging
MoveToStaging(c) ==
    /\ phase[c] = "moving"
    /\ IF stitched # NoFile
       THEN /\ target' = [target EXCEPT ![c] = stitched]
            /\ stitched' = NoFile
            /\ GoOn(c, "staged")
            /\ UNCHANGED <<tempDir, chunk, data>>
       ELSE Abandon(c) /\ UNCHANGED target
    /\ UNCHANGED <<operation, row, received, saveVars, written, jobVars, histories>>

\* create_upload_job and create_append_file_job commit in the middle of the handler.
CreateJob(c) ==
    /\ phase[c] = "staged"
    /\ jobs' = jobs \cup {c} /\ matching' = matching \cup {c}
    /\ GoOn(c, "cleaning")
    /\ UNCHANGED <<operation, row, received, diskVars, saveVars, target, written, left,
                   histories>>

\* The content is refused, the append's target is gone, Redis or the disk raises.
CompletionRaises(c) ==
    /\ phase[c] \in {"stitched", "verified", "moving", "staged", "cleaning"}
    /\ Abandon(c)
    /\ UNCHANGED <<operation, row, received, saveVars, target, written, jobVars, histories>>

CleanupTemp(c) ==
    /\ phase[c] = "cleaning"
    /\ tempDir' = FALSE /\ chunk' = Empty /\ stitched' = NoFile
    /\ GoOn(c, "deleting")
    /\ UNCHANGED <<operation, row, received, data, saveVars, target, written, jobVars,
                   histories>>

\* db.delete(upload) and db.commit(); a row that is gone already is no error.
DeleteSession(c) ==
    /\ phase[c] = "deleting"
    /\ row' = FALSE /\ received' = {}
    /\ GoOn(c, "answered")
    /\ UNCHANGED <<operation, diskVars, saveVars, target, written, jobVars, histories>>

\* What later jobs do to an uploaded file: one that fails leaves it FAILED, a delete makes
\* it DELETED, an append changes its hash.
FileLeaves(c) ==
    /\ operation = "upload" /\ c \in matching
    /\ matching' = matching \ {c} /\ left' = left \cup {c}
    /\ UNCHANGED <<operation, row, received, diskVars, saveVars, completeVars, jobs,
                   histories>>

\* A request to rename or append to a FAILED file makes it PROCESSING again.
FileReturns(c) ==
    /\ operation = "upload" /\ c \in jobs \ matching
    /\ matching' = matching \cup {c}
    /\ UNCHANGED <<operation, row, received, diskVars, saveVars, completeVars, jobs, left,
                   histories>>

\* Every request in flight is gone; what was committed and written stays.
ApiDies ==
    /\ ~crashed /\ crashed' = TRUE
    /\ Saving # {} \/ Completing # {}
    /\ savePhase' = [s \in Saves |-> IF s \in Saving THEN "failed" ELSE savePhase[s]]
    /\ phase' = [c \in Completions |-> IF c \in Completing THEN "failed" ELSE phase[c]]
    /\ UNCHANGED <<operation, row, received, diskVars, saved, target, written, jobVars, acked,
                   overlapped, crossed>>

-----------------------------------------------------------------------------

SaveChunk(s) == LoadForSave(s) \/ WriteChunk(s) \/ CommitChunk(s)

Complete(c) ==
    \/ LoadForComplete(c) \/ OpenStitched(c) \/ StitchChunk(c) \/ CheckSize(c)
    \/ VerifyHash(c) \/ FindDuplicate(c) \/ MoveToStaging(c) \/ CreateJob(c)
    \/ CompletionRaises(c) \/ CleanupTemp(c) \/ DeleteSession(c)

Next ==
    \/ \E s \in Saves : SaveChunk(s)
    \/ \E c \in Completions : Complete(c) \/ FileLeaves(c) \/ FileReturns(c)
    \/ ApiDies

Spec == Init /\ [][Next]_vars

-----------------------------------------------------------------------------
(* Properties. *)

\* What a job was created for is the declared content, whole and in order, although
\* chunks are sent again, or with other data, while the session is completed.  The
\* completions of a session are answered one at a time (crossed): the stitched file is
\* shared by two that are not.
CreatedIsWhole == ~crossed => \A c \in jobs : data[target[c]] = Declared

\* Asking again after an error creates no second file, and appends nothing twice; the
\* commit in the middle of the handler is covered by the clean-up of its except clause.
\* A crash is not.  After one an append has no protection, and an upload that of the
\* duplicate check: no second file as long as the first is PROCESSING or SYNCED with the
\* declared content.  Once that file FAILED, was deleted or appended to, there can be two.
CreatedOnce == ~crossed =>
    /\ ~crashed => Cardinality(jobs) <= 1
    /\ operation = "upload" => Cardinality(jobs \ left) <= 1

\* As long as a completion has not begun to take the session down, a chunk that was
\* answered with 204 is on disk, and recorded unless chunk requests overlapped: a client
\* that sends its chunks one after the other is not told INCOMPLETE_UPLOAD.
AckedChunkKept ==
    row /\ tempDir =>
        \A i \in acked : chunk[i] # "none" /\ (overlapped \/ i \in received)

=============================================================================
