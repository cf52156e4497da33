------------------------- MODULE UploadSessionProofs -------------------------
(* Proofs about an upload session of any number of chunks, chunk requests and          *)
(* completions: AckedChunkKept, CreatedIsWhole and CreatedOnce.                         *)
EXTENDS UploadSession, FiniteSetTheorems, TLAPS

Parts      == Carried \cup {"none"}
SavePhases == {"new", "loaded", "written", "answered", "failed"}
Phases     == {"new", "open", "stitching", "stitched", "verified", "moving", "staged",
               "cleaning", "deleting", "answered", "failed"}

TypeInv ==
    /\ operation \in {"upload", "append"}
    /\ row \in BOOLEAN /\ tempDir \in BOOLEAN
    /\ received \subseteq Indices /\ acked \subseteq Indices
    /\ chunk \in [Indices -> Parts]
    /\ stitched \in Completions \cup {NoFile}
    /\ data \in [Completions -> [Indices -> Parts]]
    /\ savePhase \in [Saves -> SavePhases]
    /\ saved \in [Saves -> [index : Indices, carries : Carried, seen : SUBSET Indices]]
    /\ phase \in [Completions -> Phases]
    /\ target \in [Completions -> Completions \cup {NoFile}]
    /\ written \in [Completions -> [Indices -> Parts]]
    /\ jobs \subseteq Completions /\ matching \subseteq jobs
    /\ left \subseteq jobs /\ jobs \ matching \subseteq left
    /\ overlapped \in BOOLEAN /\ crossed \in BOOLEAN /\ crashed \in BOOLEAN

-----------------------------------------------------------------------------
(* The inductive invariant. *)

\* Chunk files go with their directory only; a chunk that is written is there.
OnDisk ==
    /\ ~tempDir => chunk = Empty
    /\ tempDir => /\ \A i \in acked : chunk[i] # "none"
                  /\ \A s \in Saves :
                         savePhase[s] = "written" => chunk[saved[s].index] # "none"
    /\ \A c \in Completions : phase[c] = "deleting" => ~tempDir

\* Chunk requests one at a time: what the request in flight loaded is what is recorded.
Recorded == ~overlapped =>
    /\ \A s, t \in Saving : s = t
    /\ row => acked \subseteq received /\ \A s \in Saving : saved[s].seen = received

\* Completions one at a time.
Alone == ~crossed => \A c, d \in Completing : c = d

\* The object of a completion exists once it has opened "stitched"; the path is no longer
\* that of an object which was staged.
Made(f) == phase[f] \notin {"new", "open"}
Owns(c) == c \in jobs \/ phase[c] = "staged"

Objects ==
    /\ stitched # NoFile => Made(stitched)
    /\ \A c \in Completions :
        /\ phase[c] = "stitching" => target[c] \in Completions
        /\ Owns(c) => /\ target[c] \in Completions /\ Made(target[c])
                      /\ target[c] # stitched
        /\ c \in jobs => phase[c] \in {"cleaning", "deleting", "answered", "failed"}

Whole == ~crossed => \A c \in Completions :
    /\ phase[c] = "stitching" => target[c] = stitched
    /\ phase[c] \in {"verified", "moving"} => stitched # NoFile /\ data[stitched] = Declared
    /\ Owns(c) => data[target[c]] = Declared

\* A second job needs a completion that began after the first job and found its chunks.
Unfinished == {"open", "stitching", "stitched", "verified", "moving", "staged"}

Once == ~crossed =>
    /\ operation = "upload" =>
        /\ \A c, d \in jobs \ left : c = d
        /\ \A c \in Completions : phase[c] \in {"moving", "staged"} => jobs \subseteq left
    /\ ~crashed =>
        /\ \A c, d \in jobs : c = d
        /\ \A c \in Completions : phase[c] \in Unfinished => jobs = {}
        /\ jobs # {} => ~tempDir \/ Completing # {}

IInv == TypeInv /\ OnDisk /\ Recorded /\ Alone /\ Objects /\ Whole /\ Once

-----------------------------------------------------------------------------
(* The type invariant. *)

LEMMA SetCell ==
  ASSUME NEW S, NEW T, NEW V, NEW f \in [S -> [T -> V]], NEW a \in S, NEW b \in T, NEW v \in V
  PROVE  [f EXCEPT ![a][b] = v] \in [S -> [T -> V]]
  OBVIOUS

LEMMA IndicesFacts == 0 \in Indices /\ Empty \in [Indices -> Parts]
  BY UploadAssumption DEF Indices, Empty, Parts

LEMMA CommitTypes == ASSUME TypeInv, NEW s \in Saves, CommitChunk(s) PROVE TypeInv'
<1>1. saved[s].index \in Indices /\ saved[s].seen \subseteq Indices
  BY DEF TypeInv
<1>2. /\ received' \subseteq Indices /\ acked' \subseteq Indices
      /\ savePhase' \in [Saves -> SavePhases]
  BY <1>1 DEF TypeInv, SavePhases, CommitChunk
<1> QED
  BY <1>2 DEF TypeInv, CommitChunk, diskVars, completeVars, jobVars

\* FindDuplicate without its count of the matches.
LEMMA Looked ==
  ASSUME NEW c \in Completions, FindDuplicate(c)
  PROVE  /\ phase[c] = "verified"
         /\ \/ (operation = "append" \/ matching = {}) /\ GoOn(c, "moving") /\ UNCHANGED diskVars
            \/ GoOn(c, "cleaning") /\ UNCHANGED diskVars
            \/ Abandon(c)
         /\ UNCHANGED <<operation, row, received, saveVars, target, written, jobVars, histories>>
  BY DEF FindDuplicate

LEMMA OpenTypes == ASSUME TypeInv, NEW c \in Completions, OpenStitched(c) PROVE TypeInv'
<1>1. stitched \in Completions \/ stitched = NoFile
  BY DEF TypeInv
<1>2. /\ stitched' \in Completions \cup {NoFile} /\ data' \in [Completions -> [Indices -> Parts]]
      /\ target' \in [Completions -> Completions \cup {NoFile}]
  BY <1>1, IndicesFacts DEF TypeInv, OpenStitched
<1>3. phase' \in [Completions -> Phases]
  BY DEF TypeInv, OpenStitched, GoOn, Phases
<1> QED
  BY <1>2, <1>3 DEF TypeInv, OpenStitched, saveVars, jobVars, histories

LEMMA StitchTypes == ASSUME TypeInv, Objects, NEW c \in Completions, StitchChunk(c) PROVE TypeInv'
<1>1. target[c] \in Completions
  BY DEF Objects, StitchChunk
<1>2. PICK i \in Indices :
        IF chunk[i] # "none"
        THEN /\ data' = [data EXCEPT ![target[c]][i] = chunk[i]]
             /\ written' = [written EXCEPT ![c][i] = chunk[i]]
             /\ UNCHANGED phase
        ELSE GoOn(c, "failed") /\ UNCHANGED <<data, written>>
  BY DEF StitchChunk
<1>3. chunk[i] \in Parts
  BY DEF TypeInv
<1>4. /\ data \in [Completions -> [Indices -> Parts]]
      /\ written \in [Completions -> [Indices -> Parts]]
  BY DEF TypeInv
<1>5. /\ data' \in [Completions -> [Indices -> Parts]]
      /\ written' \in [Completions -> [Indices -> Parts]]
  <2>1. /\ [data EXCEPT ![target[c]][i] = chunk[i]] \in [Completions -> [Indices -> Parts]]
        /\ [written EXCEPT ![c][i] = chunk[i]] \in [Completions -> [Indices -> Parts]]
    BY <1>1, <1>3, <1>4, SetCell
  <2> QED
    BY <1>2, <1>4, <2>1
<1>6. phase' \in [Completions -> Phases]
  BY <1>2 DEF TypeInv, GoOn, Phases
<1> QED
  BY <1>5, <1>6 DEF TypeInv, StitchChunk, saveVars, jobVars, histories

LEMMA StageTypes == ASSUME TypeInv, NEW c \in Completions, MoveToStaging(c) PROVE TypeInv'
<1>1. /\ target' \in [Completions -> Completions \cup {NoFile}]
      /\ stitched' \in Completions \cup {NoFile}
  BY DEF TypeInv, MoveToStaging, Abandon
<1>2. /\ chunk' \in [Indices -> Parts] /\ tempDir' \in BOOLEAN /\ data' = data
      /\ phase' \in [Completions -> Phases]
  BY IndicesFacts DEF TypeInv, MoveToStaging, Abandon, GoOn, Phases
<1> QED
  BY <1>1, <1>2 DEF TypeInv, MoveToStaging, saveVars, jobVars, histories

LEMMA TypeStep == IInv /\ Next => TypeInv'
<1> SUFFICES ASSUME IInv, Next PROVE TypeInv'
  OBVIOUS
<1> USE DEF diskVars, saveVars, completeVars, jobVars, histories
<1>1. ASSUME NEW s \in Saves, LoadForSave(s) PROVE TypeInv'
  BY <1>1 DEF IInv, TypeInv, Phases, SavePhases, Parts, Carried, Indices, Empty,
      LoadForSave
<1>2. ASSUME NEW s \in Saves, WriteChunk(s) PROVE TypeInv'
  BY <1>2 DEF IInv, TypeInv, Phases, SavePhases, Parts, Carried, Indices, Empty,
      WriteChunk
<1>3. ASSUME NEW s \in Saves, CommitChunk(s) PROVE TypeInv'
  BY <1>3, CommitTypes DEF IInv
<1>4. ASSUME NEW c \in Completions, LoadForComplete(c) PROVE TypeInv'
  BY <1>4 DEF IInv, TypeInv, Phases, SavePhases, Parts, Carried, Indices, Empty,
      LoadForComplete, GoOn
<1>5. ASSUME NEW c \in Completions, OpenStitched(c) PROVE TypeInv'
  BY <1>5, OpenTypes DEF IInv
<1>6. ASSUME NEW c \in Completions, StitchChunk(c) PROVE TypeInv'
  BY <1>6, StitchTypes DEF IInv
<1>7. ASSUME NEW c \in Completions, CheckSize(c) PROVE TypeInv'
  BY <1>7 DEF IInv, TypeInv, Phases, SavePhases, Parts, Carried, Indices, Empty,
      CheckSize, GoOn
<1>8. ASSUME NEW c \in Completions, VerifyHash(c) PROVE TypeInv'
  BY <1>8 DEF IInv, TypeInv, Phases, SavePhases, Parts, Carried, Indices, Empty,
      VerifyHash, GoOn, Abandon
<1>9. ASSUME NEW c \in Completions, FindDuplicate(c) PROVE TypeInv'
  BY <1>9, Looked DEF IInv, TypeInv, Phases, SavePhases, Parts, Carried, Indices, Empty,
      GoOn, Abandon
<1>10. ASSUME NEW c \in Completions, MoveToStaging(c) PROVE TypeInv'
  BY <1>10, StageTypes DEF IInv
<1>11. ASSUME NEW c \in Completions, CreateJob(c) PROVE TypeInv'
  BY <1>11 DEF IInv, TypeInv, Phases, SavePhases, Parts, Carried, Indices, Empty,
      CreateJob, GoOn
<1>12. ASSUME NEW c \in Completions, CompletionRaises(c) PROVE TypeInv'
  BY <1>12 DEF IInv, TypeInv, Phases, SavePhases, Parts, Carried, Indices, Empty,
      CompletionRaises, GoOn, Abandon
<1>13. ASSUME NEW c \in Completions, CleanupTemp(c) PROVE TypeInv'
  BY <1>13 DEF IInv, TypeInv, Phases, SavePhases, Parts, Carried, Indices, Empty,
      CleanupTemp, GoOn
<1>14. ASSUME NEW c \in Completions, DeleteSession(c) PROVE TypeInv'
  BY <1>14 DEF IInv, TypeInv, Phases, SavePhases, Parts, Carried, Indices, Empty,
      DeleteSession, GoOn
<1>15. CASE ApiDies
  BY <1>15 DEF IInv, TypeInv, Phases, SavePhases, Parts, Carried, Indices, Empty,
      ApiDies
<1>16. ASSUME NEW c \in Completions, FileLeaves(c) PROVE TypeInv'
  BY <1>16 DEF IInv, TypeInv, Phases, SavePhases, Parts, Carried, Indices, Empty,
      FileLeaves
<1>17. ASSUME NEW c \in Completions, FileReturns(c) PROVE TypeInv'
  BY <1>17 DEF IInv, TypeInv, Phases, SavePhases, Parts, Carried, Indices, Empty,
      FileReturns
<1> QED
  BY <1>1, <1>2, <1>3, <1>4, <1>5, <1>6, <1>7, <1>8, <1>9, <1>10, <1>11, <1>12, <1>13,
      <1>14, <1>15, <1>16, <1>17 DEF Next, SaveChunk, Complete

-----------------------------------------------------------------------------
(* The chunks. *)

LEMMA WriteKeepsChunks == ASSUME IInv, NEW s \in Saves, WriteChunk(s) PROVE OnDisk'
<1>1. CASE ~tempDir
  BY <1>1 DEF IInv, TypeInv, OnDisk, WriteChunk, histories, Empty
<1>2. CASE tempDir
  <2>1. saved[s].index \in Indices /\ saved[s].carries # "none"
    BY DEF IInv, TypeInv, Carried
  <2>2. \A i \in Indices : chunk[i] # "none" \/ i = saved[s].index => chunk'[i] # "none"
    BY <1>2, <2>1 DEF IInv, TypeInv, WriteChunk
  <2>3. \A t \in Saves : savePhase'[t] = "written" => t = s \/ savePhase[t] = "written"
    BY <1>2 DEF IInv, TypeInv, WriteChunk
  <2>4. \A t \in Saves : saved[t].index \in Indices
    BY DEF IInv, TypeInv
  <2> QED
    BY <1>2, <2>2, <2>3, <2>4 DEF IInv, TypeInv, OnDisk, WriteChunk, histories, completeVars
<1> QED
  BY <1>1, <1>2

LEMMA OnDiskStep == IInv /\ Next => OnDisk'
<1> SUFFICES ASSUME IInv, Next PROVE OnDisk'
  OBVIOUS
<1> USE DEF diskVars, saveVars, completeVars, jobVars, histories
<1>1. ASSUME NEW s \in Saves, LoadForSave(s) PROVE OnDisk'
  BY <1>1 DEF IInv, TypeInv, OnDisk, Parts, Carried, Empty, SavePhases, LoadForSave
<1>2. ASSUME NEW s \in Saves, WriteChunk(s) PROVE OnDisk'
  BY <1>2, WriteKeepsChunks
<1>3. ASSUME NEW s \in Saves, CommitChunk(s) PROVE OnDisk'
  BY <1>3 DEF IInv, TypeInv, OnDisk, Parts, Carried, Empty, SavePhases, CommitChunk
<1>4. ASSUME NEW c \in Completions, LoadForComplete(c) PROVE OnDisk'
  BY <1>4 DEF IInv, TypeInv, OnDisk, Parts, Carried, Empty, SavePhases,
      LoadForComplete, GoOn
<1>5. ASSUME NEW c \in Completions, OpenStitched(c) PROVE OnDisk'
  BY <1>5 DEF IInv, TypeInv, OnDisk, Parts, Carried, Empty, SavePhases, OpenStitched,
      GoOn
<1>6. ASSUME NEW c \in Completions, StitchChunk(c) PROVE OnDisk'
  BY <1>6 DEF IInv, TypeInv, OnDisk, Parts, Carried, Empty, SavePhases, StitchChunk,
      GoOn
<1>7. ASSUME NEW c \in Completions, CheckSize(c) PROVE OnDisk'
  BY <1>7 DEF IInv, TypeInv, OnDisk, Parts, Carried, Empty, SavePhases, CheckSize,
      GoOn
<1>8. ASSUME NEW c \in Completions, VerifyHash(c) PROVE OnDisk'
  BY <1>8 DEF IInv, TypeInv, OnDisk, Parts, Carried, Empty, SavePhases, VerifyHash,
      GoOn, Abandon
<1>9. ASSUME NEW c \in Completions, FindDuplicate(c) PROVE OnDisk'
  <2>1. /\ \/ UNCHANGED <<tempDir, chunk>>
           \/ tempDir' = FALSE /\ chunk' = Empty
        /\ UNCHANGED <<savePhase, saved, acked>>
    BY <1>9, Looked DEF Abandon
  <2>2. \A d \in Completions : phase'[d] = "deleting" => phase[d] = "deleting"
    BY <1>9, Looked DEF Abandon, GoOn, IInv, TypeInv
  <2> QED
    BY <2>1, <2>2 DEF IInv, OnDisk
<1>10. ASSUME NEW c \in Completions, MoveToStaging(c) PROVE OnDisk'
  BY <1>10 DEF IInv, TypeInv, OnDisk, Parts, Carried, Empty, SavePhases,
      MoveToStaging, GoOn, Abandon
<1>11. ASSUME NEW c \in Completions, CreateJob(c) PROVE OnDisk'
  BY <1>11 DEF IInv, TypeInv, OnDisk, Parts, Carried, Empty, SavePhases, CreateJob,
      GoOn
<1>12. ASSUME NEW c \in Completions, CompletionRaises(c) PROVE OnDisk'
  BY <1>12 DEF IInv, TypeInv, OnDisk, Parts, Carried, Empty, SavePhases,
      CompletionRaises, GoOn, Abandon
<1>13. ASSUME NEW c \in Completions, CleanupTemp(c) PROVE OnDisk'
  BY <1>13 DEF IInv, TypeInv, OnDisk, Parts, Carried, Empty, SavePhases, CleanupTemp,
      GoOn
<1>14. ASSUME NEW c \in Completions, DeleteSession(c) PROVE OnDisk'
  BY <1>14 DEF IInv, TypeInv, OnDisk, Parts, Carried, Empty, SavePhases,
      DeleteSession, GoOn
<1>15. CASE ApiDies
  BY <1>15 DEF IInv, TypeInv, OnDisk, Parts, Carried, Empty, SavePhases, ApiDies
<1>16. ASSUME NEW c \in Completions, FileLeaves(c) PROVE OnDisk'
  BY <1>16 DEF IInv, TypeInv, OnDisk, Parts, Carried, Empty, SavePhases, FileLeaves
<1>17. ASSUME NEW c \in Completions, FileReturns(c) PROVE OnDisk'
  BY <1>17 DEF IInv, TypeInv, OnDisk, Parts, Carried, Empty, SavePhases, FileReturns
<1> QED
  BY <1>1, <1>2, <1>3, <1>4, <1>5, <1>6, <1>7, <1>8, <1>9, <1>10, <1>11, <1>12, <1>13,
      <1>14, <1>15, <1>16, <1>17 DEF Next, SaveChunk, Complete

LEMMA LoadRecords == ASSUME IInv, NEW s \in Saves, LoadForSave(s) PROVE Recorded'
<1> SUFFICES ASSUME ~overlapped'
             PROVE  /\ \A r, t \in Saving' : r = t
                    /\ row' => /\ acked' \subseteq received'
                               /\ \A t \in Saving' : saved'[t].seen = received'
  BY DEF Recorded
<1>1. Saving = {} /\ ~overlapped
  BY DEF LoadForSave
<1>2. \A t \in Saves : savePhase'[t] = IF t = s THEN "loaded" ELSE savePhase[t]
  BY DEF IInv, TypeInv, LoadForSave
<1>3. Saving' = {s}
  BY <1>1, <1>2 DEF Saving
<1>4. saved'[s].seen = received
  BY DEF IInv, TypeInv, LoadForSave
<1> QED
  BY <1>1, <1>3, <1>4 DEF IInv, Recorded, LoadForSave

LEMMA CommitRecords == ASSUME IInv, NEW s \in Saves, CommitChunk(s) PROVE Recorded'
<1> SUFFICES ASSUME ~overlapped'
             PROVE  /\ \A r, t \in Saving' : r = t
                    /\ row' => /\ acked' \subseteq received'
                               /\ \A t \in Saving' : saved'[t].seen = received'
  BY DEF Recorded
<1>1. s \in Saving /\ ~overlapped
  BY DEF CommitChunk, Saving
<1>2. \A t \in Saves : t # s => savePhase'[t] = savePhase[t]
  BY DEF IInv, TypeInv, CommitChunk
<1>3. savePhase'[s] \in {"answered", "failed"}
  BY DEF IInv, TypeInv, CommitChunk
<1>4. Saving' = {}
  BY <1>1, <1>2, <1>3 DEF IInv, Recorded, Saving
<1>5. row' => acked' \subseteq received'
  BY <1>1 DEF IInv, Recorded, CommitChunk
<1> QED
  BY <1>4, <1>5

LEMMA RecordedStep == IInv /\ Next => Recorded'
<1> SUFFICES ASSUME IInv, Next PROVE Recorded'
  OBVIOUS
<1> USE DEF diskVars, saveVars, completeVars, jobVars, histories
<1>1. ASSUME NEW s \in Saves, LoadForSave(s) PROVE Recorded'
  BY <1>1, LoadRecords
<1>2. ASSUME NEW s \in Saves, WriteChunk(s) PROVE Recorded'
  BY <1>2 DEF IInv, TypeInv, Recorded, Saving, WriteChunk
<1>3. ASSUME NEW s \in Saves, CommitChunk(s) PROVE Recorded'
  BY <1>3, CommitRecords
<1>4. ASSUME NEW c \in Completions, LoadForComplete(c) PROVE Recorded'
  BY <1>4 DEF IInv, TypeInv, Recorded, Saving, LoadForComplete, GoOn
<1>5. ASSUME NEW c \in Completions, OpenStitched(c) PROVE Recorded'
  BY <1>5 DEF IInv, TypeInv, Recorded, Saving, OpenStitched, GoOn
<1>6. ASSUME NEW c \in Completions, StitchChunk(c) PROVE Recorded'
  BY <1>6 DEF IInv, TypeInv, Recorded, Saving, StitchChunk, GoOn
<1>7. ASSUME NEW c \in Completions, CheckSize(c) PROVE Recorded'
  BY <1>7 DEF IInv, TypeInv, Recorded, Saving, CheckSize, GoOn
<1>8. ASSUME NEW c \in Completions, VerifyHash(c) PROVE Recorded'
  BY <1>8 DEF IInv, TypeInv, Recorded, Saving, VerifyHash, GoOn, Abandon
<1>9. ASSUME NEW c \in Completions, FindDuplicate(c) PROVE Recorded'
  BY <1>9, Looked DEF IInv, TypeInv, Recorded, Saving, GoOn, Abandon
<1>10. ASSUME NEW c \in Completions, MoveToStaging(c) PROVE Recorded'
  BY <1>10 DEF IInv, TypeInv, Recorded, Saving, MoveToStaging, GoOn, Abandon
<1>11. ASSUME NEW c \in Completions, CreateJob(c) PROVE Recorded'
  BY <1>11 DEF IInv, TypeInv, Recorded, Saving, CreateJob, GoOn
<1>12. ASSUME NEW c \in Completions, CompletionRaises(c) PROVE Recorded'
  BY <1>12 DEF IInv, TypeInv, Recorded, Saving, CompletionRaises, GoOn, Abandon
<1>13. ASSUME NEW c \in Completions, CleanupTemp(c) PROVE Recorded'
  BY <1>13 DEF IInv, TypeInv, Recorded, Saving, CleanupTemp, GoOn
<1>14. ASSUME NEW c \in Completions, DeleteSession(c) PROVE Recorded'
  BY <1>14 DEF IInv, TypeInv, Recorded, Saving, DeleteSession, GoOn
<1>15. CASE ApiDies
  BY <1>15 DEF IInv, TypeInv, Recorded, Saving, ApiDies
<1>16. ASSUME NEW c \in Completions, FileLeaves(c) PROVE Recorded'
  BY <1>16 DEF IInv, TypeInv, Recorded, Saving, FileLeaves
<1>17. ASSUME NEW c \in Completions, FileReturns(c) PROVE Recorded'
  BY <1>17 DEF IInv, TypeInv, Recorded, Saving, FileReturns
<1> QED
  BY <1>1, <1>2, <1>3, <1>4, <1>5, <1>6, <1>7, <1>8, <1>9, <1>10, <1>11, <1>12, <1>13,
      <1>14, <1>15, <1>16, <1>17 DEF Next, SaveChunk, Complete

-----------------------------------------------------------------------------
(* The stitched file. *)

LEMMA AloneStep == IInv /\ Next => Alone'
<1> SUFFICES ASSUME IInv, Next PROVE Alone'
  OBVIOUS
<1> USE DEF diskVars, saveVars, completeVars, jobVars, histories
<1>1. ASSUME NEW s \in Saves, LoadForSave(s) PROVE Alone'
  BY <1>1 DEF IInv, TypeInv, Alone, Completing, LoadForSave
<1>2. ASSUME NEW s \in Saves, WriteChunk(s) PROVE Alone'
  BY <1>2 DEF IInv, TypeInv, Alone, Completing, WriteChunk
<1>3. ASSUME NEW s \in Saves, CommitChunk(s) PROVE Alone'
  BY <1>3 DEF IInv, TypeInv, Alone, Completing, CommitChunk
<1>4. ASSUME NEW c \in Completions, LoadForComplete(c) PROVE Alone'
  BY <1>4 DEF IInv, TypeInv, Alone, Completing, LoadForComplete, GoOn
<1>5. ASSUME NEW c \in Completions, OpenStitched(c) PROVE Alone'
  BY <1>5 DEF IInv, TypeInv, Alone, Completing, OpenStitched, GoOn
<1>6. ASSUME NEW c \in Completions, StitchChunk(c) PROVE Alone'
  BY <1>6 DEF IInv, TypeInv, Alone, Completing, StitchChunk, GoOn
<1>7. ASSUME NEW c \in Completions, CheckSize(c) PROVE Alone'
  BY <1>7 DEF IInv, TypeInv, Alone, Completing, CheckSize, GoOn
<1>8. ASSUME NEW c \in Completions, VerifyHash(c) PROVE Alone'
  BY <1>8 DEF IInv, TypeInv, Alone, Completing, VerifyHash, GoOn, Abandon
<1>9. ASSUME NEW c \in Completions, FindDuplicate(c) PROVE Alone'
  BY <1>9, Looked DEF IInv, TypeInv, Alone, Completing, GoOn, Abandon
<1>10. ASSUME NEW c \in Completions, MoveToStaging(c) PROVE Alone'
  BY <1>10 DEF IInv, TypeInv, Alone, Completing, MoveToStaging, GoOn, Abandon
<1>11. ASSUME NEW c \in Completions, CreateJob(c) PROVE Alone'
  BY <1>11 DEF IInv, TypeInv, Alone, Completing, CreateJob, GoOn
<1>12. ASSUME NEW c \in Completions, CompletionRaises(c) PROVE Alone'
  BY <1>12 DEF IInv, TypeInv, Alone, Completing, CompletionRaises, GoOn, Abandon
<1>13. ASSUME NEW c \in Completions, CleanupTemp(c) PROVE Alone'
  BY <1>13 DEF IInv, TypeInv, Alone, Completing, CleanupTemp, GoOn
<1>14. ASSUME NEW c \in Completions, DeleteSession(c) PROVE Alone'
  BY <1>14 DEF IInv, TypeInv, Alone, Completing, DeleteSession, GoOn
<1>15. CASE ApiDies
  BY <1>15 DEF IInv, TypeInv, Alone, Completing, ApiDies
<1>16. ASSUME NEW c \in Completions, FileLeaves(c) PROVE Alone'
  BY <1>16 DEF IInv, TypeInv, Alone, Completing, FileLeaves
<1>17. ASSUME NEW c \in Completions, FileReturns(c) PROVE Alone'
  BY <1>17 DEF IInv, TypeInv, Alone, Completing, FileReturns
<1> QED
  BY <1>1, <1>2, <1>3, <1>4, <1>5, <1>6, <1>7, <1>8, <1>9, <1>10, <1>11, <1>12, <1>13,
      <1>14, <1>15, <1>16, <1>17 DEF Next, SaveChunk, Complete

(* A completion that ends, or has staged its object, leaves no stitched file. *)
LEMMA RemovedPath ==
  ASSUME IInv, NEW c \in Completions, NEW to \in {"failed", "deleting"},
         c \in Completing, phase' = [phase EXCEPT ![c] = to],
         stitched' = NoFile, UNCHANGED <<target, data, jobs, crossed>>
  PROVE  Objects' /\ Whole'
<1>1. \A d \in Completions : phase'[d] = IF d = c THEN to ELSE phase[d]
  BY DEF IInv, TypeInv
<1>2. \A d \in Completions : Owns(d)' => Owns(d)
  BY <1>1 DEF Owns
<1>3. \A d \in Completions : target[d] \in Completions => target[d] # NoFile
  BY UploadAssumption
<1>4. Objects'
  BY <1>1, <1>2, <1>3 DEF IInv, Objects, Made
<1>5. ~crossed => \A d \in Completions \ {c} : phase[d] \in {"new", "answered", "failed"}
  BY DEF IInv, Alone, Completing
<1>6. Whole'
  BY <1>1, <1>2, <1>5 DEF IInv, Whole
<1> QED
  BY <1>4, <1>6

LEMMA OpenPath == ASSUME IInv, NEW c \in Completions, OpenStitched(c) PROVE Objects' /\ Whole'
<1> USE DEF saveVars, jobVars, histories
<1> DEFINE f == IF stitched = NoFile THEN c ELSE stitched
<1>0. c \in Completing /\ c \notin jobs
  BY DEF IInv, Objects, Completing, OpenStitched
<1>1. ~crossed => \A d \in Completions \ {c} : phase[d] \in {"new", "answered", "failed"}
  BY <1>0 DEF IInv, Alone, Completing
<1>2. CASE tempDir
  <2>1. /\ stitched' = f /\ data' = [data EXCEPT ![f] = Empty]
        /\ target' = [target EXCEPT ![c] = f] /\ f \in Completions
        /\ UNCHANGED <<jobs, crossed>>
    BY <1>2 DEF OpenStitched, IInv, TypeInv
  <2>2. \A d \in Completions : /\ phase'[d] = IF d = c THEN "stitching" ELSE phase[d]
                               /\ target'[d] = IF d = c THEN f ELSE target[d]
    BY <1>2, <2>1 DEF OpenStitched, GoOn, IInv, TypeInv
  <2>3. \A d \in Completions : Owns(d)' => Owns(d) /\ d # c
    BY <1>0, <2>1, <2>2 DEF Owns, OpenStitched
  <2>4. (f = c \/ Made(f)) /\ \A d \in Completions : Owns(d) => target[d] # f
    BY DEF IInv, Objects, Made, OpenStitched
  <2> HIDE DEF f
  <2>5. Objects'
    BY <1>0, <2>1, <2>2, <2>3, <2>4 DEF IInv, TypeInv, Objects, Made
  <2>6. \A d \in Completions : Owns(d)' => data'[target'[d]] = data[target[d]]
    BY <2>1, <2>2, <2>3, <2>4 DEF IInv, TypeInv, Objects
  <2>7. Whole'
    BY <1>1, <2>1, <2>2, <2>3, <2>6 DEF IInv, Whole
  <2> QED
    BY <2>5, <2>7
<1>3. CASE ~tempDir
  <2>1. /\ phase' = [phase EXCEPT ![c] = "failed"]
        /\ UNCHANGED <<stitched, data, target, jobs, crossed>>
    BY <1>3 DEF OpenStitched, GoOn
  <2>2. \A d \in Completions : phase'[d] = IF d = c THEN "failed" ELSE phase[d]
    BY <2>1 DEF IInv, TypeInv
  <2>3. \A d \in Completions : Owns(d)' => Owns(d)
    BY <2>1, <2>2 DEF Owns
  <2>4. Objects'
    BY <1>0, <2>1, <2>2, <2>3 DEF IInv, Objects, Made
  <2>5. Whole'
    BY <2>1, <2>2, <2>3 DEF IInv, Whole
  <2> QED
    BY <2>4, <2>5
<1> QED
  BY <1>2, <1>3

LEMMA StitchPath == ASSUME IInv, NEW c \in Completions, StitchChunk(c) PROVE Objects' /\ Whole'
<1> USE DEF saveVars, jobVars, histories
<1>0. c \in Completing /\ c \notin jobs /\ target[c] \in Completions
  BY DEF IInv, Objects, Completing, StitchChunk
<1>1. ~crossed => \A d \in Completions \ {c} : phase[d] \in {"new", "answered", "failed"}
  BY <1>0 DEF IInv, Alone, Completing
<1>2. /\ UNCHANGED <<stitched, target, jobs, crossed>>
      /\ \/ phase' = phase
         \/ phase' = [phase EXCEPT ![c] = "failed"]
  BY DEF StitchChunk, GoOn
<1>3. \A d \in Completions : phase'[d] = phase[d] \/ (phase'[d] = "failed" /\ d = c)
  BY <1>2 DEF IInv, TypeInv
<1>4. \A d \in Completions : Owns(d)' => Owns(d) /\ d # c
  BY <1>0, <1>2, <1>3 DEF Owns, StitchChunk
<1>5. Objects'
  BY <1>0, <1>2, <1>3, <1>4 DEF IInv, TypeInv, Objects, Made
<1>6. \A g \in Completions : g # target[c] => data'[g] = data[g]
  BY <1>0 DEF IInv, TypeInv, StitchChunk
<1>7. Whole'
  <2> SUFFICES ASSUME ~crossed, NEW d \in Completions
               PROVE  /\ phase'[d] = "stitching" => target'[d] = stitched'
                      /\ phase'[d] \in {"verified", "moving"} =>
                             stitched' # NoFile /\ data'[stitched'] = Declared
                      /\ Owns(d)' => data'[target'[d]] = Declared
    BY <1>2 DEF Whole
  <2>1. target[c] = stitched
    BY DEF IInv, Whole, StitchChunk
  <2>2. Owns(d)' => data'[target'[d]] = Declared
    BY <1>2, <1>4, <1>6, <2>1 DEF IInv, Objects, Whole
  <2>3. phase'[d] \notin {"verified", "moving"}
    BY <1>1, <1>3 DEF StitchChunk
  <2> QED
    BY <1>2, <1>3, <2>2, <2>3 DEF IInv, Whole
<1> QED
  BY <1>5, <1>7

LEMMA VerifyPath == ASSUME IInv, NEW c \in Completions, VerifyHash(c) PROVE Objects' /\ Whole'
<1> USE DEF saveVars, jobVars, histories
<1>0. c \in Completing /\ c \notin jobs
  BY DEF IInv, Objects, Completing, VerifyHash
<1>1. CASE stitched # NoFile /\ data[stitched] = Declared
  <2>1. /\ phase' = [phase EXCEPT ![c] = "verified"]
        /\ UNCHANGED <<stitched, data, target, jobs, crossed>>
    BY <1>1 DEF VerifyHash, GoOn, diskVars
  <2>2. \A d \in Completions : phase'[d] = IF d = c THEN "verified" ELSE phase[d]
    BY <2>1 DEF IInv, TypeInv
  <2>3. \A d \in Completions : Owns(d)' => Owns(d)
    BY <2>1, <2>2 DEF Owns
  <2>4. Objects'
    BY <1>0, <2>1, <2>2, <2>3 DEF IInv, Objects, Made
  <2>5. Whole'
    BY <1>1, <2>1, <2>2, <2>3 DEF IInv, Whole
  <2> QED
    BY <2>4, <2>5
<1>2. CASE ~(stitched # NoFile /\ data[stitched] = Declared)
  BY <1>0, <1>2, RemovedPath DEF VerifyHash, Abandon, GoOn
<1> QED
  BY <1>1, <1>2

LEMMA DuplicatePath == ASSUME IInv, NEW c \in Completions, FindDuplicate(c) PROVE Objects' /\ Whole'
<1> USE DEF saveVars, jobVars, histories
<1>0. c \in Completing /\ c \notin jobs
  BY DEF IInv, Objects, Completing, FindDuplicate
<1>1. ASSUME NEW to \in {"moving", "cleaning"}, GoOn(c, to), UNCHANGED diskVars
      PROVE  Objects' /\ Whole'
  <2>1. UNCHANGED <<stitched, data, target, jobs, crossed>>
    BY <1>1 DEF FindDuplicate, diskVars
  <2>2. \A d \in Completions : phase'[d] = IF d = c THEN to ELSE phase[d]
    BY <1>1 DEF IInv, TypeInv, GoOn
  <2>3. \A d \in Completions : Owns(d)' => Owns(d)
    BY <2>1, <2>2 DEF Owns
  <2>4. Objects'
    BY <1>0, <2>1, <2>2, <2>3 DEF IInv, TypeInv, Objects, Made
  <2>5. Whole'
    BY <2>1, <2>2, <2>3 DEF IInv, Whole, FindDuplicate
  <2> QED
    BY <2>4, <2>5
<1>2. CASE Abandon(c)
  BY <1>0, <1>2, RemovedPath DEF FindDuplicate, Abandon, GoOn
<1> QED
  BY <1>1, <1>2 DEF FindDuplicate

LEMMA StagePath == ASSUME IInv, NEW c \in Completions, MoveToStaging(c) PROVE Objects' /\ Whole'
<1> USE DEF saveVars, jobVars, histories
<1>0. c \in Completing /\ c \notin jobs
  BY DEF IInv, Objects, Completing, MoveToStaging
<1>1. CASE stitched # NoFile
  <2>1. /\ stitched \in Completions /\ stitched' = NoFile
        /\ target' = [target EXCEPT ![c] = stitched]
        /\ UNCHANGED <<data, jobs, crossed>>
    BY <1>1 DEF MoveToStaging, IInv, TypeInv
  <2>2. \A d \in Completions : /\ phase'[d] = IF d = c THEN "staged" ELSE phase[d]
                               /\ target'[d] = IF d = c THEN stitched ELSE target[d]
    BY <1>1, <2>1 DEF IInv, TypeInv, MoveToStaging, GoOn
  <2>3. \A d \in Completions : Owns(d)' => Owns(d) \/ d = c
    BY <2>1, <2>2 DEF Owns
  <2>4. NoFile \notin Completions
    BY UploadAssumption
  <2>5. Objects'
    BY <1>0, <1>1, <2>1, <2>2, <2>3, <2>4 DEF IInv, Objects, Made
  <2>6. ~crossed => \A d \in Completions \ {c} : phase[d] \in {"new", "answered", "failed"}
    BY <1>0 DEF IInv, Alone, Completing
  <2>7. Whole'
    BY <2>1, <2>2, <2>3, <2>6 DEF IInv, Whole, MoveToStaging
  <2> QED
    BY <2>5, <2>7
<1>2. CASE stitched = NoFile
  BY <1>0, <1>2, RemovedPath DEF MoveToStaging, Abandon, GoOn
<1> QED
  BY <1>1, <1>2

LEMMA PathStep == IInv /\ Next => (Objects /\ Whole)'
<1> SUFFICES ASSUME IInv, Next PROVE (Objects /\ Whole)'
  OBVIOUS
<1> USE DEF diskVars, saveVars, completeVars, jobVars, histories
<1>1. ASSUME NEW s \in Saves, LoadForSave(s) PROVE (Objects /\ Whole)'
  BY <1>1 DEF IInv, TypeInv, Alone, Objects, Whole, Owns, Made, Completing, Phases,
      LoadForSave
<1>2. ASSUME NEW s \in Saves, WriteChunk(s) PROVE (Objects /\ Whole)'
  BY <1>2 DEF IInv, TypeInv, Alone, Objects, Whole, Owns, Made, Completing, Phases,
      WriteChunk
<1>3. ASSUME NEW s \in Saves, CommitChunk(s) PROVE (Objects /\ Whole)'
  BY <1>3 DEF IInv, TypeInv, Alone, Objects, Whole, Owns, Made, Completing, Phases,
      CommitChunk
<1>4. ASSUME NEW c \in Completions, LoadForComplete(c) PROVE (Objects /\ Whole)'
  BY <1>4 DEF IInv, TypeInv, Alone, Objects, Whole, Owns, Made, Completing, Phases,
      LoadForComplete, GoOn
<1>5. ASSUME NEW c \in Completions, OpenStitched(c) PROVE (Objects /\ Whole)'
  BY <1>5, OpenPath
<1>6. ASSUME NEW c \in Completions, StitchChunk(c) PROVE (Objects /\ Whole)'
  BY <1>6, StitchPath
<1>7. ASSUME NEW c \in Completions, CheckSize(c) PROVE (Objects /\ Whole)'
  BY <1>7 DEF IInv, TypeInv, Alone, Objects, Whole, Owns, Made, Completing, Phases,
      CheckSize, GoOn
<1>8. ASSUME NEW c \in Completions, VerifyHash(c) PROVE (Objects /\ Whole)'
  BY <1>8, VerifyPath
<1>9. ASSUME NEW c \in Completions, FindDuplicate(c) PROVE (Objects /\ Whole)'
  BY <1>9, DuplicatePath
<1>10. ASSUME NEW c \in Completions, MoveToStaging(c) PROVE (Objects /\ Whole)'
  BY <1>10, StagePath
<1>11. ASSUME NEW c \in Completions, CreateJob(c) PROVE (Objects /\ Whole)'
  BY <1>11 DEF IInv, TypeInv, Alone, Objects, Whole, Owns, Made, Completing, Phases,
      CreateJob, GoOn
<1>12. ASSUME NEW c \in Completions, CompletionRaises(c) PROVE (Objects /\ Whole)'
  BY <1>12, RemovedPath DEF IInv, Objects, Completing, CompletionRaises, Abandon, GoOn
<1>13. ASSUME NEW c \in Completions, CleanupTemp(c) PROVE (Objects /\ Whole)'
  BY <1>13, RemovedPath DEF IInv, Objects, Completing, CleanupTemp, GoOn
<1>14. ASSUME NEW c \in Completions, DeleteSession(c) PROVE (Objects /\ Whole)'
  BY <1>14 DEF IInv, TypeInv, Alone, Objects, Whole, Owns, Made, Completing, Phases,
      DeleteSession, GoOn
<1>15. CASE ApiDies
  BY <1>15 DEF IInv, TypeInv, Alone, Objects, Whole, Owns, Made, Completing, Phases,
      ApiDies
<1>16. ASSUME NEW c \in Completions, FileLeaves(c) PROVE (Objects /\ Whole)'
  BY <1>16 DEF IInv, TypeInv, Alone, Objects, Whole, Owns, Made, Completing, Phases,
      FileLeaves
<1>17. ASSUME NEW c \in Completions, FileReturns(c) PROVE (Objects /\ Whole)'
  BY <1>17 DEF IInv, TypeInv, Alone, Objects, Whole, Owns, Made, Completing, Phases,
      FileReturns
<1> QED
  BY <1>1, <1>2, <1>3, <1>4, <1>5, <1>6, <1>7, <1>8, <1>9, <1>10, <1>11, <1>12, <1>13,
      <1>14, <1>15, <1>16, <1>17 DEF Next, SaveChunk, Complete

-----------------------------------------------------------------------------
(* The jobs. *)

(* A completion that goes on, or gives up, without a new job. *)
LEMMA MovedOnce ==
  ASSUME IInv, NEW c \in Completions, NEW to, c \in Completing,
         phase' = [phase EXCEPT ![c] = to], tempDir' => tempDir,
         UNCHANGED <<operation, jobs, left, crossed, crashed>>,
         to \in Unfinished => phase[c] \in Unfinished,
         to \in {"moving", "staged"} =>
             phase[c] = "moving" \/ operation = "append" \/ jobs \subseteq left,
         to \in {"answered", "failed"} => ~tempDir' \/ phase[c] \in Unfinished,
         to # "new"
  PROVE  Once'
<1> SUFFICES ASSUME ~crossed PROVE Once'
  BY DEF Once
<1>1. \A d \in Completions : phase'[d] = IF d = c THEN to ELSE phase[d]
  BY DEF IInv, TypeInv
<1>2. operation = "upload" =>
        /\ \A d, e \in jobs \ left : d = e
        /\ \A d \in Completions : phase'[d] \in {"moving", "staged"} => jobs \subseteq left
  <2> SUFFICES ASSUME operation = "upload", NEW d \in Completions,
                      phase'[d] \in {"moving", "staged"}
               PROVE  jobs \subseteq left
    BY DEF IInv, Once
  <2> QED
    BY <1>1 DEF IInv, Once
<1>3. ~crashed => \A d \in Completions : phase'[d] \in Unfinished => jobs = {}
  BY <1>1 DEF IInv, Once
<1>4. ~crashed /\ jobs # {} => ~tempDir' \/ Completing' # {}
  <2>1. CASE to \in {"answered", "failed"}
    BY <2>1 DEF IInv, Once
  <2>2. CASE to \notin {"answered", "failed"}
    BY <1>1, <2>2 DEF Completing
  <2> QED
    BY <2>1, <2>2
<1> QED
  BY <1>2, <1>3, <1>4 DEF IInv, Once

LEMMA LookedOnce == ASSUME IInv, NEW c \in Completions, FindDuplicate(c) PROVE Once'
<1> USE DEF jobVars, histories, diskVars
<1>1. c \in Completing /\ phase[c] = "verified"
  BY Looked DEF Completing
<1>2. /\ UNCHANGED <<operation, jobs, left, crossed, crashed>>
      /\ jobs \ matching \subseteq left
  BY Looked DEF IInv, TypeInv
<1>3. CASE (operation = "append" \/ matching = {}) /\ GoOn(c, "moving") /\ UNCHANGED diskVars
  BY <1>1, <1>2, <1>3, MovedOnce DEF GoOn, Unfinished
<1>4. CASE GoOn(c, "cleaning") /\ UNCHANGED diskVars
  BY <1>1, <1>2, <1>4, MovedOnce DEF GoOn, Unfinished
<1>5. CASE Abandon(c)
  BY <1>1, <1>2, <1>5, MovedOnce DEF GoOn, Unfinished, Abandon
<1> QED
  BY <1>3, <1>4, <1>5, Looked

LEMMA OpenOnce == ASSUME IInv, NEW c \in Completions, OpenStitched(c) PROVE Once'
<1>1. /\ c \in Completing /\ phase[c] = "open" /\ tempDir' = tempDir
      /\ UNCHANGED <<operation, jobs, left, crossed, crashed>>
  BY DEF OpenStitched, Completing, jobVars, histories
<1>2. PICK to \in {"stitching", "failed"} : phase' = [phase EXCEPT ![c] = to]
  BY DEF OpenStitched, GoOn
<1> QED
  BY <1>1, <1>2, MovedOnce DEF Unfinished

LEMMA StitchOnce == ASSUME IInv, NEW c \in Completions, StitchChunk(c) PROVE Once'
<1>1. /\ c \in Completing /\ phase[c] = "stitching" /\ tempDir' = tempDir
      /\ UNCHANGED <<operation, jobs, left, crossed, crashed>>
  BY DEF StitchChunk, Completing, jobVars, histories
<1>2. phase' = phase \/ phase' = [phase EXCEPT ![c] = "failed"]
  BY DEF StitchChunk, GoOn
<1>3. CASE phase' = phase
  BY <1>1, <1>3 DEF IInv, Once, Completing
<1>4. CASE phase' = [phase EXCEPT ![c] = "failed"]
  BY <1>1, <1>4, MovedOnce DEF Unfinished
<1> QED
  BY <1>2, <1>3, <1>4

LEMMA LoadOnce == ASSUME IInv, NEW c \in Completions, LoadForComplete(c) PROVE Once'
<1>1. ~crossed' => Completing = {} /\ ~crossed
  BY DEF LoadForComplete
<1>2. tempDir
  BY IndicesFacts DEF IInv, OnDisk, LoadForComplete, Empty
<1>3. ~crossed' /\ ~crashed => jobs = {}
  BY <1>1, <1>2 DEF IInv, Once
<1>4. \A d \in Completions : phase'[d] = IF d = c THEN "open" ELSE phase[d]
  BY DEF IInv, TypeInv, LoadForComplete, GoOn
<1>5. UNCHANGED <<operation, jobs, left, crashed, tempDir>> /\ (~crossed' => ~crossed)
  BY DEF LoadForComplete, jobVars, diskVars
<1>6. ~crossed' /\ operation = "upload" =>
        /\ \A d, e \in jobs \ left : d = e
        /\ \A d \in Completions : phase'[d] \in {"moving", "staged"} => jobs \subseteq left
  BY <1>4, <1>5 DEF IInv, Once
<1> QED
  BY <1>3, <1>4, <1>5, <1>6 DEF Once

LEMMA CreateOnce == ASSUME IInv, NEW c \in Completions, CreateJob(c) PROVE Once'
<1>1. \A d \in Completions : phase'[d] = IF d = c THEN "cleaning" ELSE phase[d]
  BY DEF IInv, TypeInv, CreateJob, GoOn
<1>2. ~crossed => \A d \in Completions \ {c} : phase[d] \in {"new", "answered", "failed"}
  BY DEF IInv, Alone, Completing, CreateJob
<1>3. c \in Completing'
  BY <1>1 DEF Completing
<1>4. /\ crossed' = crossed /\ crashed' = crashed /\ operation' = operation
      /\ jobs' = jobs \cup {c} /\ left' = left
  BY DEF CreateJob, histories
<1>5. ~crossed /\ ~crashed => jobs' = {c}
  BY <1>4 DEF IInv, Once, Unfinished, CreateJob
<1>6. ~crossed /\ operation = "upload" => jobs' \ left' \subseteq {c}
  BY <1>4 DEF IInv, Once, CreateJob
<1> QED
  BY <1>1, <1>2, <1>3, <1>4, <1>5, <1>6 DEF Once, Unfinished

LEMMA DeleteOnce == ASSUME IInv, NEW c \in Completions, DeleteSession(c) PROVE Once'
<1>1. /\ c \in Completing /\ phase[c] = "deleting" /\ tempDir' = tempDir /\ ~tempDir
      /\ phase' = [phase EXCEPT ![c] = "answered"]
      /\ UNCHANGED <<operation, jobs, left, crossed, crashed>>
  BY DEF DeleteSession, Completing, jobVars, histories, diskVars, GoOn, IInv, OnDisk
<1> QED
  BY <1>1, MovedOnce DEF Unfinished

LEMMA OnceStep == IInv /\ Next => Once'
<1> SUFFICES ASSUME IInv, Next PROVE Once'
  OBVIOUS
<1> USE DEF diskVars, saveVars, completeVars, jobVars, histories
<1>1. ASSUME NEW s \in Saves, LoadForSave(s) PROVE Once'
  BY <1>1 DEF IInv, TypeInv, OnDisk, Alone, Objects, Once, Unfinished, Owns,
      Completing, Phases, Empty, LoadForSave
<1>2. ASSUME NEW s \in Saves, WriteChunk(s) PROVE Once'
  BY <1>2 DEF IInv, TypeInv, OnDisk, Alone, Objects, Once, Unfinished, Owns,
      Completing, Phases, Empty, WriteChunk
<1>3. ASSUME NEW s \in Saves, CommitChunk(s) PROVE Once'
  BY <1>3 DEF IInv, TypeInv, OnDisk, Alone, Objects, Once, Unfinished, Owns,
      Completing, Phases, Empty, CommitChunk
<1>4. ASSUME NEW c \in Completions, LoadForComplete(c) PROVE Once'
  BY <1>4, LoadOnce
<1>5. ASSUME NEW c \in Completions, OpenStitched(c) PROVE Once'
  BY <1>5, OpenOnce
<1>6. ASSUME NEW c \in Completions, StitchChunk(c) PROVE Once'
  BY <1>6, StitchOnce
<1>7. ASSUME NEW c \in Completions, CheckSize(c) PROVE Once'
  BY <1>7 DEF IInv, TypeInv, OnDisk, Alone, Objects, Once, Unfinished, Owns,
      Completing, Phases, Empty, CheckSize, GoOn
<1>8. ASSUME NEW c \in Completions, VerifyHash(c) PROVE Once'
  BY <1>8 DEF IInv, TypeInv, OnDisk, Alone, Objects, Once, Unfinished, Owns,
      Completing, Phases, Empty, VerifyHash, GoOn, Abandon
<1>9. ASSUME NEW c \in Completions, FindDuplicate(c) PROVE Once'
  BY <1>9, LookedOnce
<1>10. ASSUME NEW c \in Completions, MoveToStaging(c) PROVE Once'
  BY <1>10 DEF IInv, TypeInv, OnDisk, Alone, Objects, Once, Unfinished, Owns,
      Completing, Phases, Empty, MoveToStaging, GoOn, Abandon
<1>11. ASSUME NEW c \in Completions, CreateJob(c) PROVE Once'
  BY <1>11, CreateOnce
<1>12. ASSUME NEW c \in Completions, CompletionRaises(c) PROVE Once'
  BY <1>12 DEF IInv, TypeInv, OnDisk, Alone, Objects, Once, Unfinished, Owns,
      Completing, Phases, Empty, CompletionRaises, GoOn, Abandon
<1>13. ASSUME NEW c \in Completions, CleanupTemp(c) PROVE Once'
  BY <1>13 DEF IInv, TypeInv, OnDisk, Alone, Objects, Once, Unfinished, Owns,
      Completing, Phases, Empty, CleanupTemp, GoOn
<1>14. ASSUME NEW c \in Completions, DeleteSession(c) PROVE Once'
  BY <1>14, DeleteOnce
<1>15. CASE ApiDies
  BY <1>15 DEF IInv, TypeInv, OnDisk, Alone, Objects, Once, Unfinished, Owns,
      Completing, Phases, Empty, ApiDies
<1>16. ASSUME NEW c \in Completions, FileLeaves(c) PROVE Once'
  BY <1>16 DEF IInv, TypeInv, OnDisk, Alone, Objects, Once, Unfinished, Owns,
      Completing, Phases, Empty, FileLeaves
<1>17. ASSUME NEW c \in Completions, FileReturns(c) PROVE Once'
  BY <1>17 DEF IInv, TypeInv, OnDisk, Alone, Objects, Once, Unfinished, Owns,
      Completing, Phases, Empty, FileReturns
<1> QED
  BY <1>1, <1>2, <1>3, <1>4, <1>5, <1>6, <1>7, <1>8, <1>9, <1>10, <1>11, <1>12, <1>13,
      <1>14, <1>15, <1>16, <1>17 DEF Next, SaveChunk, Complete

-----------------------------------------------------------------------------

LEMMA InitInv == Init => IInv
<1> SUFFICES ASSUME Init PROVE IInv
  OBVIOUS
<1> USE DEF Init
<1>1. TypeInv
  BY IndicesFacts DEF TypeInv, Carried, SavePhases, Phases
<1>2. OnDisk /\ Recorded /\ Alone
  BY DEF OnDisk, Recorded, Alone, Saving, Completing
<1>3. Objects /\ Whole /\ Once
  BY DEF Objects, Whole, Once, Owns, Made, Completing, Unfinished
<1> QED
  BY <1>1, <1>2, <1>3 DEF IInv

LEMMA StutterInv == IInv /\ UNCHANGED vars => IInv'
<1> SUFFICES ASSUME IInv, UNCHANGED vars PROVE IInv'
  OBVIOUS
<1> USE DEF vars, diskVars, saveVars, completeVars, jobVars, histories
<1>1. TypeInv' /\ OnDisk' /\ Recorded' /\ Alone'
  BY DEF IInv, TypeInv, OnDisk, Recorded, Alone, Saving, Completing
<1>2. Objects' /\ Whole' /\ Once'
  BY DEF IInv, Objects, Whole, Once, Owns, Made, Completing
<1> QED
  BY <1>1, <1>2 DEF IInv

\* However chunk requests, completions and crashes of the API interleave, the parts of
\* IInv hold in every state of a session.
THEOREM SessionInvariant == Spec => []IInv
<1>1. IInv /\ Next => IInv'
  BY TypeStep, OnDiskStep, RecordedStep, AloneStep, PathStep, OnceStep DEF IInv
<1>2. IInv /\ [Next]_vars => IInv'
  BY <1>1, StutterInv
<1> QED
  BY InitInv, <1>2, PTL DEF Spec

\* A chunk that was answered with 204 stays on disk and recorded until a completion takes
\* the session down, for any number of chunks and of requests for them.
THEOREM ChunksAreKept == Spec => []AckedChunkKept
<1>1. IInv => AckedChunkKept
  BY DEF IInv, OnDisk, Recorded, AckedChunkKept
<1> QED
  BY <1>1, SessionInvariant, PTL

\* What a job is created for is the declared content, whole, for any number of completions
\* of a session that are answered one at a time.
THEOREM JobsAreWhole == Spec => []CreatedIsWhole
<1>1. IInv => CreatedIsWhole
  BY DEF IInv, TypeInv, Whole, Owns, CreatedIsWhole
<1> QED
  BY <1>1, SessionInvariant, PTL

\* However often completion is asked for again, one at a time, a session creates one job at
\* most unless the process crashed; and an upload, crash or not, one at most whose file
\* find_duplicate_in_directory found ever since.
THEOREM OneJob == Spec => []CreatedOnce
<1>1. ASSUME NEW S, \A c, d \in S : c = d PROVE Cardinality(S) <= 1
  <2>1. CASE S = {}
    BY <2>1, FS_EmptySet
  <2>2. ASSUME NEW c \in S PROVE Cardinality(S) <= 1
    <3>1. S = {c}
      BY <1>1, <2>2
    <3>2. Cardinality({c}) = 1
      BY FS_Singleton
    <3> QED
      BY <3>1, <3>2
  <2> QED
    BY <2>1, <2>2
<1>2. IInv => CreatedOnce
  <2>1. (\A c, d \in jobs : c = d) => Cardinality(jobs) <= 1
    BY <1>1
  <2>2. (\A c, d \in jobs \ left : c = d) => Cardinality(jobs \ left) <= 1
    BY <1>1
  <2> QED
    BY <2>1, <2>2 DEF IInv, Once, CreatedOnce
<1> QED
  BY <1>2, SessionInvariant, PTL

=============================================================================
