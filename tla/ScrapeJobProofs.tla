--------------------------- MODULE ScrapeJobProofs ---------------------------
(***************************************************************************)
(* Theorems about ScrapeJob for any number of pages, workers, retries and  *)
(* faults.                                                                 *)
(***************************************************************************)
EXTENDS ScrapeJob, FiniteSetTheorems, TLAPS

\* Sets of pages are finite, and have a cardinality.
LEMMA PagesFinite ==
    ASSUME NEW S \in SUBSET Pages
    PROVE  /\ IsFiniteSet(S)
           /\ Cardinality(S) \in Nat
  <1>1. IsFiniteSet(Pages)
    BY FS_Interval, ConstantsAssumption DEF Pages
  <1>2. QED
    BY <1>1, FS_Subset, FS_CardinalityType

-----------------------------------------------------------------------------
(* Type correctness. *)

LEMMA TypeOrch == TypeOK /\ OrchStep => TypeOK'
  <1> SUFFICES ASSUME TypeOK, OrchStep PROVE TypeOK'
    OBVIOUS
  <1> USE ConstantsAssumption DEF TypeOK, redisVars, rowVars, orchVars, pageVars, finVars
  <1>0. links' = links
    BY DEF OrchStep
  <1>1. CASE OrchStart
    BY <1>0, <1>1 DEF OrchStart, TakeWorker, OrchStates
  <1>2. CASE OrchInit
    BY <1>0, <1>2 DEF OrchInit, OrchStates
  <1>3. CASE OrchEnqueue
    BY <1>0, <1>3 DEF OrchEnqueue, PageStates, Pages
  <1>4. CASE OrchZero
    BY <1>0, <1>4 DEF OrchZero, OrchStates, FinStates
  <1>5. CASE OrchReturn
    BY <1>0, <1>5 DEF OrchReturn, FreeWorker, OrchStates
  <1>6. QED
    BY <1>1, <1>2, <1>3, <1>4, <1>5 DEF OrchStep

LEMMA TypePage == TypeOK /\ (\E p \in Pages : PageStep(p)) => TypeOK'
  <1> SUFFICES ASSUME TypeOK, NEW p \in Pages, PageStep(p) PROVE TypeOK'
    OBVIOUS
  <1> USE ConstantsAssumption DEF TypeOK, redisVars, rowVars, orchVars, pageVars, finVars
  <1>0. links' = links
    BY DEF PageStep
  <1>1. CASE TakePage(p)
    BY <1>0, <1>1 DEF TakePage, TakeWorker, PageStates
  <1>2. CASE Upsert(p)
    BY <1>0, <1>2 DEF Upsert, PageStates
  <1>3. CASE SaveOk(p)
    BY <1>0, <1>3 DEF SaveOk, StoreResult, PageStates
  <1>4. CASE Retry(p)
    BY <1>0, <1>4 DEF Retry, FreeWorker, PageStates
  <1>5. CASE SaveFailed(p)
    BY <1>0, <1>5 DEF SaveFailed, StoreResult, PageStates
  <1>6. CASE IncrCompleted(p)
    BY <1>0, <1>6 DEF IncrCompleted, PageStates
  <1>7. CASE ReadTotal(p)
    BY <1>0, <1>7 DEF ReadTotal, FreeWorker, PageStates
  <1>8. CASE TrySchedule(p)
    <2>1. scheduled' \in BOOLEAN
      BY <1>8 DEF TrySchedule
    <2>2. pc' \in [Pages -> PageStates] /\ idle' \in Nat
      BY <1>8 DEF TrySchedule, FreeWorker, PageStates
    <2>3. QED
      BY <1>0, <1>8, <2>1, <2>2, Zenon DEF TrySchedule
  <1>9. CASE EnqueueFinalize(p)
    BY <1>0, <1>9 DEF EnqueueFinalize, FreeWorker, PageStates, FinStates, Finalizers, Pages
  <1>10. QED
    BY <1>1, <1>2, <1>3, <1>4, <1>5, <1>6, <1>7, <1>8, <1>9 DEF PageStep

LEMMA TypeFinalize == TypeOK /\ (\E f \in Finalizers : FinalizeStep(f)) => TypeOK'
  <1> SUFFICES ASSUME TypeOK, NEW f \in Finalizers, FinalizeStep(f) PROVE TypeOK'
    OBVIOUS
  <1> USE ConstantsAssumption DEF TypeOK, redisVars, rowVars, orchVars, pageVars, finVars
  <1>0. links' = links
    BY DEF FinalizeStep
  <1>1. CASE TakeFinalize(f)
    BY <1>0, <1>1 DEF TakeFinalize, TakeWorker, FinStates
  <1>2. CASE LoadResults(f)
    BY <1>0, <1>2 DEF LoadResults, FinStates
  <1>3. CASE Persisted(f)
    BY <1>0, <1>3 DEF Persisted, FinStates
  <1>4. ASSUME NEW p \in Pages, PersistPage(f, p) PROVE TypeOK'
    BY <1>0, <1>4 DEF PersistPage
  <1>5. CASE DeleteTotal(f)
    BY <1>0, <1>5 DEF DeleteTotal, CleanupStep, FinStates
  <1>6. CASE DeleteCompleted(f)
    BY <1>0, <1>6 DEF DeleteCompleted, CleanupStep, FinStates
  <1>7. CASE DeleteScheduled(f)
    BY <1>0, <1>7 DEF DeleteScheduled, CleanupStep, FinStates
  <1>8. CASE DeleteResults(f)
    BY <1>0, <1>8 DEF DeleteResults, CleanupStep, FinStates
  <1>9. CASE CompleteScrape(f)
    <2>1. Cardinality(loaded[f]) \in Nat
      BY PagesFinite
    <2>2. QED
      BY <1>0, <1>9, <2>1 DEF CompleteScrape, FreeWorker, FinStates
  <1>10. QED
    BY <1>1, <1>2, <1>3, <1>4, <1>5, <1>6, <1>7, <1>8, <1>9 DEF FinalizeStep

LEMMA TypeFault == TypeOK /\ FaultStep => TypeOK'
  <1> SUFFICES ASSUME TypeOK, FaultStep PROVE TypeOK'
    OBVIOUS
  <1> USE ConstantsAssumption
      DEF TypeOK, redisVars, rowVars, orchVars, pageVars, finVars, Fault, FreeWorker
  <1>0. links' = links
    BY DEF FaultStep
  <1>1. CASE OrchFail
    BY <1>0, <1>1 DEF OrchFail, OrchStates
  <1>2. CASE OrchKilled
    BY <1>0, <1>2 DEF OrchKilled, OrchStates
  <1>3. ASSUME NEW p \in Pages, PageKilled(p) PROVE TypeOK'
    BY <1>0, <1>3 DEF PageKilled, PageStates
  <1>4. ASSUME NEW f \in Finalizers, FinalizeFail(f) PROVE TypeOK'
    BY <1>0, <1>4 DEF FinalizeFail, FinStates
  <1>5. ASSUME NEW f \in Finalizers, FinalizeKilled(f) PROVE TypeOK'
    BY <1>0, <1>5 DEF FinalizeKilled, FinStates
  <1>6. QED
    BY <1>1, <1>2, <1>3, <1>4, <1>5 DEF FaultStep

\* Every variable keeps its type: no page is ever attempted more than MaxRetries + 1
\* times, and the job's counters stay natural numbers.
THEOREM TypeCorrect == Spec => []TypeOK
  <1>1. Init => TypeOK
    <2> SUFFICES ASSUME Init PROVE TypeOK
      OBVIOUS
    <2> USE ConstantsAssumption DEF Init
    <2>1. scheduled \in BOOLEAN
      OBVIOUS
    <2>2. /\ pc \in [Pages -> PageStates]
          /\ attempt \in [Pages -> 0 .. MaxRetries]
          /\ local \in [Pages -> Nat]
          /\ outcome \in [Pages -> {"open", "ok", "failed"}]
      BY DEF PageStates
    <2>3. /\ fin \in [Finalizers -> FinStates]
          /\ loaded \in [Finalizers -> SUBSET Pages]
      BY DEF FinStates
    <2>4. /\ orch \in OrchStates /\ next \in 0 .. MaxPages /\ idle \in Nat
          /\ faults \in 0 .. MaxFaults /\ links \in 0 .. MaxPages
          /\ total \in 0 .. MaxPages /\ completed \in Nat /\ pagesScraped \in Nat
      BY DEF OrchStates
    <2>5. QED
      BY <2>1, <2>2, <2>3, <2>4 DEF TypeOK
  <1>2. TypeOK /\ [Next]_vars => TypeOK'
    <2>1. TypeOK /\ UNCHANGED vars => TypeOK'
      BY DEF TypeOK, vars, redisVars, rowVars, orchVars, pageVars, finVars
    <2>2. QED
      BY <2>1, TypeOrch, TypePage, TypeFinalize, TypeFault DEF Next
  <1>3. QED
    BY <1>1, <1>2, PTL DEF Spec

-----------------------------------------------------------------------------
(* The inductive invariant, one part after the other. *)

\* What every step leaves alone or lets grow.
LEMMA Frame ==
    ASSUME TypeOK, PageInv, Next
    PROVE  /\ links' = links
           /\ counted \subseteq counted'
           /\ AllCounted => AllCounted'
  <1> USE DEF redisVars, rowVars, orchVars, pageVars, finVars
  <1>1. links' = links
    BY DEF Next, OrchStep, PageStep, FinalizeStep, FaultStep
  <1>2. counted \subseteq counted'
    <2>1. CASE OrchStep
      BY <2>1 DEF OrchStep, OrchStart, OrchInit, OrchEnqueue, OrchZero, OrchReturn
    <2>2. ASSUME NEW p \in Pages, PageStep(p) PROVE counted \subseteq counted'
      BY <2>2 DEF PageStep, TakePage, Upsert, SaveOk, Retry, SaveFailed, IncrCompleted,
                  ReadTotal, TrySchedule, EnqueueFinalize
    <2>3. ASSUME NEW f \in Finalizers, FinalizeStep(f) PROVE counted \subseteq counted'
      BY <2>3 DEF FinalizeStep, TakeFinalize, LoadResults, PersistPage, Persisted,
                  DeleteTotal, DeleteCompleted, DeleteScheduled, DeleteResults,
                  CleanupStep, CompleteScrape
    <2>4. CASE FaultStep
      BY <2>4 DEF FaultStep, OrchFail, OrchKilled, PageKilled, FinalizeFail, FinalizeKilled
    <2>5. QED
      BY <2>1, <2>2, <2>3, <2>4 DEF Next
  <1>3. QED
    BY <1>1, <1>2 DEF AllCounted, LinkedPages

\* The steps that are not a page's leave the pages alone, except the fan-out, which
\* creates the next page task, and a page's death.
LEMMA PagesOnlyByPages ==
    ASSUME Next,
           ~ (\E p \in Pages : PageStep(p) \/ PageKilled(p)),
           ~ OrchEnqueue
    PROVE  UNCHANGED pageVars
  <1> USE DEF redisVars, rowVars, orchVars, pageVars, finVars
  <1>1. CASE OrchStep
    BY <1>1 DEF OrchStep, OrchStart, OrchInit, OrchZero, OrchReturn
  <1>2. ASSUME NEW f \in Finalizers, FinalizeStep(f) PROVE UNCHANGED pageVars
    BY <1>2 DEF FinalizeStep, TakeFinalize, LoadResults, PersistPage, Persisted,
                DeleteTotal, DeleteCompleted, DeleteScheduled, DeleteResults,
                CleanupStep, CompleteScrape
  <1>3. CASE FaultStep
    BY <1>3 DEF FaultStep, OrchFail, OrchKilled, FinalizeFail, FinalizeKilled
  <1>4. QED
    BY <1>1, <1>2, <1>3 DEF Next

LEMMA PageInvStep ==
    ASSUME TypeOK, PageInv, FanOutInv, Next
    PROVE  PageInv'
  <1>0. links' = links
    BY Frame
  <1>1. CASE OrchEnqueue
    <2>1. next \in Pages /\ next < links /\ pc[next] = "absent"
      BY <1>1, ConstantsAssumption DEF OrchEnqueue, FanOutInv, TypeOK, Pages
    <2>2. pc' = [pc EXCEPT ![next] = "queued"] /\ outcome' = outcome /\ counted' = counted
      BY <1>1 DEF OrchEnqueue
    <2>3. QED
      BY <1>0, <2>1, <2>2 DEF PageInv, TypeOK
  <1>2. ASSUME NEW p \in Pages, PageStep(p) PROVE PageInv'
    <2> USE <1>0 DEF PageInv, TypeOK
    <2>1. CASE TakePage(p)
      BY <2>1 DEF TakePage
    <2>2. CASE Upsert(p)
      BY <2>2 DEF Upsert
    <2>3. CASE SaveOk(p)
      BY <2>3 DEF SaveOk, StoreResult
    <2>4. CASE Retry(p)
      BY <2>4 DEF Retry
    <2>5. CASE SaveFailed(p)
      BY <2>5 DEF SaveFailed, StoreResult
    <2>6. CASE IncrCompleted(p)
      BY <2>6 DEF IncrCompleted
    <2>7. CASE ReadTotal(p)
      BY <2>7 DEF ReadTotal
    <2>8. CASE TrySchedule(p)
      <3>1. pc' \in {[pc EXCEPT ![p] = "scheduling"], [pc EXCEPT ![p] = "done"]}
        BY <2>8 DEF TrySchedule
      <3>2. outcome' = outcome /\ counted' = counted /\ pc[p] = "elected"
        BY <2>8 DEF TrySchedule
      <3>3. QED
        BY <3>1, <3>2
    <2>9. CASE EnqueueFinalize(p)
      BY <2>9 DEF EnqueueFinalize
    <2>10. QED
      BY <1>2, <2>1, <2>2, <2>3, <2>4, <2>5, <2>6, <2>7, <2>8, <2>9 DEF PageStep
  <1>3. ASSUME NEW p \in Pages, PageKilled(p) PROVE PageInv'
    BY <1>0, <1>3 DEF PageKilled, PageRunning, PageInv, TypeOK
  <1>4. CASE UNCHANGED pageVars
    BY <1>0, <1>4 DEF pageVars, PageInv
  <1>5. QED
    BY <1>1, <1>2, <1>3, <1>4, PagesOnlyByPages

\* A page's step is a step of a task that exists, and moves no other task.
LEMMA PageMoves ==
    ASSUME TypeOK, NEW p \in Pages, PageStep(p) \/ PageKilled(p)
    PROVE  /\ pc[p] # "absent"
           /\ \A q \in Pages : q # p => pc'[q] = pc[q]
           /\ orchVars' = orchVars
           /\ pc' \in [Pages -> PageStates]
  <1> USE DEF TypeOK, orchVars
  <1>1. CASE PageKilled(p)
    BY <1>1 DEF PageKilled, PageRunning, PageStates
  <1>2. CASE TakePage(p)
    BY <1>2 DEF TakePage, PageStates
  <1>3. CASE Upsert(p)
    BY <1>3 DEF Upsert, PageStates
  <1>4. CASE SaveOk(p)
    BY <1>4 DEF SaveOk, StoreResult, PageStates
  <1>5. CASE Retry(p)
    BY <1>5 DEF Retry, PageStates
  <1>6. CASE SaveFailed(p)
    BY <1>6 DEF SaveFailed, StoreResult, PageStates
  <1>7. CASE IncrCompleted(p)
    BY <1>7 DEF IncrCompleted, PageStates
  <1>8. CASE ReadTotal(p)
    BY <1>8 DEF ReadTotal, PageStates
  <1>9. CASE TrySchedule(p)
    <2>1. pc' \in {[pc EXCEPT ![p] = "scheduling"], [pc EXCEPT ![p] = "done"]}
      BY <1>9 DEF TrySchedule
    <2>2. pc[p] = "elected" /\ orchVars' = orchVars
      BY <1>9 DEF TrySchedule
    <2>3. QED
      BY <2>1, <2>2 DEF PageStates
  <1>10. CASE EnqueueFinalize(p)
    BY <1>10 DEF EnqueueFinalize, PageStates
  <1>11. QED
    BY <1>1, <1>2, <1>3, <1>4, <1>5, <1>6, <1>7, <1>8, <1>9, <1>10 DEF PageStep

LEMMA FanOutStep ==
    ASSUME TypeOK, PageInv, FanOutInv, Next
    PROVE  FanOutInv'
  <1>0. links' = links
    BY Frame
  <1> USE ConstantsAssumption DEF FanOutInv, TypeOK
  <1>1. CASE OrchEnqueue
    BY <1>0, <1>1 DEF OrchEnqueue, Pages
  <1>2. ASSUME NEW p \in Pages, PageStep(p) \/ PageKilled(p) PROVE FanOutInv'
    BY <1>0, <1>2, PageMoves DEF orchVars
  <1>3. CASE OrchStep /\ ~OrchEnqueue
    BY <1>0, <1>3 DEF OrchStep, OrchStart, OrchInit, OrchZero, OrchReturn, pageVars
  <1>4. ASSUME NEW f \in Finalizers, FinalizeStep(f) PROVE FanOutInv'
    BY <1>0, <1>4
       DEF FinalizeStep, TakeFinalize, LoadResults, PersistPage, Persisted, DeleteTotal,
           DeleteCompleted, DeleteScheduled, DeleteResults, CleanupStep, CompleteScrape,
           pageVars, orchVars
  <1>5. CASE OrchFail \/ OrchKilled
    BY <1>0, <1>5 DEF OrchFail, OrchKilled, pageVars
  <1>6. ASSUME NEW f \in Finalizers, FinalizeFail(f) \/ FinalizeKilled(f) PROVE FanOutInv'
    BY <1>0, <1>6 DEF FinalizeFail, FinalizeKilled, pageVars, orchVars
  <1>7. QED
    BY <1>1, <1>2, <1>3, <1>4, <1>5, <1>6 DEF Next, FaultStep

\* Counting arguments: the counted pages are linked pages, so a page whose INCR returned
\* at least links was the last of all.
LEMMA CountedBounded ==
    ASSUME TypeOK, PageInv
    PROVE  /\ IsFiniteSet(counted)
           /\ Cardinality(counted) \in Nat
           /\ Cardinality(counted) <= links
           /\ Cardinality(counted) = links => AllCounted
  <1>1. counted \subseteq LinkedPages
    BY DEF TypeOK, PageInv, LinkedPages, Pages
  <1>2. IsFiniteSet(LinkedPages) /\ Cardinality(LinkedPages) = links
    BY FS_Interval, ConstantsAssumption DEF LinkedPages, TypeOK
  <1>3. QED
    BY <1>1, <1>2, FS_Subset, FS_CardinalityType DEF AllCounted

LEMMA LastIsLast ==
    ASSUME TypeOK, PageInv, CounterInv,
           NEW p \in Pages, pc[p] = "counted", local[p] >= total
    PROVE  AllCounted
  <1>1. CASE KeysLive
    BY <1>1, CountedBounded DEF KeysLive, CounterInv, TypeOK
  <1>2. CASE KeysGone
    BY <1>2 DEF KeysGone
  <1>3. CASE KeysUnborn
    BY <1>3 DEF KeysUnborn
  <1>4. QED
    BY <1>1, <1>2, <1>3 DEF CounterInv

\* The counters move only in the steps named here.
LEMMA CounterFrame ==
    ASSUME TypeOK, Next,
           ~ OrchInit,
           ~ \E p \in Pages : IncrCompleted(p),
           ~ \E f \in Finalizers : DeleteTotal(f) \/ DeleteCompleted(f)
    PROVE  total' = total /\ completed' = completed /\ counted' = counted /\ local' = local
  <1> USE DEF redisVars, pageVars
  <1>1. CASE OrchStep
    BY <1>1 DEF OrchStep, OrchStart, OrchEnqueue, OrchZero, OrchReturn
  <1>2. ASSUME NEW p \in Pages, PageStep(p)
        PROVE  total' = total /\ completed' = completed /\ counted' = counted /\ local' = local
    BY <1>2 DEF PageStep, TakePage, Upsert, SaveOk, Retry, SaveFailed, ReadTotal,
                TrySchedule, EnqueueFinalize
  <1>3. ASSUME NEW f \in Finalizers, FinalizeStep(f)
        PROVE  total' = total /\ completed' = completed /\ counted' = counted /\ local' = local
    BY <1>3 DEF FinalizeStep, TakeFinalize, LoadResults, PersistPage, Persisted,
                DeleteScheduled, DeleteResults, CleanupStep, CompleteScrape
  <1>4. CASE FaultStep
    BY <1>4 DEF FaultStep, OrchFail, OrchKilled, PageKilled, FinalizeFail, FinalizeKilled
  <1>5. QED
    BY <1>1, <1>2, <1>3, <1>4 DEF Next

\* A page's result, once stored, stays what it is, and files are only added.
LEMMA Stable ==
    ASSUME TypeOK, PageInv, Next
    PROVE  /\ artifacts \subseteq artifacts'
           /\ \A q \in Pages : outcome[q] # "open" => outcome'[q] = outcome[q]
           /\ AllCounted => OkPages' = OkPages
  <1> USE DEF redisVars, pageVars, finVars
  <1>1. artifacts \subseteq artifacts'
    <2>1. CASE OrchStep
      BY <2>1 DEF OrchStep, OrchStart, OrchInit, OrchEnqueue, OrchZero, OrchReturn
    <2>2. ASSUME NEW p \in Pages, PageStep(p) PROVE artifacts \subseteq artifacts'
      BY <2>2 DEF PageStep, TakePage, Upsert, SaveOk, Retry, SaveFailed, IncrCompleted,
                  ReadTotal, TrySchedule, EnqueueFinalize
    <2>3. ASSUME NEW f \in Finalizers, FinalizeStep(f) PROVE artifacts \subseteq artifacts'
      BY <2>3 DEF FinalizeStep, TakeFinalize, LoadResults, PersistPage, Persisted,
                  DeleteTotal, DeleteCompleted, DeleteScheduled, DeleteResults,
                  CleanupStep, CompleteScrape
    <2>4. CASE FaultStep
      BY <2>4 DEF FaultStep, OrchFail, OrchKilled, PageKilled, FinalizeFail, FinalizeKilled
    <2>5. QED
      BY <2>1, <2>2, <2>3, <2>4 DEF Next
  <1>2. \/ outcome' = outcome
        \/ \E p \in Pages : /\ pc[p] = "upserted" \/ pc[p] = "scraping"
                            /\ \E r \in {"ok", "failed"} : outcome' = [outcome EXCEPT ![p] = r]
    <2>1. CASE UNCHANGED pageVars
      BY <2>1
    <2>2. CASE OrchEnqueue
      BY <2>2 DEF OrchEnqueue
    <2>3. ASSUME NEW p \in Pages, PageKilled(p) PROVE outcome' = outcome
      BY <2>3 DEF PageKilled
    <2>4. ASSUME NEW p \in Pages, PageStep(p), ~SaveOk(p), ~SaveFailed(p)
          PROVE  outcome' = outcome
      BY <2>4 DEF PageStep, TakePage, Upsert, Retry, IncrCompleted, ReadTotal,
                  TrySchedule, EnqueueFinalize
    <2>5. ASSUME NEW p \in Pages, SaveOk(p) \/ SaveFailed(p)
          PROVE  /\ pc[p] = "upserted" \/ pc[p] = "scraping"
                 /\ \E r \in {"ok", "failed"} : outcome' = [outcome EXCEPT ![p] = r]
      BY <2>5 DEF SaveOk, SaveFailed, StoreResult
    <2>6. QED
      BY <2>1, <2>2, <2>3, <2>4, <2>5, PagesOnlyByPages
  <1>3. \A q \in Pages : outcome[q] # "open" => outcome'[q] = outcome[q]
    BY <1>2 DEF PageInv, TypeOK
  <1>4. ASSUME AllCounted PROVE outcome' = outcome
    BY <1>2, <1>4 DEF PageInv, TypeOK, AllCounted, LinkedPages, Pages
  <1>5. QED
    BY <1>1, <1>3, <1>4 DEF OkPages

LEMMA CounterStep ==
    ASSUME TypeOK, PageInv, FanOutInv, CounterInv, ElectionInv, FilesInv, Next
    PROVE  CounterInv'
  <1>0. links' = links /\ (AllCounted => AllCounted') /\ counted \subseteq counted'
    BY Frame
  <1>a. artifacts \subseteq artifacts' /\ (AllCounted => OkPages' = OkPages)
    BY Stable
  <1>b. TypeOK' /\ PageInv'
    BY TypeOrch, TypePage, TypeFinalize, TypeFault, PageInvStep DEF Next
  <1>c. Cardinality(counted) \in Nat /\ Cardinality(counted') \in Nat
    BY <1>b, PagesFinite DEF TypeOK
  <1>1. CASE OrchInit
    <2>a. \A p \in Pages : pc[p] = "absent"
      BY <1>1, ConstantsAssumption DEF OrchInit, FanOutInv, Pages
    <2>b. counted = {}
      BY <2>a DEF PageInv, TypeOK
    <2>1. counted = {} /\ counted' = {} /\ Cardinality(counted') = 0
      BY <1>1, <2>b, FS_EmptySet DEF OrchInit, pageVars
    <2>2. KeysLive' /\ \A p \in Pages : pc'[p] = "absent"
      BY <1>0, <1>1, <2>1, <2>a DEF OrchInit, KeysLive, pageVars
    <2>3. QED
      BY <2>2 DEF CounterInv
  <1>2. ASSUME NEW p \in Pages, IncrCompleted(p) PROVE CounterInv'
    <2>1. ~AllCounted /\ pc[p] = "saved" /\ p \notin counted
      BY <1>2, ConstantsAssumption
         DEF IncrCompleted, PageInv, AllCounted, LinkedPages, Pages, TypeOK
    <2>2. KeysLive
      BY <2>1 DEF CounterInv, KeysUnborn, KeysGone
    <2>3. /\ Cardinality(counted') = Cardinality(counted) + 1
          /\ counted' = counted \cup {p}
      BY <1>2, <2>1, CountedBounded, FS_AddElement DEF IncrCompleted
    <2>4. KeysLive'
      BY <1>0, <1>2, <2>2, <2>3 DEF IncrCompleted, KeysLive
    <2>5. \A q \in Pages : pc'[q] = "counted" => local'[q] <= Cardinality(counted')
      BY <1>2, <1>c, <2>2, <2>3 DEF IncrCompleted, CounterInv, KeysLive, TypeOK
    <2>6. QED
      BY <2>4, <2>5 DEF CounterInv
  <1>3. ASSUME NEW f \in Finalizers, DeleteTotal(f) \/ DeleteCompleted(f)
        PROVE  CounterInv'
    <2>1. AllCounted /\ OkPages \subseteq artifacts
      BY <1>3 DEF DeleteTotal, DeleteCompleted, CleanupStep, ElectionInv, FilesInv
    <2>2. total' = 0
      BY <1>3 DEF DeleteTotal, DeleteCompleted, CleanupStep, ElectionInv
    <2>3. KeysGone'
      BY <1>0, <1>a, <2>1, <2>2 DEF KeysGone
    <2>4. UNCHANGED <<pc, local, counted>>
      BY <1>3 DEF DeleteTotal, DeleteCompleted, CleanupStep, pageVars
    <2>5. QED
      BY <2>3, <2>4 DEF CounterInv
  <1>4. ASSUME ~ OrchInit,
               ~ \E p \in Pages : IncrCompleted(p),
               ~ \E f \in Finalizers : DeleteTotal(f) \/ DeleteCompleted(f)
        PROVE  CounterInv'
    <2>1. total' = total /\ completed' = completed /\ counted' = counted /\ local' = local
      BY <1>4, CounterFrame
    <2>2. (KeysLive => KeysLive') /\ (KeysGone => KeysGone')
      BY <1>0, <1>a, <2>1 DEF KeysLive, KeysGone
    <2>3. \A p \in Pages : pc'[p] = "counted" => pc[p] = "counted"
      <3>1. CASE UNCHANGED pageVars
        BY <3>1 DEF pageVars
      <3>2. CASE OrchEnqueue
        BY <3>2 DEF OrchEnqueue, TypeOK
      <3>3. ASSUME NEW p \in Pages, PageStep(p) \/ PageKilled(p)
            PROVE  pc'[p] = "counted" => pc[p] = "counted"
        BY <1>4, <3>3
           DEF PageStep, PageKilled, TakePage, Upsert, SaveOk, StoreResult, Retry,
               SaveFailed, ReadTotal, TrySchedule, EnqueueFinalize, TypeOK
      <3>4. QED
        BY <3>1, <3>2, <3>3, PagesOnlyByPages, PageMoves
    <2>4. (KeysUnborn /\ ~KeysLive /\ ~KeysGone) =>
              KeysUnborn' /\ orch' \notin {"fanout", "returning"}
      <3> SUFFICES ASSUME KeysUnborn, ~KeysLive, ~KeysGone
                   PROVE  KeysUnborn' /\ orch' \notin {"fanout", "returning"}
        OBVIOUS
      <3>1. \A p \in Pages : ~ (PageStep(p) \/ PageKilled(p))
        BY PageMoves DEF KeysUnborn
      <3>2. ~ OrchEnqueue
        BY DEF KeysUnborn, OrchEnqueue
      <3>3. UNCHANGED pageVars
        BY <3>1, <3>2, PagesOnlyByPages
      <3>4. orch' \in {"queued", "fetching", "done", "lost"}
        <4>1. CASE OrchStep
          BY <1>4, <3>2, <4>1
             DEF KeysUnborn, OrchStep, OrchStart, OrchZero, OrchReturn
        <4>2. ASSUME NEW f \in Finalizers, FinalizeStep(f) PROVE orch' = orch
          BY <4>2
             DEF FinalizeStep, TakeFinalize, LoadResults, PersistPage, Persisted,
                 DeleteTotal, DeleteCompleted, DeleteScheduled, DeleteResults,
                 CleanupStep, CompleteScrape, orchVars
        <4>3. CASE FaultStep
          BY <3>1, <4>3
             DEF FaultStep, OrchFail, OrchKilled, FinalizeFail, FinalizeKilled, orchVars,
                 KeysUnborn
        <4>4. QED
          BY <3>1, <4>1, <4>2, <4>3 DEF Next, KeysUnborn
      <3>5. QED
        BY <2>1, <3>3, <3>4 DEF KeysUnborn, pageVars
    <2>5. QED
      BY <2>1, <2>2, <2>3, <2>4 DEF CounterInv
  <1>5. QED
    BY <1>1, <1>2, <1>3, <1>4

LEMMA ElectionStep ==
    ASSUME TypeOK, PageInv, FanOutInv, CounterInv, ElectionInv, Next
    PROVE  ElectionInv'
  <1>0. AllCounted => AllCounted'
    BY Frame
  <1> USE DEF ElectionInv, TypeOK
  <1>1. CASE OrchInit
    <2>1. total' = 0 \/ ~AllCounted
      BY <1>1, ConstantsAssumption
         DEF OrchInit, FanOutInv, PageInv, AllCounted, LinkedPages, Pages
    <2>2. QED
      BY <1>0, <1>1, <2>1 DEF OrchInit, pageVars, finVars
  <1>2. CASE OrchStart \/ OrchReturn
    BY <1>0, <1>2 DEF OrchStart, OrchReturn, redisVars, pageVars, finVars
  <1>3. CASE OrchEnqueue
    BY <1>0, <1>3 DEF OrchEnqueue, redisVars, finVars
  <1>4. CASE OrchZero
    <2>1. AllCounted
      BY <1>4 DEF OrchZero, AllCounted, LinkedPages
    <2>2. fin' = [fin EXCEPT ![Orchestrator] = "queued"] /\ total' = total
      BY <1>4 DEF OrchZero, redisVars
    <2>3. QED
      BY <1>0, <2>1, <2>2
  <1>5. ASSUME NEW p \in Pages, PageStep(p) \/ PageKilled(p) PROVE ElectionInv'
    <2>1. CASE ReadTotal(p)
      BY <1>0, <2>1, LastIsLast DEF ReadTotal, redisVars, finVars
    <2>2. CASE TrySchedule(p)
      <3>1. pc[p] = "elected" /\ total' = total /\ fin' = fin
        BY <2>2 DEF TrySchedule, finVars
      <3>2. QED
        BY <1>0, <3>1
    <2>3. CASE EnqueueFinalize(p)
      BY <1>0, <2>3 DEF EnqueueFinalize, redisVars
    <2>4. CASE TakePage(p) \/ Upsert(p) \/ SaveOk(p) \/ Retry(p) \/ SaveFailed(p)
      BY <1>0, <2>4 DEF TakePage, Upsert, SaveOk, SaveFailed, StoreResult, Retry,
                        redisVars, finVars
    <2>5. CASE IncrCompleted(p) \/ PageKilled(p)
      BY <1>0, <2>5 DEF IncrCompleted, PageKilled, redisVars, finVars
    <2>6. QED
      BY <1>5, <2>1, <2>2, <2>3, <2>4, <2>5 DEF PageStep
  <1>6. ASSUME NEW f \in Finalizers, FinalizeStep(f) PROVE ElectionInv'
    BY <1>0, <1>6
       DEF FinalizeStep, TakeFinalize, LoadResults, PersistPage, Persisted, DeleteTotal,
           DeleteCompleted, DeleteScheduled, DeleteResults, CleanupStep, CompleteScrape,
           pageVars, redisVars
  <1>7. CASE OrchFail \/ OrchKilled
    BY <1>0, <1>7 DEF OrchFail, OrchKilled, pageVars, finVars, redisVars
  <1>8. ASSUME NEW f \in Finalizers, FinalizeFail(f) \/ FinalizeKilled(f)
        PROVE  ElectionInv'
    BY <1>0, <1>8 DEF FinalizeFail, FinalizeKilled, FinRunning, pageVars, redisVars
  <1>9. QED
    BY <1>1, <1>2, <1>3, <1>4, <1>5, <1>6, <1>7, <1>8 DEF Next, OrchStep, FaultStep

LEMMA VectorStep ==
    ASSUME TypeOK, VectorInv, Next
    PROVE  VectorInv'
  <1> USE DEF VectorInv, TypeOK
  <1>1. CASE UNCHANGED pageVars
    BY <1>1 DEF pageVars
  <1>2. CASE OrchEnqueue
    BY <1>2 DEF OrchEnqueue
  <1>3. ASSUME NEW p \in Pages, PageStep(p) \/ PageKilled(p) PROVE VectorInv'
    <2>1. CASE TrySchedule(p)
      <3>1. vectors' = vectors /\ outcome' = outcome
        BY <2>1 DEF TrySchedule
      <3>2. pc' \in {[pc EXCEPT ![p] = "scheduling"], [pc EXCEPT ![p] = "done"]}
        BY <2>1 DEF TrySchedule
      <3>3. QED
        BY <3>1, <3>2
    <2>2. QED
      BY <1>3, <2>1
         DEF PageStep, PageKilled, TakePage, Upsert, SaveOk, StoreResult, Retry,
             SaveFailed, IncrCompleted, ReadTotal, EnqueueFinalize
  <1>4. QED
    BY <1>1, <1>2, <1>3, PagesOnlyByPages

LEMMA FilesStep ==
    ASSUME TypeOK, PageInv, FanOutInv, CounterInv, ElectionInv, FilesInv, Next
    PROVE  FilesInv'
  <1>0. AllCounted => OkPages' = OkPages
    BY Stable
  <1>1. OkPages \subseteq OkPages' /\ artifacts \subseteq artifacts'
    BY Stable DEF OkPages
  <1> USE DEF FilesInv, TypeOK
  <1>2. CASE OrchInit
    <2>0. orch = "fetching" /\ outcome' = outcome
      BY <1>2 DEF OrchInit, pageVars
    <2>1. OkPages = {} /\ OkPages' = {}
      <3>1. \A p \in Pages : p >= next
        BY <2>0, ConstantsAssumption DEF FanOutInv, Pages
      <3>2. \A p \in Pages : pc[p] = "absent"
        BY <2>0, <3>1 DEF FanOutInv
      <3>3. \A p \in Pages : outcome[p] = "open"
        BY <3>2 DEF PageInv
      <3>4. QED
        BY <2>0, <3>3 DEF OkPages
    <2>2. QED
      BY <1>2, <2>1 DEF OrchInit, finVars
  <1>3. ASSUME \/ OrchStart \/ OrchReturn \/ OrchEnqueue \/ OrchFail \/ OrchKilled
               \/ \E p \in Pages : PageKilled(p)
        PROVE  FilesInv'
    BY <1>3 DEF OrchStart, OrchReturn, OrchEnqueue, OrchFail, OrchKilled, PageKilled,
                OkPages, redisVars, pageVars, finVars
  <1>4. CASE OrchZero
    BY <1>4 DEF OrchZero, OkPages, redisVars, pageVars
  <1>5. ASSUME NEW p \in Pages, SaveOk(p) \/ SaveFailed(p) PROVE FilesInv'
    <2>1. ~AllCounted
      BY <1>5, ConstantsAssumption
         DEF SaveOk, SaveFailed, PageInv, AllCounted, LinkedPages, Pages
    <2>2. \A f \in Finalizers : fin[f] = "none"
      BY <2>1 DEF ElectionInv
    <2>3. UNCHANGED <<fin, loaded, artifacts>> /\ stored' = stored \cup {p}
      BY <1>5 DEF SaveOk, SaveFailed, StoreResult, finVars
    <2>4. OkPages' \subseteq OkPages \cup {p}
      BY <1>5 DEF SaveOk, SaveFailed, StoreResult, OkPages
    <2>5. QED
      BY <1>1, <2>2, <2>3, <2>4
  <1>6. ASSUME NEW p \in Pages, PageStep(p), ~SaveOk(p), ~SaveFailed(p) PROVE FilesInv'
    <2>1. CASE EnqueueFinalize(p)
      BY <2>1 DEF EnqueueFinalize, OkPages, redisVars
    <2>2. UNCHANGED <<stored, outcome, fin, loaded, artifacts>> \/ EnqueueFinalize(p)
      BY <1>6 DEF PageStep, TakePage, Upsert, Retry, IncrCompleted, ReadTotal,
                  TrySchedule, redisVars, finVars
    <2>3. QED
      BY <2>1, <2>2 DEF OkPages
  <1>7. ASSUME NEW f \in Finalizers, LoadResults(f) PROVE FilesInv'
    <2> DEFINE ok == {p \in stored : p < total /\ outcome[p] = "ok"}
    <2>1. AllCounted
      BY <1>7 DEF LoadResults, ElectionInv
    <2>2. OkPages \subseteq ok \cup artifacts
      <3>1. CASE KeysGone
        BY <3>1 DEF KeysGone
      <3>2. CASE KeysLive
        BY <3>2 DEF KeysLive, OkPages, PageInv
      <3>3. CASE KeysUnborn
        BY <3>3 DEF KeysUnborn, OkPages
      <3>4. QED
        BY <3>1, <3>2, <3>3 DEF CounterInv
    <2>3. ok \subseteq OkPages
      BY DEF OkPages
    <2>4. /\ loaded' = [loaded EXCEPT ![f] = ok]
          /\ fin' = [fin EXCEPT ![f] = IF ok = {} THEN "delTotal" ELSE "persisting"]
          /\ UNCHANGED <<stored, outcome, artifacts>>
      BY <1>7 DEF LoadResults, redisVars, pageVars
    <2> HIDE DEF ok
    <2>5. OkPages' = OkPages
      BY <2>4 DEF OkPages
    <2>6. QED
      BY <2>2, <2>3, <2>4, <2>5
  <1>8. ASSUME NEW f \in Finalizers, FinalizeStep(f), ~LoadResults(f) PROVE FilesInv'
    <2>0. OkPages' = OkPages
      BY <1>8
         DEF FinalizeStep, TakeFinalize, PersistPage, Persisted, DeleteTotal,
             DeleteCompleted, DeleteScheduled, DeleteResults, CleanupStep,
             CompleteScrape, pageVars, OkPages
    <2>1. CASE TakeFinalize(f)
      BY <2>0, <2>1 DEF TakeFinalize, redisVars
    <2>2. CASE Persisted(f)
      BY <2>0, <2>2 DEF Persisted, redisVars
    <2>3. ASSUME NEW p \in Pages, PersistPage(f, p) PROVE FilesInv'
      BY <2>0, <2>3 DEF PersistPage, redisVars
    <2>4. CASE DeleteTotal(f) \/ DeleteCompleted(f) \/ DeleteScheduled(f)
      BY <2>0, <2>4 DEF DeleteTotal, DeleteCompleted, DeleteScheduled, CleanupStep
    <2>5. CASE DeleteResults(f)
      BY <2>0, <2>5 DEF DeleteResults, CleanupStep
    <2>6. CASE CompleteScrape(f)
      BY <2>0, <2>6 DEF CompleteScrape, redisVars
    <2>7. QED
      BY <1>8, <2>1, <2>2, <2>3, <2>4, <2>5, <2>6 DEF FinalizeStep
  <1>9. ASSUME NEW f \in Finalizers, FinalizeFail(f) \/ FinalizeKilled(f) PROVE FilesInv'
    BY <1>9 DEF FinalizeFail, FinalizeKilled, FinRunning, OkPages, redisVars, pageVars
  <1>10. QED
    BY <1>2, <1>3, <1>4, <1>5, <1>6, <1>7, <1>8, <1>9 DEF Next, OrchStep, FaultStep

LEMMA InitIInv == Init => IInv
  <1> SUFFICES ASSUME Init PROVE IInv
    OBVIOUS
  <1>1. OkPages = {} /\ artifacts = {}
    BY DEF Init, OkPages
  <1>2. PageInv /\ FanOutInv /\ VectorInv
    BY ConstantsAssumption DEF Init, PageInv, FanOutInv, VectorInv, Pages
  <1>3. CounterInv /\ ElectionInv
    BY DEF Init, CounterInv, KeysUnborn, ElectionInv
  <1>4. FilesInv
    BY <1>1 DEF Init, FilesInv
  <1>5. QED
    BY <1>2, <1>3, <1>4 DEF IInv

\* The inductive invariant: the page life cycle, the three phases of the Redis keys and
\* what a finalize task may rely on hold in every reachable state.
THEOREM InductiveInvariant == Spec => []IInv
  <1>1. Init => IInv
    BY InitIInv
  <1>2. TypeOK /\ IInv /\ [Next]_vars => IInv'
    <2>1. TypeOK /\ IInv /\ Next => IInv'
      BY PageInvStep, FanOutStep, CounterStep, ElectionStep, FilesStep, VectorStep DEF IInv
    <2>2. IInv /\ UNCHANGED vars => IInv'
      BY DEF IInv, PageInv, FanOutInv, CounterInv, KeysUnborn, KeysLive, KeysGone,
             ElectionInv, FilesInv, VectorInv, AllCounted, LinkedPages, OkPages,
             vars, redisVars, rowVars, orchVars, pageVars, finVars
    <2>3. QED
      BY <2>1, <2>2
  <1>3. QED
    BY <1>1, <1>2, TypeCorrect, PTL DEF Spec

\* No finalize task is ever enqueued before every page of the crawl has stored its
\* result and counted itself: for any number of pages and workers, whatever retries,
\* interleavings and crashes happen.
THEOREM NeverPremature == Spec => []NoPrematureFinalize
  <1>1. TypeOK /\ IInv => NoPrematureFinalize
    <2> SUFFICES ASSUME TypeOK, IInv, NEW f \in Finalizers, fin[f] # "none",
                        NEW p \in 0 .. (links - 1)
                 PROVE  p \in counted /\ outcome[p] # "open"
      BY DEF NoPrematureFinalize
    <2>1. p \in counted
      BY DEF IInv, ElectionInv, AllCounted, LinkedPages
    <2>2. QED
      BY <2>1 DEF IInv, PageInv, TypeOK
  <1>2. QED
    BY <1>1, TypeCorrect, InductiveInvariant, PTL

\* A page that was scraped is in Redis or on disk in every reachable state.
THEOREM NeverLost == Spec => []NoPageLost
  <1>1. IInv => NoPageLost
    BY DEF IInv, FilesInv, NoPageLost, OkPages
  <1>2. QED
    BY <1>1, InductiveInvariant, PTL

\* A page reported as scraped has its vectors in Qdrant in every reachable state.
THEOREM ReportedPagesIndexed == Spec => []StoredPagesIndexed
  <1>1. IInv => StoredPagesIndexed
    BY DEF IInv, VectorInv, StoredPagesIndexed
  <1>2. QED
    BY <1>1, InductiveInvariant, PTL

-----------------------------------------------------------------------------
(* The job implements the barrier. *)

\* A page's step resolves that page, or is invisible.
LEMMA PageRefines ==
    ASSUME TypeOK, IInv, NEW p \in Pages, PageStep(p)
    PROVE  Barrier!Resolve(p) \/ UNCHANGED Barrier!barrierVars
  <1> USE DEF PageStep, finVars, rowVars, Barrier!barrierVars
  <1>1. CASE SaveOk(p) \/ SaveFailed(p)
    BY <1>1 DEF SaveOk, SaveFailed, StoreResult, IInv, PageInv, Barrier!Resolve
  <1>2. CASE TakePage(p) \/ Upsert(p) \/ Retry(p) \/ IncrCompleted(p) \/ ReadTotal(p)
    BY <1>2 DEF TakePage, Upsert, Retry, IncrCompleted, ReadTotal
  <1>3. CASE TrySchedule(p) \/ EnqueueFinalize(p)
    BY <1>3 DEF TrySchedule, EnqueueFinalize
  <1>4. QED
    BY <1>1, <1>2, <1>3

\* A finalize task's step publishes a page, completes the job, or is invisible.
LEMMA FinalizeRefines ==
    ASSUME TypeOK, IInv, status # "pending", NEW f \in Finalizers, FinalizeStep(f)
    PROVE  Barrier!Next \/ UNCHANGED Barrier!barrierVars
  <1> USE DEF FinalizeStep, pageVars, rowVars, Barrier!barrierVars
  <1>1. fin[f] # "none"
    BY DEF TakeFinalize, LoadResults, PersistPage, Persisted, DeleteTotal,
           DeleteCompleted, DeleteScheduled, DeleteResults, CleanupStep, CompleteScrape
  <1>2. Barrier!Resolved
    BY <1>1, ConstantsAssumption
       DEF IInv, ElectionInv, AllCounted, LinkedPages, PageInv, Barrier!Resolved, TypeOK, Pages
  <1>3. ASSUME NEW p \in Pages, PersistPage(f, p) PROVE Barrier!Next
    <2>1. outcome[p] = "ok"
      BY <1>3 DEF PersistPage, IInv, FilesInv, OkPages
    <2>2. Barrier!Publish(p)
      BY <1>2, <1>3, <2>1 DEF PersistPage, Barrier!Publish
    <2>3. QED
      BY <2>2 DEF Barrier!Next, Barrier!Pages, Pages
  <1>4. CASE CompleteScrape(f)
    <2>1. artifacts = Barrier!Succeeded
      BY <1>4 DEF CompleteScrape, IInv, FilesInv, OkPages, Barrier!Succeeded,
                  Barrier!Pages, Pages
    <2>2. Barrier!Complete
      BY <1>2, <1>4, <2>1 DEF CompleteScrape, Barrier!Complete
    <2>3. QED
      BY <2>2 DEF Barrier!Next
  <1>5. CASE TakeFinalize(f) \/ LoadResults(f) \/ Persisted(f)
    BY <1>5 DEF TakeFinalize, LoadResults, Persisted
  <1>6. CASE \/ DeleteTotal(f) \/ DeleteCompleted(f) \/ DeleteScheduled(f)
             \/ DeleteResults(f)
    BY <1>6 DEF DeleteTotal, DeleteCompleted, DeleteScheduled, DeleteResults, CleanupStep
  <1>7. QED
    BY <1>3, <1>4, <1>5, <1>6

\* Tasks exist only once the orchestrator has committed RUNNING.
StartedInv ==
    /\ status = "pending" <=> orch = "queued"
    /\ status = "pending" => \A f \in Finalizers : fin[f] = "none"

LEMMA StartedStep ==
    ASSUME TypeOK, IInv, StartedInv, Next
    PROVE  StartedInv'
  <1> USE DEF StartedInv, TypeOK, rowVars, orchVars, finVars
  <1>1. CASE OrchStep
    BY <1>1 DEF OrchStep, OrchStart, OrchInit, OrchEnqueue, OrchZero, OrchReturn
  <1>2. ASSUME NEW p \in Pages, PageStep(p) \/ PageKilled(p) PROVE StartedInv'
    <2>1. status' = status /\ orch' = orch
      BY <1>2 DEF PageStep, PageKilled, TakePage, Upsert, SaveOk, Retry, SaveFailed,
                  IncrCompleted, ReadTotal, TrySchedule, EnqueueFinalize
    <2>2. orch = "queued" => next = 0 /\ pc[p] = "absent"
      BY DEF IInv, FanOutInv, Pages
    <2>3. pc[p] # "absent"
      BY <1>2, PageMoves
    <2>4. QED
      BY <2>1, <2>2, <2>3
  <1>3. ASSUME NEW f \in Finalizers, FinalizeStep(f) PROVE StartedInv'
    BY <1>3
       DEF FinalizeStep, TakeFinalize, LoadResults, PersistPage, Persisted, DeleteTotal,
           DeleteCompleted, DeleteScheduled, DeleteResults, CleanupStep, CompleteScrape
  <1>4. CASE OrchFail \/ OrchKilled
    BY <1>4 DEF OrchFail, OrchKilled
  <1>5. ASSUME NEW f \in Finalizers, FinalizeFail(f) \/ FinalizeKilled(f)
        PROVE  StartedInv'
    BY <1>5 DEF FinalizeFail, FinalizeKilled, FinRunning
  <1>6. QED
    BY <1>1, <1>2, <1>3, <1>4, <1>5 DEF Next, FaultStep

LEMMA BarrierStep ==
    ASSUME TypeOK, IInv, StartedInv, [Next]_vars
    PROVE  [Barrier!Next]_Barrier!barrierVars
  <1> USE DEF Barrier!barrierVars
  <1>0. ASSUME Next PROVE links' = links
    BY <1>0, Frame DEF IInv
  <1>1. CASE OrchStep
    <2>1. CASE OrchStart
      BY <1>0, <1>1, <2>1
         DEF OrchStart, StartedInv, pageVars, finVars, Barrier!Next, Barrier!Start, Next,
             Barrier!Fail, TypeOK
    <2>2. QED
      BY <1>0, <1>1, <2>1
         DEF OrchStep, OrchInit, OrchEnqueue, OrchZero, OrchReturn, pageVars, finVars,
             rowVars, Next
  <1>2. ASSUME NEW p \in Pages, PageStep(p) PROVE [Barrier!Next]_Barrier!barrierVars
    <2>1. links' = links
      BY <1>2 DEF PageStep
    <2>2. QED
      BY <1>2, <2>1, PageRefines DEF Barrier!Next, Barrier!Pages, Pages
  <1>3. ASSUME NEW f \in Finalizers, FinalizeStep(f)
        PROVE  [Barrier!Next]_Barrier!barrierVars
    <2>1. fin[f] # "none"
      BY <1>3 DEF FinalizeStep, TakeFinalize, LoadResults, PersistPage, Persisted,
                  DeleteTotal, DeleteCompleted, DeleteScheduled, DeleteResults,
                  CleanupStep, CompleteScrape
    <2>2. QED
      BY <1>3, <2>1, FinalizeRefines DEF StartedInv
  <1>4. CASE FaultStep
    <2>1. CASE OrchFail \/ OrchKilled
      BY <1>0, <1>4, <2>1
         DEF OrchFail, OrchKilled, StartedInv, pageVars, finVars, rowVars, Next,
             Barrier!Next, Barrier!Fail
    <2>2. ASSUME NEW p \in Pages, PageKilled(p) PROVE UNCHANGED Barrier!barrierVars
      BY <1>0, <1>4, <2>2 DEF PageKilled, finVars, rowVars, Next
    <2>3. ASSUME NEW f \in Finalizers, FinalizeFail(f) \/ FinalizeKilled(f)
          PROVE  [Barrier!Next]_Barrier!barrierVars
      BY <1>0, <1>4, <2>3
         DEF FinalizeFail, FinalizeKilled, FinRunning, StartedInv, pageVars, rowVars, Next,
             Barrier!Next, Barrier!Fail
    <2>4. QED
      BY <1>4, <2>1, <2>2, <2>3 DEF FaultStep
  <1>5. CASE UNCHANGED vars
    BY <1>5 DEF vars, pageVars, finVars, rowVars
  <1>6. QED
    BY <1>1, <1>2, <1>3, <1>4, <1>5 DEF Next

\* The job implements the barrier: a page is resolved at most once, files are published
\* only when all pages are resolved, and COMPLETED means that exactly the pages that
\* succeeded are on disk.
THEOREM ImplementsBarrier == Spec => BarrierSpec
  <1>1. Init => Barrier!Init /\ StartedInv
    BY DEF Init, Barrier!Init, Barrier!Pages, Pages, StartedInv
  <1>2. TypeOK /\ IInv /\ StartedInv /\ [Next]_vars => StartedInv'
    BY StartedStep DEF StartedInv, vars, rowVars, orchVars, finVars
  <1>3. TypeOK /\ IInv /\ StartedInv /\ [Next]_vars => [Barrier!Next]_Barrier!barrierVars
    BY BarrierStep
  <1>4. QED
    BY <1>1, <1>2, <1>3, TypeCorrect, InductiveInvariant, PTL
       DEF Spec, BarrierSpec, Barrier!Spec

-----------------------------------------------------------------------------
(* The number of workers, and what one worker alone does. *)

BusyPages      == {p \in Pages : pc[p] \in PageRunning}
BusyFinalizers == {f \in Finalizers : fin[f] \in FinRunning}
OrchRunning    == {"fetching", "fanout", "returning"}
OrchBusy       == IF orch \in OrchRunning THEN 1 ELSE 0

\* The cardinality of a set one element of which changes.
LEMMA CountOne ==
    ASSUME NEW S, NEW T, NEW x, IsFiniteSet(S), S \ {x} = T \ {x}
    PROVE  /\ Cardinality(S) \in Nat /\ Cardinality(T) \in Nat
           /\ x \in S /\ x \in T => Cardinality(T) = Cardinality(S)
           /\ x \notin S /\ x \notin T => Cardinality(T) = Cardinality(S)
           /\ x \in S /\ x \notin T => Cardinality(T) + 1 = Cardinality(S)
           /\ x \notin S /\ x \in T => Cardinality(T) = Cardinality(S) + 1
  <1> DEFINE R == S \ {x}
  <1>1. x \notin R /\ IsFiniteSet(R) /\ Cardinality(R) \in Nat
    BY FS_Subset, FS_CardinalityType
  <1>2. /\ (S = R /\ x \notin S) \/ (S = R \cup {x} /\ x \in S)
        /\ (T = R /\ x \notin T) \/ (T = R \cup {x} /\ x \in T)
    OBVIOUS
  <1> HIDE DEF R
  <1>3. Cardinality(R \cup {x}) = Cardinality(R) + 1
    BY <1>1, FS_AddElement
  <1>4. QED
    BY <1>1, <1>2, <1>3

LEMMA BusyTypes ==
    ASSUME TypeOK
    PROVE  /\ IsFiniteSet(BusyPages) /\ Cardinality(BusyPages) \in Nat
           /\ IsFiniteSet(BusyFinalizers) /\ Cardinality(BusyFinalizers) \in Nat
           /\ OrchBusy \in Nat
           /\ Workers = idle + Cardinality(BusyPages) + Cardinality(BusyFinalizers) + OrchBusy
  <1>1. IsFiniteSet(BusyPages) /\ Cardinality(BusyPages) \in Nat
    BY PagesFinite DEF BusyPages
  <1>2. IsFiniteSet(BusyFinalizers) /\ Cardinality(BusyFinalizers) \in Nat
    <2>1. IsFiniteSet(Finalizers)
      BY FS_Interval, ConstantsAssumption DEF Finalizers
    <2>2. QED
      BY <2>1, FS_Subset, FS_CardinalityType DEF BusyFinalizers
  <1>3. OrchBusy \in Nat
    BY DEF OrchBusy
  <1>4. QED
    BY <1>1, <1>2, <1>3 DEF Workers, BusyPages, BusyFinalizers, OrchBusy, OrchRunning

\* A step that moves one page task.
LEMMA PageTurn ==
    ASSUME TypeOK, NEW p \in Pages, \A q \in Pages \ {p} : pc'[q] = pc[q]
    PROVE  /\ Cardinality(BusyPages') \in Nat
           /\ pc[p] \in PageRunning /\ pc'[p] \in PageRunning =>
                  Cardinality(BusyPages') = Cardinality(BusyPages)
           /\ pc[p] \notin PageRunning /\ pc'[p] \notin PageRunning =>
                  Cardinality(BusyPages') = Cardinality(BusyPages)
           /\ pc[p] \in PageRunning /\ pc'[p] \notin PageRunning =>
                  Cardinality(BusyPages') + 1 = Cardinality(BusyPages)
           /\ pc[p] \notin PageRunning /\ pc'[p] \in PageRunning =>
                  Cardinality(BusyPages') = Cardinality(BusyPages) + 1
  <1>1. /\ BusyPages \ {p} = BusyPages' \ {p}
        /\ p \in BusyPages <=> pc[p] \in PageRunning
        /\ p \in BusyPages' <=> pc'[p] \in PageRunning
    BY DEF BusyPages, TypeOK
  <1>2. IsFiniteSet(BusyPages)
    BY BusyTypes
  <1>3. QED
    BY <1>1, <1>2, CountOne

\* A step that moves one finalize task.
LEMMA FinalizeTurn ==
    ASSUME TypeOK, NEW f \in Finalizers, \A g \in Finalizers \ {f} : fin'[g] = fin[g]
    PROVE  /\ Cardinality(BusyFinalizers') \in Nat
           /\ fin[f] \in FinRunning /\ fin'[f] \in FinRunning =>
                  Cardinality(BusyFinalizers') = Cardinality(BusyFinalizers)
           /\ fin[f] \notin FinRunning /\ fin'[f] \notin FinRunning =>
                  Cardinality(BusyFinalizers') = Cardinality(BusyFinalizers)
           /\ fin[f] \in FinRunning /\ fin'[f] \notin FinRunning =>
                  Cardinality(BusyFinalizers') + 1 = Cardinality(BusyFinalizers)
           /\ fin[f] \notin FinRunning /\ fin'[f] \in FinRunning =>
                  Cardinality(BusyFinalizers') = Cardinality(BusyFinalizers) + 1
  <1>1. /\ BusyFinalizers \ {f} = BusyFinalizers' \ {f}
        /\ f \in BusyFinalizers <=> fin[f] \in FinRunning
        /\ f \in BusyFinalizers' <=> fin'[f] \in FinRunning
    BY DEF BusyFinalizers, TypeOK
  <1>2. IsFiniteSet(BusyFinalizers)
    BY BusyTypes
  <1>3. QED
    BY <1>1, <1>2, CountOne

\* A page task queues its finalize task as its last step, the orchestrator likewise.
OwnInv == \A f \in Finalizers : fin[f] # "none" =>
    /\ f = Orchestrator => links = 0 /\ orch \notin {"queued", "fetching", "fanout"}
    /\ f \in Pages => pc[f] = "done"

\* What a page's step does to its task, to its worker and to its finalize task.
Turn(p, s) ==
    /\ pc' = [pc EXCEPT ![p] = s]
    /\ pc[p] \notin {"absent", "done", "lost"}
    /\ \/ pc[p] \notin PageRunning /\ s \in PageRunning /\ TakeWorker
       \/ pc[p] \in PageRunning /\ s \in PageRunning /\ idle' = idle
       \/ pc[p] \in PageRunning /\ s \notin PageRunning /\ FreeWorker

LEMMA PageWork ==
    ASSUME TypeOK, NEW p \in Pages, PageStep(p) \/ PageKilled(p)
    PROVE  /\ orch' = orch /\ next' = next
           /\ fin' = fin \/ (EnqueueFinalize(p) /\ fin' = [fin EXCEPT ![p] = "queued"])
           /\ \E s \in PageStates : Turn(p, s)
  <1>1. orch' = orch /\ next' = next
    BY PageMoves DEF orchVars
  <1>2. fin' = fin \/ (EnqueueFinalize(p) /\ fin' = [fin EXCEPT ![p] = "queued"])
    BY DEF PageStep, TakePage, Upsert, SaveOk, Retry, SaveFailed, IncrCompleted, ReadTotal,
           TrySchedule, EnqueueFinalize, PageKilled, finVars
  <1>3. \E s \in PageStates : Turn(p, s)
    <2> SUFFICES \/ Turn(p, "scraping") \/ Turn(p, "upserted") \/ Turn(p, "saved")
                 \/ Turn(p, "queued") \/ Turn(p, "counted") \/ Turn(p, "elected")
                 \/ Turn(p, "scheduling") \/ Turn(p, "done") \/ Turn(p, "lost")
      BY DEF PageStates
    <2> USE DEF PageRunning, Turn
    <2>1. CASE PageKilled(p)
      BY <2>1 DEF PageKilled
    <2>2. CASE TakePage(p)
      BY <2>2 DEF TakePage
    <2>3. CASE Upsert(p)
      BY <2>3 DEF Upsert
    <2>4. CASE SaveOk(p) \/ SaveFailed(p)
      BY <2>4 DEF SaveOk, SaveFailed, StoreResult
    <2>5. CASE Retry(p)
      BY <2>5 DEF Retry
    <2>6. CASE IncrCompleted(p)
      BY <2>6 DEF IncrCompleted
    <2>7. CASE ReadTotal(p)
      BY <2>7 DEF ReadTotal
    <2>8. CASE TrySchedule(p)
      BY <2>8 DEF TrySchedule
    <2>9. CASE EnqueueFinalize(p)
      BY <2>9 DEF EnqueueFinalize
    <2>10. QED
      BY <2>1, <2>2, <2>3, <2>4, <2>5, <2>6, <2>7, <2>8, <2>9 DEF PageStep
  <1>4. QED
    BY <1>1, <1>2, <1>3

\* What a finalize task's step does to it and to its worker.
FinalizeMove(f, s) ==
    /\ fin' = [fin EXCEPT ![f] = s]
    /\ fin[f] # "none" /\ s # "none"
    /\ \/ fin[f] \notin FinRunning /\ s \in FinRunning /\ TakeWorker
       \/ fin[f] \in FinRunning /\ s \in FinRunning /\ idle' = idle
       \/ fin[f] \in FinRunning /\ s \notin FinRunning /\ FreeWorker

LEMMA FinalizeWork ==
    ASSUME TypeOK, NEW f \in Finalizers, FinalizeStep(f) \/ FinalizeFail(f) \/ FinalizeKilled(f)
    PROVE  /\ UNCHANGED <<pc, orch, next, outcome, counted>>
           /\ \E s \in FinStates : FinalizeMove(f, s)
  <1>1. UNCHANGED <<pc, orch, next, outcome, counted>>
    BY DEF FinalizeStep, TakeFinalize, LoadResults, PersistPage, Persisted, DeleteTotal,
           DeleteCompleted, DeleteScheduled, DeleteResults, CleanupStep, CompleteScrape,
           FinalizeFail, FinalizeKilled, pageVars, orchVars
  <1>2. \E s \in FinStates : FinalizeMove(f, s)
    <2> SUFFICES \/ FinalizeMove(f, "loading") \/ FinalizeMove(f, "persisting")
                 \/ FinalizeMove(f, "delTotal") \/ FinalizeMove(f, "delCompleted")
                 \/ FinalizeMove(f, "delScheduled") \/ FinalizeMove(f, "delResults")
                 \/ FinalizeMove(f, "completing") \/ FinalizeMove(f, "done")
                 \/ FinalizeMove(f, "lost")
      BY DEF FinStates
    <2> USE DEF FinRunning, FinalizeMove
    <2>1. CASE TakeFinalize(f)
      BY <2>1 DEF TakeFinalize
    <2>2. CASE LoadResults(f)
      BY <2>2 DEF LoadResults
    <2>3. CASE Persisted(f)
      BY <2>3 DEF Persisted
    <2>4. CASE \E p \in Pages : PersistPage(f, p)
      BY <2>4 DEF PersistPage, TypeOK
    <2>5. CASE DeleteTotal(f) \/ DeleteCompleted(f) \/ DeleteScheduled(f) \/ DeleteResults(f)
      BY <2>5 DEF DeleteTotal, DeleteCompleted, DeleteScheduled, DeleteResults, CleanupStep
    <2>6. CASE CompleteScrape(f)
      BY <2>6 DEF CompleteScrape
    <2>7. CASE FinalizeFail(f) \/ FinalizeKilled(f)
      BY <2>7 DEF FinalizeFail, FinalizeKilled
    <2>8. QED
      BY <2>1, <2>2, <2>3, <2>4, <2>5, <2>6, <2>7 DEF FinalizeStep
  <1>3. QED
    BY <1>1, <1>2

LEMMA OwnStep ==
    ASSUME TypeOK, IInv, OwnInv, Next
    PROVE  OwnInv'
  <1>0. links' = links /\ fin \in [Finalizers -> FinStates] /\ Orchestrator \notin Pages
    BY Frame, ConstantsAssumption DEF IInv, TypeOK, Orchestrator, Pages
  <1>1. CASE OrchStep \/ OrchFail \/ OrchKilled
    <2>1. CASE OrchZero
      <3>1. /\ fin' = [fin EXCEPT ![Orchestrator] = "queued"]
            /\ pc' = pc /\ orch' = "returning" /\ links = 0 /\ orch = "fanout"
        BY <2>1 DEF OrchZero, pageVars
      <3>2. QED
        BY <1>0, <3>1 DEF OwnInv
    <2>2. CASE OrchEnqueue
      <3>1. next \in Pages /\ pc[next] = "absent" /\ fin' = fin /\ orch' = orch
            /\ pc' = [pc EXCEPT ![next] = "queued"]
        BY <2>2, ConstantsAssumption DEF OrchEnqueue, IInv, FanOutInv, TypeOK, Pages, finVars
      <3>2. QED
        BY <1>0, <3>1 DEF OwnInv, TypeOK
    <2>3. CASE OrchStart \/ OrchInit \/ OrchReturn \/ OrchFail \/ OrchKilled
      BY <1>0, <2>3 DEF OrchStart, OrchInit, OrchReturn, OrchFail, OrchKilled, OwnInv, pageVars,
                        finVars
    <2>4. QED
      BY <1>1, <2>1, <2>2, <2>3 DEF OrchStep
  <1>2. ASSUME NEW p \in Pages, PageStep(p) \/ PageKilled(p) PROVE OwnInv'
    <2>1. PICK s \in PageStates : Turn(p, s)
      BY <1>2, PageWork
    <2>2. /\ orch' = orch /\ pc[p] # "done"
          /\ \A q \in Pages \ {p} : pc'[q] = pc[q]
      BY <1>2, <2>1, PageWork DEF Turn, TypeOK
    <2>3. CASE fin' = fin
      BY <1>0, <2>2, <2>3 DEF OwnInv
    <2>4. CASE EnqueueFinalize(p) /\ fin' = [fin EXCEPT ![p] = "queued"]
      <3>1. pc'[p] = "done"
        BY <2>4 DEF EnqueueFinalize, TypeOK
      <3>2. QED
        BY <1>0, <2>2, <2>4, <3>1 DEF OwnInv
    <2>5. QED
      BY <1>2, <2>3, <2>4, PageWork
  <1>3. ASSUME NEW f \in Finalizers, FinalizeStep(f) \/ FinalizeFail(f) \/ FinalizeKilled(f)
        PROVE  OwnInv'
    <2>1. PICK s \in FinStates : FinalizeMove(f, s)
      BY <1>3, FinalizeWork
    <2>2. UNCHANGED <<pc, orch>>
      BY <1>3, FinalizeWork
    <2>3. QED
      BY <1>0, <2>1, <2>2 DEF OwnInv, FinalizeMove
  <1>4. QED
    BY <1>1, <1>2, <1>3 DEF Next, FaultStep

\* Who takes a task was idle, and who ends one is idle again.
LEMMA WorkersKept ==
    ASSUME TypeOK, IInv, OwnInv, Next, TypeOK'
    PROVE  Workers' = Workers
  <1>0. /\ Cardinality(BusyPages) \in Nat /\ Cardinality(BusyFinalizers) \in Nat
        /\ OrchBusy \in Nat /\ idle \in Nat
        /\ Workers = idle + Cardinality(BusyPages) + Cardinality(BusyFinalizers) + OrchBusy
        /\ Workers' = idle' + Cardinality(BusyPages') + Cardinality(BusyFinalizers')
                            + OrchBusy'
    <2>1. Workers' = idle' + Cardinality(BusyPages') + Cardinality(BusyFinalizers')
                           + OrchBusy'
      BY DEF Workers, BusyPages, BusyFinalizers, OrchBusy, OrchRunning
    <2>2. QED
      BY <2>1, BusyTypes DEF TypeOK
  <1>1. /\ pc' = pc => BusyPages' = BusyPages
        /\ fin' = fin => BusyFinalizers' = BusyFinalizers
        /\ orch' = orch => OrchBusy' = OrchBusy
    BY DEF BusyPages, BusyFinalizers, OrchBusy
  <1>2. CASE OrchStep \/ OrchFail \/ OrchKilled
    <2>1. CASE OrchEnqueue
      <3>1. /\ next \in Pages /\ pc' = [pc EXCEPT ![next] = "queued"] /\ pc[next] = "absent"
            /\ orch' = orch /\ fin' = fin /\ idle' = idle
        BY <2>1, ConstantsAssumption DEF OrchEnqueue, finVars, TypeOK, Pages, IInv, FanOutInv
      <3>2. pc'[next] = "queued" /\ \A q \in Pages \ {next} : pc'[q] = pc[q]
        BY <3>1 DEF TypeOK
      <3>3. Cardinality(BusyPages') = Cardinality(BusyPages)
        BY <3>1, <3>2, PageTurn DEF PageRunning
      <3>4. QED
        BY <1>0, <1>1, <3>1, <3>3
    <2>2. CASE OrchZero
      <3>1. /\ fin' = [fin EXCEPT ![Orchestrator] = "queued"] /\ Orchestrator \in Finalizers
            /\ pc' = pc /\ idle' = idle /\ orch = "fanout" /\ orch' = "returning"
        BY <2>2, ConstantsAssumption DEF OrchZero, pageVars, Orchestrator, Finalizers
      <3>2. /\ fin[Orchestrator] = "none" /\ fin'[Orchestrator] = "queued"
            /\ \A g \in Finalizers \ {Orchestrator} : fin'[g] = fin[g]
        BY <3>1 DEF OwnInv, TypeOK
      <3>3. Cardinality(BusyFinalizers') = Cardinality(BusyFinalizers)
        BY <3>1, <3>2, FinalizeTurn DEF FinRunning
      <3>4. OrchBusy' = OrchBusy
        BY <3>1 DEF OrchBusy, OrchRunning
      <3>5. QED
        BY <1>0, <1>1, <3>1, <3>3, <3>4
    <2>3. CASE OrchStart \/ OrchInit \/ OrchReturn \/ OrchFail \/ OrchKilled
      <3>1. pc' = pc /\ fin' = fin
        BY <2>3 DEF OrchStart, OrchInit, OrchReturn, OrchFail, OrchKilled, pageVars, finVars
      <3>2. idle' + OrchBusy' = idle + OrchBusy /\ idle' \in Nat /\ OrchBusy' \in Nat
        <4> USE <1>0 DEF OrchBusy, OrchRunning
        <4>1. CASE OrchStart
          BY <4>1 DEF OrchStart, TakeWorker
        <4>2. CASE OrchInit
          BY <4>2 DEF OrchInit
        <4>3. CASE OrchReturn
          BY <4>3 DEF OrchReturn, FreeWorker
        <4>4. CASE OrchFail \/ OrchKilled
          BY <4>4 DEF OrchFail, OrchKilled, FreeWorker
        <4>5. QED
          BY <2>3, <4>1, <4>2, <4>3, <4>4
      <3>3. /\ Cardinality(BusyPages') = Cardinality(BusyPages)
            /\ Cardinality(BusyFinalizers') = Cardinality(BusyFinalizers)
        BY <1>1, <3>1
      <3>4. /\ Workers = (idle + OrchBusy) + Cardinality(BusyPages) + Cardinality(BusyFinalizers)
            /\ Workers' = (idle' + OrchBusy') + Cardinality(BusyPages)
                                              + Cardinality(BusyFinalizers)
        BY <1>0, <3>2, <3>3
      <3>5. QED
        BY <3>2, <3>4
    <2>4. QED
      BY <1>2, <2>1, <2>2, <2>3 DEF OrchStep
  <1>3. ASSUME NEW p \in Pages, PageStep(p) \/ PageKilled(p) PROVE Workers' = Workers
    <2>1. PICK s \in PageStates : Turn(p, s)
      BY <1>3, PageWork
    <2>2. OrchBusy' = OrchBusy
      BY <1>1, <1>3, PageWork
    <2>3. Cardinality(BusyFinalizers') = Cardinality(BusyFinalizers)
      <3>1. CASE fin' = fin
        BY <1>1, <3>1
      <3>2. CASE EnqueueFinalize(p) /\ fin' = [fin EXCEPT ![p] = "queued"]
        <4>1. p \in Finalizers /\ fin[p] = "none"
          BY <3>2, ConstantsAssumption DEF OwnInv, EnqueueFinalize, Pages, Finalizers
        <4>2. fin'[p] = "queued" /\ \A g \in Finalizers \ {p} : fin'[g] = fin[g]
          BY <3>2, <4>1 DEF TypeOK
        <4>3. QED
          BY <4>1, <4>2, FinalizeTurn DEF FinRunning
      <3>3. QED
        BY <1>3, <3>1, <3>2, PageWork
    <2>4. pc'[p] = s /\ \A q \in Pages \ {p} : pc'[q] = pc[q]
      BY <2>1 DEF Turn, TypeOK
    <2>5. /\ idle' + Cardinality(BusyPages') = idle + Cardinality(BusyPages)
          /\ Cardinality(BusyPages') \in Nat /\ idle' \in Nat
      BY <1>0, <2>1, <2>4, PageTurn DEF Turn, TakeWorker, FreeWorker, TypeOK
    <2>6. QED
      BY <1>0, <2>2, <2>3, <2>5
  <1>4. ASSUME NEW f \in Finalizers, FinalizeStep(f) \/ FinalizeFail(f) \/ FinalizeKilled(f)
        PROVE  Workers' = Workers
    <2>1. PICK s \in FinStates : FinalizeMove(f, s)
      BY <1>4, FinalizeWork
    <2>2. OrchBusy' = OrchBusy /\ Cardinality(BusyPages') = Cardinality(BusyPages)
      BY <1>1, <1>4, FinalizeWork
    <2>3. fin'[f] = s /\ \A g \in Finalizers \ {f} : fin'[g] = fin[g]
      BY <2>1 DEF FinalizeMove, TypeOK
    <2>4. /\ idle' + Cardinality(BusyFinalizers') = idle + Cardinality(BusyFinalizers)
          /\ Cardinality(BusyFinalizers') \in Nat /\ idle' \in Nat
      BY <1>0, <2>1, <2>3, FinalizeTurn DEF FinalizeMove, TakeWorker, FreeWorker, TypeOK
    <2>5. QED
      BY <1>0, <2>2, <2>4
  <1>5. QED
    BY <1>2, <1>3, <1>4 DEF Next, FaultStep

\* One worker has one task.
LEMMA OnePage ==
    ASSUME TypeOK, Workers = 1, NEW p \in Pages, NEW q \in Pages,
           pc[p] \in PageRunning, pc[q] \in PageRunning
    PROVE  p = q
  <1> SUFFICES ASSUME p # q PROVE FALSE
    OBVIOUS
  <1>1. Cardinality(BusyPages) <= 1
    BY BusyTypes DEF TypeOK
  <1>2. {p} \subseteq BusyPages /\ IsFiniteSet(BusyPages)
    BY BusyTypes DEF BusyPages
  <1>3. IsFiniteSet({p}) /\ Cardinality({p}) = 1
    BY FS_Singleton
  <1>4. IsFiniteSet({p} \cup {q}) /\ Cardinality({p} \cup {q}) = 2
    <2>1. q \notin {p}
      OBVIOUS
    <2>2. Cardinality({p} \cup {q}) = Cardinality({p}) + 1 /\ IsFiniteSet({p} \cup {q})
      BY <1>3, <2>1, FS_AddElement
    <2>3. QED
      BY <1>3, <2>2
  <1>5. {p} \cup {q} \subseteq BusyPages
    BY DEF BusyPages
  <1>6. 2 <= Cardinality(BusyPages)
    BY <1>2, <1>4, <1>5, FS_Subset
  <1>7. QED
    BY <1>1, <1>6, BusyTypes

\* With one worker the page that finds itself last goes on until its finalize task is
\* queued, so there is one finalize task; it finds what the pages have stored.
OnceInv ==
    /\ \A f, g \in Finalizers : fin[f] # "none" /\ fin[g] # "none" => f = g
    /\ \A f \in Finalizers : fin[f] # "none" =>
           \A p \in Pages : pc[p] \notin {"counted", "elected", "scheduling"}

Fresh  == \A f \in Finalizers : fin[f] \in {"none", "queued", "loading"}
Loaded == {"persisting", "delTotal", "delCompleted", "delScheduled", "delResults",
           "completing"}

ExactInv ==
    /\ Fresh => artifacts = {} /\ (KeysUnborn \/ total = links)
    /\ \A f \in Finalizers : fin[f] \in Loaded => loaded[f] = OkPages
    /\ status = "completed" => AllCounted /\ pagesScraped = Cardinality(OkPages)

OneInv == OwnInv /\ (Workers = 1 => OnceInv /\ ExactInv)

\* When a finalize task exists, every page is through.
LEMMA PagesThrough ==
    ASSUME TypeOK, IInv, OnceInv, NEW f \in Finalizers, fin[f] # "none", NEW p \in Pages
    PROVE  pc[p] \in {"absent", "done", "lost"}
  <1>1. AllCounted /\ pc[p] \in PageStates
    BY DEF IInv, ElectionInv, TypeOK
  <1>2. pc[p] # "absent" => p \in counted
    BY <1>1 DEF IInv, PageInv, AllCounted, LinkedPages, Pages, TypeOK
  <1>3. QED
    BY <1>1, <1>2 DEF OnceInv, IInv, PageInv, PageStates

LEMMA OnceStep ==
    ASSUME TypeOK, IInv, OwnInv, OnceInv, Workers = 1, Next
    PROVE  OnceInv'
  <1>0. fin \in [Finalizers -> FinStates] /\ pc \in [Pages -> PageStates]
    BY DEF TypeOK
  <1>1. CASE OrchStep \/ OrchFail \/ OrchKilled
    <2>1. CASE OrchEnqueue
      <3>1. next \in Pages /\ pc' = [pc EXCEPT ![next] = "queued"] /\ fin' = fin
        BY <2>1, ConstantsAssumption DEF OrchEnqueue, finVars, TypeOK, Pages
      <3>2. QED
        BY <1>0, <3>1 DEF OnceInv
    <2>2. CASE OrchZero
      <3>1. /\ fin' = [fin EXCEPT ![Orchestrator] = "queued"]
            /\ pc' = pc /\ orch = "fanout" /\ links = 0
        BY <2>2 DEF OrchZero, pageVars
      <3>2. \A p \in Pages : pc[p] = "absent"
        BY <3>1, ConstantsAssumption DEF IInv, PageInv, Pages
      <3>3. \A f \in Finalizers : fin[f] = "none"
        <4>1. \A f \in Finalizers : f = Orchestrator \/ f \in Pages
          BY ConstantsAssumption DEF Finalizers, Orchestrator, Pages
        <4>2. QED
          BY <3>1, <3>2, <4>1 DEF OwnInv
      <3>4. QED
        BY <1>0, <3>1, <3>2, <3>3 DEF OnceInv
    <2>3. CASE OrchStart \/ OrchInit \/ OrchReturn \/ OrchFail \/ OrchKilled
      BY <2>3 DEF OrchStart, OrchInit, OrchReturn, OrchFail, OrchKilled, OnceInv, pageVars,
                  finVars
    <2>4. QED
      BY <1>1, <2>1, <2>2, <2>3 DEF OrchStep
  <1>2. ASSUME NEW p \in Pages, PageStep(p) \/ PageKilled(p) PROVE OnceInv'
    <2>1. PICK s \in PageStates : Turn(p, s)
      BY <1>2, PageWork
    <2>2. \A f \in Finalizers : fin[f] = "none"
      BY <2>1, PagesThrough DEF Turn
    <2>3. CASE fin' = fin
      BY <2>2, <2>3 DEF OnceInv
    <2>4. CASE EnqueueFinalize(p) /\ fin' = [fin EXCEPT ![p] = "queued"]
      <3>1. pc[p] = "scheduling" /\ pc' = [pc EXCEPT ![p] = "done"]
        BY <2>4 DEF EnqueueFinalize
      <3>2. \A q \in Pages \ {p} : pc[q] \notin {"counted", "elected", "scheduling"}
        BY <3>1, OnePage DEF PageRunning
      <3>3. \A q \in Pages : pc'[q] \notin {"counted", "elected", "scheduling"}
        BY <1>0, <3>1, <3>2
      <3>4. \A f \in Finalizers : fin'[f] # "none" => f = p
        BY <1>0, <2>2, <2>4
      <3>5. QED
        BY <3>3, <3>4 DEF OnceInv
    <2>5. QED
      BY <1>2, <2>3, <2>4, PageWork
  <1>3. ASSUME NEW f \in Finalizers, FinalizeStep(f) \/ FinalizeFail(f) \/ FinalizeKilled(f)
        PROVE  OnceInv'
    <2>1. PICK s \in FinStates : FinalizeMove(f, s)
      BY <1>3, FinalizeWork
    <2>2. pc' = pc
      BY <1>3, FinalizeWork
    <2>3. \A g \in Finalizers : fin'[g] # "none" => fin[g] # "none"
      BY <1>0, <2>1 DEF FinalizeMove
    <2>4. QED
      BY <2>2, <2>3 DEF OnceInv
  <1>4. QED
    BY <1>1, <1>2, <1>3 DEF Next, FaultStep

LEMMA ExactStep ==
    ASSUME TypeOK, IInv, OwnInv, OnceInv, ExactInv, Next
    PROVE  ExactInv'
  <1>0. /\ links' = links /\ (AllCounted => AllCounted' /\ OkPages' = OkPages)
        /\ fin \in [Finalizers -> FinStates] /\ loaded \in [Finalizers -> SUBSET Pages]
    BY Frame, Stable DEF IInv, TypeOK
  <1>1. \A f \in Finalizers : fin[f] # "none" => AllCounted
    BY DEF IInv, ElectionInv
  <1>2. orch \in {"fanout", "returning"} \/ (\E p \in Pages : pc[p] # "absent") => ~ KeysUnborn
    BY DEF KeysUnborn
  <1>3. CASE OrchStep \/ OrchFail \/ OrchKilled
    <2>1. /\ UNCHANGED <<artifacts, loaded, pagesScraped>>
          /\ status' = "completed" => status = "completed"
          /\ \A f \in Finalizers : fin'[f] \in Loaded => fin[f] \in Loaded
          /\ Fresh' => Fresh
      <3>1. CASE OrchZero
        <4>1. /\ orch = "fanout" /\ Orchestrator \in Finalizers
              /\ fin' = [fin EXCEPT ![Orchestrator] = "queued"]
              /\ UNCHANGED <<artifacts, loaded, pagesScraped, status>>
          BY <3>1, ConstantsAssumption DEF OrchZero, rowVars, Orchestrator, Finalizers
        <4>2. \A f \in Finalizers : f # Orchestrator => fin'[f] = fin[f]
          BY <1>0, <4>1
        <4>3. fin'[Orchestrator] = "queued"
          BY <1>0, <4>1
        <4>4. fin[Orchestrator] = "none"
          BY <4>1 DEF OwnInv
        <4>5. QED
          BY <4>1, <4>2, <4>3, <4>4 DEF Loaded, Fresh
      <3>2. CASE OrchStart \/ OrchInit \/ OrchEnqueue \/ OrchReturn \/ OrchFail \/ OrchKilled
        BY <3>2 DEF OrchStart, OrchInit, OrchEnqueue, OrchReturn, OrchFail, OrchKilled, rowVars,
                    finVars, Fresh
      <3>3. QED
        BY <1>3, <3>1, <3>2 DEF OrchStep
    <2>2. (KeysUnborn \/ total = links) => (KeysUnborn' \/ total' = links)
      <3>1. CASE OrchInit
        BY <3>1 DEF OrchInit
      <3>2. CASE OrchStart \/ OrchFail \/ OrchKilled
        <4>1. total' = total /\ pc' = pc /\ outcome' = outcome /\ counted' = counted
              /\ orch' \in {"fetching", "done", "lost"}
          BY <3>2 DEF OrchStart, OrchFail, OrchKilled, redisVars, pageVars
        <4>2. QED
          BY <4>1 DEF KeysUnborn
      <3>3. CASE OrchEnqueue \/ OrchZero \/ OrchReturn
        <4>1. total' = total /\ orch \in {"fanout", "returning"}
          BY <3>3 DEF OrchEnqueue, OrchZero, OrchReturn, redisVars
        <4>2. QED
          BY <1>2, <4>1
      <3>4. QED
        BY <1>3, <3>1, <3>2, <3>3 DEF OrchStep
    <2>3. OkPages' = OkPages
      BY <1>3 DEF OrchStep, OrchStart, OrchInit, OrchEnqueue, OrchZero, OrchReturn, OrchFail,
                  OrchKilled, pageVars, OkPages
    <2>4. QED
      BY <1>0, <2>1, <2>2, <2>3 DEF ExactInv
  <1>4. ASSUME NEW p \in Pages, PageStep(p) \/ PageKilled(p) PROVE ExactInv'
    <2>1. PICK s \in PageStates : Turn(p, s)
      BY <1>4, PageWork
    <2>2. UNCHANGED <<artifacts, loaded, pagesScraped, status, total>>
      BY <1>4 DEF PageStep, TakePage, Upsert, SaveOk, Retry, SaveFailed, IncrCompleted,
                  ReadTotal, TrySchedule, EnqueueFinalize, PageKilled, finVars, rowVars,
                  redisVars
    <2>3. pc[p] # "absent" /\ \A f \in Finalizers : fin[f] = "none"
      BY <2>1, PagesThrough DEF Turn
    <2>4. artifacts = {} /\ total = links
      BY <1>2, <2>3 DEF ExactInv, Fresh
    <2>5. \A f \in Finalizers : fin'[f] \in {"none", "queued"}
      BY <1>0, <1>4, <2>3, PageWork
    <2>6. QED
      BY <1>0, <2>2, <2>4, <2>5 DEF ExactInv, Loaded
  <1>5. ASSUME NEW f \in Finalizers, FinalizeStep(f) \/ FinalizeFail(f) \/ FinalizeKilled(f)
        PROVE  ExactInv'
    <2>1. PICK s \in FinStates : FinalizeMove(f, s)
      BY <1>5, FinalizeWork
    <2>2. /\ fin[f] # "none" /\ AllCounted
          /\ \A g \in Finalizers \ {f} : fin[g] = "none" /\ fin'[g] = "none"
          /\ fin'[f] = s /\ fin' = [fin EXCEPT ![f] = s]
      BY <1>0, <1>1, <2>1 DEF FinalizeMove, OnceInv
    <2>3. OkPages' = OkPages /\ AllCounted'
      BY <1>0, <2>2
    <2>4. KeysUnborn => KeysUnborn'
      BY <1>5, FinalizeWork DEF KeysUnborn
    <2>5. CASE TakeFinalize(f)
      <3>1. /\ fin[f] = "queued" /\ fin' = [fin EXCEPT ![f] = "loading"]
            /\ UNCHANGED <<artifacts, loaded, pagesScraped, status, total>>
        BY <2>5 DEF TakeFinalize, rowVars, redisVars
      <3>2. fin'[f] = "loading" /\ Fresh
        BY <1>0, <2>2, <3>1 DEF Fresh
      <3>3. QED
        BY <1>0, <2>2, <2>3, <2>4, <3>1, <3>2 DEF ExactInv, Loaded
    <2>6. CASE LoadResults(f)
      <3> DEFINE ok == {p \in stored : p < total /\ outcome[p] = "ok"}
      <3>1. /\ fin[f] = "loading" /\ loaded' = [loaded EXCEPT ![f] = ok]
            /\ fin' = [fin EXCEPT ![f] = IF ok = {} THEN "delTotal" ELSE "persisting"]
            /\ UNCHANGED <<pagesScraped, status>>
        BY <2>6 DEF LoadResults, rowVars
      <3>2. artifacts = {} /\ (KeysUnborn \/ total = links)
        BY <2>2, <3>1 DEF ExactInv, Fresh
      <3>3. ok = OkPages
        <4>1. OkPages \subseteq stored /\ stored \subseteq Pages
          BY <3>2 DEF IInv, FilesInv, TypeOK
        <4>2. CASE KeysUnborn
          BY <4>1, <4>2 DEF KeysUnborn, OkPages
        <4>3. CASE total = links
          BY <4>1, <4>3 DEF OkPages, IInv, PageInv
        <4>4. QED
          BY <3>2, <4>2, <4>3
      <3> HIDE DEF ok
      <3>4. loaded'[f] = OkPages /\ fin'[f] \in {"delTotal", "persisting"}
        BY <1>0, <3>1, <3>3
      <3>5. ~ Fresh'
        BY <3>4 DEF Fresh
      <3>6. QED
        BY <2>2, <2>3, <3>1, <3>4, <3>5 DEF ExactInv, Loaded
    <2>7. CASE CompleteScrape(f)
      <3>1. /\ fin[f] = "completing" /\ fin' = [fin EXCEPT ![f] = "done"]
            /\ loaded' = loaded /\ pagesScraped' = Cardinality(loaded[f])
        BY <2>7 DEF CompleteScrape
      <3>2. loaded[f] = OkPages /\ fin'[f] = "done"
        BY <1>0, <3>1 DEF ExactInv, Loaded
      <3>3. QED
        BY <2>2, <2>3, <3>1, <3>2 DEF ExactInv, Loaded, Fresh
    <2>8. CASE FinalizeFail(f) \/ FinalizeKilled(f)
      <3>1. /\ fin'[f] \in {"done", "lost"}
            /\ pagesScraped' = pagesScraped /\ status' \in {status, "failed"}
        BY <1>0, <2>8 DEF FinalizeFail, FinalizeKilled, rowVars
      <3>2. QED
        BY <2>2, <2>3, <3>1 DEF ExactInv, Loaded, Fresh
    <2>9. CASE \/ Persisted(f) \/ DeleteTotal(f) \/ DeleteCompleted(f) \/ DeleteScheduled(f)
               \/ DeleteResults(f) \/ \E p \in Pages : PersistPage(f, p)
      <3>1. fin[f] \in Loaded /\ fin'[f] \in Loaded
            /\ UNCHANGED <<loaded, pagesScraped, status>>
        BY <1>0, <2>9 DEF Persisted, DeleteTotal, DeleteCompleted, DeleteScheduled,
                          DeleteResults, CleanupStep, PersistPage, rowVars, Loaded
      <3>2. QED
        BY <2>2, <2>3, <3>1 DEF ExactInv, Loaded, Fresh
    <2>10. QED
      BY <1>5, <2>5, <2>6, <2>7, <2>8, <2>9 DEF FinalizeStep
  <1>6. QED
    BY <1>3, <1>4, <1>5 DEF Next, FaultStep

\* With the one worker of docker-compose there is one finalize task, whatever crashes,
\* and a completed job reports as many pages as were scraped.
THEOREM OneWorkerIsExact == Spec => []OneWorkerExact
  <1>1. Init => OneInv
    <2> SUFFICES ASSUME Init PROVE OneInv
      OBVIOUS
    <2>1. OwnInv
      BY DEF Init, OwnInv
    <2>2. OnceInv /\ ExactInv
      BY DEF Init, OnceInv, ExactInv, KeysUnborn, Loaded
    <2>3. QED
      BY <2>1, <2>2 DEF OneInv
  <1>2. TypeOK /\ TypeOK' /\ IInv /\ OneInv /\ [Next]_vars => OneInv'
    <2>1. CASE UNCHANGED vars
      BY <2>1 DEF vars, redisVars, rowVars, orchVars, pageVars, finVars, OneInv, OwnInv,
                  Workers, OnceInv, ExactInv, Fresh, KeysUnborn, AllCounted, LinkedPages,
                  OkPages
    <2>2. CASE Next
      BY <2>2, OwnStep, WorkersKept, OnceStep, ExactStep DEF OneInv
    <2>3. QED
      BY <2>1, <2>2
  <1>3. OneInv => OneWorkerExact
    <2> SUFFICES ASSUME OneInv, Workers = 1 PROVE OneWorkerExact
      BY DEF OneWorkerExact
    <2> DEFINE F == {f \in Finalizers : fin[f] # "none"}
    <2>1. FinalizeOnceOnly
      <3>1. CASE F = {}
        BY <3>1, FS_EmptySet DEF FinalizeOnceOnly
      <3>2. CASE F # {}
        <4>1. PICK f \in F : F = {f}
          BY <3>2 DEF OneInv, OnceInv
        <4>2. Cardinality(F) = 1
          BY <4>1, FS_Singleton
        <4>3. QED
          BY <4>2 DEF FinalizeOnceOnly
      <3>3. QED
        BY <3>1, <3>2
    <2>2. QED
      BY <2>1 DEF OneWorkerExact, OneInv, ExactInv, OkPages
  <1>4. QED
    BY <1>1, <1>2, <1>3, TypeCorrect, InductiveInvariant, PTL DEF Spec

=============================================================================
