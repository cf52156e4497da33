------------------------- MODULE CrawlPipelineProofs -------------------------
(* Proofs about the rows and tasks of crawls and scrapes, for any number of requests:   *)
(* ScrapeHasResult with any number of workers, and the three properties that            *)
(* docker-compose's single worker process is needed for.                                *)
EXTENDS CrawlPipeline, FiniteSetTheorems, WellFoundedInduction, TLAPS

Handlers    == {"new", "deciding", "inserted", "rejected", "skipped", "committed",
                "answered", "died"}
Plans       == {"none", "crawl", "scrape", "crawlAndScrape"}
Rows        == {"none", "pending", "running", "completed", "failed"}
CrawlTasks  == {"none", "queued", "done", "lost"} \cup CrawlRunning
ScrapeTasks == {"none", "queued", "fetching", "fanned", "done", "lost"}

TypeInv ==
    /\ req \in [Requests -> Handlers]
    /\ plan \in [Requests -> Plans]
    /\ target \in [Requests -> Requests]
    /\ coll \in [Requests -> Collections \cup {NoCollection}]
    /\ crawlStatus \in [Requests -> Rows]
    /\ hasResult \in [Requests -> BOOLEAN]
    /\ finishedAt \in [Requests -> 0 .. Cardinality(Requests)]
    /\ indexed \in [Requests -> BOOLEAN]
    /\ links \in [Requests -> 0 .. MaxLinks]
    /\ file \in [Requests -> -1 .. MaxLinks]
    /\ scrapeStatus \in [Requests -> Rows]
    /\ pages \in [Requests -> -1 .. MaxLinks]
    /\ crawlTask \in [Requests -> CrawlTasks]
    /\ scrapeTask \in [Requests -> ScrapeTasks]
    /\ idle \in Nat /\ faults \in 0 .. MaxFaults

-----------------------------------------------------------------------------
(* The inductive invariant. *)

\* Rows are committed after the decision, and tasks are queued after the rows.
Ordered == \A r \in Requests :
    /\ req[r] # "answered" => crawlTask[r] = "none" /\ scrapeTask[r] = "none"
    /\ req[r] \notin {"committed", "answered", "died"} =>
           crawlStatus[r] = "none" /\ scrapeStatus[r] = "none"
    /\ req[r] = "deciding" => plan[r] = "scrape"
    /\ req[r] \in {"inserted", "committed"} => plan[r] # "none"
    /\ crawlTask[r] # "none" => plan[r] \in {"crawl", "crawlAndScrape"}
    /\ scrapeTask[r] # "none" => plan[r] \in {"scrape", "crawlAndScrape"}

\* What the state of a crawl task says of its row, result and file.
Crawls == \A c \in Requests :
    /\ crawlStatus[c] = "completed" => hasResult[c]
    /\ hasResult[c] => crawlTask[c] \in {"writing", "handover", "failing", "done", "lost"}
    /\ crawlTask[c] \in {"writing", "handover"} => crawlStatus[c] = "completed"
    /\ crawlTask[c] = "failing" => crawlStatus[c] = "failed"
    /\ crawlTask[c] \in {"handover", "failing"} => plan[c] = "crawlAndScrape"
    /\ \/ crawlTask[c] = "handover"
       \/ crawlTask[c] = "done" /\ crawlStatus[c] = "completed"
       => file[c] = links[c]

\* A scrape names a crawl that has a result, and comes after its own crawl.
Scrapes == \A s \in Requests :
    /\ plan[s] \in {"crawl", "crawlAndScrape"} => target[s] = s
    /\ plan[s] = "scrape" => hasResult[target[s]]
    /\ plan[s] = "crawlAndScrape" /\ scrapeTask[s] # "none" =>
           crawlTask[s] = "done" /\ hasResult[s]
    /\ scrapeStatus[s] = "completed" => scrapeTask[s] = "done" /\ pages[s] # -1
    /\ scrapeTask[s] = "fanned" => pages[s] # -1
    /\ pages[s] # -1 => scrapeTask[s] \in {"fanned", "done", "lost"}

\* There is a completed scrape behind every flag and every "skipped".
Evidence(c, q) == \E s \in Requests :
    target[s] = c /\ coll[s] = q /\ scrapeStatus[s] = "completed"

Evident ==
    /\ \A c \in Requests : indexed[c] => Evidence(c, NoCollection)
    /\ \A r \in Requests : req[r] = "skipped" => Evidence(target[r], coll[r])

\* With one worker two tasks never run together, so a scrape reads the file of a crawl
\* whose task has ended.
OneWorker == NumWorkers = 1 =>
    /\ idle \in {0, 1}
    /\ \A r \in Requests :
           crawlTask[r] \in CrawlRunning \/ scrapeTask[r] = "fetching" => idle = 0
    /\ \A r, s \in Requests :
        /\ crawlTask[r] \in CrawlRunning /\ crawlTask[s] \in CrawlRunning => r = s
        /\ scrapeTask[r] = "fetching" /\ scrapeTask[s] = "fetching" => r = s
        /\ ~(crawlTask[r] \in CrawlRunning /\ scrapeTask[s] = "fetching")

Covered == NumWorkers = 1 => \A s \in Requests : pages[s] # -1 =>
    /\ crawlTask[target[s]] \in {"done", "lost"}
    /\ Sound(target[s]) => pages[s] = links[target[s]]

\* Without faults a crawl that has a result is COMPLETED, and only its own crawl makes a
\* scrape fail.
Faultless == faults = 0 => \A c \in Requests :
    /\ crawlTask[c] # "lost"
    /\ crawlTask[c] = "failing" => ~hasResult[c]
    /\ crawlTask[c] = "done" /\ hasResult[c] => crawlStatus[c] = "completed"
    /\ NumWorkers = 1 /\ scrapeStatus[c] = "failed" =>
           plan[c] = "crawlAndScrape" /\ crawlStatus[c] = "failed" /\ crawlTask[c] = "done"

IInv == /\ TypeInv /\ Ordered /\ Crawls /\ Scrapes /\ Evident
        /\ OneWorker /\ Covered /\ Faultless

-----------------------------------------------------------------------------
(* Lemmas. *)

(* Every set of naturals that is not empty has a least element. *)
LEMMA NatMinimum ==
  ASSUME NEW T \in SUBSET Nat, T # {}
  PROVE  \E n \in T : \A m \in T : n <= m
<1> DEFINE less == OpToRel(<, Nat)
<1>1. IsWellFoundedOn(less, Nat)
  BY NatLessThanWellFounded
<1>2. \A m, n \in Nat : <<m, n>> \in less <=> m < n
  BY DEF OpToRel
<1> HIDE DEF less
<1>3. PICK n \in T : \A m \in T : <<m, n>> \notin less
  BY <1>1, WFMin
<1>4. ASSUME NEW m \in T PROVE n <= m
  <2>1. m \in Nat /\ n \in Nat /\ ~(m < n)
    BY <1>2, <1>3
  <2> QED
    BY <2>1
<1> QED
  BY <1>4

(* find_completed_by_config finds a crawl if there is one. *)
LEMMA Latest ==
  ASSUME TypeInv, CompletedCrawls # {}
  PROVE  LatestCrawl \in CompletedCrawls
<1> DEFINE N == Cardinality(Requests)
           T == {N - finishedAt[c] : c \in CompletedCrawls}
<1>1. N \in Nat
  BY FS_CardinalityType, PipelineAssumption
<1>2. \A c \in CompletedCrawls : finishedAt[c] \in 0 .. N
  BY DEF TypeInv, CompletedCrawls
<1> HIDE DEF N
<1>3. T \in SUBSET Nat /\ T # {}
  BY <1>1, <1>2
<1>4. PICK n \in T : \A m \in T : n <= m
  BY <1>3, NatMinimum
<1>5. PICK c \in CompletedCrawls : n = N - finishedAt[c]
  BY <1>4
<1>6. ASSUME NEW d \in CompletedCrawls PROVE finishedAt[d] <= finishedAt[c]
  <2>1. N - finishedAt[c] <= N - finishedAt[d]
    BY <1>4, <1>5
  <2>2. finishedAt[c] \in 0 .. N /\ finishedAt[d] \in 0 .. N
    BY <1>2
  <2> QED
    BY <1>1, <2>1, <2>2
<1> QED
  BY <1>6 DEF LatestCrawl

(* The rank of a finish that is later than all others. *)
LEMMA Ranks ==
  ASSUME TypeInv, NEW c \in Requests
  PROVE  1 + Cardinality({d \in Requests \ {c} : finishedAt[d] > 0}) \in 0 .. Cardinality(Requests)
<1>1. /\ IsFiniteSet(Requests \ {c})
      /\ Cardinality(Requests \ {c}) = Cardinality(Requests) - 1
  BY FS_RemoveElement, PipelineAssumption
<1>2. /\ Cardinality({d \in Requests \ {c} : finishedAt[d] > 0}) <= Cardinality(Requests \ {c})
      /\ IsFiniteSet({d \in Requests \ {c} : finishedAt[d] > 0})
  BY <1>1, FS_Subset
<1> QED
  BY <1>1, <1>2, FS_CardinalityType, PipelineAssumption

(* The only worker leaves no other task running when it ends one. *)
LEMMA CrawlFrees ==
  ASSUME IInv, NEW r \in Requests, crawlTask[r] \in CrawlRunning, idle' = idle + 1,
         NEW to \in {"done", "lost"}, crawlTask' = [crawlTask EXCEPT ![r] = to],
         \A s \in Requests : scrapeTask'[s] = "fetching" => scrapeTask[s] = "fetching"
  PROVE  OneWorker'
<1> SUFFICES ASSUME NumWorkers = 1 PROVE OneWorker'
  BY DEF OneWorker
<1>1. idle' = 1
  BY DEF IInv, OneWorker
<1>2. \A s \in Requests : crawlTask'[s] = IF s = r THEN to ELSE crawlTask[s]
  BY DEF IInv, TypeInv
<1>3. \A s \in Requests : crawlTask'[s] \notin CrawlRunning /\ scrapeTask'[s] # "fetching"
  BY <1>2 DEF IInv, OneWorker, CrawlRunning
<1> QED
  BY <1>1, <1>3 DEF OneWorker

LEMMA ScrapeFrees ==
  ASSUME IInv, NEW r \in Requests, scrapeTask[r] = "fetching", idle' = idle + 1,
         NEW to \in {"done", "fanned", "lost"}, scrapeTask' = [scrapeTask EXCEPT ![r] = to],
         UNCHANGED crawlTask
  PROVE  OneWorker'
<1> SUFFICES ASSUME NumWorkers = 1 PROVE OneWorker'
  BY DEF OneWorker
<1>1. idle' = 1
  BY DEF IInv, OneWorker
<1>2. \A s \in Requests : scrapeTask'[s] = IF s = r THEN to ELSE scrapeTask[s]
  BY DEF IInv, TypeInv
<1>3. \A s \in Requests : crawlTask'[s] \notin CrawlRunning /\ scrapeTask'[s] # "fetching"
  BY <1>2 DEF IInv, OneWorker
<1> QED
  BY <1>1, <1>3 DEF OneWorker

-----------------------------------------------------------------------------
(* Requests arrive. *)

LEMMA DecideInv ==
  ASSUME IInv, NEW r \in Requests, NEW c \in Requests, NEW q \in Collections \cup {NoCollection},
         NEW phase \in {"deciding", "inserted", "rejected", "skipped"}, NEW what \in Plans,
         Decide(r, phase, what, c, q),
         what \in {"crawl", "crawlAndScrape"} => c = r,
         what = "scrape" => hasResult[c],
         phase = "deciding" => what = "scrape",
         phase = "inserted" => what # "none",
         phase = "skipped" => Evidence(c, q)
  PROVE  IInv'
<1> USE DEF Decide, crawlVars, scrapeVars
<1>1. /\ \A s \in Requests : req'[s] = IF s = r THEN phase ELSE req[s]
      /\ \A s \in Requests : plan'[s] = IF s = r THEN what ELSE plan[s]
      /\ \A s \in Requests : target'[s] = IF s = r THEN c ELSE target[s]
      /\ \A s \in Requests : coll'[s] = IF s = r THEN q ELSE coll[s]
  BY DEF IInv, TypeInv
<1>2. /\ req[r] = "new" /\ crawlStatus[r] = "none" /\ scrapeStatus[r] = "none"
      /\ crawlTask[r] = "none" /\ scrapeTask[r] = "none" /\ pages[r] = -1
  BY DEF IInv, Ordered, Scrapes
<1>3. TypeInv' /\ Ordered'
  BY <1>1, <1>2 DEF IInv, TypeInv, Ordered, Handlers
<1>4. Crawls' /\ Scrapes'
  BY <1>1, <1>2 DEF IInv, Crawls, Scrapes, CrawlRunning
<1>5. \A d \in Requests : \A p : Evidence(d, p) => Evidence(d, p)'
  BY <1>1, <1>2 DEF Evidence
<1>6. Evident'
  BY <1>1, <1>5 DEF IInv, TypeInv, Evident
<1>7. OneWorker' /\ Covered' /\ Faultless'
  BY <1>1, <1>2 DEF IInv, TypeInv, OneWorker, Covered, Faultless, Sound
<1> QED
  BY <1>3, <1>4, <1>6, <1>7 DEF IInv

LEMMA AlreadyEvident ==
  ASSUME IInv, NEW c \in Requests, NEW q, AlreadyIndexed(c, q) PROVE Evidence(c, q)
  BY DEF IInv, TypeInv, Evident, AlreadyIndexed, CompletedScrapes, Evidence

LEMMA ArriveInv == ASSUME IInv, NEW r \in Requests, Arrive(r) PROVE IInv'
<1>1. CASE RequestCrawl(r)
  BY <1>1, DecideInv DEF RequestCrawl, Plans
<1>2. CASE RequestScrape(r)
  BY <1>2, DecideInv DEF RequestScrape, Plans
<1>3. CASE RequestPipeline(r)
  <2>1. PICK q \in Collections \cup {NoCollection} :
          \/ CompletedCrawls = {} /\ Decide(r, "inserted", "crawlAndScrape", r, q)
          \/ /\ CompletedCrawls # {} /\ AlreadyIndexed(LatestCrawl, q)
             /\ Decide(r, "skipped", "none", LatestCrawl, q)
          \/ /\ CompletedCrawls # {} /\ ~AlreadyIndexed(LatestCrawl, q)
             /\ Decide(r, "deciding", "scrape", LatestCrawl, q)
    BY <1>3 DEF RequestPipeline
  <2>2. CASE CompletedCrawls = {}
    BY <2>1, <2>2, DecideInv DEF Plans
  <2>3. CASE CompletedCrawls # {}
    <3>1. LatestCrawl \in Requests /\ hasResult[LatestCrawl]
      BY <2>3, Latest DEF IInv, Crawls, CompletedCrawls
    <3> DEFINE c == LatestCrawl
    <3>2. AlreadyIndexed(c, q) => Evidence(c, q)
      BY <3>1, AlreadyEvident
    <3>3. \/ AlreadyIndexed(c, q) /\ Decide(r, "skipped", "none", c, q)
          \/ Decide(r, "deciding", "scrape", c, q)
      BY <2>1, <2>3
    <3>4. c \in Requests /\ hasResult[c]
      BY <3>1
    <3> HIDE DEF c
    <3> QED
      BY <3>2, <3>3, <3>4, DecideInv DEF Plans
  <2> QED
    BY <2>2, <2>3
<1> QED
  BY <1>1, <1>2, <1>3 DEF Arrive

-----------------------------------------------------------------------------
(* Everything else: one step per action, and one lemma per part of the invariant. *)

Internal(r) == Handle(r) \/ RunCrawl(r) \/ FailCrawl(r) \/ RunScrape(r) \/ FaultStep(r)

LEMMA TypeStep == ASSUME IInv, NEW r \in Requests, Internal(r) PROVE TypeInv'
<1> USE DEF apiVars, crawlVars, scrapeVars
<1>1. CASE CommitRows(r)
  BY <1>1, PipelineAssumption DEF IInv, TypeInv, Handlers, Rows, CrawlTasks,
      ScrapeTasks, CrawlRunning, CommitRows
<1>2. CASE InsertScrape(r)
  BY <1>2, PipelineAssumption DEF IInv, TypeInv, Handlers, Rows, CrawlTasks,
      ScrapeTasks, CrawlRunning, InsertScrape
<1>3. CASE EnqueueTask(r)
  BY <1>3, PipelineAssumption DEF IInv, TypeInv, Handlers, Rows, CrawlTasks,
      ScrapeTasks, CrawlRunning, EnqueueTask
<1>4. CASE TakeCrawl(r)
  BY <1>4, PipelineAssumption DEF IInv, TypeInv, Handlers, Rows, CrawlTasks,
      ScrapeTasks, CrawlRunning, TakeCrawl, GoTo, TakeWorker
<1>5. CASE CompleteCrawl(r)
  <2>1. finishedAt' \in [Requests -> 0 .. Cardinality(Requests)]
    BY <1>5, Ranks DEF IInv, TypeInv, CompleteCrawl, Finish
  <2> QED
    BY <1>5, <2>1, PipelineAssumption DEF IInv, TypeInv, Rows, CrawlTasks, CrawlRunning,
        CompleteCrawl, GoTo, Finish
<1>6. CASE WriteLinks(r)
  BY <1>6, PipelineAssumption DEF IInv, TypeInv, Handlers, Rows, CrawlTasks,
      ScrapeTasks, CrawlRunning, WriteLinks
<1>7. CASE LinksWritten(r)
  BY <1>7, PipelineAssumption DEF IInv, TypeInv, Handlers, Rows, CrawlTasks,
      ScrapeTasks, CrawlRunning, LinksWritten, GoTo, FreeWorker
<1>8. CASE HandOver(r)
  BY <1>8, PipelineAssumption DEF IInv, TypeInv, Handlers, Rows, CrawlTasks,
      ScrapeTasks, CrawlRunning, HandOver, GoTo, FreeWorker
<1>9. CASE FailScrapeToo(r)
  BY <1>9, PipelineAssumption DEF IInv, TypeInv, Handlers, Rows, CrawlTasks,
      ScrapeTasks, CrawlRunning, FailScrapeToo, GoTo, FreeWorker
<1>10. CASE FailCrawl(r)
  <2>1. finishedAt' \in [Requests -> 0 .. Cardinality(Requests)]
    BY <1>10, Ranks DEF IInv, TypeInv, FailCrawl, Finish
  <2> QED
    BY <1>10, <2>1, PipelineAssumption DEF IInv, TypeInv, Rows, CrawlTasks, CrawlRunning,
        FailCrawl, Finish, Fault, FreeWorker
<1>11. CASE TakeScrape(r)
  BY <1>11, PipelineAssumption DEF IInv, TypeInv, Handlers, Rows, CrawlTasks,
      ScrapeTasks, CrawlRunning, TakeScrape, TakeWorker
<1>12. CASE FanOut(r)
  BY <1>12, PipelineAssumption DEF IInv, TypeInv, Handlers, Rows, CrawlTasks,
      ScrapeTasks, CrawlRunning, FanOut, FreeWorker
<1>13. CASE LinksUnreadable(r)
  BY <1>13, PipelineAssumption DEF IInv, TypeInv, Handlers, Rows, CrawlTasks,
      ScrapeTasks, CrawlRunning, LinksUnreadable, EndScrapeTask, FreeWorker
<1>14. CASE FinishScrape(r)
  BY <1>14, PipelineAssumption DEF IInv, TypeInv, Handlers, Rows, CrawlTasks,
      ScrapeTasks, CrawlRunning, FinishScrape, EndScrapeTask
<1>15. CASE ApiDies(r)
  BY <1>15, PipelineAssumption DEF IInv, TypeInv, Handlers, Rows, CrawlTasks,
      ScrapeTasks, CrawlRunning, ApiDies, Fault
<1>16. CASE CrawlKilled(r)
  BY <1>16, PipelineAssumption DEF IInv, TypeInv, Handlers, Rows, CrawlTasks,
      ScrapeTasks, CrawlRunning, CrawlKilled, Fault, FreeWorker
<1>17. CASE FailScrape(r)
  BY <1>17, PipelineAssumption DEF IInv, TypeInv, Handlers, Rows, CrawlTasks,
      ScrapeTasks, CrawlRunning, FailScrape, Fault, EndScrapeTask, FreeWorker
<1>18. CASE ScrapeKilled(r)
  BY <1>18, PipelineAssumption DEF IInv, TypeInv, Handlers, Rows, CrawlTasks,
      ScrapeTasks, CrawlRunning, ScrapeKilled, Fault, FreeWorker
<1> QED
  BY <1>1, <1>2, <1>3, <1>4, <1>5, <1>6, <1>7, <1>8, <1>9, <1>10, <1>11, <1>12, <1>13,
      <1>14, <1>15, <1>16, <1>17, <1>18 DEF Internal, Handle, RunCrawl,
     RunScrape, FaultStep

LEMMA OrderedStep == ASSUME IInv, NEW r \in Requests, Internal(r) PROVE Ordered'
<1> USE DEF apiVars, crawlVars, scrapeVars
<1>1. CASE CommitRows(r)
  BY <1>1 DEF IInv, TypeInv, Ordered, CrawlRunning, CommitRows
<1>2. CASE InsertScrape(r)
  BY <1>2 DEF IInv, TypeInv, Ordered, CrawlRunning, InsertScrape
<1>3. CASE EnqueueTask(r)
  BY <1>3 DEF IInv, TypeInv, Ordered, EnqueueTask, Plans
<1>4. CASE TakeCrawl(r)
  BY <1>4 DEF IInv, TypeInv, Ordered, CrawlRunning, TakeCrawl, GoTo, TakeWorker
<1>5. CASE CompleteCrawl(r)
  BY <1>5 DEF IInv, TypeInv, Ordered, CrawlRunning, CompleteCrawl, GoTo, Finish
<1>6. CASE WriteLinks(r)
  BY <1>6 DEF IInv, TypeInv, Ordered, CrawlRunning, WriteLinks
<1>7. CASE LinksWritten(r)
  BY <1>7 DEF IInv, TypeInv, Ordered, CrawlRunning, LinksWritten, GoTo, FreeWorker
<1>8. CASE HandOver(r)
  BY <1>8 DEF IInv, TypeInv, Ordered, Crawls, HandOver, GoTo, FreeWorker
<1>9. CASE FailScrapeToo(r)
  BY <1>9 DEF IInv, TypeInv, Ordered, CrawlRunning, FailScrapeToo, GoTo, FreeWorker
<1>10. CASE FailCrawl(r)
  BY <1>10 DEF IInv, TypeInv, Ordered, CrawlRunning, FailCrawl, Fault, Finish,
      FreeWorker
<1>11. CASE TakeScrape(r)
  BY <1>11 DEF IInv, TypeInv, Ordered, CrawlRunning, TakeScrape, TakeWorker
<1>12. CASE FanOut(r)
  BY <1>12 DEF IInv, TypeInv, Ordered, CrawlRunning, FanOut, FreeWorker
<1>13. CASE LinksUnreadable(r)
  BY <1>13 DEF IInv, TypeInv, Ordered, CrawlRunning, LinksUnreadable, EndScrapeTask,
      FreeWorker
<1>14. CASE FinishScrape(r)
  BY <1>14 DEF IInv, TypeInv, Ordered, CrawlRunning, FinishScrape, EndScrapeTask
<1>15. CASE ApiDies(r)
  BY <1>15 DEF IInv, TypeInv, Ordered, CrawlRunning, ApiDies, Fault
<1>16. CASE CrawlKilled(r)
  BY <1>16 DEF IInv, TypeInv, Ordered, CrawlRunning, CrawlKilled, Fault, FreeWorker
<1>17. CASE FailScrape(r)
  BY <1>17 DEF IInv, TypeInv, Ordered, CrawlRunning, FailScrape, Fault, EndScrapeTask,
      FreeWorker
<1>18. CASE ScrapeKilled(r)
  BY <1>18 DEF IInv, TypeInv, Ordered, CrawlRunning, ScrapeKilled, Fault, FreeWorker
<1> QED
  BY <1>1, <1>2, <1>3, <1>4, <1>5, <1>6, <1>7, <1>8, <1>9, <1>10, <1>11, <1>12, <1>13,
      <1>14, <1>15, <1>16, <1>17, <1>18 DEF Internal, Handle, RunCrawl,
     RunScrape, FaultStep

LEMMA CrawlsStep == ASSUME IInv, NEW r \in Requests, Internal(r) PROVE Crawls'
<1> USE DEF apiVars, crawlVars, scrapeVars
<1>1. CASE CommitRows(r)
  BY <1>1 DEF IInv, TypeInv, Ordered, Crawls, CrawlRunning, CommitRows
<1>2. CASE InsertScrape(r)
  BY <1>2 DEF IInv, TypeInv, Ordered, Crawls, CrawlRunning, InsertScrape
<1>3. CASE EnqueueTask(r)
  BY <1>3 DEF IInv, TypeInv, Ordered, Crawls, CrawlRunning, EnqueueTask
<1>4. CASE TakeCrawl(r)
  BY <1>4 DEF IInv, TypeInv, Ordered, Crawls, CrawlRunning, TakeCrawl, GoTo,
      TakeWorker
<1>5. CASE CompleteCrawl(r)
  BY <1>5 DEF IInv, TypeInv, Ordered, Crawls, CrawlRunning, CompleteCrawl, GoTo,
      Finish
<1>6. CASE WriteLinks(r)
  BY <1>6 DEF IInv, TypeInv, Ordered, Crawls, CrawlRunning, WriteLinks
<1>7. CASE LinksWritten(r)
  BY <1>7 DEF IInv, TypeInv, Ordered, Crawls, CrawlRunning, LinksWritten, GoTo,
      FreeWorker
<1>8. CASE HandOver(r)
  BY <1>8 DEF IInv, TypeInv, Ordered, Crawls, CrawlRunning, HandOver, GoTo, FreeWorker
<1>9. CASE FailScrapeToo(r)
  BY <1>9 DEF IInv, TypeInv, Ordered, Crawls, CrawlRunning, FailScrapeToo, GoTo,
      FreeWorker
<1>10. CASE FailCrawl(r)
  BY <1>10 DEF IInv, TypeInv, Ordered, Crawls, CrawlRunning, FailCrawl, Fault, Finish,
      FreeWorker
<1>11. CASE TakeScrape(r)
  BY <1>11 DEF IInv, TypeInv, Ordered, Crawls, CrawlRunning, TakeScrape, TakeWorker
<1>12. CASE FanOut(r)
  BY <1>12 DEF IInv, TypeInv, Ordered, Crawls, CrawlRunning, FanOut, FreeWorker
<1>13. CASE LinksUnreadable(r)
  BY <1>13 DEF IInv, TypeInv, Ordered, Crawls, CrawlRunning, LinksUnreadable,
      EndScrapeTask, FreeWorker
<1>14. CASE FinishScrape(r)
  BY <1>14 DEF IInv, TypeInv, Ordered, Crawls, CrawlRunning, FinishScrape,
      EndScrapeTask
<1>15. CASE ApiDies(r)
  BY <1>15 DEF IInv, TypeInv, Ordered, Crawls, CrawlRunning, ApiDies, Fault
<1>16. CASE CrawlKilled(r)
  BY <1>16 DEF IInv, TypeInv, Ordered, Crawls, CrawlRunning, CrawlKilled, Fault,
      FreeWorker
<1>17. CASE FailScrape(r)
  BY <1>17 DEF IInv, TypeInv, Ordered, Crawls, CrawlRunning, FailScrape, Fault,
      EndScrapeTask, FreeWorker
<1>18. CASE ScrapeKilled(r)
  BY <1>18 DEF IInv, TypeInv, Ordered, Crawls, CrawlRunning, ScrapeKilled, Fault,
      FreeWorker
<1> QED
  BY <1>1, <1>2, <1>3, <1>4, <1>5, <1>6, <1>7, <1>8, <1>9, <1>10, <1>11, <1>12, <1>13,
      <1>14, <1>15, <1>16, <1>17, <1>18 DEF Internal, Handle, RunCrawl,
     RunScrape, FaultStep

LEMMA ScrapesStep == ASSUME IInv, NEW r \in Requests, Internal(r) PROVE Scrapes'
<1> USE DEF apiVars, crawlVars, scrapeVars
<1>1. CASE CommitRows(r)
  BY <1>1 DEF IInv, TypeInv, Ordered, Crawls, Scrapes, CrawlRunning, CommitRows
<1>2. CASE InsertScrape(r)
  BY <1>2 DEF IInv, TypeInv, Ordered, Crawls, Scrapes, CrawlRunning, InsertScrape
<1>3. CASE EnqueueTask(r)
  BY <1>3 DEF IInv, TypeInv, Ordered, Crawls, Scrapes, CrawlRunning, EnqueueTask
<1>4. CASE TakeCrawl(r)
  BY <1>4 DEF IInv, TypeInv, Ordered, Crawls, Scrapes, CrawlRunning, TakeCrawl, GoTo,
      TakeWorker
<1>5. CASE CompleteCrawl(r)
  BY <1>5 DEF IInv, TypeInv, Ordered, Crawls, Scrapes, CrawlRunning, CompleteCrawl,
      GoTo, Finish
<1>6. CASE WriteLinks(r)
  BY <1>6 DEF IInv, TypeInv, Ordered, Crawls, Scrapes, CrawlRunning, WriteLinks
<1>7. CASE LinksWritten(r)
  BY <1>7 DEF IInv, TypeInv, Ordered, Crawls, Scrapes, CrawlRunning, LinksWritten,
      GoTo, FreeWorker
<1>8. CASE HandOver(r)
  BY <1>8 DEF IInv, TypeInv, Ordered, Crawls, Scrapes, CrawlRunning, HandOver, GoTo,
      FreeWorker
<1>9. CASE FailScrapeToo(r)
  BY <1>9 DEF IInv, TypeInv, Ordered, Crawls, Scrapes, CrawlRunning, FailScrapeToo,
      GoTo, FreeWorker
<1>10. CASE FailCrawl(r)
  BY <1>10 DEF IInv, TypeInv, Ordered, Crawls, Scrapes, CrawlRunning, FailCrawl,
      Fault, Finish, FreeWorker
<1>11. CASE TakeScrape(r)
  BY <1>11 DEF IInv, TypeInv, Ordered, Crawls, Scrapes, CrawlRunning, TakeScrape,
      TakeWorker
<1>12. CASE FanOut(r)
  BY <1>12 DEF IInv, TypeInv, Ordered, Crawls, Scrapes, CrawlRunning, FanOut,
      FreeWorker
<1>13. CASE LinksUnreadable(r)
  BY <1>13 DEF IInv, TypeInv, Ordered, Crawls, Scrapes, CrawlRunning, LinksUnreadable,
      EndScrapeTask, FreeWorker
<1>14. CASE FinishScrape(r)
  BY <1>14 DEF IInv, TypeInv, Ordered, Crawls, Scrapes, CrawlRunning, FinishScrape,
      EndScrapeTask
<1>15. CASE ApiDies(r)
  BY <1>15 DEF IInv, TypeInv, Ordered, Crawls, Scrapes, CrawlRunning, ApiDies, Fault
<1>16. CASE CrawlKilled(r)
  BY <1>16 DEF IInv, TypeInv, Ordered, Crawls, Scrapes, CrawlRunning, CrawlKilled,
      Fault, FreeWorker
<1>17. CASE FailScrape(r)
  BY <1>17 DEF IInv, TypeInv, Ordered, Crawls, Scrapes, CrawlRunning, FailScrape,
      Fault, EndScrapeTask, FreeWorker
<1>18. CASE ScrapeKilled(r)
  BY <1>18 DEF IInv, TypeInv, Ordered, Crawls, Scrapes, CrawlRunning, ScrapeKilled,
      Fault, FreeWorker
<1> QED
  BY <1>1, <1>2, <1>3, <1>4, <1>5, <1>6, <1>7, <1>8, <1>9, <1>10, <1>11, <1>12, <1>13,
      <1>14, <1>15, <1>16, <1>17, <1>18 DEF Internal, Handle, RunCrawl,
     RunScrape, FaultStep

LEMMA EvidentStep == ASSUME IInv, NEW r \in Requests, Internal(r) PROVE Evident'
<1> USE DEF apiVars, crawlVars, scrapeVars
<1>1. CASE CommitRows(r)
  BY <1>1 DEF IInv, TypeInv, Ordered, Scrapes, Evident, Evidence, CrawlRunning,
      CommitRows
<1>2. CASE InsertScrape(r)
  BY <1>2 DEF IInv, TypeInv, Ordered, Scrapes, Evident, Evidence, CrawlRunning,
      InsertScrape
<1>3. CASE EnqueueTask(r)
  BY <1>3 DEF IInv, TypeInv, Ordered, Scrapes, Evident, Evidence, CrawlRunning,
      EnqueueTask
<1>4. CASE TakeCrawl(r)
  BY <1>4 DEF IInv, TypeInv, Ordered, Scrapes, Evident, Evidence, CrawlRunning,
      TakeCrawl, GoTo, TakeWorker
<1>5. CASE CompleteCrawl(r)
  BY <1>5 DEF IInv, TypeInv, Ordered, Scrapes, Evident, Evidence, CrawlRunning,
      CompleteCrawl, GoTo, Finish
<1>6. CASE WriteLinks(r)
  BY <1>6 DEF IInv, TypeInv, Ordered, Scrapes, Evident, Evidence, CrawlRunning,
      WriteLinks
<1>7. CASE LinksWritten(r)
  BY <1>7 DEF IInv, TypeInv, Ordered, Scrapes, Evident, Evidence, CrawlRunning,
      LinksWritten, GoTo, FreeWorker
<1>8. CASE HandOver(r)
  BY <1>8 DEF IInv, TypeInv, Ordered, Scrapes, Evident, Evidence, CrawlRunning,
      HandOver, GoTo, FreeWorker
<1>9. CASE FailScrapeToo(r)
  BY <1>9 DEF IInv, TypeInv, Ordered, Scrapes, Evident, Evidence, CrawlRunning,
      FailScrapeToo, GoTo, FreeWorker
<1>10. CASE FailCrawl(r)
  BY <1>10 DEF IInv, TypeInv, Ordered, Scrapes, Evident, Evidence, CrawlRunning,
      FailCrawl, Fault, Finish, FreeWorker
<1>11. CASE TakeScrape(r)
  BY <1>11 DEF IInv, TypeInv, Ordered, Scrapes, Evident, Evidence, CrawlRunning,
      TakeScrape, TakeWorker
<1>12. CASE FanOut(r)
  BY <1>12 DEF IInv, TypeInv, Ordered, Scrapes, Evident, Evidence, CrawlRunning,
      FanOut, FreeWorker
<1>13. CASE LinksUnreadable(r)
  BY <1>13 DEF IInv, TypeInv, Ordered, Scrapes, Evident, Evidence, CrawlRunning,
      LinksUnreadable, EndScrapeTask, FreeWorker
<1>14. CASE FinishScrape(r)
  BY <1>14 DEF IInv, TypeInv, Ordered, Scrapes, Evident, Evidence, CrawlRunning,
      FinishScrape, EndScrapeTask
<1>15. CASE ApiDies(r)
  BY <1>15 DEF IInv, TypeInv, Ordered, Scrapes, Evident, Evidence, CrawlRunning,
      ApiDies, Fault
<1>16. CASE CrawlKilled(r)
  BY <1>16 DEF IInv, TypeInv, Ordered, Scrapes, Evident, Evidence, CrawlRunning,
      CrawlKilled, Fault, FreeWorker
<1>17. CASE FailScrape(r)
  BY <1>17 DEF IInv, TypeInv, Ordered, Scrapes, Evident, Evidence, CrawlRunning,
      FailScrape, Fault, EndScrapeTask, FreeWorker
<1>18. CASE ScrapeKilled(r)
  BY <1>18 DEF IInv, TypeInv, Ordered, Scrapes, Evident, Evidence, CrawlRunning,
      ScrapeKilled, Fault, FreeWorker
<1> QED
  BY <1>1, <1>2, <1>3, <1>4, <1>5, <1>6, <1>7, <1>8, <1>9, <1>10, <1>11, <1>12, <1>13,
      <1>14, <1>15, <1>16, <1>17, <1>18 DEF Internal, Handle, RunCrawl,
     RunScrape, FaultStep

LEMMA OneWorkerStep == ASSUME IInv, NEW r \in Requests, Internal(r) PROVE OneWorker'
<1> USE DEF apiVars, crawlVars, scrapeVars
<1>1. CASE CommitRows(r)
  BY <1>1 DEF IInv, TypeInv, Ordered, OneWorker, CrawlRunning, CommitRows
<1>2. CASE InsertScrape(r)
  BY <1>2 DEF IInv, TypeInv, Ordered, OneWorker, CrawlRunning, InsertScrape
<1>3. CASE EnqueueTask(r)
  BY <1>3 DEF IInv, TypeInv, Ordered, OneWorker, CrawlRunning, EnqueueTask
<1>4. CASE TakeCrawl(r)
  BY <1>4 DEF IInv, TypeInv, Ordered, OneWorker, CrawlRunning, TakeCrawl, GoTo,
      TakeWorker
<1>5. CASE CompleteCrawl(r)
  BY <1>5 DEF IInv, TypeInv, Ordered, OneWorker, CrawlRunning, CompleteCrawl, GoTo,
      Finish
<1>6. CASE WriteLinks(r)
  BY <1>6 DEF IInv, TypeInv, Ordered, OneWorker, CrawlRunning, WriteLinks
<1>7. CASE LinksWritten(r)
  <2>1. CASE plan[r] = "crawl"
    BY <1>7, <2>1, CrawlFrees DEF CrawlRunning, LinksWritten, GoTo, FreeWorker
  <2>2. CASE plan[r] = "crawlAndScrape"
    <3>1. \A s \in Requests : crawlTask'[s] \in CrawlRunning <=> crawlTask[s] \in CrawlRunning
      BY <1>7, <2>2 DEF IInv, TypeInv, CrawlRunning, LinksWritten, GoTo
    <3>2. UNCHANGED <<scrapeTask, idle>>
      BY <1>7, <2>2 DEF LinksWritten
    <3> QED
      BY <3>1, <3>2 DEF IInv, OneWorker
  <2> QED
    BY <1>7, <2>1, <2>2 DEF LinksWritten, GoTo, FreeWorker
<1>8. CASE HandOver(r)
  BY <1>8, CrawlFrees DEF IInv, TypeInv, CrawlRunning, HandOver, GoTo, FreeWorker
<1>9. CASE FailScrapeToo(r)
  BY <1>9, CrawlFrees DEF CrawlRunning, FailScrapeToo, GoTo, FreeWorker
<1>10. CASE FailCrawl(r)
  <2>1. CASE ~(plan[r] = "crawlAndScrape")
    BY <1>10, <2>1, CrawlFrees DEF CrawlRunning, FailCrawl, FreeWorker
  <2>2. CASE plan[r] = "crawlAndScrape"
    BY <1>10, <2>2 DEF IInv, TypeInv, OneWorker, CrawlRunning, FailCrawl, FreeWorker
  <2> QED
    BY <1>10, <2>1, <2>2 DEF FailCrawl, FreeWorker
<1>11. CASE TakeScrape(r)
  BY <1>11 DEF IInv, TypeInv, Ordered, OneWorker, CrawlRunning, TakeScrape, TakeWorker
<1>12. CASE FanOut(r)
  BY <1>12, ScrapeFrees DEF FanOut, FreeWorker
<1>13. CASE LinksUnreadable(r)
  BY <1>13, ScrapeFrees DEF LinksUnreadable, EndScrapeTask, FreeWorker
<1>14. CASE FinishScrape(r)
  BY <1>14 DEF IInv, TypeInv, Ordered, OneWorker, CrawlRunning, FinishScrape,
      EndScrapeTask
<1>15. CASE ApiDies(r)
  BY <1>15 DEF IInv, TypeInv, Ordered, OneWorker, CrawlRunning, ApiDies, Fault
<1>16. CASE CrawlKilled(r)
  BY <1>16, CrawlFrees DEF CrawlRunning, CrawlKilled, Fault, FreeWorker
<1>17. CASE FailScrape(r)
  <2>1. CASE scrapeTask[r] = "fetching"
    BY <1>17, <2>1, ScrapeFrees DEF CrawlRunning, FailScrape, EndScrapeTask, FreeWorker
  <2>2. CASE scrapeTask[r] = "fanned"
    BY <1>17, <2>2 DEF IInv, TypeInv, OneWorker, CrawlRunning, FailScrape, EndScrapeTask, FreeWorker
  <2> QED
    BY <1>17, <2>1, <2>2 DEF FailScrape, EndScrapeTask, FreeWorker
<1>18. CASE ScrapeKilled(r)
  <2>1. CASE scrapeTask[r] = "fetching"
    BY <1>18, <2>1, ScrapeFrees DEF CrawlRunning, ScrapeKilled, FreeWorker
  <2>2. CASE scrapeTask[r] = "fanned"
    BY <1>18, <2>2 DEF IInv, TypeInv, OneWorker, CrawlRunning, ScrapeKilled, FreeWorker
  <2> QED
    BY <1>18, <2>1, <2>2 DEF ScrapeKilled, FreeWorker
<1> QED
  BY <1>1, <1>2, <1>3, <1>4, <1>5, <1>6, <1>7, <1>8, <1>9, <1>10, <1>11, <1>12, <1>13,
      <1>14, <1>15, <1>16, <1>17, <1>18 DEF Internal, Handle, RunCrawl,
     RunScrape, FaultStep

LEMMA CoveredStep == ASSUME IInv, NEW r \in Requests, Internal(r) PROVE Covered'
<1> USE DEF apiVars, crawlVars, scrapeVars
<1>1. CASE CommitRows(r)
  BY <1>1 DEF IInv, TypeInv, Ordered, Crawls, Scrapes, OneWorker, Covered, Sound,
      CrawlRunning, CommitRows
<1>2. CASE InsertScrape(r)
  BY <1>2 DEF IInv, TypeInv, Ordered, Crawls, Scrapes, OneWorker, Covered, Sound,
      CrawlRunning, InsertScrape
<1>3. CASE EnqueueTask(r)
  BY <1>3 DEF IInv, TypeInv, Ordered, Crawls, Scrapes, OneWorker, Covered, Sound,
      CrawlRunning, EnqueueTask
<1>4. CASE TakeCrawl(r)
  BY <1>4 DEF IInv, TypeInv, Ordered, Crawls, Scrapes, OneWorker, Covered, Sound,
      CrawlRunning, TakeCrawl, GoTo, TakeWorker
<1>5. CASE CompleteCrawl(r)
  BY <1>5 DEF IInv, TypeInv, Ordered, Crawls, Scrapes, OneWorker, Covered, Sound,
      CrawlRunning, CompleteCrawl, GoTo, Finish
<1>6. CASE WriteLinks(r)
  BY <1>6 DEF IInv, TypeInv, Ordered, Crawls, Scrapes, OneWorker, Covered, Sound,
      CrawlRunning, WriteLinks
<1>7. CASE LinksWritten(r)
  BY <1>7 DEF IInv, TypeInv, Ordered, Crawls, Scrapes, OneWorker, Covered, Sound,
      CrawlRunning, LinksWritten, GoTo, FreeWorker
<1>8. CASE HandOver(r)
  BY <1>8 DEF IInv, TypeInv, Ordered, Crawls, Scrapes, OneWorker, Covered, Sound,
      CrawlRunning, HandOver, GoTo, FreeWorker
<1>9. CASE FailScrapeToo(r)
  BY <1>9 DEF IInv, TypeInv, Ordered, Crawls, Scrapes, OneWorker, Covered, Sound,
      CrawlRunning, FailScrapeToo, GoTo, FreeWorker
<1>10. CASE FailCrawl(r)
  BY <1>10 DEF IInv, TypeInv, Ordered, Crawls, Scrapes, OneWorker, Covered, Sound,
      CrawlRunning, FailCrawl, Fault, Finish, FreeWorker
<1>11. CASE TakeScrape(r)
  BY <1>11 DEF IInv, TypeInv, Ordered, Crawls, Scrapes, OneWorker, Covered, Sound,
      CrawlRunning, TakeScrape, TakeWorker
<1>12. CASE FanOut(r)
  BY <1>12 DEF IInv, TypeInv, Ordered, Crawls, Scrapes, OneWorker, Covered, Sound,
      CrawlRunning, FanOut, FreeWorker
<1>13. CASE LinksUnreadable(r)
  BY <1>13 DEF IInv, TypeInv, Ordered, Crawls, Scrapes, OneWorker, Covered, Sound,
      CrawlRunning, LinksUnreadable, EndScrapeTask, FreeWorker
<1>14. CASE FinishScrape(r)
  BY <1>14 DEF IInv, TypeInv, Ordered, Crawls, Scrapes, OneWorker, Covered, Sound,
      CrawlRunning, FinishScrape, EndScrapeTask
<1>15. CASE ApiDies(r)
  BY <1>15 DEF IInv, TypeInv, Ordered, Crawls, Scrapes, OneWorker, Covered, Sound,
      CrawlRunning, ApiDies, Fault
<1>16. CASE CrawlKilled(r)
  BY <1>16 DEF IInv, TypeInv, Ordered, Crawls, Scrapes, OneWorker, Covered, Sound,
      CrawlRunning, CrawlKilled, Fault, FreeWorker
<1>17. CASE FailScrape(r)
  BY <1>17 DEF IInv, TypeInv, Ordered, Crawls, Scrapes, OneWorker, Covered, Sound,
      CrawlRunning, FailScrape, Fault, EndScrapeTask, FreeWorker
<1>18. CASE ScrapeKilled(r)
  BY <1>18 DEF IInv, TypeInv, Ordered, Crawls, Scrapes, OneWorker, Covered, Sound,
      CrawlRunning, ScrapeKilled, Fault, FreeWorker
<1> QED
  BY <1>1, <1>2, <1>3, <1>4, <1>5, <1>6, <1>7, <1>8, <1>9, <1>10, <1>11, <1>12, <1>13,
      <1>14, <1>15, <1>16, <1>17, <1>18 DEF Internal, Handle, RunCrawl,
     RunScrape, FaultStep

LEMMA FaultlessStep == ASSUME IInv, NEW r \in Requests, Internal(r) PROVE Faultless'
<1> USE DEF apiVars, crawlVars, scrapeVars
<1>1. CASE CommitRows(r)
  BY <1>1 DEF IInv, TypeInv, Ordered, Crawls, Scrapes, OneWorker, Faultless,
      CrawlRunning, CommitRows
<1>2. CASE InsertScrape(r)
  BY <1>2 DEF IInv, TypeInv, Ordered, Crawls, Scrapes, OneWorker, Faultless,
      CrawlRunning, InsertScrape
<1>3. CASE EnqueueTask(r)
  BY <1>3 DEF IInv, TypeInv, Ordered, Crawls, Scrapes, OneWorker, Faultless,
      CrawlRunning, EnqueueTask
<1>4. CASE TakeCrawl(r)
  BY <1>4 DEF IInv, TypeInv, Ordered, Crawls, Scrapes, OneWorker, Faultless,
      CrawlRunning, TakeCrawl, GoTo, TakeWorker
<1>5. CASE CompleteCrawl(r)
  BY <1>5 DEF IInv, TypeInv, Ordered, Crawls, Scrapes, OneWorker, Faultless,
      CrawlRunning, CompleteCrawl, GoTo, Finish
<1>6. CASE WriteLinks(r)
  BY <1>6 DEF IInv, TypeInv, Ordered, Crawls, Scrapes, OneWorker, Faultless,
      CrawlRunning, WriteLinks
<1>7. CASE LinksWritten(r)
  BY <1>7 DEF IInv, TypeInv, Ordered, Crawls, Scrapes, OneWorker, Faultless,
      CrawlRunning, LinksWritten, GoTo, FreeWorker
<1>8. CASE HandOver(r)
  BY <1>8 DEF IInv, TypeInv, Ordered, Crawls, Scrapes, OneWorker, Faultless,
      CrawlRunning, HandOver, GoTo, FreeWorker
<1>9. CASE FailScrapeToo(r)
  BY <1>9 DEF IInv, TypeInv, Ordered, Crawls, Scrapes, OneWorker, Faultless,
      CrawlRunning, FailScrapeToo, GoTo, FreeWorker
<1>10. CASE FailCrawl(r)
  BY <1>10 DEF IInv, TypeInv, Ordered, Crawls, Scrapes, OneWorker, Faultless,
      CrawlRunning, FailCrawl, Fault, Finish, FreeWorker
<1>11. CASE TakeScrape(r)
  BY <1>11 DEF IInv, TypeInv, Ordered, Crawls, Scrapes, OneWorker, Faultless,
      CrawlRunning, TakeScrape, TakeWorker
<1>12. CASE FanOut(r)
  BY <1>12 DEF IInv, TypeInv, Ordered, Crawls, Scrapes, OneWorker, Faultless,
      CrawlRunning, FanOut, FreeWorker
<1>13. CASE LinksUnreadable(r)
  BY <1>13 DEF IInv, TypeInv, Ordered, Crawls, Scrapes, OneWorker, Faultless,
      CrawlRunning, LinksUnreadable, EndScrapeTask, FreeWorker
<1>14. CASE FinishScrape(r)
  BY <1>14 DEF IInv, TypeInv, Ordered, Crawls, Scrapes, OneWorker, Faultless,
      CrawlRunning, FinishScrape, EndScrapeTask
<1>15. CASE ApiDies(r)
  BY <1>15 DEF IInv, TypeInv, Ordered, Crawls, Scrapes, OneWorker, Faultless,
      CrawlRunning, ApiDies, Fault
<1>16. CASE CrawlKilled(r)
  BY <1>16 DEF IInv, TypeInv, Ordered, Crawls, Scrapes, OneWorker, Faultless,
      CrawlRunning, CrawlKilled, Fault, FreeWorker
<1>17. CASE FailScrape(r)
  BY <1>17 DEF IInv, TypeInv, Ordered, Crawls, Scrapes, OneWorker, Faultless,
      CrawlRunning, FailScrape, Fault, EndScrapeTask, FreeWorker
<1>18. CASE ScrapeKilled(r)
  BY <1>18 DEF IInv, TypeInv, Ordered, Crawls, Scrapes, OneWorker, Faultless,
      CrawlRunning, ScrapeKilled, Fault, FreeWorker
<1> QED
  BY <1>1, <1>2, <1>3, <1>4, <1>5, <1>6, <1>7, <1>8, <1>9, <1>10, <1>11, <1>12, <1>13,
      <1>14, <1>15, <1>16, <1>17, <1>18 DEF Internal, Handle, RunCrawl,
     RunScrape, FaultStep

-----------------------------------------------------------------------------

LEMMA InitInv == Init => IInv
<1> SUFFICES ASSUME Init PROVE IInv
  OBVIOUS
<1> USE DEF Init
<1>1. Cardinality(Requests) \in Nat
  BY FS_CardinalityType, PipelineAssumption
<1>2. TypeInv
  BY <1>1, PipelineAssumption DEF TypeInv, Handlers, Plans, Rows, CrawlTasks, ScrapeTasks
<1>3. Ordered /\ Crawls /\ Scrapes /\ Evident
  BY DEF Ordered, Crawls, Scrapes, Evident
<1>4. OneWorker /\ Covered /\ Faultless
  BY DEF OneWorker, Covered, Faultless, CrawlRunning
<1> QED
  BY <1>2, <1>3, <1>4 DEF IInv

LEMMA StutterInv == IInv /\ UNCHANGED vars => IInv'
<1> SUFFICES ASSUME IInv, UNCHANGED vars PROVE IInv'
  OBVIOUS
<1> USE DEF vars, apiVars, crawlVars, scrapeVars
<1>1. TypeInv' /\ Ordered' /\ Crawls' /\ Scrapes'
  BY DEF IInv, TypeInv, Ordered, Crawls, Scrapes
<1>2. Evident' /\ OneWorker' /\ Covered' /\ Faultless'
  BY DEF IInv, Evident, Evidence, OneWorker, Covered, Sound, Faultless
<1> QED
  BY <1>1, <1>2 DEF IInv

\* The invariant holds however requests, tasks, workers and crashes interleave.
THEOREM PipelineInvariant == Spec => []IInv
<1>1. ASSUME IInv, NEW r \in Requests, Internal(r) PROVE IInv'
  BY <1>1, TypeStep, OrderedStep, CrawlsStep, ScrapesStep, EvidentStep, OneWorkerStep,
     CoveredStep, FaultlessStep DEF IInv
<1>2. IInv /\ Next => IInv'
  BY <1>1, ArriveInv DEF Next, Internal
<1>3. IInv /\ [Next]_vars => IInv'
  BY <1>2, StutterInv
<1> QED
  BY InitInv, <1>3, PTL DEF Spec

\* A scrape task is never queued for a crawl without a result, so none raises before its
\* try: for any number of requests and of workers, and whatever crashes.
THEOREM ScrapesHaveResults == Spec => []ScrapeHasResult
<1>1. IInv => ScrapeHasResult
  BY DEF IInv, TypeInv, Ordered, Scrapes, ScrapeHasResult
<1> QED
  BY <1>1, PipelineInvariant, PTL

\* With one worker process a completed scrape has covered every link of its crawl, for any
\* number of requests that reuse it.
THEOREM ScrapesCoverCrawls ==
  ASSUME NumWorkers = 1
  PROVE  Spec => []CompletedScrapeCoversCrawl
<1>1. IInv => CompletedScrapeCoversCrawl
  BY DEF IInv, TypeInv, Scrapes, Covered, CompletedScrapeCoversCrawl
<1> QED
  BY <1>1, PipelineInvariant, PTL

\* With one worker process the answer "skipped" is true: there is a completed scrape of
\* all links of that crawl into that collection.
THEOREM SkippedAreIndexed ==
  ASSUME NumWorkers = 1
  PROVE  Spec => []SkippedIsIndexed
<1>1. ASSUME IInv PROVE SkippedIsIndexed
  <2> SUFFICES ASSUME NEW r \in Requests, req[r] = "skipped", Sound(target[r])
               PROVE  \E s \in Requests : /\ target[s] = target[r] /\ coll[s] = coll[r]
                                          /\ scrapeStatus[s] = "completed"
                                          /\ pages[s] = links[target[r]]
    BY DEF SkippedIsIndexed
  <2>1. PICK s \in Requests : target[s] = target[r] /\ coll[s] = coll[r]
                                /\ scrapeStatus[s] = "completed"
    BY <1>1 DEF IInv, Evident, Evidence
  <2> QED
    BY <1>1, <2>1 DEF IInv, Scrapes, Covered
<1> QED
  BY <1>1, PipelineInvariant, PTL

\* With one worker process and no fault, a scrape fails only when its own crawl failed.
THEOREM ScrapesFailWithTheirCrawls ==
  ASSUME NumWorkers = 1
  PROVE  Spec => []ScrapeFailsWithItsCrawl
<1>1. IInv => ScrapeFailsWithItsCrawl
  BY DEF IInv, Faultless, ScrapeFailsWithItsCrawl
<1> QED
  BY <1>1, PipelineInvariant, PTL

=============================================================================
