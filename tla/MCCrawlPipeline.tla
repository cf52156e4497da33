--------------------------- MODULE MCCrawlPipeline ---------------------------
(* CrawlPipeline with numbered requests.  Requests are interchangeable until they arrive, *)
(* so it is enough that they arrive in the order of their numbers; unlike a SYMMETRY this *)
(* reduction is sound for liveness as well.                                               *)
EXTENDS CrawlPipeline

MCRequests == 1 .. 3

InOrder == \A r \in Requests : req[r] # "new" => \A q \in 1 .. r : req[q] # "new"

\* Bound: the third request reuses a crawl, or is refused or skipped.
TwoCrawls == plan[3] \in {"none", "scrape"}

MCSpec == Init /\ [][Next /\ (InOrder /\ TwoCrawls)']_vars /\ Fairness

=============================================================================
