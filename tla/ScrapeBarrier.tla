---------------------------- MODULE ScrapeBarrier ----------------------------
(***************************************************************************)
(* What a scrape job promises, without queues, workers or Redis counters:  *)
(* every page of the job is resolved once, with vectors or with an error;  *)
(* files are published only when no page is open any more; and the job row *)
(* is COMPLETED only when every page that succeeded is published.  ScrapeJob *)
(* implements this specification.                                          *)
(***************************************************************************)
EXTENDS Naturals

CONSTANT MaxPages     \* bound on the links of a crawl

VARIABLES
    links,            \* number of links of the crawl, one page task each
    status,           \* scrape_jobs.status
    outcome,          \* how each page was resolved
    published         \* pages whose files are on disk

barrierVars == <<links, status, outcome, published>>

Pages == 0 .. (MaxPages - 1)

Outcomes == {"open", "ok", "failed"}
Statuses == {"pending", "running", "completed", "failed"}

Resolved  == \A p \in 0 .. (links - 1) : outcome[p] # "open"
Succeeded == {p \in Pages : outcome[p] = "ok"}

Init ==
    /\ links \in 0 .. MaxPages
    /\ status = "pending"
    /\ outcome = [p \in Pages |-> "open"]
    /\ published = {}

Start ==
    /\ status = "pending"
    /\ status' = "running"
    /\ UNCHANGED <<outcome, published>>

Resolve(p) ==
    /\ p < links
    /\ outcome[p] = "open"
    /\ \E r \in {"ok", "failed"} : outcome' = [outcome EXCEPT ![p] = r]
    /\ UNCHANGED <<status, published>>

Publish(p) ==
    /\ Resolved
    /\ outcome[p] = "ok"
    /\ published' = published \cup {p}
    /\ UNCHANGED <<status, outcome>>

\* The worker that finalizes reports its result whatever the row says: a job
\* that the fan-out had marked FAILED becomes COMPLETED.
Complete ==
    /\ status # "pending"
    /\ Resolved
    /\ published = Succeeded
    /\ status' = "completed"
    /\ UNCHANGED <<outcome, published>>

Fail ==
    /\ status # "pending"
    /\ status' = "failed"
    /\ UNCHANGED <<outcome, published>>

Next ==
    /\ UNCHANGED links
    /\ \/ Start \/ Complete \/ Fail
       \/ \E p \in Pages : Resolve(p) \/ Publish(p)

Spec == Init /\ [][Next]_barrierVars

=============================================================================
