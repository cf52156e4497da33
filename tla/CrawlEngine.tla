----------------------------- MODULE CrawlEngine -----------------------------
(***************************************************************************)
(* CrawlerEngine.crawl: one main thread takes batches of URLs from a FIFO  *)
(* frontier, a pool of workers fetches the URLs of a batch, and the main   *)
(* thread goes through the results in the order they completed.            *)
(*                                                                         *)
(* A site is the links of each URL.  The order of the links on a page, the *)
(* order in which fetches complete and which fetches fail are all open.    *)
(* The result-depth filter stays at its defaults, as run_crawl_job has it. *)
(***************************************************************************)
EXTENDS Integers, FiniteSets, Sequences, SequencesExt

CONSTANTS
    Urls,           \* normalized URLs
    Seed,           \* seed_url
    NoParent,       \* the parent of the seed, None
    Offsite,        \* URLs of another domain than the seed
    Sites,          \* the sites to crawl: functions from Urls to sets of Urls
    MaxWorkers,     \* bound: max_workers
    MaxDepths,      \* values of max_depth
    MaxPagesValues  \* values of max_pages

ASSUME EngineAssumption ==
    /\ Seed \in Urls \ Offsite
    /\ NoParent \notin Urls
    /\ Sites \subseteq [Urls -> SUBSET Urls]
    /\ \A s \in Sites : \A u \in Urls : IsFiniteSet(s[u])
    /\ MaxWorkers \in Nat \ {0}
    /\ MaxDepths \subseteq Nat
    /\ MaxPagesValues \subseteq Nat \ {0}

VARIABLES
    site,           \* the site of this crawl
    workers,        \* self._max_workers
    maxDepth,       \* self._max_depth
    maxPages,       \* self._max_pages
    phase,          \* where the main thread is
    frontier,       \* the deque of FrontierItem
    visited,        \* the set of URLs ever put in a batch
    batch,          \* items of the batch that are being fetched
    results,        \* fetched items of the batch; as_completed has them in any order
    discovered,     \* the DiscoveredLink list
    pagesCrawled    \* pages_crawled

config == <<site, workers, maxDepth, maxPages>>
vars == <<config, phase, frontier, visited, batch, results, discovered, pagesCrawled>>

Items == [url : Urls, depth : Nat, parent : Urls \cup {NoParent}]

TypeOK ==
    /\ site \in [Urls -> SUBSET Urls] /\ workers \in 1 .. MaxWorkers
    /\ maxDepth \in MaxDepths /\ maxPages \in MaxPagesValues
    /\ phase \in {"collect", "fetch", "process", "returned", "raised"}
    /\ frontier \in Seq(Items)
    /\ visited \subseteq Urls
    /\ batch \subseteq Items
    /\ results \subseteq [item : Items, ok : BOOLEAN, links : SUBSET Urls]
    /\ discovered \in Seq([item : Items, ok : BOOLEAN])
    /\ pagesCrawled \in Nat

Init ==
    /\ site \in Sites /\ workers \in 1 .. MaxWorkers
    /\ maxDepth \in MaxDepths /\ maxPages \in MaxPagesValues
    /\ phase = "collect"
    /\ frontier = <<[url |-> Seed, depth |-> 0, parent |-> NoParent]>>
    /\ visited = {} /\ batch = {}
    /\ results = {} /\ discovered = <<>>
    /\ pagesCrawled = 0

-----------------------------------------------------------------------------

SmallerOf(m, n) == IF m < n THEN m ELSE n

UrlsOf(items) == {i.url : i \in items}

\* What the first n pops from the left put in the batch: a URL seen before is dropped.
Popped(n) ==
    {frontier[k] : k \in {k \in 1 .. n :
        /\ frontier[k].url \notin visited
        /\ \A j \in 1 .. (k - 1) : frontier[j].url # frontier[k].url}}

\* How often the loop pops: until the batch has `size` items or the frontier is empty.
PopsFor(size) ==
    {n \in 1 .. Len(frontier) :
        /\ Cardinality(Popped(n - 1)) < size
        /\ n = Len(frontier) \/ Cardinality(Popped(n)) = size}

Collect(items, rest, seen) ==
    /\ phase = "collect" /\ frontier # <<>> /\ pagesCrawled < maxPages
    /\ batch' = items
    /\ frontier' = rest
    /\ visited' = visited \cup seen
    /\ phase' = IF items = {} THEN "collect" ELSE "fetch"
    /\ UNCHANGED <<config, results, discovered, pagesCrawled>>

Rest(n) == SubSeq(frontier, n + 1, Len(frontier))

Remaining == maxPages - pagesCrawled

\* Mutant: a batch has max_workers items however few pages remain.
MutantCollectBatchSize ==
    \E n \in PopsFor(workers) : Collect(Popped(n), Rest(n), UrlsOf(Popped(n)))

\* Mutant: the frontier is a stack.
MutantCollectBatchLast ==
    \E last \in {frontier[n] : n \in {Len(frontier)} \ {0}} :
        Collect(IF last.url \in visited THEN {} ELSE {last},
                SubSeq(frontier, 1, Len(frontier) - 1), {last.url})

\* Mutant: a seen URL is looked at but not popped.
MutantCollectBatchPeek ==
    \E n \in PopsFor(SmallerOf(workers, Remaining)) :
        /\ frontier[1].url \notin visited
        /\ Collect(Popped(n), Rest(n), UrlsOf(Popped(n)))

\* _collect_batch
CollectBatch ==
    \E n \in PopsFor(SmallerOf(workers, Remaining)) :
        Collect(Popped(n), Rest(n), UrlsOf(Popped(n)))

\* _crawl_one: the page is HTML and its links are extracted, or there is no HTML.
Fetch(i) ==
    /\ phase = "fetch" /\ i \in batch
    /\ batch' = batch \ {i}
    /\ phase' = IF batch' = {} THEN "process" ELSE "fetch"
    /\ \E ok \in BOOLEAN :
           results' = results \cup
               {[item |-> i, ok |-> ok, links |-> IF ok THEN site[i.url] ELSE {}]}
    /\ UNCHANGED <<config, frontier, visited, discovered, pagesCrawled>>

\* An error that fetch does not catch: future.result() raises it out of crawl.
FetchRaises ==
    /\ phase = "fetch"
    /\ phase' = "raised"
    /\ UNCHANGED <<config, frontier, visited, batch, results, discovered, pagesCrawled>>

Children(r, depth) ==
    [url : r.links \ (visited \cup Offsite), depth : {depth}, parent : {r.item.url}]

\* The children are pushed in the order of their links on the page.
Process(r, children) ==
    /\ phase = "process" /\ r \in results
    /\ results' = results \ {r}
    /\ discovered' = Append(discovered, [item |-> r.item, ok |-> r.ok])
    /\ pagesCrawled' = pagesCrawled + 1
    /\ \E order \in SetToSeqs(children) : frontier' = frontier \o order
    /\ phase' = IF results' = {} THEN "collect" ELSE "process"
    /\ UNCHANGED <<config, visited, batch>>

\* Mutant: the wrong field of the item is recorded as the parent.
MutantProcessResultParent(r) ==
    Process(r, IF r.item.depth >= maxDepth THEN {}
               ELSE {[c EXCEPT !.parent = r.item.depth] : c \in Children(r, r.item.depth + 1)})

\* Mutant: children get the depth of their parent.
MutantProcessResultDepth(r) ==
    Process(r, IF r.item.depth >= maxDepth THEN {} ELSE Children(r, r.item.depth))

\* Mutant: pages one above max_depth are not expanded.
MutantProcessResultBound(r) ==
    Process(r, IF r.item.depth + 1 >= maxDepth THEN {} ELSE Children(r, r.item.depth + 1))

\* The body of the loop over _crawl_batch.
ProcessResult(r) ==
    Process(r, IF r.item.depth >= maxDepth THEN {} ELSE Children(r, r.item.depth + 1))

\* Mutant: the loop ends one page before max_pages.
MutantReturn ==
    /\ phase = "collect" /\ (frontier = <<>> \/ pagesCrawled + 1 >= maxPages)
    /\ phase' = "returned"
    /\ UNCHANGED <<config, frontier, visited, batch, results, discovered, pagesCrawled>>

Return ==
    /\ phase = "collect" /\ (frontier = <<>> \/ pagesCrawled >= maxPages)
    /\ phase' = "returned"
    /\ UNCHANGED <<config, frontier, visited, batch, results, discovered, pagesCrawled>>

Crawl ==
    \/ CollectBatch \/ Return
    \/ \E i \in batch : Fetch(i)
    \/ \E r \in results : ProcessResult(r)

Next == Crawl \/ FetchRaises

Spec == Init /\ [][Next]_vars

\* The main thread runs, and every fetch has a timeout.
FairSpec == Spec /\ WF_vars(Crawl)

-----------------------------------------------------------------------------
(* The reference: breadth-first distance from the seed. *)

Within[n \in Nat] ==
    IF n = 0 THEN {Seed}
    ELSE Within[n - 1] \cup ((UNION {site[u] : u \in Within[n - 1]}) \ Offsite)

Reached == {discovered[n].item.url : n \in DOMAIN discovered}

(* Properties. *)

\* Never more than max_pages pages are fetched, though they are fetched in batches.
RespectsMaxPages == Cardinality(visited) <= maxPages /\ pagesCrawled <= maxPages

\* No page is fetched twice: the list has every URL once, also when two pages of a batch
\* link to it.
FetchedOnce ==
    /\ \A m, n \in DOMAIN discovered :
           discovered[m].item.url = discovered[n].item.url => m = n
    /\ pagesCrawled = Len(discovered)

\* A recorded depth is the length of a real path: the parent was fetched before, links
\* to the page and has the depth before it; so no depth exceeds max_depth.
DepthsAreReal ==
    \A n \in DOMAIN discovered :
        LET i == discovered[n].item
        IN  /\ i.depth <= maxDepth
            /\ i.url \in Within[i.depth]
            /\ \/ i.parent = NoParent /\ i.depth = 0
               \/ \E m \in 1 .. (n - 1) : /\ discovered[m].item.url = i.parent
                                          /\ discovered[m].item.depth = i.depth - 1
                                          /\ i.url \in site[i.parent]

\* "The engine traverses pages breadth-first" (engine.py:38): if every page could be
\* fetched, each has its distance from the seed as its depth.
BreadthFirst ==
    (\A n \in DOMAIN discovered : discovered[n].ok) =>
        \A n \in DOMAIN discovered :
            LET i == discovered[n].item
            IN  i.depth = 0 \/ i.url \notin Within[i.depth - 1]

\* With one worker it does.
OneWorkerBreadthFirst == workers = 1 => BreadthFirst

\* With one worker, no failed fetch and no more than max_pages pages the crawl finds
\* exactly the pages within max_depth clicks of the seed.
OneWorkerComplete ==
    /\ workers = 1 /\ phase = "returned" /\ frontier = <<>>
    /\ \A n \in DOMAIN discovered : discovered[n].ok
    => Reached = Within[maxDepth]

\* What a crawl promises is CrawlTree: the list is its tree.
Listed == {discovered[n] : n \in DOMAIN discovered}
Tree == INSTANCE CrawlTree WITH
            pages <- Listed,
            outcome <- IF phase \in {"returned", "raised"} THEN phase ELSE "crawling"

\* The crawl implements its promise: a page is listed once, when a page that was listed
\* before it and could be read links to it, and the crawl only returns early of max_pages
\* if it has followed every link, however many workers fetch and in whatever order.
TreeSpec == Tree!Spec

\* The crawl ends, also on a site whose links form cycles.
CrawlEnds == <>(phase \in {"returned", "raised"})

=============================================================================
