------------------------------ MODULE CrawlTree ------------------------------
(***************************************************************************)
(* What a crawl promises, without batches, workers or a frontier: its      *)
(* pages are a tree that grows from the seed along the links of the site,  *)
(* one page at a time and none twice, no deeper than max_depth and no      *)
(* larger than max_pages; and a crawl that returns has either as many      *)
(* pages as it may, or every page that a page above max_depth links to.    *)
(* CrawlEngine implements this specification.                              *)
(***************************************************************************)
EXTENDS Naturals, FiniteSets

CONSTANTS
    Urls, Seed, NoParent, Offsite, Sites,   \* as in CrawlEngine
    MaxDepths, MaxPagesValues

VARIABLES
    site,       \* the links of each URL
    maxDepth, maxPages,
    pages,      \* the tree: [item |-> [url, depth, parent], ok]
    outcome     \* "crawling", "returned", "raised"

treeVars == <<site, maxDepth, maxPages, pages, outcome>>

Has(u) == \E p \in pages : p.item.url = u

Init ==
    /\ site \in Sites /\ maxDepth \in MaxDepths /\ maxPages \in MaxPagesValues
    /\ pages = {}
    /\ outcome = "crawling"

\* A page that could not be read (ok is FALSE) has no links.
Linked(item) ==
    \E p \in pages :
        /\ p.ok /\ item.url \in site[p.item.url] \ Offsite
        /\ item.parent = p.item.url
        /\ item.depth = p.item.depth + 1 /\ item.depth <= maxDepth

\* A page joins the tree, and keeps its place in it.
Join(item, ok) ==
    /\ outcome = "crawling" /\ Cardinality(pages) < maxPages
    /\ ~ Has(item.url)
    /\ item = [url |-> Seed, depth |-> 0, parent |-> NoParent] \/ Linked(item)
    /\ pages' = pages \cup {[item |-> item, ok |-> ok]}
    /\ UNCHANGED outcome

\* No link is left that the crawl should have followed.
Closed ==
    /\ Has(Seed)
    /\ \A p \in pages : p.ok /\ p.item.depth < maxDepth =>
           \A u \in site[p.item.url] \ Offsite : Has(u)

Return ==
    /\ outcome = "crawling"
    /\ Closed \/ Cardinality(pages) = maxPages
    /\ outcome' = "returned"
    /\ UNCHANGED pages

Raise ==
    /\ outcome = "crawling"
    /\ outcome' = "raised"
    /\ UNCHANGED pages

Places == [url : Urls, depth : 0 .. maxDepth, parent : Urls \cup {NoParent}]

Next ==
    /\ UNCHANGED <<site, maxDepth, maxPages>>
    /\ \/ Return \/ Raise
       \/ \E item \in Places, ok \in BOOLEAN : Join(item, ok)

Spec == Init /\ [][Next]_treeVars

=============================================================================
