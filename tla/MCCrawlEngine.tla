---------------------------- MODULE MCCrawlEngine ----------------------------
(***************************************************************************)
(* Sites for CrawlEngine.  Links back to the seed and from a page to       *)
(* itself lead to a visited URL; page 4 always has one back to the seed.   *)
(***************************************************************************)
EXTENDS CrawlEngine

\* Every way, up to names, to link the seed 1 and the pages 2, 3, 4; page 4 also links to
\* page 5, which is of another domain, and to the seed.
MCUrls == 1 .. 5
MCOffsite == {5}
SmallSites ==
    {[u \in MCUrls |-> CASE u = 1 -> top [] u = 4 -> (s[4] \ {4}) \cup {1, 5} [] u = 5 -> {}
                       [] OTHER -> s[u] \ {u}] :
        top \in {{2}, {4}, {2, 3}, {2, 4}, {2, 3, 4}},
        s \in [2 .. 4 -> SUBSET (2 .. 4)]}

\* 1 links to 2, 3 and 4, 2 to 5; 4 and 5 link to 6, which is two clicks away.
WideUrls == 1 .. 6
WideSite == [u \in WideUrls |->
    CASE u = 1 -> {2, 3, 4} [] u = 2 -> {5} [] u \in {4, 5} -> {6} [] OTHER -> {}]
WideSites == {WideSite}
NoUrls == {}

=============================================================================
