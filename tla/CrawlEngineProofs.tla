------------------------- MODULE CrawlEngineProofs -------------------------
(***************************************************************************)
(* The crawl keeps its bounds, visits no page twice and returns real       *)
(* paths, for any sites and any number of workers, and implements          *)
(* CrawlTree; with one worker it is breadth-first and complete.            *)
(***************************************************************************)
EXTENDS CrawlEngine, FiniteSetTheorems, WellFoundedInduction, TLAPS

-----------------------------------------------------------------------------
(* The inductive invariant. *)

(* The site is one of those the assumption speaks of. *)
Given == site \in Sites

(* Which variables are empty in which phase. *)
Places ==
    /\ phase \in {"collect", "returned"} => batch = {} /\ results = {}
    /\ phase = "process" => batch = {}

(* No URL is in two places of a crawl. *)
Distinct ==
    /\ \A i, j \in batch : i.url = j.url => i = j
    /\ \A r, s \in results : r.item.url = s.item.url => r = s
    /\ \A i \in batch : \A r \in results : i.url # r.item.url
    /\ \A n \in DOMAIN discovered : \A i \in batch : discovered[n].item.url # i.url
    /\ \A n \in DOMAIN discovered : \A r \in results : discovered[n].item.url # r.item.url
    /\ FetchedOnce

(* A URL is visited if and only if it is in one of those places. *)
Seen ==
    /\ \A i \in batch : i.url \in visited
    /\ \A r \in results : r.item.url \in visited
    /\ \A n \in DOMAIN discovered : discovered[n].item.url \in visited
    /\ \A u \in visited : \/ \E i \in batch : i.url = u
                          \/ \E r \in results : r.item.url = u
                          \/ \E n \in DOMAIN discovered : discovered[n].item.url = u

(* The pages of the batch are within the limit before they are fetched. *)
Counted ==
    /\ IsFiniteSet(visited) /\ IsFiniteSet(batch) /\ IsFiniteSet(results)
    /\ Cardinality(visited) <= pagesCrawled + Cardinality(batch) + Cardinality(results)
    /\ pagesCrawled + Cardinality(batch) + Cardinality(results) <= maxPages

(* An item is the seed, or a link of one of the first n pages of a list, at its depth. *)
Real(i, n, list) ==
    /\ i.depth <= maxDepth
    /\ i.url \in Within[i.depth]
    /\ \/ i.parent = NoParent /\ i.depth = 0
       \/ \E m \in 1 .. n : /\ list[m].item.url = i.parent
                            /\ list[m].item.depth = i.depth - 1
                            /\ i.url \in site[i.parent]

AllReal ==
    /\ \A k \in DOMAIN frontier : Real(frontier[k], Len(discovered), discovered)
    /\ \A i \in batch : Real(i, Len(discovered), discovered)
    /\ \A r \in results : Real(r.item, Len(discovered), discovered)
    /\ \A n \in DOMAIN discovered : Real(discovered[n].item, n - 1, discovered)

(* A fetched page has the links of the site. *)
Answered == \A r \in results : r.links = IF r.ok THEN site[r.item.url] ELSE {}

(* A link of an expanded page is visited or waits in the frontier with its depth. *)
Waiting(u, d, queue) == \E k \in DOMAIN queue : queue[k].url = u /\ queue[k].depth = d

LinksKept ==
    /\ Seed \in visited \/ Waiting(Seed, 0, frontier)
    /\ \A n \in DOMAIN discovered :
           LET i == discovered[n].item
           IN  discovered[n].ok /\ i.depth < maxDepth =>
                   \A v \in site[i.url] \ Offsite :
                       v \in visited \/ Waiting(v, i.depth + 1, frontier)

(* With one worker the frontier is a level and a part of the next one. *)
Flying == batch \cup {r.item : r \in results}

BreadthOrder ==
    workers = 1 =>
        /\ \A j, k \in DOMAIN frontier : j <= k => frontier[j].depth <= frontier[k].depth
        /\ \A j, k \in DOMAIN frontier : frontier[k].depth <= frontier[j].depth + 1
        /\ \A i, j \in Flying : i = j
        /\ \A i \in Flying : \A k \in DOMAIN frontier :
               i.depth <= frontier[k].depth /\ frontier[k].depth <= i.depth + 1

(* With one worker no page was nearer to the seed than it was found. *)
Nearest(i) == i.depth = 0 \/ i.url \notin Within[i.depth - 1]

AllOk == \A n \in DOMAIN discovered : discovered[n].ok

Found ==
    workers = 1 /\ AllOk =>
        /\ \A i \in Flying : Nearest(i)
        /\ \A n \in DOMAIN discovered : Nearest(discovered[n].item)

IInv ==
    /\ TypeOK /\ Given /\ Places /\ Distinct /\ Seen /\ Counted /\ AllReal
    /\ Answered /\ LinksKept /\ BreadthOrder /\ Found

-----------------------------------------------------------------------------
(* Lemmas. *)

(* Every set of naturals that is not empty has a least element. *)
LEMMA NatMinimum ==
  ASSUME NEW T \in SUBSET Nat, T # {}
  PROVE  \E n \in T : \A m \in T : n <= m
<1> DEFINE less == OpToRel(<, Nat)
<1>1. IsWellFoundedOn(less, Nat)
  BY NatLessThanWellFounded
<1>2. \A m, n \in Nat : <<m, n>> \in less <=> m < n
  BY DEF OpToRel
<1> HIDE DEF less
<1>3. PICK n \in T : \A m \in T : <<m, n>> \notin less
  BY <1>1, WFMin
<1>4. ASSUME NEW m \in T PROVE n <= m
  <2>1. m \in Nat /\ n \in Nat /\ ~(m < n)
    BY <1>2, <1>3
  <2> QED
    BY <2>1
<1> QED
  BY <1>4

(* The levels of a site. *)

(* The pages of S and those they link to, and the table of the levels up to n. *)
Closer(S) == S \cup ((UNION {site[u] : u \in S}) \ Offsite)

Level(g, n) == g = [k \in 0 .. n |-> IF k = 0 THEN {Seed} ELSE Closer(g[k - 1])]

(* Two tables of the levels agree where both are defined. *)
LEMMA LevelsAgree ==
  ASSUME NEW g, NEW h, NEW m \in Nat, NEW n \in Nat, Level(g, m), Level(h, n),
         NEW k \in Nat, k <= m, k <= n
  PROVE  g[k] = h[k]
<1> DEFINE T == {j \in 0 .. k : g[j] # h[j]}
<1>0. T \in SUBSET Nat
  OBVIOUS
<1>1. SUFFICES ASSUME T # {} PROVE FALSE
  OBVIOUS
<1>2. PICK j \in T : \A i \in T : j <= i
  <2> HIDE DEF T
  <2> QED
    BY <1>0, <1>1, NatMinimum
<1>3. j \in 0 .. m /\ j \in 0 .. n /\ j \in 0 .. k
  OBVIOUS
<1>4. /\ g[j] = IF j = 0 THEN {Seed} ELSE Closer(g[j - 1])
      /\ h[j] = IF j = 0 THEN {Seed} ELSE Closer(h[j - 1])
  BY <1>3 DEF Level
<1>5. CASE j = 0
  BY <1>4, <1>5
<1>6. CASE j # 0
  <2>1. j - 1 \in 0 .. k /\ ~(j <= j - 1)
    BY <1>3, <1>6
  <2>2. g[j - 1] = h[j - 1]
    BY <1>2, <2>1
  <2> QED
    BY <1>4, <1>6, <2>2
<1> QED
  BY <1>5, <1>6

(* There is a table up to every level. *)
LEMMA LevelsExist ==
  ASSUME NEW n \in Nat
  PROVE  \E g : Level(g, n)
<1> DEFINE T == {j \in Nat : ~ \E g : Level(g, j)}
<1>1. SUFFICES ASSUME T # {} PROVE FALSE
  OBVIOUS
<1>2. PICK j \in T : \A i \in T : j <= i
  BY <1>1, NatMinimum
<1>3. CASE j = 0
  <2> DEFINE g == [k \in 0 .. 0 |-> {Seed}]
  <2>1. g = [k \in 0 .. 0 |-> IF k = 0 THEN {Seed} ELSE Closer(g[k - 1])]
    OBVIOUS
  <2>2. Level(g, 0)
    BY <2>1 DEF Level
  <2> QED
    BY <1>3, <2>2
<1>4. CASE j # 0
  <2>1. j - 1 \in Nat /\ ~(j <= j - 1)
    BY <1>4
  <2>2. PICK g : Level(g, j - 1)
    BY <1>2, <2>1
  <2> DEFINE h == [k \in 0 .. j |-> IF k = j THEN Closer(g[j - 1]) ELSE g[k]]
  <2>3. ASSUME NEW k \in 0 .. j
        PROVE  h[k] = IF k = 0 THEN {Seed} ELSE Closer(h[k - 1])
    <3>1. CASE k = j
      BY <1>4, <3>1
    <3>2. CASE k # j
      <4>1. k \in 0 .. (j - 1) /\ k \in Nat /\ (k # 0 => k - 1 \in 0 .. j /\ k - 1 # j)
        BY <3>2
      <4>2. g[k] = IF k = 0 THEN {Seed} ELSE Closer(g[k - 1])
        BY <2>2, <4>1 DEF Level
      <4> QED
        BY <3>2, <4>1, <4>2
    <3> QED
      BY <3>1, <3>2
  <2>4. h = [k \in 0 .. j |-> IF k = 0 THEN {Seed} ELSE Closer(h[k - 1])]
    <3> HIDE DEF h
    <3>1. h = [k \in 0 .. j |-> h[k]]
      BY DEF h
    <3> QED
      BY <2>3, <3>1
  <2> QED
    BY <2>4 DEF Level
<1> QED
  BY <1>3, <1>4

(* Within satisfies its recursive definition. *)
LEMMA WithinDef ==
  Within = [n \in Nat |-> IF n = 0 THEN {Seed} ELSE Closer(Within[n - 1])]
<1> DEFINE tab(n) == CHOOSE g : Level(g, n)
           G == [n \in Nat |-> tab(n)[n]]
<1>1. \A n \in Nat : Level(tab(n), n)
  BY LevelsExist
<1> HIDE DEF tab
<1>2. ASSUME NEW n \in Nat
      PROVE  G[n] = IF n = 0 THEN {Seed} ELSE Closer(G[n - 1])
  <2>1. n \in 0 .. n
    OBVIOUS
  <2>2. tab(n)[n] = IF n = 0 THEN {Seed} ELSE Closer(tab(n)[n - 1])
    BY <1>1, <2>1 DEF Level
  <2>3. CASE n # 0
    <3>1. n - 1 \in Nat /\ n - 1 <= n
      BY <2>3
    <3>2. tab(n)[n - 1] = tab(n - 1)[n - 1]
      BY <1>1, <3>1, LevelsAgree
    <3> QED
      BY <2>2, <2>3, <3>1, <3>2
  <2> QED
    BY <2>2, <2>3
<1>3. G = [n \in Nat |-> IF n = 0 THEN {Seed} ELSE Closer(G[n - 1])]
  <2> HIDE DEF G
  <2>1. G = [n \in Nat |-> G[n]]
    BY DEF G
  <2> QED
    BY <1>2, <2>1
<1> HIDE DEF G
<1>4. G = [n \in Nat |-> IF n = 0 THEN {Seed}
                         ELSE G[n - 1] \cup ((UNION {site[u] : u \in G[n - 1]}) \ Offsite)]
  BY <1>3 DEF Closer
<1>5. Within = [n \in Nat |-> IF n = 0 THEN {Seed}
                ELSE Within[n - 1] \cup ((UNION {site[u] : u \in Within[n - 1]}) \ Offsite)]
  BY <1>4 DEF Within
<1> QED
  BY <1>5 DEF Closer

(* What one step of the recursion adds. *)
LEMMA CloserMembers ==
  ASSUME NEW S
  PROVE  \A v : v \in Closer(S) <=> v \in S \/ (v \notin Offsite /\ \E u \in S : v \in site[u])
<1> DEFINE U == UNION {site[u] : u \in S}
<1>1. \A v : v \in U <=> \E u \in S : v \in site[u]
  BY Zenon
<1>2. Closer(S) = S \cup (U \ Offsite)
  BY DEF Closer
<1> HIDE DEF U
<1> QED
  BY <1>1, <1>2

(* What is within n clicks, and what is within one more. *)
LEMMA WithinStep ==
  /\ Within[0] = {Seed}
  /\ \A n \in Nat : /\ Within[n] \subseteq Within[n + 1]
                    /\ \A u \in Within[n] : site[u] \ Offsite \subseteq Within[n + 1]
                    /\ \A v \in Within[n + 1] : \/ v \in Within[n]
                                                \/ /\ v \notin Offsite
                                                   /\ \E u \in Within[n] : v \in site[u]
<1>1. Within[0] = {Seed}
  BY WithinDef
<1>2. ASSUME NEW n \in Nat
      PROVE  Within[n + 1] = Closer(Within[n])
  <2>1. n + 1 \in Nat /\ n + 1 # 0 /\ (n + 1) - 1 = n
    OBVIOUS
  <2> QED
    BY WithinDef, <2>1
<1>3. ASSUME NEW n \in Nat
      PROVE  /\ Within[n] \subseteq Within[n + 1]
             /\ \A u \in Within[n] : site[u] \ Offsite \subseteq Within[n + 1]
             /\ \A v \in Within[n + 1] : \/ v \in Within[n]
                                         \/ /\ v \notin Offsite
                                            /\ \E u \in Within[n] : v \in site[u]
  <2>1. \A v : v \in Within[n + 1] <=>
               v \in Within[n] \/ (v \notin Offsite /\ \E u \in Within[n] : v \in site[u])
    BY <1>2, CloserMembers
  <2> QED
    BY <2>1
<1> QED
  BY <1>1, <1>3

(* A level holds the levels before it. *)
LEMMA WithinGrows ==
  ASSUME NEW m \in Nat, NEW n \in Nat, m <= n
  PROVE  Within[m] \subseteq Within[n]
<1> DEFINE T == {k \in m .. n : ~(Within[m] \subseteq Within[k])}
<1>0. T \in SUBSET Nat
  OBVIOUS
<1>1. SUFFICES ASSUME T # {} PROVE FALSE
  <2>1. n \notin T
    BY <1>1
  <2> QED
    BY <2>1
<1>2. PICK k \in T : \A j \in T : k <= j
  <2> HIDE DEF T
  <2> QED
    BY <1>0, <1>1, NatMinimum
<1>3. k # m /\ k \in m .. n
  OBVIOUS
<1>4. k - 1 \in m .. n /\ ~(k <= k - 1) /\ k - 1 \in Nat /\ (k - 1) + 1 = k
  BY <1>3
<1>5. Within[m] \subseteq Within[k - 1]
  BY <1>2, <1>4
<1>6. Within[k - 1] \subseteq Within[k]
  BY <1>4, WithinStep
<1> QED
  BY <1>5, <1>6

(* The site does not change, so neither do its levels. *)
LEMMA WithinSame ==
  ASSUME site' = site
  PROVE  Within' = Within
BY DEF Within

(* An order of a finite set names each of its elements. *)
LEMMA OrderNames ==
  ASSUME NEW S, IsFiniteSet(S), NEW order \in SetToSeqs(S)
  PROVE  /\ order \in Seq(S)
         /\ \A x \in S : \E k \in 1 .. Len(order) : order[k] = x
<1> DEFINE N == Cardinality(S)
<1>1. N \in Nat
  BY FS_CardinalityType
<1>2. order \in [1 .. N -> S] /\ \A i, j \in 1 .. N : i # j => order[i] # order[j]
  BY DEF SetToSeqs
<1>3. order \in Seq(S) /\ Len(order) = N
  BY <1>1, <1>2
<1>4. order \in Injection(1 .. N, S)
  BY <1>2 DEF Injection, IsInjective
<1>5. Cardinality(1 .. N) = N
  BY <1>1, FS_Interval
<1>6. order \in Surjection(1 .. N, S)
  BY <1>4, <1>5, FS_Injection
<1> QED
  BY <1>3, <1>6 DEF Surjection

(* The operators of a batch. *)

(* The size that crawl passes to _collect_batch keeps both limits. *)
LEMMA Sizes ==
  ASSUME TypeOK, pagesCrawled < maxPages
  PROVE  /\ SmallerOf(workers, Remaining) \in Nat
         /\ SmallerOf(workers, Remaining) <= workers
         /\ pagesCrawled + SmallerOf(workers, Remaining) <= maxPages
         /\ Remaining \in Nat
BY EngineAssumption DEF TypeOK, SmallerOf, Remaining

(* What n pops put in a batch of at most `size` items. *)
LEMMA PoppedItems ==
  ASSUME TypeOK, NEW size \in Nat, NEW n \in PopsFor(size)
  PROVE  /\ n \in 1 .. Len(frontier)
         /\ Popped(n) \subseteq Items
         /\ \A i \in Popped(n) :
                /\ i.url \notin visited
                /\ \E k \in 1 .. n : /\ i = frontier[k]
                                     /\ \A j \in 1 .. (k - 1) : frontier[j].url # i.url
         /\ \A i, j \in Popped(n) : i.url = j.url => i = j
         /\ \A k \in 1 .. n : frontier[k].url \in visited \cup UrlsOf(Popped(n))
<1>1. n \in 1 .. Len(frontier) /\ Len(frontier) \in Nat /\ n \in Nat
  BY DEF PopsFor, TypeOK
<1>2. \A k \in 1 .. n : frontier[k] \in Items
  BY <1>1 DEF TypeOK
<1> DEFINE First(k) == /\ frontier[k].url \notin visited
                       /\ \A j \in 1 .. (k - 1) : frontier[j].url # frontier[k].url
<1>3. Popped(n) = {frontier[k] : k \in {k \in 1 .. n : First(k)}}
  BY DEF Popped
<1>4. ASSUME NEW j \in 1 .. n, NEW k \in 1 .. n, First(j), First(k),
             frontier[j].url = frontier[k].url
      PROVE  j = k
  <2>1. ~(j < k) /\ ~(k < j)
    BY <1>1, <1>4
  <2> QED
    BY <1>1, <2>1
<1>5. ASSUME NEW k \in 1 .. n, frontier[k].url \notin visited
      PROVE  frontier[k].url \in UrlsOf(Popped(n))
  <2> DEFINE T == {j \in 1 .. k : frontier[j].url = frontier[k].url}
  <2>1. T \in SUBSET Nat /\ k \in T
    BY <1>1
  <2>2. PICK j \in T : \A i \in T : j <= i
    <3> HIDE DEF T
    <3> QED
      BY <2>1, NatMinimum
  <2>3. j \in 1 .. n /\ frontier[j].url = frontier[k].url
    BY <1>1, <2>2
  <2>4. ASSUME NEW i \in 1 .. (j - 1)
        PROVE  frontier[i].url # frontier[k].url
    <3>1. i \in 1 .. k /\ ~(j <= i)
      BY <1>1, <2>2
    <3> QED
      BY <2>2, <3>1
  <2>5. First(j)
    BY <1>5, <2>3, <2>4
  <2>6. frontier[j] \in Popped(n)
    BY <1>3, <2>3, <2>5
  <2> QED
    BY <2>3, <2>6 DEF UrlsOf
<1> HIDE DEF First
<1>6. \A i \in Popped(n) : \E k \in 1 .. n : First(k) /\ i = frontier[k]
  BY <1>3
<1>7. \A i \in Popped(n) : i \in Items /\ i.url \notin visited
  BY <1>2, <1>6 DEF First
<1>8. \A i, j \in Popped(n) : i.url = j.url => i = j
  BY <1>4, <1>6
<1>9. \A i \in Popped(n) : \E k \in 1 .. n : /\ i = frontier[k]
                                            /\ \A j \in 1 .. (k - 1) : frontier[j].url # i.url
  BY <1>6 DEF First
<1> QED
  BY <1>1, <1>5, <1>7, <1>8, <1>9

(* A batch is finite, and not above its size. *)
LEMMA PoppedFinite ==
  ASSUME NEW n \in Nat
  PROVE  IsFiniteSet(Popped(n))
<1> DEFINE D == {k \in 1 .. n : /\ frontier[k].url \notin visited
                                /\ \A j \in 1 .. (k - 1) : frontier[j].url # frontier[k].url}
           f == [k \in D |-> frontier[k]]
<1>1. IsFiniteSet(1 .. n)
  BY FS_Interval
<1>2. D \in SUBSET (1 .. n)
  OBVIOUS
<1>3. IsFiniteSet(D)
  <2> DEFINE E == 1 .. n
  <2> HIDE DEF D, E
  <2> QED
    BY <1>1, <1>2, FS_Subset DEF E
<1>4. Popped(n) = {frontier[k] : k \in D}
  BY DEF Popped
<1> HIDE DEF D
<1>5. f \in Surjection(D, Popped(n))
  BY <1>4 DEF Surjection
<1> QED
  <2> HIDE DEF f
  <2> QED
    BY <1>3, <1>5, FS_Surjection

LEMMA PoppedBound ==
  ASSUME TypeOK, NEW size \in Nat, NEW n \in PopsFor(size)
  PROVE  Cardinality(Popped(n)) <= size
<1>1. n \in 1 .. Len(frontier) /\ Len(frontier) \in Nat /\ n \in Nat /\ n - 1 \in Nat
  BY DEF PopsFor, TypeOK
<1>2. Cardinality(Popped(n - 1)) < size
  BY DEF PopsFor
<1> DEFINE P == Popped(n - 1)
           Q == P \cup {frontier[n]}
<1>3. IsFiniteSet(P) /\ IsFiniteSet(Popped(n))
  BY <1>1, PoppedFinite
<1>4. Popped(n) \subseteq Q
  BY <1>1 DEF Popped
<1>5. Cardinality(P) < size
  BY <1>2
<1> HIDE DEF P
<1>6. /\ IsFiniteSet(Q)
      /\ Cardinality(Q) <= size
      /\ Cardinality(Q) \in Nat
  <2>1. Cardinality(Q) = IF frontier[n] \in P THEN Cardinality(P) ELSE Cardinality(P) + 1
    BY <1>3, FS_AddElement
  <2>2. IsFiniteSet(Q)
    BY <1>3, FS_AddElement
  <2>3. Cardinality(P) \in Nat
    BY <1>3, FS_CardinalityType
  <2> QED
    BY <1>5, <2>1, <2>2, <2>3
<1> HIDE DEF Q
<1>7. Cardinality(Popped(n)) <= Cardinality(Q)
  BY <1>4, <1>6, FS_Subset
<1>8. Cardinality(Popped(n)) \in Nat
  BY <1>3, FS_CardinalityType
<1> QED
  BY <1>6, <1>7, <1>8

(* A set of items has no more URLs than items. *)
LEMMA UrlsBound ==
  ASSUME NEW S, IsFiniteSet(S)
  PROVE  IsFiniteSet(UrlsOf(S)) /\ Cardinality(UrlsOf(S)) <= Cardinality(S)
<1> DEFINE f == [i \in S |-> i.url]
<1>1. f \in Surjection(S, UrlsOf(S))
  BY DEF Surjection, UrlsOf
<1> HIDE DEF f
<1> QED
  BY <1>1, FS_Surjection

(* What n pops leave in the frontier. *)
LEMMA RestItems ==
  ASSUME TypeOK, NEW n \in 1 .. Len(frontier)
  PROVE  /\ Rest(n) \in Seq(Items)
         /\ Len(Rest(n)) = Len(frontier) - n
         /\ \A k \in 1 .. Len(Rest(n)) : 
                /\ k + n \in 1 .. Len(frontier)
                /\ Rest(n)[k] = frontier[k + n]
<1>1. Len(frontier) \in Nat /\ frontier \in Seq(Items) /\ n \in Nat
  BY DEF TypeOK
<1>2. \A k \in 1 .. (Len(frontier) - n) : k + n \in 1 .. Len(frontier)
  BY <1>1
<1>3. Rest(n) \in Seq(Items) /\ Len(Rest(n)) = Len(frontier) - n
  BY <1>1 DEF Rest
<1>4. \A k \in 1 .. (Len(frontier) - n) : Rest(n)[k] = frontier[k + n]
  BY <1>1 DEF Rest
<1> QED
  BY <1>2, <1>3, <1>4

(* The frontier after the children of a page are pushed. *)
LEMMA PushedItems ==
  ASSUME NEW S, NEW q \in Seq(S), NEW r \in Seq(S)
  PROVE  /\ q \o r \in Seq(S)
         /\ Len(q \o r) = Len(q) + Len(r)
         /\ \A k \in 1 .. Len(q) : (q \o r)[k] = q[k]
         /\ \A k \in 1 .. Len(r) : (q \o r)[Len(q) + k] = r[k]
         /\ \A k \in 1 .. Len(q \o r) :
                \/ k \in 1 .. Len(q) /\ (q \o r)[k] = q[k]
                \/ k - Len(q) \in 1 .. Len(r) /\ (q \o r)[k] = r[k - Len(q)]
OBVIOUS

(* The items in the frontier, in the batch and in the list. *)
LEMMA Elements ==
  ASSUME TypeOK
  PROVE  /\ Len(frontier) \in Nat /\ DOMAIN frontier = 1 .. Len(frontier)
         /\ \A k \in DOMAIN frontier : frontier[k] \in Items /\ frontier[k].depth \in Nat
         /\ Len(discovered) \in Nat /\ DOMAIN discovered = 1 .. Len(discovered)
         /\ \A n \in DOMAIN discovered :
                /\ discovered[n] \in [item : Items, ok : BOOLEAN]
                /\ discovered[n].item \in Items /\ discovered[n].item.depth \in Nat
         /\ \A i \in batch : i \in Items /\ i.depth \in Nat
         /\ \A r \in results : r.item \in Items /\ r.item.depth \in Nat
<1>1. \A i \in Items : i.depth \in Nat
  BY DEF Items
<1>2. /\ Len(frontier) \in Nat /\ DOMAIN frontier = 1 .. Len(frontier)
      /\ \A k \in DOMAIN frontier : frontier[k] \in Items
  BY DEF TypeOK
<1>3. /\ Len(discovered) \in Nat /\ DOMAIN discovered = 1 .. Len(discovered)
      /\ \A n \in DOMAIN discovered : discovered[n] \in [item : Items, ok : BOOLEAN]
  <2> DEFINE R == [item : Items, ok : BOOLEAN]
  <2>1. discovered \in Seq(R)
    BY DEF TypeOK
  <2> HIDE DEF R
  <2>2. /\ Len(discovered) \in Nat /\ DOMAIN discovered = 1 .. Len(discovered)
        /\ \A n \in DOMAIN discovered : discovered[n] \in R
    BY <2>1
  <2> QED
    BY <2>2 DEF R
<1>4. /\ \A n \in DOMAIN discovered : discovered[n].item \in Items
      /\ \A r \in results : r.item \in Items
      /\ \A i \in batch : i \in Items
  BY <1>3 DEF TypeOK
<1> QED
  BY <1>1, <1>2, <1>3, <1>4

(* Every level that no unvisited item of the frontier can belong to is visited. *)
LEMMA LevelsDone ==
  ASSUME TypeOK, Seen, LinksKept, Found, workers = 1, AllOk, batch = {}, results = {},
         NEW d \in Nat, d <= maxDepth,
         \A k \in DOMAIN frontier : frontier[k].depth > d \/ frontier[k].url \in visited
  PROVE  Within[d] \subseteq visited
<1> DEFINE T == {e \in 0 .. d : ~(Within[e] \subseteq visited)}
<1>1. SUFFICES ASSUME T # {} PROVE FALSE
  <2>1. d \notin T
    BY <1>1
  <2> QED
    BY <2>1
<1>2. T \in SUBSET Nat
  OBVIOUS
<1>3. PICK e \in T : \A c \in T : e <= c
  <2> HIDE DEF T
  <2> QED
    BY <1>1, <1>2, NatMinimum
<1>4. e \in Nat /\ e <= d /\ ~(Within[e] \subseteq visited) /\ maxDepth \in Nat
  BY EngineAssumption DEF TypeOK
<1>5. CASE e = 0
  <2>1. Seed \in visited
    BY DEF LinksKept, Waiting
  <2> QED
    BY <1>4, <1>5, <2>1, WithinStep
<1>6. CASE e # 0
  <2>1. e - 1 \in Nat /\ (e - 1) + 1 = e /\ e - 1 \in 0 .. d /\ ~(e <= e - 1)
    BY <1>4, <1>6
  <2>2. Within[e - 1] \subseteq visited
    BY <1>3, <2>1
  <2>3. PICK v \in Within[e] : v \notin visited
    BY <1>4
  <2>4. PICK u \in Within[e - 1] : v \in site[u] /\ v \notin Offsite
    BY <2>1, <2>2, <2>3, WithinStep
  <2>5. PICK n \in DOMAIN discovered : discovered[n].item.url = u
    BY <2>2 DEF Seen
  <2> DEFINE i == discovered[n].item
  <2>6. i.depth \in Nat
    BY Elements
  <2>7. i.depth <= e - 1
    <3>1. Nearest(i)
      BY DEF Found
    <3>2. SUFFICES ASSUME ~(i.depth <= e - 1) PROVE FALSE
      OBVIOUS
    <3>3. i.depth - 1 \in Nat /\ e - 1 <= i.depth - 1 /\ i.depth # 0
      BY <2>1, <2>6, <3>2
    <3>4. Within[e - 1] \subseteq Within[i.depth - 1]
      BY <2>1, <3>3, WithinGrows
    <3> QED
      BY <2>4, <2>5, <3>1, <3>3, <3>4 DEF Nearest
  <2>8. Waiting(v, i.depth + 1, frontier)
    BY <1>4, <2>3, <2>4, <2>5, <2>6, <2>7 DEF LinksKept, AllOk
  <2>9. PICK k \in DOMAIN frontier : frontier[k].url = v /\ frontier[k].depth = i.depth + 1
    BY <2>8 DEF Waiting
  <2>10. ~(i.depth + 1 > d)
    BY <1>4, <2>6, <2>7
  <2> QED
    BY <2>3, <2>9, <2>10
<1> QED
  BY <1>5, <1>6

(* A step that changes no more than the phase. *)
LEMMA PhaseKeeps ==
  ASSUME IInv, UNCHANGED <<config, frontier, visited, batch, results, discovered, pagesCrawled>>,
         phase' = phase \/ phase' = "raised" \/ (phase = "collect" /\ phase' = "returned")
  PROVE  IInv'
<1>1. UNCHANGED <<site, workers, maxDepth, maxPages>> /\ Within' = Within
  BY WithinSame DEF config
<1>2. TypeOK'
  BY <1>1 DEF IInv, TypeOK
<1>3. Given' /\ Places'
  BY <1>1 DEF IInv, Given, Places
<1>4. Distinct' /\ Seen'
  BY DEF IInv, Distinct, Seen, FetchedOnce
<1>5. Counted'
  BY <1>1 DEF IInv, Counted
<1>6. AllReal'
  BY <1>1 DEF IInv, AllReal, Real
<1>7. Answered' /\ LinksKept'
  BY <1>1 DEF IInv, Answered, LinksKept, Waiting
<1>8. BreadthOrder' /\ Found'
  BY <1>1 DEF IInv, BreadthOrder, Flying, Found, Nearest, AllOk
<1> QED
  BY <1>2, <1>3, <1>4, <1>5, <1>6, <1>7, <1>8 DEF IInv

(* The initial states and the steps. *)
LEMMA InitKeeps ==
  ASSUME Init
  PROVE  IInv
<1> DEFINE seed == [url |-> Seed, depth |-> 0, parent |-> NoParent]
<1>1. /\ frontier = <<seed>> /\ seed \in Items
      /\ DOMAIN frontier = {1} /\ frontier[1] = seed /\ discovered = <<>>
      /\ DOMAIN discovered = {} /\ Len(discovered) = 0
  BY EngineAssumption DEF Init, Items
<1>2. TypeOK
  BY <1>1, EngineAssumption DEF Init, TypeOK
<1>3. Given /\ Places /\ Distinct /\ Seen
  BY <1>1 DEF Init, Given, Places, Distinct, Seen, FetchedOnce
<1>4. Counted
  BY FS_EmptySet, EngineAssumption DEF Init, Counted
<1>5. AllReal
  <2>1. Seed \in Within[0]
    BY WithinStep
  <2>2. maxDepth \in Nat
    BY EngineAssumption DEF Init
  <2> QED
    BY <1>1, <2>1, <2>2 DEF Init, AllReal, Real
<1>6. Answered /\ LinksKept
  BY <1>1 DEF Init, Answered, LinksKept, Waiting
<1>7. BreadthOrder /\ Found
  BY <1>1 DEF Init, BreadthOrder, Flying, Found
<1> QED
  BY <1>2, <1>3, <1>4, <1>5, <1>6, <1>7 DEF IInv

(* _crawl_one *)
LEMMA FetchKeeps ==
  ASSUME IInv, NEW i \in batch, Fetch(i)
  PROVE  IInv'
<1> USE DEF IInv
<1>1. PICK ok \in BOOLEAN :
         results' = results \cup {[item |-> i, ok |-> ok, links |-> IF ok THEN site[i.url] ELSE {}]}
  BY DEF Fetch
<1> DEFINE a == [item |-> i, ok |-> ok, links |-> IF ok THEN site[i.url] ELSE {}]
<1>2. /\ batch' = batch \ {i} /\ results' = results \cup {a}
      /\ phase = "fetch"
      /\ phase' = IF batch' = {} THEN "process" ELSE "fetch"
      /\ UNCHANGED <<site, workers, maxDepth, maxPages>>
      /\ UNCHANGED <<frontier, visited, discovered, pagesCrawled>>
  BY <1>1 DEF Fetch, config
<1>3. Within' = Within
  BY <1>2, WithinSame
<1>4. i \in Items /\ a.item = i /\ a.ok = ok /\ a.links = IF ok THEN site[i.url] ELSE {}
  BY DEF TypeOK
<1>5. a \in [item : Items, ok : BOOLEAN, links : SUBSET Urls]
  BY <1>4, EngineAssumption DEF TypeOK, Items
<1>6. \A r \in results : r.item # i
  BY DEF Distinct
<1> HIDE DEF a
<1>7. TypeOK'
  BY <1>2, <1>5 DEF TypeOK
<1>8. Given' /\ Places'
  BY <1>2 DEF Given, Places
<1>9. Distinct'
  BY <1>2, <1>4 DEF Distinct, FetchedOnce
<1>10. Seen'
  <2>1. ASSUME NEW u \in visited
        PROVE  \/ \E j \in batch' : j.url = u
               \/ \E r \in results' : r.item.url = u
               \/ \E n \in DOMAIN discovered : discovered[n].item.url = u
    BY <1>2, <1>4 DEF Seen
  <2> QED
    BY <1>2, <1>4, <2>1 DEF Seen
<1>11. Counted'
  <2>1. a \notin results
    BY <1>4, <1>6
  <2>2. /\ IsFiniteSet(batch') /\ Cardinality(batch') = Cardinality(batch) - 1
        /\ IsFiniteSet(results') /\ Cardinality(results') = Cardinality(results) + 1
    BY <1>2, <2>1, FS_AddElement, FS_RemoveElement DEF Counted
  <2>3. Cardinality(batch) \in Nat /\ Cardinality(results) \in Nat /\ pagesCrawled \in Nat
        /\ Cardinality(visited) \in Nat /\ maxPages \in Nat
    BY FS_CardinalityType, EngineAssumption DEF Counted, TypeOK
  <2> QED
    BY <1>2, <2>2, <2>3 DEF Counted
<1>12. AllReal'
  <2>1. \A j, n : Real(j, n, discovered)' <=> Real(j, n, discovered)
    BY <1>2, <1>3 DEF Real
  <2> QED
    BY <1>2, <1>4, <2>1 DEF AllReal
<1>13. Answered'
  BY <1>2, <1>4 DEF Answered
<1>14. LinksKept'
  BY <1>2 DEF LinksKept, Waiting
<1>15. Flying' = Flying
  BY <1>2, <1>4 DEF Flying
<1>16. BreadthOrder' /\ Found'
  BY <1>2, <1>3, <1>15 DEF BreadthOrder, Found, Nearest, AllOk
<1> QED
  BY <1>7, <1>8, <1>9, <1>10, <1>11, <1>12, <1>13, <1>14, <1>16

(* _collect_batch *)
LEMMA CollectKeeps ==
  ASSUME IInv, CollectBatch
  PROVE  IInv'
<1> USE DEF IInv
<1> DEFINE size == SmallerOf(workers, Remaining)
<1>1. PICK n \in PopsFor(size) : Collect(Popped(n), Rest(n), UrlsOf(Popped(n)))
  BY DEF CollectBatch
<1> DEFINE P == Popped(n)
           Q == Rest(n)
<1>2. /\ phase = "collect" /\ batch = {} /\ results = {} /\ results' = {}
      /\ pagesCrawled < maxPages
      /\ batch' = P /\ frontier' = Q /\ visited' = visited \cup UrlsOf(P)
      /\ phase' = IF P = {} THEN "collect" ELSE "fetch"
      /\ UNCHANGED <<site, workers, maxDepth, maxPages>>
      /\ UNCHANGED <<discovered, pagesCrawled>>
  BY <1>1 DEF Collect, config, Places
<1>3. /\ size \in Nat /\ size <= workers /\ pagesCrawled + size <= maxPages
  BY <1>2, Sizes
<1>4. /\ n \in 1 .. Len(frontier)
      /\ P \subseteq Items
      /\ \A i \in P : /\ i.url \notin visited
                     /\ \E k \in 1 .. n :
                            /\ i = frontier[k]
                            /\ \A j \in 1 .. (k - 1) : frontier[j].url # i.url
      /\ \A i, j \in P : i.url = j.url => i = j
      /\ \A k \in 1 .. n : frontier[k].url \in visited \cup UrlsOf(P)
  BY <1>3, PoppedItems
<1>5. IsFiniteSet(P) /\ Cardinality(P) \in Nat /\ Cardinality(P) <= size
  <2>1. n \in Nat
    BY <1>4
  <2> QED
    BY <1>3, <2>1, PoppedFinite, PoppedBound, FS_CardinalityType
<1>6. /\ Q \in Seq(Items)
      /\ Len(Q) = Len(frontier) - n
      /\ \A k \in 1 .. Len(Q) : k + n \in 1 .. Len(frontier) /\ Q[k] = frontier[k + n]
  BY <1>4, RestItems
<1> HIDE DEF P, Q, size
<1>7. Within' = Within
  BY <1>2, WithinSame
<1>8. /\ Len(frontier) \in Nat /\ DOMAIN frontier = 1 .. Len(frontier)
      /\ DOMAIN Q = 1 .. Len(Q) /\ Len(Q) \in Nat
      /\ \A k \in 1 .. n : k \in DOMAIN frontier
      /\ n \in Nat
  BY <1>4, <1>6, Elements
<1>9. UrlsOf(P) \subseteq Urls
  BY <1>4 DEF UrlsOf, Items
<1>10. TypeOK'
  BY <1>2, <1>4, <1>6, <1>9 DEF TypeOK
<1>11. Given' /\ Places'
  BY <1>2 DEF Given, Places
<1>12. Distinct'
  <2>1. \A m \in DOMAIN discovered : \A i \in P : discovered[m].item.url # i.url
    BY <1>4 DEF Seen
  <2> QED
    BY <1>2, <1>4, <2>1 DEF Distinct, FetchedOnce
<1>13. Seen'
  <2>1. \A u \in UrlsOf(P) : \E i \in P : i.url = u
    BY DEF UrlsOf
  <2>2. \A i \in P : i.url \in UrlsOf(P)
    BY DEF UrlsOf
  <2>3. \A u \in visited : \E m \in DOMAIN discovered : discovered[m].item.url = u
    BY <1>2 DEF Seen
  <2>4. \A m \in DOMAIN discovered : discovered[m].item.url \in visited
    BY DEF Seen
  <2> QED
    BY <1>2, <2>1, <2>2, <2>3, <2>4 DEF Seen
<1>14. Counted'
  <2>1. IsFiniteSet(UrlsOf(P)) /\ Cardinality(UrlsOf(P)) <= Cardinality(P)
    BY <1>5, UrlsBound
  <2>2. /\ IsFiniteSet(visited \cup UrlsOf(P))
        /\ Cardinality(visited \cup UrlsOf(P)) =
           Cardinality(visited) + Cardinality(UrlsOf(P)) - Cardinality(visited \cap UrlsOf(P))
    BY <2>1, FS_Union DEF Counted
  <2>3. /\ Cardinality(visited \cap UrlsOf(P)) \in Nat /\ Cardinality(UrlsOf(P)) \in Nat
        /\ Cardinality(visited) \in Nat
    BY <2>1, FS_Intersection, FS_CardinalityType DEF Counted
  <2>4. Cardinality({}) = 0 /\ IsFiniteSet({})
    BY FS_EmptySet
  <2>5. Cardinality(visited) <= pagesCrawled
    BY <1>2, <2>3, <2>4 DEF Counted, TypeOK
  <2>6. pagesCrawled \in Nat /\ maxPages \in Nat
    BY EngineAssumption DEF TypeOK
  <2>7. Cardinality(visited \cup UrlsOf(P)) <= pagesCrawled + Cardinality(P)
    BY <1>5, <2>1, <2>2, <2>3, <2>5, <2>6
  <2>8. pagesCrawled + Cardinality(P) <= maxPages
    BY <1>3, <1>5, <2>6
  <2> QED
    BY <1>2, <1>5, <2>2, <2>4, <2>6, <2>7, <2>8 DEF Counted
<1>15. AllReal'
  <2>1. \A j, m : Real(j, m, discovered)' <=> Real(j, m, discovered)
    BY <1>2, <1>7 DEF Real
  <2>2. \A i \in P : Real(i, Len(discovered), discovered)
    BY <1>4, <1>8 DEF AllReal
  <2>3. \A k \in DOMAIN Q : Real(Q[k], Len(discovered), discovered)
    BY <1>6, <1>8 DEF AllReal
  <2> QED
    BY <1>2, <2>1, <2>2, <2>3 DEF AllReal
<1>16. Answered'
  BY <1>2 DEF Answered
<1>17. LinksKept'
  <2>1. ASSUME NEW u, NEW d, Waiting(u, d, frontier)
        PROVE  u \in visited' \/ Waiting(u, d, Q)
    <3>1. PICK k \in DOMAIN frontier : frontier[k].url = u /\ frontier[k].depth = d
      BY <2>1 DEF Waiting
    <3>2. CASE k <= n
      <4>1. k \in 1 .. n
        BY <1>8, <3>2
      <4> QED
        BY <1>2, <1>4, <3>1, <4>1
    <3>3. CASE ~(k <= n)
      <4>1. k - n \in 1 .. Len(Q) /\ (k - n) + n = k
        BY <1>6, <1>8, <3>3
      <4>2. Q[k - n] = frontier[k]
        BY <1>6, <4>1
      <4> QED
        BY <1>2, <1>8, <3>1, <4>1, <4>2 DEF Waiting
    <3> QED
      BY <3>2, <3>3
  <2>2. Seed \in visited' \/ Waiting(Seed, 0, Q)
    BY <1>2, <2>1 DEF LinksKept
  <2>3. ASSUME NEW m \in DOMAIN discovered, discovered[m].ok,
               discovered[m].item.depth < maxDepth,
               NEW v \in site[discovered[m].item.url] \ Offsite
        PROVE  v \in visited' \/ Waiting(v, discovered[m].item.depth + 1, Q)
    BY <1>2, <2>1, <2>3 DEF LinksKept
  <2>4. /\ discovered' = discovered /\ site' = site /\ maxDepth' = maxDepth
    BY <1>2
  <2> QED
    BY <1>2, <2>2, <2>3, <2>4 DEF LinksKept
<1>18. workers = 1 => \A i, j \in P : i = j
  <2> SUFFICES ASSUME workers = 1, NEW i \in P, NEW j \in P, i # j
               PROVE  FALSE
    OBVIOUS
  <2>1. IsFiniteSet({i}) /\ Cardinality({i}) = 1
    BY FS_Singleton
  <2>2. Cardinality({i} \cup {j}) = 2
    <3>1. Cardinality({i} \cup {j}) = IF j \in {i} THEN Cardinality({i}) ELSE Cardinality({i}) + 1
      BY <2>1, FS_AddElement
    <3> QED
      BY <2>1, <3>1
  <2>3. {i} \cup {j} \in SUBSET P
    OBVIOUS
  <2>4. 2 <= Cardinality(P)
    BY <1>5, <2>2, <2>3, FS_Subset
  <2> QED
    BY <1>3, <1>5, <2>4
<1>19. BreadthOrder'
  <2> SUFFICES ASSUME workers = 1
               PROVE  BreadthOrder'
    BY <1>2 DEF BreadthOrder
  <2>1. Flying' = P
    BY <1>2 DEF Flying
  <2>2. ASSUME NEW j \in DOMAIN Q, NEW k \in DOMAIN Q
        PROVE  /\ j <= k => Q[j].depth <= Q[k].depth
               /\ Q[k].depth <= Q[j].depth + 1
    <3>1. /\ j + n \in DOMAIN frontier /\ k + n \in DOMAIN frontier
          /\ Q[j] = frontier[j + n] /\ Q[k] = frontier[k + n]
          /\ j <= k => j + n <= k + n
      BY <1>6, <1>8
    <3> QED
      BY <3>1 DEF BreadthOrder
  <2>3. ASSUME NEW i \in P, NEW k \in DOMAIN Q
        PROVE  i.depth <= Q[k].depth /\ Q[k].depth <= i.depth + 1
    <3>1. PICK m \in 1 .. n : i = frontier[m]
      BY <1>4
    <3>2. m \in DOMAIN frontier /\ k + n \in DOMAIN frontier /\ m <= k + n
      BY <1>6, <1>8
    <3>3. Q[k] = frontier[k + n]
      BY <1>6, <1>8
    <3> QED
      BY <3>1, <3>2, <3>3 DEF BreadthOrder
  <2> QED
    BY <1>2, <1>18, <2>1, <2>2, <2>3 DEF BreadthOrder
<1>20. Found'
  <2> SUFFICES ASSUME workers = 1, AllOk
               PROVE  Found'
    BY <1>2 DEF Found, AllOk
  <2>1. ASSUME NEW i \in P
        PROVE  Nearest(i)
    <3> SUFFICES ASSUME i.depth # 0
                 PROVE  i.url \notin Within[i.depth - 1]
      BY DEF Nearest
    <3>1. PICK m \in 1 .. n : /\ i = frontier[m]
                             /\ \A j \in 1 .. (m - 1) : frontier[j].url # i.url
      BY <1>4
    <3>2. m \in DOMAIN frontier /\ i.depth \in Nat /\ i.depth - 1 \in Nat
      <4>1. m \in DOMAIN frontier
        BY <1>8
      <4>2. i.depth \in Nat
        BY <3>1, <4>1, Elements
      <4> QED
        BY <4>1, <4>2
    <3>3. i.depth <= maxDepth /\ maxDepth \in Nat
      BY <3>1, <3>2, EngineAssumption DEF AllReal, Real, TypeOK
    <3>4. ASSUME NEW k \in DOMAIN frontier
          PROVE  frontier[k].depth > i.depth - 1 \/ frontier[k].url \in visited
      <4>1. CASE m <= k
        <5>1. frontier[m].depth <= frontier[k].depth
          BY <3>2, <4>1 DEF BreadthOrder
        <5> QED
          BY <3>1, <3>2, <5>1, Elements
      <4>2. CASE ~(m <= k)
        <5>1. k \in 1 .. n
          BY <1>8, <4>2
        <5>2. frontier[k].url \in visited \/ frontier[k].url \in UrlsOf(P)
          BY <1>4, <5>1
        <5>3. frontier[k].url # i.url
          BY <1>8, <3>1, <4>2, <5>1
        <5>4. frontier[k].url \notin UrlsOf(P)
          BY <1>18, <5>3 DEF UrlsOf
        <5> QED
          BY <5>2, <5>4
      <4> QED
        BY <4>1, <4>2
    <3>5. Within[i.depth - 1] \subseteq visited
      BY <1>2, <3>2, <3>3, <3>4, LevelsDone
    <3> QED
      BY <1>4, <3>5
  <2>2. Flying' = P
    BY <1>2 DEF Flying
  <2>3. \A m \in DOMAIN discovered : Nearest(discovered[m].item)
    BY DEF Found
  <2> QED
    BY <1>2, <1>7, <2>1, <2>2, <2>3 DEF Found, Nearest
<1> QED
  BY <1>10, <1>11, <1>12, <1>13, <1>14, <1>15, <1>16, <1>17, <1>19, <1>20

(* The list with one more page. *)
LEMMA Recorded ==
  ASSUME TypeOK, NEW x \in [item : Items, ok : BOOLEAN]
  PROVE  LET d == Append(discovered, x)
             N == Len(discovered)
         IN  /\ d \in Seq([item : Items, ok : BOOLEAN])
             /\ N \in Nat /\ Len(d) = N + 1
             /\ DOMAIN discovered = 1 .. N /\ DOMAIN d = 1 .. (N + 1)
             /\ d[N + 1] = x
             /\ \A n \in 1 .. N : d[n] = discovered[n]
<1> DEFINE R == [item : Items, ok : BOOLEAN]
<1>1. discovered \in Seq(R) /\ x \in R
  BY DEF TypeOK
<1> HIDE DEF R
<1> QED
  BY <1>1 DEF R

(* The children of a page, in any order. *)
LEMMA ChildItems ==
  ASSUME IInv, NEW r \in results,
         NEW order \in SetToSeqs(IF r.item.depth >= maxDepth THEN {}
                                 ELSE Children(r, r.item.depth + 1))
  PROVE  /\ order \in Seq(Items)
         /\ \A k \in 1 .. Len(order) :
                /\ order[k].depth = r.item.depth + 1 /\ order[k].parent = r.item.url
                /\ order[k].url \in r.links \ (visited \cup Offsite)
                /\ r.item.depth < maxDepth
         /\ r.item.depth < maxDepth =>
                \A v \in r.links \ (visited \cup Offsite) :
                    \E k \in 1 .. Len(order) : order[k].url = v
<1> USE DEF IInv
<1> DEFINE new == r.links \ (visited \cup Offsite)
           d == r.item.depth + 1
           S == IF r.item.depth >= maxDepth THEN {} ELSE Children(r, d)
<1>1. /\ r.item \in Items /\ r.item.depth \in Nat /\ r.item.url \in Urls
      /\ r.links \in SUBSET Urls /\ maxDepth \in Nat
  BY Elements, EngineAssumption DEF TypeOK, Items
<1>2. IsFiniteSet(new)
  <2>1. IsFiniteSet(r.links)
    <3>1. IsFiniteSet({})
      BY FS_EmptySet
    <3>2. r.ok => IsFiniteSet(site[r.item.url])
      BY <1>1, EngineAssumption DEF Given
    <3> QED
      BY <3>1, <3>2 DEF Answered
  <2> QED
    BY <2>1, FS_Difference
<1>3. /\ \A c \in S : /\ c \in Items /\ c.url \in new /\ c.depth = d /\ c.parent = r.item.url
                      /\ r.item.depth < maxDepth
      /\ r.item.depth < maxDepth => \A v \in new : \E c \in S : c.url = v
  <2>1. \A c \in Children(r, d) : c \in Items /\ c.url \in new /\ c.depth = d
                                  /\ c.parent = r.item.url
    BY <1>1 DEF Children, Items
  <2>2. \A v \in new : [url |-> v, depth |-> d, parent |-> r.item.url] \in Children(r, d)
    BY DEF Children
  <2>3. CASE r.item.depth >= maxDepth
    BY <1>1, <2>3
  <2>4. CASE ~(r.item.depth >= maxDepth)
    <3>1. S = Children(r, d) /\ r.item.depth < maxDepth
      BY <1>1, <2>4
    <3>2. \A v \in new : \E c \in Children(r, d) : c.url = v
      BY <2>2
    <3> HIDE DEF S, new, d
    <3> QED
      BY <2>1, <3>1, <3>2
  <2> QED
    BY <2>3, <2>4
<1>4. IsFiniteSet(S)
  <2> DEFINE f == [v \in new |-> [url |-> v, depth |-> d, parent |-> r.item.url]]
  <2>1. f \in Surjection(new, Children(r, d))
    BY DEF Surjection, Children
  <2> HIDE DEF f, new
  <2>2. IsFiniteSet(Children(r, d))
    BY <1>2, <2>1, FS_Surjection
  <2> QED
    BY <2>2, FS_EmptySet
<1> HIDE DEF S
<1>5. order \in Seq(S) /\ \A c \in S : \E k \in 1 .. Len(order) : order[k] = c
  BY <1>4, OrderNames DEF S
<1>6. Len(order) \in Nat /\ \A k \in 1 .. Len(order) : order[k] \in S
  BY <1>5
<1>7. order \in Seq(Items)
  <2>1. \A k \in 1 .. Len(order) : order[k] \in Items
    BY <1>3, <1>6
  <2> QED
    BY <1>5, <2>1
<1>8. ASSUME NEW k \in 1 .. Len(order)
      PROVE  /\ order[k].depth = d /\ order[k].parent = r.item.url /\ order[k].url \in new
             /\ r.item.depth < maxDepth
  <2>1. order[k] \in S
    BY <1>6
  <2> QED
    BY <1>3, <2>1
<1>9. ASSUME r.item.depth < maxDepth, NEW v \in new
      PROVE  \E k \in 1 .. Len(order) : order[k].url = v
  <2>1. PICK c \in S : c.url = v
    BY <1>3, <1>9
  <2> QED
    BY <1>5, <2>1
<1> QED
  BY <1>7, <1>8, <1>9

(* The loop over the results. *)
LEMMA ProcessKeeps ==
  ASSUME IInv, NEW r \in results, ProcessResult(r)
  PROVE  IInv'
<1> USE DEF IInv
<1>1. PICK order \in SetToSeqs(IF r.item.depth >= maxDepth THEN {}
                               ELSE Children(r, r.item.depth + 1)) :
         frontier' = frontier \o order
  BY DEF ProcessResult, Process
<1> DEFINE x == [item |-> r.item, ok |-> r.ok]
           N == Len(discovered)
           L == Len(frontier)
<1>2. /\ phase = "process" /\ batch = {} /\ batch' = {}
      /\ results' = results \ {r}
      /\ discovered' = Append(discovered, x)
      /\ pagesCrawled' = pagesCrawled + 1
      /\ phase' = IF results' = {} THEN "collect" ELSE "process"
      /\ UNCHANGED <<site, workers, maxDepth, maxPages>> /\ UNCHANGED visited
  BY DEF ProcessResult, Process, config, Places
<1>3. /\ order \in Seq(Items)
      /\ \A k \in 1 .. Len(order) :
             /\ order[k].depth = r.item.depth + 1 /\ order[k].parent = r.item.url
             /\ order[k].url \in r.links \ (visited \cup Offsite)
             /\ r.item.depth < maxDepth
      /\ r.item.depth < maxDepth =>
             \A v \in r.links \ (visited \cup Offsite) :
                 \E k \in 1 .. Len(order) : order[k].url = v
  BY ChildItems
<1>4. x \in [item : Items, ok : BOOLEAN] /\ x.item = r.item /\ x.ok = r.ok
      /\ r.item \in Items /\ r.item.depth \in Nat /\ maxDepth \in Nat
  BY Elements, EngineAssumption DEF TypeOK
<1> HIDE DEF x
<1>5. /\ discovered' \in Seq([item : Items, ok : BOOLEAN])
      /\ N \in Nat /\ Len(discovered') = N + 1
      /\ DOMAIN discovered = 1 .. N /\ DOMAIN discovered' = 1 .. (N + 1)
      /\ discovered'[N + 1] = x
      /\ \A n \in 1 .. N : discovered'[n] = discovered[n]
  BY <1>2, <1>4, Recorded
<1>6. /\ frontier' \in Seq(Items)
      /\ L \in Nat /\ Len(order) \in Nat
      /\ DOMAIN frontier = 1 .. L /\ DOMAIN frontier' = 1 .. (L + Len(order))
      /\ \A k \in 1 .. L : k \in DOMAIN frontier' /\ frontier'[k] = frontier[k]
      /\ \A k \in 1 .. Len(order) : L + k \in DOMAIN frontier' /\ frontier'[L + k] = order[k]
      /\ \A k \in DOMAIN frontier' :
             \/ k \in 1 .. L /\ frontier'[k] = frontier[k]
             \/ k - L \in 1 .. Len(order) /\ frontier'[k] = order[k - L]
  <2>1. frontier \in Seq(Items)
    BY DEF TypeOK
  <2>2. /\ frontier' \in Seq(Items)
        /\ Len(frontier') = L + Len(order)
        /\ \A k \in 1 .. L : frontier'[k] = frontier[k]
        /\ \A k \in 1 .. Len(order) : frontier'[L + k] = order[k]
        /\ \A k \in 1 .. Len(frontier') :
               \/ k \in 1 .. L /\ frontier'[k] = frontier[k]
               \/ k - L \in 1 .. Len(order) /\ frontier'[k] = order[k - L]
    BY <1>1, <1>3, <2>1, PushedItems
  <2>3. L \in Nat /\ Len(order) \in Nat /\ DOMAIN frontier = 1 .. L
        /\ DOMAIN frontier' = 1 .. Len(frontier')
    BY <1>3, <2>1, <2>2
  <2> QED
    BY <2>2, <2>3
<1>7. Within' = Within
  BY <1>2, WithinSame
<1> HIDE DEF N, L
<1>8. \A n \in DOMAIN discovered' :
          \/ n \in DOMAIN discovered /\ discovered'[n] = discovered[n]
          \/ n = N + 1 /\ discovered'[n] = x
  BY <1>5
<1>9. \A k \in DOMAIN frontier' :
          \/ k \in DOMAIN frontier /\ frontier'[k] = frontier[k]
          \/ \E j \in 1 .. Len(order) : k = L + j /\ frontier'[k] = order[j]
  <2>1. ASSUME NEW k \in DOMAIN frontier', k - L \in 1 .. Len(order), frontier'[k] = order[k - L]
        PROVE  \E j \in 1 .. Len(order) : k = L + j /\ frontier'[k] = order[j]
    <3>1. k = L + (k - L)
      BY <1>6
    <3> QED
      BY <2>1, <3>1
  <2> QED
    BY <1>6, <2>1
<1>10. TypeOK'
  <2>1. pagesCrawled' \in Nat
    BY <1>2 DEF TypeOK
  <2> QED
    BY <1>2, <1>5, <1>6, <2>1 DEF TypeOK
<1>11. Given' /\ Places'
  BY <1>2 DEF Given, Places
<1>12. Distinct'
  <2>1. FetchedOnce'
    <3>1. \A m, n \in DOMAIN discovered' :
              discovered'[m].item.url = discovered'[n].item.url => m = n
      BY <1>4, <1>8 DEF Distinct, FetchedOnce
    <3>2. pagesCrawled' = Len(discovered')
      BY <1>2, <1>5 DEF Distinct, FetchedOnce, N
    <3> QED
      BY <3>1, <3>2 DEF FetchedOnce
  <2>2. \A n \in DOMAIN discovered' : \A s \in results' : discovered'[n].item.url # s.item.url
    BY <1>2, <1>4, <1>8 DEF Distinct
  <2> QED
    BY <1>2, <2>1, <2>2 DEF Distinct
<1>13. Seen'
  <2>1. \A n \in DOMAIN discovered' : discovered'[n].item.url \in visited
    BY <1>4, <1>8 DEF Seen
  <2>2. ASSUME NEW u \in visited
        PROVE  \/ \E s \in results' : s.item.url = u
               \/ \E n \in DOMAIN discovered' : discovered'[n].item.url = u
    <3>1. CASE u = r.item.url
      <4>1. N + 1 \in DOMAIN discovered'
        BY <1>5
      <4> QED
        BY <1>4, <1>5, <3>1, <4>1
    <3>2. CASE u # r.item.url
      <4>1. \A n \in DOMAIN discovered : n \in DOMAIN discovered' /\ discovered'[n] = discovered[n]
        BY <1>5
      <4> QED
        BY <1>2, <3>2, <4>1 DEF Seen
    <3> QED
      BY <3>1, <3>2
  <2> QED
    BY <1>2, <2>1, <2>2 DEF Seen
<1>14. Counted'
  <2>1. IsFiniteSet(results') /\ Cardinality(results') = Cardinality(results) - 1
    BY <1>2, FS_RemoveElement DEF Counted
  <2>2. /\ Cardinality(batch) \in Nat /\ Cardinality(results) \in Nat /\ pagesCrawled \in Nat
        /\ Cardinality(visited) \in Nat /\ maxPages \in Nat
    BY FS_CardinalityType, EngineAssumption DEF Counted, TypeOK
  <2> QED
    BY <1>2, <2>1, <2>2 DEF Counted
<1>15. AllReal'
  <2>1. ASSUME NEW j, NEW n \in 0 .. N, Real(j, n, discovered), NEW p \in n .. (N + 1)
        PROVE  Real(j, p, discovered')
    <3>1. \A m \in 1 .. n : m \in 1 .. p /\ discovered'[m] = discovered[m]
      BY <1>5
    <3> QED
      BY <1>2, <1>7, <2>1, <3>1 DEF Real
  <2>2. N \in 0 .. N /\ N \in N .. (N + 1) /\ N + 1 \in N .. (N + 1)
    BY <1>5
  <2>3. ASSUME NEW k \in DOMAIN frontier'
        PROVE  Real(frontier'[k], N + 1, discovered')
    <3>1. CASE k \in DOMAIN frontier /\ frontier'[k] = frontier[k]
      BY <2>1, <2>2, <3>1 DEF AllReal, N
    <3>2. ASSUME NEW j \in 1 .. Len(order), frontier'[k] = order[j]
          PROVE  Real(frontier'[k], N + 1, discovered')
      <4> DEFINE i == order[j]
      <4>1. /\ i.depth = r.item.depth + 1 /\ i.parent = r.item.url
            /\ i.url \in r.links /\ i.url \notin Offsite /\ r.item.depth < maxDepth
        BY <1>3
      <4>2. i.url \in site[r.item.url]
        BY <4>1 DEF Answered
      <4>3. i.url \in Within[i.depth]
        <5>1. r.item.url \in Within[r.item.depth]
          BY DEF AllReal, Real
        <5> QED
          BY <1>4, <4>1, <4>2, <5>1, WithinStep
      <4>4. i.depth <= maxDepth /\ i.depth - 1 = r.item.depth
        BY <1>4, <4>1
      <4>5. N + 1 \in 1 .. (N + 1)
        BY <1>5
      <4> HIDE DEF i
      <4>6. Real(i, N + 1, discovered')
        BY <1>2, <1>4, <1>5, <1>7, <4>1, <4>2, <4>3, <4>4, <4>5 DEF Real
      <4> QED
        BY <3>2, <4>6 DEF i
    <3> QED
      BY <1>9, <3>1, <3>2
  <2>4. \A s \in results' : Real(s.item, N + 1, discovered')
    BY <1>2, <2>1, <2>2 DEF AllReal, N
  <2>5. ASSUME NEW n \in DOMAIN discovered'
        PROVE  Real(discovered'[n].item, n - 1, discovered')
    <3>1. CASE n \in DOMAIN discovered /\ discovered'[n] = discovered[n]
      <4>1. n - 1 \in 0 .. N /\ n - 1 \in (n - 1) .. (N + 1)
        BY <1>5, <3>1
      <4>2. Real(discovered[n].item, n - 1, discovered)
        BY <3>1 DEF AllReal
      <4> QED
        BY <2>1, <3>1, <4>1, <4>2
    <3>2. CASE n = N + 1 /\ discovered'[n] = x
      <4>1. Real(r.item, N, discovered)
        BY DEF AllReal, N
      <4>2. n - 1 = N
        BY <1>5, <3>2
      <4> QED
        BY <1>4, <2>1, <2>2, <3>2, <4>1, <4>2
    <3> QED
      BY <1>8, <3>1, <3>2
  <2>6. \A j, m : Real(j, m, discovered)' <=> Real(j, m, discovered')
    BY <1>2, <1>7 DEF Real
  <2> QED
    BY <1>2, <1>5, <2>3, <2>4, <2>5, <2>6 DEF AllReal
<1>16. Answered'
  BY <1>2 DEF Answered
<1>17. LinksKept'
  <2>1. ASSUME NEW u, NEW d, Waiting(u, d, frontier)
        PROVE  Waiting(u, d, frontier')
    BY <1>6, <2>1 DEF Waiting
  <2>2. Seed \in visited \/ Waiting(Seed, 0, frontier')
    BY <2>1 DEF LinksKept
  <2>3. ASSUME NEW m \in DOMAIN discovered', discovered'[m].ok,
               discovered'[m].item.depth < maxDepth,
               NEW v \in site[discovered'[m].item.url] \ Offsite
        PROVE  v \in visited \/ Waiting(v, discovered'[m].item.depth + 1, frontier')
    <3>1. CASE m \in DOMAIN discovered /\ discovered'[m] = discovered[m]
      BY <2>1, <2>3, <3>1 DEF LinksKept
    <3>2. CASE discovered'[m] = x /\ v \notin visited
      <4>1. v \in r.links
        BY <1>4, <2>3, <3>2 DEF Answered
      <4>2. PICK k \in 1 .. Len(order) : order[k].url = v
        BY <1>3, <1>4, <2>3, <3>2, <4>1
      <4>3. order[k].depth = r.item.depth + 1
        BY <1>3
      <4> QED
        BY <1>4, <1>6, <3>2, <4>2, <4>3 DEF Waiting
    <3> QED
      BY <1>8, <3>1, <3>2
  <2> QED
    BY <1>2, <2>2, <2>3 DEF LinksKept
<1>18. BreadthOrder'
  <2> SUFFICES ASSUME workers = 1
               PROVE  BreadthOrder'
    BY <1>2 DEF BreadthOrder
  <2> DEFINE d == r.item.depth
  <2>1. r.item \in Flying
    BY DEF Flying
  <2>2. \A s \in results : s = r
    BY <2>1 DEF BreadthOrder, Flying, Distinct
  <2>3. Flying' = {}
    BY <1>2, <2>2 DEF Flying
  <2>4. \A k \in DOMAIN frontier : d <= frontier[k].depth /\ frontier[k].depth <= d + 1
    BY <2>1 DEF BreadthOrder
  <2>5. \A k \in DOMAIN frontier : frontier[k].depth \in Nat
    BY Elements
  <2>6. \A k \in DOMAIN frontier' :
            /\ frontier'[k].depth \in Nat
            /\ d <= frontier'[k].depth /\ frontier'[k].depth <= d + 1
            /\ k \in 1 .. L \/ frontier'[k].depth = d + 1
    <3>1. \A k \in 1 .. L : /\ frontier'[k] = frontier[k]
                             /\ frontier[k].depth \in Nat
                             /\ d <= frontier[k].depth /\ frontier[k].depth <= d + 1
      BY <1>6, <2>4, <2>5
    <3>2. \A k \in DOMAIN frontier' : k \in 1 .. L \/ frontier'[k].depth = d + 1
      BY <1>3, <1>6
    <3> QED
      BY <1>4, <3>1, <3>2
  <2>7. ASSUME NEW j \in DOMAIN frontier', NEW k \in DOMAIN frontier', j <= k
        PROVE  frontier'[j].depth <= frontier'[k].depth
    <3>1. CASE k \in 1 .. L
      <4>1. j \in 1 .. L
        BY <1>6, <2>7, <3>1
      <4> QED
        BY <1>6, <2>7, <3>1, <4>1 DEF BreadthOrder
    <3>2. CASE k \notin 1 .. L
      BY <1>4, <2>6, <3>2
    <3> QED
      BY <3>1, <3>2
  <2>8. ASSUME NEW j \in DOMAIN frontier', NEW k \in DOMAIN frontier'
        PROVE  frontier'[k].depth <= frontier'[j].depth + 1
    BY <1>4, <2>6
  <2> QED
    BY <1>2, <2>3, <2>7, <2>8 DEF BreadthOrder
<1>19. Found'
  <2>1. AllOk' => AllOk
    BY <1>5 DEF AllOk
  <2>2. Flying' \subseteq Flying /\ r.item \in Flying
    BY <1>2 DEF Flying
  <2> SUFFICES ASSUME workers = 1, AllOk
               PROVE  Found'
    BY <1>2, <2>1 DEF Found
  <2>3. \A i \in Flying : Nearest(i)
    BY DEF Found
  <2>4. \A n \in DOMAIN discovered' : Nearest(discovered'[n].item)
    BY <1>4, <1>8, <2>2, <2>3 DEF Found
  <2> QED
    BY <1>7, <2>2, <2>3, <2>4 DEF Found, Nearest
<1> QED
  BY <1>10, <1>11, <1>12, <1>13, <1>14, <1>15, <1>16, <1>17, <1>18, <1>19

-----------------------------------------------------------------------------
(* Theorems. *)

(* What a crawl keeps in its frontier, batch, results and list, for any sites, limits,
   workers, completion orders and failed fetches. *)
THEOREM EngineInvariant == Spec => []IInv
<1>1. ASSUME IInv, [Next]_vars
      PROVE  IInv'
  <2>1. CASE CollectBatch
    BY <1>1, <2>1, CollectKeeps
  <2>2. ASSUME NEW i \in batch, Fetch(i)
        PROVE  IInv'
    BY <1>1, <2>2, FetchKeeps
  <2>3. ASSUME NEW r \in results, ProcessResult(r)
        PROVE  IInv'
    BY <1>1, <2>3, ProcessKeeps
  <2>4. CASE Return
    BY <1>1, <2>4, PhaseKeeps DEF Return
  <2>5. CASE FetchRaises
    BY <1>1, <2>5, PhaseKeeps DEF FetchRaises
  <2>6. CASE UNCHANGED vars
    BY <1>1, <2>6, PhaseKeeps DEF vars
  <2> QED
    BY <1>1, <2>1, <2>2, <2>3, <2>4, <2>5, <2>6 DEF Next, Crawl
<1> QED
  BY <1>1, InitKeeps, PTL DEF Spec

(* TypeOK: the variables of a crawl have their types. *)
THEOREM EngineTypes == Spec => []TypeOK
<1>1. IInv => TypeOK
  BY DEF IInv
<1> QED
  BY <1>1, EngineInvariant, PTL

(* The pages that are visited are within the limit. *)
LEMMA MaxPagesKept ==
  ASSUME IInv
  PROVE  RespectsMaxPages
<1>1. /\ Cardinality(visited) \in Nat /\ Cardinality(batch) \in Nat
      /\ Cardinality(results) \in Nat /\ pagesCrawled \in Nat /\ maxPages \in Nat
  BY FS_CardinalityType, EngineAssumption DEF IInv, Counted, TypeOK
<1> QED
  BY <1>1 DEF IInv, Counted, RespectsMaxPages

(* RespectsMaxPages: pages that are fetched at the same time do not together exceed
   max_pages (_collect_batch, engine.py:184). *)
THEOREM PagesAreLimited == Spec => []RespectsMaxPages
BY MaxPagesKept, EngineInvariant, PTL

(* FetchedOnce: no URL is fetched or returned twice, whatever links to it. *)
THEOREM PagesAreFetchedOnce == Spec => []FetchedOnce
<1>1. IInv => FetchedOnce
  BY DEF IInv, Distinct
<1> QED
  BY <1>1, EngineInvariant, PTL

(* DepthsAreReal: the depth and the parent of each returned page are those of a path
   of links from the seed, within max_depth and the domain. *)
THEOREM DepthsAreOfPaths == Spec => []DepthsAreReal
<1>1. IInv => DepthsAreReal
  BY DEF IInv, AllReal, Real, DepthsAreReal
<1> QED
  BY <1>1, EngineInvariant, PTL

(* OneWorkerBreadthFirst: with one worker, and no page that failed, every page has its
   distance from the seed as its depth (engine.py:38). *)
THEOREM OneWorkerIsBreadthFirst == Spec => []OneWorkerBreadthFirst
<1>1. IInv => OneWorkerBreadthFirst
  BY DEF IInv, Found, AllOk, Nearest, OneWorkerBreadthFirst, BreadthFirst
<1> QED
  BY <1>1, EngineInvariant, PTL

(* OneWorkerComplete: with one worker, no failed page and an empty frontier at the end, the
   crawl returned exactly the pages within max_depth clicks of the seed. *)
THEOREM OneWorkerIsComplete == Spec => []OneWorkerComplete
<1>1. ASSUME IInv
      PROVE  OneWorkerComplete
  <2> SUFFICES ASSUME workers = 1, phase = "returned", frontier = <<>>, AllOk
               PROVE  Reached = Within[maxDepth]
    BY DEF OneWorkerComplete, AllOk
  <2>1. batch = {} /\ results = {} /\ DOMAIN frontier = {} /\ maxDepth \in Nat
    BY <1>1, EngineAssumption DEF IInv, Places, TypeOK
  <2>2. visited = Reached
    BY <1>1, <2>1 DEF IInv, Seen, Reached
  <2>3. Within[maxDepth] \subseteq visited
    BY <1>1, <2>1, LevelsDone DEF IInv
  <2>4. ASSUME NEW n \in DOMAIN discovered
        PROVE  discovered[n].item.url \in Within[maxDepth]
    <3> DEFINE i == discovered[n].item
    <3>1. i.depth <= maxDepth /\ i.url \in Within[i.depth] /\ i.depth \in Nat
      BY <1>1, Elements DEF IInv, AllReal, Real
    <3>2. Within[i.depth] \subseteq Within[maxDepth]
      BY <2>1, <3>1, WithinGrows
    <3> QED
      BY <3>1, <3>2
  <2> QED
    BY <2>2, <2>3, <2>4 DEF Reached
<1> QED
  BY <1>1, EngineInvariant, PTL

-----------------------------------------------------------------------------
(* The crawl implements CrawlTree. *)

SeedItem == [url |-> Seed, depth |-> 0, parent |-> NoParent]

(* An item has a place in the tree before it is fetched, and keeps it. *)
Grown(i) == i = SeedItem \/ Tree!Linked(i)

TreeInv ==
    /\ \A k \in DOMAIN frontier : Grown(frontier[k])
    /\ \A i \in batch : Grown(i)
    /\ \A r \in results : Grown(r.item)

(* The instance counts as the module it is used in does. *)
LEMMA TreeCardinality == \A S : Tree!Cardinality(S) = Cardinality(S)
BY DEF Tree!Cardinality, Cardinality

(* The tree is the list, and has a page for each of its URLs. *)
LEMMA TreeIsList ==
  ASSUME IInv
  PROVE  /\ Tree!Cardinality(Listed) = pagesCrawled
         /\ \A p \in Listed : \E n \in DOMAIN discovered : discovered[n] = p
         /\ \A n \in DOMAIN discovered : discovered[n] \in Listed
         /\ \A u : Tree!Has(u) <=> \E n \in DOMAIN discovered : discovered[n].item.url = u
<1> DEFINE D == DOMAIN discovered
<1>1. \A m, n \in D : discovered[m].item.url = discovered[n].item.url => m = n
  BY DEF IInv, Distinct, FetchedOnce
<1>2. Len(discovered) \in Nat /\ D = 1 .. Len(discovered) /\ pagesCrawled = Len(discovered)
  BY Elements DEF IInv, Distinct, FetchedOnce
<1>3. IsFiniteSet(D) /\ Cardinality(D) = pagesCrawled
  <2>1. pagesCrawled \in Nat /\ D = 1 .. pagesCrawled
    BY <1>2
  <2>2. IsFiniteSet(1 .. pagesCrawled) /\ Cardinality(1 .. pagesCrawled) = pagesCrawled
    BY <2>1, FS_Interval
  <2> QED
    BY <2>1, <2>2
<1> DEFINE f == [n \in D |-> discovered[n]]
<1>4. f \in Surjection(D, Listed) /\ f \in Injection(D, Listed)
  BY <1>1 DEF Surjection, Injection, IsInjective, Listed
<1> HIDE DEF f, D
<1>5. Cardinality(Listed) = Cardinality(D)
  BY <1>3, <1>4, FS_Surjection
<1>6. /\ \A p \in Listed : \E n \in DOMAIN discovered : discovered[n] = p
      /\ \A n \in DOMAIN discovered : discovered[n] \in Listed
  BY DEF Listed
<1>7. ASSUME NEW u
      PROVE  Tree!Has(u) <=> \E n \in DOMAIN discovered : discovered[n].item.url = u
  BY <1>6 DEF Tree!Has
<1> QED
  BY <1>3, <1>5, <1>6, <1>7, TreeCardinality

(* What an item was grown from stays, whatever joins the list. *)
LEMMA GrownStays ==
  ASSUME UNCHANGED config, Listed \subseteq Listed', NEW i, Grown(i)
  PROVE  Grown(i)'
BY DEF Grown, Tree!Linked, config

LEMMA SameTree ==
  ASSUME UNCHANGED discovered
  PROVE  Listed' = Listed
BY DEF Listed

LEMMA CollectTree ==
  ASSUME IInv, TreeInv, CollectBatch
  PROVE  TreeInv'
<1> DEFINE size == SmallerOf(workers, Remaining)
<1>1. PICK n \in PopsFor(size) : Collect(Popped(n), Rest(n), UrlsOf(Popped(n)))
  BY DEF CollectBatch
<1>2. /\ phase = "collect" /\ pagesCrawled < maxPages
      /\ batch' = Popped(n) /\ frontier' = Rest(n)
      /\ UNCHANGED config /\ UNCHANGED <<discovered, results>>
  BY <1>1 DEF Collect
<1>3. size \in Nat
  BY <1>2, Sizes DEF IInv
<1>4. /\ n \in 1 .. Len(frontier)
      /\ \A i \in Popped(n) : \E k \in 1 .. n : i = frontier[k]
  BY <1>3, PoppedItems DEF IInv
<1>5. /\ Rest(n) \in Seq(Items)
      /\ \A k \in 1 .. Len(Rest(n)) :
             k + n \in 1 .. Len(frontier) /\ Rest(n)[k] = frontier[k + n]
  BY <1>4, RestItems DEF IInv
<1>6. DOMAIN frontier = 1 .. Len(frontier) /\ Len(frontier) \in Nat
  BY Elements DEF IInv
<1>7. \A i : Grown(i) => Grown(i)'
  BY <1>2, GrownStays, SameTree
<1>8. \A k \in DOMAIN frontier' : \E j \in DOMAIN frontier : frontier'[k] = frontier[j]
  BY <1>2, <1>5, <1>6
<1>9. \A i \in batch' : \E k \in DOMAIN frontier : i = frontier[k]
  BY <1>2, <1>4, <1>6
<1> QED
  BY <1>2, <1>7, <1>8, <1>9 DEF TreeInv

LEMMA FetchTree ==
  ASSUME IInv, TreeInv, NEW i \in batch, Fetch(i)
  PROVE  TreeInv'
<1>1. /\ batch' = batch \ {i} /\ UNCHANGED config /\ UNCHANGED <<frontier, discovered>>
      /\ \A r \in results' : r \in results \/ r.item = i
  BY DEF Fetch
<1>2. \A j : Grown(j) => Grown(j)'
  BY <1>1, GrownStays, SameTree
<1> QED
  BY <1>1, <1>2 DEF TreeInv

(* A result joins the tree where its item was grown. *)
LEMMA ProcessJoins ==
  ASSUME IInv, TreeInv, NEW r \in results, ProcessResult(r)
  PROVE  /\ Tree!Join(r.item, r.ok) /\ r.ok \in BOOLEAN
         /\ Listed' = Listed \cup {[item |-> r.item, ok |-> r.ok]}
<1>1. /\ phase = "process" /\ phase' \in {"collect", "process"}
      /\ discovered' = Append(discovered, [item |-> r.item, ok |-> r.ok])
  BY DEF ProcessResult, Process
<1>2. r.item \in Items /\ r.ok \in BOOLEAN
  BY DEF IInv, TypeOK
<1>3. Listed' = Listed \cup {[item |-> r.item, ok |-> r.ok]}
  <2> DEFINE x == [item |-> r.item, ok |-> r.ok]
             N == Len(discovered)
  <2>1. x \in [item : Items, ok : BOOLEAN]
    BY <1>2
  <2> HIDE DEF x
  <2>2. /\ N \in Nat /\ DOMAIN discovered = 1 .. N /\ DOMAIN discovered' = 1 .. (N + 1)
        /\ discovered'[N + 1] = x
        /\ \A n \in 1 .. N : discovered'[n] = discovered[n]
    BY <1>1, <2>1, Recorded DEF IInv, x
  <2> HIDE DEF N
  <2>3. ASSUME NEW p PROVE p \in Listed' <=> p \in Listed \cup {x}
    <3>1. p \in Listed' <=> \E n \in 1 .. (N + 1) : p = discovered'[n]
      BY <2>2 DEF Listed
    <3>2. p \in Listed <=> \E n \in 1 .. N : p = discovered[n]
      BY <2>2 DEF Listed
    <3>3. \A n : n \in 1 .. (N + 1) <=> n \in 1 .. N \/ n = N + 1
      BY <2>2
    <3> QED
      BY <2>2, <3>1, <3>2, <3>3
  <2> QED
    BY <2>3 DEF x
<1>4. ~ Tree!Has(r.item.url)
  BY TreeIsList DEF IInv, Distinct
<1>5. Tree!Cardinality(Listed) < maxPages
  <2>1. /\ IsFiniteSet(results) /\ IsFiniteSet(batch)
        /\ pagesCrawled + Cardinality(batch) + Cardinality(results) <= maxPages
        /\ pagesCrawled \in Nat /\ maxPages \in Nat
    BY EngineAssumption DEF IInv, Counted, TypeOK
  <2>2. Cardinality(batch) \in Nat /\ Cardinality(results) \in Nat /\ Cardinality(results) # 0
    BY <2>1, FS_CardinalityType, FS_EmptySet
  <2>3. pagesCrawled < maxPages
    BY <2>1, <2>2
  <2> QED
    BY <2>3, TreeIsList
<1>6. Grown(r.item)
  BY DEF TreeInv
<1>7. phase \notin {"returned", "raised"} /\ phase' \notin {"returned", "raised"}
  BY <1>1
<1>8. Tree!Join(r.item, r.ok)
  BY <1>3, <1>4, <1>5, <1>6, <1>7 DEF Tree!Join, Grown, SeedItem
<1> QED
  BY <1>2, <1>3, <1>8

LEMMA ProcessTree ==
  ASSUME IInv, TreeInv, NEW r \in results, ProcessResult(r)
  PROVE  TreeInv'
<1>1. PICK order \in SetToSeqs(IF r.item.depth >= maxDepth THEN {}
                               ELSE Children(r, r.item.depth + 1)) :
         frontier' = frontier \o order
  BY DEF ProcessResult, Process
<1>2. results' = results \ {r} /\ UNCHANGED config /\ UNCHANGED batch
  BY DEF ProcessResult, Process
<1>3. /\ Listed' = Listed \cup {[item |-> r.item, ok |-> r.ok]}
  BY ProcessJoins
<1>4. \A i : Grown(i) => Grown(i)'
  BY <1>2, <1>3, GrownStays
<1>5. /\ order \in Seq(Items)
      /\ \A k \in 1 .. Len(order) :
             /\ order[k].depth = r.item.depth + 1 /\ order[k].parent = r.item.url
             /\ order[k].url \in r.links \ (visited \cup Offsite)
             /\ r.item.depth < maxDepth
  BY <1>1, ChildItems
<1>6. ASSUME NEW k \in 1 .. Len(order)
      PROVE  Grown(order[k])'
  <2>1. r.links = IF r.ok THEN site[r.item.url] ELSE {}
    BY DEF IInv, Answered
  <2>2. r.ok /\ order[k].url \in site[r.item.url] \ Offsite
    BY <1>5, <2>1
  <2>3. r.item.depth \in Nat /\ maxDepth \in Nat
    BY Elements, EngineAssumption DEF IInv, TypeOK
  <2>4. order[k].depth = r.item.depth + 1 /\ order[k].depth <= maxDepth
    BY <1>5, <2>3
  <2>5. UNCHANGED <<site, maxDepth>>
    BY <1>2 DEF config
  <2>6. PICK p \in Listed' : p = [item |-> r.item, ok |-> r.ok]
    BY <1>3
  <2> QED
    BY <1>5, <2>2, <2>4, <2>5, <2>6 DEF Grown, Tree!Linked
<1>7. frontier \in Seq(Items) /\ DOMAIN frontier = 1 .. Len(frontier)
  BY DEF IInv, TypeOK
<1>8. \A k \in 1 .. Len(frontier') :
          \/ k \in 1 .. Len(frontier) /\ frontier'[k] = frontier[k]
          \/ k - Len(frontier) \in 1 .. Len(order) /\ frontier'[k] = order[k - Len(frontier)]
  BY <1>1, <1>5, <1>7, PushedItems
<1>9. DOMAIN frontier' = 1 .. Len(frontier')
  BY <1>1, <1>5, <1>7
<1>10. \A i : (\E k \in DOMAIN frontier' : i = frontier'[k]) => Grown(i)'
  <2>1. \A i : (\E k \in 1 .. Len(order) : i = order[k]) => Grown(i)'
    BY <1>6
  <2>2. \A i : (\E k \in 1 .. Len(frontier) : i = frontier[k]) => Grown(i)'
    BY <1>4, <1>7 DEF TreeInv
  <2> QED
    BY <1>8, <1>9, <2>1, <2>2
<1> QED
  BY <1>2, <1>4, <1>10 DEF TreeInv

(* A crawl that returns early has followed every link. *)
LEMMA ReturnsWhole ==
  ASSUME IInv, Return
  PROVE  Tree!Return
<1>1. /\ phase = "collect" /\ phase' = "returned" /\ UNCHANGED discovered
      /\ frontier = <<>> \/ pagesCrawled >= maxPages
      /\ batch = {} /\ results = {}
  BY DEF Return, IInv, Places
<1>2. CASE frontier = <<>>
  <2>1. \A u, d : ~ Waiting(u, d, frontier)
    BY <1>2 DEF Waiting
  <2>2. \A u \in visited : Tree!Has(u)
    BY <1>1, TreeIsList DEF IInv, Seen
  <2>3. Tree!Has(Seed)
    BY <2>1, <2>2 DEF IInv, LinksKept
  <2>4. ASSUME NEW p \in Listed, p.ok, p.item.depth < maxDepth,
               NEW u \in site[p.item.url] \ Offsite
        PROVE  Tree!Has(u)
    <3>1. PICK n \in DOMAIN discovered : discovered[n] = p
      BY TreeIsList
    <3> QED
      BY <2>1, <2>2, <2>4, <3>1 DEF IInv, LinksKept
  <2>5. Tree!Closed
    BY <2>3, <2>4 DEF Tree!Closed
  <2> QED
    BY <1>1, <2>5, SameTree DEF Tree!Return
<1>3. CASE pagesCrawled >= maxPages
  <2>1. RespectsMaxPages /\ pagesCrawled \in Nat /\ maxPages \in Nat
    BY MaxPagesKept, EngineAssumption DEF IInv, TypeOK
  <2>2. Tree!Cardinality(Listed) = maxPages
    BY <1>3, <2>1, TreeIsList DEF RespectsMaxPages
  <2> QED
    BY <1>1, <2>2, SameTree DEF Tree!Return
<1> QED
  BY <1>1, <1>2, <1>3

LEMMA TreeStep ==
  ASSUME IInv, TreeInv, [Next]_vars
  PROVE  TreeInv' /\ [Tree!Next]_Tree!treeVars
<1>1. ASSUME UNCHANGED config, UNCHANGED discovered,
             phase' \notin {"returned", "raised"}, phase \notin {"returned", "raised"}
      PROVE  UNCHANGED Tree!treeVars
  BY <1>1, SameTree DEF Tree!treeVars, config
<1>2. ASSUME UNCHANGED <<config, frontier, batch, results, discovered>>
      PROVE  TreeInv'
  <2>1. \A i : Grown(i) => Grown(i)'
    BY <1>2, GrownStays, SameTree
  <2> QED
    BY <1>2, <2>1 DEF TreeInv
<1>3. CASE CollectBatch
  <2>1. /\ UNCHANGED config /\ UNCHANGED discovered
        /\ phase = "collect" /\ phase' \in {"collect", "fetch"}
    BY <1>3 DEF CollectBatch, Collect
  <2> QED
    BY <1>1, <1>3, <2>1, CollectTree
<1>4. ASSUME NEW i \in batch, Fetch(i)
      PROVE  TreeInv' /\ [Tree!Next]_Tree!treeVars
  <2>1. /\ UNCHANGED config /\ UNCHANGED discovered
        /\ phase = "fetch" /\ phase' \in {"process", "fetch"}
    BY <1>4 DEF Fetch
  <2> QED
    BY <1>1, <1>4, <2>1, FetchTree
<1>5. ASSUME NEW r \in results, ProcessResult(r)
      PROVE  TreeInv' /\ [Tree!Next]_Tree!treeVars
  <2>1. Tree!Join(r.item, r.ok) /\ r.ok \in BOOLEAN
    BY <1>5, ProcessJoins
  <2>2. UNCHANGED <<site, maxDepth, maxPages>>
    BY <1>5 DEF ProcessResult, Process, config
  <2>3. r.item \in [url : Urls, depth : 0 .. maxDepth, parent : Urls \cup {NoParent}]
    <3>1. r.item \in Items /\ r.item.depth <= maxDepth /\ maxDepth \in Nat
      BY EngineAssumption DEF IInv, TypeOK, AllReal, Real
    <3> QED
      BY <3>1 DEF Items
  <2>4. Tree!Next
    BY <2>1, <2>2, <2>3 DEF Tree!Next, Tree!Places
  <2> QED
    BY <1>5, <2>4, ProcessTree
<1>6. CASE Return
  <2>1. UNCHANGED <<config, frontier, batch, results, discovered>>
    BY <1>6 DEF Return
  <2>2. Tree!Return
    BY <1>6, ReturnsWhole
  <2> QED
    BY <1>2, <2>1, <2>2 DEF Tree!Next, config
<1>7. CASE FetchRaises
  <2>1. /\ UNCHANGED <<config, frontier, batch, results, discovered>>
        /\ phase = "fetch" /\ phase' = "raised"
    BY <1>7 DEF FetchRaises
  <2>2. Tree!Raise
    BY <2>1, SameTree DEF Tree!Raise
  <2> QED
    BY <1>2, <2>1, <2>2 DEF Tree!Next, config
<1>8. CASE UNCHANGED vars
  <2>1. UNCHANGED <<config, frontier, batch, results, discovered, phase>>
    BY <1>8 DEF vars
  <2>2. UNCHANGED Tree!treeVars
    BY <2>1, SameTree DEF Tree!treeVars, config
  <2> QED
    BY <1>2, <2>1, <2>2
<1> QED
  BY <1>3, <1>4, <1>5, <1>6, <1>7, <1>8 DEF Next, Crawl

(* TreeSpec: whatever the workers do, the crawl implements CrawlTree, for any sites and
   limits; in particular a crawl of any number of workers that returns early is complete. *)
THEOREM ImplementsTree == Spec => TreeSpec
<1>1. ASSUME Init
      PROVE  Tree!Init /\ TreeInv
  <2>1. /\ discovered = <<>> /\ phase = "collect" /\ batch = {} /\ results = {}
        /\ frontier = <<SeedItem>> /\ site \in Sites
        /\ maxDepth \in MaxDepths /\ maxPages \in MaxPagesValues
    BY <1>1 DEF Init, SeedItem
  <2>2. Listed = {}
    BY <2>1 DEF Listed
  <2>3. \A k \in DOMAIN frontier : frontier[k] = SeedItem
    BY <2>1
  <2> QED
    BY <2>1, <2>2, <2>3 DEF Tree!Init, TreeInv, Grown
<1>2. IInv /\ TreeInv /\ [Next]_vars => TreeInv' /\ [Tree!Next]_Tree!treeVars
  BY TreeStep
<1> QED
  BY <1>1, <1>2, EngineInvariant, PTL DEF Spec, TreeSpec, Tree!Spec

=============================================================================
