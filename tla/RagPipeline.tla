----------------------------- MODULE RagPipeline -----------------------------
(* One question through the RAG pipeline: search, rerank, generate, and the  *)
(* metrics of the evaluation: RAGPipeline.chat and evaluate_item.  The vector *)
(* store, the reranker and the language models are external: what they answer *)
(* is chosen, how it is read is the code's.                                   *)
EXTENDS Naturals, Integers, Sequences, FiniteSets

CONSTANTS Points,       \* points of the collection: [id, kind, sources]; kind is
                        \* "text", "image", "no image" (an image chunk without
                        \* data) or "bare" (without payload); sources are the
                        \* expected sources the chunk matches
          Expected,     \* sources a golden item may expect
          Limit,        \* retrieve_limit
          TopKs,        \* values of top_k
          Scores,       \* relevance scores of the reranker
          KValues,      \* the k of the metrics
          Gain          \* 1 / log2(i + 1) of each rank i, scaled to whole numbers that
                        \* still tell the ranks apart

ASSUME PipelineAssumption ==
    /\ \A p, q \in Points : p.id = q.id => p = q
    /\ Limit \in Nat \ {0} /\ TopKs \subseteq Nat \ {0}
    /\ Scores \subseteq Int /\ KValues \subseteq Nat \ {0}
    /\ IsFiniteSet(Expected)
    /\ Gain \in [1 .. Limit -> Nat \ {0}]
    /\ \A m, n \in 1 .. Limit : m < n => Gain[n] < Gain[m]

VARIABLES stage,        \* "search", "rerank", "generate", "score", "done", "error"
          config,       \* retrieval_mode, rerank_enabled, top_k
          retrieved,    \* retrieved_chunks
          reply,        \* the rerank response: its shape and its entries
          reranked,     \* reranked_chunks
          text_answer, vision_answer, answer,
          expected      \* expected_sources of the item, once they are read

pipeVars == <<stage, config, retrieved, reply, reranked, text_answer,
              vision_answer, answer, expected>>

Modes == {"dense", "sparse", "hybrid"}
NoReply == [shape |-> "none", entries |-> <<>>]

PipeInit ==
    /\ stage = "search"
    /\ config \in [mode : Modes, rerank_enabled : BOOLEAN, top_k : TopKs]
    /\ retrieved = <<>> /\ reply = NoReply /\ reranked = <<>>
    /\ text_answer = "none" /\ vision_answer = "none" /\ answer = "none"
    /\ expected = {}

-----------------------------------------------------------------------------
(* search_scrape_chunks                                                       *)

Lists(S, n) == {s \in UNION {[1..k -> S] : k \in 0..n} :
                   \A i, j \in DOMAIN s : i # j => s[i] # s[j]}

(* The hits in the store's order, but for those without a payload.            *)
HasPayload(p) == p.kind # "bare"

Search ==
    /\ stage = "search"
    /\ retrieved' \in Lists({p \in Points : HasPayload(p)}, Limit)
    /\ stage' = "rerank"
    /\ UNCHANGED <<config, reply, reranked, text_answer, vision_answer, answer,
                   expected>>

(* A collection without sparse vectors answers 400: a hybrid search falls     *)
(* back to a dense one, which is a Search; a sparse one returns nothing.      *)
SearchNoSparse ==
    /\ stage = "search" /\ config.mode = "sparse"
    /\ retrieved' = <<>>
    /\ stage' = "rerank"
    /\ UNCHANGED <<config, reply, reranked, text_answer, vision_answer, answer,
                   expected>>

(* An embedding client, the store or a model raises: nothing is answered.     *)
Raise ==
    /\ stage \in {"search", "rerank", "generate"}
    /\ stage' = "error"
    /\ UNCHANGED <<config, retrieved, reply, reranked, text_answer,
                   vision_answer, answer, expected>>

-----------------------------------------------------------------------------
(* The rerankers                                                              *)

Smaller(a, b) == IF a < b THEN a ELSE b
Top(s, k) == SubSeq(s, 1, Smaller(k, Len(s)))

RerankNoop ==
    /\ stage = "rerank"
    /\ ~ config.rerank_enabled \/ retrieved = <<>>
    /\ reranked' = Top(retrieved, config.top_k)
    /\ stage' = "generate"
    /\ UNCHANGED <<config, retrieved, reply, text_answer, vision_answer, answer,
                   expected>>

(* _parse_scores.  "indexed" stands for a rankings, a results or a data list  *)
(* and for a list of objects: entries maps some of the indices to scores, the *)
(* others count 0.0, and scores that are all 0.0 are taken for no answer,     *)
(* which no later shape turns into one.  "scores" must have one score per     *)
(* chunk, and so must a "plain" list, which the strict zip checks.            *)
Score(r, i) == IF i \in DOMAIN r.entries THEN r.entries[i] ELSE 0

Parsed(r) ==
    IF r.shape = "indexed" THEN \E i \in DOMAIN retrieved : Score(r, i) # 0
                           ELSE Len(r.entries) = Len(retrieved)

\* Mutant: sorted ascending and then reversed, which also reverses ties.
PlaceReversed(r, i) == 1 + Cardinality({j \in DOMAIN retrieved :
                              \/ Score(r, j) > Score(r, i)
                              \/ Score(r, j) = Score(r, i) /\ j > i})

(* sorted(..., reverse=True) keeps the order of equal scores.                 *)
Place(r, i) == 1 + Cardinality({j \in DOMAIN retrieved :
                      \/ Score(r, j) > Score(r, i)
                      \/ Score(r, j) = Score(r, i) /\ j < i})

Sorted(r) == [n \in DOMAIN retrieved |->
                 retrieved[CHOOSE i \in DOMAIN retrieved : Place(r, i) = n]]

Replies ==
    [shape : {"indexed"},
     entries : UNION {[D -> Scores] : D \in SUBSET (1..Len(retrieved) + 1)}]
    \cup [shape : {"scores", "plain"},
          entries : UNION {[1..n -> Scores] : n \in 0..Len(retrieved) + 1}]

Rerank ==
    /\ stage = "rerank"
    /\ config.rerank_enabled /\ retrieved # <<>>
    /\ reply' \in Replies
    /\ IF Parsed(reply')
       THEN reranked' = Top(Sorted(reply'), config.top_k) /\ stage' = "generate"
       ELSE stage' = "error" /\ UNCHANGED reranked
    /\ UNCHANGED <<config, retrieved, text_answer, vision_answer, answer,
                   expected>>

-----------------------------------------------------------------------------
(* Generator.generate                                                         *)

Image(p) == p.kind \in {"image", "no image"}
TextChunks(s) == {n \in DOMAIN s : ~ Image(s[n])}
ImageChunks(s) == {n \in DOMAIN s : Image(s[n])}

(* message.content or "": a model may answer nothing.                         *)
GenerateText ==
    /\ stage = "generate" /\ text_answer = "none" /\ TextChunks(reranked) # {}
    /\ text_answer' \in {"text", "empty"}
    /\ UNCHANGED <<stage, config, retrieved, reply, reranked, vision_answer,
                   answer, expected>>

TextDone == text_answer # "none" \/ TextChunks(reranked) = {}

(* Without one image that has data, the model is not asked.                   *)
GenerateVision ==
    /\ stage = "generate" /\ TextDone
    /\ vision_answer = "none" /\ ImageChunks(reranked) # {}
    /\ vision_answer' \in IF \E n \in DOMAIN reranked : reranked[n].kind = "image"
                          THEN {"vision", "empty"} ELSE {"no sources"}
    /\ UNCHANGED <<stage, config, retrieved, reply, reranked, text_answer,
                   answer, expected>>

Said(a) == a \notin {"none", "empty"}

\* Mutant: without a text answer the vision answer is taken, said or not.
GenerateUnchecked ==
    /\ stage = "generate" /\ TextDone
    /\ vision_answer # "none" \/ ImageChunks(reranked) = {}
    /\ answer' = IF Said(text_answer) THEN text_answer ELSE vision_answer
    /\ stage' = "score"
    /\ UNCHANGED <<config, retrieved, reply, reranked, text_answer,
                   vision_answer, expected>>

Generate ==
    /\ stage = "generate" /\ TextDone
    /\ vision_answer # "none" \/ ImageChunks(reranked) = {}
    /\ answer' \in CASE Said(text_answer) /\ Said(vision_answer) -> {"fused", "empty"}
                     [] Said(text_answer) /\ ~ Said(vision_answer) -> {text_answer}
                     [] ~ Said(text_answer) /\ Said(vision_answer) -> {vision_answer}
                     [] OTHER -> {"no sources"}
    /\ stage' = "score"
    /\ UNCHANGED <<config, retrieved, reply, reranked, text_answer,
                   vision_answer, expected>>

-----------------------------------------------------------------------------
(* The metrics of a golden item, as integers: a share by its numerator, a     *)
(* reciprocal rank by the rank, a gain in ten thousandths.                    *)

Relevant(p, e) == p.sources \cap e # {}
RelevantRanks(s, e) == {n \in DOMAIN s : Relevant(s[n], e)}

HitAt(s, e, k) == \E n \in DOMAIN Top(s, k) : Relevant(s[n], e)
RecallAt(s, e, k) ==
    Cardinality({x \in e : \E n \in DOMAIN Top(s, k) : Relevant(s[n], {x})})
PrecisionAt(s, e, k) ==
    Cardinality({n \in DOMAIN Top(s, k) : Relevant(s[n], e)})

(* 0 for mrr = 0.0                                                            *)
FirstRank(s, e) ==
    LET hits == RelevantRanks(s, e)
    IN IF hits = {} THEN 0 ELSE CHOOSE n \in hits : \A m \in hits : n <= m

(* The gains of the ranks in R, summed up to each rank.                       *)
Gains(R) ==
    LET sum[n \in 0 .. Limit] ==
            IF n = 0 THEN 0 ELSE sum[n - 1] + (IF n \in R THEN Gain[n] ELSE 0)
    IN  sum

\* Mutant: the ideal order is that of the first k, not of the whole list.
IdealDcgTop(s, e, k) == Gains(1 .. PrecisionAt(s, e, k))[Len(Top(s, k))]

Dcg(s, e, k)      == Gains(RelevantRanks(s, e))[Len(Top(s, k))]
IdealDcg(s, e, k) == Gains(1 .. Cardinality(RelevantRanks(s, e)))[Len(Top(s, k))]

(* Numerator and denominator of ndcg: 0.0 when no chunk of the list is        *)
(* relevant.                                                                  *)
Ndcg(s, e, k) == IF IdealDcg(s, e, k) > 0 THEN <<Dcg(s, e, k), IdealDcg(s, e, k)>>
                                          ELSE <<0, 1>>

(* kendall_tau over the pairs of the chunks of after that are in before: None *)
(* if these are fewer than two, so also if one of the lists is empty.         *)
NoTau == <<>>
Position(p, s) == CHOOSE n \in DOMAIN s : s[n].id = p.id
Shared(before, after) ==
    {n \in DOMAIN after : \E m \in DOMAIN before : before[m].id = after[n].id}
Pairs(ranks) == {q \in ranks \X ranks : q[1] < q[2]}
Concordant(before, after) ==
    {q \in Pairs(Shared(before, after)) :
        Position(after[q[1]], before) < Position(after[q[2]], before)}
Discordant(before, after) ==
    {q \in Pairs(Shared(before, after)) :
        Position(after[q[1]], before) > Position(after[q[2]], before)}

Tau(before, after) ==
    LET c == Cardinality(Concordant(before, after))
        d == Cardinality(Discordant(before, after))
    IN  IF Cardinality(Shared(before, after)) < 2 THEN NoTau
        ELSE IF c + d > 0 THEN <<c - d, c + d>> ELSE <<0, 1>>

(* The metrics are computed and stored; nothing else changes.                 *)
ScoreItem ==
    /\ stage = "score"
    /\ expected' \in SUBSET Expected
    /\ stage' = "done"
    /\ UNCHANGED <<config, retrieved, reply, reranked, text_answer,
                   vision_answer, answer>>

PipeNext == Search \/ SearchNoSparse \/ Raise \/ RerankNoop \/ Rerank
            \/ GenerateText \/ GenerateVision \/ Generate \/ ScoreItem

PipeSpec == PipeInit /\ [][PipeNext]_pipeVars

-----------------------------------------------------------------------------
(* Properties                                                                 *)

InReranked(p) == \E n \in DOMAIN reranked : reranked[n] = p
Given(i) == i \in DOMAIN reply.entries

(* Whatever the reranker answers, the chunks handed to the generator are      *)
(* retrieved ones, none twice, as many as there are or top_k; a chunk scored  *)
(* higher than another is not dropped for it nor put behind it, and chunks it *)
(* does not tell apart stay in the order of the search.  A chunk it leaves    *)
(* out goes behind every chunk scored above 0.                                *)
Outranks(i, j) ==
    IF reply = NoReply THEN i < j
    ELSE /\ Given(i)
         /\ IF Given(j) THEN \/ reply.entries[i] > reply.entries[j]
                             \/ reply.entries[i] = reply.entries[j] /\ i < j
                        ELSE reply.entries[i] > 0

RerankOrder ==
    stage \in {"generate", "score", "done"} =>
        /\ Len(reranked) = Smaller(config.top_k, Len(retrieved))
        /\ \A m, n \in DOMAIN reranked :
              reranked[m].id = reranked[n].id => m = n
        /\ \A n \in DOMAIN reranked : \E i \in DOMAIN retrieved :
              reranked[n] = retrieved[i]
        /\ \A i, j \in DOMAIN retrieved :
              Outranks(i, j) /\ InReranked(retrieved[j]) =>
                  /\ InReranked(retrieved[i])
                  /\ Position(retrieved[i], reranked)
                     < Position(retrieved[j], reranked)

(* The answer says where it comes from: without chunks it is the sentence     *)
(* that nothing was found, a text answer needs a text chunk and a vision one  *)
(* an image with data, and nothing at all is answered only by the fusion of   *)
(* two answers that said something.                                           *)
AnswerGrounded ==
    stage \in {"score", "done"} =>
        /\ reranked = <<>> => answer = "no sources"
        /\ answer = "text" => TextChunks(reranked) # {} /\ ~ Said(vision_answer)
        /\ answer = "vision" =>
              \E n \in DOMAIN reranked : reranked[n].kind = "image"
        /\ answer \in {"fused", "empty"} =>
              TextChunks(reranked) # {} /\ ImageChunks(reranked) # {}
        /\ answer = "no sources" => text_answer \in {"none", "empty"}

(* The metrics of one item agree with each other: hit, recall, precision and  *)
(* mrr see the same relevant chunks at every k; ndcg is at most 1, 0 just when *)
(* there is no hit at k, and 1 just when the list has a relevant chunk and    *)
(* none of them could be moved up into the first k; and when no reranker was  *)
(* asked, kendall_tau is None for fewer than two chunks and 1 for more.       *)
MetricsAgree ==
    stage = "done" => \A s \in {retrieved, reranked} : \A k \in KValues :
        /\ HitAt(s, expected, k) <=> RecallAt(s, expected, k) > 0
        /\ HitAt(s, expected, k) <=> PrecisionAt(s, expected, k) > 0
        /\ HitAt(s, expected, k) <=> FirstRank(s, expected) \in 1..k
        /\ LET ndcg == Ndcg(s, expected, k)
           IN  /\ ndcg[1] \in 0 .. ndcg[2]
               /\ ndcg[1] = 0 <=> ~ HitAt(s, expected, k)
               /\ ndcg[1] = ndcg[2] <=>
                     /\ RelevantRanks(s, expected) # {}
                     /\ \A m, n \in DOMAIN s :
                           m < n /\ m <= k /\ Relevant(s[n], expected)
                           => Relevant(s[m], expected)
        /\ reply = NoReply =>
              LET tau == Tau(retrieved, reranked)
              IN  IF Len(reranked) < 2 THEN tau = NoTau
                                       ELSE tau # NoTau /\ tau[1] = tau[2]
=============================================================================
