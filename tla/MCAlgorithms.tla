---------------------------- MODULE MCAlgorithms ----------------------------
(* The two sequential algorithms side by side: a behaviour runs the text      *)
(* splitter or the RAG pipeline, the other one stays at its start.            *)
EXTENDS TextSplitter, RagPipeline, Folds

SumOf(ws) == MapThenFoldSet(LAMBDA a, b : a + b, 0, LAMBDA n : ws[n],
                            LAMBDA S : CHOOSE n \in S : TRUE, DOMAIN ws)
TokenOf(ws) == [words |-> ws, len |-> SumOf(ws) + Len(ws) - 1]
MCTokens == {TokenOf(ws) : ws \in
    {<<1>>, <<2>>, <<4>>, <<1, 1>>, <<2, 0, 1>>, <<6>>, <<1, 6>>, <<6, 0, 1>>,
     <<1, 1, 1, 2>>}}
MCTexts == UNION {[1..n -> MCTokens] : n \in 1..4}

Point(id, kind, sources) == [id |-> id, kind |-> kind, sources |-> sources]
MCPoints == {Point("p1", "text", {"a"}), Point("p2", "image", {"b"}),
             Point("p3", "no image", {"a", "b"}), Point("p4", "text", {}),
             Point("p5", "bare", {})}
MCScores == {-1, 0, 1}
MCGain   == <<10000, 6309, 5000>>

NoText == text = <<>> /\ chunk_size = 0 /\ chunk_overlap = 0
          /\ at = "done" /\ token = 1 /\ word = 1 /\ chunks = <<>>
          /\ current_chunk = NoPieces /\ current_length = 0
          /\ sub_chunk = NoPieces /\ sub_len = 0
          /\ left = <<>> /\ overlap_text = NoPieces /\ overlap_len = 0

NoQuestion == stage = "idle" /\ config = <<>> /\ retrieved = <<>>
              /\ reply = NoReply /\ reranked = <<>> /\ text_answer = "none"
              /\ vision_answer = "none" /\ answer = "none" /\ expected = {}

MCInit == (SplitInit /\ NoQuestion) \/ (PipeInit /\ NoText)
MCNext == \/ SplitNext /\ UNCHANGED pipeVars
          \/ PipeNext /\ UNCHANGED splitVars
MCSpec == MCInit /\ [][MCNext]_<<splitVars, pipeVars>>
=============================================================================
