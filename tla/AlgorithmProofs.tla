-------------------------- MODULE AlgorithmProofs --------------------------
(* Theorems about the two sequential algorithms, for every input.             *)
(*                                                                            *)
(* The splitter: for every text, chunk_size and chunk_overlap its chunks are  *)
(* bounded.  The argument is about the two length counters: each is at least  *)
(* the length of the string that its list makes, so what the guards compare   *)
(* with chunk_size bounds the string, but for the one space a list that was   *)
(* full may add and for the overlap, which is put before a token unchecked.   *)
(* And no word is lost: every step adds what comes next in the text, after all*)
(* that was added before, to the list that a loop is filling or to a new one. *)
(*                                                                            *)
(* The RAG pipeline: for every collection, limit, top_k and reply of the      *)
(* reranker the reranked list is in the order of the scores, since the places *)
(* that a stable sort gives are a permutation of 1 .. n.                      *)
(* And for every golden item, every k and gains that fall with the rank, the  *)
(* metrics of the list agree: what relevant ranks gain is bounded by what as  *)
(* many ranks from the first on would, by induction on the rank, and strictly *)
(* so from the first relevant rank that has one before it left out.           *)
EXTENDS TextSplitter, RagPipeline, SequenceTheorems, FiniteSetTheorems, TLAPS

-----------------------------------------------------------------------------
(* The splitter.                                                              *)

Texture ==
    /\ text \in Seq([words : Seq(Nat), len : Nat])
    /\ chunk_size \in Nat /\ chunk_overlap \in Nat
    /\ token \in Nat /\ token >= 1 /\ word \in Nat /\ word >= 1
    /\ chunks \in Seq(Chunk)
    /\ current_chunk \in Chunk /\ current_length \in Nat
    /\ sub_chunk \in Chunk /\ sub_len \in Nat
    /\ left \in Seq(Piece) /\ overlap_text \in Chunk /\ overlap_len \in Nat

\* The numbers of it, which the arithmetic needs without the sequences.
Counters ==
    /\ chunk_size \in Nat /\ chunk_overlap \in Nat
    /\ token \in Nat /\ token >= 1 /\ word \in Nat /\ word >= 1
    /\ current_chunk.length \in Nat /\ current_length \in Nat
    /\ sub_chunk.length \in Nat /\ sub_len \in Nat
    /\ overlap_text.length \in Nat /\ overlap_len \in Nat

Bound == chunk_size + Larger(1, chunk_overlap)
Bounded(c) == c.length <= Bound \/ Len(c.pieces) = 1

\* A list and its counter: the counter is no less than the string.
Counted(c, length) ==
    IF c.pieces = <<>> THEN c.length = 0 ELSE Bounded(c) /\ c.length <= length

\* The overlap's counter has one space more than the string, and is limited.
OverlapCounted ==
    /\ overlap_len <= chunk_overlap
    /\ IF overlap_text.pieces = <<>> THEN overlap_text.length = 0
                                     ELSE overlap_text.length + 1 <= overlap_len

\* What the guard of an outer loop has established for an inner one.
Inside ==
    /\ at \in {"overlap", "word"} => token <= Len(text)
    /\ at = "overlap" => text[token].len <= chunk_size

IInv ==
    /\ Texture
    /\ Counted(current_chunk, current_length)
    /\ Counted(sub_chunk, sub_len)
    /\ OverlapCounted
    /\ Inside
    /\ \A n \in DOMAIN chunks : Bounded(chunks[n])

-----------------------------------------------------------------------------
(* What the operations on lists of pieces do to the length of their string.   *)

LEMMA EmptyList == NoPieces \in Chunk /\ NoPieces.pieces = <<>> /\ NoPieces.length = 0
  BY DEF NoPieces, Chunk

LEMMA AddedPiece ==
  ASSUME NEW c \in Chunk, NEW p \in Piece
  PROVE  /\ Add(c, p) \in Chunk
         /\ Add(c, p).pieces # <<>>
         /\ Add(c, p).length = c.length + p.len + Space(c)
         /\ c.pieces = <<>> => Len(Add(c, p).pieces) = 1
<1>1. c.pieces \in Seq(Piece) /\ c.length \in Nat /\ p.len \in Nat /\ Space(c) \in Nat
  BY DEF Chunk, Piece, Space
<1>2. /\ Append(c.pieces, p) \in Seq(Piece)
      /\ Len(Append(c.pieces, p)) = Len(c.pieces) + 1
  BY <1>1
<1>3. Append(c.pieces, p) # <<>>
  BY <1>1, <1>2
<1>4. Add(c, p).pieces = Append(c.pieces, p)
      /\ Add(c, p).length = c.length + Space(c) + p.len
  BY DEF Add
<1>5. Add(c, p) \in Chunk
  BY <1>1, <1>2 DEF Add, Chunk
<1> QED
  BY <1>1, <1>2, <1>3, <1>4, <1>5

LEMMA InsertedPiece ==
  ASSUME NEW c \in Chunk, NEW p \in Piece
  PROVE  /\ Insert(p, c) \in Chunk
         /\ Insert(p, c).pieces # <<>>
         /\ Insert(p, c).length = c.length + p.len + Space(c)
<1>1. c.pieces \in Seq(Piece) /\ c.length \in Nat /\ p.len \in Nat /\ Space(c) \in Nat
  BY DEF Chunk, Piece, Space
<1>2. <<p>> \in Seq(Piece) /\ Len(<<p>>) = 1
  OBVIOUS
<1>3. /\ <<p>> \o c.pieces \in Seq(Piece)
      /\ Len(<<p>> \o c.pieces) = 1 + Len(c.pieces)
  BY <1>1, <1>2, ConcatProperties
<1>4. <<p>> \o c.pieces # <<>>
  BY <1>1, <1>3
<1>5. Insert(p, c).pieces = <<p>> \o c.pieces
      /\ Insert(p, c).length = p.len + Space(c) + c.length
  BY DEF Insert
<1>6. Insert(p, c) \in Chunk
  BY <1>1, <1>3 DEF Insert, Chunk
<1> QED
  BY <1>1, <1>4, <1>5, <1>6

\* Appending a bounded chunk keeps all of them bounded.
LEMMA AppendedChunk ==
  ASSUME Texture, NEW c \in Chunk, Bounded(c),
         \A n \in DOMAIN chunks : Bounded(chunks[n])
  PROVE  /\ Append(chunks, c) \in Seq(Chunk)
         /\ \A n \in DOMAIN Append(chunks, c) : Bounded(Append(chunks, c)[n])
  BY DEF Texture

\* A list that is counted may be closed.
LEMMA CountedBounded ==
  ASSUME Texture, NEW c \in Chunk, NEW l \in Nat, Counted(c, l)
  PROVE  Bounded(c)
  BY DEF Texture, Counted, Bounded, Bound, Larger, Chunk

\* The pieces that the loops make of the text.
LEMMA PiecesOfText ==
  ASSUME Texture, token <= Len(text)
  PROVE  /\ Whole(token) \in Piece /\ Whole(token).len = text[token].len
         /\ text[token].len \in Nat /\ Words(token) \in Seq(Nat)
         /\ word <= Len(Words(token)) =>
              /\ Word(token, word) \in Piece
              /\ Word(token, word).len = Words(token)[word]
              /\ Words(token)[word] \in Nat
<1>1. text[token] \in [words : Seq(Nat), len : Nat]
  <2>1. token \in 1 .. Len(text)
    BY DEF Texture
  <2> QED
    BY <2>1, ElementOfSeq DEF Texture
<1>2. Words(token) \in Seq(Nat) /\ text[token].len \in Nat
  BY <1>1 DEF Words
<1> QED
  BY SMTT(30), <1>2 DEF Texture, Whole, Word, Piece

LEMMA CounterTypes == Texture => Counters
  BY DEF Texture, Counters, Chunk

LEMMA BoundFact ==
  ASSUME Counters
  PROVE  Bound \in Nat /\ chunk_size + 1 <= Bound /\ chunk_size + chunk_overlap <= Bound
  BY DEF Counters, Bound, Larger

-----------------------------------------------------------------------------
(* The inductive invariant.                                                   *)

LEMMA InitInv == SplitInit => IInv
<1> SUFFICES ASSUME SplitInit PROVE IInv
  OBVIOUS
<1>1. Texture
  BY SplitterAssumption, EmptyList DEF SplitInit, Texture
<1>2. Counted(current_chunk, current_length) /\ Counted(sub_chunk, sub_len)
  BY EmptyList DEF SplitInit, Counted
<1>3. OverlapCounted
  BY <1>1, EmptyList DEF SplitInit, OverlapCounted, Texture
<1> QED
  BY <1>1, <1>2, <1>3 DEF SplitInit, IInv, Inside

LEMMA AppendTokenInv == IInv /\ AppendToken => IInv'
<1> SUFFICES ASSUME IInv, AppendToken PROVE IInv'
  OBVIOUS
<1> USE DEF args, sliceVars, overlapVars
<1> DEFINE longer == Add(current_chunk, Whole(token))
<1>0. Counters /\ Counted(current_chunk, current_length)
  BY CounterTypes DEF IInv
<1>1. /\ Whole(token) \in Piece /\ Whole(token).len = text[token].len
      /\ text[token].len \in Nat
  BY PiecesOfText DEF IInv, AppendToken, AtToken
<1>2. /\ longer \in Chunk /\ longer.pieces # <<>>
      /\ longer.length = current_chunk.length + text[token].len + Space(current_chunk)
  BY <1>1, AddedPiece DEF IInv, Texture
<1>3. /\ current_chunk' = longer
      /\ current_length' = current_length + text[token].len + 1 /\ token' = token + 1
      /\ text[token].len <= chunk_size
      /\ current_length + text[token].len <= chunk_size
  BY DEF AppendToken, Fits
<1> HIDE DEF longer
<1>4. Texture'
  <2>1. current_length' \in Nat /\ token' \in Nat /\ token' >= 1
    BY <1>0, <1>1, <1>3 DEF Counters
  <2> QED
    BY <1>2, <1>3, <2>1 DEF IInv, Texture, AppendToken
<1>5. Counted(current_chunk, current_length)'
  <2>1. longer.length <= chunk_size + 1 /\ longer.length <= current_length'
    BY SMTT(30), <1>0, <1>1, <1>2, <1>3 DEF Counters, Counted, Space
  <2>2. Bound' = Bound /\ longer.length <= Bound
    BY SMTT(20), <1>0, <1>1, <1>2, <2>1, BoundFact DEF AppendToken, Bound, Counters, Chunk
  <2> QED
    BY <1>2, <1>3, <2>1, <2>2 DEF Counted, Bounded
<1>6. Counted(sub_chunk, sub_len)' /\ OverlapCounted' /\ Inside'
  BY DEF IInv, AppendToken, AtToken, Counted, Bounded, Bound, OverlapCounted, Inside
<1>7. (\A n \in DOMAIN chunks : Bounded(chunks[n]))'
  BY DEF IInv, AppendToken, Bounded, Bound
<1> QED
  BY <1>4, <1>5, <1>6, <1>7 DEF IInv

LEMMA CloseChunkInv == IInv /\ CloseChunk => IInv'
<1> SUFFICES ASSUME IInv, CloseChunk PROVE IInv'
  OBVIOUS
<1> USE DEF args, sliceVars, overlapVars
<1>0. Counters /\ Bounded(current_chunk)
  BY CounterTypes, CountedBounded DEF IInv, Texture
<1>1. /\ Append(chunks, current_chunk) \in Seq(Chunk)
      /\ \A n \in DOMAIN Append(chunks, current_chunk) :
            Bounded(Append(chunks, current_chunk)[n])
  BY <1>0, AppendedChunk DEF IInv, Texture
<1>2. Texture'
  <2>1. current_chunk.pieces \in Seq(Piece)
    BY DEF IInv, Texture, Chunk
  <2> QED
    BY <1>1, <2>1, EmptyList DEF IInv, Texture, CloseChunk
<1>3. Counted(current_chunk, current_length)' /\ Counted(sub_chunk, sub_len)'
  BY DEF IInv, CloseChunk, Counted, Bounded, Bound
<1>4. OverlapCounted' /\ Inside'
  BY <1>0, EmptyList DEF CloseChunk, AtToken, OverlapCounted, Inside, Counters
<1>5. (\A n \in DOMAIN chunks : Bounded(chunks[n]))'
  BY <1>1 DEF CloseChunk, Bounded, Bound
<1> QED
  BY <1>2, <1>3, <1>4, <1>5 DEF IInv

LEMMA KeepPieceInv == IInv /\ KeepPiece => IInv'
<1> SUFFICES ASSUME IInv, KeepPiece PROVE IInv'
  OBVIOUS
<1> USE DEF args, sliceVars, overlapVars
<1> DEFINE longer == Insert(LastLeft, overlap_text)
<1>0. Counters
  BY CounterTypes DEF IInv
<1>1. LastLeft \in Piece /\ LastLeft.len \in Nat
  <2>1. Len(left) \in 1 .. Len(left)
    BY DEF IInv, Texture, KeepPiece, KeepsLast
  <2>2. LastLeft \in Piece
    BY <2>1, ElementOfSeq DEF IInv, Texture, LastLeft
  <2> QED
    BY <2>2 DEF Piece
<1>2. /\ longer \in Chunk /\ longer.pieces # <<>>
      /\ longer.length = overlap_text.length + LastLeft.len + Space(overlap_text)
  BY <1>1, InsertedPiece DEF IInv, Texture
<1>3. /\ overlap_text' = longer /\ overlap_len' = overlap_len + LastLeft.len + 1
      /\ overlap_len + LastLeft.len < chunk_overlap
  BY DEF KeepPiece, KeepsLast
<1> HIDE DEF longer
<1>4. Texture'
  <2>1. overlap_len' \in Nat
    BY <1>0, <1>1, <1>3 DEF Counters
  <2>2. left' \in Seq(Piece)
    BY DEF IInv, Texture, KeepPiece, KeepsLast
  <2> QED
    BY <1>2, <1>3, <2>1, <2>2 DEF IInv, Texture, KeepPiece
<1>5. OverlapCounted'
  <2>1. overlap_len' <= chunk_overlap
    BY <1>0, <1>1, <1>3 DEF Counters
  <2>2. longer.length + 1 <= overlap_len'
    BY <1>0, <1>1, <1>2, <1>3 DEF IInv, Counters, OverlapCounted, Space
  <2> QED
    BY <1>2, <1>3, <2>1, <2>2 DEF OverlapCounted, KeepPiece
<1>6. Counted(current_chunk, current_length)' /\ Counted(sub_chunk, sub_len)' /\ Inside'
  BY DEF IInv, KeepPiece, Counted, Bounded, Bound, Inside
<1>7. (\A n \in DOMAIN chunks : Bounded(chunks[n]))'
  BY DEF IInv, KeepPiece, Bounded, Bound
<1> QED
  BY <1>4, <1>5, <1>6, <1>7 DEF IInv

LEMMA OverlapArithmetic ==
  ASSUME NEW size \in Nat, NEW overlap \in Nat, NEW counter \in Nat, NEW kept \in Nat,
         NEW space \in {0, 1}, NEW len \in Nat,
         kept + space <= counter, counter <= overlap, len <= size
  PROVE  kept + len + space <= size + overlap /\ kept + len + space <= counter + len + 1
  OBVIOUS

LEMMA StartAfterOverlapInv == IInv /\ StartAfterOverlap => IInv'
<1> SUFFICES ASSUME IInv, StartAfterOverlap PROVE IInv'
  OBVIOUS
<1> USE DEF args, sliceVars, overlapVars
<1> DEFINE longer == Add(overlap_text, Whole(token))
<1>0. Counters /\ OverlapCounted
  BY CounterTypes DEF IInv
<1>1. /\ Whole(token) \in Piece /\ Whole(token).len = text[token].len
      /\ text[token].len \in Nat /\ text[token].len <= chunk_size
  BY PiecesOfText DEF IInv, Inside, StartAfterOverlap
<1>2. /\ longer \in Chunk /\ longer.pieces # <<>>
      /\ longer.length = overlap_text.length + text[token].len + Space(overlap_text)
  BY <1>1, AddedPiece DEF IInv, Texture
<1>3. /\ current_chunk' = longer /\ token' = token + 1
      /\ current_length' = overlap_len + text[token].len + 1
  BY DEF StartAfterOverlap
<1> HIDE DEF longer
<1>4. Texture'
  <2>1. current_length' \in Nat /\ token' \in Nat /\ token' >= 1
    BY <1>0, <1>1, <1>3 DEF Counters
  <2> QED
    BY <1>2, <1>3, <2>1 DEF IInv, Texture, StartAfterOverlap
<1>5. Counted(current_chunk, current_length)'
  <2>1. longer.length <= chunk_size + chunk_overlap /\ longer.length <= current_length'
    <3>1. /\ overlap_text.length + Space(overlap_text) <= overlap_len
          /\ Space(overlap_text) \in {0, 1} /\ overlap_len <= chunk_overlap
      BY <1>0 DEF Counters, OverlapCounted, Space
    <3>2. /\ overlap_text.length \in Nat /\ overlap_len \in Nat
          /\ chunk_overlap \in Nat /\ chunk_size \in Nat
      BY <1>0 DEF Counters
    <3> DEFINE len == text[token].len
               kept == overlap_text.length
               space == Space(overlap_text)
    <3>3. len \in Nat /\ len <= chunk_size /\ longer.length = kept + len + space
      BY <1>1, <1>2
    <3>4. current_length' = overlap_len + len + 1
      BY <1>3
    <3> HIDE DEF len, kept, space
    <3>5. /\ kept + space <= overlap_len /\ space \in {0, 1}
          /\ overlap_len <= chunk_overlap /\ kept \in Nat
      BY <3>1, <3>2 DEF kept, space
    <3>6. /\ kept + len + space <= chunk_size + chunk_overlap
          /\ kept + len + space <= overlap_len + len + 1
      BY <3>2, <3>3, <3>5, OverlapArithmetic
    <3> QED
      BY <3>3, <3>4, <3>6
  <2>2. Bound' = Bound /\ longer.length <= Bound
    BY <1>0, <1>1, <1>2, <2>1, BoundFact DEF StartAfterOverlap, Bound, Counters, Chunk
  <2> QED
    BY <1>2, <1>3, <2>1, <2>2 DEF Counted, Bounded
<1>6. Counted(sub_chunk, sub_len)' /\ OverlapCounted' /\ Inside'
  BY DEF IInv, StartAfterOverlap, Counted, Bounded, Bound, OverlapCounted, Inside
<1>7. (\A n \in DOMAIN chunks : Bounded(chunks[n]))'
  BY DEF IInv, StartAfterOverlap, Bounded, Bound
<1> QED
  BY <1>4, <1>5, <1>6, <1>7 DEF IInv

LEMMA StartSlicingInv == IInv /\ StartSlicing => IInv'
<1> SUFFICES ASSUME IInv, StartSlicing PROVE IInv'
  OBVIOUS
<1> USE DEF args, sliceVars, overlapVars
<1>0. Counters /\ Bounded(current_chunk)
  BY CounterTypes, CountedBounded DEF IInv, Texture
<1>1. chunks' \in Seq(Chunk) /\ \A n \in DOMAIN chunks' : Bounded(chunks'[n])
  BY <1>0, AppendedChunk DEF IInv, Texture, StartSlicing
<1>2. Texture'
  BY <1>1, EmptyList DEF IInv, Texture, StartSlicing
<1>3. Counted(current_chunk, current_length)' /\ Counted(sub_chunk, sub_len)'
  BY EmptyList DEF StartSlicing, Counted
<1>4. OverlapCounted' /\ Inside'
  BY DEF IInv, StartSlicing, AtToken, OverlapCounted, Inside
<1>5. (\A n \in DOMAIN chunks : Bounded(chunks[n]))'
  BY <1>1 DEF StartSlicing, Bounded, Bound
<1> QED
  BY <1>2, <1>3, <1>4, <1>5 DEF IInv

LEMMA AppendWordInv == IInv /\ AppendWord => IInv'
<1> SUFFICES ASSUME IInv, AppendWord PROVE IInv'
  OBVIOUS
<1> USE DEF args, sliceVars, overlapVars
<1> DEFINE longer == Add(sub_chunk, Word(token, word))
           length == Words(token)[word]
<1>0. Counters /\ Counted(sub_chunk, sub_len)
  BY CounterTypes DEF IInv
<1>1. Word(token, word) \in Piece /\ Word(token, word).len = length /\ length \in Nat
  BY PiecesOfText DEF IInv, Inside, AppendWord, AtWord
<1>2. /\ longer \in Chunk /\ longer.pieces # <<>>
      /\ longer.length = sub_chunk.length + length + Space(sub_chunk)
  BY <1>1, AddedPiece DEF IInv, Texture
<1>3. /\ sub_chunk' = longer /\ sub_len' = sub_len + length + 1 /\ word' = word + 1
      /\ sub_len + length <= chunk_size
  BY DEF AppendWord, WordFits
<1> HIDE DEF longer, length
<1>4. Texture'
  <2>1. sub_len' \in Nat /\ word' \in Nat /\ word' >= 1
    BY <1>0, <1>1, <1>3 DEF Counters
  <2> QED
    BY <1>2, <1>3, <2>1 DEF IInv, Texture, AppendWord
<1>5. Counted(sub_chunk, sub_len)'
  <2>1. longer.length <= chunk_size + 1 /\ longer.length <= sub_len'
    BY <1>0, <1>1, <1>2, <1>3 DEF Counters, Counted, Space
  <2>2. Bound' = Bound /\ longer.length <= Bound
    BY <1>0, <1>1, <1>2, <2>1, BoundFact DEF AppendWord, Bound, Counters, Chunk
  <2> QED
    BY <1>2, <1>3, <2>1, <2>2 DEF Counted, Bounded
<1>6. Counted(current_chunk, current_length)' /\ OverlapCounted' /\ Inside'
  BY DEF IInv, AppendWord, Counted, Bounded, Bound, OverlapCounted, Inside
<1>7. (\A n \in DOMAIN chunks : Bounded(chunks[n]))'
  BY DEF IInv, AppendWord, Bounded, Bound
<1> QED
  BY <1>4, <1>5, <1>6, <1>7 DEF IInv

\* The one chunk that nothing bounds: a word of its own.
LEMMA CloseSliceInv == IInv /\ CloseSlice => IInv'
<1> SUFFICES ASSUME IInv, CloseSlice PROVE IInv'
  OBVIOUS
<1> USE DEF args, sliceVars, overlapVars
<1> DEFINE single == Add(NoPieces, Word(token, word))
           length == Words(token)[word]
<1>0. Counters /\ Bounded(sub_chunk)
  BY CounterTypes, CountedBounded DEF IInv, Texture
<1>1. Word(token, word) \in Piece /\ Word(token, word).len = length /\ length \in Nat
  BY PiecesOfText DEF IInv, Inside, CloseSlice, AtWord
<1>2. /\ single \in Chunk /\ single.pieces # <<>> /\ Len(single.pieces) = 1
      /\ single.length = length
  BY <1>1, EmptyList, AddedPiece DEF Space
<1>3. /\ Append(chunks, sub_chunk) \in Seq(Chunk)
      /\ \A n \in DOMAIN Append(chunks, sub_chunk) : Bounded(Append(chunks, sub_chunk)[n])
  BY <1>0, AppendedChunk DEF IInv, Texture
<1>4. sub_chunk' = single /\ sub_len' = length /\ word' = word + 1
  BY DEF CloseSlice
<1> HIDE DEF single, length
<1>5. Texture'
  <2>1. word' \in Nat /\ word' >= 1
    BY <1>0, <1>4 DEF Counters
  <2> QED
    BY <1>1, <1>2, <1>3, <1>4, <2>1 DEF IInv, Texture, CloseSlice
<1>6. Counted(sub_chunk, sub_len)'
  BY <1>1, <1>2, <1>4 DEF Counted, Bounded
<1>7. Counted(current_chunk, current_length)' /\ OverlapCounted' /\ Inside'
  BY DEF IInv, CloseSlice, Counted, Bounded, Bound, OverlapCounted, Inside
<1>8. (\A n \in DOMAIN chunks : Bounded(chunks[n]))'
  BY <1>3 DEF CloseSlice, Bounded, Bound
<1> QED
  BY <1>5, <1>6, <1>7, <1>8 DEF IInv

LEMMA EndSlicingInv == IInv /\ EndSlicing => IInv'
<1> SUFFICES ASSUME IInv, EndSlicing PROVE IInv'
  OBVIOUS
<1> USE DEF args, sliceVars, overlapVars
<1>0. Counters
  BY CounterTypes DEF IInv
<1>1. Texture'
  <2>1. token' \in Nat /\ token' >= 1
    BY <1>0 DEF EndSlicing, Counters
  <2> QED
    BY <2>1 DEF IInv, Texture, EndSlicing
<1>2. Counted(current_chunk, current_length)' /\ Counted(sub_chunk, sub_len)'
  BY DEF IInv, EndSlicing, Counted, Bounded, Bound
<1>3. OverlapCounted' /\ Inside'
  BY DEF IInv, EndSlicing, OverlapCounted, Inside
<1>4. (\A n \in DOMAIN chunks : Bounded(chunks[n]))'
  BY DEF IInv, EndSlicing, Bounded, Bound
<1> QED
  BY <1>1, <1>2, <1>3, <1>4 DEF IInv

LEMMA FlushInv == IInv /\ Flush => IInv'
<1> SUFFICES ASSUME IInv, Flush PROVE IInv'
  OBVIOUS
<1> USE DEF args, sliceVars, overlapVars
<1>0. Counters /\ Bounded(current_chunk)
  BY CounterTypes, CountedBounded DEF IInv, Texture
<1>1. chunks' \in Seq(Chunk) /\ \A n \in DOMAIN chunks' : Bounded(chunks'[n])
  BY <1>0, AppendedChunk DEF IInv, Texture, Flush
<1>2. Texture'
  BY <1>1 DEF IInv, Texture, Flush
<1>3. Counted(current_chunk, current_length)' /\ Counted(sub_chunk, sub_len)'
  BY DEF IInv, Flush, Counted, Bounded, Bound
<1>4. OverlapCounted' /\ Inside'
  BY DEF IInv, Flush, OverlapCounted, Inside
<1>5. (\A n \in DOMAIN chunks : Bounded(chunks[n]))'
  BY <1>1 DEF Flush, Bounded, Bound
<1> QED
  BY <1>2, <1>3, <1>4, <1>5 DEF IInv

LEMMA StutterInv == IInv /\ UNCHANGED splitVars => IInv'
  BY DEF splitVars, args, sliceVars, overlapVars, IInv, Texture, Counted, Bounded, Bound,
         OverlapCounted, Inside

-----------------------------------------------------------------------------
(* The theorems.                                                              *)

\* Every step of the splitter keeps its counters ahead of its strings.
THEOREM SplitInvariant == SplitSpec => []IInv
<1>1. IInv /\ [SplitNext]_splitVars => IInv'
  BY AppendTokenInv, CloseChunkInv, KeepPieceInv, StartAfterOverlapInv, StartSlicingInv,
     AppendWordInv, CloseSliceInv, EndSlicingInv, FlushInv, StutterInv DEF SplitNext
<1> QED
  BY InitInv, <1>1, PTL DEF SplitSpec

\* A chunk is at most chunk_overlap, or one space, longer than chunk_size, or it is a
\* single piece: what chunk_text and chunk_markdown hand to the embedding model, for every
\* text and every setting, an overlap larger than the chunks included.
THEOREM ChunksBounded == SplitSpec => []ChunkBound
<1>1. IInv => ChunkBound
  BY DEF IInv, ChunkBound, Bounded, Bound
<1> QED
  BY SplitInvariant, <1>1, PTL

-----------------------------------------------------------------------------
(* Prefix sums, which the lengths of lists and the gains of ranks are. *)

\* Every set of naturals that is not empty has a least element.
LEMMA NatMinimum ==
    ASSUME NEW T \in SUBSET Nat, T # {}
    PROVE  \E n \in T : \A m \in T : n <= m
  <1> DEFINE less == OpToRel(<, Nat)
  <1>1. IsWellFoundedOn(less, Nat)
    BY NatLessThanWellFounded
  <1>2. \A m, n \in Nat : <<m, n>> \in less <=> m < n
    BY DEF OpToRel
  <1> HIDE DEF less
  <1>3. PICK n \in T : \A m \in T : <<m, n>> \notin less
    BY <1>1, WFMin
  <1>4. ASSUME NEW m \in T PROVE n <= m
    <2>1. m \in Nat /\ n \in Nat /\ ~(m < n)
      BY <1>2, <1>3
    <2> QED
      BY <2>1
  <1> QED
    BY <1>4

\* What holds of 0, and of a number up to N if it holds of the one before, holds of all.
LEMMA Upwards ==
    ASSUME NEW N \in Nat, NEW Good \in SUBSET (0 .. N), 0 \in Good,
           \A n \in 1 .. N : n - 1 \in Good => n \in Good
    PROVE  Good = 0 .. N
  <1> DEFINE Bad == (0 .. N) \ Good
  <1> SUFFICES ASSUME Bad # {} PROVE FALSE
    OBVIOUS
  <1>1. Bad \in SUBSET Nat /\ Bad # {}
    OBVIOUS
  <1> HIDE DEF Bad
  <1>2. PICK n \in Bad : \A m \in Bad : n <= m
    BY <1>1, NatMinimum
  <1>3. n \in 1 .. N /\ n - 1 \in 0 .. N /\ n - 1 \notin Bad
    BY <1>1, <1>2 DEF Bad
  <1> QED
    BY <1>2, <1>3 DEF Bad

\* A table of the sums of the first N numbers of w.
Sums(g, w, N) == g = [n \in 0 .. N |-> IF n = 0 THEN 0 ELSE g[n - 1] + w[n]]

LEMMA SumsExist == ASSUME NEW w, NEW M \in Nat PROVE \E g : Sums(g, w, M)
  <1> DEFINE Good == {N \in 0 .. M : \E g : Sums(g, w, N)}
  <1>1. 0 \in Good
    <2> DEFINE g == [n \in 0 .. 0 |-> 0]
    <2>1. Sums(g, w, 0)
      BY DEF Sums
    <2> HIDE DEF g
    <2> QED
      BY <2>1
  <1>2. ASSUME NEW N \in 1 .. M, N - 1 \in Good PROVE N \in Good
    <2>1. PICK g : Sums(g, w, N - 1)
      BY <1>2
    <2> DEFINE h == [n \in 0 .. N |-> IF n = N THEN g[N - 1] + w[N] ELSE g[n]]
    <2>2. N \in Nat \ {0} /\ N - 1 \in Nat
      OBVIOUS
    <2>3. ASSUME NEW n \in 0 .. N
          PROVE  h[n] = IF n = 0 THEN 0 ELSE h[n - 1] + w[n]
      <3>1. \A m \in 0 .. N - 1 : g[m] = IF m = 0 THEN 0 ELSE g[m - 1] + w[m]
        BY <2>1 DEF Sums
      <3>2. CASE n = N
        BY <2>2, <3>2
      <3>3. CASE n # N
        <4>1. n \in 0 .. N - 1 /\ (n # 0 => n - 1 \in 0 .. N /\ n - 1 # N)
          BY <2>2, <3>3
        <4>2. h[n] = g[n] /\ (n # 0 => h[n - 1] = g[n - 1])
          BY <3>3, <4>1
        <4> QED
          BY <3>1, <4>1, <4>2
      <3> QED
        BY <3>2, <3>3
    <2>4. h = [n \in 0 .. N |-> h[n]]
      OBVIOUS
    <2> HIDE DEF h
    <2>5. Sums(h, w, N)
      BY <2>3, <2>4 DEF Sums
    <2>6. N \in 0 .. M
      OBVIOUS
    <2> QED
      BY <2>5, <2>6
  <1> HIDE DEF Good
  <1>3. Good = 0 .. M
    <2>1. Good \subseteq 0 .. M
      BY DEF Good
    <2> QED
      BY <1>1, <1>2, <2>1, Upwards
  <1>4. M \in Good
    BY <1>3
  <1> QED
    BY <1>4 DEF Good

\* Joined satisfies its recursive definition.
LEMMA JoinedDef ==
    ASSUME NEW s \in Seq(Piece)
    PROVE  Joined(s) = [k \in 0 .. Len(s) |->
                           IF k = 0 THEN 0 ELSE Joined(s)[k - 1] + Width(s, k)]
  <1> DEFINE w == [k \in 1 .. Len(s) |-> Width(s, k)]
  <1>0. Len(s) \in Nat /\ \A k \in 0 .. Len(s) : k = 0 \/ k \in 1 .. Len(s)
    OBVIOUS
  <1>1. PICK f : Sums(f, w, Len(s))
    BY <1>0, SumsExist
  <1>2. f = [k \in 0 .. Len(s) |-> IF k = 0 THEN 0 ELSE f[k - 1] + Width(s, k)]
    BY <1>0, <1>1 DEF Sums
  <1> QED
    BY <1>2 DEF Joined

LEMMA JoinedStep ==
    ASSUME NEW s \in Seq(Piece)
    PROVE  /\ Joined(s)[0] = 0
           /\ \A k \in 1 .. Len(s) : Joined(s)[k] = Joined(s)[k - 1] + Width(s, k)
           /\ \A k \in 0 .. Len(s) : Joined(s)[k] \in Nat
  <1>0. Len(s) \in Nat /\ \A k \in 1 .. Len(s) : s[k] \in Piece
    OBVIOUS
  <1>1. PICK f : f = Joined(s)
    OBVIOUS
  <1>2. f = [k \in 0 .. Len(s) |-> IF k = 0 THEN 0 ELSE f[k - 1] + Width(s, k)]
    BY <1>1, JoinedDef
  <1>3. f[0] = 0 /\ \A k \in 1 .. Len(s) : f[k] = f[k - 1] + Width(s, k)
    BY <1>0, <1>2
  <1>4. \A k \in 1 .. Len(s) : Width(s, k) \in Nat
    BY <1>0 DEF Width, Piece
  <1> DEFINE Good == {k \in 0 .. Len(s) : f[k] \in Nat}
  <1>5. 0 \in Good
    BY <1>0, <1>3
  <1>6. \A k \in 1 .. Len(s) : k - 1 \in Good => k \in Good
    BY <1>0, <1>3, <1>4
  <1>7. Good = 0 .. Len(s)
    BY <1>0, <1>5, <1>6, Upwards
  <1> QED
    BY <1>1, <1>3, <1>7

\* The first pieces of a longer list make the same string.
LEMMA JoinedAppend ==
    ASSUME NEW s \in Seq(Piece), NEW p \in Piece
    PROVE  \A k \in 0 .. Len(s) : Joined(Append(s, p))[k] = Joined(s)[k]
  <1>0. /\ Len(s) \in Nat /\ Append(s, p) \in Seq(Piece)
        /\ Len(Append(s, p)) = Len(s) + 1
        /\ \A k \in 1 .. Len(s) : Append(s, p)[k] = s[k]
    OBVIOUS
  <1>1. PICK t : t = Append(s, p)
    OBVIOUS
  <1>2. \A k \in 1 .. Len(s) : Width(t, k) = Width(s, k) /\ k \in 1 .. Len(t)
    BY <1>0, <1>1 DEF Width
  <1>3. /\ Joined(t)[0] = 0 /\ Joined(s)[0] = 0
        /\ \A k \in 1 .. Len(t) : Joined(t)[k] = Joined(t)[k - 1] + Width(t, k)
        /\ \A k \in 1 .. Len(s) : Joined(s)[k] = Joined(s)[k - 1] + Width(s, k)
    BY <1>0, <1>1, JoinedStep
  <1> DEFINE Good == {k \in 0 .. Len(s) : Joined(t)[k] = Joined(s)[k]}
  <1>4. 0 \in Good
    BY <1>0, <1>3
  <1>5. \A k \in 1 .. Len(s) : k - 1 \in Good => k \in Good
    BY <1>0, <1>2, <1>3
  <1>6. Good = 0 .. Len(s)
    BY <1>0, <1>4, <1>5, Upwards
  <1> QED
    BY <1>1, <1>6

-----------------------------------------------------------------------------
(* The splitter loses nothing.  The chunks and the list that a loop is filling *)
(* are one sequence of lists, which a step makes longer, or the last of which  *)
(* it makes longer, always by a piece that is after all that were made.        *)

\* The lists made so far: the chunks, and the one that a loop is filling.
Filling == at \in {"token", "word"}
Open == IF at = "word" THEN sub_chunk.pieces ELSE current_chunk.pieces
Count == Len(chunks) + IF Filling THEN 1 ELSE 0
Made == [n \in 1 .. Count |-> IF n <= Len(chunks) THEN chunks[n].pieces ELSE Open]

\* The words that the loops have been through, and the pieces made of them.
Placed(i, j) == i < token \/ (at = "word" /\ i = token /\ j < word)
Past(p) == p.token < token \/ (at = "word" /\ p.token = token /\ p.to < word)

InOrder(s) == \A k \in 2 .. Len(s) : Before(s[k - 1], s[k])
Within(p, i, j) == p.token = i /\ j \in p.from .. p.to
Holds(s, i, j) == \E k \in DOMAIN s : Within(s[k], i, j) /\ s[k].len > 0

\* What a list says of an earlier one.
Follows(b, c) ==
    /\ b # <<>> /\ c # <<>> => Before(b[Len(b)], c[Len(c)])
    /\ \A k \in DOMAIN c :
          (\E n \in DOMAIN b : Within(b[n], c[k].token, c[k].from))
          => Joined(c)[k] < chunk_overlap

Ordered == \A n \in 1 .. Count :
    InOrder(Made[n]) /\ \A k \in DOMAIN Made[n] : Past(Made[n][k])
Following == \A m, n \in 1 .. Count : m < n => Follows(Made[m], Made[n])
Kept == \A i \in DOMAIN text : \A j \in DOMAIN Words(i) :
    Words(i)[j] > 0 /\ Placed(i, j) => \E n \in 1 .. Count : Holds(Made[n], i, j)

\* The overlap is the end of the list that was closed, without what is left of it.
Overlapping ==
    LET closed == current_chunk.pieces
        kept == overlap_text.pieces
    IN /\ Len(left) + Len(kept) = Len(closed)
       /\ \A k \in DOMAIN left : left[k] = closed[k]
       /\ \A k \in DOMAIN kept : /\ kept[k] = closed[Len(left) + k]
                                 /\ Joined(kept)[k] < overlap_len
       /\ InOrder(closed) /\ \A k \in DOMAIN closed : Past(closed[k])

WordsFit == \A i \in DOMAIN text : \A j \in DOMAIN Words(i) : Words(i)[j] <= text[i].len

KeptInv ==
    /\ WordsFit /\ Ordered /\ Following /\ Kept
    /\ at = "overlap" => Overlapping
    /\ at = "word" => current_chunk.pieces = <<>>
    /\ at = "done" => token > Len(text)

\* A piece that comes after all that were made.
Fresh(p) == \A q \in Piece : Past(q) => Before(q, p) /\ ~ Within(q, p.token, p.from)

LEMMA Shape ==
  ASSUME Texture
  PROVE  /\ Count \in Nat
         /\ Made \in [1 .. Count -> Seq(Piece)]
         /\ Len(chunks) \in Nat
         /\ \A n \in DOMAIN chunks : n \in 1 .. Count /\ Made[n] = chunks[n].pieces
         /\ Filling => /\ Count = Len(chunks) + 1 /\ Made[Count] = Open
         /\ ~ Filling => Count = Len(chunks)
<1>1. Len(chunks) \in Nat /\ \A n \in 1 .. Len(chunks) : chunks[n] \in Chunk
  BY DEF Texture
<1>2. Open \in Seq(Piece) /\ \A n \in 1 .. Len(chunks) : chunks[n].pieces \in Seq(Piece)
  BY <1>1 DEF Texture, Open, Chunk
<1>3. DOMAIN chunks = 1 .. Len(chunks)
  BY DEF Texture
<1>4. Count \in Nat /\ Len(chunks) <= Count
      /\ (Filling => Count = Len(chunks) + 1) /\ (~ Filling => Count = Len(chunks))
  BY <1>1 DEF Count
<1>5. \A n \in 1 .. Count : n <= Len(chunks) => n \in 1 .. Len(chunks)
  BY <1>1, <1>4
<1>6. \A n \in 1 .. Count : Made[n] = IF n <= Len(chunks) THEN chunks[n].pieces ELSE Open
  BY DEF Made
<1>7. Made \in [1 .. Count -> Seq(Piece)]
  BY <1>2, <1>5 DEF Made
<1>8. \A n \in DOMAIN chunks : n \in 1 .. Count /\ n <= Len(chunks)
  <2>1. \A n \in 1 .. Len(chunks) : n \in 1 .. Count /\ n <= Len(chunks)
    BY <1>1, <1>4
  <2> QED
    BY <1>3, <2>1
<1>9. Filling => Count \in 1 .. Count /\ ~ (Count <= Len(chunks))
  BY <1>1, <1>4
<1> QED
  BY <1>1, <1>4, <1>6, <1>7, <1>8, <1>9

-----------------------------------------------------------------------------
(* How a step can change the lists.                                           *)

LEMMA SameLists ==
  ASSUME Ordered, Following, Kept, Texture,
         UNCHANGED <<text, chunk_overlap>>, Count' = Count,
         \A n \in 1 .. Count : Made'[n] = Made[n],
         \A q \in Piece : Past(q) => Past(q)',
         \A i \in DOMAIN text : \A j \in DOMAIN Words(i) : Placed(i, j)' => Placed(i, j)
  PROVE  Ordered' /\ Following' /\ Kept'
<1>0. \A n \in 1 .. Count : \A k \in DOMAIN Made[n] : Made[n][k] \in Piece
  BY Shape
<1>1. Ordered'
  BY <1>0 DEF Ordered
<1>2. Following'
  BY DEF Following, Follows
<1>3. Kept'
  BY DEF Kept, Words
<1> QED
  BY <1>1, <1>2, <1>3

\* A list is begun.
LEMMA NewList ==
  ASSUME Ordered, Following, Kept, Texture,
         UNCHANGED <<text, chunk_overlap>>,
         NEW s \in Seq(Piece), Count' = Count + 1,
         \A n \in 1 .. Count : Made'[n] = Made[n], Made'[Count + 1] = s,
         \A q \in Piece : Past(q) => Past(q)',
         InOrder(s), \A k \in DOMAIN s : Past(s[k])',
         \A n \in 1 .. Count : Follows(Made[n], s),
         \A i \in DOMAIN text : \A j \in DOMAIN Words(i) :
            Words(i)[j] > 0 /\ Placed(i, j)' => Placed(i, j) \/ Holds(s, i, j)
  PROVE  Ordered' /\ Following' /\ Kept'
<1>a. Count \in Nat /\ \A n \in 1 .. Count : Made[n] \in Seq(Piece)
  BY Shape
<1>0. /\ Count \in Nat
      /\ \A n \in 1 .. Count : \A k \in DOMAIN Made[n] : Made[n][k] \in Piece
      /\ \A n \in 1 .. Count' : n \in 1 .. Count \/ n = Count + 1
      /\ \A n \in 1 .. Count : n \in 1 .. Count'
      /\ Count + 1 \in 1 .. Count'
  BY <1>a
<1>1. Ordered'
  <2> SUFFICES ASSUME NEW n \in 1 .. Count'
               PROVE  InOrder(Made'[n]) /\ \A k \in DOMAIN Made'[n] : Past(Made[n][k])'
    BY DEF Ordered
  <2>1. CASE n \in 1 .. Count
    BY <1>0, <2>1 DEF Ordered
  <2>2. CASE n = Count + 1
    BY <2>2
  <2> QED
    BY <1>0, <2>1, <2>2
<1>2. Following'
  <2> SUFFICES ASSUME NEW m \in 1 .. Count', NEW n \in 1 .. Count', m < n
               PROVE  Follows(Made[m], Made[n])'
    BY DEF Following
  <2>1. m \in 1 .. Count
    BY <1>0
  <2>2. CASE n \in 1 .. Count
    BY <2>1, <2>2 DEF Following, Follows
  <2>3. CASE n = Count + 1
    BY <2>1, <2>3 DEF Follows
  <2> QED
    BY <1>0, <2>2, <2>3
<1>3. Kept'
  <2> SUFFICES ASSUME NEW i \in DOMAIN text, NEW j \in DOMAIN Words(i),
                      Words(i)[j] > 0, Placed(i, j)'
               PROVE  \E n \in 1 .. Count' : Holds(Made'[n], i, j)
    BY DEF Kept, Words, Holds
  <2>1. CASE Placed(i, j)
    BY <1>0, <2>1 DEF Kept
  <2>2. CASE Holds(s, i, j)
    BY <1>0, <2>2
  <2> QED
    BY <2>1, <2>2
<1> QED
  BY <1>1, <1>2, <1>3

LEMMA AppendedPieces ==
  ASSUME NEW s \in Seq(Piece), NEW p \in Piece
  PROVE  /\ Append(s, p) \in Seq(Piece)
         /\ Len(Append(s, p)) = Len(s) + 1
         /\ DOMAIN Append(s, p) = 1 .. Len(s) + 1
         /\ \A k \in 1 .. Len(s) : Append(s, p)[k] = s[k]
         /\ Append(s, p)[Len(s) + 1] = p
         /\ Append(s, p) # <<>>
         /\ Len(s) \in Nat /\ DOMAIN s = 1 .. Len(s)
         /\ \A k \in 1 .. Len(s) + 1 : k \in 1 .. Len(s) \/ k = Len(s) + 1
  OBVIOUS

\* Adding a piece to a list keeps its order.
LEMMA AddedInOrder ==
  ASSUME NEW s \in Seq(Piece), NEW p \in Piece, InOrder(s), s # <<>> => Before(s[Len(s)], p)
  PROVE  InOrder(Append(s, p))
<1>1. \A k \in 2 .. Len(s) + 1 : k \in 2 .. Len(s) \/ (k = Len(s) + 1 /\ s # <<>>)
  BY AppendedPieces
<1>2. \A k \in 2 .. Len(s) : k \in 1 .. Len(s) /\ k - 1 \in 1 .. Len(s)
  BY AppendedPieces
<1>3. s # <<>> => Len(s) \in 1 .. Len(s) /\ (Len(s) + 1) - 1 = Len(s)
  OBVIOUS
<1> QED
  BY <1>1, <1>2, <1>3, AppendedPieces DEF InOrder

\* And what it says of an earlier list, when no piece of that reaches it.
LEMMA AddedFollows ==
  ASSUME NEW b \in Seq(Piece), NEW s \in Seq(Piece), NEW p \in Piece,
         \A k \in DOMAIN b : Before(b[k], p) /\ ~ Within(b[k], p.token, p.from),
         \A k \in DOMAIN s :
            (\E n \in DOMAIN b : Within(b[n], s[k].token, s[k].from))
            => Joined(s)[k] < chunk_overlap
  PROVE  Follows(b, Append(s, p))
<1>1. b # <<>> => Len(b) \in DOMAIN b
  OBVIOUS
<1>2. \A k \in 1 .. Len(s) : Joined(Append(s, p))[k] = Joined(s)[k]
  BY AppendedPieces, JoinedAppend
<1> QED
  BY <1>1, <1>2, AppendedPieces DEF Follows

\* What is being filled gets a piece.
LEMMA LongerList ==
  ASSUME Ordered, Following, Kept, Texture,
         UNCHANGED <<text, chunk_overlap>>,
         NEW p \in Piece, Fresh(p), Past(p)', Count >= 1, Count' = Count,
         \A n \in 1 .. Count - 1 : Made'[n] = Made[n],
         NEW s \in Seq(Piece), Made[Count] = s, Made'[Count] = Append(s, p),
         \A q \in Piece : Past(q) => Past(q)',
         \A i \in DOMAIN text : \A j \in DOMAIN Words(i) :
            Words(i)[j] > 0 /\ Placed(i, j)' =>
               Placed(i, j) \/ (Within(p, i, j) /\ p.len > 0)
  PROVE  Ordered' /\ Following' /\ Kept'
<1>a. Count \in Nat /\ \A n \in 1 .. Count : Made[n] \in Seq(Piece)
  BY Shape
<1>0. /\ Count \in Nat /\ Count \in 1 .. Count
      /\ \A n \in 1 .. Count : \A k \in DOMAIN Made[n] : Made[n][k] \in Piece
      /\ \A n \in 1 .. Count : n \in 1 .. Count - 1 \/ n = Count
      /\ \A n \in 1 .. Count - 1 : n \in 1 .. Count
  BY <1>a
<1>1. (s # <<>> => Len(s) \in DOMAIN s)
  BY <1>0
<1>2. InOrder(s) /\ \A k \in DOMAIN s : Past(s[k])
  BY <1>0 DEF Ordered
<1>3. \A n \in 1 .. Count : \A k \in DOMAIN Made[n] :
         Before(Made[n][k], p) /\ ~ Within(Made[n][k], p.token, p.from)
  BY <1>0 DEF Ordered, Fresh
<1>5. \A n \in 1 .. Count - 1 : \A k \in DOMAIN s :
         (\E m \in DOMAIN Made[n] : Within(Made[n][m], s[k].token, s[k].from))
         => Joined(s)[k] < chunk_overlap
  <2>1. \A n \in 1 .. Count - 1 : n < Count
    BY <1>0
  <2>2. \A n \in 1 .. Count - 1 : Follows(Made[n], Made[Count])
    BY <1>0, <2>1 DEF Following
  <2> QED
    BY <2>2 DEF Follows
<1>6. Ordered'
  <2> SUFFICES ASSUME NEW n \in 1 .. Count
               PROVE  InOrder(Made'[n]) /\ \A k \in DOMAIN Made'[n] : Past(Made[n][k])'
    BY DEF Ordered
  <2>1. CASE n \in 1 .. Count - 1
    BY <1>0, <2>1 DEF Ordered
  <2>2. CASE n = Count
    <3>1. InOrder(Append(s, p))
      BY <1>0, <1>1, <1>2, <1>3, AddedInOrder
    <3>2. \A k \in DOMAIN Append(s, p) : Append(s, p)[k] = p \/ \E i \in DOMAIN s :
             Append(s, p)[k] = s[i]
      BY <1>1, AppendedPieces
    <3>3. \A i \in DOMAIN s : Past(s[i])'
      BY <1>0, <1>2
    <3>4. \A k \in DOMAIN Append(s, p) : Past(Append(s, p)[k])'
      <4> SUFFICES ASSUME NEW k \in DOMAIN Append(s, p) PROVE Past(Append(s, p)[k])'
        OBVIOUS
      <4>1. CASE Append(s, p)[k] = p
        BY <4>1
      <4>2. CASE \E i \in DOMAIN s : Append(s, p)[k] = s[i]
        BY <3>3, <4>2
      <4> QED
        BY <3>2, <4>1, <4>2
    <3> QED
      BY <2>2, <3>1, <3>4
  <2> QED
    BY <1>0, <2>1, <2>2
<1>7. Following'
  <2> SUFFICES ASSUME NEW m \in 1 .. Count, NEW n \in 1 .. Count, m < n
               PROVE  Follows(Made[m], Made[n])'
    BY DEF Following
  <2>1. m \in 1 .. Count - 1
    BY <1>0
  <2>2. CASE n \in 1 .. Count - 1
    BY <1>0, <2>1, <2>2 DEF Following, Follows
  <2>3. CASE n = Count
    <3>1. Follows(Made[m], Append(s, p))
      BY <1>a, <1>0, <1>1, <1>3, <1>5, <2>1, AddedFollows
    <3> QED
      BY <2>1, <2>3, <3>1 DEF Follows
  <2> QED
    BY <1>0, <2>2, <2>3
<1>8. Kept'
  <2> SUFFICES ASSUME NEW i \in DOMAIN text, NEW j \in DOMAIN Words(i),
                      Words(i)[j] > 0, Placed(i, j)'
               PROVE  \E n \in 1 .. Count : Holds(Made'[n], i, j)
    BY DEF Kept, Words, Holds
  <2>1. CASE Placed(i, j)
    <3>1. PICK n \in 1 .. Count : Holds(Made[n], i, j)
      BY <2>1 DEF Kept
    <3>2. CASE n \in 1 .. Count - 1
      BY <3>1, <3>2
    <3>3. CASE n = Count
      <4>1. PICK k \in DOMAIN s : Within(s[k], i, j) /\ s[k].len > 0
        BY <3>1, <3>3 DEF Holds
      <4>2. k \in DOMAIN Append(s, p) /\ Append(s, p)[k] = s[k]
        BY AppendedPieces
      <4>3. Holds(Append(s, p), i, j)
        BY <4>1, <4>2 DEF Holds
      <4> QED
        BY <1>0, <4>3
    <3> QED
      BY <1>0, <3>2, <3>3
  <2>2. CASE Within(p, i, j) /\ p.len > 0
    <3>1. Len(s) + 1 \in DOMAIN Append(s, p)
      BY <1>1, AppendedPieces
    <3>2. Holds(Append(s, p), i, j)
      BY <1>1, <2>2, <3>1, AppendedPieces DEF Holds
    <3> QED
      BY <1>0, <3>2
  <2> QED
    BY <2>1, <2>2
<1> QED
  BY <1>6, <1>7, <1>8

\* The empty list that is being filled is dropped.
LEMMA FewerLists ==
  ASSUME Ordered, Following, Kept, Texture,
         UNCHANGED <<text, chunk_overlap>>, Count >= 1, Count' = Count - 1, Made[Count] = <<>>,
         \A n \in 1 .. Count - 1 : Made'[n] = Made[n],
         \A q \in Piece : Past(q) => Past(q)',
         \A i \in DOMAIN text : \A j \in DOMAIN Words(i) : Placed(i, j)' => Placed(i, j)
  PROVE  Ordered' /\ Following' /\ Kept'
<1>a. Count \in Nat /\ \A n \in 1 .. Count : Made[n] \in Seq(Piece)
  BY Shape
<1>0. /\ \A n \in 1 .. Count : \A k \in DOMAIN Made[n] : Made[n][k] \in Piece
      /\ \A n \in 1 .. Count - 1 : n \in 1 .. Count
      /\ \A n \in 1 .. Count : n \in 1 .. Count - 1 \/ n = Count
  BY <1>a
<1>1. Ordered'
  BY <1>0 DEF Ordered
<1>2. Following'
  <2> SUFFICES ASSUME NEW m \in 1 .. Count - 1, NEW n \in 1 .. Count - 1, m < n
               PROVE  Follows(Made[m], Made[n])'
    BY DEF Following
  <2>1. Follows(Made[m], Made[n])
    BY <1>0 DEF Following
  <2> QED
    BY <2>1 DEF Follows
<1>3. \A i, j : ~ Holds(Made[Count], i, j)
  BY DEF Holds
<1>4. Kept'
  BY <1>0, <1>3 DEF Kept, Words, Holds
<1> QED
  BY <1>1, <1>2, <1>4

-----------------------------------------------------------------------------
(* What the steps do to the lists.                                            *)

LEMMA Refilled ==
  ASSUME Texture, chunks' = chunks, Filling, Filling'
  PROVE  /\ Count \in Nat /\ Count >= 1 /\ Count' = Count /\ Made[Count] = Open
         /\ \A n \in 1 .. Count - 1 : Made'[n] = Made[n]
         /\ Made'[Count] = Open'
<1>1. Len(chunks) \in Nat /\ Count = Len(chunks) + 1 /\ Count' = Count
  BY DEF Texture, Count
<1>2. \A n \in 1 .. Count - 1 : n \in 1 .. Count /\ n <= Len(chunks)
  BY <1>1
<1>3. Count \in 1 .. Count /\ ~ (Count <= Len(chunks))
  BY <1>1
<1>4. Made' = [n \in 1 .. Count |-> IF n <= Len(chunks) THEN chunks[n].pieces ELSE Open']
  BY <1>1 DEF Made
<1>5. Made = [n \in 1 .. Count |-> IF n <= Len(chunks) THEN chunks[n].pieces ELSE Open]
  BY DEF Made
<1> HIDE DEF Made
<1> QED
  BY <1>1, <1>2, <1>3, <1>4, <1>5

LEMMA Unfilled ==
  ASSUME Texture, chunks' = chunks, ~ Filling, ~ Filling'
  PROVE  Count' = Count /\ \A n \in 1 .. Count : Made'[n] = Made[n]
<1>1. Len(chunks) \in Nat /\ Count = Len(chunks) /\ Count' = Count
  BY DEF Texture, Count
<1>2. \A n \in 1 .. Count : n <= Len(chunks)
  BY <1>1
<1> QED
  BY <1>1, <1>2 DEF Made

LEMMA Begun ==
  ASSUME Texture, chunks' = chunks, ~ Filling, Filling'
  PROVE  /\ Count \in Nat /\ Count' = Count + 1
         /\ \A n \in 1 .. Count : Made'[n] = Made[n]
         /\ Made'[Count + 1] = Open'
<1>1. Len(chunks) \in Nat /\ Count = Len(chunks) /\ Count' = Len(chunks) + 1
  BY DEF Texture, Count
<1>2. \A n \in 1 .. Count : n \in 1 .. Count + 1 /\ n <= Len(chunks)
  BY <1>1
<1>3. Count + 1 \in 1 .. Count + 1 /\ ~ (Count + 1 <= Len(chunks))
  BY <1>1
<1>4. Made' = [n \in 1 .. Count + 1 |-> IF n <= Len(chunks) THEN chunks[n].pieces ELSE Open']
  BY <1>1 DEF Made
<1> QED
  BY <1>1, <1>2, <1>3, <1>4 DEF Made

\* What was being filled becomes a chunk.
LEMMA ListClosed ==
  ASSUME Texture, Filling, NEW c \in Chunk, c.pieces = Open, chunks' = Append(chunks, c)
  PROVE  /\ Count \in Nat /\ Count' = Count + IF Filling' THEN 1 ELSE 0
         /\ \A n \in 1 .. Count : Made'[n] = Made[n]
         /\ Filling' => Made'[Count + 1] = Open'
<1>1. /\ Len(chunks) \in Nat /\ Count = Len(chunks) + 1 /\ Len(chunks') = Len(chunks) + 1
      /\ \A n \in 1 .. Len(chunks) : chunks'[n] = chunks[n]
      /\ chunks'[Len(chunks) + 1] = c
  BY DEF Texture, Count
<1>2. Count' = Count + IF Filling' THEN 1 ELSE 0
  BY <1>1 DEF Count
<1>3. \A n \in 1 .. Count : /\ n \in 1 .. Count' /\ n <= Len(chunks')
                            /\ n \in 1 .. Len(chunks) \/ n = Len(chunks) + 1
                            /\ n <= Len(chunks) => n \in 1 .. Len(chunks)
                            /\ n = Len(chunks) + 1 => ~ (n <= Len(chunks))
  BY <1>1, <1>2
<1>4. \A n \in 1 .. Count : Made'[n] = chunks'[n].pieces
  BY <1>3 DEF Made
<1>5. \A n \in 1 .. Count : Made[n] = IF n <= Len(chunks) THEN chunks[n].pieces ELSE Open
  BY DEF Made
<1>6. \A n \in 1 .. Count : Made'[n] = Made[n]
  BY <1>1, <1>3, <1>4, <1>5
<1>7. Filling' => Count + 1 \in 1 .. Count' /\ ~ (Count + 1 <= Len(chunks'))
  BY <1>1, <1>2
<1>8. Filling' => Made'[Count + 1] = Open'
  BY <1>7 DEF Made
<1> QED
  BY <1>1, <1>2, <1>6, <1>8

LEMMA Dropped ==
  ASSUME Texture, chunks' = chunks, Filling, ~ Filling'
  PROVE  /\ Count \in Nat /\ Count >= 1 /\ Count' = Count - 1 /\ Made[Count] = Open
         /\ \A n \in 1 .. Count - 1 : Made'[n] = Made[n]
<1>1. Len(chunks) \in Nat /\ Count = Len(chunks) + 1 /\ Count' = Len(chunks)
  BY DEF Texture, Count
<1>2. \A n \in 1 .. Count - 1 : n \in 1 .. Count /\ n <= Len(chunks)
  BY <1>1
<1>3. Count \in 1 .. Count /\ ~ (Count <= Len(chunks))
  BY <1>1
<1>4. \A n \in 1 .. Len(chunks) : Made'[n] = chunks[n].pieces
  BY <1>1 DEF Made
<1> QED
  BY <1>1, <1>2, <1>3, <1>4 DEF Made

-----------------------------------------------------------------------------
(* The steps.                                                                 *)

\* The pieces that the loops add are after all that were made, and what they
\* cover is placed.
LEMMA NextToken ==
  ASSUME Texture, WordsFit, token <= Len(text), at # "word", at' # "word", token' = token + 1,
         UNCHANGED text, NEW p, p = Whole(token)
  PROVE  /\ p \in Piece /\ Fresh(p) /\ Past(p)'
         /\ \A q \in Piece : Past(q) => Past(q)' /\ Before(q, p)
         /\ \A i \in DOMAIN text : \A j \in DOMAIN Words(i) :
               Words(i)[j] > 0 /\ Placed(i, j)' =>
                  Placed(i, j) \/ (Within(p, i, j) /\ p.len > 0)
<1>1. token \in Nat /\ p \in Piece /\ p.token = token
  BY PiecesOfText DEF Texture, Whole
<1>2. \A q \in Piece : q.token \in Nat
  BY DEF Piece
<1>3. Fresh(p)
  BY <1>1, <1>2 DEF Fresh, Past, Before, Within
<1>4. (\A q \in Piece : Past(q) => Past(q)' /\ Before(q, p)) /\ Past(p)'
  <2>1. \A q \in Piece : Past(q) <=> q.token < token
    BY DEF Past
  <2>2. \A q \in Piece : Past(q)' <=> q.token < token + 1
    BY DEF Past
  <2>3. \A q \in Piece : q.token < token => q.token < token + 1
    BY <1>1, <1>2
  <2>4. Past(p)' <=> p.token < token + 1
    BY DEF Past
  <2> QED
    BY <1>1, <2>1, <2>2, <2>3 DEF Before
<1>5. ASSUME NEW i \in DOMAIN text, NEW j \in DOMAIN Words(i), Words(i)[j] > 0, Placed(i, j)',
             ~ Placed(i, j)
      PROVE  Within(p, i, j) /\ p.len > 0
  <2>1. i \in Nat /\ i = token
    <3>1. text \in Seq([words : Seq(Nat), len : Nat])
      BY DEF Texture
    <3>2. i \in Nat
      BY <3>1
    <3> QED
      BY <1>1, <1>5, <3>2 DEF Placed
  <2>2. Words(i) \in Seq(Nat) /\ text[i].len \in Nat
    BY <2>1, PiecesOfText
  <2>3. j \in 1 .. Len(Words(i)) /\ Words(i)[j] \in Nat
    BY <2>2
  <2>4. Words(i)[j] <= text[i].len
    BY DEF WordsFit
  <2>5. text[i].len > 0
    BY <1>5, <2>2, <2>3, <2>4
  <2> QED
    BY <2>1, <2>3, <2>5 DEF Within, Whole
<1> QED
  BY <1>1, <1>3, <1>4, <1>5

LEMMA NextWord ==
  ASSUME Texture, token <= Len(text), at = "word", at' = "word", token' = token,
         word <= Len(Words(token)), word' = word + 1, UNCHANGED text,
         NEW p, p = Word(token, word)
  PROVE  /\ p \in Piece /\ Fresh(p) /\ Past(p)'
         /\ \A q \in Piece : Past(q) => Past(q)' /\ Before(q, p)
         /\ \A i \in DOMAIN text : \A j \in DOMAIN Words(i) :
               Words(i)[j] > 0 /\ Placed(i, j)' =>
                  Placed(i, j) \/ (Within(p, i, j) /\ p.len > 0)
<1>1. /\ token \in Nat /\ word \in Nat /\ p \in Piece
      /\ p.token = token /\ p.from = word /\ p.to = word /\ p.len = Words(token)[word]
  BY PiecesOfText DEF Texture, Word
<1>2. \A q \in Piece : q.token \in Nat /\ q.from \in Nat /\ q.to \in Nat
  BY DEF Piece
<1>3. Fresh(p)
  BY <1>1, <1>2 DEF Fresh, Past, Before, Within
<1>4. (\A q \in Piece : Past(q) => Past(q)' /\ Before(q, p)) /\ Past(p)'
  <2>1. \A q \in Piece : Past(q) <=> q.token < token \/ (q.token = token /\ q.to < word)
    BY DEF Past
  <2>2. \A q \in Piece : Past(q)' <=> q.token < token \/ (q.token = token /\ q.to < word + 1)
    BY DEF Past
  <2>3. \A q \in Piece : q.to < word => q.to < word + 1
    BY <1>1, <1>2
  <2> QED
    BY <1>1, <2>1, <2>2, <2>3 DEF Before
<1>5. ASSUME NEW i \in DOMAIN text, NEW j \in DOMAIN Words(i), Words(i)[j] > 0, Placed(i, j)',
             ~ Placed(i, j)
      PROVE  Within(p, i, j) /\ p.len > 0
  <2>1. i = token /\ j < word + 1 /\ ~ (j < word)
    BY <1>5 DEF Placed
  <2>2. j \in Nat
    BY <2>1, PiecesOfText
  <2>3. j = word
    BY <1>1, <2>1, <2>2
  <2> QED
    BY <1>1, <1>5, <2>1, <2>3 DEF Within
<1> QED
  BY <1>1, <1>3, <1>4, <1>5

LEMMA AppendTokenKept == IInv /\ KeptInv /\ AppendToken => KeptInv'
<1> SUFFICES ASSUME IInv, KeptInv, AppendToken PROVE KeptInv'
  OBVIOUS
<1> USE DEF args, sliceVars, overlapVars
<1>1. /\ Texture /\ WordsFit /\ Ordered /\ Following /\ Kept
      /\ at = "token" /\ at' = "token" /\ token <= Len(text) /\ token' = token + 1
      /\ chunks' = chunks /\ UNCHANGED <<text, chunk_overlap>>
      /\ Filling /\ Filling'
  BY DEF IInv, KeptInv, AppendToken, AtToken, Filling
<1>2. PICK p : p = Whole(token)
  OBVIOUS
<1>3. PICK s : s = Made[Count]
  OBVIOUS
<1>4. s \in Seq(Piece) /\ s = current_chunk.pieces
  BY <1>1, <1>3, Refilled DEF Open, Texture, Chunk
<1>5. Open' = Append(s, p)
  BY <1>1, <1>2, <1>4 DEF AppendToken, Add, Open
<1>6. Ordered' /\ Following' /\ Kept'
  BY <1>1, <1>2, <1>3, <1>4, <1>5, Refilled, NextToken, LongerList
<1> QED
  BY <1>1, <1>6 DEF KeptInv, WordsFit, Words

LEMMA CloseChunkKept == IInv /\ KeptInv /\ CloseChunk => KeptInv'
<1> SUFFICES ASSUME IInv, KeptInv, CloseChunk PROVE KeptInv'
  OBVIOUS
<1> USE DEF args, sliceVars, overlapVars
<1>1. /\ Texture /\ WordsFit /\ Ordered /\ Following /\ Kept
      /\ at = "token" /\ at' = "overlap" /\ token' = token
      /\ chunks' = Append(chunks, current_chunk) /\ UNCHANGED <<text, chunk_overlap>>
      /\ current_chunk \in Chunk /\ current_chunk.pieces = Open
      /\ Filling /\ ~ Filling'
  BY DEF IInv, KeptInv, CloseChunk, AtToken, Filling, Open, Texture
<1>2. Count \in Nat /\ Count' = Count /\ \A n \in 1 .. Count : Made'[n] = Made[n]
  BY <1>1, ListClosed
<1>3. \A q : Past(q) => Past(q)'
  BY <1>1 DEF Past
<1>4. \A i, j : Placed(i, j)' => Placed(i, j)
  BY <1>1 DEF Placed
<1>5. Ordered' /\ Following' /\ Kept'
  BY <1>1, <1>2, <1>3, <1>4, SameLists
<1>6. Overlapping'
  <2>1. Count >= 1 /\ Made[Count] = current_chunk.pieces
    BY <1>1, Shape
  <2>2. InOrder(current_chunk.pieces)
        /\ \A k \in DOMAIN current_chunk.pieces : Past(current_chunk.pieces[k])
    BY <1>1, <1>2, <2>1 DEF Ordered
  <2>3. /\ left' = current_chunk.pieces /\ overlap_text'.pieces = <<>>
        /\ current_chunk' = current_chunk
    BY EmptyList DEF CloseChunk
  <2>4. current_chunk.pieces \in Seq(Piece)
    BY <1>1 DEF Chunk
  <2>5. Len(left') + Len(overlap_text'.pieces) = Len(current_chunk'.pieces)
    BY <2>3, <2>4
  <2>6. DOMAIN overlap_text'.pieces = {}
    BY <2>3
  <2>7. \A k \in DOMAIN current_chunk'.pieces : Past(current_chunk.pieces[k])'
    BY <1>1, <2>2, <2>3 DEF Past
  <2> QED
    BY <2>2, <2>3, <2>5, <2>6, <2>7 DEF Overlapping
<1> QED
  BY <1>1, <1>5, <1>6 DEF KeptInv, WordsFit, Words

LEMMA InsertedPieces ==
  ASSUME NEW s \in Seq(Piece), NEW p \in Piece
  PROVE  /\ <<p>> \o s \in Seq(Piece) /\ Len(<<p>> \o s) = Len(s) + 1
         /\ (<<p>> \o s)[1] = p
         /\ \A k \in DOMAIN (<<p>> \o s) :
               k = 1 \/ (k - 1 \in DOMAIN s /\ (<<p>> \o s)[k] = s[k - 1])
         /\ Len(s) \in Nat
<1>1. <<p>> \in Seq(Piece) /\ Len(<<p>>) = 1 /\ <<p>>[1] = p
  OBVIOUS
<1>2. /\ <<p>> \o s \in Seq(Piece) /\ Len(<<p>> \o s) = 1 + Len(s)
      /\ \A k \in 1 .. 1 + Len(s) :
            (<<p>> \o s)[k] = IF k <= 1 THEN <<p>>[k] ELSE s[k - 1]
  BY <1>1, ConcatProperties
<1>3. Len(s) \in Nat /\ DOMAIN s = 1 .. Len(s)
  OBVIOUS
<1>4. DOMAIN (<<p>> \o s) = 1 .. 1 + Len(s)
  BY <1>2, <1>3
<1> QED
  BY <1>1, <1>2, <1>3, <1>4

LEMMA Regrouped ==
  ASSUME NEW a \in Nat, NEW b \in Nat, NEW c \in Nat
  PROVE  (a + 1 + b) + (c + 1) = a + 1 + (b + (c + 1))
  OBVIOUS

\* A piece put in front moves what the others make by its length and a space.
LEMMA JoinedInsert ==
  ASSUME NEW s \in Seq(Piece), NEW p \in Piece
  PROVE  /\ Joined(<<p>> \o s)[1] = p.len
         /\ \A k \in 1 .. Len(s) : Joined(<<p>> \o s)[k + 1] = p.len + 1 + Joined(s)[k]
         /\ DOMAIN (<<p>> \o s) = 1 .. Len(s) + 1
<1>1. PICK t : t = <<p>> \o s
  OBVIOUS
<1>2. /\ t \in Seq(Piece) /\ Len(t) = Len(s) + 1 /\ Len(s) \in Nat /\ t[1] = p
      /\ \A k \in DOMAIN t : k = 1 \/ t[k] = s[k - 1]
  BY <1>1, InsertedPieces
<1>3. DOMAIN t = 1 .. Len(s) + 1 /\ p.len \in Nat
  BY <1>2 DEF Piece
<1>4. ASSUME NEW k \in 1 .. Len(s) PROVE s[k].len \in Nat
  <2>1. s[k] \in Piece
    OBVIOUS
  <2> QED
    BY <2>1 DEF Piece
<1>5. PICK f : f = Joined(s)
  OBVIOUS
<1>6. PICK g : g = Joined(t)
  OBVIOUS
<1>7. /\ f[0] = 0 /\ \A k \in 1 .. Len(s) : f[k] = f[k - 1] + Width(s, k)
      /\ \A k \in 0 .. Len(s) : f[k] \in Nat
  BY <1>5, JoinedStep
<1>8. g[0] = 0 /\ \A k \in 1 .. Len(s) + 1 : g[k] = g[k - 1] + Width(t, k)
  BY <1>2, <1>6, JoinedStep
<1>9. g[1] = p.len
  <2>1. 1 \in 1 .. Len(s) + 1 /\ 1 - 1 = 0
    BY <1>2
  <2>2. Width(t, 1) = p.len
    BY <1>2, <1>3 DEF Width
  <2> QED
    BY <1>3, <1>8, <2>1, <2>2
<1>10. ASSUME NEW k \in 1 .. Len(s) PROVE g[k + 1] = g[k] + (s[k].len + 1)
  <2>1. k + 1 \in 1 .. Len(s) + 1 /\ k + 1 # 1 /\ (k + 1) - 1 = k
    BY <1>2
  <2>2. t[k + 1] = s[k]
    BY <1>2, <1>3, <2>1
  <2>3. Width(t, k + 1) = s[k].len + 1
    BY <2>1, <2>2 DEF Width
  <2> QED
    BY <1>8, <2>1, <2>3
<1>11. ASSUME NEW k \in 1 .. Len(s), k = 1 \/ g[k] = p.len + 1 + f[k - 1]
       PROVE  g[k + 1] = p.len + 1 + f[k]
  <2>1. CASE k = 1
    <3>1. Width(s, 1) = s[1].len /\ f[1] = f[1 - 1] + Width(s, 1) /\ 1 - 1 = 0
      BY <1>4, <1>7, <2>1 DEF Width
    <3>2. f[1] = s[1].len
      BY <1>4, <1>7, <2>1, <3>1
    <3>3. g[k + 1] = p.len + (s[1].len + 1)
      BY <1>9, <1>10, <2>1
    <3>4. s[1].len \in Nat
      BY <1>4, <2>1
    <3>5. p.len + (s[1].len + 1) = p.len + 1 + s[1].len
      BY <1>3, <3>4
    <3> QED
      BY <2>1, <3>2, <3>3, <3>5
  <2>2. CASE k # 1
    <3>1. f[k] = f[k - 1] + (s[k].len + 1)
      BY <1>4, <1>7, <2>2 DEF Width
    <3>2. f[k - 1] \in Nat /\ s[k].len \in Nat
      BY <1>2, <1>4, <1>7
    <3>3. g[k] = p.len + 1 + f[k - 1]
      BY <1>11, <2>2
    <3>4. g[k + 1] = g[k] + (s[k].len + 1)
      BY <1>10
    <3>5. (p.len + 1 + f[k - 1]) + (s[k].len + 1) = p.len + 1 + (f[k - 1] + (s[k].len + 1))
      BY <1>3, <3>2, Regrouped
    <3> QED
      BY <3>1, <3>3, <3>4, <3>5
  <2> QED
    BY <2>1, <2>2
<1> DEFINE Good == {k \in 0 .. Len(s) : k = 0 \/ g[k + 1] = p.len + 1 + f[k]}
<1>12. 0 \in Good
  BY <1>2
<1>13. ASSUME NEW k \in 1 .. Len(s), k - 1 \in Good PROVE k \in Good
  <2>1. (k - 1) + 1 = k /\ (k - 1 = 0 => k = 1) /\ k \in 0 .. Len(s)
    BY <1>2
  <2>2. k = 1 \/ g[k] = p.len + 1 + f[k - 1]
    BY <1>13, <2>1
  <2>3. g[k + 1] = p.len + 1 + f[k]
    BY <1>11, <2>2
  <2> QED
    BY <2>1, <2>3
<1>14. Good \subseteq 0 .. Len(s)
  OBVIOUS
<1> HIDE DEF Good
<1>15. Good = 0 .. Len(s)
  BY <1>2, <1>12, <1>13, <1>14, Upwards
<1>16. ASSUME NEW k \in 1 .. Len(s) PROVE g[k + 1] = p.len + 1 + f[k]
  <2>1. k \in 0 .. Len(s) /\ k # 0
    BY <1>2
  <2>2. k \in Good
    BY <1>15, <2>1
  <2> QED
    BY <2>1, <2>2 DEF Good
<1> QED
  BY <1>1, <1>3, <1>5, <1>6, <1>9, <1>16

LEMMA ShortenedPieces ==
  ASSUME NEW s \in Seq(Piece), s # <<>>
  PROVE  /\ Len(SubSeq(s, 1, Len(s) - 1)) = Len(s) - 1
         /\ \A k \in DOMAIN SubSeq(s, 1, Len(s) - 1) :
               k \in DOMAIN s /\ SubSeq(s, 1, Len(s) - 1)[k] = s[k]
<1>1. Len(s) \in Nat /\ Len(s) >= 1 /\ DOMAIN s = 1 .. Len(s)
  OBVIOUS
<1>2. /\ SubSeq(s, 1, Len(s) - 1) \in Seq(Piece)
      /\ Len(SubSeq(s, 1, Len(s) - 1)) = Len(s) - 1
  BY <1>1
<1>3. \A k \in 1 .. Len(s) - 1 : SubSeq(s, 1, Len(s) - 1)[k] = s[k]
  BY <1>1
<1>4. DOMAIN SubSeq(s, 1, Len(s) - 1) = 1 .. Len(s) - 1
  BY <1>2
<1> QED
  BY <1>1, <1>2, <1>3, <1>4

LEMMA KeepPieceKept == IInv /\ KeptInv /\ KeepPiece => KeptInv'
<1> SUFFICES ASSUME IInv, KeptInv, KeepPiece PROVE KeptInv'
  OBVIOUS
<1> USE DEF args, sliceVars, overlapVars
<1>1. /\ Texture /\ WordsFit /\ Ordered /\ Following /\ Kept /\ Overlapping
      /\ at = "overlap" /\ at' = "overlap" /\ token' = token
      /\ chunks' = chunks /\ UNCHANGED <<text, chunk_overlap, current_chunk>>
      /\ ~ Filling /\ ~ Filling'
  BY DEF IInv, KeptInv, KeepPiece, Filling
<1>2. Count' = Count /\ \A n \in 1 .. Count : Made'[n] = Made[n]
  BY <1>1, Unfilled
<1>3. \A q : Past(q) => Past(q)'
  BY <1>1 DEF Past
<1>4. \A i, j : Placed(i, j)' => Placed(i, j)
  BY <1>1 DEF Placed
<1>5. Ordered' /\ Following' /\ Kept'
  BY <1>1, <1>2, <1>3, <1>4, SameLists
<1> DEFINE s == overlap_text.pieces
           c == current_chunk.pieces
           t == <<LastLeft>> \o s
<1>6. /\ left \in Seq(Piece) /\ left # <<>> /\ s \in Seq(Piece) /\ c \in Seq(Piece)
  BY <1>1 DEF KeepPiece, KeepsLast, Texture, Chunk
<1>7. /\ Len(left) \in Nat /\ Len(left) >= 1 /\ LastLeft = c[Len(left)]
      /\ LastLeft \in Piece
  <2>1. Len(left) \in DOMAIN left /\ Len(left) >= 1
    BY <1>6
  <2> QED
    BY <1>1, <1>6, <2>1, ElementOfSeq DEF Overlapping, LastLeft
<1>8. /\ left' = SubSeq(left, 1, Len(left) - 1) /\ overlap_text'.pieces = t
      /\ current_chunk'.pieces = c
  BY <1>1 DEF KeepPiece, Insert
<1>9. /\ Len(left') = Len(left) - 1
      /\ \A k \in DOMAIN left' : k \in DOMAIN left /\ left'[k] = left[k]
  BY <1>6, <1>8, ShortenedPieces
<1>10. Overlapping'
  <2>1. /\ Len(t) = Len(s) + 1 /\ Len(s) \in Nat /\ t[1] = LastLeft
        /\ \A k \in DOMAIN t : k = 1 \/ (k - 1 \in DOMAIN s /\ t[k] = s[k - 1])
    BY <1>6, <1>7, InsertedPieces
  <2>2. /\ Len(left) + Len(s) = Len(c)
        /\ \A k \in DOMAIN left : left[k] = c[k]
        /\ \A k \in DOMAIN s : s[k] = c[Len(left) + k] /\ Joined(s)[k] < overlap_len
        /\ InOrder(c) /\ \A k \in DOMAIN c : Past(c[k])
    BY <1>1 DEF Overlapping
  <2>3. /\ overlap_len \in Nat /\ LastLeft.len \in Nat
        /\ overlap_len' = overlap_len + LastLeft.len + 1
        /\ DOMAIN t = 1 .. Len(s) + 1 /\ DOMAIN s = 1 .. Len(s)
        /\ Joined(t)[1] = LastLeft.len
        /\ \A k \in 0 .. Len(s) : Joined(s)[k] \in Nat
        /\ \A k \in 1 .. Len(s) : Joined(t)[k + 1] = LastLeft.len + 1 + Joined(s)[k]
    <3>1. overlap_len \in Nat /\ overlap_len' = overlap_len + LastLeft.len + 1
      BY <1>1 DEF KeepPiece, Texture
    <3>2. LastLeft.len \in Nat
      BY <1>7 DEF Piece
    <3>3. /\ Joined(t)[1] = LastLeft.len /\ DOMAIN t = 1 .. Len(s) + 1
          /\ \A k \in 1 .. Len(s) : Joined(t)[k + 1] = LastLeft.len + 1 + Joined(s)[k]
      BY <1>6, <1>7, JoinedInsert
    <3>4. \A k \in 0 .. Len(s) : Joined(s)[k] \in Nat
      BY <1>6, JoinedStep
    <3>5. DOMAIN s = 1 .. Len(s)
      BY <1>6
    <3> QED
      BY <3>1, <3>2, <3>3, <3>4, <3>5
  <2> HIDE DEF s, c, t
  <2>4. Len(left') + Len(t) = Len(c)
    <3>1. Len(left) \in Nat /\ Len(s) \in Nat /\ Len(left) + Len(s) = Len(c)
      BY <1>7, <2>1, <2>2
    <3>2. Len(left') = Len(left) - 1 /\ Len(t) = Len(s) + 1
      BY <1>9, <2>1
    <3> QED
      BY <3>1, <3>2
  <2>5. \A k \in DOMAIN t : t[k] = c[Len(left') + k] /\ Joined(t)[k] < overlap_len'
    <3> SUFFICES ASSUME NEW k \in 1 .. Len(s) + 1
                 PROVE  t[k] = c[Len(left') + k] /\ Joined(t)[k] < overlap_len'
      BY <2>3
    <3>1. CASE k = 1
      <4>1. Len(left') + k = Len(left)
        BY <1>7, <1>9, <3>1
      <4>2. Joined(t)[k] < overlap_len'
        BY <2>3, <3>1
      <4> QED
        BY <1>7, <2>1, <3>1, <4>1, <4>2
    <3>2. CASE k # 1
      <4>1. k - 1 \in 1 .. Len(s) /\ k = (k - 1) + 1
        BY <2>1, <3>2
      <4>2. Len(left') + k = Len(left) + (k - 1)
        BY <1>7, <1>9, <4>1
      <4>3. t[k] = s[k - 1]
        BY <2>1, <2>3, <3>2
      <4>4. Joined(t)[k] = LastLeft.len + 1 + Joined(s)[k - 1]
        BY <2>3, <4>1
      <4>5. Joined(s)[k - 1] < overlap_len /\ Joined(s)[k - 1] \in Nat
        BY <2>1, <2>2, <2>3, <4>1
      <4>6. s[k - 1] = c[Len(left) + (k - 1)]
        BY <2>2, <2>3, <4>1
      <4>7. Joined(t)[k] < overlap_len'
        BY <2>3, <4>4, <4>5
      <4> QED
        BY <4>2, <4>3, <4>6, <4>7
    <3> QED
      BY <3>1, <3>2
  <2>6. \A k \in DOMAIN current_chunk'.pieces : Past(current_chunk.pieces[k])'
    BY <1>1, <1>8, <2>2 DEF c, Past
  <2>7. /\ current_chunk'.pieces = c /\ overlap_text'.pieces = t
        /\ \A k \in DOMAIN left' : left'[k] = c[k]
    BY <1>8, <1>9, <2>2
  <2> QED
    BY <1>1, <2>2, <2>4, <2>5, <2>6, <2>7 DEF Overlapping
<1> QED
  BY <1>1, <1>5, <1>10 DEF KeptInv, WordsFit, Words

LEMMA StartAfterOverlapKept == IInv /\ KeptInv /\ StartAfterOverlap => KeptInv'
<1> SUFFICES ASSUME IInv, KeptInv, StartAfterOverlap PROVE KeptInv'
  OBVIOUS
<1> USE DEF args, sliceVars, overlapVars
<1>1. /\ Texture /\ WordsFit /\ Ordered /\ Following /\ Kept /\ Overlapping
      /\ at = "overlap" /\ at' = "token" /\ token' = token + 1 /\ token <= Len(text)
      /\ chunks' = chunks /\ UNCHANGED <<text, chunk_overlap>>
      /\ ~ Filling /\ Filling'
  BY DEF IInv, KeptInv, StartAfterOverlap, Filling, Inside
<1>2. PICK p : p = Whole(token)
  OBVIOUS
<1>3. PICK b : b = overlap_text.pieces
  OBVIOUS
<1>4. PICK c : c = current_chunk.pieces
  OBVIOUS
<1>5. b \in Seq(Piece) /\ c \in Seq(Piece) /\ left \in Seq(Piece)
  BY <1>1, <1>3, <1>4 DEF Texture, Chunk
<1>6. /\ p \in Piece /\ Fresh(p) /\ Past(p)'
      /\ \A q \in Piece : Past(q) => Past(q)' /\ Before(q, p)
      /\ \A i \in DOMAIN text : \A j \in DOMAIN Words(i) :
               Words(i)[j] > 0 /\ Placed(i, j)' =>
                  Placed(i, j) \/ (Within(p, i, j) /\ p.len > 0)
  BY <1>1, <1>2, NextToken
<1>7. /\ Len(left) + Len(b) = Len(c)
      /\ \A k \in DOMAIN b : b[k] = c[Len(left) + k] /\ Joined(b)[k] < chunk_overlap
      /\ InOrder(c) /\ \A k \in DOMAIN c : Past(c[k])
  <2>1. overlap_len \in Nat /\ chunk_overlap \in Nat /\ overlap_len <= chunk_overlap
    BY DEF IInv, Texture, OverlapCounted
  <2>2. \A k \in DOMAIN b : Joined(b)[k] \in Nat
    BY <1>5, JoinedStep
  <2>3. \A k \in DOMAIN b : b[k] = c[Len(left) + k] /\ Joined(b)[k] < overlap_len
    BY <1>1, <1>3, <1>4 DEF Overlapping
  <2>4. \A k \in DOMAIN b : Joined(b)[k] < chunk_overlap
    BY <2>1, <2>2, <2>3
  <2> QED
    BY <1>1, <1>3, <1>4, <2>3, <2>4 DEF Overlapping
<1>8. /\ Len(left) \in Nat /\ Len(b) \in Nat
      /\ \A k \in DOMAIN b : /\ k \in Nat /\ Len(left) + k \in DOMAIN c
                             /\ b[k] \in Piece
      /\ \A k \in 2 .. Len(b) :
            /\ k \in DOMAIN b /\ k - 1 \in DOMAIN b
            /\ Len(left) + k \in 2 .. Len(c) /\ Len(left) + (k - 1) = (Len(left) + k) - 1
      /\ b # <<>> => Len(b) \in DOMAIN b
  <2>1. /\ Len(left) \in Nat /\ Len(b) \in Nat /\ Len(c) \in Nat
        /\ DOMAIN b = 1 .. Len(b) /\ DOMAIN c = 1 .. Len(c)
    BY <1>5
  <2>2. b # <<>> => Len(b) >= 1
    BY <1>5
  <2> QED
    BY <1>5, <1>7, <2>1, <2>2
<1>9. \A k \in DOMAIN b : Past(b[k])
  BY <1>7, <1>8
<1>10. InOrder(b)
  BY <1>7, <1>8 DEF InOrder
<1>11. InOrder(Append(b, p))
  BY <1>5, <1>6, <1>8, <1>9, <1>10, AddedInOrder
<1>12. \A k \in DOMAIN Append(b, p) : Past(Append(b, p)[k])'
  <2> SUFFICES ASSUME NEW k \in DOMAIN Append(b, p) PROVE Past(Append(b, p)[k])'
    OBVIOUS
  <2>1. k \in 1 .. Len(b) \/ k = Len(b) + 1
    BY <1>5, <1>6, AppendedPieces
  <2>2. CASE k \in 1 .. Len(b)
    <3>1. Append(b, p)[k] = b[k] /\ k \in DOMAIN b
      BY <1>5, <1>6, <2>2, AppendedPieces
    <3> QED
      BY <1>6, <1>8, <1>9, <3>1
  <2>3. CASE k = Len(b) + 1
    BY <1>5, <1>6, <2>3, AppendedPieces
  <2> QED
    BY <2>1, <2>2, <2>3
<1>13. \A n \in 1 .. Count : Follows(Made[n], Append(b, p))
  <2> SUFFICES ASSUME NEW n \in 1 .. Count PROVE Follows(Made[n], Append(b, p))
    OBVIOUS
  <2>1. Made[n] \in Seq(Piece)
    BY <1>1, Shape
  <2>2. \A k \in DOMAIN Made[n] : Made[n][k] \in Piece /\ Past(Made[n][k])
    BY <1>1, <2>1 DEF Ordered
  <2>3. \A k \in DOMAIN Made[n] :
           Before(Made[n][k], p) /\ ~ Within(Made[n][k], p.token, p.from)
    BY <1>6, <2>2 DEF Fresh
  <2> QED
    BY <1>5, <1>6, <1>7, <2>1, <2>3, AddedFollows
<1>14. \A i \in DOMAIN text : \A j \in DOMAIN Words(i) :
          Words(i)[j] > 0 /\ Placed(i, j)' => Placed(i, j) \/ Holds(Append(b, p), i, j)
  <2>1. /\ Append(b, p)[Len(b) + 1] = p /\ Len(b) + 1 \in DOMAIN Append(b, p)
    BY <1>5, <1>6, AppendedPieces
  <2>2. \A i, j : Within(p, i, j) /\ p.len > 0 => Holds(Append(b, p), i, j)
    BY <2>1 DEF Holds
  <2> QED
    BY <1>6, <2>2
<1>15. PICK s : s = Append(b, p)
  OBVIOUS
<1>16. s \in Seq(Piece) /\ Open' = s
  <2>1. s \in Seq(Piece)
    BY <1>5, <1>6, <1>15, AppendedPieces
  <2> QED
    BY <1>1, <1>2, <1>3, <1>15, <2>1 DEF Open, StartAfterOverlap, Add
<1>17. /\ Count' = Count + 1 /\ \A n \in 1 .. Count : Made'[n] = Made[n]
       /\ Made'[Count + 1] = s
  BY <1>1, <1>16, Begun
<1>18. Ordered' /\ Following' /\ Kept'
  BY <1>1, <1>6, <1>11, <1>12, <1>13, <1>14, <1>15, <1>16, <1>17, NewList
<1> QED
  BY <1>1, <1>18 DEF KeptInv, WordsFit, Words

\* A list that is begun without a piece.
LEMMA NoList ==
  /\ <<>> \in Seq(Piece) /\ InOrder(<<>>)
  /\ \A b : Follows(b, <<>>)
<1>1. Len(<<>>) = 0 /\ DOMAIN <<>> = {} /\ <<>> \in Seq(Piece)
  OBVIOUS
<1> QED
  BY <1>1 DEF InOrder, Follows

LEMMA StartSlicingKept == IInv /\ KeptInv /\ StartSlicing => KeptInv'
<1> SUFFICES ASSUME IInv, KeptInv, StartSlicing PROVE KeptInv'
  OBVIOUS
<1> USE DEF args, sliceVars, overlapVars
<1>1. /\ Texture /\ WordsFit /\ Ordered /\ Following /\ Kept
      /\ at = "token" /\ at' = "word" /\ token' = token /\ word' = 1
      /\ UNCHANGED <<text, chunk_overlap>>
      /\ current_chunk \in Chunk /\ current_chunk.pieces = Open /\ Open' = <<>>
      /\ current_chunk'.pieces = <<>>
      /\ Filling /\ Filling'
  BY EmptyList DEF IInv, KeptInv, StartSlicing, AtToken, Filling, Open, Texture
<1>2. \A q \in Piece : Past(q) => Past(q)'
  BY <1>1 DEF Past
<1>3. \A i \in DOMAIN text : \A j \in DOMAIN Words(i) : Placed(i, j)' => Placed(i, j)
  <2>1. \A i \in DOMAIN text : i = token => Words(i) \in Seq(Nat)
    BY <1>1, PiecesOfText DEF StartSlicing, AtToken
  <2>2. \A i \in DOMAIN text : \A j \in DOMAIN Words(i) : i = token => ~ (j < 1)
    BY <2>1
  <2> QED
    BY <1>1, <2>2 DEF Placed
<1>4. Ordered' /\ Following' /\ Kept'
  <2>1. CASE current_chunk.pieces = <<>>
    <3>1. /\ Count \in Nat /\ Count' = Count /\ Made[Count] = <<>> /\ Made'[Count] = <<>>
          /\ \A n \in 1 .. Count - 1 : Made'[n] = Made[n]
      BY <1>1, <2>1, Refilled DEF StartSlicing
    <3>2. \A n \in 1 .. Count : n \in 1 .. Count - 1 \/ n = Count
      BY <3>1
    <3>3. \A n \in 1 .. Count : Made'[n] = Made[n]
      BY <3>1, <3>2
    <3> QED
      BY <1>1, <1>2, <1>3, <3>1, <3>3, SameLists
  <2>2. CASE current_chunk.pieces # <<>>
    <3>1. chunks' = Append(chunks, current_chunk)
      BY <2>2 DEF StartSlicing
    <3>2. /\ Count' = Count + 1 /\ \A n \in 1 .. Count : Made'[n] = Made[n]
          /\ Made'[Count + 1] = <<>>
      BY <1>1, <3>1, ListClosed
    <3>3. PICK s : s = <<>>
      OBVIOUS
    <3>4. /\ s \in Seq(Piece) /\ InOrder(s) /\ \A n \in 1 .. Count : Follows(Made[n], s)
          /\ DOMAIN s = {}
      BY <3>3, NoList
    <3>5. \A k \in DOMAIN s : Past(s[k])'
      BY <3>4
    <3> QED
      BY <1>1, <1>2, <1>3, <3>2, <3>3, <3>4, <3>5, NewList
  <2> QED
    BY <2>1, <2>2
<1> QED
  BY <1>1, <1>4 DEF KeptInv, WordsFit, Words

LEMMA AppendWordKept == IInv /\ KeptInv /\ AppendWord => KeptInv'
<1> SUFFICES ASSUME IInv, KeptInv, AppendWord PROVE KeptInv'
  OBVIOUS
<1> USE DEF args, sliceVars, overlapVars
<1>1. /\ Texture /\ WordsFit /\ Ordered /\ Following /\ Kept
      /\ at = "word" /\ at' = "word" /\ token <= Len(text) /\ token' = token
      /\ word <= Len(Words(token)) /\ word' = word + 1
      /\ chunks' = chunks /\ UNCHANGED <<text, chunk_overlap, current_chunk>>
      /\ current_chunk.pieces = <<>> /\ Filling /\ Filling'
  BY DEF IInv, KeptInv, AppendWord, AtWord, Filling, Inside
<1>2. PICK p : p = Word(token, word)
  OBVIOUS
<1>3. PICK s : s = Made[Count]
  OBVIOUS
<1>4. s \in Seq(Piece) /\ s = sub_chunk.pieces
  BY <1>1, <1>3, Refilled DEF Open, Texture, Chunk
<1>5. Open' = Append(s, p)
  BY <1>1, <1>2, <1>4 DEF AppendWord, Add, Open
<1>6. Ordered' /\ Following' /\ Kept'
  BY <1>1, <1>2, <1>3, <1>4, <1>5, Refilled, NextWord, LongerList
<1> QED
  BY <1>1, <1>6 DEF KeptInv, WordsFit, Words

LEMMA CloseSliceKept == IInv /\ KeptInv /\ CloseSlice => KeptInv'
<1> SUFFICES ASSUME IInv, KeptInv, CloseSlice PROVE KeptInv'
  OBVIOUS
<1> USE DEF args, sliceVars, overlapVars
<1>1. /\ Texture /\ WordsFit /\ Ordered /\ Following /\ Kept
      /\ at = "word" /\ at' = "word" /\ token <= Len(text) /\ token' = token
      /\ word <= Len(Words(token)) /\ word' = word + 1
      /\ chunks' = Append(chunks, sub_chunk)
      /\ UNCHANGED <<text, chunk_overlap, current_chunk>>
      /\ sub_chunk \in Chunk /\ sub_chunk.pieces = Open
      /\ current_chunk.pieces = <<>> /\ Filling /\ Filling'
  BY DEF IInv, KeptInv, CloseSlice, AtWord, Filling, Inside, Texture, Open
<1>2. PICK p : p = Word(token, word)
  OBVIOUS
<1>3. PICK s : s = Append(<<>>, p)
  OBVIOUS
<1>4. /\ p \in Piece /\ Fresh(p) /\ Past(p)'
      /\ \A q \in Piece : Past(q) => Past(q)' /\ Before(q, p)
      /\ \A i \in DOMAIN text : \A j \in DOMAIN Words(i) :
               Words(i)[j] > 0 /\ Placed(i, j)' =>
                  Placed(i, j) \/ (Within(p, i, j) /\ p.len > 0)
  BY <1>1, <1>2, NextWord
<1>5. /\ s \in Seq(Piece) /\ DOMAIN s = {1} /\ s[1] = p
  BY <1>3, <1>4
<1>6. InOrder(s)
  BY <1>3, <1>4, NoList, AddedInOrder
<1>7. \A k \in DOMAIN s : Past(s[k])'
  BY <1>4, <1>5
<1>8. \A n \in 1 .. Count : Follows(Made[n], s)
  <2> SUFFICES ASSUME NEW n \in 1 .. Count PROVE Follows(Made[n], s)
    OBVIOUS
  <2>1. Made[n] \in Seq(Piece)
    BY <1>1, Shape
  <2>2. \A k \in DOMAIN Made[n] : Made[n][k] \in Piece /\ Past(Made[n][k])
    BY <1>1, <2>1 DEF Ordered
  <2>3. \A k \in DOMAIN Made[n] :
           Before(Made[n][k], p) /\ ~ Within(Made[n][k], p.token, p.from)
    BY <1>4, <2>2 DEF Fresh
  <2>4. DOMAIN <<>> = {} /\ <<>> \in Seq(Piece)
    OBVIOUS
  <2> QED
    BY <1>3, <1>4, <2>1, <2>3, <2>4, AddedFollows
<1>9. \A i, j : Within(p, i, j) /\ p.len > 0 => Holds(s, i, j)
  BY <1>5 DEF Holds
<1>10. Open' = s
  BY <1>1, <1>2, <1>3, EmptyList DEF CloseSlice, Open, Add
<1>11. /\ Count' = Count + 1 /\ \A n \in 1 .. Count : Made'[n] = Made[n]
       /\ Made'[Count + 1] = s
  BY <1>1, <1>10, ListClosed
<1>12. Ordered' /\ Following' /\ Kept'
  BY <1>1, <1>4, <1>5, <1>6, <1>7, <1>8, <1>9, <1>11, NewList
<1> QED
  BY <1>1, <1>12 DEF KeptInv, WordsFit, Words

LEMMA EndSlicingKept == IInv /\ KeptInv /\ EndSlicing => KeptInv'
<1> SUFFICES ASSUME IInv, KeptInv, EndSlicing PROVE KeptInv'
  OBVIOUS
<1> USE DEF args, sliceVars, overlapVars
<1>1. /\ Texture /\ WordsFit /\ Ordered /\ Following /\ Kept
      /\ at = "word" /\ at' = "token" /\ token <= Len(text) /\ token' = token + 1
      /\ word > Len(Words(token)) /\ chunks' = chunks
      /\ UNCHANGED <<text, chunk_overlap>>
      /\ current_chunk.pieces = <<>> /\ Filling /\ Filling'
  BY DEF IInv, KeptInv, EndSlicing, Filling, Inside
<1>2. Open = sub_chunk.pieces /\ Open' = Open
  BY <1>1 DEF Open, EndSlicing
<1>3. token \in Nat /\ word \in Nat /\ Words(token) \in Seq(Nat)
  BY <1>1, PiecesOfText DEF Texture
<1>4. \A q \in Piece : Past(q) => Past(q)'
  <2>1. \A q \in Piece : q.token \in Nat
    BY DEF Piece
  <2> QED
    BY <1>1, <1>3, <2>1 DEF Past
<1>5. \A i \in DOMAIN text : \A j \in DOMAIN Words(i) : Placed(i, j)' => Placed(i, j)
  <2> SUFFICES ASSUME NEW i \in DOMAIN text, NEW j \in DOMAIN Words(i), Placed(i, j)'
               PROVE  Placed(i, j)
    OBVIOUS
  <2>1. i \in Nat /\ i < token + 1
    <3>1. text \in Seq([words : Seq(Nat), len : Nat])
      BY <1>1 DEF Texture
    <3>2. i \in Nat
      BY <3>1
    <3> QED
      BY <1>1, <3>2 DEF Placed
  <2>2. CASE i = token
    <3>1. j \in 1 .. Len(Words(token)) /\ Len(Words(token)) \in Nat
      BY <1>3, <2>2
    <3>2. j < word
      BY <1>1, <1>3, <3>1
    <3> QED
      BY <1>1, <2>2, <3>2 DEF Placed
  <2>3. CASE i # token
    BY <1>3, <2>1, <2>3 DEF Placed
  <2> QED
    BY <2>2, <2>3
<1>6. /\ Count \in Nat /\ Count' = Count /\ \A n \in 1 .. Count - 1 : Made'[n] = Made[n]
      /\ Made'[Count] = Made[Count]
  BY <1>1, <1>2, Refilled
<1>7. \A n \in 1 .. Count : n \in 1 .. Count - 1 \/ n = Count
  BY <1>6
<1>8. \A n \in 1 .. Count : Made'[n] = Made[n]
  BY <1>6, <1>7
<1>9. Ordered' /\ Following' /\ Kept'
  BY <1>1, <1>4, <1>5, <1>6, <1>8, SameLists
<1> QED
  BY <1>1, <1>9 DEF KeptInv, WordsFit, Words

LEMMA FlushKept == IInv /\ KeptInv /\ Flush => KeptInv'
<1> SUFFICES ASSUME IInv, KeptInv, Flush PROVE KeptInv'
  OBVIOUS
<1> USE DEF args, sliceVars, overlapVars
<1>1. /\ Texture /\ WordsFit /\ Ordered /\ Following /\ Kept
      /\ at = "token" /\ at' = "done" /\ token > Len(text) /\ token' = token
      /\ UNCHANGED <<text, chunk_overlap>>
      /\ current_chunk \in Chunk /\ current_chunk.pieces = Open
      /\ Filling /\ ~ Filling'
  BY DEF IInv, KeptInv, Flush, Filling, Open, Texture
<1>2. \A q \in Piece : Past(q) => Past(q)'
  BY <1>1 DEF Past
<1>3. \A i \in DOMAIN text : \A j \in DOMAIN Words(i) : Placed(i, j)' => Placed(i, j)
  BY <1>1 DEF Placed
<1>4. CASE current_chunk.pieces = <<>>
  <2>1. chunks' = chunks
    BY <1>4 DEF Flush
  <2>2. Ordered' /\ Following' /\ Kept'
    BY <1>1, <1>2, <1>3, <1>4, <2>1, Dropped, FewerLists
  <2> QED
    BY <1>1, <2>2 DEF KeptInv, WordsFit, Words
<1>5. CASE current_chunk.pieces # <<>>
  <2>1. chunks' = Append(chunks, current_chunk)
    BY <1>5 DEF Flush
  <2>2. Count \in Nat /\ Count' = Count /\ \A n \in 1 .. Count : Made'[n] = Made[n]
    BY <1>1, <2>1, ListClosed
  <2>3. Ordered' /\ Following' /\ Kept'
    BY <1>1, <1>2, <1>3, <2>2, SameLists
  <2> QED
    BY <1>1, <2>3 DEF KeptInv, WordsFit, Words
<1> QED
  BY <1>4, <1>5

LEMMA StutterKept == KeptInv /\ UNCHANGED splitVars => KeptInv'
<1> SUFFICES ASSUME KeptInv, UNCHANGED splitVars PROVE KeptInv'
  OBVIOUS
<1> USE DEF splitVars, args, sliceVars, overlapVars
<1>1. Count' = Count /\ Made' = Made
  BY DEF Count, Made, Filling, Open
<1>2. Ordered' /\ Following' /\ Kept' /\ WordsFit'
  BY <1>1 DEF KeptInv, Ordered, Following, Kept, WordsFit, Words, Past, Placed, Follows
<1>3. at = "overlap" => Overlapping'
  BY DEF KeptInv, Overlapping, Past
<1> QED
  BY <1>2, <1>3 DEF KeptInv

LEMMA InitKept == SplitInit => KeptInv
<1> SUFFICES ASSUME SplitInit PROVE KeptInv
  OBVIOUS
<1>1. Texture /\ Filling /\ Open = <<>> /\ Len(chunks) = 0
  BY InitInv, EmptyList DEF SplitInit, IInv, Filling, Open
<1>2. Count = 1 /\ Made[1] = <<>>
  BY <1>1, Shape
<1>3. WordsFit
  BY SplitterAssumption DEF SplitInit, WordsFit, Words
<1>4. Ordered
  BY <1>2, NoList DEF Ordered
<1>5. Following
  BY <1>2 DEF Following
<1>6. Kept
  <2>1. \A i \in DOMAIN text : \A j \in DOMAIN Words(i) : ~ Placed(i, j)
    BY <1>1 DEF SplitInit, Placed, Texture
  <2> QED
    BY <2>1 DEF Kept
<1> QED
  BY <1>3, <1>4, <1>5, <1>6 DEF SplitInit, KeptInv

LEMMA KeptText ==
  ASSUME IInv, KeptInv
  PROVE  TextKept
<1>1. /\ Texture /\ Ordered /\ Following /\ Kept
      /\ \A n \in DOMAIN chunks : n \in 1 .. Count /\ Made[n] = chunks[n].pieces
  BY Shape DEF IInv, KeptInv
<1>2. ASSUME at = "done", NEW i \in DOMAIN text, NEW j \in DOMAIN Words(i), Words(i)[j] > 0
      PROVE  \E n \in Returned : Covers(chunks[n], i, j)
  <2>1. Count = Len(chunks) /\ DOMAIN chunks = 1 .. Len(chunks)
    BY <1>1, <1>2, Shape DEF Filling, Texture
  <2>2. Placed(i, j)
    <3>1. i \in 1 .. Len(text) /\ token > Len(text) /\ token \in Nat /\ Len(text) \in Nat
      BY <1>1, <1>2 DEF KeptInv, Texture
    <3> QED
      BY <3>1 DEF Placed
  <2>3. PICK n \in DOMAIN chunks : Holds(chunks[n].pieces, i, j)
    BY <1>1, <1>2, <2>1, <2>2 DEF Kept
  <2>4. PICK k \in DOMAIN chunks[n].pieces :
           Within(chunks[n].pieces[k], i, j) /\ chunks[n].pieces[k].len > 0
    BY <2>3 DEF Holds
  <2>5. n \in Returned
    BY <2>4 DEF Returned, Blank
  <2> QED
    BY <2>4, <2>5 DEF Covers, Within
<1>3. \A n \in DOMAIN chunks : \A k \in 2 .. Len(chunks[n].pieces) :
         Before(chunks[n].pieces[k - 1], chunks[n].pieces[k])
  BY <1>1 DEF Ordered, InOrder
<1>4. ASSUME NEW m \in Returned, NEW n \in Returned, m < n
      PROVE  /\ Before(Last(chunks[m]), Last(chunks[n]))
             /\ \A k \in DOMAIN chunks[n].pieces :
                   Covers(chunks[m], chunks[n].pieces[k].token, chunks[n].pieces[k].from)
                   => Joined(chunks[n].pieces)[k] < chunk_overlap
  <2>1. m \in DOMAIN chunks /\ n \in DOMAIN chunks
    BY DEF Returned
  <2>2. Follows(chunks[m].pieces, chunks[n].pieces)
    BY <1>1, <1>4, <2>1 DEF Following
  <2>3. DOMAIN <<>> = {}
    OBVIOUS
  <2>4. chunks[m].pieces # <<>> /\ chunks[n].pieces # <<>>
    BY <2>3 DEF Returned, Blank
  <2> QED
    BY <2>2, <2>4 DEF Follows, Last, Covers, Within
<1> QED
  BY <1>2, <1>3, <1>4 DEF TextKept

\* No word of a text is lost, chunks are in the order of the text, and what a chunk repeats
\* of an earlier one is at its beginning and, joined, shorter than chunk_overlap: for every
\* text, chunk_size and chunk_overlap.
THEOREM TextIsKept == SplitSpec => []TextKept
<1>1. IInv /\ KeptInv /\ [SplitNext]_splitVars => KeptInv'
  BY AppendTokenKept, CloseChunkKept, KeepPieceKept, StartAfterOverlapKept, StartSlicingKept,
     AppendWordKept, CloseSliceKept, EndSlicingKept, FlushKept, StutterKept DEF SplitNext
<1>2. SplitSpec => []IInv
  BY SplitInvariant
<1> QED
  BY InitKept, KeptText, <1>1, <1>2, PTL DEF SplitSpec

-----------------------------------------------------------------------------
(* The RAG pipeline.                                                          *)

\* What RerankOrder says of a reranked list.
Ranked ==
    /\ Len(reranked) = Smaller(config.top_k, Len(retrieved))
    /\ \A m, n \in DOMAIN reranked : reranked[m].id = reranked[n].id => m = n
    /\ \A n \in DOMAIN reranked : \E i \in DOMAIN retrieved : reranked[n] = retrieved[i]
    /\ \A i, j \in DOMAIN retrieved :
          Outranks(i, j) /\ InReranked(retrieved[j]) =>
              /\ InReranked(retrieved[i])
              /\ Position(retrieved[i], reranked) < Position(retrieved[j], reranked)

Distinct(s) == \A i, j \in DOMAIN s : s[i] = s[j] => i = j

\* What is reranked is retrieved and configured.
Ready ==
    /\ retrieved \in Seq(Points) /\ Distinct(retrieved)
    /\ config.top_k \in Nat \ {0}

Beats(r, j, i) == Score(r, j) > Score(r, i) \/ (Score(r, j) = Score(r, i) /\ j < i)
Ahead(r, i) == {j \in DOMAIN retrieved : Beats(r, j, i)}

\* Scores are numbers, a chunk without one has 0.
Scored(r) == \A i \in DOMAIN retrieved : Score(r, i) \in Int

LEMMA PlaceIsAhead ==
    ASSUME NEW r, NEW i
    PROVE  Place(r, i) = 1 + Cardinality(Ahead(r, i))
  BY DEF Place, Ahead, Beats

\* A chunk that is before another has the smaller place.
LEMMA PlacesAreOrdered ==
    ASSUME Ready, NEW r, Scored(r), NEW i \in DOMAIN retrieved, NEW j \in DOMAIN retrieved,
           Beats(r, i, j)
    PROVE  Place(r, i) < Place(r, j)
  <1>1. /\ Len(retrieved) \in Nat /\ DOMAIN retrieved = 1 .. Len(retrieved)
        /\ IsFiniteSet(DOMAIN retrieved)
    BY FS_Interval DEF Ready
  <1>2. \A k \in DOMAIN retrieved : Score(r, k) \in Int /\ k \in Int
    BY <1>1 DEF Scored
  <1>3. /\ Ahead(r, i) \subseteq Ahead(r, j) /\ i \in Ahead(r, j) /\ i \notin Ahead(r, i)
        /\ Ahead(r, j) \in SUBSET (DOMAIN retrieved)
    BY <1>2 DEF Ahead, Beats
  <1> DEFINE A == Ahead(r, i)
             B == Ahead(r, j)
  <1> HIDE DEF A, B
  <1>4. /\ A \subseteq B /\ i \in B /\ i \notin A /\ B \in SUBSET (DOMAIN retrieved)
    BY <1>3 DEF A, B
  <1>5. IsFiniteSet(B)
    BY <1>1, <1>4, FS_Subset
  <1>6. A \in SUBSET B /\ A # B
    BY <1>4
  <1>7. Cardinality(A) <= Cardinality(B) /\ Cardinality(A) # Cardinality(B) /\ IsFiniteSet(A)
    BY <1>5, <1>6, FS_Subset
  <1>8. Cardinality(A) \in Nat /\ Cardinality(B) \in Nat
    BY <1>5, <1>7, FS_CardinalityType
  <1>9. QED
    BY <1>7, <1>8, PlaceIsAhead DEF A, B

\* The places are 1 .. Len(retrieved), each taken once.
LEMMA PlacesAreTaken ==
    ASSUME Ready, NEW r, Scored(r)
    PROVE  /\ \A i \in DOMAIN retrieved : Place(r, i) \in DOMAIN retrieved
           /\ \A i, j \in DOMAIN retrieved : Place(r, i) = Place(r, j) => i = j
           /\ \A n \in DOMAIN retrieved : \E i \in DOMAIN retrieved : Place(r, i) = n
  <1> DEFINE D == DOMAIN retrieved
             N == Len(retrieved)
             f == [i \in D |-> Place(r, i)]
  <1>0. N \in Nat /\ D = 1 .. N
    BY DEF Ready
  <1> HIDE DEF N
  <1>1. N \in Nat /\ D = 1 .. N /\ IsFiniteSet(D) /\ Cardinality(D) = N
    BY <1>0, FS_Interval
  <1>2. ASSUME NEW i \in D PROVE Place(r, i) \in D
    <2> DEFINE A == Ahead(r, i)
    <2>1. A \in SUBSET D /\ i \notin A
      BY <1>1, <1>2 DEF Ahead, Beats, Scored
    <2> HIDE DEF A
    <2>2. A # D
      BY <1>2, <2>1
    <2>3. /\ IsFiniteSet(A) /\ Cardinality(A) <= Cardinality(D)
          /\ Cardinality(A) # Cardinality(D)
      BY <1>1, <2>1, <2>2, FS_Subset
    <2>4. Cardinality(A) \in Nat
      BY <2>3, FS_CardinalityType
    <2>5. Place(r, i) = 1 + Cardinality(A)
      BY PlaceIsAhead DEF A
    <2>6. QED
      BY <1>1, <2>3, <2>4, <2>5
  <1>3. ASSUME NEW i \in D, NEW j \in D, Place(r, i) = Place(r, j) PROVE i = j
    <2>1. Place(r, i) \in Int /\ Place(r, j) \in Int
      BY <1>1, <1>2, <1>3
    <2>2. ~ Beats(r, i, j) /\ ~ Beats(r, j, i)
      BY <1>3, <2>1, PlacesAreOrdered
    <2>3. Score(r, i) \in Int /\ Score(r, j) \in Int /\ i \in Int /\ j \in Int
      BY <1>1, <1>3 DEF Scored
    <2>4. QED
      BY <2>2, <2>3 DEF Beats
  <1>4. f \in Injection(D, D)
    BY <1>2, <1>3 DEF Injection, IsInjective
  <1> HIDE DEF f
  <1>5. f \in Surjection(D, D)
    BY <1>1, <1>4, FS_Injection
  <1>6. \A n \in D : \E i \in D : f[i] = n
    BY <1>5 DEF Surjection
  <1>7. QED
    BY <1>2, <1>3, <1>6 DEF f

\* A list is what RerankOrder wants when it is the start of an order of the retrieved
\* chunks that puts what outranks first.
LEMMA OrderedIsRanked ==
    ASSUME Ready, UNCHANGED <<retrieved, config>>, NEW P,
           \A i \in DOMAIN retrieved : P[i] \in DOMAIN retrieved,
           \A n \in DOMAIN retrieved : \E i \in DOMAIN retrieved : P[i] = n,
           \A i, j \in DOMAIN retrieved : Outranks(i, j)' => P[i] < P[j],
           Len(reranked') = Smaller(config.top_k, Len(retrieved)),
           DOMAIN reranked' = 1 .. Len(reranked'),
           \A i \in DOMAIN retrieved :
               P[i] \in DOMAIN reranked' => reranked'[P[i]] = retrieved[i]
    PROVE  Ranked'
  <1> DEFINE D == DOMAIN retrieved
  <1>1. /\ Len(retrieved) \in Nat /\ D = 1 .. Len(retrieved)
        /\ \A i \in D : retrieved[i] \in Points
        /\ Len(reranked') \in Nat /\ DOMAIN reranked' \subseteq D
    BY DEF Ready, Smaller
  <1>2. \A n \in DOMAIN reranked' : \E i \in D : P[i] = n /\ reranked'[n] = retrieved[i]
    BY <1>1
  <1>3. \A i, j \in D : retrieved[i].id = retrieved[j].id => i = j
    BY <1>1, PipelineAssumption DEF Ready, Distinct
  <1>4. \A m, n \in DOMAIN reranked' : reranked'[m].id = reranked'[n].id => m = n
    <2>1. TAKE m, n \in DOMAIN reranked'
    <2>2. PICK i \in D : P[i] = m /\ reranked'[m] = retrieved[i]
      BY <1>2
    <2>3. PICK j \in D : P[j] = n /\ reranked'[n] = retrieved[j]
      BY <1>2
    <2>4. QED
      BY <1>3, <2>2, <2>3
  <1>5. ASSUME NEW i \in D, P[i] \in DOMAIN reranked'
        PROVE  Position(retrieved[i], reranked') = P[i]
    BY <1>4, <1>5 DEF Position
  <1>6. ASSUME NEW i \in D, InReranked(retrieved[i])'
        PROVE  P[i] \in DOMAIN reranked'
    <2>1. PICK n \in DOMAIN reranked' : reranked'[n] = retrieved[i]
      BY <1>6 DEF InReranked
    <2>2. PICK j \in D : P[j] = n /\ retrieved[j] = retrieved[i]
      BY <1>2, <2>1
    <2>3. QED
      BY <1>3, <2>2
  <1>7. ASSUME NEW i \in D, NEW j \in D, Outranks(i, j)', InReranked(retrieved[j])'
        PROVE  /\ InReranked(retrieved[i])'
               /\ Position(retrieved[i], reranked') < Position(retrieved[j], reranked')
    <2>1. P[i] < P[j] /\ P[j] \in DOMAIN reranked' /\ P[i] \in D
      BY <1>6, <1>7
    <2>2. P[i] \in DOMAIN reranked'
      <3>1. P[i] \in 1 .. Len(retrieved) /\ P[j] \in 1 .. Len(reranked')
        BY <1>1, <2>1
      <3>2. ASSUME NEW x, NEW y, NEW k \in Nat, NEW m \in Nat, x \in 1 .. k, y \in 1 .. m, y < x
            PROVE  y \in 1 .. k
        BY <3>2
      <3>3. Len(retrieved) \in Nat /\ Len(reranked') \in Nat /\ P[i] < P[j]
        BY <1>1, <2>1
      <3>4. P[i] \in 1 .. Len(reranked')
        BY <3>1, <3>2, <3>3
      <3>5. QED
        BY <3>4
    <2>3. QED
      BY <1>5, <2>1, <2>2 DEF InReranked
  <1>8. QED
    BY <1>1, <1>2, <1>4, <1>7 DEF Ranked

\* Without a reranker the order is that of the search.
LEMMA NoopRanks == Ready /\ reply = NoReply /\ RerankNoop => Ranked'
  <1> SUFFICES ASSUME Ready, reply = NoReply, RerankNoop PROVE Ranked'
    OBVIOUS
  <1> DEFINE P == [i \in DOMAIN retrieved |-> i]
             k == Smaller(config.top_k, Len(retrieved))
  <1>1. /\ UNCHANGED <<retrieved, config, reply>>
        /\ reranked' = SubSeq(retrieved, 1, k)
    BY DEF RerankNoop, Top
  <1>2. /\ Len(retrieved) \in Nat /\ DOMAIN retrieved = 1 .. Len(retrieved)
        /\ k \in Nat /\ k <= Len(retrieved)
    BY DEF Ready, Smaller
  <1>3. /\ Len(reranked') = k /\ DOMAIN reranked' = 1 .. k
        /\ \A n \in 1 .. k : reranked'[n] = retrieved[n]
    BY <1>1, <1>2 DEF Ready
  <1> HIDE DEF k
  <1>4. \A i, j \in DOMAIN retrieved : Outranks(i, j)' => P[i] < P[j]
    BY <1>1 DEF Outranks
  <1>5. /\ \A i \in DOMAIN retrieved : P[i] \in DOMAIN retrieved
        /\ \A n \in DOMAIN retrieved : \E i \in DOMAIN retrieved : P[i] = n
        /\ \A i \in DOMAIN retrieved :
               P[i] \in DOMAIN reranked' => reranked'[P[i]] = retrieved[i]
    BY <1>3
  <1>6. Len(reranked') = Smaller(config.top_k, Len(retrieved))
    BY <1>3 DEF k
  <1> HIDE DEF P
  <1>7. QED
    BY <1>1, <1>3, <1>4, <1>5, <1>6, OrderedIsRanked

LEMMA ReplyScored ==
    ASSUME Ready, NEW r \in Replies, Parsed(r)
    PROVE  Scored(r) /\ r # NoReply
  <1>1. \A i \in DOMAIN r.entries : r.entries[i] \in Int
    <2>1. CASE \E D \in SUBSET (1 .. Len(retrieved) + 1) : r.entries \in [D -> Scores]
      BY <2>1, PipelineAssumption
    <2>2. CASE \E n \in 0 .. Len(retrieved) + 1 : r.entries \in [1 .. n -> Scores]
      BY <2>2, PipelineAssumption
    <2>3. QED
      BY <2>1, <2>2 DEF Replies
  <1>2. Scored(r)
    BY <1>1 DEF Scored, Score
  <1>3. r.shape # "none"
    BY DEF Replies
  <1>4. QED
    BY <1>2, <1>3 DEF NoReply

\* A reply that has the scores puts the chunks in their order.
LEMMA RerankRanks == Ready /\ Rerank /\ stage' = "generate" => Ranked'
  <1> SUFFICES ASSUME Ready, Rerank, stage' = "generate" PROVE Ranked'
    OBVIOUS
  <1> DEFINE r == reply'
             D == DOMAIN retrieved
             P == [i \in D |-> Place(r, i)]
             s == Sorted(r)
             k == Smaller(config.top_k, Len(retrieved))
  <1>1. /\ UNCHANGED <<retrieved, config>> /\ r \in Replies /\ Parsed(r)
        /\ reranked' = Top(s, config.top_k)
    BY DEF Rerank
  <1>2. /\ Len(retrieved) \in Nat /\ D = 1 .. Len(retrieved)
        /\ k \in Nat /\ k <= Len(retrieved)
        /\ \A i \in D : retrieved[i] \in Points
    BY DEF Ready, Smaller
  <1>3. Scored(r) /\ r # NoReply
    BY <1>1, ReplyScored
  <1>4. /\ \A i \in D : P[i] \in D
        /\ \A i, j \in D : P[i] = P[j] => i = j
        /\ \A n \in D : \E i \in D : P[i] = n
    BY <1>3, PlacesAreTaken
  <1>5. \A i, j \in D : Beats(r, i, j) => P[i] < P[j]
    BY <1>3, PlacesAreOrdered
  <1>6. ASSUME NEW i \in D, NEW j \in D, Outranks(i, j)' PROVE P[i] < P[j]
    <2>1. Beats(r, i, j)
      BY <1>3, <1>6 DEF Outranks, Beats, Given, Score
    <2>2. QED
      BY <1>5, <2>1
  <1>7. /\ s = [n \in D |-> retrieved[CHOOSE i \in D : Place(r, i) = n]]
        /\ \A i \in D : P[i] = Place(r, i)
    BY DEF Sorted
  <1> HIDE DEF P, s
  <1>8. s \in Seq(Points) /\ Len(s) = Len(retrieved) /\ \A i \in D : s[P[i]] = retrieved[i]
    <2>1. \A i \in D : (CHOOSE j \in D : Place(r, j) = P[i]) = i
      BY <1>4, <1>7
    <2>2. \A n \in D : (CHOOSE i \in D : Place(r, i) = n) \in D
      BY <1>4, <1>7
    <2>3. s \in [1 .. Len(retrieved) -> Points]
      BY <1>2, <1>7, <2>2
    <2>4. \A i \in D : s[P[i]] = retrieved[i]
      BY <1>4, <1>7, <2>1
    <2>5. QED
      BY <1>2, <2>3, <2>4
  <1> HIDE DEF D
  <1>9. reranked' = SubSeq(s, 1, k)
    BY <1>1, <1>8 DEF Top
  <1> HIDE DEF k
  <1>10. /\ Len(reranked') = k /\ DOMAIN reranked' = 1 .. k
         /\ \A n \in 1 .. k : reranked'[n] = s[n]
    BY <1>2, <1>8, <1>9
  <1>11. Len(reranked') = Smaller(config.top_k, Len(retrieved))
    BY <1>10 DEF k
  <1>12. \A i \in D : P[i] \in DOMAIN reranked' => reranked'[P[i]] = retrieved[i]
    BY <1>8, <1>10
  <1>13. DOMAIN reranked' = 1 .. Len(reranked') /\ UNCHANGED <<retrieved, config>>
    BY <1>1, <1>10
  <1> HIDE DEF r
  <1>14. QED
    BY <1>4, <1>6, <1>11, <1>12, <1>13, OrderedIsRanked DEF D

-----------------------------------------------------------------------------
(* The steps of a question. *)

Reranked == stage \in {"generate", "score", "done"}

\* Before the reranker nothing is reranked or answered, after it the order stands.
RankInv ==
    /\ Ready
    /\ stage \in {"search", "rerank", "generate", "score", "done", "error"}
    /\ stage \in {"search", "rerank"} =>
           reply = NoReply /\ text_answer = "none" /\ vision_answer = "none"
    /\ Reranked => Ranked

\* A model is asked only about chunks of its kind.
AnswerInv ==
    /\ text_answer \in {"none", "text", "empty"}
    /\ vision_answer \in {"none", "vision", "empty", "no sources"}
    /\ Reranked =>
          /\ text_answer # "none" => TextChunks(reranked) # {}
          /\ vision_answer # "none" => ImageChunks(reranked) # {}
          /\ vision_answer = "vision" => \E n \in DOMAIN reranked : reranked[n].kind = "image"
    /\ AnswerGrounded

PipeInv == RankInv /\ AnswerInv

LEMMA ListsAreDistinct ==
    ASSUME NEW S, S \subseteq Points, NEW n \in Nat, NEW s \in Lists(S, n)
    PROVE  s \in Seq(Points) /\ Distinct(s)
  <1>1. PICK k \in 0 .. n : s \in [1 .. k -> S]
    BY DEF Lists
  <1>2. s \in Seq(Points)
    BY <1>1
  <1>3. \A i, j \in DOMAIN s : i # j => s[i] # s[j]
    BY DEF Lists
  <1>4. QED
    BY <1>2, <1>3 DEF Distinct

LEMMA PipeStart == PipeInit => PipeInv
  <1> SUFFICES ASSUME PipeInit PROVE PipeInv
    OBVIOUS
  <1>1. Ready
    <2>1. retrieved = <<>> /\ config.top_k \in TopKs
      BY DEF PipeInit
    <2>2. retrieved \in Seq(Points) /\ Distinct(retrieved)
      BY <2>1 DEF Distinct
    <2>3. QED
      BY <2>1, <2>2, PipelineAssumption DEF Ready
  <1>2. stage = "search" /\ reply = NoReply /\ text_answer = "none" /\ vision_answer = "none"
    BY DEF PipeInit
  <1>3. QED
    BY <1>1, <1>2 DEF PipeInv, RankInv, AnswerInv, Reranked, AnswerGrounded

\* The steps that leave the list and the search alone.
LEMMA RankKept ==
    ASSUME RankInv, UNCHANGED <<config, retrieved, reply, reranked>>,
           Reranked' => Reranked,
           stage' \in {"generate", "score", "done", "error"}
    PROVE  RankInv'
  BY DEF RankInv, Reranked, Ready, Ranked, Outranks, Given, InReranked

LEMMA RankStep == RankInv /\ PipeNext => RankInv'
  <1> SUFFICES ASSUME RankInv, PipeNext PROVE RankInv'
    OBVIOUS
  <1>1. CASE Search \/ SearchNoSparse
    <2>1. /\ stage = "search" /\ stage' = "rerank"
          /\ UNCHANGED <<config, reply, text_answer, vision_answer>>
      BY <1>1 DEF Search, SearchNoSparse
    <2>2. retrieved' \in Seq(Points) /\ Distinct(retrieved')
      <3>1. CASE retrieved' = <<>>
        BY <3>1 DEF Distinct
      <3>2. CASE Search
        <4>1. retrieved' \in Lists({p \in Points : HasPayload(p)}, Limit)
          BY <3>2 DEF Search
        <4>2. QED
          BY <4>1, ListsAreDistinct, PipelineAssumption
      <3>3. QED
        BY <1>1, <3>1, <3>2 DEF SearchNoSparse
    <2>3. Ready'
      BY <2>1, <2>2 DEF RankInv, Ready, Distinct
    <2>4. QED
      BY <2>1, <2>3 DEF RankInv, Reranked
  <1>2. CASE Raise
    BY <1>2, RankKept DEF Raise, Reranked
  <1>3. CASE RerankNoop
    <2>1. /\ stage = "rerank" /\ stage' = "generate"
          /\ UNCHANGED <<config, retrieved, reply, text_answer, vision_answer>>
      BY <1>3 DEF RerankNoop
    <2>2. Ranked'
      BY <1>3, <2>1, NoopRanks DEF RankInv
    <2>3. QED
      BY <2>1, <2>2 DEF RankInv, Ready
  <1>4. CASE Rerank
    <2>1. /\ stage = "rerank" /\ stage' \in {"generate", "error"}
          /\ UNCHANGED <<config, retrieved, text_answer, vision_answer>>
      BY <1>4 DEF Rerank
    <2>2. stage' = "generate" => Ranked'
      BY <1>4, RerankRanks DEF RankInv
    <2>3. QED
      BY <2>1, <2>2 DEF RankInv, Ready, Reranked
  <1>5. CASE GenerateText \/ GenerateVision \/ Generate \/ ScoreItem
    BY <1>5, RankKept DEF GenerateText, GenerateVision, Generate, ScoreItem, Reranked
  <1>6. QED
    BY <1>1, <1>2, <1>3, <1>4, <1>5 DEF PipeNext

LEMMA NoChunks == TextChunks(<<>>) = {} /\ ImageChunks(<<>>) = {}
  <1>1. DOMAIN <<>> = {}
    OBVIOUS
  <1>2. QED
    BY <1>1 DEF TextChunks, ImageChunks

LEMMA AnswerStep == RankInv /\ AnswerInv /\ PipeNext => AnswerInv'
  <1> SUFFICES ASSUME RankInv, AnswerInv, PipeNext PROVE AnswerInv'
    OBVIOUS
  <1> USE DEF AnswerInv, Reranked, AnswerGrounded
  <1>1. CASE Search \/ SearchNoSparse \/ Raise
    BY <1>1 DEF Search, SearchNoSparse, Raise
  <1>2. CASE RerankNoop \/ Rerank
    BY <1>2 DEF RerankNoop, Rerank, RankInv
  <1>3. CASE GenerateText
    BY <1>3 DEF GenerateText
  <1>4. CASE GenerateVision
    <2>1. /\ stage = "generate" /\ stage' = stage
          /\ UNCHANGED <<reranked, text_answer, answer>> /\ ImageChunks(reranked) # {}
      BY <1>4 DEF GenerateVision
    <2>2. /\ vision_answer' \in {"vision", "empty", "no sources"}
          /\ vision_answer' = "vision" => \E n \in DOMAIN reranked : reranked[n].kind = "image"
      BY <1>4 DEF GenerateVision
    <2>3. QED
      BY <2>1, <2>2
  <1>5. CASE Generate
    <2>1. /\ stage = "generate" /\ stage' = "score"
          /\ UNCHANGED <<reranked, text_answer, vision_answer>>
      BY <1>5 DEF Generate
    <2>2. \/ Said(text_answer) /\ Said(vision_answer) /\ answer' \in {"fused", "empty"}
          \/ Said(text_answer) /\ ~ Said(vision_answer) /\ answer' = text_answer
          \/ ~ Said(text_answer) /\ Said(vision_answer) /\ answer' = vision_answer
          \/ ~ Said(text_answer) /\ ~ Said(vision_answer) /\ answer' = "no sources"
      <3>1. answer' \in CASE Said(text_answer) /\ Said(vision_answer) -> {"fused", "empty"}
                          [] Said(text_answer) /\ ~ Said(vision_answer) -> {text_answer}
                          [] ~ Said(text_answer) /\ Said(vision_answer) -> {vision_answer}
                          [] OTHER -> {"no sources"}
        BY <1>5 DEF Generate
      <3> HIDE DEF AnswerInv, AnswerGrounded, Reranked
      <3>2. CASE Said(text_answer) /\ Said(vision_answer)
        BY <3>1, <3>2
      <3>3. CASE Said(text_answer) /\ ~ Said(vision_answer)
        BY <3>1, <3>3
      <3>4. CASE ~ Said(text_answer) /\ Said(vision_answer)
        BY <3>1, <3>4
      <3>5. CASE ~ Said(text_answer) /\ ~ Said(vision_answer)
        BY <3>1, <3>5
      <3>6. QED
        BY <3>2, <3>3, <3>4, <3>5
    <2>3. reranked = <<>> => TextChunks(reranked) = {} /\ ImageChunks(reranked) = {}
      BY NoChunks
    <2>4. QED
      BY <2>1, <2>2, <2>3 DEF Said
  <1>6. CASE ScoreItem
    BY <1>6 DEF ScoreItem
  <1>7. QED
    BY <1>1, <1>2, <1>3, <1>4, <1>5, <1>6 DEF PipeNext

LEMMA PipeStutter == PipeInv /\ UNCHANGED pipeVars => PipeInv'
  <1> SUFFICES ASSUME PipeInv, UNCHANGED pipeVars PROVE PipeInv'
    OBVIOUS
  <1> USE DEF PipeInv, pipeVars, Reranked
  <1>1. Ready' /\ (Reranked => Ranked')
    BY DEF RankInv, Ready, Ranked, Outranks, Given, InReranked
  <1>2. RankInv'
    BY <1>1 DEF RankInv
  <1>3. AnswerInv'
    BY DEF AnswerInv, AnswerGrounded
  <1>4. QED
    BY <1>2, <1>3

\* What the pipeline knows at each stage, for any collection, scores, limit and top_k.
THEOREM PipelineInvariant == PipeSpec => []PipeInv
  <1>1. PipeInv /\ [PipeNext]_pipeVars => PipeInv'
    BY RankStep, AnswerStep, PipeStutter DEF PipeInv
  <1>2. QED
    BY <1>1, PipeStart, PTL DEF PipeSpec

\* Whatever the reranker replies, its list is the best of what was retrieved in the order
\* of the scores, ties in the order of the search, and no chunk is in it twice.
THEOREM RerankKeepsOrder == PipeSpec => []RerankOrder
  <1>1. PipeInv => RerankOrder
    BY DEF PipeInv, RankInv, Reranked, Ranked, RerankOrder
  <1>2. QED
    BY <1>1, PipelineInvariant, PTL

\* Every answer comes from chunks of the kind it needs, or says that nothing was found.
THEOREM AnswersAreGrounded == PipeSpec => []AnswerGrounded
  <1>1. PipeInv => AnswerGrounded
    BY DEF PipeInv, AnswerInv
  <1>2. QED
    BY <1>1, PipelineInvariant, PTL

-----------------------------------------------------------------------------
(* The gains of a list of ranks. *)

\* What holds of 0, and of a number up to Limit if it holds of the one before, holds of all.
LEMMA ByRank ==
    ASSUME NEW Good \in SUBSET (0 .. Limit), 0 \in Good,
           \A n \in 1 .. Limit : n - 1 \in Good => n \in Good
    PROVE  Good = 0 .. Limit
  BY Upwards, PipelineAssumption

Gained(R, n) == IF n \in R THEN Gain[n] ELSE 0

\* Gains satisfies its recursive definition.
LEMMA GainsDef ==
    ASSUME NEW R
    PROVE  Gains(R) = [n \in 0 .. Limit |->
                          IF n = 0 THEN 0 ELSE Gains(R)[n - 1] + Gained(R, n)]
  <1> DEFINE w == [n \in 1 .. Limit |-> Gained(R, n)]
  <1>0. Limit \in Nat /\ \A n \in 0 .. Limit : n = 0 \/ n \in 1 .. Limit
    BY PipelineAssumption
  <1>1. PICK g : Sums(g, w, Limit)
    BY <1>0, SumsExist
  <1>2. g = [n \in 0 .. Limit |-> IF n = 0 THEN 0 ELSE g[n - 1] + Gained(R, n)]
    BY <1>0, <1>1 DEF Sums
  <1>3. g = [n \in 0 .. Limit |-> IF n = 0 THEN 0 ELSE g[n - 1] + (IF n \in R THEN Gain[n] ELSE 0)]
    BY <1>2 DEF Gained
  <1>4. Gains(R) = [n \in 0 .. Limit |->
                       IF n = 0 THEN 0 ELSE Gains(R)[n - 1] + (IF n \in R THEN Gain[n] ELSE 0)]
    BY <1>3 DEF Gains
  <1> QED
    BY <1>4 DEF Gained

LEMMA GainsStep ==
    ASSUME NEW R
    PROVE  /\ Gains(R)[0] = 0
           /\ \A n \in 1 .. Limit : Gains(R)[n] = Gains(R)[n - 1] + Gained(R, n)
           /\ \A n \in 0 .. Limit : Gains(R)[n] \in Nat
  <1>1. PICK g : g = Gains(R)
    OBVIOUS
  <1>2. g = [n \in 0 .. Limit |-> IF n = 0 THEN 0 ELSE g[n - 1] + Gained(R, n)]
    BY <1>1, GainsDef
  <1>3. g[0] = 0 /\ \A n \in 1 .. Limit : g[n] = g[n - 1] + Gained(R, n)
    BY <1>2, PipelineAssumption
  <1>4. \A n \in 1 .. Limit : Gained(R, n) \in Nat
    BY PipelineAssumption DEF Gained
  <1>5. \A n \in 0 .. Limit : g[n] \in Nat
    <2> DEFINE Good == {n \in 0 .. Limit : g[n] \in Nat}
    <2>1. 0 \in Good
      BY <1>3, PipelineAssumption
    <2>2. \A n \in 1 .. Limit : n - 1 \in Good => n \in Good
      BY <1>3, <1>4, PipelineAssumption
    <2>3. Good = 0 .. Limit
      BY <2>1, <2>2, ByRank
    <2> QED
      BY <2>3
  <1> QED
    BY <1>1, <1>3, <1>5

\* Gains looks no further than its rank.
LEMMA SameGains ==
    ASSUME NEW R, NEW S, NEW N \in 0 .. Limit, \A n \in 1 .. N : n \in R <=> n \in S
    PROVE  Gains(R)[N] = Gains(S)[N]
  <1> DEFINE Good == {n \in 0 .. Limit : n <= N => Gains(R)[n] = Gains(S)[n]}
  <1>1. 0 \in Good
    BY GainsStep, PipelineAssumption
  <1>2. ASSUME NEW n \in 1 .. Limit, n - 1 \in Good PROVE n \in Good
    <2> SUFFICES ASSUME n <= N PROVE Gains(R)[n] = Gains(S)[n]
      BY PipelineAssumption
    <2>1. n \in 1 .. N /\ Gains(R)[n - 1] = Gains(S)[n - 1]
      BY <1>2, PipelineAssumption
    <2>2. Gained(R, n) = Gained(S, n)
      BY <2>1 DEF Gained
    <2> QED
      BY <2>1, <2>2, GainsStep
  <1> HIDE DEF Good
  <1>3. Good = 0 .. Limit
    <2>1. Good \subseteq 0 .. Limit
      BY DEF Good
    <2> QED
      BY <1>1, <1>2, <2>1, ByRank
  <1> QED
    BY <1>3, PipelineAssumption DEF Good

\* How many of the ranks up to n are in R.
RanksIn(R, n) == Cardinality(R \cap (1 .. n))

LEMMA CountStep ==
    ASSUME NEW R
    PROVE  /\ RanksIn(R, 0) = 0
           /\ \A n \in 1 .. Limit : RanksIn(R, n) = RanksIn(R, n - 1) + (IF n \in R THEN 1 ELSE 0)
           /\ \A n \in 0 .. Limit : RanksIn(R, n) \in Nat /\ RanksIn(R, n) <= n
  <1>1. ASSUME NEW n \in Nat PROVE IsFiniteSet(1 .. n) /\ Cardinality(1 .. n) = n
    BY FS_Interval
  <1>2. ASSUME NEW n \in Nat
        PROVE  /\ IsFiniteSet(R \cap (1 .. n))
               /\ RanksIn(R, n) \in Nat /\ RanksIn(R, n) <= n
    <2>1. R \cap (1 .. n) \in SUBSET (1 .. n)
      OBVIOUS
    <2>2. /\ IsFiniteSet(R \cap (1 .. n))
          /\ Cardinality(R \cap (1 .. n)) <= Cardinality(1 .. n)
      BY <1>1, <2>1, FS_Subset
    <2> QED
      BY <1>1, <2>2, FS_CardinalityType DEF RanksIn
  <1>3. RanksIn(R, 0) = 0
    <2>1. R \cap (1 .. 0) = {}
      OBVIOUS
    <2> QED
      BY <2>1, FS_EmptySet DEF RanksIn
  <1>4. ASSUME NEW n \in 1 .. Limit
        PROVE  RanksIn(R, n) = RanksIn(R, n - 1) + (IF n \in R THEN 1 ELSE 0)
    <2> DEFINE A == R \cap (1 .. (n - 1))
               B == R \cap (1 .. n)
    <2>1. n \in Nat /\ n - 1 \in Nat
      BY PipelineAssumption
    <2>2. IsFiniteSet(A)
      BY <1>2, <2>1
    <2>3. n \notin A
      BY <2>1
    <2>4. CASE n \in R
      <3>1. B = A \cup {n}
        BY <2>1, <2>4
      <3> HIDE DEF A, B
      <3>2. Cardinality(B) = Cardinality(A) + 1
        BY <2>2, <2>3, <3>1, FS_AddElement
      <3> QED
        BY <2>4, <3>2 DEF A, B, RanksIn
    <2>5. CASE n \notin R
      <3>1. B = A
        BY <2>1, <2>5
      <3>2. RanksIn(R, n - 1) \in Nat
        BY <1>2, <2>1
      <3> QED
        BY <2>5, <3>1, <3>2 DEF RanksIn
    <2> QED
      BY <2>4, <2>5
  <1>5. \A n \in 0 .. Limit : n \in Nat
    BY PipelineAssumption
  <1> QED
    BY <1>2, <1>3, <1>4, <1>5

\* A rank that is missing below n is missing in the count.
LEMMA CountGap ==
    ASSUME NEW R, NEW n \in Nat, NEW m \in 1 .. n, m \notin R
    PROVE  RanksIn(R, n) < n
  <1> DEFINE A == R \cap (1 .. n)
  <1>1. IsFiniteSet(1 .. n) /\ Cardinality(1 .. n) = n
    BY FS_Interval
  <1>2. A \in SUBSET (1 .. n) /\ A # 1 .. n
    OBVIOUS
  <1> HIDE DEF A
  <1>3. IsFiniteSet(A) /\ Cardinality(A) <= Cardinality(1 .. n)
        /\ Cardinality(A) # Cardinality(1 .. n)
    BY <1>1, <1>2, FS_Subset
  <1>4. Cardinality(A) \in Nat
    BY <1>3, FS_CardinalityType
  <1> QED
    BY <1>1, <1>3, <1>4 DEF A, RanksIn

\* The gains when every rank is relevant: what is the best for so many of them.
Best(n) == Gains(1 .. Limit)[n]

LEMMA BestStep ==
    /\ \A n \in 0 .. Limit : Best(n) \in Nat
    /\ \A n \in 1 .. Limit : Best(n) = Best(n - 1) + Gain[n]
  <1>1. \A n \in 1 .. Limit : Gained(1 .. Limit, n) = Gain[n]
    BY DEF Gained
  <1> QED
    BY <1>1, GainsStep DEF Best

LEMMA BestGrows ==
    ASSUME NEW m \in 0 .. Limit, NEW n \in 0 .. Limit, m < n
    PROVE  Best(m) < Best(n)
  <1> DEFINE Good == {j \in 0 .. Limit : m < j => Best(m) < Best(j)}
  <1>1. 0 \in Good
    BY PipelineAssumption
  <1>2. ASSUME NEW j \in 1 .. Limit, j - 1 \in Good PROVE j \in Good
    <2>1. j \in 0 .. Limit /\ j - 1 \in 0 .. Limit /\ (m < j => m = j - 1 \/ m < j - 1)
      BY PipelineAssumption
    <2>2. Gain[j] \in Nat \ {0} /\ Best(j) = Best(j - 1) + Gain[j]
      BY BestStep, PipelineAssumption
    <2>3. Best(m) \in Nat /\ Best(j - 1) \in Nat
      BY BestStep, <2>1
    <2> QED
      BY <1>2, <2>1, <2>2, <2>3
  <1> HIDE DEF Good
  <1>3. Good = 0 .. Limit
    <2>1. Good \subseteq 0 .. Limit
      BY DEF Good
    <2> QED
      BY <1>1, <1>2, <2>1, ByRank
  <1> QED
    BY <1>3 DEF Good

\* The relevant ranks gain no more than as many ranks from the first on.
LEMMA GainsAreBelow ==
    ASSUME NEW R, NEW N \in 0 .. Limit
    PROVE  Gains(R)[N] <= Best(RanksIn(R, N))
  <1> DEFINE Good == {n \in 0 .. Limit : Gains(R)[n] <= Best(RanksIn(R, n))}
  <1>1. 0 \in Good
    BY GainsStep, CountStep, BestStep, PipelineAssumption
  <1>2. ASSUME NEW n \in 1 .. Limit, n - 1 \in Good PROVE n \in Good
    <2>1. n - 1 \in 0 .. Limit /\ n \in 0 .. Limit
      BY PipelineAssumption
    <2> DEFINE c == RanksIn(R, n - 1)
    <2>2. /\ c \in 0 .. n - 1 /\ Gains(R)[n - 1] <= Best(c)
          /\ Gains(R)[n - 1] \in Nat /\ Best(c) \in Nat
      <3>1. c \in Nat /\ c <= n - 1
        BY <2>1, CountStep
      <3>2. c \in 0 .. n - 1 /\ c \in 0 .. Limit
        BY <2>1, <3>1, PipelineAssumption
      <3> QED
        BY <1>2, <2>1, <3>2, BestStep, GainsStep
    <2> HIDE DEF c
    <2>3. CASE n \in R
      <3>1. Gains(R)[n] = Gains(R)[n - 1] + Gain[n] /\ RanksIn(R, n) = c + 1
        BY <2>1, <2>3, GainsStep, CountStep DEF Gained, c
      <3>2. c + 1 \in 1 .. Limit /\ c + 1 <= n /\ (c + 1) - 1 = c
        BY <2>2, PipelineAssumption
      <3>3. Best(c + 1) = Best(c) + Gain[c + 1]
        BY <3>2, BestStep
      <3>4. Gain[n] \in Nat /\ Gain[c + 1] \in Nat /\ Gain[n] <= Gain[c + 1]
        BY <3>2, PipelineAssumption
      <3> QED
        BY <2>1, <2>2, <3>1, <3>3, <3>4
    <2>4. CASE n \notin R
      <3>1. Gained(R, n) = 0 /\ Gains(R)[n] = Gains(R)[n - 1]
        BY <2>2, <2>4, GainsStep DEF Gained
      <3>2. RanksIn(R, n) = c
        <4>1. RanksIn(R, n) = RanksIn(R, n - 1) + 0
          BY <2>4, CountStep
        <4>2. RanksIn(R, n - 1) \in Nat
          BY <2>1, CountStep
        <4> QED
          BY <4>1, <4>2 DEF c
      <3> QED
        BY <2>1, <2>2, <3>1, <3>2
    <2> QED
      BY <2>3, <2>4
  <1> HIDE DEF Good
  <1>3. Good = 0 .. Limit
    <2>1. Good \subseteq 0 .. Limit
      BY DEF Good
    <2> QED
      BY <1>1, <1>2, <2>1, ByRank
  <1> QED
    BY <1>3 DEF Good

\* They gain less once a rank was skipped before a relevant one.
LEMMA GainsAreLess ==
    ASSUME NEW R, NEW q \in 1 .. Limit, NEW p \in 1 .. Limit, p < q, p \notin R, q \in R,
           NEW N \in 0 .. Limit, q <= N
    PROVE  Gains(R)[N] < Best(RanksIn(R, N))
  <1> DEFINE Good == {n \in 0 .. Limit : q <= n => Gains(R)[n] < Best(RanksIn(R, n))}
  <1>1. 0 \in Good
    BY PipelineAssumption
  <1>2. ASSUME NEW n \in 1 .. Limit, n - 1 \in Good PROVE n \in Good
    <2>1. n - 1 \in 0 .. Limit /\ n \in 0 .. Limit
      BY PipelineAssumption
    <2> SUFFICES ASSUME q <= n PROVE Gains(R)[n] < Best(RanksIn(R, n))
      BY <2>1
    <2> DEFINE c == RanksIn(R, n - 1)
    <2>2. /\ c \in 0 .. n - 1 /\ Gains(R)[n - 1] <= Best(c)
          /\ Gains(R)[n - 1] \in Nat /\ Best(c) \in Nat
      <3>1. c \in Nat /\ c <= n - 1
        BY <2>1, CountStep
      <3>2. c \in 0 .. n - 1 /\ c \in 0 .. Limit
        BY <2>1, <3>1, PipelineAssumption
      <3> QED
        BY <2>1, <3>2, BestStep, GainsStep, GainsAreBelow
    <2>3. c < n - 1
      <3>1. p \in 1 .. n - 1 /\ n - 1 \in Nat
        BY PipelineAssumption
      <3> QED
        BY <3>1, CountGap
    <2>4. q # n => Gains(R)[n - 1] < Best(c)
      BY <1>2, <2>1, PipelineAssumption
    <2> HIDE DEF c
    <2>5. CASE n \in R
      <3>1. Gains(R)[n] = Gains(R)[n - 1] + Gain[n] /\ RanksIn(R, n) = c + 1
        BY <2>1, <2>5, GainsStep, CountStep DEF Gained, c
      <3>2. c + 1 \in 1 .. Limit /\ c + 1 < n /\ (c + 1) - 1 = c
        BY <2>2, <2>3, PipelineAssumption
      <3>3. Best(c + 1) = Best(c) + Gain[c + 1]
        BY <3>2, BestStep
      <3>4. Gain[n] \in Nat /\ Gain[c + 1] \in Nat /\ Gain[n] < Gain[c + 1]
        BY <3>2, PipelineAssumption
      <3> QED
        BY <2>2, <3>1, <3>3, <3>4
    <2>6. CASE n \notin R
      <3>1. Gained(R, n) = 0 /\ Gains(R)[n] = Gains(R)[n - 1]
        BY <2>2, <2>6, GainsStep DEF Gained
      <3>2. RanksIn(R, n) = c
        BY <2>2, <2>6, CountStep DEF c
      <3> QED
        BY <2>2, <2>4, <2>6, <3>1, <3>2
    <2> QED
      BY <2>5, <2>6
  <1> HIDE DEF Good
  <1>3. Good = 0 .. Limit
    <2>1. Good \subseteq 0 .. Limit
      BY DEF Good
    <2> QED
      BY <1>1, <1>2, <2>1, ByRank
  <1> QED
    BY <1>3 DEF Good

\* The ideal order of c relevant ranks gains the best of c ranks, or of all there are.
LEMMA IdealGains ==
    ASSUME NEW c \in 0 .. Limit, NEW N \in 0 .. Limit
    PROVE  Gains(1 .. c)[N] = Best(Smaller(N, c))
  <1> DEFINE Good == {n \in 0 .. Limit : Gains(1 .. c)[n] = Best(Smaller(n, c))}
  <1>1. 0 \in Good
    BY GainsStep, PipelineAssumption DEF Smaller, Best
  <1>2. ASSUME NEW n \in 1 .. Limit, n - 1 \in Good PROVE n \in Good
    <2>1. n - 1 \in 0 .. Limit /\ n \in 0 .. Limit /\ c \in Nat
      BY PipelineAssumption
    <2>2. /\ Gains(1 .. c)[n] = Gains(1 .. c)[n - 1] + Gained(1 .. c, n)
          /\ Gains(1 .. c)[n - 1] \in Nat
          /\ Gains(1 .. c)[n - 1] = Best(Smaller(n - 1, c))
      BY <1>2, <2>1, GainsStep
    <2>3. CASE n <= c
      <3>1. Gained(1 .. c, n) = Gain[n] /\ Smaller(n, c) = n /\ Smaller(n - 1, c) = n - 1
        BY <2>1, <2>3 DEF Gained, Smaller
      <3> QED
        BY <2>1, <2>2, <3>1, BestStep
    <2>4. CASE c < n
      <3>1. Gained(1 .. c, n) = 0 /\ Smaller(n, c) = c /\ Smaller(n - 1, c) = c
        BY <2>1, <2>4 DEF Gained, Smaller
      <3> QED
        BY <2>1, <2>2, <3>1
    <2> QED
      BY <2>1, <2>3, <2>4
  <1> HIDE DEF Good
  <1>3. Good = 0 .. Limit
    <2>1. Good \subseteq 0 .. Limit
      BY DEF Good
    <2> QED
      BY <1>1, <1>2, <2>1, ByRank
  <1> QED
    BY <1>3 DEF Good

\* Relevant ranks gain no more than the ideal order of them, and as much just when every
\* rank that counts is relevant or has no relevant rank after it.
LEMMA NoMoreThanIdeal ==
    ASSUME NEW R \in SUBSET (1 .. Limit), NEW N \in 0 .. Limit
    PROVE  LET ideal == Gains(1 .. Cardinality(R))[N]
           IN  /\ Gains(R)[N] <= ideal
               /\ Gains(R)[N] = ideal <=>
                     \A m \in 1 .. N : \A n \in R : m < n => m \in R
  <1> DEFINE c == Cardinality(R)
             closed == \A m \in 1 .. N : \A n \in R : m < n => m \in R
  <1>1. /\ IsFiniteSet(1 .. Limit) /\ Cardinality(1 .. Limit) = Limit
        /\ IsFiniteSet(1 .. N) /\ Cardinality(1 .. N) = N /\ N \in Nat
    <2>1. ASSUME NEW n \in Nat PROVE IsFiniteSet(1 .. n) /\ Cardinality(1 .. n) = n
      BY FS_Interval
    <2>2. Limit \in Nat /\ N \in Nat
      BY PipelineAssumption
    <2> QED
      BY <2>1, <2>2
  <1>2. IsFiniteSet(R) /\ c \in 0 .. Limit
    <2>1. IsFiniteSet(R) /\ Cardinality(R) <= Cardinality(1 .. Limit)
      BY <1>1, FS_Subset
    <2>2. Cardinality(R) \in Nat
      BY <2>1, FS_CardinalityType
    <2> QED
      BY <1>1, <2>1, <2>2, PipelineAssumption
  <1>3. /\ RanksIn(R, N) \in Nat /\ RanksIn(R, N) <= N /\ RanksIn(R, N) <= c
        /\ (\E n \in R : n > N) => RanksIn(R, N) < c
    <2> DEFINE A == R \cap (1 .. N)
    <2>1. A \in SUBSET R /\ ((\E n \in R : n > N) => A # R)
      BY <1>1
    <2> HIDE DEF A
    <2>2. /\ IsFiniteSet(A) /\ Cardinality(A) <= Cardinality(R)
          /\ Cardinality(A) = Cardinality(R) => A = R
      BY <1>2, <2>1, FS_Subset
    <2>3. Cardinality(A) \in Nat
      BY <2>2, FS_CardinalityType
    <2>4. Cardinality(A) = RanksIn(R, N)
      BY DEF A, RanksIn
    <2>5. RanksIn(R, N) <= N
      BY CountStep
    <2> QED
      BY <1>2, <2>1, <2>2, <2>3, <2>4, <2>5
  <1> HIDE DEF c
  <1> DEFINE low == Smaller(N, c)
             r == RanksIn(R, N)
             g == Gains(R)[N]
             ideal == Gains(1 .. c)[N]
  <1>4. ideal = Best(low)
    BY <1>2, IdealGains
  <1>5. low \in 0 .. Limit /\ r \in 0 .. Limit /\ r <= low
    BY <1>1, <1>2, <1>3, PipelineAssumption DEF Smaller
  <1>6. r < low => Best(r) < Best(low)
    BY <1>5, BestGrows
  <1>7. g \in Nat /\ Best(r) \in Nat /\ Best(low) \in Nat /\ g <= Best(r)
    BY <1>5, GainsStep, BestStep, GainsAreBelow
  <1>8. g <= ideal /\ (g = ideal => r = low /\ g = Best(r))
    <2> HIDE DEF low, r, g, ideal
    <2>1. r \in Int /\ low \in Int
      BY <1>5
    <2>2. r = low \/ r < low
      BY <1>5, <2>1
    <2> QED
      BY <1>4, <1>6, <1>7, <2>2
  <1>9. ASSUME g = ideal PROVE closed
    <2> SUFFICES ASSUME NEW m \in 1 .. N, NEW n \in R, m < n, m \notin R PROVE FALSE
      OBVIOUS
    <2>1. n \in Nat /\ m \in 1 .. Limit /\ n \in 1 .. Limit
      BY PipelineAssumption
    <2>2. CASE n <= N
      <3>1. g < Best(r)
        BY <2>1, <2>2, GainsAreLess
      <3> HIDE DEF g, r, ideal, low
      <3> QED
        BY <1>7, <1>8, <1>9, <3>1
    <2>3. CASE n > N
      <3>1. r < c
        BY <1>3, <2>3
      <3>2. r < N
        BY <1>1, CountGap
      <3>3. r < low
        BY <3>1, <3>2 DEF Smaller
      <3> HIDE DEF g, r, ideal, low
      <3> QED
        BY <1>5, <1>8, <1>9, <3>3
    <2> QED
      BY <1>1, <2>1, <2>2, <2>3
  <1>10. ASSUME closed PROVE g = ideal
    <2>1. CASE 1 .. N \subseteq R
      <3>1. N <= c
        <4>1. 1 .. N \in SUBSET R
          BY <2>1
        <4> QED
          BY <1>1, <1>2, <4>1, FS_Subset DEF c
      <3>2. \A n \in 1 .. N : n \in R <=> n \in 1 .. c
        BY <1>1, <1>2, <2>1, <3>1
      <3> QED
        BY <3>2, SameGains
    <2>2. CASE ~ (1 .. N \subseteq R)
      <3> DEFINE Gaps == (1 .. N) \ R
      <3>1. Gaps \in SUBSET Nat /\ Gaps # {}
        BY <2>2
      <3> HIDE DEF Gaps
      <3>2. PICK m \in Gaps : \A n \in Gaps : m <= n
        BY <3>1, NatMinimum
      <3>3. m \in 1 .. N /\ m \notin R /\ m - 1 \in Nat
        BY <1>1, <3>2 DEF Gaps
      <3>4. ASSUME NEW n \in 1 .. m - 1 PROVE n \in R
        BY <1>1, <3>2, <3>3 DEF Gaps
      <3>5. ASSUME NEW n \in R PROVE n \in 1 .. m - 1
        <4>1. ~ (m < n) /\ n # m
          BY <1>10, <3>3
        <4> QED
          BY <1>1, <3>3, <4>1, PipelineAssumption
      <3>6. R = 1 .. m - 1
        BY <3>4, <3>5
      <3>7. Cardinality(R) = m - 1
        BY <3>3, <3>6, FS_Interval
      <3>8. R = 1 .. c
        BY <3>6, <3>7 DEF c
      <3> QED
        BY <3>8
    <2> QED
      BY <2>1, <2>2
  <1> QED
    BY <1>8, <1>9, <1>10 DEF c

\* Something is gained just when a rank that counts is relevant.
LEMMA GainsAreSome ==
    ASSUME NEW R, NEW N \in 0 .. Limit
    PROVE  Gains(R)[N] > 0 <=> \E n \in 1 .. N : n \in R
  <1>1. ASSUME \A n \in 1 .. N : n \notin R PROVE Gains(R)[N] = 0
    <2>1. R \cap (1 .. N) = {}
      BY <1>1
    <2>2. RanksIn(R, N) = 0
      BY <2>1, FS_EmptySet DEF RanksIn
    <2>3. Best(0) = 0 /\ Gains(R)[N] \in Nat
      BY GainsStep DEF Best
    <2> QED
      BY <2>2, <2>3, GainsAreBelow
  <1> DEFINE Good == {n \in 0 .. Limit : (\E j \in 1 .. n : j \in R) => Gains(R)[n] > 0}
  <1>2. 0 \in Good
    BY PipelineAssumption
  <1>3. ASSUME NEW n \in 1 .. Limit, n - 1 \in Good PROVE n \in Good
    <2> SUFFICES ASSUME \E j \in 1 .. n : j \in R PROVE Gains(R)[n] > 0
      BY PipelineAssumption
    <2>1. n - 1 \in 0 .. Limit /\ n \in Nat
      BY PipelineAssumption
    <2>2. Gains(R)[n - 1] \in Nat /\ Gains(R)[n] = Gains(R)[n - 1] + Gained(R, n)
      BY <2>1, GainsStep
    <2>3. CASE n \in R
      <3>1. Gained(R, n) \in Nat \ {0}
        BY <2>3, PipelineAssumption DEF Gained
      <3> QED
        BY <2>2, <3>1
    <2>4. CASE n \notin R
      <3>1. \E j \in 1 .. n - 1 : j \in R
        BY <2>1, <2>4
      <3>2. Gained(R, n) = 0 /\ Gains(R)[n - 1] > 0
        BY <1>3, <2>4, <3>1 DEF Gained
      <3> QED
        BY <2>2, <3>2
    <2> QED
      BY <2>3, <2>4
  <1> HIDE DEF Good
  <1>4. Good = 0 .. Limit
    <2>1. Good \subseteq 0 .. Limit
      BY DEF Good
    <2> QED
      BY <1>2, <1>3, <2>1, ByRank
  <1>5. (\E n \in 1 .. N : n \in R) => Gains(R)[N] > 0
    BY <1>4 DEF Good
  <1> QED
    BY <1>1, <1>5

\* The ideal order gains something once a rank is relevant and one counts.
LEMMA IdealIsSome ==
    ASSUME NEW R \in SUBSET (1 .. Limit), NEW N \in 0 .. Limit, R # {} => N > 0
    PROVE  Gains(1 .. Cardinality(R))[N] > 0 <=> R # {}
  <1>1. IsFiniteSet(R)
    <2>1. IsFiniteSet(1 .. Limit)
      BY FS_Interval, PipelineAssumption
    <2> QED
      BY <2>1, FS_Subset
  <1>2. PICK c \in Nat : c = Cardinality(R) /\ (c = 0 <=> R = {})
    BY <1>1, FS_CardinalityType, FS_EmptySet
  <1>3. (\E n \in 1 .. N : n \in 1 .. c) <=> c > 0
    <2>1. N \in Nat
      BY PipelineAssumption
    <2>2. ASSUME c > 0 PROVE 1 \in 1 .. N /\ 1 \in 1 .. c
      BY <1>2, <2>1, <2>2
    <2> QED
      BY <2>2
  <1>4. Gains(1 .. c)[N] > 0 <=> c > 0
    BY <1>3, GainsAreSome
  <1>5. Gains(1 .. c) = Gains(1 .. Cardinality(R))
    BY <1>2, Zenon
  <1>6. c # 0 <=> R # {}
    BY <1>2, Zenon
  <1>7. c > 0 <=> c # 0
    OBVIOUS
  <1> QED
    BY <1>4, <1>5, <1>6, <1>7, Zenon

-----------------------------------------------------------------------------
(* The metrics of one list. *)

\* A list of chunks no longer than the search allows.
Listed(s) == s \in Seq(Points) /\ Len(s) <= Limit

LEMMA TopOfList ==
    ASSUME NEW s, Listed(s), NEW k \in Nat \ {0}
    PROVE  /\ Len(s) \in 0 .. Limit /\ DOMAIN s = 1 .. Len(s)
           /\ Len(Top(s, k)) = Smaller(k, Len(s)) /\ Len(Top(s, k)) \in 0 .. Limit
           /\ DOMAIN Top(s, k) = {n \in DOMAIN s : n <= k}
  <1>1. Len(s) \in 0 .. Limit /\ DOMAIN s = 1 .. Len(s)
    BY PipelineAssumption DEF Listed
  <1>2. PICK l \in Nat : l = Len(s) /\ l <= Limit
    <2>1. Len(s) \in Nat /\ Len(s) <= Limit
      BY DEF Listed
    <2> QED
      BY <2>1
  <1>3. PICK j \in Nat : j = Smaller(k, l) /\ j <= l /\ j <= k /\ (j = k \/ j = l)
    BY DEF Smaller
  <1>4. Top(s, k) = SubSeq(s, 1, j)
    BY <1>2, <1>3 DEF Top
  <1>5. s \in Seq(Points)
    BY DEF Listed
  <1>6. Len(Top(s, k)) = j /\ DOMAIN Top(s, k) = 1 .. j
    BY <1>2, <1>3, <1>4, <1>5
  <1>7. 1 .. j = {n \in 1 .. l : n <= k}
    BY <1>3
  <1>8. j \in 0 .. Limit
    BY <1>2, <1>3, PipelineAssumption
  <1> QED
    BY <1>1, <1>2, <1>3, <1>6, <1>7, <1>8

\* hit, recall, precision and mrr see the same chunks.
LEMMA HitsAgree ==
    ASSUME NEW s, Listed(s), NEW k \in Nat \ {0}, NEW e \in SUBSET Expected
    PROVE  /\ HitAt(s, e, k) <=> RecallAt(s, e, k) > 0
           /\ HitAt(s, e, k) <=> PrecisionAt(s, e, k) > 0
           /\ HitAt(s, e, k) <=> FirstRank(s, e) \in 1 .. k
  <1> DEFINE T == DOMAIN Top(s, k)
             D == DOMAIN s
             found == {x \in e : \E n \in T : Relevant(s[n], {x})}
             right == {n \in T : Relevant(s[n], e)}
             hits == RelevantRanks(s, e)
  <1>1. D = 1 .. Len(s) /\ Len(s) \in Nat /\ T = {n \in D : n <= k} /\ IsFiniteSet(D)
    <2>1. /\ D = 1 .. Len(s) /\ Len(s) \in 0 .. Limit /\ T = {n \in D : n <= k}
      BY TopOfList
    <2>2. Len(s) \in Nat
      BY <2>1, PipelineAssumption
    <2>3. IsFiniteSet(1 .. Len(s))
      BY <2>2, FS_Interval
    <2> QED
      BY <2>1, <2>2, <2>3
  <1> HIDE DEF T, D
  <1>2. HitAt(s, e, k) <=> right # {}
    BY DEF HitAt, T
  <1>3. HitAt(s, e, k) <=> found # {}
    BY DEF HitAt, T, Relevant
  <1>4. ASSUME NEW S, IsFiniteSet(S) PROVE S # {} <=> Cardinality(S) > 0
    <2>1. Cardinality(S) \in Nat /\ (Cardinality(S) = 0 <=> S = {})
      BY <1>4, FS_EmptySet, FS_CardinalityType
    <2> QED
      BY <2>1
  <1>5. IsFiniteSet(found)
    <2>1. found \in SUBSET Expected
      OBVIOUS
    <2> QED
      BY <2>1, PipelineAssumption, FS_Subset
  <1>6. IsFiniteSet(right)
    <2>1. right \in SUBSET D
      BY <1>1
    <2> QED
      BY <1>1, <2>1, FS_Subset
  <1>7. hits = {n \in D : Relevant(s[n], e)}
    BY DEF RelevantRanks, D
  <1>8. HitAt(s, e, k) <=> FirstRank(s, e) \in 1 .. k
    <2>1. CASE hits = {}
      <3>1. FirstRank(s, e) = 0 /\ right = {}
        BY <1>1, <1>7, <2>1 DEF FirstRank
      <3> QED
        BY <1>2, <3>1
    <2>2. CASE hits # {}
      <3> DEFINE first == FirstRank(s, e)
      <3>1. hits \in SUBSET Nat
        BY <1>1, <1>7
      <3>2. \E n \in hits : \A m \in hits : n <= m
        BY <2>2, <3>1, NatMinimum
      <3>3. first = CHOOSE n \in hits : \A m \in hits : n <= m
        BY <2>2 DEF FirstRank
      <3> HIDE DEF hits, first
      <3>4. first \in hits /\ \A m \in hits : first <= m
        BY <3>2, <3>3
      <3>5. first \in D /\ first \in Nat /\ first >= 1 /\ Relevant(s[first], e)
        BY <1>1, <1>7, <3>4
      <3>6. ASSUME first <= k PROVE right # {}
        BY <1>1, <3>5, <3>6
      <3>7. ASSUME NEW n \in right PROVE first <= k
        <4>1. n \in hits /\ n \in Nat /\ n <= k
          BY <1>1, <1>7
        <4> QED
          BY <3>4, <3>5, <4>1
      <3> QED
        BY <1>2, <3>5, <3>6, <3>7 DEF first
    <2> QED
      BY <2>1, <2>2
  <1> QED
    BY <1>2, <1>3, <1>4, <1>5, <1>6, <1>8 DEF RecallAt, PrecisionAt, T

\* ndcg is at most 1, 0 just without a hit at k, and 1 just when the list has relevant
\* chunks and none of them may be moved up.
LEMMA NdcgAgrees ==
    ASSUME NEW s, Listed(s), NEW k \in Nat \ {0}, NEW e
    PROVE  /\ Ndcg(s, e, k)[1] \in 0 .. Ndcg(s, e, k)[2]
           /\ Ndcg(s, e, k)[1] = 0 <=> ~ HitAt(s, e, k)
           /\ Ndcg(s, e, k)[1] = Ndcg(s, e, k)[2] <=>
                 /\ RelevantRanks(s, e) # {}
                 /\ \A m, n \in DOMAIN s :
                       m < n /\ m <= k /\ Relevant(s[n], e) => Relevant(s[m], e)
  <1> DEFINE R == RelevantRanks(s, e)
             N == Len(Top(s, k))
             best == \A m, n \in DOMAIN s :
                        m < n /\ m <= k /\ Relevant(s[n], e) => Relevant(s[m], e)
             closed == \A m \in 1 .. N : \A n \in R : m < n => m \in R
             dcg == Gains(R)[N]
             ideal == Gains(1 .. Cardinality(R))[N]
  <1>1. /\ Len(s) \in 0 .. Limit /\ DOMAIN s = 1 .. Len(s)
        /\ N = Smaller(k, Len(s)) /\ N \in 0 .. Limit
        /\ DOMAIN Top(s, k) = {n \in DOMAIN s : n <= k}
    BY TopOfList
  <1>2. R \in SUBSET (1 .. Limit) /\ \A n : n \in R <=> n \in 1 .. Len(s) /\ Relevant(s[n], e)
    BY <1>1, PipelineAssumption DEF RelevantRanks
  <1>3. Dcg(s, e, k) = dcg /\ IdealDcg(s, e, k) = ideal
    BY DEF Dcg, IdealDcg
  <1>4. HitAt(s, e, k) <=> \E n \in DOMAIN s : n <= k /\ Relevant(s[n], e)
    BY <1>1 DEF HitAt
  <1> HIDE DEF R, N
  <1>5. /\ Len(s) \in Nat /\ N \in Nat /\ N <= Len(s)
        /\ \A m \in 1 .. Len(s) : m \in 1 .. N <=> m <= k
    <2>1. Len(s) \in Nat
      BY <1>1, PipelineAssumption
    <2>2. PICK l \in Nat : l = Len(s)
      BY <2>1
    <2>3. N = Smaller(k, l)
      BY <1>1, <2>2
    <2>4. N \in Nat /\ N <= l /\ N <= k /\ (N = k \/ N = l)
      BY <2>3 DEF Smaller
    <2> QED
      BY <2>2, <2>4
  <1>6. dcg <= ideal /\ (dcg = ideal <=> closed)
    BY <1>1, <1>2, NoMoreThanIdeal
  <1>7. closed <=> best
    <2>1. ASSUME closed, NEW m \in DOMAIN s, NEW n \in DOMAIN s, m < n, m <= k, Relevant(s[n], e)
          PROVE  Relevant(s[m], e)
      <3>1. m \in 1 .. N /\ n \in R
        BY <1>1, <1>2, <1>5, <2>1
      <3> QED
        BY <1>2, <2>1, <3>1
    <2>2. ASSUME best PROVE closed
      <3> SUFFICES ASSUME NEW m \in 1 .. N, NEW n \in R, m < n PROVE m \in R
        OBVIOUS
      <3>1. m \in 1 .. Len(s) /\ m <= k /\ n \in 1 .. Len(s) /\ Relevant(s[n], e)
        BY <1>2, <1>5
      <3> QED
        BY <1>1, <1>2, <2>2, <3>1
    <2> QED
      BY <2>1, <2>2
  <1>8. ideal > 0 <=> R # {}
    <2>1. R # {} => N > 0
      <3>1. ASSUME NEW n \in R PROVE 1 \in 1 .. Len(s) /\ 1 <= k
        BY <1>2, <1>5
      <3> QED
        BY <1>5, <3>1
    <2> QED
      BY <1>1, <1>2, <2>1, IdealIsSome
  <1>9. dcg > 0 <=> HitAt(s, e, k)
    <2>1. (\E n \in 1 .. N : n \in R) <=> HitAt(s, e, k)
      BY <1>1, <1>2, <1>4, <1>5
    <2> QED
      BY <1>1, <2>1, GainsAreSome
  <1>10. dcg \in Nat /\ ideal \in Nat
    BY <1>1, GainsStep
  <1> HIDE DEF dcg, ideal, closed, best
  <1>11. CASE ideal > 0
    <2>1. Ndcg(s, e, k)[1] = dcg /\ Ndcg(s, e, k)[2] = ideal
      BY <1>3, <1>11 DEF Ndcg
    <2> QED
      BY <1>6, <1>7, <1>8, <1>9, <1>10, <1>11, <2>1 DEF R, best
  <1>12. CASE ~ (ideal > 0)
    <2>1. Ndcg(s, e, k)[1] = 0 /\ Ndcg(s, e, k)[2] = 1
      BY <1>3, <1>12 DEF Ndcg
    <2>2. ~ (dcg > 0)
      BY <1>6, <1>10, <1>12
    <2> QED
      BY <1>8, <1>9, <1>12, <2>1, <2>2 DEF R
  <1> QED
    BY <1>11, <1>12

\* A list that no reranker touched has its pairs in the order of the search.
LEMMA NothingReordered ==
    ASSUME Ranked, Distinct(retrieved), Listed(retrieved), Listed(reranked), reply = NoReply
    PROVE  IF Len(reranked) < 2 THEN Tau(retrieved, reranked) = NoTau
           ELSE /\ Tau(retrieved, reranked) # NoTau
                /\ Tau(retrieved, reranked)[1] = Tau(retrieved, reranked)[2]
  <1>1. /\ DOMAIN retrieved = 1 .. Len(retrieved) /\ Len(retrieved) \in Nat
        /\ DOMAIN reranked = 1 .. Len(reranked) /\ Len(reranked) \in Nat
        /\ \A i \in DOMAIN retrieved : retrieved[i] \in Points
    BY DEF Listed
  <1>2. \A i, j \in DOMAIN retrieved : retrieved[i].id = retrieved[j].id => i = j
    BY <1>1, PipelineAssumption DEF Distinct
  <1>3. ASSUME NEW i \in DOMAIN retrieved PROVE Position(retrieved[i], retrieved) = i
    BY <1>2 DEF Position
  <1>4. ASSUME NEW n \in DOMAIN reranked PROVE Position(reranked[n], reranked) = n
    BY DEF Position, Ranked
  <1>5. ASSUME NEW m \in DOMAIN reranked, NEW n \in DOMAIN reranked, m < n
        PROVE  /\ Position(reranked[m], retrieved) < Position(reranked[n], retrieved)
               /\ ~ (Position(reranked[m], retrieved) > Position(reranked[n], retrieved))
    <2>1. PICK i \in DOMAIN retrieved : reranked[m] = retrieved[i]
      BY DEF Ranked
    <2>2. PICK j \in DOMAIN retrieved : reranked[n] = retrieved[j]
      BY DEF Ranked
    <2>3. i \in Int /\ j \in Int /\ m \in Int /\ n \in Int
      BY <1>1
    <2>4. i # j
      BY <1>4, <1>5, <2>1, <2>2, <2>3
    <2>5. ~ (j < i)
      <3> SUFFICES ASSUME j < i PROVE FALSE
        OBVIOUS
      <3>1. Outranks(j, i) /\ InReranked(retrieved[i])
        BY <2>1 DEF Outranks, InReranked
      <3>2. Position(retrieved[j], reranked) < Position(retrieved[i], reranked)
        BY <3>1 DEF Ranked
      <3> QED
        BY <1>4, <1>5, <2>1, <2>2, <2>3, <3>2
    <2> QED
      BY <1>3, <2>1, <2>2, <2>3, <2>4, <2>5
  <1> DEFINE D == DOMAIN reranked
             L == Len(reranked)
             P == Pairs(D)
  <1>6. Shared(retrieved, reranked) = D
    BY DEF Shared, Ranked
  <1>7. IsFiniteSet(D) /\ Cardinality(D) = L
    <2>1. \A n \in Nat : IsFiniteSet(1 .. n) /\ Cardinality(1 .. n) = n
      BY FS_Interval
    <2> QED
      BY <1>1, <2>1
  <1>8. \A q \in P : q[1] \in D /\ q[2] \in D /\ q[1] < q[2]
    BY DEF Pairs
  <1>9. Concordant(retrieved, reranked) = P
    BY <1>5, <1>6, <1>8 DEF Concordant
  <1>10. Discordant(retrieved, reranked) = {}
    BY <1>5, <1>6, <1>8 DEF Discordant
  <1>11. Cardinality({}) = 0
    BY FS_EmptySet
  <1>12. CASE L < 2
    BY <1>6, <1>7, <1>12 DEF Tau
  <1>13. CASE ~ (L < 2)
    <2>1. <<1, 2>> \in P
      BY <1>1, <1>13 DEF Pairs
    <2>2. IsFiniteSet(P)
      <3>1. IsFiniteSet(D \X D)
        BY <1>7, FS_Product
      <3>2. P \in SUBSET (D \X D)
        BY DEF Pairs
      <3> QED
        BY <3>1, <3>2, FS_Subset
    <2> HIDE DEF P
    <2>3. PICK c \in Nat : c = Cardinality(P) /\ c # 0
      BY <2>1, <2>2, FS_CardinalityType, FS_EmptySet
    <2>4. Tau(retrieved, reranked) = <<c - 0, c + 0>>
      BY <1>6, <1>7, <1>9, <1>10, <1>11, <1>13, <2>3 DEF Tau
    <2>5. Tau(retrieved, reranked) = <<c, c>>
      BY <2>4
    <2> QED
      BY <1>13, <2>5 DEF NoTau
  <1> QED
    BY <1>12, <1>13

\* The lists stay such lists, and an item expects what a golden item may.
MetricInv == Listed(retrieved) /\ Listed(reranked) /\ expected \in SUBSET Expected

LEMMA TopIsListed ==
    ASSUME NEW s, Listed(s), NEW k \in Nat
    PROVE  Listed(Top(s, k))
  <1>1. s \in Seq(Points) /\ Len(s) \in Nat /\ Len(s) <= Limit
    BY DEF Listed
  <1>2. PICK l \in Nat : l = Len(s)
    BY <1>1
  <1>3. PICK j \in Nat : j = Smaller(k, l) /\ j <= l
    BY DEF Smaller
  <1>4. Top(s, k) = SubSeq(s, 1, j)
    BY <1>2, <1>3 DEF Top
  <1>5. Top(s, k) \in Seq(Points) /\ Len(Top(s, k)) = j
    BY <1>1, <1>2, <1>3, <1>4
  <1>6. j <= Limit
    BY <1>1, <1>2, <1>3, PipelineAssumption
  <1>7. QED
    BY <1>5, <1>6 DEF Listed

LEMMA SortedIsListed ==
    ASSUME Ready, Listed(retrieved), NEW r, Scored(r)
    PROVE  Listed(Sorted(r))
  <1> DEFINE D == DOMAIN retrieved
             s == Sorted(r)
  <1>1. /\ Len(retrieved) \in Nat /\ Len(retrieved) <= Limit /\ D = 1 .. Len(retrieved)
        /\ \A i \in D : retrieved[i] \in Points
    BY DEF Listed
  <1>2. \A n \in D : \E i \in D : Place(r, i) = n
    BY PlacesAreTaken
  <1>3. s = [n \in D |-> retrieved[CHOOSE i \in D : Place(r, i) = n]]
    BY DEF Sorted
  <1> HIDE DEF s
  <1>4. \A n \in D : (CHOOSE i \in D : Place(r, i) = n) \in D
    BY <1>2
  <1>5. s \in [1 .. Len(retrieved) -> Points]
    BY <1>1, <1>3, <1>4
  <1>6. s \in Seq(Points) /\ Len(s) = Len(retrieved)
    BY <1>1, <1>5
  <1>7. QED
    BY <1>1, <1>6 DEF Listed, s

LEMMA MetricStart == PipeInit => MetricInv
  <1> SUFFICES ASSUME PipeInit PROVE MetricInv
    OBVIOUS
  <1>1. retrieved = <<>> /\ reranked = <<>> /\ expected = {}
    BY DEF PipeInit
  <1>2. <<>> \in Seq(Points) /\ Len(<<>>) = 0 /\ 0 <= Limit
    BY PipelineAssumption
  <1>3. QED
    BY <1>1, <1>2 DEF MetricInv, Listed

LEMMA MetricStep == RankInv /\ MetricInv /\ PipeNext => MetricInv'
  <1> SUFFICES ASSUME RankInv, MetricInv, PipeNext PROVE MetricInv'
    OBVIOUS
  <1> USE DEF MetricInv
  <1>1. CASE Search \/ SearchNoSparse
    <2>1. UNCHANGED <<reranked, expected>>
      BY <1>1 DEF Search, SearchNoSparse
    <2>2. retrieved' \in Seq(Points) /\ Len(retrieved') <= Limit
      <3>1. CASE retrieved' = <<>>
        BY <3>1, PipelineAssumption
      <3>2. CASE Search
        <4>1. PICK k \in 0 .. Limit : retrieved' \in [1 .. k -> {p \in Points : HasPayload(p)}]
          BY <3>2 DEF Search, Lists
        <4>2. k \in Nat /\ k <= Limit
          BY PipelineAssumption
        <4>3. retrieved' \in [1 .. k -> Points]
          BY <4>1
        <4>4. QED
          BY <4>2, <4>3
      <3>3. QED
        BY <1>1, <3>1, <3>2 DEF SearchNoSparse
    <2>3. QED
      BY <2>1, <2>2 DEF Listed
  <1>2. CASE RerankNoop
    <2>1. /\ UNCHANGED <<retrieved, expected>>
          /\ reranked' = Top(retrieved, config.top_k)
      BY <1>2 DEF RerankNoop
    <2>2. config.top_k \in Nat
      BY DEF RankInv, Ready
    <2>3. QED
      BY <2>1, <2>2, TopIsListed DEF Listed
  <1>3. CASE Rerank
    <2>1. UNCHANGED <<retrieved, expected>>
      BY <1>3 DEF Rerank
    <2>2. CASE Parsed(reply')
      <3>1. reply' \in Replies /\ reranked' = Top(Sorted(reply'), config.top_k)
        BY <1>3, <2>2 DEF Rerank
      <3>2. PICK r \in Replies : r = reply' /\ Parsed(r)
        BY <2>2, <3>1
      <3>3. Ready /\ config.top_k \in Nat
        BY DEF RankInv, Ready
      <3>4. Listed(Sorted(r))
        BY <3>2, <3>3, ReplyScored, SortedIsListed
      <3>5. Listed(Top(Sorted(r), config.top_k))
        BY <3>3, <3>4, TopIsListed
      <3>6. QED
        BY <2>1, <3>1, <3>2, <3>5 DEF Listed
    <2>3. CASE ~ Parsed(reply')
      BY <1>3, <2>1, <2>3 DEF Rerank, Listed
    <2>4. QED
      BY <2>2, <2>3
  <1>4. CASE Raise \/ GenerateText \/ GenerateVision \/ Generate
    BY <1>4 DEF Raise, GenerateText, GenerateVision, Generate, Listed
  <1>5. CASE ScoreItem
    BY <1>5 DEF ScoreItem, Listed
  <1>6. QED
    BY <1>1, <1>2, <1>3, <1>4, <1>5 DEF PipeNext

\* The metrics of every golden item agree with each other, for any lists, k and gains that
\* fall with the rank: ndcg is at most 1, 0 just without a hit, and 1 just when there are
\* relevant chunks and their order is as good as it can be; tau is 1, or None, if nothing
\* was reordered.
THEOREM MetricsAreConsistent == PipeSpec => []MetricsAgree
  <1>1. RankInv /\ MetricInv => MetricsAgree
    <2> SUFFICES ASSUME RankInv, MetricInv, stage = "done",
                        NEW s \in {retrieved, reranked}, NEW k \in KValues
                 PROVE  /\ HitAt(s, expected, k) <=> RecallAt(s, expected, k) > 0
                        /\ HitAt(s, expected, k) <=> PrecisionAt(s, expected, k) > 0
                        /\ HitAt(s, expected, k) <=> FirstRank(s, expected) \in 1..k
                        /\ Ndcg(s, expected, k)[1] \in 0 .. Ndcg(s, expected, k)[2]
                        /\ Ndcg(s, expected, k)[1] = 0 <=> ~ HitAt(s, expected, k)
                        /\ Ndcg(s, expected, k)[1] = Ndcg(s, expected, k)[2] <=>
                              /\ RelevantRanks(s, expected) # {}
                              /\ \A m, n \in DOMAIN s :
                                    m < n /\ m <= k /\ Relevant(s[n], expected)
                                    => Relevant(s[m], expected)
                        /\ reply = NoReply =>
                              IF Len(reranked) < 2 THEN Tau(retrieved, reranked) = NoTau
                              ELSE /\ Tau(retrieved, reranked) # NoTau
                                   /\ Tau(retrieved, reranked)[1]
                                      = Tau(retrieved, reranked)[2]
      BY DEF MetricsAgree
    <2>1. Listed(s) /\ k \in Nat \ {0} /\ expected \in SUBSET Expected
      BY PipelineAssumption DEF MetricInv
    <2>2. Ranked /\ Distinct(retrieved) /\ Listed(retrieved) /\ Listed(reranked)
      BY DEF RankInv, MetricInv, Reranked, Ready
    <2>3. QED
      BY <2>1, <2>2, HitsAgree, NdcgAgrees, NothingReordered
  <1>2. MetricInv /\ UNCHANGED pipeVars => MetricInv'
    BY DEF MetricInv, Listed, pipeVars
  <1>3. PipeInv /\ MetricInv /\ [PipeNext]_pipeVars => MetricInv'
    BY <1>2, MetricStep DEF PipeInv
  <1>4. PipeSpec => []MetricInv
    BY <1>3, MetricStart, PipelineInvariant, PTL DEF PipeSpec
  <1>5. PipeInv => RankInv
    BY DEF PipeInv
  <1>6. QED
    BY <1>1, <1>4, <1>5, PipelineInvariant, PTL

=============================================================================
