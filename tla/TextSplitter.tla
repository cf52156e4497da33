---------------------------- MODULE TextSplitter ----------------------------
(* chunk_text of the ingestion service and chunk_markdown of the scrapper:   *)
(* one algorithm, written twice, that cuts a text into chunks for embedding. *)
(* A text is the sequence of its tokens, the headers and paragraphs that     *)
(* re.split and strip leave; a token is the lengths of its words, which may  *)
(* be 0 between two spaces, and its own length.  A step is one turn of the   *)
(* loop over tokens, of the loop over words or of the loop over the overlap. *)
EXTENDS Naturals, Sequences

CONSTANTS Texts,      \* the texts considered
          Sizes,      \* values of chunk_size
          Overlaps    \* values of chunk_overlap

ASSUME SplitterAssumption ==
    /\ Sizes \subseteq Nat /\ Overlaps \subseteq Nat
    /\ \A t \in Texts :
          /\ t \in Seq([words : Seq(Nat), len : Nat])
          /\ \A n \in DOMAIN t : \A j \in DOMAIN t[n].words : t[n].words[j] <= t[n].len

VARIABLES text, chunk_size, chunk_overlap,      \* the arguments
          at,               \* "token", "word", "overlap" or "done"
          token, word,      \* the next token, and its next word
          chunks,           \* the chunks so far
          current_chunk, current_length,
          sub_chunk, sub_len,
          left,             \* pieces reversed(current_chunk) has yet to give
          overlap_text, overlap_len

args == <<text, chunk_size, chunk_overlap>>
sliceVars == <<word, sub_chunk, sub_len>>
overlapVars == <<left, overlap_text, overlap_len>>
splitVars == <<args, at, token, chunks, current_chunk, current_length,
               sliceVars, overlapVars>>

(* A piece is the words from..to of a token; a chunk is the list of pieces    *)
(* that " ".join makes one string of, and the length of that string.          *)
Piece == [token : Nat, from : Nat, to : Nat, len : Nat]
Chunk == [pieces : Seq(Piece), length : Nat]

NoPieces == [pieces |-> <<>>, length |-> 0]
Space(c) == IF c.pieces = <<>> THEN 0 ELSE 1
Add(c, p) == [pieces |-> Append(c.pieces, p),
              length |-> c.length + Space(c) + p.len]
Insert(p, c) == [pieces |-> <<p>> \o c.pieces,
                 length |-> p.len + Space(c) + c.length]

Words(n) == text[n].words
Whole(n) == [token |-> n, from |-> 1, to |-> Len(Words(n)), len |-> text[n].len]
Word(n, k) == [token |-> n, from |-> k, to |-> k, len |-> Words(n)[k]]

SplitInit ==
    /\ text \in Texts /\ chunk_size \in Sizes /\ chunk_overlap \in Overlaps
    /\ at = "token" /\ token = 1 /\ word = 1
    /\ chunks = <<>>
    /\ current_chunk = NoPieces /\ current_length = 0
    /\ sub_chunk = NoPieces /\ sub_len = 0
    /\ left = <<>> /\ overlap_text = NoPieces /\ overlap_len = 0

-----------------------------------------------------------------------------
AtToken == at = "token" /\ token <= Len(text)

Fits == current_length + text[token].len <= chunk_size

(* A token that fits is appended to the current chunk.                        *)
AppendToken ==
    /\ AtToken /\ text[token].len <= chunk_size /\ Fits
    /\ current_chunk' = Add(current_chunk, Whole(token))
    /\ current_length' = current_length + text[token].len + 1
    /\ token' = token + 1
    /\ UNCHANGED <<args, at, chunks, sliceVars, overlapVars>>

(* One that does not closes the chunk and looks for the overlap.              *)
CloseChunk ==
    /\ AtToken /\ text[token].len <= chunk_size /\ ~ Fits
    /\ chunks' = Append(chunks, current_chunk)
    /\ left' = current_chunk.pieces
    /\ overlap_text' = NoPieces /\ overlap_len' = 0
    /\ at' = "overlap"
    /\ UNCHANGED <<args, token, current_chunk, current_length, sliceVars>>

\* Mutant: the overlap is not limited.
KeepsAll == left # <<>>

LastLeft == left[Len(left)]
KeepsLast == left # <<>> /\ overlap_len + LastLeft.len < chunk_overlap

\* Mutant: each piece is compared with chunk_overlap on its own.
KeepPieceAlone ==
    /\ at = "overlap" /\ KeepsLast
    /\ overlap_text' = Insert(LastLeft, overlap_text)
    /\ left' = SubSeq(left, 1, Len(left) - 1)
    /\ UNCHANGED <<args, at, token, chunks, current_chunk, current_length,
                   sliceVars, overlap_len>>

KeepPiece ==
    /\ at = "overlap" /\ KeepsLast
    /\ overlap_text' = Insert(LastLeft, overlap_text)
    /\ overlap_len' = overlap_len + LastLeft.len + 1
    /\ left' = SubSeq(left, 1, Len(left) - 1)
    /\ UNCHANGED <<args, at, token, chunks, current_chunk, current_length,
                   sliceVars>>

StartAfterOverlap ==
    /\ at = "overlap" /\ ~ KeepsLast
    /\ current_chunk' = Add(overlap_text, Whole(token))
    /\ current_length' = overlap_len + text[token].len + 1
    /\ token' = token + 1
    /\ at' = "token"
    /\ UNCHANGED <<args, chunks, sliceVars, overlapVars>>

(* A token longer than a chunk is sliced by words, on its own.                *)
StartSlicing ==
    /\ AtToken /\ text[token].len > chunk_size
    /\ chunks' = IF current_chunk.pieces = <<>> THEN chunks
                                                ELSE Append(chunks, current_chunk)
    /\ current_chunk' = NoPieces /\ current_length' = 0
    /\ word' = 1 /\ sub_chunk' = NoPieces /\ sub_len' = 0
    /\ at' = "word"
    /\ UNCHANGED <<args, token, overlapVars>>

AtWord == at = "word" /\ word <= Len(Words(token))
WordFits == sub_len + Words(token)[word] <= chunk_size

AppendWord ==
    /\ AtWord /\ WordFits
    /\ sub_chunk' = Add(sub_chunk, Word(token, word))
    /\ sub_len' = sub_len + Words(token)[word] + 1
    /\ word' = word + 1
    /\ UNCHANGED <<args, at, token, chunks, current_chunk, current_length,
                   overlapVars>>

(* The slice is closed even when it is empty, as before a very long word.     *)
CloseSlice ==
    /\ AtWord /\ ~ WordFits
    /\ chunks' = Append(chunks, sub_chunk)
    /\ sub_chunk' = Add(NoPieces, Word(token, word))
    /\ sub_len' = Words(token)[word]
    /\ word' = word + 1
    /\ UNCHANGED <<args, at, token, current_chunk, current_length, overlapVars>>

(* What is left of the token becomes the current chunk, as single words.      *)
EndSlicing ==
    /\ at = "word" /\ word > Len(Words(token))
    /\ IF sub_chunk.pieces = <<>>
       THEN UNCHANGED <<current_chunk, current_length>>
       ELSE current_chunk' = sub_chunk /\ current_length' = sub_len
    /\ token' = token + 1
    /\ at' = "token"
    /\ UNCHANGED <<args, chunks, sliceVars, overlapVars>>

Flush ==
    /\ at = "token" /\ token > Len(text)
    /\ chunks' = IF current_chunk.pieces = <<>> THEN chunks
                                                ELSE Append(chunks, current_chunk)
    /\ at' = "done"
    /\ UNCHANGED <<args, token, current_chunk, current_length, sliceVars,
                   overlapVars>>

SplitNext ==
    \/ AppendToken \/ CloseChunk \/ KeepPiece \/ StartAfterOverlap
    \/ StartSlicing \/ AppendWord \/ CloseSlice \/ EndSlicing
    \/ Flush

SplitSpec == SplitInit /\ [][SplitNext]_splitVars

-----------------------------------------------------------------------------
(* Properties                                                                 *)

Larger(a, b) == IF a > b THEN a ELSE b

(* A chunk that is to be embedded is at most the overlap, or one space,       *)
(* longer than chunk_size, unless it is a single word the splitter will not   *)
(* cut: the lengths kept by the two loops count the spaces differently and    *)
(* run ahead of the strings they stand for.                                   *)
ChunkBound ==
    \A n \in DOMAIN chunks :
        \/ chunks[n].length <= chunk_size + Larger(1, chunk_overlap)
        \/ Len(chunks[n].pieces) = 1

(* What chunk_text returns: the chunks that are not blank.                    *)
Blank(c) == \A n \in DOMAIN c.pieces : c.pieces[n].len = 0
Returned == {n \in DOMAIN chunks : ~ Blank(chunks[n])}

Covers(c, i, j) == \E n \in DOMAIN c.pieces :
    c.pieces[n].token = i /\ j \in c.pieces[n].from .. c.pieces[n].to

Before(p, q) == p.token < q.token \/ (p.token = q.token /\ p.to < q.from)
Last(c) == c.pieces[Len(c.pieces)]

(* The length of the string that " ".join makes of the first k pieces.        *)
Width(s, k) == s[k].len + IF k = 1 THEN 0 ELSE 1
Joined(s) ==
    LET f[k \in 0 .. Len(s)] == IF k = 0 THEN 0 ELSE f[k - 1] + Width(s, k)
    IN f

(* No word of the text is lost, a chunk holds its words in the order of the   *)
(* text, every chunk ends later than the one before it, and what it repeats   *)
(* of an earlier chunk is at its beginning and, joined, shorter than          *)
(* chunk_overlap.                                                             *)
TextKept ==
    /\ at = "done" =>
          \A i \in DOMAIN text : \A j \in DOMAIN Words(i) :
              Words(i)[j] > 0 => \E n \in Returned : Covers(chunks[n], i, j)
    /\ \A n \in DOMAIN chunks : \A k \in 2..Len(chunks[n].pieces) :
          Before(chunks[n].pieces[k - 1], chunks[n].pieces[k])
    /\ \A m, n \in Returned : m < n =>
          /\ Before(Last(chunks[m]), Last(chunks[n]))
          /\ \A k \in DOMAIN chunks[n].pieces :
                Covers(chunks[m], chunks[n].pieces[k].token,
                       chunks[n].pieces[k].from)
                => Joined(chunks[n].pieces)[k] < chunk_overlap
=============================================================================
