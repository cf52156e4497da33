--------------------------- MODULE MCUploadSession ---------------------------
(* UploadSession on a session of two chunks, with symmetry between requests of a kind;   *)
(* the properties are invariants, so the symmetry is sound.                              *)
EXTENDS UploadSession, TLC

Symmetry == Permutations(Saves) \cup Permutations(Completions)

=============================================================================
