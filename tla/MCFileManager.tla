---------------------------- MODULE MCFileManager ----------------------------
(* FileManager with contents such that an append can make a file identical to another. *)
EXTENDS FileManager

Short == <<1>>
Long  == <<1, 2>>

\* Up to names: two uploads of the same content, or of one and its extension.
MCContents == {c \in [Uploads -> {Short, Long}] : c[CHOOSE u \in Uploads : TRUE] = Short}
OneContent == {[u \in Uploads |-> Short]}

=============================================================================
