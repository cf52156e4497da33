---------------------------- MODULE MCSyncRunner -----------------------------
(* Contents for SyncRunner: of their own for each file, or the same for all.  They are *)
(* only compared, so that the two contents of the edited file may change places.       *)
EXTENDS SyncRunner, TLC

CONSTANTS C1, C2, C3

Edited       == CHOOSE f \in Files : TRUE
OwnContents  == [f \in Files |-> IF f = Edited THEN {C1, C2} ELSE {C3}]
TwinContents == [f \in Files |-> {C1}]

Symmetry == Permutations({C1, C2})

=============================================================================
