------------------------------ MODULE MCFixRun ------------------------------
(* Two repositories and three rules: one the program fixes, one whose fix  *)
(* it rejects, and one it fixes by a pull request but that is off for the  *)
(* second repository.                                                      *)
EXTENDS FixRun, TLC

CONSTANTS mends, rejects, proposes

TheRules     == {mends, rejects, proposes}
TheFixable   == {mends, proposes}
TheProposing == {proposes}
TheRejecting == {rejects}
TheDisabled  == 1 :> {} @@ 2 :> {proposes}

=============================================================================
