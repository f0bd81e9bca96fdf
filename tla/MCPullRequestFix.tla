-------------------------- MODULE MCPullRequestFix --------------------------
(* Constants for model checking PullRequestFix.  The two workflow files are *)
(* interchangeable.                                                         *)
EXTENDS PullRequestFix, TLC

CONSTANTS f1, f2, r1, r2

FileSymmetry == Permutations({f1, f2})

(* What people do to a repository without touching the tool's branch by    *)
(* hand, except to delete it.                                              *)
UsualOutside == {"push", "merge", "close", "retarget", "delete"}
DefiniteOrLost == {"refused", "lost", "crash"}
=============================================================================
