--------------------------- MODULE MCGatherFacts ----------------------------
(* Repositories for TLC: up to three rulesets on pages of one, and files of *)
(* every kind that a tree may hold.                                        *)
EXTENDS GatherFacts

Path(kind, place, extension) == [kind |-> kind, place |-> place, extension |-> extension]

Ci     == Path("blob", "workflows", "yml")
Readme == Path("blob", "elsewhere", "none")

SomePaths ==
  {Ci, Readme, Path("blob", "below workflows", "yaml"), Path("blob", "workflows", "none"),
   Path("tree", "workflows", "yaml"), Path("commit", "elsewhere", "none")}

Repository(ids, protected, contents, paths, truncated) ==
  [flag |-> FALSE, default |-> "main", fork |-> "first_time", permissions |-> "write",
   rulesets |-> [i \in ids |-> "old"], protected |-> protected,
   files |-> [p \in paths |-> IF p = Ci THEN contents ELSE "a workflow"],
   truncated |-> truncated]

SomeRepositories ==
  {Repository(1..n, p, "a workflow", {Ci}, FALSE) : n \in {0, 2, 3}, p \in {{"main"}}}
  \cup {Repository({1}, {"dev"}, c, SomePaths, t) : c \in Contents, t \in BOOLEAN}
=============================================================================
