---------------------------- MODULE WorkflowPins ----------------------------
(***************************************************************************)
(* What the pull request that pins actions does to workflow files          *)
(* (src/remediation.rs): the plan is made from the parsed workflows, the   *)
(* change by rewriting lines of a text that is read later.                 *)
(*                                                                         *)
(* A workflow file is a sequence of the lines that have to do with `uses`. *)
(* A "block" line is a use, `uses: ref`, on a line of its own; a "flow"    *)
(* line is a use, too, of an inline mapping or with a quoted key; a "text" *)
(* line reads like a block line and is none, as it stands in a script.     *)
(* The comment is "" or what follows its `#`.                              *)
(***************************************************************************)
EXTENDS WorkflowRules

CONSTANT OddTexts   (* parts of references with white space or `${{`        *)

Line(form, ref, comment) == [form |-> form, ref |-> ref, comment |-> comment]

IsUse(line)  == line.form \in {"block", "flow"}
UsesOfFile(lines) == {lines[n].ref : n \in {n \in DOMAIN lines : IsUse(lines[n])}}

(* block_uses_line_regex: a line that is found for a reference.            *)
Finds(ref, line) == line.form \in {"block", "text"} /\ line.ref = ref

CountOf(lines, Counts(_)) == Cardinality({n \in DOMAIN lines : Counts(lines[n])})

Occurrences(lines, ref)  == CountOf(lines, LAMBDA l : IsUse(l) /\ l.ref = ref)
Replacements(lines, ref) == CountOf(lines, LAMBDA l : Finds(ref, l))

-----------------------------------------------------------------------------
(* Planning                                                                *)

(* repository_action_use_from_reference: a reference that can be resolved, *)
(* owner/repo or owner/repo/directories at a version that is no commit.    *)
IsLiteral(ref) ==
  /\ ref.at # {}
  /\ Len(ref.path) >= 2 /\ \A n \in DOMAIN ref.path : ref.path[n] # ""
  /\ (Range(ref.path) \cup ref.at) \cap (OddTexts \cup {""}) = {}
  /\ ~IsLocal(ref) /\ ~IsDocker(ref)

(* What the plan pins in a file.                                           *)
PinsOf(lines) == {ref \in UsesOfFile(lines) : ~IsPinned(ref) /\ IsLiteral(ref)}

(* plan_workflow_pin_pull_request: nothing is done if something cannot be  *)
(* pinned, or is a use that will not be found again in the raw text, which *)
(* is compared if the facts have it.                                       *)
CanPin(files) ==
  /\ \E f \in files : PinsOf(f.lines) # {}
  /\ \A f \in files :
       /\ \A ref \in UsesOfFile(f.lines) : IsPinned(ref) \/ IsLiteral(ref)
       /\ f.raw => \A ref \in PinsOf(f.lines) :
                     Replacements(f.lines, ref) >= Occurrences(f.lines, ref)

-----------------------------------------------------------------------------
(* Rewriting                                                               *)

(* resolution_key: directories of one repository resolve together.         *)
ResolutionKey(ref) == [repo |-> SubSeq(ref.path, 1, 2), version |-> ref.at]

(* replace_uses_line_value: the version becomes the commit, and a comment, *)
(* unless the line has one.                                                *)
Pinned(line, commit) ==
  [form |-> line.form, ref |-> [line.ref EXCEPT !.at = {commit}],
   comment |-> IF line.comment # "" THEN line.comment
               ELSE CHOOSE v \in line.ref.at : TRUE]

(* The commit for each of the references, in an order: `resolve` is what    *)
(* GitHub says they stand for, and is asked once for each key.             *)
Commits(order, resolve) ==
  LET same(m, n) == ResolutionKey(order[m]) = ResolutionKey(order[n])
      asked(n)   == CHOOSE m \in 1..n : same(m, n) /\ \A k \in 1..m - 1 : ~same(k, n)
  IN  [ref \in Range(order) |->
         resolve[order[asked(CHOOSE n \in DOMAIN order : order[n] = ref)]]]

(* The lines with the pins replaced that are found in them.                *)
Replaced(lines, pins, commits) ==
  [k \in DOMAIN lines |->
     IF \E ref \in pins : Finds(ref, lines[k])
       THEN Pinned(lines[k], commits[lines[k].ref]) ELSE lines[k]]

(* Mutant: any number of replacements will do.                             *)
CountsAtLeastOne(f) == \A ref \in PinsOf(f.lines) : Replacements(f.found, ref) >= 1

(* Each pin is found in the text as often as planned.                      *)
CountsAgree(f) ==
  \A ref \in PinsOf(f.lines) : Replacements(f.found, ref) = Occurrences(f.lines, ref)

(* prepare_workflow_updates: the new texts of the planned files, all or     *)
(* none of them.  `f.lines` is what was planned, `f.found` what is read now. *)
Prepared(files, resolve) ==
  LET planned == {f \in files : PinsOf(f.lines) # {}}
      commits == Commits(SetToSeq(UNION {PinsOf(f.lines) : f \in planned}), resolve)
  IN  IF \A f \in planned : CountsAgree(f)
        THEN {[f \in planned |-> Replaced(f.found, PinsOf(f.lines), commits)]}
        ELSE {}
=============================================================================
