-------------------------- MODULE GatherFactsProofs ---------------------------
(* What the facts are worth that were gathered while others changed the    *)
(* repository: the verdicts on them, the rulesets and the workflow files   *)
(* among them, for any repository and any number of changes.               *)
EXTENDS GatherFacts, FiniteSetTheorems, SequenceTheorems, TLAPS

FactsShape ==
  facts = [flag |-> facts.flag, default |-> facts.default, fork |-> facts.fork,
           permissions |-> facts.permissions, rulesets |-> facts.rulesets,
           protection |-> facts.protection, files |-> facts.files,
           workflows |-> facts.workflows]

(* Each fact that has been gathered was so at some moment; and whoever got *)
(* past the workflow permissions may also know of branch protection.       *)
FlagHad       == \E g \in Range(past) : facts.flag \subseteq {g.flag} /\ facts.default = g.default
ForkHad       == \E g \in Range(past) : facts.fork \subseteq {g.fork}
PermissionHad == \E g \in Range(past) : facts.permissions = g.permissions
ProtectionHad == \E g \in Range(past) : facts.protection = g.protected \cap {facts.default}

GatherInv ==
  /\ past \in Seq(Kept) /\ github \in Range(past)
  /\ FactsShape
  /\ pc \notin {"repo", "failed"} => FlagHad
  /\ pc \notin {"repo", "fork", "failed"} => ForkHad
  /\ pc \notin {"repo", "fork", "permissions", "failed"} => "admin" \in access /\ PermissionHad
  /\ pc \in {"tree", "workflow", "done"} => ProtectionHad

LEMMA RangeAppended ==
  ASSUME NEW s \in Seq(Kept), NEW g \in Kept
  PROVE  /\ Append(s, g) \in Seq(Kept)
         /\ Range(s) \subseteq Range(Append(s, g)) /\ g \in Range(Append(s, g))
<1>1. Append(s, g) \in Seq(Kept) /\ Len(Append(s, g)) = Len(s) + 1
  OBVIOUS
<1>2. /\ Range(s) = {s[n] : n \in 1..Len(s)}
      /\ Range(Append(s, g)) = {Append(s, g)[n] : n \in 1..Len(s) + 1}
  BY <1>1 DEF Range
<1>3. Append(s, g)[Len(s) + 1] = g /\ Len(s) + 1 \in 1..Len(s) + 1
  OBVIOUS
<1>4. ASSUME NEW n \in 1..Len(s) PROVE s[n] = Append(s, g)[n] /\ n \in 1..Len(s) + 1
  OBVIOUS
<1> QED
  BY <1>1, <1>2, <1>3, <1>4

LEMMA RangeKept == past \in Seq(Kept) => Range(past) \subseteq Kept
  BY DEF Range

(* Who changes a repository leaves it one, and the facts as they are.      *)
LEMMA EditKeeps ==
  ASSUME GatherInv, NEW changed \in Kept, Edit(changed)
  PROVE  GatherInv'
<1>1. /\ past' \in Seq(Kept) /\ Range(past) \subseteq Range(past)' /\ github' \in Range(past)'
  BY RangeAppended DEF Edit, GatherInv
<1>2. UNCHANGED <<access, pc, facts>>
  BY DEF Edit, program
<1> QED
  BY <1>1, <1>2 DEF GatherInv, FactsShape, FlagHad, ForkHad, PermissionHad, ProtectionHad

LEMMA ChangesKeep ==
  ASSUME GatherInv, ChangeSettings \/ Protect \/ ChangeRulesets \/ Push
  PROVE  GatherInv'
<1>1. github \in Kept
  BY RangeKept DEF GatherInv
<1>2. CASE ChangeSettings
  <2>1. ASSUME Edit([github EXCEPT !.flag = ~github.flag]) PROVE GatherInv'
    BY <1>1, <2>1, EditKeeps DEF Kept
  <2>2. ASSUME NEW p \in {"all_external", "first_time"}, Edit([github EXCEPT !.fork = p])
        PROVE  GatherInv'
    BY <1>1, <2>2, EditKeeps DEF Kept
  <2>3. ASSUME NEW p \in {"read", "write"}, Edit([github EXCEPT !.permissions = p])
        PROVE  GatherInv'
    BY <1>1, <2>3, EditKeeps DEF Kept
  <2>4. ASSUME NEW b \in Branches, Edit([github EXCEPT !.default = b]) PROVE GatherInv'
    BY <1>1, <2>4, EditKeeps DEF Kept
  <2> QED
    BY <1>2, <2>1, <2>2, <2>3, <2>4 DEF ChangeSettings
<1>3. CASE Protect
  <2>1. PICK b \in Branches :
          Edit([github EXCEPT !.protected = SymDiff(github.protected, {b})])
    BY <1>3 DEF Protect
  <2>2. SymDiff(github.protected, {b}) \in SUBSET Branches
    BY <1>1 DEF SymDiff, Kept
  <2> HIDE DEF SymDiff
  <2> QED
    BY <1>1, <2>1, <2>2, EditKeeps DEF Kept
<1>4. CASE ChangeRulesets
  <2> DEFINE Sets == UNION {[ids -> Versions] : ids \in SUBSET (1..MaxId)}
  <2>1. PICK rulesets : /\ Edit([github EXCEPT !.rulesets = rulesets])
                        /\ \/ \E id \in DOMAIN github.rulesets :
                                \/ rulesets = [github.rulesets EXCEPT ![id] = "new"]
                                \/ rulesets = [i \in (DOMAIN github.rulesets) \ {id}
                                                 |-> github.rulesets[i]]
                           \/ \E id \in 1..MaxId :
                                rulesets = [i \in (DOMAIN github.rulesets) \cup {id} |->
                                              IF i = id THEN "old" ELSE github.rulesets[i]]
    BY <1>4 DEF ChangeRulesets
  <2>2. PICK ids \in SUBSET (1..MaxId) : github.rulesets \in [ids -> Versions]
    BY <1>1 DEF Kept
  <2>3. \E to \in SUBSET (1..MaxId) : rulesets \in [to -> Versions]
    <3>1. CASE \E id \in ids : rulesets = [github.rulesets EXCEPT ![id] = "new"]
      BY <2>2, <3>1 DEF Versions
    <3>2. CASE \E id \in ids : rulesets = [i \in ids \ {id} |-> github.rulesets[i]]
      <4>1. PICK id \in ids : rulesets = [i \in ids \ {id} |-> github.rulesets[i]]
        BY <3>2
      <4>2. rulesets \in [ids \ {id} -> Versions] /\ ids \ {id} \in SUBSET (1..MaxId)
        BY <2>2, <4>1
      <4> QED
        BY <4>2
    <3>3. CASE \E id \in 1..MaxId : rulesets = [i \in ids \cup {id} |->
                                     IF i = id THEN "old" ELSE github.rulesets[i]]
      <4>1. PICK id \in 1..MaxId : rulesets = [i \in ids \cup {id} |->
                                     IF i = id THEN "old" ELSE github.rulesets[i]]
        BY <3>3
      <4>2. rulesets \in [ids \cup {id} -> Versions] /\ ids \cup {id} \in SUBSET (1..MaxId)
        BY <2>2, <4>1 DEF Versions
      <4> QED
        BY <4>2
    <3> QED
      BY <2>1, <2>2, <3>1, <3>2, <3>3
  <2>4. rulesets \in Sets
    BY <2>3
  <2> HIDE DEF Sets
  <2>5. [github EXCEPT !.rulesets = rulesets] \in Kept
    BY <1>1, <2>4 DEF Kept, Sets
  <2> QED
    BY <2>1, <2>5, EditKeeps
<1>5. CASE Push
  <2> DEFINE Trees == UNION {[paths -> Contents] : paths \in SUBSET Paths}
  <2>1. PICK files : /\ Edit([github EXCEPT !.files = files])
                     /\ \E path \in Paths :
                          \/ files = [p \in (DOMAIN github.files) \ {path} |-> github.files[p]]
                          \/ \E c \in Contents :
                               files = [p \in (DOMAIN github.files) \cup {path} |->
                                          IF p = path THEN c ELSE github.files[p]]
    BY <1>5 DEF Push, Contents
  <2>2. PICK paths \in SUBSET Paths : github.files \in [paths -> Contents]
    BY <1>1 DEF Kept
  <2>3. ASSUME NEW path \in Paths, files = [p \in paths \ {path} |-> github.files[p]]
        PROVE  files \in Trees
    <3>1. files \in [paths \ {path} -> Contents] /\ paths \ {path} \in SUBSET Paths
      BY <2>2, <2>3
    <3> QED
      BY <3>1
  <2>4. ASSUME NEW path \in Paths, NEW c \in Contents,
               files = [p \in paths \cup {path} |->
                          IF p = path THEN c ELSE github.files[p]]
        PROVE  files \in Trees
    <3>1. files \in [paths \cup {path} -> Contents] /\ paths \cup {path} \in SUBSET Paths
      BY <2>2, <2>4
    <3> QED
      BY <3>1
  <2>5. files \in Trees
    BY <2>1, <2>2, <2>3, <2>4
  <2> HIDE DEF Trees
  <2>6. [github EXCEPT !.files = files] \in Kept
    BY <1>1, <2>5 DEF Kept, Trees
  <2> QED
    BY <2>1, <2>6, EditKeeps
<1> QED
  BY <1>2, <1>3, <1>4, <1>5

(* A call takes what it finds at that moment, and leaves the other facts.  *)
LEMMA CallKeeps ==
  ASSUME GatherInv, Call \/ Fail
  PROVE  GatherInv'
<1>1. UNCHANGED <<github, access, past>>
  BY DEF Call, Fail, GetRepo, GetForkPolicy, GetWorkflowPermissions, ListRulesets, GetRuleset,
         GetProtection, GetTree, GetWorkflow, GitHubStays
<1> USE <1>1 DEF GatherInv, FactsShape, FlagHad, ForkHad, PermissionHad, ProtectionHad
<1>2. CASE Fail
  BY <1>2 DEF Fail, NoFacts
<1>3. CASE GetRepo
  BY <1>3 DEF GetRepo
<1>4. CASE GetForkPolicy
  BY <1>4 DEF GetForkPolicy, ForkPolicy
<1>5. CASE GetWorkflowPermissions
  BY <1>5 DEF GetWorkflowPermissions
<1>6. CASE ListRulesets
  <2>1. facts' = facts /\ pc = "rulesets" /\ pc' \in {"rulesets", "ruleset"}
    BY <1>6 DEF ListRulesets
  <2> QED
    BY <2>1
<1>7. CASE GetRuleset
  <2>1. pc = "ruleset" /\ pc' \in {"ruleset", "protection"}
    BY <1>7 DEF GetRuleset
  <2>2. facts' = facts \/ \E rs : facts' = [facts EXCEPT !.rulesets = rs]
    BY <1>7 DEF GetRuleset
  <2> QED
    BY <2>1, <2>2
<1>8. CASE GetProtection
  <2>1. pc = "protection" /\ pc' = "tree" /\ "admin" \in access
    BY <1>8 DEF GetProtection
  <2>2. facts' = [facts EXCEPT !.protection = github.protected \cap {facts.default}]
    BY <1>8, <2>1 DEF GetProtection
  <2> QED
    BY <2>1, <2>2
<1>9. CASE GetTree
  <2>1. pc = "tree" /\ pc' = "workflow" /\ \E fs : facts' = [facts EXCEPT !.files = fs]
    BY <1>9 DEF GetTree
  <2> QED
    BY <2>1
<1>10. CASE GetWorkflow
  <2>1. pc = "workflow" /\ pc' \in {"workflow", "done"}
    BY <1>10 DEF GetWorkflow
  <2>2. facts' = facts \/ \E ws : facts' = [facts EXCEPT !.workflows = ws]
    BY <1>10 DEF GetWorkflow
  <2> QED
    BY <2>1, <2>2
<1> QED
  BY <1>2, <1>3, <1>4, <1>5, <1>6, <1>7, <1>8, <1>9, <1>10 DEF Call

LEMMA GatherInit == Init => GatherInv
<1> SUFFICES ASSUME Init PROVE GatherInv
  OBVIOUS
<1>1. github \in Kept /\ past = <<github>>
  BY GatherFactsAssumption DEF Init
<1>2. past \in Seq(Kept) /\ github \in Range(past)
  BY <1>1 DEF Range
<1> QED
  BY <1>2 DEF Init, GatherInv, FactsShape, NoFacts

THEOREM GatherInvariant == Spec => []GatherInv
<1>1. GatherInv /\ [Next]_vars => GatherInv'
  <2> SUFFICES ASSUME GatherInv, [Next]_vars PROVE GatherInv'
    OBVIOUS
  <2>1. CASE Call \/ Fail
    BY <2>1, CallKeeps
  <2>2. CASE ChangeSettings \/ Protect \/ ChangeRulesets \/ Push
    BY <2>2, ChangesKeep
  <2>3. CASE UNCHANGED vars
    BY <2>3 DEF vars, program, GatherInv, FactsShape, FlagHad, ForkHad, PermissionHad,
                ProtectionHad
  <2> QED
    BY <2>1, <2>2, <2>3 DEF Next
<1> QED
  BY <1>1, GatherInit, PTL DEF Spec

(* No rule passes or fails on facts that were never so                     *)
(* (gather_repo_facts, src/facts.rs), however often a repository changes   *)
(* while it is read and whatever the token may read.                       *)
THEOREM VerdictsWereAlwaysTrue == Spec => []VerdictsWereTrue
<1>1. GatherInv => VerdictsWereTrue
  <2> SUFFICES ASSUME GatherInv, pc = "done" PROVE VerdictsWereTrue
    BY DEF VerdictsWereTrue
  <2>1. PICK repo \in Range(past) : facts.flag \subseteq {repo.flag}
                                    /\ facts.default = repo.default
    BY DEF GatherInv, FlagHad
  <2>2. PICK fork \in Range(past) : facts.fork \subseteq {fork.fork}
    BY DEF GatherInv, ForkHad
  <2>3. PICK permissions \in Range(past) : facts.permissions = permissions.permissions
    BY DEF GatherInv, PermissionHad
  <2>4. PICK protection \in Range(past) :
          facts.protection = protection.protected \cap {facts.default}
    BY DEF GatherInv, ProtectionHad
  <2>5. repo.flag \in BOOLEAN
    BY RangeKept DEF GatherInv, Kept
  <2>6. /\ FlagVerdict(facts) = "pass" => ~repo.flag
        /\ FlagVerdict(facts) = "fail" => repo.flag
    <3>1. facts.flag = {} \/ facts.flag = {repo.flag}
      BY <2>1
    <3>2. CASE facts.flag = {}
      BY <3>2 DEF FlagVerdict, SettingVerdict
    <3>3. CASE facts.flag = {TRUE} /\ repo.flag = TRUE
      BY <3>3 DEF FlagVerdict, SettingVerdict
    <3>4. CASE facts.flag = {FALSE} /\ repo.flag = FALSE
      BY <3>4 DEF FlagVerdict, SettingVerdict
    <3> QED
      BY <2>5, <3>1, <3>2, <3>3, <3>4
  <2>7. /\ ForkVerdict(facts) = "pass" => fork.fork = "all_external"
        /\ ForkVerdict(facts) = "fail" => fork.fork # "all_external"
    <3>1. facts.fork = {} \/ facts.fork = {fork.fork}
      BY <2>2
    <3> QED
      BY <3>1 DEF ForkVerdict, SettingVerdict
  <2>8. PermissionVerdict(facts) = "pass" <=> permissions.permissions = "read"
    BY <2>3 DEF PermissionVerdict, SettingVerdict
  <2>9. LegacyVerdict(facts) = "pass" <=> facts.default \notin protection.protected
    BY <2>4 DEF LegacyVerdict
  <2> QED
    BY <2>1, <2>6, <2>7, <2>8, <2>9 DEF VerdictsWereTrue
<1> QED
  BY <1>1, GatherInvariant, PTL
-----------------------------------------------------------------------------
(* Sequences and sets *)

LEMMA RangeJoined ==
  ASSUME NEW S, NEW s \in Seq(S), NEW t \in Seq(S)
  PROVE  s \o t \in Seq(S) /\ Range(s \o t) = Range(s) \cup Range(t)
  BY ConcatProperties, RangeConcatenation

LEMMA RangeSplit ==
  ASSUME NEW S, NEW s \in Seq(S), s # <<>>
  PROVE  /\ Tail(s) \in Seq(S) /\ Head(s) \in S
         /\ Range(s) = {Head(s)} \cup Range(Tail(s))
<1> DEFINE first == <<Head(s)>>
           rest  == Tail(s)
<1>1. Head(s) \in S /\ rest \in Seq(S) /\ first \in Seq(S)
  OBVIOUS
<1>2. s = first \o rest
  OBVIOUS
<1>3. Range(first) = {Head(s)}
  BY DEF Range
<1> HIDE DEF first, rest
<1>4. Range(first \o rest) = Range(first) \cup Range(rest)
  BY <1>1, RangeConcatenation
<1> QED
  BY <1>1, <1>2, <1>3, <1>4 DEF rest

LEMMA SeqOfMore ==
  ASSUME NEW S, NEW T, S \subseteq T, NEW s \in Seq(S)
  PROVE  s \in Seq(T)
  OBVIOUS

LEMMA RangeOfNone == Range(<<>>) = {}
  BY DEF Range

LEMMA SeqOfSet ==
  ASSUME NEW S, IsFiniteSet(S)
  PROVE  SetToSeq(S) \in Seq(S) /\ Range(SetToSeq(S)) = S
<1> DEFINE n == Cardinality(S)
           s == SetToSeq(S)
<1>1. n \in Nat /\ ExistsBijection(1..n, S)
  BY FS_CardinalityType
<1>2. \E f \in [1..n -> S] : IsInjective(f)
  BY <1>1 DEF ExistsBijection, Bijection, Injection
<1>3. s \in [1..n -> S] /\ IsInjective(s)
  BY <1>2 DEF SetToSeq
<1>4. IsFiniteSet(1..n) /\ Cardinality(1..n) = n
  BY <1>1, FS_Interval
<1> HIDE DEF s
<1>5. s \in Injection(1..n, S)
  BY <1>3 DEF Injection
<1>6. s \in Surjection(1..n, S)
  BY <1>4, <1>5, FS_Injection
<1>7. \A x \in S : \E k \in 1..n : s[k] = x
  BY <1>6 DEF Surjection
<1> HIDE DEF n
<1>8. s \in Seq(S) /\ DOMAIN s = 1..n
  BY <1>1, <1>3
<1>9. Range(s) = S
  BY <1>3, <1>7, <1>8 DEF Range
<1> QED
  BY <1>8, <1>9 DEF s

-----------------------------------------------------------------------------
(* Positions in the list of rulesets *)

Upto(id, ids) == {i \in ids : IF order = "newest" THEN i >= id ELSE i <= id}

LEMMA PositionOf ==
  ASSUME NEW ids \in SUBSET Nat, IsFiniteSet(ids), NEW id \in ids
  PROVE  /\ Position(id, ids) = Cardinality(Upto(id, ids)) /\ IsFiniteSet(Upto(id, ids))
         /\ Position(id, ids) \in 1..Cardinality(ids) /\ Cardinality(ids) \in Nat
<1>1. Upto(id, ids) \in SUBSET ids /\ id \in Upto(id, ids)
  BY DEF Upto
<1>2. /\ IsFiniteSet(Upto(id, ids)) /\ Cardinality(Upto(id, ids)) \in Nat
      /\ Cardinality(Upto(id, ids)) <= Cardinality(ids) /\ Cardinality(ids) \in Nat
  BY <1>1, FS_Subset, FS_CardinalityType
<1>3. Cardinality(Upto(id, ids)) # 0
  BY <1>1, <1>2, FS_EmptySet
<1>4. Position(id, ids) = Cardinality(Upto(id, ids))
  BY DEF Position, Upto
<1> QED
  BY <1>2, <1>3, <1>4

(* What comes before comes at a lower position.                            *)
LEMMA PositionsGrow ==
  ASSUME NEW ids \in SUBSET Nat, IsFiniteSet(ids), NEW a \in ids, NEW b \in ids,
         a # b, a \in Upto(b, ids)
  PROVE  Position(a, ids) < Position(b, ids)
<1>1. Upto(a, ids) \subseteq Upto(b, ids)
  <2> SUFFICES ASSUME NEW i \in Upto(a, ids) PROVE i \in Upto(b, ids)
    OBVIOUS
  <2>1. i \in Nat /\ a \in Nat /\ b \in Nat /\ i \in ids
    BY DEF Upto
  <2>2. CASE order = "newest"
    BY <2>1, <2>2 DEF Upto
  <2>3. CASE order # "newest"
    BY <2>1, <2>3 DEF Upto
  <2> QED
    BY <2>2, <2>3
<1>2. Upto(a, ids) # Upto(b, ids)
  <2>1. a \in Nat /\ b \in Nat
    OBVIOUS
  <2>2. b \in Upto(b, ids) /\ b \notin Upto(a, ids)
    BY <2>1 DEF Upto
  <2> QED
    BY <2>2
<1>3. /\ Cardinality(Upto(a, ids)) <= Cardinality(Upto(b, ids))
      /\ Cardinality(Upto(a, ids)) # Cardinality(Upto(b, ids))
      /\ Cardinality(Upto(a, ids)) \in Nat /\ Cardinality(Upto(b, ids)) \in Nat
  BY <1>1, <1>2, PositionOf, FS_Subset, FS_CardinalityType
<1> QED
  BY <1>3, PositionOf

LEMMA PositionsDiffer ==
  ASSUME NEW ids \in SUBSET Nat, IsFiniteSet(ids), NEW a \in ids, NEW b \in ids,
         Position(a, ids) = Position(b, ids)
  PROVE  a = b
<1> SUFFICES ASSUME a # b PROVE FALSE
  OBVIOUS
<1>1. a \in Upto(b, ids) \/ b \in Upto(a, ids)
  BY DEF Upto
<1>2. Position(a, ids) \in Nat /\ Position(b, ids) \in Nat
  BY PositionOf
<1> QED
  BY <1>1, <1>2, PositionsGrow

(* The list has each ruleset at its position, and nothing else.            *)
LEMMA OrderedLists ==
  ASSUME NEW ids \in SUBSET Nat, IsFiniteSet(ids)
  PROVE  /\ Ordered(ids) \in Seq(ids) /\ Len(Ordered(ids)) = Cardinality(ids)
         /\ \A id \in ids : Ordered(ids)[Position(id, ids)] = id
<1> DEFINE n     == Cardinality(ids)
           place == [id \in ids |-> Position(id, ids)]
<1>1. n \in Nat /\ IsFiniteSet(1..n) /\ Cardinality(1..n) = n
  BY FS_CardinalityType, FS_Interval
<1>2. place \in Injection(ids, 1..n)
  BY PositionOf, PositionsDiffer DEF Injection, IsInjective
<1>3. place \in Surjection(ids, 1..n)
  BY <1>1, <1>2, FS_Injection
<1>4. \A k \in 1..n : \E id \in ids : Position(id, ids) = k
  BY <1>3 DEF Surjection
<1>5. \A k \in 1..n : (CHOOSE id \in ids : Position(id, ids) = k) \in ids
  BY <1>4
<1>6. Ordered(ids) = [k \in 1..n |-> CHOOSE id \in ids : Position(id, ids) = k]
  BY DEF Ordered
<1>7. \A id \in ids : (CHOOSE i \in ids : Position(i, ids) = Position(id, ids)) = id
  BY PositionsDiffer
<1>8. \A id \in ids : Position(id, ids) \in 1..n
  BY PositionOf
<1> HIDE DEF n
<1>9. Ordered(ids) \in [1..n -> ids]
  BY <1>5, <1>6
<1>10. Ordered(ids) \in Seq(ids) /\ Len(Ordered(ids)) = n
  BY <1>1, <1>9
<1>11. ASSUME NEW id \in ids PROVE Ordered(ids)[Position(id, ids)] = id
  BY <1>6, <1>7, <1>8
<1> QED
  BY <1>10, <1>11 DEF n

(* Without a ruleset, those after it move up by one; a ruleset that is     *)
(* added moves others down or leaves them.                                 *)
LEMMA PositionsWithout ==
  ASSUME NEW ids \in SUBSET Nat, IsFiniteSet(ids), NEW gone \in ids,
         NEW id \in ids \ {gone}
  PROVE  Position(id, ids \ {gone}) =
           IF gone \in Upto(id, ids) THEN Position(id, ids) - 1 ELSE Position(id, ids)
<1>1. Upto(id, ids \ {gone}) = Upto(id, ids) \ {gone}
  BY DEF Upto
<1>2. IsFiniteSet(ids \ {gone})
  BY FS_RemoveElement
<1>3. Cardinality(Upto(id, ids) \ {gone}) =
        IF gone \in Upto(id, ids) THEN Cardinality(Upto(id, ids)) - 1
        ELSE Cardinality(Upto(id, ids))
  BY PositionOf, FS_RemoveElement
<1>4. Position(id, ids \ {gone}) = Cardinality(Upto(id, ids \ {gone}))
  BY <1>2, PositionOf
<1> QED
  BY <1>1, <1>3, <1>4, PositionOf

LEMMA PositionsWith ==
  ASSUME NEW ids \in SUBSET Nat, IsFiniteSet(ids), NEW new \in Nat, NEW id \in ids
  PROVE  Position(id, ids) <= Position(id, ids \cup {new})
<1> DEFINE more == ids \cup {new}
<1>1. Upto(id, ids) \in SUBSET Upto(id, more)
  BY DEF Upto
<1>2. more \in SUBSET Nat /\ IsFiniteSet(more) /\ id \in more
  BY FS_AddElement
<1> HIDE DEF more
<1>3. /\ Position(id, ids) = Cardinality(Upto(id, ids))
      /\ Position(id, more) = Cardinality(Upto(id, more)) /\ IsFiniteSet(Upto(id, more))
  BY <1>2, PositionOf
<1>4. Cardinality(Upto(id, ids)) <= Cardinality(Upto(id, more))
  BY <1>1, <1>3, FS_Subset
<1> QED
  BY <1>3, <1>4 DEF more

-----------------------------------------------------------------------------
(* Pages *)

LEMMA MaxOfTwo ==
  ASSUME NEW a \in Nat, NEW b \in Nat
  PROVE  Max({a, b}) \in Nat /\ Max({a, b}) >= a /\ Max({a, b}) >= b
<1>1. \E m \in {a, b} : \A y \in {a, b} : m >= y
  OBVIOUS
<1>2. Max({a, b}) \in {a, b} /\ \A y \in {a, b} : Max({a, b}) >= y
  BY <1>1 DEF Max
<1> QED
  BY <1>2

LEMMA MinOfTwo ==
  ASSUME NEW a \in Int, NEW b \in Int
  PROVE  Min({a, b}) = IF a <= b THEN a ELSE b
<1>1. \E m \in {a, b} : \A y \in {a, b} : m <= y
  OBVIOUS
<1>2. Min({a, b}) \in {a, b} /\ \A y \in {a, b} : Min({a, b}) <= y
  BY <1>1 DEF Min
<1> QED
  BY <1>2

(* The pages have room for all.                                            *)
LEMMA PagesSuffice ==
  ASSUME NEW ids, IsFiniteSet(ids)
  PROVE  PagesOf(ids) \in Nat /\ Cardinality(ids) <= PagesOf(ids) * PageSize
<1> DEFINE c == Cardinality(ids)
           q == (c + PageSize - 1) \div PageSize
<1>1. c \in Nat /\ PageSize \in Nat \ {0}
  BY FS_CardinalityType, GatherFactsAssumption
<1> HIDE DEF c
<1>2. q \in Nat /\ c <= q * PageSize
  BY <1>1
<1> HIDE DEF q
<1>3. Max({1, q}) \in Nat /\ Max({1, q}) >= q
  BY <1>2, MaxOfTwo
<1>4. PagesOf(ids) = Max({1, q})
  BY DEF PagesOf, c, q
<1>5. ASSUME NEW m \in Nat, m >= q PROVE q * PageSize <= m * PageSize
  BY <1>1, <1>2, <1>5
<1>6. ASSUME NEW m \in Nat, m >= q PROVE c <= m * PageSize
  <2>1. q * PageSize \in Nat /\ m * PageSize \in Nat
    BY <1>1, <1>2
  <2> QED
    BY <1>1, <1>2, <1>5, <1>6, <2>1
<1> QED
  BY <1>3, <1>4, <1>6 DEF c

(* The header of a page leads to the next one, unless it is the last.      *)
LEMMA NextPage ==
  ASSUME NEW k \in Nat \ {0}, NEW n \in Nat
  PROVE  ParseNextLink(Link(k, n)) = IF k < n THEN {k + 1} ELSE {}
<1> DEFINE prev  == [url |-> k - 1, rel |-> {"prev"}]
           next  == [url |-> k + 1, rel |-> {"next"}]
           last  == [url |-> n, rel |-> {"last"}]
           first == [url |-> 1, rel |-> {"first"}]
           names(h) == {i \in DOMAIN h : "next" \in h[i].rel}
           header ==
             CASE k > 1 /\ k < n -> <<prev, next, last, first>>
               [] k > 1 /\ k >= n -> <<prev, first>>
               [] k = 1 /\ k < n -> <<next, last>>
               [] OTHER -> <<>>
<1>0. Link(k, n) = header
  BY Zenon DEF Link
<1>1. ASSUME NEW i \in Nat PROVE Min({i}) = i
  <2>1. Min({i}) \in {i}
    BY DEF Min
  <2> QED
    BY <2>1
<1>2. CASE k > 1 /\ k < n
  <2>1. Link(k, n) = <<prev, next, last, first>>
    <3> HIDE DEF prev, next, last, first
    <3> QED
      BY <1>0, <1>2
  <2>2. names(<<prev, next, last, first>>) = {2}
    OBVIOUS
  <2> QED
    BY <1>1, <1>2, <2>1, <2>2 DEF ParseNextLink
<1>3. CASE k > 1 /\ k >= n
  <2>1. Link(k, n) = <<prev, first>>
    <3> HIDE DEF prev, next, last, first
    <3> QED
      BY <1>0, <1>3
  <2>2. names(<<prev, first>>) = {}
    OBVIOUS
  <2> QED
    BY <1>3, <2>1, <2>2 DEF ParseNextLink
<1>4. CASE k = 1 /\ k < n
  <2>1. Link(k, n) = <<next, last>>
    <3> HIDE DEF prev, next, last, first
    <3> QED
      BY <1>0, <1>4
  <2>2. names(<<next, last>>) = {1}
    OBVIOUS
  <2> QED
    BY <1>1, <1>4, <2>1, <2>2 DEF ParseNextLink
<1>5. CASE k = 1 /\ k >= n
  <2>1. Link(k, n) = <<>>
    <3> HIDE DEF prev, next, last, first
    <3> QED
      BY <1>0, <1>5
  <2>2. names(<<>>) = {}
    OBVIOUS
  <2> QED
    BY <1>5, <2>1, <2>2 DEF ParseNextLink
<1> QED
  BY <1>2, <1>3, <1>4, <1>5

(* A page has the rulesets at its positions.                               *)
Listed(k, ids) ==
  SubSeq(Ordered(ids), (k - 1) * PageSize + 1,
         Min({(k - 1) * PageSize + 1 + PageSize - 1, Cardinality(ids)}))

LEMMA PageLists ==
  ASSUME NEW ids \in SUBSET Nat, IsFiniteSet(ids), NEW k \in Nat \ {0}
  PROVE  /\ Listed(k, ids) \in Seq(ids)
         /\ \A id \in ids :
              (k - 1) * PageSize < Position(id, ids) /\ Position(id, ids) <= k * PageSize
                => id \in Range(Listed(k, ids))
<1> DEFINE before == (k - 1) * PageSize
           c      == Cardinality(ids)
           to     == Min({before + 1 + PageSize - 1, c})
           s      == Ordered(ids)
<1>1. before \in Nat /\ PageSize \in Nat /\ k * PageSize = before + PageSize
  BY GatherFactsAssumption
<1>2. c \in Nat /\ s \in Seq(ids) /\ Len(s) = c
      /\ \A id \in ids : s[Position(id, ids)] = id /\ Position(id, ids) \in 1..c
  BY OrderedLists, PositionOf, FS_CardinalityType
<1> HIDE DEF before, c, s
<1>3. to = IF before + PageSize <= c THEN before + PageSize ELSE c
  <2>1. before + 1 + PageSize - 1 = before + PageSize
    BY <1>1
  <2> QED
    BY <1>1, <1>2, <2>1, MinOfTwo
<1> HIDE DEF to
<1>4. to \in 0..Len(s)
  BY <1>1, <1>2, <1>3
<1>5. SubSeq(s, before + 1, to) \in Seq(ids)
  BY <1>1, <1>2, <1>4
<1>6. ASSUME NEW id \in ids, before < Position(id, ids),
             Position(id, ids) <= before + PageSize
      PROVE  id \in Range(SubSeq(s, before + 1, to))
  <2> DEFINE n == Position(id, ids)
  <2>1. n \in 1..c /\ s[n] = id
    BY <1>2
  <2> HIDE DEF n
  <2>2. n \in before + 1..to
    BY <1>1, <1>2, <1>3, <1>6, <2>1 DEF n
  <2>3. /\ SubSeq(s, before + 1, to)[n - (before + 1) + 1] = s[n]
        /\ n - (before + 1) + 1 \in DOMAIN SubSeq(s, before + 1, to)
    BY <1>1, <1>2, <1>4, <2>2
  <2> QED
    BY <2>1, <2>3 DEF Range
<1> QED
  BY <1>1, <1>5, <1>6 DEF Listed, before, c, to, s

-----------------------------------------------------------------------------
(* The list of rulesets *)

Now      == DOMAIN github.rulesets
First    == DOMAIN past[1].rulesets
Standing == First \cap Now
Got      == {r[1] : r \in facts.rulesets}

(* No ruleset was created since the first call and is gone again.          *)
NoneFlashed == \A g \in Range(past) : DOMAIN g.rulesets \subseteq First \cup Now

(* As long as all that was listed can still be read, the pages read so far *)
(* have every ruleset that was there from the first call and is among the  *)
(* positions they cover now: what a deletion moves to a page that was read *)
(* was on it, unless what was deleted had been listed.                     *)
ListInv ==
  /\ page \in Nat \ {0}
  /\ pc \in {"repo", "fork", "permissions"} => toGet = <<>> /\ page = 1
  /\ pc \in {"rulesets", "ruleset"} =>
       /\ toGet \in Seq(Nat)
       /\ \A id \in Range(toGet) : \E g \in Range(past) : id \in DOMAIN g.rulesets
  /\ pc = "rulesets" /\ NoneFlashed /\ Range(toGet) \subseteq Now =>
       \A id \in Standing : Position(id, Now) <= (page - 1) * PageSize => id \in Range(toGet)
  /\ pc = "ruleset" /\ NoneFlashed /\ Range(toGet) \subseteq Now =>
       Standing \subseteq Range(toGet) \cup Got
  /\ pc \in {"protection", "tree", "workflow", "done"} /\ NoneFlashed =>
       Standing \subseteq Got
  /\ \A r \in facts.rulesets : \E g \in Range(past) : \E id \in DOMAIN g.rulesets :
       r = <<id, g.rulesets[id]>>

(* The workflow files of one moment's tree: each of them is to be fetched  *)
(* or was fetched at that moment or a later one.                           *)
TreeInv ==
  /\ github = past[Len(past)]
  /\ pc \notin {"workflow", "done"} => facts.workflows = {}
  /\ pc \in {"workflow", "done"} =>
       /\ toGet \in Seq(Paths)
       /\ Range(toGet) \cup {w[1] : w \in facts.workflows} =
            {p \in facts.files : IsWorkflowPath(p)}
       /\ \E n \in DOMAIN past :
            /\ ~past[n].truncated
            /\ facts.files = {p \in DOMAIN past[n].files : p.kind # "tree"}
            /\ \A w \in facts.workflows : \E m \in n..Len(past) :
                 \E p \in DOMAIN past[m].files : w = <<p, past[m].files[p]>>
  /\ pc = "done" => toGet = <<>>

LEMMA KeptRulesets ==
  ASSUME NEW g \in Kept
  PROVE  /\ DOMAIN g.rulesets \in SUBSET (1..MaxId)
         /\ \A id \in DOMAIN g.rulesets : g.rulesets[id] \in Versions
<1>1. PICK ids \in SUBSET (1..MaxId) : g.rulesets \in [ids -> Versions]
  BY DEF Kept
<1> QED
  BY <1>1

LEMMA KeptFiles ==
  ASSUME NEW g \in Kept
  PROVE  DOMAIN g.files \in SUBSET Paths
<1>1. PICK paths \in SUBSET Paths : g.files \in [paths -> Contents]
  BY DEF Kept
<1> QED
  BY <1>1

LEMMA NowFinite ==
  ASSUME GatherInv
  PROVE  /\ Now \in SUBSET Nat /\ IsFiniteSet(Now) /\ github \in Kept
         /\ past # <<>> /\ past[1] \in Range(past) /\ 1 \in 1..Len(past)
<1>1. github \in Kept /\ past \in Seq(Kept)
  BY RangeKept DEF GatherInv
<1>2. Now \in SUBSET (1..MaxId) /\ MaxId \in Nat
  BY <1>1, KeptRulesets, GatherFactsAssumption DEF Now
<1>3. IsFiniteSet(1..MaxId)
  BY <1>2, FS_Interval
<1>4. PICK n \in 1..Len(past) : github = past[n]
  BY <1>1 DEF GatherInv, Range
<1>5. past # <<>> /\ 1 \in 1..Len(past) /\ DOMAIN past = 1..Len(past)
  BY <1>1, <1>4
<1>6. past[1] \in Range(past)
  BY <1>5 DEF Range
<1>7. Now \in SUBSET Nat /\ IsFiniteSet(Now)
  <2>1. 1..MaxId \subseteq Nat
    BY <1>2
  <2> QED
    BY <1>2, <1>3, <2>1, FS_Subset
<1> QED
  BY <1>1, <1>5, <1>6, <1>7

-----------------------------------------------------------------------------
(* Changes by others *)

Changes == ChangeSettings \/ Protect \/ ChangeRulesets \/ Push

Removed(id) == id \in Now /\ Now' = Now \ {id}
Created(id) == /\ id \in Nat /\ Now' = Now \cup {id}
               /\ \A g \in Range(past) : id \notin DOMAIN g.rulesets

LEMMA ChangedRulesets ==
  ASSUME GatherInv, Changes
  PROVE  /\ UNCHANGED <<access, order, program>> /\ past' = Append(past, github')
         /\ pc \notin {"done", "failed"}
         /\ Now' = Now \/ \E id : Removed(id) \/ Created(id)
<1>1. /\ UNCHANGED <<access, order, program>> /\ past' = Append(past, github')
      /\ pc \notin {"done", "failed"}
  BY DEF Changes, ChangeSettings, Protect, ChangeRulesets, Push, Edit
<1>2. github \in Kept /\ DOMAIN github.rulesets \in SUBSET (1..MaxId)
  BY NowFinite, KeptRulesets
<1>3. CASE github'.rulesets = github.rulesets
  BY <1>1, <1>3 DEF Now
<1>4. CASE ChangeSettings \/ Protect \/ Push
  <2>1. github'.rulesets = github.rulesets
    BY <1>2, <1>4 DEF ChangeSettings, Protect, Push, Edit, Kept
  <2> QED
    BY <1>3, <2>1
<1>5. CASE ChangeRulesets
  <2>1. PICK rulesets : /\ github' = [github EXCEPT !.rulesets = rulesets]
                        /\ \/ \E id \in DOMAIN github.rulesets :
                                \/ rulesets = [github.rulesets EXCEPT ![id] = "new"]
                                \/ rulesets = [i \in (DOMAIN github.rulesets) \ {id}
                                                 |-> github.rulesets[i]]
                           \/ \E id \in 1..MaxId :
                                /\ \A g \in Range(past) : \A i \in DOMAIN g.rulesets : i < id
                                /\ rulesets = [i \in (DOMAIN github.rulesets) \cup {id} |->
                                                 IF i = id THEN "old" ELSE github.rulesets[i]]
    BY <1>5 DEF ChangeRulesets, Edit
  <2>2. Now' = DOMAIN rulesets
    BY <1>2, <2>1 DEF Now, Kept
  <2>3. CASE \E id \in DOMAIN github.rulesets : rulesets = [github.rulesets EXCEPT ![id] = "new"]
    BY <1>1, <2>2, <2>3 DEF Now
  <2>4. ASSUME NEW id \in DOMAIN github.rulesets,
               rulesets = [i \in (DOMAIN github.rulesets) \ {id} |-> github.rulesets[i]]
        PROVE  Removed(id)
    BY <2>2, <2>4 DEF Now, Removed
  <2>5. ASSUME NEW id \in 1..MaxId,
               \A g \in Range(past) : \A i \in DOMAIN g.rulesets : i < id,
               rulesets = [i \in (DOMAIN github.rulesets) \cup {id} |->
                             IF i = id THEN "old" ELSE github.rulesets[i]]
        PROVE  Created(id)
    <3>1. Now' = Now \cup {id}
      BY <2>2, <2>5 DEF Now
    <3>2. \A g \in Range(past) : id \notin DOMAIN g.rulesets
      <4> SUFFICES ASSUME NEW g \in Range(past), id \in DOMAIN g.rulesets PROVE FALSE
        OBVIOUS
      <4>1. id < id
        BY <2>5
      <4> QED
        BY <4>1
    <3> QED
      BY <3>1, <3>2 DEF Created
  <2> QED
    BY <1>1, <2>1, <2>3, <2>4, <2>5
<1> QED
  BY <1>1, <1>4, <1>5 DEF Changes

(* What a change adds to the past, and that it takes nothing back.         *)
LEMMA PastGrows ==
  ASSUME GatherInv, Changes
  PROVE  /\ Range(past) \subseteq Range(past)' /\ github \in Range(past)
         /\ First' = First /\ facts' = facts /\ toGet' = toGet /\ page' = page /\ pc' = pc
<1>1. github' \in Kept
  <2>1. past' \in Seq(Kept) /\ github' \in Range(past)'
    BY ChangesKeep DEF GatherInv, Changes
  <2> QED
    BY <2>1 DEF Range
<1>2. past \in Seq(Kept) /\ past' = Append(past, github')
  BY ChangedRulesets DEF GatherInv
<1>3. Range(past) \subseteq Range(past)'
  BY <1>1, <1>2, RangeAppended
<1>4. past'[1] = past[1]
  BY <1>2, NowFinite
<1> QED
  BY <1>3, <1>4, ChangedRulesets DEF GatherInv, First, program

(* If none flashed now, none had before the change; and a ruleset that is  *)
(* removed was there from the first.                                       *)
LEMMA ChangeRemembers ==
  ASSUME GatherInv, Changes, NoneFlashed'
  PROVE  /\ NoneFlashed /\ Standing' \subseteq Standing
         /\ \A id : Removed(id) => id \in First
<1>1. /\ Range(past) \subseteq Range(past)' /\ github \in Range(past) /\ First' = First
      /\ past[1] \in Range(past)
  BY PastGrows, NowFinite
<1>2. \A g \in Range(past) : DOMAIN g.rulesets \subseteq First \cup Now'
  BY <1>1 DEF NoneFlashed
<1>3. CASE Now' = Now
  BY <1>1, <1>2, <1>3 DEF NoneFlashed, Standing, Removed
<1>4. ASSUME NEW id, Removed(id)
      PROVE  NoneFlashed /\ Standing' \subseteq Standing /\ id \in First
  BY <1>1, <1>2, <1>4 DEF NoneFlashed, Standing, Removed, Now
<1>5. ASSUME NEW id, Created(id)
      PROVE  NoneFlashed /\ Standing' \subseteq Standing /\ \A i : ~Removed(i)
  <2>1. \A g \in Range(past) : DOMAIN g.rulesets \subseteq First \cup Now
    BY <1>2, <1>5 DEF Created
  <2>2. id \notin First /\ id \notin Now
    BY <1>1, <1>5 DEF Created, First, Now
  <2> QED
    BY <1>1, <1>5, <2>1, <2>2 DEF Created, NoneFlashed, Standing, Removed
<1> QED
  BY <1>3, <1>4, <1>5, ChangedRulesets

LEMMA ChangesList ==
  ASSUME GatherInv, ListInv, Changes
  PROVE  ListInv'
<1> DEFINE K == (page - 1) * PageSize
<1>1. /\ Range(past) \subseteq Range(past)' /\ github \in Range(past) /\ First' = First
      /\ facts' = facts /\ toGet' = toGet /\ page' = page /\ pc' = pc
  BY PastGrows
<1>2. K \in Nat
  BY GatherFactsAssumption DEF ListInv
<1>3. ASSUME pc \in {"rulesets", "ruleset"}, NoneFlashed', Range(toGet) \subseteq Now'
      PROVE  Range(toGet) \subseteq Now
  <2>1. \A id \in Range(toGet) : \E g \in Range(past) : id \in DOMAIN g.rulesets
    BY <1>3 DEF ListInv
  <2> QED
    BY <1>3, <2>1, ChangedRulesets DEF Removed, Created
<1>4. ASSUME pc = "rulesets", NoneFlashed', Range(toGet) \subseteq Now',
             NEW id \in Standing', Position(id, Now)' <= K
      PROVE  id \in Range(toGet)
  <2>1. \A i \in Standing : Position(i, Now) <= K => i \in Range(toGet)
    BY <1>3, <1>4, ChangeRemembers DEF ListInv
  <2>2. id \in Standing /\ id \in Now /\ id \in Now'
    BY <1>4, ChangeRemembers DEF Standing
  <2>3. Position(id, Now') <= K
    BY <1>4, ChangedRulesets DEF Position
  <2>4. Now \in SUBSET Nat /\ IsFiniteSet(Now)
    BY NowFinite
  <2>5. CASE Now' = Now
    BY <2>1, <2>2, <2>3, <2>5
  <2>6. ASSUME NEW gone, Removed(gone) PROVE id \in Range(toGet)
    <3>1. gone \in Standing /\ gone \notin Range(toGet) /\ gone \in Now /\ Now' = Now \ {gone}
      BY <1>4, <2>6, ChangeRemembers DEF Removed, Standing
    <3>2. ~(Position(gone, Now) <= K)
      BY <2>1, <3>1
    <3>3. /\ Position(gone, Now) \in Nat /\ Position(id, Now) \in Nat
          /\ id # gone /\ id \in Now \ {gone}
      BY <2>2, <2>4, <3>1, PositionOf
    <3>4. Position(id, Now \ {gone}) =
            IF gone \in Upto(id, Now) THEN Position(id, Now) - 1 ELSE Position(id, Now)
      BY <2>4, <3>1, <3>3, PositionsWithout
    <3>5. gone \notin Upto(id, Now)
      <4> SUFFICES ASSUME gone \in Upto(id, Now) PROVE FALSE
        OBVIOUS
      <4>1. Position(gone, Now) < Position(id, Now)
        BY <2>2, <2>4, <3>1, <3>3, PositionsGrow
      <4>2. Position(id, Now) - 1 <= K
        BY <2>3, <3>1, <3>4
      <4> QED
        BY <1>2, <3>2, <3>3, <4>1, <4>2
    <3> QED
      BY <2>1, <2>2, <2>3, <3>1, <3>4, <3>5
  <2>7. ASSUME NEW new, Created(new) PROVE id \in Range(toGet)
    <3>1. Now' = Now \cup {new} /\ new \in Nat
      BY <2>7 DEF Created
    <3>2. Position(id, Now) <= Position(id, Now')
      BY <2>2, <2>4, <3>1, PositionsWith
    <3>3. Position(id, Now) \in Nat /\ Position(id, Now') \in Nat
      <4>1. Now' \in SUBSET Nat /\ IsFiniteSet(Now')
        BY <2>4, <3>1, FS_AddElement
      <4> QED
        BY <2>2, <2>4, <4>1, PositionOf
    <3>4. Position(id, Now) <= K
      BY <1>2, <2>3, <3>2, <3>3
    <3> QED
      BY <2>1, <2>2, <3>4
  <2> QED
    BY <2>5, <2>6, <2>7, ChangedRulesets
<1>5. ASSUME pc = "ruleset", NoneFlashed', Range(toGet) \subseteq Now'
      PROVE  Standing' \subseteq Range(toGet) \cup Got'
  BY <1>1, <1>3, <1>5, ChangeRemembers DEF ListInv, Got
<1>6. ASSUME pc \in {"protection", "tree", "workflow", "done"}, NoneFlashed'
      PROVE  Standing' \subseteq Got'
  BY <1>1, <1>6, ChangeRemembers DEF ListInv, Got
<1>7. /\ \A r \in facts'.rulesets : \E g \in Range(past)' : \E id \in DOMAIN g.rulesets :
           r = <<id, g.rulesets[id]>>
      /\ pc \in {"rulesets", "ruleset"} =>
           \A id \in Range(toGet) : \E g \in Range(past)' : id \in DOMAIN g.rulesets
  <2>1. /\ \A r \in facts.rulesets : \E g \in Range(past) : \E id \in DOMAIN g.rulesets :
             r = <<id, g.rulesets[id]>>
        /\ pc \in {"rulesets", "ruleset"} =>
             \A id \in Range(toGet) : \E g \in Range(past) : id \in DOMAIN g.rulesets
    BY DEF ListInv
  <2> QED
    BY <1>1, <2>1
<1>8. Range(toGet)' = Range(toGet)
  BY <1>1
<1> QED
  BY <1>1, <1>4, <1>5, <1>6, <1>7, <1>8 DEF ListInv

-----------------------------------------------------------------------------
(* The calls *)

Stays ==
  UNCHANGED <<github, access, order, past>>

LEMMA CallsStay == Call \/ Fail => Stays
  BY DEF Call, Fail, GetRepo, GetForkPolicy, GetWorkflowPermissions, ListRulesets, GetRuleset,
         GetProtection, GetTree, GetWorkflow, GitHubStays, Stays

LEMMA ListKeepsList ==
  ASSUME GatherInv, ListInv, ListRulesets
  PROVE  ListInv'
<1> DEFINE K    == (page - 1) * PageSize
           next == ParseNextLink(Link(page, PagesOf(Now)))
           more == Listed(page, Now)
<1>1. /\ pc = "rulesets" /\ facts' = facts /\ toGet' = toGet \o more
      /\ IF next = {} THEN pc' = "ruleset" /\ page' = 1 ELSE pc' = pc /\ page' \in next
      /\ UNCHANGED <<github, order, past>>
  BY DEF ListRulesets, Listed, Now, GitHubStays
<1>2. /\ page \in Nat \ {0} /\ K \in Nat /\ page * PageSize \in Nat
      /\ (page + 1 - 1) * PageSize = page * PageSize
  BY GatherFactsAssumption DEF ListInv
<1>3. /\ Now \in SUBSET Nat /\ IsFiniteSet(Now) /\ github \in Range(past)
      /\ First' = First /\ Now' = Now /\ NoneFlashed' = NoneFlashed
  BY <1>1, NowFinite DEF GatherInv, First, Now, NoneFlashed
<1>4. /\ more \in Seq(Now)
      /\ \A id \in Now : K < Position(id, Now) /\ Position(id, Now) <= page * PageSize
                           => id \in Range(more)
  BY <1>2, <1>3, PageLists
<1>5. /\ PagesOf(Now) \in Nat /\ Cardinality(Now) <= PagesOf(Now) * PageSize
      /\ next = IF page < PagesOf(Now) THEN {page + 1} ELSE {}
  BY <1>2, <1>3, PagesSuffice, NextPage
<1> HIDE DEF K, next, more
<1>6. toGet \in Seq(Nat) /\ \A id \in Range(toGet) : \E g \in Range(past) : id \in DOMAIN g.rulesets
  BY <1>1 DEF ListInv
<1>7. /\ more \in Seq(Nat) /\ Range(more) \subseteq Now
  <2>1. Range(more) \subseteq Now
    BY <1>4, RangeOfSeq
  <2>2. more \in Seq(Nat)
    BY <1>3, <1>4, SeqOfMore
  <2> QED
    BY <2>1, <2>2
<1>8. toGet' \in Seq(Nat) /\ Range(toGet') = Range(toGet) \cup Range(more)
  BY <1>1, <1>6, <1>7, RangeJoined
<1>9. \A id \in Range(toGet') : \E g \in Range(past) : id \in DOMAIN g.rulesets
  BY <1>3, <1>6, <1>7, <1>8 DEF Now
<1>10. ASSUME NoneFlashed, Range(toGet') \subseteq Now, NEW id \in Standing,
              Position(id, Now) <= page * PageSize
       PROVE  id \in Range(toGet')
  <2>0. id \in Now
    BY DEF Standing
  <2>1. Position(id, Now) \in Nat
    BY <1>3, <2>0, PositionOf
  <2>2. CASE Position(id, Now) <= K
    BY <1>1, <1>8, <1>10, <2>2 DEF ListInv, K
  <2>3. CASE ~(Position(id, Now) <= K)
    BY <1>2, <1>4, <1>8, <1>10, <2>0, <2>1, <2>3
  <2> QED
    BY <2>2, <2>3
<1>11. CASE next = {}
  <2>1. PagesOf(Now) * PageSize <= page * PageSize
    BY <1>2, <1>5, <1>11, GatherFactsAssumption
  <2>2. ASSUME NEW id \in Now PROVE Position(id, Now) <= page * PageSize
    <3>1. Position(id, Now) \in 1..Cardinality(Now) /\ Cardinality(Now) \in Nat
      BY <1>3, PositionOf
    <3>2. PagesOf(Now) * PageSize \in Nat
      BY <1>5, GatherFactsAssumption
    <3> HIDE DEF Now
    <3> QED
      BY <1>2, <1>5, <2>1, <3>1, <3>2
  <2>3. NoneFlashed /\ Range(toGet') \subseteq Now => Standing \subseteq Range(toGet')
    BY <1>10, <2>2 DEF Standing
  <2> QED
    BY <1>1, <1>3, <1>8, <1>9, <1>11, <2>3 DEF ListInv, Standing, Got
<1>12. CASE next # {}
  <2>1. page' = page + 1 /\ pc' = "rulesets"
    BY <1>1, <1>5, <1>12
  <2>2. ASSUME NEW id PROVE Position(id, Now)' = Position(id, Now)
    BY <1>1, <1>3 DEF Position
  <2>3. (page' - 1) * PageSize = page * PageSize /\ page' \in Nat \ {0}
    BY <1>2, <2>1
  <2>4. ASSUME NoneFlashed', Range(toGet') \subseteq Now', NEW id \in Standing',
               Position(id, Now)' <= (page' - 1) * PageSize
        PROVE  id \in Range(toGet')
    BY <1>3, <1>10, <2>2, <2>3, <2>4 DEF Standing
  <2> QED
    BY <1>1, <1>3, <1>8, <1>9, <2>1, <2>3, <2>4 DEF ListInv
<1> QED
  BY <1>11, <1>12

LEMMA GetKeepsList ==
  ASSUME GatherInv, ListInv, GetRuleset
  PROVE  ListInv'
<1>1. /\ pc = "ruleset" /\ UNCHANGED <<github, order, past, page>>
      /\ github \in Range(past)
      /\ toGet \in Seq(Nat)
  BY DEF GetRuleset, GitHubStays, GatherInv, ListInv
<1>2. First' = First /\ Now' = Now /\ NoneFlashed' = NoneFlashed /\ Standing' = Standing
  BY <1>1 DEF First, Now, NoneFlashed, Standing
<1>3. CASE toGet = <<>>
  <2>1. pc' = "protection" /\ UNCHANGED <<toGet, facts>>
    BY <1>3 DEF GetRuleset
  <2>2. NoneFlashed => Standing \subseteq Got
    BY <1>1, <1>3, RangeOfNone DEF ListInv
  <2> QED
    BY <1>1, <1>2, <2>1, <2>2 DEF ListInv, Got
<1>4. CASE toGet # <<>>
  <2> DEFINE id == Head(toGet)
             r  == <<id, github.rulesets[id]>>
  <2>1. /\ id \in Now /\ toGet' = Tail(toGet) /\ pc' = "ruleset"
        /\ facts' = [facts EXCEPT !.rulesets = @ \cup {r}]
    BY <1>1, <1>4 DEF GetRuleset, Now
  <2>2. /\ Tail(toGet) \in Seq(Nat)
        /\ Range(toGet) = {id} \cup Range(Tail(toGet))
    BY <1>1, <1>4, RangeSplit
  <2>3. facts'.rulesets = facts.rulesets \cup {r}
    BY <2>1 DEF GatherInv, FactsShape
  <2>4. Got' = Got \cup {id}
    <3>1. r[1] = id
      OBVIOUS
    <3> HIDE DEF r, id
    <3> QED
      BY <2>3, <3>1 DEF Got
  <2>5. ASSUME NoneFlashed, Range(toGet') \subseteq Now
        PROVE  Standing \subseteq Range(toGet') \cup Got'
    <3>1. Range(toGet) \subseteq Now
      BY <2>1, <2>2, <2>5
    <3>2. Standing \subseteq Range(toGet) \cup Got
      BY <1>1, <2>5, <3>1 DEF ListInv
    <3> QED
      BY <2>1, <2>2, <2>4, <3>2
  <2>6. \A x \in facts'.rulesets : \E g \in Range(past) : \E i \in DOMAIN g.rulesets :
          x = <<i, g.rulesets[i]>>
    BY <1>1, <2>1, <2>3 DEF ListInv, Now
  <2>7. \A i \in Range(toGet') : \E g \in Range(past) : i \in DOMAIN g.rulesets
    BY <1>1, <2>1, <2>2 DEF ListInv
  <2> QED
    BY <1>1, <1>2, <2>1, <2>2, <2>5, <2>6, <2>7 DEF ListInv
<1> QED
  BY <1>3, <1>4

LEMMA OtherCallsList ==
  ASSUME GatherInv, ListInv,
         Fail \/ GetRepo \/ GetForkPolicy \/ GetWorkflowPermissions \/ GetProtection
           \/ GetTree \/ GetWorkflow
  PROVE  ListInv'
<1>1. Stays /\ page' = page
  BY CallsStay DEF Call, Fail, GetRepo, GetForkPolicy, GetWorkflowPermissions, GetProtection,
                   GetTree, GetWorkflow
<1>2. First' = First /\ Now' = Now /\ NoneFlashed' = NoneFlashed /\ Standing' = Standing
  BY <1>1 DEF Stays, First, Now, NoneFlashed, Standing
<1>3. CASE Fail
  BY <1>1, <1>3 DEF Fail, NoFacts, ListInv
<1>4. CASE ~Fail
  <2>1. facts'.rulesets = facts.rulesets
    BY <1>4 DEF GetRepo, GetForkPolicy, GetWorkflowPermissions, GetProtection, GetTree,
                GetWorkflow, GatherInv, FactsShape
  <2>2. \/ /\ pc \in {"repo", "fork", "permissions"} /\ toGet' = toGet
           /\ pc' \in {"fork", "permissions", "rulesets"}
        \/ /\ pc \in {"protection", "tree", "workflow"}
           /\ pc' \in {"tree", "workflow", "done"}
    BY <1>4 DEF GetRepo, GetForkPolicy, GetWorkflowPermissions, GetProtection, GetTree,
                GetWorkflow
  <2>3. CASE pc \in {"repo", "fork", "permissions"}
    <3>1. toGet' = <<>> /\ page' = 1 /\ toGet' \in Seq(Nat) /\ Range(toGet') = {}
      <4>1. toGet' = <<>> /\ page' = 1
        BY <1>1, <2>2, <2>3 DEF ListInv
      <4> QED
        BY <4>1, RangeOfNone
    <3>2. ASSUME NEW id \in Standing, Position(id, Now)' <= (page' - 1) * PageSize PROVE FALSE
      <4>1. Position(id, Now)' = Position(id, Now)
        BY <1>1 DEF Stays, Position, Now
      <4>2. id \in Now /\ Position(id, Now) \in Nat \ {0}
        BY NowFinite, PositionOf DEF Standing
      <4>3. (page' - 1) * PageSize = 0
        BY <3>1, GatherFactsAssumption
      <4> QED
        BY <3>2, <4>1, <4>2, <4>3
    <3> QED
      BY <1>1, <1>2, <2>1, <2>2, <2>3, <3>1, <3>2 DEF ListInv, Stays
  <2>4. CASE pc \in {"protection", "tree", "workflow"}
    BY <1>1, <1>2, <2>1, <2>2, <2>4 DEF ListInv, Stays, Got
  <2> QED
    BY <2>2, <2>3, <2>4
<1> QED
  BY <1>3, <1>4

-----------------------------------------------------------------------------
(* The tree *)

LEMMA ChangesKeepTree ==
  ASSUME GatherInv, TreeInv, Changes
  PROVE  TreeInv'
<1>1. /\ past \in Seq(Kept) /\ past' = Append(past, github') /\ github' \in Kept
      /\ UNCHANGED <<pc, toGet, facts>>
  <2>1. past' \in Seq(Kept) /\ github' \in Range(past)'
    BY ChangesKeep DEF GatherInv, Changes
  <2>2. github' \in Kept
    BY <2>1 DEF Range
  <2> QED
    BY <2>2, ChangedRulesets DEF GatherInv, program
<1>2. /\ Len(past') = Len(past) + 1 /\ past'[Len(past) + 1] = github'
      /\ Len(past) \in Nat /\ DOMAIN past = 1..Len(past) /\ DOMAIN past' = 1..Len(past')
      /\ \A n \in 1..Len(past) : past'[n] = past[n]
  BY <1>1
<1>3. github' = past'[Len(past')]
  BY <1>2
<1>4. ASSUME NEW n \in DOMAIN past, ~past[n].truncated,
             facts.files = {p \in DOMAIN past[n].files : p.kind # "tree"},
             \A w \in facts.workflows : \E m \in n..Len(past) :
               \E p \in DOMAIN past[m].files : w = <<p, past[m].files[p]>>
      PROVE  /\ n \in DOMAIN past' /\ ~past'[n].truncated
             /\ facts.files = {p \in DOMAIN past'[n].files : p.kind # "tree"}
             /\ \A w \in facts.workflows : \E m \in n..Len(past') :
                  \E p \in DOMAIN past'[m].files : w = <<p, past'[m].files[p]>>
  <2>1. n \in 1..Len(past') /\ past'[n] = past[n]
    BY <1>2
  <2>2. ASSUME NEW w \in facts.workflows
        PROVE  \E m \in n..Len(past') :
                 \E p \in DOMAIN past'[m].files : w = <<p, past'[m].files[p]>>
    <3>1. PICK m \in n..Len(past) : \E p \in DOMAIN past[m].files : w = <<p, past[m].files[p]>>
      BY <1>4
    <3>2. m \in n..Len(past') /\ m \in 1..Len(past) /\ past'[m] = past[m]
      BY <1>2
    <3> QED
      BY <3>1, <3>2
  <2> QED
    BY <1>2, <1>4, <2>1, <2>2
<1>5. pc \in {"workflow", "done"} =>
        \E n \in DOMAIN past' :
          /\ ~past'[n].truncated
          /\ facts.files = {p \in DOMAIN past'[n].files : p.kind # "tree"}
          /\ \A w \in facts.workflows : \E m \in n..Len(past') :
               \E p \in DOMAIN past'[m].files : w = <<p, past'[m].files[p]>>
  BY <1>4 DEF TreeInv
<1> QED
  BY <1>1, <1>3, <1>5 DEF TreeInv

LEMMA CallsKeepTree ==
  ASSUME GatherInv, TreeInv, Call \/ Fail
  PROVE  TreeInv'
<1>1. /\ UNCHANGED <<github, past>> /\ github = past[Len(past)]
      /\ Len(past) \in DOMAIN past /\ Len(past) \in Nat /\ github \in Kept
  <2>1. past \in Seq(Kept) /\ past # <<>>
    BY NowFinite DEF GatherInv
  <2>2. Len(past) \in DOMAIN past /\ Len(past) \in Nat
    BY <2>1
  <2> QED
    BY <2>2, CallsStay, NowFinite DEF Stays, TreeInv
<1>2. CASE Fail
  BY <1>1, <1>2 DEF Fail, NoFacts, TreeInv
<1>3. CASE GetRepo \/ GetForkPolicy \/ GetWorkflowPermissions \/ ListRulesets \/ GetRuleset
            \/ GetProtection
  <2>1. /\ pc \notin {"workflow", "done"} /\ pc' \notin {"workflow", "done"}
        /\ facts'.workflows = facts.workflows
    BY <1>3 DEF GetRepo, GetForkPolicy, GetWorkflowPermissions, ListRulesets, GetRuleset,
                GetProtection, GatherInv, FactsShape
  <2> QED
    BY <1>1, <2>1 DEF TreeInv
<1>4. CASE GetTree
  <2> DEFINE paths == {p \in DOMAIN github.files : IsWorkflowPath(p)}
  <2>1. /\ pc = "tree" /\ pc' = "workflow" /\ ~github.truncated
        /\ toGet' = SetToSeq(paths)
        /\ facts'.files = {p \in DOMAIN github.files : p.kind # "tree"}
        /\ facts'.workflows = {}
    BY <1>4 DEF GetTree, GatherInv, FactsShape, TreeInv
  <2>2. paths \in SUBSET Paths /\ IsFiniteSet(paths)
    BY <1>1, KeptFiles, GatherFactsAssumption, FS_Subset
  <2>3. paths = {p \in facts'.files : IsWorkflowPath(p)}
    BY <2>1 DEF IsWorkflowPath
  <2> HIDE DEF paths
  <2>4. toGet' \in Seq(paths) /\ Range(toGet') = paths
    BY <2>1, <2>2, SeqOfSet
  <2>5. toGet' \in Seq(Paths)
    BY <2>2, <2>4, SeqOfMore
  <2>6. {w[1] : w \in facts'.workflows} = {}
    BY <2>1
  <2> QED
    BY <1>1, <2>1, <2>3, <2>4, <2>5, <2>6 DEF TreeInv
<1>5. CASE GetWorkflow /\ toGet = <<>>
  <2>1. pc = "workflow" /\ pc' = "done" /\ UNCHANGED <<toGet, facts>>
    BY <1>5 DEF GetWorkflow
  <2> QED
    BY <1>1, <1>5, <2>1 DEF TreeInv
<1>6. CASE GetWorkflow /\ toGet # <<>>
  <2> DEFINE path == Head(toGet)
             w    == <<path, github.files[path]>>
  <2>1. /\ pc = "workflow" /\ pc' = "workflow" /\ path \in DOMAIN github.files
        /\ toGet' = Tail(toGet)
        /\ facts' = [facts EXCEPT !.workflows = @ \cup {w}]
    BY <1>6 DEF GetWorkflow
  <2>2. facts'.files = facts.files /\ facts'.workflows = facts.workflows \cup {w}
    BY <2>1 DEF GatherInv, FactsShape
  <2>3. toGet \in Seq(Paths)
    BY <2>1 DEF TreeInv
  <2>4. Tail(toGet) \in Seq(Paths) /\ Range(toGet) = {path} \cup Range(Tail(toGet))
    BY <1>6, <2>3, RangeSplit
  <2>5. w[1] = path
    OBVIOUS
  <2>6. {v[1] : v \in facts'.workflows} = {v[1] : v \in facts.workflows} \cup {path}
    <3> HIDE DEF w, path
    <3> QED
      BY <2>2, <2>5
  <2>7. PICK n \in DOMAIN past :
          /\ ~past[n].truncated
          /\ facts.files = {p \in DOMAIN past[n].files : p.kind # "tree"}
          /\ \A v \in facts.workflows : \E m \in n..Len(past) :
               \E p \in DOMAIN past[m].files : v = <<p, past[m].files[p]>>
    BY <2>1 DEF TreeInv
  <2>8. Len(past) \in n..Len(past)
    <3>1. DOMAIN past = 1..Len(past)
      BY DEF GatherInv
    <3> QED
      BY <1>1, <2>7, <3>1
  <2>9. \A v \in facts'.workflows : \E m \in n..Len(past) :
          \E p \in DOMAIN past[m].files : v = <<p, past[m].files[p]>>
    BY <1>1, <2>1, <2>2, <2>7, <2>8
  <2>10. Range(toGet') \cup {v[1] : v \in facts'.workflows} =
           {p \in facts'.files : IsWorkflowPath(p)}
    <3>1. Range(toGet) \cup {v[1] : v \in facts.workflows} =
            {p \in facts.files : IsWorkflowPath(p)}
      BY <2>1 DEF TreeInv
    <3> HIDE DEF w, path
    <3> QED
      BY <2>1, <2>2, <2>4, <2>6, <3>1
  <2>11. \E k \in DOMAIN past' :
           /\ ~past'[k].truncated
           /\ facts'.files = {p \in DOMAIN past'[k].files : p.kind # "tree"}
           /\ \A v \in facts'.workflows : \E m \in k..Len(past') :
                \E p \in DOMAIN past'[m].files : v = <<p, past'[m].files[p]>>
    BY <1>1, <2>2, <2>7, <2>9
  <2> HIDE DEF w, path
  <2> QED
    BY <1>1, <2>1, <2>4, <2>10, <2>11 DEF TreeInv
<1> QED
  BY <1>2, <1>3, <1>4, <1>5, <1>6 DEF Call

-----------------------------------------------------------------------------
(* Nothing is missed *)

CompleteInv == GatherInv /\ ListInv /\ TreeInv

LEMMA CompleteInit == Init => CompleteInv
<1> SUFFICES ASSUME Init PROVE CompleteInv
  OBVIOUS
<1>1. /\ pc = "repo" /\ toGet = <<>> /\ page = 1 /\ facts = NoFacts /\ past = <<github>>
  BY DEF Init
<1>2. github = past[Len(past)]
  BY <1>1
<1> QED
  BY <1>1, <1>2, GatherInit DEF CompleteInv, ListInv, TreeInv, NoFacts

LEMMA CompleteStep == CompleteInv /\ [Next]_vars => CompleteInv'
<1> SUFFICES ASSUME CompleteInv, [Next]_vars PROVE CompleteInv'
  OBVIOUS
<1>1. CASE Call \/ Fail
  BY <1>1, CallKeeps, ListKeepsList, GetKeepsList, OtherCallsList, CallsKeepTree
     DEF CompleteInv, Call
<1>2. CASE Changes
  BY <1>2, ChangesKeep, ChangesList, ChangesKeepTree DEF CompleteInv, Changes
<1>3. CASE UNCHANGED vars
  <2>1. UNCHANGED <<github, order, past, pc, page, toGet, facts>>
    BY <1>3 DEF vars, program
  <2>2. First' = First /\ Now' = Now /\ NoneFlashed' = NoneFlashed /\ Standing' = Standing
        /\ Got' = Got
    BY <2>1 DEF First, Now, NoneFlashed, Standing, Got
  <2>3. ASSUME NEW id PROVE Position(id, Now)' = Position(id, Now)
    BY <2>1, <2>2 DEF Position
  <2>4. ListInv'
    BY <2>1, <2>2, <2>3 DEF CompleteInv, ListInv
  <2>5. TreeInv'
    BY <2>1 DEF CompleteInv, TreeInv
  <2>6. GatherInv'
    BY <1>3 DEF CompleteInv, vars, program, GatherInv, FactsShape, FlagHad, ForkHad,
                PermissionHad, ProtectionHad
  <2> QED
    BY <2>4, <2>5, <2>6 DEF CompleteInv
<1> QED
  BY <1>1, <1>2, <1>3 DEF Next, Changes

THEOREM CompleteInvariant == Spec => []CompleteInv
  BY CompleteInit, CompleteStep, PTL DEF Spec

(* get_paginated_json (src/github/client.rs), page by page while others    *)
(* create and delete rulesets, and fetch_rulesets (src/facts.rs) miss none *)
(* that was there all the time, for any page size and either order of the  *)
(* list.                                                                   *)
THEOREM NoRulesetIsMissed == Spec => []NoRulesetMissed
<1>1. CompleteInv => NoRulesetMissed
  <2> SUFFICES ASSUME CompleteInv, pc = "done" PROVE NoRulesetMissed
    BY DEF NoRulesetMissed
  <2>1. \A r \in facts.rulesets : \E g \in Range(past) : \E id \in DOMAIN g.rulesets :
          r = <<id, g.rulesets[id]>>
    BY DEF CompleteInv, ListInv
  <2>2. ASSUME NEW r \in facts.rulesets
        PROVE  \E g \in Range(past) : r[1] \in DOMAIN g.rulesets /\ g.rulesets[r[1]] = r[2]
    BY <2>1
  <2>3. ASSUME NoneFlashed, NEW id \in Standing
        PROVE  \E v \in Versions : <<id, v>> \in facts.rulesets
    <3>1. id \in Got
      BY <2>3 DEF CompleteInv, ListInv
    <3>2. PICK r \in facts.rulesets : r[1] = id
      BY <3>1 DEF Got
    <3>3. PICK g \in Range(past) : \E i \in DOMAIN g.rulesets : r = <<i, g.rulesets[i]>>
      BY <2>1
    <3>4. PICK i \in DOMAIN g.rulesets : r = <<i, g.rulesets[i]>>
      BY <3>3
    <3>5. i = id /\ g.rulesets[i] \in Versions
      <4>1. g \in Kept
        BY RangeKept DEF CompleteInv, GatherInv
      <4> QED
        BY <3>2, <3>4, <4>1, KeptRulesets
    <3> QED
      BY <3>4, <3>5
  <2> QED
    BY <2>2, <2>3 DEF NoRulesetMissed, NoneFlashed, Standing, First, Now
<1> QED
  BY <1>1, CompleteInvariant, PTL

(* fetch_workflows and is_workflow_path (src/facts.rs) leave out no        *)
(* workflow of the tree they read, and take nothing else for one, whatever *)
(* is pushed meanwhile.                                                    *)
THEOREM WorkflowsAreAlwaysFiles == Spec => []WorkflowsAreFiles
<1>1. CompleteInv => WorkflowsAreFiles
  <2> SUFFICES ASSUME CompleteInv, pc = "done" PROVE WorkflowsAreFiles
    BY DEF WorkflowsAreFiles
  <2>1. Range(toGet) = {}
    BY RangeOfNone DEF CompleteInv, TreeInv
  <2>2. {w[1] : w \in facts.workflows} = {p \in facts.files : IsWorkflowPath(p)}
    BY <2>1 DEF CompleteInv, TreeInv
  <2>3. PICK n \in DOMAIN past :
          /\ ~past[n].truncated
          /\ facts.files = {p \in DOMAIN past[n].files : p.kind # "tree"}
          /\ \A w \in facts.workflows : \E m \in n..Len(past) :
               \E p \in DOMAIN past[m].files : w = <<p, past[m].files[p]>>
    BY DEF CompleteInv, TreeInv
  <2>4. past[n] \in Kept
    BY <2>3 DEF CompleteInv, GatherInv
  <2>5. DOMAIN past[n].files \in SUBSET Paths
    BY <2>4, KeptFiles
  <2>6. facts.files = {p \in DOMAIN past[n].files : p.kind \in {"blob", "commit"}}
    BY <2>3, <2>5, GatherFactsAssumption
  <2>7. \A w \in facts.workflows : \E m \in n..Len(past) :
          w[1] \in DOMAIN past[m].files /\ past[m].files[w[1]] = w[2]
    <3> TAKE w \in facts.workflows
    <3>1. PICK m \in n..Len(past) : \E p \in DOMAIN past[m].files : w = <<p, past[m].files[p]>>
      BY <2>3
    <3> QED
      BY <3>1
  <2> QED
    BY <2>2, <2>3, <2>6, <2>7 DEF WorkflowsAreFiles, IsWorkflowPath
<1> QED
  BY <1>1, CompleteInvariant, PTL
=============================================================================
