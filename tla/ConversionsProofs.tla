-------------------------- MODULE ConversionsProofs --------------------------
(***************************************************************************)
(* What the conversions promise, for every input: patterns and filters     *)
(* admit what GitHub documents; no use, trigger or secret of a workflow    *)
(* file is hidden from the rules; the legacy protection of a branch may be *)
(* deleted when it is superseded, whatever the rulesets and the protection *)
(* are and whatever is attempted; pinning the actions of workflow files is *)
(* exact; a token's time of expiry is read as the calendar has it; and     *)
(* Loki keeps every result it is sent.                                     *)
(***************************************************************************)
EXTENDS Conversions, TextProofs, FiniteSetTheorems

-----------------------------------------------------------------------------
(* Finite sets                                                             *)

(* A function of a finite set has finitely many values.                    *)
LEMMA FiniteRange ==
  ASSUME NEW f, IsFiniteSet(DOMAIN f)
  PROVE  IsFiniteSet({f[x] : x \in DOMAIN f})
PROOF
<1> DEFINE h == [x \in DOMAIN f |-> f[x]]
<1>1. h \in Surjection(DOMAIN f, {f[x] : x \in DOMAIN f})
  BY DEF Surjection
<1> QED  BY <1>1, FS_Surjection

(* A set is put into an order with every element in it.                    *)
LEMMA InOrder ==
  ASSUME NEW S, IsFiniteSet(S)
  PROVE  /\ SetToSeq(S) \in [1..Cardinality(S) -> S]
         /\ Range(SetToSeq(S)) = S
         /\ Cardinality(S) \in Nat
PROOF
<1> DEFINE size == Cardinality(S)
           order == SetToSeq(S)
<1>1. size \in Nat /\ ExistsBijection(1..size, S)
  BY FS_CardinalityType
<1>2. \E f \in [1..size -> S] : IsInjective(f)
  BY <1>1 DEF ExistsBijection, Bijection, Injection, IsInjective
<1>3. order \in [1..size -> S] /\ IsInjective(order)
  BY <1>2 DEF SetToSeq
<1>4. order \in Injection(1..size, S)
  BY <1>3 DEF Injection, IsInjective
<1>5. IsFiniteSet(1..size) /\ Cardinality(1..size) = size
  BY <1>1, FS_Interval
<1>6. order \in Surjection(1..size, S)
  BY <1>4, <1>5, FS_Injection
<1>7. Range(order) = S
  BY <1>6 DEF Surjection, Range
<1> QED  BY <1>1, <1>3, <1>7

-----------------------------------------------------------------------------
(* Pinned actions                                                          *)

(* Each reference gets the commit that GitHub has for it, even if another  *)
(* of the same repository and version was asked for in its place.          *)
LEMMA CommitOfEach ==
  ASSUME NEW S, IsFiniteSet(S), NEW resolve, NEW ref \in S,
         \A r, other \in S :
           ResolutionKey(r) = ResolutionKey(other) => resolve[r] = resolve[other]
  PROVE  Commits(SetToSeq(S), resolve)[ref] = resolve[ref]
PROOF
<1> DEFINE order == SetToSeq(S)
           size == Cardinality(S)
           same(m, n) == ResolutionKey(order[m]) = ResolutionKey(order[n])
           First(m, n) == same(m, n) /\ \A k \in 1..m - 1 : ~same(k, n)
           asked(n) == CHOOSE m \in 1..n : First(m, n)
           place == CHOOSE n \in DOMAIN order : order[n] = ref
<1>1. order \in [1..size -> S] /\ Range(order) = S /\ size \in Nat
  BY InOrder
<1>2. place \in 1..size /\ order[place] = ref
  BY <1>1 DEF Range
<1> HIDE DEF order, size, place
<1>3. \E m \in 1..place : First(m, place)
  <2> DEFINE candidates == {m \in 1..place : same(m, place)}
  <2>1. candidates \subseteq Nat /\ place \in candidates
    BY <1>1, <1>2
  <2>2. PICK m \in candidates : \A k \in candidates : m <= k
    BY <2>1, Least
  <2>3. \A k \in 1..m - 1 : k \in 1..place /\ ~(m <= k)
    BY <1>1, <1>2, <2>2
  <2>4. \A k \in 1..m - 1 : ~same(k, place)
    BY <2>2, <2>3
  <2> QED  BY <2>2, <2>4
<1>4. asked(place) \in 1..place /\ same(asked(place), place)
  BY <1>3
<1> DEFINE other == order[asked(place)]
<1>5. other \in S /\ ResolutionKey(other) = ResolutionKey(ref)
  <2>1. asked(place) \in 1..size
    BY <1>1, <1>2, <1>4
  <2> QED  BY <1>1, <1>2, <1>4, <2>1
<1>6. Commits(order, resolve)[ref] = resolve[other]
  BY <1>1 DEF Commits, place
<1> QED  BY <1>5, <1>6 DEF order

(* What is planned to be pinned in some files is finitely much.            *)
LEMMA FewPins ==
  ASSUME NEW g, WellFormedFiles(g)
  PROVE  IsFiniteSet(UNION {PinsOf(f.lines) : f \in g.files})
PROOF
<1>1. ASSUME NEW f \in g.files
      PROVE  IsFiniteSet(PinsOf(f.lines))
  <2> DEFINE refs == [n \in 1..Len(f.lines) |-> f.lines[n].ref]
             all  == {refs[n] : n \in DOMAIN refs}
  <2>1. f.lines \in Seq(LineType)
    BY DEF WellFormedFiles
  <2>2. Len(f.lines) \in Nat /\ DOMAIN f.lines = 1..Len(f.lines)
    BY <2>1
  <2>3. IsFiniteSet(DOMAIN refs)
    <3>1. IsFiniteSet(1..Len(f.lines))
      BY <2>2, FS_Interval
    <3> QED  BY <3>1
  <2>4. PinsOf(f.lines) \subseteq all
    BY <2>2 DEF PinsOf, UsesOfFile
  <2> HIDE DEF refs
  <2>5. IsFiniteSet(all)
    BY <2>3, FiniteRange
  <2> HIDE DEF all
  <2> QED  BY <2>4, <2>5, FS_Subset
<1> DEFINE pins == [f \in g.files |-> PinsOf(f.lines)]
           sets == {pins[f] : f \in DOMAIN pins}
<1>2. IsFiniteSet(sets)
  BY FiniteRange DEF WellFormedFiles
<1>3. \A T \in sets : IsFiniteSet(T)
  BY <1>1
<1>4. sets = {PinsOf(f.lines) : f \in g.files}
  OBVIOUS
<1> HIDE DEF sets
<1>5. IsFiniteSet(UNION sets)
  BY <1>2, <1>3, FS_UNION
<1> QED  BY <1>4, <1>5

LEMMA FirstOfTwo ==
  ASSUME NEW s \in Seq(STRING), Len(s) >= 2, NEW a, NEW b, SubSeq(s, 1, 2) = <<a, b>>
  PROVE  s[1] = a
PROOF
<1>1. \A i \in 1..2 : s[i] \in STRING
  OBVIOUS
<1>2. \A i \in 1..2 - 1 + 1 : SubSeq(s, 1, 2)[i] = s[1 + i - 1]
  BY <1>1, SubSeqProperties
<1>3. SubSeq(s, 1, 2)[1] = s[1]
  BY <1>2
<1> DEFINE t == SubSeq(s, 1, 2)
<1>4. t = <<a, b>> /\ t[1] = s[1]
  BY <1>3
<1> HIDE DEF t
<1> QED  BY <1>4

(* What is pinned or cannot be literally is immutable, once it is.         *)
LEMMA PinnedIsImmutable ==
  ASSUME NEW ref \in RefType, \A v, w \in ref.at : v = w, IsPinned(ref)
  PROVE  Immutable(ref)
PROOF
<1>1. ref.path \in Seq(STRING)
  BY DEF RefType
<1>2. CASE IsLocal(ref)
  BY <1>2 DEF IsLocal, Immutable
<1>3. CASE IsDocker(ref) /\ ~IsLocal(ref)
  <2>1. Len(ref.path) > 2
    BY <1>3 DEF IsDocker
  <2>2. ref.path[1] = "docker:"
    <3>1. SubSeq(ref.path, 1, 2) = <<"docker:", "">>
      BY <1>3 DEF IsDocker
    <3>2. Len(ref.path) >= 2
      BY <1>1, <2>1
    <3> QED  BY <1>1, <3>1, <3>2, FirstOfTwo
  <2>3. ref.at = {"digest"}
    BY <1>3 DEF IsPinned
  <2> QED  BY <2>2, <2>3 DEF Immutable
<1>4. CASE ~IsDocker(ref) /\ ~IsLocal(ref)
  <2>1. IsCommit(ref)
    BY <1>4 DEF IsPinned
  <2>2. PICK s \in Shas : s \in ref.at
    BY <2>1 DEF IsCommit
  <2>3. ref.at = {s}
    BY <2>2
  <2> QED  BY <2>3 DEF Immutable
<1> QED  BY <1>2, <1>3, <1>4

(* The new texts of the files, one by one.                                 *)
LEMMA NewTexts ==
  ASSUME NEW g, WellFormedFiles(g), NEW texts \in Prepared(g.files, g.resolve),
         NEW f \in DOMAIN texts
  PROVE  /\ f \in g.files /\ CountsAgree(f)
         /\ \E commits :
              /\ texts[f] = Replaced(f.found, PinsOf(f.lines), commits)
              /\ \A ref \in PinsOf(f.lines) : commits[ref] = g.resolve[ref]
PROOF
<1> DEFINE planned == {h \in g.files : PinsOf(h.lines) # {}}
           pins    == UNION {PinsOf(h.lines) : h \in planned}
           commits == Commits(SetToSeq(pins), g.resolve)
<1>1. /\ \A h \in planned : CountsAgree(h)
      /\ texts = [h \in planned |-> Replaced(h.found, PinsOf(h.lines), commits)]
  BY DEF Prepared
<1>2. pins = UNION {PinsOf(h.lines) : h \in g.files}
  OBVIOUS
<1>3. /\ IsFiniteSet(pins)
      /\ \A r, other \in pins :
           ResolutionKey(r) = ResolutionKey(other) => g.resolve[r] = g.resolve[other]
  BY <1>2, FewPins DEF WellFormedFiles
<1>4. f \in planned /\ PinsOf(f.lines) \subseteq pins
  BY <1>1
<1> HIDE DEF pins, commits
<1>5. \A ref \in PinsOf(f.lines) : commits[ref] = g.resolve[ref]
  BY <1>3, <1>4, CommitOfEach DEF commits
<1>6. texts[f] = Replaced(f.found, PinsOf(f.lines), commits)
  BY <1>1, <1>4
<1> QED  BY <1>1, <1>4, <1>5, <1>6

(* A line is replaced by one that differs in the version and the comment.  *)
LEMMA LinesReplaced ==
  ASSUME NEW g, WellFormedFiles(g), NEW texts \in Prepared(g.files, g.resolve),
         NEW f \in DOMAIN texts, Plain(f.found)
  PROVE  /\ DOMAIN texts[f] = DOMAIN f.found /\ Len(texts[f]) = Len(f.found)
         /\ \A n \in DOMAIN f.found :
              LET old == f.found[n]
              IN  IF old.form = "block" /\ old.ref \in PinsOf(f.lines)
                    THEN PinnedLine(g, f, old, texts[f][n]) ELSE texts[f][n] = old
PROOF
<1> DEFINE new == texts[f]
           pins == PinsOf(f.lines)
<1>1. f.found \in Seq(LineType)
  BY NewTexts DEF WellFormedFiles
<1>2. PICK commits : /\ new = Replaced(f.found, pins, commits)
                     /\ \A ref \in pins : commits[ref] = g.resolve[ref]
  BY NewTexts
<1>3. new = [k \in DOMAIN f.found |->
               IF \E ref \in pins : Finds(ref, f.found[k])
                 THEN Pinned(f.found[k], commits[f.found[k].ref]) ELSE f.found[k]]
  BY <1>2 DEF Replaced
<1> HIDE DEF new
<1>4. DOMAIN new = DOMAIN f.found
  BY <1>3
<1>5. Len(new) = Len(f.found)
  <2>1. DOMAIN new = 1..Len(f.found) /\ Len(f.found) \in Nat
    BY <1>1, <1>4
  <2> QED  BY <2>1
<1>6. ASSUME NEW n \in DOMAIN f.found
      PROVE  LET old == f.found[n]
             IN  IF old.form = "block" /\ old.ref \in pins
                   THEN PinnedLine(g, f, old, new[n]) ELSE new[n] = old
  <2> DEFINE old == f.found[n]
  <2>1. old \in LineType /\ old.form # "text"
    BY <1>1 DEF Plain
  <2> HIDE DEF old
  <2>2. (\E ref \in pins : Finds(ref, old)) <=> old.form = "block" /\ old.ref \in pins
    BY <2>1 DEF Finds
  <2>3. new[n] = IF \E ref \in pins : Finds(ref, old)
                   THEN Pinned(old, commits[old.ref]) ELSE old
    BY <1>3 DEF old
  <2>4. ASSUME old.form = "block", old.ref \in pins
        PROVE  PinnedLine(g, f, old, new[n])
    <3>1. new[n] = Pinned(old, g.resolve[old.ref])
      BY <1>2, <2>2, <2>3, <2>4
    <3>2. old.ref \in RefType /\ old.ref \in UsesOfFile(f.lines) /\ old.ref.at # {}
      BY <2>1, <2>4 DEF LineType, PinsOf, IsLiteral
    <3> DEFINE made  == [old.ref EXCEPT !.at = {g.resolve[old.ref]}]
               first == CHOOSE v \in old.ref.at : TRUE
               note  == IF old.comment # "" THEN old.comment ELSE first
    <3>4. first \in old.ref.at
      BY <3>2
    <3>5. note \in IF old.comment = "" THEN old.ref.at ELSE {old.comment}
      BY <3>4
    <3>6. made.path = old.ref.path /\ made.at = {g.resolve[old.ref]}
      BY <3>2 DEF RefType
    <3>7. new[n] = [form |-> old.form, ref |-> made, comment |-> note]
      BY <3>1 DEF Pinned
    <3> HIDE DEF made, note
    <3>3. new[n].form = old.form /\ new[n].ref = made /\ new[n].comment = note
      BY <3>7
    <3> QED  BY <2>4, <3>2, <3>3, <3>5, <3>6 DEF PinnedLine, IsUse
  <2> QED  BY <2>2, <2>3, <2>4 DEF old
<1> QED  BY <1>4, <1>5, <1>6 DEF new

LEMMA FormOfPlain ==
  ASSUME NEW lines \in Seq(LineType), Plain(lines), NEW n \in DOMAIN lines
  PROVE  lines[n] \in LineType /\ lines[n].form \in {"block", "flow"}
PROOF
<1> DEFINE line == lines[n]
<1>1. line \in LineType
  OBVIOUS
<1>2. line.form # "text"
  BY DEF Plain
<1> HIDE DEF line
<1>3. line.form \in {"block", "flow", "text"}
  BY <1>1 DEF LineType
<1> QED  BY <1>1, <1>2, <1>3 DEF line

(* Where a line of the plan could not be found again, the counts differ.   *)
LEMMA AllFound ==
  ASSUME NEW lines \in Seq(LineType), Plain(lines), NEW ref,
         Replacements(lines, ref) = Occurrences(lines, ref),
         NEW n \in DOMAIN lines, lines[n].ref = ref
  PROVE  lines[n].form = "block"
PROOF
<1> DEFINE found == {k \in DOMAIN lines : Finds(ref, lines[k])}
           uses  == {k \in DOMAIN lines : IsUse(lines[k]) /\ lines[k].ref = ref}
<1>1. Cardinality(found) = Cardinality(uses)
  BY DEF Replacements, Occurrences, CountOf
<1>2. \A k \in DOMAIN lines : lines[k].form \in {"block", "flow"}
  BY FormOfPlain
<1>3. found \subseteq uses /\ n \in uses
  BY <1>2 DEF Finds, IsUse
<1>4. IsFiniteSet(uses)
  <2>1. DOMAIN lines = 1..Len(lines) /\ Len(lines) \in Nat
    OBVIOUS
  <2>2. IsFiniteSet(DOMAIN lines)
    BY <2>1, FS_Interval
  <2> QED  BY <2>2, FS_Subset
<1> HIDE DEF uses
<1>5. found = uses
  BY <1>1, <1>3, <1>4, FS_Subset
<1>6. Finds(ref, lines[n])
  BY <1>3, <1>5
<1> QED  BY <1>2, <1>6 DEF Finds

(* In a file that is still what was planned, every use is immutable then.  *)
LEMMA NothingLeftMutable ==
  ASSUME NEW g, WellFormedFiles(g), CanPin(g.files),
         NEW texts \in Prepared(g.files, g.resolve), NEW f \in DOMAIN texts,
         Plain(f.found), f.found = f.lines,
         NEW ref \in UsesOfFile(texts[f])
  PROVE  Immutable(ref)
PROOF
<1> DEFINE lines == f.lines
           pins == PinsOf(lines)
<1>1. /\ lines \in Seq(LineType) /\ f \in g.files
      /\ \A r \in UsesOfFile(lines) : \A v, w \in r.at : v = w
      /\ \A r \in pins : g.resolve[r] \in Shas
  BY NewTexts DEF WellFormedFiles
<1>2. PICK n \in DOMAIN texts[f] : IsUse(texts[f][n]) /\ texts[f][n].ref = ref
  BY DEF UsesOfFile
<1> DEFINE old == lines[n]
<1>3. n \in DOMAIN lines /\ old \in LineType /\ old.form \in {"block", "flow"}
  <2>1. n \in DOMAIN lines
    BY <1>2, LinesReplaced
  <2> QED  BY <1>1, <2>1, FormOfPlain
<1>4. old.ref \in UsesOfFile(lines)
  BY <1>3 DEF UsesOfFile, IsUse
<1>5. CASE old.form = "block" /\ old.ref \in pins
  <2>1. PinnedLine(g, f, old, texts[f][n])
    BY <1>3, <1>5, LinesReplaced
  <2>2. ref.at = {g.resolve[old.ref]} /\ g.resolve[old.ref] \in Shas
    BY <1>1, <1>2, <1>5, <2>1 DEF PinnedLine
  <2> QED  BY <2>2 DEF Immutable
<1>6. CASE ~(old.form = "block" /\ old.ref \in pins)
  <2>1. texts[f][n] = old
    BY <1>3, <1>6, LinesReplaced
  <2>2. old.ref = ref /\ ref \in RefType
    BY <1>2, <1>3, <2>1 DEF LineType
  <2>3. ref \notin pins
    <3> SUFFICES ASSUME ref \in pins PROVE FALSE
      OBVIOUS
    <3>1. Replacements(lines, ref) = Occurrences(lines, ref)
      BY NewTexts DEF CountsAgree
    <3>2. old.form = "block"
      BY <1>1, <1>3, <2>2, <3>1, AllFound
    <3> QED  BY <1>6, <2>2, <3>2
  <2>4. IsPinned(ref)
    <3>1. IsPinned(ref) \/ IsLiteral(ref)
      BY <1>1, <1>4, <2>2 DEF CanPin
    <3> QED  BY <1>4, <2>2, <2>3, <3>1 DEF PinsOf
  <2>5. \A v, w \in ref.at : v = w
    BY <1>1, <1>4, <2>2
  <2> QED  BY <2>2, <2>4, <2>5, PinnedIsImmutable
<1> QED  BY <1>5, <1>6

-----------------------------------------------------------------------------
(* Branch patterns                                                         *)

LEMMA TextLength ==
  ASSUME NEW t \in Text
  PROVE  Len(t) \in Nat /\ (IsException(t) => Tail(t) \in Text) /\ PatternOf(t) \in Text
PROOF
<1>1. Len(t) \in Nat
  BY DEF Text
<1>2. IsException(t) => Tail(t) \in Text
  <2>1. t \in Seq(STRING) /\ (IsException(t) => t # <<>>)
    BY DEF Text, IsException
  <2>2. t # <<>> => Tail(t) \in Seq(STRING)
    BY <2>1
  <2> QED  BY <2>1, <2>2 DEF Text
<1>3. PatternOf(t) \in Text
  BY <1>2 DEF PatternOf
<1> QED  BY <1>1, <1>2, <1>3

(* The last filter that matches decides just as the filters do that are    *)
(* read one after another.                                                 *)
LEMMA FiltersExact ==
  ASSUME NEW filters \in Seq(Text), NEW b \in Text
  PROVE  FiltersAdmit(filters, b) <=> DocumentedAdmission(filters, b)
PROOF
<1> DEFINE N == Len(filters)
           Matches(n) == DocumentedMatch(PatternOf(filters[n]), b)
           Admits1(n) ==
             \/ filters = <<>>
             \/ \E m \in 1..n :
                  /\ Matches(m) /\ ~IsException(filters[m])
                  /\ \A l \in 1..n : Matches(l) => l <= m
           Body(f) == [n \in 0..N |-> DocumentedStep(filters, b, n, f)]
           closed == [n \in 0..N |-> Admits1(n)]
           upTo == DocumentedUpTo(filters, b)
<1>1. N \in Nat /\ DOMAIN filters = 1..N /\ \A n \in 1..N : filters[n] \in Text
  OBVIOUS
<1>2. \A n \in 1..N : PatternMatches(PatternOf(filters[n]), b) <=> Matches(n)
  BY <1>1, TextLength, PatternsAreExact
<1>3. FiltersAdmit(filters, b) <=> Admits1(N)
  BY <1>1, <1>2 DEF FiltersAdmit
<1>4. Admits1(0) <=> filters = <<>>
  BY <1>1
<1>5. ASSUME NEW n \in 1..N
      PROVE  Admits1(n) <=> IF IsException(filters[n]) THEN Admits1(n - 1) /\ ~Matches(n)
                                                       ELSE Admits1(n - 1) \/ Matches(n)
  <2> HIDE DEF Matches
  <2>0. filters # <<>> /\ n - 1 \in Nat /\ 1..n = (1..n - 1) \cup {n} /\ \A m \in 1..n - 1 : m < n
    BY <1>1
  <2>1. CASE Matches(n)
    <3>1. Admits1(n) <=> ~IsException(filters[n])
      BY <2>0, <2>1
    <3> QED  BY <2>1, <3>1
  <2>2. CASE ~Matches(n)
    <3>1. Admits1(n) <=> Admits1(n - 1)
      BY <2>0, <2>2
    <3> QED  BY <2>2, <3>1
  <2> QED  BY <2>1, <2>2
<1>6. ASSUME NEW f, NEW n \in 1..N
      PROVE  DocumentedStep(filters, b, n, f) <=>
               IF IsException(filters[n]) THEN f[n - 1] /\ ~Matches(n) ELSE f[n - 1] \/ Matches(n)
  <2>1. n # 0
    OBVIOUS
  <2> QED  BY <2>1, Zenon DEF DocumentedStep, PatternOf
<1>7. ASSUME NEW f PROVE DocumentedStep(filters, b, 0, f) <=> filters = <<>>
  BY DEF DocumentedStep
<1> HIDE DEF Matches, Admits1
<1>8. closed = Body(closed)
  <2> SUFFICES ASSUME NEW n \in 0..N PROVE closed[n] = DocumentedStep(filters, b, n, closed)
    OBVIOUS
  <2>1. CASE n = 0
    BY <1>4, <1>7, <2>1
  <2>2. CASE n \in 1..N
    <3>1. n - 1 \in 0..N
      BY <1>1, <2>2
    <3>2. closed[n - 1] = Admits1(n - 1) /\ closed[n] = Admits1(n)
      BY <3>1
    <3> QED  BY <1>5, <1>6, <2>2, <3>2
  <2> QED  BY <1>1, <2>1, <2>2
<1>9. upTo = CHOOSE f : f = Body(f)
  BY DEF DocumentedUpTo
<1> HIDE DEF Body, closed, upTo
<1>10. upTo = Body(upTo)
  BY <1>8, <1>9
<1>11. /\ upTo[0] <=> Admits1(0)
       /\ \A n \in 1..N : (upTo[n - 1] <=> Admits1(n - 1)) => (upTo[n] <=> Admits1(n))
  <2>1. \A n \in 0..N : upTo[n] = DocumentedStep(filters, b, n, upTo)
    BY <1>10 DEF Body
  <2>2. upTo[0] <=> Admits1(0)
    BY <1>1, <1>4, <1>7, <2>1
  <2>3. ASSUME NEW n \in 1..N, upTo[n - 1] <=> Admits1(n - 1)
        PROVE  upTo[n] <=> Admits1(n)
    <3>1. n \in 0..N
      BY <1>1
    <3> QED  BY <1>5, <1>6, <2>1, <2>3, <3>1
  <2> QED  BY <2>2, <2>3
<1> DEFINE Bad == {n \in 0..N : ~(upTo[n] <=> Admits1(n))}
<1>12. Bad = {}
  <2> SUFFICES ASSUME Bad # {} PROVE FALSE
    OBVIOUS
  <2>1. Bad \subseteq Nat
    BY <1>1
  <2>2. PICK n \in Bad : \A m \in Bad : n <= m
    BY <2>1, Least
  <2>3. n # 0
    BY <1>11, <2>2
  <2>4. n \in 1..N /\ n - 1 \in 0..N /\ ~(n <= n - 1)
    BY <1>1, <2>2, <2>3
  <2>5. upTo[n - 1] <=> Admits1(n - 1)
    BY <2>2, <2>4
  <2> QED  BY <1>11, <2>2, <2>4, <2>5
<1>13. upTo[N] <=> Admits1(N)
  BY <1>1, <1>12
<1> QED  BY <1>3, <1>13 DEF DocumentedAdmission, upTo

-----------------------------------------------------------------------------
(* Workflow files                                                          *)

(* What parses as jobs and steps has the uses of the file, all of them.    *)
LEMMA UsesKept ==
  ASSUME NEW doc
  PROVE  UsesOf(WorkflowOf(doc)) = UsesIn(doc)
PROOF
<1> DEFINE jobs == doc["jobs"]
           raw(j) == RawSteps(jobs[j])
           used(map) == IF Has(map, "uses") THEN {map["uses"]} ELSE {}
           parsed(j) == JobOf(jobs[j])
           maps(j) == {jobs[j]} \cup {raw(j)[n].map : n \in DOMAIN raw(j)}
           written(j) == {m["uses"] : m \in {m \in maps(j) : Has(m, "uses")}}
<1>1. WorkflowOf(doc).jobs = [j \in DOMAIN jobs |-> parsed(j)]
  BY Zenon DEF WorkflowOf
<1>2. ASSUME NEW map PROVE StepOf(map).uses = used(map)
  BY DEF StepOf
<1>3. ASSUME NEW j \in DOMAIN jobs
      PROVE  /\ parsed(j).uses = used(jobs[j])
             /\ parsed(j).steps = [n \in DOMAIN raw(j) |-> StepOf(raw(j)[n].map)]
  BY Zenon DEF JobOf
<1>4. ASSUME NEW j \in DOMAIN jobs, NEW ref
      PROVE  (\/ ref \in parsed(j).uses
              \/ \E n \in DOMAIN parsed(j).steps : ref \in parsed(j).steps[n].uses)
             <=> ref \in written(j)
  <2> HIDE DEF parsed, jobs, raw
  <2>1. ref \in written(j) <=> \E m \in maps(j) : ref \in used(m)
    BY Zenon
  <2>2. DOMAIN parsed(j).steps = DOMAIN raw(j)
    BY <1>3
  <2> HIDE DEF used, written
  <2>3. ASSUME NEW n \in DOMAIN raw(j)
        PROVE  parsed(j).steps[n].uses = used(raw(j)[n].map)
    <3>1. parsed(j).steps[n] = StepOf(raw(j)[n].map)
      BY <1>3
    <3> QED  BY <1>2, <3>1
  <2>4. \A m : m \in maps(j) <=> m = jobs[j] \/ \E n \in DOMAIN raw(j) : m = raw(j)[n].map
    BY Zenon
  <2> HIDE DEF maps
  <2>5. (\E n \in DOMAIN parsed(j).steps : ref \in parsed(j).steps[n].uses)
          <=> \E n \in DOMAIN raw(j) : ref \in used(raw(j)[n].map)
    BY <2>2, <2>3
  <2>6. (\E m \in maps(j) : ref \in used(m))
          <=> ref \in used(jobs[j]) \/ \E n \in DOMAIN raw(j) : ref \in used(raw(j)[n].map)
    BY <2>4
  <2>7. parsed(j).uses = used(jobs[j])
    BY <1>3
  <2> QED  BY <2>1, <2>5, <2>6, <2>7, Zenon
<1>5. UsesIn(doc) = UNION {written(j) : j \in DOMAIN jobs}
  BY Zenon DEF UsesIn
<1> HIDE DEF parsed, written, jobs
<1>6. \A ref : ref \in UsesOf(WorkflowOf(doc)) <=> \E j \in DOMAIN jobs : ref \in written(j)
  BY <1>1, <1>4 DEF UsesOf
<1> QED  BY <1>5, <1>6

LEMMA MentionsKept ==
  ASSUME NEW doc, ParsesAsWorkflow(doc), NEW event \in Events
  PROVE  Triggers(WorkflowOf(doc), event) <=> Mentions(doc, event)
PROOF
<1> DEFINE on == Key(doc, "on")
           triggers == WorkflowOf(doc).triggers
<1>1. CASE "on" \notin DOMAIN doc
  <2>1. on.kind = "null"
    BY <1>1 DEF Key, Null
  <2>2. DOMAIN triggers = {}
    BY <1>1 DEF WorkflowOf
  <2> QED  BY <2>1, <2>2 DEF Triggers, Mentions
<1>2. CASE "on" \in DOMAIN doc
  <2>1. on = doc["on"] /\ triggers = TriggersOf(on) /\ ParsesAsTriggers(on)
    BY <1>2 DEF Key, WorkflowOf, ParsesAsWorkflow
  <2> HIDE DEF on, triggers
  <2>2. CASE on.kind = "str"
    <3>1. DOMAIN triggers = Events \cap {on.text}
      BY <2>1, <2>2 DEF TriggersOf
    <3> QED  BY <2>2, <3>1 DEF Triggers, Mentions, triggers, on
  <2>3. CASE on.kind = "seq"
    <3>1. DOMAIN triggers = {e \in Events : \E n \in DOMAIN on.items : on.items[n].text = e}
      BY <2>1, <2>3 DEF TriggersOf
    <3> QED  BY <2>3, <3>1 DEF Triggers, Mentions, triggers, on
  <2>4. CASE on.kind = "map"
    <3>1. DOMAIN triggers = Events \cap DOMAIN on.map
      BY <2>1, <2>4 DEF TriggersOf
    <3> QED  BY <2>4, <3>1 DEF Triggers, Mentions, triggers, on
  <2> QED  BY <2>1, <2>2, <2>3, <2>4 DEF ParsesAsTriggers
<1> QED  BY <1>1, <1>2

(* A push to a branch runs a workflow as the rule finds it exactly if it   *)
(* does as the file is documented to be read.                              *)
LEMMA PushKept ==
  ASSUME NEW doc, ParsesAsWorkflow(doc), NEW branch \in Text,
         \A event \in DOMAIN WorkflowOf(doc).triggers : \A key \in {"branches", "branches-ignore"} :
           WorkflowOf(doc).triggers[event][key] \in Seq(Text)
  PROVE  RunsOnPushTo(WorkflowOf(doc), branch) <=> PushTriggers(doc, branch)
PROOF
<1> DEFINE on     == Key(doc, "on")
           value  == IF on.kind = "map" THEN Key(on.map, "push") ELSE Null
           texts(key) == IF value.kind = "map" THEN TextsOf(Key(value.map, key)) ELSE <<>>
           triggers == WorkflowOf(doc).triggers
           filter == triggers["push"]
<1>1. Triggers(WorkflowOf(doc), "push") <=> Mentions(doc, "push")
  BY MentionsKept, "push" \in Events DEF Events
<1>2. ASSUME Mentions(doc, "push")
      PROVE  \A key \in FilterKeys : filter[key] = texts(key)
  <2>0. "push" \in DOMAIN triggers
    BY <1>1, <1>2 DEF Triggers
  <2>1. "on" \in DOMAIN doc
    <3>1. "on" \notin DOMAIN doc => on.kind = "null"
      BY DEF Key, Null
    <3> QED  BY <1>2, <3>1 DEF Mentions
  <2>2. on = doc["on"] /\ triggers = TriggersOf(on)
    BY <2>1 DEF Key, WorkflowOf
  <2> HIDE DEF on, triggers
  <2>3. filter = FilterOf(value)
    <3>1. CASE on.kind = "str"
      BY <2>0, <2>2, <3>1 DEF TriggersOf
    <3>2. CASE on.kind = "seq"
      BY <2>0, <2>2, <3>2 DEF TriggersOf
    <3>3. CASE on.kind = "map"
      <4>1. "push" \in DOMAIN on.map /\ value = on.map["push"]
        BY <1>2, <3>3 DEF Mentions, Key, on
      <4> QED  BY <2>0, <2>2, <3>3, <4>1 DEF TriggersOf
    <3> QED  BY <1>2, <3>1, <3>2, <3>3 DEF Mentions, on
  <2> HIDE DEF value
  <2> QED  BY <2>3, Zenon DEF FilterOf
<1>3. ASSUME Mentions(doc, "push")
      PROVE  RunsOnPushTo(WorkflowOf(doc), branch) <=> PushTriggers(doc, branch)
  <2>1. /\ filter["branches"] = texts("branches")
        /\ filter["branches-ignore"] = texts("branches-ignore")
        /\ filter["tags"] = texts("tags")
        /\ filter["tags-ignore"] = texts("tags-ignore")
    BY <1>2, <1>3 DEF FilterKeys
  <2>2. filter["branches"] \in Seq(Text) /\ filter["branches-ignore"] \in Seq(Text)
    BY <1>1, <1>3 DEF Triggers
  <2>3. RunsOnPushTo(WorkflowOf(doc), branch) <=>
          /\ \/ filter["branches"] # <<>> \/ filter["branches-ignore"] # <<>>
             \/ filter["tags"] = <<>> /\ filter["tags-ignore"] = <<>>
          /\ Admits(filter, branch)
    BY <1>1, <1>3 DEF RunsOnPushTo, Filter
  <2>4. PushTriggers(doc, branch) <=>
          /\ texts("branches") # <<>> => DocumentedAdmission(texts("branches"), branch)
          /\ \A n \in DOMAIN texts("branches-ignore") :
               ~DocumentedMatch(texts("branches-ignore")[n], branch)
          /\ texts("tags") # <<>> \/ texts("tags-ignore") # <<>>
               => texts("branches") # <<>> \/ texts("branches-ignore") # <<>>
    BY <1>3, Zenon DEF PushTriggers
  <2> HIDE DEF filter, texts
  <2>5. FiltersAdmit(filter["branches"], branch) <=>
          (filter["branches"] # <<>> => DocumentedAdmission(filter["branches"], branch))
    <3>1. FiltersAdmit(filter["branches"], branch)
            <=> DocumentedAdmission(filter["branches"], branch)
      BY <2>2, FiltersExact
    <3>2. filter["branches"] = <<>> => FiltersAdmit(filter["branches"], branch)
      BY Zenon DEF FiltersAdmit
    <3> QED  BY <3>1, <3>2
  <2>6. ASSUME NEW n \in DOMAIN filter["branches-ignore"]
        PROVE  PatternMatches(filter["branches-ignore"][n], branch)
                 <=> DocumentedMatch(filter["branches-ignore"][n], branch)
    <3>1. filter["branches-ignore"][n] \in Text
      BY <2>2
    <3> QED  BY <3>1, TextLength, PatternsAreExact
  <2> QED  BY <2>1, <2>3, <2>4, <2>5, <2>6 DEF Admits
<1>4. ASSUME ~Mentions(doc, "push")
      PROVE  ~RunsOnPushTo(WorkflowOf(doc), branch) /\ ~PushTriggers(doc, branch)
  BY <1>1, <1>4 DEF RunsOnPushTo, PushTriggers
<1> QED  BY <1>3, <1>4

(* A step that the rule finds to check out code does.                      *)
LEMMA CheckoutsKept ==
  ASSUME NEW doc, \A ref \in UsesOf(WorkflowOf(doc)) : ref.path \in Seq(STRING)
  PROVE  (\E s \in Steps(WorkflowOf(doc)) : UsesAction(s, Checkout)) <=> ChecksOut(doc)
PROOF
<1> DEFINE jobs == doc["jobs"]
           raw(j) == RawSteps(jobs[j])
           step(j, n) == StepOf(raw(j)[n].map)
           w == WorkflowOf(doc)
<1>1. /\ DOMAIN w.jobs = DOMAIN jobs
      /\ \A j \in DOMAIN jobs : w.jobs[j].steps = [n \in DOMAIN raw(j) |-> step(j, n)]
  BY Zenon DEF WorkflowOf, JobOf
<1>2. ASSUME NEW ref, ref.path \in Seq(STRING)
      PROVE  IsPrefix(Checkout, ref.path) <=>
               IF IsRepository(ref) THEN ref.path = Checkout
               ELSE Len(ref.path) >= Len(Checkout) /\ SubSeq(ref.path, 1, Len(Checkout)) = Checkout
  <2>1. Len(Checkout) = 2 /\ SubSeq(Checkout, 1, 2) = Checkout
    <3>1. Checkout \in Seq({"actions", "checkout"}) /\ Len(Checkout) = 2
      BY DEF Checkout
    <3> HIDE DEF Checkout
    <3> QED  BY <3>1
  <2>2. Len(ref.path) = 2 => SubSeq(ref.path, 1, 2) = ref.path
    BY <1>2
  <2>3. Len(ref.path) \in Nat
    BY <1>2
  <2>4. IsPrefix(Checkout, ref.path) <=> 2 <= Len(ref.path) /\ Checkout = SubSeq(ref.path, 1, 2)
    BY <2>1, Zenon DEF IsPrefix
  <2>5. IsRepository(ref) => Len(ref.path) = 2
    BY DEF IsRepository
  <2> HIDE DEF Checkout
  <2> QED  BY <2>1, <2>2, <2>3, <2>4, <2>5
<1>3. ASSUME NEW j \in DOMAIN jobs, NEW n \in DOMAIN raw(j)
      PROVE  UsesAction(step(j, n), Checkout) <=>
               Has(raw(j)[n].map, "uses") /\ IsPrefix(Checkout, raw(j)[n].map["uses"].path)
  <2>1. step(j, n).uses = IF Has(raw(j)[n].map, "uses") THEN {raw(j)[n].map["uses"]} ELSE {}
    BY DEF StepOf
  <2>2. \A ref \in step(j, n).uses : ref \in UsesOf(w)
    <3> HIDE DEF w, jobs, raw, step
    <3>1. w.jobs[j].steps[n] = step(j, n) /\ n \in DOMAIN w.jobs[j].steps
      BY <1>1
    <3> QED  BY <1>1, <3>1 DEF UsesOf
  <2> HIDE DEF step, w, raw
  <2>3. \A ref \in step(j, n).uses : ref.path \in Seq(STRING)
    BY <2>2 DEF w
  <2> QED  BY <1>2, <2>1, <2>3 DEF UsesAction
<1> HIDE DEF w, step
<1>4. (\E s \in Steps(w) : UsesAction(s, Checkout)) <=>
      \E j \in DOMAIN jobs : \E n \in DOMAIN raw(j) : UsesAction(step(j, n), Checkout)
  <2> HIDE DEF raw, jobs
  <2>1. \A s : s \in Steps(w) <=>
          \E j \in DOMAIN w.jobs : \E n \in DOMAIN w.jobs[j].steps : s = w.jobs[j].steps[n]
    BY DEF Steps
  <2>2. ASSUME NEW j \in DOMAIN jobs
        PROVE  /\ DOMAIN w.jobs[j].steps = DOMAIN raw(j)
               /\ \A n \in DOMAIN raw(j) : w.jobs[j].steps[n] = step(j, n)
    BY <1>1
  <2>3. (\E s \in Steps(w) : UsesAction(s, Checkout)) <=>
          \E j \in DOMAIN w.jobs : \E n \in DOMAIN w.jobs[j].steps :
            UsesAction(w.jobs[j].steps[n], Checkout)
    BY <2>1
  <2> QED  BY <1>1, <2>2, <2>3
<1> QED  BY <1>3, <1>4 DEF ChecksOut, w

-----------------------------------------------------------------------------
(* Legacy protection                                                       *)

(* What an attempt is, with any number of reviews and any checks.          *)
IsAttempt(a) ==
  /\ a.does \in {"merge", "push", "force push", "delete", "create"}
  /\ a.fresh \in Nat /\ a.stale \in Nat

(* The program and GitHub take the same rulesets to apply: to a full name  *)
(* matches what GitHub documents.                                          *)
LEMMA SameRulesets ==
  ASSUME NEW g, WellFormed(g)
  PROVE  {r \in g.rulesets : GitHubApplies(r, g.branch)} = ActiveFor(g.rulesets, g.branch)
<1>1. ASSUME NEW p \in ConditionPatterns(g)
      PROVE  RefNameMatches(p, g.branch)
               <=> \/ p \in {<<"~DEFAULT_BRANCH">>, <<"~ALL">>}
                   \/ DocumentedMatch(p, Heads \o g.branch)
  <2>0. /\ p \in Text /\ g.branch \in Text
        /\ \/ p \in {<<"~DEFAULT_BRANCH">>, <<"~ALL">>}
           \/ Len(p) >= 2 /\ SubSeq(p, 1, 2) = <<"refs", "/">>
    BY Zenon DEF WellFormed
  <2>1. Len(Heads \o g.branch) \in Nat
    <3> DEFINE T == STRING \cup {"refs", "/", "heads"}
    <3>1. Heads \in Seq(T)
      <4>1. "refs" \in T /\ "/" \in T /\ "heads" \in T
        OBVIOUS
      <4> HIDE DEF T
      <4> QED  BY <4>1 DEF Heads
    <3>2. g.branch \in Seq(T)
      <4>1. STRING \subseteq T
        OBVIOUS
      <4> HIDE DEF T
      <4>2. Seq(STRING) \subseteq Seq(T)
        BY <4>1, SeqMonotonic
      <4> QED  BY <2>0, <4>2, Zenon DEF Text
    <3> HIDE DEF T
    <3>3. Heads \o g.branch \in Seq(T)
      BY <3>1, <3>2, ConcatProperties
    <3> QED  BY <3>3
  <2>2. PatternMatches(p, Heads \o g.branch) <=> DocumentedMatch(p, Heads \o g.branch)
    BY <2>0, <2>1, TextLength, PatternsAreExact
  <2> QED  BY <2>0, <2>2, Zenon DEF RefNameMatches
<1>2. ASSUME NEW r \in g.rulesets, NEW c \in r.conditions
      PROVE  c.include \subseteq ConditionPatterns(g) /\ c.exclude \subseteq ConditionPatterns(g)
  BY DEF ConditionPatterns
<1>3. ASSUME NEW r \in g.rulesets
      PROVE  GitHubApplies(r, g.branch)
               <=> r.target = "branch" /\ r.active /\ Includes(r.conditions, g.branch)
  BY <1>1, <1>2 DEF GitHubApplies, Includes
<1> QED  BY <1>3 DEF ActiveFor

(* Without a bypass problem no actor of a ruleset exempts an admin.        *)
LEMMA NobodyExempt ==
  ASSUME NEW rulesets, BypassProblem(rulesets) = "none", NEW r \in rulesets, NEW a
  PROVE  Bound(r, a)
<1> DEFINE actors == UNION {s.bypass : s \in rulesets}
<1>1. r.bypass \subseteq actors  OBVIOUS
<1>2. actors \cap {"OrganizationAdmin", "RepositoryRole"} = {}
      /\ actors \ {"Team", "Integration", "DeployKey"} = {}
  BY DEF BypassProblem
<1> HIDE DEF actors
<1>3. r.bypass \cap {"OrganizationAdmin", "RepositoryRole", "new kind"} = {}
  BY <1>1, <1>2
<1> QED  BY <1>3 DEF Bound

(* A demand of any of the rulesets is one of a pull_request rule of them.  *)
LEMMA DemandedBy ==
  ASSUME NEW rulesets, NEW demand, Demanded(rulesets, demand)
  PROVE  \E r \in rulesets : \E p \in r.pull : demand \in p.demands
  BY DEF Demanded, PullRules

(* As merges are refused by what any ruleset demands, a merge that all of  *)
(* them let through has what legacy reviews need: with enough reviews, of  *)
(* which the stale ones are not counted where legacy does not count them.  *)
LEMMA ReviewsCovered ==
  ASSUME NEW g, WellFormed(g), NEW rulesets, rulesets \subseteq g.rulesets,
         CoversReviews(g.legacy, rulesets),
         NEW a, IsAttempt(a),
         \A r \in rulesets : \A p \in r.pull : Allows(p, a, Demanded(rulesets, "dismiss_stale")),
         NEW wanted \in g.legacy.reviews
  PROVE  Allows(wanted, a, "dismiss_stale" \in wanted.demands)
<1> DEFINE dismissed == Demanded(rulesets, "dismiss_stale")
           stale(d)  == IF d THEN 0 ELSE a.stale
<1>1. \A p \in PullRules(rulesets) : Allows(p, a, dismissed)
  BY DEF PullRules
<1>2. wanted.count \in Nat /\ \A p \in PullRules(rulesets) : p.count \in Nat
  BY DEF WellFormed, PullRules
<1>3. \A d \in wanted.demands : \E p \in PullRules(rulesets) : d \in p.demands
  BY DEF CoversReviews, Demanded
<1>4. a.fresh \in Nat /\ a.stale \in Nat
  BY DEF IsAttempt
<1>5. "dismiss_stale" \in wanted.demands => dismissed
  BY <1>3 DEF Demanded
<1> HIDE DEF dismissed
<1>6. a.fresh + stale("dismiss_stale" \in wanted.demands) >= wanted.count
  <2>1. CASE wanted.count = 0
    BY <2>1, <1>4
  <2>2. ASSUME NEW p \in PullRules(rulesets), p.count >= wanted.count
        PROVE  a.fresh + stale("dismiss_stale" \in wanted.demands) >= wanted.count
    <3>1. a.fresh + stale(dismissed) >= p.count
      BY <1>1 DEF Allows
    <3> QED  BY <3>1, <2>2, <1>2, <1>4, <1>5
  <2> QED  BY <2>1, <2>2 DEF CoversReviews
<1>7. /\ "code_owner" \in wanted.demands => a.owner
      /\ "last_push" \in wanted.demands => a.fresh > 0
      /\ "threads" \in wanted.demands => a.resolved
  BY <1>1, <1>3 DEF Allows
<1> QED  BY <1>6, <1>7 DEF Allows

(* Checks that the rulesets cover have passed on the commits that they     *)
(* let through, of which those that must be up to date are.                *)
LEMMA ChecksCovered ==
  ASSUME NEW legacy, NEW rulesets, CoversChecks(legacy, rulesets), NEW a,
         \A r \in rulesets : \A c \in r.checks :
           c.contexts \subseteq a.passed /\ (c.strict /\ c.contexts # {} => a.current),
         NEW wanted \in legacy.checks
  PROVE  /\ AllContexts(wanted) \subseteq a.passed
         /\ wanted.strict /\ AllContexts(wanted) # {} => a.current
<1> DEFINE rules == UNION {r.checks : r \in rulesets}
<1>1. \A c \in rules :
        c.contexts \subseteq a.passed /\ (c.strict /\ c.contexts # {} => a.current)
  OBVIOUS
<1>2. /\ AllContexts(wanted) \subseteq UNION {rule.contexts : rule \in rules}
      /\ wanted.strict => \E rule \in rules :
           rule.strict /\ AllContexts(wanted) \subseteq rule.contexts
  BY DEF CoversChecks
<1> HIDE DEF rules
<1>3. AllContexts(wanted) \subseteq a.passed
  BY <1>1, <1>2
<1>4. wanted.strict /\ AllContexts(wanted) # {} => a.current
  BY <1>1, <1>2
<1> QED  BY <1>3, <1>4

(* A push or a merge that the rulesets let through, legacy protection      *)
(* would have let through.                                                 *)
LEMMA CommitsCovered ==
  ASSUME NEW g, WellFormed(g),
         SupersededBy(g.legacy, g.rulesets, g.branch),
         NEW a, IsAttempt(a), a.does \in {"push", "merge"},
         \A r \in ActiveFor(g.rulesets, g.branch) :
           RulesetAllows(r, a, Demanded(ActiveFor(g.rulesets, g.branch), "dismiss_stale"))
  PROVE  LegacyAllowsCommits(g.legacy, a)
<1> DEFINE rulesets == ActiveFor(g.rulesets, g.branch)
           dismissed == Demanded(rulesets, "dismiss_stale")
<1>1. rulesets \subseteq g.rulesets
  BY DEF ActiveFor
<1>2. /\ CoversChecks(g.legacy, rulesets) /\ CoversReviews(g.legacy, rulesets)
      /\ IsOn(g.legacy, "required_linear_history")
           => HasKind(rulesets, "required_linear_history")
      /\ IsOn(g.legacy, "required_signatures") => HasKind(rulesets, "required_signatures")
      /\ IsOn(g.legacy, "required_conversation_resolution") => Demanded(rulesets, "threads")
  BY DEF SupersededBy
<1>3. \A r \in rulesets :
        /\ "required_linear_history" \in r.kinds => a.linear
        /\ "required_signatures" \in r.kinds => a.signed
        /\ \A c \in r.checks :
             c.contexts \subseteq a.passed /\ (c.strict /\ c.contexts # {} => a.current)
        /\ IF a.does = "push" THEN r.pull = {} ELSE \A p \in r.pull : Allows(p, a, dismissed)
  BY DEF RulesetAllows
<1> HIDE DEF rulesets
<1>4. /\ IsOn(g.legacy, "required_linear_history") => a.linear
      /\ IsOn(g.legacy, "required_signatures") => a.signed
  BY <1>2, <1>3 DEF HasKind
<1>5. \A c \in g.legacy.checks :
        AllContexts(c) \subseteq a.passed /\ (c.strict /\ AllContexts(c) # {} => a.current)
  BY <1>2, <1>3, ChecksCovered
<1>6. CASE a.does = "push"
  <2>1. g.legacy.reviews = None
    BY <1>2, <1>3, <1>6 DEF CoversReviews, PullRules, None
  <2> QED  BY <1>4, <1>5, <1>6, <2>1 DEF LegacyAllowsCommits
<1>7. CASE a.does = "merge"
  <2>1. \A r \in rulesets : \A p \in r.pull : Allows(p, a, dismissed)
    BY <1>3, <1>7
  <2>2. IsOn(g.legacy, "required_conversation_resolution") => a.resolved
    BY <1>2, <2>1, DemandedBy DEF Allows
  <2>3. \A w \in g.legacy.reviews : Allows(w, a, "dismiss_stale" \in w.demands)
    BY <1>1, <1>2, <2>1, ReviewsCovered
  <2> QED  BY <1>4, <1>5, <1>7, <2>2, <2>3 DEF LegacyAllowsCommits
<1> QED  BY <1>6, <1>7

(* What the rulesets let through without legacy protection, the protection *)
(* that they supersede would have let through, whoever attempts it: those  *)
(* exempt from the rulesets are as exempt from the protection.             *)
LEMMA SupersededIsCovered ==
  ASSUME NEW g, WellFormed(g),
         SupersededBy(g.legacy, g.rulesets, g.branch), g.legacy.restrictions # {{}},
         NEW a, IsAttempt(a),
         RulesetsAllow({r \in g.rulesets : GitHubApplies(r, g.branch)}, a)
  PROVE  LegacyAllows(g.legacy, a)
<1> DEFINE rulesets == ActiveFor(g.rulesets, g.branch)
           dismissed == Demanded(rulesets, "dismiss_stale")
<1>1. ~IsOn(g.legacy, "lock_branch") /\ g.legacy.restrictions = None
  <2>1. \A r \in g.legacy.restrictions : r = {}
    BY DEF SupersededBy
  <2> QED  BY <2>1 DEF SupersededBy, None
<1>2. CASE a.admin /\ ~IsOn(g.legacy, "enforce_admins")
  BY <1>1, <1>2 DEF LegacyAllows
<1>3. CASE ~a.admin \/ IsOn(g.legacy, "enforce_admins")
  <2>1. \A r \in rulesets : Bound(r, a)
    <3>1. CASE ~a.admin
      BY <3>1 DEF Bound
    <3>2. CASE IsOn(g.legacy, "enforce_admins")
      BY <3>2, NobodyExempt DEF SupersededBy
    <3> QED  BY <1>3, <3>1, <3>2
  <2>2. {r \in rulesets : Bound(r, a)} = rulesets
    BY <2>1
  <2>3. \A r \in rulesets : RulesetAllows(r, a, dismissed)
    BY <2>2, SameRulesets DEF RulesetsAllow
  <2>4. CASE a.does = "force push"
    <3>1. ~HasKind(rulesets, "non_fast_forward")
      BY <2>3, <2>4 DEF HasKind, RulesetAllows
    <3>2. IsOn(g.legacy, "allow_force_pushes")
      BY <3>1 DEF SupersededBy
    <3> QED  BY <1>1, <2>4, <3>2 DEF LegacyAllows
  <2>5. CASE a.does = "delete"
    <3>1. ~HasKind(rulesets, "deletion")
      BY <2>3, <2>5 DEF HasKind, RulesetAllows
    <3>2. IsOn(g.legacy, "allow_deletions")
      BY <3>1 DEF SupersededBy
    <3> QED  BY <1>1, <2>5, <3>2 DEF LegacyAllows
  <2>6. CASE a.does = "create"
    <3>1. ~HasKind(rulesets, "creation")
      BY <2>3, <2>6 DEF HasKind, RulesetAllows
    <3>2. ~IsOn(g.legacy, "block_creations")
      BY <3>1 DEF SupersededBy
    <3> QED  BY <1>1, <2>6, <3>2 DEF LegacyAllows
  <2>7. CASE a.does \in {"push", "merge"}
    <3>1. LegacyAllowsCommits(g.legacy, a)
      BY <2>3, <2>7, CommitsCovered
    <3> QED  BY <1>1, <2>7, <3>1 DEF LegacyAllows
  <2> QED  BY <2>4, <2>5, <2>6, <2>7 DEF IsAttempt
<1> QED  BY <1>2, <1>3

(* The attempts that a run tries are such attempts.                        *)
LEMMA AttemptsAre ==
  ASSUME NEW contexts, NEW a \in Attempts(contexts)
  PROVE  IsAttempt(a)
<1>1. a.does \in {"merge", "push", "force push", "delete", "create"}
  BY DEF Attempts
<1>2. a.fresh \in 0..1 \/ a.fresh \in {0}
  BY DEF Attempts
<1>3. a.stale \in 0..2 \/ a.stale \in {0}
  BY DEF Attempts
<1>4. a.fresh \in Nat /\ a.stale \in Nat
  BY <1>2, <1>3
<1> QED  BY <1>1, <1>4 DEF IsAttempt

-----------------------------------------------------------------------------
(* Sums                                                                    *)

(* The recursive function that adds numbers up is defined for all of them. *)
LEMMA TotalsAre ==
  ASSUME NEW numbers, Len(numbers) \in Nat, \A n \in 1..Len(numbers) : numbers[n] \in Int
  PROVE  \A n \in 1..Len(numbers) + 1 :
           /\ TotalBefore(numbers)[n] = TotalAt(numbers, n, TotalBefore(numbers))
           /\ TotalBefore(numbers)[n] \in Int
PROOF
<1> DEFINE N == Len(numbers) + 1
           Body(f) == [n \in 1..N |-> TotalAt(numbers, n, f)]
           F == [f \in [1..N -> Int] |-> Body(f)]
<1>0. N \in Nat
  OBVIOUS
<1>1. ASSUME NEW f \in [1..N -> Int], NEW n \in 1..N
      PROVE  TotalAt(numbers, n, f) \in Int
  <2>1. n = 1 \/ n - 1 \in 1..Len(numbers)
    OBVIOUS
  <2>2. n # 1 => f[n - 1] \in Int /\ numbers[n - 1] \in Int
    BY <2>1
  <2> QED  BY <2>2 DEF TotalAt
<1>2. F \in [[1..N -> Int] -> [1..N -> Int]]
  BY <1>1
<1>3. ASSUME NEW g \in [1..N -> Int], NEW h \in [1..N -> Int], NEW n \in 1..N,
             \A m \in 1..n - 1 : g[m] = h[m]
      PROVE  F[g][n] = F[h][n]
  <2>1. n = 1 \/ g[n - 1] = h[n - 1]
    BY <1>3
  <2>2. TotalAt(numbers, n, g) = TotalAt(numbers, n, h)
    BY <2>1, Zenon DEF TotalAt
  <2> QED  BY <2>2
<1> HIDE DEF F
<1>4. \E f \in [1..N -> Int] : f = F[f]
  <2>1. UsesEarlier(F, N, Int)
    BY <1>2, <1>3 DEF UsesEarlier
  <2> HIDE DEF N
  <2>2. Int # {}
    OBVIOUS
  <2> QED  BY <1>0, <2>1, <2>2, RecursionUpwards
<1>5. PICK f \in [1..N -> Int] : f = Body(f)
  BY <1>4 DEF F
<1>6. TotalBefore(numbers) = CHOOSE g : g = Body(g)
  BY DEF TotalBefore
<1> DEFINE total == TotalBefore(numbers)
<1> HIDE DEF Body, total
<1>7. total = Body(total)
  BY <1>5, <1>6 DEF total
<1>8. \A n \in 1..N : total[n] = TotalAt(numbers, n, total)
  BY <1>7 DEF Body
<1> DEFINE Good == {n \in 1..N : total[n] \in Int}
<1>9. 1 \in Good
  BY <1>0, <1>8 DEF TotalAt
<1>10. ASSUME NEW n \in 1..N - 1, n \in Good PROVE n + 1 \in Good
  <2>1. total[n + 1] = total[n] + numbers[n]
    BY <1>8 DEF TotalAt
  <2> QED  BY <1>10, <2>1
<1>11. \A n \in 1..N : n \in Good
  <2> HIDE DEF Good, N
  <2> QED  BY <1>0, <1>9, <1>10, Upwards
<1> QED  BY <1>8, <1>11 DEF total

(* What they add up to, one by one.                                        *)
LEMMA TotalSteps ==
  ASSUME NEW numbers, Len(numbers) \in Nat, \A n \in 1..Len(numbers) : numbers[n] \in Int
  PROVE  /\ TotalBefore(numbers)[1] = 0
         /\ \A n \in 1..Len(numbers) :
              TotalBefore(numbers)[n + 1] = TotalBefore(numbers)[n] + numbers[n]
         /\ \A n \in 1..Len(numbers) + 1 : TotalBefore(numbers)[n] \in Int
PROOF
<1> DEFINE total == TotalBefore(numbers)
<1>1. \A n \in 1..Len(numbers) + 1 : total[n] = TotalAt(numbers, n, total) /\ total[n] \in Int
  BY TotalsAre
<1> HIDE DEF total
<1>2. 1 \in 1..Len(numbers) + 1
  OBVIOUS
<1>3. total[1] = 0
  BY <1>1, <1>2 DEF TotalAt
<1>4. ASSUME NEW n \in 1..Len(numbers) PROVE total[n + 1] = total[n] + numbers[n]
  <2>1. n + 1 \in 1..Len(numbers) + 1 /\ n + 1 # 1 /\ n + 1 - 1 = n
    OBVIOUS
  <2> QED  BY <1>1, <2>1 DEF TotalAt
<1> QED  BY <1>1, <1>3, <1>4 DEF total

(* The first n numbers add up to the same without the others.              *)
LEMMA TotalOfSome ==
  ASSUME NEW N \in Nat, NEW d \in [1..N -> Int], NEW n \in 0..N
  PROVE  Total([k \in 1..n |-> d[k]]) = TotalBefore(d)[n + 1]
PROOF
<1> DEFINE few == [k \in 1..n |-> d[k]]
           M == n + 1
           all == TotalBefore(d)
           some == TotalBefore(few)
           Good == {k \in 1..M : some[k] = all[k]}
<1>1. /\ n \in Nat /\ Len(few) = n /\ Len(d) = N
      /\ (\A k \in 1..n : few[k] = d[k] /\ few[k] \in Int) /\ \A k \in 1..N : d[k] \in Int
  OBVIOUS
<1> HIDE DEF few
<1>2. some[1] = 0 /\ \A k \in 1..n : some[k + 1] = some[k] + few[k]
  BY <1>1, TotalSteps
<1>3. all[1] = 0 /\ \A k \in 1..N : all[k + 1] = all[k] + d[k]
  BY <1>1, TotalSteps
<1> HIDE DEF all, some
<1>4. 1 \in Good
  BY <1>1, <1>2, <1>3
<1>5. ASSUME NEW k \in 1..M - 1, k \in Good PROVE k + 1 \in Good
  <2>1. k \in 1..n /\ k \in 1..N /\ k + 1 \in 1..M
    BY <1>1
  <2> QED  BY <1>1, <1>2, <1>3, <1>5, <2>1
<1>6. \A k \in 1..M : k \in Good
  <2>1. M \in Nat
    BY <1>1
  <2> HIDE DEF Good, M
  <2> QED  BY <1>4, <1>5, <2>1, Upwards
<1>7. M \in 1..M
  BY <1>1
<1>8. some[M] = all[M]
  BY <1>6, <1>7
<1> QED  BY <1>1, <1>8 DEF Total, few, some, all

-----------------------------------------------------------------------------
(* The calendar                                                            *)

LeapDay(y) == IF Leap(y) THEN 1 ELSE 0

(* The days of a year before one of its months, or before the next year.   *)
MonthOffset(y, m) ==
  CASE m = 1 -> 0 [] m = 2 -> 31 [] m = 3 -> 59 + LeapDay(y) [] m = 4 -> 90 + LeapDay(y)
    [] m = 5 -> 120 + LeapDay(y) [] m = 6 -> 151 + LeapDay(y) [] m = 7 -> 181 + LeapDay(y)
    [] m = 8 -> 212 + LeapDay(y) [] m = 9 -> 243 + LeapDay(y) [] m = 10 -> 273 + LeapDay(y)
    [] m = 11 -> 304 + LeapDay(y) [] m = 12 -> 334 + LeapDay(y) [] m = 13 -> 365 + LeapDay(y)

LEMMA MonthsAre ==
  ASSUME NEW y \in Int
  PROVE  /\ LeapDay(y) \in {0, 1}
         /\ \A m \in 1..12 :
              /\ DaysOfMonth(y, m) \in 28..31
              /\ MonthOffset(y, m) \in 0..335
              /\ MonthOffset(y, m + 1) = MonthOffset(y, m) + DaysOfMonth(y, m)
PROOF
<1>1. LeapDay(y) \in {0, 1} /\ (IF Leap(y) THEN 29 ELSE 28) = 28 + LeapDay(y)
  BY DEF LeapDay
<1>2. /\ DaysOfMonth(y, 1) = 31 /\ DaysOfMonth(y, 2) = 28 + LeapDay(y)
      /\ DaysOfMonth(y, 3) = 31 /\ DaysOfMonth(y, 4) = 30 /\ DaysOfMonth(y, 5) = 31
      /\ DaysOfMonth(y, 6) = 30 /\ DaysOfMonth(y, 7) = 31 /\ DaysOfMonth(y, 8) = 31
      /\ DaysOfMonth(y, 9) = 30 /\ DaysOfMonth(y, 10) = 31 /\ DaysOfMonth(y, 11) = 30
      /\ DaysOfMonth(y, 12) = 31
  BY <1>1 DEF DaysOfMonth
<1> DEFINE l == LeapDay(y)
           O(m) == MonthOffset(y, m)
<1>3. /\ O(1) = 0 /\ O(2) = 31 /\ O(3) = 59 + l /\ O(4) = 90 + l /\ O(5) = 120 + l
      /\ O(6) = 151 + l /\ O(7) = 181 + l /\ O(8) = 212 + l /\ O(9) = 243 + l
      /\ O(10) = 273 + l /\ O(11) = 304 + l /\ O(12) = 334 + l /\ O(13) = 365 + l
  BY DEF MonthOffset
<1> HIDE DEF l, O
<1>4. \A m \in 1..12 : m = 1 \/ m = 2 \/ m = 3 \/ m = 4 \/ m = 5 \/ m = 6 \/ m = 7 \/ m = 8
                       \/ m = 9 \/ m = 10 \/ m = 11 \/ m = 12
  OBVIOUS
<1>5. ASSUME NEW m \in 1..12
      PROVE  /\ DaysOfMonth(y, m) \in 28..31 /\ O(m) \in 0..335
             /\ O(m + 1) = O(m) + DaysOfMonth(y, m)
  BY <1>1, <1>2, <1>3, <1>4 DEF l
<1> QED  BY <1>1, <1>5 DEF O

(* So many days are the months of a year up to one of them.                *)
LEMMA MonthTotals ==
  ASSUME NEW y \in Int, NEW n \in 0..12
  PROVE  Total([m \in 1..n |-> DaysOfMonth(y, m)]) = MonthOffset(y, n + 1)
PROOF
<1> DEFINE d == [m \in 1..12 |-> DaysOfMonth(y, m)]
           total == TotalBefore(d)
           Good == {k \in 1..13 : total[k] = MonthOffset(y, k)}
<1>1. \A m \in 1..12 : /\ DaysOfMonth(y, m) \in Int /\ MonthOffset(y, m) \in Int
                       /\ MonthOffset(y, m + 1) = MonthOffset(y, m) + DaysOfMonth(y, m)
  <2> TAKE m \in 1..12
  <2>1. DaysOfMonth(y, m) \in 28..31 /\ MonthOffset(y, m) \in 0..335
        /\ MonthOffset(y, m + 1) = MonthOffset(y, m) + DaysOfMonth(y, m)
    BY MonthsAre
  <2> QED  BY <2>1
<1>2. d \in [1..12 -> Int] /\ Len(d) = 12 /\ \A m \in 1..12 : d[m] = DaysOfMonth(y, m)
  BY <1>1
<1>3. [m \in 1..n |-> DaysOfMonth(y, m)] = [k \in 1..n |-> d[k]]
  BY <1>2
<1> HIDE DEF d
<1>4. Total([k \in 1..n |-> d[k]]) = total[n + 1]
  <2>1. 12 \in Nat
    OBVIOUS
  <2> QED  BY <1>2, <2>1, TotalOfSome
<1>5. total[1] = 0 /\ \A k \in 1..12 : total[k + 1] = total[k] + d[k]
  <2>1. Len(d) \in Nat /\ \A m \in 1..Len(d) : d[m] \in Int
    BY <1>2
  <2> QED  BY <1>2, <2>1, TotalSteps
<1> HIDE DEF total
<1>6. 1 \in Good
  BY <1>5 DEF MonthOffset
<1>7. ASSUME NEW k \in 1..13 - 1, k \in Good PROVE k + 1 \in Good
  BY <1>1, <1>2, <1>5, <1>7
<1>8. \A k \in 1..13 : k \in Good
  <2> DEFINE M == 13
  <2>1. M \in Nat
    OBVIOUS
  <2>2. 1 \in Good /\ \A k \in 1..M - 1 : k \in Good => k + 1 \in Good
    BY <1>6, <1>7
  <2> HIDE DEF Good, M
  <2>3. \A k \in 1..M : k \in Good
    BY <2>1, <2>2, Upwards
  <2> QED  BY <2>3 DEF M
<1>9. n + 1 \in 1..13
  OBVIOUS
<1> QED  BY <1>3, <1>4, <1>8, <1>9

(* The days of so many years.                                              *)
YearDays(y) == 365 * y + y \div 4 - y \div 100 + y \div 400

(* The days from 1970 on, in one formula: years begin in March.            *)
LEMMA CivilDays ==
  ASSUME NEW year \in Int, NEW month \in 1..12, NEW day \in Int,
         NEW y, y = IF month <= 2 THEN year - 1 ELSE year
  PROVE  DaysFromCivil(year, month, day)
           = YearDays(y) + DayOfYear(month, day) - EpochDay
PROOF
<1> DEFINE era == y \div 400
           yoe == y - era * 400
           doy == DayOfYear(month, day)
<1>1. y \in Int
  OBVIOUS
<1>2. doy \in Int
  BY DEF DayOfYear
<1>3. DaysFromCivil(year, month, day)
        = era * EraDays + yoe * 365 + yoe \div 4 - yoe \div 100 + doy - EpochDay
  BY DEF DaysFromCivil
<1> HIDE DEF doy
<1>4. era \in Int /\ yoe \in 0..399
  BY <1>1
<1>5. yoe \div 4 = y \div 4 - 100 * era /\ yoe \div 100 = y \div 100 - 4 * era
  BY <1>1
<1>6. y \div 4 \in Int /\ y \div 100 \in Int /\ yoe * 365 = 365 * y - 146000 * era
  BY <1>1
<1> HIDE DEF era
<1>7. DaysFromCivil(year, month, day)
        = 365 * y + y \div 4 - y \div 100 + era + doy - EpochDay
  BY SMT, <1>1, <1>2, <1>3, <1>4, <1>5, <1>6 DEF EpochDay, EraDays
<1> QED  BY <1>7 DEF YearDays, era, doy

FirstDay(y) == DaysFromCivil(y, 1, 1)

LEMMA FirstDayIs ==
  ASSUME NEW y \in Int
  PROVE  FirstDay(y) = YearDays(y - 1) + 306 - EpochDay
PROOF
<1>1. DayOfYear(1, 1) = 306
  BY DEF DayOfYear
<1>2. 1 \in 1..12 /\ 1 \in Int /\ y - 1 = IF 1 <= 2 THEN y - 1 ELSE y
  OBVIOUS
<1>3. DaysFromCivil(y, 1, 1) = YearDays(y - 1) + DayOfYear(1, 1) - EpochDay
  BY <1>2, CivilDays
<1> QED  BY <1>1, <1>3 DEF FirstDay

(* The first day of a year, from that of the year before.                  *)
LEMMA FirstDays ==
  /\ FirstDay(1970) = 0
  /\ \A y \in Int : FirstDay(y) \in Int /\ FirstDay(y + 1) = FirstDay(y) + 365 + LeapDay(y)
  /\ \A y \in Int : (y >= 1970 => FirstDay(y) >= 0) /\ (y <= 1970 => FirstDay(y) <= 0)
PROOF
<1> DEFINE D(y) == YearDays(y - 1) + 306 - EpochDay
<1>1. \A y \in Int : FirstDay(y) = D(y)
  BY FirstDayIs
<1> USE DEF YearDays
<1>2. \A y \in Int : D(y) \in Int
  BY SMT DEF EpochDay
<1>3. ASSUME NEW y \in Int PROVE D(y + 1) = D(y) + 365 + LeapDay(y)
  <2>1. y + 1 - 1 = y
    OBVIOUS
  <2>2. /\ y \div 4 = (y - 1) \div 4 + IF y % 4 = 0 THEN 1 ELSE 0
        /\ y \div 100 = (y - 1) \div 100 + IF y % 100 = 0 THEN 1 ELSE 0
        /\ y \div 400 = (y - 1) \div 400 + IF y % 400 = 0 THEN 1 ELSE 0
    OBVIOUS
  <2>3. (y % 100 = 0 => y % 4 = 0) /\ (y % 400 = 0 => y % 100 = 0)
    OBVIOUS
  <2> QED  BY SMT, <2>1, <2>2, <2>3 DEF LeapDay, Leap, EpochDay
<1>4. D(1970) = 0
  BY SMT DEF EpochDay
<1>5. ASSUME NEW y \in Int, y >= 1970 PROVE D(y) >= 0
  <2>1. CASE y = 1970
    BY <1>4, <2>1
  <2>2. CASE y > 1970
    <3> DEFINE z == y - 1
    <3>1. /\ 4 * (z \div 4) >= z - 3 /\ 100 * (z \div 100) <= z
          /\ 400 * (z \div 400) >= z - 399
          /\ z \div 4 \in Int /\ z \div 100 \in Int /\ z \div 400 \in Int
      OBVIOUS
    <3> QED  BY SMT, <2>2, <3>1 DEF EpochDay
  <2> QED  BY <1>5, <2>1, <2>2
<1>6. ASSUME NEW y \in Int, y <= 1970 PROVE D(y) <= 0
  <2>1. CASE y = 1970
    BY <1>4, <2>1
  <2>2. CASE y < 1970
    <3> DEFINE z == y - 1
    <3>1. /\ 4 * (z \div 4) <= z /\ 100 * (z \div 100) >= z - 99
          /\ 400 * (z \div 400) <= z
          /\ z \div 4 \in Int /\ z \div 100 \in Int /\ z \div 400 \in Int
      OBVIOUS
    <3> QED  BY SMT, <2>2, <3>1 DEF EpochDay
  <2> QED  BY <1>6, <2>1, <2>2
<1> HIDE DEF D
<1> QED  BY <1>1, <1>2, <1>3, <1>4, <1>5, <1>6

(* A date is so many days after the first of its year.                     *)
LEMMA DaysAre ==
  ASSUME NEW year \in Int, NEW month \in 1..12, NEW day \in Int
  PROVE  DaysFromCivil(year, month, day) = FirstDay(year) + MonthOffset(year, month) + day - 1
PROOF
<1> DEFINE l == LeapDay(year)
           O(m) == MonthOffset(year, m)
           D(y) == YearDays(y)
           march == IF month <= 2 THEN year - 1 ELSE year
<1>1. l \in {0, 1}
  BY DEF LeapDay
<1>2. /\ O(1) = 0 /\ O(2) = 31 /\ O(3) = 59 + l /\ O(4) = 90 + l /\ O(5) = 120 + l
      /\ O(6) = 151 + l /\ O(7) = 181 + l /\ O(8) = 212 + l /\ O(9) = 243 + l
      /\ O(10) = 273 + l /\ O(11) = 304 + l /\ O(12) = 334 + l
  BY DEF MonthOffset
<1>3. /\ DayOfYear(1, day) = 305 + day /\ DayOfYear(2, day) = 336 + day
      /\ DayOfYear(3, day) = day - 1 /\ DayOfYear(4, day) = 30 + day
      /\ DayOfYear(5, day) = 60 + day /\ DayOfYear(6, day) = 91 + day
      /\ DayOfYear(7, day) = 121 + day /\ DayOfYear(8, day) = 152 + day
      /\ DayOfYear(9, day) = 183 + day /\ DayOfYear(10, day) = 213 + day
      /\ DayOfYear(11, day) = 244 + day /\ DayOfYear(12, day) = 274 + day
  BY DEF DayOfYear
<1>4. D(year) \in Int /\ D(year - 1) \in Int
  BY DEF YearDays
<1> HIDE DEF O, D
<1>5. FirstDay(year) = D(year - 1) + 306 - EpochDay
  BY FirstDayIs DEF D
<1>6. D(year) = D(year - 1) + 365 + l
  <2>1. FirstDay(year + 1) = FirstDay(year) + 365 + l
    BY FirstDays
  <2>2. FirstDay(year + 1) = D(year) + 306 - EpochDay
    <3>1. year + 1 \in Int /\ year + 1 - 1 = year
      OBVIOUS
    <3>2. FirstDay(year + 1) = YearDays(year + 1 - 1) + 306 - EpochDay
      BY <3>1, FirstDayIs
    <3> QED  BY <3>1, <3>2, Zenon DEF D
  <2> HIDE DEF l
  <2> QED  BY SMT, <1>1, <1>4, <1>5, <2>1, <2>2 DEF EpochDay
<1>7. DaysFromCivil(year, month, day) = D(march) + DayOfYear(month, day) - EpochDay
  <2>1. march = IF month <= 2 THEN year - 1 ELSE year
    OBVIOUS
  <2> HIDE DEF march
  <2> QED  BY <2>1, CivilDays, Zenon DEF D
<1> HIDE DEF l
<1>8. CASE month <= 2
  <2>1. DaysFromCivil(year, month, day) = D(year - 1) + DayOfYear(month, day) - EpochDay
    <3>1. march = year - 1
      BY <1>8
    <3> HIDE DEF march
    <3> QED  BY <1>7, <3>1, Zenon
  <2>2. month = 1 \/ month = 2
    BY <1>8
  <2> QED  BY SMT, <1>2, <1>3, <1>4, <1>5, <2>1, <2>2 DEF O, EpochDay
<1>9. CASE ~(month <= 2)
  <2>1. DaysFromCivil(year, month, day) = D(year) + DayOfYear(month, day) - EpochDay
    <3>1. march = year
      BY <1>9
    <3> HIDE DEF march
    <3> QED  BY <1>7, <3>1, Zenon
  <2>2. month = 3 \/ month = 4 \/ month = 5 \/ month = 6 \/ month = 7 \/ month = 8
        \/ month = 9 \/ month = 10 \/ month = 11 \/ month = 12
    BY <1>9
  <2>3. DayOfYear(month, day) = 305 + day - 365 - l + O(month)
    BY <1>1, <1>2, <1>3, <2>2
  <2>4. O(month) \in Int
    BY <1>1, <1>2, <2>2
  <2> QED  BY SMT, <1>1, <1>4, <1>5, <1>6, <2>1, <2>3, <2>4 DEF O, EpochDay
<1> QED  BY <1>8, <1>9

LEMMA YearTotals ==
  ASSUME NEW year \in Int
  PROVE  /\ DaysOfMonths(year, 12) = 365 + LeapDay(year)
         /\ \A n \in 1..12 : DaysOfMonths(year, n - 1) = MonthOffset(year, n)
PROOF
<1>1. \A n \in 0..12 : DaysOfMonths(year, n) = MonthOffset(year, n + 1)
  <2> TAKE n \in 0..12
  <2>1. Total([m \in 1..n |-> DaysOfMonth(year, m)]) = MonthOffset(year, n + 1)
    BY MonthTotals
  <2> QED  BY <2>1 DEF DaysOfMonths
<1>2. MonthOffset(year, 13) = 365 + LeapDay(year)
  BY DEF MonthOffset
<1>3. 12 \in 0..12 /\ 12 + 1 = 13
  OBVIOUS
<1>4. DaysOfMonths(year, 12) = 365 + LeapDay(year)
  <2>1. DaysOfMonths(year, 12) = MonthOffset(year, 12 + 1)
    BY <1>1, <1>3, Zenon
  <2> QED  BY <1>2, <1>3, <2>1, Zenon
<1>5. \A n \in 1..12 : DaysOfMonths(year, n - 1) = MonthOffset(year, n)
  <2> TAKE n \in 1..12
  <2>1. n - 1 \in 0..12 /\ n - 1 + 1 = n
    OBVIOUS
  <2>2. DaysOfMonths(year, n - 1) = MonthOffset(year, n - 1 + 1)
    BY <1>1, <2>1, Zenon
  <2> QED  BY <2>1, <2>2, Zenon
<1> QED  BY <1>4, <1>5

(* So many days the calendar counts, month by month.                       *)
LEMMA CountedDays ==
  ASSUME NEW year \in Int, year >= 1970, NEW month \in 1..12
  PROVE  DaysBefore(year, month) = FirstDay(year) + MonthOffset(year, month)
PROOF
<1> DEFINE years == year - 1970
           numbers == [n \in 1..years |-> DaysOfMonths(1969 + n, 12)]
           total == TotalBefore(numbers)
           N == years + 1
           Good == {n \in 1..N : total[n] = FirstDay(1969 + n)}
<1>1. \A z \in Int : DaysOfMonths(z, 12) = 365 + LeapDay(z)
  BY YearTotals
<1>2. DaysOfMonths(year, month - 1) = MonthOffset(year, month)
  BY YearTotals
<1>3. DaysBefore(year, month) = Total(numbers) + DaysOfMonths(year, month - 1)
  BY DEF DaysBefore
<1>4. years \in Nat /\ N \in Nat
  OBVIOUS
<1>5. Len(numbers) = years /\ \A n \in 1..years : numbers[n] = 365 + LeapDay(1969 + n)
  <2>1. \A n \in 1..years : 1969 + n \in Int
    OBVIOUS
  <2> HIDE DEF years
  <2> QED  BY <1>1, <1>4, <2>1
<1> HIDE DEF numbers, years
<1>6. \A n \in 1..years : numbers[n] \in Int
  BY <1>5 DEF LeapDay
<1>7. total[1] = 0 /\ \A n \in 1..years : total[n + 1] = total[n] + numbers[n]
  <2>1. Len(numbers) \in Nat /\ \A n \in 1..Len(numbers) : numbers[n] \in Int
    BY <1>4, <1>5, <1>6
  <2>2. /\ TotalBefore(numbers)[1] = 0
        /\ \A n \in 1..Len(numbers) :
             TotalBefore(numbers)[n + 1] = TotalBefore(numbers)[n] + numbers[n]
    BY <2>1, TotalSteps
  <2> QED  BY <1>5, <2>2
<1> HIDE DEF total
<1>8. 1 \in Good
  <2>1. 1969 + 1 = 1970
    OBVIOUS
  <2> QED  BY <1>4, <1>7, <2>1, FirstDays
<1>9. ASSUME NEW n \in 1..N - 1, n \in Good PROVE n + 1 \in Good
  <2>1. n \in 1..years /\ n + 1 \in 1..N /\ 1969 + (n + 1) = 1969 + n + 1 /\ 1969 + n \in Int
    BY <1>4
  <2>2. FirstDay(1969 + n + 1) = FirstDay(1969 + n) + 365 + LeapDay(1969 + n)
    BY <2>1, FirstDays
  <2>3. total[n + 1] = FirstDay(1969 + n) + (365 + LeapDay(1969 + n))
    BY <1>5, <1>7, <1>9, <2>1
  <2>4. FirstDay(1969 + n) \in Int /\ LeapDay(1969 + n) \in Int
    BY <2>1, FirstDays DEF LeapDay
  <2> QED  BY <2>1, <2>2, <2>3, <2>4
<1>10. \A n \in 1..N : n \in Good
  <2> HIDE DEF Good, N
  <2> QED  BY <1>4, <1>8, <1>9, Upwards
<1>11. Total(numbers) = FirstDay(year)
  <2>1. N \in 1..N /\ 1969 + N = year
    BY <1>4 DEF years
  <2>2. total[N] = FirstDay(1969 + N)
    BY <1>10, <2>1
  <2> QED  BY <1>5, <2>1, <2>2 DEF Total, total
<1> QED  BY <1>2, <1>3, <1>11

(* Where a day is in an era of four centuries: after so many centuries,    *)
(* so many times four years, and so many years.                            *)
Placed(doe, c, q, r, doy) ==
  /\ c \in 0..3 /\ q \in 0..24 /\ r \in 0..3 /\ doy \in Nat /\ doy <= 365
  /\ doy = 365 => r = 3 /\ (q # 24 \/ c = 3)
  /\ doe = CenturyDays * c + 1461 * q + 365 * r + doy

LEMMA EveryDayPlaced ==
  ASSUME NEW doe \in Nat, doe < EraDays
  PROVE  \E c, q, r, doy : Placed(doe, c, q, r, doy)
PROOF
<1> DEFINE c == IF doe = EraEnd THEN 3 ELSE doe \div CenturyDays
           x == doe - CenturyDays * c
           q == x \div 1461
           y == x - 1461 * q
           r == IF y = 1460 THEN 3 ELSE y \div 365
           doy == y - 365 * r
<1>1. c \in Nat /\ c <= 3 /\ x \in Nat /\ x <= CenturyDays /\ (x = CenturyDays => c = 3)
  <2>1. CASE doe = EraEnd
    BY SMT, <2>1 DEF EraDays, EraEnd, CenturyDays
  <2>2. CASE doe # EraEnd
    BY SMT, <2>2 DEF EraDays, EraEnd, CenturyDays
  <2> QED  BY <2>1, <2>2
<1>2. doe = CenturyDays * c + x
  BY SMT, <1>1 DEF EraDays, EraEnd, CenturyDays
<1> HIDE DEF c, x
<1>3. q \in Nat /\ q <= 24 /\ y \in Nat /\ y <= 1460 /\ x = 1461 * q + y
  BY SMT, <1>1 DEF EraDays, EraEnd, CenturyDays
<1>4. y = 1460 /\ q = 24 => x = CenturyDays
  BY SMT, <1>3 DEF EraDays, EraEnd, CenturyDays
<1> HIDE DEF q, y
<1>5. r \in Nat /\ r <= 3 /\ doy \in Nat /\ doy <= 365 /\ y = 365 * r + doy
  <2>1. CASE y = 1460
    BY <2>1
  <2>2. CASE y # 1460
    BY <1>3, <2>2
  <2> QED  BY <2>1, <2>2
<1> HIDE DEF r, doy
<1>6. doy = 365 => r = 3 /\ (q # 24 \/ c = 3)
  <2> SUFFICES ASSUME doy = 365 PROVE r = 3 /\ (q # 24 \/ c = 3)
    OBVIOUS
  <2>1. r = 3
    <3>1. CASE y = 1460
      BY <3>1 DEF r
    <3>2. CASE y # 1460
      <4>1. doy = y - 365 * (y \div 365)
        BY <3>2 DEF r, doy
      <4>2. y - 365 * (y \div 365) < 365
        BY <1>3
      <4> QED  BY <4>1, <4>2
    <3> QED  BY <3>1, <3>2
  <2>2. y = 1460
    BY <1>5, <2>1
  <2> QED  BY <1>1, <1>4, <2>1, <2>2
<1>7. doe = CenturyDays * c + 1461 * q + 365 * r + doy
  BY SMT, <1>1, <1>2, <1>3, <1>5 DEF EraDays, EraEnd, CenturyDays
<1>8. c \in 0..3 /\ q \in 0..24 /\ r \in 0..3
  BY <1>1, <1>3, <1>5
<1>9. Placed(doe, c, q, r, doy)
  BY <1>5, <1>6, <1>7, <1>8 DEF Placed
<1> QED  BY <1>9

(* civil_from_days finds the year of a day in its era.                     *)
LEMMA YearOfDay ==
  ASSUME NEW doe, NEW c, NEW q, NEW r, NEW doy, Placed(doe, c, q, r, doy)
  PROVE  LET yoe == 100 * c + 4 * q + r
         IN  /\ doe \in Nat /\ doe < EraDays /\ yoe \in Nat /\ yoe < 400
             /\ (doe - doe \div 1460 + doe \div CenturyDays - doe \div EraEnd) \div 365 = yoe
             /\ doe - (365 * yoe + yoe \div 4 - yoe \div 100) = doy
PROOF
<1> DEFINE x == 1461 * q + 365 * r + doy
           w == 24 * c + q + 365 * r + doy
           yoe == 100 * c + 4 * q + r
           e == w \div 1460
<1>1. /\ c \in Int /\ 0 <= c /\ c <= 3 /\ q \in Int /\ 0 <= q /\ q <= 24
      /\ r \in Int /\ 0 <= r /\ r <= 3 /\ doy \in Int /\ 0 <= doy /\ doy <= 365
  BY DEF Placed
<1>2. (doy = 365 => r = 3 /\ (q # 24 \/ c = 3)) /\ doe = CenturyDays * c + x
  BY SMT, <1>1 DEF Placed, EraDays, EraEnd, CenturyDays
<1>3. x \in Nat /\ x <= CenturyDays /\ (x = CenturyDays => c = 3)
  <2>1. doy <= 364 \/ (doy = 365 /\ r = 3 /\ (q # 24 \/ c = 3))
    BY <1>1, <1>2
  <2> QED  BY SMT, <1>1, <2>1 DEF EraDays, EraEnd, CenturyDays
<1>4. yoe \in Nat /\ yoe < 400 /\ w \in Nat /\ w <= 1556
  BY <1>1
<1>5. doe = 1460 * (25 * c + q) + w
  BY SMT, <1>1, <1>2 DEF EraDays, EraEnd, CenturyDays
<1> HIDE DEF x
<1>6. doe \in Nat /\ doe < EraDays
  BY SMT, <1>1, <1>2, <1>3 DEF EraDays, EraEnd, CenturyDays
<1>7. doe \div CenturyDays - doe \div EraEnd = c
  <2>1. CASE x = CenturyDays
    <3>1. doe = EraEnd
      BY SMT, <1>1, <1>2, <1>3, <2>1 DEF EraDays, EraEnd, CenturyDays
    <3>2. doe \div CenturyDays = 4 /\ doe \div EraEnd = 1
      BY SMT, <3>1 DEF EraDays, EraEnd, CenturyDays
    <3> QED  BY <1>3, <2>1, <3>2
  <2>2. CASE x # CenturyDays
    <3>1. x \in Nat /\ x < CenturyDays
      BY SMT, <1>3, <2>2 DEF EraDays, EraEnd, CenturyDays
    <3>2. doe \div CenturyDays = c
      BY SMT, <1>1, <1>2, <3>1 DEF EraDays, EraEnd, CenturyDays
    <3>3. doe < EraEnd
      BY SMT, <1>1, <1>2, <3>1 DEF EraDays, EraEnd, CenturyDays
    <3>4. doe \div EraEnd = 0
      BY SMT, <1>6, <3>3 DEF EraDays, EraEnd, CenturyDays
    <3> QED  BY <1>1, <3>2, <3>4
  <2> QED  BY <2>1, <2>2
<1>8. (e = 0 /\ w < 1460) \/ (e = 1 /\ w >= 1460)
  BY <1>4
<1>9. doe \div 1460 = 25 * c + q + e
  <2> DEFINE k == 25 * c + q + e
             rest == w - 1460 * e
  <2> HIDE DEF w, e
  <2>1. k \in Int /\ rest \in Nat /\ rest < 1460 /\ doe = 1460 * k + rest
    BY <1>1, <1>4, <1>5, <1>8
  <2> HIDE DEF k, rest
  <2>2. doe \div 1460 = k
    BY <2>1
  <2> QED  BY <2>2 DEF k
<1>10. doy - e \in Nat /\ doy - e <= 364
  <2> HIDE DEF e
  <2>1. CASE e = 1
    <3>1. w >= 1460
      BY <1>8, <2>1
    <3>2. doy >= 1
      BY <1>1, <3>1
    <3> QED  BY <1>1, <2>1, <3>2
  <2>2. CASE e = 0
    <3>1. w < 1460
      BY <1>8, <2>2
    <3>2. doy # 365
      BY <1>1, <1>2, <3>1
    <3> QED  BY <1>1, <2>2, <3>2
  <2> QED  BY <1>8, <2>1, <2>2
<1>11. doe - doe \div 1460 + doe \div CenturyDays - doe \div EraEnd = 365 * yoe + (doy - e)
  <2> DEFINE d1 == doe \div CenturyDays
             d2 == doe \div EraEnd
             d3 == doe \div 1460
  <2>1. d1 \in Int /\ d2 \in Int
    BY SMT, <1>6 DEF EraDays, EraEnd, CenturyDays
  <2>2. d3 = 25 * c + q + e /\ d1 - d2 = c /\ e \in Int
    BY <1>7, <1>8, <1>9
  <2>3. doe = 1460 * (25 * c + q) + 24 * c + q + 365 * r + doy
    BY <1>1, <1>5
  <2> HIDE DEF d1, d2, d3, e
  <2>4. doe - d3 + d1 - d2 = 365 * yoe + (doy - e)
    BY <1>1, <2>1, <2>2, <2>3
  <2> QED  BY <2>4 DEF d1, d2, d3
<1> HIDE DEF e, w
<1>12. (365 * yoe + (doy - e)) \div 365 = yoe
  <2> DEFINE rest == doy - e
  <2> HIDE DEF yoe, rest
  <2>1. rest \in Nat /\ rest <= 364 /\ yoe \in Nat
    BY <1>4, <1>10 DEF rest
  <2>2. (365 * yoe + rest) \div 365 = yoe
    BY <2>1
  <2> QED  BY <2>2 DEF rest
<1>13. yoe \div 4 = 25 * c + q /\ yoe \div 100 = c
  BY <1>1
<1>14. doe - (365 * yoe + yoe \div 4 - yoe \div 100) = doy
  <2>1. doe = 1460 * (25 * c + q) + 24 * c + q + 365 * r + doy
    BY <1>1, <1>5 DEF w
  <2> QED  BY <1>1, <1>13, <2>1
<1>15. (doe - doe \div 1460 + doe \div CenturyDays - doe \div EraEnd) \div 365 = yoe
  <2> DEFINE left == doe - doe \div 1460 + doe \div CenturyDays - doe \div EraEnd
             right == 365 * yoe + (doy - e)
  <2>1. left = right /\ right \div 365 = yoe
    BY <1>11, <1>12
  <2> HIDE DEF left, right
  <2>2. left \div 365 = yoe
    BY <2>1
  <2> QED  BY <2>2 DEF left
<1>16. yoe \in Nat /\ yoe < 400
  BY <1>4
<1> QED  BY <1>6, <1>14, <1>15, <1>16

(* Months from March on, and the day of a date in its month.               *)
MarchMonth(doy) == (5 * doy + 2) \div 153
MonthOf(doy) == IF MarchMonth(doy) < 10 THEN MarchMonth(doy) + 3 ELSE MarchMonth(doy) - 9
DayOf(doy) == doy - (153 * MarchMonth(doy) + 2) \div 5 + 1

MostDays(month) == IF month = 2 THEN 29 ELSE IF month \in {4, 6, 9, 11} THEN 30 ELSE 31

(* The days of a year, which begins in March, before one of its months.    *)
LEMMA MarchOffsets ==
  /\ (153 * 0 + 2) \div 5 = 0 /\ (153 * 1 + 2) \div 5 = 31
  /\ (153 * 2 + 2) \div 5 = 61 /\ (153 * 3 + 2) \div 5 = 92
  /\ (153 * 4 + 2) \div 5 = 122 /\ (153 * 5 + 2) \div 5 = 153
  /\ (153 * 6 + 2) \div 5 = 184 /\ (153 * 7 + 2) \div 5 = 214
  /\ (153 * 8 + 2) \div 5 = 245 /\ (153 * 9 + 2) \div 5 = 275
  /\ (153 * 10 + 2) \div 5 = 306 /\ (153 * 11 + 2) \div 5 = 337
PROOF
  OBVIOUS

(* Every day of a year has a month and a day in it; only the last of a     *)
(* leap year is the 29th of February.                                      *)
LEMMA EveryDayInAMonth ==
  ASSUME NEW doy \in Nat, doy <= 365
  PROVE  /\ MonthOf(doy) \in 1..12 /\ DayOf(doy) \in 1..MostDays(MonthOf(doy))
         /\ MonthOf(doy) = 2 /\ DayOf(doy) = 29 => doy = 365
PROOF
<1> DEFINE mp == MarchMonth(doy)
           first == (153 * mp + 2) \div 5
           m == MonthOf(doy)
           d == DayOf(doy)
<1>1. mp \in Int /\ 153 * mp <= 5 * doy + 2 /\ 5 * doy + 2 < 153 * mp + 153
  BY DEF MarchMonth
<1>2. m = (IF mp < 10 THEN mp + 3 ELSE mp - 9) /\ d = doy - first + 1
  BY DEF MonthOf, DayOf
<1> HIDE DEF mp, m, d
<1>3. mp = 0 \/ mp = 1 \/ mp = 2 \/ mp = 3 \/ mp = 4 \/ mp = 5 \/ mp = 6 \/ mp = 7 \/ mp = 8
      \/ mp = 9 \/ mp = 10 \/ mp = 11
  BY <1>1
<1>4. /\ mp = 0 => first = 0
      /\ mp = 1 => first = 31
      /\ mp = 2 => first = 61
      /\ mp = 3 => first = 92
      /\ mp = 4 => first = 122
      /\ mp = 5 => first = 153
      /\ mp = 6 => first = 184
      /\ mp = 7 => first = 214
      /\ mp = 8 => first = 245
      /\ mp = 9 => first = 275
      /\ mp = 10 => first = 306
      /\ mp = 11 => first = 337
  BY MarchOffsets
<1> HIDE DEF first
<1>5. m \in 1..12 /\ d \in Int /\ d >= 1
  BY <1>1, <1>2, <1>3, <1>4
<1>6. m = 2 /\ d = 29 => doy = 365
  BY <1>1, <1>2, <1>3, <1>4
<1>7. d <= MostDays(m) /\ MostDays(m) \in Int
  BY <1>1, <1>2, <1>3, <1>4 DEF MostDays
<1> QED  BY <1>5, <1>6, <1>7 DEF m, d

(* A date is found again from its day of the year.                         *)
LEMMA MonthIsFound ==
  ASSUME NEW month \in 1..12, NEW day \in 1..MostDays(month)
  PROVE  LET doy == DayOfYear(month, day)
         IN  /\ doy \in Nat /\ doy <= 365 /\ MonthOf(doy) = month /\ DayOf(doy) = day
             /\ doy = 365 => month = 2 /\ day = 29
PROOF
<1> DEFINE mp == IF month > 2 THEN month - 3 ELSE month + 9
           first == (153 * mp + 2) \div 5
           doy == DayOfYear(month, day)
<1>1. month = (IF mp < 10 THEN mp + 3 ELSE mp - 9) /\ mp \in Int /\ 0 <= mp /\ mp <= 11
  OBVIOUS
<1>2. MostDays(month) \in Int
  BY DEF MostDays
<1>3. day \in Int /\ day >= 1 /\ day <= MostDays(month)
  BY <1>2
<1>4. doy = first + day - 1
  BY DEF DayOfYear
<1> HIDE DEF doy, mp
<1>5. mp = 0 \/ mp = 1 \/ mp = 2 \/ mp = 3 \/ mp = 4 \/ mp = 5 \/ mp = 6 \/ mp = 7 \/ mp = 8
      \/ mp = 9 \/ mp = 10 \/ mp = 11
  BY <1>1
<1>6. /\ mp = 0 => first = 0
      /\ mp = 1 => first = 31
      /\ mp = 2 => first = 61
      /\ mp = 3 => first = 92
      /\ mp = 4 => first = 122
      /\ mp = 5 => first = 153
      /\ mp = 6 => first = 184
      /\ mp = 7 => first = 214
      /\ mp = 8 => first = 245
      /\ mp = 9 => first = 275
      /\ mp = 10 => first = 306
      /\ mp = 11 => first = 337
  BY MarchOffsets
<1> HIDE DEF first
<1>7. doy \in Nat /\ doy <= 365 /\ (doy = 365 => month = 2 /\ day = 29)
  BY <1>1, <1>3, <1>4, <1>5, <1>6 DEF MostDays
<1>8. 153 * mp <= 5 * doy + 2 /\ 5 * doy + 2 < 153 * mp + 153
  BY <1>1, <1>3, <1>4, <1>5, <1>6 DEF MostDays
<1>9. MarchMonth(doy) = mp
  BY <1>1, <1>7, <1>8 DEF MarchMonth
<1>10. MonthOf(doy) = month
  BY <1>1, <1>9 DEF MonthOf
<1>11. DayOf(doy) = day
  <2>1. DayOf(doy) = doy - first + 1
    BY <1>9 DEF DayOf, first
  <2>2. first \in Int
    BY <1>5, <1>6
  <2> QED  BY <1>3, <1>4, <2>1, <2>2
<1> QED  BY <1>7, <1>10, <1>11 DEF doy

(* civil_from_days of a day that is placed in its era.                     *)
LEMMA CivilOfPlaced ==
  ASSUME NEW era \in Int, NEW doe, NEW c, NEW q, NEW r, NEW doy, Placed(doe, c, q, r, doy),
         NEW days \in Int, days + EpochDay = EraDays * era + doe
  PROVE  LET y == 100 * c + 4 * q + r + era * 400
         IN  CivilFromDays(days)
               = <<IF MonthOf(doy) <= 2 THEN y + 1 ELSE y, MonthOf(doy), DayOf(doy)>>
PROOF
<1> DEFINE z == days + EpochDay
           yoe == 100 * c + 4 * q + r
           YearIn(d) == (d - d \div 1460 + d \div CenturyDays - d \div EraEnd) \div 365
           DayIn(d, ye) == d - (365 * ye + ye \div 4 - ye \div 100)
           Civil(e, ye, dy) ==
             LET mp == (5 * dy + 2) \div 153
                 m  == IF mp < 10 THEN mp + 3 ELSE mp - 9
                 y  == ye + e * 400
             IN  <<IF m <= 2 THEN y + 1 ELSE y, m, dy - (153 * mp + 2) \div 5 + 1>>
<1>1. /\ doe \in Nat /\ doe < EraDays /\ yoe \in Nat /\ yoe < 400
      /\ (doe - doe \div 1460 + doe \div CenturyDays - doe \div EraEnd) \div 365 = yoe
      /\ doe - (365 * yoe + yoe \div 4 - yoe \div 100) = doy
  BY YearOfDay
<1> HIDE DEF yoe
<1>2. z \in Int /\ z = EraDays * era + doe
  BY SMT, <1>1 DEF EpochDay, EraDays
<1> HIDE DEF z
<1>3. z \div EraDays = era
  BY SMT, <1>1, <1>2 DEF EpochDay, EraDays
<1>4. z - era * EraDays = doe
  BY SMT, <1>1, <1>2 DEF EpochDay, EraDays
<1>5. CivilFromDays(days)
        = LET e == z \div EraDays
              d == z - e * EraDays
          IN  Civil(e, YearIn(d), DayIn(d, YearIn(d)))
  BY ZenonT(30) DEF CivilFromDays, z
<1>6. YearIn(doe) = yoe /\ DayIn(doe, yoe) = doy
  <2>1. (doe - doe \div 1460 + doe \div CenturyDays - doe \div EraEnd) \div 365 = yoe
    BY <1>1
  <2>2. doe - (365 * yoe + yoe \div 4 - yoe \div 100) = doy
    BY <1>1
  <2>3. YearIn(doe) = yoe
    BY <2>1, SMT
  <2>4. DayIn(doe, yoe) = doy
    BY <2>2, SMT
  <2> QED  BY <2>3, <2>4
<1>7. CivilFromDays(days) = Civil(era, yoe, doy)
  <2> HIDE DEF Civil, YearIn, DayIn
  <2> QED  BY <1>3, <1>4, <1>5, <1>6, Zenon
<1> QED  BY <1>7, Zenon DEF yoe, MarchMonth, MonthOf, DayOf

ValidDate(year, month, day) == month \in 1..12 /\ day \in 1..DaysOfMonth(year, month)

LEMMA ValidDates ==
  ASSUME NEW year \in Int, NEW month \in 1..12, NEW day
  PROVE  ValidDate(year, month, day)
           <=> day \in 1..MostDays(month) /\ (month = 2 /\ day = 29 => Leap(year))
PROOF
<1>1. CASE month = 2
  BY <1>1 DEF ValidDate, DaysOfMonth, MostDays
<1>2. CASE month # 2
  BY <1>2 DEF ValidDate, DaysOfMonth, MostDays
<1> QED  BY <1>1, <1>2

(* The last year of a leap year's four, and of its century unless that     *)
(* ends the era.                                                           *)
LEMMA LeapYears ==
  ASSUME NEW c \in 0..3, NEW q \in 0..24, NEW r \in 0..3, NEW era \in Int
  PROVE  Leap(100 * c + 4 * q + r + era * 400 + 1) <=> r = 3 /\ (q # 24 \/ c = 3)
PROOF
<1> DEFINE y == 100 * c + 4 * q + r + era * 400 + 1
<1>1. y \in Int /\ (y % 4 = 0 <=> r = 3)
  OBVIOUS
<1>2. y % 100 = 0 <=> r = 3 /\ q = 24
  OBVIOUS
<1>3. y % 400 = 0 <=> r = 3 /\ q = 24 /\ c = 3
  OBVIOUS
<1> HIDE DEF y
<1>4. Leap(y) <=> r = 3 /\ (q # 24 \/ c = 3)
  BY <1>1, <1>2, <1>3 DEF Leap
<1> QED  BY <1>4 DEF y

(* Whatever the day, civil_from_days gives a date that exists.             *)
LEMMA OnlyDates ==
  ASSUME NEW days \in Int
  PROVE  \E y \in Int : \E m \in 1..12 : \E d :
            CivilFromDays(days) = <<y, m, d>> /\ ValidDate(y, m, d)
PROOF
<1> DEFINE z == days + EpochDay
           era == z \div EraDays
           doe == z - era * EraDays
<1>1. era \in Int /\ doe \in Nat /\ doe < EraDays /\ days + EpochDay = EraDays * era + doe
  BY SMT DEF EpochDay, EraDays
<1> HIDE DEF z, era, doe
<1>2. PICK c : \E q, r, doy : Placed(doe, c, q, r, doy)
  BY <1>1, EveryDayPlaced
<1>3. PICK q : \E r, doy : Placed(doe, c, q, r, doy)
  BY <1>2
<1>4. PICK r : \E doy : Placed(doe, c, q, r, doy)
  BY <1>3
<1>5. PICK doy : Placed(doe, c, q, r, doy)
  BY <1>4
<1> DEFINE y == 100 * c + 4 * q + r + era * 400
           m == MonthOf(doy)
           d == DayOf(doy)
           year == IF m <= 2 THEN y + 1 ELSE y
<1>6. CivilFromDays(days) = <<year, m, d>>
  BY <1>1, <1>5, CivilOfPlaced
<1>7. /\ c \in 0..3 /\ q \in 0..24 /\ r \in 0..3 /\ doy \in Nat /\ doy <= 365
      /\ doy = 365 => r = 3 /\ (q # 24 \/ c = 3)
  BY <1>5 DEF Placed
<1>8. m \in 1..12 /\ d \in 1..MostDays(m) /\ (m = 2 /\ d = 29 => doy = 365)
  BY <1>7, EveryDayInAMonth
<1>9. doy = 365 => Leap(y + 1)
  BY <1>1, <1>7, LeapYears
<1>10. y \in Int
  BY <1>1, <1>7
<1> HIDE DEF y, m, d
<1>11. year \in Int /\ (m = 2 => year = y + 1)
  BY <1>8, <1>10
<1> HIDE DEF year
<1>12. ValidDate(year, m, d)
  BY <1>8, <1>9, <1>11, ValidDates
<1> QED  BY <1>6, <1>8, <1>11, <1>12

(* A date that exists is found again from its number of days.              *)
LEMMA ThereAndBack ==
  ASSUME NEW year \in Int, NEW month \in 1..12, NEW day, ValidDate(year, month, day)
  PROVE  CivilFromDays(DaysFromCivil(year, month, day)) = <<year, month, day>>
PROOF
<1> DEFINE y == IF month <= 2 THEN year - 1 ELSE year
           era == y \div 400
           yoe == y - era * 400
           c == yoe \div 100
           q == (yoe - 100 * c) \div 4
           r == yoe - 100 * c - 4 * q
           doy == DayOfYear(month, day)
           doe == CenturyDays * c + 1461 * q + 365 * r + doy
           days == DaysFromCivil(year, month, day)
<1>1. day \in 1..MostDays(month) /\ (month = 2 /\ day = 29 => Leap(year))
  BY ValidDates
<1>2. /\ doy \in Nat /\ doy <= 365 /\ MonthOf(doy) = month /\ DayOf(doy) = day
      /\ doy = 365 => month = 2 /\ day = 29
  BY <1>1, MonthIsFound
<1>3. days = era * EraDays + yoe * 365 + yoe \div 4 - yoe \div 100 + doy - EpochDay
  BY DEF DaysFromCivil
<1>4. y \in Int /\ (month = 2 => year = y + 1) /\ year = (IF month <= 2 THEN y + 1 ELSE y)
  OBVIOUS
<1> HIDE DEF y, doy, days
<1>5. era \in Int /\ yoe \in Nat /\ yoe < 400 /\ y = yoe + era * 400
  BY <1>4
<1> HIDE DEF era, yoe
<1>6. c \in Int /\ 0 <= c /\ c <= 3 /\ 100 * c <= yoe /\ yoe < 100 * c + 100
  BY <1>5
<1>7. yoe \div 100 = c
  OBVIOUS
<1> HIDE DEF c
<1>8. q \in Int /\ 0 <= q /\ q <= 24 /\ 0 <= r /\ r <= 3 /\ r \in Int
      /\ yoe = 100 * c + 4 * q + r
  BY <1>5, <1>6
<1> HIDE DEF q, r
<1>9. c \in 0..3 /\ q \in 0..24 /\ r \in 0..3
  BY <1>6, <1>8
<1>10. yoe \div 4 = 25 * c + q
  BY <1>6, <1>8
<1>11. days + EpochDay = EraDays * era + doe
  BY SMT, <1>2, <1>3, <1>5, <1>6, <1>7, <1>8, <1>10 DEF EpochDay, EraDays, CenturyDays
<1>12. doy = 365 => r = 3 /\ (q # 24 \/ c = 3)
  <2> SUFFICES ASSUME doy = 365 PROVE r = 3 /\ (q # 24 \/ c = 3)
    OBVIOUS
  <2>1. Leap(y + 1)
    BY <1>1, <1>2, <1>4
  <2>2. y = 100 * c + 4 * q + r + era * 400
    BY <1>5, <1>8
  <2>3. Leap(100 * c + 4 * q + r + era * 400 + 1)
    BY <2>1, <2>2
  <2> QED  BY <1>5, <1>9, <2>3, LeapYears
<1>13. Placed(doe, c, q, r, doy)
  BY <1>2, <1>9, <1>12 DEF Placed
<1>14. days \in Int
  BY <1>2, <1>3, <1>5, <1>6, <1>7, <1>10
<1> HIDE DEF doe
<1> DEFINE z == 100 * c + 4 * q + r + era * 400
<1>15. CivilFromDays(days) = <<IF MonthOf(doy) <= 2 THEN z + 1 ELSE z, MonthOf(doy), DayOf(doy)>>
  BY <1>5, <1>11, <1>13, <1>14, CivilOfPlaced
<1>16. z = y
  BY <1>5, <1>8
<1> HIDE DEF z
<1> QED  BY <1>2, <1>4, <1>15, <1>16 DEF days

(* The days from 1970 on to a date are not negative from that year on.     *)
LEMMA SinceWhen ==
  ASSUME NEW year \in Int, NEW month \in 1..12, NEW day \in 1..DaysOfMonth(year, month)
  PROVE  DaysFromCivil(year, month, day) >= 0 <=> year >= 1970
PROOF
<1> DEFINE days == DaysFromCivil(year, month, day)
           offset == MonthOffset(year, month)
<1>1. /\ DaysOfMonth(year, month) \in 28..31 /\ offset \in 0..335
      /\ MonthOffset(year, month + 1) = offset + DaysOfMonth(year, month)
  BY MonthsAre
<1>2. day \in Int /\ day >= 1 /\ day <= DaysOfMonth(year, month)
  BY <1>1
<1>3. days = FirstDay(year) + offset + day - 1
  BY <1>2, DaysAre
<1>4. offset + DaysOfMonth(year, month) <= 365 + LeapDay(year) /\ LeapDay(year) \in {0, 1}
  <2> DEFINE l == LeapDay(year)
  <2>1. month + 1 = 2 \/ month + 1 = 3 \/ month + 1 = 4 \/ month + 1 = 5 \/ month + 1 = 6
        \/ month + 1 = 7 \/ month + 1 = 8 \/ month + 1 = 9 \/ month + 1 = 10
        \/ month + 1 = 11 \/ month + 1 = 12 \/ month + 1 = 13
    OBVIOUS
  <2>2. l \in {0, 1}
    BY MonthsAre
  <2> HIDE DEF l
  <2>3. MonthOffset(year, month + 1) <= 365 + l
    BY <2>1, <2>2 DEF MonthOffset, l
  <2> QED  BY <1>1, <2>2, <2>3 DEF l
<1>5. /\ FirstDay(year) \in Int /\ FirstDay(year + 1) = FirstDay(year) + 365 + LeapDay(year)
      /\ (year >= 1970 => FirstDay(year) >= 0) /\ (year + 1 <= 1970 => FirstDay(year + 1) <= 0)
  BY FirstDays
<1> HIDE DEF days, offset
<1>6. year >= 1970 => days >= 0
  BY <1>1, <1>2, <1>3, <1>5
<1>7. year < 1970 => days < 0
  <2>1. year < 1970 => FirstDay(year + 1) <= 0
    BY <1>5
  <2> QED  BY <1>1, <1>2, <1>3, <1>4, <1>5, <2>1
<1>8. days \in Int
  BY <1>1, <1>2, <1>3, <1>5
<1> QED  BY <1>6, <1>7, <1>8 DEF days

(* parse_iso8601_utc accepts the times that exist, and reads the instant.  *)
LEMMA InstantsAreRight ==
  ASSUME NEW t \in TimeType
  PROVE  Instant(t) = InstantByMonths(t)
PROOF
<1> DEFINE days == DaysFromCivil(t.year, t.month, t.day)
           clock == t.hour * 3600 + t.minute * 60 + t.second
           onTime == t.hour < 24 /\ t.minute < 60 /\ t.second < 60
           exists == t.year >= 1970 /\ ValidDate(t.year, t.month, t.day)
<1>1. /\ t.year \in Int /\ t.month \in Nat /\ t.day \in Nat
      /\ t.hour \in Nat /\ t.minute \in Nat /\ t.second \in Nat
  BY DEF TimeType
<1>2. onTime <=> t.hour \in 0..23 /\ t.minute \in 0..59 /\ t.second \in 0..59
  BY <1>1
<1>3. Instant(t) = IF /\ t.month \in 1..12 /\ onTime
                      /\ CivilFromDays(days) = <<t.year, t.month, t.day>> /\ days >= 0
                     THEN {[day |-> days, second |-> clock]} ELSE {}
  <2> DEFINE valid == /\ t.month \in 1..12 /\ t.hour < 24 /\ t.minute < 60 /\ t.second < 60
                      /\ CivilFromDays(days) = <<t.year, t.month, t.day>>
                      /\ days >= 0
  <2>1. Instant(t) = IF valid THEN {[day |-> days, second |-> clock]} ELSE {}
    BY Zenon DEF Instant
  <2>2. valid <=> /\ t.month \in 1..12 /\ onTime
                  /\ CivilFromDays(days) = <<t.year, t.month, t.day>> /\ days >= 0
    OBVIOUS
  <2> HIDE DEF valid, days, clock, onTime
  <2> QED  BY <2>1, <2>2
<1>4. InstantByMonths(t)
        = IF exists /\ onTime
            THEN {[day |-> DaysBefore(t.year, t.month) + t.day - 1, second |-> clock]} ELSE {}
  BY <1>2 DEF InstantByMonths, ValidDate
<1> HIDE DEF clock, onTime
<1>5. CASE t.month \in 1..12
  <2>1. days \in Int
    <3>1. days = FirstDay(t.year) + MonthOffset(t.year, t.month) + t.day - 1
      BY <1>1, <1>5, DaysAre, SMTT(20)
    <3>2. FirstDay(t.year) \in Int
      BY <1>1, FirstDays
    <3>3. MonthOffset(t.year, t.month) \in 0..335
      BY <1>1, <1>5, MonthsAre
    <3> HIDE DEF days
    <3> QED  BY <1>1, <3>1, <3>2, <3>3
  <2>2. CASE ValidDate(t.year, t.month, t.day)
    <3>1. CivilFromDays(days) = <<t.year, t.month, t.day>>
      BY <1>1, <1>5, <2>2, ThereAndBack
    <3>2. days >= 0 <=> t.year >= 1970
      BY <1>1, <1>5, <2>2, SinceWhen DEF ValidDate
    <3>3. t.year >= 1970 => days = DaysBefore(t.year, t.month) + t.day - 1
      <4>1. days = FirstDay(t.year) + MonthOffset(t.year, t.month) + t.day - 1
        BY <1>1, <1>5, DaysAre, SMTT(20)
      <4>2. t.year >= 1970
            => DaysBefore(t.year, t.month) = FirstDay(t.year) + MonthOffset(t.year, t.month)
        BY <1>1, <1>5, CountedDays
      <4> HIDE DEF days
      <4> QED  BY <4>1, <4>2
    <3> HIDE DEF days
    <3> QED  BY <1>3, <1>4, <1>5, <2>2, <3>1, <3>2, <3>3
  <2>3. CASE ~ValidDate(t.year, t.month, t.day)
    <3>1. CivilFromDays(days) # <<t.year, t.month, t.day>>
      <4>1. PICK y \in Int : \E m \in 1..12 : \E d :
                   CivilFromDays(days) = <<y, m, d>> /\ ValidDate(y, m, d)
        BY <2>1, OnlyDates
      <4>2. PICK m \in 1..12 : \E d :
                   CivilFromDays(days) = <<y, m, d>> /\ ValidDate(y, m, d)
        BY <4>1
      <4>3. PICK d : CivilFromDays(days) = <<y, m, d>> /\ ValidDate(y, m, d)
        BY <4>2
      <4> HIDE DEF days
      <4> QED  BY <2>3, <4>3
    <3> HIDE DEF days
    <3> QED  BY <1>3, <1>4, <2>3, <3>1
  <2> QED  BY <2>2, <2>3
<1>6. CASE t.month \notin 1..12
  BY <1>3, <1>4, <1>6 DEF ValidDate
<1> QED  BY <1>5, <1>6

-----------------------------------------------------------------------------
(* What Loki stores                                                        *)

(* Functions that tell their arguments apart keep the number of them.      *)
LEMMA AsManyValues ==
  ASSUME NEW S, IsFiniteSet(S), NEW T, NEW f \in [S -> T],
         T = {f[k] : k \in S}, \A j, k \in S : f[j] = f[k] => j = k
  PROVE  IsFiniteSet(T) /\ Cardinality(T) = Cardinality(S)
PROOF
<1>1. f \in Bijection(S, T)
  BY DEF Bijection, Injection, IsInjective, Surjection
<1>2. ExistsBijection(S, T)
  BY <1>1 DEF ExistsBijection
<1> QED  BY <1>2, FS_Bijection

(* Every result of every report is stored once.                            *)
LEMMA ResultsStored ==
  ASSUME NEW reports \in Seq([repo : STRING, results : Seq(Results)]), NEW now \in Int,
         NEW x \in Results
  PROVE  Cardinality({e \in Stored(Streams(reports, now)) : e.line = x}) = Counts(reports)[x]
PROOF
<1> DEFINE R == Len(reports)
           N == R + 1
           res(n) == reports[n].results
           sizes == [n \in DOMAIN reports |-> Len(reports[n].results)]
           before == TotalBefore(sizes)
           H(n) == {k \in DOMAIN reports[n].results : reports[n].results[k] = x}
           counts == [n \in DOMAIN reports |-> Cardinality(H(n))]
           total == TotalBefore(counts)
           entry(n, k) == [repo |-> reports[n].repo, run |-> now, at |-> now + before[n] + k - 1,
                           line |-> res(n)[k]]
           E(n) == {entry(n, k) : k \in H(n)}
           Upto(n) == UNION {E(j) : j \in 1..n - 1}
           Good == {n \in 1..N : /\ IsFiniteSet(Upto(n)) /\ Cardinality(Upto(n)) = total[n]
                                 /\ \A e \in Upto(n) : e.at < now + before[n]}
<1>1. R \in Nat /\ N \in Nat /\ DOMAIN reports = 1..R
  OBVIOUS
<1>2. \A n \in 1..R : /\ res(n) \in Seq(Results) /\ Len(res(n)) \in Nat
                      /\ DOMAIN res(n) = 1..Len(res(n))
  <2> TAKE n \in 1..R
  <2> DEFINE S == [repo : STRING, results : Seq(Results)]
  <2>0. reports \in Seq(S) /\ n \in 1..Len(reports)
    OBVIOUS
  <2> HIDE DEF S
  <2>1. reports[n] \in S
    BY <2>0
  <2>2. res(n) \in Seq(Results)
    BY <2>1 DEF S
  <2> HIDE DEF res
  <2> QED  BY <2>2
<1>3. Len(sizes) = R /\ \A n \in 1..R : sizes[n] = Len(res(n)) /\ sizes[n] \in Int
  BY <1>1, <1>2
<1>4. \A n \in 1..R : H(n) = {k \in 1..Len(res(n)) : res(n)[k] = x}
  BY <1>2
<1>5. \A n \in 1..R : IsFiniteSet(H(n)) /\ Cardinality(H(n)) \in Nat
  <2> TAKE n \in 1..R
  <2> DEFINE L == Len(res(n))
  <2>0. 1 \in Int /\ L \in Int
    BY <1>2
  <2> HIDE DEF L
  <2>1. IsFiniteSet(1..L)
    BY <2>0, FS_Interval
  <2>2. H(n) \in SUBSET (1..L)
    BY <1>4 DEF L
  <2> HIDE DEF H, res
  <2>3. IsFiniteSet(H(n))
    BY <2>1, <2>2, FS_Subset
  <2> QED  BY <2>3, FS_CardinalityType
<1>6. Len(counts) = R /\ \A n \in 1..R : counts[n] = Cardinality(H(n)) /\ counts[n] \in Int
  <2> HIDE DEF H, res
  <2> QED  BY <1>1, <1>5
<1>7. Counts(reports)[x] = total[N]
  <2>1. Counts(reports)[x] = Total(counts)
    BY DEF Counts
  <2> HIDE DEF counts
  <2> QED  BY <1>6, <2>1 DEF Total
<1> HIDE DEF R, sizes, counts, H, res
<1>8. /\ before[1] = 0 /\ \A n \in 1..R : before[n + 1] = before[n] + sizes[n]
      /\ \A n \in 1..R + 1 : before[n] \in Int
  BY <1>1, <1>3, TotalSteps
<1>9. total[1] = 0 /\ \A n \in 1..R : total[n + 1] = total[n] + counts[n]
  BY <1>1, <1>6, TotalSteps
<1> HIDE DEF before, total
<1>10. \A n \in 1..R : \A k \in H(n) :
         /\ entry(n, k).at = now + before[n] + k - 1 /\ k \in Int /\ k >= 1 /\ k <= sizes[n]
         /\ before[n] \in Int /\ entry(n, k).line = x
  BY <1>1, <1>2, <1>3, <1>4, <1>8
<1>11. \A n \in 1..R : IsFiniteSet(E(n)) /\ Cardinality(E(n)) = counts[n]
  <2> TAKE n \in 1..R
  <2> DEFINE f == [k \in H(n) |-> entry(n, k)]
  <2> HIDE DEF entry
  <2>1. \A k \in H(n) : f[k] = entry(n, k)
    OBVIOUS
  <2>2. E(n) = {f[k] : k \in H(n)} /\ f \in [H(n) -> E(n)]
    BY <2>1
  <2>3. \A j, k \in H(n) : f[j] = f[k] => j = k
    <3> SUFFICES ASSUME NEW j \in H(n), NEW k \in H(n), f[j] = f[k] PROVE j = k
      OBVIOUS
    <3>1. entry(n, j).at = entry(n, k).at
      BY <2>1
    <3> QED  BY <1>10, <3>1
  <2> HIDE DEF f, E
  <2>4. IsFiniteSet(E(n)) /\ Cardinality(E(n)) = Cardinality(H(n))
    BY <1>5, <2>2, <2>3, AsManyValues
  <2> QED  BY <1>6, <2>4
<1>12. 1 \in Good
  <2>1. Upto(1) = {}
    <3> HIDE DEF E
    <3> QED  OBVIOUS
  <2>2. IsFiniteSet({}) /\ Cardinality({}) = 0
    BY FS_EmptySet
  <2> HIDE DEF Upto
  <2>3. 1 \in 1..N /\ \A e \in Upto(1) : e.at < now + before[1]
    BY <1>1, <2>1
  <2> QED  BY <1>9, <2>1, <2>2, <2>3
<1>13. ASSUME NEW n \in 1..N - 1, n \in Good PROVE n + 1 \in Good
  <2>1. n \in 1..R /\ n + 1 \in 1..N /\ n + 1 - 1 = n
    BY <1>1
  <2>2. Upto(n + 1) = Upto(n) \cup E(n)
    <3> DEFINE few == 1..n - 1
               more == 1..n
    <3>1. \A j : j \in more <=> j \in few \/ j = n
      BY <2>1, <1>1
    <3> HIDE DEF E, few, more
    <3> DEFINE U == UNION {E(j) : j \in more}
               V == UNION {E(j) : j \in few}
    <3>2. \A e : e \in U <=> \E j \in more : e \in E(j)
      OBVIOUS
    <3>3. \A e : e \in V <=> \E j \in few : e \in E(j)
      OBVIOUS
    <3> HIDE DEF U, V
    <3>4. \A e : e \in U <=> e \in V \/ e \in E(n)
      BY <3>1, <3>2, <3>3
    <3>5. U = V \cup E(n)
      BY <3>4
    <3> QED  BY <2>1, <3>5 DEF few, more, U, V
  <2>3. \A e \in E(n) : e.at >= now + before[n] /\ e.at < now + before[n + 1] /\ e.at \in Int
    <3> TAKE e \in E(n)
    <3>1. PICK k \in H(n) : e = entry(n, k)
      OBVIOUS
    <3>2. /\ e.at = now + before[n] + k - 1 /\ k \in Int /\ k >= 1 /\ k <= sizes[n]
          /\ before[n] \in Int
      BY <1>10, <2>1, <3>1
    <3>3. before[n + 1] = before[n] + sizes[n] /\ sizes[n] \in Int
      BY <1>3, <1>8, <2>1
    <3> HIDE DEF entry
    <3> QED  BY <3>2, <3>3
  <2>4. IsFiniteSet(Upto(n)) /\ Cardinality(Upto(n)) = total[n]
        /\ \A e \in Upto(n) : e.at < now + before[n]
    BY <1>13
  <2>5. IsFiniteSet(E(n)) /\ Cardinality(E(n)) = counts[n]
    BY <1>11, <2>1
  <2> HIDE DEF Upto, E
  <2>6. before[n] \in Int /\ before[n + 1] \in Int /\ before[n] <= before[n + 1]
    <3>1. before[n + 1] = before[n] + sizes[n] /\ before[n] \in Int /\ sizes[n] \in Nat
      BY <1>1, <1>2, <1>3, <1>8, <2>1
    <3> QED  BY <3>1
  <2>7. Upto(n) \cap E(n) = {}
    <3> SUFFICES ASSUME NEW e \in Upto(n), e \in E(n) PROVE FALSE
      OBVIOUS
    <3> QED  BY <2>3, <2>4, <2>6
  <2>8. IsFiniteSet(Upto(n) \cup E(n))
        /\ Cardinality(Upto(n) \cup E(n)) = total[n] + counts[n]
    <3> DEFINE A == Upto(n)
               B == E(n)
    <3>1. IsFiniteSet(A) /\ IsFiniteSet(B) /\ A \cap B = {}
      BY <2>4, <2>5, <2>7
    <3> HIDE DEF A, B
    <3>2. IsFiniteSet(A \cup B)
          /\ Cardinality(A \cup B) = Cardinality(A) + Cardinality(B) - Cardinality(A \cap B)
      BY <3>1, FS_Union
    <3>3. Cardinality({}) = 0
      BY FS_EmptySet
    <3>4. Cardinality(A) \in Int /\ Cardinality(B) \in Int
      BY <3>1, FS_CardinalityType
    <3>5. Cardinality(A \cap B) = 0
      BY <3>1, <3>3
    <3>6. Cardinality(A \cup B) = Cardinality(A) + Cardinality(B)
      BY <3>2, <3>4, <3>5
    <3> QED  BY <2>4, <2>5, <3>2, <3>6 DEF A, B
  <2>9. \A e \in Upto(n) : e.at < now + before[n + 1]
    <3>1. \A e \in Upto(n) : e.at \in Int
      <4> TAKE e \in Upto(n)
      <4>1. PICK j \in 1..n - 1 : e \in E(j)
        BY Zenon DEF Upto
      <4>2. PICK k \in H(j) : e = entry(j, k)
        BY <4>1 DEF E
      <4>3. j \in 1..R
        BY <1>1, <2>1
      <4>4. e.at = now + before[j] + k - 1 /\ k \in Int /\ before[j] \in Int
        BY <1>10, <4>2, <4>3
      <4> QED  BY <4>4
    <3> QED  BY <2>4, <2>6, <3>1
  <2> QED  BY <1>9, <2>1, <2>2, <2>3, <2>8, <2>9
<1>14. \A n \in 1..N : n \in Good
  <2> HIDE DEF Good, N
  <2> QED  BY <1>1, <1>12, <1>13, Upwards
<1>15. Cardinality(Upto(N)) = total[N]
  <2>1. N \in 1..N
    BY <1>1
  <2> QED  BY <1>14, <2>1
<1>16. {e \in Stored(Streams(reports, now)) : e.line = x} = Upto(N)
  <2> DEFINE streams == Streams(reports, now)
             stored(n, k) == [repo |-> streams[n].repo, run |-> streams[n].run,
                              at |-> streams[n].values[k].at, line |-> streams[n].values[k].line]
  <2>1. Stored(streams) = UNION {{stored(n, k) : k \in DOMAIN streams[n].values} : n \in DOMAIN streams}
    BY DEF Stored
  <2>2. DOMAIN streams = {n \in 1..R : res(n) # <<>>}
    BY <1>1 DEF Streams, Reported, res
  <2>3. \A n \in DOMAIN streams :
          /\ DOMAIN streams[n].values = DOMAIN res(n)
          /\ \A k \in DOMAIN res(n) : stored(n, k) = entry(n, k)
    BY DEF Streams, StreamOf, res, before, sizes
  <2> HIDE DEF streams, stored
  <2>4. \A n \in 1..R : \A k \in DOMAIN res(n) : entry(n, k).line = res(n)[k]
    OBVIOUS
  <2> HIDE DEF entry
  <2>5. ASSUME NEW e \in Stored(streams), e.line = x PROVE e \in Upto(N)
    <3>1. PICK n \in DOMAIN streams : e \in {stored(n, k) : k \in DOMAIN streams[n].values}
      BY <2>1
    <3>2. PICK k \in DOMAIN streams[n].values : e = stored(n, k)
      BY <3>1
    <3>3. n \in 1..R /\ k \in DOMAIN res(n) /\ e = entry(n, k)
      BY <2>2, <2>3, <3>2
    <3>4. k \in H(n)
      BY <2>4, <2>5, <3>3 DEF H, res
    <3>5. n \in 1..N - 1 /\ e \in E(n)
      BY <1>1, <3>3, <3>4
    <3> HIDE DEF E
    <3> QED  BY <3>5
  <2>6. ASSUME NEW e \in Upto(N) PROVE e \in Stored(streams) /\ e.line = x
    <3>1. PICK n \in 1..N - 1 : e \in E(n)
      OBVIOUS
    <3>2. PICK k \in H(n) : e = entry(n, k)
      BY <3>1
    <3>3. n \in 1..R /\ k \in DOMAIN res(n) /\ res(n)[k] = x
      BY <1>1, <3>2 DEF H, res
    <3>4. res(n) # <<>>
      BY <1>2, <3>3
    <3>5. n \in DOMAIN streams /\ k \in DOMAIN streams[n].values /\ e = stored(n, k)
      BY <2>2, <2>3, <3>2, <3>3, <3>4
    <3>6. e \in Stored(streams)
      <4> DEFINE G(j) == {stored(j, i) : i \in DOMAIN streams[j].values}
      <4>1. Stored(streams) = UNION {G(j) : j \in DOMAIN streams}
        BY <2>1
      <4>2. e \in G(n)
        BY <3>5
      <4> HIDE DEF G
      <4> QED  BY <3>5, <4>1, <4>2
    <3>7. e.line = x
      BY <2>4, <3>2, <3>3
    <3> QED  BY <3>6, <3>7
  <2> QED  BY <2>5, <2>6 DEF streams
<1> QED  BY <1>7, <1>15, <1>16

-----------------------------------------------------------------------------
(* The conversions                                                         *)

(* What is compared or pinned is one of the inputs, and the outcome is     *)
(* what the program makes of it.                                           *)
ConvertedInv ==
  /\ given.about = "pattern" =>
       /\ given.pattern \in Text
       /\ \A matched \in outcome :
            matched = {b \in SomeBranches : PatternMatches(given.pattern, b)}
  /\ given.about = "filters" =>
       /\ given.filters \in Seq(Text)
       /\ \A admitted \in outcome :
            admitted = {b \in SomeBranches : FiltersAdmit(given.filters, b)}
  /\ given.about = "document" =>
       \A parsed \in outcome : parsed \subseteq {WorkflowOf(given.doc)}
  /\ given.about = "facts" =>
       /\ WellFormedFacts(given.facts)
       /\ \A verdicts \in outcome :
            verdicts = [check \in WorkflowChecks |-> WorkflowVerdict(check, given.facts)]
  /\ given.about = "text" =>
       given.text \in Seq(Tokens) /\ \A found \in outcome : found = TextHasSecret(given.text)
  /\ given.about = "protection" =>
       /\ WellFormed(given)
       /\ \A verdict \in outcome :
            verdict = SupersededBy(given.legacy, given.rulesets, given.branch)
  /\ given.about = "files" =>
       /\ WellFormedFiles(given)
       /\ \A prepared \in outcome : \A texts \in prepared :
            CanPin(given.files) /\ texts \in Prepared(given.files, given.resolve)
  /\ given.about = "time" =>
       given.time \in TimeType /\ \A instant \in outcome : instant = Instant(given.time)
  /\ given.about = "reports" =>
       /\ given.reports \in Seq([repo : STRING, results : Seq(Results)])
       /\ \A streams \in outcome : streams = Streams(given.reports, Now)

THEOREM ConvertedInvariant == Spec => []ConvertedInv
<1>1. Init => ConvertedInv
  BY InputsAssumption DEF Init, ConvertedInv
<1>2. ConvertedInv /\ [Next]_vars => ConvertedInv'
  <2> SUFFICES ASSUME ConvertedInv, [Next]_vars PROVE ConvertedInv'
    OBVIOUS
  <2>1. CASE MatchPattern
    BY <2>1 DEF MatchPattern, Yields, ConvertedInv
  <2>2. CASE ApplyFilters
    BY <2>2 DEF ApplyFilters, Yields, ConvertedInv
  <2>3. CASE ParseWorkflow
    BY <2>3 DEF ParseWorkflow, Yields, ConvertedInv
  <2>4. CASE JudgeWorkflows
    BY <2>4 DEF JudgeWorkflows, Yields, ConvertedInv
  <2>5. CASE CompareProtection
    BY <2>5 DEF CompareProtection, Yields, ConvertedInv
  <2>6. CASE PinActions
    BY <2>6 DEF PinActions, Yields, ConvertedInv
  <2>7. CASE FindSecrets
    BY <2>7 DEF FindSecrets, Yields, ConvertedInv
  <2>8. CASE ReadTime
    BY <2>8 DEF ReadTime, Yields, ConvertedInv
  <2>9. CASE BuildPayload
    BY <2>9 DEF BuildPayload, Yields, ConvertedInv
  <2>10. CASE UNCHANGED vars
    BY <2>10 DEF vars, ConvertedInv
  <2> QED  BY <2>1, <2>2, <2>3, <2>4, <2>5, <2>6, <2>7, <2>8, <2>9, <2>10 DEF Next
<1> QED  BY <1>1, <1>2, PTL DEF Spec

(* Patterns and lists of filters admit the branches that GitHub documents  *)
(* them to admit, for all patterns, filters and branches                   *)
(* (github_pattern_to_regex, branch_matches_filters).                      *)
THEOREM FiltersStayDocumented == Spec => []FiltersAsDocumented
<1>1. ConvertedInv => FiltersAsDocumented
  <2> SUFFICES ASSUME ConvertedInv PROVE FiltersAsDocumented
    OBVIOUS
  <2>0. SomeBranches \subseteq Text
    BY InputsAssumption
  <2>1. ASSUME given.about = "pattern", NEW matched \in outcome
        PROVE  matched = {b \in SomeBranches : DocumentedMatch(given.pattern, b)}
    <3>1. given.pattern \in Text /\ matched = {b \in SomeBranches : PatternMatches(given.pattern, b)}
      BY <2>1 DEF ConvertedInv
    <3>2. ASSUME NEW b \in SomeBranches
          PROVE  PatternMatches(given.pattern, b) <=> DocumentedMatch(given.pattern, b)
      BY <2>0, <3>1, TextLength, PatternsAreExact
    <3> QED  BY <3>1, <3>2
  <2>2. ASSUME given.about = "filters", NEW admitted \in outcome
        PROVE  admitted = {b \in SomeBranches : DocumentedAdmission(given.filters, b)}
    <3>1. /\ given.filters \in Seq(Text)
          /\ admitted = {b \in SomeBranches : FiltersAdmit(given.filters, b)}
      BY <2>2 DEF ConvertedInv
    <3>2. ASSUME NEW b \in SomeBranches
          PROVE  FiltersAdmit(given.filters, b) <=> DocumentedAdmission(given.filters, b)
      BY <2>0, <3>1, FiltersExact
    <3> QED  BY <3>1, <3>2
  <2> QED  BY <2>1, <2>2 DEF FiltersAsDocumented, Result
<1> QED  BY <1>1, ConvertedInvariant, PTL

(* No use and no trigger of a workflow file is hidden from the rules, for  *)
(* all files that parse: the rules about triggers pass exactly if they     *)
(* hold of the files as they are documented to be read                     *)
(* (src/workflow/model.rs, evaluate).                                      *)
THEOREM NothingStaysHidden == Spec => []NothingHidden
<1>1. ConvertedInv => NothingHidden
  <2> SUFFICES ASSUME ConvertedInv PROVE NothingHidden
    OBVIOUS
  <2>1. ASSUME given.about = "document", NEW parsed \in outcome, NEW w \in parsed
        PROVE  UsesOf(w) = UsesIn(given.doc)
    <3>1. w = WorkflowOf(given.doc)
      BY <2>1 DEF ConvertedInv
    <3> QED  BY <3>1, UsesKept
  <2>2. ASSUME given.about = "facts", NEW verdicts \in outcome
        PROVE  LET docs == {f.doc : f \in given.facts.files} IN
               /\ verdicts["runs_on_default_branch"] = "pass"
                    <=> \E d \in docs : PushTriggers(d, given.facts.branch)
               /\ verdicts["no_target_checkout"] = "pass"
                    <=> ~\E d \in docs : Mentions(d, "pull_request_target") /\ ChecksOut(d)
               /\ verdicts["no_workflow_run"] = "pass"
                    <=> ~\E d \in docs : Mentions(d, "workflow_run")
    <3> DEFINE files == given.facts.files
               branch == given.facts.branch
    <3>1. /\ WellFormedFacts(given.facts)
          /\ verdicts = [check \in WorkflowChecks |-> WorkflowVerdict(check, given.facts)]
      BY <2>2 DEF ConvertedInv
    <3>2. /\ verdicts["runs_on_default_branch"] =
               Judged(\E f \in files : RunsOnPushTo(f.workflow, branch))
          /\ verdicts["no_target_checkout"] =
               Judged(\A f \in files : Triggers(f.workflow, "pull_request_target")
                        => \A s \in Steps(f.workflow) : ~UsesAction(s, Checkout))
          /\ verdicts["no_workflow_run"] =
               Judged(\A f \in files : ~Triggers(f.workflow, "workflow_run"))
      BY <3>1 DEF WorkflowChecks, WorkflowVerdict
    <3>3. ASSUME NEW holds PROVE Judged(holds) = "pass" <=> holds
      BY DEF Judged
    <3>4. ASSUME NEW f \in files
          PROVE  /\ RunsOnPushTo(f.workflow, branch) <=> PushTriggers(f.doc, branch)
                 /\ Triggers(f.workflow, "pull_request_target") <=> Mentions(f.doc, "pull_request_target")
                 /\ Triggers(f.workflow, "workflow_run") <=> Mentions(f.doc, "workflow_run")
                 /\ (\E s \in Steps(f.workflow) : UsesAction(s, Checkout)) <=> ChecksOut(f.doc)
      <4>1. /\ ParsesAsWorkflow(f.doc) /\ f.workflow = WorkflowOf(f.doc) /\ branch \in Text
            /\ \A event \in DOMAIN f.workflow.triggers : \A key \in {"branches", "branches-ignore"} :
                 f.workflow.triggers[event][key] \in Seq(Text)
            /\ \A ref \in UsesOf(f.workflow) : ref.path \in Seq(STRING)
        BY <3>1 DEF WellFormedFacts
      <4>2. RunsOnPushTo(f.workflow, branch) <=> PushTriggers(f.doc, branch)
        BY <4>1, PushKept
      <4>3. "pull_request_target" \in Events /\ "workflow_run" \in Events
        BY DEF Events
      <4>4. \A event \in Events : Triggers(f.workflow, event) <=> Mentions(f.doc, event)
        BY <4>1, MentionsKept
      <4>5. (\E s \in Steps(f.workflow) : UsesAction(s, Checkout)) <=> ChecksOut(f.doc)
        BY <4>1, CheckoutsKept
      <4> QED  BY <4>2, <4>3, <4>4, <4>5
    <3>5. verdicts["runs_on_default_branch"] = "pass"
            <=> \E f \in files : PushTriggers(f.doc, branch)
      BY <3>2, <3>3, <3>4
    <3>6. verdicts["no_target_checkout"] = "pass"
            <=> ~\E f \in files : Mentions(f.doc, "pull_request_target") /\ ChecksOut(f.doc)
      BY <3>2, <3>3, <3>4
    <3>7. verdicts["no_workflow_run"] = "pass" <=> ~\E f \in files : Mentions(f.doc, "workflow_run")
      BY <3>2, <3>3, <3>4
    <3> QED  BY <3>5, <3>6, <3>7
  <2> QED  BY <2>1, <2>2 DEF NothingHidden, Result
<1> QED  BY <1>1, ConvertedInvariant, PTL

(* What runs for pull requests is given no secret by a plain use or by     *)
(* inheritance if the rule passes, and is given one, or holds what is      *)
(* misread for one, if it fails: for all workflow files and all texts in   *)
(* them that are cut into expressions as GitHub does; where the raw text   *)
(* is missing, the rule does not pass (evaluate_pr_secrets).               *)
THEOREM SecretsStayGuarded == Spec => []SecretsNeverPass
<1>1. ConvertedInv => SecretsNeverPass
  <2> SUFFICES ASSUME ConvertedInv PROVE SecretsNeverPass
    OBVIOUS
  <2>1. ASSUME given.about = "facts", NEW verdicts \in outcome,
               \A f \in given.facts.files : \A t \in f.texts : Regular(t)
        PROVE  /\ verdicts["no_secrets"] = "pass" =>
                    ~\E f \in given.facts.files : GivenSecret(f, UsesPlainly)
               /\ verdicts["no_secrets"] = "fail" =>
                    \E f \in given.facts.files : GivenSecret(f, UsesOrMisread)
    <3> DEFINE files == given.facts.files
               offends(f) == InheritsSecrets(f.doc) \/ \E t \in f.texts : TextHasSecret(t)
    <3>1. /\ WellFormedFacts(given.facts)
          /\ verdicts = [check \in WorkflowChecks |-> WorkflowVerdict(check, given.facts)]
      BY <2>1 DEF ConvertedInv
    <3>2. verdicts["no_secrets"] = SecretsVerdict(given.facts)
      BY <3>1 DEF WorkflowChecks, WorkflowVerdict
    <3>3. ASSUME NEW f \in files
          PROVE  /\ GivenSecret(f, UsesPlainly) => ForPullRequests(f.workflow) /\ offends(f)
                 /\ ForPullRequests(f.workflow) /\ offends(f) => GivenSecret(f, UsesOrMisread)
      <4>1. /\ ParsesAsWorkflow(f.doc) /\ f.workflow = WorkflowOf(f.doc)
            /\ f.texts \subseteq Seq(Tokens)
        BY <3>1 DEF WellFormedFacts
      <4>2. "pull_request" \in Events /\ "pull_request_target" \in Events
        BY DEF Events
      <4>3. \A event \in Events : Triggers(f.workflow, event) <=> Mentions(f.doc, event)
        BY <4>1, MentionsKept
      <4>4. ASSUME NEW t \in f.texts
            PROVE  /\ UsesPlainly(t) => TextHasSecret(t)
                   /\ TextHasSecret(t) => UsesOrMisread(t)
        <5>1. t \in Seq(Tokens) /\ Regular(t)
          BY <2>1, <4>1
        <5> QED  BY <5>1, SecretsAreFound DEF UsesOrMisread
      <4> QED  BY <4>2, <4>3, <4>4, Zenon DEF GivenSecret, ForPullRequests, InheritsSecrets
    <3> HIDE DEF offends
    <3>4. /\ SecretsVerdict(given.facts) = "pass" =>
               \A f \in files : ForPullRequests(f.workflow) => ~offends(f)
          /\ SecretsVerdict(given.facts) = "fail" =>
               \E f \in files : ForPullRequests(f.workflow) /\ offends(f)
      BY DEF SecretsVerdict, offends
    <3> QED  BY <3>2, <3>3, <3>4
  <2>2. ASSUME given.about = "text", NEW found \in outcome, Regular(given.text)
        PROVE  /\ UsesPlainly(given.text) => found
               /\ found => UsesOrMisread(given.text)
    <3>1. given.text \in Seq(Tokens) /\ found = TextHasSecret(given.text)
      BY <2>2 DEF ConvertedInv
    <3> QED  BY <2>2, <3>1, SecretsAreFound DEF UsesOrMisread
  <2> QED  BY <2>1, <2>2 DEF SecretsNeverPass, Result
<1> QED  BY <1>1, ConvertedInvariant, PTL

(* Deleting a legacy protection that the rulesets are found to supersede   *)
(* lifts nothing of what it forbade, for all rulesets and protections.     *)
THEOREM SupersededStaysForbidden == Spec => []LegacyCovered
<1>1. ConvertedInv => LegacyCovered
  <2> SUFFICES ASSUME ConvertedInv, given.about = "protection", NEW superseded \in outcome,
                      superseded, given.legacy.restrictions # {{}},
                      NEW a \in Attempts(given.contexts),
                      RulesetsAllow({r \in given.rulesets : GitHubApplies(r, given.branch)}, a)
               PROVE  LegacyAllows(given.legacy, a)
    BY DEF LegacyCovered, Result
  <2>1. /\ WellFormed(given)
        /\ SupersededBy(given.legacy, given.rulesets, given.branch)
    BY DEF ConvertedInv
  <2>2. IsAttempt(a)
    BY AttemptsAre
  <2> QED  BY <2>1, <2>2, SupersededIsCovered
<1> QED  BY <1>1, ConvertedInvariant, PTL

(* Pinning changes nothing but versions, each to the commit that it stood  *)
(* for, and leaves no use that may change, for all files and references.   *)
THEOREM RewritesAreExact == Spec => []RewriteIsExact
<1>1. ConvertedInv => RewriteIsExact
  <2> SUFFICES ASSUME ConvertedInv, given.about = "files", NEW prepared \in outcome,
                      NEW texts \in prepared, NEW f \in DOMAIN texts, Plain(f.found)
               PROVE  /\ Len(texts[f]) = Len(f.found)
                      /\ \A n \in DOMAIN texts[f] :
                           \/ texts[f][n] = f.found[n]
                           \/ PinnedLine(given, f, f.found[n], texts[f][n])
                      /\ f.found = f.lines => \A ref \in UsesOfFile(texts[f]) : Immutable(ref)
    BY DEF RewriteIsExact, Result
  <2>1. /\ WellFormedFiles(given) /\ CanPin(given.files)
        /\ texts \in Prepared(given.files, given.resolve)
    BY DEF ConvertedInv
  <2>2. Len(texts[f]) = Len(f.found)
    BY <2>1, LinesReplaced
  <2>3. ASSUME NEW n \in DOMAIN texts[f]
        PROVE  texts[f][n] = f.found[n] \/ PinnedLine(given, f, f.found[n], texts[f][n])
    BY <2>1, LinesReplaced
  <2>4. ASSUME f.found = f.lines, NEW ref \in UsesOfFile(texts[f])
        PROVE  Immutable(ref)
    BY <2>1, <2>4, NothingLeftMutable
  <2> QED  BY <2>2, <2>3, <2>4
<1> QED  BY <1>1, ConvertedInvariant, PTL

(* The instant read from any time, whatever its numbers, is the one that   *)
(* the calendar gives it, and none if the calendar does not have it.       *)
THEOREM ExpiryStaysExact == Spec => []ExpiryExact
<1>1. ConvertedInv => ExpiryExact
  <2> SUFFICES ASSUME ConvertedInv, given.about = "time", NEW instant \in outcome
               PROVE  instant = InstantByMonths(given.time)
    BY DEF ExpiryExact, Result
  <2>1. given.time \in TimeType /\ instant = Instant(given.time)
    BY DEF ConvertedInv
  <2> QED  BY <2>1, InstantsAreRight
<1> QED  BY <1>1, ConvertedInvariant, PTL

(* No two results of any reports are sent with the same time, so that Loki *)
(* keeps as many as were counted.                                          *)
THEOREM ResultsStayStored == Spec => []EveryResultStored
<1>1. ConvertedInv => EveryResultStored
  <2> SUFFICES ASSUME ConvertedInv, given.about = "reports", NEW streams \in outcome,
                      NEW x \in Results
               PROVE  Cardinality({e \in Stored(streams) : e.line = x}) = Counts(given.reports)[x]
    BY DEF EveryResultStored, Result
  <2>1. /\ given.reports \in Seq([repo : STRING, results : Seq(Results)])
        /\ streams = Streams(given.reports, Now)
    BY DEF ConvertedInv
  <2>2. Now \in Int
    BY DEF Now
  <2> QED  BY <2>1, <2>2, ResultsStored
<1> QED  BY <1>1, ConvertedInvariant, PTL
=============================================================================
