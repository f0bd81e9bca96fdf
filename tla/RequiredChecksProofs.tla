------------------------ MODULE RequiredChecksProofs -------------------------
(* What the program finds of a workflow, and what a required gate holds    *)
(* back: for every workflow of the generator, every number of events, and  *)
(* every set of workflows that a repository may have.                      *)
EXTENDS RequiredChecks, TextProofs

-----------------------------------------------------------------------------
(* What the rules find of a generated workflow                             *)

(* The recursive function that filters a list is defined for all of it.    *)
LEMMA KeptFromIs ==
  ASSUME NEW S, NEW T, NEW all \in Seq(T)
  PROVE  \A k \in 1..Len(all) + 1 : KeptFrom(S, all)[k] = KeptAt(S, all, k, KeptFrom(S, all))
PROOF
<1> DEFINE N == Len(all) + 1
           V == Seq({Str(x) : x \in T})
           Body(f) == [k \in 1..N |-> KeptAt(S, all, k, f)]
           F == [f \in [1..N -> V] |-> Body(f)]
<1>0. Len(all) \in Nat /\ \A k \in 1..Len(all) : all[k] \in T
  OBVIOUS
<1>1. ASSUME NEW f \in [1..N -> V], NEW k \in 1..N
      PROVE  KeptAt(S, all, k, f) \in V
  <2>1. CASE k > Len(all)
    BY <2>1 DEF KeptAt
  <2>2. CASE k <= Len(all)
    <3>1. ~(k > Len(all)) /\ all[k] \in T /\ k + 1 \in 1..N
      BY <1>0, <2>2
    <3>2. f[k + 1] \in V /\ Str(all[k]) \in {Str(x) : x \in T}
      BY <3>1
    <3>3. <<Str(all[k])>> \o f[k + 1] \in V
      BY <3>2, Prepended
    <3>4. KeptAt(S, all, k, f) \in {<<Str(all[k])>> \o f[k + 1], f[k + 1]}
      BY <3>1, Zenon DEF KeptAt
    <3> QED  BY <3>2, <3>3, <3>4
  <2> QED  BY <1>0, <2>1, <2>2
<1>2. F \in [[1..N -> V] -> [1..N -> V]]
  BY <1>1
<1>3. ASSUME NEW g \in [1..N -> V], NEW h \in [1..N -> V], NEW k \in 1..N,
             \A m \in k + 1..N : g[m] = h[m]
      PROVE  F[g][k] = F[h][k]
  <2>1. k > Len(all) \/ g[k + 1] = h[k + 1]
    BY <1>0, <1>3
  <2>2. KeptAt(S, all, k, g) = KeptAt(S, all, k, h)
    BY <2>1, Zenon DEF KeptAt
  <2> QED  BY <2>2
<1> HIDE DEF F
<1>4. \E f \in [1..N -> V] : f = F[f]
  <2>1. N \in Nat
    BY <1>0
  <2>2. V # {}
    <3>1. <<>> \in V
      OBVIOUS
    <3> QED  BY <3>1
  <2>3. UsesLater(F, N, V)
    BY <1>2, <1>3 DEF UsesLater
  <2> HIDE DEF N, V
  <2> QED  BY <2>1, <2>2, <2>3, Recursion
<1>5. \E f : f = Body(f)
  BY <1>4 DEF F
<1>6. KeptFrom(S, all) = CHOOSE f : f = Body(f)
  BY DEF KeptFrom
<1> HIDE DEF Body
<1>7. KeptFrom(S, all) = Body(KeptFrom(S, all))
  BY <1>5, <1>6
<1> QED  BY <1>7 DEF Body

(* A list in a file is read as a sequence of just those texts.             *)
LEMMA TextsOfList ==
  ASSUME NEW S, NEW T, NEW all \in Seq(T)
  PROVE  /\ TextsOf(List(S, all)) \in Seq(T)
         /\ \A x : (\E n \in DOMAIN TextsOf(List(S, all)) : TextsOf(List(S, all))[n] = x)
                     <=> x \in S /\ \E m \in DOMAIN all : all[m] = x
PROOF
<1> DEFINE N == Len(all)
           U == {Str(x) : x \in T}
           from == KeptFrom(S, all)
           Holds(k) == /\ from[k] \in Seq(U)
                       /\ \A x : (\E n \in DOMAIN from[k] : from[k][n] = Str(x))
                                   <=> x \in S /\ \E m \in k..N : all[m] = x
           Good == {k \in 1..N + 1 : Holds(k)}
<1>0. N \in Nat /\ DOMAIN all = 1..N /\ \A k \in 1..N : all[k] \in T
  OBVIOUS
<1>1. \A k \in 1..N + 1 : from[k] = KeptAt(S, all, k, from)
  BY KeptFromIs
<1>2. \A x, y : Str(x) = Str(y) => x = y
  BY DEF Str
<1> HIDE DEF from
<1>3. ASSUME NEW k \in 1..N + 1, \A m \in k + 1..N + 1 : m \in Good
      PROVE  Holds(k)
  <2>1. CASE k = N + 1
    <3>1. from[k] = <<>>
      <4>1. k > Len(all)
        BY <1>0, <2>1
      <4> QED  BY <1>1, <4>1 DEF KeptAt
    <3>2. k..N = {}
      BY <1>0, <2>1
    <3> QED  BY <3>1, <3>2
  <2>2. CASE k \in 1..N
    <3>1. Holds(k + 1)
      <4>1. k + 1 \in k + 1..N + 1
        BY <1>0, <2>2
      <4>2. k + 1 \in Good
        <5> HIDE DEF Good
        <5> QED  BY <1>3, <4>1
      <4> QED  BY <4>2
    <3>2. \A x : (\E m \in k..N : all[m] = x) <=> x = all[k] \/ \E m \in k + 1..N : all[m] = x
      <4>1. k \in k..N /\ k + 1..N \subseteq k..N /\ \A m \in k..N : m = k \/ m \in k + 1..N
        BY <1>0, <2>2
      <4> QED  BY <4>1
    <3>3. ~(k > Len(all)) /\ all[k] \in T
      BY <1>0, <2>2
    <3>4. CASE all[k] \notin S
      <4>1. from[k] = from[k + 1]
        BY <1>0, <1>1, <2>2, <3>3, <3>4 DEF KeptAt
      <4> QED  BY <3>1, <3>2, <3>4, <4>1
    <3>5. CASE all[k] \in S
      <4> DEFINE r == from[k + 1]
                 c == Str(all[k])
      <4>1. from[k] = <<c>> \o r
        BY <1>0, <1>1, <2>2, <3>3, <3>5, Zenon DEF KeptAt
      <4>2. r \in Seq(U) /\ c \in U
        BY <3>1, <3>3
      <4>3. \A x : c = Str(x) <=> x = all[k]
        BY <1>2
      <4>4. \A x : (\E n \in DOMAIN r : r[n] = Str(x)) <=> x \in S /\ \E m \in k + 1..N : all[m] = x
        BY <3>1
      <4> HIDE DEF r, c, U
      <4>5. /\ <<c>> \o r \in Seq(U) /\ (<<c>> \o r)[1] = c
            /\ DOMAIN (<<c>> \o r) = 1..Len(r) + 1 /\ DOMAIN r = 1..Len(r) /\ Len(r) \in Nat
            /\ \A n \in 1..Len(r) : (<<c>> \o r)[n + 1] = r[n]
        BY <4>2
      <4> DEFINE s == <<c>> \o r
      <4> HIDE DEF s
      <4>6. \A v : (\E n \in DOMAIN s : s[n] = v) <=> c = v \/ \E n \in DOMAIN r : r[n] = v
        <5>1. 1 \in DOMAIN s /\ (\A n \in DOMAIN r : n + 1 \in DOMAIN s)
              /\ \A n \in DOMAIN s : n = 1 \/ (n - 1 \in DOMAIN r /\ n - 1 + 1 = n)
          BY <4>5 DEF s
        <5>2. s[1] = c /\ \A n \in DOMAIN r : s[n + 1] = r[n]
          BY <4>5 DEF s
        <5> QED  BY <5>1, <5>2
      <4>7. \A x : (\E n \in DOMAIN s : s[n] = Str(x)) <=> x \in S /\ \E m \in k..N : all[m] = x
        BY <3>2, <3>5, <4>3, <4>4, <4>6, Zenon
      <4> QED  BY <4>1, <4>5, <4>7, Zenon DEF s
    <3> QED  BY <3>4, <3>5
  <2> QED  BY <1>0, <2>1, <2>2
<1>4. 1 \in Good
  <2>1. \A k \in 1..N + 1 : (\A m \in k + 1..N + 1 : m \in Good) => k \in Good
    <3> HIDE DEF Holds
    <3>1. \A k \in 1..N + 1 : Holds(k) => k \in Good
      OBVIOUS
    <3> HIDE DEF Good
    <3> QED  BY <1>3, <3>1
  <2> DEFINE M == N + 1
  <2>2. M \in Nat /\ 1 \in 1..M
    BY <1>0
  <2> HIDE DEF Good
  <2>3. \A k \in 1..M : (\A m \in k + 1..M : m \in Good) => k \in Good
    BY <2>1
  <2> HIDE DEF M
  <2> QED  BY <2>2, <2>3, Downwards
<1>5. Holds(1)
  BY <1>4
<1> DEFINE kept == from[1]
           texts == [n \in DOMAIN kept |-> kept[n].text]
<1>6. TextsOf(List(S, all)) = texts
  BY DEF TextsOf, List, Seqn, from
<1>7. kept \in Seq(U) /\ \A n \in DOMAIN kept : kept[n] = Str(kept[n].text) /\ kept[n].text \in T
  BY <1>5 DEF Str
<1>8. texts \in Seq(T)
  <2> HIDE DEF kept, U
  <2>1. DOMAIN kept = 1..Len(kept) /\ Len(kept) \in Nat
    BY <1>7
  <2>2. texts \in [1..Len(kept) -> T]
    BY <1>7, <2>1
  <2> QED  BY <2>1, <2>2
<1>9. \A x : (\E n \in DOMAIN texts : texts[n] = x) <=> x \in S /\ \E m \in 1..N : all[m] = x
  <2>1. \A x : (\E n \in DOMAIN kept : kept[n] = Str(x)) <=> x \in S /\ \E m \in 1..N : all[m] = x
    BY <1>5
  <2> HIDE DEF kept
  <2>2. \A n \in DOMAIN kept : \A x : kept[n] = Str(x) <=> kept[n].text = x
    BY <1>2, <1>7
  <2> QED  BY <2>1, <2>2
<1> HIDE DEF texts
<1> QED  BY <1>0, <1>6, <1>8, <1>9

(* Of filters without exceptions it is enough that one matches.            *)
LEMMA NoExceptions ==
  ASSUME NEW T, NEW filters \in Seq(T), \A n \in DOMAIN filters : ~IsException(filters[n]), NEW b
  PROVE  FiltersAdmit(filters, b)
           <=> filters = <<>> \/ \E n \in DOMAIN filters : PatternMatches(filters[n], b)
PROOF
<1> DEFINE N == Len(filters)
           deciding == {n \in DOMAIN filters : PatternMatches(filters[n], b)}
           places == {N - n : n \in deciding}
<1>1. N \in Nat /\ DOMAIN filters = 1..N
  OBVIOUS
<1>2. \A n \in DOMAIN filters : PatternOf(filters[n]) = filters[n]
  BY DEF PatternOf
<1>3. FiltersAdmit(filters, b)
        <=> filters = <<>> \/ \E n \in deciding : \A m \in deciding : m <= n
  BY <1>2 DEF FiltersAdmit
<1>4. ASSUME deciding # {} PROVE \E n \in deciding : \A m \in deciding : m <= n
  <2>1. places # {} /\ places \subseteq Nat
    BY <1>1, <1>4
  <2> HIDE DEF places
  <2>2. PICK x \in places : \A y \in places : x <= y
    BY <2>1, Least
  <2>3. PICK n \in deciding : x = N - n
    BY <2>2 DEF places
  <2>4. ASSUME NEW m \in deciding PROVE m <= n
    <3>1. N - n <= N - m
      BY <2>2, <2>3 DEF places
    <3> QED  BY <1>1, <3>1
  <2> QED  BY <2>3, <2>4
<1> QED  BY <1>3, <1>4

(* A character that stands for itself in a pattern.                        *)
Itself(c) == c \notin {"\\", "-", "[", "?", "+", "*"}
Once(q)   == q \notin {"?", "+"}

(* A pattern's first character that is itself, with nothing to repeat it:  *)
(* a branch of one character.                                              *)
LEMMA OneCharacter ==
  ASSUME NEW p, Len(p) \in Nat, Len(p) >= 1, Itself(p[1]),
         Once(Quantifier(p, 2)), NEW b, Len(b) = 1
  PROVE  1 \in DocumentedFrom(p, b)[1] <=> p[1] = b[1] /\ 2 \in DocumentedFrom(p, b)[2]
PROOF
<1> DEFINE from == DocumentedFrom(p, b)
           c == p[1]
           N == Len(p)
           item == Item({c}, FALSE)
           q == Quantifier(p, 2)
<1>2. CharAt(p, 1) = [char |-> c, dash |-> FALSE, next |-> 1 + 1]
  BY Zenon DEF CharAt, Itself
<1>3. Single(p, 1) = {[item |-> item, next |-> 2]}
  <2>1. Single(p, 1) = {[item |-> Item({CharAt(p, 1).char}, FALSE), next |-> CharAt(p, 1).next]}
    BY Zenon DEF Single, Itself
  <2>2. CharAt(p, 1).char = c /\ CharAt(p, 1).next = 2
    BY <1>2
  <2> QED  BY <2>1, <2>2, Zenon
<1>4. N \in Nat /\ N >= 1
  OBVIOUS
<1>5. After(p, 2) = 2
  BY Zenon DEF After, Once
<1>6. \A n : Repeats(q, n) <=> n = 1
  BY Zenon DEF Repeats, Once
<1> HIDE DEF q, item, c, N
<1>7. ~(1 > N) /\ 1 <= N
  BY <1>4
<1>8. DocumentedAt(p, b, 1, from) =
           {j \in 1..Len(b) + 1 : \E e \in j..Len(b) + 1 : \E one \in Single(p, 1) :
              /\ Repeats(Quantifier(p, one.next), e - j)
              /\ \A n \in j..e - 1 : Takes(one.item, b[n])
              /\ e \in from[After(p, one.next)]}
  BY <1>7, Zenon DEF DocumentedAt, Itself, c, N
<1>9. from[1] = DocumentedAt(p, b, 1, from)
  <2>1. 1 \in 1..N + 3
    BY <1>4
  <2>2. Len(b) \in Nat
    OBVIOUS
  <2> QED  BY <2>1, <2>2, <1>4, DocumentedFromIs, Zenon DEF N
<1> HIDE DEF from
<1> DEFINE Ok(j, e, one) == /\ Repeats(Quantifier(p, one.next), e - j)
                            /\ \A n \in j..e - 1 : Takes(one.item, b[n])
                            /\ e \in from[After(p, one.next)]
           only == [item |-> item, next |-> 2]
<1>10. 1 \in from[1] <=> \E e \in 1..Len(b) + 1 : Ok(1, e, only)
  <2>1. 1 \in 1..Len(b) + 1
    OBVIOUS
  <2>2. 1 \in from[1] <=> \E e \in 1..Len(b) + 1 : \E one \in Single(p, 1) : Ok(1, e, one)
    <3>1. from[1] = {j \in 1..Len(b) + 1 : \E e \in j..Len(b) + 1 : \E one \in Single(p, 1) :
                       /\ Repeats(Quantifier(p, one.next), e - j)
                       /\ \A n \in j..e - 1 : Takes(one.item, b[n])
                       /\ e \in from[After(p, one.next)]}
      BY <1>8, <1>9, Zenon
    <3> DEFINE P(j) == \E e \in j..Len(b) + 1 : \E one \in Single(p, 1) : Ok(j, e, one)
    <3>2. from[1] = {j \in 1..Len(b) + 1 : P(j)}
      BY <3>1
    <3>3. P(1) <=> \E e \in 1..Len(b) + 1 : \E one \in Single(p, 1) : Ok(1, e, one)
      <4> HIDE DEF Ok
      <4> QED  BY Zenon
    <3> HIDE DEF P
    <3> QED  BY <2>1, <3>2, <3>3
  <2> HIDE DEF Ok, only
  <2>3. Single(p, 1) = {only}
    BY <1>3 DEF only
  <2> QED  BY <2>2, <2>3
<1>11. 1 \in from[1] <=> \E e \in 1..Len(b) + 1 :
                             /\ Repeats(q, e - 1)
                             /\ \A n \in 1..e - 1 : Takes(item, b[n])
                             /\ e \in from[2]
  <2>1. only.item = item /\ only.next = 2
    OBVIOUS
  <2> HIDE DEF only
  <2>2. \A e : Ok(1, e, only) <=> ((Repeats(q, e - 1) /\ \A n \in 1..e - 1 : Takes(item, b[n]))
                                   /\ e \in from[2])
    BY <1>5, <2>1, Zenon DEF q
  <2> HIDE DEF Ok
  <2> QED  BY <1>10, <2>2
<1> HIDE DEF Ok, only
<1>12. Takes(item, b[1]) <=> c = b[1]
  <2>1. item.set = {c} /\ item.outside = FALSE
    BY DEF item, Item
  <2>2. \A B \in BOOLEAN : (B # FALSE) <=> B
    OBVIOUS
  <2> HIDE DEF item
  <2>3. Takes(item, b[1]) <=> ((b[1] \in {c}) # FALSE)
    BY <2>1, Zenon DEF Takes
  <2>4. (b[1] \in {c}) \in BOOLEAN /\ (b[1] \in {c} <=> c = b[1])
    OBVIOUS
  <2> QED  BY <2>2, <2>3, <2>4, Zenon
<1>13. 1 \in from[1] <=> (\A n \in 1..1 : Takes(item, b[n])) /\ 2 \in from[2]
  <2>1. Len(b) + 1 = 2 /\ \A e \in 1..2 : e - 1 = 1 <=> e = 2
    OBVIOUS
  <2> QED  BY <1>6, <1>11, <2>1
<1> QED  BY <1>12, <1>13 DEF c, from

(* The default branch is matched by just the patterns that say so.         *)
LEMMA BranchMatches ==
  ASSUME NEW p \in Range(Patterns)
  PROVE  PatternMatches(p, Branch) <=> p \in MatchesBranch
PROOF
<1> DEFINE from == DocumentedFrom(p, Branch)
<1>1. p \in {<<"m">>, <<"d">>, <<"*", "*">>, <<"r", "/", "*">>}
  BY DEF Range, Patterns
<1>2. Len(p) \in Nat /\ Len(p) >= 1 /\ Len(Branch) \in Nat /\ Len(Branch) = 1 /\ Branch[1] = "m"
  BY <1>1 DEF Branch
<1>3. PatternMatches(p, Branch) <=> 1 \in from[1]
  BY <1>2, PatternsAreExact DEF DocumentedMatch
<1>4. \A k \in 1..Len(p) + 3 : from[k] = DocumentedAt(p, Branch, k, from)
  BY <1>2, DocumentedFromIs
<1>5. Itself(p[1]) /\ Once(Quantifier(p, 2)) => (1 \in from[1] <=> p[1] = "m" /\ 2 \in from[2])
  BY <1>2, OneCharacter
<1> HIDE DEF from
<1>6. \A k \in 1..Len(p) + 3 : k > Len(p) => from[k] = {2}
  <2> SUFFICES ASSUME NEW k \in 1..Len(p) + 3, k > Len(p) PROVE from[k] = {2}
    OBVIOUS
  <2>1. from[k] = DocumentedAt(p, Branch, k, from)
    BY <1>4
  <2>2. DocumentedAt(p, Branch, k, from) = {Len(Branch) + 1}
    <3>1. ~(k <= Len(p))
      BY <1>2
    <3> QED  BY <3>1, Zenon DEF DocumentedAt
  <2> QED  BY <1>2, <2>1, <2>2
<1>7. CASE p \in {<<"m">>, <<"d">>}
  <2>1. Len(p) = 1 /\ p[1] \in {"m", "d"}
    BY <1>7
  <2>2. Quantifier(p, 2) = ""
    <3>1. ~(2 <= Len(p))
      BY <2>1
    <3> QED  BY <3>1, Zenon DEF Quantifier
  <2>3. from[2] = {2}
    BY <1>6, <2>1
  <2>4. Itself(p[1]) /\ Once(Quantifier(p, 2))
    BY <2>1, <2>2, Zenon DEF Itself, Once
  <2>5. 1 \in from[1] <=> p[1] = "m"
    BY <1>5, <2>3, <2>4
  <2>6. p \in MatchesBranch <=> p[1] = "m"
    BY <1>7, <2>1 DEF MatchesBranch
  <2> QED  BY <1>3, <2>5, <2>6
<1>8. CASE p = <<"*", "*">>
  <2>1. Len(p) = 2 /\ p[1] = "*" /\ p[2] = "*"
    BY <1>8
  <2>2. Quantifier(p, 1 + 1) = "*"
    <3>1. 1 + 1 <= Len(p) /\ p[1 + 1] = "*"
      BY <2>1
    <3> QED  BY <3>1, Zenon DEF Quantifier
  <2>3. from[1 + 2] = {2}
    BY <1>6, <2>1
  <2>4. ~(1 > Len(p)) /\ 1 <= Len(p) /\ 1 \in 1..Len(p) + 3
    BY <2>1
  <2>5. DocumentedAt(p, Branch, 1, from) =
          {j \in 1..Len(Branch) + 1 : \E e \in j..Len(Branch) + 1 :
             /\ Quantifier(p, 1 + 1) = "*" \/ \A n \in j..e - 1 : Branch[n] # "/"
             /\ e \in from[IF Quantifier(p, 1 + 1) = "*" THEN 1 + 2 ELSE 1 + 1]}
    BY <2>1, <2>4, Zenon DEF DocumentedAt
  <2>6. DocumentedAt(p, Branch, 1, from) =
          {j \in 1..Len(Branch) + 1 : \E e \in j..Len(Branch) + 1 : e \in from[1 + 2]}
    BY <2>2, <2>5, Zenon
  <2>7. 1 \in from[1]
    <3>1. from[1] = DocumentedAt(p, Branch, 1, from)
      BY <1>4, <2>4
    <3>2. 1 \in 1..Len(Branch) + 1 /\ 2 \in 1..Len(Branch) + 1 /\ 2 \in from[1 + 2]
      BY <1>2, <2>3
    <3> HIDE DEF from
    <3> QED  BY <2>6, <3>1, <3>2, Zenon
  <2>8. p \in MatchesBranch
    BY <1>8 DEF MatchesBranch
  <2> QED  BY <1>3, <2>7, <2>8
<1>9. CASE p = <<"r", "/", "*">>
  <2>1. Len(p) = 3 /\ p[1] = "r" /\ p[2] = "/"
    BY <1>9
  <2>2. Quantifier(p, 2) = "/"
    <3>1. 2 <= Len(p)
      BY <2>1
    <3> QED  BY <2>1, <3>1, Zenon DEF Quantifier
  <2>3. Itself(p[1]) /\ Once(Quantifier(p, 2))
    BY <2>1, <2>2, Zenon DEF Itself, Once
  <2>4. 1 \notin from[1]
    BY <1>5, <2>1, <2>3
  <2>5. p \notin MatchesBranch
    <3>1. Len(<<"m">>) = 1 /\ Len(<<"*", "*">>) = 2
      OBVIOUS
    <3>2. ASSUME p \in {<<"m">>, <<"*", "*">>} PROVE FALSE
      <4>1. Len(p) = 3
        BY <1>9
      <4> QED  BY <3>1, <3>2, <4>1
    <3> QED  BY <3>2, Zenon DEF MatchesBranch
  <2> QED  BY <1>3, <2>4, <2>5
<1> QED  BY <1>1, <1>7, <1>8, <1>9

(* What a generated pull_request trigger is made of.                       *)
LEMMA PullsAre ==
  ASSUME NEW trigger \in Pulls
  PROVE  /\ trigger.form \in {"absent", "string", "list", "target", "filtered"}
         /\ trigger.key \in {"none", "branches", "branches-ignore"}
         /\ trigger.patterns \subseteq Range(Patterns) /\ trigger.types \subseteq Range(Types)
         /\ trigger.paths \in BOOLEAN /\ trigger.ignore \in BOOLEAN
         /\ trigger.key # "none" => trigger.patterns # {}
PROOF
<1> DEFINE filters == [key : {"none"}, patterns : {{}}]
                      \cup [key : {"branches", "branches-ignore"},
                            patterns : (SUBSET Range(Patterns)) \ {{}}]
           Made(filter, p, i, ts) ==
             [form |-> "filtered", key |-> filter.key, patterns |-> filter.patterns, paths |-> p,
              ignore |-> i, types |-> ts]
<1>1. CASE trigger \in {[AnyPull EXCEPT !.form = f] : f \in {"absent", "string", "list", "target"}}
  <2>1. PICK f \in {"absent", "string", "list", "target"} : trigger = [AnyPull EXCEPT !.form = f]
    BY <1>1
  <2> QED  BY <2>1 DEF AnyPull
<1>2. CASE \E filter \in filters : \E p \in BOOLEAN, i \in BOOLEAN, ts \in SUBSET Range(Types) :
             trigger = Made(filter, p, i, ts)
  <2> HIDE DEF Made, filters
  <2>1. PICK filter \in filters : \E p \in BOOLEAN, i \in BOOLEAN, ts \in SUBSET Range(Types) :
                                    trigger = Made(filter, p, i, ts)
    BY <1>2
  <2>2. PICK p \in BOOLEAN, i \in BOOLEAN, ts \in SUBSET Range(Types) :
          trigger = Made(filter, p, i, ts)
    BY <2>1
  <2>3. /\ filter.key \in {"none", "branches", "branches-ignore"}
        /\ filter.patterns \subseteq Range(Patterns)
        /\ filter.key # "none" => filter.patterns # {}
    BY DEF filters
  <2> QED  BY <2>2, <2>3 DEF Made
<1>3. trigger \in {[AnyPull EXCEPT !.form = f] : f \in {"absent", "string", "list", "target"}}
      \/ \E filter \in filters : \E p \in BOOLEAN, i \in BOOLEAN, ts \in SUBSET Range(Types) :
           trigger = Made(filter, p, i, ts)
  BY DEF Pulls
<1> QED  BY <1>1, <1>2, <1>3

(* The filter that is read from what a generated pull_request trigger has. *)
PullFilter(trigger) ==
  FilterOf(IF DOMAIN PullMap(trigger) = {} THEN Null ELSE Mapn(PullMap(trigger)))

(* ... with its keys read as lists, missing ones as empty lists.           *)
LEMMA FilterIs ==
  ASSUME NEW trigger, NEW i \in FilterKeys
  PROVE  PullFilter(trigger)[i] = TextsOf(Key(PullMap(trigger), i))
PROOF
<1>1. TextsOf(Null) = <<>> /\ Null.kind # "map"
  BY DEF TextsOf, Null
<1>2. CASE DOMAIN PullMap(trigger) = {}
  <2>1. Key(PullMap(trigger), i) = Null
    BY <1>2 DEF Key
  <2>2. PullFilter(trigger) = FilterOf(Null)
    BY <1>2 DEF PullFilter
  <2>3. FilterOf(Null)[i] = <<>>
    BY <1>1 DEF FilterOf
  <2> QED  BY <1>1, <2>1, <2>2, <2>3
<1>3. CASE DOMAIN PullMap(trigger) # {}
  <2>1. PullFilter(trigger) = FilterOf(Mapn(PullMap(trigger)))
    BY <1>3 DEF PullFilter
  <2>2. Mapn(PullMap(trigger)).kind = "map" /\ Mapn(PullMap(trigger)).map = PullMap(trigger)
    BY DEF Mapn
  <2>3. FilterOf(Mapn(PullMap(trigger)))[i] = TextsOf(Key(PullMap(trigger), i))
    BY <2>2 DEF FilterOf
  <2> QED  BY <2>1, <2>3
<1> QED  BY <1>2, <1>3

(* The lists of the filter are those the trigger is made of.               *)
LEMMA FilterTexts ==
  ASSUME NEW trigger \in Pulls
  PROVE  /\ PullFilter(trigger)["paths"] = <<>> <=> ~trigger.paths
         /\ PullFilter(trigger)["paths-ignore"] = <<>> <=> ~trigger.ignore
         /\ PullFilter(trigger)["types"] \in Seq(Range(Types))
         /\ \A x : (\E n \in DOMAIN PullFilter(trigger)["types"] : PullFilter(trigger)["types"][n] = x)
                     <=> x \in trigger.types
         /\ \A i \in {"branches", "branches-ignore"} :
              /\ i # trigger.key => PullFilter(trigger)[i] = <<>>
              /\ i = trigger.key =>
                   /\ PullFilter(trigger)[i] \in Seq(Range(Patterns))
                   /\ \A x : (\E n \in DOMAIN PullFilter(trigger)[i] : PullFilter(trigger)[i][n] = x)
                               <=> x \in trigger.patterns
PROOF
<1> DEFINE map == PullMap(trigger)
           f == PullFilter(trigger)
<1>1. \A i \in FilterKeys : f[i] = TextsOf(Key(map, i))
  BY FilterIs
<1>2. TextsOf(Null) = <<>>
  BY DEF TextsOf, Null
<1>3. \A text : TextsOf(One(text)) # <<>>
  <2> TAKE text
  <2>1. TextsOf(One(text)) = [n \in DOMAIN <<Str(text)>> |-> <<Str(text)>>[n].text]
    BY DEF TextsOf, One, Seqn
  <2>2. DOMAIN <<Str(text)>> # DOMAIN <<>>
    OBVIOUS
  <2> QED  BY <2>1, <2>2
<1>4. /\ \A i \in FilterKeys : i \in DOMAIN map <=>
             CASE i = "paths" -> trigger.paths [] i = "paths-ignore" -> trigger.ignore
               [] i = "types" -> trigger.types # {} [] OTHER -> i = trigger.key
      /\ \A i \in DOMAIN map : map[i] =
             CASE i = "paths" -> One(<<"s">>) [] i = "paths-ignore" -> One(<<"t">>)
               [] i = "types" -> List(trigger.types, Types) [] OTHER -> List(trigger.patterns, Patterns)
  BY Zenon DEF PullMap
<1> HIDE DEF map, f
<1>5. f["paths"] = <<>> <=> ~trigger.paths
  <2>1. "paths" \in FilterKeys
    BY DEF FilterKeys
  <2>2. "paths" \in DOMAIN map <=> trigger.paths
    BY <1>4, <2>1, Zenon
  <2>3. "paths" \in DOMAIN map => map["paths"] = One(<<"s">>)
    BY <1>4, Zenon
  <2> QED  BY <1>1, <1>2, <1>3, <2>1, <2>2, <2>3 DEF Key
<1>6. f["paths-ignore"] = <<>> <=> ~trigger.ignore
  <2>1. "paths-ignore" \in FilterKeys
    BY DEF FilterKeys
  <2>2. "paths-ignore" \in DOMAIN map <=> trigger.ignore
    BY <1>4, <2>1, Zenon
  <2>3. "paths-ignore" \in DOMAIN map => map["paths-ignore"] = One(<<"t">>)
    BY <1>4, Zenon
  <2> QED  BY <1>1, <1>2, <1>3, <2>1, <2>2, <2>3 DEF Key
<1>7. /\ f["types"] \in Seq(Range(Types))
      /\ \A x : (\E n \in DOMAIN f["types"] : f["types"][n] = x) <=> x \in trigger.types
  <2>1. "types" \in FilterKeys
    BY DEF FilterKeys
  <2>2. "types" \in DOMAIN map <=> trigger.types # {}
    BY <1>4, <2>1, Zenon
  <2>3. "types" \in DOMAIN map => map["types"] = List(trigger.types, Types)
    BY <1>4, Zenon
  <2>4. trigger.types \subseteq Range(Types)
    BY PullsAre
  <2>5. CASE trigger.types = {}
    <3>1. f["types"] = <<>>
      BY <1>1, <1>2, <2>1, <2>2, <2>5 DEF Key
    <3> QED  BY <2>5, <3>1
  <2>6. CASE trigger.types # {}
    <3>1. f["types"] = TextsOf(List(trigger.types, Types))
      BY <1>1, <2>1, <2>2, <2>3, <2>6 DEF Key
    <3>2. Types \in Seq(Range(Types)) /\ \A x \in Range(Types) : \E m \in DOMAIN Types : Types[m] = x
      BY DEF Types, Range
    <3> QED  BY <2>4, <3>1, <3>2, TextsOfList
  <2> QED  BY <2>5, <2>6
<1>8. ASSUME NEW i \in {"branches", "branches-ignore"}
      PROVE  /\ i # trigger.key => f[i] = <<>>
             /\ i = trigger.key =>
                  /\ f[i] \in Seq(Range(Patterns))
                  /\ \A x : (\E n \in DOMAIN f[i] : f[i][n] = x) <=> x \in trigger.patterns
  <2>1. i \in FilterKeys /\ i \notin {"paths", "paths-ignore", "types"}
    BY DEF FilterKeys
  <2>2. i \in DOMAIN map <=> i = trigger.key
    BY <1>4, <2>1, Zenon
  <2>3. i \in DOMAIN map => map[i] = List(trigger.patterns, Patterns)
    BY <1>4, <2>1, Zenon
  <2>4. CASE i # trigger.key
    BY <1>1, <1>2, <2>1, <2>2, <2>4 DEF Key
  <2>5. CASE i = trigger.key
    <3>1. f[i] = TextsOf(List(trigger.patterns, Patterns))
      BY <1>1, <2>1, <2>2, <2>3, <2>5 DEF Key
    <3>2. /\ Patterns \in Seq(Range(Patterns))
          /\ \A x \in Range(Patterns) : \E m \in DOMAIN Patterns : Patterns[m] = x
      BY DEF Patterns, Range
    <3>3. trigger.patterns \subseteq Range(Patterns)
      BY PullsAre
    <3>4. /\ TextsOf(List(trigger.patterns, Patterns)) \in Seq(Range(Patterns))
          /\ \A x : (\E n \in DOMAIN TextsOf(List(trigger.patterns, Patterns)) :
                      TextsOf(List(trigger.patterns, Patterns))[n] = x)
                      <=> x \in trigger.patterns /\ \E m \in DOMAIN Patterns : Patterns[m] = x
      BY <3>2, TextsOfList
    <3> QED  BY <2>5, <3>1, <3>2, <3>3, <3>4, Zenon
  <2> QED  BY <2>4, <2>5
<1> QED  BY <1>5, <1>6, <1>7, <1>8 DEF f

(* The workflow has a pull_request trigger in three of the five forms.     *)
LEMMA TriggersAre ==
  ASSUME NEW s, s.pull \in Pulls
  PROVE  LET workflow == WorkflowOf(DocOf(s))
         IN  /\ Triggers(workflow, "pull_request")
                  <=> s.pull.form \in {"string", "list", "filtered"}
             /\ s.pull.form \in {"string", "list"}
                  => Filter(workflow, "pull_request") = FilterOf(Null)
             /\ s.pull.form = "filtered"
                  => Filter(workflow, "pull_request") = PullFilter(s.pull)
PROOF
<1> DEFINE triggers == TriggersOf(OnOf(s.pull))
           filter == IF DOMAIN PullMap(s.pull) = {} THEN Null ELSE Mapn(PullMap(s.pull))
           main == Mapn([branches |-> One(<<"m">>)])
<1>1. WorkflowOf(DocOf(s)).triggers = triggers
  BY DEF WorkflowOf, DocOf
<1>2. "pull_request" \in Events
  BY DEF Events
<1>3. s.pull.form \in {"absent", "string", "list", "target", "filtered"}
  BY PullsAre
<1>4. PullFilter(s.pull) = FilterOf(filter)
  BY DEF PullFilter
<1> HIDE DEF filter, main
<1>5. CASE s.pull.form = "absent"
  <2>1. OnOf(s.pull) = Mapn([push |-> main])
    BY <1>5, Zenon DEF OnOf, main
  <2>2. triggers = [e \in Events \cap {"push"} |-> FilterOf([push |-> main][e])]
    BY <2>1 DEF TriggersOf, Mapn
  <2>3. "pull_request" \notin DOMAIN triggers
    BY <2>2
  <2> QED  BY <1>1, <1>5, <2>3 DEF Triggers
<1>6. CASE s.pull.form = "string"
  <2>1. OnOf(s.pull) = Str("pull_request")
    BY <1>6, Zenon DEF OnOf
  <2>2. triggers = [e \in Events \cap {"pull_request"} |-> FilterOf(Null)]
    BY <2>1 DEF TriggersOf, Str
  <2>3. "pull_request" \in DOMAIN triggers /\ triggers["pull_request"] = FilterOf(Null)
    BY <1>2, <2>2
  <2> QED  BY <1>1, <1>6, <2>3 DEF Triggers, Filter
<1>7. CASE s.pull.form = "list"
  <2>1. OnOf(s.pull) = Seqn(<<Str("push"), Str("pull_request")>>)
    BY <1>7, Zenon DEF OnOf
  <2>2. triggers = [e \in {e \in Events : \E n \in DOMAIN <<Str("push"), Str("pull_request")>> :
                                            <<Str("push"), Str("pull_request")>>[n].text = e}
                      |-> FilterOf(Null)]
    BY <2>1 DEF TriggersOf, Seqn
  <2>3. 2 \in DOMAIN <<Str("push"), Str("pull_request")>>
        /\ <<Str("push"), Str("pull_request")>>[2].text = "pull_request"
    BY DEF Str
  <2>4. "pull_request" \in DOMAIN triggers /\ triggers["pull_request"] = FilterOf(Null)
    BY <1>2, <2>2, <2>3
  <2> QED  BY <1>1, <1>7, <2>4 DEF Triggers, Filter
<1>8. CASE s.pull.form = "target"
  <2>1. OnOf(s.pull) = Mapn([pull_request_target |-> main])
    BY <1>8, Zenon DEF OnOf, main
  <2>2. triggers = [e \in Events \cap {"pull_request_target"} |->
                      FilterOf([pull_request_target |-> main][e])]
    BY <2>1 DEF TriggersOf, Mapn
  <2>3. "pull_request" \notin DOMAIN triggers
    BY <2>2
  <2> QED  BY <1>1, <1>8, <2>3 DEF Triggers
<1>9. CASE s.pull.form = "filtered"
  <2>1. OnOf(s.pull) = Mapn([push |-> main, pull_request |-> filter])
    BY <1>9, Zenon DEF OnOf, main, filter
  <2>2. triggers = [e \in Events \cap {"push", "pull_request"} |->
                      FilterOf([push |-> main, pull_request |-> filter][e])]
    BY <2>1 DEF TriggersOf, Mapn
  <2>3. "pull_request" \in DOMAIN triggers /\ triggers["pull_request"] = FilterOf(filter)
    BY <1>2, <2>2
  <2> QED  BY <1>1, <1>4, <1>9, <2>3 DEF Triggers, Filter
<1> QED  BY <1>3, <1>5, <1>6, <1>7, <1>8, <1>9

(* A filter without exceptions admits the branch exactly if there is none, *)
(* or one that matches.                                                    *)
LEMMA AdmitsBranch ==
  ASSUME NEW filters \in Seq(Range(Patterns)), NEW S \in SUBSET Range(Patterns), S # {},
         \A x : (\E n \in DOMAIN filters : filters[n] = x) <=> x \in S
  PROVE  /\ FiltersAdmit(filters, Branch) <=> S \cap MatchesBranch # {}
         /\ (\A n \in DOMAIN filters : ~PatternMatches(filters[n], Branch))
              <=> S \cap MatchesBranch = {}
PROOF
<1>1. \A n \in DOMAIN filters : filters[n] \in Range(Patterns)
  OBVIOUS
<1>2. \A p \in Range(Patterns) : ~IsException(p)
  BY DEF Range, Patterns, IsException
<1>3. (\E n \in DOMAIN filters : PatternMatches(filters[n], Branch)) <=> S \cap MatchesBranch # {}
  <2>1. \A n \in DOMAIN filters :
          PatternMatches(filters[n], Branch) <=> filters[n] \in S \cap MatchesBranch
    BY <1>1, BranchMatches
  <2> QED  BY <2>1
<1>4. filters # <<>>
  OBVIOUS
<1>5. FiltersAdmit(filters, Branch)
        <=> filters = <<>> \/ \E n \in DOMAIN filters : PatternMatches(filters[n], Branch)
  BY <1>1, <1>2, NoExceptions
<1> QED  BY <1>3, <1>4, <1>5

(* The program finds that a generated workflow runs for every pull request *)
(* exactly if it does.                                                     *)
LEMMA RunsAreKnown ==
  ASSUME NEW s, s.pull \in Pulls
  PROVE  RunsOnEveryPullRequestInto(WorkflowOf(DocOf(s)), Branch) <=> RunsForEveryPull(s)
PROOF
<1> DEFINE trigger == s.pull
           w == WorkflowOf(DocOf(s))
           filter == Filter(w, "pull_request")
           f == PullFilter(trigger)
           matches == trigger.patterns \cap MatchesBranch # {}
<1>1. /\ Triggers(w, "pull_request") <=> trigger.form \in {"string", "list", "filtered"}
      /\ trigger.form \in {"string", "list"} => filter = FilterOf(Null)
      /\ trigger.form = "filtered" => filter = f
  BY TriggersAre
<1>2. /\ trigger.form \in {"absent", "string", "list", "target", "filtered"}
      /\ trigger.key \in {"none", "branches", "branches-ignore"}
      /\ trigger.patterns \subseteq Range(Patterns)
      /\ trigger.key # "none" => trigger.patterns # {}
  BY PullsAre
<1>3. RunsOnEveryPullRequestInto(w, Branch) <=>
        /\ Triggers(w, "pull_request")
        /\ filter["paths"] = <<>> /\ filter["paths-ignore"] = <<>>
        /\ Admits(filter, Branch)
        /\ \/ filter["types"] = <<>>
           \/ \A type \in DefaultTypes :
                \E n \in DOMAIN filter["types"] : filter["types"][n] = type
  BY DEF RunsOnEveryPullRequestInto
<1> HIDE DEF w
<1>4. CASE trigger.form \in {"absent", "target"}
  <2>1. ~RunsForEveryPull(s)
    BY <1>4 DEF RunsForEveryPull
  <2> QED  BY <1>1, <1>3, <1>4, <2>1 DEF w
<1>5. CASE trigger.form \in {"string", "list"}
  <2>1. RunsForEveryPull(s)
    BY <1>5 DEF RunsForEveryPull
  <2>2. \A i \in FilterKeys : filter[i] = <<>>
    BY <1>1, <1>5 DEF FilterOf, Null
  <2>3. {"paths", "paths-ignore", "branches", "branches-ignore", "types"} \subseteq FilterKeys
    BY DEF FilterKeys
  <2>4. Admits(filter, Branch)
    BY <2>2, <2>3 DEF Admits, FiltersAdmit
  <2> QED  BY <1>1, <1>3, <1>5, <2>1, <2>2, <2>3, <2>4 DEF w
<1>6. CASE trigger.form = "filtered"
  <2>1. filter = f
    BY <1>1, <1>6
  <2>2. /\ f["paths"] = <<>> <=> ~trigger.paths
        /\ f["paths-ignore"] = <<>> <=> ~trigger.ignore
        /\ f["types"] \in Seq(Range(Types))
        /\ \A x : (\E n \in DOMAIN f["types"] : f["types"][n] = x) <=> x \in trigger.types
    BY FilterTexts
  <2>3. \A i \in {"branches", "branches-ignore"} :
              /\ i # trigger.key => f[i] = <<>>
              /\ i = trigger.key =>
                   /\ f[i] \in Seq(Range(Patterns))
                   /\ \A x : (\E n \in DOMAIN f[i] : f[i][n] = x) <=> x \in trigger.patterns
    BY FilterTexts
  <2> HIDE DEF f, filter
  <2>4. (\/ f["types"] = <<>>
         \/ \A type \in DefaultTypes : \E n \in DOMAIN f["types"] : f["types"][n] = type)
          <=> (trigger.types = {} \/ {"opened", "synchronize", "reopened"} \subseteq trigger.types)
    <3>1. f["types"] = <<>> <=> trigger.types = {}
      <4> DEFINE texts == f["types"]
      <4>1. texts \in Seq(Range(Types))
            /\ \A x : (\E n \in DOMAIN texts : texts[n] = x) <=> x \in trigger.types
        BY <2>2
      <4> HIDE DEF texts
      <4>2. texts = <<>> <=> DOMAIN texts = {}
        BY <4>1
      <4>3. DOMAIN texts = {} <=> trigger.types = {}
        BY <4>1
      <4> QED  BY <4>2, <4>3 DEF texts
    <3> QED  BY <2>2, <3>1 DEF DefaultTypes
  <2>5. Admits(f, Branch) <=> FiltersAdmit(f["branches"], Branch)
                              /\ \A n \in DOMAIN f["branches-ignore"] :
                                   ~PatternMatches(f["branches-ignore"][n], Branch)
    BY DEF Admits
  <2>6. CASE trigger.key = "none"
    <3>1. Admits(f, Branch)
      BY <2>3, <2>5, <2>6 DEF FiltersAdmit
    <3>2. RunsForEveryPull(s) <=>
            (~trigger.paths /\ ~trigger.ignore
             /\ (trigger.types = {} \/ {"opened", "synchronize", "reopened"} \subseteq trigger.types))
      BY <1>6, <2>6, Zenon DEF RunsForEveryPull
    <3> QED  BY <1>1, <1>3, <1>6, <2>1, <2>2, <2>4, <3>1, <3>2 DEF w
  <2>7. CASE trigger.key = "branches"
    <3>1. Admits(f, Branch) <=> matches
      <4>1. f["branches-ignore"] = <<>>
        BY <2>3, <2>7
      <4>2. FiltersAdmit(f["branches"], Branch) <=> matches
        BY <1>2, <2>3, <2>7, AdmitsBranch
      <4> QED  BY <2>5, <4>1, <4>2
    <3>2. RunsForEveryPull(s) <=>
            (~trigger.paths /\ ~trigger.ignore /\ matches
             /\ (trigger.types = {} \/ {"opened", "synchronize", "reopened"} \subseteq trigger.types))
      BY <1>6, <2>7, Zenon DEF RunsForEveryPull
    <3> QED  BY <1>1, <1>3, <1>6, <2>1, <2>2, <2>4, <3>1, <3>2 DEF w
  <2>8. CASE trigger.key = "branches-ignore"
    <3>1. Admits(f, Branch) <=> ~matches
      <4>1. FiltersAdmit(f["branches"], Branch)
        BY <2>3, <2>8 DEF FiltersAdmit
      <4>2. (\A n \in DOMAIN f["branches-ignore"] :
               ~PatternMatches(f["branches-ignore"][n], Branch)) <=> ~matches
        <5> DEFINE list == f["branches-ignore"]
                   S    == trigger.patterns
        <5>1. S # {} /\ S \in SUBSET Range(Patterns)
          BY <1>2, <2>8
        <5>2. /\ list \in Seq(Range(Patterns))
              /\ \A x : (\E n \in DOMAIN list : list[n] = x) <=> x \in S
          BY <2>3, <2>8
        <5> HIDE DEF list, S
        <5>3. (\A n \in DOMAIN list : ~PatternMatches(list[n], Branch)) <=> S \cap MatchesBranch = {}
          BY <5>1, <5>2, AdmitsBranch
        <5> QED  BY <5>3 DEF list, S
      <4> QED  BY <2>5, <4>1, <4>2
    <3>2. RunsForEveryPull(s) <=>
            (~trigger.paths /\ ~trigger.ignore /\ ~matches
             /\ (trigger.types = {} \/ {"opened", "synchronize", "reopened"} \subseteq trigger.types))
      BY <1>6, <2>8, Zenon DEF RunsForEveryPull
    <3> QED  BY <1>1, <1>3, <1>6, <2>1, <2>2, <2>4, <3>1, <3>2 DEF w
  <2> QED  BY <1>2, <2>6, <2>7, <2>8
<1> QED  BY <1>2, <1>4, <1>5, <1>6

(* The keys of the gate job, as they are read.                             *)
LEMMA GateKeys ==
  ASSUME NEW s \in CiShape
  PROVE  LET map == GateMap(s)
         IN  /\ Key(map, "uses") = Null
             /\ Key(map, "steps") = Seqn(<<Mapn(GateStep(s.step))>>)
             /\ Key(map, "strategy") = IF s.matrix THEN Mapn([matrix |-> Null]) ELSE Null
             /\ Key(map, "needs") = IF s.needs # {} THEN List(s.needs, OtherJobs) ELSE Null
             /\ TextOf(Key(map, "if")) = IF s.condition = "absent" THEN NoText ELSE s.condition
             /\ TextOf(Key(map, "name")) =
                  CASE s.name = "absent" -> NoText [] s.name = "aggregator" -> Aggregator
                    [] s.name = "other" -> "Required checks"
                    [] s.name = "expression" -> "${{ github.workflow }} gate"
PROOF
<1> DEFINE map == GateMap(s)
           keys == {"runs-on", "steps", "name", "strategy", "needs", "if"}
           names == [aggregator |-> Aggregator, other |-> "Required checks",
                     expression |-> "${{ github.workflow }} gate"]
           value(key) ==
             CASE key = "runs-on" -> Str("ubuntu-latest")
               [] key = "steps" -> Seqn(<<Mapn(GateStep(s.step))>>)
               [] key = "name" -> Str(names[s.name])
               [] key = "strategy" -> Mapn([matrix |-> Null])
               [] key = "needs" -> List(s.needs, OtherJobs)
               [] key = "if" -> IF s.condition = "true" THEN [kind |-> "bool", text |-> "true"]
                                ELSE Str(s.condition)
           has(key) ==
             CASE key = "name" -> s.name # "absent" [] key = "strategy" -> s.matrix
               [] key = "needs" -> s.needs # {} [] key = "if" -> s.condition # "absent"
               [] OTHER -> TRUE
<1>1. map = [key \in {key \in keys : has(key)} |-> value(key)]
  BY Zenon DEF GateMap
<1> HIDE DEF map, value, has, keys
<1>2. \A key : Key(map, key) = IF key \in keys /\ has(key) THEN value(key) ELSE Null
  BY <1>1 DEF Key
<1>3. Key(map, "uses") = Null
  BY <1>2 DEF keys
<1>4. Key(map, "steps") = Seqn(<<Mapn(GateStep(s.step))>>)
  <2>1. "steps" \in keys
    BY DEF keys
  <2>2. has("steps") /\ value("steps") = Seqn(<<Mapn(GateStep(s.step))>>)
    BY Zenon DEF has, value
  <2> QED  BY <1>2, <2>1, <2>2
<1>5. Key(map, "strategy") = IF s.matrix THEN Mapn([matrix |-> Null]) ELSE Null
  <2>1. "strategy" \in keys
    BY DEF keys
  <2>2. (has("strategy") <=> s.matrix) /\ value("strategy") = Mapn([matrix |-> Null])
    BY Zenon DEF has, value
  <2> QED  BY <1>2, <2>1, <2>2
<1>6. Key(map, "needs") = IF s.needs # {} THEN List(s.needs, OtherJobs) ELSE Null
  <2>1. "needs" \in keys
    BY DEF keys
  <2>2. (has("needs") <=> s.needs # {}) /\ value("needs") = List(s.needs, OtherJobs)
    BY Zenon DEF has, value
  <2> QED  BY <1>2, <2>1, <2>2
<1>7. TextOf(Null) = NoText /\ \A text : TextOf(Str(text)) = text
  BY DEF TextOf, Null, Str
<1>8. TextOf(Key(map, "if")) = IF s.condition = "absent" THEN NoText ELSE s.condition
  <2>1. "if" \in keys
    BY DEF keys
  <2>2. (has("if") <=> s.condition # "absent")
        /\ value("if") = IF s.condition = "true" THEN [kind |-> "bool", text |-> "true"]
                         ELSE Str(s.condition)
    BY Zenon DEF has, value
  <2>3. TextOf([kind |-> "bool", text |-> "true"]) = "true"
    BY DEF TextOf
  <2>4. TextOf(value("if")) = s.condition
    BY <1>7, <2>2, <2>3
  <2> QED  BY <1>2, <1>7, <2>1, <2>2, <2>4
<1>9. TextOf(Key(map, "name")) =
          CASE s.name = "absent" -> NoText [] s.name = "aggregator" -> Aggregator
            [] s.name = "other" -> "Required checks"
            [] s.name = "expression" -> "${{ github.workflow }} gate"
  <2>1. "name" \in keys
    BY DEF keys
  <2>2. (has("name") <=> s.name # "absent") /\ value("name") = Str(names[s.name])
    BY Zenon DEF has, value
  <2>3. s.name \in {"absent", "aggregator", "other", "expression"}
    BY DEF CiShape
  <2>4. CASE s.name = "absent"
    <3>1. TextOf(Key(map, "name")) = NoText
      BY <1>2, <1>7, <2>2, <2>4
    <3> QED  BY <2>4, <3>1, Zenon
  <2>5. CASE s.name # "absent"
    <3>1. TextOf(Key(map, "name")) = names[s.name]
      BY <1>2, <1>7, <2>1, <2>2, <2>5
    <3>2. /\ names["aggregator"] = Aggregator /\ names["other"] = "Required checks"
          /\ names["expression"] = "${{ github.workflow }} gate"
      OBVIOUS
    <3> HIDE DEF names
    <3> QED  BY <2>3, <2>5, <3>1, <3>2, Zenon
  <2> QED  BY <2>4, <2>5
<1> QED  BY <1>3, <1>4, <1>5, <1>6, <1>8, <1>9 DEF map

(* The name of the gate's check is the aggregator's exactly if the shape's *)
(* is; of the other jobs it never is.                                      *)
LEMMA GateNamed ==
  ASSUME NEW s \in CiShape
  PROVE  /\ CheckName(s.key, JobOf(GateMap(s))) = {Aggregator} <=> ReportedName(s) = Aggregator
         /\ CheckName(s.key, JobOf(GateMap(s))) = {Aggregator}
              => s.key = Aggregator \/ JobOf(GateMap(s)).name = Aggregator
PROOF
<1> DEFINE job == JobOf(GateMap(s))
           text == CASE s.name = "absent" -> NoText [] s.name = "aggregator" -> Aggregator
                     [] s.name = "other" -> "Required checks"
                     [] s.name = "expression" -> "${{ github.workflow }} gate"
<1>1. job.name = text /\ job.uses = {}
      /\ job.strategy = IF s.matrix THEN Mapn([matrix |-> Null]) ELSE Null
  <2> DEFINE map == GateMap(s)
  <2>1. Key(map, "uses") = Null /\ TextOf(Key(map, "name")) = text
        /\ Key(map, "strategy") = IF s.matrix THEN Mapn([matrix |-> Null]) ELSE Null
    BY GateKeys, Zenon
  <2> HIDE DEF map, text
  <2>2. ~Has(map, "uses")
    BY <2>1 DEF Has, Null
  <2>3. /\ job.name = TextOf(Key(map, "name")) /\ job.strategy = Key(map, "strategy")
        /\ job.uses = IF Has(map, "uses") THEN {map["uses"]} ELSE {}
    BY DEF JobOf, map
  <2> QED  BY <2>1, <2>2, <2>3
<1> HIDE DEF job, text
<1>2. HasMatrix(job) <=> s.matrix
  <2>1. s.matrix \in BOOLEAN
    BY DEF CiShape
  <2>2. CASE s.matrix
    <3>1. job.strategy.kind = "map" /\ "matrix" \in DOMAIN job.strategy.map
      BY <1>1, <2>2 DEF Mapn
    <3> QED  BY <2>2, <3>1, Zenon DEF HasMatrix
  <2>3. CASE ~s.matrix
    <3>1. job.strategy.kind = "null"
      BY <1>1, <2>3 DEF Null
    <3> QED  BY <2>3, <3>1, Zenon DEF HasMatrix
  <2> QED  BY <2>2, <2>3
<1>3. CheckName(s.key, job) =
        IF s.matrix \/ text \in ExpressionTexts
          THEN {} ELSE {IF text = NoText THEN s.key ELSE text}
  BY <1>1, <1>2 DEF CheckName
<1>4. /\ Aggregator # "Required checks" /\ Aggregator # "varies" /\ Aggregator # NoText
      /\ NoText # "Required checks" /\ NoText \notin ExpressionTexts
      /\ Aggregator \notin ExpressionTexts /\ "Required checks" \notin ExpressionTexts
      /\ "${{ github.workflow }} gate" \in ExpressionTexts
  BY RequiredChecksAssumption
<1>5. CASE s.matrix
  <2>1. ReportedName(s) = "varies"
    BY <1>5, Zenon DEF ReportedName
  <2>2. CheckName(s.key, job) = {}
    BY <1>3, <1>5
  <2> QED  BY <1>4, <2>1, <2>2 DEF job
<1>6. CASE ~s.matrix
  <2>1. CASE s.name = "absent"
    <3>1. text = NoText /\ ReportedName(s) = s.key
      BY <1>6, <2>1, Zenon DEF ReportedName, text
    <3>2. CheckName(s.key, job) = {s.key}
      BY <1>3, <1>4, <1>6, <3>1
    <3> QED  BY <3>1, <3>2 DEF job
  <2>2. CASE s.name = "aggregator"
    <3>1. text = Aggregator /\ ReportedName(s) = Aggregator
      BY <1>6, <2>2, Zenon DEF ReportedName, text
    <3>2. CheckName(s.key, job) = {Aggregator}
      BY <1>3, <1>4, <1>6, <3>1
    <3> QED  BY <1>1, <3>1, <3>2 DEF job
  <2>3. CASE s.name = "other"
    <3>1. text = "Required checks" /\ ReportedName(s) = "Required checks"
      BY <1>6, <2>3, Zenon DEF ReportedName, text
    <3>2. CheckName(s.key, job) = {"Required checks"}
      BY <1>3, <1>4, <1>6, <3>1
    <3> QED  BY <1>4, <3>1, <3>2 DEF job
  <2>4. CASE s.name = "expression"
    <3>1. text = "${{ github.workflow }} gate" /\ ReportedName(s) = "varies"
      BY <1>6, <2>4, Zenon DEF ReportedName, text
    <3>2. CheckName(s.key, job) = {}
      BY <1>3, <1>4, <3>1
    <3> QED  BY <1>4, <3>1, <3>2 DEF job
  <2>5. s.name \in {"absent", "aggregator", "other", "expression"}
    BY DEF CiShape
  <2> QED  BY <2>1, <2>2, <2>3, <2>4, <2>5
<1> QED  BY <1>5, <1>6

(* The check of another job has the job's name.                            *)
LEMMA OthersNamed ==
  ASSUME NEW j
  PROVE  CheckName(j, JobOf(ScriptMap)) = {j}
PROOF
<1> DEFINE job == JobOf(ScriptMap)
<1>1. Key(ScriptMap, "name") = Null /\ Key(ScriptMap, "strategy") = Null
      /\ Key(ScriptMap, "uses") = Null
  BY DEF Key, ScriptMap
<1>2. job.name = NoText /\ job.uses = {} /\ job.strategy = Null
  BY <1>1 DEF JobOf, TextOf, Has, Null
<1> HIDE DEF job
<1>3. ~HasMatrix(job)
  <2>1. job.strategy.kind = "null"
    BY <1>2 DEF Null
  <2> QED  BY <2>1, Zenon DEF HasMatrix
<1>4. NoText \notin ExpressionTexts
  BY RequiredChecksAssumption
<1> QED  BY <1>2, <1>3, <1>4 DEF CheckName, job

(* The step that uses the gate action is given the whole needs context     *)
(* exactly in the forms that say so.                                       *)
LEMMA GatePasses ==
  ASSUME NEW s \in CiShape
  PROVE  LET job  == JobOf(GateMap(s))
             gate == {n \in DOMAIN job.steps : UsesAction(job.steps[n], GateAction)}
         IN  (\E n \in gate : (\A m \in gate : n <= m) /\ PassesFullNeeds(job.steps[n]))
               <=> NeedsContexts[s.step]
PROOF
<1> DEFINE job == JobOf(GateMap(s))
           raw == GateStep(s.step)
           step == StepOf(raw)
           gate == {n \in DOMAIN job.steps : UsesAction(job.steps[n], GateAction)}
           ref == Ref(GateAction, {"sha"})
           texts == [whole |-> "${{ toJSON(needs) }}", lower |-> "${{ tojson(needs) }}",
                     empty |-> "{}", part |-> "${{ toJSON(needs.build) }}"]
<1>1. job.steps = [n \in DOMAIN <<Mapn(raw)>> |-> StepOf(<<Mapn(raw)>>[n].map)]
  <2>1. Key(GateMap(s), "steps") = Seqn(<<Mapn(raw)>>)
    BY GateKeys
  <2>2. Has(GateMap(s), "steps")
    BY <2>1 DEF Has, Seqn
  <2>3. RawSteps(GateMap(s)) = <<Mapn(raw)>>
    BY <2>1, <2>2 DEF RawSteps, Seqn
  <2> HIDE DEF raw
  <2> QED  BY <2>3 DEF JobOf
<1>2. DOMAIN job.steps = {1} /\ job.steps[1] = step
  <2> HIDE DEF raw, job
  <2>1. DOMAIN <<Mapn(raw)>> = {1} /\ <<Mapn(raw)>>[1].map = raw
    BY DEF Mapn
  <2> QED  BY <1>1, <2>1
<1>3. (\E n \in gate : (\A m \in gate : n <= m) /\ PassesFullNeeds(job.steps[n]))
         <=> UsesAction(step, GateAction) /\ PassesFullNeeds(step)
  <2> HIDE DEF job, step
  <2>1. \A n : n \in gate <=> n = 1 /\ UsesAction(step, GateAction)
    BY <1>2
  <2> HIDE DEF gate
  <2> QED  BY <1>2, <2>1
<1> HIDE DEF job
<1>4. \A st : st.uses = {ref} => UsesAction(st, GateAction)
  <2>1. GateAction \in Seq({"G-Research", "common-actions", "check-required-lite"})
        /\ Len(GateAction) = 3
    BY DEF GateAction
  <2>2. SubSeq(GateAction, 1, Len(GateAction)) = GateAction
    BY <2>1, SubSeqFull
  <2>3. ref.path = GateAction /\ Len(ref.path) >= Len(GateAction) /\ Len(ref.path) # 2
    <3>1. ref.path = GateAction
      BY DEF Ref
    <3>2. Len(GateAction) >= Len(GateAction) /\ Len(GateAction) # 2
      BY <2>1
    <3> HIDE DEF ref
    <3> QED  BY <3>1, <3>2
  <2> HIDE DEF ref
  <2>4. ~IsRepository(ref)
    BY <2>3 DEF IsRepository
  <2> QED  BY <2>2, <2>3, <2>4 DEF UsesAction
<1>5. s.step \in {"absent", "without", "whole", "lower", "empty", "part"}
  BY DEF CiShape, NeedsContexts
<1>6. CASE s.step = "absent"
  <2>1. raw = [run |-> Str("echo done")]
    BY <1>6, Zenon DEF GateStep
  <2>2. ~Has(raw, "uses")
    BY <2>1 DEF Has, Key, Null
  <2>3. step.uses = {}
    BY <2>2 DEF StepOf
  <2>4. ~UsesAction(step, GateAction)
    BY <2>3 DEF UsesAction
  <2>5. NeedsContexts["absent"] = FALSE
    BY DEF NeedsContexts
  <2> QED  BY <1>3, <1>6, <2>4, <2>5 DEF job
<1>7. CASE s.step = "without"
  <2>1. raw = [uses |-> ref]
    BY <1>7, Zenon DEF GateStep
  <2>2. ~Has(raw, "with")
    BY <2>1 DEF Has, Key, Null
  <2>3. step.with = <<>>
    BY <2>2 DEF StepOf, With
  <2>4. ~PassesFullNeeds(step)
    BY <2>3 DEF PassesFullNeeds
  <2>5. NeedsContexts["without"] = FALSE
    BY DEF NeedsContexts
  <2> QED  BY <1>3, <1>7, <2>4, <2>5 DEF job
<1>8. CASE s.step \in {"whole", "lower", "empty", "part"}
  <2> DEFINE given == Mapn([i \in {"needs-context"} |-> Str(texts[s.step])])
  <2>1. raw = [uses |-> ref, with |-> given]
    BY <1>8, Zenon DEF GateStep
  <2>9. given.kind = "map" /\ ref.kind = "ref"
    BY DEF Mapn, Ref
  <2> HIDE DEF raw, ref, given
  <2>2. Has(raw, "with") /\ Key(raw, "with") = given
    BY <2>1, <2>9 DEF Has, Key
  <2>3. Has(raw, "uses") /\ raw["uses"] = ref
    <3>1. "uses" \in DOMAIN raw /\ raw["uses"] = ref
      BY <2>1
    <3> QED  BY <2>9, <3>1 DEF Has, Key
  <2>4. step.uses = {ref} /\ step.with = given.map
    BY <2>2, <2>3 DEF StepOf, With
  <2> HIDE DEF step
  <2>5. given.map = [i \in {"needs-context"} |-> Str(texts[s.step])]
    BY DEF Mapn, given
  <2>6. PassesFullNeeds(step) <=> texts[s.step] \in FullNeedsTexts
    <3> HIDE DEF texts, given
    <3> QED  BY <2>4, <2>5 DEF PassesFullNeeds, Str
  <2>7. UsesAction(step, GateAction)
    BY <1>4, <2>4
  <2>8. texts[s.step] \in FullNeedsTexts <=> NeedsContexts[s.step]
    <3>1. /\ texts["whole"] = "${{ toJSON(needs) }}" /\ texts["lower"] = "${{ tojson(needs) }}"
          /\ texts["empty"] = "{}" /\ texts["part"] = "${{ toJSON(needs.build) }}"
      OBVIOUS
    <3>2. /\ NeedsContexts["whole"] = TRUE /\ NeedsContexts["lower"] = TRUE
          /\ NeedsContexts["empty"] = FALSE /\ NeedsContexts["part"] = FALSE
      BY DEF NeedsContexts
    <3> HIDE DEF texts
    <3>3. texts["whole"] \in FullNeedsTexts /\ texts["lower"] \in FullNeedsTexts
          /\ texts["empty"] \notin FullNeedsTexts /\ texts["part"] \notin FullNeedsTexts
      BY <3>1, Zenon DEF FullNeedsTexts
    <3> QED  BY <1>8, <3>2, <3>3
  <2> QED  BY <1>3, <2>6, <2>7, <2>8 DEF job
<1> QED  BY <1>5, <1>6, <1>7, <1>8

(* What the gate needs, and when it runs.                                  *)
LEMMA GateNeeds ==
  ASSUME NEW s \in CiShape
  PROVE  LET job == JobOf(GateMap(s))
         IN  /\ \A x : (\E n \in DOMAIN job.needs : job.needs[n] = x) <=> x \in s.needs
             /\ job.condition \in AlwaysTexts <=> s.condition \in AlwaysTexts
PROOF
<1> DEFINE map == GateMap(s)
           job == JobOf(map)
<1>1. /\ Key(map, "needs") = IF s.needs # {} THEN List(s.needs, OtherJobs) ELSE Null
      /\ TextOf(Key(map, "if")) = IF s.condition = "absent" THEN NoText ELSE s.condition
  BY GateKeys
<1> HIDE DEF map
<1>2. job.needs = TextsOf(Key(map, "needs")) /\ job.condition = TextOf(Key(map, "if"))
  BY DEF JobOf
<1> HIDE DEF job
<1>3. s.needs \subseteq Range(OtherJobs)
  BY DEF CiShape
<1>4. \A x : (\E n \in DOMAIN job.needs : job.needs[n] = x) <=> x \in s.needs
  <2>1. CASE s.needs = {}
    <3>1. job.needs = <<>>
      BY <1>1, <1>2, <2>1 DEF TextsOf, Null
    <3> QED  BY <2>1, <3>1
  <2>2. CASE s.needs # {}
    <3>1. job.needs = TextsOf(List(s.needs, OtherJobs))
      BY <1>1, <1>2, <2>2
    <3>2. /\ OtherJobs \in Seq(Range(OtherJobs))
          /\ \A x \in Range(OtherJobs) : \E m \in DOMAIN OtherJobs : OtherJobs[m] = x
      BY DEF OtherJobs, Range
    <3>3. /\ TextsOf(List(s.needs, OtherJobs)) \in Seq(Range(OtherJobs))
          /\ \A x : (\E n \in DOMAIN TextsOf(List(s.needs, OtherJobs)) :
                      TextsOf(List(s.needs, OtherJobs))[n] = x)
                    <=> x \in s.needs /\ \E m \in DOMAIN OtherJobs : OtherJobs[m] = x
      BY <3>2, TextsOfList
    <3> QED  BY <1>3, <3>1, <3>2, <3>3, Zenon
  <2> QED  BY <2>1, <2>2
<1>5. job.condition \in AlwaysTexts <=> s.condition \in AlwaysTexts
  <2>1. NoText \notin AlwaysTexts
    BY RequiredChecksAssumption
  <2>2. "absent" \notin AlwaysTexts
    BY Zenon DEF AlwaysTexts
  <2> QED  BY <1>1, <1>2, <2>1, <2>2
<1> QED  BY <1>4, <1>5 DEF job, map

(* The jobs of a generated workflow.                                       *)
LEMMA JobsAre ==
  ASSUME NEW s \in CiShape, s.needs \subseteq s.others
  PROVE  LET jobsOf == WorkflowOf(DocOf(s)).jobs
         IN  /\ DOMAIN jobsOf = s.others \cup {s.key}
             /\ jobsOf[s.key] = JobOf(GateMap(s))
             /\ \A j \in s.others : j # s.key /\ j # Aggregator
                                    /\ CheckName(j, jobsOf[j]) = {j}
PROOF
<1> DEFINE doc == [j \in s.others \cup {s.key} |->
                     IF j = s.key THEN GateMap(s) ELSE ScriptMap]
           found == WorkflowOf(DocOf(s)).jobs
<1>1. found = [j \in DOMAIN doc |-> JobOf(doc[j])]
  BY DEF WorkflowOf, DocOf
<1> HIDE DEF found
<1>2. DOMAIN found = s.others \cup {s.key} /\ found[s.key] = JobOf(GateMap(s))
  BY <1>1
<1>3. ASSUME NEW j \in s.others
      PROVE  j # s.key /\ j # Aggregator /\ CheckName(j, found[j]) = {j}
  <2>1. s.key \in {Aggregator, "gate"} /\ j \in Range(OtherJobs)
    BY DEF CiShape
  <2>2. Aggregator \notin Range(OtherJobs) /\ "gate" \notin Range(OtherJobs)
    <3>1. Aggregator \notin Range(OtherJobs)
      BY RequiredChecksAssumption
    <3>2. Range(OtherJobs) = {"build", "test", "lint"}
      BY DEF Range, OtherJobs
    <3> QED  BY <3>1, <3>2
  <2>3. j # s.key /\ j # Aggregator
    BY <2>1, <2>2
  <2>4. found[j] = JobOf(ScriptMap)
    BY <1>1, <2>3
  <2> QED  BY <2>3, <2>4, OthersNamed
<1> QED  BY <1>2, <1>3 DEF found

(* Both verdicts about a generated workflow are true.                      *)
THEOREM VerdictsAreRight ==
  ASSUME NEW s \in CiShape, s.needs \subseteq s.others
  PROVE  /\ HasEnforcingAggregator(FactsOf(s)) <=> Enforcing(s)
         /\ EveryPullRequestReports(FactsOf(s), Aggregator) <=> ReportsAlways(s)
PROOF
<1> DEFINE w == WorkflowOf(DocOf(s))
           job == JobOf(GateMap(s))
           file == [workflow |-> w, doc |-> DocOf(s), texts |-> {}, readable |-> TRUE]
           gate == {n \in DOMAIN job.steps : UsesAction(job.steps[n], GateAction)}
           passes == \E n \in gate : (\A m \in gate : n <= m) /\ PassesFullNeeds(job.steps[n])
<1>1. s.pull \in Pulls
  BY DEF CiShape
<1>2. RunsOnEveryPullRequestInto(w, Branch) <=> RunsForEveryPull(s)
  BY <1>1, RunsAreKnown
<1>3. /\ DOMAIN w.jobs = s.others \cup {s.key} /\ w.jobs[s.key] = job
      /\ \A j \in s.others : j # s.key /\ j # Aggregator /\ CheckName(j, w.jobs[j]) = {j}
  BY JobsAre
<1>4. /\ CheckName(s.key, job) = {Aggregator} <=> ReportedName(s) = Aggregator
      /\ CheckName(s.key, job) = {Aggregator} => s.key = Aggregator \/ job.name = Aggregator
  BY GateNamed
<1>5. /\ \A x : (\E n \in DOMAIN job.needs : job.needs[n] = x) <=> x \in s.needs
      /\ job.condition \in AlwaysTexts <=> s.condition \in AlwaysTexts
  BY GateNeeds
<1>6. passes <=> NeedsContexts[s.step]
  BY GatePasses
<1>7. FactsOf(s).files = {file} /\ FactsOf(s).branch = Branch /\ file.workflow = w
  BY DEF FactsOf
<1>8. \A key \in DOMAIN w.jobs : CheckName(key, w.jobs[key]) = {Aggregator}
                                 <=> key = s.key /\ ReportedName(s) = Aggregator
  BY <1>3, <1>4
<1> HIDE DEF w, job, file
<1>9. EveryPullRequestReports(FactsOf(s), Aggregator) <=> ReportsAlways(s)
  <2>1. EveryPullRequestReports(FactsOf(s), Aggregator) <=>
          /\ RunsOnEveryPullRequestInto(w, Branch)
          /\ \E key \in DOMAIN w.jobs : CheckName(key, w.jobs[key]) = {Aggregator}
    BY <1>7 DEF EveryPullRequestReports
  <2> QED  BY <1>2, <1>3, <1>8, <2>1 DEF ReportsAlways
<1>10. HasEnforcingAggregator(FactsOf(s)) <=>
         \E key \in DOMAIN w.jobs : (key = Aggregator \/ w.jobs[key].name = Aggregator)
                                    /\ Enforces(w, key, Branch)
  BY <1>7 DEF HasEnforcingAggregator
<1>11. \A key \in DOMAIN w.jobs : Enforces(w, key, Branch) => key = s.key
  BY <1>8 DEF Enforces
<1>12. Enforces(w, s.key, Branch) <=> Enforcing(s)
  <2>1. Enforces(w, s.key, Branch) <=>
          /\ CheckName(s.key, job) = {Aggregator}
          /\ RunsOnEveryPullRequestInto(w, Branch)
          /\ job.condition \in AlwaysTexts
          /\ passes
          /\ \A other \in (DOMAIN w.jobs) \ {s.key} : \E n \in DOMAIN job.needs : job.needs[n] = other
    BY <1>3 DEF Enforces
  <2>2. (DOMAIN w.jobs) \ {s.key} = s.others
    BY <1>3
  <2>3. (\A other \in (DOMAIN w.jobs) \ {s.key} : \E n \in DOMAIN job.needs : job.needs[n] = other)
          <=> s.needs = s.others
    BY <1>5, <2>2
  <2> HIDE DEF passes
  <2> QED  BY <1>2, <1>4, <1>5, <1>6, <2>1, <2>3 DEF Enforcing, ReportsAlways
<1>13. HasEnforcingAggregator(FactsOf(s)) <=> Enforcing(s)
  <2>1. Enforces(w, s.key, Branch) => s.key = Aggregator \/ job.name = Aggregator
    BY <1>3, <1>4 DEF Enforces
  <2> QED  BY <1>3, <1>10, <1>11, <1>12, <2>1
<1> QED  BY <1>9, <1>13

(* The verdicts of WF004 and of --fix (RS012) about a workflow are right   *)
(* from the start and stay what they were.                                 *)
THEOREM VerdictsStayTrue == Spec => []VerdictsTrue
<1>1. Init => VerdictsTrue
  <2> SUFFICES ASSUME Init PROVE VerdictsTrue
    OBVIOUS
  <2>1. shape \in CiShape /\ shape.needs \subseteq shape.others
    BY RequiredChecksAssumption DEF Init
  <2> QED  BY <2>1, VerdictsAreRight DEF Init, VerdictsTrue
<1>2. VerdictsTrue /\ [Next]_vars => VerdictsTrue'
  <2> SUFFICES ASSUME VerdictsTrue, [Next]_vars PROVE VerdictsTrue'
    OBVIOUS
  <2>1. UNCHANGED <<shape, accepted, reports>>
    BY DEF Next, vars, checks, RequireCheck, Open, PushCommit, Label, Close, Reopen, Retarget,
           Merge, JobEnds, Happens
  <2> QED  BY <2>1 DEF VerdictsTrue, Enforcing, ReportsAlways, ReportedName, RunsForEveryPull
<1> QED  BY <1>1, <1>2, PTL DEF Spec

-----------------------------------------------------------------------------
(* What holds back a pull request                                          *)

(* A gate that enforces is never skipped, as its condition is always(); it *)
(* succeeds only after all that it needs has, which is every other job;    *)
(* and no job of a commit runs again once it has ended.                    *)
GateInv ==
  /\ jobs = [j \in Keys |-> jobs[j]]
  /\ Enforcing(shape) =>
       /\ jobs[shape.key] # "skipped"
       /\ jobs[shape.key] = "success" => \A j \in Keys : jobs[j] = "success"

(* Whatever happens leaves the jobs as they are, or has them all start     *)
(* again, or forgets those of the commit before.                           *)
LEMMA HappensKeeps ==
  ASSUME GateInv, NEW event, NEW b, NEW before, Happens(event, b, before),
         before \in {jobs, NoRun}
  PROVE  GateInv'
<1>1. jobs' \in {jobs, NoRun, [j \in Keys |-> "queued"]}
  BY DEF Happens, AfterEvent
<1>2. shape' = shape /\ Keys' = Keys /\ shape.key \in Keys
  BY DEF Happens, checks, Keys
<1>3. CASE jobs' = jobs
  BY <1>2, <1>3 DEF GateInv, Enforcing, ReportsAlways, RunsForEveryPull, ReportedName
<1>4. CASE jobs' = NoRun
  BY <1>2, <1>4 DEF GateInv, NoRun
<1>5. CASE jobs' = [j \in Keys |-> "queued"]
  BY <1>2, <1>5 DEF GateInv
<1> QED
  BY <1>1, <1>3, <1>4, <1>5

LEMMA JobEndsKeeps ==
  ASSUME GateInv, NEW j \in Keys, JobEnds(j)
  PROVE  GateInv'
<1>1. shape' = shape /\ Keys' = Keys /\ shape.key \in Keys
  BY DEF JobEnds, checks, Keys
<1>2. PICK result : jobs' = [jobs EXCEPT ![j] = result]
  BY DEF JobEnds
<1>3. jobs' = [k \in Keys' |-> jobs'[k]]
  BY <1>1, <1>2 DEF GateInv
<1>4. ASSUME Enforcing(shape)
      PROVE  /\ jobs'[shape.key] # "skipped"
             /\ jobs'[shape.key] = "success" => \A k \in Keys : jobs'[k] = "success"
  <2>1. /\ shape.condition \in AlwaysTexts /\ NeedsContexts[shape.step] = TRUE
        /\ shape.needs = shape.others
    BY <1>4 DEF Enforcing, NeedsContexts
  <2>2. CASE j = shape.key
    <3>1. jobs' \in {[jobs EXCEPT ![j] = r] : r \in Results(j)}
      BY <2>1, <2>2 DEF JobEnds
    <3>2. PICK r \in Results(j) : jobs' = [jobs EXCEPT ![j] = r]
      BY <3>1
    <3>3. jobs'[shape.key] = r
      BY <1>1, <2>2, <3>2 DEF GateInv
    <3>4. r # "skipped"
      BY <3>2 DEF Results
    <3>5. ASSUME r = "success", NEW k \in Keys PROVE jobs'[k] = "success"
      <4>1. CASE k = shape.key
        BY <3>3, <3>5, <4>1
      <4>2. CASE k \in shape.others /\ k # shape.key
        <5>1. jobs[k] = "success"
          BY <2>1, <2>2, <3>2, <3>5, <4>2 DEF Results
        <5> QED
          BY <2>2, <3>2, <4>2, <5>1 DEF GateInv
      <4> QED
        BY <4>1, <4>2 DEF Keys
    <3> QED
      BY <3>3, <3>4, <3>5
  <2>3. CASE j # shape.key
    <3>1. jobs'[shape.key] = jobs[shape.key]
      BY <1>1, <1>2, <2>3 DEF GateInv
    <3>2. jobs[shape.key] # "success"
      BY <1>4, <2>3 DEF JobEnds, GateInv
    <3> QED
      BY <1>4, <3>1, <3>2 DEF GateInv
  <2> QED
    BY <2>2, <2>3
<1>5. Enforcing(shape)' <=> Enforcing(shape)
  BY <1>1 DEF Enforcing, ReportsAlways, RunsForEveryPull, ReportedName
<1> QED
  BY <1>1, <1>3, <1>4, <1>5 DEF GateInv

LEMMA GateInvStep ==
  ASSUME GateInv, [Next]_vars PROVE GateInv'
<1>1. CASE UNCHANGED <<shape, jobs>>
  BY <1>1 DEF GateInv, Keys, Enforcing, ReportsAlways, RunsForEveryPull, ReportedName
<1>2. CASE RequireCheck
  BY <1>1, <1>2 DEF RequireCheck
<1>3. CASE Merge
  BY <1>1, <1>3 DEF Merge, checks
<1>4. CASE UNCHANGED vars
  BY <1>1, <1>4 DEF vars, checks
<1>5. CASE Open \/ PushCommit
  BY <1>5, HappensKeeps DEF Open, PushCommit
<1>6. CASE Label \/ Close \/ Reopen
  BY <1>6, HappensKeeps DEF Label, Close, Reopen
<1>7. CASE Retarget
  BY <1>7, HappensKeeps DEF Retarget
<1>8. CASE \E j \in Keys : JobEnds(j)
  BY <1>8, JobEndsKeeps
<1> QED
  BY <1>2, <1>3, <1>4, <1>5, <1>6, <1>7, <1>8 DEF Next

LEMMA GateInvInit == Init => GateInv
  BY DEF Init, GateInv, NoRun, Keys

(* With a gate that WF004 (src/rules/workflows.rs) accepts and its check   *)
(* required, no pull request is merged over a job that has failed or not   *)
(* ended: neither after another push nor after a new base.                 *)
THEOREM RequiredGateHolds == Spec => GateHolds
<1>1. GateInv /\ VerdictsTrue /\ [Next]_vars
        => [pull' = "merged" /\ pull # "merged" /\ required /\ accepted
              => \A j \in Keys : jobs[j] \in {"success", "skipped"}]_vars
  <2> SUFFICES ASSUME GateInv, VerdictsTrue, [Next]_vars,
                      pull' = "merged", pull # "merged", required, accepted
               PROVE  \A j \in Keys : jobs[j] \in {"success", "skipped"}
    OBVIOUS
  <2>1. Merge
    BY DEF Next, vars, RequireCheck, Open, PushCommit, Label, Close, Reopen, Retarget, JobEnds
  <2>2. jobs[shape.key] = "success"
    BY <2>1 DEF Merge, GateInv, VerdictsTrue
  <2> QED
    BY <2>2 DEF GateInv, VerdictsTrue
<1> QED
  BY <1>1, GateInvInit, GateInvStep, VerdictsStayTrue, PTL DEF Spec, GateHolds
=============================================================================
