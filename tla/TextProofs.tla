----------------------------- MODULE TextProofs -----------------------------
(***************************************************************************)
(* What the program reads out of texts is right, whatever they are: the    *)
(* regular expression of a branch pattern matches a branch exactly if      *)
(* GitHub documents that the pattern does, and an expression is found to   *)
(* refer to a secret where GitHub evaluates one, as far as the code's      *)
(* regular expression reads like GitHub does.                              *)
(*                                                                         *)
(* What a recursive function is, it has to be shown to be: Recursion says  *)
(* that one exists when each of its values depends on later ones only, and *)
(* Downwards is the induction to argue about it; RecursionUpwards and      *)
(* Upwards are the same the other way.                                     *)
(***************************************************************************)
EXTENDS BranchPatterns, Expressions, SequenceTheorems, WellFoundedInduction, TLAPS

LEMMA NatWellFounded == IsWellFoundedOn({ss \in Nat \X Nat : ss[1] < ss[2]}, Nat)
BY NatLessThanWellFounded, Zenon DEF OpToRel

(* A set of numbers has a least one.                                       *)
LEMMA Least ==
  ASSUME NEW S, S \subseteq Nat, S # {}
  PROVE  \E n \in S : \A m \in S : n <= m
PROOF
<1> DEFINE Rel == {ss \in Nat \X Nat : ss[1] < ss[2]}
<1>1. IsWellFoundedOn(Rel, Nat)
  BY NatWellFounded
<1>2. \A m, n \in Nat : m < n => <<m, n>> \in Rel
  OBVIOUS
<1> HIDE DEF Rel
<1>3. PICK n \in S : \A m \in S : ~(<<m, n>> \in Rel)
  BY <1>1, WFMin
<1>4. \A m \in S : ~(m < n)
  BY <1>2, <1>3
<1> QED  BY <1>4

(* What holds of a number when it holds of all up to N that are greater,   *)
(* holds of all.                                                           *)
LEMMA Downwards ==
  ASSUME NEW N \in Nat, NEW Good,
         \A k \in 1..N : (\A m \in k + 1..N : m \in Good) => k \in Good
  PROVE  \A k \in 1..N : k \in Good
PROOF
<1> SUFFICES ASSUME NEW k \in 1..N, k \notin Good PROVE FALSE
  OBVIOUS
<1> DEFINE Bad == {n \in 0..N : N - n \in 1..N /\ N - n \notin Good}
<1>1. Bad \subseteq Nat /\ N - k \in Bad
  OBVIOUS
<1>2. PICK n \in Bad : \A m \in Bad : n <= m
  BY <1>1, Least
<1>3. ASSUME NEW m \in N - n + 1..N PROVE m \in Good
  <2>1. N - (N - m) = m /\ N - m \in 0..N /\ ~(n <= N - m) /\ m \in 1..N
    BY <1>2
  <2> QED  BY <1>2, <2>1
<1> QED  BY <1>2, <1>3

(* F makes a function of another, from what comes later in that.           *)
UsesLater(F, N, V) ==
  /\ F \in [[1..N -> V] -> [1..N -> V]]
  /\ \A g, h \in [1..N -> V] : \A k \in 1..N :
       (\A m \in k + 1..N : g[m] = h[m]) => F[g][k] = F[h][k]

(* A function of 1..N that is defined by its values at later places is.    *)
LEMMA Recursion ==
  ASSUME NEW N \in Nat, NEW V, V # {}, NEW F, UsesLater(F, N, V)
  PROVE  \E f \in [1..N -> V] : f = F[f]
PROOF
<1> DEFINE Right(f, k) == \A m \in k..N : f[m] = F[f][m]
           Reached == {k \in 1..N + 1 : \E f \in [1..N -> V] : Right(f, k)}
<1>1. ASSUME NEW k \in 1..N + 1, \A m \in k + 1..N + 1 : m \in Reached
      PROVE  k \in Reached
  <2>1. CASE k = N + 1
    <3>1. PICK v : v \in V
      OBVIOUS
    <3> DEFINE f == [m \in 1..N |-> v]
    <3>2. f \in [1..N -> V]
      BY <3>1
    <3>3. k..N = {}
      BY <2>1
    <3> QED  BY <3>2, <3>3
  <2>2. CASE k \in 1..N
    <3>1. k + 1 \in Reached
      <4>1. k + 1 \in k + 1..N + 1
        BY <2>2
      <4> HIDE DEF Reached
      <4> QED  BY <1>1, <4>1
    <3>2. PICK f \in [1..N -> V] : Right(f, k + 1)
      BY <3>1
    <3> DEFINE g == [f EXCEPT ![k] = F[f][k]]
    <3>3. F[f] \in [1..N -> V] /\ F[f][k] \in V
      BY <2>2 DEF UsesLater
    <3>4. g \in [1..N -> V]
      BY <3>3
    <3>5. \A m \in k + 1..N : g[m] = f[m] /\ m \in 1..N
      BY <2>2
    <3>6. g[k] = F[f][k]
      BY <2>2
    <3> HIDE DEF g
    <3>7. \A m \in k..N : F[g][m] = F[f][m]
      <4> SUFFICES ASSUME NEW m \in k..N PROVE F[g][m] = F[f][m]
        OBVIOUS
      <4>1. m \in 1..N /\ \A n \in m + 1..N : n \in k + 1..N
        BY <2>2
      <4>2. \A n \in m + 1..N : g[n] = f[n]
        BY <3>5, <4>1
      <4> QED  BY <3>4, <4>1, <4>2 DEF UsesLater
    <3>8. \A m \in k..N : m = k \/ m \in k + 1..N
      BY <2>2
    <3>9. Right(g, k)
      BY <3>2, <3>5, <3>6, <3>7, <3>8
    <3> QED  BY <3>4, <3>9
  <2> QED  BY <2>1, <2>2
<1>2. 1 \in Reached
  <2>1. \A k \in 1..N + 1 : (\A m \in k + 1..N + 1 : m \in Reached) => k \in Reached
    BY <1>1
  <2> HIDE DEF Reached
  <2> QED  BY <2>1, Downwards, N + 1 \in Nat, 1 \in 1..N + 1
<1>3. PICK f \in [1..N -> V] : Right(f, 1)
  BY <1>2
<1>4. F[f] \in [1..N -> V]
  BY DEF UsesLater
<1>5. f = F[f]
  BY <1>3, <1>4
<1> QED  BY <1>5

(* What holds of a number when it holds of the one before, holds of all.   *)
LEMMA Upwards ==
  ASSUME NEW N \in Nat, NEW Good, 1 \in Good,
         \A k \in 1..N - 1 : k \in Good => k + 1 \in Good
  PROVE  \A k \in 1..N : k \in Good
PROOF
<1> DEFINE Bad == {k \in 1..N : k \notin Good}
<1> SUFFICES ASSUME Bad # {} PROVE FALSE
  OBVIOUS
<1>1. Bad \subseteq Nat
  OBVIOUS
<1>2. PICK k \in Bad : \A m \in Bad : k <= m
  BY <1>1, Least
<1>3. k # 1 /\ k \in 1..N /\ k \notin Good
  BY <1>2
<1>4. k - 1 \in 1..N - 1 /\ k - 1 \in 1..N /\ ~(k <= k - 1) /\ k - 1 + 1 = k
  BY <1>3
<1>5. k - 1 \in Good
  BY <1>2, <1>4
<1> QED  BY <1>3, <1>4, <1>5

(* F makes a function of another, from what comes earlier in that.         *)
UsesEarlier(F, N, V) ==
  /\ F \in [[1..N -> V] -> [1..N -> V]]
  /\ \A g, h \in [1..N -> V] : \A k \in 1..N :
       (\A m \in 1..k - 1 : g[m] = h[m]) => F[g][k] = F[h][k]

Turned(f, N) == [k \in 1..N |-> f[N + 1 - k]]

(* A function of 1..N that is defined by its values at earlier places is.  *)
LEMMA RecursionUpwards ==
  ASSUME NEW N \in Nat, NEW V, V # {}, NEW F, UsesEarlier(F, N, V)
  PROVE  \E f \in [1..N -> V] : f = F[f]
PROOF
<1> DEFINE G == [g \in [1..N -> V] |-> Turned(F[Turned(g, N)], N)]
<1>1. \A g \in [1..N -> V] : Turned(g, N) \in [1..N -> V] /\ Turned(Turned(g, N), N) = g
  <2> SUFFICES ASSUME NEW g \in [1..N -> V]
               PROVE  Turned(g, N) \in [1..N -> V] /\ Turned(Turned(g, N), N) = g
    OBVIOUS
  <2>1. \A k \in 1..N : N + 1 - k \in 1..N /\ N + 1 - (N + 1 - k) = k
    OBVIOUS
  <2> QED  BY <2>1 DEF Turned
<1>2. G \in [[1..N -> V] -> [1..N -> V]]
  BY <1>1 DEF UsesEarlier
<1>3. ASSUME NEW g \in [1..N -> V], NEW h \in [1..N -> V], NEW k \in 1..N,
             \A m \in k + 1..N : g[m] = h[m]
      PROVE  G[g][k] = G[h][k]
  <2>1. N + 1 - k \in 1..N
    OBVIOUS
  <2>2. ASSUME NEW m \in 1..N + 1 - k - 1 PROVE Turned(g, N)[m] = Turned(h, N)[m]
    <3>1. m \in 1..N /\ N + 1 - m \in k + 1..N
      OBVIOUS
    <3> QED  BY <1>3, <3>1 DEF Turned
  <2>3. F[Turned(g, N)][N + 1 - k] = F[Turned(h, N)][N + 1 - k]
    <3>1. \A p, q \in [1..N -> V] : \A n \in 1..N :
            (\A m \in 1..n - 1 : p[m] = q[m]) => F[p][n] = F[q][n]
      BY Zenon DEF UsesEarlier
    <3>2. Turned(g, N) \in [1..N -> V] /\ Turned(h, N) \in [1..N -> V]
      BY <1>1
    <3> DEFINE p == Turned(g, N)
               q == Turned(h, N)
               n == N + 1 - k
    <3>3. \A m \in 1..n - 1 : p[m] = q[m]
      BY <2>2
    <3>4. n \in 1..N
      BY <2>1
    <3>5. p \in [1..N -> V] /\ q \in [1..N -> V]
      BY <3>2
    <3> HIDE DEF p, q, n
    <3>6. F[p][n] = F[q][n]
      BY <3>1, <3>3, <3>4, <3>5
    <3> QED  BY <3>6, Zenon DEF p, q, n
  <2> QED  BY <2>3 DEF Turned
<1> HIDE DEF G
<1>4. PICK g \in [1..N -> V] : g = G[g]
  <2>1. UsesLater(G, N, V)
    BY <1>2, <1>3 DEF UsesLater
  <2> QED  BY <2>1, Recursion
<1> DEFINE f == Turned(g, N)
<1>5. f \in [1..N -> V] /\ g = Turned(f, N)
  BY <1>1
<1>6. F[f] \in [1..N -> V]
  BY <1>5 DEF UsesEarlier
<1>7. g = Turned(F[f], N)
  BY <1>4 DEF G
<1>8. f = F[f]
  BY <1>1, <1>6, <1>7
<1> QED  BY <1>5, <1>8

-----------------------------------------------------------------------------
(* Matching by items                                                       *)

LEMMA MatchFromIs ==
  ASSUME NEW items, Len(items) \in Nat, NEW b, Len(b) \in Nat
  PROVE  \A i \in 1..Len(items) + 1 :
           MatchFrom(items, b)[i] = MatchAt(items, b, i, MatchFrom(items, b))
PROOF
<1> DEFINE N == Len(items) + 1
           V == SUBSET (1..Len(b) + 1)
           Body(f) == [i \in 1..N |-> MatchAt(items, b, i, f)]
           F == [f \in [1..N -> V] |-> Body(f)]
<1>1. ASSUME NEW f, NEW i PROVE MatchAt(items, b, i, f) \in V
  BY DEF MatchAt, Before
<1>2. F \in [[1..N -> V] -> [1..N -> V]]
  BY <1>1
<1>3. ASSUME NEW g \in [1..N -> V], NEW h \in [1..N -> V], NEW i \in 1..N,
             \A m \in i + 1..N : g[m] = h[m]
      PROVE  F[g][i] = F[h][i]
  <2>1. i > Len(items) \/ g[i + 1] = h[i + 1]
    BY <1>3
  <2>2. MatchAt(items, b, i, g) = MatchAt(items, b, i, h)
    BY <2>1 DEF MatchAt
  <2> QED  BY <2>2
<1> HIDE DEF F
<1>4. \E f \in [1..N -> V] : f = F[f]
  <2>1. N \in Nat
    OBVIOUS
  <2>2. V # {}
    <3>1. {} \in V
      OBVIOUS
    <3> QED  BY <3>1
  <2>3. UsesLater(F, N, V)
    BY <1>2, <1>3 DEF UsesLater
  <2> HIDE DEF N, V
  <2> QED  BY <2>1, <2>2, <2>3, Recursion
<1>5. \E f : f = Body(f)
  BY <1>4 DEF F
<1>6. MatchFrom(items, b) = CHOOSE f : f = Body(f)
  BY DEF MatchFrom
<1> HIDE DEF Body
<1>7. MatchFrom(items, b) = Body(MatchFrom(items, b))
  BY <1>5, <1>6
<1> QED  BY <1>7 DEF Body

LEMMA Prepended ==
  ASSUME NEW T, NEW x \in T, NEW rest \in Seq(T)
  PROVE  /\ <<x>> \o rest \in Seq(T)
         /\ Len(<<x>> \o rest) = Len(rest) + 1
         /\ (<<x>> \o rest)[1] = x
         /\ \A i \in 1..Len(rest) : (<<x>> \o rest)[i + 1] = rest[i]
PROOF
<1> DEFINE one == <<x>>
<1>1. one \in Seq(T) /\ Len(one) = 1 /\ one[1] = x
  OBVIOUS
<1> HIDE DEF one
<1>2. /\ one \o rest \in Seq(T)
      /\ Len(one \o rest) = Len(one) + Len(rest)
      /\ \A i \in 1..Len(one) + Len(rest) :
           (one \o rest)[i] = IF i <= Len(one) THEN one[i] ELSE rest[i - Len(one)]
  BY <1>1, ConcatProperties
<1>3. Len(rest) \in Nat
  OBVIOUS
<1>4. (one \o rest)[1] = x
  BY <1>1, <1>2, <1>3
<1>5. \A i \in 1..Len(rest) : (one \o rest)[i + 1] = rest[i]
  BY <1>1, <1>2, <1>3
<1>6. Len(one \o rest) = Len(rest) + 1
  BY <1>1, <1>2, <1>3
<1> QED  BY <1>2, <1>4, <1>5, <1>6 DEF one

(* What comes before does not change how the rest of the items matches.    *)
LEMMA MatchRest ==
  ASSUME NEW T, NEW x \in T, NEW rest \in Seq(T), NEW b, Len(b) \in Nat
  PROVE  \A i \in 1..Len(rest) + 1 :
           MatchFrom(<<x>> \o rest, b)[i + 1] = MatchFrom(rest, b)[i]
PROOF
<1> DEFINE all == <<x>> \o rest
           N == Len(rest) + 1
           Good == {i \in 1..N : MatchFrom(all, b)[i + 1] = MatchFrom(rest, b)[i]}
<1>1. /\ Len(all) = Len(rest) + 1 /\ Len(rest) \in Nat
      /\ \A i \in 1..Len(rest) : all[i + 1] = rest[i]
  BY Prepended
<1> HIDE DEF all
<1>2. ASSUME NEW i \in 1..N, \A m \in i + 1..N : m \in Good
      PROVE  i \in Good
  <2>1. MatchFrom(all, b)[i + 1] = MatchAt(all, b, i + 1, MatchFrom(all, b))
    BY <1>1, MatchFromIs
  <2>2. MatchFrom(rest, b)[i] = MatchAt(rest, b, i, MatchFrom(rest, b))
    BY <1>1, MatchFromIs
  <2>3. CASE i = N
    BY <1>1, <2>1, <2>2, <2>3 DEF MatchAt
  <2>4. CASE i < N
    <3>1. i + 1 \in i + 1..N
      BY <1>1, <2>4
    <3>2. MatchFrom(all, b)[i + 1 + 1] = MatchFrom(rest, b)[i + 1]
      BY <1>2, <3>1
    <3>3. all[i + 1] = rest[i] /\ ~(i > Len(rest)) /\ ~(i + 1 > Len(all))
      BY <1>1, <2>4
    <3> QED  BY <2>1, <2>2, <3>2, <3>3 DEF MatchAt
  <2> QED  BY <1>1, <2>3, <2>4
<1>3. \A i \in 1..N : (\A m \in i + 1..N : m \in Good) => i \in Good
  BY <1>2
<1>4. N \in Nat
  BY <1>1
<1> HIDE DEF Good, N
<1>5. \A i \in 1..N : i \in Good
  BY <1>3, <1>4, Downwards
<1> QED  BY <1>5 DEF Good, N, all

(* The first item takes characters up to where the rest matches.           *)
LEMMA MatchFirst ==
  ASSUME NEW T, NEW x \in T, NEW rest \in Seq(T), NEW b, Len(b) \in Nat
  PROVE  MatchFrom(<<x>> \o rest, b)[1] = Before(x, b, MatchFrom(rest, b)[1])
PROOF
<1> DEFINE all == <<x>> \o rest
<1>1. Len(all) = Len(rest) + 1 /\ Len(rest) \in Nat /\ all[1] = x
  BY Prepended
<1>2. MatchFrom(all, b)[2] = MatchFrom(rest, b)[1]
  BY <1>1, MatchRest
<1> HIDE DEF all
<1>3. MatchFrom(all, b)[1] = MatchAt(all, b, 1, MatchFrom(all, b))
  BY <1>1, MatchFromIs
<1> QED  BY <1>1, <1>2, <1>3 DEF MatchAt, all

-----------------------------------------------------------------------------
(* Reading a pattern goes on                                               *)

LEMMA CharAtNext ==
  ASSUME NEW p, Len(p) \in Nat, NEW k \in 1..Len(p)
  PROVE  CharAt(p, k).next \in k + 1..Len(p) + 1
PROOF
BY DEF CharAt

LEMMA ClassFromIs ==
  ASSUME NEW p, Len(p) \in Nat, NEW first
  PROVE  \A k \in 1..Len(p) + 2 :
           ClassFrom(p, first)[k] = ClassAt(p, first, k, ClassFrom(p, first))
PROOF
<1> DEFINE N == Len(p) + 2
           L == {CharAt(p, k) : k \in 1..Len(p)}
           X == [list : Seq(L), next : Nat]
           V == SUBSET X
           Body(f) == [k \in 1..N |-> ClassAt(p, first, k, f)]
           F == [f \in [1..N -> V] |-> Body(f)]
<1>1. ASSUME NEW f \in [1..N -> V], NEW k \in 1..N
      PROVE  ClassAt(p, first, k, f) \in V
  <2>1. CASE k > Len(p)
    BY <2>1 DEF ClassAt
  <2>2. CASE ~(k > Len(p)) /\ p[k] = "]" /\ k > first
    <3>1. ClassAt(p, first, k, f) = {[list |-> <<>>, next |-> k + 1]}
      BY <2>2 DEF ClassAt
    <3>2. [list |-> <<>>, next |-> k + 1] \in X
      OBVIOUS
    <3> QED  BY <3>1, <3>2
  <2>3. CASE ~(k > Len(p)) /\ ~(p[k] = "]" /\ k > first)
    <3> DEFINE c == CharAt(p, k)
    <3>1. ClassAt(p, first, k, f) =
            {[list |-> <<c>> \o rest.list, next |-> rest.next] : rest \in f[c.next]}
      BY <2>3 DEF ClassAt
    <3>2. c \in L /\ c.next \in 1..N
      BY <2>3, CharAtNext
    <3> HIDE DEF c, L
    <3>3. ASSUME NEW rest \in f[c.next]
          PROVE  [list |-> <<c>> \o rest.list, next |-> rest.next] \in X
      <4>1. rest \in X
        BY <3>2
      <4>2. rest.list \in Seq(L) /\ rest.next \in Nat
        BY <4>1
      <4>3. <<c>> \o rest.list \in Seq(L)
        BY <3>2, <4>2, Prepended
      <4> QED  BY <4>2, <4>3
    <3> HIDE DEF X
    <3> QED  BY <3>1, <3>3
  <2> QED  BY <2>1, <2>2, <2>3
<1>2. F \in [[1..N -> V] -> [1..N -> V]]
  BY <1>1
<1>3. ASSUME NEW g \in [1..N -> V], NEW h \in [1..N -> V], NEW k \in 1..N,
             \A m \in k + 1..N : g[m] = h[m]
      PROVE  F[g][k] = F[h][k]
  <2>1. k > Len(p) \/ g[CharAt(p, k).next] = h[CharAt(p, k).next]
    BY <1>3, CharAtNext
  <2>2. ClassAt(p, first, k, g) = ClassAt(p, first, k, h)
    BY <2>1 DEF ClassAt
  <2> QED  BY <2>2
<1> HIDE DEF F
<1>4. \E f \in [1..N -> V] : f = F[f]
  <2>1. N \in Nat
    OBVIOUS
  <2>2. V # {}
    <3>1. {} \in V
      OBVIOUS
    <3> QED  BY <3>1
  <2>3. UsesLater(F, N, V)
    BY <1>2, <1>3 DEF UsesLater
  <2> HIDE DEF N, V
  <2> QED  BY <2>1, <2>2, <2>3, Recursion
<1>5. \E f : f = Body(f)
  BY <1>4 DEF F
<1>6. ClassFrom(p, first) = CHOOSE f : f = Body(f)
  BY DEF ClassFrom
<1> HIDE DEF Body
<1>7. ClassFrom(p, first) = Body(ClassFrom(p, first))
  BY <1>5, <1>6
<1> QED  BY <1>7 DEF Body

(* A class ends after where it starts, and in the pattern.                 *)
LEMMA ClassNext ==
  ASSUME NEW p, Len(p) \in Nat, NEW first
  PROVE  \A k \in 1..Len(p) + 2 : \A m \in ClassFrom(p, first)[k] :
           m.next \in k + 1..Len(p) + 1
PROOF
<1> DEFINE N == Len(p) + 2
           from == ClassFrom(p, first)
           Good == {k \in 1..N : \A m \in from[k] : m.next \in k + 1..Len(p) + 1}
<1>1. ASSUME NEW k \in 1..N, \A n \in k + 1..N : n \in Good
      PROVE  k \in Good
  <2>1. from[k] = ClassAt(p, first, k, from)
    BY ClassFromIs
  <2> HIDE DEF from
  <2>2. CASE k > Len(p)
    BY <2>1, <2>2 DEF ClassAt
  <2>3. CASE ~(k > Len(p)) /\ p[k] = "]" /\ k > first
    <3>1. from[k] = {[list |-> <<>>, next |-> k + 1]}
      BY <2>1, <2>3 DEF ClassAt
    <3>2. \A m \in from[k] : m.next = k + 1
      BY <3>1
    <3> QED  BY <2>3, <3>2
  <2>4. CASE ~(k > Len(p)) /\ ~(p[k] = "]" /\ k > first)
    <3> DEFINE c == CharAt(p, k)
    <3>1. from[k] = {[list |-> <<c>> \o rest.list, next |-> rest.next] : rest \in from[c.next]}
      BY <2>1, <2>4 DEF ClassAt
    <3>2. c.next \in k + 1..Len(p) + 1
      BY <2>4, CharAtNext
    <3> HIDE DEF c
    <3>3. \A rest \in from[c.next] : rest.next \in c.next + 1..Len(p) + 1
      BY <1>1, <3>2
    <3>4. \A m \in from[k] : \E rest \in from[c.next] : m.next = rest.next
      BY <3>1
    <3> QED  BY <3>2, <3>3, <3>4
  <2> QED  BY <2>2, <2>3, <2>4
<1>2. \A k \in 1..N : (\A n \in k + 1..N : n \in Good) => k \in Good
  BY <1>1
<1>3. N \in Nat
  OBVIOUS
<1> HIDE DEF Good, N
<1>4. \A k \in 1..N : k \in Good
  BY <1>2, <1>3, Downwards
<1> QED  BY <1>4 DEF Good, N

(* What is read at a place ends after it.                                  *)
LEMMA SingleNext ==
  ASSUME NEW p, Len(p) \in Nat, NEW k \in 1..Len(p), NEW one \in Single(p, k)
  PROVE  /\ one.next \in k + 1..Len(p) + 1
         /\ \E set, outside : one.item = Item(set, outside)
PROOF
<1>1. CASE p[k] # "["
  <2>1. one = [item |-> Item({CharAt(p, k).char}, FALSE), next |-> CharAt(p, k).next]
    BY <1>1 DEF Single
  <2>2. one.next = CharAt(p, k).next /\ one.item = Item({CharAt(p, k).char}, FALSE)
    BY <2>1
  <2> QED  BY <2>2, CharAtNext
<1>2. CASE p[k] = "["
  <2> DEFINE negated == k < Len(p) /\ p[k + 1] = "!"
             first   == IF negated THEN k + 2 ELSE k + 1
  <2>1. \E m \in ClassMembers(p, first) :
          one = [item |-> Item(ClassSet(m.list), negated), next |-> m.next]
    BY <1>2 DEF Single
  <2>2. PICK m \in ClassMembers(p, first) :
          one = [item |-> Item(ClassSet(m.list), negated), next |-> m.next]
    BY <2>1
  <2>3. one.next = m.next /\ one.item = Item(ClassSet(m.list), negated)
    BY <2>2
  <2>4. first \in 1..Len(p) + 2 /\ first > k
    OBVIOUS
  <2>5. m.next \in first + 1..Len(p) + 1
    BY <2>4, ClassNext DEF ClassMembers
  <2> QED  BY <2>3, <2>4, <2>5
<1> QED  BY <1>1, <1>2

-----------------------------------------------------------------------------
(* The translation                                                         *)

(* The items that there can be for a pattern.                              *)
Singles(p) == UNION {Single(p, k) : k \in 1..Len(p)}

ItemsOf(p) ==
  {Star(d) : d \in BOOLEAN}
  \cup UNION {{Quantified(one.item, q) : one \in Singles(p)} : q \in {"?", "+", ""}}

LEMMA StarIsItem ==
  ASSUME NEW p, NEW double \in BOOLEAN
  PROVE  Star(double) \in ItemsOf(p)
PROOF
<1>1. Star(double) \in {Star(d) : d \in BOOLEAN}
  BY Zenon
<1> QED  BY <1>1, Zenon DEF ItemsOf

LEMMA QuantifiedIsItem ==
  ASSUME NEW p, NEW k \in 1..Len(p), NEW one \in Single(p, k), NEW q
  PROVE  Quantified(one.item, q) \in ItemsOf(p)
PROOF
<1>1. one \in Singles(p)
  BY DEF Singles
<1>2. ASSUME NEW r \in {"?", "+", ""}
      PROVE  Quantified(one.item, r) \in ItemsOf(p)
  <2>1. Quantified(one.item, r) \in {Quantified(o.item, r) : o \in Singles(p)}
    BY <1>1, Zenon
  <2> QED  BY <2>1, Zenon DEF ItemsOf
<1>3. q \in {"?", "+"} \/ Quantified(one.item, q) = Quantified(one.item, "")
  BY DEF Quantified
<1> QED  BY <1>2, <1>3

LEMMA AfterNext ==
  ASSUME NEW p, Len(p) \in Nat, NEW k \in 1..Len(p) + 1
  PROVE  After(p, k) \in k..Len(p) + 2
PROOF
BY DEF After, Quantifier

(* The four cases of the translation, of which each uses what follows.     *)
LEMMA ItemsAtIs ==
  ASSUME NEW p, Len(p) \in Nat, NEW k \in 1..Len(p) + 3, NEW from,
         \A m \in k + 1..Len(p) + 3 : from[m] \subseteq Seq(ItemsOf(p))
  PROVE  ItemsAt(p, k, from) \subseteq Seq(ItemsOf(p))
PROOF
<1> DEFINE T == ItemsOf(p)
<1>1. CASE k > Len(p)
  <2>1. ItemsAt(p, k, from) = {<<>>}
    BY <1>1 DEF ItemsAt
  <2>2. <<>> \in Seq(T)
    OBVIOUS
  <2> QED  BY <2>1, <2>2
<1>2. CASE k <= Len(p) /\ p[k] \in {"?", "+"}
  BY <1>2 DEF ItemsAt
<1>3. CASE k <= Len(p) /\ p[k] = "*"
  <2> DEFINE double == Quantifier(p, k + 1) = "*"
             next   == IF double THEN k + 2 ELSE k + 1
  <2>1. ItemsAt(p, k, from) = {<<Star(double)>> \o rest : rest \in from[next]}
    BY <1>1, <1>3 DEF ItemsAt
  <2>2. next \in k + 1..Len(p) + 3
    BY <1>3
  <2>5. Star(double) \in T
    <3>1. double \in BOOLEAN
      OBVIOUS
    <3> HIDE DEF double
    <3> QED  BY <3>1, StarIsItem
  <2> HIDE DEF T, double
  <2>3. from[next] \subseteq Seq(T)
    BY <2>2 DEF T
  <2> HIDE DEF next
  <2>4. \A rest \in from[next] : <<Star(double)>> \o rest \in Seq(T)
    BY <2>5, <2>3, Prepended
  <2> QED  BY <2>1, <2>4 DEF T
<1>4. CASE k <= Len(p) /\ p[k] \notin {"?", "+", "*"}
  <2> DEFINE item(one) == Quantified(one.item, Quantifier(p, one.next))
             next(one) == After(p, one.next)
  <2>1. ItemsAt(p, k, from) =
          UNION {{<<item(one)>> \o rest : rest \in from[next(one)]} : one \in Single(p, k)}
    <3>1. ~(k > Len(p)) /\ k <= Len(p)
      BY <1>4
    <3> QED  BY <1>4, <3>1, Zenon DEF ItemsAt
  <2>2. ASSUME NEW one \in Single(p, k)
        PROVE  next(one) \in k + 1..Len(p) + 3 /\ item(one) \in T
    <3>1. one.next \in k + 1..Len(p) + 1
      BY <1>4, SingleNext
    <3>2. After(p, one.next) \in one.next..Len(p) + 2
      BY <3>1, AfterNext
    <3>3. item(one) \in T
      BY <1>4, QuantifiedIsItem
    <3> QED  BY <3>1, <3>2, <3>3
  <2> HIDE DEF item, next, T
  <2>3. ASSUME NEW one \in Single(p, k), NEW rest \in from[next(one)]
        PROVE  <<item(one)>> \o rest \in Seq(T)
    <3>1. rest \in Seq(T) /\ item(one) \in T
      BY <2>2 DEF T
    <3> QED  BY <3>1, Prepended
  <2> SUFFICES ASSUME NEW items \in ItemsAt(p, k, from) PROVE items \in Seq(T)
    BY DEF T
  <2>4. PICK one \in Single(p, k) : \E rest \in from[next(one)] : items = <<item(one)>> \o rest
    BY <2>1
  <2> QED  BY <2>3, <2>4
<1> QED  BY <1>1, <1>2, <1>3, <1>4

LEMMA ItemsAtSame ==
  ASSUME NEW p, Len(p) \in Nat, NEW k \in 1..Len(p) + 3, NEW g, NEW h,
         \A m \in k + 1..Len(p) + 3 : g[m] = h[m]
  PROVE  ItemsAt(p, k, g) = ItemsAt(p, k, h)
PROOF
<1>1. CASE k > Len(p) \/ (k <= Len(p) /\ p[k] \in {"?", "+"})
  BY <1>1 DEF ItemsAt
<1>2. CASE k <= Len(p) /\ p[k] = "*"
  <2> DEFINE next == IF Quantifier(p, k + 1) = "*" THEN k + 2 ELSE k + 1
  <2>1. g[next] = h[next]
    BY <1>2
  <2>2. ~(k > Len(p)) /\ ~(p[k] \in {"?", "+"})
    BY <1>2
  <2> QED  BY <1>2, <2>1, <2>2 DEF ItemsAt
<1>3. CASE k <= Len(p) /\ p[k] \notin {"?", "+", "*"}
  <2>1. ASSUME NEW one \in Single(p, k)
        PROVE  g[After(p, one.next)] = h[After(p, one.next)]
    <3>1. one.next \in k + 1..Len(p) + 1
      BY <1>3, SingleNext
    <3>2. After(p, one.next) \in one.next..Len(p) + 2
      BY <3>1, AfterNext
    <3> QED  BY <3>1, <3>2
  <2> DEFINE Lists(one, f) ==
               {<<Quantified(one.item, Quantifier(p, one.next))>> \o rest : rest \in f[After(p, one.next)]}
  <2>2. ~(k > Len(p)) /\ k <= Len(p)
    BY <1>3
  <2>3. /\ ItemsAt(p, k, g) = UNION {Lists(one, g) : one \in Single(p, k)}
        /\ ItemsAt(p, k, h) = UNION {Lists(one, h) : one \in Single(p, k)}
    BY <1>3, <2>2, Zenon DEF ItemsAt
  <2>4. \A one \in Single(p, k) : Lists(one, g) = Lists(one, h)
    BY <2>1, Zenon
  <2> HIDE DEF Lists
  <2> QED  BY <2>3, <2>4
<1> QED  BY <1>1, <1>2, <1>3

LEMMA ItemsFromIs ==
  ASSUME NEW p, Len(p) \in Nat
  PROVE  \A k \in 1..Len(p) + 3 :
           /\ ItemsFrom(p)[k] = ItemsAt(p, k, ItemsFrom(p))
           /\ ItemsFrom(p)[k] \subseteq Seq(ItemsOf(p))
PROOF
<1> DEFINE N == Len(p) + 3
           V == SUBSET Seq(ItemsOf(p))
           Body(f) == [k \in 1..N |-> ItemsAt(p, k, f)]
           F == [f \in [1..N -> V] |-> Body(f)]
<1>1. ASSUME NEW f \in [1..N -> V], NEW k \in 1..N
      PROVE  ItemsAt(p, k, f) \in V
  <2>1. \A m \in k + 1..N : f[m] \subseteq Seq(ItemsOf(p))
    OBVIOUS
  <2> QED  BY <2>1, ItemsAtIs
<1>2. F \in [[1..N -> V] -> [1..N -> V]]
  BY <1>1
<1>3. ASSUME NEW g \in [1..N -> V], NEW h \in [1..N -> V], NEW k \in 1..N,
             \A m \in k + 1..N : g[m] = h[m]
      PROVE  F[g][k] = F[h][k]
  <2>1. ItemsAt(p, k, g) = ItemsAt(p, k, h)
    BY <1>3, ItemsAtSame
  <2> QED  BY <2>1
<1> HIDE DEF F
<1>4. \E f \in [1..N -> V] : f = F[f]
  <2>1. N \in Nat
    OBVIOUS
  <2>2. V # {}
    <3>1. {} \in V
      OBVIOUS
    <3> QED  BY <3>1
  <2>3. UsesLater(F, N, V)
    BY <1>2, <1>3 DEF UsesLater
  <2> HIDE DEF N, V
  <2> QED  BY <2>1, <2>2, <2>3, Recursion
<1>5. \E f : f = Body(f)
  BY <1>4 DEF F
<1>6. ItemsFrom(p) = CHOOSE f : f = Body(f)
  BY DEF ItemsFrom
<1> HIDE DEF Body
<1>7. ItemsFrom(p) = Body(ItemsFrom(p))
  BY <1>5, <1>6
<1> DEFINE from == ItemsFrom(p)
           Good == {k \in 1..N : from[k] \subseteq Seq(ItemsOf(p))}
<1>8. \A k \in 1..N : from[k] = ItemsAt(p, k, from)
  BY <1>7 DEF Body
<1> HIDE DEF from
<1>9. ASSUME NEW k \in 1..N, \A m \in k + 1..N : m \in Good
      PROVE  k \in Good
  <2>1. \A m \in k + 1..N : from[m] \subseteq Seq(ItemsOf(p))
    BY <1>9
  <2>2. ItemsAt(p, k, from) \subseteq Seq(ItemsOf(p))
    BY <2>1, ItemsAtIs
  <2> QED  BY <1>8, <2>2
<1>10. \A k \in 1..N : k \in Good
  <2>1. \A k \in 1..N : (\A m \in k + 1..N : m \in Good) => k \in Good
    BY <1>9
  <2>2. N \in Nat
    OBVIOUS
  <2> HIDE DEF Good, N
  <2> QED  BY <2>1, <2>2, Downwards
<1> QED  BY <1>8, <1>10 DEF from

-----------------------------------------------------------------------------
(* The reference                                                           *)

LEMMA DocumentedAtSame ==
  ASSUME NEW p, Len(p) \in Nat, NEW b, NEW k \in 1..Len(p) + 3, NEW g, NEW h,
         \A m \in k + 1..Len(p) + 3 : g[m] = h[m]
  PROVE  DocumentedAt(p, b, k, g) = DocumentedAt(p, b, k, h)
PROOF
<1>1. CASE k > Len(p) \/ (k <= Len(p) /\ p[k] \in {"?", "+"})
  BY <1>1 DEF DocumentedAt
<1>2. CASE k <= Len(p) /\ p[k] = "*"
  <2> DEFINE next == IF Quantifier(p, k + 1) = "*" THEN k + 2 ELSE k + 1
  <2>1. g[next] = h[next]
    BY <1>2
  <2> QED  BY <1>2, <2>1 DEF DocumentedAt
<1>3. CASE k <= Len(p) /\ p[k] \notin {"?", "+", "*"}
  <2>1. ASSUME NEW one \in Single(p, k)
        PROVE  g[After(p, one.next)] = h[After(p, one.next)]
    <3>1. one.next \in k + 1..Len(p) + 1
      BY <1>3, SingleNext
    <3>2. After(p, one.next) \in one.next..Len(p) + 2
      BY <3>1, AfterNext
    <3> QED  BY <3>1, <3>2
  <2> QED  BY <1>3, <2>1 DEF DocumentedAt
<1> QED  BY <1>1, <1>2, <1>3

LEMMA DocumentedFromIs ==
  ASSUME NEW p, Len(p) \in Nat, NEW b, Len(b) \in Nat
  PROVE  \A k \in 1..Len(p) + 3 :
           DocumentedFrom(p, b)[k] = DocumentedAt(p, b, k, DocumentedFrom(p, b))
PROOF
<1> DEFINE N == Len(p) + 3
           V == SUBSET (1..Len(b) + 1)
           Body(f) == [k \in 1..N |-> DocumentedAt(p, b, k, f)]
           F == [f \in [1..N -> V] |-> Body(f)]
<1>1. ASSUME NEW f, NEW k \in 1..N
      PROVE  DocumentedAt(p, b, k, f) \in V
  <2>1. CASE k > Len(p)
    BY <2>1 DEF DocumentedAt
  <2>2. CASE k <= Len(p) /\ p[k] \in {"?", "+"}
    BY <2>2 DEF DocumentedAt
  <2>3. CASE k <= Len(p) /\ p[k] = "*"
    BY <2>3 DEF DocumentedAt
  <2>4. CASE k <= Len(p) /\ p[k] \notin {"?", "+", "*"}
    BY <2>4 DEF DocumentedAt
  <2> QED  BY <2>1, <2>2, <2>3, <2>4
<1>2. F \in [[1..N -> V] -> [1..N -> V]]
  BY <1>1
<1>3. ASSUME NEW g \in [1..N -> V], NEW h \in [1..N -> V], NEW k \in 1..N,
             \A m \in k + 1..N : g[m] = h[m]
      PROVE  F[g][k] = F[h][k]
  <2>1. DocumentedAt(p, b, k, g) = DocumentedAt(p, b, k, h)
    BY <1>3, DocumentedAtSame
  <2> QED  BY <2>1
<1> HIDE DEF F
<1>4. \E f \in [1..N -> V] : f = F[f]
  <2>1. N \in Nat
    OBVIOUS
  <2>2. V # {}
    <3>1. {} \in V
      OBVIOUS
    <3> QED  BY <3>1
  <2>3. UsesLater(F, N, V)
    BY <1>2, <1>3 DEF UsesLater
  <2> HIDE DEF N, V
  <2> QED  BY <2>1, <2>2, <2>3, Recursion
<1>5. \E f : f = Body(f)
  BY <1>4 DEF F
<1>6. DocumentedFrom(p, b) = CHOOSE f : f = Body(f)
  BY DEF DocumentedFrom
<1> HIDE DEF Body
<1>7. DocumentedFrom(p, b) = Body(DocumentedFrom(p, b))
  BY <1>5, <1>6
<1> QED  BY <1>7 DEF Body

-----------------------------------------------------------------------------
(* An item takes what is documented of the character or of the star        *)

LEMMA StarTakes ==
  ASSUME NEW double \in BOOLEAN
  PROVE  /\ Star(double).low = 0 /\ Star(double).many = TRUE
         /\ \A c : Takes(Star(double), c) <=> (double \/ c # "/")
PROOF
<1> DEFINE none == IF double THEN {} ELSE {"/"}
<1> HIDE DEF none
<1>1. /\ Star(double).set = none
      /\ Star(double).outside = TRUE
      /\ Star(double).low = 0
      /\ Star(double).many = TRUE
  BY DEF Star, Item, none
<1>2. \A c : c \in none <=> ~double /\ c = "/"
  BY DEF none
<1>3. \A c : Takes(Star(double), c) <=> ((c \in none) # TRUE)
  BY <1>1 DEF Takes
<1> QED  BY <1>1, <1>2, <1>3

LEMMA QuantifiedTakes ==
  ASSUME NEW set, NEW outside, NEW q
  PROVE  LET item == Item(set, outside) IN
         /\ Quantified(item, q).low = IF q = "?" THEN 0 ELSE 1
         /\ Quantified(item, q).many = (q = "+")
         /\ \A c : Takes(Quantified(item, q), c) <=> Takes(item, c)
PROOF
<1> DEFINE item == Item(set, outside)
           low  == IF q = "?" THEN 0 ELSE 1
           many == q = "+"
<1> HIDE DEF low, many
<1>1. /\ Quantified(item, q).set = item.set
      /\ Quantified(item, q).outside = item.outside
      /\ Quantified(item, q).low = low
      /\ Quantified(item, q).many = many
  BY DEF Quantified, Item, low, many
<1>2. \A c : Takes(Quantified(item, q), c) <=> Takes(item, c)
  BY <1>1, Zenon DEF Takes
<1> QED  BY <1>1, <1>2 DEF low, many

LEMMA BeforeStar ==
  ASSUME NEW double \in BOOLEAN, NEW b, Len(b) \in Nat, NEW places
  PROVE  Before(Star(double), b, places) =
           {j \in 1..Len(b) + 1 : \E e \in j..Len(b) + 1 :
              /\ double \/ \A n \in j..e - 1 : b[n] # "/"
              /\ e \in places}
PROOF
<1> DEFINE item == Star(double)
<1>1. /\ item.low = 0 /\ item.many = TRUE
      /\ \A c : Takes(item, c) <=> (double \/ c # "/")
  BY StarTakes
<1> HIDE DEF item
<1>2. ASSUME NEW j \in 1..Len(b) + 1, j \in Before(item, b, places)
      PROVE  \E e \in j..Len(b) + 1 :
               /\ double \/ \A n \in j..e - 1 : b[n] # "/"
               /\ e \in places
  <2>1. PICK e \in j - 1 + item.low..Len(b) :
               /\ \A n \in j..e : Takes(item, b[n])
               /\ e + 1 \in places
    BY <1>2 DEF Before
  <2>2. e + 1 \in j..Len(b) + 1 /\ e + 1 - 1 = e
    BY <1>1, <2>1
  <2> QED  BY <1>1, <2>1, <2>2
<1>3. ASSUME NEW j \in 1..Len(b) + 1, NEW e \in j..Len(b) + 1,
             double \/ \A n \in j..e - 1 : b[n] # "/",
             e \in places
      PROVE  j \in Before(item, b, places)
  <2>1. e - 1 \in j - 1 + item.low..Len(b) /\ e - 1 + 1 = e
    BY <1>1
  <2>2. \A n \in j..e - 1 : Takes(item, b[n])
    BY <1>1, <1>3
  <2>3. e - 1 + 1 \in places
    BY <1>3, <2>1
  <2> QED  BY <1>1, <2>1, <2>2, <2>3 DEF Before
<1>4. Before(item, b, places) \subseteq 1..Len(b) + 1
  BY DEF Before
<1> QED  BY <1>2, <1>3, <1>4 DEF item

LEMMA BeforeQuantified ==
  ASSUME NEW set, NEW outside, NEW q, NEW b, Len(b) \in Nat, NEW places
  PROVE  Before(Quantified(Item(set, outside), q), b, places) =
           {j \in 1..Len(b) + 1 : \E e \in j..Len(b) + 1 :
              /\ Repeats(q, e - j)
              /\ \A n \in j..e - 1 : Takes(Item(set, outside), b[n])
              /\ e \in places}
PROOF
<1> DEFINE plain == Item(set, outside)
           item  == Quantified(plain, q)
<1>1. /\ item.low = IF q = "?" THEN 0 ELSE 1
      /\ item.many = (q = "+")
      /\ \A c : Takes(item, c) <=> Takes(plain, c)
  BY QuantifiedTakes
<1> HIDE DEF item, plain
<1>2. ASSUME NEW j \in 1..Len(b) + 1, j \in Before(item, b, places)
      PROVE  \E e \in j..Len(b) + 1 :
               /\ Repeats(q, e - j)
               /\ \A n \in j..e - 1 : Takes(plain, b[n])
               /\ e \in places
  <2>1. PICK e \in j - 1 + item.low..Len(b) :
               /\ e <= j \/ item.many
               /\ \A n \in j..e : Takes(item, b[n])
               /\ e + 1 \in places
    BY <1>2 DEF Before
  <2>2. item.low \in {0, 1}
    BY <1>1
  <2>3. e + 1 \in j..Len(b) + 1 /\ e + 1 - 1 = e
    BY <2>1, <2>2
  <2>4. Repeats(q, e + 1 - j)
    <3>1. CASE q = "?"
      <4>1. item.low = 0 /\ ~item.many
        BY <1>1, <3>1
      <4>2. e + 1 - j \in {0, 1}
        BY <2>1, <4>1
      <4> QED  BY <3>1, <4>2 DEF Repeats
    <3>2. CASE q = "+"
      <4>1. item.low = 1
        BY <1>1, <3>2
      <4>2. e + 1 - j >= 1
        BY <2>1, <4>1
      <4> QED  BY <3>2, <4>2 DEF Repeats
    <3>3. CASE q # "?" /\ q # "+"
      <4>1. item.low = 1 /\ ~item.many
        BY <1>1, <3>3
      <4>2. e + 1 - j = 1
        BY <2>1, <4>1
      <4> QED  BY <3>3, <4>2 DEF Repeats
    <3> QED  BY <3>1, <3>2, <3>3
  <2> QED  BY <1>1, <2>1, <2>3, <2>4
<1>3. ASSUME NEW j \in 1..Len(b) + 1, NEW e \in j..Len(b) + 1,
             Repeats(q, e - j),
             \A n \in j..e - 1 : Takes(plain, b[n]),
             e \in places
      PROVE  j \in Before(item, b, places)
  <2>1. e - 1 \in j - 1 + item.low..Len(b) /\ (e - 1 <= j \/ item.many)
    <3>1. CASE q = "?"
      BY <1>1, <1>3, <3>1 DEF Repeats
    <3>2. CASE q = "+"
      <4>1. item.low = 1 /\ item.many
        BY <1>1, <3>2
      <4>2. e - j >= 1
        BY <1>3, <3>2 DEF Repeats
      <4> QED  BY <4>1, <4>2
    <3>3. CASE q # "?" /\ q # "+"
      BY <1>1, <1>3, <3>3 DEF Repeats
    <3> QED  BY <3>1, <3>2, <3>3
  <2>2. \A n \in j..e - 1 : Takes(item, b[n])
    BY <1>1, <1>3
  <2>3. e - 1 + 1 \in places
    BY <1>3
  <2> QED  BY <2>1, <2>2, <2>3 DEF Before
<1>4. Before(item, b, places) \subseteq 1..Len(b) + 1
  BY DEF Before
<1> QED  BY <1>2, <1>3, <1>4 DEF item, plain

-----------------------------------------------------------------------------
(* The translation and the reference agree                                 *)

(* The places of a branch from where its rest matches one of `lists`.      *)
MatchedBy(lists, b) == UNION {MatchFrom(items, b)[1] : items \in lists}

LEMMA NothingLeft ==
  ASSUME NEW b, Len(b) \in Nat
  PROVE  MatchedBy({<<>>}, b) = {Len(b) + 1}
PROOF
<1> DEFINE none == <<>>
<1>1. Len(none) = 0
  OBVIOUS
<1> HIDE DEF none
<1>2. MatchFrom(none, b)[1] = MatchAt(none, b, 1, MatchFrom(none, b))
  <2>1. Len(none) \in Nat /\ 1 \in 1..Len(none) + 1
    BY <1>1
  <2> QED  BY <2>1, MatchFromIs, Zenon
<1>3. MatchFrom(none, b)[1] = {Len(b) + 1}
  BY <1>1, <1>2 DEF MatchAt
<1>4. MatchedBy({none}, b) = MatchFrom(none, b)[1]
  BY DEF MatchedBy
<1> QED  BY <1>3, <1>4 DEF none

(* Lists of items, each behind one more item.                              *)
Led(x, lists) == {<<x>> \o rest : rest \in lists}

(* What an item takes before any of some lists of items.                   *)
LEMMA MatchedAfter ==
  ASSUME NEW T, NEW x \in T, NEW lists, lists \subseteq Seq(T), NEW b, Len(b) \in Nat
  PROVE  MatchedBy(Led(x, lists), b) = Before(x, b, MatchedBy(lists, b))
PROOF
<1> DEFINE after == Led(x, lists)
<1>1. \A rest \in lists :
        MatchFrom(<<x>> \o rest, b)[1] = Before(x, b, MatchFrom(rest, b)[1])
  BY MatchFirst
<1>2. \A j : j \in MatchedBy(after, b) <=>
             \E rest \in lists : j \in MatchFrom(<<x>> \o rest, b)[1]
  BY Zenon DEF MatchedBy, Led
<1>3. \A j : j \in MatchedBy(lists, b) <=> \E rest \in lists : j \in MatchFrom(rest, b)[1]
  BY Zenon DEF MatchedBy
<1> HIDE DEF after
<1>4. \A j : j \in MatchedBy(after, b) <=>
             \E rest \in lists : j \in Before(x, b, MatchFrom(rest, b)[1])
  BY <1>1, <1>2, Zenon
<1>5. ASSUME NEW j
      PROVE  j \in Before(x, b, MatchedBy(lists, b)) <=>
             \E rest \in lists : j \in Before(x, b, MatchFrom(rest, b)[1])
  BY <1>3, Zenon DEF Before
<1> QED  BY <1>4, <1>5 DEF after


LEMMA MatchedByEither ==
  ASSUME NEW some, NEW b
  PROVE  MatchedBy(UNION some, b) = UNION {MatchedBy(lists, b) : lists \in some}
PROOF
<1>1. \A j : j \in MatchedBy(UNION some, b) <=>
             \E items \in UNION some : j \in MatchFrom(items, b)[1]
  BY Zenon DEF MatchedBy
<1>2. \A lists, j : j \in MatchedBy(lists, b) <=> \E items \in lists : j \in MatchFrom(items, b)[1]
  BY Zenon DEF MatchedBy
<1>3. \A j : j \in UNION {MatchedBy(lists, b) : lists \in some} <=>
             \E lists \in some : j \in MatchedBy(lists, b)
  BY Zenon
<1> QED  BY <1>1, <1>2, <1>3

(* From each place of the pattern on, both match from the same places of   *)
(* the branch.                                                             *)
LEMMA TranslationIsExact ==
  ASSUME NEW p, Len(p) \in Nat, NEW b, Len(b) \in Nat
  PROVE  \A k \in 1..Len(p) + 3 : MatchedBy(ItemsFrom(p)[k], b) = DocumentedFrom(p, b)[k]
PROOF
<1> DEFINE N == Len(p) + 3
           from == ItemsFrom(p)
           doc  == DocumentedFrom(p, b)
           Good == {k \in 1..N : MatchedBy(from[k], b) = doc[k]}
<1>1. /\ \A k \in 1..N : from[k] = ItemsAt(p, k, from) /\ from[k] \subseteq Seq(ItemsOf(p))
      /\ \A k \in 1..N : doc[k] = DocumentedAt(p, b, k, doc)
  BY ItemsFromIs, DocumentedFromIs
<1> HIDE DEF from, doc
<1>2. ASSUME NEW k \in 1..N, \A m \in k + 1..N : m \in Good
      PROVE  k \in Good
  <2>0. \A m \in k + 1..N : MatchedBy(from[m], b) = doc[m]
    BY <1>2
  <2> SUFFICES MatchedBy(ItemsAt(p, k, from), b) = DocumentedAt(p, b, k, doc)
    BY <1>1
  <2> HIDE DEF Good
  <2>1. CASE k > Len(p)
    <3>1. ItemsAt(p, k, from) = {<<>>} /\ DocumentedAt(p, b, k, doc) = {Len(b) + 1}
      BY <2>1 DEF ItemsAt, DocumentedAt
    <3> QED  BY <3>1, NothingLeft
  <2>2. CASE k <= Len(p) /\ p[k] \in {"?", "+"}
    <3>1. ItemsAt(p, k, from) = {} /\ DocumentedAt(p, b, k, doc) = {}
      BY <2>2 DEF ItemsAt, DocumentedAt
    <3> QED  BY <3>1, Zenon DEF MatchedBy
  <2>3. CASE k <= Len(p) /\ p[k] = "*"
    <3> DEFINE double == Quantifier(p, k + 1) = "*"
               next   == IF double THEN k + 2 ELSE k + 1
    <3>1. ItemsAt(p, k, from) = Led(Star(double), from[next])
      BY <2>3 DEF ItemsAt, Led
    <3>2. DocumentedAt(p, b, k, doc) =
            {j \in 1..Len(b) + 1 : \E e \in j..Len(b) + 1 :
               /\ double \/ \A n \in j..e - 1 : b[n] # "/"
               /\ e \in doc[next]}
      BY <2>3 DEF DocumentedAt
    <3>3. next \in k + 1..N
      BY <2>3
    <3>4. double \in BOOLEAN
      OBVIOUS
    <3> HIDE DEF next, double, N
    <3>5. MatchedBy(from[next], b) = doc[next] /\ from[next] \subseteq Seq(ItemsOf(p))
      BY <1>1, <2>0, <3>3 DEF N
    <3>6. Star(double) \in ItemsOf(p)
      BY <3>4, StarIsItem
    <3>7. MatchedBy(ItemsAt(p, k, from), b) = Before(Star(double), b, doc[next])
      <4>1. MatchedBy(Led(Star(double), from[next]), b) = Before(Star(double), b, MatchedBy(from[next], b))
        BY <3>5, <3>6, MatchedAfter
      <4> QED  BY <3>1, <3>5, <4>1
    <3> QED  BY <3>2, <3>4, <3>7, BeforeStar
  <2>4. CASE k <= Len(p) /\ p[k] \notin {"?", "+", "*"}
    <3> DEFINE q(one) == Quantifier(p, one.next)
               next(one) == After(p, one.next)
               Lists(one) == Led(Quantified(one.item, q(one)), from[next(one)])
               Fits(one, j, e) ==
                 /\ Repeats(q(one), e - j)
                 /\ \A n \in j..e - 1 : Takes(one.item, b[n])
                 /\ e \in doc[next(one)]
               Places(one) == {j \in 1..Len(b) + 1 : \E e \in j..Len(b) + 1 : Fits(one, j, e)}
    <3>0. ~(k > Len(p)) /\ k <= Len(p)
      BY <2>4
    <3>1. ItemsAt(p, k, from) = UNION {Lists(one) : one \in Single(p, k)}
      BY <2>4, <3>0, Zenon DEF ItemsAt, Led
    <3>2. DocumentedAt(p, b, k, doc) = UNION {Places(one) : one \in Single(p, k)}
      <4>1. DocumentedAt(p, b, k, doc) =
              {j \in 1..Len(b) + 1 : \E e \in j..Len(b) + 1 : \E one \in Single(p, k) :
                 Fits(one, j, e)}
        BY <2>4, <3>0, Zenon DEF DocumentedAt
      <4> HIDE DEF Fits
      <4>2. \A j : j \in UNION {Places(one) : one \in Single(p, k)} <=>
                   \E one \in Single(p, k) : j \in Places(one)
        BY Zenon
      <4> QED  BY <4>1, <4>2
    <3>3. ASSUME NEW one \in Single(p, k)
          PROVE  MatchedBy(Lists(one), b) = Places(one)
      <4>1. one.next \in k + 1..Len(p) + 1 /\ \E set, outside : one.item = Item(set, outside)
        BY <2>4, SingleNext
      <4>2. next(one) \in one.next..Len(p) + 2
        BY <4>1, AfterNext
      <4>3. next(one) \in k + 1..N
        BY <4>1, <4>2
      <4>4. Quantified(one.item, q(one)) \in ItemsOf(p)
        BY <2>4, QuantifiedIsItem
      <4> HIDE DEF q, next, N
      <4>5. MatchedBy(from[next(one)], b) = doc[next(one)] /\ from[next(one)] \subseteq Seq(ItemsOf(p))
        BY <1>1, <2>0, <4>3 DEF N
      <4>6. MatchedBy(Lists(one), b) = Before(Quantified(one.item, q(one)), b, doc[next(one)])
        <5>1. MatchedBy(Led(Quantified(one.item, q(one)), from[next(one)]), b) =
                Before(Quantified(one.item, q(one)), b, MatchedBy(from[next(one)], b))
          BY <4>4, <4>5, MatchedAfter
        <5> QED  BY <4>5, <5>1
      <4>7. PICK set, outside : one.item = Item(set, outside)
        BY <4>1
      <4> DEFINE r == q(one)
                 places == doc[next(one)]
      <4>8. Places(one) =
              {j \in 1..Len(b) + 1 : \E e \in j..Len(b) + 1 :
                 /\ Repeats(r, e - j)
                 /\ \A n \in j..e - 1 : Takes(Item(set, outside), b[n])
                 /\ e \in places}
        BY <4>7
      <4>9. MatchedBy(Lists(one), b) = Before(Quantified(Item(set, outside), r), b, places)
        BY <4>6, <4>7
      <4> HIDE DEF r, places, Places, Lists
      <4> QED  BY <4>8, <4>9, BeforeQuantified
    <3> HIDE DEF Lists, Places
    <3> DEFINE some == {Lists(one) : one \in Single(p, k)}
    <3>4. MatchedBy(UNION some, b) = UNION {MatchedBy(lists, b) : lists \in some}
      <4> HIDE DEF some
      <4> QED  BY MatchedByEither
    <3>5. {MatchedBy(lists, b) : lists \in some} = {Places(one) : one \in Single(p, k)}
      BY <3>3
    <3> QED  BY <3>1, <3>2, <3>4, <3>5
  <2> QED  BY <2>1, <2>2, <2>3, <2>4
<1>3. \A k \in 1..N : (\A m \in k + 1..N : m \in Good) => k \in Good
  BY <1>2
<1>4. N \in Nat
  OBVIOUS
<1> HIDE DEF Good, N
<1>5. \A k \in 1..N : k \in Good
  BY <1>3, <1>4, Downwards
<1> QED  BY <1>5 DEF Good, N, from, doc

(* branch_pattern_matches: whatever the pattern and the branch, the regular *)
(* expression that github_pattern_to_regex makes of the pattern matches the *)
(* branch exactly if the pattern, read as GitHub documents it, does.        *)
THEOREM PatternsAreExact ==
  ASSUME NEW p, Len(p) \in Nat, NEW b, Len(b) \in Nat
  PROVE  PatternMatches(p, b) <=> DocumentedMatch(p, b)
PROOF
<1>1. 1 \in 1..Len(p) + 3
  OBVIOUS
<1>2. MatchedBy(ItemsFrom(p)[1], b) = DocumentedFrom(p, b)[1]
  BY <1>1, TranslationIsExact
<1>3. PatternMatches(p, b) <=> 1 \in MatchedBy(ItemsFrom(p)[1], b)
  BY Zenon DEF PatternMatches, Items, ItemsMatch, MatchedBy
<1> QED  BY <1>2, <1>3 DEF DocumentedMatch

-----------------------------------------------------------------------------
(* Expressions                                                             *)

Mode == {"text", "expression", "literal"}

(* Each mode is what the token before it makes of the mode before.         *)
LEMMA ModesAre ==
  ASSUME NEW t, Len(t) \in Nat
  PROVE  /\ Modes(t) \in [1..Len(t) + 1 -> Mode]
         /\ Modes(t)[1] = "text"
         /\ \A k \in 1..Len(t) : Modes(t)[k + 1] = NextMode(Modes(t)[k], t[k])
PROOF
<1> DEFINE N == Len(t) + 1
           Body(f) == [k \in 1..N |-> ModeAt(t, k, f)]
           F == [f \in [1..N -> Mode] |-> Body(f)]
<1>1. \A mode \in Mode : \A token : NextMode(mode, token) \in Mode
  BY DEF NextMode, Mode
<1>2. ASSUME NEW f \in [1..N -> Mode], NEW k \in 1..N
      PROVE  ModeAt(t, k, f) \in Mode
  <2>1. CASE k = 1
    BY <2>1 DEF ModeAt, Mode
  <2>2. CASE k # 1
    <3>1. f[k - 1] \in Mode
      BY <2>2
    <3> QED  BY <1>1, <2>2, <3>1 DEF ModeAt
  <2> QED  BY <2>1, <2>2
<1>3. F \in [[1..N -> Mode] -> [1..N -> Mode]]
  BY <1>2
<1>4. ASSUME NEW g \in [1..N -> Mode], NEW h \in [1..N -> Mode], NEW k \in 1..N,
             \A m \in 1..k - 1 : g[m] = h[m]
      PROVE  F[g][k] = F[h][k]
  <2>1. k = 1 \/ g[k - 1] = h[k - 1]
    BY <1>4
  <2>2. ModeAt(t, k, g) = ModeAt(t, k, h)
    BY <2>1 DEF ModeAt
  <2> QED  BY <2>2
<1> HIDE DEF F
<1>5. \E f \in [1..N -> Mode] : f = F[f]
  <2>1. N \in Nat /\ Mode # {}
    BY DEF Mode
  <2>2. UsesEarlier(F, N, Mode)
    BY <1>3, <1>4 DEF UsesEarlier
  <2> HIDE DEF N
  <2> QED  BY <2>1, <2>2, RecursionUpwards
<1>6. \E f : f \in [1..N -> Mode] /\ f = Body(f)
  BY <1>5 DEF F
<1>7. Modes(t) = CHOOSE f : f = Body(f)
  BY DEF Modes
<1> HIDE DEF Body
<1>8. Modes(t) = Body(Modes(t))
  BY <1>6, <1>7
<1> DEFINE mode == Modes(t)
           Good == {k \in 1..N : mode[k] \in Mode}
<1>9. \A k \in 1..N : mode[k] = ModeAt(t, k, mode)
  BY <1>8 DEF Body
<1>10. mode[1] = "text"
  BY <1>9 DEF ModeAt
<1>11. ASSUME NEW k \in 1..Len(t) PROVE mode[k + 1] = NextMode(mode[k], t[k])
  <2>1. k + 1 \in 1..N /\ k + 1 # 1 /\ k + 1 - 1 = k
    OBVIOUS
  <2> HIDE DEF mode
  <2> QED  BY <1>9, <2>1 DEF ModeAt
<1>12. \A k \in 1..N : k \in Good
  <2>1. 1 \in Good
    BY <1>10 DEF Mode
  <2>2. \A k \in 1..N - 1 : k \in Good => k + 1 \in Good
    BY <1>1, <1>11
  <2>3. N \in Nat
    OBVIOUS
  <2> HIDE DEF N, Good
  <2> QED  BY <2>1, <2>2, <2>3, Upwards
<1>13. mode \in [1..N -> Mode]
  <2>1. mode = [k \in 1..N |-> ModeAt(t, k, mode)]
    BY <1>8 DEF Body
  <2>2. \A k \in 1..N : ModeAt(t, k, mode) \in Mode
    BY <1>9, <1>12
  <2> HIDE DEF mode
  <2> QED  BY <2>1, <2>2
<1> QED  BY <1>10, <1>11, <1>13

(* What is an expression from k on: the first, or one after its end.       *)
LEMMA InBlocks ==
  ASSUME NEW t, NEW k, NEW from, NEW e
  PROVE  e \in BlocksAt(t, k, from) <=>
           \E open \in FirstOf(t, "open", k) : \E close \in FirstOf(t, "close", open + 1) :
             e \in {SubSeq(t, open + 1, close - 1)} \cup from[close + 1]
PROOF
<1> DEFINE Closed(open) == UNION {{SubSeq(t, open + 1, close - 1)} \cup from[close + 1] :
                                    close \in FirstOf(t, "close", open + 1)}
<1>1. \A open : e \in Closed(open) <=> \E close \in FirstOf(t, "close", open + 1) :
                                         e \in {SubSeq(t, open + 1, close - 1)} \cup from[close + 1]
  BY Zenon
<1>2. BlocksAt(t, k, from) = UNION {Closed(open) : open \in FirstOf(t, "open", k)}
  BY Zenon DEF BlocksAt
<1> HIDE DEF Closed
<1>3. e \in BlocksAt(t, k, from) <=> \E open \in FirstOf(t, "open", k) : e \in Closed(open)
  BY <1>2, Zenon
<1> QED  BY <1>1, <1>3, Zenon

(* The expressions of a text are what their definition says.               *)
LEMMA BlocksFromIs ==
  ASSUME NEW t \in Seq(Tokens)
  PROVE  \A k \in 1..Len(t) + 1 : BlocksFrom(t)[k] = BlocksAt(t, k, BlocksFrom(t))
PROOF
<1> DEFINE N == Len(t) + 1
           Cut(i) == {SubSeq(t, i, j) : j \in 0..N}
           E == UNION {Cut(i) : i \in 1..N + 1}
           V == SUBSET E
           Body(f) == [k \in 1..N |-> BlocksAt(t, k, f)]
           F == [f \in [1..N -> V] |-> Body(f)]
<1>0. Len(t) \in Nat
  OBVIOUS
<1>1. ASSUME NEW f \in [1..N -> V], NEW k \in 1..N
      PROVE  BlocksAt(t, k, f) \in V
  <2> SUFFICES ASSUME NEW e \in BlocksAt(t, k, f) PROVE e \in E
    BY Zenon
  <2>0. \E open \in FirstOf(t, "open", k) : \E close \in FirstOf(t, "close", open + 1) :
               e \in {SubSeq(t, open + 1, close - 1)} \cup f[close + 1]
    BY InBlocks, Zenon
  <2>01. PICK open \in FirstOf(t, "open", k) : \E close \in FirstOf(t, "close", open + 1) :
               e \in {SubSeq(t, open + 1, close - 1)} \cup f[close + 1]
    BY Zenon, <2>0
  <2>00. PICK close \in FirstOf(t, "close", open + 1) :
               e \in {SubSeq(t, open + 1, close - 1)} \cup f[close + 1]
    BY Zenon, <2>01
  <2>1. open \in k..Len(t) /\ close \in open + 1..Len(t)
    BY DEF FirstOf
  <2>2. open + 1 \in 1..N + 1 /\ close - 1 \in 0..N /\ close + 1 \in 1..N
    BY <1>0, <2>1
  <2>3. f[close + 1] \in V
    BY <2>2, Zenon
  <2>4. SubSeq(t, open + 1, close - 1) \in E
    <3>1. SubSeq(t, open + 1, close - 1) \in Cut(open + 1)
      BY <2>2, Zenon
    <3> HIDE DEF Cut, N
    <3> QED  BY <2>2, <3>1
  <2>5. \A z \in f[close + 1] : z \in E
    BY <2>3, Zenon
  <2> HIDE DEF E
  <2>6. e \in {SubSeq(t, open + 1, close - 1)} \/ e \in f[close + 1]
    BY <2>00, Zenon
  <2> QED  BY <2>4, <2>5, <2>6
<1>2. F \in [[1..N -> V] -> [1..N -> V]]
  BY <1>1
<1>3. ASSUME NEW g \in [1..N -> V], NEW h \in [1..N -> V], NEW k \in 1..N,
             \A m \in k + 1..N : g[m] = h[m]
      PROVE  F[g][k] = F[h][k]
  <2>1. ASSUME NEW open \in FirstOf(t, "open", k), NEW close \in FirstOf(t, "close", open + 1)
        PROVE  g[close + 1] = h[close + 1]
    <3>1. open \in k..Len(t) /\ close \in open + 1..Len(t)
      BY DEF FirstOf
    <3>2. close + 1 \in k + 1..N
      BY <1>0, <3>1
    <3> QED  BY <1>3, <3>2
  <2>2. BlocksAt(t, k, g) = BlocksAt(t, k, h)
    BY <2>1 DEF BlocksAt
  <2> QED  BY <2>2
<1> HIDE DEF F
<1>4. \E f \in [1..N -> V] : f = F[f]
  <2>1. N \in Nat
    BY <1>0
  <2>2. V # {}
    BY {} \in V
  <2>3. UsesLater(F, N, V)
    BY <1>2, <1>3 DEF UsesLater
  <2> HIDE DEF N, V
  <2> QED  BY <2>1, <2>2, <2>3, Recursion
<1>5. \E f : f = Body(f)
  BY <1>4 DEF F
<1>6. BlocksFrom(t) = CHOOSE f : f = Body(f)
  BY DEF BlocksFrom
<1> HIDE DEF Body
<1>7. BlocksFrom(t) = Body(BlocksFrom(t))
  BY <1>5, <1>6
<1> QED  BY <1>7 DEF Body

(* So is what is left of an expression without its literals.               *)
LEMMA StrippedFromIs ==
  ASSUME NEW e \in Seq(Tokens)
  PROVE  \A k \in 1..Len(e) + 1 :
           /\ StrippedFrom(e)[k] = StrippedAt(e, k, StrippedFrom(e))
           /\ StrippedFrom(e)[k] \in [BOOLEAN -> Seq(Tokens)]
PROOF
<1> DEFINE N == Len(e) + 1
           V == [BOOLEAN -> Seq(Tokens)]
           Body(f) == [k \in 1..N |-> StrippedAt(e, k, f)]
           F == [f \in [1..N -> V] |-> Body(f)]
<1>0. Len(e) \in Nat /\ (\A k \in 1..Len(e) : e[k] \in Tokens) /\ "space" \in Tokens
  BY DEF Tokens
<1>1. ASSUME NEW f \in [1..N -> V], NEW k \in 1..N
      PROVE  StrippedAt(e, k, f) \in V
  <2> SUFFICES ASSUME NEW inString \in BOOLEAN
               PROVE  StrippedAt(e, k, f)[inString] \in Seq(Tokens)
    BY DEF StrippedAt
  <2>1. CASE k > Len(e)
    BY <2>1 DEF StrippedAt
  <2>2. CASE k <= Len(e)
    <3>0. ~(k > Len(e)) /\ e[k] \in Tokens /\ k + 1 \in 1..N
      BY <1>0, <2>2
    <3>1. \A s \in BOOLEAN : f[k + 1][s] \in Seq(Tokens)
      BY <3>0
    <3>2. \A s \in BOOLEAN : \A x \in Tokens : <<x>> \o f[k + 1][s] \in Seq(Tokens)
      BY <3>1, Prepended
    <3>3. StrippedAt(e, k, f)[inString] =
            IF inString THEN f[k + 1][e[k] # "quote"]
            ELSE IF e[k] = "quote" THEN <<"space">> \o f[k + 1][TRUE]
            ELSE <<e[k]>> \o f[k + 1][FALSE]
      BY <3>0, Zenon DEF StrippedAt
    <3> QED  BY <1>0, <3>0, <3>1, <3>2, <3>3
  <2> QED  BY <1>0, <2>1, <2>2
<1>2. F \in [[1..N -> V] -> [1..N -> V]]
  BY <1>1
<1>3. ASSUME NEW g \in [1..N -> V], NEW h \in [1..N -> V], NEW k \in 1..N,
             \A m \in k + 1..N : g[m] = h[m]
      PROVE  F[g][k] = F[h][k]
  <2>1. k > Len(e) \/ g[k + 1] = h[k + 1]
    BY <1>0, <1>3
  <2>2. StrippedAt(e, k, g) = StrippedAt(e, k, h)
    BY <2>1, Zenon DEF StrippedAt
  <2> QED  BY <2>2
<1> HIDE DEF F
<1>4. \E f \in [1..N -> V] : f = F[f]
  <2>1. N \in Nat
    BY <1>0
  <2>2. V # {}
    <3>1. <<>> \in Seq(Tokens)
      OBVIOUS
    <3>2. [s \in BOOLEAN |-> <<>>] \in V
      BY <3>1, Zenon
    <3> QED  BY <3>2
  <2>3. UsesLater(F, N, V)
    BY <1>2, <1>3 DEF UsesLater
  <2> HIDE DEF N, V
  <2> QED  BY <2>1, <2>2, <2>3, Recursion
<1>5. \E f : f = Body(f)
  BY <1>4 DEF F
<1>6. StrippedFrom(e) = CHOOSE f : f = Body(f)
  BY DEF StrippedFrom
<1> HIDE DEF Body
<1>7. StrippedFrom(e) = Body(StrippedFrom(e))
  BY <1>5, <1>6
<1> DEFINE from == StrippedFrom(e)
           Good == {k \in 1..N : from[k] \in V}
<1>8. \A k \in 1..N : from[k] = StrippedAt(e, k, from)
  BY <1>7 DEF Body
<1> HIDE DEF from
<1>9. ASSUME NEW k \in 1..N, \A m \in k + 1..N : m \in Good
      PROVE  k \in Good
  <2> DEFINE f == [m \in 1..N |-> IF m > k THEN from[m] ELSE [s \in BOOLEAN |-> <<>>]]
  <2>1. f \in [1..N -> V]
    BY <1>9
  <2>2. k > Len(e) \/ f[k + 1] = from[k + 1]
    BY <1>0
  <2> HIDE DEF f
  <2>3. StrippedAt(e, k, f) = StrippedAt(e, k, from)
    BY <2>2, Zenon DEF StrippedAt
  <2> QED  BY <1>1, <1>8, <2>1, <2>3
<1>10. \A k \in 1..N : k \in Good
  <2>1. \A k \in 1..N : (\A m \in k + 1..N : m \in Good) => k \in Good
    BY <1>9
  <2>2. N \in Nat
    BY <1>0
  <2> HIDE DEF Good, N
  <2> QED  BY <2>1, <2>2, Downwards
<1> QED  BY <1>8, <1>10 DEF from

(* There is no such token from a on, or there is one first.                *)
LEMMA FirstIsOne ==
  ASSUME NEW t, Len(t) \in Nat, NEW token, NEW a \in Nat \ {0}
  PROVE  \/ FirstOf(t, token, a) = {} /\ \A i \in a..Len(t) : t[i] # token
         \/ \E k \in a..Len(t) : /\ FirstOf(t, token, a) = {k} /\ t[k] = token
                                 /\ \A i \in a..k - 1 : t[i] # token
PROOF
<1> DEFINE Hits == {k \in a..Len(t) : t[k] = token}
<1>1. CASE Hits = {}
  BY <1>1 DEF FirstOf
<1>2. CASE Hits # {}
  <2>1. Hits \subseteq Nat
    OBVIOUS
  <2>2. PICK k \in Hits : \A m \in Hits : k <= m
    BY <1>2, <2>1, Least
  <2>3. \A i \in a..k - 1 : t[i] # token
    <3> SUFFICES ASSUME NEW i \in a..k - 1, t[i] = token PROVE FALSE
      OBVIOUS
    <3>1. i \in Hits /\ ~(k <= i)
      BY <2>2
    <3> QED  BY <2>2, <3>1
  <2>4. k \in FirstOf(t, token, a)
    BY <2>2, <2>3 DEF FirstOf
  <2>5. ASSUME NEW m \in FirstOf(t, token, a) PROVE m = k
    <3>1. m \in Hits /\ m \in a..Len(t) /\ \A i \in a..m - 1 : t[i] # token
      BY DEF FirstOf
    <3>2. k <= m /\ k \in a..Len(t) /\ t[k] = token
      BY <2>2, <3>1
    <3>3. ~(k < m)
      BY <3>1, <3>2
    <3> QED  BY <3>1, <3>2, <3>3
  <2> QED  BY <2>2, <2>3, <2>4, <2>5
<1> QED  BY <1>1, <1>2

(* A set of modes that no token of a stretch leaves is not left in it.     *)
LEMMA ModesStay ==
  ASSUME NEW t, Len(t) \in Nat, NEW M,
         NEW a \in 1..Len(t) + 1, NEW b \in a..Len(t) + 1, Modes(t)[a] \in M,
         \A i \in a..b - 1 : \A m \in M : NextMode(m, t[i]) \in M
  PROVE  \A i \in a..b : Modes(t)[i] \in M
PROOF
<1> DEFINE N == b - a + 1
           Good == {j \in 1..N : Modes(t)[a + j - 1] \in M}
<1>1. \A k \in 1..Len(t) : Modes(t)[k + 1] = NextMode(Modes(t)[k], t[k])
  BY ModesAre
<1>2. N \in Nat /\ 1 \in Good
  OBVIOUS
<1>3. ASSUME NEW j \in 1..N - 1, j \in Good PROVE j + 1 \in Good
  <2> DEFINE i == a + j - 1
  <2>1. i \in a..b - 1 /\ i \in 1..Len(t) /\ a + (j + 1) - 1 = i + 1 /\ j + 1 \in 1..N
    OBVIOUS
  <2>2. Modes(t)[i] \in M
    BY <1>3
  <2> HIDE DEF i
  <2>3. NextMode(Modes(t)[i], t[i]) \in M
    BY <2>1, <2>2
  <2>4. Modes(t)[i + 1] \in M
    BY <1>1, <2>1, <2>3
  <2> QED  BY <2>1, <2>4
<1>4. \A j \in 1..N : j \in Good
  <2>1. \A j \in 1..N - 1 : j \in Good => j + 1 \in Good
    BY <1>3
  <2> HIDE DEF N, Good
  <2> QED  BY <1>2, <2>1, Upwards
<1> SUFFICES ASSUME NEW i \in a..b PROVE Modes(t)[i] \in M
  OBVIOUS
<1>5. i - a + 1 \in 1..N /\ a + (i - a + 1) - 1 = i
  OBVIOUS
<1> QED  BY <1>4, <1>5

(* What follows `secrets` lets it be a context of its own.                 *)
Follows(r) == At(r, 1) \in Boundary \/ (At(r, 1) = "dot" /\ At(r, 2) \in Named)

(* `secrets` in an expression, as the code would have it of any text.      *)
Joined == Words \cup {"dot"}

SeenAt(t, k) ==
  /\ t[k] = "secrets" /\ Modes(t)[k] = "expression"
  /\ At(t, k - 1) \notin Joined
  /\ At(t, k + 1) \notin Joined \/ (At(t, k + 1) = "dot" /\ At(t, k + 2) \in Named)

(* s, which stands after prev, refers to a secret.                         *)
FoundIn(s, prev) ==
  \E k \in 1..Len(s) :
    /\ s[k] = "secrets"
    /\ (IF k = 1 THEN prev ELSE s[k - 1]) \in Boundary
    /\ At(s, k + 1) \in Boundary \/ (At(s, k + 1) = "dot" /\ At(s, k + 2) \in Named)

(* At the start of an expression nothing stands before.                    *)
LEMMA FoundIsReference ==
  ASSUME NEW e, Stripped(e) \in Seq(Tokens)
  PROVE  ReferencesSecret(e) <=> FoundIn(Stripped(e), "mark")
PROOF
<1> DEFINE s == Stripped(e)
<1>1. DOMAIN s = 1..Len(s) /\ Len(s) \in Nat
  OBVIOUS
<1> HIDE DEF s
<1>2. ASSUME NEW k \in 1..Len(s)
      PROVE  At(s, k - 1) = IF k = 1 THEN "mark" ELSE s[k - 1]
  BY <1>1 DEF At
<1>3. "mark" \in Boundary
  BY DEF Boundary, Tokens, Words
<1>4. ReferencesSecret(e) <=> \E k \in 1..Len(s) : MatchesAt(s, k)
  BY <1>1, Zenon DEF ReferencesSecret, s
<1>5. FoundIn(s, "mark") <=> \E k \in 1..Len(s) : MatchesAt(s, k)
  BY <1>2, Zenon DEF FoundIn, MatchesAt
<1> QED  BY <1>4, <1>5, Zenon DEF s

(* One more token in front: it is the use, or stands before the others.    *)
LEMMA FoundInPrepended ==
  ASSUME NEW x \in Tokens, NEW r \in Seq(Tokens), NEW prev
  PROVE  FoundIn(<<x>> \o r, prev) <=>
           (x = "secrets" /\ prev \in Boundary /\ Follows(r)) \/ FoundIn(r, x)
PROOF
<1> DEFINE s == <<x>> \o r
<1>1. /\ s \in Seq(Tokens) /\ Len(s) = Len(r) + 1 /\ s[1] = x /\ Len(r) \in Nat
      /\ \A k \in 1..Len(r) : s[k + 1] = r[k]
  OBVIOUS
<1>2. DOMAIN s = 1..Len(s) /\ DOMAIN r = 1..Len(r)
  BY <1>1
<1> HIDE DEF s
<1>3. \A k \in Nat \ {0} : At(s, k + 1) = At(r, k)
  BY <1>1, <1>2 DEF At
<1> DEFINE Here(k) == /\ s[k] = "secrets"
                      /\ (IF k = 1 THEN prev ELSE s[k - 1]) \in Boundary
                      /\ At(s, k + 1) \in Boundary \/ (At(s, k + 1) = "dot" /\ At(s, k + 2) \in Named)
           There(k) == /\ r[k] = "secrets"
                       /\ (IF k = 1 THEN x ELSE r[k - 1]) \in Boundary
                       /\ At(r, k + 1) \in Boundary \/ (At(r, k + 1) = "dot" /\ At(r, k + 2) \in Named)
<1>4. Here(1) <=> x = "secrets" /\ prev \in Boundary /\ Follows(r)
  <2>1. At(s, 1 + 1) = At(r, 1) /\ At(s, 1 + 2) = At(r, 2)
    BY <1>3
  <2> QED  BY <1>1, <2>1, Zenon DEF Follows
<1>5. ASSUME NEW k \in 1..Len(r) PROVE Here(k + 1) <=> There(k)
  <2>1. s[k + 1] = r[k] /\ k + 1 # 1
    BY <1>1
  <2>2. At(s, k + 1 + 1) = At(r, k + 1) /\ At(s, k + 1 + 2) = At(r, k + 2)
    <3>1. k + 1 \in Nat \ {0} /\ k + 2 \in Nat \ {0} /\ k + 1 + 2 = k + 2 + 1
      BY <1>1
    <3> QED  BY <1>3, <3>1, Zenon
  <2>3. (IF k + 1 = 1 THEN prev ELSE s[k + 1 - 1]) = IF k = 1 THEN x ELSE r[k - 1]
    <3>1. k + 1 - 1 = k /\ (k = 1 \/ (k - 1 \in 1..Len(r) /\ k - 1 + 1 = k))
      BY <1>1
    <3>2. s[k + 1 - 1] = IF k = 1 THEN x ELSE r[k - 1]
      BY <1>1, <3>1
    <3> QED  BY <2>1, <3>2, Zenon
  <2> QED  BY <2>1, <2>2, <2>3
<1>6. FoundIn(s, prev) <=> \E k \in 1..Len(s) : Here(k)
  BY Zenon DEF FoundIn
<1>7. FoundIn(r, x) <=> \E k \in 1..Len(r) : There(k)
  BY Zenon DEF FoundIn
<1> HIDE DEF Here, There
<1>8. (\E k \in 1..Len(s) : Here(k)) <=> Here(1) \/ \E k \in 1..Len(r) : There(k)
  <2>1. 1 \in 1..Len(s) /\ \A k \in 1..Len(r) : k + 1 \in 1..Len(s)
    BY <1>1
  <2>2. \A k \in 1..Len(s) : k = 1 \/ (k - 1 \in 1..Len(r) /\ k - 1 + 1 = k)
    BY <1>1
  <2>3. ASSUME NEW k \in 1..Len(s), Here(k) PROVE Here(1) \/ \E m \in 1..Len(r) : There(m)
    <3>1. CASE k = 1
      BY <2>3, <3>1
    <3>2. CASE k - 1 \in 1..Len(r) /\ k - 1 + 1 = k
      <4>1. There(k - 1)
        BY <1>5, <2>3, <3>2
      <4> QED  BY <3>2, <4>1
    <3> QED  BY <2>2, <3>1, <3>2
  <2>4. ASSUME NEW m \in 1..Len(r), There(m) PROVE \E k \in 1..Len(s) : Here(k)
    BY <1>5, <2>1, <2>4
  <2> QED  BY <2>1, <2>3, <2>4
<1> QED  BY <1>4, <1>6, <1>7, <1>8, Zenon DEF s

(* An expression of a text: what stands between an `${{` at o and the next *)
(* `}}`, at c, which is in no literal.                                     *)
Expression(t, o, c) ==
  /\ t \in Seq(Tokens) /\ o \in 1..Len(t) /\ c \in o + 1..Len(t)
  /\ t[o] = "open" /\ t[c] = "close" /\ Modes(t)[o] = "text" /\ Modes(t)[c] = "expression"
  /\ \A i \in o + 1..c - 1 : t[i] # "close"

(* Inside of an expression every mode is that of it or of a literal.       *)
LEMMA InsideExpression ==
  ASSUME NEW t, NEW o, NEW c, Expression(t, o, c)
  PROVE  /\ Modes(t)[o + 1] = "expression" /\ \A i \in o + 1..c : Modes(t)[i] \in {"expression", "literal"}
PROOF
<1>1. /\ Len(t) \in Nat /\ o \in 1..Len(t) /\ c \in o + 1..Len(t) /\ t[o] = "open"
      /\ \A k \in 1..Len(t) : Modes(t)[k + 1] = NextMode(Modes(t)[k], t[k])
  BY ModesAre DEF Expression
<1>2. Modes(t)[o + 1] = "expression"
  <2>1. Modes(t)[o + 1] = NextMode("text", "open")
    BY <1>1 DEF Expression
  <2> QED  BY <2>1 DEF NextMode
<1> DEFINE M == {"expression", "literal"}
<1>3. \A i \in o + 1..c - 1 : \A m \in M : NextMode(m, t[i]) \in M
  <2>1. \A i \in o + 1..c - 1 : t[i] # "close"
    BY DEF Expression
  <2>2. \A token : token # "close" => \A m \in M : NextMode(m, token) \in M
    BY DEF NextMode
  <2> QED  BY <2>1, <2>2
<1>4. o + 1 \in 1..Len(t) + 1 /\ c \in o + 1..Len(t) + 1 /\ Modes(t)[o + 1] \in M
  BY <1>1, <1>2
<1> HIDE DEF M
<1>5. \A i \in o + 1..c : Modes(t)[i] \in M
  BY <1>1, <1>3, <1>4, ModesStay
<1> QED  BY <1>2, <1>5 DEF M

(* Without its literals an expression has `secrets` on its own exactly if  *)
(* the text has it where no literal is: after each token, what is left     *)
(* still says so, if what stands before it is taken for what it is.        *)
LEMMA ReferencesAreUses ==
  ASSUME NEW t, NEW o, NEW c, Expression(t, o, c)
  PROVE  ReferencesSecret(SubSeq(t, o + 1, c - 1)) <=> \E i \in o + 1..c - 1 : SeenAt(t, i)
PROOF
<1> DEFINE e == SubSeq(t, o + 1, c - 1)
           L == c - o - 1
<1>1. /\ t \in Seq(Tokens) /\ Len(t) \in Nat /\ o \in 1..Len(t) /\ c \in o + 1..Len(t)
      /\ t[o] = "open" /\ t[c] = "close" /\ Modes(t)[c] = "expression"
      /\ \A i \in o + 1..c - 1 : t[i] # "close"
  BY DEF Expression
<1>2. e \in Seq(Tokens) /\ Len(e) = L /\ L \in Nat /\ \A j \in 1..L : e[j] = t[o + j]
  BY <1>1
<1> DEFINE mode == Modes(t)
           from == StrippedFrom(e)
           S(j) == from[j][mode[o + j] = "literal"]
<1>3. mode[o + 1] = "expression" /\ \A j \in 1..L + 1 : mode[o + j] \in {"expression", "literal"}
  <2>1. \A j \in 1..L + 1 : o + j \in o + 1..c
    BY <1>1, <1>2
  <2> QED  BY <2>1, InsideExpression
<1>4. \A j \in 1..L : mode[o + j + 1] = NextMode(mode[o + j], e[j])
  <2>1. \A k \in 1..Len(t) : Modes(t)[k + 1] = NextMode(Modes(t)[k], t[k])
    BY <1>1, ModesAre
  <2>2. \A j \in 1..L : o + j \in 1..Len(t)
    BY <1>1, <1>2
  <2> QED  BY <1>2, <2>1, <2>2
<1>5. \A j \in 1..L : o + j \in o + 1..c - 1 /\ e[j] # "close" /\ e[j] \in Tokens
  BY <1>1, <1>2
<1>6. \A j \in 1..L + 1 : from[j] = StrippedAt(e, j, from) /\ from[j] \in [BOOLEAN -> Seq(Tokens)]
  BY <1>2, StrippedFromIs
<1>7. Stripped(e) = S(1)
  BY <1>3 DEF Stripped
<1> HIDE DEF e, mode, from
<1>8. \A j \in 1..L + 1 : S(j) \in Seq(Tokens)
  BY <1>6
<1>9. S(L + 1) = <<>>
  <2>1. L + 1 \in 1..L + 1 /\ L + 1 > Len(e)
    BY <1>2
  <2>2. from[L + 1] = [inString \in BOOLEAN |-> <<>>]
    BY <1>6, <2>1, Zenon DEF StrippedAt
  <2> QED  BY <2>2
<1>10. ASSUME NEW j \in 1..L
       PROVE  /\ mode[o + j] = "literal" =>
                   S(j) = S(j + 1) /\ (mode[o + j + 1] = "expression" <=> e[j] = "quote")
              /\ mode[o + j] = "expression" /\ e[j] = "quote" =>
                   S(j) = <<"space">> \o S(j + 1) /\ mode[o + j + 1] = "literal"
              /\ mode[o + j] = "expression" /\ e[j] # "quote" =>
                   S(j) = <<e[j]>> \o S(j + 1) /\ mode[o + j + 1] = "expression"
  <2>1. j \in 1..L + 1 /\ ~(j > Len(e)) /\ o + (j + 1) = o + j + 1
    BY <1>1, <1>2
  <2>2. from[j] = [inString \in BOOLEAN |->
                     IF inString THEN from[j + 1][e[j] # "quote"]
                     ELSE IF e[j] = "quote" THEN <<"space">> \o from[j + 1][TRUE]
                     ELSE <<e[j]>> \o from[j + 1][FALSE]]
    BY <1>6, <2>1, Zenon DEF StrippedAt
  <2>3. mode[o + j + 1] = NextMode(mode[o + j], e[j]) /\ e[j] # "close"
    BY <1>4, <1>5
  <2>4. S(j + 1) = from[j + 1][mode[o + j + 1] = "literal"]
    BY <2>1
  <2>5. CASE mode[o + j] = "literal"
    <3>1. S(j) = from[j + 1][e[j] # "quote"]
      BY <2>2, <2>5
    <3>2. mode[o + j + 1] = IF e[j] = "quote" THEN "expression" ELSE "literal"
      BY <2>3, <2>5 DEF NextMode
    <3>3. (mode[o + j + 1] = "literal") = (e[j] # "quote")
      BY <3>2
    <3>4. S(j) = S(j + 1)
      BY <2>4, <3>1, <3>3
    <3> QED  BY <2>5, <3>2, <3>4
  <2>6. CASE mode[o + j] = "expression" /\ e[j] = "quote"
    <3>1. S(j) = <<"space">> \o from[j + 1][TRUE]
      BY <2>2, <2>6
    <3>2. mode[o + j + 1] = "literal"
      BY <2>3, <2>6 DEF NextMode
    <3>3. S(j + 1) = from[j + 1][TRUE]
      BY <2>4, <3>2
    <3> QED  BY <2>6, <3>1, <3>2, <3>3
  <2>7. CASE mode[o + j] = "expression" /\ e[j] # "quote"
    <3>1. S(j) = <<e[j]>> \o from[j + 1][FALSE]
      BY <2>2, <2>7
    <3>2. mode[o + j + 1] = "expression"
      BY <2>3, <2>7 DEF NextMode
    <3>3. S(j + 1) = from[j + 1][FALSE]
      BY <2>4, <3>2
    <3> QED  BY <2>7, <3>1, <3>2, <3>3
  <2> QED  BY <1>3, <2>1, <2>5, <2>6, <2>7
<1> HIDE DEF S, L
<1> DEFINE Foremost(j) == At(S(j), 1)
<1>11. ASSUME NEW j \in 1..L + 1, mode[o + j] = "expression"
       PROVE  /\ Foremost(j) \in Boundary <=> At(t, o + j) \notin Joined
              /\ Foremost(j) = "dot" <=> At(t, o + j) = "dot"
              /\ Foremost(j) \in Named <=> At(t, o + j) \in Named
  <2>1. At(t, o + j) = t[o + j]
    <3>1. o + j \in 1..Len(t) /\ DOMAIN t = 1..Len(t)
      BY <1>1 DEF L
    <3> QED  BY <3>1 DEF At
  <2>2. CASE j = L + 1
    <3>1. t[o + j] = "close"
      BY <1>1, <2>2 DEF L
    <3>2. Foremost(j) = "mark"
      BY <1>9, <2>2 DEF At
    <3> QED  BY <2>1, <3>1, <3>2 DEF Boundary, Joined, Tokens, Words, Named
  <2>3. CASE j \in 1..L /\ e[j] = "quote"
    <3>1. S(j) = <<"space">> \o S(j + 1) /\ j + 1 \in 1..L + 1
      <4>1. S(j) = <<"space">> \o S(j + 1)
        BY <1>10, <1>11, <2>3
      <4>2. j + 1 \in 1..L + 1
        BY <1>2, <2>3
      <4> QED  BY <4>1, <4>2
    <3>2. Foremost(j) = "space"
      <4>1. S(j + 1) \in Seq(Tokens)
        BY <1>8, <3>1
      <4> DEFINE r == S(j + 1)
      <4> HIDE DEF r
      <4>2. At(<<"space">> \o r, 1) = "space"
        BY <4>1 DEF At, r
      <4> QED  BY <3>1, <4>2 DEF r
    <3>3. t[o + j] = "quote"
      BY <1>2, <2>3
    <3> QED  BY <2>1, <3>2, <3>3 DEF Boundary, Joined, Tokens, Words, Named
  <2>4. CASE j \in 1..L /\ e[j] # "quote"
    <3>1. S(j) = <<e[j]>> \o S(j + 1) /\ j + 1 \in 1..L + 1
      BY <1>2, <1>10, <1>11, <2>4
    <3>2. Foremost(j) = e[j]
      <4>1. S(j + 1) \in Seq(Tokens)
        BY <1>8, <3>1
      <4> DEFINE r == S(j + 1)
      <4> HIDE DEF r
      <4>2. At(<<e[j]>> \o r, 1) = e[j]
        <5>1. Len(<<e[j]>> \o r) = Len(r) + 1 /\ Len(r) \in Nat /\ (<<e[j]>> \o r)[1] = e[j]
          BY <4>1 DEF r
        <5>2. 1 \in DOMAIN (<<e[j]>> \o r)
          BY <4>1 DEF r
        <5> QED  BY <5>1, <5>2 DEF At
      <4> QED  BY <3>1, <4>2 DEF r
    <3>3. t[o + j] = e[j] /\ e[j] \in Tokens
      BY <1>2, <1>5, <2>4
    <3> QED  BY <2>1, <3>2, <3>3 DEF Boundary, Joined, Tokens, Words
  <2> QED  BY <1>2, <2>2, <2>3, <2>4
<1>12. ASSUME NEW j \in 1..L + 1, mode[o + j] = "expression"
       PROVE  Follows(S(j)) <=>
                At(t, o + j) \notin Joined \/ (At(t, o + j) = "dot" /\ At(t, o + j + 1) \in Named)
  <2>1. CASE At(t, o + j) # "dot"
    BY <1>11, <1>12, <2>1 DEF Follows
  <2>2. CASE At(t, o + j) = "dot"
    <3>1. j \in 1..L /\ e[j] = "dot"
      <4>1. o + j \in 1..Len(t) /\ DOMAIN t = 1..Len(t) /\ t[o + L + 1] = "close"
        BY <1>1 DEF L
      <4>2. t[o + j] = "dot"
        BY <2>2, <4>1 DEF At
      <4>3. j # L + 1
        <5>1. CASE j = L + 1
          <6>1. o + j = o + L + 1
            BY <1>1, <1>2, <5>1
          <6> QED  BY <4>1, <4>2, <6>1
        <5> QED  BY <5>1
      <4> QED  BY <1>2, <4>2, <4>3
    <3>2. S(j) = <<"dot">> \o S(j + 1) /\ mode[o + j + 1] = "expression"
      BY <1>10, <1>12, <3>1
    <3>3. j + 1 \in 1..L + 1 /\ o + (j + 1) = o + j + 1
      BY <1>1, <1>2, <3>1
    <3>4. Foremost(j + 1) \in Named <=> At(t, o + j + 1) \in Named
      BY <1>11, <3>2, <3>3
    <3>5. At(S(j), 1) = "dot" /\ At(S(j), 2) = At(S(j + 1), 1)
      <4>1. S(j + 1) \in Seq(Tokens)
        BY <1>8, <3>3
      <4> DEFINE r == S(j + 1)
                 s == <<"dot">> \o r
      <4>2. r \in Seq(Tokens)
        BY <4>1
      <4> HIDE DEF r
      <4>3. Len(s) = Len(r) + 1 /\ Len(r) \in Nat /\ s[1] = "dot" /\ (1 \in 1..Len(r) => s[2] = r[1])
        BY <4>2
      <4>4. DOMAIN s = 1..Len(s) /\ DOMAIN r = 1..Len(r)
        BY <4>2
      <4> HIDE DEF s
      <4>5. At(s, 1) = "dot" /\ At(s, 2) = At(r, 1)
        BY <4>3, <4>4 DEF At
      <4> QED  BY <3>2, <4>5, Zenon DEF r, s
    <3> QED  BY <2>2, <3>4, <3>5 DEF Follows, Boundary, Joined, Words
  <2> QED  BY <2>1, <2>2
<1> DEFINE Consistent(j, prev) ==
             IF mode[o + j] = "literal" THEN prev \in Boundary
             ELSE prev \in Boundary <=> At(t, o + j - 1) \notin Joined
           Uses(j) == \E i \in j..L : SeenAt(t, o + i)
           Good == {j \in 1..L + 1 : \A prev \in Tokens :
                      Consistent(j, prev) => (FoundIn(S(j), prev) <=> Uses(j))}
<1>13. ASSUME NEW j \in 1..L PROVE Uses(j) <=> SeenAt(t, o + j) \/ Uses(j + 1)
  <2>1. j \in j..L /\ j + 1..L \subseteq j..L /\ \A i \in j..L : i = j \/ i \in j + 1..L
    BY <1>2
  <2> QED  BY <2>1
<1>14. ASSUME NEW j \in 1..L
       PROVE  /\ o + j \in DOMAIN t /\ At(t, o + j) = e[j] /\ t[o + j] = e[j]
              /\ j + 1 \in 1..L + 1 /\ o + (j + 1) = o + j + 1 /\ o + (j + 1) - 1 = o + j
  <2>1. o + j \in 1..Len(t) /\ DOMAIN t = 1..Len(t)
    BY <1>1, <1>2 DEF L
  <2>2. t[o + j] = e[j]
    BY <1>2
  <2> QED  BY <1>1, <1>2, <2>1, <2>2 DEF At
<1>15. ASSUME NEW j \in 1..L + 1, \A m \in j + 1..L + 1 : m \in Good
       PROVE  j \in Good
  <2>0. SUFFICES ASSUME NEW prev \in Tokens, Consistent(j, prev)
                 PROVE  FoundIn(S(j), prev) <=> Uses(j)
    OBVIOUS
  <2>1. CASE j = L + 1
    <3>1. ~Uses(j)
      BY <1>2, <2>1
    <3>2. Len(S(j)) = 0
      BY <1>9, <2>1
    <3>3. ~FoundIn(S(j), prev)
      BY <3>2 DEF FoundIn
    <3> QED  BY <3>1, <3>3
  <2>2. CASE j \in 1..L
    <3>1. j + 1 \in Good
      <4>1. j + 1 \in j + 1..L + 1
        BY <1>2, <2>2
      <4> HIDE DEF Good
      <4> QED  BY <1>15, <4>1
    <3>2. \A p \in Tokens : Consistent(j + 1, p) => (FoundIn(S(j + 1), p) <=> Uses(j + 1))
      BY <3>1
    <3>3. Uses(j) <=> SeenAt(t, o + j) \/ Uses(j + 1)
      BY <1>13, <2>2
    <3>4. /\ At(t, o + j) = e[j] /\ t[o + j] = e[j] /\ e[j] \in Tokens
          /\ o + (j + 1) = o + j + 1 /\ o + (j + 1) - 1 = o + j /\ j + 1 \in 1..L + 1
      BY <1>5, <1>14, <2>2
    <3>5. Consistent(j + 1, e[j]) <=>
            IF mode[o + j + 1] = "literal" THEN e[j] \in Boundary ELSE e[j] \in Boundary <=> e[j] \notin Joined
      BY <3>4
    <3> HIDE DEF Uses
    <3>6. CASE mode[o + j] = "literal"
      <4>1. S(j) = S(j + 1) /\ (mode[o + j + 1] = "expression" <=> e[j] = "quote")
        BY <1>10, <2>2, <3>6
      <4>2. ~SeenAt(t, o + j)
        BY <3>6 DEF SeenAt, mode
      <4>3. prev \in Boundary
        BY <2>0, <3>6
      <4>4. mode[o + j + 1] \in {"expression", "literal"}
        BY <1>3, <3>4
      <4>5. Consistent(j + 1, prev)
        BY <3>4, <4>1, <4>3, <4>4 DEF Joined, Words
      <4> QED  BY <3>2, <3>3, <4>1, <4>2, <4>5
    <3>7. CASE mode[o + j] = "expression" /\ e[j] = "quote"
      <4>1. S(j) = <<"space">> \o S(j + 1) /\ mode[o + j + 1] = "literal"
        BY <1>10, <2>2, <3>7
      <4>2. ~SeenAt(t, o + j)
        BY <3>4, <3>7 DEF SeenAt
      <4>3. "space" \in Tokens /\ Consistent(j + 1, "space")
        BY <3>4, <4>1 DEF Tokens, Boundary, Words
      <4>4. FoundIn(S(j), prev) <=> FoundIn(S(j + 1), "space")
        <5>1. S(j + 1) \in Seq(Tokens)
          BY <1>8, <3>4
        <5> DEFINE r == S(j + 1)
        <5>2. r \in Seq(Tokens)
          BY <5>1
        <5> HIDE DEF r
        <5>3. FoundIn(<<"space">> \o r, prev) <=> FoundIn(r, "space")
          BY <4>3, <5>2, FoundInPrepended
        <5> QED  BY <4>1, <5>3, Zenon DEF r
      <4> QED  BY <3>2, <3>3, <4>2, <4>3, <4>4
    <3>8. CASE mode[o + j] = "expression" /\ e[j] # "quote"
      <4>1. S(j) = <<e[j]>> \o S(j + 1) /\ mode[o + j + 1] = "expression"
        BY <1>10, <2>2, <3>8
      <4>2. Consistent(j + 1, e[j])
        <5>1. e[j] \in Boundary <=> e[j] \notin Joined
          BY <3>4 DEF Boundary, Joined, Tokens, Words
        <5> QED  BY <3>5, <4>1, <5>1
      <4>3. FoundIn(S(j), prev) <=>
              (e[j] = "secrets" /\ prev \in Boundary /\ Follows(S(j + 1))) \/ FoundIn(S(j + 1), e[j])
        <5>1. S(j + 1) \in Seq(Tokens)
          BY <1>8, <3>4
        <5> DEFINE r == S(j + 1)
                   x == e[j]
        <5>2. r \in Seq(Tokens) /\ x \in Tokens
          BY <3>4, <5>1
        <5> HIDE DEF r, x
        <5>3. FoundIn(<<x>> \o r, prev) <=> (x = "secrets" /\ prev \in Boundary /\ Follows(r)) \/ FoundIn(r, x)
          BY <5>2, FoundInPrepended
        <5> QED  BY <4>1, <5>3, Zenon DEF r, x
      <4>4. Follows(S(j + 1)) <=> \/ At(t, o + j + 1) \notin Joined
                                  \/ At(t, o + j + 1) = "dot" /\ At(t, o + j + 2) \in Named
        <5>1. o + (j + 1) = o + j + 1 /\ o + (j + 1) + 1 = o + j + 2 /\ j + 1 \in 1..L + 1
          BY <1>1, <3>4
        <5>2. mode[o + (j + 1)] = "expression"
          BY <4>1, <5>1
        <5> QED  BY <1>12, <5>1, <5>2
      <4>5. prev \in Boundary <=> At(t, o + j - 1) \notin Joined
        BY <2>0, <3>8
      <4>6. SeenAt(t, o + j) <=> e[j] = "secrets" /\ prev \in Boundary /\ Follows(S(j + 1))
        <5>1. SeenAt(t, o + j) <=>
                /\ t[o + j] = "secrets" /\ mode[o + j] = "expression"
                /\ At(t, (o + j) - 1) \notin Joined
                /\ At(t, o + j + 1) \notin Joined \/ (At(t, o + j + 1) = "dot" /\ At(t, o + j + 2) \in Named)
          <6> DEFINE i == o + j
          <6> HIDE DEF i
          <6>1. SeenAt(t, i) <=>
                  /\ t[i] = "secrets" /\ mode[i] = "expression"
                  /\ At(t, i - 1) \notin Joined
                  /\ At(t, i + 1) \notin Joined \/ (At(t, i + 1) = "dot" /\ At(t, i + 2) \in Named)
            BY DEF SeenAt, mode
          <6> QED  BY <6>1, Zenon DEF i
        <5>2. t[o + j] = e[j] /\ mode[o + j] = "expression"
          BY <3>4, <3>8
        <5>3. o + j - 1 = (o + j) - 1
          BY <1>1, <2>2
        <5> QED  BY <4>4, <4>5, <5>1, <5>2, <5>3, Zenon
      <4> QED  BY <3>2, <3>3, <3>4, <4>2, <4>3, <4>6
    <3> QED  BY <1>3, <2>2, <3>6, <3>7, <3>8
  <2> QED  BY <1>2, <2>1, <2>2
<1>16. 1 \in Good
  <2>1. \A j \in 1..L + 1 : (\A m \in j + 1..L + 1 : m \in Good) => j \in Good
    BY <1>15
  <2>2. L + 1 \in Nat /\ 1 \in 1..L + 1
    BY <1>2
  <2> DEFINE M == L + 1
  <2>3. M \in Nat /\ 1 \in 1..M /\ \A j \in 1..M : (\A m \in j + 1..M : m \in Good) => j \in Good
    BY <2>1, <2>2
  <2> HIDE DEF Good, M
  <2> QED  BY <2>3, Downwards
<1>17. "mark" \in Tokens /\ Consistent(1, "mark")
  <2>1. o + 1 - 1 = o /\ At(t, o) = "open"
    <3>1. o \in DOMAIN t
      BY <1>1
    <3> QED  BY <1>1, <3>1 DEF At
  <2> QED  BY <1>3, <2>1 DEF Tokens, Boundary, Joined, Words
<1>18. FoundIn(S(1), "mark") <=> Uses(1)
  BY <1>16, <1>17
<1>19. ReferencesSecret(e) <=> FoundIn(Stripped(e), "mark")
  <2>1. Stripped(e) \in Seq(Tokens)
    BY <1>2, <1>7, <1>8
  <2> QED  BY <2>1, FoundIsReference
<1>20. Uses(1) <=> \E i \in o + 1..c - 1 : SeenAt(t, i)
  <2>1. \A i \in 1..L : o + i \in o + 1..c - 1
    BY <1>5
  <2>2. \A i \in o + 1..c - 1 : i - o \in 1..L /\ o + (i - o) = i
    BY <1>1 DEF L
  <2> QED  BY <2>1, <2>2
<1> QED  BY <1>7, <1>18, <1>19, <1>20, Zenon DEF e

(* A text that is cut into expressions as GitHub does refers to a secret,  *)
(* as the code finds it, if one pass over its tokens sees it.              *)
LEMMA FoundWhereSeen ==
  ASSUME NEW t \in Seq(Tokens), Regular(t)
  PROVE  TextHasSecret(t) <=> \E k \in DOMAIN t : SeenAt(t, k)
PROOF
<1> DEFINE N == Len(t)
           mode == Modes(t)
           from == BlocksFrom(t)
           Found(k) == \E e \in from[k] : ReferencesSecret(e)
           Used(i, j) == \E k \in i..j : SeenAt(t, k)
           Good == {k \in 1..N + 1 : mode[k] = "text" => (Found(k) <=> Used(k, N))}
<1>1. N \in Nat /\ DOMAIN t = 1..N /\ mode[1] = "text"
  BY ModesAre
<1>2. \A k \in 1..N : mode[k + 1] = NextMode(mode[k], t[k])
  BY <1>1, ModesAre
<1>3. mode[N + 1] = "text" /\ \A k \in 1..N : mode[k] = "literal" => t[k] # "close"
  BY <1>1 DEF Regular
<1>4. \A k \in 1..N + 1 : from[k] = BlocksAt(t, k, from)
  BY BlocksFromIs
<1>5. \A i \in 1..N : SeenAt(t, i) => mode[i] = "expression" /\ t[i] = "secrets"
  BY DEF SeenAt
<1>6. \A M : \A a \in 1..N + 1 : \A b \in a..N + 1 :
        mode[a] \in M /\ (\A i \in a..b - 1 : \A m \in M : NextMode(m, t[i]) \in M)
          => \A i \in a..b : mode[i] \in M
  BY <1>1, ModesStay
<1> HIDE DEF mode, from
<1>7. ASSUME NEW k \in 1..N + 1, \A m \in k + 1..N + 1 : m \in Good, mode[k] = "text"
      PROVE  Found(k) <=> Used(k, N)
  <2>1. CASE FirstOf(t, "open", k) = {} /\ \A i \in k..N : t[i] # "open"
    <3>1. from[k] = {}
      BY <1>4, <2>1, InBlocks
    <3>2. \A i \in k..N + 1 - 1 : \A m \in {"text"} : NextMode(m, t[i]) \in {"text"}
      BY <1>1, <2>1 DEF NextMode
    <3>3. N + 1 \in k..N + 1 /\ mode[k] \in {"text"}
      BY <1>1, <1>7
    <3>4. \A i \in k..N + 1 : mode[i] \in {"text"}
      <4> DEFINE M == {"text"}
                 b == N + 1
      <4>1. b \in k..N + 1 /\ mode[k] \in M /\ \A i \in k..b - 1 : \A m \in M : NextMode(m, t[i]) \in M
        BY <3>2, <3>3
      <4> HIDE DEF M, b
      <4>2. \A i \in k..b : mode[i] \in M
        BY <1>6, <4>1
      <4> QED  BY <4>2 DEF M, b
    <3>5. ~Used(k, N)
      BY <1>1, <1>5, <3>4
    <3> QED  BY <3>1, <3>5
  <2>2. ASSUME NEW o \in k..N, FirstOf(t, "open", k) = {o}, t[o] = "open",
               \A i \in k..o - 1 : t[i] # "open"
        PROVE  Found(k) <=> Used(k, N)
    <3>1. o \in 1..N /\ o \in k..N + 1 /\ o + 1 \in 1..N + 1
      BY <1>1
    <3>2. \A i \in k..o : mode[i] = "text"
      <4> DEFINE M == {"text"}
      <4>1. \A i \in k..o - 1 : \A m \in M : NextMode(m, t[i]) \in M
        BY <2>2 DEF NextMode
      <4>2. mode[k] \in M
        BY <1>7
      <4> HIDE DEF M
      <4>3. \A i \in k..o : mode[i] \in M
        BY <1>6, <3>1, <4>1, <4>2
      <4> QED  BY <4>3 DEF M
    <3>3. mode[o] = "text" /\ mode[o + 1] = "expression"
      <4>1. mode[o] = "text"
        BY <3>1, <3>2
      <4>2. mode[o + 1] = NextMode("text", "open")
        BY <1>2, <2>2, <3>1, <4>1
      <4> QED  BY <4>1, <4>2 DEF NextMode
    <3> DEFINE X == {"expression", "literal"}
    <3>4. \A i \in 1..N : t[i] # "close" => \A m \in X : NextMode(m, t[i]) \in X
      BY DEF NextMode
    <3>5. mode[o + 1] \in X
      BY <3>3
    <3>6. CASE FirstOf(t, "close", o + 1) = {} /\ \A i \in o + 1..N : t[i] # "close"
      <4> DEFINE b == N + 1
      <4>1. b \in o + 1..N + 1 /\ \A i \in o + 1..b - 1 : i \in 1..N /\ t[i] # "close"
        BY <1>1, <3>1, <3>6
      <4>2. \A i \in o + 1..b - 1 : \A m \in X : NextMode(m, t[i]) \in X
        BY <3>4, <4>1
      <4> HIDE DEF X, b
      <4>3. mode[b] \in X
        <5>1. \A i \in o + 1..b : mode[i] \in X
          BY <1>6, <3>1, <3>5, <4>1, <4>2
        <5>2. b \in o + 1..b
          BY <1>1, <4>1 DEF b
        <5> QED  BY <5>1, <5>2
      <4> QED  BY <1>3, <4>3 DEF X, b
    <3>7. ASSUME NEW c \in o + 1..N, FirstOf(t, "close", o + 1) = {c}, t[c] = "close",
                 \A i \in o + 1..c - 1 : t[i] # "close"
          PROVE  Found(k) <=> Used(k, N)
      <4> DEFINE e == SubSeq(t, o + 1, c - 1)
      <4>1. c \in 1..N /\ c + 1 \in 1..N + 1 /\ c + 1 \in k + 1..N + 1 /\ c \in o + 1..N + 1
        BY <1>1
      <4>2. mode[c] \in X
        <5>1. \A i \in o + 1..c - 1 : \A m \in X : NextMode(m, t[i]) \in X
          BY <1>1, <3>4, <3>7
        <5> HIDE DEF X
        <5>2. \A i \in o + 1..c : mode[i] \in X
          BY <1>6, <3>1, <3>5, <4>1, <5>1
        <5>3. c \in o + 1..c
          BY <1>1
        <5> QED  BY <5>2, <5>3
      <4>3. mode[c] = "expression"
        BY <1>3, <3>7, <4>1, <4>2
      <4>4. mode[c + 1] = "text"
        <5>1. mode[c + 1] = NextMode("expression", "close")
          BY <1>2, <3>7, <4>1, <4>3
        <5> QED  BY <5>1 DEF NextMode
      <4>5. Expression(t, o, c)
        BY <2>2, <3>1, <3>3, <3>7, <4>3 DEF Expression, mode
      <4>6. ReferencesSecret(e) <=> Used(o + 1, c - 1)
        BY <4>5, ReferencesAreUses
      <4>7. Found(c + 1) <=> Used(c + 1, N)
        <5>1. c + 1 \in Good
          <6> HIDE DEF Good
          <6> QED  BY <1>7, <4>1
        <5> QED  BY <4>4, <5>1
      <4> HIDE DEF e
      <4>8. \A x : x \in from[k] <=> x \in {e} \cup from[c + 1]
        <5>1. \A x : x \in BlocksAt(t, k, from) <=>
                 \E open \in FirstOf(t, "open", k) : \E close \in FirstOf(t, "close", open + 1) :
                   x \in {SubSeq(t, open + 1, close - 1)} \cup from[close + 1]
          BY InBlocks, Zenon
        <5>2. \A x : x \in BlocksAt(t, k, from) <=>
                 \E close \in FirstOf(t, "close", o + 1) :
                   x \in {SubSeq(t, o + 1, close - 1)} \cup from[close + 1]
          BY <2>2, <5>1, Zenon
        <5>3. \A x : x \in BlocksAt(t, k, from) <=> x \in {SubSeq(t, o + 1, c - 1)} \cup from[c + 1]
          BY <3>7, <5>2, Zenon
        <5> QED  BY <1>4, <5>3, Zenon DEF e
      <4>9. Found(k) <=> ReferencesSecret(e) \/ Found(c + 1)
        BY <4>8, Zenon
      <4>10. Used(k, N) <=> Used(o + 1, c - 1) \/ Used(c + 1, N)
        <5>1. ASSUME NEW i \in k..N, SeenAt(t, i)
              PROVE  i \in o + 1..c - 1 \/ i \in c + 1..N
          <6>1. i \in 1..N /\ mode[i] = "expression" /\ t[i] = "secrets"
            BY <1>1, <1>5, <5>1
          <6>2. i # c /\ i \notin k..o
            BY <3>2, <3>7, <6>1
          <6> QED  BY <1>1, <6>1, <6>2
        <5>2. o + 1..c - 1 \subseteq k..N /\ c + 1..N \subseteq k..N
          BY <1>1
        <5> QED  BY <5>1, <5>2
      <4> QED  BY <4>6, <4>7, <4>9, <4>10
    <3>8. o + 1 \in Nat \ {0} /\ Len(t) \in Nat
      BY <1>1
    <3> QED  BY <3>6, <3>7, <3>8, FirstIsOne
  <2>3. k \in Nat \ {0} /\ Len(t) \in Nat
    BY <1>1
  <2> QED  BY <2>1, <2>2, <2>3, FirstIsOne
<1>8. 1 \in Good
  <2>1. \A k \in 1..N + 1 : (\A m \in k + 1..N + 1 : m \in Good) => k \in Good
    <3> SUFFICES ASSUME NEW k \in 1..N + 1, \A m \in k + 1..N + 1 : m \in Good PROVE k \in Good
      OBVIOUS
    <3> HIDE DEF Found, Used
    <3>1. mode[k] = "text" => (Found(k) <=> Used(k, N))
      <4> HIDE DEF Good
      <4> QED  BY <1>7
    <3> QED  BY <3>1
  <2> DEFINE M == N + 1
  <2>2. M \in Nat /\ 1 \in 1..M /\ \A k \in 1..M : (\A m \in k + 1..M : m \in Good) => k \in Good
    BY <1>1, <2>1
  <2> HIDE DEF Good, M
  <2> QED  BY <2>2, Downwards
<1>9. Found(1) <=> Used(1, N)
  BY <1>1, <1>8
<1> QED  BY <1>1, <1>9, Zenon DEF TextHasSecret, Blocks, from

(* A plain use is seen: nothing that joins it to a word or makes a member  *)
(* of it stands before, and a name follows its dot.                        *)
LEMMA PlainIsSeen ==
  ASSUME NEW t \in Seq(Tokens), NEW k \in DOMAIN t, PlainUseAt(t, k)
  PROVE  SeenAt(t, k)
PROOF
<1>1. /\ DOMAIN t = 1..Len(t) /\ Len(t) \in Nat /\ k \in 1..Len(t)
      /\ t[k] = "secrets" /\ Modes(t)[k] = "expression"
      /\ At(t, k - 1) \notin Words /\ At(t, k + 1) \notin Words
  BY DEF PlainUseAt, UsesSecretAt
<1>2. At(t, k - 1) # "dot"
  <2> SUFFICES ASSUME At(t, k - 1) = "dot" PROVE FALSE
    OBVIOUS
  <2>1. k - 1 \in 1..k - 1 /\ t[k - 1] = "dot"
    BY <1>1 DEF At
  <2>2. Adjoin(t, k - 1, k)
    BY <1>1 DEF Adjoin
  <2> QED  BY <2>1, <2>2 DEF PlainUseAt, UsesSecretAt, IsMember
<1>3. CASE At(t, k + 1) = "dot"
  <2>1. k + 1 \in k + 1..Len(t) /\ t[k + 1] = "dot"
    BY <1>1, <1>3 DEF At
  <2>2. k + 1 \in DotsAfter(t, k)
    BY <1>1, <2>1 DEF DotsAfter, Adjoin
  <2>3. PICK i \in k + 1 + 1..Len(t) : t[i] \in Named \cup {"star"} /\ Adjoin(t, k + 1, i)
    BY <2>2 DEF PlainUseAt, UsesSecretAt
  <2>4. k + 2 \in 1..Len(t) /\ At(t, k + 2) = t[k + 2] /\ t[k + 2] \notin {"star", "space"}
    <3>1. k + 2 \in 1..Len(t)
      BY <1>1, <2>3
    <3> QED  BY <1>1, <1>3, <3>1 DEF At, PlainUseAt
  <2>5. i = k + 2
    <3>1. i > k + 2 => k + 2 \in k + 1 + 1..i - 1
      BY <1>1, <2>3
    <3>2. ~(i > k + 2)
      BY <2>3, <2>4, <3>1 DEF Adjoin
    <3> QED  BY <1>1, <2>3, <3>2
  <2> QED  BY <1>1, <1>2, <1>3, <2>3, <2>4, <2>5 DEF SeenAt, Joined
<1>4. CASE At(t, k + 1) # "dot"
  BY <1>1, <1>2, <1>4 DEF SeenAt, Joined
<1> QED  BY <1>3, <1>4

(* What is seen is a use, or misread.                                      *)
LEMMA SeenIsUseOrMisread ==
  ASSUME NEW t \in Seq(Tokens), NEW k \in DOMAIN t, SeenAt(t, k)
  PROVE  UsesSecretAt(t, k) \/ MisreadAt(t, k)
PROOF
<1> SUFFICES ASSUME ~MisreadAt(t, k) PROVE UsesSecretAt(t, k)
  OBVIOUS
<1>0. /\ t[k] = "secrets" /\ Modes(t)[k] = "expression"
      /\ At(t, k - 1) \notin Joined
      /\ At(t, k + 1) \notin Joined \/ (At(t, k + 1) = "dot" /\ At(t, k + 2) \in Named)
  BY DEF SeenAt
<1>1. /\ DOMAIN t = 1..Len(t) /\ Len(t) \in Nat /\ k \in 1..Len(t)
      /\ t[k] = "secrets" /\ Modes(t)[k] = "expression"
      /\ At(t, k - 1) \notin Words \cup {"dot", "dash"} /\ At(t, k + 1) \notin Words \cup {"dash"}
      /\ At(t, k + 1) = "dot" => At(t, k + 2) \in Named
  <2>1. At(t, k - 1) # "dash" /\ At(t, k + 1) # "dash"
    BY <1>0 DEF MisreadAt
  <2>2. At(t, k - 1) \notin Words \cup {"dot"} /\ At(t, k + 1) \notin Words
    BY <1>0 DEF Joined, Words
  <2>3. At(t, k + 1) = "dot" => At(t, k + 2) \in Named
    BY <1>0 DEF Joined
  <2> QED  BY <1>0, <2>1, <2>2, <2>3
<1>2. ~IsMember(t, k)
  <2> SUFFICES ASSUME NEW j \in 1..k - 1, t[j] = "dot", Adjoin(t, j, k) PROVE FALSE
    BY DEF IsMember
  <2>1. k - 1 \in 1..Len(t) /\ At(t, k - 1) = t[k - 1] /\ (j = k - 1 \/ k - 1 \in j + 1..k - 1)
    BY <1>1 DEF At
  <2>2. At(t, k - 1) = "space"
    BY <1>1, <2>1 DEF Adjoin
  <2>3. IsMember(t, k)
    BY DEF IsMember
  <2> QED  BY <1>1, <2>2, <2>3 DEF MisreadAt
<1>3. ASSUME NEW j \in DotsAfter(t, k)
      PROVE  \E i \in j + 1..Len(t) : t[i] \in Named \cup {"star"} /\ Adjoin(t, j, i)
  <2>1. j \in k + 1..Len(t) /\ t[j] = "dot" /\ Adjoin(t, k, j)
    BY DEF DotsAfter
  <2>2. k + 1 \in 1..Len(t) /\ At(t, k + 1) = t[k + 1] /\ (j = k + 1 \/ k + 1 \in k + 1..j - 1)
    BY <1>1, <2>1 DEF At
  <2>3. At(t, k + 1) # "space"
    BY <1>1 DEF MisreadAt
  <2>4. j = k + 1
    BY <2>1, <2>2, <2>3 DEF Adjoin
  <2>5. At(t, k + 2) \in Named
    BY <1>1, <2>1, <2>2, <2>4
  <2>6. k + 2 \in 1..Len(t) /\ t[k + 2] \in Named
    BY <1>1, <2>5 DEF At, Named, Words
  <2>7. k + 2 \in j + 1..Len(t) /\ Adjoin(t, j, k + 2)
    BY <1>1, <2>4, <2>6 DEF Adjoin
  <2> QED  BY <2>6, <2>7
<1> QED  BY <1>1, <1>2, <1>3 DEF UsesSecretAt

(* A text that is cut into expressions as GitHub does is found to refer to *)
(* a secret if it has a plain use of the secrets context, as GitHub        *)
(* evaluates it, and only if it has a use or something that is misread     *)
(* (expression_blocks, references_secret).                                 *)
THEOREM SecretsAreFound ==
  ASSUME NEW t \in Seq(Tokens), Regular(t)
  PROVE  /\ UsesPlainly(t) => TextHasSecret(t)
         /\ TextHasSecret(t) => UsesSecrets(t) \/ Misread(t)
PROOF
<1>1. TextHasSecret(t) <=> \E k \in DOMAIN t : SeenAt(t, k)
  BY FoundWhereSeen
<1>2. \A k \in DOMAIN t : PlainUseAt(t, k) => SeenAt(t, k)
  BY PlainIsSeen
<1>3. \A k \in DOMAIN t : SeenAt(t, k) => UsesSecretAt(t, k) \/ MisreadAt(t, k)
  BY SeenIsUseOrMisread
<1> QED  BY <1>1, <1>2, <1>3, Zenon DEF UsesPlainly, UsesSecrets, Misread
=============================================================================
