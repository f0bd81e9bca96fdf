--------------------------- MODULE BranchPatterns ---------------------------
(***************************************************************************)
(* The branch filters of workflow triggers: src/rules/glob.rs translates a *)
(* pattern into a regular expression and asks whether it matches a branch. *)
(* Branches and patterns are sequences of characters.  An item of the      *)
(* expression takes characters in `set`, or outside it when `outside`, at  *)
(* least `low` of them and, unless `many`, at most one.  The sets with at  *)
(* most one element are what the code returns as an Option.                *)
(***************************************************************************)
EXTENDS Sequences, Integers

CONSTANT Alphabet   (* the characters, in the order that ranges follow     *)

Characters == {Alphabet[n] : n \in DOMAIN Alphabet}
Place(c) == CHOOSE n \in DOMAIN Alphabet : Alphabet[n] = c

(* The character at k, escaped or not, and where reading goes on.  A       *)
(* backslash that ends the pattern stands for itself.                      *)
CharAt(p, k) ==
  IF p[k] = "\\" /\ k < Len(p)
    THEN [char |-> p[k + 1], dash |-> FALSE, next |-> k + 2]
    ELSE [char |-> p[k], dash |-> p[k] = "-", next |-> k + 1]

(* parse_character_class, after `[` and `[!`: the characters up to a `]`   *)
(* that is not the first of them.                                          *)
ClassAt(p, first, k, from) ==
  IF k > Len(p) THEN {}
  ELSE IF p[k] = "]" /\ k > first THEN {[list |-> <<>>, next |-> k + 1]}
  ELSE {[list |-> <<CharAt(p, k)>> \o rest.list, next |-> rest.next] :
          rest \in from[CharAt(p, k).next]}

ClassFrom(p, first) ==
  LET from[k \in 1..Len(p) + 2] == ClassAt(p, first, k, from) IN from

ClassMembers(p, first) == ClassFrom(p, first)[first]

(* How the regular expression reads the members of a class, at k: a dash    *)
(* between two makes a range of them, two dashes take away what follows,    *)
(* any other is a member, too.  (Its operations && and ~~ are left out.)    *)
MembersAt(list, k, from) ==
  LET dash(n) == n <= Len(list) /\ list[n].dash
      low  == Place(list[k].char)
      high == Place(list[k + 2].char)
  IN  IF k > Len(list) THEN [taken |-> {}, removed |-> {}, reversed |-> FALSE]
      ELSE IF dash(k) /\ dash(k + 1)
        THEN [from[k + 2] EXCEPT !.taken = {}, !.removed = @ \cup from[k + 2].taken]
      ELSE IF dash(k + 1) /\ k + 2 <= Len(list) /\ ~dash(k + 2)
        THEN [from[k + 3] EXCEPT !.taken = @ \cup {c \in Characters : Place(c) \in low..high},
                                 !.reversed = @ \/ low > high]
      ELSE [from[k + 1] EXCEPT !.taken = @ \cup {list[k].char}]

MembersFrom(list) == LET from[k \in 1..Len(list) + 3] == MembersAt(list, k, from) IN from

(* Dashes that a class starts with are members.                            *)
FirstMember(list) ==
  CHOOSE k \in 1..Len(list) + 1 :
    /\ \A n \in 1..k - 1 : list[n].dash
    /\ k <= Len(list) => ~list[k].dash

ClassSet(list) ==
  LET read == MembersFrom(list)[FirstMember(list)]
      dashes == IF FirstMember(list) > 1 THEN {"-"} ELSE {}
  IN  (dashes \cup read.taken) \ read.removed

ReversedRange(list) == MembersFrom(list)[FirstMember(list)].reversed

Item(set, outside) == [set |-> set, outside |-> outside, low |-> 1, many |-> FALSE]

Star(double) ==
  [Item(IF double THEN {} ELSE {"/"}, TRUE) EXCEPT !.low = 0, !.many = TRUE]

Quantified(item, q) == [item EXCEPT !.low = IF q = "?" THEN 0 ELSE 1, !.many = q = "+"]

(* What a quantifier may follow: one character, or a class of them.  The   *)
(* regular expression of a class with a reversed range does not compile.   *)
Single(p, k) ==
  IF p[k] # "["
    THEN {[item |-> Item({CharAt(p, k).char}, FALSE), next |-> CharAt(p, k).next]}
    ELSE LET negated == k < Len(p) /\ p[k + 1] = "!"
         IN  {[item |-> Item(ClassSet(m.list), negated), next |-> m.next] :
                m \in {m \in ClassMembers(p, IF negated THEN k + 2 ELSE k + 1) :
                         ~ReversedRange(m.list)}}

Quantifier(p, k) == IF k <= Len(p) THEN p[k] ELSE ""

(* Where reading goes on after what ends before k, and its quantifier.     *)
After(p, k) == IF Quantifier(p, k) \in {"?", "+"} THEN k + 1 ELSE k

(* Mutant: `*` takes slashes, too.                                         *)
ItemsAtCrossing(p, k, from) ==
  CASE k > Len(p) -> {<<>>}
    [] k <= Len(p) /\ p[k] \in {"?", "+"} -> {}
    [] k <= Len(p) /\ p[k] = "*" -> {<<Star(TRUE)>> \o rest : rest \in from[k + 1]}
    [] OTHER -> UNION {{<<one.item>> \o rest : rest \in from[one.next]} : one \in Single(p, k)}

(* github_pattern_to_regex, at k.  A quantifier that follows none of these, *)
(* or another quantifier, makes the pattern match nothing.                 *)
ItemsAt(p, k, from) ==
  CASE k > Len(p) -> {<<>>}
    [] k <= Len(p) /\ p[k] \in {"?", "+"} -> {}
    [] k <= Len(p) /\ p[k] = "*" ->
         LET double == Quantifier(p, k + 1) = "*"
         IN  {<<Star(double)>> \o rest : rest \in from[IF double THEN k + 2 ELSE k + 1]}
    [] OTHER ->
         UNION {{<<Quantified(one.item, Quantifier(p, one.next))>> \o rest :
                   rest \in from[After(p, one.next)]} : one \in Single(p, k)}

ItemsFrom(p) == LET from[k \in 1..Len(p) + 3] == ItemsAt(p, k, from) IN from

Items(p) == ItemsFrom(p)[1]

Takes(item, c) == (c \in item.set) # item.outside

(* The places of a branch from where an item takes characters up to one of *)
(* `places`.                                                               *)
Before(item, b, places) ==
  {j \in 1..Len(b) + 1 :
     \E e \in j - 1 + item.low..Len(b) :
       /\ e <= j \/ item.many
       /\ \A k \in j..e : Takes(item, b[k])
       /\ e + 1 \in places}

(* The places from where the rest of a branch matches the items from i on. *)
MatchAt(items, b, i, from) ==
  IF i > Len(items) THEN {Len(b) + 1} ELSE Before(items[i], b, from[i + 1])

MatchFrom(items, b) == LET from[i \in 1..Len(items) + 1] == MatchAt(items, b, i, from) IN from

(* The anchored regular expression matches the whole branch.               *)
ItemsMatch(items, b) == 1 \in MatchFrom(items, b)[1]

(* branch_pattern_matches                                                  *)
PatternMatches(p, b) == \E items \in Items(p) : ItemsMatch(items, b)

(* branch_matches_filters: the last filter that matches decides, and a     *)
(* list of nothing but exceptions admits no branch.                        *)
IsException(filter) == filter # <<>> /\ filter[1] = "!"
PatternOf(filter) == IF IsException(filter) THEN Tail(filter) ELSE filter

FiltersAdmit(filters, b) ==
  \/ filters = <<>>
  \/ LET deciding == {n \in DOMAIN filters : PatternMatches(PatternOf(filters[n]), b)}
     IN  \E n \in deciding :
           ~IsException(filters[n]) /\ \A m \in deciding : m <= n

-----------------------------------------------------------------------------
(* What GitHub documents of these patterns, read from the pattern itself:  *)
(* the reference that the translation is checked against.  From where in a *)
(* branch does its rest match the pattern from k on?                       *)

Repeats(q, n) ==
  CASE q = "?" -> n \in {0, 1}
    [] q = "+" -> n >= 1
    [] OTHER -> n = 1

DocumentedAt(p, b, k, from) ==
  LET ends == Len(b) + 1
  IN  CASE k > Len(p) -> {ends}
        [] k <= Len(p) /\ p[k] \in {"?", "+"} -> {}
        [] k <= Len(p) /\ p[k] = "*" ->
             LET double == Quantifier(p, k + 1) = "*"
             IN  {j \in 1..ends : \E e \in j..ends :
                    /\ double \/ \A n \in j..e - 1 : b[n] # "/"
                    /\ e \in from[IF double THEN k + 2 ELSE k + 1]}
        [] OTHER ->
             {j \in 1..ends : \E e \in j..ends : \E one \in Single(p, k) :
                /\ Repeats(Quantifier(p, one.next), e - j)
                /\ \A n \in j..e - 1 : Takes(one.item, b[n])
                /\ e \in from[After(p, one.next)]}

DocumentedFrom(p, b) == LET from[k \in 1..Len(p) + 3] == DocumentedAt(p, b, k, from) IN from

DocumentedMatch(p, b) == 1 \in DocumentedFrom(p, b)[1]
=============================================================================
