---------------------------- MODULE Expressions -----------------------------
(***************************************************************************)
(* Where a text of a workflow refers to the secrets context                *)
(* (src/workflow/expressions.rs).  A text is a sequence of tokens: words,  *)
(* "open" and "close" of an expression, and single characters, of which    *)
(* "mark" is any that is not named here.  A word is "secrets", "SECRETS"   *)
(* (any other way to write it), "number", which starts with a digit, or    *)
(* "name"; words next to each other are one longer identifier.             *)
(***************************************************************************)
EXTENDS SequencesExt, Integers

Words  == {"secrets", "SECRETS", "name", "number"}
Named  == Words \ {"number"}
Tokens == Words \cup {"open", "close", "quote", "dot", "star", "dash", "space", "mark"}

FirstOf(t, token, from) ==
  {k \in from..Len(t) : t[k] = token /\ \A i \in from..k - 1 : t[i] # token}

(* ExpressionBlocks: each from an `${{` to the next `}}`, which also ends   *)
(* it inside a literal; what is never closed is no expression.             *)
BlocksAt(t, k, from) ==
  UNION {UNION {{SubSeq(t, open + 1, close - 1)} \cup from[close + 1] :
                  close \in FirstOf(t, "close", open + 1)} : open \in FirstOf(t, "open", k)}

BlocksFrom(t) == LET from[k \in 1..Len(t) + 1] == BlocksAt(t, k, from) IN from

Blocks(t) == BlocksFrom(t)[1]

(* strip_string_literals: a literal becomes one space.  A doubled quote,   *)
(* which stays inside the literal, ends it and opens it again here, which   *)
(* leaves one more space and nothing else.                                 *)
StrippedAt(e, k, from) ==
  [inString \in BOOLEAN |->
     IF k > Len(e) THEN <<>>
     ELSE IF inString THEN from[k + 1][e[k] # "quote"]
     ELSE IF e[k] = "quote" THEN <<"space">> \o from[k + 1][TRUE]
     ELSE <<e[k]>> \o from[k + 1][FALSE]]

StrippedFrom(e) == LET from[k \in 1..Len(e) + 1] == StrippedAt(e, k, from) IN from

Stripped(e) == StrippedFrom(e)[1][FALSE]

At(t, k) == IF k \in DOMAIN t THEN t[k] ELSE "mark"

(* [^A-Za-z0-9_.]                                                          *)
Boundary == Tokens \ (Words \cup {"dot"})

(* references_secret: `secrets` as a whole identifier that is no member of *)
(* another, followed by `.name`, by a boundary, or by the end.             *)
MatchesAt(s, k) ==
  /\ s[k] = "secrets"
  /\ At(s, k - 1) \in Boundary
  /\ At(s, k + 1) \in Boundary \/ (At(s, k + 1) = "dot" /\ At(s, k + 2) \in Named)

ReferencesSecret(e) == \E k \in DOMAIN Stripped(e) : MatchesAt(Stripped(e), k)

(* An expression somewhere in the text refers to a secret.                 *)
TextHasSecret(t) == \E e \in Blocks(t) : ReferencesSecret(e)

-----------------------------------------------------------------------------
(* The reference: one pass over the tokens, which knows whether it is       *)
(* outside of expressions, in one, or in a literal of one.                 *)

NextMode(mode, token) ==
  CASE mode = "text"    -> IF token = "open" THEN "expression" ELSE "text"
    [] mode = "literal" -> IF token = "quote" THEN "expression" ELSE "literal"
    [] mode = "expression" ->
         IF token = "close" THEN "text"
         ELSE IF token = "quote" THEN "literal" ELSE "expression"

ModeAt(t, k, mode) == IF k = 1 THEN "text" ELSE NextMode(mode[k - 1], t[k - 1])

Modes(t) == LET mode[k \in 1..Len(t) + 1] == ModeAt(t, k, mode) IN mode

(* The text is cut into expressions as GitHub cuts it: each is closed, and *)
(* no literal holds what closes one.                                       *)
Regular(t) ==
  /\ Modes(t)[Len(t) + 1] = "text"
  /\ \A k \in DOMAIN t : Modes(t)[k] = "literal" => t[k] # "close"

(* From one position to another there are only spaces.                     *)
Adjoin(t, j, k) == \A i \in j + 1..k - 1 : t[i] = "space"

IsMember(t, k) == \E j \in 1..k - 1 : t[j] = "dot" /\ Adjoin(t, j, k)
DotsAfter(t, k) == {j \in k + 1..Len(t) : t[j] = "dot" /\ Adjoin(t, k, j)}

(* GitHub evaluates the secrets context, all of it or a secret: however it *)
(* is written, as an identifier of its own (a dash is part of one), that   *)
(* is no member of another, with a name or a star after a dot.             *)
UsesSecretAt(t, k) ==
  /\ t[k] \in {"secrets", "SECRETS"} /\ Modes(t)[k] = "expression"
  /\ {At(t, k - 1), At(t, k + 1)} \cap (Words \cup {"dash"}) = {}
  /\ ~IsMember(t, k)
  /\ \A j \in DotsAfter(t, k) :
       \E i \in j + 1..Len(t) : t[i] \in Named \cup {"star"} /\ Adjoin(t, j, i)

UsesSecrets(t) == \E k \in DOMAIN t : UsesSecretAt(t, k)

(* Where the code can be expected to see it: in lower case, and the dot is *)
(* followed by a name at once, if there is one.                            *)
PlainUseAt(t, k) ==
  /\ UsesSecretAt(t, k) /\ t[k] = "secrets"
  /\ At(t, k + 1) = "dot" => At(t, k + 2) \notin {"star", "space"}

UsesPlainly(t) == \E k \in DOMAIN t : PlainUseAt(t, k)

(* Where it may take something else for it: a part of an identifier with a *)
(* dash, or `secrets` that spaces part from a dot.                         *)
MisreadAt(t, k) ==
  /\ t[k] = "secrets" /\ Modes(t)[k] = "expression"
  /\ \/ "dash" \in {At(t, k - 1), At(t, k + 1)}
     \/ At(t, k - 1) = "space" /\ IsMember(t, k)
     \/ At(t, k + 1) = "space" /\ DotsAfter(t, k) # {}

Misread(t) == \E k \in DOMAIN t : MisreadAt(t, k)
=============================================================================
