--------------------------- MODULE RulesetFixProofs ---------------------------
(***************************************************************************)
(* What --fix may do to rulesets and legacy protection, for any rulesets,  *)
(* contexts, configurations, faults and numbers of invocations.            *)
(***************************************************************************)
EXTENDS RulesetFix, FiniteSetTheorems, TLAPS

(* A ruleset that has come to ask for more, or for as much.                *)
Grown(a, b) ==
  a # NoRuleset =>
    /\ b # NoRuleset /\ b.covers = a.covers
    /\ a.kinds \subseteq b.kinds
    /\ \A c \in Contexts : Requires(a, c) => Requires(b, c)
    /\ a.strict => b.strict

AllGrown(F, G) == \A i \in Ids : Grown(F.rulesets[i], G.rulesets[i])

-----------------------------------------------------------------------------
(* Changes to rulesets *)

LEMMA KindsOfRules == \A r \in DOMAIN KindOf : KindOf[r] \in Kinds
  BY DEF KindOf, Kinds

LEMMA UpdatedGrows ==
  ASSUME NEW rs \in Ruleset, NEW rules
  PROVE  Updated(rs, rules) \in Ruleset /\ Grown(rs, Updated(rs, rules))
<1> DEFINE added   == {KindOf[r] : r \in rules \cap DOMAIN KindOf}
           kinds   == rs.kinds \cup added
                        \cup (IF "RS011" \in rules THEN {"pull_request"} ELSE {})
                        \cup (IF {"RS012", "RS013"} \cap rules # {}
                                THEN {"required_status_checks"} ELSE {})
           methods == IF "RS011" \in rules THEN {"squash"} ELSE rs.methods
           checks  == IF "RS012" \in rules
                        THEN [rs.checks EXCEPT ![Complete] = "actions"] ELSE rs.checks
           strict  == rs.strict \/ "RS013" \in rules
           now     == Updated(rs, rules)
<1>1. now = [covers |-> rs.covers, kinds |-> kinds, methods |-> methods,
             checks |-> checks, strict |-> strict]
  BY DEF Updated
<1>2. added \subseteq Kinds
  BY KindsOfRules
<1>3. rs.kinds \subseteq kinds /\ kinds \subseteq Kinds
  <2> HIDE DEF added
  <2> QED
    BY <1>2 DEF Ruleset, Kinds
<1>4. methods \subseteq Methods
  BY DEF Ruleset, Methods
<1>5. /\ checks \in [Contexts -> Sources]
      /\ \A c \in Contexts : rs.checks[c] # "none" => checks[c] # "none"
  <2>1. rs.checks \in [Contexts -> Sources] /\ "actions" \in Sources /\ "actions" # "none"
    BY DEF Ruleset, Sources
  <2>2. CASE "RS012" \in rules
    BY <2>1, <2>2
  <2>3. CASE "RS012" \notin rules
    BY <2>1, <2>3
  <2> QED
    BY <2>2, <2>3
<1>6. strict \in BOOLEAN /\ (rs.strict => strict) /\ rs.covers \in BOOLEAN
  BY DEF Ruleset
<1> HIDE DEF kinds, methods, checks, strict, now
<1>7. now \in Ruleset
  BY <1>1, <1>3, <1>4, <1>5, <1>6 DEF Ruleset
<1>8. Grown(rs, now)
  BY <1>1, <1>3, <1>5, <1>6, <1>7, RulesetsAssumption DEF Grown, Requires
<1> QED
  BY <1>7, <1>8 DEF now

(* No fix adds a merge queue.                                              *)
LEMMA UpdatedAddsNoQueue ==
  ASSUME NEW rs, NEW rules, "merge_queue" \in Updated(rs, rules).kinds
  PROVE  "merge_queue" \in rs.kinds
<1> DEFINE added == {KindOf[r] : r \in rules \cap DOMAIN KindOf}
<1>1. "merge_queue" \notin added
  BY DEF KindOf
<1>2. Updated(rs, rules).kinds \subseteq rs.kinds \cup added \cup {"pull_request", "required_status_checks"}
  BY DEF Updated
<1> HIDE DEF added
<1> QED
  BY <1>1, <1>2

LEMMA BlankTyped == Blank \in Ruleset
  BY DEF Blank, Ruleset, Sources

(* A stored ruleset grows the repository if it grows the one it replaces.  *)
LEMMA StoredGrows ==
  ASSUME repo \in Facts, NEW id \in Ids, NEW rs \in Ruleset, Grown(repo.rulesets[id], rs)
  PROVE  /\ WithRuleset(id, rs) \in Facts
         /\ AllGrown(repo, WithRuleset(id, rs))
         /\ WithRuleset(id, rs).rulesets = [repo.rulesets EXCEPT ![id] = rs]
         /\ WithRuleset(id, rs).legacy = repo.legacy
         /\ WithRuleset(id, rs).reported = repo.reported
<1> DEFINE now == [repo.rulesets EXCEPT ![id] = rs]
<1>1. now \in [Ids -> Ruleset \cup {NoRuleset}]
  BY DEF Facts
<1>2. \A i \in Ids : Grown(repo.rulesets[i], now[i])
  BY DEF Facts, Grown
<1> HIDE DEF now
<1>3. WithRuleset(id, rs) = [repo EXCEPT !.rulesets = now]
  BY DEF WithRuleset, now
<1>4. /\ WithRuleset(id, rs) \in Facts
      /\ WithRuleset(id, rs).rulesets = now
      /\ WithRuleset(id, rs).legacy = repo.legacy
      /\ WithRuleset(id, rs).reported = repo.reported
  BY <1>1, <1>3 DEF Facts
<1> QED
  BY <1>2, <1>4 DEF AllGrown, now

(* What is stored brings no merge queue if it has none that was there.     *)
LEMMA StoredQueue ==
  ASSUME NEW F, NEW id \in Ids, NEW rs, NEW G,
         G.rulesets = [F.rulesets EXCEPT ![id] = rs],
         "merge_queue" \in rs.kinds
           => id \in Covering(F) /\ "merge_queue" \in F.rulesets[id].kinds,
         Queued(G), F.rulesets \in [Ids -> Ruleset \cup {NoRuleset}]
  PROVE  Queued(F)
<1>1. PICK i \in Covering(G) : "merge_queue" \in G.rulesets[i].kinds
  BY DEF Queued
<1>2. CASE i = id
  BY <1>1, <1>2 DEF Queued, Covering
<1>3. CASE i # id
  BY <1>1, <1>3 DEF Queued, Covering
<1> QED
  BY <1>2, <1>3

(* A merge queue applies to the same rulesets.                             *)
LEMMA SameQueue ==
  ASSUME NEW F, NEW G, G.rulesets = F.rulesets
  PROVE  Queued(G) <=> Queued(F)
  BY DEF Queued, Covering

LEMMA GrownTransitive ==
  ASSUME NEW a, NEW b, NEW c, Grown(a, b), Grown(b, c)
  PROVE  Grown(a, c)
  BY DEF Grown

-----------------------------------------------------------------------------
(* What is enforced *)

LEMMA CoveringGrows ==
  ASSUME NEW F, NEW G, AllGrown(F, G), NEW i \in Covering(F)
  PROVE  /\ i \in Covering(G)
         /\ \A k : k \in F.rulesets[i].kinds => k \in G.rulesets[i].kinds
         /\ \A c \in Contexts : Requires(F.rulesets[i], c) => Requires(G.rulesets[i], c)
         /\ F.rulesets[i].strict => G.rulesets[i].strict
  BY DEF AllGrown, Grown, Covering

LEMMA EnforcedGrows ==
  ASSUME NEW F, NEW G, AllGrown(F, G), G.legacy = F.legacy
  PROVE  Enforced(F) \subseteq Enforced(G)
<1>1. ASSUME NEW i \in Covering(F)
      PROVE  Enforces(F.rulesets[i]) \subseteq Enforces(G.rulesets[i]) /\ i \in Covering(G)
  BY CoveringGrows DEF Enforces
<1> QED
  BY <1>1 DEF Enforced

LEMMA EnforcedWithoutLegacy ==
  ASSUME NEW F \in Facts, NEW G, AllGrown(F, G), NEW H,
         F.legacy # NoLegacy, Superseded(F.legacy, F), G.legacy \in {F.legacy, NoLegacy},
         H.rulesets = G.rulesets, H.legacy = NoLegacy
  PROVE  Enforced(G) \subseteq Enforced(H)
<1> DEFINE legacy == F.legacy
           ruled  == UNION {Enforces(G.rulesets[i]) : i \in Covering(G)}
<1>1. legacy \in Legacy
  BY DEF Facts
<1>2. ASSUME NEW k \in legacy.kinds PROVE <<"kind", k>> \in ruled
  <2>1. PICK i \in Covering(F) : k \in F.rulesets[i].kinds
    BY DEF Superseded
  <2>2. k \in Plain /\ i \in Covering(G) /\ k \in G.rulesets[i].kinds
    BY <1>1, <2>1, CoveringGrows DEF Legacy
  <2> QED
    BY <2>2 DEF Enforces
<1>3. ASSUME NEW c \in legacy.contexts PROVE <<"check", c>> \in ruled
  <2>1. PICK i \in Covering(F) : Requires(F.rulesets[i], c)
    BY DEF Superseded
  <2>2. c \in Contexts /\ i \in Covering(G) /\ Requires(G.rulesets[i], c)
    BY <1>1, <2>1, CoveringGrows DEF Legacy
  <2> QED
    BY <2>2 DEF Enforces
<1>4. ASSUME NEW c \in legacy.contexts, legacy.strict PROVE <<"current", c>> \in ruled
  <2>1. PICK i \in Covering(F) : F.rulesets[i].strict /\ Requires(F.rulesets[i], c)
    BY <1>4 DEF Superseded
  <2>2. c \in Contexts /\ i \in Covering(G)
        /\ G.rulesets[i].strict /\ Requires(G.rulesets[i], c)
    BY <1>1, <2>1, CoveringGrows DEF Legacy
  <2> QED
    BY <2>2 DEF Enforces
<1>5. ~legacy.lock
  BY DEF Superseded
<1> HIDE DEF ruled
<1>6. LegacyEnforces(legacy) \subseteq ruled
  BY <1>2, <1>3, <1>4, <1>5 DEF LegacyEnforces
<1>7. Covering(H) = Covering(G)
  BY DEF Covering
<1>8. Enforced(H) = ruled
  BY <1>7 DEF Enforced, ruled
<1>9. Enforced(G) \subseteq ruled \cup LegacyEnforces(legacy)
  <2>1. CASE G.legacy = NoLegacy
    BY <2>1 DEF Enforced, ruled
  <2>2. CASE G.legacy = legacy
    <3>1. Enforced(G) = ruled \cup LegacyEnforces(G.legacy)
      BY <2>2 DEF Enforced, ruled
    <3> QED
      BY <2>2, <3>1
  <2> QED
    BY <2>1, <2>2
<1> QED
  BY <1>6, <1>8, <1>9

-----------------------------------------------------------------------------
(* Plans *)

LEMMA PlaceFacts ==
  ASSUME NEW F, NEW rule
  PROVE  /\ Place(rule, F) \in Covering(F) \cup {NewId, "rejected"}
         /\ Place(rule, F) \in Ids \cup {NewId, "rejected"}
  BY DEF Place, Covering

(* A call to a ruleset is for one that covers the default branch, the      *)
(* creation of one for when none does, a required check for one that is    *)
(* reported where no merge queue applies, and a deletion for a protection that is superseded.           *)
LEMMA FixFacts ==
  ASSUME NEW F, NEW rule \in Rules
  PROVE  /\ FixOf(rule, F) \in Calls
         /\ FixOf(rule, F) \in Ids => FixOf(rule, F) \in Covering(F)
         /\ FixOf(rule, F) \in Ids \cup {NewId} /\ rule = "RS012"
              => Complete \in F.reported /\ ~Queued(F)
         /\ FixOf(rule, F) = "delete" => Superseded(F.legacy, F) /\ F.legacy # NoLegacy
         /\ rule = "RS001" /\ FixOf(rule, F) = NewId => Covering(F) = {}
<1> USE RulesetsAssumption DEF NoCalls, NewId, Calls
<1>1. CASE Verdict(rule, F) # "fail"
  BY <1>1 DEF FixOf
<1>2. CASE Verdict(rule, F) = "fail" /\ rule \in {"ST004", "ST005", "ST006", "ST007", "RS006"}
  BY <1>2 DEF FixOf
<1>3. CASE Verdict(rule, F) = "fail" /\ rule = "RS001"
  <2>1. FixOf(rule, F) = NewId
    BY <1>3 DEF FixOf
  <2>2. Covering(F) = {}
    BY <1>3 DEF Verdict, Satisfies
  <2> QED
    BY <1>3, <2>1, <2>2
<1>4. CASE Verdict(rule, F) = "fail" /\ rule = "RS007"
  <2>1. F.legacy # NoLegacy
    BY <1>4 DEF Verdict
  <2> QED
    BY <1>4, <2>1 DEF FixOf
<1>5. CASE Verdict(rule, F) = "fail" /\ rule = "RS012"
  BY <1>5, PlaceFacts DEF FixOf, PlaceCheck
<1>6. CASE Verdict(rule, F) = "fail"
           /\ rule \in {"RS005", "RS008", "RS010", "RS011", "RS013"}
  <2>1. FixOf(rule, F) = Place(rule, F)
    BY <1>6 DEF FixOf
  <2> QED
    BY <1>6, <2>1, PlaceFacts
<1> QED
  BY <1>1, <1>2, <1>3, <1>4, <1>5, <1>6 DEF Rules

LEMMA PlanFacts ==
  ASSUME NEW on, NEW F, NEW rule \in Rules
  PROVE  LET call == PlanOf(on, F)[rule] IN
         /\ call \in Calls
         /\ call \in Ids => call \in Covering(F)
         /\ call \in Ids \cup {NewId} /\ rule = "RS012"
              => Complete \in F.reported /\ ~Queued(F)
         /\ call = "delete" => Superseded(F.legacy, F) /\ F.legacy # NoLegacy
         /\ rule = "RS001" /\ call = NewId => "RS001" \in on /\ Covering(F) = {}
<1>1. \/ PlanOf(on, F)[rule] \in {"none", "rejected"}
      \/ PlanOf(on, F)[rule] = FixOf(rule, F) /\ rule \in on
  BY DEF PlanOf
<1> QED
  BY <1>1, FixFacts, RulesetsAssumption DEF NoCalls, NewId, Calls

(* No two calls are both next.                                             *)
LEMMA NextIsOne ==
  ASSUME NEW a, NEW b, IsNext(a), IsNext(b)
  PROVE  a = b
<1> SUFFICES ASSUME a # b PROVE FALSE
  OBVIOUS
<1>1. Before(a, b) /\ Before(b, a)
  BY DEF IsNext
<1>2. Stage(a) \in Nat /\ Stage(b) \in Nat
  BY DEF Stage
<1>3. \A rule \in Rules : CatalogOrder[rule] \in Nat
  BY DEF Rules, CatalogOrder
<1>4. PICK r \in Batch(a) : \A s \in Batch(b) : CatalogOrder[r] < CatalogOrder[s]
  BY <1>1, <1>2 DEF Before
<1>5. PICK s \in Batch(b) : \A t \in Batch(a) : CatalogOrder[s] < CatalogOrder[t]
  BY <1>1, <1>2 DEF Before
<1>6. CatalogOrder[r] < CatalogOrder[s] /\ CatalogOrder[s] < CatalogOrder[r]
  BY <1>4, <1>5
<1> QED
  BY <1>3, <1>6 DEF Batch

-----------------------------------------------------------------------------
(* The invariant *)

(* Nobody changes the repository during an invocation, so what was read is *)
(* so; and what is done is what was planned from the facts `before`, to a  *)
(* repository whose rulesets have only grown since.  As long as the        *)
(* creation of a ruleset is to come, no ruleset has changed: it was        *)
(* planned because there was none to change.                               *)
Following ==
  /\ pc \in {"rest", "plan"} => seen.rulesets = repo.rulesets
  /\ pc = "plan" => seen.legacy = repo.legacy /\ seen.reported = repo.reported

Acting ==
  pc \in {"act", "put"} =>
    /\ plan = PlanOf(enabled, before)
    /\ repo.reported = before.reported
    /\ repo.legacy \in {before.legacy, NoLegacy}
    /\ AllGrown(before, repo)
    /\ Queued(repo) => Queued(before)
    /\ plan["RS001"] = NewId /\ results["RS001"] = "none" => repo.rulesets = before.rulesets

Fetched ==
  pc = "put" => \A id \in Ids : IsNext(id) => fetched = repo.rulesets[id]

(* The rules of one call share its outcome.                                *)
Shared ==
  pc \in {"act", "put"} =>
    \A r, s \in Rules : plan[r] = NewId /\ plan[s] = NewId => results[r] = results[s]

FixInv == TypeOK /\ Following /\ Acting /\ Fetched /\ Shared

LEMMA ConstantsTyped ==
  /\ Nothing \in Facts /\ NoPlan \in [Rules -> Calls] /\ NoPlan \in [Rules -> Outcomes]
  /\ NoRuleset \in Ruleset \cup {NoRuleset}
  BY DEF Nothing, Facts, NoPlan, Calls, NoCalls, Outcomes

LEMMA FixInit == Init => FixInv
<1> SUFFICES ASSUME Init PROVE FixInv
  OBVIOUS
<1>1. repo \in Facts
  <2>1. PICK s \in SomeSettings, f \in SomeForks, r \in SomeReported,
             l \in SomeLegacy \cup {NoLegacy}, rs \in [Ids -> SomeRulesets \cup {NoRuleset}] :
          repo = [settings |-> s, fork |-> f, rulesets |-> rs, legacy |-> l, reported |-> r]
    BY DEF Init, Start
  <2>2. /\ s \in SUBSET Methods /\ f \in {"all", "some", "hidden"} /\ r \in SUBSET Contexts
        /\ l \in Legacy \cup {NoLegacy}
    BY RulesetFixAssumption
  <2>3. rs \in [Ids -> Ruleset \cup {NoRuleset}]
    BY RulesetFixAssumption
  <2> QED
    BY <2>1, <2>2, <2>3 DEF Facts
<1>2. TypeOK
  BY <1>1, ConstantsTyped, RulesetFixAssumption DEF Init, TypeOK, Steps
<1> QED
  BY <1>2 DEF Init, FixInv, Following, Acting, Fetched, Shared

LEMMA FaultTyped ==
  ASSUME TypeOK, (\E kind : Fault(kind)) \/ UNCHANGED faults
  PROVE  faults' \in 0..MaxFaults
  BY RulesetFixAssumption DEF TypeOK, Fault

LEMMA ForgetKeeps ==
  ASSUME FixInv, Forget, repo' \in Facts, UNCHANGED enabled,
         faults' \in 0..MaxFaults, edits' \in 0..MaxEdits
  PROVE  FixInv'
<1>1. TypeOK'
  BY ConstantsTyped DEF FixInv, TypeOK, Forget, Steps
<1> QED
  BY <1>1 DEF Forget, FixInv, Following, Acting, Fetched, Shared

LEMMA RecordTyped ==
  ASSUME TypeOK, NEW call, NEW ok \in BOOLEAN, Record(call, ok), repo' \in Facts,
         faults' \in 0..MaxFaults, UNCHANGED enabled
  PROVE  TypeOK'
<1>1. results' \in [Rules -> Outcomes]
  BY DEF Record, TypeOK, Outcomes
<1> QED
  BY <1>1, ConstantsTyped DEF Record, TypeOK, Steps

(* A call's outcome, when the repository has only grown.                   *)
LEMMA RecordKeeps ==
  ASSUME FixInv, NEW call, NEW ok \in BOOLEAN, Record(call, ok), pc \in {"act", "put"},
         repo' \in Facts, faults' \in 0..MaxFaults, UNCHANGED enabled,
         repo'.reported = repo.reported, repo'.legacy \in {repo.legacy, NoLegacy},
         AllGrown(repo, repo'), Queued(repo') => Queued(repo),
         \/ repo'.rulesets = repo.rulesets
         \/ plan["RS001"] = call
         \/ plan["RS001"] # NewId
  PROVE  FixInv'
<1>1. TypeOK'
  BY RecordTyped DEF FixInv
<1>2. AllGrown(before', repo')
  <2>1. before' = before /\ AllGrown(before, repo)
    BY DEF Record, FixInv, Acting
  <2> QED
    BY <2>1, GrownTransitive DEF AllGrown
<1>3. plan'["RS001"] = NewId /\ results'["RS001"] = "none" => repo'.rulesets = before'.rulesets
  <2> SUFFICES ASSUME plan'["RS001"] = NewId, results'["RS001"] = "none"
               PROVE  repo'.rulesets = before'.rulesets
    OBVIOUS
  <2>1. plan["RS001"] = NewId /\ "RS001" \in Rules
    BY DEF Record, Rules
  <2>2. plan["RS001"] # call /\ results["RS001"] = "none"
    BY <2>1 DEF Record
  <2> QED
    BY <2>1, <2>2 DEF Record, FixInv, Acting
<1>4. Acting'
  <2>1. Queued(repo') => Queued(before)
    BY DEF FixInv, Acting
  <2> QED
    BY <1>2, <1>3, <2>1 DEF Record, FixInv, Acting
<1>5. Shared'
  BY DEF Record, FixInv, Shared
<1> QED
  BY <1>1, <1>4, <1>5 DEF Record, FixInv, Following, Fetched

LEMMA NextUnchanged ==
  ASSUME NEW call, UNCHANGED <<plan, results>>
  PROVE  IsNext(call)' <=> IsNext(call)
  BY DEF IsNext, Pending, Batch, Before

-----------------------------------------------------------------------------
(* The calls that change rulesets or protection *)

LEMMA SentTyped ==
  ASSUME TypeOK, NEW possible, NEW effect, NEW ok, Sent(possible, effect, ok)
  PROVE  faults' \in 0..MaxFaults
  BY FaultTyped DEF Sent

(* A call that is next is the plan of some rule.                           *)
LEMMA NextIsPlanned ==
  ASSUME NEW call, IsNext(call)
  PROVE  \E rule \in Rules : plan[rule] = call
  BY DEF IsNext, Pending, Batch

(* PUT writes the ruleset as it is, grown; it was in the plan, so none is  *)
(* to be created.                                                          *)
LEMMA PutWrites ==
  ASSUME FixInv, NEW id \in Ids, IsNext(id), pc = "put"
  PROVE  LET now == WithRuleset(id, Updated(fetched, Batch(id))) IN
         /\ now \in Facts /\ AllGrown(repo, now)
         /\ now.rulesets = [repo.rulesets EXCEPT ![id] = Updated(fetched, Batch(id))]
         /\ now.reported = repo.reported /\ now.legacy = repo.legacy
         /\ fetched = repo.rulesets[id] /\ fetched \in Ruleset
         /\ plan["RS001"] # NewId
         /\ id \in Covering(repo) /\ (Queued(now) => Queued(repo))
<1>1. fetched = repo.rulesets[id] /\ fetched \in Ruleset /\ repo \in Facts
  BY DEF FixInv, Fetched, TypeOK
<1>2. Updated(fetched, Batch(id)) \in Ruleset /\ Grown(fetched, Updated(fetched, Batch(id)))
  BY <1>1, UpdatedGrows
<1>3. id \in Covering(before)
  <2>1. plan = PlanOf(enabled, before) /\ \E rule \in Rules : plan[rule] = id
    BY NextIsPlanned DEF FixInv, Acting
  <2> QED
    BY <2>1, PlanFacts
<1>4. plan["RS001"] # NewId
  <2>1. "RS001" \in Rules /\ plan = PlanOf(enabled, before)
    BY DEF Rules, FixInv, Acting
  <2> QED
    BY <1>3, <2>1, PlanFacts
<1>5. id \in Covering(repo)
  BY <1>3, CoveringGrows DEF FixInv, Acting
<1>6. Queued(WithRuleset(id, Updated(fetched, Batch(id)))) => Queued(repo)
  <2> DEFINE rs == Updated(fetched, Batch(id))
             now == WithRuleset(id, rs)
  <2>1. "merge_queue" \in rs.kinds
          => id \in Covering(repo) /\ "merge_queue" \in repo.rulesets[id].kinds
    BY <1>1, <1>5, UpdatedAddsNoQueue
  <2>2. now.rulesets = [repo.rulesets EXCEPT ![id] = rs]
    BY <1>1, <1>2, StoredGrows
  <2>3. repo.rulesets \in [Ids -> Ruleset \cup {NoRuleset}]
    BY <1>1 DEF Facts
  <2> HIDE DEF rs, now
  <2>4. Queued(now) => Queued(repo)
    BY <2>1, <2>2, <2>3, StoredQueue
  <2> QED
    BY <2>4 DEF now, rs
<1> QED
  BY <1>1, <1>2, <1>4, <1>5, <1>6, StoredGrows

(* POST stores a ruleset where there was none, and nothing covered the     *)
(* branch.                                                                 *)
LEMMA PostWrites ==
  ASSUME FixInv, NEW id \in Free, IsNext(NewId), pc = "act", "RS001" \in Batch(NewId)
  PROVE  LET now == WithRuleset(id, Updated(Blank, Batch(NewId))) IN
         /\ now \in Facts /\ AllGrown(repo, now)
         /\ now.rulesets = [repo.rulesets EXCEPT ![id] = Updated(Blank, Batch(NewId))]
         /\ now.reported = repo.reported /\ now.legacy = repo.legacy
         /\ "RS001" \in enabled /\ Covering(repo) = {} /\ (Queued(now) => Queued(repo))
<1>1. repo \in Facts /\ id \in Ids /\ repo.rulesets[id] = NoRuleset
  BY DEF FixInv, TypeOK, Free
<1>2. Updated(Blank, Batch(NewId)) \in Ruleset
  BY BlankTyped, UpdatedGrows
<1>3. Grown(repo.rulesets[id], Updated(Blank, Batch(NewId)))
  BY <1>1 DEF Grown
<1>4. plan["RS001"] = NewId /\ plan = PlanOf(enabled, before) /\ "RS001" \in Rules
  BY DEF Batch, FixInv, Acting, Rules
<1>5. "RS001" \in enabled /\ Covering(before) = {}
  BY <1>4, PlanFacts
<1>6. results["RS001"] = "none"
  <2>1. PICK rule \in Rules : plan[rule] = NewId /\ results[rule] = "none"
    BY DEF IsNext, Pending, Batch
  <2> QED
    BY <1>4, <2>1 DEF FixInv, Shared
<1>7. Covering(repo) = Covering(before)
  BY <1>4, <1>6 DEF FixInv, Acting, Covering
<1>8. Queued(WithRuleset(id, Updated(Blank, Batch(NewId)))) => Queued(repo)
  <2>1. "merge_queue" \notin Updated(Blank, Batch(NewId)).kinds
    BY UpdatedAddsNoQueue DEF Blank
  <2> DEFINE rs == Updated(Blank, Batch(NewId))
             now == WithRuleset(id, rs)
  <2>2. now.rulesets = [repo.rulesets EXCEPT ![id] = rs]
    BY <1>1, <1>2, <1>3, StoredGrows
  <2>3. repo.rulesets \in [Ids -> Ruleset \cup {NoRuleset}] /\ "merge_queue" \notin rs.kinds
    BY <1>1, <2>1 DEF Facts
  <2> HIDE DEF rs, now
  <2>4. Queued(now) => Queued(repo)
    BY <1>1, <2>2, <2>3, StoredQueue
  <2> QED
    BY <2>4 DEF now, rs
<1> QED
  BY <1>1, <1>2, <1>3, <1>5, <1>7, <1>8, StoredGrows

-----------------------------------------------------------------------------
(* Every step *)

LEMMA GatherTyped ==
  ASSUME FixInv
  PROVE  /\ WithSettings \in Facts /\ WithRulesets \in Facts /\ WithRest \in Facts
         /\ WithRulesets.rulesets = repo.rulesets
         /\ WithRest.rulesets = seen.rulesets
         /\ WithRest.legacy = repo.legacy /\ WithRest.reported = repo.reported
  BY DEF FixInv, TypeOK, Facts, WithSettings, WithRulesets, WithRest

LEMMA GatherKeeps ==
  ASSUME FixInv, NEW from, NEW to \in Steps, NEW read \in Facts, Gather(from, to, read),
         UNCHANGED enabled, to \notin {"act", "put"},
         to \in {"rest", "plan"} => read.rulesets = repo.rulesets,
         to = "plan" => read.legacy = repo.legacy /\ read.reported = repo.reported
  PROVE  FixInv'
<1>1. repo' = repo /\ repo' \in Facts /\ edits' \in 0..MaxEdits
  BY DEF Gather, FixInv, TypeOK
<1>2. CASE ReadFailed /\ Forget
  <2>1. faults' \in 0..MaxFaults
    BY <1>2, FaultTyped DEF FixInv, ReadFailed
  <2> QED
    BY <1>1, <1>2, <2>1, ForgetKeeps
<1>3. CASE pc' = to /\ seen' = read /\ UNCHANGED <<before, plan, fetched, results, faults>>
  <2>1. TypeOK'
    BY <1>1, <1>3 DEF FixInv, TypeOK
  <2> QED
    BY <1>1, <1>3, <2>1 DEF FixInv, Following, Acting, Fetched, Shared
<1> QED
  BY <1>2, <1>3 DEF Gather

LEMMA GathersKeep ==
  ASSUME FixInv, GatherBefore \/ GatherAfter, UNCHANGED enabled
  PROVE  FixInv'
<1> USE GatherTyped DEF Steps
<1>1. CASE Gather("settings", "rulesets", WithSettings)
  BY <1>1, GatherKeeps
<1>2. CASE Gather("rulesets", "rest", WithRulesets)
  BY <1>2, GatherKeeps
<1>3. CASE Gather("rest", "plan", WithRest)
  <2>1. WithRest.rulesets = repo.rulesets
    BY <1>3 DEF Gather, FixInv, Following
  <2> QED
    BY <1>3, <2>1, GatherKeeps
<1>4. CASE Gather("settings2", "rulesets2", WithSettings)
  BY <1>4, GatherKeeps
<1>5. CASE Gather("rulesets2", "rest2", WithRulesets)
  BY <1>5, GatherKeeps
<1>6. CASE Gather("rest2", "report", WithRest)
  BY <1>6, GatherKeeps
<1> QED
  BY <1>1, <1>2, <1>3, <1>4, <1>5, <1>6 DEF GatherBefore, GatherAfter

LEMMA PlanKeeps ==
  ASSUME FixInv, PlanFixes, UNCHANGED enabled
  PROVE  FixInv'
<1>1. plan' = PlanOf(enabled, seen) /\ plan' \in [Rules -> Calls]
  <2>1. DOMAIN PlanOf(enabled, seen) = Rules
        /\ PlanOf(enabled, seen) = [r \in Rules |-> PlanOf(enabled, seen)[r]]
    BY DEF PlanOf
  <2>2. \A r \in Rules : PlanOf(enabled, seen)[r] \in Calls
    BY PlanFacts
  <2> QED
    BY <2>1, <2>2 DEF PlanFixes
<1>2. results' = [r \in Rules |-> IF plan'[r] = "rejected" THEN "rejected" ELSE "none"]
  BY DEF PlanFixes
<1>3. TypeOK'
  BY <1>1, <1>2 DEF PlanFixes, FixInv, TypeOK, Steps, Outcomes
<1>4. AllGrown(seen, seen)
  BY DEF AllGrown, Grown
<1>5. AllGrown(before', repo')
  BY <1>4 DEF PlanFixes, FixInv, Following, AllGrown
<1>6. Acting'
  <2>1. Queued(repo') <=> Queued(before')
    BY SameQueue DEF PlanFixes, FixInv, Following
  <2> QED
    BY <1>1, <1>5, <2>1 DEF PlanFixes, FixInv, Following, Acting
<1>7. Shared'
  BY <1>2 DEF Shared
<1> QED
  BY <1>3, <1>6, <1>7 DEF PlanFixes, FixInv, Following, Fetched

(* What leaves rulesets and protection alone keeps them grown.             *)
LEMMA AllGrownSame ==
  ASSUME NEW F, NEW G, G.rulesets = F.rulesets
  PROVE  AllGrown(F, G)
  BY DEF AllGrown, Grown

LEMMA SettingsKeep ==
  ASSUME FixInv, Patch \/ SetFork \/ DeleteLegacy, UNCHANGED enabled
  PROVE  FixInv'
<1>1. ASSUME NEW call, NEW possible, NEW effect, NEW ok \in BOOLEAN, NEW changed \in Facts,
             pc = "act", Sent(possible, effect, ok), Record(call, ok),
             repo' = IF effect THEN changed ELSE repo,
             changed.rulesets = repo.rulesets, changed.reported = repo.reported,
             changed.legacy \in {repo.legacy, NoLegacy}
      PROVE  FixInv'
  <2>1. /\ repo' \in Facts /\ repo'.rulesets = repo.rulesets
        /\ repo'.reported = repo.reported /\ repo'.legacy \in {repo.legacy, NoLegacy}
    BY <1>1 DEF FixInv, TypeOK
  <2>2. faults' \in 0..MaxFaults
    BY <1>1, SentTyped DEF FixInv
  <2> QED
    BY <1>1, <2>1, <2>2, AllGrownSame, SameQueue, RecordKeeps
<1>2. CASE Patch
  <2> DEFINE wanted == Patched(repo.settings, Batch("patch"))
             changed == [repo EXCEPT !.settings = wanted]
  <2>1. wanted \in SUBSET Methods
    BY DEF Patched, Methods, FixInv, TypeOK, Facts
  <2>2. PICK effect \in BOOLEAN, ok \in BOOLEAN :
          /\ pc = "act" /\ Sent(wanted # {}, effect, ok) /\ Record("patch", ok)
          /\ repo' = IF effect THEN changed ELSE repo
    BY <1>2 DEF Patch
  <2> HIDE DEF wanted
  <2>3. /\ changed \in Facts /\ changed.rulesets = repo.rulesets
        /\ changed.reported = repo.reported /\ changed.legacy = repo.legacy
    BY <2>1 DEF FixInv, TypeOK, Facts
  <2> HIDE DEF changed
  <2> QED
    BY <1>1, <2>2, <2>3
<1>3. CASE SetFork
  <2> DEFINE changed == [repo EXCEPT !.fork = "all"]
  <2>1. PICK effect \in BOOLEAN, ok \in BOOLEAN :
          /\ pc = "act" /\ Sent(TRUE, effect, ok) /\ Record("fork", ok)
          /\ repo' = IF effect THEN changed ELSE repo
    BY <1>3 DEF SetFork
  <2>2. /\ changed \in Facts /\ changed.rulesets = repo.rulesets
        /\ changed.reported = repo.reported /\ changed.legacy = repo.legacy
    BY DEF FixInv, TypeOK, Facts
  <2> HIDE DEF changed
  <2> QED
    BY <1>1, <2>1, <2>2
<1>4. CASE DeleteLegacy
  <2> DEFINE changed == [repo EXCEPT !.legacy = NoLegacy]
  <2>1. PICK effect \in BOOLEAN, ok \in BOOLEAN :
          /\ pc = "act" /\ Sent(repo.legacy # NoLegacy, effect, ok) /\ Record("delete", ok)
          /\ repo' = IF effect THEN changed ELSE repo
    BY <1>4 DEF DeleteLegacy
  <2>2. /\ changed \in Facts /\ changed.rulesets = repo.rulesets
        /\ changed.reported = repo.reported /\ changed.legacy = NoLegacy
    BY DEF FixInv, TypeOK, Facts
  <2> HIDE DEF changed
  <2> QED
    BY <1>1, <2>1, <2>2
<1> QED
  BY <1>2, <1>3, <1>4

LEMMA FetchKeeps ==
  ASSUME FixInv, FetchRuleset, UNCHANGED enabled
  PROVE  FixInv'
<1>1. PICK id \in Ids :
        /\ pc = "act" /\ IsNext(id) /\ repo' = repo
        /\ \/ Record(id, FALSE) /\ (ReadFailed \/ UNCHANGED faults)
           \/ /\ repo.rulesets[id] # NoRuleset
              /\ fetched' = repo.rulesets[id] /\ pc' = "put"
              /\ UNCHANGED <<seen, before, plan, results, faults, edits>>
  BY DEF FetchRuleset
<1>2. CASE Record(id, FALSE) /\ (ReadFailed \/ UNCHANGED faults)
  <2>1. faults' \in 0..MaxFaults /\ repo \in Facts
    BY <1>2, FaultTyped DEF FixInv, ReadFailed, TypeOK
  <2> QED
    BY <1>1, <1>2, <2>1, AllGrownSame, SameQueue, RecordKeeps
<1>3. CASE /\ repo.rulesets[id] # NoRuleset
           /\ fetched' = repo.rulesets[id] /\ pc' = "put"
           /\ UNCHANGED <<seen, before, plan, results, faults, edits>>
  <2>1. TypeOK'
    BY <1>1, <1>3 DEF FixInv, TypeOK, Facts, Steps
  <2>2. \A other \in Ids : IsNext(other)' => fetched' = repo'.rulesets[other]
    BY <1>1, <1>3, NextUnchanged, NextIsOne
  <2>3. Fetched'
    BY <2>2 DEF Fetched
  <2> QED
    BY <1>1, <1>3, <2>1, <2>3 DEF FixInv, Following, Acting, Shared
<1> QED
  BY <1>1, <1>2, <1>3

LEMMA PutKeeps ==
  ASSUME FixInv, PutRuleset, UNCHANGED enabled
  PROVE  FixInv'
<1>1. PICK id \in Ids, effect \in BOOLEAN, ok \in BOOLEAN :
        /\ pc = "put" /\ IsNext(id) /\ Record(id, ok)
        /\ Sent(repo.rulesets[id] # NoRuleset, effect, ok)
        /\ repo' = IF effect THEN WithRuleset(id, Updated(fetched, Batch(id))) ELSE repo
  BY DEF PutRuleset
<1>2. faults' \in 0..MaxFaults
  BY <1>1, SentTyped DEF FixInv
<1>3. /\ repo' \in Facts /\ AllGrown(repo, repo')
      /\ repo'.reported = repo.reported /\ repo'.legacy = repo.legacy
      /\ plan["RS001"] # NewId /\ (Queued(repo') => Queued(repo))
  BY <1>1, PutWrites, AllGrownSame, SameQueue DEF FixInv, TypeOK
<1> QED
  BY <1>1, <1>2, <1>3, RecordKeeps

LEMMA CreateKeeps ==
  ASSUME FixInv, CreateRuleset, UNCHANGED enabled
  PROVE  FixInv'
<1>1. PICK effect \in BOOLEAN, ok \in BOOLEAN :
        /\ pc = "act" /\ IsNext(NewId) /\ Record(NewId, ok)
        /\ Sent("RS001" \in Batch(NewId) /\ Free # {}, effect, ok)
        /\ IF effect
             THEN \E id \in Free : repo' = WithRuleset(id, Updated(Blank, Batch(NewId)))
             ELSE repo' = repo
  BY DEF CreateRuleset, Post
<1>2. faults' \in 0..MaxFaults
  BY <1>1, SentTyped DEF FixInv
<1>3. CASE repo' = repo
  BY <1>1, <1>2, <1>3, AllGrownSame, SameQueue, RecordKeeps DEF FixInv, TypeOK
<1>4. CASE repo' # repo
  <2>1. "RS001" \in Batch(NewId) /\ effect
    BY <1>1, <1>4 DEF Sent
  <2> PICK id \in Free : repo' = WithRuleset(id, Updated(Blank, Batch(NewId)))
    BY <1>1, <2>1
  <2>2. /\ repo' \in Facts /\ AllGrown(repo, repo')
        /\ repo'.reported = repo.reported /\ repo'.legacy = repo.legacy
        /\ Queued(repo') => Queued(repo)
    BY <1>1, <2>1, PostWrites
  <2>3. plan["RS001"] = NewId
    BY <2>1 DEF Batch
  <2> QED
    BY <1>1, <1>2, <2>2, <2>3, RecordKeeps
<1> QED
  BY <1>3, <1>4

LEMMA EditKeeps ==
  ASSUME FixInv, EditRuleset \/ EditElse, UNCHANGED enabled
  PROVE  FixInv'
<1>1. pc = "idle" /\ UNCHANGED <<local, faults>> /\ edits' \in 0..MaxEdits
  BY RulesetFixAssumption DEF EditRuleset, EditElse, Edit, FixInv, TypeOK
<1>2. repo' \in Facts
  <2>1. CASE EditRuleset
    <3>1. PICK i \in Ids, rs \in SomeRulesets \cup {NoRuleset} : repo' = WithRuleset(i, rs)
      BY <2>1 DEF EditRuleset, Edit
    <3> DEFINE now == [repo.rulesets EXCEPT ![i] = rs]
    <3>2. now \in [Ids -> Ruleset \cup {NoRuleset}]
      BY RulesetFixAssumption DEF FixInv, TypeOK, Facts
    <3> HIDE DEF now
    <3>3. repo' = [repo EXCEPT !.rulesets = now]
      BY <3>1 DEF WithRuleset, now
    <3> QED
      BY <3>2, <3>3 DEF FixInv, TypeOK, Facts
  <2>2. CASE EditElse
    <3>1. ASSUME NEW s \in SomeSettings, Edit([repo EXCEPT !.settings = s]) PROVE repo' \in Facts
      BY <3>1, RulesetFixAssumption DEF Edit, FixInv, TypeOK, Facts
    <3>2. ASSUME NEW f \in SomeForks, Edit([repo EXCEPT !.fork = f]) PROVE repo' \in Facts
      BY <3>2, RulesetFixAssumption DEF Edit, FixInv, TypeOK, Facts
    <3>3. ASSUME NEW l \in SomeLegacy \cup {NoLegacy}, Edit([repo EXCEPT !.legacy = l])
          PROVE  repo' \in Facts
      BY <3>3, RulesetFixAssumption DEF Edit, FixInv, TypeOK, Facts
    <3>4. ASSUME NEW r \in SomeReported, Edit([repo EXCEPT !.reported = r]) PROVE repo' \in Facts
      BY <3>4, RulesetFixAssumption DEF Edit, FixInv, TypeOK, Facts
    <3> QED
      BY <2>2, <3>1, <3>2, <3>3, <3>4 DEF EditElse
  <2> QED
    BY <2>1, <2>2
<1>3. TypeOK'
  BY <1>1, <1>2 DEF FixInv, TypeOK, local
<1> QED
  BY <1>1, <1>3 DEF FixInv, Following, Acting, Fetched, Shared, local

LEMMA FixStep == FixInv /\ [Next]_vars => FixInv'
<1> SUFFICES ASSUME FixInv, [Next]_vars PROVE FixInv'
  OBVIOUS
<1>1. CASE (Launch \/ Executed) /\ UNCHANGED enabled
  <2>1. TypeOK'
    BY <1>1 DEF Launch, Executed, FixInv, TypeOK, Steps
  <2> QED
    BY <1>1, <2>1 DEF Launch, Executed, FixInv, Following, Acting, Fetched, Shared
<1>2. CASE (Report \/ Crash) /\ UNCHANGED enabled
  <2>1. /\ Forget /\ repo' \in Facts
        /\ faults' \in 0..MaxFaults /\ edits' \in 0..MaxEdits
    BY <1>2, FaultTyped DEF Report, Crash, FixInv, TypeOK
  <2> QED
    BY <1>2, <2>1, ForgetKeeps
<1>3. CASE UNCHANGED vars
  <2>1. TypeOK'
    BY <1>3 DEF vars, local, FixInv, TypeOK
  <2>2. Fetched'
    BY <1>3, NextUnchanged DEF vars, local, FixInv, Fetched
  <2> QED
    BY <1>3, <2>1, <2>2 DEF vars, local, FixInv, Following, Acting, Shared
<1> QED
  BY <1>1, <1>2, <1>3, GathersKeep, PlanKeeps, SettingsKeep, FetchKeeps, PutKeeps,
     CreateKeeps, EditKeeps DEF Next, Tool

THEOREM FixInvariant == Spec => []FixInv
  BY FixInit, FixStep, PTL DEF Spec

-----------------------------------------------------------------------------
(* What a step changes *)

(* The calls of one invocation: a ruleset is written or created, or the    *)
(* legacy protection deleted.                                              *)
Put(id)  == /\ pc = "put" /\ IsNext(id)
            /\ repo' = WithRuleset(id, Updated(fetched, Batch(id)))
Make(id) == /\ pc = "act" /\ IsNext(NewId) /\ id \in Free /\ "RS001" \in Batch(NewId)
            /\ repo' = WithRuleset(id, Updated(Blank, Batch(NewId)))
Delete   == /\ pc = "act" /\ IsNext("delete")
            /\ repo' = [repo EXCEPT !.legacy = NoLegacy]
Keep     == /\ repo'.rulesets = repo.rulesets /\ repo'.legacy = repo.legacy
            /\ repo'.reported = repo.reported

LEMMA StepChanges ==
  ASSUME FixInv, [Next]_vars, edits' = edits
  PROVE  Keep \/ Delete \/ \E id \in Ids : Put(id) \/ Make(id)
<1>1. ~(EditRuleset \/ EditElse)
  BY DEF EditRuleset, EditElse, Edit, FixInv, TypeOK
<1>2. CASE UNCHANGED repo
  BY <1>2 DEF Keep
<1>3. CASE Patch \/ SetFork
  <2>1. repo' = repo \/ \E s : repo' = [repo EXCEPT !.settings = s]
        \/ repo' = [repo EXCEPT !.fork = "all"]
    BY <1>3 DEF Patch, SetFork
  <2> QED
    BY <2>1 DEF Keep, FixInv, TypeOK, Facts
<1>4. CASE DeleteLegacy
  BY <1>2, <1>4 DEF DeleteLegacy, Delete
<1>5. CASE PutRuleset
  BY <1>2, <1>5 DEF PutRuleset, Put
<1>6. CASE CreateRuleset
  <2>1. PICK effect \in BOOLEAN, ok \in BOOLEAN :
          /\ pc = "act" /\ IsNext(NewId)
          /\ Sent("RS001" \in Batch(NewId) /\ Free # {}, effect, ok)
          /\ IF effect
               THEN \E id \in Free : repo' = WithRuleset(id, Updated(Blank, Batch(NewId)))
               ELSE repo' = repo
    BY <1>6 DEF CreateRuleset, Post
  <2>2. CASE effect
    BY <2>1, <2>2 DEF Sent, Make, Free
  <2>3. CASE ~effect
    BY <1>2, <2>1, <2>3
  <2> QED
    BY <2>2, <2>3
<1>7. CASE Launch \/ GatherBefore \/ PlanFixes \/ FetchRuleset \/ Executed \/ GatherAfter
           \/ Report \/ Crash \/ UNCHANGED vars
  BY <1>2, <1>7 DEF Launch, GatherBefore, PlanFixes, FetchRuleset, Executed, GatherAfter,
     Gather, Report, Crash, vars
<1> QED
  BY <1>1, <1>3, <1>4, <1>5, <1>6, <1>7 DEF Next, Tool

(* A check that a changed ruleset requires it required before, or it is    *)
(* the one RS012 wants.                                                    *)
LEMMA UpdatedRequires ==
  ASSUME NEW rs \in Ruleset, NEW rules, NEW c \in Contexts, Requires(Updated(rs, rules), c)
  PROVE  Requires(rs, c) \/ (c = Complete /\ "RS012" \in rules)
  BY DEF Updated, Requires, Ruleset

(* RS012 is planned only for a check that is reported still, and where     *)
(* there is still no merge queue.                                          *)
LEMMA PlannedIsReported ==
  ASSUME FixInv, pc \in {"act", "put"}, NEW call \in Ids \cup {NewId}, "RS012" \in Batch(call)
  PROVE  Complete \in repo.reported /\ ~Queued(repo)
<1>1. /\ plan = PlanOf(enabled, before) /\ plan["RS012"] = call /\ "RS012" \in Rules
      /\ repo.reported = before.reported /\ (Queued(repo) => Queued(before))
  BY DEF FixInv, Acting, Batch, Rules
<1> QED
  BY <1>1, PlanFacts

-----------------------------------------------------------------------------
(* Theorems *)

(* Every variable stays in its type.                                       *)
THEOREM FixTypes == Spec => []TypeOK
<1>1. FixInv => TypeOK
  BY DEF FixInv
<1> QED
  BY <1>1, FixInvariant, PTL

(* execute_planned_effects (src/remediation.rs) never takes away what is   *)
(* enforced on the default branch, whatever has failed before a call.      *)
THEOREM ProtectionAlwaysKept == Spec => ProtectionKept
<1>1. FixInv /\ [Next]_vars => [edits' # edits \/ Enforced(repo) \subseteq Enforced(repo')]_vars
  <2> SUFFICES ASSUME FixInv, [Next]_vars, edits' = edits
               PROVE  Enforced(repo) \subseteq Enforced(repo')
    OBVIOUS
  <2>1. CASE Keep
    BY <2>1, AllGrownSame, EnforcedGrows DEF Keep
  <2>2. ASSUME NEW id \in Ids, Put(id) PROVE Enforced(repo) \subseteq Enforced(repo')
    BY <2>2, PutWrites, EnforcedGrows DEF Put
  <2>3. ASSUME NEW id \in Ids, Make(id) PROVE Enforced(repo) \subseteq Enforced(repo')
    BY <2>3, PostWrites, EnforcedGrows DEF Make
  <2>4. CASE Delete
    <3>1. PICK rule \in Rules : plan[rule] = "delete"
      BY <2>4, NextIsPlanned DEF Delete
    <3>2. /\ before \in Facts /\ AllGrown(before, repo)
          /\ repo.legacy \in {before.legacy, NoLegacy} /\ plan = PlanOf(enabled, before)
      BY <2>4 DEF Delete, FixInv, TypeOK, Acting
    <3>3. Superseded(before.legacy, before) /\ before.legacy # NoLegacy
      BY <3>1, <3>2, PlanFacts
    <3>4. repo'.rulesets = repo.rulesets /\ repo'.legacy = NoLegacy
      BY <2>4 DEF Delete, FixInv, TypeOK, Facts
    <3> QED
      BY <3>2, <3>3, <3>4, EnforcedWithoutLegacy
  <2> QED
    BY <2>1, <2>2, <2>3, <2>4, StepChanges
<1> QED
  BY <1>1, FixInvariant, PTL DEF Spec, ProtectionKept

(* A check that a fix starts to require is one that every pull request     *)
(* reports, and no merge queue applies then                                *)
(* (plan_ensure_required_status_check, src/remediation.rs).                *)
THEOREM MergesNeverBlocked == Spec => NeverBlocksMerges
<1>1. ASSUME FixInv, [Next]_vars, edits' = edits, NEW i \in Covering(repo'),
             NEW c \in Blocking(repo'), Requires(repo'.rulesets[i], c)
      PROVE  i \in Covering(repo) /\ Requires(repo.rulesets[i], c)
  <2>0. c \in Contexts /\ (c \notin repo'.reported \/ Queued(repo'))
    BY <1>1 DEF Blocking
  <2>1. CASE Keep
    BY <1>1, <2>1 DEF Keep, Covering
  <2>2. CASE Delete
    BY <1>1, <2>2 DEF Delete, Covering, FixInv, TypeOK, Facts
  <2>3. ASSUME NEW id \in Ids, Put(id) PROVE i \in Covering(repo) /\ Requires(repo.rulesets[i], c)
    <3>1. /\ repo'.rulesets = [repo.rulesets EXCEPT ![id] = Updated(fetched, Batch(id))]
          /\ Queued(repo') => Queued(repo)
          /\ repo'.reported = repo.reported /\ fetched = repo.rulesets[id]
          /\ fetched \in Ruleset /\ id \in Covering(repo)
          /\ repo.rulesets \in [Ids -> Ruleset \cup {NoRuleset}]
      BY <1>1, <2>3, PutWrites DEF Put, FixInv, TypeOK, Facts
    <3>2. CASE i # id
      BY <1>1, <3>1, <3>2 DEF Covering
    <3>3. CASE i = id
      <4>1. Requires(Updated(fetched, Batch(id)), c)
        BY <1>1, <3>1, <3>3
      <4>2. Requires(fetched, c) \/ (c = Complete /\ "RS012" \in Batch(id))
        BY <2>0, <3>1, <4>1, UpdatedRequires
      <4> QED
        BY <1>1, <2>0, <2>3, <3>1, <3>3, <4>2, PlannedIsReported DEF Put
    <3> QED
      BY <3>2, <3>3
  <2>4. ASSUME NEW id \in Ids, Make(id) PROVE i \in Covering(repo) /\ Requires(repo.rulesets[i], c)
    <3>1. /\ repo'.rulesets = [repo.rulesets EXCEPT ![id] = Updated(Blank, Batch(NewId))]
          /\ Queued(repo') => Queued(repo)
          /\ repo'.reported = repo.reported
          /\ repo.rulesets \in [Ids -> Ruleset \cup {NoRuleset}]
      BY <1>1, <2>4, PostWrites DEF Make, FixInv, TypeOK, Facts
    <3>2. CASE i # id
      BY <1>1, <3>1, <3>2 DEF Covering
    <3>3. CASE i = id
      <4>1. Requires(Updated(Blank, Batch(NewId)), c)
        BY <1>1, <3>1, <3>3
      <4>2. c = Complete /\ "RS012" \in Batch(NewId)
        BY <2>0, <4>1, BlankTyped, UpdatedRequires DEF Blank, Requires
      <4> QED
        BY <1>1, <2>0, <2>4, <3>1, <4>2, PlannedIsReported DEF Make
    <3> QED
      BY <3>2, <3>3
  <2> QED
    BY <1>1, <2>1, <2>2, <2>3, <2>4, StepChanges
<1>2. FixInv /\ [Next]_vars =>
        [\/ edits' # edits
         \/ \A i \in Covering(repo'), c \in Blocking(repo') :
              Requires(repo'.rulesets[i], c)
                => i \in Covering(repo) /\ Requires(repo.rulesets[i], c)]_vars
  BY <1>1
<1> QED
  BY <1>2, FixInvariant, PTL DEF Spec, NeverBlocksMerges

(* create_default_branch_ruleset (src/remediation.rs) runs only when no    *)
(* ruleset covers the default branch, also in a later invocation after a   *)
(* creation whose answer was lost.                                         *)
THEOREM CreatesOnlyThen == Spec => CreatesOnlyWhenUncovered
<1>1. ASSUME FixInv, [Next]_vars, edits' = edits, NEW i \in Ids,
             repo.rulesets[i] = NoRuleset, repo'.rulesets[i] # NoRuleset
      PROVE  "RS001" \in enabled /\ Covering(repo) = {}
  <2>1. ~Keep /\ ~Delete
    BY <1>1 DEF Keep, Delete, FixInv, TypeOK, Facts
  <2>2. ASSUME NEW id \in Ids, Put(id) PROVE FALSE
    <3>1. /\ repo'.rulesets = [repo.rulesets EXCEPT ![id] = Updated(fetched, Batch(id))]
          /\ id \in Covering(repo)
      BY <1>1, <2>2, PutWrites DEF Put
    <3> QED
      BY <1>1, <3>1 DEF Covering, FixInv, TypeOK, Facts
  <2>3. ASSUME NEW id \in Ids, Make(id) PROVE "RS001" \in enabled /\ Covering(repo) = {}
    BY <1>1, <2>3, PostWrites DEF Make
  <2> QED
    BY <1>1, <2>1, <2>2, <2>3, StepChanges
<1>2. FixInv /\ [Next]_vars =>
        [\A i \in Ids :
           repo.rulesets[i] = NoRuleset /\ repo'.rulesets[i] # NoRuleset
             => edits' # edits \/ ("RS001" \in enabled /\ Covering(repo) = {})]_vars
  BY <1>1
<1> QED
  BY <1>2, FixInvariant, PTL DEF Spec, CreatesOnlyWhenUncovered

-----------------------------------------------------------------------------
(* What fixes show *)

Passing(F) == {rule \in Rules : Verdict(rule, F) = "pass"}

RulesetRules == {"RS005", "RS008", "RS010", "RS011", "RS012", "RS013"}

(* A change to a ruleset satisfies the rules it is made for, and those     *)
(* that the ruleset satisfied before.                                      *)
LEMMA UpdatedSatisfies ==
  ASSUME NEW rs \in Ruleset, NEW rules, NEW rule,
         Satisfies(rs, rule) \/ (rule \in rules /\ rule \in RulesetRules \cup {"RS001"})
  PROVE  Satisfies(Updated(rs, rules), rule)
<1> DEFINE added == {KindOf[r] : r \in rules \cap DOMAIN KindOf}
           now   == Updated(rs, rules)
<1>1. /\ rs.kinds \subseteq now.kinds /\ added \subseteq now.kinds
      /\ "RS011" \in rules => "pull_request" \in now.kinds
  BY DEF Updated
<1>2. /\ now.methods = IF "RS011" \in rules THEN {"squash"} ELSE rs.methods
      /\ now.strict <=> (rs.strict \/ "RS013" \in rules)
  BY DEF Updated, Ruleset
<1>3. /\ "RS012" \in rules => now.checks[Complete] = "actions"
      /\ rs.checks[Complete] = "actions" => now.checks[Complete] = "actions"
  <2>1. now.checks = IF "RS012" \in rules
                       THEN [rs.checks EXCEPT ![Complete] = "actions"] ELSE rs.checks
    BY DEF Updated
  <2>2. rs.checks \in [Contexts -> Sources] /\ Complete \in Contexts
    BY RulesetsAssumption DEF Ruleset
  <2> HIDE DEF now
  <2> QED
    BY <2>1, <2>2
<1>4. rule \in rules /\ rule \in {"RS005", "RS008", "RS010"} => KindOf[rule] \in added
  BY DEF KindOf
<1>5. rule \in {"RS005", "RS008", "RS010"} => rule \in DOMAIN KindOf
  BY DEF KindOf
<1> HIDE DEF added, now
<1> SUFFICES Satisfies(now, rule)
  BY DEF now
<1>6. CASE Satisfies(rs, rule)
  BY <1>1, <1>2, <1>3, <1>6 DEF Satisfies
<1>7. CASE rule \in rules /\ rule \in RulesetRules \cup {"RS001"}
  BY <1>1, <1>2, <1>3, <1>4, <1>5, <1>7 DEF Satisfies, RulesetRules
<1> QED
  BY <1>6, <1>7

(* Which rules a call can be planned for.                                  *)
LEMMA PlannedFor ==
  ASSUME NEW on, NEW F, NEW rule \in Rules
  PROVE  LET call == PlanOf(on, F)[rule] IN
         /\ call = "patch"  => rule \in {"ST004", "ST005", "ST006"}
         /\ call = "fork"   => rule = "ST007"
         /\ call = "delete" => rule = "RS007"
         /\ call \in Ids \cup {NewId} => rule \in RulesetRules \cup {"RS001"}
<1> USE RulesetsAssumption DEF NoCalls, NewId
<1>1. \/ PlanOf(on, F)[rule] \in {"none", "rejected"}
      \/ PlanOf(on, F)[rule] = FixOf(rule, F)
  BY DEF PlanOf
<1>2. CASE rule \in {"ST004", "ST005", "ST006"}
  BY <1>1, <1>2 DEF FixOf
<1>3. CASE rule = "ST007"
  BY <1>1, <1>3 DEF FixOf
<1>4. CASE rule \in {"RS006", "RS007"}
  BY <1>1, <1>4 DEF FixOf
<1>5. CASE rule \in RulesetRules \cup {"RS001"}
  <2>1. FixOf(rule, F) \in Ids \cup {NewId, "none", "rejected"}
    BY <1>5, PlaceFacts DEF FixOf, PlaceCheck, RulesetRules
  <2> QED
    BY <1>1, <1>5, <2>1
<1> QED
  BY <1>2, <1>3, <1>4, <1>5 DEF Rules, RulesetRules

(* A rule about rulesets passes when some covering ruleset satisfies it.   *)
LEMMA RulesetVerdict ==
  ASSUME NEW F, NEW rule \in RulesetRules \cup {"RS001", "RS006"}
  PROVE  Verdict(rule, F) = "pass" <=> \E i \in Covering(F) : Satisfies(F.rulesets[i], rule)
  BY DEF Verdict, RulesetRules

LEMMA OtherVerdicts ==
  ASSUME NEW F
  PROVE  /\ Verdict("RS007", F) = "pass" <=> F.legacy = NoLegacy
         /\ Verdict("ST004", F) = "pass" <=> "merge" \notin F.settings
         /\ Verdict("ST005", F) = "pass" <=> "rebase" \notin F.settings
         /\ Verdict("ST006", F) = "pass" <=> "squash" \in F.settings
         /\ Verdict("ST007", F) = "pass" <=> F.fork = "all"
  BY DEF Verdict, MethodOf

(* No rule fails that passed, when one ruleset is stored that satisfies    *)
(* what the one before it did.                                             *)
LEMMA StoredPasses ==
  ASSUME NEW F \in Facts, NEW G, NEW id \in Ids, NEW rs \in Ruleset,
         G.rulesets = [F.rulesets EXCEPT ![id] = rs], AllGrown(F, G),
         id \in Covering(F) => \A rule \in Rules :
           Satisfies(F.rulesets[id], rule) => Satisfies(rs, rule),
         G.legacy = F.legacy, G.settings = F.settings, G.fork = F.fork
  PROVE  Passing(F) \subseteq Passing(G)
<1> SUFFICES ASSUME NEW rule \in Rules, Verdict(rule, F) = "pass"
             PROVE  Verdict(rule, G) = "pass"
  BY DEF Passing
<1>1. CASE rule \in {"RS007", "ST004", "ST005", "ST006", "ST007"}
  BY <1>1, OtherVerdicts
<1>2. CASE rule \in RulesetRules \cup {"RS001", "RS006"}
  <2>1. PICK i \in Covering(F) : Satisfies(F.rulesets[i], rule)
    BY <1>2, RulesetVerdict
  <2>2. i \in Covering(G) /\ Satisfies(G.rulesets[i], rule)
    BY <2>1, CoveringGrows DEF Covering, Facts
  <2> QED
    BY <1>2, <2>2, RulesetVerdict
<1> QED
  BY <1>1, <1>2 DEF Rules, RulesetRules

(* Within an invocation what was read is so, and from the plan on nothing  *)
(* that passed fails, and what was applied passes.                         *)
Read ==
  /\ pc \in {"rulesets", "rest", "plan", "rulesets2", "rest2", "report"} =>
       seen.settings = repo.settings /\ seen.fork = repo.fork
  /\ pc \in {"rest", "plan", "rest2", "report"} => seen.rulesets = repo.rulesets
  /\ pc \in {"plan", "report"} => seen.legacy = repo.legacy

Showing ==
  pc \in {"act", "put", "settings2", "rulesets2", "rest2", "report"} =>
    /\ Passing(before) \subseteq Passing(repo)
    /\ \A rule \in Rules : results[rule] = "applied" => rule \in Passing(repo)

ShownInv == FixInv /\ Read /\ Showing

(* Verdicts depend on settings, rulesets and legacy protection alone.      *)
LEMMA SamePasses ==
  ASSUME NEW F, NEW G, G.settings = F.settings, G.fork = F.fork,
         G.rulesets = F.rulesets, G.legacy = F.legacy
  PROVE  Passing(F) = Passing(G)
<1>1. Covering(F) = Covering(G)
  BY DEF Covering
<1>2. ASSUME NEW rule \in Rules
      PROVE  Verdict(rule, F) = "pass" <=> Verdict(rule, G) = "pass"
  <2>1. CASE rule \in {"RS007", "ST004", "ST005", "ST006", "ST007"}
    BY <2>1, OtherVerdicts
  <2>2. CASE rule \in RulesetRules \cup {"RS001", "RS006"}
    BY <1>1, <2>2, RulesetVerdict
  <2> QED
    BY <2>1, <2>2 DEF Rules, RulesetRules
<1> QED
  BY <1>2 DEF Passing

LEMMA ForgetShows ==
  ASSUME Forget
  PROVE  Read' /\ Showing'
  BY DEF Forget, Read, Showing

LEMMA GathersShow ==
  ASSUME ShownInv, GatherBefore \/ GatherAfter
  PROVE  Read' /\ Showing'
<1>1. /\ WithSettings.settings = repo.settings /\ WithSettings.fork = repo.fork
      /\ WithRulesets.settings = seen.settings /\ WithRulesets.fork = seen.fork
      /\ WithRulesets.rulesets = repo.rulesets
      /\ WithRest.settings = seen.settings /\ WithRest.fork = seen.fork
      /\ WithRest.rulesets = seen.rulesets /\ WithRest.legacy = repo.legacy
  BY DEF ShownInv, FixInv, TypeOK, Facts, WithSettings, WithRulesets, WithRest
<1>2. CASE Forget
  BY <1>2, ForgetShows
<1>3. CASE ~Forget
  <2>1. repo' = repo /\ UNCHANGED <<before, results>>
    BY <1>3 DEF GatherBefore, GatherAfter, Gather
  <2>2. \/ pc = "settings" /\ pc' = "rulesets" /\ seen' = WithSettings
        \/ pc = "rulesets" /\ pc' = "rest" /\ seen' = WithRulesets
        \/ pc = "rest" /\ pc' = "plan" /\ seen' = WithRest
        \/ pc = "settings2" /\ pc' = "rulesets2" /\ seen' = WithSettings
        \/ pc = "rulesets2" /\ pc' = "rest2" /\ seen' = WithRulesets
        \/ pc = "rest2" /\ pc' = "report" /\ seen' = WithRest
    BY <1>3 DEF GatherBefore, GatherAfter, Gather
  <2>3. Read'
    BY <1>1, <2>1, <2>2 DEF ShownInv, Read
  <2>4. Showing'
    BY <2>1, <2>2 DEF ShownInv, Showing
  <2> QED
    BY <2>3, <2>4
<1> QED
  BY <1>2, <1>3

LEMMA PlanShows ==
  ASSUME ShownInv, PlanFixes
  PROVE  Read' /\ Showing'
<1>1. Passing(seen) = Passing(repo)
  BY SamePasses DEF PlanFixes, ShownInv, Read
<1>2. \A rule \in Rules : results'[rule] # "applied"
  BY DEF PlanFixes
<1> QED
  BY <1>1, <1>2 DEF PlanFixes, ShownInv, Read, Showing

(* The outcome of a call that made nothing fail, and its rules pass.       *)
LEMMA RecordShows ==
  ASSUME ShownInv, pc \in {"act", "put"}, NEW call, NEW ok \in BOOLEAN, Record(call, ok),
         Passing(repo) \subseteq Passing(repo'),
         ok => \A rule \in Rules : plan[rule] = call => Verdict(rule, repo') = "pass"
  PROVE  Read' /\ Showing'
<1>1. ASSUME NEW rule \in Rules, results'[rule] = "applied" PROVE rule \in Passing(repo')
  <2>1. CASE plan[rule] = call
    BY <1>1, <2>1 DEF Record, Passing
  <2>2. CASE plan[rule] # call
    BY <1>1, <2>2 DEF Record, ShownInv, Showing
  <2> QED
    BY <2>1, <2>2
<1>2. Passing(before') \subseteq Passing(repo')
  BY DEF Record, ShownInv, Showing
<1> QED
  BY <1>1, <1>2 DEF Record, Read, Showing

(* The rules that a call is planned for, while it is carried out.          *)
LEMMA ActingFor ==
  ASSUME FixInv, pc \in {"act", "put"}, NEW rule \in Rules
  PROVE  /\ plan[rule] = "patch"  => rule \in {"ST004", "ST005", "ST006"}
         /\ plan[rule] = "fork"   => rule = "ST007"
         /\ plan[rule] = "delete" => rule = "RS007"
         /\ plan[rule] \in Ids \cup {NewId} => rule \in RulesetRules \cup {"RS001"}
  BY PlannedFor DEF FixInv, Acting

LEMMA PatchShows ==
  ASSUME ShownInv, Patch
  PROVE  Read' /\ Showing'
<1> DEFINE wanted == Patched(repo.settings, Batch("patch"))
           asked  == {MethodOf[r] : r \in Batch("patch") \cap DOMAIN MethodOf}
<1>1. PICK effect \in BOOLEAN, ok \in BOOLEAN :
        /\ pc = "act" /\ Sent(wanted # {}, effect, ok) /\ Record("patch", ok)
        /\ repo' = IF effect THEN [repo EXCEPT !.settings = wanted] ELSE repo
  BY DEF Patch
<1>2. wanted = (repo.settings \cup ({"squash"} \cap asked)) \ ({"merge", "rebase"} \cap asked)
  BY DEF Patched
<1>3. ok => effect
  BY <1>1 DEF Sent
<1>4. \A rule \in Rules : plan[rule] = "patch" =>
        rule \in {"ST004", "ST005", "ST006"} /\ MethodOf[rule] \in asked
  <2>1. ASSUME NEW rule \in Rules, plan[rule] = "patch"
        PROVE  rule \in {"ST004", "ST005", "ST006"} /\ MethodOf[rule] \in asked
    <3>1. rule \in {"ST004", "ST005", "ST006"}
      BY <1>1, <2>1, ActingFor DEF ShownInv
    <3>2. rule \in DOMAIN MethodOf /\ rule \in Batch("patch")
      BY <2>1, <3>1 DEF MethodOf, Batch
    <3> QED
      BY <3>1, <3>2
  <2> QED
    BY <2>1
<1> HIDE DEF wanted, asked
<1>5. effect => /\ repo'.settings = wanted /\ repo'.fork = repo.fork
                /\ repo'.rulesets = repo.rulesets /\ repo'.legacy = repo.legacy
  BY <1>1 DEF ShownInv, FixInv, TypeOK, Facts
<1>6. ASSUME NEW rule \in Rules,
             Verdict(rule, repo) = "pass" \/ (plan[rule] = "patch" /\ effect)
      PROVE  Verdict(rule, repo') = "pass"
  <2>1. CASE ~effect
    BY <1>1, <1>6, <2>1
  <2>2. CASE effect /\ rule \in {"ST004", "ST005", "ST006"}
    <3>1. /\ rule = "ST004" /\ plan[rule] = "patch" => "merge" \in asked
          /\ rule = "ST005" /\ plan[rule] = "patch" => "rebase" \in asked
          /\ rule = "ST006" /\ plan[rule] = "patch" => "squash" \in asked
      BY <1>4 DEF MethodOf
    <3> QED
      BY <1>2, <1>5, <1>6, <2>2, <3>1, OtherVerdicts
  <2>3. CASE effect /\ rule \in {"RS007", "ST007"}
    BY <1>4, <1>5, <1>6, <2>3, OtherVerdicts
  <2>4. CASE effect /\ rule \in RulesetRules \cup {"RS001", "RS006"}
    <3>1. Covering(repo') = Covering(repo) /\ rule \notin {"ST004", "ST005", "ST006"}
      BY <1>5, <2>4 DEF Covering, RulesetRules
    <3> QED
      BY <1>4, <1>5, <1>6, <2>4, <3>1, RulesetVerdict
  <2> QED
    BY <2>1, <2>2, <2>3, <2>4 DEF Rules, RulesetRules
<1>7. Passing(repo) \subseteq Passing(repo')
  BY <1>6 DEF Passing
<1> QED
  BY <1>1, <1>3, <1>6, <1>7, RecordShows

LEMMA ForkShows ==
  ASSUME ShownInv, SetFork
  PROVE  Read' /\ Showing'
<1>1. PICK effect \in BOOLEAN, ok \in BOOLEAN :
        /\ pc = "act" /\ Sent(TRUE, effect, ok) /\ Record("fork", ok)
        /\ repo' = IF effect THEN [repo EXCEPT !.fork = "all"] ELSE repo
  BY DEF SetFork
<1>2. ok => effect
  BY <1>1 DEF Sent
<1>3. \A rule \in Rules : plan[rule] = "fork" => rule = "ST007"
  BY <1>1, ActingFor DEF ShownInv
<1>4. effect => /\ repo'.settings = repo.settings /\ repo'.fork = "all"
                /\ repo'.rulesets = repo.rulesets /\ repo'.legacy = repo.legacy
  BY <1>1 DEF ShownInv, FixInv, TypeOK, Facts
<1>5. ASSUME NEW rule \in Rules,
             Verdict(rule, repo) = "pass" \/ (plan[rule] = "fork" /\ effect)
      PROVE  Verdict(rule, repo') = "pass"
  <2>1. CASE ~effect
    BY <1>1, <1>5, <2>1
  <2>2. CASE effect /\ rule \in {"ST004", "ST005", "ST006", "RS007", "ST007"}
    BY <1>3, <1>4, <1>5, <2>2, OtherVerdicts
  <2>3. CASE effect /\ rule \in RulesetRules \cup {"RS001", "RS006"}
    <3>1. Covering(repo') = Covering(repo) /\ rule # "ST007"
      BY <1>4, <2>3 DEF Covering, RulesetRules
    <3> QED
      BY <1>3, <1>4, <1>5, <2>3, <3>1, RulesetVerdict
  <2> QED
    BY <2>1, <2>2, <2>3 DEF Rules, RulesetRules
<1>6. Passing(repo) \subseteq Passing(repo')
  BY <1>5 DEF Passing
<1> QED
  BY <1>1, <1>2, <1>5, <1>6, RecordShows

LEMMA DeleteShows ==
  ASSUME ShownInv, DeleteLegacy
  PROVE  Read' /\ Showing'
<1>1. PICK effect \in BOOLEAN, ok \in BOOLEAN :
        /\ pc = "act" /\ Sent(repo.legacy # NoLegacy, effect, ok) /\ Record("delete", ok)
        /\ repo' = IF effect THEN [repo EXCEPT !.legacy = NoLegacy] ELSE repo
  BY DEF DeleteLegacy
<1>2. ok => effect
  BY <1>1 DEF Sent
<1>3. \A rule \in Rules : plan[rule] = "delete" => rule = "RS007"
  BY <1>1, ActingFor DEF ShownInv
<1>4. effect => /\ repo'.settings = repo.settings /\ repo'.fork = repo.fork
                /\ repo'.rulesets = repo.rulesets /\ repo'.legacy = NoLegacy
  BY <1>1 DEF ShownInv, FixInv, TypeOK, Facts
<1>5. ASSUME NEW rule \in Rules,
             Verdict(rule, repo) = "pass" \/ (plan[rule] = "delete" /\ effect)
      PROVE  Verdict(rule, repo') = "pass"
  <2>1. CASE ~effect
    BY <1>1, <1>5, <2>1
  <2>2. CASE effect /\ rule \in {"ST004", "ST005", "ST006", "RS007", "ST007"}
    BY <1>3, <1>4, <1>5, <2>2, OtherVerdicts
  <2>3. CASE effect /\ rule \in RulesetRules \cup {"RS001", "RS006"}
    <3>1. Covering(repo') = Covering(repo) /\ rule # "RS007"
      BY <1>4, <2>3 DEF Covering, RulesetRules
    <3> QED
      BY <1>3, <1>4, <1>5, <2>3, <3>1, RulesetVerdict
  <2> QED
    BY <2>1, <2>2, <2>3 DEF Rules, RulesetRules
<1>6. Passing(repo) \subseteq Passing(repo')
  BY <1>5 DEF Passing
<1> QED
  BY <1>1, <1>2, <1>5, <1>6, RecordShows

LEMMA StoredRest ==
  ASSUME repo \in Facts, NEW id \in Ids, NEW rs
  PROVE  /\ WithRuleset(id, rs).settings = repo.settings
         /\ WithRuleset(id, rs).fork = repo.fork
<1> DEFINE now == [repo.rulesets EXCEPT ![id] = rs]
<1>1. WithRuleset(id, rs) = [repo EXCEPT !.rulesets = now]
  BY DEF WithRuleset
<1> HIDE DEF now
<1> QED
  BY <1>1 DEF Facts

(* A ruleset that was written or created satisfies the rules it is for.    *)
LEMMA StoredShows ==
  ASSUME ShownInv, pc \in {"act", "put"}, NEW id \in Ids, NEW call \in Ids \cup {NewId},
         NEW rs \in Ruleset, rs.covers,
         id \in Covering(repo) => rs = repo.rulesets[id],
         repo' = WithRuleset(id, Updated(rs, Batch(call))),
         repo'.rulesets = [repo.rulesets EXCEPT ![id] = Updated(rs, Batch(call))],
         repo'.legacy = repo.legacy, AllGrown(repo, repo')
  PROVE  /\ Passing(repo) \subseteq Passing(repo')
         /\ \A rule \in Rules : plan[rule] = call => Verdict(rule, repo') = "pass"
<1> DEFINE now == Updated(rs, Batch(call))
<1>1. repo \in Facts
  BY DEF ShownInv, FixInv, TypeOK
<1>2. now \in Ruleset /\ now.covers = rs.covers
  BY UpdatedGrows DEF Updated
<1>3. \A rule \in Rules : Satisfies(rs, rule) => Satisfies(now, rule)
  BY UpdatedSatisfies
<1>4. repo'.settings = repo.settings /\ repo'.fork = repo.fork
  BY <1>1, StoredRest
<1> HIDE DEF now
<1>5. repo'.rulesets = [repo.rulesets EXCEPT ![id] = now]
  BY DEF now
<1>6. Passing(repo) \subseteq Passing(repo')
  BY <1>1, <1>2, <1>3, <1>4, <1>5, StoredPasses
<1>7. ASSUME NEW rule \in Rules, plan[rule] = call PROVE Verdict(rule, repo') = "pass"
  <2>1. rule \in RulesetRules \cup {"RS001"} /\ rule \in Batch(call)
    BY <1>7, ActingFor DEF ShownInv, Batch
  <2>2. Satisfies(now, rule)
    BY <2>1, UpdatedSatisfies DEF now
  <2>3. repo'.rulesets[id] = now
    BY <1>1, <1>5 DEF Facts
  <2>4. now # NoRuleset
    BY <1>2, RulesetsAssumption
  <2>5. id \in Covering(repo')
    BY <1>2, <2>3, <2>4 DEF Covering
  <2> QED
    BY <2>1, <2>2, <2>3, <2>5, RulesetVerdict
<1> QED
  BY <1>6, <1>7

LEMMA PutShows ==
  ASSUME ShownInv, PutRuleset
  PROVE  Read' /\ Showing'
<1>1. PICK id \in Ids, effect \in BOOLEAN, ok \in BOOLEAN :
        /\ pc = "put" /\ IsNext(id) /\ Record(id, ok)
        /\ Sent(repo.rulesets[id] # NoRuleset, effect, ok)
        /\ repo' = IF effect THEN WithRuleset(id, Updated(fetched, Batch(id))) ELSE repo
  BY DEF PutRuleset
<1>2. ok => effect
  BY <1>1 DEF Sent
<1>3. CASE ~effect
  BY <1>1, <1>2, <1>3, RecordShows
<1>4. CASE effect
  <2>1. /\ repo' = WithRuleset(id, Updated(fetched, Batch(id)))
        /\ repo'.rulesets = [repo.rulesets EXCEPT ![id] = Updated(fetched, Batch(id))]
        /\ repo'.legacy = repo.legacy /\ AllGrown(repo, repo')
        /\ fetched = repo.rulesets[id] /\ fetched \in Ruleset /\ id \in Covering(repo)
    BY <1>1, <1>4, PutWrites DEF ShownInv
  <2>2. fetched.covers
    BY <2>1 DEF Covering
  <2> QED
    BY <1>1, <2>1, <2>2, StoredShows, RecordShows
<1> QED
  BY <1>3, <1>4

LEMMA CreateShows ==
  ASSUME ShownInv, CreateRuleset
  PROVE  Read' /\ Showing'
<1>1. PICK effect \in BOOLEAN, ok \in BOOLEAN :
        /\ pc = "act" /\ IsNext(NewId) /\ Record(NewId, ok)
        /\ Sent("RS001" \in Batch(NewId) /\ Free # {}, effect, ok)
        /\ IF effect
             THEN \E id \in Free : repo' = WithRuleset(id, Updated(Blank, Batch(NewId)))
             ELSE repo' = repo
  BY DEF CreateRuleset, Post
<1>2. (ok => effect) /\ (effect => "RS001" \in Batch(NewId))
  BY <1>1 DEF Sent
<1>3. CASE ~effect
  BY <1>1, <1>2, <1>3, RecordShows
<1>4. CASE effect
  <2> PICK id \in Free : repo' = WithRuleset(id, Updated(Blank, Batch(NewId)))
    BY <1>1, <1>4
  <2>1. /\ repo'.rulesets = [repo.rulesets EXCEPT ![id] = Updated(Blank, Batch(NewId))]
        /\ repo'.legacy = repo.legacy /\ AllGrown(repo, repo')
    BY <1>1, <1>2, <1>4, PostWrites DEF ShownInv
  <2>2. id \in Ids /\ id \notin Covering(repo) /\ Blank.covers
    BY DEF Free, Covering, Blank
  <2> QED
    BY <1>1, <2>1, <2>2, BlankTyped, StoredShows, RecordShows
<1> QED
  BY <1>3, <1>4

LEMMA FetchShows ==
  ASSUME ShownInv, FetchRuleset
  PROVE  Read' /\ Showing'
<1>1. repo' = repo /\ pc = "act"
  BY DEF FetchRuleset
<1>2. ASSUME NEW id \in Ids, Record(id, FALSE) PROVE Read' /\ Showing'
  BY <1>1, <1>2, RecordShows
<1>3. CASE pc' = "put" /\ UNCHANGED <<seen, before, plan, results, faults, edits>>
  BY <1>1, <1>3 DEF ShownInv, Read, Showing
<1> QED
  BY <1>2, <1>3 DEF FetchRuleset

LEMMA ShownStep == ShownInv /\ [Next]_vars => ShownInv'
<1> SUFFICES ASSUME ShownInv, [Next]_vars PROVE Read' /\ Showing'
  BY FixStep DEF ShownInv
<1>1. CASE Launch \/ Executed
  BY <1>1 DEF Launch, Executed, ShownInv, Read, Showing
<1>2. CASE Report \/ Crash
  BY <1>2, ForgetShows DEF Report, Crash
<1>3. CASE EditRuleset \/ EditElse
  BY <1>3 DEF EditRuleset, EditElse, Edit, local, Read, Showing
<1>4. CASE UNCHANGED vars
  BY <1>4 DEF vars, local, ShownInv, Read, Showing
<1> QED
  BY <1>1, <1>2, <1>3, <1>4, GathersShow, PlanShows, PatchShows, ForkShows, DeleteShows,
     FetchShows, PutShows, CreateShows DEF Next, Tool

LEMMA ShownInit == Init => ShownInv
  BY FixInit DEF Init, ShownInv, Read, Showing

THEOREM ShownInvariant == Spec => []ShownInv
  BY ShownInit, ShownStep, PTL DEF Spec

(* A fix reported as Applied (execute_repo_fixes) has its rule pass in the *)
(* same report, whatever else its calls carried.                           *)
THEOREM AppliedAlwaysPasses == Spec => []AppliedRulePasses
<1>1. ShownInv => AppliedRulePasses
  <2> SUFFICES ASSUME ShownInv, pc = "report", NEW rule \in Rules, results[rule] = "applied"
               PROVE  Verdict(rule, seen) = "pass"
    BY DEF AppliedRulePasses
  <2>1. Passing(seen) = Passing(repo)
    BY SamePasses DEF ShownInv, Read
  <2> QED
    BY <2>1 DEF ShownInv, Showing, Passing
<1> QED
  BY <1>1, ShownInvariant, PTL

(* No fix makes a rule fail that passed before the fixes.                  *)
THEOREM NothingRegresses == Spec => []NoRegression
<1>1. ShownInv => NoRegression
  <2> SUFFICES ASSUME ShownInv, pc = "report", NEW rule \in Rules,
                      Verdict(rule, before) = "pass"
               PROVE  Verdict(rule, seen) = "pass"
    BY DEF NoRegression
  <2>1. Passing(seen) = Passing(repo)
    BY SamePasses DEF ShownInv, Read
  <2> QED
    BY <2>1 DEF ShownInv, Showing, Passing
<1> QED
  BY <1>1, ShownInvariant, PTL
-----------------------------------------------------------------------------
(* What a whole run of fixes leaves *)

OneCovers(F) == \A i, j \in Covering(F) : i = j

(* From the plan on: the outcomes are those of the plan, none is missing   *)
(* once every call was sent, and the branch does not come to be covered    *)
(* twice.                                                                  *)
Carried ==
  pc \in {"act", "put", "settings2", "rulesets2", "rest2", "report"} =>
    /\ plan = PlanOf(enabled, before)
    /\ \A rule \in Rules : results[rule] = "rejected" <=> plan[rule] = "rejected"
    /\ pc \notin {"act", "put"} =>
         \A rule \in Rules : results[rule] = "none" => plan[rule] = "none"
    /\ OneCovers(before) => OneCovers(repo)

MergeInv == ShownInv /\ Carried

LEMMA ForgetCarries ==
  ASSUME Forget
  PROVE  Carried'
  BY DEF Forget, Carried

LEMMA GathersCarry ==
  ASSUME MergeInv, GatherBefore \/ GatherAfter, UNCHANGED enabled
  PROVE  Carried'
<1>1. CASE Forget
  BY <1>1, ForgetCarries
<1>2. CASE ~Forget
  <2>1. UNCHANGED <<repo, before, plan, results>>
    BY <1>2 DEF GatherBefore, GatherAfter, Gather
  <2>2. \/ pc' \in {"rulesets", "rest", "plan"}
        \/ /\ pc \in {"settings2", "rulesets2", "rest2"}
           /\ pc' \in {"rulesets2", "rest2", "report"}
    BY <1>2 DEF GatherBefore, GatherAfter, Gather
  <2> QED
    BY <2>1, <2>2 DEF MergeInv, Carried
<1> QED
  BY <1>1, <1>2

LEMMA PlanCarries ==
  ASSUME MergeInv, PlanFixes, UNCHANGED enabled
  PROVE  Carried'
<1>1. /\ plan' = PlanOf(enabled, seen) /\ before' = seen /\ repo' = repo
      /\ pc' = IF plan' = NoPlan THEN "report" ELSE "act"
      /\ \A rule \in Rules :
           results'[rule] = IF plan'[rule] = "rejected" THEN "rejected" ELSE "none"
  BY DEF PlanFixes
<1>2. Covering(seen) = Covering(repo)
  BY DEF PlanFixes, MergeInv, ShownInv, Read, Covering
<1>3. OneCovers(before') => OneCovers(repo')
  BY <1>1, <1>2 DEF OneCovers
<1>4. pc' = "report" => \A rule \in Rules : plan'[rule] = "none"
  BY <1>1 DEF NoPlan
<1> QED
  BY <1>1, <1>3, <1>4 DEF Carried

(* A call's outcome, when the branch does not come to be covered twice.    *)
LEMMA RecordCarries ==
  ASSUME MergeInv, pc \in {"act", "put"}, NEW call, IsNext(call), NEW ok \in BOOLEAN,
         Record(call, ok), OneCovers(repo) => OneCovers(repo'), UNCHANGED enabled
  PROVE  Carried'
<1>1. call \notin {"none", "rejected"}
  BY DEF IsNext, Pending
<1>2. \A rule \in Rules : results'[rule] = "rejected" <=> plan'[rule] = "rejected"
  BY <1>1 DEF Record, MergeInv, Carried
<1> QED
  BY <1>2 DEF Record, MergeInv, Carried

LEMMA ExecutedCarries ==
  ASSUME MergeInv, Executed, UNCHANGED enabled
  PROVE  Carried'
<1>1. pc = "act" /\ Pending = {} /\ UNCHANGED <<repo, before, plan, results>>
  BY DEF Executed
<1>2. ASSUME NEW rule \in Rules, results[rule] = "none" PROVE plan[rule] = "none"
  <2>1. plan[rule] \in Calls /\ plan[rule] # "rejected"
    BY <1>1, <1>2 DEF MergeInv, ShownInv, FixInv, TypeOK, Carried
  <2>2. rule \in Batch(plan[rule])
    BY DEF Batch
  <2> QED
    BY <1>1, <1>2, <2>1, <2>2 DEF Pending
<1> QED
  BY <1>1, <1>2 DEF Executed, MergeInv, Carried

LEMMA SameCovering ==
  ASSUME NEW F, NEW G, G.rulesets = F.rulesets
  PROVE  OneCovers(F) => OneCovers(G)
  BY DEF OneCovers, Covering

LEMMA SettingsCarry ==
  ASSUME MergeInv, Patch \/ SetFork \/ DeleteLegacy, UNCHANGED enabled
  PROVE  Carried'
<1>1. repo'.rulesets = repo.rulesets
  <2>1. \/ repo' = repo
        \/ \E s : repo' = [repo EXCEPT !.settings = s]
        \/ repo' = [repo EXCEPT !.fork = "all"]
        \/ repo' = [repo EXCEPT !.legacy = NoLegacy]
    BY DEF Patch, SetFork, DeleteLegacy
  <2> QED
    BY <2>1 DEF MergeInv, ShownInv, FixInv, TypeOK, Facts
<1>2. \E call : \E ok \in BOOLEAN : pc = "act" /\ IsNext(call) /\ Record(call, ok)
  BY DEF Patch, SetFork, DeleteLegacy
<1> QED
  BY <1>1, <1>2, SameCovering, RecordCarries

LEMMA FetchCarries ==
  ASSUME MergeInv, FetchRuleset, UNCHANGED enabled
  PROVE  Carried'
<1>1. repo' = repo /\ pc = "act"
  BY DEF FetchRuleset
<1>2. ASSUME NEW id \in Ids, IsNext(id), Record(id, FALSE) PROVE Carried'
  BY <1>1, <1>2, RecordCarries
<1>3. CASE pc' = "put" /\ UNCHANGED <<before, plan, results>>
  BY <1>1, <1>3 DEF MergeInv, Carried
<1> QED
  BY <1>2, <1>3 DEF FetchRuleset

LEMMA PutCarries ==
  ASSUME MergeInv, PutRuleset, UNCHANGED enabled
  PROVE  Carried'
<1>1. PICK id \in Ids, effect \in BOOLEAN, ok \in BOOLEAN :
        /\ pc = "put" /\ IsNext(id) /\ Record(id, ok)
        /\ repo' = IF effect THEN WithRuleset(id, Updated(fetched, Batch(id))) ELSE repo
  BY DEF PutRuleset
<1>2. CASE effect
  <2>1. /\ repo'.rulesets = [repo.rulesets EXCEPT ![id] = Updated(fetched, Batch(id))]
        /\ id \in Covering(repo)
    BY <1>1, <1>2, PutWrites DEF MergeInv, ShownInv
  <2>2. \A i \in Ids : i # id => repo'.rulesets[i] = repo.rulesets[i]
    BY <2>1 DEF MergeInv, ShownInv, FixInv, TypeOK, Facts
  <2>3. Covering(repo') \subseteq Covering(repo)
    BY <2>1, <2>2 DEF Covering
  <2> QED
    BY <1>1, <2>3, RecordCarries DEF OneCovers
<1>3. CASE ~effect
  BY <1>1, <1>3, RecordCarries
<1> QED
  BY <1>2, <1>3

LEMMA CreateCarries ==
  ASSUME MergeInv, CreateRuleset, UNCHANGED enabled
  PROVE  Carried'
<1>1. PICK effect \in BOOLEAN, ok \in BOOLEAN :
        /\ pc = "act" /\ IsNext(NewId) /\ Record(NewId, ok)
        /\ Sent("RS001" \in Batch(NewId) /\ Free # {}, effect, ok)
        /\ IF effect
             THEN \E id \in Free : repo' = WithRuleset(id, Updated(Blank, Batch(NewId)))
             ELSE repo' = repo
  BY DEF CreateRuleset, Post
<1>2. CASE effect
  <2> PICK id \in Free : repo' = WithRuleset(id, Updated(Blank, Batch(NewId)))
    BY <1>1, <1>2
  <2>1. /\ repo'.rulesets = [repo.rulesets EXCEPT ![id] = Updated(Blank, Batch(NewId))]
        /\ Covering(repo) = {}
    BY <1>1, <1>2, PostWrites DEF MergeInv, ShownInv, Sent
  <2>2. \A i \in Ids : i # id => repo'.rulesets[i] = repo.rulesets[i]
    BY <2>1 DEF MergeInv, ShownInv, FixInv, TypeOK, Facts
  <2>3. Covering(repo') \subseteq {id}
    BY <2>1, <2>2 DEF Covering
  <2> QED
    BY <1>1, <2>3, RecordCarries DEF OneCovers
<1>3. CASE ~effect
  BY <1>1, <1>3, RecordCarries
<1> QED
  BY <1>2, <1>3

LEMMA MergeStep == MergeInv /\ [Next]_vars => MergeInv'
<1> SUFFICES ASSUME MergeInv, [Next]_vars PROVE Carried'
  BY ShownStep DEF MergeInv
<1>1. CASE Launch
  BY <1>1 DEF Launch, Carried
<1>2. CASE Report \/ Crash
  BY <1>2, ForgetCarries DEF Report, Crash
<1>3. CASE EditRuleset \/ EditElse
  BY <1>3 DEF EditRuleset, EditElse, Edit, local, Carried
<1>4. CASE UNCHANGED vars
  BY <1>4 DEF vars, local, MergeInv, Carried
<1> QED
  BY <1>1, <1>2, <1>3, <1>4, GathersCarry, PlanCarries, ExecutedCarries, SettingsCarry,
     FetchCarries, PutCarries, CreateCarries DEF Next, Tool

LEMMA MergeInit == Init => MergeInv
  BY ShownInit DEF Init, MergeInv, Carried

THEOREM MergeInvariant == Spec => []MergeInv
  BY MergeInit, MergeStep, PTL DEF Spec

(* Two elements are more than one.                                         *)
LEMMA AtMostOne ==
  ASSUME NEW S, IsFiniteSet(S), Cardinality(S) <= 1, NEW x \in S, NEW y \in S
  PROVE  x = y
<1> SUFFICES ASSUME x # y PROVE FALSE
  OBVIOUS
<1>1. Cardinality({x}) = 1 /\ IsFiniteSet({x})
  BY FS_Singleton
<1>2. Cardinality({x} \cup {y}) = 2
  <2>1. Cardinality({x} \cup {y}) = IF y \in {x} THEN Cardinality({x}) ELSE Cardinality({x}) + 1
    BY <1>1, FS_AddElement
  <2> QED  BY <1>1, <2>1
<1> DEFINE both == {x} \cup {y}
<1>3. both \in SUBSET S
  OBVIOUS
<1> HIDE DEF both
<1>4. Cardinality(both) <= Cardinality(S)
  BY <1>3, FS_Subset
<1>5. Cardinality(S) \in Nat
  BY FS_CardinalityType
<1> QED
  BY <1>2, <1>4, <1>5 DEF both

(* With every rule enabled, and one ruleset at most that covers the        *)
(* branch, there is a place for the rule that allows squash merges only.   *)
LEMMA SquashIsPlaced ==
  ASSUME NEW F, OneCovers(F), NEW rule \in {"RS011", "ST006"},
         PlanOf(Rules, F)[rule] \in {"none", "rejected"}
  PROVE  Verdict(rule, F) = "pass"
<1> SUFFICES ASSUME Verdict(rule, F) # "pass" PROVE FALSE
  OBVIOUS
<1> USE RulesetsAssumption DEF NoCalls, NewId
<1>1. Verdict(rule, F) = "fail"
  BY DEF Verdict
<1>2. rule \in Rules /\ "RS001" \in Rules
  BY DEF Rules
<1>3. CASE rule = "ST006"
  <2>1. FixOf(rule, F) = "patch"
    BY <1>1, <1>3 DEF FixOf
  <2> QED
    BY <1>2, <2>1 DEF PlanOf
<1>4. CASE rule = "RS011"
  <2>1. FixOf(rule, F) = Place("RS011", F)
    BY <1>1, <1>4 DEF FixOf
  <2>2. \A i \in Covering(F) : ~Satisfies(F.rulesets[i], "RS011")
    BY <1>1, <1>4 DEF Verdict
  <2>3. CASE Covering(F) = {}
    <3>1. Place("RS011", F) = NewId
      BY <2>3 DEF Place
    <3>2. FixOf("RS001", F) = NewId
      BY <2>3 DEF FixOf, Verdict
    <3> QED
      BY <1>2, <1>4, <2>1, <3>1, <3>2 DEF PlanOf
  <2>4. CASE Covering(F) # {}
    <3>1. PICK id \in Covering(F) : TRUE
      BY <2>4
    <3>2. {i \in Covering(F) : ~Satisfies(F.rulesets[i], "RS011")} = {id}
      BY <2>2, <3>1 DEF OneCovers
    <3>3. Cardinality({id}) = 1
      BY FS_Singleton
    <3>4. Place("RS011", F) = CHOOSE i \in {id} : TRUE
      BY <3>2, <3>3 DEF Place
    <3>5. Place("RS011", F) \in Ids
      BY <3>1, <3>4 DEF Covering
    <3> QED
      BY <1>2, <1>4, <2>1, <3>5 DEF PlanOf
  <2> QED
    BY <2>3, <2>4
<1> QED
  BY <1>3, <1>4

(* ST006 enables squash merges and RS011 allows nothing else, whichever    *)
(* other fixes go along: a pull request can still be merged.               *)
THEOREM MergeableStays == Spec => []StaysMergeable
<1>1. MergeInv => StaysMergeable
  <2> SUFFICES ASSUME MergeInv, pc = "report", enabled = Rules,
                      Cardinality(Covering(before)) <= 1,
                      "failed" \notin {results[rule] : rule \in Rules}
               PROVE  Mergeable(seen)
    BY DEF StaysMergeable
  <2>1. IsFiniteSet(Covering(before))
    BY RulesetsAssumption, FS_Subset DEF Covering
  <2>2. OneCovers(before)
    BY <2>1, AtMostOne DEF OneCovers
  <2>3. ASSUME NEW rule \in {"RS011", "ST006"} PROVE Verdict(rule, repo) = "pass"
    <3>1. rule \in Rules
      BY DEF Rules
    <3>2. results[rule] \in {"none", "rejected", "applied"}
      BY <3>1 DEF MergeInv, ShownInv, FixInv, TypeOK, Outcomes
    <3>3. CASE results[rule] = "applied"
      BY <3>1, <3>3 DEF MergeInv, ShownInv, Showing, Passing
    <3>4. CASE results[rule] \in {"none", "rejected"}
      <4>1. PlanOf(Rules, before)[rule] \in {"none", "rejected"}
        BY <3>1, <3>4 DEF MergeInv, Carried
      <4>2. rule \in Passing(before)
        BY <2>2, <3>1, <4>1, SquashIsPlaced DEF Passing
      <4> QED
        BY <4>2 DEF MergeInv, ShownInv, Showing, Passing
    <3> QED
      BY <3>2, <3>3, <3>4
  <2>4. "squash" \in repo.settings
    BY <2>3, OtherVerdicts
  <2>5. PICK i \in Covering(repo) : repo.rulesets[i].methods = {"squash"}
    <3>1. \E i \in Covering(repo) : Satisfies(repo.rulesets[i], "RS011")
      BY <2>3, RulesetVerdict DEF RulesetRules
    <3> QED
      BY <3>1 DEF Satisfies, KindOf
  <2>6. \A j \in Covering(repo) : repo.rulesets[j].methods = {"squash"}
    BY <2>2, <2>5 DEF MergeInv, Carried, OneCovers
  <2>7. seen.settings = repo.settings /\ seen.rulesets = repo.rulesets
    BY DEF MergeInv, ShownInv, Read
  <2>8. Covering(seen) = Covering(repo)
    BY <2>7 DEF Covering
  <2> QED
    BY <2>4, <2>6, <2>7, <2>8 DEF Mergeable
<1> QED
  BY <1>1, MergeInvariant, PTL
=============================================================================
