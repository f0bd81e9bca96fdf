---------------------------- MODULE FixRunProofs ----------------------------
(***************************************************************************)
(* The safety properties of FixRun, for any number of repositories, any    *)
(* catalog of rules and any number of faults and edits.  All of them come  *)
(* from one inductive invariant, which says step by step how far a run is. *)
(***************************************************************************)
EXTENDS FixRun, TLAPS

(* A step that goes through the entries starts with the first.             *)
AtFirst == pc \in {"start", "plan", "push", "render", "exit"} => at = 1

(* Every entry is gathered before anything is planned or changed.          *)
Looked ==
  /\ pc = "gather" => \A e \in Entries : e < at => e \in seen
  /\ pc \in {"plan", "fix", "regather", "save", "push", "render"} => seen = Entries
  /\ pc \in {"start", "gather", "plan"} => mended = NoRules
  /\ SeenBeforeMended

(* What a fix changed is gathered again before it is reported.             *)
Refreshed ==
  /\ pc \in {"start", "gather", "plan", "save", "push", "render"} => stale = {}
  /\ pc = "regather" => \A e \in stale : e >= at
  /\ ReportIsFresh

(* Only planned fixes take effect, and only for rules that are on; a plan  *)
(* always has a status, and Applied a reason.                              *)
Planned ==
  /\ pc \in {"start", "gather", "plan"} => plan = NoRules
  /\ \A e \in Entries :
       /\ mended[e] \subseteq plan[e]
       /\ plan[e] \cap Disabled[e] = {}
       /\ \A rule \in plan[e] :
            /\ fixes[e][rule] # "none"
            /\ fixes[e][rule] = "rejected" => rule \notin Fixable
            /\ fixes[e][rule] = "applied" => rule \in mended[e]

(* How many entries are done with.                                         *)
AllTried ==
  /\ rendered => pc = "exit"
  /\ pc = "fix" => \A e \in Entries : e < at => Left(e) = {}
  /\ pc = "regather" => \A e \in Entries : Left(e) = {}
  /\ (pc \in {"save", "push", "render"} \/ rendered) /\ options.fix
       => \A e \in Entries : Left(e) = {}

Written ==
  /\ pc = "save" => /\ options.snapshot = "save"
                    /\ \A e \in Entries : e < at => saved[e] = facts[e]
  /\ (pc \in {"push", "render"} \/ rendered) /\ options.snapshot = "save"
       => saved = facts

Told == exit = "0" => rendered /\ ExitCode = "0"

RunInv ==
  /\ TypeOK /\ AtFirst /\ Looked /\ Refreshed
  /\ Planned /\ AllTried /\ Written /\ Told

-----------------------------------------------------------------------------
(* Advance goes on by one entry, or from the last to another step.         *)
LEMMA Advances ==
  ASSUME TypeOK, NEW next, Advance(next)
  PROVE  /\ at' \in Entries
         /\ \/ pc' = next /\ at' = 1 /\ \A e \in Entries : e <= at
            \/ pc' = pc /\ \A e \in Entries : e < at' => e < at \/ e = at
         /\ \A e \in Entries : e >= at /\ e # at /\ pc' # next => e >= at'
  BY FixRunAssumption DEF TypeOK, Advance, Entries

(* One fault less is still a number of faults.                             *)
LEMMA FaultTyped ==
  ASSUME TypeOK, NEW kind, Fault(kind) \/ UNCHANGED faults
  PROVE  faults' \in 0..MaxFaults
  BY FixRunAssumption DEF TypeOK, Fault

(* A fix that was tried is Applied or Failed, and has the effect that       *)
(* Applied reports; no other fix is touched.                                *)
LEMMA Outcomes ==
  ASSUME TypeOK, NEW rule \in Left(at), Tried(rule)
  PROVE  \E status \in {"applied", "failed"}, effect \in BOOLEAN :
           /\ Outcome(rule, status, effect)
           /\ status = "applied" => effect
           /\ faults' \in 0..MaxFaults
<1>1. faults' \in 0..MaxFaults
  BY FaultTyped DEF Tried
<1>2. CASE Outcome(rule, "applied", TRUE)
  BY <1>1, <1>2
<1>3. CASE Outcome(rule, "failed", FALSE)
  BY <1>1, <1>3
<1>4. CASE \E effect \in BOOLEAN : Outcome(rule, "failed", effect)
  <2>1. PICK effect \in BOOLEAN : Outcome(rule, "failed", effect)
    BY <1>4
  <2> QED
    BY <1>1, <2>1
<1> QED
  BY <1>2, <1>3, <1>4 DEF Tried

(* All that Outcome changes.                                               *)
Shown(rule, status, effect) ==
  /\ rule \in plan[at] /\ fixes[at][rule] = "planned"
  /\ fixes' \in [Entries -> [Rules -> Statuses]]
  /\ broken' \in [Entries -> SUBSET Rules]
  /\ mended' \in [Entries -> SUBSET Rules]
  /\ stale' \subseteq stale \cup {at}
  /\ \A e \in Entries, other \in Rules :
       fixes'[e][other] =
         IF e = at /\ other = rule THEN status ELSE fixes[e][other]
  /\ \A e \in Entries :
       mended'[e] = IF e = at /\ effect THEN mended[e] \cup {rule} ELSE mended[e]

LEMMA OutcomeIs ==
  ASSUME TypeOK, NEW rule \in Left(at), NEW status \in {"applied", "failed"},
         NEW effect \in BOOLEAN, Outcome(rule, status, effect)
  PROVE  Shown(rule, status, effect)
<1> USE DEF Outcome, TypeOK, Left
<1>1. rule \in plan[at] /\ rule \in Rules /\ fixes[at][rule] = "planned"
  OBVIOUS
<1>2. /\ broken' \in [Entries -> SUBSET Rules]
      /\ mended' \in [Entries -> SUBSET Rules]
      /\ stale' \subseteq stale \cup {at}
  BY <1>1
<1>3. \A e \in Entries :
        mended'[e] = IF e = at /\ effect THEN mended[e] \cup {rule} ELSE mended[e]
  BY <1>1
<1>4. fixes' = [fixes EXCEPT ![at] = [fixes[at] EXCEPT ![rule] = status]]
  OBVIOUS
<1>5. [fixes[at] EXCEPT ![rule] = status] \in [Rules -> Statuses]
  BY <1>1 DEF Statuses
<1>6. fixes' \in [Entries -> [Rules -> Statuses]]
  BY <1>4, <1>5
<1>7. \A e \in Entries, other \in Rules :
        fixes'[e][other] = IF e = at /\ other = rule THEN status ELSE fixes[e][other]
  BY <1>1, <1>4
<1> QED
  BY <1>1, <1>2, <1>3, <1>6, <1>7 DEF Shown

-----------------------------------------------------------------------------
(* The program starts with everything unknown.                             *)
LEMMA InitRunInv == Init => RunInv
<1> SUFFICES ASSUME Init PROVE RunInv
  OBVIOUS
<1> USE FixRunAssumption DEF Init, Entries, NoRules, NoFixes
<1>1. TypeOK
  <2>1. /\ broken \in [Entries -> SUBSET Rules]
        /\ saved \in [Entries -> (SUBSET Rules) \cup {Corrupt}]
    OBVIOUS
  <2>2. /\ facts \in [Entries -> SUBSET Rules]
        /\ plan \in [Entries -> SUBSET Rules]
        /\ mended \in [Entries -> SUBSET Rules]
    OBVIOUS
  <2>3. fixes \in [Entries -> [Rules -> Statuses]]
    BY DEF Statuses
  <2>4. /\ pc \in Steps /\ at \in Entries
        /\ exit = "none" <=> pc # "exit"
        /\ faults \in 0..MaxFaults /\ edits \in 0..MaxEdits
    BY DEF Steps
  <2> QED
    BY <2>1, <2>2, <2>3, <2>4 DEF TypeOK
<1>2. AtFirst /\ Looked /\ Refreshed
  BY DEF AtFirst, Looked, Refreshed, SeenBeforeMended, ReportIsFresh
<1>3. Planned /\ AllTried /\ Written /\ Told
  BY DEF Planned, AllTried, Written, Told
<1> QED
  BY <1>1, <1>2, <1>3 DEF RunInv

(* The command line is right or wrong; nothing is known yet. *)
LEMMA StartKeeps == ASSUME RunInv, Start PROVE RunInv'
<1> USE FixRunAssumption DEF Start, Exit, Fault, world, results, output, history, Entries
<1>1. TypeOK'
  <2>1. faults' \in 0..MaxFaults
    BY FaultTyped DEF RunInv
  <2> QED
    BY <2>1 DEF RunInv, TypeOK, Steps
<1>2. AtFirst'
  BY DEF RunInv, TypeOK, AtFirst
<1>3. Looked'
  BY DEF RunInv, TypeOK, AtFirst, Looked, SeenBeforeMended, NoRules
<1>4. Refreshed'
  BY DEF RunInv, TypeOK, AtFirst, Refreshed, ReportIsFresh, AllTried
<1>5. Planned'
  BY DEF RunInv, TypeOK, Planned, NoRules
<1>6. AllTried'
  BY DEF RunInv, TypeOK, AllTried, Left
<1>7. Written'
  BY DEF RunInv, TypeOK, Written, AllTried, AtFirst
<1>8. Told'
  BY DEF RunInv, TypeOK, Told, AllTried, ExitCode, Failed, Failing
<1> QED
  BY <1>1, <1>2, <1>3, <1>4, <1>5, <1>6, <1>7, <1>8 DEF RunInv

(* The entries gathered are those before `at`. *)
LEMMA GatherKeeps == ASSUME RunInv, Gather PROVE RunInv'
<1> USE FixRunAssumption DEF Gather, Gathered, Exit, Fault, Advance, world, results, output, history, Entries
<1>1. TypeOK'
  <2>1. faults' \in 0..MaxFaults
    BY FaultTyped DEF RunInv
  <2>2. CASE Exit("1") /\ UNCHANGED <<facts, seen, stale>>
    BY <2>1, <2>2 DEF RunInv, TypeOK, Steps
  <2>3. CASE options.snapshot = "load" /\ saved[at] # Corrupt /\ Gathered(saved, "plan")
    BY <2>1, <2>3, Advances DEF RunInv, TypeOK, Steps
  <2>4. CASE options.snapshot # "load" /\ Gathered(broken, "plan")
    BY <2>1, <2>4, Advances DEF RunInv, TypeOK, Steps
  <2> QED
    BY <2>2, <2>3, <2>4
<1>2. AtFirst'
  BY DEF RunInv, TypeOK, AtFirst
<1>3. Looked'
  <2>1. mended' = mended /\ mended = NoRules /\ mended' = NoRules
    BY DEF RunInv, Looked, NoRules
  <2>2. CASE Exit("1") /\ UNCHANGED <<facts, seen, stale>>
    BY <2>1, <2>2 DEF Looked, SeenBeforeMended
  <2>3. CASE seen' = seen \cup {at} /\ Advance("plan")
    <3>1. \A e \in Entries : e < at \/ e = at => e \in seen'
      BY <2>3 DEF RunInv, Looked
    <3>2. CASE pc' = "plan" /\ at' = 1 /\ \A e \in Entries : e <= at
      <4>1. at \in Entries /\ seen \subseteq Entries
        BY DEF RunInv, TypeOK
      <4>2. \A e \in Entries : e < at \/ e = at
        BY <3>2, <4>1
      <4>3. seen' = Entries
        BY <2>3, <3>1, <4>1, <4>2
      <4> QED
        BY <2>1, <3>2, <4>3 DEF Looked, SeenBeforeMended
    <3>3. CASE pc' = pc /\ \A e \in Entries : e < at' => e < at \/ e = at
      BY <2>1, <3>1, <3>3 DEF Looked, SeenBeforeMended
    <3> QED
      BY <2>3, <3>2, <3>3, Advances DEF RunInv
  <2> QED
    BY <2>2, <2>3
<1>4. Refreshed'
  BY DEF RunInv, TypeOK, AtFirst, Refreshed, ReportIsFresh, AllTried
<1>5. Planned'
  BY DEF RunInv, TypeOK, Planned, NoRules
<1>6. AllTried'
  BY DEF RunInv, TypeOK, AllTried, Left
<1>7. Written'
  BY DEF RunInv, TypeOK, Written, AllTried, AtFirst
<1>8. Told'
  BY DEF RunInv, TypeOK, Told, AllTried, ExitCode, Failed, Failing
<1> QED
  BY <1>1, <1>2, <1>3, <1>4, <1>5, <1>6, <1>7, <1>8 DEF RunInv

(* Every rule planned is on, and has a status. *)
LEMMA PlanFixesKeeps == ASSUME RunInv, PlanFixes PROVE RunInv'
<1> USE FixRunAssumption DEF PlanFixes, PlanOf, Failing, Reporting, world, results, output, history, Entries
<1>1. TypeOK'
  BY DEF RunInv, TypeOK, Steps, Statuses, Options, NoRules, NoFixes, Corrupt, AtFirst
<1>2. AtFirst'
  BY DEF RunInv, TypeOK, AtFirst
<1>3. Looked'
  BY DEF RunInv, TypeOK, AtFirst, Looked, SeenBeforeMended, NoRules
<1>4. Refreshed'
  BY DEF RunInv, TypeOK, AtFirst, Refreshed, ReportIsFresh, AllTried
<1>5. Planned'
  BY DEF RunInv, TypeOK, Planned, NoRules
<1>6. AllTried'
  <2>1. ~rendered' /\ at' = 1
    BY DEF RunInv, TypeOK, AllTried, AtFirst
  <2>2. CASE pc' = "fix"
    BY <2>1, <2>2 DEF AllTried
  <2>3. CASE pc' = Reporting /\ (options.fix => plan' = NoRules)
    <3>1. options.fix' => \A e \in Entries : Left(e)' = {}
      BY <2>3 DEF Left, NoRules
    <3> QED
      BY <2>1, <2>3, <3>1 DEF AllTried
  <2> QED
    BY <2>2, <2>3
<1>7. Written'
  BY DEF RunInv, TypeOK, Written, AllTried, AtFirst
<1>8. Told'
  BY DEF RunInv, TypeOK, Told, AllTried, ExitCode, Failed, Failing
<1> QED
  BY <1>1, <1>2, <1>3, <1>4, <1>5, <1>6, <1>7, <1>8 DEF RunInv

(* A fix is of a planned rule; the entry is left when none is left. *)
LEMMA FixKeeps == ASSUME RunInv, Fix PROVE RunInv'
<1>1. /\ pc = "fix" /\ TypeOK /\ seen = Entries
      /\ UNCHANGED <<saved, options, facts, plan, output, seen, edits>>
  BY DEF Fix, RunInv, Looked
<1>2. ~rendered
  BY <1>1 DEF RunInv, AllTried
<1>3. CASE \E rule \in Left(at) : Tried(rule) /\ UNCHANGED <<pc, at>>
  <2>1. PICK rule \in Left(at) : Tried(rule) /\ UNCHANGED <<pc, at>>
    BY <1>3
  <2>2. PICK status \in {"applied", "failed"}, effect \in BOOLEAN :
          /\ Outcome(rule, status, effect)
          /\ status = "applied" => effect
          /\ faults' \in 0..MaxFaults
    BY <1>1, <2>1, Outcomes
  <2>3. Shown(rule, status, effect)
    BY <1>1, <2>2, OutcomeIs
  <2>4. TypeOK'
    BY <1>1, <2>1, <2>2, <2>3 DEF Shown, TypeOK, output
  <2>5. AtFirst' /\ Looked' /\ Refreshed' /\ Told' /\ Written'
    BY <1>1, <1>2, <2>1 DEF RunInv, AtFirst, Looked, Refreshed, Told, Written,
       SeenBeforeMended, ReportIsFresh, TypeOK, output
  <2>6. Planned'
    <3>1. plan' = plan /\ pc' = "fix"
      BY <1>1, <2>1
    <3>2. \A e \in Entries : plan[e] \subseteq Rules /\ mended'[e] \subseteq plan[e]
      <4>1. \A e \in Entries : plan[e] \subseteq Rules /\ mended[e] \subseteq plan[e]
        BY <1>1 DEF RunInv, Planned, TypeOK
      <4> QED
        BY <2>3, <4>1 DEF Shown
    <3>3. ASSUME NEW e \in Entries, NEW other \in plan[e]
          PROVE  /\ fixes'[e][other] # "none"
                 /\ fixes'[e][other] = "rejected" => other \notin Fixable
                 /\ fixes'[e][other] = "applied" => other \in mended'[e]
      <4>1. other \in Rules
        BY <3>1, <3>2
      <4>2. CASE e = at /\ other = rule
        BY <2>2, <2>3, <4>1, <4>2 DEF Shown
      <4>3. CASE ~(e = at /\ other = rule)
        BY <2>3, <4>1, <4>3 DEF Shown, RunInv, Planned
      <4> QED
        BY <4>2, <4>3
    <3> QED
      BY <3>1, <3>2, <3>3 DEF RunInv, Planned
  <2>7. AllTried'
    <3>1. \A e \in Entries : e # at => Left(e)' = Left(e)
      BY <1>1, <2>3 DEF Shown, Left, TypeOK
    <3> QED
      BY <1>1, <1>2, <2>1, <3>1 DEF RunInv, AllTried, TypeOK, Entries, output
  <2> QED
    BY <2>4, <2>5, <2>6, <2>7 DEF RunInv
<1>4. CASE /\ Left(at) = {}
           /\ Advance("regather")
           /\ UNCHANGED <<broken, fixes, mended, stale, faults>>
  <2>1. Left(at) = {} /\ \A e \in Entries : Left(e)' = Left(e)
    BY <1>1, <1>4 DEF Left
  <2>2. CASE pc' = "regather" /\ at' = 1 /\ \A e \in Entries : e <= at
    <3>1. TypeOK'
      BY <1>1, <1>4, <2>2, Advances DEF TypeOK, Steps, output
    <3>2. AtFirst' /\ Looked' /\ Planned' /\ Told' /\ Written'
      BY <1>1, <1>2, <1>4, <2>2 DEF RunInv, AtFirst, Looked, Planned, Told, Written,
         SeenBeforeMended, TypeOK, output
    <3>3. Refreshed'
      BY <1>1, <1>2, <1>4, <2>2 DEF Refreshed, ReportIsFresh, TypeOK, Entries, output
    <3>4. AllTried'
      BY <1>1, <1>2, <2>1, <2>2 DEF RunInv, AllTried, TypeOK, Entries, output
    <3> QED
      BY <3>1, <3>2, <3>3, <3>4 DEF RunInv
  <2>3. CASE pc' = pc /\ \A e \in Entries : e < at' => e < at \/ e = at
    <3>1. TypeOK'
      BY <1>1, <1>4, <2>3, Advances DEF TypeOK, Steps, output
    <3>2. AtFirst' /\ Looked' /\ Refreshed' /\ Planned' /\ Told' /\ Written'
      BY <1>1, <1>2, <1>4, <2>3 DEF RunInv, AtFirst, Looked, Refreshed, Planned, Told,
         Written, SeenBeforeMended, ReportIsFresh, TypeOK, output
    <3>3. AllTried'
      BY <1>1, <1>2, <2>1, <2>3 DEF RunInv, AllTried, output
    <3> QED
      BY <3>1, <3>2, <3>3 DEF RunInv
  <2> QED
    BY <1>1, <1>4, <2>2, <2>3, Advances
<1> QED
  BY <1>3, <1>4 DEF Fix

(* An entry gathered again is no longer stale. *)
LEMMA RegatherKeeps == ASSUME RunInv, Regather PROVE RunInv'
<1> USE FixRunAssumption DEF Regather, Gathered, Exit, Fault, Advance, Reporting, world, results, output, history, Entries
<1>1. TypeOK'
  <2>1. faults' \in 0..MaxFaults
    BY FaultTyped DEF RunInv
  <2>2. CASE Exit("1") /\ UNCHANGED <<facts, seen, stale>>
    BY <2>1, <2>2 DEF RunInv, TypeOK, Steps
  <2>3. CASE Gathered(broken, Reporting)
    BY <2>1, <2>3, Advances DEF RunInv, TypeOK, Steps
  <2> QED
    BY <2>2, <2>3
<1>2. AtFirst'
  BY DEF RunInv, TypeOK, AtFirst
<1>3. Looked'
  <2>1. seen = Entries /\ at \in Entries
    BY DEF RunInv, Looked, TypeOK
  <2>2. seen' = Entries
    BY <2>1
  <2>3. mended' = mended /\ pc' \in {"exit", "regather", "save", "push"}
    OBVIOUS
  <2> QED
    BY <2>2, <2>3 DEF Looked, SeenBeforeMended
<1>4. Refreshed'
  <2>1. CASE Exit("1") /\ UNCHANGED <<facts, seen, stale>>
    BY <2>1 DEF RunInv, Refreshed, ReportIsFresh, AllTried
  <2>2. CASE Gathered(broken, Reporting)
    BY <2>2, Advances DEF RunInv, TypeOK, Refreshed, ReportIsFresh, AllTried
  <2> QED
    BY <2>1, <2>2
<1>5. Planned'
  BY DEF RunInv, TypeOK, Planned, NoRules
<1>6. AllTried'
  BY DEF RunInv, TypeOK, AllTried, Left
<1>7. Written'
  BY DEF RunInv, TypeOK, Written, AllTried, AtFirst
<1>8. Told'
  BY DEF RunInv, TypeOK, Told, AllTried, ExitCode, Failed, Failing
<1> QED
  BY <1>1, <1>2, <1>3, <1>4, <1>5, <1>6, <1>7, <1>8 DEF RunInv

(* The entries saved are those before `at`. *)
LEMMA SaveKeeps == ASSUME RunInv, Save PROVE RunInv'
<1> USE FixRunAssumption DEF Save, Saved, Exit, Fault, Advance, world, results, output, history, Entries
<1>1. TypeOK'
  <2>1. faults' \in 0..MaxFaults
    BY FaultTyped DEF RunInv
  <2>2. saved' \in [Entries -> (SUBSET Rules) \cup {Corrupt}]
    BY DEF RunInv, TypeOK
  <2>3. CASE Exit("1")
    BY <2>1, <2>2, <2>3 DEF RunInv, TypeOK, Steps
  <2>4. CASE Advance("push") /\ UNCHANGED exit
    BY <2>1, <2>2, <2>4, Advances DEF RunInv, TypeOK, Steps
  <2> QED
    BY <2>3, <2>4
<1>2. AtFirst'
  BY DEF RunInv, TypeOK, AtFirst
<1>3. Looked'
  BY DEF RunInv, TypeOK, AtFirst, Looked, SeenBeforeMended, NoRules
<1>4. Refreshed'
  BY DEF RunInv, TypeOK, AtFirst, Refreshed, ReportIsFresh, AllTried
<1>5. Planned'
  BY DEF RunInv, TypeOK, Planned, NoRules
<1>6. AllTried'
  BY DEF RunInv, TypeOK, AllTried, Left
<1>7. Written'
  <2>1. CASE Exit("1")
    BY <2>1 DEF RunInv, Written, AllTried
  <2>2. CASE Saved(facts[at]) /\ Advance("push")
    <3>1. saved' = [saved EXCEPT ![at] = facts[at]] /\ facts' = facts
      BY <2>2
    <3>2. \A e \in Entries : e < at \/ e = at => saved'[e] = facts[e]
      BY <3>1 DEF RunInv, TypeOK, Written
    <3>3. CASE pc' = "push" /\ at' = 1 /\ \A e \in Entries : e <= at
      <4>1. \A e \in Entries : saved'[e] = facts[e]
        BY <3>2, <3>3 DEF RunInv, TypeOK
      <4>2. saved' = facts
        BY <3>1, <4>1 DEF RunInv, TypeOK
      <4> QED
        BY <3>1, <3>3, <4>2 DEF Written
    <3>4. CASE pc' = pc /\ \A e \in Entries : e < at' => e < at \/ e = at
      BY <3>1, <3>2, <3>4 DEF RunInv, Written, AllTried
    <3> QED
      BY <2>2, <3>3, <3>4, Advances DEF RunInv
  <2> QED
    BY <2>1, <2>2
<1>8. Told'
  BY DEF RunInv, TypeOK, Told, AllTried, ExitCode, Failed, Failing
<1> QED
  BY <1>1, <1>2, <1>3, <1>4, <1>5, <1>6, <1>7, <1>8 DEF RunInv

(* Nothing changes but what Loki has. *)
LEMMA PushKeeps == ASSUME RunInv, Push PROVE RunInv'
<1> USE FixRunAssumption DEF Push, Exit, Fault, world, results, output, history, Entries
<1>1. TypeOK'
  <2>1. faults' \in 0..MaxFaults
    BY FaultTyped DEF RunInv
  <2>2. /\ pushed' \in BOOLEAN /\ pc' \in Steps /\ at' \in Entries
        /\ exit' \in {"none", "0", "1", "2", "killed"}
        /\ exit' = "none" <=> pc' # "exit"
    <3>1. CASE Exit("1") /\ pushed' \in BOOLEAN
      BY <3>1 DEF Steps
    <3>2. CASE pc' = "render" /\ pushed' \in BOOLEAN /\ UNCHANGED <<at, exit>>
      BY <3>2 DEF RunInv, TypeOK, Steps
    <3>3. pushed \in BOOLEAN
      BY DEF RunInv, TypeOK
    <3> QED
      BY <3>1, <3>2, <3>3
  <2> QED
    BY <2>1, <2>2 DEF RunInv, TypeOK
<1>2. AtFirst'
  BY DEF RunInv, TypeOK, AtFirst
<1>3. Looked'
  BY DEF RunInv, TypeOK, AtFirst, Looked, SeenBeforeMended, NoRules
<1>4. Refreshed'
  BY DEF RunInv, TypeOK, AtFirst, Refreshed, ReportIsFresh, AllTried
<1>5. Planned'
  BY DEF RunInv, TypeOK, Planned, NoRules
<1>6. AllTried'
  BY DEF RunInv, TypeOK, AllTried, Left
<1>7. Written'
  BY DEF RunInv, TypeOK, Written, AllTried, AtFirst
<1>8. Told'
  BY DEF RunInv, TypeOK, Told, AllTried, ExitCode, Failed, Failing
<1> QED
  BY <1>1, <1>2, <1>3, <1>4, <1>5, <1>6, <1>7, <1>8 DEF RunInv

(* The exit code is that of the report. *)
LEMMA RenderKeeps == ASSUME RunInv, Render PROVE RunInv'
<1> USE FixRunAssumption DEF Render, Exit, ExitCode, Failed, Failing, world, results, output, history, Entries
<1>1. TypeOK'
  BY DEF RunInv, TypeOK, Steps, Statuses, Options, NoRules, NoFixes, Corrupt, AtFirst
<1>2. AtFirst'
  BY DEF RunInv, TypeOK, AtFirst
<1>3. Looked'
  BY DEF RunInv, TypeOK, AtFirst, Looked, SeenBeforeMended, NoRules
<1>4. Refreshed'
  BY DEF RunInv, TypeOK, AtFirst, Refreshed, ReportIsFresh, AllTried
<1>5. Planned'
  BY DEF RunInv, TypeOK, Planned, NoRules
<1>6. AllTried'
  BY DEF RunInv, TypeOK, AllTried, Left
<1>7. Written'
  BY DEF RunInv, TypeOK, Written, AllTried, AtFirst
<1>8. Told'
  BY DEF RunInv, TypeOK, Told, AllTried, ExitCode, Failed, Failing
<1> QED
  BY <1>1, <1>2, <1>3, <1>4, <1>5, <1>6, <1>7, <1>8 DEF RunInv

(* A run that dies has rendered nothing. *)
LEMMA KillKeeps == ASSUME RunInv, Kill PROVE RunInv'
<1> USE FixRunAssumption DEF Kill, Exit, Fault, Saved, world, results, output, history, Entries
<1>1. TypeOK'
  <2>1. faults' \in 0..MaxFaults
    BY FaultTyped DEF RunInv
  <2>2. saved' \in [Entries -> (SUBSET Rules) \cup {Corrupt}]
    BY DEF RunInv, TypeOK
  <2> QED
    BY <2>1, <2>2 DEF RunInv, TypeOK, Steps
<1>2. AtFirst'
  BY DEF RunInv, TypeOK, AtFirst
<1>3. Looked'
  BY DEF RunInv, TypeOK, AtFirst, Looked, SeenBeforeMended, NoRules
<1>4. Refreshed'
  BY DEF RunInv, TypeOK, AtFirst, Refreshed, ReportIsFresh, AllTried
<1>5. Planned'
  BY DEF RunInv, TypeOK, Planned, NoRules
<1>6. AllTried'
  BY DEF RunInv, TypeOK, AllTried, Left
<1>7. Written'
  BY DEF RunInv, TypeOK, Written, AllTried, AtFirst
<1>8. Told'
  BY DEF RunInv, TypeOK, Told, AllTried, ExitCode, Failed, Failing
<1> QED
  BY <1>1, <1>2, <1>3, <1>4, <1>5, <1>6, <1>7, <1>8 DEF RunInv

(* Another run knows nothing. *)
LEMMA LaunchKeeps == ASSUME RunInv, Launch PROVE RunInv'
<1> USE FixRunAssumption DEF Launch, Fresh, world, results, output, history, Entries
<1>1. TypeOK'
  BY DEF RunInv, TypeOK, Steps, Statuses, Options, NoRules, NoFixes, Corrupt, AtFirst
<1>2. AtFirst'
  BY DEF RunInv, TypeOK, AtFirst
<1>3. Looked'
  BY DEF RunInv, TypeOK, AtFirst, Looked, SeenBeforeMended, NoRules
<1>4. Refreshed'
  BY DEF RunInv, TypeOK, AtFirst, Refreshed, ReportIsFresh, AllTried
<1>5. Planned'
  BY DEF RunInv, TypeOK, Planned, NoRules
<1>6. AllTried'
  BY DEF RunInv, TypeOK, AllTried, Left
<1>7. Written'
  BY DEF RunInv, TypeOK, Written, AllTried, AtFirst
<1>8. Told'
  BY DEF RunInv, TypeOK, Told, AllTried, ExitCode, Failed, Failing
<1> QED
  BY <1>1, <1>2, <1>3, <1>4, <1>5, <1>6, <1>7, <1>8 DEF RunInv

(* Other people change nothing the run knows. *)
LEMMA EditKeeps == ASSUME RunInv, Edit PROVE RunInv'
<1> USE FixRunAssumption DEF Edit, world, results, output, history, Entries
<1>1. TypeOK'
  <2>1. PICK e \in Entries, rule \in Rules :
          broken' = [broken EXCEPT ![e] = IF rule \in @ THEN @ \ {rule} ELSE @ \cup {rule}]
    OBVIOUS
  <2>2. broken' \in [Entries -> SUBSET Rules]
    BY <2>1 DEF RunInv, TypeOK
  <2>3. edits' \in 0..MaxEdits
    BY DEF RunInv, TypeOK
  <2> QED
    BY <2>2, <2>3 DEF RunInv, TypeOK
<1>2. AtFirst'
  BY DEF RunInv, TypeOK, AtFirst
<1>3. Looked'
  BY DEF RunInv, TypeOK, AtFirst, Looked, SeenBeforeMended, NoRules
<1>4. Refreshed'
  BY DEF RunInv, TypeOK, AtFirst, Refreshed, ReportIsFresh, AllTried
<1>5. Planned'
  BY DEF RunInv, TypeOK, Planned, NoRules
<1>6. AllTried'
  BY DEF RunInv, TypeOK, AllTried, Left
<1>7. Written'
  BY DEF RunInv, TypeOK, Written, AllTried, AtFirst
<1>8. Told'
  BY DEF RunInv, TypeOK, Told, AllTried, ExitCode, Failed, Failing
<1> QED
  BY <1>1, <1>2, <1>3, <1>4, <1>5, <1>6, <1>7, <1>8 DEF RunInv

(* Nothing changes. *)
LEMMA StutterKeeps == ASSUME RunInv, UNCHANGED vars PROVE RunInv'
<1> USE FixRunAssumption DEF vars, world, results, output, history, Entries
<1>1. TypeOK'
  BY DEF RunInv, TypeOK, Steps, Statuses, Options, NoRules, NoFixes, Corrupt, AtFirst
<1>2. AtFirst'
  BY DEF RunInv, TypeOK, AtFirst
<1>3. Looked'
  BY DEF RunInv, TypeOK, AtFirst, Looked, SeenBeforeMended, NoRules
<1>4. Refreshed'
  BY DEF RunInv, TypeOK, AtFirst, Refreshed, ReportIsFresh, AllTried
<1>5. Planned'
  BY DEF RunInv, TypeOK, Planned, NoRules
<1>6. AllTried'
  BY DEF RunInv, TypeOK, AllTried, Left
<1>7. Written'
  BY DEF RunInv, TypeOK, Written, AllTried, AtFirst
<1>8. Told'
  BY DEF RunInv, TypeOK, Told, AllTried, ExitCode, Failed, Failing
<1> QED
  BY <1>1, <1>2, <1>3, <1>4, <1>5, <1>6, <1>7, <1>8 DEF RunInv

-----------------------------------------------------------------------------
LEMMA NextKeeps == RunInv /\ [Next]_vars => RunInv'
<1> SUFFICES ASSUME RunInv, [Next]_vars PROVE RunInv'
  OBVIOUS
<1>1. CASE Start     BY <1>1, StartKeeps
<1>2. CASE Gather    BY <1>2, GatherKeeps
<1>3. CASE PlanFixes BY <1>3, PlanFixesKeeps
<1>4. CASE Fix       BY <1>4, FixKeeps
<1>5. CASE Regather  BY <1>5, RegatherKeeps
<1>6. CASE Save      BY <1>6, SaveKeeps
<1>7. CASE Push      BY <1>7, PushKeeps
<1>8. CASE Render    BY <1>8, RenderKeeps
<1>9. CASE Kill      BY <1>9, KillKeeps
<1>10. CASE Launch   BY <1>10, LaunchKeeps
<1>11. CASE Edit     BY <1>11, EditKeeps
<1>12. CASE UNCHANGED vars BY <1>12, StutterKeeps
<1> QED
  BY <1>1, <1>2, <1>3, <1>4, <1>5, <1>6, <1>7, <1>8, <1>9, <1>10, <1>11, <1>12
  DEF Next, Step

(* The invariant holds throughout.                                         *)
THEOREM RunInvariant == Spec => []RunInv
<1> QED
  BY InitRunInv, NextKeeps, PTL DEF Spec

-----------------------------------------------------------------------------
(* What the invariant means for the properties of FixRun                   *)

(* The variables keep their types.                                         *)
THEOREM RunTypes == Spec => []TypeOK
<1>1. RunInv => TypeOK
  BY DEF RunInv
<1> QED
  BY <1>1, RunInvariant, PTL

(* No repository is changed before the facts of all have been had: the     *)
(* first that cannot be read ends the run (execute_fix_run).               *)
THEOREM AllReadBeforeAnyFix == Spec => []SeenBeforeMended
<1>1. RunInv => SeenBeforeMended
  BY DEF RunInv, Looked
<1> QED
  BY <1>1, RunInvariant, PTL

(* A report never shows a repository as it was before a fix.               *)
THEOREM ReportsAreFresh == Spec => []ReportIsFresh
<1>1. RunInv => ReportIsFresh
  BY DEF RunInv, Refreshed
<1> QED
  BY <1>1, RunInvariant, PTL

(* A run that reports its fixes has tried each of them.                    *)
THEOREM NoFixSkipped == Spec => []EveryFixTried
<1>1. ASSUME RunInv, rendered, options.fix, NEW e \in Entries, NEW rule \in plan[e]
      PROVE  fixes[e][rule] \in {"rejected", "applied", "failed"}
  <2>1. Left(e) = {} /\ fixes[e][rule] # "none"
    BY <1>1 DEF RunInv, AllTried, Planned
  <2>2. fixes[e][rule] \in Statuses
    BY <1>1 DEF RunInv, TypeOK
  <2> QED
    BY <2>1, <2>2 DEF Left, Statuses
<1>2. RunInv => EveryFixTried
  BY <1>1 DEF EveryFixTried
<1> QED
  BY <1>2, RunInvariant, PTL

(* Exit code 0 of --fix: no rule that is on fails in the facts reported,   *)
(* and every planned fix took effect (RunOutput::exit_code).               *)
THEOREM ZeroIsFixed == Spec => []ZeroMeansFixed
<1>1. ASSUME RunInv, exit = "0", options.fix
      PROVE  \A e \in Entries : Failing(e) = {} /\ plan[e] \cap Fixable \subseteq mended[e]
  <2>1. rendered /\ ~Failed /\ \A e \in Entries : Failing(e) = {}
    BY <1>1 DEF RunInv, Told, ExitCode
  <2>2. ASSUME NEW e \in Entries, NEW rule \in plan[e], rule \in Fixable
        PROVE  rule \in mended[e]
    <3>1. rule \in Rules /\ fixes[e][rule] \in Statuses
      BY <1>1 DEF RunInv, TypeOK
    <3>2. fixes[e][rule] # "failed"
      BY <2>1, <3>1 DEF Failed
    <3>3. fixes[e][rule] \notin {"planned", "none", "rejected"}
      BY <1>1, <2>1, <2>2 DEF RunInv, AllTried, Planned, Left
    <3>4. fixes[e][rule] = "applied"
      BY <3>1, <3>2, <3>3 DEF Statuses
    <3> QED
      BY <1>1, <3>4 DEF RunInv, Planned
  <2> QED
    BY <2>1, <2>2
<1>2. RunInv => ZeroMeansFixed
  BY <1>1 DEF ZeroMeansFixed
<1> QED
  BY <1>2, RunInvariant, PTL

(* A rule that `disabled_rules` turns off for a repository is never fixed  *)
(* there.                                                                  *)
THEOREM DisabledNeverFixed == Spec => []DisabledLeftAlone
<1>1. RunInv => DisabledLeftAlone
  BY DEF RunInv, Planned, DisabledLeftAlone
<1> QED
  BY <1>1, RunInvariant, PTL

(* The snapshots of a run that saves hold what it reports.                 *)
THEOREM SnapshotsHoldReport == Spec => []SavedIsReported
<1>1. RunInv => SavedIsReported
  BY DEF RunInv, Written, SavedIsReported
<1> QED
  BY <1>1, RunInvariant, PTL

(* Nothing is rendered, and nothing has been, before it was pushed.        *)
Posted == (pc = "render" \/ rendered) /\ options.push => pushed

LEMMA PostedStep ==
  ASSUME RunInv, Posted, [Next]_vars PROVE Posted'
<1> USE FixRunAssumption DEF RunInv, TypeOK, AllTried, Posted, Advance, Exit,
      world, results, output, history
<1>1. CASE Start     BY <1>1 DEF Start
<1>2. CASE Gather    BY <1>2 DEF Gather, Gathered
<1>3. CASE PlanFixes BY <1>3 DEF PlanFixes, Reporting
<1>4. CASE Fix       BY <1>4 DEF Fix
<1>5. CASE Regather  BY <1>5 DEF Regather, Gathered, Reporting
<1>6. CASE Save      BY <1>6 DEF Save
<1>7. CASE Push      BY <1>7 DEF Push
<1>8. CASE Render    BY <1>8 DEF Render
<1>9. CASE Kill      BY <1>9 DEF Kill
<1>10. CASE Launch   BY <1>10 DEF Launch, Fresh
<1>11. CASE Edit     BY <1>11 DEF Edit
<1>12. CASE UNCHANGED vars BY <1>12 DEF vars
<1> QED
  BY <1>1, <1>2, <1>3, <1>4, <1>5, <1>6, <1>7, <1>8, <1>9, <1>10, <1>11, <1>12
  DEF Next, Step

(* A run with --push-loki shows its report, and ends in success, only once *)
(* Loki has the results (run in src/main.rs).                              *)
THEOREM ShownOncePushed == Spec => []ShownIsPushed
<1>1. Init => Posted
  BY DEF Init, Posted, Fresh
<1>2. RunInv /\ Posted /\ [Next]_vars => Posted'
  BY PostedStep
<1>3. RunInv /\ Posted => ShownIsPushed
  BY DEF RunInv, Told, Posted, ShownIsPushed
<1> QED
  BY <1>1, <1>2, <1>3, RunInvariant, PTL DEF Spec
=============================================================================
