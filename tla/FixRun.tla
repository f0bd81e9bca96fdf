------------------------------- MODULE FixRun -------------------------------
(***************************************************************************)
(* The program around the fixes: options, gathering every repository of    *)
(* the configuration, planning, executing repository by repository,        *)
(* gathering again, snapshots, Loki, the report and the exit code.  How a  *)
(* fix works is left to RulesetFix and PullRequestFix: here a repository   *)
(* is the set of rules it breaks, and a fix mends one, or proposes a change *)
(* that mends it once it is merged.  The program is run again and again    *)
(* over the same snapshots.                                                *)
(***************************************************************************)
EXTENDS Naturals

CONSTANTS
  N,            (* how many repositories the configuration lists           *)
  Rules,        (* the catalog                                             *)
  Fixable,      (* rules for which plan_rule_fix plans an effect,          *)
  Proposing,    (* those of them whose effect is a pull request,           *)
  Rejecting,    (* and those for which it plans a rejection                *)
  Disabled,     (* disabled_rules of each entry                            *)
  FaultKinds, MaxFaults,   (* what may go wrong, and how often             *)
  MaxEdits      (* how often others change a repository                    *)

Entries   == 1..N
AllFaults == {"config", "read", "refused", "lost", "write", "push", "kill"}

ASSUME FixRunAssumption ==
  /\ N \in Nat \ {0}
  /\ Fixable \subseteq Rules /\ Proposing \subseteq Fixable
  /\ Rejecting \subseteq Rules \ Fixable
  /\ Disabled \in [Entries -> SUBSET Rules]
  /\ FaultKinds \subseteq AllFaults
  /\ MaxFaults \in Nat /\ MaxEdits \in Nat

VARIABLES
  broken,   (* GitHub: the rules each repository breaks                    *)
  saved,    (* the snapshot of each, or what is left of it                 *)
  pc, at,   (* the step of the run, and the entry it is at                 *)
  options,  (* the command line                                            *)
  facts,    (* what was gathered last                                      *)
  plan,     (* the fixes planned                                           *)
  fixes,    (* and what became of them                                     *)
  pushed,   (* has Loki been sent the results?                             *)
  rendered, (* has the report been?                                        *)
  exit,     (* the exit code                                               *)
  seen,     (* history: the entries gathered in this run,                  *)
  mended,   (* the fixes of this run that took effect,                     *)
  stale,    (* and the entries changed by it since they were gathered      *)
  faults, edits

world   == <<broken, saved>>
results == <<facts, plan, fixes>>
output  == <<pushed, rendered, exit>>
history == <<seen, mended, stale>>
vars    == <<world, pc, at, options, results, output, history, faults, edits>>

Corrupt  == {"corrupt"}      (* no snapshot, or one that was cut short     *)
Statuses == {"none", "planned", "rejected", "applied", "failed"}
Steps    == {"start", "gather", "plan", "fix", "regather", "save", "push",
             "render", "exit"}
Options  == [fix : BOOLEAN, snapshot : {"none", "save", "load"}, push : BOOLEAN]
NoRules  == [e \in Entries |-> {}]
NoFixes  == [e \in Entries |-> [rule \in Rules |-> "none"]]

TypeOK ==
  /\ broken \in [Entries -> SUBSET Rules]
  /\ saved \in [Entries -> (SUBSET Rules) \cup {Corrupt}]
  /\ pc \in Steps /\ at \in Entries
  /\ options \in Options
  /\ facts \in [Entries -> SUBSET Rules]
  /\ plan \in [Entries -> SUBSET Rules]
  /\ fixes \in [Entries -> [Rules -> Statuses]]
  /\ pushed \in BOOLEAN /\ rendered \in BOOLEAN
  /\ exit \in {"none", "0", "1", "2", "killed"}
  /\ exit = "none" <=> pc # "exit"
  /\ seen \subseteq Entries /\ stale \subseteq Entries
  /\ mended \in [Entries -> SUBSET Rules]
  /\ faults \in 0..MaxFaults /\ edits \in 0..MaxEdits

Fresh ==
  /\ pc' = "start" /\ at' = 1
  /\ options' \in Options
  /\ facts' = NoRules /\ plan' = NoRules /\ fixes' = NoFixes
  /\ pushed' = FALSE /\ rendered' = FALSE /\ exit' = "none"
  /\ seen' = {} /\ mended' = NoRules /\ stale' = {}

Init ==
  /\ broken \in [Entries -> SUBSET Rules]
  /\ saved = [e \in Entries |-> Corrupt]
  /\ pc = "start" /\ at = 1
  /\ options \in Options
  /\ facts = NoRules /\ plan = NoRules /\ fixes = NoFixes
  /\ pushed = FALSE /\ rendered = FALSE /\ exit = "none"
  /\ seen = {} /\ mended = NoRules /\ stale = {}
  /\ faults = MaxFaults /\ edits = MaxEdits

-----------------------------------------------------------------------------
Fault(kind) ==
  /\ kind \in FaultKinds
  /\ faults > 0
  /\ faults' = faults - 1

(* Mutant: an error leaves the exit code as it was.                        *)
ExitOnZero(code) == pc' = "exit" /\ at' = 1 /\ exit' = IF code = "1" THEN exit ELSE code

Exit(code) == pc' = "exit" /\ at' = 1 /\ exit' = code

(* On to the next entry, or from the last one to another step.             *)
Advance(next) ==
  IF at = N THEN pc' = next /\ at' = 1
            ELSE pc' = pc /\ at' = at + 1

Reporting == IF options.snapshot = "save" THEN "save" ELSE "push"

(* The rules evaluate_rules finds broken: those left on for the entry.     *)
Failing(e) == facts[e] \ Disabled[e]

(* plan_repo_fixes, of the rules rules_for_repo leaves on                  *)
PlanOf(e) == Failing(e) \cap (Fixable \cup Rejecting)

(* parse_cli_args, the configuration, validate_disabled_rules and the      *)
(* credentials                                                             *)
Start ==
  /\ pc = "start"
  /\ \/ /\ options.fix /\ options.snapshot = "load"
        /\ Exit("2") /\ UNCHANGED faults
     \/ /\ ~(options.fix /\ options.snapshot = "load")
        /\ \/ Fault("config") /\ Exit("1")
           \/ pc' = "gather" /\ UNCHANGED <<at, exit, faults>>
  /\ UNCHANGED <<world, options, results, pushed, rendered, history, edits>>

(* One repository's facts: gather_repo_facts, or load_snapshot.  The first *)
(* that cannot be had ends the run.                                        *)
Gathered(from, next) ==
  /\ facts' = [facts EXCEPT ![at] = from[at]]
  /\ seen' = seen \cup {at}
  /\ stale' = stale \ {at}
  /\ Advance(next)
  /\ UNCHANGED <<exit, faults>>

(* Mutant: a repository that cannot be read counts as one with no facts.   *)
GatherAnyway ==
  /\ pc = "gather"
  /\ \/ Gathered(IF options.snapshot = "load" THEN saved ELSE broken, "plan")
     \/ Fault("read") /\ Advance("plan") /\ UNCHANGED <<facts, seen, stale, exit>>
  /\ UNCHANGED <<world, options, plan, fixes, pushed, rendered, mended, edits>>

Gather ==
  /\ pc = "gather"
  /\ \/ options.snapshot = "load" /\ saved[at] # Corrupt /\ Gathered(saved, "plan")
     \/ options.snapshot # "load" /\ Gathered(broken, "plan")
     \/ /\ \/ Fault("read")
           \/ options.snapshot = "load" /\ saved[at] = Corrupt /\ UNCHANGED faults
        /\ Exit("1") /\ UNCHANGED <<facts, seen, stale>>
  /\ UNCHANGED <<world, options, plan, fixes, pushed, rendered, mended, edits>>

Regather ==
  /\ pc = "regather"
  /\ \/ Gathered(broken, Reporting)
     \/ Fault("read") /\ Exit("1") /\ UNCHANGED <<facts, seen, stale>>
  /\ UNCHANGED <<world, options, plan, fixes, pushed, rendered, mended, edits>>

(* plan_repo_fix_batches; without --fix, or with nothing planned, what was *)
(* gathered is what is reported.                                           *)
PlanFixes ==
  /\ pc = "plan"
  /\ LET batches == [e \in Entries |-> PlanOf(e)] IN
       /\ plan' = batches
       /\ fixes' = [e \in Entries |-> [rule \in Rules |->
                     CASE rule \notin batches[e] -> "none"
                       [] rule \in Rejecting     -> "rejected"
                       [] OTHER                  -> "planned"]]
       /\ pc' = IF options.fix /\ batches # NoRules THEN "fix" ELSE Reporting
  /\ UNCHANGED <<world, at, options, facts, output, history, faults, edits>>

-----------------------------------------------------------------------------
(* Execution: execute_repo_fixes for one entry after the other.  A fix has *)
(* its effect and an answer, no effect and an error, or its effect and an  *)
(* error.  A pull request leaves the rule broken.                          *)
Left(e) == {rule \in plan[e] : fixes[e][rule] = "planned"}

Outcome(rule, status, effect) ==
  /\ fixes' = [fixes EXCEPT ![at][rule] = status]
  /\ broken' = IF effect /\ rule \notin Proposing
                 THEN [broken EXCEPT ![at] = @ \ {rule}] ELSE broken
  /\ mended' = IF effect THEN [mended EXCEPT ![at] = @ \cup {rule}] ELSE mended
  /\ stale' = IF effect THEN stale \cup {at} ELSE stale

Tried(rule) ==
  \/ Outcome(rule, "applied", TRUE) /\ UNCHANGED faults
  \/ Outcome(rule, "failed", FALSE) /\ Fault("refused")
  \/ \E effect \in BOOLEAN : Outcome(rule, "failed", effect) /\ Fault("lost")

(* Mutant: the first fix that fails ends the execution.                    *)
FixUntilFailed ==
  /\ pc = "fix"
  /\ \/ \E rule \in Left(at) : Tried(rule) /\ UNCHANGED <<pc, at>>
     \/ /\ Left(at) = {} \/ \E rule \in Rules : fixes[at][rule] = "failed"
        /\ Advance("regather")
        /\ UNCHANGED <<broken, fixes, mended, stale, faults>>
  /\ UNCHANGED <<saved, options, facts, plan, output, seen, edits>>

(* Mutant: what was gathered before the fixes is reported after them.      *)
FixAndReport ==
  /\ pc = "fix"
  /\ \/ \E rule \in Left(at) : Tried(rule) /\ UNCHANGED <<pc, at>>
     \/ /\ Left(at) = {}
        /\ Advance(Reporting)
        /\ UNCHANGED <<broken, fixes, mended, stale, faults>>
  /\ UNCHANGED <<saved, options, facts, plan, output, seen, edits>>

Fix ==
  /\ pc = "fix"
  /\ \/ \E rule \in Left(at) : Tried(rule) /\ UNCHANGED <<pc, at>>
     \/ /\ Left(at) = {}
        /\ Advance("regather")
        /\ UNCHANGED <<broken, fixes, mended, stale, faults>>
  /\ UNCHANGED <<saved, options, facts, plan, output, seen, edits>>

-----------------------------------------------------------------------------
(* save_snapshot truncates the file, then writes it.                       *)
Saved(content) == saved' = [saved EXCEPT ![at] = content]

(* Mutant: a snapshot that cannot be written is passed over.               *)
SaveAnyway ==
  /\ pc = "save"
  /\ \/ Saved(facts[at]) /\ UNCHANGED faults
     \/ Saved(Corrupt) /\ Fault("write")
     \/ UNCHANGED saved /\ Fault("write")
  /\ Advance("push")
  /\ UNCHANGED <<broken, options, results, output, history, edits>>

Save ==
  /\ pc = "save"
  /\ \/ Saved(facts[at]) /\ Advance("push") /\ UNCHANGED <<exit, faults>>
     \/ /\ Saved(Corrupt) \/ UNCHANGED saved
        /\ Fault("write") /\ Exit("1")
  /\ UNCHANGED <<broken, options, results, pushed, rendered, history, edits>>

(* loki::push: its error ends the run before anything is printed.          *)
Push ==
  /\ pc = "push"
  /\ \/ ~options.push /\ pc' = "render" /\ UNCHANGED <<at, exit, pushed, faults>>
     \/ options.push /\ pushed' = TRUE /\ pc' = "render" /\ UNCHANGED <<at, exit, faults>>
     \/ options.push /\ Fault("push") /\ pushed' \in BOOLEAN /\ Exit("1")
  /\ UNCHANGED <<world, options, results, rendered, history, edits>>

Failed == \E e \in Entries, rule \in Rules : fixes[e][rule] = "failed"

(* Mutant: failed fixes do not count.                                      *)
ExitCodeOfRules == IF \A e \in Entries : Failing(e) = {} THEN "0" ELSE "1"

(* RunOutput::exit_code                                                    *)
ExitCode == IF ~Failed /\ \A e \in Entries : Failing(e) = {} THEN "0" ELSE "1"

Render ==
  /\ pc = "render"
  /\ rendered' = TRUE
  /\ Exit(ExitCode)
  /\ UNCHANGED <<world, options, results, pushed, history, faults, edits>>

-----------------------------------------------------------------------------
(* The process dies; in the middle of a write it leaves half a snapshot.   *)
Kill ==
  /\ pc # "exit"
  /\ Fault("kill")
  /\ Exit("killed")
  /\ \/ UNCHANGED saved
     \/ pc = "save" /\ Saved(Corrupt)
  /\ UNCHANGED <<broken, options, results, pushed, rendered, history, edits>>

Launch ==
  /\ pc = "exit"
  /\ Fresh
  /\ UNCHANGED <<world, faults, edits>>

(* Administrators break rules and mend them.                               *)
Edit ==
  /\ edits > 0
  /\ edits' = edits - 1
  /\ \E e \in Entries, rule \in Rules :
       broken' = [broken EXCEPT ![e] = IF rule \in @ THEN @ \ {rule} ELSE @ \cup {rule}]
  /\ UNCHANGED <<saved, pc, at, options, results, output, history, faults>>

Step == \/ Start \/ Gather \/ PlanFixes \/ Fix \/ Regather
        \/ Save \/ Push \/ Render

Next == Step \/ Kill \/ Launch \/ Edit

Spec == Init /\ [][Next]_vars

-----------------------------------------------------------------------------
(* No repository is changed before the facts of every repository have been *)
(* had: one that cannot be read stops the fixes of all.                    *)
SeenBeforeMended == mended # NoRules => seen = Entries

(* A report describes each repository as it was after the run's last       *)
(* change to it, never as it was before the fixes.                         *)
ReportIsFresh == rendered => stale = {}

(* In a run that reports its fixes each planned one was tried: a failure   *)
(* in one repository keeps no other from being fixed.                      *)
EveryFixTried ==
  rendered /\ options.fix =>
    \A e \in Entries : \A rule \in plan[e] :
      fixes[e][rule] \in {"rejected", "applied", "failed"}

(* After exit code 0 of --fix no rule that is on is broken in the facts    *)
(* reported, and every fix that was planned took effect.                   *)
ZeroMeansFixed ==
  exit = "0" /\ options.fix =>
    \A e \in Entries : /\ Failing(e) = {}
                       /\ plan[e] \cap Fixable \subseteq mended[e]

(* A rule that is off for a repository is never fixed there.               *)
DisabledLeftAlone == \A e \in Entries : mended[e] \cap Disabled[e] = {}

(* What a run that saves snapshots reports is what its snapshots hold, so  *)
(* that loading them gives the same report.                                *)
SavedIsReported ==
  rendered /\ options.snapshot = "save" => saved = facts

(* A run that shows its report after --push-loki has sent the same results *)
(* to Loki: when that fails it shows nothing, and does not end in success. *)
ShownIsPushed ==
  options.push /\ (rendered \/ exit = "0") => pushed

=============================================================================
