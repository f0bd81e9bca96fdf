# github-infra in TLA+

`github-infra` audits GitHub repositories against a fixed catalog of rules and, with
`--fix`, changes what it can. This directory holds TLA+ modules of the parts of it in which
order, failure and other people matter, the TLC configurations that check them, and proofs
that TLAPS checks. Paths below are relative to the repository.

    tlc -workers 4 -config MCPinFix.cfg MCPullRequestFix.tla     (a run)
    tlapm GitHubClientProofs.tla                                 (the proofs of a module)

## 1. The system

The program is sequential: one thread, one blocking HTTP call at a time, no retry of a
mutation, nothing kept between runs but GitHub itself and the snapshot files. What makes it
hard is outside: the answer to a call may be lost after the call took effect, the process may
die between two calls, administrators and pull-request authors change the same objects, other
programs spend the same rate limit, and two runs (a cron job and a person) may overlap.

| Part (source) | State it keeps | Operations | Hard behaviour | What makes it correct |
| --- | --- | --- | --- | --- |
| Main program (`src/main.rs`) | options, facts, fixes, in memory | parse options, gather all, plan all, execute one repository after another, gather again, save, push, render, exit code | an error half-way; a fix that failed or whose answer was lost | nothing is changed before everything was read; the report describes the state after the changes; failures in one repository keep no other from being fixed; the exit code tells |
| Facts and snapshots (`src/facts.rs`) | JSON files, one per repository | gather (some ten calls, in pages), save, load | gathering is not atomic; a token may not read everything; a write that fails leaves half a file | what the rules are given was so at some moment of the gathering; what is loaded is what was saved |
| Rules (`src/rules/`) | none | a verdict for each rule from the facts | rulesets combine with each other and with legacy protection | a verdict follows what GitHub enforces |
| Planning (`src/remediation.rs` 439-482, 1574-2144) | none | one planned effect or a rejection for each failing rule | several rules meet in one ruleset; a fix that needs another fix | no fix takes protection away, blocks merging or is tried for ever |
| Execution of settings and rulesets (581-1186) | a queue per ruleset | PATCH repository, GET and PUT or POST rulesets, PUT fork policy, DELETE legacy protection | one call serves many rules; lost updates; facts grown old | what is reported Applied shows in the facts gathered afterwards |
| Pull-request fixes (1188-1540, 2145-2158) | a branch of a fixed name on GitHub | look for the pull request, resolve the base, create or reset the branch, PUT each file, open the pull request, clean up | remnants of earlier runs; lost answers; people using the branch | a pull request is never closed and never holds half a fix |
| HTTP client (`src/github/client.rs`) | the last rate limit it was told | GET with retries, mutations without | sleeping for the limit, retries, lost answers | no request is known to be refused; mutations are sent once |
| Authentication (`src/github/auth.rs`, `app_auth.rs`) | a token and installation id per repository | look the installation up, exchange, renew | a token gets old while the client sleeps | each request carries a live token of its own installation |
| Loki, report, configuration (`src/loki.rs`, `report.rs`, `config.rs`) | none | build, push, render, parse | a push that fails after changes were made | the report is not lost |
| Workflow model and expressions (`src/workflow/`), patterns (`src/rules/glob.rs`) | none | parse YAML, expressions and branch patterns | odd types, patterns that combine, filters that contradict | nothing that a workflow does is hidden from the rules; patterns match what GitHub documents |
| GitHub types, basic types (`src/github/types.rs`, `src/types.rs`) | none | serialisation | unknown fields | unchanged fields survive a PUT |
| OpenAPI fixtures and tests | none | development only | | |

`main` calls facts, rules, planning and execution; facts and execution call the client; the
client calls authentication before each request. All shared state is GitHub's.

## 2. Modules

| Module | Models | Used by |
| --- | --- | --- |
| `FixProposal` | what a pull-request fix promises, abstractly: draft, proposed, withdrawn | refined by `PullRequestFix` |
| `PullRequestFix` | both pull-request fixes, one action per HTTP call, with GitHub's branch and pull requests and other people's steps | `MCPullRequestFix`, `PullRequestFixProofs` |
| `Rulesets` | verdicts, plans, and what a plan does to a ruleset, as functions of the facts | `RulesetFix` |
| `RulesetFix` | gather, plan, execute, gather again, report, for one repository, with administrators | `MCRulesetFix`, `RulesetFixProofs` |
| `GitHubClient` | one request after another: rate limit, tokens, retries, GitHub's side of both | `MCGitHubClient`, `GitHubClientProofs` |
| `LegacyProtection` | the whole comparison of a legacy protection with rulesets, and what GitHub lets through with either | `Conversions` |
| `GatherFacts` | one gathering, call by call, with changes by others in between | `MCGatherFacts`, `GatherFactsProofs` |
| `WorkflowModel`, `BranchPatterns`, `Expressions` | how a workflow file, a branch pattern and a text are read | `WorkflowRules`, `TextProofs` |
| `WorkflowRules` | the rules WF001 to WF006 | `CiShapes`, `WorkflowPins` |
| `CiShapes` | the workflows with a gate job that the repository's own property tests generate, with the truth about each | `RequiredChecks` |
| `RequiredChecks` | the life of a pull request under a required gate | `MCRequiredChecks`, `RequiredChecksProofs` |
| `Totals` | sums of sequences | `Calendar`, `LokiPayload` |
| `WorkflowPins`, `Calendar`, `LokiPayload` | rewriting uses, reading `expires_at`, building the payload | `Conversions` |
| `Conversions` | each pure conversion, given an input, against a statement of its own | `MCConversions`, `ConversionsProofs` |
| `FixRun` | the program around the fixes, for all repositories, with snapshots, Loki, report and exit code | `MCFixRun`, `FixRunProofs` |

The components meet at interfaces. `GitHubClient` justifies what the other modules assume of a
call: a mutation is sent at most once (`SentAtMost`), and every call ends (`RequestsEnd`), in a
response, an error status, or no usable answer. `PullRequestFix` and `RulesetFix` are built on
those three replies ("ok", "status" or refused, "lost") and say what one fix does with them.
`FixRun` takes a fix as one step with the outcomes that those two modules show: applied with its
effect, failed without, failed with. `RequiredChecks` takes the verdict of `WorkflowRules` on a
workflow file that `WorkflowModel` has read, and follows a pull request through GitHub with it.

**PullRequestFix.** `main`, `branch` and `open` are GitHub: the contents of the files on the
default branch, the tool's branch, and the bases of the open pull requests whose head it is.
`pc`, `plan`, `base`, `todo`, `status` are the local state of an invocation. Each action is the
call it is named for and everything up to the next one: `FindExisting`, `ResolveBase`, `Prepare`
(reads the files at the base), `CreateRef`, `Lookup`, `ResetRef`, `RecreateRef`, `PutFile`,
`Propose`, `Cleanup`. A file is a number, 0 being what the fix wants; the text and its rewriting
are left out, but not that some contents cannot be rewritten. A plan is rejected, and nothing is
launched, for a file with one of the contents `Rejected` (`Plannable`). Contents in `Refusing` are
planned and fail every preparation: planning rejects only fewer matches than the plan has uses,
preparation any other number, so a script line that reads like a use is such a case, and a version
that no longer resolves is another. `branch.wants` is history: what the plan behind the branch names.

**Rulesets, RulesetFix.** A ruleset is the set of its rule kinds, its merge methods, its required checks
with the app that may report them, and strictness. `enabled` is the configuration, `repo` is GitHub, `seen`
the facts being gathered, `before` those the plan was made from. `PlanOf` is `plan_repo_fixes` with
`reconcile_pending_default_branch_target`; `Updated` is `apply_queued_modifications`; `IsNext` is the order
of `execute_planned_effects`: settings, rulesets in the order they were queued, fork policy, legacy
protection. A PUT of a ruleset is two actions, since the GET is another call.

**GitHubClient.** Times are distances from now (what is left of a token, how long to the end of
a window), so no clock is bounded. `cache` and `known` are the client's, `limits` GitHub's; `told`
and `attempts` are history. `Wait` is `sleep_for_rate_limit_if_needed`, `Auth`, `Lookup`,
`Exchange` are `resolve_bearer`, `Send` the call with whatever GitHub does, `Lose` an answer that
does not arrive, `Receive` the body of `send_get`'s loop and the end of a mutation.
`RateLimitState` starts as `None`; that is the same as a limit whose window is over.

**FixRun.** A repository is the set of rules it breaks. `Start` is the command line and the configuration,
then `Gather` and `Regather` entry by entry, `PlanFixes`, `Fix`, `Save`, `Push`, `Render`; each may fail as
the code's `?` lets it. `Launch` runs the program again with other options over the same snapshots. A fix
that is applied mends its rule, except that of the rules in `Proposing` only opens a pull request, which
leaves the rule broken. In an audit that saves, the code saves before it plans; planning is a pure function
of the same facts, so the model's order shows no difference.

**GatherFacts.** `github` is the repository, `past` every state of it since the first call (history,
to judge the facts by), `access` what the token may read. Each call of `gather_repo_facts` is an action;
`ListRulesets` one page of `get_paginated_json`, `GetRuleset` and `GetWorkflow` one item of the lists
those calls yield. `Fail` is any of them failing, and all that is possible where the code returns an
error: a cut tree, a ruleset or file that is gone, a workflow that does not parse. The facts of
settings are a flag that a token may not see, the fork policy and the workflow permissions, one for
each way the client reads 404.

**WorkflowModel.** A YAML value is a record; an `Option` is a set of at most one element. `ParsesAs...`
says whether serde accepts a value and the operator next to it what it yields: `TriggersOf`,
`StepOf`, `JobOf`. `UsesIn` reads the same from the document.

**BranchPatterns.** `Items` is `github_pattern_to_regex`, the regular expression as a sequence of
items, and `MatchFrom` says which sequences of items match from a place in the name on;
`DocumentedMatch` reads the pattern directly, as GitHub documents it, except that it shares with the
translation what one character, class or escape stands for (`Single`): that is not judged. A class is
read as the code escapes it, with ranges and negation; the set operators of Rust's regular expressions
within a class (`&&`, `~~`) are left out.

**Expressions.** A text is a sequence of tokens: words (`secrets`, another spelling of it, a name, a
number), the braces of an expression, quotes, dots, stars, dashes, spaces. `TextHasSecret` is the code:
`Blocks`, `Stripped` and `MatchesAt`, the regular expression. `UsesSecrets` is GitHub's reading, made
without it: the context however it is capitalised, whole identifiers with their dashes, spaces around
dots, `secrets.*`. The two differ, and each difference has a name: `PlainUseAt` are the uses that the
code finds, `MisreadAt` the places where it may find one that is none.

**RequiredChecks.** `shape` is what the workflow file was made from, `accepted` WF004's verdict on the
file, `reports` what `--fix` asks before it requires a check. Events trigger runs, jobs end in any
order their needs allow, and `Merge` is what GitHub lets through: a check that was skipped passes.

**LegacyProtection.** `SupersededBy` is the code; `LegacyAllows` and `RulesetsAllow` are GitHub's side, for an
attempt of a writer or admin to push, force, delete, create or merge.

**WorkflowPins.** A file is a sequence of the lines that have to do with `uses`, in block style, in flow
style, or a line of a script that looks like one. `CanPin` is the plan, `Prepared` the rewriting of what
the file has become since.

## 3. Runs

Each property is violated by a mutant of a definition it depends on; the mutants are kept next to
the definitions, and their comments say what the bug would be.

| Run | States | What it shows |
| --- | --- | --- |
| `pin_fix` | 573,528 | Pinning workflows, two files: no pull request is closed by the tool, none is half a fix, Applied means one is open, the fix implements `FixProposal`, and once calls stop failing relaunching gets the change proposed, unless a file is one that a plan is rejected for or that no preparation accepts |
| `envrc_fix` | 1,518 | The fix that adds `.envrc`, which creates a file and reads nothing first, under every kind of fault and of step of other people: relaunching gets the change proposed |
| `pin_race` | violation | Two invocations at once: the reset of a stale branch closes the pull request the other just opened |
| `ruleset_fix` | 515,964 | Nothing enforced is lost, no check is required that may never be reported or where a merge queue applies, Applied rules pass, rules that passed still do, a merge method remains, a ruleset is created only where none is, and `--fix` run again and again comes to an end, also with RS001 disabled, when other rules have nowhere to go |
| `ruleset_pins` | violation | A check pinned to an app is superseded by one that is not |
| `client_limit` | 4,728 | No request is refused for a limit the client was told of, though others spend it too; no mutation is sent twice |
| `client_tokens` | 457,604 | Two owners, one client: tokens are alive and of the right installation, and every request ends |
| `fix_run` | 781,886 | Read all before changing any; the report is of the state after the changes; every planned fix is tried; 0 after `--fix` means fixed; the snapshots hold what is reported |
| `gather` | 1,834,372 | What a rule passes or fails was so at some moment; no page and no ruleset is missed while others create and delete; the workflows are those of the whole tree |
| `ci_gate` | 1,008,769 | WF004 accepts exactly the gates that enforce; with one required, nothing is merged past a failed or running job; the required check is always reported |
| `ci_retarget` | violation | The required check of a pull request that was retargeted to the default branch is never reported |
| `conversions` | 325,232 | Nine conversions, each on a bounded set of inputs: patterns, filters, documents, rules about triggers and secrets, the texts of expressions, pins, legacy protection, times, payloads |

The three violations are disagreements between the code and its own comments or README, quoted in
`PROJECT.json`.

Some things hold by decision and not by accident, and are worth knowing:

- A lost answer to `POST pulls` keeps the branch (`GitHubClientError::Request`), an error status deletes it.
  An error status for a pull request that was opened all the same (a gateway in between) would make
  `Cleanup` close it. That fault ("gateway") is in `envrc_fix` and not in `pin_fix`, whose
  `ToolKeepsPullRequests` it violates.
- A PUT of a whole ruleset overwrites what an administrator changed since the GET. The API has no
  conditional PUT. The model has the GET and the PUT as two actions, but no change by an administrator falls
  between them: those come between invocations.
- One `RateLimitState` serves all installations. `client_tokens` has two, and the proof of
  `NeverRefusedKnowingly` shows why one limit is enough: a low limit makes the very next request sleep, so
  it cannot be overwritten by another installation's headers before it was obeyed.
- The payload is pushed before the report is rendered, where `src/README.md:58` says "After rendering". With
  Loki down, a run that changed repositories shows no report (`ShownIsPushed` in `FixRun` says what the
  order gives, `ShownOncePushed` proves it).
- The DELETE of the legacy protection is decided on the facts of the first gathering. A lock that an
  administrator sets during the run goes with it, whatever `src/src/rules/rulesets.rs:376-378` says of
  locks. `RulesetFix` has changes by administrators between invocations only, and says nothing of it.
- The rule about secrets in workflows for pull requests finds what is written `secrets`, in lower case, with
  a name right after its dot. `SECRETS.X`, `secrets.*` and `secrets. X` are given secrets and pass,
  whatever `src/src/workflow/expressions.rs:75` says of any reference and `rules/workflows.rs:437` of names
  that are case-insensitive; an identifier like `my-secrets` fails without need. `SecretsNeverPass` says
  exactly what is left.
- One workflow whose file no preparation accepts keeps all the others from being pinned, with a Failed in
  each run's report: `EventuallyProposed` promises nothing for such a tree (`Workable`).
- A ruleset that is created during the listing and deleted again shifts the pages twice, and another may be
  missed; `NoRulesetMissed` is about all other histories.

### Bounds

`MaxFaults` and `MaxOutside` (three and three for `pin_fix`): the longest scenario known to matter
takes one fault to leave a remnant, one to lose an answer on the way to the next pull request, and
one step of a person in between. Two files are enough for half a fix; four blobs (`MaxBlob`) in `pin_fix`:
two that can be rewritten, so that a file can change after it was planned, one that is planned and
refused, one that is rejected. Two rulesets are enough for "several candidates" and for
properties in which one gives what the other lacks; the eight rulesets and four legacy
protections of `MCRulesetFix` differ in each field a rule reads. One fault per history suffices
there because a run's calls are independent given their order, and one change by an administrator
because what matters of it is the state it leaves. A ruleset that covers nothing may take the last id;
`Settled` then lets RS001 be.
In `MCGitHubClient` a unit of time stands for the call timeout (30 s) or more; the margin is one
or two units, a token's life two more than the margin, so a sleep can outlast a token; limits of
two to four with a buffer of one or two reach both sides of it. `FixRun` has two entries, so
something can come after a failure, and three rules: fixed, rejected, and proposed in a pull request but
disabled for one of the entries.

`MCGatherFacts`: pages of one ruleset and three rulesets make a page that is neither first nor last; two
changes move a ruleset over a page boundary and back, or change what was read and what was not. The files
have one of each kind a tree can hold. `MCRequiredChecks`: every trigger with a good gate, every gate with a
few triggers; two other jobs, so that a gate can need one of them; two events, as what an event leaves is
again one of few states. `MCConversions`: all patterns of up to five characters over the wildcards and of
four with classes, since an item takes at most three and reaches no further; all texts of four tokens, all
expressions of four, which is a use of secrets with a token before it and one after, and longer ones of
braces, quotes and the word, so a secret with a literal before it; days and months around each of the limits
and leap rules; two rulesets, or one with a single thing wrong, against protections with one or two flags.
Each condition of a conversion decides on some input, and its mutant shows it.

### Fairness

`PullRequestFix`: weak fairness of each invocation's `Step`, which includes its launch: calls
return within ureq's global timeout (`client.rs:161`) and whoever runs the program runs it again
while the rule fails. `RulesetFix`: the same for `Tool`. `GitHubClient`: weak fairness of `Step`
only, which is the client's own code and the timeout of its calls; not of `Ask`, `Tick` or of
anything that is GitHub's.
`RequiredChecks`: weak fairness of the jobs, which GitHub runs or ends at its time limit; not of people.
`GatherFacts` and `Conversions` state no liveness: a gathering has no loop that could go on for ever
but the pages, and those are finite.

## 4. Proofs

TLAPS proves, for all values of the constants that meet the modules' named assumptions:

`PullRequestFixProofs`
- `TypeCorrect`: the types, for any number of invocations.
- `AppliedIsOpen`: a report of Applied has a pull request against the default branch behind it,
  for any number of invocations at once.
- `NeverHalfFix` and `PullRequestsKept`, for one invocation at a time and without gateway faults
  (the hypothesis `Serial`; `pin_race` and the remark above show it is needed). The invariant
  alone says nothing of how a pull request came to be, so it is strengthened to `SafeInv`: what
  is left to write covers what the plan names and the branch lacks (`Headed`), the plan is held
  while its branch is written (`PlanHeld`), and at the steps that delete the branch no pull
  request is open (`Guarded`).
- `FixImplementsProposal`: with the same hypothesis every step is a step of `FixProposal` or leaves
  its variables alone.

`GitHubClientProofs`, all from the inductive invariant `ClientInv`:
- `ClientTypes`, `AttemptsBounded`: attempts are what the retries account for (`Counting`).
- `BearersFit`, `TokensNeverExpire`: what is cached for a repository is a token of its
  installation, and a bearer about to be sent has at least the margin left (`Bearing`). It rests on
  `CallTime <= Margin`: a call ends before the margin does. In the code they are 30 s and
  `INSTALLATION_TOKEN_RENEW_MARGIN_SECONDS`.
- `NeverRefusedKnowingly`: the argument is `LowIsLast`. If GitHub told the client that no more than
  the buffer was left in a window still running, then it said so last, and `known` is that very
  limit. Whatever is sent next waits for its end.

`FixRunProofs`, all from the inductive invariant `RunInv`, for any number of repositories, any
catalog and any `disabled_rules`: `RunTypes`, `AllReadBeforeAnyFix`, `ReportsAreFresh`,
`NoFixSkipped`, `ZeroIsFixed`, `DisabledNeverFixed`, `SnapshotsHoldReport`. The properties speak of the
end of a run; `RunInv` says, step by step, how many entries have been gathered (`Looked`), gathered
again (`Refreshed`), tried (`AllTried`) and saved (`Written`), and that Applied implies an effect
(`Planned`). `Told` ties exit code 0 to the report.

`ShownOncePushed` follows from the same invariant. It, `DisabledNeverFixed` and `KnownWasTold` (below) are
proved for every value of the constants and in no run's configuration. In
`GitHubClientProofs` there is also `KnownWasTold`: what the client remembers of a limit is what GitHub
last told it, or older than a window.

`RulesetFixProofs`, for any rulesets, checks, catalog subset, faults and changes between invocations:
- `FixTypes`, `ProtectionAlwaysKept`, `MergesNeverBlocked`, `CreatesOnlyThen` from `FixInv`. Protection is
  deleted last and on a plan made earlier, so the invariant has to carry what the plan saw to that moment:
  what was planned is the plan of `before` and rulesets have only grown since, but by no merge queue
  (`Acting`), what was read of them is what they were (`Following`), what was fetched is still there
  (`Fetched`), and the rules that share a call share its outcome (`Shared`).
- `AppliedAlwaysPasses`, `NothingRegresses` from `ShownInv`, which adds that the rules that passed before
  pass all along, and the applied ones since (`Showing`), and that the last gathering is exact (`Read`). The
  lemmas show that each call keeps every passing rule passing, whichever rules it carries.

- `MergeableStays` from `MergeInv`. A merge method remains only because two fixes agree: one enables
  squash merges, the other allows nothing else. `Carried` keeps what both need from the plan on: every
  effect that was planned was tried with the outcome that is reported, and a branch that one ruleset
  covered at the start is never covered by two.

`GatherFactsProofs`, for any repositories, page size, order of the list and number of changes:
- `VerdictsWereAlwaysTrue`. `GatherInv` says of each part of the facts, from the call that reads it on,
  that some past state had it.
- `NoRulesetIsMissed`. A deletion moves rulesets to pages already read, so `ListInv` speaks of positions: as
  long as all that was listed can still be read, what was there from the first call and is now among the
  positions covered so far has been listed. What moved forward was on the page already, unless something
  listed before it went away, and then its GET fails the gathering.
- `WorkflowsAreAlwaysFiles`. `TreeInv`: each workflow of the one tree that was read is still to be fetched, or
  was fetched with a content it had at that moment or later.

`RequiredChecksProofs`:
- `VerdictsStayTrue`: for every workflow of `CiShape`, whatever its triggers, branch filters, gate
  and other jobs, WF004 accepts exactly the gates that enforce, and `--fix` finds that every pull
  request reports the check exactly if it does. The shape is turned into YAML values (`CiShapes`), read back
  (`WorkflowModel`) and judged (`WorkflowRules`); the lemmas follow each key on that way
  (`VerdictsAreRight`).
- `RequiredGateHolds`, which uses it, for any set of shapes and any number of events. The invariant
  `GateInv` is that an enforcing gate is never skipped and succeeds only after all jobs have.

`TextProofs`, by induction over texts:
- `PatternsAreExact`: for every pattern and every branch, the regular expression matches exactly if the
  pattern does as GitHub documents it.
- `SecretsAreFound`: a text of any length, in which no literal holds what ends an expression (`Regular`),
  is found to refer to a secret if GitHub evaluates one there in the plain form, and only if GitHub
  evaluates one there or `secrets` stands beside a dash or apart from a dot. GitHub's reading is one pass
  over the tokens, which knows literals and braces; that the code's two, cutting and stripping, see the
  same tokens (`FoundWhereSeen`) is the induction.

`ConversionsProofs`, for all inputs of the kinds that `InputsAssumption` lists. `ConvertedInv` is that the
outcome, once there is one, is what the program makes of the input; the rest is about the operators:
- `FiltersStayDocumented`: patterns and lists of filters, of which GitHub reads one after another and the
  code the last that matches.
- `NothingStaysHidden`: no use and no trigger of a workflow file that parses is hidden from the rules.
- `SecretsStayGuarded`: if the rule passes, what runs for pull requests is given no secret in the plain form
  and inherits none; if it fails, it is given some, or a text has one of the places that are misread.
- `SupersededStaysForbidden`: what a legacy protection forbids is forbidden without it, for all rulesets,
  protections and attempts.
- `RewritesAreExact`: pinning changes nothing but versions, each to its commit, and leaves none unpinned.
- `ExpiryStaysExact`: `parse_iso8601_utc` gives the instant that the calendar has, counted month by month,
  and refuses what it has not, for every year. A day has one place in its era of four centuries
  (`Placed`); `civil_from_days` finds its year (`YearOfDay`) and month (`EveryDayInAMonth`), so it gives only
  dates that exist (`OnlyDates`) and undoes `days_from_civil` on all of them (`ThereAndBack`).
- `ResultsStayStored`: no two results of a payload have the same time, so Loki keeps as many as the
  report counts, whatever reports are repeated or empty.

Induction over data is done with sets of numbers: `Upwards` and `Downwards` are induction up to a bound for
the members of a set, `Recursion` and `RecursionUpwards` show that a recursive function is what its
definition says. All recursion in these modules is by functions for that reason.

The assumptions that the modules name are types of the constants and these: rulesets and files are finitely
many (`RulesetsAssumption`, `GatherFactsAssumption`), a call takes no longer than the margin
(`GitHubClientAssumption`), the inputs of a conversion are of their kinds (`InputsAssumption`), the gates
and names of a shape are those the tests generate, and the texts that are expressions are told apart from
those that are not (`RequiredChecksAssumption`).

Assumed of GitHub, in the modules that need it: a skipped check does not block a merge; the protection
of a branch is hidden from the same tokens as the workflow permissions; a list keeps its order while
others change it; a called workflow has the secrets its caller passes and no others. Assumed of inputs:
one workflow file with a gate; people who try to get past a protection are in no team that may bypass
rulesets; an expression ends at the first `}}`.

Only model-checked: liveness, since ENABLED is out of the prover's reach (`EventuallyProposed`,
`FixesConverge`, `RequestsEnd`, `RequiredIsReported`), and the behaviour of `PullRequestFix` under "gateway".
Every safety property that a passing run checks is also proved.

## 5. Not modelled

The text of things (YAML and TOML syntax, JSON, URLs, reports, messages), the JWT, file rules (a name in
a set of paths), the checks for a job or an action of some name, the plans of the settings that are of
the same form as those modelled, a repository listed twice in the configuration, the OpenAPI fixtures.
Conditions of rulesets with patterns other than stars, and restrictions that list nobody. Raw uses with
several `@`, and a `./` path with a version, which the code reads as a reference to a repository
(`IsLiteral`). Snapshots of different runs in one directory. An
administrator's change during the execution of ruleset fixes. The list of components in `PROJECT.json`
says it for each part; the hazards there that no property covers say why.

## 6. Plan

Done, in this order: what can damage a repository (`PullRequestFix`, `RulesetFix`), what these rest on
(`GitHubClient`), what surrounds them (`FixRun`), the whole comparison of legacy protection, gathering, required
checks, the pure algorithms, and the proofs about each. Next:

1. Administrators' changes during the execution of ruleset fixes, with the properties weakened to what
   the tool's own steps can promise.
2. The rest of the catalog in `Rulesets`, and the queue's conflict branches.
3. The check of a required job across several workflow files.
4. Proofs of what the liveness properties rest on: measures that every step of an invocation lessens.
