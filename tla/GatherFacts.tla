---------------------------- MODULE GatherFacts -----------------------------
(***************************************************************************)
(* gather_repo_facts (src/facts.rs), one step for each call to GitHub,     *)
(* while others change the repository between the calls.  What GitHub      *)
(* keeps of a repository is the record `github`; `past` holds each such    *)
(* record since the first call, which is what the facts are judged by.     *)
(* Sets of at most one element are what the code returns as an Option.     *)
(***************************************************************************)
EXTENDS Integers, FiniteSetsExt, SequencesExt

CONSTANTS
  Repositories,  (* what a repository may be like at the first call        *)
  PageSize,      (* how many rulesets a page of the list holds             *)
  MaxId,         (* the highest id of a ruleset                            *)
  Branches,      (* names of branches                                      *)
  Paths,         (* paths in a tree with their kinds, see IsWorkflowPath   *)
  MaxEdits       (* how often others change the repository                 *)

Contents == {"a workflow", "another workflow", "other YAML", "no text", "huge"}
Versions == {"old", "new"}

(* What GitHub keeps of a repository, as far as the facts go.              *)
Kept ==
  [flag : BOOLEAN, default : Branches, fork : {"all_external", "first_time"},
   permissions : {"read", "write"}, protected : SUBSET Branches, truncated : BOOLEAN,
   rulesets : UNION {[ids -> Versions] : ids \in SUBSET (1..MaxId)},
   files : UNION {[paths -> Contents] : paths \in SUBSET Paths}]

ASSUME GatherFactsAssumption ==
  /\ Repositories \subseteq Kept
  /\ IsFiniteSet(Paths) /\ \A p \in Paths : p.kind \in {"blob", "tree", "commit"}
  /\ PageSize \in Nat \ {0} /\ MaxId \in Nat /\ MaxEdits \in Nat

VARIABLES
  github,  (* the repository as it is now                                  *)
  access,  (* what the token may read: "admin" settings, "fork" policy,    *)
           (* "flags" of merging                                           *)
  order,   (* does the list of rulesets begin with the "oldest" or "newest"? *)
  past,    (* what it has been since the first call                        *)
  pc,      (* the next call, or "done" or "failed"                         *)
  page,    (* the page of rulesets to ask for                              *)
  toGet,   (* rulesets listed, then workflow files found, not yet fetched  *)
  facts    (* RepoFacts as far as it has been gathered                     *)

program == <<pc, page, toGet, facts>>
vars    == <<github, access, order, past, program>>


NoFacts ==
  [flag |-> {}, default |-> "none", fork |-> {}, permissions |-> "none", rulesets |-> {},
   protection |-> {}, files |-> {}, workflows |-> {}]

-----------------------------------------------------------------------------
(* What the client makes of an answer                                      *)

(* The header of page k out of n: for each page it names, how that page    *)
(* relates to this one.                                                    *)
Link(k, n) ==
  LET prev  == [url |-> k - 1, rel |-> {"prev"}]
      next  == [url |-> k + 1, rel |-> {"next"}]
      last  == [url |-> n, rel |-> {"last"}]
      first == [url |-> 1, rel |-> {"first"}]
  IN  CASE k > 1 /\ k < n -> <<prev, next, last, first>>
        [] k > 1 /\ k >= n -> <<prev, first>>
        [] k = 1 /\ k < n -> <<next, last>>
        [] OTHER -> <<>>

(* Mutant: the first page that the header names is the next one.           *)
ParseFirstLink(header) == IF header = <<>> THEN {} ELSE {header[1].url} \ {1}

ParseNextLink(header) ==
  LET nexts == {n \in DOMAIN header : "next" \in header[n].rel}
  IN  IF nexts = {} THEN {} ELSE {header[Min(nexts)].url}

(* get_fork_pr_approval_permission: 404 is not the absence of a policy.    *)
ForkPolicy(answer) == IF answer = "404" THEN {} ELSE {answer}

(* A blob directly in .github/workflows/ whose extension is yml or yaml; a *)
(* file that is only called `.yml` has none.                               *)
IsWorkflowPath(path) ==
  path.kind = "blob" /\ path.place = "workflows" /\ path.extension \in {"yml", "yaml"}

(* decode_repository_text_file, then the YAML parser.  GitHub sends no      *)
(* content, with the encoding `none`, for a file of more than a megabyte.  *)
Decodes(content) == content \notin {"huge", "no text", "other YAML"}

-----------------------------------------------------------------------------
(* GitHub and those who change the repository                              *)

(* The list of rulesets, by the position of each in it.                    *)
Position(id, ids) ==
  Cardinality({i \in ids : IF order = "newest" THEN i >= id ELSE i <= id})

Ordered(ids) == [n \in 1..Cardinality(ids) |-> CHOOSE id \in ids : Position(id, ids) = n]

PagesOf(ids) == Max({1, (Cardinality(ids) + PageSize - 1) \div PageSize})

Edit(changed) ==
  /\ pc \notin {"done", "failed"}
  /\ Len(past) <= MaxEdits
  /\ changed # github
  /\ github' = changed
  /\ past' = Append(past, changed)
  /\ UNCHANGED <<access, order, program>>

ChangeSettings ==
  \/ Edit([github EXCEPT !.flag = ~github.flag])
  \/ \E p \in {"all_external", "first_time"} : Edit([github EXCEPT !.fork = p])
  \/ \E p \in {"read", "write"} : Edit([github EXCEPT !.permissions = p])
  \/ \E b \in Branches : Edit([github EXCEPT !.default = b])

Protect ==
  \E b \in Branches : Edit([github EXCEPT !.protected = SymDiff(github.protected, {b})])

ChangeRulesets ==
  \/ \E id \in DOMAIN github.rulesets :
       \/ Edit([github EXCEPT !.rulesets = [github.rulesets EXCEPT ![id] = "new"]])
       \/ Edit([github EXCEPT !.rulesets =
                  [i \in (DOMAIN github.rulesets) \ {id} |-> github.rulesets[i]]])
  \/ \E id \in 1..MaxId :
       /\ \A g \in Range(past) : \A i \in DOMAIN g.rulesets : i < id
       /\ Edit([github EXCEPT !.rulesets =
                  [i \in (DOMAIN github.rulesets) \cup {id} |->
                     IF i = id THEN "old" ELSE github.rulesets[i]]])

Push ==
  \E path \in Paths :
    \/ /\ path \in DOMAIN github.files
       /\ Edit([github EXCEPT !.files =
                  [p \in (DOMAIN github.files) \ {path} |-> github.files[p]]])
    \/ \E c \in {"another workflow", "other YAML"} :
         Edit([github EXCEPT !.files =
                 [p \in (DOMAIN github.files) \cup {path} |->
                    IF p = path THEN c ELSE github.files[p]]])

-----------------------------------------------------------------------------
(* The calls                                                               *)

Init ==
  /\ github \in Repositories
  /\ access \in SUBSET {"admin", "fork", "flags"}
  /\ order \in {"oldest", "newest"}
  /\ past = <<github>>
  /\ pc = "repo"
  /\ page = 1
  /\ toGet = <<>>
  /\ facts = NoFacts

GitHubStays == UNCHANGED <<github, access, order, past>>

(* Any call may be refused, or fail as often as it is tried; `?` hands the *)
(* error on, and there are no facts.                                       *)
Fail ==
  /\ pc \notin {"done", "failed"}
  /\ pc' = "failed"
  /\ facts' = NoFacts
  /\ GitHubStays /\ UNCHANGED <<page, toGet>>

(* A token that may not read the flags of merging gets none.               *)
GetRepo ==
  /\ pc = "repo"
  /\ facts' = [facts EXCEPT !.flag = IF "flags" \in access THEN {github.flag} ELSE {},
                            !.default = github.default]
  /\ pc' = "fork"
  /\ GitHubStays /\ UNCHANGED <<page, toGet>>

GetForkPolicy ==
  /\ pc = "fork"
  /\ facts' = [facts EXCEPT !.fork =
                 ForkPolicy(IF "fork" \in access THEN github.fork ELSE "404")]
  /\ pc' = "permissions"
  /\ GitHubStays /\ UNCHANGED <<page, toGet>>

(* Mutant: what the token may not read is taken for what it should be.     *)
GetPermissionsLeniently ==
  /\ pc = "permissions"
  /\ facts' = [facts EXCEPT !.permissions =
                 IF "admin" \in access THEN github.permissions ELSE "read"]
  /\ pc' = "rulesets"
  /\ GitHubStays /\ UNCHANGED <<page, toGet>>

(* A token without the permission gets 404 here and Fail is all there is.  *)
GetWorkflowPermissions ==
  /\ pc = "permissions"
  /\ "admin" \in access
  /\ facts' = [facts EXCEPT !.permissions = github.permissions]
  /\ pc' = "rulesets"
  /\ GitHubStays /\ UNCHANGED <<page, toGet>>

(* get_paginated_json.  A page beyond the last is empty.                   *)
ListRulesets ==
  /\ pc = "rulesets"
  /\ LET ids   == DOMAIN github.rulesets
         first == (page - 1) * PageSize + 1
         next  == ParseNextLink(Link(page, PagesOf(ids)))
     IN  /\ toGet' = toGet \o SubSeq(Ordered(ids), first,
                                     Min({first + PageSize - 1, Cardinality(ids)}))
         /\ IF next = {} THEN pc' = "ruleset" /\ page' = 1
                         ELSE pc' = pc /\ page' \in next
  /\ GitHubStays /\ UNCHANGED facts

(* A ruleset that is gone by now ends the gathering, with Fail.            *)
GetRuleset ==
  /\ pc = "ruleset"
  /\ IF toGet = <<>>
       THEN pc' = "protection" /\ UNCHANGED <<toGet, facts>>
       ELSE /\ Head(toGet) \in DOMAIN github.rulesets
            /\ toGet' = Tail(toGet)
            /\ facts' = [facts EXCEPT !.rulesets = @ \cup
                           {<<Head(toGet), github.rulesets[Head(toGet)]>>}]
            /\ pc' = pc
  /\ GitHubStays /\ UNCHANGED page

(* 404 for a branch without protection, and for a token that may not know. *)
GetProtection ==
  /\ pc = "protection"
  /\ facts' = [facts EXCEPT !.protection =
                 IF "admin" \in access THEN github.protected \cap {facts.default} ELSE {}]
  /\ pc' = "tree"
  /\ GitHubStays /\ UNCHANGED <<page, toGet>>

GetTree ==
  /\ pc = "tree"
  /\ ~github.truncated
  /\ facts' = [facts EXCEPT !.files = {p \in DOMAIN github.files : p.kind # "tree"}]
  /\ toGet' = SetToSeq({p \in DOMAIN github.files : IsWorkflowPath(p)})
  /\ pc' = "workflow"
  /\ GitHubStays /\ UNCHANGED page

(* Mutant: what does not parse is passed over.                             *)
GetWorkflowIfParsed ==
  /\ pc = "workflow"
  /\ IF toGet = <<>>
       THEN pc' = "done" /\ UNCHANGED <<toGet, facts>>
       ELSE /\ Head(toGet) \in DOMAIN github.files
            /\ toGet' = Tail(toGet)
            /\ facts' = [facts EXCEPT !.workflows = @ \cup
                           {w \in {<<Head(toGet), github.files[Head(toGet)]>>} : Decodes(w[2])}]
            /\ pc' = pc
  /\ GitHubStays /\ UNCHANGED page

(* One of the workflow files; a file that is gone by now, or that is not a  *)
(* workflow, ends the gathering, with Fail.                                *)
GetWorkflow ==
  /\ pc = "workflow"
  /\ IF toGet = <<>>
       THEN pc' = "done" /\ UNCHANGED <<toGet, facts>>
       ELSE /\ Head(toGet) \in DOMAIN github.files
            /\ Decodes(github.files[Head(toGet)])
            /\ toGet' = Tail(toGet)
            /\ facts' = [facts EXCEPT !.workflows = @ \cup
                           {<<Head(toGet), github.files[Head(toGet)]>>}]
            /\ pc' = pc
  /\ GitHubStays /\ UNCHANGED page

Call ==
  \/ GetRepo \/ GetForkPolicy \/ GetWorkflowPermissions \/ ListRulesets \/ GetRuleset
  \/ GetProtection \/ GetTree \/ GetWorkflow

Next == Call \/ Fail \/ ChangeSettings \/ Protect \/ ChangeRulesets \/ Push

Spec == Init /\ [][Next]_vars

-----------------------------------------------------------------------------
(* What rules about these facts find                                       *)

(* SettingCheck: a setting that is not known is neither right nor wrong.   *)
SettingVerdict(known, expected) ==
  IF known = {} THEN "error" ELSE IF known = {expected} THEN "pass" ELSE "fail"

(* ST004 and its like, ST007 and ST010, RS007                              *)
FlagVerdict(f)       == SettingVerdict(f.flag, FALSE)
ForkVerdict(f)       == SettingVerdict(f.fork, "all_external")
PermissionVerdict(f) == SettingVerdict({f.permissions}, "read")
LegacyVerdict(f)     == IF f.protection = {} THEN "pass" ELSE "fail"

-----------------------------------------------------------------------------
(* Properties                                                              *)

(* A rule never passes or fails on something that was not so at any moment *)
(* of the gathering, whatever the token may read and whoever changes the   *)
(* repository: a branch is without legacy protection, a setting has the    *)
(* value a rule saw.                                                       *)
VerdictsWereTrue ==
  pc = "done" =>
    \E repo, fork, permissions, protection \in Range(past) :
      /\ FlagVerdict(facts) = "pass" => ~repo.flag
      /\ FlagVerdict(facts) = "fail" => repo.flag
      /\ facts.default = repo.default
      /\ ForkVerdict(facts) = "pass" => fork.fork = "all_external"
      /\ ForkVerdict(facts) = "fail" => fork.fork # "all_external"
      /\ PermissionVerdict(facts) = "pass" <=> permissions.permissions = "read"
      /\ LegacyVerdict(facts) = "pass" <=> facts.default \notin protection.protected

(* The list of rulesets is read page by page and each ruleset afterwards.  *)
(* A ruleset that somebody deletes moves others to a page that was already *)
(* read, and one that is created moves some to the next page; still, the   *)
(* facts have every ruleset that was there all the time, unless one was    *)
(* created and deleted again meanwhile, and none that was never there.     *)
NoRulesetMissed ==
  pc = "done" =>
    /\ (\A g \in Range(past) :
          DOMAIN g.rulesets \subseteq DOMAIN past[1].rulesets \cup DOMAIN github.rulesets) =>
         \A id \in DOMAIN past[1].rulesets \cap DOMAIN github.rulesets :
           \E v \in Versions : <<id, v>> \in facts.rulesets
    /\ \A r \in facts.rulesets : \E g \in Range(past) :
         r[1] \in DOMAIN g.rulesets /\ g.rulesets[r[1]] = r[2]

(* The workflows are exactly those that were files when the tree was read, *)
(* each with a content it had then or later: no file is left out because   *)
(* it went away or does not parse, none is taken that is no workflow, and  *)
(* a tree that GitHub cut short never makes facts.                         *)
WorkflowsAreFiles ==
  pc = "done" =>
    /\ {w[1] : w \in facts.workflows} =
         {p \in facts.files : /\ p.kind = "blob" /\ p.place = "workflows"
                             /\ p.extension \in {"yml", "yaml"}}
    /\ \E n \in DOMAIN past :
         /\ ~past[n].truncated
         /\ facts.files = {p \in DOMAIN past[n].files : p.kind \in {"blob", "commit"}}
         /\ \A w \in facts.workflows : \E m \in n..Len(past) :
              w[1] \in DOMAIN past[m].files /\ past[m].files[w[1]] = w[2]
=============================================================================
