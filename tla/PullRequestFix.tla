--------------------------- MODULE PullRequestFix ---------------------------
(***************************************************************************)
(* The fixes that open a pull request: `create_workflow_pin_pull_request`  *)
(* and `create_add_envrc_pull_request` (src/remediation.rs), against the   *)
(* part of GitHub they talk to.  One instance of this module is one of the *)
(* two fixes on one repository; both use one stable branch name, so a      *)
(* branch, and the pull requests whose head it is, outlive the invocation  *)
(* that made them.                                                         *)
(*                                                                         *)
(* Every HTTP call is one action.  Mutations are sent once and never       *)
(* retried (`send_serialized_mutation`, `send_mutation`), so what an       *)
(* invocation learns of one is a reply: "ok", "status" (an answer outside  *)
(* 2xx) or "lost" (no usable answer: transport, timeout or authentication  *)
(* error), and a "lost" call may or may not have taken effect.             *)
(***************************************************************************)
EXTENDS Naturals, FiniteSets

CONSTANTS
  Runs,        (* invocations of github-infra --fix, relaunched when idle   *)
  Files,       (* the files the fix can edit                               *)
  MaxBlob,     (* the unfixed contents of a file are the blobs 1..MaxBlob  *)
  Rejected,    (* contents a plan is rejected for: flow style, references   *)
               (* that are not literal                                     *)
  Refusing,    (* contents a plan accepts and no preparation does: a script *)
               (* line that reads like the use, a version nothing resolves *)
  Kind,        (* "pin": edit workflow files; "envrc": create one file     *)
  FaultKinds,  (* which of the faults below the environment may inject     *)
  MaxFaults,   (* how many it may inject                                   *)
  OutsideKinds,(* which things other people may do to the repository       *)
  MaxOutside,  (* how many of them they may do                             *)
  NoBranch     (* the value of `branch` when the branch does not exist     *)

AllFaults  == {"refused", "lost", "gateway", "crash"}
AllOutside == {"push", "merge", "close", "retarget", "open", "delete"}

ASSUME ConstantsAssumption ==
  /\ MaxBlob \in Nat \ {0} /\ MaxFaults \in Nat /\ MaxOutside \in Nat
  /\ Rejected \subseteq 1..MaxBlob /\ Refusing \subseteq 1..MaxBlob
  /\ Kind \in {"pin", "envrc"}
  /\ FaultKinds \subseteq AllFaults
  /\ OutsideKinds \subseteq AllOutside

(***************************************************************************)
(* A tree maps each file to its blob: 0 is the contents the fix wants.     *)
(* `branch.wants` is a history variable: the files the plan of the         *)
(* invocation that created the branch names.                               *)
(***************************************************************************)
Fixed  == 0
Tree   == [Files -> 0..MaxBlob]
Bases  == {"default", "other"}
Branch == [from : Tree, tree : Tree, wants : SUBSET Files]

ASSUME NoBranchAssumption == NoBranch \notin Branch

VARIABLES
  (* GitHub *)
  main,     (* contents of Files at the head of the default branch          *)
  branch,   (* the tool's branch, or NoBranch                               *)
  open,     (* bases of the open pull requests whose head is that branch    *)
  (* one invocation *)
  pc, plan, base, todo, status,
  (* budgets of the environment *)
  faults, outside

github == <<main, branch, open>>
local  == <<pc, plan, base, todo, status>>
vars   == <<github, local, faults, outside>>

Unfixed(tree) == {f \in Files : tree[f] # Fixed}
Clean == [f \in Files |-> Fixed]

(* A tree the fix can do something about.  One file is enough to have the  *)
(* whole plan rejected, or the whole preparation fail.                     *)
Plannable(tree) == \A f \in Files : tree[f] \notin Rejected
Workable(tree) == Plannable(tree) /\ \A f \in Files : tree[f] \notin Refusing

Steps == {"idle", "find", "base", "prepare", "create", "lookup", "reset",
          "recreate", "put", "propose", "cleanup"}
Statuses == {"none", "applied", "failed"}

(* Types, and what the shape of the code gives: a file is left to write    *)
(* while files are written.                                                *)
TypeOK ==
  /\ main \in Tree
  /\ branch \in Branch \cup {NoBranch}
  /\ open \in SUBSET Bases
  /\ pc \in [Runs -> Steps]
  /\ plan \in [Runs -> Tree]
  /\ base \in [Runs -> Tree]
  /\ todo \in [Runs -> SUBSET Files]
  /\ status \in [Runs -> Statuses]
  /\ faults \in 0..MaxFaults
  /\ outside \in 0..MaxOutside
  /\ \A r \in Runs : pc[r] = "put" => todo[r] # {}

Init ==
  /\ main \in Tree
  /\ branch = NoBranch
  /\ open = {}
  /\ pc = [r \in Runs |-> "idle"]
  /\ plan = [r \in Runs |-> Clean]
  /\ base = [r \in Runs |-> Clean]
  /\ todo = [r \in Runs |-> {}]
  /\ status = [r \in Runs |-> "none"]
  /\ faults = MaxFaults
  /\ outside = MaxOutside

-----------------------------------------------------------------------------
(* What a call can come to, and how an invocation goes on                  *)

Fault(kind) ==
  /\ kind \in FaultKinds
  /\ faults > 0
  /\ faults' = faults - 1

(* A GET answers truthfully or, after its retries, not at all.             *)
ReadFailed == \E kind \in {"refused", "lost"} : Fault(kind)

(* A mutation GitHub could accept: did it take effect, and what does the   *)
(* invocation hear?  A gateway fault is an error status for a mutation     *)
(* that did take effect.                                                   *)
Sent(possible, effect, reply) ==
  /\ effect => possible
  /\ \/ reply = "ok" /\ effect /\ UNCHANGED faults
     \/ reply = "status" /\ ~effect /\ Fault("refused")
     \/ reply = "status" /\ effect /\ Fault("gateway")
     \/ reply = "lost" /\ Fault("lost")

Replies == {"ok", "status", "lost"}

Goto(r, step) ==
  /\ pc' = [pc EXCEPT ![r] = step]
  /\ UNCHANGED <<plan, base, todo, status>>

(* The invocation ends: its locals are gone, its report stays.             *)
Finish(r, outcome) ==
  /\ pc' = [pc EXCEPT ![r] = "idle"]
  /\ plan' = [plan EXCEPT ![r] = Clean]
  /\ base' = [base EXCEPT ![r] = Clean]
  /\ todo' = [todo EXCEPT ![r] = {}]
  /\ status' = [status EXCEPT ![r] = outcome]

(* Deleting a branch closes the pull requests whose head it is.            *)
Delete(effect) ==
  /\ branch' = IF effect THEN NoBranch ELSE branch
  /\ open' = IF effect THEN {} ELSE open
  /\ UNCHANGED main

Create(r, effect) ==
  /\ branch' = IF effect
                 THEN [from |-> base[r], tree |-> base[r],
                       wants |-> Unfixed(plan[r])]
                 ELSE branch
  /\ UNCHANGED <<main, open>>

-----------------------------------------------------------------------------
(* The steps of one invocation                                             *)

(* The audit found the rule failing, and the plan made from it was not     *)
(* rejected: `plan_pin_workflow_actions` rejects all of it for one file it *)
(* cannot rewrite.                                                         *)
Launch(r) ==
  /\ pc[r] = "idle"
  /\ Unfixed(main) # {}
  /\ Plannable(main)
  /\ pc' = [pc EXCEPT ![r] = "find"]
  /\ plan' = [plan EXCEPT ![r] = main]
  /\ status' = [status EXCEPT ![r] = "none"]
  /\ UNCHANGED <<github, base, todo, faults, outside>>

(* Mutant: the lookup forgets the base filter.                             *)
FindAnyBase(r) ==
  /\ pc[r] = "find"
  /\ \/ ReadFailed /\ Finish(r, "failed")
     \/ open # {} /\ Finish(r, "applied") /\ UNCHANGED faults
     \/ open = {} /\ Goto(r, "base") /\ UNCHANGED faults
  /\ UNCHANGED <<github, outside>>

(* find_existing_pull_request: the open pull request for this head and the *)
(* default branch, if there is one, is the answer.                         *)
FindExisting(r) ==
  /\ pc[r] = "find"
  /\ \/ ReadFailed /\ Finish(r, "failed")
     \/ "default" \in open /\ Finish(r, "applied") /\ UNCHANGED faults
     \/ "default" \notin open /\ Goto(r, "base") /\ UNCHANGED faults
  /\ UNCHANGED <<github, outside>>

(* resolve_commit_sha of the default branch.  Reading contents at that sha *)
(* later is reading `base[r]`.                                             *)
ResolveBase(r) ==
  /\ pc[r] = "base"
  /\ \/ ReadFailed /\ Finish(r, "failed")
     \/ /\ base' = [base EXCEPT ![r] = main]
        /\ todo' = [todo EXCEPT ![r] = Unfixed(plan[r])]
        /\ pc' = [pc EXCEPT ![r] =
                     IF Kind = "pin" THEN "prepare" ELSE "create"]
        /\ UNCHANGED <<plan, status, faults>>
  /\ UNCHANGED <<github, outside>>

(* prepare_workflow_updates: each planned file is rewritten as it stands at *)
(* the base.  A file that is already fixed does not change, which is an     *)
(* error.  One that is as planned is rewritten unless its contents refuse:  *)
(* planning rejects fewer matches than uses, preparation any other number,  *)
(* and a version that does not resolve never will.  One with other contents *)
(* than planned may or may not have the occurrences the plan counted.       *)
Changed(r) == {f \in todo[r] : base[r][f] # plan[r][f]}
Refused(r) == {f \in todo[r] \ Changed(r) : plan[r][f] \in Refusing}

Prepare(r) ==
  /\ pc[r] = "prepare"
  /\ \/ ReadFailed /\ Finish(r, "failed")
     \/ /\ todo[r] \subseteq Unfixed(base[r]) \ Refused(r)
        /\ Goto(r, "create") /\ UNCHANGED faults
     \/ /\ Changed(r) \cup Refused(r) # {}
        /\ Finish(r, "failed") /\ UNCHANGED faults
  /\ UNCHANGED <<github, outside>>

(* Mutant: an existing branch is reset without looking for its pull        *)
(* requests.                                                               *)
CreateRefSkipsLookup(r) ==
  /\ pc[r] = "create"
  /\ \/ /\ branch # NoBranch
        /\ Goto(r, "reset")
        /\ UNCHANGED <<github, faults>>
     \/ /\ Sent(branch = NoBranch, TRUE, "ok")
        /\ Create(r, TRUE)
        /\ Goto(r, "put")
  /\ UNCHANGED outside

(* Mutant: an existing branch is an error like any other.                  *)
CreateRefGivesUp(r) ==
  /\ pc[r] = "create"
  /\ \/ /\ branch # NoBranch
        /\ Finish(r, "failed")
        /\ UNCHANGED <<github, faults>>
     \/ /\ Sent(branch = NoBranch, TRUE, "ok")
        /\ Create(r, TRUE)
        /\ Goto(r, "put")
  /\ UNCHANGED outside

(* create_fresh_branch, POST git/refs: a 422 "already exists" leads to the *)
(* lookup, any other error ends the fix.                                   *)
CreateRef(r) ==
  /\ pc[r] = "create"
  /\ \/ /\ branch # NoBranch
        /\ Goto(r, "lookup")
        /\ UNCHANGED <<github, faults>>
     \/ \E effect \in BOOLEAN, reply \in Replies :
          /\ Sent(branch = NoBranch, effect, reply)
          /\ Create(r, effect)
          /\ IF reply = "ok" THEN Goto(r, "put") ELSE Finish(r, "failed")
  /\ UNCHANGED outside

(* Mutant: the lookup before the reset keeps the base filter.              *)
LookupSameBase(r) ==
  /\ pc[r] = "lookup"
  /\ \/ ReadFailed /\ Finish(r, "failed")
     \/ "default" \in open /\ Finish(r, "failed") /\ UNCHANGED faults
     \/ "default" \notin open /\ Goto(r, "reset") /\ UNCHANGED faults
  /\ UNCHANGED <<github, outside>>

(* create_fresh_branch, GET pulls for this head and any base: an open pull *)
(* request on the branch forbids the reset.                                *)
Lookup(r) ==
  /\ pc[r] = "lookup"
  /\ \/ ReadFailed /\ Finish(r, "failed")
     \/ open # {} /\ Finish(r, "failed") /\ UNCHANGED faults
     \/ open = {} /\ Goto(r, "reset") /\ UNCHANGED faults
  /\ UNCHANGED <<github, outside>>

(* create_fresh_branch, DELETE git/refs of the stale branch ...            *)
ResetRef(r) ==
  /\ pc[r] = "reset"
  /\ \/ /\ branch = NoBranch
        /\ Finish(r, "failed")
        /\ UNCHANGED <<github, faults>>
     \/ \E effect \in BOOLEAN, reply \in Replies :
          /\ Sent(branch # NoBranch, effect, reply)
          /\ Delete(effect)
          /\ IF reply = "ok" THEN Goto(r, "recreate") ELSE Finish(r, "failed")
  /\ UNCHANGED outside

(* ... and POST git/refs again.                                            *)
RecreateRef(r) ==
  /\ pc[r] = "recreate"
  /\ \/ /\ branch # NoBranch
        /\ Finish(r, "failed")
        /\ UNCHANGED <<github, faults>>
     \/ \E effect \in BOOLEAN, reply \in Replies :
          /\ Sent(branch = NoBranch, effect, reply)
          /\ Create(r, effect)
          /\ IF reply = "ok" THEN Goto(r, "put") ELSE Finish(r, "failed")
  /\ UNCHANGED outside

(* GitHub accepts a PUT of a file whose `sha` is the one on the branch, or, *)
(* without a `sha`, of a file the branch does not have.                     *)
Accepts(r, f) ==
  /\ branch # NoBranch
  /\ branch.tree[f] # Fixed
  /\ Kind = "pin" => branch.tree[f] = base[r][f]

Written(f) ==
  [from |-> branch.from,
   tree |-> [branch.tree EXCEPT ![f] = Fixed],
   wants |-> branch.wants]

(* Mutants: a file whose PUT failed is skipped; the loop over the files    *)
(* does not end; a failed PUT leaves the branch behind.                    *)
PutSome(r, f, effect, reply) ==
  /\ pc[r] = "put"
  /\ f \in todo[r]
  /\ \/ Sent(Accepts(r, f), effect, reply)
     \/ ~Accepts(r, f) /\ ~effect /\ reply = "status" /\ UNCHANGED faults
  /\ branch' = IF effect THEN Written(f) ELSE branch
  /\ UNCHANGED <<main, open, outside>>

PutNext(r, f, after) ==
  /\ todo' = [todo EXCEPT ![r] = @ \ {f}]
  /\ pc' = [pc EXCEPT ![r] = IF todo[r] = {f} THEN after ELSE "put"]
  /\ UNCHANGED <<plan, base, status>>

PutFileSkipsFailed(r) ==
  \E f \in Files, effect \in BOOLEAN, reply \in Replies :
    PutSome(r, f, effect, reply) /\ PutNext(r, f, "propose")

PutFileNeverEnds(r) ==
  \E f \in Files, effect \in BOOLEAN, reply \in Replies :
    /\ PutSome(r, f, effect, reply)
    /\ IF reply = "ok" THEN PutNext(r, f, "put") ELSE Goto(r, "cleanup")

(* update_file_contents, one file after the other; whatever goes wrong, the *)
(* branch is cleaned up.                                                    *)
PutFile(r) ==
  /\ pc[r] = "put"
  /\ \E f \in todo[r] :
       \/ /\ ~Accepts(r, f)
          /\ Goto(r, "cleanup")
          /\ UNCHANGED <<github, faults>>
       \/ \E effect \in BOOLEAN, reply \in Replies :
            /\ Sent(Accepts(r, f), effect, reply)
            /\ branch' = IF effect THEN Written(f) ELSE branch
            /\ IF reply = "ok"
                 THEN /\ todo' = [todo EXCEPT ![r] = @ \ {f}]
                      /\ pc' = [pc EXCEPT ![r] = IF todo[r] = {f}
                                                  THEN "propose" ELSE "put"]
                      /\ UNCHANGED <<plan, base, status>>
                 ELSE Goto(r, "cleanup")
            /\ UNCHANGED <<main, open>>
  /\ UNCHANGED outside

(* GitHub opens a pull request for a branch with commits of its own that   *)
(* has none open for that base.                                            *)
Proposable ==
  /\ branch # NoBranch
  /\ branch.tree # branch.from
  /\ "default" \notin open

(* Mutant: the branch is cleaned up after every failure to open the pull   *)
(* request, also when there was no answer.                                 *)
ProposeAlwaysCleans(r) ==
  /\ pc[r] = "propose"
  /\ \E effect \in BOOLEAN, reply \in Replies :
       /\ Sent(Proposable, effect, reply)
       /\ open' = IF effect THEN open \cup {"default"} ELSE open
       /\ IF reply = "ok" THEN Finish(r, "applied") ELSE Goto(r, "cleanup")
  /\ UNCHANGED <<main, branch, outside>>

(* create_pull_request: an error status means there is no pull request, so *)
(* the branch is cleaned up; without an answer there may be one, so the    *)
(* branch is kept.                                                         *)
Propose(r) ==
  /\ pc[r] = "propose"
  /\ \/ /\ ~Proposable
        /\ Goto(r, "cleanup")
        /\ UNCHANGED <<github, faults>>
     \/ \E effect \in BOOLEAN, reply \in Replies :
          /\ Sent(Proposable, effect, reply)
          /\ open' = IF effect THEN open \cup {"default"} ELSE open
          /\ \/ reply = "ok" /\ Finish(r, "applied")
             \/ reply = "status" /\ Goto(r, "cleanup")
             \/ reply = "lost" /\ Finish(r, "failed")
          /\ UNCHANGED <<main, branch>>
  /\ UNCHANGED outside

(* cleanup_failed_*_branch: DELETE the branch; the fix has failed whatever *)
(* comes of it.                                                            *)
Cleanup(r) ==
  /\ pc[r] = "cleanup"
  /\ \/ branch = NoBranch /\ UNCHANGED <<github, faults>>
     \/ \E effect \in BOOLEAN, reply \in Replies :
          Sent(branch # NoBranch, effect, reply) /\ Delete(effect)
  /\ Finish(r, "failed")
  /\ UNCHANGED outside

(* The process dies between two calls.                                     *)
Crash(r) ==
  /\ pc[r] # "idle"
  /\ Fault("crash")
  /\ Finish(r, "none")
  /\ UNCHANGED <<github, outside>>

Step(r) ==
  \/ Launch(r) \/ FindExisting(r) \/ ResolveBase(r) \/ Prepare(r)
  \/ CreateRef(r) \/ Lookup(r) \/ ResetRef(r) \/ RecreateRef(r)
  \/ PutFile(r) \/ Propose(r) \/ Cleanup(r)

-----------------------------------------------------------------------------
(* Other people                                                            *)

Someone(kind) ==
  /\ kind \in OutsideKinds
  /\ outside > 0
  /\ outside' = outside - 1
  /\ UNCHANGED <<local, faults>>

(* A push changes a file of the default branch to some unfixed contents.   *)
Push(f, blob) ==
  /\ Someone("push")
  /\ main[f] # blob
  /\ main' = [main EXCEPT ![f] = blob]
  /\ UNCHANGED <<branch, open>>

Edited == {f \in Files : branch.tree[f] # branch.from[f]}

(* A merge without conflicts; the repository may delete merged branches.   *)
Merge(gone) ==
  /\ Someone("merge")
  /\ "default" \in open
  /\ \A f \in Edited : main[f] \in {branch.from[f], branch.tree[f]}
  /\ main' = [f \in Files |-> IF f \in Edited THEN branch.tree[f] ELSE main[f]]
  /\ open' = IF gone THEN {} ELSE open \ {"default"}
  /\ branch' = IF gone THEN NoBranch ELSE branch

Close(b) ==
  /\ Someone("close")
  /\ b \in open
  /\ open' = open \ {b}
  /\ UNCHANGED <<main, branch>>

Retarget(b) ==
  /\ Someone("retarget")
  /\ open = {b}
  /\ open' = Bases \ {b}
  /\ UNCHANGED <<main, branch>>

(* Opening or reopening a pull request for the tool's branch by hand.      *)
OpenByHand(b) ==
  /\ Someone("open")
  /\ branch # NoBranch
  /\ branch.tree # branch.from
  /\ b \notin open
  /\ open' = open \cup {b}
  /\ UNCHANGED <<main, branch>>

DeleteByHand ==
  /\ Someone("delete")
  /\ branch # NoBranch
  /\ Delete(TRUE)

Others ==
  \/ \E f \in Files, blob \in 1..MaxBlob : Push(f, blob)
  \/ \E gone \in BOOLEAN : Merge(gone)
  \/ \E b \in Bases : Close(b) \/ Retarget(b) \/ OpenByHand(b)
  \/ DeleteByHand

Next == Others \/ \E r \in Runs : Step(r) \/ Crash(r)

Spec == Init /\ [][Next]_vars

(* Each call returns within its timeout, and whoever runs the program runs  *)
(* it again while the rule fails.                                           *)
FairSpec == Spec /\ \A r \in Runs : WF_vars(Step(r))

-----------------------------------------------------------------------------
(* Properties                                                              *)

(* An invocation never closes a pull request: neither the reset of a stale *)
(* branch (create_fresh_branch) nor the cleanup after a failed call may    *)
(* delete the head of one that is open, however calls were lost before.    *)
ToolKeepsPullRequests == [][open \subseteq open' \/ outside' # outside]_vars

(* The files the plan behind the branch names that are not fixed on it.    *)
Unwritten == branch.wants \cap Unfixed(branch.tree)

(* A pull request that is open edits every file its fix was planned for:   *)
(* neither a lost PUT, nor a crash between two PUTs, nor a leftover of an  *)
(* earlier invocation ever ends in a proposal of half a fix.               *)
NoHalfFix == open # {} => branch # NoBranch /\ Unwritten = {}

(* An invocation that reports Applied leaves a pull request open against   *)
(* the default branch, whether it opened it or found it: one that someone  *)
(* retargeted to another base does not count.                              *)
AppliedMeansOpen ==
  [][\A r \in Runs : status[r] # "applied" /\ status'[r] = "applied"
                        => "default" \in open']_vars

(* However an invocation was interrupted and whatever it left behind, once *)
(* calls stop failing running the program again gets the change proposed,  *)
(* unless there is nothing left to fix or a file is one the fix can do     *)
(* nothing about: for that file it fails each time, for all of them.       *)
EventuallyProposed ==
  <>[](Unfixed(main) = {} \/ open # {} \/ ~Workable(main))

(* The fix keeps the promise of FixProposal.                               *)
Proposal == INSTANCE FixProposal WITH
  stage <- IF branch = NoBranch THEN "absent"
           ELSE IF open = {} THEN "draft" ELSE "proposed",
  whole <- branch # NoBranch /\ Unwritten = {},
  outside <- outside

ProposalSpec == Proposal!Spec
=============================================================================
