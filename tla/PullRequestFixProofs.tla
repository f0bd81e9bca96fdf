------------------------ MODULE PullRequestFixProofs ------------------------
(***************************************************************************)
(* Proofs about PullRequestFix, for every set of files, number of blobs    *)
(* and budget of faults and of other people's steps.                       *)
(***************************************************************************)
EXTENDS PullRequestFix, TLAPS

(* From its launch to its end an invocation holds a plan that names a file; *)
(* until the first PUT, all of them are left to write.                      *)
PlanHeld ==
  \A r \in Runs :
    /\ pc[r] # "idle" => Unfixed(plan[r]) # {}
    /\ pc[r] \in {"prepare", "create", "lookup", "reset", "recreate"}
         => todo[r] = Unfixed(plan[r])

(* A pull request has a head.                                              *)
Headed == open # {} => branch # NoBranch

TypeInv == TypeOK /\ PlanHeld /\ Headed

-----------------------------------------------------------------------------
(* Types *)

LEMMA CleanTyped == Clean \in Tree /\ \A tree : Unfixed(tree) \subseteq Files
  BY ConstantsAssumption DEF Clean, Tree, Unfixed, Fixed

LEMMA FaultTyped ==
  ASSUME TypeOK, NEW kind, Fault(kind)
  PROVE  faults' \in 0..MaxFaults
  BY ConstantsAssumption DEF TypeOK, Fault

LEMMA SentTyped ==
  ASSUME TypeOK, NEW possible, NEW effect, NEW reply,
         Sent(possible, effect, reply)
  PROVE  faults' \in 0..MaxFaults
  BY FaultTyped DEF TypeOK, Sent

LEMMA TypeInit == Init => TypeInv
<1> SUFFICES ASSUME Init PROVE TypeInv
  OBVIOUS
<1>1. TypeOK
  BY CleanTyped, ConstantsAssumption DEF Init, TypeOK, Steps, Statuses
<1>2. PlanHeld
  BY DEF Init, PlanHeld
<1>3. Headed
  BY DEF Init, Headed
<1> QED
  BY <1>1, <1>2, <1>3 DEF TypeInv

(* How an invocation goes on keeps its own part of the types.              *)
LocalTyped ==
  /\ pc \in [Runs -> Steps]
  /\ plan \in [Runs -> Tree]
  /\ base \in [Runs -> Tree]
  /\ todo \in [Runs -> SUBSET Files]
  /\ status \in [Runs -> Statuses]
  /\ \A r \in Runs : pc[r] = "put" => todo[r] # {}
  /\ PlanHeld

LEMMA FinishTyped ==
  ASSUME LocalTyped, NEW r \in Runs, NEW outcome \in Statuses, Finish(r, outcome)
  PROVE  LocalTyped'
  BY CleanTyped DEF LocalTyped, Finish, PlanHeld, Steps

LEMMA GotoTyped ==
  ASSUME LocalTyped, NEW r \in Runs, NEW step \in Steps, Goto(r, step),
         pc[r] # "idle",
         step = "put" => todo[r] # {},
         step \in {"prepare", "create", "lookup", "reset", "recreate"}
           => todo[r] = Unfixed(plan[r])
  PROVE  LocalTyped'
  BY DEF LocalTyped, Goto, PlanHeld

LEMMA ToolLocalTyped ==
  ASSUME TypeInv, NEW r \in Runs, Step(r) \/ Crash(r)
  PROVE  LocalTyped'
<1> USE CleanTyped DEF TypeInv
<1>0. LocalTyped
  BY DEF TypeOK, LocalTyped
<1>1. CASE Launch(r)
  BY <1>0, <1>1 DEF Launch, LocalTyped, PlanHeld, TypeOK, Steps, Statuses
<1>2. CASE FindExisting(r)
  BY <1>0, <1>2, FinishTyped, GotoTyped DEF FindExisting, Steps, Statuses
<1>3. CASE ResolveBase(r)
  <2>1. CASE Finish(r, "failed")
    BY <1>0, <2>1, FinishTyped DEF Statuses
  <2>2. CASE ~Finish(r, "failed")
    BY <1>0, <1>3, <2>2 DEF ResolveBase, LocalTyped, PlanHeld, TypeOK, Steps
  <2> QED BY <2>1, <2>2
<1>4. CASE Prepare(r)
  <2>1. todo[r] = Unfixed(plan[r])
    BY <1>4 DEF Prepare, PlanHeld
  <2> QED
    BY <1>0, <1>4, <2>1, FinishTyped, GotoTyped DEF Prepare, Steps, Statuses
<1>5. CASE CreateRef(r)
  <2>1. todo[r] = Unfixed(plan[r]) /\ todo[r] # {}
    BY <1>5 DEF CreateRef, PlanHeld
  <2> QED
    BY <1>0, <1>5, <2>1, FinishTyped, GotoTyped DEF CreateRef, Steps, Statuses
<1>6. CASE Lookup(r)
  <2>1. todo[r] = Unfixed(plan[r])
    BY <1>6 DEF Lookup, PlanHeld
  <2> QED
    BY <1>0, <1>6, <2>1, FinishTyped, GotoTyped DEF Lookup, Steps, Statuses
<1>7. CASE ResetRef(r)
  <2>1. todo[r] = Unfixed(plan[r])
    BY <1>7 DEF ResetRef, PlanHeld
  <2> QED
    BY <1>0, <1>7, <2>1, FinishTyped, GotoTyped DEF ResetRef, Steps, Statuses
<1>8. CASE RecreateRef(r)
  <2>1. todo[r] = Unfixed(plan[r]) /\ todo[r] # {}
    BY <1>8 DEF RecreateRef, PlanHeld
  <2> QED
    BY <1>0, <1>8, <2>1, FinishTyped, GotoTyped DEF RecreateRef, Steps, Statuses
<1>9. CASE PutFile(r)
  <2>1. PICK f \in todo[r] :
          \/ Goto(r, "cleanup")
          \/ /\ todo' = [todo EXCEPT ![r] = @ \ {f}]
             /\ pc' = [pc EXCEPT ![r] = IF todo[r] = {f} THEN "propose" ELSE "put"]
             /\ UNCHANGED <<plan, base, status>>
    BY <1>9 DEF PutFile
  <2>2. CASE Goto(r, "cleanup")
    BY <1>0, <1>9, <2>2, GotoTyped DEF PutFile, Steps
  <2>3. CASE ~Goto(r, "cleanup")
    BY <1>0, <1>9, <2>1, <2>3 DEF PutFile, LocalTyped, PlanHeld, Steps
  <2> QED BY <2>2, <2>3
<1>10. CASE Propose(r)
  BY <1>0, <1>10, FinishTyped, GotoTyped DEF Propose, Steps, Statuses
<1>11. CASE Cleanup(r)
  BY <1>0, <1>11, FinishTyped DEF Cleanup, Statuses
<1>12. CASE Crash(r)
  BY <1>0, <1>12, FinishTyped DEF Crash, Statuses
<1> QED
  BY <1>1, <1>2, <1>3, <1>4, <1>5, <1>6, <1>7, <1>8, <1>9, <1>10, <1>11,
     <1>12 DEF Step

(* What a call or another person does to GitHub keeps its part.            *)
GitHubTyped ==
  /\ main \in Tree
  /\ branch \in Branch \cup {NoBranch}
  /\ open \in SUBSET Bases
  /\ Headed

LEMMA WrittenTyped ==
  ASSUME TypeOK, branch # NoBranch, NEW f \in Files
  PROVE  Written(f) \in Branch
  BY ConstantsAssumption DEF TypeOK, Branch, Tree, Written, Fixed

LEMMA CreateTyped ==
  ASSUME TypeInv, NEW r \in Runs, NEW effect, Create(r, effect)
  PROVE  GitHubTyped'
<1>1. [from |-> base[r], tree |-> base[r], wants |-> Unfixed(plan[r])] \in Branch
  BY CleanTyped DEF TypeInv, TypeOK, Branch
<1> QED
  BY <1>1, NoBranchAssumption DEF Create, TypeInv, TypeOK, GitHubTyped, Headed

LEMMA DeleteTyped ==
  ASSUME TypeInv, NEW effect, Delete(effect)
  PROVE  GitHubTyped'
  BY DEF Delete, TypeInv, TypeOK, GitHubTyped, Headed

LEMMA StepGitHubTyped ==
  ASSUME TypeInv, NEW r \in Runs, Step(r) \/ Crash(r)
  PROVE  GitHubTyped' /\ faults' \in 0..MaxFaults /\ outside' = outside
<1> USE DEF github, TypeInv
<1>0. UNCHANGED github => GitHubTyped'
  BY DEF TypeOK, GitHubTyped, Headed
<1>1. CASE Launch(r)
  BY <1>0, <1>1 DEF Launch, TypeOK
<1>2. CASE FindExisting(r)
  BY <1>0, <1>2, FaultTyped DEF FindExisting, ReadFailed, TypeOK
<1>3. CASE ResolveBase(r)
  BY <1>0, <1>3, FaultTyped DEF ResolveBase, ReadFailed, TypeOK
<1>4. CASE Prepare(r)
  BY <1>0, <1>4, FaultTyped DEF Prepare, ReadFailed, TypeOK
<1>5. CASE CreateRef(r)
  BY <1>0, <1>5, SentTyped, CreateTyped DEF CreateRef, TypeOK
<1>6. CASE Lookup(r)
  BY <1>0, <1>6, FaultTyped DEF Lookup, ReadFailed, TypeOK
<1>7. CASE ResetRef(r)
  BY <1>0, <1>7, SentTyped, DeleteTyped DEF ResetRef, TypeOK
<1>8. CASE RecreateRef(r)
  BY <1>0, <1>8, SentTyped, CreateTyped DEF RecreateRef, TypeOK
<1>9. CASE PutFile(r)
  <2>1. CASE UNCHANGED <<github, faults>>
    BY <1>0, <1>9, <2>1 DEF PutFile, TypeOK
  <2>2. CASE ~UNCHANGED <<github, faults>>
    <3>1. PICK f \in todo[r], effect \in BOOLEAN, reply \in Replies :
            /\ Sent(Accepts(r, f), effect, reply)
            /\ branch' = IF effect THEN Written(f) ELSE branch
            /\ UNCHANGED <<main, open>>
      BY <1>9, <2>2 DEF PutFile
    <3>2. f \in Files
      BY <3>1 DEF TypeOK
    <3>3. effect => branch # NoBranch
      BY <3>1 DEF Sent, Accepts
    <3>4. branch' \in Branch \cup {NoBranch}
      BY <3>1, <3>2, <3>3, WrittenTyped DEF TypeOK
    <3>5. Headed'
      BY <3>1, <3>2, <3>3, WrittenTyped, NoBranchAssumption DEF Headed
    <3> QED
      BY <1>9, <3>1, <3>4, <3>5, SentTyped DEF PutFile, TypeOK, GitHubTyped
  <2> QED BY <2>1, <2>2
<1>10. CASE Propose(r)
  BY <1>0, <1>10, SentTyped DEF Propose, Proposable, Sent, TypeOK, GitHubTyped,
     Headed, Bases
<1>11. CASE Cleanup(r)
  BY <1>0, <1>11, SentTyped, DeleteTyped DEF Cleanup, TypeOK
<1>12. CASE Crash(r)
  BY <1>0, <1>12, FaultTyped DEF Crash, TypeOK
<1> QED
  BY <1>1, <1>2, <1>3, <1>4, <1>5, <1>6, <1>7, <1>8, <1>9, <1>10, <1>11,
     <1>12 DEF Step

LEMMA OthersFrame ==
  Others => \E kind \in OutsideKinds : Someone(kind)
  BY DEF Others, Push, Merge, Close, Retarget, OpenByHand, DeleteByHand, Someone

LEMMA OthersTyped ==
  ASSUME TypeInv, Others
  PROVE  GitHubTyped' /\ outside' \in 0..MaxOutside /\ UNCHANGED <<local, faults>>
<1>0. GitHubTyped
  BY DEF TypeInv, TypeOK, GitHubTyped
<1>1. ASSUME NEW f \in Files, NEW blob \in 1..MaxBlob, Push(f, blob)
      PROVE  GitHubTyped'
  BY <1>0, <1>1 DEF Push, Tree, GitHubTyped, Headed
<1>2. ASSUME NEW gone \in BOOLEAN, Merge(gone)
      PROVE  GitHubTyped'
  <2>1. branch.tree \in Tree
    BY <1>0, <1>2 DEF Merge, GitHubTyped, Headed, Branch
  <2>2. main' \in Tree
    BY <1>0, <1>2, <2>1 DEF Merge, Tree, GitHubTyped
  <2> QED BY <1>0, <1>2, <2>2 DEF Merge, GitHubTyped, Headed
<1>3. ASSUME NEW b \in Bases, Close(b) \/ Retarget(b) \/ OpenByHand(b)
      PROVE  GitHubTyped'
  BY <1>0, <1>3 DEF Close, Retarget, OpenByHand, GitHubTyped, Headed
<1>4. ASSUME DeleteByHand PROVE GitHubTyped'
  BY <1>4, DeleteTyped DEF DeleteByHand
<1>5. GitHubTyped'
  BY <1>1, <1>2, <1>3, <1>4 DEF Others
<1>6. UNCHANGED <<local, faults>> /\ outside > 0 /\ outside' = outside - 1
  BY OthersFrame DEF Someone
<1>7. outside' \in 0..MaxOutside
  BY <1>6, ConstantsAssumption DEF TypeInv, TypeOK
<1> QED BY <1>5, <1>6, <1>7

LEMMA TypeStep == TypeInv /\ [Next]_vars => TypeInv'
<1> SUFFICES ASSUME TypeInv, [Next]_vars PROVE TypeInv'
  OBVIOUS
<1>1. CASE Others
  BY <1>1, OthersTyped DEF TypeInv, TypeOK, PlanHeld, GitHubTyped, local
<1>2. ASSUME NEW r \in Runs, Step(r) \/ Crash(r) PROVE TypeInv'
  BY <1>2, ToolLocalTyped, StepGitHubTyped
     DEF TypeInv, TypeOK, GitHubTyped, LocalTyped
<1>3. CASE UNCHANGED vars
  BY <1>3 DEF TypeInv, TypeOK, PlanHeld, Headed, vars, github, local
<1> QED
  BY <1>1, <1>2, <1>3 DEF Next

(* The variables keep their types, and an invocation that is writing files *)
(* has one left to write.                                                  *)
THEOREM TypeCorrect == Spec => []TypeOK
<1>1. TypeInv => TypeOK
  BY DEF TypeInv
<1> QED
  BY <1>1, TypeInit, TypeStep, PTL DEF Spec

-----------------------------------------------------------------------------
(* One invocation at a time                                                *)

(* What the safety of the fix rests on: there are no two invocations at    *)
(* once, an error status means the mutation had no effect, and nobody opens *)
(* a pull request for the tool's branch by hand.                           *)
Serial ==
  /\ \A r, s \in Runs : r = s
  /\ "gateway" \notin FaultKinds
  /\ "open" \notin OutsideKinds

(* From the lookup that found no pull request to the one it opens, an      *)
(* invocation has the branch to itself; what is not yet written on it is   *)
(* left to write.                                                          *)
Guarded(r) ==
  /\ pc[r] \in {"reset", "recreate", "put", "propose", "cleanup"} => open = {}
  /\ pc[r] = "put" /\ branch # NoBranch => Unwritten \subseteq todo[r]
  /\ pc[r] = "propose" /\ branch # NoBranch => Unwritten = {}

SafeInv ==
  /\ TypeInv
  /\ NoHalfFix
  /\ \A r \in Runs : Guarded(r)

(* A step of the one invocation.                                           *)
StepSafe(r) == NoHalfFix' /\ Guarded(r)' /\ open \subseteq open'

LEMMA FramedSafe ==
  ASSUME SafeInv, NEW r \in Runs, UNCHANGED github,
         pc'[r] \in {"idle", "find", "base", "prepare", "create", "lookup"}
  PROVE  StepSafe(r)
  BY DEF SafeInv, Guarded, NoHalfFix, Unwritten, github, StepSafe

LEMMA CreatedSafe ==
  ASSUME SafeInv, NEW r \in Runs, branch = NoBranch, Create(r, TRUE),
         Goto(r, "put") \/ Finish(r, "failed"),
         todo[r] = Unfixed(plan[r])
  PROVE  StepSafe(r)
<1>1. open = {} /\ open' = {}
  BY DEF SafeInv, NoHalfFix, Create
<1>2. Unwritten' \subseteq todo[r]
  BY DEF Create, Unwritten
<1>3. NoHalfFix' /\ open \subseteq open'
  BY <1>1 DEF NoHalfFix
<1>4. pc'[r] \in {"put", "idle"} /\ (pc'[r] = "put" => todo' = todo)
  BY DEF Goto, Finish, SafeInv, TypeInv, TypeOK
<1> QED
  BY <1>1, <1>2, <1>3, <1>4 DEF Guarded, StepSafe

LEMMA DeletedSafe ==
  ASSUME SafeInv, NEW r \in Runs, open = {}, NEW effect \in BOOLEAN, Delete(effect),
         pc'[r] \in {"idle", "recreate"}
  PROVE  StepSafe(r)
  BY DEF SafeInv, Delete, Guarded, NoHalfFix, StepSafe

LEMMA StepKeepsSafe ==
  ASSUME Serial, SafeInv, NEW r \in Runs, Step(r) \/ Crash(r)
  PROVE  StepSafe(r)
<1> USE DEF SafeInv, TypeInv, TypeOK
<1>1. CASE Launch(r)
  BY <1>1, FramedSafe DEF Launch
<1>2. CASE FindExisting(r)
  BY <1>2, FramedSafe DEF FindExisting, Finish, Goto
<1>3. CASE ResolveBase(r)
  BY <1>3, FramedSafe DEF ResolveBase, Finish
<1>4. CASE Prepare(r)
  BY <1>4, FramedSafe DEF Prepare, Finish, Goto
<1>5. CASE CreateRef(r)
  <2>1. todo[r] = Unfixed(plan[r])
    BY <1>5 DEF CreateRef, PlanHeld
  <2>2. CASE branch = NoBranch /\ Create(r, TRUE)
    BY <1>5, <2>1, <2>2, CreatedSafe DEF CreateRef
  <2>3. CASE ~(branch = NoBranch /\ Create(r, TRUE))
    BY <1>5, <2>3, FramedSafe DEF CreateRef, Sent, Create, Finish, Goto, github
  <2> QED BY <2>2, <2>3
<1>6. CASE Lookup(r)
  BY <1>6 DEF Lookup, Finish, Goto, StepSafe, Guarded, NoHalfFix, Unwritten, github
<1>7. CASE ResetRef(r)
  <2>1. open = {}
    BY <1>7 DEF ResetRef, Guarded
  <2>2. CASE UNCHANGED github
    BY <1>7, <2>1, <2>2 DEF ResetRef, Finish, Goto, StepSafe, Guarded, NoHalfFix, github
  <2>3. CASE ~UNCHANGED github
    BY <1>7, <2>1, <2>3, DeletedSafe DEF ResetRef, Finish, Goto, github
  <2> QED BY <2>2, <2>3
<1>8. CASE RecreateRef(r)
  <2>1. todo[r] = Unfixed(plan[r])
    BY <1>8 DEF RecreateRef, PlanHeld
  <2>2. CASE branch = NoBranch /\ Create(r, TRUE)
    BY <1>8, <2>1, <2>2, CreatedSafe, NoBranchAssumption DEF RecreateRef
  <2>3. CASE ~(branch = NoBranch /\ Create(r, TRUE))
    BY <1>8, <2>3, FramedSafe DEF RecreateRef, Sent, Create, Finish, Goto, github
  <2> QED BY <2>2, <2>3
<1>9. CASE PutFile(r)
  <2>1. open = {} /\ open' = {}
    BY <1>9 DEF PutFile, Guarded, github
  <2>2. NoHalfFix' /\ open \subseteq open'
    BY <2>1 DEF NoHalfFix
  <2>3. CASE Goto(r, "cleanup")
    BY <2>1, <2>2, <2>3 DEF Goto, Guarded, StepSafe
  <2>4. CASE ~Goto(r, "cleanup")
    <3>1. PICK f \in todo[r] :
            /\ branch # NoBranch
            /\ branch' = Written(f)
            /\ todo' = [todo EXCEPT ![r] = @ \ {f}]
            /\ pc' = [pc EXCEPT ![r] = IF todo[r] = {f} THEN "propose" ELSE "put"]
      BY <1>9, <2>4 DEF PutFile, Sent, Accepts
    <3>2. f \in Files /\ branch \in Branch
      BY <3>1
    <3>3. Unwritten' = Unwritten \ {f}
      BY <3>1, <3>2 DEF Unwritten, Unfixed, Written, Branch, Tree
    <3>4. Unwritten \subseteq todo[r]
      BY <1>9, <3>1 DEF PutFile, Guarded
    <3> QED
      BY <2>1, <2>2, <3>1, <3>3, <3>4 DEF Guarded, StepSafe
  <2> QED BY <2>3, <2>4
<1>10. CASE Propose(r)
  <2>1. open = {} /\ (branch # NoBranch => Unwritten = {})
    BY <1>10 DEF Propose, Guarded
  <2>2. branch' = branch /\ (open' = open \/ branch # NoBranch)
    BY <1>10 DEF Propose, Sent, Proposable, github
  <2>3. NoHalfFix' /\ open \subseteq open'
    BY <2>1, <2>2 DEF NoHalfFix, Unwritten
  <2>4. pc'[r] = "cleanup" => open' = {}
    BY <1>10, <2>1 DEF Propose, Sent, Serial, Fault, Finish, Goto, github
  <2>5. pc'[r] \in {"idle", "cleanup"}
    BY <1>10 DEF Propose, Finish, Goto
  <2> QED BY <2>3, <2>4, <2>5 DEF Guarded, StepSafe
<1>11. CASE Cleanup(r)
  <2>1. open = {} /\ pc'[r] = "idle"
    BY <1>11 DEF Cleanup, Guarded, Finish
  <2>2. CASE UNCHANGED github
    BY <2>1, <2>2, FramedSafe
  <2>3. CASE ~UNCHANGED github
    BY <1>11, <2>1, <2>3, DeletedSafe DEF Cleanup
  <2> QED BY <2>2, <2>3
<1>12. CASE Crash(r)
  BY <1>12, FramedSafe DEF Crash, Finish
<1> QED
  BY <1>1, <1>2, <1>3, <1>4, <1>5, <1>6, <1>7, <1>8, <1>9, <1>10, <1>11,
     <1>12 DEF Step

(* A step of somebody else keeps an open pull request whole, and opens one *)
(* only where there was one.                                               *)
LEMMA OthersKeepSafe ==
  ASSUME Serial, SafeInv, Others
  PROVE  NoHalfFix' /\ \A r \in Runs : Guarded(r)'
<1>0. UNCHANGED local
  BY OthersFrame DEF Someone
<1>1. \/ branch' = branch /\ (open = {} => open' = {})
      \/ branch' = NoBranch /\ open' = {}
  BY DEF Serial, Others, Push, Merge, Close, Retarget, OpenByHand, Someone,
     DeleteByHand, Delete
<1> QED
  BY <1>0, <1>1 DEF SafeInv, NoHalfFix, Guarded, Unwritten, local

LEMMA SafeInit == Init => SafeInv
  BY TypeInit DEF Init, SafeInv, NoHalfFix, Guarded

LEMMA SafeStep ==
  ASSUME Serial, SafeInv, [Next]_vars
  PROVE  SafeInv'
<1>0. TypeInv'
  BY TypeStep DEF SafeInv
<1>1. CASE Others
  BY <1>0, <1>1, OthersKeepSafe DEF SafeInv
<1>2. ASSUME NEW r \in Runs, Step(r) \/ Crash(r) PROVE SafeInv'
  BY <1>0, <1>2, StepKeepsSafe DEF Serial, SafeInv, StepSafe
<1>3. CASE UNCHANGED vars
  BY <1>0, <1>3 DEF SafeInv, NoHalfFix, Guarded, Unwritten, vars, github, local
<1> QED
  BY <1>1, <1>2, <1>3 DEF Next

LEMMA SafeAlways ==
  ASSUME Serial
  PROVE  Spec => []SafeInv
  BY SafeInit, SafeStep, PTL DEF Spec

(* No pull request proposes half a fix, however PUTs are lost and          *)
(* invocations die between them.                                           *)
THEOREM NeverHalfFix ==
  ASSUME Serial
  PROVE  Spec => []NoHalfFix
<1>1. SafeInv => NoHalfFix
  BY DEF SafeInv
<1> QED
  BY <1>1, SafeAlways, PTL

(* The tool deletes no branch that is the head of an open pull request:    *)
(* after the lookup that found none, none is opened until it opens its own. *)
THEOREM PullRequestsKept ==
  ASSUME Serial
  PROVE  Spec => ToolKeepsPullRequests
<1>1. ASSUME SafeInv, [Next]_vars
      PROVE  [open \subseteq open' \/ outside' # outside]_vars
  <2>1. CASE Others
    BY <1>1, <2>1, OthersFrame DEF Someone, SafeInv, TypeInv, TypeOK
  <2>2. ASSUME NEW r \in Runs, Step(r) \/ Crash(r) PROVE open \subseteq open'
    BY <1>1, <2>2, StepKeepsSafe DEF StepSafe
  <2> QED
    BY <1>1, <2>1, <2>2 DEF Next
<1> QED
  BY <1>1, SafeAlways, PTL DEF Spec, ToolKeepsPullRequests

(* An invocation that reports Applied leaves a pull request open against   *)
(* the default branch: for any number of invocations at once, and whatever *)
(* other people do.                                                        *)
THEOREM AppliedIsOpen == Spec => AppliedMeansOpen
<1> DEFINE Report(r) == status[r] # "applied" /\ status'[r] = "applied"
                           => "default" \in open'
<1>1. ASSUME TypeInv, NEW r \in Runs, NEW s \in Runs, s # r, Step(s) \/ Crash(s)
      PROVE  status'[r] = status[r]
  BY <1>1 DEF TypeInv, TypeOK, Step, Crash, Launch, FindExisting, ResolveBase,
     Prepare, CreateRef, Lookup, ResetRef, RecreateRef, PutFile, Propose,
     Cleanup, Goto, Finish
<1>2. ASSUME TypeInv, NEW r \in Runs, Step(r) \/ Crash(r)
      PROVE  Report(r)
  <2> USE DEF TypeInv, TypeOK
  <2>1. CASE FindExisting(r)
    BY <1>2, <2>1 DEF FindExisting, Finish, Goto, github
  <2>2. CASE Propose(r)
    BY <1>2, <2>2 DEF Propose, Sent, Finish, Goto
  <2>3. CASE ~FindExisting(r) /\ ~Propose(r)
    BY <1>2, <2>3 DEF Step, Crash, Launch, ResolveBase, Prepare, CreateRef,
       Lookup, ResetRef, RecreateRef, PutFile, Cleanup, Goto, Finish
  <2> QED BY <2>1, <2>2, <2>3
<1>3. ASSUME TypeInv, [Next]_vars
      PROVE  [\A r \in Runs : Report(r)]_vars
  <2>1. CASE Others
    BY <2>1, OthersFrame DEF Someone, local
  <2>2. ASSUME NEW s \in Runs, Step(s) \/ Crash(s)
        PROVE  \A r \in Runs : Report(r)
    BY <1>1, <1>2, <1>3, <2>2
  <2> QED
    BY <1>3, <2>1, <2>2 DEF Next
<1> QED
  BY <1>3, TypeInit, TypeStep, PTL DEF Spec, AppliedMeansOpen

-----------------------------------------------------------------------------
(* Refinement                                                              *)

Stage == IF branch = NoBranch THEN "absent"
         ELSE IF open = {} THEN "draft" ELSE "proposed"
IsWhole == branch # NoBranch /\ Unwritten = {}

LEMMA ProposalInit == Init => Proposal!Init
  BY ConstantsAssumption DEF Init, Proposal!Init

LEMMA ProposalStep ==
  ASSUME Serial, SafeInv, [Next]_vars
  PROVE  [Proposal!Next]_(Proposal!vars)
<1> USE DEF SafeInv, TypeInv, TypeOK
<1>1. CASE Others
  <2>1. outside > 0 /\ outside' = outside - 1
    BY <1>1, OthersFrame DEF Someone
  <2>2. \/ branch' = branch /\ open' = open
        \/ branch' = branch /\ open # {}
        \/ branch' = NoBranch /\ open' = {}
    BY <1>1 DEF Serial, Others, Push, Merge, Close, Retarget, OpenByHand,
       Someone, DeleteByHand, Delete
  <2>3. Proposal!People
    BY <2>1, <2>2 DEF Proposal!People, Proposal!Withdraw, Proposal!Remove,
       Proposal!Elsewhere, NoHalfFix, Headed, Unwritten
  <2> QED
    BY <2>3 DEF Proposal!Next
<1>2. ASSUME NEW r \in Runs, Step(r) \/ Crash(r)
      PROVE  [Proposal!Next]_(Proposal!vars)
  <2>0. outside' = outside /\ open \subseteq open' /\ NoHalfFix'
    BY <1>2, StepGitHubTyped, StepKeepsSafe DEF StepSafe
  <2>1. CASE branch' = branch
    BY <2>0, <2>1 DEF Proposal!Next, Proposal!Tool, Proposal!Propose,
       Proposal!vars, NoHalfFix, Unwritten
  <2>2. CASE branch' # branch
    <3>1. \/ CreateRef(r) \/ ResetRef(r) \/ RecreateRef(r) \/ PutFile(r)
          \/ Cleanup(r)
      BY <1>2, <2>2 DEF Step, Crash, Launch, FindExisting, ResolveBase,
         Prepare, Lookup, Propose, github
    <3>2. open = {}
      BY <2>2, <3>1 DEF CreateRef, ResetRef, RecreateRef, PutFile, Cleanup,
         Guarded, NoHalfFix, Sent, Create, github
    <3>3. open' = {}
      BY <3>1, <3>2 DEF CreateRef, ResetRef, RecreateRef, PutFile, Cleanup,
         Create, Delete, github
    <3> QED
      BY <2>0, <2>2, <3>2, <3>3 DEF Proposal!Next, Proposal!Tool, Proposal!Start,
         Proposal!Edit, Proposal!Discard, Proposal!vars, Unwritten
  <2> QED BY <2>1, <2>2
<1>3. CASE UNCHANGED vars
  BY <1>3 DEF vars, github, Proposal!vars, Unwritten
<1> QED
  BY <1>1, <1>2, <1>3 DEF Next

(* The fix keeps the promise of FixProposal: a draft is thrown away or     *)
(* proposed when it is whole, and what is proposed is other people's to    *)
(* withdraw or land.                                                       *)
THEOREM FixImplementsProposal ==
  ASSUME Serial
  PROVE  Spec => ProposalSpec
<1> QED
  BY ProposalInit, ProposalStep, SafeAlways, PTL
     DEF Spec, ProposalSpec, Proposal!Spec
=============================================================================
