----------------------------- MODULE FixProposal -----------------------------
(***************************************************************************)
(* What a fix that opens a pull request promises the people it proposes    *)
(* the change to.  The proposal is absent, a draft (a branch nobody is     *)
(* asked to look at) or proposed (a pull request is open).  The tool may   *)
(* start, finish, throw away and propose drafts, and proposes only a       *)
(* finished one; once proposed, only other people withdraw or land it.     *)
(* `outside` counts down with each thing other people do, which is how a   *)
(* step of theirs is told from one of the tool's.                          *)
(***************************************************************************)
EXTENDS Naturals

VARIABLES stage, whole, outside

vars == <<stage, whole, outside>>

Init == stage = "absent" /\ whole = FALSE /\ outside \in Nat

(* The tool *)
Start   == stage = "absent" /\ stage' = "draft" /\ whole' \in BOOLEAN
Edit    == stage = "draft" /\ stage' = "draft" /\ whole' \in BOOLEAN
Discard == stage = "draft" /\ stage' = "absent" /\ whole' = FALSE
Propose == stage = "draft" /\ whole /\ stage' = "proposed" /\ UNCHANGED whole

Tool == (Start \/ Edit \/ Discard \/ Propose) /\ UNCHANGED outside

(* Other people *)
Withdraw == stage = "proposed" /\ stage' = "draft" /\ UNCHANGED whole
Remove   == stage # "absent" /\ stage' = "absent" /\ whole' = FALSE
Elsewhere == UNCHANGED <<stage, whole>>

People ==
  /\ Withdraw \/ Remove \/ Elsewhere
  /\ outside > 0
  /\ outside' = outside - 1

Next == Tool \/ People

Spec == Init /\ [][Next]_vars
=============================================================================
