----------------------------- MODULE Algorithms -----------------------------
(***************************************************************************)
(* The pure functions of claw-guard, each called on one input at a time:   *)
(* those of Reports, MaskingEngine::apply and parse_condition.  A job      *)
(* holds the input of a call and what it returned; the properties compare  *)
(* the two by the references that the modules of the functions define.     *)
(***************************************************************************)
EXTENDS Reports, PolicyRules, Masking

CONSTANTS
  Places, Fillings, Directives,  \* documents, what may be in them, masks
  Conditions, Contexts           \* TOML values and evaluation contexts

(* The same directives on two documents that differ in one place.          *)
Mask ==
  \E steps \in Places, x, y \in Fillings, masks \in BoundedSeq(Directives, 2) :
    /\ x # y
    /\ job' = [op |-> "mask", steps |-> steps, x |-> x, y |-> y, masks |-> masks,
               shownX |-> Apply(Fill(steps, x), masks),
               shownY |-> Apply(Fill(steps, y), masks)]

Parse ==
  \E value \in Conditions :
    job' = [op |-> "parse", value |-> value, cond |-> ParseCondition(value)]

Call ==
  /\ job = NoJob
  /\ Mask \/ Parse

Next == Call \/ ReportCall \/ Return

Spec == Init /\ [][Next]_job

-----------------------------------------------------------------------------
(* Properties.                                                             *)

(* What a directive is to hide does not show (MaskingEngine::apply).       *)
MasksHide ==
  job.op = "mask" =>
    MaskHides(job.steps, job.x, job.y, job.masks, job.shownX, job.shownY)

(* What no directive reaches is shown unchanged (MaskingEngine::apply).    *)
MasksKeep ==
  job.op = "mask" => MaskKeeps(job.steps, job.x, job.masks, job.shownX)

(* Conditions are refused exactly if malformed and mean what the TOML says *)
(* (parse_condition, fold_conditions, Condition::matches).                 *)
ConditionsFaithful ==
  job.op = "parse" => ConditionFaithful(job.value, job.cond, Contexts)

=============================================================================
