----------------------------- MODULE RiskScore -----------------------------
(***************************************************************************)
(* PolicyEngine::compute_risk (src/src/policy/mod.rs), in tenths: on the   *)
(* sixteen sums that can occur, f64 addition and comparison give exactly   *)
(* what tenths give.                                                       *)
(***************************************************************************)
EXTENDS Integers

CONSTANTS
  BusinessStart,  \* business_hours_start_hour
  BusinessEnd     \* business_hours_end_hour

ASSUME HoursAreBytes == BusinessStart \in 0..255 /\ BusinessEnd \in 0..255

Risks == 0..10

(* What compute_risk looks at: whether the action contains "write" or      *)
(* "update", whether it contains "delete" (it may contain both), and       *)
(* whether the resource is one of sensitive_resources.                     *)
Request == [writes : BOOLEAN, deletes : BOOLEAN, sensitive : BOOLEAN]

Points(condition, points) == IF condition THEN points ELSE 0

OffHours(hour) == hour < BusinessStart \/ hour >= BusinessEnd

\* Mutant: "delete" is looked for only in actions that do not write.
ComputeRiskElseIf(req, hour) ==
  Points(req.writes, 3) + Points(~req.writes /\ req.deletes, 5)
    + Points(req.sensitive, 3) + Points(OffHours(hour), 1)

ComputeRisk(req, hour) ==
  LET score == Points(req.writes, 3) + Points(req.deletes, 5)
                 + Points(req.sensitive, 3) + Points(OffHours(hour), 1)
  IN IF score > 10 THEN 10 ELSE score

(* The risk of what check_access refuses because of the session.           *)
SessionRisk == 10

=============================================================================
