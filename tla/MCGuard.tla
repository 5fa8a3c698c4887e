------------------------------ MODULE MCGuard ------------------------------
(***************************************************************************)
(* A small instance of Guard for TLC: two calls, one session, a harmless   *)
(* and a dangerous request, an hour inside and one outside business hours, *)
(* and two rulebooks.  Under the first, a request above 0.8 is denied and  *)
(* the rest allowed, so the hour decides about the dangerous request; the  *)
(* second masks everything.                                                *)
(***************************************************************************)
EXTENDS Guard

CONSTANTS s1, strict, masking

MCRequests ==
  {[writes |-> FALSE, deletes |-> FALSE, sensitive |-> FALSE],
   [writes |-> FALSE, deletes |-> TRUE, sensitive |-> TRUE]}

MCRuling ==
  [x \in Books \X SessionIds \X Requests \X Risks |->
     CASE x[1] = masking -> "Mask"
       [] x[1] = strict /\ x[4] > 8 -> "Deny"
       [] x[1] = strict /\ x[4] <= 8 -> "Allow"]

MCHours == {9, 18}
=============================================================================
