----------------------------- MODULE MCSessions -----------------------------
(***************************************************************************)
(* Small instances of Sessions for TLC.  For the tokens a second has two   *)
(* milliseconds and the leeway is one second, so a token outlives its row  *)
(* by three or four ticks of the clock; a word holds 64 values.  For the   *)
(* pages a second has one.                                                 *)
(***************************************************************************)
EXTENDS Sessions, TLC

(* One that is born expired, one that lives for a second.                  *)
MCTtls == {-1, 1}

(* One that outlives the walks, too.                                       *)
MCLongTtls == {1, 9}

Symmetry == Permutations(SessionIds) \cup Permutations(Clients)

=============================================================================
