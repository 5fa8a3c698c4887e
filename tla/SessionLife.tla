---------------------------- MODULE SessionLife ----------------------------
(***************************************************************************)
(* The life of a session of claw-guard, without rows, clocks or calls: it  *)
(* is issued, it may be revoked, the revocation may be acknowledged, and   *)
(* it expires.  Nothing of this is ever taken back.                        *)
(***************************************************************************)
CONSTANT SessionIds

VARIABLES
  issued,   \* sessions that have a row; a constant where all of them do
  revoked,  \* sessions whose row says revoked
  expired,  \* sessions whose expires_at has passed
  acked     \* sessions some revoke_session has returned for

life == <<issued, revoked, expired, acked>>

NoneEnded == revoked = {} /\ expired = {} /\ acked = {}

(* A session may have expired by the time its row is there.                *)
Issue(s) ==
  /\ s \in SessionIds \ issued
  /\ issued' = issued \cup {s}
  /\ expired' \in {expired, expired \cup {s}}
  /\ UNCHANGED <<revoked, acked>>

Revoke(s) ==
  /\ s \in issued
  /\ revoked' = revoked \cup {s}
  /\ issued' = issued /\ UNCHANGED <<expired, acked>>

Acknowledge(s) ==
  /\ s \in revoked
  /\ acked' = acked \cup {s}
  /\ issued' = issued /\ UNCHANGED <<revoked, expired>>

(* Time passes; several sessions may expire at once.                       *)
Expire(S) ==
  /\ S \subseteq issued
  /\ expired' = expired \cup S
  /\ issued' = issued /\ UNCHANGED <<revoked, acked>>

=============================================================================
