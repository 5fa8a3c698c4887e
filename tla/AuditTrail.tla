----------------------------- MODULE AuditTrail -----------------------------
(***************************************************************************)
(* What the audit log of claw-guard promises, without channels, batches or *)
(* transactions: an entry that was accepted waits, then it is a row of     *)
(* audit_log or it is lost; a row stays; nothing is recorded twice and     *)
(* nothing is recorded that no caller wrote.                               *)
(***************************************************************************)
CONSTANT Entries

VARIABLES
  waiting,  \* accepted entries that are not stored yet
  rows,     \* the entries in audit_log
  lost      \* accepted entries that will never be stored

vars == <<waiting, rows, lost>>

Unknown == Entries \ (waiting \cup rows \cup lost)

Init == waiting = {} /\ rows = {} /\ lost = {}

Accept(e) ==
  /\ e \in Unknown
  /\ waiting' = waiting \cup {e}
  /\ UNCHANGED <<rows, lost>>

(* An entry may be stored without waiting.                                 *)
Record(e) ==
  /\ e \in Unknown
  /\ rows' = rows \cup {e}
  /\ UNCHANGED <<waiting, lost>>

(* Entries are stored together or not at all.                              *)
Persist(S) ==
  /\ S \subseteq waiting
  /\ waiting' = waiting \ S
  /\ rows' = rows \cup S
  /\ UNCHANGED lost

Lose(S) ==
  /\ S \subseteq waiting
  /\ waiting' = waiting \ S
  /\ lost' = lost \cup S
  /\ UNCHANGED rows

Next ==
  \/ \E e \in Entries : Accept(e) \/ Record(e)
  \/ \E S \in SUBSET waiting : Persist(S) \/ Lose(S)

Spec == Init /\ [][Next]_vars

=============================================================================
