---------------------------- MODULE SessionGate ----------------------------
(***************************************************************************)
(* What a session check of claw-guard promises, without JWTs, leeway or    *)
(* whole seconds.  One moment decides about the revocation, a later one    *)
(* about the expiry; before the first of them a session that has expired   *)
(* may be refused as an invalid token.  Module Guard checks its sessions   *)
(* in these steps.                                                         *)
(***************************************************************************)
EXTENDS SessionLife

CONSTANTS
  Clients,    \* tasks that check sessions
  NoSession   \* a token that is not the guard's, a session without a row

VARIABLES
  check,   \* the check of each client
  marked   \* clients that have found the session of their check revoked

vars == <<life, check, marked>>

NoCheck == [pc |-> "idle", sid |-> NoSession, verdict |-> "none"]

Init ==
  /\ issued \subseteq SessionIds /\ NoneEnded
  /\ check = [c \in Clients |-> NoCheck]
  /\ marked = {}

Begin(c, s) ==
  /\ check[c].pc = "idle"
  /\ s \in issued \cup {NoSession}
  /\ check' = [check EXCEPT ![c] = [pc |-> "select", sid |-> s, verdict |-> "none"]]
  /\ UNCHANGED <<life, marked>>

Decide(c, verdict) ==
  check' = [check EXCEPT ![c] = [pc |-> "done", sid |-> check[c].sid, verdict |-> verdict]]

Refuse(c) ==
  /\ check[c].pc = "select"
  /\ check[c].sid \in expired \cup {NoSession}
  /\ Decide(c, "InvalidToken")
  /\ UNCHANGED <<life, marked>>

Select(c) ==
  /\ check[c].pc = "select"
  /\ check[c].sid \in issued
  /\ check' = [check EXCEPT ![c].pc = "judge"]
  /\ marked' = IF check[c].sid \in revoked THEN marked \cup {c} ELSE marked
  /\ UNCHANGED life

Verdict(c) ==
  CASE c \in marked -> "SessionRevoked"
    [] c \notin marked /\ check[c].sid \in expired -> "SessionExpired"
    [] c \notin marked /\ check[c].sid \notin expired -> "Ok"

Judge(c) ==
  /\ check[c].pc = "judge"
  /\ Decide(c, Verdict(c))
  /\ marked' = marked \ {c}
  /\ UNCHANGED life

(* The caller is content and checks the session once more.                 *)
CheckAgain(c) ==
  /\ check[c].pc = "judge" /\ Verdict(c) = "Ok"
  /\ check' = [check EXCEPT ![c].pc = "select"]
  /\ UNCHANGED <<life, marked>>

(* Callers take their verdicts, or are gone before there is one.           *)
Finish(C) ==
  /\ check' = [c \in Clients |-> IF c \in C THEN NoCheck ELSE check[c]]
  /\ marked' = marked \ C
  /\ UNCHANGED life

LifeStep ==
  /\ UNCHANGED <<check, marked>>
  /\ \/ \E s \in SessionIds : Issue(s) \/ Revoke(s) \/ Acknowledge(s)
     \/ \E S \in SUBSET issued : Expire(S)

CheckStep(c) ==
  \/ \E s \in issued \cup {NoSession} : Begin(c, s)
  \/ Refuse(c)
  \/ Select(c)
  \/ Judge(c)
  \/ CheckAgain(c)

Next ==
  \/ LifeStep
  \/ \E c \in Clients : CheckStep(c)
  \/ \E C \in SUBSET Clients : Finish(C)

Spec == Init /\ [][Next]_vars

=============================================================================
