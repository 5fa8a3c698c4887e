------------------------------- MODULE Guard -------------------------------
(***************************************************************************)
(* The access check of claw-guard: check_access_with_task and write_audit  *)
(* in src/src/guard.rs, called by a library user or by the gRPC handler    *)
(* check_access of src/src/grpc.rs, over the three components it composes. *)
(*                                                                         *)
(* The components appear by what their own modules show of them.  The      *)
(* sessions live a SessionLife and a call checks its session in the steps  *)
(* of SessionGate, which Sessions implements.  An evaluation decides by    *)
(* one rulebook that was committed at some time, not always the newest     *)
(* (PolicyEngine: CommittedSnapshots).  The audit log is an AuditTrail,    *)
(* which AuditWriter implements.                                           *)
(***************************************************************************)
EXTENDS RiskScore, Sequences, Functions

CONSTANTS
  Calls,       \* access checks; each builds one audit entry with a fresh id
  SessionIds,  \* sessions that exist
  NoSession,   \* a token that is not valid, a session without a row
  Requests,    \* what the calls ask for
  Books,       \* rulebooks: what the policies table may hold
  Ruling,      \* what a rulebook says of a session, a request and a risk
  Hours,       \* the hours of the day at which calls run
  MaxBooks     \* bound: committed rulebooks

Decisions == {"Allow", "Deny", "Mask"}

ASSUME GuardConstants ==
  /\ NoSession \notin SessionIds
  /\ Requests # {} /\ Requests \subseteq Request
  /\ Ruling \in [Books \X SessionIds \X Requests \X Risks -> Decisions]
  /\ Books # {} /\ Hours \subseteq 0..23 /\ MaxBooks \in Nat

VARIABLES
  revoked,  \* sessions whose row says revoked
  expired,  \* sessions whose expires_at has passed
  acked,    \* ghost: sessions some revoke_session has returned for
  books,    \* ghost: the rulebooks committed so far
  call,     \* the state of each access check
  entry,    \* what the audit entry of a call says
  waiting, rows, lost   \* the audit trail, by the calls whose entries they are

world == <<revoked, expired, acked, books>>
trail == <<waiting, rows, lost>>
vars == <<revoked, expired, acked, books, call, entry, waiting, rows, lost>>

Trail == INSTANCE AuditTrail WITH Entries <- Calls

Life == INSTANCE SessionLife WITH issued <- SessionIds

Audited == waiting \cup rows \cup lost

NoRequest == CHOOSE r \in Requests : TRUE

(* A call: where it is, in which of the two session checks, the revocation *)
(* bit it has read, its risk, the decision or error that is (to be) its    *)
(* answer, and whether its session was known to be gone when it began.     *)
Unborn ==
  [pc |-> "new", stage |-> "none", sid |-> NoSession, req |-> NoRequest,
   bit |-> FALSE, risk |-> 0, outcome |-> "none", gone |-> FALSE]

NoText == [decision |-> "none", risk |-> 0]

Init ==
  /\ Life!NoneEnded
  /\ \E b \in Books : books = <<b>>
  /\ call = [c \in Calls |-> Unborn]
  /\ entry = [c \in Calls |-> NoText]
  /\ Trail!Init

-----------------------------------------------------------------------------
(* The world around the calls.                                             *)

RevokeSession(s) == Life!Revoke(s) /\ UNCHANGED <<books, call, entry, trail>>

\* Mutant: revoke_session returns without waiting for its UPDATE.
RevokeReturnsEarly(s) ==
  /\ acked' = acked \cup {s}
  /\ UNCHANGED <<revoked, expired, books, call, entry, trail>>

RevokeReturns(s) == Life!Acknowledge(s) /\ UNCHANGED <<books, call, entry, trail>>

SessionsExpire(S) == Life!Expire(S) /\ UNCHANGED <<books, call, entry, trail>>

CommitPolicies(b) ==
  /\ Len(books) < MaxBooks
  /\ books' = Append(books, b)
  /\ UNCHANGED <<revoked, expired, acked, call, entry, trail>>

FlushAudit ==
  /\ \E S \in SUBSET waiting \ {{}} : Trail!Persist(S) \/ Trail!Lose(S)
  /\ UNCHANGED <<world, call, entry>>

-----------------------------------------------------------------------------
(* The calls.                                                              *)

Reply(c, answer) ==
  call' = [call EXCEPT ![c].pc = "done", ![c].outcome = answer, ![c].bit = FALSE, ![c].risk = 0]

(* The gRPC handler starts with validate_session, a user of the library    *)
(* with the assert_session_active of check_access_with_task.               *)
CheckAccess(c) ==
  /\ call[c].pc = "new"
  /\ \E sid \in SessionIds \cup {NoSession}, req \in Requests,
        stage \in {"validate", "assert"} :
       call' = [call EXCEPT ![c] =
         [Unborn EXCEPT !.pc = "select", !.stage = stage, !.sid = sid, !.req = req,
                        !.gone = sid \notin SessionIds \/ sid \in acked \cup expired]]
  /\ UNCHANGED <<world, entry, trail>>

\* Mutant: every session error is returned at once.
SessionErrorUnaudited(c, error) == Reply(c, error)

(* The session check has failed.  In validate_session the `?` of the       *)
(* handler returns the error at once; in assert_session_active the error,  *)
(* whatever it is, is audited as a Deny before it is returned.             *)
SessionError(c, error) ==
  IF call[c].stage = "validate"
  THEN Reply(c, error)
  ELSE call' = [call EXCEPT ![c].pc = "audit", ![c].outcome = error,
                            ![c].bit = FALSE, ![c].risk = SessionRisk]

(* A token that does not decode; one whose session expired long ago is one.*)
TokenInvalid(c) ==
  /\ call[c].pc = "select" /\ call[c].stage = "validate"
  /\ call[c].sid \in expired \cup {NoSession}
  /\ SessionError(c, "InvalidToken")
  /\ UNCHANGED <<world, entry, trail>>

SelectSession(c) ==
  /\ call[c].pc = "select"
  /\ IF call[c].sid = NoSession
     THEN SessionError(c, "InvalidToken")
     ELSE call' = [call EXCEPT ![c].pc = "judge", ![c].bit = call[c].sid \in revoked]
  /\ UNCHANGED <<world, entry, trail>>

SelectFails(c) ==
  /\ call[c].pc = "select"
  /\ SessionError(c, "DatabaseError")
  /\ UNCHANGED <<world, entry, trail>>

\* Mutant: the expiry is checked, the revocation is not.
SessionVerdictNoRevoked(c) == IF call[c].sid \in expired THEN "SessionExpired" ELSE "Ok"

SessionVerdict(c) ==
  CASE call[c].bit -> "SessionRevoked"
    [] ~call[c].bit /\ call[c].sid \in expired -> "SessionExpired"
    [] ~call[c].bit /\ call[c].sid \notin expired -> "Ok"

JudgeSession(c) ==
  /\ call[c].pc = "judge"
  /\ SessionVerdict(c) # "Ok"
  /\ SessionError(c, SessionVerdict(c))
  /\ UNCHANGED <<world, entry, trail>>

(* A validated session goes on to check_access_with_task, an asserted one  *)
(* to compute_risk and evaluate.                                           *)
SessionValid(c) ==
  /\ call[c].pc = "judge" /\ call[c].stage = "validate"
  /\ SessionVerdict(c) = "Ok"
  /\ call' = [call EXCEPT ![c].pc = "select", ![c].stage = "assert", ![c].bit = FALSE]
  /\ UNCHANGED <<world, entry, trail>>

SessionActive(c) ==
  /\ call[c].pc = "judge" /\ call[c].stage = "assert"
  /\ SessionVerdict(c) = "Ok"
  /\ \E hour \in Hours :
       call' = [call EXCEPT ![c].pc = "evaluate", ![c].risk = ComputeRisk(call[c].req, hour)]
  /\ UNCHANGED <<world, entry, trail>>

Ruled(c, b) == Ruling[<<b, call[c].sid, call[c].req, call[c].risk>>]

Evaluate(c) ==
  /\ call[c].pc = "evaluate"
  /\ \E v \in DOMAIN books :
       call' = [call EXCEPT ![c].pc = "audit", ![c].outcome = Ruled(c, books[v])]
  /\ UNCHANGED <<world, entry, trail>>

\* Mutant: a failed evaluation is tried again, from the session check on.
EvaluateRetries(c) ==
  /\ call[c].pc = "evaluate"
  /\ call' = [call EXCEPT ![c].pc = "select", ![c].risk = 0]
  /\ UNCHANGED <<world, entry, trail>>

(* evaluate fails: the `?` returns before write_audit.                     *)
EvaluateFails(c) ==
  /\ call[c].pc = "evaluate"
  /\ Reply(c, "DatabaseError")
  /\ UNCHANGED <<world, entry, trail>>

\* Mutant: the entry keeps the risk score 0.0 it was built with.
AuditTextNoRisk(c) ==
  [decision |-> IF call[c].outcome \in Decisions THEN call[c].outcome ELSE "Deny", risk |-> 0]

(* What write_audit puts into the entry: a session error is a Deny.        *)
AuditText(c) ==
  [decision |-> IF call[c].outcome \in Decisions THEN call[c].outcome ELSE "Deny",
   risk |-> call[c].risk]

(* AuditWriter::write takes the entry, or write_direct stores it.          *)
WriteAudit(c) ==
  /\ call[c].pc = "audit"
  /\ Trail!Accept(c) \/ Trail!Record(c)
  /\ entry' = [entry EXCEPT ![c] = AuditText(c)]
  /\ Reply(c, call[c].outcome)
  /\ UNCHANGED world

\* Mutant: `let _ = write_audit(...)`: the decision is returned all the same.
AuditErrorIgnored(c) == Reply(c, call[c].outcome)

(* The `?` after write_audit: no decision without its entry.               *)
AuditError(c) == Reply(c, "DatabaseError")

(* The channel is closed and the direct write fails.                       *)
WriteAuditFails(c) ==
  /\ call[c].pc = "audit"
  /\ AuditError(c)
  /\ UNCHANGED <<world, entry, trail>>

Running == {c \in Calls : call[c].pc \notin {"new", "done", "dropped"}}

(* The client goes away and its task is dropped, in the middle of          *)
(* write_direct perhaps with the row already written.                      *)
CallDropped(c) ==
  /\ c \in Running
  /\ call' = [call EXCEPT ![c].pc = "dropped"]
  /\ UNCHANGED <<world, entry, trail>>

DroppedAfterInsert(c) ==
  /\ call[c].pc = "audit"
  /\ Trail!Record(c)
  /\ entry' = [entry EXCEPT ![c] = AuditText(c)]
  /\ call' = [call EXCEPT ![c].pc = "dropped"]
  /\ UNCHANGED world

(* The process ends and starts again.                                      *)
Restart ==
  /\ call' = [c \in Calls |-> IF c \in Running THEN [call[c] EXCEPT !.pc = "dropped"] ELSE call[c]]
  /\ Trail!Lose(waiting)
  /\ UNCHANGED <<world, entry>>

CallStep(c) ==
  \/ TokenInvalid(c)
  \/ SelectSession(c)
  \/ SelectFails(c)
  \/ JudgeSession(c)
  \/ SessionValid(c)
  \/ SessionActive(c)
  \/ Evaluate(c)
  \/ EvaluateFails(c)
  \/ WriteAudit(c)
  \/ WriteAuditFails(c)

Next ==
  \/ \E c \in Calls : CheckAccess(c) \/ CallStep(c) \/ CallDropped(c) \/ DroppedAfterInsert(c)
  \/ \E s \in SessionIds : RevokeSession(s) \/ RevokeReturns(s)
  \/ \E S \in SUBSET SessionIds : SessionsExpire(S)
  \/ \E b \in Books : CommitPolicies(b)
  \/ FlushAudit
  \/ Restart

Spec == Init /\ [][Next]_vars

(* A running call is polled and its awaits end, in success or in error     *)
(* (AuditWriter: CallersReturn, for the one that may wait for room).       *)
FairSpec == Spec /\ \A c \in Calls : WF_vars(CallStep(c))

-----------------------------------------------------------------------------
(* What the gRPC client sees of an error (error.rs).                       *)

\* Mutant: a database that fails is taken for a bad token.
StatusCredulous(error) == "unauthenticated"

Status(error) ==
  CASE error \in {"InvalidToken", "SessionExpired", "SessionRevoked"} -> "unauthenticated"
    [] error = "DatabaseError" -> "unavailable"

-----------------------------------------------------------------------------
(* Properties.                                                             *)

Errors == {"InvalidToken", "SessionExpired", "SessionRevoked", "DatabaseError"}

CallType ==
  [pc : {"new", "select", "judge", "evaluate", "audit", "done", "dropped"},
   stage : {"none", "validate", "assert"}, sid : SessionIds \cup {NoSession},
   req : Requests, bit : BOOLEAN, risk : Risks,
   outcome : Decisions \cup Errors \cup {"none"}, gone : BOOLEAN]

(* Types.                                                                  *)
TypeOK ==
  /\ revoked \subseteq SessionIds /\ expired \subseteq SessionIds
  /\ acked \subseteq revoked
  /\ books \in Seq(Books)
  /\ call \in [Calls -> CallType]
  /\ entry \in [Calls -> [decision : Decisions \cup {"none"}, risk : Risks]]
  /\ Audited \subseteq Calls

Answered(c) == call[c].pc = "done"

(* Nobody is given a decision that is not in the audit trail as it was     *)
(* given: entry and reply agree, whichever way the call came and whatever  *)
(* failed on the way.  A call that is answered with an error is in the     *)
(* trail as a Deny of full risk, or not at all.                            *)
RepliesMatchTrail ==
  \A c \in Calls : Answered(c) =>
    IF call[c].outcome \in Decisions
    THEN c \in Audited /\ entry[c].decision = call[c].outcome
    ELSE c \in Audited => entry[c] = [decision |-> "Deny", risk |-> SessionRisk]

(* The only answers without an entry: a token the gRPC handler refused,    *)
(* and a database that failed.                                             *)
SilenceIsExplained ==
  \A c \in Calls : Answered(c) /\ c \notin Audited =>
    \/ call[c].outcome = "DatabaseError"
    \/ call[c].stage = "validate"

(* No call that starts after a revocation was acknowledged, or after the   *)
(* session expired, gets a decision of the policies, not even a Deny: it   *)
(* is turned away with an error.  A revocation that comes between the      *)
(* check and the answer is too late.                                       *)
DeadSessionsGetNoDecision ==
  \A c \in Calls : Answered(c) /\ call[c].gone => call[c].outcome \in Errors

(* Every entry can be explained: what it says is what a rulebook that was  *)
(* committed says of this request at the recorded risk, which is the risk  *)
(* of the request at some hour; or it is the Deny of full risk, for a      *)
(* session that is really gone or a database that failed.                  *)
EntriesExplained ==
  \A c \in Audited :
    \/ \E b \in Range(books), hour \in Hours :
         /\ call[c].sid \in SessionIds
         /\ entry[c].risk = ComputeRisk(call[c].req, hour)
         /\ entry[c].decision = Ruling[<<b, call[c].sid, call[c].req, entry[c].risk>>]
    \/ /\ entry[c] = [decision |-> "Deny", risk |-> SessionRisk]
       /\ \/ call[c].sid \in revoked \cup expired \cup {NoSession}
          \/ call[c].outcome = "DatabaseError"

(* A client is told to authenticate again only if its session is really    *)
(* gone: never because the database failed.                                *)
StatusTruthful ==
  \A c \in Calls :
    /\ Answered(c) /\ call[c].outcome \in Errors
    /\ Status(call[c].outcome) = "unauthenticated"
    => call[c].sid \in revoked \cup expired \cup {NoSession}

(* Every access check comes to an end.                                     *)
CallsReturn == \A c \in Calls : c \in Running ~> c \notin Running

=============================================================================
