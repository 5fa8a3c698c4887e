---------------------------- MODULE Guard_proofs ----------------------------
(***************************************************************************)
(* Proofs about Guard, for any number of calls and sessions, all rulebooks *)
(* and all hours: what callers are told, what the audit trail says and     *)
(* what was known of the session fit together at every step; and the       *)
(* session checks of the calls are checks of SessionGate.                  *)
(***************************************************************************)
EXTENDS Guard, TLAPS

-----------------------------------------------------------------------------
(* The inductive invariant behind the theorems.                            *)

SessionErrors == {"InvalidToken", "SessionExpired", "SessionRevoked"}

Refused == [decision |-> "Deny", risk |-> SessionRisk]

(* A decision at a risk, as some committed rulebook has it.                *)
RuledAs(c, decision, risk) ==
  \E b \in Range(books), hour \in Hours :
    /\ call[c].sid \in SessionIds
    /\ risk = ComputeRisk(call[c].req, hour)
    /\ decision = Ruling[<<b, call[c].sid, call[c].req, risk>>]

Gone(c) == call[c].sid \in revoked \cup expired \cup {NoSession}

(* What a call knows of its session.                                       *)
SessionKnown(c) ==
  /\ call[c].gone => call[c].sid \notin SessionIds \/ call[c].sid \in acked \cup expired
  /\ call[c].pc = "new" \/ call[c].stage \in {"validate", "assert"}
  /\ call[c].pc \in {"evaluate", "audit"} => call[c].stage = "assert"
  /\ call[c].pc = "judge" =>
       /\ call[c].sid \in SessionIds
       /\ call[c].bit => call[c].sid \in revoked
       /\ call[c].gone => call[c].bit \/ call[c].sid \in expired
  /\ call[c].outcome \in SessionErrors => Gone(c)

(* What it is about to answer, or has answered.                            *)
OutcomeKnown(c) ==
  /\ call[c].pc = "evaluate" =>
       /\ ~call[c].gone /\ call[c].sid \in SessionIds
       /\ \E hour \in Hours : call[c].risk = ComputeRisk(call[c].req, hour)
  /\ call[c].pc \in {"audit", "done"} =>
       /\ call[c].outcome \in Decisions \cup Errors
       /\ call[c].gone => call[c].outcome \in Errors
  /\ call[c].pc = "audit" =>
       /\ call[c].outcome \in Decisions => RuledAs(c, call[c].outcome, call[c].risk)
       /\ call[c].outcome \in Errors => call[c].risk = SessionRisk

(* What the trail says of it.                                              *)
EntryKnown(c) ==
  /\ c \in Audited =>
       /\ call[c].pc \in {"done", "dropped"}
       /\ \/ RuledAs(c, entry[c].decision, entry[c].risk)
          \/ entry[c] = Refused /\ (Gone(c) \/ call[c].outcome = "DatabaseError")
  /\ call[c].pc = "done" /\ c \in Audited =>
       IF call[c].outcome \in Decisions
       THEN entry[c].decision = call[c].outcome ELSE entry[c] = Refused
  /\ call[c].pc = "done" /\ c \notin Audited =>
       call[c].outcome = "DatabaseError"
         \/ (call[c].stage = "validate" /\ call[c].outcome \in Errors)

CallInv(c) == SessionKnown(c) /\ OutcomeKnown(c) /\ EntryKnown(c)

GuardInv == TypeOK /\ \A c \in Calls : CallInv(c)

-----------------------------------------------------------------------------
(* Operators.                                                              *)

LEMMA RiskTyped ==
  ASSUME NEW req \in Requests, NEW hour \in Hours
  PROVE  ComputeRisk(req, hour) \in Risks
<1>1. /\ Points(req.writes, 3) \in {0, 3} /\ Points(req.deletes, 5) \in {0, 5}
      /\ Points(req.sensitive, 3) \in {0, 3} /\ Points(OffHours(hour), 1) \in {0, 1}
  BY DEF Points
<1> QED BY <1>1 DEF ComputeRisk, Risks

LEMMA RiskBounds == 0 \in Risks /\ SessionRisk \in Risks
BY DEF Risks, SessionRisk

LEMMA RulingTyped ==
  ASSUME NEW b \in Books, NEW s \in SessionIds, NEW req \in Requests, NEW risk \in Risks
  PROVE  Ruling[<<b, s, req, risk>>] \in Decisions
BY GuardConstants DEF GuardConstants

(* Decisions and errors are told apart.                                    *)
LEMMA OutcomesDiffer ==
  /\ Decisions \cap Errors = {} /\ "none" \notin Decisions \cup Errors
  /\ SessionErrors \subseteq Errors /\ "DatabaseError" \in Errors \ SessionErrors
BY DEF Decisions, Errors, SessionErrors

-----------------------------------------------------------------------------
(* Steps.                                                                  *)

(* Sessions only end and rulebooks are only added.                         *)
WorldGrows ==
  /\ revoked \subseteq revoked' /\ expired \subseteq expired' /\ acked \subseteq acked'
  /\ Range(books) \subseteq Range(books')

(* What holds of a call that does not move keeps holding.                  *)
LEMMA Untouched ==
  ASSUME WorldGrows, NEW c \in Calls, CallInv(c),
         call'[c] = call[c], entry'[c] = entry[c], c \in Audited' <=> c \in Audited
  PROVE  CallInv(c)'
<1>1. Gone(c) => Gone(c)'
  BY DEF WorldGrows, Gone
<1>2. /\ RuledAs(c, call[c].outcome, call[c].risk) => RuledAs(c, call[c].outcome, call[c].risk)'
      /\ RuledAs(c, entry[c].decision, entry[c].risk) => RuledAs(c, entry[c].decision, entry[c].risk)'
  BY DEF WorldGrows, RuledAs
<1>3. SessionKnown(c)'
  BY <1>1 DEF CallInv, SessionKnown, WorldGrows
<1>4. OutcomeKnown(c)'
  BY <1>2 DEF CallInv, OutcomeKnown
<1>5. EntryKnown(c)'
  BY <1>1, <1>2 DEF CallInv, EntryKnown
<1> QED BY <1>3, <1>4, <1>5 DEF CallInv

(* A step that moves one call and nothing else.                            *)
LEMMA OneCall ==
  ASSUME GuardInv, UNCHANGED <<world, entry, trail>>,
         NEW c \in Calls, NEW v \in CallType, call' = [call EXCEPT ![c] = v], CallInv(c)'
  PROVE  GuardInv'
<1>1. call \in [Calls -> CallType]
  BY DEF GuardInv, TypeOK
<1>2. call'[c] = v /\ \A d \in Calls \ {c} : call'[d] = call[d]
  BY <1>1
<1>3. UNCHANGED <<revoked, expired, acked, books, entry>> /\ Audited' = Audited
  BY DEF world, trail, Audited
<1>4. TypeOK'
  BY <1>1, <1>3 DEF GuardInv, TypeOK
<1>5. WorldGrows
  BY <1>3 DEF WorldGrows
<1>6. \A d \in Calls : CallInv(d)'
  BY <1>2, <1>3, <1>5, Untouched DEF GuardInv
<1> QED BY <1>4, <1>6 DEF GuardInv

(* What a reply makes of a call.                                           *)
LEMMA Replied ==
  ASSUME GuardInv, NEW c \in Calls, NEW answer \in Decisions \cup Errors, Reply(c, answer)
  PROVE  \E v \in CallType :
           /\ call' = [call EXCEPT ![c] = v] /\ call'[c] = v
           /\ v.pc = "done" /\ v.outcome = answer
           /\ v.stage = call[c].stage /\ v.sid = call[c].sid /\ v.req = call[c].req
           /\ v.gone = call[c].gone
<1> DEFINE v == [call[c] EXCEPT !.pc = "done", !.outcome = answer, !.bit = FALSE, !.risk = 0]
<1>1. call[c] \in CallType /\ call \in [Calls -> CallType]
  BY DEF GuardInv, TypeOK
<1>2. v \in CallType
  BY <1>1, RiskBounds DEF CallType
<1>3. call' = [call EXCEPT ![c] = v]
  BY <1>1 DEF Reply, CallType
<1>4. call'[c] = v
  BY <1>1, <1>3
<1>5. /\ v.pc = "done" /\ v.outcome = answer
      /\ v.stage = call[c].stage /\ v.sid = call[c].sid /\ v.req = call[c].req
      /\ v.gone = call[c].gone
  BY <1>1 DEF CallType
<1> HIDE DEF v
<1> QED BY <1>2, <1>3, <1>4, <1>5

(* A reply without an entry: the database failed, or the handler refused.  *)
LEMMA SilentReply ==
  ASSUME GuardInv, UNCHANGED <<world, entry, trail>>, NEW c \in Calls,
         call[c].pc \notin {"new", "done", "dropped"},
         NEW error \in Errors, Reply(c, error),
         error = "DatabaseError" \/ call[c].stage = "validate",
         error \in SessionErrors => Gone(c)
  PROVE  GuardInv'
<1>1. PICK v \in CallType :
           /\ call' = [call EXCEPT ![c] = v] /\ call'[c] = v
           /\ v.pc = "done" /\ v.outcome = error
           /\ v.stage = call[c].stage /\ v.sid = call[c].sid /\ v.req = call[c].req
           /\ v.gone = call[c].gone
  BY Replied
<1>2. UNCHANGED <<revoked, expired, acked, books, entry>> /\ Audited' = Audited
  BY DEF world, trail, Audited
<1>3. CallInv(c) /\ c \notin Audited
  BY DEF GuardInv, CallInv, EntryKnown
<1>4. SessionKnown(c)'
  BY <1>1, <1>2, <1>3 DEF CallInv, SessionKnown, Gone
<1>5. OutcomeKnown(c)'
  BY <1>1 DEF OutcomeKnown
<1>6. EntryKnown(c)'
  BY <1>1, <1>2, <1>3 DEF EntryKnown
<1>7. CallInv(c)'
  BY <1>4, <1>5, <1>6 DEF CallInv
<1> QED BY <1>1, <1>7, OneCall

(* The session check has failed.                                           *)
LEMMA SessionErrorStep ==
  ASSUME GuardInv, UNCHANGED <<world, entry, trail>>, NEW c \in Calls,
         call[c].pc \in {"select", "judge"},
         NEW error \in Errors, SessionError(c, error), error \in SessionErrors => Gone(c)
  PROVE  GuardInv'
<1>1. CASE call[c].stage = "validate"
  BY <1>1, SilentReply DEF SessionError
<1>2. CASE call[c].stage # "validate"
  <2> DEFINE v == [call[c] EXCEPT !.pc = "audit", !.outcome = error, !.bit = FALSE,
                                  !.risk = SessionRisk]
  <2>1. call[c] \in CallType /\ call \in [Calls -> CallType]
    BY DEF GuardInv, TypeOK
  <2>2. v \in CallType
    BY <2>1, RiskBounds DEF CallType
  <2>3. call' = [call EXCEPT ![c] = v]
    BY <1>2, <2>1 DEF SessionError, CallType
  <2>4. call'[c] = v
    BY <2>1, <2>3
  <2>5. /\ v.pc = "audit" /\ v.outcome = error /\ v.risk = SessionRisk
        /\ v.stage = call[c].stage /\ v.sid = call[c].sid /\ v.gone = call[c].gone
    BY <2>1 DEF CallType
  <2> HIDE DEF v
  <2>6. UNCHANGED <<revoked, expired, acked, books, entry>> /\ Audited' = Audited
    BY DEF world, trail, Audited
  <2>7. CallInv(c) /\ c \notin Audited
    BY DEF GuardInv, CallInv, EntryKnown
  <2>8. SessionKnown(c)'
    BY <1>2, <2>4, <2>5, <2>6, <2>7 DEF CallInv, SessionKnown, Gone
  <2>9. OutcomeKnown(c)'
    BY <2>4, <2>5, OutcomesDiffer DEF OutcomeKnown
  <2>10. EntryKnown(c)'
    BY <2>4, <2>5, <2>6, <2>7 DEF EntryKnown
  <2>11. CallInv(c)'
    BY <2>8, <2>9, <2>10 DEF CallInv
  <2> QED BY <2>2, <2>3, <2>11, OneCall
<1> QED BY <1>1, <1>2

(* A Boolean expression as a Boolean value.                                *)
LEMMA Truth ==
  ASSUME NEW S, NEW x
  PROVE  \E b \in BOOLEAN : b = (x \in S)
<1>1. CASE x \in S
  <2>1. TRUE = (x \in S)
    BY <1>1, Zenon
  <2> QED BY <2>1, Zenon
<1>2. CASE x \notin S
  <2>1. FALSE = (x \in S)
    BY <1>2
  <2> QED BY <2>1, Zenon
<1> QED BY <1>1, <1>2, Zenon

-----------------------------------------------------------------------------
(* The steps of a call, one lemma per action.                              *)

(* A call begins, and notes whether its session is gone.                   *)
LEMMA Opened ==
  ASSUME GuardInv, NEW c \in Calls, CheckAccess(c)
  PROVE  \E v \in CallType :
           /\ call' = [call EXCEPT ![c] = v]
           /\ v.pc = "select" /\ v.stage \in {"validate", "assert"} /\ v.outcome = "none"
           /\ v.sid \in SessionIds \cup {NoSession}
           /\ v.gone => v.sid \notin SessionIds \/ v.sid \in acked \cup expired
<1>1. PICK sid \in SessionIds \cup {NoSession}, req \in Requests, stage \in {"validate", "assert"} :
        call' = [call EXCEPT ![c] =
          [Unborn EXCEPT !.pc = "select", !.stage = stage, !.sid = sid, !.req = req,
                         !.gone = sid \notin SessionIds \/ sid \in acked \cup expired]]
  BY DEF CheckAccess
<1> DEFINE Dead == {NoSession} \cup acked \cup expired
<1>2. (sid \notin SessionIds \/ sid \in acked \cup expired) = (sid \in Dead)
  <2>1. (sid \notin SessionIds \/ sid \in acked \cup expired) <=> sid \in Dead
    BY GuardConstants DEF GuardConstants
  <2> QED BY <2>1
<1>3. PICK b \in BOOLEAN : b = (sid \in Dead)
  BY Truth
<1> DEFINE v == [Unborn EXCEPT !.pc = "select", !.stage = stage, !.sid = sid, !.req = req,
                               !.gone = b]
<1>4. call' = [call EXCEPT ![c] = v]
  BY <1>1, <1>2, <1>3, Zenon
<1>5. Unborn \in CallType
  <2>1. NoRequest \in Requests
    BY GuardConstants DEF GuardConstants, NoRequest
  <2> QED BY <2>1, RiskBounds DEF Unborn, CallType
<1>6. v \in CallType
  BY <1>5 DEF CallType
<1>7. v.pc = "select" /\ v.stage = stage /\ v.sid = sid /\ v.gone = b /\ v.outcome = "none"
  BY DEF Unborn
<1>8. b => sid \notin SessionIds \/ sid \in acked \cup expired
  BY <1>2, <1>3, Zenon
<1> HIDE DEF v, Dead
<1> QED BY <1>4, <1>6, <1>7, <1>8

LEMMA CheckAccessStep ==
  ASSUME GuardInv, NEW c \in Calls, CheckAccess(c)
  PROVE  GuardInv'
<1>1. call[c].pc = "new" /\ UNCHANGED <<world, entry, trail>>
  BY DEF CheckAccess
<1>2. PICK v \in CallType :
        /\ call' = [call EXCEPT ![c] = v]
        /\ v.pc = "select" /\ v.stage \in {"validate", "assert"} /\ v.outcome = "none"
        /\ v.gone => v.sid \notin SessionIds \/ v.sid \in acked \cup expired
  BY Opened
<1>3. call'[c] = v
  BY <1>2 DEF GuardInv, TypeOK
<1>4. UNCHANGED <<revoked, expired, acked, books, entry>> /\ Audited' = Audited
  BY <1>1 DEF world, trail, Audited
<1>5. CallInv(c) /\ c \notin Audited
  BY <1>1 DEF GuardInv, CallInv, EntryKnown
<1>6. SessionKnown(c)'
  BY <1>2, <1>3, <1>4 DEF SessionKnown, SessionErrors
<1>7. OutcomeKnown(c)' /\ EntryKnown(c)'
  BY <1>2, <1>3, <1>4, <1>5 DEF OutcomeKnown, EntryKnown
<1> QED BY <1>1, <1>2, <1>6, <1>7, OneCall DEF CallInv

LEMMA TokenInvalidStep ==
  ASSUME GuardInv, NEW c \in Calls, TokenInvalid(c)
  PROVE  GuardInv'
BY SessionErrorStep DEF TokenInvalid, Gone, Errors

LEMMA SelectFailsStep ==
  ASSUME GuardInv, NEW c \in Calls, SelectFails(c)
  PROVE  GuardInv'
BY SessionErrorStep DEF SelectFails, Errors, SessionErrors

LEMMA SelectSessionStep ==
  ASSUME GuardInv, NEW c \in Calls, SelectSession(c)
  PROVE  GuardInv'
<1>1. call[c].pc = "select" /\ UNCHANGED <<world, entry, trail>>
  BY DEF SelectSession
<1>2. CASE call[c].sid = NoSession
  BY <1>1, <1>2, SessionErrorStep DEF SelectSession, Gone, Errors
<1>3. CASE call[c].sid # NoSession
  <2>1. call[c] \in CallType /\ call \in [Calls -> CallType]
    BY DEF GuardInv, TypeOK
  <2>2. PICK b \in BOOLEAN : b = (call[c].sid \in revoked)
    BY Truth
  <2> DEFINE v == [call[c] EXCEPT !.pc = "judge", !.bit = b]
  <2>3. call' = [call EXCEPT ![c].pc = "judge", ![c].bit = b]
    <3>1. call' = [call EXCEPT ![c].pc = "judge", ![c].bit = call[c].sid \in revoked]
      BY <1>3 DEF SelectSession
    <3> QED BY <3>1, <2>2, Zenon
  <2>4. call' = [call EXCEPT ![c] = v]
    BY <2>1, <2>3 DEF CallType
  <2>5. v \in CallType
    BY <2>1 DEF CallType
  <2>6. call'[c] = v
    BY <2>1, <2>4
  <2>7. /\ v.pc = "judge" /\ v.bit = b /\ v.stage = call[c].stage /\ v.sid = call[c].sid
        /\ v.gone = call[c].gone /\ v.outcome = call[c].outcome
    BY <2>1 DEF CallType
  <2>8. call[c].sid \in SessionIds
    BY <1>3, <2>1 DEF CallType
  <2>9. b <=> call[c].sid \in revoked
    BY <2>2, Zenon
  <2> HIDE DEF v
  <2>10. UNCHANGED <<revoked, expired, acked, books, entry>> /\ Audited' = Audited
    BY <1>1 DEF world, trail, Audited
  <2>11. CallInv(c) /\ c \notin Audited /\ acked \subseteq revoked
    BY <1>1 DEF GuardInv, CallInv, EntryKnown, TypeOK
  <2>12. SessionKnown(c)'
    BY <1>1, <2>6, <2>7, <2>8, <2>9, <2>10, <2>11 DEF CallInv, SessionKnown, Gone
  <2>13. OutcomeKnown(c)' /\ EntryKnown(c)'
    BY <2>6, <2>7, <2>10, <2>11 DEF OutcomeKnown, EntryKnown
  <2> QED BY <1>1, <2>4, <2>5, <2>12, <2>13, OneCall DEF CallInv
<1> QED BY <1>2, <1>3

(* What the verdict on a session that was read rests on.                   *)
LEMMA Judged ==
  ASSUME GuardInv, NEW c \in Calls, call[c].pc = "judge"
  PROVE  /\ SessionVerdict(c) \in {"SessionRevoked", "SessionExpired", "Ok"}
         /\ SessionVerdict(c) = "SessionRevoked" => call[c].sid \in revoked
         /\ SessionVerdict(c) = "SessionExpired" => call[c].sid \in expired
         /\ SessionVerdict(c) = "Ok" => ~call[c].gone /\ call[c].sid \in SessionIds
<1>1. call[c].bit \in BOOLEAN
  BY DEF GuardInv, TypeOK, CallType
<1>2. SessionKnown(c)
  BY DEF GuardInv, CallInv
<1>3. CASE call[c].bit
  BY <1>2, <1>3 DEF SessionVerdict, SessionKnown
<1>4. CASE ~call[c].bit
  BY <1>2, <1>4 DEF SessionVerdict, SessionKnown
<1> QED BY <1>3, <1>4

LEMMA JudgeSessionStep ==
  ASSUME GuardInv, NEW c \in Calls, JudgeSession(c)
  PROVE  GuardInv'
<1>1. call[c].pc = "judge" /\ SessionVerdict(c) # "Ok"
  BY DEF JudgeSession
<1>2. SessionVerdict(c) \in Errors /\ Gone(c)
  BY <1>1, Judged DEF Errors, Gone
<1> QED BY <1>1, <1>2, SessionErrorStep DEF JudgeSession

LEMMA SessionValidStep ==
  ASSUME GuardInv, NEW c \in Calls, SessionValid(c)
  PROVE  GuardInv'
<1>1. call[c].pc = "judge" /\ UNCHANGED <<world, entry, trail>>
  BY DEF SessionValid
<1>2. call[c] \in CallType /\ call \in [Calls -> CallType]
  BY DEF GuardInv, TypeOK
<1> DEFINE v == [call[c] EXCEPT !.pc = "select", !.stage = "assert", !.bit = FALSE]
<1>3. call' = [call EXCEPT ![c] = v]
  BY <1>2 DEF SessionValid, CallType
<1>4. v \in CallType
  BY <1>2 DEF CallType
<1>5. call'[c] = v
  BY <1>2, <1>3
<1>6. /\ v.pc = "select" /\ v.stage = "assert" /\ v.sid = call[c].sid
      /\ v.gone = call[c].gone /\ v.outcome = call[c].outcome
  BY <1>2 DEF CallType
<1> HIDE DEF v
<1>7. UNCHANGED <<revoked, expired, acked, books, entry>> /\ Audited' = Audited
  BY <1>1 DEF world, trail, Audited
<1>8. CallInv(c) /\ c \notin Audited
  BY <1>1 DEF GuardInv, CallInv, EntryKnown
<1>9. SessionKnown(c)'
  BY <1>5, <1>6, <1>7, <1>8 DEF CallInv, SessionKnown, Gone
<1>10. OutcomeKnown(c)' /\ EntryKnown(c)'
  BY <1>5, <1>6, <1>7, <1>8 DEF OutcomeKnown, EntryKnown
<1> QED BY <1>1, <1>3, <1>4, <1>9, <1>10, OneCall DEF CallInv

LEMMA SessionActiveStep ==
  ASSUME GuardInv, NEW c \in Calls, SessionActive(c)
  PROVE  GuardInv'
<1>1. /\ call[c].pc = "judge" /\ call[c].stage = "assert" /\ SessionVerdict(c) = "Ok"
      /\ UNCHANGED <<world, entry, trail>>
  BY DEF SessionActive
<1>2. call[c] \in CallType /\ call \in [Calls -> CallType]
  BY DEF GuardInv, TypeOK
<1>3. PICK hour \in Hours :
        call' = [call EXCEPT ![c].pc = "evaluate", ![c].risk = ComputeRisk(call[c].req, hour)]
  BY DEF SessionActive
<1>4. ComputeRisk(call[c].req, hour) \in Risks
  BY <1>2, RiskTyped DEF CallType
<1> DEFINE v == [call[c] EXCEPT !.pc = "evaluate", !.risk = ComputeRisk(call[c].req, hour)]
<1>5. call' = [call EXCEPT ![c] = v]
  BY <1>2, <1>3 DEF CallType
<1>6. v \in CallType
  BY <1>2, <1>4 DEF CallType
<1>7. call'[c] = v
  BY <1>2, <1>5
<1>8. /\ v.pc = "evaluate" /\ v.stage = "assert" /\ v.sid = call[c].sid /\ v.req = call[c].req
      /\ v.risk = ComputeRisk(call[c].req, hour)
      /\ v.gone = call[c].gone /\ v.outcome = call[c].outcome
  BY <1>1, <1>2 DEF CallType
<1> HIDE DEF v
<1>9. UNCHANGED <<revoked, expired, acked, books, entry>> /\ Audited' = Audited
  BY <1>1 DEF world, trail, Audited
<1>10. CallInv(c) /\ c \notin Audited
  BY <1>1 DEF GuardInv, CallInv, EntryKnown
<1>11. ~call[c].gone /\ call[c].sid \in SessionIds
  BY <1>1, Judged
<1>12. SessionKnown(c)'
  BY <1>7, <1>8, <1>9, <1>10, <1>11 DEF CallInv, SessionKnown, Gone
<1>13. OutcomeKnown(c)' /\ EntryKnown(c)'
  BY <1>7, <1>8, <1>9, <1>10, <1>11 DEF OutcomeKnown, EntryKnown
<1> QED BY <1>1, <1>5, <1>6, <1>12, <1>13, OneCall DEF CallInv

LEMMA EvaluateStep ==
  ASSUME GuardInv, NEW c \in Calls, Evaluate(c)
  PROVE  GuardInv'
<1>1. call[c].pc = "evaluate" /\ UNCHANGED <<world, entry, trail>>
  BY DEF Evaluate
<1>2. call[c] \in CallType /\ call \in [Calls -> CallType]
  BY DEF GuardInv, TypeOK
<1>3. PICK i \in DOMAIN books :
        call' = [call EXCEPT ![c].pc = "audit", ![c].outcome = Ruled(c, books[i])]
  BY DEF Evaluate
<1>4. books[i] \in Books /\ books[i] \in Range(books)
  BY DEF GuardInv, TypeOK, Range
<1>5. CallInv(c) /\ c \notin Audited
  BY <1>1 DEF GuardInv, CallInv, EntryKnown
<1>6. ~call[c].gone /\ call[c].sid \in SessionIds
  BY <1>1, <1>5 DEF CallInv, OutcomeKnown
<1>7. PICK hour \in Hours : call[c].risk = ComputeRisk(call[c].req, hour)
  BY <1>1, <1>5 DEF CallInv, OutcomeKnown
<1>8. Ruled(c, books[i]) \in Decisions
  BY <1>2, <1>4, <1>6, RulingTyped DEF Ruled, CallType
<1> DEFINE v == [call[c] EXCEPT !.pc = "audit", !.outcome = Ruled(c, books[i])]
<1>9. call' = [call EXCEPT ![c] = v]
  BY <1>2, <1>3 DEF CallType
<1>10. v \in CallType
  BY <1>2, <1>8 DEF CallType
<1>11. call'[c] = v
  BY <1>2, <1>9
<1>12. /\ v.pc = "audit" /\ v.stage = call[c].stage /\ v.sid = call[c].sid /\ v.req = call[c].req
       /\ v.risk = call[c].risk /\ v.gone = call[c].gone /\ v.outcome = Ruled(c, books[i])
  BY <1>2 DEF CallType
<1> HIDE DEF v
<1>13. UNCHANGED <<revoked, expired, acked, books, entry>> /\ Audited' = Audited
  BY <1>1 DEF world, trail, Audited
<1>14. SessionKnown(c)'
  BY <1>1, <1>5, <1>6, <1>8, <1>11, <1>12, <1>13, OutcomesDiffer DEF CallInv, SessionKnown
<1>15. RuledAs(c, call[c].outcome, call[c].risk)'
  BY <1>4, <1>6, <1>7, <1>11, <1>12, <1>13 DEF RuledAs, Ruled
<1>16. OutcomeKnown(c)'
  BY <1>6, <1>8, <1>11, <1>12, <1>15, OutcomesDiffer DEF OutcomeKnown
<1>17. EntryKnown(c)'
  BY <1>5, <1>11, <1>12, <1>13 DEF EntryKnown
<1> QED BY <1>1, <1>9, <1>10, <1>14, <1>16, <1>17, OneCall DEF CallInv

LEMMA EvaluateFailsStep ==
  ASSUME GuardInv, NEW c \in Calls, EvaluateFails(c)
  PROVE  GuardInv'
BY SilentReply DEF EvaluateFails, Errors, SessionErrors

LEMMA WriteAuditFailsStep ==
  ASSUME GuardInv, NEW c \in Calls, WriteAuditFails(c)
  PROVE  GuardInv'
BY SilentReply DEF WriteAuditFails, AuditError, Errors, SessionErrors

(* An entry is written for a call that comes to its end with it.           *)
LEMMA Recorded ==
  ASSUME GuardInv, UNCHANGED world, NEW c \in Calls, call[c].pc = "audit",
         Audited' = Audited \cup {c}, entry' = [entry EXCEPT ![c] = AuditText(c)],
         NEW v \in CallType, call' = [call EXCEPT ![c] = v], v.pc \in {"done", "dropped"},
         v.outcome = call[c].outcome, v.stage = call[c].stage, v.sid = call[c].sid,
         v.req = call[c].req, v.gone = call[c].gone
  PROVE  GuardInv'
<1>1. /\ call[c] \in CallType /\ call \in [Calls -> CallType]
      /\ entry \in [Calls -> [decision : Decisions \cup {"none"}, risk : Risks]]
  BY DEF GuardInv, TypeOK
<1>2. call'[c] = v /\ \A d \in Calls \ {c} : call'[d] = call[d]
  BY <1>1
<1>3. entry'[c] = AuditText(c) /\ \A d \in Calls \ {c} : entry'[d] = entry[d]
  BY <1>1
<1>4. UNCHANGED <<revoked, expired, acked, books>>
  BY DEF world
<1>5. CallInv(c)
  BY DEF GuardInv
<1>6. /\ call[c].outcome \in Decisions \cup Errors
      /\ call[c].gone => call[c].outcome \in Errors
      /\ call[c].outcome \in Decisions => RuledAs(c, call[c].outcome, call[c].risk)
      /\ call[c].outcome \in Errors => call[c].risk = SessionRisk
      /\ call[c].outcome \in SessionErrors => Gone(c)
  BY <1>5 DEF CallInv, OutcomeKnown, SessionKnown
<1>7. /\ call[c].outcome \in Decisions =>
           AuditText(c) = [decision |-> call[c].outcome, risk |-> call[c].risk]
      /\ call[c].outcome \in Errors => AuditText(c) = Refused
  BY <1>6, OutcomesDiffer DEF AuditText, Refused
<1>8. AuditText(c) \in [decision : Decisions \cup {"none"}, risk : Risks]
  <2>1. call[c].risk \in Risks
    BY <1>1 DEF CallType
  <2> QED BY <2>1 DEF AuditText, Decisions
<1>9. TypeOK'
  <2>1. call' \in [Calls -> CallType]
    BY <1>1
  <2>2. entry' \in [Calls -> [decision : Decisions \cup {"none"}, risk : Risks]]
    BY <1>1, <1>8
  <2>3. Audited' \subseteq Calls
    BY DEF GuardInv, TypeOK
  <2> QED BY <1>4, <2>1, <2>2, <2>3 DEF GuardInv, TypeOK
<1>10. SessionKnown(c)'
  BY <1>2, <1>4, <1>5 DEF CallInv, SessionKnown, Gone
<1>11. OutcomeKnown(c)'
  BY <1>2, <1>6 DEF OutcomeKnown
<1>12. EntryKnown(c)'
  <2>1. CASE call[c].outcome \in Decisions
    <3>1. entry'[c].decision = call[c].outcome /\ entry'[c].risk = call[c].risk
      BY <1>3, <1>7, <2>1
    <3>2. RuledAs(c, entry[c].decision, entry[c].risk)'
      BY <1>2, <1>4, <1>6, <2>1, <3>1 DEF RuledAs
    <3> QED BY <1>2, <2>1, <3>1, <3>2 DEF EntryKnown
  <2>2. CASE call[c].outcome \in Errors
    <3>1. entry'[c] = Refused
      BY <1>3, <1>7, <2>2
    <3>2. Gone(c)' \/ call'[c].outcome = "DatabaseError"
      BY <1>2, <1>4, <1>6, <2>2 DEF Errors, SessionErrors, Gone
    <3> QED BY <1>2, <2>2, <3>1, <3>2, OutcomesDiffer DEF EntryKnown
  <2> QED BY <1>6, <2>1, <2>2
<1>13. WorldGrows
  BY <1>4 DEF WorldGrows
<1>14. \A d \in Calls \ {c} : CallInv(d)'
  <2> SUFFICES ASSUME NEW d \in Calls \ {c} PROVE CallInv(d)'
    OBVIOUS
  <2> QED BY <1>2, <1>3, <1>13, Untouched DEF GuardInv
<1> QED BY <1>9, <1>10, <1>11, <1>12, <1>14 DEF GuardInv, CallInv

(* The trail takes an entry, to be stored or stored at once.               *)
LEMMA TrailTakes ==
  ASSUME NEW c \in Calls, Trail!Accept(c) \/ Trail!Record(c)
  PROVE  Audited' = Audited \cup {c}
BY DEF Trail!Accept, Trail!Record, Audited

LEMMA WriteAuditStep ==
  ASSUME GuardInv, NEW c \in Calls, WriteAudit(c)
  PROVE  GuardInv'
<1>1. call[c].pc = "audit"
  BY DEF WriteAudit
<1>2. call[c].outcome \in Decisions \cup Errors
  BY <1>1 DEF GuardInv, CallInv, OutcomeKnown
<1>3. PICK v \in CallType :
        /\ call' = [call EXCEPT ![c] = v] /\ call'[c] = v
        /\ v.pc = "done" /\ v.outcome = call[c].outcome
        /\ v.stage = call[c].stage /\ v.sid = call[c].sid /\ v.req = call[c].req
        /\ v.gone = call[c].gone
  BY <1>2, Replied DEF WriteAudit
<1> QED BY <1>1, <1>3, TrailTakes, Recorded DEF WriteAudit

(* What dropping a call makes of it.                                       *)
LEMMA Dropped ==
  ASSUME NEW w \in CallType
  PROVE  LET v == [w EXCEPT !.pc = "dropped"]
         IN /\ v \in CallType /\ v.pc = "dropped" /\ v.outcome = w.outcome
            /\ v.stage = w.stage /\ v.sid = w.sid /\ v.req = w.req /\ v.gone = w.gone
BY DEF CallType

LEMMA DroppedAfterInsertStep ==
  ASSUME GuardInv, NEW c \in Calls, DroppedAfterInsert(c)
  PROVE  GuardInv'
<1> DEFINE v == [call[c] EXCEPT !.pc = "dropped"]
<1>1. call[c].pc = "audit" /\ Trail!Record(c) /\ UNCHANGED world
      /\ entry' = [entry EXCEPT ![c] = AuditText(c)]
  BY DEF DroppedAfterInsert
<1>2. call[c] \in CallType /\ call \in [Calls -> CallType]
  BY DEF GuardInv, TypeOK
<1>3. call' = [call EXCEPT ![c] = v]
  BY <1>2 DEF DroppedAfterInsert
<1>4. /\ v \in CallType /\ v.pc = "dropped" /\ v.outcome = call[c].outcome
      /\ v.stage = call[c].stage /\ v.sid = call[c].sid /\ v.req = call[c].req
      /\ v.gone = call[c].gone
  BY <1>2, Dropped
<1> HIDE DEF v
<1> QED BY <1>1, <1>3, <1>4, TrailTakes, Recorded

(* A call that is running when it is dropped.                              *)
LEMMA DroppedInv ==
  ASSUME GuardInv, NEW c \in Calls, c \in Running, WorldGrows,
         call'[c] = [call[c] EXCEPT !.pc = "dropped"], Audited' = Audited
  PROVE  CallInv(c)'
<1>1. call[c] \in CallType
  BY DEF GuardInv, TypeOK
<1>2. /\ call'[c].pc = "dropped" /\ call'[c].outcome = call[c].outcome
      /\ call'[c].stage = call[c].stage /\ call'[c].sid = call[c].sid
      /\ call'[c].gone = call[c].gone
  BY <1>1, Dropped
<1>3. CallInv(c) /\ c \notin Audited /\ call[c].pc # "new"
  BY DEF GuardInv, CallInv, EntryKnown, Running
<1>4. SessionKnown(c)'
  BY <1>2, <1>3 DEF CallInv, SessionKnown, Gone, WorldGrows
<1>5. OutcomeKnown(c)' /\ EntryKnown(c)'
  BY <1>2, <1>3 DEF OutcomeKnown, EntryKnown
<1> QED BY <1>4, <1>5 DEF CallInv

LEMMA CallDroppedStep ==
  ASSUME GuardInv, NEW c \in Calls, CallDropped(c)
  PROVE  GuardInv'
<1> DEFINE v == [call[c] EXCEPT !.pc = "dropped"]
<1>1. c \in Running /\ UNCHANGED <<world, entry, trail>>
  BY DEF CallDropped
<1>2. call[c] \in CallType /\ call \in [Calls -> CallType]
  BY DEF GuardInv, TypeOK
<1>3. call' = [call EXCEPT ![c] = v]
  BY <1>2 DEF CallDropped
<1>4. v \in CallType
  BY <1>2, Dropped
<1>5. call'[c] = v
  BY <1>2, <1>3
<1>6. WorldGrows /\ Audited' = Audited
  BY <1>1 DEF WorldGrows, world, trail, Audited
<1>7. CallInv(c)'
  BY <1>1, <1>5, <1>6, DroppedInv
<1> HIDE DEF v
<1> QED BY <1>1, <1>3, <1>4, <1>7, OneCall

(* The process ends: every running call is dropped, what waits is lost.    *)
LEMMA RestartStep ==
  ASSUME GuardInv, Restart
  PROVE  GuardInv'
<1>1. UNCHANGED <<revoked, expired, acked, books, entry>> /\ Audited' = Audited
  BY DEF Restart, world, Trail!Lose, Audited
<1>2. WorldGrows
  BY <1>1 DEF WorldGrows
<1>3. call \in [Calls -> CallType]
  BY DEF GuardInv, TypeOK
<1>4. \A c \in Calls :
        call'[c] = IF c \in Running THEN [call[c] EXCEPT !.pc = "dropped"] ELSE call[c]
  BY DEF Restart
<1>5. call' \in [Calls -> CallType]
  <2>1. \A c \in Calls : call'[c] \in CallType
    BY <1>3, <1>4, Dropped
  <2>2. call' = [c \in Calls |-> call'[c]]
    BY DEF Restart
  <2> QED BY <2>1, <2>2
<1>6. TypeOK'
  BY <1>1, <1>5 DEF GuardInv, TypeOK
<1>7. ASSUME NEW c \in Calls PROVE CallInv(c)'
  <2>1. CASE c \in Running
    BY <1>1, <1>2, <1>4, <2>1, DroppedInv
  <2>2. CASE c \notin Running
    BY <1>1, <1>2, <1>4, <2>2, Untouched DEF GuardInv
  <2> QED BY <2>1, <2>2
<1> QED BY <1>6, <1>7 DEF GuardInv

(* A step of the world around the calls.                                   *)
LEMMA WorldStep ==
  ASSUME GuardInv, UNCHANGED <<call, entry>>, Audited' = Audited, WorldGrows,
         revoked' \subseteq SessionIds, expired' \subseteq SessionIds,
         acked' \subseteq revoked', books' \in Seq(Books)
  PROVE  GuardInv'
<1>1. TypeOK'
  BY DEF GuardInv, TypeOK
<1>2. \A c \in Calls : CallInv(c)'
  BY Untouched DEF GuardInv
<1> QED BY <1>1, <1>2 DEF GuardInv

LEMMA SessionEndStep ==
  ASSUME GuardInv,
         \/ \E s \in SessionIds : RevokeSession(s) \/ RevokeReturns(s)
         \/ \E S \in SUBSET SessionIds : SessionsExpire(S)
  PROVE  GuardInv'
<1>1. UNCHANGED <<books, call, entry>> /\ Audited' = Audited
  BY DEF RevokeSession, RevokeReturns, SessionsExpire, trail, Audited
<1>2. /\ revoked \subseteq revoked' /\ expired \subseteq expired' /\ acked \subseteq acked'
      /\ revoked' \subseteq SessionIds /\ expired' \subseteq SessionIds
      /\ acked' \subseteq revoked' /\ books' \in Seq(Books)
  BY DEF GuardInv, TypeOK, RevokeSession, RevokeReturns, SessionsExpire, Life!Revoke,
         Life!Acknowledge, Life!Expire
<1>3. WorldGrows
  BY <1>1, <1>2 DEF WorldGrows
<1> QED BY <1>1, <1>2, <1>3, WorldStep

LEMMA CommitPoliciesStep ==
  ASSUME GuardInv, NEW b \in Books, CommitPolicies(b)
  PROVE  GuardInv'
<1>1. books \in Seq(Books) /\ books' = Append(books, b)
  BY DEF GuardInv, TypeOK, CommitPolicies
<1>2. UNCHANGED <<revoked, expired, acked, call, entry>> /\ Audited' = Audited
  BY DEF CommitPolicies, trail, Audited
<1>3. books' \in Seq(Books)
  BY <1>1
<1>4. \A i \in DOMAIN books : i \in DOMAIN books' /\ books'[i] = books[i]
  BY <1>1
<1>5. WorldGrows
  BY <1>2, <1>4 DEF WorldGrows, Range
<1> QED BY <1>2, <1>3, <1>5, WorldStep DEF GuardInv, TypeOK

LEMMA FlushAuditStep ==
  ASSUME GuardInv, FlushAudit
  PROVE  GuardInv'
<1>1. UNCHANGED <<revoked, expired, acked, books, call, entry>>
  BY DEF FlushAudit, world
<1>2. Audited' = Audited
  BY DEF FlushAudit, Trail!Persist, Trail!Lose, Audited
<1>3. WorldGrows
  BY <1>1 DEF WorldGrows
<1> QED BY <1>1, <1>2, <1>3, WorldStep DEF GuardInv, TypeOK

LEMMA StutterStep ==
  ASSUME GuardInv, UNCHANGED vars
  PROVE  GuardInv'
<1>1. UNCHANGED <<revoked, expired, acked, books, call, entry>> /\ Audited' = Audited
  BY DEF vars, Audited
<1>2. WorldGrows
  BY <1>1 DEF WorldGrows
<1> QED BY <1>1, <1>2, WorldStep DEF GuardInv, TypeOK

-----------------------------------------------------------------------------
(* The theorems.                                                           *)

LEMMA GuardInit == Init => GuardInv
<1> SUFFICES ASSUME Init PROVE GuardInv
  OBVIOUS
<1>1. Audited = {}
  BY DEF Init, Trail!Init, Audited
<1>2. Unborn \in CallType
  <2>1. NoRequest \in Requests
    BY GuardConstants DEF GuardConstants, NoRequest
  <2> QED BY <2>1, RiskBounds DEF Unborn, CallType
<1>3. NoText \in [decision : Decisions \cup {"none"}, risk : Risks]
  BY RiskBounds DEF NoText
<1>4. TypeOK
  BY <1>1, <1>2, <1>3 DEF Init, TypeOK, Life!NoneEnded
<1>5. ASSUME NEW c \in Calls PROVE CallInv(c)
  <2>1. call[c] = Unborn
    BY DEF Init
  <2>2. call[c].pc = "new" /\ call[c].outcome = "none" /\ ~call[c].gone
    BY <2>1 DEF Unborn
  <2> QED BY <1>1, <2>2 DEF CallInv, SessionKnown, OutcomeKnown, EntryKnown, SessionErrors
<1> QED BY <1>4, <1>5 DEF GuardInv

LEMMA GuardStep == GuardInv /\ [Next]_vars => GuardInv'
<1> SUFFICES ASSUME GuardInv, [Next]_vars PROVE GuardInv'
  OBVIOUS
<1>1. ASSUME NEW c \in Calls,
             CheckAccess(c) \/ CallStep(c) \/ CallDropped(c) \/ DroppedAfterInsert(c)
      PROVE  GuardInv'
  <2>1. CASE CheckAccess(c)          BY <2>1, CheckAccessStep
  <2>2. CASE TokenInvalid(c)         BY <2>2, TokenInvalidStep
  <2>3. CASE SelectSession(c)        BY <2>3, SelectSessionStep
  <2>4. CASE SelectFails(c)          BY <2>4, SelectFailsStep
  <2>5. CASE JudgeSession(c)         BY <2>5, JudgeSessionStep
  <2>6. CASE SessionValid(c)         BY <2>6, SessionValidStep
  <2>7. CASE SessionActive(c)        BY <2>7, SessionActiveStep
  <2>8. CASE Evaluate(c)             BY <2>8, EvaluateStep
  <2>9. CASE EvaluateFails(c)        BY <2>9, EvaluateFailsStep
  <2>10. CASE WriteAudit(c)          BY <2>10, WriteAuditStep
  <2>11. CASE WriteAuditFails(c)     BY <2>11, WriteAuditFailsStep
  <2>12. CASE CallDropped(c)         BY <2>12, CallDroppedStep
  <2>13. CASE DroppedAfterInsert(c)  BY <2>13, DroppedAfterInsertStep
  <2> QED BY <1>1, <2>1, <2>2, <2>3, <2>4, <2>5, <2>6, <2>7, <2>8, <2>9, <2>10, <2>11,
             <2>12, <2>13 DEF CallStep
<1>2. CASE \/ \E s \in SessionIds : RevokeSession(s) \/ RevokeReturns(s)
           \/ \E S \in SUBSET SessionIds : SessionsExpire(S)
  BY <1>2, SessionEndStep
<1>3. ASSUME NEW b \in Books, CommitPolicies(b) PROVE GuardInv'
  BY <1>3, CommitPoliciesStep
<1>4. CASE FlushAudit
  BY <1>4, FlushAuditStep
<1>5. CASE Restart
  BY <1>5, RestartStep
<1>6. CASE UNCHANGED vars
  BY <1>6, StutterStep
<1> QED BY <1>1, <1>2, <1>3, <1>4, <1>5, <1>6 DEF Next

(* Whatever fails, whoever leaves and whichever session ends meanwhile,    *)
(* each access check keeps to what it knows of its session, of its answer  *)
(* and of its audit entry.                                                 *)
THEOREM GuardCorrect == Spec => []GuardInv
BY GuardInit, GuardStep, PTL DEF Spec

(* The types of guard.rs's state.                                          *)
THEOREM GuardTypes == Spec => []TypeOK
<1>1. GuardInv => TypeOK
  BY DEF GuardInv
<1> QED BY <1>1, GuardCorrect, PTL

(* No answer of check_access contradicts the audit trail: a decision is    *)
(* there as it was given, an error is there as a Deny of full risk or not  *)
(* at all.                                                                 *)
THEOREM AnswersAreAudited == Spec => []RepliesMatchTrail
<1>1. GuardInv => RepliesMatchTrail
  <2> SUFFICES ASSUME GuardInv, NEW c \in Calls, Answered(c)
               PROVE IF call[c].outcome \in Decisions
                     THEN c \in Audited /\ entry[c].decision = call[c].outcome
                     ELSE c \in Audited => entry[c] = Refused
    BY DEF RepliesMatchTrail, Refused
  <2>1. EntryKnown(c) /\ OutcomeKnown(c)
    BY DEF GuardInv, CallInv
  <2> QED BY <2>1, OutcomesDiffer DEF EntryKnown, OutcomeKnown, Answered
<1> QED BY <1>1, GuardCorrect, PTL

(* An access check leaves no entry only when the handler refused its token *)
(* or the database failed.                                                 *)
THEOREM SilenceHasAReason == Spec => []SilenceIsExplained
<1>1. GuardInv => SilenceIsExplained
  BY DEF GuardInv, CallInv, EntryKnown, SilenceIsExplained, Answered
<1> QED BY <1>1, GuardCorrect, PTL

(* check_access gives no decision on a session that was acknowledged as    *)
(* revoked, or had expired, when the call began.                           *)
THEOREM DeadSessionsAreTurnedAway == Spec => []DeadSessionsGetNoDecision
<1>1. GuardInv => DeadSessionsGetNoDecision
  BY DEF GuardInv, CallInv, OutcomeKnown, DeadSessionsGetNoDecision, Answered
<1> QED BY <1>1, GuardCorrect, PTL

(* Every audit entry is the decision of a committed rulebook at the risk   *)
(* of the request, or the Deny of a session check that failed for a reason *)
(* that holds.                                                             *)
THEOREM TrailIsExplained == Spec => []EntriesExplained
<1>1. GuardInv => EntriesExplained
  <2> SUFFICES ASSUME GuardInv PROVE EntriesExplained
    OBVIOUS
  <2>1. Audited \subseteq Calls
    BY DEF GuardInv, TypeOK
  <2>2. \A c \in Audited :
          \/ RuledAs(c, entry[c].decision, entry[c].risk)
          \/ entry[c] = Refused /\ (Gone(c) \/ call[c].outcome = "DatabaseError")
    BY <2>1 DEF GuardInv, CallInv, EntryKnown
  <2> QED BY <2>2 DEF EntriesExplained, RuledAs, Refused, Gone
<1> QED BY <1>1, GuardCorrect, PTL

(* The gRPC status "unauthenticated" is sent only for a session that is    *)
(* gone.                                                                   *)
THEOREM StatusIsTruthful == Spec => []StatusTruthful
<1>1. GuardInv => StatusTruthful
  <2> SUFFICES ASSUME GuardInv, NEW c \in Calls, Answered(c), call[c].outcome \in Errors,
                      Status(call[c].outcome) = "unauthenticated"
               PROVE  Gone(c)
    BY DEF StatusTruthful, Gone
  <2>1. call[c].outcome \in SessionErrors
    BY DEF Status, Errors, SessionErrors
  <2> QED BY <2>1 DEF GuardInv, CallInv, SessionKnown
<1> QED BY <1>1, GuardCorrect, PTL

-----------------------------------------------------------------------------
(* The access checks look at their sessions through SessionGate, the same  *)
(* gate that module Sessions implements.                                   *)

(* A call has passed the gate when it evaluates or has a decision, it has  *)
(* been turned away when its answer is an error of the session.            *)
CheckOf(k) ==
  CASE k.pc \in {"select", "judge"} ->
         [pc |-> k.pc, sid |-> k.sid, verdict |-> "none"]
    [] k.pc = "evaluate" \/ (k.pc \in {"audit", "done"} /\ k.outcome \in Decisions) ->
         [pc |-> "done", sid |-> k.sid, verdict |-> "Ok"]
    [] k.pc \in {"audit", "done"} /\ k.outcome \in SessionErrors ->
         [pc |-> "done", sid |-> k.sid, verdict |-> k.outcome]
    [] OTHER -> [pc |-> "idle", sid |-> NoSession, verdict |-> "none"]

Checks == [c \in Calls |-> CheckOf(call[c])]

FoundRevoked(k) == k.pc = "judge" /\ k.bit

Marked == {c \in Calls : FoundRevoked(call[c])}

Gate == INSTANCE SessionGate
          WITH issued <- SessionIds, Clients <- Calls, check <- Checks, marked <- Marked

ThroughGate == Gate!Spec

GateStep == [Gate!Next]_(Gate!vars)

(* One call moves: one check moves.                                        *)
LEMMA Moved ==
  ASSUME NEW c \in Calls, \A d \in Calls \ {c} : call'[d] = call[d]
  PROVE  /\ Checks' = [Checks EXCEPT ![c] = CheckOf(call'[c])]
         /\ Checks[c] = CheckOf(call[c])
         /\ FoundRevoked(call'[c]) => Marked' = Marked \cup {c}
         /\ ~FoundRevoked(call'[c]) => Marked' = Marked \ {c}
         /\ c \in Marked <=> FoundRevoked(call[c])
<1>1. /\ Checks = [d \in Calls |-> CheckOf(call[d])]
      /\ Checks' = [d \in Calls |-> CheckOf(call'[d])]
  BY DEF Checks
<1>2. \A d \in Calls :
        CheckOf(call'[d]) = IF d = c THEN CheckOf(call'[c]) ELSE Checks[d]
  BY <1>1
<1>3. Checks' = [Checks EXCEPT ![c] = CheckOf(call'[c])] /\ Checks[c] = CheckOf(call[c])
  BY <1>1, <1>2
<1>4. /\ FoundRevoked(call'[c]) => Marked' = Marked \cup {c}
      /\ ~FoundRevoked(call'[c]) => Marked' = Marked \ {c}
      /\ c \in Marked <=> FoundRevoked(call[c])
  BY DEF Marked
<1> QED BY <1>3, <1>4

(* How the places of a call map to the places of a check.                  *)
LEMMA CheckSelects ==
  ASSUME NEW k, k.pc \in {"select", "judge"}
  PROVE  CheckOf(k) = [pc |-> k.pc, sid |-> k.sid, verdict |-> "none"]
BY DEF CheckOf

LEMMA CheckPassed ==
  ASSUME NEW k, k.pc = "evaluate" \/ (k.pc \in {"audit", "done"} /\ k.outcome \in Decisions)
  PROVE  CheckOf(k) = [pc |-> "done", sid |-> k.sid, verdict |-> "Ok"] /\ ~FoundRevoked(k)
<1>1. k.pc \notin {"select", "judge"} /\ ~(k.outcome \in Decisions /\ k.outcome \in SessionErrors)
  BY OutcomesDiffer
<1> QED BY <1>1 DEF CheckOf, FoundRevoked

LEMMA CheckRefused ==
  ASSUME NEW k, k.pc \in {"audit", "done"}, k.outcome \in SessionErrors
  PROVE  /\ CheckOf(k) = [pc |-> "done", sid |-> k.sid, verdict |-> k.outcome]
         /\ ~FoundRevoked(k)
<1>1. k.pc \notin {"select", "judge", "evaluate"} /\ k.outcome \notin Decisions
  BY OutcomesDiffer
<1> QED BY <1>1 DEF CheckOf, FoundRevoked

LEMMA CheckNone ==
  ASSUME NEW k, \/ k.pc \in {"new", "dropped"}
                \/ k.pc \in {"audit", "done"} /\ k.outcome = "DatabaseError"
  PROVE  CheckOf(k) = Gate!NoCheck /\ ~FoundRevoked(k)
<1>1. /\ k.pc \notin {"select", "judge", "evaluate"}
      /\ k.pc \in {"audit", "done"} => k.outcome \notin Decisions \cup SessionErrors
  BY OutcomesDiffer
<1> QED BY <1>1 DEF CheckOf, FoundRevoked, Gate!NoCheck

(* The session check has failed: the audit, if there is one, comes later.  *)
LEMMA FailedCheck ==
  ASSUME GuardInv, NEW c \in Calls, NEW error \in Errors, SessionError(c, error)
  PROVE  /\ \A d \in Calls \ {c} : call'[d] = call[d]
         /\ call'[c].pc \in {"audit", "done"} /\ call'[c].outcome = error
         /\ call'[c].sid = call[c].sid
BY DEF SessionError, Reply, GuardInv, TypeOK, CallType

(* A call that has its answer, or none, without having passed the gate.    *)
LEMMA LeavesGate ==
  ASSUME NEW c \in Calls, \A d \in Calls \ {c} : call'[d] = call[d],
         CheckOf(call'[c]) = Gate!NoCheck, ~FoundRevoked(call'[c]), UNCHANGED world
  PROVE  GateStep
<1>1. Checks' = [d \in Calls |-> IF d \in {c} THEN Gate!NoCheck ELSE Checks[d]]
  BY Moved DEF Checks
<1>2. Marked' = Marked \ {c}
  BY Moved
<1>3. Gate!Finish({c})
  BY <1>1, <1>2 DEF Gate!Finish, Gate!life, world
<1> QED BY <1>3 DEF GateStep, Gate!Next

(* A call that is past the gate.                                           *)
LEMMA GateUnmoved ==
  ASSUME NEW c \in Calls, \A d \in Calls \ {c} : call'[d] = call[d],
         CheckOf(call'[c]) = CheckOf(call[c]),
         ~FoundRevoked(call'[c]), ~FoundRevoked(call[c]), UNCHANGED world
  PROVE  GateStep
<1>1. Checks' = Checks
  BY Moved DEF Checks
<1>2. Marked' = Marked
  BY Moved
<1> QED BY <1>1, <1>2 DEF GateStep, Gate!vars, Gate!life, world

LEMMA CheckAccessGate ==
  ASSUME GuardInv, NEW c \in Calls, CheckAccess(c)
  PROVE  GateStep
<1>1. /\ call[c].pc = "new" /\ UNCHANGED world
      /\ \A d \in Calls \ {c} : call'[d] = call[d]
  BY DEF CheckAccess, GuardInv, TypeOK
<1>2. call'[c].pc = "select" /\ call'[c].sid \in SessionIds \cup {NoSession}
  <2>1. PICK v \in CallType :
          /\ call' = [call EXCEPT ![c] = v]
          /\ v.pc = "select" /\ v.sid \in SessionIds \cup {NoSession}
    BY Opened
  <2> QED BY <2>1 DEF GuardInv, TypeOK
<1>3. ~FoundRevoked(call[c]) /\ ~FoundRevoked(call'[c])
  BY <1>1, <1>2 DEF FoundRevoked
<1>4. /\ Checks[c] = Gate!NoCheck /\ Marked' = Marked
      /\ Checks' = [Checks EXCEPT ![c] = [pc |-> "select", sid |-> call'[c].sid, verdict |-> "none"]]
  <2>1. /\ CheckOf(call[c]) = Gate!NoCheck
        /\ CheckOf(call'[c]) = [pc |-> "select", sid |-> call'[c].sid, verdict |-> "none"]
    BY <1>1, <1>2, CheckNone, CheckSelects
  <2>2. /\ Checks[c] = CheckOf(call[c]) /\ Checks' = [Checks EXCEPT ![c] = CheckOf(call'[c])]
        /\ Marked' = Marked
    BY <1>1, <1>3, Moved
  <2> QED BY <2>1, <2>2
<1>5. Gate!Begin(c, call'[c].sid)
  BY <1>1, <1>2, <1>4 DEF Gate!Begin, Gate!NoCheck, Gate!life, world
<1> QED BY <1>2, <1>5 DEF GateStep, Gate!Next, Gate!CheckStep

LEMMA RefuseGate ==
  ASSUME GuardInv, NEW c \in Calls, UNCHANGED world, call[c].pc = "select",
         call[c].sid \in expired \cup {NoSession}, SessionError(c, "InvalidToken")
  PROVE  GateStep
<1>1. /\ \A d \in Calls \ {c} : call'[d] = call[d]
      /\ call'[c].pc \in {"audit", "done"} /\ call'[c].outcome = "InvalidToken"
      /\ call'[c].sid = call[c].sid
  BY FailedCheck DEF Errors
<1>2. /\ CheckOf(call[c]) = [pc |-> "select", sid |-> call[c].sid, verdict |-> "none"]
      /\ CheckOf(call'[c]) = [pc |-> "done", sid |-> call[c].sid, verdict |-> "InvalidToken"]
      /\ ~FoundRevoked(call'[c])
  BY <1>1, CheckSelects, CheckRefused DEF SessionErrors
<1>3. ~FoundRevoked(call[c])
  BY DEF FoundRevoked
<1>4. /\ Checks[c] = CheckOf(call[c]) /\ Checks' = [Checks EXCEPT ![c] = CheckOf(call'[c])]
      /\ Marked' = Marked
  BY <1>1, <1>2, <1>3, Moved
<1>5. Gate!Refuse(c)
  BY <1>2, <1>4 DEF Gate!Refuse, Gate!Decide, Gate!life, world
<1> QED BY <1>5 DEF GateStep, Gate!Next, Gate!CheckStep

LEMMA SelectGate ==
  ASSUME GuardInv, NEW c \in Calls, SelectSession(c)
  PROVE  GateStep
<1>1. call[c].pc = "select" /\ UNCHANGED world /\ call[c] \in CallType
  BY DEF SelectSession, GuardInv, TypeOK
<1>2. CASE call[c].sid = NoSession
  BY <1>1, <1>2, RefuseGate DEF SelectSession
<1>3. CASE call[c].sid # NoSession
  <2>1. PICK b \in BOOLEAN : b = (call[c].sid \in revoked)
    BY Truth
  <2>2. call' = [call EXCEPT ![c].pc = "judge", ![c].bit = b]
    <3>1. call' = [call EXCEPT ![c].pc = "judge", ![c].bit = call[c].sid \in revoked]
      BY <1>3 DEF SelectSession
    <3> QED BY <3>1, <2>1, Zenon
  <2>3. b <=> call[c].sid \in revoked
    BY <2>1, Zenon
  <2>4. /\ \A d \in Calls \ {c} : call'[d] = call[d]
        /\ call'[c].pc = "judge" /\ call'[c].sid = call[c].sid /\ call'[c].bit = b
    BY <1>1, <2>2 DEF GuardInv, TypeOK, CallType
  <2>5. /\ FoundRevoked(call'[c]) <=> call[c].sid \in revoked
        /\ ~FoundRevoked(call[c])
    BY <1>1, <2>3, <2>4 DEF FoundRevoked
  <2>6. /\ CheckOf(call[c]) = [pc |-> "select", sid |-> call[c].sid, verdict |-> "none"]
        /\ CheckOf(call'[c]) = [pc |-> "judge", sid |-> call[c].sid, verdict |-> "none"]
    BY <1>1, <2>4, CheckSelects
  <2>7. /\ Checks[c] = CheckOf(call[c]) /\ Checks' = [Checks EXCEPT ![c] = CheckOf(call'[c])]
        /\ Marked' = IF call[c].sid \in revoked THEN Marked \cup {c} ELSE Marked
    BY <2>4, <2>5, Moved
  <2>8. Checks' = [Checks EXCEPT ![c] = [Checks[c] EXCEPT !.pc = "judge"]]
    <3>1. [Checks[c] EXCEPT !.pc = "judge"] = CheckOf(call'[c])
      BY <2>6, <2>7
    <3> QED BY <2>7, <3>1
  <2>9. Gate!Select(c)
    <3>1. Checks[c].pc = "select" /\ Checks[c].sid = call[c].sid /\ call[c].sid \in SessionIds
      BY <1>1, <1>3, <2>6, <2>7 DEF CallType
    <3>2. UNCHANGED Gate!life
      BY <1>1 DEF Gate!life, world
    <3> QED BY <2>7, <2>8, <3>1, <3>2 DEF Gate!Select
  <2> QED BY <2>9 DEF GateStep, Gate!Next, Gate!CheckStep
<1> QED BY <1>2, <1>3

(* The gate and the guard judge alike.                                     *)
LEMMA SameVerdict ==
  ASSUME GuardInv, NEW c \in Calls, call[c].pc = "judge"
  PROVE  /\ Gate!Verdict(c) = SessionVerdict(c)
         /\ Checks[c] = [pc |-> "judge", sid |-> call[c].sid, verdict |-> "none"]
<1>1. /\ Checks[c] = [pc |-> "judge", sid |-> call[c].sid, verdict |-> "none"]
      /\ c \in Marked <=> FoundRevoked(call[c])
  BY CheckSelects DEF Checks, Marked
<1>2. Checks[c].sid = call[c].sid
  BY <1>1
<1>3. call[c].bit \in BOOLEAN
  BY DEF GuardInv, TypeOK, CallType
<1>4. CASE call[c].bit
  BY <1>1, <1>2, <1>4 DEF FoundRevoked, Gate!Verdict, SessionVerdict
<1>5. CASE ~call[c].bit
  BY <1>1, <1>2, <1>5 DEF FoundRevoked, Gate!Verdict, SessionVerdict
<1> QED BY <1>1, <1>3, <1>4, <1>5

LEMMA JudgeGate ==
  ASSUME GuardInv, NEW c \in Calls, UNCHANGED world, call[c].pc = "judge",
         \A d \in Calls \ {c} : call'[d] = call[d],
         ~FoundRevoked(call'[c]),
         CheckOf(call'[c]) = [pc |-> "done", sid |-> call[c].sid, verdict |-> SessionVerdict(c)]
  PROVE  GateStep
<1>1. /\ Checks' = [Checks EXCEPT ![c] = CheckOf(call'[c])] /\ Marked' = Marked \ {c}
  BY Moved
<1>2. /\ Gate!Verdict(c) = SessionVerdict(c)
      /\ Checks[c] = [pc |-> "judge", sid |-> call[c].sid, verdict |-> "none"]
  BY SameVerdict
<1>3. Gate!Judge(c)
  BY <1>1, <1>2 DEF Gate!Judge, Gate!Decide, Gate!life, world
<1> QED BY <1>3 DEF GateStep, Gate!Next, Gate!CheckStep

LEMMA SessionValidGate ==
  ASSUME GuardInv, NEW c \in Calls, SessionValid(c)
  PROVE  GateStep
<1>1. /\ call[c].pc = "judge" /\ SessionVerdict(c) = "Ok" /\ UNCHANGED world
      /\ \A d \in Calls \ {c} : call'[d] = call[d]
      /\ call'[c].pc = "select" /\ call'[c].sid = call[c].sid
  BY DEF SessionValid, GuardInv, TypeOK, CallType
<1>2. /\ Gate!Verdict(c) = "Ok"
      /\ Checks[c] = [pc |-> "judge", sid |-> call[c].sid, verdict |-> "none"]
  BY <1>1, SameVerdict
<1>3. ~FoundRevoked(call'[c]) /\ ~FoundRevoked(call[c])
  <2>1. CASE call[c].bit
    BY <1>1, <2>1 DEF SessionVerdict
  <2> QED BY <1>1, <2>1 DEF FoundRevoked
<1>4. CheckOf(call'[c]) = [Checks[c] EXCEPT !.pc = "select"]
  BY <1>1, <1>2, CheckSelects
<1>5. Checks' = [Checks EXCEPT ![c] = CheckOf(call'[c])] /\ Marked' = Marked
  BY <1>1, <1>3, Moved
<1>6. Checks' = [Checks EXCEPT ![c] = [Checks[c] EXCEPT !.pc = "select"]]
  BY <1>4, <1>5
<1>7. Checks[c].pc = "judge" /\ UNCHANGED <<Gate!life, Marked>>
  BY <1>1, <1>2, <1>5 DEF Gate!life, world
<1>8. Gate!CheckAgain(c)
  BY <1>2, <1>6, <1>7 DEF Gate!CheckAgain
<1> QED BY <1>8 DEF GateStep, Gate!Next, Gate!CheckStep

LEMMA CallGate ==
  ASSUME GuardInv, NEW c \in Calls, CallStep(c)
  PROVE  GateStep
<1>1. call[c] \in CallType /\ call \in [Calls -> CallType] /\ CallInv(c)
  BY DEF GuardInv, TypeOK
<1>2. CASE TokenInvalid(c)
  BY <1>2, RefuseGate DEF TokenInvalid
<1>3. CASE SelectSession(c)
  BY <1>3, SelectGate
<1>4. CASE SelectFails(c)
  <2>1. /\ \A d \in Calls \ {c} : call'[d] = call[d]
        /\ call'[c].pc \in {"audit", "done"} /\ call'[c].outcome = "DatabaseError"
    BY <1>4, FailedCheck DEF SelectFails, Errors
  <2>2. CheckOf(call'[c]) = Gate!NoCheck /\ ~FoundRevoked(call'[c])
    BY <2>1, CheckNone
  <2> QED BY <1>4, <2>1, <2>2, LeavesGate DEF SelectFails
<1>5. CASE JudgeSession(c)
  <2>1. call[c].pc = "judge" /\ SessionVerdict(c) \in SessionErrors /\ UNCHANGED world
    BY <1>5, Judged DEF JudgeSession, SessionErrors
  <2>2. /\ \A d \in Calls \ {c} : call'[d] = call[d]
        /\ call'[c].pc \in {"audit", "done"} /\ call'[c].outcome = SessionVerdict(c)
        /\ call'[c].sid = call[c].sid
    BY <1>5, <2>1, FailedCheck, OutcomesDiffer DEF JudgeSession
  <2>3. /\ CheckOf(call'[c]) = [pc |-> "done", sid |-> call[c].sid, verdict |-> SessionVerdict(c)]
        /\ ~FoundRevoked(call'[c])
    BY <2>1, <2>2, CheckRefused
  <2> QED BY <2>1, <2>2, <2>3, JudgeGate
<1>6. CASE SessionValid(c)
  BY <1>6, SessionValidGate
<1>7. CASE SessionActive(c)
  <2>1. /\ call[c].pc = "judge" /\ SessionVerdict(c) = "Ok" /\ UNCHANGED world
        /\ \A d \in Calls \ {c} : call'[d] = call[d]
        /\ call'[c].pc = "evaluate" /\ call'[c].sid = call[c].sid
    BY <1>1, <1>7 DEF SessionActive, CallType
  <2>2. /\ CheckOf(call'[c]) = [pc |-> "done", sid |-> call[c].sid, verdict |-> SessionVerdict(c)]
        /\ ~FoundRevoked(call'[c])
    BY <2>1, CheckPassed
  <2> QED BY <2>1, <2>2, JudgeGate
<1>8. CASE Evaluate(c)
  <2>1. PICK i \in DOMAIN books :
          call' = [call EXCEPT ![c].pc = "audit", ![c].outcome = Ruled(c, books[i])]
    BY <1>8 DEF Evaluate
  <2>2. call[c].pc = "evaluate" /\ call[c].sid \in SessionIds /\ UNCHANGED world
    BY <1>1, <1>8 DEF Evaluate, CallInv, OutcomeKnown
  <2>3. Ruled(c, books[i]) \in Decisions
    <3>1. books[i] \in Books
      BY DEF GuardInv, TypeOK
    <3> QED BY <1>1, <2>2, <3>1, RulingTyped DEF Ruled, CallType
  <2>4. /\ \A d \in Calls \ {c} : call'[d] = call[d]
        /\ call'[c].pc = "audit" /\ call'[c].sid = call[c].sid
        /\ call'[c].outcome = Ruled(c, books[i])
    BY <1>1, <2>1 DEF CallType
  <2>5. CheckOf(call'[c]) = CheckOf(call[c]) /\ ~FoundRevoked(call'[c]) /\ ~FoundRevoked(call[c])
    BY <2>2, <2>3, <2>4, CheckPassed
  <2> QED BY <2>2, <2>4, <2>5, GateUnmoved
<1>9. CASE EvaluateFails(c) \/ WriteAuditFails(c)
  <2>1. /\ \A d \in Calls \ {c} : call'[d] = call[d]
        /\ call'[c].pc = "done" /\ call'[c].outcome = "DatabaseError"
    BY <1>1, <1>9 DEF EvaluateFails, WriteAuditFails, AuditError, Reply, CallType
  <2>2. CheckOf(call'[c]) = Gate!NoCheck /\ ~FoundRevoked(call'[c])
    BY <2>1, CheckNone
  <2>3. UNCHANGED world
    BY <1>9 DEF EvaluateFails, WriteAuditFails
  <2> QED BY <2>1, <2>2, <2>3, LeavesGate
<1>10. CASE WriteAudit(c)
  <2>1. /\ \A d \in Calls \ {c} : call'[d] = call[d]
        /\ call[c].pc = "audit" /\ call'[c].pc = "done"
        /\ call'[c].outcome = call[c].outcome /\ call'[c].sid = call[c].sid
        /\ UNCHANGED world
    BY <1>1, <1>10 DEF WriteAudit, Reply, CallType
  <2>2. call[c].outcome \in Decisions \cup SessionErrors \cup {"DatabaseError"}
    BY <1>1, <2>1 DEF CallInv, OutcomeKnown, Errors, SessionErrors
  <2>3. CheckOf(call'[c]) = CheckOf(call[c]) /\ ~FoundRevoked(call'[c]) /\ ~FoundRevoked(call[c])
    <3>1. CASE call[c].outcome \in Decisions
      BY <2>1, <3>1, CheckPassed
    <3>2. CASE call[c].outcome \in SessionErrors
      BY <2>1, <3>2, CheckRefused
    <3>3. CASE call[c].outcome = "DatabaseError"
      BY <2>1, <3>3, CheckNone
    <3> QED BY <2>2, <3>1, <3>2, <3>3
  <2> QED BY <2>1, <2>3, GateUnmoved
<1> QED BY <1>2, <1>3, <1>4, <1>5, <1>6, <1>7, <1>8, <1>9, <1>10 DEF CallStep

LEMMA DroppedGate ==
  ASSUME GuardInv, NEW c \in Calls, CallDropped(c) \/ DroppedAfterInsert(c)
  PROVE  GateStep
<1>1. /\ \A d \in Calls \ {c} : call'[d] = call[d]
      /\ call'[c].pc = "dropped" /\ UNCHANGED world
  BY DEF CallDropped, DroppedAfterInsert, GuardInv, TypeOK, CallType
<1>2. CheckOf(call'[c]) = Gate!NoCheck /\ ~FoundRevoked(call'[c])
  BY <1>1, CheckNone
<1> QED BY <1>1, <1>2, LeavesGate

LEMMA RestartGate ==
  ASSUME GuardInv, Restart
  PROVE  GateStep
<1>1. UNCHANGED world
  BY DEF Restart
<1>2. \A c \in Calls :
        /\ c \in Running => call'[c].pc = "dropped"
        /\ c \notin Running => call'[c] = call[c]
  BY DEF Restart, GuardInv, TypeOK, CallType
<1>3. \A c \in Running : CheckOf(call'[c]) = Gate!NoCheck /\ ~FoundRevoked(call'[c])
  BY <1>2, CheckNone DEF Running
<1>4. Checks' = [c \in Calls |-> IF c \in Running THEN Gate!NoCheck ELSE Checks[c]]
  BY <1>2, <1>3 DEF Checks
<1>5. Marked' = Marked \ Running
  BY <1>2, <1>3 DEF Marked
<1>6. Gate!Finish(Running) /\ Running \in SUBSET Calls
  BY <1>1, <1>4, <1>5 DEF Gate!Finish, Gate!life, world, Running
<1> QED BY <1>6 DEF GateStep, Gate!Next

LEMMA WorldGate ==
  ASSUME UNCHANGED call,
         \/ \E s \in SessionIds : RevokeSession(s) \/ RevokeReturns(s)
         \/ \E S \in SUBSET SessionIds : SessionsExpire(S)
         \/ UNCHANGED <<revoked, expired, acked>>
  PROVE  GateStep
<1>1. Checks' = Checks /\ Marked' = Marked
  BY DEF Checks, Marked
<1>2. CASE \E s \in SessionIds : RevokeSession(s) \/ RevokeReturns(s)
  <2>1. PICK s \in SessionIds : Gate!Revoke(s) \/ Gate!Acknowledge(s)
    BY <1>2 DEF RevokeSession, RevokeReturns, Life!Revoke, Life!Acknowledge,
                Gate!Revoke, Gate!Acknowledge
  <2> QED BY <1>1, <2>1 DEF GateStep, Gate!Next, Gate!LifeStep
<1>3. CASE \E S \in SUBSET SessionIds : SessionsExpire(S)
  <2>1. PICK S \in SUBSET SessionIds : Gate!Expire(S)
    BY <1>3 DEF SessionsExpire, Life!Expire, Gate!Expire
  <2> QED BY <1>1, <2>1 DEF GateStep, Gate!Next, Gate!LifeStep
<1>4. CASE UNCHANGED <<revoked, expired, acked>>
  BY <1>1, <1>4 DEF GateStep, Gate!vars, Gate!life
<1> QED BY <1>2, <1>3, <1>4

(* Every access check, through gRPC or not, looks at its session in the    *)
(* steps of the gate that session.rs implements: the revocation as of its  *)
(* SELECT, the expiry as of its verdict, and no decision without an Ok.    *)
THEOREM ChecksGoThroughGate == Spec => ThroughGate
<1>1. Init => Gate!Init
  <2> SUFFICES ASSUME Init PROVE Gate!Init
    OBVIOUS
  <2>1. \A c \in Calls : call[c].pc = "new"
    BY DEF Init, Unborn
  <2>2. \A c \in Calls : CheckOf(call[c]) = Gate!NoCheck /\ ~FoundRevoked(call[c])
    BY <2>1, CheckNone
  <2>3. Checks = [c \in Calls |-> Gate!NoCheck] /\ Marked = {}
    BY <2>2 DEF Checks, Marked
  <2> QED BY <2>3 DEF Init, Gate!Init, Life!NoneEnded, Gate!NoneEnded
<1>2. GuardInv /\ [Next]_vars => GateStep
  <2> SUFFICES ASSUME GuardInv, [Next]_vars PROVE GateStep
    OBVIOUS
  <2>1. ASSUME NEW c \in Calls,
               CheckAccess(c) \/ CallStep(c) \/ CallDropped(c) \/ DroppedAfterInsert(c)
        PROVE  GateStep
    BY <2>1, CheckAccessGate, CallGate, DroppedGate
  <2>2. CASE \/ \E s \in SessionIds : RevokeSession(s) \/ RevokeReturns(s)
             \/ \E S \in SUBSET SessionIds : SessionsExpire(S)
    <3>1. UNCHANGED call
      BY <2>2 DEF RevokeSession, RevokeReturns, SessionsExpire
    <3> QED BY <2>2, <3>1, WorldGate
  <2>3. CASE (\E b \in Books : CommitPolicies(b)) \/ FlushAudit \/ UNCHANGED vars
    <3>1. UNCHANGED <<call, revoked, expired, acked>>
      BY <2>3 DEF CommitPolicies, FlushAudit, vars, world
    <3> QED BY <3>1, WorldGate
  <2>4. CASE Restart
    BY <2>4, RestartGate
  <2> QED BY <2>1, <2>2, <2>3, <2>4 DEF Next
<1> QED BY <1>1, <1>2, GuardCorrect, PTL DEF Spec, ThroughGate, Gate!Spec, GateStep

=============================================================================
