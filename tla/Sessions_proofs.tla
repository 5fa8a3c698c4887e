-------------------------- MODULE Sessions_proofs --------------------------
(***************************************************************************)
(* Proofs about the tokens and rows of module Sessions, for any number of  *)
(* sessions and clients and for every ttl, leeway and length of a second:  *)
(* a revoked or expired session is not accepted, a refusal is deserved,    *)
(* and the module implements SessionGate.  TokenInv is the inductive       *)
(* invariant.                                                              *)
(***************************************************************************)
EXTENDS Sessions, TLAPS

-----------------------------------------------------------------------------
(* The inductive invariant behind the theorems.                            *)

(* The id of a session about to be inserted belongs to nobody else.        *)
IdsFresh ==
  \A c \in Clients : call[c].pc = "insert" =>
    /\ call[c].op = "create"
    /\ call[c].sid \in SessionIds \ Known
    /\ call[c].row # NoSession
    /\ \A d \in Clients \ {c} : call[d].pc = "insert" => call[d].sid # call[c].sid

(* An acknowledged revocation is in the table, one in flight has a target. *)
RevocationsHold ==
  /\ \A s \in acked : s \in Known /\ sessions[s].revoked
  /\ \A c \in Clients :
       /\ call[c].pc = "update" => call[c].op = "revoke"
       /\ call[c].op = "revoke" /\ call[c].sid # NoSession =>
            /\ call[c].sid \in Known
            /\ call[c].pc = "done" => sessions[call[c].sid].revoked

(* The session is there, and its expires_at has passed.                    *)
PastExpiry(s) == s \in Known /\ sessions[s].expires <= clock

Checking(c) == call[c].pc \in {"decode", "read", "check"}

(* What a check in flight carries was true when it was read, and still is, *)
(* unless the session has been revoked since.                              *)
ChecksSound ==
  \A c \in Clients :
    /\ Checking(c) => /\ call[c].op \in {"validate", "assert"}
                      /\ call[c].result = "none"
                      /\ call[c].sid # NoSession => call[c].sid \in Known
                      /\ call[c].dead => call[c].sid \in acked
                      /\ call[c].late => PastExpiry(call[c].sid)
    /\ call[c].pc = "check" /\ call[c].row = NoSession => call[c].sid = NoSession
    /\ call[c].pc = "check" /\ call[c].row # NoSession =>
         /\ call[c].sid \in Known
         /\ call[c].row.expires = sessions[call[c].sid].expires
         /\ call[c].row.revoked => sessions[call[c].sid].revoked
         /\ call[c].dead => call[c].row.revoked
    /\ call[c].pc = "done" /\ call[c].sid # NoSession => call[c].sid \in Known
    /\ Accepted(c) => call[c].sid # NoSession

TokenInv ==
  /\ TokenTypes
  /\ IdsFresh
  /\ RevocationsHold
  /\ ChecksSound
  /\ RevokedStaysOut
  /\ ExpiredStaysOut
  /\ RejectionsTruthful

(* What holds of one call.                                                 *)
CallInv(c) ==
  /\ call[c].pc = "update" => call[c].op = "revoke"
  /\ call[c].op = "revoke" /\ call[c].sid # NoSession =>
       /\ call[c].sid \in Known
       /\ call[c].pc = "done" => sessions[call[c].sid].revoked
  /\ Checking(c) => /\ call[c].op \in {"validate", "assert"}
                    /\ call[c].result = "none"
                    /\ call[c].sid # NoSession => call[c].sid \in Known
                    /\ call[c].dead => call[c].sid \in acked
                    /\ call[c].late => PastExpiry(call[c].sid)
  /\ call[c].pc = "check" /\ call[c].row = NoSession => call[c].sid = NoSession
  /\ call[c].pc = "check" /\ call[c].row # NoSession =>
       /\ call[c].sid \in Known
       /\ call[c].row.expires = sessions[call[c].sid].expires
       /\ call[c].row.revoked => sessions[call[c].sid].revoked
       /\ call[c].dead => call[c].row.revoked
  /\ call[c].pc = "done" /\ call[c].sid # NoSession => call[c].sid \in Known
  /\ Accepted(c) => /\ call[c].sid # NoSession
                    /\ ~call[c].dead
                    /\ ~call[c].late
  /\ call[c].pc = "done" /\ call[c].sid # NoSession =>
       /\ call[c].result = "SessionRevoked" => sessions[call[c].sid].revoked
       /\ call[c].result \in {"SessionExpired", "InvalidToken"} =>
            sessions[call[c].sid].expires <= clock

AckedInv == \A s \in acked : s \in Known /\ sessions[s].revoked

Whole == TokenTypes /\ IdsFresh /\ AckedInv /\ \A c \in Clients : CallInv(c)

(* TokenInv, call by call.                                                 *)
LEMMA ByCall == TokenInv <=> Whole
BY DEF Whole, TokenInv, RevocationsHold, ChecksSound, RevokedStaysOut, ExpiredStaysOut,
       RejectionsTruthful, AckedInv, CallInv

-----------------------------------------------------------------------------
(* Numbers.                                                                *)

(* Multiplication by the length of a second keeps the order.               *)
LEMMA TimesMonotone ==
  ASSUME NEW a \in Int, NEW b \in Int, NEW m \in Nat, a <= b
  PROVE  a * m <= b * m
OBVIOUS

(* The ttl survives the two casts.                                         *)
LEMMA CastsCancel ==
  ASSUME NEW ttl \in Ttls
  PROVE  TtlSecs(ttl) = ttl /\ ttl \in Int
<1>1. /\ WordSize \in Nat /\ WordSize > 0 /\ ttl \in Int
      /\ -WordSize <= 2 * ttl /\ 2 * ttl < WordSize
  BY SessionConstants DEF SessionConstants
<1>2. CASE ttl >= 0
  <2>1. ttl % WordSize = ttl
    BY <1>1, <1>2
  <2> QED BY <1>1, <1>2, <2>1 DEF TtlSecs, AsSigned, AsUnsigned
<1>3. CASE ttl < 0
  <2>1. ttl % WordSize = ttl + WordSize
    BY <1>1, <1>3
  <2> QED BY <1>1, <1>3, <2>1 DEF TtlSecs, AsSigned, AsUnsigned
<1> QED BY <1>1, <1>2, <1>3

(* The rows create_session makes are rows of the table's type.             *)
LEMMA ExpiryTyped ==
  ASSUME NEW now \in 0..MaxClock, NEW ttl \in Ttls, TtlInRange(ttl)
  PROVE  ExpiresAt(now, ttl) \in Expiries
<1>1. /\ TtlSecs(ttl) \in Int /\ TtlSecs(ttl) <= MaxTtl /\ -MaxTtl <= TtlSecs(ttl)
      /\ MaxTtl \in Nat /\ MsPerSec \in Nat /\ MaxClock \in Nat
  BY CastsCancel, SessionConstants DEF SessionConstants, TtlInRange
<1>2. TtlSecs(ttl) * MsPerSec <= MaxTtl * MsPerSec
  BY <1>1, TimesMonotone
<1>3. (-MaxTtl) * MsPerSec <= TtlSecs(ttl) * MsPerSec
  BY <1>1, TimesMonotone
<1>4. (-MaxTtl) * MsPerSec = -(MaxTtl * MsPerSec)
  BY <1>1
<1>5. /\ TtlSecs(ttl) * MsPerSec \in Int /\ MaxTtl * MsPerSec \in Int
  BY <1>1
<1> QED BY <1>1, <1>2, <1>3, <1>4, <1>5 DEF ExpiresAt, Expiries

(* Whole seconds keep the order of milliseconds.                           *)
LEMMA SecondsMonotone ==
  ASSUME NEW a \in Int, NEW b \in Int, a <= b
  PROVE  Seconds(a) <= Seconds(b) /\ Seconds(a) \in Int /\ Seconds(b) \in Int
<1>1. MsPerSec \in Nat /\ MsPerSec > 0
  BY SessionConstants DEF SessionConstants
<1> DEFINE p == a \div MsPerSec
           q == b \div MsPerSec
<1>2. p \in Int /\ p * MsPerSec <= a /\ a < p * MsPerSec + MsPerSec
  BY <1>1
<1>3. q \in Int /\ q * MsPerSec <= b /\ b < q * MsPerSec + MsPerSec
  BY <1>1
<1>4. ASSUME q < p PROVE FALSE
  <2>1. (q + 1) * MsPerSec <= p * MsPerSec
    BY <1>1, <1>2, <1>3, <1>4, TimesMonotone
  <2>2. (q + 1) * MsPerSec = q * MsPerSec + MsPerSec
    BY <1>1, <1>3
  <2>3. q * MsPerSec \in Int /\ p * MsPerSec \in Int
    BY <1>1, <1>2, <1>3
  <2> HIDE DEF p, q
  <2> QED BY <1>1, <1>2, <1>3, <2>1, <2>2, <2>3
<1> HIDE DEF p, q
<1>5. p <= q
  BY <1>2, <1>3, <1>4
<1> QED BY <1>2, <1>3, <1>5 DEF p, q, Seconds

(* A time of the program is worth at most as many seconds as milliseconds. *)
LEMMA SecondsSmall ==
  ASSUME NEW a \in Nat
  PROVE  Seconds(a) \in 0..a
<1>1. MsPerSec \in Nat /\ MsPerSec > 0
  BY SessionConstants DEF SessionConstants
<1> DEFINE p == a \div MsPerSec
<1>2. p \in Int /\ p * MsPerSec <= a /\ a < p * MsPerSec + MsPerSec
  BY <1>1
<1>3. ASSUME p < 0 PROVE FALSE
  <2>1. (p + 1) * MsPerSec <= 0 * MsPerSec
    BY <1>1, <1>2, <1>3, TimesMonotone
  <2>2. (p + 1) * MsPerSec = p * MsPerSec + MsPerSec /\ p * MsPerSec \in Int
    BY <1>1, <1>2
  <2> HIDE DEF p
  <2> QED BY <1>1, <1>2, <2>1, <2>2
<1>4. p >= 0
  BY <1>2, <1>3
<1>5. 1 * p <= MsPerSec * p
  BY <1>1, <1>2, <1>4, TimesMonotone
<1> HIDE DEF p
<1>6. MsPerSec * p = p * MsPerSec /\ p * MsPerSec \in Int
  BY <1>1, <1>2
<1>7. p <= a
  BY <1>2, <1>5, <1>6
<1> QED BY <1>2, <1>4, <1>7 DEF p, Seconds

(* The JWT of a row that has not expired is not expired either.            *)
LEMMA JwtOutlivesRow ==
  ASSUME TokenTypes, NEW row \in Row, JwtExpired(row)
  PROVE  row.expires <= clock
<1>1. /\ clock \in Nat /\ clock <= MaxClock /\ row.expires \in Int
      /\ row.expires <= MaxClock + MaxTtl * MsPerSec
      /\ MaxTtl \in Nat /\ MsPerSec \in Nat /\ MsPerSec > 0 /\ MaxClock \in Nat
      /\ WordSize \in Nat /\ WordSize > 2 * (MaxClock + MaxTtl) /\ Leeway \in Nat
  BY SessionConstants DEF SessionConstants, TokenTypes, Row, Expiries
<1>2. SUFFICES ASSUME row.expires > clock PROVE FALSE
  BY <1>1
<1>3. /\ Seconds(clock) <= Seconds(row.expires)
      /\ Seconds(clock) \in Int /\ Seconds(row.expires) \in Int
  BY <1>1, <1>2, SecondsMonotone
<1>4. Seconds(clock) \in Nat
  BY <1>1, SecondsSmall
<1>5. Seconds(row.expires) <= MaxClock + MaxTtl
  <2>1. Seconds(row.expires) * MsPerSec <= row.expires
    BY <1>1 DEF Seconds
  <2>2. ASSUME Seconds(row.expires) >= MaxClock + MaxTtl + 1 PROVE FALSE
    <3>1. (MaxClock + MaxTtl + 1) * MsPerSec <= Seconds(row.expires) * MsPerSec
      BY <1>1, <1>3, <2>2, TimesMonotone
    <3>2. (MaxClock + MaxTtl + 1) * MsPerSec
            = (MaxClock + 1) * MsPerSec + MaxTtl * MsPerSec
      BY <1>1
    <3>3. 1 * (MaxClock + 1) <= MsPerSec * (MaxClock + 1)
      BY <1>1, TimesMonotone
    <3>4. MsPerSec * (MaxClock + 1) = (MaxClock + 1) * MsPerSec
      BY <1>1
    <3>5. /\ (MaxClock + 1) * MsPerSec \in Int /\ MaxTtl * MsPerSec \in Int
          /\ Seconds(row.expires) * MsPerSec \in Int
      BY <1>1, <1>3
    <3>6. MaxClock + 1 <= (MaxClock + 1) * MsPerSec
      BY <1>1, <3>3, <3>4
    <3> QED BY <1>1, <2>1, <3>1, <3>2, <3>5, <3>6
  <2> QED BY <1>1, <1>3, <2>2
<1>6. Seconds(row.expires) \in 0 .. (WordSize - 1)
  BY <1>1, <1>3, <1>4, <1>5
<1>7. ExpClaim(row) = Seconds(row.expires)
  <2>1. \A n \in 0 .. (WordSize - 1) : n % WordSize = n
    BY <1>1
  <2> QED BY <1>6, <2>1 DEF ExpClaim, AsUnsigned
<1> QED BY <1>1, <1>3, <1>7 DEF JwtExpired

-----------------------------------------------------------------------------
(* The step of one client.                                                 *)

(* The table and the acknowledgements only gain, and time goes on.         *)
Grows ==
  /\ \A s \in Known : /\ s \in Known'
                      /\ sessions'[s].expires = sessions[s].expires
                      /\ sessions[s].revoked => sessions'[s].revoked
  /\ acked \subseteq acked'
  /\ clock <= clock'

(* What holds of a call that does not move keeps holding.                  *)
LEMMA Untouched ==
  ASSUME TokenTypes, TokenTypes', Grows, NEW c \in Clients, CallInv(c), call'[c] = call[c]
  PROVE  CallInv(c)'
<1>1. /\ clock \in Int /\ clock' \in Int /\ clock <= clock'
      /\ \A s \in Known : sessions[s].expires \in Int
  BY SessionConstants DEF TokenTypes, CallType, Row, Expiries, Known, Grows, SessionConstants
<1>2. /\ \A s \in Known : /\ s \in Known'
                          /\ sessions'[s].expires = sessions[s].expires
                          /\ sessions[s].revoked => sessions'[s].revoked
      /\ acked \subseteq acked'
  BY DEF Grows
<1> QED BY <1>1, <1>2 DEF CallInv, Checking, Accepted, PastExpiry

(* Nobody's id is taken when no session is created.                        *)
LEMMA FreshKept ==
  ASSUME IdsFresh, Known' \subseteq Known, NEW c \in Clients,
         \A d \in Clients \ {c} : call'[d] = call[d], call'[c].pc # "insert"
  PROVE  IdsFresh'
BY DEF IdsFresh

(* A step that leaves the table alone and moves one call.                  *)
LEMMA OneCall ==
  ASSUME TokenInv, UNCHANGED <<clock, sessions, acked>>,
         NEW c \in Clients, NEW v \in CallType, call' = [call EXCEPT ![c] = v],
         v.pc # "insert", CallInv(c)'
  PROVE  TokenInv'
<1>1. TokenTypes /\ IdsFresh /\ AckedInv /\ \A d \in Clients : CallInv(d)
  BY ByCall DEF Whole
<1>2. TokenTypes'
  BY <1>1 DEF TokenTypes, Row
<1>3. /\ call'[c] = v
      /\ \A d \in Clients \ {c} : call'[d] = call[d]
  BY <1>1 DEF TokenTypes
<1>4. Grows
  BY <1>1, SessionConstants DEF Grows, Known, TokenTypes, SessionConstants
<1>5. IdsFresh'
  BY <1>1, <1>3, FreshKept DEF Known
<1>6. AckedInv'
  BY <1>1 DEF AckedInv, Known
<1>7. \A d \in Clients : CallInv(d)'
  BY <1>1, <1>2, <1>3, <1>4, Untouched
<1>8. Whole'
  BY <1>2, <1>5, <1>6, <1>7 DEF Whole
<1> QED BY <1>8, ByCall, PTL

(* The fields of a new call.                                               *)
LEMMA CallFields ==
  ASSUME NEW op, NEW pc, NEW sid, NEW row, NEW late, NEW dead
  PROVE  LET v == Call(op, pc, sid, row, late, dead)
         IN  /\ v.op = op /\ v.pc = pc /\ v.sid = sid /\ v.row = row
             /\ v.late = late /\ v.dead = dead /\ v.result = "none"
BY DEF Call

LEMMA CallTyped ==
  ASSUME NEW op \in {"none", "create", "validate", "assert", "revoke"},
         NEW pc \in {"idle", "insert", "decode", "read", "check", "update", "done"},
         NEW sid \in SessionIds \cup {NoSession}, NEW row \in Row \cup {NoSession},
         NEW late \in BOOLEAN, NEW dead \in BOOLEAN
  PROVE  Call(op, pc, sid, row, late, dead) \in CallType
BY DEF Call, CallType, Results

(* A membership is a truth value.                                          *)
LEMMA Truth == \A s, S : \E b \in BOOLEAN : b = (s \in S)
<1> SUFFICES ASSUME NEW s, NEW S PROVE \E b \in BOOLEAN : b = (s \in S)
  OBVIOUS
<1>1. CASE s \in S
  <2>1. TRUE = (s \in S)
    BY <1>1, Zenon
  <2> QED BY <2>1, Zenon
<1>2. CASE s \notin S
  <2>1. FALSE = (s \in S)
    BY <1>2
  <2> QED BY <2>1, Zenon
<1> QED BY <1>1, <1>2, Zenon

(* A check starts with what is true at this moment.                        *)
LEMMA CheckOpens ==
  ASSUME TokenTypes, NEW c \in Clients, ValidateSession(c) \/ AssertSessionActive(c)
  PROVE  \E v \in CallType :
           /\ call' = [call EXCEPT ![c] = v]
           /\ v.op \in SessionChecks /\ v.pc \in {"decode", "read"} /\ v.sid \in Presented
           /\ v.row = NoSession /\ v.result = "none"
           /\ v.late => v.sid \in Expired
           /\ v.dead => v.sid \in acked
<1>2. PICK op \in {"validate", "assert"} : StartCheck(c, op)
  BY DEF ValidateSession, AssertSessionActive
<1> DEFINE pc == IF op = "validate" THEN "decode" ELSE "read"
<1>3. PICK s \in Presented :
        call' = [call EXCEPT ![c] = Call(op, pc, s, NoSession, s \in Expired, s \in acked)]
  BY <1>2, Zenon DEF StartCheck
<1>4. PICK late \in BOOLEAN, dead \in BOOLEAN : late = (s \in Expired) /\ dead = (s \in acked)
  BY Truth, Zenon
<1> DEFINE v == Call(op, pc, s, NoSession, late, dead)
<1>5. call' = [call EXCEPT ![c] = v]
  BY <1>3, <1>4, Zenon
<1>6. s \in SessionIds \cup {NoSession}
  BY DEF Presented, Known
<1>7. pc \in {"decode", "read"}
  OBVIOUS
<1> HIDE DEF pc
<1>8. v \in CallType
  BY <1>6, <1>7, CallTyped
<1>9. v.pc \in {"decode", "read"} /\ v.op = op /\ v.sid = s /\ v.late = late
      /\ v.result = "none" /\ v.row = NoSession /\ v.dead = dead
  BY <1>7, CallFields
<1> HIDE DEF v
<1>10. (v.late => v.sid \in Expired) /\ (v.dead => v.sid \in acked)
  BY <1>4, <1>9
<1> QED BY <1>5, <1>8, <1>9, <1>10 DEF SessionChecks

LEMMA CheckStarts ==
  ASSUME TokenInv, NEW c \in Clients, ValidateSession(c) \/ AssertSessionActive(c)
  PROVE  TokenInv'
<1>1. TokenTypes /\ UNCHANGED <<clock, sessions, acked>>
  BY ByCall DEF Whole, ValidateSession, AssertSessionActive, StartCheck
<1>2. PICK v \in CallType :
        /\ call' = [call EXCEPT ![c] = v]
        /\ v.op \in SessionChecks /\ v.pc \in {"decode", "read"} /\ v.sid \in Presented
        /\ v.result = "none"
        /\ v.late => v.sid \in Expired
        /\ v.dead => v.sid \in acked
  BY <1>1, CheckOpens
<1>3. call'[c] = v
  BY <1>1, <1>2 DEF TokenTypes
<1>4. CallInv(c)'
  <2>1. v.late => PastExpiry(v.sid)
    BY <1>2 DEF Expired, PastExpiry
  <2>2. v.sid # NoSession => v.sid \in Known
    BY <1>2 DEF Presented
  <2> QED BY <1>1, <1>2, <1>3, <2>1, <2>2
          DEF CallInv, Checking, Accepted, Known, SessionChecks, PastExpiry
<1> QED BY <1>1, <1>2, <1>4, OneCall

(* What an answer makes of a call.                                         *)
LEMMA Answered ==
  ASSUME TokenTypes, NEW c \in Clients, NEW r \in Results, Answer(c, r)
  PROVE  \E v \in CallType :
           /\ call' = [call EXCEPT ![c] = v]
           /\ call'[c] = v
           /\ v.pc = "done" /\ v.result = r /\ v.row = NoSession
           /\ v.op = call[c].op /\ v.sid = call[c].sid
           /\ v.late = call[c].late /\ v.dead = call[c].dead
<1> DEFINE v == [call[c] EXCEPT !.pc = "done", !.row = NoSession, !.result = r]
<1>1. call[c] \in CallType /\ call \in [Clients -> CallType]
  BY DEF TokenTypes
<1>2. v \in CallType
  BY <1>1 DEF CallType
<1>3. call' = [call EXCEPT ![c] = v]
  BY <1>1 DEF Answer, CallType
<1>4. call'[c] = v
  BY <1>1, <1>3
<1>5. /\ v.pc = "done" /\ v.result = r /\ v.row = NoSession
      /\ v.op = call[c].op /\ v.sid = call[c].sid
      /\ v.late = call[c].late /\ v.dead = call[c].dead
  BY <1>1 DEF CallType
<1> HIDE DEF v
<1> QED BY <1>2, <1>3, <1>4, <1>5

(* An expired JWT belongs to an expired row.                               *)
LEMMA DeadToken ==
  ASSUME TokenTypes, NEW c \in Clients, CallInv(c), call[c].pc = "decode",
         RowOf(call[c].sid) = NoSession \/ JwtExpired(RowOf(call[c].sid))
  PROVE  call[c].sid # NoSession =>
           call[c].sid \in Known /\ sessions[call[c].sid].expires <= clock
<1> SUFFICES ASSUME call[c].sid # NoSession
             PROVE  call[c].sid \in Known /\ sessions[call[c].sid].expires <= clock
  OBVIOUS
<1>1. call[c].sid \in Known
  BY DEF CallInv, Checking
<1>2. RowOf(call[c].sid) = sessions[call[c].sid] /\ sessions[call[c].sid] \in Row
      /\ sessions[call[c].sid] # NoSession
  BY <1>1 DEF Known, RowOf, TokenTypes
<1>3. JwtExpired(sessions[call[c].sid])
  BY <1>2
<1> QED BY <1>1, <1>2, <1>3, JwtOutlivesRow

(* decode: the token is refused, or the row is asked for.                  *)
LEMMA DecodeStep ==
  ASSUME TokenInv, NEW c \in Clients, DecodeToken(c)
  PROVE  TokenInv'
<1>1. TokenTypes /\ CallInv(c)
  BY ByCall DEF Whole
<1>2. UNCHANGED <<clock, sessions, acked>> /\ call[c].pc = "decode"
  BY DEF DecodeToken
<1>3. CASE RowOf(call[c].sid) = NoSession \/ JwtExpired(RowOf(call[c].sid))
  <2>1. Answer(c, "InvalidToken")
    BY <1>3 DEF DecodeToken
  <2>2. PICK v \in CallType :
           /\ call' = [call EXCEPT ![c] = v]
           /\ call'[c] = v
           /\ v.pc = "done" /\ v.result = "InvalidToken"
           /\ v.op = call[c].op /\ v.sid = call[c].sid
    BY <1>1, <2>1, Answered DEF Results
  <2>3. call[c].sid # NoSession =>
          call[c].sid \in Known /\ sessions[call[c].sid].expires <= clock
    BY <1>1, <1>2, <1>3, DeadToken
  <2>4. call[c].op \in {"validate", "assert"}
    BY <1>1, <1>2 DEF CallInv, Checking
  <2>5. CallInv(c)'
    BY <1>2, <2>2, <2>3, <2>4 DEF CallInv, Checking, Accepted, Known
  <2> QED BY <1>2, <2>2, <2>5, OneCall
<1>4. CASE ~(RowOf(call[c].sid) = NoSession \/ JwtExpired(RowOf(call[c].sid)))
  <2> DEFINE v == [call[c] EXCEPT !.pc = "read"]
  <2>1. call[c] \in CallType /\ call \in [Clients -> CallType]
    BY <1>1 DEF TokenTypes
  <2>2. call' = [call EXCEPT ![c] = v] /\ call'[c] = v
    BY <1>4, <2>1 DEF DecodeToken
  <2>3. v \in CallType
    BY <2>1 DEF CallType
  <2>4. /\ v.pc = "read" /\ v.op = call[c].op /\ v.sid = call[c].sid
        /\ v.result = call[c].result /\ v.late = call[c].late /\ v.dead = call[c].dead
    BY <2>1 DEF CallType
  <2> HIDE DEF v
  <2>5. CallInv(c)'
    BY <1>1, <1>2, <2>2, <2>4 DEF CallInv, Checking, Accepted, Known, PastExpiry
  <2> QED BY <1>2, <2>2, <2>3, <2>4, <2>5, OneCall
<1> QED BY <1>3, <1>4

(* The row read: it is dead if its revocation was acknowledged before.     *)
LEMMA ReadStep ==
  ASSUME TokenInv, NEW c \in Clients, ReadRow(c)
  PROVE  TokenInv'
<1>1. TokenTypes /\ CallInv(c) /\ AckedInv
  BY ByCall DEF Whole
<1>2. UNCHANGED <<clock, sessions, acked>> /\ call[c].pc = "read"
  BY DEF ReadRow
<1> DEFINE row == RowOf(call[c].sid)
           v == [call[c] EXCEPT !.pc = "check", !.row = row]
<1>3. call[c] \in CallType /\ call \in [Clients -> CallType]
  BY <1>1 DEF TokenTypes
<1>4. call' = [call EXCEPT ![c] = v] /\ call'[c] = v
  BY <1>3 DEF ReadRow
<1>5. row \in Row \cup {NoSession}
  BY <1>1 DEF RowOf, TokenTypes
<1>6. /\ row # NoSession => call[c].sid \in Known /\ row = sessions[call[c].sid]
      /\ row = NoSession => call[c].sid \notin Known
  BY SessionConstants DEF SessionConstants, RowOf, Known
<1> HIDE DEF row
<1>7. v \in CallType
  BY <1>3, <1>5 DEF CallType
<1>8. /\ v.pc = "check" /\ v.op = call[c].op /\ v.sid = call[c].sid /\ v.row = row
      /\ v.result = call[c].result /\ v.late = call[c].late /\ v.dead = call[c].dead
  BY <1>3 DEF CallType
<1> HIDE DEF v
<1>9. CallInv(c)'
  <2>1. /\ call[c].op \in {"validate", "assert"} /\ call[c].result = "none"
        /\ call[c].sid # NoSession => call[c].sid \in Known
        /\ call[c].dead => call[c].sid \in acked
        /\ call[c].late => PastExpiry(call[c].sid)
    BY <1>1, <1>2 DEF CallInv, Checking
  <2>2. call[c].dead /\ row # NoSession => row.revoked
    BY <1>1, <1>6, <2>1 DEF AckedInv
  <2> QED BY <1>2, <1>4, <1>6, <1>8, <2>1, <2>2
          DEF CallInv, Checking, Accepted, Known, PastExpiry
<1> QED BY <1>2, <1>4, <1>7, <1>8, <1>9, OneCall

(* The verdict on the row.                                                 *)
LEMMA CheckStep ==
  ASSUME TokenInv, NEW c \in Clients, CheckRow(c)
  PROVE  TokenInv'
<1>1. TokenTypes /\ CallInv(c)
  BY ByCall DEF Whole
<1>2. UNCHANGED <<clock, sessions, acked>> /\ call[c].pc = "check"
  BY DEF CheckRow
<1> DEFINE row == call[c].row
           r == IF row = NoSession THEN "InvalidToken" ELSE Checked(row)
<1>3. /\ row \in Row \cup {NoSession}
      /\ clock \in Int
      /\ row # NoSession => row.expires \in Int /\ row.revoked \in BOOLEAN
  BY <1>1, SessionConstants DEF TokenTypes, CallType, Row, Expiries, SessionConstants
<1>4. /\ row = NoSession => r = "InvalidToken"
      /\ row # NoSession =>
           \/ r = "SessionRevoked" /\ row.revoked
           \/ r = "SessionExpired" /\ row.expires <= clock
           \/ r = "Ok" /\ ~row.revoked /\ clock < row.expires
  BY <1>3 DEF Checked
<1>5. Answer(c, r)
  BY DEF CheckRow
<1> HIDE DEF r, row
<1>6. r \in Results
  BY <1>4 DEF Results
<1>7. PICK v \in CallType :
         /\ call' = [call EXCEPT ![c] = v]
         /\ call'[c] = v
         /\ v.pc = "done" /\ v.result = r
         /\ v.op = call[c].op /\ v.sid = call[c].sid
         /\ v.late = call[c].late /\ v.dead = call[c].dead
  BY <1>1, <1>5, <1>6, Answered
<1>8. /\ call[c].op \in {"validate", "assert"}
      /\ call[c].late => sessions[call[c].sid].expires <= clock
      /\ row = NoSession => call[c].sid = NoSession
      /\ row # NoSession =>
           /\ call[c].sid \in Known
           /\ row.expires = sessions[call[c].sid].expires
           /\ row.revoked => sessions[call[c].sid].revoked
           /\ call[c].dead => row.revoked
  BY <1>1, <1>2 DEF CallInv, Checking, PastExpiry, row
<1>9. CallInv(c)'
  <2>1. CASE row = NoSession
    BY <1>2, <1>4, <1>7, <1>8, <2>1 DEF CallInv, Checking, Accepted, Known
  <2>2. CASE row # NoSession
    <3>1. call[c].sid # NoSession
      BY <1>8, <2>2, SessionConstants DEF Known, SessionConstants
    <3> QED BY <1>2, <1>3, <1>4, <1>7, <1>8, <2>2, <3>1
            DEF CallInv, Checking, Accepted, Known
  <2> QED BY <2>1, <2>2
<1> QED BY <1>2, <1>7, <1>9, OneCall

(* A revocation starts.                                                    *)
LEMMA RevokeStep ==
  ASSUME TokenInv, NEW c \in Clients, RevokeSession(c)
  PROVE  TokenInv'
<1>1. TokenTypes
  BY ByCall DEF Whole
<1>2. PICK s \in Presented :
        call' = [call EXCEPT ![c] = Call("revoke", "update", s, NoSession, FALSE, FALSE)]
  BY DEF RevokeSession
<1> DEFINE v == Call("revoke", "update", s, NoSession, FALSE, FALSE)
<1>3. v \in CallType
  <2>1. s \in SessionIds \cup {NoSession} /\ FALSE \in BOOLEAN
    BY DEF Presented, Known
  <2> QED BY <2>1, CallTyped
<1>4. v.pc = "update" /\ v.op = "revoke" /\ v.sid = s
  BY DEF Call
<1> HIDE DEF v
<1>5. call' = [call EXCEPT ![c] = v] /\ call'[c] = v /\ UNCHANGED <<clock, sessions, acked>>
  BY <1>1, <1>2 DEF RevokeSession, TokenTypes, v
<1>6. CallInv(c)'
  BY <1>4, <1>5 DEF CallInv, Checking, Accepted, Presented, Known
<1> QED BY <1>3, <1>4, <1>5, <1>6, OneCall

(* A client that goes idle, with or without an answer.                     *)
LEMMA IdleCall ==
  ASSUME TokenTypes, NEW c \in Clients, call' = [call EXCEPT ![c] = Idle]
  PROVE  call'[c] = Idle /\ CallInv(c)' /\ Idle \in CallType /\ Idle.pc = "idle"
<1>1. FALSE \in BOOLEAN
  OBVIOUS
<1>2. Idle \in CallType
  BY <1>1, CallTyped DEF Idle
<1>3. Idle.pc = "idle" /\ Idle.op = "none"
  BY DEF Idle, Call
<1>4. call'[c] = Idle
  BY DEF TokenTypes
<1>5. CallInv(c)'
  BY <1>3, <1>4 DEF CallInv, Checking, Accepted
<1> QED BY <1>2, <1>3, <1>4, <1>5

LEMMA AbortStep ==
  ASSUME TokenInv, NEW c \in Clients, CallAborted(c)
  PROVE  TokenInv'
<1>1. TokenTypes
  BY ByCall DEF Whole
<1>2. call' = [call EXCEPT ![c] = Idle] /\ UNCHANGED <<clock, sessions, acked>>
  BY DEF CallAborted
<1>3. call'[c] = Idle /\ CallInv(c)' /\ Idle \in CallType /\ Idle.pc # "insert"
  BY <1>1, <1>2, IdleCall
<1> QED BY <1>2, <1>3, OneCall

(* The answer reaches the caller; a revocation is acknowledged.            *)
LEMMA ReturnStep ==
  ASSUME TokenInv, NEW c \in Clients, Return(c)
  PROVE  TokenInv'
<1>1. TokenTypes /\ IdsFresh /\ AckedInv /\ \A d \in Clients : CallInv(d)
  BY ByCall DEF Whole
<1>2. call' = [call EXCEPT ![c] = Idle] /\ UNCHANGED <<clock, sessions>>
  BY DEF Return
<1>3. call'[c] = Idle /\ CallInv(c)' /\ Idle \in CallType /\ Idle.pc # "insert"
  BY <1>1, <1>2, IdleCall
<1>4. \A d \in Clients \ {c} : call'[d] = call[d]
  BY <1>1, <1>2 DEF TokenTypes
<1>5. acked \subseteq acked' /\ acked' \subseteq SessionIds
  BY <1>1 DEF Return, TokenTypes
<1>6. TokenTypes'
  BY <1>1, <1>2, <1>3, <1>5 DEF TokenTypes, Row
<1>7. Grows
  BY <1>1, <1>2, <1>5, SessionConstants DEF Grows, Known, TokenTypes, SessionConstants
<1>8. AckedInv'
  <2>1. ASSUME NEW s \in acked', s \notin acked
        PROVE  s \in Known /\ sessions[s].revoked
    <3>1. call[c].pc = "done" /\ call[c].op = "revoke" /\ s = call[c].sid /\ s \in SessionIds
      BY <2>1 DEF Return
    <3>2. s # NoSession
      BY <3>1, SessionConstants DEF SessionConstants
    <3> QED BY <1>1, <3>1, <3>2 DEF CallInv
  <2> QED BY <1>1, <1>2, <2>1 DEF AckedInv, Known
<1>9. IdsFresh'
  BY <1>1, <1>2, <1>3, <1>4, FreshKept DEF Known
<1>10. \A d \in Clients : CallInv(d)'
  BY <1>1, <1>3, <1>4, <1>6, <1>7, Untouched
<1>11. Whole'
  BY <1>6, <1>8, <1>9, <1>10 DEF Whole
<1> QED BY <1>11, ByCall, PTL

(* A session is made: its id is nobody's.                                  *)
LEMMA CreateStep ==
  ASSUME TokenInv, NEW c \in Clients, CreateSession(c)
  PROVE  TokenInv'
<1>1. TokenTypes /\ IdsFresh /\ AckedInv /\ \A d \in Clients : CallInv(d)
  BY ByCall DEF Whole
<1>2. PICK s \in SessionIds \ (Known \cup Reserved), ttl \in Ttls :
        /\ TtlInRange(ttl)
        /\ call' = [call EXCEPT ![c] =
             Call("create", "insert", s,
                  [made |-> clock, expires |-> ExpiresAt(clock, ttl), revoked |-> FALSE],
                  FALSE, FALSE)]
  BY DEF CreateSession
<1> DEFINE row == [made |-> clock, expires |-> ExpiresAt(clock, ttl), revoked |-> FALSE]
           v == Call("create", "insert", s, row, FALSE, FALSE)
<1>3. row \in Row /\ row # NoSession
  <2>1. clock \in 0..MaxClock
    BY <1>1 DEF TokenTypes
  <2>2. ExpiresAt(clock, ttl) \in Expiries
    BY <1>2, <2>1, ExpiryTyped
  <2>3. row \in Row
    BY <2>1, <2>2 DEF Row
  <2> QED BY <2>3, NoSessionIsNoRow
<1> HIDE DEF row
<1>4. v \in CallType
  <2>1. FALSE \in BOOLEAN
    OBVIOUS
  <2> QED BY <1>3, <2>1, CallTyped
<1>5. v.pc = "insert" /\ v.op = "create" /\ v.sid = s /\ v.row = row
  BY DEF Call
<1>6. call' = [call EXCEPT ![c] = v]
  BY <1>2 DEF row
<1> HIDE DEF v
<1>7. /\ call'[c] = v /\ UNCHANGED <<clock, sessions, acked>>
      /\ \A d \in Clients \ {c} : call'[d] = call[d]
  BY <1>1, <1>6 DEF CreateSession, TokenTypes
<1>8. TokenTypes'
  BY <1>1, <1>4, <1>6, <1>7 DEF TokenTypes, Row
<1>9. Grows
  BY <1>1, <1>7, SessionConstants DEF Grows, Known, TokenTypes, SessionConstants
<1>10. CallInv(c)'
  BY <1>5, <1>7 DEF CallInv, Checking, Accepted
<1>11. IdsFresh'
  <2>1. \A d \in Clients : call[d].sid # s
    BY <1>2 DEF Reserved
  <2>2. Known' = Known
    BY <1>7 DEF Known
  <2> SUFFICES ASSUME NEW d \in Clients, call'[d].pc = "insert"
               PROVE  /\ call'[d].op = "create"
                      /\ call'[d].sid \in SessionIds \ Known
                      /\ call'[d].row # NoSession
                      /\ \A e \in Clients \ {d} :
                           call'[e].pc = "insert" => call'[e].sid # call'[d].sid
    BY <2>2 DEF IdsFresh
  <2>3. CASE d = c
    BY <1>2, <1>3, <1>5, <1>7, <2>1, <2>3
  <2>4. CASE d # c
    BY <1>1, <1>5, <1>7, <2>1, <2>4 DEF IdsFresh
  <2> QED BY <2>3, <2>4
<1>12. AckedInv'
  BY <1>1, <1>7 DEF AckedInv, Known
<1>13. \A d \in Clients : CallInv(d)'
  BY <1>1, <1>7, <1>8, <1>9, <1>10, Untouched
<1>14. Whole'
  BY <1>8, <1>11, <1>12, <1>13 DEF Whole
<1> QED BY <1>14, ByCall, PTL

(* The INSERT hits no row that is there already.                           *)
LEMMA Inserted ==
  ASSUME TokenInv, NEW c \in Clients, InsertSession(c)
  PROVE  /\ call[c].sid \in SessionIds \ Known /\ call[c].row \in Row
         /\ Known' = Known \cup {call[c].sid}
         /\ sessions' \in [SessionIds -> Row \cup {NoSession}]
         /\ sessions'[call[c].sid] = call[c].row
         /\ \A s \in Known : sessions'[s] = sessions[s]
<1>1. TokenTypes /\ IdsFresh
  BY ByCall DEF Whole
<1> DEFINE sid == call[c].sid
<1>2. call[c].pc = "insert" /\ sessions' = [sessions EXCEPT ![sid] = call[c].row]
  BY DEF InsertSession
<1>3. sid \in SessionIds \ Known /\ call[c].row \in Row /\ call[c].row # NoSession
  <2>1. call[c].row \in Row \cup {NoSession}
    BY <1>1 DEF TokenTypes, CallType
  <2> QED BY <1>1, <1>2, <2>1 DEF IdsFresh
<1>4. /\ sessions'[sid] = call[c].row
      /\ \A s \in SessionIds \ {sid} : sessions'[s] = sessions[s]
      /\ sessions' \in [SessionIds -> Row \cup {NoSession}]
  BY <1>1, <1>2, <1>3 DEF TokenTypes
<1>5. Known' = Known \cup {sid} /\ Known \subseteq SessionIds \ {sid}
  BY <1>3, <1>4 DEF Known
<1> QED BY <1>3, <1>4, <1>5

LEMMA InsertStep ==
  ASSUME TokenInv, NEW c \in Clients, InsertSession(c)
  PROVE  TokenInv'
<1>1. TokenTypes /\ IdsFresh /\ AckedInv /\ \A d \in Clients : CallInv(d)
  BY ByCall DEF Whole
<1> DEFINE sid == call[c].sid
<1>2. call[c].pc = "insert" /\ Answer(c, "Ok") /\ UNCHANGED <<clock, acked>>
  BY DEF InsertSession
<1>3. /\ sid \in SessionIds \ Known
      /\ Known' = Known \cup {sid}
      /\ sessions' \in [SessionIds -> Row \cup {NoSession}]
      /\ \A s \in Known : sessions'[s] = sessions[s]
      /\ \A d \in Clients \ {c} : call[d].pc = "insert" => call[d].sid # sid
  BY <1>1, <1>2, Inserted DEF IdsFresh
<1>4. PICK v \in CallType :
         /\ call' = [call EXCEPT ![c] = v]
         /\ call'[c] = v
         /\ v.pc = "done" /\ v.result = "Ok"
         /\ v.op = call[c].op /\ v.sid = sid
  BY <1>1, <1>2, Answered DEF Results
<1>5. \A d \in Clients \ {c} : call'[d] = call[d]
  BY <1>1, <1>4 DEF TokenTypes
<1> HIDE DEF sid
<1>6. TokenTypes'
  BY <1>1, <1>2, <1>3, <1>4 DEF TokenTypes
<1>7. Grows
  BY <1>1, <1>2, <1>3, SessionConstants DEF Grows, TokenTypes, SessionConstants
<1>8. CallInv(c)'
  <2>1. call[c].op = "create"
    BY <1>1, <1>2 DEF IdsFresh
  <2> QED BY <1>3, <1>4, <2>1 DEF CallInv, Checking, Accepted
<1>9. IdsFresh'
  BY <1>1, <1>3, <1>4, <1>5 DEF IdsFresh
<1>10. AckedInv'
  BY <1>1, <1>2, <1>3 DEF AckedInv
<1>11. \A d \in Clients : CallInv(d)'
  BY <1>1, <1>5, <1>6, <1>7, <1>8, Untouched
<1>12. Whole'
  BY <1>6, <1>9, <1>10, <1>11 DEF Whole
<1> QED BY <1>12, ByCall, PTL

(* The UPDATE sets one flag and nothing else.                              *)
LEMMA Updated ==
  ASSUME TokenInv, NEW c \in Clients, UpdateRevoked(c)
  PROVE  /\ call[c].op = "revoke"
         /\ call[c].sid # NoSession => call[c].sid \in Known /\ sessions'[call[c].sid].revoked
         /\ sessions' \in [SessionIds -> Row \cup {NoSession}]
         /\ Known' = Known
         /\ \A s \in Known \ {call[c].sid} : sessions'[s] = sessions[s]
         /\ \A s \in Known : sessions'[s].expires = sessions[s].expires
<1>1. TokenTypes /\ CallInv(c)
  BY ByCall DEF Whole
<1> DEFINE sid == call[c].sid
<1>2. /\ call[c].pc = "update"
      /\ sessions' = [s \in SessionIds |->
           IF s = sid THEN [sessions[s] EXCEPT !.revoked = TRUE] ELSE sessions[s]]
  BY DEF UpdateRevoked
<1>3. call[c].op = "revoke" /\ (sid # NoSession => sid \in Known)
  BY <1>1, <1>2 DEF CallInv
<1> SUFFICES /\ sid # NoSession => sessions'[sid].revoked
             /\ sessions' \in [SessionIds -> Row \cup {NoSession}]
             /\ Known' = Known
             /\ \A s \in Known \ {sid} : sessions'[s] = sessions[s]
             /\ \A s \in Known : sessions'[s].expires = sessions[s].expires
  BY <1>3
<1> HIDE DEF sid
<1>4. \A s \in SessionIds \ {sid} : sessions'[s] = sessions[s]
  BY <1>2
<1>5. ASSUME sid # NoSession
      PROVE  /\ sessions'[sid] \in Row /\ sessions'[sid].revoked
             /\ sessions'[sid].expires = sessions[sid].expires
  <2>1. sid \in SessionIds /\ sessions[sid] \in Row
    BY <1>1, <1>3, <1>5 DEF Known, TokenTypes
  <2>2. sessions'[sid] = [sessions[sid] EXCEPT !.revoked = TRUE]
    BY <1>2, <2>1
  <2> QED BY <2>1, <2>2 DEF Row
<1>6. sessions' \in [SessionIds -> Row \cup {NoSession}]
  <2>1. \A s \in SessionIds : sessions'[s] \in Row \cup {NoSession}
    BY <1>1, <1>4, <1>5, SessionConstants DEF TokenTypes, SessionConstants
  <2>2. /\ DOMAIN sessions' = SessionIds
        /\ sessions' = [s \in DOMAIN sessions' |-> sessions'[s]]
    BY <1>2
  <2> QED BY <2>1, <2>2
<1>7. Known' = Known
  <2>1. ASSUME NEW s \in SessionIds PROVE (sessions'[s] # NoSession) <=> (sessions[s] # NoSession)
    <3>1. CASE s = sid
      <4>1. s # NoSession
        BY SessionConstants DEF SessionConstants
      <4> QED BY <1>3, <1>5, <3>1, <4>1, NoSessionIsNoRow DEF Known
    <3>2. CASE s # sid
      BY <1>4, <3>2
    <3> QED BY <3>1, <3>2
  <2> QED BY <2>1 DEF Known
<1>8. /\ \A s \in Known \ {sid} : sessions'[s] = sessions[s]
      /\ \A s \in Known : sessions'[s].expires = sessions[s].expires
  BY <1>4, <1>5, SessionConstants DEF Known, SessionConstants
<1> QED BY <1>5, <1>6, <1>7, <1>8

LEMMA UpdateStep ==
  ASSUME TokenInv, NEW c \in Clients, UpdateRevoked(c)
  PROVE  TokenInv'
<1>1. TokenTypes /\ IdsFresh /\ AckedInv /\ \A d \in Clients : CallInv(d)
  BY ByCall DEF Whole
<1> DEFINE sid == call[c].sid
<1>2. call[c].pc = "update" /\ Answer(c, "Ok") /\ UNCHANGED <<clock, acked>>
  BY DEF UpdateRevoked
<1>3. /\ call[c].op = "revoke"
      /\ sid # NoSession => sid \in Known /\ sessions'[sid].revoked
      /\ sessions' \in [SessionIds -> Row \cup {NoSession}]
      /\ Known' = Known
      /\ \A s \in Known \ {sid} : sessions'[s] = sessions[s]
      /\ \A s \in Known : sessions'[s].expires = sessions[s].expires
  BY Updated
<1>4. PICK v \in CallType :
         /\ call' = [call EXCEPT ![c] = v]
         /\ call'[c] = v
         /\ v.pc = "done" /\ v.result = "Ok"
         /\ v.op = call[c].op /\ v.sid = sid
  BY <1>1, <1>2, Answered DEF Results
<1>5. \A d \in Clients \ {c} : call'[d] = call[d]
  BY <1>1, <1>4 DEF TokenTypes
<1> HIDE DEF sid
<1>6. TokenTypes'
  BY <1>1, <1>2, <1>3, <1>4 DEF TokenTypes
<1>7. \A s \in Known : sessions[s].revoked => sessions'[s].revoked
  <2>1. NoSession \notin Known
    BY SessionConstants DEF Known, SessionConstants
  <2> QED BY <1>3, <2>1
<1>8. Grows
  BY <1>1, <1>2, <1>3, <1>7, SessionConstants DEF Grows, TokenTypes, SessionConstants
<1>9. CallInv(c)'
  BY <1>3, <1>4 DEF CallInv, Checking, Accepted
<1>10. IdsFresh'
  BY <1>1, <1>3, <1>4, <1>5, FreshKept
<1>11. AckedInv'
  BY <1>1, <1>2, <1>3, <1>7 DEF AckedInv
<1>12. \A d \in Clients : CallInv(d)'
  BY <1>1, <1>5, <1>6, <1>8, <1>9, Untouched
<1>13. Whole'
  BY <1>6, <1>10, <1>11, <1>12 DEF Whole
<1> QED BY <1>13, ByCall, PTL

(* Time passes, or pages are listed.                                       *)
LEMMA OtherStep ==
  ASSUME TokenInv, Tick \/ (\E w \in Walkers : WalkStep(w)) \/ UNCHANGED vars
  PROVE  TokenInv'
<1>1. TokenTypes /\ IdsFresh /\ AckedInv /\ \A d \in Clients : CallInv(d)
  BY ByCall DEF Whole
<1>2. /\ UNCHANGED <<sessions, call, acked>>
      /\ clock' = clock \/ (clock < MaxClock /\ clock' = clock + 1)
  BY DEF Tick, WalkStep, StartWalk, ListActiveSessions, EndWalk, vars
<1>3. clock' \in 0..MaxClock /\ clock <= clock'
  BY <1>1, <1>2, SessionConstants DEF TokenTypes, SessionConstants
<1>4. TokenTypes'
  BY <1>1, <1>2, <1>3 DEF TokenTypes
<1>5. Grows
  BY <1>2, <1>3 DEF Grows, Known
<1>6. IdsFresh' /\ AckedInv'
  BY <1>1, <1>2 DEF IdsFresh, AckedInv, Known
<1>7. \A d \in Clients : CallInv(d)'
  BY <1>1, <1>2, <1>4, <1>5, Untouched
<1>8. Whole'
  BY <1>4, <1>6, <1>7 DEF Whole
<1> QED BY <1>8, ByCall, PTL

-----------------------------------------------------------------------------
(* The invariant of the tokens: create_session, validate_session,          *)
(* assert_session_active and revoke_session keep TokenInv at every step.   *)
THEOREM TokensCorrect == Spec => []TokenInv
<1>1. Init => TokenInv
  <2> SUFFICES ASSUME Init PROVE Whole
    BY ByCall
  <2>1. /\ clock \in 0..MaxClock /\ FALSE \in BOOLEAN
        /\ sessions \in [SessionIds -> Row \cup {NoSession}]
        /\ acked = {} /\ Known = {}
    BY SessionConstants DEF Init, SessionConstants, Known
  <2>2. Idle \in CallType
    BY <2>1, CallTyped DEF Idle
  <2>3. Idle.pc = "idle" /\ Idle.op = "none"
    BY DEF Idle, Call
  <2>4. call \in [Clients -> CallType] /\ \A c \in Clients : call[c] = Idle
    BY <2>2 DEF Init
  <2>5. TokenTypes
    BY <2>1, <2>4 DEF TokenTypes
  <2>6. \A c \in Clients : CallInv(c)
    BY <2>3, <2>4 DEF CallInv, Checking, Accepted
  <2>7. IdsFresh /\ AckedInv
    BY <2>1, <2>3, <2>4 DEF IdsFresh, AckedInv
  <2> QED BY <2>5, <2>6, <2>7 DEF Whole
<1>2. TokenInv /\ [Next]_vars => TokenInv'
  <2> SUFFICES ASSUME TokenInv, [Next]_vars PROVE TokenInv'
    OBVIOUS
  <2>1. ASSUME NEW c \in Clients, ClientStep(c) PROVE TokenInv'
    BY <2>1, CreateStep, InsertStep, CheckStarts, DecodeStep, ReadStep, CheckStep,
       RevokeStep, UpdateStep, ReturnStep, AbortStep DEF ClientStep
  <2>2. CASE Tick \/ (\E w \in Walkers : WalkStep(w)) \/ UNCHANGED vars
    BY <2>2, OtherStep
  <2> QED BY <2>1, <2>2 DEF Next
<1> QED BY <1>1, <1>2, PTL DEF Spec

(* A session whose revocation has been acknowledged is accepted by no call *)
(* of validate_session or assert_session_active that starts afterwards.    *)
THEOREM RevocationIsFinal == Spec => []RevokedStaysOut
<1>1. TokenInv => RevokedStaysOut
  BY DEF TokenInv
<1> QED BY <1>1, TokensCorrect, PTL

(* A session that has expired is accepted by no call that starts           *)
(* afterwards, whatever the leeway of the JWT.                             *)
THEOREM ExpiryIsFinal == Spec => []ExpiredStaysOut
<1>1. TokenInv => ExpiredStaysOut
  BY DEF TokenInv
<1> QED BY <1>1, TokensCorrect, PTL

(* No call refuses a session that is neither revoked nor expired, except   *)
(* by failing altogether: casts, whole seconds and leeway never make the   *)
(* JWT expire before the row.                                              *)
THEOREM RefusalsAreDeserved == Spec => []RejectionsTruthful
<1>1. TokenInv => RejectionsTruthful
  BY DEF TokenInv
<1> QED BY <1>1, TokensCorrect, PTL

-----------------------------------------------------------------------------
(* The refinement: every step of session.rs is a step of SessionGate, or   *)
(* none.                                                                   *)

(* What a call carries at each of its steps, whatever the table holds.     *)
HandOK(k) ==
  /\ k.pc = "idle" => k.op = "none"
  /\ k.pc \notin {"insert", "check"} => k.row = NoSession
  /\ k.pc = "insert" => k.op = "create" /\ k.row # NoSession /\ ~k.row.revoked
  /\ k.pc = "update" => k.op = "revoke"
  /\ k.pc \in {"decode", "read", "check"} => k.op \in SessionChecks /\ k.result = "none"

HandsOK == \A c \in Clients : HandOK(call[c])

(* One call moves: one check moves.                                        *)
LEMMA Moved ==
  ASSUME TokenTypes, HandsOK, NEW c \in Clients, NEW v \in CallType, HandOK(v),
         call' = [call EXCEPT ![c] = v]
  PROVE  /\ HandsOK'
         /\ Checks' = [Checks EXCEPT ![c] = CheckOf(v)]
         /\ Checks[c] = CheckOf(call[c])
         /\ FoundRevoked(v) => Marked' = Marked \cup {c}
         /\ ~FoundRevoked(v) => Marked' = Marked \ {c}
<1>1. call \in [Clients -> CallType]
  BY DEF TokenTypes
<1>2. call'[c] = v /\ \A d \in Clients \ {c} : call'[d] = call[d]
  BY <1>1
<1>3. HandsOK'
  BY <1>2 DEF HandsOK
<1>4. Checks' = [Checks EXCEPT ![c] = CheckOf(v)] /\ Checks[c] = CheckOf(call[c])
  <2>1. /\ Checks = [d \in Clients |-> CheckOf(call[d])]
        /\ Checks' = [d \in Clients |-> CheckOf(call'[d])]
    BY DEF Checks
  <2>2. \A d \in Clients : CheckOf(call'[d]) = IF d = c THEN CheckOf(v) ELSE Checks[d]
    BY <1>2, <2>1
  <2> QED BY <2>1, <2>2
<1>5. /\ FoundRevoked(v) => Marked' = Marked \cup {c}
      /\ ~FoundRevoked(v) => Marked' = Marked \ {c}
  BY <1>2 DEF Marked
<1> QED BY <1>3, <1>4, <1>5

(* A step that touches no row leaves the lives of the sessions alone.      *)
LEMMA LifeKept ==
  ASSUME UNCHANGED <<clock, sessions>>
  PROVE  Known' = Known /\ Revoked' = Revoked /\ Expired' = Expired
<1>1. Known' = Known
  BY DEF Known
<1> QED BY <1>1 DEF Revoked, Expired

LEMMA NoCheckYet ==
  ASSUME NEW k, k.op \notin SessionChecks
  PROVE  CheckOf(k) = Gate!NoCheck /\ ~FoundRevoked(k)
BY DEF CheckOf, FoundRevoked, Gate!NoCheck

(* A call outside validate_session and assert_session_active is invisible. *)
LEMMA OtherCallMoves ==
  ASSUME TokenTypes, HandsOK, NEW c \in Clients, NEW v \in CallType, HandOK(v),
         call' = [call EXCEPT ![c] = v],
         call[c].op \notin SessionChecks, v.op \notin SessionChecks
  PROVE  HandsOK' /\ Checks' = Checks /\ Marked' = Marked
<1>1. /\ CheckOf(call[c]) = CheckOf(v) /\ ~FoundRevoked(v)
      /\ c \notin Marked
  BY NoCheckYet DEF Marked
<1>2. /\ HandsOK' /\ Checks' = [Checks EXCEPT ![c] = CheckOf(v)]
      /\ Checks[c] = CheckOf(call[c]) /\ Marked' = Marked \ {c}
  BY <1>1, Moved
<1>3. Checks' = Checks
  BY <1>1, <1>2 DEF Checks
<1> QED BY <1>1, <1>2, <1>3

GateStep == [Gate!Next]_(Gate!vars)

LEMMA CreateGate ==
  ASSUME TokenInv, HandsOK, NEW c \in Clients, CreateSession(c) \/ RevokeSession(c)
  PROVE  HandsOK' /\ GateStep
<1>1. TokenTypes /\ call[c].pc = "idle" /\ UNCHANGED <<clock, sessions, acked>>
  BY ByCall DEF Whole, CreateSession, RevokeSession
<1>2. PICK v \in CallType :
        /\ call' = [call EXCEPT ![c] = v]
        /\ v.op \in {"create", "revoke"} /\ HandOK(v)
  <2>1. CASE CreateSession(c)
    <3>1. PICK s \in SessionIds \ (Known \cup Reserved), ttl \in Ttls :
            /\ TtlInRange(ttl)
            /\ call' = [call EXCEPT ![c] =
                 Call("create", "insert", s,
                      [made |-> clock, expires |-> ExpiresAt(clock, ttl), revoked |-> FALSE],
                      FALSE, FALSE)]
      BY <2>1 DEF CreateSession
    <3> DEFINE row == [made |-> clock, expires |-> ExpiresAt(clock, ttl), revoked |-> FALSE]
               v == Call("create", "insert", s, row, FALSE, FALSE)
    <3>2. row \in Row /\ ~row.revoked
      <4>1. clock \in 0..MaxClock
        BY <1>1 DEF TokenTypes
      <4>2. ExpiresAt(clock, ttl) \in Expiries
        BY <3>1, <4>1, ExpiryTyped
      <4> QED BY <4>1, <4>2 DEF Row
    <3>3. call' = [call EXCEPT ![c] = v]
      BY <3>1
    <3> HIDE DEF row
    <3>4. v.pc = "insert" /\ v.op = "create" /\ v.row = row
      BY DEF Call
    <3>5. v \in CallType
      <4>1. FALSE \in BOOLEAN
        OBVIOUS
      <4> QED BY <3>2, <4>1, CallTyped
    <3> HIDE DEF v
    <3>6. HandOK(v)
      BY <3>2, <3>4, NoSessionIsNoRow DEF HandOK
    <3> QED BY <3>3, <3>4, <3>5, <3>6
  <2>2. CASE RevokeSession(c)
    <3>1. PICK s \in Presented :
            call' = [call EXCEPT ![c] = Call("revoke", "update", s, NoSession, FALSE, FALSE)]
      BY <2>2 DEF RevokeSession
    <3> DEFINE v == Call("revoke", "update", s, NoSession, FALSE, FALSE)
    <3>2. v \in CallType
      <4>1. FALSE \in BOOLEAN /\ s \in SessionIds \cup {NoSession}
        BY DEF Presented, Known
      <4> QED BY <4>1, CallTyped
    <3>3. v.pc = "update" /\ v.op = "revoke" /\ v.row = NoSession
      BY DEF Call
    <3>4. call' = [call EXCEPT ![c] = v]
      BY <3>1
    <3> HIDE DEF v
    <3> QED BY <3>2, <3>3, <3>4 DEF HandOK
  <2> QED BY <2>1, <2>2
<1>3. call[c].op \notin SessionChecks /\ v.op \notin SessionChecks
  BY <1>1, <1>2 DEF HandsOK, HandOK, SessionChecks
<1>4. HandsOK' /\ Checks' = Checks /\ Marked' = Marked
  BY <1>1, <1>2, <1>3, OtherCallMoves
<1>5. Known' = Known /\ Revoked' = Revoked /\ Expired' = Expired
  BY <1>1, LifeKept
<1> QED BY <1>1, <1>4, <1>5 DEF GateStep, Gate!vars, Gate!life

LEMMA BeginGate ==
  ASSUME TokenInv, HandsOK, NEW c \in Clients, ValidateSession(c) \/ AssertSessionActive(c)
  PROVE  HandsOK' /\ GateStep
<1>1. TokenTypes /\ call[c].pc = "idle" /\ UNCHANGED <<clock, sessions, acked>>
  BY ByCall DEF Whole, ValidateSession, AssertSessionActive, StartCheck
<1>2. PICK v \in CallType :
        /\ call' = [call EXCEPT ![c] = v]
        /\ v.op \in SessionChecks /\ v.pc \in {"decode", "read"} /\ v.sid \in Presented
        /\ v.row = NoSession /\ v.result = "none"
  BY <1>1, CheckOpens
<1>3. HandOK(v) /\ ~FoundRevoked(v) /\ call[c].op \notin SessionChecks
  BY <1>1, <1>2 DEF HandsOK, HandOK, FoundRevoked, SessionChecks
<1>4. CheckOf(v) = [pc |-> "select", sid |-> v.sid, verdict |-> "none"]
  BY <1>2 DEF CheckOf
<1>5. /\ HandsOK' /\ Checks' = [Checks EXCEPT ![c] = CheckOf(v)]
      /\ Checks[c] = Gate!NoCheck /\ Marked' = Marked
  <2>1. c \notin Marked /\ CheckOf(call[c]) = Gate!NoCheck
    BY <1>3, NoCheckYet DEF Marked
  <2>2. /\ HandsOK' /\ Checks' = [Checks EXCEPT ![c] = CheckOf(v)]
        /\ Checks[c] = CheckOf(call[c]) /\ Marked' = Marked \ {c}
    BY <1>1, <1>2, <1>3, Moved
  <2> QED BY <2>1, <2>2
<1>6. Known' = Known /\ Revoked' = Revoked /\ Expired' = Expired
  BY <1>1, LifeKept
<1>7. Gate!Begin(c, v.sid)
  BY <1>1, <1>2, <1>4, <1>5, <1>6 DEF Gate!Begin, Gate!life, Gate!NoCheck, Presented
<1> QED BY <1>2, <1>5, <1>7 DEF GateStep, Gate!Next, Gate!CheckStep, Presented

(* A step of a check that is seen: it is at c, the lives stay as they are. *)
LEMMA CheckMoves ==
  ASSUME TokenInv, HandsOK, NEW c \in Clients, call[c].op \in SessionChecks,
         UNCHANGED <<clock, sessions, acked>>, NEW v \in CallType, HandOK(v),
         call' = [call EXCEPT ![c] = v], v.op = call[c].op, v.sid = call[c].sid
  PROVE  /\ HandsOK' /\ Known' = Known /\ Revoked' = Revoked /\ Expired' = Expired
         /\ Checks[c] = CheckOf(call[c]) /\ Checks' = [Checks EXCEPT ![c] = CheckOf(v)]
         /\ v.row = NoSession => Marked' = Marked \ {c}
         /\ call[c].row = NoSession => c \notin Marked
<1>1. TokenTypes
  BY ByCall DEF Whole
<1>2. v.row = NoSession => ~FoundRevoked(v)
  BY DEF FoundRevoked
<1>3. call[c].row = NoSession => c \notin Marked
  BY DEF FoundRevoked, Marked
<1> QED BY <1>1, <1>2, <1>3, Moved, LifeKept

LEMMA DecodeGate ==
  ASSUME TokenInv, HandsOK, NEW c \in Clients, DecodeToken(c)
  PROVE  HandsOK' /\ GateStep
<1>1. TokenTypes /\ CallInv(c) /\ HandOK(call[c])
  BY ByCall DEF Whole, HandsOK
<1>2. UNCHANGED <<clock, sessions, acked>> /\ call[c].pc = "decode"
  BY DEF DecodeToken
<1>3. call[c].op \in SessionChecks /\ call[c].row = NoSession /\ call[c].result = "none"
  BY <1>1, <1>2 DEF HandOK
<1>4. CheckOf(call[c]) = [pc |-> "select", sid |-> call[c].sid, verdict |-> "none"]
  BY <1>2, <1>3 DEF CheckOf
<1>5. CASE RowOf(call[c].sid) = NoSession \/ JwtExpired(RowOf(call[c].sid))
  <2>1. PICK v \in CallType :
           /\ call' = [call EXCEPT ![c] = v]
           /\ v.pc = "done" /\ v.result = "InvalidToken" /\ v.row = NoSession
           /\ v.op = call[c].op /\ v.sid = call[c].sid
    <3>1. Answer(c, "InvalidToken")
      BY <1>5 DEF DecodeToken
    <3> QED BY <1>1, <3>1, Answered DEF Results
  <2>2. HandOK(v)
    BY <2>1 DEF HandOK
  <2>3. CheckOf(v) = [pc |-> "done", sid |-> call[c].sid, verdict |-> "InvalidToken"]
    BY <1>3, <2>1 DEF CheckOf
  <2>4. call[c].sid \in Expired \cup {NoSession}
    BY <1>1, <1>2, <1>5, DeadToken DEF Expired
  <2>5. Gate!Refuse(c) /\ HandsOK'
    <3>1. /\ HandsOK' /\ Known' = Known /\ Revoked' = Revoked /\ Expired' = Expired
          /\ Checks[c] = CheckOf(call[c]) /\ Checks' = [Checks EXCEPT ![c] = CheckOf(v)]
          /\ Marked' = Marked
      BY <1>2, <1>3, <2>1, <2>2, CheckMoves
    <3> QED BY <1>2, <1>4, <2>3, <2>4, <3>1 DEF Gate!Refuse, Gate!Decide, Gate!life
  <2> QED BY <2>5 DEF GateStep, Gate!Next, Gate!CheckStep
<1>6. CASE ~(RowOf(call[c].sid) = NoSession \/ JwtExpired(RowOf(call[c].sid)))
  <2> DEFINE v == [call[c] EXCEPT !.pc = "read"]
  <2>1. call[c] \in CallType /\ call \in [Clients -> CallType]
    BY <1>1 DEF TokenTypes
  <2>2. call' = [call EXCEPT ![c] = v] /\ v \in CallType
    BY <1>6, <2>1 DEF DecodeToken, CallType
  <2>3. /\ v.pc = "read" /\ v.op = call[c].op /\ v.sid = call[c].sid
        /\ v.result = "none" /\ v.row = NoSession
    BY <1>3, <2>1 DEF CallType
  <2> HIDE DEF v
  <2>4. HandOK(v)
    BY <1>3, <2>3 DEF HandOK
  <2>5. CheckOf(v) = CheckOf(call[c])
    BY <1>2, <1>3, <2>3 DEF CheckOf
  <2>6. /\ HandsOK' /\ Known' = Known /\ Revoked' = Revoked /\ Expired' = Expired
        /\ Checks[c] = CheckOf(v) /\ Checks' = [Checks EXCEPT ![c] = CheckOf(v)]
        /\ Marked' = Marked
    BY <1>2, <1>3, <2>2, <2>3, <2>4, <2>5, CheckMoves
  <2>7. Checks' = Checks
    BY <2>6 DEF Checks
  <2> QED BY <1>2, <2>6, <2>7 DEF GateStep, Gate!vars, Gate!life
<1> QED BY <1>5, <1>6

LEMMA ReadGate ==
  ASSUME TokenInv, HandsOK, NEW c \in Clients, ReadRow(c)
  PROVE  HandsOK' /\ GateStep
<1>1. TokenTypes /\ CallInv(c) /\ HandOK(call[c])
  BY ByCall DEF Whole, HandsOK
<1>2. UNCHANGED <<clock, sessions, acked>> /\ call[c].pc = "read"
  BY DEF ReadRow
<1>3. call[c].op \in SessionChecks /\ call[c].row = NoSession /\ call[c].result = "none"
  BY <1>1, <1>2 DEF HandOK
<1>4. CheckOf(call[c]) = [pc |-> "select", sid |-> call[c].sid, verdict |-> "none"]
  BY <1>2, <1>3 DEF CheckOf
<1> DEFINE row == RowOf(call[c].sid)
           v == [call[c] EXCEPT !.pc = "check", !.row = row]
<1>5. call[c] \in CallType /\ call \in [Clients -> CallType]
  BY <1>1 DEF TokenTypes
<1>6. call' = [call EXCEPT ![c] = v]
  BY <1>5 DEF ReadRow
<1>7. row \in Row \cup {NoSession}
  BY <1>1 DEF RowOf, TokenTypes
<1>8. row # NoSession => call[c].sid \in Known /\ row = sessions[call[c].sid]
  BY DEF RowOf, Known
<1> HIDE DEF row
<1>9. v \in CallType
  BY <1>5, <1>7 DEF CallType
<1>10. /\ v.pc = "check" /\ v.op = call[c].op /\ v.sid = call[c].sid /\ v.row = row
       /\ v.result = "none"
  BY <1>3, <1>5 DEF CallType
<1> HIDE DEF v
<1>11. HandOK(v)
  BY <1>3, <1>10 DEF HandOK
<1>12. /\ HandsOK' /\ Known' = Known /\ Revoked' = Revoked /\ Expired' = Expired
       /\ Checks[c] = CheckOf(call[c]) /\ Checks' = [Checks EXCEPT ![c] = CheckOf(v)]
       /\ c \notin Marked
       /\ FoundRevoked(v) => Marked' = Marked \cup {c}
       /\ ~FoundRevoked(v) => Marked' = Marked \ {c}
  BY <1>1, <1>2, <1>3, <1>6, <1>9, <1>10, <1>11, CheckMoves, Moved
<1>13. CASE row = NoSession
  <2>1. CheckOf(v) = CheckOf(call[c]) /\ ~FoundRevoked(v)
    BY <1>2, <1>3, <1>10, <1>13 DEF CheckOf, FoundRevoked
  <2>2. Checks' = Checks /\ Marked' = Marked
    BY <1>12, <2>1 DEF Checks
  <2> QED BY <1>2, <1>12, <2>2 DEF GateStep, Gate!vars, Gate!life
<1>14. CASE row # NoSession
  <2>1. CheckOf(v) = [pc |-> "judge", sid |-> call[c].sid, verdict |-> "none"]
    BY <1>3, <1>10, <1>14 DEF CheckOf
  <2>2. FoundRevoked(v) <=> call[c].sid \in Revoked
    BY <1>3, <1>8, <1>10, <1>14 DEF FoundRevoked, Revoked
  <2>3. Marked' = IF call[c].sid \in Revoked THEN Marked \cup {c} ELSE Marked
    BY <1>12, <2>2
  <2>4. Checks' = [Checks EXCEPT ![c] = [Checks[c] EXCEPT !.pc = "judge"]]
    <3>1. [Checks[c] EXCEPT !.pc = "judge"] = CheckOf(v)
      BY <1>4, <1>12, <2>1
    <3> QED BY <1>12, <3>1
  <2>5. Gate!Select(c)
    <3>1. Checks[c].pc = "select" /\ Checks[c].sid = call[c].sid /\ call[c].sid \in Known
      BY <1>4, <1>8, <1>12, <1>14
    <3>2. UNCHANGED Gate!life
      BY <1>2, <1>12 DEF Gate!life
    <3> QED BY <2>3, <2>4, <3>1, <3>2 DEF Gate!Select
  <2> QED BY <1>12, <2>5 DEF GateStep, Gate!Next, Gate!CheckStep
<1> QED BY <1>13, <1>14

LEMMA CheckGate ==
  ASSUME TokenInv, HandsOK, NEW c \in Clients, CheckRow(c)
  PROVE  HandsOK' /\ GateStep
<1>1. TokenTypes /\ CallInv(c) /\ HandOK(call[c])
  BY ByCall DEF Whole, HandsOK
<1>2. UNCHANGED <<clock, sessions, acked>> /\ call[c].pc = "check"
  BY DEF CheckRow
<1>3. call[c].op \in SessionChecks /\ call[c].result = "none"
  BY <1>1, <1>2 DEF HandOK
<1> DEFINE row == call[c].row
           r == IF row = NoSession THEN "InvalidToken" ELSE Checked(row)
<1>4. /\ row = NoSession => call[c].sid = NoSession
      /\ row # NoSession => /\ call[c].sid \in Known
                            /\ row.expires = sessions[call[c].sid].expires
  BY <1>1, <1>2 DEF CallInv
<1>5. /\ row \in Row \cup {NoSession} /\ clock \in Int
      /\ row # NoSession => row.expires \in Int
  BY <1>1, SessionConstants DEF TokenTypes, CallType, Row, Expiries, SessionConstants
<1>6. row # NoSession =>
        \/ r = "SessionRevoked" /\ row.revoked
        \/ r = "SessionExpired" /\ ~row.revoked /\ row.expires <= clock
        \/ r = "Ok" /\ ~row.revoked /\ ~(row.expires <= clock)
  BY <1>5 DEF Checked
<1>7. Answer(c, r) /\ r \in Results
  BY <1>5 DEF CheckRow, Checked, Results
<1>8. row = NoSession => r = "InvalidToken"
  OBVIOUS
<1>9. row # NoSession <=> CheckOf(call[c]).pc = "judge"
  BY <1>2, <1>3 DEF CheckOf
<1>10. CheckOf(call[c]).sid = call[c].sid /\ (row = NoSession => CheckOf(call[c]).pc = "select")
  BY <1>2, <1>3 DEF CheckOf
<1>11. (c \in Marked) <=> (row # NoSession /\ row.revoked)
  BY <1>3 DEF Marked, FoundRevoked
<1> HIDE DEF r, row
<1>12. PICK v \in CallType :
         /\ call' = [call EXCEPT ![c] = v]
         /\ v.pc = "done" /\ v.result = r /\ v.row = NoSession
         /\ v.op = call[c].op /\ v.sid = call[c].sid
  BY <1>1, <1>7, Answered
<1>13. HandOK(v)
  BY <1>12 DEF HandOK
<1>14. CheckOf(v) = [pc |-> "done", sid |-> call[c].sid, verdict |-> r]
  BY <1>3, <1>12 DEF CheckOf
<1>15. /\ HandsOK' /\ Known' = Known /\ Revoked' = Revoked /\ Expired' = Expired
       /\ Checks[c] = CheckOf(call[c]) /\ Checks' = [Checks EXCEPT ![c] = CheckOf(v)]
       /\ Marked' = Marked \ {c}
  BY <1>2, <1>3, <1>12, <1>13, CheckMoves
<1>16. CASE row = NoSession
  <2>1. Gate!Refuse(c)
    BY <1>2, <1>4, <1>8, <1>10, <1>11, <1>14, <1>15, <1>16
       DEF Gate!Refuse, Gate!Decide, Gate!life
  <2> QED BY <1>15, <2>1 DEF GateStep, Gate!Next, Gate!CheckStep
<1>17. CASE row # NoSession
  <2>1. (call[c].sid \in Expired) <=> (row.expires <= clock)
    BY <1>4, <1>17 DEF Expired
  <2>2. Gate!Verdict(c) = r
    BY <1>6, <1>10, <1>11, <1>15, <1>17, <2>1 DEF Gate!Verdict
  <2>3. Gate!Judge(c)
    BY <1>2, <1>9, <1>10, <1>14, <1>15, <1>17, <2>2 DEF Gate!Judge, Gate!Decide, Gate!life
  <2> QED BY <1>15, <2>3 DEF GateStep, Gate!Next, Gate!CheckStep
<1> QED BY <1>16, <1>17

(* A client that goes idle is done with its check, if it had one.          *)
LEMMA IdleGate ==
  ASSUME TokenInv, HandsOK, NEW c \in Clients, call' = [call EXCEPT ![c] = Idle]
  PROVE  /\ HandsOK'
         /\ Checks' = [d \in Clients |-> IF d \in {c} THEN Gate!NoCheck ELSE Checks[d]]
         /\ Marked' = Marked \ {c}
         /\ call[c].op \notin SessionChecks => Checks' = Checks /\ Marked' = Marked
<1>1. TokenTypes /\ Idle \in CallType
  BY ByCall, IdleCall DEF Whole
<1>2. Idle.pc = "idle" /\ Idle.op = "none" /\ Idle.row = NoSession
  BY DEF Idle, Call
<1>3. HandOK(Idle) /\ CheckOf(Idle) = Gate!NoCheck /\ ~FoundRevoked(Idle)
      /\ Idle.op \notin SessionChecks
  BY <1>2, NoCheckYet DEF HandOK, SessionChecks
<1> HIDE DEF Idle
<1>4. HandsOK' /\ Checks' = [Checks EXCEPT ![c] = Gate!NoCheck] /\ Marked' = Marked \ {c}
  BY <1>1, <1>3, Moved
<1>5. Checks' = [d \in Clients |-> IF d \in {c} THEN Gate!NoCheck ELSE Checks[d]]
  BY <1>4 DEF Checks
<1>6. call[c].op \notin SessionChecks => Checks' = Checks /\ Marked' = Marked
  BY <1>1, <1>3, OtherCallMoves
<1> QED BY <1>4, <1>5, <1>6

LEMMA AbortGate ==
  ASSUME TokenInv, HandsOK, NEW c \in Clients, CallAborted(c)
  PROVE  HandsOK' /\ GateStep
<1>1. call' = [call EXCEPT ![c] = Idle] /\ UNCHANGED <<clock, sessions, acked>>
  BY DEF CallAborted
<1>2. HandsOK' /\ Gate!Finish({c})
  BY <1>1, IdleGate, LifeKept DEF Gate!Finish, Gate!life
<1> QED BY <1>2 DEF GateStep, Gate!Next

LEMMA ReturnGate ==
  ASSUME TokenInv, HandsOK, NEW c \in Clients, Return(c)
  PROVE  HandsOK' /\ GateStep
<1>1. call' = [call EXCEPT ![c] = Idle] /\ UNCHANGED <<clock, sessions>>
  BY DEF Return
<1>2. Known' = Known /\ Revoked' = Revoked /\ Expired' = Expired
  BY <1>1, LifeKept
<1>3. CASE call[c].op = "revoke" /\ call[c].sid \in SessionIds
  <2>1. call[c].sid \in Revoked
    <3>1. CallInv(c) /\ call[c].sid # NoSession /\ call[c].pc = "done"
      BY <1>3, ByCall, SessionConstants DEF Whole, SessionConstants, Return
    <3> QED BY <1>3, <3>1 DEF CallInv, Revoked
  <2>2. HandsOK' /\ Checks' = Checks /\ Marked' = Marked
    BY <1>1, <1>3, IdleGate DEF SessionChecks
  <2>3. acked' = acked \cup {call[c].sid}
    BY <1>3 DEF Return
  <2>4. Gate!Acknowledge(call[c].sid)
    BY <1>2, <2>1, <2>3 DEF Gate!Acknowledge
  <2> QED BY <1>3, <2>2, <2>4 DEF GateStep, Gate!Next, Gate!LifeStep
<1>4. CASE ~(call[c].op = "revoke" /\ call[c].sid \in SessionIds)
  <2>1. acked' = acked
    BY <1>4 DEF Return
  <2>2. HandsOK' /\ Gate!Finish({c})
    BY <1>1, <1>2, <2>1, IdleGate DEF Gate!Finish, Gate!life
  <2> QED BY <2>2 DEF GateStep, Gate!Next
<1> QED BY <1>3, <1>4

LEMMA InsertGate ==
  ASSUME TokenInv, HandsOK, NEW c \in Clients, InsertSession(c)
  PROVE  HandsOK' /\ GateStep
<1>1. TokenTypes /\ HandOK(call[c]) /\ call[c].pc = "insert" /\ Answer(c, "Ok")
      /\ clock' = clock /\ acked' = acked
  BY ByCall DEF Whole, HandsOK, InsertSession
<1>2. /\ call[c].sid \in SessionIds \ Known
      /\ Known' = Known \cup {call[c].sid}
      /\ sessions'[call[c].sid] = call[c].row
      /\ \A s \in Known : sessions'[s] = sessions[s]
  BY Inserted
<1>3. PICK v \in CallType :
         /\ call' = [call EXCEPT ![c] = v]
         /\ v.pc = "done" /\ v.row = NoSession /\ v.op = call[c].op
  BY <1>1, Answered DEF Results
<1>4. call[c].op \notin SessionChecks /\ ~call[c].row.revoked /\ HandOK(v)
  BY <1>1, <1>3 DEF HandOK, SessionChecks
<1>5. HandsOK' /\ Checks' = Checks /\ Marked' = Marked
  BY <1>1, <1>3, <1>4, OtherCallMoves
<1>6. Revoked' = Revoked
  BY <1>2, <1>4 DEF Revoked
<1>7. Expired' \in {Expired, Expired \cup {call[c].sid}}
  <2>1. /\ call[c].row.expires <= clock => Expired' = Expired \cup {call[c].sid}
        /\ ~(call[c].row.expires <= clock) => Expired' = Expired
    BY <1>1, <1>2 DEF Expired
  <2> QED BY <2>1
<1>8. Gate!Issue(call[c].sid)
  BY <1>1, <1>2, <1>6, <1>7 DEF Gate!Issue
<1> QED BY <1>2, <1>5, <1>8 DEF GateStep, Gate!Next, Gate!LifeStep

LEMMA UpdateGate ==
  ASSUME TokenInv, HandsOK, NEW c \in Clients, UpdateRevoked(c)
  PROVE  HandsOK' /\ GateStep
<1>1. TokenTypes /\ HandOK(call[c]) /\ call[c].pc = "update" /\ Answer(c, "Ok")
      /\ clock' = clock /\ acked' = acked
  BY ByCall DEF Whole, HandsOK, UpdateRevoked
<1>2. /\ Known' = Known
      /\ \A s \in Known : sessions'[s].expires = sessions[s].expires
      /\ \A s \in Known \ {call[c].sid} : sessions'[s] = sessions[s]
      /\ call[c].sid # NoSession => call[c].sid \in Known /\ sessions'[call[c].sid].revoked
  BY Updated
<1>3. PICK v \in CallType :
         /\ call' = [call EXCEPT ![c] = v]
         /\ v.pc = "done" /\ v.row = NoSession /\ v.op = call[c].op
  BY <1>1, Answered DEF Results
<1>4. call[c].op \notin SessionChecks /\ HandOK(v)
  BY <1>1, <1>3 DEF HandOK, SessionChecks
<1>5. HandsOK' /\ Checks' = Checks /\ Marked' = Marked
  BY <1>1, <1>3, <1>4, OtherCallMoves
<1>6. Expired' = Expired
  BY <1>1, <1>2 DEF Expired
<1>7. CASE call[c].sid # NoSession
  <2>1. Revoked' = Revoked \cup {call[c].sid}
    BY <1>2, <1>7 DEF Revoked
  <2>2. Gate!Revoke(call[c].sid) /\ call[c].sid \in SessionIds
    BY <1>1, <1>2, <1>6, <1>7, <2>1 DEF Gate!Revoke, Known
  <2> QED BY <1>5, <2>2 DEF GateStep, Gate!Next, Gate!LifeStep
<1>8. CASE call[c].sid = NoSession
  <2>1. Revoked' = Revoked
    <3>1. NoSession \notin Known
      BY SessionConstants DEF SessionConstants, Known
    <3> QED BY <1>2, <1>8, <3>1 DEF Revoked
  <2> QED BY <1>1, <1>2, <1>5, <1>6, <2>1 DEF GateStep, Gate!vars, Gate!life
<1> QED BY <1>7, <1>8

(* When time passes sessions expire, when pages are listed nothing does.   *)
LEMMA OtherGate ==
  ASSUME TokenInv, HandsOK, Tick \/ (\E w \in Walkers : WalkStep(w)) \/ UNCHANGED vars
  PROVE  HandsOK' /\ GateStep
<1>1. /\ UNCHANGED <<sessions, call, acked>>
      /\ clock' = clock \/ clock' = clock + 1
  BY DEF Tick, WalkStep, StartWalk, ListActiveSessions, EndWalk, vars
<1>2. HandsOK' /\ Checks' = Checks /\ Marked' = Marked /\ Known' = Known
  BY <1>1 DEF HandsOK, Checks, Marked, Known
<1>3. Revoked' = Revoked
  BY <1>1, <1>2 DEF Revoked
<1>4. Expired \subseteq Expired' /\ Expired' \subseteq Known
  <2>1. clock \in Int /\ \A s \in Known : sessions[s].expires \in Int
    BY ByCall, SessionConstants
       DEF Whole, TokenTypes, Known, Row, Expiries, SessionConstants
  <2> QED BY <1>1, <1>2, <2>1 DEF Expired
<1>5. Gate!Expire(Expired')
  BY <1>1, <1>2, <1>3, <1>4 DEF Gate!Expire
<1> QED BY <1>2, <1>4, <1>5 DEF GateStep, Gate!Next, Gate!LifeStep

(* The rows, the clock, the JWTs and the calls of session.rs implement the *)
(* lives and the checks of the sessions that module Guard builds on.       *)
THEOREM SessionsImplementGate == Spec => ImplementsGate
<1>1. Init => HandsOK /\ Gate!Init
  <2> SUFFICES ASSUME Init PROVE HandsOK /\ Gate!Init
    OBVIOUS
  <2>1. Idle.pc = "idle" /\ Idle.op = "none" /\ Idle.row = NoSession
    BY DEF Idle, Call
  <2>2. HandOK(Idle) /\ CheckOf(Idle) = Gate!NoCheck /\ ~FoundRevoked(Idle)
    BY <2>1, NoCheckYet DEF HandOK, SessionChecks
  <2>3. \A c \in Clients : call[c] = Idle
    BY DEF Init
  <2> HIDE DEF Idle
  <2>4. HandsOK /\ Checks = [c \in Clients |-> Gate!NoCheck] /\ Marked = {}
    BY <2>2, <2>3 DEF HandsOK, Checks, Marked
  <2>5. Known = {} /\ acked = {}
    BY DEF Init, Known
  <2>6. Revoked = {} /\ Expired = {}
    BY <2>5 DEF Revoked, Expired
  <2> QED BY <2>4, <2>5, <2>6 DEF Gate!Init, Gate!NoneEnded
<1>2. TokenInv /\ HandsOK /\ [Next]_vars => HandsOK' /\ GateStep
  <2> SUFFICES ASSUME TokenInv, HandsOK, [Next]_vars PROVE HandsOK' /\ GateStep
    OBVIOUS
  <2>1. ASSUME NEW c \in Clients, ClientStep(c) PROVE HandsOK' /\ GateStep
    BY <2>1, CreateGate, InsertGate, BeginGate, DecodeGate, ReadGate, CheckGate,
       UpdateGate, ReturnGate, AbortGate DEF ClientStep
  <2>2. CASE Tick \/ (\E w \in Walkers : WalkStep(w)) \/ UNCHANGED vars
    BY <2>2, OtherGate
  <2> QED BY <2>1, <2>2 DEF Next
<1> QED BY <1>1, <1>2, TokensCorrect, PTL DEF Spec, ImplementsGate, Gate!Spec, GateStep

=============================================================================
