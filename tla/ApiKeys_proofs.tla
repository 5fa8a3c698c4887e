--------------------------- MODULE ApiKeys_proofs ---------------------------
(***************************************************************************)
(* Proofs about ApiKeys, for any number of keys and clients and for every  *)
(* bound: types, that a key whose revocation was acknowledged is never     *)
(* shown as usable again, however late its detached updates run, and what  *)
(* last_used_at says of a key.                                             *)
(***************************************************************************)
EXTENDS ApiKeys, TLAPS

-----------------------------------------------------------------------------
(* The inductive invariant behind the theorems.                            *)

(* The key of a row about to be inserted belongs to nobody else, so no     *)
(* INSERT replaces a row and with it a revocation.                         *)
KeysFresh ==
  \A c \in Clients : call[c].pc = "insert" =>
    /\ call[c].key \notin Known
    /\ \A d \in Clients \ {c} : call[d].pc = "insert" => call[d].key # call[c].key

(* An acknowledged revocation is in the table.                             *)
RevocationsHold == \A k \in acked : api_keys[k].revoked

(* What a call carries: a created key is stored when the call is done, a   *)
(* revoked one is revoked, and the row that is being judged is revoked if  *)
(* its revocation had been acknowledged when the call began.               *)
CallInv(c) ==
  /\ call[c].dead \subseteq acked
  /\ call[c].usable \cap call[c].dead = {}
  /\ call[c].pc = "insert" => call[c].op = "create"
  /\ call[c].op = "create" =>
       /\ call[c].key \in Keys
       /\ call[c].pc = "done" => call[c].key \in Known
  /\ call[c].pc = "update" => call[c].op = "revoke"
  /\ call[c].op = "revoke" /\ call[c].key # NoKey =>
       /\ call[c].key \in Known
       /\ call[c].pc = "done" => api_keys[call[c].key].revoked
  /\ call[c].pc \in {"select", "judge"} => call[c].op = "validate"
  /\ call[c].pc = "list" => call[c].op = "list"
  /\ call[c].pc = "judge" /\ call[c].row # NoRow =>
       /\ call[c].key \in Known
       /\ call[c].key \in call[c].dead => call[c].row.revoked

KeyInv ==
  /\ TypeOK
  /\ KeysFresh
  /\ RevocationsHold
  /\ \A c \in Clients : CallInv(c)

-----------------------------------------------------------------------------
(* Steps.                                                                  *)

(* The table and the acknowledgements only gain.                           *)
Grows ==
  /\ \A k \in Known : k \in Known' /\ (api_keys[k].revoked => api_keys'[k].revoked)
  /\ acked \subseteq acked'

(* What holds of a call that does not move keeps holding.                  *)
LEMMA Untouched ==
  ASSUME Grows, NEW c \in Clients, CallInv(c), call'[c] = call[c],
         call[c].dead \subseteq acked
  PROVE  CallInv(c)'
BY DEF Grows, CallInv

TasksOK == task \in Seq(TaskType) /\ \A i \in DOMAIN task : task[i].key \in Known

(* A step that leaves the table alone and moves one call.                  *)
LEMMA OneCall ==
  ASSUME KeyInv, UNCHANGED <<clock, api_keys, handed, acked>>, TasksOK',
         NEW c \in Clients, NEW v \in CallType, call' = [call EXCEPT ![c] = v],
         v.pc # "insert", CallInv(c)'
  PROVE  KeyInv'
<1>1. call \in [Clients -> CallType]
  BY DEF KeyInv, TypeOK
<1>2. call'[c] = v /\ \A d \in Clients \ {c} : call'[d] = call[d]
  BY <1>1
<1>3. Known' = Known
  BY DEF Known
<1>4. TypeOK'
  BY <1>1, <1>3 DEF KeyInv, TypeOK, TasksOK
<1>5. KeysFresh'
  BY <1>2, <1>3 DEF KeyInv, KeysFresh
<1>6. RevocationsHold'
  BY DEF KeyInv, RevocationsHold
<1>7. Grows
  BY <1>3 DEF Grows
<1>8. \A d \in Clients : CallInv(d)'
  BY <1>2, <1>7, Untouched DEF KeyInv, CallInv
<1> QED BY <1>4, <1>5, <1>6, <1>8 DEF KeyInv

(* The tasks do not move, nor does the table.                              *)
LEMMA TasksKept ==
  ASSUME KeyInv, UNCHANGED <<api_keys, task>>
  PROVE  TasksOK'
BY DEF KeyInv, TypeOK, TasksOK, Known

(* The fields of a new call.                                               *)
LEMMA CallFields ==
  ASSUME NEW op, NEW pc, NEW key, NEW dead
  PROVE  LET v == Call(op, pc, key, dead)
         IN  /\ v.op = op /\ v.pc = pc /\ v.key = key /\ v.dead = dead
             /\ v.row = NoRow /\ v.usable = {}
BY DEF Call

LEMMA CallTyped ==
  ASSUME NEW op \in {"none", "create", "validate", "revoke", "list"},
         NEW pc \in {"idle", "insert", "select", "judge", "update", "list", "done"},
         NEW key \in Keys \cup {NoKey}, NEW dead \in SUBSET Keys
  PROVE  Call(op, pc, key, dead) \in CallType
BY DEF Call, CallType

(* A call begins, with what has been acknowledged by now.                  *)
LEMMA Begins ==
  ASSUME KeyInv, NEW c \in Clients,
         NEW op \in {"create", "validate", "revoke", "list"},
         NEW pc \in {"insert", "select", "update", "list"},
         NEW k \in Keys \cup {NoKey}, NEW about,
         Begin(c, op, pc, k, about)
  PROVE  \E v \in CallType :
           /\ call' = [call EXCEPT ![c] = v] /\ call'[c] = v
           /\ v.op = op /\ v.pc = pc /\ v.key = k /\ v.dead \subseteq acked
           /\ v.row = NoRow /\ v.usable = {}
           /\ UNCHANGED <<clock, api_keys, task, handed, acked>>
<1> DEFINE v == Call(op, pc, k, about \cap acked)
<1>1. call \in [Clients -> CallType] /\ acked \subseteq Keys
  BY DEF KeyInv, TypeOK, Known
<1>2. v \in CallType
  BY <1>1, CallTyped
<1>3. /\ v.op = op /\ v.pc = pc /\ v.key = k /\ v.dead \subseteq acked
      /\ v.row = NoRow /\ v.usable = {}
  BY DEF Call
<1>4. /\ call' = [call EXCEPT ![c] = v]
      /\ UNCHANGED <<clock, api_keys, task, handed, acked>>
  BY DEF Begin
<1> HIDE DEF v
<1>5. call'[c] = v
  BY <1>1, <1>4
<1> QED BY <1>2, <1>3, <1>4, <1>5

(* What an answer makes of a call.                                         *)
LEMMA Answered ==
  ASSUME KeyInv, NEW c \in Clients, NEW usable \in SUBSET Keys, Answer(c, usable)
  PROVE  \E v \in CallType :
           /\ call' = [call EXCEPT ![c] = v] /\ call'[c] = v
           /\ v.pc = "done" /\ v.usable = usable /\ v.row = NoRow
           /\ v.op = call[c].op /\ v.key = call[c].key /\ v.dead = call[c].dead
<1> DEFINE v == [call[c] EXCEPT !.pc = "done", !.row = NoRow, !.usable = usable]
<1>1. call[c] \in CallType /\ call \in [Clients -> CallType]
  BY DEF KeyInv, TypeOK
<1>2. v \in CallType
  BY <1>1 DEF CallType
<1>3. call' = [call EXCEPT ![c] = v]
  BY <1>1 DEF Answer, CallType
<1>4. call'[c] = v
  BY <1>1, <1>3
<1>5. /\ v.pc = "done" /\ v.usable = usable /\ v.row = NoRow
      /\ v.op = call[c].op /\ v.key = call[c].key /\ v.dead = call[c].dead
  BY <1>1 DEF CallType
<1> HIDE DEF v
<1> QED BY <1>2, <1>3, <1>4, <1>5

(* A validation, a revocation or a listing begins.                         *)
LEMMA BeginStep ==
  ASSUME KeyInv, NEW c \in Clients, ValidateKey(c) \/ RevokeKey(c) \/ ListKeys(c)
  PROVE  KeyInv'
<1>0. handed \subseteq Known /\ Known \subseteq Keys
  BY DEF KeyInv, TypeOK, Known
<1>1. ASSUME NEW v \in CallType,
             call' = [call EXCEPT ![c] = v], call'[c] = v,
             <<v.op, v.pc>> \in {<<"validate", "select">>, <<"revoke", "update">>, <<"list", "list">>},
             v.op = "revoke" => v.key \in Known \cup {NoKey},
             v.dead \subseteq acked, v.usable = {},
             UNCHANGED <<clock, api_keys, task, handed, acked>>
      PROVE  KeyInv'
  <2>1. TasksOK'
    BY <1>1, TasksKept
  <2>2. CallInv(c)'
    BY <1>1 DEF CallInv, Known
  <2> QED BY <1>1, <2>1, <2>2, OneCall
<1>2. CASE ValidateKey(c)
  <2>1. PICK k \in handed \cup {NoKey} : Begin(c, "validate", "select", k, {k})
    BY <1>2 DEF ValidateKey
  <2>2. k \in Keys \cup {NoKey}
    BY <1>0
  <2> QED BY <1>1, <2>1, <2>2, Begins
<1>3. CASE RevokeKey(c)
  <2>1. PICK k \in Known \cup {NoKey} : Begin(c, "revoke", "update", k, {})
    BY <1>3 DEF RevokeKey
  <2>2. k \in Keys \cup {NoKey}
    BY <1>0
  <2> QED BY <1>1, <2>1, <2>2, Begins
<1>4. CASE ListKeys(c)
  <2>1. Begin(c, "list", "list", NoKey, Keys)
    BY <1>4 DEF ListKeys
  <2> QED BY <1>1, <2>1, Begins
<1> QED BY <1>2, <1>3, <1>4

(* A key is drawn: it is nobody's.                                         *)
LEMMA CreateStep ==
  ASSUME KeyInv, NEW c \in Clients, CreateKey(c)
  PROVE  KeyInv'
<1>1. PICK k \in Keys \ (Known \cup {call[d].key : d \in Clients}) :
        Begin(c, "create", "insert", k, {})
  BY DEF CreateKey
<1>2. PICK v \in CallType :
           /\ call' = [call EXCEPT ![c] = v] /\ call'[c] = v
           /\ v.op = "create" /\ v.pc = "insert" /\ v.key = k /\ v.dead \subseteq acked
           /\ v.usable = {}
           /\ UNCHANGED <<clock, api_keys, task, handed, acked>>
  BY <1>1, Begins
<1>3. call \in [Clients -> CallType]
  BY DEF KeyInv, TypeOK
<1>4. \A d \in Clients \ {c} : call'[d] = call[d]
  BY <1>2, <1>3
<1>5. Known' = Known
  BY <1>2 DEF Known
<1>6. TypeOK'
  BY <1>2, <1>3, <1>5 DEF KeyInv, TypeOK
<1>7. KeysFresh'
  <2>1. \A d \in Clients : call[d].key # k
    BY <1>1
  <2> QED BY <1>1, <1>2, <1>4, <1>5, <2>1 DEF KeyInv, KeysFresh
<1>8. RevocationsHold'
  BY <1>2 DEF KeyInv, RevocationsHold
<1>9. CallInv(c)'
  BY <1>1, <1>2 DEF CallInv
<1>10. Grows
  BY <1>2, <1>5 DEF Grows
<1>11. \A d \in Clients : CallInv(d)'
  BY <1>4, <1>9, <1>10, Untouched DEF KeyInv, CallInv
<1> QED BY <1>6, <1>7, <1>8, <1>11 DEF KeyInv

(* A step that changes rows but removes none, and answers one call.        *)
LEMMA TableStep ==
  ASSUME KeyInv, Grows, UNCHANGED <<clock, task, handed, acked>>,
         api_keys' \in [Keys -> KeyRow \cup {NoRow}],
         NEW c \in Clients, NEW v \in CallType,
         call' = [call EXCEPT ![c] = v], v.pc = "done", CallInv(c)',
         \A k \in Known' \ Known : call[c].pc = "insert" /\ k = call[c].key
  PROVE  KeyInv'
<1>1. call \in [Clients -> CallType]
  BY DEF KeyInv, TypeOK
<1>2. call'[c] = v /\ \A d \in Clients \ {c} : call'[d] = call[d]
  BY <1>1
<1>3. Known \subseteq Known'
  BY DEF Grows
<1>4. TypeOK'
  BY <1>1, <1>3 DEF KeyInv, TypeOK
<1>5. KeysFresh'
  BY <1>2 DEF KeyInv, KeysFresh
<1>6. RevocationsHold'
  BY DEF KeyInv, TypeOK, RevocationsHold, Grows
<1>7. \A d \in Clients : CallInv(d)'
  BY <1>2, Untouched DEF KeyInv, CallInv
<1> QED BY <1>4, <1>5, <1>6, <1>7 DEF KeyInv

(* The INSERT hits no row that is there already.                           *)
LEMMA InsertStep ==
  ASSUME KeyInv, NEW c \in Clients, InsertKey(c)
  PROVE  KeyInv'
<1> DEFINE k == call[c].key
           row == [revoked |-> FALSE, used |-> Never]
<1>1. /\ call[c].pc = "insert" /\ Answer(c, {}) /\ UNCHANGED <<clock, task, handed, acked>>
      /\ api_keys' = [api_keys EXCEPT ![k] = row]
  BY DEF InsertKey
<1>2. k \in Keys \ Known /\ call[c].op = "create" /\ call[c].dead \subseteq acked
  BY <1>1 DEF KeyInv, CallInv, KeysFresh
<1>3. row \in KeyRow /\ row # NoRow
  <2>1. row \in KeyRow
    BY DEF KeyRow
  <2>2. NoRow \notin KeyRow
    BY KeyConstants DEF KeyConstants
  <2> HIDE DEF row
  <2> QED BY <2>1, <2>2
<1> HIDE DEF row
<1>4. api_keys \in [Keys -> KeyRow \cup {NoRow}]
  BY DEF KeyInv, TypeOK
<1>5. PICK v \in CallType :
           /\ call' = [call EXCEPT ![c] = v] /\ call'[c] = v
           /\ v.pc = "done" /\ v.usable = {}
           /\ v.op = call[c].op /\ v.key = k /\ v.dead = call[c].dead
  BY <1>1, Answered
<1> HIDE DEF k
<1>6. /\ api_keys' \in [Keys -> KeyRow \cup {NoRow}]
      /\ api_keys'[k] = row /\ \A j \in Keys \ {k} : api_keys'[j] = api_keys[j]
  BY <1>1, <1>2, <1>3, <1>4
<1>7. Known' = Known \cup {k}
  BY <1>2, <1>3, <1>6 DEF Known
<1>8. Grows
  BY <1>1, <1>2, <1>6, <1>7 DEF Grows, Known
<1>9. CallInv(c)'
  BY <1>1, <1>2, <1>5, <1>7 DEF CallInv
<1> QED BY <1>1, <1>5, <1>6, <1>7, <1>8, <1>9, TableStep DEF k

(* The UPDATE of revoke_key sets one flag and nothing else.                *)
LEMMA UpdateStep ==
  ASSUME KeyInv, NEW c \in Clients, UpdateRevoked(c)
  PROVE  KeyInv'
<1> DEFINE k == call[c].key
<1>1. /\ call[c].pc = "update" /\ Answer(c, {}) /\ UNCHANGED <<clock, task, handed, acked>>
      /\ api_keys' = [j \in Keys |->
           IF j = k THEN [api_keys[j] EXCEPT !.revoked = TRUE] ELSE api_keys[j]]
  BY DEF UpdateRevoked
<1>2. call[c].op = "revoke" /\ (k # NoKey => k \in Known) /\ call[c].dead \subseteq acked
  BY <1>1 DEF KeyInv, CallInv
<1>3. api_keys \in [Keys -> KeyRow \cup {NoRow}]
  BY DEF KeyInv, TypeOK
<1>4. PICK v \in CallType :
           /\ call' = [call EXCEPT ![c] = v] /\ call'[c] = v
           /\ v.pc = "done" /\ v.usable = {}
           /\ v.op = call[c].op /\ v.key = k /\ v.dead = call[c].dead
  BY <1>1, Answered
<1> HIDE DEF k
<1>5. \A j \in Keys \ {k} : api_keys'[j] = api_keys[j]
  BY <1>1
<1>6. ASSUME k # NoKey PROVE k \in Keys /\ api_keys'[k] \in KeyRow /\ api_keys'[k].revoked
  <2>1. k \in Keys /\ api_keys[k] \in KeyRow
    BY <1>2, <1>3, <1>6 DEF Known
  <2>2. api_keys'[k] = [api_keys[k] EXCEPT !.revoked = TRUE]
    BY <1>1, <2>1
  <2> QED BY <2>1, <2>2 DEF KeyRow
<1>7. api_keys' \in [Keys -> KeyRow \cup {NoRow}]
  <2>1. \A j \in Keys : api_keys'[j] \in KeyRow \cup {NoRow}
    BY <1>3, <1>5, <1>6, KeyConstants DEF KeyConstants
  <2>2. DOMAIN api_keys' = Keys /\ api_keys' = [j \in DOMAIN api_keys' |-> api_keys'[j]]
    BY <1>1
  <2> QED BY <2>1, <2>2
<1>8. Known' = Known
  <2>1. ASSUME NEW j \in Keys PROVE (api_keys'[j] # NoRow) <=> (api_keys[j] # NoRow)
    <3>1. CASE j = k
      BY <1>2, <1>6, <3>1, KeyConstants DEF KeyConstants, Known
    <3>2. CASE j # k
      BY <1>5, <3>2
    <3> QED BY <3>1, <3>2
  <2> QED BY <2>1 DEF Known
<1>9. Grows
  BY <1>1, <1>5, <1>6, <1>8, KeyConstants DEF KeyConstants, Grows, Known
<1>10. CallInv(c)'
  BY <1>1, <1>2, <1>4, <1>6, <1>8 DEF CallInv
<1> QED BY <1>1, <1>4, <1>7, <1>8, <1>9, <1>10, TableStep

(* The row read: it is revoked if that was acknowledged before the call.   *)
LEMMA SelectStep ==
  ASSUME KeyInv, NEW c \in Clients, SelectKey(c)
  PROVE  KeyInv'
<1> DEFINE row == RowOf(call[c].key)
           v == [call[c] EXCEPT !.pc = "judge", !.row = row]
<1>1. /\ call[c].pc = "select" /\ UNCHANGED <<clock, api_keys, task, handed, acked>>
      /\ CallInv(c)
  BY DEF SelectKey, KeyInv
<1>2. call[c] \in CallType /\ call \in [Clients -> CallType]
  BY DEF KeyInv, TypeOK
<1>3. call' = [call EXCEPT ![c] = v] /\ call'[c] = v
  BY <1>2 DEF SelectKey
<1>4. row \in KeyRow \cup {NoRow}
  BY DEF RowOf, KeyInv, TypeOK
<1>5. row # NoRow => call[c].key \in Known /\ row = api_keys[call[c].key]
  BY DEF RowOf, Known
<1> HIDE DEF row
<1>6. v \in CallType
  BY <1>2, <1>4 DEF CallType
<1>7. /\ v.pc = "judge" /\ v.row = row /\ v.op = call[c].op /\ v.key = call[c].key
      /\ v.usable = call[c].usable /\ v.dead = call[c].dead
  BY <1>2 DEF CallType
<1> HIDE DEF v
<1>8. row # NoRow /\ call[c].key \in call[c].dead => row.revoked
  BY <1>1, <1>5 DEF CallInv, KeyInv, RevocationsHold
<1>9. CallInv(c)'
  BY <1>1, <1>3, <1>5, <1>7, <1>8 DEF CallInv, Known
<1>10. TasksOK'
  BY <1>1, TasksKept
<1> QED BY <1>1, <1>3, <1>6, <1>7, <1>9, <1>10, OneCall

(* An answer that shows no key of a revocation that was acknowledged.      *)
LEMMA AnswerStep ==
  ASSUME KeyInv, NEW c \in Clients, NEW usable \in SUBSET Keys, Answer(c, usable),
         call[c].op \in {"validate", "list"}, usable \cap call[c].dead = {},
         UNCHANGED <<clock, api_keys, handed, acked>>, TasksOK'
  PROVE  KeyInv'
<1>1. PICK v \in CallType :
           /\ call' = [call EXCEPT ![c] = v] /\ call'[c] = v
           /\ v.pc = "done" /\ v.usable = usable
           /\ v.op = call[c].op /\ v.key = call[c].key /\ v.dead = call[c].dead
  BY Answered
<1>2. CallInv(c)'
  BY <1>1 DEF KeyInv, CallInv
<1> QED BY <1>1, <1>2, OneCall

(* The verdict, and the listing.                                           *)
LEMMA JudgeStep ==
  ASSUME KeyInv, NEW c \in Clients, AcceptKey(c) \/ RejectKey(c) \/ ReadKeys(c)
  PROVE  KeyInv'
<1>1. CallInv(c) /\ UNCHANGED <<clock, api_keys, handed, acked>>
  BY DEF KeyInv, AcceptKey, RejectKey, ReadKeys
<1>2. CASE RejectKey(c)
  <2>1. TasksOK'
    BY <1>2, TasksKept DEF RejectKey
  <2>2. Answer(c, {}) /\ call[c].op = "validate"
    BY <1>1, <1>2 DEF RejectKey, CallInv
  <2> QED BY <1>1, <2>1, <2>2, AnswerStep
<1>3. CASE ReadKeys(c)
  <2> DEFINE shown == {k \in Known : ~api_keys[k].revoked}
  <2>1. TasksOK'
    BY <1>3, TasksKept DEF ReadKeys
  <2>2. Answer(c, shown) /\ call[c].op = "list" /\ shown \in SUBSET Keys
    BY <1>1, <1>3 DEF ReadKeys, CallInv, Known
  <2>3. shown \cap call[c].dead = {}
    BY <1>1 DEF CallInv, KeyInv, RevocationsHold
  <2> HIDE DEF shown
  <2> QED BY <1>1, <2>1, <2>2, <2>3, AnswerStep
<1>4. CASE AcceptKey(c)
  <2> DEFINE k == call[c].key
  <2>1. /\ Answer(c, {k}) /\ call[c].op = "validate" /\ k \in Known
        /\ k \notin call[c].dead
    BY <1>1, <1>4 DEF AcceptKey, Usable, CallInv
  <2>2. Detached(k) \in TaskType /\ Detached(k).key = k
    <3>1. PICK b \in BOOLEAN : b = (Pending(k) = {})
      <4>1. CASE Pending(k) = {}
        <5>1. TRUE = (Pending(k) = {})
          BY <4>1
        <5> QED BY <5>1, Zenon
      <4>2. CASE Pending(k) # {}
        <5>1. FALSE = (Pending(k) = {})
          BY <4>2
        <5> QED BY <5>1, Zenon
      <4> QED BY <4>1, <4>2, Zenon
    <3>2. Detached(k) = [key |-> k, pc |-> "spawned", stamp |-> 0, alone |-> b]
      BY <3>1, Zenon DEF Detached
    <3>3. k \in Keys /\ 0 \in 0..MaxClock
      BY <2>1, KeyConstants DEF KeyConstants, Known
    <3> QED BY <3>2, <3>3 DEF TaskType
  <2> HIDE DEF k
  <2>3. TasksOK'
    <3>1. task \in Seq(TaskType) /\ \A i \in DOMAIN task : task[i].key \in Known
      BY DEF KeyInv, TypeOK
    <3>2. task' = Append(task, Detached(k)) /\ Known' = Known
      BY <1>1, <1>4 DEF AcceptKey, Known, k
    <3> QED BY <2>1, <2>2, <3>1, <3>2 DEF TasksOK
  <2>4. {k} \in SUBSET Keys /\ {k} \cap call[c].dead = {}
    BY <2>1 DEF Known
  <2> QED BY <1>1, <2>1, <2>3, <2>4, AnswerStep
<1> QED BY <1>2, <1>3, <1>4

(* A client that goes idle.                                                *)
LEMMA IdleCall == /\ Idle \in CallType /\ Idle.pc = "idle" /\ Idle.op = "none"
                  /\ Idle.dead = {} /\ Idle.usable = {} /\ Idle.row = NoRow
BY DEF Idle, Call, CallType

(* The answer reaches the caller: a created key is known to be one, a      *)
(* revocation is acknowledged.                                             *)
LEMMA ReturnStep ==
  ASSUME KeyInv, NEW c \in Clients, Return(c) \/ CallAborted(c)
  PROVE  KeyInv'
<1>1. call' = [call EXCEPT ![c] = Idle] /\ UNCHANGED <<clock, api_keys, task>>
  BY DEF Return, CallAborted
<1>2. call \in [Clients -> CallType]
  BY DEF KeyInv, TypeOK
<1>3. call'[c] = Idle /\ \A d \in Clients \ {c} : call'[d] = call[d]
  BY <1>1, <1>2
<1>4. Known' = Known
  BY <1>1 DEF Known
<1>5. acked \subseteq acked' /\ handed' \subseteq Known
      /\ \A k \in acked' \ acked : k \in Known /\ api_keys[k].revoked
  <2>1. CASE CallAborted(c)
    BY <2>1 DEF CallAborted, KeyInv, TypeOK
  <2>2. CASE Return(c)
    BY <2>2, KeyConstants DEF KeyConstants, Return, KeyInv, TypeOK, CallInv
  <2> QED BY <2>1, <2>2
<1>6. TypeOK'
  BY <1>1, <1>2, <1>4, <1>5, IdleCall DEF KeyInv, TypeOK
<1>7. KeysFresh'
  BY <1>3, <1>4, IdleCall DEF KeyInv, KeysFresh
<1>8. RevocationsHold'
  BY <1>1, <1>5 DEF KeyInv, RevocationsHold
<1>9. Grows
  BY <1>1, <1>4, <1>5 DEF Grows
<1>10. CallInv(c)'
  BY <1>3, IdleCall DEF CallInv
<1>11. \A d \in Clients : CallInv(d)'
  BY <1>3, <1>9, <1>10, Untouched DEF KeyInv, CallInv
<1> QED BY <1>6, <1>7, <1>8, <1>11 DEF KeyInv

(* A detached task: whatever it does to last_used_at, it leaves the flag.  *)
LEMMA TaskMoves ==
  ASSUME KeyInv, NEW i \in DOMAIN task, TaskStep(i)
  PROVE  KeyInv'
<1>1. /\ task \in Seq(TaskType) /\ task[i] \in TaskType /\ task[i].key \in Known
      /\ clock \in 0..MaxClock /\ api_keys \in [Keys -> KeyRow \cup {NoRow}]
      /\ call \in [Clients -> CallType]
  BY DEF KeyInv, TypeOK
<1>2. UNCHANGED <<clock, call, handed, acked>>
  BY DEF TaskStep, BindStamp, RecordUse, RecordFails
<1>3. /\ api_keys' \in [Keys -> KeyRow \cup {NoRow}]
      /\ \A k \in Keys : /\ (api_keys'[k] # NoRow) <=> (api_keys[k] # NoRow)
                         /\ api_keys[k] # NoRow => api_keys'[k].revoked = api_keys[k].revoked
  <2>1. CASE UNCHANGED api_keys
    BY <1>1, <2>1
  <2>2. CASE RecordUse(i)
    <3> DEFINE k == task[i].key
               row == [api_keys[k] EXCEPT !.used = task[i].stamp]
    <3>1. k \in Keys /\ api_keys[k] \in KeyRow /\ task[i].stamp \in 0..MaxClock
      BY <1>1 DEF Known, TaskType
    <3>2. row \in KeyRow /\ row.revoked = api_keys[k].revoked
      BY <3>1 DEF KeyRow
    <3>3. api_keys' = [api_keys EXCEPT ![k] = row]
      BY <2>2 DEF RecordUse, Updated
    <3>4. row # NoRow
      BY <3>2, KeyConstants DEF KeyConstants
    <3> HIDE DEF row, k
    <3>5. api_keys[k] # NoRow
      BY <3>1, KeyConstants DEF KeyConstants
    <3> QED BY <1>1, <3>1, <3>2, <3>3, <3>4, <3>5
  <2> QED BY <2>1, <2>2 DEF TaskStep, BindStamp, RecordFails
<1>4. Known' = Known
  BY <1>3 DEF Known
<1>5. TasksOK'
  <2>1. PICK t \in TaskType : task' = [task EXCEPT ![i] = t] /\ t.key = task[i].key
    <3>1. CASE BindStamp(i)
      <4> DEFINE t == [task[i] EXCEPT !.pc = "bound", !.stamp = clock]
      <4>1. t \in TaskType /\ t.key = task[i].key
        BY <1>1 DEF TaskType
      <4>2. task' = [task EXCEPT ![i] = t]
        BY <1>1, <3>1 DEF BindStamp, TaskType
      <4> HIDE DEF t
      <4> QED BY <4>1, <4>2
    <3>2. CASE RecordUse(i)
      <4> DEFINE t == [task[i] EXCEPT !.pc = "recorded"]
      <4>1. t \in TaskType /\ t.key = task[i].key
        BY <1>1 DEF TaskType
      <4>2. task' = [task EXCEPT ![i] = t]
        BY <1>1, <3>2 DEF RecordUse, TaskType
      <4> HIDE DEF t
      <4> QED BY <4>1, <4>2
    <3>3. CASE RecordFails(i)
      <4> DEFINE t == [task[i] EXCEPT !.pc = "lost"]
      <4>1. t \in TaskType /\ t.key = task[i].key
        BY <1>1 DEF TaskType
      <4>2. task' = [task EXCEPT ![i] = t]
        BY <1>1, <3>3 DEF RecordFails, TaskType
      <4> HIDE DEF t
      <4> QED BY <4>1, <4>2
    <3> QED BY <3>1, <3>2, <3>3 DEF TaskStep
  <2>2. \A j \in DOMAIN task : task[j].key \in Known
    BY DEF KeyInv, TypeOK
  <2> QED BY <1>1, <1>4, <2>1, <2>2 DEF TasksOK
<1>6. TypeOK'
  BY <1>1, <1>2, <1>3, <1>4, <1>5 DEF KeyInv, TypeOK, TasksOK
<1>7. KeysFresh'
  BY <1>2, <1>4 DEF KeyInv, KeysFresh
<1>8. RevocationsHold' /\ Grows
  BY <1>2, <1>3, <1>4 DEF KeyInv, TypeOK, RevocationsHold, Grows, Known
<1>9. \A d \in Clients : CallInv(d)'
  BY <1>2, <1>8, Untouched DEF KeyInv, CallInv
<1> QED BY <1>6, <1>7, <1>8, <1>9 DEF KeyInv

(* The process ends and starts again.                                      *)
LEMMA RestartStep ==
  ASSUME KeyInv, Restart
  PROVE  KeyInv'
<1>1. UNCHANGED <<clock, api_keys, handed, acked>> /\ call' = [c \in Clients |-> Idle]
  BY DEF Restart
<1>2. Known' = Known
  BY <1>1 DEF Known
<1>3. TasksOK'
  <2>1. task \in Seq(TaskType) /\ \A i \in DOMAIN task : task[i].key \in Known
    BY DEF KeyInv, TypeOK
  <2> DEFINE After(i) == IF task[i].pc \in {"spawned", "bound"}
                         THEN [task[i] EXCEPT !.pc = "lost"] ELSE task[i]
  <2>2. task' = [i \in DOMAIN task |-> After(i)]
    BY DEF Restart
  <2>3. \A i \in DOMAIN task : After(i) \in TaskType /\ After(i).key = task[i].key
    <3> SUFFICES ASSUME NEW i \in DOMAIN task
                 PROVE  After(i) \in TaskType /\ After(i).key = task[i].key
      OBVIOUS
    <3>1. task[i] \in TaskType
      BY <2>1
    <3>2. /\ [task[i] EXCEPT !.pc = "lost"] \in TaskType
          /\ [task[i] EXCEPT !.pc = "lost"].key = task[i].key
      BY <3>1 DEF TaskType
    <3> QED BY <3>1, <3>2
  <2> HIDE DEF After
  <2>4. DOMAIN task = 1..Len(task) /\ Len(task) \in Nat
    BY <2>1
  <2>5. task' \in Seq(TaskType) /\ DOMAIN task' = DOMAIN task
    BY <2>2, <2>3, <2>4
  <2>6. \A i \in DOMAIN task' : task'[i].key \in Known
    BY <2>1, <2>2, <2>3, <2>5
  <2> QED BY <1>2, <2>5, <2>6 DEF TasksOK
<1>4. TypeOK'
  BY <1>1, <1>2, <1>3, IdleCall DEF KeyInv, TypeOK, TasksOK
<1>5. KeysFresh' /\ RevocationsHold'
  BY <1>1, <1>2, IdleCall DEF KeyInv, KeysFresh, RevocationsHold
<1>6. \A c \in Clients : CallInv(c)'
  BY <1>1, IdleCall DEF CallInv
<1> QED BY <1>4, <1>5, <1>6 DEF KeyInv

(* Time passes, or nothing happens.                                        *)
LEMMA OtherStep ==
  ASSUME KeyInv, Tick \/ UNCHANGED vars
  PROVE  KeyInv'
<1>1. UNCHANGED <<api_keys, call, task, handed, acked>>
  BY DEF Tick, vars
<1>2. clock' \in 0..MaxClock
  BY KeyConstants DEF KeyConstants, Tick, vars, KeyInv, TypeOK
<1>3. TypeOK'
  BY <1>1, <1>2 DEF KeyInv, TypeOK, Known
<1>4. KeysFresh' /\ RevocationsHold' /\ \A c \in Clients : CallInv(c)'
  BY <1>1 DEF KeyInv, KeysFresh, RevocationsHold, CallInv, Known
<1> QED BY <1>3, <1>4 DEF KeyInv

-----------------------------------------------------------------------------
(* The invariant of the keys: every step of create_key, validate_key,      *)
(* revoke_key, list_keys and of the detached updates keeps KeyInv.         *)
THEOREM KeysCorrect == Spec => []KeyInv
<1>1. Init => KeyInv
  <2> SUFFICES ASSUME Init PROVE KeyInv
    OBVIOUS
  <2>1. /\ clock \in 0..MaxClock /\ api_keys \in [Keys -> KeyRow \cup {NoRow}]
        /\ call \in [Clients -> CallType] /\ \A c \in Clients : call[c] = Idle
        /\ task \in Seq(TaskType) /\ DOMAIN task = {} /\ handed = {} /\ acked = {}
    BY KeyConstants, IdleCall DEF KeyConstants, Init
  <2>2. TypeOK
    BY <2>1 DEF TypeOK
  <2>3. KeysFresh /\ RevocationsHold /\ \A c \in Clients : CallInv(c)
    BY <2>1, IdleCall DEF KeysFresh, RevocationsHold, CallInv
  <2> QED BY <2>2, <2>3 DEF KeyInv
<1>2. KeyInv /\ [Next]_vars => KeyInv'
  <2> SUFFICES ASSUME KeyInv, [Next]_vars PROVE KeyInv'
    OBVIOUS
  <2>1. ASSUME NEW c \in Clients, ClientStep(c) PROVE KeyInv'
    BY <2>1, CreateStep, InsertStep, BeginStep, SelectStep, JudgeStep, UpdateStep, ReturnStep
       DEF ClientStep
  <2>2. ASSUME NEW i \in DOMAIN task, TaskStep(i) PROVE KeyInv'
    BY <2>2, TaskMoves
  <2>3. CASE Restart
    BY <2>3, RestartStep
  <2>4. CASE Tick \/ UNCHANGED vars
    BY <2>4, OtherStep
  <2> QED BY <2>1, <2>2, <2>3, <2>4 DEF Next
<1> QED BY <1>1, <1>2, PTL DEF Spec

(* Type correctness: every key handed out has a row, and a detached update *)
(* always has one to write to.                                             *)
THEOREM KeyTypes == Spec => []TypeOK
<1>1. KeyInv => TypeOK
  BY DEF KeyInv
<1> QED BY <1>1, KeysCorrect, PTL

(* Once some revoke_key has returned, no validate_key that starts later    *)
(* accepts the key and no list_keys shows it as usable.                    *)
THEOREM KeyRevocationIsFinal == Spec => []RevokedKeyStaysOut
<1>1. KeyInv => RevokedKeyStaysOut
  BY DEF KeyInv, CallInv, RevokedKeyStaysOut
<1> QED BY <1>1, KeysCorrect, PTL

-----------------------------------------------------------------------------
(* What last_used_at says.                                                 *)

Settled(t) == t.pc \in {"recorded", "lost"}

(* A task that was alone when it was spawned stays behind no earlier one.  *)
AloneIsAlone ==
  \A i, j \in DOMAIN task :
    task[i].alone /\ j < i /\ task[j].key = task[i].key => Settled(task[j])

UseInv == LastUseIsAUse /\ AloneIsAlone /\ LastUseIsTheLast

(* No row changes its last use; a new row has none.                        *)
SameUses ==
  /\ \A k \in Known : k \in Known' /\ api_keys'[k].used = api_keys[k].used
  /\ \A k \in Known' \ Known : api_keys'[k].used = Never

(* No update ends; one that has ended stays as it is.                      *)
SameTasks ==
  \A i \in DOMAIN task :
    /\ task'[i].key = task[i].key /\ task'[i].alone = task[i].alone
    /\ Settled(task[i]) => task'[i] = task[i]
    /\ task'[i].pc = "recorded" => task[i].pc = "recorded"

(* A step that records nothing and spawns nothing.                         *)
LEMMA NothingRecorded ==
  ASSUME KeyInv, UseInv, SameUses, SameTasks, DOMAIN task' = DOMAIN task
  PROVE  UseInv'
<1>0. \A i \in DOMAIN task : task[i].key \in Known
  BY DEF KeyInv, TypeOK
<1>1. LastUseIsAUse'
  BY DEF UseInv, LastUseIsAUse, SameUses, SameTasks, Settled
<1>2. AloneIsAlone'
  BY DEF UseInv, AloneIsAlone, SameTasks, Settled
<1>3. LastUseIsTheLast'
  <2> SUFFICES ASSUME NEW i \in DOMAIN task, task'[i].pc = "recorded", task'[i].alone,
                      \A j \in DOMAIN task : j > i => task'[j].key # task'[i].key
               PROVE  api_keys'[task'[i].key].used = task'[i].stamp
    BY DEF LastUseIsTheLast
  <2>1. task'[i] = task[i] /\ task[i].pc = "recorded" /\ task[i].alone
    BY DEF SameTasks, Settled
  <2>2. \A j \in DOMAIN task : j > i => task[j].key # task[i].key
    BY DEF SameTasks
  <2> QED BY <1>0, <2>1, <2>2 DEF UseInv, LastUseIsTheLast, SameUses
<1> QED BY <1>1, <1>2, <1>3 DEF UseInv

(* A step of create_key, list_keys, revoke_key, or of validate_key up to   *)
(* its verdict.                                                            *)
LEMMA ClientUses ==
  ASSUME KeyInv, UseInv, NEW c \in Clients, ClientStep(c), ~AcceptKey(c)
  PROVE  UseInv'
<1>1. task' = task
  BY DEF ClientStep, CreateKey, InsertKey, ValidateKey, SelectKey, RejectKey, RevokeKey,
         UpdateRevoked, ListKeys, ReadKeys, Return, CallAborted, Begin
<1>2. SameTasks
  BY <1>1 DEF SameTasks
<1>3. api_keys \in [Keys -> KeyRow \cup {NoRow}] /\ NoRow \notin KeyRow
  BY KeyConstants DEF KeyConstants, KeyInv, TypeOK
<1>4. CASE api_keys' = api_keys
  <2>1. SameUses
    BY <1>4 DEF SameUses, Known
  <2> QED BY <1>1, <1>2, <2>1, NothingRecorded
<1>5. CASE InsertKey(c)
  <2> DEFINE row == [revoked |-> FALSE, used |-> Never]
             k == call[c].key
  <2>1. api_keys' = [api_keys EXCEPT ![k] = row] /\ k \in Keys \ Known
    BY <1>5 DEF InsertKey, KeyInv, CallInv, KeysFresh
  <2>2. row.used = Never
    OBVIOUS
  <2> HIDE DEF row, k
  <2>3. api_keys'[k] = row /\ \A j \in Keys \ {k} : api_keys'[j] = api_keys[j]
    BY <1>3, <2>1
  <2>4. SameUses
    BY <2>1, <2>2, <2>3 DEF SameUses, Known
  <2> QED BY <1>1, <1>2, <2>4, NothingRecorded
<1>6. CASE UpdateRevoked(c)
  <2>1. ASSUME NEW k \in Keys
        PROVE  (api_keys'[k] = NoRow => api_keys[k] = NoRow)
               /\ (api_keys[k] # NoRow => api_keys'[k].used = api_keys[k].used)
               /\ (api_keys[k] = NoRow => api_keys'[k] = NoRow)
    <3>1. CASE k = call[c].key
      <4>1. api_keys[k] \in KeyRow
        BY <1>3, <1>6, <3>1, KeyConstants DEF KeyConstants, UpdateRevoked, KeyInv, CallInv, Known
      <4>2. api_keys'[k] = [api_keys[k] EXCEPT !.revoked = TRUE]
        BY <1>6, <3>1 DEF UpdateRevoked
      <4>3. api_keys'[k] \in KeyRow /\ api_keys'[k].used = api_keys[k].used
        BY <4>1, <4>2 DEF KeyRow
      <4> QED BY <1>3, <4>1, <4>3
    <3>2. CASE k # call[c].key
      BY <1>6, <3>2 DEF UpdateRevoked
    <3> QED BY <3>1, <3>2
  <2>2. SameUses
    BY <2>1 DEF SameUses, Known
  <2> QED BY <1>1, <1>2, <2>2, NothingRecorded
<1> QED
  BY <1>4, <1>5, <1>6
     DEF ClientStep, CreateKey, ValidateKey, SelectKey, RejectKey, RevokeKey,
         ListKeys, ReadKeys, Return, CallAborted, Begin

(* validate_key accepts and spawns an update.                              *)
LEMMA AcceptUses ==
  ASSUME KeyInv, UseInv, NEW c \in Clients, AcceptKey(c)
  PROVE  UseInv'
<1> DEFINE k == call[c].key
           n == Len(task)
           t == Detached(k)
<1>1. /\ task \in Seq(TaskType) /\ \A i \in DOMAIN task : task[i].key \in Known
      /\ api_keys' = api_keys /\ Known' = Known /\ k \in Known
  BY DEF KeyInv, TypeOK, AcceptKey, Known, CallInv, Usable
<1>2. t \in TaskType /\ t.key = k /\ t.pc = "spawned" /\ (t.alone => Pending(k) = {})
  <2>1. PICK b \in BOOLEAN : b = (Pending(k) = {})
    <3>1. CASE Pending(k) = {}
      <4>1. TRUE = (Pending(k) = {})
        BY <3>1
      <4> QED BY <4>1, Zenon
    <3>2. CASE Pending(k) # {}
      <4>1. FALSE = (Pending(k) = {})
        BY <3>2
      <4> QED BY <4>1, Zenon
    <3> QED BY <3>1, <3>2, Zenon
  <2>2. Detached(k) = [key |-> k, pc |-> "spawned", stamp |-> 0, alone |-> b]
    BY <2>1, Zenon DEF Detached
  <2>3. k \in Keys /\ 0 \in 0..MaxClock
    BY <1>1, KeyConstants DEF KeyConstants, Known
  <2>4. b => Pending(k) = {}
    BY <2>1, Zenon
  <2> QED BY <2>2, <2>3, <2>4 DEF TaskType
<1>3. task' = Append(task, t)
  BY DEF AcceptKey
<1> HIDE DEF t, k
<1>4. /\ n \in Nat /\ DOMAIN task = 1..n /\ DOMAIN task' = 1..(n + 1)
      /\ task'[n + 1] = t /\ \A i \in 1..n : task'[i] = task[i]
  BY <1>1, <1>2, <1>3
<1>5. \A i \in DOMAIN task : task[i].key = k /\ t.alone => Settled(task[i])
  <2> SUFFICES ASSUME NEW i \in DOMAIN task, task[i].key = k, t.alone PROVE Settled(task[i])
    BY DEF Settled
  <2>1. task[i] \in TaskType
    BY <1>1
  <2>2. task[i].pc \in {"spawned", "bound", "recorded", "lost"}
    BY <2>1 DEF TaskType
  <2> QED BY <1>2, <2>2 DEF Pending, Settled
<1> HIDE DEF n
<1>6. LastUseIsAUse'
  BY <1>1, <1>4 DEF UseInv, LastUseIsAUse
<1>7. AloneIsAlone'
  <2> SUFFICES ASSUME NEW i \in 1..(n + 1), NEW j \in 1..(n + 1), task'[i].alone, j < i,
                      task'[j].key = task'[i].key
               PROVE  Settled(task'[j])
    BY <1>4 DEF AloneIsAlone, Settled
  <2>1. j \in 1..n /\ task'[j] = task[j]
    BY <1>4
  <2>2. CASE i = n + 1
    BY <1>2, <1>4, <1>5, <2>1, <2>2
  <2>3. CASE i # n + 1
    <3>1. i \in 1..n /\ task'[i] = task[i]
      BY <1>4, <2>3
    <3> QED BY <1>4, <2>1, <3>1 DEF UseInv, AloneIsAlone
  <2> QED BY <2>2, <2>3
<1>8. LastUseIsTheLast'
  <2> SUFFICES ASSUME NEW i \in 1..(n + 1), task'[i].pc = "recorded", task'[i].alone,
                      \A j \in 1..(n + 1) : j > i => task'[j].key # task'[i].key
               PROVE  api_keys'[task'[i].key].used = task'[i].stamp
    BY <1>4 DEF LastUseIsTheLast
  <2>1. i \in 1..n /\ task'[i] = task[i]
    BY <1>2, <1>4
  <2>2. \A j \in 1..n : j > i => task[j].key # task[i].key
    BY <1>4, <2>1
  <2> QED BY <1>1, <1>4, <2>1, <2>2 DEF UseInv, LastUseIsTheLast
<1> QED BY <1>6, <1>7, <1>8 DEF UseInv

(* A detached update takes a step.                                         *)
LEMMA TaskUses ==
  ASSUME KeyInv, UseInv, NEW i \in DOMAIN task, TaskStep(i)
  PROVE  UseInv'
<1>1. /\ task \in Seq(TaskType) /\ task[i] \in TaskType /\ task[i].key \in Known
      /\ \A j \in DOMAIN task : task[j].key \in Known
      /\ api_keys \in [Keys -> KeyRow \cup {NoRow}] /\ clock \in 0..MaxClock
  BY DEF KeyInv, TypeOK
<1>2. ASSUME NEW t, task' = [task EXCEPT ![i] = t]
      PROVE  DOMAIN task' = DOMAIN task /\ task'[i] = t
             /\ \A j \in DOMAIN task : j # i => task'[j] = task[j]
  BY <1>1, <1>2
<1>3. CASE BindStamp(i) \/ RecordFails(i)
  <2>1. PICK t : /\ task' = [task EXCEPT ![i] = t] /\ t.key = task[i].key
                 /\ t.alone = task[i].alone /\ t.pc # "recorded"
    <3>1. CASE BindStamp(i)
      <4> DEFINE t == [task[i] EXCEPT !.pc = "bound", !.stamp = clock]
      <4>1. t.key = task[i].key /\ t.alone = task[i].alone /\ t.pc # "recorded"
        BY <1>1 DEF TaskType
      <4>2. task' = [task EXCEPT ![i] = t]
        BY <1>1, <3>1 DEF BindStamp, TaskType
      <4> HIDE DEF t
      <4> QED BY <4>1, <4>2
    <3>2. CASE RecordFails(i)
      <4> DEFINE t == [task[i] EXCEPT !.pc = "lost"]
      <4>1. t.key = task[i].key /\ t.alone = task[i].alone /\ t.pc # "recorded"
        BY <1>1 DEF TaskType
      <4>2. task' = [task EXCEPT ![i] = t]
        BY <1>1, <3>2 DEF RecordFails, TaskType
      <4> HIDE DEF t
      <4> QED BY <4>1, <4>2
    <3> QED BY <1>3, <3>1, <3>2
  <2>2. ~Settled(task[i]) /\ api_keys' = api_keys
    BY <1>3 DEF BindStamp, RecordFails, Settled
  <2>3. SameTasks /\ DOMAIN task' = DOMAIN task
    BY <1>2, <2>1, <2>2 DEF SameTasks
  <2>4. SameUses
    BY <2>2 DEF SameUses, Known
  <2> QED BY <2>3, <2>4, NothingRecorded
<1>4. CASE RecordUse(i)
  <2> DEFINE k == task[i].key
             t == [task[i] EXCEPT !.pc = "recorded"]
             row == [api_keys[k] EXCEPT !.used = task[i].stamp]
  <2>1. /\ t.key = k /\ t.pc = "recorded" /\ t.alone = task[i].alone
        /\ t.stamp = task[i].stamp
    BY <1>1 DEF TaskType
  <2>2. task' = [task EXCEPT ![i] = t] /\ task[i].pc = "bound"
    BY <1>1, <1>4 DEF RecordUse, TaskType
  <2>3. k \in Keys /\ api_keys[k] \in KeyRow /\ k \in Known
    BY <1>1 DEF Known
  <2>4. row.used = task[i].stamp /\ row # NoRow
    <3>1. task[i].stamp \in 0..MaxClock
      BY <1>1 DEF TaskType
    <3>2. row \in KeyRow /\ row.used = task[i].stamp
      BY <2>3, <3>1 DEF KeyRow
    <3> QED BY <3>2, KeyConstants DEF KeyConstants
  <2>5. api_keys' = [api_keys EXCEPT ![k] = row]
    BY <1>4 DEF RecordUse, Updated
  <2> HIDE DEF k, t, row
  <2>6. api_keys'[k] = row /\ \A j \in Keys : j # k => api_keys'[j] = api_keys[j]
    BY <1>1, <2>3, <2>5
  <2>7. Known' = Known
    BY <2>3, <2>4, <2>6 DEF Known
  <2>8. /\ DOMAIN task' = DOMAIN task /\ task'[i] = t
        /\ \A j \in DOMAIN task : j # i => task'[j] = task[j]
    BY <1>2, <2>2
  <2>9. \A j \in DOMAIN task :
          /\ task'[j].key = task[j].key
          /\ Settled(task[j]) => task'[j] = task[j]
    BY <2>1, <2>2, <2>8 DEF Settled, k
  <2>10. LastUseIsAUse'
    <3> SUFFICES ASSUME NEW j \in Known, api_keys'[j].used # Never
                 PROVE  \E m \in DOMAIN task :
                          /\ task'[m].key = j /\ task'[m].pc = "recorded"
                          /\ task'[m].stamp = api_keys'[j].used
      BY <2>7, <2>8 DEF LastUseIsAUse
    <3>1. CASE j = k
      BY <2>1, <2>4, <2>6, <2>8, <3>1
    <3>2. CASE j # k
      <4>1. api_keys'[j] = api_keys[j]
        BY <2>6, <3>2 DEF Known
      <4>2. PICK m \in DOMAIN task :
              task[m].key = j /\ task[m].pc = "recorded" /\ task[m].stamp = api_keys[j].used
        BY <4>1 DEF UseInv, LastUseIsAUse
      <4>3. task'[m] = task[m]
        BY <2>9, <4>2 DEF Settled
      <4> QED BY <4>1, <4>2, <4>3
    <3> QED BY <3>1, <3>2
  <2>11. AloneIsAlone'
    <3> SUFFICES ASSUME NEW m \in DOMAIN task, NEW j \in DOMAIN task, task'[m].alone, j < m,
                        task'[j].key = task'[m].key
                 PROVE  Settled(task'[j])
      BY <2>8 DEF AloneIsAlone, Settled
    <3>1. task[m].alone
      <4>1. CASE m = i
        BY <2>1, <2>8, <4>1
      <4>2. CASE m # i
        BY <2>8, <4>2
      <4> QED BY <4>1, <4>2
    <3>2. Settled(task[j])
      BY <2>9, <3>1 DEF UseInv, AloneIsAlone
    <3> QED BY <2>9, <3>2
  <2>12. LastUseIsTheLast'
    <3> SUFFICES ASSUME NEW m \in DOMAIN task, task'[m].pc = "recorded", task'[m].alone,
                        \A j \in DOMAIN task : j > m => task'[j].key # task'[m].key
                 PROVE  api_keys'[task'[m].key].used = task'[m].stamp
      BY <2>8 DEF LastUseIsTheLast
    <3>1. CASE m = i
      BY <2>1, <2>4, <2>6, <2>8, <3>1
    <3>2. CASE m # i
      <4>1. /\ task'[m] = task[m]
            /\ \A j \in DOMAIN task : j > m => task[j].key # task[m].key
        BY <2>8, <2>9, <3>2
      <4>2. api_keys[task[m].key].used = task[m].stamp
        BY <4>1 DEF UseInv, LastUseIsTheLast
      <4>3. task[m].key # k
        <5> SUFFICES ASSUME task[m].key = k PROVE FALSE
          OBVIOUS
        <5>1. i < m
          <6>1. ~(i > m)
            BY <4>1 DEF k
          <6>2. DOMAIN task \subseteq Int
            BY <1>1
          <6> QED BY <3>2, <6>1, <6>2
        <5>2. Settled(task[i])
          BY <4>1, <5>1 DEF UseInv, AloneIsAlone, k
        <5> QED BY <2>2, <5>2 DEF Settled
      <4>4. api_keys'[task[m].key] = api_keys[task[m].key]
        BY <1>1, <2>6, <4>3 DEF Known
      <4> QED BY <4>1, <4>2, <4>4
    <3> QED BY <3>1, <3>2
  <2> QED BY <2>10, <2>11, <2>12 DEF UseInv
<1> QED BY <1>3, <1>4 DEF TaskStep

(* A restart ends the updates that were under way.                         *)
LEMMA RestartUses ==
  ASSUME KeyInv, UseInv, Restart
  PROVE  UseInv'
<1>1. task \in Seq(TaskType) /\ api_keys' = api_keys
  BY DEF KeyInv, TypeOK, Restart
<1>2. DOMAIN task' = DOMAIN task
  BY DEF Restart
<1>3. SameTasks
  <2> SUFFICES ASSUME NEW i \in DOMAIN task
               PROVE  /\ task'[i].key = task[i].key /\ task'[i].alone = task[i].alone
                      /\ Settled(task[i]) => task'[i] = task[i]
                      /\ task'[i].pc = "recorded" => task[i].pc = "recorded"
    BY DEF SameTasks
  <2>1. task[i] \in TaskType
    BY <1>1
  <2>2. CASE task[i].pc \in {"spawned", "bound"}
    <3>1. task'[i] = [task[i] EXCEPT !.pc = "lost"]
      BY <2>2 DEF Restart
    <3> QED BY <2>1, <2>2, <3>1 DEF TaskType, Settled
  <2>3. CASE task[i].pc \notin {"spawned", "bound"}
    BY <2>3 DEF Restart
  <2> QED BY <2>2, <2>3
<1>4. SameUses
  BY <1>1 DEF SameUses, Known
<1> QED BY <1>2, <1>3, <1>4, NothingRecorded

(* What a row says of its last use comes from an update of that key, and   *)
(* from the last one unless updates overlapped.                            *)
THEOREM UsesCorrect == Spec => []UseInv
<1>1. Init => UseInv
  BY DEF Init, UseInv, LastUseIsAUse, AloneIsAlone, LastUseIsTheLast, Known
<1>2. KeyInv /\ UseInv /\ [Next]_vars => UseInv'
  <2> SUFFICES ASSUME KeyInv, UseInv, [Next]_vars PROVE UseInv'
    OBVIOUS
  <2>1. ASSUME NEW c \in Clients, ClientStep(c) PROVE UseInv'
    BY <2>1, ClientUses, AcceptUses
  <2>2. ASSUME NEW i \in DOMAIN task, TaskStep(i) PROVE UseInv'
    BY <2>2, TaskUses
  <2>3. CASE Restart
    BY <2>3, RestartUses
  <2>4. CASE Tick \/ UNCHANGED vars
    <3>1. UNCHANGED <<api_keys, task>>
      BY <2>4 DEF Tick, vars
    <3>2. SameUses /\ SameTasks /\ DOMAIN task' = DOMAIN task
      BY <3>1 DEF SameUses, SameTasks, Known
    <3> QED BY <3>2, NothingRecorded
  <2> QED BY <2>1, <2>2, <2>3, <2>4 DEF Next
<1> QED BY <1>1, <1>2, KeysCorrect, PTL DEF Spec

(* last_used_at is a time noted after an accepted validation of this key.  *)
THEOREM LastUseWasAUse == Spec => []LastUseIsAUse
<1>1. UseInv => LastUseIsAUse
  BY DEF UseInv
<1> QED BY <1>1, UsesCorrect, PTL

(* The last validation of a key, when it found no earlier update of it     *)
(* under way and its own has run, is the one last_used_at shows.           *)
THEOREM LastUseWasTheLast == Spec => []LastUseIsTheLast
<1>1. UseInv => LastUseIsTheLast
  BY DEF UseInv
<1> QED BY <1>1, UsesCorrect, PTL

=============================================================================
