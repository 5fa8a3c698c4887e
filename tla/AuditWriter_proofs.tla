------------------------- MODULE AuditWriter_proofs -------------------------
(***************************************************************************)
(* Proofs about AuditWriter, for every set of entries and callers, every   *)
(* batch size and every bound: types, the accounting of entries, a clean   *)
(* shutdown, and the implementation of AuditTrail.                         *)
(***************************************************************************)
EXTENDS AuditWriter, TLAPS

-----------------------------------------------------------------------------
(* The inductive invariant behind the theorems.                            *)

(* What each state of the worker says about the queues and the senders.    *)
QueueShape ==
  /\ worker = "spawned" => batch = <<>> /\ pending = <<>>
  /\ worker = "select" => pending = <<>>
  /\ worker \in {"tx", "lasttx"} => batch = <<>>
  /\ worker = "lasttx" => channel = <<>> /\ ~open
  /\ WorkerGone => channel = <<>> /\ batch = <<>> /\ pending = <<>>
  /\ ~open => \A c \in Callers : call[c].pc = "idle"

(* No entry is queued twice.                                               *)
QueuesDistinct ==
  /\ Distinct(channel) /\ Distinct(batch) /\ Distinct(pending)
  /\ Range(channel) \cap Range(batch) = {}
  /\ Range(channel) \cap Range(pending) = {}
  /\ Range(batch) \cap Range(pending) = {}

(* An entry of a running call is known to nobody else.                     *)
CallsFresh ==
  /\ Range(log) \cup Range(accepted) \subseteq issued
  /\ \A c \in Callers : call[c].pc # "idle" =>
       /\ call[c].entry \in issued
       /\ call[c].entry \notin Range(log) \cup Range(accepted)
  /\ \A c, d \in Callers :
       call[c].pc # "idle" /\ call[d].pc # "idle" /\ call[c].entry = call[d].entry => c = d

(* Only a failure or the end of a process loses entries.                   *)
NoLossYet ==
  /\ starts >= 1
  /\ faults = 0 /\ starts = 1 /\ worker \notin {"none", "dead"} => lost = {}

Inv ==
  /\ TypeOK /\ QueueShape /\ QueuesDistinct /\ CallsFresh /\ NoLossYet
  /\ EntriesAccounted

-----------------------------------------------------------------------------
(* Ranges and distinctness of sequences.                                   *)

(* The empty sequence has no elements.                                     *)
LEMMA RangeEmpty == Range(<<>>) = {} /\ Distinct(<<>>)
BY DEF Range, Distinct

(* Append adds one element.                                                *)
LEMMA RangeAppend ==
  ASSUME NEW S, NEW s \in Seq(S), NEW e \in S
  PROVE  /\ Range(Append(s, e)) = Range(s) \cup {e}
         /\ Distinct(s) /\ e \notin Range(s) => Distinct(Append(s, e))
<1>1. /\ DOMAIN Append(s, e) = 1 .. Len(s) + 1 /\ DOMAIN s = 1 .. Len(s) /\ Len(s) \in Nat
      /\ Append(s, e)[Len(s) + 1] = e
      /\ \A i \in DOMAIN s : Append(s, e)[i] = s[i]
  OBVIOUS
<1>2. Range(Append(s, e)) = Range(s) \cup {e}
  BY <1>1 DEF Range
<1>3. ASSUME Distinct(s), e \notin Range(s) PROVE Distinct(Append(s, e))
  BY <1>1, <1>3 DEF Range, Distinct
<1> QED
  BY <1>2, <1>3

(* Head and Tail split the elements of a sequence.                         *)
LEMMA RangeTail ==
  ASSUME NEW S, NEW s \in Seq(S), s # <<>>
  PROVE  /\ Range(s) = {Head(s)} \cup Range(Tail(s)) /\ Head(s) \in S
         /\ Distinct(s) => Distinct(Tail(s)) /\ Head(s) \notin Range(Tail(s))
<1>1. /\ DOMAIN s = 1 .. Len(s) /\ Len(s) \in Nat /\ Len(s) >= 1 /\ Head(s) = s[1]
      /\ DOMAIN Tail(s) = 1 .. Len(s) - 1
      /\ \A i \in 1 .. Len(s) - 1 : Tail(s)[i] = s[i + 1]
  OBVIOUS
<1>2. \A i \in 2 .. Len(s) : i - 1 \in DOMAIN Tail(s) /\ Tail(s)[i - 1] = s[i]
  BY <1>1
<1>3. Range(s) \subseteq {Head(s)} \cup Range(Tail(s))
  <2> SUFFICES ASSUME NEW i \in DOMAIN s PROVE s[i] \in {Head(s)} \cup Range(Tail(s))
    BY DEF Range
  <2>1. CASE i = 1
    BY <1>1, <2>1
  <2>2. CASE i # 1
    <3>1. i - 1 \in DOMAIN Tail(s) /\ Tail(s)[i - 1] = s[i]
      BY <1>1, <1>2, <2>2
    <3>2. s[i] \in Range(Tail(s))
      BY <3>1, Zenon DEF Range
    <3> QED
      BY <3>2
  <2> QED
    BY <2>1, <2>2
<1>4. {Head(s)} \cup Range(Tail(s)) \subseteq Range(s)
  BY <1>1 DEF Range
<1>5. ASSUME Distinct(s) PROVE Distinct(Tail(s)) /\ Head(s) \notin Range(Tail(s))
  BY <1>1, <1>5 DEF Range, Distinct
<1> QED
  BY <1>1, <1>3, <1>4, <1>5

(* Concatenation adds the elements of the second sequence.                 *)
LEMMA RangeConcat ==
  ASSUME NEW S, NEW s \in Seq(S), NEW t \in Seq(S)
  PROVE  /\ Range(s \o t) = Range(s) \cup Range(t)
         /\ Distinct(s) /\ Distinct(t) /\ Range(s) \cap Range(t) = {} => Distinct(s \o t)
<1>1. /\ DOMAIN (s \o t) = 1 .. Len(s) + Len(t) /\ Len(s) \in Nat /\ Len(t) \in Nat
      /\ DOMAIN s = 1 .. Len(s) /\ DOMAIN t = 1 .. Len(t)
      /\ \A i \in DOMAIN s : (s \o t)[i] = s[i]
      /\ \A i \in 1 .. Len(s) + Len(t) : i > Len(s) => (s \o t)[i] = t[i - Len(s)]
  OBVIOUS
<1>2. \A i \in DOMAIN t : /\ i + Len(s) \in DOMAIN (s \o t) /\ (s \o t)[i + Len(s)] = t[i]
  BY <1>1
<1>3. Range(s \o t) \subseteq Range(s) \cup Range(t)
  <2> SUFFICES ASSUME NEW i \in DOMAIN (s \o t) PROVE (s \o t)[i] \in Range(s) \cup Range(t)
    BY DEF Range
  <2>1. CASE i <= Len(s)
    BY <1>1, <2>1 DEF Range
  <2>2. CASE i > Len(s)
    <3>1. i - Len(s) \in DOMAIN t
      BY <1>1, <2>2
    <3> QED
      BY <1>1, <2>2, <3>1 DEF Range
  <2> QED
    BY <1>1, <2>1, <2>2
<1>4. Range(s) \cup Range(t) \subseteq Range(s \o t)
  <2>1. \A i \in DOMAIN s : s[i] \in Range(s \o t)
    <3> SUFFICES ASSUME NEW i \in DOMAIN s PROVE s[i] \in Range(s \o t)
      OBVIOUS
    <3>1. i \in DOMAIN (s \o t) /\ (s \o t)[i] = s[i]
      BY <1>1
    <3> QED
      BY <3>1, Zenon DEF Range
  <2>2. \A i \in DOMAIN t : t[i] \in Range(s \o t)
    <3> SUFFICES ASSUME NEW i \in DOMAIN t PROVE t[i] \in Range(s \o t)
      OBVIOUS
    <3>1. i + Len(s) \in DOMAIN (s \o t) /\ (s \o t)[i + Len(s)] = t[i]
      BY <1>2
    <3> QED
      BY <3>1, Zenon DEF Range
  <2>3. Range(s) \subseteq Range(s \o t)
    BY <2>1, Zenon DEF Range
  <2>4. Range(t) \subseteq Range(s \o t)
    BY <2>2, Zenon DEF Range
  <2> QED
    BY <2>3, <2>4
<1>5. ASSUME Distinct(s), Distinct(t), Range(s) \cap Range(t) = {} PROVE Distinct(s \o t)
  <2> SUFFICES ASSUME NEW i \in DOMAIN (s \o t), NEW j \in DOMAIN (s \o t),
                      (s \o t)[i] = (s \o t)[j]
               PROVE  i = j
    BY DEF Distinct
  <2>0. i \in Nat /\ j \in Nat /\ i >= 1 /\ j >= 1
    BY <1>1
  <2>1. CASE i <= Len(s) /\ j <= Len(s)
    BY <1>1, <1>5, <2>0, <2>1 DEF Distinct
  <2>2. CASE i > Len(s) /\ j > Len(s)
    <3>1. i - Len(s) \in DOMAIN t /\ j - Len(s) \in DOMAIN t
      BY <1>1, <2>2
    <3>2. i - Len(s) = j - Len(s)
      BY <1>1, <1>5, <2>2, <3>1 DEF Distinct
    <3> QED
      BY <1>1, <2>0, <3>2
  <2>3. CASE i <= Len(s) /\ j > Len(s)
    <3>1. j - Len(s) \in DOMAIN t /\ i \in DOMAIN s
      BY <1>1, <2>0, <2>3
    <3> QED
      BY <1>1, <1>5, <2>3, <3>1 DEF Range
  <2>4. CASE i > Len(s) /\ j <= Len(s)
    <3>1. i - Len(s) \in DOMAIN t /\ j \in DOMAIN s
      BY <1>1, <2>0, <2>4
    <3> QED
      BY <1>1, <1>5, <2>4, <3>1 DEF Range
  <2> QED
    BY <1>1, <2>0, <2>1, <2>2, <2>3, <2>4
<1> QED
  BY <1>3, <1>4, <1>5

(* The elements of a sequence over S are in S.                             *)
LEMMA RangeType ==
  ASSUME NEW S, NEW s \in Seq(S)
  PROVE  Range(s) \subseteq S
BY DEF Range

-----------------------------------------------------------------------------
(* Types, and the shape of the queues in each state of the worker.         *)

Shape == TypeOK /\ QueueShape

(* A batch that is ready to be flushed keeps its type.                     *)
LEMMA FlushBatchType ==
  ASSUME NEW b \in Seq(Entries), NEW next \in WorkerStates, NEW last \in WorkerStates,
         FlushBatch(b, next, last)
  PROVE  /\ batch' \in Seq(Entries) /\ pending' \in Seq(Entries) /\ worker' \in WorkerStates
         /\ \/ worker' = next /\ batch' = <<>> /\ pending' = <<>> /\ b = <<>>
            \/ worker' = last /\ batch' = <<>> /\ pending' = b
<1>1. CASE b = <<>>
  BY <1>1 DEF FlushBatch
<1>2. CASE b # <<>>
  BY <1>2 DEF FlushBatch
<1> QED
  BY <1>1, <1>2

(* An entry that is left is a fresh one.                                   *)
LEMMA FreshEntryIsFresh == Entries \ issued # {} => FreshEntry \in Entries \ issued
<1>1. Entries \ issued # {} => \E e \in Entries : e \notin issued
  OBVIOUS
<1>2. (\E e \in Entries : e \notin issued) => FreshEntry \in Entries /\ FreshEntry \notin issued
  BY Zenon DEF FreshEntry
<1> QED
  BY <1>1, <1>2

(* A step of a caller keeps types and shape.                               *)
LEMMA CallerShape ==
  ASSUME Shape, NEW c \in Callers, CallerStep(c)
  PROVE  Shape'
<1> USE DEF Shape, TypeOK, QueueShape, ghosts, queues, WorkerGone
<1>0. Idle \in CallState /\ Idle.pc = "idle"
  BY DEF Idle, CallState
<1>1. CASE WriteAudit(c)
  <2>1. PICK e \in Entries \ issued :
          issued' = issued \cup {e} /\ call' = [call EXCEPT ![c] = [pc |-> "send", entry |-> e]]
    BY <1>1, FreshEntryIsFresh DEF WriteAudit
  <2>2. [pc |-> "send", entry |-> e] \in CallState
    BY DEF CallState
  <2> QED
    BY <1>1, <2>1, <2>2 DEF WriteAudit
<1>2. CASE Send(c)
  <2>1. call[c].entry \in Entries
    BY <1>2 DEF Send
  <2>2. channel' \in Seq(Entries) /\ accepted' \in Seq(Entries)
    BY <1>2, <2>1 DEF Send
  <2>3. call' \in [Callers -> CallState]
    BY <1>0, <1>2 DEF Send
  <2> QED
    BY <1>0, <1>2, <2>2, <2>3 DEF Send
<1>3. CASE SendClosed(c)
  <2>1. call' \in [Callers -> CallState]
    BY <1>3 DEF SendClosed, CallState
  <2> QED
    BY <1>3, <2>1 DEF SendClosed, CallState
<1>4. CASE WriteDirect(c)
  <2>1. call[c].entry \in Entries
    BY <1>4 DEF WriteDirect
  <2>2. log' \in Seq(Entries)
    BY <1>4, <2>1 DEF WriteDirect
  <2> QED
    BY <1>0, <1>4, <2>2 DEF WriteDirect
<1>5. CASE WriteDirectError(c)
  BY <1>0, <1>5 DEF WriteDirectError
<1>6. CASE CallerDropped(c)
  BY <1>0, <1>6 DEF CallerDropped
<1> QED
  BY <1>1, <1>2, <1>3, <1>4, <1>5, <1>6 DEF CallerStep

(* A step of the worker keeps types and shape.                             *)
LEMMA WorkerShape ==
  ASSUME Shape, WorkerStep
  PROVE  Shape'
<1> USE DEF Shape, TypeOK, QueueShape, ghosts, queues, WorkerGone, WorkerStates
<1>1. CASE WorkerStarts
  BY <1>1 DEF WorkerStarts
<1>2. CASE WorkerPanics
  BY <1>2, RangeType DEF WorkerPanics
<1>3. CASE Recv
  <2> DEFINE b == Append(batch, Head(channel))
  <2>1. b \in Seq(Entries) /\ Tail(channel) \in Seq(Entries)
    BY <1>3 DEF Recv
  <2>2. /\ batch' \in Seq(Entries) /\ pending' \in Seq(Entries)
        /\ \/ worker' = "select" /\ pending' = <<>>
           \/ worker' = "tx" /\ batch' = <<>>
    <3>1. CASE Len(b) >= EffectiveBatch
      <4>1. FlushBatch(b, "select", "tx")
        BY <1>3, <3>1 DEF Recv
      <4> HIDE DEF b
      <4> QED
        BY <2>1, <4>1, FlushBatchType
    <3>2. CASE ~(Len(b) >= EffectiveBatch)
      BY <1>3, <2>1, <3>2 DEF Recv
    <3> QED
      BY <3>1, <3>2
  <2> QED
    BY <1>3, <2>1, <2>2 DEF Recv
<1>4. CASE TickFlush
  BY <1>4, FlushBatchType DEF TickFlush
<1>5. CASE RecvNone
  BY <1>5, FlushBatchType DEF RecvNone
<1>6. CASE FlushCommits
  BY <1>6 DEF FlushCommits, AfterFlush
<1>7. CASE FlushFails
  BY <1>7, RangeType DEF FlushFails, AfterFlush
<1> QED
  BY <1>1, <1>2, <1>3, <1>4, <1>5, <1>6, <1>7 DEF WorkerStep

(* The types and the shape of the queues hold in every reachable state.    *)
THEOREM ShapeCorrect == Spec => []Shape
<1> USE DEF Shape, TypeOK, QueueShape, ghosts, queues, WorkerGone
<1>0. Idle \in CallState /\ Idle.pc = "idle"
  BY DEF Idle, CallState
<1>1. Init => Shape
  BY <1>0 DEF Init, WorkerStates
<1>2. Shape /\ [Next]_vars => Shape'
  <2> SUFFICES ASSUME Shape, [Next]_vars PROVE Shape'
    OBVIOUS
  <2>1. CASE \E c \in Callers : CallerStep(c)
    BY <2>1, CallerShape
  <2>2. CASE WorkerStep
    BY <2>2, WorkerShape
  <2>3. CASE DropGuard
    BY <2>3 DEF DropGuard
  <2>4. CASE Crash
    BY <1>0, <2>4, RangeType DEF Crash, InFlight, WorkerStates
  <2>5. CASE Start
    BY <2>5 DEF Start, WorkerStates
  <2>6. CASE UNCHANGED vars
    BY <2>6 DEF vars
  <2> QED
    BY <2>1, <2>2, <2>3, <2>4, <2>5, <2>6 DEF Next
<1> QED
  BY <1>1, <1>2, PTL DEF Spec

(* Queues, tasks and log keep their types.                                 *)
THEOREM AuditTypes == Spec => []TypeOK
<1>1. Shape => TypeOK
  BY DEF Shape
<1> QED
  BY <1>1, ShapeCorrect, PTL

-----------------------------------------------------------------------------
(* Where the entries are.                                                  *)

Accounts == QueuesDistinct /\ CallsFresh /\ NoLossYet /\ EntriesAccounted

(* A step of a caller keeps the accounts.                                  *)
LEMMA CallerAccounts ==
  ASSUME Shape, Accounts, NEW c \in Callers, CallerStep(c)
  PROVE  Accounts'
<1> USE DEF Accounts, ghosts, queues
<1>0. /\ channel \in Seq(Entries) /\ log \in Seq(Entries) /\ accepted \in Seq(Entries)
      /\ call \in [Callers -> CallState]
      /\ call[c].pc # "idle" => call[c].entry \in Entries
  BY DEF Shape, TypeOK
<1>1. Idle.pc = "idle"
  BY DEF Idle
<1>2. CASE WriteAudit(c)
  <2>1. PICK e \in Entries \ issued :
          issued' = issued \cup {e} /\ call' = [call EXCEPT ![c] = [pc |-> "send", entry |-> e]]
    BY <1>2, FreshEntryIsFresh DEF WriteAudit
  <2>2. CallsFresh'
    BY <1>0, <1>2, <2>1 DEF WriteAudit, CallsFresh
  <2> QED
    BY <1>2, <2>2 DEF WriteAudit, QueuesDistinct, NoLossYet, EntriesAccounted, InFlight
<1>3. CASE Send(c)
  <2> DEFINE e == call[c].entry
  <2>1. e \in Entries /\ e \in issued /\ e \notin Range(log) \cup Range(accepted)
    BY <1>0, <1>3 DEF Send, CallsFresh
  <2>2. e \notin InFlight \cup lost
    BY <2>1 DEF EntriesAccounted
  <2>3. /\ Range(channel') = Range(channel) \cup {e}
        /\ Range(accepted') = Range(accepted) \cup {e}
        /\ Distinct(channel')
    BY <1>0, <1>3, <2>1, <2>2, RangeAppend DEF Send, QueuesDistinct, InFlight
  <2>4. UNCHANGED <<batch, pending, log, issued, lost, faults, starts, worker>>
    BY <1>3 DEF Send
  <2>5. /\ call'[c].pc = "idle"
        /\ \A d \in Callers : d # c => call'[d] = call[d]
    BY <1>0, <1>1, <1>3 DEF Send
  <2>6. \A d \in Callers : d # c /\ call[d].pc # "idle" => call[d].entry # e
    BY <1>3 DEF CallsFresh, Send
  <2> HIDE DEF e
  <2>7. QueuesDistinct'
    BY <2>2, <2>3, <2>4 DEF QueuesDistinct, InFlight
  <2>8. CallsFresh'
    BY <2>1, <2>3, <2>4, <2>5, <2>6 DEF CallsFresh
  <2>9. EntriesAccounted'
    BY <2>1, <2>2, <2>3, <2>4 DEF EntriesAccounted, InFlight
  <2> QED
    BY <2>4, <2>7, <2>8, <2>9 DEF NoLossYet
<1>4. CASE SendClosed(c)
  <2>1. CallsFresh'
    BY <1>0, <1>4 DEF SendClosed, CallsFresh, CallState
  <2> QED
    BY <1>4, <2>1 DEF SendClosed, QueuesDistinct, NoLossYet, EntriesAccounted, InFlight
<1>5. CASE WriteDirect(c)
  <2> DEFINE e == call[c].entry
  <2>1. e \in Entries /\ e \in issued /\ e \notin Range(log) \cup Range(accepted)
    BY <1>0, <1>5 DEF WriteDirect, CallsFresh
  <2>2. e \notin InFlight \cup lost
    BY <2>1 DEF EntriesAccounted
  <2>3. Range(log') = Range(log) \cup {e} /\ Distinct(log')
    BY <1>0, <1>5, <2>1, RangeAppend DEF WriteDirect, EntriesAccounted
  <2>4. UNCHANGED <<channel, batch, pending, accepted, issued, lost, faults, starts, worker>>
    BY <1>5 DEF WriteDirect
  <2>5. /\ call'[c].pc = "idle"
        /\ \A d \in Callers : d # c => call'[d] = call[d]
    BY <1>0, <1>1, <1>5 DEF WriteDirect
  <2>6. \A d \in Callers : d # c /\ call[d].pc # "idle" => call[d].entry # e
    BY <1>5 DEF CallsFresh, WriteDirect
  <2> HIDE DEF e
  <2>7. CallsFresh'
    BY <2>1, <2>3, <2>4, <2>5, <2>6 DEF CallsFresh
  <2>8. EntriesAccounted'
    BY <2>1, <2>2, <2>3, <2>4 DEF EntriesAccounted, InFlight
  <2> QED
    BY <2>4, <2>7, <2>8 DEF QueuesDistinct, NoLossYet
<1>6. CASE WriteDirectError(c)
  <2>1. CallsFresh'
    BY <1>0, <1>1, <1>6 DEF WriteDirectError, CallsFresh
  <2>2. faults \in Nat
    BY DEF Shape, TypeOK
  <2> QED
    BY <1>6, <2>1, <2>2 DEF WriteDirectError, QueuesDistinct, NoLossYet, EntriesAccounted, InFlight
<1>7. CASE CallerDropped(c)
  <2>1. CallsFresh'
    BY <1>0, <1>1, <1>7 DEF CallerDropped, CallsFresh
  <2> QED
    BY <1>7, <2>1 DEF CallerDropped, QueuesDistinct, NoLossYet, EntriesAccounted, InFlight
<1> QED
  BY <1>2, <1>3, <1>4, <1>5, <1>6, <1>7 DEF CallerStep

(* Moving entries between the queues keeps the accounts.                   *)
LEMMA MoveAccounts ==
  ASSUME Accounts, UNCHANGED <<call, log, issued, ghosts>>,
         QueuesDistinct', InFlight' = InFlight,
         worker \notin {"none", "dead"}
  PROVE  Accounts'
<1> USE DEF Accounts, ghosts
<1>1. CallsFresh' /\ NoLossYet'
  BY DEF CallsFresh, NoLossYet
<1>2. EntriesAccounted'
  BY DEF EntriesAccounted
<1> QED
  BY <1>1, <1>2

(* A step of the worker keeps the accounts.                                *)
LEMMA WorkerAccounts ==
  ASSUME Shape, Accounts, WorkerStep
  PROVE  Accounts'
<1> USE DEF Accounts, ghosts, queues
<1>0. /\ channel \in Seq(Entries) /\ batch \in Seq(Entries) /\ pending \in Seq(Entries)
      /\ log \in Seq(Entries) /\ faults \in Nat
  BY DEF Shape, TypeOK
<1>1. CASE WorkerStarts
  BY <1>1 DEF WorkerStarts, QueuesDistinct, CallsFresh, NoLossYet, EntriesAccounted, InFlight
<1>2. CASE WorkerPanics
  <2>1. Range(channel') = {} /\ Distinct(channel') /\ lost' = lost \cup Range(channel)
    BY <1>2, RangeEmpty DEF WorkerPanics
  <2>2. UNCHANGED <<batch, pending, call, log, issued, accepted, faults, starts>> /\ worker' = "dead"
    BY <1>2 DEF WorkerPanics
  <2>3. QueuesDistinct'
    BY <2>1, <2>2 DEF QueuesDistinct
  <2>4. CallsFresh' /\ NoLossYet'
    BY <2>2 DEF CallsFresh, NoLossYet
  <2>5. EntriesAccounted'
    BY <2>1, <2>2 DEF EntriesAccounted, QueuesDistinct, InFlight
  <2> QED
    BY <2>3, <2>4, <2>5
<1>3. CASE Recv
  <2> DEFINE b == Append(batch, Head(channel))
  <2>1. /\ Range(channel) = {Head(channel)} \cup Range(channel') /\ Head(channel) \in Entries
        /\ Distinct(channel') /\ Head(channel) \notin Range(channel')
    BY <1>0, <1>3, RangeTail DEF Recv, QueuesDistinct
  <2>2. Head(channel) \notin Range(batch)
    BY <2>1 DEF QueuesDistinct
  <2>3. Range(b) = Range(batch) \cup {Head(channel)} /\ Distinct(b) /\ b \in Seq(Entries)
    BY <1>0, <2>1, <2>2, RangeAppend DEF QueuesDistinct
  <2>4. pending = <<>> /\ worker = "select" /\ UNCHANGED <<call, log, issued, ghosts>>
    BY <1>3 DEF Recv, Shape, QueueShape
  <2>5. \/ batch' = b /\ pending' = <<>>
        \/ batch' = <<>> /\ pending' = b
    BY <1>3, <2>3, FlushBatchType DEF Recv, FlushBatch
  <2> HIDE DEF b
  <2>6. Range(batch') \cup Range(pending') = Range(b) /\ Range(batch') \cap Range(pending') = {}
    BY <2>5, RangeEmpty
  <2>7. Distinct(batch') /\ Distinct(pending')
    BY <2>3, <2>5, RangeEmpty
  <2>8. InFlight' = InFlight
    BY <2>1, <2>3, <2>4, <2>6, RangeEmpty DEF InFlight
  <2>9. QueuesDistinct'
    BY <2>1, <2>3, <2>6, <2>7 DEF QueuesDistinct
  <2> QED
    BY <2>4, <2>8, <2>9, MoveAccounts
<1>4. ASSUME worker = "select", UNCHANGED <<channel, call, log, issued, ghosts>>,
             batch' = <<>> /\ pending' = batch
      PROVE  Accounts'
  <2>1. pending = <<>> /\ Range(pending') = Range(batch) /\ Distinct(pending')
    BY <1>4, RangeEmpty DEF Shape, QueueShape, QueuesDistinct
  <2>2. InFlight' = InFlight
    BY <1>4, <2>1, RangeEmpty DEF InFlight
  <2>3. QueuesDistinct'
    BY <1>4, <2>1, RangeEmpty DEF QueuesDistinct
  <2> QED
    BY <1>4, <2>2, <2>3, MoveAccounts
<1>5. CASE TickFlush
  <2>1. batch' = <<>> /\ pending' = batch
    BY <1>5 DEF TickFlush, FlushBatch
  <2>2. worker = "select" /\ UNCHANGED <<channel, call, log, issued, ghosts>>
    BY <1>5 DEF TickFlush
  <2> QED
    BY <1>4, <2>1, <2>2
<1>6. CASE RecvNone
  <2>1. batch' = <<>> /\ pending' = batch
    BY <1>6 DEF RecvNone, FlushBatch
  <2>2. worker = "select" /\ UNCHANGED <<channel, call, log, issued, ghosts>>
    BY <1>6 DEF RecvNone
  <2> QED
    BY <1>4, <2>1, <2>2
<1>7. CASE FlushCommits
  <2>1. /\ Range(log') = Range(log) \cup Range(pending)
        /\ Distinct(log')
    <3>1. Range(log) \cap Range(pending) = {} /\ Distinct(log) /\ Distinct(pending)
      BY DEF EntriesAccounted, QueuesDistinct, InFlight
    <3> QED
      BY <1>0, <1>7, <3>1, RangeConcat DEF FlushCommits
  <2>2. pending' = <<>> /\ Range(pending') = {} /\ Distinct(pending')
    BY <1>7, RangeEmpty DEF FlushCommits
  <2>3. /\ UNCHANGED <<channel, batch, call, issued, ghosts>>
        /\ worker \in {"tx", "lasttx"} /\ worker' \in {"select", "exited"}
    BY <1>7 DEF FlushCommits, AfterFlush
  <2>4. QueuesDistinct' /\ NoLossYet'
    BY <2>2, <2>3 DEF QueuesDistinct, NoLossYet
  <2>5. Range(pending) \subseteq Range(accepted)
    BY DEF EntriesAccounted, InFlight
  <2>6. CallsFresh'
    BY <2>1, <2>3, <2>5 DEF CallsFresh
  <2>7. EntriesAccounted'
    BY <2>1, <2>2, <2>3 DEF EntriesAccounted, QueuesDistinct, InFlight
  <2> QED
    BY <2>4, <2>6, <2>7
<1>8. CASE FlushFails
  <2>1. pending' = <<>> /\ Range(pending') = {} /\ Distinct(pending')
    BY <1>8, RangeEmpty DEF FlushFails
  <2>2. /\ UNCHANGED <<channel, batch, call, log, issued, accepted, starts>>
        /\ lost' = lost \cup Range(pending) /\ faults' = faults + 1
    BY <1>8 DEF FlushFails
  <2>3. QueuesDistinct' /\ NoLossYet' /\ CallsFresh'
    BY <1>0, <2>1, <2>2 DEF QueuesDistinct, NoLossYet, CallsFresh
  <2>4. EntriesAccounted'
    BY <2>1, <2>2 DEF EntriesAccounted, QueuesDistinct, InFlight
  <2> QED
    BY <2>3, <2>4
<1> QED
  BY <1>1, <1>2, <1>3, <1>5, <1>6, <1>7, <1>8 DEF WorkerStep

(* The accounts are right in every reachable state.                        *)
THEOREM AccountsCorrect == Spec => []Accounts
<1> USE DEF Accounts, ghosts, queues
<1>0. Idle.pc = "idle"
  BY DEF Idle
<1>1. Init => Accounts
  <2> SUFFICES ASSUME Init PROVE Accounts
    OBVIOUS
  <2>1. /\ Range(channel) = {} /\ Range(batch) = {} /\ Range(pending) = {}
        /\ Range(log) = {} /\ Range(accepted) = {} /\ lost = {} /\ starts = 1
        /\ Distinct(channel) /\ Distinct(batch) /\ Distinct(pending) /\ Distinct(log)
    BY RangeEmpty DEF Init
  <2>2. \A c \in Callers : call[c].pc = "idle"
    BY <1>0 DEF Init
  <2> QED
    BY <2>1, <2>2 DEF QueuesDistinct, CallsFresh, NoLossYet, EntriesAccounted, InFlight
<1>2. Shape /\ Accounts /\ [Next]_vars => Accounts'
  <2> SUFFICES ASSUME Shape, Accounts, [Next]_vars PROVE Accounts'
    OBVIOUS
  <2>1. CASE \E c \in Callers : CallerStep(c)
    BY <2>1, CallerAccounts
  <2>2. CASE WorkerStep
    BY <2>2, WorkerAccounts
  <2>3. CASE DropGuard
    BY <2>3 DEF DropGuard, QueuesDistinct, CallsFresh, NoLossYet, EntriesAccounted, InFlight
  <2>4. CASE Crash
    <3>1. /\ InFlight' = {} /\ QueuesDistinct'
      BY <2>4, RangeEmpty DEF Crash, InFlight, QueuesDistinct
    <3>2. \A c \in Callers : call'[c].pc = "idle"
      BY <1>0, <2>4 DEF Crash
    <3>3. /\ UNCHANGED <<log, issued, accepted, starts>> /\ lost' = lost \cup InFlight
          /\ worker' = "none"
      BY <2>4 DEF Crash
    <3>4. CallsFresh' /\ NoLossYet'
      BY <3>2, <3>3 DEF CallsFresh, NoLossYet
    <3>5. EntriesAccounted'
      BY <3>1, <3>3 DEF EntriesAccounted
    <3> QED
      BY <3>1, <3>4, <3>5
  <2>5. CASE Start
    <3>1. NoLossYet'
      <4>1. starts \in Nat
        BY DEF Shape, TypeOK
      <4> QED
        BY <2>5, <4>1 DEF Start, NoLossYet
    <3> QED
      BY <2>5, <3>1 DEF Start, QueuesDistinct, CallsFresh, EntriesAccounted, InFlight
  <2>6. CASE UNCHANGED vars
    BY <2>6 DEF vars, QueuesDistinct, CallsFresh, NoLossYet, EntriesAccounted, InFlight
  <2> QED
    BY <2>1, <2>2, <2>3, <2>4, <2>5, <2>6 DEF Next
<1> QED
  BY <1>1, <1>2, ShapeCorrect, PTL DEF Spec

(* No interleaving loses track of an entry or stores it twice.             *)
THEOREM EntriesAreAccounted == Spec => []EntriesAccounted
<1>1. Accounts => EntriesAccounted
  BY DEF Accounts
<1> QED
  BY <1>1, AccountsCorrect, PTL

(* A worker that left its loop without a failure has stored everything     *)
(* that send accepted.                                                     *)
THEOREM ShutdownIsClean == Spec => []CleanShutdown
<1>1. Shape /\ Accounts => CleanShutdown
  <2> SUFFICES ASSUME Shape, Accounts, worker = "exited", faults = 0, starts = 1
               PROVE  Range(accepted) \subseteq Range(log)
    BY DEF CleanShutdown
  <2>1. InFlight = {}
    BY RangeEmpty DEF Shape, QueueShape, WorkerGone, InFlight
  <2>2. lost = {}
    BY DEF Accounts, NoLossYet
  <2> QED
    BY <2>1, <2>2 DEF Accounts, EntriesAccounted
<1> QED
  BY <1>1, ShapeCorrect, AccountsCorrect, PTL

-----------------------------------------------------------------------------
(* AuditWriter implements AuditTrail.                                      *)

(* A step of a caller accepts an entry, records one, or changes nothing    *)
(* that AuditTrail sees.                                                   *)
LEMMA CallerImplements ==
  ASSUME Shape, Accounts, NEW c \in Callers, CallerStep(c)
  PROVE  Trail!Next \/ UNCHANGED Trail!vars
<1> USE DEF ghosts, queues
<1>0. /\ channel \in Seq(Entries) /\ log \in Seq(Entries)
      /\ call[c].pc # "idle" => call[c].entry \in Entries
      /\ call[c].pc # "idle" => call[c].entry \notin InFlight \cup Range(log) \cup lost
  BY DEF Shape, TypeOK, Accounts, CallsFresh, EntriesAccounted
<1>1. CASE Send(c)
  <2>1. call[c].pc # "idle" /\ UNCHANGED <<batch, pending, log, lost>>
    BY <1>1 DEF Send
  <2>2. Range(channel') = Range(channel) \cup {call[c].entry}
    BY <1>0, <1>1, <2>1, RangeAppend DEF Send
  <2>3. InFlight' = InFlight \cup {call[c].entry}
    BY <2>1, <2>2 DEF InFlight
  <2>4. Trail!Accept(call[c].entry)
    BY <1>0, <2>1, <2>3 DEF Trail!Accept, Trail!Unknown
  <2> QED
    BY <1>0, <2>1, <2>4 DEF Trail!Next
<1>2. CASE WriteDirect(c)
  <2>1. call[c].pc # "idle" /\ UNCHANGED <<channel, batch, pending, lost>>
    BY <1>2 DEF WriteDirect
  <2>2. Range(log') = Range(log) \cup {call[c].entry}
    BY <1>0, <1>2, <2>1, RangeAppend DEF WriteDirect
  <2>3. Trail!Record(call[c].entry)
    BY <1>0, <2>1, <2>2 DEF Trail!Record, Trail!Unknown, InFlight
  <2> QED
    BY <1>0, <2>1, <2>3 DEF Trail!Next
<1>3. CASE WriteAudit(c) \/ SendClosed(c) \/ WriteDirectError(c) \/ CallerDropped(c)
  BY <1>3 DEF WriteAudit, SendClosed, WriteDirectError, CallerDropped, Trail!vars, InFlight
<1> QED
  BY <1>1, <1>2, <1>3 DEF CallerStep

(* A step of the worker moves entries inside the queues, persists a batch  *)
(* as a whole, or loses it as a whole.                                     *)
LEMMA WorkerImplements ==
  ASSUME Shape, Accounts, WorkerStep
  PROVE  Trail!Next \/ UNCHANGED Trail!vars
<1> USE DEF ghosts, queues
<1>0. /\ channel \in Seq(Entries) /\ batch \in Seq(Entries) /\ pending \in Seq(Entries)
      /\ log \in Seq(Entries)
      /\ QueuesDistinct
  BY DEF Shape, TypeOK, Accounts
<1>1. CASE WorkerStarts
  BY <1>1 DEF WorkerStarts, Trail!vars, InFlight
<1>2. CASE WorkerPanics
  <2>1. /\ Range(channel') = {} /\ UNCHANGED <<batch, pending, log>>
        /\ lost' = lost \cup Range(channel)
    BY <1>2, RangeEmpty DEF WorkerPanics
  <2>2. InFlight' = InFlight \ Range(channel) /\ Range(channel) \subseteq InFlight
    BY <1>0, <2>1 DEF InFlight, QueuesDistinct
  <2>3. Trail!Lose(Range(channel))
    BY <2>1, <2>2 DEF Trail!Lose
  <2> QED
    BY <2>2, <2>3 DEF Trail!Next
<1>3. CASE Recv
  <2> DEFINE b == Append(batch, Head(channel))
  <2>1. /\ Range(channel) = {Head(channel)} \cup Range(channel') /\ Head(channel) \in Entries
    BY <1>0, <1>3, RangeTail DEF Recv
  <2>2. Range(b) = Range(batch) \cup {Head(channel)}
    BY <1>0, <2>1, RangeAppend
  <2>3. pending = <<>> /\ UNCHANGED <<log, lost>>
    BY <1>3 DEF Recv, Shape, QueueShape
  <2>4. \/ batch' = b /\ pending' = <<>>
        \/ batch' = <<>> /\ pending' = b
    BY <1>3 DEF Recv, FlushBatch
  <2> HIDE DEF b
  <2>5. InFlight' = InFlight
    BY <2>1, <2>2, <2>3, <2>4, RangeEmpty DEF InFlight
  <2> QED
    BY <2>3, <2>5 DEF Trail!vars
<1>4. CASE TickFlush \/ RecvNone
  <2>1. batch' = <<>> /\ pending' = batch
    BY <1>4 DEF TickFlush, RecvNone, FlushBatch
  <2>2. pending = <<>> /\ UNCHANGED <<channel, log, lost>>
    BY <1>4 DEF TickFlush, RecvNone, Shape, QueueShape
  <2>3. InFlight' = InFlight
    BY <2>1, <2>2, RangeEmpty DEF InFlight
  <2> QED
    BY <2>2, <2>3 DEF Trail!vars
<1>5. ASSUME pending' = <<>>, UNCHANGED <<channel, batch>>
      PROVE  InFlight' = InFlight \ Range(pending) /\ Range(pending) \subseteq InFlight
  BY <1>0, <1>5, RangeEmpty DEF InFlight, QueuesDistinct
<1>6. CASE FlushCommits
  <2>1. pending' = <<>> /\ UNCHANGED <<channel, batch, lost>>
    BY <1>6 DEF FlushCommits
  <2>2. Range(log') = Range(log) \cup Range(pending)
    BY <1>0, <1>6, RangeConcat DEF FlushCommits
  <2>3. Trail!Persist(Range(pending)) /\ Range(pending) \subseteq InFlight
    BY <1>5, <2>1, <2>2 DEF Trail!Persist
  <2> QED
    BY <2>3 DEF Trail!Next
<1>7. CASE FlushFails
  <2>1. /\ pending' = <<>> /\ UNCHANGED <<channel, batch, log>>
        /\ lost' = lost \cup Range(pending)
    BY <1>7 DEF FlushFails
  <2>2. Trail!Lose(Range(pending)) /\ Range(pending) \subseteq InFlight
    BY <1>5, <2>1 DEF Trail!Lose
  <2> QED
    BY <2>2 DEF Trail!Next
<1> QED
  BY <1>1, <1>2, <1>3, <1>4, <1>6, <1>7 DEF WorkerStep

(* The channel, the batches, the transactions, the fallback and the crash  *)
(* of claw-guard's audit log implement the abstract trail.                 *)
THEOREM AuditImplementsTrail == Spec => ImplementsTrail
<1>1. Init => Trail!Init
  BY RangeEmpty DEF Init, Trail!Init, InFlight
<1>2. Shape /\ Accounts /\ [Next]_vars => [Trail!Next]_(Trail!vars)
  <2> SUFFICES ASSUME Shape, Accounts, [Next]_vars
               PROVE  Trail!Next \/ UNCHANGED Trail!vars
    OBVIOUS
  <2> USE DEF ghosts, queues
  <2>1. CASE \E c \in Callers : CallerStep(c)
    BY <2>1, CallerImplements
  <2>2. CASE WorkerStep
    BY <2>2, WorkerImplements
  <2>3. CASE DropGuard
    BY <2>3 DEF DropGuard, Trail!vars, InFlight
  <2>4. CASE Crash
    <3>1. InFlight' = {} /\ lost' = lost \cup InFlight /\ UNCHANGED log
      BY <2>4, RangeEmpty DEF Crash, InFlight
    <3>2. Trail!Lose(InFlight)
      BY <3>1 DEF Trail!Lose
    <3> QED
      BY <3>2 DEF Trail!Next
  <2>5. CASE Start
    BY <2>5 DEF Start, Trail!vars, InFlight
  <2>6. CASE UNCHANGED vars
    BY <2>6 DEF vars, Trail!vars, InFlight
  <2> QED
    BY <2>1, <2>2, <2>3, <2>4, <2>5, <2>6 DEF Next
<1> QED
  BY <1>1, <1>2, ShapeCorrect, AccountsCorrect, PTL DEF Spec, ImplementsTrail, Trail!Spec

=============================================================================
