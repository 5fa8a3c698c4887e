------------------------- MODULE AuditQueues_proofs -------------------------
(***************************************************************************)
(* More proofs about AuditWriter: how full its queues get and therefore    *)
(* how much can be lost, and that accepted entries never overtake each     *)
(* other on their way to the log.                                          *)
(***************************************************************************)
EXTENDS AuditWriter_proofs, FiniteSetTheorems, SequenceTheorems

-----------------------------------------------------------------------------
(* How much a queue holds.                                                 *)

(* A sequence has no more elements than positions.                         *)
LEMMA RangeCardinality ==
  ASSUME NEW S, NEW s \in Seq(S)
  PROVE  /\ IsFiniteSet(Range(s)) /\ Cardinality(Range(s)) \in Nat
         /\ Cardinality(Range(s)) <= Len(s)
<1>1. Len(s) \in Nat /\ s \in Surjection(1..Len(s), Range(s))
  BY DEF Surjection, Range
<1>2. IsFiniteSet(1..Len(s)) /\ Cardinality(1..Len(s)) = Len(s)
  <2>1. /\ IsFiniteSet(1..Len(s))
        /\ Cardinality(1..Len(s)) = IF 1 > Len(s) THEN 0 ELSE Len(s) - 1 + 1
    BY <1>1, FS_Interval
  <2> QED
    BY <1>1, <2>1
<1>3. IsFiniteSet(Range(s)) /\ Cardinality(Range(s)) <= Len(s)
  BY <1>1, <1>2, FS_Surjection
<1> QED
  BY <1>3, FS_CardinalityType

(* A union is no larger than its parts together.                           *)
LEMMA UnionCardinality ==
  ASSUME NEW S, NEW T, IsFiniteSet(S), IsFiniteSet(T)
  PROVE  /\ IsFiniteSet(S \cup T) /\ Cardinality(S \cup T) \in Nat
         /\ Cardinality(S \cup T) <= Cardinality(S) + Cardinality(T)
<1>1. /\ Cardinality(S) \in Nat /\ Cardinality(T) \in Nat
      /\ IsFiniteSet(S \cap T) /\ Cardinality(S \cap T) \in Nat
  BY FS_CardinalityType, FS_Intersection
<1>2. /\ IsFiniteSet(S \cup T)
      /\ Cardinality(S \cup T) = Cardinality(S) + Cardinality(T) - Cardinality(S \cap T)
  BY FS_Union
<1> QED
  BY <1>1, <1>2, FS_CardinalityType

(* No queue holds more than its capacity; a batch that is full is flushed  *)
(* by the step that fills it.                                              *)
Sizes ==
  /\ Len(channel) <= ChannelCapacity
  /\ Len(batch) < EffectiveBatch
  /\ Len(pending) <= EffectiveBatch

(* A batch size of 0 is raised to 1 and the channel holds two batches.     *)
LEMMA Capacities ==
  /\ EffectiveBatch \in Nat /\ EffectiveBatch >= 1
  /\ ChannelCapacity \in Nat /\ ChannelCapacity >= 1
BY AuditConstants DEF EffectiveBatch, ChannelCapacity

(* The channel never holds more than its capacity, the worker's buffer is  *)
(* below the batch size between two steps, and a transaction writes at     *)
(* most one batch (flush_batch).                                           *)
THEOREM SizesCorrect == Spec => []Sizes
<1>1. Init => Sizes
  BY Capacities DEF Init, Sizes
<1>2. Shape /\ Sizes /\ [Next]_vars => Sizes'
  <2> SUFFICES ASSUME Shape, Sizes, [Next]_vars PROVE Sizes'
    OBVIOUS
  <2>0. channel \in Seq(Entries) /\ batch \in Seq(Entries) /\ pending \in Seq(Entries)
    BY DEF Shape, TypeOK
  <2>1. ASSUME NEW c \in Callers, Send(c) PROVE Sizes'
    <3>1. call[c].entry \in Entries
      BY <2>1 DEF Send, Shape, TypeOK
    <3>2. Len(channel') = Len(channel) + 1 /\ Len(channel) < ChannelCapacity
      BY <2>0, <2>1, <3>1 DEF Send
    <3> QED
      BY <2>0, <2>1, <3>2, Capacities DEF Send, Sizes
  <2>2. CASE Recv
    <3> DEFINE b == Append(batch, Head(channel))
    <3>1. Len(b) = Len(batch) + 1 /\ Len(channel') = Len(channel) - 1 /\ Len(channel) \in Nat
      BY <2>0, <2>2 DEF Recv
    <3>2. \/ batch' = b /\ Len(b) < EffectiveBatch /\ pending' = <<>>
          \/ batch' = <<>> /\ pending' = b
      <4>1. b # <<>>
        BY <2>0
      <4>2. CASE Len(b) >= EffectiveBatch
        BY <2>2, <4>1, <4>2 DEF Recv, FlushBatch
      <4>3. CASE ~(Len(b) >= EffectiveBatch)
        <5>1. batch' = b /\ pending' = <<>>
          BY <2>2, <4>3 DEF Recv
        <5> QED
          BY <2>0, <3>1, <4>3, <5>1, Capacities
      <4> QED
        BY <4>2, <4>3
    <3> HIDE DEF b
    <3> QED
      BY <2>0, <3>1, <3>2, Capacities DEF Sizes
  <2>3. CASE TickFlush \/ RecvNone
    <3>1. batch' = <<>> /\ pending' = batch /\ channel' = channel
      BY <2>3 DEF TickFlush, RecvNone, FlushBatch
    <3> QED
      BY <2>0, <3>1, Capacities DEF Sizes
  <2>4. CASE WorkerPanics \/ FlushCommits \/ FlushFails \/ Crash
    BY <2>4, Capacities DEF WorkerPanics, FlushCommits, FlushFails, Crash, Sizes
  <2>5. ASSUME UNCHANGED <<channel, batch, pending>> PROVE Sizes'
    BY <2>5 DEF Sizes
  <2>6. ASSUME NEW c \in Callers, CallerStep(c), ~Send(c) PROVE UNCHANGED <<channel, batch, pending>>
    BY <2>6 DEF CallerStep, WriteAudit, SendClosed, WriteDirect, WriteDirectError,
                CallerDropped, queues
  <2>7. CASE WorkerStarts \/ DropGuard \/ Start \/ UNCHANGED vars
    BY <2>5, <2>7 DEF WorkerStarts, DropGuard, Start, queues, vars
  <2> QED
    BY <2>1, <2>2, <2>3, <2>4, <2>5, <2>6, <2>7 DEF Next, WorkerStep
<1> QED
  BY <1>1, <1>2, ShapeCorrect, PTL DEF Spec

-----------------------------------------------------------------------------
(* How much is lost.                                                       *)

(* What the queues hold together: a batch that waits and one that is being *)
(* written never exist at the same time.                                   *)
LEMMA InFlightSize ==
  ASSUME Shape, Sizes
  PROVE  /\ IsFiniteSet(InFlight) /\ Cardinality(InFlight) \in Nat
         /\ Cardinality(InFlight) <= ChannelCapacity + EffectiveBatch
<1>0. /\ channel \in Seq(Entries) /\ batch \in Seq(Entries) /\ pending \in Seq(Entries)
      /\ batch = <<>> \/ pending = <<>>
  BY DEF Shape, TypeOK, QueueShape, WorkerStates, WorkerGone
<1>1. PICK s \in Seq(Entries) :
        Len(s) <= EffectiveBatch /\ Range(batch) \cup Range(pending) = Range(s)
  <2>1. CASE batch = <<>>
    BY <1>0, <2>1, RangeEmpty DEF Sizes
  <2>2. CASE pending = <<>>
    BY <1>0, <2>2, RangeEmpty, Capacities DEF Sizes
  <2> QED
    BY <1>0, <2>1, <2>2
<1>2. InFlight = Range(channel) \cup Range(s)
  BY <1>1 DEF InFlight
<1>3. /\ IsFiniteSet(Range(channel)) /\ Cardinality(Range(channel)) <= ChannelCapacity
      /\ Cardinality(Range(channel)) \in Nat
  BY <1>0, RangeCardinality, Capacities DEF Sizes
<1>4. /\ IsFiniteSet(Range(s)) /\ Cardinality(Range(s)) <= EffectiveBatch
      /\ Cardinality(Range(s)) \in Nat
  BY <1>1, RangeCardinality, Capacities
<1> QED
  BY <1>2, <1>3, <1>4, UnionCardinality, Capacities

(* The allowance for losses, as a number.                                  *)
Allowance == EffectiveBatch * faults + (ChannelCapacity + EffectiveBatch) * Ended

Bounded == IsFiniteSet(lost) /\ Cardinality(lost) <= Allowance

(* Losing a set of entries is within the bound if the allowance grows by   *)
(* its size.                                                               *)
LEMMA LoseMore ==
  ASSUME Bounded, NEW S, IsFiniteSet(S), lost' = lost \cup S,
         NEW k \in Nat, Cardinality(S) <= k,
         Allowance \in Nat, Allowance' \in Nat, Allowance' >= Allowance + k
  PROVE  Bounded'
<1>1. Cardinality(lost) \in Nat /\ Cardinality(S) \in Nat
  BY FS_CardinalityType DEF Bounded
<1>2. IsFiniteSet(lost \cup S) /\ Cardinality(lost \cup S) \in Nat
      /\ Cardinality(lost \cup S) <= Cardinality(lost) + Cardinality(S)
  BY UnionCardinality DEF Bounded
<1> HIDE DEF Allowance
<1> QED
  BY <1>1, <1>2 DEF Bounded

(* A product with one more of a factor.                                    *)
LEMMA OneMore ==
  ASSUME NEW m \in Nat, NEW n \in Nat
  PROVE  m * (n + 1) = m * n + m /\ m * n \in Nat
OBVIOUS

(* Each fault is worth a batch, each end of a process all of the queues.   *)
LEMMA AllowanceGrows ==
  ASSUME faults \in Nat, Ended \in Nat, Ended' \in Nat, faults' \in Nat
  PROVE  /\ Allowance \in Nat /\ Allowance' \in Nat
         /\ faults' = faults /\ Ended' = Ended => Allowance' = Allowance
         /\ faults' = faults + 1 /\ Ended' = Ended => Allowance' = Allowance + EffectiveBatch
         /\ faults' = faults /\ Ended' = Ended + 1 =>
              Allowance' = Allowance + (ChannelCapacity + EffectiveBatch)
<1> DEFINE q == ChannelCapacity + EffectiveBatch
<1>1. q \in Nat /\ EffectiveBatch \in Nat
  BY Capacities
<1>2. EffectiveBatch' = EffectiveBatch /\ ChannelCapacity' = ChannelCapacity
  BY DEF EffectiveBatch, ChannelCapacity
<1>3. Allowance = EffectiveBatch * faults + q * Ended
  BY DEF Allowance
<1>4. Allowance' = EffectiveBatch * faults' + q * Ended'
  BY <1>2 DEF Allowance
<1> HIDE DEF q
<1>5. /\ EffectiveBatch * faults \in Nat /\ EffectiveBatch * (faults + 1) = EffectiveBatch * faults + EffectiveBatch
      /\ q * Ended \in Nat /\ q * (Ended + 1) = q * Ended + q
      /\ EffectiveBatch * faults' \in Nat /\ q * Ended' \in Nat
  BY <1>1, OneMore
<1>6. Allowance \in Nat /\ Allowance' \in Nat
  BY <1>3, <1>4, <1>5
<1>7. faults' = faults /\ Ended' = Ended => Allowance' = Allowance
  BY <1>3, <1>4
<1>8. faults' = faults + 1 /\ Ended' = Ended => Allowance' = Allowance + EffectiveBatch
  BY <1>1, <1>3, <1>4, <1>5
<1>9. faults' = faults /\ Ended' = Ended + 1 => Allowance' = Allowance + q
  BY <1>1, <1>3, <1>4, <1>5
<1> QED
  BY <1>6, <1>7, <1>8, <1>9 DEF q

(* Losses stay within the allowance.                                       *)
THEOREM LossesAreBounded == Spec => []LossBound
<1>1. Init => Bounded
  <2> SUFFICES ASSUME Init PROVE Bounded
    OBVIOUS
  <2>1. lost = {} /\ faults = 0 /\ Ended = 0
    BY DEF Init, Ended
  <2>2. Allowance = 0
    BY <2>1, Capacities DEF Allowance
  <2> QED
    BY <2>1, <2>2, FS_EmptySet DEF Bounded
<1>2. Shape /\ Accounts /\ Sizes /\ Bounded /\ [Next]_vars => Bounded'
  <2> SUFFICES ASSUME Shape, Accounts, Sizes, Bounded, [Next]_vars PROVE Bounded'
    OBVIOUS
  <2>1. /\ faults \in Nat /\ starts \in Nat /\ starts >= 1 /\ Ended \in Nat
        /\ worker \in WorkerStates
    BY DEF Shape, TypeOK, Accounts, NoLossYet, Ended
  <2>2. ASSUME lost' = lost, faults' \in Nat, Ended' \in Nat, faults' = faults \/ faults' = faults + 1,
               Ended' = Ended \/ Ended' = Ended + 1, faults' = faults \/ Ended' = Ended
        PROVE  Bounded'
    <3>1. Allowance' \in Nat /\ Allowance \in Nat /\ Allowance' >= Allowance
      BY <2>1, <2>2, AllowanceGrows, Capacities
    <3>2. Cardinality(lost) \in Nat
      BY FS_CardinalityType DEF Bounded
    <3> QED
      BY <2>2, <3>1, <3>2 DEF Bounded
  <2>3. ASSUME NEW c \in Callers, CallerStep(c) PROVE Bounded'
    <3>1. lost' = lost /\ worker' = worker /\ starts' = starts
      BY <2>3 DEF CallerStep, WriteAudit, Send, SendClosed, WriteDirect, WriteDirectError,
                  CallerDropped, ghosts
    <3>2. faults' = faults \/ faults' = faults + 1
      BY <2>3 DEF CallerStep, WriteAudit, Send, SendClosed, WriteDirect, WriteDirectError,
                  CallerDropped, ghosts
    <3>3. Ended' = Ended
      BY <3>1 DEF Ended
    <3> QED
      BY <2>1, <2>2, <3>1, <3>2, <3>3
  <2>4. CASE WorkerStarts \/ Recv \/ TickFlush \/ RecvNone \/ FlushCommits
    <3>1. UNCHANGED <<lost, faults, starts>> /\ {worker, worker'} \cap {"none", "dead"} = {}
      BY <2>4 DEF WorkerStarts, Recv, TickFlush, RecvNone, FlushCommits, FlushBatch,
                  AfterFlush, ghosts
    <3>2. Ended' = Ended
      BY <3>1 DEF Ended
    <3> QED
      BY <2>1, <2>2, <3>1, <3>2
  <2>5. CASE FlushFails
    <3>1. /\ lost' = lost \cup Range(pending) /\ faults' = faults + 1 /\ starts' = starts
          /\ {worker, worker'} \cap {"none", "dead"} = {}
      BY <2>5 DEF FlushFails, AfterFlush
    <3>2. Ended' = Ended
      BY <3>1 DEF Ended
    <3>3. pending \in Seq(Entries) /\ Len(pending) <= EffectiveBatch
      BY DEF Shape, TypeOK, Sizes
    <3>4. IsFiniteSet(Range(pending)) /\ Cardinality(Range(pending)) <= EffectiveBatch
      BY <3>3, RangeCardinality, Capacities
    <3>5. Allowance \in Nat /\ Allowance' \in Nat /\ Allowance' = Allowance + EffectiveBatch
      BY <2>1, <3>1, <3>2, AllowanceGrows
    <3> QED
      BY <3>1, <3>4, <3>5, LoseMore, Capacities
  <2>6. CASE WorkerPanics
    <3>1. /\ lost' = lost \cup Range(channel) /\ faults' = faults /\ starts' = starts
          /\ worker = "spawned" /\ worker' = "dead"
      BY <2>6 DEF WorkerPanics
    <3>2. Ended' = Ended + 1 /\ Ended' \in Nat
      BY <2>1, <3>1 DEF Ended
    <3>3. channel \in Seq(Entries) /\ Len(channel) <= ChannelCapacity
      BY DEF Shape, TypeOK, Sizes
    <3>4. /\ IsFiniteSet(Range(channel))
          /\ Cardinality(Range(channel)) <= ChannelCapacity + EffectiveBatch
      BY <3>3, RangeCardinality, Capacities
    <3>5. /\ Allowance \in Nat /\ Allowance' \in Nat
          /\ Allowance' = Allowance + (ChannelCapacity + EffectiveBatch)
      BY <2>1, <3>1, <3>2, AllowanceGrows
    <3> QED
      BY <3>1, <3>4, <3>5, LoseMore, Capacities
  <2>7. CASE Crash
    <3>1. lost' = lost \cup InFlight /\ faults' = faults /\ starts' = starts /\ worker' = "none"
      BY <2>7 DEF Crash
    <3>2. CASE worker = "dead"
      <4>1. InFlight = {}
        BY <3>2, RangeEmpty DEF Shape, QueueShape, WorkerGone, InFlight
      <4>2. Ended' = Ended
        BY <3>1, <3>2 DEF Ended
      <4> QED
        BY <2>1, <2>2, <3>1, <4>1, <4>2
    <3>3. CASE worker # "dead"
      <4>1. Ended' = Ended + 1 /\ Ended' \in Nat
        BY <2>1, <2>7, <3>1, <3>3 DEF Ended, Crash
      <4>2. /\ IsFiniteSet(InFlight)
            /\ Cardinality(InFlight) <= ChannelCapacity + EffectiveBatch
        BY InFlightSize
      <4>3. /\ Allowance \in Nat /\ Allowance' \in Nat
            /\ Allowance' = Allowance + (ChannelCapacity + EffectiveBatch)
        BY <2>1, <3>1, <4>1, AllowanceGrows
      <4> QED
        BY <3>1, <4>2, <4>3, LoseMore, Capacities
    <3> QED
      BY <3>2, <3>3
  <2>8. CASE Start
    <3>1. lost' = lost /\ faults' = faults /\ starts' = starts + 1 /\ worker' = "spawned"
      BY <2>8 DEF Start
    <3>2. Ended' \in Nat /\ (Ended' = Ended \/ Ended' = Ended + 1)
      BY <2>1, <3>1 DEF Ended
    <3> QED
      BY <2>1, <2>2, <3>1, <3>2
  <2>9. CASE DropGuard \/ UNCHANGED vars
    <3>1. lost' = lost /\ faults' = faults /\ starts' = starts /\ worker' = worker
      BY <2>9 DEF DropGuard, vars, ghosts
    <3>2. Ended' = Ended
      BY <3>1 DEF Ended
    <3> QED
      BY <2>1, <2>2, <3>1, <3>2
  <2> QED
    BY <2>3, <2>4, <2>5, <2>6, <2>7, <2>8, <2>9 DEF Next, WorkerStep
<1>3. Bounded => LossBound
  BY DEF Bounded, Allowance, LossBound
<1> QED
  BY <1>1, <1>2, <1>3, ShapeCorrect, AccountsCorrect, SizesCorrect, PTL DEF Spec

-----------------------------------------------------------------------------
(* In which order entries arrive.                                          *)

(* The elements of a sequence with one more element.                       *)
LEMMA AppendAt ==
  ASSUME NEW S, NEW s \in Seq(S), NEW e \in S
  PROVE  /\ Len(s) \in Nat /\ DOMAIN s = 1..Len(s)
         /\ DOMAIN Append(s, e) = 1..(Len(s) + 1)
         /\ \A i \in 1..(Len(s) + 1) : Append(s, e)[i] = IF i = Len(s) + 1 THEN e ELSE s[i]
OBVIOUS

(* A fresh entry at the end of both sequences keeps the order.             *)
LEMMA OrderAppendBoth ==
  ASSUME NEW S, NEW s \in Seq(S), NEW t \in Seq(S), NEW e \in S,
         InOrderOf(s, t), e \notin Range(s), e \notin Range(t)
  PROVE  InOrderOf(Append(s, e), Append(t, e))
<1> DEFINE x == Append(s, e)
           y == Append(t, e)
           N == Len(s)
           M == Len(t)
<1>1. /\ N \in Nat /\ DOMAIN s = 1..N /\ DOMAIN x = 1..(N + 1)
      /\ \A i \in 1..(N + 1) : x[i] = IF i = N + 1 THEN e ELSE s[i]
  BY AppendAt
<1>2. /\ M \in Nat /\ DOMAIN t = 1..M /\ DOMAIN y = 1..(M + 1)
      /\ \A i \in 1..(M + 1) : y[i] = IF i = M + 1 THEN e ELSE t[i]
  BY AppendAt
<1>3. (\A i \in 1..N : s[i] # e) /\ (\A i \in 1..M : t[i] # e)
  BY <1>1, <1>2 DEF Range
<1> HIDE DEF x, y, N, M
<1> SUFFICES ASSUME NEW i \in 1..(N + 1), NEW j \in 1..(N + 1),
                    NEW m \in 1..(M + 1), NEW n \in 1..(M + 1), i < j,
                    x[i] = y[m], x[j] = y[n]
             PROVE  m < n
  BY <1>1, <1>2 DEF InOrderOf, x, y
<1>4. i \in 1..N /\ x[i] = s[i]
  BY <1>1
<1>5. m \in 1..M /\ t[m] = s[i]
  <2>1. y[m] = s[i] /\ s[i] # e
    BY <1>3, <1>4
  <2>2. m # M + 1
    BY <1>2, <2>1
  <2> QED
    BY <1>2, <2>1, <2>2
<1>6. CASE n = M + 1
  BY <1>2, <1>5, <1>6
<1>7. CASE n # M + 1
  <2>1. n \in 1..M /\ y[n] = t[n] /\ t[n] # e
    BY <1>2, <1>3, <1>7
  <2>2. j \in 1..N /\ s[j] = t[n]
    BY <1>1, <2>1
  <2> QED
    BY <1>1, <1>2, <1>4, <1>5, <2>1, <2>2 DEF InOrderOf
<1> QED
  BY <1>6, <1>7

(* An entry that was not accepted may come last.                           *)
LEMMA OrderAppend ==
  ASSUME NEW S, NEW s \in Seq(S), NEW t \in Seq(S), NEW e \in S,
         InOrderOf(s, t), e \notin Range(t)
  PROVE  InOrderOf(Append(s, e), t)
<1>1. /\ Len(s) \in Nat /\ DOMAIN s = 1..Len(s) /\ DOMAIN Append(s, e) = 1..(Len(s) + 1)
      /\ \A i \in 1..(Len(s) + 1) : Append(s, e)[i] = IF i = Len(s) + 1 THEN e ELSE s[i]
  OBVIOUS
<1> SUFFICES ASSUME NEW i \in 1..(Len(s) + 1), NEW j \in 1..(Len(s) + 1),
                    NEW m \in DOMAIN t, NEW n \in DOMAIN t, i < j,
                    Append(s, e)[i] = t[m], Append(s, e)[j] = t[n]
             PROVE  m < n
  BY <1>1 DEF InOrderOf
<1>2. t[m] # e /\ t[n] # e
  BY DEF Range
<1>3. i \in DOMAIN s /\ j \in DOMAIN s /\ s[i] = t[m] /\ s[j] = t[n]
  BY <1>1, <1>2
<1> QED
  BY <1>3 DEF InOrderOf

(* What is left when a part is taken out keeps the order.                  *)
LEMMA OrderWithout ==
  ASSUME NEW S, NEW a \in Seq(S), NEW b \in Seq(S), NEW c \in Seq(S), NEW t,
         DOMAIN t \subseteq Int, InOrderOf((a \o b) \o c, t)
  PROVE  InOrderOf(a \o c, t)
<1> DEFINE s == (a \o b) \o c
           At(i) == IF i <= Len(a) THEN i ELSE i + Len(b)
<1>1. Len(a) \in Nat /\ Len(b) \in Nat /\ Len(c) \in Nat
  OBVIOUS
<1>2. DOMAIN s = 1..(Len(a) + Len(b) + Len(c)) /\ DOMAIN (a \o c) = 1..(Len(a) + Len(c))
  OBVIOUS
<1>3. ASSUME NEW i \in DOMAIN (a \o c) PROVE At(i) \in DOMAIN s /\ s[At(i)] = (a \o c)[i]
  <2>1. i \in Nat /\ 1 <= i /\ i <= Len(a) + Len(c)
    BY <1>1, <1>2
  <2>2. CASE i <= Len(a)
    BY <1>1, <1>2, <2>1, <2>2
  <2>3. CASE i > Len(a)
    <3>1. (a \o c)[i] = c[i - Len(a)]
      BY <1>1, <2>1, <2>3
    <3>2. s[i + Len(b)] = c[i + Len(b) - (Len(a) + Len(b))]
      BY <1>1, <2>1, <2>3
    <3>3. i + Len(b) - (Len(a) + Len(b)) = i - Len(a)
      BY <1>1, <2>1
    <3> QED
      BY <1>1, <1>2, <2>1, <2>3, <3>1, <3>2, <3>3
  <2> QED
    BY <1>1, <2>1, <2>2, <2>3
<1>4. \A i, j \in DOMAIN (a \o c) : i < j => At(i) < At(j)
  BY <1>1, <1>2
<1> HIDE DEF s, At
<1> SUFFICES ASSUME NEW i \in DOMAIN (a \o c), NEW j \in DOMAIN (a \o c),
                    NEW m \in DOMAIN t, NEW n \in DOMAIN t, i < j,
                    (a \o c)[i] = t[m], (a \o c)[j] = t[n]
             PROVE  m < n
  BY DEF InOrderOf
<1>5. At(i) < At(j) /\ At(i) \in DOMAIN s /\ At(j) \in DOMAIN s /\ s[At(i)] = t[m] /\ s[At(j)] = t[n]
  BY <1>3, <1>4
<1> QED
  BY <1>5 DEF InOrderOf, s

(* Rows, and then the entries that are on their way to become rows.        *)
Chain == log \o pending \o batch \o channel

(* A caller that writes directly has found the worker gone.                *)
DirectIsLate == \A c \in Callers : call[c].pc = "direct" => WorkerGone

Ordered == DirectIsLate /\ PersistedInOrder

(* The chain as one sequence.                                              *)
LEMMA ChainParts ==
  ASSUME Shape
  PROVE  /\ Chain \in Seq(Entries)
         /\ Range(Chain) = Range(log) \cup InFlight
         /\ accepted \in Seq(Entries) /\ DOMAIN accepted \subseteq Int
<1>0. /\ channel \in Seq(Entries) /\ batch \in Seq(Entries) /\ pending \in Seq(Entries)
      /\ log \in Seq(Entries) /\ accepted \in Seq(Entries)
  BY DEF Shape, TypeOK
<1> DEFINE x == log \o pending
           y == x \o batch
<1>1. x \in Seq(Entries) /\ Range(x) = Range(log) \cup Range(pending)
  BY <1>0, RangeConcat
<1> HIDE DEF x
<1>2. y \in Seq(Entries) /\ Range(y) = Range(x) \cup Range(batch)
  BY <1>0, <1>1, RangeConcat
<1> HIDE DEF y
<1>3. y \o channel \in Seq(Entries) /\ Range(y \o channel) = Range(y) \cup Range(channel)
  BY <1>0, <1>2, RangeConcat
<1>4. Chain = y \o channel
  BY DEF Chain, x, y
<1> QED
  BY <1>0, <1>1, <1>2, <1>3, <1>4 DEF InFlight

(* Concatenation: the unit and the regrouping of parts.                    *)
LEMMA Regroup ==
  ASSUME NEW S, NEW a \in Seq(S), NEW b \in Seq(S), NEW c \in Seq(S), NEW e \in S
  PROVE  /\ a \o <<>> = a /\ <<>> \o a = a
         /\ (a \o b) \o c = a \o (b \o c)
         /\ Append(a, e) \o b = a \o (<<e>> \o b)
         /\ a \o Append(b, e) = Append(a \o b, e)
<1>1. (a \o b) \o c = a \o (b \o c)
  BY ConcatAssociative
<1>2. <<e>> \in Seq(S) /\ Append(a, e) = a \o <<e>> /\ Append(b, e) = b \o <<e>>
      /\ Append(a \o b, e) = (a \o b) \o <<e>>
  OBVIOUS
<1>3. Append(a, e) \o b = a \o (<<e>> \o b)
  BY <1>2, ConcatAssociative
<1>4. a \o Append(b, e) = Append(a \o b, e)
  BY <1>2, ConcatAssociative
<1> QED
  BY <1>1, <1>3, <1>4, ConcatEmptySeq

(* The first element of a sequence moves to the end of the one before it.  *)
LEMMA TakeFirst ==
  ASSUME NEW S, NEW a \in Seq(S), NEW b \in Seq(S), NEW c \in Seq(S), c # <<>>
  PROVE  (a \o Append(b, Head(c))) \o Tail(c) = (a \o b) \o c
<1> DEFINE e == Head(c)
           d == Tail(c)
           ab == a \o b
<1>1. e \in S /\ d \in Seq(S) /\ <<e>> \in Seq(S) /\ c = <<e>> \o d /\ ab \in Seq(S)
  OBVIOUS
<1> HIDE DEF e, d
<1>2. a \o Append(b, e) = Append(ab, e)
  BY <1>1, Regroup
<1> HIDE DEF ab
<1>3. Append(ab, e) \o d = ab \o (<<e>> \o d)
  BY <1>1, Regroup
<1>4. (a \o Append(b, e)) \o d = ab \o c
  BY <1>1, <1>2, <1>3
<1> QED
  BY <1>4 DEF e, d, ab

(* The chain grows at its end.                                             *)
LEMMA ChainGrows ==
  ASSUME Shape, NEW e \in Entries, UNCHANGED <<batch, pending>>,
         \/ channel' = Append(channel, e) /\ log' = log
         \/ /\ log' = Append(log, e) /\ channel' = channel
            /\ channel = <<>> /\ batch = <<>> /\ pending = <<>>
  PROVE  Chain' = Append(Chain, e)
<1>0. /\ channel \in Seq(Entries) /\ batch \in Seq(Entries) /\ pending \in Seq(Entries)
      /\ log \in Seq(Entries)
  BY DEF Shape, TypeOK
<1>1. CASE channel' = Append(channel, e) /\ log' = log
  <2> DEFINE y == log \o pending \o batch
  <2>1. y \in Seq(Entries) /\ y' = y
    BY <1>0, <1>1
  <2>2. Chain = y \o channel /\ Chain' = y' \o Append(channel, e)
    BY <1>1 DEF Chain
  <2> HIDE DEF y
  <2> QED
    BY <1>0, <2>1, <2>2, Regroup
<1>2. CASE /\ log' = Append(log, e) /\ channel' = channel
           /\ channel = <<>> /\ batch = <<>> /\ pending = <<>>
  <2>1. Append(log, e) \in Seq(Entries)
    BY <1>0
  <2>2. Chain = log /\ Chain' = log'
    BY <1>0, <1>2, <2>1, Regroup DEF Chain
  <2> QED
    BY <1>2, <2>2
<1> QED
  BY <1>1, <1>2

(* A step of a caller keeps the order.                                     *)
LEMMA CallerOrdered ==
  ASSUME Shape, Accounts, Ordered, NEW c \in Callers, CallerStep(c)
  PROVE  Ordered'
<1> USE DEF ghosts, queues
<1>0. Idle.pc = "idle" /\ call \in [Callers -> CallState]
  BY DEF Idle, Shape, TypeOK
<1>1. Chain \in Seq(Entries) /\ accepted \in Seq(Entries) /\ InOrderOf(Chain, accepted)
  BY ChainParts DEF Ordered, PersistedInOrder, Chain
<1>2. ASSUME call[c].pc # "idle"
      PROVE  /\ call[c].entry \in Entries
             /\ call[c].entry \notin Range(accepted) /\ call[c].entry \notin Range(Chain)
  <2>1. call[c].entry \in Entries /\ call[c].entry \notin Range(log) \cup Range(accepted)
    BY <1>2 DEF Shape, TypeOK, Accounts, CallsFresh
  <2>2. InFlight \subseteq Range(accepted) /\ Range(Chain) = Range(log) \cup InFlight
    BY ChainParts DEF Accounts, EntriesAccounted
  <2> QED
    BY <2>1, <2>2
<1>3. DirectIsLate'
  <2>1. worker' = worker
    BY DEF CallerStep, WriteAudit, Send, SendClosed, WriteDirect, WriteDirectError, CallerDropped
  <2>2. \A d \in Callers : call'[d].pc = "direct" => call[d].pc = "direct" \/ WorkerGone
    <3>1. CASE WriteAudit(c)
      BY <1>0, <3>1 DEF WriteAudit
    <3>2. CASE SendClosed(c)
      BY <3>2 DEF SendClosed
    <3>3. CASE Send(c) \/ WriteDirect(c) \/ WriteDirectError(c) \/ CallerDropped(c)
      BY <1>0, <3>3 DEF Send, WriteDirect, WriteDirectError, CallerDropped
    <3> QED
      BY <3>1, <3>2, <3>3 DEF CallerStep
  <2> QED
    BY <2>1, <2>2 DEF Ordered, DirectIsLate, WorkerGone
<1>4. CASE Send(c)
  <2>1. Chain' = Append(Chain, call[c].entry)
    BY <1>2, <1>4, ChainGrows DEF Send
  <2>2. accepted' = Append(accepted, call[c].entry)
    BY <1>4 DEF Send
  <2>3. InOrderOf(Append(Chain, call[c].entry), Append(accepted, call[c].entry))
    BY <1>1, <1>2, <1>4, OrderAppendBoth DEF Send
  <2>4. PersistedInOrder' <=> InOrderOf(Chain', accepted')
    BY DEF PersistedInOrder, Chain
  <2> QED
    BY <1>3, <2>1, <2>2, <2>3, <2>4 DEF Ordered
<1>5. CASE WriteDirect(c)
  <2>1. channel = <<>> /\ batch = <<>> /\ pending = <<>>
    BY <1>5 DEF WriteDirect, Ordered, DirectIsLate, Shape, QueueShape
  <2>2. Chain' = Append(Chain, call[c].entry)
    BY <1>2, <1>5, <2>1, ChainGrows DEF WriteDirect
  <2>3. accepted' = accepted
    BY <1>5 DEF WriteDirect
  <2>4. InOrderOf(Append(Chain, call[c].entry), accepted)
    BY <1>1, <1>2, <1>5, OrderAppend DEF WriteDirect
  <2>5. PersistedInOrder' <=> InOrderOf(Chain', accepted')
    BY DEF PersistedInOrder, Chain
  <2> QED
    BY <1>3, <2>2, <2>3, <2>4, <2>5 DEF Ordered
<1>6. CASE WriteAudit(c) \/ SendClosed(c) \/ WriteDirectError(c) \/ CallerDropped(c)
  <2>1. UNCHANGED <<log, pending, batch, channel, accepted>>
    BY <1>6 DEF WriteAudit, SendClosed, WriteDirectError, CallerDropped
  <2>2. PersistedInOrder'
    BY <2>1 DEF Ordered, PersistedInOrder
  <2> QED
    BY <1>3, <2>2 DEF Ordered
<1> QED
  BY <1>4, <1>5, <1>6 DEF CallerStep

(* A step that only takes entries out of the chain, or moves none of them  *)
(* past another, keeps the order.                                          *)
LEMMA ChainKept ==
  ASSUME Shape, PersistedInOrder, UNCHANGED accepted,
         \/ Chain' = Chain
         \/ \E a, b, c \in Seq(Entries) : Chain = (a \o b) \o c /\ Chain' = a \o c
  PROVE  PersistedInOrder'
<1>1. DOMAIN accepted \subseteq Int /\ InOrderOf(Chain, accepted)
  BY ChainParts DEF PersistedInOrder, Chain
<1>2. PersistedInOrder' <=> InOrderOf(Chain', accepted)
  BY DEF PersistedInOrder, Chain
<1>3. ASSUME NEW a \in Seq(Entries), NEW b \in Seq(Entries), NEW c \in Seq(Entries),
             Chain = (a \o b) \o c /\ Chain' = a \o c
      PROVE  InOrderOf(Chain', accepted)
  BY <1>1, <1>3, OrderWithout
<1> QED
  BY <1>1, <1>2, <1>3

(* A step of the worker moves entries along the chain, or takes the batch  *)
(* in the transaction, or the whole queue, out of it.                      *)
LEMMA WorkerOrdered ==
  ASSUME Shape, Ordered, WorkerStep
  PROVE  Ordered'
<1> USE DEF ghosts, queues
<1>0. /\ channel \in Seq(Entries) /\ batch \in Seq(Entries) /\ pending \in Seq(Entries)
      /\ log \in Seq(Entries) /\ <<>> \in Seq(Entries)
  BY DEF Shape, TypeOK
<1>1. DirectIsLate'
  <2>1. ~WorkerGone /\ call' = call
    BY DEF WorkerStep, WorkerStarts, WorkerPanics, Recv, TickFlush, RecvNone, FlushCommits,
           FlushFails, WorkerGone
  <2> QED
    BY <2>1 DEF Ordered, DirectIsLate
<1>2. accepted' = accepted
  BY DEF WorkerStep, WorkerStarts, WorkerPanics, Recv, TickFlush, RecvNone, FlushCommits, FlushFails
<1> SUFFICES \/ Chain' = Chain
             \/ \E a, b, c \in Seq(Entries) : Chain = (a \o b) \o c /\ Chain' = a \o c
  BY <1>1, <1>2, ChainKept DEF Ordered
<1>3. CASE WorkerStarts
  BY <1>3 DEF WorkerStarts, Chain
<1>4. CASE WorkerPanics
  <2>1. batch = <<>> /\ pending = <<>>
    BY <1>4 DEF WorkerPanics, Shape, QueueShape
  <2>2. Chain = log \o channel /\ Chain' = log
    BY <1>0, <1>4, <2>1, Regroup DEF WorkerPanics, Chain
  <2>3. log \o channel \in Seq(Entries)
    BY <1>0
  <2>4. Chain = (log \o channel) \o <<>> /\ Chain' = log \o <<>>
    BY <1>0, <2>2, <2>3, Regroup
  <2> QED
    BY <1>0, <2>4
<1>5. CASE Recv
  <2> DEFINE e == Head(channel)
             b == Append(batch, e)
  <2>1. pending = <<>> /\ log' = log /\ channel' = Tail(channel)
    BY <1>5 DEF Recv, Shape, QueueShape
  <2>2. e \in Entries /\ channel' \in Seq(Entries) /\ channel = <<e>> \o channel'
    BY <1>0, <1>5, <2>1 DEF Recv
  <2>3. b \in Seq(Entries)
    BY <1>0, <2>2
  <2>4. \/ batch' = b /\ pending' = <<>>
        \/ batch' = <<>> /\ pending' = b
    BY <1>5, <2>3, FlushBatchType DEF Recv, FlushBatch
  <2>5. channel # <<>>
    BY <1>5 DEF Recv
  <2>6. (log \o b) \o Tail(channel) = (log \o batch) \o channel
    <3>1. ASSUME NEW x \in Seq(Entries), NEW y \in Seq(Entries), NEW z \in Seq(Entries), z # <<>>
          PROVE  (x \o Append(y, Head(z))) \o Tail(z) = (x \o y) \o z
      BY <3>1, TakeFirst
    <3> QED
      BY <1>0, <2>5, <3>1
  <2>7. Chain = (log \o batch) \o channel
    BY <1>0, <2>1, Regroup DEF Chain
  <2> HIDE DEF b
  <2>8. log \o b \in Seq(Entries) /\ log \o <<>> = log /\ (log \o b) \o <<>> = log \o b
    BY <1>0, <2>3, Regroup
  <2>9. log' \o pending' \o batch' = log \o b
    <3>1. CASE batch' = b /\ pending' = <<>>
      BY <2>1, <2>8, <3>1
    <3>2. CASE batch' = <<>> /\ pending' = b
      BY <2>1, <2>8, <3>2
    <3> QED
      BY <2>4, <3>1, <3>2
  <2>10. Chain' = (log \o b) \o Tail(channel)
    BY <2>1, <2>9 DEF Chain
  <2> QED
    BY <2>6, <2>7, <2>10
<1>6. CASE TickFlush \/ RecvNone
  <2>1. batch' = <<>> /\ pending' = batch
    BY <1>6 DEF TickFlush, RecvNone, FlushBatch
  <2>2. pending = <<>> /\ UNCHANGED <<channel, log>>
    BY <1>6 DEF TickFlush, RecvNone, Shape, QueueShape
  <2>3. log \o batch \in Seq(Entries)
    BY <1>0
  <2>4. Chain = (log \o batch) \o channel
    BY <1>0, <2>2, Regroup DEF Chain
  <2>5. Chain' = (log \o batch) \o channel
    BY <1>0, <2>1, <2>2, <2>3, Regroup DEF Chain
  <2> QED
    BY <2>4, <2>5
<1>7. CASE FlushCommits
  <2>1. batch = <<>> /\ batch' = <<>> /\ channel' = channel
    BY <1>7 DEF FlushCommits, Shape, QueueShape
  <2>2. pending' = <<>> /\ log' = log \o pending
    BY <1>7 DEF FlushCommits
  <2>3. log' \in Seq(Entries)
    BY <1>0, <2>2
  <2>4. Chain = log' \o channel
    BY <2>1, <2>2, <2>3, Regroup DEF Chain
  <2>5. Chain' = log' \o channel
    BY <1>0, <2>1, <2>2, <2>3, Regroup DEF Chain
  <2> QED
    BY <2>4, <2>5
<1>8. CASE FlushFails
  <2>1. batch = <<>> /\ batch' = <<>> /\ channel' = channel
    BY <1>8 DEF FlushFails, Shape, QueueShape
  <2>2. pending' = <<>> /\ log' = log
    BY <1>8 DEF FlushFails
  <2>3. log \o pending \in Seq(Entries)
    BY <1>0
  <2>4. Chain = (log \o pending) \o channel
    BY <2>1, <2>2, <2>3, Regroup DEF Chain
  <2>5. Chain' = log \o channel
    BY <1>0, <2>1, <2>2, <2>3, Regroup DEF Chain
  <2> QED
    BY <1>0, <2>4, <2>5
<1> QED
  BY <1>3, <1>4, <1>5, <1>6, <1>7, <1>8 DEF WorkerStep

(* No flush, failure, direct write, crash or restart lets an accepted      *)
(* entry overtake another on its way into audit_log.                       *)
THEOREM EntriesKeepTheirOrder == Spec => []PersistedInOrder
<1> USE DEF ghosts, queues
<1>0. Idle.pc = "idle"
  BY DEF Idle
<1>1. Init => Ordered
  <2> SUFFICES ASSUME Init PROVE Ordered
    OBVIOUS
  <2>1. DirectIsLate
    BY <1>0 DEF Init, DirectIsLate
  <2>2. DOMAIN accepted = {}
    BY DEF Init
  <2> QED
    BY <2>1, <2>2 DEF Ordered, PersistedInOrder, InOrderOf
<1>2. Shape /\ Accounts /\ Ordered /\ [Next]_vars => Ordered'
  <2> SUFFICES ASSUME Shape, Accounts, Ordered, [Next]_vars PROVE Ordered'
    OBVIOUS
  <2>1. CASE \E c \in Callers : CallerStep(c)
    BY <2>1, CallerOrdered
  <2>2. CASE WorkerStep
    BY <2>2, WorkerOrdered
  <2>3. CASE Crash
    <3>1. /\ channel \in Seq(Entries) /\ batch \in Seq(Entries) /\ pending \in Seq(Entries)
          /\ log \in Seq(Entries) /\ <<>> \in Seq(Entries)
      BY DEF Shape, TypeOK
    <3> DEFINE q == pending \o (batch \o channel)
    <3>2. batch \o channel \in Seq(Entries) /\ log \o pending \in Seq(Entries)
      BY <3>1
    <3>3. q \in Seq(Entries)
      BY <3>1, <3>2
    <3>4. Chain = (log \o pending) \o (batch \o channel)
      BY <3>1, <3>2, Regroup DEF Chain
    <3>5. Chain = log \o q
      BY <3>1, <3>2, <3>4, Regroup
    <3>6. Chain' = log /\ accepted' = accepted
      BY <2>3, <3>1, Regroup DEF Crash, Chain
    <3> HIDE DEF q
    <3>7. log \o q \in Seq(Entries)
      BY <3>1, <3>3
    <3>8. Chain = (log \o q) \o <<>> /\ Chain' = log \o <<>>
      BY <3>1, <3>5, <3>6, <3>7, Regroup
    <3>9. PersistedInOrder'
      BY <3>1, <3>3, <3>6, <3>8, ChainKept DEF Ordered
    <3>10. DirectIsLate'
      BY <1>0, <2>3 DEF Crash, DirectIsLate
    <3> QED
      BY <3>9, <3>10 DEF Ordered
  <2>4. CASE Start
    <3>1. UNCHANGED <<log, pending, batch, channel, accepted, call>>
      BY <2>4 DEF Start
    <3>2. \A c \in Callers : call[c].pc = "idle"
      BY <2>4 DEF Start, Shape, QueueShape
    <3> QED
      BY <3>1, <3>2 DEF Ordered, DirectIsLate, PersistedInOrder
  <2>5. CASE DropGuard \/ UNCHANGED vars
    BY <2>5 DEF DropGuard, vars, Ordered, DirectIsLate, WorkerGone, PersistedInOrder
  <2> QED
    BY <2>1, <2>2, <2>3, <2>4, <2>5 DEF Next
<1>3. Ordered => PersistedInOrder
  BY DEF Ordered
<1> QED
  BY <1>1, <1>2, <1>3, ShapeCorrect, AccountsCorrect, PTL DEF Spec

=============================================================================
