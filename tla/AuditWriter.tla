---------------------------- MODULE AuditWriter ----------------------------
(***************************************************************************)
(* The audit log of claw-guard: write_audit in guard.rs, and the bounded   *)
(* channel, the background worker and the batched inserts of               *)
(* src/src/audit/mod.rs.                                                   *)
(*                                                                         *)
(* Callers are the tasks inside Guard::write_audit; the worker is the task *)
(* spawned by AuditWriter::new.  One action is the code of one task        *)
(* between two awaits.  The tokio channel is modelled by how the code uses *)
(* it: a bounded queue, closed for the worker when every sender is gone    *)
(* and the queue is empty, closed for the callers when the worker is gone. *)
(***************************************************************************)
EXTENDS Integers, FiniteSets, Sequences, Functions

CONSTANTS
  Entries,        \* the audit entries the calls build, each with a fresh id
  NoEntry,        \* not an entry
  Callers,        \* tasks inside write_audit
  BatchSize,      \* audit_batch_size
  FlushIntervals, \* the values of audit_flush_interval_ms a start may read
  MaxFaults,      \* bound: database errors
  MaxStarts       \* bound: starts of the process

ASSUME AuditConstants ==
  /\ IsFiniteSet(Entries)
  /\ NoEntry \notin Entries
  /\ BatchSize \in Nat
  /\ FlushIntervals \subseteq Nat /\ FlushIntervals # {}
  /\ MaxFaults \in Nat /\ MaxStarts \in Nat

VARIABLES
  interval,  \* audit_flush_interval_ms of the running process
  channel,   \* the queue between callers and worker
  batch,     \* the worker's buffer
  pending,   \* the entries flush_batch has taken out of it
  worker,    \* where the worker is
  open,      \* the Guard, and with it a Sender, is alive
  call,      \* the state of each caller
  log,       \* the rows of audit_log, in the order of their commit
  issued,    \* the entries some call has built
  accepted,  \* ghost: the entries `send` took, in that order
  lost,      \* ghost: accepted entries dropped without being stored
  faults,    \* ghost: failed flushes and direct writes
  starts     \* ghost: starts of the process

queues == <<channel, batch, pending>>
ghosts == <<accepted, lost, faults, starts>>
vars == <<interval, channel, batch, pending, worker, open, call, log, issued,
          accepted, lost, faults, starts>>

(* AuditWriter::new raises a batch size of 0 to 1.                         *)
EffectiveBatch == IF BatchSize = 0 THEN 1 ELSE BatchSize

ChannelCapacity == 2 * EffectiveBatch

(* Entries that were accepted and are neither stored nor lost.             *)
InFlight == Range(channel) \cup Range(batch) \cup Range(pending)

Idle == [pc |-> "idle", entry |-> NoEntry]

Init ==
  /\ interval \in FlushIntervals
  /\ channel = <<>> /\ batch = <<>> /\ pending = <<>>
  /\ worker = "spawned"
  /\ open = TRUE
  /\ call = [c \in Callers |-> Idle]
  /\ log = <<>>
  /\ issued = {}
  /\ accepted = <<>>
  /\ lost = {}
  /\ faults = 0
  /\ starts = 1

-----------------------------------------------------------------------------
(* Callers: Guard::write_audit.                                            *)

(* An entry that no call has built yet: a fresh Uuid.  Which one is of no  *)
(* consequence, for nothing looks into an entry.                           *)
FreshEntry == CHOOSE e \in Entries : e \notin issued

(* check_access has decided and calls AuditWriter::write.                  *)
WriteAudit(c) ==
  /\ open
  /\ call[c].pc = "idle"
  /\ Entries \ issued # {}
  /\ issued' = issued \cup {FreshEntry}
  /\ call' = [call EXCEPT ![c] = [pc |-> "send", entry |-> FreshEntry]]
  /\ UNCHANGED <<interval, queues, worker, open, log, ghosts>>

WorkerGone == worker \in {"none", "exited", "dead"}

\* Mutant: the channel has no bound.
SendUnbounded(c) ==
  /\ call[c].pc = "send"
  /\ ~WorkerGone
  /\ channel' = Append(channel, call[c].entry)
  /\ accepted' = Append(accepted, call[c].entry)
  /\ call' = [call EXCEPT ![c] = Idle]
  /\ UNCHANGED <<interval, batch, pending, worker, open, log, issued, lost, faults, starts>>

(* send waits until the queue has room.                                    *)
Send(c) ==
  /\ call[c].pc = "send"
  /\ ~WorkerGone
  /\ Len(channel) < ChannelCapacity
  /\ channel' = Append(channel, call[c].entry)
  /\ accepted' = Append(accepted, call[c].entry)
  /\ call' = [call EXCEPT ![c] = Idle]
  /\ UNCHANGED <<interval, batch, pending, worker, open, log, issued, lost, faults, starts>>

(* The worker is gone: AuditChannelClosed, and write_audit falls back on   *)
(* write_direct.                                                           *)
SendClosed(c) ==
  /\ call[c].pc = "send"
  /\ WorkerGone
  /\ call' = [call EXCEPT ![c].pc = "direct"]
  /\ UNCHANGED <<interval, queues, worker, open, log, issued, ghosts>>

WriteDirect(c) ==
  /\ call[c].pc = "direct"
  /\ log' = Append(log, call[c].entry)
  /\ call' = [call EXCEPT ![c] = Idle]
  /\ UNCHANGED <<interval, queues, worker, open, issued, ghosts>>

(* write_direct fails and check_access returns the error to its caller.    *)
WriteDirectError(c) ==
  /\ call[c].pc = "direct"
  /\ faults < MaxFaults
  /\ faults' = faults + 1
  /\ call' = [call EXCEPT ![c] = Idle]
  /\ UNCHANGED <<interval, queues, worker, open, log, issued, accepted, lost, starts>>

(* The client goes away and its task is dropped while it waits.            *)
CallerDropped(c) ==
  /\ call[c].pc # "idle"
  /\ call' = [call EXCEPT ![c] = Idle]
  /\ UNCHANGED <<interval, queues, worker, open, log, issued, ghosts>>

(* The last clone of the Guard is dropped; a call borrows the Guard, so no *)
(* call is running.                                                        *)
DropGuard ==
  /\ open
  /\ \A c \in Callers : call[c].pc = "idle"
  /\ open' = FALSE
  /\ UNCHANGED <<interval, queues, worker, call, log, issued, ghosts>>

-----------------------------------------------------------------------------
(* The worker.                                                             *)

(* tokio::time::interval.                                                  *)
WorkerStarts ==
  /\ worker = "spawned"
  /\ interval > 0
  /\ worker' = "select"
  /\ UNCHANGED <<interval, queues, open, call, log, issued, ghosts>>

\* Mutant: a worker with a zero period parks instead of ending.
WorkerParks ==
  /\ worker = "spawned"
  /\ interval = 0
  /\ worker' = "parked"
  /\ UNCHANGED <<interval, queues, open, call, log, issued, ghosts>>

(* tokio::time::interval panics on a zero period: the task ends, and what  *)
(* was sent before it first ran is dropped with the receiver.              *)
WorkerPanics ==
  /\ worker = "spawned"
  /\ interval = 0
  /\ worker' = "dead"
  /\ channel' = <<>>
  /\ lost' = lost \cup Range(channel)
  /\ UNCHANGED <<interval, batch, pending, open, call, log, issued, accepted, faults, starts>>

\* Mutant: the batch is inserted but not taken out of the buffer.
FlushBatchKeeps(b, next, last) ==
  IF b = <<>>
  THEN worker' = next /\ batch' = b /\ pending' = <<>>
  ELSE worker' = last /\ batch' = b /\ pending' = b

(* flush_batch up to pool.begin(): nothing to do for an empty buffer b,    *)
(* otherwise the buffer is taken and a transaction follows.                *)
FlushBatch(b, next, last) ==
  IF b = <<>>
  THEN worker' = next /\ batch' = b /\ pending' = <<>>
  ELSE worker' = last /\ batch' = <<>> /\ pending' = b

\* Mutant: the worker takes the newest entry first.
RecvNewest ==
  /\ worker = "select"
  /\ channel # <<>>
  /\ channel' = SubSeq(channel, 1, Len(channel) - 1)
  /\ LET b == Append(batch, channel[Len(channel)]) IN
       IF Len(b) >= EffectiveBatch
       THEN FlushBatch(b, "select", "tx")
       ELSE worker' = "select" /\ batch' = b /\ pending' = <<>>
  /\ UNCHANGED <<interval, open, call, log, issued, ghosts>>

\* Mutant: an entry that fills the batch starts a flush of the old batch.
RecvDropsTrigger ==
  /\ worker = "select"
  /\ channel # <<>>
  /\ channel' = Tail(channel)
  /\ LET b == Append(batch, Head(channel)) IN
       IF Len(b) >= EffectiveBatch
       THEN FlushBatch(batch, "select", "tx")
       ELSE worker' = "select" /\ batch' = b /\ pending' = <<>>
  /\ UNCHANGED <<interval, open, call, log, issued, ghosts>>

(* rx.recv() yields an entry.                                              *)
Recv ==
  /\ worker = "select"
  /\ channel # <<>>
  /\ channel' = Tail(channel)
  /\ LET b == Append(batch, Head(channel)) IN
       IF Len(b) >= EffectiveBatch
       THEN FlushBatch(b, "select", "tx")
       ELSE worker' = "select" /\ batch' = b /\ pending' = <<>>
  /\ UNCHANGED <<interval, open, call, log, issued, ghosts>>

\* Mutant: the ticker leaves a batch alone that is not full.
TickFlushIfFull ==
  /\ worker = "select"
  /\ Len(batch) >= EffectiveBatch
  /\ FlushBatch(batch, "select", "tx")
  /\ UNCHANGED <<interval, channel, open, call, log, issued, ghosts>>

(* The ticker fires.                                                       *)
TickFlush ==
  /\ worker = "select"
  /\ FlushBatch(batch, "select", "tx")
  /\ UNCHANGED <<interval, channel, open, call, log, issued, ghosts>>

\* Mutant: the worker leaves the loop without a last flush.
RecvNoneNoFlush ==
  /\ worker = "select"
  /\ ~open
  /\ channel = <<>>
  /\ worker' = "exited"
  /\ batch' = <<>> /\ pending' = <<>>
  /\ UNCHANGED <<interval, channel, open, call, log, issued, ghosts>>

(* rx.recv() yields None: the senders are gone and the queue is empty.     *)
RecvNone ==
  /\ worker = "select"
  /\ ~open
  /\ channel = <<>>
  /\ FlushBatch(batch, "exited", "lasttx")
  /\ UNCHANGED <<interval, channel, open, call, log, issued, ghosts>>

AfterFlush == worker' = IF worker = "tx" THEN "select" ELSE "exited"

(* The transaction commits.                                                *)
FlushCommits ==
  /\ worker \in {"tx", "lasttx"}
  /\ log' = log \o pending
  /\ pending' = <<>>
  /\ AfterFlush
  /\ UNCHANGED <<interval, channel, batch, open, call, issued, ghosts>>

\* Mutant: the worker stops at a failed flush.
FlushFailsStops ==
  /\ worker \in {"tx", "lasttx"}
  /\ faults < MaxFaults
  /\ faults' = faults + 1
  /\ lost' = lost \cup Range(pending)
  /\ pending' = <<>>
  /\ worker' = "stuck"
  /\ UNCHANGED <<interval, channel, batch, open, call, log, issued, accepted, starts>>

(* begin, an insert or the commit fails: the transaction is rolled back,   *)
(* the entries taken go with it, and the error is discarded by `let _ =`.  *)
FlushFails ==
  /\ worker \in {"tx", "lasttx"}
  /\ faults < MaxFaults
  /\ faults' = faults + 1
  /\ lost' = lost \cup Range(pending)
  /\ pending' = <<>>
  /\ AfterFlush
  /\ UNCHANGED <<interval, channel, batch, open, call, log, issued, accepted, starts>>

-----------------------------------------------------------------------------
(* The process.                                                            *)

(* The process, or its runtime, ends: everything in memory is gone.        *)
Crash ==
  /\ worker # "none"
  /\ worker' = "none"
  /\ open' = FALSE
  /\ channel' = <<>> /\ batch' = <<>> /\ pending' = <<>>
  /\ lost' = lost \cup InFlight
  /\ call' = [c \in Callers |-> Idle]
  /\ UNCHANGED <<interval, log, issued, accepted, faults, starts>>

(* Guard::new: a new channel and a new worker over the same database.  The *)
(* deployment is taken to keep one Guard at a time, which Guard::new does  *)
(* not enforce: a second Guard, or a new one beside a worker that still    *)
(* drains, has a queue and a worker of its own and is not modelled.        *)
Start ==
  /\ ~open /\ WorkerGone
  /\ starts < MaxStarts
  /\ starts' = starts + 1
  /\ interval' \in FlushIntervals
  /\ worker' = "spawned"
  /\ open' = TRUE
  /\ UNCHANGED <<queues, call, log, issued, accepted, lost, faults>>

CallerStep(c) ==
  \/ WriteAudit(c)
  \/ Send(c)
  \/ SendClosed(c)
  \/ WriteDirect(c)
  \/ WriteDirectError(c)
  \/ CallerDropped(c)

WorkerStep ==
  \/ WorkerStarts
  \/ WorkerPanics
  \/ Recv
  \/ TickFlush
  \/ RecvNone
  \/ FlushCommits
  \/ FlushFails

Next ==
  \/ \E c \in Callers : CallerStep(c)
  \/ WorkerStep
  \/ DropGuard
  \/ Crash
  \/ Start

Spec == Init /\ [][Next]_vars

(* The worker is polled, its database calls end (in success or failure),   *)
(* its ticker fires, and a caller whose send can proceed again and again   *)
(* proceeds: tokio's channel serves the waiting senders in order.  Nothing *)
(* makes a client call, go away, or the process end or start.              *)
Fairness ==
  /\ WF_vars(WorkerStarts) /\ WF_vars(WorkerPanics)
  /\ WF_vars(Recv) /\ WF_vars(TickFlush) /\ WF_vars(RecvNone)
  /\ WF_vars(FlushCommits \/ FlushFails)
  /\ \A c \in Callers :
       /\ SF_vars(Send(c))
       /\ WF_vars(SendClosed(c))
       /\ WF_vars(WriteDirect(c) \/ WriteDirectError(c))

FairSpec == Spec /\ Fairness

-----------------------------------------------------------------------------
(* Properties.                                                             *)

WorkerStates == {"spawned", "select", "tx", "lasttx", "exited", "dead", "none"}

CallState == [pc : {"idle", "send", "direct"}, entry : Entries \cup {NoEntry}]

(* Types of the queues, the tasks and the log.                             *)
TypeOK ==
  /\ interval \in FlushIntervals
  /\ channel \in Seq(Entries) /\ batch \in Seq(Entries) /\ pending \in Seq(Entries)
  /\ worker \in WorkerStates
  /\ open \in BOOLEAN
  /\ call \in [Callers -> CallState]
  /\ \A c \in Callers : call[c].pc # "idle" => call[c].entry \in Entries
  /\ log \in Seq(Entries)
  /\ issued \in SUBSET Entries
  /\ accepted \in Seq(Entries)
  /\ lost \in SUBSET Entries
  /\ faults \in Nat
  /\ starts \in Nat

Distinct(s) == \A i, j \in DOMAIN s : s[i] = s[j] => i = j

(* An entry is stored once at most, and an accepted entry is in exactly    *)
(* one place: a row, one of the three buffers, or lost.  No order of       *)
(* sends, flushes, failures, drops, crashes and restarts loses track of an *)
(* entry or inserts it twice (which the primary key would refuse, and with *)
(* it the whole batch).                                                    *)
EntriesAccounted ==
  /\ Distinct(log)
  /\ Range(accepted) \subseteq Range(log) \cup InFlight \cup lost
  /\ InFlight \cup lost \subseteq Range(accepted)
  /\ Range(log) \cap InFlight = {}
  /\ Range(log) \cap lost = {}
  /\ InFlight \cap lost = {}

(* The positions of the elements that s shares with t grow with those in t.*)
InOrderOf(s, t) ==
  \A i, j \in DOMAIN s, m, n \in DOMAIN t :
    i < j /\ s[i] = t[m] /\ s[j] = t[n] => m < n

(* From the row that was committed first to the entry at the end of the    *)
(* channel, accepted entries are in the order in which send accepted them: *)
(* no flush, failure, direct write or restart lets one overtake another.   *)
PersistedInOrder == InOrderOf(log \o pending \o batch \o channel, accepted)

(* Dropping the Guard loses nothing: when the worker has left its loop and *)
(* nothing failed, every accepted entry is a row.                          *)
CleanShutdown ==
  worker = "exited" /\ faults = 0 /\ starts = 1 => Range(accepted) \subseteq Range(log)

(* How much can be lost: a failed flush costs at most one batch, and the   *)
(* end of a process at most a full channel and a batch.                    *)
Ended == IF worker \in {"none", "dead"} THEN starts ELSE starts - 1

LossBound ==
  Cardinality(lost) <= EffectiveBatch * faults + (ChannelCapacity + EffectiveBatch) * Ended

(* The queues and the batches are an implementation of AuditTrail.         *)
Trail == INSTANCE AuditTrail WITH waiting <- InFlight, rows <- Range(log), lost <- lost

ImplementsTrail == Trail!Spec

(* An accepted entry does not wait forever: it becomes a row or is lost,   *)
(* whether its batch fills up or not.                                      *)
EntriesSettle == \A e \in Entries : e \in InFlight ~> e \notin InFlight

(* A full channel delays check_access, but not forever.                    *)
CallersReturn == \A c \in Callers : call[c].pc # "idle" ~> call[c].pc = "idle"

(* A worker whose Guard was dropped ends.                                  *)
WorkerEnds == ~open ~> open \/ WorkerGone

(* "Queues an audit entry for asynchronous persistence": an entry that     *)
(* write has accepted is not dropped while the process lives.  flush_batch *)
(* takes the batch before the transaction begins and drops it on an error. *)
AcceptedIsNotDropped == starts = 1 /\ worker # "none" => lost = {}

=============================================================================
