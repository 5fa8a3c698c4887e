------------------------------ MODULE ApiKeys ------------------------------
(***************************************************************************)
(* The API keys of claw-guard (src/src/keys.rs): the rows of `api_keys`,   *)
(* the calls that create, validate, revoke and list them, and the tasks    *)
(* that validate_key detaches to note the last use of a key.               *)
(*                                                                         *)
(* A key stands for its raw text, its BLAKE3 hash and the id of its row:   *)
(* the text is random, the hash has no collisions and key_hash is UNIQUE.  *)
(* The keys are those of one workspace.                                    *)
(***************************************************************************)
EXTENDS Integers, Sequences, FiniteSets

CONSTANTS
  Keys,      \* the raw keys create_key may draw
  NoKey,     \* a text that is nobody's key, an id without a row
  NoRow,     \* no row for that key
  Never,     \* last_used_at IS NULL
  Clients,   \* tasks that call the key manager
  MaxUses,   \* bound: accepted validations, running ones included
  MaxClock   \* bound of the clock

KeyRow == [revoked : BOOLEAN, used : 0..MaxClock \cup {Never}]

ASSUME KeyConstants ==
  /\ NoKey \notin Keys
  /\ NoRow \notin KeyRow
  /\ MaxUses \in Nat /\ MaxClock \in Nat /\ Never \notin 0..MaxClock

VARIABLES
  clock,     \* Utc::now()
  api_keys,  \* the `api_keys` table
  call,      \* the state of each client
  task,      \* the detached updates, in the order in which they were spawned
  handed,    \* the raw keys some create_key has returned
  acked      \* ghost: the keys for which some revoke_key has returned

vars == <<clock, api_keys, call, task, handed, acked>>

(* A call: its key, the row in its hands, the keys its answer shows as     *)
(* usable, and those it may not: their revocation had been acknowledged    *)
(* when the call began.                                                    *)
Call(op, pc, key, dead) ==
  [op |-> op, pc |-> pc, key |-> key, row |-> NoRow, usable |-> {}, dead |-> dead]

Idle == Call("none", "idle", NoKey, {})

Init ==
  /\ clock = 0
  /\ api_keys = [k \in Keys |-> NoRow]
  /\ call = [c \in Clients |-> Idle]
  /\ task = <<>>
  /\ handed = {}
  /\ acked = {}

Tick ==
  /\ clock < MaxClock
  /\ clock' = clock + 1
  /\ UNCHANGED <<api_keys, call, task, handed, acked>>

Known == {k \in Keys : api_keys[k] # NoRow}

RowOf(k) == IF k \in Keys THEN api_keys[k] ELSE NoRow

(* `about` is the set of keys the answer may show as usable.               *)
Begin(c, op, pc, k, about) ==
  /\ call[c].pc = "idle"
  /\ call' = [call EXCEPT ![c] = Call(op, pc, k, about \cap acked)]
  /\ UNCHANGED <<clock, api_keys, task, handed, acked>>

Answer(c, usable) ==
  call' = [call EXCEPT ![c].pc = "done", ![c].row = NoRow, ![c].usable = usable]

-----------------------------------------------------------------------------
(* create_key: draw a key, INSERT its row, return the raw text.            *)

CreateKey(c) ==
  \E k \in Keys \ (Known \cup {call[d].key : d \in Clients}) :
    Begin(c, "create", "insert", k, {})

\* Mutant: `let _ =` before the INSERT, which may have failed.
InsertKeyUnchecked(c) ==
  /\ call[c].pc = "insert"
  /\ Answer(c, {})
  /\ UNCHANGED <<clock, api_keys, task, handed, acked>>

InsertKey(c) ==
  /\ call[c].pc = "insert"
  /\ api_keys' = [api_keys EXCEPT ![call[c].key] = [revoked |-> FALSE, used |-> Never]]
  /\ Answer(c, {})
  /\ UNCHANGED <<clock, task, handed, acked>>

-----------------------------------------------------------------------------
(* validate_key: SELECT by hash, judge the row, detach the update.         *)

Validating == {c \in Clients : call[c].op = "validate" /\ call[c].pc # "done"}

ValidateKey(c) ==
  /\ Len(task) + Cardinality(Validating) < MaxUses
  /\ \E k \in handed \cup {NoKey} : Begin(c, "validate", "select", k, {k})

SelectKey(c) ==
  /\ call[c].pc = "select"
  /\ call' = [call EXCEPT ![c].pc = "judge", ![c].row = RowOf(call[c].key)]
  /\ UNCHANGED <<clock, api_keys, task, handed, acked>>

\* Mutant: a row that exists is good enough.
UsableIfStored(row) == row # NoRow

Usable(row) == row # NoRow /\ ~row.revoked

(* tokio::spawn: the key, the time to store, and whether every earlier     *)
(* update of that key had ended when this one was spawned.                 *)
Pending(k) == {i \in DOMAIN task : task[i].key = k /\ task[i].pc \in {"spawned", "bound"}}

Detached(k) ==
  [key |-> k, pc |-> "spawned", stamp |-> 0, alone |-> Pending(k) = {}]

AcceptKey(c) ==
  /\ call[c].pc = "judge"
  /\ Usable(call[c].row)
  /\ task' = Append(task, Detached(call[c].key))
  /\ Answer(c, {call[c].key})
  /\ UNCHANGED <<clock, api_keys, handed, acked>>

(* InvalidToken.                                                           *)
RejectKey(c) ==
  /\ call[c].pc = "judge"
  /\ ~Usable(call[c].row)
  /\ Answer(c, {})
  /\ UNCHANGED <<clock, api_keys, task, handed, acked>>

(* The detached task is polled and reads the clock ...                     *)
BindStamp(i) ==
  /\ task[i].pc = "spawned"
  /\ task' = [task EXCEPT ![i].pc = "bound", ![i].stamp = clock]
  /\ UNCHANGED <<clock, api_keys, call, handed, acked>>

\* Mutant: UPDATE ... WHERE id = ?2 AND revoked = 0.
UpdatedIfLive(k, stamp) ==
  IF api_keys[k].revoked THEN api_keys ELSE [api_keys EXCEPT ![k].used = stamp]

\* Mutant: UPDATE ... WHERE id = ?2 AND last_used_at IS NULL.
UpdatedOnce(k, stamp) ==
  IF api_keys[k].used # Never THEN api_keys ELSE [api_keys EXCEPT ![k].used = stamp]

\* Mutant: the UPDATE has lost its WHERE.
UpdatedEverywhere(k, stamp) ==
  [j \in Keys |-> IF api_keys[j] = NoRow THEN NoRow
                  ELSE [api_keys[j] EXCEPT !.used = stamp]]

\* Mutant: the update writes back the row the validation had read.
UpdatedWholeRow(k, stamp) == [api_keys EXCEPT ![k] = [revoked |-> FALSE, used |-> stamp]]

(* UPDATE api_keys SET last_used_at = ?1 WHERE id = ?2.                    *)
Updated(k, stamp) == [api_keys EXCEPT ![k].used = stamp]

(* ... then its UPDATE runs; updates on two connections run in any order.  *)
RecordUse(i) ==
  /\ task[i].pc = "bound"
  /\ api_keys' = Updated(task[i].key, task[i].stamp)
  /\ task' = [task EXCEPT ![i].pc = "recorded"]
  /\ UNCHANGED <<clock, call, handed, acked>>

(* A database error, discarded by `let _ =`.                               *)
RecordFails(i) ==
  /\ task[i].pc = "bound"
  /\ task' = [task EXCEPT ![i].pc = "lost"]
  /\ UNCHANGED <<clock, api_keys, call, handed, acked>>

-----------------------------------------------------------------------------
(* revoke_key and list_keys: one statement each.                           *)

RevokeKey(c) == \E k \in Known \cup {NoKey} : Begin(c, "revoke", "update", k, {})

UpdateRevoked(c) ==
  /\ call[c].pc = "update"
  /\ api_keys' = [k \in Keys |->
       IF k = call[c].key THEN [api_keys[k] EXCEPT !.revoked = TRUE] ELSE api_keys[k]]
  /\ Answer(c, {})
  /\ UNCHANGED <<clock, task, handed, acked>>

ListKeys(c) == Begin(c, "list", "list", NoKey, Keys)

ReadKeys(c) ==
  /\ call[c].pc = "list"
  /\ Answer(c, {k \in Known : ~api_keys[k].revoked})
  /\ UNCHANGED <<clock, api_keys, task, handed, acked>>

-----------------------------------------------------------------------------
(* The caller takes the answer.                                            *)
Return(c) ==
  /\ call[c].pc = "done"
  /\ handed' = handed \cup {k \in {call[c].key} : call[c].op = "create"}
  /\ acked' = acked \cup {k \in {call[c].key} \cap Keys : call[c].op = "revoke"}
  /\ call' = [call EXCEPT ![c] = Idle]
  /\ UNCHANGED <<clock, api_keys, task>>

(* A database error before the statement, or a dropped task.  What was     *)
(* detached runs on.                                                       *)
CallAborted(c) ==
  /\ call[c].pc # "idle"
  /\ call' = [call EXCEPT ![c] = Idle]
  /\ UNCHANGED <<clock, api_keys, task, handed, acked>>

(* The process ends and starts again: calls and detached tasks are gone.   *)
Restart ==
  /\ call' = [c \in Clients |-> Idle]
  /\ task' = [i \in DOMAIN task |->
       IF task[i].pc \in {"spawned", "bound"} THEN [task[i] EXCEPT !.pc = "lost"] ELSE task[i]]
  /\ UNCHANGED <<clock, api_keys, handed, acked>>

ClientStep(c) ==
  \/ CreateKey(c)
  \/ InsertKey(c)
  \/ ValidateKey(c)
  \/ SelectKey(c)
  \/ AcceptKey(c)
  \/ RejectKey(c)
  \/ RevokeKey(c)
  \/ UpdateRevoked(c)
  \/ ListKeys(c)
  \/ ReadKeys(c)
  \/ Return(c)
  \/ CallAborted(c)

TaskStep(i) == BindStamp(i) \/ RecordUse(i) \/ RecordFails(i)

Next ==
  \/ Tick
  \/ \E c \in Clients : ClientStep(c)
  \/ \E i \in DOMAIN task : TaskStep(i)
  \/ Restart

Spec == Init /\ [][Next]_vars

(* tokio polls a spawned task until it has ended, whatever becomes of the  *)
(* call that spawned it.                                                   *)
FairSpec ==
  Spec /\ \A i \in 1..MaxUses : WF_vars(i \in DOMAIN task /\ TaskStep(i))

-----------------------------------------------------------------------------
(* Properties.                                                             *)

CallType ==
  [op : {"none", "create", "validate", "revoke", "list"},
   pc : {"idle", "insert", "select", "judge", "update", "list", "done"},
   key : Keys \cup {NoKey}, row : KeyRow \cup {NoRow},
   usable : SUBSET Keys, dead : SUBSET Keys]

TaskType ==
  [key : Keys, pc : {"spawned", "bound", "recorded", "lost"},
   stamp : 0..MaxClock, alone : BOOLEAN]

(* Types; a detached update always has a row to write to.                  *)
TypeOK ==
  /\ clock \in 0..MaxClock
  /\ api_keys \in [Keys -> KeyRow \cup {NoRow}]
  /\ call \in [Clients -> CallType]
  /\ task \in Seq(TaskType)
  /\ handed \subseteq Known /\ acked \subseteq Known
  /\ \A i \in DOMAIN task : task[i].key \in Known

(* Once some revoke_key has returned, no validate_key that starts later    *)
(* accepts the key and no list_keys shows it as usable; in particular a    *)
(* late update of last_used_at never brings a revoked key back.            *)
RevokedKeyStaysOut ==
  \A c \in Clients : call[c].usable \cap call[c].dead = {}

(* "Last successful use timestamp" (ApiKeyRecord::last_used_at): a time    *)
(* that was noted after an accepted validation of this very key.           *)
LastUseIsAUse ==
  \A k \in Known : api_keys[k].used # Never =>
    \E i \in DOMAIN task :
      /\ task[i].key = k /\ task[i].pc = "recorded"
      /\ task[i].stamp = api_keys[k].used

(* When the last validation of a key found no earlier update of it under   *)
(* way, its own time is what the row keeps: last_used_at goes backwards    *)
(* only through updates that overlap.                                      *)
LastUseIsTheLast ==
  \A i \in DOMAIN task :
    /\ task[i].pc = "recorded" /\ task[i].alone
    /\ \A j \in DOMAIN task : j > i => task[j].key # task[i].key
    => api_keys[task[i].key].used = task[i].stamp

(* Every accepted use, not just the first of a key, reaches the row        *)
(* although nobody waits for the detached update: there comes a moment in  *)
(* which last_used_at is the time of that very use, unless the database or *)
(* the process fails.                                                      *)
OnTheRow(i) == task[i].pc = "recorded" /\ api_keys[task[i].key].used = task[i].stamp

UsesAreRecorded ==
  \A i \in 1..MaxUses :
    i \in DOMAIN task /\ task[i].pc = "spawned" ~>
      i \in DOMAIN task /\ (task[i].pc = "lost" \/ OnTheRow(i))

=============================================================================
