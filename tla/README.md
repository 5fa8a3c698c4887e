# A TLA+ verification of claw-guard

claw-guard is the security engine of ClawDB: API keys, JWT sessions, policies
written in TOML, batched audit logging and JSON masking over one SQLite database,
with an optional gRPC front end. All of it runs as tasks of one tokio runtime;
the tasks share a pool of SQLite connections, one policy cache and one audit
channel. This directory models the parts whose correctness depends on how those
tasks interleave, fail and are dropped, checks the models with TLC and proves
their main properties with TLAPS.

## The system

| Part | State | Operations | Talks to |
|---|---|---|---|
| Policy engine (`policy/mod.rs`) | table `policies`; `cache: Arc<RwLock<Vec<Policy>>>`, empty = not loaded | `add_policy_from_toml`, `load_from_dir`, `remove_policy`, `list_policies`, `evaluate`, `compute_risk` | SQLite; called by Guard and gRPC |
| Audit writer (`audit/mod.rs`, `guard.rs:168-193`) | bounded channel, the worker's buffer, table `audit_log` | `write`, the worker's loop, `flush_batch`, `write_direct` | SQLite; called at the end of every access check |
| Sessions (`session.rs`) | table `sessions`; the JWT in the client's hands | `create_session`, `validate_session`, `assert_session_active`, `revoke_session`, `list_active_sessions` | SQLite; called by Guard and gRPC |
| Guard (`guard.rs`) | nothing of its own | `new`, `check_access(_with_task)`, `write_audit`, `check_tool_permission` | composes sessions, policies and audit |
| API keys (`keys.rs`) | table `api_keys` | `create_key`, `validate_key` (which detaches a `last_used_at` update), `revoke_key`, `list_keys` | SQLite |
| Masking (`masking/mod.rs`) | none | `apply` and its helpers, `matches_pattern` | pure |
| Audit reader, CSV export (`audit/mod.rs`) | none | `query`, `export_csv` | SQLite; called by gRPC |
| gRPC (`grpc.rs`) | none | translates requests, casts `ttl_secs`, seconds to milliseconds, errors to a status | all of the above |
| Config, data types, server binary | none | start-up | - |

What is hard to test here:

* the cache is filled by a check, a SELECT and an install with an await between
  any two of them, while other tasks write and invalidate;
* several statements that belong together (the policies of a source, the files
  of a directory) commit one by one;
* audit entries pass three buffers before they are rows; a flush may fail, the
  process may end, the worker may panic, callers may be dropped anywhere;
* a session has two expiries, milliseconds in the row and whole seconds plus a
  leeway in the JWT, and its ttl passes two integer casts;
* lists are paged with LIMIT and OFFSET while they change;
* an access check awaits the session row (twice behind gRPC), the policies and
  a place in the audit queue, while the session ends, policies change, the
  database fails or the caller leaves;
* a validated key spawns an update nobody waits for, and a revocation or a
  second use may overtake it;
* patterns, masks, conditions and CSV fields have corner cases (stars, empty
  lists, nested paths, doubled quotes) that only meet in combination.

`PROJECT.json` lists these hazards line by line with the properties that cover
them.

## Modules

### PolicyEngine

`table` is the `policies` table by its UNIQUE name, `cache` the cached vector.
Each administrative task (`admin`) works through the files it was given, the
policies of the current file (`todo`) and, per policy, one autocommitted
statement followed by `invalidate_cache`; an abort before the statement and a
drop between statement and invalidation are actions of their own. Each
evaluator (`eval`) goes through lookup, load and install as `cached_policies`
does. A locked section of the RwLock is one step, because no other await happens
inside it. `Restart` loses cache and tasks.

A condition is abstracted to the set of contexts it matches, a source to its
sequence of policies (empty: it does not parse, or holds none), a rule's reason
or pattern to a value of `Details`. The order of the SELECT is kept: any order
of the enabled rows that respects priority and `updated_at` (ties are SQLite's
choice). `Decide` is the first-match loop of `evaluate`; `ReferenceDecisions` is
an independent definition over the set of rows.

Ghosts: `history` (every committed table), `floor` (the newest commit that a call
starting now must see: that of the newest write that has invalidated the cache, or
all of them after a restart), `dropped` (the newest commit since the process started whose call was dropped
before its invalidation), `raced` (some statement committed while a loaded list
waited to be installed, since the last restart).

Why a source is refused is left open. How conditions are parsed is the subject of
PolicyRules; `parse_mask_type` (`policy/mod.rs:441-471`), with its cast of a
negative `n` to `usize`, is not modelled.

### AuditWriter and AuditTrail

`AuditTrail` is what the log promises: an accepted entry waits, then becomes a
row or is lost; rows stay; nothing is recorded twice. `AuditWriter` is the code:
callers inside `write_audit` (send, or the direct insert once the channel is
closed), the channel of twice the batch size, the worker between `select!`,
`flush_batch` and its end, the drop of the Guard, the end of the process and its
next start. Each start reads a flush interval; at 0, `tokio::time::interval`
panics and the receiver is dropped with what was queued. The tokio channel
itself is external and modelled by how the code uses it. Entries are model
values with fresh ids; what they say is left out, so which unused one a call takes
is a CHOOSE.

One Guard at a time is assumed: `Start` waits until the last one is dropped and
its worker is gone. `Guard::new` (`guard.rs:32-61`) does not enforce this. Two
Guards over one database, or a new one beside a worker that is still draining,
have a channel and a worker each and are not modelled; `PersistedInOrder` would
not hold across them.

### Sessions

A client's call runs step by step (decode, SELECT, check; make, INSERT; UPDATE)
with the clock, other clients and aborts between the steps. `MsPerSec`,
`Leeway` and `WordSize` are parameters, so the casts (`as u64`, `as i64`,
`as usize`), the whole seconds of `exp` and the leeway of jsonwebtoken are in
the model; a ttl chrono cannot hold panics before anything is written. Callers
present an existing session or something unknown. A walker pages through
`list_active_sessions` from offset 0 along `next_offset`; `created` keeps the
order of insertion, in which rows with the same `created_at` are listed. A page
is the set of active sessions whose place in the list (`Place`, how many active
ones are listed before) lies between offset and offset + limit. The sessions are
those of one agent. A limit of 0 is allowed by the model and by the theorems, but
is not in the run: a walk with it never ends (`session.rs:210` hands back the same
offset). That a walk ends is not stated as a property. Limits and offsets of 2^63
and more, which the casts to `i64` would make negative, are left out. What the
handler of `validate_session` makes of an error (`grpc.rs:123`: `valid: false` for
every one, a database error included) is left out too; such an error ends the call
in `CallAborted`. `acked`, `late` and `dead` are ghosts: which revocations have been
acknowledged, and whether the session of a call had expired, or its revocation been
acknowledged, when the call began.

`SessionLife` is a session without rows and clocks: issued, revoked, acknowledged,
expired, never back. `SessionGate` adds what a check promises: it decides about the
revocation when it selects the row and about the expiry when it judges it, and it
refuses a token as invalid only if it is nobody's or its session has expired. The
mapping at the end of Sessions says what rows, clock and calls are to the gate: a
session is expired from `expires_at` on, whatever its JWT says; a check whose JWT
was refused is done without having selected; the INSERT of a born-expired session
issues and expires it at once. `ImplementsGate` is the refinement.

### ApiKeys

A key stands for its raw text, hash and id at once (random, collision-free,
UNIQUE). Calls run step by step as in Sessions. `validate_key` accepts the row it
has read and appends a detached task to `task`, which binds the time when it is
first polled and later runs its UPDATE: tasks of two validations overlap and
overtake each other, fail, or die with the process (`Restart`); an aborted call
does not take its task with it. `handed` are the keys some caller holds, `acked`
the ghost of returned revocations, `alone` remembers whether an earlier update
of the key was still under way.

### Guard and RiskScore

`Guard` composes the others by what their own modules show of them. Its sessions
live a `SessionLife` (the same actions, with every session issued), and a call
checks its session in the steps of `SessionGate`, which Sessions implements. An
evaluation decides
by one rulebook that was committed at some time, not always the newest
(`CommittedSnapshots` of PolicyEngine; the stale cache is the reason). The audit
log is an instance of `AuditTrail`, the specification AuditWriter implements. A
call starts either in the gRPC handler (`stage = "validate"`) or in
`check_access_with_task` (`"assert"`); the row's revoked bit is read in one step
and judged in another. Every `?` is an exit of its own: a refused token and a
failed evaluation leave no entry, a failed assertion is audited as a Deny of
risk 1.0 whatever its cause, a failed `write_audit` replaces the decision.
`CallDropped` and `DroppedAfterInsert` are a client that goes away. Of the errors
those a check normally meets are told apart; configuration, serialization and UUID
errors (a stored row that does not convert) are taken together with those of the
database, although `error.rs:55-59` sends them as `invalid_argument` or `internal`.

`RiskScore` is `compute_risk` in tenths (on the sums that can occur, f64 addition
and comparison agree with tenths). A request is what it looks at: writes, deletes, sensitive.
`Ruling`, what a rulebook says of session, request and risk, is a constant: how
a rulebook decides is the subject of PolicyEngine and PolicyRules.

### PolicyRules, FieldPatterns, Masking, AuditReader, Reports, Algorithms

The pure functions, as operators beside independent references.
`PolicyRules`: `parse_condition`, `fold_conditions` and `Condition::matches`
against what the TOML value says. `FieldPatterns`: `matches_pattern`, as the loop
over the parts with what each turn has consumed of the text, against a glob that
goes through the pattern character by character. `Masking`: `apply` against two
statements over documents with one open place: what a directive reaches cannot be
told apart behind it (`MaskHides`), what no directive reaches is unchanged
(`MaskKeeps`). `AuditReader`: `query` with the handler's whole seconds, and
`csv_escape` against a reader of CSV (for both, `\r` is a character like any other:
it is not among the run's, but the theorem holds for every alphabet; a reader that
takes a bare `\r` for the end of a line is not this one).
`Reports` calls `query`, `export_csv`, `compute_risk` and `matches_pattern` on one
input at a time, and `Algorithms` extends it by the functions that recurse over
documents and conditions, so that TLC goes through all inputs of an instance.
`Reports` reaches no recursive operator and can be proved about; `PolicyRules`,
`Masking` and `Algorithms` cannot.

## What is checked with TLC

| Run | Instance | Shows |
|---|---|---|
| `policy` | 2 names, 2 contexts, 4 sources (every kind of rule, ties, a disabled policy, two policies in one source), a directory with a bad file, 1 administrator, 2 evaluators, no new call after 3 commits | decisions meet the reference on a committed table; ids unique; whole, committed snapshots; fresh unless raced; a dropped call's stale cache ends with the next write |
| `policy_stale_cache` (violation) | 1 administrator, 1 evaluator | an evaluation that overlaps a write reinstalls the old list for good |
| `policy_returned_id` (violation) | the same | re-adding a name returns an id no row has |
| `audit_safety` | 7 entries, 2 callers, batch 2 (channel 4), 1 fault, 2 starts, interval 0 or 100 | every entry in one place, in order; clean shutdown; the loss bound; refinement of AuditTrail |
| `audit_liveness` | 5 entries, 2 callers, batch 2 (channel 4), 1 fault, 2 starts, interval 0 or 100 | entries settle, callers return, the worker ends |
| `audit_dropped` (violation) | batch size 0 (raised to 1), 1 fault | a failed flush drops accepted entries in a living process |
| `sessions_tokens` | 2 sessions, 2 clients, ttl -1 or 1, 2 ms per second, leeway 1, clock to 4 | revoked and expired sessions stay out; refusals are deserved; refinement of SessionGate |
| `sessions_pages` | 3 sessions, 1 client, 1 walker, pages of 1 or 2 | no misses without departures, no repeats without arrivals |
| `api_keys` | 2 keys, 2 clients, 2 accepted uses, clock to 1 | a revoked key stays out; `last_used_at` is a real use, the last one unless updates overlap; every use reaches the row |
| `guard` | 2 calls, 1 session, 2 requests, 2 rulebooks, an hour inside and one outside business hours | answers and audit trail agree; silence, entries and status have their reasons; dead sessions get no decision; calls return |
| `algorithms` | patterns to 4, texts to 5 characters; 6 places, 10 values, up to 2 of 10 masks; conditions three levels deep; logs of 3 rows around the ends of seconds; records of 2 fields; all requests and hours | the pure functions agree with their references |
| `masking_glob` (violation) | the same patterns and texts | a pattern that ends in a literal part misses texts in which that part occurs twice |

The bounds are named constants (`MaxWrites`, `MaxId`, `MaxClock`, `MaxFaults`,
`MaxStarts`, `MaxUses`, `MaxBooks`) and only stop new work from being started. They are enough for the
cases that matter: a cache race needs one write and one load; the healing of a
dropped call needs a write to fill the cache, one that is dropped and one after it;
five entries fill the channel and leave a caller waiting, and an odd one is a rest
that only the ticker or the last flush stores; seven are one more than the end of a
process may cost (a channel and a batch); a token needs a clock that passes both expiries (at 4 the JWT
of a session with ttl -1 has expired even if it was created at 2); a
walk needs a page before and a page after the change; updates of `last_used_at`
overtake each other with two uses of one key and two times; two calls of the
Guard are enough for a restart to find one answered and one under way, and one
more rulebook for a decision to be stale. Symmetry is used over
tasks and session ids in safety runs only; none of the specifications
tells them apart.

Deadlock checking is off in the audit runs, because the writer may really stop:
once every entry is issued and the last start has ended, nothing is left to do.

Fairness (`audit_liveness`): weak fairness of each step of the worker, because
tokio polls a ready task and `select!` picks its branches at random, so neither
the channel nor the ticker is starved, and a database call ends in success or
error; weak fairness of a caller's fallback; strong fairness of `Send`, because
tokio's channel hands free slots to waiting senders in the order of arrival.
Nothing is assumed of clients, of the Guard's owner or of crashes.
`api_keys`: weak fairness of each detached task, because tokio polls a spawned
task to its end, whatever becomes of the call that spawned it. `guard`: weak
fairness of each running call's steps: its awaits are database calls, which end
in success or error, and the wait for a place in the audit queue, which ends by
`CallersReturn` of the audit runs.

## What is proved with TLAPS

The theorems hold for any number of names, tasks, entries, sessions, keys and
calls, and for every value of the bounds. They rest on the ASSUMEs of the modules
only: `PolicyConstants`, `AuditConstants`, `SessionConstants`,
`NoSessionIsNoRow`, `KeyConstants`, `GuardConstants`, `SecondsHaveMs`,
`ReportInputs`. They fix types and keep the markers for "nothing" apart from real
values. `SessionConstants` also says that a word is wide enough for the clock and
the largest ttl, and that a ttl is a signed word; `ReportInputs` that a table is
finite, that times, bounds and limits are whole numbers, and that a record of the
export has fields, which are texts, as patterns and paths are. Each `_proofs`
module begins with the inductive invariant its theorems need.

* `PolicyEngine_proofs`. `RowIds` needs that the ids on their way to the table
  are fresh (`PendingIdsFresh`). `CacheIsFresh` needs `Coherent`: while nothing
  has raced, a list that waits to be installed is an answer for the *current*
  table, and the cache is at least as new as `floor`; every commit either finds
  no waiting list or sets `raced`. `SnapshotsAreCommitted` needs that `history`
  ends in the table. `DropsHeal` adds that the last commit is one every call must
  see, or its call still stands before its invalidation, or was dropped there
  (`LastCommit`); with the drop behind `floor` and nobody before an invalidation,
  the cache of `Coherent` can only be that of the last commit. `DecisionsMeetReference` rests on a lemma about the
  operators (`DecideMeetsReference`): a listing is a permutation of the enabled
  rows (an injection between finite sets of one size is onto), its first policy
  with a firing rule is outranked by no other firing policy, and every such
  policy is one of the reference's; the smallest index comes from the
  well-foundedness of finite sets, without induction over the list. The invariant
  (`DecidedHere`) ties the decision of an evaluation to the list it was made from.
* `AuditWriter_proofs`. `EntriesAreAccounted` needs that no entry is queued
  twice (`QueuesDistinct`) and that the entry of a running call is known to
  nobody else (`CallsFresh`); `ShutdownIsClean` needs what each state of the
  worker says about the buffers (`QueueShape`) and that only faults and ends
  lose entries (`NoLossYet`). `AuditImplementsTrail` maps each step of the
  writer to a step of AuditTrail or to a stutter, from the same invariant.
* `AuditQueues_proofs`. `LossesAreBounded` needs the sizes of the queues
  (`SizesCorrect`: the buffer is flushed by the step that fills it, so it is
  always below a batch) and bounds what each fault or end moves to `lost` by the
  cardinality of the ranges of those queues. `EntriesKeepTheirOrder` says that
  log, open transaction, buffer and channel, one after the other, hold entries in
  the order of acceptance. A receive, a flush, a commit leave this concatenation
  as it is or cut a piece out of it; a send appends the newest entry to both. The
  direct insert appends a row too, and is in order because it runs only after the
  worker is gone (`DirectIsLate`), when nothing is queued any more; the two are
  inductive together (`Ordered`).
* `Sessions_proofs`. `TokensCorrect` is the invariant `TokenInv`: the id of an
  INSERT is nobody's (`IdsFresh`), an acknowledged revocation is in the table
  (`RevocationsHold`), and the row in a call's hands agrees with the table
  except for a later revocation (`ChecksSound`). The arithmetic lemmas show that
  the two casts of the ttl cancel and that `exp` in whole seconds never expires
  before the row's milliseconds (`JwtOutlivesRow`). `RevocationIsFinal`,
  `ExpiryIsFinal` and `RefusalsAreDeserved` follow. `SessionsImplementGate` maps
  each step to a step of SessionGate or to a stutter: a tick of the clock is the
  expiry of all sessions whose time it is, the decoding of a dead JWT is a
  refusal because of `JwtOutlivesRow`, the UPDATE of a revocation is a revocation
  even when it runs twice. Besides `TokenInv` it needs that the row in a check's
  hands has the expiry of the table (`HandsOK`).
* `SessionPages_proofs`. Every row is inserted once (`ListInv`), so creation time
  and insertion order the rows totally and places are distinct; by counting, a
  page before which the list does not end is full (`PageFull`). No step changes
  the order of two rows (`OrderKept`). The invariant of a walk relates the set
  shown so far to the places at the time of the last page: unless a session left,
  what stood before the next page has been shown (`NothingMissed`), because
  arrivals only move places up; unless one joined, what has been shown stands
  before the next page (`NothingRepeated`), because departures only move places
  down. `NoSessionMissed`, `NoSessionRepeated` and, with `TokenInv`, the types of
  the whole module (`SessionTypes`) follow.
* `ApiKeys_proofs`. `KeyRevocationIsFinal` needs that no INSERT replaces a row
  (`KeysFresh`), that an acknowledged revocation is in the table
  (`RevocationsHold`), and that the row a call judges is revoked if the call may
  not show its key (`CallInv`). Every step then lets revocations only grow
  (`Grows`): the detached update writes `last_used_at` and nothing else.
  `LastUseWasAUse` and `LastUseWasTheLast` are inductive together with
  `AloneIsAlone`: when a task was spawned alone, every earlier task of its key has
  ended and stays ended, so only a later one can overwrite its time.
* `Guard_proofs`. The invariant says of each call what it knows of its session
  (`SessionKnown`: a session that was gone when the call began is revoked or
  expired in the row it judges), of its answer (`OutcomeKnown`: a decision that
  is to be audited is the ruling of a committed rulebook at the risk in hand, an
  error carries risk 1.0) and of its entry (`EntryKnown`). Sessions only end and
  rulebooks are only added (`WorldGrows`), so a step of anyone else keeps it
  (`Untouched`); the five safety properties follow from the three parts. The
  properties of the components enter through the actions around the calls, so
  the theorems are about the access check over any sessions, policies and log
  that keep what their own theorems say. For the sessions this is a theorem, too:
  `ChecksGoThroughGate` shows that every step of Guard is, for the sessions and
  the checks on them, a step of the `SessionGate` that Sessions implements, the
  handler's second check included. It is stated in the proof module, over the
  session of each call and whether its row was found revoked.
* `Reports_proofs`. `QueriesAreFaithful`: the bounds in seconds against rows in
  milliseconds (`BoundsInSeconds`, for every length of a second), the listing as
  a permutation of the selected rows (`ListsAll`), the LIMIT as a prefix of it
  (`CutLength`). `RiskIsMonotone`: each flag and the hour add points that the
  others do not take away, until the cap. `ExportsAreFaithful`: what `export_csv`
  writes is read back as the record it was made from. The induction it needs is
  over a set of numbers (`UpTo`, from the well-foundedness of finite sets), which
  also gives the existence of what a recursive function computes (`RunExists`);
  `FlattenSeq` lays its parts one after the other (`FlattenLays`), reading a text
  takes the reader from one state to another (`Takes`: a plain field, one between
  quotes with its quotes doubled, a field with its separator), and so, field by
  field, to the end of the line. `MatchesStayWithinGlob`: behind each part, what
  the loop of `matches_pattern` has consumed is something the glob may consume
  (`ConsumedInGlob`), and between two parts the loop is never further than any way
  in which the glob matches (`LoopNotFurther`, the argument for taking the
  leftmost occurrence), so it fails where the glob succeeds only behind the last
  part, of which it then has taken another occurrence than the last one. All four
  are theorems of `ReportSpec`, the part of `Algorithms` without recursive
  operators; the run checks the same properties.

Only model-checked: the liveness properties, `EntriesSettle`, `CallersReturn`,
`WorkerEnds`, `UsesAreRecorded` and `CallsReturn` (fairness is outside the
prover); `MasksHide`, `MasksKeep` and `ConditionsFaithful`, because functions and
references are recursive operators over trees.

## Findings

* `policy/mod.rs:288` installs a list without checking for an invalidation since
  it was read (`policy_stale_cache`).
* `policy/mod.rs:257` keeps the old id on a conflict while
  `add_policy_from_toml` returns the new one (`policy_returned_id`).
* `audit/mod.rs:223` takes the batch before the transaction and drops it on an
  error (`audit_dropped`).
* `masking/mod.rs:147` takes the leftmost occurrence of each part, so `*.id` does
  not match `$.id.id` (`masking_glob`).

Observed while modelling, without a run: `session.rs:210` announces a next page
after a full last one (the page is empty, the walk ends all the same);
`policy/mod.rs:238` lists enabled policies only; `end_ts` of an audit query names
the first millisecond of its second, so entries later in that second are left
out (`QueriesFaithful` says exactly which); two overlapping updates may leave the
older time in `last_used_at` (`LastUseIsTheLast` says when).

## Plan

Done: every component with logic of its own has a module; every safety property
of PolicyEngine, AuditWriter, Sessions, ApiKeys and Guard is proved, the writer
and the sessions are proved to implement what Guard assumes of them, and of the
pure functions those on flat data are proved: audit queries, the CSV export, risk
scores and patterns. Left: the functions that recurse over documents and
conditions, `apply` and `parse_condition`, which stay with TLC.

## Not modelled

The configuration (its values are constants here, zero included), data types and
the conversions of stored rows with their errors, the text of ids, times and
JSON, generated protobuf code, the server's main function,
`check_tool_permission` (a comparison of strings), and `src/engine.rs`, which is
not part of the crate. Of conditions, `resource_is` and `workspace_is` are left
out because they compare like `task_matches`; that `workspace_is` refuses a
malformed UUID is not in the model. A `ts` that chrono cannot represent is an
error of `query_audit_log` and not among the inputs. SQLite is modelled by what
the statements do: each is atomic, a transaction commits as a whole or not at all.
