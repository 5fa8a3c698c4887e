---------------------------- MODULE PolicyEngine ----------------------------
(***************************************************************************)
(* The policy engine of claw-guard (src/src/policy/mod.rs): the `policies` *)
(* table in SQLite, the read-through cache in front of it, the calls that  *)
(* write the table (add_policy_from_toml, load_from_dir, remove_policy)    *)
(* and the calls that read it (evaluate).                                  *)
(*                                                                         *)
(* Every call is a task of the tokio runtime.  A task can be interleaved   *)
(* with the others at each `.await` and can be dropped there (the gRPC     *)
(* client went away), so one action below is the code between two awaits   *)
(* that touch shared state.  The lock of the cache is never held across an *)
(* await of something else, so a locked section is one atomic step.        *)
(***************************************************************************)
EXTENDS Integers, SequencesExt

CONSTANTS
  Names,        \* values of the UNIQUE column policies.name
  Contexts,     \* the evaluation contexts the conditions tell apart
  Sources,      \* the TOML sources that may be submitted
  Dirs,         \* contents of the policy directory: its files in glob order
  Admins,       \* tasks that add, load or remove policies
  Evaluators,   \* tasks that evaluate
  Details,      \* the reasons of deny rules and the patterns of mask rules
  NoMatch,      \* the reason "no matching policy rule" of the default deny
  NoRow,        \* no row of that name
  MaxWrites,    \* bound: no new administrative call after this many commits
  MaxId,        \* bound: no new add or load once this many ids were issued
  MaxClock      \* bound of the clock

RuleKinds == {"allow_if", "deny_if", "mask_field"}

(* A rule.  `on` is the set of contexts its condition matches, `detail`    *)
(* the reason of a deny rule or the field pattern of a mask rule.          *)
PolicyRule == [kind : RuleKinds, on : SUBSET Contexts, detail : Details]

(* A policy as a TOML source states it, its name already resolved.         *)
PolicyFile ==
  [name : Names, rules : Seq(PolicyRule), priority : Int, enabled : BOOLEAN]

(* A policy as it is stored; `id` and `updated` (updated_at) come from the *)
(* parser.  created_at and description decide nothing and are left out.    *)
Policy ==
  [id : Nat, name : Names, rules : Seq(PolicyRule), priority : Int,
   enabled : BOOLEAN, updated : Nat]

(* A source that does not parse, or holds no policy, is the empty sequence:*)
(* both make the call fail before anything is written.                     *)
ASSUME PolicyConstants ==
  /\ IsFiniteSet(Names)
  /\ Contexts # {}
  /\ NoMatch \in Details
  /\ Sources \subseteq Seq(PolicyFile)
  /\ Dirs \subseteq Seq(Sources)
  /\ NoRow \notin Policy
  /\ MaxWrites \in Nat /\ MaxId \in Nat /\ MaxClock \in Nat

VARIABLES
  table,    \* the `policies` table, by name
  cache,    \* PolicyEngine.cache; empty means "not loaded"
  clock,    \* Utc::now(), as the parser reads it
  nextId,   \* the next fresh Uuid
  admin,    \* the state of each administrative task
  eval,     \* the state of each evaluating task
  history,  \* ghost: every committed content of the table, in order
  floor,    \* ghost: the newest commit that calls starting now must see
  dropped,  \* ghost: the newest commit of this process that was not
            \* followed by its invalidation
  raced     \* ghost: a commit fell between a load and its installation

store == <<table, cache, clock, nextId>>
ghosts == <<history, floor, dropped, raced>>
vars ==
  <<table, cache, clock, nextId, admin, eval, history, floor, dropped, raced>>

-----------------------------------------------------------------------------
(* What SELECT ... WHERE enabled = 1 ORDER BY priority DESC, updated_at    *)
(* DESC may return.  The order of rows that tie on both is SQLite's choice.*)

EnabledRows(t) == {t[n] : n \in {m \in Names : t[m] # NoRow /\ t[m].enabled}}

\* Mutant: ORDER BY priority, lowest first.
ListedBeforeAscending(p, q) == p.priority < q.priority \/ p.priority = q.priority

ListedBefore(p, q) ==
  \/ p.priority > q.priority
  \/ p.priority = q.priority /\ p.updated >= q.updated

Listings(t) ==
  {s \in SetToSeqs(EnabledRows(t)) :
     \A i, j \in DOMAIN s : i < j => ListedBefore(s[i], s[j])}

-----------------------------------------------------------------------------
(* The decision: rules are tried in order, policy after policy, and the    *)
(* first one that fires decides.  A mask rule has no condition.            *)

Fires(rule, ctx) == rule.kind = "mask_field" \/ ctx \in rule.on

Verdict == [allow_if |-> "Allow", deny_if |-> "Deny", mask_field |-> "Mask"]

Decision(rule) == [verdict |-> Verdict[rule.kind], detail |-> rule.detail]

DefaultDeny == [verdict |-> "Deny", detail |-> NoMatch]

FiringRules(p, ctx) == {j \in DOMAIN p.rules : Fires(p.rules[j], ctx)}

PolicyDecision(p, ctx) == Decision(p.rules[Min(FiringRules(p, ctx))])

Decide(policies, ctx) ==
  LET hits == {i \in DOMAIN policies : FiringRules(policies[i], ctx) # {}}
  IN IF hits = {} THEN DefaultDeny ELSE PolicyDecision(policies[Min(hits)], ctx)

-----------------------------------------------------------------------------
(* Task states.                                                            *)

AdminIdle ==
  [op |-> "none", pc |-> "idle", files |-> <<>>, todo |-> <<>>, id |-> 0, ver |-> 0]

EvalIdle ==
  [pc |-> "idle", ctx |-> CHOOSE c \in Contexts : TRUE, snap |-> <<>>, start |-> 0,
   out |-> DefaultDeny]

Init ==
  /\ table = [n \in Names |-> NoRow]
  /\ cache = <<>>
  /\ clock = 0
  /\ nextId = 1
  /\ admin = [a \in Admins |-> AdminIdle]
  /\ eval = [e \in Evaluators |-> EvalIdle]
  /\ history = <<table>>
  /\ floor = 1
  /\ dropped = 0
  /\ raced = FALSE

Tick ==
  /\ clock < MaxClock
  /\ clock' = clock + 1
  /\ UNCHANGED <<table, cache, nextId, admin, eval, ghosts>>

-----------------------------------------------------------------------------
(* Administrative calls.                                                   *)

(* add_policy_from_toml and load_from_dir both work through a list of      *)
(* sources: one source, or the files of the directory.                     *)
StartAdd(a, op, files) ==
  /\ admin[a].pc = "idle"
  /\ Len(history) <= MaxWrites
  /\ nextId <= MaxId
  /\ admin' = [admin EXCEPT ![a] =
       [AdminIdle EXCEPT !.op = op, !.pc = "parse", !.files = files]]
  /\ UNCHANGED <<store, eval, ghosts>>

AddPolicyFromToml(a) == \E source \in Sources : StartAdd(a, "add", <<source>>)

LoadFromDir(a) == \E dir \in Dirs : dir # <<>> /\ StartAdd(a, "dir", dir)

(* The policies of a source, each with a fresh id and the current time.    *)
(* The policies of one source may differ by a millisecond in the code; a   *)
(* tie, whose order is open, stands for both cases.                        *)
Parsed(source) ==
  [i \in DOMAIN source |->
     [id |-> nextId + i - 1, name |-> source[i].name, rules |-> source[i].rules,
      priority |-> source[i].priority, enabled |-> source[i].enabled,
      updated |-> clock]]

\* Mutant: the parser does not draw fresh ids.
IdsAfterNone(source) == nextId

IdsAfter(source) == nextId + Len(source)

ParsePolicySource(a) ==
  LET source == Head(admin[a].files) IN
  /\ admin[a].pc = "parse"
  /\ source # <<>>
  /\ nextId' = IdsAfter(source)
  /\ admin' = [admin EXCEPT ![a].pc = "upsert",
                            ![a].files = Tail(admin[a].files),
                            ![a].todo = Parsed(source)]
  /\ UNCHANGED <<table, cache, clock, eval, ghosts>>

(* A source that does not parse ends the call; the policies of earlier     *)
(* files stay.                                                             *)
ParseError(a) ==
  /\ admin[a].pc = "parse"
  /\ Head(admin[a].files) = <<>>
  /\ admin' = [admin EXCEPT ![a] = AdminIdle]
  /\ UNCHANGED <<store, eval, ghosts>>

Loading == \E e \in Evaluators : eval[e].pc = "install"

(* Every commit of the table: an autocommitted statement.                  *)
Commit(t) ==
  /\ table' = t
  /\ history' = Append(history, t)
  /\ raced' = (raced \/ Loading)
  /\ UNCHANGED <<cache, clock, nextId, floor, dropped>>

(* INSERT ... ON CONFLICT(name) DO UPDATE: an existing row keeps its id.   *)
Upserted(p) ==
  [table EXCEPT ![p.name] =
     IF table[p.name] = NoRow THEN p ELSE [p EXCEPT !.id = table[p.name].id]]

UpsertPolicy(a) ==
  LET p == Head(admin[a].todo) IN
  /\ admin[a].pc = "upsert"
  /\ Commit(Upserted(p))
  /\ admin' = [admin EXCEPT ![a].pc = "clear", ![a].todo = Tail(admin[a].todo),
                            ![a].id = p.id, ![a].ver = Len(history')]
  /\ UNCHANGED eval

StartRemove(a) ==
  /\ admin[a].pc = "idle"
  /\ Len(history) <= MaxWrites
  /\ \E id \in 1 .. nextId - 1 :
       admin' = [admin EXCEPT ![a] =
         [AdminIdle EXCEPT !.op = "remove", !.pc = "delete", !.id = id]]
  /\ UNCHANGED <<store, eval, ghosts>>

Without(id) ==
  [n \in Names |-> IF table[n] # NoRow /\ table[n].id = id THEN NoRow ELSE table[n]]

\* Mutant: remove_policy returns without invalidating the cache.
DeletePolicyNoInvalidate(a) ==
  /\ admin[a].pc = "delete"
  /\ table' = Without(admin[a].id)
  /\ history' = Append(history, table')
  /\ raced' = (raced \/ Loading)
  /\ floor' = Len(history')
  /\ admin' = [admin EXCEPT ![a] = AdminIdle]
  /\ UNCHANGED <<cache, clock, nextId, eval, dropped>>

\* Mutant: remove_policy returns at once when the DELETE found no row.
DeletePolicyIfFound(a) ==
  /\ admin[a].pc = "delete"
  /\ IF Without(admin[a].id) = table
     THEN /\ floor' = Len(history)
          /\ admin' = [admin EXCEPT ![a] = AdminIdle]
          /\ UNCHANGED <<store, history, dropped, raced>>
     ELSE /\ Commit(Without(admin[a].id))
          /\ admin' = [admin EXCEPT ![a].pc = "clear", ![a].ver = Len(history')]
  /\ UNCHANGED eval

DeletePolicy(a) ==
  /\ admin[a].pc = "delete"
  /\ Commit(Without(admin[a].id))
  /\ admin' = [admin EXCEPT ![a].pc = "clear", ![a].ver = Len(history')]
  /\ UNCHANGED eval

AfterInvalidation(s) ==
  CASE s.todo # <<>>  -> [s EXCEPT !.pc = "upsert"]
    [] s.todo = <<>> /\ s.files # <<>> -> [s EXCEPT !.pc = "parse"]
    [] OTHER -> [s EXCEPT !.pc = "idle"]

(* invalidate_cache, the last step of every write; the call then goes on   *)
(* with the next policy or file, or returns.                               *)
InvalidateCache(a) ==
  /\ admin[a].pc = "clear"
  /\ cache' = <<>>
  /\ floor' = IF admin[a].ver > floor THEN admin[a].ver ELSE floor
  /\ admin' = [admin EXCEPT ![a] = AfterInvalidation(admin[a])]
  /\ UNCHANGED <<table, clock, nextId, eval, history, dropped, raced>>

(* A database error, or a dropped task, before the statement has run.      *)
AdminAborted(a) ==
  /\ admin[a].pc \in {"upsert", "delete"}
  /\ admin' = [admin EXCEPT ![a] = AdminIdle]
  /\ UNCHANGED <<store, eval, ghosts>>

(* The task is dropped after its statement and before the invalidation:    *)
(* the row is written, the cache keeps what it holds, and the caller never *)
(* gets an answer.                                                         *)
AdminDropped(a) ==
  /\ admin[a].pc = "clear"
  /\ dropped' = IF admin[a].ver > dropped THEN admin[a].ver ELSE dropped
  /\ admin' = [admin EXCEPT ![a] = AdminIdle]
  /\ UNCHANGED <<store, eval, history, floor, raced>>

-----------------------------------------------------------------------------
(* Evaluation.                                                             *)

StartEvaluate(e) ==
  /\ eval[e].pc = "idle"
  /\ \E ctx \in Contexts :
       eval' = [eval EXCEPT ![e] =
         [EvalIdle EXCEPT !.pc = "lookup", !.ctx = ctx, !.start = floor]]
  /\ UNCHANGED <<store, admin, ghosts>>

Decided(e, policies) ==
  [eval[e] EXCEPT !.pc = "done", !.snap = policies,
                  !.out = Decide(policies, eval[e].ctx)]

(* cached_policies: a non-empty cache is used as it is.                    *)
CacheHit(e) ==
  /\ eval[e].pc = "lookup"
  /\ cache # <<>>
  /\ eval' = [eval EXCEPT ![e] = Decided(e, cache)]
  /\ UNCHANGED <<store, admin, ghosts>>

CacheMiss(e) ==
  /\ eval[e].pc = "lookup"
  /\ cache = <<>>
  /\ eval' = [eval EXCEPT ![e].pc = "load"]
  /\ UNCHANGED <<store, admin, ghosts>>

LoadPoliciesFromDb(e) ==
  /\ eval[e].pc = "load"
  /\ \E rows \in Listings(table) :
       eval' = [eval EXCEPT ![e].pc = "install", ![e].snap = rows]
  /\ UNCHANGED <<store, admin, ghosts>>

\* Mutant: the loaded policies are added to the cache instead of replacing it.
InstallCacheExtend(e) ==
  /\ eval[e].pc = "install"
  /\ cache' = cache \o eval[e].snap
  /\ eval' = [eval EXCEPT ![e] = Decided(e, eval[e].snap)]
  /\ UNCHANGED <<table, clock, nextId, admin, ghosts>>

InstallCache(e) ==
  /\ eval[e].pc = "install"
  /\ cache' = eval[e].snap
  /\ eval' = [eval EXCEPT ![e] = Decided(e, eval[e].snap)]
  /\ UNCHANGED <<table, clock, nextId, admin, ghosts>>

(* The caller takes the decision, or the call ends early: a database error *)
(* or a row that does not convert in load_policies_from_db, or a dropped   *)
(* task.                                                                   *)
EndEvaluate(e) ==
  /\ eval[e].pc # "idle"
  /\ eval' = [eval EXCEPT ![e] = EvalIdle]
  /\ UNCHANGED <<store, admin, ghosts>>

-----------------------------------------------------------------------------
(* The process dies and starts again: the table is on disk, the cache and  *)
(* the tasks are not, so that every commit is to be seen from now on.      *)
Restart ==
  /\ cache' = <<>>
  /\ admin' = [a \in Admins |-> AdminIdle]
  /\ eval' = [e \in Evaluators |-> EvalIdle]
  /\ floor' = Len(history)
  /\ dropped' = 0
  /\ raced' = FALSE
  /\ UNCHANGED <<table, clock, nextId, history>>

AdminStep(a) ==
  \/ AddPolicyFromToml(a)
  \/ LoadFromDir(a)
  \/ ParsePolicySource(a)
  \/ ParseError(a)
  \/ UpsertPolicy(a)
  \/ StartRemove(a)
  \/ DeletePolicy(a)
  \/ InvalidateCache(a)
  \/ AdminAborted(a)
  \/ AdminDropped(a)

EvalStep(e) ==
  \/ StartEvaluate(e)
  \/ CacheHit(e)
  \/ CacheMiss(e)
  \/ LoadPoliciesFromDb(e)
  \/ InstallCache(e)
  \/ EndEvaluate(e)

Next ==
  \/ \E a \in Admins : AdminStep(a)
  \/ \E e \in Evaluators : EvalStep(e)
  \/ Tick
  \/ Restart

Spec == Init /\ [][Next]_vars

-----------------------------------------------------------------------------
(* Properties.                                                             *)

AdminState ==
  [op : {"none", "add", "dir", "remove"},
   pc : {"idle", "parse", "upsert", "delete", "clear"},
   files : Seq(Sources), todo : Seq(Policy), id : Nat, ver : Nat]

EvalState ==
  [pc : {"idle", "lookup", "load", "install", "done"},
   ctx : Contexts, snap : Seq(Policy), start : Nat,
   out : [verdict : {"Allow", "Deny", "Mask"}, detail : Details]]

(* Types of the table, the cache and the tasks.                            *)
TypeOK ==
  /\ table \in [Names -> Policy \cup {NoRow}]
  /\ cache \in Seq(Policy)
  /\ clock \in Nat /\ nextId \in Nat
  /\ admin \in [Admins -> AdminState]
  /\ eval \in [Evaluators -> EvalState]
  /\ history \in Seq([Names -> Policy \cup {NoRow}])
  /\ floor \in Nat /\ dropped \in Nat
  /\ raced \in BOOLEAN

(* A row is stored under its own name with an id that was issued, and no   *)
(* two rows share an id, so no INSERT of upsert_policy fails on the        *)
(* PRIMARY KEY, which ON CONFLICT(name) would not resolve, and             *)
(* remove_policy deletes one row at most.                                  *)
RowIdsUnique ==
  /\ \A n \in Names : table[n] # NoRow => table[n].name = n /\ table[n].id < nextId
  /\ \A m, n \in Names :
       table[m] # NoRow /\ table[n] # NoRow /\ table[m].id = table[n].id => m = n

(* The list is an answer to the SELECT over one of the tables h[k], ...    *)
ListedSince(h, k, policies) ==
  \E v \in DOMAIN h : v >= k /\ policies \in Listings(h[v])

(* What evaluate may read, and what it leaves in the cache, is the whole   *)
(* answer of one SELECT over one committed table: never a mix of an old    *)
(* and a new one, whatever cached_policies overlaps with.                  *)
CommittedSnapshots ==
  /\ cache # <<>> => ListedSince(history, 1, cache)
  /\ \A e \in Evaluators :
       eval[e].pc \in {"install", "done"} => ListedSince(history, 1, eval[e].snap)

(* An evaluation that starts after a write has returned sees that write.   *)
Fresh == \A e \in Evaluators :
           eval[e].pc = "done" => ListedSince(history, eval[e].start, eval[e].snap)

(* The guarantee the cache really gives: evaluations are fresh as long as  *)
(* no statement has committed while a loaded list was waiting to be        *)
(* installed.                                                              *)
FreshUnlessRaced == ~raced => Fresh

(* A call whose task is dropped between its statement and invalidate_cache *)
(* leaves the row written and the old list in the cache.  The harm ends    *)
(* with the next write that returns, a remove_policy that finds no row     *)
(* included, or with the process: when no other write stands between its   *)
(* statement and its invalidation, what is cached is then the table.       *)
DropsHealAtNextWrite ==
  /\ ~raced /\ cache # <<>> /\ dropped <= floor
  /\ \A a \in Admins : admin[a].pc # "clear"
  => cache \in Listings(table)

(* The guarantee a read-through cache with invalidation is meant to give:  *)
(* as above, with no proviso.  cached_policies does not meet it.           *)
EvaluationsAreFresh == Fresh

(* The reference definition of a decision, over the set of rows of a       *)
(* table: among the enabled policies with a firing rule take one that no   *)
(* other outranks, and its first firing rule.  "Higher values are          *)
(* evaluated first" and "Ordered rules" in the comments of Policy.         *)
Outranks(p, q) ==
  p.priority > q.priority \/ (p.priority = q.priority /\ p.updated > q.updated)

ReferenceDecisions(t, ctx) ==
  LET firing == {p \in EnabledRows(t) : \E i \in DOMAIN p.rules : Fires(p.rules[i], ctx)}
      top == {p \in firing : \A q \in firing : ~Outranks(q, p)}
      First(p) == CHOOSE i \in DOMAIN p.rules :
                    /\ Fires(p.rules[i], ctx)
                    /\ \A j \in 1 .. i - 1 : ~Fires(p.rules[j], ctx)
  IN IF firing = {} THEN {DefaultDeny} ELSE {Decision(p.rules[First(p)]) : p \in top}

(* On whatever path (cache hit, load) the policies reached it, evaluate    *)
(* answers what the reference answers on the very table they come from;    *)
(* and that table is at least as new as every write that had returned when *)
(* the call began, unless a statement raced a load.                        *)
DecisionMeetsReference ==
  \A e \in Evaluators :
    eval[e].pc = "done" =>
      \E v \in DOMAIN history :
        /\ Range(eval[e].snap) = EnabledRows(history[v])
        /\ ~raced => v >= eval[e].start
        /\ eval[e].out \in ReferenceDecisions(history[v], eval[e].ctx)

(* The Policy that add_policy_from_toml returns is a persisted one: its id *)
(* is the id of a row ("Persisted policy definition", "Policy              *)
(* identifier"), so remove_policy(id) would remove it.  Meant for a single *)
(* administrator, whose last call it was.  An upsert over an existing name *)
(* keeps the id of the row, and the returned one is stored nowhere.        *)
ReturnedIdIsStored ==
  \A a \in Admins :
    admin[a].pc = "idle" /\ admin[a].op = "add" =>
      \E n \in Names : table[n] # NoRow /\ table[n].id = admin[a].id

=============================================================================
