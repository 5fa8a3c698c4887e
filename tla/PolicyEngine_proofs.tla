------------------------ MODULE PolicyEngine_proofs ------------------------
(***************************************************************************)
(* Proofs about PolicyEngine, for every set of names, sources, tasks and   *)
(* every bound: types and ids, whole snapshots, freshness of the cache     *)
(* while no commit falls between a load and its installation, and that     *)
(* every answer is one the reference definition allows.                    *)
(***************************************************************************)
EXTENDS PolicyEngine, FiniteSetTheorems, WellFoundedInduction, TLAPS

-----------------------------------------------------------------------------
(* The inductive invariant behind the theorems.                            *)

(* A task that is to parse has a file, one that is to write has a policy.  *)
WorkLeft ==
  \A a \in Admins :
    /\ admin[a].pc = "parse" => admin[a].files # <<>>
    /\ admin[a].pc = "upsert" => admin[a].todo # <<>>

(* The ids of policies on their way to the table are issued, and are used  *)
(* neither by a row nor by another policy on its way.                      *)
PendingIdsFresh ==
  /\ \A a \in Admins : \A i \in DOMAIN admin[a].todo :
       /\ admin[a].todo[i].id < nextId
       /\ \A n \in Names : table[n] # NoRow => table[n].id # admin[a].todo[i].id
  /\ \A a, b \in Admins : \A i \in DOMAIN admin[a].todo, j \in DOMAIN admin[b].todo :
       admin[a].todo[i].id = admin[b].todo[j].id => a = b /\ i = j

(* The ghosts bound what they are meant to bound.                          *)
GhostsOK ==
  /\ floor \in DOMAIN history
  /\ history[Len(history)] = table
  /\ \A a \in Admins : admin[a].pc = "clear" => admin[a].ver \in DOMAIN history
  /\ \A e \in Evaluators : eval[e].start <= floor

(* With no commit between a load and its installation, what waits to be    *)
(* installed is current, and what is cached is as new as every write that  *)
(* has returned.                                                           *)
Coherent ==
  ~raced =>
    /\ cache # <<>> => ListedSince(history, floor, cache)
    /\ \A e \in Evaluators : eval[e].pc = "install" => eval[e].snap \in Listings(table)
    /\ Fresh

Inv ==
  /\ TypeOK /\ RowIdsUnique /\ WorkLeft /\ PendingIdsFresh
  /\ GhostsOK /\ CommittedSnapshots /\ Coherent

Rows == [Names -> Policy \cup {NoRow}]

Outcome == [verdict : {"Allow", "Deny", "Mask"}, detail : Details]

-----------------------------------------------------------------------------
(* Operators.                                                              *)

(* A non-empty set of naturals has a least element.                        *)
LEMMA LeastExists ==
  ASSUME NEW S \in SUBSET Nat, S # {}
  PROVE  \E x \in S : \A y \in S : x <= y
<1> DEFINE Below == {0 .. n - 1 : n \in S}
           R == StrictSubsetOrdering(Nat)
<1>1. \A n \in S : 0 .. n - 1 \in FiniteSubsetsOf(Nat)
  BY FS_Interval DEF FiniteSubsetsOf
<1>2. Below \subseteq FiniteSubsetsOf(Nat) /\ Below # {}
  BY <1>1
<1>3. IsWellFoundedOn(R, FiniteSubsetsOf(Nat))
  BY FS_StrictSubsetOrderingWellFounded
<1>4. PICK B \in Below : \A C \in Below : ~(<<C, B>> \in R)
  BY <1>2, <1>3, WFMin
<1>5. PICK x \in S : B = 0 .. x - 1
  OBVIOUS
<1>6. ASSUME NEW y \in S, y < x PROVE FALSE
  <2> DEFINE C == 0 .. y - 1
  <2>1. C \subseteq B /\ y \in B /\ y \notin C
    BY <1>5, <1>6
  <2>2. C \in SUBSET Nat /\ B \in SUBSET Nat
    BY <1>5
  <2>3. <<C, B>> \in R
    BY <2>1, <2>2 DEF StrictSubsetOrdering
  <2> QED
    BY <1>4, <2>3
<1>7. \A y \in S : x <= y
  BY <1>6
<1> QED
  BY <1>7

(* Min picks an element of every non-empty set of naturals.                *)
LEMMA MinIsElement ==
  ASSUME NEW S \in SUBSET Nat, S # {}
  PROVE  Min(S) \in S
<1>1. PICK x \in S : \A y \in S : x <= y
  BY LeastExists
<1> QED
  BY <1>1 DEF Min

(* The enabled rows of a table are finitely many policies.                 *)
LEMMA EnabledRowsFinite ==
  ASSUME NEW t \in Rows
  PROVE  EnabledRows(t) \subseteq Policy /\ IsFiniteSet(EnabledRows(t))
<1> DEFINE M == {m \in Names : t[m] # NoRow /\ t[m].enabled}
<1>1. IsFiniteSet(M)
  BY PolicyConstants, FS_Subset
<1>2. IsFiniteSet({t[n] : n \in M})
  <2> DEFINE F == [n \in M |-> t[n]]
  <2>1. {t[n] : n \in M} = {F[n] : n \in M}
    OBVIOUS
  <2>2. F \in Surjection(M, {t[n] : n \in M})
    BY DEF Surjection
  <2> QED
    BY <1>1, <2>2, FS_Surjection
<1> QED
  BY <1>2 DEF EnabledRows, Rows

(* load_policies_from_db returns a sequence of policies.                   *)
LEMMA ListingsType ==
  ASSUME NEW t \in Rows
  PROVE  Listings(t) \subseteq Seq(Policy)
<1>1. Cardinality(EnabledRows(t)) \in Nat
  BY EnabledRowsFinite, FS_CardinalityType
<1>2. SetToSeqs(EnabledRows(t)) \subseteq Seq(Policy)
  <2> SUFFICES ASSUME NEW s \in SetToSeqs(EnabledRows(t)) PROVE s \in Seq(Policy)
    OBVIOUS
  <2>1. s \in [1 .. Cardinality(EnabledRows(t)) -> EnabledRows(t)]
    BY DEF SetToSeqs
  <2> QED
    BY <1>1, <2>1, EnabledRowsFinite
<1> QED
  BY <1>2 DEF Listings

(* evaluate always answers Allow, Deny or Mask.                            *)
LEMMA DecideType ==
  ASSUME NEW policies \in Seq(Policy), NEW ctx \in Contexts
  PROVE  Decide(policies, ctx) \in Outcome
<1> DEFINE hits == {i \in DOMAIN policies : FiringRules(policies[i], ctx) # {}}
           first == policies[Min(hits)]
<1>1. Decide(policies, ctx) =
        IF hits = {} THEN DefaultDeny ELSE PolicyDecision(first, ctx)
  BY DEF Decide
<1>2. DefaultDeny \in Outcome
  BY PolicyConstants DEF DefaultDeny, Outcome
<1>3. ASSUME hits # {} PROVE PolicyDecision(first, ctx) \in Outcome
  <2>1. hits \in SUBSET Nat
    OBVIOUS
  <2>2. Min(hits) \in hits
    BY <1>3, <2>1, MinIsElement
  <2>3. Min(hits) \in DOMAIN policies
    BY <2>2, Zenon
  <2>4. FiringRules(first, ctx) # {}
    BY <2>2, Zenon
  <2>5. first \in Policy
    BY <2>3
  <2> HIDE DEF first, hits
  <2>6. first.rules \in Seq(PolicyRule)
    BY <2>5 DEF Policy
  <2> DEFINE fires == FiringRules(first, ctx)
  <2>7. fires \subseteq DOMAIN first.rules
    BY DEF FiringRules
  <2>8. fires \in SUBSET Nat
    BY <2>6, <2>7
  <2>9. Min(fires) \in fires
    BY <2>4, <2>8, MinIsElement
  <2>10. first.rules[Min(fires)] \in PolicyRule
    BY <2>6, <2>7, <2>9
  <2> QED
    BY <2>10 DEF PolicyDecision, Decision, Outcome, Verdict, PolicyRule, RuleKinds
<1> QED
  BY <1>1, <1>2, <1>3


-----------------------------------------------------------------------------
(* Types.                                                                  *)

Typing == TypeOK /\ WorkLeft

(* The idle states are states.                                             *)
LEMMA IdleTypes == AdminIdle \in AdminState /\ EvalIdle \in EvalState
<1>1. AdminIdle \in AdminState
  BY DEF AdminIdle, AdminState
<1>2. DefaultDeny \in Outcome
  BY PolicyConstants DEF DefaultDeny, Outcome
<1>3. (CHOOSE c \in Contexts : TRUE) \in Contexts
  BY PolicyConstants
<1> QED
  BY <1>1, <1>2, <1>3 DEF EvalIdle, EvalState, Outcome

(* An idle task has nothing to parse and nothing to write.                 *)
LEMMA IdleWork ==
  AdminIdle.pc = "idle" /\ AdminIdle.todo = <<>> /\ AdminIdle.files = <<>>
BY DEF AdminIdle

(* parse_policy_source yields policies.                                    *)
LEMMA ParsedType ==
  ASSUME NEW source \in Sources, nextId \in Nat, clock \in Nat
  PROVE  Parsed(source) \in Seq(Policy) /\ IdsAfter(source) \in Nat
<1>1. source \in Seq(PolicyFile)
  BY PolicyConstants
<1>2. \A i \in DOMAIN source : Parsed(source)[i] \in Policy
  <2> SUFFICES ASSUME NEW i \in DOMAIN source PROVE Parsed(source)[i] \in Policy
    OBVIOUS
  <2>1. source[i] \in PolicyFile /\ i \in Nat /\ i >= 1
    BY <1>1
  <2>2. nextId + i - 1 \in Nat
    BY <2>1
  <2> QED
    BY <2>1, <2>2 DEF Parsed, Policy, PolicyFile
<1>3. Parsed(source) \in [1 .. Len(source) -> Policy]
  BY <1>1, <1>2 DEF Parsed
<1> QED
  BY <1>1, <1>3 DEF IdsAfter

(* An administrative step keeps the types.                                 *)
LEMMA AdminStepTyping ==
  ASSUME Typing, NEW a \in Admins, AdminStep(a)
  PROVE  Typing'
<1> USE DEF Typing, TypeOK, WorkLeft
<1>1. CASE AddPolicyFromToml(a)
  <2>1. PICK source \in Sources : StartAdd(a, "add", <<source>>)
    BY <1>1 DEF AddPolicyFromToml
  <2>2. <<source>> \in Seq(Sources) /\ <<source>> # <<>>
    OBVIOUS
  <2> QED
    BY <2>1, <2>2, IdleTypes DEF StartAdd, AdminIdle, AdminState, store, ghosts
<1>2. CASE LoadFromDir(a)
  <2>1. PICK dir \in Dirs : dir # <<>> /\ StartAdd(a, "dir", dir)
    BY <1>2 DEF LoadFromDir
  <2>2. dir \in Seq(Sources)
    BY PolicyConstants
  <2> QED
    BY <2>1, <2>2, IdleTypes DEF StartAdd, AdminIdle, AdminState, store, ghosts
<1>3. CASE ParsePolicySource(a)
  <2> DEFINE source == Head(admin[a].files)
  <2>1. admin[a].files \in Seq(Sources) /\ admin[a].files # <<>>
    BY <1>3 DEF ParsePolicySource, AdminState
  <2>2. source \in Sources /\ Tail(admin[a].files) \in Seq(Sources)
    BY <2>1
  <2>3. Parsed(source) \in Seq(Policy) /\ IdsAfter(source) \in Nat
    BY <2>2, ParsedType
  <2>4. source # <<>> => Parsed(source) # <<>>
    <3>1. source \in Seq(PolicyFile)
      BY <2>2, PolicyConstants
    <3>2. ASSUME source # <<>> PROVE 1 \in DOMAIN source
      BY <3>1, <3>2
    <3>3. DOMAIN Parsed(source) = DOMAIN source
      BY DEF Parsed
    <3> QED
      BY <3>2, <3>3
  <2>5. admin' \in [Admins -> AdminState] /\ WorkLeft'
    <3> DEFINE s == [admin[a] EXCEPT !.pc = "upsert", !.files = Tail(admin[a].files),
                                     !.todo = Parsed(source)]
    <3>1. admin' = [admin EXCEPT ![a] = s] /\ source # <<>>
      BY <1>3 DEF ParsePolicySource
    <3>2. s \in AdminState /\ s.pc = "upsert" /\ s.todo = Parsed(source)
      BY <2>2, <2>3 DEF AdminState
    <3> HIDE DEF s
    <3>3. WorkLeft'
      BY <2>4, <3>1, <3>2
    <3> QED
      BY <3>1, <3>2, <3>3
  <2> QED
    BY <1>3, <2>3, <2>5 DEF ParsePolicySource, ghosts
<1>4. CASE ParseError(a)
  BY <1>4, IdleTypes DEF ParseError, AdminIdle, store, ghosts
<1>5. CASE UpsertPolicy(a)
  <2> DEFINE p == Head(admin[a].todo)
  <2>1. admin[a].todo \in Seq(Policy) /\ admin[a].todo # <<>>
    BY <1>5 DEF UpsertPolicy, AdminState
  <2>2. p \in Policy /\ Tail(admin[a].todo) \in Seq(Policy)
    BY <2>1
  <2>3. Upserted(p) \in Rows
    BY <2>2 DEF Upserted, Rows, Policy
  <2>4. history' \in Seq(Rows) /\ table' \in Rows /\ raced' \in BOOLEAN
    BY <1>5, <2>3 DEF UpsertPolicy, Commit, Rows
  <2>5. Len(history') \in Nat /\ p.id \in Nat
    BY <2>2, <2>4 DEF Policy
  <2>6. admin' \in [Admins -> AdminState]
    <3> DEFINE s == [admin[a] EXCEPT !.pc = "clear", !.todo = Tail(admin[a].todo),
                                     !.id = p.id, !.ver = Len(history')]
    <3>1. admin' = [admin EXCEPT ![a] = s]
      BY <1>5 DEF UpsertPolicy
    <3>2. s \in AdminState
      BY <2>2, <2>5 DEF AdminState
    <3> HIDE DEF s
    <3> QED
      BY <3>1, <3>2
  <2>7. WorkLeft'
    BY <1>5 DEF UpsertPolicy
  <2> QED
    BY <1>5, <2>4, <2>6, <2>7 DEF UpsertPolicy, Commit, Rows
<1>6. CASE StartRemove(a)
  <2>1. PICK id \in 1 .. nextId - 1 :
          admin' = [admin EXCEPT ![a] =
            [AdminIdle EXCEPT !.op = "remove", !.pc = "delete", !.id = id]]
    BY <1>6 DEF StartRemove
  <2>2. id \in Nat
    OBVIOUS
  <2>3. admin' \in [Admins -> AdminState] /\ WorkLeft'
    BY <2>1, <2>2, IdleTypes DEF AdminState
  <2> QED
    BY <1>6, <2>3 DEF StartRemove, store, ghosts
<1>7. CASE DeletePolicy(a)
  <2>1. Without(admin[a].id) \in Rows
    BY DEF Without, Rows
  <2>2. history' \in Seq(Rows) /\ table' \in Rows /\ raced' \in BOOLEAN
    BY <1>7, <2>1 DEF DeletePolicy, Commit, Rows
  <2>3. Len(history') \in Nat
    BY <2>2
  <2>4. admin' \in [Admins -> AdminState]
    <3> DEFINE s == [admin[a] EXCEPT !.pc = "clear", !.ver = Len(history')]
    <3>1. admin' = [admin EXCEPT ![a] = s]
      BY <1>7 DEF DeletePolicy
    <3>2. s \in AdminState
      BY <2>3 DEF AdminState
    <3> HIDE DEF s
    <3> QED
      BY <3>1, <3>2
  <2> QED
    BY <1>7, <2>2, <2>4 DEF DeletePolicy, Commit, Rows
<1>8. CASE InvalidateCache(a)
  <2>1. AfterInvalidation(admin[a]) \in AdminState
    BY DEF AfterInvalidation, AdminState
  <2>2. AfterInvalidation(admin[a]).pc = "parse" => AfterInvalidation(admin[a]).files # <<>>
    BY DEF AfterInvalidation, AdminState
  <2>3. AfterInvalidation(admin[a]).pc = "upsert" => AfterInvalidation(admin[a]).todo # <<>>
    BY DEF AfterInvalidation, AdminState
  <2>4. floor' \in Nat
    BY <1>8 DEF InvalidateCache, AdminState
  <2>5. admin' \in [Admins -> AdminState] /\ WorkLeft'
    BY <1>8, <2>1, <2>2, <2>3 DEF InvalidateCache
  <2> QED
    BY <1>8, <2>4, <2>5 DEF InvalidateCache
<1>9. CASE AdminAborted(a)
  BY <1>9, IdleTypes DEF AdminAborted, AdminIdle, store, ghosts
<1>10. CASE AdminDropped(a)
  <2>1. dropped' \in Nat
    BY <1>10 DEF AdminDropped, AdminState
  <2>2. admin' \in [Admins -> AdminState] /\ WorkLeft'
    BY <1>10, IdleTypes, IdleWork DEF AdminDropped
  <2> QED
    BY <1>10, <2>1, <2>2 DEF AdminDropped, store
<1> QED
  BY <1>1, <1>2, <1>3, <1>4, <1>5, <1>6, <1>7, <1>8, <1>9, <1>10 DEF AdminStep

(* A step of an evaluation keeps the types.                                *)
LEMMA EvalStepTyping ==
  ASSUME Typing, NEW e \in Evaluators, EvalStep(e)
  PROVE  Typing'
<1> USE DEF Typing, TypeOK, WorkLeft
<1>0. eval[e] \in EvalState
  OBVIOUS
<1>1. CASE StartEvaluate(e)
  <2>1. PICK ctx \in Contexts :
          eval' = [eval EXCEPT ![e] =
            [EvalIdle EXCEPT !.pc = "lookup", !.ctx = ctx, !.start = floor]]
    BY <1>1 DEF StartEvaluate
  <2>2. [EvalIdle EXCEPT !.pc = "lookup", !.ctx = ctx, !.start = floor] \in EvalState
    BY IdleTypes DEF EvalState
  <2> QED
    BY <1>1, <2>1, <2>2 DEF StartEvaluate, store, ghosts
<1>2. ASSUME NEW policies \in Seq(Policy) PROVE Decided(e, policies) \in EvalState
  <2>1. Decide(policies, eval[e].ctx) \in Outcome
    BY <1>0, DecideType DEF EvalState
  <2> QED
    BY <1>0, <2>1 DEF Decided, EvalState, Outcome
<1>3. CASE CacheHit(e)
  BY <1>2, <1>3 DEF CacheHit, store, ghosts
<1>4. CASE CacheMiss(e)
  BY <1>0, <1>4 DEF CacheMiss, EvalState, store, ghosts
<1>5. CASE LoadPoliciesFromDb(e)
  <2>1. PICK rows \in Listings(table) :
          eval' = [eval EXCEPT ![e].pc = "install", ![e].snap = rows]
    BY <1>5 DEF LoadPoliciesFromDb
  <2>2. rows \in Seq(Policy)
    BY <2>1, ListingsType DEF Rows
  <2>3. eval' \in [Evaluators -> EvalState]
    BY <1>0, <2>1, <2>2 DEF EvalState
  <2> QED
    BY <1>5, <2>3 DEF LoadPoliciesFromDb, store, ghosts
<1>6. CASE InstallCache(e)
  <2>1. eval[e].snap \in Seq(Policy)
    BY <1>0 DEF EvalState
  <2> QED
    BY <1>2, <1>6, <2>1 DEF InstallCache, ghosts
<1>7. CASE EndEvaluate(e)
  BY <1>7, IdleTypes DEF EndEvaluate, store, ghosts
<1> QED
  BY <1>1, <1>3, <1>4, <1>5, <1>6, <1>7 DEF EvalStep

(* The types hold in every reachable state, for every value of the         *)
(* constants; WorkLeft is what makes them inductive, for Head and Tail of  *)
(* an empty list have no type.                                             *)
THEOREM TypingCorrect == Spec => []Typing
<1>1. Init => Typing
  <2> SUFFICES ASSUME Init PROVE Typing
    OBVIOUS
  <2>1. table \in Rows /\ history \in Seq(Rows)
    BY DEF Init, Rows
  <2>2. admin \in [Admins -> AdminState] /\ eval \in [Evaluators -> EvalState] /\ WorkLeft
    BY IdleTypes, IdleWork DEF Init, WorkLeft
  <2>3. raced \in BOOLEAN
    BY Zenon DEF Init
  <2>4. cache \in Seq(Policy) /\ clock \in Nat /\ nextId \in Nat /\ floor \in Nat /\ dropped \in Nat
    BY DEF Init
  <2> QED
    BY <2>1, <2>2, <2>3, <2>4 DEF Typing, TypeOK, Rows
<1>2. Typing /\ [Next]_vars => Typing'
  <2> SUFFICES ASSUME Typing, [Next]_vars PROVE Typing'
    OBVIOUS
  <2>1. CASE \E a \in Admins : AdminStep(a)
    BY <2>1, AdminStepTyping
  <2>2. CASE \E e \in Evaluators : EvalStep(e)
    BY <2>2, EvalStepTyping
  <2>3. CASE Tick
    BY <2>3 DEF Tick, Typing, TypeOK, WorkLeft, ghosts
  <2>4. CASE Restart
    <3>1. admin' \in [Admins -> AdminState] /\ eval' \in [Evaluators -> EvalState] /\ WorkLeft'
      BY <2>4, IdleTypes, IdleWork DEF Restart, WorkLeft
    <3>2. raced' \in BOOLEAN
      BY <2>4, Zenon DEF Restart
    <3> QED
      BY <2>4, <3>1, <3>2 DEF Restart, Typing, TypeOK
  <2>5. CASE UNCHANGED vars
    BY <2>5 DEF vars, Typing, TypeOK, WorkLeft
  <2> QED
    BY <2>1, <2>2, <2>3, <2>4, <2>5 DEF Next
<1> QED
  BY <1>1, <1>2, PTL DEF Spec

(* Table, cache and tasks keep their types.                                *)
THEOREM PolicyTypes == Spec => []TypeOK
<1>1. Typing => TypeOK
  BY DEF Typing
<1> QED
  BY <1>1, TypingCorrect, PTL

-----------------------------------------------------------------------------
(* The cache.                                                              *)

CacheInv == GhostsOK /\ CommittedSnapshots /\ Coherent

(* A list from some commit is still one when more commits follow.          *)
LEMMA ListedSinceGrows ==
  ASSUME NEW h \in Seq(Rows), NEW t \in Rows, NEW k \in Nat, NEW p,
         ListedSince(h, k, p)
  PROVE  ListedSince(Append(h, t), k, p)
<1>1. PICK v \in DOMAIN h : v >= k /\ p \in Listings(h[v])
  BY DEF ListedSince
<1>2. v \in DOMAIN Append(h, t) /\ Append(h, t)[v] = h[v]
  OBVIOUS
<1> QED
  BY <1>1, <1>2 DEF ListedSince

(* A list as new as the j-th commit is as new as every earlier one.        *)
LEMMA ListedSinceEarlier ==
  ASSUME NEW h \in Seq(Rows), NEW j \in Nat, NEW k \in Nat, k <= j, NEW p,
         ListedSince(h, j, p)
  PROVE  ListedSince(h, k, p)
BY DEF ListedSince

(* A list of the last table is as new as any commit.                       *)
LEMMA ListedNow ==
  ASSUME NEW h \in Seq(Rows), h # <<>>, NEW k \in Nat, k <= Len(h), NEW p,
         p \in Listings(h[Len(h)])
  PROVE  ListedSince(h, k, p)
BY DEF ListedSince

(* A step that touches neither the cache nor the evaluations nor the table *)
(* and brings no task before its invalidation keeps the invariant.         *)
LEMMA FrameCache ==
  ASSUME CacheInv,
         UNCHANGED <<table, cache, eval, history, floor, raced>>,
         \A a \in Admins : admin'[a].pc = "clear" => admin'[a] = admin[a]
  PROVE  CacheInv'
<1>1. GhostsOK'
  BY DEF CacheInv, GhostsOK
<1>2. CommittedSnapshots'
  BY DEF CacheInv, CommittedSnapshots
<1>3. Coherent'
  BY DEF CacheInv, Coherent, Fresh
<1> QED
  BY <1>1, <1>2, <1>3 DEF CacheInv

(* A commit keeps the invariant: if a loaded list waits for installation,  *)
(* raced is set and only CommittedSnapshots has to hold for it.            *)
LEMMA CommitCache ==
  ASSUME Typing, CacheInv, NEW t \in Rows, Commit(t), UNCHANGED eval,
         NEW a \in Admins,
         \A b \in Admins \ {a} : admin'[b] = admin[b],
         admin'[a].ver = Len(history')
  PROVE  CacheInv'
<1>1. history \in Seq(Rows) /\ floor \in Nat /\ floor \in DOMAIN history
  BY DEF Typing, TypeOK, Rows, CacheInv, GhostsOK
<1>2. /\ history' = Append(history, t) /\ table' = t
      /\ UNCHANGED <<cache, floor, eval>>
      /\ raced' = (raced \/ Loading)
  BY DEF Commit
<1>3. GhostsOK'
  <2>1. floor' \in DOMAIN history'
    BY <1>1, <1>2
  <2>2. history'[Len(history')] = table' /\ Len(history') \in DOMAIN history'
    BY <1>1, <1>2
  <2>3. \A b \in Admins : admin'[b].pc = "clear" => admin'[b].ver \in DOMAIN history'
    BY <1>1, <1>2, <2>2 DEF CacheInv, GhostsOK
  <2>4. \A e \in Evaluators : eval'[e].start <= floor'
    BY <1>2 DEF CacheInv, GhostsOK
  <2> QED
    BY <2>1, <2>2, <2>3, <2>4 DEF GhostsOK
<1>4. CommittedSnapshots'
  <2>1. cache # <<>> => ListedSince(history', 1, cache)
    BY <1>1, <1>2, ListedSinceGrows DEF CacheInv, CommittedSnapshots
  <2>2. \A e \in Evaluators :
          eval[e].pc \in {"install", "done"} => ListedSince(history', 1, eval[e].snap)
    BY <1>1, <1>2, ListedSinceGrows DEF CacheInv, CommittedSnapshots
  <2> QED
    BY <1>2, <2>1, <2>2 DEF CommittedSnapshots
<1>5. Coherent'
  <2> SUFFICES ASSUME ~raced'
               PROVE  /\ cache # <<>> => ListedSince(history', floor, cache)
                      /\ \A e \in Evaluators :
                           /\ eval[e].pc # "install"
                           /\ eval[e].pc = "done" =>
                                ListedSince(history', eval[e].start, eval[e].snap)
    BY <1>2 DEF Coherent, Fresh
  <2>1. ~raced /\ ~Loading
    BY <1>2
  <2>2. cache # <<>> => ListedSince(history, floor, cache)
    BY <2>1 DEF CacheInv, Coherent
  <2>3. \A e \in Evaluators :
          eval[e].pc = "done" => ListedSince(history, eval[e].start, eval[e].snap)
    BY <2>1 DEF CacheInv, Coherent, Fresh
  <2>4. \A e \in Evaluators : eval[e].start \in Nat
    BY DEF Typing, TypeOK, EvalState
  <2>5. \A e \in Evaluators : eval[e].pc # "install"
    BY <2>1 DEF Loading
  <2> QED
    BY <1>1, <1>2, <2>2, <2>3, <2>4, <2>5, ListedSinceGrows
<1> QED
  BY <1>3, <1>4, <1>5 DEF CacheInv

(* An administrative step keeps the invariant.                             *)
LEMMA AdminStepCache ==
  ASSUME Typing, CacheInv, NEW a \in Admins, AdminStep(a)
  PROVE  CacheInv'
<1>0. /\ admin \in [Admins -> AdminState] /\ history \in Seq(Rows) /\ table \in Rows
      /\ floor \in Nat
  BY DEF Typing, TypeOK, Rows
<1>1. CASE AddPolicyFromToml(a)
  BY <1>0, <1>1, FrameCache DEF AddPolicyFromToml, StartAdd, AdminIdle, store, ghosts
<1>2. CASE LoadFromDir(a)
  BY <1>0, <1>2, FrameCache DEF LoadFromDir, StartAdd, AdminIdle, store, ghosts
<1>3. CASE ParsePolicySource(a)
  BY <1>0, <1>3, FrameCache DEF ParsePolicySource, AdminState, ghosts
<1>4. CASE ParseError(a)
  BY <1>0, <1>4, FrameCache, IdleWork DEF ParseError, store, ghosts
<1>5. CASE UpsertPolicy(a)
  <2> DEFINE p == Head(admin[a].todo)
  <2>1. admin[a].todo \in Seq(Policy) /\ admin[a].todo # <<>>
    BY <1>0, <1>5 DEF UpsertPolicy, AdminState, Typing, WorkLeft
  <2>2. p \in Policy
    BY <2>1
  <2>3. Upserted(p) \in Rows
    BY <1>0, <2>2 DEF Upserted, Rows, Policy
  <2>4. /\ Commit(Upserted(p)) /\ UNCHANGED eval
        /\ \A b \in Admins \ {a} : admin'[b] = admin[b]
        /\ admin'[a].ver = Len(history')
    BY <1>0, <1>5 DEF UpsertPolicy, AdminState
  <2> QED
    BY <2>3, <2>4, CommitCache
<1>6. CASE StartRemove(a)
  BY <1>0, <1>6, FrameCache DEF StartRemove, AdminIdle, store, ghosts
<1>7. CASE DeletePolicy(a)
  <2>1. Without(admin[a].id) \in Rows
    BY <1>0 DEF Without, Rows
  <2>2. /\ Commit(Without(admin[a].id)) /\ UNCHANGED eval
        /\ \A b \in Admins \ {a} : admin'[b] = admin[b]
        /\ admin'[a].ver = Len(history')
    BY <1>0, <1>7 DEF DeletePolicy, AdminState
  <2> QED
    BY <2>1, <2>2, CommitCache
<1>8. CASE InvalidateCache(a)
  <2>1. /\ cache' = <<>> /\ UNCHANGED <<table, eval, history, raced>>
        /\ floor' \in DOMAIN history /\ floor <= floor' /\ floor' \in Nat
    BY <1>0, <1>8 DEF InvalidateCache, CacheInv, GhostsOK, AdminState
  <2>2. AfterInvalidation(admin[a]).pc # "clear"
    BY <1>0, <1>8 DEF InvalidateCache, AfterInvalidation, AdminState
  <2>3. GhostsOK'
    <3>1. \A b \in Admins : admin'[b].pc = "clear" => admin'[b].ver \in DOMAIN history'
      BY <1>0, <1>8, <2>1, <2>2 DEF InvalidateCache, CacheInv, GhostsOK
    <3>2. \A e \in Evaluators : eval[e].start \in Nat
      BY DEF Typing, TypeOK, EvalState
    <3>3. \A e \in Evaluators : eval'[e].start <= floor'
      BY <1>0, <2>1, <3>2 DEF CacheInv, GhostsOK
    <3> QED
      BY <2>1, <3>1, <3>3 DEF CacheInv, GhostsOK
  <2>4. CommittedSnapshots'
    BY <2>1 DEF CacheInv, CommittedSnapshots
  <2>5. Coherent'
    BY <2>1 DEF CacheInv, Coherent, Fresh
  <2> QED
    BY <2>3, <2>4, <2>5 DEF CacheInv
<1>9. CASE AdminAborted(a)
  BY <1>0, <1>9, FrameCache, IdleWork DEF AdminAborted, store, ghosts
<1>10. CASE AdminDropped(a)
  <2>1. UNCHANGED <<table, cache, eval, history, floor, raced>>
    BY <1>10 DEF AdminDropped, store
  <2>2. \A b \in Admins : admin'[b].pc = "clear" => admin'[b] = admin[b]
    BY <1>0, <1>10, IdleWork DEF AdminDropped
  <2> QED
    BY <2>1, <2>2, FrameCache
<1> QED
  BY <1>1, <1>2, <1>3, <1>4, <1>5, <1>6, <1>7, <1>8, <1>9, <1>10 DEF AdminStep

(* The step of an evaluation that changes only its own state: what the     *)
(* invariant asks of the new state of that evaluation.                     *)
LEMMA EvalCache ==
  ASSUME Typing, CacheInv, NEW e \in Evaluators, NEW s,
         eval' = [eval EXCEPT ![e] = s], UNCHANGED <<table, admin, ghosts>>,
         s.start <= floor,
         s.pc \in {"install", "done"} => ListedSince(history, 1, s.snap),
         ~raced /\ s.pc = "install" => s.snap \in Listings(table),
         ~raced /\ s.pc = "done" => ListedSince(history, s.start, s.snap),
         \/ cache' = cache
         \/ /\ cache' # <<>> => ListedSince(history, 1, cache')
            /\ ~raced /\ cache' # <<>> => ListedSince(history, floor, cache')
  PROVE  CacheInv'
<1>0. eval \in [Evaluators -> EvalState]
  BY DEF Typing, TypeOK
<1>1. /\ eval'[e] = s
      /\ \A d \in Evaluators : d # e => eval'[d] = eval[d]
  BY <1>0
<1>2. UNCHANGED <<table, admin, history, floor, raced>>
  BY DEF ghosts
<1>3. GhostsOK'
  BY <1>1, <1>2 DEF CacheInv, GhostsOK
<1>4. CommittedSnapshots'
  BY <1>1, <1>2 DEF CacheInv, CommittedSnapshots
<1>5. Coherent'
  BY <1>1, <1>2 DEF CacheInv, Coherent, Fresh
<1> QED
  BY <1>3, <1>4, <1>5 DEF CacheInv

(* A step of an evaluation keeps the invariant.                            *)
LEMMA EvalStepCache ==
  ASSUME Typing, CacheInv, NEW e \in Evaluators, EvalStep(e)
  PROVE  CacheInv'
<1>0. /\ eval \in [Evaluators -> EvalState] /\ eval[e] \in EvalState
      /\ history \in Seq(Rows) /\ floor \in Nat
      /\ history # <<>> /\ floor <= Len(history) /\ floor >= 1
      /\ history[Len(history)] = table
      /\ eval[e].start <= floor /\ eval[e].start \in Nat
  BY DEF Typing, TypeOK, Rows, EvalState, CacheInv, GhostsOK
<1>1. CASE StartEvaluate(e)
  <2>1. PICK ctx \in Contexts :
          eval' = [eval EXCEPT ![e] =
            [EvalIdle EXCEPT !.pc = "lookup", !.ctx = ctx, !.start = floor]]
    BY <1>1 DEF StartEvaluate
  <2> DEFINE s == [EvalIdle EXCEPT !.pc = "lookup", !.ctx = ctx, !.start = floor]
  <2>2. s.pc = "lookup" /\ s.start = floor
    BY DEF EvalIdle
  <2>3. UNCHANGED <<table, admin, ghosts>> /\ cache' = cache
    BY <1>1 DEF StartEvaluate, store
  <2>4. eval' = [eval EXCEPT ![e] = s] /\ s.start <= floor
    BY <1>0, <2>1, <2>2
  <2> HIDE DEF s
  <2> QED
    BY <2>2, <2>3, <2>4, EvalCache
<1>2. ASSUME NEW p PROVE /\ Decided(e, p).pc = "done" /\ Decided(e, p).snap = p
                         /\ Decided(e, p).start = eval[e].start
  BY <1>0 DEF Decided, EvalState
<1>3. CASE CacheHit(e)
  <2>1. ListedSince(history, 1, cache)
    BY <1>3 DEF CacheHit, CacheInv, CommittedSnapshots
  <2>2. ~raced => ListedSince(history, eval[e].start, cache)
    BY <1>0, <1>3, ListedSinceEarlier DEF CacheHit, CacheInv, Coherent
  <2>3. UNCHANGED <<table, admin, ghosts>> /\ cache' = cache
    BY <1>3 DEF CacheHit, store
  <2> QED
    BY <1>0, <1>2, <1>3, <2>1, <2>2, <2>3, EvalCache DEF CacheHit
<1>4. CASE CacheMiss(e)
  <2> DEFINE s == [eval[e] EXCEPT !.pc = "load"]
  <2>1. eval' = [eval EXCEPT ![e] = s] /\ s.pc = "load" /\ s.start = eval[e].start
    BY <1>0, <1>4 DEF CacheMiss, EvalState
  <2>2. UNCHANGED <<table, admin, ghosts>> /\ cache' = cache
    BY <1>4 DEF CacheMiss, store
  <2> HIDE DEF s
  <2> QED
    BY <1>0, <2>1, <2>2, EvalCache
<1>5. CASE LoadPoliciesFromDb(e)
  <2>1. PICK rows \in Listings(table) :
          eval' = [eval EXCEPT ![e].pc = "install", ![e].snap = rows]
    BY <1>5 DEF LoadPoliciesFromDb
  <2> DEFINE s == [eval[e] EXCEPT !.pc = "install", !.snap = rows]
  <2>2. /\ eval' = [eval EXCEPT ![e] = s] /\ s.pc = "install" /\ s.snap = rows
        /\ s.start = eval[e].start
    BY <1>0, <2>1 DEF EvalState
  <2>3. ListedSince(history, 1, rows)
    BY <1>0, <2>1, ListedNow
  <2>4. UNCHANGED <<table, admin, ghosts>> /\ cache' = cache
    BY <1>5 DEF LoadPoliciesFromDb, store
  <2> HIDE DEF s
  <2> QED
    BY <1>0, <2>1, <2>2, <2>3, <2>4, EvalCache
<1>6. CASE InstallCache(e)
  <2> DEFINE p == eval[e].snap
  <2>1. ListedSince(history, 1, p)
    BY <1>6 DEF InstallCache, CacheInv, CommittedSnapshots
  <2>2. ~raced => p \in Listings(history[Len(history)])
    BY <1>0, <1>6 DEF InstallCache, CacheInv, Coherent
  <2>3. ~raced => ListedSince(history, floor, p) /\ ListedSince(history, eval[e].start, p)
    BY <1>0, <2>2, ListedNow
  <2>4. UNCHANGED <<table, admin, ghosts>> /\ cache' = p
    BY <1>6 DEF InstallCache
  <2>5. eval' = [eval EXCEPT ![e] = Decided(e, p)]
    BY <1>6 DEF InstallCache
  <2> HIDE DEF p
  <2> QED
    BY <1>0, <1>2, <2>1, <2>3, <2>4, <2>5, EvalCache
<1>7. CASE EndEvaluate(e)
  <2>1. EvalIdle.pc = "idle" /\ EvalIdle.start = 0
    BY DEF EvalIdle
  <2>2. UNCHANGED <<table, admin, ghosts>> /\ cache' = cache
    BY <1>7 DEF EndEvaluate, store
  <2>3. eval' = [eval EXCEPT ![e] = EvalIdle] /\ EvalIdle.start <= floor
    BY <1>0, <1>7, <2>1 DEF EndEvaluate
  <2> QED
    BY <2>1, <2>2, <2>3, EvalCache
<1> QED
  BY <1>1, <1>3, <1>4, <1>5, <1>6, <1>7 DEF EvalStep

(* Every reachable state satisfies the invariant of the cache.             *)
THEOREM CacheCorrect == Spec => []CacheInv
<1>1. Init => CacheInv
  <2> SUFFICES ASSUME Init PROVE CacheInv
    OBVIOUS
  <2>1. \A e \in Evaluators : eval[e].pc = "idle" /\ eval[e].start = 0
    BY DEF Init, EvalIdle
  <2>2. \A a \in Admins : admin[a].pc = "idle"
    BY IdleWork DEF Init
  <2>3. /\ history = <<table>> /\ floor = 1 /\ cache = <<>>
        /\ DOMAIN history = {1} /\ Len(history) = 1
    BY DEF Init
  <2> QED
    BY <2>1, <2>2, <2>3 DEF CacheInv, GhostsOK, CommittedSnapshots, Coherent, Fresh
<1>2. Typing /\ CacheInv /\ [Next]_vars => CacheInv'
  <2> SUFFICES ASSUME Typing, CacheInv, [Next]_vars PROVE CacheInv'
    OBVIOUS
  <2>1. CASE \E a \in Admins : AdminStep(a)
    BY <2>1, AdminStepCache
  <2>2. CASE \E e \in Evaluators : EvalStep(e)
    BY <2>2, EvalStepCache
  <2>3. CASE Tick
    BY <2>3, FrameCache DEF Tick, ghosts
  <2>4. CASE Restart
    <3>1. \A e \in Evaluators : eval'[e].pc = "idle" /\ eval'[e].start = 0
      BY <2>4 DEF Restart, EvalIdle
    <3>2. \A a \in Admins : admin'[a].pc = "idle"
      BY <2>4, IdleWork DEF Restart
    <3>3. /\ UNCHANGED <<table, history>> /\ cache' = <<>>
          /\ floor' = Len(history) /\ history \in Seq(Rows) /\ history # <<>>
      BY <2>4 DEF Restart, Typing, TypeOK, CacheInv, GhostsOK, Rows
    <3>4. floor' \in DOMAIN history' /\ 0 <= floor'
      BY <3>3
    <3> QED
      BY <3>1, <3>2, <3>3, <3>4 DEF CacheInv, GhostsOK, CommittedSnapshots, Coherent, Fresh
  <2>5. CASE UNCHANGED vars
    BY <2>5, FrameCache DEF vars, ghosts
  <2> QED
    BY <2>1, <2>2, <2>3, <2>4, <2>5 DEF Next
<1> QED
  BY <1>1, <1>2, TypingCorrect, PTL DEF Spec

(* Whatever overlaps with cached_policies, an evaluation reads, and the    *)
(* cache holds, the whole answer of one SELECT over one committed table.   *)
THEOREM SnapshotsAreCommitted == Spec => []CommittedSnapshots
<1>1. CacheInv => CommittedSnapshots
  BY DEF CacheInv
<1> QED
  BY <1>1, CacheCorrect, PTL

(* Unless a statement commits between a load and its installation in the   *)
(* cache, an evaluation that starts after a write returned sees the write. *)
THEOREM CacheIsFresh == Spec => []FreshUnlessRaced
<1>1. CacheInv => FreshUnlessRaced
  BY DEF CacheInv, Coherent, FreshUnlessRaced
<1> QED
  BY <1>1, CacheCorrect, PTL

(* The last commit is to be seen by the calls that start now, or its call  *)
(* is about to invalidate the cache, or was dropped before it did.         *)
LastCommit ==
  \/ Len(history) <= floor
  \/ Len(history) <= dropped
  \/ \E a \in Admins : admin[a].pc = "clear" /\ admin[a].ver = Len(history)

(* An administrative step keeps that.                                      *)
LEMMA AdminStepLast ==
  ASSUME Typing, CacheInv, LastCommit, NEW a \in Admins, AdminStep(a)
  PROVE  LastCommit'
<1>0. /\ admin \in [Admins -> AdminState] /\ admin[a] \in AdminState
      /\ floor \in Nat /\ dropped \in Nat /\ Len(history) \in Nat
  BY DEF Typing, TypeOK
<1>1. ASSUME UNCHANGED ghosts, admin[a].pc # "clear",
             \A b \in Admins \ {a} : admin'[b] = admin[b]
      PROVE  LastCommit'
  BY <1>1 DEF LastCommit, ghosts
<1>2. CASE AddPolicyFromToml(a) \/ LoadFromDir(a) \/ ParsePolicySource(a) \/ ParseError(a)
             \/ StartRemove(a) \/ AdminAborted(a)
  <2>1. UNCHANGED ghosts /\ admin[a].pc # "clear"
    BY <1>2 DEF AddPolicyFromToml, LoadFromDir, StartAdd, ParsePolicySource, ParseError,
       StartRemove, AdminAborted
  <2>2. \A b \in Admins \ {a} : admin'[b] = admin[b]
    BY <1>0, <1>2 DEF AddPolicyFromToml, LoadFromDir, StartAdd, ParsePolicySource, ParseError,
       StartRemove, AdminAborted
  <2> QED
    BY <1>1, <2>1, <2>2
<1>3. CASE UpsertPolicy(a)
  <2>1. admin'[a].pc = "clear" /\ admin'[a].ver = Len(history')
    BY <1>0, <1>3 DEF UpsertPolicy, AdminState
  <2> QED
    BY <2>1 DEF LastCommit
<1>4. CASE DeletePolicy(a)
  <2>1. admin'[a].pc = "clear" /\ admin'[a].ver = Len(history')
    BY <1>0, <1>4 DEF DeletePolicy, AdminState
  <2> QED
    BY <2>1 DEF LastCommit
<1>5. CASE InvalidateCache(a)
  <2>1. /\ UNCHANGED <<history, dropped>> /\ floor <= floor' /\ admin[a].ver <= floor'
        /\ \A b \in Admins \ {a} : admin'[b] = admin[b]
        /\ floor' \in Nat
    BY <1>0, <1>5 DEF InvalidateCache, AdminState
  <2> QED
    BY <1>0, <2>1 DEF LastCommit
<1>6. CASE AdminDropped(a)
  <2>1. /\ UNCHANGED <<history, floor>> /\ dropped <= dropped' /\ admin[a].ver <= dropped'
        /\ \A b \in Admins \ {a} : admin'[b] = admin[b]
        /\ dropped' \in Nat
    BY <1>0, <1>6 DEF AdminDropped, AdminState
  <2> QED
    BY <1>0, <2>1 DEF LastCommit
<1> QED
  BY <1>2, <1>3, <1>4, <1>5, <1>6 DEF AdminStep

(* It holds in every reachable state.                                      *)
THEOREM LastCommitKnown == Spec => []LastCommit
<1>1. Init => LastCommit
  BY DEF Init, LastCommit
<1>2. Typing /\ CacheInv /\ LastCommit /\ [Next]_vars => LastCommit'
  <2> SUFFICES ASSUME Typing, CacheInv, LastCommit, [Next]_vars PROVE LastCommit'
    OBVIOUS
  <2>1. CASE \E a \in Admins : AdminStep(a)
    BY <2>1, AdminStepLast
  <2>2. CASE (\E e \in Evaluators : EvalStep(e)) \/ Tick \/ UNCHANGED vars
    <3>1. UNCHANGED <<admin, ghosts>>
      BY <2>2 DEF EvalStep, StartEvaluate, CacheHit, CacheMiss, LoadPoliciesFromDb,
         InstallCache, EndEvaluate, Tick, vars, ghosts
    <3> QED
      BY <3>1 DEF LastCommit, ghosts
  <2>3. CASE Restart
    BY <2>3 DEF Restart, LastCommit, Typing, TypeOK
  <2> QED
    BY <2>1, <2>2, <2>3 DEF Next
<1> QED
  BY <1>1, <1>2, TypingCorrect, CacheCorrect, PTL DEF Spec

(* The stale cache a dropped call leaves behind does not outlive the next  *)
(* write that returns: with no other write before its invalidation, what   *)
(* is cached is what the table lists.                                      *)
THEOREM DropsHeal == Spec => []DropsHealAtNextWrite
<1>1. Typing /\ CacheInv /\ LastCommit => DropsHealAtNextWrite
  <2> SUFFICES ASSUME Typing, CacheInv, LastCommit, ~raced, cache # <<>>, dropped <= floor,
                      \A a \in Admins : admin[a].pc # "clear"
               PROVE  cache \in Listings(table)
    BY DEF DropsHealAtNextWrite
  <2>1. history \in Seq(Rows) /\ floor \in Nat /\ dropped \in Nat
    BY DEF Typing, TypeOK, Rows
  <2>2. Len(history) <= floor
    BY <2>1 DEF LastCommit
  <2>3. PICK v \in DOMAIN history : v >= floor /\ cache \in Listings(history[v])
    BY DEF CacheInv, Coherent, ListedSince
  <2>4. v = Len(history)
    BY <2>1, <2>2, <2>3
  <2> QED
    BY <2>3, <2>4 DEF CacheInv, GhostsOK
<1> QED
  BY <1>1, TypingCorrect, CacheCorrect, LastCommitKnown, PTL

-----------------------------------------------------------------------------
(* Ids.                                                                    *)

IdInv == RowIdsUnique /\ PendingIdsFresh

(* A step that leaves the table alone and issues no id, and only forgets   *)
(* policies on their way to the table, keeps the invariant.                *)
LEMMA FrameIds ==
  ASSUME IdInv, UNCHANGED <<table, nextId>>,
         \A a \in Admins : admin'[a].todo = <<>> \/ admin'[a].todo = admin[a].todo
  PROVE  IdInv'
<1>1. RowIdsUnique'
  BY DEF IdInv, RowIdsUnique
<1>2. PendingIdsFresh'
  BY DEF IdInv, PendingIdsFresh
<1> QED
  BY <1>1, <1>2 DEF IdInv

(* An administrative step keeps the invariant.                             *)
LEMMA AdminStepIds ==
  ASSUME Typing, IdInv, NEW a \in Admins, AdminStep(a)
  PROVE  IdInv'
<1>0. /\ admin \in [Admins -> AdminState] /\ table \in Rows /\ nextId \in Nat /\ clock \in Nat
      /\ \A b \in Admins : admin[b].todo \in Seq(Policy)
  BY DEF Typing, TypeOK, Rows, AdminState
<1>1. CASE AddPolicyFromToml(a)
  BY <1>0, <1>1, FrameIds DEF AddPolicyFromToml, StartAdd, AdminIdle, store
<1>2. CASE LoadFromDir(a)
  BY <1>0, <1>2, FrameIds DEF LoadFromDir, StartAdd, AdminIdle, store
<1>3. CASE ParsePolicySource(a)
  <2> DEFINE source == Head(admin[a].files)
             new == Parsed(source)
  <2>1. admin[a].files \in Seq(Sources) /\ admin[a].files # <<>>
    BY <1>0, <1>3 DEF ParsePolicySource, AdminState, Typing, WorkLeft
  <2>2. source \in Seq(PolicyFile)
    BY <2>1, PolicyConstants
  <2>3. /\ DOMAIN new = 1 .. Len(source) /\ Len(source) \in Nat
        /\ \A i \in DOMAIN new : new[i].id = nextId + i - 1
    BY <2>2 DEF Parsed
  <2>4. nextId' = nextId + Len(source)
    BY <1>3 DEF ParsePolicySource, IdsAfter
  <2>5. admin'[a].todo = new /\ \A b \in Admins : b # a => admin'[b] = admin[b]
    BY <1>0, <1>3 DEF ParsePolicySource, AdminState
  <2>6. table' = table
    BY <1>3 DEF ParsePolicySource
  <2> HIDE DEF new, source
  <2>7. RowIdsUnique'
    BY <1>0, <2>3, <2>4, <2>6 DEF IdInv, RowIdsUnique, Rows, Policy
  <2>8. \A i \in DOMAIN new : new[i].id < nextId' /\ new[i].id >= nextId /\ new[i].id \in Nat
    BY <1>0, <2>3, <2>4
  <2>9. \A i, j \in DOMAIN new : new[i].id = new[j].id => i = j
    BY <1>0, <2>3
  <2>10. \A n \in Names : table[n] # NoRow => table[n].id \in Nat /\ table[n].id < nextId
    BY <1>0 DEF IdInv, RowIdsUnique, Rows, Policy
  <2>11. \A b \in Admins : \A i \in DOMAIN admin[b].todo :
           admin[b].todo[i].id \in Nat /\ admin[b].todo[i].id < nextId
    <3>1. \A b \in Admins : \A i \in DOMAIN admin[b].todo : admin[b].todo[i] \in Policy
      BY <1>0
    <3>2. \A q \in Policy : q.id \in Nat
      BY DEF Policy
    <3> QED
      BY <3>1, <3>2 DEF IdInv, PendingIdsFresh
  <2>12. ASSUME NEW b \in Admins, NEW i \in DOMAIN admin'[b].todo
         PROVE  /\ admin'[b].todo[i].id < nextId'
                /\ \A n \in Names : table'[n] # NoRow => table'[n].id # admin'[b].todo[i].id
    <3>1. CASE b = a
      BY <1>0, <2>5, <2>6, <2>8, <2>10, <3>1
    <3>2. CASE b # a
      BY <1>0, <2>3, <2>4, <2>5, <2>6, <2>11, <3>2 DEF IdInv, PendingIdsFresh
    <3> QED
      BY <3>1, <3>2
  <2>13. ASSUME NEW b \in Admins, NEW c \in Admins, NEW i \in DOMAIN admin'[b].todo,
                NEW j \in DOMAIN admin'[c].todo, admin'[b].todo[i].id = admin'[c].todo[j].id
         PROVE  b = c /\ i = j
    <3>1. CASE b = a /\ c = a
      BY <2>5, <2>9, <2>13, <3>1
    <3>2. CASE b = a /\ c # a
      BY <1>0, <2>5, <2>8, <2>11, <2>13, <3>2
    <3>3. CASE b # a /\ c = a
      BY <1>0, <2>5, <2>8, <2>11, <2>13, <3>3
    <3>4. CASE b # a /\ c # a
      BY <2>5, <2>13, <3>4 DEF IdInv, PendingIdsFresh
    <3> QED
      BY <3>1, <3>2, <3>3, <3>4
  <2> QED
    BY <2>7, <2>12, <2>13 DEF IdInv, PendingIdsFresh
<1>4. CASE ParseError(a)
  BY <1>0, <1>4, FrameIds, IdleWork DEF ParseError, store
<1>5. CASE UpsertPolicy(a)
  <2> DEFINE todo == admin[a].todo
             p == Head(todo)
  <2>1. todo \in Seq(Policy) /\ todo # <<>>
    BY <1>0, <1>5 DEF UpsertPolicy, AdminState, Typing, WorkLeft
  <2>2. /\ p = todo[1] /\ 1 \in DOMAIN todo /\ p \in Policy
        /\ \A i \in DOMAIN Tail(todo) : i + 1 \in DOMAIN todo /\ Tail(todo)[i] = todo[i + 1]
        /\ \A i \in DOMAIN Tail(todo) : i \in Nat /\ i >= 1
    BY <2>1
  <2>3. nextId' = nextId /\ table' = Upserted(p)
    BY <1>5 DEF UpsertPolicy, Commit
  <2>4. admin'[a].todo = Tail(todo) /\ \A b \in Admins : b # a => admin'[b] = admin[b]
    BY <1>0, <1>5 DEF UpsertPolicy, AdminState
  <2>5. /\ \A n \in Names : n # p.name => table'[n] = table[n]
        /\ table'[p.name] # NoRow
        /\ table'[p.name].name = p.name
        /\ \/ table[p.name] = NoRow /\ table'[p.name].id = p.id
           \/ table[p.name] # NoRow /\ table'[p.name].id = table[p.name].id
        /\ p.name \in Names
    <3>1. p.name \in Names /\ NoRow \notin Policy
      BY <2>2, PolicyConstants DEF Policy
    <3>2. CASE table[p.name] = NoRow
      BY <1>0, <2>2, <2>3, <3>1, <3>2 DEF Upserted, Rows
    <3>3. CASE table[p.name] # NoRow
      <4> DEFINE q == [p EXCEPT !.id = table[p.name].id]
      <4>1. q.id = table[p.name].id /\ q.name = p.name /\ q \in Policy
        BY <1>0, <2>2, <3>1, <3>3 DEF Rows, Policy
      <4>2. table' = [table EXCEPT ![p.name] = q]
        BY <2>3, <3>3 DEF Upserted
      <4> QED
        BY <1>0, <3>1, <3>3, <4>1, <4>2 DEF Rows
    <3> QED
      BY <3>2, <3>3
  <2>6. /\ p.id < nextId
        /\ \A n \in Names : table[n] # NoRow => table[n].id # p.id
        /\ \A b \in Admins : \A i \in DOMAIN admin[b].todo :
             admin[b].todo[i].id = p.id => b = a /\ i = 1
    BY <2>2 DEF IdInv, PendingIdsFresh
  <2> HIDE DEF p, todo
  <2>7. RowIdsUnique'
    BY <2>3, <2>5, <2>6 DEF IdInv, RowIdsUnique
  <2>8. \A b \in Admins : \A i \in DOMAIN admin'[b].todo :
          \E k \in DOMAIN admin[b].todo :
            /\ admin'[b].todo[i] = admin[b].todo[k]
            /\ b = a => k = i + 1 /\ i \in Nat /\ i >= 1
            /\ b # a => k = i
    <3> SUFFICES ASSUME NEW b \in Admins, NEW i \in DOMAIN admin'[b].todo
                 PROVE  \E k \in DOMAIN admin[b].todo :
                          /\ admin'[b].todo[i] = admin[b].todo[k]
                          /\ b = a => k = i + 1 /\ i \in Nat /\ i >= 1
                          /\ b # a => k = i
      OBVIOUS
    <3>1. CASE b = a
      <4>1. i \in DOMAIN Tail(todo) /\ admin'[b].todo[i] = Tail(todo)[i]
        BY <2>4, <3>1
      <4>2. i + 1 \in DOMAIN admin[b].todo /\ Tail(todo)[i] = admin[b].todo[i + 1]
        BY <2>2, <3>1, <4>1 DEF todo
      <4> QED
        BY <2>2, <3>1, <4>1, <4>2
    <3>2. CASE b # a
      BY <2>4, <3>2
    <3> QED
      BY <3>1, <3>2
  <2>9. ASSUME NEW b \in Admins, NEW i \in DOMAIN admin'[b].todo
        PROVE  /\ admin'[b].todo[i].id < nextId'
               /\ \A n \in Names : table'[n] # NoRow => table'[n].id # admin'[b].todo[i].id
    <3>1. PICK k \in DOMAIN admin[b].todo :
            /\ admin'[b].todo[i] = admin[b].todo[k]
            /\ b = a => k = i + 1 /\ i \in Nat /\ i >= 1
      BY <2>8
    <3>2. /\ admin[b].todo[k].id < nextId
          /\ \A n \in Names : table[n] # NoRow => table[n].id # admin[b].todo[k].id
      BY DEF IdInv, PendingIdsFresh
    <3>3. admin[b].todo[k].id # p.id
      BY <2>6, <3>1
    <3> QED
      BY <2>3, <2>5, <3>1, <3>2, <3>3
  <2>10. ASSUME NEW b \in Admins, NEW c \in Admins, NEW i \in DOMAIN admin'[b].todo,
                NEW j \in DOMAIN admin'[c].todo, admin'[b].todo[i].id = admin'[c].todo[j].id
         PROVE  b = c /\ i = j
    <3>1. PICK k \in DOMAIN admin[b].todo :
            /\ admin'[b].todo[i] = admin[b].todo[k]
            /\ b = a => k = i + 1 /\ i \in Nat /\ i >= 1
            /\ b # a => k = i
      BY <2>8
    <3>2. PICK l \in DOMAIN admin[c].todo :
            /\ admin'[c].todo[j] = admin[c].todo[l]
            /\ c = a => l = j + 1 /\ j \in Nat /\ j >= 1
            /\ c # a => l = j
      BY <2>8
    <3>3. b = c /\ k = l
      BY <2>10, <3>1, <3>2 DEF IdInv, PendingIdsFresh
    <3> QED
      BY <3>1, <3>2, <3>3
  <2> QED
    BY <2>7, <2>9, <2>10 DEF IdInv, PendingIdsFresh
<1>6. CASE StartRemove(a)
  BY <1>0, <1>6, FrameIds DEF StartRemove, AdminIdle, store
<1>7. CASE DeletePolicy(a)
  <2>1. nextId' = nextId /\ \A n \in Names : table'[n] \in {NoRow, table[n]}
    BY <1>7 DEF DeletePolicy, Commit, Without
  <2>2. \A b \in Admins : admin'[b].todo = admin[b].todo
    BY <1>0, <1>7 DEF DeletePolicy, AdminState
  <2>3. RowIdsUnique'
    BY <2>1 DEF IdInv, RowIdsUnique
  <2>4. PendingIdsFresh'
    BY <2>1, <2>2 DEF IdInv, PendingIdsFresh
  <2> QED
    BY <2>3, <2>4 DEF IdInv
<1>8. CASE InvalidateCache(a)
  <2>1. AfterInvalidation(admin[a]).todo = admin[a].todo
    BY <1>0 DEF AfterInvalidation, AdminState
  <2> QED
    BY <1>0, <1>8, <2>1, FrameIds DEF InvalidateCache
<1>9. CASE AdminAborted(a)
  BY <1>0, <1>9, FrameIds, IdleWork DEF AdminAborted, store
<1>10. CASE AdminDropped(a)
  BY <1>0, <1>10, FrameIds, IdleWork DEF AdminDropped, store
<1> QED
  BY <1>1, <1>2, <1>3, <1>4, <1>5, <1>6, <1>7, <1>8, <1>9, <1>10 DEF AdminStep

(* Rows have distinct, issued ids in every reachable state; no upsert can  *)
(* fail on the primary key.                                                *)
THEOREM RowIds == Spec => []RowIdsUnique
<1>1. Init => IdInv
  BY IdleWork DEF Init, IdInv, RowIdsUnique, PendingIdsFresh
<1>2. Typing /\ IdInv /\ [Next]_vars => IdInv'
  <2> SUFFICES ASSUME Typing, IdInv, [Next]_vars PROVE IdInv'
    OBVIOUS
  <2>1. CASE \E a \in Admins : AdminStep(a)
    BY <2>1, AdminStepIds
  <2>2. CASE \E e \in Evaluators : EvalStep(e)
    BY <2>2, FrameIds DEF EvalStep, StartEvaluate, CacheHit, CacheMiss,
       LoadPoliciesFromDb, InstallCache, EndEvaluate, store
  <2>3. CASE Tick
    BY <2>3, FrameIds DEF Tick
  <2>4. CASE Restart
    BY <2>4, FrameIds, IdleWork DEF Restart
  <2>5. CASE UNCHANGED vars
    BY <2>5, FrameIds DEF vars
  <2> QED
    BY <2>1, <2>2, <2>3, <2>4, <2>5 DEF Next
<1>3. IdInv => RowIdsUnique
  BY DEF IdInv
<1> QED
  BY <1>1, <1>2, <1>3, TypingCorrect, PTL DEF Spec

-----------------------------------------------------------------------------
(* The decision, and the reference definition of it.                       *)

(* Min picks the least element.                                            *)
LEMMA MinIsLeast ==
  ASSUME NEW S \in SUBSET Nat, NEW x \in S, \A y \in S : x <= y
  PROVE  Min(S) = x
<1>1. Min(S) \in S /\ \A y \in S : Min(S) <= y
  BY Zenon DEF Min
<1>2. Min(S) \in Nat /\ x \in Nat /\ Min(S) <= x /\ x <= Min(S)
  BY <1>1
<1> QED
  BY <1>2

(* Nothing in the set is below its Min.                                    *)
LEMMA MinIsLower ==
  ASSUME NEW S \in SUBSET Nat, S # {}
  PROVE  \A y \in S : Min(S) <= y
<1>1. PICK x \in S : \A y \in S : x <= y
  BY LeastExists
<1> QED
  BY <1>1, MinIsLeast

(* A listing is a permutation of the enabled rows, in the order of the     *)
(* SELECT.                                                                 *)
LEMMA ListingsPermute ==
  ASSUME NEW t \in Rows, NEW s \in Listings(t)
  PROVE  /\ s \in Seq(Policy) /\ Range(s) = EnabledRows(t)
         /\ \A i, j \in DOMAIN s : i < j => ListedBefore(s[i], s[j])
<1> DEFINE E == EnabledRows(t)
           D == 1 .. Cardinality(E)
<1>1. IsFiniteSet(E) /\ Cardinality(E) \in Nat
  BY EnabledRowsFinite, FS_CardinalityType
<1>2. s \in [D -> E] /\ \A i, j \in D : i # j => s[i] # s[j]
  BY DEF Listings, SetToSeqs
<1>3. IsFiniteSet(D) /\ Cardinality(D) = Cardinality(E)
  <2>1. Cardinality(D) = IF 1 > Cardinality(E) THEN 0 ELSE Cardinality(E) - 1 + 1
    BY <1>1, FS_Interval
  <2>2. IsFiniteSet(D)
    BY <1>1, FS_Interval
  <2> QED
    BY <1>1, <2>1, <2>2
<1> HIDE DEF D, E
<1>4. s \in Injection(D, E)
  BY <1>2 DEF Injection, IsInjective
<1>5. s \in Surjection(D, E)
  BY <1>1, <1>3, <1>4, FS_Injection
<1>6. Range(s) = E
  BY <1>2, <1>5 DEF Surjection, Range
<1> QED
  BY <1>6, ListingsType DEF Listings, E

(* The first rule that fires in a policy.                                  *)
LEMMA FirstFires ==
  ASSUME NEW p \in Policy, NEW ctx, NEW i \in DOMAIN p.rules, Fires(p.rules[i], ctx)
  PROVE  Min(FiringRules(p, ctx)) =
           CHOOSE k \in DOMAIN p.rules :
             /\ Fires(p.rules[k], ctx)
             /\ \A j \in 1 .. k - 1 : ~Fires(p.rules[j], ctx)
<1> DEFINE F == FiringRules(p, ctx)
           First(k) == Fires(p.rules[k], ctx) /\ \A j \in 1 .. k - 1 : ~Fires(p.rules[j], ctx)
           m == Min(F)
           c == CHOOSE k \in DOMAIN p.rules : First(k)
<1>1. p.rules \in Seq(PolicyRule)
  BY DEF Policy
<1>2. DOMAIN p.rules = 1 .. Len(p.rules) /\ Len(p.rules) \in Nat
  BY <1>1
<1>3. F \in SUBSET Nat /\ F # {} /\ F \subseteq DOMAIN p.rules
  BY <1>2 DEF FiringRules
<1>4. \A k \in DOMAIN p.rules : k \in F <=> Fires(p.rules[k], ctx)
  BY DEF FiringRules
<1> HIDE DEF F
<1>5. m \in F /\ \A y \in F : m <= y
  BY <1>3, MinIsElement, MinIsLower
<1> HIDE DEF m
<1>6. m \in DOMAIN p.rules /\ First(m)
  <2>1. m \in DOMAIN p.rules /\ Fires(p.rules[m], ctx)
    BY <1>3, <1>4, <1>5
  <2>2. ASSUME NEW j \in 1 .. m - 1 PROVE ~Fires(p.rules[j], ctx)
    <3>1. j \in DOMAIN p.rules /\ ~(m <= j)
      BY <1>2, <2>1
    <3> QED
      BY <1>4, <1>5, <3>1
  <2> QED
    BY <2>1, <2>2
<1>7. c \in DOMAIN p.rules /\ First(c)
  BY <1>6, Zenon
<1> HIDE DEF c
<1>8. c \in F /\ m <= c
  BY <1>4, <1>5, <1>7
<1>9. ~(m < c)
  <2>1. m < c => m \in 1 .. c - 1
    BY <1>2, <1>6, <1>7
  <2> QED
    BY <1>6, <1>7, <2>1
<1>10. m = c
  BY <1>2, <1>6, <1>7, <1>8, <1>9
<1> QED
  BY <1>10 DEF m, c, F

(* evaluate_rules on a listing answers what the reference answers on the   *)
(* table: the first policy of the listing in which a rule fires is one     *)
(* that no other firing policy outranks.                                   *)
LEMMA DecideMeetsReference ==
  ASSUME NEW t \in Rows, NEW s \in Listings(t), NEW ctx
  PROVE  Decide(s, ctx) \in ReferenceDecisions(t, ctx)
<1> DEFINE hits == {i \in DOMAIN s : FiringRules(s[i], ctx) # {}}
           firing == {p \in EnabledRows(t) : \E i \in DOMAIN p.rules : Fires(p.rules[i], ctx)}
           top == {p \in firing : \A q \in firing : ~Outranks(q, p)}
           First(p) == CHOOSE i \in DOMAIN p.rules :
                         /\ Fires(p.rules[i], ctx)
                         /\ \A j \in 1 .. i - 1 : ~Fires(p.rules[j], ctx)
<1>1. ReferenceDecisions(t, ctx) =
        IF firing = {} THEN {DefaultDeny} ELSE {Decision(p.rules[First(p)]) : p \in top}
  BY DEF ReferenceDecisions
<1>2. Decide(s, ctx) = IF hits = {} THEN DefaultDeny ELSE PolicyDecision(s[Min(hits)], ctx)
  BY DEF Decide
<1>3. /\ s \in Seq(Policy) /\ Range(s) = EnabledRows(t)
      /\ \A i, j \in DOMAIN s : i < j => ListedBefore(s[i], s[j])
  BY ListingsPermute
<1>4. ASSUME NEW p PROVE FiringRules(p, ctx) # {} <=> \E i \in DOMAIN p.rules : Fires(p.rules[i], ctx)
  BY DEF FiringRules
<1>5. \A i \in DOMAIN s : s[i] \in EnabledRows(t) /\ (i \in hits <=> s[i] \in firing)
  BY <1>3, <1>4 DEF Range
<1>6. \A p \in firing : \E i \in hits : s[i] = p
  BY <1>3, <1>5 DEF Range
<1> HIDE DEF firing
<1>7. CASE hits = {}
  <2>1. firing = {}
    BY <1>6, <1>7
  <2> QED
    BY <1>1, <1>2, <1>7, <2>1
<1>8. CASE hits # {}
  <2> DEFINE m == Min(hits)
             p == s[m]
  <2>1. hits \in SUBSET Nat
    BY <1>3
  <2>2. m \in hits /\ \A i \in hits : m <= i
    BY <1>8, <2>1, MinIsElement, MinIsLower
  <2> HIDE DEF m
  <2>3. m \in DOMAIN s /\ p \in firing /\ p \in Policy
    BY <1>3, <1>5, <2>2
  <2>4. ASSUME NEW q \in firing PROVE ~Outranks(q, p)
    <3>1. PICK i \in hits : s[i] = q
      BY <1>6
    <3>2. q \in Policy /\ i \in DOMAIN s /\ m <= i
      BY <1>3, <2>2, <3>1
    <3>3. /\ p.priority \in Int /\ q.priority \in Int
          /\ p.updated \in Int /\ q.updated \in Int
      BY <2>3, <3>2 DEF Policy
    <3>4. CASE i = m
      <4>1. q = p
        BY <3>1, <3>4
      <4> HIDE DEF p
      <4> QED
        BY <3>3, <4>1 DEF Outranks
    <3>5. CASE i # m
      <4>1. m < i
        BY <2>1, <2>2, <3>1, <3>2, <3>5
      <4>2. ListedBefore(p, q)
        BY <1>3, <2>3, <3>1, <3>2, <4>1
      <4> HIDE DEF p
      <4> QED
        BY <3>3, <4>2 DEF ListedBefore, Outranks
    <3> QED
      BY <3>4, <3>5
  <2>5. p \in top
    BY <2>3, <2>4
  <2>6. PICK i \in DOMAIN p.rules : Fires(p.rules[i], ctx)
    BY <2>3 DEF firing
  <2>7. Decide(s, ctx) = Decision(p.rules[Min(FiringRules(p, ctx))])
    BY <1>2, <1>8 DEF PolicyDecision, m
  <2> HIDE DEF p, hits, top
  <2>8. Min(FiringRules(p, ctx)) = First(p)
    BY <2>3, <2>6, FirstFires, Zenon
  <2> HIDE DEF First
  <2>9. Decide(s, ctx) = Decision(p.rules[First(p)]) /\ firing # {}
    BY <2>3, <2>7, <2>8
  <2> QED
    BY <1>1, <2>5, <2>9
<1> QED
  BY <1>7, <1>8

(* A finished evaluation has decided on the list it read.                  *)
DecidedHere ==
  \A e \in Evaluators : eval[e].pc = "done" => eval[e].out = Decide(eval[e].snap, eval[e].ctx)

(* A step of an evaluation keeps that.                                     *)
LEMMA EvalStepDecided ==
  ASSUME Typing, DecidedHere, NEW e \in Evaluators, EvalStep(e)
  PROVE  DecidedHere'
<1>0. eval \in [Evaluators -> EvalState] /\ eval[e] \in EvalState
  BY DEF Typing, TypeOK
<1>1. ASSUME NEW s, eval' = [eval EXCEPT ![e] = s],
             s.pc = "done" => s.out = Decide(s.snap, s.ctx)
      PROVE  DecidedHere'
  BY <1>0, <1>1 DEF DecidedHere
<1>2. ASSUME NEW p, eval' = [eval EXCEPT ![e] = Decided(e, p)] PROVE DecidedHere'
  <2>1. /\ Decided(e, p).snap = p /\ Decided(e, p).ctx = eval[e].ctx
        /\ Decided(e, p).out = Decide(p, eval[e].ctx)
    BY <1>0 DEF Decided, EvalState
  <2> QED
    BY <1>1, <1>2, <2>1
<1>3. CASE StartEvaluate(e)
  <2>1. PICK ctx \in Contexts :
          eval' = [eval EXCEPT ![e] =
            [EvalIdle EXCEPT !.pc = "lookup", !.ctx = ctx, !.start = floor]]
    BY <1>3 DEF StartEvaluate
  <2> DEFINE s == [EvalIdle EXCEPT !.pc = "lookup", !.ctx = ctx, !.start = floor]
  <2>2. s.pc = "lookup"
    BY DEF EvalIdle
  <2> HIDE DEF s
  <2> QED
    BY <1>1, <2>1, <2>2 DEF s
<1>4. CASE CacheHit(e)
  BY <1>2, <1>4 DEF CacheHit
<1>5. CASE CacheMiss(e)
  <2> DEFINE s == [eval[e] EXCEPT !.pc = "load"]
  <2>1. eval' = [eval EXCEPT ![e] = s] /\ s.pc = "load"
    BY <1>0, <1>5 DEF CacheMiss, EvalState
  <2> HIDE DEF s
  <2> QED
    BY <1>1, <2>1
<1>6. CASE LoadPoliciesFromDb(e)
  <2>1. PICK rows \in Listings(table) :
          eval' = [eval EXCEPT ![e].pc = "install", ![e].snap = rows]
    BY <1>6 DEF LoadPoliciesFromDb
  <2> DEFINE s == [eval[e] EXCEPT !.pc = "install", !.snap = rows]
  <2>2. eval' = [eval EXCEPT ![e] = s] /\ s.pc = "install"
    BY <1>0, <2>1 DEF EvalState
  <2> HIDE DEF s
  <2> QED
    BY <1>1, <2>2
<1>7. CASE InstallCache(e)
  BY <1>2, <1>7 DEF InstallCache
<1>8. CASE EndEvaluate(e)
  <2>1. EvalIdle.pc = "idle" /\ eval' = [eval EXCEPT ![e] = EvalIdle]
    BY <1>8 DEF EvalIdle, EndEvaluate
  <2> HIDE DEF EvalIdle
  <2> QED
    BY <1>1, <2>1
<1> QED
  BY <1>3, <1>4, <1>5, <1>6, <1>7, <1>8 DEF EvalStep

(* Every finished evaluation has decided on the list it read.              *)
THEOREM DecidedCorrect == Spec => []DecidedHere
<1>1. EvalIdle.pc = "idle"
  BY DEF EvalIdle
<1>2. Init => DecidedHere
  BY <1>1 DEF Init, DecidedHere
<1>3. Typing /\ DecidedHere /\ [Next]_vars => DecidedHere'
  <2> SUFFICES ASSUME Typing, DecidedHere, [Next]_vars PROVE DecidedHere'
    OBVIOUS
  <2>1. CASE \E e \in Evaluators : EvalStep(e)
    BY <2>1, EvalStepDecided
  <2>2. CASE Restart
    BY <1>1, <2>2 DEF Restart, DecidedHere
  <2>3. CASE (\E a \in Admins : AdminStep(a)) \/ Tick \/ UNCHANGED vars
    <3>1. eval' = eval
      BY <2>3 DEF AdminStep, AddPolicyFromToml, LoadFromDir, StartAdd, ParsePolicySource,
         ParseError, UpsertPolicy, StartRemove, DeletePolicy, InvalidateCache, AdminAborted,
         AdminDropped, Tick, vars
    <3> QED
      BY <3>1 DEF DecidedHere
  <2> QED
    BY <2>1, <2>2, <2>3 DEF Next
<1> QED
  BY <1>2, <1>3, TypingCorrect, PTL DEF Spec

(* Whatever path the policies took, evaluate answers what the reference    *)
(* answers on a committed table, one that is as new as every write that    *)
(* had returned when the call began unless a statement raced a load.       *)
THEOREM DecisionsMeetReference == Spec => []DecisionMeetsReference
<1>1. Typing /\ CacheInv /\ DecidedHere => DecisionMeetsReference
  <2> SUFFICES ASSUME Typing, CacheInv, DecidedHere,
                      NEW e \in Evaluators, eval[e].pc = "done"
               PROVE  \E v \in DOMAIN history :
                        /\ Range(eval[e].snap) = EnabledRows(history[v])
                        /\ ~raced => v >= eval[e].start
                        /\ eval[e].out \in ReferenceDecisions(history[v], eval[e].ctx)
    BY DEF DecisionMeetsReference
  <2>1. history \in Seq(Rows)
    BY DEF Typing, TypeOK, Rows
  <2>2. PICK v \in DOMAIN history :
          (~raced => v >= eval[e].start) /\ eval[e].snap \in Listings(history[v])
    BY DEF CacheInv, CommittedSnapshots, Coherent, Fresh, ListedSince
  <2>3. history[v] \in Rows
    BY <2>1
  <2>4. Range(eval[e].snap) = EnabledRows(history[v])
    BY <2>2, <2>3, ListingsPermute
  <2>5. Decide(eval[e].snap, eval[e].ctx) \in ReferenceDecisions(history[v], eval[e].ctx)
    BY <2>2, <2>3, DecideMeetsReference
  <2> QED
    BY <2>2, <2>4, <2>5 DEF DecidedHere
<1> QED
  BY <1>1, TypingCorrect, CacheCorrect, DecidedCorrect, PTL

=============================================================================
