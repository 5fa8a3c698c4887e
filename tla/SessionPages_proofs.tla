------------------------ MODULE SessionPages_proofs ------------------------
(***************************************************************************)
(* Proofs about list_active_sessions in module Sessions, for any number of *)
(* sessions, clients and walkers and every page size: a walk through the   *)
(* pages misses nothing unless a session leaves the list between two pages *)
(* and repeats nothing unless one joins it.                                *)
(***************************************************************************)
EXTENDS Sessions_proofs, FiniteSetTheorems

-----------------------------------------------------------------------------
(* The order of the list.                                                  *)

(* Every row was inserted once.                                            *)
ListInv ==
  /\ created \in Seq(SessionIds)
  /\ \A i, j \in DOMAIN created : created[i] = created[j] => i = j
  /\ Range(created) = Known

(* created_at and the order of insertion order the rows totally.           *)
LEMMA ListedOrder ==
  ASSUME TokenTypes, ListInv, NEW x \in Known, NEW y \in Known
  PROVE  /\ ~ListedBefore(x, x)
         /\ x # y => ListedBefore(x, y) \/ ListedBefore(y, x)
         /\ \A z \in Known : ListedBefore(x, y) /\ ListedBefore(y, z) => ListedBefore(x, z)
<1>1. \A s \in Known : sessions[s].made \in Int
  BY SessionConstants DEF SessionConstants, TokenTypes, Known, Row
<1>2. /\ DOMAIN created \subseteq Int
      /\ \A i, j \in DOMAIN created : created[i] = created[j] => i = j
      /\ \A s \in Known : \E i \in DOMAIN created : created[i] = s
  BY DEF ListInv, Range
<1>3. ~InsertedBefore(x, x)
  BY <1>2 DEF InsertedBefore
<1>4. x # y => InsertedBefore(x, y) \/ InsertedBefore(y, x)
  BY <1>2 DEF InsertedBefore
<1>5. \A z \in Known : InsertedBefore(x, y) /\ InsertedBefore(y, z) => InsertedBefore(x, z)
  BY <1>2 DEF InsertedBefore
<1> QED BY <1>1, <1>3, <1>4, <1>5 DEF ListedBefore

(* Places are numbers; more rows mean later places.                        *)
LEMMA PlaceGrows ==
  ASSUME NEW S \in SUBSET SessionIds, NEW T \in SUBSET S, NEW s
  PROVE  /\ Place(S, s) \in Nat /\ Place(T, s) \in Nat
         /\ Place(T, s) <= Place(S, s)
<1> DEFINE A == {x \in S : ListedBefore(x, s)}
           B == {x \in T : ListedBefore(x, s)}
<1>1. IsFiniteSet(A) /\ B \subseteq A
  BY SessionConstants, FS_Subset DEF SessionConstants
<1>2. IsFiniteSet(B) /\ Cardinality(B) <= Cardinality(A)
  BY <1>1, FS_Subset
<1>3. Cardinality(A) \in Nat /\ Cardinality(B) \in Nat
  BY <1>1, <1>2, FS_CardinalityType
<1> QED BY <1>2, <1>3 DEF Place

(* Places follow the order, and stay below the number of rows.             *)
LEMMA PlaceOrder ==
  ASSUME TokenTypes, ListInv, NEW S \in SUBSET Known, NEW s \in S
  PROVE  /\ Place(S, s) \in Nat /\ Place(S, s) < Cardinality(S) /\ Cardinality(S) \in Nat
         /\ \A r \in S : r # s => Place(S, r) # Place(S, s)
<1>1. Known \in SUBSET SessionIds /\ IsFiniteSet(S) /\ Cardinality(S) \in Nat
  BY SessionConstants, FS_Subset, FS_CardinalityType DEF SessionConstants, Known
<1>2. ASSUME NEW A \in SUBSET S, NEW B \in SUBSET A, NEW r \in A, r \notin B
      PROVE  /\ Cardinality(A) \in Nat /\ Cardinality(B) \in Nat
             /\ Cardinality(B) < Cardinality(A)
  <2>1. IsFiniteSet(A) /\ IsFiniteSet(B) /\ B # A
    BY <1>1, <1>2, FS_Subset
  <2>2. Cardinality(A) \in Nat /\ Cardinality(B) \in Nat
    BY <2>1, FS_CardinalityType
  <2>3. Cardinality(B) <= Cardinality(A) /\ (Cardinality(B) = Cardinality(A) => B = A)
    BY <2>1, FS_Subset
  <2> QED BY <2>1, <2>2, <2>3
<1>3. Place(S, s) \in Nat /\ Place(S, s) < Cardinality(S)
  <2> DEFINE B == {x \in S : ListedBefore(x, s)}
  <2>1. s \notin B /\ B \subseteq S
    BY ListedOrder
  <2> HIDE DEF B
  <2>2. Cardinality(B) \in Nat /\ Cardinality(B) < Cardinality(S)
    BY <1>2, <2>1
  <2> QED BY <2>2 DEF Place, B
<1>4. ASSUME NEW r \in S, NEW q \in S, ListedBefore(r, q) PROVE Place(S, r) # Place(S, q)
  <2> DEFINE A == {x \in S : ListedBefore(x, q)}
             B == {x \in S : ListedBefore(x, r)}
  <2>1. B \subseteq A /\ r \in A /\ r \notin B
    BY <1>4, ListedOrder
  <2>2. A \subseteq S
    OBVIOUS
  <2> HIDE DEF A, B
  <2>3. /\ Cardinality(A) \in Nat /\ Cardinality(B) \in Nat
        /\ Cardinality(B) < Cardinality(A)
    BY <1>2, <2>1, <2>2
  <2>4. Cardinality(B) # Cardinality(A)
    BY <2>3
  <2> QED BY <2>4 DEF Place, A, B
<1>5. ASSUME NEW r \in S, r # s PROVE Place(S, r) # Place(S, s)
  <2>1. ListedBefore(r, s) \/ ListedBefore(s, r)
    BY <1>5, ListedOrder
  <2> QED BY <1>4, <2>1
<1> QED BY <1>1, <1>3, <1>5

(* A page that is not the last one is full.                                *)
LEMMA PageFull ==
  ASSUME TokenTypes, ListInv, NEW S \in SUBSET Known, NEW s \in S,
         NEW offset \in Nat, NEW limit \in Nat, offset + limit <= Place(S, s)
  PROVE  Cardinality({x \in S : offset <= Place(S, x) /\ Place(S, x) < offset + limit}) = limit
<1> DEFINE n == Cardinality(S)
           F == [x \in S |-> Place(S, x)]
           I == {x \in S : offset <= Place(S, x) /\ Place(S, x) < offset + limit}
           D == offset .. (offset + limit - 1)
           G == [x \in I |-> Place(S, x)]
<1>1. IsFiniteSet(S) /\ n \in Nat
  BY SessionConstants, FS_Subset, FS_CardinalityType DEF SessionConstants, Known
<1>2. \A x \in S : Place(S, x) \in 0 .. (n - 1)
  BY <1>1, PlaceOrder
<1>3. \A x, y \in S : Place(S, x) = Place(S, y) => x = y
  BY PlaceOrder
<1>4. F \in Injection(S, 0 .. (n - 1))
  BY <1>2, <1>3 DEF Injection, IsInjective
<1>5. IsFiniteSet(0 .. (n - 1)) /\ Cardinality(0 .. (n - 1)) = n
  <2>1. Cardinality(0 .. (n - 1)) = IF 0 > n - 1 THEN 0 ELSE n - 1 - 0 + 1
    BY <1>1, FS_Interval
  <2>2. IsFiniteSet(0 .. (n - 1))
    BY <1>1, FS_Interval
  <2> HIDE DEF n
  <2> QED BY <1>1, <2>1, <2>2
<1>6. F \in Surjection(S, 0 .. (n - 1))
  BY <1>4, <1>5, FS_Injection
<1>7. \A k \in 0 .. (n - 1) : \E x \in S : Place(S, x) = k
  BY <1>6 DEF Surjection
<1>8. IsFiniteSet(D) /\ Cardinality(D) = limit
  <2>1. Cardinality(D) = IF offset > offset + limit - 1 THEN 0 ELSE offset + limit - 1 - offset + 1
    BY FS_Interval
  <2>2. IsFiniteSet(D)
    BY FS_Interval
  <2> HIDE DEF D
  <2> QED BY <2>1, <2>2
<1>9. D \subseteq 0 .. (n - 1)
  <2>1. Place(S, s) \in 0 .. (n - 1)
    BY <1>2
  <2> HIDE DEF n
  <2> QED BY <1>1, <2>1
<1>10. G \in Injection(I, D)
  <2>1. \A x \in I : Place(S, x) \in D
    BY <1>2
  <2> QED BY <1>3, <2>1 DEF Injection, IsInjective
<1>11. G \in Surjection(I, D)
  <2>1. ASSUME NEW k \in D PROVE \E x \in I : G[x] = k
    <3>1. PICK x \in S : Place(S, x) = k
      BY <1>7, <1>9
    <3>2. x \in I
      BY <3>1
    <3> QED BY <3>1, <3>2
  <2> QED BY <1>10, <2>1 DEF Surjection, Injection
<1> HIDE DEF I, D, G
<1>12. Cardinality(I) = Cardinality(D)
  BY <1>8, <1>10, <1>11, FS_Injection
<1> QED BY <1>8, <1>12 DEF I

-----------------------------------------------------------------------------
(* The list over time.                                                     *)

(* The order of the list as a relation, and places in it.                  *)
Listing == {p \in Known \X Known : ListedBefore(p[1], p[2])}

PlaceIn(R, S, s) == Cardinality({x \in S : <<x, s>> \in R})

(* For the rows of the table it is the place in the list.                  *)
LEMMA PlaceByListing ==
  ASSUME NEW S \in SUBSET Known, NEW s \in Known
  PROVE  PlaceIn(Listing, S, s) = Place(S, s)
<1>1. {x \in S : <<x, s>> \in Listing} = {x \in S : ListedBefore(x, s)}
  BY DEF Listing
<1> QED BY <1>1 DEF PlaceIn, Place

(* The INSERT appends one row; what was listed keeps its order.            *)
LEMMA InsertKeepsOrder ==
  ASSUME TokenInv, ListInv, NEW c \in Clients, InsertSession(c)
  PROVE  /\ ListInv' /\ Known \subseteq Known'
         /\ \A x, y \in Known : <<x, y>> \in Listing' <=> <<x, y>> \in Listing
<1> DEFINE sid == call[c].sid
           n == Len(created)
<1>1. TokenTypes /\ IdsFresh
  BY DEF TokenInv
<1>2. /\ sid \in SessionIds \ Known /\ call[c].row # NoSession
      /\ created' = Append(created, sid)
      /\ sessions' = [sessions EXCEPT ![sid] = call[c].row]
  BY <1>1 DEF InsertSession, IdsFresh
<1>3. /\ Known' = Known \cup {sid}
      /\ \A s \in Known : sessions'[s] = sessions[s]
  BY <1>1, <1>2 DEF Known, TokenTypes
<1>4. /\ created \in Seq(SessionIds) /\ n \in Nat /\ DOMAIN created = 1..n
      /\ \A i, j \in 1..n : created[i] = created[j] => i = j
      /\ Known = {created[i] : i \in 1..n}
  BY DEF ListInv, Range
<1> HIDE DEF sid
<1>5. /\ created' \in Seq(SessionIds) /\ DOMAIN created' = 1 .. (n + 1)
      /\ created'[n + 1] = sid
      /\ \A i \in 1..n : created'[i] = created[i]
  BY <1>2, <1>4
<1> HIDE DEF n
<1>6. \A i \in 1..n : created[i] # sid
  BY <1>2, <1>4
<1>7. \A i, j \in 1 .. (n + 1) : created'[i] = created'[j] => i = j
  BY <1>4, <1>5, <1>6
<1>8. {created'[i] : i \in 1 .. (n + 1)} = Known'
  <2>1. \A k \in 1 .. (n + 1) : k \in 1..n \/ k = n + 1
    BY <1>4
  <2>2. 1..n \subseteq 1 .. (n + 1) /\ n + 1 \in 1 .. (n + 1)
    BY <1>4
  <2>3. ASSUME NEW z \in {created'[i] : i \in 1 .. (n + 1)} PROVE z \in Known'
    BY <1>3, <1>4, <1>5, <2>1, <2>3
  <2>4. ASSUME NEW z \in Known' PROVE z \in {created'[i] : i \in 1 .. (n + 1)}
    BY <1>3, <1>4, <1>5, <2>2, <2>4
  <2> QED BY <2>3, <2>4
<1>9. ListInv'
  BY <1>5, <1>7, <1>8 DEF ListInv, Range
<1>10. ASSUME NEW x \in Known, NEW y \in Known
       PROVE  InsertedBefore(x, y)' <=> InsertedBefore(x, y)
  <2>1. x # sid /\ y # sid
    BY <1>2
  <2>2. \A k \in 1 .. (n + 1) : k \in 1..n \/ k = n + 1
    BY <1>4
  <2>3. 1..n \subseteq 1 .. (n + 1)
    BY <1>4
  <2> QED BY <1>4, <1>5, <2>1, <2>2, <2>3 DEF InsertedBefore
<1>11. \A x, y \in Known : ListedBefore(x, y)' <=> ListedBefore(x, y)
  BY <1>3, <1>10 DEF ListedBefore
<1> QED BY <1>3, <1>9, <1>11 DEF Listing

(* The UPDATE keeps the rows, their times and their order.                 *)
LEMMA UpdateKeepsOrder ==
  ASSUME TokenInv, ListInv, NEW c \in Clients, UpdateRevoked(c)
  PROVE  /\ ListInv' /\ Known \subseteq Known'
         /\ \A x, y \in Known : <<x, y>> \in Listing' <=> <<x, y>> \in Listing
<1>1. TokenTypes /\ Whole
  BY ByCall DEF TokenInv
<1> DEFINE sid == call[c].sid
<1>2. /\ created' = created
      /\ sessions' = [s \in SessionIds |->
           IF s = sid THEN [sessions[s] EXCEPT !.revoked = TRUE] ELSE sessions[s]]
  BY DEF UpdateRevoked
<1>3. sid # NoSession => sid \in Known
  BY <1>1 DEF UpdateRevoked, Whole, CallInv
<1> HIDE DEF sid
<1>4. ASSUME NEW s \in SessionIds
      PROVE  /\ (sessions'[s] = NoSession) <=> (sessions[s] = NoSession)
             /\ s \in Known => sessions'[s].made = sessions[s].made
  <2>1. CASE s = sid
    <3>1. s \in Known /\ sessions[s] \in Row /\ sessions[s] # NoSession
      BY <1>1, <1>3, <2>1, SessionConstants DEF Known, TokenTypes, SessionConstants
    <3>2. sessions'[s] = [sessions[s] EXCEPT !.revoked = TRUE]
      BY <1>2, <2>1
    <3>3. sessions'[s] \in Row /\ sessions'[s].made = sessions[s].made
      BY <3>1, <3>2 DEF Row
    <3> QED BY <3>1, <3>3, NoSessionIsNoRow
  <2>2. CASE s # sid
    BY <1>2, <2>2
  <2> QED BY <2>1, <2>2
<1>5. Known' = Known
  BY <1>4 DEF Known
<1>6. ListInv'
  BY <1>2, <1>5 DEF ListInv
<1>7. \A x, y \in Known : InsertedBefore(x, y)' <=> InsertedBefore(x, y)
  BY <1>2 DEF InsertedBefore
<1>8. \A s \in Known : sessions'[s].made = sessions[s].made
  BY <1>4 DEF Known
<1>9. \A x, y \in Known : ListedBefore(x, y)' <=> ListedBefore(x, y)
  BY <1>7, <1>8 DEF ListedBefore
<1> QED BY <1>5, <1>6, <1>9 DEF Listing

(* No step takes a row away or changes the order of two rows.              *)
LEMMA OrderKept ==
  ASSUME TokenInv, ListInv, [Next]_vars
  PROVE  /\ ListInv' /\ Known \subseteq Known'
         /\ \A x, y \in Known : <<x, y>> \in Listing' <=> <<x, y>> \in Listing
<1>1. CASE \E c \in Clients : InsertSession(c)
  BY <1>1, InsertKeepsOrder
<1>2. CASE \E c \in Clients : UpdateRevoked(c)
  BY <1>2, UpdateKeepsOrder
<1>3. CASE UNCHANGED <<sessions, created>>
  <2>1. Known' = Known
    BY <1>3 DEF Known
  <2>2. ListInv'
    BY <1>3, <2>1 DEF ListInv
  <2>3. \A x, y \in Known : ListedBefore(x, y)' <=> ListedBefore(x, y)
    BY <1>3 DEF ListedBefore, InsertedBefore
  <2> QED BY <2>1, <2>2, <2>3 DEF Listing
<1>4. ASSUME NEW c \in Clients, ClientStep(c)
      PROVE  InsertSession(c) \/ UpdateRevoked(c) \/ UNCHANGED <<sessions, created>>
  BY <1>4 DEF ClientStep, CreateSession, ValidateSession, AssertSessionActive, StartCheck,
              DecodeToken, ReadRow, CheckRow, RevokeSession, Return, CallAborted
<1>5. ASSUME NEW w \in Walkers, WalkStep(w) PROVE UNCHANGED <<sessions, created>>
  BY <1>5 DEF WalkStep, StartWalk, ListActiveSessions, EndWalk
<1> QED BY <1>1, <1>2, <1>3, <1>4, <1>5 DEF Next, Tick, vars

-----------------------------------------------------------------------------
(* The invariant of a walk.                                                *)

Shown(v) == UNION Range(v.pages)

(* Unless a session has left: what was active at the start still is, and   *)
(* what stood before the next page has been shown.                         *)
NothingMissed(v, R) == ~v.left =>
  /\ v.first \subseteq v.last
  /\ v.pc = "page" => \A s \in v.first : PlaceIn(R, v.last, s) < v.offset => s \in Shown(v)
  /\ v.pc = "end" => v.first \subseteq Shown(v)

(* Unless a session has joined: no two pages overlap, and what has been    *)
(* shown and is still listed stands before the next page.                  *)
NothingRepeated(v, R) == ~v.joined =>
  /\ \A i, j \in DOMAIN v.pages : i # j => v.pages[i] \cap v.pages[j] = {}
  /\ v.pc = "page" => \A s \in Shown(v) \cap v.last : PlaceIn(R, v.last, s) < v.offset

(* A walk over the rows of K, listed in the order R.                       *)
WalkOK(v, R, K) ==
  /\ v \in WalkType
  /\ v.first \subseteq K /\ v.last \subseteq K
  /\ NothingMissed(v, R)
  /\ NothingRepeated(v, R)

PageInv ==
  /\ ListInv
  /\ walk \in [Walkers -> WalkType]
  /\ \A w \in Walkers : WalkOK(walk[w], Listing, Known)

(* The set shown, when one page more is listed.                            *)
LEMMA OnePageMore ==
  ASSUME NEW p \in Seq(SUBSET SessionIds), NEW x \in SUBSET SessionIds
  PROVE  /\ Append(p, x) \in Seq(SUBSET SessionIds)
         /\ UNION Range(Append(p, x)) = (UNION Range(p)) \cup x
<1> DEFINE n == Len(p)
           q == Append(p, x)
<1>1. /\ n \in Nat /\ DOMAIN p = 1..n /\ q \in Seq(SUBSET SessionIds)
      /\ DOMAIN q = 1 .. (n + 1) /\ q[n + 1] = x
      /\ \A i \in 1..n : q[i] = p[i]
  OBVIOUS
<1> HIDE DEF n, q
<1>2. \A k \in 1 .. (n + 1) : k \in 1..n \/ k = n + 1
  BY <1>1
<1>3. 1..n \subseteq 1 .. (n + 1) /\ n + 1 \in 1 .. (n + 1)
  BY <1>1
<1>4. Range(p) = {p[i] : i \in 1..n} /\ Range(q) = {q[i] : i \in 1 .. (n + 1)}
  BY <1>1 DEF Range
<1>5. Range(q) = Range(p) \cup {x}
  <2>1. ASSUME NEW z \in Range(q) PROVE z \in Range(p) \cup {x}
    BY <1>1, <1>2, <1>4, <2>1
  <2>2. ASSUME NEW z \in Range(p) \cup {x} PROVE z \in Range(q)
    BY <1>1, <1>3, <1>4, <2>2
  <2> QED BY <2>1, <2>2
<1>6. UNION Range(q) = (UNION Range(p)) \cup x
  BY <1>5
<1> QED BY <1>1, <1>6 DEF q

(* Pages that do not overlap, and one more that overlaps none of them.     *)
LEMMA PagesApart ==
  ASSUME NEW p \in Seq(SUBSET SessionIds), NEW x \in SUBSET SessionIds,
         \A i, j \in DOMAIN p : i # j => p[i] \cap p[j] = {},
         x \cap UNION Range(p) = {}
  PROVE  \A i, j \in DOMAIN Append(p, x) :
           i # j => Append(p, x)[i] \cap Append(p, x)[j] = {}
<1> DEFINE n == Len(p)
           q == Append(p, x)
<1>1. /\ n \in Nat /\ DOMAIN p = 1..n /\ DOMAIN q = 1 .. (n + 1) /\ q[n + 1] = x
      /\ \A i \in 1..n : q[i] = p[i]
  OBVIOUS
<1> HIDE DEF n, q
<1>2. \A k \in 1 .. (n + 1) : k \in 1..n \/ k = n + 1
  BY <1>1
<1>3. \A k \in 1..n : p[k] \cap x = {} /\ x \cap p[k] = {}
  <2>1. Range(p) = {p[i] : i \in 1..n}
    BY <1>1 DEF Range
  <2> QED BY <2>1
<1>4. ASSUME NEW i \in DOMAIN q, NEW j \in DOMAIN q, i # j
      PROVE  q[i] \cap q[j] = {}
  <2>1. CASE i \in 1..n /\ j \in 1..n
    BY <1>1, <1>4, <2>1
  <2>2. CASE i = n + 1 /\ j \in 1..n
    BY <1>1, <1>3, <2>2
  <2>3. CASE j = n + 1 /\ i \in 1..n
    BY <1>1, <1>3, <2>3
  <2> QED BY <1>1, <1>2, <1>4, <2>1, <2>2, <2>3
<1> QED BY <1>4 DEF q

(* A walk that does not move stays good while the list only gains.         *)
LEMMA WalkKept ==
  ASSUME NEW v, NEW R, NEW K, NEW R2, NEW K2, K \subseteq K2,
         \A x, y \in K : <<x, y>> \in R2 <=> <<x, y>> \in R,
         WalkOK(v, R, K)
  PROVE  WalkOK(v, R2, K2)
<1>1. v.first \subseteq K /\ v.last \subseteq K
  BY DEF WalkOK
<1>2. \A s \in K : PlaceIn(R2, v.last, s) = PlaceIn(R, v.last, s)
  <2>1. ASSUME NEW s \in K
        PROVE  {x \in v.last : <<x, s>> \in R2} = {x \in v.last : <<x, s>> \in R}
    BY <1>1
  <2> QED BY <2>1 DEF PlaceIn
<1>3. NothingMissed(v, R2)
  BY <1>1, <1>2 DEF WalkOK, NothingMissed
<1>4. NothingRepeated(v, R2)
  BY <1>1, <1>2 DEF WalkOK, NothingRepeated
<1> QED BY <1>1, <1>3, <1>4 DEF WalkOK

(* A walk at rest.                                                         *)
LEMMA IdleWalk ==
  ASSUME NEW R, NEW K
  PROVE  WalkIdle \in WalkType /\ WalkOK(WalkIdle, R, K)
<1>1. /\ WalkIdle.pc = "idle" /\ WalkIdle.pages = <<>> /\ WalkIdle.first = {}
      /\ WalkIdle.last = {}
  BY DEF WalkIdle
<1>2. WalkIdle \in WalkType
  BY DEF WalkIdle, WalkType
<1> QED BY <1>1, <1>2 DEF WalkOK, NothingMissed, NothingRepeated

(* A walk at its start.                                                    *)
LEMMA WalkStarts ==
  ASSUME NEW R, NEW K \in SUBSET SessionIds, NEW A \in SUBSET K, NEW limit \in Limits
  PROVE  LET u == [WalkIdle EXCEPT !.pc = "page", !.limit = limit, !.first = A, !.last = A]
         IN  u \in WalkType /\ WalkOK(u, R, K)
<1> DEFINE u == [WalkIdle EXCEPT !.pc = "page", !.limit = limit, !.first = A, !.last = A]
<1>1. limit \in Nat /\ A \in SUBSET SessionIds
  BY SessionConstants DEF SessionConstants
<1>2. u \in WalkType
  <2>1. u \in [pc : {"idle", "page", "end"}, limit : Nat, offset : Nat,
               pages : Seq(SUBSET SessionIds), first : SUBSET SessionIds,
               last : SUBSET SessionIds, joined : BOOLEAN, left : BOOLEAN]
    <3>1. WalkIdle \in WalkType
      BY IdleWalk
    <3> QED BY <1>1, <3>1 DEF WalkType
  <2> QED BY <2>1 DEF WalkType
<1>3. /\ u.pc = "page" /\ u.pages = <<>> /\ u.first = A /\ u.last = A /\ u.offset = 0
  BY DEF WalkIdle
<1> HIDE DEF u
<1>4. \A s : ~(PlaceIn(R, A, s) < 0)
  <2>1. ASSUME NEW s PROVE PlaceIn(R, A, s) \in Nat
    <3> DEFINE B == {x \in A : <<x, s>> \in R}
    <3>1. IsFiniteSet(B)
      BY SessionConstants, FS_Subset DEF SessionConstants
    <3> QED BY <3>1, FS_CardinalityType DEF PlaceIn
  <2> QED BY <2>1
<1>5. DOMAIN u.pages = {} /\ Shown(u) = {}
  BY <1>3 DEF Shown, Range
<1>6. NothingMissed(u, R)
  BY <1>3, <1>4 DEF NothingMissed
<1>7. NothingRepeated(u, R)
  BY <1>3, <1>5 DEF NothingRepeated
<1> QED BY <1>2, <1>3, <1>6, <1>7 DEF WalkOK, u

(* One page more: whatever joined or left the list since the page before.  *)
LEMMA PageListed ==
  ASSUME TokenTypes, ListInv, NEW v, WalkOK(v, Listing, Known), v.pc = "page",
         NEW items, items = Page(v.offset, v.limit),
         NEW pc, NEW offset, NEW joined \in BOOLEAN, NEW left \in BOOLEAN,
         IF Cardinality(items) = v.limit
         THEN pc = "page" /\ offset = v.offset + v.limit
         ELSE pc = "end" /\ offset = v.offset,
         ~joined => ~v.joined /\ ActiveSet \subseteq v.last,
         ~left => ~v.left /\ v.last \subseteq ActiveSet
  PROVE  LET u == [v EXCEPT !.pc = pc, !.offset = offset, !.pages = Append(v.pages, items),
                            !.last = ActiveSet, !.joined = joined, !.left = left]
         IN  u \in WalkType /\ WalkOK(u, Listing, Known)
<1> DEFINE A == ActiveSet
           u == [v EXCEPT !.pc = pc, !.offset = offset, !.pages = Append(v.pages, items),
                          !.last = A, !.joined = joined, !.left = left]
           old == UNION Range(v.pages)
           end == v.offset + v.limit
<1>1. /\ v \in WalkType /\ v.first \subseteq Known /\ v.last \subseteq Known
      /\ NothingMissed(v, Listing) /\ NothingRepeated(v, Listing)
  BY DEF WalkOK
<1>2. /\ v.limit \in Nat /\ v.offset \in Nat /\ v.pages \in Seq(SUBSET SessionIds)
      /\ v.joined \in BOOLEAN /\ v.left \in BOOLEAN
  BY <1>1 DEF WalkType
<1>3. A \in SUBSET Known /\ Known \in SUBSET SessionIds
  BY DEF ActiveSet, Known
<1>4. /\ items = {s \in A : v.offset <= Place(A, s) /\ Place(A, s) < end}
  BY DEF Page
<1>5. items \subseteq A /\ items \in SUBSET SessionIds
  BY <1>3, <1>4
<1>6. pc \in {"page", "end"} /\ offset \in Nat
  BY <1>2
<1> HIDE DEF A
<1>7. Append(v.pages, items) \in Seq(SUBSET SessionIds)
  BY <1>2, <1>5, OnePageMore
<1>8. u \in WalkType
  BY <1>1, <1>3, <1>6, <1>7 DEF WalkType
<1>9. /\ u.pc = pc /\ u.offset = offset /\ u.pages = Append(v.pages, items)
      /\ u.last = A /\ u.joined = joined /\ u.left = left /\ u.first = v.first
  BY <1>1 DEF WalkType
<1> HIDE DEF u
<1>10. Shown(u) = old \cup items
  BY <1>2, <1>5, <1>9, OnePageMore DEF Shown
<1> HIDE DEF old
<1>11. \A s \in Known : /\ PlaceIn(Listing, A, s) = Place(A, s)
                        /\ PlaceIn(Listing, v.last, s) = Place(v.last, s)
                        /\ Place(A, s) \in Nat /\ Place(v.last, s) \in Nat
  BY <1>1, <1>3, PlaceByListing, PlaceGrows
<1>12. NothingMissed(u, Listing)
  <2> SUFFICES ASSUME ~left
               PROVE  /\ v.first \subseteq A
                      /\ pc = "page" => \A s \in v.first :
                            PlaceIn(Listing, A, s) < offset => s \in old \cup items
                      /\ pc = "end" => v.first \subseteq old \cup items
    BY <1>9, <1>10 DEF NothingMissed
  <2>1. /\ ~v.left /\ v.last \subseteq A
        /\ v.first \subseteq v.last
        /\ \A s \in v.first : PlaceIn(Listing, v.last, s) < v.offset => s \in old
    BY <1>1 DEF NothingMissed, Shown, A, old
  <2>2. ASSUME NEW s \in v.first, Place(A, s) < end PROVE s \in old \cup items
    <3>1. s \in A /\ s \in Known /\ Place(v.last, s) <= Place(A, s)
      BY <1>1, <1>3, <2>1, PlaceGrows
    <3>2. CASE Place(v.last, s) < v.offset
      BY <1>11, <2>1, <3>1, <3>2
    <3>3. CASE ~(Place(v.last, s) < v.offset)
      <4>1. v.offset <= Place(A, s)
        BY <1>2, <1>11, <3>1, <3>3
      <4> QED BY <1>4, <2>2, <3>1, <4>1
    <3> QED BY <3>2, <3>3
  <2>3. ASSUME pc = "end", NEW s \in v.first PROVE Place(A, s) < end
    <3>1. Cardinality(items) # v.limit
      BY <2>3
    <3>2. s \in A /\ s \in Known
      BY <1>3, <2>1
    <3>3. ~(end <= Place(A, s))
      BY <1>2, <1>3, <1>4, <3>1, <3>2, PageFull
    <3> QED BY <1>2, <1>11, <3>2, <3>3
  <2>4. pc = "page" => offset = end
    OBVIOUS
  <2> QED BY <1>1, <1>11, <2>1, <2>2, <2>3, <2>4
<1>13. NothingRepeated(u, Listing)
  <2> SUFFICES ASSUME ~joined
               PROVE  /\ \A i, j \in DOMAIN u.pages : i # j => u.pages[i] \cap u.pages[j] = {}
                      /\ pc = "page" => \A s \in (old \cup items) \cap A :
                            PlaceIn(Listing, A, s) < offset
    BY <1>9, <1>10 DEF NothingRepeated
  <2>1. /\ ~v.joined /\ A \subseteq v.last
        /\ \A i, j \in DOMAIN v.pages : i # j => v.pages[i] \cap v.pages[j] = {}
        /\ \A s \in old \cap v.last : PlaceIn(Listing, v.last, s) < v.offset
    BY <1>1 DEF NothingRepeated, Shown, A, old
  <2>2. ASSUME NEW s \in old \cap A PROVE s \in Known /\ Place(A, s) < v.offset
    <3>1. s \in Known /\ Place(A, s) <= Place(v.last, s)
      BY <1>1, <1>3, <2>1, PlaceGrows
    <3>2. Place(v.last, s) < v.offset
      BY <1>11, <2>1, <3>1
    <3> QED BY <1>2, <1>11, <3>1, <3>2
  <2>3. items \cap old = {}
    <3> SUFFICES ASSUME NEW s \in items, s \in old PROVE FALSE
      OBVIOUS
    <3>1. s \in old \cap A /\ v.offset <= Place(A, s)
      BY <1>4
    <3>2. s \in Known /\ Place(A, s) < v.offset
      BY <2>2, <3>1
    <3> QED BY <1>2, <1>11, <3>1, <3>2
  <2>4. \A i, j \in DOMAIN u.pages : i # j => u.pages[i] \cap u.pages[j] = {}
    <3>1. items \cap UNION Range(v.pages) = {}
      BY <2>3 DEF old
    <3>2. \A i, j \in DOMAIN Append(v.pages, items) :
            i # j => Append(v.pages, items)[i] \cap Append(v.pages, items)[j] = {}
      BY <1>2, <1>5, <2>1, <3>1, PagesApart
    <3> QED BY <1>9, <3>2
  <2>5. ASSUME pc = "page", NEW s \in (old \cup items) \cap A
        PROVE  PlaceIn(Listing, A, s) < offset
    <3>1. offset = end /\ s \in Known
      BY <1>3, <2>5
    <3>2. CASE s \in old
      <4>1. Place(A, s) < v.offset
        BY <2>2, <3>2
      <4> QED BY <1>2, <1>11, <3>1, <4>1
    <3>3. CASE s \in items
      <4>1. Place(A, s) < end
        BY <1>4, <3>3
      <4> QED BY <1>11, <3>1, <4>1
    <3> QED BY <3>2, <3>3
  <2> QED BY <2>4, <2>5
<1>14. WalkOK(u, Listing, Known)
  BY <1>1, <1>3, <1>8, <1>9, <1>12, <1>13 DEF WalkOK
<1> QED BY <1>8, <1>14 DEF u, A

-----------------------------------------------------------------------------
(* The steps of the walkers.                                               *)

(* Both notes of a page are Boolean values.                                *)
LEMMA ListingStep ==
  ASSUME TokenTypes, PageInv, NEW w \in Walkers, ListActiveSessions(w)
  PROVE  \E u \in WalkType : walk' = [walk EXCEPT ![w] = u] /\ WalkOK(u, Listing, Known)
<1>1. PICK v : v = walk[w]
  OBVIOUS
<1>2. WalkOK(v, Listing, Known) /\ ListInv
  BY <1>1 DEF PageInv
<1>3. v.limit \in Nat /\ v.offset \in Nat /\ v.joined \in BOOLEAN /\ v.left \in BOOLEAN
  BY <1>2 DEF WalkOK, WalkType
<1>4. PICK items : items = Page(v.offset, v.limit)
  OBVIOUS
<1>5. PICK joined \in BOOLEAN : joined = (v.joined \/ ~(ActiveSet \subseteq v.last))
  <2>1. CASE v.joined \/ ~(ActiveSet \subseteq v.last)
    <3>1. TRUE = (v.joined \/ ~(ActiveSet \subseteq v.last))
      BY <2>1, Zenon
    <3> QED BY <3>1, Zenon
  <2>2. CASE ~(v.joined \/ ~(ActiveSet \subseteq v.last))
    <3>1. FALSE = (v.joined \/ ~(ActiveSet \subseteq v.last))
      BY <2>2, Zenon
    <3> QED BY <3>1, Zenon
  <2> QED BY <2>1, <2>2, Zenon
<1>6. PICK left \in BOOLEAN : left = (v.left \/ ~(v.last \subseteq ActiveSet))
  <2>1. CASE v.left \/ ~(v.last \subseteq ActiveSet)
    <3>1. TRUE = (v.left \/ ~(v.last \subseteq ActiveSet))
      BY <2>1, Zenon
    <3> QED BY <3>1, Zenon
  <2>2. CASE ~(v.left \/ ~(v.last \subseteq ActiveSet))
    <3>1. FALSE = (v.left \/ ~(v.last \subseteq ActiveSet))
      BY <2>2, Zenon
    <3> QED BY <3>1, Zenon
  <2> QED BY <2>1, <2>2, Zenon
<1> DEFINE full == Cardinality(items) = v.limit
<1>7. PICK pc : pc = IF full THEN "page" ELSE "end"
  OBVIOUS
<1>8. PICK offset : offset = IF full THEN v.offset + v.limit ELSE v.offset
  OBVIOUS
<1> DEFINE u == [v EXCEPT !.pc = pc, !.offset = offset, !.pages = Append(v.pages, items),
                          !.last = ActiveSet, !.joined = joined, !.left = left]
<1>9. v.pc = "page" /\ walk' = [walk EXCEPT ![w] = u]
  BY <1>1, <1>4, <1>5, <1>6, <1>7, <1>8, Zenon DEF ListActiveSessions, NextOffset
<1>10. u \in WalkType /\ WalkOK(u, Listing, Known)
  <2>1. IF Cardinality(items) = v.limit
        THEN pc = "page" /\ offset = v.offset + v.limit
        ELSE pc = "end" /\ offset = v.offset
    BY <1>7, <1>8
  <2>2. ~joined => ~v.joined /\ ActiveSet \subseteq v.last
    BY <1>5, Zenon
  <2>3. ~left => ~v.left /\ v.last \subseteq ActiveSet
    BY <1>6, Zenon
  <2> QED BY <1>2, <1>4, <1>9, <2>1, <2>2, <2>3, PageListed
<1> HIDE DEF u
<1> QED BY <1>9, <1>10

(* What each step of a walker makes of its walk.                           *)
LEMMA WalkerStep ==
  ASSUME TokenTypes, PageInv, NEW w \in Walkers, WalkStep(w)
  PROVE  \E u \in WalkType : walk' = [walk EXCEPT ![w] = u] /\ WalkOK(u, Listing, Known)
<1>1. CASE StartWalk(w)
  <2>1. PICK limit \in Limits :
          walk' = [walk EXCEPT ![w] =
            [WalkIdle EXCEPT !.pc = "page", !.limit = limit, !.first = ActiveSet,
                             !.last = ActiveSet]]
    BY <1>1 DEF StartWalk
  <2> DEFINE u == [WalkIdle EXCEPT !.pc = "page", !.limit = limit, !.first = ActiveSet,
                                   !.last = ActiveSet]
  <2>2. Known \in SUBSET SessionIds /\ ActiveSet \in SUBSET Known
    BY DEF Known, ActiveSet
  <2>3. u \in WalkType /\ WalkOK(u, Listing, Known)
    BY <2>2, WalkStarts
  <2> HIDE DEF u
  <2>4. walk' = [walk EXCEPT ![w] = u]
    BY <2>1 DEF u
  <2> QED BY <2>3, <2>4
<1>2. CASE ListActiveSessions(w)
  BY <1>2, ListingStep
<1>3. CASE EndWalk(w)
  <2>1. walk' = [walk EXCEPT ![w] = WalkIdle]
    BY <1>3 DEF EndWalk
  <2> QED BY <2>1, IdleWalk
<1> QED BY <1>1, <1>2, <1>3 DEF WalkStep

(* The invariant of the pages: every step of every actor keeps PageInv.    *)
LEMMA PageStep ==
  ASSUME TokenInv, PageInv, [Next]_vars
  PROVE  PageInv'
<1>1. TokenTypes /\ ListInv /\ walk \in [Walkers -> WalkType]
  BY DEF TokenInv, PageInv
<1>2. /\ ListInv' /\ Known \subseteq Known'
      /\ \A x, y \in Known : <<x, y>> \in Listing' <=> <<x, y>> \in Listing
  BY <1>1, OrderKept
<1>3. ASSUME NEW v, WalkOK(v, Listing, Known) PROVE WalkOK(v, Listing', Known')
  BY <1>2, <1>3, WalkKept
<1>4. \A w \in Walkers : WalkOK(walk[w], Listing, Known)
  BY DEF PageInv
<1>5. CASE walk' = walk
  <2>1. \A w \in Walkers : WalkOK(walk'[w], Listing', Known')
    BY <1>3, <1>4, <1>5
  <2> QED BY <1>1, <1>2, <1>5, <2>1 DEF PageInv
<1>6. ASSUME NEW w \in Walkers, WalkStep(w) PROVE PageInv'
  <2>1. PICK u \in WalkType : walk' = [walk EXCEPT ![w] = u] /\ WalkOK(u, Listing, Known)
    BY <1>1, <1>6, WalkerStep
  <2>2. \A x \in Walkers : walk'[x] = u \/ walk'[x] = walk[x]
    BY <1>1, <2>1
  <2>3. \A x \in Walkers : WalkOK(walk'[x], Listing', Known')
    BY <1>3, <1>4, <2>1, <2>2
  <2>4. walk' \in [Walkers -> WalkType]
    BY <1>1, <2>1
  <2> QED BY <1>2, <2>3, <2>4 DEF PageInv
<1>7. ASSUME NEW c \in Clients, ClientStep(c) PROVE walk' = walk
  BY <1>7 DEF ClientStep, CreateSession, InsertSession, ValidateSession,
              AssertSessionActive, StartCheck, DecodeToken, ReadRow, CheckRow,
              RevokeSession, UpdateRevoked, Return, CallAborted
<1> QED BY <1>5, <1>6, <1>7 DEF Next, Tick, vars

-----------------------------------------------------------------------------
(* The rows are inserted once each, and every walk through the pages of    *)
(* list_active_sessions keeps its invariant, whoever else is active.       *)
THEOREM PagesCorrect == Spec => []PageInv
<1>1. Init => PageInv
  <2> SUFFICES ASSUME Init PROVE PageInv
    OBVIOUS
  <2>1. created = <<>> /\ Known = {} /\ walk = [w \in Walkers |-> WalkIdle]
    BY DEF Init, Known
  <2>2. ListInv
    BY <2>1 DEF ListInv, Range
  <2>3. WalkIdle \in WalkType /\ WalkOK(WalkIdle, Listing, Known)
    BY IdleWalk
  <2> QED BY <2>1, <2>2, <2>3 DEF PageInv
<1>2. TokenInv /\ PageInv /\ [Next]_vars => PageInv'
  BY PageStep
<1> QED BY <1>1, <1>2, TokensCorrect, PTL DEF Spec

(* Rows, calls and walks keep their types: no ttl, not even a negative one *)
(* that is cast to an unsigned number and back, makes an expires_at out of *)
(* the range of the times the program works with.                          *)
THEOREM SessionTypes == Spec => []TypeOK
<1>1. TokenInv /\ PageInv => TypeOK
  BY DEF TokenInv, PageInv, ListInv, TypeOK
<1> QED BY <1>1, TokensCorrect, PagesCorrect, PTL

(* A walk through the pages that reaches the end without a session having  *)
(* been revoked or having expired between two pages has reported every     *)
(* session that was active at its start, whatever was created meanwhile.   *)
THEOREM NoSessionMissed == Spec => []WalkMissesNothing
<1>1. PageInv => WalkMissesNothing
  BY DEF PageInv, WalkOK, NothingMissed, Shown, WalkMissesNothing
<1> QED BY <1>1, PagesCorrect, PTL

(* A walk during which no session became active between two pages reports  *)
(* no session twice, whatever was revoked or expired meanwhile.            *)
THEOREM NoSessionRepeated == Spec => []WalkRepeatsNothing
<1>1. PageInv => WalkRepeatsNothing
  BY DEF PageInv, WalkOK, NothingRepeated, WalkRepeatsNothing
<1> QED BY <1>1, PagesCorrect, PTL

=============================================================================
