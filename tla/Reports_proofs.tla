--------------------------- MODULE Reports_proofs ---------------------------
(***************************************************************************)
(* Proofs about module Reports, for every audit log, request, length of a  *)
(* second and business day: what query_audit_log leaves out and in which   *)
(* order it reports, that compute_risk never ranks the more dangerous of   *)
(* two requests below the other, that what export_csv writes is read back  *)
(* as the record it was made from, and that matches_pattern matches within *)
(* the glob and where it misses.                                           *)
(***************************************************************************)
EXTENDS Reports, TLAPS, FiniteSetTheorems, WellFoundedInduction

-----------------------------------------------------------------------------
(* query_audit_log.                                                        *)

(* Multiplication by a natural number keeps the order.                     *)
LEMMA TimesKeepsOrder ==
  ASSUME NEW a \in Int, NEW b \in Int, NEW m \in Nat, a <= b
  PROVE  a * m <= b * m
OBVIOUS

(* Bounds in seconds against times in milliseconds.                        *)
LEMMA BoundsInSeconds ==
  ASSUME NEW ts \in Int, NEW n \in Int
  PROVE  /\ ts >= n * MsPerSecond <=> ts \div MsPerSecond >= n
         /\ ts <= n * MsPerSecond => ts \div MsPerSecond <= n
         /\ ts \div MsPerSecond <= n /\ ~(ts <= n * MsPerSecond) =>
              ts \div MsPerSecond = n /\ ts % MsPerSecond > 0
<1> DEFINE d == ts \div MsPerSecond
           r == ts % MsPerSecond
           M == MsPerSecond
<1>1. M \in Nat /\ M > 0
  BY SecondsHaveMs
<1>2. d \in Int /\ r \in 0 .. (M - 1) /\ ts = d * M + r
  BY <1>1
<1>3. d * M \in Int /\ n * M \in Int
  BY <1>1, <1>2
<1> HIDE DEF d, r, M
<1>4. ASSUME d >= n PROVE d * M >= n * M
  BY <1>1, <1>2, <1>4, TimesKeepsOrder
<1>5. ASSUME d < n PROVE d * M + M <= n * M
  <2>1. (d + 1) * M <= n * M
    BY <1>1, <1>2, <1>5, TimesKeepsOrder
  <2>2. (d + 1) * M = d * M + M
    BY <1>1, <1>2
  <2> QED BY <2>1, <2>2
<1>6. ASSUME d > n PROVE n * M + M <= d * M
  <2>1. (n + 1) * M <= d * M
    BY <1>1, <1>2, <1>6, TimesKeepsOrder
  <2>2. (n + 1) * M = n * M + M
    BY <1>1
  <2> QED BY <2>1, <2>2
<1>7. ts >= n * M <=> d >= n
  BY <1>1, <1>2, <1>3, <1>4, <1>5
<1>8. ts <= n * M => d <= n
  BY <1>1, <1>2, <1>3, <1>6
<1>9. ASSUME d <= n, ~(ts <= n * M) PROVE d = n /\ r > 0
  <2>1. ~(d < n)
    BY <1>1, <1>2, <1>3, <1>5, <1>9
  <2>2. d = n
    BY <1>2, <1>9, <2>1
  <2> QED BY <1>1, <1>2, <1>3, <1>9, <2>2
<1> QED BY <1>7, <1>8, <1>9 DEF d, r, M

(* The rows a request is about, by the seconds a client is shown.          *)
Within(q, row) ==
  /\ q.tag \in {"", row.tag}
  /\ q.start > 0 => Shown(row) >= q.start
  /\ q.end > 0 => Shown(row) <= q.end

(* The filter admits the window, but for the tail of its last second.      *)
LEMMA FilterIsWindow ==
  ASSUME NEW q, q.start \in Int, q.end \in Int, NEW row, row.ts \in Int
  PROVE  /\ Selected(FilterOf(q), row) => Within(q, row)
         /\ Within(q, row) /\ ~Selected(FilterOf(q), row) =>
              q.end > 0 /\ Shown(row) = q.end /\ row.ts % MsPerSecond > 0
<1> DEFINE early == row.ts >= q.start * MsPerSecond
           late == row.ts <= q.end * MsPerSecond
<1>1. Selected(FilterOf(q), row) <=>
        /\ q.tag \in {"", row.tag}
        /\ q.start > 0 => early
        /\ q.end > 0 => late
  BY DEF Selected, FilterOf
<1>2. early <=> Shown(row) >= q.start
  BY BoundsInSeconds DEF Shown
<1>3. late => Shown(row) <= q.end
  BY BoundsInSeconds DEF Shown
<1>4. Shown(row) <= q.end /\ ~late => Shown(row) = q.end /\ row.ts % MsPerSecond > 0
  BY BoundsInSeconds DEF Shown
<1> HIDE DEF early, late
<1> QED BY <1>1, <1>2, <1>3, <1>4 DEF Within

(* A listing of finitely many rows has each of them.                       *)
LEMMA ListsAll ==
  ASSUME NEW S, IsFiniteSet(S), NEW s \in SetToSeqs(S)
  PROVE  /\ s \in Seq(S)
         /\ \A x \in S : \E i \in DOMAIN s : s[i] = x
<1> DEFINE D == 1 .. Cardinality(S)
<1>1. Cardinality(S) \in Nat
  BY FS_CardinalityType
<1>2. s \in [D -> S] /\ \A i, j \in D : i # j => s[i] # s[j]
  BY DEF SetToSeqs
<1>3. IsFiniteSet(D) /\ Cardinality(D) = Cardinality(S)
  <2>1. Cardinality(D) = IF 1 > Cardinality(S) THEN 0 ELSE Cardinality(S) - 1 + 1
    BY <1>1, FS_Interval
  <2>2. IsFiniteSet(D)
    BY <1>1, FS_Interval
  <2> QED BY <1>1, <2>1, <2>2
<1>4. s \in Seq(S)
  BY <1>1, <1>2
<1> HIDE DEF D
<1>5. s \in Injection(D, S)
  BY <1>2 DEF Injection, IsInjective
<1>6. s \in Surjection(D, S)
  BY <1>3, <1>5, FS_Injection
<1> QED BY <1>2, <1>4, <1>6 DEF Surjection

(* LIMIT: how many rows are reported.                                      *)
LEMMA CutLength ==
  ASSUME NEW n \in Nat, NEW limit \in Int
  PROVE  LET m == Min({n} \cup (IF limit > 0 THEN {limit} ELSE {}))
         IN  m \in 0..n /\ (m < n => limit > 0 /\ m = limit)
<1> DEFINE S == {n} \cup (IF limit > 0 THEN {limit} ELSE {})
           m == Min(S)
<1>1. n \in S /\ (limit > 0 => limit \in S) /\ \A x \in S : x = n \/ (limit > 0 /\ x = limit)
  OBVIOUS
<1> HIDE DEF S
<1>2. \E x \in S : \A y \in S : x <= y
  <2>1. CASE limit > 0 /\ limit < n
    BY <1>1, <2>1
  <2>2. CASE ~(limit > 0 /\ limit < n)
    BY <1>1, <2>2
  <2> QED BY <2>1, <2>2
<1>3. m \in S /\ \A y \in S : m <= y
  BY <1>2, Zenon DEF Min
<1> HIDE DEF m
<1>4. m \in 0..n /\ (m < n => limit > 0 /\ m = limit)
  BY <1>1, <1>3
<1> QED BY <1>4 DEF m, S

(* What the SELECT answers is faithful to the table.                       *)
LEMMA QueryIsFaithful ==
  ASSUME NEW q, q.start \in Int, q.end \in Int, q.limit \in Int,
         NEW log, IsFiniteSet(log), \A row \in log : row.ts \in Int,
         NEW answer \in Query(q, log)
  PROVE  QueryFaithful(q, log, answer)
<1> DEFINE rows == {row \in log : Selected(FilterOf(q), row)}
           limits == IF q.limit > 0 THEN {q.limit} ELSE {}
<1>1. PICK s \in Ordered(rows) : answer = SubSeq(s, 1, Min({Len(s)} \cup FilterOf(q).limit))
  BY DEF Query
<1>2. FilterOf(q).limit = limits
  BY DEF FilterOf
<1>3. IsFiniteSet(rows) /\ rows \subseteq log
  BY FS_Subset
<1>4. s \in SetToSeqs(rows) /\ NewestFirst(s)
  BY DEF Ordered
<1>5. s \in Seq(rows) /\ \A row \in rows : \E i \in DOMAIN s : s[i] = row
  BY <1>3, <1>4, ListsAll
<1>6. \A row \in rows : Within(q, row)
  BY FilterIsWindow
<1>7. \A row \in log : Within(q, row) /\ row \notin rows =>
        q.end > 0 /\ Shown(row) = q.end /\ row.ts % MsPerSecond > 0
  BY FilterIsWindow
<1>8. PICK n \in Nat : n = Len(s)
  BY <1>5
<1>9. PICK m : m = Min({n} \cup limits)
  OBVIOUS
<1>10. m \in 0..n /\ (m < n => q.limit > 0 /\ m = q.limit)
  BY <1>9, CutLength
<1>11. answer = SubSeq(s, 1, m)
  BY <1>1, <1>2, <1>8, <1>9
<1> HIDE DEF rows, limits
<1>12. /\ DOMAIN s = 1..n /\ DOMAIN answer = 1..m /\ Len(answer) = m
       /\ \A i \in 1..m : answer[i] = s[i] /\ i \in 1..n
  BY <1>5, <1>8, <1>10, <1>11
<1>13. \A i \in 1..n : s[i] \in rows /\ s[i] \in log
  BY <1>3, <1>5, <1>12
<1>14. \A i, j \in 1..n : i < j => s[i].ts >= s[j].ts
  BY <1>4, <1>12 DEF NewestFirst
<1>15. \A i \in DOMAIN answer : answer[i] \in log /\ Within(q, answer[i])
  BY <1>6, <1>12, <1>13
<1>16. NewestFirst(answer)
  BY <1>12, <1>14 DEF NewestFirst
<1>17. ASSUME NEW row \in log, Within(q, row), row \notin Range(answer)
       PROVE  \/ q.limit > 0 /\ Len(answer) = q.limit
                   /\ \A i \in DOMAIN answer : answer[i].ts >= row.ts
              \/ q.end > 0 /\ Shown(row) = q.end /\ row.ts % MsPerSecond > 0
  <2>1. CASE row \notin rows
    BY <1>7, <1>17, <2>1
  <2>2. CASE row \in rows
    <3>1. PICK k \in 1..n : s[k] = row
      BY <1>5, <1>12, <2>2
    <3>2. k \notin 1..m
      BY <1>12, <1>17, <3>1 DEF Range
    <3>3. m < n /\ m < k
      BY <1>8, <1>10, <3>1, <3>2
    <3>4. \A i \in 1..m : s[i].ts >= row.ts
      BY <1>10, <1>12, <1>14, <3>1, <3>3
    <3> QED BY <1>10, <1>12, <3>3, <3>4
  <2> QED BY <2>1, <2>2
<1> QED BY <1>15, <1>16, <1>17 DEF QueryFaithful, Within

(* query_audit_log reports nothing outside the window, newest first, and   *)
(* leaves out a row of the window only if the limit is full of rows that   *)
(* are not older or if the row is in the tail of the last second.          *)
THEOREM QueriesAreFaithful == ReportSpec => []QueriesFaithful
<1>1. Init => QueriesFaithful
  BY DEF Init, NoJob, QueriesFaithful
<1>2. QueriesFaithful /\ [ReportNext]_job => QueriesFaithful'
  <2> SUFFICES ASSUME QueriesFaithful, [ReportNext]_job PROVE QueriesFaithful'
    OBVIOUS
  <2>1. CASE QueryAuditLog
    <3>1. PICK q \in Queries, log \in Logs : \E answer \in Query(q, log) :
            job' = [op |-> "query", q |-> q, log |-> log, answer |-> answer]
      BY <2>1 DEF QueryAuditLog
    <3>2. PICK answer \in Query(q, log) :
            job' = [op |-> "query", q |-> q, log |-> log, answer |-> answer]
      BY <3>1
    <3>3. QueryFaithful(q, log, answer)
      BY ReportInputs, QueryIsFaithful DEF ReportInputs
    <3> QED BY <3>2, <3>3 DEF QueriesFaithful
  <2>2. CASE ExportCsv
    BY <2>2 DEF ExportCsv, QueriesFaithful
  <2>3. CASE Score
    BY <2>3 DEF Score, QueriesFaithful
  <2>4. CASE Match
    BY <2>4 DEF Match, QueriesFaithful
  <2>5. CASE Return
    BY <2>5 DEF Return, NoJob, QueriesFaithful
  <2>6. CASE job' = job
    BY <2>6 DEF QueriesFaithful
  <2> QED BY <2>1, <2>2, <2>3, <2>4, <2>5, <2>6 DEF ReportNext, ReportCall
<1> QED BY <1>1, <1>2, PTL DEF ReportSpec

-----------------------------------------------------------------------------
(* compute_risk.                                                           *)

(* The score before it is capped.                                          *)
Uncapped(w, d, s, o) == Points(w, 3) + Points(d, 5) + Points(s, 3) + Points(o, 1)

(* A condition is worth all of its points or none.                         *)
LEMMA PointsRange ==
  ASSUME NEW condition, NEW n \in Nat
  PROVE  /\ Points(condition, n) \in 0..n
         /\ condition => Points(condition, n) = n
         /\ ~condition => Points(condition, n) = 0
BY DEF Points

(* compute_risk caps this sum.                                             *)
LEMMA RiskIsSum ==
  ASSUME NEW req, NEW hour
  PROVE  LET sum == Uncapped(req.writes, req.deletes, req.sensitive, OffHours(hour))
         IN  /\ sum \in Nat
             /\ ComputeRisk(req, hour) = IF sum > 10 THEN 10 ELSE sum
<1>1. /\ Points(req.writes, 3) \in Nat /\ Points(req.deletes, 5) \in Nat
      /\ Points(req.sensitive, 3) \in Nat /\ Points(OffHours(hour), 1) \in Nat
  BY PointsRange
<1> QED BY <1>1 DEF Uncapped, ComputeRisk

(* One more dangerous thing is worth at least three points.                *)
LEMMA FlagRaises ==
  ASSUME NEW req \in Request, NEW hour, NEW f \in DOMAIN req, ~req[f],
         ComputeRisk(req, hour) < 10
  PROVE  ComputeRisk(req, hour) < ComputeRisk([req EXCEPT ![f] = TRUE], hour)
<1> DEFINE more == [req EXCEPT ![f] = TRUE]
           w == Points(req.writes, 3)
           d == Points(req.deletes, 5)
           s == Points(req.sensitive, 3)
           o == Points(OffHours(hour), 1)
           sum == Uncapped(more.writes, more.deletes, more.sensitive, OffHours(hour))
<1> SUFFICES ComputeRisk(req, hour) < ComputeRisk(more, hour)
  OBVIOUS
<1>1. f \in {"writes", "deletes", "sensitive"}
  BY DEF Request
<1>2. w \in 0..3 /\ d \in 0..5 /\ s \in 0..3 /\ o \in 0..1
  BY PointsRange
<1>3. ASSUME sum \in Nat, sum > w + d + s + o
      PROVE  ComputeRisk(req, hour) < ComputeRisk(more, hour)
  <2>1. ComputeRisk(req, hour) = IF w + d + s + o > 10 THEN 10 ELSE w + d + s + o
    BY DEF ComputeRisk
  <2>2. ComputeRisk(more, hour) = IF sum > 10 THEN 10 ELSE sum
    BY <1>3, RiskIsSum
  <2> HIDE DEF w, d, s, o, more, sum
  <2> QED BY <1>2, <1>3, <2>1, <2>2
<1>4. CASE f = "writes"
  <2>1. more.writes /\ more.deletes = req.deletes /\ more.sensitive = req.sensitive
    BY <1>4 DEF Request
  <2>2. ~req.writes
    BY <1>4
  <2>3. Points(more.writes, 3) = 3 /\ w = 0
    BY <2>1, <2>2, PointsRange
  <2> HIDE DEF more
  <2>4. sum = 3 + d + s + o
    BY <2>1, <2>3 DEF Uncapped
  <2> HIDE DEF w, d, s, o, sum
  <2> QED BY <1>2, <1>3, <2>3, <2>4
<1>5. CASE f = "deletes"
  <2>1. more.deletes /\ more.writes = req.writes /\ more.sensitive = req.sensitive
    BY <1>5 DEF Request
  <2>2. ~req.deletes
    BY <1>5
  <2>3. Points(more.deletes, 5) = 5 /\ d = 0
    BY <2>1, <2>2, PointsRange
  <2> HIDE DEF more
  <2>4. sum = w + 5 + s + o
    BY <2>1, <2>3 DEF Uncapped
  <2> HIDE DEF w, d, s, o, sum
  <2> QED BY <1>2, <1>3, <2>3, <2>4
<1>6. CASE f = "sensitive"
  <2>1. more.sensitive /\ more.writes = req.writes /\ more.deletes = req.deletes
    BY <1>6 DEF Request
  <2>2. ~req.sensitive
    BY <1>6
  <2>3. Points(more.sensitive, 3) = 3 /\ s = 0
    BY <2>1, <2>2, PointsRange
  <2> HIDE DEF more
  <2>4. sum = w + d + 3 + o
    BY <2>1, <2>3 DEF Uncapped
  <2> HIDE DEF w, d, s, o, sum
  <2> QED BY <1>2, <1>3, <2>3, <2>4
<1> HIDE DEF more
<1> QED BY <1>1, <1>4, <1>5, <1>6

(* The same request outside business hours scores one point more.          *)
LEMMA OffHoursRaise ==
  ASSUME NEW req, NEW hour, NEW late, ~OffHours(hour), OffHours(late),
         ComputeRisk(req, hour) < 10
  PROVE  ComputeRisk(req, hour) < ComputeRisk(req, late)
<1> DEFINE p == Points(req.writes, 3) + Points(req.deletes, 5) + Points(req.sensitive, 3)
<1>1. p \in Nat
  BY PointsRange
<1>2. Points(OffHours(hour), 1) = 0 /\ Points(OffHours(late), 1) = 1
  BY PointsRange
<1>3. /\ ComputeRisk(req, hour) = IF p + 0 > 10 THEN 10 ELSE p + 0
      /\ ComputeRisk(req, late) = IF p + 1 > 10 THEN 10 ELSE p + 1
  BY <1>2 DEF ComputeRisk
<1> HIDE DEF p
<1> QED BY <1>1, <1>3

(* compute_risk ranks requests by what they do: one more dangerous thing,  *)
(* or the same outside business hours, scores higher until the cap, and no *)
(* score exceeds the one of a refused session.                             *)
THEOREM RiskIsMonotone == ReportSpec => []RiskOrdersRequests
<1>1. Init => RiskOrdersRequests
  BY DEF Init, NoJob, RiskOrdersRequests
<1>2. RiskOrdersRequests /\ [ReportNext]_job => RiskOrdersRequests'
  <2> SUFFICES ASSUME RiskOrdersRequests, [ReportNext]_job PROVE RiskOrdersRequests'
    OBVIOUS
  <2>1. CASE QueryAuditLog
    BY <2>1 DEF QueryAuditLog, RiskOrdersRequests
  <2>2. CASE ExportCsv
    BY <2>2 DEF ExportCsv, RiskOrdersRequests
  <2>3. CASE Score
    <3>1. PICK req \in Request, hour \in Hours :
            job' = [op |-> "score", req |-> req, hour |-> hour,
                    risk |-> ComputeRisk(req, hour)]
      BY <2>3 DEF Score
    <3>2. /\ job'.op = "score" /\ job'.req = req /\ job'.hour = hour
          /\ job'.risk = ComputeRisk(req, hour)
      BY <3>1
    <3>3. ComputeRisk(req, hour) \in 0..10
      BY RiskIsSum
    <3>4. ComputeRisk(req, hour) < 10 =>
            \A f \in {f \in DOMAIN req : ~req[f]} :
              ComputeRisk(req, hour) < ComputeRisk([req EXCEPT ![f] = TRUE], hour)
      BY FlagRaises
    <3>5. ComputeRisk(req, hour) < 10 =>
            \A late \in Hours : OffHours(late) /\ ~OffHours(hour) =>
              ComputeRisk(req, hour) < ComputeRisk(req, late)
      BY OffHoursRaise
    <3> QED BY <3>2, <3>3, <3>4, <3>5 DEF RiskOrdersRequests, SessionRisk
  <2>4. CASE Match
    BY <2>4 DEF Match, RiskOrdersRequests
  <2>5. CASE Return
    BY <2>5 DEF Return, NoJob, RiskOrdersRequests
  <2>6. CASE job' = job
    BY <2>6 DEF RiskOrdersRequests
  <2> QED BY <2>1, <2>2, <2>3, <2>4, <2>5, <2>6 DEF ReportNext, ReportCall
<1> QED BY <1>1, <1>2, PTL DEF ReportSpec

-----------------------------------------------------------------------------
(* export_csv.                                                             *)

(* The characters that csv_escape tells apart.                             *)
LEMMA Chs == /\ Quote # "," /\ Quote # "\n" /\ "," # "\n"
BY DEF Quote

(* A non-empty set of natural numbers has a least element.                 *)
LEMMA SmallestOf ==
  ASSUME NEW S \in SUBSET Nat, S # {}
  PROVE  \E x \in S : \A y \in S : x <= y
<1> DEFINE Below == {0 .. n - 1 : n \in S}
           R == StrictSubsetOrdering(Nat)
<1>1. \A n \in S : 0 .. n - 1 \in FiniteSubsetsOf(Nat)
  BY FS_Interval DEF FiniteSubsetsOf
<1>2. Below \subseteq FiniteSubsetsOf(Nat) /\ Below # {}
  BY <1>1
<1>3. IsWellFoundedOn(R, FiniteSubsetsOf(Nat))
  BY FS_StrictSubsetOrderingWellFounded
<1>4. PICK B \in Below : \A C \in Below : ~(<<C, B>> \in R)
  BY <1>2, <1>3, WFMin
<1>5. PICK x \in S : B = 0 .. x - 1
  OBVIOUS
<1>6. ASSUME NEW y \in S, y < x PROVE FALSE
  <2> DEFINE C == 0 .. y - 1
  <2>1. C \subseteq B /\ y \in B /\ y \notin C
    BY <1>5, <1>6
  <2>2. C \in SUBSET Nat /\ B \in SUBSET Nat
    BY <1>5
  <2>3. <<C, B>> \in R
    BY <2>1, <2>2 DEF StrictSubsetOrdering
  <2> QED
    BY <1>4, <2>3
<1> QED
  BY <1>6

(* Induction up to n, over a set: what holds at 0 and passes on from each  *)
(* number to the next holds throughout.                                    *)
LEMMA UpTo ==
  ASSUME NEW n \in Nat, NEW S, 0 \in S,
         \A i \in 0 .. n - 1 : i \in S => i + 1 \in S
  PROVE  \A i \in 0 .. n : i \in S
<1> DEFINE Bad == {i \in 0 .. n : i \notin S}
<1> SUFFICES ASSUME Bad # {} PROVE FALSE
  OBVIOUS
<1>1. Bad \in SUBSET Nat /\ \A i \in 0 .. n : i \in Bad <=> i \notin S
  OBVIOUS
<1>2. \A i \in Bad : i \in 0 .. n
  OBVIOUS
<1> HIDE DEF Bad
<1>3. PICK x \in Bad : \A y \in Bad : x <= y
  BY <1>1, SmallestOf
<1>4. x # 0 /\ x \in 1 .. n
  BY <1>3, <1>1, <1>2
<1>5. x - 1 \in 0 .. n - 1 /\ x - 1 \in S
  BY <1>1, <1>3, <1>4
<1>6. (x - 1) + 1 \in S
  BY <1>5
<1> QED
  BY <1>1, <1>3, <1>4, <1>6

(* The runs of n steps from s in S, of which step i takes a state x to     *)
(* F[i][x].                                                                *)
Runs(n, S, s, F) == {g \in [0 .. n -> S] : g[0] = s /\ \A i \in 1 .. n : g[i] = F[i][g[i - 1]]}

(* There is one.                                                           *)
LEMMA RunExists ==
  ASSUME NEW n \in Nat, NEW S, NEW s \in S, NEW F, \A i \in 1 .. n : F[i] \in [S -> S]
  PROVE  Runs(n, S, s, F) # {}
<1> DEFINE Good == {m \in 0 .. n : Runs(m, S, s, F) # {}}
<1>1. 0 \in Good
  <2>1. [i \in 0 .. 0 |-> s] \in Runs(0, S, s, F)
    BY DEF Runs
  <2> QED BY <2>1
<1>2. ASSUME NEW m \in 0 .. n - 1, m \in Good PROVE m + 1 \in Good
  <2>1. PICK g \in [0 .. m -> S] : g[0] = s /\ \A i \in 1 .. m : g[i] = F[i][g[i - 1]]
    BY <1>2 DEF Runs
  <2> DEFINE h == [i \in 0 .. m + 1 |-> IF i = m + 1 THEN F[m + 1][g[m]] ELSE g[i]]
  <2>2. m + 1 \in 1 .. n /\ F[m + 1] \in [S -> S] /\ g[m] \in S
    BY <2>1
  <2>3. h \in [0 .. m + 1 -> S] /\ h[0] = s
    BY <2>1, <2>2
  <2>4. ASSUME NEW i \in 1 .. m + 1 PROVE h[i] = F[i][h[i - 1]]
    <3>1. CASE i = m + 1
      <4>1. h[i] = F[m + 1][g[m]] /\ h[i - 1] = g[m]
        BY <3>1
      <4> QED BY <4>1, <3>1
    <3>2. CASE i # m + 1
      <4>1. i \in 1 .. m /\ h[i] = g[i] /\ h[i - 1] = g[i - 1]
        BY <3>2
      <4> QED BY <2>1, <4>1
    <3> QED BY <3>1, <3>2
  <2>5. h \in Runs(m + 1, S, s, F)
    BY <2>3, <2>4 DEF Runs
  <2> QED BY <2>2, <2>5
<1> HIDE DEF Good
<1>3. \A m \in 0 .. n : m \in Good
  BY <1>1, <1>2, UpTo
<1> QED BY <1>3 DEF Good

(* Where the items of a concatenation are.                                 *)
LEMMA ConcatLays ==
  ASSUME NEW C, NEW s \in Seq(C), NEW t \in Seq(C)
  PROVE  /\ s \o t \in Seq(C) /\ Len(s \o t) = Len(s) + Len(t)
         /\ Len(s) \in Nat /\ Len(t) \in Nat
         /\ \A j \in 1 .. Len(s) : (s \o t)[j] = s[j]
         /\ \A k \in 1 .. Len(t) : (s \o t)[Len(s) + k] = t[k]
         /\ <<>> \o t = t
OBVIOUS

(* The parts of a sequence of sequences, one after the other: part i       *)
(* stands behind the first start[i - 1] items.                             *)
Laid(start, parts, flat) ==
  /\ start[0] = 0 /\ start[Len(parts)] = Len(flat)
  /\ \A i \in 1 .. Len(parts) :
       /\ start[i] = start[i - 1] + Len(parts[i])
       /\ start[i] <= Len(flat)
       /\ \A k \in 1 .. Len(parts[i]) : flat[start[i - 1] + k] = parts[i][k]

(* FlattenSeq lays them so.                                                *)
LEMMA FlattenLays ==
  ASSUME NEW C, NEW seqs \in Seq(Seq(C)), seqs # <<>>
  PROVE  /\ FlattenSeq(seqs) \in Seq(C)
         /\ \E start \in [0 .. Len(seqs) -> Nat] : Laid(start, seqs, FlattenSeq(seqs))
<1> DEFINE n == Len(seqs)
           F == [i \in 1 .. n |-> [s \in Seq(C) |-> s \o seqs[i]]]
<1>1. n \in Nat /\ n > 0 /\ \A i \in 1 .. n : seqs[i] \in Seq(C)
  OBVIOUS
<1>2. \A i \in 1 .. n : F[i] \in [Seq(C) -> Seq(C)]
  BY <1>1
<1>3. <<>> \in Seq(C)
  OBVIOUS
<1>4. PICK g \in [0 .. n -> Seq(C)] : g[0] = <<>> /\ \A i \in 1 .. n : g[i] = F[i][g[i - 1]]
  <2>1. PICK S, e : S = Seq(C) /\ e = <<>>
    OBVIOUS
  <2> HIDE DEF n, F
  <2>2. n \in Nat /\ e \in S /\ \A i \in 1 .. n : F[i] \in [S -> S]
    BY <1>1, <1>2, <1>3, <2>1
  <2>3. Runs(n, S, e, F) # {}
    BY <2>2, RunExists
  <2> QED BY <2>1, <2>3 DEF Runs
<1>5. \A i \in 1 .. n : g[i - 1] \in Seq(C) /\ g[i] = g[i - 1] \o seqs[i]
  <2>1. \A i \in 1 .. n : i - 1 \in 0 .. n
    BY <1>1
  <2>2. \A i \in 1 .. n : g[i - 1] \in Seq(C)
    BY <1>4, <2>1
  <2> QED BY <1>4, <2>2
<1> DEFINE Eq(f) == f = [i \in 1 .. n |-> IF i = 1 THEN seqs[i] ELSE f[i - 1] \o seqs[i]]
           fl == CHOOSE f : Eq(f)
<1>6. FlattenSeq(seqs) = fl[n]
  <2>1. Len(seqs) # 0
    BY <1>1
  <2> QED BY <2>1, Zenon DEF FlattenSeq
<1> HIDE DEF n, F
<1>7. Eq([i \in 1 .. n |-> g[i]])
  <2> DEFINE h == [i \in 1 .. n |-> g[i]]
  <2>1. ASSUME NEW i \in 1 .. n
        PROVE  h[i] = IF i = 1 THEN seqs[i] ELSE h[i - 1] \o seqs[i]
    <3>1. CASE i = 1
      <4>1. 1 \in 1 .. n /\ 1 - 1 = 0
        BY <1>1
      <4>2. g[1] = <<>> \o seqs[1] /\ seqs[1] \in Seq(C)
        BY <1>1, <1>4, <1>5, <4>1
      <4>3. g[1] = seqs[1]
        BY <4>2, ConcatLays
      <4> QED BY <3>1, <4>1, <4>3
    <3>2. CASE i # 1
      <4>1. i - 1 \in 1 .. n
        BY <1>1, <3>2
      <4> QED BY <1>5, <3>2, <4>1
    <3> QED BY <3>1, <3>2
  <2> QED BY <2>1
<1>8. Eq(fl)
  <2> HIDE DEF Eq
  <2> QED BY <1>7, Zenon
<1> HIDE DEF fl
<1>9. \A i \in 1 .. n : fl[i] = IF i = 1 THEN seqs[i] ELSE fl[i - 1] \o seqs[i]
  BY <1>8
<1> HIDE DEF Eq
<1>10. fl[n] = g[n]
  <2> DEFINE Same == {i \in 0 .. n : i > 0 => fl[i] = g[i]}
  <2>1. 0 \in Same
    BY <1>1
  <2>2. ASSUME NEW i \in 0 .. n - 1, i \in Same PROVE i + 1 \in Same
    <3>1. i + 1 \in 1 .. n /\ (i + 1) - 1 = i
      BY <1>1
    <3>2. g[i + 1] = g[i] \o seqs[i + 1]
      BY <1>5, <3>1
    <3>3. CASE i = 0
      <4>1. 1 \in 1 .. n /\ i + 1 = 1
        BY <1>1, <3>3
      <4>2. fl[1] = seqs[1] /\ seqs[1] \in Seq(C) /\ g[1] = <<>> \o seqs[1]
        BY <1>1, <1>4, <1>9, <3>2, <3>3, <4>1
      <4>3. fl[1] = g[1]
        BY <4>2, ConcatLays
      <4> QED BY <1>1, <4>1, <4>3
    <3>4. CASE i # 0
      <4>1. fl[i] = g[i] /\ i + 1 # 1
        BY <2>2, <3>4
      <4>2. fl[i + 1] = fl[i] \o seqs[i + 1]
        BY <1>9, <3>1, <4>1
      <4>3. fl[i + 1] = g[i + 1]
        BY <3>2, <4>1, <4>2
      <4> QED BY <1>1, <3>1, <4>3
    <3> QED BY <3>3, <3>4
  <2>3. n \in 0 .. n
    BY <1>1
  <2> HIDE DEF Same
  <2>4. n \in Same
    BY <1>1, <2>1, <2>2, <2>3, UpTo
  <2> QED BY <1>1, <2>4 DEF Same
<1> DEFINE Up(m) == /\ g[m] \in Seq(C)
                      /\ \A i \in 1 .. m :
                           /\ Len(g[i]) <= Len(g[m])
                           /\ \A k \in 1 .. Len(seqs[i]) : g[m][Len(g[i - 1]) + k] = seqs[i][k]
           UpSet == {m \in 0 .. n : Up(m)}
<1>11. 0 \in UpSet
  BY <1>1, <1>4
<1>12. ASSUME NEW m \in 0 .. n - 1, m \in UpSet PROVE m + 1 \in UpSet
  <2>1. m + 1 \in 1 .. n /\ (m + 1) - 1 = m
    BY <1>1
  <2>2. g[m] \in Seq(C) /\ seqs[m + 1] \in Seq(C) /\ g[m + 1] = g[m] \o seqs[m + 1]
    BY <1>1, <1>5, <2>1
  <2>3. PICK a \in Seq(C), b \in Seq(C), c \in Seq(C) :
          a = g[m] /\ b = seqs[m + 1] /\ c = g[m + 1] /\ c = a \o b
    BY <2>2, ConcatLays
  <2>4. /\ c \in Seq(C) /\ Len(c) = Len(a) + Len(b) /\ Len(a) \in Nat /\ Len(b) \in Nat
        /\ \A j \in 1 .. Len(a) : c[j] = a[j]
        /\ \A k \in 1 .. Len(b) : c[Len(a) + k] = b[k]
    <3>1. /\ a \o b \in Seq(C) /\ Len(a \o b) = Len(a) + Len(b)
          /\ Len(a) \in Nat /\ Len(b) \in Nat
          /\ \A j \in 1 .. Len(a) : (a \o b)[j] = a[j]
          /\ \A k \in 1 .. Len(b) : (a \o b)[Len(a) + k] = b[k]
      OBVIOUS
    <3> QED BY <2>3, <3>1, Zenon
  <2>5. ASSUME NEW i \in 1 .. m + 1
        PROVE  /\ Len(g[i]) <= Len(c)
               /\ \A k \in 1 .. Len(seqs[i]) : c[Len(g[i - 1]) + k] = seqs[i][k]
    <3>1. CASE i = m + 1
      <4>1. g[i] = c /\ g[i - 1] = a /\ seqs[i] = b
        BY <2>1, <2>3, <3>1
      <4> QED BY <2>4, <4>1
    <3>2. CASE i # m + 1
      <4>1. i \in 1 .. m /\ i \in 1 .. n /\ i - 1 \in 0 .. n /\ i \in 0 .. n
        BY <1>1, <2>1, <3>2
      <4>2. PICK p \in Seq(C), q \in Seq(C), r \in Seq(C) :
              p = g[i - 1] /\ q = seqs[i] /\ r = g[i] /\ r = p \o q
        <5>1. /\ g[i - 1] \in Seq(C) /\ seqs[i] \in Seq(C) /\ g[i] \in Seq(C)
              /\ g[i] = g[i - 1] \o seqs[i]
          BY <1>1, <1>4, <1>5, <4>1
        <5> QED BY <5>1
      <4>3. Len(r) = Len(p) + Len(q) /\ Len(p) \in Nat /\ Len(q) \in Nat
        BY <4>2, ConcatLays
      <4>4. Len(r) <= Len(a) /\ \A k \in 1 .. Len(q) : a[Len(p) + k] = q[k]
        BY <1>12, <2>3, <4>1, <4>2
      <4>5. \A k \in 1 .. Len(q) : Len(p) + k \in 1 .. Len(a)
        BY <2>4, <4>3, <4>4
      <4>6. \A k \in 1 .. Len(q) : c[Len(p) + k] = q[k]
        BY <2>4, <4>4, <4>5
      <4>7. Len(r) <= Len(c)
        BY <2>4, <4>3, <4>4
      <4> QED BY <4>2, <4>6, <4>7
    <3> QED BY <3>1, <3>2
  <2>6. Up(m + 1)
    <3>1. \A i \in 1 .. m + 1 :
            /\ Len(g[i]) <= Len(c)
            /\ \A k \in 1 .. Len(seqs[i]) : c[Len(g[i - 1]) + k] = seqs[i][k]
      BY <2>5
    <3> QED BY <2>3, <3>1, Zenon
  <2> HIDE DEF Up
  <2> QED BY <1>1, <2>1, <2>6
<1>13. n \in UpSet
  <2> HIDE DEF UpSet
  <2>1. n \in 0 .. n
    BY <1>1
  <2> QED BY <1>1, <1>11, <1>12, <2>1, UpTo
<1> DEFINE start == [i \in 0 .. n |-> Len(g[i])]
<1>14. /\ start \in [0 .. n -> Nat]
       /\ start[0] = 0 /\ start[n] = Len(g[n])
  BY <1>1, <1>4
<1>15. ASSUME NEW i \in 1 .. n
       PROVE  /\ start[i] = start[i - 1] + Len(seqs[i]) /\ start[i] <= Len(g[n])
              /\ \A k \in 1 .. Len(seqs[i]) : g[n][start[i - 1] + k] = seqs[i][k]
  <2>1. i - 1 \in 0 .. n /\ i \in 0 .. n
    BY <1>1
  <2>2. g[i - 1] \in Seq(C) /\ seqs[i] \in Seq(C) /\ g[i] = g[i - 1] \o seqs[i]
    BY <1>1, <1>5
  <2>3. Len(g[i]) = Len(g[i - 1]) + Len(seqs[i])
    BY <2>2
  <2>4. start[i] = Len(g[i]) /\ start[i - 1] = Len(g[i - 1])
    BY <2>1
  <2> QED BY <1>13, <2>3, <2>4
<1>16. g[n] \in Seq(C) /\ FlattenSeq(seqs) = g[n]
  BY <1>6, <1>10, <1>13
<1> HIDE DEF start
<1>17. Laid(start, seqs, g[n])
  BY <1>14, <1>15 DEF n, Laid
<1> QED BY <1>14, <1>16, <1>17 DEF n

-----------------------------------------------------------------------------
(* The reader.                                                             *)

(* The characters of a text.                                               *)
Chars == STRING \cup Special

(* The states of the reader.                                               *)
Reading ==
  [done : Seq(Seq(Chars)), cur : Seq(Chars), at : {"plain", "quoted", "behind"}, lines : Nat]

(* The reader with fields d behind it and c of the next one.               *)
At(d, c, a, l) == [done |-> d, cur |-> c, at |-> a, lines |-> l]

(* The steps of the reader, one by one.                                    *)
Steps(d, c, l, ch) ==
  /\ ch \notin Special => CsvStep(At(d, c, "plain", l), ch) = At(d, Append(c, ch), "plain", l)
  /\ ch = Quote => CsvStep(At(d, c, "plain", l), ch) = At(d, c, "quoted", l)
  /\ ch # Quote => CsvStep(At(d, c, "quoted", l), ch) = At(d, Append(c, ch), "quoted", l)
  /\ ch = Quote => CsvStep(At(d, c, "quoted", l), ch) = At(d, c, "behind", l)
  /\ ch = Quote => CsvStep(At(d, c, "behind", l), ch) = At(d, Append(c, ch), "quoted", l)
  /\ ch \in {",", "\n"} => \A a \in {"plain", "behind"} :
       CsvStep(At(d, c, a, l), ch) = At(Append(d, c), <<>>, "plain", IF ch = "\n" THEN l + 1 ELSE l)

(* They are the steps it takes.                                            *)
LEMMA ReaderSteps ==
  ASSUME NEW d, NEW c, NEW l, NEW ch
  PROVE  Steps(d, c, l, ch)
<1>1. ch \notin Special => CsvStep(At(d, c, "plain", l), ch) = At(d, Append(c, ch), "plain", l)
  BY Chs DEF At, CsvStep, Special
<1>2. ch = Quote => CsvStep(At(d, c, "plain", l), ch) = At(d, c, "quoted", l)
  <2>1. PICK st : st = At(d, c, "plain", l)
    OBVIOUS
  <2>2. st.at = "plain" /\ [st EXCEPT !.at = "quoted"] = At(d, c, "quoted", l)
    BY <2>1 DEF At
  <2>3. ch = Quote => CsvStep(st, ch) = [st EXCEPT !.at = "quoted"]
    BY <2>2, Chs DEF CsvStep
  <2> QED BY <2>1, <2>2, <2>3
<1>3. ch # Quote => CsvStep(At(d, c, "quoted", l), ch) = At(d, Append(c, ch), "quoted", l)
  BY DEF At, CsvStep
<1>4. ch = Quote => CsvStep(At(d, c, "quoted", l), ch) = At(d, c, "behind", l)
  BY DEF At, CsvStep
<1>5. ch = Quote => CsvStep(At(d, c, "behind", l), ch) = At(d, Append(c, ch), "quoted", l)
  <2>1. PICK st : st = At(d, c, "behind", l)
    OBVIOUS
  <2>2. PICK add : add = [st EXCEPT !.cur = Append(st.cur, ch)]
    OBVIOUS
  <2>3. st.at = "behind" /\ add = At(d, Append(c, ch), "behind", l)
    BY <2>1, <2>2 DEF At
  <2>4. [add EXCEPT !.at = "quoted"] = At(d, Append(c, ch), "quoted", l)
    <3>1. PICK e : e = Append(c, ch)
      OBVIOUS
    <3>2. [At(d, e, "behind", l) EXCEPT !.at = "quoted"] = At(d, e, "quoted", l)
      BY DEF At
    <3> QED BY <2>3, <3>1, <3>2
  <2>5. ch = Quote => CsvStep(st, ch) = [add EXCEPT !.at = "quoted"]
    BY <2>2, <2>3, Chs DEF CsvStep
  <2> QED BY <2>1, <2>4, <2>5
<1>6. ASSUME NEW a \in {"plain", "behind"}, ch \in {",", "\n"}
      PROVE  CsvStep(At(d, c, a, l), ch) =
                At(Append(d, c), <<>>, "plain", IF ch = "\n" THEN l + 1 ELSE l)
  BY <1>6, Chs DEF At, CsvStep
<1> QED BY <1>1, <1>2, <1>3, <1>4, <1>5, <1>6 DEF Steps

(* A step leads from a state of the reader to another.                     *)
LEMMA StepTyped ==
  ASSUME NEW st \in Reading, NEW ch \in Chars
  PROVE  CsvStep(st, ch) \in Reading
<1>1. PICK d \in Seq(Seq(Chars)), c \in Seq(Chars), a \in {"plain", "quoted", "behind"}, l \in Nat :
        st = At(d, c, a, l)
  BY DEF Reading, At
<1>2. ASSUME NEW x \in Seq(Seq(Chars)), NEW y \in Seq(Chars),
             NEW z \in {"plain", "quoted", "behind"}, NEW n \in Nat
      PROVE  At(x, y, z, n) \in Reading
  BY DEF Reading, At
<1>3. /\ Append(c, ch) \in Seq(Chars) /\ Append(d, c) \in Seq(Seq(Chars))
      /\ <<>> \in Seq(Chars) /\ l + 1 \in Nat
  OBVIOUS
<1>4. Steps(d, c, l, ch)
  BY ReaderSteps
<1>5. CASE a = "plain"
  <2>1. CASE ch \in {",", "\n"}
    BY <1>1, <1>2, <1>3, <1>4, <1>5, <2>1 DEF Steps
  <2>2. CASE ch = Quote
    BY <1>1, <1>2, <1>3, <1>4, <1>5, <2>2 DEF Steps
  <2>3. CASE ch \notin Special
    BY <1>1, <1>2, <1>3, <1>4, <1>5, <2>3 DEF Steps
  <2> QED BY <2>1, <2>2, <2>3 DEF Special
<1>6. CASE a = "quoted"
  BY <1>1, <1>2, <1>3, <1>4, <1>6 DEF Steps
<1>7. CASE a = "behind"
  <2>1. CASE ch \in {",", "\n"}
    BY <1>1, <1>2, <1>3, <1>4, <1>7, <2>1 DEF Steps
  <2>2. CASE ch = Quote
    BY <1>1, <1>2, <1>3, <1>4, <1>7, <2>2 DEF Steps
  <2>3. CASE ch \notin Special
    <3>1. CsvStep(st, ch) = At(d, Append(c, ch), "behind", l)
      BY <1>1, <1>7, <2>3 DEF CsvStep, At, Special
    <3> QED BY <1>2, <1>3, <3>1
  <2> QED BY <2>1, <2>2, <2>3 DEF Special
<1> QED BY <1>5, <1>6, <1>7

(* The reader goes through the text character by character.                *)
LEMMA ReadRuns ==
  ASSUME NEW text \in Seq(Chars)
  PROVE  \E r : /\ r[0] = At(<<>>, <<>>, "plain", 0)
                /\ \A i \in 1 .. Len(text) : r[i] = CsvStep(r[i - 1], text[i])
                /\ CsvRead(text) = r[Len(text)]
<1> DEFINE n == Len(text)
           start == At(<<>>, <<>>, "plain", 0)
           F == [i \in 1 .. n |-> [s \in Reading |-> CsvStep(s, text[i])]]
           Eq(f) == f = [i \in 0 .. n |-> IF i = 0 THEN start ELSE CsvStep(f[i - 1], text[i])]
           r == CHOOSE f : Eq(f)
<1>1. n \in Nat /\ \A i \in 1 .. n : text[i] \in Chars
  OBVIOUS
<1>2. start \in Reading
  BY DEF Reading, At
<1>3. \A i \in 1 .. n : F[i] \in [Reading -> Reading]
  BY <1>1, StepTyped
<1>4. CsvRead(text) = r[n]
  BY Zenon DEF CsvRead, At
<1> HIDE DEF n, start
<1>5. PICK g \in [0 .. n -> Reading] : g[0] = start /\ \A i \in 1 .. n : g[i] = F[i][g[i - 1]]
  <2>1. Runs(n, Reading, start, F) # {}
    <3> HIDE DEF F
    <3> QED BY <1>1, <1>2, <1>3, RunExists
  <2> QED BY <2>1 DEF Runs
<1>6. \A i \in 1 .. n : g[i] = CsvStep(g[i - 1], text[i])
  <2>1. \A i \in 1 .. n : g[i - 1] \in Reading
    BY <1>1, <1>5
  <2> QED BY <1>5, <2>1
<1> HIDE DEF F
<1>7. Eq(g)
  <2>1. \A i \in 0 .. n : g[i] = IF i = 0 THEN start ELSE CsvStep(g[i - 1], text[i])
    BY <1>1, <1>5, <1>6
  <2> QED BY <2>1
<1>8. Eq(r)
  <2> HIDE DEF Eq
  <2> QED BY <1>7, Zenon
<1> HIDE DEF r
<1>9. r[0] = start /\ \A i \in 1 .. n : r[i] = CsvStep(r[i - 1], text[i])
  BY <1>1, <1>8
<1> QED BY <1>4, <1>9 DEF n, start

(* A prefix grows by the next item.                                        *)
LEMMA PrefixGrows ==
  ASSUME NEW C, NEW s \in Seq(C), NEW i \in Nat, i < Len(s)
  PROVE  SubSeq(s, 1, i + 1) = Append(SubSeq(s, 1, i), s[i + 1])
OBVIOUS

(* The ends of a prefix.                                                   *)
LEMMA PrefixEnds ==
  ASSUME NEW C, NEW s \in Seq(C)
  PROVE  SubSeq(s, 1, 0) = <<>> /\ SubSeq(s, 1, Len(s)) = s
OBVIOUS

(* A run that reads a text behind the first a characters.                  *)
Reads(r, a, text) == \A k \in 1 .. Len(text) : r[a + k] = CsvStep(r[a + k - 1], text[k])

(* To read a concatenation is to read one text behind the other.           *)
LEMMA ReadsConcat ==
  ASSUME NEW C, NEW s \in Seq(C), NEW t \in Seq(C), NEW r, NEW a \in Nat, Reads(r, a, s \o t)
  PROVE  Reads(r, a, s) /\ Reads(r, a + Len(s), t)
<1>1. PICK u : u = s \o t
  OBVIOUS
<1>2. /\ Len(u) = Len(s) + Len(t) /\ Len(s) \in Nat /\ Len(t) \in Nat
      /\ \A j \in 1 .. Len(s) : u[j] = s[j]
      /\ \A k \in 1 .. Len(t) : u[Len(s) + k] = t[k]
  BY <1>1
<1>3. \A k \in 1 .. Len(u) : r[a + k] = CsvStep(r[a + k - 1], u[k])
  BY <1>1 DEF Reads
<1>4. ASSUME NEW k \in 1 .. Len(s) PROVE r[a + k] = CsvStep(r[a + k - 1], s[k])
  BY <1>2, <1>3
<1>5. ASSUME NEW k \in 1 .. Len(t) PROVE r[a + Len(s) + k] = CsvStep(r[a + Len(s) + k - 1], t[k])
  <2>1. /\ Len(s) + k \in 1 .. Len(u) /\ a + (Len(s) + k) = a + Len(s) + k
        /\ a + (Len(s) + k) - 1 = a + Len(s) + k - 1
    BY <1>2
  <2> QED BY <1>2, <1>3, <2>1
<1> QED BY <1>4, <1>5 DEF Reads

(* To read one character is to take one step.                              *)
LEMMA ReadsOne ==
  ASSUME NEW ch, NEW r, NEW a \in Nat, Reads(r, a, <<ch>>)
  PROVE  r[a + 1] = CsvStep(r[a], ch)
<1>1. Len(<<ch>>) = 1 /\ <<ch>>[1] = ch /\ a + 1 - 1 = a
  OBVIOUS
<1> QED BY <1>1 DEF Reads

(* Reading the text takes the reader from one state to another.            *)
Takes(r, a, text, from, to) == r[a] = from /\ Reads(r, a, text) => r[a + Len(text)] = to

(* A field without special characters is read as it is.                    *)
LEMMA PlainRead ==
  ASSUME NEW f \in Seq(Chars), \A i \in 1 .. Len(f) : f[i] \notin Special,
         NEW d, NEW l, NEW r, NEW a \in Nat
  PROVE  Takes(r, a, f, At(d, <<>>, "plain", l), At(d, f, "plain", l))
<1> SUFFICES ASSUME r[a] = At(d, <<>>, "plain", l), Reads(r, a, f)
             PROVE  r[a + Len(f)] = At(d, f, "plain", l)
  BY DEF Takes
<1> DEFINE n == Len(f)
           Here(i) == r[a + i] = At(d, SubSeq(f, 1, i), "plain", l)
           Read == {i \in 0 .. n : Here(i)}
<1>1. n \in Nat
  OBVIOUS
<1>2. 0 \in Read
  <2>1. SubSeq(f, 1, 0) = <<>> /\ a + 0 = a
    BY PrefixEnds
  <2>2. Here(0)
    BY <2>1
  <2> HIDE DEF Here
  <2> QED BY <1>1, <2>2
<1>3. ASSUME NEW i \in 0 .. n - 1, i \in Read PROVE i + 1 \in Read
  <2>1. i + 1 \in 1 .. n /\ a + (i + 1) - 1 = a + i /\ i \in Nat /\ i < Len(f)
    BY <1>1
  <2>2. PICK ch : ch = f[i + 1] /\ ch \notin Special
    BY <2>1
  <2>3. PICK c : c = SubSeq(f, 1, i) /\ Append(c, ch) = SubSeq(f, 1, i + 1)
    BY <2>1, <2>2, PrefixGrows
  <2>4. r[a + (i + 1)] = CsvStep(r[a + i], ch) /\ r[a + i] = At(d, c, "plain", l)
    BY <1>3, <2>1, <2>2, <2>3 DEF Reads
  <2>5. Steps(d, c, l, ch)
    BY ReaderSteps
  <2>6. r[a + (i + 1)] = At(d, Append(c, ch), "plain", l)
    BY <2>2, <2>4, <2>5 DEF Steps
  <2>7. Here(i + 1)
    BY <2>3, <2>6
  <2> HIDE DEF Here
  <2> QED BY <1>1, <2>1, <2>7
<1>4. n \in Read
  <2> HIDE DEF Read
  <2>1. n \in 0 .. n
    BY <1>1
  <2> HIDE DEF n
  <2> QED BY <1>1, <1>2, <1>3, <2>1, UpTo
<1> QED BY <1>4, PrefixEnds

(* csv_escape doubles a quote.                                             *)
Doubled(f) == [i \in DOMAIN f |-> IF f[i] = Quote THEN <<Quote, Quote>> ELSE <<f[i]>>]

(* A field between quotes.                                                 *)
Enclosed(f) == <<Quote>> \o FlattenSeq(Doubled(f)) \o <<Quote>>

(* The characters of the doubled text.                                     *)
LEMMA DoubledParts ==
  ASSUME NEW f \in Seq(Chars), f # <<>>
  PROVE  /\ Doubled(f) \in Seq(Seq(Chars)) /\ Len(Doubled(f)) = Len(f) /\ Doubled(f) # <<>>
         /\ \A i \in 1 .. Len(f) : f[i] = Quote => Doubled(f)[i] = <<Quote, Quote>>
         /\ \A i \in 1 .. Len(f) : f[i] # Quote => Doubled(f)[i] = <<f[i]>>
<1> DEFINE n == Len(f)
           seqs == Doubled(f)
<1>1. n \in Nat /\ n > 0 /\ DOMAIN f = 1 .. n /\ \A i \in 1 .. n : f[i] \in Chars
  OBVIOUS
<1>2. Quote \in Chars
  BY DEF Chars, Special
<1>3. /\ \A i \in 1 .. n : f[i] = Quote => seqs[i] = <<Quote, Quote>>
      /\ \A i \in 1 .. n : f[i] # Quote => seqs[i] = <<f[i]>>
  BY <1>1 DEF Doubled
<1>4. \A i \in 1 .. n : seqs[i] \in Seq(Chars)
  <2>1. \A ch \in Chars : <<ch>> \in Seq(Chars) /\ <<ch, ch>> \in Seq(Chars)
    OBVIOUS
  <2> HIDE DEF seqs
  <2>2. \A i \in 1 .. n : f[i] = Quote => seqs[i] \in Seq(Chars)
    BY <1>2, <1>3, <2>1
  <2>3. \A i \in 1 .. n : f[i] # Quote => seqs[i] \in Seq(Chars)
    BY <1>1, <1>3, <2>1
  <2> QED BY <2>2, <2>3
<1>5. seqs \in Seq(Seq(Chars)) /\ Len(seqs) = n /\ seqs # <<>>
  <2>1. seqs = [i \in 1 .. n |-> seqs[i]]
    BY <1>1 DEF Doubled
  <2> HIDE DEF seqs
  <2> QED BY <1>1, <1>4, <2>1
<1> QED BY <1>3, <1>5

(* The doubled text is a text.                                             *)
LEMMA DoubledTyped ==
  ASSUME NEW f \in Seq(Chars), f # <<>>
  PROVE  FlattenSeq(Doubled(f)) \in Seq(Chars)
BY DoubledParts, FlattenLays

(* Inside quotes, doubled quotes are read as single ones.                  *)
LEMMA QuotedRead ==
  ASSUME NEW f \in Seq(Chars), f # <<>>,
         NEW d, NEW l, NEW r, NEW a \in Nat, NEW flat, flat = FlattenSeq(Doubled(f))
  PROVE  Takes(r, a, flat, At(d, <<>>, "quoted", l), At(d, f, "quoted", l))
<1> SUFFICES ASSUME r[a] = At(d, <<>>, "quoted", l), Reads(r, a, flat)
             PROVE  r[a + Len(flat)] = At(d, f, "quoted", l)
  BY DEF Takes
<1> DEFINE n == Len(f)
<1>1. n \in Nat
  OBVIOUS
<1>2. PICK seqs \in Seq(Seq(Chars)) : seqs = Doubled(f)
  BY DoubledParts
<1>3. /\ Len(seqs) = n /\ seqs # <<>>
      /\ \A i \in 1 .. n : f[i] = Quote => seqs[i] = <<Quote, Quote>>
      /\ \A i \in 1 .. n : f[i] # Quote => seqs[i] = <<f[i]>>
  BY <1>2, DoubledParts
<1>4. flat \in Seq(Chars) /\ \E start \in [0 .. Len(seqs) -> Nat] : Laid(start, seqs, flat)
  BY <1>2, <1>3, FlattenLays
<1>5. PICK start \in [0 .. Len(seqs) -> Nat] : Laid(start, seqs, flat)
  BY <1>4
<1>6. /\ start \in [0 .. n -> Nat] /\ start[0] = 0 /\ start[n] = Len(flat)
      /\ \A i \in 1 .. n :
           /\ start[i] = start[i - 1] + Len(seqs[i])
           /\ start[i] <= Len(flat)
           /\ \A k \in 1 .. Len(seqs[i]) : flat[start[i - 1] + k] = seqs[i][k]
  <2> HIDE DEF n
  <2> QED BY <1>3, <1>5 DEF Laid
<1>7. PICK m \in Nat : m = Len(flat)
  BY <1>4
<1> DEFINE Here(i) == r[a + start[i]] = At(d, SubSeq(f, 1, i), "quoted", l)
           Read == {i \in 0 .. n : Here(i)}
<1>8. 0 \in Read
  <2>1. SubSeq(f, 1, 0) = <<>> /\ a + start[0] = a
    BY <1>6, PrefixEnds
  <2>2. Here(0)
    BY <2>1
  <2> HIDE DEF Here
  <2> QED BY <1>1, <2>2
<1>9. ASSUME NEW i \in 0 .. n - 1, i \in Read PROVE i + 1 \in Read
  <2>1. i + 1 \in 1 .. n /\ (i + 1) - 1 = i /\ i \in Nat /\ i < Len(f) /\ i \in 0 .. n
    BY <1>1
  <2>2. PICK ch : ch = f[i + 1]
    OBVIOUS
  <2>3. PICK c : c = SubSeq(f, 1, i) /\ Append(c, ch) = SubSeq(f, 1, i + 1)
    BY <2>1, <2>2, PrefixGrows
  <2>4. PICK p \in Nat : p = start[i]
    BY <1>6, <2>1
  <2>5. r[a + p] = At(d, c, "quoted", l)
    BY <1>9, <2>3, <2>4
  <2>6. /\ start[i + 1] = p + Len(seqs[i + 1]) /\ start[i + 1] <= m
        /\ \A k \in 1 .. Len(seqs[i + 1]) : flat[p + k] = seqs[i + 1][k]
    BY <1>6, <1>7, <2>1, <2>4
  <2>7. r[a + start[i + 1]] = At(d, Append(c, ch), "quoted", l)
    <3>1. Steps(d, c, l, ch)
      BY ReaderSteps
    <3>2. CASE ch # Quote
      <4>1. seqs[i + 1] = <<ch>>
        BY <1>3, <2>1, <2>2, <3>2
      <4>2. start[i + 1] = p + 1 /\ p + 1 \in 1 .. m /\ flat[p + 1] = ch
        BY <1>7, <2>4, <2>6, <4>1
      <4>3. r[a + (p + 1)] = CsvStep(r[a + (p + 1) - 1], ch) /\ a + (p + 1) - 1 = a + p
        BY <1>7, <4>2 DEF Reads
      <4> QED BY <2>5, <3>1, <3>2, <4>2, <4>3 DEF Steps
    <3>3. CASE ch = Quote
      <4>1. seqs[i + 1] = <<ch, ch>>
        BY <1>3, <2>1, <2>2, <3>3
      <4>2. Len(<<ch, ch>>) = 2 /\ <<ch, ch>>[1] = ch /\ <<ch, ch>>[2] = ch
        OBVIOUS
      <4>3. start[i + 1] = p + 2 /\ p + 1 \in 1 .. m /\ p + 2 \in 1 .. m
        BY <2>6, <4>1, <4>2
      <4>4. flat[p + 1] = ch /\ flat[p + 2] = ch
        BY <2>6, <4>1, <4>2
      <4>5. r[a + (p + 1)] = CsvStep(r[a + (p + 1) - 1], ch) /\ a + (p + 1) - 1 = a + p
        BY <1>7, <4>3, <4>4 DEF Reads
      <4>6. r[a + (p + 2)] = CsvStep(r[a + (p + 2) - 1], ch) /\ a + (p + 2) - 1 = a + (p + 1)
        BY <1>7, <4>3, <4>4 DEF Reads
      <4>7. r[a + (p + 1)] = At(d, c, "behind", l)
        BY <2>5, <3>1, <3>3, <4>5 DEF Steps
      <4>8. r[a + (p + 2)] = At(d, Append(c, ch), "quoted", l)
        BY <3>1, <3>3, <4>6, <4>7 DEF Steps
      <4> QED BY <4>3, <4>8
    <3> QED BY <3>2, <3>3
  <2>8. Here(i + 1)
    BY <2>3, <2>7
  <2> HIDE DEF Here
  <2> QED BY <1>1, <2>1, <2>8
<1>10. n \in Read
  <2> HIDE DEF Read
  <2>1. n \in 0 .. n
    BY <1>1
  <2> HIDE DEF n
  <2> QED BY <1>1, <1>8, <1>9, <2>1, UpTo
<1> QED BY <1>6, <1>10, PrefixEnds

(* What stands behind a field.                                             *)
Separators == {",", "\n"}

(* csv_escape: what is quoted and what is not.                             *)
LEMMA EscapeCases ==
  ASSUME NEW f \in Seq(Chars)
  PROVE  \/ CsvEscape(f) = f /\ \A i \in 1 .. Len(f) : f[i] \notin Special
         \/ CsvEscape(f) = Enclosed(f) /\ f # <<>>
<1>1. CASE Range(f) \cap Special = {}
  <2>1. \A i \in 1 .. Len(f) : f[i] \in Range(f)
    BY DEF Range
  <2> QED BY <1>1, <2>1 DEF CsvEscape
<1>2. CASE Range(f) \cap Special # {}
  <2>1. f = <<>> => Range(f) = {}
    BY DEF Range
  <2> QED BY <1>2, <2>1 DEF CsvEscape, Enclosed, Doubled
<1> QED BY <1>1, <1>2

(* A special character is a text.                                          *)
LEMMA CharTexts == \A ch \in Special : <<ch>> \in Seq(Chars)
BY DEF Chars

(* csv_escape returns a text.                                              *)
LEMMA EscapeTyped ==
  ASSUME NEW f \in Seq(Chars)
  PROVE  CsvEscape(f) \in Seq(Chars)
<1>1. <<Quote>> \in Seq(Chars)
  BY CharTexts DEF Special
<1>2. f # <<>> => FlattenSeq(Doubled(f)) \in Seq(Chars)
  BY DoubledTyped
<1>3. f # <<>> => Enclosed(f) \in Seq(Chars)
  BY <1>1, <1>2 DEF Enclosed
<1> QED BY <1>3, EscapeCases

(* Behind a field, a separator ends it.                                    *)
Ended(d, f, sep, l) == At(Append(d, f), <<>>, "plain", IF sep = "\n" THEN l + 1 ELSE l)

(* A quoted field is read to its closing quote.                            *)
LEMMA EnclosedRead ==
  ASSUME NEW f \in Seq(Chars), f # <<>>, NEW d, NEW l, NEW r, NEW a \in Nat,
         NEW e, e = Enclosed(f)
  PROVE  Takes(r, a, e, At(d, <<>>, "plain", l), At(d, f, "behind", l))
<1> SUFFICES ASSUME r[a] = At(d, <<>>, "plain", l), Reads(r, a, e)
             PROVE  r[a + Len(e)] = At(d, f, "behind", l)
  BY DEF Takes
<1>1. PICK q \in Seq(Chars), flat \in Seq(Chars) : q = <<Quote>> /\ flat = FlattenSeq(Doubled(f))
  BY CharTexts, DoubledTyped DEF Special
<1>2. q \o flat \in Seq(Chars) /\ e = (q \o flat) \o q
  BY <1>1 DEF Enclosed
<1>3. /\ Len(q) = 1 /\ Len(flat) \in Nat
      /\ Len(q \o flat) = 1 + Len(flat) /\ Len(e) = Len(flat) + 2
  <2>1. Len(q) = 1
    BY <1>1
  <2>2. Len(flat) \in Nat /\ Len(q \o flat) = Len(q) + Len(flat)
    BY ConcatLays
  <2>3. Len(e) = Len(q \o flat) + Len(q)
    BY <1>2, ConcatLays
  <2> QED BY <2>1, <2>2, <2>3
<1>4. Reads(r, a, q \o flat) /\ Reads(r, a + Len(q \o flat), q)
  <2>1. PICK u \in Seq(Chars) : u = q \o flat
    BY <1>2
  <2>2. Reads(r, a, u \o q)
    BY <1>2, <2>1, Zenon
  <2>3. Reads(r, a, u) /\ Reads(r, a + Len(u), q)
    BY <2>2, ReadsConcat
  <2> QED BY <2>1, <2>3, Zenon
<1>5. Reads(r, a, q) /\ Reads(r, a + Len(q), flat)
  BY <1>4, ReadsConcat
<1>6. PICK b \in Nat, c \in Nat : b = a + 1 /\ c = b + Len(flat)
  <2>1. PICK z \in Nat : z = Len(flat)
    BY <1>3, Zenon
  <2>2. a + 1 \in Nat /\ (a + 1) + z \in Nat
    OBVIOUS
  <2> QED BY <2>1, <2>2, Zenon
<1>7. a + Len(q) = b /\ a + Len(q \o flat) = c /\ a + Len(e) = c + 1
  BY <1>3, <1>6
<1>8. Steps(d, <<>>, l, Quote) /\ Steps(d, f, l, Quote)
  BY ReaderSteps
<1>9. r[b] = At(d, <<>>, "quoted", l)
  <2>1. r[a + 1] = CsvStep(r[a], Quote)
    BY <1>1, <1>5, ReadsOne
  <2> QED BY <1>6, <1>8, <2>1 DEF Steps
<1>10. Reads(r, b, flat)
  BY <1>5, <1>7
<1>11. r[c] = At(d, f, "quoted", l)
  <2>1. Takes(r, b, flat, At(d, <<>>, "quoted", l), At(d, f, "quoted", l))
    BY <1>1, QuotedRead
  <2> QED BY <1>6, <1>9, <1>10, <2>1 DEF Takes
<1>12. r[c + 1] = CsvStep(r[c], Quote)
  BY <1>1, <1>4, <1>7, ReadsOne
<1> QED BY <1>7, <1>8, <1>11, <1>12 DEF Steps

(* A field is read back from what csv_escape makes of it.                  *)
LEMMA FieldRead ==
  ASSUME NEW f \in Seq(Chars), NEW sep \in Separators, NEW d, NEW l, NEW r, NEW a \in Nat,
         NEW text, text = CsvEscape(f) \o <<sep>>
  PROVE  Takes(r, a, text, At(d, <<>>, "plain", l), Ended(d, f, sep, l))
<1> SUFFICES ASSUME r[a] = At(d, <<>>, "plain", l), Reads(r, a, text)
             PROVE  r[a + Len(text)] = Ended(d, f, sep, l)
  BY DEF Takes
<1>1. PICK e \in Seq(Chars) : e = CsvEscape(f)
  BY EscapeTyped
<1>2. PICK t \in Seq(Chars) : t = <<sep>>
  BY CharTexts DEF Special, Separators
<1>3. text = e \o t /\ Len(text) = Len(e) + 1
  BY <1>1, <1>2
<1>4. Reads(r, a, e) /\ Reads(r, a + Len(e), t)
  BY <1>3, ReadsConcat
<1>5. PICK b \in Nat : b = a + Len(e)
  BY <1>1
<1>6. r[b + 1] = CsvStep(r[b], sep)
  BY <1>2, <1>4, <1>5, ReadsOne
<1>7. r[b] \in {At(d, f, "plain", l), At(d, f, "behind", l)}
  <2>1. CASE e = f /\ \A i \in 1 .. Len(f) : f[i] \notin Special
    <3>1. Takes(r, a, f, At(d, <<>>, "plain", l), At(d, f, "plain", l))
      BY <2>1, PlainRead
    <3> QED BY <1>4, <1>5, <2>1, <3>1 DEF Takes
  <2>2. CASE e = Enclosed(f) /\ f # <<>>
    <3>1. Takes(r, a, e, At(d, <<>>, "plain", l), At(d, f, "behind", l))
      BY <2>2, EnclosedRead
    <3> QED BY <1>4, <1>5, <3>1 DEF Takes
  <2> QED BY <1>1, <2>1, <2>2, EscapeCases
<1>8. Steps(d, f, l, sep)
  BY ReaderSteps
<1>9. r[b + 1] = Ended(d, f, sep, l)
  BY <1>6, <1>7, <1>8 DEF Steps, Ended, Separators
<1> QED BY <1>3, <1>5, <1>9

(* What stands behind field i of a line.                                   *)
Separator(fields, i) == IF i = Len(fields) THEN "\n" ELSE ","

(* The escaped fields, each with what stands behind it.                    *)
LineParts(fields) ==
  [i \in DOMAIN fields |-> CsvEscape(fields[i]) \o <<Separator(fields, i)>>]

(* A function on 1 .. n is a sequence of its values.                       *)
LEMMA ItemsTyped ==
  ASSUME NEW S, NEW n \in Nat, NEW f, f = [i \in 1 .. n |-> f[i]],
         \A i \in 1 .. n : f[i] \in S
  PROVE  f \in Seq(S) /\ Len(f) = n
<1>1. f \in [1 .. n -> S]
  BY Zenon
<1> QED BY <1>1

(* They are texts, one for each field.                                     *)
LEMMA LinePartsTyped ==
  ASSUME NEW fields \in Seq(Seq(Chars)), fields # <<>>
  PROVE  /\ LineParts(fields) \in Seq(Seq(Chars)) /\ LineParts(fields) # <<>>
         /\ Len(LineParts(fields)) = Len(fields)
         /\ \A i \in 1 .. Len(fields) :
              /\ LineParts(fields)[i] = CsvEscape(fields[i]) \o <<Separator(fields, i)>>
              /\ Separator(fields, i) \in Separators
<1> DEFINE n == Len(fields)
           parts == LineParts(fields)
<1>1. n \in Nat /\ n > 0 /\ DOMAIN fields = 1 .. n /\ \A i \in 1 .. n : fields[i] \in Seq(Chars)
  OBVIOUS
<1>2. \A i \in 1 .. n : Separator(fields, i) \in Separators
  BY DEF Separator, Separators
<1>3. \A i \in 1 .. n : parts[i] = CsvEscape(fields[i]) \o <<Separator(fields, i)>>
  BY <1>1 DEF LineParts
<1>4. parts = [i \in 1 .. n |-> parts[i]]
  BY <1>1 DEF LineParts
<1> HIDE DEF parts, n
<1>5. ASSUME NEW i \in 1 .. n PROVE parts[i] \in Seq(Chars)
  <2>1. PICK e \in Seq(Chars) : e = CsvEscape(fields[i])
    BY <1>1, EscapeTyped
  <2>2. PICK ch : ch = Separator(fields, i) /\ <<ch>> \in Seq(Chars)
    BY <1>2, CharTexts DEF Separators, Special
  <2>3. e \o <<ch>> \in Seq(Chars)
    BY <2>2
  <2> QED BY <1>3, <2>1, <2>2, <2>3
<1>6. parts \in Seq(Seq(Chars)) /\ Len(parts) = n /\ parts # <<>>
  <2>1. PICK S : S = Seq(Chars)
    OBVIOUS
  <2>2. \A i \in 1 .. n : parts[i] \in S
    BY <1>5, <2>1
  <2>3. parts \in Seq(S) /\ Len(parts) = n
    BY <1>1, <1>4, <2>2, ItemsTyped
  <2>4. parts # <<>>
    BY <1>1, <2>3
  <2> QED BY <2>1, <2>3, <2>4
<1> QED BY <1>2, <1>3, <1>5, <1>6 DEF parts, n

(* A line is read back as the record it was made from.                     *)
LEMMA LineIsFaithful ==
  ASSUME NEW fields \in Seq(Seq(Chars)), fields # <<>>
  PROVE  CsvFaithful(fields, CsvLine(fields))
<1> DEFINE n == Len(fields)
<1>1. n \in Nat /\ n > 0 /\ \A i \in 1 .. n : fields[i] \in Seq(Chars)
  OBVIOUS
<1>2. PICK parts \in Seq(Seq(Chars)) : parts = LineParts(fields) /\ parts # <<>> /\ Len(parts) = n
  BY LinePartsTyped
<1>3. CsvLine(fields) = FlattenSeq(parts)
  BY <1>2 DEF CsvLine, LineParts, Separator
<1>4. PICK line \in Seq(Chars) : line = CsvLine(fields)
  BY <1>2, <1>3, FlattenLays
<1>5. PICK start \in [0 .. Len(parts) -> Nat] : Laid(start, parts, line)
  BY <1>2, <1>3, <1>4, FlattenLays
<1>6. /\ start \in [0 .. n -> Nat] /\ start[0] = 0 /\ start[n] = Len(line)
      /\ \A i \in 1 .. n :
           /\ start[i] = start[i - 1] + Len(parts[i])
           /\ start[i] <= Len(line)
           /\ \A k \in 1 .. Len(parts[i]) : line[start[i - 1] + k] = parts[i][k]
  <2> HIDE DEF n
  <2> QED BY <1>2, <1>5 DEF Laid
<1>7. PICK r : /\ r[0] = At(<<>>, <<>>, "plain", 0)
               /\ \A i \in 1 .. Len(line) : r[i] = CsvStep(r[i - 1], line[i])
               /\ CsvRead(line) = r[Len(line)]
  BY ReadRuns
<1>8. PICK m \in Nat : m = Len(line)
  OBVIOUS
<1> DEFINE Count(i) == IF i = n THEN 1 ELSE 0
           Here(i) == r[start[i]] = At(SubSeq(fields, 1, i), <<>>, "plain", Count(i))
           Done == {i \in 0 .. n : Here(i)}
<1>9. 0 \in Done
  <2>1. SubSeq(fields, 1, 0) = <<>> /\ Count(0) = 0
    BY <1>1, PrefixEnds
  <2>2. Here(0)
    BY <1>6, <1>7, <2>1
  <2> HIDE DEF Here
  <2> QED BY <1>1, <2>2
<1>10. ASSUME NEW i \in 0 .. n - 1, i \in Done PROVE i + 1 \in Done
  <2>1. i + 1 \in 1 .. n /\ (i + 1) - 1 = i /\ i \in Nat /\ i < n /\ i \in 0 .. n
    BY <1>1
  <2>2. PICK f \in Seq(Chars) : f = fields[i + 1]
    BY <1>1, <2>1
  <2>3. PICK d : d = SubSeq(fields, 1, i) /\ Append(d, f) = SubSeq(fields, 1, i + 1)
    BY <2>1, <2>2, PrefixGrows
  <2>4. PICK a \in Nat : a = start[i]
    BY <1>6, <2>1
  <2>5. PICK sep \in Separators : sep = Separator(fields, i + 1)
    BY <2>1, LinePartsTyped
  <2>6. PICK part \in Seq(Chars) : part = parts[i + 1]
    BY <1>2, <2>1
  <2>7. part = CsvEscape(f) \o <<sep>>
    <3>1. \A j \in 1 .. n : parts[j] = CsvEscape(fields[j]) \o <<Separator(fields, j)>>
      BY <1>2, LinePartsTyped
    <3> QED BY <2>1, <2>2, <2>5, <2>6, <3>1
  <2>8. /\ start[i + 1] = a + Len(part) /\ start[i + 1] <= m
        /\ \A k \in 1 .. Len(part) : line[a + k] = part[k]
    BY <1>6, <1>8, <2>1, <2>4, <2>6
  <2>9. Reads(r, a, part)
    <3>1. \A k \in 1 .. Len(part) : a + k \in 1 .. m
      BY <2>8
    <3>2. ASSUME NEW k \in 1 .. Len(part) PROVE r[a + k] = CsvStep(r[a + k - 1], part[k])
      <4>1. PICK x \in 1 .. Len(line) : x = a + k
        BY <1>8, <3>1
      <4>2. r[x] = CsvStep(r[x - 1], line[x])
        BY <1>7, Zenon
      <4>3. line[x] = part[k]
        BY <2>8, <4>1
      <4>4. r[x] = CsvStep(r[x - 1], part[k])
        BY <4>2, <4>3
      <4> QED BY <4>1, <4>4
    <3> QED BY <3>2, Zenon DEF Reads
  <2>10. PICK l : l = Count(i) /\ l = 0
    BY <1>1, <2>1
  <2>11. r[a] = At(d, <<>>, "plain", l)
    BY <1>10, <2>3, <2>4, <2>10
  <2>12. Takes(r, a, part, At(d, <<>>, "plain", l), Ended(d, f, sep, l))
    BY <2>7, FieldRead
  <2>13. r[start[i + 1]] = Ended(d, f, sep, l)
    BY <2>8, <2>9, <2>11, <2>12 DEF Takes
  <2>14. (IF sep = "\n" THEN l + 1 ELSE l) = Count(i + 1)
    <3>1. CASE i + 1 = n
      <4>1. sep = "\n" /\ Count(i + 1) = 1
        BY <2>5, <3>1 DEF Separator
      <4> QED BY <2>10, <4>1
    <3>2. CASE i + 1 # n
      <4>1. sep # "\n" /\ Count(i + 1) = 0
        BY <2>5, <3>2, Chs DEF Separator
      <4> QED BY <2>10, <4>1
    <3> QED BY <3>1, <3>2
  <2>15. Here(i + 1)
    BY <2>3, <2>13, <2>14 DEF Ended
  <2> HIDE DEF Here
  <2> QED BY <1>1, <2>1, <2>15
<1>11. n \in Done
  <2> HIDE DEF Done
  <2>1. n \in 0 .. n
    BY <1>1
  <2> HIDE DEF n
  <2> QED BY <1>1, <1>9, <1>10, <2>1, UpTo
<1>12. r[Len(line)] = At(fields, <<>>, "plain", 1)
  BY <1>6, <1>11, PrefixEnds
<1> QED BY <1>4, <1>7, <1>12 DEF CsvFaithful, At

(* What export_csv writes is read back as the record it was made from, as  *)
(* one line, whatever commas, quotes and newlines the fields hold.         *)
THEOREM ExportsAreFaithful == ReportSpec => []ExportFaithful
<1>1. Init => ExportFaithful
  BY DEF Init, NoJob, ExportFaithful
<1>2. ExportFaithful /\ [ReportNext]_job => ExportFaithful'
  <2> SUFFICES ASSUME ExportFaithful, [ReportNext]_job PROVE ExportFaithful'
    OBVIOUS
  <2>1. CASE QueryAuditLog
    BY <2>1 DEF QueryAuditLog, ExportFaithful
  <2>2. CASE ExportCsv
    <3>1. PICK fields \in Records :
            job' = [op |-> "export", fields |-> fields, line |-> CsvLine(fields)]
      BY <2>2 DEF ExportCsv
    <3>2. fields \in Seq(Seq(STRING)) /\ fields # <<>>
      BY ReportInputs DEF ReportInputs
    <3>3. fields \in Seq(Seq(Chars))
      BY <3>2 DEF Chars
    <3>4. CsvFaithful(fields, CsvLine(fields))
      BY <3>2, <3>3, LineIsFaithful
    <3> QED BY <3>1, <3>4 DEF ExportFaithful
  <2>3. CASE Score
    BY <2>3 DEF Score, ExportFaithful
  <2>4. CASE Match
    BY <2>4 DEF Match, ExportFaithful
  <2>5. CASE Return
    BY <2>5 DEF Return, NoJob, ExportFaithful
  <2>6. CASE job' = job
    BY <2>6 DEF ExportFaithful
  <2> QED BY <2>1, <2>2, <2>3, <2>4, <2>5, <2>6 DEF ReportNext, ReportCall
<1> QED BY <1>1, <1>2, PTL DEF ReportSpec

-----------------------------------------------------------------------------
(* matches_pattern.                                                        *)

(* The least element of a set of numbers.                                  *)
LEMMA MinIsLeast ==
  ASSUME NEW S \in SUBSET Nat, S # {}
  PROVE  Min(S) \in S /\ \A y \in S : Min(S) <= y
<1>1. \E x \in S : \A y \in S : x <= y
  BY SmallestOf
<1>2. Min(S) = CHOOSE x \in S : \A y \in S : x <= y
  BY DEF Min
<1> QED BY <1>1, <1>2

(* Where the part that begins at i ends.                                   *)
EndOf(pattern, i) == Min({j \in i .. Len(pattern) : j = Len(pattern) \/ pattern[j + 1] = "*"})

(* A part goes to the next star.                                           *)
LEMMA PartEnds ==
  ASSUME NEW C, NEW pattern \in Seq(C), NEW i \in Begins(pattern)
  PROVE  /\ i \in 1 .. Len(pattern) /\ EndOf(pattern, i) \in i .. Len(pattern)
         /\ \A j \in i .. EndOf(pattern, i) : pattern[j] # "*"
         /\ EndOf(pattern, i) < Len(pattern) => pattern[EndOf(pattern, i) + 1] = "*"
<1> DEFINE n == Len(pattern)
           S == {j \in i .. n : j = n \/ pattern[j + 1] = "*"}
           e == Min(S)
<1>1. i \in 1 .. n /\ n \in Nat /\ pattern[i] # "*"
  BY DEF Begins
<1>2. S \in SUBSET Nat /\ n \in S
  BY <1>1
<1>3. e \in S /\ \A j \in S : e <= j
  <2> HIDE DEF S
  <2> QED BY <1>2, MinIsLeast
<1>4. e = EndOf(pattern, i)
  BY DEF EndOf
<1> HIDE DEF e
<1>5. ASSUME NEW j \in i .. e PROVE pattern[j] # "*"
  <2>1. CASE j = i
    BY <1>1, <2>1
  <2>2. CASE j # i
    <3>1. j - 1 \in i .. n /\ j - 1 < e /\ (j - 1) + 1 = j
      BY <1>1, <1>3, <2>2
    <3>2. j - 1 \notin S
      <4>1. e \in Int
        BY <1>1, <1>3
      <4> HIDE DEF S
      <4> QED BY <1>1, <1>3, <3>1, <4>1
    <3> QED BY <3>1, <3>2
  <2> QED BY <2>1, <2>2
<1> QED BY <1>1, <1>3, <1>4, <1>5

(* There is no star from b to e.                                           *)
Literal(pattern, b, e) == \A j \in b .. e : pattern[j] # "*"

(* The text has characters b to e of the pattern from k on.                *)
Spelled(pattern, text, b, e, k) == \A j \in b .. e : text[k + (j - b)] = pattern[j]

(* A slice of a sequence.                                                  *)
LEMMA SliceItems ==
  ASSUME NEW C, NEW s \in Seq(C), NEW k \in Nat, NEW len \in Nat, k >= 1, k + len - 1 <= Len(s)
  PROVE  /\ SubSeq(s, k, k + len - 1) \in Seq(C) /\ Len(SubSeq(s, k, k + len - 1)) = len
         /\ \A m \in 1 .. len : SubSeq(s, k, k + len - 1)[m] = s[k + m - 1]
OBVIOUS

(* Sequences are equal if their items are.                                 *)
LEMMA SameItems ==
  ASSUME NEW C, NEW s \in Seq(C), NEW t \in Seq(C), Len(s) = Len(t),
         \A m \in 1 .. Len(s) : s[m] = t[m]
  PROVE  s = t
OBVIOUS

(* The occurrences of a part are where the text has its characters.        *)
LEMMA PartOccurs ==
  ASSUME NEW C, NEW pattern \in Seq(C), NEW text \in Seq(C), NEW b \in Begins(pattern),
         NEW e, e = EndOf(pattern, b)
  PROVE  /\ Len(Part(pattern, b)) = e - b + 1
         /\ Occurrences(Part(pattern, b), text) \subseteq 1 .. Len(text)
         /\ \A k \in Int : k \in Occurrences(Part(pattern, b), text) <=>
              k >= 1 /\ k + (e - b) <= Len(text) /\ Spelled(pattern, text, b, e, k)
<1> DEFINE part == Part(pattern, b)
<1>1. /\ b \in 1 .. Len(pattern) /\ e \in b .. Len(pattern)
      /\ Len(text) \in Nat /\ Len(pattern) \in Nat
  BY PartEnds
<1>2. part = SubSeq(pattern, b, e)
  BY DEF Part, EndOf
<1>3. PICK len \in Nat : len = e - b + 1 /\ len > 0
  BY <1>1
<1>4. /\ part \in Seq(C) /\ Len(part) = len
      /\ \A m \in 1 .. len : part[m] = pattern[b + m - 1]
  <2> HIDE DEF part
  <2> QED BY <1>3, <1>1, <1>2
<1> HIDE DEF part
<1>5. ASSUME NEW k \in Int, k >= 1, k + len - 1 <= Len(text)
      PROVE  (SubSeq(text, k, k + len - 1) = part) <=> Spelled(pattern, text, b, e, k)
  <2>1. PICK s : s = SubSeq(text, k, k + len - 1)
    OBVIOUS
  <2>2. s \in Seq(C) /\ Len(s) = len /\ \A m \in 1 .. len : s[m] = text[k + m - 1]
    <3>1. k \in Nat
      BY <1>5
    <3>2. /\ SubSeq(text, k, k + len - 1) \in Seq(C) /\ Len(SubSeq(text, k, k + len - 1)) = len
          /\ \A m \in 1 .. len : SubSeq(text, k, k + len - 1)[m] = text[k + m - 1]
      BY <1>5, <3>1, SliceItems
    <3> QED BY <2>1, <3>2, Zenon
  <2>3. s = part <=> \A m \in 1 .. len : s[m] = part[m]
    <3>1. Len(s) = Len(part) /\ Len(s) = len
      BY <1>4, <2>2, Zenon
    <3>2. (\A m \in 1 .. len : s[m] = part[m]) => s = part
      BY <1>4, <2>2, <3>1, SameItems
    <3> QED BY <3>2, Zenon
  <2>4. ASSUME \A m \in 1 .. len : s[m] = part[m], NEW j \in b .. e
        PROVE  text[k + (j - b)] = pattern[j]
    <3>1. j - b + 1 \in 1 .. len /\ k + (j - b + 1) - 1 = k + (j - b) /\ b + (j - b + 1) - 1 = j
      BY <1>3, <1>1, <1>5
    <3> QED BY <1>4, <2>2, <2>4, <3>1
  <2>5. ASSUME \A j \in b .. e : text[k + (j - b)] = pattern[j], NEW m \in 1 .. len
        PROVE  s[m] = part[m]
    <3>1. b + m - 1 \in b .. e /\ k + ((b + m - 1) - b) = k + m - 1
      BY <1>3, <1>1, <1>5
    <3> QED BY <1>4, <2>2, <2>5, <3>1
  <2> QED BY <2>1, <2>3, <2>4, <2>5 DEF Spelled
<1>6. \A k \in Int : k + len - 1 = k + (e - b)
  BY <1>3, <1>1
<1>7. \A k \in Int : k \in Occurrences(part, text) <=>
         k >= 1 /\ k + len - 1 <= Len(text) /\ SubSeq(text, k, k + len - 1) = part
  <2>1. Len(text) \in Int /\ Len(part) = len
    BY <1>1, <1>4
  <2>2. \A k \in Int : k \in 1 .. Len(text) - len + 1 <=> k >= 1 /\ k + len - 1 <= Len(text)
    BY <2>1
  <2>3. Occurrences(part, text) =
          {k \in 1 .. Len(text) - len + 1 : SubSeq(text, k, k + len - 1) = part}
    BY <2>1, Zenon DEF Occurrences
  <2> QED BY <2>2, <2>3, Zenon
<1>8. Occurrences(part, text) \subseteq 1 .. Len(text)
  BY <1>3, <1>1, <1>4 DEF Occurrences
<1>9. ASSUME NEW k \in Int
      PROVE  k \in Occurrences(part, text) <=>
               k >= 1 /\ k + (e - b) <= Len(text) /\ Spelled(pattern, text, b, e, k)
  BY <1>5, <1>6, <1>7
<1> QED BY <1>3, <1>4, <1>8, <1>9 DEF part

(* An occurrence at k that the loop may take when end is consumed.         *)
Follows(i, end, k) == k > end /\ (i = 1 => k = end + 1)

(* One turn of the loop: it takes such an occurrence, and if there is one  *)
(* it takes one that is not behind it.                                     *)
LEMMA ConsumeFinds ==
  ASSUME NEW C, NEW pattern \in Seq(C), NEW text \in Seq(C), NEW i \in Begins(pattern),
         NEW ends \in SUBSET (0 .. Len(text)), NEW e, e = EndOf(pattern, i)
  PROVE  /\ \A x \in Consume(pattern, text, i, ends) :
              \E end \in ends, k \in Occurrences(Part(pattern, i), text) :
                Follows(i, end, k) /\ x = k + (e - i)
         /\ \A end \in ends, k \in Occurrences(Part(pattern, i), text) :
              Follows(i, end, k) => \E x \in Consume(pattern, text, i, ends) : x <= k + (e - i)
<1> DEFINE occ == Occurrences(Part(pattern, i), text)
           Found(end) == {k \in occ : k > end /\ (i = 1 => k = end + 1)}
<1>1. Consume(pattern, text, i, ends) =
        {Min(Found(end)) + Len(Part(pattern, i)) - 1 : end \in {end \in ends : Found(end) # {}}}
  BY DEF Consume
<1>2. Len(Part(pattern, i)) = e - i + 1 /\ occ \subseteq 1 .. Len(text) /\ Len(text) \in Nat
  BY PartOccurs
<1>3. e \in Int /\ i \in Int /\ \A m \in Int : m + (e - i + 1) - 1 = m + (e - i)
  BY PartEnds
<1> HIDE DEF occ
<1>4. ASSUME NEW end \in ends, Found(end) # {}
      PROVE  Min(Found(end)) \in Found(end) /\ \A k \in Found(end) : Min(Found(end)) <= k
  <2>1. Found(end) \subseteq occ /\ occ \subseteq Nat
    BY <1>2
  <2> HIDE DEF Found
  <2> QED BY <1>4, <2>1, MinIsLeast
<1>5. ASSUME NEW x \in Consume(pattern, text, i, ends)
      PROVE  \E end \in ends, k \in occ : Follows(i, end, k) /\ x = k + (e - i)
  <2>1. PICK end \in ends : Found(end) # {} /\ x = Min(Found(end)) + (e - i + 1) - 1
    <3> HIDE DEF Found
    <3> QED BY <1>1, <1>2
  <2>2. PICK k : k = Min(Found(end))
    OBVIOUS
  <2>3. k \in Found(end)
    BY <1>4, <2>1, <2>2
  <2>4. k \in occ /\ Follows(i, end, k) /\ k \in Int
    BY <1>2, <2>3 DEF Follows
  <2> QED BY <1>3, <2>1, <2>2, <2>4
<1>6. ASSUME NEW end \in ends, NEW k \in occ, Follows(i, end, k)
      PROVE  \E x \in Consume(pattern, text, i, ends) : x <= k + (e - i)
  <2>1. k \in Found(end)
    BY <1>6 DEF Follows
  <2>2. PICK m : m = Min(Found(end)) /\ m \in Found(end) /\ m <= k
    BY <1>4, <2>1
  <2>3. m + (e - i) \in Consume(pattern, text, i, ends)
    <3>1. Min(Found(end)) + (e - i + 1) - 1 \in Consume(pattern, text, i, ends)
      <4> HIDE DEF Found
      <4> QED BY <1>1, <1>2, <2>1
    <3> QED BY <1>2, <1>3, <2>2, <3>1
  <2>4. m \in Int /\ k \in Int
    BY <1>2, <2>2
  <2> QED BY <1>3, <2>2, <2>3, <2>4
<1> QED BY <1>5, <1>6 DEF occ

(* Sets of lengths of prefixes of the text.                                *)
Lengths(text) == SUBSET (0 .. Len(text))

(* The turns of the loop.                                                  *)
ConsumeRun(pattern, text, r) ==
  /\ r \in [0 .. Len(pattern) -> Lengths(text)]
  /\ r[0] = {0}
  /\ \A i \in 1 .. Len(pattern) : r[i] = Consume(pattern, text, i, r[i - 1])

(* The steps of the reference.                                             *)
GlobRun(pattern, text, r) ==
  /\ r \in [0 .. Len(pattern) -> Lengths(text)]
  /\ r[0] = {0}
  /\ \A i \in 1 .. Len(pattern) : r[i] = GlobStep(pattern, text, i, r[i - 1])

(* A turn consumes prefixes of the text.                                   *)
LEMMA ConsumeTyped ==
  ASSUME NEW C, NEW pattern \in Seq(C), NEW text \in Seq(C), NEW i,
         NEW ends \in Lengths(text)
  PROVE  Consume(pattern, text, i, ends) \in Lengths(text)
<1>1. CASE i \notin Begins(pattern)
  BY <1>1 DEF Consume
<1>2. CASE i \in Begins(pattern)
  <2>1. PICK e \in Nat : e = EndOf(pattern, i) /\ e >= i /\ i \in Nat
    BY <1>2, PartEnds
  <2>2. ASSUME NEW x \in Consume(pattern, text, i, ends) PROVE x \in 0 .. Len(text)
    <3>1. PICK end \in ends, k \in Occurrences(Part(pattern, i), text) : x = k + (e - i)
      BY <1>2, <2>1, <2>2, ConsumeFinds DEF Lengths
    <3>2. k \in 1 .. Len(text)
      BY <1>2, PartOccurs
    <3>3. k + (e - i) <= Len(text)
      BY <1>2, <2>1, <3>2, PartOccurs
    <3> QED BY <2>1, <3>1, <3>2, <3>3
  <2> QED BY <2>2 DEF Lengths
<1> QED BY <1>1, <1>2

(* Consumed is what the last turn leaves.                                  *)
LEMMA ConsumedRuns ==
  ASSUME NEW C, NEW pattern \in Seq(C), NEW text \in Seq(C)
  PROVE  \E r : ConsumeRun(pattern, text, r) /\ Consumed(pattern, text) = r[Len(pattern)]
<1> DEFINE n == Len(pattern)
           P == Lengths(text)
           first == {0}
           F == [i \in 1 .. n |-> [s \in P |-> Consume(pattern, text, i, s)]]
           Eq(f) == f = [i \in 0 .. n |->
                           IF i = 0 THEN first ELSE Consume(pattern, text, i, f[i - 1])]
           r == CHOOSE f : Eq(f)
<1>1. n \in Nat /\ first \in P
  BY DEF Lengths
<1>2. Consumed(pattern, text) = r[n]
  BY Zenon DEF Consumed
<1> HIDE DEF n, P, first
<1>3. \A i \in 1 .. n : F[i] \in [P -> P]
  BY ConsumeTyped DEF P
<1>4. PICK g \in [0 .. n -> P] : g[0] = first /\ \A i \in 1 .. n : g[i] = F[i][g[i - 1]]
  <2>1. Runs(n, P, first, F) # {}
    <3> HIDE DEF F
    <3> QED BY <1>1, <1>3, RunExists
  <2> QED BY <2>1 DEF Runs
<1>5. \A i \in 1 .. n : g[i] = Consume(pattern, text, i, g[i - 1])
  <2>1. \A i \in 1 .. n : g[i - 1] \in P
    BY <1>1, <1>4
  <2> QED BY <1>4, <2>1
<1> HIDE DEF F
<1>6. Eq(g)
  <2>1. \A i \in 0 .. n : g[i] = IF i = 0 THEN first ELSE Consume(pattern, text, i, g[i - 1])
    BY <1>1, <1>4, <1>5
  <2> QED BY <2>1
<1>7. Eq(r)
  <2> HIDE DEF Eq
  <2> QED BY <1>6, Zenon
<1> HIDE DEF r
<1>8. r[0] = first /\ \A i \in 1 .. n : r[i] = Consume(pattern, text, i, r[i - 1])
  BY <1>1, <1>7
<1> DEFINE Same == {i \in 0 .. n : r[i] \in P}
<1>9. 0 \in Same
  BY <1>1, <1>8
<1>10. ASSUME NEW i \in 0 .. n - 1, i \in Same PROVE i + 1 \in Same
  <2>1. i + 1 \in 1 .. n /\ i + 1 \in 0 .. n /\ (i + 1) - 1 = i
    BY <1>1
  <2>2. Consume(pattern, text, i + 1, r[i]) \in P
    BY <1>10, ConsumeTyped DEF P
  <2> QED BY <1>8, <2>1, <2>2
<1>11. \A i \in 0 .. n : i \in Same
  <2> HIDE DEF Same
  <2> QED BY <1>1, <1>9, <1>10, UpTo
<1>12. r \in [0 .. n -> P]
  BY <1>7, <1>11
<1> QED BY <1>2, <1>8, <1>12 DEF ConsumeRun, n, P, first

(* A step of the reference ends prefixes of the text.                      *)
LEMMA GlobTyped ==
  ASSUME NEW C, NEW pattern \in Seq(C), NEW text \in Seq(C), NEW i,
         NEW ends \in Lengths(text)
  PROVE  GlobStep(pattern, text, i, ends) \in Lengths(text)
BY DEF GlobStep, Lengths

(* The glob holds if the last step may end the whole text.                 *)
LEMMA GlobRuns ==
  ASSUME NEW C, NEW pattern \in Seq(C), NEW text \in Seq(C)
  PROVE  \E r : GlobRun(pattern, text, r) /\ (Glob(pattern, text) <=> Len(text) \in r[Len(pattern)])
<1> DEFINE n == Len(pattern)
           P == Lengths(text)
           first == {0}
           F == [i \in 1 .. n |-> [s \in P |-> GlobStep(pattern, text, i, s)]]
           Eq(f) == f = [i \in 0 .. n |->
                           IF i = 0 THEN first ELSE GlobStep(pattern, text, i, f[i - 1])]
           r == CHOOSE f : Eq(f)
<1>1. n \in Nat /\ first \in P
  BY DEF Lengths
<1>2. Glob(pattern, text) <=> Len(text) \in r[n]
  BY Zenon DEF Glob
<1> HIDE DEF n, P, first
<1>3. \A i \in 1 .. n : F[i] \in [P -> P]
  BY GlobTyped DEF P
<1>4. PICK g \in [0 .. n -> P] : g[0] = first /\ \A i \in 1 .. n : g[i] = F[i][g[i - 1]]
  <2>1. Runs(n, P, first, F) # {}
    <3> HIDE DEF F
    <3> QED BY <1>1, <1>3, RunExists
  <2> QED BY <2>1 DEF Runs
<1>5. \A i \in 1 .. n : g[i] = GlobStep(pattern, text, i, g[i - 1])
  <2>1. \A i \in 1 .. n : g[i - 1] \in P
    BY <1>1, <1>4
  <2> QED BY <1>4, <2>1
<1> HIDE DEF F
<1>6. Eq(g)
  <2>1. \A i \in 0 .. n : g[i] = IF i = 0 THEN first ELSE GlobStep(pattern, text, i, g[i - 1])
    BY <1>1, <1>4, <1>5
  <2> QED BY <2>1
<1>7. Eq(r)
  <2> HIDE DEF Eq
  <2> QED BY <1>6, Zenon
<1> HIDE DEF r
<1>8. r[0] = first /\ \A i \in 1 .. n : r[i] = GlobStep(pattern, text, i, r[i - 1])
  BY <1>1, <1>7
<1> DEFINE Same == {i \in 0 .. n : r[i] \in P}
<1>9. 0 \in Same
  BY <1>1, <1>8
<1>10. ASSUME NEW i \in 0 .. n - 1, i \in Same PROVE i + 1 \in Same
  <2>1. i + 1 \in 1 .. n /\ i + 1 \in 0 .. n /\ (i + 1) - 1 = i
    BY <1>1
  <2>2. GlobStep(pattern, text, i + 1, r[i]) \in P
    BY <1>10, GlobTyped DEF P
  <2> QED BY <1>8, <2>1, <2>2
<1>11. \A i \in 0 .. n : i \in Same
  <2> HIDE DEF Same
  <2> QED BY <1>1, <1>9, <1>10, UpTo
<1>12. r \in [0 .. n -> P]
  BY <1>7, <1>11
<1> QED BY <1>2, <1>8, <1>12 DEF GlobRun, n, P, first

(* The characters of a part match one after the other.                     *)
LEMMA PartInGlob ==
  ASSUME NEW C, NEW pattern \in Seq(C), NEW text \in Seq(C), NEW r, GlobRun(pattern, text, r),
         NEW b \in 1 .. Len(pattern), NEW e \in b .. Len(pattern),
         Literal(pattern, b, e), NEW k \in Int
  PROVE  k + (e - b) \in r[e] <=>
           k - 1 \in r[b - 1] /\ k + (e - b) <= Len(text) /\ Spelled(pattern, text, b, e, k)
<1> DEFINE n == Len(pattern)
           L == Len(text)
           Here(m) == k - 1 + m \in r[b - 1 + m] <=>
                        /\ k - 1 \in r[b - 1] /\ k - 1 + m <= L
                        /\ Spelled(pattern, text, b, b - 1 + m, k)
           S == {m \in 0 .. e - b + 1 : Here(m)}
<1>1. n \in Nat /\ L \in Nat /\ b \in 1 .. n /\ e \in b .. n /\ e - b + 1 \in Nat
  OBVIOUS
<1>2. \A i \in 0 .. n : r[i] \subseteq 0 .. L
  BY DEF GlobRun, Lengths
<1>3. \A i \in 1 .. n : r[i] = GlobStep(pattern, text, i, r[i - 1])
  BY DEF GlobRun
<1> HIDE DEF n, L
<1>4. 0 \in S
  <2>1. b - 1 + 0 = b - 1 /\ b - 1 \in 0 .. n /\ k - 1 + 0 = k - 1
    BY <1>1
  <2>2. k - 1 \in r[b - 1] => k - 1 <= L
    BY <1>1, <1>2, <2>1
  <2>3. Spelled(pattern, text, b, b - 1, k)
    BY <1>1 DEF Spelled
  <2>4. Here(0)
    BY <2>1, <2>2, <2>3
  <2> HIDE DEF Here
  <2> QED BY <1>1, <2>4
<1>5. ASSUME NEW m \in 0 .. (e - b + 1) - 1, m \in S PROVE m + 1 \in S
  <2>1. PICK i \in 1 .. n : i = b + m /\ i \in b .. e
    BY <1>1
  <2>2. /\ b - 1 + (m + 1) = i /\ b - 1 + m = i - 1 /\ k - 1 + (m + 1) = k + m
        /\ (k + m) - 1 = k - 1 + m /\ m \in Int /\ b - 1 \in 0 .. n /\ pattern[i] # "*"
    BY <1>1, <2>1 DEF Literal
  <2>3. k + m \in r[i] <=> k + m \in 1 .. L /\ (k + m) - 1 \in r[i - 1] /\ text[k + m] = pattern[i]
    <3>1. r[i] = GlobStep(pattern, text, i, r[i - 1])
      BY <1>3
    <3> QED BY <2>2, <3>1 DEF GlobStep, L
  <2>4. (k + m) - 1 \in r[i - 1] <=>
          k - 1 \in r[b - 1] /\ k - 1 + m <= L /\ Spelled(pattern, text, b, i - 1, k)
    BY <1>5, <2>2
  <2>5. k - 1 \in r[b - 1] => k + m >= 1
    BY <1>1, <1>2, <2>2
  <2>6. Spelled(pattern, text, b, i, k) <=>
          Spelled(pattern, text, b, i - 1, k) /\ text[k + m] = pattern[i]
    <3>1. k + (i - b) = k + m /\ i \in b .. i
      BY <1>1, <2>1, <2>2
    <3>2. \A j \in b .. i : j \in b .. i - 1 \/ j = i
      BY <1>1, <2>1
    <3>3. \A j \in b .. i - 1 : j \in b .. i
      BY <1>1, <2>1
    <3> QED BY <3>1, <3>2, <3>3 DEF Spelled
  <2>7. (k + m \in 1 .. L <=> k + m >= 1 /\ k + m <= L) /\ (k + m <= L => k - 1 + m <= L)
    BY <1>1, <2>2
  <2>8. k + m \in r[i] <=> k - 1 \in r[b - 1] /\ k + m <= L /\ Spelled(pattern, text, b, i, k)
    BY <2>3, <2>4, <2>5, <2>6, <2>7
  <2>9. Here(m + 1)
    BY <2>2, <2>8
  <2>10. m + 1 \in 0 .. e - b + 1
    BY <1>1
  <2> HIDE DEF Here
  <2> QED BY <2>9, <2>10
<1>6. e - b + 1 \in S
  <2>1. e - b + 1 \in 0 .. e - b + 1
    BY <1>1
  <2> HIDE DEF S
  <2> QED BY <1>1, <1>4, <1>5, <2>1, UpTo
<1>7. b - 1 + (e - b + 1) = e /\ k - 1 + (e - b + 1) = k + (e - b)
  BY <1>1
<1> QED BY <1>6, <1>7 DEF L

(* Every literal character belongs to a part.                              *)
LEMMA PartBegins ==
  ASSUME NEW C, NEW pattern \in Seq(C), NEW e \in 1 .. Len(pattern), pattern[e] # "*"
  PROVE  \E b \in Begins(pattern) : b \in 1 .. e /\ \A j \in b .. e : pattern[j] # "*"
<1> DEFINE S == {b \in 1 .. e : \A j \in b .. e : pattern[j] # "*"}
<1>1. S \in SUBSET Nat /\ e \in S
  OBVIOUS
<1>2. PICK b \in S : \A y \in S : b <= y
  <2> HIDE DEF S
  <2> QED BY <1>1, SmallestOf
<1>3. b \in 1 .. e /\ (\A j \in b .. e : pattern[j] # "*") /\ e \in Nat /\ b \in Nat
  OBVIOUS
<1>4. ASSUME b > 1 PROVE pattern[b - 1] = "*"
  <2>1. b - 1 \notin S /\ b - 1 \in 1 .. e
    <3> HIDE DEF S
    <3> QED BY <1>2, <1>3, <1>4
  <2>2. PICK j \in b - 1 .. e : pattern[j] = "*"
    BY <2>1
  <2>3. j = b - 1
    BY <1>3, <2>2
  <2> QED BY <2>2, <2>3
<1>5. b \in Begins(pattern)
  BY <1>3, <1>4 DEF Begins
<1> QED BY <1>3, <1>5

(* It ends before the next star.                                           *)
LEMMA OneEnd ==
  ASSUME NEW C, NEW pattern \in Seq(C), NEW b \in Begins(pattern), NEW e \in b .. Len(pattern),
         \A j \in b .. e : pattern[j] # "*", e < Len(pattern) => pattern[e + 1] = "*"
  PROVE  e = EndOf(pattern, b)
<1>1. PICK f \in b .. Len(pattern) : f = EndOf(pattern, b)
  BY PartEnds
<1>2. /\ b \in Nat /\ Len(pattern) \in Nat /\ \A j \in b .. f : pattern[j] # "*"
      /\ f < Len(pattern) => pattern[f + 1] = "*"
  BY <1>1, PartEnds
<1>3. CASE e < f
  BY <1>2, <1>3
<1>4. CASE f < e
  BY <1>2, <1>4
<1> QED BY <1>1, <1>2, <1>3, <1>4

(* A place between parts: the start, behind a star, before one, the end.   *)
Boundary(pattern, i) ==
  \/ i = 0 \/ pattern[i] = "*"
  \/ i = Len(pattern) \/ pattern[i + 1] = "*"

(* Where the part that reaches to i ends.                                  *)
Reaches(pattern, i, e) ==
  IF i = 0 \/ pattern[i] = "*" THEN e = i
  ELSE /\ e \in i .. Len(pattern) /\ \A j \in i .. e : pattern[j] # "*"
       /\ e < Len(pattern) => pattern[e + 1] = "*"

(* Between parts, that is where it is.                                     *)
LEMMA ReachesItself ==
  ASSUME NEW C, NEW pattern \in Seq(C), NEW i \in 0 .. Len(pattern), Boundary(pattern, i)
  PROVE  Reaches(pattern, i, i)
<1>1. Len(pattern) \in Nat
  OBVIOUS
<1>2. CASE i = 0 \/ pattern[i] = "*"
  BY <1>2 DEF Reaches
<1>3. CASE ~(i = 0 \/ pattern[i] = "*")
  <2>1. \A j \in i .. i : j = i
    BY <1>1
  <2> QED BY <1>1, <1>3, <2>1 DEF Reaches, Boundary
<1> QED BY <1>2, <1>3

(* What a star of the glob matches.                                        *)
LEMMA StarStep ==
  ASSUME NEW C, NEW pattern \in Seq(C), NEW text \in Seq(C), NEW r, GlobRun(pattern, text, r),
         NEW i \in 1 .. Len(pattern), pattern[i] = "*"
  PROVE  /\ \A k : k \in r[i] <=> k \in 0 .. Len(text) /\ \E end \in r[i - 1] : end <= k
         /\ \A x \in r[i], k \in 0 .. Len(text) : x <= k => k \in r[i]
<1>1. r[i] = {k \in 0 .. Len(text) : \E end \in r[i - 1] : end <= k}
  BY DEF GlobRun, GlobStep
<1>2. \A j \in 0 .. Len(pattern) : r[j] \subseteq 0 .. Len(text)
  BY DEF GlobRun, Lengths
<1>3. i - 1 \in 0 .. Len(pattern) /\ Len(text) \in Nat
  OBVIOUS
<1>4. r[i - 1] \subseteq Int /\ r[i] \subseteq Int
  BY <1>2, <1>3
<1>5. ASSUME NEW x \in r[i], NEW k \in 0 .. Len(text), x <= k PROVE k \in r[i]
  <2>1. PICK end \in r[i - 1] : end <= x
    BY <1>1
  <2>2. end <= k
    BY <1>3, <1>4, <1>5, <2>1
  <2> QED BY <1>1, <2>1, <2>2
<1> QED BY <1>1, <1>5

(* What matches_pattern has consumed behind a part, the glob may consume.  *)
LEMMA ConsumedInGlob ==
  ASSUME NEW C, NEW pattern \in Seq(C), NEW text \in Seq(C),
         NEW c, ConsumeRun(pattern, text, c), NEW r, GlobRun(pattern, text, r)
  PROVE  \A i \in 0 .. Len(pattern) : \A e : Reaches(pattern, i, e) => c[i] \subseteq r[e]
<1> DEFINE n == Len(pattern)
           L == Len(text)
           Inside(i) == \A e : Reaches(pattern, i, e) => c[i] \subseteq r[e]
           S == {i \in 0 .. n : Inside(i)}
<1>1. n \in Nat /\ L \in Nat
  OBVIOUS
<1>2. /\ c[0] = {0} /\ r[0] = {0}
      /\ \A i \in 0 .. n : c[i] \subseteq 0 .. L /\ r[i] \subseteq 0 .. L
      /\ \A i \in 1 .. n : c[i] = Consume(pattern, text, i, c[i - 1])
  BY DEF ConsumeRun, GlobRun, Lengths
<1>3. 0 \in S
  <2>1. Inside(0)
    BY <1>2 DEF Reaches
  <2> HIDE DEF Inside
  <2> QED BY <1>1, <2>1
<1>4. ASSUME NEW i \in 0 .. n - 1, i \in S PROVE i + 1 \in S
  <2>1. /\ i + 1 \in 1 .. n /\ i + 1 \in 0 .. n /\ (i + 1) - 1 = i
        /\ i \in 0 .. n /\ i \in Nat /\ i < n
    BY <1>1
  <2>2. c[i + 1] = Consume(pattern, text, i + 1, c[i])
    BY <1>2, <2>1
  <2>3. Boundary(pattern, i) => c[i] \subseteq r[i]
    BY <1>4, <2>1, ReachesItself
  <2>4. CASE pattern[i + 1] = "*"
    <3>1. i + 1 \notin Begins(pattern)
      BY <2>4 DEF Begins
    <3>2. c[i + 1] = c[i]
      BY <2>2, <3>1 DEF Consume
    <3>3. c[i] \subseteq r[i]
      BY <2>3, <2>4 DEF Boundary
    <3>4. ASSUME NEW x \in c[i] PROVE x \in r[i + 1]
      <4>1. x \in r[i] /\ x \in 0 .. L /\ x <= x
        BY <1>1, <1>2, <2>1, <3>3, <3>4
      <4> QED BY <2>1, <2>4, <4>1, StarStep
    <3>5. Inside(i + 1)
      BY <2>4, <3>2, <3>4 DEF Reaches
    <3> HIDE DEF Inside
    <3> QED BY <2>1, <3>5
  <2>5. CASE pattern[i + 1] # "*" /\ i + 1 \notin Begins(pattern)
    <3>1. c[i + 1] = c[i]
      BY <2>2, <2>5 DEF Consume
    <3>2. i > 0 /\ pattern[i] # "*"
      BY <2>1, <2>5 DEF Begins
    <3>3. ASSUME NEW e, Reaches(pattern, i + 1, e) PROVE Reaches(pattern, i, e)
      <4>1. /\ e \in i + 1 .. n /\ \A j \in i + 1 .. e : pattern[j] # "*"
            /\ e < n => pattern[e + 1] = "*"
        BY <2>1, <2>5, <3>3 DEF Reaches
      <4>2. e \in i .. n /\ \A j \in i .. e : j = i \/ j \in i + 1 .. e
        BY <2>1, <4>1
      <4> QED BY <2>1, <3>2, <4>1, <4>2 DEF Reaches
    <3>4. Inside(i + 1)
      BY <1>4, <3>1, <3>3
    <3> HIDE DEF Inside
    <3> QED BY <2>1, <3>4
  <2>6. CASE i + 1 \in Begins(pattern)
    <3>1. pattern[i + 1] # "*" /\ (i > 0 => pattern[i] = "*")
      BY <2>1, <2>6 DEF Begins
    <3>2. c[i] \subseteq r[i]
      BY <2>3, <3>1 DEF Boundary
    <3>3. ASSUME NEW e, Reaches(pattern, i + 1, e), NEW x \in c[i + 1] PROVE x \in r[e]
      <4>1. /\ e \in i + 1 .. n /\ \A j \in i + 1 .. e : pattern[j] # "*"
            /\ e < n => pattern[e + 1] = "*"
        BY <2>1, <3>1, <3>3 DEF Reaches
      <4>2. e = EndOf(pattern, i + 1)
        BY <2>6, <4>1, OneEnd
      <4>3. PICK b \in Begins(pattern) : b = i + 1 /\ b - 1 = i /\ b \in 1 .. n /\ e \in b .. n
        BY <2>1, <2>6, <4>1
      <4>4. c[i] \in SUBSET (0 .. L) /\ Literal(pattern, b, e)
        BY <1>2, <2>1, <4>1, <4>3 DEF Literal
      <4>5. PICK end \in c[i], k \in Occurrences(Part(pattern, b), text) :
              Follows(b, end, k) /\ x = k + (e - b)
        <5>1. x \in Consume(pattern, text, b, c[i]) /\ e = EndOf(pattern, b)
          BY <2>2, <3>3, <4>2, <4>3
        <5> QED BY <4>4, <5>1, ConsumeFinds
      <4>6. k \in 1 .. L
        BY PartOccurs
      <4>7. k + (e - b) <= L /\ Spelled(pattern, text, b, e, k)
        BY <4>2, <4>3, <4>6, PartOccurs
      <4>8. k - 1 \in r[b - 1]
        <5>1. end \in r[i] /\ end \in 0 .. L /\ k - 1 \in 0 .. L
          BY <1>1, <3>2, <4>4, <4>6
        <5>2. CASE i = 0
          BY <1>2, <4>3, <4>5, <5>1, <5>2 DEF Follows
        <5>3. CASE i # 0
          <6>1. i \in 1 .. n /\ pattern[i] = "*"
            BY <2>1, <3>1, <5>3
          <6>2. end <= k - 1
            BY <4>5, <4>6, <5>1 DEF Follows
          <6> QED BY <4>3, <5>1, <6>1, <6>2, StarStep
        <5> QED BY <5>2, <5>3
      <4>9. k + (e - b) \in r[e]
        <5>1. k \in Int
          BY <4>6
        <5>2. k + (e - b) \in r[e] <=>
                k - 1 \in r[b - 1] /\ k + (e - b) <= L /\ Spelled(pattern, text, b, e, k)
          BY <4>3, <4>4, <5>1, PartInGlob
        <5> QED BY <4>7, <4>8, <5>2, Zenon
      <4> QED BY <4>5, <4>9
    <3>4. Inside(i + 1)
      BY <3>3
    <3> HIDE DEF Inside
    <3> QED BY <2>1, <3>4
  <2> QED BY <2>4, <2>5, <2>6
<1>5. \A i \in 0 .. n : i \in S
  <2> HIDE DEF S
  <2> QED BY <1>1, <1>3, <1>4, UpTo
<1> QED BY <1>5

(* Inside a part nothing more is looked for.                               *)
LEMMA PartConsumed ==
  ASSUME NEW C, NEW pattern \in Seq(C), NEW text \in Seq(C),
         NEW c, ConsumeRun(pattern, text, c), NEW b \in 1 .. Len(pattern),
         NEW e \in b .. Len(pattern), Literal(pattern, b, e)
  PROVE  c[e] = c[b]
<1> DEFINE S == {m \in 0 .. e - b : c[b + m] = c[b]}
<1>1. e - b \in Nat /\ Len(pattern) \in Nat /\ b + 0 = b /\ b + (e - b) = e
  OBVIOUS
<1>2. 0 \in S
  BY <1>1
<1>3. ASSUME NEW m \in 0 .. (e - b) - 1, m \in S PROVE m + 1 \in S
  <2>1. PICK i \in 1 .. Len(pattern) : i = b + (m + 1) /\ i - 1 = b + m /\ i - 1 \in b .. e /\ i > 1
    BY <1>1
  <2>2. i \notin Begins(pattern)
    BY <2>1 DEF Begins, Literal
  <2>3. c[i] = Consume(pattern, text, i, c[i - 1])
    BY DEF ConsumeRun
  <2>4. c[i] = c[i - 1]
    BY <2>2, <2>3 DEF Consume
  <2>5. m + 1 \in 0 .. e - b
    BY <1>1
  <2> QED BY <1>3, <2>1, <2>4, <2>5
<1>4. e - b \in S
  <2>1. e - b \in 0 .. e - b
    BY <1>1
  <2> HIDE DEF S
  <2> QED BY <1>1, <1>2, <1>3, <2>1, UpTo
<1> QED BY <1>1, <1>4

(* The part that ends at e, and the occurrence by which the glob matches   *)
(* the text up to x with it: the loop finds the part there or before.      *)
LEMMA LoopIsFirst ==
  ASSUME NEW C, NEW pattern \in Seq(C), NEW text \in Seq(C),
         NEW c, ConsumeRun(pattern, text, c), NEW r, GlobRun(pattern, text, r),
         NEW b \in Begins(pattern), NEW e \in b .. Len(pattern), e = EndOf(pattern, b),
         NEW x \in r[e],
         \A y \in r[b - 1] : \E end \in c[b - 1] : end <= y
  PROVE  /\ x - (e - b) \in Occurrences(Part(pattern, b), text)
         /\ \E y \in c[e] : y <= x
<1> DEFINE n == Len(pattern)
           L == Len(text)
<1>1. n \in Nat /\ L \in Nat /\ b \in 1 .. n /\ e \in Nat /\ e \in 0 .. n /\ b - 1 \in 0 .. n
  BY PartEnds
<1>2. Literal(pattern, b, e)
  BY PartEnds DEF Literal
<1>3. /\ c[0] = {0} /\ r[0] = {0}
      /\ \A i \in 0 .. n : c[i] \subseteq 0 .. L /\ r[i] \subseteq 0 .. L
      /\ c[b] = Consume(pattern, text, b, c[b - 1])
  BY <1>1 DEF ConsumeRun, GlobRun, Lengths
<1>4. PICK k \in Int : k = x - (e - b) /\ k + (e - b) = x
  BY <1>1, <1>3
<1>5. k + (e - b) \in r[e] <=>
        k - 1 \in r[b - 1] /\ k + (e - b) <= L /\ Spelled(pattern, text, b, e, k)
  BY <1>1, <1>2, PartInGlob
<1>6. k - 1 \in r[b - 1] /\ x <= L /\ Spelled(pattern, text, b, e, k)
  BY <1>4, <1>5
<1>7. k >= 1
  BY <1>1, <1>3, <1>6
<1>8. k \in Occurrences(Part(pattern, b), text)
  BY <1>4, <1>6, <1>7, PartOccurs
<1>9. PICK end \in c[b - 1] : end <= k - 1
  BY <1>6
<1>10. Follows(b, end, k)
  <2>1. end \in Int
    BY <1>1, <1>3
  <2>2. ASSUME b = 1 PROVE end = 0 /\ k - 1 = 0
    BY <1>3, <1>6, <1>9, <2>2
  <2> QED BY <1>9, <2>1, <2>2 DEF Follows
<1>11. c[b - 1] \in SUBSET (0 .. L)
  BY <1>1, <1>3
<1>12. PICK y \in Consume(pattern, text, b, c[b - 1]) : y <= k + (e - b)
  BY <1>8, <1>10, <1>11, ConsumeFinds
<1>13. c[e] = c[b]
  BY <1>1, <1>2, PartConsumed
<1> QED BY <1>3, <1>4, <1>8, <1>12, <1>13

(* Wherever the glob may be between two parts, the loop is not further.    *)
LEMMA LoopNotFurther ==
  ASSUME NEW C, NEW pattern \in Seq(C), NEW text \in Seq(C),
         NEW c, ConsumeRun(pattern, text, c), NEW r, GlobRun(pattern, text, r)
  PROVE  \A i \in 0 .. Len(pattern) :
           Boundary(pattern, i) => \A x \in r[i] : \E y \in c[i] : y <= x
<1> DEFINE n == Len(pattern)
           Behind(i) == \A x \in r[i] : \E y \in c[i] : y <= x
           Until(i) == \A j \in 0 .. i : Boundary(pattern, j) => Behind(j)
           S == {i \in 0 .. n : Until(i)}
<1>1. n \in Nat
  OBVIOUS
<1>2. /\ c[0] = {0} /\ r[0] = {0}
      /\ \A i \in 0 .. n : c[i] \subseteq 0 .. Len(text) /\ r[i] \subseteq 0 .. Len(text)
      /\ \A i \in 1 .. n : c[i] = Consume(pattern, text, i, c[i - 1])
  BY DEF ConsumeRun, GlobRun, Lengths
<1>3. 0 \in S
  <2>1. Behind(0)
    BY <1>2
  <2> HIDE DEF Behind
  <2> QED BY <1>1, <2>1
<1>4. ASSUME NEW i \in 0 .. n - 1, i \in S PROVE i + 1 \in S
  <2>1. i + 1 \in 1 .. n /\ i + 1 \in 0 .. n /\ (i + 1) - 1 = i /\ i \in Nat /\ i < n
    BY <1>1
  <2>2. ASSUME Boundary(pattern, i + 1) PROVE Behind(i + 1)
    <3>1. CASE pattern[i + 1] = "*"
      <4>1. i + 1 \notin Begins(pattern)
        BY <3>1 DEF Begins
      <4>2. c[i + 1] = c[i]
        BY <1>2, <2>1, <4>1 DEF Consume
      <4>3. Boundary(pattern, i) /\ i \in 0 .. i
        BY <2>1, <3>1 DEF Boundary
      <4>4. Behind(i)
        BY <1>4, <4>3
      <4>5. ASSUME NEW x \in r[i + 1] PROVE \E y \in c[i + 1] : y <= x
        <5>1. x \in 0 .. Len(text) /\ \E end \in r[i] : end <= x
          BY <2>1, <3>1, StarStep
        <5>2. PICK end \in r[i] : end <= x
          BY <5>1
        <5>3. PICK y \in c[i] : y <= end
          BY <4>4
        <5>4. r[i] \subseteq 0 .. Len(text) /\ c[i] \subseteq 0 .. Len(text) /\ Len(text) \in Nat
          <6>1. i \in 0 .. n /\ Len(text) \in Nat
            BY <2>1
          <6> QED BY <1>2, <6>1
        <5>5. y <= x
          BY <5>1, <5>2, <5>3, <5>4
        <5> QED BY <4>2, <5>5
      <4> QED BY <4>5
    <3>2. CASE pattern[i + 1] # "*"
      <4>1. PICK e \in 1 .. n : e = i + 1 /\ pattern[e] # "*"
        BY <2>1, <3>2
      <4>2. PICK b \in Begins(pattern) : b \in 1 .. e /\ \A j \in b .. e : pattern[j] # "*"
        BY <4>1, PartBegins
      <4>3. e \in b .. n /\ (e < n => pattern[e + 1] = "*")
        BY <1>1, <2>1, <2>2, <4>1, <4>2 DEF Boundary
      <4>4. e = EndOf(pattern, b)
        BY <4>2, <4>3, OneEnd
      <4>5. b - 1 \in 0 .. i /\ Boundary(pattern, b - 1)
        BY <2>1, <4>1, <4>2 DEF Boundary, Begins
      <4>6. Behind(b - 1)
        BY <1>4, <4>5
      <4>7. \A x \in r[e] : \E y \in c[e] : y <= x
        BY <4>3, <4>4, <4>6, LoopIsFirst
      <4> QED BY <4>1, <4>7
    <3> QED BY <3>1, <3>2
  <2>3. \A j \in 0 .. i + 1 : j \in 0 .. i \/ j = i + 1
    BY <2>1
  <2>4. Until(i + 1)
    <3> HIDE DEF Behind
    <3> QED BY <1>4, <2>2, <2>3
  <2> HIDE DEF Until
  <2> QED BY <2>1, <2>4
<1>5. \A i \in 0 .. n : i \in S
  <2> HIDE DEF S
  <2> QED BY <1>1, <1>3, <1>4, UpTo
<1>6. \A i \in 0 .. n : i \in 0 .. i
  BY <1>1
<1> QED BY <1>5, <1>6

(* A text matches itself.                                                  *)
LEMMA GlobOfItself ==
  ASSUME NEW C, NEW text \in Seq(C), NEW r, GlobRun(text, text, r)
  PROVE  Len(text) \in r[Len(text)]
<1> DEFINE n == Len(text)
           S == {i \in 0 .. n : i \in r[i]}
<1>1. n \in Nat
  OBVIOUS
<1>2. r[0] = {0} /\ \A i \in 1 .. n : r[i] = GlobStep(text, text, i, r[i - 1])
  BY DEF GlobRun
<1>3. 0 \in S
  BY <1>1, <1>2
<1>4. ASSUME NEW i \in 0 .. n - 1, i \in S PROVE i + 1 \in S
  <2>1. i + 1 \in 1 .. n /\ i + 1 \in 0 .. n /\ (i + 1) - 1 = i /\ i <= i + 1 /\ i \in r[i]
    BY <1>1, <1>4
  <2>2. r[i + 1] = GlobStep(text, text, i + 1, r[i])
    BY <1>2, <2>1
  <2>3. i + 1 \in r[i + 1]
    BY <2>1, <2>2 DEF GlobStep
  <2> QED BY <2>1, <2>3
<1>5. n \in S
  <2>1. n \in 0 .. n
    BY <1>1
  <2> HIDE DEF S
  <2> QED BY <1>1, <1>3, <1>4, <2>1, UpTo
<1> QED BY <1>5

(* The last part of a pattern that does not end in a star.                 *)
LEMMA LastPart ==
  ASSUME NEW C, NEW pattern \in Seq(C), pattern # <<>>, ~OpenEnd(pattern)
  PROVE  /\ Max(Begins(pattern)) \in Begins(pattern)
         /\ Literal(pattern, Max(Begins(pattern)), Len(pattern))
         /\ EndOf(pattern, Max(Begins(pattern))) = Len(pattern)
<1> DEFINE n == Len(pattern)
<1>1. n \in Nat /\ n \in 1 .. n /\ pattern[n] # "*"
  BY DEF OpenEnd
<1>2. PICK b \in Begins(pattern) : b \in 1 .. n /\ \A j \in b .. n : pattern[j] # "*"
  BY <1>1, PartBegins
<1>3. ASSUME NEW a \in Begins(pattern) PROVE b >= a /\ a \in Int
  <2>1. a \in 1 .. n /\ (a > 1 => pattern[a - 1] = "*")
    BY DEF Begins
  <2>2. CASE a > b
    <3>1. a - 1 \in b .. n /\ a > 1
      BY <1>2, <2>1, <2>2
    <3> QED BY <1>2, <2>1, <3>1
  <2> QED BY <1>2, <2>1, <2>2
<1>4. Max(Begins(pattern)) = b
  <2>1. PICK S : S = Begins(pattern)
    OBVIOUS
  <2>2. b \in S /\ b \in Int /\ \A a \in S : b >= a /\ a \in Int
    BY <1>2, <1>3, <2>1
  <2>3. Max(S) \in S /\ \A a \in S : Max(S) >= a
    BY <2>2 DEF Max
  <2>4. Max(S) = b
    <3>1. PICK m \in S : m = Max(S) /\ m >= b
      BY <2>2, <2>3
    <3> QED BY <2>2, <3>1
  <2> QED BY <2>1, <2>4
<1>5. n = EndOf(pattern, b)
  BY <1>1, <1>2, OneEnd
<1> QED BY <1>2, <1>4, <1>5 DEF Literal

(* A set with two elements.                                                *)
LEMMA TwoOfMany ==
  ASSUME NEW n \in Nat, NEW S \in SUBSET (1 .. n), NEW a \in S, NEW k \in S, k # a
  PROVE  Cardinality(S) > 1
<1>1. IsFiniteSet(1 .. n)
  BY FS_Interval
<1>2. IsFiniteSet(S)
  BY <1>1, FS_Subset
<1>3. IsFiniteSet({a}) /\ Cardinality({a}) = 1
  BY FS_Singleton
<1>4. PICK T : T = {a} \cup {k}
  OBVIOUS
<1>5. Cardinality(T) = Cardinality({a}) + 1
  BY <1>3, <1>4, FS_AddElement
<1>6. T \in SUBSET S
  BY <1>4
<1>7. Cardinality(T) <= Cardinality(S) /\ Cardinality(S) \in Nat
  BY <1>2, <1>6, FS_Subset, FS_CardinalityType
<1> QED BY <1>3, <1>5, <1>7

(* matches_pattern against the glob.                                       *)
LEMMA MatchIsWithinGlob ==
  ASSUME NEW C, NEW pattern \in Seq(C), NEW text \in Seq(C)
  PROVE  MatchWithinGlob(pattern, text, MatchesPattern(pattern, text))
<1> DEFINE n == Len(pattern)
           L == Len(text)
<1>1. PICK c : ConsumeRun(pattern, text, c) /\ Consumed(pattern, text) = c[n]
  BY ConsumedRuns
<1>2. PICK r : GlobRun(pattern, text, r) /\ (Glob(pattern, text) <=> L \in r[n])
  BY GlobRuns
<1>3. /\ n \in Nat /\ L \in Nat /\ n \in 0 .. n /\ L \in 0 .. L
      /\ (pattern = <<>> <=> n = 0) /\ (pattern # <<>> => n \in 1 .. n)
  OBVIOUS
<1>4. /\ c[0] = {0} /\ r[0] = {0} /\ c[n] \subseteq 0 .. L
  BY <1>1, <1>2, <1>3 DEF ConsumeRun, GlobRun, Lengths
<1>5. Boundary(pattern, n)
  BY DEF Boundary
<1>6. c[n] \subseteq r[n]
  <2>1. Reaches(pattern, n, n)
    BY <1>3, <1>5, ReachesItself
  <2> QED BY <1>1, <1>2, <1>3, <2>1, ConsumedInGlob
<1>7. ASSUME MatchesPattern(pattern, text) PROVE Glob(pattern, text)
  <2>1. CASE pattern = <<"*">>
    <3>1. n = 1 /\ pattern[n] = "*" /\ n \in 1 .. n /\ n - 1 = 0
      BY <2>1
    <3>2. 0 \in r[n - 1] /\ 0 <= L
      BY <1>3, <1>4, <3>1
    <3> QED BY <1>2, <1>3, <3>1, <3>2, StarStep
  <2>2. CASE pattern = text
    BY <1>2, <2>2, GlobOfItself
  <2>3. CASE \E end \in Consumed(pattern, text) : OpenEnd(pattern) \/ end = Len(text)
    <3>1. PICK end \in c[n] : OpenEnd(pattern) \/ end = L
      BY <1>1, <2>3
    <3>2. end \in r[n] /\ end <= L
      BY <1>3, <1>4, <1>6
    <3>3. CASE OpenEnd(pattern)
      <4>1. n \in 1 .. n /\ pattern[n] = "*"
        BY <1>3, <3>3 DEF OpenEnd
      <4> QED BY <1>2, <1>3, <3>2, <4>1, StarStep
    <3> QED BY <1>2, <3>1, <3>2, <3>3
  <2> QED BY <1>7, <2>1, <2>2, <2>3 DEF MatchesPattern
<1>8. ASSUME Glob(pattern, text), ~MatchesPattern(pattern, text)
      PROVE  /\ ~OpenEnd(pattern) /\ "*" \in Range(pattern)
             /\ Cardinality(Occurrences(Part(pattern, Max(Begins(pattern))), text)) > 1
  <2>1. L \in r[n] /\ pattern # text /\ \A end \in c[n] : ~OpenEnd(pattern) /\ end # L
    BY <1>1, <1>2, <1>8 DEF MatchesPattern
  <2>2. PICK y \in c[n] : y <= L
    BY <1>1, <1>2, <1>3, <1>5, <2>1, LoopNotFurther
  <2>3. ~OpenEnd(pattern) /\ y # L
    BY <2>1
  <2>4. pattern # <<>>
    <3>1. ASSUME pattern = <<>> PROVE FALSE
      <4>1. n = 0 /\ L = 0
        BY <1>3, <1>4, <2>1, <3>1
      <4> QED BY <2>1, <3>1, <4>1
    <3> QED BY <3>1
  <2>5. PICK b \in Begins(pattern) : /\ b = Max(Begins(pattern)) /\ EndOf(pattern, b) = n
                                     /\ Literal(pattern, b, n)
    BY <2>3, <2>4, LastPart
  <2>6. b \in 1 .. n /\ n \in b .. n
    BY <1>3, <2>5, PartEnds
  <2>7. "*" \in Range(pattern)
    <3>1. CASE b > 1
      <4>1. b - 1 \in DOMAIN pattern /\ pattern[b - 1] = "*"
        BY <1>3, <2>6, <3>1 DEF Begins
      <4> QED BY <4>1 DEF Range
    <3>2. CASE b = 1
      <4>1. PICK k \in Int : k = L - (n - 1) /\ k + (n - b) = L
        BY <1>3, <3>2
      <4>2. k - 1 \in r[b - 1] /\ Spelled(pattern, text, b, n, k)
        <5>1. k + (n - b) \in r[n] <=>
                k - 1 \in r[b - 1] /\ k + (n - b) <= L /\ Spelled(pattern, text, b, n, k)
          BY <1>2, <2>5, <2>6, PartInGlob
        <5> QED BY <2>1, <4>1, <5>1
      <4>3. k = 1 /\ L = n
        BY <1>3, <1>4, <3>2, <4>1, <4>2
      <4>4. \A m \in 1 .. n : pattern[m] = text[m]
        <5>1. ASSUME NEW m \in 1 .. n PROVE pattern[m] = text[m]
          <6>1. text[1 + (m - 1)] = pattern[m] /\ 1 + (m - 1) = m
            BY <3>2, <4>2, <4>3 DEF Spelled
          <6> QED BY <6>1
        <5> QED BY <5>1
      <4>5. pattern = text
        BY <4>3, <4>4, SameItems
      <4> QED BY <2>1, <4>5
    <3> QED BY <2>6, <3>1, <3>2
  <2> DEFINE occ == Occurrences(Part(pattern, b), text)
  <2>8. L - (n - b) \in occ
    <3>1. b - 1 \in 0 .. n /\ Boundary(pattern, b - 1)
      BY <1>3, <2>6 DEF Boundary, Begins
    <3>2. \A z \in r[b - 1] : \E end \in c[b - 1] : end <= z
      BY <1>1, <1>2, <3>1, LoopNotFurther
    <3> QED BY <1>1, <1>2, <2>1, <2>5, <2>6, <3>2, LoopIsFirst
  <2>9. PICK k \in occ : y = k + (n - b)
    <3>1. c[n] = c[b]
      BY <1>1, <2>5, <2>6, PartConsumed
    <3>2. /\ c[b] = Consume(pattern, text, b, c[b - 1])
          /\ c[b - 1] \in SUBSET (0 .. Len(text))
      <4>1. b - 1 \in 0 .. n
        BY <1>3, <2>6
      <4> QED BY <1>1, <2>6, <4>1 DEF ConsumeRun, Lengths
    <3>3. y \in Consume(pattern, text, b, c[b - 1])
      BY <3>1, <3>2
    <3>4. \E end \in c[b - 1], k \in occ : Follows(b, end, k) /\ y = k + (n - b)
      BY <2>5, <3>2, <3>3, ConsumeFinds
    <3> QED BY <3>4
  <2>10. k # L - (n - b)
    BY <1>3, <2>3, <2>6, <2>9
  <2>11. occ \subseteq 1 .. L
    BY PartOccurs
  <2>12. Cardinality(occ) > 1
    <3> HIDE DEF occ
    <3> QED BY <1>3, <2>8, <2>10, <2>11, TwoOfMany
  <2> QED BY <2>3, <2>5, <2>7, <2>12
<1> QED BY <1>7, <1>8 DEF MatchWithinGlob

(* A mask directive never reaches a field its pattern does not describe,   *)
(* and misses one it describes only if the last literal part of a pattern  *)
(* with a star occurs more than once in the path.                          *)
THEOREM MatchesStayWithinGlob == ReportSpec => []MatchesAreSound
<1>1. Init => MatchesAreSound
  BY DEF Init, NoJob, MatchesAreSound
<1>2. MatchesAreSound /\ [ReportNext]_job => MatchesAreSound'
  <2> SUFFICES ASSUME MatchesAreSound, [ReportNext]_job PROVE MatchesAreSound'
    OBVIOUS
  <2>1. CASE QueryAuditLog
    BY <2>1 DEF QueryAuditLog, MatchesAreSound
  <2>2. CASE ExportCsv
    BY <2>2 DEF ExportCsv, MatchesAreSound
  <2>3. CASE Score
    BY <2>3 DEF Score, MatchesAreSound
  <2>4. CASE Match
    <3>1. PICK pattern \in Patterns, text \in Texts :
            job' = [op |-> "match", pattern |-> pattern, text |-> text,
                    matched |-> MatchesPattern(pattern, text)]
      BY <2>4 DEF Match
    <3>2. pattern \in Seq(STRING) /\ text \in Seq(STRING)
      BY ReportInputs DEF ReportInputs
    <3>3. MatchWithinGlob(pattern, text, MatchesPattern(pattern, text))
      BY <3>2, MatchIsWithinGlob
    <3> QED BY <3>1, <3>3 DEF MatchesAreSound
  <2>5. CASE Return
    BY <2>5 DEF Return, NoJob, MatchesAreSound
  <2>6. CASE job' = job
    BY <2>6 DEF MatchesAreSound
  <2> QED BY <2>1, <2>2, <2>3, <2>4, <2>5, <2>6 DEF ReportNext, ReportCall
<1> QED BY <1>1, <1>2, PTL DEF ReportSpec

=============================================================================
