------------------------------ MODULE Reports ------------------------------
(***************************************************************************)
(* The pure functions of claw-guard on flat data: query and export_csv of  *)
(* the audit log, compute_risk and matches_pattern, each called on one     *)
(* input at a time.  A job holds the input of a call and what it returned; *)
(* the properties compare the two.  Module Algorithms adds the functions   *)
(* that recurse over documents and conditions.                             *)
(***************************************************************************)
EXTENDS RiskScore, AuditReader, FieldPatterns

CONSTANTS
  Logs, Queries,  \* contents of audit_log, gRPC requests
  Records,        \* rows of the export
  Hours,          \* hours of the day
  Patterns, Texts \* for matches_pattern

(* A table is finite; times, bounds and limits are whole numbers.  A row   *)
(* of the export has fields, which are texts, as are patterns and paths.   *)
ASSUME ReportInputs ==
  /\ \A log \in Logs : IsFiniteSet(log) /\ \A row \in log : row.ts \in Int
  /\ \A q \in Queries : q.start \in Int /\ q.end \in Int /\ q.limit \in Int
  /\ \A fields \in Records : fields \in Seq(Seq(STRING)) /\ fields # <<>>
  /\ \A text \in Patterns \cup Texts : text \in Seq(STRING)

VARIABLE job

NoJob == [op |-> "none"]

Init == job = NoJob

QueryAuditLog ==
  \E q \in Queries, log \in Logs : \E answer \in Query(q, log) :
    job' = [op |-> "query", q |-> q, log |-> log, answer |-> answer]

ExportCsv ==
  \E fields \in Records :
    job' = [op |-> "export", fields |-> fields, line |-> CsvLine(fields)]

Score ==
  \E req \in Request, hour \in Hours :
    job' = [op |-> "score", req |-> req, hour |-> hour, risk |-> ComputeRisk(req, hour)]

Match ==
  \E pattern \in Patterns, text \in Texts :
    job' = [op |-> "match", pattern |-> pattern, text |-> text,
            matched |-> MatchesPattern(pattern, text)]

ReportCall ==
  /\ job = NoJob
  /\ QueryAuditLog \/ ExportCsv \/ Score \/ Match

Return ==
  /\ job # NoJob
  /\ job' = NoJob

ReportNext == ReportCall \/ Return

ReportSpec == Init /\ [][ReportNext]_job

-----------------------------------------------------------------------------
(* Properties.                                                             *)

(* The audit log is reported within the window, newest first, and          *)
(* incomplete only where limit or end_ts say so (query_audit_log).         *)
QueriesFaithful ==
  job.op = "query" => QueryFaithful(job.q, job.log, job.answer)

(* Exported rows can be read back (export_csv, csv_escape).                *)
ExportFaithful == job.op = "export" => CsvFaithful(job.fields, job.line)

(* A request that does one more dangerous thing, or comes outside business *)
(* hours, scores higher, unless the score is full already; and no score    *)
(* exceeds that of a refused session (compute_risk).                       *)
RiskOrdersRequests ==
  job.op = "score" =>
    /\ job.risk \in 0..SessionRisk
    /\ job.risk < SessionRisk =>
         /\ \A f \in {f \in DOMAIN job.req : ~job.req[f]} :
              job.risk < ComputeRisk([job.req EXCEPT ![f] = TRUE], job.hour)
         /\ \A hour \in Hours : OffHours(hour) /\ ~OffHours(job.hour) =>
              job.risk < ComputeRisk(job.req, hour)

(* A mask directive never reaches a field its pattern does not describe,   *)
(* and misses one it describes only if the last literal part of a pattern  *)
(* with a star occurs more than once in the path (matches_pattern).        *)
MatchesAreSound ==
  job.op = "match" => MatchWithinGlob(job.pattern, job.text, job.matched)

(* "Path or glob-like field pattern": a pattern matches what it matches as *)
(* a glob.  matches_pattern looks for each part at its leftmost occurrence *)
(* and then demands that nothing is left behind the last one.              *)
MatchesLikeAGlob ==
  job.op = "match" => job.matched = Glob(job.pattern, job.text)

=============================================================================
