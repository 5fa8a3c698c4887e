---------------------------- MODULE AuditReader ----------------------------
(***************************************************************************)
(* Reading the audit log of claw-guard: AuditReader::query and export_csv  *)
(* in src/src/audit/mod.rs and the gRPC handler query_audit_log, whose     *)
(* times are whole seconds while the rows hold milliseconds.               *)
(*                                                                         *)
(* A row has a time `ts` in milliseconds and `tag`, which stands for every *)
(* column a filter compares for equality (workspace, session, decision,    *)
(* resource).  Texts are sequences of characters.                          *)
(***************************************************************************)
EXTENDS Integers, SequencesExt

CONSTANT MsPerSecond  \* 1000, or less in a small instance

ASSUME SecondsHaveMs == MsPerSecond \in Nat \ {0}

(* A request names a tag (or none, ""), two bounds in seconds and a limit; *)
(* the handler drops bounds and limits that are not positive.              *)
FilterOf(q) ==
  [tag |-> q.tag,
   start |-> IF q.start > 0 THEN {q.start * MsPerSecond} ELSE {},
   end |-> IF q.end > 0 THEN {q.end * MsPerSecond} ELSE {},
   limit |-> IF q.limit > 0 THEN {q.limit} ELSE {}]

Selected(filter, row) ==
  /\ filter.tag \in {"", row.tag}
  /\ \A t \in filter.start : row.ts >= t
  /\ \A t \in filter.end : row.ts <= t

NewestFirst(s) == \A i, j \in DOMAIN s : i < j => s[i].ts >= s[j].ts

\* Mutant: the order of the index, oldest first.
OrderedOldestFirst(rows) ==
  {s \in SetToSeqs(rows) : \A i, j \in DOMAIN s : i < j => s[i].ts <= s[j].ts}

(* ORDER BY ts DESC; the order of ties is SQLite's choice.                 *)
Ordered(rows) == {s \in SetToSeqs(rows) : NewestFirst(s)}

(* The answers the SELECT may give.                                        *)
Query(q, log) ==
  LET filter == FilterOf(q)
      Cut(s) == SubSeq(s, 1, Min({Len(s)} \cup filter.limit))
  IN {Cut(s) : s \in Ordered({row \in log : Selected(filter, row)})}

(* The time a gRPC client is shown: entry.ts.timestamp().                  *)
Shown(row) == row.ts \div MsPerSecond

(* Nothing outside the window is shown, newest first; and an entry of the  *)
(* window is missing only if the limit is full of entries that are not     *)
(* older, or if it falls into the last second after its first millisecond: *)
(* end_ts names the beginning of a second, not the whole of it.            *)
QueryFaithful(q, log, answer) ==
  LET Within(row) ==
        /\ q.tag \in {"", row.tag}
        /\ q.start > 0 => Shown(row) >= q.start
        /\ q.end > 0 => Shown(row) <= q.end
  IN /\ \A i \in DOMAIN answer : answer[i] \in log /\ Within(answer[i])
     /\ NewestFirst(answer)
     /\ \A row \in log : Within(row) /\ row \notin Range(answer) =>
          \/ q.limit > 0 /\ Len(answer) = q.limit
               /\ \A i \in DOMAIN answer : answer[i].ts >= row.ts
          \/ q.end > 0 /\ Shown(row) = q.end /\ row.ts % MsPerSecond > 0

-----------------------------------------------------------------------------
(* CSV.                                                                    *)

Quote == "\""
Special == {",", Quote, "\n"}

\* Mutant: a field is quoted only for a comma or a quote.
CsvEscapeOneLine(text) ==
  IF Range(text) \cap {",", Quote} = {} THEN text
  ELSE <<Quote>> \o FlattenSeq([i \in DOMAIN text |->
         IF text[i] = Quote THEN <<Quote, Quote>> ELSE <<text[i]>>]) \o <<Quote>>

CsvEscape(text) ==
  IF Range(text) \cap Special = {} THEN text
  ELSE <<Quote>> \o FlattenSeq([i \in DOMAIN text |->
         IF text[i] = Quote THEN <<Quote, Quote>> ELSE <<text[i]>>]) \o <<Quote>>

(* One line of export_csv: the fields with commas between, and a newline.  *)
CsvLine(fields) ==
  FlattenSeq([i \in DOMAIN fields |->
    CsvEscape(fields[i]) \o <<IF i = Len(fields) THEN "\n" ELSE ",">>])

(* The reference: a reader of CSV (RFC 4180).  It is in a field, inside    *)
(* the quotes of one, or just behind a quote that may close the field or   *)
(* be the first half of a doubled one.                                     *)
CsvStep(state, ch) ==
  LET add == [state EXCEPT !.cur = Append(state.cur, ch)]
      close == [state EXCEPT !.done = Append(state.done, state.cur), !.cur = <<>>, !.at = "plain",
                             !.lines = IF ch = "\n" THEN state.lines + 1 ELSE state.lines]
  IN CASE state.at = "plain" /\ ch = Quote -> [state EXCEPT !.at = "quoted"]
       [] state.at = "quoted" /\ ch = Quote -> [state EXCEPT !.at = "behind"]
       [] state.at = "quoted" /\ ch # Quote -> add
       [] state.at = "behind" /\ ch = Quote -> [add EXCEPT !.at = "quoted"]
       [] state.at # "quoted" /\ ch \in {",", "\n"} -> close
       [] OTHER -> add

CsvRead(text) ==
  LET state[i \in 0..Len(text)] ==
        IF i = 0 THEN [done |-> <<>>, cur |-> <<>>, at |-> "plain", lines |-> 0]
        ELSE CsvStep(state[i - 1], text[i])
  IN state[Len(text)]

(* A reader gets back the very fields that were exported, as one record,   *)
(* whatever commas, quotes and newlines they hold.                         *)
CsvFaithful(fields, line) ==
  CsvRead(line) = [done |-> fields, cur |-> <<>>, at |-> "plain", lines |-> 1]

=============================================================================
