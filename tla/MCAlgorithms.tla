---------------------------- MODULE MCAlgorithms ----------------------------
(* Inputs of the pure functions for TLC.                                   *)
EXTENDS Algorithms

MCPatterns == BoundedSeq({"a", "b", "*"}, 4)
MCTexts == BoundedSeq({"a", "b"}, 5)

(* Documents.                                                              *)
a == <<"a">>
b == <<"b">>
Nothing == <<>>
Number == [t |-> "number", n |-> 7]
Object(key, v) == [t |-> "object", f |-> [k \in {key} |-> v]]
Array(items) == [t |-> "array", a |-> items]

MCPlaces ==
  {<<>>, <<Field(a, [k \in {b} |-> Number])>>, <<Field(a, Nothing), Field(b, Nothing)>>,
   <<Item(<<Number>>)>>, <<Field(a, Nothing), Item(<<>>)>>, <<Item(<<>>), Field(b, Nothing)>>}

MCFillings ==
  {String(text) : text \in {<<>>, <<"x">>, <<"x", "y">>, <<"x", "@", "d">>,
                            <<"x", "y", "@", "d">>, <<"@", "d">>}}
  \cup {Number, Object(a, String(<<"x">>)), Object(b, Array(<<Number>>)), Array(<<String(<<"x">>)>>)}

(* Patterns for the root, a field, a field of a field, an item, every      *)
(* field below the root, whatever ends in b, everything.                   *)
MaskType(type) == [type |-> type]
Directive(pattern, mask) == [pattern |-> pattern, mask |-> mask]
MCDirectives ==
  {Directive(p, MaskType("redact")) : p \in {<<"$", ".", "a">>, <<"$", "[", "0", "]">>, <<"*", "b">>}}
  \cup {Directive(<<"$", ".", "*">>, MaskType("hash")), Directive(<<"*">>, MaskType("email")),
        Directive(<<"$", ".", "a", ".", "b">>, MaskType("email")),
        Directive(<<"$", ".", "a">>, [type |-> "truncate", n |-> 1]),
        Directive(<<"$", "*", "]">>, [type |-> "truncate", n |-> 0]),
        Directive(<<"$">>, [type |-> "json", pattern |-> b]),
        Directive(<<"$", ".", "a">>, [type |-> "json", pattern |-> <<"*", "b">>])}

(* Conditions: leaves, malformed ones, lists of up to three of them, and   *)
(* lists of up to two lists.                                               *)
Table(key, v) == [t |-> "table", m |-> [k \in {key} |-> v]]
Str(x) == [t |-> "string", s |-> x]
List(items) == [t |-> "array", a |-> items]
GoodLeaves ==
  {Table("role_is", Str("r")), Table("scope_contains", Str("s")),
   Table("risk_above", [t |-> "float", f |-> 6])}
BadLeaves ==
  {Table("risk_above", [t |-> "integer", n |-> 1]), Table("role", Str("r")),
   [t |-> "table", m |-> <<>>], Str("r")}
Combined(items, n) ==
  {Table(op, List(l)) : op \in {"and", "or"}, l \in BoundedSeq(items, n)}
  \cup {Table("not", v) : v \in items}
  \cup {Table(op, v) : op \in {"and", "or"}, v \in items}
Simple == GoodLeaves \cup BadLeaves \cup {Table("task_matches", Str("t"))}
MCConditions ==
  Simple \cup Combined(Simple, 3)
  \cup Combined(Combined(GoodLeaves, 2) \cup {Table("and", List(<<>>)), Table("role_is", Str("q"))}, 2)

MCContexts ==
  [task : {"t", "u"}, role : {"r", "q"}, scopes : {{}, {"s"}}, risk : {5, 6, 7}]

(* Rows around the ends of seconds of three milliseconds.                  *)
MCLogs == {log \in SUBSET [tag : {"p", "q"}, ts : {2, 3, 5, 6, 7}] : Cardinality(log) <= 3}
MCQueries == [tag : {"", "p"}, start : {-1, 1, 2}, end : {0, 1, 2}, limit : {0, 1, 2}]

MCRecords == BoundedSeq(BoundedSeq({"x", ",", Quote, "\n"}, 3), 2) \ {<<>>}

MCHours == 0..23
=============================================================================
