---------------------------- MODULE PolicyRules ----------------------------
(***************************************************************************)
(* Conditions of policy rules (src/src/policy/mod.rs): how the TOML value  *)
(* of a condition is parsed into a binary tree and how the tree is matched *)
(* against a context, beside what the TOML value says.                     *)
(*                                                                         *)
(* A TOML value is a record with its type in `t`: a table (`m`, from keys  *)
(* to values), an array (`a`), a string (`s`), a float (`f`, in tenths) or *)
(* an integer (`n`).  Contexts have a task, a role, a set of scopes and a  *)
(* risk; resource_is and workspace_is compare like task_matches.           *)
(***************************************************************************)
EXTENDS Integers, SequencesExt

Bad == [c |-> "error"]

IsTable(v) == v.t = "table"

Has(v, key, type) == key \in DOMAIN v.m /\ v.m[key].t = type

(* The leaves of a condition, in the order in which parse_condition looks  *)
(* for them, with the type it demands.                                     *)
Leaves == <<"task_matches", "role_is", "scope_contains", "risk_above">>

LeafType(key) == IF key = "risk_above" THEN "float" ELSE "string"

Operand(w) == IF w.t = "float" THEN w.f ELSE w.s

ParseLeaf(v) ==
  LET found == {i \in DOMAIN Leaves : Has(v, Leaves[i], LeafType(Leaves[i]))}
      key == Leaves[Min(found)]
  IN IF found = {} THEN Bad ELSE [c |-> key, x |-> Operand(v.m[key])]

\* Mutant: the list is folded with the first operand only.
FoldFirst(op, parsed) == parsed[1]

(* iter.try_fold(first, combine): a left-leaning tree; any bad item fails. *)
Fold(op, parsed) ==
  FoldLeft(LAMBDA left, right : [c |-> op, l |-> left, r |-> right],
           parsed[1], Tail(parsed))

FoldConditions(op, parsed) ==
  IF parsed = <<>> \/ \E i \in DOMAIN parsed : parsed[i] = Bad
  THEN Bad
  ELSE Fold(op, parsed)

RECURSIVE ParseCondition(_)
ParseCondition(v) ==
  LET Items(key) == [i \in DOMAIN v.m[key].a |-> ParseCondition(v.m[key].a[i])]
      Logical(key) == IF v.m[key].t = "array" THEN FoldConditions(key, Items(key)) ELSE Bad
      Negated == ParseCondition(v.m["not"])
  IN CASE ~IsTable(v) -> Bad
       [] IsTable(v) /\ "and" \in DOMAIN v.m -> Logical("and")
       [] IsTable(v) /\ "and" \notin DOMAIN v.m /\ "or" \in DOMAIN v.m -> Logical("or")
       [] IsTable(v) /\ DOMAIN v.m \cap {"and", "or"} = {} /\ "not" \in DOMAIN v.m ->
            IF Negated = Bad THEN Bad ELSE [c |-> "not", l |-> Negated]
       [] OTHER -> ParseLeaf(v)

(* Condition::matches.                                                     *)
RECURSIVE Matches(_, _)
Matches(cond, ctx) ==
  CASE cond.c = "task_matches" -> ctx.task = cond.x
    [] cond.c = "role_is" -> ctx.role = cond.x
    [] cond.c = "scope_contains" -> cond.x \in ctx.scopes
    [] cond.c = "risk_above" -> ctx.risk > cond.x
    [] cond.c = "and" -> Matches(cond.l, ctx) /\ Matches(cond.r, ctx)
    [] cond.c = "or" -> Matches(cond.l, ctx) \/ Matches(cond.r, ctx)
    [] cond.c = "not" -> ~Matches(cond.l, ctx)

-----------------------------------------------------------------------------
(* The reference: what a condition written with one key per table says,    *)
(* read off the TOML value.  `and` is all of the list, `or` is one of it.  *)

KeyOf(v) == CHOOSE key \in DOMAIN v.m : TRUE

RECURSIVE WellFormed(_)
WellFormed(v) ==
  /\ IsTable(v) /\ DOMAIN v.m # {}
  /\ LET key == KeyOf(v) IN
     CASE key \in {"and", "or"} ->
            /\ v.m[key].t = "array" /\ v.m[key].a # <<>>
            /\ \A i \in DOMAIN v.m[key].a : WellFormed(v.m[key].a[i])
       [] key = "not" -> WellFormed(v.m[key])
       [] OTHER -> key \in Range(Leaves) /\ v.m[key].t = LeafType(key)

RECURSIVE Says(_, _)
Says(v, ctx) ==
  LET key == KeyOf(v)
      w == v.m[key]
  IN CASE key = "and" -> \A i \in DOMAIN w.a : Says(w.a[i], ctx)
       [] key = "or" -> \E i \in DOMAIN w.a : Says(w.a[i], ctx)
       [] key = "not" -> ~Says(w, ctx)
       [] key = "risk_above" -> ctx.risk > Operand(w)
       [] key = "scope_contains" -> Operand(w) \in ctx.scopes
       [] key = "role_is" -> ctx.role = Operand(w)
       [] key = "task_matches" -> ctx.task = Operand(w)

(* A condition is accepted exactly if it is well-formed, and the rule then *)
(* fires in exactly the contexts it names.                                 *)
ConditionFaithful(v, cond, contexts) ==
  /\ (cond = Bad) <=> ~WellFormed(v)
  /\ cond # Bad => \A ctx \in contexts : Matches(cond, ctx) <=> Says(v, ctx)

=============================================================================
