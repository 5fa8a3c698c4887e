--------------------------- MODULE MCPolicyEngine ---------------------------
(* Small instances of PolicyEngine for TLC.                                *)
EXTENDS PolicyEngine

CONSTANTS hi, lo, c1, c2, a1, a2, e1, e2, none, reason, field

Rule(kind, on, detail) == [kind |-> kind, on |-> on, detail |-> detail]

File(name, rules, priority, enabled) ==
  [name |-> name, rules |-> rules, priority |-> priority, enabled |-> enabled]

TwoNames == {hi, lo}
TwoContexts == {c1, c2}

(* Allow everyone, with a low priority.                                    *)
AllowAll == File(lo, <<Rule("allow_if", {c1, c2}, none)>>, 0, TRUE)
(* Deny c1, then mask for the rest, with a high priority.                  *)
DenyThenMask ==
  File(hi, <<Rule("deny_if", {c1}, reason), Rule("mask_field", {}, field)>>, 1, TRUE)
(* The same name again, allowing c2 only; it ties with AllowAll.           *)
AllowSome == File(hi, <<Rule("allow_if", {c2}, none), Rule("deny_if", {c1}, reason)>>, 0, TRUE)
Disabled == File(hi, <<Rule("deny_if", {c1}, reason)>>, 1, FALSE)

MCDetails == {none, reason, field, NoMatch}

Unparsable == <<>>

(* For the decision: every kind of rule, ties, a disabled policy, a source *)
(* of two policies, a directory with a bad file at the end.                *)
RichSources == {<<AllowAll, DenyThenMask>>, <<AllowSome>>, <<Disabled>>, Unparsable}
RichDirs == {<<>>, <<<<AllowSome>>, Unparsable>>}

(* For the cache: one policy that may be added, disabled and removed.      *)
OneSource == {<<DenyThenMask>>, <<Disabled>>}
OneName == {hi}
NoDirs == {<<>>}

Symmetric == Permutations({a1, a2}) \cup Permutations({e1, e2})
=============================================================================
