------------------------------ MODULE Masking ------------------------------
(***************************************************************************)
(* The masking engine of claw-guard (src/src/masking/mod.rs): masks and    *)
(* their application to a JSON value where a pattern matches, with         *)
(* references for what they should hide.                                   *)
(*                                                                         *)
(* A JSON value is a record with its type in `t`: an object (`f`, from     *)
(* texts to values), an array (`a`), a string (`s`) or a number (`n`; null *)
(* and booleans behave like one).                                          *)
(***************************************************************************)
EXTENDS FieldPatterns

From(text, i) == SubSeq(text, i, Len(text))

-----------------------------------------------------------------------------
(* apply_mask.                                                             *)

String(text) == [t |-> "string", s |-> text]

Redacted == String(<<"[", "R", "E", "D", "A", "C", "T", "E", "D", "]">>)

(* The digest of a value, as a text that is the same for every value: what *)
(* is shown to be hidden below is hidden up to the digest itself.          *)
Digest == String(<<"0", "f">>)

(* split_once('@'), the first character of the local part or a star.       *)
MaskEmail(text) ==
  LET at == {i \in DOMAIN text : text[i] = "@"}
      first == IF text[1] = "@" THEN "*" ELSE text[1]
  IN IF at = {} THEN Redacted
     ELSE String(<<first, "*", "*", "*", "@">> \o From(text, Min(at) + 1))

(* redact_nested_fields: an object field whose key matches is redacted,    *)
(* any other field, and the items of an array, are searched.               *)
RECURSIVE RedactNestedFields(_, _)
RedactNestedFields(v, pattern) ==
  CASE v.t = "object" ->
         [v EXCEPT !.f = [k \in DOMAIN v.f |->
            IF MatchesPattern(pattern, k) THEN Redacted ELSE RedactNestedFields(v.f[k], pattern)]]
    [] v.t = "array" ->
         [v EXCEPT !.a = [i \in DOMAIN v.a |-> RedactNestedFields(v.a[i], pattern)]]
    [] OTHER -> v

\* Mutant: only strings are redacted.
ApplyMaskStrings(v, mask) ==
  CASE mask.type = "redact" -> IF v.t = "string" THEN Redacted ELSE v
    [] mask.type = "hash" -> Digest
    [] mask.type = "truncate" /\ v.t = "string" ->
         String(SubSeq(v.s, 1, Min({Len(v.s), mask.n})))
    [] mask.type = "email" /\ v.t = "string" -> MaskEmail(v.s)
    [] mask.type = "json" -> RedactNestedFields(v, mask.pattern)
    [] OTHER -> v

ApplyMask(v, mask) ==
  CASE mask.type = "redact" -> Redacted
    [] mask.type = "hash" -> Digest
    [] mask.type = "truncate" /\ v.t = "string" ->
         String(SubSeq(v.s, 1, Min({Len(v.s), mask.n})))
    [] mask.type = "email" /\ v.t = "string" -> MaskEmail(v.s)
    [] mask.type = "json" -> RedactNestedFields(v, mask.pattern)
    [] OTHER -> v

-----------------------------------------------------------------------------
(* apply_recursive.                                                        *)

Root == <<"$">>

Digit == <<"0", "1", "2", "3", "4", "5", "6", "7", "8", "9">>

\* Mutant: every object is taken for the root.
FieldPathFlat(path, key) == Root \o <<".">> \o key

FieldPath(path, key) == path \o <<".">> \o key

ItemPath(path, index) == path \o <<"[", Digit[index], "]">>

Directed(d, path) == MatchesPattern(d.pattern, path)

(* Every directive that matches the path, in order; then the children of   *)
(* what they have left.                                                    *)
RECURSIVE ApplyRecursive(_, _, _)
ApplyRecursive(v, path, masks) ==
  LET masked == FoldLeft(LAMBDA w, d : IF Directed(d, path) THEN ApplyMask(w, d.mask) ELSE w,
                         v, masks)
  IN CASE masked.t = "object" ->
            [masked EXCEPT !.f = [k \in DOMAIN masked.f |->
               ApplyRecursive(masked.f[k], FieldPath(path, k), masks)]]
       [] masked.t = "array" ->
            [masked EXCEPT !.a = [i \in DOMAIN masked.a |->
               ApplyRecursive(masked.a[i], ItemPath(path, i), masks)]]
       [] OTHER -> masked

Apply(v, masks) == ApplyRecursive(v, Root, masks)

-----------------------------------------------------------------------------
(* A document with one place left open, as the steps to that place: a key  *)
(* (with the other fields of the object) or a position of an array.        *)

Field(key, others) == [step |-> "field", key |-> key, others |-> others]
Item(before) == [step |-> "item", before |-> before]

RECURSIVE Fill(_, _)
Fill(steps, v) ==
  CASE steps = <<>> -> v
    [] steps # <<>> /\ Head(steps).step = "field" ->
         [t |-> "object",
          f |-> [k \in DOMAIN Head(steps).others \cup {Head(steps).key} |->
                   IF k = Head(steps).key THEN Fill(Tail(steps), v) ELSE Head(steps).others[k]]]
    [] OTHER -> [t |-> "array", a |-> Append(Head(steps).before, Fill(Tail(steps), v))]

(* The path of the open place, and what the document shows there.          *)
Down(path, s) ==
  IF s.step = "field" THEN path \o <<".">> \o s.key
  ELSE path \o <<"[", Digit[Len(s.before) + 1], "]">>

PathOf(steps) == FoldLeft(Down, Root, steps)

ShownAt(steps, v) ==
  FoldLeft(LAMBDA w, s : IF s.step = "field" THEN w.f[s.key] ELSE w.a[Len(s.before) + 1],
           v, steps)

(* Two values a mask is meant to make equal.                               *)
Domain(text) == From(text, Min({i \in DOMAIN text : text[i] = "@"}) + 1)

Alike(x, y, mask) ==
  \/ mask.type \in {"redact", "hash"}
  \/ /\ x.t = "string" /\ y.t = "string"
     /\ \/ mask.type = "truncate" /\ SubSeq(x.s, 1, Min({Len(x.s), mask.n}))
                                       = SubSeq(y.s, 1, Min({Len(y.s), mask.n}))
        \/ /\ mask.type = "email"
           /\ ("@" \in Range(x.s)) = ("@" \in Range(y.s))
           /\ "@" \in Range(x.s) => Head(x.s) = Head(y.s) /\ Domain(x.s) = Domain(y.s)

(* Masks that do not look at what they replace.                            *)
Blind(mask) == mask.type \in {"redact", "hash"}

(* The keys a directive at an ancestor redacts below it.                   *)
KeysHidden(steps, masks) ==
  \E n \in 0..(Len(steps) - 1), i \in DOMAIN masks :
    /\ masks[i].mask.type = "json"
    /\ Directed(masks[i], PathOf(SubSeq(steps, 1, n)))
    /\ \E j \in (n + 1)..Len(steps) :
         steps[j].step = "field" /\ MatchesPattern(masks[i].mask.pattern, steps[j].key)

Hidden(steps, x, y, masks) ==
  \/ KeysHidden(steps, masks)
  \/ \E i \in DOMAIN masks :
       /\ Directed(masks[i], PathOf(steps))
       /\ Alike(x, y, masks[i].mask)
       /\ \/ Blind(masks[i].mask)
          \/ \A j \in 1..(i - 1) : ~Directed(masks[j], PathOf(steps))

(* What is masked does not show: two documents that differ only in what a  *)
(* directive is to hide look the same, wherever the place is and whatever  *)
(* other directives do before, after, above or below it.                   *)
MaskHides(steps, x, y, masks, shownX, shownY) ==
  Hidden(steps, x, y, masks) => shownX = shownY

(* What is not masked stays: a place that no directive matches, with no    *)
(* directive above it that reaches it, is shown as it was.                 *)
MaskKeeps(steps, x, masks, shown) ==
  /\ x.t \notin {"object", "array"}
  /\ \A n \in 0..Len(steps), i \in DOMAIN masks :
       Directed(masks[i], PathOf(SubSeq(steps, 1, n))) =>
         n < Len(steps) /\ masks[i].mask.type \in {"truncate", "email", "json"}
  /\ ~KeysHidden(steps, masks)
  => ShownAt(steps, shown) = x

=============================================================================
