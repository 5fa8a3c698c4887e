---------------------------- MODULE FieldPatterns ---------------------------
(***************************************************************************)
(* The patterns of mask directives (matches_pattern in                     *)
(* src/src/masking/mod.rs) and the globs they should be.  Patterns and     *)
(* texts are sequences of characters.                                      *)
(***************************************************************************)
EXTENDS Integers, SequencesExt

-----------------------------------------------------------------------------
(* matches_pattern.                                                        *)

(* pattern.split('*') without its empty parts: where the parts begin, and  *)
(* the part that begins at i.                                              *)
Begins(pattern) ==
  {i \in DOMAIN pattern : pattern[i] # "*" /\ (i > 1 => pattern[i - 1] = "*")}

Part(pattern, i) ==
  SubSeq(pattern, i, Min({j \in i..Len(pattern) : j = Len(pattern) \/ pattern[j + 1] = "*"}))

Occurrences(part, text) ==
  {i \in 1..(Len(text) - Len(part) + 1) : SubSeq(text, i, i + Len(part) - 1) = part}

(* One turn of the loop: how much of the text is consumed when the part    *)
(* that begins at i, if one does, has been looked for in the remainder,    *)
(* leftmost first, and at its very start if the pattern begins with the    *)
(* part.  There is one number, or none when some part was not found.       *)
Consume(pattern, text, i, ends) ==
  LET part == Part(pattern, i)
      Found(end) == {k \in Occurrences(part, text) : k > end /\ (i = 1 => k = end + 1)}
  IN IF i \notin Begins(pattern) THEN ends
     ELSE {Min(Found(end)) + Len(part) - 1 : end \in {end \in ends : Found(end) # {}}}

Consumed(pattern, text) ==
  LET ends[i \in 0..Len(pattern)] == IF i = 0 THEN {0} ELSE Consume(pattern, text, i, ends[i - 1])
  IN ends[Len(pattern)]

OpenEnd(pattern) == pattern # <<>> /\ pattern[Len(pattern)] = "*"

\* Mutant: the first part may be found anywhere.
MatchesPatternUnanchored(pattern, text) ==
  \/ pattern = <<"*">> \/ pattern = text
  \/ \E end \in Consumed(<<"*">> \o pattern, text) : OpenEnd(pattern) \/ end = Len(text)

MatchesPattern(pattern, text) ==
  \/ pattern = <<"*">> \/ pattern = text
  \/ \E end \in Consumed(pattern, text) : OpenEnd(pattern) \/ end = Len(text)

-----------------------------------------------------------------------------
(* The reference: a glob, in which a star stands for any text.  The        *)
(* prefixes of the text that character i of the pattern may end, by those  *)
(* that the characters before it may.                                      *)
GlobStep(pattern, text, i, ends) ==
  IF pattern[i] = "*" THEN {k \in 0..Len(text) : \E end \in ends : end <= k}
  ELSE {k \in 1..Len(text) : k - 1 \in ends /\ text[k] = pattern[i]}

Glob(pattern, text) ==
  LET ends[i \in 0..Len(pattern)] == IF i = 0 THEN {0} ELSE GlobStep(pattern, text, i, ends[i - 1])
  IN Len(text) \in ends[Len(pattern)]

(* A pattern matches nothing that its glob does not, and everything that   *)
(* its glob does, if it has no star, or ends in one, or if its last part   *)
(* occurs only once in the text.                                           *)
MatchWithinGlob(pattern, text, matched) ==
  /\ matched => Glob(pattern, text)
  /\ Glob(pattern, text) /\ ~matched =>
       /\ ~OpenEnd(pattern) /\ "*" \in Range(pattern)
       /\ Cardinality(Occurrences(Part(pattern, Max(Begins(pattern))), text)) > 1

=============================================================================
