--------------------------- MODULE MCAuditWriter ---------------------------
(* Small instances of AuditWriter for TLC.                                 *)
EXTENDS AuditWriter, TLC

CONSTANTS w1, w2, w3, w4, w5, w6, w7

FourEntries == {w1, w2, w3, w4}
FiveEntries == {w1, w2, w3, w4, w5}
SevenEntries == {w1, w2, w3, w4, w5, w6, w7}

Symmetric == Permutations(Callers)
=============================================================================
