----------------------------- MODULE MCApiKeys -----------------------------
(* A small instance of ApiKeys for TLC: two keys, two clients, and enough  *)
(* uses for two updates of one key to overlap.                             *)
EXTENDS ApiKeys
=============================================================================
