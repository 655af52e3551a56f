------------------------------ MODULE MCRoute ------------------------------
(***************************************************************************)
(* Small instances of Route, with callers that keep every rule.             *)
(***************************************************************************)
EXTENDS Route

AllRules == Rules
=============================================================================
