----------------------------- MODULE MCSession -----------------------------
(***************************************************************************)
(* Small instances of Session: snapshots and bind mode.                     *)
(***************************************************************************)
EXTENDS Session

CONSTANTS word
=============================================================================
