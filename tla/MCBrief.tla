------------------------------ MODULE MCBrief ------------------------------
(***************************************************************************)
(* Small instances of Brief: a section of three entries, with or without  *)
(* a fourth that may be added.                                              *)
(***************************************************************************)
EXTENDS Brief, TLC

CONSTANTS e1, e2, e3, e4, p1, p2

Three == {e1, e2, e3}
Four == {e1, e2, e3, e4}
Signed == <<e1, e2, e3>>

Alike == Permutations({p1, p2})
=============================================================================
