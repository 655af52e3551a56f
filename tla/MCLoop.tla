------------------------------- MODULE MCLoop -------------------------------
(***************************************************************************)
(* Small instances of Loop: two work orders, the second waiting on the      *)
(* first, and restarts.                                                     *)
(***************************************************************************)
EXTENDS Loop

CONSTANTS t1, t2

Chain == [t \in {t1, t2} |-> IF t = t2 THEN t1 ELSE NoTask]
Apart == [t \in {t1, t2} |-> NoTask]
=============================================================================
