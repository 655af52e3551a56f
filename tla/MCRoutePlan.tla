---------------------------- MODULE MCRoutePlan ----------------------------
(***************************************************************************)
(* Small instances of RoutePlan, with one agent: the interleavings of       *)
(* agents are MCRoute's.                                                    *)
(***************************************************************************)
EXTENDS RoutePlan

AllRules == Rules

\* Negative numbers have no syntax in a configuration.
Both == {3, -21}
=============================================================================
