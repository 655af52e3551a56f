---------------------------- MODULE MCRouteStore ----------------------------
(***************************************************************************)
(* Small instances of RouteStore: three commands at once.                   *)
(***************************************************************************)
EXTENDS RouteStore
=============================================================================
