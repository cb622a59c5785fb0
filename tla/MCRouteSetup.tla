---------------------------- MODULE MCRouteSetup ----------------------------
(***************************************************************************)
(* Model values for checking RouteSetup with TLC.                          *)
(***************************************************************************)
EXTENDS RouteSetup

CONSTANTS q1, q2, c1

=============================================================================
