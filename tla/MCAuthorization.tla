--------------------------- MODULE MCAuthorization ---------------------------
(***************************************************************************)
(* Model values for checking Authorization with TLC.                       *)
(***************************************************************************)
EXTENDS Authorization

CONSTANTS r1, h1, c1, c2

=============================================================================
