------------------------------ MODULE MCTcpFlow ------------------------------
(* Small instances of TcpFlow for TLC. *)
EXTENDS TcpFlow, TLC

CONSTANTS r1, r2

AllFaults == {"race_timeout", "deadline", "detach", "home_stop", "local", "drain",
              "reject", "open_write", "open"}

\* Relays differ in name only.
RelaySymmetry == Permutations(Relays)
=============================================================================
