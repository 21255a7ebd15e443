---------------------------- MODULE MCBtSessions ----------------------------
(* Instances of BtSessions for TLC. *)
EXTENDS BtSessions

=============================================================================
