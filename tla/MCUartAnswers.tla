---------------------------- MODULE MCUartAnswers ----------------------------
(* Instances of UartAnswers for TLC. *)
EXTENDS UartAnswers, TLC

\* Bluetooth handlers run the same code and are never told apart.
Symmetry == Permutations(Bt)

=============================================================================
