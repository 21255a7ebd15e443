----------------------------- MODULE MCUartLink -----------------------------
(* Instances of UartLink for TLC. *)
EXTENDS UartLink, TLC

\* Bluetooth handlers run the same code and are never told apart.
Symmetry == Permutations(Bt)

=============================================================================
