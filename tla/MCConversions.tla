--------------------------- MODULE MCConversions ---------------------------
(* Instances of Conversions for TLC. *)
EXTENDS Conversions

=============================================================================
