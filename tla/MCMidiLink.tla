----------------------------- MODULE MCMidiLink -----------------------------
(* Instances of MidiLink for TLC. *)
EXTENDS MidiLink

=============================================================================
