---------------------------- MODULE MCPresetStore ----------------------------
(* Instances of PresetStore for TLC. *)
EXTENDS PresetStore

=============================================================================
