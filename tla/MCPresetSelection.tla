------------------------- MODULE MCPresetSelection -------------------------
(* Instances of PresetSelection for TLC.                                   *)
EXTENDS PresetSelection

\* The presets may be exchanged for one another.
PresetSymmetry == Permutations(Presets)

\* What the phone shows matters only from a choice that settles it: no guard
\* reads told, SelectionAgrees does only while settled, and each step that makes
\* settled true tells the phone that is there, or is its own.
SettledView ==
    <<core, uart, phones, knob, published, phone, IF settled THEN told ELSE -1, ghosts>>

=============================================================================
