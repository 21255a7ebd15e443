--------------------------- MODULE PresetRegister ---------------------------
(***************************************************************************)
(* What keeping the presets in a file promises at its weakest: the file is *)
(* either unusable or holds the list as it is in memory at the moment it   *)
(* became usable, and a restart takes up exactly that list.                *)
(***************************************************************************)
EXTENDS Sequences

CONSTANTS Presets,   \* the presets a list is made of
          Unusable   \* a file no list can be read from

VARIABLES
    list,   \* the list in memory
    disk,   \* the list in the file, or Unusable
    up      \* the program runs

registerVars == <<list, disk, up>>

RegisterInit == list = <<>> /\ disk = <<>> /\ up = FALSE

Edit == up /\ list' \in Seq(Presets) /\ UNCHANGED <<disk, up>>

Spoil == up /\ disk' = Unusable /\ UNCHANGED <<list, up>>

Commit == up /\ disk' = list /\ UNCHANGED <<list, up>>

Crash == up /\ up' = FALSE /\ list' = <<>> /\ UNCHANGED disk

Restart == ~up /\ disk # Unusable /\ up' = TRUE /\ list' = disk /\ UNCHANGED disk

RegisterNext == Edit \/ Spoil \/ Commit \/ Crash \/ Restart

RegisterSpec == RegisterInit /\ [][RegisterNext]_registerVars

=============================================================================
