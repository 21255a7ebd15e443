----------------------------- MODULE PresetStore -----------------------------
(***************************************************************************)
(* The presets in memory and in their file (file/PresetsManager.kt, and    *)
(* the requests of main.kt that edit the list).  Every edit is followed by *)
(* a save: fopen("wb") empties the file, fputs fills stdio's buffer and    *)
(* writes what overflows it, fclose writes the rest.  Handlers of two      *)
(* connections save to the same file, and the program may stop anywhere.   *)
(*                                                                         *)
(* A file is a sequence of blocks: the presets of a list in order and the  *)
(* End of the JSON text.  Nothing less than the whole text can be parsed.  *)
(***************************************************************************)
EXTENDS Integers, SequencesExt

CONSTANTS Handlers,    \* Bluetooth handler threads
          Main,        \* the main thread, which creates a missing file
          Presets,     \* presets a phone may send
          Faults,      \* what may go wrong: "open", "write", "crash"
          MaxPresets,  \* bound on the length of a list
          End,         \* the closing bracket of the JSON text
          Hole,        \* bytes nobody wrote, below a later write
          Absent,      \* there is no file
          Unusable     \* what a file holds that does not parse

ASSUME WritersAssumption == Main \notin Handlers

ASSUME BlocksAssumption ==
    /\ End \notin Presets
    /\ Hole \notin Presets \cup {End}

ASSUME FilesAssumption ==
    /\ Absent \notin Seq(Presets \cup {End, Hole})
    /\ Unusable \notin Seq(Presets)

ASSUME PresetBoundAssumption == MaxPresets \in Nat

Writers == Handlers \cup {Main}

Blocks == Presets \cup {End, Hole}

VARIABLES
    proc,     \* the program: down, creating its file, running, failed
    presets,  \* the list in memory
    file,     \* what the file holds
    pc,       \* pc[w]: how far writer w is in its request
    arg,      \* arg[w]: the index w has checked and will remove
    snap,     \* snap[w]: the list w is saving
    pos,      \* pos[w]: blocks of it w has written
    stale     \* ghost: the last save did not succeed

vars == <<proc, presets, file, pc, arg, snap, pos, stale>>

Started == {"creating", "running"}

\* The variables keep their types; the list in memory and the lists being
\* saved hold presets only.
TypeOK ==
    /\ proc \in {"down", "failed"} \cup Started
    /\ presets \in Seq(Presets)
    /\ file \in Seq(Blocks) \cup {Absent}
    /\ pc \in [Writers -> {"idle", "checked", "updated", "open", "puts", "close"}]
    /\ arg \in [Writers -> Int]
    /\ snap \in [Writers -> Seq(Presets)]
    /\ pos \in [Writers -> Nat]
    /\ stale \in BOOLEAN

Init ==
    /\ proc = "down"
    /\ presets = <<>>
    /\ file = Absent
    /\ pc = [w \in Writers |-> "idle"]
    /\ arg = [w \in Writers |-> 0]
    /\ snap = [w \in Writers |-> <<>>]
    /\ pos = [w \in Writers |-> 0]
    /\ stale = FALSE

-----------------------------------------------------------------------------
(* The text of a list.                                                     *)

Encode(list) == Append(list, End)

Parsable(f) ==
    /\ f # <<>>
    /\ Last(f) = End
    /\ \A i \in 1 .. Len(f) - 1 : f[i] \in Presets

\* Mutant of Decode: the closing bracket is taken for a preset.
DecodeAll(f) == f

Decode(f) == Front(f)

\* What the file is worth to a program that starts: a missing file is
\* created anew for the empty list.
Disk ==
    IF file = Absent THEN <<>>
    ELSE IF Parsable(file) THEN Decode(file) ELSE Unusable

\* Writing blocks a + 1 .. b of text through a stream of its own offset: what
\* other streams wrote elsewhere stays.
Overlay(f, text, a, b) ==
    IF a = b THEN f
    ELSE [i \in 1 .. (IF Len(f) > b THEN Len(f) ELSE b) |->
            IF i > a /\ i <= b THEN text[i]
            ELSE IF i <= Len(f) THEN f[i] ELSE Hole]

\* filterIndexed { index != i }: an index out of range removes nothing.
Without(list, i) ==
    IF i + 1 \in DOMAIN list THEN RemoveAt(list, i + 1) ELSE list

-----------------------------------------------------------------------------
(* The edits of bluetoothMessage.                                          *)

Serving(h) == proc = "running" /\ pc[h] = "idle"

Edited(h, list) ==
    /\ presets' = list
    /\ pc' = [pc EXCEPT ![h] = "updated"]
    /\ UNCHANGED <<proc, file, arg, snap, pos, stale>>

AddPreset(h, p) ==
    /\ Serving(h)
    /\ Len(presets) < MaxPresets
    /\ Edited(h, Append(presets, p))

SetPresets(h, list) == Serving(h) /\ Edited(h, list)

\* The index is checked against the list and the list is filtered later.
CheckRemove(h, i) ==
    /\ Serving(h)
    /\ i < Len(presets)
    /\ pc' = [pc EXCEPT ![h] = "checked"]
    /\ arg' = [arg EXCEPT ![h] = i]
    /\ UNCHANGED <<proc, presets, file, snap, pos, stale>>

\* Mutant of RemovePreset: the removal is not saved.
RemoveUnsaved(h) ==
    /\ pc[h] = "checked"
    /\ presets' = Without(presets, arg[h])
    /\ pc' = [pc EXCEPT ![h] = "idle"]
    /\ UNCHANGED <<proc, file, arg, snap, pos, stale>>

RemovePreset(h) ==
    /\ pc[h] = "checked"
    /\ Edited(h, Without(presets, arg[h]))

-----------------------------------------------------------------------------
(* savePresets.                                                            *)

\* presets.value is read for the call.
Snapshot(h) ==
    /\ pc[h] = "updated"
    /\ pc' = [pc EXCEPT ![h] = "open"]
    /\ snap' = [snap EXCEPT ![h] = presets]
    /\ UNCHANGED <<proc, presets, file, arg, pos, stale>>

\* The writer is done; the main thread goes on to start the program.
Finish(w) ==
    /\ pc' = [pc EXCEPT ![w] = "idle"]
    /\ proc' = IF w = Main THEN "running" ELSE proc

\* Mutant of Open: fopen("r+b"), which keeps what the file holds.
OpenKeeps(w) ==
    /\ pc[w] = "open"
    /\ file' = IF file = Absent THEN <<>> ELSE file
    /\ pos' = [pos EXCEPT ![w] = 0]
    /\ pc' = [pc EXCEPT ![w] = "puts"]
    /\ UNCHANGED <<proc, presets, arg, snap, stale>>

\* fopen(path, "wb") creates or empties the file.
Open(w) ==
    /\ pc[w] = "open"
    /\ file' = <<>>
    /\ pos' = [pos EXCEPT ![w] = 0]
    /\ pc' = [pc EXCEPT ![w] = "puts"]
    /\ UNCHANGED <<proc, presets, arg, snap, stale>>

\* fopen returns NULL: the error is logged and the save is over.
OpenFails(w) ==
    /\ pc[w] = "open"
    /\ "open" \in Faults
    /\ Finish(w)
    /\ stale' = TRUE
    /\ UNCHANGED <<presets, file, arg, snap, pos>>

\* fputs writes the first k blocks and keeps the others in its buffer.
Puts(w, k) ==
    /\ pc[w] = "puts"
    /\ k \in 0 .. Len(snap[w]) + 1
    /\ file' = Overlay(file, Encode(snap[w]), 0, k)
    /\ pos' = [pos EXCEPT ![w] = k]
    /\ pc' = [pc EXCEPT ![w] = "close"]
    /\ UNCHANGED <<proc, presets, arg, snap, stale>>

\* fclose writes the buffer up to block k: all of it, unless the device is
\* full, which nobody notices.
Close(w, k) ==
    /\ pc[w] = "close"
    /\ k \in pos[w] .. Len(snap[w]) + 1
    /\ k # Len(snap[w]) + 1 => "write" \in Faults
    /\ file' = Overlay(file, Encode(snap[w]), pos[w], k)
    /\ stale' = (k # Len(snap[w]) + 1)
    /\ Finish(w)
    /\ UNCHANGED <<presets, arg, snap, pos>>

Save(w) ==
    \/ Snapshot(w)
    \/ Open(w)
    \/ OpenFails(w)
    \/ \E k \in 0 .. MaxPresets + 1 : Puts(w, k) \/ Close(w, k)

-----------------------------------------------------------------------------
(* Starting and stopping.                                                  *)

\* loadPresets reads the whole file and parses it.
StartLoads ==
    /\ proc \notin Started
    /\ file # Absent
    /\ Parsable(file)
    /\ proc' = "running"
    /\ presets' = Decode(file)
    /\ stale' = FALSE
    /\ UNCHANGED <<file, pc, arg, snap, pos>>

\* The buffer of an empty file has no address, a torn text no parse: the
\* exception leaves main and the program ends.
StartFails ==
    /\ proc \notin Started
    /\ file # Absent
    /\ ~Parsable(file)
    /\ proc' = "failed"
    /\ UNCHANGED <<presets, file, pc, arg, snap, pos, stale>>

\* A missing file is created for the empty list.
StartCreates ==
    /\ proc \notin Started
    /\ file = Absent
    /\ proc' = "creating"
    /\ pc' = [pc EXCEPT ![Main] = "open"]
    /\ snap' = [snap EXCEPT ![Main] = <<>>]
    /\ UNCHANGED <<presets, file, arg, pos, stale>>

\* The program is killed (the power button, shutdown -P now, an uncaught
\* exception): memory and stdio buffers are gone, the file stays.
Crash ==
    /\ proc \in Started
    /\ "crash" \in Faults
    /\ proc' = "down"
    /\ presets' = <<>>
    /\ pc' = [w \in Writers |-> "idle"]
    /\ UNCHANGED <<file, arg, snap, pos, stale>>

-----------------------------------------------------------------------------
Lists == UNION {[1 .. n -> Presets] : n \in 0 .. MaxPresets}

Request(h) ==
    \/ \E p \in Presets : AddPreset(h, p)
    \/ \E list \in Lists : SetPresets(h, list)
    \/ \E i \in -1 .. MaxPresets : CheckRemove(h, i)
    \/ RemovePreset(h)

Next ==
    \/ \E h \in Handlers : Request(h)
    \/ \E w \in Writers : Save(w)
    \/ StartLoads \/ StartFails \/ StartCreates \/ Crash

Spec == Init /\ [][Next]_vars

-----------------------------------------------------------------------------
(* Properties.                                                             *)

\* Between requests the file holds the list in memory, unless the last save
\* failed: no edit is left unsaved and no save writes something else.
SavedWhenIdle ==
    proc = "running" /\ (\A w \in Writers : pc[w] = "idle") /\ ~stale
        => file = Encode(presets)

\* The file and the memory implement the register: a crash at any point of a
\* save leaves the file unusable or with a list that was in memory, never
\* with another list, and a restart takes up that list.
Register == INSTANCE PresetRegister WITH
    list <- presets, disk <- Disk, up <- proc \in Started

ImplementsRegister == Register!RegisterSpec

\* "Loads presets from file ... @return loaded presets"
\* (PresetsManager.kt:34): a program that was stopped can be started again.
StartsAgain == proc # "failed"

=============================================================================
