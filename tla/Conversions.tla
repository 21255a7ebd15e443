---------------------------- MODULE Conversions ----------------------------
(***************************************************************************)
(* The program's sequential conversions together: the command line         *)
(* (ArgParser), the amplifier's bytes in both directions (MidiFrames) and  *)
(* a phone's bytes (LineText).  They share nothing.  So that a model of    *)
(* all need not combine their states, one of them takes all the steps.     *)
(***************************************************************************)
EXTENDS ArgParser, MidiFrames, LineText

VARIABLE kind   \* the conversion

vars == <<kind, argsVars, readVars, writeVars, textVars>>

Init ==
    /\ kind \in {"args", "read", "write", "lines"}
    /\ ArgsInit
    /\ ReadInit
    /\ WriteInit
    /\ TextInit

ParseArgs ==
    /\ kind = "args"
    /\ NextWord
    /\ UNCHANGED <<kind, readVars, writeVars, textVars>>

ReadMidi ==
    /\ kind = "read"
    /\ ReadNext
    /\ UNCHANGED <<kind, argsVars, writeVars, textVars>>

WriteMidi ==
    /\ kind = "write"
    /\ WriteNext
    /\ UNCHANGED <<kind, argsVars, readVars, textVars>>

ReadLines ==
    /\ kind = "lines"
    /\ TextNext
    /\ UNCHANGED <<kind, argsVars, readVars, writeVars>>

Next == ParseArgs \/ ReadMidi \/ WriteMidi \/ ReadLines

Spec == Init /\ [][Next]_vars

=============================================================================
