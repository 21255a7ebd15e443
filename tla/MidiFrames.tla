----------------------------- MODULE MidiFrames -----------------------------
(***************************************************************************)
(* The bytes on the amplifier's line (midi/Midi.kt): readMessage and       *)
(* createMessage, send and what is sent with it, one byte per step.        *)
(* MidiLink has the life of the streams and leaves the bytes out.          *)
(***************************************************************************)
EXTENDS Naturals, SequencesExt

CONSTANTS Data,        \* data bytes of a message
          MaxData,     \* bound: data bytes of a message
          MaxFrames,   \* bound: messages of the amplifier
          Commands,    \* what is sent to the amplifier
          MaxCommands  \* bound: such commands

Start == "F0"
End   == "F7"

ASSUME DataAssumption == Data \cap {Start, End} = {}
ASSUME CommandsAssumption == Commands \subseteq {"dump", "lamp", "wideStereo", "preset"}

VARIABLES
    frames,    \* the data of the amplifier's messages, the one being sent last
    sending,   \* the last one is not complete
    first,     \* the first message that begins after the device was opened, or 0
    reader,    \* readMessage, and what the handler has got

    commands,  \* what was sent to the amplifier
    passed,    \* how many of these it has taken, ...
    position,  \* ... and the next byte of the one after them
    heard      \* what it makes of the bytes

readVars  == <<frames, sending, first, reader>>
writeVars == <<commands, passed, position, heard>>

-----------------------------------------------------------------------------
(* From the amplifier.                                                     *)

\* Of each prefix the one byte that tells it from the others is modelled.
Heartbeat    == <<"heartbeat">>
ChangePrefix == <<"change">>
DumpPrefix   == <<"dump">>

HasPrefix(data, prefix) == Len(data) > Len(prefix) /\ IsPrefix(prefix, data)

\* The kind of message with these data, or "unknown".
CreateMessage(data) ==
    CASE data = Heartbeat              -> "HeartBeatMessage"
      [] HasPrefix(data, ChangePrefix) -> "ChangeMessage"
      [] HasPrefix(data, DumpPrefix)   -> "PresetMessage"
      [] OTHER                         -> "unknown"

\* The receiver's loop throws unknown messages away.  `of` says which of the
\* amplifier's messages ended with this byte; the code does not see it.
HandOn(out, data) ==
    IF CreateMessage(data) = "unknown" THEN out
    ELSE Append(out, [kind |-> CreateMessage(data), of |-> Len(frames)])

\* A mutated form of ReadByte: the first byte is kept as data.
ReadByteKept(s, byte) ==
    CASE ~s.inside /\ byte = Start -> [s EXCEPT !.inside = TRUE, !.data = <<byte>>]
      [] ~s.inside /\ byte # Start -> s
      [] s.inside /\ byte # End    -> [s EXCEPT !.data = Append(@, byte)]
      [] s.inside /\ byte = End    -> [s EXCEPT !.inside = FALSE, !.out = HandOn(@, s.data)]

\* One byte: outside a message everything but the first byte of one is
\* dropped, inside everything but the last byte of one is data.
ReadByte(s, byte) ==
    CASE ~s.inside /\ byte = Start -> [s EXCEPT !.inside = TRUE, !.data = <<>>]
      [] ~s.inside /\ byte # Start -> s
      [] s.inside /\ byte # End    -> [s EXCEPT !.data = Append(@, byte)]
      [] s.inside /\ byte = End    -> [s EXCEPT !.inside = FALSE, !.out = HandOn(@, s.data)]

Outside == [inside |-> FALSE, data |-> <<>>, out |-> <<>>]

ReadInit == frames = <<>> /\ sending = FALSE /\ first = 0 /\ reader = Outside

\* A byte is read if the device is open, else it is lost.
Read(byte) == reader' = IF first = 0 THEN reader ELSE ReadByte(reader, byte)

\* The amplifier begins a message ...
BeginMessage ==
    /\ ~sending
    /\ Len(frames) < MaxFrames
    /\ Read(Start)
    /\ frames' = Append(frames, <<>>)
    /\ sending' = TRUE
    /\ UNCHANGED first

\* ... goes on with it ...
SendData ==
    /\ sending
    /\ Len(frames[Len(frames)]) < MaxData
    /\ \E byte \in Data :
          /\ Read(byte)
          /\ frames' = [frames EXCEPT ![Len(frames)] = Append(@, byte)]
    /\ UNCHANGED <<sending, first>>

\* ... and ends it.
EndMessage ==
    /\ sending
    /\ Read(End)
    /\ sending' = FALSE
    /\ UNCHANGED <<frames, first>>

\* The device is opened, between two messages or within one.
OpenDevice ==
    /\ first = 0
    /\ first' = Len(frames) + 1
    /\ UNCHANGED <<frames, sending, reader>>

ReadNext == BeginMessage \/ SendData \/ EndMessage \/ OpenDevice

ReadSpec == ReadInit /\ [][ReadNext]_readVars

\* The messages that began after the device was opened, are complete and of a
\* kind the program knows.
ToBeRead ==
    {i \in DOMAIN frames :
        /\ first \in 1 .. i
        /\ i = Len(frames) => ~sending
        /\ CreateMessage(frames[i]) # "unknown"}

\* A reader that comes in anywhere in the stream (midi/Midi.kt:54) gets the
\* messages that begin from there on, each once, in order and as its kind, and
\* nothing else.
ReadsFromNextMessage ==
    LET out == reader.out
    IN /\ {out[j].of : j \in DOMAIN out} = ToBeRead
       /\ \A j \in DOMAIN out : out[j].kind = CreateMessage(frames[out[j].of])
       /\ \A j, k \in DOMAIN out : j < k => out[j].of < out[k].of

-----------------------------------------------------------------------------
(* To the amplifier.                                                       *)

\* A mutated form of Send: the last byte is forgotten.
SendOpen(data) == <<Start>> \o data

Send(data) == <<Start>> \o data \o <<End>>

\* lamp and wideStereo hand over data that are framed already.
Setting(name, on) == Send(<<Start, name, on, End>>)

RequestDump == Send(<<"dumpRequest">>)

\* What is sent for a command, and the data the amplifier is to get.
Written(c) ==
    CASE c = "dump" -> RequestDump
      [] c \in {"lamp", "wideStereo"} -> Setting(c, "on")
      [] c = "preset" -> Send(<<"preset", "data">>)

Meant(c) ==
    CASE c = "dump" -> <<"dumpRequest">>
      [] c \in {"lamp", "wideStereo"} -> <<c, "on">>
      [] c = "preset" -> <<"preset", "data">>

\* The amplifier (external) takes Start for the start of a message wherever
\* it comes, as MIDI has it, and is not disturbed by an End of none.
HearByte(s, byte) ==
    CASE byte = Start                             -> [s EXCEPT !.inside = TRUE, !.data = <<>>]
      [] byte # Start /\ ~s.inside                -> s
      [] byte \notin {Start, End} /\ s.inside     -> [s EXCEPT !.data = Append(@, byte)]
      [] byte = End /\ s.inside                   -> [s EXCEPT !.inside = FALSE,
                                                               !.out = Append(@, s.data)]

WriteInit == commands = <<>> /\ passed = 0 /\ position = 1 /\ heard = Outside

\* Any thread sends: fwrite puts the whole of it behind what is there.
SendCommand ==
    /\ Len(commands) < MaxCommands
    /\ \E c \in Commands : commands' = Append(commands, c)
    /\ UNCHANGED <<passed, position, heard>>

\* The amplifier takes the next byte.
TakeByte ==
    /\ passed < Len(commands)
    /\ LET bytes == Written(commands[passed + 1])
       IN /\ heard' = HearByte(heard, bytes[position])
          /\ position' = IF position = Len(bytes) THEN 1 ELSE position + 1
          /\ passed' = IF position = Len(bytes) THEN passed + 1 ELSE passed
    /\ UNCHANGED commands

WriteNext == SendCommand \/ TakeByte

WriteSpec == WriteInit /\ [][WriteNext]_writeVars

\* The first n commands, as they are meant.
MeantUpTo(n) == [i \in 1 .. n |-> Meant(commands[i])]

\* The amplifier hears what was meant, one message per command and none in
\* between, although two commands are framed twice (midi/Midi.kt:147, 155).
WritesAreHeard ==
    /\ \E n \in passed .. Len(commands) : n <= passed + 1 /\ heard.out = MeantUpTo(n)
    /\ position = 1 => heard.out = MeantUpTo(passed)

=============================================================================
