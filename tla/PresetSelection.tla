-------------------------- MODULE PresetSelection --------------------------
(***************************************************************************)
(* Which preset the amplifier plays (currentPreset and presets of main.kt, *)
(* changed by bluetoothMessage, uartMessageReceived and onMidiMessage).    *)
(*                                                                         *)
(* The pedal's buttons, the phones and the amplifier's own knobs change    *)
(* one index from three threads.  Every read and write of currentPreset    *)
(* and presets is atomic and nothing holds them together: a button checks  *)
(* the index, reads it again to step it, and twice more to use it.         *)
(*                                                                         *)
(* Sequences count from 1 here, the program's lists from 0: Preset(i).     *)
(***************************************************************************)
EXTENDS Integers, SequencesExt

CONSTANTS Presets,      \* the presets there may be
          Custom,       \* a setting of the amplifier that is none of them
          Phones,       \* the Bluetooth handlers, one per connection
          MaxPresets,   \* bound: presets in the list
          MaxKnobs,     \* bound: knob messages the program has not handled
          MaxBelow      \* bound: how far below 0 an index may be that a phone names

ASSUME CustomAssumption == Custom \notin Presets
ASSUME MaxPresetsAssumption == MaxPresets \in Nat
ASSUME MaxKnobsAssumption == MaxKnobs \in Nat
ASSUME MaxBelowAssumption == MaxBelow \in Nat

Buttons == {"left", "right"}

VARIABLES
    list,       \* presets
    current,    \* currentPreset
    amp,        \* what the amplifier plays
    midi,       \* the published connection: none, live, or dead unnoticed
    heard,      \* onMidiMessage is subscribed to the amplifier's messages
    knobs,      \* knob messages between the amplifier and onMidiMessage
    press,      \* how far the UART handler is with a button
    button,     \* ... which one
    target,     \* ... and the index it is about to set, or -1
    uartUp,     \* the UART subscription is alive
    select,     \* select[h]: how far h is with PresetSelect or the answer to
                \* CurrentPresetIndexRq; "over": it has no subscription
    choice,     \* choice[h]: ... and the index in it, or -1
    knob,       \* how far onMidiMessage is with a knob message
    published,  \* bluetoothConnection, the handler whose phone it is, while there is one
    phone,      \* ... none, new (told no index yet), there, or left unnoticed
    told,       \* the index that phone shows
    lowest,     \* ghost: the lowest index a phone has set, or -1
    alone,      \* ghost: no other handler ran during the last one
    settled     \* ghost: the index, the amplifier and the phone were last
                \* brought together by a handler that ran alone

core   == <<list, current, amp, midi, heard, knobs, lowest>>
uart   == <<press, button, target, uartUp>>
phones == <<select, choice>>
link   == <<published, phone, told>>
ghosts == <<alone, settled>>
vars   == <<core, uart, phones, knob, link, ghosts>>

Indices == 0 .. Len(list) - 1
Preset(i) == list[i + 1]

\* The variables keep their types; the list keeps its bound, and no more
\* knob messages are handled than were sent.
TypeOK ==
    /\ list \in Seq(Presets)
    /\ Len(list) <= MaxPresets
    /\ current \in Int
    /\ amp \in Presets \cup {Custom}
    /\ midi \in {"none", "live", "dead"}
    /\ heard \in BOOLEAN
    /\ knobs \in 0 .. MaxKnobs
    /\ press \in {"idle", "check", "wrap", "step", "set", "guard", "send", "tell", "error"}
    /\ button \in Buttons
    /\ target \in Int
    /\ uartUp \in BOOLEAN
    /\ select \in [Phones -> {"over", "idle", "answer", "send", "set"}]
    /\ choice \in [Phones -> Int]
    /\ knob \in {"idle", "set", "tell"}
    /\ published \in Phones
    /\ phone \in {"none", "new", "there", "left"}
    /\ told \in Int
    /\ lowest \in Int
    /\ alone \in BOOLEAN
    /\ settled \in BOOLEAN

\* Any list may have been loaded from the file.  Nobody is connected.
Init ==
    /\ list \in UNION {[1 .. n -> Presets] : n \in 0 .. MaxPresets}
    /\ current = -1
    /\ amp = Custom
    /\ midi = "none"
    /\ heard = FALSE
    /\ knobs = 0
    /\ press = "idle"
    /\ button = "left"
    /\ target = -1
    /\ uartUp = TRUE
    /\ select = [h \in Phones |-> "over"]
    /\ choice = [h \in Phones |-> -1]
    /\ knob = "idle"
    /\ published \in Phones
    /\ phone = "none"
    /\ told = -1
    /\ lowest = -1
    /\ alone = TRUE
    /\ settled = FALSE

AtRest(h) == select[h] \in {"over", "idle"}

AllIdle ==
    /\ press = "idle"
    /\ knob = "idle"
    /\ \A h \in Phones : AtRest(h)

\* What a handler that begins does to the ghosts.
Begins ==
    /\ alone' = AllIdle
    /\ settled' = (settled /\ AllIdle)

\* What a change to the list, the connection or the amplifier does.
Disturbs ==
    /\ alone' = (alone /\ AllIdle)
    /\ settled' = FALSE

\* What a handler that has set the index does, if it has told whom it concerns.
Settles(wasTold) ==
    /\ settled' = (alone /\ wasTold)
    /\ UNCHANGED alone

-----------------------------------------------------------------------------
(* The surroundings.                                                       *)

\* The amplifier is connected, with a setting of its own; an exception may
\* keep midiConnect from subscribing to its messages.  It goes; its reader
\* finds that once all messages are handled, and onMidiError clears midi
\* unless its own message to the phone fails; or it clears a newer connection
\* (MidiLink has the causes of all these).
Amplifier ==
    /\ \/ /\ midi = "none" /\ ~heard
          /\ midi' = "live" /\ heard' \in BOOLEAN /\ amp' = Custom
       \/ midi = "live" /\ midi' = "dead" /\ UNCHANGED <<amp, heard>>
       \/ /\ midi # "live" /\ heard /\ knobs = 0 /\ knob = "idle"
          /\ midi' = IF phone = "left" THEN midi ELSE "none"
          /\ heard' = FALSE
          /\ UNCHANGED amp
       \/ midi = "live" /\ midi' = "none" /\ UNCHANGED <<amp, heard>>
    /\ Disturbs
    /\ UNCHANGED <<list, current, knobs, lowest, uart, phones, knob, link>>

\* The message of a knob is lost when nobody is subscribed.
TurnKnob ==
    /\ midi # "dead"
    /\ amp' = Custom
    /\ IF heard THEN knobs < MaxKnobs /\ knobs' = knobs + 1 ELSE UNCHANGED knobs
    /\ UNCHANGED <<list, current, midi, heard, lowest, uart, phones, knob, link, ghosts>>

\* The phone leaves, and is found to have left (bluetoothError).
PhoneLeaves ==
    /\ \/ phone \in {"new", "there"} /\ phone' = "left"
       \/ phone = "left" /\ phone' = "none"
    /\ told' = -1
    /\ UNCHANGED <<core, uart, phones, knob, published, ghosts>>

\* A connection with a handler of its own; the newest one is published.
PhoneConnects(h) ==
    /\ AtRest(h)
    /\ select' = [select EXCEPT ![h] = "idle"]
    /\ published' = h
    /\ phone' = "new"
    /\ told' = -1
    /\ UNCHANGED <<core, uart, choice, knob, ghosts>>

-----------------------------------------------------------------------------
(* Phones: bluetoothMessage.  An exception ends the subscription of that   *)
(* connection.                                                             *)

\* AddPresetRq, RemovePresetRq and SetPresetsRq replace the list and leave
\* the index as it is (PresetStore has the file).
EditList(h) ==
    /\ select[h] = "idle"
    /\ \/ /\ Len(list) < MaxPresets
          /\ \E p \in Presets : list' = Append(list, p)
       \/ \E i \in Indices : list' = RemoveAt(list, i + 1)
       \/ list' \in UNION {[1 .. n -> Presets] : n \in 0 .. MaxPresets}
    /\ Disturbs
    /\ UNCHANGED <<current, amp, midi, heard, knobs, lowest, uart, phones, knob, link>>

\* IMidiMessage: a setting of the phone's own goes to the amplifier, and the
\* index stays.  This and any other write may fail if the amplifier has gone.
PlaySetting(h) ==
    /\ select[h] = "idle"
    /\ \/ midi = "live" /\ amp' \in Presets \cup {Custom} /\ UNCHANGED select
       \/ midi = "dead" /\ select' = [select EXCEPT ![h] = "over"] /\ UNCHANGED amp
    /\ Disturbs
    /\ UNCHANGED <<list, current, midi, heard, knobs, lowest, uart, choice, knob, link>>

\* CurrentPresetIndexRq: the index is read ...
AskIndex(h) ==
    /\ select[h] = "idle"
    /\ select' = [select EXCEPT ![h] = "answer"]
    /\ choice' = [choice EXCEPT ![h] = current]
    /\ Begins
    /\ UNCHANGED <<core, uart, knob, link>>

\* What is sent to a phone that is there is what it shows then.
Tell(i) ==
    IF phone \in {"new", "there"} THEN phone' = "there" /\ told' = i
                                  ELSE UNCHANGED <<phone, told>>

\* The handler's request has been dealt with, or an exception has ended it.
Leaves(h, at) ==
    /\ select' = [select EXCEPT ![h] = at]
    /\ choice' = [choice EXCEPT ![h] = -1]

\* ... and sent to the phone that is published; one that has left unnoticed
\* ends the subscription and is found (bluetoothError).
AnswerIndex(h) ==
    /\ select[h] = "answer"
    /\ IF phone = "left" THEN phone' = "none" /\ UNCHANGED told ELSE Tell(choice[h])
    /\ Leaves(h, IF phone = "left" THEN "over" ELSE "idle")
    /\ UNCHANGED <<core, uart, knob, published, ghosts>>

\* A phone shows what it has chosen itself; the one that is published is not
\* told what another one chooses.
Shows(h, i) ==
    /\ told' = IF h = published THEN i ELSE told
    /\ phone' = IF h = published /\ phone = "new" THEN "there" ELSE phone

\* PresetSelect(-1).
SelectCustom(h) ==
    /\ select[h] = "idle"
    /\ current' = -1
    /\ Shows(h, -1)
    /\ alone' = AllIdle
    /\ settled' = (AllIdle /\ h = published)
    /\ UNCHANGED <<list, amp, midi, heard, knobs, lowest, uart, phones, knob, published>>

\* PresetSelect; only an index that is too large is refused.
Select(h) ==
    /\ select[h] = "idle"
    /\ \E i \in (-MaxBelow .. Len(list) - 1) \ {-1} : choice' = [choice EXCEPT ![h] = i]
    /\ select' = [select EXCEPT ![h] = "send"]
    /\ Begins
    /\ UNCHANGED <<core, uart, knob, link>>

\* With an amplifier the list is read again: an index it does not have throws,
\* and so may the write if the amplifier has gone.
SelectSends(h) ==
    /\ select[h] = "send"
    /\ \/ /\ midi = "live" /\ choice[h] \in Indices
          /\ amp' = Preset(choice[h])
          /\ select' = [select EXCEPT ![h] = "set"]
          /\ UNCHANGED choice
       \/ /\ midi = "none" \/ (midi = "dead" /\ choice[h] \in Indices)
          /\ select' = [select EXCEPT ![h] = "set"]
          /\ UNCHANGED <<amp, choice>>
       \/ /\ midi = "dead" \/ (midi = "live" /\ choice[h] \notin Indices)
          /\ Leaves(h, "over")
          /\ UNCHANGED amp
    /\ UNCHANGED <<list, current, midi, heard, knobs, lowest, uart, knob, link, ghosts>>

SelectSets(h) ==
    /\ select[h] = "set"
    /\ current' = choice[h]
    /\ lowest' = IF choice[h] < lowest THEN choice[h] ELSE lowest
    /\ Shows(h, choice[h])
    /\ Leaves(h, "idle")
    /\ Settles(midi = "live" /\ h = published)
    /\ UNCHANGED <<list, amp, midi, heard, knobs, uart, knob, published>>

-----------------------------------------------------------------------------
(* Buttons: uartMessageReceived.                                           *)

Press(b) ==
    /\ uartUp
    /\ press = "idle"
    /\ press' = "check"
    /\ button' = b
    /\ Begins
    /\ UNCHANGED <<core, target, uartUp, phones, knob, link>>

\* A mutated form of Wraps: the right button wraps around one too late.
WrapsLate ==
    IF button = "left" THEN current <= 0
                       ELSE current = -1 \/ current + 1 > Len(list)

\* A mutated form of Wraps: the left button wraps around at custom only.
WrapsAtCustom ==
    IF button = "left" THEN current = -1
                       ELSE current = -1 \/ current + 1 >= Len(list)

Wraps ==
    IF button = "left" THEN current <= 0
                       ELSE current = -1 \/ current + 1 >= Len(list)

CheckIndex ==
    /\ press = "check"
    /\ press' = IF Wraps THEN "wrap" ELSE "step"
    /\ UNCHANGED <<core, button, target, uartUp, phones, knob, link, ghosts>>

Wrapped == IF button = "left" THEN Len(list) - 1 ELSE 0
Stepped == IF button = "left" THEN current - 1 ELSE current + 1

ReadIndex ==
    /\ \/ press = "wrap" /\ target' = Wrapped
       \/ press = "step" /\ target' = Stepped
    /\ press' = "set"
    /\ UNCHANGED <<core, button, uartUp, phones, knob, link, ghosts>>

SetIndex ==
    /\ press = "set"
    /\ current' = target
    /\ target' = -1
    /\ press' = "guard"
    /\ settled' = FALSE
    /\ UNCHANGED <<list, amp, midi, heard, knobs, lowest, button, uartUp, phones, knob, link, alone>>

\* A mutated form of Guard: indices from 0 to the size of the list.
GuardOffByOne ==
    /\ press = "guard"
    /\ press' = IF current \in 0 .. Len(list) THEN "send" ELSE "idle"
    /\ UNCHANGED <<core, button, target, uartUp, phones, knob, link, ghosts>>

Guard ==
    /\ press = "guard"
    /\ press' = IF current \in Indices THEN "send" ELSE "idle"
    /\ UNCHANGED <<core, button, target, uartUp, phones, knob, link, ghosts>>

\* Reads the list and the index again.  An index out of bounds ends the UART
\* subscription; a write that fails is handled by onMidiError.
SendPreset ==
    /\ press = "send"
    /\ \/ /\ midi = "none" \/ (midi = "dead" /\ current \in Indices)
          /\ press' = "tell"
          /\ UNCHANGED <<amp, uartUp>>
       \/ /\ midi = "live" /\ current \in Indices
          /\ press' = "tell"
          /\ amp' = Preset(current)
          /\ UNCHANGED uartUp
       \/ /\ midi = "dead" /\ current \in Indices
          /\ press' = "error"
          /\ UNCHANGED <<amp, uartUp>>
       \/ /\ midi # "none" /\ current \notin Indices
          /\ press' = "idle"
          /\ uartUp' = FALSE
          /\ UNCHANGED amp
    /\ UNCHANGED <<list, current, midi, heard, knobs, lowest, button, target, phones, knob, link,
                   ghosts>>

\* onMidiError on this thread closes what is published and clears it, unless
\* its message to a phone that has left throws (MidiLink has its steps).
FailPress ==
    /\ press = "error"
    /\ press' = "idle"
    /\ midi' = IF phone = "left" /\ midi # "none" THEN "dead" ELSE "none"
    /\ uartUp' = (phone # "left")
    /\ UNCHANGED <<list, current, amp, heard, knobs, lowest, button, target, phones, knob, link,
                   ghosts>>

\* The phone is told the index, read once more; one that has left unnoticed
\* ends the UART subscription.
TellPhone ==
    /\ press = "tell"
    /\ press' = "idle"
    /\ Tell(current)
    /\ uartUp' = (phone # "left")
    /\ Settles(midi = "live")
    /\ UNCHANGED <<core, button, target, phones, knob, published>>

-----------------------------------------------------------------------------
(* Knobs: onMidiMessage.                                                   *)

\* A mutated form of TakeKnob: the comparison is the wrong way round.
TakeKnobInverted ==
    /\ heard
    /\ knob = "idle"
    /\ knobs > 0
    /\ knobs' = knobs - 1
    /\ knob' = IF current = -1 THEN "set" ELSE "idle"
    /\ Begins
    /\ UNCHANGED <<list, current, amp, midi, heard, lowest, uart, phones, link>>

TakeKnob ==
    /\ heard
    /\ knob = "idle"
    /\ knobs > 0
    /\ knobs' = knobs - 1
    /\ knob' = IF current # -1 THEN "set" ELSE "idle"
    /\ Begins
    /\ UNCHANGED <<list, current, amp, midi, heard, lowest, uart, phones, link>>

\* A mutated form of ResetIndex: the message is taken once more.
ResetTakesAgain ==
    /\ knob = "set"
    /\ current' = -1
    /\ knob' = "tell"
    /\ knobs' = knobs - 1
    /\ UNCHANGED <<list, amp, midi, heard, lowest, uart, phones, link, ghosts>>

ResetIndex ==
    /\ knob = "set"
    /\ current' = -1
    /\ knob' = "tell"
    /\ UNCHANGED <<list, amp, midi, heard, knobs, lowest, uart, phones, link, ghosts>>

\* A phone that has left makes this throw: the subscription to the amplifier
\* ends, the messages that wait are dropped and later ones are not heard until
\* the next connection.  The index is set by then.
TellCustom ==
    /\ knob = "tell"
    /\ knob' = "idle"
    /\ Tell(-1)
    /\ heard' = (heard /\ phone # "left")
    /\ knobs' = IF phone = "left" THEN 0 ELSE knobs
    /\ Settles(TRUE)
    /\ UNCHANGED <<list, current, amp, midi, lowest, uart, phones, published>>

-----------------------------------------------------------------------------
ByPhone(h) ==
    \/ EditList(h) \/ PlaySetting(h)
    \/ AskIndex(h) \/ AnswerIndex(h)
    \/ SelectCustom(h) \/ Select(h) \/ SelectSends(h) \/ SelectSets(h)

ByButton ==
    \/ \E b \in Buttons : Press(b)
    \/ CheckIndex \/ ReadIndex \/ SetIndex \/ Guard \/ SendPreset \/ TellPhone \/ FailPress

ByKnob == TakeKnob \/ ResetIndex \/ TellCustom

Next ==
    \/ Amplifier \/ TurnKnob \/ PhoneLeaves
    \/ \E h \in Phones : PhoneConnects(h) \/ ByPhone(h)
    \/ ByButton
    \/ ByKnob

Spec == Init /\ [][Next]_vars

-----------------------------------------------------------------------------
(* Properties.                                                             *)

\* Whatever the handlers do to one another, the buttons take the index no
\* further than one below what a phone has set or custom, and none past the
\* longest list (main.kt:265 and 282 test for "<= 0" and ">=", the step between
\* test and read may go wrong once, main.kt:268).  A phone may set any index
\* below -1 itself, when there is no amplifier (main.kt:223-228).
MissesByOne == current \in lowest - 1 .. MaxPresets

\* Between them the two buttons bring back any index, one that a removal
\* (main.kt:199) or another phone has made stale too: a press that no other
\* handler runs into leaves the index at or above the list's beginning
\* (main.kt:265) or before its end (main.kt:282), by its side.
PressRecovers ==
    alone /\ press = "guard" /\ list # <<>> =>
        IF button = "left" THEN current >= 0 ELSE current < Len(list)

\* Once a handler that ran alone has chosen, the index, the amplifier and the
\* phone agree while nobody is at work, however they were before: a phone that
\* was told an index shows the one there is, and unless that is custom it is
\* one of the list; its preset is what the amplifier plays, unless a knob
\* message is on its way or knobs are not heard (main.kt:114, 156).
SelectionAgrees ==
    AllIdle /\ settled =>
        /\ phone = "there" => told = current
        /\ current # -1 =>
               /\ current \in Indices
               /\ heard /\ knobs = 0 => amp = Preset(current)

\* A press that no other handler runs into does not end the UART
\* subscription, unless the phone has left: the index it uses at main.kt:291
\* is one that it has checked at main.kt:290.
PressSurvives == [][alone /\ phone # "left" /\ uartUp => uartUp']_vars

=============================================================================
