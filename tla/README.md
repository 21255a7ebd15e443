# THR-comm: specifications and proofs

THR-comm is a daemon on a pedal board. It connects a guitar amplifier (MIDI
over USB), a microcontroller with buttons and a battery (UART), phones
(Bluetooth RFCOMM through BlueZ) and a console. This directory models the parts
of it in which threads, devices and files meet, checks them with TLC, and proves
some of the properties for every size with TLAPS. Paths below are relative to
`src/nativeMain/kotlin/cz/fjerabek/thr/`.

Check a model with `tlc -config X.cfg MCModule`, a proof with `tlapm
Module_proofs.tla`. `PROJECT.json` maps definitions to lines of the source and
lists the runs, findings, hazards and theorems.

## 1. The system

### Threads

The code never makes a thread itself; Reaktive's schedulers do. As the models
take them:

| thread | runs |
| --- | --- |
| GLib main loop | heartbeat timer, button timers, D-Bus calls (NewConnection, pin agent) |
| io thread | one per `subscribeOn/observeOn(ioScheduler)`: the UART reader, the UART handler, the console, a reader and a handler per connection, the subscriber of `midiConnect` |
| main scheduler | one thread, tasks in order: waits for the amplifier, reading loops of the amplifier |
| new thread | the handler of each `Midi` object's messages (`observeOn(newThreadScheduler)`) |

Shared state is in atomic references: each read and each write is atomic and
nothing holds two of them together. `update` and `getAndUpdate` are atomic.
`x.value--` is a read and a write. `observeOn` puts a queue between an emitter and
its handler. An exception in `onNext` disposes that subscription and goes to
`onError`; later emissions are dropped.

### Components

| component | state | operations | talks to |
| --- | --- | --- | --- |
| UART link (`uart/Uart.kt`) | `uartQueue`, the tty's and the channel's buffers, the GError pointer | four requests, `writeString`, the read loop, `fromString` | board; called from three kinds of threads |
| UART answers (`main.kt`) | `isCliRq`, the subscription | `uartMessageReceived`, `cliCommandProcessor` | UART link, console, phone |
| Preset store (`file/PresetsManager.kt`, `main.kt`) | `presets`, the file | load, save, add, remove, set | phones' handlers |
| Preset selection (`main.kt`) | `currentPreset`, `presets` | buttons, `PresetSelect`, `ChangeMessage` | UART, phones, amplifier |
| MIDI link (`midi/Midi.kt`, `main.kt`) | `midi`, streams, tasks | wait, read, write, close, `onMidiError` | amplifier, phone |
| Bluetooth sessions (`bluetooth/BluetoothConnection.kt`, `Bluetooth.kt`, `main.kt`) | `bluetoothConnection`, builders, subscriptions | NewConnection, read, decode, answer, `bluetoothError` | phones, all of the above |
| Button timers and pairing (`main.kt`, `bluetooth/PinAgent.kt`) | timer ids, attached timers, adapter properties | press, release, timeout, authorisation | GLib, BlueZ |
| Command line (`cli/ArgParser.kt`, `main.kt`) | none | find options and values, fail, help | main |
| GLib wrapper, adapter, SDP, console parser, logging, serializer setup, bindings | none, or set once at start | | |

### What is hard, and what makes each part correct

* **UART link.** A reply does not say what it answers: the reader pops the
  newest entry of a list that three threads push to. Replies get lost
  (`tcflush` after each write, full buffers), writes fail after the push. Correct: the
  list accounts for what is outstanding and lost; it never runs out; a request made
  alone is decoded as what it was; what is read is delivered.
* **UART answers.** One flag decides who gets an answer. Correct: what is
  printed on the console answers the console.
* **Preset store.** Saving empties the file first; edits and saves of two
  handlers overlap; the power goes at any moment. Correct: the file is the list,
  or at worst unusable, and the program can be started again.
* **Preset selection.** Three threads test, step and use one index; lists are edited
  under it and phones name indices that no preset has. Correct: the buttons bring the
  index back and take it nowhere else, index, amplifier and phone agree, and a button
  never ends its own subscription.
* **MIDI link.** The device comes and goes; stdio hides failed writes; the
  reference is cleared after the next connection was asked for. Correct: one
  driver of the connection, no stream closed twice, the connection comes back.
* **Bluetooth sessions.** Reads part and join lines; the newest connection is
  published while older ones live on. Correct: every well-formed line is handled
  once and in order; answers go to who asked; a connected phone is published.
* **Timers and pairing.** The UART handler and the main loop share a variable for
  the id of each button's timer: the id is kept after the timer is gone,
  overwritten by the next press and reset by a callback that began earlier. Two
  D-Bus calls set and reset two properties. Correct: a timer runs only while its
  button is held; holding the button opens the adapter, and it is never left
  discoverable without being pairable.
* **Conversions.** Readers that come in anywhere in a stream of bytes, reads that
  part lines and characters, 0 bytes that end the text of a read, options anywhere in
  the line. Correct: what comes out is what a plain reading of the whole input gives,
  and where it is less, what is missing is known.

## 2. Modules

| module | models | extends or instantiates |
| --- | --- | --- |
| `UartLink` | the link, its senders and its reader | |
| `UartAnswers` | the link composed with handler and console | extends `UartLink` |
| `PresetRegister` | abstract: a list, what its file is worth, restarts | |
| `PresetStore` | edits, saves, loads, crashes | instantiates `PresetRegister` |
| `PresetSelection` | `currentPreset` | |
| `MidiLink` | the amplifier's connection | |
| `BtSessions` | connections, framing, errors | |
| `Pairing` | button timers, their ids, the adapter | |
| `ArgParser` | the command line, one step per word | |
| `MidiFrames` | the amplifier's bytes in both directions, one step per byte | |
| `LineText` | a phone's bytes to lines, one step per byte, end of a read or line | |
| `Conversions` | the conversions of these three, one of them at a time | extends them |
| `UartLink_proofs`, `PresetStore_proofs`, `PresetSelection_proofs`, `MidiLink_proofs`, `BtSessions_proofs`, `Pairing_proofs` | theorems | extend the module and TLAPS |
| `UartAnswers_proofs` | theorems | extends `UartAnswers` and `UartLink_proofs` |
| `Conversions_proofs` | theorems about the four and about each of them | extends `Conversions` and TLAPS |
| `MC*` | instances for TLC | extend the module |

Definitions called "a mutated form of" or "mutant of" another are that
definition with a plausible mistake. No specification uses them; they are there to
try, in place of the original, whether the properties notice.

### UartLink

One action per step a thread can be interrupted at: `Enqueue` (the push), `Write`
or `WriteFails`, `Flush`. The four requests are the same two calls, so the command
is a parameter. `tx` holds commands on the way to the board, `rx` is the tty's
buffer, `held` the lines the GIOChannel has taken from it (`Fill`). The board is
external: it answers each command once and in order, and may send a button, its
power-off notice, a line that does not parse or noise at any time. What does not
fit `rx` is dropped. A reply that is corrupted on the line is one that does not
fit plus a line that does not parse. `tcflush` discards whole lines.

`ReadReply` pops the last entry (`Pop`) and decodes the line as that command's
(`Decoded`): a line has the command it answers in `text` and, as a ghost, the
thread in `by`, neither of which the code sees. `lost` counts replies that will
never be read, `lone` says that the last push found nothing outstanding.

### UartAnswers

The console's thread sets `isCliRq` (`SetCliFlag`) a step before it pushes.
`Deliver` is the reader's `onNext` into the queue of `observeOn`, `TakeForCli` and
`Answer` are the handler's read and reset of the flag, `Forward` sends to the
phone, `HandlerThrows` is a phone that has left: the subscription is disposed.
`sequential` stays true as long as each request waits for the one before.

### PresetStore and PresetRegister

A file is a sequence of blocks: the presets of a list in order and an end. Only
the whole parses. `Open` empties the file, `Puts` writes any part of the text and
buffers the rest, `Close` writes the rest, or less when the device is full. Two
writers have offsets of their own (`Overlay`). `Crash` may happen anywhere: memory
and buffers are lost. `fopen("rb")` is taken to fail only for a missing file.
Between the check of `RemovePresetRq` and the removal lies a step.

`PresetRegister` is what is left of that when one looks from outside: memory, a
file that is worth a list or unusable, and a program that is up or not. Its
`Commit` can only write the list that is in memory at that moment. The refinement
maps a missing file to the empty list, a file that parses to its list and any
other to `Unusable`.

### PresetSelection

A press is `Press`, `CheckIndex` (the test), `ReadIndex` (the read that is
stepped), `SetIndex`, `Guard` (main.kt:290), `SendPreset` (main.kt:291, which
reads list and index again) and `TellPhone`. Two reads within one condition are one
step: the handler goes the same way as with the value of the later read. A phone's
selection is `Select`, `SelectSends`, `SelectSets`; a knob's message `TakeKnob`,
`ResetIndex`, `TellCustom`. `amp` is what the amplifier plays, `told` what the phone
shows. The list's edits are here as far as the index sees them; the file is
`PresetStore`'s. `alone` says that nothing ran into the last handler, `settled`
that such a handler was the last to choose.

What makes the index and the amplifier part is in the model as the code has it:
`Select` offers the indices below -1 that main.kt:223 lets through (`MaxBelow` bounds
them), which throw in `SelectSends` with an amplifier and are set without one, and the
ghost `lowest` remembers them; `PlaySetting` is a phone's `IMidiMessage` (main.kt:186),
which changes what the amplifier plays and not the index; a `TellCustom` to a phone
that has left ends the subscription to the amplifier, so that knobs are not heard
(`heard`) until the next connection. A phone that has connected has not been told an
index (`phone = "new"`) until something is sent to it or it chooses itself. An
exception in a phone's handler ends that phone's subscription (`select[h] = "over"`),
one in a press the UART's (`uartUp`). `FailPress` is `onMidiError` after a button's
failed write, in one step; `MidiLink` has its steps.

### MidiLink

`tasks` is the main scheduler's queue; its head runs: a wait (`Access`,
`OpenStreams`) or the reader of an object (`StartReading`, `MessageBegins`,
`MessageEnds`, `ReadEnds`). `callback` is the subscriber of `midiConnect`, `error`
a thread in `onMidiError`, `using` a writer that has taken the published object.
Unplugging kills open streams for good. Inside a message a dead stream has no step:
the loop of Midi.kt:63-69 goes on without effect. The handling of a
message is part of `MessageEnds`, as far as it can end the subscription. After a
misuse of a stream (`misused`) the C library promises nothing; the model goes on as
if the call had returned, and `Reconnects` claims nothing from then on.
`overtaken` records that `ClearMidi` (main.kt:138) has cleared a newer object than
the one whose error is handled: that connection is read and never written to.

### BtSessions

`wire`, `builder`, `batch` and `inbox` are the stages of a message: sent, read but
not yet a line, being decoded, on its way to the handler. A message is two pieces,
its text and the newline, and `ReadSome` takes any number of pieces. `using` is
the connection a handler has read from `bluetoothConnection` and will write to.
`ReaderFailed` and a failing `Answer` lead to `BluetoothError`, which unpublishes
whatever is published. `AmpGone` is a handler that fails because of the amplifier.
`overlapped` is set when a connection is made while an older one can still act.

### Pairing

A press is `TakeLine`, `AddTimer` (`g_timeout_add` attaches the timer), `StoreId`
(the assignment) and `FinishPress`; a release `TakeLine`, `TestId` and
`RemoveTimer`, which reads the variable again. Between any two of them the main
loop may run a callback: `Fire` takes the oldest timer off, then `OpenAdapter`'s two
D-Bus calls for the right button, then `ResetId`. `Authorise` and `CloseAdapter` are
the pin agent's `RequestAuthorization`. A D-Bus call that fails throws out of a C
callback, which ends the program; BlueZ may have set the property all the same.

GLib gives out an id once (its counter would have to wrap at 2^32). So instead of a
number a timer has in `known` who knows its id: the handler that is about to store
it, the variable, or nobody once the variable was overwritten. `timeoutId[b]` says
that the variable is not -1; it may name a timer that is gone. Time is left out: an
attached timer may fire at any step, the oldest first, since all last three seconds.
`Move` is a button whose line arrives or is lost (`lost`), as `UartLink` explains.

### ArgParser, MidiFrames, LineText and Conversions

Sequential code, as machines that take one word, byte or line per step, so that what
holds of every input is an invariant. Each also keeps what its environment has sent,
which the code does not see and the properties speak of.

* In `ArgParser` a command line grows by a word (`NextWord`); every line on the way is
  one that `main` may be given. `Parse` looks for each option of `main` separately, as
  `getIndex` does; `scan` is the reference, a reader from left to right.
* In `MidiFrames` the amplifier sends messages byte by byte (`BeginMessage`,
  `SendData`, `EndMessage`, external) and the device is opened somewhere in them
  (`OpenDevice`). `ReadByte` is the two loops of `readMessage` as an automaton, its
  `inside` which of the two; `of` says which message was handed on. In the other
  direction `SendCommand` is `send` with all that is sent by it, `lamp` and
  `wideStereo` framing once more what they have framed; `TakeByte` and `HearByte` are
  an amplifier that takes the first byte of a message for one wherever it comes.
* In `LineText` a character has one byte to four (`Bytes`). `DecodeByte` is a byte of
  `read` and `toKString`: one of a character that goes on (`DecodePart`), the last of one
  that is decoded (`DecodeCharacter`) or of one that is not (`SkipCharacter`), because it
  is the 0 byte `Nul` or behind one in its read: `toKString` stops there (`cut`).
  Bytes of a character that a read has parted are decoded as `Bad` characters, one at
  least and at most one each (`BadPieces`): how many is left open. `EndRead` is the end
  of the read (wherever that is) with the rest of the turn up to `forEach`, `NextLine`
  one line of `forEach`, which ends it if the line is no message: the catch drops
  what is behind. `of` says which character of the phone's a decoded one was, `parted`
  which ones a read has parted, `gone` which ones no line is given, `dealt` up to which
  newline the lines were gone through.

The conversions share nothing. `Conversions` is all of them side by side, of which
one (`kind`) takes the steps: TLC then adds up their states and does not multiply
them.

## 3. Runs

| run | bounds | shows |
| --- | --- | --- |
| `UartSticky` | no phone, all unasked lines | `LinesConsumed` fails: the reader is stuck after one bad line |
| `UartAnswers` | one phone, 1 line in the tty, 2 entries in the queue, 1 message waiting, noise | `QueueAccounts`, `NoUnderflow`, `LoneRequestMatched` of the link, `TypeOK` (with the link's types) and `SequentialAnswersRouted` hold |
| `UartMisrouted` | one phone, 2 lines, 2 entries, 1 message, buttons | `AnswersRouted` fails |
| `PresetStore` | 1 handler, 2 presets, lists up to 2, every fault | `TypeOK`, `SavedWhenIdle` and the refinement `ImplementsRegister` hold |
| `PresetCrash` | the same, crashes only | `StartsAgain` fails |
| `PresetRace` | 2 handlers, no faults | `SavedWhenIdle` fails |
| `MidiLink` | 2 connections of the amplifier | `TypeOK`, `OneDriver`, `StreamsClosedOnce`, `ReadIsPublished`, `Reconnects` hold |
| `MidiSpin` | the same | `DeadReadEnds` fails |
| `PresetSelection` | 1 phone that comes back any number of times and names indices from -2 on, lists up to 2 of 2 (symmetric) presets, 1 knob message waiting | `TypeOK`, `MissesByOne`, `PressRecovers`, `SelectionAgrees`, `PressSurvives` hold |
| `BtSessions` | 2 connections, 2 messages of 3 kinds | `TypeOK`, `NothingLost`, `NothingWaits`, `AnswersAsker`, `ConnectedIsPublished` hold |
| `Pairing` | 2 timers, 1 line waiting | `TypeOK`, `TimerMeansHeld`, `NeverHalfOpen`, `HoldOpens` hold |
| `Conversions` | 4 words of 9, 3 MIDI messages of up to 2 bytes of 4 with the device opened at any byte, 3 commands, 5 characters of 6 (of one, two and four bytes, blanks, 0 bytes and newlines) and any reads | `ArgsMatchScan`, `ReadsFromNextMessage`, `WritesAreHeard`, `LinesArrive` hold |

Why the bounds are enough to be of interest: two entries let a stale entry of one
thread and a lone request of another meet, and a tty of one line is full as soon as
two replies come (the theorems of section 4 have the link for every size); a list of
two presets has a first, a last and a preset below the selected one; two `Midi`
objects are one unplugging with everything that overlaps it; two connections are an
old and a new one; two messages are a line behind another, or behind a malformed
one, in one read; two timers are one whose id is lost and its successor, or one of
each button; four words are two options with values, or an option where the value of
another is expected and help behind it; five characters are two lines, one with a
wide character, and the beginning of a third, or a line that a 0 byte shortens or
joins to the next; -2 is an index below the one for custom. The bounds are named in each module
(`MaxLines`, `MaxPending`, `MaxEvents`, `MaxPresets`, `MaxKnobs`, `MaxBelow`, `MaxMessages`,
`MaxTimers`, `MaxWords`, `MaxData`, `MaxFrames`, `MaxCommands`, `MaxSent`, the sets of
ids). `PresetSelection` is checked under a VIEW that leaves out what
the phone shows (`told`) while nothing is settled: no guard reads it, the one property
that does speaks of settled states, and whatever settles tells the phone that is there
anew. In `MidiLink` the device is
only unplugged while an object is left for the next connection. `BtSessions` stops
when all phones have come and gone, `Pairing` when a D-Bus call has failed in a
callback, `Conversions` at its bounds: their configurations turn the check for
deadlock off; the others have none.

`SequentialAnswersRouted`, `SelectionAgrees`, `AnswersAsker` and
`ConnectedIsPublished` have a condition that says how far the design carries:
requests, handlers or connections that follow one another. Without it they fail in
the code; `UartMisrouted` shows it for the first, the hazards name the lines for the
others. `SelectionAgrees` says nothing from an edit of the list, a phone's own setting or a
change of the amplifier's connection to the next choice that runs alone, and of the
amplifier only while knobs are heard and none is waiting; `PressRecovers` and
`PressSurvives` are about a press that no other handler runs into, and the latter does
not hold when the phone has left (main.kt:292, 314). `MissesByOne` counts from the lowest
index a phone has set: it says what the buttons may do, not that a phone's own index is
one of a preset. `LinesArrive` names what is missing by its cause, a 0 byte or a line
that is no message, not by its size: either may take several lines with it.
`OneDriver` and `StreamsClosedOnce` hold until a button's write fails
(main.kt:294), `ReadIsPublished` also until main.kt:138 clears a newer object.
`TimerMeansHeld` excepts timers whose id nobody knows any more and buttons whose
release was lost: such timers open the adapter although nobody holds the button.
They come about when a release is lost and the button pressed again, or when the
callback of an earlier timer resets the id of a newer one (main.kt:277); the
property shows that there is no third way. `ArgsMatchScan` is about lines in which
no option is named twice: with `-m a -m b` `getIndex` takes the first, with `-m` and
`--midiFile` the short one.

### Fairness

`LinesConsumed` assumes weak fairness of the reader's loop, which waits for nobody.
`MidiLink` assumes it for the main scheduler's thread, each subscriber and each
thread in `onMidiError`; nothing is assumed of the device (in particular, a message
that has begun need not end), phones or buttons. `BtSessions` assumes it for accepted
connections, readers and handlers. `Pairing` assumes it for the thread of the UART
handler and the main loop, and nothing of buttons, line and BlueZ: `HoldOpens` does
not need a release to arrive. These are operating-system threads, or
Reaktive's, that block only in the calls the models have as guards.

### Findings

1. `UartSticky`: the GError pointer is never cleared (Uart.kt:148), against
   "called when new message is received" (Uart.kt:139).
2. `UartMisrouted`: the flag does not go with the request, against "Specifies that
   next UART request is from CLI" (main.kt:89).
3. `PresetCrash`: a start after a crash within a save fails, against the doc
   of `loadPresets`.
4. `PresetRace`: overlapping saves, against "Saves presets to file".
5. `MidiSpin`: a reader inside a message never sees the end of the stream, against
   "@throws MidiDisconnectedException when trying to read from disconnected device"
   (Midi.kt:47).

That `RemovePresetRq` does not move the index (main.kt:199) is in `PresetSelection` and
listed as a hazard. `SelectionAgrees` makes no claim from a removal to the next choice;
`PressRecovers` says that the next presses recover. The same goes for a phone's own setting
(main.kt:186) and an index below -1 (main.kt:223).

## 4. Proofs

Proved for every value of the constants, from the named assumptions of the modules
(threads are distinct and the handlers of the UART link finitely many, bounds are
natural numbers, names of different things are different, `Custom` is no preset; of the
two properties of `PresetStore` that there is one Bluetooth handler).
Each invariant of the passing runs is a theorem; so are the refinement and
`PressSurvives`.

### UartLink_proofs

`QueueIsAccounted`, `QueueNeverUnderflows`, `LoneRequestIsMatched`, and the types
(`LinkTypeCorrect`).
The account `Len(uartQueue) = Outstanding + lost` is inductive together with the
types; the lemmas about `Replies` say what appending a line and taking one does to
the count, and one about cardinalities what a thread that begins or ends to send
does. That the queue never runs out follows from the account. `LoneRequestMatched`
is not inductive: nothing in it says where the one outstanding request is before it
is read. `LoneInv` does: while `lone`, at most one thing is outstanding, in whichever
of four places, and it is the last entry of the queue.

### UartAnswers_proofs

`AnswersImplementLink` shows that every step of the composition is one of the link's
or leaves the link alone; so what is proved above holds of it, and
`AnswersTypeCorrect` adds the types of the handler. `SequentialAnswersAreRouted`
needs to know whose answer is where at every moment between the console's
`isCliRq = true` and the handler's reset: `Routed` says that a request is announced,
in flight (being written, at the board, in the tty or in the channel) or answered and
waiting for the handler, in one of these places only, and that all the while the flag
is set exactly if it is the console's. That two requests cannot be in flight at once
comes from the link: `sequential` implies `lone`. That the reply is decoded as what
was asked for is the link's `LoneRequestMatched`.

### PresetStore_proofs

`StoreTypeCorrect` holds whatever writers do to each other. `OneConnectionSaves` and
`OneConnectionImplementsRegister` are about one Bluetooth handler, as the run is; with two
the file is lost (`PresetRace`), for `savePresets` has no lock and each connection has a
handler of its own. That then no two writers are at work at the same time is not assumed but
proved (`OneConnection`): the main thread saves only before requests are served
(`ProgramInv`). So with one handler the file is never another list than one that was in
memory, and only a save that failed or was stopped leaves it of no use or as it was. The
invariant `SaveInv` says that an open file holds exactly the first
`pos` blocks of the text of the list in memory; `PrefixText` that such a prefix parses
only when it is the whole text. With it each step is mapped to one of the register:
a write that completes the text is `Commit`, any other leaves the file `Unusable`.

### PresetSelection_proofs

`SelectionTypeCorrect` and `IndexMissesByOne`: `MissesByOne` needs what a handler is
about to do. A left button that will step (`StepsInBounds`) decided so while the index
was positive, and by the time it reads it a knob or a phone may have made it anything from
`lowest` on, so that what is to be set (`TargetInBounds`) is one below that at least; what
a phone has chosen (`ChoiceInBounds`) is within the list's bound, and `lowest` takes note
of it when it is set.

`LonePressRecovers`, `LonePressSurvives` and `SettledSelectionAgrees` need a second
invariant beside that one: `alone` means that one handler at most is at work (`OneAtWork`),
such a press has decided by the index it reads and sets one by the side of the list's end
or beginning (`StepRecovers`), it uses the index it has checked and its preset is played
(`SentIsPlayed`), and what it has brought into agreement stays so until a handler is about
to set the index (`StaysSettled`).

### MidiLink_proofs

`MidiTypeCorrect`, `ConnectionHasOneDriver`, `StreamsAreClosedOnce`, `ReaderIsPublished`.
Work on the connection is handed on like a baton: from a wait to the subscriber, from
it to the reader, from it to `onMidiError` and back to a wait, on four kinds of threads
without a lock. `OneHolder` says there is one baton at most; `ObjectInv` what the holder
may rely on: from its publication until its streams are closed an object holds the
baton, is open, and is the published one or (after `ClearMidi` of an older error) none
is. `OneDriver` counts the holders of the baton; that no stream is closed twice or read
when closed follows from who may hold it. All but the types is claimed until a button's
write fails: the UART's thread then starts a second `onMidiError` (main.kt:294).

### BtSessions_proofs

`SessionTypeCorrect` and `SessionsLoseNothing` are about one stream. `FrameInv`: what
the builder holds together with what is on the wire is a number of whole lines,
wherever the reads have cut it. The lemma `Framing` says what the loop of
`startReceiver` makes of it: the texts it takes out of the builder and the lines that
remain are the lines there were. So what is in the four stages of a connection, one
behind the other (`Row`), stays what its phone has sent and not seen handled (`Kept`).

`HandlersAnswerAsker` and `UpIsPublished` are about several connections. As long as
none is made while an older one can act (`overlapped`), there is a `Newest` one: all
others are at rest, and what is published, used or failing is its own or none. The
step that counts is `bluetoothError` of an old connection, which clears whatever is
published: under the invariant there is nobody left to cause it.

### Pairing_proofs

`PairingTypeCorrect`, `TimersMeanHeldButtons`, `AdapterNeverHalfOpen`. A timer means a
held button only because of what comes before it: a press on its way has its release
behind it unless the button is still held (`PressesAnswered`), and so has the press
for which a timer is about to be attached (`AddAnswered`). `RemoveTimer` needs that a
variable has the id of one timer at most (`IdsKnown`, part of the types). For the
adapter, `CallsPaired` says what holds between the two calls of a callback.

### Conversions_proofs

`ArgsCorrect`, `ReadCorrect`, `WriteCorrect`, `TextCorrect`, each about the
specification of its conversion and for inputs of any length; by `Composition` a step
of `Conversions` is a step of one of these and leaves the others alone, so that all
four hold of it (`AllCorrect`). What a loop does to a whole input would need induction
over data; with a step per byte it is an inductive invariant that says what the loop
has done so far.

* `ArgsInv` says what the reader from left to right knows in terms of the line: what
  is named, what waits for a value, whose value each word is. If no option is named
  twice, the search finds the one place there is (`GetIndexFinds`) and both agree.
* `ReadInv`: the reader is inside a message exactly if the amplifier is and the
  device was open when it began, and then has the data sent so far.
* `WriteInv`: `Within` says what the amplifier has taken at each byte of a command,
  whether it is framed once or twice (`WrittenBytes`).
* `TextInv`: what `forEach` still has to do and the builder are, one behind the other,
  what was sent since the last newline gone through but for what is `gone` (`Run`: in
  order, each piece the character it was or a `Bad` one of a parted one), and the lines
  are those of what was sent before (`Handed`). A step puts pieces of one character
  behind the others (`RunConcat`), skips one (`RunSkip`), or cuts off what comes before
  the first newline, which is one line as `IsLine` has it (`RunCut`, `LineCut`), and
  perhaps all behind it up to the last newline (`RestLost`). A parted character is
  never a newline or a blank (`NewlineWhole`, `OnlyWide`): those have one byte.
  `LinesArrive` alone is not inductive: it does not say what the builder has.

### Model-checked only

* Liveness: `Reconnects`, `NothingWaits`, `HoldOpens`, and the two that fail
  (`LinesConsumed`, `DeadReadEnds`). Liveness under fairness and ENABLED are out of the
  prover's reach.
* `SavedWhenIdle` and the refinement for several handlers: they do not hold.

## 5. Not modelled

* Fields of messages: notes, settings, battery values, names. `Decoded` has what the
  UART's replies have in common; a Bluetooth line is well-formed or not; of a MIDI
  prefix there is the byte that tells it from the others.
* In `PresetSelection`: the requests that change neither index nor list nor setting
  (`Lamp`, `WideStereo`, `CurrentPresetRq`, `ConnectedRq`), whose failing write ends a
  subscription as `PlaySetting`'s does; and a second handler of knob messages: after a
  button's failed write a new connection may be made while messages of the old one wait
  (`MidiLink` has the two connections), here it waits for the old one's handler.
* The message classes (a submodule that is not in this repository) and the board's,
  the amplifier's and the phones' programs.
* SDP registration: two calls in a row at start, and what BlueZ makes of their order
  is not in this repository. Of the GLib wrapper and the adapter only the two
  setters that pairing uses are modelled; nothing calls the rest of the adapter, and
  the rest of the wrapper is synchronous and without state.
* Console parser, logging, serializer setup, serial port setup: sequential, without
  state that anything else reads. The process's end (SIGINT) is `Crash` of
  `PresetStore`, and nothing else outlives it.
* `src/nativeInterop/armhf_libs`: headers of GLib that come with the repository for
  cross-compilation, some 49 000 lines that are not the program's. The program is
  2337 lines of Kotlin under `src/nativeMain`; definitions stand for about 1000 of
  them (43 %), and most of the others are comments, imports, declarations and
  logging.

## 6. What is next

A composition of `PresetSelection` and `PresetStore`: index, list and file, which the
handlers of phones and buttons share.
