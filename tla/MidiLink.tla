------------------------------ MODULE MidiLink ------------------------------
(***************************************************************************)
(* The connection to the amplifier (midi/Midi.kt, midiConnect, onMidiError *)
(* and onMidiMessage of main.kt).  A Midi object is a pair of streams on a *)
(* device file that disappears when the amplifier is unplugged.            *)
(*                                                                         *)
(* mainScheduler is one thread that runs its tasks in order: a task waits  *)
(* for the device or reads one object until its stream ends.  What a wait  *)
(* finds goes to a callback on an io thread, which publishes the object in *)
(* midi and queues its read task; the end of a read goes to onMidiError on *)
(* the receiver's own thread, which queues the next wait.  Phones and      *)
(* buttons write to the published object meanwhile, and a button whose     *)
(* write fails runs onMidiError on the UART handler's thread.              *)
(***************************************************************************)
EXTENDS Naturals, SequencesExt

CONSTANTS Ids,    \* the Midi objects that may be created
          None,   \* no object; as a task: wait for the device
          Uart,   \* the UART handler, which sends presets for buttons
          Bt      \* a Bluetooth handler, which sends what a phone asks

ASSUME MidiAssumption ==
    /\ None \notin Ids
    /\ Uart \notin Ids \cup {None, Bt}

Senders  == {Uart, Bt}
Handlers == Ids \cup {Uart}     \* threads that may run onMidiError

VARIABLES
    plugged,      \* the device file exists
    stream,       \* stream[m]: the streams of object m
    midi,         \* the published object
    tasks,        \* the tasks of mainScheduler; the first one is running
    sched,        \* how far the running task is
    callback,     \* callback[m]: how far midiConnect's subscriber is with m
    error,        \* error[t]: how far thread t is in onMidiError
    using,        \* using[s]: the object sender s has taken from midi
    bt,           \* bluetoothConnection: none, up, or broken unnoticed
    uartUp,       \* the UART subscription is alive
    abandoned,    \* ghost: an exception of a send to the phone, or of the
                  \* first write, ended a callback or a subscription
    misused,      \* ghost: misuses of streams that have happened
    buttonFailed, \* ghost: a button's write has run onMidiError
    overtaken     \* ghost: onMidiError has cleared a newer object

vars == <<plugged, stream, midi, tasks, sched, callback, error, using, bt,
          uartUp, abandoned, misused, buttonFailed, overtaken>>
ghosts == <<abandoned, misused, buttonFailed, overtaken>>

Running(task) == tasks # <<>> /\ Head(tasks) = task

\* The variables keep their types, and the thread of mainScheduler is at
\* work only on the task at the head of its queue.
TypeOK ==
    /\ plugged \in BOOLEAN
    /\ stream \in [Ids -> {"fresh", "null", "live", "dead", "closed"}]
    /\ midi \in Ids \cup {None}
    /\ tasks \in Seq(Ids \cup {None})
    /\ sched \in {"idle", "accessed", "between", "inside"}
    /\ callback \in [Ids -> {"none", "publish", "notify", "dump", "subscribe", "over"}]
    /\ error \in [Handlers -> {"idle", "close", "notify", "connect", "clear"}]
    /\ using \in [Senders -> Ids \cup {None}]
    /\ bt \in {"none", "up", "broken"}
    /\ uartUp \in BOOLEAN
    /\ abandoned \in BOOLEAN
    /\ misused \subseteq {"null", "doubleClose", "writeClosed", "readClosed"}
    /\ buttonFailed \in BOOLEAN
    /\ overtaken \in BOOLEAN
    \* A task is under way only while it is there, a wait or a read.
    /\ sched = "accessed" => Running(None)
    /\ sched \in {"between", "inside"} => \E m \in Ids : Running(m)

\* main calls midiConnect once.
Init ==
    /\ plugged \in BOOLEAN
    /\ stream = [m \in Ids |-> "fresh"]
    /\ midi = None
    /\ tasks = <<None>>
    /\ sched = "idle"
    /\ callback = [m \in Ids |-> "none"]
    /\ error = [t \in Handlers |-> "idle"]
    /\ using = [s \in Senders |-> None]
    /\ bt = "none"
    /\ uartUp = TRUE
    /\ abandoned = FALSE
    /\ misused = {}
    /\ buttonFailed = FALSE
    /\ overtaken = FALSE

-----------------------------------------------------------------------------
(* The device and the phone.                                               *)

Plug ==
    /\ ~plugged
    /\ plugged' = TRUE
    /\ UNCHANGED <<stream, midi, tasks, sched, callback, error, using, bt, uartUp, ghosts>>

\* Open streams of the device are dead from now on, also when it comes back.
\* The bound: an object is left for the next connection.
Unplug ==
    /\ plugged
    /\ \E m \in Ids : stream[m] = "fresh"
    /\ plugged' = FALSE
    /\ stream' = [m \in Ids |-> IF stream[m] = "live" THEN "dead" ELSE stream[m]]
    /\ UNCHANGED <<midi, tasks, sched, callback, error, using, bt, uartUp, ghosts>>

\* The phone connects, leaves, and is found to have left (bluetoothError).
Phone ==
    /\ bt' = CASE bt = "none"   -> "up"
               [] bt = "up"     -> "broken"
               [] bt = "broken" -> "none"
    /\ UNCHANGED <<plugged, stream, midi, tasks, sched, callback, error, using, uartUp, ghosts>>

-----------------------------------------------------------------------------
(* The thread of mainScheduler.                                            *)

\* waitForConnection: access() finds the file; without it the thread sleeps
\* and tries again.
Access ==
    /\ Running(None)
    /\ sched = "idle"
    /\ plugged
    /\ sched' = "accessed"
    /\ UNCHANGED <<plugged, stream, midi, tasks, callback, error, using, bt, uartUp, ghosts>>

\* Both fopens; they return NULL if the device has gone since, which nobody
\* checks.
OpenStreams(m) ==
    /\ Running(None)
    /\ sched = "accessed"
    /\ stream[m] = "fresh"
    /\ stream' = [stream EXCEPT ![m] = IF plugged THEN "live" ELSE "null"]
    /\ callback' = [callback EXCEPT ![m] = "publish"]
    /\ tasks' = Tail(tasks)
    /\ sched' = "idle"
    /\ UNCHANGED <<plugged, midi, error, using, bt, uartUp, ghosts>>

StartReading(m) ==
    /\ Running(m)
    /\ sched = "idle"
    /\ sched' = "between"
    /\ UNCHANGED <<plugged, stream, midi, tasks, callback, error, using, bt, uartUp, ghosts>>

\* The amplifier sends the first byte of a message, 0xF0.
MessageBegins(m) ==
    /\ Running(m)
    /\ sched = "between"
    /\ stream[m] = "live"
    /\ sched' = "inside"
    /\ UNCHANGED <<plugged, stream, midi, tasks, callback, error, using, bt, uartUp, ghosts>>

\* ... and the last, 0xF7.  onMidiMessage tells the phone; a knob turned away
\* from a selected preset does so outside the try, and to a phone that has
\* left it ends the subscription.
MessageEnds(m) ==
    /\ Running(m)
    /\ sched = "inside"
    /\ stream[m] = "live"
    /\ sched' = "between"
    /\ abandoned' \in {abandoned, abandoned \/ bt = "broken"}
    /\ UNCHANGED <<plugged, stream, midi, tasks, callback, error, using, bt, uartUp, misused, buttonFailed, overtaken>>

\* A mutated form of ReadEnds: the thread is not ready for its next task.
ReadEndsUnready(m) ==
    /\ Running(m)
    /\ sched = "between"
    /\ stream[m] \in {"dead", "closed", "null"}
    /\ tasks' = Tail(tasks)
    /\ error' = IF abandoned THEN error ELSE [error EXCEPT ![m] = "close"]
    /\ UNCHANGED <<plugged, stream, midi, sched, callback, using, bt, uartUp, ghosts>>

\* A mutated form of ReadEnds: the error is reported and the read goes on.
ReadEndsGoesOn(m) ==
    /\ Running(m)
    /\ sched = "between"
    /\ stream[m] \in {"dead", "closed", "null"}
    /\ error' = [error EXCEPT ![m] = "close"]
    /\ UNCHANGED <<plugged, stream, midi, tasks, sched, callback, using, bt, uartUp, ghosts>>

\* fgetc returns -1 between two messages: MidiDisconnectedException, which
\* goes to onMidiError unless the subscription has ended.
ReadEnds(m) ==
    /\ Running(m)
    /\ sched = "between"
    /\ stream[m] \in {"dead", "closed", "null"}
    /\ tasks' = Tail(tasks)
    /\ sched' = "idle"
    /\ error' = IF abandoned THEN error ELSE [error EXCEPT ![m] = "close"]
    /\ misused' = misused \cup CASE stream[m] = "dead"   -> {}
                                 [] stream[m] = "closed" -> {"readClosed"}
                                 [] stream[m] = "null"   -> {"null"}
    /\ UNCHANGED <<plugged, stream, midi, callback, using, bt, uartUp, abandoned, buttonFailed, overtaken>>

\* Inside a message -1 is taken for a byte: the loop never ends (no step).

Schedule ==
    \/ Access
    \/ \E m \in Ids : OpenStreams(m) \/ StartReading(m) \/ ReadEnds(m)

-----------------------------------------------------------------------------
(* The subscriber of midiConnect, one thread per object.                   *)

\* A mutated form of Publish: an object that is still there is left in place.
PublishIfNone(m) ==
    /\ callback[m] = "publish"
    /\ midi' = IF midi = None THEN m ELSE midi
    /\ callback' = [callback EXCEPT ![m] = "notify"]
    /\ UNCHANGED <<plugged, stream, tasks, sched, error, using, bt, uartUp, ghosts>>

Publish(m) ==
    /\ callback[m] = "publish"
    /\ midi' = m
    /\ callback' = [callback EXCEPT ![m] = "notify"]
    /\ UNCHANGED <<plugged, stream, tasks, sched, error, using, bt, uartUp, ghosts>>

\* Connected(true) to the phone; an exception ends the subscriber.
NotifyConnected(m) ==
    /\ callback[m] = "notify"
    /\ callback' = [callback EXCEPT ![m] = IF bt = "broken" THEN "over" ELSE "dump"]
    /\ abandoned' = (abandoned \/ bt = "broken")
    /\ UNCHANGED <<plugged, stream, midi, tasks, sched, error, using, bt, uartUp, misused, buttonFailed, overtaken>>

Misuse(m) ==
    CASE stream[m] = "null"   -> {"null"}
      [] stream[m] = "closed" -> {"writeClosed"}
      [] OTHER                -> {}

\* A write to streams that are not live returns or throws
\* MidiDisconnectedException: stdio buffers what it cannot write.
WriteMayThrow(m) == IF stream[m] = "live" THEN {FALSE} ELSE {FALSE, TRUE}

RequestDump(m) ==
    /\ callback[m] = "dump"
    /\ \E throws \in WriteMayThrow(m) :
          /\ callback' = [callback EXCEPT ![m] = IF throws THEN "over" ELSE "subscribe"]
          /\ abandoned' = (abandoned \/ throws)
    /\ misused' = misused \cup Misuse(m)
    /\ UNCHANGED <<plugged, stream, midi, tasks, sched, error, using, bt, uartUp, buttonFailed, overtaken>>

Subscribe(m) ==
    /\ callback[m] = "subscribe"
    /\ tasks' = Append(tasks, m)
    /\ callback' = [callback EXCEPT ![m] = "over"]
    /\ UNCHANGED <<plugged, stream, midi, sched, error, using, bt, uartUp, ghosts>>

Connecting(m) == Publish(m) \/ NotifyConnected(m) \/ RequestDump(m) \/ Subscribe(m)

-----------------------------------------------------------------------------
(* onMidiError, on the receiver's thread of object t or on the UART's.     *)

CloseStreams(t) ==
    /\ error[t] = "close"
    /\ error' = [error EXCEPT ![t] = "notify"]
    /\ IF midi = None
       THEN UNCHANGED <<stream, misused>>
       ELSE /\ stream' = [stream EXCEPT ![midi] = "closed"]
            /\ misused' = misused \cup CASE stream[midi] = "closed" -> {"doubleClose"}
                                         [] stream[midi] = "null"   -> {"null"}
                                         [] OTHER                   -> {}
    /\ UNCHANGED <<plugged, midi, tasks, sched, callback, using, bt, uartUp, abandoned, buttonFailed, overtaken>>

\* A mutated form of NotifyDisconnected: when the phone has left, the handler
\* starts over.
NotifyStartsOver(t) ==
    /\ error[t] = "notify"
    /\ error' = [error EXCEPT ![t] = IF bt = "broken" THEN "close" ELSE "connect"]
    /\ UNCHANGED <<plugged, stream, midi, tasks, sched, callback, using, bt, uartUp, ghosts>>

\* Connected(false) to the phone; an exception ends the handler, and on the
\* UART's thread its subscription.
NotifyDisconnected(t) ==
    /\ error[t] = "notify"
    /\ error' = [error EXCEPT ![t] = IF bt = "broken" THEN "idle" ELSE "connect"]
    /\ abandoned' = (abandoned \/ bt = "broken")
    /\ uartUp' = (uartUp /\ ~(t = Uart /\ bt = "broken"))
    /\ UNCHANGED <<plugged, stream, midi, tasks, sched, callback, using, bt, misused, buttonFailed, overtaken>>

\* A mutated form of Reconnect: midiConnect gives up when there is no device.
ReconnectOnce(t) ==
    /\ error[t] = "connect"
    /\ tasks' = IF plugged THEN Append(tasks, None) ELSE tasks
    /\ error' = [error EXCEPT ![t] = "clear"]
    /\ UNCHANGED <<plugged, stream, midi, sched, callback, using, bt, uartUp, ghosts>>

\* midiConnect only queues the wait ...
Reconnect(t) ==
    /\ error[t] = "connect"
    /\ tasks' = Append(tasks, None)
    /\ error' = [error EXCEPT ![t] = "clear"]
    /\ UNCHANGED <<plugged, stream, midi, sched, callback, using, bt, uartUp, ghosts>>

\* ... and the reference is cleared after that.
ClearMidi(t) ==
    /\ error[t] = "clear"
    /\ midi' = None
    /\ overtaken' = (overtaken \/ midi \notin {None, t})
    /\ error' = [error EXCEPT ![t] = "idle"]
    /\ UNCHANGED <<plugged, stream, tasks, sched, callback, using, bt, uartUp, abandoned, misused,
                   buttonFailed>>

HandleError(t) == CloseStreams(t) \/ NotifyDisconnected(t) \/ Reconnect(t) \/ ClearMidi(t)

-----------------------------------------------------------------------------
(* Writing: midi.value?.sendMessage(...).                                  *)

TakeMidi(s) ==
    /\ using[s] = None
    /\ midi # None
    /\ IF s = Uart THEN uartUp /\ error[Uart] = "idle" ELSE TRUE
    /\ using' = [using EXCEPT ![s] = midi]
    /\ UNCHANGED <<plugged, stream, midi, tasks, sched, callback, error, bt, uartUp, ghosts>>

\* The exception of a button's write is handled by onMidiError; a phone's
\* ends its subscription.
SendMidi(s) ==
    /\ using[s] # None
    /\ using' = [using EXCEPT ![s] = None]
    /\ misused' = misused \cup Misuse(using[s])
    /\ \E throws \in WriteMayThrow(using[s]) :
          /\ error' = IF throws /\ s = Uart THEN [error EXCEPT ![Uart] = "close"] ELSE error
          /\ buttonFailed' = (buttonFailed \/ (throws /\ s = Uart))
    /\ UNCHANGED <<plugged, stream, midi, tasks, sched, callback, bt, uartUp, abandoned, overtaken>>

-----------------------------------------------------------------------------
Next ==
    \/ Plug \/ Unplug \/ Phone
    \/ Schedule
    \/ \E m \in Ids : MessageBegins(m) \/ MessageEnds(m) \/ Connecting(m)
    \/ \E t \in Handlers : HandleError(t)
    \/ \E s \in Senders : TakeMidi(s) \/ SendMidi(s)

\* Every thread of the program that has work goes on with it; the device,
\* the phone and who sends are not bound to do anything.
Fairness ==
    /\ WF_vars(Schedule)
    /\ \A m \in Ids : WF_vars(Connecting(m))
    /\ \A t \in Handlers : WF_vars(HandleError(t))

Spec == Init /\ [][Next]_vars /\ Fairness

-----------------------------------------------------------------------------
(* Properties.                                                             *)

\* What drives the connection: a wait or a read, a subscriber at work, or an
\* error being handled up to its midiConnect.
Drivers ==
    Len(tasks)
    + Cardinality({m \in Ids : callback[m] \in {"publish", "notify", "dump", "subscribe"}})
    + Cardinality({t \in Handlers : error[t] \in {"close", "notify", "connect"}})

\* Until a button's write fails, the connection has one driver at a time:
\* no two waits race for the device and no two readers for its messages.
OneDriver == ~buttonFailed => Drivers <= 1

\* Until then, too, no stream is closed twice and none is read after it was
\* closed, although onMidiError clears midi only after it has asked for the
\* next connection.
StreamsClosedOnce ==
    ~buttonFailed => misused \cap {"doubleClose", "readClosed"} = {}

Reading(m) == Running(m) /\ sched \in {"between", "inside"}

\* Who is read is who is written to: the reader's object is the published one
\* and writes reach the amplifier that is heard, except after onMidiError has
\* cleared a newer object than its own (main.kt:138 comes after the wait was
\* queued) and after a button's write has failed.
ReadIsPublished ==
    ~overtaken /\ ~buttonFailed => \A m \in Ids : Reading(m) => midi = m

Connected == \E m \in Ids : Reading(m) /\ stream[m] = "live"

\* The reader is inside a message of a device that has gone.
Spinning == \E m \in Ids : Running(m) /\ sched = "inside" /\ stream[m] = "dead"

\* An amplifier that stays plugged in is connected for good, except for the
\* causes named: the reader spins, an exception has ended one of the steps
\* that lead to the connection, a stream was misused, a button's write failed.
Reconnects ==
    <>[]plugged
        => <>[](Connected \/ Spinning \/ abandoned \/ misused # {} \/ buttonFailed)

\* "@throws MidiDisconnectedException when trying to read from disconnected
\* device" (Midi.kt:47): a reader of a device that has gone stops reading.
DeadReadEnds == \A m \in Ids : (Reading(m) /\ stream[m] = "dead") ~> ~Reading(m)

=============================================================================
