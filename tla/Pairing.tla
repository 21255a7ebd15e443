------------------------------ MODULE Pairing ------------------------------
(***************************************************************************)
(* Holding a button for three seconds (uartMessageReceived of main.kt) and *)
(* what it does to the Bluetooth adapter (bluetooth/BluetoothAdapter.kt,   *)
(* bluetooth/PinAgent.kt).  The UART handler starts a GLib timer when a    *)
(* button goes down and removes it when the button goes up; the main loop  *)
(* runs the timer's callback meanwhile, which for the right button opens   *)
(* the adapter with two D-Bus calls.  The same loop runs the pin agent,    *)
(* which closes the adapter when a device has been authorised.             *)
(*                                                                         *)
(* A variable per button keeps the id of its timer.  Handler and loop read *)
(* and write it one access at a time.  GLib gives out an id once, so an id *)
(* is modelled by the timer that has it: a timer says who knows its id.    *)
(* Time is left out: a timer that is attached may fire, the oldest one     *)
(* first, since all of them last equally long.                             *)
(***************************************************************************)
EXTENDS Integers, SequencesExt

CONSTANTS MaxTimers,   \* bound: timers attached or about to be
          MaxLines     \* bound: button lines the handler has not taken

ASSUME TimersAssumption == MaxTimers \in Nat \ {0}
ASSUME LinesAssumption == MaxLines \in Nat \ {0}

Buttons == {"left", "right"}
None == "none"

VARIABLES
    held,          \* held[b]: the button is down
    lines,         \* button lines on their way to the handler
    lost,          \* ghost: lost[b], the last line of b never got there
    handler,       \* how far the UART handler is, or that it is over
    button,        \* ... the button of the line it handles, or None
    timeoutId,     \* leftButtonTimeoutId, rightButtonTimeoutId: not -1
    timers,        \* the timers attached to the main loop, oldest first
    loop,          \* what the main loop is doing
    asked,         \* RequestAuthorization waits for the main loop
    discoverable,  \* the adapter's properties, which BlueZ keeps
    pairable,
    touched,       \* ghost: the program has set them
    alive          \* the program runs

uart    == <<handler, button>>
adapter == <<discoverable, pairable, touched>>
vars == <<held, lines, lost, uart, timeoutId, timers, loop, asked, adapter, alive>>

\* Who knows the id of a timer: the handler, which is about to store it; the
\* variable of its button; or nobody, since the variable was overwritten.
Known == {"handler", "variable", "nobody"}

Lines  == [button: Buttons, pressed: BOOLEAN]
Timers == [button: Buttons, known: Known]

\* A variable has the id of one timer of its button at most and then is not
\* -1, and an id is on its way to a variable only while the handler is about
\* to store it.
IdsKnown ==
    /\ \A i, j \in DOMAIN timers :
           timers[i] = timers[j] /\ timers[i].known # "nobody" => i = j
    /\ \A i \in DOMAIN timers :
           /\ timers[i].known = "variable" => timeoutId[timers[i].button]
           /\ timers[i].known = "handler" => handler = "store" /\ timers[i].button = button

\* The variables keep their types, and ids are known to where they should be.
TypeOK ==
    /\ held \in [Buttons -> BOOLEAN]
    /\ lines \in Seq(Lines)
    /\ lost \in [Buttons -> BOOLEAN]
    /\ handler \in {"idle", "add", "store", "rest", "test", "remove", "over"}
    /\ button \in Buttons \cup {None}
    /\ button = None <=> handler \in {"idle", "over"}
    /\ timeoutId \in [Buttons -> BOOLEAN]
    /\ timers \in Seq(Timers)
    /\ loop \in {"idle", "resetLeft", "show", "pair", "resetRight", "unpair", "hide"}
    /\ asked \in BOOLEAN
    /\ discoverable \in BOOLEAN
    /\ pairable \in BOOLEAN
    /\ touched \in BOOLEAN
    /\ alive \in BOOLEAN
    /\ IdsKnown

\* The adapter is as BlueZ has it; the program does not touch it at start.
Init ==
    /\ held = [b \in Buttons |-> FALSE]
    /\ lines = <<>>
    /\ lost = [b \in Buttons |-> FALSE]
    /\ handler = "idle"
    /\ button = None
    /\ timeoutId = [b \in Buttons |-> FALSE]
    /\ timers = <<>>
    /\ loop = "idle"
    /\ asked = FALSE
    /\ discoverable \in BOOLEAN
    /\ pairable \in BOOLEAN
    /\ touched = FALSE
    /\ alive = TRUE

-----------------------------------------------------------------------------
(* The buttons and the line.                                               *)

PressesComing ==
    Cardinality({i \in DOMAIN lines : lines[i].pressed})
    + (IF handler = "add" THEN 1 ELSE 0)

\* A button goes down or up.  Its line reaches the handler or is lost:
\* every command that is sent flushes the input (UartLink), a reader stuck
\* on an error reads no more, and a subscription that is over drops it.
Move(b) ==
    /\ alive
    /\ held[b] \/ Len(timers) + PressesComing < MaxTimers
    /\ held' = [held EXCEPT ![b] = ~@]
    /\ \/ /\ handler # "over"
          /\ Len(lines) < MaxLines
          /\ lines' = Append(lines, [button |-> b, pressed |-> ~held[b]])
          /\ lost' = [lost EXCEPT ![b] = FALSE]
       \/ /\ lost' = [lost EXCEPT ![b] = TRUE]
          /\ UNCHANGED lines
    /\ UNCHANGED <<uart, timeoutId, timers, loop, asked, adapter, alive>>

-----------------------------------------------------------------------------
(* The UART handler: uartMessageReceived, ButtonMessage.                   *)

TakeLine ==
    /\ handler = "idle"
    /\ lines # <<>>
    /\ lines' = Tail(lines)
    /\ button' = Head(lines).button
    /\ handler' = IF Head(lines).pressed THEN "add" ELSE "test"
    /\ UNCHANGED <<held, lost, timeoutId, timers, loop, asked, adapter, alive>>

AddTimer ==
    /\ handler = "add"
    /\ timers' = Append(timers, [button |-> button, known |-> "handler"])
    /\ handler' = "store"
    /\ UNCHANGED <<held, lines, lost, button, timeoutId, loop, asked, adapter, alive>>

\* Who knows an id once its variable has the id that `holder` has.
KnownAfter(known, holder) ==
    CASE known = "variable"                   -> "nobody"
      [] known # "variable" /\ known = holder -> "variable"
      [] known \notin {"variable", holder}    -> known

\* The timers once the variable of b has that id.
Store(b, holder) ==
    [i \in DOMAIN timers |->
        IF timers[i].button # b THEN timers[i]
        ELSE [timers[i] EXCEPT !.known = KnownAfter(@, holder)]]

\* A mutated form of StoreId: the id never gets to the variable.
StoreNothing ==
    /\ handler = "store"
    /\ handler' = "rest"
    /\ UNCHANGED <<held, lines, lost, button, timeoutId, timers, loop, asked, adapter, alive>>

\* The id of a timer that was not removed is lost here; the new timer may
\* have fired already.
StoreId ==
    /\ handler = "store"
    /\ timeoutId' = [timeoutId EXCEPT ![button] = TRUE]
    /\ timers' = Store(button, "handler")
    /\ handler' = "rest"
    /\ UNCHANGED <<held, lines, lost, button, loop, asked, adapter, alive>>

\* The rest of a press selects a preset (PresetSelection) and may end the
\* subscription; lines are dropped from then on.
FinishPress ==
    /\ handler = "rest"
    /\ \/ handler' = "idle" /\ UNCHANGED <<lines, lost>>
       \/ /\ handler' = "over"
          /\ lines' = <<>>
          /\ lost' = [b \in Buttons |->
                        lost[b] \/ \E i \in DOMAIN lines : lines[i].button = b]
    /\ button' = None
    /\ UNCHANGED <<held, timeoutId, timers, loop, asked, adapter, alive>>

\* A mutated form of TestId: the comparison is the wrong way round.
TestInverted ==
    /\ handler = "test"
    /\ \/ timeoutId[button] /\ handler' = "idle" /\ button' = None
       \/ ~timeoutId[button] /\ handler' = "remove" /\ UNCHANGED button
    /\ UNCHANGED <<held, lines, lost, timeoutId, timers, loop, asked, adapter, alive>>

TestId ==
    /\ handler = "test"
    /\ \/ timeoutId[button] /\ handler' = "remove" /\ UNCHANGED button
       \/ ~timeoutId[button] /\ handler' = "idle" /\ button' = None
    /\ UNCHANGED <<held, lines, lost, timeoutId, timers, loop, asked, adapter, alive>>

\* A mutated form of RemoveTimer: a release removes every timer.
RemoveAll ==
    /\ handler = "remove"
    /\ timers' = <<>>
    /\ handler' = "idle"
    /\ button' = None
    /\ UNCHANGED <<held, lines, lost, timeoutId, loop, asked, adapter, alive>>

\* Timer i is the one whose id is in the variable of the handler's button.
IsKnown(i) == timers[i] = [button |-> button, known |-> "variable"]

\* g_source_remove with the id as it is by now; no source of that number is
\* no harm.  The variable keeps the id.
RemoveTimer ==
    /\ handler = "remove"
    /\ IF \E i \in DOMAIN timers : IsKnown(i)
       THEN \E i \in DOMAIN timers : IsKnown(i) /\ timers' = RemoveAt(timers, i)
       ELSE UNCHANGED timers
    /\ handler' = "idle"
    /\ button' = None
    /\ UNCHANGED <<held, lines, lost, timeoutId, loop, asked, adapter, alive>>

Handler ==
    /\ alive
    /\ \/ TakeLine \/ AddTimer \/ StoreId \/ FinishPress
       \/ TestId \/ RemoveTimer

-----------------------------------------------------------------------------
(* The main loop: one callback at a time, with its D-Bus calls.            *)

Fire ==
    /\ loop = "idle"
    /\ timers # <<>>
    /\ timers' = Tail(timers)
    /\ loop' = IF Head(timers).button = "left" THEN "resetLeft" ELSE "show"
    /\ UNCHANGED <<held, lines, lost, uart, timeoutId, asked, adapter, alive>>

\* The callback forgets the timer's id, whichever it is by then.
ResetId(b) ==
    /\ timeoutId' = [timeoutId EXCEPT ![b] = FALSE]
    /\ timers' = Store(b, "no id")
    /\ loop' = "idle"
    /\ UNCHANGED <<held, lines, lost, uart, asked, adapter, alive>>

\* setParam returns and the callback goes on, or it throws out of a C
\* callback, which ends the program; the property may be set all the same.
SetDiscoverable(value, next) ==
    /\ touched' = TRUE
    /\ \/ discoverable' = value /\ loop' = next /\ UNCHANGED alive
       \/ discoverable' \in {discoverable, value} /\ alive' = FALSE /\ UNCHANGED loop
    /\ UNCHANGED <<held, lines, lost, uart, timeoutId, timers, asked, pairable>>

SetPairable(value, next) ==
    /\ touched' = TRUE
    /\ \/ pairable' = value /\ loop' = next /\ UNCHANGED alive
       \/ pairable' \in {pairable, value} /\ alive' = FALSE /\ UNCHANGED loop
    /\ UNCHANGED <<held, lines, lost, uart, timeoutId, timers, asked, discoverable>>

\* RequestAuthorization is answered first.
Authorise ==
    /\ loop = "idle"
    /\ asked
    /\ asked' = FALSE
    /\ loop' = "unpair"
    /\ UNCHANGED <<held, lines, lost, uart, timeoutId, timers, adapter, alive>>

\* A mutated form of CloseAdapter: the adapter stays discoverable.
CloseHalf ==
    loop = "unpair" /\ SetPairable(FALSE, "idle")

OpenAdapter ==
    \/ loop = "show" /\ SetDiscoverable(TRUE, "pair")
    \/ loop = "pair" /\ SetPairable(TRUE, "resetRight")

CloseAdapter ==
    \/ loop = "unpair" /\ SetPairable(FALSE, "hide")
    \/ loop = "hide" /\ SetDiscoverable(FALSE, "idle")

MainLoop ==
    /\ alive
    /\ \/ Fire \/ Authorise \/ OpenAdapter \/ CloseAdapter
       \/ loop = "resetLeft" /\ ResetId("left")
       \/ loop = "resetRight" /\ ResetId("right")

-----------------------------------------------------------------------------
(* BlueZ (external).                                                       *)

\* A device wants to be paired; BlueZ asks the agent.
AskAgent ==
    /\ alive
    /\ pairable
    /\ ~asked
    /\ asked' = TRUE
    /\ UNCHANGED <<held, lines, lost, uart, timeoutId, timers, loop, adapter, alive>>

\* BlueZ ends discoverability after a time of its own.
DiscoverableEnds ==
    /\ alive
    /\ discoverable
    /\ discoverable' = FALSE
    /\ UNCHANGED <<held, lines, lost, uart, timeoutId, timers, loop, asked, pairable,
                   touched, alive>>

-----------------------------------------------------------------------------
Next ==
    \/ \E b \in Buttons : Move(b)
    \/ Handler
    \/ MainLoop
    \/ AskAgent \/ DiscoverableEnds

\* The handler's thread and the main loop go on; buttons, phones and the
\* line need not.
Fairness == WF_vars(Handler) /\ WF_vars(MainLoop)

Spec == Init /\ [][Next]_vars /\ Fairness

-----------------------------------------------------------------------------
(* Properties.                                                             *)

\* The release of b is on its way or being handled.
ReleaseComing(b) ==
    \/ \E i \in DOMAIN lines : lines[i] = [button |-> b, pressed |-> FALSE]
    \/ button = b /\ handler \in {"test", "remove"}

\* A timer runs only as long as its button is held and its release is not
\* handled, so the adapter is opened by a hold (main.kt:272), except where
\* the timer's id was overwritten or the release was lost.
TimerMeansHeld ==
    \A i \in DOMAIN timers :
        LET b == timers[i].button
        IN held[b] \/ ReleaseComing(b) \/ timers[i].known = "nobody" \/ lost[b]

\* Once the program has set the adapter, it is discoverable only if it is
\* pairable between two callbacks (main.kt:275, PinAgent.kt:106): both calls
\* of a callback are made or the program ends.
NeverHalfOpen ==
    alive /\ loop = "idle" /\ touched => (discoverable => pairable)

\* A right button whose press is handled and that stays down opens the
\* adapter (main.kt:280), whatever earlier presses, lost releases and the
\* left button have left behind, unless a later press never got through or
\* a D-Bus call fails.
HoldOpens ==
    (handler = "add" /\ button = "right" /\ alive)
        ~> (~held["right"] \/ lost["right"] \/ loop = "resetRight" \/ ~alive)

=============================================================================
