---------------------------- MODULE UartAnswers ----------------------------
(***************************************************************************)
(* What becomes of the board's messages: UartLink composed with the        *)
(* receiver's thread (uartMessageReceived behind observeOn) and with the   *)
(* console's announcement of its requests.  The board's answers carry no   *)
(* address: the shared flag isCliRq decides whether a firmware or status   *)
(* answer is printed on the console or sent to the phone.                  *)
(***************************************************************************)
EXTENDS UartLink

CONSTANT MaxEvents   \* bound on the messages waiting for the handler

ASSUME MaxEventsAssumption == MaxEvents \in Nat

VARIABLES
    isCliRq,    \* "next UART request is from CLI"
    cliRq,      \* the request the console has announced but not pushed yet
    events,     \* the observeOn buffer: messages, by: whose answer (ghost)
    handler,    \* the thread that runs uartMessageReceived
    sequential  \* ghost: no request was made before the last was dealt with

answerVars == <<isCliRq, cliRq, events, handler, sequential>>
vars == <<linkVars, answerVars>>

Events == [msg: Messages, by: Threads \cup {Board}]

\* The link's types and the handler's; what waits for the handler are
\* messages: a line that did not decode is not handed on.
TypeOK ==
    /\ LinkTypeOK
    /\ isCliRq \in BOOLEAN
    /\ cliRq \in {"none", "fw", "status"}
    /\ events \in Seq(Events)
    /\ handler \in {"idle", "answering", "disposed"}
    /\ sequential \in BOOLEAN

Init ==
    /\ LinkInit
    /\ isCliRq = FALSE
    /\ cliRq = "none"
    /\ events = <<>>
    /\ handler = "idle"
    /\ sequential = TRUE

\* Every earlier request has been answered and its answer dealt with.
AllDealtWith == Outstanding = 0 /\ events = <<>> /\ handler # "answering"

-----------------------------------------------------------------------------
(* The senders.                                                            *)

\* cliCommandProcessor sets the flag before it requests what it will print.
SetCliFlag(c) ==
    /\ pc[Cli] = "idle"
    /\ cliRq = "none"
    /\ c \in {"fw", "status"}
    /\ isCliRq' = TRUE
    /\ cliRq' = c
    /\ sequential' = (sequential /\ AllDealtWith)
    /\ UNCHANGED <<linkVars, events, handler>>

\* The console pushes what it announced, or a shutdown, which it does not
\* announce; the other threads push what they like.
Push(t, c) ==
    /\ t = Cli => cliRq = (IF c = "shutdown" THEN "none" ELSE c)
    /\ Enqueue(t, c)
    /\ cliRq' = IF t = Cli THEN "none" ELSE cliRq
    /\ sequential' = (sequential /\ AllDealtWith /\ (t # Cli => cliRq = "none"))
    /\ UNCHANGED <<isCliRq, events, handler>>

Transmit(t) ==
    /\ Write(t) \/ WriteFails(t) \/ Flush(t)
    /\ UNCHANGED answerVars

-----------------------------------------------------------------------------
(* The board and the reader.                                               *)

BoardStep ==
    /\ BoardReply \/ \E text \in Unasked : BoardSends(text)
    /\ UNCHANGED answerVars

\* Mutant of Deliver: lines that did not decode are delivered too.
DeliverAll(m) ==
    /\ Len(events) < MaxEvents
    /\ ReadLine(m)
    /\ events' = IF handler = "disposed"
                 THEN events
                 ELSE Append(events, [msg |-> m, by |-> Head(held).by])
    /\ UNCHANGED <<isCliRq, cliRq, handler, sequential>>

\* The reader's onNext puts a message into the buffer; emissions after the
\* subscription is disposed are dropped.
Deliver(m) ==
    /\ Len(events) < MaxEvents
    /\ ReadLine(m)
    /\ events' = IF m = NoMessage \/ handler = "disposed"
                 THEN events
                 ELSE Append(events, [msg |-> m, by |-> Head(held).by])
    /\ UNCHANGED <<isCliRq, cliRq, handler, sequential>>

ReadNothing == (Fill \/ ReadFails) /\ UNCHANGED answerVars

-----------------------------------------------------------------------------
(* uartMessageReceived.                                                    *)

Handling(messages) ==
    /\ handler = "idle"
    /\ events # <<>>
    /\ Head(events).msg \in messages

\* The flag is read first, and reset (Answer) in a later step.
TakeForCli ==
    /\ Handling({"fw", "status"})
    /\ isCliRq
    /\ handler' = "answering"
    /\ UNCHANGED <<linkVars, isCliRq, cliRq, events, sequential>>

\* Mutant of Answer: the flag is not reset.
AnswerKeepsFlag ==
    /\ handler = "answering"
    /\ handler' = "idle"
    /\ events' = Tail(events)
    /\ UNCHANGED <<linkVars, isCliRq, cliRq, sequential>>

\* The flag is reset and the message printed.
Answer ==
    /\ handler = "answering"
    /\ handler' = "idle"
    /\ isCliRq' = FALSE
    /\ events' = Tail(events)
    /\ UNCHANGED <<linkVars, cliRq, sequential>>

\* With the flag clear the message goes to the phone, if one is connected.
Forward ==
    /\ Handling({"fw", "status"})
    /\ ~isCliRq
    /\ events' = Tail(events)
    /\ UNCHANGED <<linkVars, isCliRq, cliRq, handler, sequential>>

\* Heartbeat answers are ignored, a shutdown message runs shutdown(8), a
\* button selects a preset.
HandleOther ==
    /\ Handling({"hbt", "shutdown", "btn"})
    /\ events' = Tail(events)
    /\ UNCHANGED <<linkVars, isCliRq, cliRq, handler, sequential>>

\* sendMessage to a phone that has left throws, when an answer is forwarded
\* and when a button selects a preset.  Only MidiDisconnectedException is
\* caught: the subscription is disposed and its buffer with it.
HandlerThrows ==
    /\ Handling({"btn"} \cup IF isCliRq THEN {} ELSE {"fw", "status"})
    /\ handler' = "disposed"
    /\ events' = <<>>
    /\ UNCHANGED <<linkVars, isCliRq, cliRq, sequential>>

Handle == TakeForCli \/ Answer \/ Forward \/ HandleOther \/ HandlerThrows

-----------------------------------------------------------------------------
Next ==
    \/ \E c \in Commands : SetCliFlag(c)
    \/ \E t \in Threads : (\E c \in Commands : Push(t, c)) \/ Transmit(t)
    \/ BoardStep
    \/ ReadNothing
    \/ \E m \in Messages \cup {NoMessage} : Deliver(m)
    \/ Handle

Spec == Init /\ [][Next]_vars

-----------------------------------------------------------------------------
(* Properties.                                                             *)

\* While every request waits until the one before it was dealt with and no
\* reply is lost, the flag routes every answer: it is set exactly when the
\* answer to be handled is the console's, although the flag, the queue and
\* the write are changed in separate steps.
SequentialAnswersRouted ==
    sequential /\ lost = 0 =>
        /\ Handling({"fw", "status"}) => (isCliRq <=> Head(events).by = Cli)
        /\ handler = "answering" => Head(events).by = Cli

\* "Specifies that next UART request is from CLI" (main.kt:89): what is
\* printed on the console answers a request of the console.
AnswersRouted == handler = "answering" => Head(events).by = Cli

=============================================================================
