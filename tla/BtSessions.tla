----------------------------- MODULE BtSessions -----------------------------
(***************************************************************************)
(* Bluetooth connections (bluetooth/BluetoothConnection.kt, NewConnection  *)
(* of bluetooth/Bluetooth.kt, bluetoothConnection and bluetoothError of    *)
(* main.kt).                                                               *)
(*                                                                         *)
(* BlueZ hands over a socket per phone that connects.  The newest one is   *)
(* published in bluetoothConnection; nothing ends the older ones.  Each    *)
(* has a reader, which cuts what it reads into lines and decodes them, and *)
(* a handler, which answers on whatever connection is published.  A write  *)
(* that fails, of a handler or of the amplifier's reader, and a read that  *)
(* fails unpublish whatever connection is published by then.               *)
(***************************************************************************)
EXTENDS Naturals, SequencesExt

CONSTANTS Conns,       \* the connections that may be made
          None,        \* no connection
          Amp,         \* the reader of the amplifier, which tells the phone
          Requests,    \* well-formed messages
          Malformed,   \* a line that does not decode
          Newline,     \* the end of a line
          MaxMessages  \* bound: messages sent

ASSUME NamesAssumption ==
    /\ None \notin Conns
    /\ Amp \notin Conns \cup {None}
    /\ Malformed \notin Requests
    /\ Newline \notin Requests \cup {Malformed}

Messages == Requests \cup {Malformed}
Pieces   == Messages \cup {Newline}
Senders  == Conns \cup {Amp}

VARIABLES
    link,        \* link[c]: the socket; closed: reads return 0, reset: fail
    published,   \* bluetoothConnection
    accepting,   \* the connection NewConnection has published last, if its
                 \* receiver is yet to be started
    reader,      \* reader[c]: its reading thread
    wire,        \* wire[c]: sent and not read
    builder,     \* builder[c]: read and not yet a line
    batch,       \* batch[c]: the lines being decoded
    inbox,       \* inbox[c]: messages on their way to the handler
    handler,     \* handler[c]: none, idle, busy with a message, or over
    using,       \* using[s]: the connection s has taken from published
    failed,      \* failed[s]: s is about to run bluetoothError
    sent,        \* ghost: sent[c], what the phone has sent
    handled,     \* ghost: handled[c], what bluetoothMessage has been given
    overlapped   \* ghost: a connection was made while another was in use

streams == <<wire, builder, batch, inbox>>
ghosts  == <<sent, handled, overlapped>>
vars == <<link, published, accepting, reader, streams, handler, using, failed, ghosts>>

\* The variables keep their types; what is decoded are lines without their
\* ends, and only what decodes reaches a handler.
TypeOK ==
    /\ link \in [Conns -> {"new", "up", "closed", "reset"}]
    /\ published \in Conns \cup {None}
    /\ accepting \in Conns \cup {None}
    /\ reader \in [Conns -> {"none", "reading", "over"}]
    /\ wire \in [Conns -> Seq(Pieces)]
    /\ builder \in [Conns -> Seq(Messages)]
    /\ batch \in [Conns -> Seq(Messages)]
    /\ inbox \in [Conns -> Seq(Requests)]
    /\ handler \in [Conns -> {"none", "idle", "busy", "over"}]
    /\ using \in [Senders -> Conns \cup {None}]
    /\ failed \in [Senders -> BOOLEAN]
    /\ sent \in [Conns -> Seq(Messages)]
    /\ handled \in [Conns -> Seq(Requests)]
    /\ overlapped \in BOOLEAN

Init ==
    /\ link = [c \in Conns |-> "new"]
    /\ published = None
    /\ accepting = None
    /\ reader = [c \in Conns |-> "none"]
    /\ wire = [c \in Conns |-> <<>>]
    /\ builder = [c \in Conns |-> <<>>]
    /\ batch = [c \in Conns |-> <<>>]
    /\ inbox = [c \in Conns |-> <<>>]
    /\ handler = [c \in Conns |-> "none"]
    /\ using = [s \in Senders |-> None]
    /\ failed = [s \in Senders |-> FALSE]
    /\ sent = [c \in Conns |-> <<>>]
    /\ handled = [c \in Conns |-> <<>>]
    /\ overlapped = FALSE

-----------------------------------------------------------------------------
(* Phones.                                                                 *)

SentSoFar == FoldSet(LAMBDA c, n : n + Len(sent[c]), 0, Conns)

\* A message and its end; the reads need not keep them together.
SendMessage(c) ==
    /\ link[c] = "up"
    /\ SentSoFar < MaxMessages
    /\ \E m \in Messages :
          /\ wire' = [wire EXCEPT ![c] = @ \o <<m, Newline>>]
          /\ sent' = [sent EXCEPT ![c] = Append(@, m)]
    /\ UNCHANGED <<link, published, accepting, reader, builder, batch, inbox, handler, using,
                   failed, handled, overlapped>>

Leave(c) ==
    /\ link[c] = "up"
    /\ link' \in {[link EXCEPT ![c] = "closed"], [link EXCEPT ![c] = "reset"]}
    /\ UNCHANGED <<published, accepting, reader, streams, handler, using, failed, ghosts>>

-----------------------------------------------------------------------------
(* NewConnection, on the main loop's thread.                               *)

Unhandled(c) ==
    \/ wire[c] # <<>> \/ builder[c] # <<>> \/ batch[c] # <<>> \/ inbox[c] # <<>>
    \/ handler[c] = "busy"

\* Nothing of connection c can reach another one any more.
Quiet(c) ==
    \/ link[c] = "new"
    \/ /\ link[c] # "up"
       /\ handler[c] = "over" \/ (link[c] = "closed" /\ ~Unhandled(c))
       /\ ~failed[c] /\ ~failed[Amp]
       /\ \A s \in Senders : using[s] # c

\* A mutated form of Publish: a connection that is published stays so.
PublishIfNone(c) ==
    /\ accepting = None
    /\ link[c] = "new"
    /\ link' = [link EXCEPT ![c] = "up"]
    /\ accepting' = c
    /\ published' = IF published = None THEN c ELSE published
    /\ overlapped' = (overlapped \/ \E d \in Conns : ~Quiet(d))
    /\ UNCHANGED <<reader, streams, handler, using, failed, sent, handled>>

Publish(c) ==
    /\ accepting = None
    /\ link[c] = "new"
    /\ link' = [link EXCEPT ![c] = "up"]
    /\ accepting' = c
    /\ published' = c
    /\ overlapped' = (overlapped \/ \E d \in Conns : ~Quiet(d))
    /\ UNCHANGED <<reader, streams, handler, using, failed, sent, handled>>

StartReceiver(c) ==
    /\ accepting = c
    /\ accepting' = None
    /\ reader' = [reader EXCEPT ![c] = "reading"]
    /\ handler' = [handler EXCEPT ![c] = "idle"]
    /\ UNCHANGED <<link, published, streams, using, failed, ghosts>>

-----------------------------------------------------------------------------
(* The reading thread of a connection.                                     *)

\* The texts in s, in which texts and ends of lines alternate, a text first.
Texts(s) == [i \in 1 .. (Len(s) + 1) \div 2 |-> s[2 * i - 1]]

\* A mutated form of LastNewline: the first one.
FirstNewline(s) == SelectInSeq(s, LAMBDA p : p = Newline)

\* Where the last line in s ends; 0 if none does.
LastNewline(s) == SelectLastInSeq(s, LAMBDA p : p = Newline)

\* A mutated form of Rest: what has been cut off stays.
RestKept(s, n) == s

\* What stays in the builder, and what is decoded.
Rest(s, n) == SubSeq(s, n + 1, Len(s))

\* A mutated form of Lines: the ends of the lines are taken for lines.
LinesAndEnds(s, n) == SubSeq(s, 1, n)

Lines(s, n) == Texts(SubSeq(s, 1, n))

\* A read returns any part of what is there.  Text and the end of its line
\* are pieces of their own, so a read may part them.
ReadSome(c) ==
    /\ reader[c] = "reading"
    /\ batch[c] = <<>>
    /\ wire[c] # <<>>
    /\ link[c] # "reset"
    /\ \E n \in 1 .. Len(wire[c]) :
          LET text == builder[c] \o SubSeq(wire[c], 1, n)
              last == LastNewline(text)
          IN /\ batch' = [batch EXCEPT ![c] = Lines(text, last)]
             /\ builder' = [builder EXCEPT ![c] = Rest(text, last)]
             /\ wire' = [wire EXCEPT ![c] = SubSeq(@, n + 1, Len(@))]
    /\ UNCHANGED <<link, published, accepting, reader, inbox, handler, using, failed, ghosts>>

\* A closed socket gives 0 bytes without end (no step).  A failed read ends
\* the reader and goes to bluetoothError unless the subscription has ended.
ReadFails(c) ==
    /\ reader[c] = "reading"
    /\ batch[c] = <<>>
    /\ link[c] = "reset"
    /\ reader' = [reader EXCEPT ![c] = "over"]
    /\ UNCHANGED <<link, published, accepting, streams, handler, using, failed, ghosts>>

\* A line that does not decode takes the rest of its batch with it.
Decode(c) ==
    /\ batch[c] # <<>>
    /\ IF Head(batch[c]) = Malformed
       THEN /\ batch' = [batch EXCEPT ![c] = <<>>]
            /\ UNCHANGED inbox
       ELSE /\ batch' = [batch EXCEPT ![c] = Tail(@)]
            /\ inbox' = [inbox EXCEPT ![c] = Append(@, Head(batch[c]))]
    /\ UNCHANGED <<link, published, accepting, reader, wire, builder, handler, using, failed,
                   ghosts>>

-----------------------------------------------------------------------------
(* Handlers: bluetoothMessage, and onMidiMessage for Amp.                  *)

Take(c) ==
    /\ handler[c] = "idle"
    /\ inbox[c] # <<>>
    /\ inbox' = [inbox EXCEPT ![c] = Tail(@)]
    /\ handled' = [handled EXCEPT ![c] = Append(@, Head(inbox[c]))]
    /\ handler' = [handler EXCEPT ![c] = "busy"]
    /\ UNCHANGED <<link, published, accepting, reader, wire, builder, batch, using, failed, sent,
                   overlapped>>

\* The message asks for no answer, or nobody is there to answer.
Done(c) ==
    /\ handler[c] = "busy"
    /\ using[c] = None
    /\ handler' = [handler EXCEPT ![c] = "idle"]
    /\ UNCHANGED <<link, published, accepting, reader, streams, using, failed, ghosts>>

\* A mutated form of AmpGone: any error unpublishes.
AmpGoneUnpublishes(c) ==
    /\ handler[c] = "busy"
    /\ using[c] = None
    /\ handler' = [handler EXCEPT ![c] = "over"]
    /\ published' = None
    /\ UNCHANGED <<link, accepting, reader, streams, using, failed, ghosts>>

\* The amplifier has gone: MidiDisconnectedException ends the subscription,
\* and bluetoothError leaves the connection published.
AmpGone(c) ==
    /\ handler[c] = "busy"
    /\ using[c] = None
    /\ handler' = [handler EXCEPT ![c] = "over"]
    /\ UNCHANGED <<link, published, accepting, reader, streams, using, failed, ghosts>>

\* bluetoothConnection.value?. ...
TakePublished(s) ==
    /\ IF s = Amp THEN ~failed[Amp] ELSE handler[s] = "busy"
    /\ using[s] = None
    /\ published # None
    /\ using' = [using EXCEPT ![s] = published]
    /\ UNCHANGED <<link, published, accepting, reader, streams, handler, failed, ghosts>>

\* ... sendMessage(...): writing to a phone that has left throws, which also
\* ends the subscription of a connection's handler.
Answer(s) ==
    /\ using[s] # None
    /\ using' = [using EXCEPT ![s] = None]
    /\ failed' = [failed EXCEPT ![s] = link[using[s]] # "up"]
    /\ handler' = IF s = Amp THEN handler
                  ELSE [handler EXCEPT ![s] = IF link[using[s]] = "up" THEN "idle" ELSE "over"]
    /\ UNCHANGED <<link, published, accepting, reader, streams, ghosts>>

\* The failure of a reader reaches its handler behind the messages read.
ReaderFailed(c) ==
    /\ reader[c] = "over"
    /\ handler[c] = "idle"
    /\ inbox[c] = <<>>
    /\ handler' = [handler EXCEPT ![c] = "over"]
    /\ failed' = [failed EXCEPT ![c] = TRUE]
    /\ UNCHANGED <<link, published, accepting, reader, streams, using, ghosts>>

BluetoothError(s) ==
    /\ failed[s]
    /\ failed' = [failed EXCEPT ![s] = FALSE]
    /\ published' = None
    /\ UNCHANGED <<link, accepting, reader, streams, handler, using, ghosts>>

-----------------------------------------------------------------------------
Reader(c) == ReadSome(c) \/ ReadFails(c) \/ Decode(c)

Handler(c) ==
    \/ Take(c) \/ Done(c) \/ AmpGone(c) \/ TakePublished(c) \/ Answer(c)
    \/ ReaderFailed(c) \/ BluetoothError(c)

Next ==
    \/ \E c \in Conns :
          SendMessage(c) \/ Leave(c) \/ Publish(c) \/ StartReceiver(c) \/ Reader(c) \/ Handler(c)
    \/ TakePublished(Amp) \/ Answer(Amp) \/ BluetoothError(Amp)

\* The threads of the program go on; phones and the amplifier need not.
Fairness ==
    /\ \A c \in Conns :
          WF_vars(StartReceiver(c)) /\ WF_vars(Reader(c)) /\ WF_vars(Handler(c))
    /\ WF_vars(Answer(Amp) \/ BluetoothError(Amp))

Spec == Init /\ [][Next]_vars /\ Fairness

-----------------------------------------------------------------------------
(* Properties.                                                             *)

\* As long as a phone has sent only well-formed lines, every message it has
\* sent is handled or on its way, once and in order, however the reads part
\* and join the lines.
NothingLost ==
    \A c \in Conns : Malformed \notin ToSet(sent[c]) =>
        sent[c] = handled[c] \o inbox[c] \o batch[c] \o Texts(builder[c] \o wire[c])

\* Whatever arrives is handled or refused: no line waits in the reader for
\* another one to follow, unless the connection has failed.
NothingWaits ==
    \A c \in Conns :
        Unhandled(c) ~> (~Unhandled(c) \/ link[c] = "reset" \/ handler[c] = "over")

\* While connections follow one another, each one accepted after all that
\* was to be done for the ones before, a handler answers the phone that asked.
AnswersAsker ==
    ~overlapped => \A c \in Conns : using[c] \in {c, None}

\* ... and a phone that is connected stays published.
ConnectedIsPublished ==
    ~overlapped => \A c \in Conns : link[c] = "up" => published = c

=============================================================================
