------------------------------ MODULE UartLink ------------------------------
(***************************************************************************)
(* The serial link between the daemon and the board (uart/Uart.kt).  Three *)
(* kinds of threads send commands: the heartbeat timer on the GLib main    *)
(* loop, the console thread and one Bluetooth handler per connection.  A   *)
(* reader thread turns the board's lines into messages.                    *)
(*                                                                         *)
(* A reply of the board does not say which command it answers: the reader  *)
(* finds that out by popping uartQueue, to which the senders push.         *)
(*                                                                         *)
(* Lines are records: text is what the line answers or announces, by is    *)
(* the thread whose command it answers (a ghost: the code never sees it).  *)
(***************************************************************************)
EXTENDS Integers, SequencesExt

CONSTANTS Heartbeat,   \* the g_timeout_add(1000, heartbeat) callback
          Cli,         \* the console thread
          Bt,          \* Bluetooth handler threads, one per connection
          Board,       \* the microcontroller, as the origin of unasked lines
          Unasked,     \* what the board sends of its own accord
          MaxLines,    \* lines the tty's input buffer holds
          MaxPending   \* bound on the length of uartQueue

ASSUME ThreadsAssumption ==
    /\ IsFiniteSet(Bt)
    /\ Heartbeat # Cli
    /\ Board \notin {Heartbeat, Cli} \cup Bt
    /\ {Heartbeat, Cli} \cap Bt = {}

\* A button, the power-off notice, a line that does not parse and bytes that
\* are not UTF-8.
ASSUME UnaskedAssumption == Unasked \subseteq {"btn", "off", "bad", "noise"}

ASSUME BoundsAssumption == {MaxLines, MaxPending} \subseteq Nat

Threads == {Heartbeat, Cli} \cup Bt

Commands == {"hbt", "fw", "status", "shutdown"}

\* The commands each kind of thread sends.
Requests(t) ==
    CASE t = Heartbeat -> {"hbt"}
      [] t = Cli       -> {"fw", "status", "shutdown"}
      [] OTHER         -> {"fw", "status"}


Lines == [text: Commands \cup Unasked, by: Threads \cup {Board}]

\* The messages of the board; NoMessage stands for a line that was dropped.
Messages == {"hbt", "fw", "status", "shutdown", "btn"}
NoMessage == "none"

VARIABLES
    pc,         \* pc[t]: where thread t is in its request
    cmd,        \* cmd[t]: the command t is sending
    uartQueue,  \* commands whose reply is expected, in push order
    tx,         \* commands on their way to the board
    rx,         \* lines in the kernel's input buffer of the tty
    held,       \* lines already read into the GIOChannel's buffer
    readError,  \* the error pointer of the read loop is set
    lost,       \* ghost: replies that will never reach the reader
    lone        \* ghost: the last push found no request outstanding

linkVars == <<pc, cmd, uartQueue, tx, rx, held, readError, lost, lone>>
senderVars == <<pc, cmd, tx, lone>>
readerVars == <<held, readError>>

\* The variables keep their types; a thread that has pushed a command still
\* knows which one it is about to write.
LinkTypeOK ==
    /\ pc \in [Threads -> {"idle", "queued", "written", "dead"}]
    /\ cmd \in [Threads -> Commands \cup {"none"}]
    /\ \A t \in Threads : pc[t] = "queued" => cmd[t] # "none"
    /\ uartQueue \in Seq(Commands)
    /\ tx \in Seq([text: Commands, by: Threads])
    /\ rx \in Seq(Lines)
    /\ held \in Seq(Lines)
    /\ readError \in BOOLEAN
    /\ lost \in Nat
    /\ lone \in BOOLEAN

LinkInit ==
    /\ pc = [t \in Threads |-> "idle"]
    /\ cmd = [t \in Threads |-> "none"]
    /\ uartQueue = <<>>
    /\ tx = <<>>
    /\ rx = <<>>
    /\ held = <<>>
    /\ readError = FALSE
    /\ lost = 0
    /\ lone = TRUE

-----------------------------------------------------------------------------
(* Counting what is outstanding.                                           *)

IsReply(line) == line.text \in Commands

RepliesIn(s) == {i \in DOMAIN s : IsReply(s[i])}

Replies(s) == Cardinality(RepliesIn(s))

Sending == {t \in Threads : pc[t] = "queued"}

\* Commands pushed to uartQueue whose reply may still reach the reader.
Outstanding == Cardinality(Sending) + Len(tx) + Replies(rx) + Replies(held)

-----------------------------------------------------------------------------
(* The senders.  requestFirmware, requestStatus, sendHeartBeat and         *)
(* requestShutdown are the same two calls: push the command, write it.     *)

\* A mutated form of Enqueue: heartbeats are sent without an entry in the queue.
EnqueueNoHeartbeat(t, c) ==
    /\ pc[t] = "idle"
    /\ c \in Requests(t)
    /\ Len(uartQueue) < MaxPending
    /\ uartQueue' = IF t = Heartbeat THEN uartQueue ELSE Append(uartQueue, c)
    /\ pc' = [pc EXCEPT ![t] = "queued"]
    /\ cmd' = [cmd EXCEPT ![t] = c]
    /\ lone' = (Outstanding = 0)
    /\ UNCHANGED <<tx, rx, lost, readerVars>>

Enqueue(t, c) ==
    /\ pc[t] = "idle"
    /\ c \in Requests(t)
    /\ Len(uartQueue) < MaxPending
    /\ uartQueue' = Append(uartQueue, c)
    /\ pc' = [pc EXCEPT ![t] = "queued"]
    /\ cmd' = [cmd EXCEPT ![t] = c]
    /\ lone' = (Outstanding = 0)
    /\ UNCHANGED <<tx, rx, lost, readerVars>>

Write(t) ==
    /\ pc[t] = "queued"
    /\ pc' = [pc EXCEPT ![t] = "written"]
    /\ tx' = Append(tx, [text |-> cmd[t], by |-> t])
    /\ cmd' = [cmd EXCEPT ![t] = "none"]
    /\ UNCHANGED <<lone, uartQueue, rx, lost, readerVars>>

\* write() fails: UartWriteException.  The heartbeat and the console catch
\* it; in a Bluetooth handler it ends the subscription.  The pushed command
\* stays in uartQueue.
WriteFails(t) ==
    /\ pc[t] = "queued"
    /\ pc' = [pc EXCEPT ![t] = IF t \in Bt THEN "dead" ELSE "idle"]
    /\ cmd' = [cmd EXCEPT ![t] = "none"]
    /\ lost' = lost + 1
    /\ UNCHANGED <<lone, uartQueue, tx, rx, readerVars>>

\* Mutant of Flush: the queue is flushed with the input.
FlushQueue(t) ==
    /\ pc[t] = "written"
    /\ pc' = [pc EXCEPT ![t] = "idle"]
    /\ rx' = <<>>
    /\ uartQueue' = <<>>
    /\ lost' = lost + Replies(rx)
    /\ UNCHANGED <<cmd, lone, tx, readerVars>>

\* tcflush(fd, TCIFLUSH) after the write: unread input is discarded.
Flush(t) ==
    /\ pc[t] = "written"
    /\ pc' = [pc EXCEPT ![t] = "idle"]
    /\ rx' = <<>>
    /\ lost' = lost + Replies(rx)
    /\ UNCHANGED <<cmd, lone, uartQueue, tx, readerVars>>

-----------------------------------------------------------------------------
(* The board (external): it answers every command once, in order, and      *)
(* sends buttons, its power-off notice and line noise when it likes.  What *)
(* does not fit the kernel's buffer is dropped.                            *)

BoardReply ==
    /\ tx # <<>>
    /\ tx' = Tail(tx)
    /\ rx' = IF Len(rx) < MaxLines THEN Append(rx, Head(tx)) ELSE rx
    /\ lost' = IF Len(rx) < MaxLines THEN lost ELSE lost + 1
    /\ UNCHANGED <<pc, cmd, lone, uartQueue, readerVars>>

BoardSends(text) ==
    /\ rx' = IF Len(rx) < MaxLines
             THEN Append(rx, [text |-> text, by |-> Board])
             ELSE rx
    /\ UNCHANGED <<senderVars, uartQueue, lost, readerVars>>

-----------------------------------------------------------------------------
(* The reader loop of startReceiver.                                       *)

\* g_io_channel_read_line takes what the tty has when it holds no line.
Fill ==
    /\ ~readError
    /\ held = <<>>
    /\ rx # <<>>
    /\ held' = rx
    /\ rx' = <<>>
    /\ UNCHANGED <<senderVars, uartQueue, lost, readError>>

\* Bytes that are not UTF-8 set the error pointer.  Nothing ever clears it,
\* and with it set the next reads return without reading.
ReadFails ==
    /\ ~readError
    /\ held # <<>>
    /\ Head(held).text = "noise"
    /\ readError' = TRUE
    /\ held' = Tail(held)
    /\ UNCHANGED <<senderVars, uartQueue, rx, lost>>

\* A line that is not a reply: "$btn", "$off", or something that does not
\* parse and is logged by the loop's catch.
ReadUnasked(m) ==
    /\ ~readError
    /\ held # <<>>
    /\ Head(held).text \in {"btn", "off", "bad"}
    /\ held' = Tail(held)
    /\ m = CASE Head(held).text = "btn" -> "btn"
             [] Head(held).text = "off" -> "shutdown"
             [] OTHER                   -> NoMessage
    /\ UNCHANGED <<senderVars, uartQueue, rx, lost, readError>>

\* What fromString makes of a reply when the popped command is c and the
\* board answered command text.  NoMessage is an exception of the conversion
\* (missing or non-numeric parameters), caught by the loop.  A status line
\* has enough numbers for a firmware message unless one does not fit an Int.
Decoded(c, text) ==
    CASE c \in {"shutdown", "hbt"}           -> {c}
      [] c = "fw" /\ text = "fw"             -> {"fw"}
      [] c = "fw" /\ text = "status"         -> {"fw", NoMessage}
      [] c = "status" /\ text = "status"     -> {"status"}
      [] OTHER                               -> {NoMessage}

\* removeLast(): the newest entry.  Mutant: the oldest.
PopOldest(q) == [command |-> Head(q), rest |-> Tail(q)]
Pop(q) == [command |-> Last(q), rest |-> Front(q)]

\* removeLast() on an empty list throws inside the loop's try: the line is
\* dropped and the queue stays as it is.
ReadReply(m) ==
    /\ ~readError
    /\ held # <<>>
    /\ IsReply(Head(held))
    /\ held' = Tail(held)
    /\ IF uartQueue = <<>>
       THEN m = NoMessage /\ UNCHANGED uartQueue
       ELSE /\ m \in Decoded(Pop(uartQueue).command, Head(held).text)
            /\ uartQueue' = Pop(uartQueue).rest
    /\ UNCHANGED <<senderVars, rx, lost, readError>>

\* One iteration of the loop hands message m to onNext, or nothing.
ReadLine(m) == ReadUnasked(m) \/ ReadReply(m)

Read == Fill \/ ReadFails \/ \E m \in Messages \cup {NoMessage} : ReadLine(m)

-----------------------------------------------------------------------------
Send(t) ==
    \/ \E c \in Commands : Enqueue(t, c)
    \/ Write(t)
    \/ WriteFails(t)
    \/ Flush(t)

LinkNext ==
    \/ \E t \in Threads : Send(t)
    \/ BoardReply
    \/ \E text \in Unasked : BoardSends(text)
    \/ Read

LinkSpec == LinkInit /\ [][LinkNext]_linkVars

\* The reader loop is a thread of its own that waits for nobody.
FairLinkSpec == LinkSpec /\ WF_linkVars(Read)

-----------------------------------------------------------------------------
(* Properties.                                                             *)

\* Every entry of uartQueue is accounted for: it belongs to a reply that can
\* still arrive or to one that was lost.  A push and the line it causes are
\* three steps of two threads apart, and tcflush of one thread removes the
\* replies of the others.
QueueAccounts == Len(uartQueue) = Outstanding + lost

\* Whenever a reply is next to be read, removeLast() has an entry to remove:
\* the reader never throws away a reply for want of a command.
NoUnderflow ==
    held # <<>> /\ IsReply(Head(held)) => uartQueue # <<>>

\* A request made while nothing is outstanding is answered as what it was,
\* whatever was lost before it: stale entries lie below it in the queue.
LoneRequestMatched ==
    lone /\ held # <<>> /\ IsReply(Head(held))
        => Pop(uartQueue).command = Head(held).text

\* Why a lone request is matched: it is the only one outstanding, and what
\* is outstanding, wherever it has got to, is the last entry of the queue.
Texts(s) == {s[i].text : i \in RepliesIn(s)}

OutstandingTexts ==
    {cmd[t] : t \in Sending} \cup {tx[i].text : i \in DOMAIN tx}
        \cup Texts(rx) \cup Texts(held)

LoneInv ==
    lone /\ Outstanding # 0
        => Outstanding = 1 /\ OutstandingTexts \subseteq {Pop(uartQueue).command}

\* "observable which is called when new message is received" (Uart.kt:139):
\* a line the daemon has read is eventually delivered or rejected.
LinesConsumed == held # <<>> ~> held = <<>>

=============================================================================
