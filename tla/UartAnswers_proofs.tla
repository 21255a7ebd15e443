-------------------------- MODULE UartAnswers_proofs --------------------------
(***************************************************************************)
(* Proofs about UartAnswers: that it implements UartLink, so that what is  *)
(* proved of the link holds of it, its types, and the routing of answers   *)
(* while requests are made one after the other and no reply is lost.       *)
(***************************************************************************)
EXTENDS UartAnswers, UartLink_proofs

-----------------------------------------------------------------------------
(* The link inside.                                                        *)

\* Every step is one of the link's or leaves the link as it is.
LEMMA LinkStep == [Next]_vars => [LinkNext]_linkVars
<1> SUFFICES ASSUME [Next]_vars PROVE [LinkNext]_linkVars
    OBVIOUS
<1>1. ASSUME NEW c \in Commands, SetCliFlag(c) PROVE UNCHANGED linkVars
    BY <1>1 DEF SetCliFlag
<1>2. ASSUME NEW t \in Threads, NEW c \in Commands, Push(t, c) PROVE Send(t)
    BY <1>2 DEF Push, Send
<1>3. ASSUME NEW t \in Threads, Transmit(t) PROVE Send(t)
    BY <1>3 DEF Transmit, Send
<1>4. CASE BoardStep
    BY <1>4 DEF BoardStep, LinkNext
<1>5. CASE ReadNothing
    BY <1>5 DEF ReadNothing, LinkNext, Read
<1>6. ASSUME NEW m \in Messages \cup {NoMessage}, Deliver(m) PROVE Read
    BY <1>6 DEF Deliver, Read
<1>7. CASE Handle
    BY <1>7 DEF Handle, TakeForCli, Answer, Forward, HandleOther, HandlerThrows
<1>8. CASE UNCHANGED vars
    BY <1>8 DEF vars
<1>9. QED
    BY <1>1, <1>2, <1>3, <1>4, <1>5, <1>6, <1>7, <1>8 DEF Next, LinkNext

\* The handler and the console do nothing to the link but what its own
\* actions allow: every behaviour of the composition is one of UartLink.
THEOREM AnswersImplementLink == Spec => LinkSpec
<1>1. Init => LinkInit
    BY DEF Init
<1>2. QED
    BY <1>1, LinkStep, PTL DEF Spec, LinkSpec

\* What UartLink_proofs shows of the link.
Link == LinkTypeOK /\ QueueAccounts /\ NoUnderflow /\ LoneInv /\ LoneRequestMatched

\* What is proved of UartLink holds of the composition.
LEMMA LinkHolds == Spec => []Link
<1>1. LinkTypeOK /\ QueueAccounts /\ NoUnderflow /\ LoneInv /\ LoneRequestMatched => Link
    BY DEF Link
<1>2. QED
    BY <1>1, AnswersImplementLink, LinkTypeCorrect, QueueIsAccounted, QueueNeverUnderflows,
       LoneInvariant, LoneRequestIsMatched, PTL

-----------------------------------------------------------------------------
(* The types.                                                              *)

\* The types of the handler's and the console's variables; an answer that is
\* being printed is still the head of the queue.
AnswerTypeOK ==
    /\ isCliRq \in BOOLEAN
    /\ cliRq \in {"none", "fw", "status"}
    /\ events \in Seq(Events)
    /\ handler \in {"idle", "answering", "disposed"}
    /\ sequential \in BOOLEAN
    /\ handler = "answering" => events # <<>>

\* Whoever takes the next step keeps the types of the handler.
LEMMA AnswerTypeStep ==
    ASSUME LinkTypeOK, AnswerTypeOK, [Next]_vars
    PROVE  AnswerTypeOK'
<1> USE DEF AnswerTypeOK
<1>1. ASSUME NEW c \in Commands, SetCliFlag(c) PROVE AnswerTypeOK'
    BY <1>1 DEF SetCliFlag
<1>2. ASSUME NEW t \in Threads, NEW c \in Commands, Push(t, c) PROVE AnswerTypeOK'
    BY <1>2 DEF Push
<1>3. ASSUME UNCHANGED answerVars PROVE AnswerTypeOK'
    BY <1>3 DEF answerVars
<1>4. ASSUME NEW m \in Messages \cup {NoMessage}, Deliver(m) PROVE AnswerTypeOK'
    <2>1. CASE m = NoMessage \/ handler = "disposed"
        BY <1>4, <2>1 DEF Deliver
    <2>2. CASE m # NoMessage /\ handler # "disposed"
        <3> DEFINE e == [msg |-> m, by |-> Head(held).by]
        <3>1. held # <<>> /\ held \in Seq(Lines)
            BY <1>4 DEF Deliver, ReadLine, ReadUnasked, ReadReply, LinkTypeOK
        <3>2. Head(held).by \in Threads \cup {Board}
            <4>1. Head(held) \in Lines
                BY <3>1, EndTypes
            <4>2. QED
                BY <4>1 DEF Lines
        <3>3. e \in Events
            BY <2>2, <3>2 DEF Events
        <3>4. events' = Append(events, e)
            BY <1>4, <2>2 DEF Deliver
        <3> HIDE DEF e
        <3>5. events' \in Seq(Events) /\ events' # <<>>
            BY <3>3, <3>4, AppendProperties
        <3>6. QED
            BY <1>4, <3>5 DEF Deliver
    <2>3. QED
        BY <2>1, <2>2
<1>5. CASE Handle
    <2>1. ASSUME events # <<>> PROVE Tail(events) \in Seq(Events)
        BY <2>1, EndTypes
    <2>2. <<>> \in Seq(Events)
        BY EmptySeq
    <2>3. QED
        BY <1>5, <2>1, <2>2
           DEF Handle, TakeForCli, Answer, Forward, HandleOther, HandlerThrows, Handling
<1>6. CASE UNCHANGED vars
    BY <1>6 DEF vars, answerVars
<1>7. QED
    BY <1>1, <1>2, <1>3, <1>4, <1>5, <1>6 DEF Next, Transmit, BoardStep, ReadNothing

\* The types of the handler hold throughout.
LEMMA AnswerTypes == Spec => []AnswerTypeOK
<1>1. Init => AnswerTypeOK
    <2>1. <<>> \in Seq(Events)
        BY EmptySeq
    <2>2. QED
        BY <2>1 DEF Init, AnswerTypeOK
<1>2. LinkTypeOK /\ AnswerTypeOK /\ [Next]_vars => AnswerTypeOK'
    BY AnswerTypeStep
<1>3. Link => LinkTypeOK
    BY DEF Link
<1>4. QED
    BY <1>1, <1>2, <1>3, LinkHolds, PTL DEF Spec

\* The link's variables and the handler's keep their types; only messages
\* are handed on, never a line that did not decode.
THEOREM AnswersTypeCorrect == Spec => []TypeOK
<1>1. Link /\ AnswerTypeOK => TypeOK
    BY DEF Link, AnswerTypeOK, TypeOK
<1>2. QED
    BY <1>1, LinkHolds, AnswerTypes, PTL

-----------------------------------------------------------------------------
(* What is in flight.                                                      *)

\* The replies among the lines of a buffer.
ReplySet(s) == {s[i] : i \in RepliesIn(s)}

\* The requests on their way to the board and the replies on their way back.
InFlight ==
    {[text |-> cmd[t], by |-> t] : t \in Sending}
        \cup {tx[i] : i \in DOMAIN tx}
        \cup ReplySet(rx) \cup ReplySet(held)

\* A buffer that counts no replies has none.
LEMMA ReplySetNone ==
    ASSUME NEW s \in Seq(Lines), Replies(s) = 0
    PROVE  ReplySet(s) = {}
<1>1. RepliesIn(s) = {}
    BY RepliesType, FS_EmptySet DEF Replies
<1>2. QED
    BY <1>1 DEF ReplySet

\* A line that arrives adds its reply, if it is one.
LEMMA ReplySetAppend ==
    ASSUME NEW s \in Seq(Lines), NEW e \in Lines
    PROVE  ReplySet(Append(s, e)) = ReplySet(s) \cup (IF IsReply(e) THEN {e} ELSE {})
<1>1. /\ DOMAIN s = 1 .. Len(s) /\ Len(s) \in Nat
      /\ DOMAIN Append(s, e) = 1 .. Len(s) + 1
      /\ \A i \in 1 .. Len(s) : Append(s, e)[i] = s[i]
      /\ Append(s, e)[Len(s) + 1] = e
    BY AppendProperties, LenProperties
<1>2. \A i \in 1 .. Len(s) + 1 : i \in 1 .. Len(s) \/ i = Len(s) + 1
    BY <1>1
<1>3. /\ \A i \in 1 .. Len(s) : i \in 1 .. Len(s) + 1
      /\ Len(s) + 1 \in 1 .. Len(s) + 1
    BY <1>1
<1>4. \A i \in RepliesIn(s) : i \in RepliesIn(Append(s, e)) /\ Append(s, e)[i] = s[i]
    BY <1>1, <1>3 DEF RepliesIn
<1>5. \A i \in RepliesIn(Append(s, e)) :
          \/ i \in RepliesIn(s) /\ Append(s, e)[i] = s[i]
          \/ IsReply(e) /\ Append(s, e)[i] = e
    BY <1>1, <1>2 DEF RepliesIn
<1>6. IsReply(e) => Len(s) + 1 \in RepliesIn(Append(s, e))
    BY <1>1, <1>3 DEF RepliesIn
<1>7. QED
    BY <1>1, <1>4, <1>5, <1>6 DEF ReplySet

\* A line that is taken takes its reply, if it is one.
LEMMA ReplySetTail ==
    ASSUME NEW s \in Seq(Lines), s # <<>>
    PROVE  ReplySet(s) = ReplySet(Tail(s)) \cup (IF IsReply(Head(s)) THEN {Head(s)} ELSE {})
<1>1. /\ DOMAIN s = 1 .. Len(s) /\ Len(s) \in Nat \ {0}
      /\ DOMAIN Tail(s) = 1 .. (Len(s) - 1)
      /\ \A i \in 1 .. (Len(s) - 1) : Tail(s)[i] = s[i + 1]
      /\ Head(s) = s[1]
    BY HeadTailProperties, LenProperties, EmptySeq
<1>2. \A i \in RepliesIn(Tail(s)) : i + 1 \in RepliesIn(s) /\ Tail(s)[i] = s[i + 1]
    BY <1>1 DEF RepliesIn
<1>3. \A i \in RepliesIn(s) : i = 1 \/ (i - 1 \in RepliesIn(Tail(s)) /\ Tail(s)[i - 1] = s[i])
    BY <1>1 DEF RepliesIn
<1>4. 1 \in RepliesIn(s) <=> IsReply(Head(s))
    BY <1>1 DEF RepliesIn
<1>5. ReplySet(Tail(s)) \subseteq ReplySet(s)
    BY <1>2 DEF ReplySet
<1>6. \A i \in RepliesIn(s) : s[i] = Head(s) \/ s[i] \in ReplySet(Tail(s))
    BY <1>1, <1>3 DEF ReplySet
<1>7. IsReply(Head(s)) => Head(s) \in ReplySet(s)
    BY <1>1, <1>4 DEF ReplySet
<1>8. \A i \in RepliesIn(s) : IsReply(s[i])
    BY DEF RepliesIn
<1>9. QED
    BY <1>5, <1>6, <1>7, <1>8 DEF ReplySet

\* With nothing outstanding, nothing is in flight.
LEMMA NothingInFlight ==
    ASSUME LinkTypeOK, Outstanding = 0
    PROVE  InFlight = {}
<1>1. /\ Cardinality(Sending) = 0 /\ Len(tx) = 0
      /\ Replies(rx) = 0 /\ Replies(held) = 0
    BY CountTypes DEF Outstanding
<1>2. Sending = {}
    BY <1>1, SendersFinite, FS_EmptySet
<1>3. DOMAIN tx = {}
    BY <1>1, LenProperties DEF LinkTypeOK
<1>4. ReplySet(rx) = {} /\ ReplySet(held) = {}
    BY <1>1, ReplySetNone DEF LinkTypeOK
<1>5. QED
    BY <1>2, <1>3, <1>4 DEF InFlight

\* The same as a state function, ...
EmptyFlight == Outstanding = 0 => InFlight = {}

\* ... which holds after a step as well.
LEMMA NothingInFlightNext == LinkTypeOK' => EmptyFlight'
<1>1. LinkTypeOK => EmptyFlight
    BY NothingInFlight DEF EmptyFlight
<1>2. QED
    BY <1>1, PTL

\* What is in flight has the text of what is outstanding.
LEMMA FlightTexts ==
    ASSUME LinkTypeOK, NEW r \in InFlight
    PROVE  r.text \in OutstandingTexts
BY DEF InFlight, OutstandingTexts, ReplySet, Texts

\* Nothing is lost or gained on the way: the steps of the link that neither
\* push nor read a reply keep what is in flight, unless they lose a reply.
LEMMA FlightMoves ==
    ASSUME LinkTypeOK, LinkTypeOK', lost = 0, lost' = 0,
           \/ \E t \in Threads : Write(t) \/ WriteFails(t) \/ Flush(t)
           \/ BoardReply \/ \E text \in Unasked : BoardSends(text)
           \/ Fill \/ ReadFails \/ \E m : ReadUnasked(m)
    PROVE  InFlight' = InFlight /\ uartQueue' = uartQueue
<1> USE DEF senderVars, readerVars
<1>1. ASSUME NEW t \in Threads, Write(t) PROVE InFlight' = InFlight
    <2> DEFINE e == [text |-> cmd[t], by |-> t]
    <2>1. e \in [text: Commands, by: Threads] /\ tx' = Append(tx, e)
        BY <1>1 DEF Write, LinkTypeOK
    <2>2. {[text |-> cmd'[u], by |-> u] : u \in Sending'} \cup {e}
            = {[text |-> cmd[u], by |-> u] : u \in Sending}
        <3>1. t \in Sending /\ Sending' = Sending \ {t}
            BY <1>1 DEF Write, Sending, LinkTypeOK
        <3>2. \A u \in Sending' : cmd'[u] = cmd[u]
            BY <1>1, <3>1 DEF Write, Sending, LinkTypeOK
        <3>3. QED
            BY <3>1, <3>2
    <2> HIDE DEF e
    <2>3. {tx'[i] : i \in DOMAIN tx'} = {tx[i] : i \in DOMAIN tx} \cup {e}
        <3>1. /\ DOMAIN tx = 1 .. Len(tx) /\ Len(tx) \in Nat
              /\ DOMAIN tx' = 1 .. Len(tx) + 1
              /\ \A i \in 1 .. Len(tx) : tx'[i] = tx[i]
              /\ tx'[Len(tx) + 1] = e
            BY <2>1, AppendProperties, LenProperties DEF LinkTypeOK
        <3>2. 1 .. Len(tx) + 1 = (1 .. Len(tx)) \cup {Len(tx) + 1}
            BY <3>1
        <3>3. QED
            BY <3>1, <3>2
    <2>4. rx' = rx /\ held' = held
        BY <1>1 DEF Write
    <2>5. QED
        BY <2>2, <2>3, <2>4 DEF InFlight, ReplySet, RepliesIn
<1>2. ASSUME NEW t \in Threads, WriteFails(t) PROVE FALSE
    BY <1>2 DEF WriteFails
<1>3. ASSUME NEW t \in Threads, Flush(t) PROVE InFlight' = InFlight
    <2>1. Replies(rx) = 0
        BY <1>3, RepliesType DEF Flush, LinkTypeOK
    <2>2. ReplySet(rx) = {} /\ ReplySet(rx)' = {}
        BY <1>3, <2>1, ReplySetNone DEF Flush, LinkTypeOK, ReplySet, RepliesIn
    <2>3. Sending' = Sending
        BY <1>3 DEF Flush, Sending, LinkTypeOK
    <2>4. QED
        BY <1>3, <2>2, <2>3 DEF Flush, InFlight, ReplySet, RepliesIn
<1>4. ASSUME BoardReply PROVE InFlight' = InFlight
    <2>1. tx # <<>> /\ tx \in Seq([text: Commands, by: Threads]) /\ tx' = Tail(tx)
        BY <1>4 DEF BoardReply, LinkTypeOK
    <2>2. rx' = Append(rx, Head(tx))
        BY <1>4 DEF BoardReply
    <2>3. Head(tx) \in [text: Commands, by: Threads]
        BY <2>1, EndTypes
    <2>4. Head(tx) \in Lines /\ IsReply(Head(tx))
        BY <2>3, LineTypes, CommandsAreReplies, Zenon
    <2>5. ReplySet(rx)' = ReplySet(rx) \cup {Head(tx)}
        <3>1. ReplySet(Append(rx, Head(tx))) = ReplySet(rx) \cup {Head(tx)}
            BY <2>4, ReplySetAppend DEF LinkTypeOK
        <3>2. QED
            BY <2>2, <3>1 DEF ReplySet, RepliesIn
    <2>6. {tx[i] : i \in DOMAIN tx} = {tx'[i] : i \in DOMAIN tx'} \cup {Head(tx)}
        <3>1. /\ DOMAIN tx = 1 .. Len(tx) /\ Len(tx) \in Nat \ {0}
              /\ DOMAIN tx' = 1 .. (Len(tx) - 1)
              /\ \A i \in 1 .. (Len(tx) - 1) : tx'[i] = tx[i + 1]
              /\ Head(tx) = tx[1]
            BY <2>1, HeadTailProperties, LenProperties, EmptySeq
        <3>2. \A i \in 1 .. (Len(tx) - 1) : i + 1 \in 1 .. Len(tx)
            BY <3>1
        <3>3. \A i \in 1 .. Len(tx) : i = 1 \/ (i - 1 \in 1 .. (Len(tx) - 1) /\ tx'[i - 1] = tx[i])
            BY <3>1
        <3>4. QED
            BY <3>1, <3>2, <3>3
    <2>7. UNCHANGED <<pc, cmd, held>>
        BY <1>4 DEF BoardReply
    <2>8. QED
        BY <2>5, <2>6, <2>7 DEF InFlight, Sending, ReplySet, RepliesIn
<1>5. ASSUME NEW text \in Unasked, BoardSends(text) PROVE InFlight' = InFlight
    <2> DEFINE e == [text |-> text, by |-> Board]
    <2>1. e \in Lines /\ ~IsReply(e)
        BY LineTypes, UnaskedAssumption DEF IsReply, Commands
    <2>2. rx' = Append(rx, e) \/ rx' = rx
        BY <1>5 DEF BoardSends
    <2> HIDE DEF e
    <2>3. ReplySet(rx)' = ReplySet(rx)
        <3>1. ReplySet(Append(rx, e)) = ReplySet(rx)
            BY <2>1, ReplySetAppend DEF LinkTypeOK
        <3>2. QED
            BY <2>2, <3>1 DEF ReplySet, RepliesIn
    <2>4. UNCHANGED <<pc, cmd, tx, held>>
        BY <1>5 DEF BoardSends
    <2>5. QED
        BY <2>3, <2>4 DEF InFlight, Sending, ReplySet, RepliesIn
<1>6. ASSUME Fill PROVE InFlight' = InFlight
    <2>1. ReplySet(held) = {} /\ ReplySet(rx)' = {} /\ ReplySet(held)' = ReplySet(rx)
        BY <1>6 DEF Fill, ReplySet, RepliesIn
    <2>2. UNCHANGED <<pc, cmd, tx>>
        BY <1>6 DEF Fill
    <2>3. QED
        BY <2>1, <2>2 DEF InFlight, Sending
<1>7. ASSUME ReadFails \/ \E m : ReadUnasked(m) PROVE InFlight' = InFlight
    <2>1. /\ held # <<>> /\ ~IsReply(Head(held)) /\ held' = Tail(held)
          /\ UNCHANGED <<pc, cmd, tx, rx>>
        BY <1>7 DEF ReadFails, ReadUnasked, IsReply, Commands
    <2>2. ReplySet(held)' = ReplySet(held)
        <3>1. ReplySet(Tail(held)) = ReplySet(held)
            BY <2>1, ReplySetTail DEF LinkTypeOK
        <3>2. QED
            BY <2>1, <3>1 DEF ReplySet, RepliesIn
    <2>3. QED
        BY <2>1, <2>2 DEF InFlight, Sending, ReplySet, RepliesIn
<1>8. uartQueue' = uartQueue
    BY <1>2 DEF Write, WriteFails, Flush, BoardReply, BoardSends, Fill, ReadFails, ReadUnasked
<1>9. QED
    BY <1>1, <1>2, <1>3, <1>4, <1>5, <1>6, <1>7, <1>8

-----------------------------------------------------------------------------
(* The route of an answer.                                                 *)

\* The replies whose answer the console or a phone gets: firmware and status.
Printed == {"fw", "status"}

\* Where the messages that answer a firmware or status request wait.
AnswersIn(s) == {i \in DOMAIN s : s[i].msg \in Printed}

\* A request is announced, in flight or answered, one at a time, and all the
\* while the flag says whose it is; when it is dealt with the flag is clear.
Routed ==
    /\ cliRq # "none" => isCliRq /\ Outstanding = 0 /\ AnswersIn(events) = {}
    /\ Outstanding # 0 => AnswersIn(events) = {}
    /\ handler = "answering" => isCliRq /\ Head(events).msg \in Printed
    /\ \A r \in InFlight : r.text \in Printed => (isCliRq <=> r.by = Cli)
    /\ \A i \in AnswersIn(events) : isCliRq <=> events[i].by = Cli
    /\ \A i, j \in AnswersIn(events) : i = j
    /\ isCliRq => \/ cliRq # "none"
                  \/ AnswersIn(events) # {}
                  \/ \E r \in InFlight : r.text \in Printed

\* As long as the claim is made: requests one after the other, no reply lost,
\* and a handler that is subscribed.
Premise == sequential /\ lost = 0 /\ handler # "disposed"

\* The invariant: each push of a sequential run found nothing outstanding, and
\* every answer has its route.
RouteInv == (sequential => lone) /\ (Premise => Routed)

\* A message handed on is the last to be handled.
LEMMA AnswersAppend ==
    ASSUME NEW s \in Seq(Events), NEW e \in Events
    PROVE  /\ AnswersIn(Append(s, e))
                = AnswersIn(s) \cup (IF e.msg \in Printed THEN {Len(s) + 1} ELSE {})
           /\ \A i \in AnswersIn(s) : Append(s, e)[i] = s[i]
           /\ Append(s, e)[Len(s) + 1] = e
<1>1. /\ DOMAIN s = 1 .. Len(s) /\ Len(s) \in Nat
      /\ DOMAIN Append(s, e) = 1 .. Len(s) + 1
      /\ \A i \in 1 .. Len(s) : Append(s, e)[i] = s[i]
      /\ Append(s, e)[Len(s) + 1] = e
    BY AppendProperties, LenProperties
<1>2. 1 .. Len(s) + 1 = (1 .. Len(s)) \cup {Len(s) + 1} /\ Len(s) + 1 \notin 1 .. Len(s)
    BY <1>1
<1>3. AnswersIn(s) \subseteq 1 .. Len(s)
    BY <1>1 DEF AnswersIn
<1>4. QED
    BY <1>1, <1>2, <1>3 DEF AnswersIn

\* A message handled leaves the others in order.
LEMMA AnswersTail ==
    ASSUME NEW s \in Seq(Events), s # <<>>
    PROVE  /\ \A i \in AnswersIn(Tail(s)) :
                  i + 1 \in AnswersIn(s) /\ i + 1 # 1 /\ Tail(s)[i] = s[i + 1] /\ i \in Nat
           /\ \A i \in AnswersIn(s) : i = 1 \/ i - 1 \in AnswersIn(Tail(s))
           /\ 1 \in AnswersIn(s) <=> Head(s).msg \in Printed
           /\ Head(s) = s[1]
<1>1. /\ DOMAIN s = 1 .. Len(s) /\ Len(s) \in Nat \ {0}
      /\ DOMAIN Tail(s) = 1 .. (Len(s) - 1)
      /\ \A i \in 1 .. (Len(s) - 1) : Tail(s)[i] = s[i + 1]
      /\ Head(s) = s[1]
    BY HeadTailProperties, LenProperties, EmptySeq
<1>2. \A i \in AnswersIn(Tail(s)) : i \in 1 .. (Len(s) - 1) /\ s[i + 1].msg \in Printed
    BY <1>1 DEF AnswersIn
<1>3. \A i \in 1 .. (Len(s) - 1) : i + 1 \in 1 .. Len(s) /\ i + 1 # 1 /\ i \in Nat
    BY <1>1
<1>4. \A i \in 1 .. Len(s) : i = 1 \/ (i - 1 \in 1 .. (Len(s) - 1) /\ Tail(s)[i - 1] = s[i])
    BY <1>1
<1>5. \A i \in AnswersIn(Tail(s)) :
          i + 1 \in AnswersIn(s) /\ i + 1 # 1 /\ Tail(s)[i] = s[i + 1] /\ i \in Nat
    BY <1>1, <1>2, <1>3 DEF AnswersIn
<1>6. \A i \in AnswersIn(s) : i = 1 \/ i - 1 \in AnswersIn(Tail(s))
    BY <1>1, <1>4 DEF AnswersIn
<1>7. 1 \in AnswersIn(s) <=> Head(s).msg \in Printed
    BY <1>1 DEF AnswersIn
<1>8. QED
    BY <1>1, <1>5, <1>6, <1>7

\* Nothing gets better: an overlap, a loss and a disposed handler stay.
LEMMA PremiseWas ==
    ASSUME LinkTypeOK, AnswerTypeOK, [Next]_vars, Premise'
    PROVE  Premise
<1>1. lost \in Nat /\ Replies(rx) \in Nat
    BY CountTypes
<1>2. sequential /\ handler # "disposed"
    BY DEF Premise, Next, SetCliFlag, Push, Transmit, BoardStep, ReadNothing, Deliver, Handle,
           TakeForCli, Answer, Forward, HandleOther, HandlerThrows, Handling, vars, answerVars
<1>3. lost' \in {lost, lost + 1, lost + Replies(rx)}
    BY LinkStep DEF LinkNext, Send, Enqueue, Write, WriteFails, Flush, BoardReply, BoardSends, Read,
       Fill, ReadFails, ReadLine, ReadUnasked, ReadReply, linkVars
<1>4. QED
    BY <1>1, <1>2, <1>3 DEF Premise

\* The facts a step is judged by.
LinkBoth == Link /\ Link' /\ AnswerTypeOK /\ AnswerTypeOK'

\* With as much lost as before, as much is outstanding.
LEMMA SumCancels ==
    ASSUME NEW a \in Nat, NEW b \in Nat, NEW c \in Nat, a + c = b + c
    PROVE  a = b
OBVIOUS

\* The writers, the board and the buffers do not touch the route.
LEMMA RouteLink ==
    ASSUME LinkBoth, Premise, Premise', Routed,
           \/ \E t \in Threads : Transmit(t)
           \/ BoardStep \/ ReadNothing
    PROVE  Routed'
<1>1. UNCHANGED answerVars
    BY DEF Transmit, BoardStep, ReadNothing
<1>2. InFlight' = InFlight /\ uartQueue' = uartQueue
    BY FlightMoves DEF Transmit, BoardStep, ReadNothing, LinkBoth, Link, Premise
<1>3. Outstanding \in Nat /\ Outstanding' \in Nat /\ lost \in Nat /\ lost' \in Nat
    BY CountTypes, CountTypesNext DEF LinkBoth, Link, CountsAreNat
<1>4. Outstanding' = Outstanding
    <2>1. QueueAccounts /\ QueueAccounts' /\ lost' = lost
        BY DEF LinkBoth, Link, Premise
    <2>2. Outstanding + lost = Outstanding' + lost
        BY <1>2, <2>1 DEF QueueAccounts
    <2>3. QED
        BY <1>3, <2>2, SumCancels
<1>5. AnswersIn(events)' = AnswersIn(events)
    BY <1>1 DEF answerVars, AnswersIn
<1>6. QED
    BY <1>1, <1>2, <1>4, <1>5 DEF Routed, answerVars

\* The console sets the flag when all is dealt with, so the flag says what the
\* next answer is for.
LEMMA RouteAnnounce ==
    ASSUME LinkBoth, Premise, Premise', Routed, NEW c \in Commands, SetCliFlag(c)
    PROVE  Routed'
<1>1. /\ Outstanding = 0 /\ events = <<>> /\ handler # "answering"
      /\ UNCHANGED <<events, handler, linkVars>> /\ isCliRq' /\ cliRq' # "none"
    BY DEF SetCliFlag, Premise, AllDealtWith
<1>2. InFlight = {} /\ InFlight' = {} /\ Outstanding' = 0
    BY <1>1, NothingInFlight DEF LinkBoth, Link, linkVars, InFlight, Outstanding, Sending, ReplySet,
       RepliesIn, Replies
<1>3. AnswersIn(events)' = {}
    BY <1>1 DEF AnswersIn
<1>4. QED
    BY <1>1, <1>2, <1>3 DEF Routed

\* A request that is pushed when all is dealt with is the one in flight.
LEMMA RoutePush ==
    ASSUME LinkBoth, Premise, Premise', Routed,
           NEW t \in Threads, NEW c \in Commands, Push(t, c)
    PROVE  Routed'
<1>1. /\ Outstanding = 0 /\ events = <<>> /\ handler # "answering"
      /\ UNCHANGED <<isCliRq, events, handler, tx, rx, held>> /\ cliRq' = "none"
      /\ t # Cli => cliRq = "none"
      /\ t = Cli => cliRq = (IF c = "shutdown" THEN "none" ELSE c)
      /\ c \in Requests(t)
    BY DEF Push, Enqueue, Premise, AllDealtWith, readerVars
<1>2. InFlight = {} /\ AnswersIn(events) = {} /\ AnswersIn(events)' = {}
    BY <1>1, NothingInFlight DEF LinkBoth, Link, AnswersIn
<1>3. InFlight' = {[text |-> c, by |-> t]}
    <2>1. Sending = {}
        BY <1>2 DEF InFlight
    <2>2. Sending' = {t} /\ cmd'[t] = c
        <3>1. LinkTypeOK /\ pc' = [pc EXCEPT ![t] = "queued"] /\ cmd' = [cmd EXCEPT ![t] = c]
            BY DEF Push, Enqueue, LinkBoth, Link
        <3>2. QED
            BY <2>1, <3>1 DEF Sending, LinkTypeOK
    <2>3. {[text |-> cmd'[u], by |-> u] : u \in Sending'} = {[text |-> c, by |-> t]}
        BY <2>2
    <2>4. QED
        BY <1>1, <1>2, <2>3 DEF InFlight, ReplySet, RepliesIn
<1>4. ASSUME c \in Printed PROVE isCliRq <=> t = Cli
    BY <1>1, <1>2, <1>4 DEF Routed, Printed, LinkBoth, AnswerTypeOK
<1>5. ASSUME isCliRq PROVE c \in Printed
    <2>1. cliRq # "none"
        BY <1>2, <1>5 DEF Routed
    <2>2. t = Cli /\ c = cliRq
        BY <1>1, <2>1
    <2>3. QED
        BY <2>1, <2>2 DEF LinkBoth, AnswerTypeOK, Printed
<1>6. QED
    BY <1>1, <1>2, <1>3, <1>4, <1>5 DEF Routed

\* A message nobody asked for is handed on beside the answers.
LEMMA RouteUnasked ==
    ASSUME LinkBoth, Premise, Premise', Routed,
           NEW m \in Messages \cup {NoMessage}, Deliver(m), ReadUnasked(m)
    PROVE  Routed'
<1>1. UNCHANGED <<isCliRq, cliRq, handler>>
    BY DEF Deliver
<1>2. InFlight' = InFlight /\ uartQueue' = uartQueue
    BY FlightMoves DEF LinkBoth, Link, Premise
<1>3. Outstanding \in Nat /\ Outstanding' \in Nat /\ lost \in Nat
    BY CountTypes, CountTypesNext DEF LinkBoth, Link, CountsAreNat
<1>4. Outstanding' = Outstanding
    <2>1. QueueAccounts /\ QueueAccounts' /\ lost' = lost
        BY DEF LinkBoth, Link, Premise
    <2>2. Outstanding + lost = Outstanding' + lost
        BY <1>2, <2>1 DEF QueueAccounts
    <2>3. QED
        BY <1>3, <2>2, SumCancels
<1>5. /\ AnswersIn(events)' = AnswersIn(events)
      /\ \A i \in AnswersIn(events) : events'[i] = events[i]
      /\ handler = "answering" => Head(events') = Head(events)
    <2>1. CASE m = NoMessage
        BY <2>1 DEF Deliver, AnswersIn
    <2>2. CASE m # NoMessage
        <3> DEFINE e == [msg |-> m, by |-> Head(held).by]
        <3>1. events' = Append(events, e)
            BY <2>2 DEF Deliver, Premise
        <3>2. held # <<>> /\ held \in Seq(Lines) /\ m \notin Printed
            BY DEF ReadUnasked, LinkBoth, Link, LinkTypeOK, Printed, NoMessage
        <3>3. Head(held) \in Lines
            BY <3>2, EndTypes
        <3>4. e \in Events /\ e.msg \notin Printed
            BY <2>2, <3>2, <3>3 DEF Events, Lines
        <3> HIDE DEF e
        <3>5. /\ AnswersIn(Append(events, e)) = AnswersIn(events)
              /\ \A i \in AnswersIn(events) : Append(events, e)[i] = events[i]
            BY <3>4, AnswersAppend DEF LinkBoth, AnswerTypeOK
        <3>6. handler = "answering" => Head(Append(events, e)) = Head(events)
            BY <3>4, HeadTailAppend DEF LinkBoth, AnswerTypeOK
        <3>7. QED
            BY <3>1, <3>5, <3>6 DEF AnswersIn
    <2>3. QED
        BY <2>1, <2>2
<1>6. QED
    BY <1>1, <1>2, <1>4, <1>5 DEF Routed

\* The reply to the one request in flight becomes the one answer.
LEMMA RouteReply ==
    ASSUME LinkBoth, Premise, Premise', lone, Routed,
           NEW m \in Messages \cup {NoMessage}, Deliver(m), ReadReply(m)
    PROVE  Routed'
<1> DEFINE r == Head(held)
           e == [msg |-> m, by |-> r.by]
<1>1. /\ held # <<>> /\ held \in Seq(Lines) /\ IsReply(r) /\ r \in Lines
      /\ UNCHANGED <<isCliRq, cliRq, handler>>
    <2>1. held # <<>> /\ held \in Seq(Lines) /\ IsReply(r)
        BY DEF ReadReply, LinkBoth, Link, LinkTypeOK
    <2>2. QED
        BY <2>1, EndTypes DEF Deliver
<1>2. r \in InFlight
    BY <1>1, ReplySetTail DEF InFlight
<1>3. uartQueue # <<>> /\ Pop(uartQueue).command = r.text
    BY <1>1 DEF LinkBoth, Link, NoUnderflow, LoneRequestMatched
<1>4. m = r.text /\ m # NoMessage
    <2>1. m \in Decoded(r.text, r.text)
        BY <1>3 DEF ReadReply
    <2>2. r.text \in {"hbt", "fw", "status", "shutdown"}
        BY <1>1 DEF IsReply, Commands
    <2>3. QED
        BY <2>1, <2>2 DEF Decoded, NoMessage
<1>5. /\ Outstanding \in Nat /\ lost \in Nat /\ lost = 0 /\ Outstanding + lost = Len(uartQueue)
      /\ Outstanding' \in Nat /\ lost' \in Nat /\ lost' = 0 /\ Outstanding' + lost' = Len(uartQueue')
    BY CountTypes, CountTypesNext DEF LinkBoth, Link, QueueAccounts, CountsAreNat, Premise
<1>6. Outstanding # 0
    <2>1. r.text \in OutstandingTexts
        BY <1>2, FlightTexts DEF LinkBoth, Link
    <2>2. QED
        BY <2>1, NothingOutstanding DEF LinkBoth, Link
<1>7. Outstanding = 1 /\ \A q \in InFlight : q.text = r.text
    BY <1>3, <1>6, FlightTexts DEF LinkBoth, Link, LoneInv
<1>8. Outstanding' = 0
    <2>1. Len(uartQueue') = Len(uartQueue) - 1
        BY <1>3, EndTypes DEF ReadReply, LinkBoth, Link, LinkTypeOK
    <2>2. QED
        BY <1>5, <1>7, <2>1
<1>9. InFlight' = {}
    BY <1>8, NothingInFlightNext DEF LinkBoth, Link, EmptyFlight
<1>10. AnswersIn(events) = {} /\ cliRq = "none" /\ handler # "answering"
    <2>1. AnswersIn(events) = {} /\ cliRq = "none"
        BY <1>6 DEF Routed
    <2>2. handler = "answering" => 1 \in AnswersIn(events)
        BY AnswersTail DEF Routed, LinkBoth, AnswerTypeOK
    <2>3. QED
        BY <2>1, <2>2
<1>11. events' = Append(events, e) /\ e \in Events
    BY <1>1, <1>4 DEF Deliver, Premise, Events, Lines
<1>12. e.msg = r.text /\ e.by = r.by
    BY <1>4
<1>13. r.text \in Printed => (isCliRq <=> r.by = Cli)
    BY <1>2 DEF Routed
<1>14. isCliRq => r.text \in Printed
    BY <1>7, <1>10 DEF Routed
<1> HIDE DEF e, r
<1>15. /\ AnswersIn(events)' = IF r.text \in Printed THEN {Len(events) + 1} ELSE {}
       /\ events'[Len(events) + 1].by = r.by
    <2>1. /\ AnswersIn(Append(events, e)) = IF r.text \in Printed THEN {Len(events) + 1} ELSE {}
          /\ Append(events, e)[Len(events) + 1] = e
        BY <1>10, <1>11, <1>12, AnswersAppend DEF LinkBoth, AnswerTypeOK
    <2>2. QED
        BY <1>11, <1>12, <2>1 DEF AnswersIn
<1>16. QED
    BY <1>1, <1>8, <1>9, <1>10, <1>13, <1>14, <1>15 DEF Routed

\* The handler: what it prints is the console's, and then the flag is clear.
LEMMA RouteHandle ==
    ASSUME LinkBoth, Premise, Premise', Routed, Handle
    PROVE  Routed'
<1> USE DEF Handling
<1>1. UNCHANGED <<linkVars, cliRq>> /\ events # <<>> /\ events \in Seq(Events)
    BY DEF Handle, TakeForCli, Answer, Forward, HandleOther, HandlerThrows, LinkBoth, AnswerTypeOK
<1>2. InFlight' = InFlight /\ Outstanding' = Outstanding
    BY <1>1 DEF linkVars, InFlight, Outstanding, Sending, ReplySet, RepliesIn, Replies
<1>3. /\ 1 \in AnswersIn(events) <=> Head(events).msg \in Printed
      /\ Head(events) = events[1]
    BY <1>1, AnswersTail
<1>4. CASE TakeForCli
    <2>1. AnswersIn(events)' = AnswersIn(events)
        BY <1>4 DEF TakeForCli, AnswersIn
    <2>2. QED
        BY <1>1, <1>2, <1>4, <2>1 DEF TakeForCli, Routed, Printed
<1>5. ASSUME events' = Tail(events), Head(events).msg \in Printed
      PROVE  AnswersIn(events)' = {} /\ cliRq = "none" /\ Outstanding = 0 /\ InFlight = {}
    <2>1. \A i \in AnswersIn(events) : i = 1
        BY <1>3, <1>5 DEF Routed
    <2>2. AnswersIn(Tail(events)) = {}
        BY <1>1, <2>1, AnswersTail
    <2>3. Outstanding = 0 /\ cliRq = "none"
        BY <1>3, <1>5 DEF Routed
    <2>4. InFlight = {}
        BY <2>3, NothingInFlight DEF LinkBoth, Link
    <2>5. QED
        BY <1>5, <2>2, <2>3, <2>4 DEF AnswersIn
<1>6. CASE Answer
    <2>1. events' = Tail(events) /\ Head(events).msg \in Printed /\ ~isCliRq' /\ handler' = "idle"
        BY <1>6 DEF Answer, Routed
    <2>2. QED
        BY <1>1, <1>2, <1>5, <2>1 DEF Routed
<1>7. CASE Forward
    <2>1. events' = Tail(events) /\ Head(events).msg \in Printed /\ ~isCliRq' /\ handler' = "idle"
        BY <1>7 DEF Forward, Printed
    <2>2. QED
        BY <1>1, <1>2, <1>5, <2>1 DEF Routed
<1>8. CASE HandleOther
    <2>1. /\ events' = Tail(events) /\ Head(events).msg \notin Printed /\ isCliRq' = isCliRq
          /\ handler' = "idle"
        BY <1>8 DEF HandleOther, Printed
    <2>2. /\ \A i \in AnswersIn(Tail(events)) :
                i + 1 \in AnswersIn(events) /\ Tail(events)[i] = events[i + 1] /\ i \in Nat
          /\ \A i \in AnswersIn(events) : i - 1 \in AnswersIn(Tail(events))
        BY <1>1, <1>3, <2>1, AnswersTail
    <2>3. AnswersIn(events)' = AnswersIn(Tail(events))
        BY <2>1 DEF AnswersIn
    <2>4. \A i, j \in AnswersIn(Tail(events)) : i = j
        <3>1. \A i, j \in AnswersIn(Tail(events)) : i + 1 = j + 1 /\ i \in Nat /\ j \in Nat
            BY <2>2 DEF Routed
        <3>2. QED
            BY <3>1
    <2>5. \A i \in AnswersIn(Tail(events)) : isCliRq <=> Tail(events)[i].by = Cli
        BY <2>2 DEF Routed
    <2>6. AnswersIn(events) = {} <=> AnswersIn(Tail(events)) = {}
        BY <2>2
    <2>7. QED
        BY <1>1, <1>2, <2>1, <2>3, <2>4, <2>5, <2>6 DEF Routed
<1>9. CASE HandlerThrows
    BY <1>9 DEF HandlerThrows, Premise
<1>10. QED
    BY <1>4, <1>6, <1>7, <1>8, <1>9 DEF Handle

\* The last push of a sequential run found nothing outstanding.
LEMMA LoneStep ==
    ASSUME sequential => lone, [Next]_vars, sequential'
    PROVE  lone'
<1>1. ASSUME NEW t \in Threads, NEW c \in Commands, Push(t, c) PROVE lone'
    BY <1>1 DEF Push, Enqueue, AllDealtWith
<1>2. ASSUME ~\E t \in Threads, c \in Commands : Push(t, c)
      PROVE  lone' = lone /\ (sequential' => sequential)
    BY <1>2 DEF Next, SetCliFlag, Transmit, Write, WriteFails, Flush, BoardStep, BoardReply,
                BoardSends, ReadNothing, Fill, ReadFails, Deliver, ReadLine, ReadUnasked, ReadReply,
                Handle, TakeForCli, Answer, Forward, HandleOther, HandlerThrows, vars, linkVars,
                answerVars, senderVars
<1>3. QED
    BY <1>1, <1>2

\* Whoever takes the next step keeps the route.
LEMMA RouteStep ==
    ASSUME LinkBoth, RouteInv, [Next]_vars
    PROVE  RouteInv'
<1>1. sequential' => lone'
    BY LoneStep DEF RouteInv
<1>2. ASSUME Premise' PROVE Routed'
    <2>1. Premise /\ Routed /\ lone
        BY <1>2, PremiseWas DEF RouteInv, LinkBoth, Link, Premise
    <2>2. CASE UNCHANGED vars
        BY <2>1, <2>2 DEF vars, linkVars, answerVars, Routed, AnswersIn, InFlight, Outstanding,
                          Sending, ReplySet, RepliesIn, Replies
    <2>3. ASSUME NEW m \in Messages \cup {NoMessage}, Deliver(m) PROVE Routed'
        BY <1>2, <2>1, <2>3, RouteUnasked, RouteReply DEF Deliver, ReadLine
    <2>4. QED
        BY <1>2, <2>1, <2>2, <2>3, RouteLink, RouteAnnounce, RoutePush, RouteHandle DEF Next
<1>3. QED
    BY <1>1, <1>2 DEF RouteInv

\* While every request waits until the one before it was dealt with and no
\* reply is lost, the flag set by the console decides right about every
\* answer: what the console asked for is printed there, what a phone asked
\* for is sent to it, whatever the board sends in between.
THEOREM SequentialAnswersAreRouted == Spec => []SequentialAnswersRouted
<1>1. Init => RouteInv
    <2> SUFFICES ASSUME Init PROVE RouteInv
        OBVIOUS
    <2>1. Sending = {} /\ DOMAIN tx = {} /\ ReplySet(rx) = {} /\ ReplySet(held) = {}
        BY DEF Init, LinkInit, Sending, ReplySet, RepliesIn
    <2>2. InFlight = {} /\ AnswersIn(events) = {}
        BY <2>1 DEF InFlight, Init, AnswersIn
    <2>3. QED
        BY <2>2 DEF Init, LinkInit, RouteInv, Routed
<1>2. Link /\ Link' /\ AnswerTypeOK /\ AnswerTypeOK' /\ RouteInv /\ [Next]_vars => RouteInv'
    BY RouteStep DEF LinkBoth
<1>3. Link /\ AnswerTypeOK /\ RouteInv => SequentialAnswersRouted
    <2> SUFFICES ASSUME AnswerTypeOK, RouteInv, sequential, lost = 0
                 PROVE  /\ Handling({"fw", "status"}) => (isCliRq <=> Head(events).by = Cli)
                        /\ handler = "answering" => Head(events).by = Cli
        BY DEF SequentialAnswersRouted
    <2>1. ASSUME handler = "answering" \/ Handling({"fw", "status"})
          PROVE  /\ isCliRq <=> Head(events).by = Cli
                 /\ handler = "answering" => isCliRq
        <3>1. Routed /\ events # <<>> /\ events \in Seq(Events)
            BY <2>1 DEF RouteInv, Premise, Handling, AnswerTypeOK
        <3>2. Head(events).msg \in Printed
            BY <2>1, <3>1 DEF Routed, Handling, Printed
        <3>3. 1 \in AnswersIn(events) /\ Head(events) = events[1]
            BY <3>1, <3>2, AnswersTail
        <3>4. QED
            BY <3>1, <3>3 DEF Routed
    <2>2. QED
        BY <2>1
<1>4. QED
    BY <1>1, <1>2, <1>3, LinkHolds, AnswerTypes, PTL DEF Spec

=============================================================================
