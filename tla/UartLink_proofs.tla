--------------------------- MODULE UartLink_proofs ---------------------------
(***************************************************************************)
(* Proofs about UartLink: the types, the account of uartQueue, and what    *)
(* follows from it for the reader.                                         *)
(***************************************************************************)
EXTENDS UartLink, FiniteSetTheorems, SequenceTheorems, FunctionTheorems, TLAPS

-----------------------------------------------------------------------------
(* Counting replies in a sequence of lines.                                *)

\* The replies in a sequence are finitely many, at most its length.
LEMMA RepliesType ==
    ASSUME NEW s \in Seq(Lines)
    PROVE  /\ RepliesIn(s) \subseteq 1 .. Len(s)
           /\ IsFiniteSet(RepliesIn(s))
           /\ Replies(s) \in Nat
<1>1. RepliesIn(s) \subseteq 1 .. Len(s) /\ Len(s) \in Nat
    BY LenProperties DEF RepliesIn
<1>2. IsFiniteSet(1 .. Len(s))
    BY <1>1, FS_Interval, SMT
<1>3. IsFiniteSet(RepliesIn(s))
    BY <1>1, <1>2, FS_Subset
<1>4. QED
    BY <1>1, <1>3, FS_CardinalityType DEF Replies

\* An empty buffer holds no reply.
LEMMA RepliesEmpty == Replies(<<>>) = 0
<1>1. RepliesIn(<<>>) = {}
    BY DEF RepliesIn
<1>2. QED
    BY <1>1, FS_EmptySet DEF Replies

\* Appending a line adds one reply exactly when the line is one.
LEMMA RepliesAppend ==
    ASSUME NEW s \in Seq(Lines), NEW e \in Lines
    PROVE  Replies(Append(s, e)) = Replies(s) + (IF IsReply(e) THEN 1 ELSE 0)
<1> DEFINE n == Len(s) + 1
<1>1. /\ Append(s, e) \in Seq(Lines)
      /\ Len(Append(s, e)) = n
      /\ \A i \in 1 .. Len(s) : Append(s, e)[i] = s[i]
      /\ Append(s, e)[n] = e
      /\ Len(s) \in Nat
    BY AppendProperties, LenProperties
<1>2. /\ DOMAIN s = 1 .. Len(s)
      /\ DOMAIN Append(s, e) = 1 .. n
    BY <1>1, LenProperties
<1>3. 1 .. n = (1 .. Len(s)) \cup {n} /\ n \notin 1 .. Len(s)
    BY <1>1
<1>4. RepliesIn(Append(s, e)) = IF IsReply(e) THEN RepliesIn(s) \cup {n} ELSE RepliesIn(s)
    BY <1>1, <1>2, <1>3 DEF RepliesIn
<1>5. n \notin RepliesIn(s)
    BY <1>2, <1>3 DEF RepliesIn
<1>6. IsFiniteSet(RepliesIn(s)) /\ Replies(s) \in Nat
    BY RepliesType
<1>7. Cardinality(RepliesIn(s) \cup {n}) = Cardinality(RepliesIn(s)) + 1
    BY <1>5, <1>6, FS_AddElement
<1>8. QED
    BY <1>4, <1>6, <1>7 DEF Replies

\* Taking the first line takes one reply exactly when that line is one.
LEMMA RepliesTail ==
    ASSUME NEW s \in Seq(Lines), s # <<>>
    PROVE  Replies(Tail(s)) = Replies(s) - (IF IsReply(Head(s)) THEN 1 ELSE 0)
<1> DEFINE R == RepliesIn(s) \ {1}
           T == RepliesIn(Tail(s))
           f == [i \in T |-> i + 1]
<1>1. /\ Tail(s) \in Seq(Lines)
      /\ Len(Tail(s)) = Len(s) - 1
      /\ \A i \in 1 .. Len(Tail(s)) : Tail(s)[i] = s[i + 1]
    BY HeadTailProperties
<1>2. /\ Len(s) \in Nat \ {0}
      /\ DOMAIN s = 1 .. Len(s)
      /\ DOMAIN Tail(s) = 1 .. (Len(s) - 1)
    BY <1>1, LenProperties, EmptySeq
<1>3. T \subseteq Nat /\ \A i \in T : i + 1 \in R
    BY <1>1, <1>2 DEF RepliesIn
<1>4. \A j \in R : j - 1 \in T
    BY <1>1, <1>2 DEF RepliesIn
<1>5. f \in Bijection(T, R)
    <2>1. f \in [T -> R]
        BY <1>3
    <2>2. \A a, b \in T : f[a] = f[b] => a = b
        BY <1>3
    <2>3. \A j \in R : j - 1 \in T /\ f[j - 1] = j
        <3>1. R \subseteq Int
            BY <1>2 DEF RepliesIn
        <3> QED
            BY <1>4, <3>1
    <2> QED
        BY <2>1, <2>2, <2>3 DEF Bijection, Injection, IsInjective, Surjection
<1>6. Cardinality(R) = Cardinality(T)
    <2>1. IsFiniteSet(T)
        BY <1>1, RepliesType
    <2>2. ExistsBijection(T, R)
        BY <1>5 DEF ExistsBijection
    <2> QED
        BY <2>1, <2>2, FS_Bijection
<1>7. 1 \in RepliesIn(s) <=> IsReply(Head(s))
    <2>1. Head(s) = s[1]
        BY <1>2
    <2> QED
        BY <1>2, <2>1 DEF RepliesIn
<1>8. IsFiniteSet(RepliesIn(s)) /\ Replies(s) \in Nat
    BY RepliesType
<1>9. Cardinality(R) = IF 1 \in RepliesIn(s) THEN Replies(s) - 1 ELSE Replies(s)
    BY <1>8, FS_RemoveElement DEF Replies
<1> QED
    BY <1>6, <1>7, <1>8, <1>9 DEF Replies

-----------------------------------------------------------------------------
(* Type correctness.                                                       *)

\* What a command and a reply are among the lines.
LEMMA RequestTypes ==
    ASSUME NEW t \in Threads, NEW c \in Requests(t)
    PROVE  c \in Commands
BY DEF Requests, Commands

\* What the board answers and what it sends unasked are lines.
LEMMA LineTypes ==
    /\ [text: Commands, by: Threads] \subseteq Lines
    /\ \A text \in Unasked : [text |-> text, by |-> Board] \in Lines
BY DEF Lines

\* The sequences of the link keep their types when their ends are taken.
LEMMA EndTypes ==
    ASSUME NEW S, NEW s \in Seq(S), s # <<>>
    PROVE  /\ Head(s) \in S
           /\ Tail(s) \in Seq(S)
           /\ Pop(s).command \in S
           /\ Pop(s).rest \in Seq(S)
           /\ Len(Pop(s).rest) = Len(s) - 1
           /\ Len(Tail(s)) = Len(s) - 1
<1>1. Len(s) \in Nat \ {0} /\ \A i \in 1 .. Len(s) : s[i] \in S
    BY EmptySeq, ElementOfSeq
<1>3. Front(s) \in Seq(S) /\ Len(Front(s)) = Len(s) - 1
    <2> DEFINE m == Len(s) - 1
    <2>1. m \in Nat /\ 1 \in Int /\ \A i \in 1 .. m : s[i] \in S
        BY <1>1
    <2> HIDE DEF m
    <2>2. /\ SubSeq(s, 1, m) \in Seq(S)
          /\ Len(SubSeq(s, 1, m)) = IF 1 <= m THEN m - 1 + 1 ELSE 0
        BY <2>1, SubSeqProperties
    <2>3. SubSeq(s, 1, m) = Front(s)
        BY DEF Front, m
    <2>4. Len(Front(s)) = m
        BY <2>1, <2>2, <2>3
    <2> QED
        BY <2>2, <2>3, <2>4 DEF m
<1>4. Last(s) \in S
    BY <1>1 DEF Last
<1> QED
    BY <1>1, <1>3, <1>4, HeadTailProperties DEF Pop

\* Every variable of the link keeps its type: the queue holds commands, the
\* buffers lines of the board.
LEMMA LinkTypeCorrect == LinkSpec => []LinkTypeOK
<1>1. LinkInit => LinkTypeOK
    <2>1. /\ <<>> \in Seq(Commands)
          /\ <<>> \in Seq([text: Commands, by: Threads])
          /\ <<>> \in Seq(Lines)
        BY EmptySeq
    <2>2. 0 \in Nat /\ FALSE \in BOOLEAN /\ TRUE \in BOOLEAN
        OBVIOUS
    <2> QED
        BY <2>1, <2>2 DEF LinkInit, LinkTypeOK
<1>2. LinkTypeOK /\ [LinkNext]_linkVars => LinkTypeOK'
    <2> SUFFICES ASSUME LinkTypeOK, [LinkNext]_linkVars
                 PROVE  LinkTypeOK'
        OBVIOUS
    <2> USE DEF LinkTypeOK, senderVars, readerVars
    <2>1. ASSUME NEW t \in Threads, NEW c \in Commands, Enqueue(t, c)
          PROVE  LinkTypeOK'
        <3>1. uartQueue' \in Seq(Commands)
            BY <2>1, AppendProperties DEF Enqueue
        <3> QED
            BY <2>1, <3>1 DEF Enqueue, Commands
    <2>2. ASSUME NEW t \in Threads, Write(t)
          PROVE  LinkTypeOK'
        <3>1. tx' \in Seq([text: Commands, by: Threads])
            <4>1. [text |-> cmd[t], by |-> t] \in [text: Commands, by: Threads]
                BY <2>2 DEF Write
            <4> QED
                BY <2>2, <4>1, AppendProperties DEF Write
        <3> QED
            BY <2>2, <3>1 DEF Write
    <2>3. ASSUME NEW t \in Threads, WriteFails(t)
          PROVE  LinkTypeOK'
        BY <2>3 DEF WriteFails
    <2>4. ASSUME NEW t \in Threads, Flush(t)
          PROVE  LinkTypeOK'
        <3>1. lost' \in Nat
            BY <2>4, RepliesType DEF Flush
        <3> QED
            BY <2>4, <3>1 DEF Flush
    <2>5. CASE BoardReply
        <3>1. tx' \in Seq([text: Commands, by: Threads])
            BY <2>5, EndTypes DEF BoardReply
        <3>2. rx' \in Seq(Lines) /\ lost' \in Nat
            <4>1. Head(tx) \in Lines
                <5>1. Head(tx) \in [text: Commands, by: Threads]
                    BY <2>5, EndTypes DEF BoardReply
                <5> QED
                    BY <5>1, LineTypes, Zenon
            <4>2. Append(rx, Head(tx)) \in Seq(Lines)
                BY <4>1, AppendProperties
            <4>3. (rx' = rx \/ rx' = Append(rx, Head(tx))) /\ (lost' = lost \/ lost' = lost + 1)
                BY <2>5 DEF BoardReply
            <4>4. rx' \in Seq(Lines)
                BY <4>2, <4>3, Zenon
            <4>5. lost' \in Nat
                <5>1. lost \in Nat
                    OBVIOUS
                <5> QED
                    BY <5>1, <4>3
            <4> QED
                BY <4>4, <4>5
        <3> QED
            BY <2>5, <3>1, <3>2 DEF BoardReply
    <2>6. ASSUME NEW text \in Unasked, BoardSends(text)
          PROVE  LinkTypeOK'
        <3>1. rx' \in Seq(Lines)
            BY <2>6, LineTypes, AppendProperties DEF BoardSends
        <3> QED
            BY <2>6, <3>1 DEF BoardSends
    <2>7. CASE Fill
        BY <2>7 DEF Fill
    <2>8. CASE ReadFails
        <3>1. held' \in Seq(Lines)
            BY <2>8, EndTypes DEF ReadFails
        <3> QED
            BY <2>8, <3>1 DEF ReadFails
    <2>9. ASSUME NEW m, ReadUnasked(m)
          PROVE  LinkTypeOK'
        <3>1. held' \in Seq(Lines)
            BY <2>9, EndTypes DEF ReadUnasked
        <3> QED
            BY <2>9, <3>1 DEF ReadUnasked
    <2>10. ASSUME NEW m, ReadReply(m)
           PROVE  LinkTypeOK'
        <3>1. held' \in Seq(Lines) /\ uartQueue' \in Seq(Commands)
            BY <2>10, EndTypes DEF ReadReply
        <3> QED
            BY <2>10, <3>1 DEF ReadReply
    <2>11. CASE UNCHANGED linkVars
        BY <2>11 DEF linkVars
    <2> QED
        BY <2>1, <2>2, <2>3, <2>4, <2>5, <2>6, <2>7, <2>8, <2>9, <2>10, <2>11
        DEF LinkNext, Send, Read, ReadLine
<1>3. QED
    BY <1>1, <1>2, PTL DEF LinkSpec

-----------------------------------------------------------------------------
(* The account of uartQueue.                                               *)

\* There are finitely many senders.
LEMMA SendersFinite ==
    /\ IsFiniteSet(Threads)
    /\ IsFiniteSet(Sending)
    /\ Cardinality(Sending) \in Nat
<1>1. IsFiniteSet(Bt \cup {Heartbeat})
    BY FS_AddElement, ThreadsAssumption
<1>2. IsFiniteSet(Threads)
    <2>1. IsFiniteSet((Bt \cup {Heartbeat}) \cup {Cli})
        BY <1>1, FS_AddElement
    <2>2. Threads = (Bt \cup {Heartbeat}) \cup {Cli}
        BY DEF Threads
    <2> QED
        BY <2>1, <2>2
<1>3. Sending \subseteq Threads
    BY DEF Sending
<1> QED
    BY <1>2, <1>3, FS_Subset, FS_CardinalityType

\* A thread that pushes becomes one of those about to write.
LEMMA SendingJoins ==
    ASSUME LinkTypeOK, NEW t \in Threads,
           pc[t] # "queued", pc' = [pc EXCEPT ![t] = "queued"]
    PROVE  Cardinality(Sending') = Cardinality(Sending) + 1
<1>1. Sending' = Sending \cup {t} /\ t \notin Sending
    BY DEF Sending, LinkTypeOK
<1>2. Cardinality(Sending \cup {t}) = Cardinality(Sending) + 1
    BY <1>1, SendersFinite, FS_AddElement
<1> QED
    BY <1>1, <1>2

\* A thread that writes, or fails to, leaves them.
LEMMA SendingLeaves ==
    ASSUME LinkTypeOK, NEW t \in Threads, NEW p, p # "queued",
           pc[t] = "queued", pc' = [pc EXCEPT ![t] = p]
    PROVE  Cardinality(Sending') = Cardinality(Sending) - 1
<1>1. Sending' = Sending \ {t} /\ t \in Sending
    BY DEF Sending, LinkTypeOK
<1>2. Cardinality(Sending \ {t}) = Cardinality(Sending) - 1
    BY <1>1, SendersFinite, FS_RemoveElement
<1> QED
    BY <1>1, <1>2

\* The account is about counts: this is their arithmetic type.
LEMMA CountTypes ==
    ASSUME LinkTypeOK
    PROVE  /\ Len(uartQueue) \in Nat /\ Len(tx) \in Nat
           /\ Replies(rx) \in Nat /\ Replies(held) \in Nat
           /\ Cardinality(Sending) \in Nat /\ lost \in Nat
           /\ Outstanding \in Nat
<1>1. /\ Len(uartQueue) \in Nat /\ Len(tx) \in Nat /\ lost \in Nat
      /\ Replies(rx) \in Nat /\ Replies(held) \in Nat
    BY LenProperties, RepliesType DEF LinkTypeOK
<1> QED
    BY <1>1, SendersFinite DEF Outstanding

\* A command on its way to the board is a reply once it comes back.
LEMMA CommandsAreReplies ==
    \A c \in [text: Commands, by: Threads] : IsReply(c)
BY DEF IsReply

\* What each step of the link leaves in the account; the cases that change
\* it are the push, the loss and the reading of a reply.
THEOREM QueueIsAccounted == LinkSpec => []QueueAccounts
<1>1. LinkInit => QueueAccounts
    <2> SUFFICES ASSUME LinkInit
                 PROVE  QueueAccounts
        OBVIOUS
    <2>1. Sending = {}
        BY DEF LinkInit, Sending
    <2>2. Cardinality(Sending) = 0
        BY <2>1, FS_EmptySet
    <2>3. Len(uartQueue) = 0 /\ Len(tx) = 0
        BY EmptySeq DEF LinkInit
    <2>4. Replies(rx) = 0 /\ Replies(held) = 0 /\ lost = 0
        BY RepliesEmpty DEF LinkInit
    <2> QED
        BY <2>2, <2>3, <2>4 DEF QueueAccounts, Outstanding
<1>2. LinkTypeOK /\ QueueAccounts /\ [LinkNext]_linkVars => QueueAccounts'
    <2> SUFFICES ASSUME LinkTypeOK, QueueAccounts, [LinkNext]_linkVars
                 PROVE  QueueAccounts'
        OBVIOUS
    <2>0. /\ Len(uartQueue) \in Nat /\ Len(tx) \in Nat
          /\ Replies(rx) \in Nat /\ Replies(held) \in Nat
          /\ Cardinality(Sending) \in Nat /\ lost \in Nat
        BY CountTypes
    <2> USE DEF QueueAccounts, Outstanding, senderVars, readerVars
    <2>1. ASSUME NEW t \in Threads, NEW c \in Commands, Enqueue(t, c)
          PROVE  QueueAccounts'
        <3>1. Len(uartQueue') = Len(uartQueue) + 1
            BY <2>0, <2>1, AppendProperties DEF Enqueue, LinkTypeOK
        <3>2. Cardinality(Sending') = Cardinality(Sending) + 1
            BY <2>1, SendingJoins DEF Enqueue
        <3> QED
            BY <2>0, <2>1, <3>1, <3>2 DEF Enqueue
    <2>2. ASSUME NEW t \in Threads, Write(t)
          PROVE  QueueAccounts'
        <3>1. [text |-> cmd[t], by |-> t] \in [text: Commands, by: Threads]
            BY <2>2 DEF Write, LinkTypeOK
        <3>2. Len(tx') = Len(tx) + 1
            BY <2>2, <3>1, AppendProperties DEF Write, LinkTypeOK
        <3>3. Cardinality(Sending') = Cardinality(Sending) - 1
            <4>1. pc' = [pc EXCEPT ![t] = "written"] /\ pc[t] = "queued"
                BY <2>2 DEF Write
            <4> QED
                BY <4>1, SendingLeaves
        <3> QED
            BY <2>0, <2>2, <3>2, <3>3 DEF Write
    <2>3. ASSUME NEW t \in Threads, WriteFails(t)
          PROVE  QueueAccounts'
        <3> DEFINE p == IF t \in Bt THEN "dead" ELSE "idle"
        <3>1. pc' = [pc EXCEPT ![t] = p] /\ p # "queued" /\ pc[t] = "queued"
            BY <2>3 DEF WriteFails
        <3> HIDE DEF p
        <3>2. Cardinality(Sending') = Cardinality(Sending) - 1
            BY <3>1, SendingLeaves
        <3> QED
            BY <2>0, <2>3, <3>2 DEF WriteFails
    <2>4. ASSUME NEW t \in Threads, Flush(t)
          PROVE  QueueAccounts'
        <3>1. Sending' = Sending
            BY <2>4 DEF Flush, Sending, LinkTypeOK
        <3>2. Replies(rx') = 0
            BY <2>4, RepliesEmpty DEF Flush
        <3> QED
            BY <2>0, <2>4, <3>1, <3>2 DEF Flush
    <2>5. CASE BoardReply
        <3>1. /\ Len(tx') = Len(tx) - 1
              /\ Head(tx) \in [text: Commands, by: Threads]
            BY <2>5, EndTypes DEF BoardReply, LinkTypeOK
        <3>2. Head(tx) \in Lines /\ IsReply(Head(tx))
            BY <3>1, LineTypes, CommandsAreReplies, Zenon
        <3>3. Sending' = Sending
            BY <2>5 DEF BoardReply, Sending
        <3>4. Replies(Append(rx, Head(tx))) = Replies(rx) + 1
            BY <3>2, RepliesAppend DEF LinkTypeOK
        <3>5. UNCHANGED <<uartQueue, held>>
            BY <2>5 DEF BoardReply
        <3>6. \/ rx' = Append(rx, Head(tx)) /\ lost' = lost
              \/ rx' = rx /\ lost' = lost + 1
            BY <2>5 DEF BoardReply
        <3>7. /\ Replies(held') = Replies(held)
              /\ Len(uartQueue') = Len(uartQueue)
              /\ Cardinality(Sending') = Cardinality(Sending)
              /\ Len(tx') = Len(tx) - 1
            BY <3>1, <3>3, <3>5
        <3>8. CASE Replies(rx') = Replies(rx) /\ lost' = lost + 1
            <4>1. Replies(rx') \in Nat /\ lost' \in Nat /\ Len(tx') \in Int
                BY <2>0, <3>7, <3>8
            <4> QED
                BY <2>0, <3>7, <3>8, <4>1, SMTT(30)
        <3>9. CASE Replies(rx') = Replies(rx) + 1 /\ lost' = lost
            BY <2>0, <3>7, <3>9
        <3> QED
            BY <3>4, <3>6, <3>8, <3>9
    <2>6. ASSUME NEW text \in Unasked, BoardSends(text)
          PROVE  QueueAccounts'
        <3>1. Replies(rx') = Replies(rx)
            <4> DEFINE e == [text |-> text, by |-> Board]
            <4>1. e \in Lines
                BY LineTypes
            <4>2. ~IsReply(e)
                BY UnaskedAssumption DEF IsReply, Commands
            <4> HIDE DEF e
            <4>3. Replies(Append(rx, e)) = Replies(rx)
                BY <2>0, <4>1, <4>2, RepliesAppend DEF LinkTypeOK
            <4> QED
                BY <2>6, <4>3 DEF BoardSends, e
        <3> QED
            BY <2>0, <2>6, <3>1 DEF BoardSends, Sending
    <2>7. CASE Fill
        <3>1. Replies(held) = 0 /\ Replies(rx') = 0 /\ Replies(held') = Replies(rx)
            BY <2>7, RepliesEmpty DEF Fill
        <3> QED
            BY <2>0, <2>7, <3>1 DEF Fill, Sending
    <2>8. CASE ReadFails
        <3>1. ~IsReply(Head(held))
            BY <2>8 DEF ReadFails, IsReply, Commands
        <3>2. Replies(held') = Replies(held)
            BY <2>0, <2>8, <3>1, RepliesTail DEF ReadFails, LinkTypeOK
        <3> QED
            BY <2>0, <2>8, <3>2 DEF ReadFails, Sending
    <2>9. ASSUME NEW m, ReadUnasked(m)
          PROVE  QueueAccounts'
        <3>1. ~IsReply(Head(held))
            BY <2>9 DEF ReadUnasked, IsReply, Commands
        <3>2. Replies(held') = Replies(held)
            BY <2>0, <2>9, <3>1, RepliesTail DEF ReadUnasked, LinkTypeOK
        <3> QED
            BY <2>0, <2>9, <3>2 DEF ReadUnasked, Sending
    <2>10. ASSUME NEW m, ReadReply(m)
           PROVE  QueueAccounts'
        <3>1. Replies(held') = Replies(held) - 1
            BY <2>10, RepliesTail DEF ReadReply, LinkTypeOK
        <3>2. Replies(held') \in Nat
            BY <2>10, EndTypes, RepliesType DEF ReadReply, LinkTypeOK
        <3>3. uartQueue # <<>>
            <4> SUFFICES ASSUME uartQueue = <<>>
                         PROVE  FALSE
                OBVIOUS
            <4>1. Len(uartQueue) = 0
                BY EmptySeq
            <4> QED
                BY <2>0, <4>1, <3>1, <3>2
        <3>4. Len(uartQueue') = Len(uartQueue) - 1
            BY <2>10, <3>3, EndTypes DEF ReadReply, LinkTypeOK
        <3> QED
            BY <2>0, <2>10, <3>1, <3>4 DEF ReadReply, Sending
    <2>11. CASE UNCHANGED linkVars
        BY <2>11 DEF linkVars, Sending
    <2> QED
        BY <2>1, <2>2, <2>3, <2>4, <2>5, <2>6, <2>7, <2>8, <2>9, <2>10, <2>11
        DEF LinkNext, Send, Read, ReadLine
<1>3. QED
    BY <1>1, <1>2, LinkTypeCorrect, PTL DEF LinkSpec

\* A reply that is read always finds a command to pop: the count of entries
\* is never below the count of replies that can still arrive.
THEOREM QueueNeverUnderflows == LinkSpec => []NoUnderflow
<1>1. LinkTypeOK /\ QueueAccounts => NoUnderflow
    <2> SUFFICES ASSUME LinkTypeOK, QueueAccounts, held # <<>>, IsReply(Head(held)),
                        uartQueue = <<>>
                 PROVE  FALSE
        BY DEF NoUnderflow
    <2>1. Replies(Tail(held)) = Replies(held) - 1 /\ Replies(Tail(held)) \in Nat
        BY RepliesTail, EndTypes, RepliesType DEF LinkTypeOK
    <2>2. Len(uartQueue) = 0
        BY EmptySeq
    <2> QED
        BY <2>1, <2>2, CountTypes DEF QueueAccounts, Outstanding
<1>2. QED
    BY <1>1, LinkTypeCorrect, QueueIsAccounted, PTL

-----------------------------------------------------------------------------
(* A lone request is matched.                                              *)

\* Appending a line adds at most its text to the replies.
LEMMA TextsAppend ==
    ASSUME NEW s \in Seq(Lines), NEW e \in Lines
    PROVE  /\ IsReply(e) => Texts(Append(s, e)) \subseteq Texts(s) \cup {e.text}
           /\ ~IsReply(e) => Texts(Append(s, e)) \subseteq Texts(s)
<1>1. /\ DOMAIN s = 1 .. Len(s) /\ Len(s) \in Nat
      /\ DOMAIN Append(s, e) = 1 .. Len(s) + 1
      /\ \A i \in 1 .. Len(s) : Append(s, e)[i] = s[i]
      /\ Append(s, e)[Len(s) + 1] = e
    BY AppendProperties, LenProperties
<1>2. \A i \in RepliesIn(Append(s, e)) :
          \/ i \in RepliesIn(s) /\ Append(s, e)[i] = s[i]
          \/ IsReply(e) /\ Append(s, e)[i] = e
    BY <1>1 DEF RepliesIn
<1> QED
    BY <1>2 DEF Texts

\* Taking the first line adds no text; a first reply is among the replies.
LEMMA TextsTail ==
    ASSUME NEW s \in Seq(Lines), s # <<>>
    PROVE  /\ Texts(Tail(s)) \subseteq Texts(s)
           /\ IsReply(Head(s)) => Head(s).text \in Texts(s)
<1>1. /\ DOMAIN s = 1 .. Len(s) /\ Len(s) \in Nat \ {0}
      /\ DOMAIN Tail(s) = 1 .. (Len(s) - 1)
      /\ \A i \in 1 .. (Len(s) - 1) : Tail(s)[i] = s[i + 1]
      /\ Head(s) = s[1]
    BY HeadTailProperties, LenProperties, EmptySeq
<1>2. \A i \in RepliesIn(Tail(s)) : i + 1 \in RepliesIn(s) /\ Tail(s)[i] = s[i + 1]
    BY <1>1 DEF RepliesIn
<1>3. IsReply(Head(s)) => 1 \in RepliesIn(s)
    BY <1>1 DEF RepliesIn
<1>4. Texts(Tail(s)) \subseteq Texts(s)
    BY <1>2 DEF Texts
<1>5. IsReply(Head(s)) => s[1].text \in Texts(s)
    BY <1>3 DEF Texts
<1> QED
    BY <1>1, <1>4, <1>5

\* Where no reply is, there is no text of one.
LEMMA TextsNone ==
    ASSUME NEW s \in Seq(Lines), Replies(s) = 0
    PROVE  Texts(s) = {}
<1>1. RepliesIn(s) = {}
    BY RepliesType, FS_EmptySet DEF Replies
<1> QED
    BY <1>1 DEF Texts

\* An empty buffer holds no text.
LEMMA TextsEmpty == Texts(<<>>) = {}
BY DEF Texts, RepliesIn

\* With nothing outstanding there is no text outstanding.
LEMMA NothingOutstanding ==
    ASSUME LinkTypeOK, Outstanding = 0
    PROVE  OutstandingTexts = {}
<1>1. /\ Cardinality(Sending) = 0 /\ Len(tx) = 0
      /\ Replies(rx) = 0 /\ Replies(held) = 0
    BY CountTypes DEF Outstanding
<1>2. Sending = {}
    BY <1>1, SendersFinite, FS_EmptySet
<1>3. DOMAIN tx = {}
    BY <1>1, LenProperties DEF LinkTypeOK
<1>4. Texts(rx) = {} /\ Texts(held) = {}
    BY <1>1, TextsNone DEF LinkTypeOK
<1> QED
    BY <1>2, <1>3, <1>4 DEF OutstandingTexts

\* CountTypes, to be used of the next state.
CountsAreNat == Outstanding \in Nat /\ lost \in Nat /\ Len(uartQueue) \in Nat

\* The counts are numbers after a step, too.
LEMMA CountTypesNext == LinkTypeOK' => CountsAreNat'
<1>1. LinkTypeOK => CountsAreNat
    BY CountTypes DEF CountsAreNat
<1> QED
    BY <1>1, PTL

\* A step that pushes and pops nothing keeps the invariant if it adds
\* nothing to what is outstanding.
LEMMA LoneKept ==
    ASSUME LinkTypeOK, LinkTypeOK', QueueAccounts, QueueAccounts', LoneInv,
           UNCHANGED <<lone, uartQueue>>, lost' >= lost,
           OutstandingTexts' \subseteq OutstandingTexts
    PROVE  LoneInv'
<1>1. Outstanding \in Nat /\ lost \in Nat /\ Outstanding + lost = Len(uartQueue)
    BY CountTypes DEF QueueAccounts
<1>2. Outstanding' \in Nat /\ lost' \in Nat /\ Outstanding' + lost' = Len(uartQueue)
    BY CountTypesNext DEF QueueAccounts, CountsAreNat
<1>3. Outstanding' <= Outstanding
    BY <1>1, <1>2
<1>4. CASE lone /\ Outstanding # 0
    BY <1>1, <1>2, <1>3, <1>4 DEF LoneInv
<1>5. CASE ~(lone /\ Outstanding # 0)
    BY <1>1, <1>2, <1>3, <1>5 DEF LoneInv
<1> QED
    BY <1>4, <1>5

\* The inductive invariant behind LoneRequestMatched.  Only the push and the
\* pop change what "last" means; every other step moves or drops text.
THEOREM LoneInvariant == LinkSpec => []LoneInv
<1>1. LinkInit => LoneInv
    <2> SUFFICES ASSUME LinkInit
                 PROVE  Outstanding = 0
        BY DEF LoneInv
    <2>1. Sending = {}
        BY DEF LinkInit, Sending
    <2>2. Cardinality(Sending) = 0
        BY <2>1, FS_EmptySet
    <2>3. Len(tx) = 0
        BY EmptySeq DEF LinkInit
    <2>4. Replies(rx) = 0 /\ Replies(held) = 0
        BY RepliesEmpty DEF LinkInit
    <2> QED
        BY <2>2, <2>3, <2>4 DEF Outstanding
<1>2. /\ LinkTypeOK /\ QueueAccounts /\ LoneInv /\ [LinkNext]_linkVars
      /\ LinkTypeOK' /\ QueueAccounts'
      => LoneInv'
    <2> SUFFICES ASSUME LinkTypeOK, QueueAccounts, LoneInv, [LinkNext]_linkVars,
                        LinkTypeOK', QueueAccounts'
                 PROVE  LoneInv'
        OBVIOUS
    <2> USE DEF senderVars, readerVars
    <2>0. /\ lost \in Nat /\ Outstanding \in Nat /\ Outstanding + lost = Len(uartQueue)
          /\ lost' \in Nat /\ Outstanding' \in Nat /\ Outstanding' + lost' = Len(uartQueue')
        BY CountTypes, CountTypesNext DEF QueueAccounts, CountsAreNat
    <2>1. ASSUME NEW t \in Threads, NEW c \in Commands, Enqueue(t, c)
          PROVE  LoneInv'
        <3> SUFFICES ASSUME lone'
                     PROVE  Outstanding' = 1 /\ OutstandingTexts' \subseteq {Pop(uartQueue').command}
            BY DEF LoneInv
        <3>1. Outstanding = 0
            BY <2>1 DEF Enqueue
        <3>2. /\ Len(uartQueue') = Len(uartQueue) + 1
              /\ Pop(uartQueue').command = c
            <4>1. /\ Len(Append(uartQueue, c)) = Len(uartQueue) + 1
                  /\ Append(uartQueue, c)[Len(uartQueue) + 1] = c
                BY AppendProperties DEF LinkTypeOK
            <4> QED
                BY <2>1, <4>1 DEF Enqueue, Pop, Last
        <3>3. Outstanding' = 1
            BY <2>0, <2>1, <3>1, <3>2 DEF Enqueue
        <3>4. Sending = {} /\ {tx[i].text : i \in DOMAIN tx} = {} /\ Texts(rx) = {} /\ Texts(held) = {}
            BY <3>1, NothingOutstanding DEF OutstandingTexts
        <3>5. Sending' = {t} /\ cmd'[t] = c
            BY <2>1, <3>4 DEF Enqueue, Sending, LinkTypeOK
        <3>6. OutstandingTexts' = {cmd'[u] : u \in Sending'}
            BY <2>1, <3>4 DEF Enqueue, OutstandingTexts, Texts, RepliesIn
        <3> QED
            BY <3>2, <3>3, <3>5, <3>6
    <2>2. ASSUME NEW t \in Threads, Write(t)
          PROVE  LoneInv'
        <3> DEFINE e == [text |-> cmd[t], by |-> t]
        <3>1. e \in [text: Commands, by: Threads]
            BY <2>2 DEF Write, LinkTypeOK
        <3>2. t \in Sending /\ Sending' = Sending \ {t} /\ \A u \in Sending' : cmd'[u] = cmd[u]
            BY <2>2 DEF Write, LinkTypeOK, Sending
        <3>3. \A i \in DOMAIN tx' : tx'[i].text = cmd[t] \/ (i \in DOMAIN tx /\ tx'[i] = tx[i])
            <4>1. tx' = Append(tx, e)
                BY <2>2 DEF Write
            <4>2. /\ DOMAIN tx = 1 .. Len(tx) /\ Len(tx) \in Nat
                  /\ DOMAIN tx' = 1 .. Len(tx) + 1
                  /\ \A i \in 1 .. Len(tx) : tx'[i] = tx[i]
                  /\ tx'[Len(tx) + 1] = e
                <5> HIDE DEF e
                <5> QED
                    BY <3>1, <4>1, AppendProperties, LenProperties DEF LinkTypeOK
            <4>3. e.text = cmd[t]
                OBVIOUS
            <4> HIDE DEF e
            <4>4. \A i \in 1 .. Len(tx) + 1 : i \in 1 .. Len(tx) \/ i = Len(tx) + 1
                BY <4>2
            <4>5. tx'[Len(tx) + 1].text = cmd[t]
                BY <4>2, <4>3
            <4> QED
                <5> TAKE i \in DOMAIN tx'
                <5>1. i \in 1 .. Len(tx) + 1
                    BY <4>2
                <5>2. CASE i \in 1 .. Len(tx)
                    BY <4>2, <5>2
                <5>3. CASE i = Len(tx) + 1
                    BY <4>5, <5>3
                <5> QED
                    BY <4>4, <5>1, <5>2, <5>3
        <3>4. UNCHANGED <<rx, held, lone, uartQueue, lost>>
            BY <2>2 DEF Write
        <3>5. Texts(rx)' = Texts(rx) /\ Texts(held)' = Texts(held)
            BY <3>4 DEF Texts, RepliesIn
        <3>6. OutstandingTexts' \subseteq OutstandingTexts
            BY <3>2, <3>3, <3>5 DEF OutstandingTexts
        <3> QED
            BY <2>0, <3>4, <3>6, LoneKept
    <2>3. ASSUME NEW t \in Threads, WriteFails(t)
          PROVE  LoneInv'
        <3>1. Sending' \subseteq Sending /\ \A u \in Sending' : cmd'[u] = cmd[u]
            BY <2>3 DEF WriteFails, LinkTypeOK, Sending
        <3>2. UNCHANGED <<rx, held, tx, lone, uartQueue>> /\ lost' >= lost
            BY <2>0, <2>3 DEF WriteFails
        <3>3. OutstandingTexts' \subseteq OutstandingTexts
            BY <3>1, <3>2 DEF OutstandingTexts, Texts, RepliesIn
        <3> QED
            BY <3>2, <3>3, LoneKept
    <2>4. ASSUME NEW t \in Threads, Flush(t)
          PROVE  LoneInv'
        <3>1. Sending' = Sending
            BY <2>4 DEF Flush, LinkTypeOK, Sending
        <3>2. UNCHANGED <<cmd, held, tx, lone, uartQueue>> /\ lost' >= lost
            BY <2>0, <2>4, CountTypes DEF Flush
        <3>3. Texts(rx)' = {}
            BY <2>4, TextsEmpty DEF Flush
        <3>4. OutstandingTexts' \subseteq OutstandingTexts
            BY <3>1, <3>2, <3>3 DEF OutstandingTexts, Texts, RepliesIn
        <3> QED
            BY <3>2, <3>4, LoneKept
    <2>5. CASE BoardReply
        <3>1. /\ Head(tx) \in [text: Commands, by: Threads]
              /\ DOMAIN tx = 1 .. Len(tx) /\ Len(tx) \in Nat \ {0}
              /\ DOMAIN Tail(tx) = 1 .. (Len(tx) - 1)
              /\ \A i \in 1 .. (Len(tx) - 1) : Tail(tx)[i] = tx[i + 1]
              /\ Head(tx) = tx[1]
            <4>1. tx # <<>> /\ tx \in Seq([text: Commands, by: Threads])
                BY <2>5 DEF BoardReply, LinkTypeOK
            <4>2. /\ Head(tx) \in [text: Commands, by: Threads]
                  /\ Tail(tx) \in Seq([text: Commands, by: Threads])
                  /\ Len(Tail(tx)) = Len(tx) - 1
                  /\ \A i \in 1 .. Len(Tail(tx)) : Tail(tx)[i] = tx[i + 1]
                BY <4>1, HeadTailProperties
            <4>3. /\ DOMAIN tx = 1 .. Len(tx) /\ Len(tx) \in Nat \ {0}
                  /\ DOMAIN Tail(tx) = 1 .. Len(Tail(tx))
                BY <4>1, <4>2, LenProperties, EmptySeq
            <4>4. Head(tx) = tx[1]
                BY <4>1, <4>3
            <4> QED
                BY <4>2, <4>3, <4>4
        <3>2. Head(tx) \in Lines /\ IsReply(Head(tx))
            BY <3>1, LineTypes, CommandsAreReplies, Zenon
        <3>3. Texts(rx)' \subseteq Texts(rx) \cup {Head(tx).text}
            <4>1. Texts(Append(rx, Head(tx))) \subseteq Texts(rx) \cup {Head(tx).text}
                BY <3>2, TextsAppend DEF LinkTypeOK
            <4>2. rx' = Append(rx, Head(tx)) \/ rx' = rx
                BY <2>5 DEF BoardReply
            <4>3. Texts(rx)' = Texts(rx')
                BY DEF Texts, RepliesIn
            <4> QED
                BY <4>1, <4>2, <4>3
        <3>4. \A i \in DOMAIN tx' : \E j \in DOMAIN tx : tx'[i].text = tx[j].text
            <4>1. \A i \in 1 .. (Len(tx) - 1) : i + 1 \in 1 .. Len(tx) /\ Tail(tx)[i].text = tx[i + 1].text
                BY <3>1
            <4>2. tx' = Tail(tx)
                BY <2>5 DEF BoardReply
            <4> QED
                BY <3>1, <4>1, <4>2
        <3>5. 1 \in DOMAIN tx /\ Head(tx).text = tx[1].text
            BY <3>1
        <3>6. Texts(held)' = Texts(held) /\ Sending' = Sending /\ cmd' = cmd
            BY <2>5 DEF BoardReply, Texts, RepliesIn, Sending
        <3>7. OutstandingTexts' \subseteq OutstandingTexts
            BY <3>3, <3>4, <3>5, <3>6 DEF OutstandingTexts
        <3>8. UNCHANGED <<lone, uartQueue>> /\ lost' >= lost
            BY <2>0, <2>5 DEF BoardReply
        <3> QED
            BY <3>7, <3>8, LoneKept
    <2>6. ASSUME NEW text \in Unasked, BoardSends(text)
          PROVE  LoneInv'
        <3> DEFINE e == [text |-> text, by |-> Board]
        <3>1. e \in Lines /\ ~IsReply(e)
            BY LineTypes, UnaskedAssumption DEF IsReply, Commands
        <3>2. rx' = Append(rx, e) \/ rx' = rx
            BY <2>6 DEF BoardSends
        <3> HIDE DEF e
        <3>3. Texts(rx)' \subseteq Texts(rx)
            <4>1. Texts(Append(rx, e)) \subseteq Texts(rx)
                BY <3>1, TextsAppend DEF LinkTypeOK
            <4>2. Texts(rx)' = Texts(rx')
                BY DEF Texts, RepliesIn
            <4> QED
                BY <3>2, <4>1, <4>2
        <3>4. UNCHANGED <<pc, cmd, tx, held, lone, uartQueue>> /\ lost' >= lost
            BY <2>0, <2>6 DEF BoardSends
        <3>5. OutstandingTexts' \subseteq OutstandingTexts
            BY <3>3, <3>4 DEF OutstandingTexts, Sending, Texts, RepliesIn
        <3> QED
            BY <3>4, <3>5, LoneKept
    <2>7. CASE Fill
        <3>1. held' = rx /\ rx' = <<>>
            BY <2>7 DEF Fill
        <3>2. Texts(held)' = Texts(rx) /\ Texts(rx)' = {}
            BY <3>1, TextsEmpty DEF Texts, RepliesIn
        <3>3. UNCHANGED <<pc, cmd, tx, lone, uartQueue>> /\ lost' >= lost
            BY <2>0, <2>7 DEF Fill
        <3>4. OutstandingTexts' \subseteq OutstandingTexts
            BY <3>2, <3>3 DEF OutstandingTexts, Sending
        <3> QED
            BY <3>3, <3>4, LoneKept
    <2>8. ASSUME held # <<>>, held' = Tail(held),
                 UNCHANGED <<senderVars, uartQueue, rx, lost>>
          PROVE  LoneInv'
        <3>1. Texts(Tail(held)) \subseteq Texts(held)
            BY <2>8, TextsTail DEF LinkTypeOK
        <3>2. Texts(held)' = Texts(Tail(held))
            BY <2>8 DEF Texts, RepliesIn
        <3>3. UNCHANGED <<pc, cmd, tx, rx, lone, uartQueue>> /\ lost' >= lost
            BY <2>0, <2>8
        <3>4. OutstandingTexts' \subseteq OutstandingTexts
            BY <3>1, <3>2, <3>3 DEF OutstandingTexts, Sending, Texts, RepliesIn
        <3> QED
            BY <3>3, <3>4, LoneKept
    <2>9. ASSUME NEW m, ReadReply(m)
          PROVE  LoneInv'
        <3>1. CASE uartQueue = <<>>
            <4>1. UNCHANGED <<senderVars, uartQueue, rx, lost>> /\ held # <<>> /\ held' = Tail(held)
                BY <2>9, <3>1 DEF ReadReply
            <4> QED
                BY <4>1, <2>8
        <3>2. CASE uartQueue # <<>>
            <4>1. Len(uartQueue') = Len(uartQueue) - 1 /\ lost' = lost /\ lone' = lone
                BY <2>9, <3>2, EndTypes DEF ReadReply, LinkTypeOK
            <4>2. Outstanding' = Outstanding - 1 /\ Outstanding # 0
                BY <2>0, <4>1
            <4>3. lone => Outstanding' = 0
                BY <2>0, <4>2 DEF LoneInv
            <4> QED
                BY <4>1, <4>3 DEF LoneInv
        <3> QED
            BY <3>1, <3>2
    <2>10. CASE UNCHANGED linkVars
        <3>1. UNCHANGED <<lone, uartQueue>> /\ lost' >= lost
            BY <2>0, <2>10 DEF linkVars
        <3>2. OutstandingTexts' = OutstandingTexts
            BY <2>10 DEF linkVars, OutstandingTexts, Sending, Texts, RepliesIn
        <3> QED
            BY <3>1, <3>2, LoneKept
    <2>11. CASE ReadFails
        BY <2>8, <2>11 DEF ReadFails
    <2>12. ASSUME NEW m, ReadUnasked(m)
           PROVE  LoneInv'
        BY <2>8, <2>12 DEF ReadUnasked
    <2> QED
        BY <2>1, <2>2, <2>3, <2>4, <2>5, <2>6, <2>7, <2>9, <2>10, <2>11, <2>12
        DEF LinkNext, Send, Read, ReadLine
<1>3. QED
    BY <1>1, <1>2, LinkTypeCorrect, QueueIsAccounted, PTL DEF LinkSpec

\* A request made while nothing is outstanding is decoded as what it was,
\* however many stale entries lost replies have left in the queue.
THEOREM LoneRequestIsMatched == LinkSpec => []LoneRequestMatched
<1>1. LinkTypeOK /\ LoneInv => LoneRequestMatched
    <2> SUFFICES ASSUME LinkTypeOK, LoneInv, lone, held # <<>>, IsReply(Head(held))
                 PROVE  Pop(uartQueue).command = Head(held).text
        BY DEF LoneRequestMatched
    <2>1. Head(held).text \in OutstandingTexts
        BY TextsTail DEF OutstandingTexts, LinkTypeOK
    <2>2. Outstanding # 0
        BY <2>1, NothingOutstanding
    <2> QED
        BY <2>1, <2>2 DEF LoneInv
<1>2. QED
    BY <1>1, LinkTypeCorrect, LoneInvariant, PTL

=============================================================================
