-------------------------- MODULE MidiLink_proofs --------------------------
(***************************************************************************)
(* Proofs about MidiLink, for any set of objects: the types, and, as long  *)
(* as no button's write has failed, that the connection has one driver,    *)
(* that streams are closed once, and that the object read is the one       *)
(* written to.                                                             *)
(*                                                                         *)
(* The work on the connection is handed on like a baton: from the wait to  *)
(* the subscriber of midiConnect, from there to the reader, from there to  *)
(* onMidiError and back to a wait.  Everything else follows from who holds *)
(* it.                                                                     *)
(***************************************************************************)
EXTENDS MidiLink, FiniteSetTheorems, SequenceTheorems, TLAPS

\* The subscriber of midiConnect is at work on m; thread t handles an error
\* and has not asked for the next connection yet.
Active(m)  == callback[m] \in {"publish", "notify", "dump", "subscribe"}
Failing(t) == error[t] \in {"close", "notify", "connect"}

\* One holder of the baton at most.
OneHolder ==
    /\ Len(tasks) <= 1
    /\ tasks # <<>> => (\A m \in Ids : ~Active(m)) /\ (\A t \in Handlers : ~Failing(t))
    /\ \A m, n \in Ids : Active(m) /\ Active(n) => m = n
    /\ \A m \in Ids, t \in Handlers : ~(Active(m) /\ Failing(t))
    /\ \A s, t \in Handlers : Failing(s) /\ Failing(t) => s = t

\* From its publication until its streams are closed an object holds the
\* baton: it is subscribed to, read, or its error is being handled.
Holds(m) ==
    \/ callback[m] \in {"notify", "dump", "subscribe"}
    \/ Running(m)
    \/ error[m] = "close"

\* What holds of an object depends on how far it has got.
ObjectInv ==
    /\ error[Uart] = "idle"
    /\ \A m \in Ids :
          /\ stream[m] = "fresh" => callback[m] = "none"
          /\ callback[m] = "publish" => stream[m] # "closed"
          /\ Running(m) => callback[m] = "over"
          /\ error[m] # "idle" => callback[m] = "over" /\ ~Running(m)
          /\ Holds(m) => /\ stream[m] # "closed"
                         /\ midi \in {m, None}
                         /\ ~overtaken => midi = m

\* The misuses that closing a stream twice, or reading a closed one, would leave.
Twice == misused \cap {"doubleClose", "readClosed"}

\* One holder, whose object is open, and no stream closed twice.
BatonInv == OneHolder /\ ObjectInv /\ Twice = {}

\* The invariant: a button whose write fails starts a second error handler
\* (main.kt:294), and from then on only the types are claimed.
LinkInv == TypeOK /\ (~buttonFailed => BatonInv)

-----------------------------------------------------------------------------
(* The types.                                                              *)

\* What waits for the main scheduler: the reader of an object, or a wait (None).
Tasks == Ids \cup {None}

\* A task that is added goes behind the one that runs.
LEMMA AppendTask ==
    ASSUME NEW q \in Seq(Tasks), NEW e \in Tasks
    PROVE  /\ Append(q, e) \in Seq(Tasks)
           /\ Append(q, e) # <<>>
           /\ Len(Append(q, e)) = Len(q) + 1
           /\ Head(Append(q, e)) = IF q = <<>> THEN e ELSE Head(q)
BY AppendProperties, HeadTailAppend

\* The task that runs is taken off the queue.
LEMMA TailTask ==
    ASSUME NEW q \in Seq(Tasks), q # <<>>
    PROVE  Tail(q) \in Seq(Tasks) /\ Len(Tail(q)) = Len(q) - 1
BY HeadTailProperties

\* A queue of one task at most has nothing behind the one that runs.
LEMMA OnlyTask ==
    ASSUME NEW q \in Seq(Tasks), q # <<>>, Len(q) <= 1
    PROVE  Len(q) = 1 /\ Tail(q) = <<>> /\ Len(Tail(q)) = 0
<1>1. Len(q) = 1
    BY EmptySeq
<1>2. Tail(q) \in Seq(Tasks) /\ Len(Tail(q)) = 0
    BY <1>1, TailTask
<1>3. QED
    BY <1>1, <1>2, EmptySeq

\* Nothing is connected and the first wait is the only task.
LEMMA TypeInit == Init => TypeOK
<1> SUFFICES ASSUME Init PROVE TypeOK
    OBVIOUS
<1>1. tasks \in Seq(Ids \cup {None})
    BY DEF Init
<1>2. QED
    BY <1>1 DEF Init, TypeOK, Handlers, Senders

\* Whoever takes the next step keeps the types.
LEMMA TypeStep ==
    ASSUME TypeOK, [Next]_vars
    PROVE  TypeOK'
<1> USE DEF ghosts
<1>1. CASE Plug
    BY <1>1 DEF Plug, TypeOK, Running
<1>2. CASE Unplug
    BY <1>2 DEF Unplug, TypeOK, Running
<1>3. CASE Phone
    BY <1>3 DEF Phone, TypeOK, Running
<1>4. CASE Access
    BY <1>4 DEF Access, TypeOK, Running
<1>5. ASSUME NEW m \in Ids, OpenStreams(m) PROVE TypeOK'
    <2>1. Tail(tasks) \in Seq(Ids \cup {None})
        BY <1>5, TailTask DEF OpenStreams, TypeOK, Running, Tasks
    <2>2. QED
        BY <1>5, <2>1 DEF OpenStreams, TypeOK
<1>6. ASSUME NEW m \in Ids, StartReading(m) PROVE TypeOK'
    BY <1>6 DEF StartReading, TypeOK, Running
<1>7. ASSUME NEW m \in Ids, ReadEnds(m) PROVE TypeOK'
    <2>1. Tail(tasks) \in Seq(Ids \cup {None})
        BY <1>7, TailTask DEF ReadEnds, TypeOK, Running, Tasks
    <2>2. misused' \subseteq {"null", "doubleClose", "writeClosed", "readClosed"}
        BY <1>7 DEF ReadEnds, TypeOK
    <2>3. QED
        BY <1>7, <2>1, <2>2 DEF ReadEnds, TypeOK, Handlers
<1>8. ASSUME NEW m \in Ids, MessageBegins(m) PROVE TypeOK'
    BY <1>8 DEF MessageBegins, TypeOK, Running
<1>9. ASSUME NEW m \in Ids, MessageEnds(m) PROVE TypeOK'
    BY <1>9 DEF MessageEnds, TypeOK, Running
<1>10. ASSUME NEW m \in Ids, Publish(m) PROVE TypeOK'
    BY <1>10 DEF Publish, TypeOK, Running
<1>11. ASSUME NEW m \in Ids, NotifyConnected(m) PROVE TypeOK'
    BY <1>11 DEF NotifyConnected, TypeOK, Running
<1>12. ASSUME NEW m \in Ids, RequestDump(m) PROVE TypeOK'
    BY <1>12 DEF RequestDump, WriteMayThrow, Misuse, TypeOK, Running
<1>13. ASSUME NEW m \in Ids, Subscribe(m) PROVE TypeOK'
    <2>1. /\ Append(tasks, m) \in Seq(Ids \cup {None})
          /\ Append(tasks, m) # <<>>
          /\ tasks # <<>> => Head(Append(tasks, m)) = Head(tasks)
        BY AppendTask DEF TypeOK, Tasks
    <2>2. QED
        BY <1>13, <2>1 DEF Subscribe, TypeOK, Running
<1>14. ASSUME NEW t \in Handlers, CloseStreams(t) PROVE TypeOK'
    BY <1>14 DEF CloseStreams, TypeOK, Running
<1>15. ASSUME NEW t \in Handlers, NotifyDisconnected(t) PROVE TypeOK'
    BY <1>15 DEF NotifyDisconnected, TypeOK, Running
<1>16. ASSUME NEW t \in Handlers, Reconnect(t) PROVE TypeOK'
    <2>1. /\ Append(tasks, None) \in Seq(Ids \cup {None})
          /\ Append(tasks, None) # <<>>
          /\ tasks # <<>> => Head(Append(tasks, None)) = Head(tasks)
        BY AppendTask DEF TypeOK, Tasks
    <2>2. QED
        BY <1>16, <2>1 DEF Reconnect, TypeOK, Running
<1>17. ASSUME NEW t \in Handlers, ClearMidi(t) PROVE TypeOK'
    BY <1>17 DEF ClearMidi, TypeOK, Running
<1>18. ASSUME NEW s \in Senders, TakeMidi(s) PROVE TypeOK'
    BY <1>18 DEF TakeMidi, TypeOK, Running
<1>19. ASSUME NEW s \in Senders, SendMidi(s) PROVE TypeOK'
    BY <1>19 DEF SendMidi, WriteMayThrow, Misuse, TypeOK, Running, Handlers
<1>20. CASE UNCHANGED vars
    BY <1>20 DEF vars, TypeOK, Running
<1>21. QED
    BY <1>1, <1>2, <1>3, <1>4, <1>5, <1>6, <1>7, <1>8, <1>9, <1>10, <1>11, <1>12, <1>13,
       <1>14, <1>15, <1>16, <1>17, <1>18, <1>19, <1>20
       DEF Next, Schedule, Connecting, HandleError

\* The variables keep their types, and the thread of mainScheduler is at work
\* only on the task at the head of its queue, for any set of objects.
THEOREM MidiTypeCorrect == Spec => []TypeOK
<1>1. Init => TypeOK
    BY TypeInit
<1>2. TypeOK /\ [Next]_vars => TypeOK'
    BY TypeStep
<1>3. QED
    BY <1>1, <1>2, PTL DEF Spec

-----------------------------------------------------------------------------
(* Who holds the baton.                                                    *)

\* Initially the only task is the first wait, and nothing else is under way.
LEMMA BatonInit == Init => BatonInv
<1> SUFFICES ASSUME Init PROVE BatonInv
    OBVIOUS
<1>1. Len(tasks) = 1 /\ Head(tasks) = None /\ tasks # <<>>
    BY DEF Init
<1>2. \A m \in Ids : callback[m] = "none" /\ ~Running(m)
    BY <1>1, MidiAssumption DEF Init, Running
<1>3. \A t \in Handlers : error[t] = "idle"
    BY DEF Init
<1>4. Ids \subseteq Handlers /\ Uart \in Handlers
    BY DEF Handlers
<1>5. OneHolder
    BY <1>1, <1>2, <1>3 DEF OneHolder, Active, Failing
<1>6. ObjectInv
    BY <1>2, <1>3, <1>4 DEF ObjectInv, Holds
<1>7. QED
    BY <1>5, <1>6 DEF BatonInv, Twice, Init

\* A button's write that has failed has failed for good.
LEMMA ButtonStaysFailed ==
    ASSUME [Next]_vars, ~buttonFailed'
    PROVE  ~buttonFailed
<1>1. CASE UNCHANGED vars
    BY <1>1 DEF vars
<1>2. CASE Next
    BY <1>2 DEF Next, Schedule, Connecting, HandleError, Plug, Unplug, Phone, Access, OpenStreams,
                StartReading, ReadEnds, MessageBegins, MessageEnds, Publish, NotifyConnected,
                RequestDump, Subscribe, CloseStreams, NotifyDisconnected, Reconnect, ClearMidi,
                TakeMidi, SendMidi, ghosts
<1>3. QED
    BY <1>1, <1>2

\* Steps that leave the queue, the callbacks, the errors and the streams as
\* they are do not touch the baton.
LEMMA BatonKept ==
    ASSUME BatonInv,
           UNCHANGED <<stream, midi, tasks, callback, error, overtaken>>,
           Twice' = {}
    PROVE  BatonInv'
<1>1. OneHolder'
    BY DEF BatonInv, OneHolder, Active, Failing
<1>2. ObjectInv'
    BY DEF BatonInv, ObjectInv, Holds, Running
<1>3. QED
    BY <1>1, <1>2 DEF BatonInv

\* A device that goes away closes nothing.
LEMMA BatonUnplug ==
    ASSUME TypeOK, BatonInv, Unplug
    PROVE  BatonInv'
<1> USE DEF ghosts
<1>1. OneHolder'
    BY DEF BatonInv, OneHolder, Active, Failing, Unplug
<1>2. \A m \in Ids : /\ stream'[m] = "fresh" => stream[m] = "fresh"
                     /\ stream'[m] = "closed" => stream[m] = "closed"
    BY DEF Unplug, TypeOK
<1>3. ObjectInv'
    BY <1>2 DEF BatonInv, ObjectInv, Holds, Running, Unplug
<1>4. QED
    BY <1>1, <1>3 DEF BatonInv, Twice, Unplug

\* The wait hands over to the subscriber, with an object nobody has had.
LEMMA BatonOpen ==
    ASSUME TypeOK, BatonInv, NEW m \in Ids, OpenStreams(m)
    PROVE  BatonInv'
<1> USE DEF ghosts
<1>1. Len(tasks) = 1 /\ tasks # <<>> /\ Head(tasks) = None
    BY OnlyTask DEF OpenStreams, Running, BatonInv, OneHolder, TypeOK, Tasks
<1>2. tasks' = <<>> /\ Len(tasks') = 0
    BY <1>1, OnlyTask DEF OpenStreams, TypeOK, Tasks
<1>3. \A n \in Ids : ~Active(n) /\ ~Running(n) /\ callback[n] \in {"none", "over"}
    BY <1>1, MidiAssumption DEF BatonInv, OneHolder, Active, Running, TypeOK
<1>4. \A t \in Handlers : ~Failing(t) /\ ~Failing(t)'
    BY <1>1 DEF BatonInv, OneHolder, Failing, OpenStreams
<1>5. \A n \in Ids : n # m => callback'[n] = callback[n] /\ stream'[n] = stream[n]
    BY DEF OpenStreams, TypeOK
<1>6. callback'[m] = "publish" /\ stream'[m] \in {"live", "null"}
    BY DEF OpenStreams, TypeOK
<1>7. OneHolder'
    BY <1>2, <1>3, <1>4, <1>5 DEF OneHolder, Active
<1>8. error[m] = "idle"
    BY <1>6 DEF BatonInv, ObjectInv, OpenStreams
<1>9. ObjectInv'
    <2>1. error'[Uart] = "idle"
        BY DEF BatonInv, ObjectInv, OpenStreams
    <2>2. ASSUME NEW n \in Ids
          PROVE  /\ ~Running(n)'
                 /\ error'[n] = error[n]
                 /\ error[n] # "close"
        BY <1>2, <1>4 DEF Running, OpenStreams, Failing, Handlers
    <2>3. QED
        BY <1>3, <1>5, <1>6, <1>8, <2>1, <2>2 DEF BatonInv, ObjectInv, Holds, OpenStreams
<1>10. QED
    BY <1>7, <1>9 DEF BatonInv, Twice, OpenStreams

\* An object the reader has done with hands over to its onMidiError, or the
\* connection stays without a driver.
LEMMA BatonReadEnds ==
    ASSUME TypeOK, BatonInv, NEW m \in Ids, ReadEnds(m)
    PROVE  BatonInv'
<1>1. tasks # <<>> /\ Running(m) /\ stream[m] # "closed" /\ callback[m] = "over"
    BY DEF ReadEnds, Running, BatonInv, ObjectInv, Holds
<1>2. tasks' = <<>> /\ Len(tasks') = 0
    BY <1>1, OnlyTask DEF ReadEnds, BatonInv, OneHolder, TypeOK, Tasks
<1>3. /\ \A n \in Ids : ~Active(n) /\ ~Active(n)'
      /\ \A t \in Handlers : ~Failing(t)
    BY <1>1 DEF BatonInv, OneHolder, Active, ReadEnds
<1>4. /\ \A t \in Handlers : t # m => error'[t] = error[t]
      /\ error'[m] \in {error[m], "close"}
    BY DEF ReadEnds, TypeOK, Handlers
<1>5. OneHolder'
    <2>1. \A t \in Handlers : Failing(t)' => t = m
        BY <1>3, <1>4 DEF Failing
    <2>2. QED
        BY <1>2, <1>3, <2>1 DEF OneHolder
<1>6. ObjectInv'
    <2>1. error'[Uart] = "idle"
        BY <1>4, MidiAssumption DEF BatonInv, ObjectInv, Handlers
    <2>2. ASSUME NEW n \in Ids PROVE ~Running(n)'
        BY <1>2 DEF Running
    <2>3. ASSUME NEW n \in Ids, Holds(n)' PROVE n = m
        BY <1>3, <1>4, <2>2, <2>3 DEF Holds, Active, Failing, Handlers
    <2>4. Holds(m)
        BY <1>1 DEF Holds
    <2>5. QED
        BY <1>1, <1>4, <2>1, <2>2, <2>3, <2>4 DEF BatonInv, ObjectInv, ReadEnds, Handlers
<1>7. QED
    <2>1. Twice' = {}
        BY <1>1 DEF ReadEnds, BatonInv, Twice
    <2>2. QED
        BY <1>5, <1>6, <2>1 DEF BatonInv

\* The subscriber makes its object the one that is written to.
LEMMA BatonPublish ==
    ASSUME TypeOK, BatonInv, NEW m \in Ids, Publish(m)
    PROVE  BatonInv'
<1> USE DEF ghosts
<1>1. Active(m)
    BY DEF Publish, Active
<1>2. \A n \in Ids : ~Running(n) /\ ~Running(n)'
    BY <1>1 DEF BatonInv, OneHolder, Running, Publish
<1>3. \A n \in Ids : n # m => ~Active(n) /\ callback'[n] = callback[n]
    BY <1>1 DEF BatonInv, OneHolder, Publish, TypeOK
<1>4. callback[m] = "publish" /\ callback'[m] = "notify" /\ midi' = m
    BY DEF Publish, TypeOK
<1>5. \A t \in Handlers : ~Failing(t)
    BY <1>1 DEF BatonInv, OneHolder
<1>6. OneHolder'
    BY <1>1, <1>3, <1>4, <1>5 DEF BatonInv, OneHolder, Active, Failing, Publish
<1>7. ObjectInv'
    <2>1. \A n \in Ids : Holds(n)' => n = m
        BY <1>2, <1>3, <1>5 DEF Holds, Active, Failing, Handlers, Publish
    <2>2. QED
        BY <1>2, <1>3, <1>4, <2>1 DEF BatonInv, ObjectInv, Publish
<1>8. QED
    BY <1>6, <1>7 DEF BatonInv, Twice, Publish

\* Between publication and subscription the object stays the subscriber's,
\* unless an exception ends its work.
LEMMA BatonCallback ==
    ASSUME TypeOK, BatonInv, NEW m \in Ids,
           callback[m] \in {"notify", "dump"},
           \E next \in {"dump", "subscribe", "over"} :
               callback' = [callback EXCEPT ![m] = next],
           UNCHANGED <<stream, midi, tasks, error, overtaken>>,
           Twice' = {}
    PROVE  BatonInv'
<1>1. Active(m) /\ Holds(m)
    BY DEF Active, Holds
<1>2. \A n \in Ids : ~Running(n) /\ ~Running(n)'
    BY <1>1 DEF BatonInv, OneHolder, Running
<1>3. \A n \in Ids : n # m => ~Active(n) /\ callback'[n] = callback[n]
    BY <1>1 DEF BatonInv, OneHolder, TypeOK
<1>4. callback'[m] \in {"dump", "subscribe", "over"}
    BY DEF TypeOK
<1>5. \A t \in Handlers : ~Failing(t)
    BY <1>1 DEF BatonInv, OneHolder
<1>6. OneHolder'
    BY <1>1, <1>3, <1>4, <1>5 DEF BatonInv, OneHolder, Active, Failing
<1>7. ObjectInv'
    <2>1. \A n \in Ids : Holds(n)' => n = m
        BY <1>2, <1>3, <1>5 DEF Holds, Active, Failing, Handlers
    <2>2. QED
        BY <1>1, <1>2, <1>3, <1>4, <2>1 DEF BatonInv, ObjectInv
<1>8. QED
    BY <1>6, <1>7 DEF BatonInv

\* The subscriber hands over to the reader.
LEMMA BatonSubscribe ==
    ASSUME TypeOK, BatonInv, NEW m \in Ids, Subscribe(m)
    PROVE  BatonInv'
<1> USE DEF ghosts
<1>1. Active(m) /\ Holds(m)
    BY DEF Subscribe, Active, Holds
<1>2. tasks = <<>>
    BY <1>1 DEF BatonInv, OneHolder
<1>3. tasks' # <<>> /\ Len(tasks') = 1 /\ Head(tasks') = m
    BY <1>2, AppendTask, EmptySeq DEF Subscribe, TypeOK, Tasks
<1>4. \A n \in Ids : ~Running(n) /\ (Running(n)' <=> n = m)
    BY <1>2, <1>3 DEF Running
<1>5. \A n \in Ids : n # m => ~Active(n) /\ callback'[n] = callback[n]
    BY <1>1 DEF BatonInv, OneHolder, Subscribe, TypeOK
<1>6. callback'[m] = "over"
    BY DEF Subscribe, TypeOK
<1>7. \A t \in Handlers : ~Failing(t)
    BY <1>1 DEF BatonInv, OneHolder
<1>8. error[m] = "idle"
    BY DEF BatonInv, ObjectInv, Subscribe
<1>9. OneHolder'
    BY <1>1, <1>3, <1>5, <1>6, <1>7 DEF BatonInv, OneHolder, Active, Failing, Subscribe
<1>10. ObjectInv'
    <2>1. \A n \in Ids : Holds(n)' => n = m
        BY <1>4, <1>5, <1>6, <1>7 DEF Holds, Active, Failing, Handlers, Subscribe
    <2>2. QED
        BY <1>1, <1>4, <1>5, <1>6, <1>8, <2>1 DEF BatonInv, ObjectInv, Subscribe
<1>11. QED
    BY <1>9, <1>10 DEF BatonInv, Twice, Subscribe

\* Who handles an error is an object's own receiver, and what it closes is
\* its own object or nothing.
LEMMA BatonClose ==
    ASSUME TypeOK, BatonInv, NEW t \in Handlers, CloseStreams(t)
    PROVE  BatonInv'
<1>1. t \in Ids /\ Failing(t)
    BY DEF CloseStreams, BatonInv, ObjectInv, Handlers, Failing
<1>2. /\ Holds(t) /\ callback[t] = "over" /\ ~Running(t)
      /\ stream[t] # "closed" /\ midi \in {t, None}
    BY <1>1 DEF CloseStreams, BatonInv, ObjectInv, Holds
<1>3. /\ \A s \in Handlers : s # t => error'[s] = error[s]
      /\ error'[t] = "notify"
    BY DEF CloseStreams, TypeOK
<1>4. /\ \A m \in Ids : m # t => stream'[m] = stream[m]
      /\ stream'[t] \in {stream[t], "closed"}
    BY <1>1, <1>2 DEF CloseStreams, TypeOK
<1>5. /\ tasks = <<>>
      /\ \A m \in Ids : ~Active(m)
      /\ \A s \in Handlers : Failing(s) => s = t
    BY <1>1 DEF BatonInv, OneHolder
<1>6. OneHolder'
    BY <1>3, <1>5 DEF BatonInv, OneHolder, Active, Failing, CloseStreams
<1>7. ObjectInv'
    <2>1. \A m \in Ids : ~Running(m) /\ ~Running(m)'
        BY <1>5 DEF Running, CloseStreams
    <2>2. \A m \in Ids : ~Holds(m)'
        BY <1>3, <1>5, <2>1 DEF Holds, Active, Failing, Handlers, CloseStreams
    <2>3. error'[Uart] = "idle"
        BY <1>1, <1>3, MidiAssumption DEF BatonInv, ObjectInv, Handlers
    <2>4. QED
        BY <1>2, <1>3, <1>4, <2>1, <2>2, <2>3 DEF BatonInv, ObjectInv, Handlers, CloseStreams
<1>8. Twice' = {}
    BY <1>2 DEF CloseStreams, BatonInv, Twice
<1>9. QED
    BY <1>6, <1>7, <1>8 DEF BatonInv

\* onMidiError tells the phone and keeps the baton, or drops it when the
\* phone has left.
LEMMA BatonNotify ==
    ASSUME TypeOK, BatonInv, NEW t \in Handlers, NotifyDisconnected(t)
    PROVE  BatonInv'
<1>1. t \in Ids /\ Failing(t)
    BY DEF NotifyDisconnected, BatonInv, ObjectInv, Handlers, Failing
<1>2. /\ \A s \in Handlers : s # t => error'[s] = error[s]
      /\ error[t] # "idle" /\ error'[t] \in {"idle", "connect"}
    BY DEF NotifyDisconnected, TypeOK
<1>3. OneHolder'
    BY <1>1, <1>2 DEF BatonInv, OneHolder, Active, Failing, NotifyDisconnected
<1>4. ObjectInv'
    <2>1. \A m \in Ids : Holds(m)' => Holds(m)
        BY <1>2 DEF Holds, Running, Handlers, NotifyDisconnected
    <2>2. error'[Uart] = "idle"
        BY <1>1, <1>2, MidiAssumption DEF BatonInv, ObjectInv, Handlers
    <2>3. QED
        BY <1>1, <1>2, <2>1, <2>2 DEF BatonInv, ObjectInv, Handlers, Running, NotifyDisconnected
<1>5. QED
    BY <1>3, <1>4 DEF BatonInv, Twice, NotifyDisconnected

\* onMidiError hands over to the next wait.
LEMMA BatonReconnect ==
    ASSUME TypeOK, BatonInv, NEW t \in Handlers, Reconnect(t)
    PROVE  BatonInv'
<1> USE DEF ghosts
<1>1. t \in Ids /\ Failing(t)
    BY DEF Reconnect, BatonInv, ObjectInv, Handlers, Failing
<1>2. /\ \A s \in Handlers : s # t => error'[s] = error[s]
      /\ error[t] # "idle" /\ error'[t] = "clear"
    BY DEF Reconnect, TypeOK
<1>3. /\ tasks = <<>>
      /\ \A m \in Ids : ~Active(m)
      /\ \A s \in Handlers : Failing(s) => s = t
    BY <1>1 DEF BatonInv, OneHolder
<1>4. tasks' # <<>> /\ Len(tasks') = 1 /\ Head(tasks') = None
    BY <1>3, AppendTask, EmptySeq DEF Reconnect, TypeOK, Tasks
<1>5. OneHolder'
    BY <1>2, <1>3, <1>4 DEF OneHolder, Active, Failing, Reconnect
<1>6. ObjectInv'
    <2>1. \A m \in Ids : ~Running(m) /\ ~Running(m)'
        BY <1>3, <1>4, MidiAssumption DEF Running
    <2>2. \A m \in Ids : ~Holds(m)'
        BY <1>2, <1>3, <2>1 DEF Holds, Active, Failing, Handlers, Reconnect
    <2>3. error'[Uart] = "idle"
        BY <1>1, <1>2, MidiAssumption DEF BatonInv, ObjectInv, Handlers
    <2>4. QED
        BY <1>2, <2>1, <2>2, <2>3 DEF BatonInv, ObjectInv, Handlers, Reconnect
<1>7. QED
    BY <1>5, <1>6 DEF BatonInv, Twice, Reconnect

\* The late clearing takes midi from nobody that holds the baton, or from an
\* object it overtakes.
LEMMA BatonClear ==
    ASSUME TypeOK, BatonInv, NEW t \in Handlers, ClearMidi(t)
    PROVE  BatonInv'
<1>1. t \in Ids /\ error[t] = "clear"
    BY DEF ClearMidi, BatonInv, ObjectInv, Handlers
<1>2. /\ \A s \in Handlers : s # t => error'[s] = error[s]
      /\ error'[t] = "idle"
    BY DEF ClearMidi, TypeOK
<1>3. OneHolder'
    BY <1>2 DEF BatonInv, OneHolder, Active, Failing, ClearMidi
<1>4. ~Holds(t)
    BY <1>1 DEF BatonInv, ObjectInv, Holds
<1>5. \A m \in Ids : /\ Holds(m)' => Holds(m)
                     /\ Running(m)' <=> Running(m)
    BY <1>2 DEF Holds, Running, Handlers, ClearMidi
<1>6. ASSUME NEW m \in Ids, Holds(m), ~overtaken' PROVE FALSE
    <2>1. midi = m /\ midi \in {None, t}
        BY <1>6 DEF ClearMidi, BatonInv, ObjectInv
    <2>2. QED
        BY <1>4, <1>6, <2>1, MidiAssumption
<1>7. ObjectInv'
    <2>1. error'[Uart] = "idle"
        BY <1>1, <1>2, MidiAssumption DEF BatonInv, ObjectInv, Handlers
    <2>2. QED
        BY <1>2, <1>5, <1>6, <2>1 DEF BatonInv, ObjectInv, Handlers, ClearMidi
<1>8. QED
    BY <1>3, <1>7 DEF BatonInv, Twice, ClearMidi

\* Whoever takes the next step, the baton has one holder at most.
LEMMA BatonStep ==
    ASSUME TypeOK, BatonInv, ~buttonFailed', [Next]_vars
    PROVE  BatonInv'
<1> USE DEF ghosts
<1>1. ASSUME \/ Plug \/ Phone \/ Access \/ UNCHANGED vars
             \/ \E m \in Ids : StartReading(m) \/ MessageBegins(m) \/ MessageEnds(m)
             \/ \E s \in Senders : TakeMidi(s)
      PROVE  BatonInv'
    <2>1. UNCHANGED <<stream, midi, tasks, callback, error, overtaken, misused>>
        BY <1>1 DEF Plug, Phone, Access, StartReading, MessageBegins, MessageEnds, TakeMidi, vars
    <2>2. Twice' = {}
        BY <2>1 DEF Twice, BatonInv
    <2>3. QED
        BY <2>1, <2>2, BatonKept
<1>2. ASSUME NEW s \in Senders, SendMidi(s) PROVE BatonInv'
    <2>1. UNCHANGED <<stream, midi, tasks, callback, error, overtaken>>
        BY <1>2 DEF SendMidi
    <2>2. Twice' = {}
        BY <1>2 DEF SendMidi, Misuse, Twice, BatonInv
    <2>3. QED
        BY <2>1, <2>2, BatonKept
<1>3. ASSUME NEW m \in Ids, NotifyConnected(m) PROVE BatonInv'
    <2>1. \E next \in {"dump", "subscribe", "over"} :
              callback' = [callback EXCEPT ![m] = next]
        BY <1>3 DEF NotifyConnected
    <2>2. QED
        BY <1>3, <2>1, BatonCallback DEF NotifyConnected, Twice, BatonInv
<1>4. ASSUME NEW m \in Ids, RequestDump(m) PROVE BatonInv'
    <2>1. \E next \in {"dump", "subscribe", "over"} :
              callback' = [callback EXCEPT ![m] = next]
        BY <1>4 DEF RequestDump
    <2>2. Twice' = {}
        BY <1>4 DEF RequestDump, Misuse, Twice, BatonInv
    <2>3. QED
        BY <1>4, <2>1, <2>2, BatonCallback DEF RequestDump
<1>5. QED
    BY <1>1, <1>2, <1>3, <1>4, BatonUnplug, BatonOpen, BatonReadEnds, BatonPublish,
       BatonSubscribe, BatonClose, BatonNotify, BatonReconnect, BatonClear
       DEF Next, Schedule, Connecting, HandleError

-----------------------------------------------------------------------------
(* Theorems.                                                               *)

\* The invariant holds throughout.
LEMMA LinkInvariant == Spec => []LinkInv
<1>1. Init => LinkInv
    BY TypeInit, BatonInit DEF LinkInv
<1>2. LinkInv /\ [Next]_vars => LinkInv'
    BY TypeStep, BatonStep, ButtonStaysFailed DEF LinkInv
<1>3. QED
    BY <1>1, <1>2, PTL DEF Spec

\* A set of one element at most counts as nothing or as one.
LEMMA AtMostOne ==
    ASSUME NEW S, \A x, y \in S : x = y
    PROVE  Cardinality(S) \in {0, 1} /\ (S = {} => Cardinality(S) = 0)
<1>1. CASE S = {}
    BY <1>1, FS_EmptySet
<1>2. CASE S # {}
    <2>1. PICK x \in S : S = {x}
        BY <1>2
    <2>2. QED
        BY <1>2, <2>1, FS_Singleton
<1>3. QED
    BY <1>1, <1>2

\* Of a task, a subscriber and an error handler there is one at most.
LEMMA OneOfThree ==
    ASSUME NEW l \in {0, 1}, NEW a \in {0, 1}, NEW f \in {0, 1},
           a = 0 \/ f = 0, l = 1 => a = 0 /\ f = 0
    PROVE  l + a + f <= 1
OBVIOUS

\* Until a button's write fails, the connection has one driver at most: a
\* wait, a subscriber, a reader or an error being handled.  So onMidiError
\* and the tasks of mainScheduler, which run on different threads without a
\* lock, never open the device twice or read it twice.
THEOREM ConnectionHasOneDriver == Spec => []OneDriver
<1>1. LinkInv => OneDriver
    <2> SUFFICES ASSUME LinkInv, ~buttonFailed PROVE Drivers <= 1
        BY DEF OneDriver
    <2> DEFINE A == {m \in Ids : callback[m] \in {"publish", "notify", "dump", "subscribe"}}
               F == {t \in Handlers : error[t] \in {"close", "notify", "connect"}}
    <2>1. OneHolder
        BY DEF LinkInv, BatonInv
    <2>2. /\ \A m, n \in A : m = n
          /\ \A s, t \in F : s = t
          /\ A = {} \/ F = {}
        BY <2>1 DEF OneHolder, Active, Failing
    <2>3. /\ Cardinality(A) \in {0, 1} /\ (A = {} => Cardinality(A) = 0)
          /\ Cardinality(F) \in {0, 1} /\ (F = {} => Cardinality(F) = 0)
        BY <2>2, AtMostOne
    <2>4. /\ Len(tasks) \in {0, 1}
          /\ Len(tasks) = 1 => A = {} /\ F = {}
        <3>1. tasks = <<>> => Len(tasks) = 0
            BY EmptySeq
        <3>2. tasks # <<>> => Len(tasks) = 1
            BY <2>1, OnlyTask DEF LinkInv, TypeOK, OneHolder, Tasks
        <3>3. tasks # <<>> => A = {} /\ F = {}
            BY <2>1 DEF OneHolder, Active, Failing
        <3>4. QED
            BY <3>1, <3>2, <3>3
    <2>5. Drivers = Len(tasks) + Cardinality(A) + Cardinality(F)
        BY DEF Drivers
    <2> HIDE DEF A, F
    <2>6. Len(tasks) + Cardinality(A) + Cardinality(F) <= 1
        BY <2>2, <2>3, <2>4, OneOfThree
    <2>7. QED
        BY <2>5, <2>6
<1>2. QED
    BY <1>1, LinkInvariant, PTL

\* Until a button's write fails, no stream is closed twice and none is read
\* after it was closed, although onMidiError clears midi only after it has
\* asked for the next connection.
THEOREM StreamsAreClosedOnce == Spec => []StreamsClosedOnce
<1>1. LinkInv => StreamsClosedOnce
    BY DEF LinkInv, BatonInv, Twice, StreamsClosedOnce
<1>2. QED
    BY <1>1, LinkInvariant, PTL

\* Until a button's write fails or a late onMidiError clears a newer object,
\* the object that is read is the one phones and buttons write to.
THEOREM ReaderIsPublished == Spec => []ReadIsPublished
<1>1. LinkInv => ReadIsPublished
    BY DEF LinkInv, BatonInv, ObjectInv, Holds, ReadIsPublished, Reading
<1>2. QED
    BY <1>1, LinkInvariant, PTL

=============================================================================
