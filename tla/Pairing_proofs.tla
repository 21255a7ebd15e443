--------------------------- MODULE Pairing_proofs ---------------------------
(***************************************************************************)
(* Proofs about Pairing: the types, that a timer means a held button, and  *)
(* that the adapter is never left half open, for any number of timers and  *)
(* lines.                                                                  *)
(***************************************************************************)
EXTENDS Pairing, SequenceTheorems, TLAPS

Press(b)   == [button |-> b, pressed |-> TRUE]
Release(b) == [button |-> b, pressed |-> FALSE]

\* A press on its way to the handler has its release behind it, unless the
\* button is held or its last line was lost.
PressesAnswered ==
    \A b \in Buttons :
        \/ held[b] \/ lost[b]
        \/ \A i \in DOMAIN lines :
              lines[i] = Press(b) => \E j \in DOMAIN lines : i < j /\ lines[j] = Release(b)

\* So has the press for which a timer is about to be attached.
AddAnswered ==
    handler = "add" =>
        \/ held[button] \/ lost[button]
        \/ \E j \in DOMAIN lines : lines[j] = Release(button)

\* Between the two calls of a callback the adapter may be half open; the
\* callback that closes it has reset pairable first.
CallsPaired ==
    alive /\ touched =>
        /\ loop = "hide" => ~pairable
        /\ loop \notin {"pair", "hide"} => (discoverable => pairable)

TimerInv == TypeOK /\ TimerMeansHeld /\ PressesAnswered /\ AddAnswered

-----------------------------------------------------------------------------
(* Sequences of timers and lines.                                          *)

\* Removing a timer closes the gap and changes no other.
LEMMA RemoveAtTimers ==
    ASSUME NEW s \in Seq(Timers), NEW k \in 1 .. Len(s)
    PROVE  /\ RemoveAt(s, k) \in Seq(Timers)
           /\ Len(RemoveAt(s, k)) = Len(s) - 1
           /\ \A i \in 1 .. Len(s) - 1 :
                 RemoveAt(s, k)[i] = IF i < k THEN s[i] ELSE s[i + 1]
<1> DEFINE a == SubSeq(s, 1, k - 1)
           c == SubSeq(s, k + 1, Len(s))
<1>1. Len(s) \in Nat /\ k \in Nat /\ 1 <= k /\ k <= Len(s)
    BY LenProperties
<1>2. /\ a \in Seq(Timers)
      /\ Len(a) = k - 1
      /\ \A i \in 1 .. k - 1 : a[i] = s[i]
    <2>1. \A i \in 1 .. k - 1 : s[i] \in Timers
        BY <1>1, ElementOfSeq
    <2>2. 1 \in Int /\ k - 1 \in Int
        BY <1>1
    <2>3. /\ a \in Seq(Timers)
          /\ Len(a) = IF 1 <= k - 1 THEN (k - 1) - 1 + 1 ELSE 0
          /\ \A i \in 1 .. (k - 1) - 1 + 1 : a[i] = s[1 + i - 1]
        BY <2>1, <2>2, SubSeqProperties
    <2>4. QED
        BY <1>1, <2>3, SMT
<1>3. /\ c \in Seq(Timers)
      /\ Len(c) = Len(s) - k
      /\ \A i \in 1 .. Len(s) - k : c[i] = s[k + i]
    <2>1. \A i \in k + 1 .. Len(s) : s[i] \in Timers
        BY <1>1, ElementOfSeq
    <2>2. k + 1 \in Int /\ Len(s) \in Int
        BY <1>1
    <2>3. /\ c \in Seq(Timers)
          /\ Len(c) = IF k + 1 <= Len(s) THEN Len(s) - (k + 1) + 1 ELSE 0
          /\ \A i \in 1 .. Len(s) - (k + 1) + 1 : c[i] = s[(k + 1) + i - 1]
        BY <2>1, <2>2, SubSeqProperties
    <2>4. QED
        BY <1>1, <2>3, SMT
<1>4. /\ a \o c \in Seq(Timers)
      /\ Len(a \o c) = Len(a) + Len(c)
      /\ \A i \in 1 .. Len(a) + Len(c) :
            (a \o c)[i] = IF i <= Len(a) THEN a[i] ELSE c[i - Len(a)]
    BY <1>2, <1>3, ConcatProperties
<1>5. RemoveAt(s, k) = a \o c
    BY DEF RemoveAt
<1> HIDE DEF a, c
<1>6. \A i \in 1 .. Len(s) - 1 : (a \o c)[i] = IF i < k THEN s[i] ELSE s[i + 1]
    <2> SUFFICES ASSUME NEW i \in 1 .. Len(s) - 1
                 PROVE  (a \o c)[i] = IF i < k THEN s[i] ELSE s[i + 1]
        OBVIOUS
    <2>1. CASE i < k
        BY <1>1, <1>2, <1>3, <1>4, <2>1, SMT
    <2>2. CASE ~(i < k)
        <3>1. i - (k - 1) \in 1 .. Len(s) - k /\ ~(i <= k - 1) /\ k + (i - (k - 1)) = i + 1
            BY <1>1, <2>2, SMT
        <3>2. (a \o c)[i] = c[i - (k - 1)]
            BY <1>1, <1>2, <1>3, <1>4, <3>1, SMT
        <3>3. QED
            BY <1>3, <2>2, <3>1, <3>2
    <2>3. QED
        BY <2>1, <2>2
<1>7. Len(a \o c) = Len(s) - 1
    BY <1>1, <1>2, <1>3, <1>4, SMT
<1>8. QED
    BY <1>4, <1>5, <1>6, <1>7, Zenon

\* Every timer is one.
LEMMA TimersType ==
    ASSUME TypeOK
    PROVE  /\ timers \in Seq(Timers)
           /\ Len(timers) \in Nat
           /\ DOMAIN timers = 1 .. Len(timers)
           /\ \A i \in DOMAIN timers :
                 /\ timers[i] \in Timers
                 /\ timers[i].button \in Buttons
                 /\ timers[i].known \in Known
<1>1. /\ timers \in Seq(Timers)
      /\ Len(timers) \in Nat
      /\ DOMAIN timers = 1 .. Len(timers)
    BY LenProperties DEF TypeOK
<1>2. \A i \in DOMAIN timers : timers[i] \in Timers
    BY <1>1, ElementOfSeq
<1>3. QED
    BY <1>1, <1>2 DEF Timers

\* What a variable's new id does to the timers: each stays in its place and
\* of its button, and only who knows it changes.
LEMMA StoreType ==
    ASSUME TypeOK, NEW b \in Buttons, NEW holder
    PROVE  /\ Store(b, holder) \in Seq(Timers)
           /\ DOMAIN Store(b, holder) = DOMAIN timers
           /\ \A i \in DOMAIN timers :
                 /\ Store(b, holder)[i].button = timers[i].button
                 /\ timers[i].button # b => Store(b, holder)[i] = timers[i]
                 /\ Store(b, holder)[i].known =
                      IF timers[i].button # b THEN timers[i].known
                      ELSE KnownAfter(timers[i].known, holder)
<1>1. /\ timers \in Seq(Timers)
      /\ Len(timers) \in Nat
      /\ DOMAIN timers = 1 .. Len(timers)
    BY TimersType
<1>2. \A i \in DOMAIN timers : timers[i] \in Timers
    BY TimersType
<1>3. \A i \in DOMAIN timers :
          /\ Store(b, holder)[i] \in Timers
          /\ Store(b, holder)[i].button = timers[i].button
          /\ Store(b, holder)[i].known =
               IF timers[i].button # b THEN timers[i].known
               ELSE KnownAfter(timers[i].known, holder)
    <2> SUFFICES ASSUME NEW i \in DOMAIN timers
                 PROVE  /\ Store(b, holder)[i] \in Timers
                        /\ Store(b, holder)[i].button = timers[i].button
                        /\ Store(b, holder)[i].known =
                             IF timers[i].button # b THEN timers[i].known
                             ELSE KnownAfter(timers[i].known, holder)
        OBVIOUS
    <2>1. timers[i] \in Timers
        BY <1>2
    <2>2. QED
        BY <2>1 DEF Store, Timers, Known, KnownAfter
<1>4. QED
    BY <1>1, <1>3 DEF Store

\* The indices of a sequence that has grown by an element, and what is there.
LEMMA Appended ==
    ASSUME NEW S, NEW s \in Seq(S), NEW e \in S
    PROVE  /\ Append(s, e) \in Seq(S)
           /\ Len(s) \in Nat
           /\ DOMAIN s = 1 .. Len(s)
           /\ DOMAIN Append(s, e) = 1 .. Len(s) + 1
           /\ \A i \in DOMAIN s : i \in DOMAIN Append(s, e) /\ Append(s, e)[i] = s[i]
           /\ Append(s, e)[Len(s) + 1] = e
<1>1. /\ Append(s, e) \in Seq(S)
      /\ Len(Append(s, e)) = Len(s) + 1
      /\ \A i \in 1 .. Len(s) : Append(s, e)[i] = s[i]
      /\ Append(s, e)[Len(s) + 1] = e
    BY AppendProperties
<1>2. /\ Len(s) \in Nat
      /\ DOMAIN s = 1 .. Len(s)
      /\ DOMAIN Append(s, e) = 1 .. Len(Append(s, e))
    BY <1>1, LenProperties
<1>3. QED
    BY <1>1, <1>2

\* The same of a sequence that has lost its first element.
LEMMA Taken ==
    ASSUME NEW S, NEW s \in Seq(S), s # <<>>
    PROVE  /\ Tail(s) \in Seq(S)
           /\ Head(s) = s[1]
           /\ Head(s) \in S
           /\ 1 \in DOMAIN s
           /\ \A i \in DOMAIN Tail(s) : i \in Nat /\ i + 1 \in DOMAIN s /\ Tail(s)[i] = s[i + 1]
           /\ \A i \in DOMAIN s : i # 1 => i \in Nat /\ i - 1 \in DOMAIN Tail(s)
                                             /\ Tail(s)[i - 1] = s[i]
<1>1. /\ Head(s) \in S
      /\ Tail(s) \in Seq(S)
      /\ Len(Tail(s)) = Len(s) - 1
      /\ \A i \in 1 .. Len(Tail(s)) : Tail(s)[i] = s[i + 1]
    BY HeadTailProperties
<1>2. /\ Len(s) \in Nat \ {0}
      /\ DOMAIN s = 1 .. Len(s)
      /\ DOMAIN Tail(s) = 1 .. Len(Tail(s))
    BY <1>1, EmptySeq, LenProperties
<1>3. Head(s) = s[1]
    BY DEF Head
<1>4. \A i \in DOMAIN s : i # 1 => i \in Nat /\ i - 1 \in DOMAIN Tail(s) /\ (i - 1) + 1 = i
    BY <1>1, <1>2, SMT
<1>5. QED
    BY <1>1, <1>2, <1>3, <1>4, SMT

-----------------------------------------------------------------------------
(* The adapter.                                                            *)

\* The adapter's calls come in pairs.
LEMMA CallsPairedStep ==
    ASSUME CallsPaired, [Next]_vars
    PROVE  CallsPaired'
<1>1. ASSUME NEW b \in Buttons, Move(b) PROVE CallsPaired'
    BY <1>1 DEF Move, CallsPaired, adapter
<1>2. CASE Handler
    <2>1. UNCHANGED <<loop, adapter, alive>>
        BY <1>2 DEF Handler, TakeLine, AddTimer, StoreId, FinishPress, TestId, RemoveTimer
    <2>2. QED
        BY <2>1 DEF CallsPaired, adapter
<1>3. CASE MainLoop
    <2>1. CASE Fire
        BY <2>1 DEF Fire, CallsPaired, adapter
    <2>2. CASE Authorise
        BY <2>2 DEF Authorise, CallsPaired, adapter
    <2>3. CASE OpenAdapter
        BY <2>3 DEF OpenAdapter, SetDiscoverable, SetPairable, CallsPaired
    <2>4. CASE CloseAdapter
        BY <2>4 DEF CloseAdapter, SetDiscoverable, SetPairable, CallsPaired
    <2>5. CASE loop = "resetLeft" /\ ResetId("left")
        BY <2>5 DEF ResetId, CallsPaired, adapter
    <2>6. CASE loop = "resetRight" /\ ResetId("right")
        BY <2>6 DEF ResetId, CallsPaired, adapter
    <2>7. QED
        BY <1>3, <2>1, <2>2, <2>3, <2>4, <2>5, <2>6 DEF MainLoop
<1>4. CASE AskAgent
    BY <1>4 DEF AskAgent, CallsPaired, adapter
<1>5. CASE DiscoverableEnds
    BY <1>5 DEF DiscoverableEnds, CallsPaired
<1>6. CASE UNCHANGED vars
    BY <1>6 DEF vars, adapter, CallsPaired
<1>7. QED
    BY <1>1, <1>2, <1>3, <1>4, <1>5, <1>6 DEF Next

\* Between two callbacks the adapter is never left discoverable without being
\* pairable (main.kt:275, PinAgent.kt:106), for any number of timers.
THEOREM AdapterNeverHalfOpen == Spec => []NeverHalfOpen
<1>1. Init => CallsPaired
    BY DEF Init, CallsPaired
<1>2. CallsPaired /\ [Next]_vars => CallsPaired'
    BY CallsPairedStep
<1>3. CallsPaired => NeverHalfOpen
    BY DEF CallsPaired, NeverHalfOpen
<1>4. QED
    BY <1>1, <1>2, <1>3, PTL DEF Spec

-----------------------------------------------------------------------------
(* The timers.                                                             *)

\* A button that is up has had its release lost, or on its way.
Covered(b) == held[b] \/ lost[b] \/ ReleaseComing(b)

\* Every timer whose id is known is of a button that is covered.
LEMMA KnownCovered ==
    ASSUME TimerInv, NEW i \in DOMAIN timers, timers[i].known # "nobody"
    PROVE  \E c \in Buttons : timers[i].button = c /\ Covered(c)
<1>1. timers[i].button \in Buttons
    BY TimersType DEF TimerInv
<1>2. PICK c \in Buttons : timers[i].button = c
    BY <1>1
<1>3. Covered(c)
    BY <1>2 DEF TimerInv, TimerMeansHeld, Covered
<1>4. QED
    BY <1>2, <1>3

\* The same in the next state says that timers mean held buttons.
LEMMA StillCovered ==
    ASSUME \A i \in DOMAIN timers' :
               \/ timers'[i].known = "nobody"
               \/ \E c \in Buttons : timers'[i].button = c /\ Covered(c)'
    PROVE  TimerMeansHeld'
BY DEF TimerMeansHeld, Covered

\* Nothing that the invariant speaks of changes.
LEMMA UnchangedInv ==
    ASSUME TimerInv,
           UNCHANGED <<held, lines, lost, handler, button, timeoutId, timers>>,
           loop' \in {"idle", "resetLeft", "show", "pair", "resetRight", "unpair", "hide"},
           asked' \in BOOLEAN, discoverable' \in BOOLEAN, pairable' \in BOOLEAN,
           touched' \in BOOLEAN, alive' \in BOOLEAN
    PROVE  TimerInv'
<1>1. TypeOK'
    BY DEF TimerInv, TypeOK, IdsKnown
<1>2. TimerMeansHeld' /\ PressesAnswered' /\ AddAnswered'
    BY DEF TimerInv, TimerMeansHeld, ReleaseComing, PressesAnswered, AddAnswered
<1>3. QED
    BY <1>1, <1>2 DEF TimerInv

\* A line that gets through says how the button is by then.
LEMMA MoveInv ==
    ASSUME TimerInv, NEW b \in Buttons, Move(b)
    PROVE  TimerInv'
<1> DEFINE e == [button |-> b, pressed |-> ~held[b]]
<1>1. /\ lines \in Seq(Lines)
      /\ held \in [Buttons -> BOOLEAN]
      /\ lost \in [Buttons -> BOOLEAN]
    BY DEF TimerInv, TypeOK
<1>2. e \in Lines
    BY <1>1 DEF Lines
<1>3. /\ Append(lines, e) \in Seq(Lines)
      /\ Len(lines) \in Nat
      /\ DOMAIN lines = 1 .. Len(lines)
      /\ DOMAIN Append(lines, e) = 1 .. Len(lines) + 1
      /\ \A i \in DOMAIN lines : i \in DOMAIN Append(lines, e) /\ Append(lines, e)[i] = lines[i]
      /\ Append(lines, e)[Len(lines) + 1] = e
    BY <1>1, <1>2, Appended
<1>4. /\ held' = [held EXCEPT ![b] = ~held[b]]
      /\ \/ lines' = Append(lines, e) /\ lost' = [lost EXCEPT ![b] = FALSE]
         \/ lines' = lines /\ lost' = [lost EXCEPT ![b] = TRUE]
      /\ UNCHANGED <<handler, button, timeoutId, timers, loop, asked, discoverable, pairable,
                     touched, alive>>
    BY DEF Move, uart, adapter
<1>5. TypeOK'
    <2>1. held' \in [Buttons -> BOOLEAN] /\ lost' \in [Buttons -> BOOLEAN] /\ lines' \in Seq(Lines)
        BY <1>1, <1>3, <1>4
    <2>2. QED
        BY <1>4, <2>1 DEF TimerInv, TypeOK, IdsKnown
<1>6. \A i \in DOMAIN lines : i \in DOMAIN lines' /\ lines'[i] = lines[i]
    BY <1>3, <1>4
<1>7. \A c \in Buttons : c # b => held'[c] = held[c] /\ lost'[c] = lost[c]
    BY <1>1, <1>4
\* The last line of b is its release, if it is up and nothing was lost.
<1>8. ~held'[b] /\ ~lost'[b] =>
          /\ lines' = Append(lines, e)
          /\ Len(lines) + 1 \in DOMAIN lines'
          /\ lines'[Len(lines) + 1] = Release(b)
    <2> SUFFICES ASSUME ~held'[b], ~lost'[b]
                 PROVE  /\ lines' = Append(lines, e)
                        /\ Len(lines) + 1 \in DOMAIN lines'
                        /\ lines'[Len(lines) + 1] = Release(b)
        OBVIOUS
    <2>1. held[b] = TRUE
        BY <1>1, <1>4
    <2>2. lines' = Append(lines, e)
        BY <1>1, <1>4
    <2>3. e = Release(b)
        BY <2>1 DEF Release
    <2>4. Len(lines) + 1 \in 1 .. Len(lines) + 1
        BY <1>3
    <2>5. QED
        BY <1>3, <2>2, <2>3, <2>4
<1> HIDE DEF e
<1>9. \A c \in Buttons : Covered(c) => Covered(c)'
    <2> SUFFICES ASSUME NEW c \in Buttons, Covered(c), ~held'[c], ~lost'[c]
                 PROVE  ReleaseComing(c)'
        BY DEF Covered
    <2>1. CASE c = b
        BY <1>8, <2>1 DEF ReleaseComing, Release
    <2>2. CASE c # b
        <3>1. ReleaseComing(c)
            BY <1>7, <2>2 DEF Covered
        <3>2. QED
            BY <1>4, <1>6, <3>1 DEF ReleaseComing
    <2>3. QED
        BY <2>1, <2>2
<1>10. \A i \in DOMAIN timers : timers[i].button \in Buttons
    BY TimersType DEF TimerInv
<1>11. TimerMeansHeld'
    BY <1>4, <1>9, <1>10 DEF TimerInv, TimerMeansHeld, Covered
<1>12. PressesAnswered'
    <2> SUFFICES ASSUME NEW c \in Buttons, ~held'[c], ~lost'[c],
                        NEW i \in DOMAIN lines', lines'[i] = Press(c)
                 PROVE  \E j \in DOMAIN lines' : i < j /\ lines'[j] = Release(c)
        BY DEF PressesAnswered, Press, Release
    <2>1. CASE c = b
        <3>1. i # Len(lines) + 1
            BY <1>8, <2>1 DEF Press, Release
        <3>2. i < Len(lines) + 1
            BY <1>3, <1>8, <2>1, <3>1
        <3>3. QED
            BY <1>8, <2>1, <3>2
    <2>2. CASE c # b
        <3>1. i \in DOMAIN lines /\ lines[i] = Press(c)
            <4>1. CASE lines' = lines
                BY <4>1
            <4>2. CASE lines' = Append(lines, e)
                <5>1. i # Len(lines) + 1
                    BY <1>3, <2>2, <4>2 DEF Press, e
                <5>2. i \in DOMAIN lines
                    BY <1>3, <4>2, <5>1
                <5>3. QED
                    BY <1>6, <5>2
            <4>3. QED
                BY <1>4, <4>1, <4>2
        <3>2. PICK j \in DOMAIN lines : i < j /\ lines[j] = Release(c)
            BY <1>7, <2>2, <3>1 DEF TimerInv, PressesAnswered
        <3>3. QED
            BY <1>6, <3>2
    <2>3. QED
        BY <2>1, <2>2
<1>13. AddAnswered'
    <2> SUFFICES ASSUME handler = "add", ~held'[button], ~lost'[button]
                 PROVE  \E j \in DOMAIN lines' : lines'[j] = Release(button)
        BY <1>4 DEF AddAnswered, Release
    <2>1. button \in Buttons
        BY DEF TimerInv, TypeOK
    <2>2. CASE button = b
        BY <1>8, <2>2
    <2>3. CASE button # b
        <3>1. PICK j \in DOMAIN lines : lines[j] = Release(button)
            BY <1>7, <2>1, <2>3 DEF TimerInv, AddAnswered
        <3>2. QED
            BY <1>6, <3>1
    <2>4. QED
        BY <2>2, <2>3
<1>14. QED
    BY <1>5, <1>11, <1>12, <1>13 DEF TimerInv

\* A line is taken: a press has its release behind it, if it needs one.
LEMMA TakeInv ==
    ASSUME TimerInv, TakeLine
    PROVE  TimerInv'
<1>1. /\ Tail(lines) \in Seq(Lines)
      /\ Head(lines) = lines[1]
      /\ Head(lines) \in Lines
      /\ 1 \in DOMAIN lines
      /\ \A i \in DOMAIN Tail(lines) :
            i \in Nat /\ i + 1 \in DOMAIN lines /\ Tail(lines)[i] = lines[i + 1]
      /\ \A i \in DOMAIN lines :
            i # 1 => i \in Nat /\ i - 1 \in DOMAIN Tail(lines) /\ Tail(lines)[i - 1] = lines[i]
    <2>1. lines \in Seq(Lines) /\ lines # <<>>
        BY DEF TimerInv, TypeOK, TakeLine
    <2>2. QED
        BY <2>1, Taken
<1>2. /\ handler = "idle"
      /\ lines' = Tail(lines)
      /\ button' = lines[1].button
      /\ handler' = IF lines[1].pressed THEN "add" ELSE "test"
      /\ UNCHANGED <<held, lost, timeoutId, timers, loop, asked, discoverable, pairable,
                     touched, alive>>
    BY <1>1 DEF TakeLine, adapter
<1>3. /\ lines[1].button \in Buttons
      /\ lines[1].pressed \in BOOLEAN
      /\ lines[1] = [button |-> lines[1].button, pressed |-> lines[1].pressed]
    BY <1>1 DEF Lines
<1>4. TypeOK'
    <2>1. IdsKnown'
        BY <1>2 DEF TimerInv, TypeOK, IdsKnown
    <2>2. button' # None
        BY <1>2, <1>3 DEF Buttons, None
    <2>3. QED
        BY <1>1, <1>2, <1>3, <2>1, <2>2 DEF TimerInv, TypeOK
<1>5. \A c \in Buttons : Covered(c) => Covered(c)'
    <2> SUFFICES ASSUME NEW c \in Buttons, ReleaseComing(c)
                 PROVE  ReleaseComing(c)'
        BY <1>2 DEF Covered
    <2>1. PICK i \in DOMAIN lines : lines[i] = Release(c)
        BY <1>2 DEF ReleaseComing, Release
    <2>2. CASE i = 1
        BY <1>2, <2>1, <2>2 DEF ReleaseComing, Release
    <2>3. CASE i # 1
        <3>1. i - 1 \in DOMAIN lines' /\ lines'[i - 1] = Release(c)
            BY <1>1, <1>2, <2>1, <2>3
        <3>2. QED
            BY <3>1 DEF ReleaseComing, Release
    <2>4. QED
        BY <2>2, <2>3
<1>6. TimerMeansHeld'
    BY <1>2, <1>5, TimersType DEF TimerInv, TimerMeansHeld, Covered
<1>7. PressesAnswered'
    <2> SUFFICES ASSUME NEW c \in Buttons, ~held[c], ~lost[c],
                        NEW i \in DOMAIN Tail(lines), Tail(lines)[i] = Press(c)
                 PROVE  \E j \in DOMAIN Tail(lines) : i < j /\ Tail(lines)[j] = Release(c)
        BY <1>2 DEF PressesAnswered, Press, Release
    <2>1. PICK j \in DOMAIN lines : i + 1 < j /\ lines[j] = Release(c)
        BY <1>1 DEF TimerInv, PressesAnswered
    <2>2. j # 1 /\ i \in Nat
        BY <1>1, <2>1
    <2>3. j - 1 \in DOMAIN Tail(lines) /\ Tail(lines)[j - 1] = lines[j] /\ j \in Nat
        BY <1>1, <2>2
    <2>4. i < j - 1
        BY <2>1, <2>2, <2>3
    <2>5. QED
        BY <2>1, <2>3, <2>4
<1>8. AddAnswered'
    <2> DEFINE c == lines[1].button
    <2> SUFFICES ASSUME lines[1].pressed, ~held[c], ~lost[c]
                 PROVE  \E j \in DOMAIN Tail(lines) : Tail(lines)[j] = Release(c)
        BY <1>2 DEF AddAnswered, Release
    <2>1. lines[1] = Press(c)
        BY <1>3 DEF Press
    <2>2. PICK j \in DOMAIN lines : 1 < j /\ lines[j] = Release(c)
        BY <1>1, <1>3, <2>1 DEF TimerInv, PressesAnswered
    <2>3. j - 1 \in DOMAIN Tail(lines) /\ Tail(lines)[j - 1] = Release(c)
        BY <1>1, <2>2
    <2>4. QED
        BY <2>3
<1>9. QED
    BY <1>4, <1>6, <1>7, <1>8 DEF TimerInv

\* A timer is attached for a press.
LEMMA AddInv ==
    ASSUME TimerInv, AddTimer
    PROVE  TimerInv'
<1> DEFINE t == [button |-> button, known |-> "handler"]
<1>1. /\ handler = "add"
      /\ handler' = "store"
      /\ timers' = Append(timers, t)
      /\ UNCHANGED <<held, lines, lost, button, timeoutId, loop, asked, discoverable, pairable,
                     touched, alive>>
    BY DEF AddTimer, adapter
<1>2. button \in Buttons /\ button # None
    BY <1>1 DEF TimerInv, TypeOK
<1>3. t \in Timers
    BY <1>2 DEF Timers, Known
<1>4. /\ Append(timers, t) \in Seq(Timers)
      /\ Len(timers) \in Nat
      /\ DOMAIN timers = 1 .. Len(timers)
      /\ DOMAIN Append(timers, t) = 1 .. Len(timers) + 1
      /\ \A i \in DOMAIN timers :
            i \in DOMAIN Append(timers, t) /\ Append(timers, t)[i] = timers[i]
      /\ Append(timers, t)[Len(timers) + 1] = t
    <2>1. timers \in Seq(Timers)
        BY DEF TimerInv, TypeOK
    <2>2. QED
        BY <1>3, <2>1, Appended
<1>5. \A i \in DOMAIN timers' :
          (i \in DOMAIN timers /\ timers'[i] = timers[i]) \/ (i = Len(timers) + 1 /\ timers'[i] = t)
    BY <1>1, <1>4
<1>6. \A i \in DOMAIN timers : timers[i].known # "handler"
    BY <1>1 DEF TimerInv, TypeOK, IdsKnown
<1> HIDE DEF t
<1>7. IdsKnown'
    <2>1. \A i, j \in DOMAIN timers' :
              timers'[i] = timers'[j] /\ timers'[i].known # "nobody" => i = j
        BY <1>5, <1>6 DEF t, TimerInv, TypeOK, IdsKnown
    <2>2. \A i \in DOMAIN timers' :
              /\ timers'[i].known = "variable" => timeoutId'[timers'[i].button]
              /\ timers'[i].known = "handler" => handler' = "store" /\ timers'[i].button = button'
        BY <1>1, <1>5, <1>6 DEF t, TimerInv, TypeOK, IdsKnown
    <2>3. QED
        BY <2>1, <2>2 DEF IdsKnown
<1>8. TypeOK'
    BY <1>1, <1>2, <1>4, <1>7 DEF TimerInv, TypeOK
<1>9. \A c \in Buttons : Covered(c) => Covered(c)'
    BY <1>1 DEF Covered, ReleaseComing
<1>10. Covered(button)
    BY <1>1, <1>2 DEF TimerInv, AddAnswered, Covered, ReleaseComing, Release
<1>11. TimerMeansHeld'
    <2> SUFFICES ASSUME NEW i \in DOMAIN timers', timers'[i].known # "nobody"
                 PROVE  \E c \in Buttons : timers'[i].button = c /\ Covered(c)'
        BY StillCovered
    <2>1. CASE i \in DOMAIN timers /\ timers'[i] = timers[i]
        BY <1>9, <2>1, KnownCovered
    <2>2. CASE timers'[i] = t
        <3>1. timers'[i].button = button
            BY <2>2 DEF t
        <3>2. PICK c \in Buttons : c = button
            BY <1>2
        <3>3. Covered(c)
            BY <1>10, <3>2
        <3>4. QED
            BY <1>9, <3>1, <3>2, <3>3
    <2>3. QED
        BY <1>5, <2>1, <2>2
<1>12. PressesAnswered' /\ AddAnswered'
    BY <1>1 DEF TimerInv, PressesAnswered, AddAnswered
<1>13. QED
    BY <1>8, <1>11, <1>12 DEF TimerInv

\* The id is stored: the timer it belongs to is known to the variable now,
\* and the one whose id was there to nobody.
LEMMA StoreInv ==
    ASSUME TimerInv, StoreId
    PROVE  TimerInv'
<1>1. /\ handler = "store"
      /\ handler' = "rest"
      /\ timeoutId' = [timeoutId EXCEPT ![button] = TRUE]
      /\ timers' = Store(button, "handler")
      /\ UNCHANGED <<held, lines, lost, button, loop, asked, discoverable, pairable, touched,
                     alive>>
    BY DEF StoreId, adapter
<1>2. button \in Buttons /\ button # None /\ TypeOK
    BY <1>1 DEF TimerInv, TypeOK
<1>3. /\ timers' \in Seq(Timers)
      /\ DOMAIN timers' = DOMAIN timers
      /\ \A i \in DOMAIN timers :
            /\ timers'[i].button = timers[i].button
            /\ timers[i].button # button => timers'[i] = timers[i]
            /\ timers'[i].known =
                 IF timers[i].button # button THEN timers[i].known
                 ELSE KnownAfter(timers[i].known, "handler")
    <2>1. /\ Store(button, "handler") \in Seq(Timers)
          /\ DOMAIN Store(button, "handler") = DOMAIN timers
          /\ \A i \in DOMAIN timers :
                /\ Store(button, "handler")[i].button = timers[i].button
                /\ timers[i].button # button => Store(button, "handler")[i] = timers[i]
                /\ Store(button, "handler")[i].known =
                     IF timers[i].button # button THEN timers[i].known
                     ELSE KnownAfter(timers[i].known, "handler")
        BY <1>2, StoreType, Zenon
    <2>2. QED
        BY <1>1, <2>1, Zenon
<1>4. \A i \in DOMAIN timers :
          /\ timers[i] = [button |-> timers[i].button, known |-> timers[i].known]
          /\ timers[i].known \in Known
          /\ timers[i].known = "handler" => timers[i].button = button
    BY <1>2, TimersType DEF TypeOK, IdsKnown, Timers
<1>5. \A i \in DOMAIN timers :
          /\ timers'[i].known \in Known \ {"handler"}
          /\ timers'[i].known = "variable" =>
                \/ timers[i].button = button /\ timers[i].known = "handler"
                \/ timers[i].button # button /\ timers[i].known = "variable"
          /\ timers'[i].known # "nobody" => timers[i].known # "nobody"
    BY <1>3, <1>4 DEF Known, KnownAfter
<1>6. IdsKnown'
    <2>1. ASSUME NEW i \in DOMAIN timers, NEW j \in DOMAIN timers,
                 timers'[i] = timers'[j], timers'[i].known # "nobody"
          PROVE  i = j
        <3>1. timers[i].button = timers[j].button /\ timers'[i].known = timers'[j].known
            BY <1>3, <2>1
        <3>2. timers'[i].known = "variable"
            BY <1>3, <1>4, <1>5, <2>1 DEF Known
        <3>3. timers[i].known = timers[j].known /\ timers[i].known # "nobody"
            BY <1>5, <3>1, <3>2
        <3>4. timers[i] = timers[j]
            BY <1>4, <3>1, <3>3
        <3>5. QED
            BY <1>2, <3>3, <3>4 DEF TypeOK, IdsKnown
    <2>2. \A i \in DOMAIN timers :
              timers'[i].known = "variable" => timeoutId'[timers'[i].button]
        BY <1>1, <1>2, <1>3, <1>5, TimersType DEF TypeOK, IdsKnown
    <2>3. QED
        BY <1>3, <1>5, <2>1, <2>2 DEF IdsKnown
<1>7. TypeOK'
    BY <1>1, <1>2, <1>3, <1>6 DEF TypeOK
<1>8. \A c \in Buttons : Covered(c) => Covered(c)'
    BY <1>1 DEF Covered, ReleaseComing
<1>9. TimerMeansHeld'
    <2> SUFFICES ASSUME NEW i \in DOMAIN timers', timers'[i].known # "nobody"
                 PROVE  \E c \in Buttons : timers'[i].button = c /\ Covered(c)'
        BY StillCovered
    <2>1. PICK c \in Buttons : timers[i].button = c /\ Covered(c)
        BY <1>3, <1>5, KnownCovered
    <2>2. QED
        BY <1>3, <1>8, <2>1
<1>10. PressesAnswered' /\ AddAnswered'
    BY <1>1 DEF TimerInv, PressesAnswered, AddAnswered
<1>11. QED
    BY <1>7, <1>9, <1>10 DEF TimerInv

\* The callback forgets an id: a timer that had it is known to nobody.
LEMMA ResetInv ==
    ASSUME TimerInv, NEW b \in Buttons, ResetId(b)
    PROVE  TimerInv'
<1>1. /\ timeoutId' = [timeoutId EXCEPT ![b] = FALSE]
      /\ timers' = Store(b, "no id")
      /\ loop' = "idle"
      /\ UNCHANGED <<held, lines, lost, handler, button, asked, discoverable, pairable, touched,
                     alive>>
    BY DEF ResetId, uart, adapter
<1>2. TypeOK
    BY DEF TimerInv
<1>3. /\ timers' \in Seq(Timers)
      /\ DOMAIN timers' = DOMAIN timers
      /\ \A i \in DOMAIN timers :
            /\ timers'[i].button = timers[i].button
            /\ timers'[i].known =
                 IF timers[i].button # b THEN timers[i].known
                 ELSE KnownAfter(timers[i].known, "no id")
    <2>1. /\ Store(b, "no id") \in Seq(Timers)
          /\ DOMAIN Store(b, "no id") = DOMAIN timers
          /\ \A i \in DOMAIN timers :
                /\ Store(b, "no id")[i].button = timers[i].button
                /\ timers[i].button # b => Store(b, "no id")[i] = timers[i]
                /\ Store(b, "no id")[i].known =
                     IF timers[i].button # b THEN timers[i].known
                     ELSE KnownAfter(timers[i].known, "no id")
        BY <1>2, StoreType, Zenon
    <2>2. QED
        BY <1>1, <2>1, Zenon
<1>4. \A i \in DOMAIN timers :
          /\ timers[i] = [button |-> timers[i].button, known |-> timers[i].known]
          /\ timers[i].known \in Known
    BY <1>2, TimersType DEF Timers
<1>5. \A i \in DOMAIN timers :
          /\ timers'[i].known # "nobody" => timers'[i].known = timers[i].known
          /\ timers'[i].known = "variable" => timers[i].button # b
    BY <1>3, <1>4 DEF Known, KnownAfter
<1>6. IdsKnown'
    <2>1. ASSUME NEW i \in DOMAIN timers, NEW j \in DOMAIN timers,
                 timers'[i] = timers'[j], timers'[i].known # "nobody"
          PROVE  i = j
        <3>1. timers[i].button = timers[j].button /\ timers[i].known = timers[j].known
            BY <1>3, <1>5, <2>1
        <3>2. timers[i] = timers[j]
            BY <1>4, <3>1
        <3>3. QED
            BY <1>2, <1>5, <2>1, <3>2 DEF TypeOK, IdsKnown
    <2>2. \A i \in DOMAIN timers :
              timers'[i].known = "variable" => timeoutId'[timers'[i].button]
        BY <1>1, <1>2, <1>3, <1>5, TimersType DEF TypeOK, IdsKnown
    <2>3. \A i \in DOMAIN timers :
              timers'[i].known = "handler" => handler' = "store" /\ timers'[i].button = button'
        BY <1>1, <1>2, <1>3, <1>5 DEF TypeOK, IdsKnown
    <2>4. QED
        BY <1>3, <2>1, <2>2, <2>3 DEF IdsKnown
<1>7. TypeOK'
    BY <1>1, <1>2, <1>3, <1>6 DEF TypeOK
<1>8. \A c \in Buttons : Covered(c) => Covered(c)'
    BY <1>1 DEF Covered, ReleaseComing
<1>9. TimerMeansHeld'
    <2> SUFFICES ASSUME NEW i \in DOMAIN timers', timers'[i].known # "nobody"
                 PROVE  \E c \in Buttons : timers'[i].button = c /\ Covered(c)'
        BY StillCovered
    <2>1. PICK c \in Buttons : timers[i].button = c /\ Covered(c)
        BY <1>3, <1>5, KnownCovered
    <2>2. QED
        BY <1>3, <1>8, <2>1
<1>10. PressesAnswered' /\ AddAnswered'
    BY <1>1 DEF TimerInv, PressesAnswered, AddAnswered
<1>11. QED
    BY <1>7, <1>9, <1>10 DEF TimerInv

\* The rest of a press leaves the timers alone; lines that are dropped are
\* lost.
LEMMA FinishInv ==
    ASSUME TimerInv, FinishPress
    PROVE  TimerInv'
<1>1. /\ handler = "rest"
      /\ button' = None
      /\ \/ handler' = "idle" /\ UNCHANGED <<lines, lost>>
         \/ /\ handler' = "over"
            /\ lines' = <<>>
            /\ lost' = [b \in Buttons |-> lost[b] \/ \E i \in DOMAIN lines : lines[i].button = b]
      /\ UNCHANGED <<held, timeoutId, timers, loop, asked, discoverable, pairable, touched,
                     alive>>
    BY DEF FinishPress, adapter
<1>2. TypeOK
    BY DEF TimerInv
<1>3. lines' \in Seq(Lines) /\ lost' \in [Buttons -> BOOLEAN]
    <2>1. CASE UNCHANGED <<lines, lost>>
        BY <1>2, <2>1 DEF TypeOK
    <2>2. CASE /\ lines' = <<>>
               /\ lost' = [b \in Buttons |-> lost[b] \/ \E i \in DOMAIN lines : lines[i].button = b]
        <3>1. lines' \in Seq(Lines)
            BY <2>2, EmptySeq
        <3>2. \A b \in Buttons : (lost[b] \/ \E i \in DOMAIN lines : lines[i].button = b) \in BOOLEAN
            OBVIOUS
        <3>3. QED
            BY <2>2, <3>1, <3>2, Zenon
    <2>3. QED
        BY <1>1, <2>1, <2>2
<1>4. IdsKnown'
    BY <1>1, <1>2 DEF TypeOK, IdsKnown
<1>5. TypeOK'
    BY <1>1, <1>2, <1>3, <1>4 DEF TypeOK
<1>6. \A c \in Buttons : Covered(c) => Covered(c)'
    <2> SUFFICES ASSUME NEW c \in Buttons, Covered(c), ~held[c], ~lost'[c]
                 PROVE  ReleaseComing(c)'
        BY <1>1 DEF Covered
    <2>1. ~lost[c]
        BY <1>1
    <2>2. PICK k \in DOMAIN lines : lines[k] = Release(c)
        BY <1>1, <2>1 DEF Covered, ReleaseComing, Release
    <2>3. UNCHANGED lines
        <3>1. \E i \in DOMAIN lines : lines[i].button = c
            BY <2>2 DEF Release
        <3>2. lost' # [b \in Buttons |-> lost[b] \/ \E i \in DOMAIN lines : lines[i].button = b]
            BY <3>1, Zenon
        <3>3. QED
            BY <1>1, <3>2
    <2>4. QED
        BY <2>2, <2>3 DEF ReleaseComing, Release
<1>7. TimerMeansHeld'
    BY <1>1, <1>6, KnownCovered, StillCovered
<1>8. PressesAnswered' /\ AddAnswered'
    <2>1. CASE UNCHANGED <<lines, lost>>
        BY <1>1, <2>1 DEF TimerInv, PressesAnswered, AddAnswered
    <2>2. CASE lines' = <<>>
        BY <1>1, <2>2 DEF PressesAnswered, AddAnswered
    <2>3. QED
        BY <1>1, <2>1, <2>2
<1>9. QED
    BY <1>5, <1>7, <1>8 DEF TimerInv

\* A variable that is -1 has no timer's id, so the release may be dropped.
LEMMA TestInv ==
    ASSUME TimerInv, TestId
    PROVE  TimerInv'
<1>1. /\ handler = "test"
      /\ \/ timeoutId[button] /\ handler' = "remove" /\ UNCHANGED button
         \/ ~timeoutId[button] /\ handler' = "idle" /\ button' = None
      /\ UNCHANGED <<held, lines, lost, timeoutId, timers, loop, asked, discoverable, pairable,
                     touched, alive>>
    BY DEF TestId, adapter
<1>2. TypeOK /\ button \in Buttons /\ button # None
    BY <1>1 DEF TimerInv, TypeOK
<1>3. IdsKnown'
    BY <1>1, <1>2 DEF TypeOK, IdsKnown
<1>4. TypeOK'
    BY <1>1, <1>2, <1>3 DEF TypeOK
<1>5. TimerMeansHeld'
    <2> SUFFICES ASSUME NEW i \in DOMAIN timers, timers[i].known # "nobody"
                 PROVE  \E c \in Buttons : timers[i].button = c /\ Covered(c)'
        BY <1>1, StillCovered
    <2>1. PICK c \in Buttons : timers[i].button = c /\ Covered(c)
        BY KnownCovered
    <2>2. CASE timeoutId[button]
        <3>1. handler' = "remove" /\ button' = button
            BY <1>1, <2>2
        <3>2. QED
            BY <1>1, <2>1, <3>1 DEF Covered, ReleaseComing
    <2>3. CASE ~timeoutId[button]
        <3>1. timers[i].known = "variable"
            BY <1>1, <1>2, TimersType DEF TypeOK, IdsKnown, Known
        <3>2. c # button
            BY <1>2, <2>1, <2>3, <3>1 DEF TypeOK, IdsKnown
        <3>3. QED
            BY <1>1, <2>1, <3>2 DEF Covered, ReleaseComing
    <2>4. QED
        BY <2>2, <2>3
<1>6. PressesAnswered' /\ AddAnswered'
    BY <1>1 DEF TimerInv, PressesAnswered, AddAnswered
<1>7. QED
    BY <1>4, <1>5, <1>6 DEF TimerInv

\* The timer of a release is removed, if the variable still has its id.
LEMMA RemoveInv ==
    ASSUME TimerInv, RemoveTimer
    PROVE  TimerInv'
<1>1. /\ handler = "remove"
      /\ handler' = "idle"
      /\ button' = None
      /\ UNCHANGED <<held, lines, lost, timeoutId, loop, asked, discoverable, pairable,
                     touched, alive>>
    BY DEF RemoveTimer, adapter
<1>2. TypeOK /\ button \in Buttons
    BY <1>1 DEF TimerInv, TypeOK
\* A timer of another button, or one that nobody knows, needs no release here.
<1>3. ASSUME NEW i \in DOMAIN timers, timers[i].known # "nobody", ~IsKnown(i)
      PROVE  \E c \in Buttons : timers[i].button = c /\ Covered(c)'
    <2>1. PICK c \in Buttons : timers[i].button = c /\ Covered(c)
        BY <1>3, KnownCovered
    <2>2. timers[i].known = "variable"
        BY <1>1, <1>2, <1>3, TimersType DEF TypeOK, IdsKnown, Known
    <2>3. timers[i] = [button |-> timers[i].button, known |-> timers[i].known]
        BY <1>2, TimersType DEF Timers
    <2>4. c # button
        BY <1>3, <2>1, <2>2, <2>3 DEF IsKnown
    <2>5. QED
        BY <1>1, <2>1, <2>4 DEF Covered, ReleaseComing
<1>4. PressesAnswered' /\ AddAnswered'
    BY <1>1 DEF TimerInv, PressesAnswered, AddAnswered
<1>5. CASE ~ \E i \in DOMAIN timers : IsKnown(i)
    <2>1. UNCHANGED timers
        BY <1>5 DEF RemoveTimer
    <2>2. IdsKnown'
        BY <1>1, <1>2, <2>1 DEF TypeOK, IdsKnown
    <2>3. TypeOK'
        BY <1>1, <1>2, <2>1, <2>2 DEF TypeOK
    <2>4. TimerMeansHeld'
        BY <1>3, <1>5, <2>1, StillCovered
    <2>5. QED
        BY <1>4, <2>3, <2>4 DEF TimerInv
<1>6. CASE \E i \in DOMAIN timers : IsKnown(i)
    <2>1. PICK k \in DOMAIN timers : IsKnown(k) /\ timers' = RemoveAt(timers, k)
        BY <1>6 DEF RemoveTimer
    <2>2. /\ timers \in Seq(Timers)
          /\ Len(timers) \in Nat
          /\ DOMAIN timers = 1 .. Len(timers)
        BY <1>2, TimersType
    <2>3. /\ timers' \in Seq(Timers)
          /\ Len(timers') = Len(timers) - 1
          /\ \A i \in 1 .. Len(timers) - 1 :
                timers'[i] = IF i < k THEN timers[i] ELSE timers[i + 1]
        BY <2>1, <2>2, RemoveAtTimers
    <2>4. DOMAIN timers' = 1 .. Len(timers) - 1
        BY <2>3, LenProperties
    <2> DEFINE old(i) == IF i < k THEN i ELSE i + 1
    <2>5. \A i \in DOMAIN timers' : old(i) \in DOMAIN timers /\ old(i) # k /\ timers'[i] = timers[old(i)]
        BY <2>1, <2>2, <2>3, <2>4, SMT
    <2>6. \A i, j \in DOMAIN timers' : old(i) = old(j) => i = j
        BY <2>1, <2>2, <2>4, SMT
    <2> HIDE DEF old
    \* Only timer k had the id: what is left of the button nobody knows.
    <2>7. \A i \in DOMAIN timers' : ~IsKnown(old(i))
        BY <1>2, <2>1, <2>5 DEF IsKnown, TypeOK, IdsKnown
    <2>8. IdsKnown'
        <3>1. \A i, j \in DOMAIN timers' :
                  timers'[i] = timers'[j] /\ timers'[i].known # "nobody" => i = j
            BY <1>2, <2>5, <2>6 DEF TypeOK, IdsKnown
        <3>2. \A i \in DOMAIN timers' :
                  timers'[i].known = "variable" => timeoutId'[timers'[i].button]
            BY <1>1, <1>2, <2>5 DEF TypeOK, IdsKnown
        <3>3. \A i \in DOMAIN timers' : timers'[i].known # "handler"
            BY <1>1, <1>2, <2>5 DEF TypeOK, IdsKnown
        <3>4. QED
            BY <3>1, <3>2, <3>3 DEF IdsKnown
    <2>9. TypeOK'
        BY <1>1, <1>2, <2>3, <2>8 DEF TypeOK
    <2>10. TimerMeansHeld'
        BY <1>3, <2>5, <2>7, StillCovered
    <2>11. QED
        BY <1>4, <2>9, <2>10 DEF TimerInv
<1>7. QED
    BY <1>5, <1>6

\* A timer that fires is gone; the callback follows.
LEMMA FireInv ==
    ASSUME TimerInv, Fire
    PROVE  TimerInv'
<1>1. /\ timers # <<>>
      /\ timers' = Tail(timers)
      /\ loop' \in {"resetLeft", "show"}
      /\ UNCHANGED <<held, lines, lost, handler, button, timeoutId, asked, discoverable,
                     pairable, touched, alive>>
    BY DEF Fire, uart, adapter
<1>2. TypeOK
    BY DEF TimerInv
<1>3. /\ timers' \in Seq(Timers)
      /\ \A i \in DOMAIN timers' :
            i \in Nat /\ i + 1 \in DOMAIN timers /\ timers'[i] = timers[i + 1]
    <2>1. timers \in Seq(Timers)
        BY <1>2 DEF TypeOK
    <2>2. QED
        BY <1>1, <2>1, Taken
<1>4. IdsKnown'
    <2>1. ASSUME NEW i \in DOMAIN timers', NEW j \in DOMAIN timers',
                 timers'[i] = timers'[j], timers'[i].known # "nobody"
          PROVE  i = j
        <3>1. i + 1 = j + 1
            BY <1>2, <1>3, <2>1 DEF TypeOK, IdsKnown
        <3>2. QED
            BY <1>3, <3>1
    <2>2. \A i \in DOMAIN timers' :
              /\ timers'[i].known = "variable" => timeoutId'[timers'[i].button]
              /\ timers'[i].known = "handler" => handler' = "store" /\ timers'[i].button = button'
        BY <1>1, <1>2, <1>3 DEF TypeOK, IdsKnown
    <2>3. QED
        BY <2>1, <2>2 DEF IdsKnown
<1>5. TypeOK'
    BY <1>1, <1>2, <1>3, <1>4 DEF TypeOK
<1>6. \A c \in Buttons : Covered(c) => Covered(c)'
    BY <1>1 DEF Covered, ReleaseComing
<1>7. TimerMeansHeld'
    BY <1>3, <1>6, KnownCovered, StillCovered
<1>8. PressesAnswered' /\ AddAnswered'
    BY <1>1 DEF TimerInv, PressesAnswered, AddAnswered
<1>9. QED
    BY <1>5, <1>7, <1>8 DEF TimerInv

\* No button is down and no timer runs.
LEMMA InitInv == Init => TimerInv
<1> SUFFICES ASSUME Init PROVE TimerInv
    OBVIOUS
<1>1. lines \in Seq(Lines) /\ timers \in Seq(Timers)
    BY EmptySeq DEF Init
<1>2. DOMAIN lines = {} /\ DOMAIN timers = {}
    BY DEF Init
<1>3. TypeOK
    BY <1>1, <1>2 DEF Init, TypeOK, IdsKnown, Buttons, None
<1>4. TimerMeansHeld /\ PressesAnswered /\ AddAnswered
    BY <1>2 DEF Init, TimerMeansHeld, PressesAnswered, AddAnswered
<1>5. QED
    BY <1>3, <1>4 DEF TimerInv

\* One case per action.
LEMMA NextInv ==
    ASSUME TimerInv, [Next]_vars
    PROVE  TimerInv'
<1>1. ASSUME NEW b \in Buttons, Move(b) PROVE TimerInv'
    BY <1>1, MoveInv
<1>2. CASE Handler
    BY <1>2, TakeInv, AddInv, StoreInv, FinishInv, TestInv, RemoveInv DEF Handler
<1>3. CASE MainLoop
    <2>1. CASE Fire
        BY <2>1, FireInv
    <2>2. CASE Authorise \/ OpenAdapter \/ CloseAdapter
        <3>1. /\ UNCHANGED <<held, lines, lost, handler, button, timeoutId, timers>>
              /\ loop' \in {"idle", "resetLeft", "show", "pair", "resetRight", "unpair", "hide"}
              /\ asked' \in BOOLEAN
            BY <2>2 DEF Authorise, OpenAdapter, CloseAdapter, SetDiscoverable, SetPairable,
                uart, TimerInv, TypeOK
        <3>2. /\ discoverable' \in BOOLEAN /\ pairable' \in BOOLEAN
              /\ touched' \in BOOLEAN /\ alive' \in BOOLEAN
            BY <2>2 DEF Authorise, OpenAdapter, CloseAdapter, SetDiscoverable, SetPairable,
                adapter, TimerInv, TypeOK
        <3>3. QED
            BY <3>1, <3>2, UnchangedInv
    <2>3. CASE loop = "resetLeft" /\ ResetId("left")
        BY <2>3, ResetInv DEF Buttons
    <2>4. CASE loop = "resetRight" /\ ResetId("right")
        BY <2>4, ResetInv DEF Buttons
    <2>5. QED
        BY <1>3, <2>1, <2>2, <2>3, <2>4 DEF MainLoop
<1>4. CASE AskAgent
    BY <1>4, UnchangedInv DEF AskAgent, uart, adapter, TimerInv, TypeOK
<1>5. CASE DiscoverableEnds
    BY <1>5, UnchangedInv DEF DiscoverableEnds, uart, TimerInv, TypeOK
<1>6. CASE UNCHANGED vars
    BY <1>6, UnchangedInv DEF vars, uart, adapter, TimerInv, TypeOK
<1>7. QED
    BY <1>1, <1>2, <1>3, <1>4, <1>5, <1>6 DEF Next

\* The variables keep their types and a variable never has the ids of two
\* timers, for any number of timers.
THEOREM PairingTypeCorrect == Spec => []TypeOK
<1>1. Init => TimerInv
    BY InitInv
<1>2. TimerInv /\ [Next]_vars => TimerInv'
    BY NextInv
<1>3. TimerInv => TypeOK
    BY DEF TimerInv
<1>4. QED
    BY <1>1, <1>2, <1>3, PTL DEF Spec

\* A timer that runs is of a button that is held or whose release is coming
\* (main.kt:272), except where an id was overwritten or a line was lost.
THEOREM TimersMeanHeldButtons == Spec => []TimerMeansHeld
<1>1. Init => TimerInv
    BY InitInv
<1>2. TimerInv /\ [Next]_vars => TimerInv'
    BY NextInv
<1>3. TimerInv => TimerMeansHeld
    BY DEF TimerInv
<1>4. QED
    BY <1>1, <1>2, <1>3, PTL DEF Spec

=============================================================================
