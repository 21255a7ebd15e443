---------------------- MODULE PresetSelection_proofs ----------------------
(***************************************************************************)
(* Proofs about PresetSelection: the types, how far the buttons can take   *)
(* the index whatever the handlers do to one another, and what a handler   *)
(* that runs alone achieves.                                               *)
(***************************************************************************)
EXTENDS PresetSelection, SequenceTheorems, TLAPS

-----------------------------------------------------------------------------
(* Removing a preset.                                                      *)

\* RemovePresetRq leaves a list with one preset less.
LEMMA RemoveAtType ==
    ASSUME NEW s \in Seq(Presets), NEW k \in 1 .. Len(s)
    PROVE  /\ RemoveAt(s, k) \in Seq(Presets)
           /\ Len(RemoveAt(s, k)) = Len(s) - 1
<1>1. Len(s) \in Nat /\ k \in Nat /\ 1 <= k /\ k <= Len(s)
    BY LenProperties
<1>2. /\ SubSeq(s, 1, k - 1) \in Seq(Presets)
      /\ Len(SubSeq(s, 1, k - 1)) = k - 1
    <2>1. \A i \in 1 .. (k - 1) : s[i] \in Presets
        BY <1>1, ElementOfSeq
    <2>2. CASE k = 1
        BY <1>1, <2>2, SMT
    <2>3. CASE k # 1
        BY <1>1, <2>1, <2>3, SMT
    <2>4. QED
        BY <2>2, <2>3
<1>3. /\ SubSeq(s, k + 1, Len(s)) \in Seq(Presets)
      /\ Len(SubSeq(s, k + 1, Len(s))) = Len(s) - k
    <2>1. \A i \in (k + 1) .. Len(s) : s[i] \in Presets
        BY <1>1, ElementOfSeq
    <2>2. QED
        BY <1>1, <2>1, SMT
<1>4. \A a, b \in Seq(Presets) : a \o b \in Seq(Presets) /\ Len(a \o b) = Len(a) + Len(b)
    BY ConcatProperties
<1>5. RemoveAt(s, k) = SubSeq(s, 1, k - 1) \o SubSeq(s, k + 1, Len(s))
    BY DEF RemoveAt
<1>6. /\ RemoveAt(s, k) \in Seq(Presets)
      /\ Len(RemoveAt(s, k)) = (k - 1) + (Len(s) - k)
    BY <1>2, <1>3, <1>4, <1>5, Zenon
<1>7. QED
    BY <1>1, <1>6

-----------------------------------------------------------------------------
(* The invariant.                                                          *)

\* What a handler is about to do to the index keeps it within the bounds.
\* A step was decided on while the index was inside the list; only a button
\* takes the index out of the bounds a phone or a knob leaves it in, and
\* there is one handler of buttons.
StepsInBounds ==
    press = "step" =>
        /\ button = "left"  => current >= lowest
        /\ button = "right" => current < MaxPresets

\* What a button is about to set is within the bounds.
TargetInBounds ==
    press = "set" => target \in lowest - 1 .. MaxPresets

\* What a phone has chosen was below the size of a list within the bound.
ChoiceInBounds ==
    \A h \in Phones : select[h] \in {"send", "set"} => choice[h] < MaxPresets

\* The inductive invariant of the types and of MissesByOne.
Inv ==
    /\ TypeOK
    /\ lowest <= -1
    /\ MissesByOne
    /\ StepsInBounds
    /\ TargetInBounds
    /\ ChoiceInBounds

\* With any list that fits the bound, and the index at -1.
LEMMA InitInv == Init => Inv
<1> SUFFICES ASSUME Init PROVE Inv
    OBVIOUS
<1> USE MaxPresetsAssumption, MaxKnobsAssumption
<1>1. list \in Seq(Presets) /\ Len(list) <= MaxPresets
    <2>1. PICK n \in 0 .. MaxPresets : list \in [1 .. n -> Presets]
        BY DEF Init
    <2>2. QED
        BY <2>1, SMT
<1>2. 0 \in 0 .. MaxKnobs /\ -1 \in Int
    BY SMT
<1>3. TypeOK
    BY <1>1, <1>2 DEF Init, TypeOK, Buttons
<1>4. QED
    BY <1>3 DEF Init, Inv, MissesByOne, StepsInBounds, TargetInBounds, ChoiceInBounds

\* What a handler that begins leaves in the ghosts.
LEMMA BeginsType ==
    ASSUME Begins PROVE alone' \in BOOLEAN /\ settled' \in BOOLEAN
<1>1. AllIdle \in BOOLEAN
    BY DEF AllIdle
<1>2. (settled /\ AllIdle) \in BOOLEAN
    OBVIOUS
<1>3. QED
    BY <1>1, <1>2 DEF Begins

\* The bounds of the index, the step and the target depend on these alone.
LEMMA BoundsKept ==
    ASSUME Inv, UNCHANGED <<current, lowest, press, button, target>>
    PROVE  /\ lowest' <= -1
           /\ MissesByOne'
           /\ StepsInBounds'
           /\ TargetInBounds'
BY DEF Inv, MissesByOne, StepsInBounds, TargetInBounds

\* What a phone is about to choose depends on these alone.
LEMMA ChoiceKept ==
    ASSUME Inv, UNCHANGED phones
    PROVE  ChoiceInBounds'
BY DEF Inv, ChoiceInBounds, phones

\* A handler whose request has been dealt with chooses nothing any more.
LEMMA LeavesChoice ==
    ASSUME Inv, NEW h \in Phones, NEW at \in {"over", "idle"}, Leaves(h, at)
    PROVE  /\ select' \in [Phones -> {"over", "idle", "answer", "send", "set"}]
           /\ choice' \in [Phones -> Int]
           /\ ChoiceInBounds'
<1>1. /\ select \in [Phones -> {"over", "idle", "answer", "send", "set"}]
      /\ choice \in [Phones -> Int]
      /\ select' = [select EXCEPT ![h] = at]
      /\ choice' = [choice EXCEPT ![h] = -1]
    BY DEF Inv, TypeOK, Leaves
<1>2. \A g \in Phones : select'[g] \in {"send", "set"} =>
          g # h /\ select[g] = select'[g] /\ choice'[g] = choice[g]
    BY <1>1
<1>3. ChoiceInBounds'
    BY <1>2 DEF Inv, ChoiceInBounds
<1>4. QED
    BY <1>1, <1>3

-----------------------------------------------------------------------------
(* One lemma per group of actions.                                         *)

\* The list changes: the index stays, and so do its bounds.
LEMMA EditInv ==
    ASSUME Inv, NEW h \in Phones, EditList(h)
    PROVE  Inv'
<1> USE MaxPresetsAssumption
<1>1. list' \in Seq(Presets) /\ Len(list') <= MaxPresets
    <2> list \in Seq(Presets) /\ Len(list) \in Nat /\ Len(list) <= MaxPresets
        BY LenProperties DEF Inv, TypeOK
    <2>1. CASE Len(list) < MaxPresets /\ \E p \in Presets : list' = Append(list, p)
        BY <2>1, AppendProperties
    <2>2. ASSUME NEW i \in Indices, list' = RemoveAt(list, i + 1)
          PROVE  list' \in Seq(Presets) /\ Len(list') <= MaxPresets
        <3>1. i + 1 \in 1 .. Len(list)
            BY DEF Indices
        <3>2. QED
            BY <2>2, <3>1, RemoveAtType
    <2>3. ASSUME NEW n \in 0 .. MaxPresets, list' \in [1 .. n -> Presets]
          PROVE  list' \in Seq(Presets) /\ Len(list') <= MaxPresets
        BY <2>3, SMT
    <2>4. QED
        BY <2>1, <2>2, <2>3 DEF EditList
<1>2. UNCHANGED <<current, amp, midi, heard, knobs, lowest, uart, phones, knob, link>>
    BY DEF EditList
<1>3. alone' \in BOOLEAN /\ settled' \in BOOLEAN
    BY DEF EditList, Disturbs, Inv, TypeOK
<1>4. TypeOK'
    BY <1>1, <1>2, <1>3 DEF Inv, TypeOK, uart, phones, link
<1>5. QED
    BY <1>2, <1>4, BoundsKept, ChoiceKept DEF Inv, uart

\* What the published phone shows keeps its type.
LEMMA TellType ==
    ASSUME Inv, NEW i \in Int, Tell(i)
    PROVE  told' \in Int /\ phone' \in {"none", "new", "there", "left"}
BY DEF Tell, Inv, TypeOK

\* ... also when it shows what it has chosen.
LEMMA ShowsType ==
    ASSUME Inv, NEW h \in Phones, NEW i \in Int, Shows(h, i)
    PROVE  told' \in Int /\ phone' \in {"none", "new", "there", "left"}
BY DEF Shows, Inv, TypeOK

\* A phone plays a setting of its own or is answered: the index stays.
LEMMA RequestInv ==
    ASSUME Inv, NEW h \in Phones, PlaySetting(h) \/ AskIndex(h) \/ AnswerIndex(h)
    PROVE  Inv'
<1>1. CASE PlaySetting(h)
    <2>1. /\ amp' \in Presets \cup {Custom}
          /\ select' \in [Phones -> {"over", "idle", "answer", "send", "set"}]
          /\ alone' \in BOOLEAN /\ settled' \in BOOLEAN
        BY <1>1 DEF PlaySetting, Disturbs, Inv, TypeOK
    <2>2. UNCHANGED <<list, current, midi, heard, knobs, lowest, uart, choice, knob, link>>
        BY <1>1 DEF PlaySetting
    <2>3. TypeOK'
        BY <2>1, <2>2 DEF Inv, TypeOK, uart, link
    <2>4. ChoiceInBounds'
        BY <1>1 DEF PlaySetting, Inv, TypeOK, ChoiceInBounds
    <2>5. QED
        BY <2>2, <2>3, <2>4, BoundsKept DEF Inv, uart
<1>2. CASE AskIndex(h)
    <2>1. /\ select' \in [Phones -> {"over", "idle", "answer", "send", "set"}]
          /\ choice' \in [Phones -> Int]
          /\ ChoiceInBounds'
        BY <1>2 DEF AskIndex, Inv, TypeOK, ChoiceInBounds
    <2>2. UNCHANGED <<core, uart, knob, link>> /\ Begins
        BY <1>2 DEF AskIndex
    <2>3. TypeOK'
        BY <2>1, <2>2, BeginsType DEF Inv, TypeOK, core, uart, link
    <2>4. QED
        BY <2>1, <2>2, <2>3, BoundsKept DEF Inv, core, uart
<1>3. CASE AnswerIndex(h)
    <2>1. /\ select' \in [Phones -> {"over", "idle", "answer", "send", "set"}]
          /\ choice' \in [Phones -> Int]
          /\ ChoiceInBounds'
        BY <1>3, LeavesChoice DEF AnswerIndex
    <2>2. told' \in Int /\ phone' \in {"none", "new", "there", "left"}
        <3>1. choice[h] \in Int
            BY DEF Inv, TypeOK
        <3>2. CASE phone = "left"
            BY <1>3, <3>2 DEF AnswerIndex, Inv, TypeOK
        <3>3. CASE phone # "left"
            BY <1>3, <3>1, <3>3, TellType DEF AnswerIndex
        <3>4. QED
            BY <3>2, <3>3
    <2>3. UNCHANGED <<core, uart, knob, published, ghosts>>
        BY <1>3 DEF AnswerIndex
    <2>4. TypeOK'
        BY <2>1, <2>2, <2>3 DEF Inv, TypeOK, core, uart, ghosts
    <2>5. QED
        BY <2>1, <2>3, <2>4, BoundsKept DEF Inv, core, uart
<1>4. QED
    BY <1>1, <1>2, <1>3

\* A phone sets an index below the size of the list, and what it sets below
\* custom is remembered.
LEMMA PhoneInv ==
    ASSUME Inv, NEW h \in Phones, ByPhone(h)
    PROVE  Inv'
<1> USE MaxPresetsAssumption, MaxBelowAssumption
<1> Len(list) \in Nat /\ Len(list) <= MaxPresets
    BY LenProperties DEF Inv, TypeOK
<1>1. CASE EditList(h)
    BY <1>1, EditInv
<1>2. CASE PlaySetting(h) \/ AskIndex(h) \/ AnswerIndex(h)
    BY <1>2, RequestInv
<1>3. CASE SelectCustom(h)
    <2>1. told' \in Int /\ phone' \in {"none", "new", "there", "left"}
        BY <1>3, ShowsType DEF SelectCustom
    <2>2. alone' \in BOOLEAN /\ settled' \in BOOLEAN
        <3>1. AllIdle \in BOOLEAN
            BY DEF AllIdle
        <3>2. QED
            BY <1>3, <3>1 DEF SelectCustom
    <2>3. /\ UNCHANGED <<list, amp, midi, heard, knobs, lowest, uart, phones, knob, published>>
          /\ current' = -1
        BY <1>3 DEF SelectCustom
    <2>4. TypeOK'
        BY <2>1, <2>2, <2>3 DEF Inv, TypeOK, uart, phones
    <2>5. MissesByOne' /\ StepsInBounds' /\ TargetInBounds'
        BY <2>3 DEF Inv, TypeOK, MissesByOne, StepsInBounds, TargetInBounds, uart
    <2>6. QED
        BY <2>3, <2>4, <2>5, ChoiceKept DEF Inv
<1>4. CASE Select(h)
    <2>1. PICK i \in (-MaxBelow .. Len(list) - 1) \ {-1} : choice' = [choice EXCEPT ![h] = i]
        BY <1>4 DEF Select
    <2>2. i \in Int /\ i < MaxPresets
        OBVIOUS
    <2>3. UNCHANGED <<core, uart, knob, link>> /\ Begins /\ select' = [select EXCEPT ![h] = "send"]
        BY <1>4 DEF Select
    <2>4. TypeOK'
        BY <2>1, <2>2, <2>3, BeginsType DEF Inv, TypeOK, core, uart, link
    <2>5. ChoiceInBounds'
        BY <2>1, <2>2, <2>3 DEF Inv, TypeOK, ChoiceInBounds
    <2>6. QED
        BY <2>3, <2>4, <2>5, BoundsKept DEF Inv, core, uart
<1>5. CASE SelectSends(h)
    <2>1. amp' \in Presets \cup {Custom}
        <3>1. CASE choice[h] \in Indices
            <4>1. choice[h] + 1 \in 1 .. Len(list)
                BY <3>1 DEF Indices
            <4>2. Preset(choice[h]) \in Presets
                BY <4>1, ElementOfSeq DEF Preset, Inv, TypeOK
            <4>3. QED
                BY <1>5, <4>2 DEF SelectSends, Inv, TypeOK
        <3>2. CASE choice[h] \notin Indices
            BY <1>5, <3>2 DEF SelectSends, Inv, TypeOK
        <3>3. QED
            BY <3>1, <3>2
    <2>2. /\ select' \in [Phones -> {"over", "idle", "answer", "send", "set"}]
          /\ choice' \in [Phones -> Int]
          /\ ChoiceInBounds'
        <3>1. CASE Leaves(h, "over")
            BY <3>1, LeavesChoice
        <3>2. CASE select' = [select EXCEPT ![h] = "set"] /\ UNCHANGED choice
            BY <1>5, <3>2 DEF SelectSends, Inv, TypeOK, ChoiceInBounds
        <3>3. QED
            BY <1>5, <3>1, <3>2 DEF SelectSends
    <2>3. UNCHANGED <<list, current, midi, heard, knobs, lowest, uart, knob, link, ghosts>>
        BY <1>5 DEF SelectSends
    <2>4. TypeOK'
        BY <2>1, <2>2, <2>3 DEF Inv, TypeOK, uart, link, ghosts
    <2>5. QED
        BY <2>2, <2>3, <2>4, BoundsKept DEF Inv, uart
<1>6. CASE SelectSets(h)
    <2>1. PICK i \in Int : i = choice[h]
        BY DEF Inv, TypeOK
    <2>2. i < MaxPresets
        BY <1>6, <2>1 DEF Inv, ChoiceInBounds, SelectSets
    <2>3. /\ current' = i
          /\ lowest' = IF i < lowest THEN i ELSE lowest
          /\ Shows(h, i)
          /\ Leaves(h, "idle")
          /\ UNCHANGED <<list, amp, midi, heard, knobs, uart, knob, published>>
        BY <1>6, <2>1 DEF SelectSets
    <2>4. lowest \in Int /\ lowest <= -1
        BY DEF Inv, TypeOK
    <2>5. lowest' \in Int /\ lowest' <= lowest /\ lowest' <= i
        BY <2>1, <2>3, <2>4
    <2>6. told' \in Int /\ phone' \in {"none", "new", "there", "left"}
        BY <2>3, ShowsType
    <2>7. alone' \in BOOLEAN /\ settled' \in BOOLEAN
        BY <1>6 DEF SelectSets, Settles, Inv, TypeOK
    <2>8. /\ select' \in [Phones -> {"over", "idle", "answer", "send", "set"}]
          /\ choice' \in [Phones -> Int]
          /\ ChoiceInBounds'
        BY <2>3, LeavesChoice
    <2>9. TypeOK'
        BY <2>3, <2>5, <2>6, <2>7, <2>8 DEF Inv, TypeOK, uart
    <2>10. MissesByOne' /\ StepsInBounds'
        BY <2>2, <2>3, <2>5 DEF MissesByOne, StepsInBounds
    <2>11. TargetInBounds'
        BY <2>3, <2>4, <2>5 DEF Inv, TypeOK, TargetInBounds, uart
    <2>12. QED
        BY <2>4, <2>5, <2>8, <2>9, <2>10, <2>11 DEF Inv
<1>7. QED
    BY <1>1, <1>2, <1>3, <1>4, <1>5, <1>6 DEF ByPhone

\* A button steps the index by one from where it may be.
LEMMA ButtonInv ==
    ASSUME Inv, ByButton
    PROVE  Inv'
<1> USE MaxPresetsAssumption
<1> Len(list) \in Nat /\ Len(list) <= MaxPresets
    BY LenProperties DEF Inv, TypeOK
<1> lowest \in Int /\ lowest <= -1
    BY DEF Inv, TypeOK
<1>1. ASSUME NEW b \in Buttons, Press(b) PROVE Inv'
    <2>1. TypeOK'
        BY <1>1, BeginsType DEF Inv, TypeOK, Press, core, phones, link
    <2>2. QED
        BY <1>1, <2>1 DEF Inv, Press, MissesByOne, StepsInBounds, TargetInBounds,
            ChoiceInBounds, core, phones
<1>2. CASE CheckIndex
    <2>1. TypeOK'
        BY <1>2 DEF Inv, TypeOK, CheckIndex, core, phones, link, ghosts
    <2>2. StepsInBounds'
        <3>1. CASE Wraps
            BY <1>2, <3>1 DEF CheckIndex, StepsInBounds
        <3>2. CASE ~Wraps
            <4>1. button = "left" => current >= lowest
                BY <3>2 DEF Wraps, Inv, TypeOK
            <4>2. button = "right" => current < MaxPresets
                BY <3>2 DEF Wraps, Inv, TypeOK
            <4>3. QED
                BY <1>2, <4>1, <4>2 DEF CheckIndex, StepsInBounds, core
        <3>3. QED
            BY <3>1, <3>2
    <2>3. QED
        BY <1>2, <2>1, <2>2 DEF Inv, CheckIndex, MissesByOne, TargetInBounds, ChoiceInBounds,
            core, phones
<1>3. CASE ReadIndex
    <2>1. target' \in lowest - 1 .. MaxPresets
        <3>1. CASE press = "wrap"
            BY <1>3, <3>1 DEF ReadIndex, Wrapped
        <3>2. CASE press = "step"
            <4>1. target' = Stepped
                BY <1>3, <3>2 DEF ReadIndex
            <4>2. current \in Int /\ lowest - 1 <= current /\ current <= MaxPresets
                BY DEF Inv, MissesByOne
            <4>3. CASE button = "left"
                BY <3>2, <4>1, <4>2, <4>3 DEF Inv, StepsInBounds, Stepped
            <4>4. CASE button # "left"
                <5>1. button = "right"
                    BY <4>4 DEF Inv, TypeOK, Buttons
                <5>2. QED
                    BY <3>2, <4>1, <4>2, <4>4, <5>1 DEF Inv, StepsInBounds, Stepped
            <4>5. QED
                BY <4>3, <4>4
        <3>3. QED
            BY <1>3, <3>1, <3>2 DEF ReadIndex
    <2>2. TypeOK'
        BY <1>3, <2>1 DEF Inv, TypeOK, ReadIndex, core, phones, link, ghosts
    <2>3. QED
        BY <1>3, <2>1, <2>2 DEF Inv, ReadIndex, MissesByOne, StepsInBounds, TargetInBounds,
            ChoiceInBounds, core, phones
<1>4. CASE SetIndex
    <2>1. target \in lowest - 1 .. MaxPresets /\ target \in Int
        BY <1>4 DEF Inv, TargetInBounds, SetIndex
    <2>2. target' \in Int /\ current' \in Int
        BY <1>4, <2>1 DEF SetIndex
    <2>3. settled' \in BOOLEAN /\ press' = "guard"
        BY <1>4 DEF SetIndex
    <2>4. UNCHANGED <<list, amp, midi, heard, knobs, lowest, button, uartUp, phones, knob, link,
                      alone>>
        BY <1>4 DEF SetIndex
    <2>5. TypeOK'
        BY <2>2, <2>3, <2>4 DEF Inv, TypeOK, phones, link
    <2>6. QED
        BY <1>4, <2>1, <2>5 DEF Inv, SetIndex, MissesByOne, StepsInBounds, TargetInBounds,
            ChoiceInBounds, phones
<1>5. CASE Guard
    <2>1. TypeOK'
        BY <1>5 DEF Inv, TypeOK, Guard, core, phones, link, ghosts
    <2>2. QED
        BY <1>5, <2>1 DEF Inv, Guard, MissesByOne, StepsInBounds, TargetInBounds,
            ChoiceInBounds, core, phones
<1>6. CASE SendPreset
    <2>1. amp' \in Presets \cup {Custom}
        <3>1. CASE current \in Indices
            <4>1. current + 1 \in 1 .. Len(list)
                BY <3>1 DEF Indices
            <4>2. Preset(current) \in Presets
                BY <4>1, ElementOfSeq DEF Preset, Inv, TypeOK
            <4>3. QED
                BY <1>6, <4>2 DEF SendPreset, Inv, TypeOK
        <3>2. CASE current \notin Indices
            BY <1>6, <3>2 DEF SendPreset, Inv, TypeOK
        <3>3. QED
            BY <3>1, <3>2
    <2>2. press' \in {"idle", "tell", "error"} /\ uartUp' \in BOOLEAN
        BY <1>6 DEF SendPreset, Inv, TypeOK
    <2>3. UNCHANGED <<list, current, midi, heard, knobs, lowest, button, target, phones, knob,
                      link, ghosts>>
        BY <1>6 DEF SendPreset
    <2>4. TypeOK'
        BY <2>1, <2>2, <2>3 DEF Inv, TypeOK, phones, link, ghosts
    <2>5. QED
        BY <2>2, <2>3, <2>4 DEF Inv, MissesByOne, StepsInBounds, TargetInBounds,
            ChoiceInBounds, phones
<1>7. CASE FailPress
    <2>1. midi' \in {"none", "dead"} /\ uartUp' \in BOOLEAN /\ press' = "idle"
        BY <1>7 DEF FailPress
    <2>2. UNCHANGED <<list, current, amp, heard, knobs, lowest, button, target, phones, knob,
                      link, ghosts>>
        BY <1>7 DEF FailPress
    <2>3. TypeOK'
        BY <2>1, <2>2 DEF Inv, TypeOK, phones, link, ghosts
    <2>4. QED
        BY <2>1, <2>2, <2>3 DEF Inv, MissesByOne, StepsInBounds, TargetInBounds,
            ChoiceInBounds, phones
<1>8. CASE TellPhone
    <2>1. told' \in Int /\ phone' \in {"none", "new", "there", "left"}
        BY <1>8, TellType DEF TellPhone, Inv, TypeOK
    <2>2. /\ press' = "idle" /\ uartUp' \in BOOLEAN
          /\ alone' \in BOOLEAN /\ settled' \in BOOLEAN
        BY <1>8 DEF TellPhone, Settles, Inv, TypeOK
    <2>3. UNCHANGED <<core, button, target, phones, knob, published>>
        BY <1>8 DEF TellPhone
    <2>4. TypeOK'
        BY <2>1, <2>2, <2>3 DEF Inv, TypeOK, core, phones
    <2>5. QED
        BY <2>2, <2>3, <2>4 DEF Inv, MissesByOne, StepsInBounds, TargetInBounds,
            ChoiceInBounds, core, phones
<1>9. QED
    BY <1>1, <1>2, <1>3, <1>4, <1>5, <1>6, <1>7, <1>8 DEF ByButton

\* A knob sets the index to -1, which no step of a button minds.
LEMMA KnobInv ==
    ASSUME Inv, ByKnob
    PROVE  Inv'
<1> USE MaxPresetsAssumption, MaxKnobsAssumption
<1>1. CASE TakeKnob
    <2>1. knobs' \in 0 .. MaxKnobs
        BY <1>1 DEF Inv, TypeOK, TakeKnob
    <2>2. TypeOK'
        BY <1>1, <2>1, BeginsType DEF Inv, TypeOK, TakeKnob, uart, phones, link
    <2>3. QED
        BY <1>1, <2>2, BoundsKept, ChoiceKept DEF Inv, TakeKnob, uart
<1>2. CASE ResetIndex
    <2>1. TypeOK'
        BY <1>2 DEF Inv, TypeOK, ResetIndex, uart, phones, link, ghosts
    <2>2. MissesByOne' /\ StepsInBounds' /\ TargetInBounds'
        BY <1>2 DEF Inv, TypeOK, ResetIndex, MissesByOne, StepsInBounds, TargetInBounds, uart
    <2>3. QED
        BY <1>2, <2>1, <2>2, ChoiceKept DEF Inv, ResetIndex
<1>3. CASE TellCustom
    <2>1. told' \in Int /\ phone' \in {"none", "new", "there", "left"}
        BY <1>3, TellType DEF TellCustom
    <2>2. knobs' \in 0 .. MaxKnobs /\ heard' \in BOOLEAN
        BY <1>3 DEF TellCustom, Inv, TypeOK
    <2>3. /\ knob' = "idle"
          /\ alone' \in BOOLEAN /\ settled' \in BOOLEAN
          /\ UNCHANGED <<list, current, amp, midi, lowest, uart, phones, published>>
        BY <1>3 DEF TellCustom, Settles, Inv, TypeOK
    <2>4. TypeOK'
        BY <2>1, <2>2, <2>3 DEF Inv, TypeOK, uart, phones
    <2>5. QED
        BY <2>3, <2>4, BoundsKept, ChoiceKept DEF Inv, uart
<1>4. QED
    BY <1>1, <1>2, <1>3 DEF ByKnob

\* The surroundings leave the list, the index and the requests alone.
LEMMA SurroundingsInv ==
    ASSUME Inv, Amplifier \/ TurnKnob \/ PhoneLeaves
    PROVE  Inv'
<1> USE MaxKnobsAssumption
<1>1. UNCHANGED <<list, current, lowest, uart, phones, knob>>
    BY DEF Amplifier, TurnKnob, PhoneLeaves, core
<1>2. TypeOK'
    <2>1. CASE Amplifier
        BY <2>1 DEF Inv, TypeOK, Amplifier, Disturbs, uart, phones, link
    <2>2. CASE TurnKnob
        BY <2>2 DEF Inv, TypeOK, TurnKnob, uart, phones, link, ghosts
    <2>3. CASE PhoneLeaves
        BY <2>3 DEF Inv, TypeOK, PhoneLeaves, core, uart, phones, ghosts
    <2>4. QED
        BY <2>1, <2>2, <2>3
<1>3. QED
    BY <1>1, <1>2, BoundsKept, ChoiceKept DEF Inv, uart

\* A new connection's handler has no request.
LEMMA ConnectsInv ==
    ASSUME Inv, NEW h \in Phones, PhoneConnects(h)
    PROVE  Inv'
<1>1. UNCHANGED <<core, uart, choice, knob, ghosts>>
    BY DEF PhoneConnects
<1>2. TypeOK'
    BY <1>1 DEF Inv, TypeOK, PhoneConnects, core, uart, ghosts
<1>3. ChoiceInBounds'
    BY DEF Inv, TypeOK, PhoneConnects, ChoiceInBounds
<1>4. QED
    BY <1>1, <1>2, <1>3, BoundsKept DEF Inv, core, uart

\* Whoever takes the next step.
LEMMA NextInv == Inv /\ [Next]_vars => Inv'
<1> SUFFICES ASSUME Inv, [Next]_vars PROVE Inv'
    OBVIOUS
<1>1. CASE Amplifier \/ TurnKnob \/ PhoneLeaves
    BY <1>1, SurroundingsInv
<1>2. ASSUME NEW h \in Phones, PhoneConnects(h) PROVE Inv'
    BY <1>2, ConnectsInv
<1>3. ASSUME NEW h \in Phones, ByPhone(h) PROVE Inv'
    BY <1>3, PhoneInv
<1>4. CASE ByButton
    BY <1>4, ButtonInv
<1>5. CASE ByKnob
    BY <1>5, KnobInv
<1>6. CASE UNCHANGED vars
    BY <1>6 DEF vars, core, uart, phones, link, ghosts, Inv, TypeOK, MissesByOne, StepsInBounds,
        TargetInBounds, ChoiceInBounds
<1>7. QED
    BY <1>1, <1>2, <1>3, <1>4, <1>5, <1>6 DEF Next

\* The invariant holds throughout.
LEMMA SpecInv == Spec => []Inv
    BY InitInv, NextInv, PTL DEF Spec

-----------------------------------------------------------------------------
(* What one handler can rely on.                                           *)

\* While "alone" holds, at most one handler is at work.  Whoever begins while
\* another is busy clears it; whoever begins among idle ones sets it anew.
OneAtWork ==
    alone =>
        /\ press = "idle" \/ (knob = "idle" /\ \A h \in Phones : AtRest(h))
        /\ knob = "idle" \/ (\A h \in Phones : AtRest(h))
        /\ \A g, h \in Phones : AtRest(g) \/ AtRest(h) \/ g = h

\* The amplifier plays the preset of index i, or a knob message says it does
\* not, or would if it were heard.
Plays(i) == i \in Indices /\ (heard /\ knobs = 0 => amp = Preset(i))

\* A button that no other handler runs into uses the index it has checked, and
\* whoever has sent a preset to a live amplifier has it played.  Whoever is
\* about to tell an index has the one there is.
SentIsPlayed ==
    alone =>
        /\ press = "send" => current \in Indices
        /\ press = "tell" /\ midi = "live" => Plays(current)
        /\ knob = "tell" => current = -1
        /\ \A h \in Phones : select[h] = "set" /\ midi = "live" => Plays(choice[h])
        /\ \A h \in Phones : select[h] = "answer" => choice[h] = current

\* A button that no other handler runs into steps from the index it has tested,
\* and sets one on its side of the list's other end.
StepRecovers ==
    alone =>
        /\ press = "step" => IF button = "left" THEN current > 0 ELSE current + 1 < Len(list)
        /\ press = "set" /\ list # <<>> =>
               IF button = "left" THEN target >= 0 ELSE target < Len(list)
        /\ PressRecovers

\* A phone that was told an index shows the one there is, and the amplifier
\* plays what it says.
Agreed == (phone = "there" => told = current) /\ (current # -1 => Plays(current))

\* The index, the amplifier and the phone, once brought together, stay so until
\* a handler is about to set the index.
StaysSettled ==
    settled =>
        /\ alone
        /\ press \notin {"guard", "send", "tell", "error"}
        /\ press = "idle" /\ knob = "idle" /\ (\A h \in Phones : select[h] # "set") => Agreed

\* The inductive invariant of PressSurvives, PressRecovers and SelectionAgrees,
\* beside Inv.
SettledInv == OneAtWork /\ SentIsPlayed /\ StepRecovers /\ StaysSettled

\* All handlers are idle, and nothing is settled.
LEMMA InitSettled == Init => SettledInv
BY DEF Init, SettledInv, OneAtWork, AtRest, SentIsPlayed, StepRecovers, PressRecovers,
    StaysSettled

\* What is about to be sent or has been sent depends on these alone.
LEMMA PlaysKept ==
    ASSUME UNCHANGED <<list, amp, heard, knobs>>, NEW i
    PROVE  Plays(i)' <=> Plays(i)
BY DEF Plays, Indices, Preset

\* Which handlers are at work depends on these alone.
LEMMA WorkKept ==
    ASSUME SettledInv, UNCHANGED <<press, select, knob, alone>>
    PROVE  OneAtWork'
BY DEF SettledInv, OneAtWork, AtRest

\* What a button is about to do depends on these alone.
LEMMA RecoverKept ==
    ASSUME SettledInv, UNCHANGED <<list, current, press, button, target, alone>>
    PROVE  StepRecovers'
BY DEF SettledInv, StepRecovers, PressRecovers

\* A handler that runs while no button is pressed does not concern a button.
LEMMA RecoverIdle ==
    ASSUME alone' => press' = "idle"
    PROVE  StepRecovers'
BY DEF StepRecovers, PressRecovers

\* The amplifier, the list: a handler at work is no longer alone.
LEMMA DisturbedSettled ==
    ASSUME Inv, SettledInv, Disturbs, UNCHANGED <<press, knob>>,
           \A h \in Phones : AtRest(h) => AtRest(h)'
    PROVE  SettledInv'
<1>1. alone' => press' = "idle" /\ knob' = "idle" /\ \A h \in Phones : AtRest(h)'
    BY DEF Disturbs, AllIdle
<1>2. OneAtWork'
    BY <1>1 DEF OneAtWork
<1>3. SentIsPlayed'
    BY <1>1 DEF SentIsPlayed, AtRest
<1>4. StepRecovers'
    BY <1>1, RecoverIdle
<1>5. StaysSettled'
    BY DEF Disturbs, StaysSettled
<1>6. QED
    BY <1>2, <1>3, <1>4, <1>5 DEF SettledInv

\* A knob that is turned sends a message or is not heard; a phone that leaves
\* is shown nothing.
LEMMA SurroundingsSettled ==
    ASSUME Inv, SettledInv, Amplifier \/ TurnKnob \/ PhoneLeaves
    PROVE  SettledInv'
<1>1. CASE Amplifier
    <2>1. Disturbs /\ UNCHANGED <<press, select, knob>>
        BY <1>1 DEF Amplifier, uart, phones
    <2>2. \A h \in Phones : AtRest(h) => AtRest(h)'
        BY <2>1 DEF AtRest
    <2>3. QED
        BY <2>1, <2>2, DisturbedSettled
<1>2. CASE TurnKnob
    <2>1. heard' => knobs' # 0
        BY <1>2 DEF TurnKnob, Inv, TypeOK
    <2>2. UNCHANGED <<list, current, midi, heard, press, button, target, select, choice, knob,
                      phone, told, alone, settled>>
        BY <1>2 DEF TurnKnob, uart, phones, link, ghosts
    <2>3. \A i : Plays(i) => Plays(i)'
        BY <2>1, <2>2 DEF Plays, Indices
    <2>4. OneAtWork' /\ StepRecovers'
        BY <2>2, WorkKept, RecoverKept
    <2>5. SentIsPlayed'
        BY <2>2, <2>3 DEF SettledInv, SentIsPlayed, Indices
    <2>6. StaysSettled'
        BY <2>2, <2>3 DEF SettledInv, StaysSettled, Agreed
    <2>7. QED
        BY <2>4, <2>5, <2>6 DEF SettledInv
<1>3. CASE PhoneLeaves
    <2>1. UNCHANGED <<list, current, amp, midi, heard, knobs, press, button, target, select,
                      choice, knob, alone, settled>>
        BY <1>3 DEF PhoneLeaves, core, uart, phones, ghosts
    <2>2. phone' # "there"
        BY <1>3 DEF PhoneLeaves
    <2>3. OneAtWork' /\ StepRecovers'
        BY <2>1, WorkKept, RecoverKept
    <2>4. SentIsPlayed'
        BY <2>1, PlaysKept DEF SettledInv, SentIsPlayed, Indices
    <2>5. StaysSettled'
        BY <2>1, <2>2, PlaysKept DEF SettledInv, StaysSettled, Agreed
    <2>6. QED
        BY <2>3, <2>4, <2>5 DEF SettledInv
<1>4. QED
    BY <1>1, <1>2, <1>3

\* A phone that connects is told nothing yet, and its handler is at rest.
LEMMA ConnectsSettled ==
    ASSUME Inv, SettledInv, NEW h \in Phones, PhoneConnects(h)
    PROVE  SettledInv'
<1>1. /\ UNCHANGED <<list, current, amp, midi, heard, knobs, press, button, target, choice,
                     knob, alone, settled>>
      /\ AtRest(h) /\ select' = [select EXCEPT ![h] = "idle"]
      /\ phone' = "new"
    BY DEF PhoneConnects, core, uart, ghosts
<1>2. \A g \in Phones : select'[g] = IF g = h THEN "idle" ELSE select[g]
    BY <1>1 DEF Inv, TypeOK
<1>3. \A g \in Phones : AtRest(g)' <=> AtRest(g)
    BY <1>1, <1>2 DEF AtRest
<1>4. OneAtWork'
    BY <1>1, <1>3 DEF SettledInv, OneAtWork
<1>5. StepRecovers'
    BY <1>1, RecoverKept
<1>6. SentIsPlayed'
    BY <1>1, <1>2, PlaysKept DEF SettledInv, SentIsPlayed, Indices
<1>7. StaysSettled'
    <2>1. \A g \in Phones : select'[g] # "set" => select[g] # "set"
        BY <1>1, <1>2 DEF AtRest
    <2>2. QED
        BY <1>1, <2>1, PlaysKept DEF SettledInv, StaysSettled, Agreed
<1>8. QED
    BY <1>4, <1>5, <1>6, <1>7 DEF SettledInv

\* A phone's handler that is alone, at work on a request.
LEMMA AloneAtWork ==
    ASSUME SettledInv, NEW h \in Phones, ~AtRest(h), alone
    PROVE  press = "idle" /\ knob = "idle" /\ \A g \in Phones : AtRest(g) \/ g = h
BY DEF SettledInv, OneAtWork

\* One that has begun among idle ones has neither sent nor set anything.
LEMMA BegunSettled ==
    ASSUME Inv, SettledInv, NEW h \in Phones, NEW at \in {"answer", "send"},
           Begins, select' = [select EXCEPT ![h] = at],
           at = "answer" => choice' = [choice EXCEPT ![h] = current],
           UNCHANGED <<core, uart, knob, link>>
    PROVE  SettledInv'
<1>1. \A g \in Phones : select'[g] = IF g = h THEN at ELSE select[g]
    BY DEF Inv, TypeOK
<1>2. alone' => AllIdle
    BY DEF Begins
<1>3. AllIdle => press' = "idle" /\ knob' = "idle" /\ \A g \in Phones : g # h => AtRest(g)'
    BY <1>1 DEF AllIdle, AtRest, uart
<1>4. OneAtWork'
    BY <1>2, <1>3 DEF OneAtWork
<1>5. SentIsPlayed'
    <2>1. at = "answer" => choice'[h] = current'
        BY DEF core, Inv, TypeOK
    <2>2. AllIdle => \A g \in Phones : select'[g] \in {"set", "answer"} => g = h /\ at = "answer"
        BY <1>1, <1>3 DEF AtRest
    <2>3. \A g \in Phones : alone' /\ select'[g] = "answer" => choice'[g] = current'
        BY <1>2, <2>1, <2>2
    <2>4. \A g \in Phones : alone' => select'[g] # "set"
        BY <1>1, <1>2, <2>2
    <2>5. QED
        BY <1>2, <1>3, <2>3, <2>4 DEF SentIsPlayed
<1>6. StepRecovers'
    BY <1>2, <1>3, RecoverIdle
<1>7. StaysSettled'
    <2>1. settled' => settled /\ AllIdle /\ alone'
        BY DEF Begins
    <2>2. settled /\ AllIdle => Agreed
        BY DEF SettledInv, StaysSettled, AllIdle, AtRest
    <2>3. Agreed => Agreed'
        BY PlaysKept DEF Agreed, core, link
    <2>4. QED
        BY <1>3, <2>1, <2>2, <2>3 DEF StaysSettled
<1>8. QED
    BY <1>4, <1>5, <1>6, <1>7 DEF SettledInv

\* A phone that plays a setting of its own unsettles; one that is answered,
\* alone, is told the index there is.
LEMMA RequestSettled ==
    ASSUME Inv, SettledInv, NEW h \in Phones, PlaySetting(h) \/ AskIndex(h) \/ AnswerIndex(h)
    PROVE  SettledInv'
<1>1. CASE PlaySetting(h)
    <2>1. Disturbs /\ UNCHANGED <<press, knob>>
        BY <1>1 DEF PlaySetting, uart
    <2>2. select' \in {select, [select EXCEPT ![h] = "over"]}
        BY <1>1 DEF PlaySetting
    <2>3. \A g \in Phones : AtRest(g) => AtRest(g)'
        BY <2>2 DEF AtRest, Inv, TypeOK
    <2>4. QED
        BY <2>1, <2>3, DisturbedSettled
<1>2. CASE AskIndex(h)
    BY <1>2, BegunSettled DEF AskIndex
<1>3. CASE AnswerIndex(h)
    <2>1. /\ UNCHANGED <<list, current, amp, midi, heard, knobs, press, button, target, knob,
                         alone, settled>>
          /\ select[h] = "answer"
          /\ phone' = "there" => told' = choice[h]
        BY <1>3 DEF AnswerIndex, Tell, core, uart, ghosts, Inv, TypeOK
    <2>2. PICK at \in {"over", "idle"} : Leaves(h, at)
        BY <1>3 DEF AnswerIndex
    <2>3. \A g \in Phones : /\ select'[g] = IF g = h THEN at ELSE select[g]
                            /\ g # h => choice'[g] = choice[g]
        BY <2>2 DEF Leaves, Inv, TypeOK
    <2>4. alone => press = "idle" /\ knob = "idle" /\ \A g \in Phones : AtRest(g) \/ g = h
        BY <2>1, AloneAtWork DEF AtRest
    <2>5. alone => \A g \in Phones : AtRest(g)'
        BY <2>3, <2>4 DEF AtRest
    <2>6. OneAtWork' /\ SentIsPlayed'
        BY <2>1, <2>4, <2>5 DEF OneAtWork, SentIsPlayed, AtRest
    <2>7. StepRecovers'
        BY <2>1, RecoverKept
    <2>8. StaysSettled'
        <3>1. alone => choice[h] = current
            BY <2>1 DEF SettledInv, SentIsPlayed
        <3>2. settled => Agreed
            BY <2>1, <2>4 DEF SettledInv, StaysSettled, AtRest
        <3>3. settled => (current # -1 => Plays(current)')
            BY <2>1, <3>2, PlaysKept DEF Agreed
        <3>4. settled => Agreed'
            BY <2>1, <3>1, <3>3 DEF SettledInv, StaysSettled, Agreed
        <3>5. QED
            BY <2>1, <3>4 DEF SettledInv, StaysSettled
    <2>9. QED
        BY <2>6, <2>7, <2>8 DEF SettledInv
<1>4. QED
    BY <1>1, <1>2, <1>3

\* A phone that edits the list while a handler is at work is in its way; one
\* that selects, alone, brings the three together.
LEMMA PhoneSettled ==
    ASSUME Inv, SettledInv, NEW h \in Phones, ByPhone(h)
    PROVE  SettledInv'
<1>1. CASE EditList(h)
    <2>1. Disturbs /\ UNCHANGED <<press, select, knob>>
        BY <1>1 DEF EditList, uart, phones
    <2>2. \A g \in Phones : AtRest(g) => AtRest(g)'
        BY <2>1 DEF AtRest
    <2>3. QED
        BY <2>1, <2>2, DisturbedSettled
<1>2. CASE PlaySetting(h) \/ AskIndex(h) \/ AnswerIndex(h)
    BY <1>2, RequestSettled
<1>3. CASE SelectCustom(h)
    <2>1. UNCHANGED <<press, select, knob>> /\ current' = -1
        BY <1>3 DEF SelectCustom, uart, phones
    <2>2. alone' = AllIdle /\ settled' = (AllIdle /\ h = published)
        BY <1>3 DEF SelectCustom
    <2>3. OneAtWork' /\ SentIsPlayed'
        BY <2>1, <2>2 DEF OneAtWork, SentIsPlayed, AllIdle, AtRest
    <2>4. StepRecovers'
        BY <2>1, <2>2, RecoverIdle DEF AllIdle
    <2>5. StaysSettled'
        <3>1. h = published => told' = -1
            BY <1>3 DEF SelectCustom, Shows
        <3>2. QED
            BY <2>1, <2>2, <3>1 DEF StaysSettled, Agreed, AllIdle
    <2>6. QED
        BY <2>3, <2>4, <2>5 DEF SettledInv
<1>4. CASE Select(h)
    BY <1>4, BegunSettled DEF Select
<1>5. CASE SelectSends(h)
    <2>1. /\ UNCHANGED <<list, current, midi, heard, knobs, press, button, target, knob,
                         phone, told, alone, settled>>
          /\ select[h] = "send"
        BY <1>5 DEF SelectSends, uart, link, ghosts
    <2>2. PICK x \in {"over", "set"} :
              /\ select' = [select EXCEPT ![h] = x]
              /\ x = "set" => UNCHANGED choice
              /\ x = "over" => UNCHANGED amp
              /\ x = "set" /\ midi = "live" => choice[h] \in Indices /\ amp' = Preset(choice[h])
        BY <1>5 DEF SelectSends, Leaves
    <2>3. \A g \in Phones : select'[g] = IF g = h THEN x ELSE select[g]
        BY <2>2 DEF Inv, TypeOK
    <2>4. alone => press = "idle" /\ knob = "idle" /\ \A g \in Phones : AtRest(g) \/ g = h
        BY <2>1, AloneAtWork DEF AtRest
    <2>5. OneAtWork'
        BY <2>1, <2>3, <2>4 DEF OneAtWork, AtRest
    <2>6. SentIsPlayed'
        <3>1. x = "set" /\ midi = "live" => Plays(choice[h])'
            BY <2>1, <2>2 DEF Plays, Indices, Preset
        <3>2. \A g \in Phones : alone /\ select'[g] = "set" => g = h /\ x = "set"
            BY <2>3, <2>4 DEF AtRest
        <3>3. \A g \in Phones : alone => select'[g] # "answer"
            BY <2>3, <2>4 DEF AtRest
        <3>4. QED
            BY <2>1, <2>4, <3>1, <3>2, <3>3 DEF SentIsPlayed
    <2>7. StepRecovers'
        BY <2>1, RecoverKept
    <2>8. StaysSettled'
        <3>1. x = "over" => (Plays(current)' <=> Plays(current))
            BY <2>1, <2>2 DEF Plays, Indices, Preset
        <3>2. settled => alone
            BY DEF SettledInv, StaysSettled
        <3>3. settled => Agreed
            BY <2>1, <2>4, <3>2 DEF SettledInv, StaysSettled, AtRest
        <3>4. x = "over" /\ settled => Agreed'
            BY <2>1, <3>1, <3>3 DEF Agreed
        <3>5. QED
            BY <2>1, <2>3, <3>4 DEF SettledInv, StaysSettled
    <2>9. QED
        BY <2>5, <2>6, <2>7, <2>8 DEF SettledInv
<1>6. CASE SelectSets(h)
    <2>1. /\ UNCHANGED <<list, amp, midi, heard, knobs, press, button, target, knob, alone>>
          /\ select[h] = "set"
          /\ Leaves(h, "idle")
          /\ current' = choice[h]
          /\ h = published => told' = choice[h]
          /\ settled' = (alone /\ midi = "live" /\ h = published)
        BY <1>6 DEF SelectSets, Settles, Shows, uart
    <2>2. \A g \in Phones : select'[g] = IF g = h THEN "idle" ELSE select[g]
        BY <2>1 DEF Leaves, Inv, TypeOK
    <2>3. alone => press = "idle" /\ knob = "idle" /\ \A g \in Phones : AtRest(g) \/ g = h
        BY <2>1, AloneAtWork DEF AtRest
    <2>4. alone => \A g \in Phones : AtRest(g)'
        BY <2>2, <2>3 DEF AtRest
    <2>5. OneAtWork' /\ SentIsPlayed'
        BY <2>1, <2>3, <2>4 DEF OneAtWork, SentIsPlayed, AtRest
    <2>6. StepRecovers'
        BY <2>1, <2>3, RecoverIdle
    <2>7. StaysSettled'
        <3>1. PICK i : i = choice[h]
            OBVIOUS
        <3>2. settled' => Plays(i)
            BY <2>1, <3>1 DEF SettledInv, SentIsPlayed
        <3>3. settled' => told' = i /\ current' = i /\ Plays(i)'
            BY <2>1, <3>1, <3>2 DEF Plays, Indices, Preset
        <3>4. settled' => Plays(current)'
            BY <3>3 DEF Plays, Indices, Preset
        <3>5. settled' => Agreed'
            BY <3>3, <3>4 DEF Agreed
        <3>6. QED
            BY <2>1, <2>3, <3>5 DEF StaysSettled
    <2>8. QED
        BY <2>5, <2>6, <2>7 DEF SettledInv
<1>7. QED
    BY <1>1, <1>2, <1>3, <1>4, <1>5, <1>6 DEF ByPhone

\* A button that is alone at work sends the preset of the index it has checked
\* and tells the phone that index; until it sets the index all stays as it was.
LEMMA ButtonSettled ==
    ASSUME Inv, SettledInv, ByButton
    PROVE  SettledInv'
<1> Len(list) \in Nat /\ (list # <<>> => Len(list) > 0)
    BY LenProperties, EmptySeq DEF Inv, TypeOK
<1>1. ASSUME NEW b \in Buttons, Press(b) PROVE SettledInv'
    <2>1. /\ UNCHANGED <<list, amp, heard, knobs, current, select, knob, phone, told>>
          /\ press' = "check"
          /\ Begins
        BY <1>1 DEF Press, core, phones, link
    <2>2. OneAtWork' /\ SentIsPlayed'
        BY <2>1 DEF OneAtWork, SentIsPlayed, Begins, AllIdle, AtRest
    <2>3. StepRecovers'
        BY <2>1 DEF StepRecovers, PressRecovers
    <2>4. StaysSettled'
        BY <2>1 DEF StaysSettled, Begins
    <2>5. QED
        BY <2>2, <2>3, <2>4 DEF SettledInv
<1>2. CASE CheckIndex \/ ReadIndex
    <2>1. /\ UNCHANGED <<list, amp, heard, knobs, current, midi, select, choice, knob, button,
                         alone, settled>>
          /\ press # "idle" /\ press' \in {"wrap", "step", "set"}
        BY <1>2 DEF CheckIndex, ReadIndex, core, phones, ghosts
    <2>2. OneAtWork'
        BY <2>1 DEF SettledInv, OneAtWork, AtRest
    <2>3. SentIsPlayed'
        BY <2>1, PlaysKept DEF SettledInv, SentIsPlayed
    <2>4. StepRecovers'
        <3>1. current \in Int
            BY DEF Inv, TypeOK
        <3>2. CASE CheckIndex
            BY <2>1, <3>1, <3>2 DEF CheckIndex, Wraps, StepRecovers, PressRecovers
        <3>3. CASE ReadIndex
            <4>1. press' = "set"
                BY <3>3 DEF ReadIndex
            <4>2. CASE press = "wrap" /\ target' = Wrapped
                BY <2>1, <4>1, <4>2 DEF Wrapped, StepRecovers, PressRecovers
            <4>3. CASE press = "step" /\ target' = Stepped
                BY <2>1, <3>1, <4>1, <4>3 DEF Stepped, SettledInv, StepRecovers, PressRecovers
            <4>4. QED
                BY <3>3, <4>2, <4>3 DEF ReadIndex
        <3>4. QED
            BY <1>2, <3>2, <3>3
    <2>5. StaysSettled'
        BY <2>1 DEF SettledInv, StaysSettled
    <2>6. QED
        BY <2>2, <2>3, <2>4, <2>5 DEF SettledInv
<1>3. CASE SetIndex
    <2>1. /\ UNCHANGED <<list, amp, heard, knobs, midi, select, choice, knob, button, alone>>
          /\ press = "set" /\ press' = "guard" /\ settled' = FALSE /\ current' = target
        BY <1>3 DEF SetIndex, phones
    <2>2. OneAtWork'
        BY <2>1 DEF SettledInv, OneAtWork, AtRest
    <2>3. SentIsPlayed'
        <3>1. alone => knob = "idle" /\ \A h \in Phones : AtRest(h)
            BY <2>1 DEF SettledInv, OneAtWork
        <3>2. QED
            BY <2>1, <3>1 DEF SentIsPlayed, AtRest
    <2>4. StepRecovers'
        BY <2>1 DEF SettledInv, StepRecovers, PressRecovers
    <2>5. StaysSettled'
        BY <2>1 DEF StaysSettled
    <2>6. QED
        BY <2>2, <2>3, <2>4, <2>5 DEF SettledInv
<1>4. CASE Guard
    <2>1. /\ UNCHANGED <<list, amp, heard, knobs, current, midi, select, choice, knob, alone,
                         settled>>
          /\ press = "guard"
          /\ press' = IF current \in Indices THEN "send" ELSE "idle"
        BY <1>4 DEF Guard, core, phones, ghosts
    <2>2. OneAtWork'
        BY <2>1 DEF SettledInv, OneAtWork, AtRest
    <2>3. SentIsPlayed'
        BY <2>1, PlaysKept DEF SettledInv, SentIsPlayed, Indices
    <2>4. StepRecovers'
        BY <2>1 DEF StepRecovers, PressRecovers
    <2>5. StaysSettled'
        BY <2>1 DEF SettledInv, StaysSettled
    <2>6. QED
        BY <2>2, <2>3, <2>4, <2>5 DEF SettledInv
<1>5. CASE SendPreset
    <2>1. /\ UNCHANGED <<list, heard, knobs, current, midi, select, choice, knob, alone,
                         settled>>
          /\ press = "send" /\ press' \in {"tell", "idle", "error"}
        BY <1>5 DEF SendPreset, phones, ghosts
    <2>2. press' = "tell" /\ midi = "live" => current \in Indices /\ amp' = Preset(current)
        BY <1>5 DEF SendPreset
    <2>3. OneAtWork'
        BY <2>1 DEF SettledInv, OneAtWork, AtRest
    <2>4. SentIsPlayed'
        <3>1. press' = "tell" /\ midi = "live" => Plays(current)'
            BY <2>1, <2>2 DEF Plays, Indices, Preset
        <3>2. alone => knob = "idle" /\ \A h \in Phones : AtRest(h)
            BY <2>1 DEF SettledInv, OneAtWork
        <3>3. QED
            BY <2>1, <3>1, <3>2 DEF SentIsPlayed, AtRest
    <2>5. StepRecovers'
        BY <2>1 DEF StepRecovers, PressRecovers
    <2>6. StaysSettled'
        BY <2>1 DEF SettledInv, StaysSettled
    <2>7. QED
        BY <2>3, <2>4, <2>5, <2>6 DEF SettledInv
<1>6. CASE FailPress
    <2>1. /\ UNCHANGED <<list, amp, heard, knobs, current, select, choice, knob, alone, settled>>
          /\ press = "error" /\ press' = "idle"
        BY <1>6 DEF FailPress, phones, ghosts
    <2>2. alone => knob = "idle" /\ \A h \in Phones : AtRest(h)
        BY <2>1 DEF SettledInv, OneAtWork
    <2>3. OneAtWork' /\ SentIsPlayed'
        BY <2>1, <2>2 DEF OneAtWork, SentIsPlayed, AtRest
    <2>4. StepRecovers'
        BY <2>1 DEF StepRecovers, PressRecovers
    <2>5. StaysSettled'
        BY <2>1 DEF SettledInv, StaysSettled
    <2>6. QED
        BY <2>3, <2>4, <2>5 DEF SettledInv
<1>7. CASE TellPhone
    <2>1. /\ UNCHANGED <<list, amp, heard, knobs, current, midi, select, choice, knob, alone>>
          /\ press = "tell" /\ press' = "idle"
          /\ settled' = (alone /\ midi = "live")
          /\ phone' = "there" => told' = current
        BY <1>7 DEF TellPhone, Tell, Settles, core, phones
    <2>2. alone => knob = "idle" /\ \A h \in Phones : AtRest(h)
        BY <2>1 DEF SettledInv, OneAtWork
    <2>3. OneAtWork' /\ SentIsPlayed'
        BY <2>1, <2>2 DEF OneAtWork, SentIsPlayed, AtRest
    <2>4. StepRecovers'
        BY <2>1 DEF StepRecovers, PressRecovers
    <2>5. StaysSettled'
        <3>1. settled' => Plays(current)'
            BY <2>1, PlaysKept DEF SettledInv, SentIsPlayed
        <3>2. QED
            BY <2>1, <3>1 DEF StaysSettled, Agreed
    <2>6. QED
        BY <2>3, <2>4, <2>5 DEF SettledInv
<1>8. QED
    BY <1>1, <1>2, <1>3, <1>4, <1>5, <1>6, <1>7 DEF ByButton

\* A knob message is the reason why the amplifier plays another preset than
\* the index says; whoever takes it sets the index to custom and tells the
\* phone so, or finds it gone and takes no more.
LEMMA KnobSettled ==
    ASSUME Inv, SettledInv, ByKnob
    PROVE  SettledInv'
<1>1. CASE TakeKnob
    <2>1. /\ UNCHANGED <<list, amp, heard, current, press, select, phone, told>>
          /\ knob' = IF current # -1 THEN "set" ELSE "idle"
          /\ Begins
        BY <1>1 DEF TakeKnob, uart, phones, link
    <2>2. alone' => press' = "idle" /\ \A h \in Phones : AtRest(h)'
        BY <2>1 DEF Begins, AllIdle, AtRest
    <2>3. OneAtWork' /\ SentIsPlayed'
        BY <2>1, <2>2 DEF OneAtWork, SentIsPlayed, AtRest
    <2>4. StepRecovers'
        BY <2>2, RecoverIdle
    <2>5. StaysSettled'
        <3>1. settled' => settled /\ AllIdle /\ alone'
            BY <2>1 DEF Begins
        <3>2. settled /\ AllIdle => Agreed
            BY DEF SettledInv, StaysSettled, AllIdle, AtRest
        <3>3. knob' = "idle" /\ Agreed => Agreed'
            BY <2>1 DEF Agreed
        <3>4. QED
            BY <2>1, <2>2, <3>1, <3>2, <3>3 DEF StaysSettled
    <2>6. QED
        BY <2>3, <2>4, <2>5 DEF SettledInv
<1>2. CASE ResetIndex
    <2>1. /\ UNCHANGED <<list, amp, heard, knobs, midi, press, button, target, select, choice,
                         alone, settled>>
          /\ knob = "set" /\ knob' = "tell" /\ current' = -1
        BY <1>2 DEF ResetIndex, uart, phones, ghosts
    <2>2. alone => press = "idle" /\ \A h \in Phones : AtRest(h)
        BY <2>1 DEF SettledInv, OneAtWork
    <2>3. OneAtWork' /\ SentIsPlayed'
        BY <2>1, <2>2 DEF OneAtWork, SentIsPlayed, AtRest
    <2>4. StepRecovers'
        BY <2>1, <2>2, RecoverIdle
    <2>5. StaysSettled'
        BY <2>1 DEF SettledInv, StaysSettled
    <2>6. QED
        BY <2>3, <2>4, <2>5 DEF SettledInv
<1>3. CASE TellCustom
    <2>1. /\ UNCHANGED <<list, amp, current, midi, press, button, target, select, choice, alone>>
          /\ knob = "tell" /\ knob' = "idle"
          /\ settled' = (alone /\ TRUE)
          /\ phone' = "there" => told' = -1
        BY <1>3, Zenon DEF TellCustom, Tell, Settles, uart, phones
    <2>2. alone => /\ press = "idle" /\ \A h \in Phones : AtRest(h)
                   /\ current = -1
        BY <2>1 DEF SettledInv, OneAtWork, SentIsPlayed
    <2>3. OneAtWork' /\ SentIsPlayed'
        BY <2>1, <2>2 DEF OneAtWork, SentIsPlayed, AtRest
    <2>4. StepRecovers'
        BY <2>1, <2>2, RecoverIdle
    <2>5. StaysSettled'
        BY <2>1, <2>2 DEF StaysSettled, Agreed
    <2>6. QED
        BY <2>3, <2>4, <2>5 DEF SettledInv
<1>4. QED
    BY <1>1, <1>2, <1>3 DEF ByKnob

\* Whoever takes the next step.
LEMMA NextSettled == Inv /\ SettledInv /\ [Next]_vars => SettledInv'
<1> SUFFICES ASSUME Inv, SettledInv, [Next]_vars PROVE SettledInv'
    OBVIOUS
<1>1. CASE Amplifier \/ TurnKnob \/ PhoneLeaves
    BY <1>1, SurroundingsSettled
<1>2. ASSUME NEW h \in Phones, PhoneConnects(h) PROVE SettledInv'
    BY <1>2, ConnectsSettled
<1>3. ASSUME NEW h \in Phones, ByPhone(h) PROVE SettledInv'
    BY <1>3, PhoneSettled
<1>4. CASE ByButton
    BY <1>4, ButtonSettled
<1>5. CASE ByKnob
    BY <1>5, KnobSettled
<1>6. CASE UNCHANGED vars
    <2>1. UNCHANGED <<list, current, amp, midi, heard, knobs, press, button, target, select,
                      choice, knob, phone, told, alone, settled>>
        BY <1>6 DEF vars, core, uart, phones, link, ghosts
    <2>2. OneAtWork' /\ StepRecovers'
        BY <2>1, WorkKept, RecoverKept
    <2>3. SentIsPlayed' /\ StaysSettled'
        BY <2>1, PlaysKept DEF SettledInv, SentIsPlayed, StaysSettled, Agreed, Indices
    <2>4. QED
        BY <2>2, <2>3 DEF SettledInv
<1>7. QED
    BY <1>1, <1>2, <1>3, <1>4, <1>5, <1>6 DEF Next

\* Both invariants hold throughout.
LEMMA SpecSettled == Spec => [](Inv /\ SettledInv)
BY InitInv, InitSettled, NextInv, NextSettled, PTL DEF Spec

\* Only the last steps of a button can end the UART subscription: a preset that
\* is not in the list, which a button alone at work does not ask for, or a
\* phone that has left.
LEMMA PressStep ==
    ASSUME Inv, SettledInv, [Next]_vars, alone, phone # "left", uartUp
    PROVE  uartUp'
<1>1. ASSUME NEW h \in Phones, PhoneConnects(h) \/ ByPhone(h) PROVE uartUp'
    BY <1>1 DEF PhoneConnects, ByPhone, EditList, PlaySetting, AskIndex, AnswerIndex,
        SelectCustom, Select, SelectSends, SelectSets, uart
<1>2. CASE SendPreset
    BY <1>2 DEF SendPreset, SettledInv, SentIsPlayed
<1>3. CASE TellPhone \/ FailPress
    BY <1>3 DEF TellPhone, FailPress
<1>4. ASSUME NEW b \in Buttons, Press(b) PROVE uartUp'
    BY <1>4 DEF Press
<1>5. CASE CheckIndex \/ ReadIndex \/ SetIndex \/ Guard
    BY <1>5 DEF CheckIndex, ReadIndex, SetIndex, Guard
<1>6. CASE ByKnob
    BY <1>6 DEF ByKnob, TakeKnob, ResetIndex, TellCustom, uart
<1>7. CASE Amplifier \/ TurnKnob \/ PhoneLeaves
    BY <1>7 DEF Amplifier, TurnKnob, PhoneLeaves, uart
<1>8. CASE UNCHANGED vars
    BY <1>8 DEF vars, uart
<1>9. QED
    BY <1>1, <1>2, <1>3, <1>4, <1>5, <1>6, <1>7, <1>8 DEF Next, ByButton

-----------------------------------------------------------------------------
(* Theorems.                                                               *)

\* The variables keep their types; the list does not outgrow its bound.
THEOREM SelectionTypeCorrect == Spec => []TypeOK
<1>1. Inv => TypeOK
    BY DEF Inv
<1>2. QED
    BY <1>1, SpecInv, PTL

\* For any number of phones and presets, any indices that phones name and any
\* interleaving with the knobs, the buttons take currentPreset no further than
\* one below what a phone has set or custom, and none past the longest list.
THEOREM IndexMissesByOne == Spec => []MissesByOne
<1>1. Inv => MissesByOne
    BY DEF Inv
<1>2. QED
    BY <1>1, SpecInv, PTL

\* However stale the index is, a left press that no other handler runs into
\* leaves it at or above the list's beginning, and a right one before its end.
THEOREM LonePressRecovers == Spec => []PressRecovers
<1>1. SettledInv => PressRecovers
    BY DEF SettledInv, StepRecovers, PressRecovers
<1>2. QED
    BY <1>1, SpecSettled, PTL

\* A button press that no other handler runs into does not end the UART
\* subscription while the phone is there: the index that is used at
\* main.kt:291 is the one main.kt:290 has checked, for any list.
THEOREM LonePressSurvives == Spec => PressSurvives
<1>1. Inv /\ SettledInv /\ [Next]_vars => [alone /\ phone # "left" /\ uartUp => uartUp']_vars
    BY PressStep
<1>2. QED
    BY <1>1, SpecSettled, PTL DEF Spec, PressSurvives

\* Once a handler that ran alone has chosen a preset, the index, the amplifier
\* and the phone agree whenever no handler is at work, for any number of
\* phones, presets and knob messages, as far as knobs are heard.
THEOREM SettledSelectionAgrees == Spec => []SelectionAgrees
<1>1. SettledInv => SelectionAgrees
    BY DEF SettledInv, StaysSettled, SelectionAgrees, AllIdle, AtRest, Agreed, Plays
<1>2. QED
    BY <1>1, SpecSettled, PTL

=============================================================================
