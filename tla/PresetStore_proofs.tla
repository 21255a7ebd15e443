-------------------------- MODULE PresetStore_proofs --------------------------
(***************************************************************************)
(* Proofs about PresetStore, for any presets, faults and writers: the      *)
(* types, and, for one connection at a time, that the file is what the     *)
(* memory holds between saves and that file and memory implement the       *)
(* register of PresetRegister, wherever the program stops.                 *)
(***************************************************************************)
EXTENDS PresetStore, SequenceTheorems, TLAPS

-----------------------------------------------------------------------------
(* The text of a list.                                                     *)

\* The text of a list is its presets in order and an end.
LEMMA EncodeText ==
    ASSUME NEW list \in Seq(Presets)
    PROVE  /\ Encode(list) \in Seq(Blocks)
           /\ Len(Encode(list)) = Len(list) + 1
           /\ \A i \in 1 .. Len(list) : Encode(list)[i] = list[i] /\ list[i] \in Presets
           /\ Encode(list)[Len(list) + 1] = End
           /\ Len(list) \in Nat
<1>1. list \in Seq(Blocks) /\ End \in Blocks /\ Len(list) \in Nat
    BY SeqMonotonic, LenProperties DEF Blocks
<1>2. \A i \in 1 .. Len(list) : list[i] \in Presets
    BY ElementOfSeq
<1>3. QED
    BY <1>1, <1>2, AppendProperties DEF Encode

\* Taking the last block off a text.
LEMMA FrontText ==
    ASSUME NEW S, NEW f \in Seq(Blocks), f # <<>>, \A i \in 1 .. Len(f) - 1 : f[i] \in S
    PROVE  /\ Front(f) \in Seq(S)
           /\ Len(Front(f)) = Len(f) - 1
           /\ \A i \in 1 .. Len(f) - 1 : Front(f)[i] = f[i]
           /\ Len(f) \in Nat \ {0}
<1> DEFINE m == Len(f) - 1
<1>1. Len(f) \in Nat \ {0} /\ m \in Nat /\ 1 \in Int /\ \A i \in 1 .. m : f[i] \in S
    BY EmptySeq
<1> HIDE DEF m
<1>2. /\ SubSeq(f, 1, m) \in Seq(S)
      /\ Len(SubSeq(f, 1, m)) = IF 1 <= m THEN m - 1 + 1 ELSE 0
      /\ \A i \in 1 .. m - 1 + 1 : SubSeq(f, 1, m)[i] = f[1 + i - 1]
    BY <1>1, SubSeqProperties
<1>3. SubSeq(f, 1, m) = Front(f)
    BY DEF Front, m
<1>4. Len(Front(f)) = m
    BY <1>1, <1>2, <1>3
<1>5. \A i \in 1 .. m : Front(f)[i] = f[i]
    BY <1>1, <1>2, <1>3
<1>6. QED
    BY <1>1, <1>2, <1>3, <1>4, <1>5 DEF m

\* A text that parses is the text of the list it is parsed to ...
LEMMA ParsableText ==
    ASSUME NEW f \in Seq(Blocks), Parsable(f)
    PROVE  Decode(f) \in Seq(Presets) /\ Encode(Decode(f)) = f
<1>1. /\ f # <<>> /\ f[Len(f)] = End
      /\ \A i \in 1 .. Len(f) - 1 : f[i] \in Presets
    BY DEF Parsable, Last
<1>2. /\ Front(f) \in Seq(Presets)
      /\ Len(Front(f)) = Len(f) - 1
      /\ \A i \in 1 .. Len(f) - 1 : Front(f)[i] = f[i]
      /\ Len(f) \in Nat \ {0}
    BY <1>1, FrontText
<1> DEFINE list == Front(f)
<1> HIDE DEF list
<1>3. list \in Seq(Presets) /\ Len(list) = Len(f) - 1 /\ \A i \in 1 .. Len(list) : list[i] = f[i]
    BY <1>2 DEF list
<1>4. Encode(list) \in Seq(Blocks) /\ Len(Encode(list)) = Len(f)
    BY <1>2, <1>3, EncodeText
<1>5. \A i \in 1 .. Len(f) : Encode(list)[i] = f[i]
    <2>1. \A i \in 1 .. Len(f) : i \in 1 .. Len(list) \/ i = Len(list) + 1
        BY <1>2, <1>3
    <2>2. \A i \in 1 .. Len(list) : Encode(list)[i] = f[i]
        BY <1>3, EncodeText
    <2>3. Encode(list)[Len(list) + 1] = f[Len(list) + 1]
        BY <1>1, <1>2, <1>3, EncodeText
    <2>4. QED
        BY <2>1, <2>2, <2>3
<1>6. Encode(list) = f
    BY <1>4, <1>5, SeqEqual
<1>7. QED
    BY <1>3, <1>6 DEF Decode, list

\* ... and the text of a list parses to that list.
LEMMA EncodedText ==
    ASSUME NEW list \in Seq(Presets)
    PROVE  Parsable(Encode(list)) /\ Decode(Encode(list)) = list
<1> DEFINE f == Encode(list)
<1>1. /\ f \in Seq(Blocks) /\ Len(f) = Len(list) + 1 /\ Len(list) \in Nat
      /\ \A i \in 1 .. Len(list) : f[i] = list[i] /\ f[i] \in Presets
      /\ f[Len(list) + 1] = End
    BY EncodeText
<1> HIDE DEF f
<1>2. f # <<>> /\ f[Len(f)] = End /\ \A i \in 1 .. Len(f) - 1 : f[i] \in Presets
    BY <1>1, EmptySeq
<1>3. Front(f) \in Seq(Presets) /\ Len(Front(f)) = Len(list)
    BY <1>1, <1>2, FrontText
<1>4. \A i \in 1 .. Len(list) : Front(f)[i] = list[i]
    BY <1>1, <1>2, FrontText
<1>5. Front(f) = list
    BY <1>3, <1>4, SeqEqual
<1>6. QED
    BY <1>2, <1>5 DEF Parsable, Decode, Last, f

\* The first k blocks of a list's text have been written and nothing else.
Prefix(f, list, k) ==
    /\ f \in Seq(Blocks)
    /\ Len(f) = k
    /\ \A i \in 1 .. k : f[i] = Encode(list)[i]

\* A prefix of a text is of no use unless it is the whole text.
LEMMA PrefixText ==
    ASSUME NEW list \in Seq(Presets), NEW f, NEW k \in 0 .. Len(list) + 1, Prefix(f, list, k)
    PROVE  /\ k = Len(list) + 1 => f = Encode(list)
           /\ k # Len(list) + 1 => ~Parsable(f)
<1>1. f \in Seq(Blocks) /\ Len(f) = k /\ \A i \in 1 .. k : f[i] = Encode(list)[i]
    BY DEF Prefix
<1>2. /\ Encode(list) \in Seq(Blocks) /\ Len(Encode(list)) = Len(list) + 1
      /\ \A i \in 1 .. Len(list) : Encode(list)[i] \in Presets
      /\ Len(list) \in Nat
    BY EncodeText
<1>3. ASSUME k = Len(list) + 1 PROVE f = Encode(list)
    BY <1>1, <1>2, <1>3, SeqEqual
<1>4. ASSUME k # Len(list) + 1, Parsable(f) PROVE FALSE
    <2>1. f # <<>> /\ f[Len(f)] = End
        BY <1>4 DEF Parsable, Last
    <2>2. Len(f) \in Nat \ {0}
        BY <1>1, <2>1, EmptySeq
    <2>3. Len(f) \in 1 .. Len(list) /\ Len(f) \in 1 .. k
        BY <1>1, <1>2, <1>4, <2>2
    <2>4. f[Len(f)] \in Presets
        BY <1>1, <1>2, <2>3
    <2>5. QED
        BY <2>1, <2>4, BlocksAssumption
<1>5. QED
    BY <1>3, <1>4

\* Writing through a stream keeps a file a sequence of blocks, whoever wrote
\* it before.
LEMMA OverlayType ==
    ASSUME NEW f \in Seq(Blocks), NEW text \in Seq(Blocks),
           NEW a \in Nat, NEW b \in a .. Len(text)
    PROVE  Overlay(f, text, a, b) \in Seq(Blocks)
<1> DEFINE n == IF Len(f) > b THEN Len(f) ELSE b
           g == [i \in 1 .. n |-> IF i > a /\ i <= b THEN text[i]
                                  ELSE IF i <= Len(f) THEN f[i] ELSE Hole]
<1>1. Len(f) \in Nat /\ Len(text) \in Nat /\ n \in Nat
    BY LenProperties
<1>2. ASSUME NEW i \in 1 .. n
      PROVE  (IF i > a /\ i <= b THEN text[i] ELSE IF i <= Len(f) THEN f[i] ELSE Hole) \in Blocks
    <2>1. i > a /\ i <= b => i \in 1 .. Len(text)
        BY <1>1
    <2>2. i <= Len(f) => i \in 1 .. Len(f)
        BY <1>1
    <2>3. QED
        BY <2>1, <2>2, ElementOfSeq DEF Blocks
<1> HIDE DEF n
<1>3. g \in [1 .. n -> Blocks]
    BY <1>2
<1>4. g \in Seq(Blocks)
    BY <1>1, <1>3, SeqDef
<1>5. QED
    BY <1>4 DEF Overlay, n

\* A stream that goes on where the file ends makes a longer prefix.
LEMMA OverlayPrefix ==
    ASSUME NEW list \in Seq(Presets), NEW f, NEW a \in Nat, NEW b \in a .. Len(list) + 1,
           Prefix(f, list, a)
    PROVE  Prefix(Overlay(f, Encode(list), a, b), list, b)
<1>1. f \in Seq(Blocks) /\ Len(f) = a /\ \A i \in 1 .. a : f[i] = Encode(list)[i]
    BY DEF Prefix
<1>2. Encode(list) \in Seq(Blocks) /\ Len(Encode(list)) = Len(list) + 1 /\ Len(list) \in Nat
    BY EncodeText
<1> DEFINE g == Overlay(f, Encode(list), a, b)
<1>3. g \in Seq(Blocks)
    BY <1>1, <1>2, OverlayType
<1>4. CASE a = b
    BY <1>1, <1>4 DEF Overlay, Prefix
<1>5. CASE a # b
    <2>1. g = [i \in 1 .. b |-> IF i > a /\ i <= b THEN Encode(list)[i]
                                ELSE IF i <= a THEN f[i] ELSE Hole]
        BY <1>1, <1>5 DEF Overlay
    <2>2. Len(g) = b
        <3>1. DOMAIN g = 1 .. b /\ DOMAIN g = 1 .. Len(g) /\ Len(g) \in Nat
            BY <1>3, <2>1, LenProperties
        <3> HIDE DEF g
        <3>2. QED
            BY <1>2, <3>1
    <2>3. \A i \in 1 .. b : g[i] = Encode(list)[i]
        BY <1>1, <1>2, <2>1
    <2>4. QED
        BY <1>3, <2>2, <2>3 DEF Prefix
<1>6. QED
    BY <1>4, <1>5

\* Removing an index leaves a list of presets, also when it is out of range.
LEMMA WithoutType ==
    ASSUME NEW list \in Seq(Presets), NEW i \in Int
    PROVE  Without(list, i) \in Seq(Presets)
<1>1. DOMAIN list = 1 .. Len(list) /\ Len(list) \in Nat
      /\ \A j \in 1 .. Len(list) : list[j] \in Presets
    BY LenProperties, ElementOfSeq
<1>2. ASSUME i + 1 \in DOMAIN list
      PROVE  SubSeq(list, 1, i) \in Seq(Presets) /\ SubSeq(list, i + 2, Len(list)) \in Seq(Presets)
    <2>1. /\ \A j \in 1 .. i : list[j] \in Presets
          /\ \A j \in i + 2 .. Len(list) : list[j] \in Presets
          /\ 1 \in Int /\ i + 2 \in Int /\ Len(list) \in Int
        BY <1>1, <1>2
    <2>2. QED
        BY <2>1, SubSeqProperties
<1>3. ASSUME i + 1 \in DOMAIN list PROVE RemoveAt(list, i + 1) \in Seq(Presets)
    <2>1. (i + 1) - 1 = i /\ (i + 1) + 1 = i + 2
        OBVIOUS
    <2>2. RemoveAt(list, i + 1) = SubSeq(list, 1, i) \o SubSeq(list, i + 2, Len(list))
        BY <2>1 DEF RemoveAt
    <2>3. QED
        BY <1>2, <1>3, <2>2, ConcatProperties
<1>4. QED
    BY <1>3 DEF Without

-----------------------------------------------------------------------------
(* The types.                                                              *)

\* A writer that has opened the file finds one, and has written of its text
\* what there is of it.
OpenInv ==
    \A w \in Writers :
        pc[w] \in {"puts", "close"} => file # Absent /\ pos[w] <= Len(snap[w]) + 1

\* The types need what is known of an open file.
TypeInv == TypeOK /\ OpenInv

\* A list within the bound is a list of presets.
LEMMA ListsType == Lists \subseteq Seq(Presets)
<1> SUFFICES ASSUME NEW n \in 0 .. MaxPresets
             PROVE  [1 .. n -> Presets] \subseteq Seq(Presets)
    BY DEF Lists
<1>1. n \in Nat
    BY PresetBoundAssumption
<1>2. QED
    BY <1>1, SeqDef

\* The edits put a list of presets in memory and touch no file.
LEMMA EditType ==
    ASSUME TypeInv, NEW h \in Handlers, NEW list \in Seq(Presets), Edited(h, list)
    PROVE  TypeInv'
<1>1. TypeOK'
    BY DEF Edited, TypeInv, TypeOK, Started, Writers
<1>2. OpenInv'
    BY DEF Edited, TypeInv, TypeOK, OpenInv, Writers
<1>3. QED
    BY <1>1, <1>2 DEF TypeInv

\* What a request may make of the list in memory.
LEMMA Edits ==
    ASSUME TypeOK, NEW h \in Handlers, Request(h)
    PROVE  \/ \E list \in Seq(Presets) :
                Edited(h, list) /\ pc[h] \in {"idle", "checked"}
                /\ (pc[h] = "idle" => proc = "running")
           \/ \E i \in -1 .. MaxPresets : CheckRemove(h, i)
<1>1. ASSUME NEW p \in Presets, AddPreset(h, p)
      PROVE  \E list \in Seq(Presets) : Edited(h, list) /\ pc[h] = "idle" /\ proc = "running"
    <2>1. Append(presets, p) \in Seq(Presets)
        BY AppendProperties DEF TypeOK
    <2>2. QED
        BY <1>1, <2>1 DEF AddPreset, Serving
<1>2. ASSUME NEW list \in Lists, SetPresets(h, list)
      PROVE  list \in Seq(Presets) /\ Edited(h, list) /\ pc[h] = "idle" /\ proc = "running"
    BY <1>2, ListsType DEF SetPresets, Serving
<1>3. ASSUME RemovePreset(h)
      PROVE  \E list \in Seq(Presets) : Edited(h, list) /\ pc[h] = "checked"
    <2>1. arg[h] \in Int
        BY DEF TypeOK, Writers
    <2>2. Without(presets, arg[h]) \in Seq(Presets)
        BY <2>1, WithoutType DEF TypeOK
    <2>3. QED
        BY <1>3, <2>2 DEF RemovePreset
<1>4. QED
    BY <1>1, <1>2, <1>3 DEF Request

\* There is no file and no program runs.
LEMMA TypeInit == Init => TypeInv
<1> SUFFICES ASSUME Init PROVE TypeInv
    OBVIOUS
<1>1. <<>> \in Seq(Presets)
    BY EmptySeq
<1>2. TypeOK
    <2>1. presets \in Seq(Presets) /\ snap \in [Writers -> Seq(Presets)]
        BY <1>1 DEF Init
    <2>2. arg \in [Writers -> Int] /\ pos \in [Writers -> Nat]
        BY DEF Init
    <2>3. QED
        BY <2>1, <2>2 DEF Init, TypeOK
<1>3. OpenInv
    BY DEF Init, OpenInv
<1>4. QED
    BY <1>2, <1>3 DEF TypeInv

\* Whatever a request, a save, a start or a crash does, the types stay.
LEMMA TypeStep ==
    ASSUME TypeInv, [Next]_vars
    PROVE  TypeInv'
<1> USE DEF Started
<1>1. ASSUME NEW h \in Handlers, Request(h) PROVE TypeInv'
    <2>1. CASE \E list \in Seq(Presets) : Edited(h, list)
        BY <2>1, EditType
    <2>2. ASSUME NEW i \in -1 .. MaxPresets, CheckRemove(h, i) PROVE TypeInv'
        <3>1. i \in Int
            BY PresetBoundAssumption
        <3>2. TypeOK'
            BY <2>2, <3>1 DEF CheckRemove, TypeInv, TypeOK, Writers
        <3>3. OpenInv'
            BY <2>2 DEF CheckRemove, TypeInv, TypeOK, OpenInv, Writers
        <3>4. QED
            BY <3>2, <3>3 DEF TypeInv
    <2>3. QED
        BY <1>1, <2>1, <2>2, Edits DEF TypeInv
<1>2. ASSUME NEW w \in Writers, Snapshot(w) PROVE TypeInv'
    <2>1. TypeOK'
        BY <1>2 DEF Snapshot, TypeInv, TypeOK
    <2>2. OpenInv'
        BY <1>2 DEF Snapshot, TypeInv, TypeOK, OpenInv
    <2>3. QED
        BY <2>1, <2>2 DEF TypeInv
<1>3. ASSUME NEW w \in Writers, Open(w) PROVE TypeInv'
    <2>1. <<>> \in Seq(Blocks) /\ <<>> # Absent
        BY EmptySeq, FilesAssumption DEF Blocks
    <2>2. TypeOK'
        BY <1>3, <2>1 DEF Open, TypeInv, TypeOK
    <2>3. \A v \in Writers : Len(snap[v]) \in Nat
        BY LenProperties DEF TypeInv, TypeOK
    <2>4. OpenInv'
        BY <1>3, <2>1, <2>3 DEF Open, TypeInv, TypeOK, OpenInv
    <2>5. QED
        BY <2>2, <2>4 DEF TypeInv
<1>4. ASSUME NEW w \in Writers, OpenFails(w) PROVE TypeInv'
    <2>1. TypeOK'
        BY <1>4 DEF OpenFails, Finish, TypeInv, TypeOK
    <2>2. OpenInv'
        BY <1>4 DEF OpenFails, Finish, TypeInv, TypeOK, OpenInv
    <2>3. QED
        BY <2>1, <2>2 DEF TypeInv
<1>5. ASSUME NEW w \in Writers, NEW k \in 0 .. MaxPresets + 1, Puts(w, k) PROVE TypeInv'
    <2>1. /\ file \in Seq(Blocks) /\ snap[w] \in Seq(Presets)
          /\ k \in 0 .. Len(snap[w]) + 1 /\ Len(snap[w]) \in Nat
        BY <1>5, LenProperties DEF Puts, TypeInv, TypeOK, OpenInv
    <2>2. k \in Nat /\ k \in 0 .. Len(Encode(snap[w])) /\ Encode(snap[w]) \in Seq(Blocks)
        BY <2>1, EncodeText
    <2>3. file' \in Seq(Blocks)
        BY <1>5, <2>1, <2>2, OverlayType DEF Puts
    <2>4. TypeOK'
        BY <1>5, <2>2, <2>3 DEF Puts, TypeInv, TypeOK
    <2>5. OpenInv'
        BY <1>5, <2>1, <2>3, FilesAssumption DEF Puts, TypeInv, TypeOK, OpenInv, Blocks
    <2>6. QED
        BY <2>4, <2>5 DEF TypeInv
<1>6. ASSUME NEW w \in Writers, NEW k \in 0 .. MaxPresets + 1, Close(w, k) PROVE TypeInv'
    <2>1. /\ file \in Seq(Blocks) /\ snap[w] \in Seq(Presets) /\ pos[w] \in Nat
          /\ k \in pos[w] .. Len(snap[w]) + 1 /\ Len(snap[w]) \in Nat
        BY <1>6, LenProperties DEF Close, TypeInv, TypeOK, OpenInv
    <2>2. k \in pos[w] .. Len(Encode(snap[w])) /\ Encode(snap[w]) \in Seq(Blocks)
        BY <2>1, EncodeText
    <2>3. file' \in Seq(Blocks)
        BY <1>6, <2>1, <2>2, OverlayType DEF Close
    <2>4. TypeOK'
        BY <1>6, <2>3 DEF Close, Finish, TypeInv, TypeOK
    <2>5. OpenInv'
        BY <1>6, <2>3, FilesAssumption DEF Close, Finish, TypeInv, TypeOK, OpenInv, Blocks
    <2>6. QED
        BY <2>4, <2>5 DEF TypeInv
<1>7. CASE StartLoads
    <2>1. presets' \in Seq(Presets)
        BY <1>7, ParsableText DEF StartLoads, TypeInv, TypeOK
    <2>2. TypeOK'
        BY <1>7, <2>1 DEF StartLoads, TypeInv, TypeOK
    <2>3. OpenInv'
        BY <1>7 DEF StartLoads, TypeInv, OpenInv
    <2>4. QED
        BY <2>2, <2>3 DEF TypeInv
<1>8. CASE StartFails
    <2>1. TypeOK'
        BY <1>8 DEF StartFails, TypeInv, TypeOK
    <2>2. OpenInv'
        BY <1>8 DEF StartFails, TypeInv, OpenInv
    <2>3. QED
        BY <2>1, <2>2 DEF TypeInv
<1>9. CASE StartCreates
    <2>1. <<>> \in Seq(Presets)
        BY EmptySeq
    <2>2. TypeOK'
        BY <1>9, <2>1 DEF StartCreates, TypeInv, TypeOK
    <2>3. OpenInv'
        BY <1>9 DEF StartCreates, TypeInv, TypeOK, OpenInv
    <2>4. QED
        BY <2>2, <2>3 DEF TypeInv
<1>10. CASE Crash
    <2>1. <<>> \in Seq(Presets)
        BY EmptySeq
    <2>2. TypeOK'
        BY <1>10, <2>1 DEF Crash, TypeInv, TypeOK
    <2>3. OpenInv'
        BY <1>10 DEF Crash, OpenInv
    <2>4. QED
        BY <2>2, <2>3 DEF TypeInv
<1>11. CASE UNCHANGED vars
    BY <1>11 DEF vars, TypeInv, TypeOK, OpenInv
<1>12. QED
    BY <1>1, <1>2, <1>3, <1>4, <1>5, <1>6, <1>7, <1>8, <1>9, <1>10, <1>11 DEF Next, Save

\* The types hold throughout.
LEMMA TypeInvariant == Spec => []TypeInv
<1>1. TypeInv /\ [Next]_vars => TypeInv'
    BY TypeStep
<1>2. QED
    BY <1>1, TypeInit, PTL DEF Spec

\* The list in memory and the lists being saved hold presets only, and the
\* file is a sequence of blocks, whatever the writers' streams do to each
\* other and wherever the program stops.
THEOREM StoreTypeCorrect == Spec => []TypeOK
<1>1. TypeInv => TypeOK
    BY DEF TypeInv
<1>2. QED
    BY <1>1, TypeInvariant, PTL

-----------------------------------------------------------------------------
(* The program and its writers.                                            *)

\* Writer w is inside savePresets.
Saving(w) == pc[w] \in {"open", "puts", "close"}

\* A program that is down has nothing in memory and no writer; while the file
\* is created the main thread is the only writer, and it is one only then.
ProgramInv ==
    /\ proc \notin Started => presets = <<>> /\ (\A w \in Writers : pc[w] = "idle")
    /\ proc = "creating" => presets = <<>> /\ (\A h \in Handlers : pc[h] = "idle")
    /\ proc = "creating" <=> pc[Main] # "idle"
    /\ pc[Main] # "idle" => Saving(Main)

\* The program is down and has no writers.
LEMMA ProgramInit == Init => ProgramInv
<1>1. Main \in Writers
    BY DEF Writers
<1>2. QED
    BY <1>1 DEF Init, ProgramInv, Started, Writers

\* Starts, requests, saves and crashes keep the program and its writers in step.
LEMMA ProgramStep ==
    ASSUME TypeInv, ProgramInv, [Next]_vars
    PROVE  ProgramInv'
<1>1. /\ Main \in Writers /\ Main \notin Handlers /\ Handlers \subseteq Writers
      /\ pc \in [Writers -> {"idle", "checked", "updated", "open", "puts", "close"}]
      /\ \A w \in Writers : pc[w] # "idle" => proc \in Started
      /\ \A h \in Handlers : pc[h] # "idle" => proc = "running"
    BY WritersAssumption DEF Writers, TypeInv, TypeOK, ProgramInv, Started
<1> USE DEF Started
<1>2. ASSUME NEW h \in Handlers, Request(h) PROVE ProgramInv'
    <2>1. /\ proc = "running" /\ proc' = proc
          /\ \A v \in Writers : v # h => pc'[v] = pc[v]
        <3>1. CASE \E list \in Seq(Presets) :
                      Edited(h, list) /\ pc[h] \in {"idle", "checked"}
                      /\ (pc[h] = "idle" => proc = "running")
            BY <1>1, <3>1 DEF Edited
        <3>2. CASE \E i \in -1 .. MaxPresets : CheckRemove(h, i)
            BY <1>1, <3>2 DEF CheckRemove, Serving
        <3>3. QED
            BY <1>2, <3>1, <3>2, Edits DEF TypeInv
    <2>2. QED
        BY <1>1, <2>1 DEF ProgramInv, Saving
<1>3. ASSUME NEW w \in Writers, Save(w) PROVE ProgramInv'
    <2>1. /\ presets' = presets
          /\ \A v \in Writers : v # w => pc'[v] = pc[v]
          /\ \/ proc' = proc /\ pc[w] # "idle" /\ Saving(w)'
             \/ /\ pc[w] # "idle" /\ pc'[w] = "idle"
                /\ proc' = IF w = Main THEN "running" ELSE proc
        BY <1>1, <1>3 DEF Save, Snapshot, Open, OpenFails, Puts, Close, Finish, Saving
    <2>2. QED
        BY <1>1, <2>1 DEF ProgramInv, Saving, Writers
<1>4. CASE StartLoads
    BY <1>1, <1>4 DEF StartLoads, ProgramInv
<1>5. CASE StartFails
    BY <1>1, <1>5 DEF StartFails, ProgramInv
<1>6. CASE StartCreates
    BY <1>1, <1>6 DEF StartCreates, ProgramInv, Saving
<1>7. CASE Crash
    BY <1>1, <1>7 DEF Crash, ProgramInv
<1>8. CASE UNCHANGED vars
    BY <1>8 DEF vars, ProgramInv, Saving
<1>9. QED
    BY <1>2, <1>3, <1>4, <1>5, <1>6, <1>7, <1>8 DEF Next

-----------------------------------------------------------------------------
(* The file, with one connection.                                          *)

\* No two writers are at work at the same time.  Several connections break it;
\* with one it is so, which is proved below (OneConnection).
OneAtATime ==
    \A v, w \in Writers : pc[v] # "idle" /\ pc[w] # "idle" => v = w

\* The list being saved is the list in memory, and the file holds as much of
\* its text as has been written; after a save that succeeded, all of it.
SaveInv ==
    /\ \A w \in Writers :
          /\ Saving(w) => snap[w] = presets
          /\ pc[w] = "puts" => pos[w] = 0
          /\ pc[w] \in {"puts", "close"} => Prefix(file, snap[w], pos[w])
    /\ proc = "running" /\ ~stale /\ (\A w \in Writers : pc[w] \in {"idle", "checked"})
           => file = Encode(presets)

\* The invariant of a store with one writer at a time.
StoreInv == TypeInv /\ ProgramInv /\ SaveInv

\* No writer is at work and the program is down.
LEMMA SaveInit == Init => SaveInv
BY DEF Init, SaveInv, Saving

\* With one writer at work, a save writes what it read and nothing else.
LEMMA SaveStep ==
    ASSUME StoreInv, OneAtATime, OneAtATime', [Next]_vars
    PROVE  SaveInv'
<1> USE DEF StoreInv
<1>1. /\ Main \in Writers /\ Main \notin Handlers /\ Handlers \subseteq Writers
      /\ pc \in [Writers -> {"idle", "checked", "updated", "open", "puts", "close"}]
      /\ snap \in [Writers -> Seq(Presets)] /\ pos \in [Writers -> Nat]
    BY WritersAssumption DEF Writers, TypeInv, TypeOK
<1>2. ASSUME NEW h \in Handlers, NEW list, Edited(h, list) PROVE SaveInv'
    <2>1. pc'[h] = "updated"
        BY <1>1, <1>2 DEF Edited
    <2>2. \A v \in Writers : v # h => pc'[v] = "idle"
        BY <1>1, <2>1 DEF OneAtATime
    <2>3. QED
        BY <1>1, <2>1, <2>2 DEF SaveInv, Saving
<1>3. ASSUME NEW h \in Handlers, NEW i, CheckRemove(h, i) PROVE SaveInv'
    <2>1. pc[h] = "idle" /\ pc'[h] = "checked"
        BY <1>1, <1>3 DEF CheckRemove, Serving
    <2>2. \A v \in Writers : v # h => pc'[v] = "idle" /\ pc[v] = "idle"
        BY <1>1, <1>3, <2>1 DEF OneAtATime, CheckRemove
    <2>3. QED
        BY <1>1, <1>3, <2>1, <2>2 DEF SaveInv, Saving, CheckRemove
<1>4. ASSUME NEW w \in Writers, Save(w) PROVE SaveInv'
    <2>1. pc[w] # "idle" /\ \A v \in Writers : v # w => pc[v] = "idle" /\ pc'[v] = "idle"
        <3>1. pc[w] # "idle" /\ \A v \in Writers : v # w => pc'[v] = pc[v]
            BY <1>1, <1>4 DEF Save, Snapshot, Open, OpenFails, Puts, Close, Finish
        <3>2. QED
            BY <3>1 DEF OneAtATime
    <2>2. CASE Snapshot(w)
        BY <1>1, <2>1, <2>2 DEF Snapshot, SaveInv, Saving
    <2>3. CASE Open(w)
        <3>1. Prefix(file', snap[w], 0)
            BY <2>3, EmptySeq DEF Open, Prefix
        <3>2. QED
            BY <1>1, <2>1, <2>3, <3>1 DEF Open, SaveInv, Saving, Prefix
    <2>4. CASE OpenFails(w)
        BY <1>1, <2>1, <2>4 DEF OpenFails, Finish, SaveInv, Saving
    <2>5. ASSUME NEW k \in 0 .. MaxPresets + 1, Puts(w, k) PROVE SaveInv'
        <3>1. /\ Prefix(file, snap[w], 0) /\ snap[w] \in Seq(Presets)
              /\ k \in 0 .. Len(snap[w]) + 1 /\ 0 \in Nat
            BY <1>1, <2>5 DEF Puts, SaveInv
        <3>2. Prefix(file', snap[w], k)
            BY <2>5, <3>1, OverlayPrefix DEF Puts
        <3>3. QED
            BY <1>1, <2>1, <2>5, <3>2 DEF Puts, SaveInv, Saving, Prefix
    <2>6. ASSUME NEW k \in 0 .. MaxPresets + 1, Close(w, k) PROVE SaveInv'
        <3>1. /\ Prefix(file, snap[w], pos[w]) /\ snap[w] \in Seq(Presets)
              /\ k \in pos[w] .. Len(snap[w]) + 1 /\ pos[w] \in Nat
              /\ snap[w] = presets /\ presets' = presets
            BY <1>1, <2>6 DEF Close, SaveInv, Saving
        <3>2. Prefix(file', snap[w], k)
            BY <2>6, <3>1, OverlayPrefix DEF Close
        <3>3. ~stale' => file' = Encode(presets')
            <4>1. k \in 0 .. Len(snap[w]) + 1
                BY <3>1, LenProperties
            <4>2. QED
                BY <2>6, <3>1, <3>2, <4>1, PrefixText DEF Close
        <3>4. \A v \in Writers : pc'[v] = "idle"
            BY <1>1, <2>1, <2>6 DEF Close, Finish
        <3>5. QED
            BY <3>3, <3>4 DEF SaveInv, Saving
    <2>7. QED
        BY <1>4, <2>2, <2>3, <2>4, <2>5, <2>6 DEF Save
<1>5. CASE StartLoads
    <2>1. file = Encode(Decode(file))
        BY <1>5, ParsableText DEF StartLoads, TypeInv, TypeOK
    <2>2. \A w \in Writers : pc'[w] = "idle"
        BY <1>5 DEF StartLoads, ProgramInv
    <2>3. QED
        BY <1>5, <2>1, <2>2 DEF StartLoads, SaveInv, Saving
<1>6. CASE StartFails
    <2>1. proc' = "failed" /\ \A w \in Writers : pc'[w] = "idle"
        BY <1>6 DEF StartFails, ProgramInv
    <2>2. QED
        BY <2>1 DEF SaveInv, Saving
<1>7. CASE StartCreates
    <2>1. proc' = "creating" /\ pc'[Main] = "open" /\ snap'[Main] = presets'
        BY <1>1, <1>7 DEF StartCreates, ProgramInv
    <2>2. \A w \in Writers : w # Main => pc'[w] = "idle"
        BY <1>1, <1>7 DEF StartCreates, ProgramInv
    <2>3. QED
        BY <2>1, <2>2 DEF SaveInv, Saving
<1>8. CASE Crash
    BY <1>1, <1>8 DEF Crash, SaveInv, Saving
<1>9. CASE UNCHANGED vars
    BY <1>9 DEF vars, SaveInv, Saving, Prefix
<1>10. ASSUME NEW h \in Handlers, Request(h) PROVE SaveInv'
    BY <1>2, <1>3, <1>10, Edits DEF TypeInv
<1>11. QED
    BY <1>4, <1>5, <1>6, <1>7, <1>8, <1>9, <1>10 DEF Next

-----------------------------------------------------------------------------
(* The register.                                                           *)

\* The initial states map to initial states of the register.
LEMMA RegisterStart == Init => Register!RegisterInit
BY DEF Init, Register!RegisterInit, Disk, Started

\* A write through the only stream leaves the file of no use, or commits the
\* list in memory.
LEMMA WriteMaps ==
    ASSUME TypeOK, NEW k \in 0 .. Len(presets) + 1, Prefix(file', presets, k)
    PROVE  Disk' \in {presets, Unusable}
<1>1. presets \in Seq(Presets) /\ file' \in Seq(Blocks)
    BY DEF TypeOK, Prefix
<1>2. file' # Absent
    BY <1>1, FilesAssumption DEF Blocks
<1>3. CASE k = Len(presets) + 1
    <2>1. file' = Encode(presets)
        BY <1>1, <1>3, PrefixText
    <2>2. QED
        BY <1>1, <1>2, <2>1, EncodedText DEF Disk
<1>4. CASE k # Len(presets) + 1
    <2>1. ~Parsable(file')
        BY <1>1, <1>4, PrefixText
    <2>2. QED
        BY <1>2, <2>1 DEF Disk
<1>5. QED
    BY <1>3, <1>4

\* Every step of the file and the memory is one of the register's, or none.
LEMMA RegisterStep ==
    ASSUME StoreInv, OneAtATime, OneAtATime', StoreInv', [Next]_vars
    PROVE  [Register!RegisterNext]_Register!registerVars
<1> USE DEF StoreInv
<1>1. ASSUME UNCHANGED <<presets, file>>, (proc' \in Started) = (proc \in Started)
      PROVE  UNCHANGED Register!registerVars
    BY <1>1 DEF Register!registerVars, Disk
<1>2. ASSUME NEW h \in Handlers, Request(h)
      PROVE  Register!Edit \/ UNCHANGED Register!registerVars
    <2>1. ASSUME NEW list \in Seq(Presets), Edited(h, list),
                 pc[h] = "idle" => proc = "running"
          PROVE  Register!Edit
        <3>1. pc[h] # "idle" => proc \in Started
            BY DEF ProgramInv, Writers
        <3>2. proc \in Started /\ proc' = proc /\ file' = file /\ presets' = list
            BY <2>1, <3>1 DEF Edited, Started
        <3>3. QED
            BY <3>2 DEF Register!Edit, Disk
    <2>2. ASSUME NEW i, CheckRemove(h, i) PROVE UNCHANGED Register!registerVars
        BY <1>1, <2>2 DEF CheckRemove
    <2>3. QED
        BY <1>2, <2>1, <2>2, Edits DEF TypeInv
<1>3. ASSUME NEW w \in Writers, Save(w)
      PROVE  \/ Register!Spoil \/ Register!Commit \/ UNCHANGED Register!registerVars
    <2>1. proc \in Started /\ proc' \in Started /\ presets' = presets
        BY <1>3 DEF Save, Snapshot, Open, OpenFails, Puts, Close, Finish, ProgramInv, Started
    <2>2. ASSUME Disk' \in {presets, Unusable} PROVE Register!Spoil \/ Register!Commit
        BY <2>1, <2>2 DEF Register!Spoil, Register!Commit
    <2>3. ASSUME file' = file PROVE UNCHANGED Register!registerVars
        BY <1>1, <2>1, <2>3
    <2>4. CASE Snapshot(w) \/ OpenFails(w)
        BY <2>3, <2>4 DEF Snapshot, OpenFails
    <2>5. CASE Open(w)
        <3>1. <<>> # Absent /\ ~Parsable(<<>>)
            BY FilesAssumption, EmptySeq DEF Parsable
        <3>2. QED
            BY <2>2, <2>5, <3>1 DEF Open, Disk
    <2>6. ASSUME NEW k \in 0 .. MaxPresets + 1, Puts(w, k) \/ Close(w, k)
          PROVE  Register!Spoil \/ Register!Commit
        <3>1. /\ presets \in Seq(Presets) /\ Len(presets) \in Nat
              /\ pos[w] \in Nat /\ snap[w] = presets
              /\ Prefix(file, presets, pos[w]) /\ (pc[w] = "puts" => pos[w] = 0)
            BY <2>6, LenProperties DEF Puts, Close, SaveInv, Saving, TypeInv, TypeOK
        <3>2. /\ k \in pos[w] .. Len(presets) + 1
              /\ file' = Overlay(file, Encode(presets), pos[w], k)
            BY <2>6, <3>1 DEF Puts, Close
        <3>3. Prefix(file', presets, k)
            BY <3>1, <3>2, OverlayPrefix
        <3>4. k \in 0 .. Len(presets) + 1
            BY <3>1, <3>2
        <3>5. QED
            BY <2>2, <3>3, <3>4, WriteMaps DEF TypeInv
    <2>7. QED
        BY <1>3, <2>4, <2>5, <2>6 DEF Save
<1>4. ASSUME StartLoads PROVE Register!Restart
    <2>1. Disk = Decode(file) /\ Decode(file) \in Seq(Presets)
        BY <1>4, ParsableText DEF StartLoads, Disk, TypeInv, TypeOK
    <2>2. Disk # Unusable
        BY <2>1, FilesAssumption
    <2>3. proc \notin Started /\ proc' \in Started /\ presets' = Disk /\ Disk' = Disk
        BY <1>4, <2>1 DEF StartLoads, Started, Disk
    <2>4. QED
        BY <2>2, <2>3 DEF Register!Restart
<1>5. CASE StartFails
    BY <1>1, <1>5 DEF StartFails, Started
<1>6. ASSUME StartCreates PROVE Register!Restart
    <2>1. Disk = <<>> /\ presets = <<>>
        BY <1>6 DEF StartCreates, Disk, ProgramInv
    <2>2. <<>> # Unusable
        BY FilesAssumption, EmptySeq
    <2>3. proc \notin Started /\ proc' \in Started /\ presets' = Disk /\ Disk' = Disk
        BY <1>6, <2>1 DEF StartCreates, Started, Disk
    <2>4. QED
        BY <2>1, <2>2, <2>3 DEF Register!Restart
<1>7. ASSUME Crash PROVE Register!Crash
    <2>1. proc \in Started /\ proc' \notin Started /\ presets' = <<>> /\ Disk' = Disk
        BY <1>7 DEF Crash, Started, Disk
    <2>2. QED
        BY <2>1 DEF Register!Crash
<1>8. CASE UNCHANGED vars
    BY <1>1, <1>8 DEF vars
<1>9. QED
    BY <1>2, <1>3, <1>4, <1>5, <1>6, <1>7, <1>8 DEF Next, Register!RegisterNext

-----------------------------------------------------------------------------
(* Theorems.                                                               *)

\* The program and its writers are in step throughout.
LEMMA ProgramInvariant == Spec => []ProgramInv
<1>1. TypeInv /\ ProgramInv /\ [Next]_vars => ProgramInv'
    BY ProgramStep
<1>2. QED
    BY <1>1, ProgramInit, TypeInvariant, PTL DEF Spec

\* With one connection no writer meets another: the main thread saves before
\* requests are served.
LEMMA OneConnection ==
    ASSUME \A g, h \in Handlers : g = h
    PROVE  Spec => []OneAtATime
<1>1. ProgramInv => OneAtATime
    BY WritersAssumption DEF ProgramInv, OneAtATime, Writers, Started
<1>2. QED
    BY <1>1, ProgramInvariant, PTL

\* The invariant holds with one connection.
LEMMA StoreInvariant ==
    ASSUME \A g, h \in Handlers : g = h
    PROVE  Spec => []StoreInv
<1>1. Init => StoreInv
    BY TypeInit, ProgramInit, SaveInit DEF StoreInv
<1>2. StoreInv /\ OneAtATime /\ OneAtATime' /\ [Next]_vars => StoreInv'
    BY TypeStep, ProgramStep, SaveStep DEF StoreInv
<1>3. QED
    BY <1>1, <1>2, OneConnection, PTL DEF Spec

\* With one connection the file holds the list in memory whenever no request is
\* being served and the last save did not fail: each edit of main.kt:195-217 is
\* saved, whatever failed or stopped before.  With two it need not be, savePresets
\* has no lock.
THEOREM OneConnectionSaves ==
    ASSUME \A g, h \in Handlers : g = h
    PROVE  Spec => []SavedWhenIdle
<1>1. StoreInv => SavedWhenIdle
    <2> SUFFICES ASSUME StoreInv, proc = "running", ~stale, \A w \in Writers : pc[w] = "idle"
                 PROVE  file = Encode(presets)
        BY DEF SavedWhenIdle
    <2>1. QED
        BY DEF StoreInv, SaveInv
<1>2. QED
    BY <1>1, StoreInvariant, PTL

\* With one connection file and memory implement the register: wherever the
\* program stops in a save (file/PresetsManager.kt:23-29), the file is of no use or
\* holds a list that was in memory, and a restart takes up exactly that list.
THEOREM OneConnectionImplementsRegister ==
    ASSUME \A g, h \in Handlers : g = h
    PROVE  Spec => ImplementsRegister
<1>1. StoreInv /\ StoreInv' /\ OneAtATime /\ OneAtATime' /\ [Next]_vars
      => [Register!RegisterNext]_Register!registerVars
    BY RegisterStep
<1>2. QED
    BY <1>1, RegisterStart, OneConnection, StoreInvariant, PTL
    DEF Spec, ImplementsRegister, Register!RegisterSpec

=============================================================================
