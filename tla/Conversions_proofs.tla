------------------------ MODULE Conversions_proofs ------------------------
(***************************************************************************)
(* Proofs about Conversions, for a command line, messages and lines of any *)
(* length: what is parsed from a command line is what reading it from left *)
(* to right finds, the amplifier's messages are read and the commands are  *)
(* heard as they were meant, and a phone's lines arrive but for what a 0   *)
(* byte or a line that is no message takes with it.  Each conversion has   *)
(* an invariant of its own; that they run beside one another adds nothing. *)
(***************************************************************************)
EXTENDS Conversions, Integers, SequenceTheorems, WellFoundedInduction, TLAPS

-----------------------------------------------------------------------------
(* The command line.                                                       *)

\* The value option o gets when it is named by word i.
ValueAt(o, i) == i \in 1 .. Len(args) - 1 /\ o \in Named(args[i]) /\ args[i + 1] \in Plain

\* The command line and the state of its reader are of their types.
ArgsTypes ==
    /\ args \in Seq(Words)
    /\ scan \in [named : SUBSET Options, pending : SUBSET Valued, bad : BOOLEAN,
                 values : [Valued -> Plain \cup {Nothing}]]

\* What the reader has seen, in terms of the line: which options are named,
\* which wait for a value because the last word names them, whether one has
\* waited in vain, and whose value each value is.
ArgsInv ==
    /\ ArgsTypes
    /\ scan.named = {o \in Options : \E i \in DOMAIN args : o \in Named(args[i])}
    /\ scan.pending = {o \in Valued : args # <<>> /\ o \in Named(args[Len(args)])}
    /\ scan.bad <=> \E i \in 1 .. Len(args) - 1 :
                        args[i + 1] \notin Plain /\ \E o \in Valued : o \in Named(args[i])
    /\ \A o \in Valued :
          \/ \E i \in DOMAIN args : ValueAt(o, i) /\ scan.values[o] = args[i + 1]
          \/ scan.values[o] = Nothing /\ \A i \in DOMAIN args : ~ValueAt(o, i)

\* A word that can be a value names no option, and "help" is one.
LEMMA PlainNames ==
    /\ \A word \in Plain : Named(word) = {}
    /\ Help \in Options
    /\ Valued \subseteq Options
<1>1. \A word \in Plain : Named(word) = {}
    BY PlainAssumption DEF Named, Names
<1>2. \E o \in Options : o.longName = "--help"
    BY DEF Options, Option
<1>3. QED
    BY <1>1, <1>2 DEF Help, Valued

\* In a line that names no option twice the search for an option finds the
\* word that names it, and finds nothing only if no word does.
LEMMA GetIndexFinds ==
    ASSUME args \in Seq(Words), NamedOnce, NEW o \in Options
    PROVE  /\ GetIndex(o) \in 0 .. Len(args)
           /\ GetIndex(o) # 0 => o \in Named(args[GetIndex(o)])
           /\ \A i \in DOMAIN args : o \in Named(args[i]) => GetIndex(o) = i
<1> DEFINE At(word) == {i \in 1 .. Len(args) : args[i] = word}
<1>1. Len(args) \in Nat /\ DOMAIN args = 1 .. Len(args) /\ \A i \in DOMAIN args : args[i] \in Words
    BY LenProperties, ElementOfSeq
<1>2. \A i, j \in DOMAIN args : o \in Named(args[i]) /\ o \in Named(args[j]) => i = j
    BY DEF NamedOnce
<1>3. ASSUME NEW word, word \in {o.shortName, o.longName}
      PROVE  \/ IndexOf(word) = 0 /\ At(word) = {}
             \/ \E i \in DOMAIN args : At(word) = {i} /\ IndexOf(word) = i
    <2>1. IndexOf(word) = IF At(word) # {} THEN Min(At(word)) ELSE 0
        BY DEF IndexOf, SelectInSeq
    <2>2. CASE At(word) = {}
        BY <2>1, <2>2
    <2>3. ASSUME NEW i \in At(word)
          PROVE  At(word) = {i} /\ IndexOf(word) = i
        <3>1. At(word) = {i}
            BY <1>1, <1>2, <1>3, <2>3 DEF Named
        <3>2. Min({i}) = i
            BY <1>1, <2>3 DEF Min
        <3>3. QED
            BY <2>1, <3>1, <3>2
    <2>4. QED
        BY <2>2, <2>3, <1>1
<1>4. \A i \in DOMAIN args : o \in Named(args[i]) <=> i \in At(o.shortName) \/ i \in At(o.longName)
    BY <1>1 DEF Named
<1> HIDE DEF At
<1>5. QED
    BY <1>1, <1>2, <1>3, <1>4 DEF GetIndex

-----------------------------------------------------------------------------
\* Before the first word.
LEMMA ArgsInitInv == ArgsInit => ArgsInv
<1> SUFFICES ASSUME ArgsInit PROVE ArgsInv
    OBVIOUS
<1>1. args \in Seq(Words) /\ Len(args) = 0 /\ DOMAIN args = {}
    BY EmptySeq DEF ArgsInit
<1>2. QED
    BY <1>1, PlainNames DEF ArgsInit, ArgsInv, ArgsTypes, ScanStart, ValueAt

\* A word more.
LEMMA ArgsStepInv == ArgsInv /\ [NextWord]_argsVars => ArgsInv'
<1> SUFFICES ASSUME ArgsInv, [NextWord]_argsVars PROVE ArgsInv'
    OBVIOUS
<1>u. CASE UNCHANGED argsVars
    BY <1>u DEF argsVars, ArgsInv, ArgsTypes, ValueAt
<1>n. CASE NextWord
    <2>1. PICK word \in Words : args' = Append(args, word) /\ scan' = ScanStep(scan, word)
        BY <1>n DEF NextWord
    <2>0. PICK n : n = Len(args)
        OBVIOUS
    <2>2. /\ args \in Seq(Words) /\ n \in Nat /\ DOMAIN args = 1 .. n
          /\ args' \in Seq(Words) /\ Len(args') = n + 1 /\ DOMAIN args' = 1 .. n + 1
          /\ \A i \in 1 .. n : args'[i] = args[i]
          /\ args'[n + 1] = word
          /\ args' # <<>>
          /\ (args = <<>>) <=> (n = 0)
        BY <2>0, <2>1, AppendProperties, LenProperties, EmptySeq DEF ArgsInv, ArgsTypes
    <2>3. /\ scan.named \subseteq Options /\ scan.pending \subseteq Valued /\ scan.bad \in BOOLEAN
          /\ scan.values \in [Valued -> Plain \cup {Nothing}]
          /\ scan = [named |-> scan.named, pending |-> scan.pending, bad |-> scan.bad,
                     values |-> scan.values]
        BY DEF ArgsInv, ArgsTypes
    <2>4. /\ word \in Plain =>
                scan' = [named |-> scan.named, pending |-> {}, bad |-> scan.bad,
                         values |-> [o \in Valued |-> IF o \in scan.pending THEN word
                                                                          ELSE scan.values[o]]]
          /\ word \notin Plain =>
                scan' = [named |-> scan.named \cup Named(word), pending |-> Named(word) \cap Valued,
                         bad |-> (scan.bad \/ scan.pending # {}), values |-> scan.values]
        <3>1. CASE word \in Plain
            <4>1. scan' = [scan EXCEPT
                            !.values = [o \in Valued |-> IF o \in scan.pending THEN word
                                                                          ELSE scan.values[o]],
                            !.pending = {}]
                BY <2>1, <3>1 DEF ScanStep
            <4>2. QED
                BY <2>3, <3>1, <4>1
        <3>2. CASE word \notin Plain
            <4>1. scan' = [scan EXCEPT !.named = scan.named \cup Named(word),
                                       !.bad = (scan.bad \/ scan.pending # {}),
                                       !.pending = Named(word) \cap Valued]
                BY <2>1, <3>2 DEF ScanStep
            <4>2. QED
                BY <2>3, <3>2, <4>1
        <3>3. QED
            BY <3>1, <3>2
    <2>5. ArgsTypes'
        <3>1. Named(word) \subseteq Options /\ Named(word) \cap Valued \subseteq Valued
            BY DEF Named
        <3>2. CASE word \in Plain
            <4>1. [o \in Valued |-> IF o \in scan.pending THEN word ELSE scan.values[o]]
                    \in [Valued -> Plain \cup {Nothing}]
                BY <2>3, <3>2
            <4>2. scan' \in [named : SUBSET Options, pending : SUBSET Valued, bad : BOOLEAN,
                             values : [Valued -> Plain \cup {Nothing}]]
                BY <2>3, <2>4, <3>2, <4>1
            <4>3. QED
                BY <2>2, <4>2 DEF ArgsTypes
        <3>3. CASE word \notin Plain
            <4> DEFINE bad == (scan.bad \/ scan.pending # {})
            <4>1. bad \in BOOLEAN
                OBVIOUS
            <4>2. scan' = [named |-> scan.named \cup Named(word), pending |-> Named(word) \cap Valued,
                           bad |-> bad, values |-> scan.values]
                BY <2>4, <3>3
            <4> HIDE DEF bad
            <4>3. scan' \in [named : SUBSET Options, pending : SUBSET Valued, bad : BOOLEAN,
                             values : [Valued -> Plain \cup {Nothing}]]
                BY <2>3, <3>1, <4>1, <4>2
            <4>4. QED
                BY <2>2, <4>3 DEF ArgsTypes
        <3>4. QED
            BY <3>2, <3>3
    <2>6. \A o, i : ValueAt(o, i)'
                    <=> ValueAt(o, i) \/ (i = n /\ n # 0 /\ o \in Named(args[n]) /\ word \in Plain)
        <3> TAKE o, i
        <3>1. ValueAt(o, i)' <=> i \in 1 .. n /\ o \in Named(args'[i]) /\ args'[i + 1] \in Plain
            BY <2>2 DEF ValueAt, Named
        <3>2. ValueAt(o, i) <=> i \in 1 .. n - 1 /\ o \in Named(args[i]) /\ args[i + 1] \in Plain
            BY <2>0 DEF ValueAt
        <3>3. CASE i \in 1 .. n - 1
            BY <2>2, <3>1, <3>2, <3>3
        <3>4. CASE i = n /\ n # 0
            BY <2>2, <3>1, <3>2, <3>4
        <3>5. CASE i \notin 1 .. n
            BY <2>2, <3>1, <3>2, <3>5
        <3>6. i \in 1 .. n => i \in 1 .. n - 1 \/ (i = n /\ n # 0)
            BY <2>2
        <3>7. QED
            BY <3>3, <3>4, <3>5, <3>6
    <2>7. (scan.named = {o \in Options : \E i \in DOMAIN args : o \in Named(args[i])})'
        <3>1. \A o : (\E i \in 1 .. n + 1 : o \in Named(args'[i]))
                     <=> (\E i \in 1 .. n : o \in Named(args[i])) \/ o \in Named(word)
            <4> TAKE o
            <4>1. \A i \in 1 .. n + 1 : i \in 1 .. n \/ i = n + 1
                BY <2>2
            <4>2. 1 .. n \subseteq 1 .. n + 1 /\ n + 1 \in 1 .. n + 1
                BY <2>2
            <4>3. QED
                BY <2>2, <4>1, <4>2
        <3>2. scan.named = {o \in Options : \E i \in 1 .. n : o \in Named(args[i])}
            BY <2>2 DEF ArgsInv
        <3>3. scan'.named = scan.named \cup Named(word)
            BY <2>4, PlainNames
        <3>4. scan'.named = {o \in Options : \E i \in 1 .. n + 1 : o \in Named(args'[i])}
            BY <3>1, <3>2, <3>3 DEF Named
        <3>5. QED
            BY <2>2, <3>4 DEF Named
    <2>8. (scan.pending = {o \in Valued : args # <<>> /\ o \in Named(args[Len(args)])})'
        BY <2>2, <2>4, PlainNames DEF Named, Valued
    <2>9. (scan.bad <=> \E i \in 1 .. Len(args) - 1 :
                        args[i + 1] \notin Plain /\ \E o \in Valued : o \in Named(args[i]))'
        <3>1. scan.bad <=> \E i \in 1 .. n - 1 :
                        args[i + 1] \notin Plain /\ \E o \in Valued : o \in Named(args[i])
            BY <2>0 DEF ArgsInv
        <3>2. scan.pending # {} <=> n # 0 /\ \E o \in Valued : o \in Named(args[n])
            BY <2>0, <2>2 DEF ArgsInv
        <3>3. scan'.bad <=> scan.bad \/ (word \notin Plain /\ scan.pending # {})
            <4>1. word \in Plain => scan'.bad = scan.bad
                BY <2>4
            <4>2. word \notin Plain => scan'.bad = (scan.bad \/ scan.pending # {})
                BY <2>4
            <4>3. QED
                BY <4>1, <4>2
        <3>4. (\E i \in 1 .. n : args'[i + 1] \notin Plain /\ \E o \in Valued : o \in Named(args'[i]))
              <=> \/ \E i \in 1 .. n - 1 : args[i + 1] \notin Plain /\ \E o \in Valued : o \in Named(args[i])
                  \/ n # 0 /\ word \notin Plain /\ \E o \in Valued : o \in Named(args[n])
            <4>1. \A i \in 1 .. n - 1 : args'[i + 1] = args[i + 1] /\ args'[i] = args[i]
                BY <2>2
            <4>2. n # 0 => n \in 1 .. n /\ args'[n + 1] = word /\ args'[n] = args[n]
                BY <2>2
            <4>3. \A i \in 1 .. n : i \in 1 .. n - 1 \/ (i = n /\ n # 0)
                BY <2>2
            <4>4. 1 .. n - 1 \subseteq 1 .. n
                BY <2>2
            <4>5. QED
                BY <4>1, <4>2, <4>3, <4>4
        <3>5. scan'.bad <=> \E i \in 1 .. n : args'[i + 1] \notin Plain
                                              /\ \E o \in Valued : o \in Named(args'[i])
            BY <3>1, <3>2, <3>3, <3>4
        <3>6. Len(args') - 1 = n
            BY <2>2
        <3>7. QED
            BY <3>5, <3>6 DEF Named, Valued
    <2>10. ASSUME NEW o \in Valued
           PROVE  \/ \E i \in DOMAIN args' : ValueAt(o, i)' /\ scan'.values[o] = args'[i + 1]
                  \/ scan'.values[o] = Nothing /\ \A i \in DOMAIN args' : ~ValueAt(o, i)'
        <3>1. \A i : ValueAt(o, i) => i \in 1 .. n /\ i \in DOMAIN args' /\ i + 1 \in 1 .. n
            BY <2>2 DEF ValueAt
        <3>2. \/ \E i \in DOMAIN args : ValueAt(o, i) /\ scan.values[o] = args[i + 1]
              \/ scan.values[o] = Nothing /\ \A i \in DOMAIN args : ~ValueAt(o, i)
            BY DEF ArgsInv
        <3>3. o \in scan.pending <=> n # 0 /\ o \in Named(args[n])
            BY <2>0, <2>2 DEF ArgsInv
        <3>4. CASE word \in Plain /\ o \in scan.pending
            <4>1. n \in DOMAIN args' /\ ValueAt(o, n)' /\ args'[n + 1] = word
                BY <2>2, <2>6, <3>3, <3>4
            <4>2. scan'.values[o] = word
                BY <2>4, <3>4
            <4>3. QED
                BY <4>1, <4>2
        <3>5. CASE ~(word \in Plain /\ o \in scan.pending)
            <4>1. scan'.values[o] = scan.values[o]
                BY <2>4, <3>5
            <4>2. \A i : ValueAt(o, i)' <=> ValueAt(o, i)
                BY <2>6, <3>3, <3>5
            <4>3. \A i : ValueAt(o, i) => args'[i + 1] = args[i + 1]
                BY <2>2, <3>1
            <4>4. QED
                BY <3>1, <3>2, <4>1, <4>2, <4>3, <2>2
        <3>6. QED
            BY <3>4, <3>5
    <2>11. QED
        BY <2>5, <2>7, <2>8, <2>9, <2>10 DEF ArgsInv, Valued, Options, Option
<1> QED
    BY <1>u, <1>n

\* What the reader has seen is what the searches find.
LEMMA ArgsInvMatches == ArgsInv => ArgsMatchScan
<1> SUFFICES ASSUME ArgsInv, NamedOnce PROVE Parse = Scanned(scan)
    BY DEF ArgsMatchScan
<1> DEFINE n == Len(args)
<1>1. args \in Seq(Words) /\ n \in Nat /\ DOMAIN args = 1 .. n /\ ((args = <<>>) <=> (n = 0))
    BY LenProperties, EmptySeq DEF ArgsInv, ArgsTypes
<1>2. \A o \in Options :
          /\ GetIndex(o) \in 0 .. n
          /\ GetIndex(o) # 0 => o \in Named(args[GetIndex(o)])
          /\ \A i \in DOMAIN args : o \in Named(args[i]) => GetIndex(o) = i
    BY <1>1, GetIndexFinds
<1> HIDE DEF n
<1>3. \A o \in Options : GetIndex(o) # 0 <=> o \in scan.named
    <2>1. \A o \in Options : o \in scan.named <=> \E i \in DOMAIN args : o \in Named(args[i])
        BY DEF ArgsInv
    <2>2. \A o \in Options : GetIndex(o) # 0 => GetIndex(o) \in DOMAIN args
        BY <1>1, <1>2
    <2>3. 0 \notin DOMAIN args
        BY <1>1
    <2>4. QED
        BY <1>2, <2>1, <2>2, <2>3
<1>4. (\E o \in Valued : GetIndex(o) # 0 /\ ~HasValue(GetIndex(o))) <=> scan.bad \/ scan.pending # {}
    <2>1. \A o \in Valued : GetIndex(o) # 0 =>
              (HasValue(GetIndex(o)) <=> GetIndex(o) # n /\ args[GetIndex(o) + 1] \in Plain)
        BY <1>1, <1>2 DEF HasValue, n, Valued
    <2>2. scan.pending = {o \in Valued : n # 0 /\ o \in Named(args[n])}
        BY <1>1 DEF ArgsInv, n
    <2>3. scan.pending = {o \in Valued : GetIndex(o) # 0 /\ GetIndex(o) = n}
        <3>1. n # 0 => n \in DOMAIN args
            BY <1>1
        <3>2. QED
            BY <1>2, <2>2, <3>1 DEF Valued
    <2>4. scan.bad <=> \E i \in 1 .. n - 1 :
                        args[i + 1] \notin Plain /\ \E o \in Valued : o \in Named(args[i])
        BY DEF ArgsInv, n
    <2>5. scan.bad <=> \E o \in Valued : GetIndex(o) \in 1 .. n - 1 /\ args[GetIndex(o) + 1] \notin Plain
        <3>1. 1 .. n - 1 \subseteq DOMAIN args /\ 0 \notin 1 .. n - 1
            BY <1>1
        <3>2. QED
            BY <1>2, <2>4, <3>1 DEF Valued
    <2>6. \A o \in Valued : GetIndex(o) # 0 => (GetIndex(o) \in 1 .. n - 1 <=> GetIndex(o) # n)
        BY <1>1, <1>2 DEF Valued
    <2>7. \A o \in Valued : GetIndex(o) \in 1 .. n - 1 => GetIndex(o) # 0
        BY <1>1
    <2>8. QED
        BY <2>1, <2>3, <2>5, <2>6, <2>7
<1>5. (\E o \in Options : Fails(o))
      <=> scan.bad \/ scan.pending # {} \/ \E o \in Options \ scan.named : o.required
    BY <1>3, <1>4 DEF Fails, Valued
<1>6. {o \in Flags : GetIndex(o) # 0} = scan.named \cap Flags
    BY <1>3 DEF Flags
<1>7. ASSUME ~\E o \in Options : Fails(o)
      PROVE  [o \in Valued |-> IF GetIndex(o) = 0 THEN Nothing ELSE args[GetIndex(o) + 1]] = scan.values
    <2>1. ASSUME NEW o \in Valued
          PROVE  scan.values[o] = IF GetIndex(o) = 0 THEN Nothing ELSE args[GetIndex(o) + 1]
        <3>1. o \in Options /\ o.takesValue
            BY DEF Valued
        <3>2. \/ \E i \in DOMAIN args : ValueAt(o, i) /\ scan.values[o] = args[i + 1]
              \/ scan.values[o] = Nothing /\ \A i \in DOMAIN args : ~ValueAt(o, i)
            BY DEF ArgsInv
        <3>3. \A i \in DOMAIN args : ValueAt(o, i) => GetIndex(o) = i /\ i # 0
            BY <1>1, <1>2, <3>1 DEF ValueAt
        <3>4. GetIndex(o) # 0 => ValueAt(o, GetIndex(o)) /\ GetIndex(o) \in DOMAIN args
            <4> SUFFICES ASSUME GetIndex(o) # 0
                         PROVE  ValueAt(o, GetIndex(o)) /\ GetIndex(o) \in DOMAIN args
                OBVIOUS
            <4>1. HasValue(GetIndex(o))
                BY <1>7, <3>1 DEF Fails
            <4>2. GetIndex(o) \in 1 .. n /\ o \in Named(args[GetIndex(o)])
                BY <1>1, <1>2, <3>1
            <4>3. GetIndex(o) \in 1 .. n - 1 /\ args[GetIndex(o) + 1] \in Plain
                BY <1>1, <4>1, <4>2 DEF HasValue, n
            <4>4. QED
                BY <1>1, <4>2, <4>3 DEF ValueAt, n
        <3>5. CASE GetIndex(o) = 0
            BY <3>2, <3>3, <3>5
        <3>6. CASE GetIndex(o) # 0
            BY <3>2, <3>3, <3>4, <3>6
        <3>7. QED
            BY <3>5, <3>6
    <2>2. scan.values = [o \in Valued |-> scan.values[o]]
        BY DEF ArgsInv, ArgsTypes
    <2>3. QED
        BY <2>1, <2>2
<1>8. GetIndex(Help) # 0 <=> Help \in scan.named
    BY <1>3, PlainNames
<1>9. CASE GetIndex(Help) # 0
    BY <1>8, <1>9 DEF Parse, Scanned
<1>10. CASE GetIndex(Help) = 0 /\ \E o \in Options : Fails(o)
    BY <1>5, <1>8, <1>10 DEF Parse, Scanned
<1>11. CASE GetIndex(Help) = 0 /\ ~\E o \in Options : Fails(o)
    <2>1. Parse = Outcome("start", scan.named \cap Flags, scan.values)
        BY <1>6, <1>7, <1>11 DEF Parse
    <2>2. Scanned(scan) = Outcome("start", scan.named \cap Flags, scan.values)
        BY <1>5, <1>8, <1>11 DEF Scanned
    <2>3. QED
        BY <2>1, <2>2
<1>12. QED
    BY <1>9, <1>10, <1>11

\* cli/ArgParser.kt:124, 161, for any number of words: in a line that names no option
\* twice the search from the beginning for every option finds what reading the
\* line from left to right does.
THEOREM ArgsCorrect == ArgsSpec => []ArgsMatchScan
<1>1. ArgsSpec => []ArgsInv
    BY ArgsInitInv, ArgsStepInv, PTL DEF ArgsSpec
<1>2. QED
    BY <1>1, ArgsInvMatches, PTL

-----------------------------------------------------------------------------
(* From the amplifier.                                                     *)

\* What createMessage makes of data.
Kinds == {"HeartBeatMessage", "ChangeMessage", "PresetMessage", "unknown"}

\* The read machine is of its types, and the device has been opened before
\* the next message at the latest.
ReadTypes ==
    /\ frames \in Seq(Seq(Data))
    /\ sending \in BOOLEAN
    /\ first \in 0 .. Len(frames) + 1
    /\ reader \in [inside : BOOLEAN, data : Seq(Data), out : Seq([kind : Kinds, of : Nat])]

\* The reader is inside a message exactly if the amplifier is and the device
\* was open when it began; then it has the data the amplifier has sent.  What
\* it has handed on is as it should be.
ReadInv ==
    /\ ReadTypes
    /\ sending => frames # <<>>
    /\ reader.inside <=> (sending /\ first # 0 /\ first <= Len(frames))
    /\ reader.inside => reader.data = frames[Len(frames)]
    /\ ReadsFromNextMessage

\* createMessage makes one of its kinds of any data.
LEMMA CreateMessageKind == \A data : CreateMessage(data) \in Kinds
BY DEF CreateMessage, Kinds

\* Lengths and elements of the read machine's sequences.
LEMMA ReadLens ==
    ASSUME ReadTypes
    PROVE  /\ Len(frames) \in Nat /\ DOMAIN frames = 1 .. Len(frames)
           /\ (frames = <<>>) <=> (Len(frames) = 0)
           /\ \A i \in DOMAIN frames : frames[i] \in Seq(Data)
           /\ reader.inside \in BOOLEAN /\ reader.data \in Seq(Data)
           /\ reader.out \in Seq([kind : Kinds, of : Nat])
           /\ Len(reader.out) \in Nat /\ DOMAIN reader.out = 1 .. Len(reader.out)
           /\ reader = [inside |-> reader.inside, data |-> reader.data, out |-> reader.out]
BY LenProperties, EmptySeq, ElementOfSeq DEF ReadTypes

\* What is handed on is complete.
LEMMA OutComplete ==
    ASSUME ReadInv, NEW j \in DOMAIN reader.out
    PROVE  /\ reader.out[j].of \in DOMAIN frames
           /\ sending => reader.out[j].of # Len(frames)
BY DEF ReadInv, ReadsFromNextMessage, ToBeRead

-----------------------------------------------------------------------------
\* Before the first byte.
LEMMA ReadInitInv == ReadInit => ReadInv
<1> SUFFICES ASSUME ReadInit PROVE ReadInv
    OBVIOUS
<1>1. /\ frames = <<>> /\ Len(frames) = 0 /\ DOMAIN frames = {} /\ first = 0 /\ sending = FALSE
      /\ reader = [inside |-> FALSE, data |-> <<>>, out |-> <<>>]
      /\ DOMAIN reader.out = {}
    BY EmptySeq DEF ReadInit, Outside
<1>2. ReadTypes
    <2>1. /\ <<>> \in Seq(Seq(Data)) /\ <<>> \in Seq(Data)
          /\ <<>> \in Seq([kind : Kinds, of : Nat])
        BY EmptySeq
    <2>2. reader \in [inside : BOOLEAN, data : Seq(Data), out : Seq([kind : Kinds, of : Nat])]
        BY <1>1, <2>1
    <2>3. first \in 0 .. Len(frames) + 1
        BY <1>1
    <2>4. QED
        BY <1>1, <2>1, <2>2, <2>3 DEF ReadTypes
<1>3. ReadsFromNextMessage
    BY <1>1 DEF ReadsFromNextMessage, ToBeRead
<1>4. QED
    BY <1>1, <1>2, <1>3 DEF ReadInv

\* The device is opened: no message that has begun is to be read.
LEMMA OpenDeviceInv == ReadInv /\ OpenDevice => ReadInv'
<1> SUFFICES ASSUME ReadInv, OpenDevice PROVE ReadInv'
    OBVIOUS
<1>1. /\ Len(frames) \in Nat /\ DOMAIN frames = 1 .. Len(frames)
      /\ first = 0 /\ first' = Len(frames) + 1
      /\ UNCHANGED <<frames, sending, reader>>
    BY ReadLens DEF ReadInv, OpenDevice
<1>2. ReadTypes'
    BY <1>1 DEF ReadInv, ReadTypes
<1>3. ToBeRead = {} /\ ToBeRead' = {}
    BY <1>1 DEF ToBeRead
<1>4. ReadsFromNextMessage'
    BY <1>1, <1>3 DEF ReadInv, ReadsFromNextMessage
<1>5. QED
    BY <1>1, <1>2, <1>4 DEF ReadInv

\* The amplifier begins a message: an open reader is inside it.
LEMMA BeginMessageInv == ReadInv /\ BeginMessage => ReadInv'
<1> SUFFICES ASSUME ReadInv, BeginMessage PROVE ReadInv'
    OBVIOUS
<1>0. PICK n : n = Len(frames)
    OBVIOUS
<1>1. /\ ReadTypes /\ ~sending /\ ~reader.inside
      /\ frames \in Seq(Seq(Data)) /\ n \in Nat /\ DOMAIN frames = 1 .. n
      /\ frames' = Append(frames, <<>>) /\ sending' = TRUE /\ first' = first /\ first \in 0 .. n + 1
    BY <1>0, ReadLens DEF ReadInv, ReadTypes, BeginMessage
<1>2. /\ frames' \in Seq(Seq(Data)) /\ Len(frames') = n + 1 /\ DOMAIN frames' = 1 .. n + 1
      /\ \A i \in 1 .. n : frames'[i] = frames[i]
      /\ frames'[n + 1] = <<>> /\ frames' # <<>>
    <2>1. <<>> \in Seq(Data)
        BY EmptySeq
    <2>2. QED
        BY <1>0, <1>1, <2>1, AppendProperties, LenProperties, EmptySeq
<1>3. reader' = IF first = 0 THEN reader
                ELSE [inside |-> TRUE, data |-> <<>>, out |-> reader.out]
    <2>1. ReadByte(reader, Start) = [reader EXCEPT !.inside = TRUE, !.data = <<>>]
        BY <1>1 DEF ReadByte
    <2>2. reader' = IF first = 0 THEN reader ELSE ReadByte(reader, Start)
        BY DEF BeginMessage, Read
    <2>3. QED
        BY <1>1, <2>1, <2>2, ReadLens
<1>4. reader'.out = reader.out
    BY <1>3
<1>5. ReadTypes'
    <2>1. first' \in 0 .. Len(frames') + 1
        BY <1>1, <1>2
    <2>2. reader' \in [inside : BOOLEAN, data : Seq(Data), out : Seq([kind : Kinds, of : Nat])]
        BY <1>1, <1>3, ReadLens, EmptySeq
    <2>3. QED
        BY <1>1, <1>2, <2>1, <2>2 DEF ReadTypes
<1>6. (reader.inside <=> (sending /\ first # 0 /\ first <= Len(frames)))'
    BY <1>1, <1>2, <1>3
<1>7. (reader.inside => reader.data = frames[Len(frames)])'
    BY <1>1, <1>2, <1>3
<1>8. ToBeRead' = ToBeRead
    <2>1. \A i \in 1 .. n + 1 : i \in 1 .. n \/ i = n + 1
        BY <1>1
    <2>2. n + 1 \notin ToBeRead' /\ ToBeRead' \subseteq 1 .. n + 1 /\ ToBeRead \subseteq 1 .. n
        BY <1>1, <1>2 DEF ToBeRead
    <2>3. \A i \in 1 .. n : i \in ToBeRead' <=> i \in ToBeRead
        BY <1>0, <1>1, <1>2 DEF ToBeRead, CreateMessage
    <2>4. QED
        BY <2>1, <2>2, <2>3
<1>9. ReadsFromNextMessage'
    <2>1. \A j \in DOMAIN reader.out : frames'[reader.out[j].of] = frames[reader.out[j].of]
        BY <1>1, <1>2, OutComplete
    <2>2. QED
        BY <1>4, <1>8, <2>1 DEF ReadInv, ReadsFromNextMessage, CreateMessage
<1>10. QED
    BY <1>2, <1>5, <1>6, <1>7, <1>9 DEF ReadInv

\* The amplifier goes on with a message, and so does a reader inside it.
LEMMA SendDataInv == ReadInv /\ SendData => ReadInv'
<1> SUFFICES ASSUME ReadInv, SendData PROVE ReadInv'
    OBVIOUS
<1>0. PICK n : n = Len(frames)
    OBVIOUS
<1>1. PICK byte \in Data :
          Read(byte) /\ frames' = [frames EXCEPT ![n] = Append(frames[n], byte)]
    BY <1>0 DEF SendData
<1>2. /\ ReadTypes /\ sending /\ frames # <<>>
      /\ frames \in Seq(Seq(Data)) /\ n \in Nat \ {0} /\ DOMAIN frames = 1 .. n
      /\ frames[n] \in Seq(Data) /\ frames # <<>>
      /\ sending' = sending /\ first' = first /\ first \in 0 .. n + 1
    BY <1>0, ReadLens DEF ReadInv, ReadTypes, SendData
<1>3. byte # Start /\ byte # End
    BY DataAssumption
<1>4. /\ Append(frames[n], byte) \in Seq(Data)
      /\ frames' \in Seq(Seq(Data)) /\ Len(frames') = n /\ DOMAIN frames' = 1 .. n
      /\ \A i \in 1 .. n : i # n => frames'[i] = frames[i]
      /\ frames'[n] = Append(frames[n], byte)
    <2>1. Append(frames[n], byte) \in Seq(Data)
        BY <1>2, AppendProperties
    <2>2. n \in 1 .. Len(frames)
        BY <1>0, <1>2
    <2>3. frames' \in Seq(Seq(Data)) /\ Len(frames') = Len(frames)
        BY <1>1, <1>2, <2>1, <2>2, ExceptSeq
    <2>4. QED
        BY <1>0, <1>1, <1>2, <2>1, <2>2, <2>3, LenProperties
<1>5. reader' = IF first # 0 /\ reader.inside
                THEN [inside |-> TRUE, data |-> Append(reader.data, byte), out |-> reader.out]
                ELSE reader
    <2>1. CASE reader.inside
        <3>1. ReadByte(reader, byte) = [reader EXCEPT !.data = Append(reader.data, byte)]
            BY <1>3, <2>1 DEF ReadByte
        <3>2. QED
            BY <1>1, <1>2, <2>1, <3>1, ReadLens DEF Read
    <2>2. CASE ~reader.inside
        <3>1. ReadByte(reader, byte) = reader
            BY <1>3, <2>2 DEF ReadByte
        <3>2. QED
            BY <1>1, <2>2, <3>1 DEF Read
    <2>3. QED
        BY <2>1, <2>2
<1>6. reader'.out = reader.out /\ reader'.inside = reader.inside
    BY <1>2, <1>5, ReadLens
<1>7. ReadTypes'
    <2>1. first' \in 0 .. Len(frames') + 1
        BY <1>2, <1>4
    <2>2. Append(reader.data, byte) \in Seq(Data)
        BY <1>2, ReadLens, AppendProperties
    <2>3. reader' \in [inside : BOOLEAN, data : Seq(Data), out : Seq([kind : Kinds, of : Nat])]
        BY <1>2, <1>5, <2>2, ReadLens
    <2>4. QED
        BY <1>2, <1>4, <2>1, <2>3 DEF ReadTypes
<1>8. (reader.inside <=> (sending /\ first # 0 /\ first <= Len(frames)))'
    BY <1>0, <1>2, <1>4, <1>6 DEF ReadInv
<1>9. (reader.inside => reader.data = frames[Len(frames)])'
    <2>1. SUFFICES ASSUME reader'.inside PROVE reader'.data = frames'[Len(frames')]
        OBVIOUS
    <2>2. reader.inside /\ first # 0 /\ reader.data = frames[n]
        BY <1>0, <1>6, <2>1 DEF ReadInv
    <2>3. QED
        BY <1>4, <1>5, <2>2
<1>10. ToBeRead' = ToBeRead
    <2>1. n \notin ToBeRead' /\ n \notin ToBeRead
        BY <1>0, <1>2, <1>4 DEF ToBeRead
    <2>2. \A i \in 1 .. n : i # n => (i \in ToBeRead' <=> i \in ToBeRead)
        BY <1>0, <1>2, <1>4 DEF ToBeRead, CreateMessage
    <2>3. ToBeRead' \subseteq 1 .. n /\ ToBeRead \subseteq 1 .. n
        BY <1>2, <1>4 DEF ToBeRead
    <2>4. \A i : i \in ToBeRead' <=> i \in ToBeRead
        BY <2>1, <2>2, <2>3
    <2>5. QED
        BY <2>4
<1>11. ReadsFromNextMessage'
    <2>1. \A j \in DOMAIN reader.out : frames'[reader.out[j].of] = frames[reader.out[j].of]
        BY <1>0, <1>2, <1>4, OutComplete
    <2>2. QED
        BY <1>6, <1>10, <2>1 DEF ReadInv, ReadsFromNextMessage, CreateMessage
<1>12. frames' # <<>>
    BY <1>2, <1>4, EmptySeq
<1>13. QED
    BY <1>7, <1>8, <1>9, <1>11, <1>12 DEF ReadInv

\* The amplifier ends a message: a reader inside it hands it on.
LEMMA EndMessageInv == ReadInv /\ EndMessage => ReadInv'
<1> SUFFICES ASSUME ReadInv, EndMessage PROVE ReadInv'
    OBVIOUS
<1>0. PICK n : n = Len(frames)
    OBVIOUS
<1>1. /\ ReadTypes /\ sending
      /\ frames \in Seq(Seq(Data)) /\ n \in Nat \ {0} /\ DOMAIN frames = 1 .. n
      /\ frames' = frames /\ sending' = FALSE /\ first' = first /\ first \in 0 .. n + 1
      /\ reader.inside <=> (first # 0 /\ first <= n)
      /\ reader.inside => reader.data = frames[n]
    BY <1>0, ReadLens DEF ReadInv, ReadTypes, EndMessage
<1>2. PICK msg : msg = frames[n]
    OBVIOUS
<1>3. PICK out : out = reader.out
    OBVIOUS
<1>4. PICK last : last = [kind |-> CreateMessage(msg), of |-> n]
    OBVIOUS
<1>5. /\ out \in Seq([kind : Kinds, of : Nat]) /\ Len(out) \in Nat /\ DOMAIN out = 1 .. Len(out)
      /\ last \in [kind : Kinds, of : Nat]
    BY <1>1, <1>3, <1>4, ReadLens, CreateMessageKind
<1>6. /\ ReadsFromNextMessage
      /\ ToBeRead = {out[j].of : j \in DOMAIN out}
      /\ \A j \in DOMAIN out : out[j].kind = CreateMessage(frames[out[j].of])
      /\ \A j, k \in DOMAIN out : j < k => out[j].of < out[k].of
    BY <1>3 DEF ReadInv, ReadsFromNextMessage
<1>7. \A i : i \in ToBeRead' <=> \/ i \in ToBeRead
                                \/ (i = n /\ first \in 1 .. n /\ CreateMessage(msg) # "unknown")
    BY <1>0, <1>1, <1>2 DEF ToBeRead
<1>8. ASSUME NEW d, NEW o,
             reader' = [inside |-> FALSE, data |-> d, out |-> o],
             d \in Seq(Data), o \in Seq([kind : Kinds, of : Nat]),
             ToBeRead' = {o[j].of : j \in DOMAIN o},
             \A j \in DOMAIN o : o[j].kind = CreateMessage(frames[o[j].of]),
             \A j, k \in DOMAIN o : j < k => o[j].of < o[k].of
      PROVE  ReadInv'
    <2>1. ReadTypes'
        BY <1>0, <1>1, <1>8 DEF ReadTypes
    <2>2. reader'.out = o /\ reader'.inside = FALSE
        BY <1>8
    <2>3. ReadsFromNextMessage'
        BY <1>1, <1>8, <2>2 DEF ReadsFromNextMessage, CreateMessage
    <2>4. QED
        BY <1>1, <2>1, <2>2, <2>3 DEF ReadInv
<1>9. CASE ~reader.inside
    <2>1. reader' = reader
        BY <1>1, <1>9, ReadLens DEF EndMessage, Read, ReadByte, Start, End
    <2>2. first \notin 1 .. n
        BY <1>1, <1>9
    <2>3. ToBeRead' = ToBeRead
        BY <1>7, <2>2
    <2>4. /\ reader' = [inside |-> FALSE, data |-> reader.data, out |-> out]
          /\ reader.data \in Seq(Data)
        BY <1>1, <1>3, <1>9, <2>1, ReadLens
    <2>5. QED
        BY <1>5, <1>6, <1>8, <2>3, <2>4
<1>10. CASE reader.inside /\ CreateMessage(msg) = "unknown"
    <2>1. reader' = [inside |-> FALSE, data |-> msg, out |-> out] /\ msg \in Seq(Data)
        <3>1. reader.data = msg /\ first # 0
            BY <1>1, <1>2, <1>10
        <3>2. reader' = [reader EXCEPT !.inside = FALSE, !.out = HandOn(reader.out, reader.data)]
            BY <1>10, <3>1 DEF EndMessage, Read, ReadByte
        <3>3. HandOn(reader.out, reader.data) = out
            BY <1>3, <1>10, <3>1 DEF HandOn
        <3>4. QED
            BY <1>1, <3>1, <3>2, <3>3, ReadLens
    <2>2. ToBeRead' = ToBeRead
        BY <1>7, <1>10
    <2>3. QED
        BY <1>5, <1>6, <1>8, <2>1, <2>2
<1>11. CASE reader.inside /\ CreateMessage(msg) # "unknown"
    <2> DEFINE o == Append(out, last)
    <2>1. reader' = [inside |-> FALSE, data |-> msg, out |-> o] /\ msg \in Seq(Data)
        <3>1. reader.data = msg /\ first # 0
            BY <1>1, <1>2, <1>11
        <3>2. reader' = [reader EXCEPT !.inside = FALSE, !.out = HandOn(reader.out, reader.data)]
            BY <1>11, <3>1 DEF EndMessage, Read, ReadByte
        <3>3. HandOn(reader.out, reader.data) = o
            BY <1>0, <1>3, <1>4, <1>11, <3>1 DEF HandOn
        <3>4. QED
            BY <1>1, <3>1, <3>2, <3>3, ReadLens
    <2>2. first \in 1 .. n
        BY <1>1, <1>11
    <2>3. ToBeRead' = ToBeRead \cup {n}
        BY <1>7, <1>11, <2>2
    <2>4. PICK m \in Nat : m = Len(out) /\ DOMAIN out = 1 .. m
        BY <1>5
    <2>5. /\ o \in Seq([kind : Kinds, of : Nat])
          /\ DOMAIN o = 1 .. m + 1
          /\ \A j \in 1 .. m : o[j] = out[j]
          /\ o[m + 1] = last
        BY <1>5, <2>4, AppendProperties, LenProperties
    <2> HIDE DEF o
    <2>6. last.of = n /\ last.kind = CreateMessage(frames[n])
        BY <1>2, <1>4
    <2>7. \A j \in 1 .. m : out[j].of \in DOMAIN frames /\ out[j].of # n
        BY <1>0, <1>1, <1>3, <2>4, OutComplete
    <2>8. \A j \in 1 .. m : out[j].of < n
        BY <1>1, <2>7
    <2>9. \A j \in 1 .. m + 1 : j \in 1 .. m \/ j = m + 1
        BY <2>4
    <2>10. 1 .. m \subseteq 1 .. m + 1 /\ m + 1 \in 1 .. m + 1
        BY <2>4
    <2>11. \A i : i \in ToBeRead' <=> \E j \in 1 .. m + 1 : i = o[j].of
        BY <1>6, <2>3, <2>4, <2>5, <2>6, <2>9, <2>10
    <2>12. ToBeRead' = {o[j].of : j \in DOMAIN o}
        BY <2>5, <2>11
    <2>13. \A j \in DOMAIN o : o[j].kind = CreateMessage(frames[o[j].of])
        BY <1>6, <2>4, <2>5, <2>6, <2>9
    <2>14. \A j, k \in DOMAIN o : j < k => o[j].of < o[k].of
        <3> SUFFICES ASSUME NEW j \in 1 .. m + 1, NEW k \in 1 .. m + 1, j < k
                     PROVE  o[j].of < o[k].of
            BY <2>5
        <3>1. j \in 1 .. m
            BY <2>4
        <3>2. CASE k \in 1 .. m
            BY <1>6, <2>4, <2>5, <3>1, <3>2
        <3>3. CASE k = m + 1
            BY <2>5, <2>6, <2>8, <3>1, <3>3
        <3>4. QED
            BY <2>9, <3>2, <3>3
    <2>15. QED
        BY <1>8, <2>1, <2>5, <2>12, <2>13, <2>14
<1>12. QED
    BY <1>9, <1>10, <1>11

\* Every step keeps the invariant.
LEMMA ReadStepInv == ReadInv /\ [ReadNext]_readVars => ReadInv'
<1> SUFFICES ASSUME ReadInv, [ReadNext]_readVars PROVE ReadInv'
    OBVIOUS
<1>1. CASE UNCHANGED readVars
    BY <1>1 DEF readVars, ReadInv, ReadTypes, ReadsFromNextMessage, ToBeRead, CreateMessage
<1>2. QED
    BY <1>1, OpenDeviceInv, BeginMessageInv, SendDataInv, EndMessageInv DEF ReadNext

\* midi/Midi.kt:54, for any data and messages: a reader that comes in anywhere
\* in the stream hands on the messages that begin from there on.
THEOREM ReadCorrect == ReadSpec => []ReadsFromNextMessage
<1>1. ReadInv => ReadsFromNextMessage
    BY DEF ReadInv
<1>2. QED
    BY <1>1, ReadInitInv, ReadStepInv, PTL DEF ReadSpec

-----------------------------------------------------------------------------
(* To the amplifier.                                                       *)

\* The commands whose data are framed twice, and how often data are framed.
Twice == {"lamp", "wideStereo"}
Framed(c) == IF c \in Twice THEN 2 ELSE 1

\* What messages are made of, and what is on the line.
Payload == {"dumpRequest", "lamp", "wideStereo", "on", "preset", "data"}
Line == {Start, End} \cup Payload

\* The messages the amplifier gets.
Messages == {Meant(c) : c \in Commands}

\* The write machine is of its types.
WriteTypes ==
    /\ commands \in Seq(Commands)
    /\ passed \in 0 .. Len(commands)
    /\ position \in Nat \ {0}
    /\ heard \in [inside : BOOLEAN, data : Seq(Payload), out : Seq(Messages)]

\* The amplifier has taken at bytes of what is sent for c, one at least: it is
\* inside the message, with as much of its data as has come behind the last
\* Start, or has got it with the first End.
Within(c, at) ==
    IF at <= Framed(c) + Len(Meant(c))
    THEN /\ heard.inside
         /\ heard.data = SubSeq(Meant(c), 1, at - Framed(c))
         /\ heard.out = MeantUpTo(passed)
    ELSE ~heard.inside /\ heard.out = MeantUpTo(passed + 1)

\* Before the first byte of a command the amplifier is outside a message and
\* has got those for the commands it has taken; Within says how it goes on.
WriteInv ==
    /\ WriteTypes
    /\ passed = Len(commands) => position = 1
    /\ passed < Len(commands) => position <= Len(Written(commands[passed + 1]))
    /\ position = 1 => ~heard.inside /\ heard.out = MeantUpTo(passed)
    /\ position # 1 => Within(commands[passed + 1], position - 1)

\* What send puts around data.
LEMMA SendBytes ==
    ASSUME NEW data \in Seq(Line)
    PROVE  /\ Send(data) \in Seq(Line)
           /\ Len(Send(data)) = Len(data) + 2
           /\ Send(data)[1] = Start
           /\ \A i \in 1 .. Len(data) : Send(data)[i + 1] = data[i]
           /\ Send(data)[Len(data) + 2] = End
<1>1. Start \in Line /\ End \in Line /\ Len(data) \in Nat
    BY LenProperties DEF Line
<1>2. PICK s : s = <<Start>>
    OBVIOUS
<1>3. PICK e : e = <<End>>
    OBVIOUS
<1>4. /\ s \in Seq(Line) /\ Len(s) = 1 /\ s[1] = Start
      /\ e \in Seq(Line) /\ Len(e) = 1 /\ e[1] = End
    <2>1. \A b : Len(<<b>>) = 1 /\ <<b>>[1] = b /\ \A S : b \in S => <<b>> \in Seq(S)
        OBVIOUS
    <2>2. QED
        BY <1>1, <1>2, <1>3, <2>1
<1>5. PICK head, n : head = s \o data /\ n = Len(data)
    OBVIOUS
<1>6. /\ n \in Nat /\ head \in Seq(Line) /\ Len(head) = n + 1
      /\ \A i \in 1 .. n + 1 : head[i] = IF i <= 1 THEN s[i] ELSE data[i - 1]
    <2>1. /\ s \o data \in Seq(Line) /\ Len(s \o data) = Len(s) + Len(data)
          /\ \A i \in 1 .. Len(s) + Len(data) :
                (s \o data)[i] = IF i <= Len(s) THEN s[i] ELSE data[i - Len(s)]
        BY <1>4, ConcatProperties
    <2>2. QED
        BY <1>1, <1>4, <1>5, <2>1
<1>7. head[1] = Start /\ \A i \in 1 .. n : head[i + 1] = data[i]
    <2>1. 1 \in 1 .. n + 1 /\ \A i \in 1 .. n : i + 1 \in 1 .. n + 1 /\ ~(i + 1 <= 1) /\ (i + 1) - 1 = i
        BY <1>6
    <2>2. QED
        BY <1>4, <1>6, <2>1
<1>8. PICK all : all = head \o e
    OBVIOUS
<1>9. /\ all \in Seq(Line) /\ Len(all) = n + 2
      /\ \A i \in 1 .. n + 2 : all[i] = IF i <= n + 1 THEN head[i] ELSE e[i - (n + 1)]
    <2>1. /\ head \o e \in Seq(Line) /\ Len(head \o e) = Len(head) + Len(e)
          /\ \A i \in 1 .. Len(head) + Len(e) :
                (head \o e)[i] = IF i <= Len(head) THEN head[i] ELSE e[i - Len(head)]
        BY <1>4, <1>6, ConcatProperties
    <2>2. (n + 1) + 1 = n + 2
        BY <1>6
    <2>3. QED
        BY <1>4, <1>6, <1>8, <2>1, <2>2
<1>10. all[1] = Start /\ all[n + 2] = End /\ \A i \in 1 .. n : all[i + 1] = data[i]
    <2>1. /\ 1 \in 1 .. n + 2 /\ 1 <= n + 1
          /\ n + 2 \in 1 .. n + 2 /\ ~(n + 2 <= n + 1) /\ (n + 2) - (n + 1) = 1
          /\ \A i \in 1 .. n : i + 1 \in 1 .. n + 2 /\ i + 1 <= n + 1
        BY <1>6
    <2>2. QED
        BY <1>4, <1>7, <1>9, <2>1
<1>11. all = Send(data)
    BY <1>2, <1>3, <1>5, <1>8 DEF Send
<1>12. QED
    BY <1>5, <1>9, <1>10, <1>11

\* What is meant is data.
LEMMA MeantData ==
    ASSUME NEW c \in Commands
    PROVE  /\ Meant(c) \in Seq(Payload) /\ Meant(c) \in Seq(Line)
           /\ Len(Meant(c)) \in Nat
           /\ Framed(c) \in {1, 2}
<1>1. \A S, a, b : a \in S /\ b \in S => <<a>> \in Seq(S) /\ <<a, b>> \in Seq(S)
    OBVIOUS
<1>2. c \in {"dump", "preset"} \/ c \in Twice
    BY CommandsAssumption DEF Twice
<1>3. "dumpRequest" \in Payload /\ "preset" \in Payload /\ "data" \in Payload /\ "on" \in Payload
      /\ \A d \in Twice : d \in Payload
    BY DEF Payload, Twice
<1>4. \/ Meant(c) = <<"dumpRequest">>
      \/ Meant(c) = <<"preset", "data">>
      \/ c \in Twice /\ Meant(c) = <<c, "on">>
    <2>1. CASE c = "dump"
        BY <2>1 DEF Meant
    <2>2. CASE c = "preset"
        BY <2>2 DEF Meant
    <2>3. CASE c \in Twice
        BY <2>3 DEF Meant, Twice
    <2>4. QED
        BY <1>2, <2>1, <2>2, <2>3
<1>5. Meant(c) \in Seq(Payload)
    BY <1>1, <1>3, <1>4
<1>6. Meant(c) \in Seq(Line)
    BY <1>5, SeqMonotonic DEF Line
<1>7. QED
    BY <1>5, <1>6, LenProperties DEF Framed

\* What is sent for a command is what is meant, framed once or twice.
LEMMA WrittenBytes ==
    ASSUME NEW c \in Commands, NEW m, m = Len(Meant(c)), NEW f, f = Framed(c)
    PROVE  /\ Len(Written(c)) = f + m + f
           /\ \A i \in 1 .. f : Written(c)[i] = Start
           /\ \A i \in 1 .. m : Written(c)[f + i] = Meant(c)[i]
           /\ \A i \in 1 .. f : Written(c)[f + m + i] = End
<1>1. Meant(c) \in Seq(Line) /\ m \in Nat
    BY MeantData
<1>2. PICK once : once = Send(Meant(c))
    OBVIOUS
<1>3. /\ once \in Seq(Line) /\ Len(once) = m + 2
      /\ once[1] = Start /\ once[m + 2] = End
      /\ \A i \in 1 .. m : once[i + 1] = Meant(c)[i]
    BY <1>1, <1>2, SendBytes
<1>4. CASE c \notin Twice
    <2>1. Written(c) = once /\ f = 1
        <3>1. c \in {"dump", "preset"}
            BY <1>4, CommandsAssumption DEF Twice
        <3>2. CASE c = "dump"
            BY <1>2, <3>2 DEF Written, RequestDump, Meant, Framed, Twice
        <3>3. CASE c = "preset"
            BY <1>2, <3>3 DEF Written, Meant, Framed, Twice
        <3>4. QED
            BY <3>1, <3>2, <3>3
    <2>2. QED
        BY <1>1, <1>3, <2>1
<1>5. CASE c \in Twice
    <2>1. f = 2 /\ Written(c) = Send(<<Start, c, "on", End>>) /\ Meant(c) = <<c, "on">>
        BY <1>5 DEF Written, Setting, Meant, Framed, Twice
    <2>2. <<Start, c, "on", End>> = once
        <3>1. PICK d : d = <<Start, c, "on", End>>
            OBVIOUS
        <3>2. \A S : Start \in S /\ c \in S /\ "on" \in S /\ End \in S => d \in Seq(S)
            BY <3>1
        <3>3. d \in Seq(Line)
            BY <1>5, <3>2 DEF Line, Payload, Twice
        <3>4. Len(d) = 4 /\ d[1] = Start /\ d[2] = c /\ d[3] = "on" /\ d[4] = End
            BY <3>1
        <3>5. m = 2 /\ Meant(c)[1] = c /\ Meant(c)[2] = "on"
            BY <2>1
        <3>6. once[2] = c /\ once[3] = "on" /\ Len(once) = 4 /\ once[1] = Start /\ once[4] = End
            BY <1>3, <3>5
        <3>7. \A i \in 1 .. 4 : d[i] = once[i]
            BY <3>4, <3>6
        <3>8. d = once
            BY <1>3, <3>3, <3>4, <3>6, <3>7, SeqEqual
        <3>9. QED
            BY <3>1, <3>8
    <2>3. PICK twice : twice = Send(once)
        OBVIOUS
    <2>4. Written(c) = twice
        BY <2>1, <2>2, <2>3
    <2>5. /\ Len(twice) = m + 4
          /\ twice[1] = Start /\ twice[m + 4] = End
          /\ \A i \in 1 .. m + 2 : twice[i + 1] = once[i]
        BY <1>1, <1>3, <2>3, SendBytes
    <2>6. twice[2] = Start /\ twice[m + 3] = End /\ \A i \in 1 .. m : twice[2 + i] = Meant(c)[i]
        <3>1. /\ 1 \in 1 .. m + 2 /\ m + 2 \in 1 .. m + 2 /\ (m + 2) + 1 = m + 3
              /\ \A i \in 1 .. m : i + 1 \in 1 .. m + 2 /\ (i + 1) + 1 = 2 + i
            BY <1>1
        <3>2. twice[1 + 1] = once[1] /\ twice[(m + 2) + 1] = once[m + 2]
            BY <2>5, <3>1
        <3>3. \A i \in 1 .. m : twice[2 + i] = once[i + 1]
            BY <2>5, <3>1
        <3>4. QED
            BY <1>3, <3>1, <3>2, <3>3
    <2>7. \A i \in 1 .. 2 : i = 1 \/ i = 2
        OBVIOUS
    <2>8. 2 + m + 1 = m + 3 /\ 2 + m + 2 = m + 4
        BY <1>1
    <2>9. \A i \in 1 .. 2 : twice[i] = Start /\ twice[2 + m + i] = End
        BY <2>5, <2>6, <2>7, <2>8
    <2>10. Len(twice) = 2 + m + 2
        BY <1>1, <2>5
    <2>11. QED
        BY <2>1, <2>4, <2>6, <2>9, <2>10
<1>6. QED
    BY <1>4, <1>5

\* Something is sent for every command.
LEMMA WrittenLen == \A c \in Commands : Len(Written(c)) \in Nat \ {0}
<1> SUFFICES ASSUME NEW c \in Commands PROVE Len(Written(c)) \in Nat \ {0}
    OBVIOUS
<1>1. PICK m, f : m = Len(Meant(c)) /\ f = Framed(c)
    OBVIOUS
<1>2. m \in Nat /\ f \in {1, 2} /\ Len(Written(c)) = f + m + f
    BY <1>1, MeantData, WrittenBytes
<1>3. QED
    BY <1>2

\* One element more of a sequence.
LEMMA PrefixOneMore ==
    ASSUME NEW S, NEW s \in Seq(S), NEW k \in 0 .. Len(s) - 1
    PROVE  SubSeq(s, 1, k + 1) = Append(SubSeq(s, 1, k), s[k + 1])
<1>1. Len(s) \in Nat /\ k \in Nat /\ k + 1 \in 1 .. Len(s) /\ \A i \in 1 .. Len(s) : s[i] \in S
    BY LenProperties, ElementOfSeq
<1>2. SubSeq(s, 1, k) \in Seq(S)
    BY <1>1, SubSeqProperties
<1>3. SubSeq(s, 1, k + 1) = SubSeq(s, 1, (k + 1) - 1) \o <<s[k + 1]>>
    <2>1. 1 \in 1 .. Len(s) /\ k + 1 \in 1 .. Len(s)
        BY <1>1
    <2>2. QED
        BY <2>1, SubSeqRecursiveSecond
<1>4. (k + 1) - 1 = k
    BY <1>1
<1>5. Append(SubSeq(s, 1, k), s[k + 1]) = SubSeq(s, 1, k) \o <<s[k + 1]>>
    BY <1>1, <1>2, AppendIsConcat
<1>6. QED
    BY <1>3, <1>4, <1>5

\* What is meant by a command more.
LEMMA MeantOneMore ==
    ASSUME WriteTypes, NEW n \in 0 .. Len(commands) - 1
    PROVE  /\ MeantUpTo(n) \in Seq(Messages)
           /\ MeantUpTo(n + 1) \in Seq(Messages)
           /\ MeantUpTo(n + 1) = Append(MeantUpTo(n), Meant(commands[n + 1]))
<1>1. Len(commands) \in Nat /\ \A i \in 1 .. Len(commands) : commands[i] \in Commands
    BY LenProperties, ElementOfSeq DEF WriteTypes
<1>2. \A m \in 0 .. Len(commands) : MeantUpTo(m) \in Seq(Messages) /\ Len(MeantUpTo(m)) = m
    <2> TAKE m \in 0 .. Len(commands)
    <2>1. m \in Nat /\ MeantUpTo(m) \in [1 .. m -> Messages]
        BY <1>1 DEF MeantUpTo, Messages
    <2>2. QED
        BY <2>1, IsASeq, LenProperties
<1>3. n \in Nat /\ n \in 0 .. Len(commands) /\ n + 1 \in 0 .. Len(commands) /\ n + 1 \in 1 .. Len(commands)
    BY <1>1
<1>4. Meant(commands[n + 1]) \in Messages
    BY <1>1, <1>3 DEF Messages
<1>5. PICK m1 : m1 = MeantUpTo(n)
    OBVIOUS
<1>6. PICK m2 : m2 = MeantUpTo(n + 1)
    OBVIOUS
<1>7. /\ m1 \in Seq(Messages) /\ Len(m1) = n /\ m2 \in Seq(Messages) /\ Len(m2) = n + 1
      /\ \A i \in 1 .. n : m2[i] = m1[i]
      /\ m2[n + 1] = Meant(commands[n + 1])
    BY <1>2, <1>3, <1>5, <1>6 DEF MeantUpTo
<1>8. PICK m3 : m3 = Append(m1, Meant(commands[n + 1]))
    OBVIOUS
<1>9. /\ m3 \in Seq(Messages) /\ Len(m3) = n + 1
      /\ \A i \in 1 .. n : m3[i] = m1[i]
      /\ m3[n + 1] = Meant(commands[n + 1])
    BY <1>4, <1>7, <1>8, AppendProperties
<1>10. \A i \in 1 .. n + 1 : m2[i] = m3[i]
    BY <1>3, <1>7, <1>9
<1>11. m2 = m3
    BY <1>7, <1>9, <1>10, SeqEqual
<1>12. QED
    BY <1>5, <1>6, <1>7, <1>8, <1>11

-----------------------------------------------------------------------------
\* Before the first command.
LEMMA WriteInitInv == WriteInit => WriteInv
<1> SUFFICES ASSUME WriteInit PROVE WriteInv
    OBVIOUS
<1>1. /\ commands = <<>> /\ Len(commands) = 0 /\ passed = 0 /\ position = 1
      /\ heard = [inside |-> FALSE, data |-> <<>>, out |-> <<>>]
    BY EmptySeq DEF WriteInit, Outside
<1>2. <<>> \in Seq(Commands) /\ <<>> \in Seq(STRING) /\ <<>> \in Seq(Messages)
    BY EmptySeq
<1>3. WriteTypes
    BY <1>1, <1>2 DEF WriteTypes
<1>4. MeantUpTo(0) = <<>>
    BY DEF MeantUpTo
<1>5. QED
    BY <1>1, <1>3, <1>4 DEF WriteInv

\* A command is sent: it goes behind what is there.
LEMMA SendCommandInv == WriteInv /\ SendCommand => WriteInv'
<1> SUFFICES ASSUME WriteInv, SendCommand PROVE WriteInv'
    OBVIOUS
<1>0. PICK n : n = Len(commands)
    OBVIOUS
<1>1. PICK c \in Commands : commands' = Append(commands, c)
    BY DEF SendCommand
<1>2. /\ commands \in Seq(Commands) /\ n \in Nat /\ passed \in 0 .. n
      /\ UNCHANGED <<passed, position, heard>>
    BY <1>0, LenProperties DEF WriteInv, WriteTypes, SendCommand
<1>3. /\ commands' \in Seq(Commands) /\ Len(commands') = n + 1
      /\ \A i \in 1 .. n : commands'[i] = commands[i]
    BY <1>0, <1>1, <1>2, AppendProperties
<1>4. WriteTypes'
    BY <1>0, <1>2, <1>3 DEF WriteInv, WriteTypes
<1>5. MeantUpTo(passed)' = MeantUpTo(passed)
    BY <1>2, <1>3 DEF MeantUpTo
<1>6. passed' # Len(commands')
    BY <1>2, <1>3
<1>7. CASE position = 1
    <2>1. Len(Written(commands'[passed' + 1])) \in Nat \ {0}
        <3>1. passed' + 1 \in 1 .. Len(commands')
            BY <1>2, <1>3
        <3>2. commands'[passed' + 1] \in Commands
            BY <1>3, <3>1, ElementOfSeq
        <3>3. QED
            BY <3>2, WrittenLen
    <2>2. QED
        BY <1>2, <1>4, <1>5, <1>6, <1>7, <2>1 DEF WriteInv
<1>8. CASE position # 1
    <2>1. passed < n /\ passed + 1 \in 1 .. n
        BY <1>0, <1>2, <1>8 DEF WriteInv
    <2>2. commands'[passed + 1] = commands[passed + 1]
        BY <1>3, <2>1
    <2>3. MeantUpTo(passed + 1)' = MeantUpTo(passed + 1)
        BY <1>2, <1>3, <2>1 DEF MeantUpTo
    <2>4. Within(commands[passed + 1], position - 1)
        BY <1>8 DEF WriteInv
    <2>5. Within(commands[passed + 1], position - 1)'
        BY <1>2, <1>5, <2>2, <2>3, <2>4 DEF Within
    <2>6. (passed < Len(commands) => position <= Len(Written(commands[passed + 1])))'
        BY <1>0, <1>2, <2>1, <2>2 DEF WriteInv
    <2>7. QED
        BY <1>2, <1>4, <1>6, <1>8, <2>5, <2>6 DEF WriteInv
<1>9. QED
    BY <1>7, <1>8

\* The amplifier takes a byte: Start, whether it is the first or the second,
\* leaves it inside a message without data, End completes one if it is inside
\* one, and the rest is data.
LEMMA TakeByteInv == WriteInv /\ TakeByte => WriteInv'
<1> SUFFICES ASSUME WriteInv, TakeByte PROVE WriteInv'
    OBVIOUS
<1>1. PICK p, at : p = passed /\ at = position
    OBVIOUS
<1>2. PICK c : c = commands[p + 1]
    OBVIOUS
<1>3. PICK f, data, m, n : f = Framed(c) /\ data = Meant(c) /\ m = Len(data) /\ n = Len(Written(c))
    OBVIOUS
<1>4. PICK byte, so : byte = Written(c)[at] /\ so = heard.out
    OBVIOUS
<1>5. /\ WriteTypes /\ commands \in Seq(Commands) /\ Len(commands) \in Nat
      /\ p \in 0 .. Len(commands) - 1 /\ p + 1 \in 1 .. Len(commands) /\ c \in Commands
    <2>1. /\ WriteTypes /\ commands \in Seq(Commands) /\ Len(commands) \in Nat
          /\ p \in 0 .. Len(commands) /\ p < Len(commands)
        BY <1>1, LenProperties DEF WriteInv, WriteTypes, TakeByte
    <2>2. p + 1 \in 1 .. Len(commands)
        BY <2>1
    <2>3. QED
        BY <1>2, <2>1, <2>2, ElementOfSeq
<1>6. /\ data \in Seq(Payload) /\ m \in Nat /\ f \in {1, 2} /\ n = f + m + f
      /\ \A i \in 1 .. f : Written(c)[i] = Start
      /\ \A i \in 1 .. m : Written(c)[f + i] = data[i]
      /\ \A i \in 1 .. f : Written(c)[f + m + i] = End
    <2>1. m = Len(Meant(c)) /\ f = Framed(c)
        BY <1>3
    <2>2. /\ Len(Written(c)) = f + m + f
          /\ \A i \in 1 .. f : Written(c)[i] = Start
          /\ \A i \in 1 .. m : Written(c)[f + i] = Meant(c)[i]
          /\ \A i \in 1 .. f : Written(c)[f + m + i] = End
        BY <1>5, <2>1, WrittenBytes
    <2>3. QED
        BY <1>3, <1>5, <2>2, MeantData
<1>7. at \in 1 .. n
    BY <1>1, <1>2, <1>3, <1>5, <1>6 DEF WriteInv, WriteTypes
<1>8. /\ heard' = HearByte(heard, byte)
      /\ position' = IF at = n THEN 1 ELSE at + 1
      /\ passed' = IF at = n THEN p + 1 ELSE p
      /\ commands' = commands
    BY <1>1, <1>2, <1>3, <1>4 DEF TakeByte
<1>9. PICK within, old :
          /\ heard = [inside |-> within, data |-> old, out |-> so]
          /\ within = heard.inside /\ old = heard.data
          /\ within \in BOOLEAN /\ old \in Seq(Payload) /\ so \in Seq(Messages)
    BY <1>4, <1>5 DEF WriteTypes
\* What it makes of the byte.
<1>10. /\ byte = Start => HearByte(heard, byte) = [inside |-> TRUE, data |-> <<>>, out |-> so]
       /\ byte \notin {Start, End} /\ within =>
            HearByte(heard, byte) = [inside |-> TRUE, data |-> Append(old, byte), out |-> so]
       /\ byte = End /\ within =>
            HearByte(heard, byte) = [inside |-> FALSE, data |-> old, out |-> Append(so, old)]
       /\ byte = End /\ ~within => HearByte(heard, byte) = heard
    <2>1. PICK s : s = heard
        OBVIOUS
    <2>2. /\ s = [inside |-> within, data |-> old, out |-> so]
          /\ s.inside = within /\ s.data = old /\ s.out = so /\ Start # End
        BY <1>9, <2>1 DEF Start, End
    <2>3. ASSUME byte = Start
          PROVE  HearByte(s, byte) = [inside |-> TRUE, data |-> <<>>, out |-> so]
        <3>1. HearByte(s, byte) = [s EXCEPT !.inside = TRUE, !.data = <<>>]
            BY <2>2, <2>3 DEF HearByte
        <3>2. QED
            BY <2>2, <3>1
    <2>4. ASSUME byte \notin {Start, End}, within
          PROVE  HearByte(s, byte) = [inside |-> TRUE, data |-> Append(old, byte), out |-> so]
        <3>1. HearByte(s, byte) = [s EXCEPT !.data = Append(old, byte)]
            BY <2>2, <2>4 DEF HearByte
        <3>2. within = TRUE
            BY <1>9, <2>4
        <3>3. QED
            BY <2>2, <3>1, <3>2
    <2>5. ASSUME byte = End, within
          PROVE  HearByte(s, byte) = [inside |-> FALSE, data |-> old, out |-> Append(so, old)]
        <3>1. HearByte(s, byte) = [s EXCEPT !.inside = FALSE, !.out = Append(so, old)]
            BY <2>2, <2>5 DEF HearByte
        <3>2. QED
            BY <2>2, <3>1
    <2>6. ASSUME byte = End, ~within
          PROVE  HearByte(s, byte) = s
        BY <2>2, <2>6 DEF HearByte
    <2>7. QED
        BY <2>1, <2>3, <2>4, <2>5, <2>6
<1>11. /\ MeantUpTo(p + 1) = Append(MeantUpTo(p), data)
       /\ MeantUpTo(p) \in Seq(Messages) /\ MeantUpTo(p + 1) \in Seq(Messages)
    BY <1>2, <1>3, <1>5, MeantOneMore
<1>12. PICK before, after : before = MeantUpTo(p) /\ after = MeantUpTo(p + 1)
    OBVIOUS
<1>13. Start # End /\ \A i \in 1 .. m : data[i] \in Payload \ {Start, End}
    BY <1>3, <1>6, ElementOfSeq DEF Start, End, Payload
<1>14. /\ at = 1 => ~within /\ so = before
       /\ at # 1 /\ at - 1 <= f + m => within /\ old = SubSeq(data, 1, at - 1 - f) /\ so = before
       /\ at # 1 /\ ~(at - 1 <= f + m) => ~within /\ so = after
    BY <1>1, <1>2, <1>3, <1>4, <1>9, <1>12 DEF WriteInv, Within
<1>15. ASSUME NEW d \in Seq(Payload), NEW o \in Seq(Messages), NEW i \in BOOLEAN,
              heard' = [inside |-> i, data |-> d, out |-> o]
       PROVE  /\ WriteTypes'
              /\ heard'.inside = i /\ heard'.data = d /\ heard'.out = o
    <2>1. heard' \in [inside : BOOLEAN, data : Seq(Payload), out : Seq(Messages)]
        BY <1>15
    <2>2. position' \in Nat \ {0} /\ passed' \in 0 .. Len(commands') /\ commands' \in Seq(Commands)
        BY <1>5, <1>6, <1>7, <1>8
    <2>3. QED
        BY <1>15, <2>1, <2>2 DEF WriteTypes
<1>16. at # n =>
          /\ position' = at + 1 /\ passed' = p /\ commands'[passed' + 1] = c
          /\ position' <= Len(Written(commands'[passed' + 1])) /\ position' # 1 /\ position' - 1 = at
          /\ passed' # Len(commands')
          /\ MeantUpTo(passed)' = before /\ MeantUpTo(passed + 1)' = after
    <2> SUFFICES ASSUME at # n
                 PROVE  /\ position' = at + 1 /\ passed' = p /\ commands'[passed' + 1] = c
                        /\ position' <= Len(Written(commands'[passed' + 1])) /\ position' # 1
                        /\ position' - 1 = at /\ passed' # Len(commands')
                        /\ MeantUpTo(passed)' = before /\ MeantUpTo(passed + 1)' = after
        OBVIOUS
    <2>1. position' = at + 1 /\ passed' = p /\ commands'[passed' + 1] = c
        BY <1>2, <1>8
    <2>2. position' <= n /\ position' # 1 /\ position' - 1 = at /\ passed' # Len(commands')
        BY <1>5, <1>6, <1>7, <1>8, <2>1
    <2>3. MeantUpTo(passed)' = before /\ MeantUpTo(passed + 1)' = after
        BY <1>8, <1>12, <2>1 DEF MeantUpTo
    <2>4. QED
        BY <1>3, <2>1, <2>2, <2>3
\* The state after a byte inside the message.
<1>17. ASSUME NEW d \in Seq(Payload), heard' = [inside |-> TRUE, data |-> d, out |-> before],
              d = SubSeq(data, 1, at - f), at <= f + m
       PROVE  WriteInv'
    <2>1. WriteTypes' /\ heard'.inside = TRUE /\ heard'.data = d /\ heard'.out = before
        BY <1>11, <1>12, <1>15, <1>17
    <2>2. at # n
        BY <1>6, <1>7, <1>17
    <2>3. Within(commands[passed + 1], position - 1)'
        BY <1>3, <1>16, <1>17, <2>1, <2>2 DEF Within
    <2>4. QED
        BY <1>16, <2>1, <2>2, <2>3 DEF WriteInv
\* The state after a byte that completes it or comes behind that.
<1>18. ASSUME NEW d \in Seq(Payload), heard' = [inside |-> FALSE, data |-> d, out |-> after],
              ~(at <= f + m)
       PROVE  WriteInv'
    <2>1. WriteTypes' /\ heard'.inside = FALSE /\ heard'.data = d /\ heard'.out = after
        BY <1>11, <1>12, <1>15, <1>18
    <2>2. CASE at # n
        <3>1. Within(commands[passed + 1], position - 1)'
            BY <1>3, <1>16, <1>18, <2>1, <2>2 DEF Within
        <3>2. QED
            BY <1>16, <2>1, <2>2, <3>1 DEF WriteInv
    <2>3. CASE at = n
        <3>1. position' = 1 /\ passed' = p + 1
            BY <1>8, <2>3
        <3>2. heard'.out = MeantUpTo(passed)'
            BY <1>8, <1>12, <2>1, <3>1 DEF MeantUpTo
        <3>3. passed' < Len(commands') => 1 <= Len(Written(commands'[passed' + 1]))
            <4> SUFFICES ASSUME passed' < Len(commands')
                         PROVE  1 <= Len(Written(commands'[passed' + 1]))
                OBVIOUS
            <4>1. passed' + 1 \in 1 .. Len(commands)
                BY <1>5, <1>8, <3>1
            <4>2. commands'[passed' + 1] \in Commands
                BY <1>5, <1>8, <4>1, ElementOfSeq
            <4>3. Len(Written(commands'[passed' + 1])) \in Nat \ {0}
                BY <4>2, WrittenLen
            <4>4. QED
                BY <4>3
        <3>4. QED
            BY <2>1, <3>1, <3>2, <3>3 DEF WriteInv
    <2>4. QED
        BY <2>2, <2>3
<1>19. CASE at \in 1 .. f
    <2>1. byte = Start /\ so = before /\ at <= f + m
        <3>1. byte = Start /\ at <= f + m
            BY <1>4, <1>6, <1>19
        <3>2. at # 1 => at - 1 <= f + m
            BY <1>6, <1>7, <1>19
        <3>3. QED
            BY <1>14, <3>1, <3>2
    <2>2. heard' = [inside |-> TRUE, data |-> <<>>, out |-> so]
        BY <1>8, <2>1, <1>10
    <2>3. SubSeq(data, 1, at - f) = <<>> /\ <<>> \in Seq(Payload)
        <3>1. at - f \in Int /\ at - f < 1 /\ 1 \in Int
            BY <1>6, <1>19
        <3>2. QED
            BY <3>1, SubSeqEmpty, EmptySeq
    <2>4. QED
        BY <1>17, <2>1, <2>2, <2>3
<1>20. CASE at \in f + 1 .. f + m
    <2>1. PICK k \in 0 .. m - 1 : at = f + k + 1
        <3>1. at - f - 1 \in 0 .. m - 1 /\ at = f + (at - f - 1) + 1
            BY <1>6, <1>20
        <3>2. QED
            BY <3>1
    <2>2. byte = data[k + 1]
        <3>1. k + 1 \in 1 .. m /\ at = f + (k + 1)
            BY <1>6, <2>1
        <3>2. QED
            BY <1>4, <1>6, <3>1
    <2>3. byte \in Payload /\ byte \notin {Start, End}
        <3>1. k + 1 \in 1 .. m
            BY <1>6, <2>1
        <3>2. QED
            BY <1>13, <2>2, <3>1
    <2>4. within /\ old = SubSeq(data, 1, k) /\ so = before
        <3>1. at # 1 /\ at - 1 <= f + m /\ at - 1 - f = k
            BY <1>6, <2>1
        <3>2. QED
            BY <1>14, <3>1
    <2>5. heard' = [inside |-> TRUE, data |-> Append(old, byte), out |-> so]
        BY <1>8, <1>10, <2>3, <2>4
    <2>6. Append(old, byte) = SubSeq(data, 1, at - f)
        <3>1. at - f = k + 1
            BY <1>6, <2>1
        <3>2. SubSeq(data, 1, k + 1) = Append(SubSeq(data, 1, k), data[k + 1])
            BY <1>3, <1>6, <2>1, PrefixOneMore
        <3>3. QED
            BY <2>2, <2>4, <3>1, <3>2
    <2>7. Append(old, byte) \in Seq(Payload)
        BY <1>9, <2>3, AppendProperties
    <2>8. at <= f + m
        BY <1>6, <1>20
    <2>9. QED
        BY <1>17, <2>4, <2>5, <2>6, <2>7, <2>8
<1>21. CASE at = f + m + 1
    <2>1. byte = End
        <3>1. 1 \in 1 .. f
            BY <1>6
        <3>2. QED
            BY <1>4, <1>6, <1>21, <3>1
    <2>2. within /\ old = data /\ so = before
        <3>1. at # 1 /\ at - 1 <= f + m /\ at - 1 - f = m
            BY <1>6, <1>21
        <3>2. SubSeq(data, 1, m) = data
            BY <1>3, <1>6, SubSeqFull
        <3>3. QED
            BY <1>14, <3>1, <3>2
    <2>3. heard' = [inside |-> FALSE, data |-> old, out |-> after]
        <3>1. HearByte(heard, byte) = [inside |-> FALSE, data |-> old, out |-> Append(so, old)]
            BY <1>10, <2>1, <2>2
        <3>2. QED
            BY <1>8, <1>11, <1>12, <2>2, <3>1
    <2>4. ~(at <= f + m)
        BY <1>6, <1>21
    <2>5. QED
        BY <1>9, <1>18, <2>3, <2>4
<1>22. CASE at = f + m + 2
    <2>1. byte = End
        <3>1. 2 \in 1 .. f
            BY <1>6, <1>7, <1>22
        <3>2. QED
            BY <1>4, <1>6, <1>22, <3>1
    <2>2. ~within /\ so = after
        <3>1. at # 1 /\ ~(at - 1 <= f + m)
            BY <1>6, <1>22
        <3>2. QED
            BY <1>14, <3>1
    <2>3. heard' = [inside |-> FALSE, data |-> old, out |-> after]
        <3>1. HearByte(heard, byte) = heard
            BY <1>10, <2>1, <2>2
        <3>2. within = FALSE
            BY <1>9, <2>2
        <3>3. QED
            BY <1>8, <1>9, <2>2, <3>1, <3>2
    <2>4. ~(at <= f + m)
        BY <1>6, <1>22
    <2>5. QED
        BY <1>9, <1>18, <2>3, <2>4
<1>23. at \in 1 .. f \/ at \in f + 1 .. f + m \/ at = f + m + 1 \/ at = f + m + 2
    BY <1>6, <1>7
<1>24. QED
    BY <1>19, <1>20, <1>21, <1>22, <1>23

\* Every step keeps the invariant.
LEMMA WriteStepInv == WriteInv /\ [WriteNext]_writeVars => WriteInv'
<1> SUFFICES ASSUME WriteInv, [WriteNext]_writeVars PROVE WriteInv'
    OBVIOUS
<1>1. CASE UNCHANGED writeVars
    BY <1>1 DEF writeVars, WriteInv, WriteTypes, MeantUpTo, Within
<1>2. QED
    BY <1>1, SendCommandInv, TakeByteInv DEF WriteNext

\* midi/Midi.kt:147, 155, for any commands of the four kinds: the amplifier
\* hears what was meant.
THEOREM WriteCorrect == WriteSpec => []WritesAreHeard
<1>1. WriteInv => WritesAreHeard
    <2> SUFFICES ASSUME WriteInv PROVE WritesAreHeard
        OBVIOUS
    <2>1. Len(commands) \in Nat /\ passed \in 0 .. Len(commands)
        BY LenProperties DEF WriteInv, WriteTypes
    <2>2. passed = Len(commands) => position = 1
        BY DEF WriteInv
    <2>3. \/ heard.out = MeantUpTo(passed)
          \/ position # 1 /\ heard.out = MeantUpTo(passed + 1)
        BY DEF WriteInv, Within
    <2>4. \E n \in passed .. Len(commands) : n <= passed + 1 /\ heard.out = MeantUpTo(n)
        <3>1. CASE heard.out = MeantUpTo(passed)
            BY <2>1, <3>1
        <3>2. CASE position # 1 /\ heard.out = MeantUpTo(passed + 1)
            <4>1. passed + 1 \in passed .. Len(commands) /\ passed + 1 <= passed + 1
                BY <2>1, <2>2, <3>2
            <4>2. QED
                BY <3>2, <4>1
        <3>3. QED
            BY <2>3, <3>1, <3>2
    <2>5. QED
        BY <2>4 DEF WriteInv, WritesAreHeard
<1>2. QED
    BY <1>1, WriteInitInv, WriteStepInv, PTL DEF WriteSpec

-----------------------------------------------------------------------------
(* From bytes to lines.  What holds of the pieces and of the lines is said  *)
(* of values, so that a step only has to say what its values are.           *)

\* What the phone sends, and what is made of it.
Sendable == Characters \cup {Newline}
Pieces == [char : Sendable \cup {Bad}, of : Nat \ {0}]

\* The piece is what was sent as text, with the characters par parted.
TrueTo(piece, text, par) == piece.char = IF piece.of \in par THEN Bad ELSE text[piece.of]

\* The pieces are in order, and more than one only of a parted character.
InOrder(s, par) ==
    \A i, j \in DOMAIN s :
       i < j => s[i].of < s[j].of \/ (s[i].of = s[j].of /\ s[i].of \in par)

\* The pieces s are the characters behind from up to upto but for the lost, in
\* order, and perhaps a part of the one behind upto.
Run(s, text, par, lost, from, upto) ==
    /\ \A i \in DOMAIN s : /\ TrueTo(s[i], text, par)
                           /\ s[i].of \in from + 1 .. upto + 1
                           /\ s[i].of \notin lost
                           /\ s[i].of = upto + 1 => upto + 1 \in par
    /\ InOrder(s, par)
    /\ \A n \in from + 1 .. upto : n \in lost \/ \E i \in DOMAIN s : s[i].of = n

\* EndsLine, LineEnding and IsLine of a text.
Ends(n, text, lost) == text[n] = Newline /\ n \notin lost
Ending(n, text, lost) == {k \in (1 .. n - 1) \ lost : \A j \in k .. n - 1 : ~Ends(j, text, lost)}
LineOf(line, n, text, par, lost) ==
    /\ Ends(n, text, lost)
    /\ Numbers(line) = Ending(n, text, lost)
    /\ \A i \in DOMAIN line : TrueTo(line[i], text, par)
    /\ InOrder(line, par)

\* What ends at n is not blank.
HasText(n, text, lost) == \E m \in Ending(n, text, lost) : text[m] # Blank

\* The lines ls are those of text up to its newline at to, in order.
Handed(ls, text, par, lost, to) ==
    /\ to # 0 => Ends(to, text, lost)
    /\ \A k \in DOMAIN ls : \E n \in 1 .. to : LineOf(ls[k], n, text, par, lost)
    /\ \A j, k \in DOMAIN ls :
          j < k => \A a \in Numbers(ls[j]), b \in Numbers(ls[k]) : a < b
    /\ \A n \in 1 .. to :
          Ends(n, text, lost) /\ HasText(n, text, lost) =>
              \E k \in DOMAIN ls : LineOf(ls[k], n, text, par, lost)

\* Only characters of several bytes are among the parted ones, par.
OnlyWide(text, par) == \A n \in par : Bytes(text[n]) # 1

\* The pieces s are those of line, a newline that is the first one and the i-th
\* piece, and rest.
CutOff(s, i, line, rest) ==
    /\ i \in 1 .. Len(s)
    /\ s[i].char = Newline
    /\ Len(line) = i - 1
    /\ \A j \in 1 .. i - 1 : line[j] = s[j] /\ s[j].char # Newline
    /\ Len(rest) = Len(s) - i
    /\ \A k \in 1 .. Len(s) - i : rest[k] = s[i + k]

\* The lines after forEach has got to line.
LinesAfter(ls, line) == IF IsBlank(line) THEN ls ELSE Append(ls, line)

\* The state is of its types.
TextTypes ==
    /\ sent \in Seq(Sendable)
    /\ taken \in 0 .. Len(sent)
    /\ inside \in Nat
    /\ fresh \in 0 .. inside
    /\ phase \in {"waiting", "toKString", "forEach"}
    /\ cut \in BOOLEAN
    /\ builder \in Seq(Pieces)
    /\ batch \in Seq(Pieces)
    /\ lines \in Seq(Seq(Pieces))
    /\ dealt \in 0 .. taken
    /\ parted \in SUBSET (1 .. taken + 1)
    /\ gone \in SUBSET (1 .. taken)

\* What has been read in part is a character of more bytes; it is parted when
\* the read there is has not all its bytes, and then it is not behind a 0 byte.
InsideInv ==
    /\ inside # 0 => taken < Len(sent) /\ inside < Bytes(sent[taken + 1])
    /\ taken + 1 \in parted <=> fresh # inside
    /\ cut => fresh = inside
    /\ OnlyWide(sent, parted)

\* Where newlines are: at the end of what forEach has to do, and in the
\* builder only while a read is decoded.
PhaseInv ==
    /\ phase # "forEach" => batch = <<>>
    /\ phase = "forEach" => batch # <<>> /\ batch[Len(batch)].char = Newline
    /\ phase # "toKString" => \A i \in DOMAIN builder : builder[i].char # Newline

\* What forEach has to do and the builder are what the phone has sent since the
\* last newline forEach has got to, and the lines what it has sent before.
TextInv ==
    /\ TextTypes
    /\ InsideInv
    /\ PhaseInv
    /\ Run(batch \o builder, sent, parted, gone, dealt, taken)
    /\ Handed(lines, sent, parted, gone, dealt)

-----------------------------------------------------------------------------
(* Pieces and lines.                                                        *)

\* Lengths and elements of pieces.
LEMMA PieceLens ==
    ASSUME NEW s \in Seq(Pieces)
    PROVE  /\ Len(s) \in Nat /\ DOMAIN s = 1 .. Len(s)
           /\ \A i \in DOMAIN s : s[i] \in Pieces /\ s[i].of \in Nat \ {0}
           /\ (s = <<>>) <=> (Len(s) = 0)
           /\ s # <<>> => 1 \in DOMAIN s /\ Len(s) \in DOMAIN s
<1>1. Len(s) \in Nat /\ DOMAIN s = 1 .. Len(s) /\ ((s = <<>>) <=> (Len(s) = 0))
    BY LenProperties, EmptySeq
<1>2. \A i \in 1 .. Len(s) : s[i] \in Pieces
    BY ElementOfSeq
<1>3. QED
    BY <1>1, <1>2 DEF Pieces

\* One piece, or several bad ones.
LEMMA PieceSeqs ==
    /\ \A p \in Pieces : <<p>> \in Seq(Pieces) /\ Len(<<p>>) = 1 /\ <<p>>[1] = p
    /\ \A of \in Nat \ {0}, n \in Nat : \A q \in BadPieces(of, n) :
          /\ q \in Seq(Pieces) /\ q # <<>>
          /\ \A i \in DOMAIN q : q[i].char = Bad /\ q[i].of = of
<1>1. \A p \in Pieces : <<p>> \in Seq(Pieces) /\ Len(<<p>>) = 1 /\ <<p>>[1] = p
    OBVIOUS
<1>2. ASSUME NEW of \in Nat \ {0}, NEW n \in Nat, NEW q \in BadPieces(of, n)
      PROVE  /\ q \in Seq(Pieces) /\ q # <<>>
             /\ \A i \in DOMAIN q : q[i].char = Bad /\ q[i].of = of
    <2>1. PICK k \in 1 .. n : q = [i \in 1 .. k |-> Piece(Bad, of)]
        BY DEF BadPieces
    <2>2. Piece(Bad, of) \in Pieces /\ Piece(Bad, of).char = Bad /\ Piece(Bad, of).of = of
        BY DEF Piece, Pieces
    <2>3. q \in Seq(Pieces)
        BY <2>1, <2>2, IsASeq
    <2>4. DOMAIN q = 1 .. k /\ 1 \in 1 .. k
        BY <2>1
    <2>5. QED
        BY <2>1, <2>2, <2>3, <2>4, PieceLens
<1>3. QED
    BY <1>1, <1>2

\* What has been decoded of the character behind upto is put behind the others;
\* next is that character if it is complete.
LEMMA RunConcat ==
    ASSUME NEW s \in Seq(Pieces), NEW q \in Seq(Pieces), NEW text, NEW par, NEW lost,
           NEW from \in Nat, NEW upto \in Nat, from <= upto, NEW next \in {upto, upto + 1},
           Run(s, text, par, lost, from, upto), q # <<>>,
           \A i \in DOMAIN q : TrueTo(q[i], text, par) /\ q[i].of = upto + 1,
           upto + 1 \notin lost,
           upto + 1 \in par \/ Len(q) = 1,
           next = upto => upto + 1 \in par
    PROVE  s \o q \in Seq(Pieces) /\ Run(s \o q, text, par, lost, from, next)
<1>1. PICK t, n, m : t = s \o q /\ n = Len(s) /\ m = Len(q)
    OBVIOUS
<1>2. /\ n \in Nat /\ m \in Nat /\ m # 0 /\ DOMAIN s = 1 .. n /\ DOMAIN q = 1 .. m
      /\ t \in Seq(Pieces) /\ DOMAIN t = 1 .. n + m
      /\ \A i \in 1 .. n + m : t[i] = IF i <= n THEN s[i] ELSE q[i - n]
    <2>1. n \in Nat /\ m \in Nat /\ m # 0 /\ DOMAIN s = 1 .. n /\ DOMAIN q = 1 .. m
        BY <1>1, PieceLens
    <2>2. /\ t \in Seq(Pieces) /\ Len(t) = n + m
          /\ \A i \in 1 .. n + m : t[i] = IF i <= n THEN s[i] ELSE q[i - n]
        BY <1>1, ConcatProperties
    <2>3. QED
        BY <2>1, <2>2, PieceLens
<1>3. /\ \A i \in 1 .. n : /\ TrueTo(s[i], text, par)
                           /\ s[i].of \in from + 1 .. upto + 1
                           /\ s[i].of \notin lost
                           /\ s[i].of = upto + 1 => upto + 1 \in par
      /\ \A i, j \in 1 .. n : i < j => s[i].of < s[j].of \/ (s[i].of = s[j].of /\ s[i].of \in par)
      /\ \A k \in from + 1 .. upto : k \in lost \/ \E i \in 1 .. n : s[i].of = k
    BY <1>2 DEF Run, InOrder
<1>4. \A i \in 1 .. n : t[i] = s[i] /\ i \in 1 .. n + m
    BY <1>2
<1>5. \A i \in 1 .. n + m : i \notin 1 .. n => /\ t[i].of = upto + 1
                                               /\ TrueTo(t[i], text, par)
    <2> SUFFICES ASSUME NEW i \in 1 .. n + m, i \notin 1 .. n
                 PROVE  t[i].of = upto + 1 /\ TrueTo(t[i], text, par)
        OBVIOUS
    <2>1. i - n \in 1 .. m /\ ~(i <= n)
        BY <1>2
    <2>2. t[i] = q[i - n]
        BY <1>2, <2>1
    <2>3. QED
        BY <1>2, <2>1, <2>2
<1>6. \A i \in DOMAIN t : /\ TrueTo(t[i], text, par)
                          /\ t[i].of \in from + 1 .. next + 1
                          /\ t[i].of \notin lost
                          /\ t[i].of = next + 1 => next + 1 \in par
    <2> SUFFICES ASSUME NEW i \in 1 .. n + m
                 PROVE  /\ TrueTo(t[i], text, par)
                        /\ t[i].of \in from + 1 .. next + 1
                        /\ t[i].of \notin lost
                        /\ t[i].of = next + 1 => next + 1 \in par
        BY <1>2
    <2>1. PICK x : x = t[i].of
        OBVIOUS
    <2>2. TrueTo(t[i], text, par) /\ x \in from + 1 .. upto + 1 /\ x \notin lost
        BY <1>3, <1>4, <1>5, <2>1
    <2>3. x \in from + 1 .. next + 1
        BY <2>2
    <2>4. x = next + 1 => next + 1 \in par
        BY <2>2
    <2>5. QED
        BY <2>1, <2>2, <2>3, <2>4
<1>7. InOrder(t, par)
    <2> SUFFICES ASSUME NEW i \in 1 .. n + m, NEW j \in 1 .. n + m, i < j
                 PROVE  t[i].of < t[j].of \/ (t[i].of = t[j].of /\ t[i].of \in par)
        BY <1>2 DEF InOrder
    <2>1. CASE j \in 1 .. n
        <3>1. i \in 1 .. n
            BY <1>2, <2>1
        <3>2. QED
            BY <1>3, <1>4, <2>1, <3>1
    <2>2. CASE j \notin 1 .. n /\ i \in 1 .. n
        <3>1. PICK x : x = s[i].of
            OBVIOUS
        <3>2. x \in from + 1 .. upto + 1 /\ (x = upto + 1 => x \in par)
            BY <1>3, <2>2, <3>1
        <3>3. x < upto + 1 \/ (x = upto + 1 /\ x \in par)
            BY <3>2
        <3>4. t[i].of = x /\ t[j].of = upto + 1
            BY <1>4, <1>5, <2>2, <3>1
        <3>5. QED
            BY <3>3, <3>4
    <2>3. CASE j \notin 1 .. n /\ i \notin 1 .. n
        <3>1. m # 1
            BY <1>2, <2>3
        <3>2. upto + 1 \in par
            BY <1>1, <3>1
        <3>3. QED
            BY <1>5, <2>3, <3>2
    <2>4. QED
        BY <2>1, <2>2, <2>3
<1>8. \A k \in from + 1 .. next : k \in lost \/ \E i \in DOMAIN t : t[i].of = k
    <2> SUFFICES ASSUME NEW k \in from + 1 .. next, k \notin lost PROVE \E i \in 1 .. n + m : t[i].of = k
        BY <1>2
    <2>1. CASE k \in from + 1 .. upto
        <3>1. PICK i \in 1 .. n : s[i].of = k
            BY <1>3, <2>1
        <3>2. QED
            BY <1>4, <3>1
    <2>2. CASE k = upto + 1
        <3>1. n + 1 \in 1 .. n + m /\ n + 1 \notin 1 .. n
            BY <1>2
        <3>2. QED
            BY <1>5, <2>2, <3>1
    <2>3. QED
        BY <2>1, <2>2
<1>9. QED
    BY <1>1, <1>2, <1>6, <1>7, <1>8 DEF Run

\* More text, parted and lost characters behind them, and a parted one they may
\* have a part of already, do not change the pieces.
LEMMA RunKept ==
    ASSUME NEW s, NEW text, NEW par, NEW lost, NEW text2, NEW par2, NEW lost2,
           NEW from \in Nat, NEW upto \in Nat,
           Run(s, text, par, lost, from, upto),
           \A n \in from + 1 .. upto + 1 : text2[n] = text[n] /\ (n \in lost2 <=> n \in lost),
           \A n \in from + 1 .. upto : n \in par2 <=> n \in par,
           upto + 1 \in par => upto + 1 \in par2
    PROVE  Run(s, text2, par2, lost2, from, upto)
<1>1. /\ \A i \in DOMAIN s : /\ TrueTo(s[i], text, par)
                             /\ s[i].of \in from + 1 .. upto + 1
                             /\ s[i].of \notin lost
                             /\ s[i].of = upto + 1 => upto + 1 \in par
      /\ \A i, j \in DOMAIN s : i < j => s[i].of < s[j].of \/ (s[i].of = s[j].of /\ s[i].of \in par)
      /\ \A n \in from + 1 .. upto : n \in lost \/ \E i \in DOMAIN s : s[i].of = n
    BY DEF Run, InOrder
<1>2. \A n \in from + 1 .. upto : n \in from + 1 .. upto + 1
    OBVIOUS
<1>3. \A n \in from + 1 .. upto + 1 : n = upto + 1 \/ n \in from + 1 .. upto
    OBVIOUS
<1>4. \A i \in DOMAIN s : /\ s[i].of \in par2 <=> s[i].of \in par
                          /\ text2[s[i].of] = text[s[i].of]
                          /\ s[i].of \notin lost2
    <2> TAKE i \in DOMAIN s
    <2>1. PICK x : x = s[i].of
        OBVIOUS
    <2>2. x \in from + 1 .. upto + 1 /\ x \notin lost /\ (x = upto + 1 => x \in par)
        BY <1>1, <2>1
    <2>3. QED
        BY <1>3, <2>1, <2>2
<1>5. \A i \in DOMAIN s : TrueTo(s[i], text2, par2)
    BY <1>1, <1>4 DEF TrueTo
<1>6. InOrder(s, par2)
    BY <1>1, <1>4 DEF InOrder
<1>7. \A n \in from + 1 .. upto : n \in lost2 \/ \E i \in DOMAIN s : s[i].of = n
    BY <1>1, <1>2
<1>8. QED
    BY <1>1, <1>4, <1>5, <1>6, <1>7 DEF Run

\* The character behind upto is lost; no part of it is among the pieces.
LEMMA RunSkip ==
    ASSUME NEW s, NEW text, NEW par, NEW lost,
           NEW from \in Nat, NEW upto \in Nat,
           Run(s, text, par, lost, from, upto),
           upto + 1 \notin par
    PROVE  Run(s, text, par, lost \cup {upto + 1}, from, upto + 1)
<1>1. PICK lost2, next : lost2 = lost \cup {upto + 1} /\ next = upto + 1
    OBVIOUS
<1>2. /\ \A i \in DOMAIN s : /\ TrueTo(s[i], text, par)
                             /\ s[i].of \in from + 1 .. upto + 1
                             /\ s[i].of \notin lost
                             /\ s[i].of # upto + 1
      /\ InOrder(s, par)
      /\ \A n \in from + 1 .. upto : n \in lost \/ \E i \in DOMAIN s : s[i].of = n
    BY DEF Run
<1>3. \A x : x \in from + 1 .. upto + 1 /\ x # upto + 1 => x \in from + 1 .. next + 1 /\ x # next + 1
    BY <1>1
<1>4. \A i \in DOMAIN s : /\ s[i].of \in from + 1 .. next + 1
                          /\ s[i].of # next + 1
                          /\ s[i].of \notin lost2
    BY <1>1, <1>2, <1>3
<1>5. \A n \in from + 1 .. next : n \in from + 1 .. upto \/ n = upto + 1
    BY <1>1
<1>6. \A n \in from + 1 .. next : n \in lost2 \/ \E i \in DOMAIN s : s[i].of = n
    BY <1>1, <1>2, <1>5
<1>7. QED
    BY <1>1, <1>2, <1>4, <1>6 DEF Run

\* A newline is never parted, nor is a blank; so a piece that is one was one.
LEMMA NewlineWhole ==
    ASSUME NEW p, NEW text, NEW par, OnlyWide(text, par), TrueTo(p, text, par)
    PROVE  /\ p.char = Newline <=> text[p.of] = Newline
           /\ p.char = Blank <=> text[p.of] = Blank
           /\ p.char = Newline => p.of \notin par
<1>1. Bytes(Newline) = 1 /\ Bytes(Blank) = 1
    BY DEF Bytes, Newline, Blank
<1>2. p.of \in par => text[p.of] # Newline /\ text[p.of] # Blank
    BY <1>1 DEF OnlyWide
<1>3. Bad # Newline /\ Bad # Blank
    BY DEF Bad, Newline, Blank
<1>4. QED
    BY <1>2, <1>3 DEF TrueTo

\* The pieces behind the first newline are those of the characters behind it.
LEMMA RunCut ==
    ASSUME NEW s \in Seq(Pieces), NEW text, NEW par, NEW lost, OnlyWide(text, par),
           NEW from \in Nat, NEW upto \in Nat,
           Run(s, text, par, lost, from, upto),
           NEW line, NEW t \in Seq(Pieces), NEW i, CutOff(s, i, line, t)
    PROVE  /\ s[i].of \in from + 1 .. upto
           /\ Ends(s[i].of, text, lost)
           /\ s[i].of \notin par
           /\ Run(t, text, par, lost, s[i].of, upto)
<1>1. PICK n, to : n = Len(s) /\ to = s[i].of
    OBVIOUS
<1>2. /\ n \in Nat /\ DOMAIN s = 1 .. n /\ i \in 1 .. n /\ s[i].char = Newline
      /\ DOMAIN t = 1 .. n - i /\ \A k \in 1 .. n - i : t[k] = s[i + k]
    BY <1>1, PieceLens DEF CutOff
<1>3. /\ \A k \in 1 .. n : /\ TrueTo(s[k], text, par)
                           /\ s[k].of \in from + 1 .. upto + 1
                           /\ s[k].of \notin lost
                           /\ s[k].of = upto + 1 => upto + 1 \in par
      /\ \A j, k \in 1 .. n : j < k => s[j].of < s[k].of \/ (s[j].of = s[k].of /\ s[j].of \in par)
      /\ \A k \in from + 1 .. upto : k \in lost \/ \E j \in 1 .. n : s[j].of = k
    BY <1>2 DEF Run, InOrder
<1>4. to \notin par /\ text[to] = Newline /\ to \notin lost
    BY <1>1, <1>2, <1>3, NewlineWhole
<1>5. to \in from + 1 .. upto
    <2>1. to \in from + 1 .. upto + 1 /\ to # upto + 1
        BY <1>1, <1>2, <1>3, <1>4
    <2>2. QED
        BY <2>1
<1>6. \A k \in 1 .. n - i : i + k \in 1 .. n /\ i < i + k
    BY <1>2
<1>7. \A k \in 1 .. n - i : to < t[k].of
    BY <1>1, <1>2, <1>3, <1>4, <1>6
<1>8. \A k \in DOMAIN t : /\ TrueTo(t[k], text, par)
                          /\ t[k].of \in to + 1 .. upto + 1
                          /\ t[k].of \notin lost
                          /\ t[k].of = upto + 1 => upto + 1 \in par
    <2> SUFFICES ASSUME NEW k \in 1 .. n - i
                 PROVE  /\ TrueTo(t[k], text, par)
                        /\ t[k].of \in to + 1 .. upto + 1
                        /\ t[k].of \notin lost
                        /\ t[k].of = upto + 1 => upto + 1 \in par
        BY <1>2
    <2>1. PICK x : x = t[k].of
        OBVIOUS
    <2>2. /\ TrueTo(t[k], text, par) /\ x \in from + 1 .. upto + 1 /\ x \notin lost
          /\ x = upto + 1 => upto + 1 \in par
        BY <1>2, <1>3, <1>6, <2>1
    <2>3. x \in to + 1 .. upto + 1
        BY <1>5, <1>7, <2>1, <2>2
    <2>4. QED
        BY <2>1, <2>2, <2>3
<1>9. InOrder(t, par)
    <2> SUFFICES ASSUME NEW j \in 1 .. n - i, NEW k \in 1 .. n - i, j < k
                 PROVE  t[j].of < t[k].of \/ (t[j].of = t[k].of /\ t[j].of \in par)
        BY <1>2 DEF InOrder
    <2>1. i + j \in 1 .. n /\ i + k \in 1 .. n /\ i + j < i + k
        BY <1>2
    <2>2. QED
        BY <1>2, <1>3, <2>1
<1>10. \A m \in to + 1 .. upto : m \in lost \/ \E k \in DOMAIN t : t[k].of = m
    <2> SUFFICES ASSUME NEW m \in to + 1 .. upto, m \notin lost PROVE \E k \in 1 .. n - i : t[k].of = m
        BY <1>2
    <2>1. m \in from + 1 .. upto
        BY <1>5
    <2>2. PICK j \in 1 .. n : s[j].of = m
        BY <1>3, <2>1
    <2>3. ~(j <= i)
        <3>1. j < i => s[j].of <= to
            <4>1. j < i => s[j].of < to \/ s[j].of = to
                BY <1>1, <1>2, <1>3
            <4>2. QED
                BY <1>5, <2>2, <4>1
        <3>2. QED
            BY <1>1, <1>2, <1>5, <2>2, <3>1
    <2>4. j - i \in 1 .. n - i /\ i + (j - i) = j
        BY <1>2, <2>3
    <2>5. t[j - i].of = m
        BY <1>2, <2>2, <2>4
    <2>6. QED
        BY <2>4, <2>5
<1>11. Run(t, text, par, lost, to, upto)
    BY <1>8, <1>9, <1>10 DEF Run
<1>12. QED
    BY <1>1, <1>4, <1>5, <1>11 DEF Ends

\* More text, parted and lost characters behind them do not change what a
\* newline ends.
LEMMA EndingKept ==
    ASSUME NEW text, NEW lost, NEW text2, NEW lost2, NEW to \in Nat,
           \A n \in 1 .. to : text2[n] = text[n] /\ (n \in lost2 <=> n \in lost)
    PROVE  \A n \in 1 .. to : /\ Ends(n, text2, lost2) <=> Ends(n, text, lost)
                              /\ Ending(n, text2, lost2) = Ending(n, text, lost)
                              /\ HasText(n, text2, lost2) <=> HasText(n, text, lost)
<1>1. \A n \in 1 .. to : Ends(n, text2, lost2) <=> Ends(n, text, lost)
    BY DEF Ends
<1>2. ASSUME NEW n \in 1 .. to
      PROVE  /\ Ending(n, text2, lost2) = Ending(n, text, lost)
             /\ \A k \in Ending(n, text, lost) : k \in 1 .. to
    <2>1. \A k \in 1 .. n - 1 : k \in 1 .. to /\ \A j \in k .. n - 1 : j \in 1 .. to
        OBVIOUS
    <2>2. \A k \in 1 .. n - 1 :
             /\ k \in lost2 <=> k \in lost
             /\ (\A j \in k .. n - 1 : ~Ends(j, text2, lost2)) <=> (\A j \in k .. n - 1 : ~Ends(j, text, lost))
        BY <1>1, <2>1
    <2>3. QED
        BY <2>1, <2>2 DEF Ending
<1>3. \A n \in 1 .. to : HasText(n, text2, lost2) <=> HasText(n, text, lost)
    BY <1>2 DEF HasText
<1>4. QED
    BY <1>1, <1>2, <1>3

\* ... nor the lines.
LEMMA HandedKept ==
    ASSUME NEW ls \in Seq(Seq(Pieces)), NEW text, NEW par, NEW lost, NEW text2, NEW par2, NEW lost2,
           NEW to \in Nat, Handed(ls, text, par, lost, to),
           \A n \in 1 .. to : /\ text2[n] = text[n]
                              /\ n \in lost2 <=> n \in lost
                              /\ n \in par2 <=> n \in par
    PROVE  Handed(ls, text2, par2, lost2, to)
<1>1. \A n \in 1 .. to : /\ Ends(n, text2, lost2) <=> Ends(n, text, lost)
                         /\ Ending(n, text2, lost2) = Ending(n, text, lost)
                         /\ HasText(n, text2, lost2) <=> HasText(n, text, lost)
    BY EndingKept
<1>2. ASSUME NEW k \in DOMAIN ls, NEW n \in 1 .. to, LineOf(ls[k], n, text, par, lost)
      PROVE  LineOf(ls[k], n, text2, par2, lost2)
    <2>1. PICK line : line = ls[k]
        OBVIOUS
    <2>2. \A i \in DOMAIN line : line[i].of \in 1 .. to
        <3>1. \A i \in DOMAIN line : line[i].of \in Ending(n, text, lost)
            BY <1>2, <2>1 DEF LineOf, Numbers
        <3>2. \A x \in Ending(n, text, lost) : x \in 1 .. to
            BY DEF Ending
        <3>3. QED
            BY <3>1, <3>2
    <2>3. \A i \in DOMAIN line : TrueTo(line[i], text2, par2)
        BY <1>2, <2>1, <2>2 DEF LineOf, TrueTo
    <2>4. InOrder(line, par2)
        BY <1>2, <2>1, <2>2 DEF LineOf, InOrder
    <2>5. QED
        BY <1>1, <1>2, <2>1, <2>3, <2>4 DEF LineOf
<1>3. to # 0 => Ends(to, text2, lost2)
    BY <1>1 DEF Handed
<1>4. \A k \in DOMAIN ls : \E n \in 1 .. to : LineOf(ls[k], n, text2, par2, lost2)
    BY <1>2 DEF Handed
<1>5. \A n \in 1 .. to : Ends(n, text2, lost2) /\ HasText(n, text2, lost2) =>
                            \E k \in DOMAIN ls : LineOf(ls[k], n, text2, par2, lost2)
    BY <1>1, <1>2 DEF Handed
<1>6. QED
    BY <1>3, <1>4, <1>5 DEF Handed

\* A newline that has come through since from is one of the pieces.
LEMMA EndsArePieces ==
    ASSUME NEW s \in Seq(Pieces), NEW text, NEW par, NEW lost, OnlyWide(text, par),
           NEW from, NEW upto, Run(s, text, par, lost, from, upto),
           NEW n \in from + 1 .. upto, Ends(n, text, lost)
    PROVE  \E i \in DOMAIN s : s[i].of = n /\ s[i].char = Newline
<1>1. PICK i \in DOMAIN s : s[i].of = n
    BY DEF Run, Ends
<1>2. TrueTo(s[i], text, par) /\ text[s[i].of] = Newline
    BY <1>1 DEF Run, Ends
<1>3. QED
    BY <1>1, <1>2, NewlineWhole

\* What is before the first newline is the line that this one ends, and there is
\* no other newline since from.
LEMMA FirstLine ==
    ASSUME NEW s \in Seq(Pieces), NEW text, NEW par, NEW lost, OnlyWide(text, par),
           NEW from \in Nat, NEW upto \in Nat,
           Run(s, text, par, lost, from, upto),
           from # 0 => Ends(from, text, lost),
           NEW line \in Seq(Pieces), NEW t \in Seq(Pieces), NEW i, CutOff(s, i, line, t)
    PROVE  /\ LineOf(line, s[i].of, text, par, lost)
           /\ \A k \in Numbers(line) : k \in from + 1 .. s[i].of - 1
           /\ \A n \in from + 1 .. s[i].of - 1 : ~Ends(n, text, lost)
<1>1. PICK n, to : n = Len(s) /\ to = s[i].of
    OBVIOUS
<1>2. /\ n \in Nat /\ DOMAIN s = 1 .. n /\ i \in 1 .. n /\ s[i].char = Newline
      /\ DOMAIN line = 1 .. i - 1
      /\ \A j \in 1 .. i - 1 : line[j] = s[j] /\ s[j].char # Newline /\ j \in 1 .. n /\ j < i
    <2>1. n \in Nat /\ DOMAIN s = 1 .. n /\ i \in 1 .. n /\ s[i].char = Newline
        BY <1>1, PieceLens DEF CutOff
    <2>2. Len(line) = i - 1 /\ DOMAIN line = 1 .. Len(line)
        BY PieceLens DEF CutOff
    <2>3. \A j \in 1 .. i - 1 : line[j] = s[j] /\ s[j].char # Newline
        BY DEF CutOff
    <2>4. \A j \in 1 .. i - 1 : j \in 1 .. n /\ j < i
        BY <2>1
    <2>5. QED
        BY <2>1, <2>2, <2>3, <2>4
<1>3. /\ \A k \in 1 .. n : /\ TrueTo(s[k], text, par)
                           /\ s[k].of \in from + 1 .. upto + 1
                           /\ s[k].of \notin lost
      /\ \A j, k \in 1 .. n : j < k => s[j].of < s[k].of \/ (s[j].of = s[k].of /\ s[j].of \in par)
      /\ \A k \in from + 1 .. upto : k \in lost \/ \E j \in 1 .. n : s[j].of = k
    BY <1>2 DEF Run, InOrder
<1>4. /\ to \in from + 1 .. upto /\ Ends(to, text, lost) /\ to \notin par
      /\ Run(t, text, par, lost, to, upto)
    BY <1>1, RunCut
<1>5. ASSUME NEW j \in 1 .. i - 1 PROVE s[j].of \in from + 1 .. to - 1
    <2>1. PICK x : x = s[j].of
        OBVIOUS
    <2>2. x \in from + 1 .. upto + 1 /\ (x < to \/ (x = to /\ x \in par))
        BY <1>1, <1>2, <1>3, <2>1
    <2>3. x \in from + 1 .. to - 1
        BY <1>4, <2>2
    <2>4. QED
        BY <2>1, <2>3
<1>6. ASSUME NEW m \in from + 1 .. to - 1, m \notin lost PROVE \E j \in 1 .. i - 1 : s[j].of = m
    <2>1. m \in from + 1 .. upto
        BY <1>4
    <2>2. PICK j \in 1 .. n : s[j].of = m
        BY <1>3, <1>6, <2>1
    <2>3. ~(i < j)
        <3>1. i < j => to < m \/ to = m
            BY <1>1, <1>2, <1>3, <2>2
        <3>2. QED
            BY <1>4, <3>1
    <2>4. j # i
        BY <1>1, <1>4, <2>2
    <2>5. j \in 1 .. i - 1
        BY <1>2, <2>3, <2>4
    <2>6. QED
        BY <2>2, <2>5
<1>7. \A m \in from + 1 .. to - 1 : ~Ends(m, text, lost)
    <2> SUFFICES ASSUME NEW m \in from + 1 .. to - 1, Ends(m, text, lost) PROVE FALSE
        OBVIOUS
    <2>1. PICK j \in 1 .. i - 1 : s[j].of = m
        BY <1>6 DEF Ends
    <2>2. TrueTo(s[j], text, par) /\ text[s[j].of] = Newline /\ s[j].char # Newline
        BY <1>2, <1>3, <2>1 DEF Ends
    <2>3. QED
        BY <2>2, NewlineWhole
<1>8. Numbers(line) = Ending(to, text, lost)
    <2>1. ASSUME NEW x \in Numbers(line) PROVE x \in Ending(to, text, lost)
        <3>1. PICK j \in 1 .. i - 1 : x = s[j].of
            BY <1>2, <2>1 DEF Numbers
        <3>2. x \in from + 1 .. to - 1 /\ x \notin lost
            BY <1>2, <1>3, <1>5, <3>1
        <3>3. x \in 1 .. to - 1 /\ \A k \in x .. to - 1 : k \in from + 1 .. to - 1
            BY <1>4, <3>2
        <3>4. QED
            BY <1>7, <3>2, <3>3 DEF Ending
    <2>2. ASSUME NEW x \in Ending(to, text, lost) PROVE x \in Numbers(line)
        <3>1. x \in 1 .. to - 1 /\ x \notin lost /\ \A k \in x .. to - 1 : ~Ends(k, text, lost)
            BY DEF Ending
        <3>2. ~(x <= from)
            <4>1. x <= from => from \in x .. to - 1 /\ from # 0
                BY <1>4, <3>1
            <4>2. QED
                BY <3>1, <4>1
        <3>3. x \in from + 1 .. to - 1
            BY <1>4, <3>1, <3>2
        <3>4. PICK j \in 1 .. i - 1 : s[j].of = x
            BY <1>6, <3>1, <3>3
        <3>5. QED
            BY <1>2, <3>4 DEF Numbers
    <2>3. QED
        BY <2>1, <2>2
<1>9. \A k \in Numbers(line) : k \in from + 1 .. to - 1
    BY <1>2, <1>5 DEF Numbers
<1>10. \A j \in DOMAIN line : TrueTo(line[j], text, par)
    BY <1>2, <1>3
<1>11. InOrder(line, par)
    BY <1>2, <1>3 DEF InOrder
<1>12. LineOf(line, to, text, par, lost)
    BY <1>4, <1>8, <1>10, <1>11 DEF LineOf
<1>13. QED
    BY <1>1, <1>7, <1>9, <1>12

\* The line before the first newline is handed on unless it is blank.
LEMMA LineCut ==
    ASSUME NEW s \in Seq(Pieces), NEW text, NEW par, NEW lost, OnlyWide(text, par),
           NEW from \in Nat, NEW upto \in Nat,
           Run(s, text, par, lost, from, upto),
           NEW line \in Seq(Pieces), NEW t \in Seq(Pieces), NEW i, CutOff(s, i, line, t),
           NEW ls \in Seq(Seq(Pieces)), Handed(ls, text, par, lost, from)
    PROVE  Handed(LinesAfter(ls, line), text, par, lost, s[i].of)
<1>1. PICK to, ls2 : to = s[i].of /\ ls2 = LinesAfter(ls, line)
    OBVIOUS
<1>2. /\ to \in from + 1 .. upto /\ Ends(to, text, lost) /\ to \in 1 .. to
      /\ 1 .. from \subseteq 1 .. to
    <2>1. to \in from + 1 .. upto /\ Ends(to, text, lost)
        BY <1>1, RunCut
    <2>2. QED
        BY <2>1
<1>3. /\ LineOf(line, to, text, par, lost)
      /\ \A k \in Numbers(line) : k \in from + 1 .. to - 1
      /\ \A n \in from + 1 .. to - 1 : ~Ends(n, text, lost)
    BY <1>1, FirstLine DEF Handed
<1>4. /\ \A k \in DOMAIN ls : \E n \in 1 .. from : LineOf(ls[k], n, text, par, lost)
      /\ \A j, k \in DOMAIN ls : j < k => \A a \in Numbers(ls[j]), b \in Numbers(ls[k]) : a < b
      /\ \A n \in 1 .. from : Ends(n, text, lost) /\ HasText(n, text, lost) =>
                                  \E k \in DOMAIN ls : LineOf(ls[k], n, text, par, lost)
    BY DEF Handed
<1>5. \A n \in 1 .. to : Ends(n, text, lost) => n \in 1 .. from \/ n = to
    <2> SUFFICES ASSUME NEW n \in 1 .. to, Ends(n, text, lost), n \notin 1 .. from, n # to PROVE FALSE
        OBVIOUS
    <2>1. n \in from + 1 .. to - 1
        BY <1>2
    <2>2. QED
        BY <1>3, <2>1
<1>6. CASE IsBlank(line)
    <2>1. ~HasText(to, text, lost)
        <3> SUFFICES ASSUME NEW m \in Numbers(line), text[m] # Blank PROVE FALSE
            BY <1>3 DEF HasText, LineOf
        <3>1. PICK j \in DOMAIN line : line[j].of = m
            BY DEF Numbers
        <3>2. TrueTo(line[j], text, par) /\ line[j].char = Blank
            BY <1>3, <1>6 DEF LineOf, IsBlank
        <3>3. QED
            BY <3>1, <3>2, NewlineWhole
    <2>2. Handed(ls, text, par, lost, to)
        <3>1. \A k \in DOMAIN ls : \E n \in 1 .. to : LineOf(ls[k], n, text, par, lost)
            BY <1>2, <1>4
        <3>2. \A n \in 1 .. to : Ends(n, text, lost) /\ HasText(n, text, lost) =>
                                     \E k \in DOMAIN ls : LineOf(ls[k], n, text, par, lost)
            BY <1>4, <1>5, <2>1
        <3>3. QED
            BY <1>2, <1>4, <3>1, <3>2 DEF Handed
    <2>3. QED
        BY <1>1, <1>6, <2>2 DEF LinesAfter
<1>7. CASE ~IsBlank(line)
    <2>1. PICK c : c = Len(ls)
        OBVIOUS
    <2>2. /\ c \in Nat /\ DOMAIN ls = 1 .. c /\ DOMAIN ls2 = 1 .. c + 1
          /\ \A k \in 1 .. c : ls2[k] = ls[k]
          /\ ls2[c + 1] = line
        BY <1>1, <1>7, <2>1, AppendProperties, LenProperties DEF LinesAfter
    <2>3. \A k \in 1 .. c + 1 : k \in 1 .. c \/ k = c + 1
        BY <2>2
    <2>4. \A k \in 1 .. c : k \in 1 .. c + 1
        BY <2>2
    <2>5. \A k \in DOMAIN ls2 : \E n \in 1 .. to : LineOf(ls2[k], n, text, par, lost)
        <3> SUFFICES ASSUME NEW k \in 1 .. c + 1 PROVE \E n \in 1 .. to : LineOf(ls2[k], n, text, par, lost)
            BY <2>2
        <3>1. CASE k \in 1 .. c
            BY <1>2, <1>4, <2>2, <3>1
        <3>2. CASE k = c + 1
            BY <1>2, <1>3, <2>2, <3>2
        <3>3. QED
            BY <2>3, <3>1, <3>2
    <2>6. \A j, k \in DOMAIN ls2 : j < k => \A a \in Numbers(ls2[j]), b \in Numbers(ls2[k]) : a < b
        <3> SUFFICES ASSUME NEW j \in 1 .. c + 1, NEW k \in 1 .. c + 1, j < k,
                            NEW a \in Numbers(ls2[j]), NEW b \in Numbers(ls2[k])
                     PROVE  a < b
            BY <2>2
        <3>1. j \in 1 .. c
            BY <2>2
        <3>2. CASE k \in 1 .. c
            BY <1>4, <2>2, <3>1, <3>2
        <3>3. CASE k = c + 1
            <4>1. b \in from + 1 .. to - 1
                BY <1>3, <2>2, <3>3
            <4>2. PICK n \in 1 .. from : a \in Ending(n, text, lost)
                BY <1>4, <2>2, <3>1 DEF LineOf
            <4>3. a \in 1 .. n - 1
                BY <4>2 DEF Ending
            <4>4. QED
                BY <4>1, <4>2, <4>3
        <3>4. QED
            BY <2>3, <3>2, <3>3
    <2>7. \A n \in 1 .. to : Ends(n, text, lost) /\ HasText(n, text, lost) =>
                                 \E k \in DOMAIN ls2 : LineOf(ls2[k], n, text, par, lost)
        <3> SUFFICES ASSUME NEW n \in 1 .. to, Ends(n, text, lost), HasText(n, text, lost)
                     PROVE  \E k \in 1 .. c + 1 : LineOf(ls2[k], n, text, par, lost)
            BY <2>2
        <3>1. CASE n \in 1 .. from
            <4>1. PICK k \in 1 .. c : LineOf(ls[k], n, text, par, lost)
                BY <1>4, <2>2, <3>1
            <4>2. k \in 1 .. c + 1 /\ ls2[k] = ls[k]
                BY <2>2, <2>4
            <4>3. QED
                BY <4>1, <4>2
        <3>2. CASE n = to
            <4>1. c + 1 \in 1 .. c + 1
                BY <2>2
            <4>2. QED
                BY <1>3, <2>2, <3>2, <4>1
        <3>3. QED
            BY <1>5, <3>1, <3>2
    <2>8. Handed(ls2, text, par, lost, to)
        BY <1>2, <2>5, <2>6, <2>7 DEF Handed
    <2>9. QED
        BY <1>1, <2>8
<1>8. QED
    BY <1>6, <1>7

\* A set of numbers up to n has a greatest element, and Max is it.
LEMMA MaxOfBounded ==
    ASSUME NEW n \in Nat, NEW I \in SUBSET (1 .. n), I # {}
    PROVE  Max(I) \in I /\ \A i \in I : i <= Max(I)
<1> DEFINE J == {j \in Nat : n - j \in I}
<1>1. J # {} /\ J \subseteq Nat
    <2>1. PICK i \in I : TRUE
        OBVIOUS
    <2>2. i \in 1 .. n /\ n - i \in Nat /\ n - (n - i) = i
        BY <2>1
    <2>3. QED
        BY <2>1, <2>2
<1>2. PICK j \in J : \A k \in J : ~(<<k, j>> \in OpToRel(<, Nat))
    BY <1>1, WFMin, NatLessThanWellFounded
<1>3. \A k \in J : j <= k
    <2>1. \A x, y \in Nat : x < y => <<x, y>> \in OpToRel(<, Nat)
        BY DEF OpToRel
    <2>2. \A k \in J : k \in Nat /\ j \in Nat /\ (k < j \/ j <= k)
        BY <1>1
    <2>3. QED
        BY <1>2, <2>1, <2>2
<1>4. n - j \in I /\ \A i \in I : i <= n - j
    <2>1. \A i \in I : i \in 1 .. n /\ n - i \in J
        <3> TAKE i \in I
        <3>1. i \in 1 .. n /\ n - i \in Nat /\ n - (n - i) = i
            OBVIOUS
        <3>2. QED
            BY <3>1
    <2>2. QED
        BY <1>1, <1>3, <2>1
<1> DEFINE m == n - j
<1>5. m \in Nat /\ I \subseteq Nat
    BY <1>1, <1>4
<1> HIDE DEF m, J
<1>6. \E x \in I : \A y \in I : x >= y
    BY <1>4, <1>5 DEF m
<1>7. Max(I) \in I /\ \A y \in I : Max(I) >= y
    BY <1>6 DEF Max
<1>8. QED
    BY <1>5, <1>7

\* The last newline, if there is one.
LEMMA LastDelimiterIs ==
    ASSUME NEW s \in Seq(Pieces)
    PROVE  /\ LastDelimiter(s) \in 0 .. Len(s)
           /\ LastDelimiter(s) # 0 => s[LastDelimiter(s)].char = Newline
           /\ \A i \in LastDelimiter(s) + 1 .. Len(s) : s[i].char # Newline
<1>1. PICK n, I : n = Len(s) /\ I = {i \in 1 .. Len(s) : s[i].char = Newline}
    OBVIOUS
<1>2. n \in Nat /\ I \in SUBSET (1 .. n) /\ \A i \in 1 .. n : i \in I <=> s[i].char = Newline
    BY <1>1, PieceLens
<1>3. PICK d : d = LastDelimiter(s)
    OBVIOUS
<1>4. d = IF I # {} THEN Max(I) ELSE 0
    BY <1>1, <1>3 DEF LastDelimiter, SelectLastInSeq
<1>5. CASE I = {}
    BY <1>1, <1>2, <1>3, <1>4, <1>5
<1>6. CASE I # {}
    <2>1. d \in I /\ \A i \in I : i <= d
        BY <1>2, <1>4, <1>6, MaxOfBounded
    <2>2. d \in 1 .. n /\ s[d].char = Newline
        BY <1>2, <2>1
    <2>3. \A i \in d + 1 .. n : s[i].char # Newline
        <3> SUFFICES ASSUME NEW i \in d + 1 .. n, s[i].char = Newline PROVE FALSE
            OBVIOUS
        <3>1. i \in 1 .. n /\ i > d /\ d \in Nat /\ i \in Nat
            BY <1>2, <2>2
        <3>2. i <= d
            BY <1>2, <2>1, <3>1
        <3>3. QED
            BY <3>1, <3>2
    <2>4. d \in 0 .. n
        BY <1>2, <2>2
    <2>5. QED
        BY <1>1, <1>3, <2>2, <2>3, <2>4
<1>7. QED
    BY <1>5, <1>6

\* A line that is no message takes with it what forEach had left, rest, which
\* ends with a newline: what is behind that, u, stays as it is.
LEMMA RestLost ==
    ASSUME NEW rest \in Seq(Pieces), NEW u \in Seq(Pieces),
           NEW text, NEW par, NEW lost, OnlyWide(text, par),
           NEW to \in Nat, NEW upto \in Nat,
           Run(rest \o u, text, par, lost, to, upto),
           rest # <<>> => rest[Len(rest)].char = Newline
    PROVE  /\ \A x \in Numbers(rest) : x \in to + 1 .. upto
           /\ Run(u, text, par, lost \cup Numbers(rest), to, upto)
<1>1. PICK t, n, m : t = rest \o u /\ n = Len(rest) /\ m = Len(u)
    OBVIOUS
<1>2. /\ n \in Nat /\ m \in Nat /\ DOMAIN rest = 1 .. n /\ DOMAIN u = 1 .. m
      /\ DOMAIN t = 1 .. n + m
      /\ \A i \in 1 .. n + m : t[i] = IF i <= n THEN rest[i] ELSE u[i - n]
      /\ rest = <<>> <=> n = 0
    <2>1. n \in Nat /\ m \in Nat /\ DOMAIN rest = 1 .. n /\ DOMAIN u = 1 .. m /\ (rest = <<>> <=> n = 0)
        BY <1>1, PieceLens
    <2>2. /\ t \in Seq(Pieces) /\ Len(t) = n + m
          /\ \A i \in 1 .. n + m : t[i] = IF i <= n THEN rest[i] ELSE u[i - n]
        BY <1>1, ConcatProperties
    <2>3. QED
        BY <2>1, <2>2, PieceLens
<1>3. /\ \A k \in 1 .. n + m : /\ TrueTo(t[k], text, par)
                               /\ t[k].of \in to + 1 .. upto + 1
                               /\ t[k].of \notin lost
                               /\ t[k].of = upto + 1 => upto + 1 \in par
      /\ \A j, k \in 1 .. n + m :
            j < k => t[j].of < t[k].of \/ (t[j].of = t[k].of /\ t[j].of \in par)
      /\ \A k \in to + 1 .. upto : k \in lost \/ \E j \in 1 .. n + m : t[j].of = k
    <2>1. Run(t, text, par, lost, to, upto)
        BY <1>1
    <2>2. QED
        BY <1>2, <2>1 DEF Run, InOrder
<1>4. /\ \A i \in 1 .. n : i \in 1 .. n + m /\ t[i] = rest[i]
      /\ \A i \in 1 .. m : n + i \in 1 .. n + m /\ t[n + i] = u[i]
    <2>1. \A i \in 1 .. n : i \in 1 .. n + m /\ i <= n
        BY <1>2
    <2>2. \A i \in 1 .. m : n + i \in 1 .. n + m /\ ~(n + i <= n) /\ (n + i) - n = i
        BY <1>2
    <2>3. QED
        BY <1>2, <2>1, <2>2
<1>5. ASSUME NEW i \in 1 .. n
      PROVE  /\ rest[i].of \in to + 1 .. upto
             /\ \A j \in 1 .. m : rest[i].of < u[j].of
    <2>1. n \in 1 .. n /\ n \in 1 .. n + m /\ rest[n].char = Newline
        BY <1>1, <1>2
    <2>2. PICK l : l = rest[n].of
        OBVIOUS
    <2>3. l \in to + 1 .. upto + 1 /\ (l = upto + 1 => upto + 1 \in par)
        BY <1>3, <1>4, <2>1, <2>2
    <2>4. l \notin par
        BY <1>3, <1>4, <2>1, <2>2, NewlineWhole
    <2>5. l \in to + 1 .. upto
        BY <2>3, <2>4
    <2>6. PICK x : x = rest[i].of
        OBVIOUS
    <2>7. x = l \/ x < l
        <3>1. CASE i = n
            BY <2>2, <2>6, <3>1
        <3>2. CASE i < n
            <4>1. i \in 1 .. n + m /\ t[i].of = x /\ t[n].of = l
                BY <1>4, <2>1, <2>2, <2>6
            <4>2. QED
                BY <1>3, <2>1, <3>2, <4>1
        <3>3. QED
            BY <1>2, <3>1, <3>2
    <2>8. x \in to + 1 .. upto + 1
        BY <1>3, <1>4, <2>6
    <2>9. x \in to + 1 .. upto
        BY <2>5, <2>7, <2>8
    <2>10. ASSUME NEW j \in 1 .. m PROVE x < u[j].of
        <3>1. PICK y : y = u[j].of
            OBVIOUS
        <3>2. n < n + j /\ n + j \in 1 .. n + m
            BY <1>2
        <3>3. t[n].of = l /\ t[n + j].of = y
            BY <1>4, <2>1, <2>2, <3>1
        <3>4. l < y /\ y \in to + 1 .. upto + 1
            BY <1>3, <2>1, <2>4, <3>2, <3>3
        <3>5. x < y
            BY <2>5, <2>7, <2>8, <3>4
        <3>6. QED
            BY <3>1, <3>5
    <2>11. QED
        BY <2>6, <2>9, <2>10
<1>6. PICK lost2 : lost2 = lost \cup Numbers(rest)
    OBVIOUS
<1>7. \A x : x \in Numbers(rest) <=> \E i \in 1 .. n : x = rest[i].of
    BY <1>2 DEF Numbers
<1>8. ASSUME NEW j \in 1 .. m
      PROVE  /\ TrueTo(u[j], text, par)
             /\ u[j].of \in to + 1 .. upto + 1
             /\ u[j].of \notin lost2
             /\ u[j].of = upto + 1 => upto + 1 \in par
    <2>1. /\ TrueTo(u[j], text, par) /\ u[j].of \in to + 1 .. upto + 1 /\ u[j].of \notin lost
          /\ u[j].of = upto + 1 => upto + 1 \in par
        BY <1>3, <1>4
    <2>2. PICK y : y = u[j].of
        OBVIOUS
    <2>3. y \in Int /\ \A i \in 1 .. n : rest[i].of < y
        BY <1>5, <2>1, <2>2
    <2>4. \A i \in 1 .. n : rest[i].of # y
        <3> TAKE i \in 1 .. n
        <3>1. PICK x : x = rest[i].of
            OBVIOUS
        <3>2. x < y /\ x \in to + 1 .. upto
            BY <1>5, <2>3, <3>1
        <3>3. QED
            BY <2>3, <3>1, <3>2
    <2>5. QED
        BY <1>6, <1>7, <2>1, <2>2, <2>4
<1>9. InOrder(u, par)
    <2> SUFFICES ASSUME NEW j \in 1 .. m, NEW k \in 1 .. m, j < k
                 PROVE  u[j].of < u[k].of \/ (u[j].of = u[k].of /\ u[j].of \in par)
        BY <1>2 DEF InOrder
    <2>1. n + j < n + k
        BY <1>2
    <2>2. QED
        BY <1>3, <1>4, <2>1
<1>10. \A k \in to + 1 .. upto : k \in lost2 \/ \E j \in 1 .. m : u[j].of = k
    <2> SUFFICES ASSUME NEW k \in to + 1 .. upto, k \notin lost2 PROVE \E j \in 1 .. m : u[j].of = k
        OBVIOUS
    <2>1. PICK j \in 1 .. n + m : t[j].of = k
        BY <1>3, <1>6
    <2>2. j \notin 1 .. n
        BY <1>4, <1>6, <1>7, <2>1
    <2>3. j - n \in 1 .. m /\ n + (j - n) = j
        BY <1>2, <2>2
    <2>4. u[j - n].of = k
        BY <1>4, <2>1, <2>3
    <2>5. QED
        BY <2>3, <2>4
<1>11. Run(u, text, par, lost2, to, upto)
    BY <1>2, <1>8, <1>9, <1>10 DEF Run
<1>12. QED
    BY <1>5, <1>6, <1>7, <1>11

-----------------------------------------------------------------------------
(* The steps.                                                               *)

\* Where the numbers of the state lie.
LEMMA TextBounds ==
    ASSUME TextTypes
    PROVE  /\ Len(sent) \in Nat /\ taken \in Nat /\ dealt \in Nat
           /\ inside \in Nat /\ fresh \in Nat /\ fresh <= inside
           /\ dealt <= taken /\ taken <= Len(sent)
           /\ \A n \in 1 .. Len(sent) : sent[n] \in Sendable
<1>1. Len(sent) \in Nat
    BY LenProperties DEF TextTypes
<1>2. taken \in Nat /\ dealt \in Nat /\ dealt <= taken /\ taken <= Len(sent)
    BY <1>1 DEF TextTypes
<1>3. inside \in Nat /\ fresh \in Nat /\ fresh <= inside
    BY DEF TextTypes
<1>4. \A n \in 1 .. Len(sent) : sent[n] \in Sendable
    BY ElementOfSeq DEF TextTypes
<1>5. QED
    BY <1>1, <1>2, <1>3, <1>4

\* A character has one byte to four.
LEMMA BytesType == \A c : Bytes(c) \in 1 .. 4
BY DEF Bytes

\* The phone has sent nothing.
LEMMA TextInitInv == TextInit => TextInv
<1> SUFFICES ASSUME TextInit PROVE TextInv
    OBVIOUS
<1>1. /\ sent = <<>> /\ taken = 0 /\ inside = 0 /\ fresh = 0 /\ phase = "waiting" /\ cut = FALSE
      /\ builder = <<>> /\ batch = <<>> /\ lines = <<>> /\ dealt = 0 /\ parted = {} /\ gone = {}
    BY DEF TextInit
<1>2. PICK e : e = <<>>
    OBVIOUS
<1>3. /\ e \in Seq(Sendable) /\ e \in Seq(Pieces) /\ e \in Seq(Seq(Pieces))
      /\ Len(e) = 0 /\ DOMAIN e = {}
    <2>1. DOMAIN e = 1 .. 0
        BY <1>2, EmptySeq, LenProperties
    <2>2. QED
        BY <1>2, <2>1, EmptySeq
<1>4. TextTypes
    <2>1. /\ sent \in Seq(Sendable) /\ builder \in Seq(Pieces) /\ batch \in Seq(Pieces)
          /\ lines \in Seq(Seq(Pieces)) /\ Len(sent) = 0
        BY <1>1, <1>2, <1>3
    <2>2. /\ taken \in 0 .. 0 /\ inside \in Nat /\ fresh \in 0 .. inside /\ dealt \in 0 .. taken
          /\ phase \in {"waiting", "toKString", "forEach"}
        BY <1>1
    <2>3. parted \in SUBSET (1 .. taken + 1) /\ gone \in SUBSET (1 .. taken)
        BY <1>1
    <2>4. cut \in BOOLEAN
        BY <1>1
    <2>5. QED
        BY <2>1, <2>2, <2>3, <2>4 DEF TextTypes
<1>5. InsideInv
    BY <1>1 DEF InsideInv, OnlyWide
<1>6. PhaseInv
    BY <1>1, <1>2, <1>3 DEF PhaseInv
<1>7. e \o e = e
    BY <1>2, <1>3, ConcatEmptySeq
<1>8. \A t, p, g : Run(e, t, p, g, 0, 0) /\ Handed(e, t, p, g, 0)
    BY <1>2, <1>3 DEF Run, Handed, InOrder
<1>9. QED
    BY <1>1, <1>2, <1>4, <1>5, <1>6, <1>7, <1>8 DEF TextInv

\* What the phone sends comes behind all that has been read.
LEMMA SendCharacterInv == TextInv /\ SendCharacter => TextInv'
<1> SUFFICES ASSUME TextInv, SendCharacter PROVE TextInv'
    OBVIOUS
<1> TextTypes /\ InsideInv /\ PhaseInv
    BY DEF TextInv
<1>1. PICK c \in Sendable : sent' = Append(sent, c)
    BY DEF SendCharacter, Sendable
<1>2. /\ taken' = taken /\ inside' = inside /\ fresh' = fresh /\ phase' = phase /\ cut' = cut
      /\ builder' = builder /\ batch' = batch /\ lines' = lines /\ dealt' = dealt
      /\ parted' = parted /\ gone' = gone
    BY DEF SendCharacter
<1>3. PICK text, n : text = Append(sent, c) /\ n = Len(sent)
    OBVIOUS
<1>4. /\ text \in Seq(Sendable) /\ Len(text) = n + 1 /\ n \in Nat
      /\ \A k \in 1 .. n : text[k] = sent[k]
    BY <1>1, <1>3, AppendProperties, TextBounds DEF TextTypes
<1>5. /\ taken \in Nat /\ dealt \in Nat /\ dealt <= taken /\ taken <= n
      /\ inside \in Nat /\ fresh \in Nat
    BY <1>3, TextBounds
<1>6. \A k \in parted : k \in 1 .. n
    <2>1. \A k \in parted : k \in 1 .. taken \/ (k = taken + 1 /\ inside # 0)
        <3>1. taken + 1 \in parted => inside # 0
            BY <1>5 DEF InsideInv, TextTypes
        <3>2. QED
            BY <1>5, <3>1 DEF TextTypes
    <2>2. inside # 0 => taken < n
        BY <1>3 DEF InsideInv
    <2>3. QED
        BY <1>4, <1>5, <2>1, <2>2
<1>7. TextTypes'
    <2>1. taken \in 0 .. n + 1
        BY <1>4, <1>5
    <2>2. QED
        BY <1>1, <1>2, <1>3, <1>4, <2>1 DEF TextTypes
<1>8. InsideInv'
    <2>1. inside # 0 => taken < n + 1 /\ inside < Bytes(text[taken + 1])
        <3>1. inside # 0 => taken < n /\ inside < Bytes(sent[taken + 1])
            BY <1>3 DEF InsideInv
        <3>2. taken < n => taken + 1 \in 1 .. n /\ taken < n + 1
            BY <1>4, <1>5
        <3>3. QED
            BY <1>4, <3>1, <3>2
    <2>2. OnlyWide(text, parted)
        BY <1>4, <1>6 DEF InsideInv, OnlyWide
    <2>3. QED
        BY <1>1, <1>2, <1>3, <1>4, <2>1, <2>2 DEF InsideInv
<1>9. PhaseInv'
    BY <1>2 DEF PhaseInv
<1>10. PICK s : s = batch \o builder
    OBVIOUS
<1>11. Run(s, text, parted, gone, dealt, taken)
    <2>1. Run(s, sent, parted, gone, dealt, taken)
        BY <1>10 DEF TextInv
    <2>2. PICK x : x = text[taken + 1]
        OBVIOUS
    <2>3. CASE taken < n
        <3>1. \A k \in dealt + 1 .. taken + 1 : text[k] = sent[k]
            BY <1>4, <1>5, <2>3
        <3>2. QED
            BY <1>5, <2>1, <3>1, RunKept
    <2>4. CASE taken = n
        <3>1. taken + 1 \notin parted
            BY <1>4, <1>6, <2>4
        <3>2. \A k \in dealt + 1 .. taken : text[k] = sent[k]
            BY <1>4, <1>5, <2>4
        <3>3. \A i \in DOMAIN s : /\ s[i].of \in dealt + 1 .. taken
                                  /\ s[i].of \in dealt + 1 .. taken + 1
                                  /\ s[i].of \notin gone
                                  /\ TrueTo(s[i], sent, parted)
            <4> SUFFICES ASSUME NEW i \in DOMAIN s
                         PROVE  /\ s[i].of \in dealt + 1 .. taken
                                /\ s[i].of \in dealt + 1 .. taken + 1
                                /\ s[i].of \notin gone
                                /\ TrueTo(s[i], sent, parted)
                OBVIOUS
            <4>1. PICK y : y = s[i].of
                OBVIOUS
            <4>2. y \in dealt + 1 .. taken + 1 /\ y # taken + 1 /\ y \notin gone /\ TrueTo(s[i], sent, parted)
                BY <2>1, <3>1, <4>1 DEF Run
            <4>3. y \in dealt + 1 .. taken
                BY <1>5, <4>2
            <4>4. QED
                BY <4>1, <4>2, <4>3
        <3>4. \A i \in DOMAIN s : TrueTo(s[i], text, parted)
            BY <3>2, <3>3 DEF TrueTo
        <3>5. QED
            BY <2>1, <3>1, <3>3, <3>4 DEF Run
    <2>5. QED
        BY <1>4, <1>5, <2>3, <2>4
<1>12. Handed(lines, text, parted, gone, dealt)
    <2>1. \A k \in 1 .. dealt : text[k] = sent[k]
        BY <1>4, <1>5
    <2>2. lines \in Seq(Seq(Pieces)) /\ Handed(lines, sent, parted, gone, dealt)
        BY DEF TextTypes, TextInv
    <2>3. QED
        BY <1>5, <2>1, <2>2, HandedKept
<1>13. Run(batch \o builder, sent, parted, gone, dealt, taken)'
    BY <1>1, <1>2, <1>3, <1>10, <1>11
<1>14. Handed(lines, sent, parted, gone, dealt)'
    BY <1>1, <1>2, <1>3, <1>12
<1>15. QED
    BY <1>7, <1>8, <1>9, <1>13, <1>14 DEF TextInv

\* A character has been read: what is decoded of it is behind the others, or it
\* is lost.
LEMMA CharacterTaken ==
    ASSUME TextInv, taken < Len(sent), batch = <<>>,
           taken' = taken + 1, inside' = 0, fresh' = 0, cut' \in BOOLEAN, phase' = "toKString",
           UNCHANGED <<sent, batch, lines, dealt, parted>>,
           builder' \in Seq(Pieces), gone' \in {gone, gone \cup {taken + 1}},
           Run(builder', sent, parted, gone', dealt, taken + 1)
    PROVE  TextInv'
<1> TextTypes /\ InsideInv
    BY DEF TextInv
<1>1. /\ Len(sent) \in Nat /\ taken \in Nat /\ dealt \in Nat /\ dealt <= taken
    BY TextBounds
<1>2. /\ parted \in SUBSET (1 .. taken + 1) /\ taken + 2 \notin parted
      /\ parted \in SUBSET (1 .. (taken + 1) + 1)
    <2>1. parted \in SUBSET (1 .. taken + 1) /\ 1 .. taken + 1 \subseteq 1 .. (taken + 1) + 1
        BY <1>1 DEF TextTypes
    <2>2. taken + 2 \notin 1 .. taken + 1
        BY <1>1
    <2>3. QED
        BY <2>1, <2>2
<1>3. gone' \in SUBSET (1 .. taken + 1)
    <2>1. gone \in SUBSET (1 .. taken) /\ 1 .. taken \subseteq 1 .. taken + 1 /\ taken + 1 \in 1 .. taken + 1
        BY <1>1 DEF TextTypes
    <2>2. QED
        BY <2>1
<1>4. TextTypes'
    <2>1. /\ taken + 1 \in 0 .. Len(sent) /\ dealt \in 0 .. taken + 1 /\ 0 \in Nat /\ 0 \in 0 .. 0
        BY <1>1
    <2>2. sent \in Seq(Sendable) /\ batch \in Seq(Pieces) /\ lines \in Seq(Seq(Pieces))
        BY DEF TextTypes
    <2>3. QED
        BY <1>2, <1>3, <2>1, <2>2 DEF TextTypes
<1>5. InsideInv'
    <2>1. (taken + 1) + 1 = taken + 2
        BY <1>1
    <2>2. QED
        BY <1>2, <2>1 DEF InsideInv
<1>6. PhaseInv'
    BY DEF PhaseInv
<1>7. batch' \o builder' = builder'
    BY ConcatEmptySeq
<1>8. Handed(lines, sent, parted, gone', dealt)
    <2>1. \A n \in 1 .. dealt : n \in gone' <=> n \in gone
        BY <1>1
    <2>2. lines \in Seq(Seq(Pieces)) /\ Handed(lines, sent, parted, gone, dealt)
        BY DEF TextTypes, TextInv
    <2>3. QED
        BY <1>1, <2>1, <2>2, HandedKept
<1>9. QED
    BY <1>4, <1>5, <1>6, <1>7, <1>8 DEF TextInv

\* A byte is decoded.
LEMMA DecodeByteInv == TextInv /\ DecodeByte => TextInv'
<1> SUFFICES ASSUME TextInv, DecodeByte PROVE TextInv'
    OBVIOUS
<1> TextTypes /\ InsideInv /\ PhaseInv
    BY DEF TextInv
<1>1. /\ taken < Len(sent) /\ phase' = "toKString" /\ batch = <<>>
      /\ UNCHANGED <<sent, batch, lines, dealt, parted>>
    BY DEF DecodeByte, PhaseInv
<1>2. /\ Len(sent) \in Nat /\ taken \in Nat /\ dealt \in Nat /\ dealt <= taken
      /\ inside \in Nat /\ fresh \in Nat /\ fresh <= inside
      /\ taken + 1 \in 1 .. Len(sent) /\ taken + 1 \in Nat \ {0}
      /\ sent[taken + 1] \in Sendable
    <2>1. /\ Len(sent) \in Nat /\ taken \in Nat /\ dealt \in Nat /\ dealt <= taken
          /\ inside \in Nat /\ fresh \in Nat /\ fresh <= inside
          /\ \A n \in 1 .. Len(sent) : sent[n] \in Sendable
        BY TextBounds
    <2>2. taken + 1 \in 1 .. Len(sent) /\ taken + 1 \in Nat \ {0}
        BY <1>1, <2>1
    <2>3. QED
        BY <2>1, <2>2
<1>3. builder \in Seq(Pieces) /\ Run(builder, sent, parted, gone, dealt, taken)
    <2>1. batch \o builder = builder /\ builder \in Seq(Pieces)
        BY <1>1, ConcatEmptySeq DEF TextTypes
    <2>2. QED
        BY <2>1 DEF TextInv
<1>4. taken + 1 \notin gone
    BY <1>2 DEF TextTypes
<1>5. CASE DecodePart
    <2>1. /\ inside + 1 < Bytes(sent[taken + 1])
          /\ inside' = inside + 1 /\ fresh' = fresh + 1
          /\ taken' = taken /\ cut' = cut /\ builder' = builder /\ gone' = gone
        BY <1>5 DEF DecodePart
    <2>2. TextTypes'
        <3>1. inside + 1 \in Nat /\ fresh + 1 \in 0 .. inside + 1
            BY <1>2
        <3>2. QED
            BY <1>1, <2>1, <3>1 DEF TextTypes
    <2>3. InsideInv'
        <3>1. fresh + 1 = inside + 1 <=> fresh = inside
            BY <1>2
        <3>2. QED
            BY <1>1, <2>1, <3>1 DEF InsideInv
    <2>4. PhaseInv'
        BY <1>1 DEF PhaseInv
    <2>5. QED
        BY <1>1, <2>1, <2>2, <2>3, <2>4 DEF TextInv
<1>6. CASE SkipCharacter
    <2>1. /\ inside + 1 = Bytes(sent[taken + 1])
          /\ cut \/ sent[taken + 1] = Nul
          /\ cut' = TRUE /\ gone' = gone \cup {taken + 1}
          /\ taken' = taken + 1 /\ inside' = 0 /\ fresh' = 0 /\ builder' = builder
        BY <1>6 DEF SkipCharacter
    <2>2. fresh = inside
        <3>1. Bytes(Nul) = 1
            BY DEF Bytes, Nul
        <3>2. sent[taken + 1] = Nul => inside = 0
            BY <1>2, <2>1, <3>1
        <3>3. QED
            BY <1>2, <2>1, <3>2 DEF InsideInv
    <2>3. taken + 1 \notin parted
        BY <2>2 DEF InsideInv
    <2>4. Run(builder, sent, parted, gone \cup {taken + 1}, dealt, taken + 1)
        BY <1>2, <1>3, <2>3, RunSkip
    <2>5. QED
        BY <1>1, <1>3, <2>1, <2>4, CharacterTaken
<1>7. CASE DecodeCharacter
    <2>1. PICK pieces \in IF fresh = inside THEN {<<Piece(sent[taken + 1], taken + 1)>>}
                                            ELSE BadPieces(taken + 1, fresh + 1) :
              builder' = builder \o pieces
        BY <1>7 DEF DecodeCharacter
    <2>2. taken' = taken + 1 /\ inside' = 0 /\ fresh' = 0 /\ cut' = cut /\ gone' = gone
        BY <1>7 DEF DecodeCharacter
    <2>3. /\ pieces \in Seq(Pieces) /\ pieces # <<>>
          /\ \A i \in DOMAIN pieces : TrueTo(pieces[i], sent, parted) /\ pieces[i].of = taken + 1
          /\ taken + 1 \in parted \/ Len(pieces) = 1
        <3>1. CASE fresh = inside
            <4>1. PICK p : p = Piece(sent[taken + 1], taken + 1)
                OBVIOUS
            <4>2. p \in Pieces /\ p.char = sent[taken + 1] /\ p.of = taken + 1
                BY <1>2, <4>1 DEF Piece, Pieces
            <4>3. pieces = <<p>>
                BY <2>1, <3>1, <4>1
            <4>4. pieces \in Seq(Pieces) /\ Len(pieces) = 1 /\ pieces[1] = p
                BY <4>2, <4>3, PieceSeqs
            <4>5. pieces # <<>> /\ DOMAIN pieces = {1}
                BY <4>4, PieceLens
            <4>6. taken + 1 \notin parted
                BY <3>1 DEF InsideInv
            <4>7. TrueTo(p, sent, parted)
                BY <4>2, <4>6 DEF TrueTo
            <4>8. QED
                BY <4>2, <4>4, <4>5, <4>7
        <3>2. CASE fresh # inside
            <4>1. pieces \in BadPieces(taken + 1, fresh + 1) /\ fresh + 1 \in Nat
                BY <1>2, <2>1, <3>2
            <4>2. /\ pieces \in Seq(Pieces) /\ pieces # <<>>
                  /\ \A i \in DOMAIN pieces : pieces[i].char = Bad /\ pieces[i].of = taken + 1
                BY <1>2, <4>1, PieceSeqs
            <4>3. taken + 1 \in parted
                BY <3>2 DEF InsideInv
            <4>4. QED
                BY <4>2, <4>3 DEF TrueTo
        <3>3. QED
            BY <3>1, <3>2
    <2>4. /\ builder \o pieces \in Seq(Pieces)
          /\ Run(builder \o pieces, sent, parted, gone, dealt, taken + 1)
        <3>1. taken + 1 \in {taken, taken + 1} /\ taken + 1 # taken
            BY <1>2
        <3>2. QED
            BY <1>2, <1>3, <1>4, <2>3, <3>1, RunConcat
    <2>5. cut' \in BOOLEAN
        BY <2>2 DEF TextTypes
    <2>6. QED
        BY <1>1, <2>1, <2>2, <2>4, <2>5, CharacterTaken
<1>8. QED
    BY <1>5, <1>6, <1>7 DEF DecodeByte

\* A read has ended: within a character, or not.
LEMMA DecodedInv ==
    ASSUME TextInv, batch = <<>>,
           NEW par, par = (IF fresh > 0 THEN parted \cup {taken + 1} ELSE parted),
           NEW text \in Decoded
    PROVE  /\ text \in Seq(Pieces)
           /\ Run(text, sent, par, gone, dealt, taken)
           /\ par \in SUBSET (1 .. taken + 1)
           /\ OnlyWide(sent, par)
           /\ taken + 1 \in par <=> inside # 0
           /\ \A n \in 1 .. taken : n \in par <=> n \in parted
<1> TextTypes /\ InsideInv
    BY DEF TextInv
<1>1. /\ taken \in Nat /\ dealt \in Nat /\ dealt <= taken
      /\ inside \in Nat /\ fresh \in Nat /\ fresh <= inside /\ taken + 1 \in Nat \ {0}
    BY TextBounds
<1>2. builder \in Seq(Pieces) /\ Run(builder, sent, parted, gone, dealt, taken)
    <2>1. batch \o builder = builder /\ builder \in Seq(Pieces)
        BY ConcatEmptySeq DEF TextTypes
    <2>2. QED
        BY <2>1 DEF TextInv
<1>3. /\ par \in SUBSET (1 .. taken + 1)
      /\ \A n \in 1 .. taken : n \in par <=> n \in parted
      /\ \A n \in dealt + 1 .. taken : n \in par <=> n \in parted
      /\ taken + 1 \in parted => taken + 1 \in par
    <2>1. taken + 1 \in 1 .. taken + 1 /\ \A n \in 1 .. taken : n # taken + 1
        BY <1>1
    <2>2. \A n \in dealt + 1 .. taken : n \in 1 .. taken
        BY <1>1
    <2>3. QED
        BY <2>1, <2>2 DEF TextTypes
<1>4. taken + 1 \in par <=> inside # 0
    BY <1>1 DEF InsideInv
<1>5. OnlyWide(sent, par)
    <2>1. inside # 0 => Bytes(sent[taken + 1]) # 1
        BY <1>1, BytesType DEF InsideInv
    <2>2. \A n \in par : n \in parted \/ (n = taken + 1 /\ inside # 0)
        BY <1>4
    <2>3. QED
        BY <2>1, <2>2 DEF InsideInv, OnlyWide
<1>6. Run(builder, sent, par, gone, dealt, taken)
    BY <1>1, <1>2, <1>3, RunKept
<1>7. CASE ~(fresh > 0 /\ ~cut)
    <2>1. text = builder
        BY <1>7 DEF Decoded
    <2>2. QED
        BY <1>2, <1>3, <1>4, <1>5, <1>6, <2>1
<1>8. CASE fresh > 0 /\ ~cut
    <2>1. PICK pieces \in BadPieces(taken + 1, fresh) : text = builder \o pieces
        BY <1>8 DEF Decoded
    <2>2. /\ pieces \in Seq(Pieces) /\ pieces # <<>>
          /\ \A i \in DOMAIN pieces : pieces[i].char = Bad /\ pieces[i].of = taken + 1
        BY <1>1, <2>1, PieceSeqs
    <2>3. taken + 1 \in par /\ taken + 1 \notin gone
        BY <1>1, <1>8 DEF TextTypes
    <2>4. \A i \in DOMAIN pieces : TrueTo(pieces[i], sent, par)
        BY <2>2, <2>3 DEF TrueTo
    <2>5. taken \in {taken, taken + 1}
        OBVIOUS
    <2>6. text \in Seq(Pieces) /\ Run(text, sent, par, gone, dealt, taken)
        BY <1>1, <1>2, <1>6, <2>1, <2>2, <2>3, <2>4, <2>5, RunConcat
    <2>7. QED
        BY <1>3, <1>4, <1>5, <2>6
<1>9. QED
    BY <1>7, <1>8

\* The first a pieces, and those behind them.
LEMMA SubPieces ==
    ASSUME NEW s \in Seq(Pieces), NEW a \in 0 .. Len(s)
    PROVE  /\ SubSeq(s, 1, a) \in Seq(Pieces) /\ Len(SubSeq(s, 1, a)) = a
           /\ \A i \in 1 .. a : SubSeq(s, 1, a)[i] = s[i]
           /\ SubSeq(s, a + 1, Len(s)) \in Seq(Pieces) /\ Len(SubSeq(s, a + 1, Len(s))) = Len(s) - a
           /\ \A i \in 1 .. Len(s) - a : SubSeq(s, a + 1, Len(s))[i] = s[a + i]
           /\ SubSeq(s, 1, a) \o SubSeq(s, a + 1, Len(s)) = s
<1>1. PICK n : n = Len(s)
    OBVIOUS
<1>2. n \in Nat /\ a \in Nat /\ a <= n /\ \A i \in 1 .. n : s[i] \in Pieces
    BY <1>1, PieceLens
<1>3. SubSeq(s, 1, a) \in Seq(Pieces) /\ Len(SubSeq(s, 1, a)) = a /\ \A i \in 1 .. a : SubSeq(s, 1, a)[i] = s[i]
    <2>1. 1 \in Int /\ a \in Int /\ \A i \in 1 .. a : s[i] \in Pieces
        BY <1>2
    <2>2. /\ SubSeq(s, 1, a) \in Seq(Pieces)
          /\ Len(SubSeq(s, 1, a)) = IF 1 <= a THEN a - 1 + 1 ELSE 0
          /\ \A i \in 1 .. a - 1 + 1 : SubSeq(s, 1, a)[i] = s[1 + i - 1]
        BY <2>1, SubSeqProperties
    <2>3. \A i \in 1 .. a : 1 + i - 1 = i
        BY <1>2
    <2>4. (IF 1 <= a THEN a - 1 + 1 ELSE 0) = a /\ a - 1 + 1 = a
        BY <1>2
    <2>5. QED
        BY <2>2, <2>3, <2>4
<1>4. /\ SubSeq(s, a + 1, n) \in Seq(Pieces) /\ Len(SubSeq(s, a + 1, n)) = n - a
      /\ \A i \in 1 .. n - a : SubSeq(s, a + 1, n)[i] = s[a + i]
    <2>1. a + 1 \in Int /\ n \in Int /\ \A i \in a + 1 .. n : s[i] \in Pieces
        BY <1>2
    <2>2. /\ SubSeq(s, a + 1, n) \in Seq(Pieces)
          /\ Len(SubSeq(s, a + 1, n)) = IF a + 1 <= n THEN n - (a + 1) + 1 ELSE 0
          /\ \A i \in 1 .. n - (a + 1) + 1 : SubSeq(s, a + 1, n)[i] = s[(a + 1) + i - 1]
        BY <2>1, SubSeqProperties
    <2>3. \A i \in 1 .. n - a : (a + 1) + i - 1 = a + i
        BY <1>2
    <2>4. (IF a + 1 <= n THEN n - (a + 1) + 1 ELSE 0) = n - a /\ n - (a + 1) + 1 = n - a
        BY <1>2
    <2>5. QED
        BY <2>2, <2>3, <2>4
<1>5. SubSeq(s, 1, a) \o SubSeq(s, a + 1, n) = s
    <2>1. 1 \in 1 .. n + 1 /\ a \in 1 - 1 .. n /\ n \in a .. n
        BY <1>2
    <2>2. SubSeq(s, 1, a) \o SubSeq(s, a + 1, n) = SubSeq(s, 1, n)
        BY <1>1, <2>1, ConcatAdjacentSubSeq
    <2>3. SubSeq(s, 1, n) = s
        BY <1>1, SubSeqFull
    <2>4. QED
        BY <2>2, <2>3
<1>6. QED
    BY <1>1, <1>3, <1>4, <1>5

\* The lines that are complete are cut off.
LEMMA EndReadInv == TextInv /\ EndRead => TextInv'
<1> SUFFICES ASSUME TextInv, EndRead PROVE TextInv'
    OBVIOUS
<1> TextTypes /\ InsideInv
    BY DEF TextInv
<1>1. PICK d \in Decoded :
          /\ batch' = SubSeq(d, 1, LastDelimiter(d))
          /\ builder' = SubSeq(d, LastDelimiter(d) + 1, Len(d))
          /\ phase' = IF LastDelimiter(d) = 0 THEN "waiting" ELSE "forEach"
    BY DEF EndRead
<1>2. PICK last, n, par : last = LastDelimiter(d) /\ n = Len(d) /\ par = parted'
    OBVIOUS
<1>3. /\ batch = <<>>
      /\ fresh' = 0 /\ cut' = FALSE /\ sent' = sent /\ taken' = taken /\ inside' = inside
      /\ lines' = lines /\ dealt' = dealt /\ gone' = gone
      /\ par = IF fresh > 0 THEN parted \cup {taken + 1} ELSE parted
    BY <1>2 DEF EndRead, TextInv, PhaseInv
<1>4. /\ d \in Seq(Pieces)
      /\ Run(d, sent, par, gone, dealt, taken)
      /\ par \in SUBSET (1 .. taken + 1)
      /\ OnlyWide(sent, par)
      /\ taken + 1 \in par <=> inside # 0
      /\ \A k \in 1 .. taken : k \in par <=> k \in parted
    BY <1>3, DecodedInv
<1>5. /\ n \in Nat /\ last \in 0 .. n /\ last \in Nat /\ last <= n
      /\ last # 0 => d[last].char = Newline
      /\ \A i \in last + 1 .. n : d[i].char # Newline
    <2>1. n \in Nat
        BY <1>2, <1>4, PieceLens
    <2>2. /\ last \in 0 .. n
          /\ last # 0 => d[last].char = Newline
          /\ \A i \in last + 1 .. n : d[i].char # Newline
        BY <1>2, <1>4, LastDelimiterIs
    <2>3. QED
        BY <2>1, <2>2
<1>6. PICK b, u : b = batch' /\ u = builder'
    OBVIOUS
<1>7. /\ b \in Seq(Pieces) /\ Len(b) = last /\ \A i \in 1 .. last : b[i] = d[i]
      /\ u \in Seq(Pieces) /\ Len(u) = n - last /\ \A i \in 1 .. n - last : u[i] = d[last + i]
      /\ b \o u = d
    BY <1>1, <1>2, <1>4, <1>5, <1>6, SubPieces
<1>8. TextTypes'
    <2>1. 0 \in 0 .. inside /\ inside \in Nat
        BY DEF TextTypes
    <2>2. phase' \in {"waiting", "toKString", "forEach"}
        BY <1>1
    <2>3. QED
        BY <1>2, <1>3, <1>4, <1>6, <1>7, <2>1, <2>2 DEF TextTypes
<1>9. InsideInv'
    BY <1>2, <1>3, <1>4 DEF InsideInv
<1>10. PhaseInv'
    <2>1. last = 0 => b = <<>>
        BY <1>7, PieceLens
    <2>2. last # 0 => b # <<>> /\ b[Len(b)].char = Newline
        BY <1>5, <1>7, PieceLens
    <2>3. \A i \in DOMAIN u : u[i].char # Newline
        <3>1. DOMAIN u = 1 .. n - last
            BY <1>7, PieceLens
        <3>2. \A i \in 1 .. n - last : last + i \in last + 1 .. n
            BY <1>5
        <3>3. QED
            BY <1>5, <1>7, <3>1, <3>2
    <2>4. phase' = IF last = 0 THEN "waiting" ELSE "forEach"
        BY <1>1, <1>2
    <2>5. QED
        BY <1>6, <2>1, <2>2, <2>3, <2>4 DEF PhaseInv
<1>11. Run(batch \o builder, sent, parted, gone, dealt, taken)'
    BY <1>2, <1>3, <1>4, <1>6, <1>7
<1>12. Handed(lines, sent, parted, gone, dealt)'
    <2>1. dealt \in Nat /\ taken \in Nat /\ dealt <= taken
        BY TextBounds
    <2>2. \A k \in 1 .. dealt : k \in 1 .. taken
        BY <2>1
    <2>3. lines \in Seq(Seq(Pieces)) /\ Handed(lines, sent, parted, gone, dealt)
        BY DEF TextTypes, TextInv
    <2>4. Handed(lines, sent, par, gone, dealt)
        BY <1>4, <2>1, <2>2, <2>3, HandedKept
    <2>5. QED
        BY <1>2, <1>3, <2>4
<1>13. QED
    BY <1>8, <1>9, <1>10, <1>11, <1>12 DEF TextInv

\* A line, the newline behind it, and the rest of the batch.
Splits(b, i, line, rest) ==
    /\ i \in 1 .. Len(b) /\ b[i].char = Newline /\ \A j \in 1 .. i - 1 : b[j].char # Newline
    /\ line = SubSeq(b, 1, i - 1)
    /\ rest = SubSeq(b, i + 1, Len(b))

\* The same in front of the builder.
SplitsBefore(b, u, i, line, rest) ==
    /\ line \in Seq(Pieces) /\ rest \in Seq(Pieces)
    /\ rest # <<>> => rest[Len(rest)] = b[Len(b)]
    /\ b \o u \in Seq(Pieces) /\ rest \o u \in Seq(Pieces)
    /\ (b \o u)[i] = b[i]
    /\ CutOff(b \o u, i, line, rest \o u)

\* What is behind a line of the batch, and the builder behind that.
LEMMA BatchCut ==
    ASSUME NEW b \in Seq(Pieces), NEW u \in Seq(Pieces), NEW i, NEW line, NEW rest, Splits(b, i, line, rest)
    PROVE  SplitsBefore(b, u, i, line, rest)
<1>0. /\ i \in 1 .. Len(b) /\ b[i].char = Newline /\ \A j \in 1 .. i - 1 : b[j].char # Newline
      /\ line = SubSeq(b, 1, i - 1) /\ rest = SubSeq(b, i + 1, Len(b))
    BY DEF Splits
<1>1. PICK n, m, s, t : n = Len(b) /\ m = Len(u) /\ s = b \o u /\ t = rest \o u
    OBVIOUS
<1>2. n \in Nat /\ m \in Nat /\ i \in Nat /\ i \in 1 .. n /\ i - 1 \in 0 .. n /\ i - 1 \in Nat /\ i \in 0 .. n
    <2>1. n \in Nat /\ m \in Nat /\ i \in 1 .. n
        BY <1>0, <1>1, PieceLens
    <2>2. QED
        BY <2>1
<1>3. line \in Seq(Pieces) /\ Len(line) = i - 1 /\ \A k \in 1 .. i - 1 : line[k] = b[k]
    BY <1>0, <1>1, <1>2, SubPieces
<1>4. rest \in Seq(Pieces) /\ Len(rest) = n - i /\ \A k \in 1 .. n - i : rest[k] = b[i + k]
    BY <1>0, <1>1, <1>2, SubPieces
<1>5. rest = <<>> <=> i = n
    <2>1. (rest = <<>>) <=> (Len(rest) = 0)
        BY <1>4, PieceLens
    <2>2. n - i = 0 <=> i = n
        BY <1>2
    <2>3. QED
        BY <1>4, <2>1, <2>2
<1>6. rest # <<>> => rest[Len(rest)] = b[n]
    <2>1. i # n => n - i \in 1 .. n - i /\ i + (n - i) = n
        BY <1>2
    <2>2. QED
        BY <1>4, <1>5, <2>1
<1>7. /\ s \in Seq(Pieces) /\ Len(s) = n + m
      /\ \A k \in 1 .. n + m : s[k] = IF k <= n THEN b[k] ELSE u[k - n]
    BY <1>1, ConcatProperties
<1>8. /\ t \in Seq(Pieces) /\ Len(t) = n - i + m
      /\ \A k \in 1 .. n - i + m : t[k] = IF k <= n - i THEN rest[k] ELSE u[k - (n - i)]
    <2>1. PICK l : l = n - i
        OBVIOUS
    <2>2. l \in Nat /\ Len(rest) = l
        BY <1>2, <1>4, <2>1
    <2>3. /\ rest \o u \in Seq(Pieces) /\ Len(rest \o u) = l + m
          /\ \A k \in 1 .. l + m : (rest \o u)[k] = IF k <= l THEN rest[k] ELSE u[k - l]
        BY <1>1, <1>4, <2>2, ConcatProperties
    <2>4. QED
        BY <1>1, <2>1, <2>3
<1>9. i \in 1 .. n + m /\ s[i] = b[i] /\ \A k \in 1 .. i - 1 : s[k] = b[k]
    <2>1. i \in 1 .. n + m /\ i <= n /\ \A k \in 1 .. i - 1 : k \in 1 .. n + m /\ k <= n
        BY <1>2
    <2>2. QED
        BY <1>7, <2>1
<1>10. (n + m) - i = n - i + m
    BY <1>2
<1>11. ASSUME NEW k \in 1 .. n - i + m PROVE t[k] = s[i + k]
    <2>1. i + k \in 1 .. n + m /\ (k <= n - i <=> i + k <= n) /\ k - (n - i) = (i + k) - n
        BY <1>2
    <2>2. CASE k <= n - i
        <3>1. k \in 1 .. n - i /\ i + k <= n
            BY <1>2, <2>1, <2>2
        <3>2. rest[k] = b[i + k]
            BY <1>4, <3>1
        <3>3. t[k] = rest[k] /\ s[i + k] = b[i + k]
            BY <1>7, <1>8, <2>1, <2>2, <3>1
        <3>4. QED
            BY <3>2, <3>3
    <2>3. CASE ~(k <= n - i)
        <3>1. t[k] = u[k - (n - i)] /\ s[i + k] = u[(i + k) - n]
            BY <1>7, <1>8, <2>1, <2>3
        <3>2. QED
            BY <2>1, <3>1
    <2>4. QED
        BY <2>2, <2>3
<1>12. CutOff(s, i, line, t)
    <2>1. i \in 1 .. Len(s) /\ s[i].char = Newline /\ Len(line) = i - 1
        BY <1>0, <1>3, <1>7, <1>9
    <2>2. \A j \in 1 .. i - 1 : line[j] = s[j] /\ s[j].char # Newline
        BY <1>0, <1>3, <1>9
    <2>3. Len(t) = Len(s) - i
        BY <1>7, <1>8, <1>10
    <2>4. \A k \in 1 .. Len(s) - i : t[k] = s[i + k]
        BY <1>7, <1>10, <1>11
    <2>5. QED
        BY <2>1, <2>2, <2>3, <2>4 DEF CutOff
<1>13. QED
    BY <1>1, <1>3, <1>4, <1>6, <1>7, <1>8, <1>9, <1>12 DEF SplitsBefore

\* forEach gets to the next line.
LEMMA NextLineInv == TextInv /\ NextLine => TextInv'
<1> SUFFICES ASSUME TextInv, NextLine PROVE TextInv'
    OBVIOUS
<1> TextTypes /\ InsideInv /\ PhaseInv
    BY DEF TextInv
<1>1. PICK i \in DOMAIN batch :
          /\ batch[i].char = Newline
          /\ \A j \in 1 .. i - 1 : batch[j].char # Newline
          /\ dealt' = batch[i].of
          /\ lines' = LinesAfter(lines, SubSeq(batch, 1, i - 1))
          /\ \/ /\ batch' = SubSeq(batch, i + 1, Len(batch))
                /\ phase' = IF SubSeq(batch, i + 1, Len(batch)) = <<>> THEN "waiting" ELSE "forEach"
                /\ gone' = gone
             \/ /\ batch' = <<>> /\ phase' = "waiting"
                /\ gone' = gone \cup Numbers(SubSeq(batch, i + 1, Len(batch)))
    BY DEF NextLine, LinesAfter
<1>2. /\ phase = "forEach" /\ sent' = sent /\ taken' = taken /\ inside' = inside /\ fresh' = fresh
      /\ cut' = cut /\ builder' = builder /\ parted' = parted
    BY DEF NextLine
<1>3. PICK line, rest, s, t, to :
          /\ line = SubSeq(batch, 1, i - 1)
          /\ rest = SubSeq(batch, i + 1, Len(batch))
          /\ s = batch \o builder
          /\ t = rest \o builder
          /\ to = batch[i].of
    OBVIOUS
<1>4. /\ line \in Seq(Pieces) /\ rest \in Seq(Pieces)
      /\ rest # <<>> => rest[Len(rest)].char = Newline
      /\ s \in Seq(Pieces) /\ t \in Seq(Pieces)
      /\ s[i].of = to
      /\ CutOff(s, i, line, t)
    <2>1. batch \in Seq(Pieces) /\ builder \in Seq(Pieces) /\ i \in 1 .. Len(batch)
        BY PieceLens DEF TextTypes
    <2>2. batch[Len(batch)].char = Newline
        BY <1>2 DEF PhaseInv
    <2>3. batch[i].char = Newline /\ \A j \in 1 .. i - 1 : batch[j].char # Newline
        BY <1>1
    <2>4. /\ line \in Seq(Pieces) /\ rest \in Seq(Pieces)
          /\ rest # <<>> => rest[Len(rest)] = batch[Len(batch)]
          /\ s \in Seq(Pieces) /\ t \in Seq(Pieces)
          /\ s[i] = batch[i]
          /\ CutOff(s, i, line, t)
        <3>1. PICK b, u : b = batch /\ u = builder
            OBVIOUS
        <3>2. b \in Seq(Pieces) /\ u \in Seq(Pieces) /\ Splits(b, i, line, rest)
            BY <1>3, <2>1, <2>3, <3>1 DEF Splits
        <3>3. SplitsBefore(b, u, i, line, rest)
            BY <3>2, BatchCut
        <3>4. QED
            BY <1>3, <3>1, <3>3 DEF SplitsBefore
    <2>5. QED
        BY <1>3, <2>2, <2>4
<1>5. /\ dealt \in Nat /\ taken \in Nat /\ dealt <= taken
      /\ OnlyWide(sent, parted)
      /\ Run(s, sent, parted, gone, dealt, taken)
      /\ lines \in Seq(Seq(Pieces)) /\ Handed(lines, sent, parted, gone, dealt)
    BY <1>3, TextBounds DEF TextInv, InsideInv, TextTypes
<1>6. to \in dealt + 1 .. taken /\ Run(t, sent, parted, gone, to, taken)
    BY <1>4, <1>5, RunCut
<1>7. PICK ls : ls = LinesAfter(lines, line)
    OBVIOUS
<1>8. Handed(ls, sent, parted, gone, to) /\ ls \in Seq(Seq(Pieces))
    <2>1. Handed(ls, sent, parted, gone, to)
        BY <1>4, <1>5, <1>7, LineCut
    <2>2. ls \in Seq(Seq(Pieces))
        BY <1>4, <1>5, <1>7, AppendProperties DEF LinesAfter
    <2>3. QED
        BY <2>1, <2>2
<1>9. to \in Nat /\ to \in 0 .. taken
    BY <1>5, <1>6
<1>10. InsideInv'
    BY <1>2 DEF InsideInv
<1>11. ASSUME batch' \in Seq(Pieces), gone' \in SUBSET (1 .. taken), phase' \in {"waiting", "forEach"},
              phase' = "waiting" => batch' = <<>>,
              phase' = "forEach" => batch' # <<>> /\ batch'[Len(batch')].char = Newline,
              Run(batch' \o builder, sent, parted, gone', to, taken),
              Handed(ls, sent, parted, gone', to)
       PROVE  TextInv'
    <2>1. dealt' = to /\ lines' = ls
        BY <1>1, <1>3, <1>7
    <2>2. TextTypes'
        BY <1>2, <1>8, <1>9, <1>11, <2>1 DEF TextTypes
    <2>3. PhaseInv'
        BY <1>2, <1>11 DEF PhaseInv
    <2>4. QED
        BY <1>2, <1>10, <1>11, <2>1, <2>2, <2>3 DEF TextInv
<1>12. CASE /\ batch' = rest /\ phase' = (IF rest = <<>> THEN "waiting" ELSE "forEach")
            /\ gone' = gone
    <2>1. gone \in SUBSET (1 .. taken)
        BY DEF TextTypes
    <2>2. QED
        BY <1>3, <1>4, <1>6, <1>8, <1>11, <1>12, <2>1
<1>13. CASE batch' = <<>> /\ phase' = "waiting" /\ gone' = gone \cup Numbers(rest)
    <2>1. builder \in Seq(Pieces) /\ gone \in SUBSET (1 .. taken)
        BY DEF TextTypes
    <2>2. /\ \A x \in Numbers(rest) : x \in to + 1 .. taken
          /\ Run(builder, sent, parted, gone', to, taken)
        BY <1>3, <1>4, <1>5, <1>6, <1>9, <1>13, <2>1, RestLost
    <2>3. gone' \in SUBSET (1 .. taken)
        <3>1. \A x \in to + 1 .. taken : x \in 1 .. taken
            BY <1>9
        <3>2. QED
            BY <1>13, <2>1, <2>2, <3>1
    <2>4. Handed(ls, sent, parted, gone', to)
        <3>1. \A n \in 1 .. to : n \notin to + 1 .. taken
            BY <1>9
        <3>2. \A n \in 1 .. to : n \in gone' <=> n \in gone
            BY <1>13, <2>2, <3>1
        <3>3. QED
            BY <1>8, <1>9, <3>2, HandedKept
    <2>5. <<>> \o builder = builder /\ <<>> \in Seq(Pieces)
        BY <2>1, ConcatEmptySeq, EmptySeq
    <2>6. QED
        BY <1>11, <1>13, <2>2, <2>3, <2>4, <2>5
<1>14. QED
    BY <1>1, <1>3, <1>12, <1>13

\* A step of the receiver or of the phone, or none.
LEMMA TextStepInv == TextInv /\ [TextNext]_textVars => TextInv'
<1> SUFFICES ASSUME TextInv, [TextNext]_textVars PROVE TextInv'
    OBVIOUS
<1>1. CASE SendCharacter
    BY <1>1, SendCharacterInv
<1>2. CASE DecodeByte
    BY <1>2, DecodeByteInv
<1>3. CASE EndRead
    BY <1>3, EndReadInv
<1>4. CASE NextLine
    BY <1>4, NextLineInv
<1>5. CASE UNCHANGED textVars
    BY <1>5 DEF textVars, TextInv, TextTypes, InsideInv, PhaseInv
<1>6. QED
    BY <1>1, <1>2, <1>3, <1>4, <1>5 DEF TextNext

\* What was handed on is what was sent, and what the builder keeps back is of
\* the line that has not ended.
LEMMA TextInvArrives == TextInv => LinesArrive
<1> SUFFICES ASSUME TextInv PROVE LinesArrive
    OBVIOUS
<1> TextTypes /\ InsideInv /\ PhaseInv /\ Handed(lines, sent, parted, gone, dealt)
    BY DEF TextInv
<1>1. taken \in Nat /\ dealt \in Nat /\ dealt <= taken
    BY TextBounds
<1>2. /\ \A n : EndsLine(n) <=> Ends(n, sent, gone)
      /\ \A n : LineEnding(n) = Ending(n, sent, gone)
    BY DEF EndsLine, Ends, LineEnding, Ending
<1>3. ASSUME NEW line, NEW n, LineOf(line, n, sent, parted, gone)
      PROVE  IsLine(line, n)
    <2>1. \A i \in DOMAIN line : Faithful(line[i])
        BY <1>3 DEF LineOf, TrueTo, Faithful
    <2>2. \A i, j \in DOMAIN line :
             i < j => line[i].of < line[j].of \/ (line[i].of = line[j].of /\ line[i].char = Bad)
        BY <1>3 DEF LineOf, InOrder, TrueTo
    <2>3. QED
        BY <1>2, <1>3, <2>1, <2>2 DEF LineOf, IsLine
<1>4. \A k \in DOMAIN lines : \E n \in 1 .. taken : IsLine(lines[k], n)
    <2>1. \A n \in 1 .. dealt : n \in 1 .. taken
        BY <1>1
    <2>2. QED
        BY <1>3, <2>1 DEF Handed
<1>5. \A j, k \in DOMAIN lines : j < k => \A a \in Numbers(lines[j]), b \in Numbers(lines[k]) : a < b
    BY DEF Handed
<1>6. ASSUME phase = "waiting", NEW n \in 1 .. taken, EndsLine(n), \E m \in LineEnding(n) : sent[m] # Blank
      PROVE  \E k \in DOMAIN lines : IsLine(lines[k], n)
    <2>1. n \in 1 .. dealt
        <3> SUFFICES ASSUME n \notin 1 .. dealt PROVE FALSE
            OBVIOUS
        <3>1. n \in dealt + 1 .. taken
            BY <1>1
        <3>2. batch = <<>> /\ builder \in Seq(Pieces) /\ \A i \in DOMAIN builder : builder[i].char # Newline
            BY <1>6 DEF TextTypes, PhaseInv
        <3>3. batch \o builder = builder
            BY <3>2, ConcatEmptySeq
        <3>4. Run(builder, sent, parted, gone, dealt, taken) /\ OnlyWide(sent, parted)
            BY <3>3 DEF TextInv, InsideInv
        <3>5. PICK i \in DOMAIN builder : builder[i].char = Newline
            BY <1>2, <1>6, <3>1, <3>2, <3>4, EndsArePieces
        <3>6. QED
            BY <3>2, <3>5
    <2>2. Ends(n, sent, gone) /\ HasText(n, sent, gone)
        BY <1>2, <1>6 DEF HasText
    <2>3. QED
        BY <1>3, <2>1, <2>2 DEF Handed
<1>7. QED
    BY <1>4, <1>5, <1>6 DEF LinesArrive

\* bluetooth/BluetoothConnection.kt:64, 81-96: wherever reads end, a phone's
\* lines arrive in order, of characters of one byte to four and 0 bytes, with
\* no more damage than LinesArrive allows.
THEOREM TextCorrect == TextSpec => []LinesArrive
<1>1. TextInit => TextInv
    BY TextInitInv
<1>2. TextInv /\ [TextNext]_textVars => TextInv'
    BY TextStepInv
<1>3. TextInv => LinesArrive
    BY TextInvArrives
<1>4. QED
    BY <1>1, <1>2, <1>3, PTL DEF TextSpec

-----------------------------------------------------------------------------
(* All of them.                                                            *)

\* A step of Conversions is a step of one conversion and none of the others.
THEOREM Composition == Spec => ArgsSpec /\ ReadSpec /\ WriteSpec /\ TextSpec
<1>1. Init => ArgsInit /\ ReadInit /\ WriteInit /\ TextInit
    BY DEF Init
<1>2. [Next]_vars => [NextWord]_argsVars /\ [ReadNext]_readVars /\ [WriteNext]_writeVars /\ [TextNext]_textVars
    BY DEF Next, vars, ParseArgs, ReadMidi, WriteMidi, ReadLines
<1>3. QED
    BY <1>1, <1>2, PTL DEF Spec, ArgsSpec, ReadSpec, WriteSpec, TextSpec

\* Each conversion keeps its property beside the others.
THEOREM AllCorrect == Spec => [](ArgsMatchScan /\ ReadsFromNextMessage /\ WritesAreHeard /\ LinesArrive)
BY Composition, ArgsCorrect, ReadCorrect, WriteCorrect, TextCorrect, PTL

=============================================================================
