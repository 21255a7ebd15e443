------------------------- MODULE BtSessions_proofs -------------------------
(***************************************************************************)
(* Proofs about BtSessions, for any number of connections and messages:    *)
(* the types; that however the reads part and join them no well-formed     *)
(* line is lost, doubled or reordered; and that connections that follow    *)
(* one another do not disturb each other.                                  *)
(***************************************************************************)
EXTENDS BtSessions, Integers, SequenceTheorems, TLAPS

-----------------------------------------------------------------------------
(* Lines.                                                                  *)

\* s consists of k lines, each a text and its end.
Framed(s, k) ==
    /\ Len(s) = 2 * k
    /\ \A i \in 1 .. k : s[2 * i - 1] \in Messages /\ s[2 * i] = Newline

\* A line's end is no text.
LEMMA NewlineIsNoMessage == Newline \notin Messages
BY NamesAssumption DEF Messages

\* The texts of k lines, with a text that has no end yet or without.
LEMMA TextsOfLines ==
    ASSUME NEW k \in Nat, NEW s, Len(s) = 2 * k,
           \A i \in 1 .. k : s[2 * i - 1] \in Messages
    PROVE  /\ Texts(s) \in Seq(Messages)
           /\ Len(Texts(s)) = k
           /\ \A i \in 1 .. k : Texts(s)[i] = s[2 * i - 1]
<1>1. (Len(s) + 1) \div 2 = k
    BY SMT
<1>2. Texts(s) = [i \in 1 .. k |-> s[2 * i - 1]]
    BY <1>1 DEF Texts
<1>3. Texts(s) \in [1 .. k -> Messages]
    BY <1>2
<1>4. QED
    BY <1>2, <1>3, LenProperties, SeqDef

\* A number is even or odd.
LEMMA Halves ==
    ASSUME NEW n \in Nat
    PROVE  \E j \in Nat : n = 2 * j \/ n = 2 * j + 1
<1>1. n \div 2 \in Nat /\ (n = 2 * (n \div 2) \/ n = 2 * (n \div 2) + 1)
    BY SMT
<1>2. QED
    BY <1>1

\* The last end in a text of which j lines are complete is that of line j.
LEMMA LastOfLines ==
    ASSUME NEW j \in Nat, NEW t \in Seq(Pieces), Len(t) = 2 * j \/ Len(t) = 2 * j + 1,
           \A i \in 1 .. j : t[2 * i] = Newline,
           \A i \in 1 .. (j + 1) : 2 * i - 1 <= Len(t) => t[2 * i - 1] # Newline
    PROVE  LastNewline(t) = 2 * j
<1> DEFINE ends == {i \in 1 .. Len(t) : t[i] = Newline}
<1>1. LastNewline(t) = IF ends # {} THEN Max(ends) ELSE 0
    BY DEF LastNewline, SelectLastInSeq
<1>2. \A i \in ends : i \in Nat /\ i <= 2 * j
    <2>1. ASSUME NEW i \in ends, i > 2 * j PROVE FALSE
        <3>1. i = 2 * (j + 1) - 1 /\ j + 1 \in 1 .. (j + 1) /\ i <= Len(t) /\ t[i] = Newline
            BY <2>1
        <3>2. QED
            BY <3>1
    <2>2. QED
        BY <2>1
<1>3. CASE j = 0
    <2>1. \A i \in 1 .. Len(t) : i \in Nat /\ i >= 1
        BY LenProperties
    <2>2. ends = {}
        BY <1>2, <1>3, <2>1
    <2>3. QED
        BY <1>1, <1>3, <2>2
<1>4. CASE j # 0
    <2>1. 2 * j \in 1 .. Len(t) /\ j \in 1 .. j
        BY <1>4
    <2>2. 2 * j \in ends
        BY <2>1
    <2> HIDE DEF ends
    <2>3. \A m \in ends : (\A y \in ends : m >= y) => m = 2 * j
        BY <1>2, <2>2
    <2>4. Max(ends) = 2 * j
        BY <1>2, <2>2, <2>3 DEF Max
    <2>5. QED
        BY <1>1, <2>2, <2>4
<1>5. QED
    BY <1>3, <1>4

\* What a read hands to the builder and what stays on the wire follow one another.
LEMMA ReadParts ==
    ASSUME NEW b \in Seq(Pieces), NEW w \in Seq(Pieces), NEW n \in 1 .. Len(w)
    PROVE  /\ SubSeq(w, 1, n) \in Seq(Pieces)
           /\ SubSeq(w, n + 1, Len(w)) \in Seq(Pieces)
           /\ b \o w = (b \o SubSeq(w, 1, n)) \o SubSeq(w, n + 1, Len(w))
<1>1. Len(w) \in Nat /\ n \in Nat /\ 1 \in 1 .. Len(w) + 1 /\ n \in 1 - 1 .. Len(w)
          /\ Len(w) \in n .. Len(w)
    BY LenProperties
<1>2. SubSeq(w, 1, n) \in Seq(Pieces)
    <2>1. \A i \in 1 .. n : w[i] \in Pieces
        BY <1>1, ElementOfSeq
    <2>2. QED
        BY <1>1, <2>1, SubSeqProperties
<1>3. SubSeq(w, n + 1, Len(w)) \in Seq(Pieces)
    <2>1. \A i \in n + 1 .. Len(w) : w[i] \in Pieces
        BY <1>1, ElementOfSeq
    <2>2. n + 1 \in Int /\ Len(w) \in Int
        BY <1>1
    <2>3. QED
        BY <2>1, <2>2, SubSeqProperties
<1>4. SubSeq(w, 1, n) \o SubSeq(w, n + 1, Len(w)) = SubSeq(w, 1, Len(w))
    BY <1>1, ConcatAdjacentSubSeq
<1>5. SubSeq(w, 1, Len(w)) = w
    BY SubSeqFull
<1>6. (b \o SubSeq(w, 1, n)) \o SubSeq(w, n + 1, Len(w))
          = b \o (SubSeq(w, 1, n) \o SubSeq(w, n + 1, Len(w)))
    <2> DEFINE x == SubSeq(w, 1, n)
               y == SubSeq(w, n + 1, Len(w))
    <2>1. x \in Seq(Pieces) /\ y \in Seq(Pieces)
        BY <1>2, <1>3
    <2> HIDE DEF x, y
    <2>2. (b \o x) \o y = b \o (x \o y)
        BY <2>1, Z3
    <2>3. QED
        BY <2>2 DEF x, y
<1>7. QED
    BY <1>2, <1>3, <1>4, <1>5, <1>6, Zenon

\* How long the rest of a text with j complete lines is.
LEMMA RestLength ==
    ASSUME NEW n \in Nat, NEW j \in Nat, n = 2 * j \/ n = 2 * j + 1,
           NEW m, m = IF 2 * j + 1 <= n THEN n - (2 * j + 1) + 1 ELSE 0
    PROVE  m = n - 2 * j
<1>1. CASE n = 2 * j
    BY <1>1
<1>2. CASE n = 2 * j + 1
    BY <1>2
<1>3. QED
    BY <1>1, <1>2

\* ... and what it has to do with the lines that follow.
LEMMA LaterLength ==
    ASSUME NEW n \in Nat, NEW m \in Nat, NEW j \in Nat, NEW k \in Nat, n + m = 2 * k
    PROVE  (n - 2 * j) + m = 2 * (k - j)
OBVIOUS

\* startReceiver decodes the texts of the lines that are complete, which leaves
\* the texts that follow, whatever part t of the lines has been read.
LEMMA Framing ==
    ASSUME NEW t \in Seq(Pieces), NEW r \in Seq(Pieces), NEW k \in Nat, Framed(t \o r, k),
           NEW last, last = LastNewline(t)
    PROVE  /\ Lines(t, last) \in Seq(Messages)
           /\ Rest(t, last) \in Seq(Messages)
           /\ \E j \in Nat : Framed(Rest(t, last) \o r, j)
           /\ Texts(t \o r) = Lines(t, last) \o Texts(Rest(t, last) \o r)
<1> DEFINE s == t \o r
<1>1. /\ s \in Seq(Pieces)
      /\ Len(s) = Len(t) + Len(r)
      /\ \A i \in 1 .. Len(s) : s[i] = IF i <= Len(t) THEN t[i] ELSE r[i - Len(t)]
      /\ Len(t) \in Nat /\ Len(r) \in Nat
    BY ConcatProperties, LenProperties
<1>2. /\ Len(s) = 2 * k
      /\ \A i \in 1 .. k : s[2 * i - 1] \in Messages /\ s[2 * i] = Newline
    BY DEF Framed
<1> HIDE DEF s
<1>3. PICK j \in Nat : Len(t) = 2 * j \/ Len(t) = 2 * j + 1
    BY <1>1, Halves
<1>4. j <= k /\ k - j \in Nat
    BY <1>1, <1>2, <1>3
<1>5. \A i \in 1 .. j : t[2 * i] = Newline /\ t[2 * i - 1] \in Messages
    <2> SUFFICES ASSUME NEW i \in 1 .. j PROVE t[2 * i] = Newline /\ t[2 * i - 1] \in Messages
        OBVIOUS
    <2>1. i \in 1 .. k /\ 2 * i \in 1 .. Len(s) /\ 2 * i - 1 \in 1 .. Len(s)
              /\ 2 * i <= Len(t) /\ 2 * i - 1 <= Len(t)
        BY <1>1, <1>2, <1>3, <1>4
    <2>2. s[2 * i] = t[2 * i] /\ s[2 * i - 1] = t[2 * i - 1]
        BY <1>1, <2>1
    <2>3. QED
        BY <1>2, <2>1, <2>2
<1>6. Len(t) = 2 * j + 1 => t[2 * j + 1] \in Messages
    <2> SUFFICES ASSUME Len(t) = 2 * j + 1 PROVE t[2 * j + 1] \in Messages
        OBVIOUS
    <2>1. j + 1 \in 1 .. k /\ 2 * j + 1 \in 1 .. Len(s) /\ 2 * (j + 1) - 1 = 2 * j + 1
        BY <1>1, <1>2, <1>4
    <2>2. s[2 * j + 1] = t[2 * j + 1]
        BY <1>1, <2>1
    <2>3. QED
        BY <1>2, <2>1, <2>2
<1>7. last = 2 * j
    <2>1. ASSUME NEW i \in 1 .. (j + 1), 2 * i - 1 <= Len(t) PROVE t[2 * i - 1] # Newline
        <3>1. CASE i \in 1 .. j
            BY <1>5, <3>1, NewlineIsNoMessage
        <3>2. CASE i = j + 1
            <4>1. 2 * i - 1 = 2 * j + 1 /\ Len(t) = 2 * j + 1
                BY <1>3, <2>1, <3>2
            <4>2. QED
                BY <1>6, <4>1, NewlineIsNoMessage
        <3>3. QED
            BY <3>1, <3>2
    <2>2. QED
        BY <1>3, <1>5, <2>1, LastOfLines
<1> DEFINE head == SubSeq(t, 1, 2 * j)
           rest == SubSeq(t, 2 * j + 1, Len(t))
<1>8. /\ Len(head) = 2 * j
      /\ \A i \in 1 .. 2 * j : head[i] = t[i]
    <2>1. \A i \in 1 .. 2 * j : t[i] \in Pieces
        BY <1>1, <1>3, ElementOfSeq
    <2>2. /\ Len(head) = IF 1 <= 2 * j THEN 2 * j - 1 + 1 ELSE 0
          /\ \A i \in 1 .. 2 * j - 1 + 1 : head[i] = t[1 + i - 1]
        BY <2>1, SubSeqProperties
    <2> HIDE DEF head
    <2>3. QED
        BY <2>2
<1>9. /\ rest \in Seq(Messages)
      /\ Len(rest) = Len(t) - 2 * j
      /\ \A i \in 1 .. Len(t) - 2 * j : rest[i] = t[2 * j + i]
    <2>1. \A i \in 2 * j + 1 .. Len(t) : t[i] \in Messages
        BY <1>1, <1>3, <1>6
    <2>2. 2 * j + 1 \in Int /\ Len(t) \in Int
        BY <1>1
    <2>3. /\ rest \in Seq(Messages)
          /\ Len(rest) = IF 2 * j + 1 <= Len(t) THEN Len(t) - (2 * j + 1) + 1 ELSE 0
          /\ \A i \in 1 .. Len(t) - (2 * j + 1) + 1 : rest[i] = t[2 * j + 1 + i - 1]
        BY <2>1, <2>2, SubSeqProperties
    <2> HIDE DEF rest
    <2>4. Len(t) - (2 * j + 1) + 1 = Len(t) - 2 * j
        BY <1>1
    <2>5. Len(rest) = Len(t) - 2 * j
        BY <1>1, <1>3, <2>3, RestLength
    <2>6. ASSUME NEW i \in 1 .. Len(t) - 2 * j PROVE rest[i] = t[2 * j + i]
        <3>1. 2 * j + 1 + i - 1 = 2 * j + i
            BY <1>1
        <3>2. QED
            BY <2>3, <2>4, <3>1
    <2>7. QED
        BY <2>3, <2>5, <2>6
<1>10. Lines(t, last) = Texts(head) /\ Rest(t, last) = rest
    BY <1>7 DEF Lines, Rest
<1> HIDE DEF head, rest
<1> DEFINE v == rest \o r
<1>11. /\ v \in Seq(Pieces)
       /\ Len(v) = 2 * (k - j)
       /\ \A i \in 1 .. Len(v) : v[i] = s[2 * j + i]
    <2>1. rest \in Seq(Pieces)
        BY <1>9, SeqMonotonic DEF Pieces
    <2>2. /\ v \in Seq(Pieces)
          /\ Len(v) = Len(rest) + Len(r)
          /\ \A i \in 1 .. Len(rest) + Len(r) : v[i] = IF i <= Len(rest) THEN rest[i]
                                                       ELSE r[i - Len(rest)]
        BY <2>1, ConcatProperties
    <2> HIDE DEF v
    <2>3. Len(v) = 2 * (k - j)
        <3>1. Len(v) = (Len(t) - 2 * j) + Len(r)
            BY <1>9, <2>2
        <3>2. Len(t) + Len(r) = 2 * k
            BY <1>1, <1>2
        <3>3. (Len(t) - 2 * j) + Len(r) = 2 * (k - j)
            <4>1. Len(t) \in Nat /\ Len(r) \in Nat
                BY <1>1
            <4>2. QED
                BY <3>2, <4>1, LaterLength
        <3>4. QED
            BY <3>1, <3>3, Zenon
    <2>4. ASSUME NEW i \in 1 .. Len(v) PROVE v[i] = s[2 * j + i]
        <3>1. i \in Nat /\ 2 * j + i \in 1 .. Len(s) /\ i \in 1 .. Len(rest) + Len(r)
            BY <1>1, <1>2, <1>4, <1>9, <2>2, <2>3
        <3>2. CASE i <= Len(rest)
            <4>1. i \in 1 .. Len(t) - 2 * j /\ 2 * j + i <= Len(t)
                BY <1>1, <1>9, <3>1, <3>2
            <4>2. QED
                BY <1>1, <1>9, <2>2, <3>1, <3>2, <4>1
        <3>3. CASE ~(i <= Len(rest))
            <4>1. ~(2 * j + i <= Len(t)) /\ i - Len(rest) = (2 * j + i) - Len(t)
                BY <1>1, <1>9, <3>1, <3>3
            <4>2. v[i] = r[i - Len(rest)]
                BY <2>2, <3>1, <3>3
            <4>3. s[2 * j + i] = r[(2 * j + i) - Len(t)]
                BY <1>1, <3>1, <4>1
            <4>4. QED
                BY <4>1, <4>2, <4>3
        <3>4. QED
            BY <3>2, <3>3
    <2>5. QED
        BY <2>2, <2>3, <2>4
<1> HIDE DEF v
<1>12. \A i \in 1 .. k - j :
           /\ v[2 * i - 1] = s[2 * (j + i) - 1] /\ v[2 * i - 1] \in Messages
           /\ v[2 * i] = Newline
    <2> SUFFICES ASSUME NEW i \in 1 .. k - j
                 PROVE  /\ v[2 * i - 1] = s[2 * (j + i) - 1] /\ v[2 * i - 1] \in Messages
                        /\ v[2 * i] = Newline
        OBVIOUS
    <2>1. /\ 2 * i - 1 \in 1 .. Len(v) /\ 2 * i \in 1 .. Len(v) /\ j + i \in 1 .. k
          /\ 2 * j + (2 * i - 1) = 2 * (j + i) - 1 /\ 2 * j + 2 * i = 2 * (j + i)
        BY <1>4, <1>11
    <2>2. v[2 * i - 1] = s[2 * (j + i) - 1] /\ v[2 * i] = s[2 * (j + i)]
        BY <1>11, <2>1
    <2>3. QED
        BY <1>2, <2>1, <2>2
<1>13. Framed(v, k - j)
    BY <1>11, <1>12 DEF Framed
<1>14. /\ Texts(head) \in Seq(Messages) /\ Len(Texts(head)) = j
       /\ \A i \in 1 .. j : Texts(head)[i] = s[2 * i - 1]
    <2>1. \A i \in 1 .. j : head[2 * i - 1] = t[2 * i - 1] /\ t[2 * i - 1] = s[2 * i - 1]
        <3> SUFFICES ASSUME NEW i \in 1 .. j
                     PROVE  head[2 * i - 1] = t[2 * i - 1] /\ t[2 * i - 1] = s[2 * i - 1]
            OBVIOUS
        <3>1. 2 * i - 1 \in 1 .. 2 * j /\ 2 * i - 1 \in 1 .. Len(s) /\ 2 * i - 1 <= Len(t)
            BY <1>1, <1>3
        <3>2. QED
            BY <1>1, <1>8, <3>1
    <2>2. \A i \in 1 .. j : head[2 * i - 1] \in Messages
        BY <1>5, <2>1
    <2>3. QED
        BY <1>8, <2>1, <2>2, TextsOfLines
<1>15. /\ Texts(v) \in Seq(Messages) /\ Len(Texts(v)) = k - j
       /\ \A i \in 1 .. k - j : Texts(v)[i] = s[2 * (j + i) - 1]
    BY <1>4, <1>11, <1>12, TextsOfLines
<1>16. /\ Texts(s) \in Seq(Messages) /\ Len(Texts(s)) = k
       /\ \A i \in 1 .. k : Texts(s)[i] = s[2 * i - 1]
    BY <1>2, TextsOfLines
<1>17. Texts(s) = Texts(head) \o Texts(v)
    <2>1. /\ Texts(head) \o Texts(v) \in Seq(Messages)
          /\ Len(Texts(head) \o Texts(v)) = j + (k - j)
          /\ \A i \in 1 .. j + (k - j) : (Texts(head) \o Texts(v))[i] =
                 IF i <= j THEN Texts(head)[i] ELSE Texts(v)[i - j]
        <3> DEFINE x == Texts(head)
                   y == Texts(v)
        <3>1. /\ x \o y \in Seq(Messages)
              /\ Len(x \o y) = Len(x) + Len(y)
              /\ \A i \in 1 .. Len(x) + Len(y) : (x \o y)[i] =
                     IF i <= Len(x) THEN x[i] ELSE y[i - Len(x)]
            BY <1>14, <1>15, ConcatProperties
        <3>2. Len(x) = j /\ Len(y) = k - j
            BY <1>14, <1>15
        <3> HIDE DEF x, y
        <3>3. QED
            BY <3>1, <3>2 DEF x, y
    <2>2. j + (k - j) = k
        BY <1>4
    <2>3. ASSUME NEW i \in 1 .. k PROVE Texts(s)[i] = (Texts(head) \o Texts(v))[i]
        <3>1. CASE i <= j
            <4>1. i \in 1 .. j
                BY <3>1
            <4>2. QED
                BY <1>14, <1>16, <2>1, <2>2, <3>1, <4>1
        <3>2. CASE ~(i <= j)
            <4>1. i - j \in 1 .. k - j /\ j + (i - j) = i
                BY <1>4, <3>2
            <4>2. QED
                BY <1>15, <1>16, <2>1, <2>2, <3>2, <4>1
        <3>3. QED
            BY <3>1, <3>2
    <2>4. QED
        BY <1>16, <2>1, <2>2, <2>3, SeqEqual
<1>18. QED
    BY <1>4, <1>9, <1>10, <1>13, <1>14, <1>17 DEF s, v

\* A phone that sends a line adds one to those that are complete.
LEMMA SendFraming ==
    ASSUME NEW s \in Seq(Pieces), NEW k \in Nat, Framed(s, k), NEW m \in Messages
    PROVE  /\ Framed(s \o <<m, Newline>>, k + 1)
           /\ Texts(s \o <<m, Newline>>) = Append(Texts(s), m)
<1> DEFINE v == s \o <<m, Newline>>
<1>1. /\ Len(v) = 2 * k + 2
      /\ \A i \in 1 .. 2 * k : v[i] = s[i]
      /\ v[2 * k + 1] = m /\ v[2 * k + 2] = Newline
    <2>1. /\ <<m, Newline>> \in Seq(Pieces) /\ Len(<<m, Newline>>) = 2
          /\ <<m, Newline>>[1] = m /\ <<m, Newline>>[2] = Newline
        BY DEF Pieces
    <2> DEFINE line == <<m, Newline>>
    <2> HIDE DEF line
    <2>2. /\ Len(s \o line) = Len(s) + Len(line)
          /\ \A i \in 1 .. Len(s) + Len(line) : (s \o line)[i] =
                 IF i <= Len(s) THEN s[i] ELSE line[i - Len(s)]
        BY <2>1, ConcatProperties DEF line
    <2>3. Len(s) = 2 * k /\ Len(line) = 2 /\ line[1] = m /\ line[2] = Newline
        BY <2>1 DEF Framed, line
    <2>4. /\ Len(s \o line) = 2 * k + 2
          /\ \A i \in 1 .. 2 * k : (s \o line)[i] = s[i]
        <3>1. Len(s) + Len(line) = 2 * k + 2
            BY <2>3
        <3>2. \A i \in 1 .. 2 * k : i \in 1 .. 2 * k + 2 /\ i <= 2 * k
            OBVIOUS
        <3>3. QED
            BY <2>2, <2>3, <3>1, <3>2
    <2>5. (s \o line)[2 * k + 1] = m
        <3>1. 2 * k + 1 \in 1 .. 2 * k + 2 /\ ~(2 * k + 1 <= 2 * k) /\ (2 * k + 1) - 2 * k = 1
            OBVIOUS
        <3>2. QED
            BY <2>2, <2>3, <3>1
    <2>6. (s \o line)[2 * k + 2] = Newline
        <3>1. 2 * k + 2 \in 1 .. 2 * k + 2 /\ ~(2 * k + 2 <= 2 * k) /\ (2 * k + 2) - 2 * k = 2
            OBVIOUS
        <3>2. QED
            BY <2>2, <2>3, <3>1
    <2>7. QED
        BY <2>4, <2>5, <2>6 DEF line
<1> HIDE DEF v
<1>2. \A i \in 1 .. k + 1 :
          /\ v[2 * i - 1] = (IF i <= k THEN s[2 * i - 1] ELSE m)
          /\ v[2 * i - 1] \in Messages
          /\ v[2 * i] = Newline
    <2> SUFFICES ASSUME NEW i \in 1 .. k + 1
                 PROVE  /\ v[2 * i - 1] = (IF i <= k THEN s[2 * i - 1] ELSE m)
                        /\ v[2 * i - 1] \in Messages
                        /\ v[2 * i] = Newline
        OBVIOUS
    <2>1. CASE i <= k
        <3>1. i \in 1 .. k /\ 2 * i - 1 \in 1 .. 2 * k /\ 2 * i \in 1 .. 2 * k
            BY <2>1
        <3>2. v[2 * i - 1] = s[2 * i - 1] /\ v[2 * i] = s[2 * i]
            BY <1>1, <3>1
        <3>3. QED
            BY <2>1, <3>1, <3>2 DEF Framed
    <2>2. CASE ~(i <= k)
        <3>1. 2 * i - 1 = 2 * k + 1 /\ 2 * i = 2 * k + 2
            BY <2>2
        <3>2. QED
            BY <1>1, <2>2, <3>1
    <2>3. QED
        BY <2>1, <2>2
<1>3. Framed(v, k + 1)
    <2>1. Len(v) = 2 * (k + 1)
        BY <1>1
    <2>2. QED
        BY <1>2, <2>1 DEF Framed
<1>4. /\ Texts(s) \in Seq(Messages) /\ Len(Texts(s)) = k
      /\ \A i \in 1 .. k : Texts(s)[i] = s[2 * i - 1]
    BY TextsOfLines DEF Framed
<1>5. /\ Texts(v) \in Seq(Messages) /\ Len(Texts(v)) = k + 1
      /\ \A i \in 1 .. k + 1 : Texts(v)[i] = v[2 * i - 1]
    <2> DEFINE n == k + 1
    <2>1. n \in Nat /\ Len(v) = 2 * n /\ \A i \in 1 .. n : v[2 * i - 1] \in Messages
        BY <1>1, <1>2
    <2> HIDE DEF n
    <2>2. /\ Texts(v) \in Seq(Messages) /\ Len(Texts(v)) = n
          /\ \A i \in 1 .. n : Texts(v)[i] = v[2 * i - 1]
        BY <2>1, TextsOfLines
    <2>3. QED
        BY <2>2 DEF n
<1>6. Texts(v) = Append(Texts(s), m)
    <2>1. /\ Append(Texts(s), m) \in Seq(Messages)
          /\ Len(Append(Texts(s), m)) = k + 1
          /\ \A i \in 1 .. k : Append(Texts(s), m)[i] = Texts(s)[i]
          /\ Append(Texts(s), m)[k + 1] = m
        BY <1>4, AppendProperties
    <2>2. ASSUME NEW i \in 1 .. k + 1 PROVE Texts(v)[i] = Append(Texts(s), m)[i]
        <3>1. Texts(v)[i] = IF i <= k THEN s[2 * i - 1] ELSE m
            BY <1>2, <1>5
        <3>2. CASE i <= k
            <4>1. i \in 1 .. k
                BY <3>2
            <4>2. QED
                BY <1>4, <2>1, <3>1, <3>2, <4>1
        <3>3. CASE ~(i <= k)
            <4>1. i = k + 1
                BY <3>3
            <4>2. QED
                BY <2>1, <3>1, <3>3, <4>1
        <3>4. QED
            BY <3>2, <3>3
    <2>3. QED
        BY <1>5, <2>1, <2>2, SeqEqual
<1>7. QED
    BY <1>3, <1>6 DEF v

-----------------------------------------------------------------------------
(* The types.                                                              *)

\* What has been read and not yet decoded, and what is to be read, are lines.
FrameInv == \A c \in Conns : \E k \in Nat : Framed(builder[c] \o wire[c], k)

\* The types follow once what is under way consists of lines.
StreamInv == TypeOK /\ FrameInv

\* Nobody has connected and nothing has been sent.
LEMMA InitStream == Init => StreamInv
<1> SUFFICES ASSUME Init PROVE StreamInv
    OBVIOUS
<1>1. \A S : <<>> \in Seq(S)
    BY EmptySeq
<1>2. TypeOK
    BY <1>1 DEF Init, TypeOK
<1>3. ASSUME NEW c \in Conns PROVE \E k \in Nat : Framed(builder[c] \o wire[c], k)
    <2>1. builder[c] = <<>> /\ wire[c] = <<>>
        BY <1>3 DEF Init
    <2>2. Len(<<>> \o <<>>) = 2 * 0
        OBVIOUS
    <2>3. \A i \in 1 .. 0 : FALSE
        OBVIOUS
    <2>4. Framed(<<>> \o <<>>, 0)
        BY <2>2, <2>3 DEF Framed
    <2>5. QED
        BY <2>1, <2>4
<1>4. QED
    BY <1>2, <1>3 DEF StreamInv, FrameInv

\* Messages are pieces of a stream.
LEMMA MessagesArePieces == \A s \in Seq(Messages) : s \in Seq(Pieces)
BY SeqMonotonic DEF Pieces

\* A phone sends a line.
LEMMA SendStream ==
    ASSUME StreamInv, NEW c \in Conns, SendMessage(c)
    PROVE  StreamInv'
<1>1. PICK m \in Messages :
          /\ wire' = [wire EXCEPT ![c] = @ \o <<m, Newline>>]
          /\ sent' = [sent EXCEPT ![c] = Append(@, m)]
    BY DEF SendMessage
<1>2. UNCHANGED <<link, published, accepting, reader, builder, batch, inbox, handler, using,
                  failed, handled, overlapped>>
    BY DEF SendMessage
<1>3. builder[c] \in Seq(Pieces) /\ wire[c] \in Seq(Pieces) /\ <<m, Newline>> \in Seq(Pieces)
    <2>1. builder[c] \in Seq(Messages) /\ wire[c] \in Seq(Pieces)
        BY DEF StreamInv, TypeOK
    <2>2. m \in Pieces /\ Newline \in Pieces
        BY DEF Pieces
    <2>3. <<m, Newline>> \in Seq(Pieces)
        BY <2>2
    <2>4. QED
        BY <2>1, <2>3, MessagesArePieces
<1>4. wire[c] \o <<m, Newline>> \in Seq(Pieces) /\ Append(sent[c], m) \in Seq(Messages)
    BY <1>3, ConcatProperties, AppendProperties DEF StreamInv, TypeOK
<1>5. TypeOK'
    <2>1. wire' \in [Conns -> Seq(Pieces)]
        BY <1>1, <1>4 DEF StreamInv, TypeOK
    <2>2. sent' \in [Conns -> Seq(Messages)]
        BY <1>1, <1>4 DEF StreamInv, TypeOK
    <2>3. QED
        BY <1>2, <2>1, <2>2 DEF StreamInv, TypeOK
<1>6. ASSUME NEW d \in Conns PROVE \E k \in Nat : Framed(builder'[d] \o wire'[d], k)
    <2>1. PICK k \in Nat : Framed(builder[d] \o wire[d], k)
        BY DEF StreamInv, FrameInv
    <2>2. CASE d = c
        <3>1. builder'[d] \o wire'[d] = (builder[c] \o wire[c]) \o <<m, Newline>>
            <4>1. builder'[d] = builder[c] /\ wire'[d] = wire[c] \o <<m, Newline>>
                BY <1>1, <1>2, <2>2 DEF StreamInv, TypeOK
            <4> DEFINE line == <<m, Newline>>
            <4>2. line \in Seq(Pieces)
                BY <1>3
            <4> DEFINE b == builder[c]
                       w == wire[c]
            <4> b \in Seq(Pieces) /\ w \in Seq(Pieces)
                BY <1>3
            <4> HIDE DEF line, b, w
            <4>3. b \o (w \o line) = (b \o w) \o line
                BY <4>2, Z3
            <4>4. QED
                BY <4>1, <4>3 DEF line, b, w
        <3>2. builder[c] \o wire[c] \in Seq(Pieces)
            BY <1>3, ConcatProperties
        <3>3. Framed(builder[c] \o wire[c], k) /\ k + 1 \in Nat
            BY <2>1, <2>2
        <3>4. QED
            BY <3>1, <3>2, <3>3, SendFraming
    <2>3. CASE d # c
        BY <1>1, <1>2, <2>1, <2>3 DEF StreamInv, TypeOK
    <2>4. QED
        BY <2>2, <2>3
<1>7. QED
    BY <1>5, <1>6 DEF StreamInv, FrameInv

\* What a read does to the streams of its connection.
LEMMA ReadSomeEffect ==
    ASSUME StreamInv, NEW c \in Conns, ReadSome(c)
    PROVE  /\ batch[c] = <<>>
           /\ wire'[c] \in Seq(Pieces) /\ builder'[c] \in Seq(Messages)
           /\ batch'[c] \in Seq(Messages)
           /\ \E k \in Nat : Framed(builder'[c] \o wire'[c], k)
           /\ Texts(builder[c] \o wire[c]) = batch'[c] \o Texts(builder'[c] \o wire'[c])
           /\ wire' = [wire EXCEPT ![c] = wire'[c]]
           /\ builder' = [builder EXCEPT ![c] = builder'[c]]
           /\ batch' = [batch EXCEPT ![c] = batch'[c]]
<1>1. PICK n \in 1 .. Len(wire[c]) :
          LET text == builder[c] \o SubSeq(wire[c], 1, n)
              last == LastNewline(text)
          IN /\ batch' = [batch EXCEPT ![c] = Lines(text, last)]
             /\ builder' = [builder EXCEPT ![c] = Rest(text, last)]
             /\ wire' = [wire EXCEPT ![c] = SubSeq(@, n + 1, Len(@))]
    BY DEF ReadSome
<1> DEFINE part == SubSeq(wire[c], 1, n)
           left == SubSeq(wire[c], n + 1, Len(wire[c]))
           text == builder[c] \o part
           last == LastNewline(text)
<1>2. /\ batch' = [batch EXCEPT ![c] = Lines(text, last)]
      /\ builder' = [builder EXCEPT ![c] = Rest(text, last)]
      /\ wire' = [wire EXCEPT ![c] = left]
    BY <1>1
<1>3. builder[c] \in Seq(Pieces) /\ wire[c] \in Seq(Pieces)
    BY MessagesArePieces DEF StreamInv, TypeOK
<1>4. part \in Seq(Pieces) /\ left \in Seq(Pieces) /\ builder[c] \o wire[c] = text \o left
    BY <1>3, ReadParts
<1>5. PICK k \in Nat : Framed(text \o left, k)
    BY <1>4 DEF StreamInv, FrameInv
<1>6. text \in Seq(Pieces)
    BY <1>3, <1>4, ConcatProperties
<1> HIDE DEF part, left, text
<1>7. /\ Lines(text, last) \in Seq(Messages)
      /\ Rest(text, last) \in Seq(Messages)
      /\ \E j \in Nat : Framed(Rest(text, last) \o left, j)
      /\ Texts(text \o left) = Lines(text, last) \o Texts(Rest(text, last) \o left)
    BY <1>4, <1>5, <1>6, Framing
<1> HIDE DEF last
<1>8. /\ batch'[c] = Lines(text, last) /\ builder'[c] = Rest(text, last) /\ wire'[c] = left
      /\ batch[c] = <<>>
    BY <1>2 DEF StreamInv, TypeOK, ReadSome
<1>9. QED
    BY <1>2, <1>4, <1>7, <1>8, Zenon

\* A read leaves lines behind, in the builder and on the wire.
LEMMA ReadStream ==
    ASSUME StreamInv, NEW c \in Conns, ReadSome(c)
    PROVE  StreamInv'
<1>1. /\ wire'[c] \in Seq(Pieces) /\ builder'[c] \in Seq(Messages)
      /\ batch'[c] \in Seq(Messages)
      /\ \E k \in Nat : Framed(builder'[c] \o wire'[c], k)
      /\ wire' = [wire EXCEPT ![c] = wire'[c]]
      /\ builder' = [builder EXCEPT ![c] = builder'[c]]
      /\ batch' = [batch EXCEPT ![c] = batch'[c]]
    BY ReadSomeEffect
<1>2. UNCHANGED <<link, published, accepting, reader, inbox, handler, using, failed, ghosts>>
    BY DEF ReadSome
<1>3. wire' \in [Conns -> Seq(Pieces)] /\ builder' \in [Conns -> Seq(Messages)]
          /\ batch' \in [Conns -> Seq(Messages)]
    BY <1>1 DEF StreamInv, TypeOK
<1>4. TypeOK'
    BY <1>2, <1>3 DEF StreamInv, TypeOK, ghosts
<1>5. ASSUME NEW d \in Conns PROVE \E k \in Nat : Framed(builder'[d] \o wire'[d], k)
    <2>1. CASE d = c
        BY <1>1, <2>1
    <2>2. CASE d # c
        <3>1. builder'[d] = builder[d] /\ wire'[d] = wire[d]
            BY <1>1, <2>2 DEF StreamInv, TypeOK
        <3>2. QED
            BY <3>1 DEF StreamInv, FrameInv
    <2>3. QED
        BY <2>1, <2>2
<1>6. QED
    BY <1>4, <1>5 DEF StreamInv, FrameInv

\* A line that decodes is a request.
LEMMA DecodeStream ==
    ASSUME StreamInv, NEW c \in Conns, Decode(c)
    PROVE  StreamInv'
<1>1. UNCHANGED <<link, published, accepting, reader, wire, builder, handler, using, failed,
                  ghosts>>
    BY DEF Decode
<1>2. Head(batch[c]) \in Messages /\ Tail(batch[c]) \in Seq(Messages)
    <2>1. batch[c] \in Seq(Messages) /\ batch[c] # <<>>
        BY DEF StreamInv, TypeOK, Decode
    <2>2. QED
        BY <2>1, HeadTailProperties
<1>3. <<>> \in Seq(Messages)
    BY EmptySeq
<1>4. batch' \in [Conns -> Seq(Messages)]
    BY <1>2, <1>3 DEF Decode, StreamInv, TypeOK
<1>5. inbox' \in [Conns -> Seq(Requests)]
    <2>1. CASE Head(batch[c]) = Malformed
        BY <2>1 DEF Decode, StreamInv, TypeOK
    <2>2. CASE Head(batch[c]) # Malformed
        <3>1. Head(batch[c]) \in Requests /\ inbox[c] \in Seq(Requests)
            BY <1>2, <2>2 DEF Messages, StreamInv, TypeOK
        <3>2. Append(inbox[c], Head(batch[c])) \in Seq(Requests)
            BY <3>1, AppendProperties
        <3>3. inbox' = [inbox EXCEPT ![c] = Append(inbox[c], Head(batch[c]))]
            BY <2>2 DEF Decode
        <3>4. QED
            BY <3>2, <3>3 DEF StreamInv, TypeOK
    <2>3. QED
        BY <2>1, <2>2
<1>6. TypeOK'
    BY <1>1, <1>4, <1>5 DEF StreamInv, TypeOK, ghosts
<1>7. QED
    BY <1>1, <1>6 DEF StreamInv, FrameInv

\* A handler takes a request.
LEMMA TakeStream ==
    ASSUME StreamInv, NEW c \in Conns, Take(c)
    PROVE  StreamInv'
<1>1. UNCHANGED <<link, published, accepting, reader, wire, builder, batch, using, failed, sent,
                  overlapped>>
    BY DEF Take
<1>2. /\ Head(inbox[c]) \in Requests /\ Tail(inbox[c]) \in Seq(Requests)
      /\ Append(handled[c], Head(inbox[c])) \in Seq(Requests)
    <2>1. inbox[c] \in Seq(Requests) /\ inbox[c] # <<>> /\ handled[c] \in Seq(Requests)
        BY DEF StreamInv, TypeOK, Take
    <2>2. Head(inbox[c]) \in Requests /\ Tail(inbox[c]) \in Seq(Requests)
        BY <2>1, HeadTailProperties
    <2>3. QED
        BY <2>1, <2>2, AppendProperties
<1>3. /\ inbox' \in [Conns -> Seq(Requests)]
      /\ handled' \in [Conns -> Seq(Requests)]
      /\ handler' \in [Conns -> {"none", "idle", "busy", "over"}]
    BY <1>2 DEF Take, StreamInv, TypeOK
<1>4. TypeOK'
    BY <1>1, <1>3 DEF StreamInv, TypeOK
<1>5. QED
    BY <1>1, <1>4 DEF StreamInv, FrameInv

\* The steps that move messages.
Flows(c) == SendMessage(c) \/ ReadSome(c) \/ Decode(c) \/ Take(c)

\* All other steps leave every message where it is.
LEMMA OtherSteps ==
    ASSUME TypeOK, Next, \A c \in Conns : ~Flows(c)
    PROVE  TypeOK' /\ UNCHANGED <<streams, sent, handled>>
<1>1. ASSUME NEW c \in Conns, Leave(c) PROVE TypeOK' /\ UNCHANGED <<streams, sent, handled>>
    BY <1>1 DEF Leave, TypeOK, streams, ghosts
<1>2. ASSUME NEW c \in Conns, Publish(c) PROVE TypeOK' /\ UNCHANGED <<streams, sent, handled>>
    <2>1. overlapped' \in BOOLEAN
        BY <1>2 DEF Publish
    <2>2. QED
        BY <1>2, <2>1 DEF Publish, TypeOK, streams
<1>3. ASSUME NEW c \in Conns, StartReceiver(c)
      PROVE  TypeOK' /\ UNCHANGED <<streams, sent, handled>>
    BY <1>3 DEF StartReceiver, TypeOK, streams, ghosts
<1>4. ASSUME NEW c \in Conns, ReadFails(c) PROVE TypeOK' /\ UNCHANGED <<streams, sent, handled>>
    BY <1>4 DEF ReadFails, TypeOK, streams, ghosts
<1>5. ASSUME NEW c \in Conns, Done(c) \/ AmpGone(c)
      PROVE  TypeOK' /\ UNCHANGED <<streams, sent, handled>>
    BY <1>5 DEF Done, AmpGone, TypeOK, streams, ghosts
<1>6. ASSUME NEW s \in Senders, TakePublished(s)
      PROVE  TypeOK' /\ UNCHANGED <<streams, sent, handled>>
    BY <1>6 DEF TakePublished, TypeOK, streams, ghosts
<1>7. ASSUME NEW s \in Senders, Answer(s) PROVE TypeOK' /\ UNCHANGED <<streams, sent, handled>>
    <2>1. /\ using' = [using EXCEPT ![s] = None]
          /\ failed' = [failed EXCEPT ![s] = link[using[s]] # "up"]
          /\ UNCHANGED <<link, published, accepting, reader, streams, ghosts>>
        BY <1>7 DEF Answer
    <2>2. using' \in [Senders -> Conns \cup {None}] /\ failed' \in [Senders -> BOOLEAN]
        BY <2>1 DEF TypeOK
    <2>3. handler' \in [Conns -> {"none", "idle", "busy", "over"}]
        BY <1>7 DEF Answer, TypeOK
    <2>4. QED
        BY <2>1, <2>2, <2>3 DEF TypeOK, streams, ghosts
<1>8. ASSUME NEW c \in Conns, ReaderFailed(c)
      PROVE  TypeOK' /\ UNCHANGED <<streams, sent, handled>>
    BY <1>8 DEF ReaderFailed, TypeOK, streams, ghosts
<1>9. ASSUME NEW s \in Senders, BluetoothError(s)
      PROVE  TypeOK' /\ UNCHANGED <<streams, sent, handled>>
    BY <1>9 DEF BluetoothError, TypeOK, streams, ghosts
<1>10. Amp \in Senders /\ \A c \in Conns : c \in Senders
    BY DEF Senders
<1>11. QED
    BY <1>1, <1>2, <1>3, <1>4, <1>5, <1>6, <1>7, <1>8, <1>9, <1>10
    DEF Next, Reader, Handler, Flows

\* Whoever takes the next step.
LEMMA StreamStep == StreamInv /\ [Next]_vars => StreamInv'
<1> SUFFICES ASSUME StreamInv, [Next]_vars PROVE StreamInv'
    OBVIOUS
<1>1. ASSUME NEW c \in Conns, Flows(c) PROVE StreamInv'
    BY <1>1, SendStream, ReadStream, DecodeStream, TakeStream DEF Flows
<1>2. CASE Next /\ \A c \in Conns : ~Flows(c)
    <2>1. TypeOK' /\ UNCHANGED <<streams, sent, handled>>
        BY <1>2, OtherSteps DEF StreamInv
    <2>2. QED
        BY <2>1 DEF StreamInv, FrameInv, streams
<1>3. CASE UNCHANGED vars
    BY <1>3 DEF StreamInv, TypeOK, FrameInv, vars, streams, ghosts
<1>4. QED
    BY <1>1, <1>2, <1>3

\* The types and the lines hold throughout.
LEMMA StreamInvariant == Spec => []StreamInv
BY InitStream, StreamStep, PTL DEF Spec

-----------------------------------------------------------------------------
(* Nothing is lost.                                                        *)

\* Moving the head of one queue to the end of the one before changes nothing.
LEMMA HandOver ==
    ASSUME NEW S, NEW a \in Seq(S), NEW b \in Seq(S), b # <<>>
    PROVE  Append(a, Head(b)) \o Tail(b) = a \o b
<1>1. /\ Head(b) \in S /\ Tail(b) \in Seq(S) /\ Len(Tail(b)) = Len(b) - 1
      /\ \A i \in 1 .. Len(Tail(b)) : Tail(b)[i] = b[i + 1]
      /\ Head(b) = b[1]
      /\ Len(a) \in Nat /\ Len(b) \in Nat \ {0}
    BY HeadTailProperties, LenProperties, EmptySeq
<1> DEFINE x == Append(a, Head(b))
           y == Tail(b)
<1>2. /\ x \in Seq(S) /\ Len(x) = Len(a) + 1
      /\ \A i \in 1 .. Len(a) : x[i] = a[i]
      /\ x[Len(a) + 1] = b[1]
    BY <1>1, AppendProperties
<1>3. y \in Seq(S) /\ Len(y) = Len(b) - 1 /\ \A i \in 1 .. Len(b) - 1 : y[i] = b[i + 1]
    BY <1>1
<1> HIDE DEF x, y
<1>4. /\ x \o y \in Seq(S)
      /\ Len(x \o y) = Len(x) + Len(y)
      /\ \A i \in 1 .. Len(x) + Len(y) : (x \o y)[i] =
             IF i <= Len(x) THEN x[i] ELSE y[i - Len(x)]
    BY <1>2, <1>3, ConcatProperties
<1>5. /\ a \o b \in Seq(S)
      /\ Len(a \o b) = Len(a) + Len(b)
      /\ \A i \in 1 .. Len(a) + Len(b) : (a \o b)[i] =
             IF i <= Len(a) THEN a[i] ELSE b[i - Len(a)]
    BY ConcatProperties
<1>6. Len(x) + Len(y) = Len(a) + Len(b)
    BY <1>1, <1>2, <1>3
<1>7. ASSUME NEW i \in 1 .. Len(a) + Len(b) PROVE (x \o y)[i] = (a \o b)[i]
    <2>1. CASE i <= Len(a)
        <3>1. i \in 1 .. Len(a) /\ i <= Len(x)
            BY <1>1, <1>2, <2>1
        <3>2. QED
            BY <1>2, <1>4, <1>5, <1>6, <2>1, <3>1
    <2>2. CASE i = Len(a) + 1
        <3>1. i <= Len(x) /\ ~(i <= Len(a)) /\ i - Len(a) = 1
            BY <1>1, <1>2, <2>2
        <3>2. QED
            BY <1>2, <1>4, <1>5, <1>6, <2>2, <3>1
    <2>3. CASE i > Len(a) + 1
        <3>1. /\ ~(i <= Len(x)) /\ ~(i <= Len(a))
              /\ i - Len(x) \in 1 .. Len(b) - 1 /\ (i - Len(x)) + 1 = i - Len(a)
            BY <1>1, <1>2, <2>3
        <3>2. QED
            BY <1>3, <1>4, <1>5, <1>6, <3>1
    <2>4. i <= Len(a) \/ i = Len(a) + 1 \/ i > Len(a) + 1
        BY <1>1
    <2>5. QED
        BY <2>1, <2>2, <2>3, <2>4
<1>8. x \o y = a \o b
    BY <1>4, <1>5, <1>6, <1>7, SeqEqual
<1>9. QED
    BY <1>8 DEF x, y

\* Four queues, one behind the other.
Row(h, i, b, t) == h \o i \o b \o t

\* A handler takes a message ...
LEMMA RowTake ==
    ASSUME NEW S, NEW h \in Seq(S), NEW i \in Seq(S), NEW b, NEW t, i # <<>>
    PROVE  Row(Append(h, Head(i)), Tail(i), b, t) = Row(h, i, b, t)
BY HandOver DEF Row

\* ... a line is decoded ...
LEMMA RowDecode ==
    ASSUME NEW S, NEW h \in Seq(S), NEW i \in Seq(S), NEW b \in Seq(S), NEW t, b # <<>>
    PROVE  Row(h, Append(i, Head(b)), Tail(b), t) = Row(h, i, b, t)
<1> DEFINE x == Append(i, Head(b))
           y == Tail(b)
<1>1. x \in Seq(S) /\ y \in Seq(S)
    BY HeadTailProperties, AppendProperties
<1>2. x \o y = i \o b
    BY HandOver
<1> HIDE DEF x, y
<1>3. (h \o x) \o y = h \o (x \o y)
    BY <1>1, Z3
<1>4. (h \o i) \o b = h \o (i \o b)
    BY Z3
<1>5. (h \o x) \o y = (h \o i) \o b
    BY <1>2, <1>3, <1>4, Zenon
<1>6. QED
    BY <1>5, Zenon DEF Row, x, y

\* ... lines are read ...
LEMMA RowRead ==
    ASSUME NEW S, NEW h \in Seq(S), NEW i \in Seq(S), NEW b \in Seq(S), NEW t \in Seq(S)
    PROVE  Row(h, i, <<>>, b \o t) = Row(h, i, b, t)
<1> DEFINE a == h \o i
<1>1. a \in Seq(S) /\ b \o t \in Seq(S)
    BY ConcatProperties
<1> HIDE DEF a
<1>2. a \o <<>> = a
    BY <1>1, ConcatEmptySeq
<1>3. a \o (b \o t) = (a \o b) \o t
    BY <1>1, Z3
<1>4. (a \o <<>>) \o (b \o t) = (a \o b) \o t
    BY <1>2, <1>3, Zenon
<1>5. QED
    BY <1>4, Zenon DEF Row, a

\* ... and a line is sent.
LEMMA RowSend ==
    ASSUME NEW S, NEW h, NEW i, NEW b, NEW t, NEW m,
           h \in Seq(S) /\ i \in Seq(S) /\ b \in Seq(S) /\ t \in Seq(S) /\ m \in S
    PROVE  Row(h, i, b, Append(t, m)) = Append(Row(h, i, b, t), m)
<1> DEFINE a == (h \o i) \o b
<1>1. a \in Seq(S)
    BY ConcatProperties
<1> HIDE DEF a
<1>2. a \o t \in Seq(S)
    BY <1>1, ConcatProperties
<1> DEFINE e == <<m>>
<1>3. e \in Seq(S)
    OBVIOUS
<1>4. Append(t, m) = t \o e /\ Append(a \o t, m) = (a \o t) \o e
    BY <1>2, AppendIsConcat
<1> HIDE DEF e
<1>5. a \o (t \o e) = (a \o t) \o e
    BY <1>1, <1>3, Z3
<1>6. a \o Append(t, m) = Append(a \o t, m)
    BY <1>4, <1>5, Zenon
<1>7. QED
    BY <1>6, Zenon DEF Row, a

\* Whatever waits in a batch is in the row.
LEMMA RowHolds ==
    ASSUME NEW S, NEW h \in Seq(S), NEW i \in Seq(S), NEW b \in Seq(S), NEW t \in Seq(S),
           b # <<>>
    PROVE  Head(b) \in ToSet(Row(h, i, b, t))
<1> DEFINE a == h \o i
           r == b \o t
<1>1. a \in Seq(S) /\ r \in Seq(S) /\ Len(b) \in Nat \ {0} /\ Len(t) \in Nat
    BY ConcatProperties, EmptySeq, LenProperties
<1>2. r[1] = b[1] /\ Len(r) = Len(b) + Len(t) /\ Head(b) = b[1]
    BY <1>1, ConcatProperties
<1>3. Len(r) \in Nat \ {0} /\ Len(a) \in Nat
    <2>1. Len(b) + Len(t) \in Nat \ {0}
        BY <1>1
    <2>2. QED
        BY <1>1, <1>2, <2>1, LenProperties
<1> HIDE DEF a
<1>4. a \o r = (a \o b) \o t
    BY <1>1, Z3
<1> HIDE DEF r
<1>5. /\ a \o r \in Seq(S) /\ Len(a \o r) = Len(a) + Len(r)
      /\ \A n \in 1 .. Len(a) + Len(r) : (a \o r)[n] =
             IF n <= Len(a) THEN a[n] ELSE r[n - Len(a)]
    BY <1>1, ConcatProperties
<1>6. Len(a) + 1 \in 1 .. Len(a) + Len(r) /\ ~(Len(a) + 1 <= Len(a))
          /\ (Len(a) + 1) - Len(a) = 1
    BY <1>3
<1>7. (a \o r)[Len(a) + 1] = Head(b)
    BY <1>2, <1>5, <1>6
<1>8. DOMAIN (a \o r) = 1 .. Len(a) + Len(r)
    BY <1>5, LenProperties
<1>9. Head(b) \in ToSet(a \o r)
    BY <1>6, <1>7, <1>8 DEF ToSet
<1>10. Row(h, i, b, t) = a \o r
    BY <1>4 DEF Row, a
<1>11. QED
    BY <1>9, <1>10

\* What connection c's phone has sent is handled or on its way.
Kept(c) ==
    Malformed \notin ToSet(sent[c]) =>
        sent[c] = Row(handled[c], inbox[c], batch[c], Texts(builder[c] \o wire[c]))

\* The four queues of a connection hold messages.
LEMMA Queues ==
    ASSUME StreamInv, NEW c \in Conns
    PROVE  /\ sent[c] \in Seq(Messages) /\ handled[c] \in Seq(Messages)
           /\ inbox[c] \in Seq(Messages) /\ batch[c] \in Seq(Messages)
           /\ builder[c] \o wire[c] \in Seq(Pieces)
           /\ Texts(builder[c] \o wire[c]) \in Seq(Messages)
<1>1. /\ handled[c] \in Seq(Requests) /\ inbox[c] \in Seq(Requests)
      /\ builder[c] \in Seq(Messages) /\ wire[c] \in Seq(Pieces)
      /\ sent[c] \in Seq(Messages) /\ batch[c] \in Seq(Messages)
    BY DEF StreamInv, TypeOK
<1>2. handled[c] \in Seq(Messages) /\ inbox[c] \in Seq(Messages)
    BY <1>1, SeqMonotonic DEF Messages
<1>3. builder[c] \o wire[c] \in Seq(Pieces)
    BY <1>1, MessagesArePieces, ConcatProperties
<1>4. Texts(builder[c] \o wire[c]) \in Seq(Messages)
    <2>1. PICK k \in Nat : Framed(builder[c] \o wire[c], k)
        BY DEF StreamInv, FrameInv
    <2>2. QED
        BY <2>1, TextsOfLines DEF Framed
<1>5. QED
    BY <1>1, <1>2, <1>3, <1>4

\* A step of connection c alone leaves the others' queues as they are.
LEMMA KeptElsewhere ==
    ASSUME StreamInv, NEW c \in Conns, Flows(c), NEW d \in Conns, d # c, Kept(d)
    PROVE  Kept(d)'
<1>1. /\ sent'[d] = sent[d] /\ handled'[d] = handled[d] /\ inbox'[d] = inbox[d]
      /\ batch'[d] = batch[d] /\ builder'[d] = builder[d] /\ wire'[d] = wire[d]
    <2>1. CASE SendMessage(c)
        BY <2>1 DEF SendMessage, StreamInv, TypeOK
    <2>2. CASE ReadSome(c)
        BY <2>2 DEF ReadSome, StreamInv, TypeOK, ghosts
    <2>3. CASE Decode(c)
        BY <2>3 DEF Decode, StreamInv, TypeOK, ghosts
    <2>4. CASE Take(c)
        BY <2>4 DEF Take, StreamInv, TypeOK
    <2>5. QED
        BY <2>1, <2>2, <2>3, <2>4 DEF Flows
<1>2. QED
    BY <1>1 DEF Kept

\* Appending to what was sent leaves what was sent before.
LEMMA SentBefore ==
    ASSUME NEW s \in Seq(Messages), NEW m \in Messages
    PROVE  ToSet(s) \subseteq ToSet(Append(s, m))
<1>1. /\ Append(s, m) \in Seq(Messages)
      /\ Len(Append(s, m)) = Len(s) + 1
      /\ \A i \in 1 .. Len(s) : Append(s, m)[i] = s[i]
      /\ Len(s) \in Nat
    BY AppendProperties, LenProperties
<1>2. DOMAIN s = 1 .. Len(s) /\ DOMAIN Append(s, m) = 1 .. Len(s) + 1
    BY <1>1, LenProperties
<1>3. \A i \in 1 .. Len(s) : i \in 1 .. Len(s) + 1
    BY <1>1
<1>4. ASSUME NEW i \in DOMAIN s PROVE s[i] \in ToSet(Append(s, m))
    <2>1. i \in DOMAIN Append(s, m) /\ Append(s, m)[i] = s[i]
        BY <1>1, <1>2, <1>3
    <2>2. QED
        BY <2>1, Zenon DEF ToSet
<1>5. QED
    BY <1>4 DEF ToSet

\* A phone sends a line: it is the last of the row.
LEMMA SendKept ==
    ASSUME StreamInv, NEW c \in Conns, SendMessage(c), Kept(c)
    PROVE  Kept(c)'
<1>1. PICK m \in Messages :
          /\ wire' = [wire EXCEPT ![c] = @ \o <<m, Newline>>]
          /\ sent' = [sent EXCEPT ![c] = Append(@, m)]
    BY DEF SendMessage
<1>2. /\ builder'[c] = builder[c] /\ batch'[c] = batch[c] /\ inbox'[c] = inbox[c]
      /\ handled'[c] = handled[c]
      /\ wire'[c] = wire[c] \o <<m, Newline>> /\ sent'[c] = Append(sent[c], m)
    BY <1>1 DEF SendMessage, StreamInv, TypeOK
<1>3. PICK k \in Nat : Framed(builder[c] \o wire[c], k)
    BY DEF StreamInv, FrameInv
<1> DEFINE s == builder[c] \o wire[c]
           t == Texts(s)
<1>4. /\ sent[c] \in Seq(Messages) /\ handled[c] \in Seq(Messages)
      /\ inbox[c] \in Seq(Messages) /\ batch[c] \in Seq(Messages)
      /\ s \in Seq(Pieces) /\ t \in Seq(Messages)
    BY Queues
<1>5. builder'[c] \o wire'[c] = s \o <<m, Newline>>
    <2> DEFINE line == <<m, Newline>>
               b == builder[c]
               w == wire[c]
    <2>1. line \in Seq(Pieces)
        <3>1. m \in Pieces /\ Newline \in Pieces
            BY DEF Pieces
        <3>2. QED
            BY <3>1
    <2>2. b \in Seq(Pieces) /\ w \in Seq(Pieces)
        BY MessagesArePieces DEF StreamInv, TypeOK
    <2>3. builder'[c] = b /\ wire'[c] = w \o line
        BY <1>2
    <2> HIDE DEF line, b, w
    <2>4. b \o (w \o line) = (b \o w) \o line
        BY <2>1, <2>2, Z3
    <2>5. QED
        BY <2>3, <2>4 DEF b, w, line
<1>6. Texts(builder'[c] \o wire'[c]) = Append(t, m)
    BY <1>3, <1>4, <1>5, SendFraming
<1> HIDE DEF s, t
<1>7. ASSUME Malformed \notin ToSet(sent'[c])
      PROVE  sent'[c] = Row(handled[c], inbox[c], batch[c], Append(t, m))
    <2>1. Malformed \notin ToSet(sent[c])
        BY <1>2, <1>4, <1>7, SentBefore
    <2>2. sent[c] = Row(handled[c], inbox[c], batch[c], t)
        BY <2>1 DEF Kept, s, t
    <2>3. Row(handled[c], inbox[c], batch[c], Append(t, m))
              = Append(Row(handled[c], inbox[c], batch[c], t), m)
        BY <1>4, RowSend
    <2>4. sent'[c] = Append(sent[c], m)
        BY <1>2
    <2>5. QED
        BY <2>2, <2>3, <2>4
<1>8. QED
    BY <1>2, <1>6, <1>7 DEF Kept

\* The other steps that move messages move them along the row.
LEMMA MoveKept ==
    ASSUME StreamInv, NEW c \in Conns, ReadSome(c) \/ Decode(c) \/ Take(c), Kept(c)
    PROVE  Kept(c)'
<1> DEFINE t == Texts(builder[c] \o wire[c])
<1>1. /\ sent[c] \in Seq(Messages) /\ handled[c] \in Seq(Messages)
      /\ inbox[c] \in Seq(Messages) /\ batch[c] \in Seq(Messages)
      /\ t \in Seq(Messages)
    BY Queues
<1>2. Kept(c) <=> (Malformed \notin ToSet(sent[c]) =>
                       sent[c] = Row(handled[c], inbox[c], batch[c], t))
    BY DEF Kept
<1> HIDE DEF t
<1>3. sent' = sent
    BY DEF ReadSome, Decode, Take, ghosts
<1> SUFFICES ASSUME Malformed \notin ToSet(sent[c])
             PROVE  sent[c] = Row(handled'[c], inbox'[c], batch'[c],
                                  Texts(builder'[c] \o wire'[c]))
    BY <1>3 DEF Kept
<1>4. sent[c] = Row(handled[c], inbox[c], batch[c], t)
    BY <1>2
<1>5. CASE ReadSome(c)
    <2>1. /\ batch[c] = <<>> /\ batch'[c] \in Seq(Messages)
          /\ t = batch'[c] \o Texts(builder'[c] \o wire'[c])
        BY <1>5, ReadSomeEffect DEF t
    <2>2. handled' = handled /\ inbox' = inbox
        BY <1>5 DEF ReadSome, ghosts
    <2>3. Texts(builder'[c] \o wire'[c]) \in Seq(Messages)
        <3>1. PICK k \in Nat : Framed(builder'[c] \o wire'[c], k)
            BY <1>5, ReadSomeEffect
        <3>2. QED
            BY <3>1, TextsOfLines DEF Framed
    <2>4. Row(handled[c], inbox[c], <<>>, batch'[c] \o Texts(builder'[c] \o wire'[c]))
              = Row(handled[c], inbox[c], batch'[c], Texts(builder'[c] \o wire'[c]))
        BY <1>1, <2>1, <2>3, RowRead
    <2>5. sent[c] = Row(handled[c], inbox[c], <<>>, batch'[c] \o Texts(builder'[c] \o wire'[c]))
        BY <1>4, <2>1
    <2>6. handled'[c] = handled[c] /\ inbox'[c] = inbox[c]
        BY <2>2
    <2>7. QED
        BY <2>4, <2>5, <2>6
<1>6. CASE Decode(c)
    <2>1. batch[c] # <<>>
        BY <1>6 DEF Decode
    <2>2. Head(batch[c]) # Malformed
        BY <1>1, <1>4, <2>1, RowHolds
    <2>3. /\ batch'[c] = Tail(batch[c]) /\ inbox'[c] = Append(inbox[c], Head(batch[c]))
          /\ handled' = handled /\ builder' = builder /\ wire' = wire
        BY <1>6, <2>2 DEF Decode, StreamInv, TypeOK, ghosts
    <2>4. Row(handled[c], Append(inbox[c], Head(batch[c])), Tail(batch[c]), t)
              = Row(handled[c], inbox[c], batch[c], t)
        BY <1>1, <2>1, RowDecode
    <2>5. QED
        BY <1>4, <2>3, <2>4 DEF t
<1>7. CASE Take(c)
    <2>1. inbox[c] # <<>>
        BY <1>7 DEF Take
    <2>2. /\ inbox'[c] = Tail(inbox[c]) /\ handled'[c] = Append(handled[c], Head(inbox[c]))
          /\ batch' = batch /\ builder' = builder /\ wire' = wire
        BY <1>7 DEF Take, StreamInv, TypeOK
    <2>3. Row(Append(handled[c], Head(inbox[c])), Tail(inbox[c]), batch[c], t)
              = Row(handled[c], inbox[c], batch[c], t)
        BY <1>1, <2>1, RowTake
    <2>4. QED
        BY <1>4, <2>2, <2>3 DEF t
<1>8. QED
    BY <1>5, <1>6, <1>7

\* NothingLost says so of every connection.
LEMMA NothingLostIsKept == NothingLost <=> \A c \in Conns : Kept(c)
BY DEF NothingLost, Kept, Row

\* Nobody has sent anything.
LEMMA InitKept == Init => \A c \in Conns : Kept(c)
<1> SUFFICES ASSUME Init, NEW c \in Conns PROVE Kept(c)
    OBVIOUS
<1>1. /\ sent[c] = <<>> /\ handled[c] = <<>> /\ inbox[c] = <<>> /\ batch[c] = <<>>
      /\ builder[c] = <<>> /\ wire[c] = <<>>
    BY DEF Init
<1>2. Len(<<>> \o <<>>) = 2 * 0 /\ \A i \in 1 .. 0 : FALSE
    OBVIOUS
<1>3. Texts(<<>> \o <<>>) \in Seq(Messages) /\ Len(Texts(<<>> \o <<>>)) = 0
    BY <1>2, TextsOfLines
<1>4. Texts(<<>> \o <<>>) = <<>>
    BY <1>3, EmptySeq
<1>5. <<>> \o <<>> \o <<>> \o <<>> = <<>>
    OBVIOUS
<1>6. QED
    BY <1>1, <1>4, <1>5 DEF Kept, Row

\* Whoever takes the next step.
LEMMA KeptStep ==
    ASSUME StreamInv, [Next]_vars, \A c \in Conns : Kept(c)
    PROVE  \A c \in Conns : Kept(c)'
<1>1. ASSUME NEW c \in Conns, Flows(c) PROVE \A d \in Conns : Kept(d)'
    BY <1>1, SendKept, MoveKept, KeptElsewhere DEF Flows
<1>2. CASE Next /\ \A c \in Conns : ~Flows(c)
    BY <1>2, OtherSteps DEF StreamInv, Kept, streams
<1>3. CASE UNCHANGED vars
    BY <1>3 DEF Kept, vars, streams, ghosts
<1>4. QED
    BY <1>1, <1>2, <1>3

-----------------------------------------------------------------------------
(* Connections that follow one another.                                    *)

\* What a connection has begun: nothing before it is published, no handler
\* before its receiver is started, no connection taken by a handler that is
\* not busy; a reader ends when its socket is reset.
Begun(c) ==
    /\ link[c] = "new" => handler[c] = "none" /\ reader[c] = "none"
    /\ accepting = c => handler[c] = "none" /\ link[c] # "new"
    /\ handler[c] = "none" => reader[c] = "none"
    /\ reader[c] = "over" => link[c] = "reset"
    /\ using[c] # None => handler[c] = "busy"

\* A connection no handler of which does anything any more, or not yet.
Resting(c) ==
    \/ link[c] = "new"
    \/ /\ link[c] # "up"
       /\ handler[c] = "over" \/ (link[c] = "closed" /\ ~Unhandled(c))

\* Only connection n, the newest, is not at rest, and all that is left to be
\* done is for it.
Newest(n) ==
    /\ n # None => link[n] # "new"
    /\ accepting \in {n, None}
    /\ published \in {n, None}
    /\ n # None /\ link[n] = "up" => published = n
    /\ \A s \in Senders : using[s] \in {n, None}
    /\ \A s \in Senders : failed[s] => n # None /\ link[n] # "up" /\ s \in {n, Amp}
    /\ \A c \in Conns : c # n => Resting(c)

\* The invariant: as long as no connection was made while an older one could
\* act, one connection is the newest.
SessionInv ==
    /\ \A c \in Conns : Begun(c)
    /\ ~overlapped => \E n \in Conns \cup {None} : Newest(n)

\* The names of connections, of none and of the amplifier are different ones.
LEMMA Names == \A c \in Conns : c # None /\ c # Amp /\ c \in Senders
BY NamesAssumption DEF Senders

\* Nothing has begun.
LEMMA InitSession == Init => SessionInv
<1> SUFFICES ASSUME Init PROVE SessionInv
    OBVIOUS
<1>1. ASSUME NEW c \in Conns PROVE Begun(c)
    BY <1>1, Names DEF Init, Begun
<1>2. Newest(None)
    BY Names DEF Init, Newest, Resting
<1>3. QED
    BY <1>1, <1>2 DEF SessionInv

\* Every connection begins and ends in order, whoever takes the next step.
LEMMA BegunStep ==
    ASSUME TypeOK, Next, \A c \in Conns : Begun(c)
    PROVE  \A c \in Conns : Begun(c)'
<1> SUFFICES ASSUME NEW c \in Conns PROVE Begun(c)'
    OBVIOUS
<1>1. Begun(c) /\ c # None /\ c # Amp /\ c \in Senders
    BY Names
<1>2. ASSUME NEW d \in Conns, SendMessage(d) \/ ReadSome(d) \/ Decode(d) \/ Done(d) \/ AmpGone(d)
                                  \/ Take(d)
      PROVE  Begun(c)'
    <2>1. UNCHANGED <<link, accepting, reader, using>>
        BY <1>2 DEF SendMessage, ReadSome, Decode, Done, AmpGone, Take
    <2>2. \/ UNCHANGED handler
          \/ handler[d] = "idle" /\ handler' = [handler EXCEPT ![d] = "busy"]
          \/ handler[d] = "busy" /\ using[d] = None
                 /\ \E x \in {"idle", "over"} : handler' = [handler EXCEPT ![d] = x]
        BY <1>2 DEF SendMessage, ReadSome, Decode, Done, AmpGone, Take
    <2>3. CASE UNCHANGED handler
        BY <1>1, <2>1, <2>3 DEF Begun
    <2>4. CASE handler[d] = "idle" /\ handler' = [handler EXCEPT ![d] = "busy"]
        BY <1>1, <2>1, <2>4 DEF Begun, TypeOK
    <2>5. ASSUME NEW x \in {"idle", "over"}, handler[d] = "busy", using[d] = None,
                 handler' = [handler EXCEPT ![d] = x]
          PROVE  Begun(c)'
        BY <1>1, <2>1, <2>5 DEF Begun, TypeOK
    <2>6. QED
        BY <2>2, <2>3, <2>4, <2>5
<1>3. ASSUME NEW d \in Conns, Leave(d) PROVE Begun(c)'
    <2>1. link[d] = "up" /\ \E x \in {"closed", "reset"} : link' = [link EXCEPT ![d] = x]
        BY <1>3 DEF Leave
    <2>2. UNCHANGED <<accepting, reader, handler, using>>
        BY <1>3 DEF Leave
    <2>3. QED
        BY <1>1, <2>1, <2>2 DEF Begun, TypeOK
<1>4. ASSUME NEW d \in Conns, Publish(d) PROVE Begun(c)'
    <2>1. /\ link[d] = "new" /\ link' = [link EXCEPT ![d] = "up"] /\ accepting' = d
          /\ UNCHANGED <<reader, handler, using>>
        BY <1>4 DEF Publish
    <2>2. QED
        BY <1>1, <2>1 DEF Begun, TypeOK
<1>5. ASSUME NEW d \in Conns, StartReceiver(d) PROVE Begun(c)'
    <2>1. /\ accepting = d /\ accepting' = None
          /\ reader' = [reader EXCEPT ![d] = "reading"]
          /\ handler' = [handler EXCEPT ![d] = "idle"]
          /\ UNCHANGED <<link, using>>
        BY <1>5 DEF StartReceiver
    <2>2. CASE c = d
        <3>1. /\ reader'[c] = "reading" /\ handler'[c] = "idle"
              /\ handler[c] = "none" /\ using[c] = None
            BY <1>1, <2>1, <2>2 DEF Begun, TypeOK
        <3>2. link[c] # "new"
            BY <1>1, <2>1, <2>2 DEF Begun
        <3>3. QED
            BY <1>1, <2>1, <3>1, <3>2 DEF Begun
    <2>3. CASE c # d
        BY <1>1, <2>1, <2>3 DEF Begun, TypeOK
    <2>4. QED
        BY <2>2, <2>3
<1>6. ASSUME NEW d \in Conns, ReadFails(d) PROVE Begun(c)'
    BY <1>1, <1>6 DEF ReadFails, Begun, TypeOK, streams
<1>7. ASSUME NEW s \in Senders, TakePublished(s) PROVE Begun(c)'
    BY <1>1, <1>7 DEF TakePublished, Begun, TypeOK
<1>8. ASSUME NEW s \in Senders, Answer(s) PROVE Begun(c)'
    <2>1. /\ using[s] # None /\ using' = [using EXCEPT ![s] = None]
          /\ UNCHANGED <<link, accepting, reader>>
          /\ handler' = IF s = Amp THEN handler
                        ELSE [handler EXCEPT ![s] = IF link[using[s]] = "up" THEN "idle"
                                                    ELSE "over"]
        BY <1>8 DEF Answer
    <2>2. CASE c = s
        <3>1. handler[c] = "busy" /\ handler'[c] \in {"idle", "over"} /\ using'[c] = None
            BY <1>1, <2>1, <2>2 DEF Begun, TypeOK
        <3>2. QED
            BY <1>1, <2>1, <3>1 DEF Begun
    <2>3. CASE c # s
        <3>1. handler'[c] = handler[c] /\ using'[c] = using[c]
            BY <1>1, <2>1, <2>3 DEF TypeOK
        <3>2. QED
            BY <1>1, <2>1, <3>1 DEF Begun
    <2>4. QED
        BY <2>2, <2>3
<1>9. ASSUME NEW d \in Conns, ReaderFailed(d) PROVE Begun(c)'
    BY <1>1, <1>9 DEF ReaderFailed, Begun, TypeOK
<1>10. ASSUME NEW s \in Senders, BluetoothError(s) PROVE Begun(c)'
    BY <1>1, <1>10 DEF BluetoothError, Begun
<1>11. Amp \in Senders /\ \A d \in Conns : d \in Senders
    BY DEF Senders
<1>12. QED
    BY <1>2, <1>3, <1>4, <1>5, <1>6, <1>7, <1>8, <1>9, <1>10, <1>11 DEF Next, Reader, Handler

\* A connection that is accepted after all was done for the others is the
\* newest from then on.
LEMMA PublishNewest ==
    ASSUME TypeOK, \A c \in Conns : Begun(c), NEW n \in Conns \cup {None}, Newest(n),
           NEW c \in Conns, Publish(c), ~overlapped'
    PROVE  Newest(c)'
<1>1. /\ link[c] = "new" /\ link' = [link EXCEPT ![c] = "up"]
      /\ accepting' = c /\ published' = c
      /\ UNCHANGED <<reader, wire, builder, batch, inbox, handler, using, failed>>
    BY DEF Publish, streams
<1>2. \A d \in Conns : Quiet(d)
    BY DEF Publish
<1>3. c # n /\ c # None /\ c # Amp
    BY <1>1, Names DEF Newest
<1>4. link'[c] = "up" /\ \A d \in Conns : d # c => link'[d] = link[d]
    BY <1>1 DEF TypeOK
<1>5. \A s \in Senders : using[s] = None
    <2>1. CASE n = None
        BY <2>1 DEF Newest
    <2>2. CASE n # None
        <3>1. n \in Conns /\ link[n] # "new"
            BY <2>2 DEF Newest
        <3>2. \A s \in Senders : using[s] # n
            BY <1>2, <3>1 DEF Quiet
        <3>3. QED
            BY <3>2 DEF Newest
    <2>3. QED
        BY <2>1, <2>2
<1>6. \A s \in Senders : ~failed[s]
    <2> SUFFICES ASSUME NEW s \in Senders, failed[s] PROVE FALSE
        OBVIOUS
    <2>1. n \in Conns /\ link[n] # "new" /\ s \in {n, Amp}
        BY DEF Newest
    <2>2. ~failed[n] /\ ~failed[Amp]
        BY <1>2, <2>1 DEF Quiet
    <2>3. QED
        BY <2>1, <2>2
<1>7. ASSUME NEW d \in Conns, d # c PROVE Resting(d)'
    <2>1. Quiet(d)
        BY <1>2
    <2>2. Resting(d)
        BY <2>1 DEF Quiet, Resting
    <2>3. QED
        BY <1>1, <1>4, <1>7, <2>2 DEF Resting, Unhandled
<1>8. QED
    BY <1>1, <1>3, <1>4, <1>5, <1>6, <1>7 DEF Newest

\* What is at rest stays so, if it is not the newest.
LEMMA RestingStep ==
    ASSUME TypeOK, NEW c \in Conns, Begun(c), Resting(c), accepting # c,
           \A s \in Senders : using[s] # c, Next, \A d \in Conns : ~Publish(d)
    PROVE  Resting(c)'
<1>0. c # None /\ c # Amp /\ c \in Senders
    BY Names
<1> DEFINE Still == UNCHANGED <<link[c], handler[c], wire[c], builder[c], batch[c], inbox[c]>>
<1>1. Still => Resting(c)'
    BY DEF Resting, Unhandled
<1>2. ASSUME NEW d \in Conns, SendMessage(d) PROVE Still
    <2>1. link[d] = "up" /\ \E x : wire' = [wire EXCEPT ![d] = x]
        BY <1>2 DEF SendMessage
    <2>2. c # d
        BY <2>1 DEF Resting
    <2>3. QED
        BY <1>2, <2>1, <2>2 DEF SendMessage, TypeOK
<1>3. ASSUME NEW d \in Conns, Leave(d) PROVE Still
    <2>1. link[d] = "up" /\ \E x : link' = [link EXCEPT ![d] = x]
        BY <1>3 DEF Leave
    <2>2. c # d
        BY <2>1 DEF Resting
    <2>3. QED
        BY <1>3, <2>1, <2>2 DEF Leave, TypeOK, streams
<1>4. ASSUME NEW d \in Conns, StartReceiver(d) PROVE Still
    BY <1>4 DEF StartReceiver, TypeOK, streams
<1>5. ASSUME NEW d \in Conns, ReadSome(d) \/ Decode(d) PROVE Resting(c)'
    <2>1. UNCHANGED <<link, handler>>
        BY <1>5 DEF ReadSome, Decode
    <2>2. CASE link[c] = "new" \/ (link[c] # "up" /\ handler[c] = "over")
        BY <2>1, <2>2 DEF Resting
    <2>3. CASE link[c] = "closed" /\ ~Unhandled(c)
        <3>1. c # d
            BY <1>5, <2>3 DEF ReadSome, Decode, Unhandled
        <3>2. UNCHANGED <<wire[c], builder[c], batch[c], inbox[c]>>
            <4>1. CASE ReadSome(d)
                <5>1. inbox' = inbox
                    BY <4>1 DEF ReadSome
                <5>2. /\ \E x : wire' = [wire EXCEPT ![d] = x]
                      /\ \E x : builder' = [builder EXCEPT ![d] = x]
                      /\ \E x : batch' = [batch EXCEPT ![d] = x]
                    BY <4>1 DEF ReadSome
                <5>3. QED
                    BY <3>1, <5>1, <5>2 DEF TypeOK
            <4>2. CASE Decode(d)
                BY <3>1, <4>2 DEF Decode, TypeOK
            <4>3. QED
                BY <1>5, <4>1, <4>2
        <3>3. Still
            BY <2>1, <3>2
        <3>4. QED
            BY <1>1, <3>3
    <2>4. QED
        BY <2>2, <2>3 DEF Resting
<1>6. ASSUME NEW d \in Conns, ReadFails(d) PROVE Still
    BY <1>6 DEF ReadFails, streams
<1>7. ASSUME NEW d \in Conns, Take(d) PROVE Still
    <2>1. c # d
        BY <1>7 DEF Take, Begun, Resting, Unhandled
    <2>2. QED
        BY <1>7, <2>1 DEF Take, TypeOK
<1>8. ASSUME NEW d \in Conns, Done(d) \/ AmpGone(d) PROVE Still
    <2>1. c # d
        BY <1>8 DEF Done, AmpGone, Begun, Resting, Unhandled
    <2>2. QED
        BY <1>8, <2>1 DEF Done, AmpGone, TypeOK, streams
<1>9. ASSUME NEW s \in Senders, TakePublished(s) \/ BluetoothError(s) PROVE Still
    BY <1>9 DEF TakePublished, BluetoothError, streams
<1>10. ASSUME NEW s \in Senders, Answer(s) PROVE Still
    <2>1. c # s
        BY <1>10 DEF Answer, Begun, Resting, Unhandled
    <2>2. QED
        BY <1>10, <2>1 DEF Answer, TypeOK, streams
<1>11. ASSUME NEW d \in Conns, ReaderFailed(d) PROVE Still
    <2>1. c # d
        BY <1>11 DEF ReaderFailed, Begun, Resting
    <2>2. QED
        BY <1>11, <2>1 DEF ReaderFailed, TypeOK, streams
<1>12. Amp \in Senders /\ \A d \in Conns : d \in Senders
    BY DEF Senders
<1> HIDE DEF Still
<1>13. QED
    BY <1>1, <1>2, <1>3, <1>4, <1>5, <1>6, <1>7, <1>8, <1>9, <1>10, <1>11, <1>12
    DEF Next, Reader, Handler

\* A handler at rest does not answer, and its connection's reader has not failed.
LEMMA RestingHandler ==
    ASSUME NEW c \in Conns, Begun(c), Resting(c)
    PROVE  /\ handler[c] # "busy"
           /\ ~(reader[c] = "over" /\ handler[c] = "idle")
BY DEF Begun, Resting, Unhandled

\* Until the next connection is made the newest one stays so.
LEMMA NewestStep ==
    ASSUME TypeOK, \A c \in Conns : Begun(c), NEW n \in Conns \cup {None}, Newest(n), Next,
           \A c \in Conns : ~Publish(c)
    PROVE  Newest(n)'
<1>0. /\ \A c \in Conns : c # None /\ c # Amp /\ c \in Senders
      /\ Amp \in Senders
    BY Names DEF Senders
<1>1. \A c \in Conns : c # n => Resting(c)'
    BY <1>0, RestingStep DEF Newest
<1> DEFINE Rest6 == /\ n # None => link'[n] # "new"
                    /\ accepting' \in {n, None}
                    /\ published' \in {n, None}
                    /\ n # None /\ link'[n] = "up" => published' = n
                    /\ \A s \in Senders : using'[s] \in {n, None}
                    /\ \A s \in Senders : failed'[s] => n # None /\ link'[n] # "up"
                                                        /\ s \in {n, Amp}
<1>2. ASSUME UNCHANGED <<link, accepting, published, using, failed>> PROVE Rest6
    BY <1>2 DEF Newest
<1>3. ASSUME NEW c \in Conns, SendMessage(c) \/ Reader(c) \/ Take(c) \/ Done(c) \/ AmpGone(c)
      PROVE  Rest6
    BY <1>2, <1>3 DEF SendMessage, Reader, ReadSome, ReadFails, Decode, Take, Done, AmpGone
<1>4. ASSUME NEW c \in Conns, Leave(c) PROVE Rest6
    <2>1. \E x \in {"closed", "reset"} : link' = [link EXCEPT ![c] = x]
        BY <1>4 DEF Leave
    <2>2. UNCHANGED <<accepting, published, using, failed>>
        BY <1>4 DEF Leave
    <2>3. n # None => n \in Conns
        OBVIOUS
    <2>4. n # None => link'[n] # "new" /\ (link'[n] = "up" => link[n] = "up")
        BY <2>1, <2>3 DEF TypeOK, Newest
    <2>5. n # None /\ link[n] # "up" => link'[n] # "up"
        BY <2>4
    <2>6. QED
        BY <2>2, <2>4, <2>5 DEF Newest
<1>5. ASSUME NEW c \in Conns, StartReceiver(c) PROVE Rest6
    BY <1>5 DEF StartReceiver, Newest
<1>6. ASSUME NEW s \in Senders, TakePublished(s) PROVE Rest6
    BY <1>6 DEF TakePublished, Newest, TypeOK
<1>7. ASSUME NEW s \in Senders, Answer(s) PROVE Rest6
    <2>1. /\ using[s] # None /\ using' = [using EXCEPT ![s] = None]
          /\ failed' = [failed EXCEPT ![s] = link[using[s]] # "up"]
          /\ UNCHANGED <<link, accepting, published>>
        BY <1>7 DEF Answer
    <2>2. using[s] = n /\ n # None
        BY <2>1 DEF Newest
    <2>3. s \in {n, Amp}
        <3>1. CASE s \in Conns
            <4>1. handler[s] = "busy"
                BY <2>1, <3>1 DEF Begun
            <4>2. QED
                BY <3>1, <4>1, RestingHandler DEF Newest
        <3>2. CASE s \notin Conns
            BY <3>2 DEF Senders
        <3>3. QED
            BY <3>1, <3>2
    <2>4. \A r \in Senders : using'[r] \in {n, None}
        BY <2>1 DEF Newest, TypeOK
    <2>5. \A r \in Senders : failed'[r] => link[n] # "up" /\ r \in {n, Amp}
        BY <2>1, <2>2, <2>3 DEF Newest, TypeOK
    <2>6. QED
        BY <2>1, <2>2, <2>4, <2>5 DEF Newest
<1>8. ASSUME NEW c \in Conns, ReaderFailed(c) PROVE Rest6
    <2>1. /\ reader[c] = "over" /\ handler[c] = "idle"
          /\ failed' = [failed EXCEPT ![c] = TRUE]
          /\ UNCHANGED <<link, accepting, published, using>>
        BY <1>8 DEF ReaderFailed
    <2>2. c = n /\ n # None /\ link[n] # "up"
        <3>1. c = n
            BY <2>1, RestingHandler DEF Newest
        <3>2. QED
            BY <1>0, <2>1, <3>1 DEF Begun
    <2>3. \A r \in Senders : failed'[r] => link[n] # "up" /\ r \in {n, Amp}
        BY <2>1, <2>2 DEF Newest, TypeOK
    <2>4. QED
        BY <2>1, <2>2, <2>3 DEF Newest
<1>9. ASSUME NEW s \in Senders, BluetoothError(s) PROVE Rest6
    <2>1. /\ failed[s] /\ failed' = [failed EXCEPT ![s] = FALSE]
          /\ published' = None
          /\ UNCHANGED <<link, accepting, using>>
        BY <1>9 DEF BluetoothError
    <2>2. n # None /\ link[n] # "up"
        BY <2>1 DEF Newest
    <2>3. \A r \in Senders : failed'[r] => failed[r]
        BY <2>1 DEF TypeOK
    <2>4. QED
        BY <2>1, <2>2, <2>3 DEF Newest
<1> HIDE DEF Rest6
<1>10. Rest6
    BY <1>0, <1>3, <1>4, <1>5, <1>6, <1>7, <1>8, <1>9 DEF Next, Handler
<1>11. QED
    BY <1>1, <1>10 DEF Rest6, Newest

\* Whoever takes the next step.
LEMMA SessionStep == StreamInv /\ SessionInv /\ [Next]_vars => SessionInv'
<1> SUFFICES ASSUME StreamInv, SessionInv, [Next]_vars PROVE SessionInv'
    OBVIOUS
<1>1. TypeOK /\ \A c \in Conns : Begun(c)
    BY DEF StreamInv, SessionInv
<1>2. CASE Next
    <2>1. \A c \in Conns : Begun(c)'
        BY <1>1, <1>2, BegunStep
    <2>2. ASSUME ~overlapped' PROVE \E n \in Conns \cup {None} : Newest(n)'
        <3>1. ~overlapped
            BY <1>2, <2>2 DEF Next, SendMessage, Leave, Publish, StartReceiver, Reader, ReadSome,
                ReadFails, Decode, Handler, Take, Done, AmpGone, TakePublished, Answer,
                ReaderFailed, BluetoothError, ghosts
        <3>2. PICK n \in Conns \cup {None} : Newest(n)
            BY <3>1 DEF SessionInv
        <3>3. CASE \A c \in Conns : ~Publish(c)
            BY <1>1, <1>2, <3>2, <3>3, NewestStep
        <3>4. ASSUME NEW c \in Conns, Publish(c) PROVE Newest(c)'
            BY <1>1, <2>2, <3>2, <3>4, PublishNewest
        <3>5. QED
            BY <3>3, <3>4
    <2>3. QED
        BY <2>1, <2>2 DEF SessionInv
<1>3. CASE UNCHANGED vars
    BY <1>3 DEF SessionInv, Begun, Newest, Resting, Unhandled, vars, streams, ghosts
<1>4. QED
    BY <1>2, <1>3

\* Both invariants hold throughout.
LEMMA SessionInvariant == Spec => [](StreamInv /\ SessionInv)
BY InitStream, StreamStep, InitSession, SessionStep, PTL DEF Spec

-----------------------------------------------------------------------------
(* Theorems.                                                               *)

\* The variables keep their types: only texts are decoded, never the end of a
\* line or two lines at once, and only what decodes reaches bluetoothMessage.
THEOREM SessionTypeCorrect == Spec => []TypeOK
<1>1. StreamInv => TypeOK
    BY DEF StreamInv
<1>2. QED
    BY <1>1, StreamInvariant, PTL

\* However the reads part and join the lines of a phone, startReceiver gives
\* every message to the handler once and in order, as long as all decode: for
\* any number of connections, messages and reads.
THEOREM SessionsLoseNothing == Spec => []NothingLost
<1>1. Init => NothingLost
    BY InitKept, NothingLostIsKept
<1>2. StreamInv /\ NothingLost /\ [Next]_vars => NothingLost'
    <2> SUFFICES ASSUME StreamInv, NothingLost, [Next]_vars PROVE NothingLost'
        OBVIOUS
    <2>1. \A c \in Conns : Kept(c)'
        BY KeptStep, NothingLostIsKept
    <2>2. QED
        BY <2>1 DEF NothingLost, Kept, Row
<1>3. QED
    BY <1>1, <1>2, StreamInvariant, PTL DEF Spec

\* While each connection is accepted after all was done for the ones before, a
\* handler has only its own connection to answer on.
THEOREM HandlersAnswerAsker == Spec => []AnswersAsker
<1>1. SessionInv => AnswersAsker
    <2> SUFFICES ASSUME SessionInv, ~overlapped, NEW c \in Conns PROVE using[c] \in {c, None}
        BY DEF AnswersAsker
    <2>1. PICK n \in Conns \cup {None} : Newest(n)
        BY DEF SessionInv
    <2>2. c \in Senders
        BY Names
    <2>3. CASE c = n
        BY <2>1, <2>2, <2>3 DEF Newest
    <2>4. CASE c # n
        <3>1. handler[c] # "busy"
            BY <2>1, <2>4, RestingHandler DEF Newest, SessionInv
        <3>2. QED
            BY <3>1 DEF SessionInv, Begun
    <2>5. QED
        BY <2>3, <2>4
<1>2. QED
    BY <1>1, SessionInvariant, PTL

\* ... and the connection of a phone that is there is the published one: no
\* error of an earlier connection takes it away.
THEOREM UpIsPublished == Spec => []ConnectedIsPublished
<1>1. SessionInv => ConnectedIsPublished
    <2> SUFFICES ASSUME SessionInv, ~overlapped, NEW c \in Conns, link[c] = "up"
                 PROVE  published = c
        BY DEF ConnectedIsPublished
    <2>1. PICK n \in Conns \cup {None} : Newest(n)
        BY DEF SessionInv
    <2>2. c = n
        BY <2>1 DEF Newest, Resting
    <2>3. QED
        BY <2>1, <2>2, Names DEF Newest
<1>2. QED
    BY <1>1, SessionInvariant, PTL

=============================================================================
