------------------------------ MODULE LineText ------------------------------
(***************************************************************************)
(* From bytes to lines (readString and startReceiver of                    *)
(* bluetooth/BluetoothConnection.kt).  Each read is decoded on its own, so *)
(* a character of several bytes that a read parts is not read as itself,   *)
(* and what a read has behind a 0 byte is not decoded at all.              *)
(* BtSessions takes a line's text as one piece; here it has characters, of *)
(* one byte to four.                                                       *)
(***************************************************************************)
EXTENDS Naturals, SequencesExt

CONSTANTS Characters,  \* the characters of a phone's lines
          MaxSent      \* bound: characters a phone sends, newlines included

Newline == "nl"
Blank   == " "
Nul     == "nul"       \* the character of a 0 byte
Bad     == "bad"       \* the replacement character

ASSUME CharactersAssumption == {Newline, Bad} \cap Characters = {}

\* How many bytes a character has.
Bytes(c) ==
    CASE c = "two"   -> 2
      [] c = "three" -> 3
      [] c = "four"  -> 4
      [] OTHER       -> 1

VARIABLES
    sent,      \* all characters the phone has sent
    taken,     \* how many of these have been read ...
    inside,    \* ... and how many bytes of the one behind them,
    fresh,     \* so many of these in the read there is
    phase,     \* where startReceiver is: "waiting" in read, in "toKString", in "forEach"
    cut,       \* the read has had a 0 byte
    builder,   \* the StringBuilder
    batch,     \* what forEach has not got to yet
    lines,     \* the lines that were handed on to the serializer
    dealt,     \* ghost: the last newline forEach has got to
    parted,    \* ghost: the characters that a read has parted
    gone       \* ghost: the characters that no line has been or will be given

textVars == <<sent, taken, inside, fresh, phase, cut, builder, batch, lines, dealt, parted, gone>>

TextInit ==
    /\ sent = <<>>
    /\ taken = 0
    /\ inside = 0
    /\ fresh = 0
    /\ phase = "waiting"
    /\ cut = FALSE
    /\ builder = <<>>
    /\ batch = <<>>
    /\ lines = <<>>
    /\ dealt = 0
    /\ parted = {}
    /\ gone = {}

\* The phone sends a character.
SendCharacter ==
    /\ Len(sent) < MaxSent
    /\ \E c \in Characters \cup {Newline} : sent' = Append(sent, c)
    /\ UNCHANGED <<taken, inside, fresh, phase, cut, builder, batch, lines, dealt, parted, gone>>

-----------------------------------------------------------------------------
(* A read and its toKString.                                               *)

\* A character as it is decoded.  `of` says which of the phone's it was, or
\* was some bytes of; the code does not see that.
Piece(char, of) == [char |-> char, of |-> of]

\* Bytes that are not a whole character are at least one bad one, and at most
\* one each.
BadPieces(of, n) == {[i \in 1 .. k |-> Piece(Bad, of)] : k \in 1 .. n}

\* The next byte is one of a character, not the last.
DecodePart ==
    /\ inside + 1 < Bytes(sent[taken + 1])
    /\ inside' = inside + 1
    /\ fresh' = fresh + 1
    /\ UNCHANGED <<taken, cut, builder, gone>>

\* ... or the last one of a character that is not decoded: a 0 byte, or behind
\* one in the same read.
SkipCharacter ==
    /\ inside + 1 = Bytes(sent[taken + 1])
    /\ cut \/ sent[taken + 1] = Nul
    /\ cut' = TRUE
    /\ gone' = gone \cup {taken + 1}
    /\ taken' = taken + 1
    /\ inside' = 0
    /\ fresh' = 0
    /\ UNCHANGED builder

\* ... or of one that is, though not as itself if a read has parted it.
DecodeCharacter ==
    /\ inside + 1 = Bytes(sent[taken + 1])
    /\ ~cut /\ sent[taken + 1] # Nul
    /\ \E pieces \in IF fresh = inside THEN {<<Piece(sent[taken + 1], taken + 1)>>}
                                       ELSE BadPieces(taken + 1, fresh + 1) :
          builder' = builder \o pieces
    /\ taken' = taken + 1
    /\ inside' = 0
    /\ fresh' = 0
    /\ UNCHANGED <<cut, gone>>

DecodeByte ==
    /\ phase \in {"waiting", "toKString"}
    /\ taken < Len(sent)
    /\ DecodePart \/ SkipCharacter \/ DecodeCharacter
    /\ phase' = "toKString"
    /\ UNCHANGED <<sent, batch, lines, dealt, parted>>

-----------------------------------------------------------------------------
(* The builder and its lines.                                              *)

\* A mutated form of LastDelimiter: the first one.
FirstDelimiter(text) == SelectInSeq(text, LAMBDA p : p.char = Newline)

LastDelimiter(text) == SelectLastInSeq(text, LAMBDA p : p.char = Newline)

\* What the builder may be once the read has ended.
Decoded ==
    IF fresh > 0 /\ ~cut THEN {builder \o pieces : pieces \in BadPieces(taken + 1, fresh)}
                         ELSE {builder}

\* The read ends here, wherever that is: the lines that are complete are cut
\* off, the rest stays in the builder.
EndRead ==
    /\ phase = "toKString"
    /\ \E text \in Decoded :
          LET last == LastDelimiter(text)
          IN /\ batch' = SubSeq(text, 1, last)
             /\ builder' = SubSeq(text, last + 1, Len(text))
             /\ phase' = IF last = 0 THEN "waiting" ELSE "forEach"
    /\ fresh' = 0
    /\ cut' = FALSE
    /\ parted' = IF fresh > 0 THEN parted \cup {taken + 1} ELSE parted
    /\ UNCHANGED <<sent, taken, inside, lines, dealt, gone>>

IsBlank(line) == \A i \in DOMAIN line : line[i].char = Blank

\* The characters of the phone's that the pieces were.
Numbers(pieces) == {pieces[i].of : i \in DOMAIN pieces}

\* The next line of split, which is handed on unless it is blank.  If it is no
\* message, the exception drops the other lines of the read.
NextLine ==
    /\ phase = "forEach"
    /\ \E i \in DOMAIN batch :
          /\ batch[i].char = Newline
          /\ \A j \in 1 .. i - 1 : batch[j].char # Newline
          /\ dealt' = batch[i].of
          /\ LET line == SubSeq(batch, 1, i - 1)
                 rest == SubSeq(batch, i + 1, Len(batch))
             IN /\ lines' = IF IsBlank(line) THEN lines ELSE Append(lines, line)
                /\ \/ /\ batch' = rest
                      /\ phase' = IF rest = <<>> THEN "waiting" ELSE "forEach"
                      /\ UNCHANGED gone
                   \/ /\ ~IsBlank(line)
                      /\ batch' = <<>>
                      /\ phase' = "waiting"
                      /\ gone' = gone \cup Numbers(rest)
    /\ UNCHANGED <<sent, taken, inside, fresh, cut, builder, parted>>

TextNext == SendCharacter \/ DecodeByte \/ EndRead \/ NextLine

TextSpec == TextInit /\ [][TextNext]_textVars

-----------------------------------------------------------------------------
(* What the lines of a phone become.                                       *)

\* The character it was, unless a read has parted that one.
Faithful(piece) == piece.char = IF piece.of \in parted THEN Bad ELSE sent[piece.of]

\* A newline that has got to the builder, and what has got there of the line
\* that it ends.
EndsLine(n) == sent[n] = Newline /\ n \notin gone
LineEnding(n) == {k \in (1 .. n - 1) \ gone : \A j \in k .. n - 1 : ~EndsLine(j)}

\* The line that n ends, in order, nothing twice but what is bad.
IsLine(line, n) ==
    /\ EndsLine(n)
    /\ Numbers(line) = LineEnding(n)
    /\ \A i \in DOMAIN line : Faithful(line[i])
    /\ \A i, j \in DOMAIN line :
          i < j => line[i].of < line[j].of \/ (line[i].of = line[j].of /\ line[i].char = Bad)

\* Wherever reads end, a phone's lines arrive in order, and each that is not
\* blank does.  What may be missing, so that lines are shortened, joined or
\* lost, is only what a read had from a 0 byte on (toKString) and what followed
\* in its read on a line that is no message (the catch); what may be damaged
\* is only a character that a read parts, which arrives as bad ones
\* (bluetooth/BluetoothConnection.kt:64).
LinesArrive ==
    /\ \A k \in DOMAIN lines : \E n \in 1 .. taken : IsLine(lines[k], n)
    /\ \A j, k \in DOMAIN lines :
          j < k => \A a \in Numbers(lines[j]), b \in Numbers(lines[k]) : a < b
    /\ phase = "waiting" =>
          \A n \in 1 .. taken :
             EndsLine(n) /\ (\E m \in LineEnding(n) : sent[m] # Blank) =>
                 \E k \in DOMAIN lines : IsLine(lines[k], n)

=============================================================================
