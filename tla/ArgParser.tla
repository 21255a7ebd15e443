----------------------------- MODULE ArgParser -----------------------------
(***************************************************************************)
(* The command line (cli/ArgParser.kt) with the options main declares.     *)
(* The parser looks for each option anywhere in the line and takes the     *)
(* word behind it; the line is never read from left to right.              *)
(***************************************************************************)
EXTENDS Naturals, SequencesExt

CONSTANTS Words,     \* the words of command lines
          Plain,     \* words that do not begin with "-"
          MaxWords   \* bound: words of a command line

VARIABLES
    args,   \* the command line
    scan    \* what a reader from left to right has made of it

argsVars == <<args, scan>>

Nothing == "nothing"   \* no name, no value

\* An option as main declares it.
Option(shortName, longName, takesValue, required) ==
    [shortName |-> shortName, longName |-> longName, takesValue |-> takesValue,
     required |-> required]

Options == {
    Option("-h", "--help", FALSE, FALSE),
    Option("-m", "--midiFile", TRUE, TRUE),
    Option(Nothing, "--disableUart", FALSE, FALSE),
    Option(Nothing, "--disableHeartBeat", FALSE, FALSE),
    Option("-c", "--console", FALSE, FALSE),
    Option("-p", "--presetFile", TRUE, FALSE),
    Option("-d", "--debug", FALSE, FALSE)}

Flags  == {o \in Options : ~o.takesValue}
Valued == {o \in Options : o.takesValue}
Help   == CHOOSE o \in Options : o.longName = "--help"

Names == UNION {{o.shortName, o.longName} : o \in Options}

ASSUME PlainAssumption == Plain \cap Names = {}
ASSUME WordsAssumption == Nothing \notin Words

IndexOf(word) == SelectInSeq(args, LAMBDA w : w = word)

\* Where the option is named, its short name first; 0 if nowhere.
GetIndex(o) == IF IndexOf(o.shortName) # 0 THEN IndexOf(o.shortName) ELSE IndexOf(o.longName)

\* A mutated form of HasValue: what begins with "-" is taken for a value.
HasAnyValue(i) == i < Len(args)

\* The word behind i is a value.
HasValue(i) == i < Len(args) /\ args[i + 1] \in Plain

\* The option makes inject throw.
Fails(o) ==
    \/ GetIndex(o) = 0 /\ o.required
    \/ GetIndex(o) # 0 /\ o.takesValue /\ ~HasValue(GetIndex(o))

\* What a line makes of main: how it ends, the flags that are set and the
\* values by option.
Outcome(end, flags, values) == [end |-> end, flags |-> flags, values |-> values]
Stops(end) == Outcome(end, {}, [o \in Valued |-> Nothing])

Parse ==
    CASE GetIndex(Help) # 0 ->
            Stops("help")
      [] GetIndex(Help) = 0 /\ \E o \in Options : Fails(o) ->
            Stops("invalid")
      [] OTHER ->
            Outcome("start",
                    {o \in Flags : GetIndex(o) # 0},
                    [o \in Valued |-> IF GetIndex(o) = 0 THEN Nothing ELSE args[GetIndex(o) + 1]])

-----------------------------------------------------------------------------
(* The same line as a reader takes it: from left to right.                 *)

Named(word) == {o \in Options : word \in {o.shortName, o.longName}}

\* `pending` are the options that wait for a value (one at most), `bad` says
\* that one has waited in vain.
ScanStep(s, word) ==
    IF word \in Plain
    THEN [s EXCEPT !.values = [o \in Valued |-> IF o \in s.pending THEN word ELSE @[o]],
                   !.pending = {}]
    ELSE [s EXCEPT !.named = @ \cup Named(word),
                   !.bad = @ \/ s.pending # {},
                   !.pending = Named(word) \cap Valued]

ScanStart ==
    [named |-> {}, pending |-> {}, bad |-> FALSE, values |-> [o \in Valued |-> Nothing]]

\* What the line comes to if it ends here.
Scanned(s) ==
    CASE Help \in s.named -> Stops("help")
      [] Help \notin s.named
         /\ (s.bad \/ s.pending # {} \/ \E o \in Options \ s.named : o.required) ->
            Stops("invalid")
      [] OTHER -> Outcome("start", s.named \cap Flags, s.values)

-----------------------------------------------------------------------------
(* Lines grow by a word; what there is so far is a line as well.           *)

ArgsInit == args = <<>> /\ scan = ScanStart

NextWord ==
    /\ Len(args) < MaxWords
    /\ \E word \in Words :
          /\ args' = Append(args, word)
          /\ scan' = ScanStep(scan, word)

ArgsSpec == ArgsInit /\ [][NextWord]_argsVars

\* No option is named twice.
NamedOnce == \A i, j \in DOMAIN args : i # j => Named(args[i]) \cap Named(args[j]) = {}

\* Looking for each option separately (cli/ArgParser.kt:124, 161) makes the
\* same of a line as reading it from left to right, as long as no option is
\* named twice: no word is a value and an option at once, and help wins.
ArgsMatchScan == NamedOnce => Parse = Scanned(scan)

=============================================================================
