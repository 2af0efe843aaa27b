------------------------------- MODULE Stdin --------------------------------
(***************************************************************************)
(* The iterator over the standard input (driver/src/stdin.rs): it asks for *)
(* a line, again after a line it cannot parse, and gives up on a blank     *)
(* line, at the end of the input, or when reading fails.                   *)
(***************************************************************************)
EXTENDS Text

CONSTANT MaxNarrow     \* T::max_value() of the number type a program is run with

ASSUME NarrowAssumption == MaxNarrow \in 1..MaxInt

VARIABLES
    terminal,    \* the lines that are still to be typed; the end of the input after them
    count,       \* Stdin::i, the number of items returned
    prompted     \* the number that the last prompt shows

terminalvars == <<terminal, count, prompted>>

\* A line with bytes that are no text: reading it is an error.
NotText == Line("not text", << >>)

\* A line that is a number, for T::from_str.
NumberLine(n) == Line("number", <<[mark |-> "", n |-> n]>>)

Narrow == (-MaxNarrow - 1)..MaxNarrow

\* FromStr of the items asked for: the item that the line is, if it is one.
ItemOf(type, line) ==
    IF type = "instruction" /\ FromStr(line).err = NoError THEN <<FromStr(line).inst>>
    ELSE IF type = "number" /\ line.word = "number" /\ line.param[1].n \in Narrow
         THEN <<line.param[1].n>>
    ELSE << >>

\* A bug: the end of the input, which reads as no text, is asked again.
OnlyBlanks(lines) == lines # << >> /\ Head(lines) \in {Blank, NotText}

\* The lines on which next() returns None.
GivesUp(lines) == lines # << >> => Head(lines) \in {Blank, NotText}

Typed == IF terminal = << >> THEN << >> ELSE Tail(terminal)

\* One iteration of the loop in next(), which prompts first.
Ask(offset) == prompted' = count + offset /\ terminal' = Typed

\* next() returns None.
NextNone(type, offset) ==
    /\ GivesUp(terminal)
    /\ Ask(offset)
    /\ UNCHANGED count

\* The item that next() returns.
Item(type) == IF terminal = << >> THEN << >> ELSE ItemOf(type, Head(terminal))

\* next() returns Some.
NextSome(type, offset) ==
    /\ ~GivesUp(terminal)
    /\ Item(type) # << >>
    /\ Ask(offset)
    /\ count' = count + 1

\* The line is not what was asked for: a message, and the loop goes on.
NextAgain(type, offset) ==
    /\ ~GivesUp(terminal)
    /\ Item(type) = << >>
    /\ Ask(offset)
    /\ UNCHANGED count
=============================================================================
