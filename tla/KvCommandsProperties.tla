------------------------ MODULE KvCommandsProperties ------------------------
(***************************************************************************)
(* parse_command against what a line says, read as a whole and not split.  *)
(* A line is typed piece by piece, up to MaxPieces.                        *)
(***************************************************************************)
EXTENDS KvCommands

CONSTANT MaxPieces   \* bound: pieces of a line

VARIABLE line

Type(p) == Len(line) < MaxPieces /\ line' = Append(line, p)

Typing == line = <<>> /\ [][\E p \in Piece : Type(p)]_line

-----------------------------------------------------------------------------
Parsed == parse_command(line)

Body == Trim(line)
Blanks == {i \in 1..Len(Body) : Body[i] = Blank}

\* What stands after position i, up to the next blank or the end.
Stretch(i) ==
  LET later == {j \in Blanks : j > i} \union {Len(Body) + 1}
  IN  SubSeq(Body, i + 1, CHOOSE j \in {k - 1 : k \in later} : \A k \in later : j < k)

Names(name) ==
  LET w == Trim(Stretch(0))
  IN  Len(w) = 1 /\ Lowercase(w[1]) = name

\* A line is the operation it names, in any case, if anything follows the name:
\* the key stands after the first blank, the value after the next one.
Written ==
  LET first == Len(Stretch(0)) + 1
      key == Stretch(first)
      second == first + Len(key) + 1
  IN  IF first \notin Blanks THEN Invalid
      ELSE IF Names("get") THEN [op |-> "Get", key |-> key]
      ELSE IF Names("delete") THEN [op |-> "Delete", key |-> key]
      ELSE IF ~Names("set") THEN Invalid
      ELSE IF second \notin Blanks THEN Panics
      ELSE [op |-> "Set", key |-> key, text |-> Stretch(second)]

\* parse_command finds what is written, word by word: white space around the
\* line and further words make no difference, white space that is not a blank
\* does not part words, and two blanks in a row hold an empty one.
ParsesAsWritten == Parsed = Written
=============================================================================
