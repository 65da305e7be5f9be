----------------------------- MODULE KvCommands -----------------------------
(***************************************************************************)
(* What parse_command and validate make of a line.  A line is a sequence   *)
(* of pieces: words, the blank that split(" ") splits at, and any other    *)
(* white space, which only trim knows.  Pieces that stand next to each     *)
(* other make one word of the program.                                     *)
(***************************************************************************)
EXTENDS Naturals, Sequences, SequencesExt

CONSTANTS
  Upper,    \* operation names in other cases: Upper[p] is p in lower case
  Plain     \* words that no operation is named by

Blank == " "
White == {Blank, "\t"}
Operations == {"set", "get", "delete"}
Piece == Operations \union DOMAIN Upper \union Plain \union White

ASSUME PieceAssumption ==
  /\ \A p \in DOMAIN Upper : Upper[p] \in Operations
  /\ Plain \intersect (Operations \union DOMAIN Upper \union White) = {}

\* str::trim
Trim(s) ==
  LET ink == {i \in 1..Len(s) : s[i] \notin White}
  IN  IF ink = {} THEN <<>>
      ELSE SubSeq(s, CHOOSE i \in ink : \A j \in ink : i <= j,
                     CHOOSE i \in ink : \A j \in ink : j <= i)

\* Mutant of Split: split_whitespace.
SplitWhitespace(s) ==
  FoldLeft(LAMBDA words, p :
             IF p \in White THEN Append(words, <<>>)
             ELSE [words EXCEPT ![Len(words)] = Append(@, p)],
           << <<>> >>, s)

\* str::split(" "): two blanks in a row have an empty word between them.
Split(s) ==
  FoldLeft(LAMBDA words, p :
             IF p = Blank THEN Append(words, <<>>)
             ELSE [words EXCEPT ![Len(words)] = Append(@, p)],
           << <<>> >>, s)

Lowercase(p) == IF p \in DOMAIN Upper THEN Upper[p] ELSE p

NoOperation == "none"

parse_opr(word) ==
  LET w == Trim(word)
  IN  IF Len(w) = 1 /\ Lowercase(w[1]) \in Operations
      THEN Lowercase(w[1]) ELSE NoOperation

\* One word is no command; from two on the first decides.
validate(line) ==
  LET words == Split(Trim(line))
  IN  IF Len(words) = 1 THEN NoOperation ELSE parse_opr(words[1])

Invalid == [op |-> "Invalid"]
\* An index out of bounds: res.1[2] of two words.
Panics == [op |-> "Short"]

\* Words after those that the operation has a use for are ignored.
parse_command(line) ==
  LET words == Split(Trim(line))
      opr == validate(line)
  IN  IF opr = NoOperation THEN Invalid
      ELSE IF opr = "get" THEN [op |-> "Get", key |-> words[2]]
      ELSE IF opr = "delete" THEN [op |-> "Delete", key |-> words[2]]
      ELSE IF Len(words) < 3 THEN Panics
      ELSE [op |-> "Set", key |-> words[2], text |-> words[3]]
=============================================================================
