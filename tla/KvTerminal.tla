----------------------------- MODULE KvTerminal -----------------------------
(***************************************************************************)
(* quaso-cli and the session that serves it (main of kv and                *)
(* handle_client), as two ends of one connection.  Nothing on the wire     *)
(* says where a message ends: each end takes what one read_buf into an     *)
(* empty Vec gives it, ReadSize at most, for a whole message.  Bytes are   *)
(* counted in units, of which ReadSize is a few; a message that fits one   *)
(* read is written and arrives in one piece.  What the store does between  *)
(* a command and its answer is KvStore's: here the session works on it for *)
(* as long as it likes, since it may have to wait for the storage lock or  *)
(* for client_tx, which another client that does not read can hold.        *)
(***************************************************************************)
EXTENDS Naturals, Sequences

CONSTANTS
  ReadSize,     \* units that one read_buf takes at most: 64 bytes
  Sizes,        \* how long lines and answers may be
  MaxLines      \* bound: how many lines the user types in all

ASSUME WireAssumption ==
  /\ ReadSize \in Nat \ {0} /\ MaxLines \in Nat
  /\ Sizes \subseteq Nat \ {0}

VARIABLES
  cli,      \* what quaso-cli waits for
  session,  \* what the task at the other end does
  buf,      \* the command that it works on, as it was read
  typed,    \* how many lines have been sent
  up, down, \* what is on the wire, in units
  shown,    \* what quaso-cli has printed last
  long      \* a message has been longer than one read

vars == <<cli, session, buf, typed, up, down, shown, long>>

\* A message, unit by unit.
Message(m, size) == [i \in 1..size |-> [of |-> m, last |-> i = size]]
Line(i, sort) == [line |-> i, sort |-> sort]
\* As if it were the answer to a line before the first.
Greeting == Message(Line(0, "parses"), 1)

ReadOf(stream) ==
  SubSeq(stream, 1, IF Len(stream) < ReadSize THEN Len(stream) ELSE ReadSize)
RestOf(stream) == SubSeq(stream, Len(ReadOf(stream)) + 1, Len(stream))

Whole(s) == Len(s) > 0 /\ s[Len(s)].last /\ \A i \in 1..Len(s) : s[i].of = s[1].of

\* A read that ends within a message may have cut a character in two.
MayBeCut(s) == ~s[Len(s)].last

Init ==
  /\ cli = "greeting" /\ session = "greeting"
  /\ typed = 0
  /\ buf = <<>> /\ up = <<>> /\ down = <<>> /\ shown = <<>>
  /\ long = FALSE

-----------------------------------------------------------------------------
(* The server's end *)

\* "OK." or "WARN. Not Leader"
Greet ==
  /\ session = "greeting" /\ session' = "reading"
  /\ down' = down \o Message(Greeting, 1)
  /\ UNCHANGED <<cli, buf, typed, up, shown, long>>

\* What one read took is one command.  A piece of a line, or of two, may be any.
ReadCommand ==
  /\ session = "reading" /\ up # <<>>
  /\ Whole(ReadOf(up)) => ReadOf(up)[1].of.sort = "parses"
  /\ session' = "working"
  /\ buf' = ReadOf(up) /\ up' = RestOf(up)
  /\ UNCHANGED <<cli, typed, down, shown, long>>

\* parse_command panics on a "set" without a value, from_utf8 on half a character.
SessionPanics ==
  /\ session = "reading" /\ up # <<>>
  /\ Whole(ReadOf(up)) => ReadOf(up)[1].of.sort = "panics"
  /\ session' = "ended"
  /\ up' = <<>>
  /\ UNCHANGED <<cli, buf, typed, down, shown, long>>

\* Mutant of Answer: a command of a node that is not leader gets no answer.
AnswerOrNot(size) ==
  /\ session = "working"
  /\ session' = "reading"
  /\ down' \in {down, down \o Message(buf, size)}
  /\ buf' = <<>>
  /\ long' = (long \/ size > ReadSize)
  /\ UNCHANGED <<cli, typed, up, shown>>

\* The command gets one answer, when the locks that it needs are free.
Answer(size) ==
  /\ session = "working"
  /\ session' = "reading"
  /\ down' = down \o Message(buf, size)
  /\ buf' = <<>>
  /\ long' = (long \/ size > ReadSize)
  /\ UNCHANGED <<cli, typed, up, shown>>

\* Nothing to read but the end of the stream.
SessionEnds ==
  /\ session = "reading" /\ up = <<>> /\ cli = "ended"
  /\ session' = "ended"
  /\ UNCHANGED <<cli, buf, typed, up, down, shown, long>>

-----------------------------------------------------------------------------
(* The terminal's end.  A line that validate rejects goes no further. *)

\* Mutant of ReadGreeting: the greeting is left on the wire.
SkipGreeting ==
  /\ cli = "greeting" /\ cli' = "prompt"
  /\ UNCHANGED <<session, buf, typed, up, down, shown, long>>

ReadGreeting ==
  /\ cli = "greeting" /\ down # <<>>
  /\ shown' = ReadOf(down) /\ down' = RestOf(down)
  /\ cli' = "prompt"
  /\ UNCHANGED <<session, buf, typed, up, long>>

\* A line goes up as it is, without an end of line.  The write to a session that
\* has ended may be noticed, which ends quaso-cli too.
TypeLine(sort, size) ==
  /\ cli = "prompt" /\ typed < MaxLines
  /\ typed' = typed + 1
  /\ long' = (long \/ size > ReadSize)
  /\ IF session = "ended"
     THEN cli' \in {"answer", "ended"} /\ UNCHANGED up
     ELSE cli' = "answer" /\ up' = up \o Message(Line(typed', sort), size)
  /\ UNCHANGED <<session, buf, down, shown>>

TypeExit ==
  /\ cli = "prompt" /\ cli' = "ended"
  /\ UNCHANGED <<session, buf, typed, up, down, shown, long>>

\* One read is taken for the answer.  Half a character ends quaso-cli.
ReadAnswer ==
  /\ cli = "answer" /\ down # <<>>
  /\ shown' = ReadOf(down) /\ down' = RestOf(down)
  /\ cli' \in {"prompt"} \union IF MayBeCut(ReadOf(down)) THEN {"ended"} ELSE {}
  /\ UNCHANGED <<session, buf, typed, up, long>>

\* The session is gone: the read ends empty, which is printed like an answer, or
\* with an error.
ReadEnd ==
  /\ cli = "answer" /\ down = <<>> /\ session = "ended"
  /\ shown' = <<>>
  /\ cli' \in {"prompt", "ended"}
  /\ UNCHANGED <<session, buf, typed, up, down, long>>

-----------------------------------------------------------------------------
Server == Greet \/ ReadCommand \/ SessionPanics \/ SessionEnds

Store == \E size \in Sizes : Answer(size)

Terminal == ReadGreeting \/ ReadAnswer \/ ReadEnd

User == TypeExit \/ \E sort \in {"parses", "panics"}, size \in Sizes : TypeLine(sort, size)

Next == Server \/ Store \/ Terminal \/ User

\* Both programs run; nobody has to type, and no lock has to be given.
Spec == Init /\ [][Next]_vars /\ WF_vars(Server) /\ WF_vars(Terminal)

-----------------------------------------------------------------------------
\* As long as every line and every answer fits one read, what quaso-cli prints
\* for a line is the whole answer to the whole of that line, and nothing is left
\* on the wire for the next one; only a session that has ended gives none.
AnswersPaired ==
  cli = "prompt" /\ typed > 0 /\ ~long =>
    /\ up = <<>> /\ down = <<>>
    /\ IF shown = <<>> THEN session = "ended"
       ELSE Whole(shown) /\ Whole(shown[1].of) /\ shown[1].of[1].of.line = typed

\* AnswersPaired is not inductive.  What it rests on, as long as every message
\* fits: there is one message between the two ends at most, and it is whole.
Fits == 1..ReadSize
Answered(s) == Whole(s) /\ Whole(s[1].of) /\ s[1].of[1].of.line = typed

Greeted ==
  /\ typed = 0 /\ up = <<>>
  /\ \/ session = "greeting" /\ down = <<>>
     \/ session = "reading" /\ down = Message(Greeting, 1)

Prompted ==
  /\ up = <<>> /\ down = <<>> /\ session \in {"reading", "ended"}
  /\ typed > 0 => IF shown = <<>> THEN session = "ended" ELSE Answered(shown)

\* The line is on its way up, or worked on, or its answer on its way down, or
\* nobody is there.
Waiting ==
  \/ session = "working" /\ up = <<>> /\ down = <<>> /\
       \E sort \in {"parses", "panics"}, size \in Fits :
         buf = Message(Line(typed, sort), size)
  \/ session = "reading" /\ \E sort \in {"parses", "panics"}, size \in Fits :
       \/ up = Message(Line(typed, sort), size) /\ down = <<>>
       \/ up = <<>> /\ \E reply \in Fits :
            down = Message(Message(Line(typed, sort), size), reply)
  \/ session = "ended" /\ up = <<>> /\ down = <<>>

Exchange ==
  \/ cli = "greeting" /\ Greeted
  \/ cli = "prompt" /\ Prompted
  \/ cli = "answer" /\ Waiting
  \/ cli = "ended"

Conversation == typed \in Nat /\ long \in BOOLEAN /\ (~long => Exchange)

\* quaso-cli waits for ever only if its own session is kept from answering what
\* it has read, by a lock that it is never given: however long lines and answers
\* are, a read that waits for an answer gets one, if only a piece of it or of an
\* earlier one.
TerminalGoesOn ==
  []<>(session # "working") =>
    (cli \in {"greeting", "answer"} ~> cli \in {"prompt", "ended"})
=============================================================================
