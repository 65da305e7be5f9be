-------------------------- MODULE KvTerminalProofs --------------------------
(***************************************************************************)
(* AnswersPaired, for any size of a read, any lengths of lines and answers *)
(* and any number of lines: it follows from Conversation, which is kept by *)
(* every step because a message that fits one read is taken whole.         *)
(***************************************************************************)
EXTENDS KvTerminal, TLAPS, SequenceTheorems

Units(m) == [of : {m}, last : BOOLEAN]

LEMMA MessageIsSeq ==
  ASSUME NEW m, NEW size \in Nat
  PROVE  /\ Message(m, size) \in Seq(Units(m))
         /\ Len(Message(m, size)) = size
         /\ \A i \in 1..size : Message(m, size)[i].of = m
         /\ size > 0 => Message(m, size)[size].last
<1>1. \A i \in 1..size : [of |-> m, last |-> i = size] \in Units(m)
  BY DEF Units
<1>2. Message(m, size) \in [1..size -> Units(m)]
  BY <1>1 DEF Message
<1>3. Message(m, size) \in Seq(Units(m))
  BY <1>2, SeqDef
<1>4. Len(Message(m, size)) = size
  BY <1>2, <1>3, LenProperties
<1>5. \A i \in 1..size : Message(m, size)[i].of = m
  BY DEF Message
<1>6. ASSUME size > 0 PROVE Message(m, size)[size].last
  <2>1. size \in 1..size
    BY <1>6
  <2>2. PICK b : b = (size = size) /\ Message(m, size)[size] = [of |-> m, last |-> b]
    BY <2>1, Zenon DEF Message
  <2>3. Message(m, size)[size].last = b
    BY <2>2
  <2>4. b
    BY <2>2, Zenon
  <2> QED  BY <2>3, <2>4, Zenon
<1> QED  BY <1>3, <1>4, <1>5, <1>6

\* A message that fits one read is taken whole, and nothing is left.
LEMMA MessageFits ==
  ASSUME NEW m, NEW size \in Fits
  PROVE  LET s == Message(m, size)
         IN  /\ s # <<>> /\ s[1].of = m /\ Whole(s) /\ ~MayBeCut(s)
             /\ ReadOf(s) = s /\ RestOf(s) = <<>> /\ <<>> \o s = s
<1> DEFINE s == Message(m, size)
<1>1. ReadSize \in Nat /\ size \in Nat /\ size >= 1 /\ size <= ReadSize
  BY WireAssumption DEF Fits
<1>2. /\ s \in Seq(Units(m)) /\ Len(s) = size
      /\ (\A i \in 1..size : s[i].of = m) /\ s[size].last
  BY <1>1, MessageIsSeq
<1> HIDE DEF s
<1>3. s # <<>>
  BY <1>1, <1>2, EmptySeq
<1>5. Whole(s) /\ ~MayBeCut(s)
  BY <1>1, <1>2 DEF Whole, MayBeCut
<1>6. ReadOf(s) = s
  <2>1. ReadOf(s) = SubSeq(s, 1, Len(s))
    BY <1>1, <1>2 DEF ReadOf
  <2> QED  BY <1>2, <2>1, SubSeqFull
<1>7. RestOf(s) = <<>>
  BY <1>1, <1>2, <1>6, SubSeqEmpty DEF RestOf
<1>8. <<>> \o s = s
  BY <1>2, ConcatEmptySeq
<1>9. s[1].of = m
  BY <1>1, <1>2
<1> QED  BY <1>3, <1>5, <1>6, <1>7, <1>8, <1>9 DEF s

LEMMA ConversationStarts == Init => Conversation
<1> SUFFICES ASSUME Init PROVE Conversation
  OBVIOUS
<1>1. typed \in Nat /\ long \in BOOLEAN
  BY DEF Init
<1>2. Exchange
  BY DEF Init, Exchange, Greeted
<1> QED  BY <1>1, <1>2 DEF Conversation, Exchange


LEMMA ServerKeepsConversation ==
  ASSUME Conversation, Server, ~long'
  PROVE  Exchange'
<1>1. CASE Greet
  <2>1. ~long /\ typed' = typed /\ cli' = cli
    BY <1>1 DEF Greet
  <2>2. (cli = "greeting" /\ down = <<>>) \/ cli = "ended"
    BY <1>1, <2>1 DEF Greet, Conversation, Exchange, Greeted, Prompted, Waiting
  <2>3. <<>> \o Message(Greeting, 1) = Message(Greeting, 1)
    BY MessageFits, WireAssumption DEF Fits
  <2> QED
    BY <1>1, <2>1, <2>2, <2>3 DEF Greet, Conversation, Exchange, Greeted, Prompted, Waiting
<1>2. CASE ReadCommand
  <2>1. ~long /\ typed' = typed /\ cli' = cli /\ down' = down /\ session' = "working"
    BY <1>2 DEF ReadCommand
  <2>2. CASE cli = "ended"
    BY <2>1, <2>2 DEF Conversation, Exchange
  <2>3. CASE cli # "ended"
    <3>1. /\ cli = "answer" /\ down = <<>>
          /\ \E sort \in {"parses", "panics"}, line \in Fits :
               up = Message(Line(typed, sort), line)
      BY <1>2, <2>1, <2>3 DEF ReadCommand, Conversation, Exchange, Greeted, Prompted, Waiting
    <3>2. ReadOf(up) = up /\ RestOf(up) = <<>>
      BY <3>1, MessageFits
    <3>3. up' = <<>> /\ buf' = up
      BY <1>2, <3>2 DEF ReadCommand
    <3>4. Waiting'
      BY <2>1, <3>1, <3>3 DEF Waiting
    <3> QED  BY <2>1, <3>1, <3>4 DEF Exchange
  <2> QED  BY <2>2, <2>3
<1>3. CASE SessionPanics
  <2>1. (cli = "answer" /\ down = <<>>) \/ cli = "ended"
    BY <1>3 DEF SessionPanics, Conversation, Exchange, Greeted, Prompted, Waiting
  <2> QED  BY <1>3, <2>1 DEF SessionPanics, Conversation, Exchange, Waiting
<1>4. CASE SessionEnds
  BY <1>4 DEF SessionEnds, Conversation, Exchange
<1> QED  BY <1>1, <1>2, <1>3, <1>4 DEF Server

LEMMA StoreKeepsConversation ==
  ASSUME Conversation, Store, ~long'
  PROVE  Exchange'
<1>1. PICK size \in Sizes : Answer(size)
  BY DEF Store
<1>2. /\ ~long /\ typed' = typed /\ cli' = cli /\ session' = "reading" /\ up' = up
      /\ size \in Fits
  <2>1. ~(long \/ size > ReadSize)
    BY <1>1 DEF Answer
  <2> QED  BY <1>1, <2>1, WireAssumption DEF Answer, Fits
<1>3. CASE cli = "ended"
  BY <1>2, <1>3 DEF Conversation, Exchange
<1>4. CASE cli # "ended"
  <2>1. /\ cli = "answer" /\ up = <<>> /\ down = <<>>
        /\ \E sort \in {"parses", "panics"}, line \in Fits :
             buf = Message(Line(typed, sort), line)
    BY <1>1, <1>2, <1>4 DEF Answer, Conversation, Exchange, Greeted, Prompted, Waiting
  <2>2. <<>> \o Message(buf, size) = Message(buf, size)
    BY <1>2, MessageFits
  <2>3. down' = Message(buf, size)
    BY <1>1, <2>1, <2>2 DEF Answer
  <2>4. Waiting'
    BY <1>2, <2>1, <2>3 DEF Waiting
  <2> QED  BY <1>2, <2>1, <2>4 DEF Exchange
<1> QED  BY <1>3, <1>4

LEMMA TerminalKeepsConversation ==
  ASSUME Conversation, Terminal, ~long'
  PROVE  Exchange'
<1>1. CASE ReadGreeting
  <2>1. ~long /\ typed = 0 /\ up = <<>> /\ session = "reading" /\ down = Message(Greeting, 1)
    BY <1>1 DEF ReadGreeting, Conversation, Exchange, Greeted
  <2>2. RestOf(down) = <<>>
    BY <2>1, MessageFits, WireAssumption DEF Fits
  <2> QED  BY <1>1, <2>1, <2>2 DEF ReadGreeting, Conversation, Exchange, Prompted
<1>2. CASE ReadAnswer
  <2>1. PICK sort \in {"parses", "panics"}, line \in Fits, size \in Fits :
          down = Message(Message(Line(typed, sort), line), size)
    BY <1>2 DEF ReadAnswer, Conversation, Exchange, Waiting
  <2>2. up = <<>> /\ session = "reading"
    BY <1>2 DEF ReadAnswer, Conversation, Exchange, Waiting
  <2>3. PICK asked : asked = Message(Line(typed, sort), line)
    OBVIOUS
  <2>4. Whole(asked) /\ asked[1].of = Line(typed, sort)
    BY <2>3, MessageFits
  <2>5. /\ ReadOf(down) = down /\ RestOf(down) = <<>> /\ ~MayBeCut(down)
        /\ Whole(down) /\ down[1].of = asked /\ down # <<>>
    BY <2>1, <2>3, MessageFits
  <2>6. cli' = "prompt" /\ down' = <<>> /\ shown' = down /\ UNCHANGED <<session, typed, up>>
    BY <1>2, <2>5 DEF ReadAnswer
  <2>7. Answered(shown)'
    BY <2>4, <2>5, <2>6 DEF Answered, Line
  <2>8. Prompted'
    BY <2>2, <2>5, <2>6, <2>7 DEF Prompted
  <2> QED  BY <2>6, <2>8 DEF Exchange
<1>3. CASE ReadEnd
  <2>1. /\ up = <<>> /\ down = <<>> /\ session = "ended" /\ shown' = <<>>
        /\ cli' \in {"prompt", "ended"} /\ UNCHANGED <<session, typed, up, down, long>>
    BY <1>3 DEF ReadEnd, Conversation, Exchange, Waiting
  <2>2. Prompted'
    BY <2>1 DEF Prompted
  <2> QED  BY <2>1, <2>2 DEF Exchange
<1> QED  BY <1>1, <1>2, <1>3 DEF Terminal

LEMMA UserKeepsConversation ==
  ASSUME Conversation, User, ~long'
  PROVE  Exchange'
<1>1. CASE TypeExit
  BY <1>1 DEF TypeExit, Conversation, Exchange
<1>2. ASSUME NEW sort \in {"parses", "panics"}, NEW size \in Sizes, TypeLine(sort, size)
      PROVE  Exchange'
  <2>1. /\ ~long /\ size \in Fits /\ typed' = typed + 1 /\ session' = session
        /\ down' = down /\ cli = "prompt" /\ typed \in Nat
    <3>1. ~(long \/ size > ReadSize)
      BY <1>2 DEF TypeLine
    <3>2. size \in Fits
      BY <3>1, WireAssumption DEF Fits
    <3> QED  BY <1>2, <3>1, <3>2 DEF TypeLine, Conversation, Exchange
  <2>2. up = <<>> /\ down = <<>> /\ session \in {"reading", "ended"}
    BY <2>1 DEF Conversation, Exchange, Prompted
  <2>3. CASE session = "ended"
    BY <1>2, <2>1, <2>2, <2>3 DEF TypeLine, Conversation, Exchange, Waiting
  <2>4. CASE session = "reading"
    <3>1. <<>> \o Message(Line(typed', sort), size) = Message(Line(typed', sort), size)
      BY <2>1, MessageFits
    <3>2. up' = Message(Line(typed', sort), size) /\ cli' = "answer"
      BY <1>2, <2>2, <2>4, <3>1 DEF TypeLine
    <3>3. Waiting'
      BY <2>1, <2>2, <2>4, <3>2 DEF Waiting
    <3> QED  BY <2>1, <3>2, <3>3 DEF Conversation, Exchange
  <2> QED  BY <2>2, <2>3, <2>4
<1> QED  BY <1>1, <1>2 DEF User

LEMMA CountersKept ==
  ASSUME Conversation, Next
  PROVE  typed' \in Nat /\ long' \in BOOLEAN
<1> USE DEF Conversation
<1>1. CASE Greet          BY <1>1 DEF Greet
<1>2. ASSUME NEW size \in Sizes, Answer(size) PROVE typed' \in Nat /\ long' \in BOOLEAN
  BY <1>2 DEF Answer
<1>10. CASE ReadCommand   BY <1>10 DEF ReadCommand
<1>3. CASE SessionPanics  BY <1>3 DEF SessionPanics
<1>4. CASE SessionEnds    BY <1>4 DEF SessionEnds
<1>5. CASE ReadGreeting   BY <1>5 DEF ReadGreeting
<1>6. CASE ReadAnswer     BY <1>6 DEF ReadAnswer
<1>7. CASE ReadEnd        BY <1>7 DEF ReadEnd
<1>8. CASE TypeExit       BY <1>8 DEF TypeExit
<1>9. ASSUME NEW sort \in {"parses", "panics"}, NEW size \in Sizes, TypeLine(sort, size)
      PROVE  typed' \in Nat /\ long' \in BOOLEAN
  BY <1>9 DEF TypeLine
<1> QED
  BY <1>1, <1>2, <1>3, <1>4, <1>5, <1>6, <1>7, <1>8, <1>9, <1>10
  DEF Next, Server, Store, Terminal, User

LEMMA ConversationKept == Conversation /\ [Next]_vars => Conversation'
<1> SUFFICES ASSUME Conversation, [Next]_vars PROVE Conversation'
  OBVIOUS
<1>1. CASE UNCHANGED vars
  BY <1>1 DEF vars, Conversation, Exchange, Greeted, Prompted, Waiting, Answered
<1>2. CASE Next
  <2>1. ~long' => Exchange'
    BY <1>2, ServerKeepsConversation, StoreKeepsConversation, TerminalKeepsConversation,
       UserKeepsConversation DEF Next
  <2> QED  BY <1>2, <2>1, CountersKept DEF Conversation
<1> QED  BY <1>1, <1>2

\* While everything fits one read, quaso-cli prints for each line the whole answer
\* to that line: neither end ever takes half a message or two for one, for any
\* size of a read and any number of lines.
THEOREM AnswersStayPaired == Spec => []AnswersPaired
<1>1. Conversation => AnswersPaired
  BY DEF Conversation, Exchange, AnswersPaired, Prompted, Answered
<1> QED  BY <1>1, ConversationStarts, ConversationKept, PTL DEF Spec
=============================================================================
