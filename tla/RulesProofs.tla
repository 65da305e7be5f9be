---------------------------- MODULE RulesProofs ----------------------------
(***************************************************************************)
(* The functions of the two programs against their references.  The        *)
(* decisions of RaftRules are compared with those of the paper, for logs   *)
(* and match indexes of any length, any number of nodes, and terms up to   *)
(* any bound; they follow from the types alone: no decision needs the      *)
(* terms of a log to be in order.  parse_command is compared with what is  *)
(* written, for lines of any length.                                       *)
(***************************************************************************)
EXTENDS RaftRulesProperties, KvCommandsProperties, RaftRulesLemmas,
        FiniteSetTheorems, WellFoundedInduction

\* All that the proofs need of the logs and the map.
LogsTyped ==
  /\ mine \in Seq(Entry)
  /\ theirs \in Seq(Entry)
  /\ match \in [Node -> Nat]

LEMMA LongerTyped ==
  ASSUME NEW l \in Seq(Entry), NEW m \in Longer(l)
  PROVE  m \in Seq(Entry)
<1>1. PICK v \in Value, t \in {u \in 1..MaxTerm : u >= LastTerm(l)} :
        m = Append(l, [value |-> v, term |-> t])
  BY DEF Longer
<1>2. [value |-> v, term |-> t] \in Entry
  BY RuleBounds DEF Entry
<1> QED  BY <1>1, <1>2, AppendProperties

LEMMA AlwaysTyped == Spec => []LogsTyped
<1>1. Init => LogsTyped
  BY DEF Init, LogsTyped
<1>2. LogsTyped /\ [Next]_<<mine, theirs, match>> => LogsTyped'
  <2> SUFFICES ASSUME LogsTyped, [Next]_<<mine, theirs, match>>
               PROVE  LogsTyped'
    OBVIOUS
  <2> USE DEF LogsTyped
  <2>1. CASE GrowMine
    BY <2>1, LongerTyped DEF GrowMine
  <2>2. CASE GrowTheirs
    BY <2>2, LongerTyped DEF GrowTheirs
  <2>3. ASSUME NEW m \in Node, Reach(m)
        PROVE  LogsTyped'
    BY <2>3 DEF Reach
  <2>4. CASE UNCHANGED <<mine, theirs, match>>
    BY <2>4
  <2> QED  BY <2>1, <2>2, <2>3, <2>4 DEF Next
<1> QED  BY <1>1, <1>2, PTL DEF Spec

-----------------------------------------------------------------------------
(* request_vote *)

\* request_vote grants what the paper grants, for any pair of logs: an empty log
\* is the least up-to-date of all, so that leaving it out of the comparison loses
\* votes (a voter with an empty log that has voted) and never gives one too many.
THEOREM VoteIsPaperVote == Spec => []VotesAsPaper
<1>1. LogsTyped => VotesAsPaper
  <2> SUFFICES ASSUME LogsTyped,
                      NEW n \in Node, NEW term \in 0..MaxTerm, NEW asked \in 0..MaxTerm,
                      NEW votedFor \in Node \union {NoNode}
               PROVE  LET req == VoteRequestOf(n, asked, theirs)
                      IN  GrantsVote(term, votedFor, mine, req)
                            <=> /\ PaperGrants(term, votedFor, req)
                                /\ mine = <<>> => votedFor = NoNode
    BY DEF VotesAsPaper
  <2> DEFINE req == VoteRequestOf(n, asked, theirs)
  <2>1. term \in Nat /\ asked \in Nat
    BY RuleBounds
  <2>2. /\ LastTerm(mine) \in Nat /\ LastTerm(theirs) \in Nat
        /\ Len(mine) \in Nat /\ Len(theirs) \in Nat
    BY LastTermType, LenProperties DEF LogsTyped
  <2>3. /\ req.term = asked /\ req.candidate = n
        /\ req.lastLogIndex = Len(theirs) /\ req.lastLogTerm = LastTerm(theirs)
    BY DEF VoteRequestOf
  <2>4. ~VoteRefused(term, votedFor, req)
          <=> /\ req.term >= term
              /\ req.term = term => votedFor \in {NoNode, req.candidate}
    BY <2>1, <2>3 DEF VoteRefused
  <2>5. LogAllowsVote(votedFor, mine, req)
          <=> UpToDate /\ (mine = <<>> => votedFor = NoNode)
    <3>1. CASE mine = <<>>
      <4>1. LastTerm(mine) = 0 /\ Len(mine) = 0
        BY <3>1 DEF LastTerm
      <4> QED  BY <2>2, <3>1, <4>1 DEF LogAllowsVote, UpToDate
    <3>2. CASE mine # <<>>
      BY <2>2, <2>3, <3>2 DEF LogAllowsVote, UpToDate
    <3> QED  BY <3>1, <3>2
  <2> HIDE DEF req
  <2>6. GrantsVote(term, votedFor, mine, req)
          <=> PaperGrants(term, votedFor, req) /\ (mine = <<>> => votedFor = NoNode)
    BY <2>4, <2>5 DEF GrantsVote, PaperGrants
  <2> QED  BY <2>6 DEF req
<1> QED  BY <1>1, AlwaysTyped, PTL

-----------------------------------------------------------------------------
(* append_entries *)

\* What a leader with this log sends to a peer at this next_index.
LEMMA RequestShape ==
  ASSUME NEW n \in Node, NEW sent, NEW l \in Seq(Entry),
         NEW next \in 1..Len(l)+1, NEW commit
  PROVE  LET req == AppendRequestOf(n, sent, l, next, commit)
         IN  /\ req.term = sent
             /\ req.prevLogIndex \in 0..Len(l)
             /\ req.entries \in Seq(Entry)
             /\ Len(req.entries) = Len(l) - req.prevLogIndex
             /\ req.prevLogTerm = IF req.prevLogIndex = 0 THEN 0
                                  ELSE l[req.prevLogIndex].term
<1> DEFINE prev == PrevIndexFor(l, next)
           req == AppendRequestOf(n, sent, l, next, commit)
<1>1. Len(l) \in Nat /\ next \in Nat \ {0}
  BY LenProperties
<1>2. prev \in 0..Len(l)
  <2>1. l = <<>> => Len(l) = 0
    OBVIOUS
  <2> QED  BY <1>1, <2>1 DEF PrevIndexFor
<1>3. /\ SubSeq(l, prev + 1, Len(l)) \in Seq(Entry)
      /\ Len(SubSeq(l, prev + 1, Len(l))) = Len(l) - prev
  <2>1. \A i \in prev + 1 .. Len(l) : l[i] \in Entry
    BY <1>2, ElementOfSeq
  <2>2. prev + 1 \in Int /\ Len(l) \in Int /\ prev \in Int
    BY <1>1, <1>2
  <2> QED  BY <1>2, <2>1, <2>2, SubSeqProperties
<1>4. /\ req.term = sent /\ req.prevLogIndex = prev
      /\ req.entries = SubSeq(l, prev + 1, Len(l))
      /\ req.prevLogTerm = IF prev = 0 THEN 0 ELSE l[prev].term
  BY <1>1 DEF AppendRequestOf
<1> HIDE DEF prev, req
<1>5. /\ req.term = sent /\ req.prevLogIndex \in 0..Len(l)
      /\ req.entries \in Seq(Entry)
      /\ Len(req.entries) = Len(l) - req.prevLogIndex
      /\ req.prevLogTerm = IF req.prevLogIndex = 0 THEN 0
                           ELSE l[req.prevLogIndex].term
  BY <1>2, <1>3, <1>4
<1> QED  BY <1>5 DEF req

\* append_entries accepts what the paper accepts and panics where AcceptsAsPaper
\* says, whatever the two logs hold and whatever the terms, but for a node that is
\* not a leader and is asked in a term that is over.
THEOREM AppendIsPaperAppend == Spec => []AcceptsAsPaper
<1>1. LogsTyped => AcceptsAsPaper
  <2> SUFFICES ASSUME LogsTyped,
                      NEW n \in Node, NEW next \in 1..Len(theirs)+1, NEW role \in Role,
                      NEW term \in 0..MaxTerm, NEW sent \in 0..MaxTerm,
                      role = "Leader" \/ sent >= term
               PROVE  LET req == AppendRequestOf(n, sent, theirs, next, 0)
                          FirstOnOld == req.prevLogIndex = 0 /\ mine # <<>>
                      IN  /\ AppendAccepted(role, term, mine, req)
                               <=> PaperAccepts(term, mine, req) /\ ~FirstOnOld
                          /\ AppendUnderflows(role, term, mine, req)
                               <=> req.term >= term /\ FirstOnOld
    BY DEF AcceptsAsPaper
  <2> DEFINE req == AppendRequestOf(n, sent, theirs, next, 0)
  <2>1. term \in Nat /\ sent \in Nat
    BY RuleBounds
  <2>2. req.term = sent /\ req.prevLogIndex \in Nat
    BY RequestShape, LenProperties DEF LogsTyped
  <2>3. Len(mine) \in Nat /\ (mine = <<>> <=> Len(mine) = 0)
    BY EmptySeq, LenProperties DEF LogsTyped
  <2> HIDE DEF req
  <2>4. StaleAppend(role, term, req) <=> ~(req.term >= term)
    BY <2>1, <2>2 DEF StaleAppend
  <2>5. CASE mine = <<>>
    BY <2>2, <2>3, <2>4, <2>5 DEF AppendAccepted, AppendUnderflows, PaperAccepts, req
  <2>6. CASE mine # <<>>
    BY <2>2, <2>3, <2>4, <2>6 DEF AppendAccepted, AppendUnderflows, PaperAccepts, req
  <2> QED  BY <2>5, <2>6
<1> QED  BY <1>1, AlwaysTyped, PTL

\* Against the paper's merge: both results have the same length only where the
\* follower has nothing after prev_log_index, and there they are equal.
LEMMA MergeAtEnd ==
  ASSUME NEW l \in Seq(Entry), NEW req, req.prevLogIndex = Len(l),
         req.entries \in Seq(Entry)
  PROVE  MergedLog(l, req) = PaperMerge(l, req)
<1>1. /\ Len(l) \in Nat /\ Len(req.entries) \in Nat /\ req.prevLogIndex = Len(l)
      /\ ~(Len(req.entries) + req.prevLogIndex < Len(l))
  BY LenProperties
<1>2. MergedLog(l, req) = l \o req.entries
  BY <1>1, Zenon DEF MergedLog
<1>3. ~ \E i \in 1..Len(req.entries) :
          req.prevLogIndex + i <= Len(l) /\ l[req.prevLogIndex + i].term # req.entries[i].term
  BY <1>1
<1>4. CASE Len(l) < req.prevLogIndex + Len(req.entries)
  <2>1. PaperMerge(l, req) = SubSeq(l, 1, Len(l)) \o req.entries
    BY <1>1, <1>4, Zenon DEF PaperMerge
  <2> QED  BY <1>2, <2>1, SubSeqFull
<1>5. CASE ~(Len(l) < req.prevLogIndex + Len(req.entries))
  <2>1. req.entries = <<>>
    BY <1>1, <1>5, EmptySeq
  <2>2. PaperMerge(l, req) = l
    BY <1>3, <1>5, Zenon DEF PaperMerge
  <2> QED  BY <1>2, <2>1, <2>2, ConcatEmptySeq
<1> QED  BY <1>4, <1>5

\* Elsewhere the two lengths differ: the truncation cuts one entry too many, and
\* without it what the follower already has is appended again.
LEMMA MergeBeforeEnd ==
  ASSUME NEW l \in Seq(Entry), NEW req, NEW p \in 0..Len(l), req.prevLogIndex = p,
         req.entries \in Seq(Entry), p # Len(l), p > 0
  PROVE  MergedLog(l, req) # PaperMerge(l, req)
<1> DEFINE q == Len(req.entries)
<1>1. Len(l) \in Nat /\ q \in Nat /\ p \in Nat
  BY LenProperties
<1>2. /\ SubSeq(l, 1, p) \in Seq(Entry) /\ Len(SubSeq(l, 1, p)) = p
      /\ SubSeq(l, 1, p - 1) \in Seq(Entry) /\ Len(SubSeq(l, 1, p - 1)) = p - 1
  BY <1>1, SubSeqProperties, ElementOfSeq
<1>3. Len(PaperMerge(l, req)) \in {p + q, Len(l)}
  <2>1. PaperMerge(l, req) \in {SubSeq(l, 1, p) \o req.entries, l}
    BY DEF PaperMerge
  <2>2. Len(SubSeq(l, 1, p) \o req.entries) = Len(SubSeq(l, 1, p)) + Len(req.entries)
    BY <1>2, ConcatProperties
  <2> QED  BY <1>2, <2>1, <2>2
<1>4. CASE q + p < Len(l)
  <2>1. MergedLog(l, req) = SubSeq(l, 1, p - 1) \o req.entries
    BY <1>4, Zenon DEF MergedLog
  <2>2. Len(SubSeq(l, 1, p - 1) \o req.entries)
          = Len(SubSeq(l, 1, p - 1)) + Len(req.entries)
    BY <1>2, ConcatProperties
  <2>3. Len(MergedLog(l, req)) = p - 1 + q
    BY <1>2, <2>1, <2>2
  <2> HIDE DEF q
  <2> QED  BY <1>1, <1>3, <1>4, <2>3
<1>5. CASE ~(q + p < Len(l))
  <2>1. MergedLog(l, req) = l \o req.entries
    BY <1>5, Zenon DEF MergedLog
  <2>2. Len(MergedLog(l, req)) = Len(l) + q
    BY <2>1, ConcatProperties
  <2>3. q > 0
    BY <1>1, <1>5
  <2> HIDE DEF q
  <2> QED  BY <1>1, <1>3, <2>2, <2>3
<1> QED  BY <1>4, <1>5

\* append_entries merges as the paper does when the follower's log ends at
\* prev_log_index, and never otherwise, for logs of any length.
THEOREM MergeIsPaperMergeAtEnd == Spec => []MergesAsPaperAtEnd
<1>1. LogsTyped => MergesAsPaperAtEnd
  <2> SUFFICES ASSUME LogsTyped,
                      NEW n \in Node, NEW next \in 1..Len(theirs)+1, NEW term \in 0..MaxTerm,
                      AppendAccepted("Follower", term, mine,
                                     AppendRequestOf(n, MaxTerm, theirs, next, 0))
               PROVE  LET req == AppendRequestOf(n, MaxTerm, theirs, next, 0)
                      IN  MergedLog(mine, req) = PaperMerge(mine, req)
                            <=> Len(mine) = req.prevLogIndex
    BY DEF MergesAsPaperAtEnd
  <2> DEFINE req == AppendRequestOf(n, MaxTerm, theirs, next, 0)
  <2>1. /\ req.prevLogIndex \in Nat
        /\ req.entries \in Seq(Entry)
    BY RequestShape, LenProperties DEF LogsTyped
  <2>2. mine \in Seq(Entry) /\ Len(mine) \in Nat
    BY LenProperties DEF LogsTyped
  <2> HIDE DEF req
  <2>3. /\ req.prevLogIndex <= Len(mine)
        /\ mine # <<>> => req.prevLogIndex > 0
    BY DEF AppendAccepted, req
  <2>4. CASE Len(mine) = req.prevLogIndex
    BY <2>1, <2>2, <2>4, MergeAtEnd DEF req
  <2>5. CASE Len(mine) # req.prevLogIndex
    <3>1. req.prevLogIndex \in 0..Len(mine) /\ req.prevLogIndex > 0
      BY <2>1, <2>2, <2>3, <2>5, EmptySeq
    <3>2. MergedLog(mine, req) # PaperMerge(mine, req)
      BY <2>1, <2>2, <2>5, <3>1, MergeBeforeEnd
    <3> QED  BY <2>5, <3>2 DEF req
  <2> QED  BY <2>4, <2>5
<1> QED  BY <1>1, AlwaysTyped, PTL

-----------------------------------------------------------------------------
(* maybe_commit_log_entries *)

LEMMA SomeNodes ==
  ASSUME NEW S \in SUBSET Node
  PROVE  IsFiniteSet(S) /\ Cardinality(S) \in Nat /\ Cardinality(S) <= Cardinality(Node)
<1>1. IsFiniteSet(S) /\ Cardinality(S) <= Cardinality(Node)
  BY NodeAssumption, FS_Subset
<1> QED  BY <1>1, FS_CardinalityType

\* An index that maybe_commit_log_entries may pick has been reached by a quorum,
\* and no greater one has, in a cluster of any size.
THEOREM PickIsGreatestReached == Spec => []PicksGreatestReached
<1>1. LogsTyped => PicksGreatestReached
  <2> SUFFICES ASSUME LogsTyped, NEW n \in Node, NEW k \in QuorumMatches(n, match)
               PROVE  /\ Reached(k) >= QuorumLength(n)
                      /\ \A j \in k+1..MaxIndex : Reached(j) < QuorumLength(n)
    BY DEF PicksGreatestReached
  <2>1. k \in Nat /\ Frequency(match, k) >= QuorumLength(n)
    BY DEF QuorumMatches, LogsTyped
  <2> DEFINE Equal == {m \in Node : match[m] = k}
             From(j) == {m \in Node : match[m] >= j}
  <2>2. Equal \in SUBSET Node /\ \A j : From(j) \in SUBSET Node
    OBVIOUS
  <2>3. Cardinality(Equal) \in Nat /\ Cardinality(Equal) >= QuorumLength(n)
    BY <2>1, <2>2, SomeNodes DEF Frequency
  <2>4. Reached(k) >= QuorumLength(n)
    <3>1. Equal \subseteq From(k)
      BY <2>1
    <3>2. Cardinality(Equal) <= Cardinality(From(k)) /\ Cardinality(From(k)) \in Nat
      BY <2>2, <3>1, SomeNodes, FS_Subset
    <3> QED  BY <2>3, <3>2, QuorumIsMajority DEF Reached
  <2>5. ASSUME NEW j \in k+1..MaxIndex
        PROVE  Reached(j) < QuorumLength(n)
    <3>1. Equal \cap From(j) = {}
      BY <2>1 DEF LogsTyped
    <3>2. ~(Cardinality(Equal) + Cardinality(From(j)) > Cardinality(Node))
      BY <2>2, <3>1, NodeAssumption, FS_MajoritiesIntersect
    <3>3. Cardinality(From(j)) \in Nat /\ Cardinality(Node) \in Nat
      BY <2>2, SomeNodes
    <3> HIDE DEF Equal, From
    <3>4. Cardinality(From(j)) < QuorumLength(n)
      BY <2>3, <3>2, <3>3, QuorumIsMajority
    <3> QED  BY <3>4 DEF Reached, From
  <2> QED  BY <2>4, <2>5
<1> QED  BY <1>1, AlwaysTyped, PTL

-----------------------------------------------------------------------------
(* parse_command *)

\* Some number is the least of a set, and the greatest if the set is bounded.
\* Induction over a line is by the least length at which it fails.
LEMMA LeastNatural ==
  ASSUME NEW T, T \subseteq Nat, T # {}
  PROVE  \E x \in T : \A y \in T : x <= y
<1> DEFINE R == OpToRel(<, Nat)
<1>1. PICK x \in T : \A y \in T : ~(<<y, x>> \in R)
  BY WFMin, NatLessThanWellFounded
<1>2. ASSUME NEW y \in T PROVE x <= y
  <2>1. x \in Nat /\ y \in Nat
    OBVIOUS
  <2>2. ~(y < x)
    BY <1>1, <2>1 DEF OpToRel
  <2> QED  BY <2>1, <2>2
<1> QED  BY <1>2

LEMMA GreatestNatural ==
  ASSUME NEW n \in Nat, NEW W, W \subseteq 1..n, W # {}
  PROVE  \E x \in W : \A y \in W : y <= x
<1> DEFINE T == {n - x : x \in W}
<1>1. T \subseteq Nat /\ T # {}
  <2>1. \A x \in W : x \in 1..n /\ n - x \in Nat
    OBVIOUS
  <2> QED  BY <2>1
<1>2. PICK d \in T : \A c \in T : d <= c
  BY <1>1, LeastNatural, Zenon
<1>3. PICK x \in W : d = n - x
  OBVIOUS
<1>4. ASSUME NEW y \in W PROVE y <= x
  <2>1. d <= n - y
    BY <1>2
  <2> QED  BY <1>3, <2>1
<1> QED  BY <1>4

\* What split(" ") does with one more piece.
SplitStep(words, p) ==
  IF p = Blank THEN Append(words, <<>>)
  ELSE [words EXCEPT ![Len(words)] = Append(@, p)]

\* The fold of Split as FoldLeft defines it: over the sets of first indexes.
SplitOf(s, g, D) ==
  [S \in SUBSET D |->
     IF S = {} THEN << <<>> >>
     ELSE LET x == Max(S) IN SplitStep(g[S \ {x}], s[x])]

\* g is that fold: FoldLeft takes the last index of the set first.
LEMMA SplitUnfolds ==
  ASSUME NEW s
  PROVE  Split(s) = (CHOOSE g : g = SplitOf(s, g, DOMAIN s))[DOMAIN s]
BY Zenon DEF Split, FoldLeft, MapThenFoldSet, SplitStep, SplitOf

\* The last index of a set is the one that Max chooses.
LEMMA MaxIs ==
  ASSUME NEW S, S \subseteq Nat, NEW x \in S, \A y \in S : y <= x
  PROVE  Max(S) = x
<1>1. x >= x /\ \A y \in S : x >= y
  OBVIOUS
<1>2. \A z \in S : z >= x => z = x
  OBVIOUS
<1> QED  BY <1>1, <1>2, Zenon DEF Max

\* There is such a function: the least k without one would have one.
LEMMA SplitOfExists ==
  ASSUME NEW s, NEW n \in Nat
  PROVE  \E g : g = SplitOf(s, g, 1..n)
<1> DEFINE P(k) == \E g : g = SplitOf(s, g, 1..k)
           T == {k \in Nat : ~P(k)}
<1>1. P(0)
  <2> DEFINE g == [S \in SUBSET (1..0) |-> << <<>> >>]
  <2>1. \A S \in SUBSET (1..0) : S = {}
    OBVIOUS
  <2>2. g = SplitOf(s, g, 1..0)
    BY <2>1 DEF SplitOf
  <2> QED  BY <2>2
<1>2. ASSUME NEW k \in Nat, P(k)
      PROVE  P(k+1)
  <2>1. PICK g : g = SplitOf(s, g, 1..k)
    BY <1>2
  <2> DEFINE h == [S \in SUBSET (1..k+1) |->
                     IF k+1 \in S THEN SplitStep(g[S \ {k+1}], s[k+1]) ELSE g[S]]
             H(S) == IF S = {} THEN << <<>> >>
                     ELSE LET x == Max(S) IN SplitStep(h[S \ {x}], s[x])
             G(S) == IF S = {} THEN << <<>> >>
                     ELSE LET x == Max(S) IN SplitStep(g[S \ {x}], s[x])
  <2>2. \A S \in SUBSET (1..k) : g[S] = G(S)
    BY <2>1, Zenon DEF SplitOf
  <2>3. \A S \in SUBSET (1..k) : S \in SUBSET (1..k+1) /\ k+1 \notin S
    OBVIOUS
  <2>4. \A S \in SUBSET (1..k) : h[S] = g[S]
    BY <2>3
  <2>5. ASSUME NEW S \in SUBSET (1..k+1)
        PROVE  h[S] = H(S)
    <3>1. CASE k+1 \in S
      <4>1. S # {} /\ S \ {k+1} \in SUBSET (1..k)
        BY <3>1
      <4>2. Max(S) = k+1
        <5>1. S \subseteq Nat /\ k+1 \in S /\ \A y \in S : y <= k+1
          BY <3>1
        <5> QED  BY <5>1, MaxIs
      <4>3. h[S] = SplitStep(g[S \ {k+1}], s[k+1])
        BY <3>1
      <4>4. H(S) = SplitStep(h[S \ {k+1}], s[k+1])
        BY <4>1, <4>2, Zenon
      <4> HIDE DEF h, H
      <4> QED  BY <2>4, <4>1, <4>3, <4>4
    <3>2. CASE k+1 \notin S
      <4>1. S \in SUBSET (1..k)
        BY <3>2
      <4>3. \A x : S \ {x} \in SUBSET (1..k)
        BY <4>1
      <4>2. h[S] = G(S) /\ \A x : h[S \ {x}] = g[S \ {x}]
        BY <2>2, <2>4, <4>1, <4>3, Zenon
      <4> HIDE DEF h
      <4> QED  BY <4>2, Zenon
    <3> QED  BY <3>1, <3>2
  <2>6. h = SplitOf(s, h, 1..k+1)
    <3>1. h = [S \in SUBSET (1..k+1) |-> h[S]]
      BY Zenon
    <3> HIDE DEF h
    <3>2. [S \in SUBSET (1..k+1) |-> h[S]] = [S \in SUBSET (1..k+1) |-> H(S)]
      BY <2>5, Zenon
    <3> QED  BY <3>1, <3>2, Zenon DEF SplitOf
  <2> HIDE DEF h
  <2> QED  BY <2>6
<1> HIDE DEF P
<1>3. T = {}
  <2>1. SUFFICES ASSUME T # {} PROVE FALSE
    OBVIOUS
  <2>2. PICK k \in T : \A y \in T : k <= y
    BY <2>1, LeastNatural
  <2>3. k \in Nat /\ k # 0 /\ ~P(k)
    BY <1>1
  <2>4. k-1 \in Nat /\ k-1 \notin T
    BY <2>2, <2>3
  <2>5. P(k-1+1)
    BY <1>2, <2>4
  <2> QED  BY <2>3, <2>5
<1>4. P(n)
  BY <1>3
<1> QED  BY <1>4 DEF P

\* Split reads its pieces from left to right.
LEMMA SplitSteps ==
  ASSUME NEW s, NEW n \in Nat, DOMAIN s = 1..n
  PROVE  \E w : /\ w[0] = << <<>> >>
                /\ \A k \in 0..n-1 : w[k+1] = SplitStep(w[k], s[k+1])
                /\ w[n] = Split(s)
<1> DEFINE g == CHOOSE f : f = SplitOf(s, f, 1..n)
<1>1. g = SplitOf(s, g, 1..n)
  BY SplitOfExists, Zenon
<1>2. Split(s) = g[1..n]
  BY SplitUnfolds, Zenon
<1> HIDE DEF g
<1>3. \A S \in SUBSET (1..n) :
        g[S] = IF S = {} THEN << <<>> >>
               ELSE LET x == Max(S) IN SplitStep(g[S \ {x}], s[x])
  BY <1>1, Zenon DEF SplitOf
<1> DEFINE w == [k \in 0..n |-> g[1..k]]
<1>4. w[0] = << <<>> >>
  <2>1. 1..0 = {} /\ 0 \in 0..n /\ {} \in SUBSET (1..n)
    OBVIOUS
  <2> QED  BY <1>3, <2>1, Zenon
<1>5. ASSUME NEW k \in 0..n-1
      PROVE  w[k+1] = SplitStep(w[k], s[k+1])
  <2>1. /\ 1..k+1 # {} /\ 1..k+1 \in SUBSET (1..n) /\ (1..k+1) \ {k+1} = 1..k
        /\ k \in 0..n /\ k+1 \in 0..n
    OBVIOUS
  <2>2. Max(1..k+1) = k+1
    <3>1. 1..k+1 \subseteq Nat /\ k+1 \in 1..k+1 /\ \A y \in 1..k+1 : y <= k+1
      OBVIOUS
    <3> QED  BY <3>1, MaxIs
  <2>3. g[1..k+1] = SplitStep(g[1..k], s[k+1])
    BY <1>3, <2>1, <2>2, Zenon
  <2> QED  BY <2>1, <2>3, Zenon
<1>6. w[n] = Split(s)
  BY <1>2
<1> HIDE DEF w
<1> QED  BY <1>4, <1>5, <1>6

\* The words are what stands between places e: the start, each blank among the
\* first k pieces in turn, and the place after them.
Cuts(s, k, words, e) ==
  /\ words \in Seq(Seq(Piece)) /\ Len(words) # 0
  /\ e \in [0..Len(words) -> 0..k+1]
  /\ e[0] = 0 /\ e[Len(words)] = k+1
  /\ \A j \in 1..Len(words)-1 : s[e[j]] = Blank
  /\ \A j \in 1..Len(words) :
       /\ e[j-1] < e[j]
       /\ words[j] = SubSeq(s, e[j-1] + 1, e[j] - 1)
       /\ \A i \in 1..k : e[j-1] < i /\ i < e[j] => s[i] # Blank

LEMMA CutsAtStart ==
  ASSUME NEW s \in Seq(Piece)
  PROVE  \E e : Cuts(s, 0, << <<>> >>, e)
<1> DEFINE words == << <<>> >>
           e == [j \in 0..1 |-> j]
<1>1. words \in Seq(Seq(Piece)) /\ Len(words) = 1 /\ words[1] = <<>>
  OBVIOUS
<1>2. SubSeq(s, 1, 0) = <<>>
  BY EmptySeq, SubSeqProperties
<1>3. e[0] = 0 /\ e[1] = 1 /\ e \in [0..1 -> 0..0+1]
  OBVIOUS
<1> HIDE DEF words, e
<1>4. Cuts(s, 0, words, e)
  BY <1>1, <1>2, <1>3 DEF Cuts
<1> QED  BY <1>4 DEF words

\* One more piece begins a word or goes to the end of the last.
LEMMA CutsGrow ==
  ASSUME NEW s \in Seq(Piece), NEW k \in 0..Len(s)-1, NEW words, NEW e,
         Cuts(s, k, words, e)
  PROVE  \E f : Cuts(s, k+1, SplitStep(words, s[k+1]), f)
<1>1. PICK n \in Nat \ {0}, p \in Piece : n = Len(words) /\ p = s[k+1]
  <2>1. words \in Seq(Seq(Piece)) /\ Len(words) # 0 /\ k+1 \in 1..Len(s)
    BY DEF Cuts
  <2> QED  BY <2>1, LenProperties, ElementOfSeq
<1>2. /\ words \in Seq(Seq(Piece))
      /\ e \in [0..n -> 0..k+1] /\ e[0] = 0 /\ e[n] = k+1
      /\ \A j \in 1..n-1 : s[e[j]] = Blank
  BY <1>1 DEF Cuts
<1>3. \A j \in 1..n :
        /\ e[j-1] < e[j]
        /\ words[j] = SubSeq(s, e[j-1] + 1, e[j] - 1)
        /\ \A i \in 1..k : e[j-1] < i /\ i < e[j] => s[i] # Blank
  BY <1>1 DEF Cuts
<1>4. k \in Nat /\ Len(s) \in Nat /\ k+1 \in 1..Len(s)
  BY LenProperties
<1>5. \A j \in 0..n : e[j] \in Nat /\ e[j] <= k+1
  BY <1>2, <1>4
<1>6. CASE p = Blank
  <2> DEFINE more == Append(words, <<>>)
             f == [j \in 0..n+1 |-> IF j = n+1 THEN k+2 ELSE e[j]]
  <2>1. /\ more \in Seq(Seq(Piece)) /\ Len(more) = n+1 /\ more[n+1] = <<>>
        /\ \A j \in 1..n : more[j] = words[j]
    <3>1. <<>> \in Seq(Piece)
      OBVIOUS
    <3> QED  BY <1>1, <1>2, <3>1, AppendProperties
  <2>2. /\ f[n+1] = k+2 /\ \A j \in 0..n : f[j] = e[j]
        /\ f \in [0..n+1 -> 0..k+2]
    BY <1>4, <1>5
  <2>3. SubSeq(s, k+2, k+1) = <<>>
    BY <1>4
  <2>4. SplitStep(words, s[k+1]) = more
    BY <1>1, <1>6 DEF SplitStep
  <2> HIDE DEF more, f
  <2>5. ASSUME NEW j \in 1..n
        PROVE  s[f[j]] = Blank
    <3>1. f[j] = e[j]
      BY <2>2
    <3>2. j = n \/ j \in 1..n-1
      OBVIOUS
    <3> QED  BY <1>1, <1>2, <1>6, <3>1, <3>2
  <2>6. ASSUME NEW j \in 1..n+1
        PROVE  /\ f[j-1] < f[j]
               /\ more[j] = SubSeq(s, f[j-1] + 1, f[j] - 1)
               /\ \A i \in 1..k+1 : f[j-1] < i /\ i < f[j] => s[i] # Blank
    <3>1. CASE j = n+1
      <4>1. f[j] = k+2 /\ f[j-1] = k+1 /\ more[j] = <<>>
        BY <1>2, <2>1, <2>2, <3>1
      <4>2. f[j-1] + 1 = k+2 /\ f[j] - 1 = k+1 /\ f[j-1] < f[j]
        BY <1>4, <4>1
      <4>3. \A i \in 1..k+1 : ~(f[j-1] < i)
        BY <1>4, <4>1
      <4> QED  BY <2>3, <4>1, <4>2, <4>3, Zenon
    <3>2. CASE j \in 1..n
      <4>1. j-1 \in 0..n /\ j \in 0..n
        BY <3>2
      <4>2. f[j-1] = e[j-1] /\ f[j] = e[j]
        BY <2>2, <4>1
      <4>3. \A i \in 1..k+1 : i < e[j] => i \in 1..k
        BY <1>4, <1>5, <4>1
      <4>4. \A i \in 1..k+1 : e[j-1] < i /\ i < e[j] => s[i] # Blank
        BY <1>3, <3>2, <4>3
      <4>5. e[j-1] < e[j] /\ words[j] = SubSeq(s, e[j-1] + 1, e[j] - 1)
        BY <1>3, <3>2
      <4> QED  BY <2>1, <3>2, <4>2, <4>4, <4>5, Zenon
    <3> QED  BY <3>1, <3>2
  <2>7. Cuts(s, k+1, more, f)
    <3>1. Len(more) # 0 /\ Len(more)-1 = n /\ k+1+1 = k+2
      BY <1>4, <2>1
    <3>2. 0 \in 0..n /\ f[0] = 0
      BY <1>2, <2>2
    <3> QED  BY <2>1, <2>2, <2>5, <2>6, <3>1, <3>2, Zenon DEF Cuts
  <2> QED  BY <2>4, <2>7
<1>7. CASE p # Blank
  <2> DEFINE more == [words EXCEPT ![n] = Append(@, p)]
             f == [e EXCEPT ![n] = k+2]
  <2>1. /\ more \in Seq(Seq(Piece)) /\ Len(more) = n
        /\ more[n] = Append(words[n], p)
        /\ \A j \in 1..n-1 : more[j] = words[j]
    <3>1. n \in 1..Len(words) /\ words[n] \in Seq(Piece)
      BY <1>1, <1>2, ElementOfSeq
    <3>2. Append(words[n], p) \in Seq(Piece)
      BY <3>1, AppendProperties
    <3>3. more \in Seq(Seq(Piece)) /\ Len(more) = Len(words)
      BY <1>2, <3>1, <3>2, ExceptSeq
    <3> QED  BY <1>1, <1>2, <3>1, <3>3
  <2>2. /\ f[n] = k+2 /\ \A j \in 0..n-1 : f[j] = e[j]
        /\ f \in [0..n -> 0..k+2]
    BY <1>2, <1>4
  <2>3. SubSeq(s, e[n-1] + 1, k+1) = Append(words[n], p)
    <3>1. e[n-1] \in 0..k /\ words[n] = SubSeq(s, e[n-1] + 1, k)
      <4>1. n \in 1..n /\ n-1 \in 0..n
        OBVIOUS
      <4>2. e[n-1] < k+1 /\ words[n] = SubSeq(s, e[n-1] + 1, k+1-1)
        <5>1. e[n-1] < e[n] /\ words[n] = SubSeq(s, e[n-1] + 1, e[n] - 1)
          BY <1>3, <4>1, Zenon
        <5>2. e[n] = k+1
          BY <1>2
        <5> QED  BY <5>1, <5>2
      <4> QED  BY <1>4, <1>5, <4>1, <4>2
    <3>2. PICK b \in 0..k : b = e[n-1]
      BY <3>1
    <3>3. SubSeq(s, b+1, k+1) = Append(SubSeq(s, b+1, k), s[k+1])
      BY <1>4, SubSeqProperties
    <3> QED  BY <1>1, <3>1, <3>2, <3>3
  <2>4. SplitStep(words, s[k+1]) = more
    BY <1>1, <1>7 DEF SplitStep
  <2> HIDE DEF more, f
  <2>5. ASSUME NEW j \in 1..n-1
        PROVE  s[f[j]] = Blank
    BY <1>2, <2>2
  <2>6. ASSUME NEW j \in 1..n
        PROVE  /\ f[j-1] < f[j]
               /\ more[j] = SubSeq(s, f[j-1] + 1, f[j] - 1)
               /\ \A i \in 1..k+1 : f[j-1] < i /\ i < f[j] => s[i] # Blank
    <3>0. j-1 \in 0..n-1 /\ j-1 \in 0..n
      OBVIOUS
    <3>1. CASE j = n
      <4>1. f[j-1] = e[n-1] /\ f[j] = k+2 /\ e[n-1] < k+1 /\ e[n-1] \in Nat
        BY <1>2, <1>3, <1>5, <2>2, <3>0, <3>1
      <4>2. \A i \in 1..k+1 : e[n-1] < i => s[i] # Blank
        <5>1. \A i \in 1..k : e[n-1] < i => s[i] # Blank
          BY <1>2, <1>3, <1>4
        <5> QED  BY <1>1, <1>4, <1>7, <5>1
      <4>3. f[j] - 1 = k+1 /\ f[j-1] < f[j]
        BY <1>4, <4>1
      <4>4. more[j] = Append(words[n], p)
        BY <2>1, <3>1
      <4> QED  BY <2>3, <4>1, <4>2, <4>3, <4>4, Zenon
    <3>2. CASE j \in 1..n-1
      <4>1. f[j-1] = e[j-1] /\ f[j] = e[j]
        BY <2>2, <3>0, <3>2
      <4>2. \A i \in 1..k+1 : i < e[j] => i \in 1..k
        BY <1>4, <1>5, <3>2
      <4>3. \A i \in 1..k+1 : e[j-1] < i /\ i < e[j] => s[i] # Blank
        BY <1>3, <4>2
      <4>4. e[j-1] < e[j] /\ words[j] = SubSeq(s, e[j-1] + 1, e[j] - 1)
        BY <1>3
      <4>5. more[j] = words[j]
        BY <2>1, <3>2
      <4> QED  BY <4>1, <4>3, <4>4, <4>5, Zenon
    <3> QED  BY <3>1, <3>2
  <2>7. Cuts(s, k+1, more, f)
    <3>1. Len(more) # 0 /\ k+1+1 = k+2 /\ f[0] = 0
      BY <1>2, <1>4, <2>1, <2>2
    <3> QED  BY <2>1, <2>2, <2>5, <2>6, <3>1, Zenon DEF Cuts
  <2> QED  BY <2>4, <2>7
<1> QED  BY <1>6, <1>7

\* Split returns what stands between the blanks, in order and to the end.
LEMMA SplitCuts ==
  ASSUME NEW s \in Seq(Piece)
  PROVE  \E e : Cuts(s, Len(s), Split(s), e)
<1>1. PICK n \in Nat : n = Len(s) /\ DOMAIN s = 1..n
  BY LenProperties
<1>2. PICK w : /\ w[0] = << <<>> >>
               /\ \A k \in 0..n-1 : w[k+1] = SplitStep(w[k], s[k+1])
               /\ w[n] = Split(s)
  BY <1>1, SplitSteps
<1> DEFINE P(k) == \E e : Cuts(s, k, w[k], e)
           T == {k \in 0..n : ~P(k)}
<1>3. P(0)
  BY <1>2, CutsAtStart
<1>4. ASSUME NEW k \in 0..n-1, P(k)
      PROVE  P(k+1)
  <2>1. PICK e : Cuts(s, k, w[k], e)
    BY <1>4
  <2>2. PICK words : words = w[k]
    OBVIOUS
  <2>3. \E f : Cuts(s, k+1, SplitStep(words, s[k+1]), f)
    BY <1>1, <2>1, <2>2, CutsGrow
  <2>4. w[k+1] = SplitStep(words, s[k+1])
    BY <1>2, <2>2
  <2> QED  BY <2>3, <2>4
<1> HIDE DEF P
<1>5. T = {}
  <2>1. SUFFICES ASSUME T # {} PROVE FALSE
    OBVIOUS
  <2>2. T \subseteq Nat
    OBVIOUS
  <2>3. PICK k \in T : \A y \in T : k <= y
    BY <2>1, <2>2, LeastNatural
  <2>4. k \in 0..n /\ k # 0 /\ ~P(k)
    BY <1>3
  <2>5. k-1 \in 0..n-1 /\ k-1 \notin T /\ k-1+1 = k
    BY <2>3, <2>4
  <2>6. P(k-1)
    BY <2>5
  <2>7. P(k-1+1)
    BY <1>4, <2>5, <2>6
  <2> QED  BY <2>4, <2>5, <2>7
<1>6. P(n)
  BY <1>5
<1> QED  BY <1>1, <1>2, <1>6 DEF P

\* trim returns a part of the line.
LEMMA TrimTyped ==
  ASSUME NEW s \in Seq(Piece)
  PROVE  Trim(s) \in Seq(Piece)
<1> DEFINE ink == {i \in 1..Len(s) : s[i] \notin White}
           first == CHOOSE i \in ink : \A j \in ink : i <= j
           last == CHOOSE i \in ink : \A j \in ink : j <= i
<1>1. CASE ink = {}
  BY <1>1 DEF Trim
<1>2. CASE ink # {}
  <2>1. Len(s) \in Nat /\ ink \subseteq 1..Len(s) /\ ink \subseteq Nat
    BY LenProperties
  <2>2. (\E i \in ink : \A j \in ink : i <= j) /\ (\E i \in ink : \A j \in ink : j <= i)
    <3>1. PICK W \in SUBSET (1..Len(s)), n \in Nat : W = ink /\ n = Len(s)
      BY <2>1
    <3> QED  BY <1>2, <2>1, <3>1, LeastNatural, GreatestNatural
  <2>3. first \in ink /\ last \in ink
    BY <2>2, Zenon
  <2>4. Trim(s) = SubSeq(s, first, last)
    BY <1>2, Zenon DEF Trim
  <2> HIDE DEF first, last
  <2>5. \A i \in first..last : s[i] \in Piece
    BY <2>1, <2>3, ElementOfSeq
  <2>6. PICK a \in Int, b \in Int : a = first /\ b = last
    BY <2>1, <2>3
  <2> QED  BY <2>4, <2>5, <2>6, SubSeqProperties
<1> QED  BY <1>1, <1>2

\* The length of what stands strictly between two places.
LEMMA LengthBetween ==
  ASSUME NEW s \in Seq(Piece), NEW a \in Nat, NEW z \in Nat, a < z, z <= Len(s) + 1
  PROVE  a + Len(SubSeq(s, a+1, z-1)) + 1 = z
<1>1. \A i \in a+1..z-1 : s[i] \in Piece
  <2>1. \A i \in a+1..z-1 : i \in 1..Len(s)
    BY LenProperties
  <2> QED  BY <2>1, ElementOfSeq
<1>2. Len(SubSeq(s, a+1, z-1)) = IF a+1 <= z-1 THEN z-1-(a+1)+1 ELSE 0
  BY <1>1, SubSeqProperties
<1> QED  BY <1>2

\* A place e[j] is a blank unless the line ends there, and what stands before it
\* is the word.
LEMMA StretchIsWord ==
  ASSUME Body \in Seq(Piece), NEW words, NEW e, Cuts(Body, Len(Body), words, e),
         NEW j \in 1..Len(words)
  PROVE  /\ Stretch(e[j-1]) = words[j]
         /\ e[j-1] + Len(words[j]) + 1 = e[j]
         /\ e[j] \in Blanks <=> j # Len(words)
<1>1. PICK b \in Seq(Piece), m \in Nat, n \in Nat \ {0} :
        b = Body /\ m = Len(b) /\ n = Len(words)
  <2>1. words \in Seq(Seq(Piece)) /\ Len(words) # 0
    BY DEF Cuts
  <2> QED  BY <2>1, LenProperties
<1>2. /\ e \in [0..n -> 0..m+1] /\ e[n] = m+1
      /\ \A i \in 1..n-1 : b[e[i]] = Blank
  BY <1>1 DEF Cuts
<1>3. \A i \in 1..n :
        /\ e[i-1] < e[i]
        /\ words[i] = SubSeq(b, e[i-1] + 1, e[i] - 1)
        /\ \A k \in 1..m : e[i-1] < k /\ k < e[i] => b[k] # Blank
  BY <1>1 DEF Cuts
<1>4. \A i \in 0..n : e[i] \in Nat /\ e[i] <= m+1
  BY <1>2
<1>5. PICK a \in Nat, z \in Nat : a = e[j-1] /\ z = e[j] /\ a < z /\ z <= m+1
  <2>1. j \in 1..n /\ j-1 \in 0..n /\ j \in 0..n
    BY <1>1
  <2> QED  BY <1>3, <1>4, <2>1
<1>6. Blanks = {i \in 1..m : b[i] = Blank}
  BY <1>1 DEF Blanks
<1>7. z \in Blanks <=> j # n
  <2>1. CASE j = n
    BY <1>2, <1>5, <1>6, <2>1
  <2>2. CASE j # n
    <3>1. j \in 1..n-1 /\ j+1 \in 1..n /\ j+1 \in 0..n /\ j+1-1 = j
      BY <1>1, <2>2
    <3>2. b[z] = Blank /\ z < e[j+1] /\ e[j+1] <= m+1 /\ e[j+1] \in Nat
      <4>1. e[j+1-1] < e[j+1]
        BY <1>3, <3>1
      <4>2. b[e[j]] = Blank /\ e[j+1] <= m+1 /\ e[j+1] \in Nat
        BY <1>2, <1>4, <3>1
      <4> QED  BY <1>5, <3>1, <4>1, <4>2
    <3>3. z \in 1..m
      BY <1>5, <3>2
    <3> QED  BY <1>6, <2>2, <3>2, <3>3
  <2> QED  BY <2>1, <2>2
<1> DEFINE later == {i \in Blanks : i > a} \union {m + 1}
<1>8. z \in later
  BY <1>2, <1>5, <1>7
<1>9. ASSUME NEW k \in later PROVE z <= k /\ k \in Nat
  <2>1. CASE k = m+1
    BY <1>5, <2>1
  <2>2. CASE k \in Blanks /\ k > a
    <3>1. k \in 1..m /\ b[k] = Blank
      BY <1>6, <2>2
    <3>2. ~(k < z)
      BY <1>1, <1>3, <1>5, <2>2, <3>1
    <3> QED  BY <1>5, <3>1, <3>2
  <2> QED  BY <2>1, <2>2
<1>10. (CHOOSE i \in {k - 1 : k \in later} : \A k \in later : i < k) = z - 1
  <2>1. z-1 \in {k - 1 : k \in later} /\ \A k \in later : z-1 < k
    <3> HIDE DEF later
    <3>1. z-1 \in {k - 1 : k \in later}
      BY <1>8
    <3>2. \A k \in later : z-1 < k
      BY <1>5, <1>9
    <3> QED  BY <3>1, <3>2
  <2>2. ASSUME NEW i \in {k - 1 : k \in later}, \A k \in later : i < k
        PROVE  i = z-1
    <3>1. PICK k \in later : i = k - 1
      OBVIOUS
    <3>2. i < z /\ z <= k /\ k \in Nat
      BY <1>8, <1>9, <2>2
    <3> QED  BY <1>5, <3>1, <3>2
  <2> HIDE DEF later
  <2> QED  BY <2>1, <2>2, Zenon
<1>11. Stretch(a) = SubSeq(b, a+1, z-1)
  BY <1>1, <1>10, Zenon DEF Stretch
<1>12. words[j] = SubSeq(b, a+1, z-1)
  BY <1>1, <1>3, <1>5
<1>13. a + Len(SubSeq(b, a+1, z-1)) + 1 = z
  BY <1>1, <1>5, LengthBetween
<1> QED  BY <1>1, <1>5, <1>7, <1>11, <1>12, <1>13

\* The words that parse_command uses are the stretches that Written reads: the
\* first three of them, as far as there are any.
LEMMA ParsedAsWritten ==
  ASSUME line \in Seq(Piece)
  PROVE  ParsesAsWritten
<1>1. Body \in Seq(Piece)
  BY TrimTyped DEF Body
<1>2. PICK words, e : words = Split(Body) /\ Cuts(Body, Len(Body), words, e)
  BY <1>1, SplitCuts
<1>3. PICK n \in Nat \ {0} : n = Len(words)
  <2>1. words \in Seq(Seq(Piece)) /\ Len(words) # 0
    BY <1>2 DEF Cuts
  <2> QED  BY <2>1, LenProperties
<1>4. \A j \in 1..n : /\ Stretch(e[j-1]) = words[j]
                      /\ e[j-1] + Len(words[j]) + 1 = e[j]
                      /\ e[j] \in Blanks <=> j # n
  BY <1>1, <1>2, <1>3, StretchIsWord
<1>5. /\ Stretch(0) = words[1]
      /\ Len(Stretch(0)) + 1 = e[1]
      /\ e[1] \in Blanks <=> n # 1
  <2>1. e[0] = 0 /\ 1 \in 1..n
    BY <1>2, <1>3 DEF Cuts
  <2>2. words[1] \in Seq(Piece)
    BY <1>2, <1>3, <2>1, ElementOfSeq DEF Cuts
  <2>3. Len(words[1]) \in Nat
    BY <2>2, LenProperties
  <2> QED  BY <1>4, <2>1, <2>3
<1>6. n # 1 =>
        /\ Stretch(e[1]) = words[2]
        /\ e[1] + Len(words[2]) + 1 = e[2]
        /\ e[2] \in Blanks <=> n >= 3
        /\ n >= 3 => Stretch(e[2]) = words[3]
  BY <1>3, <1>4
<1> DEFINE w == Trim(words[1])
<1>7. \A op : Names(op) <=> Len(w) = 1 /\ Lowercase(w[1]) = op
  BY <1>5 DEF Names
<1>8. parse_opr(words[1]) =
        IF Len(w) = 1 /\ Lowercase(w[1]) \in Operations THEN Lowercase(w[1])
        ELSE NoOperation
  BY DEF parse_opr
<1>9. validate(line) = IF n = 1 THEN NoOperation ELSE parse_opr(words[1])
  BY <1>2, <1>3 DEF validate, Body
<1> HIDE DEF w
<1> DEFINE opr == validate(line)
<1>10. CASE n = 1
  <2>1. Parsed = Invalid
    BY <1>9, <1>10 DEF Parsed, parse_command
  <2>2. Written = Invalid
    BY <1>5, <1>10 DEF Written
  <2> QED  BY <2>1, <2>2 DEF ParsesAsWritten
<1>11. CASE n # 1
  <2>1. /\ Names("get") <=> opr = "get"
        /\ Names("delete") <=> opr = "delete"
        /\ Names("set") <=> opr \notin {"get", "delete", NoOperation}
    BY <1>7, <1>8, <1>9, <1>11 DEF Operations, NoOperation
  <2>2. Parsed = IF opr = NoOperation THEN Invalid
                 ELSE IF opr = "get" THEN [op |-> "Get", key |-> words[2]]
                 ELSE IF opr = "delete" THEN [op |-> "Delete", key |-> words[2]]
                 ELSE IF n < 3 THEN Panics
                 ELSE [op |-> "Set", key |-> words[2], text |-> words[3]]
    BY <1>2, <1>3, Zenon DEF Parsed, parse_command, Body
  <2>3. Written = IF Names("get") THEN [op |-> "Get", key |-> words[2]]
                  ELSE IF Names("delete") THEN [op |-> "Delete", key |-> words[2]]
                  ELSE IF ~Names("set") THEN Invalid
                  ELSE IF e[2] \notin Blanks THEN Panics
                  ELSE [op |-> "Set", key |-> words[2], text |-> Stretch(e[2])]
    BY <1>5, <1>6, <1>11, Zenon DEF Written
  <2>4. opr = NoOperation => opr # "get" /\ opr # "delete"
    BY DEF NoOperation
  <2>5. e[2] \notin Blanks <=> n < 3
    BY <1>3, <1>6, <1>11
  <2> HIDE DEF opr
  <2> QED  BY <1>3, <1>6, <1>11, <2>1, <2>2, <2>3, <2>4, <2>5 DEF ParsesAsWritten
<1> QED  BY <1>10, <1>11

\* Whatever is typed, and however long it gets, is parsed as what stands between
\* its blanks once the white space around it is gone: split(" ") and the indexes
\* that parse_command takes of its words never shift by an empty word, a tab or
\* a word too many.
THEOREM ParserReadsWhatIsWritten == Typing => []ParsesAsWritten
<1>1. line = <<>> => line \in Seq(Piece)
  OBVIOUS
<1>2. line \in Seq(Piece) /\ [\E p \in Piece : Type(p)]_line => (line \in Seq(Piece))'
  BY AppendProperties DEF Type
<1>3. line \in Seq(Piece) => ParsesAsWritten
  BY ParsedAsWritten
<1> QED  BY <1>1, <1>2, <1>3, PTL DEF Typing
=============================================================================
