------------------------- MODULE RaftRulesProperties -------------------------
(***************************************************************************)
(* The decisions of RaftRules against those of the Raft paper, for a node  *)
(* whose log is mine, a peer whose log is theirs, and a match_index map:   *)
(* where they agree, and where exactly they do not.  The logs grow in any  *)
(* way, or the map does, since no decision looks at both; what produces    *)
(* them is not looked at here.                                             *)
(***************************************************************************)
EXTENDS RaftRules

CONSTANTS MaxTerm, MaxIndex   \* bounds: terms and lengths

ASSUME RuleBounds == MaxTerm \in Nat /\ MaxIndex \in Nat

VARIABLES mine, theirs, match

Init ==
  /\ mine = <<>> /\ theirs = <<>>
  /\ match = [m \in Node |-> 0]

Longer(l) ==
  {Append(l, [value |-> v, term |-> t]) :
     v \in Value, t \in {u \in 1..MaxTerm : u >= LastTerm(l)}}

NoLogs == mine = <<>> /\ theirs = <<>>
NoMatch == \A m \in Node : match[m] = 0

GrowMine ==
  /\ NoMatch /\ Len(mine) < MaxIndex
  /\ mine' \in Longer(mine) /\ UNCHANGED <<theirs, match>>

GrowTheirs ==
  /\ NoMatch /\ Len(theirs) < MaxIndex
  /\ theirs' \in Longer(theirs) /\ UNCHANGED <<mine, match>>

Reach(m) ==
  /\ NoLogs /\ match[m] < MaxIndex
  /\ match' = [match EXCEPT ![m] = @ + 1] /\ UNCHANGED <<mine, theirs>>

Next == GrowMine \/ GrowTheirs \/ \E m \in Node : Reach(m)

Spec == Init /\ [][Next]_<<mine, theirs, match>>

-----------------------------------------------------------------------------
\* Section 5.4.1: theirs is at least as up-to-date as mine.
UpToDate ==
  \/ LastTerm(theirs) > LastTerm(mine)
  \/ LastTerm(theirs) = LastTerm(mine) /\ Len(theirs) >= Len(mine)

\* Figure 2, RequestVote, with "If RPC request contains term > currentTerm"
\* having forgotten the vote of an earlier term.
PaperGrants(term, votedFor, req) ==
  /\ req.term >= term
  /\ req.term = term => votedFor \in {NoNode, req.candidate}
  /\ UpToDate

\* request_vote decides as the paper does, for any terms, votes and logs, but
\* for a voter with an empty log that has ever voted: it refuses for good.
VotesAsPaper ==
  \A n \in Node : \A term, asked \in 0..MaxTerm : \A votedFor \in Node \union {NoNode} :
    LET req == VoteRequestOf(n, asked, theirs)
    IN  GrantsVote(term, votedFor, mine, req)
          <=> PaperGrants(term, votedFor, req) /\ (mine = <<>> => votedFor = NoNode)

\* Figure 2, AppendEntries, steps 1 and 2.
PaperAccepts(term, l, req) ==
  /\ req.term >= term
  /\ req.prevLogIndex > 0 =>
       req.prevLogIndex <= Len(l) /\ l[req.prevLogIndex].term = req.prevLogTerm

\* append_entries accepts what the paper accepts, for any logs and any role and
\* terms but one case: whether a node that is not a leader refuses a term that is
\* over ("Reply falses if term < current term") is asked by StaleAppendRefused, and
\* the answer is no.  What the paper accepts is lost if it is a first append, with
\* prev_log_index 0, on a log that is not empty; then, and only then, is it not
\* refused either: the handler panics.
AcceptsAsPaper ==
  \A n \in Node : \A next \in 1..Len(theirs)+1 : \A role \in Role :
  \A term, sent \in 0..MaxTerm :
    LET req == AppendRequestOf(n, sent, theirs, next, 0)
        FirstOnOld == req.prevLogIndex = 0 /\ mine # <<>>
    IN  role = "Leader" \/ sent >= term =>
          /\ AppendAccepted(role, term, mine, req)
               <=> PaperAccepts(term, mine, req) /\ ~FirstOnOld
          /\ AppendUnderflows(role, term, mine, req)
               <=> req.term >= term /\ FirstOnOld

\* Figure 2, AppendEntries, steps 3 and 4: an entry that conflicts goes, with all
\* that follow it; what is missing is appended.
PaperMerge(l, req) ==
  LET prev == req.prevLogIndex
      conflict == \E i \in 1..Len(req.entries) :
                    /\ prev + i <= Len(l)
                    /\ l[prev + i].term # req.entries[i].term
  IN  IF conflict \/ Len(l) < prev + Len(req.entries)
      THEN SubSeq(l, 1, prev) \o req.entries ELSE l

\* append_entries merges as the paper does exactly when the follower has nothing
\* after prev_log_index: whenever it has, the log comes out wrong.  So all that
\* keeps a cluster's logs right is that next_index says where the log ends.
MergesAsPaperAtEnd ==
  \A n \in Node : \A next \in 1..Len(theirs)+1 : \A term \in 0..MaxTerm :
    LET req == AppendRequestOf(n, MaxTerm, theirs, next, 0)
    IN  AppendAccepted("Follower", term, mine, req) =>
          (MergedLog(mine, req) = PaperMerge(mine, req)
             <=> Len(mine) = req.prevLogIndex)

\* The index that a leader commits, if it finds one, is the greatest that a
\* quorum has reached: counting equal values instead of values reached is safe,
\* never picks between two, and loses nothing but time.
Reached(k) == Cardinality({m \in Node : match[m] >= k})

PicksGreatestReached ==
  \A n \in Node : \A k \in QuorumMatches(n, match) :
    /\ Reached(k) >= QuorumLength(n)
    /\ \A j \in k+1..MaxIndex : Reached(j) < QuorumLength(n)
=============================================================================
