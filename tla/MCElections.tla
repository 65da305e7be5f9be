----------------------------- MODULE MCElections -----------------------------
(***************************************************************************)
(* The elections of MCRaft with a history: has any node taken a step that  *)
(* breaks what elections rest on?                                          *)
(***************************************************************************)
EXTENDS MCRaft

VARIABLE lapsed

HistoryInit == Init /\ lapsed = FALSE

\* A bound: logs have a second entry only where nothing rare has happened.
ShortLogs == rare = 0 \/ \A n \in Node : Len(log[n]) <= 1

HistoryNext ==
  /\ Next
  /\ ShortLogs'
  /\ lapsed' = (lapsed \/ \E n \in Node : Lapse(n))

HistorySpec == HistoryInit /\ [][HistoryNext]_<<vars, lapsed>>

\* No two nodes lead in one term, in memory or over a restart from the file, as long
\* as no node has crashed unsaved, gone back a term, voted in the gap before its
\* campaign or left the term it has won: votes, their count, their late and lost
\* answers, refusals that take a vote back, and saves do not lead to it.
OneLeaderUnlessLapse == lapsed \/ OneLeaderPerTerm
=============================================================================
