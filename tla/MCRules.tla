------------------------------- MODULE MCRules -------------------------------
(***************************************************************************)
(* The functions of the two programs against their references: either logs *)
(* and match indexes grow, or a line is typed.  Four nodes, so that half   *)
(* of them are not a quorum.                                               *)
(***************************************************************************)
EXTENDS RaftRulesProperties, KvCommandsProperties, TLC

CONSTANTS m1, m2, m3, m4

FourMachines ==
  (m1 :> <<m2, m3, m4>>) @@ (m2 :> <<m1, m3, m4>>)
    @@ (m3 :> <<m1, m2, m4>>) @@ (m4 :> <<m1, m2, m3>>)

OneUpper == "SET" :> "set"

FunctionsInit == Init /\ line = <<>>

FunctionsNext ==
  \/ line = <<>> /\ Next /\ UNCHANGED line
  \/ Init /\ (\E p \in Piece : Type(p)) /\ UNCHANGED <<mine, theirs, match>>

FunctionsSpec == FunctionsInit /\ [][FunctionsNext]_<<mine, theirs, match, line>>
=============================================================================
