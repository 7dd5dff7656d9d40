---------------------------- MODULE MCScoreboard ----------------------------
(***************************************************************************)
(* Small draws for TLC.  Each draw is a corner of a bracket the generators *)
(* write: the matches around the ones that are fought at the same time.    *)
(***************************************************************************)
EXTENDS Scoreboard, TLC

CONSTANTS h1, h2

OneHandler == {h1}

TwoHandlers == {h1, h2}

HandlerSymmetry == Permutations(TwoHandlers)

NoEntrants == <<None, None>>

-----------------------------------------------------------------------------
(* One match without a way on: a match of a ROUND_ROBIN category. *)
OneMatches == {"M"}

OneCompetitors == {"ann", "bea"}

OneEntrants == [m \in OneMatches |-> <<"ann", "bea">>]

OneWinnerTo == [m \in OneMatches |-> None]

OneLoserTo == OneWinnerTo

OneMatOf == OneWinnerTo

OneSide == [m \in OneMatches |-> 1]

OneRank == [m \in OneMatches |-> 1]

-----------------------------------------------------------------------------
(* GRAND_SLAM around SF1: the finals of pools A and B feed the semi-final  *)
(* and the top repechage.                                                  *)
SlamMatches == {"PA", "PB", "SF1", "REP"}

SlamCompetitors == {"ann", "bea", "cid", "dan"}

SlamEntrants ==
  [m \in SlamMatches |->
     CASE m = "PA" -> <<"ann", "bea">>
       [] m = "PB" -> <<"cid", "dan">>
       [] OTHER    -> NoEntrants]

SlamWinnerTo == [m \in SlamMatches |-> IF m \in {"PA", "PB"} THEN "SF1" ELSE None]

SlamLoserTo == [m \in SlamMatches |-> IF m \in {"PA", "PB"} THEN "REP" ELSE None]

SlamSide == [m \in SlamMatches |-> IF m = "PB" THEN 2 ELSE 1]

SlamRank == [m \in SlamMatches |->
  CASE m = "PA" -> 1 [] m = "PB" -> 2 [] m = "SF1" -> 3 [] m = "REP" -> 4]

SlamMatOf == [m \in SlamMatches |-> None]

-----------------------------------------------------------------------------
(* DOUBLE_REPECHAGE around one repechage: the losers of two quarter-finals *)
(* share it, and neither has a side of its own.                            *)
RepMatches == {"QF1", "QF2", "REP"}

RepEntrants ==
  [m \in RepMatches |->
     CASE m = "QF1" -> <<"ann", "bea">>
       [] m = "QF2" -> <<"cid", "dan">>
       [] m = "REP" -> NoEntrants]

RepWinnerTo == [m \in RepMatches |-> None]

RepLoserTo == [m \in RepMatches |-> IF m = "REP" THEN None ELSE "REP"]

RepLoserSide == [m \in RepMatches |-> FirstFree]

RepSide == [m \in RepMatches |-> 1]

RepRank == [m \in RepMatches |->
  CASE m = "QF1" -> 1 [] m = "QF2" -> 2 [] m = "REP" -> 3]

RepMatOf == [m \in RepMatches |-> "mat1"]
=============================================================================
