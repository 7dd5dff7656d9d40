----------------------------- MODULE Standings -----------------------------
(***************************************************************************)
(* StandingsService for the formats that end in a knock-out: the placings  *)
(* are read off the rows of the deciding matches.  row is a function from  *)
(* match ids (module Brackets) to rows (module MatchRow).                  *)
(***************************************************************************)
EXTENDS MatchRow, Brackets

Place(rank, competitor) == [rank |-> rank, competitor |-> competitor]

Exists(row, m) == m \in DOMAIN row

Done(row, m) == Exists(row, m) /\ row[m].status = "COMPLETED" /\ row[m].winner # None

(* loserId, loser: nobody unless both competitors are known.               *)
Beaten(row, m) ==
  IF Done(row, m) /\ \A side \in Sides : row[m].competitor[side] # None
  THEN {Loser(row[m], row[m].winner)} ELSE {}

WinnerPlace(row, m, rank) == IF Done(row, m) THEN {Place(rank, row[m].winner)} ELSE {}

LoserPlace(row, m, rank) == {Place(rank, c) : c \in Beaten(row, m)}

-----------------------------------------------------------------------------
(* computeGrandSlamStandings: 1, 2, 3, 3, 5, 5, 7, 7                       *)
GrandSlamPlaces(row) ==
  WinnerPlace(row, Final, 1) \cup LoserPlace(row, Final, 2)
    \cup UNION {WinnerPlace(row, Bronze(half), 3) \cup LoserPlace(row, Bronze(half), 5)
                  \cup LoserPlace(row, Repechage(half), 7) : half \in Halves}

-----------------------------------------------------------------------------
(* computeEliminationStandings: the final is looked up in the last round   *)
(* of a bracket for the competitors that are not WITHDRAWN.                *)
FinalFor(registered) == MatchId("MAIN", NoGroup, TotalRoundsFor(registered), 1)

BronzesOf(row) == {m \in DOMAIN row : m.phase = "KNOCKOUT_BRONZE"}

(* Without bronze matches both losers of the semi-finals are third.        *)
ThirdPlaces(row, registered) ==
  IF BronzesOf(row) # {}
  THEN UNION {WinnerPlace(row, m, 3) : m \in BronzesOf(row)}
  ELSE UNION {LoserPlace(row, m, 3) :
                m \in {n \in DOMAIN row : n.phase = "MAIN" /\ TotalRoundsFor(registered) >= 2
                                            /\ n.round = TotalRoundsFor(registered) - 1}}

EliminationPlaces(row, registered) ==
  WinnerPlace(row, FinalFor(registered), 1) \cup LoserPlace(row, FinalFor(registered), 2)
    \cup ThirdPlaces(row, registered)

(* Mutant of EliminationComplete: the bronzes are not waited for.          *)
FinalIsEnough(row, registered) == Done(row, FinalFor(registered))

EliminationComplete(row, registered) ==
  Done(row, FinalFor(registered)) /\ \A m \in BronzesOf(row) : Done(row, m)

-----------------------------------------------------------------------------
(* computePoolsStandings: a final or bronze without two competitors gives  *)
(* no place at all.                                                        *)
Fought(row, m) == Beaten(row, m) # {}

Pair(row, m, rank) ==
  IF Fought(row, m)
  THEN WinnerPlace(row, m, rank) \cup LoserPlace(row, m, rank + 1) ELSE {}

PoolsPlaces(row, final, bronze) == Pair(row, final, 1) \cup Pair(row, bronze, 3)

PoolsComplete(row, final, bronze) == Fought(row, final) /\ Fought(row, bronze)
=============================================================================
