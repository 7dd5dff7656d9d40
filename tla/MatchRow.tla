------------------------------ MODULE MatchRow ------------------------------
(***************************************************************************)
(* One row of Match: its columns, and what the services read off it.  A    *)
(* side is 1 for competitor1 and 2 for competitor2.                        *)
(***************************************************************************)
EXTENDS Scoring

CONSTANT None        \* SQL NULL

Statuses == {"SCHEDULED", "ACTIVE", "COMPLETED"}

(* Match.winMethod: VALID_WIN_METHODS plus the walkover of a bye.          *)
WinMethods == {"IPPON", "WAZA_ARI", "DECISION", "HANSOKU_MAKE",
               "FUSEN_GACHI", "KIKEN_GACHI"}

Score == [wazaAri : Nat, yuko : Nat, shido : Nat]

(* A match just created.                                                   *)
ScheduledRow(pair) ==
  [status |-> "SCHEDULED", competitor |-> pair, scores |-> EmptyScores,
   winner |-> None, winMethod |-> None, goldenScore |-> FALSE]

(* Mutant of Loser: the winner.                                            *)
NotTheLoser(row, winner) ==
  IF row.competitor[1] = winner THEN row.competitor[1] ELSE row.competitor[2]

(* loserId of the advanceWinnerIn... helpers: the other competitor of the  *)
(* completed row, which is competitor1 whenever the winner is not          *)
(* competitor1, in the match or not.                                       *)
Loser(row, winner) ==
  IF row.competitor[1] = winner THEN row.competitor[2] ELSE row.competitor[1]

(* Mutant of FreeSide: every loser takes competitor1.                      *)
AlwaysFirstSide(row) == 1

(* The slot of an arriving loser when the draw does not fix it.            *)
FreeSide(row) == IF row.competitor[1] = None THEN 1 ELSE 2

(* A match that can be fought.                                             *)
ReadyRow(row) ==
  /\ row.status = "SCHEDULED"
  /\ \A side \in Sides : row.competitor[side] # None
=============================================================================
