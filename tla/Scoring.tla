------------------------------ MODULE Scoring ------------------------------
(***************************************************************************)
(* The pure part of ScoreboardService.applyScoreEvent: what one score      *)
(* event does to the two scores of a match, and when it ends the match.    *)
(* A side is 1 for competitor1 and 2 for competitor2.                      *)
(***************************************************************************)
EXTENDS Integers

Sides == {1, 2}

Opponent(side) == 3 - side

ScoreEventTypes == {"WAZA_ARI", "YUKO", "SHIDO", "IPPON"}

EmptyScore == [wazaAri |-> 0, yuko |-> 0, shido |-> 0]

EmptyScores == [side \in Sides |-> EmptyScore]

Points(type, counted) == IF type = counted THEN 1 ELSE 0

(* The scores after the event: IPPON counts nothing, it only ends.         *)
Scored(scores, side, type) ==
  [scores EXCEPT ![side] =
     [wazaAri |-> @.wazaAri + Points(type, "WAZA_ARI"),
      yuko    |-> @.yuko    + Points(type, "YUKO"),
      shido   |-> @.shido   + Points(type, "SHIDO")]]

(* Two waza-ari are an ippon; the test reads the scores after the event    *)
(* and only of the competitor the event names.                             *)
EndsByIppon(score, type) == type = "IPPON" \/ score.wazaAri >= 2

(* Mutant of EndsByHansokuMake: the fourth shido ends the match.           *)
EndsByFourthShido(score, type) == ~EndsByIppon(score, type) /\ score.shido > 3

EndsByHansokuMake(score, type) ==
  ~EndsByIppon(score, type) /\ score.shido >= 3

Terminates(score, type) ==
  EndsByIppon(score, type) \/ EndsByHansokuMake(score, type)

WinningSide(side, score, type) ==
  IF EndsByIppon(score, type) THEN side ELSE Opponent(side)

(* Mutant of MethodOf: a name that is no WinMethod.                        *)
UnknownMethodOf(score, type) ==
  IF EndsByIppon(score, type) THEN "IPPON" ELSE "HANSOKU"

MethodOf(score, type) ==
  IF EndsByIppon(score, type) THEN "IPPON" ELSE "HANSOKU_MAKE"

(* Neither competitor has reached a score that should have ended it.       *)
Undecided(scores) ==
  \A side \in Sides : scores[side].wazaAri < 2 /\ scores[side].shido < 3
=============================================================================
