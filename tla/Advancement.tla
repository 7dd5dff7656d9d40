---------------------------- MODULE Advancement ----------------------------
(***************************************************************************)
(* Where ScoreboardService.advanceWinner and its helpers send the winner   *)
(* and the loser of a match of a drawn category.  POOLS is not here: its   *)
(* knock-out does not exist when the category is drawn.                    *)
(*                                                                         *)
(* The routes of a DOUBLE_REPECHAGE depend on the number of competitors    *)
(* that are not WITHDRAWN when the match is completed, called registered.  *)
(***************************************************************************)
EXTENDS Brackets, MatchRow

ArrivalOrder == 0     \* the loser takes whichever side is still open

Route(match, side) == [match |-> match, side |-> side]

NoRoutes == {}

(* A route exists only if the match it leads to is found.                  *)
Found(draw, route) == IF route.match \in DOMAIN draw THEN {route} ELSE NoRoutes

(* Mutant of NextSlot: positions are halved as if they started at 0.       *)
NextSlotFromZero(m) ==
  Route([m EXCEPT !.round = @ + 1, !.position = @ \div 2],
        IF m.position % 2 = 1 THEN 1 ELSE 2)

(* getNextSlot *)
NextSlot(m) ==
  Route([m EXCEPT !.round = @ + 1, !.position = (@ + 1) \div 2],
        IF m.position % 2 = 1 THEN 1 ELSE 2)

-----------------------------------------------------------------------------
(* DOUBLE_REPECHAGE *)
WinnerInDoubleRepechage(draw, m) ==
  CASE m.phase = "REPECHAGE"       -> Found(draw, Route(Bronze(m.group), 1))
    [] m.phase = "KNOCKOUT_BRONZE" -> NoRoutes
    [] OTHER                       -> Found(draw, NextSlot(m))

LoserInDoubleRepechage(draw, m, registered) ==
  LET totalRounds == TotalRoundsFor(registered)
      half == HalfFor(m.round, m.position, totalRounds)
  IN  CASE m.phase # "MAIN" -> NoRoutes
        [] m.phase = "MAIN" /\ m.round = totalRounds - 2 ->
             Found(draw, Route(Repechage(half), ArrivalOrder))
        [] m.phase = "MAIN" /\ m.round = totalRounds - 1 ->
             Found(draw, Route(Bronze(half), 2))
        [] OTHER -> NoRoutes

-----------------------------------------------------------------------------
(* GRAND_SLAM *)
IsPoolFinal(draw, m) ==
  m.phase = "POOL" /\
    \A n \in DOMAIN draw : n.phase = "POOL" /\ n.group = m.group => n.round <= m.round

TopPool(group) == group \in {"A", "B"}

SideOfPool(group) == IF group \in {"A", "C"} THEN 1 ELSE 2

WinnerInGrandSlam(draw, m) ==
  CASE IsPoolFinal(draw, m) ->
         Found(draw, Route(Semifinal(IF TopPool(m.group) THEN 1 ELSE 2), SideOfPool(m.group)))
    [] m.phase = "POOL" /\ ~IsPoolFinal(draw, m) -> Found(draw, NextSlot(m))
    [] m.phase = "KNOCKOUT_SF" ->
         Found(draw, Route(Final, IF m.position = 1 THEN 1 ELSE 2))
    [] m.phase = "REPECHAGE" -> Found(draw, Route(Bronze(m.group), 1))
    [] OTHER -> NoRoutes

(* Mutant of CrossHalf: the losers stay in their half.                     *)
SameHalf(position) == IF position = 1 THEN "TOP" ELSE "BOTTOM"

(* The loser of a semi-final fights for bronze in the other half.          *)
CrossHalf(position) == IF position = 1 THEN "BOTTOM" ELSE "TOP"

(* Mutant of LoserInGrandSlam: the loser of a repechage goes on to bronze. *)
RepechageLoserGoesOn(draw, m) ==
  CASE IsPoolFinal(draw, m) ->
         Found(draw, Route(Repechage(IF TopPool(m.group) THEN "TOP" ELSE "BOTTOM"),
                           SideOfPool(m.group)))
    [] m.phase = "KNOCKOUT_SF" -> Found(draw, Route(Bronze(CrossHalf(m.position)), 2))
    [] m.phase = "REPECHAGE"   -> Found(draw, Route(Bronze(CrossHalf(m.position)), 2))
    [] OTHER -> NoRoutes

LoserInGrandSlam(draw, m) ==
  CASE IsPoolFinal(draw, m) ->
         Found(draw, Route(Repechage(IF TopPool(m.group) THEN "TOP" ELSE "BOTTOM"),
                           SideOfPool(m.group)))
    [] m.phase = "KNOCKOUT_SF" -> Found(draw, Route(Bronze(CrossHalf(m.position)), 2))
    [] OTHER -> NoRoutes

-----------------------------------------------------------------------------
(* advanceWinner: at most one route each. *)
WinnerRoutes(bracketType, draw, m) ==
  CASE bracketType = "ROUND_ROBIN"      -> NoRoutes
    [] bracketType = "DOUBLE_REPECHAGE" -> WinnerInDoubleRepechage(draw, m)
    [] bracketType = "GRAND_SLAM"       -> WinnerInGrandSlam(draw, m)
    [] OTHER                            -> Found(draw, NextSlot(m))

LoserRoutes(bracketType, draw, m, registered) ==
  CASE bracketType = "DOUBLE_REPECHAGE" -> LoserInDoubleRepechage(draw, m, registered)
    [] bracketType = "GRAND_SLAM"       -> LoserInGrandSlam(draw, m)
    [] OTHER                            -> NoRoutes

Target(routes) ==
  IF routes = NoRoutes THEN Route(None, 1) ELSE CHOOSE route \in routes : TRUE

(* What generateBrackets writes and where advanceWinner sends winners and  *)
(* losers, in the terms of module Draw.                                    *)
Generated(bracketType, draw, registered) ==
  LET ids == DOMAIN draw
      winnerRoute == [m \in ids |-> Target(WinnerRoutes(bracketType, draw, m))]
      loserRoute == [m \in ids |-> Target(LoserRoutes(bracketType, draw, m, registered))]
  IN  [matches    |-> ids,
       entrants   |-> [m \in ids |-> [side \in Sides |->
                         IF draw[m][side] = Nobody THEN None ELSE draw[m][side]]],
       byes       |-> {m \in ids : WalkedOver(draw, m)},
       winnerTo   |-> [m \in ids |-> winnerRoute[m].match],
       winnerSide |-> [m \in ids |-> winnerRoute[m].side],
       loserTo    |-> [m \in ids |-> loserRoute[m].match],
       loserSide  |-> [m \in ids |-> loserRoute[m].side]]

(* Somebody is drawn into the slot, or a match sends somebody there.       *)
Fed(drawn, m, side) ==
  \/ drawn.entrants[m][side] # None
  \/ \E n \in drawn.matches : drawn.winnerTo[n] = m /\ drawn.winnerSide[n] = side
  \/ \E n \in drawn.matches : drawn.loserTo[n] = m /\ drawn.loserSide[n] \in {side, ArrivalOrder}

(* The matches that can be fought: not a bye, which is written COMPLETED,  *)
(* or SCHEDULED with nobody to come in a pool of a grand slam.             *)
Contested(drawn) ==
  {m \in drawn.matches \ drawn.byes : \A side \in Sides : Fed(drawn, m, side)}

(* Everybody is drawn into one match that can be fought, and nobody into a *)
(* slot that such a match will fill; a bye leads on, and nobody is sent to *)
(* it.                                                                     *)
EnteredOnce(drawn) ==
  /\ \A m, n \in Contested(drawn), s, t \in Sides :
        drawn.entrants[m][s] # None /\ drawn.entrants[m][s] = drawn.entrants[n][t] =>
          m = n /\ s = t
  /\ \A m \in Contested(drawn) :
        drawn.winnerTo[m] # None =>
          /\ drawn.winnerTo[m] \notin drawn.byes
          /\ drawn.entrants[drawn.winnerTo[m]][drawn.winnerSide[m]] = None
  /\ \A m \in drawn.byes : drawn.winnerTo[m] # None
  /\ \A m \in drawn.matches : drawn.loserTo[m] \notin drawn.byes

Consolation(drawn) == {m \in drawn.matches : m.phase \in {"REPECHAGE", "KNOCKOUT_BRONZE"}}

(* The way into the consolation is a defeat outside it, there is no way    *)
(* back to the final, and who loses in it is out.                          *)
OneConsolation(drawn) ==
  \A m \in drawn.matches :
    IF m \in Consolation(drawn)
    THEN /\ \A side \in Sides : drawn.entrants[m][side] = None
         /\ drawn.loserTo[m] = None
         /\ drawn.winnerTo[m] \in Consolation(drawn) \cup {None}
    ELSE /\ drawn.loserTo[m] \in Consolation(drawn) \cup {None}
         /\ drawn.winnerTo[m] \notin Consolation(drawn)
=============================================================================
