--------------------------- MODULE AtomicBracket ---------------------------
(***************************************************************************)
(* What the scoreboard service promises about the match rows a reader sees *)
(* (the atomicity boundary of applyScoreEvent and endMatch): a match is    *)
(* completed, its winner advanced and its loser routed in ONE step, and no *)
(* other step touches more than one row.  How a call gets there, when it   *)
(* read what it decided on, and which other calls run meanwhile is the     *)
(* business of module Scoreboard.                                          *)
(***************************************************************************)
EXTENDS Draw

VARIABLE row     \* the rows of Match

Init == row = [m \in Matches |-> DrawnRow(m)]

(* A call may have looked at the match long before it writes, so the       *)
(* status at the time of the write is not a guard of Start.                *)
Start(m) ==
  row' = [row EXCEPT ![m].status = "ACTIVE", ![m].scores = EmptyScores]

(* A write of scores that does not end the match never carries a score     *)
(* that should have ended it, and only a started match is scored.          *)
KeepScore(m) ==
  /\ row[m].status # "SCHEDULED"
  /\ Undecided(row'[m].scores)
  /\ row' = [row EXCEPT ![m].scores = row'[m].scores]

GoldenScore(m) ==
  /\ row[m].status # "SCHEDULED"
  /\ row' = [row EXCEPT ![m].goldenScore = TRUE]

(* What completing m with this winner makes of the row of match n, when an *)
(* arriving loser takes the given side.                                    *)
CompletedRow(m, winner, winMethod, scores, loserSide, n) ==
  LET loser  == Loser(row[m], winner)
      kept   == IF n = m
                THEN [row[n] EXCEPT !.status = "COMPLETED", !.winner = winner,
                                    !.winMethod = winMethod, !.scores = scores]
                ELSE row[n]
      placed == IF n = WinnerTo[m]
                THEN [kept EXCEPT !.competitor[WinnerSide[m]] = winner]
                ELSE kept
  IN  IF n = LoserTo[m] /\ loser # None
      THEN [placed EXCEPT !.competitor[loserSide] = loser]
      ELSE placed

Complete(m) ==
  /\ row[m].status # "SCHEDULED"
  /\ \E winner \in Competitors, winMethod \in WinMethods, loserSide \in Sides :
       /\ LoserSide[m] # FirstFree => loserSide = LoserSide[m]
       /\ row' = [n \in Matches |->
                    CompletedRow(m, winner, winMethod, row'[m].scores,
                                 loserSide, n)]

Next == \E m \in Matches :
          Start(m) \/ KeepScore(m) \/ GoldenScore(m) \/ Complete(m)

Spec == Init /\ [][Next]_row
=============================================================================
