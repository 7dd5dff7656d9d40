-------------------------------- MODULE Draw --------------------------------
(***************************************************************************)
(* The matches of one or more categories once BracketsService has written  *)
(* them: who is drawn into which match, and where the winner and the loser *)
(* of a match go when advanceWinner routes them.  A slot is a match and a  *)
(* side; a side is 1 for competitor1 and 2 for competitor2.                *)
(*                                                                         *)
(* Only draws whose matches all exist from the start are described here    *)
(* (SINGLE_REPECHAGE, DOUBLE_REPECHAGE, GRAND_SLAM, and ROUND_ROBIN, which *)
(* has no routes).                                                         *)
(***************************************************************************)
EXTENDS MatchRow

CONSTANTS
  Matches,
  Competitors,
  Entrants,    \* the competitors written at generation, None for a null slot
  Byes,        \* the matches written COMPLETED with FUSEN_GACHI
  WinnerTo,    \* the match the winner goes to, None when the match is terminal
  WinnerSide,
  LoserTo,     \* the match the loser goes to, None when the loser is out
  LoserSide    \* FirstFree: whichever side is free when the loser arrives

FirstFree == 0

MaybeCompetitor == Competitors \cup {None}

MaybeMatch == Matches \cup {None}

ASSUME DrawTypes ==
  /\ None \notin Matches
  /\ None \notin Competitors
  /\ Entrants \in [Matches -> [Sides -> MaybeCompetitor]]
  /\ Byes \subseteq Matches
  /\ WinnerTo \in [Matches -> MaybeMatch]
  /\ WinnerSide \in [Matches -> Sides]
  /\ LoserTo \in [Matches -> MaybeMatch]
  /\ LoserSide \in [Matches -> Sides \cup {FirstFree}]

(* A slot that waits for a winner has one feeder, and no loser is sent     *)
(* there; no match feeds itself.                                           *)
ASSUME OneFeederPerSlot ==
  /\ \A m, n \in Matches :
        WinnerTo[m] # None /\ WinnerTo[m] = WinnerTo[n]
          /\ WinnerSide[m] = WinnerSide[n] => m = n
  /\ \A m, n \in Matches :
        WinnerTo[m] # None /\ WinnerTo[m] = LoserTo[n] =>
          LoserSide[n] \in Sides /\ LoserSide[n] # WinnerSide[m]
  /\ \A m \in Matches : WinnerTo[m] # m /\ LoserTo[m] # m

(* What the generators guarantee while nobody of the category has left.    *)
(* A match between two entrants that sends its loser on waits for nobody   *)
(* but the winners of byes.  No loser is sent to an entrant's slot; at most *)
(* two share a match, and either both have a side of their own in it or    *)
(* neither has.                                                            *)
OneLoserPerSlot ==
  /\ \A m, n \in Matches :
        n = WinnerTo[m] /\ LoserTo[n] # None
          /\ (\A side \in Sides : Entrants[n][side] # None) => m \in Byes
  /\ \A m \in Matches, side \in Sides :
        LoserTo[m] # None /\ LoserSide[m] \in {side, FirstFree} =>
          Entrants[LoserTo[m]][side] = None
  /\ \A m, n \in Matches :
        m # n /\ LoserTo[m] # None /\ LoserTo[m] = LoserTo[n] =>
          /\ LoserSide[m] = FirstFree <=> LoserSide[n] = FirstFree
          /\ LoserSide[m] # FirstFree => LoserSide[m] # LoserSide[n]
          /\ \A l \in Matches : LoserTo[l] = LoserTo[m] => l \in {m, n}

(* Nobody is sent to a match, one competitor is drawn into it and has been *)
(* put into the next slot as well: a bye that was not written COMPLETED.   *)
Unopposed(m) ==
  /\ \A n \in Matches : WinnerTo[n] # m /\ LoserTo[n] # m
  /\ \E side, other \in Sides :
        /\ side # other /\ Entrants[m][other] = None
        /\ Entrants[m][side] = Entrants[WinnerTo[m]][WinnerSide[m]]

(* The slot of a winner is free while the match before it is to be fought. *)
WinnersAwaited ==
  \A m \in Matches \ Byes : WinnerTo[m] # None =>
    Entrants[WinnerTo[m]][WinnerSide[m]] = None \/ Unopposed(m)

(* The one competitor of a bye wins it, and the generator has already put  *)
(* that competitor in the next slot.                                       *)
ByeWinner(m) ==
  IF Entrants[m][1] # None THEN Entrants[m][1] ELSE Entrants[m][2]

ASSUME ByesAdvanced ==
  \A m \in Byes :
    /\ (Entrants[m][1] = None) # (Entrants[m][2] = None)
    /\ WinnerTo[m] # None => Entrants[WinnerTo[m]][WinnerSide[m]] = ByeWinner(m)

Row == [status      : Statuses,
        competitor  : [Sides -> MaybeCompetitor],
        scores      : [Sides -> Score],
        winner      : MaybeCompetitor,
        winMethod   : WinMethods \cup {None},
        goldenScore : BOOLEAN]

DrawnRow(m) ==
  [status      |-> IF m \in Byes THEN "COMPLETED" ELSE "SCHEDULED",
   competitor  |-> Entrants[m],
   scores      |-> EmptyScores,
   winner      |-> IF m \in Byes THEN ByeWinner(m) ELSE None,
   winMethod   |-> IF m \in Byes THEN "FUSEN_GACHI" ELSE None,
   goldenScore |-> FALSE]
=============================================================================
