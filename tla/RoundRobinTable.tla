-------------------------- MODULE RoundRobinTable --------------------------
(***************************************************************************)
(* A ROUND_ROBIN category and the table the standings service shows while  *)
(* its matches are fought: getCompetitionStandings for this format.        *)
(* disqualify and withdraw take a competitor out of the table at any time, *)
(* and leave its matches to be fought or to be ended as walkovers.         *)
(***************************************************************************)
EXTENDS Ranking, BracketView

CONSTANT Tables    \* the categories a behaviour starts from, one of them each

(* The competitors drawn, those of them that may be disqualified or        *)
(* withdrawn, and the bounds: the win methods matches end with and the     *)
(* shido given in one match.                                               *)
ASSUME TableTypes ==
  \A t \in Tables :
    /\ t.count \in Nat
    /\ t.leaving \subseteq 0..(t.count - 1)
    /\ t.winWays \subseteq WinMethods
    /\ t.maxShido \in 0..2

(* What generateBrackets writes: nobody is routed.                         *)
Entrants == [t \in Tables |-> RoundRobin(t.count, "MAIN", NoGroup)]

VARIABLES category, row, withdrawn

vars == <<category, row, withdrawn>>

Init ==
  /\ category \in Tables
  /\ row = [m \in DOMAIN Entrants[category] |-> ScheduledRow(Entrants[category][m])]
  /\ withdrawn = {}

Fight(m, side, winMethod, shidos) ==
  /\ ReadyRow(row[m])
  /\ shidos[1] + shidos[2] <= category.maxShido
  /\ row' = [row EXCEPT ![m].status = "COMPLETED", ![m].winMethod = winMethod,
                        ![m].winner = row[m].competitor[side],
                        ![m].scores = [s \in Sides |->
                           [wazaAri |-> 0, yuko |-> 0, shido |-> shidos[s]]]]
  /\ UNCHANGED <<category, withdrawn>>

Disqualify(c) ==
  /\ c \in category.leaving \ withdrawn
  /\ withdrawn' = withdrawn \union {c}
  /\ UNCHANGED <<category, row>>

Next ==
  \/ \E m \in DOMAIN row, side \in Sides, winMethod \in category.winWays,
        shidos \in [Sides -> 0..category.maxShido] : Fight(m, side, winMethod, shidos)
  \/ \E c \in category.leaving : Disqualify(c)

Spec == Init /\ [][Next]_vars

-----------------------------------------------------------------------------
Matches == DOMAIN row

Seats(m) == {row[m].competitor[side] : side \in Sides}

Listed == (0..(category.count - 1)) \ withdrawn

Table == Ranks(row, Matches, Listed)

(* Mutant of Expected: halved once too often.                              *)
HalfExpected == (Cardinality(Listed) * (Cardinality(Listed) - 1)) \div 4

(* expectedRoundRobinMatchCount *)
Expected == (Cardinality(Listed) * (Cardinality(Listed) - 1)) \div 2

IsComplete ==
  Cardinality({m \in Matches : row[m].status = "COMPLETED"}) >= Expected

Tied == \E c \in Listed : TiedWith(row, Matches, Listed, c) # {}

Status ==
  IF ~IsComplete THEN "IN_PROGRESS" ELSE IF Tied THEN "PENDING_PLAYOFF" ELSE "COMPLETE"

-----------------------------------------------------------------------------
(* The chain of criteria leaves a table: places are shared exactly by the  *)
(* competitors that are reported as tied, and k that share a place leave   *)
(* k - 1 places after it empty.                                            *)
PlacesAddUp ==
  LET table == Table
  IN  \A c \in Listed :
        /\ TiedWith(row, Matches, Listed, c) = {d \in Listed \ {c} : table[d] = table[c]}
        /\ table[c] = 1 + Cardinality({d \in Listed : table[d] < table[c]})

(* Winning helps: whatever the match costs in shido, and however others    *)
(* were level with the winner, the winner's place is not worse than before.*)
WinnerNeverDrops ==
  [][\A m \in Matches :
       row'[m] # row[m] /\ row'[m].winner \in Listed =>
         Table'[row'[m].winner] <= Table[row'[m].winner]]_vars

(* The grid of the brackets page and the table agree on who won: of two    *)
(* that have met one has won and one has lost, and who is in the table has *)
(* as many wins in the grid, against others that are in it.                *)
GridAgreesWithTable ==
  LET cells == CellsOf(row, Matches)
  IN  /\ \A cell \in cells :
           [of |-> cell.against, against |-> cell.of, won |-> ~cell.won] \in cells
      /\ \A c \in Listed :
           WinsIn(row, Matches, Listed)[c] =
             Cardinality({cell \in cells : cell.of = c /\ cell.won /\ cell.against \in Listed})

(* A category reported as COMPLETE or PENDING_PLAYOFF is over: no match of *)
(* it is still to be fought.  (Not so once a competitor has left: the      *)
(* matches of the one who left count, the expected number shrinks.)        *)
CompleteIsOver ==
  Status # "IN_PROGRESS" /\ withdrawn = {} =>
    \A m \in Matches : row[m].status = "COMPLETED"

(* Two ways of counting the same matches: the table and the grid agree,    *)
(* and both with the ties that are reported.                               *)
TableIsTold == PlacesAddUp /\ GridAgreesWithTable
=============================================================================
