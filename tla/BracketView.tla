---------------------------- MODULE BracketView ----------------------------
(***************************************************************************)
(* BracketView.tsx: the cards and lines a page draws for the matches of a  *)
(* category.  The page knows the matches and the competitors of the        *)
(* category; it repeats where winners and losers go in its own geometry.   *)
(* Heights are in pixels; columns are counted.  Whatever has no match yet  *)
(* is drawn as an empty card, which is left out here.                      *)
(***************************************************************************)
EXTENDS MatchRow, Brackets

(* cards: the match, where it is drawn, and the height of the card; lines  *)
(* lead from one card to another.                                          *)
Card(match, canvas, column, centre, height) ==
  [match |-> match, canvas |-> canvas, column |-> column, centre |-> centre, height |-> height]

Line(from, to) == [from |-> from, to |-> to]

(* Math.ceil(Math.log2(n)), and log2(nextPow2(n)).                         *)
RoundsOf(n) == CHOOSE r \in 0..n : 2^r >= n /\ (r = 0 \/ 2^(r - 1) < n)

-----------------------------------------------------------------------------
(* The tree of an elimination: the cards of the first round one below the  *)
(* other, each later one half-way between the two that lead to it.         *)
Centres(rounds, height, gap) ==
  LET centre[r \in 1..rounds] ==
        [i \in 1..2^(rounds - r) |->
           IF r = 1 THEN (i - 1) * (height + gap) + height \div 2
           ELSE (centre[r - 1][2 * i - 1] + centre[r - 1][2 * i]) \div 2]
  IN  centre

Tree(phase, group, rounds, canvas, top, height, gap) ==
  LET centre == Centres(rounds, height, gap)
  IN  UNION {{Card(MatchId(phase, group, r, i), canvas, r, top + centre[r][i], height) :
                i \in 1..2^(rounds - r)} : r \in 1..rounds}

TreeLines(phase, group, rounds) ==
  UNION {{Line(MatchId(phase, group, r, i), MatchId(phase, group, r + 1, (i + 1) \div 2)) :
            i \in 1..2^(rounds - r)} : r \in 1..(rounds - 1)}

Drawable(cards, draw) == {card \in cards : card.match \in DOMAIN draw}

-----------------------------------------------------------------------------
(* EliminationBracket, for the competitors the category has now: a slot is *)
(* found by its round and position.                                        *)
CardHeight == 56

MainCards(count) ==
  Tree("MAIN", NoGroup, RoundsOf(count), "main", 28, CardHeight, 12)

(* RepechageBronzeFights, for a DOUBLE_REPECHAGE of five or more.          *)
RepechagePath(half) ==
  {Card(Repechage(half), half, 1, 0, CardHeight), Card(Bronze(half), half, 2, 0, CardHeight)}

HasRepechagePaths(bracketType, count) == bracketType = "DOUBLE_REPECHAGE" /\ count >= 5

EliminationCards(bracketType, count) ==
  MainCards(count) \cup
    (IF HasRepechagePaths(bracketType, count)
     THEN UNION {RepechagePath(half) : half \in Halves} ELSE {})

EliminationLines(bracketType, count) ==
  TreeLines("MAIN", NoGroup, RoundsOf(count)) \cup
    (IF HasRepechagePaths(bracketType, count)
     THEN {Line(Repechage(half), Bronze(half)) : half \in Halves} ELSE {})

-----------------------------------------------------------------------------
(* GrandSlamBracketView *)
SlamHeight == 40
SlamGap    == 8
PoolGap    == 32

(* computePoolLayout counts the competitors it finds in the matches of the *)
(* pool; names gives those of a match.                                     *)
PoolRounds(names, group) ==
  RoundsOf(Cardinality(UNION {names[m] : m \in {n \in DOMAIN names :
                                n.phase = "POOL" /\ n.group = group}}))

PoolHeight(names, group) == 2^(PoolRounds(names, group) - 1) * (SlamHeight + SlamGap) - SlamGap

(* Where a pool starts below the ones before it.                           *)
PoolTop(names, i) ==
  LET top[k \in 1..4] == IF k = 1 THEN 0
                         ELSE top[k - 1] + PoolHeight(names, PoolLetters[k - 1]) + PoolGap
  IN  top[i]

PoolFinal(names, i) == MatchId("POOL", PoolLetters[i], PoolRounds(names, PoolLetters[i]), 1)

PoolFinalCentre(names, i) ==
  LET rounds == PoolRounds(names, PoolLetters[i])
  IN  PoolTop(names, i) + Centres(rounds, SlamHeight, SlamGap)[rounds][1]

(* midOfPair *)
SemifinalCentre(names, position) ==
  (PoolFinalCentre(names, 2 * position - 1) + PoolFinalCentre(names, 2 * position)) \div 2

(* The columns of the semi-finals and of the final are right of the widest *)
(* pool; each half of the repechage has a canvas of its own, with a card   *)
(* for the loser of a semi-final below its repechage.                      *)
GrandSlamCards(names) ==
  LET rounds == {PoolRounds(names, PoolLetters[i]) : i \in 1..4}
      widest == CHOOSE r \in rounds : \A s \in rounds : r >= s
      card(match, column, centre) == Card(match, "main", column, centre, SlamHeight)
      semi(position) == SemifinalCentre(names, position)
  IN  UNION {Tree("POOL", PoolLetters[i], PoolRounds(names, PoolLetters[i]), "main",
                  PoolTop(names, i), SlamHeight, SlamGap) : i \in 1..4}
        \cup {card(Semifinal(position), widest + 1, semi(position)) : position \in 1..2}
        \cup {card(Final, widest + 2, (semi(1) + semi(2)) \div 2)}
        \cup {Card(Repechage(half), half, 1, 38, SlamHeight) : half \in Halves}
        \cup {Card(Bronze(half), half, 2, 66, SlamHeight) : half \in Halves}

GrandSlamLines(names) ==
  UNION {TreeLines("POOL", PoolLetters[i], PoolRounds(names, PoolLetters[i])) : i \in 1..4}
    \cup {Line(PoolFinal(names, i), Semifinal((i + 1) \div 2)) : i \in 1..4}
    \cup {Line(Semifinal(position), Final) : position \in 1..2}
    \cup {Line(Repechage(half), Bronze(half)) : half \in Halves}

(* Mutant of FeederOf: the semi-final of the same half.                    *)
FeederOfSameHalf(half) == Semifinal(IF half = "TOP" THEN 1 ELSE 2)

(* RepechageGrandSlam: the semi-final whose loser comes to a half.         *)
FeederOf(half) == Semifinal(IF half = "TOP" THEN 2 ELSE 1)

FeederLines == {Line(FeederOf(half), Bronze(half)) : half \in Halves}

(* Mutant of FeederName: the winner.                                       *)
FeederWinner(row, half) == row[FeederOf(half)].winner

(* crossSfLoserName.  Before the semi-final is over it is its competitor1. *)
FeederName(row, half) ==
  LET semi == row[FeederOf(half)]
  IN  IF semi.winner # None /\ semi.competitor[1] = semi.winner
      THEN semi.competitor[2] ELSE semi.competitor[1]

-----------------------------------------------------------------------------
CardsOf(bracketType, draw, count, names) ==
  Drawable(IF bracketType = "GRAND_SLAM" THEN GrandSlamCards(names)
           ELSE EliminationCards(bracketType, count), draw)

LinesOf(bracketType, count, names) ==
  IF bracketType = "GRAND_SLAM" THEN GrandSlamLines(names)
  ELSE EliminationLines(bracketType, count)

(* MatchCard: whether a side has a name, or why not.  BYE is said of       *)
(* every match that has one competitor, also of one that waits for the     *)
(* other.                                                                  *)
Label(row, m, side) ==
  LET known == {s \in Sides : row[m].competitor[s] # None}
  IN  CASE side \in known -> "name"
        [] known = Sides \ {side} -> "BYE"
        [] OTHER -> "TBD"

(* FinalMatchCard: gold for the winner, silver for the other side once the *)
(* match is over.                                                          *)
Medals(row, m) ==
  LET won == {side \in Sides : row[m].winner # None /\ row[m].competitor[side] = row[m].winner}
      lost == {side \in Sides : row[m].status = "COMPLETED" /\ won = Sides \ {side}}
  IN  [gold   |-> {row[m].competitor[side] : side \in won},
       silver |-> {row[m].competitor[side] : side \in lost} \ {None}]

-----------------------------------------------------------------------------
(* RoundRobinGrid and PoolBlock: who won against whom, from the matches    *)
(* that are over; each match fills two cells.                              *)
ResultsOf(row, matches) ==
  {m \in matches : /\ row[m].status = "COMPLETED" /\ row[m].winner # None
                   /\ \A side \in Sides : row[m].competitor[side] # None}

CellsOf(row, matches) ==
  UNION {{[of |-> row[m].competitor[side], against |-> row[m].competitor[3 - side],
           won |-> row[m].winner = row[m].competitor[side]] : side \in Sides} :
         m \in ResultsOf(row, matches)}
=============================================================================
