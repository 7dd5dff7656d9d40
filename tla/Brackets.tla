------------------------------ MODULE Brackets ------------------------------
(***************************************************************************)
(* The draw generators of backend/src/brackets: pure functions from the    *)
(* number of competitors of a category to its matches.  Competitors are    *)
(* numbered from 0 in the order of the category, the top seed first.  A    *)
(* generator returns a function from the matches it writes to the two      *)
(* competitors of each.                                                    *)
(***************************************************************************)
EXTENDS Integers, Sequences, FiniteSets

Nobody == -1      \* competitorIndex null

Open == <<Nobody, Nobody>>

(* A match is found by its phase, pool group, round and pool position.     *)
(* MAIN and NoGroup stand for the null of phase and poolGroup.             *)
NoGroup == "-"

MatchId(phase, group, round, position) ==
  [phase |-> phase, group |-> group, round |-> round, position |-> position]

Placeholder(phase, group, position) == MatchId(phase, group, 1, position)

-----------------------------------------------------------------------------
(* Round robin: the circle method.  The first place stays, the others move *)
(* on by one place every round; an odd number is filled up with a bye.     *)
Even(n) == n + (n % 2)

(* Mutant of Turned: the first place moves along.                          *)
TurnedWhole(circle) ==
  <<circle[Len(circle)]>> \o SubSeq(circle, 1, Len(circle) - 1)

Turned(circle) ==
  <<circle[1], circle[Len(circle)]>> \o SubSeq(circle, 2, Len(circle) - 1)

Circle(n) ==
  LET circle[round \in 1..(Even(n) - 1)] ==
        IF round = 1 THEN [i \in 1..Even(n) |-> i - 1]
                     ELSE Turned(circle[round - 1])
  IN  circle

RoundRobin(n, phase, group) ==
  LET size == Even(n)
      place == Circle(n)
      home(m) == place[m.round][m.position]
      away(m) == place[m.round][size + 1 - m.position]
      drawn == {MatchId(phase, group, round, position) :
                  round \in 1..(size - 1), position \in 1..(size \div 2)}
  IN  [m \in {d \in drawn : home(d) < n /\ away(d) < n} |-> <<home(m), away(m)>>]

-----------------------------------------------------------------------------
(* Pools of 5 to 15: two pools, every other competitor in each.            *)
IsPoolsBracketSize(n) == n \in 5..15

SplitIntoPools(n) ==
  [group \in {"A", "B"} |->
     [i \in 1..((IF group = "A" THEN n + 1 ELSE n) \div 2) |->
        IF group = "A" THEN 2 * (i - 1) ELSE 2 * i - 1]]

(* A draw over the places of a pool, with the competitors of the pool.     *)
Seated(draw, members) ==
  LET seat(place) == IF place = Nobody THEN Nobody ELSE members[place + 1]
  IN  [m \in DOMAIN draw |-> <<seat(draw[m][1]), seat(draw[m][2])>>]

Pools(n) ==
  LET members == SplitIntoPools(n)
      pool(group) ==
        Seated(RoundRobin(Len(members[group]), "POOL", group), members[group])
  IN  [m \in DOMAIN pool("A") \cup DOMAIN pool("B") |-> pool(m.group)[m]]

ExpectedPoolMatchCount(n) ==
  LET size(group) == Len(SplitIntoPools(n)[group])
      all(k) == (k * (k - 1)) \div 2
  IN  all(size("A")) + all(size("B"))

-----------------------------------------------------------------------------
(* Single elimination                                                      *)
TotalRoundsFor(n) ==
  IF n <= 1 THEN 0 ELSE CHOOSE r \in 1..n : 2^(r - 1) < n /\ n <= 2^r

(* generateSeedings: each seed is followed by the one that mirrors it.     *)
Seedings ==
  LET seeds[k \in Nat] ==
        IF k = 0 THEN <<0>>
        ELSE [i \in 1..2^k |->
                LET seed == seeds[k - 1][(i + 1) \div 2]
                IN  IF i % 2 = 1 THEN seed ELSE 2^k - 1 - seed]
  IN  seeds

Seeding(n) == Seedings[TotalRoundsFor(n)]

FirstRound(n, position) ==
  LET drawn(i) == IF Seeding(n)[i] < n THEN Seeding(n)[i] ELSE Nobody
  IN  <<drawn(2 * position - 1), drawn(2 * position)>>

IsBye(slots) == (slots[1] = Nobody) # (slots[2] = Nobody)

(* placeAdvancer: the competitor of a bye is already in the second round.  *)
Advanced(slots) ==
  IF IsBye(slots) THEN slots[IF slots[1] = Nobody THEN 2 ELSE 1] ELSE Nobody

Elimination(n, phase, group) ==
  LET rounds == TotalRoundsFor(n)
      drawn == UNION {{MatchId(phase, group, round, position) :
                         position \in 1..2^(rounds - round)} : round \in 1..rounds}
      slots(m) ==
        CASE m.round = 1 -> FirstRound(n, m.position)
          [] m.round = 2 -> <<Advanced(FirstRound(n, 2 * m.position - 1)),
                              Advanced(FirstRound(n, 2 * m.position))>>
          [] OTHER       -> Open
  IN  [m \in drawn |-> slots(m)]

-----------------------------------------------------------------------------
(* Double repechage: the main bracket, a repechage and a bronze per half.  *)
Halves == {"TOP", "BOTTOM"}

Repechage(half) == Placeholder("REPECHAGE", half, IF half = "TOP" THEN 1 ELSE 2)

Bronze(half) == Placeholder("KNOCKOUT_BRONZE", half, IF half = "TOP" THEN 1 ELSE 2)

(* Mutant of HalfFor: the last match of the upper half is counted below.   *)
HalfForOffByOne(round, position, totalRounds) ==
  IF 2 * position < 2^(totalRounds - round) THEN "TOP" ELSE "BOTTOM"

HalfFor(round, position, totalRounds) ==
  IF 2 * position <= 2^(totalRounds - round) THEN "TOP" ELSE "BOTTOM"

RepechageMatches == UNION {{Repechage(half), Bronze(half)} : half \in Halves}

WithPlaceholders(draw, placeholders) ==
  [m \in DOMAIN draw \cup placeholders |->
     IF m \in DOMAIN draw THEN draw[m] ELSE Open]

DoubleRepechage(n) ==
  WithPlaceholders(Elimination(n, "MAIN", NoGroup), RepechageMatches)

-----------------------------------------------------------------------------
(* Grand slam: four pools, filled like a snake.                            *)
IsGrandSlamBracketSize(n) == n >= 16

PoolLetters == <<"A", "B", "C", "D">>

DistributePoolSizes(n) ==
  [i \in 1..4 |-> n \div 4 + (IF i <= n % 4 THEN 1 ELSE 0)]

PoolSize(n, group) ==
  DistributePoolSizes(n)[CHOOSE i \in 1..4 : PoolLetters[i] = group]

(* Mutant of PassOrder: every pass starts at pool A.                       *)
SameOrder(pass) == PoolLetters

PassOrder(pass) ==
  IF pass % 2 = 1 THEN PoolLetters ELSE [i \in 1..4 |-> PoolLetters[5 - i]]

(* The pool a step comes to: each pass is four steps. *)
Visited(step) == PassOrder((step + 3) \div 4)[((step - 1) % 4) + 1]

SlamPools == {"A", "B", "C", "D"}

Placed(pools) == Len(pools["A"]) + Len(pools["B"]) + Len(pools["C"]) + Len(pools["D"])

(* The seeds in each pool after a number of steps; a full pool is skipped. *)
SnakeAfter(n) ==
  LET snake[step \in Nat] ==
        IF step = 0 THEN [group \in SlamPools |-> <<>>]
        ELSE LET before == snake[step - 1]
                 group == Visited(step)
             IN  IF Len(before[group]) < PoolSize(n, group) /\ Placed(before) < n
                 THEN [before EXCEPT ![group] = Append(@, Placed(before))]
                 ELSE before
  IN  snake

SnakeAssignToPools(n) == SnakeAfter(n)[4 * PoolSize(n, "A")]

(* The seeds of a pool, best first.                                        *)
PoolMembers(n, group) == SnakeAssignToPools(n)[group]

Semifinal(position) == Placeholder("KNOCKOUT_SF", NoGroup, position)

Final == MatchId("KNOCKOUT_FINAL", NoGroup, 2, 1)

GrandSlam(n) ==
  LET pool == [group \in SlamPools |->
                 Seated(Elimination(PoolSize(n, group), "POOL", group),
                        PoolMembers(n, group))]
      pools == [m \in UNION {DOMAIN pool[group] : group \in DOMAIN pool} |->
                  pool[m.group][m]]
  IN  WithPlaceholders(pools, RepechageMatches \cup {Semifinal(1), Semifinal(2), Final})

-----------------------------------------------------------------------------
(* generateBrackets by format.  New categories are ROUND_ROBIN, POOLS or   *)
(* GRAND_SLAM by their size; the other two are kept for older categories.  *)
Draw(bracketType, n) ==
  CASE bracketType = "ROUND_ROBIN"      -> RoundRobin(n, "MAIN", NoGroup)
    [] bracketType = "POOLS"            -> Pools(n)
    [] bracketType = "GRAND_SLAM"       -> GrandSlam(n)
    [] bracketType = "DOUBLE_REPECHAGE" -> DoubleRepechage(n)
    [] OTHER                            -> Elimination(n, "MAIN", NoGroup)

(* isR1Bye: only a main bracket writes its byes COMPLETED; the byes of the *)
(* grand slam pools stay SCHEDULED.                                        *)
WalkedOver(draw, m) == m.round = 1 /\ m.phase = "MAIN" /\ IsBye(draw[m])
=============================================================================
