----------------------------- MODULE DrawLemmas -----------------------------
(***************************************************************************)
(* What the generators draw, for every number of competitors: the circle   *)
(* method of the round robin lets each two meet once and nobody be in two  *)
(* matches of a round, the two pools of a category each are such a round   *)
(* robin, the seeds of an elimination are a permutation and put everybody  *)
(* into the first round once, with no two byes against each other, each    *)
(* match of a bracket leads to one of its next round, the best meet late,  *)
(* and the snake puts everybody into one pool of a grand slam, with seeds  *)
(* that balance.                                                           *)
(* Here too are powers of two, that a set of rounds, or of positions in a  *)
(* queue or a table, has a first one, and sums over finite sets.           *)
(***************************************************************************)
EXTENDS Brackets, Ranking, WellFoundedInduction, SequenceTheorems, FiniteSetTheorems, TLAPS

(* A set of natural numbers that is not empty has a least element.         *)
LEMMA LeastNatural ==
  ASSUME NEW S \in SUBSET Nat, S # {}
  PROVE  \E i \in S : \A j \in S : i <= j
<1> DEFINE less == OpToRel(<, Nat)
<1>1. IsWellFoundedOn(less, Nat)
  BY NatLessThanWellFounded
<1>2. PICK i \in S : \A j \in S : <<j, i>> \notin less
  <2> HIDE DEF less
  <2> QED
    BY <1>1, WFMin
<1>3. \A j \in S : j \in Nat /\ i \in Nat /\ ~(j < i)
  BY <1>2 DEF OpToRel
<1> QED
  BY <1>3

(* Each match is of two of the competitors, each two have a match, and     *)
(* only one.                                                               *)
EachPairOnce(n, phase, group) ==
  LET draw == RoundRobin(n, phase, group)
      players == 0..(n - 1)
      pair(m) == {draw[m][1], draw[m][2]}
  IN  /\ \A m \in DOMAIN draw :
           draw[m][1] \in players /\ draw[m][2] \in players /\ draw[m][1] # draw[m][2]
      /\ \A a, b \in players : a # b => \E m \in DOMAIN draw : pair(m) = {a, b}
      /\ \A m, other \in DOMAIN draw : pair(m) = pair(other) => m = other

(* Who sits at a place of the circle after a number of turns.              *)
Seat(size, turns, place) ==
  IF place = 1 THEN 0
  ELSE IF place - 1 > turns THEN place - 1 - turns ELSE place - 1 - turns + size - 1

TurnedSeats(size) ==
  [round \in 1..(size - 1) |-> [place \in 1..size |-> Seat(size, round - 1, place)]]

LEMMA EvenType ==
  ASSUME NEW n \in Nat
  PROVE  \E half \in Nat : Even(n) = 2 * half /\ Even(n) \in {n, n + 1}
<1>1. n % 2 \in 0..1 /\ n = (2 * (n \div 2)) + (n % 2) /\ n \div 2 \in Nat
  OBVIOUS
<1>2. CASE n % 2 = 0
  BY <1>1, <1>2 DEF Even
<1>3. CASE n % 2 = 1
  <2>1. Even(n) = n + 1 /\ n + 1 = 2 * (n \div 2 + 1) /\ n \div 2 + 1 \in Nat
    BY <1>1, <1>3 DEF Even
  <2> QED
    BY <2>1
<1> QED
  BY <1>1, <1>2, <1>3

(* A turn of the seats after some turns gives those after one more.        *)
LEMMA TurnOfSeats ==
  ASSUME NEW size \in Nat, NEW round \in 2..(size - 1)
  PROVE  Turned(TurnedSeats(size)[round - 1]) = TurnedSeats(size)[round]
<1> DEFINE circle == TurnedSeats(size)[round - 1]
<1>1. circle = [place \in 1..size |-> Seat(size, round - 2, place)]
  BY DEF TurnedSeats
<1>2. circle \in Seq(Int) /\ Len(circle) = size
  <2>1. \A place \in 1..size : Seat(size, round - 2, place) \in Int
    BY DEF Seat
  <2>2. circle \in [1..size -> Int]
    BY <1>1, <2>1
  <2> HIDE DEF circle
  <2> QED
    BY <2>2
<1> DEFINE rest == SubSeq(circle, 2, size - 1)
<1> HIDE DEF circle
<1>3. rest \in Seq(Int) /\ Len(rest) = size - 2 /\ \A i \in 1..(size - 2) : rest[i] = circle[i + 1]
  BY <1>2, SubSeqProperties
<1> DEFINE turned == <<circle[1], circle[size]>> \o rest
<1>4. Turned(circle) = turned
  BY <1>2 DEF Turned
<1>5. /\ turned \in Seq(Int) /\ Len(turned) = size
      /\ turned[1] = circle[1] /\ turned[2] = circle[size]
      /\ \A i \in 3..size : turned[i] = circle[i - 1]
  <2>1. circle[1] \in Int /\ circle[size] \in Int
    BY <1>2
  <2> HIDE DEF rest
  <2> QED
    BY <1>3, <2>1
<1> HIDE DEF turned
<1>6. ASSUME NEW i \in 1..size PROVE turned[i] = Seat(size, round - 1, i)
  <2>1. CASE i = 1
    BY <1>1, <1>5, <2>1 DEF Seat
  <2>2. CASE i = 2
    <3>1. turned[i] = Seat(size, round - 2, size)
      BY <1>1, <1>5, <2>2
    <3> QED
      BY <2>2, <3>1 DEF Seat
  <2>3. CASE i \in 3..size
    <3>1. turned[i] = Seat(size, round - 2, i - 1)
      BY <1>1, <1>5, <2>3
    <3> QED
      BY <2>3, <3>1 DEF Seat
  <2> QED
    BY <2>1, <2>2, <2>3
<1>7. turned = [place \in 1..size |-> Seat(size, round - 1, place)]
  BY <1>5, <1>6
<1> QED
  BY <1>4, <1>7 DEF TurnedSeats, circle

(* The recursive definition of the circle has the seats as its solution.   *)
LEMMA CircleIsSeats ==
  ASSUME NEW n \in Nat
  PROVE  Circle(n) = TurnedSeats(Even(n))
<1> DEFINE size == Even(n)
           rounds == 1..(size - 1)
           next(circle, round) == IF round = 1 THEN [i \in 1..size |-> i - 1]
                                               ELSE Turned(circle[round - 1])
           IsCircle(circle) == circle = [round \in rounds |-> next(circle, round)]
           seats == TurnedSeats(size)
<1>1. size \in Nat
  BY EvenType
<1>2. \A round \in rounds : seats[round] = next(seats, round)
  <2> SUFFICES ASSUME NEW round \in rounds PROVE seats[round] = next(seats, round)
    OBVIOUS
  <2>1. CASE round = 1
    <3>1. \A i \in 1..size : Seat(size, 0, i) = i - 1
      BY <1>1 DEF Seat
    <3>2. seats[round] = [i \in 1..size |-> Seat(size, 0, i)]
      BY <2>1 DEF TurnedSeats
    <3> HIDE DEF size
    <3> QED
      BY <2>1, <3>1, <3>2
  <2>2. CASE round # 1
    <3>1. round \in 2..(size - 1)
      BY <1>1, <2>2
    <3> HIDE DEF size
    <3> QED
      BY <1>1, <2>2, <3>1, TurnOfSeats
  <2> QED
    BY <2>1, <2>2
<1>3. IsCircle(seats)
  <2>1. seats = [round \in rounds |-> seats[round]]
    BY DEF TurnedSeats
  <2> HIDE DEF seats, next
  <2> QED
    BY <1>2, <2>1
<1>4. Circle(n) = CHOOSE circle : IsCircle(circle)
  BY DEF Circle
<1>5. IsCircle(Circle(n))
  <2> HIDE DEF IsCircle
  <2> QED
    BY <1>3, <1>4
<1> DEFINE differ == {round \in rounds : Circle(n)[round] # seats[round]}
<1>6. differ = {}
  <2> SUFFICES ASSUME differ # {} PROVE FALSE
    OBVIOUS
  <2>1. differ \subseteq Nat
    BY <1>1
  <2>2. PICK first \in differ : \A other \in differ : first <= other
    <3> HIDE DEF differ
    <3> QED
      BY <2>1, LeastNatural
  <2>3. Circle(n)[first] = next(Circle(n), first) /\ seats[first] = next(seats, first)
    <3>1. first \in rounds
      OBVIOUS
    <3> HIDE DEF next, seats, rounds, differ
    <3> QED
      BY <1>2, <1>5, <3>1
  <2>4. first # 1 => Circle(n)[first - 1] = seats[first - 1]
    <3> SUFFICES ASSUME first # 1 PROVE first - 1 \notin differ /\ first - 1 \in rounds
      OBVIOUS
    <3>1. first - 1 \in rounds /\ ~(first <= first - 1)
      BY <1>1
    <3> QED
      BY <2>2, <3>1
  <2>5. next(Circle(n), first) = next(seats, first)
    BY <2>4
  <2> QED
    BY <2>3, <2>5
<1>7. Circle(n) = [round \in rounds |-> seats[round]]
  <2>1. Circle(n) = [round \in rounds |-> next(Circle(n), round)]
    BY <1>5
  <2> HIDE DEF next, seats, rounds
  <2> QED
    BY <1>6, <2>1
<1> QED
  BY <1>7 DEF TurnedSeats

(* Two that face each other, by half of the size of the circle.            *)
LEMMA FacingDiffer ==
  ASSUME NEW half \in Nat, NEW turns \in 0..(2 * half - 2), NEW p \in 1..half
  PROVE  LET size == 2 * half
         IN  /\ Seat(size, turns, p) \in 0..(size - 1)
             /\ Seat(size, turns, size + 1 - p) \in 0..(size - 1)
             /\ Seat(size, turns, p) # Seat(size, turns, size + 1 - p)
BY DEF Seat

(* Both the turns and the place are told from the two that face each other.*)
LEMMA FacingOnce ==
  ASSUME NEW half \in Nat,
         NEW t \in 0..(2 * half - 2), NEW p \in 1..half,
         NEW u \in 0..(2 * half - 2), NEW q \in 1..half,
         LET size == 2 * half
             a == Seat(size, t, p)
             b == Seat(size, t, size + 1 - p)
             c == Seat(size, u, q)
             d == Seat(size, u, size + 1 - q)
         IN  (a = c /\ b = d) \/ (a = d /\ b = c)
  PROVE  t = u /\ p = q
BY DEF Seat

(* And each two face each other at some time.                              *)
LEMMA FacingAll ==
  ASSUME NEW half \in Nat, NEW a \in 0..(2 * half - 1), NEW b \in 0..(2 * half - 1), a < b
  PROVE  \E turns \in 0..(2 * half - 2), p \in 1..half :
           LET size == 2 * half
               home == Seat(size, turns, p)
               away == Seat(size, turns, size + 1 - p)
           IN  (home = a /\ away = b) \/ (home = b /\ away = a)
<1> DEFINE size == 2 * half
           last == size - 1
<1>1. CASE a = 0
  <2>1. /\ last - b \in 0..(size - 2) /\ 1 \in 1..half
        /\ Seat(size, last - b, 1) = a /\ Seat(size, last - b, size + 1 - 1) = b
    BY <1>1 DEF Seat
  <2> QED
    BY <2>1
<1>2. CASE a # 0
  <2>1. PICK turns \in 0..(size - 2) :
          a + b + 2 * turns \in {last, 2 * last, 3 * last}
    <3>1. PICK s \in Nat : a + b = 2 * s \/ a + b = 2 * s + 1
      <4>1. (a + b) \div 2 \in Nat /\ (a + b = 2 * ((a + b) \div 2) \/ a + b = 2 * ((a + b) \div 2) + 1)
        OBVIOUS
      <4> QED
        BY <4>1
    <3>2. CASE a + b = 2 * s
      <4>1. last - s \in 0..(size - 2) /\ a + b + 2 * (last - s) = 2 * last
        BY <1>2, <3>2
      <4> QED
        BY <4>1
    <3>3. CASE a + b = 2 * s + 1 /\ a + b <= last
      <4>1. half - 1 - s \in 0..(size - 2) /\ a + b + 2 * (half - 1 - s) = last
        BY <1>2, <3>3
      <4> QED
        BY <4>1
    <3>4. CASE a + b = 2 * s + 1 /\ a + b > last
      <4>1. 3 * half - 2 - s \in 0..(size - 2) /\ a + b + 2 * (3 * half - 2 - s) = 3 * last
        BY <1>2, <3>4
      <4> QED
        BY <4>1
    <3> QED
      BY <3>1, <3>2, <3>3, <3>4
  <2> DEFINE seatOf(x) == IF x + turns <= last THEN x + turns ELSE x + turns - last
  <2>2. seatOf(a) + seatOf(b) = last /\ seatOf(a) \in 1..(last - 1) /\ seatOf(b) \in 1..(last - 1)
    BY <1>2, <2>1
  <2>3. /\ Seat(size, turns, seatOf(a) + 1) = a
        /\ Seat(size, turns, seatOf(b) + 1) = b
    BY <1>2, <2>1 DEF Seat
  <2>4. CASE seatOf(a) < half
    <3>1. seatOf(a) + 1 \in 1..half /\ size + 1 - (seatOf(a) + 1) = seatOf(b) + 1
      BY <2>2, <2>4
    <3> HIDE DEF seatOf
    <3> QED
      BY <2>3, <3>1
  <2>5. CASE ~(seatOf(a) < half)
    <3>1. seatOf(b) + 1 \in 1..half /\ size + 1 - (seatOf(b) + 1) = seatOf(a) + 1
      BY <2>2, <2>5
    <3> HIDE DEF seatOf
    <3> QED
      BY <2>3, <3>1
  <2> QED
    BY <2>4, <2>5
<1> QED
  BY <1>1, <1>2

(* The matches of a circle, and the two that face each other in one.       *)
CircleMatches(n, phase, group) ==
  {MatchId(phase, group, round, position) :
     round \in 1..(Even(n) - 1), position \in 1..(Even(n) \div 2)}

Home(n, m) == Seat(Even(n), m.round - 1, m.position)

Away(n, m) == Seat(Even(n), m.round - 1, Even(n) + 1 - m.position)

(* The matches of a draw are those whose competitors both take part.       *)
LEMMA RoundRobinFaces ==
  ASSUME NEW n \in Nat, NEW phase, NEW group
  PROVE  /\ \A m : m \in DOMAIN RoundRobin(n, phase, group) <=>
                  m \in CircleMatches(n, phase, group) /\ Home(n, m) < n /\ Away(n, m) < n
         /\ \A m \in DOMAIN RoundRobin(n, phase, group) :
              /\ RoundRobin(n, phase, group)[m][1] = Home(n, m)
              /\ RoundRobin(n, phase, group)[m][2] = Away(n, m)
<1> DEFINE size == Even(n)
           place == Circle(n)
           drawn == CircleMatches(n, phase, group)
           home(m) == Home(n, m)
           away(m) == Away(n, m)
<1>1. PICK half \in Nat : size = 2 * half
  BY EvenType
<1>2. ASSUME NEW m \in drawn
      PROVE  /\ place[m.round][m.position] = home(m)
             /\ place[m.round][size + 1 - m.position] = away(m)
  <2>1. m.round \in 1..(size - 1) /\ m.position \in 1..(size \div 2)
    BY DEF MatchId, CircleMatches
  <2>2. m.position \in 1..size /\ size + 1 - m.position \in 1..size
    <3> HIDE DEF size
    <3> QED
      BY <1>1, <2>1
  <2>3. place = TurnedSeats(size)
    BY CircleIsSeats
  <2>4. place[m.round] = [p \in 1..size |-> Seat(size, m.round - 1, p)]
    <3> HIDE DEF size, place
    <3> QED
      BY <2>1, <2>3 DEF TurnedSeats
  <2> HIDE DEF size, place
  <2> QED
    BY <2>2, <2>4 DEF size, Home, Away
<1> DEFINE drawing(m) == <<place[m.round][m.position], place[m.round][size + 1 - m.position]>>
           playing == {m \in drawn : place[m.round][m.position] < n
                                     /\ place[m.round][size + 1 - m.position] < n}
<1>3. RoundRobin(n, phase, group) = [m \in playing |-> drawing(m)]
  BY DEF RoundRobin, CircleMatches
<1>4. playing = {m \in drawn : home(m) < n /\ away(m) < n}
  <2> HIDE DEF home, away, drawn, place, size
  <2> QED
    BY <1>2
<1>5. ASSUME NEW m \in playing PROVE drawing(m)[1] = home(m) /\ drawing(m)[2] = away(m)
  <2> HIDE DEF home, away, drawn, place, size
  <2> QED
    BY <1>2
<1> HIDE DEF drawing, playing, home, away, drawn, place
<1>6. /\ \A m : m \in DOMAIN RoundRobin(n, phase, group) <=> m \in drawn /\ home(m) < n /\ away(m) < n
      /\ \A m \in DOMAIN RoundRobin(n, phase, group) :
            /\ RoundRobin(n, phase, group)[m][1] = home(m)
            /\ RoundRobin(n, phase, group)[m][2] = away(m)
  BY <1>3, <1>4, <1>5
<1> QED
  BY <1>6 DEF home, away, drawn

(* A round robin is complete: in it each two of n competitors meet once.   *)
THEOREM RoundRobinIsComplete ==
  ASSUME NEW n \in Nat, NEW phase, NEW group
  PROVE  EachPairOnce(n, phase, group)
<1> DEFINE size == Even(n)
           draw == RoundRobin(n, phase, group)
           home(m) == Home(n, m)
           away(m) == Away(n, m)
           drawn == CircleMatches(n, phase, group)
           players == 0..(n - 1)
<1>1. PICK half \in Nat : size = 2 * half /\ size \in {n, n + 1} /\ size \div 2 = half
  <2>1. PICK half \in Nat : size = 2 * half /\ size \in {n, n + 1}
    BY EvenType
  <2>2. (2 * half) \div 2 = half
    OBVIOUS
  <2> QED
    BY <2>1, <2>2
<1>2. /\ \A m : m \in DOMAIN draw <=> m \in drawn /\ home(m) < n /\ away(m) < n
      /\ \A m \in DOMAIN draw : draw[m][1] = home(m) /\ draw[m][2] = away(m)
  BY RoundRobinFaces
<1>3. /\ \A m \in drawn : /\ m = MatchId(phase, group, m.round, m.position)
                          /\ m.round - 1 \in 0..(2 * half - 2) /\ m.position \in 1..half
      /\ \A t \in 0..(2 * half - 2), p \in 1..half :
           \E m \in drawn : m.round - 1 = t /\ m.position = p
  <2>1. drawn = {MatchId(phase, group, round, position) : round \in 1..(2 * half - 1), position \in 1..half}
    BY <1>1 DEF CircleMatches
  <2>2. ASSUME NEW m \in drawn
        PROVE  /\ m = MatchId(phase, group, m.round, m.position)
               /\ m.round - 1 \in 0..(2 * half - 2) /\ m.position \in 1..half
    <3>1. PICK round \in 1..(2 * half - 1), position \in 1..half :
            m = MatchId(phase, group, round, position)
      BY <2>1
    <3>2. m.round = round /\ m.position = position
      BY <3>1 DEF MatchId
    <3> QED
      BY <3>1, <3>2
  <2>3. ASSUME NEW t \in 0..(2 * half - 2), NEW p \in 1..half
        PROVE  \E m \in drawn : m.round - 1 = t /\ m.position = p
    <3> DEFINE m == MatchId(phase, group, t + 1, p)
    <3>1. m \in drawn
      BY <2>1
    <3>2. m.round = t + 1 /\ m.position = p
      BY DEF MatchId
    <3> HIDE DEF m, drawn
    <3> QED
      BY <3>1, <3>2
  <2> QED
    BY <2>2, <2>3
<1> HIDE DEF drawn
<1>4. ASSUME NEW m \in DOMAIN draw
      PROVE  draw[m][1] \in players /\ draw[m][2] \in players /\ draw[m][1] # draw[m][2]
  <2>1. m \in drawn /\ home(m) < n /\ away(m) < n
    BY <1>2
  <2>2. /\ home(m) \in 0..(2 * half - 1) /\ away(m) \in 0..(2 * half - 1)
        /\ home(m) # away(m)
    BY <1>1, <1>3, <2>1, FacingDiffer DEF Home, Away
  <2> HIDE DEF home, away
  <2> QED
    BY <1>2, <2>1, <2>2
<1>5. ASSUME NEW a \in players, NEW b \in players, a < b
      PROVE  \E m \in DOMAIN draw : {draw[m][1], draw[m][2]} = {a, b}
  <2>1. a \in 0..(2 * half - 1) /\ b \in 0..(2 * half - 1)
    BY <1>1
  <2>2. PICK t \in 0..(2 * half - 2), p \in 1..half :
          LET x == Seat(2 * half, t, p)
              y == Seat(2 * half, t, 2 * half + 1 - p)
          IN  (x = a /\ y = b) \/ (x = b /\ y = a)
    BY <1>5, <2>1, FacingAll
  <2>3. PICK m \in drawn : m.round - 1 = t /\ m.position = p
    BY <1>3
  <2>4. (home(m) = a /\ away(m) = b) \/ (home(m) = b /\ away(m) = a)
    BY <1>1, <2>2, <2>3 DEF Home, Away
  <2> HIDE DEF home, away
  <2>5. m \in DOMAIN draw
    BY <1>2, <2>4
  <2> HIDE DEF draw
  <2> QED
    BY <1>2, <2>4, <2>5
<1>6. ASSUME NEW m \in DOMAIN draw, NEW other \in DOMAIN draw,
             {draw[m][1], draw[m][2]} = {draw[other][1], draw[other][2]}
      PROVE  m = other
  <2>1. m \in drawn /\ other \in drawn
    BY <1>2
  <2>2. (home(m) = home(other) /\ away(m) = away(other)) \/ (home(m) = away(other) /\ away(m) = home(other))
    <3> HIDE DEF home, away, draw
    <3> QED
      BY <1>2, <1>6
  <2>3. m.round - 1 = other.round - 1 /\ m.position = other.position
    <3> DEFINE t == m.round - 1
               u == other.round - 1
               seat(turns, place) == Seat(2 * half, turns, place)
    <3>1. /\ t \in 0..(2 * half - 2) /\ m.position \in 1..half
          /\ u \in 0..(2 * half - 2) /\ other.position \in 1..half
      BY <1>3, <2>1
    <3>2. /\ home(m) = seat(t, m.position) /\ away(m) = seat(t, 2 * half + 1 - m.position)
          /\ home(other) = seat(u, other.position)
          /\ away(other) = seat(u, 2 * half + 1 - other.position)
      BY <1>1 DEF Home, Away
    <3> HIDE DEF t, u, home, away
    <3> QED
      BY <2>2, <3>1, <3>2, FacingOnce DEF t, u
  <2>4. m.round = other.round
    BY <1>3, <2>1, <2>3 DEF drawn, CircleMatches, MatchId
  <2> QED
    BY <1>3, <2>1, <2>3, <2>4
<1>7. ASSUME NEW a \in players, NEW b \in players, a # b
      PROVE  \E m \in DOMAIN draw : {draw[m][1], draw[m][2]} = {a, b}
  <2>1. a < b \/ b < a
    BY <1>7
  <2>2. {a, b} = {b, a}
    OBVIOUS
  <2> HIDE DEF draw
  <2> QED
    BY <1>5, <2>1, <2>2
<1> HIDE DEF draw
<1>8. /\ \A m \in DOMAIN draw :
           draw[m][1] \in players /\ draw[m][2] \in players /\ draw[m][1] # draw[m][2]
      /\ \A a, b \in players : a # b => \E m \in DOMAIN draw : {draw[m][1], draw[m][2]} = {a, b}
      /\ \A m, other \in DOMAIN draw :
           {draw[m][1], draw[m][2]} = {draw[other][1], draw[other][2]} => m = other
  BY <1>4, <1>6, <1>7
<1> QED
  BY <1>8 DEF EachPairOnce, draw

-----------------------------------------------------------------------------
(* Two that differ are two.                                                *)
LEMMA TwoElements ==
  ASSUME NEW c, NEW d, c # d
  PROVE  IsFiniteSet({c, d}) /\ Cardinality({c, d}) = 2
<1>1. IsFiniteSet({c}) /\ Cardinality({c}) = 1
  BY FS_Singleton
<1>2. d \notin {c} /\ {c, d} = {c} \cup {d}
  OBVIOUS
<1>3. /\ IsFiniteSet({c} \cup {d})
      /\ Cardinality({c} \cup {d}) = IF d \in {c} THEN Cardinality({c}) ELSE Cardinality({c}) + 1
  BY <1>1, FS_AddElement
<1> QED
  BY <1>1, <1>2, <1>3

(* A pool match is of two of the entrants.                                 *)
IsPairOf(pair, entered) == \E c, d \in entered : c # d /\ pair = <<c, d>>

(* The pools of a category.                                                *)
PoolGroups == {"A", "B"}

(* The matches of a pool and who is drawn in them.                         *)
DrawnIn(draw, group) == {m \in DOMAIN draw : m.group = group}

EnteredIn(draw, group) == {draw[m][side] : m \in DrawnIn(draw, group), side \in {1, 2}}

(* Even seeds go to one pool and odd ones to the other.                    *)
LEMMA MembersOfPools ==
  ASSUME NEW n \in 5..15, NEW group \in PoolGroups
  PROVE  LET members == SplitIntoPools(n)[group]
         IN  /\ Len(members) \in Nat /\ Len(members) \in 2..n /\ DOMAIN members = 1..Len(members)
             /\ \A i, j \in 1..Len(members) : members[i] = members[j] => i = j
             /\ \A i \in 1..Len(members) : members[i] \in 0..(n - 1) /\
                  \E k \in Int : members[i] = IF group = "A" THEN 2 * k ELSE 2 * k - 1
<1> DEFINE size == (IF group = "A" THEN n + 1 ELSE n) \div 2
           at(i) == IF group = "A" THEN 2 * (i - 1) ELSE 2 * i - 1
           members == [i \in 1..size |-> at(i)]
<1>1. SplitIntoPools(n)[group] = members
  BY DEF SplitIntoPools, PoolGroups
<1>2. size \in Nat /\ size \in 2..n /\ 2 * size <= IF group = "A" THEN n + 1 ELSE n
  OBVIOUS
<1> HIDE DEF size
<1>3. Len(members) = size /\ DOMAIN members = 1..size
  <2>1. \A i \in 1..size : at(i) \in Int
    OBVIOUS
  <2>2. members \in [1..size -> Int]
    BY <2>1
  <2> HIDE DEF members
  <2> QED
    BY <1>2, <2>2
<1>4. \A i, j \in 1..size : members[i] = members[j] => i = j
  BY <1>2
<1>5. ASSUME NEW i \in 1..size
      PROVE  members[i] \in 0..(n - 1) /\
                  \E k \in Int : members[i] = IF group = "A" THEN 2 * k ELSE 2 * k - 1
  <2>1. CASE group = "A"
    <3>1. members[i] = 2 * (i - 1) /\ i - 1 \in Int
      BY <2>1
    <3> QED
      BY <1>2, <2>1, <3>1
  <2>2. CASE group # "A"
    <3>1. members[i] = 2 * i - 1 /\ i \in Int
      BY <2>2
    <3> QED
      BY <1>2, <2>2, <3>1
  <2> QED
    BY <2>1, <2>2
<1> HIDE DEF members
<1> QED
  BY <1>1, <1>2, <1>3, <1>4, <1>5

(* A round robin has finitely many matches, in as many rounds at most.     *)
LEMMA RoundRobinMatches ==
  ASSUME NEW k \in Nat, NEW phase, NEW group
  PROVE  /\ IsFiniteSet(DOMAIN RoundRobin(k, phase, group))
         /\ \A m \in DOMAIN RoundRobin(k, phase, group) :
              m.phase = phase /\ m.group = group /\ m.round \in 1..k
<1> DEFINE size == Even(k)
           turns == 1..(size - 1)
           places == 1..(size \div 2)
           drawn == {MatchId(phase, group, round, position) : round \in turns, position \in places}
           at == [p \in turns \X places |-> MatchId(phase, group, p[1], p[2])]
<1>1. size \in Nat /\ size - 1 <= k /\ size \div 2 \in Int
  BY EvenType
<1>2. DOMAIN RoundRobin(k, phase, group) \subseteq drawn
  BY DEF RoundRobin
<1> HIDE DEF size
<1>3. IsFiniteSet(turns) /\ IsFiniteSet(places)
  BY <1>1, FS_Interval
<1> HIDE DEF turns, places
<1>4. at \in Surjection(turns \X places, drawn)
  <2>1. at \in [turns \X places -> drawn]
    OBVIOUS
  <2>2. \A m \in drawn : \E p \in turns \X places : at[p] = m
    <3> SUFFICES ASSUME NEW m \in drawn PROVE \E p \in turns \X places : at[p] = m
      OBVIOUS
    <3>1. PICK round \in turns, position \in places : m = MatchId(phase, group, round, position)
      OBVIOUS
    <3>2. <<round, position>> \in turns \X places /\ at[<<round, position>>] = m
      BY <3>1
    <3> HIDE DEF at
    <3> QED
      BY <3>2
  <2> HIDE DEF at
  <2> QED
    BY <2>1, <2>2 DEF Surjection
<1>5. IsFiniteSet(drawn)
  <2>1. IsFiniteSet(turns \X places)
    BY <1>3, FS_Product
  <2> HIDE DEF at, drawn
  <2> QED
    BY <1>4, <2>1, FS_Surjection
<1>6. \A m \in drawn : m.phase = phase /\ m.group = group /\ m.round \in 1..k
  BY <1>1 DEF MatchId, turns
<1> HIDE DEF drawn
<1>7. IsFiniteSet(DOMAIN RoundRobin(k, phase, group))
  BY <1>2, <1>5, FS_Subset
<1> QED
  BY <1>2, <1>6, <1>7

(* Each match of a pool is of two of its members; nobody is in both.       *)
LEMMA PoolsAreDrawnInTwo ==
  ASSUME NEW n \in 5..15
  PROVE  /\ IsFiniteSet(DOMAIN Pools(n))
         /\ \A m \in DOMAIN Pools(n) :
              /\ m.phase = "POOL" /\ m.group \in PoolGroups /\ m.round \in 1..n
              /\ IsPairOf(Pools(n)[m], EnteredIn(Pools(n), m.group))
              /\ IsPairOf(Pools(n)[m], 0..(n - 1))
         /\ \A group \in PoolGroups :
              /\ DrawnIn(Pools(n), group) # {}
              /\ EnteredIn(Pools(n), group) \subseteq 0..(n - 1)
         /\ EnteredIn(Pools(n), "A") \cap EnteredIn(Pools(n), "B") = {}
<1> DEFINE members(group) == SplitIntoPools(n)[group]
           size(group) == Len(members(group))
           draw(group) == RoundRobin(size(group), "POOL", group)
           seated(group) == Seated(draw(group), members(group))
<1>1. ASSUME NEW group \in PoolGroups
      PROVE  /\ size(group) \in Nat /\ size(group) \in 2..n
             /\ \A i, j \in 1..size(group) : members(group)[i] = members(group)[j] => i = j
             /\ \A i \in 1..size(group) : members(group)[i] \in 0..(n - 1) /\
                  \E k \in Int : members(group)[i] = IF group = "A" THEN 2 * k ELSE 2 * k - 1
  BY MembersOfPools
<1>2. /\ DOMAIN Pools(n) = DOMAIN seated("A") \cup DOMAIN seated("B")
      /\ \A m \in DOMAIN Pools(n) : Pools(n)[m] = seated(m.group)[m]
  BY DEF Pools
<1> HIDE DEF size
<1>3. ASSUME NEW group \in PoolGroups
      PROVE  /\ DOMAIN seated(group) = DOMAIN draw(group)
             /\ IsFiniteSet(DOMAIN draw(group)) /\ DOMAIN draw(group) # {}
             /\ \A m \in DOMAIN draw(group) :
                  /\ m.phase = "POOL" /\ m.group = group /\ m.round \in 1..n
                  /\ \E i, j \in 1..size(group) :
                       i # j /\ seated(group)[m] = <<members(group)[i], members(group)[j]>>
  <2>1. /\ \A m \in DOMAIN draw(group) :
             /\ draw(group)[m][1] \in 0..(size(group) - 1)
             /\ draw(group)[m][2] \in 0..(size(group) - 1)
             /\ draw(group)[m][1] # draw(group)[m][2]
        /\ \A a, b \in 0..(size(group) - 1) : a # b => \E m \in DOMAIN draw(group) : {draw(group)[m][1], draw(group)[m][2]} = {a, b}
    BY <1>1, RoundRobinIsComplete DEF EachPairOnce
  <2>2. /\ IsFiniteSet(DOMAIN draw(group))
        /\ \A m \in DOMAIN draw(group) : m.phase = "POOL" /\ m.group = group /\ m.round \in 1..n
    BY <1>1, RoundRobinMatches
  <2>3. DOMAIN draw(group) # {}
    <3>1. 0 \in 0..(size(group) - 1) /\ 1 \in 0..(size(group) - 1)
      BY <1>1
    <3> HIDE DEF draw
    <3> QED
      BY <2>1, <3>1
  <2> HIDE DEF draw, members
  <2>4. DOMAIN seated(group) = DOMAIN draw(group)
    BY DEF Seated
  <2>5. ASSUME NEW m \in DOMAIN draw(group)
        PROVE  \E i, j \in 1..size(group) :
                       i # j /\ seated(group)[m] = <<members(group)[i], members(group)[j]>>
    <3> DEFINE x == draw(group)[m][1]
               y == draw(group)[m][2]
    <3>1. /\ x \in 0..(size(group) - 1) /\ y \in 0..(size(group) - 1) /\ x # y
          /\ x # Nobody /\ y # Nobody /\ size(group) \in Nat
      BY <1>1, <2>1 DEF Nobody
    <3>2. seated(group)[m] = <<members(group)[x + 1], members(group)[y + 1]>>
      BY <3>1 DEF Seated
    <3> HIDE DEF x, y, seated
    <3>3. x + 1 \in 1..size(group) /\ y + 1 \in 1..size(group) /\ x + 1 # y + 1
      BY <3>1
    <3> QED
      BY <3>2, <3>3
  <2> HIDE DEF seated
  <2> QED
    BY <2>2, <2>3, <2>4, <2>5
<1> HIDE DEF seated, draw
<1>4. "A" \in PoolGroups /\ "B" \in PoolGroups /\ \A g \in PoolGroups : g = "A" \/ g = "B"
  BY DEF PoolGroups
<1>5. IsFiniteSet(DOMAIN Pools(n))
  <2>1. IsFiniteSet(DOMAIN draw("A")) /\ IsFiniteSet(DOMAIN draw("B"))
    BY <1>3, <1>4
  <2>2. DOMAIN Pools(n) = DOMAIN draw("A") \cup DOMAIN draw("B")
    BY <1>2, <1>3, <1>4
  <2>3. IsFiniteSet(DOMAIN draw("A") \cup DOMAIN draw("B"))
    BY <2>1, FS_Union
  <2> QED
    BY <2>2, <2>3
<1>6. ASSUME NEW m \in DOMAIN Pools(n)
      PROVE  /\ m.phase = "POOL" /\ m.group \in PoolGroups /\ m.round \in 1..n
             /\ \E i, j \in 1..size(m.group) :
                  i # j /\ Pools(n)[m] = <<members(m.group)[i], members(m.group)[j]>>
  <2>1. PICK group \in PoolGroups : m \in DOMAIN draw(group)
    BY <1>2, <1>3, <1>4
  <2>2. m.phase = "POOL" /\ m.group = group /\ m.round \in 1..n
    BY <1>3, <2>1
  <2>3. PICK i, j \in 1..size(group) : i # j /\ seated(group)[m] = <<members(group)[i], members(group)[j]>>
    BY <1>3, <2>1
  <2> HIDE DEF members
  <2> QED
    BY <1>2, <2>2, <2>3
<1>7. ASSUME NEW m \in DOMAIN Pools(n)
      PROVE  IsPairOf(Pools(n)[m], EnteredIn(Pools(n), m.group)) /\ IsPairOf(Pools(n)[m], 0..(n - 1))
  <2>1. PICK i, j \in 1..size(m.group) : i # j /\ Pools(n)[m] = <<members(m.group)[i], members(m.group)[j]>>
    BY <1>6
  <2> DEFINE c == members(m.group)[i]
             d == members(m.group)[j]
  <2>2. c # d /\ c \in 0..(n - 1) /\ d \in 0..(n - 1)
    BY <1>1, <1>6, <2>1
  <2> HIDE DEF c, d
  <2>3. Pools(n)[m] = <<c, d>>
    BY <2>1 DEF c, d
  <2>4. Pools(n)[m][1] = c /\ Pools(n)[m][2] = d
    BY <2>3
  <2>5. c \in EnteredIn(Pools(n), m.group) /\ d \in EnteredIn(Pools(n), m.group)
    BY <2>4 DEF EnteredIn, DrawnIn
  <2> QED
    BY <2>2, <2>3, <2>5 DEF IsPairOf
<1>8. ASSUME NEW group \in PoolGroups, NEW c \in EnteredIn(Pools(n), group)
      PROVE  \E i \in 1..size(group) : c = members(group)[i]
  <2>1. PICK m \in DrawnIn(Pools(n), group), side \in {1, 2} : c = Pools(n)[m][side]
    BY DEF EnteredIn
  <2>2. m \in DOMAIN Pools(n) /\ m.group = group
    BY DEF DrawnIn
  <2>3. PICK i, j \in 1..size(group) : i # j /\ Pools(n)[m] = <<members(group)[i], members(group)[j]>>
    BY <1>6, <2>2
  <2> HIDE DEF members
  <2>4. Pools(n)[m][1] = members(group)[i] /\ Pools(n)[m][2] = members(group)[j]
    BY <2>3
  <2> QED
    BY <2>1, <2>4
<1>9. ASSUME NEW group \in PoolGroups
      PROVE  DrawnIn(Pools(n), group) # {} /\ EnteredIn(Pools(n), group) \subseteq 0..(n - 1)
  <2>1. PICK m \in DOMAIN draw(group) : m.group = group
    BY <1>3
  <2>2. m \in DrawnIn(Pools(n), group)
    BY <1>2, <1>3, <1>4, <2>1 DEF DrawnIn
  <2> QED
    BY <1>1, <1>8, <2>2
<1>10. EnteredIn(Pools(n), "A") \cap EnteredIn(Pools(n), "B") = {}
  <2> SUFFICES ASSUME NEW c \in EnteredIn(Pools(n), "A"), c \in EnteredIn(Pools(n), "B") PROVE FALSE
    OBVIOUS
  <2>1. PICK k \in Int : c = 2 * k
    BY <1>1, <1>4, <1>8
  <2>2. PICK l \in Int : c = 2 * l - 1
    BY <1>1, <1>4, <1>8
  <2> QED
    BY <2>1, <2>2
<1> QED
  BY <1>5, <1>6, <1>7, <1>9, <1>10

(* A pool has at least two members.                                        *)
LEMMA EntrantsOfPools ==
  ASSUME NEW n \in 5..15, NEW group \in PoolGroups
  PROVE  /\ IsFiniteSet(DrawnIn(Pools(n), group))
         /\ IsFiniteSet(EnteredIn(Pools(n), group))
         /\ Cardinality(EnteredIn(Pools(n), group)) >= 2
<1> DEFINE drawn == DrawnIn(Pools(n), group)
           entered == EnteredIn(Pools(n), group)
<1>1. IsFiniteSet(drawn)
  <2>1. IsFiniteSet(DOMAIN Pools(n)) /\ drawn \subseteq DOMAIN Pools(n)
    BY PoolsAreDrawnInTwo DEF DrawnIn
  <2> HIDE DEF drawn
  <2> QED
    BY <2>1, FS_Subset
<1>2. IsFiniteSet(entered)
  <2>1. entered \subseteq 0..(n - 1)
    BY PoolsAreDrawnInTwo
  <2>2. IsFiniteSet(0..(n - 1))
    BY FS_Interval
  <2> HIDE DEF entered
  <2> QED
    BY <2>1, <2>2, FS_Subset
<1>3. PICK c, d \in entered : c # d
  <2>1. PICK m \in DOMAIN Pools(n) : m.group = group
    BY PoolsAreDrawnInTwo DEF DrawnIn
  <2>2. IsPairOf(Pools(n)[m], entered)
    BY <2>1, PoolsAreDrawnInTwo
  <2> HIDE DEF entered
  <2> QED
    BY <2>2 DEF IsPairOf
<1> HIDE DEF entered
<1>4. Cardinality({c, d}) = 2 /\ {c, d} \in SUBSET entered
  BY <1>3, TwoElements
<1>5. Cardinality({c, d}) <= Cardinality(entered)
  BY <1>2, <1>4, FS_Subset
<1>6. Cardinality(entered) \in Nat
  BY <1>2, FS_CardinalityType
<1>7. Cardinality(entered) >= 2
  BY <1>4, <1>5, <1>6
<1> QED
  BY <1>1, <1>2, <1>7 DEF entered

-----------------------------------------------------------------------------
(* Powers of two: the rounds of a bracket *)

LEMMA PowersOfTwo ==
  ASSUME NEW n \in Nat
  PROVE  2^n \in Nat /\ n <= 2^n
<1>1. IsFiniteSet(1..n) /\ Cardinality(1..n) = n
  BY FS_Interval
<1>2. 2^n = Cardinality(SUBSET (1..n)) /\ IsFiniteSet(SUBSET (1..n))
  BY <1>1, FS_SUBSET
<1>3. 2^n \in Nat
  BY <1>2, FS_CardinalityType
<1> DEFINE singles == {{i} : i \in 1..n}
           single == [i \in 1..n |-> {i}]
<1>4. single \in Bijection(1..n, singles)
  BY DEF Bijection, Injection, Surjection, IsInjective
<1>5. IsFiniteSet(singles) /\ Cardinality(singles) = n
  BY <1>1, <1>4, FS_Bijection DEF ExistsBijection
<1>6. n <= 2^n
  BY <1>2, <1>5, FS_Subset
<1> QED
  BY <1>3, <1>6

LEMMA SmallPowers ==
  ASSUME NEW k
  PROVE  (k = 0 => 2^k = 1) /\ (k = 1 => 2^k = 2) /\ (k = 2 => 2^k = 4)
<1>1. 2^0 = 1 /\ 2^1 = 2 /\ 2^2 = 4
  OBVIOUS
<1> QED
  BY <1>1, Zenon

(* The number of rounds is that of the smallest power of two that seats    *)
(* everybody.                                                              *)
LEMMA RoundsOfBracket ==
  ASSUME NEW n \in Nat
  PROVE  /\ TotalRoundsFor(n) \in Nat
         /\ n > 1 => /\ TotalRoundsFor(n) >= 1
                     /\ 2^(TotalRoundsFor(n) - 1) < n /\ n <= 2^TotalRoundsFor(n)
<1>1. CASE n <= 1
  BY <1>1 DEF TotalRoundsFor
<1>2. CASE n > 1
  <2> DEFINE enough == {r \in Nat : n <= 2^r}
             fits(r) == r \in 1..n /\ 2^(r - 1) < n /\ n <= 2^r
  <2>1. n \in enough
    BY PowersOfTwo
  <2>2. PICK r \in enough : \A j \in enough : r <= j
    BY <2>1, LeastNatural
  <2>3. r # 0
    BY <1>2, <2>2, SmallPowers
  <2>4. r - 1 \in Nat /\ r - 1 \notin enough /\ r \in 1..n
    BY <2>1, <2>2, <2>3
  <2>5. fits(r)
    BY <2>2, <2>4, PowersOfTwo
  <2>6. TotalRoundsFor(n) = CHOOSE s \in 1..n : 2^(s - 1) < n /\ n <= 2^s
    <3>1. ~(n <= 1)
      BY <1>2
    <3> QED
      BY <3>1, Zenon DEF TotalRoundsFor
  <2>7. fits(TotalRoundsFor(n))
    BY <2>5, <2>6, Zenon
  <2> QED
    BY <1>2, <2>7
<1> QED
  BY <1>1, <1>2

(* Half of the sets of numbers up to n do not hold n.                      *)
LEMMA PowerStep ==
  ASSUME NEW n \in Nat, n > 0
  PROVE  2^n = 2 * 2^(n - 1)
<1> DEFINE without == SUBSET (1..(n - 1))
           with == {S \cup {n} : S \in without}
           add == [S \in without |-> S \cup {n}]
<1>1. /\ IsFiniteSet(1..n) /\ Cardinality(1..n) = n
      /\ IsFiniteSet(1..(n - 1)) /\ Cardinality(1..(n - 1)) = n - 1
  BY FS_Interval
<1>2. 2^n = Cardinality(SUBSET (1..n))
  BY <1>1, FS_SUBSET
<1>3. 2^(n - 1) = Cardinality(without) /\ IsFiniteSet(without)
  BY <1>1, FS_SUBSET
<1>4. add \in Bijection(without, with)
  <2>1. \A S \in without : n \notin S
    OBVIOUS
  <2>2. \A S, T \in without : add[S] = add[T] => S = T
    BY <2>1
  <2> QED
    BY <2>2 DEF Bijection, Injection, Surjection, IsInjective
<1>5. IsFiniteSet(with) /\ Cardinality(with) = Cardinality(without)
  <2> HIDE DEF with, without, add
  <2> QED
    BY <1>3, <1>4, FS_Bijection DEF ExistsBijection
<1>6. SUBSET (1..n) = without \cup with /\ without \cap with = {}
  <2>1. ASSUME NEW S \in SUBSET (1..n), n \in S
        PROVE  S \in with
    <3>1. S \ {n} \in without /\ S = (S \ {n}) \cup {n}
      BY <2>1
    <3> QED
      BY <3>1
  <2>2. \A S \in SUBSET (1..n) : n \notin S => S \in without
    OBVIOUS
  <2>3. \A S \in with : S \in SUBSET (1..n) /\ n \in S
    OBVIOUS
  <2>4. \A S \in without : S \in SUBSET (1..n) /\ n \notin S
    OBVIOUS
  <2> HIDE DEF with, without
  <2> QED
    BY <2>1, <2>2, <2>3, <2>4
<1>7. Cardinality(without \cup with) = Cardinality(without) + Cardinality(with)
  <2> HIDE DEF with, without
  <2>1. Cardinality(without \cap with) = 0
    BY <1>6, FS_EmptySet
  <2>2. Cardinality(without) \in Nat /\ Cardinality(with) \in Nat
    BY <1>3, <1>5, FS_CardinalityType
  <2>3. Cardinality(without \cup with) =
          Cardinality(without) + Cardinality(with) - Cardinality(without \cap with)
    BY <1>3, <1>5, FS_Union
  <2> QED
    BY <2>1, <2>2, <2>3
<1>8. 2^(n - 1) \in Nat
  BY PowersOfTwo
<1>9. Cardinality(SUBSET (1..n)) = Cardinality(without \cup with)
  <2> HIDE DEF with, without, add
  <2> QED
    BY <1>6, Zenon
<1> HIDE DEF with, without, add
<1> QED
  BY <1>2, <1>3, <1>5, <1>7, <1>8, <1>9

-----------------------------------------------------------------------------
(* The seeds of a bracket *)

NextSeeds(seeds, k) ==
  [i \in 1..2^k |->
     LET seed == seeds[(i + 1) \div 2]
     IN  IF i % 2 = 1 THEN seed ELSE 2^k - 1 - seed]

(* The recursion of generateSeedings has a solution: its beginnings do,    *)
(* and two beginnings agree as far as both go.                             *)
LEMMA SeedingsStep ==
  /\ Seedings[0] = <<0>>
  /\ \A k \in Nat \ {0} : Seedings[k] = NextSeeds(Seedings[k - 1], k)
<1> DEFINE step(f, k) == IF k = 0 THEN <<0>> ELSE NextSeeds(f[k - 1], k)
           IsSeeds(f) == f = [k \in Nat |-> step(f, k)]
           Upto(k, f) == f = [j \in 0..k |-> step(f, j)]
<1>1. Seedings = CHOOSE f : IsSeeds(f)
  BY DEF Seedings, NextSeeds
<1>2. ASSUME NEW k \in Nat, NEW f, Upto(k, f), NEW j \in Nat, j <= k
      PROVE  f[j] = step(f, j)
  <2> HIDE DEF step
  <2> QED
    BY <1>2
<1>3. ASSUME NEW k \in Nat, NEW f, Upto(k, f), NEW l \in Nat, NEW g, Upto(l, g)
      PROVE  \A j \in Nat : j <= k /\ j <= l => f[j] = g[j]
  <2> DEFINE differ == {j \in Nat : j <= k /\ j <= l /\ f[j] # g[j]}
  <2> SUFFICES ASSUME differ # {} PROVE FALSE
    OBVIOUS
  <2>1. PICK j \in differ : \A i \in differ : j <= i
    BY LeastNatural
  <2>2. f[j] = step(f, j) /\ g[j] = step(g, j)
    <3> HIDE DEF step, Upto
    <3> QED
      BY <1>2, <1>3
  <2>3. j # 0 => f[j - 1] = g[j - 1]
    <3> SUFFICES ASSUME j # 0 PROVE j - 1 \notin differ /\ j - 1 \in Nat /\ j - 1 <= k /\ j - 1 <= l
      OBVIOUS
    <3> QED
      BY <2>1
  <2>4. step(f, j) = step(g, j)
    BY <2>3
  <2> QED
    BY <2>1, <2>2, <2>4
<1>4. \A k \in Nat : \E f : Upto(k, f)
  <2> DEFINE none == {k \in Nat : ~\E f : Upto(k, f)}
  <2> SUFFICES ASSUME none # {} PROVE FALSE
    OBVIOUS
  <2>1. PICK k \in none : \A l \in none : k <= l
    <3>1. none \subseteq Nat
      OBVIOUS
    <3> HIDE DEF none
    <3> QED
      BY <3>1, LeastNatural
  <2>2. CASE k = 0
    <3>1. Upto(0, [j \in 0..0 |-> <<0>>])
      OBVIOUS
    <3> HIDE DEF Upto
    <3> QED
      BY <2>1, <2>2, <3>1
  <2>3. CASE k # 0
    <3>1. k - 1 \in Nat /\ k - 1 \notin none
      BY <2>1, <2>3
    <3>2. PICK f : Upto(k - 1, f)
      BY <3>1
    <3> DEFINE g == [j \in 0..k |-> IF j = k THEN step(f, k) ELSE f[j]]
    <3>3. \A j \in 0..(k - 1) : f[j] = step(f, j)
      <4> HIDE DEF step, Upto
      <4> QED
        BY <1>2, <3>1, <3>2
    <3>4. \A j \in 0..k : j # 0 => g[j - 1] = f[j - 1]
      BY <2>1
    <3>5. \A j \in 0..k : step(g, j) = step(f, j)
      <4> HIDE DEF g
      <4> QED
        BY <3>4
    <3>6. \A j \in 0..k : g[j] = step(g, j)
      <4> SUFFICES ASSUME NEW j \in 0..k PROVE g[j] = step(f, j)
        BY <3>5
      <4> HIDE DEF step
      <4> QED
        BY <2>1, <3>3
    <3>7. Upto(k, g)
      <4>1. g = [j \in 0..k |-> g[j]]
        OBVIOUS
      <4> HIDE DEF g, step
      <4> QED
        BY <3>6, <4>1
    <3> HIDE DEF g, Upto
    <3> QED
      BY <2>1, <3>7
  <2> QED
    BY <2>2, <2>3
<1> DEFINE upto == [k \in Nat |-> CHOOSE f : Upto(k, f)]
           whole == [k \in Nat |-> upto[k][k]]
<1>5. \A k \in Nat : Upto(k, upto[k])
  <2> HIDE DEF Upto
  <2> QED
    BY <1>4
<1>6. \A k \in Nat : whole[k] = step(whole, k)
  <2> SUFFICES ASSUME NEW k \in Nat PROVE whole[k] = step(whole, k)
    OBVIOUS
  <2>1. whole[k] = step(upto[k], k)
    <3> HIDE DEF step, upto, Upto
    <3> QED
      BY <1>2, <1>5
  <2>2. k # 0 => upto[k][k - 1] = whole[k - 1]
    <3> SUFFICES ASSUME k # 0 PROVE upto[k][k - 1] = upto[k - 1][k - 1]
      OBVIOUS
    <3>1. k - 1 \in Nat
      OBVIOUS
    <3> HIDE DEF upto, Upto
    <3> QED
      BY <1>3, <1>5, <3>1
  <2> HIDE DEF upto, whole
  <2>3. step(upto[k], k) = step(whole, k)
    BY <2>2
  <2> QED
    BY <2>1, <2>3
<1>7. IsSeeds(whole)
  <2>1. whole = [k \in Nat |-> whole[k]]
    OBVIOUS
  <2> HIDE DEF whole, step
  <2> QED
    BY <1>6, <2>1
<1>8. IsSeeds(Seedings)
  <2> HIDE DEF IsSeeds, whole
  <2> QED
    BY <1>1, <1>7
<1>9. \A k \in Nat : Seedings[k] = step(Seedings, k)
  <2> HIDE DEF step
  <2> QED
    BY <1>8
<1> QED
  BY <1>9

(* Two that meet first in a bracket are one of the better half, and the    *)
(* one who mirrors it.                                                     *)
LEMMA SeedsOfPair ==
  ASSUME NEW k \in Nat, k > 0, NEW p \in 1..2^(k - 1)
  PROVE  /\ Seedings[k][2 * p - 1] = Seedings[k - 1][p]
         /\ Seedings[k][2 * p] = 2^k - 1 - Seedings[k - 1][p]
<1>1. 2^k = 2 * 2^(k - 1) /\ 2^(k - 1) \in Nat /\ 2^k \in Nat
  BY PowerStep, PowersOfTwo
<1>2. 2 * p - 1 \in 1..2^k /\ 2 * p \in 1..2^k
  BY <1>1
<1>3. Seedings[k] = NextSeeds(Seedings[k - 1], k)
  BY SeedingsStep
<1>4. /\ (2 * p - 1 + 1) \div 2 = p /\ (2 * p + 1) \div 2 = p
      /\ (2 * p - 1) % 2 = 1 /\ (2 * p) % 2 = 0
  BY <1>1
<1> QED
  BY <1>2, <1>3, <1>4 DEF NextSeeds

(* Every seed has one place in the bracket.                                *)
SeedsAreSet(k) ==
  /\ \A i \in 1..2^k : Seedings[k][i] \in 0..(2^k - 1)
  /\ \A i, j \in 1..2^k : Seedings[k][i] = Seedings[k][j] => i = j

LEMMA SeedsSetNext ==
  ASSUME NEW k \in Nat, k > 0, SeedsAreSet(k - 1)
  PROVE  SeedsAreSet(k)
<1>1. 2^k = 2 * 2^(k - 1) /\ 2^(k - 1) \in Nat /\ 2^k \in Nat /\ 2^(k - 1) >= 1
  BY PowerStep, PowersOfTwo, SmallPowers
<1>2. ASSUME NEW i \in 1..2^k
      PROVE  \E p \in 1..2^(k - 1) : i = 2 * p - 1 \/ i = 2 * p
  <2>1. (i + 1) \div 2 \in 1..2^(k - 1) /\ (i = 2 * ((i + 1) \div 2) - 1 \/ i = 2 * ((i + 1) \div 2))
    BY <1>1
  <2> QED
    BY <2>1
<1>3. \A p \in 1..2^(k - 1) :
        /\ Seedings[k][2 * p - 1] = Seedings[k - 1][p]
        /\ Seedings[k][2 * p] = 2^k - 1 - Seedings[k - 1][p]
        /\ Seedings[k - 1][p] \in 0..(2^(k - 1) - 1)
  BY SeedsOfPair DEF SeedsAreSet
<1>4. ASSUME NEW i \in 1..2^k
      PROVE  Seedings[k][i] \in 0..(2^k - 1)
  <2>1. PICK p \in 1..2^(k - 1) : i = 2 * p - 1 \/ i = 2 * p
    BY <1>2
  <2>2. Seedings[k - 1][p] \in 0..(2^(k - 1) - 1)
    BY <1>3
  <2>3. CASE i = 2 * p - 1
    BY <1>1, <1>3, <2>2, <2>3
  <2>4. CASE i = 2 * p
    BY <1>1, <1>3, <2>2, <2>4
  <2> QED
    BY <2>1, <2>3, <2>4
<1>5. ASSUME NEW i \in 1..2^k, NEW j \in 1..2^k, Seedings[k][i] = Seedings[k][j]
      PROVE  i = j
  <2>1. PICK p \in 1..2^(k - 1) : i = 2 * p - 1 \/ i = 2 * p
    BY <1>2
  <2>2. PICK q \in 1..2^(k - 1) : j = 2 * q - 1 \/ j = 2 * q
    BY <1>2
  <2>3. /\ Seedings[k - 1][p] \in 0..(2^(k - 1) - 1) /\ Seedings[k - 1][q] \in 0..(2^(k - 1) - 1)
        /\ Seedings[k - 1][p] = Seedings[k - 1][q] => p = q
    BY <1>3 DEF SeedsAreSet
  <2>4. CASE i = 2 * p - 1 /\ j = 2 * q - 1
    BY <1>3, <1>5, <2>3, <2>4
  <2>5. CASE i = 2 * p /\ j = 2 * q
    BY <1>1, <1>3, <1>5, <2>3, <2>5
  <2>6. CASE i = 2 * p - 1 /\ j = 2 * q
    BY <1>1, <1>3, <1>5, <2>3, <2>6
  <2>7. CASE i = 2 * p /\ j = 2 * q - 1
    BY <1>1, <1>3, <1>5, <2>3, <2>7
  <2> QED
    BY <2>1, <2>2, <2>4, <2>5, <2>6, <2>7
<1> QED
  BY <1>4, <1>5 DEF SeedsAreSet

LEMMA SeedsHavePlaces ==
  ASSUME NEW k \in Nat
  PROVE  /\ SeedsAreSet(k)
         /\ \A seed \in 0..(2^k - 1) : \E i \in 1..2^k : Seedings[k][i] = seed
<1> DEFINE fails == {l \in Nat : ~SeedsAreSet(l)}
<1>1. fails = {}
  <2> SUFFICES ASSUME fails # {} PROVE FALSE
    OBVIOUS
  <2>1. PICK l \in fails : \A j \in fails : l <= j
    <3>1. fails \subseteq Nat
      OBVIOUS
    <3> HIDE DEF fails
    <3> QED
      BY <3>1, LeastNatural
  <2>2. l # 0
    <3>1. SeedsAreSet(0)
      BY SmallPowers, SeedingsStep DEF SeedsAreSet
    <3> QED
      BY <3>1
  <2>3. l - 1 \in Nat /\ l > 0 /\ SeedsAreSet(l - 1)
    BY <2>1, <2>2
  <2>4. SeedsAreSet(l)
    BY <2>3, SeedsSetNext
  <2> QED
    BY <2>4
<1>2. SeedsAreSet(k)
  BY <1>1
<1>3. 2^k \in Nat /\ 2^k >= 1
  BY PowersOfTwo, SmallPowers
<1> DEFINE place == [i \in 1..2^k |-> Seedings[k][i]]
<1>4. place \in Injection(1..2^k, 0..(2^k - 1))
  BY <1>2 DEF SeedsAreSet, Injection, IsInjective
<1>5. /\ IsFiniteSet(0..(2^k - 1)) /\ Cardinality(0..(2^k - 1)) = 2^k
      /\ Cardinality(1..2^k) = 2^k
  BY <1>3, FS_Interval
<1>6. place \in Surjection(1..2^k, 0..(2^k - 1))
  <2> HIDE DEF place
  <2> QED
    BY <1>4, <1>5, FS_Injection
<1>7. \A seed \in 0..(2^k - 1) : \E i \in 1..2^k : Seedings[k][i] = seed
  BY <1>6 DEF Surjection
<1> QED
  BY <1>2, <1>7

-----------------------------------------------------------------------------
(* The first round of an elimination *)

LEMMA FirstRoundSlots ==
  ASSUME NEW n \in Nat, n > 1, NEW p \in 1..2^(TotalRoundsFor(n) - 1)
  PROVE  LET rounds == TotalRoundsFor(n)
             slots == FirstRound(n, p)
         IN  /\ 2 * p - 1 \in 1..2^rounds /\ 2 * p \in 1..2^rounds
             /\ slots[1] = Seedings[rounds][2 * p - 1] /\ slots[1] \in 0..(n - 1)
             /\ slots[2] # Nobody => slots[2] = Seedings[rounds][2 * p] /\ slots[2] \in 0..(n - 1)
             /\ Seedings[rounds][2 * p] < n => slots[2] = Seedings[rounds][2 * p]
<1> DEFINE rounds == TotalRoundsFor(n)
<1>1. rounds \in Nat /\ rounds >= 1 /\ 2^(rounds - 1) < n /\ n <= 2^rounds
  BY RoundsOfBracket
<1> HIDE DEF rounds
<1>2. /\ 2^rounds = 2 * 2^(rounds - 1) /\ 2^(rounds - 1) \in Nat /\ 2^rounds \in Nat
  BY <1>1, PowerStep, PowersOfTwo
<1>3. p \in 1..2^(rounds - 1)
  BY DEF rounds
<1>4. 2 * p - 1 \in 1..2^rounds /\ 2 * p \in 1..2^rounds
  BY <1>2, <1>3
<1>5. Seedings[rounds][2 * p] \in 0..(2^rounds - 1)
  BY <1>1, <1>4, SeedsHavePlaces DEF SeedsAreSet
<1>6. Seedings[rounds - 1][p] \in 0..(2^(rounds - 1) - 1)
  BY <1>1, <1>3, SeedsHavePlaces DEF SeedsAreSet
<1>7. Seedings[rounds][2 * p - 1] = Seedings[rounds - 1][p]
  BY <1>1, <1>3, SeedsOfPair
<1>8. Seedings[rounds][2 * p - 1] \in 0..(n - 1)
  BY <1>1, <1>2, <1>6, <1>7
<1>9. /\ FirstRound(n, p)[1] = IF Seedings[rounds][2 * p - 1] < n THEN Seedings[rounds][2 * p - 1] ELSE Nobody
      /\ FirstRound(n, p)[2] = IF Seedings[rounds][2 * p] < n THEN Seedings[rounds][2 * p] ELSE Nobody
  BY DEF FirstRound, Seeding, rounds
<1> QED
  BY <1>4, <1>5, <1>8, <1>9 DEF rounds, Nobody

(* Everybody is drawn once into the first round.                           *)
LEMMA FirstRoundOnce ==
  ASSUME NEW n \in Nat, n > 1
  PROVE  LET places == 1..2^(TotalRoundsFor(n) - 1)
         IN  /\ \A p, q \in places, s, t \in {1, 2} :
                  FirstRound(n, p)[s] # Nobody /\ FirstRound(n, p)[s] = FirstRound(n, q)[t] =>
                    p = q /\ s = t
             /\ \A c \in 0..(n - 1) : \E p \in places, s \in {1, 2} : FirstRound(n, p)[s] = c
<1> DEFINE rounds == TotalRoundsFor(n)
           places == 1..2^(rounds - 1)
           at(p, s) == IF s = 1 THEN 2 * p - 1 ELSE 2 * p
<1>1. rounds \in Nat /\ rounds >= 1 /\ n <= 2^rounds
  BY RoundsOfBracket
<1>2. SeedsAreSet(rounds) /\ \A seed \in 0..(2^rounds - 1) : \E i \in 1..2^rounds : Seedings[rounds][i] = seed
  BY <1>1, SeedsHavePlaces
<1>3. 2^rounds = 2 * 2^(rounds - 1) /\ 2^(rounds - 1) \in Nat /\ 2^rounds \in Nat
  BY <1>1, PowerStep, PowersOfTwo
<1>4. ASSUME NEW p \in places, NEW s \in {1, 2}
      PROVE  /\ at(p, s) \in 1..2^rounds
             /\ FirstRound(n, p)[s] # Nobody => FirstRound(n, p)[s] = Seedings[rounds][at(p, s)]
             /\ Seedings[rounds][at(p, s)] < n => FirstRound(n, p)[s] = Seedings[rounds][at(p, s)]
  <2>1. CASE s = 1
    BY <1>4, <2>1, FirstRoundSlots
  <2>2. CASE s = 2
    BY <1>4, <2>2, FirstRoundSlots
  <2> QED
    BY <2>1, <2>2
<1>5. ASSUME NEW p \in places, NEW q \in places, NEW s \in {1, 2}, NEW t \in {1, 2},
             FirstRound(n, p)[s] # Nobody, FirstRound(n, p)[s] = FirstRound(n, q)[t]
      PROVE  p = q /\ s = t
  <2> HIDE DEF at
  <2>1. at(p, s) = at(q, t)
    BY <1>2, <1>4, <1>5 DEF SeedsAreSet
  <2> QED
    BY <1>3, <2>1 DEF at
<1>6. ASSUME NEW c \in 0..(n - 1)
      PROVE  \E p \in places, s \in {1, 2} : FirstRound(n, p)[s] = c
  <2>1. PICK i \in 1..2^rounds : Seedings[rounds][i] = c
    BY <1>1, <1>2, <1>3
  <2>2. PICK p \in places, s \in {1, 2} : i = at(p, s)
    <3>1. CASE i % 2 = 1
      <4>1. (i + 1) \div 2 \in places /\ i = at((i + 1) \div 2, 1)
        BY <1>3, <3>1
      <4> QED
        BY <4>1
    <3>2. CASE i % 2 = 0
      <4>1. i \div 2 \in places /\ i = at(i \div 2, 2)
        BY <1>3, <3>2
      <4> QED
        BY <4>1
    <3> QED
      BY <3>1, <3>2
  <2> HIDE DEF at
  <2> QED
    BY <1>4, <2>1, <2>2
<1> QED
  BY <1>5, <1>6

(* The slots of the matches of an elimination.                             *)
LEMMA EliminationSlots ==
  ASSUME NEW n \in Nat, n > 1, NEW phase, NEW group
  PROVE  LET draw == Elimination(n, phase, group)
             rounds == TotalRoundsFor(n)
         IN  /\ \A m : m \in DOMAIN draw <=>
                  \E round \in 1..rounds : \E position \in 1..2^(rounds - round) :
                    m = MatchId(phase, group, round, position)
             /\ \A m \in DOMAIN draw :
                  /\ m.round = 1 =>
                       m.position \in 1..2^(rounds - 1) /\ draw[m] = FirstRound(n, m.position)
                  /\ m.round = 2 => \A s \in {1, 2} :
                       /\ 2 * m.position - 2 + s \in 1..2^(rounds - 1)
                       /\ draw[m][s] = Advanced(FirstRound(n, 2 * m.position - 2 + s))
                  /\ m.round > 2 => draw[m] = Open
<1> DEFINE draw == Elimination(n, phase, group)
           rounds == TotalRoundsFor(n)
<1>1. rounds \in Nat /\ rounds >= 1
  BY RoundsOfBracket
<1>2. \A m : m \in DOMAIN draw <=>
        \E round \in 1..rounds : \E position \in 1..2^(rounds - round) :
          m = MatchId(phase, group, round, position)
  BY DEF Elimination
<1>3. \A m \in DOMAIN draw :
        draw[m] = CASE m.round = 1 -> FirstRound(n, m.position)
                    [] m.round = 2 -> <<Advanced(FirstRound(n, 2 * m.position - 1)),
                                        Advanced(FirstRound(n, 2 * m.position))>>
                    [] OTHER       -> Open
  BY DEF Elimination
<1> HIDE DEF draw, rounds
<1>4. \A m \in DOMAIN draw : m.round \in 1..rounds /\ m.position \in 1..2^(rounds - m.round)
  BY <1>2 DEF MatchId
<1>5. \A m \in DOMAIN draw : m.round = 1 =>
        m.position \in 1..2^(rounds - 1) /\ draw[m] = FirstRound(n, m.position)
  BY <1>3, <1>4
<1>6. ASSUME NEW m \in DOMAIN draw, m.round = 2
      PROVE  \A s \in {1, 2} :
               /\ 2 * m.position - 2 + s \in 1..2^(rounds - 1)
               /\ draw[m][s] = Advanced(FirstRound(n, 2 * m.position - 2 + s))
  <2>1. 2^(rounds - 1) = 2 * 2^(rounds - 2) /\ 2^(rounds - 2) \in Nat
    <3>1. rounds - 1 \in Nat /\ rounds - 1 > 0 /\ rounds - 1 - 1 = rounds - 2 /\ rounds - 2 \in Nat
      BY <1>1, <1>4, <1>6
    <3>2. 2^(rounds - 1) = 2 * 2^(rounds - 1 - 1)
      BY <3>1, PowerStep
    <3> QED
      BY <3>1, <3>2, PowersOfTwo
  <2>2. m.position \in 1..2^(rounds - 2)
    BY <1>4, <1>6
  <2>3. 2 * m.position - 1 \in 1..2^(rounds - 1) /\ 2 * m.position \in 1..2^(rounds - 1)
    BY <2>1, <2>2
  <2>4. 2 * m.position - 2 + 1 = 2 * m.position - 1 /\ 2 * m.position - 2 + 2 = 2 * m.position
    BY <2>2
  <2>5. /\ draw[m][1] = Advanced(FirstRound(n, 2 * m.position - 1))
        /\ draw[m][2] = Advanced(FirstRound(n, 2 * m.position))
    BY <1>3, <1>6
  <2> QED
    BY <2>3, <2>4, <2>5
<1>7. \A m \in DOMAIN draw : m.round > 2 => draw[m] = Open
  BY <1>1, <1>3, <1>4
<1> QED
  BY <1>2, <1>5, <1>6, <1>7 DEF draw, rounds

(* Who is drawn into a match is drawn into the first round, and beyond it  *)
(* only who has no opponent there.                                         *)
LEMMA DrawnFrom ==
  ASSUME NEW n \in Nat, n > 1, NEW phase, NEW group,
         NEW m \in DOMAIN Elimination(n, phase, group), NEW s \in {1, 2}
  PROVE  LET seat == Elimination(n, phase, group)[m][s]
             places == 1..2^(TotalRoundsFor(n) - 1)
         IN  seat # Nobody =>
               /\ seat \in 0..(n - 1)
               /\ \/ m.round = 1 /\ m.position \in places /\ seat = FirstRound(n, m.position)[s]
                  \/ \E p \in places :
                       /\ m.round = 2 /\ p = 2 * m.position - 2 + s
                       /\ seat = FirstRound(n, p)[1] /\ FirstRound(n, p)[2] = Nobody
<1> DEFINE draw == Elimination(n, phase, group)
           places == 1..2^(TotalRoundsFor(n) - 1)
<1>1. /\ \A l \in DOMAIN draw :
           /\ l.round = 1 => l.position \in places /\ draw[l] = FirstRound(n, l.position)
           /\ l.round = 2 => \A t \in {1, 2} :
                /\ 2 * l.position - 2 + t \in places
                /\ draw[l][t] = Advanced(FirstRound(n, 2 * l.position - 2 + t))
           /\ l.round > 2 => draw[l] = Open
  BY EliminationSlots
<1>2. m.round \in Nat /\ m.round >= 1
  <2>1. TotalRoundsFor(n) \in Nat
    BY RoundsOfBracket
  <2>2. \E round \in 1..TotalRoundsFor(n) : \E position \in 1..2^(TotalRoundsFor(n) - round) :
          m = MatchId(phase, group, round, position)
    BY EliminationSlots
  <2> QED
    BY <2>1, <2>2 DEF MatchId
<1>3. m \in DOMAIN draw
  OBVIOUS
<1> HIDE DEF draw, places
<1> SUFFICES ASSUME draw[m][s] # Nobody
             PROVE  /\ draw[m][s] \in 0..(n - 1)
                    /\ \/ m.round = 1 /\ m.position \in places /\ draw[m][s] = FirstRound(n, m.position)[s]
                       \/ \E p \in places :
                            /\ m.round = 2 /\ p = 2 * m.position - 2 + s
                            /\ draw[m][s] = FirstRound(n, p)[1] /\ FirstRound(n, p)[2] = Nobody
  BY DEF draw, places
<1>4. ASSUME NEW p \in places
      PROVE  /\ FirstRound(n, p)[1] \in 0..(n - 1) /\ FirstRound(n, p)[1] # Nobody
             /\ FirstRound(n, p)[2] # Nobody => FirstRound(n, p)[2] \in 0..(n - 1)
  BY <1>4, FirstRoundSlots DEF places, Nobody
<1>5. CASE m.round = 1
  BY <1>1, <1>3, <1>4, <1>5
<1>6. CASE m.round = 2
  <2> DEFINE p == 2 * m.position - 2 + s
  <2>1. p \in places /\ draw[m][s] = Advanced(FirstRound(n, p))
    BY <1>1, <1>3, <1>6
  <2> HIDE DEF p
  <2>2. FirstRound(n, p)[2] = Nobody /\ draw[m][s] = FirstRound(n, p)[1]
    BY <1>4, <2>1 DEF Advanced, IsBye
  <2> QED
    BY <1>4, <1>6, <2>1, <2>2 DEF p
<1>7. CASE m.round > 2
  BY <1>1, <1>3, <1>7 DEF Open
<1> QED
  BY <1>2, <1>5, <1>6, <1>7

(* A bracket of one match has two competitors.                             *)
LEMMA NoByeInFinal ==
  ASSUME NEW n \in Nat, n > 1, TotalRoundsFor(n) = 1, NEW p \in 1..2^(TotalRoundsFor(n) - 1)
  PROVE  FirstRound(n, p)[2] # Nobody
<1> DEFINE total == TotalRoundsFor(n)
<1>1. total = 1 /\ total - 1 = 0 /\ total \in Nat /\ total > 0
  OBVIOUS
<1> HIDE DEF total
<1>2. 2^(total - 1) = 1 /\ 2^total = 2 /\ n <= 2^total
  <2>1. n <= 2^total
    BY RoundsOfBracket DEF total
  <2> QED
    BY <1>1, <2>1, SmallPowers
<1>3. p = 1 /\ n = 2 /\ p \in 1..2^(total - 1)
  BY <1>2 DEF total
<1>4. Seedings[total][2 * p] = 2^total - 1 - Seedings[total - 1][p]
  BY <1>1, <1>3, SeedsOfPair
<1>5. Seedings[total - 1][p] = 0
  BY <1>1, <1>3, SeedingsStep
<1>6. Seedings[total][2 * p] = 1
  BY <1>2, <1>4, <1>5
<1>7. FirstRound(n, p)[2] = Seedings[total][2 * p]
  BY <1>3, <1>6, FirstRoundSlots DEF total
<1> QED
  BY <1>6, <1>7 DEF Nobody
-----------------------------------------------------------------------------
(* The four pools of a grand slam *)

(* A step of the snake.                                                    *)
SnakeStep(n, step, before) ==
  LET group == Visited(step)
  IN  IF Len(before[group]) < PoolSize(n, group) /\ Placed(before) < n
      THEN [before EXCEPT ![group] = Append(@, Placed(before))]
      ELSE before

NoSeeds == [group \in SlamPools |-> <<>>]

(* The snake has a solution, as the seeds have.                            *)
LEMMA SnakeSteps ==
  ASSUME NEW n \in Nat
  PROVE  /\ SnakeAfter(n)[0] = NoSeeds
         /\ \A k \in Nat \ {0} : SnakeAfter(n)[k] = SnakeStep(n, k, SnakeAfter(n)[k - 1])
<1> DEFINE step(f, k) == IF k = 0 THEN NoSeeds ELSE SnakeStep(n, k, f[k - 1])
           IsSnake(f) == f = [k \in Nat |-> step(f, k)]
           Upto(k, f) == f = [j \in 0..k |-> step(f, j)]
<1>1. SnakeAfter(n) = CHOOSE f : IsSnake(f)
  BY DEF SnakeAfter, SnakeStep, NoSeeds
<1>2. ASSUME NEW k \in Nat, NEW f, Upto(k, f), NEW j \in Nat, j <= k
      PROVE  f[j] = step(f, j)
  <2> HIDE DEF step
  <2> QED
    BY <1>2
<1>3. ASSUME NEW k \in Nat, NEW f, Upto(k, f), NEW l \in Nat, NEW g, Upto(l, g)
      PROVE  \A j \in Nat : j <= k /\ j <= l => f[j] = g[j]
  <2> DEFINE differ == {j \in Nat : j <= k /\ j <= l /\ f[j] # g[j]}
  <2> SUFFICES ASSUME differ # {} PROVE FALSE
    OBVIOUS
  <2>1. PICK j \in differ : \A i \in differ : j <= i
    BY LeastNatural
  <2>2. f[j] = step(f, j) /\ g[j] = step(g, j)
    <3> HIDE DEF step, Upto
    <3> QED
      BY <1>2, <1>3
  <2>3. j # 0 => f[j - 1] = g[j - 1]
    <3> SUFFICES ASSUME j # 0 PROVE j - 1 \notin differ /\ j - 1 \in Nat /\ j - 1 <= k /\ j - 1 <= l
      OBVIOUS
    <3> QED
      BY <2>1
  <2>4. step(f, j) = step(g, j)
    BY <2>3
  <2> QED
    BY <2>1, <2>2, <2>4
<1>4. \A k \in Nat : \E f : Upto(k, f)
  <2> DEFINE none == {k \in Nat : ~\E f : Upto(k, f)}
  <2> SUFFICES ASSUME none # {} PROVE FALSE
    OBVIOUS
  <2>1. PICK k \in none : \A l \in none : k <= l
    <3>1. none \subseteq Nat
      OBVIOUS
    <3> HIDE DEF none
    <3> QED
      BY <3>1, LeastNatural
  <2>2. CASE k = 0
    <3>1. Upto(0, [j \in 0..0 |-> NoSeeds])
      OBVIOUS
    <3> HIDE DEF Upto
    <3> QED
      BY <2>1, <2>2, <3>1
  <2>3. CASE k # 0
    <3>1. k - 1 \in Nat /\ k - 1 \notin none
      <4> HIDE DEF Upto
      <4> QED
        BY <2>1, <2>3
    <3>2. PICK f : Upto(k - 1, f)
      BY <3>1
    <3> DEFINE g == [j \in 0..k |-> IF j = k THEN step(f, k) ELSE f[j]]
    <3>3. \A j \in 0..(k - 1) : f[j] = step(f, j)
      <4> HIDE DEF step, Upto
      <4> QED
        BY <1>2, <3>1, <3>2
    <3>4. \A j \in 0..k : j # 0 => g[j - 1] = f[j - 1]
      BY <2>1
    <3>5. \A j \in 0..k : step(g, j) = step(f, j)
      <4> HIDE DEF g
      <4> QED
        BY <3>4
    <3>6. \A j \in 0..k : g[j] = step(g, j)
      <4> SUFFICES ASSUME NEW j \in 0..k PROVE g[j] = step(f, j)
        BY <3>5
      <4> HIDE DEF step
      <4> QED
        BY <2>1, <3>3
    <3>7. Upto(k, g)
      <4>1. g = [j \in 0..k |-> g[j]]
        OBVIOUS
      <4> HIDE DEF g, step
      <4> QED
        BY <3>6, <4>1
    <3> HIDE DEF g, Upto
    <3> QED
      BY <2>1, <3>7
  <2> QED
    BY <2>2, <2>3
<1> DEFINE upto == [k \in Nat |-> CHOOSE f : Upto(k, f)]
           whole == [k \in Nat |-> upto[k][k]]
<1>5. \A k \in Nat : Upto(k, upto[k])
  <2> HIDE DEF Upto
  <2> QED
    BY <1>4
<1>6. \A k \in Nat : whole[k] = step(whole, k)
  <2> SUFFICES ASSUME NEW k \in Nat PROVE whole[k] = step(whole, k)
    OBVIOUS
  <2>1. whole[k] = step(upto[k], k)
    <3> HIDE DEF step, upto, Upto
    <3> QED
      BY <1>2, <1>5
  <2>2. k # 0 => upto[k][k - 1] = whole[k - 1]
    <3> SUFFICES ASSUME k # 0 PROVE upto[k][k - 1] = upto[k - 1][k - 1]
      OBVIOUS
    <3>1. k - 1 \in Nat
      OBVIOUS
    <3> HIDE DEF upto, Upto
    <3> QED
      BY <1>3, <1>5, <3>1
  <2> HIDE DEF upto, whole
  <2>3. step(upto[k], k) = step(whole, k)
    BY <2>2
  <2> QED
    BY <2>1, <2>3
<1>7. IsSnake(whole)
  <2>1. whole = [k \in Nat |-> whole[k]]
    OBVIOUS
  <2> HIDE DEF whole, step
  <2> QED
    BY <1>6, <2>1
<1>8. IsSnake(SnakeAfter(n))
  <2> HIDE DEF IsSnake, whole
  <2> QED
    BY <1>1, <1>7
<1>9. \A k \in Nat : SnakeAfter(n)[k] = step(SnakeAfter(n), k)
  <2> HIDE DEF step
  <2> QED
    BY <1>8
<1> QED
  BY <1>9

(* The larger pools come first.                                           *)
PlaceOf(group) == CASE group = "A" -> 1 [] group = "B" -> 2 [] group = "C" -> 3 [] OTHER -> 4

LEMMA SizeOfPool ==
  ASSUME NEW n \in Nat, NEW group \in SlamPools
  PROVE  /\ PlaceOf(group) \in 1..4
         /\ PoolSize(n, group) = n \div 4 + (IF PlaceOf(group) <= n % 4 THEN 1 ELSE 0)
<1> DEFINE letter(i) == PoolLetters[i]
           place == CHOOSE i \in 1..4 : PoolLetters[i] = group
<1>1. letter(1) = "A" /\ letter(2) = "B" /\ letter(3) = "C" /\ letter(4) = "D"
  BY DEF PoolLetters
<1>2. PlaceOf(group) \in 1..4 /\ \A i \in 1..4 : PoolLetters[i] = group <=> i = PlaceOf(group)
  <2> HIDE DEF letter
  <2>1. \A i \in 1..4 : i = 1 \/ i = 2 \/ i = 3 \/ i = 4
    OBVIOUS
  <2>2. \A i \in 1..4 : PoolLetters[i] = letter(i)
    BY DEF letter
  <2>3. group = "A" \/ group = "B" \/ group = "C" \/ group = "D"
    BY DEF SlamPools
  <2> QED
    BY <1>1, <2>1, <2>2, <2>3 DEF PlaceOf
<1>3. place = PlaceOf(group)
  BY <1>2
<1>4. PoolSize(n, group) = DistributePoolSizes(n)[place]
  BY DEF PoolSize
<1> HIDE DEF place
<1>5. \A i \in 1..4 : DistributePoolSizes(n)[i] = n \div 4 + (IF i <= n % 4 THEN 1 ELSE 0)
  BY DEF DistributePoolSizes
<1> QED
  BY <1>2, <1>3, <1>4, <1>5

(* The sizes of the pools add up to the category.                          *)
LEMMA PoolSizes ==
  ASSUME NEW n \in Nat
  PROVE  LET size(group) == PoolSize(n, group)
         IN  /\ \A group \in SlamPools : size(group) \in n \div 4 .. (n \div 4 + 1)
             /\ n \div 4 \in Nat /\ n >= 16 => n \div 4 >= 4
             /\ size("A") >= size("B") /\ size("B") >= size("C") /\ size("C") >= size("D")
             /\ size("A") + size("B") + size("C") + size("D") = n
<1>1. n % 4 \in 0..3 /\ n = 4 * (n \div 4) + (n % 4) /\ n \div 4 \in Nat
  OBVIOUS
<1>2. \A group \in SlamPools : PoolSize(n, group) = n \div 4 + (IF PlaceOf(group) <= n % 4 THEN 1 ELSE 0)
  BY SizeOfPool
<1>3. /\ PoolSize(n, "A") = n \div 4 + (IF 1 <= n % 4 THEN 1 ELSE 0)
      /\ PoolSize(n, "B") = n \div 4 + (IF 2 <= n % 4 THEN 1 ELSE 0)
      /\ PoolSize(n, "C") = n \div 4 + (IF 3 <= n % 4 THEN 1 ELSE 0)
      /\ PoolSize(n, "D") = n \div 4
  BY <1>1, <1>2 DEF SlamPools, PlaceOf
<1> QED
  BY <1>1, <1>3 DEF SlamPools

(* A pass comes to every pool once, every other time from the last one.    *)
LEMMA PassIsRound ==
  ASSUME NEW p \in Nat
  PROVE  IF p % 2 = 0
         THEN /\ Visited(4 * p + 1) = "A" /\ Visited(4 * p + 2) = "B"
              /\ Visited(4 * p + 3) = "C" /\ Visited(4 * p + 4) = "D"
         ELSE /\ Visited(4 * p + 1) = "D" /\ Visited(4 * p + 2) = "C"
              /\ Visited(4 * p + 3) = "B" /\ Visited(4 * p + 4) = "A"
<1>1. \A i \in 1..4 : (4 * p + i + 3) \div 4 = p + 1 /\ (((4 * p + i) - 1) % 4) + 1 = i
  <2> SUFFICES ASSUME NEW i \in 1..4
               PROVE  (4 * p + i + 3) \div 4 = p + 1 /\ (((4 * p + i) - 1) % 4) + 1 = i
    OBVIOUS
  <2>1. i = 1 \/ i = 2 \/ i = 3 \/ i = 4
    OBVIOUS
  <2> QED
    BY <2>1
<1>2. \A i \in 1..4 : Visited(4 * p + i) = PassOrder(p + 1)[i]
  BY <1>1 DEF Visited
<1>3. IF p % 2 = 0 THEN \A i \in 1..4 : PassOrder(p + 1)[i] = PoolLetters[i]
                   ELSE \A i \in 1..4 : PassOrder(p + 1)[i] = PoolLetters[5 - i]
  <2>1. p % 2 = 0 <=> (p + 1) % 2 = 1
    OBVIOUS
  <2> QED
    BY <2>1 DEF PassOrder
<1>4. PoolLetters[1] = "A" /\ PoolLetters[2] = "B" /\ PoolLetters[3] = "C" /\ PoolLetters[4] = "D"
  BY DEF PoolLetters
<1>5. 5 - 1 = 4 /\ 5 - 2 = 3 /\ 5 - 3 = 2 /\ 5 - 4 = 1
  OBVIOUS
<1> QED
  BY <1>2, <1>3, <1>4, <1>5

(* Who has been placed, is in one pool, and the best are placed first.     *)
SeedsPlaced(n, pools) ==
  /\ pools \in [SlamPools -> Seq(Nat)]
  /\ \A group \in SlamPools : Len(pools[group]) <= PoolSize(n, group)
  /\ \A group \in SlamPools : \A i \in 1..Len(pools[group]) : pools[group][i] < Placed(pools)
  /\ \A group, other \in SlamPools :
       \A i \in 1..Len(pools[group]), j \in 1..Len(pools[other]) :
         pools[group][i] = pools[other][j] => group = other /\ i = j
  /\ \A seed \in Nat : seed < Placed(pools) =>
       \E group \in SlamPools : \E i \in 1..Len(pools[group]) : pools[group][i] = seed

LEMMA SeedsStayPlaced ==
  ASSUME NEW n \in Nat, NEW pools, SeedsPlaced(n, pools), NEW k, Visited(k) \in SlamPools
  PROVE  LET after == SnakeStep(n, k, pools)
         IN  /\ SeedsPlaced(n, after)
             /\ \A group \in SlamPools :
                  Len(after[group]) =
                    IF group = Visited(k) /\ Len(pools[group]) < PoolSize(n, group)
                    THEN Len(pools[group]) + 1 ELSE Len(pools[group])
<1> DEFINE after == SnakeStep(n, k, pools)
           v == Visited(k)
           total == Placed(pools)
<1>1. /\ pools \in [SlamPools -> Seq(Nat)]
      /\ \A group \in SlamPools : Len(pools[group]) \in Nat /\ Len(pools[group]) <= PoolSize(n, group)
      /\ v \in SlamPools
  BY DEF SeedsPlaced
<1>2. "A" \in SlamPools /\ "B" \in SlamPools /\ "C" \in SlamPools /\ "D" \in SlamPools
      /\ \A g \in SlamPools : g = "A" \/ g = "B" \/ g = "C" \/ g = "D"
  BY DEF SlamPools
<1>3. /\ \A group \in SlamPools : PoolSize(n, group) \in Nat
      /\ PoolSize(n, "A") + PoolSize(n, "B") + PoolSize(n, "C") + PoolSize(n, "D") = n
  BY PoolSizes
<1>4. total \in Nat
  BY <1>1, <1>2 DEF Placed
<1>5. CASE ~(Len(pools[v]) < PoolSize(n, v))
  BY <1>5 DEF SnakeStep
<1>6. CASE Len(pools[v]) < PoolSize(n, v)
  <2>1. total < n
    <3> DEFINE len(group) == Len(pools[group])
    <3>1. \A group \in SlamPools : len(group) \in Nat /\ len(group) <= PoolSize(n, group)
      BY <1>1
    <3>2. total = len("A") + len("B") + len("C") + len("D")
      BY DEF Placed
    <3>3. len(v) < PoolSize(n, v) /\ v \in SlamPools
      BY <1>1, <1>6
    <3> HIDE DEF len, total, v
    <3> QED
      BY <1>2, <1>3, <3>1, <3>2, <3>3
  <2>2. after = [pools EXCEPT ![v] = Append(pools[v], total)]
    BY <1>6, <2>1 DEF SnakeStep
  <2>3. /\ after \in [SlamPools -> Seq(Nat)]
        /\ Len(after[v]) = Len(pools[v]) + 1
        /\ \A i \in 1..Len(after[v]) : after[v][i] = IF i = Len(pools[v]) + 1 THEN total ELSE pools[v][i]
        /\ \A group \in SlamPools : group # v => after[group] = pools[group]
    BY <1>1, <1>4, <2>2
  <2> HIDE DEF after
  <2>4. Placed(after) = total + 1
    <3>1. \A group \in SlamPools : Len(after[group]) = IF group = v THEN Len(pools[group]) + 1 ELSE Len(pools[group])
      BY <2>3
    <3> DEFINE len(group) == Len(pools[group])
    <3>2. \A group \in SlamPools : Len(after[group]) = IF group = v THEN len(group) + 1 ELSE len(group)
      BY <3>1
    <3>3. \A group \in SlamPools : len(group) \in Nat
      BY <1>1
    <3>4. /\ Placed(after) = Len(after["A"]) + Len(after["B"]) + Len(after["C"]) + Len(after["D"])
          /\ total = len("A") + len("B") + len("C") + len("D")
      BY DEF Placed
    <3>5. v \in SlamPools
      BY <1>1
    <3> HIDE DEF len, total, v
    <3>6. /\ Len(after["A"]) = IF v = "A" THEN len("A") + 1 ELSE len("A")
          /\ Len(after["B"]) = IF v = "B" THEN len("B") + 1 ELSE len("B")
          /\ Len(after["C"]) = IF v = "C" THEN len("C") + 1 ELSE len("C")
          /\ Len(after["D"]) = IF v = "D" THEN len("D") + 1 ELSE len("D")
      BY <1>2, <3>2
    <3>7. len("A") \in Nat /\ len("B") \in Nat /\ len("C") \in Nat /\ len("D") \in Nat
      BY <1>2, <3>3
    <3>8. v = "A" \/ v = "B" \/ v = "C" \/ v = "D"
      BY <1>2, <3>5
    <3>9. \A a, b, c, e \in Nat :
            /\ (a + 1) + b + c + e = (a + b + c + e) + 1 /\ a + (b + 1) + c + e = (a + b + c + e) + 1
            /\ a + b + (c + 1) + e = (a + b + c + e) + 1 /\ a + b + c + (e + 1) = (a + b + c + e) + 1
      OBVIOUS
    <3>10. CASE v = "A"
      BY <3>4, <3>6, <3>7, <3>9, <3>10
    <3>11. CASE v = "B"
      BY <3>4, <3>6, <3>7, <3>9, <3>11
    <3>12. CASE v = "C"
      BY <3>4, <3>6, <3>7, <3>9, <3>12
    <3>13. CASE v = "D"
      BY <3>4, <3>6, <3>7, <3>9, <3>13
    <3> QED
      BY <3>8, <3>10, <3>11, <3>12, <3>13
  <2> HIDE DEF total, v
  <2>5. \A group \in SlamPools, i \in Nat : i \in 1..Len(after[group]) =>
          \/ group = v /\ i = Len(pools[v]) + 1 /\ after[group][i] = total
          \/ i \in 1..Len(pools[group]) /\ after[group][i] = pools[group][i]
    BY <1>1, <2>3
  <2>6. \A group \in SlamPools : \A i \in 1..Len(pools[group]) : pools[group][i] \in Nat /\ pools[group][i] < total
    BY <1>1 DEF SeedsPlaced, total
  <2>7. \A group \in SlamPools : Len(after[group]) <= PoolSize(n, group)
    <3> SUFFICES ASSUME NEW group \in SlamPools PROVE Len(after[group]) <= PoolSize(n, group)
      OBVIOUS
    <3>1. CASE group = v
      BY <1>1, <1>3, <1>6, <2>3, <3>1
    <3>2. CASE group # v
      BY <1>1, <2>3, <3>2
    <3> QED
      BY <3>1, <3>2
  <2>8. \A group \in SlamPools : \A i \in 1..Len(after[group]) : after[group][i] < Placed(after)
    <3>1. \A group \in SlamPools : Len(after[group]) \in Nat
      BY <2>3
    <3> QED
      BY <1>4, <2>4, <2>5, <2>6, <3>1
  <2>9. ASSUME NEW group \in SlamPools, NEW other \in SlamPools,
               NEW i \in 1..Len(after[group]), NEW j \in 1..Len(after[other]),
               after[group][i] = after[other][j]
        PROVE  group = other /\ i = j
    <3>1. i \in Nat /\ j \in Nat
      OBVIOUS
    <3>2. \A x \in Nat : ~(x < x)
      OBVIOUS
    <3>3. \A g, h \in SlamPools : \A k1 \in 1..Len(pools[g]), k2 \in 1..Len(pools[h]) :
            pools[g][k1] = pools[h][k2] => g = h /\ k1 = k2
      BY DEF SeedsPlaced
    <3>4. \/ group = v /\ i = Len(pools[v]) + 1 /\ after[group][i] = total
          \/ i \in 1..Len(pools[group]) /\ after[group][i] = pools[group][i]
      BY <2>5, <3>1
    <3>5. \/ other = v /\ j = Len(pools[v]) + 1 /\ after[other][j] = total
          \/ j \in 1..Len(pools[other]) /\ after[other][j] = pools[other][j]
      BY <2>5, <3>1
    <3>6. \A g \in SlamPools : \A l \in 1..Len(pools[g]) : pools[g][l] # total
      BY <1>4, <2>6
    <3> QED
      BY <2>9, <3>3, <3>4, <3>5, <3>6
  <2>10. ASSUME NEW seed \in Nat, seed < Placed(after)
         PROVE  \E group \in SlamPools : \E i \in 1..Len(after[group]) : after[group][i] = seed
    <3>1. CASE seed = total
      <4>1. Len(after[v]) \in 1..Len(after[v]) /\ after[v][Len(after[v])] = seed
        BY <1>1, <2>3, <3>1
      <4> QED
        BY <1>1, <4>1
    <3>2. CASE seed # total
      <4>1. seed < total
        BY <1>4, <2>4, <2>10, <3>2
      <4>2. PICK group \in SlamPools : \E i \in 1..Len(pools[group]) : pools[group][i] = seed
        BY <4>1 DEF SeedsPlaced, total
      <4>3. PICK i \in 1..Len(pools[group]) : pools[group][i] = seed
        BY <4>2
      <4>4. i \in 1..Len(after[group]) /\ after[group][i] = pools[group][i]
        <5>1. CASE group = v
          <6>1. Len(pools[v]) \in Nat /\ i \in 1..Len(pools[v])
            BY <1>1, <5>1
          <6>2. i \in 1..(Len(pools[v]) + 1) /\ i # Len(pools[v]) + 1
            BY <6>1
          <6> QED
            BY <2>3, <5>1, <6>2
        <5>2. CASE group # v
          BY <2>3, <5>2
        <5> QED
          BY <5>1, <5>2
      <4> QED
        BY <4>3, <4>4
    <3> QED
      BY <3>1, <3>2
  <2>11. SeedsPlaced(n, after)
    BY <2>3, <2>7, <2>8, <2>9, <2>10 DEF SeedsPlaced
  <2> QED
    BY <1>6, <2>3, <2>11 DEF after, v
<1> QED
  BY <1>5, <1>6


(* After a pass every pool has one more, as long as it has room.           *)
LEMMA PassesFillPools ==
  ASSUME NEW n \in Nat, NEW p \in Nat
  PROVE  LET pools == SnakeAfter(n)[4 * p]
         IN  /\ SeedsPlaced(n, pools)
             /\ \A group \in SlamPools :
                  Len(pools[group]) = IF p <= PoolSize(n, group) THEN p ELSE PoolSize(n, group)
<1> DEFINE Filled(q) ==
             /\ SeedsPlaced(n, SnakeAfter(n)[4 * q])
             /\ \A group \in SlamPools :
                  Len(SnakeAfter(n)[4 * q][group]) = IF q <= PoolSize(n, group) THEN q ELSE PoolSize(n, group)
           fails == {q \in Nat : ~Filled(q)}
<1>1. /\ \A group \in SlamPools : PoolSize(n, group) \in Nat
      /\ "A" \in SlamPools /\ "B" \in SlamPools /\ "C" \in SlamPools /\ "D" \in SlamPools
      /\ \A g \in SlamPools : g = "A" \/ g = "B" \/ g = "C" \/ g = "D"
  BY PoolSizes DEF SlamPools
<1>2. Filled(0)
  <2>1. SnakeAfter(n)[0] = NoSeeds /\ 4 * 0 = 0
    BY SnakeSteps
  <2>2. \A group \in SlamPools : NoSeeds[group] = <<>> /\ Len(NoSeeds[group]) = 0
    BY DEF NoSeeds
  <2>3. SeedsPlaced(n, NoSeeds)
    <3>1. NoSeeds \in [SlamPools -> Seq(Nat)]
      BY DEF NoSeeds
    <3>2. Placed(NoSeeds) = 0
      <4>1. /\ Len(NoSeeds["A"]) = 0 /\ Len(NoSeeds["B"]) = 0
            /\ Len(NoSeeds["C"]) = 0 /\ Len(NoSeeds["D"]) = 0
        BY <1>1, <2>2
      <4> QED
        BY <4>1 DEF Placed
    <3> QED
      BY <1>1, <2>2, <3>1, <3>2 DEF SeedsPlaced
  <2>4. \A group \in SlamPools : Len(NoSeeds[group]) = IF 0 <= PoolSize(n, group) THEN 0 ELSE PoolSize(n, group)
    BY <1>1, <2>2
  <2> QED
    BY <2>1, <2>3, <2>4
<1>3. ASSUME NEW q \in Nat, Filled(q)
      PROVE  Filled(q + 1)
  <2> DEFINE k == 4 * q
             at(i) == SnakeAfter(n)[k + i]
             v(i) == Visited(k + i)
  <2>1. k \in Nat /\ 4 * (q + 1) = k + 4 /\ at(0) = SnakeAfter(n)[k]
    OBVIOUS
  <2>2. \/ v(1) = "A" /\ v(2) = "B" /\ v(3) = "C" /\ v(4) = "D"
        \/ v(1) = "D" /\ v(2) = "C" /\ v(3) = "B" /\ v(4) = "A"
    BY PassIsRound
  <2>3. \A i \in 1..4 : at(i) = SnakeStep(n, k + i, at(i - 1))
    <3> SUFFICES ASSUME NEW i \in 1..4 PROVE at(i) = SnakeStep(n, k + i, at(i - 1))
      OBVIOUS
    <3>1. k + i \in Nat \ {0} /\ (k + i) - 1 = k + (i - 1)
      OBVIOUS
    <3> HIDE DEF k
    <3> QED
      BY <3>1, SnakeSteps
  <2>4. \A i \in 1..4 : Visited(k + i) = v(i)
    OBVIOUS
  <2>5. SeedsPlaced(n, at(0)) /\ \A group \in SlamPools :
          Len(at(0)[group]) = IF q <= PoolSize(n, group) THEN q ELSE PoolSize(n, group)
    BY <1>3, <2>1
  <2> HIDE DEF k, at, v
  <2>6. \A i \in 1..4 : v(i) \in SlamPools
    <3>1. \A i \in 1..4 : i = 1 \/ i = 2 \/ i = 3 \/ i = 4
      OBVIOUS
    <3> QED
      BY <1>1, <2>2, <3>1
  <2>7. ASSUME NEW i \in 1..4, SeedsPlaced(n, at(i - 1))
        PROVE  /\ SeedsPlaced(n, at(i))
               /\ \A group \in SlamPools :
                    Len(at(i)[group]) =
                      IF group = v(i) /\ Len(at(i - 1)[group]) < PoolSize(n, group)
                      THEN Len(at(i - 1)[group]) + 1 ELSE Len(at(i - 1)[group])
    BY <2>3, <2>4, <2>6, <2>7, SeedsStayPlaced
  <2>8. /\ 1 \in 1..4 /\ 2 \in 1..4 /\ 3 \in 1..4 /\ 4 \in 1..4
        /\ 1 - 1 = 0 /\ 2 - 1 = 1 /\ 3 - 1 = 2 /\ 4 - 1 = 3
    OBVIOUS
  <2>9. SeedsPlaced(n, at(1)) /\ SeedsPlaced(n, at(2)) /\ SeedsPlaced(n, at(3)) /\ SeedsPlaced(n, at(4))
    <3>1. SeedsPlaced(n, at(1))
      BY <2>5, <2>7, <2>8
    <3>2. SeedsPlaced(n, at(2))
      BY <2>7, <2>8, <3>1
    <3>3. SeedsPlaced(n, at(3))
      BY <2>7, <2>8, <3>2
    <3> QED
      BY <2>7, <2>8, <3>1, <3>2, <3>3
  <2>10. ASSUME NEW group \in SlamPools
         PROVE  Len(at(4)[group]) = IF q + 1 <= PoolSize(n, group) THEN q + 1 ELSE PoolSize(n, group)
    <3> DEFINE len(i) == Len(at(i)[group])
               size == PoolSize(n, group)
               Next(i) == len(i) = IF group = v(i) /\ len(i - 1) < size THEN len(i - 1) + 1 ELSE len(i - 1)
    <3>1. Next(1) /\ Next(2) /\ Next(3) /\ Next(4)
      BY <2>5, <2>7, <2>8, <2>9
    <3>2. size \in Nat /\ len(0) = IF q <= size THEN q ELSE size
      BY <1>1, <2>5
    <3>3. group = "A" \/ group = "B" \/ group = "C" \/ group = "D"
      BY <1>1
    <3>4. \/ group = v(1) /\ group # v(2) /\ group # v(3) /\ group # v(4)
          \/ group # v(1) /\ group = v(2) /\ group # v(3) /\ group # v(4)
          \/ group # v(1) /\ group # v(2) /\ group = v(3) /\ group # v(4)
          \/ group # v(1) /\ group # v(2) /\ group # v(3) /\ group = v(4)
      BY <2>2, <3>3
    <3> HIDE DEF len, size
    <3>5. len(4) = IF len(0) < size THEN len(0) + 1 ELSE len(0)
      BY <2>8, <3>1, <3>4
    <3> QED
      BY <3>2, <3>5 DEF len, size
  <2> QED
    BY <2>1, <2>9, <2>10 DEF at
<1>4. fails = {}
  <2> SUFFICES ASSUME fails # {} PROVE FALSE
    OBVIOUS
  <2> HIDE DEF Filled
  <2>1. PICK q \in fails : \A l \in fails : q <= l
    <3>1. fails \subseteq Nat
      OBVIOUS
    <3> HIDE DEF fails
    <3> QED
      BY <3>1, LeastNatural
  <2>2. q # 0
    BY <1>2
  <2>3. q - 1 \in Nat /\ Filled(q - 1) /\ (q - 1) + 1 = q
    BY <2>1, <2>2
  <2>4. Filled(q)
    BY <1>3, <2>3
  <2> QED
    BY <2>4
<1>5. Filled(p)
  BY <1>4
<1> QED
  BY <1>5

(* The four pools are drawn from the category: each seed into one of them. *)
LEMMA SlamMembers ==
  ASSUME NEW n \in Nat
  PROVE  /\ \A group \in SlamPools : \A i \in 1..PoolSize(n, group) : PoolMembers(n, group)[i] \in 0..(n - 1)
         /\ \A group, other \in SlamPools :
              \A i \in 1..PoolSize(n, group), j \in 1..PoolSize(n, other) :
                PoolMembers(n, group)[i] = PoolMembers(n, other)[j] => group = other /\ i = j
         /\ \A seed \in 0..(n - 1) : \E group \in SlamPools : \E i \in 1..PoolSize(n, group) :
              PoolMembers(n, group)[i] = seed
<1> DEFINE pools == SnakeAfter(n)[4 * PoolSize(n, "A")]
<1>1. /\ \A group \in SlamPools : PoolSize(n, group) \in Nat /\ PoolSize(n, group) <= PoolSize(n, "A")
      /\ PoolSize(n, "A") + PoolSize(n, "B") + PoolSize(n, "C") + PoolSize(n, "D") = n
      /\ "A" \in SlamPools /\ "B" \in SlamPools /\ "C" \in SlamPools /\ "D" \in SlamPools
  <2>1. \A g \in SlamPools : g = "A" \/ g = "B" \/ g = "C" \/ g = "D"
    BY DEF SlamPools
  <2>2. "A" \in SlamPools /\ "B" \in SlamPools /\ "C" \in SlamPools /\ "D" \in SlamPools
    BY DEF SlamPools
  <2>3. \A g \in SlamPools : PoolSize(n, g) \in Nat
    BY PoolSizes
  <2>4. /\ PoolSize(n, "A") >= PoolSize(n, "B") /\ PoolSize(n, "B") >= PoolSize(n, "C")
        /\ PoolSize(n, "C") >= PoolSize(n, "D")
        /\ PoolSize(n, "A") + PoolSize(n, "B") + PoolSize(n, "C") + PoolSize(n, "D") = n
    BY PoolSizes
  <2> QED
    BY <2>1, <2>2, <2>3, <2>4
<1>2. /\ SeedsPlaced(n, pools)
      /\ \A group \in SlamPools :
           Len(pools[group]) = IF PoolSize(n, "A") <= PoolSize(n, group) THEN PoolSize(n, "A") ELSE PoolSize(n, group)
  BY <1>1, PassesFillPools
<1> HIDE DEF pools
<1>3. \A group \in SlamPools : Len(pools[group]) = PoolSize(n, group) /\ pools[group] \in Seq(Nat)
  BY <1>1, <1>2 DEF SeedsPlaced
<1>4. Placed(pools) = n
  BY <1>1, <1>3 DEF Placed
<1>5. \A group : PoolMembers(n, group) = pools[group]
  BY DEF PoolMembers, SnakeAssignToPools, pools
<1>6. \A group \in SlamPools : \A i \in 1..PoolSize(n, group) : pools[group][i] \in Nat /\ pools[group][i] < n
  <2>1. \A group \in SlamPools : \A i \in 1..Len(pools[group]) : pools[group][i] < Placed(pools)
    BY <1>2 DEF SeedsPlaced
  <2> QED
    BY <1>1, <1>3, <1>4, <2>1
<1>7. ASSUME NEW seed \in 0..(n - 1)
      PROVE  \E group \in SlamPools : \E i \in 1..PoolSize(n, group) : PoolMembers(n, group)[i] = seed
  <2>1. seed \in Nat /\ seed < Placed(pools)
    BY <1>4
  <2> QED
    BY <1>2, <1>3, <1>5, <2>1 DEF SeedsPlaced
<1>8. ASSUME NEW group \in SlamPools, NEW other \in SlamPools,
             NEW i \in 1..PoolSize(n, group), NEW j \in 1..PoolSize(n, other),
             PoolMembers(n, group)[i] = PoolMembers(n, other)[j]
      PROVE  group = other /\ i = j
  <2>1. /\ i \in 1..Len(pools[group]) /\ j \in 1..Len(pools[other])
        /\ pools[group][i] = pools[other][j]
    BY <1>3, <1>5, <1>8
  <2> QED
    BY <1>2, <2>1 DEF SeedsPlaced
<1>9. \A group \in SlamPools : \A i \in 1..PoolSize(n, group) : PoolMembers(n, group)[i] \in 0..(n - 1)
  BY <1>5, <1>6
<1> QED
  BY <1>7, <1>8, <1>9

(* The number of pools that have an i-th place, and the seed in it: passes *)
(* go through these pools forwards and backwards in turn.                  *)
PoolsWith(n, i) == IF i <= n \div 4 THEN 4 ELSE n % 4

SnakeSeed(n, group, i) ==
  4 * (i - 1) + (IF i % 2 = 1 THEN PlaceOf(group) - 1 ELSE PoolsWith(n, i) - PlaceOf(group))

SnakeSeeds(n, pools) ==
  \A group \in SlamPools : \A i \in 1..Len(pools[group]) : pools[group][i] = SnakeSeed(n, group, i)

(* What a step puts where.                                                 *)
LEMMA StepPuts ==
  ASSUME NEW n \in Nat, NEW pools, SeedsPlaced(n, pools), NEW k, Visited(k) \in SlamPools
  PROVE  LET after == SnakeStep(n, k, pools)
             v == Visited(k)
             put == Len(pools[v]) < PoolSize(n, v)
         IN  /\ Placed(after) = IF put THEN Placed(pools) + 1 ELSE Placed(pools)
             /\ \A group \in SlamPools : \A i \in 1..Len(after[group]) :
                  after[group][i] = IF put /\ group = v /\ i = Len(pools[v]) + 1
                                    THEN Placed(pools) ELSE pools[group][i]
<1> DEFINE after == SnakeStep(n, k, pools)
           v == Visited(k)
           total == Placed(pools)
           len(group) == Len(pools[group])
<1>1. /\ pools \in [SlamPools -> Seq(Nat)]
      /\ \A group \in SlamPools : len(group) \in Nat /\ len(group) <= PoolSize(n, group)
      /\ v \in SlamPools
  BY DEF SeedsPlaced
<1>2. "A" \in SlamPools /\ "B" \in SlamPools /\ "C" \in SlamPools /\ "D" \in SlamPools
      /\ \A g \in SlamPools : g = "A" \/ g = "B" \/ g = "C" \/ g = "D"
  BY DEF SlamPools
<1>3. total = len("A") + len("B") + len("C") + len("D") /\ total \in Nat
  BY <1>1, <1>2 DEF Placed
<1>4. CASE ~(len(v) < PoolSize(n, v))
  BY <1>4 DEF SnakeStep
<1>5. CASE len(v) < PoolSize(n, v)
  <2>1. total < n
    <3>1. /\ \A group \in SlamPools : PoolSize(n, group) \in Nat
          /\ PoolSize(n, "A") + PoolSize(n, "B") + PoolSize(n, "C") + PoolSize(n, "D") = n
      BY PoolSizes
    <3>2. \A group \in SlamPools : len(group) \in Nat /\ len(group) <= PoolSize(n, group)
      BY <1>1
    <3>3. len(v) < PoolSize(n, v) /\ v \in SlamPools
      BY <1>1, <1>5
    <3> HIDE DEF len, total, v
    <3> QED
      BY <1>2, <1>3, <3>1, <3>2, <3>3
  <2>2. after = [pools EXCEPT ![v] = Append(pools[v], total)]
    BY <1>5, <2>1 DEF SnakeStep
  <2>3. /\ Len(after[v]) = len(v) + 1
        /\ \A i \in 1..Len(after[v]) : after[v][i] = IF i = len(v) + 1 THEN total ELSE pools[v][i]
        /\ \A group \in SlamPools : group # v => after[group] = pools[group] /\ Len(after[group]) = len(group)
    <3>1. pools \in [SlamPools -> Seq(Nat)] /\ v \in SlamPools /\ total \in Nat
      BY <1>1, <1>3
    <3> HIDE DEF total, v
    <3>2. after[v] = Append(pools[v], total) /\ \A group \in SlamPools : group # v => after[group] = pools[group]
      BY <2>2, <3>1
    <3> HIDE DEF after
    <3> QED
      BY <3>1, <3>2
  <2>4. Placed(after) = Len(after["A"]) + Len(after["B"]) + Len(after["C"]) + Len(after["D"])
    BY DEF Placed
  <2> HIDE DEF after, total, len, v
  <2>5. Placed(after) = total + 1
    <3>1. v = "A" \/ v = "B" \/ v = "C" \/ v = "D"
      BY <1>1, <1>2
    <3>2. len("A") \in Nat /\ len("B") \in Nat /\ len("C") \in Nat /\ len("D") \in Nat
      BY <1>1, <1>2
    <3>7. /\ Len(after["A"]) = IF v = "A" THEN len("A") + 1 ELSE len("A")
          /\ Len(after["B"]) = IF v = "B" THEN len("B") + 1 ELSE len("B")
          /\ Len(after["C"]) = IF v = "C" THEN len("C") + 1 ELSE len("C")
          /\ Len(after["D"]) = IF v = "D" THEN len("D") + 1 ELSE len("D")
      BY <1>2, <2>3
    <3>3. CASE v = "A"
      BY <1>3, <2>4, <3>2, <3>3, <3>7
    <3>4. CASE v = "B"
      BY <1>3, <2>4, <3>2, <3>4, <3>7
    <3>5. CASE v = "C"
      BY <1>3, <2>4, <3>2, <3>5, <3>7
    <3>6. CASE v = "D"
      BY <1>3, <2>4, <3>2, <3>6, <3>7
    <3> QED
      BY <3>1, <3>3, <3>4, <3>5, <3>6
  <2>6. \A group \in SlamPools : \A i \in 1..Len(after[group]) :
          after[group][i] = IF group = v /\ i = len(v) + 1 THEN total ELSE pools[group][i]
    BY <2>3
  <2> QED
    BY <1>5, <2>5, <2>6 DEF after, total, len, v
<1> QED
  BY <1>4, <1>5

(* Where a pool has room, all pools have been filled alike.                *)
LEMMA RoomInPass ==
  ASSUME NEW n \in Nat, NEW q \in Nat
  PROVE  LET pools == SnakeAfter(n)[4 * q]
         IN  /\ \A group \in SlamPools :
                  /\ Len(pools[group]) < PoolSize(n, group) <=> PlaceOf(group) <= PoolsWith(n, q + 1) /\ q <= n \div 4
                  /\ Len(pools[group]) < PoolSize(n, group) => Len(pools[group]) = q
             /\ q <= n \div 4 => Placed(pools) = 4 * q
<1> DEFINE len(group) == Len(SnakeAfter(n)[4 * q][group])
<1>1. \A group \in SlamPools : len(group) = IF q <= PoolSize(n, group) THEN q ELSE PoolSize(n, group)
  BY PassesFillPools
<1>2. \A group \in SlamPools :
        /\ PlaceOf(group) \in 1..4
        /\ PoolSize(n, group) = n \div 4 + (IF PlaceOf(group) <= n % 4 THEN 1 ELSE 0)
  BY SizeOfPool
<1>3. n \div 4 \in Nat /\ n % 4 \in 0..3
  OBVIOUS
<1>4. ASSUME NEW group \in SlamPools
      PROVE  /\ len(group) < PoolSize(n, group) <=> PlaceOf(group) <= PoolsWith(n, q + 1) /\ q <= n \div 4
             /\ len(group) < PoolSize(n, group) => len(group) = q
             /\ q <= n \div 4 => len(group) = q
  <2> DEFINE size == PoolSize(n, group)
             p == PlaceOf(group)
             l == len(group)
             d == n \div 4
             r == n % 4
  <2>1. /\ l = IF q <= size THEN q ELSE size
        /\ size = d + (IF p <= r THEN 1 ELSE 0) /\ p \in 1..4 /\ d \in Nat /\ r \in 0..3
        /\ PoolsWith(n, q + 1) = IF q + 1 <= d THEN 4 ELSE r
    BY <1>1, <1>2, <1>3 DEF PoolsWith
  <2> HIDE DEF size, p, l, d, r
  <2>2. /\ l < size <=> p <= PoolsWith(n, q + 1) /\ q <= d
        /\ l < size => l = q
        /\ q <= d => l = q
    BY <2>1
  <2> QED
    BY <2>2 DEF size, p, l, d, r
<1>5. q <= n \div 4 => Placed(SnakeAfter(n)[4 * q]) = 4 * q
  <2> SUFFICES ASSUME q <= n \div 4 PROVE Placed(SnakeAfter(n)[4 * q]) = 4 * q
    OBVIOUS
  <2>1. len("A") = q /\ len("B") = q /\ len("C") = q /\ len("D") = q
    BY <1>4 DEF SlamPools
  <2>2. Placed(SnakeAfter(n)[4 * q]) = len("A") + len("B") + len("C") + len("D")
    BY DEF Placed
  <2> HIDE DEF len
  <2> QED
    BY <2>1, <2>2
<1> QED
  BY <1>4, <1>5

(* A step of a pass puts the next seed into the pool it comes to.          *)
PassUpTo(n, q, i) ==
  LET pools == SnakeAfter(n)[4 * q + i]
      filled == SnakeAfter(n)[4 * q]
      turn(group) == IF q % 2 = 0 THEN PlaceOf(group) ELSE 5 - PlaceOf(group)
      wide == PoolsWith(n, q + 1)
      put == IF q % 2 = 0 THEN (IF i <= wide THEN i ELSE wide)
                          ELSE (IF i <= 4 - wide THEN 0 ELSE i - (4 - wide))
  IN  /\ SeedsPlaced(n, pools)
      /\ \A group \in SlamPools : turn(group) > i => Len(pools[group]) = Len(filled[group])
      /\ q <= n \div 4 => Placed(pools) = 4 * q + put
      /\ SnakeSeeds(n, pools)

LEMMA StepOfPass ==
  ASSUME NEW n \in Nat, NEW q \in Nat, NEW i \in 1..4, PassUpTo(n, q, i - 1)
  PROVE  PassUpTo(n, q, i)
<1> DEFINE before == SnakeAfter(n)[4 * q + (i - 1)]
           after == SnakeAfter(n)[4 * q + i]
           filled == SnakeAfter(n)[4 * q]
           v == Visited(4 * q + i)
           turn(group) == IF q % 2 = 0 THEN PlaceOf(group) ELSE 5 - PlaceOf(group)
           wide == PoolsWith(n, q + 1)
           placed(k) == IF q % 2 = 0 THEN (IF k <= wide THEN k ELSE wide)
                                     ELSE (IF k <= 4 - wide THEN 0 ELSE k - (4 - wide))
           put == Len(before[v]) < PoolSize(n, v)
<1>1. /\ SeedsPlaced(n, before)
      /\ \A group \in SlamPools : turn(group) > i - 1 => Len(before[group]) = Len(filled[group])
      /\ q <= n \div 4 => Placed(before) = 4 * q + placed(i - 1)
      /\ SnakeSeeds(n, before)
  BY DEF PassUpTo
<1>2. v \in SlamPools /\ turn(v) = i /\ \A group \in SlamPools : group # v => turn(group) # i
  <2>1. i = 1 \/ i = 2 \/ i = 3 \/ i = 4
    OBVIOUS
  <2>2. /\ PlaceOf("A") = 1 /\ PlaceOf("B") = 2 /\ PlaceOf("C") = 3 /\ PlaceOf("D") = 4
        /\ "A" \in SlamPools /\ "B" \in SlamPools /\ "C" \in SlamPools /\ "D" \in SlamPools
        /\ \A g \in SlamPools : g = "A" \/ g = "B" \/ g = "C" \/ g = "D"
    BY DEF PlaceOf, SlamPools
  <2>3. CASE q % 2 = 0
    <3>1. v = IF i = 1 THEN "A" ELSE IF i = 2 THEN "B" ELSE IF i = 3 THEN "C" ELSE "D"
      BY <2>1, <2>3, PassIsRound
    <3> QED
      BY <2>1, <2>2, <2>3, <3>1
  <2>4. CASE q % 2 # 0
    <3>1. v = IF i = 1 THEN "D" ELSE IF i = 2 THEN "C" ELSE IF i = 3 THEN "B" ELSE "A"
      BY <2>1, <2>4, PassIsRound
    <3> QED
      BY <2>1, <2>2, <2>4, <3>1
  <2> QED
    BY <2>3, <2>4
<1>3. after = SnakeStep(n, 4 * q + i, before)
  <2>1. 4 * q + i \in Nat \ {0} /\ (4 * q + i) - 1 = 4 * q + (i - 1)
    OBVIOUS
  <2> QED
    BY <2>1, SnakeSteps
<1>4. /\ SeedsPlaced(n, after)
      /\ \A group \in SlamPools :
           Len(after[group]) = IF group = v /\ put THEN Len(before[group]) + 1 ELSE Len(before[group])
      /\ Placed(after) = IF put THEN Placed(before) + 1 ELSE Placed(before)
      /\ \A group \in SlamPools : \A j \in 1..Len(after[group]) :
           after[group][j] = IF put /\ group = v /\ j = Len(before[v]) + 1
                             THEN Placed(before) ELSE before[group][j]
  <2> DEFINE k == 4 * q + i
  <2>1. Visited(k) \in SlamPools /\ after = SnakeStep(n, k, before) /\ v = Visited(k)
    BY <1>2, <1>3
  <2> HIDE DEF k, after, before, v
  <2>2. /\ SeedsPlaced(n, after)
        /\ \A group \in SlamPools :
             Len(after[group]) =
               IF group = v /\ Len(before[group]) < PoolSize(n, group) THEN Len(before[group]) + 1 ELSE Len(before[group])
    BY <1>1, <2>1, SeedsStayPlaced
  <2>3. /\ Placed(after) = IF put THEN Placed(before) + 1 ELSE Placed(before)
        /\ \A group \in SlamPools : \A j \in 1..Len(after[group]) :
             after[group][j] = IF put /\ group = v /\ j = Len(before[v]) + 1
                               THEN Placed(before) ELSE before[group][j]
    BY <1>1, <2>1, StepPuts
  <2> QED
    BY <2>2, <2>3
<1>5. /\ put <=> PlaceOf(v) <= wide /\ q <= n \div 4
      /\ put => Len(before[v]) = q
  <2>1. Len(before[v]) = Len(filled[v])
    BY <1>1, <1>2
  <2> HIDE DEF before, v
  <2> QED
    BY <1>2, <2>1, RoomInPass
<1>6. wide \in 0..4 /\ PlaceOf(v) \in 1..4 /\ PlaceOf(v) = IF q % 2 = 0 THEN i ELSE 5 - i
  <2>1. PlaceOf(v) \in 1..4
    BY <1>2, SizeOfPool
  <2>2. wide \in 0..4
    BY DEF PoolsWith
  <2> HIDE DEF v
  <2> QED
    BY <1>2, <2>1, <2>2
<1> HIDE DEF before, after, filled, v
<1>7. q <= n \div 4 =>
        /\ Placed(after) = 4 * q + placed(i)
        /\ put => Placed(before) = SnakeSeed(n, v, q + 1)
  <2> SUFFICES ASSUME q <= n \div 4
               PROVE  /\ Placed(after) = 4 * q + placed(i)
                      /\ put => Placed(before) = SnakeSeed(n, v, q + 1)
    OBVIOUS
  <2>1. /\ Placed(before) = 4 * q + placed(i - 1)
        /\ Placed(after) = IF put THEN Placed(before) + 1 ELSE Placed(before)
        /\ put <=> PlaceOf(v) <= wide
    BY <1>1, <1>4, <1>5
  <2>2. SnakeSeed(n, v, q + 1) = 4 * q + (IF (q + 1) % 2 = 1 THEN PlaceOf(v) - 1 ELSE wide - PlaceOf(v))
    BY DEF SnakeSeed
  <2>3. (q + 1) % 2 = 1 <=> q % 2 = 0
    OBVIOUS
  <2> HIDE DEF put, wide
  <2>4. CASE q % 2 = 0
    BY <1>6, <2>1, <2>2, <2>3, <2>4
  <2>5. CASE q % 2 # 0
    BY <1>6, <2>1, <2>2, <2>3, <2>5
  <2> QED
    BY <2>4, <2>5
<1>8. \A group \in SlamPools : turn(group) > i => Len(after[group]) = Len(filled[group])
  <2> SUFFICES ASSUME NEW group \in SlamPools, turn(group) > i PROVE Len(after[group]) = Len(filled[group])
    OBVIOUS
  <2>1. PlaceOf(group) \in 1..4
    BY SizeOfPool
  <2>2. turn(group) \in Int /\ turn(group) > i - 1 /\ turn(group) # i
    BY <2>1
  <2> HIDE DEF turn
  <2>3. group # v
    BY <1>2, <2>2
  <2> QED
    BY <1>1, <1>4, <2>2, <2>3
<1>9. SnakeSeeds(n, after)
  <2> SUFFICES ASSUME NEW group \in SlamPools, NEW j \in 1..Len(after[group])
               PROVE  after[group][j] = SnakeSeed(n, group, j)
    BY DEF SnakeSeeds
  <2>1. CASE put /\ group = v /\ j = Len(before[v]) + 1
    BY <1>4, <1>5, <1>7, <2>1
  <2>2. CASE ~(put /\ group = v /\ j = Len(before[v]) + 1)
    <3>1. j \in 1..Len(before[group])
      <4>1. Len(before[group]) \in Nat
        BY <1>1 DEF SeedsPlaced
      <4>2. CASE group = v /\ put
        BY <1>4, <2>2, <4>1, <4>2
      <4>3. CASE ~(group = v /\ put)
        BY <1>4, <4>3
      <4> QED
        BY <4>2, <4>3
    <3>2. after[group][j] = before[group][j]
      BY <1>4, <2>2
    <3> QED
      BY <1>1, <3>1, <3>2 DEF SnakeSeeds
  <2> QED
    BY <2>1, <2>2
<1>10. SeedsPlaced(n, after)
  BY <1>4
<1> QED
  BY <1>7, <1>8, <1>9, <1>10 DEF PassUpTo, after, filled

(* So all the passes put every seed where SnakeSeed says.                  *)
LEMMA PassesPutSeeds ==
  ASSUME NEW n \in Nat, NEW q \in Nat
  PROVE  SnakeSeeds(n, SnakeAfter(n)[4 * q])
<1> DEFINE fails == {k \in Nat : ~SnakeSeeds(n, SnakeAfter(n)[4 * k])}
<1> SUFFICES ASSUME fails # {} PROVE FALSE
  OBVIOUS
<1>1. PICK l \in fails : \A k \in fails : l <= k
  <2>1. fails \subseteq Nat
    OBVIOUS
  <2> HIDE DEF fails
  <2> QED
    BY <2>1, LeastNatural
<1>2. SnakeSeeds(n, SnakeAfter(n)[4 * 0])
  <2>1. SnakeAfter(n)[4 * 0] = NoSeeds
    BY SnakeSteps
  <2>2. \A group \in SlamPools : Len(NoSeeds[group]) = 0
    BY DEF NoSeeds
  <2> QED
    BY <2>1, <2>2 DEF SnakeSeeds
<1>3. l # 0
  BY <1>2
<1> DEFINE k == l - 1
<1>4. k \in Nat /\ l = k + 1 /\ 4 * l = 4 * k + 4 /\ SnakeSeeds(n, SnakeAfter(n)[4 * k])
  BY <1>1, <1>3
<1> HIDE DEF k
<1>5. PassUpTo(n, k, 0)
  <2>1. SnakeAfter(n)[4 * k + 0] = SnakeAfter(n)[4 * k]
    BY <1>4
  <2>2. SeedsPlaced(n, SnakeAfter(n)[4 * k])
    BY <1>4, PassesFillPools
  <2>3. k <= n \div 4 => Placed(SnakeAfter(n)[4 * k]) = 4 * k
    BY <1>4, RoomInPass
  <2>4. PoolsWith(n, k + 1) \in 0..4
    BY <1>4 DEF PoolsWith
  <2> QED
    BY <1>4, <2>1, <2>2, <2>3, <2>4 DEF PassUpTo
<1>6. PassUpTo(n, k, 4)
  <2>1. 1 - 1 = 0 /\ 2 - 1 = 1 /\ 3 - 1 = 2 /\ 4 - 1 = 3
    OBVIOUS
  <2>2. \A i \in 1..4 : PassUpTo(n, k, i - 1) => PassUpTo(n, k, i)
    BY <1>4, StepOfPass
  <2>3. PassUpTo(n, k, 1)
    BY <1>5, <2>1, <2>2
  <2>4. PassUpTo(n, k, 2)
    BY <2>1, <2>2, <2>3
  <2>5. PassUpTo(n, k, 3)
    BY <2>1, <2>2, <2>4
  <2> QED
    BY <2>1, <2>2, <2>5
<1> QED
  BY <1>4, <1>6 DEF PassUpTo

(* The i-th seed of a pool is one of the i-th four seeds, so a pool has    *)
(* its seeds in their order; and two that follow each other in a pool add  *)
(* up to the same in every pool.                                           *)
LEMMA MembersAreSnake ==
  ASSUME NEW n \in Nat, NEW group \in SlamPools, NEW i \in 1..PoolSize(n, group)
  PROVE  /\ PoolMembers(n, group)[i] = SnakeSeed(n, group, i)
         /\ SnakeSeed(n, group, i) \in 4 * (i - 1) .. (4 * (i - 1) + 3)
         /\ i % 2 = 0 => SnakeSeed(n, group, i - 1) + SnakeSeed(n, group, i) = 8 * i - 13 + PoolsWith(n, i)
<1> DEFINE size(g) == PoolSize(n, g)
           q == size("A")
<1>1. \A g \in SlamPools : size(g) \in Nat /\ size(g) <= q
  <2>1. \A g \in SlamPools : g = "A" \/ g = "B" \/ g = "C" \/ g = "D"
    BY DEF SlamPools
  <2>2. /\ \A g \in SlamPools : size(g) \in Nat
        /\ size("A") >= size("B") /\ size("B") >= size("C") /\ size("C") >= size("D")
    BY PoolSizes
  <2>3. "A" \in SlamPools /\ "B" \in SlamPools /\ "C" \in SlamPools /\ "D" \in SlamPools
    BY DEF SlamPools
  <2> HIDE DEF size
  <2> QED
    BY <2>1, <2>2, <2>3
<1>2. q \in Nat
  BY <1>1 DEF SlamPools
<1> HIDE DEF q
<1>3. PoolMembers(n, group) = SnakeAfter(n)[4 * q][group]
  BY DEF PoolMembers, SnakeAssignToPools, q
<1>4. Len(SnakeAfter(n)[4 * q][group]) = size(group)
  <2>1. Len(SnakeAfter(n)[4 * q][group]) = IF q <= size(group) THEN q ELSE size(group)
    BY <1>2, PassesFillPools
  <2>2. size(group) \in Nat /\ size(group) <= q
    BY <1>1
  <2> HIDE DEF size
  <2> QED
    BY <1>2, <2>1, <2>2
<1>5. PoolMembers(n, group)[i] = SnakeSeed(n, group, i)
  BY <1>2, <1>3, <1>4, PassesPutSeeds DEF SnakeSeeds
<1> DEFINE p == PlaceOf(group)
           w(k) == PoolsWith(n, k)
<1>6. p \in 1..4 /\ p <= w(i) /\ w(i) \in 0..4 /\ i \in Nat /\ i > 0
  <2> DEFINE d == n \div 4
             r == n % 4
             s == size(group)
  <2>1. p \in 1..4 /\ s = d + (IF p <= r THEN 1 ELSE 0)
    BY SizeOfPool
  <2>2. d \in Nat /\ r \in 0..3 /\ i \in 1..s /\ w(i) = IF i <= d THEN 4 ELSE r
    BY DEF PoolsWith
  <2> HIDE DEF d, r, s, p, w
  <2> QED
    BY <2>1, <2>2
<1>7. \A k \in Int : SnakeSeed(n, group, k) = 4 * (k - 1) + (IF k % 2 = 1 THEN p - 1 ELSE w(k) - p)
  BY DEF SnakeSeed
<1> HIDE DEF p, w
<1>8. SnakeSeed(n, group, i) \in 4 * (i - 1) .. (4 * (i - 1) + 3)
  BY <1>6, <1>7
<1>9. i % 2 = 0 => SnakeSeed(n, group, i - 1) + SnakeSeed(n, group, i) = 8 * i - 13 + w(i)
  <2> SUFFICES ASSUME i % 2 = 0
               PROVE  SnakeSeed(n, group, i - 1) + SnakeSeed(n, group, i) = 8 * i - 13 + w(i)
    OBVIOUS
  <2>1. (i - 1) % 2 = 1 /\ i - 1 \in Int
    BY <1>6
  <2>2. SnakeSeed(n, group, i - 1) = 4 * (i - 2) + (p - 1) /\ SnakeSeed(n, group, i) = 4 * (i - 1) + (w(i) - p)
    BY <1>6, <1>7, <2>1
  <2> QED
    BY <1>6, <2>2
<1> QED
  BY <1>5, <1>8, <1>9 DEF w

(* A match of a bracket that leads on does so to a match of the next round *)
(* that two matches lead to.  Of the last round there is one match.        *)
LEMMA NextInBracket ==
  ASSUME NEW n \in Nat, n > 1, NEW phase, NEW group, NEW m \in DOMAIN Elimination(n, phase, group)
  PROVE  LET total == TotalRoundsFor(n)
             next == MatchId(phase, group, m.round + 1, (m.position + 1) \div 2)
             bracket == DOMAIN Elimination(n, phase, group)
         IN  /\ m.phase = phase /\ m.group = group /\ m.round \in 1..total
             /\ m.position \in 1..2^(total - m.round)
             /\ m = MatchId(phase, group, m.round, m.position)
             /\ m.round < total => next \in bracket
             /\ m.round = total => m.position = 1 /\ next \notin bracket
<1> DEFINE total == TotalRoundsFor(n)
           bracket == DOMAIN Elimination(n, phase, group)
           next == MatchId(phase, group, m.round + 1, (m.position + 1) \div 2)
<1>1. total \in Nat /\ total >= 1
  BY RoundsOfBracket
<1>2. \A l : l \in bracket <=>
        \E round \in 1..total : \E position \in 1..2^(total - round) :
          l = MatchId(phase, group, round, position)
  BY EliminationSlots
<1> HIDE DEF total, bracket
<1>3. PICK round \in 1..total : \E position \in 1..2^(total - round) :
        m = MatchId(phase, group, round, position)
  BY <1>2 DEF bracket
<1>4. PICK position \in 1..2^(total - round) : m = MatchId(phase, group, round, position)
  BY <1>3
<1>5. /\ m.phase = phase /\ m.group = group /\ m.round = round /\ m.position = position
      /\ next = MatchId(phase, group, round + 1, (position + 1) \div 2)
  BY <1>4 DEF MatchId
<1> HIDE DEF next
<1>6. ASSUME round < total
      PROVE  next \in bracket
  <2>1. total - round \in Nat /\ total - round > 0 /\ total - (round + 1) = (total - round) - 1
    BY <1>1, <1>6
  <2>2. 2^(total - round) = 2 * 2^(total - (round + 1)) /\ 2^(total - (round + 1)) \in Nat
    BY <2>1, PowerStep, PowersOfTwo
  <2>3. (position + 1) \div 2 \in 1..2^(total - (round + 1)) /\ round + 1 \in 1..total
    BY <1>1, <1>6, <2>2
  <2> QED
    BY <1>2, <1>5, <2>3
<1>7. ASSUME round = total
      PROVE  position = 1 /\ next \notin bracket
  <2>1. \A l \in bracket : l.round \in 1..total
    BY <1>2 DEF MatchId
  <2>2. next.round = total + 1
    BY <1>5, <1>7 DEF MatchId
  <2>3. total - round = 0
    BY <1>1, <1>7
  <2>4. position \in 1..1
    BY <2>3, SmallPowers
  <2> QED
    BY <1>1, <2>1, <2>2, <2>4
<1> QED
  BY <1>4, <1>5, <1>6, <1>7 DEF total, bracket, next

(* The match is in the first round and nobody is drawn against its         *)
(* competitor.                                                             *)
Unopposed(n, m) == m.round = 1 /\ FirstRound(n, m.position)[2] = Nobody

(* Everybody is drawn once into a match that is not such a bye.            *)
LEMMA SeatedOnce ==
  ASSUME NEW n \in Nat, n > 1, NEW phase, NEW group,
         NEW m \in DOMAIN Elimination(n, phase, group), NEW l \in DOMAIN Elimination(n, phase, group),
         ~Unopposed(n, m), ~Unopposed(n, l), NEW s \in {1, 2}, NEW t \in {1, 2},
         Elimination(n, phase, group)[m][s] # Nobody,
         Elimination(n, phase, group)[m][s] = Elimination(n, phase, group)[l][t]
  PROVE  m = l /\ s = t
<1> DEFINE draw == Elimination(n, phase, group)
           places == 1..2^(TotalRoundsFor(n) - 1)
           first(p) == FirstRound(n, p)
           FromFirst(k, u) == k.round = 1 /\ k.position \in places /\ draw[k][u] = first(k.position)[u]
           FromBye(k, u, p) ==
             /\ k.round = 2 /\ p = 2 * k.position - 2 + u
             /\ draw[k][u] = first(p)[1] /\ first(p)[2] = Nobody
<1>1. /\ FromFirst(m, s) \/ \E p \in places : FromBye(m, s, p)
      /\ FromFirst(l, t) \/ \E p \in places : FromBye(l, t, p)
  BY DrawnFrom
<1>2. /\ m = MatchId(phase, group, m.round, m.position) /\ l = MatchId(phase, group, l.round, l.position)
      /\ m.position \in Int /\ l.position \in Int
  BY NextInBracket
<1>3. \A p, q \in places, u, v \in {1, 2} :
        first(p)[u] # Nobody /\ first(p)[u] = first(q)[v] => p = q /\ u = v
  BY FirstRoundOnce
<1>4. ~(m.round = 1 /\ first(m.position)[2] = Nobody) /\ ~(l.round = 1 /\ first(l.position)[2] = Nobody)
  BY DEF Unopposed
<1>5. draw[m][s] = draw[l][t] /\ draw[m][s] # Nobody
  OBVIOUS
<1> HIDE DEF places, first, draw
<1>6. CASE FromFirst(m, s) /\ FromFirst(l, t)
  <2>1. first(m.position)[s] = first(l.position)[t] /\ first(m.position)[s] # Nobody
    BY <1>5, <1>6
  <2>2. m.position = l.position /\ s = t
    BY <1>3, <1>6, <2>1
  <2> QED
    BY <1>2, <1>6, <2>2
<1>7. ASSUME NEW p \in places, FromBye(m, s, p), FromFirst(l, t) PROVE FALSE
  <2>1. l.position = p
    BY <1>3, <1>5, <1>7
  <2> QED
    BY <1>4, <1>7, <2>1
<1>8. ASSUME NEW p \in places, FromFirst(m, s), FromBye(l, t, p) PROVE FALSE
  <2>1. m.position = p
    BY <1>3, <1>5, <1>8
  <2> QED
    BY <1>4, <1>8, <2>1
<1>9. ASSUME NEW p \in places, NEW q \in places, FromBye(m, s, p), FromBye(l, t, q)
      PROVE  m = l /\ s = t
  <2>1. p = q
    BY <1>3, <1>5, <1>9
  <2>2. m.position = l.position /\ s = t
    BY <1>2, <1>9, <2>1
  <2> QED
    BY <1>2, <1>9, <2>2
<1> QED
  BY <1>1, <1>6, <1>7, <1>8, <1>9

(* Where the winner of a match goes that is no bye, nobody is drawn.       *)
LEMMA NextIsOpen ==
  ASSUME NEW n \in Nat, n > 1, NEW phase, NEW group, NEW m \in DOMAIN Elimination(n, phase, group),
         m.round < TotalRoundsFor(n), ~Unopposed(n, m)
  PROVE  LET next == MatchId(phase, group, m.round + 1, (m.position + 1) \div 2)
         IN  Elimination(n, phase, group)[next][IF m.position % 2 = 1 THEN 1 ELSE 2] = Nobody
<1> DEFINE draw == Elimination(n, phase, group)
           next == MatchId(phase, group, m.round + 1, (m.position + 1) \div 2)
           side == IF m.position % 2 = 1 THEN 1 ELSE 2
<1>1. next \in DOMAIN draw /\ m.round \in 1..TotalRoundsFor(n) /\ TotalRoundsFor(n) \in Nat
  BY NextInBracket, RoundsOfBracket
<1>2. m.position \in Int
  BY NextInBracket
<1>3. next.round = m.round + 1 /\ next.position = (m.position + 1) \div 2
  BY DEF MatchId
<1> HIDE DEF next
<1>4. side \in {1, 2} /\ 2 * next.position - 2 + side = m.position
  BY <1>2, <1>3
<1> HIDE DEF side
<1>5. ASSUME draw[next][side] # Nobody PROVE FALSE
  <2>1. \/ next.round = 1
        \/ \E p \in 1..2^(TotalRoundsFor(n) - 1) :
             next.round = 2 /\ p = 2 * next.position - 2 + side /\ FirstRound(n, p)[2] = Nobody
    BY <1>1, <1>4, <1>5, DrawnFrom
  <2>2. next.round = 2 /\ FirstRound(n, m.position)[2] = Nobody
    BY <1>1, <1>3, <1>4, <2>1
  <2>3. m.round = 1
    BY <1>1, <1>3, <2>2
  <2> QED
    BY <2>2, <2>3 DEF Unopposed
<1> QED
  BY <1>5 DEF next, side

(* Two matches lead to each match after the first round of a bracket, and  *)
(* who has no opponent in the first round is in the slot it leads to.      *)
LEMMA FeedersInBracket ==
  ASSUME NEW n \in Nat, n > 1, NEW phase, NEW group,
         NEW m \in DOMAIN Elimination(n, phase, group), m.round > 1, NEW s \in {1, 2}
  PROVE  LET l == MatchId(phase, group, m.round - 1, 2 * m.position - 2 + s)
         IN  /\ l \in DOMAIN Elimination(n, phase, group) /\ l.round = m.round - 1
             /\ m = MatchId(phase, group, l.round + 1, (l.position + 1) \div 2)
             /\ s = IF l.position % 2 = 1 THEN 1 ELSE 2
<1> DEFINE total == TotalRoundsFor(n)
           l == MatchId(phase, group, m.round - 1, 2 * m.position - 2 + s)
<1>1. /\ total \in Nat /\ m.round \in 1..total /\ m.position \in 1..2^(total - m.round)
      /\ m = MatchId(phase, group, m.round, m.position)
  BY NextInBracket, RoundsOfBracket
<1> HIDE DEF total
<1>2. m.round - 1 \in 1..total /\ 2 * m.position - 2 + s \in 1..2^(total - (m.round - 1))
  <2> DEFINE k == total - (m.round - 1)
  <2>1. k \in Nat /\ k > 0 /\ k - 1 = total - m.round
    BY <1>1
  <2> HIDE DEF k
  <2>2. 2^k = 2 * 2^(k - 1) /\ 2^(k - 1) \in Nat
    BY <2>1, PowerStep, PowersOfTwo
  <2>3. m.position \in 1..2^(k - 1)
    BY <1>1, <2>1
  <2>4. 2 * m.position - 2 + s \in 1..2^k
    BY <2>2, <2>3
  <2> QED
    BY <1>1, <2>4 DEF k
<1>3. l \in DOMAIN Elimination(n, phase, group)
  BY <1>2, EliminationSlots DEF total
<1>4. l.round = m.round - 1 /\ l.position = 2 * m.position - 2 + s
  BY DEF MatchId
<1>5. /\ (l.position + 1) \div 2 = m.position /\ s = IF l.position % 2 = 1 THEN 1 ELSE 2
      /\ l.round + 1 = m.round
  <2> HIDE DEF l
  <2> QED
    BY <1>1, <1>4
<1> QED
  BY <1>1, <1>3, <1>4, <1>5

LEMMA UnopposedIsAhead ==
  ASSUME NEW n \in Nat, n > 1, NEW phase, NEW group, NEW m \in DOMAIN Elimination(n, phase, group)
  PROVE  LET draw == Elimination(n, phase, group)
             next == MatchId(phase, group, m.round + 1, (m.position + 1) \div 2)
             side == IF m.position % 2 = 1 THEN 1 ELSE 2
         IN  /\ m.round = 1 => draw[m][1] # Nobody /\ (~Unopposed(n, m) => draw[m][2] # Nobody)
             /\ Unopposed(n, m) =>
                  m.round < TotalRoundsFor(n) /\ draw[next][side] = draw[m][1]
<1> DEFINE draw == Elimination(n, phase, group)
           next == MatchId(phase, group, m.round + 1, (m.position + 1) \div 2)
           side == IF m.position % 2 = 1 THEN 1 ELSE 2
<1> SUFFICES ASSUME m.round = 1
             PROVE  /\ draw[m][1] # Nobody /\ (~Unopposed(n, m) => draw[m][2] # Nobody)
                    /\ Unopposed(n, m) => m.round < TotalRoundsFor(n) /\ draw[next][side] = draw[m][1]
  BY DEF Unopposed
<1>1. /\ draw[m] = FirstRound(n, m.position) /\ m.position \in 1..2^(TotalRoundsFor(n) - 1)
      /\ TotalRoundsFor(n) \in Nat /\ TotalRoundsFor(n) >= 1 /\ m.position \in Int
  <2>1. 2^(TotalRoundsFor(n) - 1) \in Nat /\ TotalRoundsFor(n) \in Nat /\ TotalRoundsFor(n) >= 1
    BY RoundsOfBracket, PowersOfTwo
  <2> QED
    BY <2>1, EliminationSlots
<1>2. draw[m][1] # Nobody
  BY <1>1, FirstRoundSlots DEF Nobody
<1>3. ~Unopposed(n, m) => draw[m][2] # Nobody
  BY <1>1 DEF Unopposed
<1>4. ASSUME Unopposed(n, m)
      PROVE  m.round < TotalRoundsFor(n) /\ draw[next][side] = draw[m][1]
  <2>1. FirstRound(n, m.position)[2] = Nobody
    BY <1>4 DEF Unopposed
  <2>2. m.round < TotalRoundsFor(n)
    BY <1>1, <2>1, NoByeInFinal
  <2>3. next \in DOMAIN draw
    BY <2>2, NextInBracket
  <2>4. next.round = 2 /\ next.position = (m.position + 1) \div 2 /\ side \in {1, 2}
    BY DEF MatchId
  <2> HIDE DEF next, side
  <2>5. draw[next][side] = Advanced(FirstRound(n, 2 * next.position - 2 + side))
    BY <2>3, <2>4, EliminationSlots
  <2>6. 2 * next.position - 2 + side = m.position
    BY <1>1, <2>4 DEF side
  <2> QED
    BY <1>1, <1>2, <2>1, <2>2, <2>5, <2>6 DEF Advanced, IsBye
<1> QED
  BY <1>2, <1>3, <1>4

(* In a bracket of at least four nobody is drawn into the final.           *)
LEMMA FinalIsOpen ==
  ASSUME NEW n \in Nat, n >= 4, NEW phase, NEW group, NEW m \in DOMAIN Elimination(n, phase, group),
         m.round = TotalRoundsFor(n), NEW s \in {1, 2}
  PROVE  TotalRoundsFor(n) >= 2 /\ Elimination(n, phase, group)[m][s] = Nobody
<1> DEFINE total == TotalRoundsFor(n)
           seat == Elimination(n, phase, group)[m][s]
<1>1. total \in Nat /\ total >= 1 /\ n <= 2^total /\ n > 1
  BY RoundsOfBracket
<1>2. seat # Nobody =>
        \/ m.round = 1
        \/ \E p \in 1..2^(total - 1) : m.round = 2 /\ FirstRound(n, p)[2] = Nobody
  BY DrawnFrom
<1> HIDE DEF seat
<1>3. total # 1
  <2>1. total = 1 => 2^total = 2
    BY SmallPowers
  <2> QED
    BY <1>1, <2>1
<1>4. ASSUME NEW p \in 1..2^(total - 1), total = 2
      PROVE  FirstRound(n, p)[2] # Nobody
  <2>1. 2^total = 4
    BY <1>4, SmallPowers
  <2>2. 2 * p \in 1..2^total /\ (Seedings[total][2 * p] < n => FirstRound(n, p)[2] = Seedings[total][2 * p])
    BY <1>1, <1>4, FirstRoundSlots
  <2>3. Seedings[total][2 * p] \in 0..(2^total - 1)
    BY <1>1, <2>2, SeedsHavePlaces DEF SeedsAreSet
  <2> HIDE DEF total
  <2>4. Seedings[total][2 * p] \in 0..3
    BY <2>1, <2>3
  <2> QED
    BY <2>2, <2>4 DEF Nobody
<1>5. seat = Nobody
  BY <1>2, <1>3, <1>4
<1> QED
  BY <1>1, <1>3, <1>5 DEF seat

-----------------------------------------------------------------------------
(* Seeds meet late *)

LEMMA MultipleGrows ==
  ASSUME NEW w \in Nat, w > 0, NEW b \in Int, NEW c \in Int, b >= c + 1
  PROVE  b * w >= c * w + w
<1>1. (b - c - 1) * w >= 0
  <2> DEFINE e == b - c - 1
  <2>1. e \in Nat
    OBVIOUS
  <2> HIDE DEF e
  <2>2. e * w >= 0
    BY <2>1
  <2> QED
    BY <2>2 DEF e
<1>2. (b - c - 1) * w = b * w - c * w - w
  OBVIOUS
<1> QED
  BY <1>1, <1>2

LEMMA QuotientIs ==
  ASSUME NEW w \in Nat, w > 0, NEW x \in Nat, NEW b \in Int, b * w <= x, x < b * w + w
  PROVE  x \div w = b
<1> DEFINE c == x \div w
<1>1. c \in Int /\ c * w <= x /\ x < c * w + w
  OBVIOUS
<1> HIDE DEF c
<1>2. ~(b >= c + 1) /\ ~(c >= b + 1)
  BY <1>1, MultipleGrows
<1> QED
  BY <1>1, <1>2 DEF c

(* Halving before or after does not matter.                                *)
LEMMA QuotientOfHalf ==
  ASSUME NEW w \in Nat, w > 0, NEW x \in Nat
  PROVE  /\ (x \div 2) \div w = x \div (2 * w)
         /\ (x \div w) \div 2 = x \div (2 * w)
<1>1. (x \div 2) \div w = x \div (2 * w)
  <2> DEFINE a == x \div 2
             b == a \div w
             bw == b * w
  <2>1. a \in Nat /\ 2 * a <= x /\ x <= 2 * a + 1
    OBVIOUS
  <2> HIDE DEF a
  <2>2. b \in Int /\ bw <= a /\ a < bw + w
    BY <2>1
  <2> HIDE DEF b
  <2>3. b * (2 * w) = 2 * bw /\ bw \in Int
    BY <2>2
  <2> HIDE DEF bw
  <2>4. 2 * bw <= x /\ x < 2 * bw + 2 * w
    BY <2>1, <2>2, <2>3
  <2>5. x \div (2 * w) = b
    BY <2>2, <2>3, <2>4, QuotientIs
  <2> QED
    BY <2>5 DEF a, b
<1>2. (x \div w) \div 2 = x \div (2 * w)
  <2> DEFINE a == x \div w
             aw == a * w
             b == a \div 2
             bw == b * w
  <2>1. a \in Int /\ aw <= x /\ x < aw + w
    OBVIOUS
  <2> HIDE DEF a
  <2>2. b \in Int /\ (a = 2 * b \/ a = 2 * b + 1)
    BY <2>1
  <2> HIDE DEF b
  <2>3. b * (2 * w) = 2 * bw /\ bw \in Int
    BY <2>2
  <2>4. aw = 2 * bw \/ aw = 2 * bw + w
    BY <2>2
  <2> HIDE DEF aw, bw
  <2>5. 2 * bw <= x /\ x < 2 * bw + 2 * w
    BY <2>1, <2>3, <2>4
  <2>6. x \div (2 * w) = b
    BY <2>2, <2>3, <2>5, QuotientIs
  <2> QED
    BY <2>6 DEF a, b
<1> QED
  BY <1>1, <1>2

(* The match of a round to which the winners of the p-th first match come. *)
Reached(p, round) == (p - 1) \div 2^(round - 1) + 1

(* It is the one advanceWinner finds from the round before.                *)
LEMMA ReachedNext ==
  ASSUME NEW p \in Nat, p > 0, NEW round \in Nat, round > 0
  PROVE  /\ Reached(p, 1) = p
         /\ Reached(p, round + 1) = (Reached(p, round) + 1) \div 2
<1> DEFINE w == 2^(round - 1)
           a == (p - 1) \div w
<1>1. w \in Nat /\ w > 0 /\ 2^(round + 1 - 1) = 2 * w
  <2>1. round + 1 - 1 = round /\ round - 1 \in Nat
    OBVIOUS
  <2>2. 2^round = 2 * 2^(round - 1)
    BY PowerStep
  <2>3. 2^(round - 1) \in Nat /\ 2^round \in Nat /\ round <= 2^round
    BY <2>1, PowersOfTwo
  <2> QED
    BY <2>1, <2>2, <2>3
<1> HIDE DEF w
<1>2. a \div 2 = (p - 1) \div (2 * w) /\ a \in Int
  <2>1. p - 1 \in Nat
    OBVIOUS
  <2>2. ((p - 1) \div w) \div 2 = (p - 1) \div (2 * w)
    BY <1>1, <2>1, QuotientOfHalf
  <2>3. (p - 1) \div w \in Int
    BY <1>1, <2>1
  <2> QED
    BY <2>2, <2>3
<1>3. Reached(p, round) = a + 1 /\ Reached(p, round + 1) = a \div 2 + 1
  BY <1>1, <1>2 DEF Reached, w
<1> HIDE DEF a
<1>4. (a + 1 + 1) \div 2 = a \div 2 + 1
  BY <1>2
<1>5. Reached(p, 1) = p
  <2>1. 2^(1 - 1) = 1
    BY SmallPowers
  <2> QED
    BY <2>1 DEF Reached
<1> QED
  BY <1>3, <1>4, <1>5

(* After j doublings the best 2^k of a bracket are where the first of them *)
(* were put, each at the head of the places that come from its own.        *)
SeedsStay(k, j) ==
  /\ 2^k <= 2^(k + j)
  /\ \A i \in 1..2^(k + j) :
       Seedings[k + j][i] < 2^k =>
         /\ (i - 1) \div 2^j + 1 \in 1..2^k
         /\ Seedings[k + j][i] = Seedings[k][(i - 1) \div 2^j + 1]

LEMMA SeedsStayNext ==
  ASSUME NEW k \in Nat, NEW j \in Nat, SeedsStay(k, j)
  PROVE  SeedsStay(k, j + 1)
<1> DEFINE r == k + j
           w == 2^j
<1>1. /\ 2^(r + 1) = 2 * 2^r /\ 2^r \in Nat /\ 2^k \in Nat /\ 2^(j + 1) = 2 * w
      /\ w \in Nat /\ w > 0 /\ k + (j + 1) = r + 1 /\ r \in Nat
  <2>1. r + 1 - 1 = r /\ j + 1 - 1 = j /\ r + 1 \in Nat /\ j + 1 \in Nat /\ k + (j + 1) = r + 1 /\ r \in Nat
    OBVIOUS
  <2>2. 2^(r + 1) = 2 * 2^(r + 1 - 1) /\ 2^(j + 1) = 2 * 2^(j + 1 - 1)
    BY <2>1, PowerStep
  <2>3. 2^r \in Nat /\ 2^k \in Nat /\ 2^j \in Nat /\ 2^(j + 1) \in Nat /\ j + 1 <= 2^(j + 1)
    BY <2>1, PowersOfTwo
  <2> QED
    BY <2>1, <2>2, <2>3
<1>2. 2^k <= 2^r
  BY DEF SeedsStay
<1> HIDE DEF r, w
<1>3. ASSUME NEW i \in 1..2^(r + 1), Seedings[r + 1][i] < 2^k
      PROVE  /\ (i - 1) \div (2 * w) + 1 \in 1..2^k
             /\ Seedings[r + 1][i] = Seedings[k][(i - 1) \div (2 * w) + 1]
  <2>1. PICK p \in 1..2^r : i = 2 * p - 1 \/ i = 2 * p
    <3>1. (i + 1) \div 2 \in 1..2^r /\ (i = 2 * ((i + 1) \div 2) - 1 \/ i = 2 * ((i + 1) \div 2))
      BY <1>1, <1>3
    <3> QED
      BY <3>1
  <2>2. Seedings[r + 1][2 * p - 1] = Seedings[r][p] /\ Seedings[r + 1][2 * p] = 2^(r + 1) - 1 - Seedings[r][p]
    <3> DEFINE next == r + 1
    <3>1. next \in Nat /\ next > 0 /\ next - 1 = r
      BY <1>1
    <3> HIDE DEF next
    <3>2. p \in 1..2^(next - 1)
      BY <3>1
    <3>3. /\ Seedings[next][2 * p - 1] = Seedings[next - 1][p]
          /\ Seedings[next][2 * p] = 2^next - 1 - Seedings[next - 1][p]
      BY <3>1, <3>2, SeedsOfPair
    <3> QED
      BY <3>1, <3>3 DEF next
  <2>3. Seedings[r][p] \in 0..(2^r - 1)
    BY <1>1, SeedsHavePlaces DEF SeedsAreSet
  <2>4. i = 2 * p - 1
    BY <1>1, <1>2, <1>3, <2>1, <2>2, <2>3
  <2>5. Seedings[r + 1][i] = Seedings[r][p] /\ Seedings[r][p] < 2^k
    BY <1>3, <2>2, <2>4
  <2>6. (p - 1) \div w + 1 \in 1..2^k /\ Seedings[r][p] = Seedings[k][(p - 1) \div w + 1]
    BY <2>5 DEF SeedsStay, r, w
  <2>7. (p - 1) \div w = (i - 1) \div (2 * w)
    <3>1. i - 1 \in Nat /\ (i - 1) \div 2 = p - 1
      BY <1>1, <2>4
    <3> QED
      BY <1>1, <3>1, QuotientOfHalf
  <2> QED
    BY <2>5, <2>6, <2>7
<1>4. 2^k <= 2^(r + 1)
  BY <1>1, <1>2
<1> QED
  BY <1>1, <1>3, <1>4 DEF SeedsStay

LEMMA SeedsStayOn ==
  ASSUME NEW k \in Nat, NEW j \in Nat
  PROVE  SeedsStay(k, j)
<1> DEFINE fails == {l \in Nat : ~SeedsStay(k, l)}
<1> SUFFICES ASSUME fails # {} PROVE FALSE
  OBVIOUS
<1>1. PICK l \in fails : \A o \in fails : l <= o
  <2>1. fails \subseteq Nat
    OBVIOUS
  <2> HIDE DEF fails
  <2> QED
    BY <2>1, LeastNatural
<1>2. SeedsStay(k, 0)
  <2>1. 2^0 = 1 /\ k + 0 = k /\ 2^k \in Nat
    BY SmallPowers, PowersOfTwo
  <2>2. \A i \in 1..2^k : (i - 1) \div 1 + 1 = i
    BY <2>1
  <2> QED
    BY <2>1, <2>2 DEF SeedsStay
<1>3. l # 0
  BY <1>2
<1>4. l - 1 \in Nat /\ SeedsStay(k, l - 1)
  BY <1>1, <1>3
<1>5. SeedsStay(k, l - 1 + 1)
  BY <1>4, SeedsStayNext
<1>6. l - 1 + 1 = l
  OBVIOUS
<1> QED
  BY <1>5, <1>6

(* Of the best 2^k of a bracket no two can meet while more than k rounds   *)
(* are left: the two best only in the final, the best four not before the  *)
(* semi-finals, and so on, whoever else wins.  And who has no opponent in  *)
(* the first round is better than everybody who has one.                   *)
THEOREM SeedsMeetLate ==
  ASSUME NEW n \in Nat, n > 1
  PROVE  LET rounds == TotalRoundsFor(n)
             first == 1..2^(rounds - 1)
         IN  /\ \A k \in 0..(rounds - 1), round \in 1..rounds :
                  round + k <= rounds =>
                    \A p, q \in first, s, t \in {1, 2} :
                      /\ FirstRound(n, p)[s] \in 0..(2^k - 1)
                      /\ FirstRound(n, q)[t] \in 0..(2^k - 1)
                      /\ Reached(p, round) = Reached(q, round)
                      => FirstRound(n, p)[s] = FirstRound(n, q)[t]
             /\ \A p \in first :
                  FirstRound(n, p)[2] = Nobody <=> FirstRound(n, p)[1] < 2^rounds - n
<1> DEFINE rounds == TotalRoundsFor(n)
           first == 1..2^(rounds - 1)
<1>1. /\ rounds \in Nat /\ rounds >= 1 /\ rounds - 1 \in Nat /\ n <= 2^rounds
      /\ 2^rounds = 2 * 2^(rounds - 1) /\ 2^(rounds - 1) \in Nat /\ 2^rounds \in Nat
  <2>1. rounds \in Nat /\ rounds >= 1 /\ n <= 2^rounds
    BY RoundsOfBracket
  <2> HIDE DEF rounds
  <2>2. rounds - 1 \in Nat
    BY <2>1
  <2> QED
    BY <2>1, <2>2, PowerStep, PowersOfTwo
<1>2. ASSUME NEW p \in first
      PROVE  /\ FirstRound(n, p)[1] = Seedings[rounds - 1][p]
             /\ FirstRound(n, p)[1] \in 0..(2^(rounds - 1) - 1)
             /\ Seedings[rounds][2 * p] = 2^rounds - 1 - FirstRound(n, p)[1]
             /\ FirstRound(n, p)[2] = IF Seedings[rounds][2 * p] < n THEN Seedings[rounds][2 * p] ELSE Nobody
  <2>1. FirstRound(n, p)[1] = Seedings[rounds][2 * p - 1]
    BY FirstRoundSlots
  <2>2. /\ Seedings[rounds][2 * p - 1] = Seedings[rounds - 1][p]
        /\ Seedings[rounds][2 * p] = 2^rounds - 1 - Seedings[rounds - 1][p]
    BY <1>1, SeedsOfPair
  <2>3. Seedings[rounds - 1][p] \in 0..(2^(rounds - 1) - 1)
    BY <1>1, SeedsHavePlaces DEF SeedsAreSet
  <2>4. FirstRound(n, p)[2] = IF Seedings[rounds][2 * p] < n THEN Seedings[rounds][2 * p] ELSE Nobody
    BY DEF FirstRound, Seeding
  <2> QED
    BY <2>1, <2>2, <2>3, <2>4
<1> HIDE DEF rounds
<1>3. ASSUME NEW p \in first
      PROVE  FirstRound(n, p)[2] = Nobody <=> FirstRound(n, p)[1] < 2^rounds - n
  <2> DEFINE seed == FirstRound(n, p)[1]
             other == FirstRound(n, p)[2]
  <2>1. /\ seed \in 0..(2^(rounds - 1) - 1)
        /\ other = IF 2^rounds - 1 - seed < n THEN 2^rounds - 1 - seed ELSE Nobody
    BY <1>2
  <2> HIDE DEF seed, other
  <2>2. other = Nobody <=> seed < 2^rounds - n
    BY <1>1, <2>1 DEF Nobody
  <2> QED
    BY <2>2 DEF seed, other
<1>4. ASSUME NEW k \in 0..(rounds - 1), NEW round \in 1..rounds, round + k <= rounds,
             NEW p \in first, NEW s \in {1, 2}, FirstRound(n, p)[s] \in 0..(2^k - 1)
      PROVE  /\ Reached(p, round) \in 1..2^(rounds - round)
             /\ FirstRound(n, p)[s] = Seedings[rounds - round][Reached(p, round)]
  <2> DEFINE l == rounds - round
             j == round - 1
             c == FirstRound(n, p)[s]
  <2>1. l \in Nat /\ j \in Nat /\ l + j = rounds - 1 /\ k \in Nat /\ k <= l /\ l - k \in Nat
    BY <1>1, <1>4
  <2>2. SeedsStay(l, j) /\ SeedsStay(k, l - k) /\ k + (l - k) = l
    BY <2>1, SeedsStayOn
  <2>3. 2^k \in Nat /\ 2^l \in Nat /\ 2^k <= 2^l /\ 2^l <= 2^(rounds - 1)
    BY <2>1, <2>2, PowersOfTwo DEF SeedsStay
  <2>4. s = 1
    <3> SUFFICES ASSUME s = 2 PROVE FALSE
      OBVIOUS
    <3> DEFINE seed == FirstRound(n, p)[1]
               other == FirstRound(n, p)[2]
    <3>1. /\ seed \in 0..(2^(rounds - 1) - 1)
          /\ other = IF 2^rounds - 1 - seed < n THEN 2^rounds - 1 - seed ELSE Nobody
          /\ other \in 0..(2^k - 1)
      BY <1>2, <1>4
    <3> HIDE DEF seed, other, l
    <3> QED
      BY <1>1, <2>3, <3>1 DEF Nobody
  <2>5. c = Seedings[rounds - 1][p] /\ c < 2^l /\ p \in 1..2^(l + j)
    <3>1. c = Seedings[rounds - 1][p]
      BY <1>2, <2>4
    <3>2. c \in 0..(2^k - 1)
      BY <1>4
    <3> HIDE DEF c, l
    <3> QED
      BY <2>1, <2>3, <3>1, <3>2
  <2> HIDE DEF c
  <2>6. (p - 1) \div 2^j + 1 \in 1..2^l /\ c = Seedings[l][(p - 1) \div 2^j + 1]
    BY <2>1, <2>2, <2>5 DEF SeedsStay
  <2> QED
    BY <2>6 DEF Reached, c
<1> QED
  BY <1>3, <1>4 DEF rounds

-----------------------------------------------------------------------------
(* The criteria of a table, which are compared one after the other *)

Vector == [1..4 -> Int]

(* The first criterion that differs decides.                               *)
LEMMA AheadOneByOne ==
  ASSUME NEW k \in Vector, NEW l \in Vector
  PROVE  Ahead(k, l) <=> \/ k[1] > l[1]
                         \/ k[1] = l[1] /\ k[2] > l[2]
                         \/ k[1] = l[1] /\ k[2] = l[2] /\ k[3] > l[3]
                         \/ k[1] = l[1] /\ k[2] = l[2] /\ k[3] = l[3] /\ k[4] > l[4]
<1> DEFINE Up(i) == k[i] > l[i] /\ \A j \in 1..(i - 1) : k[j] = l[j]
<1>1. Ahead(k, l) <=> Up(1) \/ Up(2) \/ Up(3) \/ Up(4)
  <2>1. Ahead(k, l) <=> \E i \in 1..4 : Up(i)
    BY DEF Ahead
  <2>2. \A i : i \in 1..4 <=> i = 1 \/ i = 2 \/ i = 3 \/ i = 4
    OBVIOUS
  <2> HIDE DEF Up
  <2> QED
    BY <2>1, <2>2
<1>2. \A j : /\ ~(j \in 1..(1 - 1))
             /\ j \in 1..(2 - 1) <=> j = 1
             /\ j \in 1..(3 - 1) <=> j = 1 \/ j = 2
             /\ j \in 1..(4 - 1) <=> j = 1 \/ j = 2 \/ j = 3
  OBVIOUS
<1> QED
  BY <1>1, <1>2

(* Who is ahead: an order, which more wins alone decide.                   *)
LEMMA AheadOrders ==
  ASSUME NEW k \in Vector, NEW l \in Vector, NEW m \in Vector
  PROVE  /\ ~Ahead(k, k)
         /\ Ahead(k, l) /\ Ahead(l, m) => Ahead(k, m)
         /\ k[1] > l[1] => Ahead(k, l)
<1>1. /\ k[1] \in Int /\ k[2] \in Int /\ k[3] \in Int /\ k[4] \in Int
      /\ l[1] \in Int /\ l[2] \in Int /\ l[3] \in Int /\ l[4] \in Int
      /\ m[1] \in Int /\ m[2] \in Int /\ m[3] \in Int /\ m[4] \in Int
  BY DEF Vector
<1> QED
  BY <1>1, AheadOneByOne

(* The criteria are numbers, the first of them the wins.                   *)
LEMMA CriteriaAreNumbers ==
  ASSUME NEW r, NEW table, IsFiniteSet(table), NEW entered,
         \A m \in table, side \in Sides : r[m].scores[side].shido \in Nat
  PROVE  /\ Criteria(r, table, entered) \in [entered -> Vector]
         /\ WinsIn(r, table, entered) \in [entered -> Nat]
         /\ \A c \in entered : Criteria(r, table, entered)[c][1] = WinsIn(r, table, entered)[c]
<1> DEFINE counted == Counted(r, table, entered)
<1>1. counted \subseteq table /\ IsFiniteSet(counted)
  BY FS_Subset DEF Counted
<1> HIDE DEF counted
<1>2. ASSUME NEW S \in SUBSET counted
      PROVE  IsFiniteSet(S) /\ Cardinality(S) \in Nat
  BY <1>1, FS_Subset, FS_CardinalityType
<1>3. ASSUME NEW c
      PROVE  /\ Cardinality(Won(r, counted, c)) \in Nat
             /\ \A winMethod : WinsBy(r, counted, c, winMethod) \in Nat
  <2>1. Won(r, counted, c) \subseteq counted
    BY DEF Won
  <2> QED
    BY <1>2, <2>1 DEF WinsBy
<1>4. ASSUME NEW c PROVE ShidosReceived(r, counted, c) \in Nat
  <2> DEFINE received(m) == r[m].scores[IF r[m].competitor[1] = c THEN 1 ELSE 2].shido
             fought == {m \in counted : \E side \in Sides : r[m].competitor[side] = c}
             of == [m \in fought |-> {m} \X (1..received(m))]
             each == {{m} \X (1..received(m)) : m \in fought}
  <2>1. IsFiniteSet(fought) /\ fought \subseteq table
    BY <1>1, <1>2
  <2>2. \A m \in fought : received(m) \in Nat
    BY <2>1 DEF Sides
  <2>3. \A S \in each : IsFiniteSet(S)
    <3> SUFFICES ASSUME NEW m \in fought PROVE IsFiniteSet({m} \X (1..received(m)))
      OBVIOUS
    <3>1. IsFiniteSet({m})
      BY FS_Singleton
    <3>2. received(m) \in Int
      BY <2>2
    <3> HIDE DEF fought, received
    <3>3. IsFiniteSet(1..received(m))
      BY <3>2, FS_Interval
    <3> QED
      BY <3>1, <3>3, FS_Product
  <2>4. of \in Surjection(fought, each)
    <3> HIDE DEF fought, received
    <3> QED
      BY DEF Surjection
  <2>5. IsFiniteSet(each)
    BY <2>1, <2>4, FS_Surjection
  <2>6. IsFiniteSet(UNION each)
    BY <2>3, <2>5, FS_UNION
  <2>7. ShidosReceived(r, counted, c) = Cardinality(UNION each)
    BY DEF ShidosReceived
  <2> QED
    BY <2>6, <2>7, FS_CardinalityType
<1>5. ASSUME NEW c \in entered
      PROVE  /\ Criteria(r, table, entered)[c] \in Vector
             /\ Criteria(r, table, entered)[c][1] = WinsIn(r, table, entered)[c]
             /\ WinsIn(r, table, entered)[c] \in Nat
  <2> DEFINE a == Cardinality(Won(r, counted, c))
             b == WinsBy(r, counted, c, "IPPON")
             d == WinsBy(r, counted, c, "WAZA_ARI")
             e == ShidosReceived(r, counted, c)
  <2>1. Criteria(r, table, entered)[c] = <<a, b, d, -e>> /\ WinsIn(r, table, entered)[c] = a
    BY DEF Criteria, WinsIn, counted
  <2>2. a \in Nat /\ b \in Nat /\ d \in Nat /\ e \in Nat
    BY <1>3, <1>4
  <2> HIDE DEF a, b, d, e
  <2>3. <<a, b, d, -e>> \in Vector
    BY <2>2 DEF Vector
  <2> QED
    BY <2>1, <2>2, <2>3
<1>6. /\ Criteria(r, table, entered) = [c \in entered |-> Criteria(r, table, entered)[c]]
      /\ WinsIn(r, table, entered) = [c \in entered |-> WinsIn(r, table, entered)[c]]
  BY DEF Criteria, WinsIn
<1> QED
  BY <1>5, <1>6

-----------------------------------------------------------------------------
(* Round robins as a whole: how many matches, and how many in a round.    *)

(* Nobody sits at two places of the circle.                                *)
LEMMA SeatsDiffer ==
  ASSUME NEW size \in Nat, NEW turns \in 0..(size - 2), NEW i \in 1..size, NEW j \in 1..size,
         Seat(size, turns, i) = Seat(size, turns, j)
  PROVE  i = j
BY DEF Seat

(* Nobody is in two matches of a round.                                    *)
LEMMA OnceARound ==
  ASSUME NEW n \in Nat, NEW phase, NEW group,
         NEW m \in DOMAIN RoundRobin(n, phase, group), NEW l \in DOMAIN RoundRobin(n, phase, group),
         m.round = l.round, m # l, NEW s \in {1, 2}, NEW t \in {1, 2}
  PROVE  RoundRobin(n, phase, group)[m][s] # RoundRobin(n, phase, group)[l][t]
<1> DEFINE size == Even(n)
           draw == RoundRobin(n, phase, group)
           place(k, u) == IF u = 1 THEN k.position ELSE size + 1 - k.position
<1>1. PICK half \in Nat : size = 2 * half /\ size \div 2 = half
  <2>1. PICK half \in Nat : size = 2 * half
    BY EvenType
  <2>2. (2 * half) \div 2 = half
    OBVIOUS
  <2> QED
    BY <2>1, <2>2
<1>2. ASSUME NEW k \in DOMAIN draw
      PROVE  /\ k = MatchId(phase, group, k.round, k.position)
             /\ k.round \in 1..(size - 1) /\ k.position \in 1..half
             /\ \A u \in {1, 2} : draw[k][u] = Seat(size, k.round - 1, place(k, u))
  <2>1. k \in CircleMatches(n, phase, group) /\ draw[k][1] = Home(n, k) /\ draw[k][2] = Away(n, k)
    BY RoundRobinFaces
  <2>2. PICK round \in 1..(size - 1), position \in 1..half : k = MatchId(phase, group, round, position)
    BY <1>1, <2>1 DEF CircleMatches
  <2>3. k.round = round /\ k.position = position
    BY <2>2 DEF MatchId
  <2>4. \A u \in {1, 2} : draw[k][u] = Seat(size, k.round - 1, place(k, u))
    BY <2>1 DEF Home, Away
  <2> QED
    BY <2>2, <2>3, <2>4
<1>3. m.position # l.position
  BY <1>2
<1>4. /\ m.position \in 1..half /\ l.position \in 1..half /\ m.round - 1 \in 0..(size - 2)
      /\ size \in Nat
  BY <1>1, <1>2
<1>5. /\ place(m, s) \in 1..size /\ place(l, t) \in 1..size /\ place(m, s) # place(l, t)
  BY <1>1, <1>3, <1>4
<1>6. Seat(size, m.round - 1, place(m, s)) # Seat(size, m.round - 1, place(l, t))
  <2> HIDE DEF size, place
  <2> QED
    BY <1>4, <1>5, SeatsDiffer
<1> QED
  BY <1>2, <1>6

-----------------------------------------------------------------------------
(* The pairs of n competitors.                                             *)
PairsOf(n) == {{a, b} : a \in 0..(n - 1), b \in 0..(n - 1)} \ {{a} : a \in 0..(n - 1)}

(* They are as many as n * (n - 1) / 2.                                    *)
LEMMA PairsCounted ==
  ASSUME NEW n \in Nat
  PROVE  IsFiniteSet(PairsOf(n)) /\ 2 * Cardinality(PairsOf(n)) = n * (n - 1)
<1> DEFINE AsMany(k) == IsFiniteSet(PairsOf(k)) /\ 2 * Cardinality(PairsOf(k)) = k * (k - 1)
           fails == {k \in Nat : ~AsMany(k)}
<1>1. AsMany(0)
  <2>1. PairsOf(0) = {}
    BY DEF PairsOf
  <2> QED
    BY <2>1, FS_EmptySet
<1>2. ASSUME NEW k \in Nat, AsMany(k)
      PROVE  AsMany(k + 1)
  <2> DEFINE old == 0..(k - 1)
             new == {{a, k} : a \in old}
             with == [a \in old |-> {a, k}]
  <2>1. PairsOf(k + 1) = PairsOf(k) \cup new
    <3>1. 0..((k + 1) - 1) = old \cup {k} /\ k \notin old
      OBVIOUS
    <3> HIDE DEF old
    <3> QED
      BY <3>1 DEF PairsOf, old
  <2>2. PairsOf(k) \cap new = {}
    <3>1. k \notin old
      OBVIOUS
    <3> HIDE DEF old
    <3> QED
      BY <3>1 DEF PairsOf, old
  <2>3. IsFiniteSet(old) /\ Cardinality(old) = k
    BY FS_Interval
  <2>4. IsFiniteSet(new) /\ Cardinality(new) = k
    <3>1. with \in Injection(old, new) /\ with \in Surjection(old, new)
      <4>1. \A a, b \in old : {a, k} = {b, k} => a = b
        OBVIOUS
      <4> HIDE DEF old
      <4> QED
        BY <4>1 DEF Injection, Surjection, IsInjective
    <3>2. IsFiniteSet(new)
      <4> HIDE DEF old, new, with
      <4> QED
        BY <2>3, <3>1, FS_Surjection
    <3>3. Cardinality(old) = Cardinality(new)
      <4> HIDE DEF old, new, with
      <4> QED
        BY <2>3, <3>1, <3>2, FS_Injection
    <3> QED
      BY <2>3, <3>2, <3>3
  <2> HIDE DEF new
  <2>5. IsFiniteSet(PairsOf(k) \cup new) /\ Cardinality(PairsOf(k) \cup new) = Cardinality(PairsOf(k)) + k
    <3>1. Cardinality(PairsOf(k) \cup new) = Cardinality(PairsOf(k)) + Cardinality(new) - Cardinality(PairsOf(k) \cap new)
      BY <1>2, <2>4, FS_Union
    <3>2. Cardinality(PairsOf(k) \cap new) = 0
      BY <2>2, FS_EmptySet
    <3>3. Cardinality(PairsOf(k)) \in Nat
      BY <1>2, FS_CardinalityType
    <3>4. IsFiniteSet(PairsOf(k) \cup new)
      BY <1>2, <2>4, FS_Union
    <3> QED
      BY <2>4, <3>1, <3>2, <3>3, <3>4
  <2>6. Cardinality(PairsOf(k)) \in Nat
    BY <1>2, FS_CardinalityType
  <2>7. (k + 1) * ((k + 1) - 1) = k * (k - 1) + 2 * k
    OBVIOUS
  <2>8. IsFiniteSet(PairsOf(k + 1)) /\ Cardinality(PairsOf(k + 1)) = Cardinality(PairsOf(k)) + k
    BY <2>1, <2>5
  <2>9. 2 * (Cardinality(PairsOf(k)) + k) = 2 * Cardinality(PairsOf(k)) + 2 * k
    BY <2>6
  <2>10. 2 * Cardinality(PairsOf(k)) = k * (k - 1)
    BY <1>2
  <2> QED
    BY <2>7, <2>8, <2>9, <2>10
<1>3. fails = {}
  <2> SUFFICES ASSUME fails # {} PROVE FALSE
    OBVIOUS
  <2> HIDE DEF AsMany
  <2>1. PICK k \in fails : \A l \in fails : k <= l
    <3>1. fails \subseteq Nat
      OBVIOUS
    <3> HIDE DEF fails
    <3> QED
      BY <3>1, LeastNatural
  <2>2. k # 0
    BY <1>1
  <2>3. k - 1 \in Nat /\ AsMany(k - 1) /\ (k - 1) + 1 = k
    BY <2>1, <2>2
  <2> QED
    BY <1>2, <2>1, <2>3
<1> HIDE DEF AsMany
<1>4. AsMany(n)
  BY <1>3
<1> QED
  BY <1>4 DEF AsMany

(* And as many are the matches of a round robin.                           *)
LEMMA RoundRobinCounted ==
  ASSUME NEW n \in Nat, NEW phase, NEW group
  PROVE  Cardinality(DOMAIN RoundRobin(n, phase, group)) = (n * (n - 1)) \div 2
<1> DEFINE draw == RoundRobin(n, phase, group)
           players == 0..(n - 1)
           pair == [m \in DOMAIN draw |-> {draw[m][1], draw[m][2]}]
<1>1. /\ \A m \in DOMAIN draw :
           draw[m][1] \in players /\ draw[m][2] \in players /\ draw[m][1] # draw[m][2]
      /\ \A a, b \in players : a # b => \E m \in DOMAIN draw : {draw[m][1], draw[m][2]} = {a, b}
      /\ \A m, l \in DOMAIN draw : {draw[m][1], draw[m][2]} = {draw[l][1], draw[l][2]} => m = l
  BY RoundRobinIsComplete DEF EachPairOnce
<1>2. IsFiniteSet(DOMAIN draw)
  BY RoundRobinMatches
<1> HIDE DEF draw, players
<1>3. pair \in [DOMAIN draw -> PairsOf(n)]
  <2>1. ASSUME NEW a \in players, NEW b \in players, a # b PROVE {a, b} \in PairsOf(n)
    BY <2>1 DEF PairsOf, players
  <2> QED
    BY <1>1, <2>1
<1>4. \A x \in PairsOf(n) : \E m \in DOMAIN draw : pair[m] = x
  <2> SUFFICES ASSUME NEW x \in PairsOf(n) PROVE \E m \in DOMAIN draw : pair[m] = x
    OBVIOUS
  <2>1. PICK a \in players, b \in players : x = {a, b} /\ a # b
    BY DEF PairsOf, players
  <2> QED
    BY <1>1, <2>1
<1>5. pair \in Injection(DOMAIN draw, PairsOf(n)) /\ pair \in Surjection(DOMAIN draw, PairsOf(n))
  BY <1>1, <1>3, <1>4 DEF Injection, Surjection, IsInjective
<1> HIDE DEF pair
<1>6. Cardinality(DOMAIN draw) = Cardinality(PairsOf(n))
  BY <1>2, <1>5, FS_Injection, FS_Surjection, PairsCounted
<1>7. 2 * Cardinality(PairsOf(n)) = n * (n - 1) /\ Cardinality(PairsOf(n)) \in Nat
  BY PairsCounted, FS_CardinalityType
<1>8. (2 * Cardinality(PairsOf(n))) \div 2 = Cardinality(PairsOf(n))
  BY <1>7
<1> QED
  BY <1>6, <1>7, <1>8 DEF draw

(* Each pool is a round robin of its members.                              *)
LEMMA PoolIsRoundRobin ==
  ASSUME NEW n \in 5..15, NEW group \in PoolGroups
  PROVE  LET members == SplitIntoPools(n)[group]
             draw == RoundRobin(Len(members), "POOL", group)
         IN  /\ DrawnIn(Pools(n), group) = DOMAIN draw
             /\ \A m \in DOMAIN draw, s \in {1, 2} :
                  /\ draw[m][s] + 1 \in 1..Len(members) /\ draw[m][s] \in Int
                  /\ Pools(n)[m][s] = members[draw[m][s] + 1]
<1> DEFINE members(g) == SplitIntoPools(n)[g]
           draw(g) == RoundRobin(Len(members(g)), "POOL", g)
           seated(g) == Seated(draw(g), members(g))
<1>1. /\ DOMAIN Pools(n) = DOMAIN seated("A") \cup DOMAIN seated("B")
      /\ \A m \in DOMAIN Pools(n) : Pools(n)[m] = seated(m.group)[m]
  BY DEF Pools
<1>2. \A g \in PoolGroups : Len(members(g)) \in Nat
  BY MembersOfPools
<1>3. \A g \in PoolGroups : DOMAIN seated(g) = DOMAIN draw(g) /\ \A m \in DOMAIN draw(g) : m.group = g
  <2> SUFFICES ASSUME NEW g \in PoolGroups
               PROVE  DOMAIN seated(g) = DOMAIN draw(g) /\ \A m \in DOMAIN draw(g) : m.group = g
    OBVIOUS
  <2>1. \A m \in DOMAIN draw(g) : m.group = g
    BY <1>2, RoundRobinMatches
  <2> HIDE DEF draw, members
  <2> QED
    BY <2>1 DEF Seated
<1>4. \A m \in DOMAIN draw(group), s \in {1, 2} : draw(group)[m][s] \in 0..(Len(members(group)) - 1)
  BY <1>2, RoundRobinIsComplete DEF EachPairOnce
<1> HIDE DEF draw, members
<1>5. DrawnIn(Pools(n), group) = DOMAIN draw(group)
  <2> HIDE DEF seated
  <2> QED
    BY <1>1, <1>3 DEF DrawnIn, PoolGroups
<1>6. ASSUME NEW m \in DOMAIN draw(group), NEW s \in {1, 2}
      PROVE  /\ draw(group)[m][s] + 1 \in 1..Len(members(group)) /\ draw(group)[m][s] \in Int
             /\ Pools(n)[m][s] = members(group)[draw(group)[m][s] + 1]
  <2>1. m \in DOMAIN Pools(n) /\ m.group = group
    BY <1>5 DEF DrawnIn
  <2>2. Pools(n)[m] = seated(group)[m]
    BY <1>1, <2>1
  <2>3. draw(group)[m][s] \in 0..(Len(members(group)) - 1) /\ draw(group)[m][s] # Nobody
    BY <1>4 DEF Nobody
  <2>4. seated(group)[m][s] = members(group)[draw(group)[m][s] + 1]
    BY <2>3 DEF Seated
  <2> QED
    BY <1>2, <2>2, <2>3, <2>4
<1> QED
  BY <1>5, <1>6 DEF draw, members

(* Everybody is a member of one of the pools.                              *)
LEMMA PoolsSeatAll ==
  ASSUME NEW n \in 5..15, NEW c \in 0..(n - 1)
  PROVE  \E group \in PoolGroups :
           \E i \in 1..Len(SplitIntoPools(n)[group]) : SplitIntoPools(n)[group][i] = c
<1> DEFINE size(group) == (IF group = "A" THEN n + 1 ELSE n) \div 2
           at(group, i) == IF group = "A" THEN 2 * (i - 1) ELSE 2 * i - 1
<1>1. \A group \in PoolGroups : SplitIntoPools(n)[group] = [i \in 1..size(group) |-> at(group, i)]
  BY DEF SplitIntoPools, PoolGroups
<1>2. \A group \in PoolGroups : Len(SplitIntoPools(n)[group]) = size(group)
  <2> SUFFICES ASSUME NEW group \in PoolGroups PROVE Len(SplitIntoPools(n)[group]) = size(group)
    OBVIOUS
  <2> DEFINE members == SplitIntoPools(n)[group]
  <2>1. size(group) \in Nat
    OBVIOUS
  <2>2. Len(members) \in Nat /\ DOMAIN members = 1..Len(members) /\ Len(members) \in 2..n
    BY MembersOfPools
  <2> HIDE DEF size
  <2>3. DOMAIN members = 1..size(group)
    BY <1>1
  <2> HIDE DEF members
  <2>4. Len(members) = size(group)
    BY <2>1, <2>2, <2>3
  <2> QED
    BY <2>4 DEF members
<1>3. \E group \in PoolGroups : \E i \in 1..size(group) : at(group, i) = c
  <2>1. CASE c % 2 = 0
    <3>1. (c \div 2) + 1 \in 1..size("A") /\ at("A", (c \div 2) + 1) = c
      BY <2>1
    <3> QED
      BY <3>1 DEF PoolGroups
  <2>2. CASE c % 2 # 0
    <3>1. (c + 1) \div 2 \in 1..size("B") /\ at("B", (c + 1) \div 2) = c
      BY <2>2
    <3> QED
      BY <3>1 DEF PoolGroups
  <2> QED
    BY <2>1, <2>2
<1> HIDE DEF size, at
<1>4. PICK group \in PoolGroups : \E i \in 1..size(group) : at(group, i) = c
  BY <1>3
<1>5. PICK i \in 1..size(group) : at(group, i) = c
  BY <1>4
<1>6. SplitIntoPools(n)[group][i] = c
  BY <1>1, <1>5
<1> QED
  BY <1>2, <1>6

(* In a pool each two have one match, nobody two in a round, and there are *)
(* as many matches as pairs.                                               *)
LEMMA PoolsAreComplete ==
  ASSUME NEW n \in 5..15, NEW group \in PoolGroups
  PROVE  LET draw == Pools(n)
             members == SplitIntoPools(n)[group]
             pair(m) == {draw[m][1], draw[m][2]}
         IN  /\ \A a, b \in EnteredIn(draw, group) : a # b => \E m \in DrawnIn(draw, group) : pair(m) = {a, b}
             /\ \A m, l \in DrawnIn(draw, group) : pair(m) = pair(l) => m = l
             /\ \A i \in 1..Len(members) : members[i] \in EnteredIn(draw, group)
             /\ \A m, l \in DrawnIn(draw, group), s, t \in {1, 2} :
                  m.round = l.round /\ m # l => draw[m][s] # draw[l][t]
             /\ Cardinality(DrawnIn(draw, group)) = (Len(members) * (Len(members) - 1)) \div 2
<1> DEFINE members == SplitIntoPools(n)[group]
           size == Len(members)
           places == RoundRobin(size, "POOL", group)
           draw == Pools(n)
           drawn == DrawnIn(draw, group)
           entered == EnteredIn(draw, group)
<1>1. /\ size \in Nat /\ size >= 2
      /\ \A i, j \in 1..size : members[i] = members[j] => i = j
  <2>1. /\ size \in Nat /\ size \in 2..n
        /\ \A i, j \in 1..size : members[i] = members[j] => i = j
    BY MembersOfPools
  <2> HIDE DEF members, size
  <2> QED
    BY <2>1
<1>2. /\ drawn = DOMAIN places
      /\ \A m \in drawn, s \in {1, 2} :
           /\ places[m][s] + 1 \in 1..size /\ places[m][s] \in Int
           /\ draw[m][s] = members[places[m][s] + 1]
  BY PoolIsRoundRobin
<1> HIDE DEF members, size
<1> HIDE DEF drawn
<1>3. /\ \A a, b \in 0..(size - 1) : a # b => \E m \in drawn : {places[m][1], places[m][2]} = {a, b}
      /\ \A m, l \in drawn : {places[m][1], places[m][2]} = {places[l][1], places[l][2]} => m = l
  <2>1. EachPairOnce(size, "POOL", group)
    BY <1>1, RoundRobinIsComplete
  <2> QED
    BY <1>2, <2>1 DEF EachPairOnce
<1>4. \A m, l \in drawn, s, t \in {1, 2} : m.round = l.round /\ m # l => places[m][s] # places[l][t]
  <2> SUFFICES ASSUME NEW m \in drawn, NEW l \in drawn, NEW s \in {1, 2}, NEW t \in {1, 2},
                      m.round = l.round, m # l
               PROVE  places[m][s] # places[l][t]
    OBVIOUS
  <2>1. m \in DOMAIN places /\ l \in DOMAIN places
    BY <1>2
  <2> QED
    BY <1>1, <2>1, OnceARound
<1>5. Cardinality(drawn) = (size * (size - 1)) \div 2
  BY <1>1, <1>2, RoundRobinCounted
<1>6. entered = {draw[m][s] : m \in drawn, s \in {1, 2}}
  BY DEF EnteredIn, drawn
<1> HIDE DEF places, draw, entered
<1>7. \A m, l \in drawn, s, t \in {1, 2} : draw[m][s] = draw[l][t] => places[m][s] = places[l][t]
  BY <1>1, <1>2
<1>8. ASSUME NEW i \in 1..size, NEW j \in 1..size, i # j
      PROVE  \E m \in drawn : {draw[m][1], draw[m][2]} = {members[i], members[j]}
  <2>1. i - 1 \in 0..(size - 1) /\ j - 1 \in 0..(size - 1) /\ i - 1 # j - 1
    BY <1>1, <1>8
  <2>2. PICK m \in drawn : {places[m][1], places[m][2]} = {i - 1, j - 1}
    BY <1>3, <2>1
  <2>3. \/ places[m][1] + 1 = i /\ places[m][2] + 1 = j
        \/ places[m][1] + 1 = j /\ places[m][2] + 1 = i
    BY <1>1, <2>2
  <2>4. draw[m][1] = members[places[m][1] + 1] /\ draw[m][2] = members[places[m][2] + 1]
    BY <1>2
  <2> QED
    BY <2>3, <2>4
<1>9. ASSUME NEW a \in entered, NEW b \in entered, a # b
      PROVE  \E m \in drawn : {draw[m][1], draw[m][2]} = {a, b}
  <2>1. \A c \in entered : \E i \in 1..size : c = members[i]
    BY <1>2, <1>6
  <2>2. PICK i \in 1..size, j \in 1..size : a = members[i] /\ b = members[j]
    BY <2>1
  <2> QED
    BY <1>8, <1>9, <2>2
<1>10. ASSUME NEW i \in 1..size PROVE members[i] \in entered
  <2>1. PICK j \in 1..size : j # i
    <3>1. 1 \in 1..size /\ 2 \in 1..size
      BY <1>1
    <3> QED
      BY <3>1
  <2>2. PICK m \in drawn : {draw[m][1], draw[m][2]} = {members[i], members[j]}
    BY <1>8, <2>1
  <2>3. PICK s \in {1, 2} : draw[m][s] = members[i]
    BY <2>2
  <2> QED
    BY <1>6, <2>3
<1>11. ASSUME NEW m \in drawn, NEW l \in drawn, {draw[m][1], draw[m][2]} = {draw[l][1], draw[l][2]}
       PROVE  m = l
  <2>1. \/ draw[m][1] = draw[l][1] /\ draw[m][2] = draw[l][2]
        \/ draw[m][1] = draw[l][2] /\ draw[m][2] = draw[l][1]
    BY <1>11
  <2>2. {places[m][1], places[m][2]} = {places[l][1], places[l][2]}
    BY <1>7, <2>1
  <2> QED
    BY <1>3, <2>2
<1>12. \A m, l \in drawn, s, t \in {1, 2} : m.round = l.round /\ m # l => draw[m][s] # draw[l][t]
  BY <1>4, <1>7
<1> QED
  BY <1>5, <1>9, <1>10, <1>11, <1>12 DEF members, size, draw, drawn, entered

-----------------------------------------------------------------------------
(* A sum over a set is a fold, that is a recursive function of its subsets.*)
(* It is shown to be defined, and to add in any order.                     *)

SumStep(f, g, s) == IF s = {} THEN 0 ELSE LET x == CHOOSE y \in s : TRUE IN f[x] + g[s \ {x}]

IsSum(f, S, g) == g = [s \in SUBSET S |-> SumStep(f, g, s)]

SumOf(f, S) == (CHOOSE g : IsSum(f, S, g))[S]

(* What is taken out of a set first leaves a smaller set.                  *)
LEMMA Smaller ==
  ASSUME NEW S, IsFiniteSet(S), NEW s \in SUBSET S, s # {}
  PROVE  LET x == CHOOSE y \in s : TRUE
         IN  /\ x \in s /\ s \ {x} \in SUBSET S
             /\ IsFiniteSet(s) /\ Cardinality(s) \in Nat \ {0}
             /\ Cardinality(s \ {x}) = Cardinality(s) - 1
<1>1. (CHOOSE y \in s : TRUE) \in s
  OBVIOUS
<1>2. IsFiniteSet(s) /\ Cardinality(s) \in Nat /\ Cardinality(s) # 0
  BY FS_Subset, FS_CardinalityType, FS_EmptySet
<1> QED
  BY <1>1, <1>2, FS_RemoveElement

Recurs(f, T, g) == \A s \in SUBSET T : g[s] = SumStep(f, g, s)

LEMMA SumAgrees ==
  ASSUME NEW f, NEW S, IsFiniteSet(S), NEW T \in SUBSET S,
         NEW g, Recurs(f, T, g), NEW h, Recurs(f, T, h)
  PROVE  g[T] = h[T]
<1> DEFINE differ == {n \in Nat : \E s \in SUBSET T : Cardinality(s) = n /\ g[s] # h[s]}
<1>1. ASSUME differ # {} PROVE FALSE
  <2>1. PICK n \in differ : \A k \in differ : n <= k
    BY <1>1, LeastNatural
  <2>2. PICK s \in SUBSET T : Cardinality(s) = n /\ g[s] # h[s]
    OBVIOUS
  <2>3. s # {}
    BY <2>2 DEF SumStep, Recurs
  <2> DEFINE x == CHOOSE y \in s : TRUE
             rest == s \ {x}
  <2>4. rest \in SUBSET T /\ Cardinality(rest) = n - 1 /\ n - 1 \in Nat
    <3>1. s \in SUBSET S
      OBVIOUS
    <3> QED
      BY <2>2, <2>3, <3>1, Smaller
  <2>5. g[rest] = h[rest]
    <3> HIDE DEF rest
    <3>1. n \in Nat /\ ~(n <= n - 1)
      BY <2>1
    <3> QED
      BY <2>1, <2>4, <3>1
  <2>6. g[s] = f[x] + g[rest] /\ h[s] = f[x] + h[rest]
    BY <2>3 DEF SumStep, Recurs
  <2> QED
    BY <2>2, <2>5, <2>6
<1>2. IsFiniteSet(T) /\ Cardinality(T) \in Nat
  BY FS_Subset, FS_CardinalityType
<1> QED
  BY <1>1, <1>2

LEMMA SumExists ==
  ASSUME NEW f, NEW S, IsFiniteSet(S)
  PROVE  \E g : IsSum(f, S, g)
<1> DEFINE small(n) == {s \in SUBSET S : Cardinality(s) <= n}
           Upto(n, g) == g = [s \in small(n) |-> SumStep(f, g, s)]
           none == {n \in Nat : ~\E g : Upto(n, g)}
<1>1. ASSUME NEW n \in Nat, ~\E g : Upto(n, g) PROVE FALSE
  <2>1. none # {} /\ none \in SUBSET Nat
    BY <1>1
  <2>2. PICK k \in none : \A j \in none : k <= j
    <3> HIDE DEF none
    <3> QED
      BY <2>1, LeastNatural
  <2>3. k \in Nat /\ ~\E g : Upto(k, g)
    OBVIOUS
  <2>4. k # 0
    <3> SUFFICES ASSUME k = 0 PROVE FALSE
      OBVIOUS
    <3>1. \A s \in small(0) : s = {}
      <4> SUFFICES ASSUME NEW s \in small(0) PROVE s = {}
        OBVIOUS
      <4>1. IsFiniteSet(s) /\ Cardinality(s) \in Nat /\ Cardinality(s) <= 0
        BY FS_Subset, FS_CardinalityType
      <4>2. Cardinality(s) = 0
        BY <4>1
      <4> QED
        BY <4>1, <4>2, FS_EmptySet
    <3>2. \A g : \A s \in small(0) : SumStep(f, g, s) = 0
      BY <3>1 DEF SumStep
    <3>3. Upto(0, [s \in small(0) |-> 0])
      <4> HIDE DEF small
      <4> QED
        BY <3>2
    <3> HIDE DEF Upto
    <3> QED
      BY <2>3, <3>3
  <2>5. k - 1 \in Nat /\ k - 1 < k
    BY <2>3, <2>4
  <2>6. PICK g : Upto(k - 1, g)
    <3> HIDE DEF Upto
    <3>1. k - 1 \notin none
      <4> HIDE DEF none
      <4> QED
        BY <2>2, <2>3, <2>5
    <3> QED
      BY <2>5, <3>1
  <2> DEFINE next == [s \in small(k) |-> SumStep(f, g, s)]
  <2>7. \A s \in small(k - 1) : s \in small(k) /\ g[s] = SumStep(f, g, s)
    <3>1. \A s \in small(k - 1) : s \in small(k)
      <4> SUFFICES ASSUME NEW s \in small(k - 1) PROVE s \in small(k)
        OBVIOUS
      <4>1. Cardinality(s) \in Nat /\ Cardinality(s) <= k - 1
        BY FS_Subset, FS_CardinalityType
      <4> QED
        BY <2>3, <4>1
    <3>2. g = [s \in small(k - 1) |-> SumStep(f, g, s)]
      BY <2>6
    <3> HIDE DEF small
    <3> QED
      BY <3>1, <3>2
  <2>8. ASSUME NEW s \in small(k) PROVE SumStep(f, g, s) = SumStep(f, next, s)
    <3>1. CASE s = {}
      BY <3>1 DEF SumStep
    <3>2. CASE s # {}
      <4> DEFINE x == CHOOSE y \in s : TRUE
                 rest == s \ {x}
      <4>1. rest \in small(k - 1)
        <5>1. s \in SUBSET S /\ Cardinality(s) <= k
          BY <2>8
        <5>2. rest \in SUBSET S /\ Cardinality(s) \in Nat /\ Cardinality(rest) = Cardinality(s) - 1
          BY <3>2, <5>1, Smaller
        <5> QED
          BY <2>3, <5>1, <5>2
      <4>2. next[rest] = g[rest]
        <5> HIDE DEF small, rest
        <5> QED
          BY <2>7, <4>1
      <4> QED
        BY <3>2, <4>2 DEF SumStep
    <3> QED
      BY <3>1, <3>2
  <2>9. Upto(k, next)
    <3> HIDE DEF small
    <3> QED
      BY <2>8
  <2> HIDE DEF Upto, next
  <2> QED
    BY <2>3, <2>9
<1>2. Cardinality(S) \in Nat
  BY FS_CardinalityType
<1>3. PICK g : Upto(Cardinality(S), g)
  <2> HIDE DEF Upto
  <2> QED
    BY <1>1, <1>2
<1>4. small(Cardinality(S)) = SUBSET S
  BY FS_Subset
<1>5. IsSum(f, S, g)
  BY <1>3, <1>4 DEF IsSum
<1> QED
  BY <1>5

LEMMA SumRecursion ==
  ASSUME NEW f, NEW S, IsFiniteSet(S)
  PROVE  /\ SumOf(f, {}) = 0
         /\ S # {} => LET x == CHOOSE y \in S : TRUE
                      IN  SumOf(f, S) = f[x] + SumOf(f, S \ {x})
<1> DEFINE sum(T) == CHOOSE g : IsSum(f, T, g)
<1>1. ASSUME NEW T \in SUBSET S PROVE \A s \in SUBSET T : sum(T)[s] = SumStep(f, sum(T), s)
  <2>1. IsFiniteSet(T)
    BY FS_Subset
  <2>2. IsSum(f, T, sum(T))
    <3>1. \E g : IsSum(f, T, g)
      BY <2>1, SumExists
    <3> QED
      BY <3>1
  <2> HIDE DEF sum
  <2> QED
    BY <2>2 DEF IsSum
<1>2. \A T \in SUBSET S : SumOf(f, T) = sum(T)[T]
  BY DEF SumOf
<1> HIDE DEF sum
<1>3. ASSUME NEW T \in SUBSET S PROVE sum(T)[T] = sum(S)[T]
  <2>1. Recurs(f, T, sum(T)) /\ Recurs(f, T, sum(S))
    BY <1>1 DEF Recurs
  <2> QED
    BY <2>1, SumAgrees
<1>4. \A s \in SUBSET S : SumOf(f, s) = SumStep(f, sum(S), s)
  BY <1>1, <1>2, <1>3
<1>5. \A s \in SUBSET S : SumOf(f, s) = sum(S)[s]
  BY <1>2, <1>3
<1> QED
  BY <1>4, <1>5 DEF SumStep

LEMMA SumOfNaturals ==
  ASSUME NEW S, IsFiniteSet(S), NEW f, \A x \in S : f[x] \in Nat
  PROVE  SumOf(f, S) \in Nat
<1> DEFINE wrong == {n \in Nat : \E s \in SUBSET S : Cardinality(s) = n /\ SumOf(f, s) \notin Nat}
<1>1. ASSUME wrong # {} PROVE FALSE
  <2>1. PICK n \in wrong : \A k \in wrong : n <= k
    <3>1. wrong \in SUBSET Nat
      OBVIOUS
    <3> HIDE DEF wrong
    <3> QED
      BY <1>1, <3>1, LeastNatural
  <2>2. n \in Nat /\ \E s \in SUBSET S : Cardinality(s) = n /\ SumOf(f, s) \notin Nat
    OBVIOUS
  <2>8. PICK s \in SUBSET S : Cardinality(s) = n /\ SumOf(f, s) \notin Nat
    BY <2>2
  <2>3. IsFiniteSet(s) /\ s # {}
    <3>1. SumOf(f, {}) \in Nat
      <4>1. SumOf(f, {}) = 0
        BY SumRecursion, Zenon
      <4> QED
        BY <4>1
    <3>2. IsFiniteSet(s)
      BY FS_Subset
    <3>3. s # {}
      <4> HIDE DEF wrong
      <4> QED
        BY <2>8, <3>1
    <3> QED
      BY <3>2, <3>3
  <2> DEFINE x == CHOOSE y \in s : TRUE
             rest == s \ {x}
  <2>4. SumOf(f, s) = f[x] + SumOf(f, rest)
    BY <2>3, SumRecursion
  <2>5. x \in s /\ rest \in SUBSET S /\ Cardinality(rest) = n - 1 /\ n - 1 \in Nat
    BY <2>2, <2>8, <2>3, Smaller
  <2> HIDE DEF rest
  <2>6. SumOf(f, rest) \in Nat
    <3>1. n \in Nat /\ ~(n <= n - 1)
      BY <2>1
    <3>2. n - 1 \notin wrong
      <4> HIDE DEF wrong
      <4> QED
        BY <2>1, <2>5, <3>1
    <3> QED
      BY <2>5, <3>2
  <2> HIDE DEF x
  <2>7. f[x] \in Nat
    BY <2>5
  <2> QED
    BY <2>8, <2>4, <2>6, <2>7
<1>2. Cardinality(S) \in Nat
  BY FS_CardinalityType
<1> QED
  BY <1>1, <1>2

(* Any element may be added last.                                          *)
LEMMA SumAdds ==
  ASSUME NEW S, IsFiniteSet(S), NEW f, \A y \in S : f[y] \in Nat, NEW x \in S
  PROVE  SumOf(f, S) = f[x] + SumOf(f, S \ {x})
<1> DEFINE Splits(s) == \A z \in s : SumOf(f, s) = f[z] + SumOf(f, s \ {z})
           wrong == {n \in Nat : \E s \in SUBSET S : Cardinality(s) = n /\ ~Splits(s)}
<1>1. ASSUME wrong # {} PROVE FALSE
  <2>1. PICK n \in wrong : \A k \in wrong : n <= k
    <3>1. wrong \in SUBSET Nat
      OBVIOUS
    <3> HIDE DEF wrong
    <3> QED
      BY <1>1, <3>1, LeastNatural
  <2>2. n \in Nat /\ \E s \in SUBSET S : Cardinality(s) = n /\ ~Splits(s)
    OBVIOUS
  <2>3. PICK s \in SUBSET S : Cardinality(s) = n /\ ~Splits(s)
    BY <2>2
  <2>4. PICK z \in s : SumOf(f, s) # f[z] + SumOf(f, s \ {z})
    BY <2>3
  <2> DEFINE c == CHOOSE y \in s : TRUE
             both == (s \ {c}) \ {z}
  <2>5. SumOf(f, s) = f[c] + SumOf(f, s \ {c})
    BY <2>4, FS_Subset, SumRecursion
  <2>6. c \in s /\ IsFiniteSet(s) /\ \A y \in s : /\ s \ {y} \in SUBSET S
                                              /\ Cardinality(s \ {y}) = n - 1 /\ n - 1 \in Nat
    <3>1. c \in s /\ IsFiniteSet(s) /\ Cardinality(s) \in Nat
      BY <2>4, FS_Subset, FS_CardinalityType
    <3>2. Cardinality(s) # 0
      BY <2>4, <3>1, FS_EmptySet
    <3>3. \A y \in s : Cardinality(s \ {y}) = Cardinality(s) - 1
      BY <3>1, FS_RemoveElement
    <3>4. \A y \in s : s \ {y} \in SUBSET S
      OBVIOUS
    <3> HIDE DEF c
    <3> QED
      BY <2>3, <3>1, <3>2, <3>3, <3>4
  <2>7. \A y \in s : Splits(s \ {y})
    <3> HIDE DEF Splits
    <3> SUFFICES ASSUME NEW y \in s, ~Splits(s \ {y}) PROVE FALSE
      OBVIOUS
    <3>1. n - 1 \in wrong
      BY <2>6
    <3> HIDE DEF wrong
    <3> QED
      BY <2>1, <2>2, <3>1
  <2>8. c # z
    BY <2>4, <2>5
  <2>9. both = (s \ {z}) \ {c} /\ z \in s \ {c} /\ c \in s \ {z} /\ both \in SUBSET S
    BY <2>6, <2>8
  <2>10. /\ SumOf(f, s \ {c}) = f[z] + SumOf(f, both)
         /\ SumOf(f, s \ {z}) = f[c] + SumOf(f, both)
    BY <2>6, <2>7, <2>9
  <2>11. SumOf(f, both) \in Nat
    <3> HIDE DEF both
    <3>1. IsFiniteSet(both)
      BY <2>9, FS_Subset
    <3> QED
      BY <2>9, <3>1, SumOfNaturals
  <2>12. f[c] \in Nat /\ f[z] \in Nat
    BY <2>6
  <2> HIDE DEF both, c
  <2> QED
    BY <2>4, <2>5, <2>10, <2>11, <2>12
<1>2. Cardinality(S) \in Nat
  BY FS_CardinalityType
<1>3. Splits(S)
  <2> HIDE DEF Splits
  <2> QED
    BY <1>1, <1>2
<1> QED
  BY <1>3

(* The values a function takes on a finite set.                            *)
LEMMA ValuesAreFinite ==
  ASSUME NEW S, IsFiniteSet(S), NEW f
  PROVE  IsFiniteSet({f[x] : x \in S})
<1> DEFINE T == {f[x] : x \in S}
           g == [x \in S |-> f[x]]
<1>1. g \in Surjection(S, T)
  BY DEF Surjection
<1> HIDE DEF g, T
<1>2. IsFiniteSet(T)
  BY <1>1, FS_Surjection
<1> QED
  BY <1>2 DEF T

(* The members of a set, counted by a value each of them has.              *)
OfValue(S, f, x) == {m \in S : f[m] = x}

LEMMA CountedByValue ==
  ASSUME NEW T, IsFiniteSet(T), NEW S, IsFiniteSet(S), NEW f, \A m \in S : f[m] \in T,
         NEW g, \A x \in T : g[x] = Cardinality(OfValue(S, f, x))
  PROVE  SumOf(g, T) = Cardinality(S)
<1> DEFINE with(s) == {m \in S : f[m] \in s}
           wrong == {n \in Nat : \E s \in SUBSET T : Cardinality(s) = n /\ SumOf(g, s) # Cardinality(with(s))}
<1>1. ASSUME wrong # {} PROVE FALSE
  <2>1. PICK n \in wrong : \A k \in wrong : n <= k
    <3>1. wrong \in SUBSET Nat
      OBVIOUS
    <3> HIDE DEF wrong
    <3> QED
      BY <1>1, <3>1, LeastNatural
  <2>2. n \in Nat /\ \E s \in SUBSET T : Cardinality(s) = n /\ SumOf(g, s) # Cardinality(with(s))
    OBVIOUS
  <2>3. PICK s \in SUBSET T : Cardinality(s) = n /\ SumOf(g, s) # Cardinality(with(s))
    BY <2>2
  <2>4. IsFiniteSet(s) /\ s # {}
    <3>1. SumOf(g, {}) = 0
      BY SumRecursion, Zenon
    <3>2. Cardinality(with({})) = 0
      <4>1. with({}) = {}
        OBVIOUS
      <4> HIDE DEF with
      <4> QED
        BY <4>1, FS_EmptySet
    <3>3. IsFiniteSet(s)
      BY FS_Subset
    <3> HIDE DEF wrong, with
    <3> QED
      BY <2>3, <3>1, <3>2, <3>3
  <2> DEFINE x == CHOOSE y \in s : TRUE
             rest == s \ {x}
             these == OfValue(S, f, x)
  <2>5. SumOf(g, s) = g[x] + SumOf(g, rest)
    BY <2>4, SumRecursion
  <2>6. x \in s /\ rest \in SUBSET T /\ Cardinality(rest) = n - 1 /\ n - 1 \in Nat
    BY <2>2, <2>3, <2>4, Smaller
  <2>7. with(s) = these \cup with(rest) /\ these \cap with(rest) = {}
    BY <2>6 DEF OfValue
  <2>8. IsFiniteSet(these) /\ IsFiniteSet(with(rest)) /\ Cardinality(these) \in Nat /\ Cardinality(with(rest)) \in Nat
    <3>1. these \subseteq S /\ with(rest) \subseteq S
      BY DEF OfValue
    <3>2. IsFiniteSet(these) /\ IsFiniteSet(with(rest))
      <4> HIDE DEF these, with, rest
      <4> QED
        BY <3>1, FS_Subset
    <3> HIDE DEF these, with, rest
    <3> QED
      BY <3>2, FS_CardinalityType
  <2>9. g[x] = Cardinality(these)
    BY <2>6
  <2>10. SumOf(g, rest) = Cardinality(with(rest))
    <3>1. ~(n <= n - 1)
      BY <2>2
    <3>2. n - 1 \notin wrong
      <4> HIDE DEF wrong
      <4> QED
        BY <2>1, <2>6, <3>1
    <3> HIDE DEF with, rest
    <3> QED
      BY <2>6, <3>2
  <2> HIDE DEF these, with, rest, x, wrong
  <2>11. Cardinality(with(s)) = Cardinality(these) + Cardinality(with(rest))
    <3>1. Cardinality({}) = 0
      BY FS_EmptySet
    <3>2. Cardinality(these \cup with(rest)) =
            Cardinality(these) + Cardinality(with(rest)) - Cardinality(these \cap with(rest))
      BY <2>8, FS_Union
    <3>3. Cardinality(these \cap with(rest)) = 0
      BY <2>7, <3>1, Zenon
    <3>4. Cardinality(with(s)) = Cardinality(these \cup with(rest))
      BY <2>7, Zenon
    <3> QED
      BY <2>8, <3>2, <3>3, <3>4
  <2> QED
    BY <2>3, <2>5, <2>9, <2>10, <2>11
<1>2. with(T) = S
  OBVIOUS
<1>3. Cardinality(T) \in Nat
  BY FS_CardinalityType
<1>4. SumOf(g, T) = Cardinality(with(T))
  BY <1>1, <1>3
<1> HIDE DEF with
<1> QED
  BY <1>2, <1>4

(* The first seeds of a pool, and what they add up to.                     *)
Itself == [x \in Nat |-> x]

FirstSeeds(n, group, k) == {SnakeSeed(n, group, i) : i \in 1..k}

LEMMA TwoSeedsAdd ==
  ASSUME NEW n \in Nat, NEW group \in SlamPools, NEW k \in Nat, k + 2 <= PoolSize(n, group)
  PROVE  SumOf(Itself, FirstSeeds(n, group, k + 2)) =
           SnakeSeed(n, group, k + 1) + SnakeSeed(n, group, k + 2) + SumOf(Itself, FirstSeeds(n, group, k))
<1> DEFINE seed(i) == SnakeSeed(n, group, i)
           size == PoolSize(n, group)
           S == FirstSeeds(n, group, k + 2)
           a == seed(k + 1)
           b == seed(k + 2)
<1>1. size \in Nat
  BY PoolSizes
<1>2. \A i \in 1..size : seed(i) \in 4 * (i - 1) .. (4 * (i - 1) + 3)
  BY MembersAreSnake
<1>3. FirstSeeds(n, group, k) = {seed(i) : i \in 1..k} /\ S = {seed(i) : i \in 1..(k + 2)}
  BY DEF FirstSeeds
<1> HIDE DEF seed, size, S
<1>4. S \subseteq Nat /\ IsFiniteSet(S)
  <2>1. IsFiniteSet(1..(k + 2))
    BY FS_Interval
  <2> DEFINE f == [i \in 1..(k + 2) |-> seed(i)]
  <2>2. IsFiniteSet(S)
    <3>1. f \in [1..(k + 2) -> S] /\ \A x \in S : \E i \in 1..(k + 2) : f[i] = x
      BY <1>3
    <3> HIDE DEF f
    <3>2. f \in Surjection(1..(k + 2), S)
      BY <3>1 DEF Surjection
    <3> QED
      BY <2>1, <3>2, FS_Surjection
  <2>3. \A i \in 1..(k + 2) : seed(i) \in Nat
    BY <1>1, <1>2 DEF size
  <2> QED
    BY <1>3, <2>2, <2>3
<1>5. a \in S /\ b \in S /\ a # b /\ (S \ {b}) \ {a} = FirstSeeds(n, group, k)
  <2>1. k + 1 \in 1..(k + 2) /\ k + 2 \in 1..(k + 2) /\ \A i \in 1..(k + 2) : i \in 1..k \/ i = k + 1 \/ i = k + 2
    OBVIOUS
  <2>2. \A i, j \in 1..(k + 2) : i < j => seed(i) # seed(j)
    <3> SUFFICES ASSUME NEW i \in 1..(k + 2), NEW j \in 1..(k + 2), i < j PROVE seed(i) # seed(j)
      OBVIOUS
    <3>1. i \in 1..size /\ j \in 1..size
      BY <1>1 DEF size
    <3>2. seed(i) \in 4 * (i - 1) .. (4 * (i - 1) + 3) /\ seed(j) \in 4 * (j - 1) .. (4 * (j - 1) + 3)
      BY <1>2, <3>1
    <3> QED
      BY <3>2
  <2>3. a # b /\ \A i \in 1..k : seed(i) # a /\ seed(i) # b
    <3>1. k + 1 < k + 2 /\ \A i \in 1..k : i \in 1..(k + 2) /\ i < k + 1 /\ i < k + 2
      OBVIOUS
    <3> QED
      BY <2>1, <2>2, <3>1
  <2>4. \A i \in 1..k : i \in 1..(k + 2)
    OBVIOUS
  <2> QED
    BY <1>3, <2>1, <2>3, <2>4
<1> HIDE DEF a, b
<1>6. \A x \in S : Itself[x] = x /\ Itself[x] \in Nat
  BY <1>4 DEF Itself
<1>7. SumOf(Itself, S) = b + SumOf(Itself, S \ {b})
  <2>1. SumOf(Itself, S) = Itself[b] + SumOf(Itself, S \ {b})
    BY <1>4, <1>5, <1>6, SumAdds
  <2> QED
    BY <1>5, <1>6, <2>1
<1> DEFINE rest == S \ {b}
           last == rest \ {a}
<1>8. IsFiniteSet(rest) /\ a \in rest /\ \A x \in rest : Itself[x] \in Nat
  BY <1>4, <1>5, <1>6, FS_Subset
<1>9. IsFiniteSet(last) /\ \A x \in last : Itself[x] \in Nat
  BY <1>4, <1>6, FS_Subset
<1>10. last = FirstSeeds(n, group, k)
  BY <1>5
<1> HIDE DEF rest, last
<1>11. SumOf(Itself, rest) = a + SumOf(Itself, last)
  <2>1. SumOf(Itself, rest) = Itself[a] + SumOf(Itself, rest \ {a})
    BY <1>8, SumAdds
  <2> QED
    BY <1>5, <1>6, <2>1 DEF last
<1>12. SumOf(Itself, last) \in Nat
  BY <1>9, SumOfNaturals
<1>13. a \in Nat /\ b \in Nat
  BY <1>4, <1>5
<1>14. SumOf(Itself, S) = a + b + SumOf(Itself, last)
  BY <1>7, <1>11, <1>12, <1>13 DEF rest
<1> QED
  BY <1>10, <1>14 DEF S, a, b, seed

(* Pair by pair, two pools add up to the same.                             *)
LEMMA PairsAddUp ==
  ASSUME NEW n \in Nat, NEW group \in SlamPools, NEW other \in SlamPools,
         NEW j \in Nat, 2 * j <= PoolSize(n, group), 2 * j <= PoolSize(n, other)
  PROVE  SumOf(Itself, FirstSeeds(n, group, 2 * j)) = SumOf(Itself, FirstSeeds(n, other, 2 * j))
<1> DEFINE fit(k) == 2 * k <= PoolSize(n, group) /\ 2 * k <= PoolSize(n, other)
           sum(g, k) == SumOf(Itself, FirstSeeds(n, g, k))
           differ == {k \in Nat : fit(k) /\ sum(group, 2 * k) # sum(other, 2 * k)}
<1>1. PoolSize(n, group) \in Nat /\ PoolSize(n, other) \in Nat
  BY PoolSizes
<1>2. ASSUME differ # {} PROVE FALSE
  <2>1. PICK k \in differ : \A l \in differ : k <= l
    <3>1. differ \in SUBSET Nat
      OBVIOUS
    <3> HIDE DEF differ
    <3> QED
      BY <1>2, <3>1, LeastNatural
  <2>2. k \in Nat /\ fit(k) /\ sum(group, 2 * k) # sum(other, 2 * k)
    OBVIOUS
  <2>3. k # 0
    <3> SUFFICES ASSUME k = 0 PROVE FALSE
      OBVIOUS
    <3>1. 2 * k = 0 /\ 1..0 = {}
      OBVIOUS
    <3>2. FirstSeeds(n, group, 0) = {} /\ FirstSeeds(n, other, 0) = {}
      BY <3>1 DEF FirstSeeds
    <3> QED
      BY <2>2, <3>1, <3>2
  <2> DEFINE l == 2 * (k - 1)
  <2>4. l \in Nat /\ 2 * k = l + 2 /\ fit(k - 1) /\ k - 1 \in Nat /\ ~(k <= k - 1)
    BY <1>1, <2>2, <2>3
  <2>5. sum(group, l) = sum(other, l)
    <3>1. k - 1 \notin differ
      <4> HIDE DEF differ
      <4> QED
        BY <2>1, <2>4
    <3> HIDE DEF sum, fit, l
    <3> QED
      BY <2>4, <3>1 DEF l
  <2> HIDE DEF l
  <2>6. \A g \in {group, other} :
          /\ sum(g, l + 2) = SnakeSeed(n, g, l + 1) + SnakeSeed(n, g, l + 2) + sum(g, l)
          /\ SnakeSeed(n, g, l + 1) + SnakeSeed(n, g, l + 2) = 8 * (l + 2) - 13 + PoolsWith(n, l + 2)
    <3> SUFFICES ASSUME NEW g \in {group, other}
                 PROVE  /\ sum(g, l + 2) = SnakeSeed(n, g, l + 1) + SnakeSeed(n, g, l + 2) + sum(g, l)
                        /\ SnakeSeed(n, g, l + 1) + SnakeSeed(n, g, l + 2)
                             = 8 * (l + 2) - 13 + PoolsWith(n, l + 2)
      OBVIOUS
    <3>1. g \in SlamPools /\ l + 2 <= PoolSize(n, g) /\ PoolSize(n, g) \in Nat
      BY <1>1, <2>2, <2>4
    <3>2. sum(g, l + 2) = SnakeSeed(n, g, l + 1) + SnakeSeed(n, g, l + 2) + sum(g, l)
      BY <2>4, <3>1, TwoSeedsAdd
    <3> DEFINE i == l + 2
    <3>3. i \in 1..PoolSize(n, g) /\ i - 1 = l + 1 /\ i % 2 = 0
      BY <2>2, <2>4, <3>1
    <3> HIDE DEF i
    <3>4. SnakeSeed(n, g, i - 1) + SnakeSeed(n, g, i) = 8 * i - 13 + PoolsWith(n, i)
      BY <3>1, <3>3, MembersAreSnake
    <3> QED
      BY <3>2, <3>3, <3>4 DEF i
  <2> HIDE DEF sum
  <2>7. sum(group, 2 * k) = sum(other, 2 * k)
    BY <2>4, <2>5, <2>6
  <2> QED
    BY <2>2, <2>7
<1>3. j \notin differ
  <2> HIDE DEF differ
  <2> QED
    BY <1>2
<1> QED
  BY <1>3
=============================================================================
