---------------------------- MODULE TableProofs ----------------------------
(***************************************************************************)
(* Proofs about RoundRobinTable: the table of a round robin of any size,   *)
(* whatever the results, in any order, and whoever leaves.                 *)
(*                                                                         *)
(* TableIInv says of which competitors each row is and who can have won    *)
(* it.  That the places add up, and that winning helps, then follows from  *)
(* how the chain of criteria orders any set of competitors; the grid is    *)
(* compared match by match.                                                *)
(***************************************************************************)
EXTENDS RoundRobinTable, DrawLemmas, FiniteSetTheorems, TLAPS

-----------------------------------------------------------------------------
(* The rows of a round robin *)

(* The columns of a row, of n competitors. *)
TableRow(n) ==
  [status : Statuses, competitor : [Sides -> 0..(n - 1)], scores : [Sides -> Score],
   winner : 0..(n - 1) \cup {None}, winMethod : WinMethods \cup {None}, goldenScore : BOOLEAN]

(* Rows r of a draw of n competitors: a match that is over was between two *)
(* who were known, and one of them has won it.                             *)
RowsOf(n, r) ==
  /\ r \in [DOMAIN RoundRobin(n, "MAIN", NoGroup) -> TableRow(n)]
  /\ \A m \in DOMAIN r :
       /\ r[m].competitor = RoundRobin(n, "MAIN", NoGroup)[m]
       /\ r[m].status = "COMPLETED" =>
            /\ \A side \in Sides : r[m].competitor[side] # None
            /\ \E side \in Sides : r[m].winner = r[m].competitor[side]

TableIInv ==
  /\ category \in Tables
  /\ withdrawn \subseteq category.leaving
  /\ RowsOf(category.count, row)

(* Each match of a draw is of two of its competitors.                      *)
LEMMA DrawnPair ==
  ASSUME NEW n \in Nat, NEW m \in DOMAIN RoundRobin(n, "MAIN", NoGroup)
  PROVE  RoundRobin(n, "MAIN", NoGroup)[m] \in [Sides -> 0..(n - 1)]
<1> DEFINE draw == RoundRobin(n, "MAIN", NoGroup)
<1>1. draw[m][1] \in 0..(n - 1) /\ draw[m][2] \in 0..(n - 1)
  BY RoundRobinIsComplete DEF EachPairOnce
<1>2. \E a, b : draw[m] = <<a, b>>
  <2> DEFINE place == Circle(n)
             drawing(d) == <<place[d.round][d.position], place[d.round][Even(n) + 1 - d.position]>>
             playing == {d \in CircleMatches(n, "MAIN", NoGroup) :
                           place[d.round][d.position] < n
                             /\ place[d.round][Even(n) + 1 - d.position] < n}
  <2>1. draw = [d \in playing |-> drawing(d)]
    BY DEF RoundRobin, CircleMatches
  <2>2. \E a, b : drawing(m) = <<a, b>>
    OBVIOUS
  <2> HIDE DEF drawing, playing
  <2> QED
    BY <2>1, <2>2
<1>3. ASSUME NEW a, NEW b, draw[m] = <<a, b>> PROVE draw[m] \in [Sides -> 0..(n - 1)]
  <2>1. a \in 0..(n - 1) /\ b \in 0..(n - 1)
    BY <1>1, <1>3
  <2>2. <<a, b>> \in [Sides -> 0..(n - 1)]
    BY <2>1 DEF Sides
  <2> QED
    BY <1>3, <2>2
<1> QED
  BY <1>2, <1>3

LEMMA InitTable == Init => TableIInv
<1> SUFFICES ASSUME Init PROVE TableIInv
  OBVIOUS
<1> DEFINE n == category.count
           draw == RoundRobin(n, "MAIN", NoGroup)
<1>1. category \in Tables /\ withdrawn \subseteq category.leaving /\ n \in Nat
  BY TableTypes DEF Init
<1>2. Entrants[category] = draw
  BY <1>1 DEF Entrants
<1>3. row = [m \in DOMAIN draw |-> ScheduledRow(draw[m])]
  BY <1>2 DEF Init
<1>4. EmptyScores \in [Sides -> Score]
  BY DEF EmptyScores, EmptyScore, Score
<1>5. ASSUME NEW m \in DOMAIN draw
      PROVE  /\ ScheduledRow(draw[m]) \in TableRow(n)
             /\ ScheduledRow(draw[m]).competitor = draw[m]
             /\ ScheduledRow(draw[m]).status # "COMPLETED"
  <2>1. draw[m] \in [Sides -> 0..(n - 1)]
    BY <1>1, DrawnPair
  <2> QED
    BY <1>4, <2>1 DEF ScheduledRow, TableRow, Statuses
<1>6. RowsOf(n, row)
  <2> HIDE DEF draw
  <2>1. DOMAIN row = DOMAIN draw /\ \A m \in DOMAIN draw : row[m] = ScheduledRow(draw[m])
    BY <1>3
  <2>2. row \in [DOMAIN draw -> TableRow(n)]
    BY <1>3, <1>5
  <2> QED
    BY <1>5, <2>1, <2>2 DEF RowsOf, draw
<1> QED
  BY <1>1, <1>6 DEF TableIInv

(* A match that is fought is written, and no other.                        *)
LEMMA FightWrites ==
  ASSUME TableIInv, NEW m \in DOMAIN row, NEW side \in Sides, NEW winMethod \in category.winWays,
         NEW shidos \in [Sides -> 0..category.maxShido], Fight(m, side, winMethod, shidos)
  PROVE  /\ UNCHANGED <<category, withdrawn>> /\ ReadyRow(row[m])
         /\ row' \in [DOMAIN row -> TableRow(category.count)]
         /\ \A k \in DOMAIN row \ {m} : row'[k] = row[k]
         /\ row'[m].competitor = row[m].competitor /\ row'[m].status = "COMPLETED"
         /\ row'[m].winner = row[m].competitor[side]
<1> DEFINE n == category.count
           r == row[m]
           scores == [s \in Sides |-> [wazaAri |-> 0, yuko |-> 0, shido |-> shidos[s]]]
           new == [r EXCEPT !.status = "COMPLETED", !.winMethod = winMethod,
                            !.winner = r.competitor[side], !.scores = scores]
<1>1. row \in [DOMAIN row -> TableRow(n)] /\ r \in TableRow(n)
  BY DEF TableIInv, RowsOf
<1>2. /\ UNCHANGED <<category, withdrawn>> /\ ReadyRow(r)
      /\ row' = [row EXCEPT ![m] = new]
  BY DEF Fight
<1>3. scores \in [Sides -> Score]
  <2>1. \A s \in Sides : shidos[s] \in Nat
    BY TableTypes DEF TableIInv
  <2> QED
    BY <2>1 DEF Score
<1>4. winMethod \in WinMethods
  BY TableTypes DEF TableIInv
<1>5. /\ new \in TableRow(n) /\ new.competitor = r.competitor /\ new.status = "COMPLETED"
      /\ new.winner = r.competitor[side]
  <2> HIDE DEF scores, r
  <2>1. r.competitor[side] \in 0..(n - 1)
    BY <1>1 DEF TableRow
  <2> QED
    BY <1>1, <1>3, <1>4, <2>1 DEF TableRow, Statuses
<1> HIDE DEF new
<1>6. row'[m] = new /\ \A k \in DOMAIN row \ {m} : row'[k] = row[k]
  BY <1>1, <1>2
<1>7. row' \in [DOMAIN row -> TableRow(n)]
  BY <1>1, <1>2, <1>5
<1> QED
  BY <1>2, <1>5, <1>6, <1>7

LEMMA NextTable == TableIInv /\ [Next]_vars => TableIInv'
<1> SUFFICES ASSUME TableIInv, [Next]_vars PROVE TableIInv'
  OBVIOUS
<1>1. ASSUME NEW m \in DOMAIN row, NEW side \in Sides, NEW winMethod \in category.winWays,
             NEW shidos \in [Sides -> 0..category.maxShido], Fight(m, side, winMethod, shidos)
      PROVE  TableIInv'
  <2> DEFINE draw == RoundRobin(category.count, "MAIN", NoGroup)
  <2>1. /\ category' = category /\ withdrawn' = withdrawn /\ ReadyRow(row[m])
        /\ row' \in [DOMAIN row -> TableRow(category.count)]
        /\ \A k \in DOMAIN row \ {m} : row'[k] = row[k]
        /\ row'[m].competitor = row[m].competitor
        /\ row'[m].winner = row[m].competitor[side]
    BY <1>1, FightWrites
  <2>2. /\ DOMAIN row = DOMAIN draw /\ DOMAIN row' = DOMAIN row
        /\ \A k \in DOMAIN row :
             /\ row[k].competitor = draw[k]
             /\ row[k].status = "COMPLETED" =>
                  /\ \A s \in Sides : row[k].competitor[s] # None
                  /\ \E s \in Sides : row[k].winner = row[k].competitor[s]
    BY <2>1 DEF TableIInv, RowsOf
  <2> HIDE DEF draw
  <2>3. \A k \in DOMAIN row :
          /\ row'[k].competitor = draw[k]
          /\ row'[k].status = "COMPLETED" =>
               /\ \A s \in Sides : row'[k].competitor[s] # None
               /\ \E s \in Sides : row'[k].winner = row'[k].competitor[s]
    BY <2>1, <2>2 DEF ReadyRow
  <2> QED
    BY <2>1, <2>2, <2>3 DEF TableIInv, RowsOf, draw
<1>2. ASSUME NEW c \in category.leaving, Disqualify(c) PROVE TableIInv'
  BY <1>2 DEF Disqualify, TableIInv
<1>3. CASE UNCHANGED vars
  BY <1>3 DEF vars, TableIInv
<1> QED
  BY <1>1, <1>2, <1>3 DEF Next

(* The invariant in the words of the table.                                *)
LEMMA TableRows ==
  ASSUME TableIInv
  PROVE  LET n == category.count
         IN  /\ n \in Nat /\ withdrawn \subseteq 0..(n - 1)
             /\ Listed = 0..(n - 1) \ withdrawn /\ IsFiniteSet(Listed)
             /\ IsFiniteSet(Matches)
             /\ \A m \in Matches :
                  /\ row[m].competitor[1] \in 0..(n - 1) /\ row[m].competitor[2] \in 0..(n - 1)
                  /\ row[m].competitor[1] # row[m].competitor[2]
                  /\ \A side \in Sides : row[m].scores[side].shido \in Nat
             /\ \A m, k \in Matches :
                  {row[m].competitor[1], row[m].competitor[2]}
                    = {row[k].competitor[1], row[k].competitor[2]} => m = k
             /\ \A a, b \in 0..(n - 1) :
                  a # b => \E m \in Matches :
                    {row[m].competitor[1], row[m].competitor[2]} = {a, b}
<1> DEFINE n == category.count
           draw == RoundRobin(n, "MAIN", NoGroup)
<1>1. n \in Nat /\ withdrawn \subseteq 0..(n - 1)
  BY TableTypes DEF TableIInv
<1>2. Listed = 0..(n - 1) \ withdrawn /\ IsFiniteSet(Listed)
  <2>1. IsFiniteSet(0..(n - 1))
    BY <1>1, FS_Interval
  <2>2. Listed \subseteq 0..(n - 1)
    BY DEF Listed
  <2> QED
    BY <2>1, <2>2, FS_Subset DEF Listed
<1>3. EachPairOnce(n, "MAIN", NoGroup)
  BY <1>1, RoundRobinIsComplete
<1>4. Matches = DOMAIN draw /\ IsFiniteSet(DOMAIN draw)
  BY <1>1, RoundRobinMatches DEF Matches, TableIInv, RowsOf
<1>5. \A m \in Matches :
        /\ row[m].competitor = draw[m]
        /\ \A side \in Sides : row[m].scores[side].shido \in Nat
  BY <1>4 DEF TableIInv, RowsOf, TableRow, Score
<1>6. /\ \A m \in Matches :
           /\ row[m].competitor[1] \in 0..(n - 1) /\ row[m].competitor[2] \in 0..(n - 1)
           /\ row[m].competitor[1] # row[m].competitor[2]
      /\ \A m, k \in Matches :
           {row[m].competitor[1], row[m].competitor[2]}
             = {row[k].competitor[1], row[k].competitor[2]} => m = k
      /\ \A a, b \in 0..(n - 1) :
           a # b => \E m \in Matches : {row[m].competitor[1], row[m].competitor[2]} = {a, b}
  <2>1. /\ \A m \in Matches :
             draw[m][1] \in 0..(n - 1) /\ draw[m][2] \in 0..(n - 1) /\ draw[m][1] # draw[m][2]
        /\ \A a, b \in 0..(n - 1) : a # b => \E m \in Matches : {draw[m][1], draw[m][2]} = {a, b}
        /\ \A m, k \in Matches :
             {draw[m][1], draw[m][2]} = {draw[k][1], draw[k][2]} => m = k
    BY <1>3, <1>4 DEF EachPairOnce
  <2> HIDE DEF n, draw
  <2>2. \A m \in Matches :
          /\ row[m].competitor[1] = draw[m][1] /\ row[m].competitor[2] = draw[m][2]
          /\ {row[m].competitor[1], row[m].competitor[2]} = {draw[m][1], draw[m][2]}
    BY <1>5
  <2>3. \A m \in Matches :
          /\ row[m].competitor[1] \in 0..(n - 1) /\ row[m].competitor[2] \in 0..(n - 1)
          /\ row[m].competitor[1] # row[m].competitor[2]
    BY <2>1, <2>2
  <2>4. \A m, k \in Matches :
          {row[m].competitor[1], row[m].competitor[2]}
            = {row[k].competitor[1], row[k].competitor[2]} => m = k
    <3> SUFFICES ASSUME NEW m \in Matches, NEW k \in Matches,
                        {row[m].competitor[1], row[m].competitor[2]}
                          = {row[k].competitor[1], row[k].competitor[2]}
                 PROVE  m = k
      OBVIOUS
    <3>1. {draw[m][1], draw[m][2]} = {draw[k][1], draw[k][2]}
      BY <2>2
    <3> QED
      BY <2>1, <3>1
  <2>5. \A a, b \in 0..(n - 1) :
          a # b => \E m \in Matches : {row[m].competitor[1], row[m].competitor[2]} = {a, b}
    <3> SUFFICES ASSUME NEW a \in 0..(n - 1), NEW b \in 0..(n - 1), a # b
                 PROVE  \E m \in Matches : {row[m].competitor[1], row[m].competitor[2]} = {a, b}
      OBVIOUS
    <3>1. PICK m \in Matches : {draw[m][1], draw[m][2]} = {a, b}
      BY <2>1
    <3> QED
      BY <2>2, <3>1
  <2> QED
    BY <2>3, <2>4, <2>5
<1> QED
  BY <1>1, <1>2, <1>4, <1>5, <1>6

-----------------------------------------------------------------------------
(* The number of matches *)

LEMMA TwoSides == IsFiniteSet(Sides) /\ Cardinality(Sides) = 2
<1>1. \E a, b : a # b /\ Sides = {a, b}
  BY DEF Sides
<1>2. PICK a, b : a # b /\ Sides = {a, b}
  BY <1>1
<1>3. IsFiniteSet({a, b}) /\ Cardinality({a, b}) = 2
  BY <1>2, TwoElements
<1> QED
  BY <1>2, <1>3

(* Half of the ordered pairs of n competitors: counted from both sides,    *)
(* the matches are those pairs.                                            *)
LEMMA MatchesCounted ==
  ASSUME TableIInv
  PROVE  LET n == category.count
         IN  Cardinality(Matches) \in Nat /\ 2 * Cardinality(Matches) = n * n - n
<1> DEFINE n == category.count
           players == 0..(n - 1)
           seats(m) == row[m].competitor
           pairs == players \X players
           same == {<<c, c>> : c \in players}
           from == Matches \X Sides
           of == [p \in from |-> <<seats(p[1])[p[2]], seats(p[1])[3 - p[2]]>>]
<1>1. /\ n \in Nat /\ IsFiniteSet(Matches)
      /\ \A m \in Matches :
           seats(m)[1] \in players /\ seats(m)[2] \in players /\ seats(m)[1] # seats(m)[2]
      /\ \A m, k \in Matches : {seats(m)[1], seats(m)[2]} = {seats(k)[1], seats(k)[2]} => m = k
      /\ \A a, b \in players : a # b => \E m \in Matches : {seats(m)[1], seats(m)[2]} = {a, b}
  BY TableRows
<1>2. IsFiniteSet(players) /\ Cardinality(players) = n
  BY <1>1, FS_Interval
<1> HIDE DEF n, players, seats
<1>3. IsFiniteSet(pairs) /\ Cardinality(pairs) = n * n
  BY <1>2, FS_Product
<1>4. IsFiniteSet(same) /\ Cardinality(same) = n
  <2> DEFINE twice == [c \in players |-> <<c, c>>]
  <2>1. twice \in Bijection(players, same)
    BY DEF Bijection, Injection, Surjection, IsInjective
  <2>2. ExistsBijection(players, same)
    BY <2>1 DEF ExistsBijection
  <2> QED
    BY <1>2, <2>2, FS_Bijection
<1>5. of \in Bijection(from, pairs \ same)
  <2>1. \A p \in from : of[p] \in pairs \ same
    <3> SUFFICES ASSUME NEW p \in from PROVE of[p] \in pairs \ same
      OBVIOUS
    <3>1. p[1] \in Matches /\ (p[2] = 1 \/ p[2] = 2)
      BY DEF Sides
    <3>2. seats(p[1])[p[2]] \in players /\ seats(p[1])[3 - p[2]] \in players
          /\ seats(p[1])[p[2]] # seats(p[1])[3 - p[2]]
      BY <1>1, <3>1
    <3> QED
      BY <3>2
  <2>2. \A p, q \in from : of[p] = of[q] => p = q
    <3> SUFFICES ASSUME NEW p \in from, NEW q \in from, of[p] = of[q] PROVE p = q
      OBVIOUS
    <3>1. /\ p[1] \in Matches /\ (p[2] = 1 \/ p[2] = 2) /\ p = <<p[1], p[2]>>
          /\ q[1] \in Matches /\ (q[2] = 1 \/ q[2] = 2) /\ q = <<q[1], q[2]>>
      BY DEF Sides
    <3>2. seats(p[1])[p[2]] = seats(q[1])[q[2]] /\ seats(p[1])[3 - p[2]] = seats(q[1])[3 - q[2]]
      OBVIOUS
    <3>3. {seats(p[1])[1], seats(p[1])[2]} = {seats(q[1])[1], seats(q[1])[2]}
      BY <3>1, <3>2
    <3>4. p[1] = q[1]
      BY <1>1, <3>1, <3>3
    <3>5. p[2] = q[2]
      BY <1>1, <3>1, <3>2, <3>4
    <3> QED
      BY <3>1, <3>4, <3>5
  <2>3. \A t \in pairs \ same : \E p \in from : of[p] = t
    <3> SUFFICES ASSUME NEW t \in pairs \ same PROVE \E p \in from : of[p] = t
      OBVIOUS
    <3>1. t[1] \in players /\ t[2] \in players /\ t = <<t[1], t[2]>> /\ t[1] # t[2]
      OBVIOUS
    <3>2. PICK m \in Matches : {seats(m)[1], seats(m)[2]} = {t[1], t[2]}
      BY <1>1, <3>1
    <3>3. \E s \in Sides : seats(m)[s] = t[1] /\ seats(m)[3 - s] = t[2]
      <4>1. \/ seats(m)[1] = t[1] /\ seats(m)[2] = t[2]
            \/ seats(m)[2] = t[1] /\ seats(m)[1] = t[2]
        BY <3>1, <3>2
      <4> QED
        BY <4>1 DEF Sides
    <3>4. PICK s \in Sides : seats(m)[s] = t[1] /\ seats(m)[3 - s] = t[2]
      BY <3>3
    <3>5. <<m, s>> \in from /\ of[<<m, s>>] = t
      BY <3>1, <3>4
    <3> QED
      BY <3>5
  <2>4. of \in [from -> pairs \ same]
    <3>1. DOMAIN of = from /\ of = [p \in from |-> of[p]]
      OBVIOUS
    <3> HIDE DEF of, from, pairs, same
    <3> QED
      BY <2>1, <3>1
  <2> HIDE DEF of, from, pairs, same
  <2> QED
    BY <2>2, <2>3, <2>4 DEF Bijection, Injection, Surjection, IsInjective
<1>6. Cardinality(from) = Cardinality(Matches) * 2 /\ IsFiniteSet(from)
  <2>1. IsFiniteSet(Sides) /\ Cardinality(Sides) = 2
    BY TwoSides
  <2>2. IsFiniteSet(Matches)
    BY <1>1
  <2>3. IsFiniteSet(from) /\ Cardinality(from) = Cardinality(Matches) * Cardinality(Sides)
    BY <2>1, <2>2, FS_Product
  <2> QED
    BY <2>1, <2>3
<1>7. Cardinality(pairs \ same) = n * n - n
  <2>1. pairs \cap same = same
    OBVIOUS
  <2>2. Cardinality(pairs \ same) = Cardinality(pairs) - Cardinality(pairs \cap same)
    BY <1>3, FS_Difference
  <2> HIDE DEF pairs, same
  <2> QED
    BY <1>3, <1>4, <2>1, <2>2
<1>8. Cardinality(pairs \ same) = Cardinality(from)
  <2> HIDE DEF of, from, pairs, same
  <2> QED
    BY <1>5, <1>6, FS_Bijection DEF ExistsBijection
<1>9. Cardinality(Matches) \in Nat
  BY <1>1, FS_CardinalityType
<1> QED
  BY <1>6, <1>7, <1>8, <1>9 DEF n

(* A category that is reported as over has no match left to fight, with    *)
(* any number of competitors, as long as nobody has left.                  *)
LEMMA TableIsOver == TableIInv => CompleteIsOver
<1> SUFFICES ASSUME TableIInv, Status # "IN_PROGRESS", withdrawn = {}, NEW m \in Matches
             PROVE  row[m].status = "COMPLETED"
  BY DEF CompleteIsOver
<1> DEFINE n == category.count
           done == {k \in Matches : row[k].status = "COMPLETED"}
           square == n * n - n
<1>1. n \in Nat /\ IsFiniteSet(Matches) /\ Listed = 0..(n - 1)
  BY TableRows
<1>2. Cardinality(Listed) = n
  BY <1>1, FS_Interval
<1>3. Cardinality(done) >= (n * (n - 1)) \div 2
  BY <1>2 DEF Status, IsComplete, Expected
<1>4. Cardinality(Matches) \in Nat /\ 2 * Cardinality(Matches) = square
  BY MatchesCounted
<1>5. n * (n - 1) = square
  BY <1>1
<1>6. Cardinality(done) >= Cardinality(Matches)
  <2> HIDE DEF square, done, n
  <2>1. (2 * Cardinality(Matches)) \div 2 = Cardinality(Matches)
    BY <1>4
  <2> QED
    BY <1>3, <1>4, <1>5, <2>1
<1>7. done \subseteq Matches /\ IsFiniteSet(done) /\ Cardinality(done) \in Nat
  BY <1>1, FS_Subset, FS_CardinalityType
<1>8. done = Matches
  <2> HIDE DEF done
  <2> QED
    BY <1>1, <1>4, <1>6, <1>7, FS_Subset
<1> QED
  BY <1>8

-----------------------------------------------------------------------------
(* The chain of criteria *)

AheadOf(r, table, entered, c) ==
  {d \in entered : Ahead(Criteria(r, table, entered)[d], Criteria(r, table, entered)[c])}

LevelWith(r, table, entered, c) == Level(Criteria(r, table, entered), c)

LostDirect(r, table, entered, c) ==
  /\ ToldApart(r, table, LevelWith(r, table, entered, c))
  /\ \A d \in LevelWith(r, table, entered, c) \ {c} : c \notin HeadToHead(r, table, c, d)

(* Who is placed before c.                                                 *)
Before(r, table, entered, c) ==
  {d \in entered :
     \/ d \in AheadOf(r, table, entered, c)
     \/ /\ d # c /\ d \in LevelWith(r, table, entered, c)
        /\ LostDirect(r, table, entered, c)}

(* Results of which each two have one at most, won by one of them.         *)
OneResultEach(r, table, entered) ==
  \A c, d \in entered :
    c # d /\ HeadToHead(r, table, c, d) # {} =>
      HeadToHead(r, table, c, d) = {c} \/ HeadToHead(r, table, c, d) = {d}

ATable(r, table, entered) ==
  /\ IsFiniteSet(table) /\ IsFiniteSet(entered)
  /\ \A m \in table, side \in Sides : r[m].scores[side].shido \in Nat
  /\ OneResultEach(r, table, entered)

(* Of two that are not level one is ahead.                                 *)
LEMMA AheadIsTotal ==
  ASSUME NEW k \in Vector, NEW l \in Vector
  PROVE  k = l \/ Ahead(k, l) \/ Ahead(l, k)
<1>1. /\ k[1] \in Int /\ k[2] \in Int /\ k[3] \in Int /\ k[4] \in Int
      /\ l[1] \in Int /\ l[2] \in Int /\ l[3] \in Int /\ l[4] \in Int
  BY DEF Vector
<1>2. (\A i \in 1..4 : k[i] = l[i]) => k = l
  BY DEF Vector
<1>3. \A i \in 1..4 : i = 1 \/ i = 2 \/ i = 3 \/ i = 4
  OBVIOUS
<1> QED
  BY <1>1, <1>2, <1>3, AheadOneByOne

LEMMA LevelIs ==
  ASSUME NEW r, NEW table, NEW entered, ATable(r, table, entered), NEW c \in entered
  PROVE  /\ Criteria(r, table, entered) \in [entered -> Vector]
         /\ LevelWith(r, table, entered, c) =
              {d \in entered : Criteria(r, table, entered)[d] = Criteria(r, table, entered)[c]}
         /\ IsFiniteSet(AheadOf(r, table, entered, c))
         /\ IsFiniteSet(Before(r, table, entered, c))
<1>1. Criteria(r, table, entered) \in [entered -> Vector]
  BY CriteriaAreNumbers DEF ATable
<1>2. LevelWith(r, table, entered, c) =
        {d \in entered : Criteria(r, table, entered)[d] = Criteria(r, table, entered)[c]}
  BY <1>1 DEF LevelWith, Level
<1>3. AheadOf(r, table, entered, c) \subseteq entered /\ Before(r, table, entered, c) \subseteq entered
  BY DEF AheadOf, Before
<1>4. IsFiniteSet(entered)
  BY DEF ATable
<1> QED
  BY <1>1, <1>2, <1>3, <1>4, FS_Subset

(* Who lost the match that decides was level with one other.               *)
LEMMA LevelAreTwo ==
  ASSUME NEW r, NEW table, NEW entered, ATable(r, table, entered), NEW c \in entered,
         ToldApart(r, table, LevelWith(r, table, entered, c))
  PROVE  /\ \E d \in entered : d # c /\ LevelWith(r, table, entered, c) = {c, d}
         /\ \A d \in LevelWith(r, table, entered, c) \ {c} :
              LevelWith(r, table, entered, c) = {c, d} /\ HeadToHead(r, table, c, d) # {}
<1> DEFINE level == LevelWith(r, table, entered, c)
<1>1. c \in level /\ level \subseteq entered /\ IsFiniteSet(level)
  <2>1. c \in level /\ level \subseteq entered
    BY LevelIs
  <2>2. IsFiniteSet(entered)
    BY DEF ATable
  <2> QED
    BY <2>1, <2>2, FS_Subset
<1>2. Cardinality(level) = 2 /\ \E a, b \in level : a # b /\ HeadToHead(r, table, a, b) # {}
  <2> HIDE DEF level
  <2>1. ToldApart(r, table, level)
    BY DEF level
  <2> QED
    BY <2>1 DEF ToldApart
<1> HIDE DEF level
<1>3. ASSUME NEW d \in level \ {c} PROVE level = {c, d} /\ HeadToHead(r, table, c, d) # {}
  <2>1. level = {c, d}
    <3>1. IsFiniteSet({c, d}) /\ Cardinality({c, d}) = 2
      BY TwoElements
    <3>2. {c, d} \subseteq level
      BY <1>1
    <3> QED
      BY <1>1, <1>2, <3>1, <3>2, FS_Subset
  <2>2. PICK a \in level, b \in level : a # b /\ HeadToHead(r, table, a, b) # {}
    BY <1>2
  <2>3. {a, b} = {c, d}
    BY <2>1, <2>2
  <2>4. HeadToHead(r, table, a, b) = HeadToHead(r, table, c, d)
    BY <2>3 DEF HeadToHead
  <2> QED
    BY <2>1, <2>2, <2>4
<1>4. \E d \in level : d # c
  <2>1. PICK a \in level, b \in level : a # b
    BY <1>2
  <2> QED
    BY <2>1
<1> QED
  BY <1>1, <1>3, <1>4 DEF level

(* The rank of a competitor is the number of those before, and one.        *)
LEMMA RankCounts ==
  ASSUME NEW r, NEW table, NEW entered, ATable(r, table, entered), NEW c \in entered
  PROVE  /\ Ranks(r, table, entered)[c] = 1 + Cardinality(Before(r, table, entered, c))
         /\ Cardinality(Before(r, table, entered, c)) \in Nat
<1> DEFINE ahead == AheadOf(r, table, entered, c)
           before == Before(r, table, entered, c)
           lost == LostDirect(r, table, entered, c)
<1>1. Ranks(r, table, entered)[c] = 1 + Cardinality(ahead) + (IF lost THEN 1 ELSE 0)
  <2> DEFINE criteria == Criteria(r, table, entered)
             aheadOf(x) == {d \in entered : Ahead(criteria[d], criteria[x])}
             lostDirect(x) ==
               LET level == Level(criteria, x)
               IN  /\ ToldApart(r, table, level)
                   /\ \A d \in level \ {x} : x \notin HeadToHead(r, table, x, d)
             rank(x) == 1 + Cardinality(aheadOf(x)) + (IF lostDirect(x) THEN 1 ELSE 0)
  <2>1. Ranks(r, table, entered) = [x \in entered |-> rank(x)]
    BY DEF Ranks
  <2>2. aheadOf(c) = ahead /\ (lostDirect(c) <=> lost)
    BY DEF AheadOf, LostDirect, LevelWith
  <2>3. Ranks(r, table, entered)[c] = rank(c)
    <3> HIDE DEF rank
    <3> QED
      BY <2>1
  <2> HIDE DEF aheadOf, lostDirect, ahead, lost
  <2> QED
    BY <2>2, <2>3
<1>2. /\ Criteria(r, table, entered) \in [entered -> Vector]
      /\ LevelWith(r, table, entered, c) =
           {d \in entered : Criteria(r, table, entered)[d] = Criteria(r, table, entered)[c]}
      /\ IsFiniteSet(ahead) /\ IsFiniteSet(before)
  BY LevelIs
<1>3. Cardinality(ahead) \in Nat /\ Cardinality(before) \in Nat
  BY <1>2, FS_CardinalityType
<1>4. CASE ~lost
  <2>1. before = ahead
    BY <1>4 DEF Before, AheadOf
  <2> QED
    BY <1>1, <1>3, <1>4, <2>1
<1>5. CASE lost
  <2>1. PICK d \in entered : d # c /\ LevelWith(r, table, entered, c) = {c, d}
    BY <1>5, LevelAreTwo DEF LostDirect
  <2>2. d \notin ahead
    <3>1. Criteria(r, table, entered)[d] = Criteria(r, table, entered)[c]
      BY <1>2, <2>1
    <3>2. Criteria(r, table, entered)[c] \in Vector
      BY <1>2
    <3> QED
      BY <3>1, <3>2, AheadOrders DEF AheadOf
  <2>3. before = ahead \cup {d}
    BY <1>5, <2>1 DEF Before, AheadOf
  <2>4. Cardinality(ahead \cup {d}) = Cardinality(ahead) + 1
    BY <1>2, <2>2, FS_AddElement
  <2> QED
    BY <1>1, <1>3, <1>5, <2>3, <2>4
<1> QED
  BY <1>4, <1>5

(* Who is before has a better rank, and who has a better rank is before.   *)
LEMMA BeforeIsBetter ==
  ASSUME NEW r, NEW table, NEW entered, ATable(r, table, entered),
         NEW c \in entered, NEW d \in Before(r, table, entered, c)
  PROVE  Ranks(r, table, entered)[d] < Ranks(r, table, entered)[c]
<1> DEFINE criteria == Criteria(r, table, entered)
           before(x) == Before(r, table, entered, x)
<1>1. d \in entered
  BY DEF Before
<1>2. /\ criteria \in [entered -> Vector]
      /\ \A x \in entered :
           /\ LevelWith(r, table, entered, x) = {e \in entered : criteria[e] = criteria[x]}
           /\ IsFiniteSet(before(x))
  BY LevelIs
<1>3. \A x, y, z \in entered :
        /\ ~Ahead(criteria[x], criteria[x])
        /\ Ahead(criteria[x], criteria[y]) /\ Ahead(criteria[y], criteria[z])
             => Ahead(criteria[x], criteria[z])
  BY <1>2, AheadOrders
<1>4. d \notin before(d)
  BY <1>1, <1>3 DEF Before, AheadOf
<1>5. before(d) \subseteq before(c)
  <2>1. CASE Ahead(criteria[d], criteria[c])
    <3> SUFFICES ASSUME NEW x \in before(d) PROVE x \in before(c)
      OBVIOUS
    <3>1. x \in entered /\ (Ahead(criteria[x], criteria[d]) \/ criteria[x] = criteria[d])
      BY <1>1, <1>2 DEF Before, AheadOf
    <3>2. Ahead(criteria[x], criteria[c])
      BY <1>1, <1>3, <2>1, <3>1
    <3> QED
      BY <3>1, <3>2 DEF Before, AheadOf
  <2>2. CASE ~Ahead(criteria[d], criteria[c])
    <3>1. d # c /\ d \in LevelWith(r, table, entered, c) /\ LostDirect(r, table, entered, c)
      BY <2>2 DEF Before, AheadOf
    <3>2. criteria[d] = criteria[c]
      BY <1>2, <3>1
    <3>3. LevelWith(r, table, entered, d) = LevelWith(r, table, entered, c)
      BY <1>1, <1>2, <3>2
    <3>4. HeadToHead(r, table, c, d) # {} /\ c \notin HeadToHead(r, table, c, d)
      BY <3>1, LevelAreTwo DEF LostDirect
    <3>5. HeadToHead(r, table, c, d) = {d}
      BY <1>1, <3>1, <3>4 DEF ATable, OneResultEach
    <3>6. HeadToHead(r, table, d, c) = {d}
      <4>1. {c, d} = {d, c}
        OBVIOUS
      <4> QED
        BY <3>5, <4>1 DEF HeadToHead
    <3>7. ~LostDirect(r, table, entered, d)
      <4>1. c \in LevelWith(r, table, entered, d) \ {d}
        BY <1>2, <3>1, <3>3
      <4> QED
        BY <3>6, <4>1 DEF LostDirect
    <3> QED
      BY <3>2, <3>7 DEF Before, AheadOf
  <2> QED
    BY <2>1, <2>2
<1>6. before(d) # before(c)
  BY <1>4
<1>7. Cardinality(before(d)) < Cardinality(before(c))
  <2>1. IsFiniteSet(before(c)) /\ IsFiniteSet(before(d))
    BY <1>1, <1>2
  <2>2. Cardinality(before(c)) \in Nat /\ Cardinality(before(d)) \in Nat
    BY <2>1, FS_CardinalityType
  <2> HIDE DEF before
  <2>3. /\ Cardinality(before(d)) <= Cardinality(before(c))
        /\ Cardinality(before(c)) = Cardinality(before(d)) => before(c) = before(d)
    BY <1>5, <2>1, FS_Subset
  <2> QED
    BY <1>6, <2>2, <2>3
<1>8. /\ Ranks(r, table, entered)[c] = 1 + Cardinality(before(c)) /\ Cardinality(before(c)) \in Nat
      /\ Ranks(r, table, entered)[d] = 1 + Cardinality(before(d)) /\ Cardinality(before(d)) \in Nat
  BY <1>1, RankCounts
<1> HIDE DEF before
<1> QED
  BY <1>7, <1>8

(* Two of whom neither is before the other share their rank: they are the  *)
(* same, or level and not told apart.                                      *)
LEMMA NobodyBefore ==
  ASSUME NEW r, NEW table, NEW entered, ATable(r, table, entered),
         NEW c \in entered, NEW d \in entered, c # d,
         c \notin Before(r, table, entered, d), d \notin Before(r, table, entered, c)
  PROVE  /\ Ranks(r, table, entered)[d] = Ranks(r, table, entered)[c]
         /\ d \in LevelWith(r, table, entered, c)
         /\ ~ToldApart(r, table, LevelWith(r, table, entered, c))
<1> DEFINE criteria == Criteria(r, table, entered)
<1>1. /\ criteria \in [entered -> Vector]
      /\ \A x \in entered :
           LevelWith(r, table, entered, x) = {e \in entered : criteria[e] = criteria[x]}
  BY LevelIs
<1>2. criteria[c] = criteria[d]
  <2>1. criteria[c] \in Vector /\ criteria[d] \in Vector
    BY <1>1
  <2>2. ~Ahead(criteria[c], criteria[d]) /\ ~Ahead(criteria[d], criteria[c])
    BY DEF Before, AheadOf
  <2> HIDE DEF criteria
  <2> QED
    BY <2>1, <2>2, AheadIsTotal
<1>3. /\ c \in LevelWith(r, table, entered, d) /\ d \in LevelWith(r, table, entered, c)
      /\ LevelWith(r, table, entered, d) = LevelWith(r, table, entered, c)
  BY <1>1, <1>2
<1>4. ~LostDirect(r, table, entered, c) /\ ~LostDirect(r, table, entered, d)
  BY <1>3 DEF Before
<1>5. Before(r, table, entered, c) = Before(r, table, entered, d)
  BY <1>2, <1>4 DEF Before, AheadOf
<1>6. Ranks(r, table, entered)[d] = Ranks(r, table, entered)[c]
  BY <1>5, RankCounts
<1>7. ASSUME ToldApart(r, table, LevelWith(r, table, entered, c)) PROVE FALSE
  <2>1. LevelWith(r, table, entered, c) = {c, d} /\ HeadToHead(r, table, c, d) # {}
    BY <1>3, <1>7, LevelAreTwo
  <2>2. HeadToHead(r, table, c, d) = {c} \/ HeadToHead(r, table, c, d) = {d}
    BY <2>1 DEF ATable, OneResultEach
  <2>3. HeadToHead(r, table, d, c) = HeadToHead(r, table, c, d)
    <3>1. {c, d} = {d, c}
      OBVIOUS
    <3> QED
      BY <3>1 DEF HeadToHead
  <2>4. LostDirect(r, table, entered, c) \/ LostDirect(r, table, entered, d)
    BY <1>3, <1>7, <2>1, <2>2, <2>3 DEF LostDirect
  <2> QED
    BY <1>4, <2>4
<1> QED
  BY <1>3, <1>6, <1>7

(* The places of any such table add up.                                    *)
LEMMA PlacesOfChain ==
  ASSUME NEW r, NEW table, NEW entered, ATable(r, table, entered), NEW c \in entered
  PROVE  LET ranks == Ranks(r, table, entered)
         IN  /\ TiedWith(r, table, entered, c) = {d \in entered \ {c} : ranks[d] = ranks[c]}
             /\ ranks[c] = 1 + Cardinality({d \in entered : ranks[d] < ranks[c]})
<1> DEFINE ranks == Ranks(r, table, entered)
           before(x) == Before(r, table, entered, x)
           level == LevelWith(r, table, entered, c)
<1>1. \A x \in entered : ranks[x] \in Int /\ before(x) \subseteq entered
  <2>1. ASSUME NEW x \in entered PROVE ranks[x] \in Int /\ before(x) \subseteq entered
    <3>1. ranks[x] = 1 + Cardinality(before(x)) /\ Cardinality(before(x)) \in Nat
      BY RankCounts
    <3>2. before(x) \subseteq entered
      BY DEF Before
    <3> HIDE DEF ranks, before
    <3> QED
      BY <3>1, <3>2
  <2> QED
    BY <2>1
<1>2. \A x, y \in entered : x \in before(y) => ranks[x] < ranks[y]
  BY BeforeIsBetter
<1>3. \A x, y \in entered :
        x # y /\ x \notin before(y) /\ y \notin before(x) => ranks[x] = ranks[y]
  BY NobodyBefore
<1>4. \A d \in entered : d # c /\ ranks[d] = ranks[c] => d \in level /\ ~ToldApart(r, table, level)
  <2> SUFFICES ASSUME NEW d \in entered, d # c, ranks[d] = ranks[c]
               PROVE  d \in level /\ ~ToldApart(r, table, level)
    OBVIOUS
  <2>1. c \notin before(d) /\ d \notin before(c)
    <3> HIDE DEF ranks, before
    <3> QED
      BY <1>1, <1>2
  <2> QED
    BY <2>1, NobodyBefore
<1>5. \A d \in level : d \in entered /\ (~ToldApart(r, table, level) => ranks[d] = ranks[c])
  <2> SUFFICES ASSUME NEW d \in level
               PROVE  d \in entered /\ (~ToldApart(r, table, level) => ranks[d] = ranks[c])
    OBVIOUS
  <2>1. /\ d \in entered /\ Criteria(r, table, entered)[d] = Criteria(r, table, entered)[c]
        /\ LevelWith(r, table, entered, d) = level
        /\ Criteria(r, table, entered)[c] \in Vector
    <3>1. /\ Criteria(r, table, entered) \in [entered -> Vector]
          /\ \A x \in entered :
               LevelWith(r, table, entered, x) =
                 {e \in entered : Criteria(r, table, entered)[e] = Criteria(r, table, entered)[x]}
      BY LevelIs
    <3>2. d \in entered /\ Criteria(r, table, entered)[d] = Criteria(r, table, entered)[c]
      BY <3>1
    <3> QED
      BY <3>1, <3>2
  <2>2. ASSUME ~ToldApart(r, table, level), d # c PROVE c \notin before(d) /\ d \notin before(c)
    <3>1. ~Ahead(Criteria(r, table, entered)[c], Criteria(r, table, entered)[c])
      BY <2>1, AheadOrders
    <3>2. ~LostDirect(r, table, entered, c) /\ ~LostDirect(r, table, entered, d)
      BY <2>1, <2>2 DEF LostDirect
    <3> QED
      BY <2>1, <3>1, <3>2 DEF Before, AheadOf
  <2> HIDE DEF ranks, before, level
  <2> QED
    BY <1>3, <2>1, <2>2
<1>6. TiedWith(r, table, entered, c) = IF ToldApart(r, table, level) THEN {} ELSE level \ {c}
  BY DEF TiedWith, LevelWith
<1>7. {d \in entered : ranks[d] < ranks[c]} = before(c)
  <2> HIDE DEF ranks, before
  <2>1. \A d \in entered : ranks[d] < ranks[c] => d \in before(c)
    BY <1>1, <1>2, <1>3
  <2> QED
    BY <1>1, <1>2, <2>1
<1>8. ranks[c] = 1 + Cardinality(before(c))
  BY RankCounts
<1>9. TiedWith(r, table, entered, c) = {d \in entered \ {c} : ranks[d] = ranks[c]}
  <2> HIDE DEF ranks, level
  <2> QED
    BY <1>4, <1>5, <1>6
<1> QED
  BY <1>7, <1>8, <1>9

-----------------------------------------------------------------------------
(* The results of the category *)

(* A result is a match between two different competitors, one of whom has  *)
(* won it, and the only one of the two.                                    *)
LEMMA Results ==
  ASSUME TableIInv, NEW m \in Matches, row[m].status = "COMPLETED"
  PROVE  /\ \A side \in Sides : row[m].competitor[side] # None
         /\ \E side \in Sides : row[m].winner = row[m].competitor[side]
         /\ row[m].competitor[1] # row[m].competitor[2] /\ row[m].winner # None
         /\ CountedWinner(row, m) = row[m].winner
<1>1. row[m].competitor[1] # row[m].competitor[2]
  BY TableRows
<1>2. /\ \A side \in Sides : row[m].competitor[side] # None
      /\ \E side \in Sides : row[m].winner = row[m].competitor[side]
  BY DEF TableIInv, RowsOf, Matches
<1> QED
  BY <1>1, <1>2 DEF CountedWinner, Sides

LEMMA ResultsAreATable ==
  ASSUME TableIInv
  PROVE  ATable(row, Matches, Listed)
<1>1. /\ IsFiniteSet(Matches) /\ IsFiniteSet(Listed)
      /\ \A m \in Matches, side \in Sides : row[m].scores[side].shido \in Nat
      /\ \A m, k \in Matches :
           {row[m].competitor[1], row[m].competitor[2]}
             = {row[k].competitor[1], row[k].competitor[2]} => m = k
  BY TableRows
<1>2. ASSUME NEW c \in Listed, NEW d \in Listed, c # d, HeadToHead(row, Matches, c, d) # {}
      PROVE  HeadToHead(row, Matches, c, d) = {c} \/ HeadToHead(row, Matches, c, d) = {d}
  <2> DEFINE met == Counted(row, Matches, {c, d})
  <2>1. \A m \in met : /\ m \in Matches /\ row[m].winner \in {c, d}
                       /\ {row[m].competitor[1], row[m].competitor[2]} = {c, d}
    <3> SUFFICES ASSUME NEW m \in met
                 PROVE  /\ m \in Matches /\ row[m].winner \in {c, d}
                        /\ {row[m].competitor[1], row[m].competitor[2]} = {c, d}
      OBVIOUS
    <3>1. m \in Matches /\ row[m].status = "COMPLETED" /\ \A side \in Sides : row[m].competitor[side] \in {c, d}
      BY DEF Counted
    <3>2. /\ row[m].competitor[1] # row[m].competitor[2]
          /\ \E side \in Sides : row[m].winner = row[m].competitor[side]
      BY <3>1, Results
    <3> QED
      BY <3>1, <3>2 DEF Sides
  <2>2. PICK m \in met : TRUE
    BY <1>2 DEF HeadToHead
  <2>3. \A k \in met : k = m
    BY <1>1, <2>1, <2>2
  <2>4. HeadToHead(row, Matches, c, d) = {row[k].winner : k \in met}
    BY DEF HeadToHead
  <2> HIDE DEF met
  <2> QED
    BY <2>1, <2>2, <2>3, <2>4
<1> QED
  BY <1>1, <1>2 DEF ATable, OneResultEach

LEMMA PlacesOfTable == TableIInv => PlacesAddUp
<1> SUFFICES ASSUME TableIInv, NEW c \in Listed
             PROVE  /\ TiedWith(row, Matches, Listed, c) = {d \in Listed \ {c} : Table[d] = Table[c]}
                    /\ Table[c] = 1 + Cardinality({d \in Listed : Table[d] < Table[c]})
  BY DEF PlacesAddUp
<1>1. ATable(row, Matches, Listed)
  BY ResultsAreATable
<1> QED
  BY <1>1, PlacesOfChain DEF Table

-----------------------------------------------------------------------------
(* The grid *)

CellOf(m, side) ==
  [of |-> row[m].competitor[side], against |-> row[m].competitor[3 - side],
   won |-> row[m].winner = row[m].competitor[side]]

LEMMA CellsAre ==
  ASSUME TableIInv
  PROVE  /\ \A cell \in CellsOf(row, Matches) :
              \E m \in Matches, side \in Sides :
                row[m].status = "COMPLETED" /\ cell = CellOf(m, side)
         /\ \A m \in Matches, side \in Sides :
              row[m].status = "COMPLETED" => CellOf(m, side) \in CellsOf(row, Matches)
<1> DEFINE results == ResultsOf(row, Matches)
<1>1. CellsOf(row, Matches) = UNION {{CellOf(m, side) : side \in Sides} : m \in results}
  BY DEF CellsOf, CellOf
<1>2. \A m : m \in results <=> m \in Matches /\ row[m].status = "COMPLETED"
  BY Results DEF ResultsOf
<1> HIDE DEF results
<1> QED
  BY <1>1, <1>2

LEMMA GridIsRight == TableIInv => GridAgreesWithTable
<1> SUFFICES ASSUME TableIInv PROVE GridAgreesWithTable
  OBVIOUS
<1> DEFINE cells == CellsOf(row, Matches)
<1>1. ASSUME NEW cell \in cells
      PROVE  [of |-> cell.against, against |-> cell.of, won |-> ~cell.won] \in cells
  <2>1. PICK m \in Matches, side \in Sides : row[m].status = "COMPLETED" /\ cell = CellOf(m, side)
    BY <1>1, CellsAre
  <2>2. 3 - side \in Sides /\ 3 - (3 - side) = side
    BY DEF Sides
  <2>3. CellOf(m, 3 - side) \in cells
    BY <2>1, <2>2, CellsAre
  <2>4. (row[m].winner = row[m].competitor[3 - side]) = ~(row[m].winner = row[m].competitor[side])
    BY <2>1, Results DEF Sides
  <2>5. CellOf(m, 3 - side) = [of |-> cell.against, against |-> cell.of, won |-> ~cell.won]
    BY <2>1, <2>2, <2>4 DEF CellOf
  <2> QED
    BY <2>3, <2>5
<1>2. ASSUME NEW c \in Listed
      PROVE  WinsIn(row, Matches, Listed)[c] =
               Cardinality({cell \in cells : cell.of = c /\ cell.won /\ cell.against \in Listed})
  <2> DEFINE won == Won(row, Counted(row, Matches, Listed), c)
             shown == {cell \in cells : cell.of = c /\ cell.won /\ cell.against \in Listed}
             seat(m) == IF row[m].competitor[1] = c THEN 1 ELSE 2
             cellOf == [m \in won |-> CellOf(m, seat(m))]
  <2>1. \A m \in won : /\ m \in Matches /\ row[m].status = "COMPLETED" /\ row[m].winner = c
                       /\ \A side \in Sides : row[m].competitor[side] \in Listed
                       /\ seat(m) \in Sides /\ 3 - seat(m) \in Sides /\ row[m].competitor[seat(m)] = c
    <3> SUFFICES ASSUME NEW m \in won
                 PROVE  /\ m \in Matches /\ row[m].status = "COMPLETED" /\ row[m].winner = c
                        /\ \A side \in Sides : row[m].competitor[side] \in Listed
                        /\ seat(m) \in Sides /\ 3 - seat(m) \in Sides /\ row[m].competitor[seat(m)] = c
      OBVIOUS
    <3>1. /\ m \in Matches /\ row[m].status = "COMPLETED" /\ CountedWinner(row, m) = c
          /\ \A side \in Sides : row[m].competitor[side] \in Listed
      BY DEF Won, Counted
    <3>2. row[m].winner = c /\ \E side \in Sides : row[m].winner = row[m].competitor[side]
      BY <3>1, Results
    <3>3. row[m].competitor[1] = c \/ row[m].competitor[2] = c
      BY <3>2 DEF Sides
    <3>4. 1 \in Sides /\ 2 \in Sides /\ 3 - 1 = 2 /\ 3 - 2 = 1
      BY DEF Sides
    <3> HIDE DEF won
    <3> QED
      BY <3>1, <3>2, <3>3, <3>4
  <2>2. \A m \in won : cellOf[m] \in shown
    <3> SUFFICES ASSUME NEW m \in won PROVE CellOf(m, seat(m)) \in shown
      OBVIOUS
    <3>1. CellOf(m, seat(m)) \in cells
      BY <2>1, CellsAre
    <3>2. /\ CellOf(m, seat(m)).of = c /\ CellOf(m, seat(m)).won
          /\ CellOf(m, seat(m)).against \in Listed
      BY <2>1 DEF CellOf
    <3> QED
      BY <3>1, <3>2
  <2>3. \A m, k \in won : cellOf[m] = cellOf[k] => m = k
    <3> SUFFICES ASSUME NEW m \in won, NEW k \in won, CellOf(m, seat(m)) = CellOf(k, seat(k))
                 PROVE  m = k
      OBVIOUS
    <3>1. row[m].competitor[3 - seat(m)] = row[k].competitor[3 - seat(k)]
      BY DEF CellOf
    <3>2. \A x \in won : {row[x].competitor[1], row[x].competitor[2]} = {c, row[x].competitor[3 - seat(x)]}
      <4> SUFFICES ASSUME NEW x \in won
                   PROVE  {row[x].competitor[1], row[x].competitor[2]}
                            = {c, row[x].competitor[3 - seat(x)]}
        OBVIOUS
      <4>1. row[x].competitor[seat(x)] = c
        BY <2>1
      <4>2. seat(x) = 1 \/ seat(x) = 2
        OBVIOUS
      <4> HIDE DEF won
      <4> QED
        BY <4>1, <4>2
    <3>3. {row[m].competitor[1], row[m].competitor[2]} = {row[k].competitor[1], row[k].competitor[2]}
      BY <3>1, <3>2
    <3> QED
      BY <2>1, <3>3, TableRows
  <2>4. \A cell \in shown : \E m \in won : cellOf[m] = cell
    <3> SUFFICES ASSUME NEW cell \in shown PROVE \E m \in won : CellOf(m, seat(m)) = cell
      OBVIOUS
    <3>1. PICK m \in Matches, side \in Sides : row[m].status = "COMPLETED" /\ cell = CellOf(m, side)
      BY CellsAre
    <3>2. /\ row[m].competitor[side] = c /\ row[m].winner = c
          /\ row[m].competitor[3 - side] \in Listed
      BY <3>1 DEF CellOf
    <3>3. /\ row[m].competitor[1] # row[m].competitor[2] /\ row[m].winner # None
          /\ CountedWinner(row, m) = row[m].winner
      BY <3>1, Results
    <3>4. \A s \in Sides : row[m].competitor[s] \in Listed
      BY <3>2 DEF Sides
    <3>5. m \in won
      BY <3>1, <3>2, <3>3, <3>4 DEF Won, Counted
    <3>6. seat(m) = side
      BY <3>2, <3>3 DEF Sides
    <3> QED
      BY <3>1, <3>5, <3>6
  <2>5. IsFiniteSet(won)
    <3>1. won \subseteq Matches
      BY <2>1
    <3> QED
      BY <3>1, TableRows, FS_Subset
  <2>6. WinsIn(row, Matches, Listed)[c] = Cardinality(won)
    BY DEF WinsIn
  <2>7. Cardinality(won) = Cardinality(shown)
    <3>1. cellOf = [m \in won |-> cellOf[m]]
      OBVIOUS
    <3> HIDE DEF won, shown, cellOf
    <3>2. cellOf \in Bijection(won, shown)
      BY <2>2, <2>3, <2>4, <3>1 DEF Bijection, Injection, Surjection, IsInjective
    <3> QED
      BY <2>5, <3>2, FS_Bijection DEF ExistsBijection
  <2> QED
    BY <2>6, <2>7
<1> QED
  BY <1>1, <1>2 DEF GridAgreesWithTable

-----------------------------------------------------------------------------
(* A match is fought *)

(* What fighting m adds to the results.                                    *)
LEMMA FightCounts ==
  ASSUME TableIInv, NEW m \in Matches, NEW side \in Sides, NEW winMethod \in category.winWays,
         NEW shidos \in [Sides -> 0..category.maxShido], Fight(m, side, winMethod, shidos),
         NEW entered
  PROVE  LET seated == \A s \in Sides : row[m].competitor[s] \in entered
         IN  /\ m \notin Counted(row, Matches, entered)
             /\ Counted(row', Matches, entered) =
                  Counted(row, Matches, entered) \cup (IF seated THEN {m} ELSE {})
             /\ \A k \in Counted(row, Matches, entered) : row'[k] = row[k]
             /\ Matches' = Matches /\ Listed' = Listed /\ TableIInv'
             /\ CountedWinner(row', m) = row[m].competitor[side]
             /\ row'[m].winner = row[m].competitor[side]
<1>1. /\ UNCHANGED <<category, withdrawn>> /\ ReadyRow(row[m])
      /\ row' \in [Matches -> TableRow(category.count)]
      /\ \A k \in Matches \ {m} : row'[k] = row[k]
      /\ row'[m].competitor = row[m].competitor /\ row'[m].status = "COMPLETED"
      /\ row'[m].winner = row[m].competitor[side]
  BY FightWrites DEF Matches
<1>2. Matches' = Matches /\ Listed' = Listed
  BY <1>1 DEF Matches, Listed
<1>3. TableIInv'
  <2>1. [Next]_vars
    BY DEF Next, Matches
  <2> QED
    BY <2>1, NextTable
<1>4. /\ row'[m].winner # None /\ CountedWinner(row', m) = row[m].competitor[side]
  BY <1>1 DEF ReadyRow, CountedWinner, Sides
<1>5. row[m].status # "COMPLETED"
  BY <1>1 DEF ReadyRow
<1>6. \A k \in Matches : k \in Counted(row', Matches, entered) <=>
        \/ k \in Counted(row, Matches, entered)
        \/ k = m /\ \A s \in Sides : row[m].competitor[s] \in entered
  <2> SUFFICES ASSUME NEW k \in Matches
               PROVE  k \in Counted(row', Matches, entered) <=>
                        \/ k \in Counted(row, Matches, entered)
                        \/ k = m /\ \A s \in Sides : row[m].competitor[s] \in entered
    OBVIOUS
  <2>1. CASE k = m
    BY <1>1, <1>4, <1>5, <2>1 DEF Counted
  <2>2. CASE k # m
    BY <1>1, <2>2 DEF Counted
  <2> QED
    BY <2>1, <2>2
<1>7. /\ Counted(row', Matches, entered) \subseteq Matches
      /\ Counted(row, Matches, entered) \subseteq Matches
      /\ m \notin Counted(row, Matches, entered)
  BY <1>5 DEF Counted
<1>8. Counted(row', Matches, entered) =
        Counted(row, Matches, entered)
          \cup (IF \A s \in Sides : row[m].competitor[s] \in entered THEN {m} ELSE {})
  BY <1>6, <1>7
<1>9. \A k \in Counted(row, Matches, entered) : row'[k] = row[k]
  BY <1>1, <1>7
<1> QED
  BY <1>1, <1>2, <1>3, <1>4, <1>7, <1>8, <1>9

(* Results that are not changed make the same table.                       *)
CountedAlike(q, r, table, entered) ==
  /\ Counted(q, table, entered) = Counted(r, table, entered)
  /\ \A k \in Counted(r, table, entered) : q[k] = r[k]

LEMMA SameResults ==
  ASSUME NEW r, NEW q, NEW table, NEW entered,
         CountedAlike(q, r, table, entered),
         \A c, d \in entered : CountedAlike(q, r, table, {c, d})
  PROVE  Ranks(q, table, entered) = Ranks(r, table, entered)
<1> DEFINE counted == Counted(r, table, entered)
<1> USE DEF CountedAlike
<1>1. \A c : Won(q, counted, c) = Won(r, counted, c)
  BY DEF Won, CountedWinner
<1>2. \A c, how : WinsBy(q, counted, c, how) = WinsBy(r, counted, c, how)
  <2> SUFFICES ASSUME NEW c, NEW how PROVE WinsBy(q, counted, c, how) = WinsBy(r, counted, c, how)
    OBVIOUS
  <2>1. {m \in Won(q, counted, c) : q[m].winMethod = how} = {m \in Won(r, counted, c) : r[m].winMethod = how}
    BY <1>1 DEF Won
  <2> QED
    BY <2>1 DEF WinsBy
<1>3. \A c : ShidosReceived(q, counted, c) = ShidosReceived(r, counted, c)
  <2> SUFFICES ASSUME NEW c PROVE ShidosReceived(q, counted, c) = ShidosReceived(r, counted, c)
    OBVIOUS
  <2> DEFINE received(x, m) == x[m].scores[IF x[m].competitor[1] = c THEN 1 ELSE 2].shido
             fought(x) == {m \in counted : \E side \in Sides : x[m].competitor[side] = c}
             all(x) == UNION {{m} \X (1..received(x, m)) : m \in fought(x)}
  <2>1. fought(q) = fought(r) /\ \A m \in fought(r) : received(q, m) = received(r, m)
    OBVIOUS
  <2>2. all(q) = all(r)
    <3> HIDE DEF received, fought
    <3> QED
      BY <2>1
  <2>3. ShidosReceived(q, counted, c) = Cardinality(all(q)) /\ ShidosReceived(r, counted, c) = Cardinality(all(r))
    BY DEF ShidosReceived
  <2> HIDE DEF all
  <2> QED
    BY <2>2, <2>3
<1>4. Criteria(q, table, entered) = Criteria(r, table, entered)
  <2> HIDE DEF counted
  <2>1. /\ Criteria(q, table, entered) =
             [c \in entered |-> <<Cardinality(Won(q, counted, c)), WinsBy(q, counted, c, "IPPON"),
                WinsBy(q, counted, c, "WAZA_ARI"), -ShidosReceived(q, counted, c)>>]
        /\ Criteria(r, table, entered) =
             [c \in entered |-> <<Cardinality(Won(r, counted, c)), WinsBy(r, counted, c, "IPPON"),
                WinsBy(r, counted, c, "WAZA_ARI"), -ShidosReceived(r, counted, c)>>]
    BY DEF Criteria, counted
  <2> QED
    BY <1>1, <1>2, <1>3, <2>1
<1>5. \A c, d \in entered : HeadToHead(q, table, c, d) = HeadToHead(r, table, c, d)
  BY DEF HeadToHead
<1> DEFINE criteria == Criteria(r, table, entered)
<1>6. \A c \in entered : Level(criteria, c) \subseteq entered
  BY DEF Level, Criteria
<1> HIDE DEF criteria
<1>7. \A c \in entered : /\ ToldApart(q, table, Level(criteria, c)) <=> ToldApart(r, table, Level(criteria, c))
                         /\ \A d \in Level(criteria, c) :
                              HeadToHead(q, table, c, d) = HeadToHead(r, table, c, d)
  BY <1>5, <1>6 DEF ToldApart
<1> DEFINE lostDirect(x, c) ==
             /\ ToldApart(x, table, Level(criteria, c))
             /\ \A d \in Level(criteria, c) \ {c} : c \notin HeadToHead(x, table, c, d)
           ahead(c) == {d \in entered : Ahead(criteria[d], criteria[c])}
<1>8. \A c \in entered : lostDirect(q, c) <=> lostDirect(r, c)
  BY <1>7
<1>9. /\ Ranks(q, table, entered) =
           [c \in entered |-> 1 + Cardinality(ahead(c)) + (IF lostDirect(q, c) THEN 1 ELSE 0)]
      /\ Ranks(r, table, entered) =
           [c \in entered |-> 1 + Cardinality(ahead(c)) + (IF lostDirect(r, c) THEN 1 ELSE 0)]
  BY <1>4 DEF Ranks, criteria
<1> HIDE DEF ahead, lostDirect
<1> QED
  BY <1>8, <1>9

(* Among the listed, the winner has one win more and nobody else has.      *)
LEMMA OneMoreWin ==
  ASSUME TableIInv, NEW m \in Matches, NEW side \in Sides, NEW winMethod \in category.winWays,
         NEW shidos \in [Sides -> 0..category.maxShido], Fight(m, side, winMethod, shidos),
         \A s \in Sides : row[m].competitor[s] \in Listed
  PROVE  LET wins == WinsIn(row, Matches, Listed)
             now == WinsIn(row', Matches, Listed)
             winner == row[m].competitor[side]
         IN  /\ now[winner] = wins[winner] + 1
             /\ \A d \in Listed \ {winner} : now[d] = wins[d]
<1> DEFINE counted == Counted(row, Matches, Listed)
           after == Counted(row', Matches, Listed)
           winner == row[m].competitor[side]
<1>1. /\ m \notin counted /\ after = counted \cup {m} /\ \A k \in counted : row'[k] = row[k]
      /\ CountedWinner(row', m) = winner
  BY FightCounts
<1>2. IsFiniteSet(counted)
  <2>1. counted \subseteq Matches
    BY DEF Counted
  <2> QED
    BY <2>1, TableRows, FS_Subset
<1>3. winner \in Listed
  OBVIOUS
<1> HIDE DEF counted, after, winner
<1>4. \A d : Won(row', after, d) = Won(row, counted, d) \cup (IF d = winner THEN {m} ELSE {})
  <2> SUFFICES ASSUME NEW d
               PROVE  Won(row', after, d) = Won(row, counted, d) \cup (IF d = winner THEN {m} ELSE {})
    OBVIOUS
  <2>1. \A k \in counted : CountedWinner(row', k) = CountedWinner(row, k)
    BY <1>1 DEF CountedWinner
  <2> QED
    BY <1>1, <2>1 DEF Won
<1>5. Cardinality(Won(row', after, winner)) = Cardinality(Won(row, counted, winner)) + 1
  <2>1. m \notin Won(row, counted, winner) /\ IsFiniteSet(Won(row, counted, winner))
    BY <1>1, <1>2, FS_Subset DEF Won
  <2>2. Won(row', after, winner) = Won(row, counted, winner) \cup {m}
    BY <1>4
  <2> QED
    BY <2>1, <2>2, FS_AddElement
<1>6. \A d : d # winner => Won(row', after, d) = Won(row, counted, d)
  BY <1>4
<1>7. /\ WinsIn(row, Matches, Listed) = [c \in Listed |-> Cardinality(Won(row, counted, c))]
      /\ WinsIn(row', Matches, Listed) = [c \in Listed |-> Cardinality(Won(row', after, c))]
  BY DEF WinsIn, counted, after
<1> QED
  BY <1>3, <1>5, <1>6, <1>7 DEF winner

LEMMA TablesNow == TableIInv => ATable(row, Matches, Listed)
  BY ResultsAreATable

LEMMA TablesNext == TableIInv' => ATable(row, Matches, Listed)'
  BY TablesNow, PTL

LEMMA WinnerStays ==
  ASSUME TableIInv, NEW m \in Matches, NEW side \in Sides, NEW winMethod \in category.winWays,
         NEW shidos \in [Sides -> 0..category.maxShido], Fight(m, side, winMethod, shidos),
         row[m].competitor[side] \in Listed
  PROVE  Table'[row[m].competitor[side]] <= Table[row[m].competitor[side]]
<1> DEFINE winner == row[m].competitor[side]
<1>1. /\ Matches' = Matches /\ Listed' = Listed /\ TableIInv'
      /\ \A c, d \in Listed : \A k \in Counted(row, Matches, {c, d}) : row'[k] = row[k]
      /\ \A k \in Counted(row, Matches, Listed) : row'[k] = row[k]
  BY FightCounts
<1>2. Table = Ranks(row, Matches, Listed) /\ Table' = Ranks(row', Matches, Listed)
  BY <1>1 DEF Table
<1>3. ATable(row, Matches, Listed) /\ ATable(row', Matches, Listed)
  <2>1. ATable(row, Matches, Listed)' = ATable(row', Matches, Listed)
    BY <1>1 DEF ATable, OneResultEach, HeadToHead, Counted
  <2> QED
    BY <1>1, <2>1, TablesNow, TablesNext
<1>4. CASE \E s \in Sides : row[m].competitor[s] \notin Listed
  <2>1. Counted(row', Matches, Listed) = Counted(row, Matches, Listed)
    BY <1>4, FightCounts
  <2>2. \A c, d \in Listed : Counted(row', Matches, {c, d}) = Counted(row, Matches, {c, d})
    <3> SUFFICES ASSUME NEW c \in Listed, NEW d \in Listed
                 PROVE  Counted(row', Matches, {c, d}) = Counted(row, Matches, {c, d})
      OBVIOUS
    <3>1. ~(\A s \in Sides : row[m].competitor[s] \in {c, d})
      BY <1>4
    <3>2. Counted(row', Matches, {c, d}) =
            Counted(row, Matches, {c, d})
              \cup (IF \A s \in Sides : row[m].competitor[s] \in {c, d} THEN {m} ELSE {})
      BY FightCounts
    <3> QED
      BY <3>1, <3>2
  <2>3. CountedAlike(row', row, Matches, Listed)
    BY <1>1, <2>1 DEF CountedAlike
  <2>4. \A c, d \in Listed : CountedAlike(row', row, Matches, {c, d})
    BY <1>1, <2>2 DEF CountedAlike
  <2>5. Ranks(row', Matches, Listed) = Ranks(row, Matches, Listed)
    BY <2>3, <2>4, SameResults
  <2>6. Table[winner] \in Int
    BY <1>2, <1>3, RankCounts
  <2> QED
    BY <1>2, <2>5, <2>6
<1>5. CASE \A s \in Sides : row[m].competitor[s] \in Listed
  <2> DEFINE criteria == Criteria(row, Matches, Listed)
             now == Criteria(row', Matches, Listed)
             before == Before(row, Matches, Listed, winner)
             after == Before(row', Matches, Listed, winner)
  <2>1. /\ criteria \in [Listed -> Vector] /\ now \in [Listed -> Vector]
        /\ \A c \in Listed : criteria[c][1] = WinsIn(row, Matches, Listed)[c]
        /\ \A c \in Listed : now[c][1] = WinsIn(row', Matches, Listed)[c]
        /\ LevelWith(row', Matches, Listed, winner) = {d \in Listed : now[d] = now[winner]}
    BY <1>3, CriteriaAreNumbers, LevelIs DEF ATable
  <2>2. now[winner][1] = criteria[winner][1] + 1 /\ \A d \in Listed \ {winner} : now[d][1] = criteria[d][1]
    BY <1>5, <2>1, OneMoreWin
  <2>3. \A c \in Listed : criteria[c][1] \in Int /\ now[c][1] \in Int
    BY <2>1 DEF Vector
  <2>4. after \subseteq before
    <3> SUFFICES ASSUME NEW d \in after PROVE d \in before
      OBVIOUS
    <3>1. d \in Listed /\ (Ahead(now[d], now[winner]) \/ (d # winner /\ now[d] = now[winner]))
      BY <2>1 DEF Before, AheadOf
    <3>2. d # winner
      BY <2>1, <3>1, AheadOrders
    <3>3. now[d][1] >= now[winner][1]
      <4>1. now[d] \in Vector /\ now[winner] \in Vector
        BY <2>1, <3>1
      <4> HIDE DEF now
      <4> QED
        BY <2>3, <3>1, <4>1, AheadOneByOne
    <3>4. criteria[d][1] > criteria[winner][1]
      <4> HIDE DEF now, criteria, winner
      <4> QED
        BY <1>5, <2>2, <2>3, <3>1, <3>2, <3>3 DEF winner
    <3>5. Ahead(criteria[d], criteria[winner])
      <4>1. criteria[d] \in Vector /\ criteria[winner] \in Vector
        BY <2>1, <3>1
      <4> QED
        BY <3>4, <4>1, AheadOrders
    <3> QED
      BY <3>1, <3>5 DEF Before, AheadOf
  <2>5. IsFiniteSet(before) /\ IsFiniteSet(after)
    BY <1>3, LevelIs
  <2>6. Cardinality(after) <= Cardinality(before)
    <3> HIDE DEF before, after
    <3> QED
      BY <2>4, <2>5, FS_Subset
  <2>7. /\ Ranks(row, Matches, Listed)[winner] = 1 + Cardinality(before)
        /\ Ranks(row', Matches, Listed)[winner] = 1 + Cardinality(after)
        /\ Cardinality(before) \in Nat /\ Cardinality(after) \in Nat
    BY <1>3, RankCounts
  <2> HIDE DEF before, after, winner
  <2> QED
    BY <1>2, <2>6, <2>7 DEF winner
<1> QED
  BY <1>4, <1>5

-----------------------------------------------------------------------------
(* The theorems *)

LEMMA TableAlways == Spec => []TableIInv
<1> QED
  BY InitTable, NextTable, PTL DEF Spec

(* The table and the grid agree, and both with the ties that are reported: *)
(* places are shared by those who are reported as tied and no others, and  *)
(* as many places are left out as are shared, whoever has fought, whoever  *)
(* has left, and with any number of competitors.                           *)
THEOREM TableAndGridAgree == Spec => []TableIsTold
<1>1. TableIInv => TableIsTold
  BY PlacesOfTable, GridIsRight DEF TableIsTold
<1> QED
  BY <1>1, TableAlways, PTL

(* A category that nobody has left and that is reported as over has no     *)
(* match left to fight: a round robin of n has n (n - 1) / 2 matches.      *)
THEOREM OverMeansFought == Spec => []CompleteIsOver
<1> QED
  BY TableIsOver, TableAlways, PTL

(* The place of a winner is never worse for having won, whatever shido the *)
(* match cost, whoever was level before and whoever is level now.          *)
THEOREM WinningNeverHurts == Spec => WinnerNeverDrops
<1> DEFINE Drops == \A m \in Matches :
                      row'[m] # row[m] /\ row'[m].winner \in Listed =>
                        Table'[row'[m].winner] <= Table[row'[m].winner]
<1>1. TableIInv /\ [Next]_vars => [Drops]_vars
  <2> SUFFICES ASSUME TableIInv, Next, NEW m \in Matches,
                      row'[m] # row[m], row'[m].winner \in Listed
               PROVE  Table'[row'[m].winner] <= Table[row'[m].winner]
    OBVIOUS
  <2>1. PICK k \in Matches, side \in Sides, winMethod \in category.winWays,
             shidos \in [Sides -> 0..category.maxShido] : Fight(k, side, winMethod, shidos)
    BY DEF Next, Disqualify, Matches
  <2>2. k = m /\ row'[m].winner = row[m].competitor[side]
    BY <2>1, FightWrites DEF Matches
  <2> QED
    BY <2>1, <2>2, WinnerStays
<1> QED
  BY <1>1, TableAlways, PTL DEF Spec, WinnerNeverDrops
=============================================================================
