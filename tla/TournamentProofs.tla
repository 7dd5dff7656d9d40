-------------------------- MODULE TournamentProofs --------------------------
(***************************************************************************)
(* Proofs about Tournament for categories of every size, and every order   *)
(* and outcome of their matches.                                           *)
(*                                                                         *)
(* TurnsIInv says who waits where, who has lost how often and which matches*)
(* can be over; it is about any draw that is full (FullDraw) and any match *)
(* fought in it.  SeatedIInv adds where losers are and whose last match is *)
(* over.  That a draw is full is proved of eliminations and grand slams of *)
(* every size from which nobody has been withdrawn (DrawsAreFull).         *)
(* PagesIInv adds what pages and profiles read off the rows.               *)
(* At the end, Drawing: the draw of every format and size is complete and  *)
(* keeps the strong apart.                                                 *)
(***************************************************************************)
EXTENDS Tournament, Drawing, DrawLemmas, FiniteSetTheorems, TLAPS

-----------------------------------------------------------------------------
(* The invariant *)

Over(r, m) == r[m].status = "COMPLETED"

(* Only matches that somebody can come to on both sides are fought, and a  *)
(* match that is over has been fought, or is a bye as it was drawn.        *)
FoughtRows(d, r) ==
  \A m \in d.matches :
    /\ r[m].status # "ACTIVE"
    /\ \A side \in Sides : ~Fed(d, m, side) => r[m].competitor[side] = None
    /\ m \in d.byes =>
         Over(r, m) /\ \A side \in Sides : r[m].competitor[side] = d.entrants[m][side]
    /\ m \notin d.byes /\ Over(r, m) =>
         \E side \in Sides :
           /\ r[m].winner = r[m].competitor[side]
           /\ r[m].competitor[side] # None /\ r[m].competitor[3 - side] # None
           /\ r[m].competitor[side] # r[m].competitor[3 - side]

(* A slot that waits for somebody is empty until that match is over.       *)
SlotsAwait(d, r) ==
  \A m \in d.matches :
    /\ m \in Contested(d) /\ d.winnerTo[m] # None
         /\ r[d.winnerTo[m]].competitor[d.winnerSide[m]] # None => Over(r, m)
    /\ d.loserTo[m] # None /\ d.loserSide[m] # ArrivalOrder
         /\ r[d.loserTo[m]].competitor[d.loserSide[m]] # None => Over(r, m)
    /\ d.loserTo[m] # None /\ d.loserSide[m] = ArrivalOrder =>
         /\ r[d.loserTo[m]].competitor[1] # None =>
              \E n \in d.matches : d.loserTo[n] = d.loserTo[m] /\ Over(r, n)
         /\ r[d.loserTo[m]].competitor[2] # None =>
              \A n \in d.matches : d.loserTo[n] = d.loserTo[m] => Over(r, n)

(* Everybody waits in one slot at most.                                    *)
OneSlotEach(d, r) ==
  \A m, n \in Contested(d), s, t \in Sides :
    /\ ~Over(r, m) /\ ~Over(r, n)
    /\ r[m].competitor[s] # None /\ r[m].competitor[s] = r[n].competitor[t]
    => m = n /\ s = t

DefeatsIn(d, r, c) == {m \in d.matches : Over(r, m) /\ c \in Beaten(r, m)}

(* Who waits in the consolation has lost once, anybody else never.         *)
DefeatsFit(d, r) ==
  \A m \in Contested(d), s \in Sides :
    ~Over(r, m) /\ r[m].competitor[s] # None =>
      IF m \in Consolation(d)
      THEN \E n \in d.matches :
             d.loserTo[n] # None /\ DefeatsIn(d, r, r[m].competitor[s]) = {n}
      ELSE DefeatsIn(d, r, r[m].competitor[s]) = {}

TurnsInv(d, r) == FoughtRows(d, r) /\ SlotsAwait(d, r) /\ OneSlotEach(d, r) /\ DefeatsFit(d, r)

TheDraw == Drawn[category]

Typing ==
  \E c \in Categories :
    category = c /\ row \in [Drawn[c].matches -> Bracket(c, Drawn[c])!Row]

TurnsIInv == Typing /\ TurnsInv(TheDraw, row)

-----------------------------------------------------------------------------
(* A match is fought *)

(* What the proofs use of a draw.                                          *)
WellDrawn(d) ==
  /\ None \notin d.matches
  /\ d.byes \subseteq d.matches
  /\ \A m \in d.matches :
       /\ d.winnerTo[m] \in d.matches \cup {None} /\ d.winnerSide[m] \in Sides
       /\ d.loserTo[m] \in d.matches \cup {None} /\ d.loserSide[m] \in Sides \cup {ArrivalOrder}
       /\ d.winnerTo[m] # m /\ d.loserTo[m] # m
       /\ m \in d.byes => \E side \in Sides : d.entrants[m][side] = None
       /\ \A side \in Sides :
            d.loserTo[m] # None /\ d.loserSide[m] \in {side, ArrivalOrder} =>
              d.entrants[d.loserTo[m]][side] = None
  /\ \A m, n \in d.matches :
       /\ d.winnerTo[m] # None /\ d.winnerTo[m] = d.winnerTo[n] /\ d.winnerSide[m] = d.winnerSide[n]
            => m = n
       /\ d.winnerTo[m] # None /\ d.winnerTo[m] = d.loserTo[n] =>
            d.loserSide[n] \in Sides /\ d.loserSide[n] # d.winnerSide[m]
       /\ m # n /\ d.loserTo[m] # None /\ d.loserTo[m] = d.loserTo[n] =>
            /\ d.loserSide[m] = ArrivalOrder <=> d.loserSide[n] = ArrivalOrder
            /\ d.loserSide[m] # ArrivalOrder => d.loserSide[m] # d.loserSide[n]
            /\ \A l \in d.matches : d.loserTo[l] = d.loserTo[m] => l \in {m, n}
  /\ EnteredOnce(d) /\ OneConsolation(d)

(* Rows q follow rows r when side wins match m; the loser takes side k.    *)
IsFought(d, r, q, m, side, k) ==
  /\ r[m].status = "SCHEDULED" /\ \A s \in Sides : r[m].competitor[s] # None
  /\ k = IF d.loserSide[m] # ArrivalOrder THEN d.loserSide[m]
         ELSE IF d.loserTo[m] # None /\ r[d.loserTo[m]].competitor[1] = None THEN 1 ELSE 2
  /\ \A n \in d.matches :
       /\ q[n].status = IF n = m THEN "COMPLETED" ELSE r[n].status
       /\ q[n].winner = IF n = m THEN r[m].competitor[side] ELSE r[n].winner
       /\ \A s \in Sides :
            q[n].competitor[s] =
              IF n = d.winnerTo[m] /\ s = d.winnerSide[m] THEN r[m].competitor[side]
              ELSE IF n = d.loserTo[m] /\ s = k THEN r[m].competitor[3 - side]
              ELSE r[n].competitor[s]

AFight(d, r, q, m, side, k) ==
  /\ m \in d.matches /\ side \in Sides
  /\ WellDrawn(d) /\ TurnsInv(d, r) /\ IsFought(d, r, q, m, side, k)

LEMMA OtherSide ==
  ASSUME NEW side \in Sides
  PROVE  3 - side \in Sides /\ 3 - side # side /\ \A s \in Sides : s \in {side, 3 - side}
BY DEF Sides

(* Where winner and loser go there is room.                                *)
LEMMA RoomForBoth ==
  ASSUME NEW d, NEW r, NEW q, NEW m, NEW side, NEW k, AFight(d, r, q, m, side, k)
  PROVE  /\ m \in Contested(d) /\ m \notin d.byes /\ k \in Sides
         /\ r[m].competitor[side] # r[m].competitor[3 - side]
         /\ d.winnerTo[m] # None =>
              /\ ~Over(r, d.winnerTo[m]) /\ d.winnerTo[m] \notin d.byes
              /\ r[d.winnerTo[m]].competitor[d.winnerSide[m]] = None
         /\ d.loserTo[m] # None =>
              /\ ~Over(r, d.loserTo[m]) /\ d.loserTo[m] \notin d.byes
              /\ r[d.loserTo[m]].competitor[k] = None
              /\ d.loserTo[m] = d.winnerTo[m] => k # d.winnerSide[m]
<1>a. /\ m \in d.matches /\ side \in Sides
      /\ WellDrawn(d) /\ TurnsInv(d, r) /\ IsFought(d, r, q, m, side, k)
  BY DEF AFight
<1>1. ~Over(r, m) /\ m \notin d.byes
  BY <1>a DEF TurnsInv, FoughtRows, IsFought, Over
<1>2. m \in Contested(d)
  BY <1>a, <1>1 DEF TurnsInv, FoughtRows, IsFought, Contested
<1>3. k \in Sides
  BY <1>a DEF IsFought, WellDrawn, Sides
<1>4. r[m].competitor[side] # r[m].competitor[3 - side]
  BY <1>a, <1>1, <1>2, OtherSide DEF TurnsInv, OneSlotEach, IsFought
<1>5. \A n \in d.matches, s \in Sides :
        n \notin d.byes /\ r[n].competitor[s] = None => ~Over(r, n)
  BY <1>a DEF TurnsInv, FoughtRows, Sides
<1>6. ASSUME d.winnerTo[m] # None
      PROVE  /\ ~Over(r, d.winnerTo[m]) /\ d.winnerTo[m] \notin d.byes
             /\ r[d.winnerTo[m]].competitor[d.winnerSide[m]] = None
  <2>1. d.winnerTo[m] \in d.matches /\ d.winnerTo[m] \notin d.byes /\ d.winnerSide[m] \in Sides
    BY <1>a, <1>2, <1>6 DEF WellDrawn, EnteredOnce
  <2>2. r[d.winnerTo[m]].competitor[d.winnerSide[m]] = None
    BY <1>a, <1>1, <1>2, <1>6 DEF TurnsInv, SlotsAwait
  <2> QED
    BY <1>5, <2>1, <2>2
<1>7. ASSUME d.loserTo[m] # None
      PROVE  /\ ~Over(r, d.loserTo[m]) /\ d.loserTo[m] \notin d.byes
             /\ r[d.loserTo[m]].competitor[k] = None
             /\ d.loserTo[m] = d.winnerTo[m] => k # d.winnerSide[m]
  <2>1. d.loserTo[m] \in d.matches /\ d.loserTo[m] \notin d.byes
    BY <1>a, <1>7 DEF WellDrawn, EnteredOnce
  <2>2. r[d.loserTo[m]].competitor[k] = None
    BY <1>a, <1>1, <1>7 DEF TurnsInv, SlotsAwait, IsFought
  <2>3. d.loserTo[m] = d.winnerTo[m] => k # d.winnerSide[m]
    BY <1>a, <1>7 DEF WellDrawn, IsFought, Sides, ArrivalOrder
  <2> QED
    BY <1>3, <1>5, <2>1, <2>2, <2>3
<1> QED
  BY <1>1, <1>2, <1>3, <1>4, <1>6, <1>7

(* Nobody who has a slot loses it, and a match that is over stays as it is.*)
LEMMA RowsKept ==
  ASSUME NEW d, NEW r, NEW q, NEW m, NEW side, NEW k, AFight(d, r, q, m, side, k)
  PROVE  /\ \A n \in d.matches : Over(q, n) <=> Over(r, n) \/ n = m
         /\ \A n \in d.matches, s \in Sides :
              /\ r[n].competitor[s] # None => q[n].competitor[s] = r[n].competitor[s]
              /\ q[n].competitor[s] # r[n].competitor[s] => Fed(d, n, s)
              /\ Over(r, n) \/ n = m => q[n].competitor[s] = r[n].competitor[s]
<1>a. /\ m \in d.matches /\ side \in Sides
      /\ WellDrawn(d) /\ TurnsInv(d, r) /\ IsFought(d, r, q, m, side, k)
  BY DEF AFight
<1>b. /\ k \in Sides
      /\ d.winnerTo[m] # None =>
           /\ ~Over(r, d.winnerTo[m])
           /\ r[d.winnerTo[m]].competitor[d.winnerSide[m]] = None
      /\ d.loserTo[m] # None =>
           ~Over(r, d.loserTo[m]) /\ r[d.loserTo[m]].competitor[k] = None
  BY RoomForBoth
<1>1. \A n \in d.matches : Over(q, n) <=> Over(r, n) \/ n = m
  BY <1>a DEF IsFought, Over
<1>2. ASSUME NEW n \in d.matches, NEW s \in Sides, q[n].competitor[s] # r[n].competitor[s]
      PROVE  /\ r[n].competitor[s] = None /\ Fed(d, n, s)
             /\ ~Over(r, n) /\ n # m
  <2>1. n # None
    BY <1>a DEF WellDrawn
  <2>2. CASE n = d.winnerTo[m] /\ s = d.winnerSide[m]
    BY <1>a, <2>1, <2>2, <1>b DEF Fed, WellDrawn
  <2>3. CASE n = d.loserTo[m] /\ s = k /\ ~(n = d.winnerTo[m] /\ s = d.winnerSide[m])
    <3>1. d.loserSide[m] \in {s, ArrivalOrder}
      BY <1>a, <2>3 DEF IsFought
    <3> QED
      BY <1>a, <2>1, <2>3, <3>1, <1>b DEF Fed, WellDrawn
  <2> QED
    BY <1>a, <1>2, <2>2, <2>3 DEF IsFought
<1> QED
  BY <1>1, <1>2

LEMMA FoughtRowsStay ==
  ASSUME NEW d, NEW r, NEW q, NEW m, NEW side, NEW k, AFight(d, r, q, m, side, k)
  PROVE  FoughtRows(d, q)
<1>a. /\ m \in d.matches /\ side \in Sides
      /\ WellDrawn(d) /\ TurnsInv(d, r) /\ IsFought(d, r, q, m, side, k)
  BY DEF AFight
<1>b. /\ m \in Contested(d) /\ m \notin d.byes /\ k \in Sides
      /\ r[m].competitor[side] # r[m].competitor[3 - side]
  BY RoomForBoth
<1>c. /\ \A n \in d.matches : Over(q, n) <=> Over(r, n) \/ n = m
      /\ \A n \in d.matches, s \in Sides :
           /\ q[n].competitor[s] # r[n].competitor[s] => Fed(d, n, s)
           /\ Over(r, n) \/ n = m => q[n].competitor[s] = r[n].competitor[s]
  BY RowsKept
<1> SUFFICES ASSUME NEW n \in d.matches
             PROVE  /\ q[n].status # "ACTIVE"
                    /\ \A s \in Sides : ~Fed(d, n, s) => q[n].competitor[s] = None
                    /\ n \in d.byes =>
                         Over(q, n) /\ \A s \in Sides : q[n].competitor[s] = d.entrants[n][s]
                    /\ n \notin d.byes /\ Over(q, n) =>
                         \E s \in Sides :
                           /\ q[n].winner = q[n].competitor[s]
                           /\ q[n].competitor[s] # None /\ q[n].competitor[3 - s] # None
                           /\ q[n].competitor[s] # q[n].competitor[3 - s]
  BY DEF FoughtRows
<1>1. q[n].status # "ACTIVE"
  BY <1>a DEF IsFought, TurnsInv, FoughtRows
<1>2. \A s \in Sides : ~Fed(d, n, s) => q[n].competitor[s] = None
  BY <1>a, <1>c DEF TurnsInv, FoughtRows
<1>3. n \in d.byes => Over(q, n) /\ \A s \in Sides : q[n].competitor[s] = d.entrants[n][s]
  BY <1>a, <1>c DEF TurnsInv, FoughtRows
<1>4. ASSUME n = m
      PROVE  /\ q[n].winner = q[n].competitor[side]
             /\ q[n].competitor[side] # None /\ q[n].competitor[3 - side] # None
             /\ q[n].competitor[side] # q[n].competitor[3 - side]
  BY <1>a, <1>4, <1>c, <1>b, OtherSide DEF IsFought
<1>5. ASSUME n # m, n \notin d.byes, Over(q, n)
      PROVE  \E s \in Sides :
               /\ q[n].winner = q[n].competitor[s]
               /\ q[n].competitor[s] # None /\ q[n].competitor[3 - s] # None
               /\ q[n].competitor[s] # q[n].competitor[3 - s]
  <2>1. Over(r, n) /\ q[n].winner = r[n].winner
    BY <1>a, <1>5, <1>c DEF IsFought
  <2>2. \A s \in Sides : q[n].competitor[s] = r[n].competitor[s]
    BY <2>1, <1>c
  <2> QED
    BY <1>a, <1>5, <2>1, <2>2, OtherSide DEF TurnsInv, FoughtRows
<1> QED
  BY <1>a, <1>1, <1>2, <1>3, <1>4, <1>5

LEMMA SlotsAwaitStay ==
  ASSUME NEW d, NEW r, NEW q, NEW m, NEW side, NEW k, AFight(d, r, q, m, side, k)
  PROVE  SlotsAwait(d, q)
<1>a. /\ m \in d.matches /\ side \in Sides
      /\ WellDrawn(d) /\ TurnsInv(d, r) /\ IsFought(d, r, q, m, side, k)
  BY DEF AFight
<1>b. /\ m \in Contested(d) /\ m \notin d.byes /\ k \in Sides
      /\ r[m].competitor[side] # r[m].competitor[3 - side]
  BY RoomForBoth
<1>c. /\ \A n \in d.matches : Over(q, n) <=> Over(r, n) \/ n = m
      /\ \A n \in d.matches, s \in Sides :
           /\ q[n].competitor[s] # r[n].competitor[s] => Fed(d, n, s)
           /\ Over(r, n) \/ n = m => q[n].competitor[s] = r[n].competitor[s]
  BY RowsKept
<1>1. \A n \in d.matches : Over(q, n) <=> Over(r, n) \/ n = m
  BY <1>c
<1> SUFFICES ASSUME NEW n \in d.matches
             PROVE  /\ n \in Contested(d) /\ d.winnerTo[n] # None
                         /\ q[d.winnerTo[n]].competitor[d.winnerSide[n]] # None => Over(q, n)
                    /\ d.loserTo[n] # None /\ d.loserSide[n] # ArrivalOrder
                         /\ q[d.loserTo[n]].competitor[d.loserSide[n]] # None => Over(q, n)
                    /\ d.loserTo[n] # None /\ d.loserSide[n] = ArrivalOrder =>
                         /\ q[d.loserTo[n]].competitor[1] # None =>
                              \E l \in d.matches : d.loserTo[l] = d.loserTo[n] /\ Over(q, l)
                         /\ q[d.loserTo[n]].competitor[2] # None =>
                              \A l \in d.matches : d.loserTo[l] = d.loserTo[n] => Over(q, l)
  BY DEF SlotsAwait
<1>2. ASSUME n \in Contested(d), d.winnerTo[n] # None, n # m,
             q[d.winnerTo[n]].competitor[d.winnerSide[n]] # None
      PROVE  Over(r, n)
  <2>1. d.winnerTo[n] \in d.matches /\ d.winnerSide[n] \in Sides
    BY <1>a, <1>2 DEF WellDrawn
  <2>2. ~(d.winnerTo[n] = d.winnerTo[m] /\ d.winnerSide[n] = d.winnerSide[m])
    BY <1>a, <1>2 DEF WellDrawn
  <2>3. ~(d.winnerTo[n] = d.loserTo[m] /\ d.winnerSide[n] = k)
    BY <1>a, <1>2 DEF WellDrawn, IsFought, Sides, ArrivalOrder
  <2>4. r[d.winnerTo[n]].competitor[d.winnerSide[n]] # None
    BY <1>a, <1>2, <2>1, <2>2, <2>3 DEF IsFought
  <2> QED
    BY <1>a, <1>2, <2>4 DEF TurnsInv, SlotsAwait
<1>3. ASSUME d.loserTo[n] # None, d.loserSide[n] # ArrivalOrder, n # m,
             q[d.loserTo[n]].competitor[d.loserSide[n]] # None
      PROVE  Over(r, n)
  <2>1. d.loserTo[n] \in d.matches /\ d.loserSide[n] \in Sides
    BY <1>a, <1>3 DEF WellDrawn
  <2>2. ~(d.loserTo[n] = d.winnerTo[m] /\ d.loserSide[n] = d.winnerSide[m])
    BY <1>a, <1>3 DEF WellDrawn
  <2>3. ~(d.loserTo[n] = d.loserTo[m] /\ d.loserSide[n] = k)
    BY <1>a, <1>3 DEF WellDrawn, IsFought
  <2>4. r[d.loserTo[n]].competitor[d.loserSide[n]] # None
    BY <1>a, <1>3, <2>1, <2>2, <2>3 DEF IsFought
  <2> QED
    BY <1>a, <1>3, <2>4 DEF TurnsInv, SlotsAwait
<1>4. ASSUME d.loserTo[n] # None, d.loserSide[n] = ArrivalOrder
      PROVE  /\ q[d.loserTo[n]].competitor[1] # None =>
                  \E l \in d.matches : d.loserTo[l] = d.loserTo[n] /\ Over(q, l)
             /\ q[d.loserTo[n]].competitor[2] # None =>
                  \A l \in d.matches : d.loserTo[l] = d.loserTo[n] => Over(q, l)
  <2>1. d.loserTo[n] \in d.matches /\ 1 \in Sides /\ 2 \in Sides
    BY <1>a, <1>4 DEF WellDrawn, Sides
  <2>2. d.loserTo[n] # d.winnerTo[m]
    BY <1>a, <1>4 DEF WellDrawn, Sides, ArrivalOrder
  <2>3. CASE d.loserTo[n] # d.loserTo[m]
    <3>1. \A s \in Sides : q[d.loserTo[n]].competitor[s] = r[d.loserTo[n]].competitor[s]
      BY <1>a, <2>1, <2>2, <2>3 DEF IsFought
    <3> QED
      BY <1>a, <1>1, <1>4, <2>1, <3>1 DEF TurnsInv, SlotsAwait
  <2>4. CASE d.loserTo[n] = d.loserTo[m]
    <3>1. \E l \in d.matches : d.loserTo[l] = d.loserTo[n] /\ Over(q, l)
      BY <1>a, <1>1, <2>4
    <3>2. d.loserSide[m] = ArrivalOrder
      BY <1>a, <1>4, <2>4 DEF WellDrawn
    <3>3. ASSUME q[d.loserTo[n]].competitor[2] # None, NEW l \in d.matches, d.loserTo[l] = d.loserTo[n]
          PROVE  Over(q, l)
      <4>1. CASE r[d.loserTo[n]].competitor[2] # None
        BY <1>a, <1>1, <1>4, <3>3, <4>1 DEF TurnsInv, SlotsAwait
      <4>2. CASE r[d.loserTo[n]].competitor[2] = None
        <5>1. r[d.loserTo[n]].competitor[1] # None
          BY <1>a, <1>4, <2>1, <2>2, <2>4, <3>2, <3>3, <4>2 DEF IsFought
        <5>2. PICK o \in d.matches : d.loserTo[o] = d.loserTo[n] /\ Over(r, o)
          BY <1>a, <1>4, <5>1 DEF TurnsInv, SlotsAwait
        <5>3. o # m
          BY <1>a, <5>2 DEF IsFought, Over
        <5>4. l \in {m, o}
          BY <1>a, <1>4, <2>4, <3>3, <5>2, <5>3 DEF WellDrawn
        <5> QED
          BY <1>1, <5>2, <5>4
      <4> QED
        BY <4>1, <4>2
    <3> QED
      BY <3>1, <3>3
  <2> QED
    BY <2>3, <2>4
<1> QED
  BY <1>1, <1>2, <1>3, <1>4

LEMMA OneSlotEachStays ==
  ASSUME NEW d, NEW r, NEW q, NEW m, NEW side, NEW k, AFight(d, r, q, m, side, k)
  PROVE  OneSlotEach(d, q)
<1>a. /\ m \in d.matches /\ side \in Sides
      /\ WellDrawn(d) /\ TurnsInv(d, r) /\ IsFought(d, r, q, m, side, k)
  BY DEF AFight
<1>b. /\ m \in Contested(d) /\ m \notin d.byes /\ k \in Sides
      /\ r[m].competitor[side] # r[m].competitor[3 - side]
  BY RoomForBoth
<1>c. /\ \A n \in d.matches : Over(q, n) <=> Over(r, n) \/ n = m
      /\ \A n \in d.matches, s \in Sides :
           /\ q[n].competitor[s] # r[n].competitor[s] => Fed(d, n, s)
           /\ Over(r, n) \/ n = m => q[n].competitor[s] = r[n].competitor[s]
  BY RowsKept
<1> DEFINE winner == r[m].competitor[side]
           loser == r[m].competitor[3 - side]
<1>1. /\ winner # loser /\ m \in Contested(d) /\ ~Over(r, m)
      /\ 3 - side \in Sides /\ winner # None /\ loser # None
  BY <1>a, <1>b, OtherSide DEF IsFought, Over
(* Nobody else is where one of the two was.                                *)
<1>2. ASSUME NEW n \in Contested(d), NEW s \in Sides, ~Over(q, n), q[n].competitor[s] # None
      PROVE  /\ n # m /\ ~Over(r, n)
             /\ q[n].competitor[s] = winner <=> n = d.winnerTo[m] /\ s = d.winnerSide[m]
             /\ q[n].competitor[s] = loser => n = d.loserTo[m] /\ s = k
             /\ q[n].competitor[s] \notin {winner, loser} => q[n].competitor[s] = r[n].competitor[s]
  <2>1. n \in d.matches
    BY DEF Contested
  <2>2. n # m /\ ~Over(r, n)
    BY <1>2, <2>1, <1>c
  <2>3. r[n].competitor[s] # winner /\ r[n].competitor[s] # loser
    BY <1>a, <1>1, <2>2 DEF TurnsInv, OneSlotEach
  <2> QED
    BY <1>a, <1>1, <2>1, <2>2, <2>3 DEF IsFought
<1> SUFFICES ASSUME NEW n \in Contested(d), NEW o \in Contested(d), NEW s \in Sides, NEW t \in Sides,
                    ~Over(q, n), ~Over(q, o), q[n].competitor[s] # None,
                    q[n].competitor[s] = q[o].competitor[t]
             PROVE  n = o /\ s = t
  BY DEF OneSlotEach
<1>3. CASE q[n].competitor[s] \in {winner, loser}
  BY <1>1, <1>2, <1>3
<1>4. CASE q[n].competitor[s] \notin {winner, loser}
  BY <1>a, <1>2, <1>4 DEF TurnsInv, OneSlotEach
<1> QED
  BY <1>3, <1>4

LEMMA BeatenOnce ==
  ASSUME NEW d, NEW r, NEW q, NEW m, NEW side, NEW k, AFight(d, r, q, m, side, k),
         DOMAIN r = d.matches, DOMAIN q = d.matches
  PROVE  /\ \A n \in d.matches : n # m /\ Over(r, n) => Beaten(q, n) = Beaten(r, n)
         /\ Beaten(q, m) = {r[m].competitor[3 - side]}
<1>a. /\ m \in d.matches /\ side \in Sides
      /\ WellDrawn(d) /\ TurnsInv(d, r) /\ IsFought(d, r, q, m, side, k)
  BY DEF AFight
<1> DEFINE winner == r[m].competitor[side]
           loser == r[m].competitor[3 - side]
<1>b. /\ m \in Contested(d) /\ m \notin d.byes /\ k \in Sides
      /\ winner # loser /\ 3 - side \in Sides /\ ~Over(r, m)
      /\ winner # None /\ loser # None
  BY <1>a, RoomForBoth, OtherSide DEF IsFought, Over
<1>c. /\ \A n \in d.matches : Over(q, n) <=> Over(r, n) \/ n = m
      /\ \A n \in d.matches, s \in Sides :
           Over(r, n) \/ n = m => q[n].competitor[s] = r[n].competitor[s]
  BY RowsKept
<1>1. \A n \in d.matches : n # m /\ Over(r, n) => Beaten(q, n) = Beaten(r, n)
  <2> SUFFICES ASSUME NEW n \in d.matches, n # m, Over(r, n)
               PROVE  Beaten(q, n) = Beaten(r, n)
    OBVIOUS
  <2>1. /\ q[n].winner = r[n].winner /\ q[n].status = r[n].status
        /\ q[n].competitor[1] = r[n].competitor[1] /\ q[n].competitor[2] = r[n].competitor[2]
    BY <1>a, <1>c DEF IsFought, Sides
  <2> QED
    BY <2>1 DEF Beaten, Done, Exists, Loser, Sides
<1>2. Beaten(q, m) = {loser}
  <2>1. /\ q[m].winner = winner /\ q[m].status = "COMPLETED"
        /\ \A s \in Sides : q[m].competitor[s] = r[m].competitor[s]
    BY <1>a, <1>c DEF IsFought
  <2>2. Loser(q[m], winner) = loser
    BY <1>a, <1>b, <2>1 DEF Loser, Sides
  <2> QED
    BY <1>a, <1>b, <2>1, <2>2 DEF Beaten, Done, Exists, IsFought
<1> QED
  BY <1>1, <1>2

LEMMA DefeatsFitStay ==
  ASSUME NEW d, NEW r, NEW q, NEW m, NEW side, NEW k, AFight(d, r, q, m, side, k),
         DOMAIN r = d.matches, DOMAIN q = d.matches
  PROVE  DefeatsFit(d, q)
<1>a. /\ m \in d.matches /\ side \in Sides
      /\ WellDrawn(d) /\ TurnsInv(d, r) /\ IsFought(d, r, q, m, side, k)
  BY DEF AFight
<1> DEFINE winner == r[m].competitor[side]
           loser == r[m].competitor[3 - side]
<1>b. /\ m \in Contested(d) /\ m \notin d.byes /\ k \in Sides
      /\ winner # loser /\ 3 - side \in Sides /\ ~Over(r, m)
      /\ winner # None /\ loser # None
  BY <1>a, RoomForBoth, OtherSide DEF IsFought, Over
<1>c. /\ \A n \in d.matches : Over(q, n) <=> Over(r, n) \/ n = m
      /\ \A n \in d.matches, s \in Sides :
           Over(r, n) \/ n = m => q[n].competitor[s] = r[n].competitor[s]
  BY RowsKept
(* The only defeat there is to add is that of the loser.                   *)
<1>1. \A n \in d.matches : n # m /\ Over(r, n) => Beaten(q, n) = Beaten(r, n)
  BY BeatenOnce
<1>2. Beaten(q, m) = {loser}
  BY BeatenOnce
<1>3. \A c : DefeatsIn(d, q, c) = DefeatsIn(d, r, c) \cup (IF c = loser THEN {m} ELSE {})
  BY <1>a, <1>b, <1>c, <1>1, <1>2 DEF DefeatsIn
<1> HIDE DEF winner, loser
<1> SUFFICES ASSUME NEW n \in Contested(d), NEW s \in Sides, ~Over(q, n), q[n].competitor[s] # None
             PROVE  IF n \in Consolation(d)
                    THEN \E o \in d.matches :
                           d.loserTo[o] # None /\ DefeatsIn(d, q, q[n].competitor[s]) = {o}
                    ELSE DefeatsIn(d, q, q[n].competitor[s]) = {}
  BY DEF DefeatsFit
<1>4. n \in d.matches /\ n # m /\ ~Over(r, n) /\ n # None
  BY <1>a, <1>c DEF Contested, WellDrawn
<1>5. r[n].competitor[s] # winner /\ r[n].competitor[s] # loser
  BY <1>a, <1>b, <1>4 DEF TurnsInv, OneSlotEach, winner, loser
<1>6. \/ n = d.winnerTo[m] /\ q[n].competitor[s] = winner
      \/ n = d.loserTo[m] /\ q[n].competitor[s] = loser
      \/ q[n].competitor[s] = r[n].competitor[s]
  BY <1>a, <1>4 DEF IsFought, winner, loser
<1>7. IF m \in Consolation(d)
      THEN \E o \in d.matches : d.loserTo[o] # None /\ DefeatsIn(d, r, winner) = {o}
      ELSE DefeatsIn(d, r, winner) = {} /\ DefeatsIn(d, r, loser) = {}
  BY <1>a, <1>b DEF TurnsInv, DefeatsFit, winner, loser
<1>8. CASE n = d.winnerTo[m] /\ q[n].competitor[s] = winner
  <2>1. n \in Consolation(d) <=> m \in Consolation(d)
    BY <1>a, <1>4, <1>8 DEF WellDrawn, OneConsolation
  <2>2. DefeatsIn(d, q, winner) = DefeatsIn(d, r, winner)
    BY <1>b, <1>3 DEF winner, loser
  <2> QED
    BY <1>7, <1>8, <2>1, <2>2
<1>9. CASE n = d.loserTo[m] /\ q[n].competitor[s] = loser
  <2>1. n \in Consolation(d) /\ m \notin Consolation(d)
    BY <1>a, <1>4, <1>9 DEF WellDrawn, OneConsolation
  <2>2. DefeatsIn(d, q, loser) = {m}
    BY <1>3, <1>7, <2>1
  <2> QED
    BY <1>a, <1>4, <1>9, <2>1, <2>2
<1>10. CASE q[n].competitor[s] = r[n].competitor[s]
  <2>1. DefeatsIn(d, q, q[n].competitor[s]) = DefeatsIn(d, r, r[n].competitor[s])
    BY <1>3, <1>5, <1>10
  <2> QED
    BY <1>a, <1>4, <1>10, <2>1 DEF TurnsInv, DefeatsFit
<1> QED
  BY <1>6, <1>8, <1>9, <1>10

LEMMA TurnsInvStays ==
  ASSUME NEW d, NEW r, NEW q, NEW m, NEW side, NEW k, AFight(d, r, q, m, side, k),
         DOMAIN r = d.matches, DOMAIN q = d.matches
  PROVE  TurnsInv(d, q)
<1> QED
  BY FoughtRowsStay, SlotsAwaitStay, OneSlotEachStays, DefeatsFitStay DEF TurnsInv

(* From the invariant to the property *)
LEMMA TurnsFit ==
  ASSUME NEW d, TurnsInv(d, row), DOMAIN row = d.matches, d = Drawn[category]
  PROVE  CalledInTurn
<1>1. \A m \in Ready : m \in Contested(d) /\ ~Over(row, m) /\ m \in d.matches
  BY DEF Ready, ReadyRow, TurnsInv, FoughtRows, Contested, Over
<1>2. NeverCalledTwice
  BY <1>1 DEF NeverCalledTwice, Seats, TurnsInv, OneSlotEach
<1>3. \A c : Defeats(c) = DefeatsIn(d, row, c)
  BY DEF Defeats, DefeatsIn, Completed, Over
<1>4. TwoDefeatsAreTheEnd
  <2> SUFFICES ASSUME NEW m \in Ready, NEW s \in Sides, row[m].competitor[s] # None,
                      Defeats(row[m].competitor[s]) # {}
               PROVE  \E n \in Defeats(row[m].competitor[s]) :
                        Defeats(row[m].competitor[s]) = {n} /\ Drawn[category].loserTo[n] # None
    BY DEF TwoDefeatsAreTheEnd, Seats
  <2> QED
    BY <1>1, <1>3 DEF TurnsInv, DefeatsFit
<1> QED
  BY <1>2, <1>4 DEF CalledInTurn

-----------------------------------------------------------------------------
(* The draws and the steps of the specification *)

LEMMA DrawsAreTyped ==
  ASSUME NEW c \in Categories
  PROVE  Bracket(c, Drawn[c])!DrawTypes
BY GeneratedDraws

LEMMA DrawIsWell ==
  ASSUME NEW c \in Categories, FullDraws
  PROVE  WellDrawn(Drawn[c])
<1> DEFINE d == Drawn[c]
<1>1. /\ Bracket(c, d)!DrawTypes /\ Bracket(c, d)!OneFeederPerSlot /\ Bracket(c, d)!ByesAdvanced
      /\ Bracket(c, d)!OneLoserPerSlot /\ EnteredOnce(d) /\ OneConsolation(d)
  BY GeneratedDraws DEF FullDraws, FullDraw
<1> HIDE DEF d
<1>2. /\ None \notin d.matches /\ d.byes \subseteq d.matches
      /\ \A m \in d.matches :
           /\ d.winnerTo[m] \in d.matches \cup {None} /\ d.winnerSide[m] \in Sides
           /\ d.loserTo[m] \in d.matches \cup {None} /\ d.loserSide[m] \in Sides \cup {ArrivalOrder}
  BY <1>1 DEF Bracket!DrawTypes, Bracket!MaybeMatch, Bracket!FirstFree, ArrivalOrder, Bracket!Sides, Sides
<1>3. \A m \in d.byes : \E side \in Sides : d.entrants[m][side] = None
  BY <1>1 DEF Bracket!ByesAdvanced, Bracket!Sides, Sides
<1>4. \A m \in d.matches : d.winnerTo[m] # m /\ d.loserTo[m] # m
  BY <1>1 DEF Bracket!OneFeederPerSlot
<1>5. \A m, n \in d.matches :
        /\ d.winnerTo[m] # None /\ d.winnerTo[m] = d.winnerTo[n] /\ d.winnerSide[m] = d.winnerSide[n]
             => m = n
        /\ d.winnerTo[m] # None /\ d.winnerTo[m] = d.loserTo[n] =>
             d.loserSide[n] \in Sides /\ d.loserSide[n] # d.winnerSide[m]
  BY <1>1 DEF Bracket!OneFeederPerSlot, Bracket!Sides, Sides
<1>6. \A m \in d.matches, side \in Sides :
        d.loserTo[m] # None /\ d.loserSide[m] \in {side, ArrivalOrder} =>
          d.entrants[d.loserTo[m]][side] = None
  BY <1>1 DEF Bracket!OneLoserPerSlot, Bracket!FirstFree, ArrivalOrder, Bracket!Sides, Sides
<1>7. \A m, n \in d.matches :
        m # n /\ d.loserTo[m] # None /\ d.loserTo[m] = d.loserTo[n] =>
          /\ d.loserSide[m] = ArrivalOrder <=> d.loserSide[n] = ArrivalOrder
          /\ d.loserSide[m] # ArrivalOrder => d.loserSide[m] # d.loserSide[n]
          /\ \A l \in d.matches : d.loserTo[l] = d.loserTo[m] => l \in {m, n}
  BY <1>1 DEF Bracket!OneLoserPerSlot, Bracket!FirstFree, ArrivalOrder, Bracket!Sides, Sides
<1> QED
  BY <1>1, <1>2, <1>3, <1>4, <1>5, <1>6, <1>7 DEF WellDrawn, d

LEMMA InitTurns == FullDraws /\ Init => TurnsIInv
<1> SUFFICES ASSUME FullDraws, NEW c \in Categories, category = c, Bracket(c, Drawn[c])!Init
             PROVE  TurnsIInv
  BY DEF Init
<1> DEFINE d == Drawn[c]
<1>1. WellDrawn(d) /\ Bracket(c, d)!DrawTypes
  BY DrawIsWell, DrawsAreTyped
<1>2. row = [m \in d.matches |-> Bracket(c, d)!DrawnRow(m)]
  BY DEF Bracket!Init
<1> HIDE DEF d
<1>3. row \in [d.matches -> Bracket(c, d)!Row]
  <2>1. ASSUME NEW m \in d.matches PROVE Bracket(c, d)!DrawnRow(m) \in Bracket(c, d)!Row
    <3>1. d.entrants[m] \in [Bracket(c, d)!Sides -> Bracket(c, d)!MaybeCompetitor]
      BY <1>1 DEF Bracket!DrawTypes
    <3>2. Bracket(c, d)!ByeWinner(m) \in Bracket(c, d)!MaybeCompetitor
      BY <3>1 DEF Bracket!ByeWinner, Bracket!Sides
    <3>3. None \in Bracket(c, d)!MaybeCompetitor
      BY DEF Bracket!MaybeCompetitor
    <3> QED
      BY <3>1, <3>2, <3>3
      DEF Bracket!DrawnRow, Bracket!Row, Bracket!Statuses, Bracket!Score, Bracket!EmptyScores,
          Bracket!EmptyScore, Bracket!WinMethods, Bracket!Sides
  <2> QED
    BY <1>2, <2>1
<1>4. \A m \in d.matches :
        /\ row[m].status = IF m \in d.byes THEN "COMPLETED" ELSE "SCHEDULED"
        /\ \A side \in Sides : row[m].competitor[side] = d.entrants[m][side]
  BY <1>2 DEF Bracket!DrawnRow
<1>5. FoughtRows(d, row)
  BY <1>1, <1>4 DEF FoughtRows, Over, Fed, WellDrawn
<1>6. SlotsAwait(d, row)
  <2>1. ASSUME NEW m \in Contested(d), m \in d.matches, d.winnerTo[m] # None
        PROVE  row[d.winnerTo[m]].competitor[d.winnerSide[m]] = None
    BY <1>1, <1>4, <2>1 DEF WellDrawn, EnteredOnce
  <2>2. ASSUME NEW m \in d.matches, d.loserTo[m] # None,
               NEW side \in Sides, d.loserSide[m] \in {side, ArrivalOrder}
        PROVE  row[d.loserTo[m]].competitor[side] = None
    BY <1>1, <1>4, <2>2 DEF WellDrawn
  <2>3. \A m \in d.matches : d.loserSide[m] \in Sides \cup {ArrivalOrder}
    BY <1>1 DEF WellDrawn
  <2> QED
    BY <2>1, <2>2, <2>3 DEF SlotsAwait, Sides
<1>7. OneSlotEach(d, row)
  <2>1. \A m \in Contested(d) : m \in d.matches
    BY DEF Contested
  <2> QED
    BY <1>1, <1>4, <2>1 DEF OneSlotEach, WellDrawn, EnteredOnce
<1>8. DefeatsFit(d, row)
  <2>1. \A m \in d.matches : Over(row, m) => Beaten(row, m) = {}
    BY <1>1, <1>4 DEF Over, Beaten, WellDrawn
  <2>2. \A x : DefeatsIn(d, row, x) = {}
    BY <2>1 DEF DefeatsIn
  <2>3. \A m \in Consolation(d), s \in Sides : row[m].competitor[s] = None
    BY <1>1, <1>4 DEF WellDrawn, OneConsolation, Consolation
  <2> QED
    BY <2>2, <2>3 DEF DefeatsFit
<1> QED
  BY <1>3, <1>5, <1>6, <1>7, <1>8 DEF TurnsIInv, Typing, TheDraw, TurnsInv, d

(* A row that is completed, filled or both.                                *)
LEMMA CompletedRowIs ==
  ASSUME NEW c, NEW d, row \in [d.matches -> Bracket(c, d)!Row],
         NEW m \in d.matches, NEW n \in d.matches,
         NEW winner \in Bracket(c, d)!MaybeCompetitor, NEW loser \in Bracket(c, d)!MaybeCompetitor,
         Loser(row[m], winner) = loser, loser # None,
         d.winnerSide[m] \in Sides, NEW k \in Sides
  PROVE  LET new == Bracket(c, d)!CompletedRow(m, winner, "IPPON", EmptyScores, k, n)
         IN  /\ new \in Bracket(c, d)!Row
             /\ new.status = IF n = m THEN "COMPLETED" ELSE row[n].status
             /\ new.winner = IF n = m THEN winner ELSE row[n].winner
             /\ new.winMethod = IF n = m THEN "IPPON" ELSE row[n].winMethod
             /\ \A s \in Sides :
                  new.competitor[s] =
                    IF n = d.loserTo[m] /\ s = k THEN loser
                    ELSE IF n = d.winnerTo[m] /\ s = d.winnerSide[m] THEN winner
                    ELSE row[n].competitor[s]
<1> DEFINE kept == IF n = m
                   THEN [row[n] EXCEPT !.status = "COMPLETED", !.winner = winner,
                                       !.winMethod = "IPPON", !.scores = EmptyScores]
                   ELSE row[n]
           placed == IF n = d.winnerTo[m]
                     THEN [kept EXCEPT !.competitor[d.winnerSide[m]] = winner]
                     ELSE kept
           new == IF n = d.loserTo[m]
                  THEN [placed EXCEPT !.competitor[k] = loser]
                  ELSE placed
<1>1. Bracket(c, d)!CompletedRow(m, winner, "IPPON", EmptyScores, k, n) = new
  <2>1. Bracket(c, d)!Loser(row[m], winner) = loser
    BY DEF Loser, Bracket!Loser
  <2> QED
    BY <2>1 DEF Bracket!CompletedRow
<1>2. /\ kept \in Bracket(c, d)!Row
      /\ kept.status = IF n = m THEN "COMPLETED" ELSE row[n].status
      /\ kept.winner = IF n = m THEN winner ELSE row[n].winner
      /\ kept.winMethod = IF n = m THEN "IPPON" ELSE row[n].winMethod
      /\ kept.competitor = row[n].competitor
  <2>1. EmptyScores \in [Bracket(c, d)!Sides -> Bracket(c, d)!Score]
    BY DEF EmptyScores, EmptyScore, Sides, Bracket!Sides, Bracket!Score
  <2> QED
    BY <2>1 DEF Bracket!Row, Bracket!Statuses, Bracket!WinMethods
<1> HIDE DEF kept
<1>3. /\ placed \in Bracket(c, d)!Row
      /\ placed.status = kept.status /\ placed.winner = kept.winner
      /\ placed.winMethod = kept.winMethod
      /\ \A s \in Sides :
           placed.competitor[s] =
             IF n = d.winnerTo[m] /\ s = d.winnerSide[m] THEN winner ELSE kept.competitor[s]
  BY <1>2 DEF Bracket!Row, Bracket!Sides, Sides
<1> HIDE DEF placed
<1>4. /\ new \in Bracket(c, d)!Row
      /\ new.status = placed.status /\ new.winner = placed.winner
      /\ new.winMethod = placed.winMethod
      /\ \A s \in Sides :
           new.competitor[s] =
             IF n = d.loserTo[m] /\ s = k THEN loser ELSE placed.competitor[s]
  BY <1>3 DEF Bracket!Row, Bracket!Sides, Sides
<1> HIDE DEF new
<1> QED
  BY <1>1, <1>2, <1>3, <1>4

LEMMA FightIsAFight ==
  ASSUME TurnsIInv, FullDraws, NEW c \in Categories,
         NEW m \in Ready, NEW side \in Sides, Fight(c, Drawn[c], m, side)
  PROVE  /\ Typing' /\ TheDraw = Drawn[c] /\ UNCHANGED TheDraw
         /\ \E k : AFight(TheDraw, row, row', m, side, k)
         /\ \A n \in TheDraw.matches :
              row'[n].winMethod = IF n = m THEN "IPPON" ELSE row[n].winMethod
<1> DEFINE d == Drawn[c]
<1>1. WellDrawn(d) /\ Bracket(c, d)!DrawTypes /\ category = c /\ UNCHANGED <<category, TheDraw>>
  BY DrawIsWell, DrawsAreTyped DEF TheDraw, Fight
<1>2. DOMAIN row = d.matches /\ m \in d.matches /\ row \in [d.matches -> Bracket(c, d)!Row]
  BY <1>1 DEF TurnsIInv, Typing, Ready
<1> DEFINE winner == row[m].competitor[side]
           loser == row[m].competitor[3 - side]
           target == d.loserTo[m]
           k == IF d.loserSide[m] # ArrivalOrder THEN d.loserSide[m]
                ELSE IF target # None /\ row[target].competitor[1] = None THEN 1 ELSE 2
           given == IF target # None /\ d.loserSide[m] = ArrivalOrder
                    THEN FreeSide(row[target]) ELSE d.loserSide[m]
<1>3. /\ row[m].status = "SCHEDULED"
      /\ \A s \in Sides : row[m].competitor[s] # None
  BY DEF Fight, ReadyRow
<1>4. m \in Contested(d) /\ winner # loser /\ 3 - side \in Sides /\ ~Over(row, m)
  <2>1. m \in Contested(d) /\ ~Over(row, m)
    BY <1>1, <1>2, <1>3 DEF TurnsIInv, TurnsInv, FoughtRows, Contested, Over, TheDraw
  <2> QED
    BY <1>1, <1>3, <2>1, OtherSide DEF TurnsIInv, TurnsInv, OneSlotEach, TheDraw
<1>5. Loser(row[m], winner) = loser
  BY <1>4 DEF Loser, Sides
<1>6. k \in Sides /\ d.winnerSide[m] \in Sides
  BY <1>1, <1>2 DEF WellDrawn, Sides
<1>7. winner \in Bracket(c, d)!MaybeCompetitor /\ loser \in Bracket(c, d)!MaybeCompetitor
  <2>1. row[m].competitor \in [Bracket(c, d)!Sides -> Bracket(c, d)!MaybeCompetitor]
    BY <1>2 DEF Bracket!Row
  <2> QED
    BY <1>4, <2>1 DEF Bracket!Sides, Sides
<1>8. row' = [n \in d.matches |->
                IF n \in {m, d.winnerTo[m], target}
                THEN Bracket(c, d)!CompletedRow(m, winner, "IPPON", EmptyScores, given, n)
                ELSE row[n]]
  BY <1>2 DEF Fight
<1>9. target # None => given = k
  BY DEF FreeSide
(* Without a target the side given does not matter.                        *)
<1>10. \A n \in d.matches :
         row'[n] = IF n \in {m, d.winnerTo[m], target}
                   THEN Bracket(c, d)!CompletedRow(m, winner, "IPPON", EmptyScores, k, n)
                   ELSE row[n]
  <2>1. CASE target # None
    BY <1>8, <1>9, <2>1
  <2>2. CASE target = None
    <3>1. \A n \in d.matches : n # d.loserTo[m]
      BY <1>1, <2>2 DEF WellDrawn
    <3>2. \A n \in d.matches :
            Bracket(c, d)!CompletedRow(m, winner, "IPPON", EmptyScores, given, n)
              = Bracket(c, d)!CompletedRow(m, winner, "IPPON", EmptyScores, k, n)
      BY <3>1 DEF Bracket!CompletedRow
    <3> QED
      BY <1>8, <3>2
  <2> QED
    BY <2>1, <2>2
<1> HIDE DEF d, given, k, winner, loser
<1>11. ASSUME NEW n \in d.matches
       PROVE  /\ row'[n] \in Bracket(c, d)!Row
              /\ row'[n].status = IF n = m THEN "COMPLETED" ELSE row[n].status
              /\ row'[n].winner = IF n = m THEN winner ELSE row[n].winner
              /\ row'[n].winMethod = IF n = m THEN "IPPON" ELSE row[n].winMethod
              /\ \A s \in Sides :
                   row'[n].competitor[s] =
                     IF n = d.loserTo[m] /\ s = k THEN loser
                     ELSE IF n = d.winnerTo[m] /\ s = d.winnerSide[m] THEN winner
                     ELSE row[n].competitor[s]
  <2>1. CASE n \in {m, d.winnerTo[m], target}
    <3>1. loser # None
      BY <1>3, <1>4 DEF loser
    <3>2. Loser(row[m], winner) = loser
      BY <1>5
    <3>3. LET new == Bracket(c, d)!CompletedRow(m, winner, "IPPON", EmptyScores, k, n)
          IN  /\ new \in Bracket(c, d)!Row
              /\ new.status = IF n = m THEN "COMPLETED" ELSE row[n].status
              /\ new.winner = IF n = m THEN winner ELSE row[n].winner
              /\ new.winMethod = IF n = m THEN "IPPON" ELSE row[n].winMethod
              /\ \A s \in Sides :
                   new.competitor[s] =
                     IF n = d.loserTo[m] /\ s = k THEN loser
                     ELSE IF n = d.winnerTo[m] /\ s = d.winnerSide[m] THEN winner
                     ELSE row[n].competitor[s]
      BY <1>2, <1>6, <1>7, <3>1, <3>2, CompletedRowIs
    <3> QED
      BY <1>10, <2>1, <3>3
  <2>2. CASE n \notin {m, d.winnerTo[m], target}
    BY <1>2, <1>10, <2>2
  <2> QED
    BY <2>1, <2>2
(* The two slots are never the same.                                       *)
<1>12. d.winnerTo[m] # None /\ d.winnerTo[m] = d.loserTo[m] => d.winnerSide[m] # k
  BY <1>1, <1>2 DEF WellDrawn, k, Sides, ArrivalOrder
<1>13. IsFought(d, row, row', m, side, k)
  <2>1. \A n \in d.matches : n # None
    BY <1>1 DEF WellDrawn
  <2> QED
    BY <1>3, <1>11, <1>12, <2>1 DEF IsFought, k, winner, loser
<1>14. row' \in [d.matches -> Bracket(c, d)!Row]
  BY <1>8, <1>11
<1>15. AFight(d, row, row', m, side, k)
  BY <1>1, <1>2, <1>13 DEF AFight, TurnsIInv, TheDraw, d
<1> QED
  BY <1>1, <1>11, <1>14, <1>15 DEF Typing, TheDraw, d

LEMMA TurnsNext == FullDraws /\ TurnsIInv /\ [Next]_vars => TurnsIInv'
<1> SUFFICES ASSUME FullDraws, TurnsIInv, [Next]_vars PROVE TurnsIInv'
  OBVIOUS
<1>1. CASE UNCHANGED vars
  BY <1>1 DEF vars, TurnsIInv, Typing, TheDraw
<1>2. ASSUME NEW c \in Categories, NEW m \in Called, NEW side \in Sides, Fight(c, Drawn[c], m, side)
      PROVE  TurnsIInv'
  <2>1. m \in Ready
    BY DEF Called
  <2>2. Typing' /\ UNCHANGED TheDraw
    BY <1>2, <2>1, FightIsAFight
  <2>3. PICK k : AFight(TheDraw, row, row', m, side, k)
    BY <1>2, <2>1, FightIsAFight
  <2>4. DOMAIN row = TheDraw.matches /\ DOMAIN row' = TheDraw.matches
    BY <2>2 DEF TurnsIInv, Typing, TheDraw
  <2>5. TurnsInv(TheDraw, row')
    BY <2>3, <2>4, TurnsInvStays
  <2> QED
    BY <2>2, <2>5 DEF TurnsIInv
<1> QED
  BY <1>1, <1>2 DEF Next

(* In every category whose draw nobody has left, whatever its size and in  *)
(* whatever order its matches are called and whoever wins them, nobody is  *)
(* called to two matches, and nobody after the defeat that puts them out.  *)
THEOREM EverybodyInTurn ==
  ASSUME FullDraws
  PROVE  Spec => []CalledInTurn
<1>1. Init => TurnsIInv
  BY InitTurns
<1>2. TurnsIInv /\ [Next]_vars => TurnsIInv'
  BY TurnsNext
<1>3. TurnsIInv => CalledInTurn
  BY TurnsFit DEF TurnsIInv, Typing, TheDraw
<1> QED
  BY <1>1, <1>2, <1>3, PTL DEF Spec

-----------------------------------------------------------------------------
(* The draws of an elimination *)

(* What is drawn for a category, of a tournament or not; NULL is no match. *)
DrawOf(c) == Generated(c.bracketType, Draw(c.bracketType, c.drawn), c.registered)

IsCategory(c) ==
  /\ c.bracketType \in {"SINGLE_REPECHAGE", "DOUBLE_REPECHAGE", "GRAND_SLAM"}
  /\ c.drawn \in Nat /\ c.registered \in 0..c.drawn
  /\ None \notin DrawOf(c).matches

LEMMA CategoryTypes ==
  \A c : IsCategory(c) =>
    /\ c.bracketType \in {"SINGLE_REPECHAGE", "DOUBLE_REPECHAGE", "GRAND_SLAM"}
    /\ c.drawn \in Nat /\ c.registered \in 0..c.drawn
    /\ None \notin DrawOf(c).matches
BY DEF IsCategory

LEMMA CategoriesAre ==
  ASSUME NEW c \in Categories
  PROVE  IsCategory(c) /\ Drawn[c] = DrawOf(c)
BY TournamentTypes, DrawsAreTyped DEF Drawn, DrawOf, IsCategory, Bracket!DrawTypes

LEMMA MainRounds ==
  ASSUME NEW n \in Nat, NEW m
  PROVE  /\ m \in DOMAIN Elimination(n, "MAIN", NoGroup) =>
              m.phase = "MAIN" /\ m.round \in 1..TotalRoundsFor(n) /\ m.position \in Int
         /\ DOMAIN DoubleRepechage(n) = DOMAIN Elimination(n, "MAIN", NoGroup) \cup RepechageMatches
<1>1. TotalRoundsFor(n) \in Nat
  BY RoundsOfBracket
<1> QED
  BY <1>1 DEF Elimination, MatchId, DoubleRepechage, WithPlaceholders

LEMMA EliminationDraw ==
  ASSUME NEW c, IsCategory(c), c.bracketType # "GRAND_SLAM"
  PROVE  /\ DrawOf(c) = Generated(c.bracketType, Draw(c.bracketType, c.drawn), c.registered)
         /\ DrawOf(c).matches = DOMAIN Draw(c.bracketType, c.drawn)
         /\ \/ /\ c.bracketType = "SINGLE_REPECHAGE"
               /\ Draw(c.bracketType, c.drawn) = Elimination(c.drawn, "MAIN", NoGroup)
            \/ /\ c.bracketType = "DOUBLE_REPECHAGE"
               /\ Draw(c.bracketType, c.drawn) = DoubleRepechage(c.drawn)
BY CategoryTypes DEF DrawOf, Generated, Draw

(* Where the matches of an elimination lead.                               *)
LEMMA RoutesAreTyped ==
  ASSUME NEW c, IsCategory(c), c.bracketType # "GRAND_SLAM", NEW m \in DrawOf(c).matches
  PROVE  LET d == DrawOf(c)
         IN  /\ d.winnerTo[m] \in d.matches \cup {None} /\ d.winnerSide[m] \in Sides
             /\ d.loserTo[m] \in d.matches \cup {None} /\ d.loserSide[m] \in Sides \cup {ArrivalOrder}
<1> DEFINE draw == Draw(c.bracketType, c.drawn)
           d == DrawOf(c)
           winner == WinnerRoutes(c.bracketType, draw, m)
           loser == LoserRoutes(c.bracketType, draw, m, c.registered)
<1>1. /\ d = Generated(c.bracketType, draw, c.registered) /\ d.matches = DOMAIN draw
      /\ c.bracketType \in {"SINGLE_REPECHAGE", "DOUBLE_REPECHAGE"}
  BY EliminationDraw
<1>2. /\ d.winnerTo[m] = Target(winner).match /\ d.winnerSide[m] = Target(winner).side
      /\ d.loserTo[m] = Target(loser).match /\ d.loserSide[m] = Target(loser).side
  BY <1>1 DEF Generated
<1> HIDE DEF draw, d
<1>3. ASSUME NEW routes, NEW match, NEW side, routes \in {NoRoutes, Found(draw, Route(match, side))}
      PROVE  /\ Target(routes).match \in DOMAIN draw \cup {None}
             /\ Target(routes).side \in {1, side}
  <2>1. Target(NoRoutes) = Route(None, 1)
    BY DEF Target
  <2>2. Target({Route(match, side)}) = Route(match, side)
    BY DEF Target, NoRoutes
  <2>3. routes = NoRoutes \/ (routes = {Route(match, side)} /\ match \in DOMAIN draw)
    BY <1>3 DEF Found, NoRoutes, Route
  <2> QED
    BY <2>1, <2>2, <2>3 DEF Route
<1>4. \E match : \E side \in Sides : winner \in {NoRoutes, Found(draw, Route(match, side))}
  <2>1. \/ winner = NoRoutes
        \/ winner = Found(draw, Route(Bronze(m.group), 1))
        \/ winner = Found(draw, NextSlot(m))
    BY <1>1 DEF WinnerRoutes, WinnerInDoubleRepechage
  <2>2. \E match : \E side \in Sides : NextSlot(m) = Route(match, side)
    BY DEF NextSlot, Sides
  <2> QED
    BY <2>1, <2>2 DEF Sides
<1>5. \E match : \E side \in Sides \cup {ArrivalOrder} : loser \in {NoRoutes, Found(draw, Route(match, side))}
  BY <1>1 DEF LoserRoutes, LoserInDoubleRepechage, Sides
<1> HIDE DEF winner, loser
<1> QED
  BY <1>1, <1>2, <1>3, <1>4, <1>5 DEF Sides, d

(* The two matches that lead to the same next one take different sides.    *)
LEMMA TwoSidesOfNext ==
  ASSUME NEW p \in Int, NEW q \in Int, (p + 1) \div 2 = (q + 1) \div 2,
         (IF p % 2 = 1 THEN 1 ELSE 2) = (IF q % 2 = 1 THEN 1 ELSE 2)
  PROVE  p = q
OBVIOUS

MainOf(c) == DOMAIN Elimination(c.drawn, "MAIN", NoGroup)

LEMMA NextSlotOf ==
  ASSUME NEW phase, NEW group, NEW m, m = MatchId(phase, group, m.round, m.position)
  PROVE  /\ NextSlot(m).match = MatchId(phase, group, m.round + 1, (m.position + 1) \div 2)
         /\ NextSlot(m).side = IF m.position % 2 = 1 THEN 1 ELSE 2
<1>1. ASSUME NEW a, NEW p, m = MatchId(phase, group, a, p)
      PROVE  /\ NextSlot(m).match = MatchId(phase, group, a + 1, (p + 1) \div 2)
             /\ NextSlot(m).side = IF p % 2 = 1 THEN 1 ELSE 2
  BY <1>1 DEF NextSlot, Route, MatchId
<1> QED
  BY <1>1

LEMMA NextInMain ==
  ASSUME NEW n \in Nat, n > 1, NEW m \in DOMAIN Elimination(n, "MAIN", NoGroup)
  PROVE  LET total == TotalRoundsFor(n)
         IN  /\ m.phase = "MAIN" /\ m.round \in 1..total /\ m.position \in 1..2^(total - m.round)
             /\ m = MatchId("MAIN", NoGroup, m.round, m.position)
             /\ NextSlot(m).match = MatchId("MAIN", NoGroup, m.round + 1, (m.position + 1) \div 2)
             /\ NextSlot(m).side = IF m.position % 2 = 1 THEN 1 ELSE 2
             /\ m.round < total => NextSlot(m).match \in DOMAIN Elimination(n, "MAIN", NoGroup)
             /\ m.round = total => NextSlot(m).match \notin DOMAIN Elimination(n, "MAIN", NoGroup)
<1>1. m = MatchId("MAIN", NoGroup, m.round, m.position)
  BY NextInBracket
<1>2. /\ NextSlot(m).match = MatchId("MAIN", NoGroup, m.round + 1, (m.position + 1) \div 2)
      /\ NextSlot(m).side = IF m.position % 2 = 1 THEN 1 ELSE 2
  BY <1>1, NextSlotOf
<1> QED
  BY <1>1, <1>2, NextInBracket

LEMMA EliminationMain ==
  ASSUME NEW c, IsCategory(c), c.bracketType # "GRAND_SLAM", c.drawn > 1
  PROVE  /\ MainOf(c) \subseteq DrawOf(c).matches
         /\ c.bracketType = "SINGLE_REPECHAGE" => DrawOf(c).matches = MainOf(c)
         /\ c.bracketType = "DOUBLE_REPECHAGE" => DrawOf(c).matches = MainOf(c) \cup RepechageMatches
         /\ \A m \in MainOf(c) :
              /\ IF m.round < TotalRoundsFor(c.drawn)
                 THEN DrawOf(c).winnerTo[m] = NextSlot(m).match /\ DrawOf(c).winnerSide[m] = NextSlot(m).side
                 ELSE DrawOf(c).winnerTo[m] = None
              /\ m \in DrawOf(c).byes <=> m.round = 1 /\ FirstRound(c.drawn, m.position)[2] = Nobody
              /\ \A s \in Sides :
                   LET slot == Elimination(c.drawn, "MAIN", NoGroup)[m][s]
                   IN  DrawOf(c).entrants[m][s] = IF slot = Nobody THEN None ELSE slot
         /\ \A m \in DrawOf(c).matches \ MainOf(c) :
              m \notin DrawOf(c).byes /\ \A s \in Sides : DrawOf(c).entrants[m][s] = None
<1> DEFINE draw == Draw(c.bracketType, c.drawn)
           n == c.drawn
           total == TotalRoundsFor(n)
           main == MainOf(c)
           d == DrawOf(c)
<1>1. n \in Nat /\ n > 1 /\ total \in Nat /\ total >= 1
  BY CategoryTypes, RoundsOfBracket
<1>2. /\ d = Generated(c.bracketType, draw, c.registered)
      /\ d.matches = DOMAIN draw
      /\ \/ /\ c.bracketType = "SINGLE_REPECHAGE"
            /\ draw = Elimination(n, "MAIN", NoGroup)
         \/ /\ c.bracketType = "DOUBLE_REPECHAGE"
            /\ draw = DoubleRepechage(n)
  BY EliminationDraw
<1>3. /\ \A m \in DOMAIN draw : /\ d.winnerTo[m] = Target(WinnerRoutes(c.bracketType, draw, m)).match
                                /\ d.winnerSide[m] = Target(WinnerRoutes(c.bracketType, draw, m)).side
                                /\ m \in d.byes <=> WalkedOver(draw, m)
                                /\ \A s \in Sides :
                                     d.entrants[m][s] = IF draw[m][s] = Nobody THEN None ELSE draw[m][s]
      /\ d.byes \subseteq DOMAIN draw
  BY <1>2 DEF Generated
<1>4. /\ main = DOMAIN Elimination(n, "MAIN", NoGroup)
      /\ \A m \in main : m.phase = "MAIN"
      /\ \A m \in RepechageMatches : m.phase \in {"REPECHAGE", "KNOCKOUT_BRONZE"}
      /\ main \cap RepechageMatches = {}
  <2>1. \A m \in RepechageMatches : m.phase \in {"REPECHAGE", "KNOCKOUT_BRONZE"}
    BY DEF RepechageMatches, Repechage, Bronze, Placeholder, MatchId
  <2>2. \A m \in main : m.phase = "MAIN"
    BY <1>1, MainRounds DEF MainOf
  <2> QED
    BY <2>1, <2>2 DEF MainOf
<1>5. /\ c.bracketType = "SINGLE_REPECHAGE" => DOMAIN draw = main
      /\ c.bracketType = "DOUBLE_REPECHAGE" => DOMAIN draw = main \cup RepechageMatches
  BY <1>1, <1>2, MainRounds DEF MainOf
<1>6. /\ \A m \in main : draw[m] = Elimination(n, "MAIN", NoGroup)[m]
      /\ \A m \in DOMAIN draw \ main : draw[m] = Open
  BY <1>2, <1>4, <1>5 DEF DoubleRepechage, WithPlaceholders
<1> HIDE DEF draw, n, total, main, d
<1>7. ASSUME NEW m \in main
      PROVE  IF m.round < total
             THEN d.winnerTo[m] = NextSlot(m).match /\ d.winnerSide[m] = NextSlot(m).side
             ELSE d.winnerTo[m] = None
  <2>1. WinnerRoutes(c.bracketType, draw, m) = Found(draw, NextSlot(m))
    BY <1>2, <1>4 DEF WinnerRoutes, WinnerInDoubleRepechage
  <2>2. m \in DOMAIN draw
    BY <1>2, <1>5
  <2>3. CASE m.round < total
    <3>1. NextSlot(m).match \in DOMAIN draw
      BY <1>1, <1>2, <1>4, <1>5, <2>3, NextInMain DEF total
    <3>2. Target(Found(draw, NextSlot(m))) = NextSlot(m)
      BY <3>1 DEF Found, Target, NoRoutes
    <3> QED
      BY <1>3, <2>1, <2>2, <2>3, <3>2
  <2>4. CASE ~(m.round < total)
    <3>1. NextSlot(m).match \notin main /\ NextSlot(m).match.phase = "MAIN"
      <4>1. m.round \in 1..total
        BY <1>1, <1>4, NextInMain DEF total
      <4>2. m.round = total
        BY <1>1, <2>4, <4>1
      <4>3. NextSlot(m).match \notin main
        BY <1>1, <1>4, <4>2, NextInMain DEF total
      <4>4. NextSlot(m).match = MatchId("MAIN", NoGroup, m.round + 1, (m.position + 1) \div 2)
        BY <1>1, <1>4, NextInMain
      <4> QED
        BY <4>3, <4>4 DEF MatchId
    <3>2. NextSlot(m).match \notin DOMAIN draw
      BY <1>2, <1>4, <1>5, <3>1
    <3>3. Target(Found(draw, NextSlot(m))).match = None
      BY <3>2 DEF Found, Target, NoRoutes, Route
    <3> QED
      BY <1>3, <2>1, <2>2, <2>4, <3>3
  <2> QED
    BY <2>3, <2>4
<1>8. ASSUME NEW m \in main
      PROVE  m \in d.byes <=> m.round = 1 /\ FirstRound(n, m.position)[2] = Nobody
  <2>1. m \in d.byes <=> m.round = 1 /\ IsBye(draw[m])
    BY <1>2, <1>3, <1>4, <1>5 DEF WalkedOver
  <2>2. m.round = 1 => m.position \in 1..2^(total - 1) /\ draw[m] = FirstRound(n, m.position)
    BY <1>1, <1>4, <1>6, EliminationSlots DEF total
  <2>3. m.round = 1 => FirstRound(n, m.position)[1] # Nobody
    BY <1>1, <2>2, FirstRoundSlots DEF total, Nobody
  <2> QED
    BY <2>1, <2>2, <2>3 DEF IsBye
<1>9. ASSUME NEW m \in DOMAIN draw \ main
      PROVE  m \notin d.byes /\ \A s \in Sides : d.entrants[m][s] = None
  <2>1. m.phase # "MAIN"
    BY <1>2, <1>4, <1>5, <1>9
  <2>2. \A s \in Sides : draw[m][s] = Nobody
    BY <1>6, <1>9 DEF Open, Sides
  <2> QED
    BY <1>3, <2>1, <2>2 DEF WalkedOver
<1>10. \A m \in main, s \in Sides :
         LET slot == Elimination(n, "MAIN", NoGroup)[m][s]
         IN  d.entrants[m][s] = IF slot = Nobody THEN None ELSE slot
  BY <1>2, <1>3, <1>5, <1>6
<1> QED
  BY <1>2, <1>5, <1>7, <1>8, <1>9, <1>10 DEF n, total, main, d

(* The final and the bronzes of an elimination lead nowhere.               *)
LEMMA EliminationEnds ==
  ASSUME NEW c, IsCategory(c), c.bracketType # "GRAND_SLAM", c.registered = c.drawn
  PROVE  LET last == FinalFor(c.drawn)
         IN  /\ last \in DrawOf(c).matches =>
                  DrawOf(c).winnerTo[last] = None /\ DrawOf(c).loserTo[last] = None
             /\ \A half \in Halves :
                  Bronze(half) \in DrawOf(c).matches => DrawOf(c).winnerTo[Bronze(half)] = None
             /\ c.bracketType = "SINGLE_REPECHAGE" =>
                  \A m \in DrawOf(c).matches : m.phase = "MAIN" /\ DrawOf(c).loserTo[m] = None
             /\ c.bracketType = "DOUBLE_REPECHAGE" =>
                  {m \in DrawOf(c).matches : m.phase = "KNOCKOUT_BRONZE"} = {Bronze(half) : half \in Halves}
<1> DEFINE draw == Draw(c.bracketType, c.drawn)
           total == TotalRoundsFor(c.drawn)
           last == FinalFor(c.drawn)
           wide == [phase |-> "MAIN", group |-> NoGroup, round |-> total + 1, position |-> 1]
<1>1. /\ DrawOf(c) = Generated(c.bracketType, draw, c.drawn)
      /\ DrawOf(c).matches = DOMAIN draw
      /\ \/ /\ c.bracketType = "SINGLE_REPECHAGE"
            /\ draw = Elimination(c.drawn, "MAIN", NoGroup)
         \/ /\ c.bracketType = "DOUBLE_REPECHAGE"
            /\ draw = DoubleRepechage(c.drawn)
  BY EliminationDraw
<1>2. total \in Nat /\ c.drawn \in Nat
  BY CategoryTypes, RoundsOfBracket
<1>3. \A m \in RepechageMatches : m.phase \in {"REPECHAGE", "KNOCKOUT_BRONZE"}
  BY DEF RepechageMatches, Repechage, Bronze, Placeholder, MatchId
<1>4. \A m \in DOMAIN draw : m.phase = "MAIN" => m.round \in 1..total
  BY <1>1, <1>2, <1>3, MainRounds
<1>5. /\ last.phase = "MAIN" /\ last.round = total
      /\ NextSlot(last).match.phase = "MAIN" /\ NextSlot(last).match.round = total + 1
  BY <1>2 DEF FinalFor, MatchId, NextSlot, Route
<1> HIDE DEF draw, total, last
<1>6. NextSlot(last).match \notin DOMAIN draw
  BY <1>2, <1>4, <1>5
<1>7. WinnerRoutes(c.bracketType, draw, last) = NoRoutes
  BY <1>1, <1>5, <1>6 DEF WinnerRoutes, WinnerInDoubleRepechage, Found
<1>8. LoserRoutes(c.bracketType, draw, last, c.drawn) = NoRoutes
  BY <1>1, <1>2, <1>5 DEF LoserRoutes, LoserInDoubleRepechage, total
<1>9. \A m : c.bracketType = "SINGLE_REPECHAGE" => LoserRoutes(c.bracketType, draw, m, c.drawn) = NoRoutes
  BY DEF LoserRoutes
<1>10. ASSUME NEW half \in Halves, Bronze(half) \in DOMAIN draw
       PROVE  WinnerRoutes(c.bracketType, draw, Bronze(half)) = NoRoutes
  <2>1. Bronze(half).phase = "KNOCKOUT_BRONZE"
    BY DEF Bronze, Placeholder, MatchId
  <2>2. c.bracketType = "DOUBLE_REPECHAGE"
    BY <1>1, <1>2, <1>10, <2>1, MainRounds
  <2> QED
    BY <2>1, <2>2 DEF WinnerRoutes, WinnerInDoubleRepechage
<1>11. Target(NoRoutes).match = None
  BY DEF Target, Route
<1>12. \A m \in DOMAIN draw :
         /\ DrawOf(c).winnerTo[m] = Target(WinnerRoutes(c.bracketType, draw, m)).match
         /\ DrawOf(c).loserTo[m] = Target(LoserRoutes(c.bracketType, draw, m, c.drawn)).match
  BY <1>1 DEF Generated
<1>13. c.bracketType = "SINGLE_REPECHAGE" => \A m \in DOMAIN draw : m.phase = "MAIN"
  BY <1>1, <1>2, MainRounds
<1>14. ASSUME c.bracketType = "DOUBLE_REPECHAGE"
       PROVE  {m \in DOMAIN draw : m.phase = "KNOCKOUT_BRONZE"} = {Bronze(half) : half \in Halves}
  <2>1. DOMAIN draw = DOMAIN Elimination(c.drawn, "MAIN", NoGroup) \cup RepechageMatches
    BY <1>1, <1>2, <1>14, MainRounds
  <2>2. \A m \in DOMAIN Elimination(c.drawn, "MAIN", NoGroup) : m.phase = "MAIN"
    BY <1>2, MainRounds
  <2>3. \A half \in Halves : Bronze(half).phase = "KNOCKOUT_BRONZE" /\ Repechage(half).phase = "REPECHAGE"
    BY DEF Bronze, Repechage, Placeholder, MatchId
  <2> QED
    BY <2>1, <2>2, <2>3 DEF RepechageMatches
<1> QED
  BY <1>1, <1>7, <1>8, <1>9, <1>10, <1>11, <1>12, <1>13, <1>14 DEF last

(* Where the losers of a double repechage go from which nobody has left.   *)
LEMMA LosersOfDouble ==
  ASSUME NEW c, IsCategory(c), c.bracketType = "DOUBLE_REPECHAGE", c.registered = c.drawn, c.drawn > 1
  PROVE  LET d == DrawOf(c)
             total == TotalRoundsFor(c.drawn)
         IN  /\ \A m \in MainOf(c) :
                  /\ m.round = total - 2 =>
                       /\ d.loserTo[m] = Repechage(IF m.position <= 2 THEN "TOP" ELSE "BOTTOM")
                       /\ d.loserSide[m] = ArrivalOrder
                  /\ m.round = total - 1 =>
                       /\ d.loserTo[m] = Bronze(IF m.position <= 1 THEN "TOP" ELSE "BOTTOM")
                       /\ d.loserSide[m] = 2
                  /\ m.round # total - 2 /\ m.round # total - 1 => d.loserTo[m] = None
             /\ \A half \in Halves :
                  /\ d.loserTo[Repechage(half)] = None /\ d.loserTo[Bronze(half)] = None
                  /\ d.winnerTo[Repechage(half)] = Bronze(half) /\ d.winnerSide[Repechage(half)] = 1
                  /\ d.winnerTo[Bronze(half)] = None
<1> DEFINE draw == Draw("DOUBLE_REPECHAGE", c.drawn)
           n == c.drawn
           total == TotalRoundsFor(n)
           d == DrawOf(c)
<1>1. n \in Nat /\ n > 1 /\ total \in Nat
  BY CategoryTypes, RoundsOfBracket
<1>2. /\ d = Generated("DOUBLE_REPECHAGE", draw, n) /\ draw = DoubleRepechage(n)
      /\ DOMAIN draw = MainOf(c) \cup RepechageMatches
  BY <1>1, EliminationDraw, MainRounds DEF MainOf
<1>3. \A m \in DOMAIN draw :
        /\ d.winnerTo[m] = Target(WinnerInDoubleRepechage(draw, m)).match
        /\ d.winnerSide[m] = Target(WinnerInDoubleRepechage(draw, m)).side
        /\ d.loserTo[m] = Target(LoserInDoubleRepechage(draw, m, n)).match
        /\ d.loserSide[m] = Target(LoserInDoubleRepechage(draw, m, n)).side
  BY <1>2 DEF Generated, WinnerRoutes, LoserRoutes
<1>4. \A m \in MainOf(c) : m.phase = "MAIN" /\ m.round \in 1..total /\ m.position \in Int
  BY <1>1, MainRounds DEF MainOf
<1> HIDE DEF draw, n, total, d
<1>5. /\ \A half \in Halves : Repechage(half) \in DOMAIN draw /\ Bronze(half) \in DOMAIN draw
      /\ \A half \in Halves : /\ Repechage(half).phase = "REPECHAGE" /\ Repechage(half).group = half
                              /\ Bronze(half).phase = "KNOCKOUT_BRONZE"
  <2>1. \A half \in Halves : Repechage(half) \in DOMAIN draw /\ Bronze(half) \in DOMAIN draw
    BY <1>2 DEF RepechageMatches
  <2> QED
    BY <2>1 DEF Repechage, Bronze, Placeholder, MatchId
<1>6. ASSUME NEW match \in DOMAIN draw, NEW side
      PROVE  /\ Target(Found(draw, Route(match, side))).match = match
             /\ Target(Found(draw, Route(match, side))).side = side
  <2>1. Found(draw, Route(match, side)) = {Route(match, side)}
    BY <1>6 DEF Found, Route
  <2>2. Target({Route(match, side)}) = Route(match, side)
    BY DEF Target, NoRoutes
  <2> QED
    BY <2>1, <2>2 DEF Route
<1>7. Target(NoRoutes).match = None
  BY DEF Target, Route
<1>8. ASSUME NEW m \in MainOf(c), m.round = total - 2
      PROVE  /\ d.loserTo[m] = Repechage(IF m.position <= 2 THEN "TOP" ELSE "BOTTOM")
             /\ d.loserSide[m] = ArrivalOrder
  <2>1. HalfFor(m.round, m.position, total) = IF m.position <= 2 THEN "TOP" ELSE "BOTTOM"
    <3>1. 2^(total - m.round) = 4
      <4>1. total - m.round = 2
        BY <1>1, <1>8
      <4> QED
        BY <4>1, SmallPowers
    <3> QED
      BY <1>4, <3>1 DEF HalfFor
  <2>2. LoserInDoubleRepechage(draw, m, n)
          = Found(draw, Route(Repechage(IF m.position <= 2 THEN "TOP" ELSE "BOTTOM"), ArrivalOrder))
    BY <1>1, <1>4, <1>8, <2>1 DEF LoserInDoubleRepechage, total
  <2> QED
    BY <1>2, <1>3, <1>5, <1>6, <2>2 DEF Halves
<1>9. ASSUME NEW m \in MainOf(c), m.round = total - 1
      PROVE  /\ d.loserTo[m] = Bronze(IF m.position <= 1 THEN "TOP" ELSE "BOTTOM")
             /\ d.loserSide[m] = 2
  <2>1. HalfFor(m.round, m.position, total) = IF m.position <= 1 THEN "TOP" ELSE "BOTTOM"
    <3>1. 2^(total - m.round) = 2
      <4>1. total - m.round = 1
        BY <1>1, <1>9
      <4> QED
        BY <4>1, SmallPowers
    <3> QED
      BY <1>4, <3>1 DEF HalfFor
  <2>2. LoserInDoubleRepechage(draw, m, n)
          = Found(draw, Route(Bronze(IF m.position <= 1 THEN "TOP" ELSE "BOTTOM"), 2))
    BY <1>1, <1>4, <1>9, <2>1 DEF LoserInDoubleRepechage, total
  <2> QED
    BY <1>2, <1>3, <1>5, <1>6, <2>2 DEF Halves
<1>10. ASSUME NEW m \in MainOf(c), m.round # total - 2, m.round # total - 1
       PROVE  d.loserTo[m] = None
  <2>1. LoserInDoubleRepechage(draw, m, n) = NoRoutes
    BY <1>4, <1>10 DEF LoserInDoubleRepechage, total
  <2> QED
    BY <1>2, <1>3, <1>7, <2>1
<1>11. ASSUME NEW half \in Halves
       PROVE  /\ d.loserTo[Repechage(half)] = None /\ d.loserTo[Bronze(half)] = None
              /\ d.winnerTo[Repechage(half)] = Bronze(half) /\ d.winnerSide[Repechage(half)] = 1
              /\ d.winnerTo[Bronze(half)] = None
  <2>1. /\ LoserInDoubleRepechage(draw, Repechage(half), n) = NoRoutes
        /\ LoserInDoubleRepechage(draw, Bronze(half), n) = NoRoutes
    BY <1>5 DEF LoserInDoubleRepechage
  <2>2. /\ WinnerInDoubleRepechage(draw, Repechage(half)) = Found(draw, Route(Bronze(half), 1))
        /\ WinnerInDoubleRepechage(draw, Bronze(half)) = NoRoutes
    BY <1>5 DEF WinnerInDoubleRepechage
  <2> QED
    BY <1>3, <1>5, <1>6, <1>7, <2>1, <2>2
<1> QED
  BY <1>8, <1>9, <1>10, <1>11 DEF total, d, n

(* Nobody withdrawn, an elimination of any size is a full draw.            *)
IsElimination(c) == c.bracketType # "GRAND_SLAM" /\ c.registered = c.drawn /\ c.drawn > 1

LEMMA MainMatches ==
  ASSUME NEW c, IsCategory(c), IsElimination(c), NEW m \in MainOf(c)
  PROVE  LET total == TotalRoundsFor(c.drawn)
             d == DrawOf(c)
         IN  /\ m.phase = "MAIN" /\ m.round \in 1..total /\ m.position \in 1..2^(total - m.round)
             /\ m = MatchId("MAIN", NoGroup, m.round, m.position) /\ m \in d.matches /\ m # None
             /\ IF m.round < total
                THEN /\ d.winnerTo[m] \in MainOf(c) /\ d.winnerTo[m].round = m.round + 1
                     /\ d.winnerTo[m].position = (m.position + 1) \div 2
                     /\ d.winnerSide[m] = IF m.position % 2 = 1 THEN 1 ELSE 2
                ELSE d.winnerTo[m] = None
             /\ m \in d.byes <=> m.round = 1 /\ FirstRound(c.drawn, m.position)[2] = Nobody
<1>1. c.drawn \in Nat /\ c.drawn > 1 /\ c.bracketType # "GRAND_SLAM"
  BY CategoryTypes DEF IsElimination
<1>2. m \in DOMAIN Elimination(c.drawn, "MAIN", NoGroup)
  BY DEF MainOf
<1>3. m \in DrawOf(c).matches /\ m # None
  <2>1. m \in DrawOf(c).matches
    BY <1>1, EliminationMain
  <2>2. None \notin DrawOf(c).matches
    BY CategoryTypes
  <2> QED
    BY <2>1, <2>2
<1>4. /\ IF m.round < TotalRoundsFor(c.drawn)
         THEN DrawOf(c).winnerTo[m] = NextSlot(m).match /\ DrawOf(c).winnerSide[m] = NextSlot(m).side
         ELSE DrawOf(c).winnerTo[m] = None
      /\ m \in DrawOf(c).byes <=> m.round = 1 /\ FirstRound(c.drawn, m.position)[2] = Nobody
  BY <1>1, EliminationMain
<1>5. LET total == TotalRoundsFor(c.drawn)
      IN  /\ m.phase = "MAIN" /\ m.round \in 1..total /\ m.position \in 1..2^(total - m.round)
          /\ m = MatchId("MAIN", NoGroup, m.round, m.position)
          /\ NextSlot(m).match = MatchId("MAIN", NoGroup, m.round + 1, (m.position + 1) \div 2)
          /\ NextSlot(m).side = IF m.position % 2 = 1 THEN 1 ELSE 2
          /\ m.round < total => NextSlot(m).match \in MainOf(c)
  BY <1>1, <1>2, NextInMain DEF MainOf
<1> QED
  BY <1>3, <1>4, <1>5 DEF MatchId

LEMMA EntersOnce ==
  ASSUME NEW c, IsCategory(c), IsElimination(c),
         NEW m \in Contested(DrawOf(c)), NEW l \in Contested(DrawOf(c)), NEW s \in Sides, NEW t \in Sides,
         DrawOf(c).entrants[m][s] # None, DrawOf(c).entrants[m][s] = DrawOf(c).entrants[l][t]
  PROVE  m = l /\ s = t
<1> DEFINE n == c.drawn
           draw == Elimination(n, "MAIN", NoGroup)
<1>1. n \in Nat /\ n > 1 /\ c.bracketType # "GRAND_SLAM"
  BY CategoryTypes DEF IsElimination
<1>2. /\ m \in DrawOf(c).matches /\ m \notin DrawOf(c).byes /\ l \in DrawOf(c).matches /\ l \notin DrawOf(c).byes
  BY DEF Contested
<1>3. /\ m \in DOMAIN draw /\ l \in DOMAIN draw
      /\ draw[m][s] # Nobody /\ draw[m][s] = draw[l][t]
  <2>1. m \in MainOf(c) /\ l \in MainOf(c)
    BY <1>1, <1>2, EliminationMain
  <2> QED
    BY <1>1, <2>1, EliminationMain DEF MainOf
<1>4. ~Unopposed(n, m) /\ ~Unopposed(n, l)
  BY <1>1, <1>2, <1>3, EliminationMain DEF Unopposed, MainOf
<1> HIDE DEF n, draw
<1> QED
  BY <1>1, <1>3, <1>4, SeatedOnce DEF n, draw, Sides

(* The loser of a match that is no final goes nowhere or to a match that   *)
(* is not drawn.                                                           *)
LEMMA LosersOfElimination ==
  ASSUME NEW c, IsCategory(c), IsElimination(c), NEW m \in DrawOf(c).matches, DrawOf(c).loserTo[m] # None
  PROVE  LET d == DrawOf(c)
             total == TotalRoundsFor(c.drawn)
         IN  /\ c.bracketType = "DOUBLE_REPECHAGE" /\ m \in MainOf(c)
             /\ \/ /\ m.round = total - 2 /\ d.loserSide[m] = ArrivalOrder
                   /\ d.loserTo[m] = Repechage(IF m.position <= 2 THEN "TOP" ELSE "BOTTOM")
                \/ /\ m.round = total - 1 /\ d.loserSide[m] = 2
                   /\ d.loserTo[m] = Bronze(IF m.position <= 1 THEN "TOP" ELSE "BOTTOM")
             /\ d.loserTo[m] \in d.matches \ MainOf(c)
<1>1. c.drawn \in Nat /\ c.drawn > 1 /\ c.bracketType # "GRAND_SLAM" /\ c.registered = c.drawn
  BY CategoryTypes DEF IsElimination
<1>2. c.bracketType = "DOUBLE_REPECHAGE"
  BY <1>1, EliminationEnds, CategoryTypes
<1>3. DrawOf(c).matches = MainOf(c) \cup RepechageMatches
  BY <1>1, <1>2, EliminationMain
<1>4. \A half \in Halves : DrawOf(c).loserTo[Repechage(half)] = None /\ DrawOf(c).loserTo[Bronze(half)] = None
  BY <1>1, <1>2, LosersOfDouble
<1>5. m \in MainOf(c)
  BY <1>3, <1>4 DEF RepechageMatches
<1>6. LET d == DrawOf(c)
          total == TotalRoundsFor(c.drawn)
      IN  \/ /\ m.round = total - 2 /\ d.loserSide[m] = ArrivalOrder
             /\ d.loserTo[m] = Repechage(IF m.position <= 2 THEN "TOP" ELSE "BOTTOM")
          \/ /\ m.round = total - 1 /\ d.loserSide[m] = 2
             /\ d.loserTo[m] = Bronze(IF m.position <= 1 THEN "TOP" ELSE "BOTTOM")
  BY <1>1, <1>2, <1>5, LosersOfDouble
<1>7. \A half \in Halves : /\ Repechage(half) \in RepechageMatches \ MainOf(c)
                           /\ Bronze(half) \in RepechageMatches \ MainOf(c)
  <2>1. \A half \in Halves : Repechage(half).phase # "MAIN" /\ Bronze(half).phase # "MAIN"
    BY DEF Repechage, Bronze, Placeholder, MatchId
  <2>2. \A l \in MainOf(c) : l.phase = "MAIN"
    BY MainMatches
  <2> QED
    BY <2>1, <2>2 DEF RepechageMatches
<1>8. DrawOf(c).loserTo[m] \in DrawOf(c).matches \ MainOf(c)
  BY <1>3, <1>6, <1>7 DEF Halves
<1> QED
  BY <1>2, <1>5, <1>6, <1>8

LEMMA WinnersFindRoom ==
  ASSUME NEW c, IsCategory(c), IsElimination(c), NEW m \in DrawOf(c).matches, m \notin DrawOf(c).byes,
         DrawOf(c).winnerTo[m] # None
  PROVE  LET d == DrawOf(c)
         IN  d.winnerTo[m] \notin d.byes /\ d.entrants[d.winnerTo[m]][d.winnerSide[m]] = None
<1> DEFINE d == DrawOf(c)
           next == d.winnerTo[m]
           side == d.winnerSide[m]
           total == TotalRoundsFor(c.drawn)
<1>1. c.drawn \in Nat /\ c.drawn > 1 /\ c.bracketType # "GRAND_SLAM" /\ c.registered = c.drawn
      /\ total \in Nat
  BY CategoryTypes, RoundsOfBracket DEF IsElimination
<1>2. /\ c.bracketType \in {"SINGLE_REPECHAGE", "DOUBLE_REPECHAGE"}
      /\ c.bracketType = "SINGLE_REPECHAGE" => d.matches = MainOf(c)
      /\ c.bracketType = "DOUBLE_REPECHAGE" => d.matches = MainOf(c) \cup RepechageMatches
      /\ \A l \in d.matches \ MainOf(c) : l \notin d.byes /\ \A s \in Sides : d.entrants[l][s] = None
  BY <1>1, EliminationMain, CategoryTypes
<1>3. next \in d.matches /\ side \in Sides
  BY <1>1, RoutesAreTyped
<1>4. CASE m \notin MainOf(c)
  <2>1. PICK half \in Halves : m \in {Repechage(half), Bronze(half)}
    BY <1>2, <1>4 DEF RepechageMatches
  <2>2. c.bracketType = "DOUBLE_REPECHAGE"
    BY <1>2, <1>4
  <2>3. next = Bronze(half)
    BY <1>1, <2>1, <2>2, LosersOfDouble
  <2>4. next \notin MainOf(c)
    BY <2>3, MainMatches DEF Bronze, Placeholder, MatchId
  <2> QED
    BY <1>2, <1>3, <2>4
<1>5. CASE m \in MainOf(c)
  <2>1. /\ next \in MainOf(c) /\ next.round = m.round + 1 /\ next.position = (m.position + 1) \div 2
        /\ side = IF m.position % 2 = 1 THEN 1 ELSE 2
        /\ m.round \in 1..total /\ m.position \in Int
        /\ ~(m.round = 1 /\ FirstRound(c.drawn, m.position)[2] = Nobody)
    BY <1>1, <1>5, MainMatches
  <2>2. next \notin d.byes
    BY <1>1, <2>1, MainMatches
  <2>3. d.entrants[next][side] = None
    <3> DEFINE n == c.drawn
               draw == Elimination(n, "MAIN", NoGroup)
    <3>1. ~Unopposed(n, m) /\ m.round < total /\ m \in DOMAIN draw
      BY <1>1, <1>5, <2>1, MainMatches DEF Unopposed, MainOf
    <3>2. draw[MatchId("MAIN", NoGroup, m.round + 1, (m.position + 1) \div 2)]
              [IF m.position % 2 = 1 THEN 1 ELSE 2] = Nobody
      BY <1>1, <3>1, NextIsOpen
    <3>3. next = MatchId("MAIN", NoGroup, m.round + 1, (m.position + 1) \div 2)
      BY <2>1, MainMatches
    <3>4. draw[next][side] = Nobody
      BY <2>1, <3>2, <3>3
    <3> QED
      BY <1>1, <1>3, <2>1, <3>4, EliminationMain
  <2> QED
    BY <2>2, <2>3
<1> QED
  BY <1>4, <1>5

LEMMA ByesLeadOn ==
  ASSUME NEW c, IsCategory(c), IsElimination(c), NEW m \in DrawOf(c).byes
  PROVE  DrawOf(c).winnerTo[m] # None
<1>1. c.drawn \in Nat /\ c.drawn > 1 /\ c.bracketType # "GRAND_SLAM"
  BY CategoryTypes DEF IsElimination
<1>2. m \in MainOf(c)
  <2>1. DrawOf(c).byes \subseteq DrawOf(c).matches
    BY DEF DrawOf, Generated
  <2> QED
    BY <1>1, <2>1, EliminationMain
<1>3. m.round = 1 /\ FirstRound(c.drawn, m.position)[2] = Nobody /\ m.position \in 1..2^(TotalRoundsFor(c.drawn) - 1)
  <2>1. m.round = 1 /\ FirstRound(c.drawn, m.position)[2] = Nobody
    BY <1>2, MainMatches
  <2> QED
    BY <1>2, <2>1, MainMatches
<1>4. TotalRoundsFor(c.drawn) > 1 /\ TotalRoundsFor(c.drawn) \in Nat
  BY <1>1, <1>3, NoByeInFinal, RoundsOfBracket
<1>5. DrawOf(c).winnerTo[m] \in MainOf(c)
  BY <1>2, <1>3, <1>4, MainMatches
<1> QED
  BY <1>5, MainMatches

LEMMA TwoLosersEach ==
  ASSUME NEW c, IsCategory(c), IsElimination(c), NEW m \in DrawOf(c).matches, NEW l \in DrawOf(c).matches,
         m # l, DrawOf(c).loserTo[m] # None, DrawOf(c).loserTo[m] = DrawOf(c).loserTo[l]
  PROVE  LET d == DrawOf(c)
         IN  /\ d.loserSide[m] = ArrivalOrder /\ d.loserSide[l] = ArrivalOrder
             /\ \A o \in d.matches : d.loserTo[o] = d.loserTo[m] => o \in {m, l}
<1> DEFINE d == DrawOf(c)
           total == TotalRoundsFor(c.drawn)
           seat(o) == MatchId("MAIN", NoGroup, o.round, o.position)
<1>1. c.drawn \in Nat /\ total \in Nat
  BY CategoryTypes, RoundsOfBracket
<1>2. /\ Repechage("TOP") # Repechage("BOTTOM") /\ Bronze("TOP") # Bronze("BOTTOM")
      /\ \A half, other \in Halves : Repechage(half) # Bronze(other)
  BY DEF Repechage, Bronze, Placeholder, MatchId, Halves
<1>3. ASSUME NEW o \in d.matches, d.loserTo[o] # None
      PROVE  /\ o = seat(o)
             /\ \/ /\ o.round = total - 2 /\ d.loserSide[o] = ArrivalOrder /\ o.position \in 1..4
                   /\ d.loserTo[o] = Repechage(IF o.position <= 2 THEN "TOP" ELSE "BOTTOM")
                \/ /\ o.round = total - 1 /\ d.loserSide[o] = 2 /\ o.position \in 1..2
                   /\ d.loserTo[o] = Bronze(IF o.position <= 1 THEN "TOP" ELSE "BOTTOM")
  <2>1. /\ o \in MainOf(c)
        /\ \/ /\ o.round = total - 2 /\ d.loserSide[o] = ArrivalOrder
              /\ d.loserTo[o] = Repechage(IF o.position <= 2 THEN "TOP" ELSE "BOTTOM")
           \/ /\ o.round = total - 1 /\ d.loserSide[o] = 2
              /\ d.loserTo[o] = Bronze(IF o.position <= 1 THEN "TOP" ELSE "BOTTOM")
    BY <1>3, LosersOfElimination
  <2>2. o = seat(o) /\ o.position \in 1..2^(total - o.round)
    BY <2>1, MainMatches
  <2> HIDE DEF d, total, seat
  <2>3. CASE o.round = total - 2
    <3>1. total - o.round = 2
      BY <1>1, <2>3
    <3>2. o.position \in 1..4 /\ o.round # total - 1
      BY <1>1, <2>2, <2>3, <3>1, SmallPowers
    <3> QED
      BY <2>1, <2>2, <2>3, <3>2
  <2>4. CASE o.round = total - 1
    <3>1. total - o.round = 1
      BY <1>1, <2>4
    <3>2. o.position \in 1..2 /\ o.round # total - 2
      BY <1>1, <2>2, <2>4, <3>1, SmallPowers
    <3> QED
      BY <2>1, <2>2, <2>4, <3>2
  <2> QED
    BY <2>1, <2>3, <2>4
<1>4. \A o, k \in d.matches : o = seat(o) /\ k = seat(k) /\ o.round = k.round /\ o.position = k.position => o = k
  OBVIOUS
<1> HIDE DEF d, total, seat
<1>5. d.loserTo[m] # None /\ d.loserTo[l] = d.loserTo[m] /\ m \in d.matches /\ l \in d.matches
  BY DEF d
<1>6. CASE m.round = total - 2
  <2>1. m.round # total - 1
    BY <1>1, <1>6
  <2>2. d.loserTo[m] \in {Repechage("TOP"), Repechage("BOTTOM")}
    BY <1>3, <1>5, <2>1
  <2>3. ASSUME NEW o \in d.matches, d.loserTo[o] = d.loserTo[m]
        PROVE  /\ o.round = total - 2 /\ d.loserSide[o] = ArrivalOrder /\ o.position \in 1..4 /\ o = seat(o)
               /\ o.position <= 2 <=> m.position <= 2
    <3>1. ~(\E half \in Halves : d.loserTo[o] = Bronze(half))
      BY <1>2, <2>2, <2>3 DEF Halves
    <3>2. /\ o.round = total - 2 /\ d.loserSide[o] = ArrivalOrder /\ o.position \in 1..4 /\ o = seat(o)
          /\ d.loserTo[o] = Repechage(IF o.position <= 2 THEN "TOP" ELSE "BOTTOM")
      BY <1>3, <1>5, <2>3, <3>1 DEF Halves
    <3>3. d.loserTo[m] = Repechage(IF m.position <= 2 THEN "TOP" ELSE "BOTTOM")
      BY <1>3, <1>5, <2>1
    <3> QED
      BY <1>2, <2>3, <3>2, <3>3
  <2>4. m.position # l.position
    BY <1>4, <1>5, <1>6, <2>3
  <2>5. ASSUME NEW o \in d.matches, d.loserTo[o] = d.loserTo[m]
        PROVE  o \in {m, l}
    <3>1. o.position = m.position \/ o.position = l.position
      BY <1>5, <2>3, <2>4, <2>5
    <3>2. /\ o = seat(o) /\ m = seat(m) /\ l = seat(l)
          /\ o.round = m.round /\ o.round = l.round
      BY <1>5, <2>3, <2>5
    <3> QED
      BY <1>4, <1>5, <3>1, <3>2
  <2> QED
    BY <1>5, <2>3, <2>5 DEF d
<1>7. CASE m.round = total - 1
  <2>1. m.round # total - 2
    BY <1>1, <1>7
  <2>2. /\ m.position \in 1..2 /\ m = seat(m)
        /\ d.loserTo[m] = Bronze(IF m.position <= 1 THEN "TOP" ELSE "BOTTOM")
    BY <1>3, <1>5, <2>1
  <2>3. ~(\E half \in Halves : d.loserTo[l] = Repechage(half))
    BY <1>2, <1>5, <2>2 DEF Halves
  <2>4. /\ l.round = total - 1 /\ l.position \in 1..2 /\ l = seat(l)
        /\ d.loserTo[l] = Bronze(IF l.position <= 1 THEN "TOP" ELSE "BOTTOM")
    BY <1>3, <1>5, <2>3 DEF Halves
  <2>5. m.position = l.position
    BY <1>2, <1>5, <2>2, <2>4
  <2>6. m = l
    BY <1>4, <1>5, <1>7, <2>2, <2>4, <2>5
  <2> QED
    BY <2>6
<1> QED
  BY <1>3, <1>5, <1>6, <1>7

LEMMA EliminationIsFull ==
  ASSUME NEW c, IsCategory(c), IsElimination(c)
  PROVE  FullDraw(c, DrawOf(c))
<1> DEFINE d == DrawOf(c)
<1>1. c.drawn \in Nat /\ c.drawn > 1 /\ c.bracketType # "GRAND_SLAM" /\ c.registered = c.drawn
  BY CategoryTypes DEF IsElimination
<1>2. /\ c.bracketType \in {"SINGLE_REPECHAGE", "DOUBLE_REPECHAGE"}
      /\ MainOf(c) \subseteq d.matches
      /\ c.bracketType = "SINGLE_REPECHAGE" => d.matches = MainOf(c)
      /\ c.bracketType = "DOUBLE_REPECHAGE" => d.matches = MainOf(c) \cup RepechageMatches
      /\ \A m \in d.matches \ MainOf(c) : m \notin d.byes /\ \A s \in Sides : d.entrants[m][s] = None
  BY <1>1, EliminationMain, CategoryTypes
<1>3. /\ None \notin d.matches /\ d.byes \subseteq d.matches
      /\ \A m \in d.matches : d.winnerSide[m] \in Sides /\ d.winnerTo[m] \in d.matches \cup {None}
  <2>1. d.byes \subseteq d.matches
    BY DEF DrawOf, Generated
  <2> QED
    BY <1>1, <2>1, CategoryTypes, RoutesAreTyped
<1>4. \A m \in d.matches : d.loserTo[m] # None =>
        m \in MainOf(c) /\ d.loserTo[m] \in d.matches \ MainOf(c)
  BY LosersOfElimination
<1>5. /\ \A m \in MainOf(c) : m.phase = "MAIN" /\ d.winnerTo[m] \in MainOf(c) \cup {None}
      /\ \A m \in d.matches \ MainOf(c) :
           m.phase \in {"REPECHAGE", "KNOCKOUT_BRONZE"} /\ d.winnerTo[m] \in (d.matches \ MainOf(c)) \cup {None}
  <2>1. \A m \in MainOf(c) : m.phase = "MAIN" /\ d.winnerTo[m] \in MainOf(c) \cup {None}
    BY MainMatches
  <2>2. /\ \A m \in RepechageMatches : m.phase \in {"REPECHAGE", "KNOCKOUT_BRONZE"}
        /\ \A half \in Halves : Bronze(half).phase = "KNOCKOUT_BRONZE"
    BY DEF RepechageMatches, Repechage, Bronze, Placeholder, MatchId
  <2>3. ASSUME NEW m \in d.matches \ MainOf(c)
        PROVE  m.phase \in {"REPECHAGE", "KNOCKOUT_BRONZE"} /\ d.winnerTo[m] \in (d.matches \ MainOf(c)) \cup {None}
    <3>1. c.bracketType = "DOUBLE_REPECHAGE"
      BY <1>2, <2>3
    <3>2. PICK half \in Halves : m \in {Repechage(half), Bronze(half)}
      BY <1>2, <2>3, <3>1 DEF RepechageMatches
    <3>3. d.winnerTo[m] \in {Bronze(half), None}
      BY <1>1, <3>1, <3>2, LosersOfDouble
    <3>4. Bronze(half) \in d.matches \ MainOf(c)
      <4>1. Bronze(half) \notin MainOf(c)
        BY <2>1, <2>2
      <4> QED
        BY <1>2, <3>1, <4>1 DEF RepechageMatches
    <3> QED
      BY <1>2, <2>2, <2>3, <3>1, <3>3, <3>4
  <2> QED
    BY <2>1, <2>3
<1>6. Bracket(c, d)!OneLoserPerSlot
  <2>1. ASSUME NEW m \in d.matches, NEW l \in d.matches, l = d.winnerTo[m],
               \A s \in Sides : d.entrants[l][s] # None
        PROVE  m \in d.byes
    BY <1>3, <2>1, WinnersFindRoom
  <2>2. ASSUME NEW m \in d.matches, NEW s \in Sides, d.loserTo[m] # None
        PROVE  d.entrants[d.loserTo[m]][s] = None
    BY <1>2, <1>4, <2>2
  <2>3. ASSUME NEW m \in d.matches, NEW l \in d.matches, m # l, d.loserTo[m] # None, d.loserTo[m] = d.loserTo[l]
        PROVE  /\ d.loserSide[m] = ArrivalOrder /\ d.loserSide[l] = ArrivalOrder
               /\ \A o \in d.matches : d.loserTo[o] = d.loserTo[m] => o \in {m, l}
    BY <2>3, TwoLosersEach
  <2> HIDE DEF d
  <2> QED
    BY <2>1, <2>2, <2>3 DEF Bracket!OneLoserPerSlot, Bracket!FirstFree, ArrivalOrder, Bracket!Sides, Sides
<1>7. EnteredOnce(d)
  <2>1. \A m, l \in Contested(d), s, t \in Sides :
          d.entrants[m][s] # None /\ d.entrants[m][s] = d.entrants[l][t] => m = l /\ s = t
    BY EntersOnce
  <2>2. \A m \in Contested(d) : d.winnerTo[m] # None =>
          d.winnerTo[m] \notin d.byes /\ d.entrants[d.winnerTo[m]][d.winnerSide[m]] = None
    BY WinnersFindRoom DEF Contested
  <2>3. \A m \in d.byes : d.winnerTo[m] # None
    BY ByesLeadOn
  <2>4. \A m \in d.matches : d.loserTo[m] \notin d.byes
    BY <1>2, <1>3, <1>4
  <2> HIDE DEF d
  <2> QED
    BY <2>1, <2>2, <2>3, <2>4 DEF EnteredOnce
<1>8. OneConsolation(d)
  <2>1. Consolation(d) = d.matches \ MainOf(c)
    BY <1>2, <1>5 DEF Consolation
  <2> HIDE DEF d
  <2> QED
    BY <1>2, <1>3, <1>4, <1>5, <2>1 DEF OneConsolation
<1> QED
  BY <1>6, <1>7, <1>8 DEF FullDraw

(* The rows and the routes of an elimination from which nobody has been    *)
(* withdrawn are a draw as module Draw assumes it.                         *)
LEMMA EliminationIsADraw ==
  ASSUME None \notin Int, NEW c, IsCategory(c), IsElimination(c)
  PROVE  /\ Bracket(c, DrawOf(c))!DrawTypes
         /\ Bracket(c, DrawOf(c))!OneFeederPerSlot
         /\ Bracket(c, DrawOf(c))!ByesAdvanced
<1> DEFINE n == c.drawn
           d == DrawOf(c)
           main == MainOf(c)
           total == TotalRoundsFor(n)
           slots(m) == Elimination(n, "MAIN", NoGroup)[m]
<1>1. n \in Nat /\ n > 1 /\ c.bracketType # "GRAND_SLAM" /\ c.registered = n /\ total \in Nat /\ total >= 1
  BY CategoryTypes, RoundsOfBracket DEF IsElimination
<1>2. /\ main \subseteq d.matches
      /\ c.bracketType = "SINGLE_REPECHAGE" => d.matches = main
      /\ c.bracketType = "DOUBLE_REPECHAGE" => d.matches = main \cup RepechageMatches
      /\ \A m \in main :
           /\ IF m.round < total
              THEN d.winnerTo[m] = NextSlot(m).match /\ d.winnerSide[m] = NextSlot(m).side
              ELSE d.winnerTo[m] = None
           /\ m \in d.byes <=> m.round = 1 /\ FirstRound(n, m.position)[2] = Nobody
           /\ \A s \in Sides : d.entrants[m][s] = IF slots(m)[s] = Nobody THEN None ELSE slots(m)[s]
      /\ \A m \in d.matches \ main : m \notin d.byes /\ \A s \in Sides : d.entrants[m][s] = None
  BY <1>1, EliminationMain
<1>3. \A m \in main :
        /\ m.phase = "MAIN" /\ m.round \in 1..total /\ m.position \in 1..2^(total - m.round)
        /\ m.position \in Nat
        /\ m = MatchId("MAIN", NoGroup, m.round, m.position)
        /\ NextSlot(m).match = MatchId("MAIN", NoGroup, m.round + 1, (m.position + 1) \div 2)
        /\ NextSlot(m).side = IF m.position % 2 = 1 THEN 1 ELSE 2
        /\ m.round < total => NextSlot(m).match \in main
  <2>1. \A m \in main : m.position \in Int => m.position \in Nat \/ m.position < 0
    OBVIOUS
  <2> QED
    BY <1>1, NextInMain DEF MainOf
<1>4. \A m \in d.matches \ main :
        /\ c.bracketType = "DOUBLE_REPECHAGE"
        /\ \E half \in Halves : m = Repechage(half) \/ m = Bronze(half)
  BY <1>1, <1>2, CategoryTypes DEF RepechageMatches
<1>5. c.bracketType = "DOUBLE_REPECHAGE" =>
        \A half \in Halves :
          /\ d.loserTo[Repechage(half)] = None /\ d.loserTo[Bronze(half)] = None
          /\ d.winnerTo[Repechage(half)] = Bronze(half) /\ d.winnerSide[Repechage(half)] = 1
          /\ d.winnerTo[Bronze(half)] = None
  BY <1>1, LosersOfDouble
<1>6. \A m \in d.matches : d.loserTo[m] # None =>
        /\ m \in main
        /\ \E half \in Halves :
             \/ d.loserTo[m] = Repechage(half)
             \/ d.loserTo[m] = Bronze(half) /\ d.loserSide[m] = 2
  <2> SUFFICES ASSUME NEW m \in d.matches, d.loserTo[m] # None
               PROVE  /\ m \in main
                      /\ \E half \in Halves :
                           \/ d.loserTo[m] = Repechage(half)
                           \/ d.loserTo[m] = Bronze(half) /\ d.loserSide[m] = 2
    OBVIOUS
  <2>1. c.bracketType = "DOUBLE_REPECHAGE"
    BY <1>1, EliminationEnds, CategoryTypes
  <2>2. m \in main
    BY <1>4, <1>5
  <2> QED
    BY <1>1, <2>1, <2>2, LosersOfDouble DEF Halves
<1>7. /\ \A half \in Halves : Repechage(half).phase = "REPECHAGE" /\ Bronze(half).phase = "KNOCKOUT_BRONZE"
      /\ \A half, other \in Halves : Bronze(half) = Bronze(other) => half = other
  BY DEF Repechage, Bronze, Placeholder, MatchId
<1>12. \A a, b, p, q : MatchId("MAIN", NoGroup, a, p) = MatchId("MAIN", NoGroup, b, q) => a = b /\ p = q
  BY DEF MatchId
<1>13. \A a, p : MatchId("MAIN", NoGroup, a, p).round = a /\ MatchId("MAIN", NoGroup, a, p).position = p
  BY DEF MatchId
<1>14. ASSUME NEW p \in Int, NEW q \in Int, (p + 1) \div 2 = (q + 1) \div 2,
              (IF p % 2 = 1 THEN 1 ELSE 2) = (IF q % 2 = 1 THEN 1 ELSE 2)
       PROVE  p = q
  BY <1>14
<1> HIDE DEF d, main, total, n
<1>8. \A m \in d.matches : d.winnerTo[m] # None =>
        \/ m \in main /\ m.round < total /\ d.winnerTo[m] = NextSlot(m).match /\ d.winnerSide[m] = NextSlot(m).side
        \/ \E half \in Halves : m = Repechage(half) /\ d.winnerTo[m] = Bronze(half) /\ d.winnerSide[m] = 1
  BY <1>2, <1>4, <1>5
<1>9. Bracket(c, d)!DrawTypes
  <2>1. None \notin d.matches /\ None \notin 0..(n - 1)
    BY <1>1, CategoryTypes DEF d
  <2>2. /\ DOMAIN d.winnerTo = d.matches /\ DOMAIN d.winnerSide = d.matches
        /\ DOMAIN d.loserTo = d.matches /\ DOMAIN d.loserSide = d.matches
        /\ d.winnerTo = [m \in d.matches |-> d.winnerTo[m]] /\ d.winnerSide = [m \in d.matches |-> d.winnerSide[m]]
        /\ d.loserTo = [m \in d.matches |-> d.loserTo[m]] /\ d.loserSide = [m \in d.matches |-> d.loserSide[m]]
        /\ d.entrants = [m \in d.matches |-> [s \in Sides |-> d.entrants[m][s]]]
        /\ d.byes \subseteq d.matches
    BY DEF d, DrawOf, Generated
  <2>3. \A m \in d.matches :
          /\ d.winnerTo[m] \in d.matches \cup {None} /\ d.winnerSide[m] \in Sides
          /\ d.loserTo[m] \in d.matches \cup {None} /\ d.loserSide[m] \in Sides \cup {ArrivalOrder}
    BY <1>1, RoutesAreTyped DEF d
  <2>4. \A m \in d.matches, s \in Sides : d.entrants[m][s] \in 0..(n - 1) \cup {None}
    <3> SUFFICES ASSUME NEW m \in main, NEW s \in Sides
                 PROVE  d.entrants[m][s] \in 0..(n - 1) \cup {None}
      BY <1>2
    <3>1. slots(m)[s] # Nobody => slots(m)[s] \in 0..(n - 1)
      BY <1>1, DrawnFrom DEF main, MainOf, Sides, n
    <3> QED
      BY <1>2, <3>1
  <2>5. d.entrants \in [d.matches -> [Sides -> 0..(n - 1) \cup {None}]]
    <3> DEFINE seats == 0..(n - 1) \cup {None}
               f == d.entrants
    <3>1. f = [m \in d.matches |-> [s \in Sides |-> f[m][s]]]
      BY <2>2
    <3>2. \A m \in d.matches, s \in Sides : f[m][s] \in seats
      BY <2>4
    <3> HIDE DEF seats, f
    <3>3. \A m \in d.matches : [s \in Sides |-> f[m][s]] \in [Sides -> seats]
      BY <3>2
    <3>4. f \in [d.matches -> [Sides -> seats]]
      BY <3>1, <3>3
    <3> QED
      BY <3>4 DEF seats, f
  <2> QED
    BY <2>1, <2>2, <2>3, <2>5
       DEF Bracket!DrawTypes, Bracket!MaybeMatch, Bracket!MaybeCompetitor, Bracket!FirstFree, ArrivalOrder,
           Bracket!Sides, Sides, n
<1>10. Bracket(c, d)!OneFeederPerSlot
  <2>1. ASSUME NEW m \in d.matches, NEW l \in d.matches, d.winnerTo[m] # None,
               d.winnerTo[m] = d.winnerTo[l], d.winnerSide[m] = d.winnerSide[l]
        PROVE  m = l
    <3>1. CASE m \in main /\ l \in main
      <4>1. /\ d.winnerTo[m] = MatchId("MAIN", NoGroup, m.round + 1, (m.position + 1) \div 2)
            /\ d.winnerTo[l] = MatchId("MAIN", NoGroup, l.round + 1, (l.position + 1) \div 2)
            /\ d.winnerSide[m] = IF m.position % 2 = 1 THEN 1 ELSE 2
            /\ d.winnerSide[l] = IF l.position % 2 = 1 THEN 1 ELSE 2
        BY <1>2, <1>3, <2>1, <3>1
      <4>2. /\ m.round \in Int /\ l.round \in Int /\ m.round + 1 = l.round + 1
            /\ (m.position + 1) \div 2 = (l.position + 1) \div 2
        <5>1. m.round \in Int /\ l.round \in Int
          BY <1>1, <1>3, <3>1
        <5>2. MatchId("MAIN", NoGroup, m.round + 1, (m.position + 1) \div 2)
                = MatchId("MAIN", NoGroup, l.round + 1, (l.position + 1) \div 2)
          BY <2>1, <4>1
        <5> DEFINE a == m.round + 1
                   b == l.round + 1
                   p == (m.position + 1) \div 2
                   q == (l.position + 1) \div 2
        <5>3. a = b /\ p = q
          <6> HIDE DEF a, b, p, q
          <6>1. MatchId("MAIN", NoGroup, a, p) = MatchId("MAIN", NoGroup, b, q)
            BY <5>2 DEF a, b, p, q
          <6> QED
            BY <1>12, <6>1
        <5> QED
          BY <5>1, <5>3
      <4>3. m.position = l.position
        <5>1. m.position \in Int /\ l.position \in Int
          BY <1>3, <3>1
        <5> QED
          BY <1>14, <2>1, <4>1, <4>2, <5>1
      <4> QED
        BY <1>3, <3>1, <4>2, <4>3
    <3>2. \A o \in main : o.round < total => NextSlot(o).match.phase = "MAIN"
      BY <1>3
    <3>3. CASE m \notin main \/ l \notin main
      BY <1>7, <1>8, <2>1, <3>2, <3>3
    <3> QED
      BY <3>1, <3>3
  <2>2. ASSUME NEW m \in d.matches, NEW l \in d.matches, d.winnerTo[m] # None, d.winnerTo[m] = d.loserTo[l]
        PROVE  d.loserSide[l] \in Sides /\ d.loserSide[l] # d.winnerSide[m]
    <3>1. \A o \in main : o.round < total => NextSlot(o).match.phase = "MAIN"
      BY <1>3
    <3>2. PICK half \in Halves : \/ d.loserTo[l] = Repechage(half)
                                 \/ d.loserTo[l] = Bronze(half) /\ d.loserSide[l] = 2
      BY <1>6, <2>2
    <3>3. d.winnerSide[m] = 1 /\ d.winnerTo[m].phase = "KNOCKOUT_BRONZE"
      BY <1>7, <1>8, <2>2, <3>1, <3>2
    <3> QED
      BY <1>7, <2>2, <3>2, <3>3 DEF Sides
  <2>3. ASSUME NEW m \in d.matches
        PROVE  d.winnerTo[m] # m /\ d.loserTo[m] # m
    <3>1. m # None
      BY CategoryTypes DEF d
    <3>2. \A o \in main : o.round < total => NextSlot(o).match # o
      BY <1>1, <1>3, <1>13
    <3>3. d.winnerTo[m] # m
      BY <1>7, <1>8, <3>1, <3>2
    <3>4. d.loserTo[m] # m
      BY <1>3, <1>6, <1>7, <3>1
    <3> QED
      BY <3>3, <3>4
  <2> QED
    BY <2>1, <2>2, <2>3 DEF Bracket!OneFeederPerSlot, Bracket!Sides, Sides
<1>11. Bracket(c, d)!ByesAdvanced
  <2> SUFFICES ASSUME NEW m \in d.byes
               PROVE  /\ (d.entrants[m][1] = None) # (d.entrants[m][2] = None)
                      /\ d.winnerTo[m] # None => d.entrants[d.winnerTo[m]][d.winnerSide[m]] = d.entrants[m][1]
                      /\ d.entrants[m][1] # None
    BY DEF Bracket!ByesAdvanced, Bracket!ByeWinner
  <2> DEFINE p == m.position
             first == FirstRound(n, p)
  <2>1. m \in main /\ m.round = 1 /\ first[2] = Nobody /\ p \in 1..2^(total - 1)
    <3>1. m \in main
      BY <1>2 DEF d, DrawOf, Generated
    <3>2. m.round = 1 /\ first[2] = Nobody
      BY <1>2, <3>1
    <3> QED
      BY <1>3, <3>1, <3>2
  <2>2. first[1] \in 0..(n - 1) /\ first[1] # Nobody /\ first[1] # None
    BY <1>1, <2>1, FirstRoundSlots DEF Nobody, total
  <2>3. slots(m) = first
    BY <1>1, <2>1, EliminationSlots DEF main, MainOf, n
  <2>4. d.entrants[m][1] = first[1] /\ d.entrants[m][2] = None
    BY <1>2, <2>1, <2>2, <2>3 DEF Sides
  <2>5. ASSUME d.winnerTo[m] # None
        PROVE  d.entrants[d.winnerTo[m]][d.winnerSide[m]] = first[1]
    <3> DEFINE next == NextSlot(m).match
               side == NextSlot(m).side
    <3>1. /\ m.round < total /\ d.winnerTo[m] = next /\ d.winnerSide[m] = side
          /\ next \in main /\ next.round = 2 /\ next.position = (p + 1) \div 2
          /\ side = IF p % 2 = 1 THEN 1 ELSE 2
      BY <1>2, <1>3, <1>13, <2>1, <2>5
    <3> HIDE DEF next, side
    <3>2. 2 * next.position - 2 + side = p /\ side \in Sides
      <4>1. p \in Int
        BY <1>3, <2>1
      <4>2. \A q \in Int : 2 * ((q + 1) \div 2) - 2 + (IF q % 2 = 1 THEN 1 ELSE 2) = q
        OBVIOUS
      <4> QED
        BY <3>1, <4>1, <4>2 DEF Sides
    <3>3. slots(next)[side] = Advanced(FirstRound(n, p))
      <4>1. slots(next)[side] = Advanced(FirstRound(n, 2 * next.position - 2 + side))
        BY <1>1, <3>1, <3>2, EliminationSlots DEF main, MainOf, n, Sides
      <4> QED
        BY <3>2, <4>1
    <3>4. Advanced(FirstRound(n, p)) = first[1]
      BY <2>1, <2>2 DEF Advanced, IsBye
    <3> QED
      BY <1>2, <2>2, <3>1, <3>2, <3>3, <3>4
  <2> QED
    BY <2>2, <2>4, <2>5
<1> QED
  BY <1>9, <1>10, <1>11 DEF d

-----------------------------------------------------------------------------
(* Grand slams of every size *)

IsSlam(c) == c.bracketType = "GRAND_SLAM" /\ IsGrandSlamBracketSize(c.drawn)

HalfOf(group) == IF TopPool(group) THEN "TOP" ELSE "BOTTOM"

SlamOthers == RepechageMatches \cup {Semifinal(1), Semifinal(2), Final}

PoolDraw(c, group) == Elimination(PoolSize(c.drawn, group), "POOL", group)

RoundsOfPool(c, group) == TotalRoundsFor(PoolSize(c.drawn, group))

(* A pool is a bracket of at least four.                                   *)
LEMMA PoolBracket ==
  ASSUME NEW c, IsCategory(c), IsSlam(c), NEW group \in SlamPools
  PROVE  /\ c.drawn \in Nat /\ PoolSize(c.drawn, group) \in Nat /\ PoolSize(c.drawn, group) >= 4
         /\ RoundsOfPool(c, group) \in Nat /\ RoundsOfPool(c, group) >= 2
         /\ MatchId("POOL", group, RoundsOfPool(c, group), 1) \in DOMAIN PoolDraw(c, group)
         /\ \A m \in DOMAIN PoolDraw(c, group) :
              /\ m.phase = "POOL" /\ m.group = group /\ m.round \in 1..RoundsOfPool(c, group)
              /\ m.position \in Int
              /\ m = MatchId("POOL", group, m.round, m.position)
              /\ NextSlot(m) = Route(MatchId("POOL", group, m.round + 1, (m.position + 1) \div 2),
                                     IF m.position % 2 = 1 THEN 1 ELSE 2)
              /\ m.round < RoundsOfPool(c, group) => NextSlot(m).match \in DOMAIN PoolDraw(c, group)
              /\ m.round = RoundsOfPool(c, group) => m.position = 1
<1> DEFINE size == PoolSize(c.drawn, group)
           total == RoundsOfPool(c, group)
           draw == PoolDraw(c, group)
<1>1. c.drawn \in Nat /\ c.drawn >= 16
  BY CategoryTypes DEF IsSlam, IsGrandSlamBracketSize
<1>2. size \in Nat /\ size >= 4
  BY <1>1, PoolSizes
<1>3. total \in Nat /\ total >= 1 /\ size <= 2^total
  BY <1>2, RoundsOfBracket DEF RoundsOfPool
<1>4. total >= 2
  <2>1. total = 1 => 2^total = 2
    BY SmallPowers
  <2> QED
    BY <1>2, <1>3, <2>1
<1>5. MatchId("POOL", group, total, 1) \in DOMAIN draw
  <2>1. total - total = 0
    BY <1>3
  <2>2. 1 \in 1..2^(total - total)
    BY <2>1, SmallPowers
  <2>3. total \in 1..total
    BY <1>3
  <2> QED
    BY <1>2, <2>2, <2>3, EliminationSlots DEF RoundsOfPool, PoolDraw
<1>6. ASSUME NEW m \in DOMAIN draw
      PROVE  /\ m.phase = "POOL" /\ m.group = group /\ m.round \in 1..total /\ m.position \in Int
             /\ m = MatchId("POOL", group, m.round, m.position)
             /\ NextSlot(m) = Route(MatchId("POOL", group, m.round + 1, (m.position + 1) \div 2),
                                    IF m.position % 2 = 1 THEN 1 ELSE 2)
             /\ m.round < total => NextSlot(m).match \in DOMAIN draw
             /\ m.round = total => m.position = 1
  <2>1. /\ m.phase = "POOL" /\ m.group = group /\ m.round \in 1..total
        /\ m.position \in Int
        /\ m = MatchId("POOL", group, m.round, m.position)
        /\ m.round < total =>
             MatchId("POOL", group, m.round + 1, (m.position + 1) \div 2) \in DOMAIN draw
        /\ m.round = total => m.position = 1
    BY <1>2, NextInBracket DEF RoundsOfPool, PoolDraw
  <2>2. /\ NextSlot(m).match = MatchId("POOL", group, m.round + 1, (m.position + 1) \div 2)
        /\ NextSlot(m).side = IF m.position % 2 = 1 THEN 1 ELSE 2
    BY <2>1, NextSlotOf
  <2>3. NextSlot(m) = Route(NextSlot(m).match, NextSlot(m).side)
    BY DEF NextSlot, Route
  <2> QED
    BY <2>1, <2>2, <2>3
<1> QED
  BY <1>1, <1>2, <1>3, <1>4, <1>5, <1>6

(* The matches of a grand slam and who is drawn into them.                 *)
LEMMA SlamMatches ==
  ASSUME NEW c, IsCategory(c), IsSlam(c)
  PROVE  LET d == DrawOf(c)
             draw == Draw("GRAND_SLAM", c.drawn)
         IN  /\ d = Generated("GRAND_SLAM", draw, c.registered) /\ d.matches = DOMAIN draw
             /\ d.matches = (UNION {DOMAIN PoolDraw(c, group) : group \in SlamPools}) \cup SlamOthers
             /\ \A m \in SlamOthers :
                  m.phase \notin {"POOL", "MAIN"} /\ \A s \in Sides : d.entrants[m][s] = None
             /\ \A group \in SlamPools : \A m \in DOMAIN PoolDraw(c, group), s \in Sides :
                  LET seat == PoolDraw(c, group)[m][s]
                  IN  IF seat = Nobody THEN d.entrants[m][s] = None
                      ELSE /\ seat + 1 \in 1..PoolSize(c.drawn, group)
                           /\ d.entrants[m][s] = PoolMembers(c.drawn, group)[seat + 1]
                           /\ d.entrants[m][s] \in 0..(c.drawn - 1)
             /\ \A group \in SlamPools : \A m \in DOMAIN PoolDraw(c, group), s \in Sides :
                  LET seat == PoolDraw(c, group)[m][s]
                  IN  draw[m][s] = IF seat = Nobody THEN Nobody ELSE PoolMembers(c.drawn, group)[seat + 1]
             /\ d.byes = {}
<1> DEFINE draw == Draw("GRAND_SLAM", c.drawn)
           d == DrawOf(c)
           n == c.drawn
           poolDraw(group) == Elimination(PoolSize(n, group), "POOL", group)
           pool == [group \in SlamPools |-> Seated(poolDraw(group), PoolMembers(n, group))]
           inPools == UNION {DOMAIN pool[group] : group \in DOMAIN pool}
           pools == [m \in inPools |-> pool[m.group][m]]
<1>1. /\ d = Generated("GRAND_SLAM", draw, c.registered)
      /\ draw = WithPlaceholders(pools, SlamOthers)
      /\ d.matches = DOMAIN draw
  <2>1. draw = GrandSlam(n)
    BY DEF Draw
  <2>2. draw = WithPlaceholders(pools, SlamOthers)
    BY <2>1 DEF GrandSlam, SlamOthers
  <2>3. d = Generated("GRAND_SLAM", draw, c.registered)
    BY DEF DrawOf, IsSlam
  <2> QED
    BY <2>2, <2>3 DEF Generated
<1>2. \A m \in SlamOthers : m.phase \notin {"POOL", "MAIN"}
  BY DEF SlamOthers, RepechageMatches, Repechage, Bronze, Semifinal, Final, Placeholder, MatchId
<1>3. \A group \in SlamPools :
        /\ DOMAIN pool[group] = DOMAIN PoolDraw(c, group)
        /\ \A m \in DOMAIN PoolDraw(c, group) :
             /\ m.phase = "POOL" /\ m.group = group
             /\ pool[group][m] = LET seat(place) == IF place = Nobody THEN Nobody
                                                    ELSE PoolMembers(n, group)[place + 1]
                                 IN  <<seat(poolDraw(group)[m][1]), seat(poolDraw(group)[m][2])>>
  BY PoolBracket DEF Seated, PoolDraw
<1>4. inPools = UNION {DOMAIN PoolDraw(c, group) : group \in SlamPools}
  BY <1>3
<1>5. DOMAIN draw = inPools \cup SlamOthers /\ \A m \in SlamOthers : draw[m] = Open
  <2>1. \A m \in inPools : m.phase = "POOL"
    BY <1>3, <1>4
  <2> HIDE DEF inPools
  <2>2. DOMAIN pools = inPools
    OBVIOUS
  <2> HIDE DEF pools, draw
  <2> QED
    BY <1>1, <1>2, <2>1, <2>2 DEF WithPlaceholders
<1>6. ASSUME NEW group \in SlamPools, NEW m \in DOMAIN PoolDraw(c, group)
      PROVE  m \in DOMAIN draw /\ draw[m] = pool[group][m]
  <2>1. m \in inPools /\ m.group = group
    BY <1>3, <1>4
  <2>2. pools[m] = pool[group][m] /\ DOMAIN pools = inPools
    BY <2>1
  <2> HIDE DEF pools, draw, pool, inPools
  <2> QED
    BY <1>1, <2>1, <2>2 DEF WithPlaceholders
<1> HIDE DEF draw, d, pools, inPools, pool
<1>7. \A m \in DOMAIN draw :
        /\ m \in d.byes => m.phase = "MAIN"
        /\ \A s \in Sides : d.entrants[m][s] = IF draw[m][s] = Nobody THEN None ELSE draw[m][s]
  BY <1>1 DEF Generated, WalkedOver
<1>8. ASSUME NEW m \in SlamOthers, NEW s \in Sides
      PROVE  d.entrants[m][s] = None
  <2>1. draw[m][s] = Nobody
    BY <1>5 DEF Open, Sides
  <2> QED
    BY <1>5, <1>7, <2>1
<1>9. \A group \in SlamPools : \A m \in DOMAIN PoolDraw(c, group), s \in Sides :
        LET seat == PoolDraw(c, group)[m][s]
        IN  draw[m][s] = IF seat = Nobody THEN Nobody ELSE PoolMembers(c.drawn, group)[seat + 1]
  BY <1>3, <1>6 DEF PoolDraw, Sides
<1>10. ASSUME NEW group \in SlamPools, NEW m \in DOMAIN PoolDraw(c, group), NEW s \in Sides
      PROVE  LET seat == PoolDraw(c, group)[m][s]
             IN  IF seat = Nobody THEN d.entrants[m][s] = None
                 ELSE /\ seat + 1 \in 1..PoolSize(c.drawn, group)
                      /\ d.entrants[m][s] = PoolMembers(c.drawn, group)[seat + 1]
                      /\ d.entrants[m][s] \in 0..(c.drawn - 1)
  <2> DEFINE seat == PoolDraw(c, group)[m][s]
             size == PoolSize(c.drawn, group)
  <2>1. draw[m][s] = IF seat = Nobody THEN Nobody ELSE PoolMembers(c.drawn, group)[seat + 1]
    BY <1>9
  <2>2. n \in Nat /\ size \in Nat /\ size > 1
    BY PoolBracket
  <2>3. seat # Nobody => seat \in 0..(size - 1)
    BY <2>2, DrawnFrom DEF PoolDraw, Sides
  <2> HIDE DEF seat, size
  <2>4. CASE seat = Nobody
    BY <1>6, <1>7, <2>1, <2>4 DEF seat
  <2>5. CASE seat # Nobody
    <3>1. seat + 1 \in 1..size
      BY <2>2, <2>3, <2>5
    <3>2. PoolMembers(n, group)[seat + 1] \in 0..(n - 1)
      BY <2>2, <3>1, SlamMembers DEF size
    <3>3. PoolMembers(n, group)[seat + 1] # Nobody
      BY <3>2 DEF Nobody
    <3>4. draw[m][s] = PoolMembers(n, group)[seat + 1]
      BY <2>1, <2>5
    <3>5. d.entrants[m][s] = PoolMembers(n, group)[seat + 1]
      BY <1>6, <1>7, <3>3, <3>4
    <3> QED
      BY <2>5, <3>1, <3>2, <3>5 DEF seat, size
  <2> QED
    BY <2>4, <2>5
<1>11. d.byes = {}
  <2>1. \A m \in DOMAIN draw : m.phase # "MAIN"
    BY <1>2, <1>3, <1>4, <1>5
  <2>2. d.byes \subseteq DOMAIN draw
    BY <1>1 DEF Generated
  <2> QED
    BY <1>7, <2>1, <2>2
<1> QED
  BY <1>1, <1>2, <1>4, <1>5, <1>8, <1>9, <1>10, <1>11 DEF d, draw

(* Where its winners and losers go.                                        *)
LEMMA SlamRoutes ==
  ASSUME NEW c, IsCategory(c), IsSlam(c)
  PROVE  LET d == DrawOf(c)
         IN  /\ \A group \in SlamPools : \A m \in DOMAIN PoolDraw(c, group) :
                  IF m.round < RoundsOfPool(c, group)
                  THEN /\ d.winnerTo[m] = MatchId("POOL", group, m.round + 1, (m.position + 1) \div 2)
                       /\ d.winnerSide[m] = IF m.position % 2 = 1 THEN 1 ELSE 2
                       /\ d.loserTo[m] = None /\ d.loserSide[m] = 1
                  ELSE /\ m = MatchId("POOL", group, RoundsOfPool(c, group), 1)
                       /\ d.winnerTo[m] = Semifinal(IF TopPool(group) THEN 1 ELSE 2)
                       /\ d.winnerSide[m] = SideOfPool(group)
                       /\ d.loserTo[m] = Repechage(HalfOf(group)) /\ d.loserSide[m] = SideOfPool(group)
             /\ \A p \in {1, 2} :
                  /\ d.winnerTo[Semifinal(p)] = Final /\ d.winnerSide[Semifinal(p)] = p
                  /\ d.loserTo[Semifinal(p)] = Bronze(CrossHalf(p)) /\ d.loserSide[Semifinal(p)] = 2
             /\ \A half \in Halves :
                  /\ d.winnerTo[Repechage(half)] = Bronze(half) /\ d.winnerSide[Repechage(half)] = 1
                  /\ d.winnerTo[Bronze(half)] = None /\ d.winnerSide[Bronze(half)] = 1
             /\ d.winnerTo[Final] = None /\ d.winnerSide[Final] = 1
             /\ \A m \in RepechageMatches \cup {Final} : d.loserTo[m] = None /\ d.loserSide[m] = 1
<1> DEFINE draw == Draw("GRAND_SLAM", c.drawn)
           d == DrawOf(c)
<1>1. /\ d = Generated("GRAND_SLAM", draw, c.registered) /\ d.matches = DOMAIN draw
      /\ d.matches = (UNION {DOMAIN PoolDraw(c, group) : group \in SlamPools}) \cup SlamOthers
      /\ \A m \in SlamOthers : m.phase # "POOL"
  BY SlamMatches
<1>2. \A m \in DOMAIN draw :
        /\ d.winnerTo[m] = Target(WinnerInGrandSlam(draw, m)).match
        /\ d.winnerSide[m] = Target(WinnerInGrandSlam(draw, m)).side
        /\ d.loserTo[m] = Target(LoserInGrandSlam(draw, m)).match
        /\ d.loserSide[m] = Target(LoserInGrandSlam(draw, m)).side
  BY <1>1 DEF Generated, WinnerRoutes, LoserRoutes
<1> HIDE DEF draw, d
<1>3. ASSUME NEW match \in DOMAIN draw, NEW side
      PROVE  /\ Target(Found(draw, Route(match, side))).match = match
             /\ Target(Found(draw, Route(match, side))).side = side
  <2>1. Found(draw, Route(match, side)) = {Route(match, side)}
    BY DEF Found, Route
  <2>2. Target({Route(match, side)}) = Route(match, side)
    BY DEF Target, NoRoutes
  <2> QED
    BY <2>1, <2>2 DEF Route
<1>4. Target(NoRoutes).match = None /\ Target(NoRoutes).side = 1
  BY DEF Target, Route
<1>5. SlamOthers \subseteq DOMAIN draw
  BY <1>1
<1>6. /\ \A p : Semifinal(p).phase = "KNOCKOUT_SF" /\ Semifinal(p).position = p
      /\ \A h : /\ Repechage(h).phase = "REPECHAGE" /\ Repechage(h).group = h
                /\ Bronze(h).phase = "KNOCKOUT_BRONZE" /\ Bronze(h).group = h
      /\ Final.phase = "KNOCKOUT_FINAL"
      /\ \A m : m.phase # "POOL" => ~IsPoolFinal(draw, m)
  BY DEF Semifinal, Final, Repechage, Bronze, Placeholder, MatchId, IsPoolFinal
<1>7. ASSUME NEW group \in SlamPools, NEW m \in DOMAIN PoolDraw(c, group)
      PROVE  IF m.round < RoundsOfPool(c, group)
             THEN /\ d.winnerTo[m] = MatchId("POOL", group, m.round + 1, (m.position + 1) \div 2)
                  /\ d.winnerSide[m] = IF m.position % 2 = 1 THEN 1 ELSE 2
                  /\ d.loserTo[m] = None /\ d.loserSide[m] = 1
             ELSE /\ m = MatchId("POOL", group, RoundsOfPool(c, group), 1)
                  /\ d.winnerTo[m] = Semifinal(IF TopPool(group) THEN 1 ELSE 2)
                  /\ d.winnerSide[m] = SideOfPool(group)
                  /\ d.loserTo[m] = Repechage(HalfOf(group)) /\ d.loserSide[m] = SideOfPool(group)
  <2> DEFINE total == RoundsOfPool(c, group)
  <2>1. /\ m \in DOMAIN draw /\ m.phase = "POOL" /\ m.group = group
        /\ m.round \in 1..total /\ total \in Nat
        /\ m = MatchId("POOL", group, m.round, m.position)
        /\ m.round = total => m.position = 1
    BY <1>1, PoolBracket
  <2>2. IsPoolFinal(draw, m) <=> m.round = total
    <3>1. ASSUME NEW l \in DOMAIN draw, l.phase = "POOL", l.group = group
          PROVE  l.round \in 1..total
      <4>1. PICK other \in SlamPools : l \in DOMAIN PoolDraw(c, other)
        BY <1>1, <3>1
      <4>2. other = group
        BY <3>1, <4>1, PoolBracket
      <4> QED
        BY <4>1, <4>2, PoolBracket
    <3>2. /\ MatchId("POOL", group, total, 1) \in DOMAIN draw
          /\ MatchId("POOL", group, total, 1).phase = "POOL"
          /\ MatchId("POOL", group, total, 1).group = group
          /\ MatchId("POOL", group, total, 1).round = total
      <4>1. MatchId("POOL", group, total, 1) \in DOMAIN draw
        BY <1>1, PoolBracket
      <4> QED
        BY <4>1 DEF MatchId
    <3> HIDE DEF total
    <3> QED
      BY <2>1, <3>1, <3>2 DEF IsPoolFinal
  <2>3. CASE m.round < total
    <3> DEFINE next == MatchId("POOL", group, m.round + 1, (m.position + 1) \div 2)
               side == IF m.position % 2 = 1 THEN 1 ELSE 2
    <3>1. NextSlot(m) = Route(next, side) /\ next \in DOMAIN draw
      <4>1. NextSlot(m) = Route(next, side) /\ NextSlot(m).match \in DOMAIN PoolDraw(c, group)
        BY <2>3, PoolBracket
      <4> QED
        BY <1>1, <4>1 DEF Route
    <3>2. WinnerInGrandSlam(draw, m) = Found(draw, Route(next, side)) /\ LoserInGrandSlam(draw, m) = NoRoutes
      <4>1. ~IsPoolFinal(draw, m)
        BY <2>1, <2>2, <2>3
      <4> HIDE DEF next, side
      <4> QED
        BY <2>1, <3>1, <4>1 DEF WinnerInGrandSlam, LoserInGrandSlam
    <3> HIDE DEF next, side
    <3>3. d.winnerTo[m] = next /\ d.winnerSide[m] = side /\ d.loserTo[m] = None /\ d.loserSide[m] = 1
      BY <1>2, <1>3, <1>4, <2>1, <3>1, <3>2
    <3> QED
      BY <2>3, <3>3 DEF next, side
  <2>4. CASE ~(m.round < total)
    <3>1. m.round = total /\ m.position = 1
      BY <2>1, <2>4
    <3>2. m = MatchId("POOL", group, total, 1)
      BY <2>1, <3>1
    <3>3. /\ WinnerInGrandSlam(draw, m)
               = Found(draw, Route(Semifinal(IF TopPool(group) THEN 1 ELSE 2), SideOfPool(group)))
          /\ LoserInGrandSlam(draw, m) = Found(draw, Route(Repechage(HalfOf(group)), SideOfPool(group)))
      BY <2>1, <2>2, <3>1 DEF WinnerInGrandSlam, LoserInGrandSlam, HalfOf
    <3>4. /\ Semifinal(IF TopPool(group) THEN 1 ELSE 2) \in DOMAIN draw
          /\ Repechage(HalfOf(group)) \in DOMAIN draw
      BY <1>5 DEF SlamOthers, RepechageMatches, Halves, HalfOf
    <3>5. /\ d.winnerTo[m] = Semifinal(IF TopPool(group) THEN 1 ELSE 2) /\ d.winnerSide[m] = SideOfPool(group)
          /\ d.loserTo[m] = Repechage(HalfOf(group)) /\ d.loserSide[m] = SideOfPool(group)
      <4>1. /\ Target(WinnerInGrandSlam(draw, m)).match = Semifinal(IF TopPool(group) THEN 1 ELSE 2)
            /\ Target(WinnerInGrandSlam(draw, m)).side = SideOfPool(group)
        BY <1>3, <3>3, <3>4
      <4>2. /\ Target(LoserInGrandSlam(draw, m)).match = Repechage(HalfOf(group))
            /\ Target(LoserInGrandSlam(draw, m)).side = SideOfPool(group)
        BY <1>3, <3>3, <3>4
      <4> QED
        BY <1>2, <2>1, <4>1, <4>2
    <3> QED
      BY <2>4, <3>2, <3>5
  <2> QED
    BY <2>3, <2>4
<1>8. ASSUME NEW p \in {1, 2}
      PROVE  /\ d.winnerTo[Semifinal(p)] = Final /\ d.winnerSide[Semifinal(p)] = p
             /\ d.loserTo[Semifinal(p)] = Bronze(CrossHalf(p)) /\ d.loserSide[Semifinal(p)] = 2
  <2>1. /\ Semifinal(p) \in DOMAIN draw /\ Final \in DOMAIN draw /\ Bronze(CrossHalf(p)) \in DOMAIN draw
    BY <1>5 DEF SlamOthers, RepechageMatches, CrossHalf, Halves
  <2>2. /\ WinnerInGrandSlam(draw, Semifinal(p)) = Found(draw, Route(Final, p))
        /\ LoserInGrandSlam(draw, Semifinal(p)) = Found(draw, Route(Bronze(CrossHalf(p)), 2))
    BY <1>6 DEF WinnerInGrandSlam, LoserInGrandSlam
  <2> QED
    BY <1>2, <1>3, <2>1, <2>2
<1>9. ASSUME NEW half \in Halves
      PROVE  /\ d.winnerTo[Repechage(half)] = Bronze(half) /\ d.winnerSide[Repechage(half)] = 1
             /\ d.winnerTo[Bronze(half)] = None /\ d.winnerSide[Bronze(half)] = 1
             /\ d.loserTo[Repechage(half)] = None /\ d.loserSide[Repechage(half)] = 1
             /\ d.loserTo[Bronze(half)] = None /\ d.loserSide[Bronze(half)] = 1
  <2>1. Repechage(half) \in DOMAIN draw /\ Bronze(half) \in DOMAIN draw
    BY <1>5 DEF SlamOthers, RepechageMatches
  <2>2. /\ WinnerInGrandSlam(draw, Repechage(half)) = Found(draw, Route(Bronze(half), 1))
        /\ LoserInGrandSlam(draw, Repechage(half)) = NoRoutes
        /\ WinnerInGrandSlam(draw, Bronze(half)) = NoRoutes
        /\ LoserInGrandSlam(draw, Bronze(half)) = NoRoutes
    BY <1>6 DEF WinnerInGrandSlam, LoserInGrandSlam
  <2> QED
    BY <1>2, <1>3, <1>4, <2>1, <2>2
<1>10. d.winnerTo[Final] = None /\ d.winnerSide[Final] = 1 /\ d.loserTo[Final] = None /\ d.loserSide[Final] = 1
  <2>1. Final \in DOMAIN draw
    BY <1>5 DEF SlamOthers
  <2>2. WinnerInGrandSlam(draw, Final) = NoRoutes /\ LoserInGrandSlam(draw, Final) = NoRoutes
    BY <1>6 DEF WinnerInGrandSlam, LoserInGrandSlam
  <2> QED
    BY <1>2, <1>4, <2>1, <2>2
<1>11. \A m \in RepechageMatches \cup {Final} : d.loserTo[m] = None /\ d.loserSide[m] = 1
  BY <1>9, <1>10 DEF RepechageMatches
<1> QED
  BY <1>7, <1>8, <1>9, <1>10, <1>11 DEF d

(* The last match of a pool.                                               *)
LastOfPool(c, group) == MatchId("POOL", group, RoundsOfPool(c, group), 1)

(* The ways from one match to another.                                     *)
LEMMA SlamLeads ==
  ASSUME NEW c, IsCategory(c), IsSlam(c), NEW m \in DrawOf(c).matches
  PROVE  LET d == DrawOf(c)
         IN  /\ d.winnerTo[m] # None =>
                  \/ \E group \in SlamPools :
                       /\ m \in DOMAIN PoolDraw(c, group) /\ m.round < RoundsOfPool(c, group)
                       /\ d.winnerTo[m] = MatchId("POOL", group, m.round + 1, (m.position + 1) \div 2)
                       /\ d.winnerSide[m] = IF m.position % 2 = 1 THEN 1 ELSE 2
                       /\ d.loserTo[m] = None
                  \/ \E group \in SlamPools :
                       /\ m = LastOfPool(c, group)
                       /\ d.winnerTo[m] = Semifinal(IF TopPool(group) THEN 1 ELSE 2)
                       /\ d.winnerSide[m] = SideOfPool(group)
                  \/ \E p \in {1, 2} : m = Semifinal(p) /\ d.winnerTo[m] = Final /\ d.winnerSide[m] = p
                  \/ \E half \in Halves :
                       m = Repechage(half) /\ d.winnerTo[m] = Bronze(half) /\ d.winnerSide[m] = 1
             /\ d.loserTo[m] # None =>
                  \/ \E group \in SlamPools :
                       /\ m = LastOfPool(c, group) /\ m \in DOMAIN PoolDraw(c, group)
                       /\ m.round = RoundsOfPool(c, group)
                       /\ d.loserTo[m] = Repechage(HalfOf(group)) /\ d.loserSide[m] = SideOfPool(group)
                  \/ \E p \in {1, 2} :
                       m = Semifinal(p) /\ d.loserTo[m] = Bronze(CrossHalf(p)) /\ d.loserSide[m] = 2
             /\ d.winnerTo[m] \in d.matches \cup {None} /\ d.winnerSide[m] \in Sides
             /\ d.loserTo[m] \in d.matches \cup {None} /\ d.loserSide[m] \in Sides
<1> DEFINE d == DrawOf(c)
<1>1. d.matches = (UNION {DOMAIN PoolDraw(c, group) : group \in SlamPools}) \cup SlamOthers
  BY SlamMatches
<1>2. /\ \A half \in Halves : Repechage(half) \in d.matches /\ Bronze(half) \in d.matches
      /\ Semifinal(1) \in d.matches /\ Semifinal(2) \in d.matches /\ Final \in d.matches
  BY <1>1 DEF SlamOthers, RepechageMatches
<1>3. CASE \E group \in SlamPools : m \in DOMAIN PoolDraw(c, group)
  <2>1. PICK group \in SlamPools : m \in DOMAIN PoolDraw(c, group)
    BY <1>3
  <2>2. CASE m.round < RoundsOfPool(c, group)
    <3> DEFINE next == MatchId("POOL", group, m.round + 1, (m.position + 1) \div 2)
               side == IF m.position % 2 = 1 THEN 1 ELSE 2
    <3>1. d.winnerTo[m] = next /\ d.winnerSide[m] = side /\ d.loserTo[m] = None /\ d.loserSide[m] = 1
      BY <2>1, <2>2, SlamRoutes
    <3>2. next \in d.matches /\ side \in Sides
      <4>1. NextSlot(m) = Route(next, side) /\ NextSlot(m).match \in DOMAIN PoolDraw(c, group)
        BY <2>1, <2>2, PoolBracket
      <4>2. side \in Sides
        BY DEF Sides
      <4> QED
        BY <1>1, <4>1, <4>2 DEF Route
    <3> QED
      BY <2>1, <2>2, <3>1, <3>2 DEF Sides
  <2>3. CASE ~(m.round < RoundsOfPool(c, group))
    <3>1. /\ m = LastOfPool(c, group)
          /\ d.winnerTo[m] = Semifinal(IF TopPool(group) THEN 1 ELSE 2) /\ d.winnerSide[m] = SideOfPool(group)
          /\ d.loserTo[m] = Repechage(HalfOf(group)) /\ d.loserSide[m] = SideOfPool(group)
      BY <2>1, <2>3, SlamRoutes DEF LastOfPool
    <3>2. d.winnerTo[m] \in d.matches /\ d.loserTo[m] \in d.matches /\ SideOfPool(group) \in Sides
      BY <1>2, <3>1 DEF HalfOf, Halves, SideOfPool, Sides
    <3>3. m.round = RoundsOfPool(c, group)
      BY <3>1 DEF LastOfPool, MatchId
    <3> QED
      BY <2>1, <3>1, <3>2, <3>3
  <2> QED
    BY <2>2, <2>3
<1>4. CASE m \in {Semifinal(1), Semifinal(2)}
  <2>1. PICK p \in {1, 2} : m = Semifinal(p)
    BY <1>4
  <2>2. /\ d.winnerTo[m] = Final /\ d.winnerSide[m] = p
        /\ d.loserTo[m] = Bronze(CrossHalf(p)) /\ d.loserSide[m] = 2
    BY <2>1, SlamRoutes
  <2>3. CrossHalf(p) \in Halves
    BY DEF CrossHalf, Halves
  <2> QED
    BY <1>2, <2>1, <2>2, <2>3 DEF Sides
<1>5. CASE m \in RepechageMatches \cup {Final}
  <2>1. d.loserTo[m] = None /\ d.loserSide[m] = 1
    BY <1>5, SlamRoutes
  <2>2. CASE \E half \in Halves : m = Repechage(half)
    BY <1>2, <2>1, <2>2, SlamRoutes DEF Sides
  <2>3. CASE m = Final \/ \E half \in Halves : m = Bronze(half)
    BY <2>1, <2>3, SlamRoutes DEF Sides
  <2> QED
    BY <1>5, <2>2, <2>3 DEF RepechageMatches
<1> QED
  BY <1>1, <1>3, <1>4, <1>5 DEF SlamOthers

LEMMA SlamIds ==
  /\ \A group, round, position : LET m == MatchId("POOL", group, round, position)
                                 IN  /\ m.phase = "POOL" /\ m.group = group
                                     /\ m.round = round /\ m.position = position
  /\ \A p : Semifinal(p).phase = "KNOCKOUT_SF" /\ Semifinal(p).position = p
  /\ \A h : /\ Repechage(h).phase = "REPECHAGE" /\ Repechage(h).group = h
            /\ Bronze(h).phase = "KNOCKOUT_BRONZE" /\ Bronze(h).group = h
  /\ Final.phase = "KNOCKOUT_FINAL"
BY DEF MatchId, Semifinal, Repechage, Bronze, Final, Placeholder

(* A bye of a pool is no match that can be fought.                         *)
LEMMA PoolByesAreIdle ==
  ASSUME NEW c, IsCategory(c), IsSlam(c),
         NEW group \in SlamPools, NEW m \in DOMAIN PoolDraw(c, group), m \in Contested(DrawOf(c))
  PROVE  ~Unopposed(PoolSize(c.drawn, group), m)
<1> DEFINE d == DrawOf(c)
           size == PoolSize(c.drawn, group)
<1> SUFFICES ASSUME m.round = 1, FirstRound(size, m.position)[2] = Nobody
             PROVE  FALSE
  BY DEF Unopposed
<1>1. size \in Nat /\ size > 1 /\ m.phase = "POOL"
  BY PoolBracket
<1>2. d.entrants[m][2] = None
  <2>1. PoolDraw(c, group)[m][2] = Nobody
    BY <1>1, EliminationSlots DEF PoolDraw
  <2> QED
    BY <2>1, SlamMatches DEF Sides
<1>3. Fed(d, m, 2) /\ m \in d.matches /\ m # None
  BY CategoryTypes DEF Contested, Sides
<1>4. ASSUME NEW n \in d.matches, d.winnerTo[n] = m PROVE FALSE
  <2>1. PICK other \in SlamPools :
          /\ n \in DOMAIN PoolDraw(c, other)
          /\ m = MatchId("POOL", other, n.round + 1, (n.position + 1) \div 2)
    <3> HIDE DEF d
    <3> QED
      BY <1>1, <1>3, <1>4, SlamLeads, SlamIds DEF d
  <2>2. n.round \in Nat /\ n.round >= 1 /\ m.round = n.round + 1
    BY <2>1, PoolBracket, SlamIds
  <2> QED
    BY <2>2
<1>5. ASSUME NEW n \in d.matches, d.loserTo[n] = m PROVE FALSE
  BY <1>1, <1>3, <1>5, SlamLeads, SlamIds
<1> QED
  BY <1>2, <1>3, <1>4, <1>5 DEF Fed

LEMMA EntersPoolOnce ==
  ASSUME NEW c, IsCategory(c), IsSlam(c),
         NEW m \in Contested(DrawOf(c)), NEW l \in Contested(DrawOf(c)), NEW s \in Sides, NEW t \in Sides,
         DrawOf(c).entrants[m][s] # None, DrawOf(c).entrants[m][s] = DrawOf(c).entrants[l][t]
  PROVE  m = l /\ s = t
<1> DEFINE d == DrawOf(c)
           n == c.drawn
           seat(group, k, u) == PoolDraw(c, group)[k][u]
<1>1. ASSUME NEW k \in Contested(d), NEW u \in Sides, d.entrants[k][u] # None
      PROVE  \E group \in SlamPools :
               /\ k \in DOMAIN PoolDraw(c, group) /\ seat(group, k, u) # Nobody
               /\ seat(group, k, u) \in Int
               /\ seat(group, k, u) + 1 \in 1..PoolSize(n, group)
               /\ d.entrants[k][u] = PoolMembers(n, group)[seat(group, k, u) + 1]
  <2>1. k \in d.matches
    BY DEF Contested
  <2>2. PICK group \in SlamPools : k \in DOMAIN PoolDraw(c, group)
    BY <1>1, <2>1, SlamMatches
  <2>3. seat(group, k, u) # Nobody
    BY <1>1, <2>2, SlamMatches
  <2>4. /\ seat(group, k, u) + 1 \in 1..PoolSize(n, group)
        /\ d.entrants[k][u] = PoolMembers(n, group)[seat(group, k, u) + 1]
    BY <1>1, <2>2, <2>3, SlamMatches
  <2>5. PoolSize(n, group) \in Nat /\ PoolSize(n, group) > 1
    BY PoolBracket
  <2>6. seat(group, k, u) \in Int
    BY <2>2, <2>3, <2>5, DrawnFrom DEF PoolDraw, Sides
  <2> QED
    BY <2>2, <2>3, <2>4, <2>6
<1>2. PICK g \in SlamPools :
        /\ m \in DOMAIN PoolDraw(c, g) /\ seat(g, m, s) # Nobody /\ seat(g, m, s) \in Int
        /\ seat(g, m, s) + 1 \in 1..PoolSize(n, g)
        /\ d.entrants[m][s] = PoolMembers(n, g)[seat(g, m, s) + 1]
  BY <1>1
<1>3. PICK h \in SlamPools :
        /\ l \in DOMAIN PoolDraw(c, h) /\ seat(h, l, t) # Nobody /\ seat(h, l, t) \in Int
        /\ seat(h, l, t) + 1 \in 1..PoolSize(n, h)
        /\ d.entrants[l][t] = PoolMembers(n, h)[seat(h, l, t) + 1]
  BY <1>1
<1>4. c.drawn \in Nat /\ PoolSize(c.drawn, g) \in Nat /\ PoolSize(c.drawn, g) > 1
  BY PoolBracket
<1>5. g = h /\ seat(g, m, s) + 1 = seat(h, l, t) + 1
  <2> HIDE DEF seat
  <2>1. PoolMembers(n, g)[seat(g, m, s) + 1] = PoolMembers(n, h)[seat(h, l, t) + 1]
    BY <1>2, <1>3
  <2>2. \A group, other \in SlamPools :
          \A i \in 1..PoolSize(n, group), j \in 1..PoolSize(n, other) :
            PoolMembers(n, group)[i] = PoolMembers(n, other)[j] => group = other /\ i = j
    BY <1>4, SlamMembers
  <2> HIDE DEF n, d
  <2> QED
    BY <1>2, <1>3, <2>1, <2>2
<1>6. seat(g, m, s) = seat(g, l, t)
  <2> HIDE DEF seat
  <2> QED
    BY <1>2, <1>3, <1>5
<1>7. ~Unopposed(PoolSize(c.drawn, g), m) /\ ~Unopposed(PoolSize(c.drawn, g), l)
  BY <1>2, <1>3, <1>5, PoolByesAreIdle
<1> QED
  BY <1>2, <1>3, <1>4, <1>5, <1>6, <1>7, SeatedOnce DEF PoolDraw, Sides

(* The losers who go on have a slot of their own.                          *)
LEMMA SlamLosersFit ==
  ASSUME NEW c, IsCategory(c), IsSlam(c),
         NEW m \in DrawOf(c).matches, NEW l \in DrawOf(c).matches, m # l,
         DrawOf(c).loserTo[m] # None, DrawOf(c).loserTo[m] = DrawOf(c).loserTo[l]
  PROVE  LET d == DrawOf(c)
         IN  /\ d.loserSide[m] # d.loserSide[l]
             /\ \A o \in d.matches : d.loserTo[o] = d.loserTo[m] => o \in {m, l}
<1> DEFINE d == DrawOf(c)
           FromLast(k, group) ==
             /\ k = LastOfPool(c, group)
             /\ d.loserTo[k] = Repechage(HalfOf(group)) /\ d.loserSide[k] = SideOfPool(group)
           FromSemifinal(k, p) == k = Semifinal(p) /\ d.loserTo[k] = Bronze(CrossHalf(p))
<1>1. \A k \in d.matches : d.loserTo[k] # None =>
        (\E group \in SlamPools : FromLast(k, group)) \/ (\E p \in {1, 2} : FromSemifinal(k, p))
  BY SlamLeads
<1>2. \A k \in d.matches : d.loserTo[k] = d.loserTo[m] => d.loserTo[k] # None
  OBVIOUS
<1> HIDE DEF d
<1>3. /\ \A half, other : Repechage(half) # Bronze(other)
      /\ \A half, other : Repechage(half) = Repechage(other) => half = other
      /\ \A half, other : Bronze(half) = Bronze(other) => half = other
  <2>1. \A half : /\ Repechage(half).phase = "REPECHAGE" /\ Repechage(half).group = half
                  /\ Bronze(half).phase = "KNOCKOUT_BRONZE" /\ Bronze(half).group = half
    BY SlamIds
  <2>2. "REPECHAGE" # "KNOCKOUT_BRONZE"
    OBVIOUS
  <2> QED
    BY <2>1, <2>2
<1>4. m \in d.matches /\ l \in d.matches /\ d.loserTo[m] = d.loserTo[l] /\ d.loserTo[m] # None
  BY DEF d
<1>5. ~(\E p \in {1, 2} : FromSemifinal(m, p))
  <2> SUFFICES ASSUME NEW p \in {1, 2}, FromSemifinal(m, p) PROVE FALSE
    OBVIOUS
  <2>1. d.loserTo[l] = Bronze(CrossHalf(p))
    BY <1>4
  <2>2. ~\E group \in SlamPools : FromLast(l, group)
    BY <1>3, <2>1
  <2>3. PICK q \in {1, 2} : FromSemifinal(l, q)
    BY <1>1, <1>4, <2>2
  <2>4. CrossHalf(p) = CrossHalf(q)
    BY <1>3, <2>1, <2>3
  <2>5. p = q
    BY <2>4 DEF CrossHalf
  <2> QED
    BY <2>3, <2>5
<1>6. PICK g \in SlamPools : FromLast(m, g)
  BY <1>1, <1>4, <1>5
<1>7. ASSUME NEW k \in d.matches, d.loserTo[k] = d.loserTo[m]
      PROVE  \E h \in SlamPools : HalfOf(h) = HalfOf(g) /\ FromLast(k, h)
  <2>1. PICK h \in SlamPools : FromLast(k, h)
    BY <1>1, <1>3, <1>4, <1>6, <1>7
  <2>2. HalfOf(h) = HalfOf(g)
    BY <1>3, <1>6, <1>7, <2>1
  <2> QED
    BY <2>1, <2>2
<1>8. \A f, h \in SlamPools :
        HalfOf(f) = HalfOf(g) /\ HalfOf(h) = HalfOf(g) => f = g \/ h = g \/ f = h
  BY DEF SlamPools, HalfOf, TopPool
<1>9. \A h \in SlamPools : HalfOf(h) = HalfOf(g) /\ h # g => SideOfPool(h) # SideOfPool(g)
  BY DEF SlamPools, HalfOf, TopPool, SideOfPool
<1>10. PICK h \in SlamPools : HalfOf(h) = HalfOf(g) /\ FromLast(l, h)
  BY <1>4, <1>7
<1>11. h # g
  BY <1>6, <1>10
<1>12. d.loserSide[m] # d.loserSide[l]
  BY <1>6, <1>9, <1>10, <1>11
<1>13. ASSUME NEW o \in d.matches, d.loserTo[o] = d.loserTo[m]
       PROVE  o \in {m, l}
  <2>1. PICK f \in SlamPools : HalfOf(f) = HalfOf(g) /\ FromLast(o, f)
    BY <1>7, <1>13
  <2>2. f = g \/ f = h
    BY <1>8, <1>10, <1>11, <2>1
  <2> QED
    BY <1>6, <1>10, <2>1, <2>2
<1> QED
  BY <1>12, <1>13 DEF d

(* A grand slam of any size is a full draw.                                *)
LEMMA SlamIsFull ==
  ASSUME NEW c, IsCategory(c), IsSlam(c)
  PROVE  FullDraw(c, DrawOf(c))
<1> DEFINE d == DrawOf(c)
<1>1. /\ d.matches = (UNION {DOMAIN PoolDraw(c, group) : group \in SlamPools}) \cup SlamOthers
      /\ \A m \in SlamOthers : m.phase # "POOL" /\ \A s \in Sides : d.entrants[m][s] = None
      /\ d.byes = {}
  BY SlamMatches
<1>2. /\ \A half \in Halves : Repechage(half) \in SlamOthers /\ Bronze(half) \in SlamOthers
      /\ Semifinal(1) \in SlamOthers /\ Semifinal(2) \in SlamOthers /\ Final \in SlamOthers
      /\ \A group : HalfOf(group) \in Halves
      /\ \A p : CrossHalf(p) \in Halves
  BY DEF SlamOthers, RepechageMatches, HalfOf, CrossHalf, Halves
<1>3. \A m \in d.matches : d.loserTo[m] # None =>
        /\ d.loserTo[m] \in SlamOthers /\ d.loserTo[m].phase \in {"REPECHAGE", "KNOCKOUT_BRONZE"}
        /\ m.phase \in {"POOL", "KNOCKOUT_SF"} /\ d.loserSide[m] \in Sides
        /\ \A s \in Sides : d.entrants[m][s] = None
  <2> SUFFICES ASSUME NEW m \in d.matches, d.loserTo[m] # None
               PROVE  /\ d.loserTo[m] \in SlamOthers /\ d.loserTo[m].phase \in {"REPECHAGE", "KNOCKOUT_BRONZE"}
                      /\ m.phase \in {"POOL", "KNOCKOUT_SF"} /\ d.loserSide[m] \in Sides
                      /\ \A s \in Sides : d.entrants[m][s] = None
    OBVIOUS
  <2>1. CASE \E group \in SlamPools :
               /\ m \in DOMAIN PoolDraw(c, group) /\ m.round = RoundsOfPool(c, group)
               /\ d.loserTo[m] = Repechage(HalfOf(group))
    <3>1. PICK group \in SlamPools : /\ m \in DOMAIN PoolDraw(c, group) /\ m.round = RoundsOfPool(c, group)
                                     /\ d.loserTo[m] = Repechage(HalfOf(group))
      BY <2>1
    <3>2. PoolSize(c.drawn, group) \in Nat /\ PoolSize(c.drawn, group) >= 4 /\ m.phase = "POOL"
      BY <3>1, PoolBracket
    <3>3. \A s \in Sides : PoolDraw(c, group)[m][s] = Nobody
      BY <3>1, <3>2, FinalIsOpen DEF PoolDraw, RoundsOfPool, Sides
    <3>4. \A s \in Sides : d.entrants[m][s] = None
      <4>1. \A s \in Sides : PoolDraw(c, group)[m][s] = Nobody => d.entrants[m][s] = None
        BY <3>1, SlamMatches
      <4> QED
        BY <3>3, <4>1
    <3>5. d.loserTo[m] \in SlamOthers /\ d.loserTo[m].phase = "REPECHAGE"
      BY <1>2, <3>1, SlamIds
    <3> QED
      BY <3>2, <3>4, <3>5, SlamLeads
  <2>2. CASE \E p \in {1, 2} : m = Semifinal(p) /\ d.loserTo[m] = Bronze(CrossHalf(p))
    <3>1. PICK p \in {1, 2} : m = Semifinal(p) /\ d.loserTo[m] = Bronze(CrossHalf(p))
      BY <2>2
    <3>2. /\ d.loserTo[m] \in SlamOthers /\ d.loserTo[m].phase = "KNOCKOUT_BRONZE"
          /\ m.phase = "KNOCKOUT_SF" /\ m \in SlamOthers
      BY <1>2, <3>1, SlamIds
    <3> QED
      BY <1>1, <3>2, SlamLeads
  <2> QED
    BY <2>1, <2>2, SlamLeads
<1>4. Bracket(c, d)!OneLoserPerSlot
  <2>1. ASSUME NEW m \in d.matches, NEW l \in d.matches, l = d.winnerTo[m], d.loserTo[l] # None,
               \A s \in Sides : d.entrants[l][s] # None
        PROVE  m \in d.byes
    BY <1>3, <2>1 DEF Sides
  <2>2. ASSUME NEW m \in d.matches, NEW s \in Sides, d.loserTo[m] # None
        PROVE  d.entrants[d.loserTo[m]][s] = None
    BY <1>1, <1>3, <2>2
  <2>3. ASSUME NEW m \in d.matches, NEW l \in d.matches, m # l, d.loserTo[m] # None, d.loserTo[m] = d.loserTo[l]
        PROVE  /\ d.loserSide[m] \in Sides /\ d.loserSide[l] \in Sides /\ d.loserSide[m] # d.loserSide[l]
               /\ \A o \in d.matches : d.loserTo[o] = d.loserTo[m] => o \in {m, l}
    BY <1>3, <2>3, SlamLosersFit
  <2> HIDE DEF d
  <2> QED
    BY <2>1, <2>2, <2>3 DEF Bracket!OneLoserPerSlot, Bracket!FirstFree, Bracket!Sides, Sides
<1>5. EnteredOnce(d)
  <2>1. \A m, l \in Contested(d), s, t \in Sides :
          d.entrants[m][s] # None /\ d.entrants[m][s] = d.entrants[l][t] => m = l /\ s = t
    BY EntersPoolOnce
  <2>2. ASSUME NEW m \in Contested(d), d.winnerTo[m] # None
        PROVE  d.entrants[d.winnerTo[m]][d.winnerSide[m]] = None
    <3>1. m \in d.matches
      BY DEF Contested
    <3>2. d.winnerTo[m] \in SlamOthers => d.entrants[d.winnerTo[m]][d.winnerSide[m]] = None
      BY <1>1, <3>1, SlamLeads
    <3>3. CASE d.winnerTo[m] \notin SlamOthers
      <4> DEFINE side == IF m.position % 2 = 1 THEN 1 ELSE 2
      <4>1. PICK group \in SlamPools :
              /\ m \in DOMAIN PoolDraw(c, group) /\ m.round < RoundsOfPool(c, group)
              /\ d.winnerTo[m] = MatchId("POOL", group, m.round + 1, (m.position + 1) \div 2)
              /\ d.winnerSide[m] = side
        <5> HIDE DEF d
        <5>1. d = DrawOf(c)
          BY DEF d
        <5> QED
          BY <1>2, <2>2, <3>1, <3>3, <5>1, SlamLeads
      <4>2. PoolSize(c.drawn, group) \in Nat /\ PoolSize(c.drawn, group) > 1 /\ side \in Sides
        BY PoolBracket DEF Sides
      <4>3. ~Unopposed(PoolSize(c.drawn, group), m)
        BY <4>1, PoolByesAreIdle
      <4>4. PoolDraw(c, group)[d.winnerTo[m]][side] = Nobody
        BY <4>1, <4>2, <4>3, NextIsOpen DEF PoolDraw, RoundsOfPool
      <4>5. d.winnerTo[m] \in DOMAIN PoolDraw(c, group)
        BY <4>1, PoolBracket DEF Route
      <4> HIDE DEF side
      <4> QED
        BY <4>1, <4>2, <4>4, <4>5, SlamMatches
    <3> QED
      BY <3>2, <3>3
  <2> HIDE DEF d
  <2> QED
    BY <1>1, <2>1, <2>2 DEF EnteredOnce
<1>6. OneConsolation(d)
  <2>1. ASSUME NEW m \in d.matches, m.phase \in {"REPECHAGE", "KNOCKOUT_BRONZE"}
        PROVE  /\ \A s \in Sides : d.entrants[m][s] = None
               /\ d.loserTo[m] = None
               /\ d.winnerTo[m] # None =>
                    d.winnerTo[m] \in d.matches /\ d.winnerTo[m].phase = "KNOCKOUT_BRONZE"
    <3>1. m \in SlamOthers
      BY <1>1, <2>1, PoolBracket
    <3>2. d.loserTo[m] = None
      BY <1>3, <2>1
    <3>3. ASSUME d.winnerTo[m] # None
          PROVE  \E half \in Halves : d.winnerTo[m] = Bronze(half)
      <4>1. /\ \A group \in SlamPools : m \notin DOMAIN PoolDraw(c, group) /\ m # LastOfPool(c, group)
            /\ \A p \in {1, 2} : m # Semifinal(p)
        BY <2>1, PoolBracket, SlamIds DEF LastOfPool
      <4> HIDE DEF d
      <4> QED
        BY <3>3, <4>1, SlamLeads DEF d
    <3>4. d.winnerTo[m] # None => d.winnerTo[m] \in d.matches
      BY SlamLeads
    <3> QED
      BY <1>1, <3>1, <3>2, <3>3, <3>4, SlamIds
  <2>2. ASSUME NEW m \in d.matches, m.phase \notin {"REPECHAGE", "KNOCKOUT_BRONZE"}, d.winnerTo[m] # None
        PROVE  d.winnerTo[m].phase \notin {"REPECHAGE", "KNOCKOUT_BRONZE"}
    <3>1. ~(\E half \in Halves : m = Repechage(half))
      BY <2>2, SlamIds
    <3> HIDE DEF d
    <3>2. d = DrawOf(c)
      BY DEF d
    <3> QED
      BY <2>2, <3>1, <3>2, SlamLeads, SlamIds
  <2>3. \A m \in d.matches : d.loserTo[m] # None => d.loserTo[m] \in d.matches
    BY <1>1, <1>3
  <2>4. \A m : m \in Consolation(d) <=> m \in d.matches /\ m.phase \in {"REPECHAGE", "KNOCKOUT_BRONZE"}
    BY DEF Consolation
  <2>5. None \notin d.matches
    BY CategoryTypes
  <2> HIDE DEF d
  <2>6. \A m \in Consolation(d) :
          /\ \A s \in Sides : d.entrants[m][s] = None
          /\ d.loserTo[m] = None
          /\ d.winnerTo[m] \in Consolation(d) \cup {None}
    BY <2>1, <2>4
  <2>7. \A m \in d.matches : m \notin Consolation(d) =>
          /\ d.loserTo[m] \in Consolation(d) \cup {None}
          /\ d.winnerTo[m] \notin Consolation(d)
    BY <1>3, <2>2, <2>3, <2>4, <2>5
  <2> QED
    BY <2>6, <2>7 DEF OneConsolation
<1> QED
  BY <1>4, <1>5, <1>6 DEF FullDraw

LEMMA SlamIsADraw ==
  ASSUME None \notin Int, NEW c, IsCategory(c), IsSlam(c)
  PROVE  /\ Bracket(c, DrawOf(c))!DrawTypes
         /\ Bracket(c, DrawOf(c))!OneFeederPerSlot
         /\ Bracket(c, DrawOf(c))!ByesAdvanced
<1> DEFINE d == DrawOf(c)
           n == c.drawn
           seats == 0..(n - 1) \cup {None}
<1>1. /\ d.byes = {} /\ None \notin 0..(n - 1)
      /\ d.matches = (UNION {DOMAIN PoolDraw(c, group) : group \in SlamPools}) \cup SlamOthers
  <2>1. n \in Nat
    BY CategoryTypes
  <2> QED
    BY <2>1, SlamMatches
<1>2. \A m \in d.matches :
        /\ d.winnerTo[m] \in d.matches \cup {None} /\ d.winnerSide[m] \in Sides
        /\ d.loserTo[m] \in d.matches \cup {None} /\ d.loserSide[m] \in Sides
  BY SlamLeads
<1>3. \A m \in d.matches, s \in Sides : d.entrants[m][s] \in seats
  <2>1. \A m \in SlamOthers, s \in Sides : d.entrants[m][s] = None
    BY SlamMatches
  <2>2. ASSUME NEW group \in SlamPools, NEW m \in DOMAIN PoolDraw(c, group), NEW s \in Sides
        PROVE  d.entrants[m][s] \in seats
    BY SlamMatches
  <2> HIDE DEF d, seats
  <2> QED
    BY <1>1, <2>1, <2>2 DEF d, seats
<1>4. /\ d.winnerTo = [m \in d.matches |-> d.winnerTo[m]] /\ d.winnerSide = [m \in d.matches |-> d.winnerSide[m]]
      /\ d.loserTo = [m \in d.matches |-> d.loserTo[m]] /\ d.loserSide = [m \in d.matches |-> d.loserSide[m]]
      /\ d.entrants = [m \in d.matches |-> [s \in Sides |-> d.entrants[m][s]]]
  BY DEF DrawOf, Generated
<1>5. None \notin d.matches
  BY CategoryTypes
<1>6. Bracket(c, d)!DrawTypes
  <2>1. d.entrants \in [d.matches -> [Sides -> seats]]
    <3> DEFINE f == d.entrants
    <3>1. f = [m \in d.matches |-> [s \in Sides |-> f[m][s]]] /\ \A m \in d.matches, s \in Sides : f[m][s] \in seats
      BY <1>3, <1>4
    <3> HIDE DEF seats, f, d
    <3>2. \A m \in d.matches : [s \in Sides |-> f[m][s]] \in [Sides -> seats]
      BY <3>1
    <3>3. f \in [d.matches -> [Sides -> seats]]
      BY <3>1, <3>2
    <3> QED
      BY <3>3 DEF f
  <2> HIDE DEF d
  <2> QED
    BY <1>1, <1>2, <1>4, <1>5, <2>1
       DEF Bracket!DrawTypes, Bracket!MaybeMatch, Bracket!MaybeCompetitor, Bracket!FirstFree, Bracket!Sides,
           Sides, seats, n
<1>7. Bracket(c, d)!OneFeederPerSlot
  <2> DEFINE InPoolRound(m, group) ==
               /\ m \in DOMAIN PoolDraw(c, group) /\ m.round < RoundsOfPool(c, group)
               /\ d.winnerTo[m] = MatchId("POOL", group, m.round + 1, (m.position + 1) \div 2)
               /\ d.winnerSide[m] = IF m.position % 2 = 1 THEN 1 ELSE 2
             FromLast(m, group) ==
               /\ m = LastOfPool(c, group)
               /\ d.winnerTo[m] = Semifinal(IF TopPool(group) THEN 1 ELSE 2)
               /\ d.winnerSide[m] = SideOfPool(group)
             FromSemifinal(m, p) == m = Semifinal(p) /\ d.winnerTo[m] = Final /\ d.winnerSide[m] = p
             FromRepechage(m, half) ==
               m = Repechage(half) /\ d.winnerTo[m] = Bronze(half) /\ d.winnerSide[m] = 1
  <2>1. \A m \in d.matches : d.winnerTo[m] # None =>
          \/ \E group \in SlamPools : InPoolRound(m, group)
          \/ \E group \in SlamPools : FromLast(m, group)
          \/ \E p \in {1, 2} : FromSemifinal(m, p)
          \/ \E half \in Halves : FromRepechage(m, half)
    BY SlamLeads
  <2>2. \A m \in d.matches :
          /\ (\E group \in SlamPools : InPoolRound(m, group)) => d.winnerTo[m].phase = "POOL"
          /\ (\E group \in SlamPools : FromLast(m, group)) => d.winnerTo[m].phase = "KNOCKOUT_SF"
          /\ (\E p \in {1, 2} : FromSemifinal(m, p)) => d.winnerTo[m].phase = "KNOCKOUT_FINAL"
          /\ (\E half \in Halves : FromRepechage(m, half)) =>
               d.winnerTo[m].phase = "KNOCKOUT_BRONZE" /\ d.winnerSide[m] = 1
    BY SlamIds
  <2>3. ASSUME NEW m \in d.matches, NEW l \in d.matches, d.winnerTo[m] # None,
               d.winnerTo[m] = d.winnerTo[l], d.winnerSide[m] = d.winnerSide[l]
        PROVE  m = l
    <3>1. ASSUME NEW g \in SlamPools, NEW h \in SlamPools, InPoolRound(m, g), InPoolRound(l, h)
          PROVE  m = l
      <4>1. /\ m = MatchId("POOL", g, m.round, m.position) /\ m.round \in Int /\ m.position \in Int
            /\ l = MatchId("POOL", h, l.round, l.position) /\ l.round \in Int /\ l.position \in Int
        BY <3>1, PoolBracket
      <4>2. g = h /\ m.round + 1 = l.round + 1 /\ (m.position + 1) \div 2 = (l.position + 1) \div 2
        <5>1. \A q, r, u, v, x, y :
                MatchId("POOL", q, u, x) = MatchId("POOL", r, v, y) => q = r /\ u = v /\ x = y
          BY DEF MatchId
        <5> DEFINE u == m.round + 1
                   v == l.round + 1
                   x == (m.position + 1) \div 2
                   y == (l.position + 1) \div 2
        <5>2. MatchId("POOL", g, u, x) = MatchId("POOL", h, v, y)
          BY <2>3, <3>1
        <5> HIDE DEF u, v, x, y
        <5>3. g = h /\ u = v /\ x = y
          BY <5>1, <5>2
        <5> QED
          BY <5>3 DEF u, v, x, y
      <4>3. (IF m.position % 2 = 1 THEN 1 ELSE 2) = (IF l.position % 2 = 1 THEN 1 ELSE 2)
        BY <2>3, <3>1
      <4>4. m.position = l.position /\ m.round = l.round
        <5>1. m.position = l.position
          BY <4>1, <4>2, <4>3, TwoSidesOfNext
        <5>2. \A x, y \in Int : x + 1 = y + 1 => x = y
          OBVIOUS
        <5> QED
          BY <4>1, <4>2, <5>1, <5>2
      <4> QED
        BY <4>1, <4>2, <4>4
    <3>2. ASSUME NEW g \in SlamPools, NEW h \in SlamPools, FromLast(m, g), FromLast(l, h)
          PROVE  m = l
      <4>1. TopPool(g) <=> TopPool(h)
        <5>1. (IF TopPool(g) THEN 1 ELSE 2) = (IF TopPool(h) THEN 1 ELSE 2)
          BY <2>3, <3>2, SlamIds
        <5> QED
          BY <5>1
      <4>2. SideOfPool(g) = SideOfPool(h)
        BY <2>3, <3>2
      <4>3. g = h
        BY <4>1, <4>2 DEF SlamPools, TopPool, SideOfPool
      <4> QED
        BY <3>2, <4>3
    <3>3. ASSUME NEW p \in {1, 2}, NEW q \in {1, 2}, FromSemifinal(m, p), FromSemifinal(l, q)
          PROVE  m = l
      BY <2>3, <3>3
    <3>4. ASSUME NEW half \in Halves, NEW other \in Halves, FromRepechage(m, half), FromRepechage(l, other)
          PROVE  m = l
      <4>1. half = other
        BY <2>3, <3>4, SlamIds
      <4> QED
        BY <3>4, <4>1
    <3> HIDE DEF d, InPoolRound, FromLast, FromSemifinal, FromRepechage
    <3> QED
      BY <2>1, <2>2, <2>3, <3>1, <3>2, <3>3, <3>4
  <2>4. \A m \in d.matches : d.loserTo[m] # None =>
          /\ m.phase \in {"POOL", "KNOCKOUT_SF"}
          /\ \/ d.loserTo[m].phase = "REPECHAGE"
             \/ d.loserTo[m].phase = "KNOCKOUT_BRONZE" /\ d.loserSide[m] = 2
    <3> SUFFICES ASSUME NEW m \in d.matches, d.loserTo[m] # None
                 PROVE  /\ m.phase \in {"POOL", "KNOCKOUT_SF"}
                        /\ \/ d.loserTo[m].phase = "REPECHAGE"
                           \/ d.loserTo[m].phase = "KNOCKOUT_BRONZE" /\ d.loserSide[m] = 2
      OBVIOUS
    <3>1. CASE \E group \in SlamPools : m = LastOfPool(c, group) /\ d.loserTo[m] = Repechage(HalfOf(group))
      BY <3>1, SlamIds DEF LastOfPool
    <3>2. CASE \E p \in {1, 2} : m = Semifinal(p) /\ d.loserTo[m] = Bronze(CrossHalf(p)) /\ d.loserSide[m] = 2
      BY <3>2, SlamIds
    <3> QED
      BY <3>1, <3>2, SlamLeads
  <2>5. ASSUME NEW m \in d.matches, NEW l \in d.matches, d.winnerTo[m] # None, d.winnerTo[m] = d.loserTo[l]
        PROVE  d.loserSide[l] \in Sides /\ d.loserSide[l] # d.winnerSide[m]
    <3>1. d.winnerTo[m].phase = "KNOCKOUT_BRONZE" /\ d.winnerSide[m] = 1
      <4> HIDE DEF d, InPoolRound, FromLast, FromSemifinal, FromRepechage
      <4> QED
        BY <2>1, <2>2, <2>4, <2>5
    <3> QED
      BY <1>2, <2>4, <2>5, <3>1
  <2>6. ASSUME NEW m \in d.matches
        PROVE  d.winnerTo[m] # m /\ d.loserTo[m] # m
    <3>1. d.loserTo[m] # m
      BY <1>5, <2>4
    <3>2. ASSUME d.winnerTo[m] = m PROVE FALSE
      <4>1. d.winnerTo[m] # None
        BY <1>5, <3>2
      <4>2. ~(\E group \in SlamPools : InPoolRound(m, group))
        <5> SUFFICES ASSUME NEW group \in SlamPools, InPoolRound(m, group) PROVE FALSE
          OBVIOUS
        <5>1. m.round \in Int /\ m.round = m.round + 1
          BY <3>2, PoolBracket, SlamIds
        <5> QED
          BY <5>1
      <4>3. ~(\E group \in SlamPools : FromLast(m, group))
        BY <3>2, SlamIds DEF LastOfPool
      <4>4. ~(\E p \in {1, 2} : FromSemifinal(m, p)) /\ ~(\E half \in Halves : FromRepechage(m, half))
        BY <3>2, SlamIds
      <4> QED
        BY <2>1, <4>1, <4>2, <4>3, <4>4
    <3> QED
      BY <3>1, <3>2
  <2> HIDE DEF d
  <2> QED
    BY <2>3, <2>5, <2>6 DEF Bracket!OneFeederPerSlot, Bracket!Sides, Sides
<1>8. Bracket(c, d)!ByesAdvanced
  BY <1>1 DEF Bracket!ByesAdvanced
<1> QED
  BY <1>6, <1>7, <1>8

-----------------------------------------------------------------------------
(* Draws of every size *)

(* The rows and the routes of every category from which nobody has been    *)
(* withdrawn are a draw as module Draw assumes it, whatever its format and *)
(* size: each winner has a slot nobody else is sent to, the losers who go  *)
(* on leave it free, and who has no opponent waits in the second round.    *)
(* This is what GeneratedDraws takes for granted, proved without it.       *)
THEOREM DrawsAreDrawn ==
  ASSUME WholeDraws, None \notin Int, \A c \in Categories : None \notin Drawn[c].matches
  PROVE  \A c \in Categories : \E draw \in {Drawn[c]} :
           /\ Bracket(c, draw)!DrawTypes
           /\ Bracket(c, draw)!OneFeederPerSlot
           /\ Bracket(c, draw)!ByesAdvanced
<1> SUFFICES ASSUME NEW c \in Categories
             PROVE  /\ Bracket(c, Drawn[c])!DrawTypes
                    /\ Bracket(c, Drawn[c])!OneFeederPerSlot
                    /\ Bracket(c, Drawn[c])!ByesAdvanced
  OBVIOUS
<1>0. IsCategory(c) /\ Drawn[c] = DrawOf(c)
  BY TournamentTypes DEF Drawn, DrawOf, IsCategory
<1>1. CASE c.bracketType = "GRAND_SLAM"
  <2>1. IsSlam(c)
    BY <1>1 DEF WholeDraws, IsSlam
  <2> QED
    BY <1>0, <2>1, SlamIsADraw
<1>2. CASE c.bracketType # "GRAND_SLAM"
  <2>1. IsElimination(c)
    BY <1>2 DEF WholeDraws, IsElimination
  <2> QED
    BY <1>0, <2>1, EliminationIsADraw
<1> QED
  BY <1>1, <1>2

(* Such a category is a full draw: the seeds fill the first round, or the  *)
(* pools and the first round of each, once; byes lead into the second      *)
(* round; the losers of quarter-finals and semi-finals, or of pool finals  *)
(* and semi-finals, each find a side of their own, and nobody comes from   *)
(* the consolation to the final.                                           *)
THEOREM DrawsAreFull ==
  ASSUME WholeDraws
  PROVE  FullDraws
<1> SUFFICES ASSUME NEW c \in Categories
             PROVE  FullDraw(c, Drawn[c])
  BY DEF FullDraws
<1>0. IsCategory(c) /\ Drawn[c] = DrawOf(c)
  BY CategoriesAre
<1>1. CASE c.bracketType = "GRAND_SLAM"
  <2>1. IsSlam(c)
    BY <1>1 DEF WholeDraws, IsSlam
  <2> QED
    BY <1>0, <2>1, SlamIsFull
<1>2. CASE c.bracketType # "GRAND_SLAM"
  <2>1. IsElimination(c)
    BY <1>2 DEF WholeDraws, IsElimination
  <2> QED
    BY <1>0, <2>1, EliminationIsFull
<1> QED
  BY <1>1, <1>2

-----------------------------------------------------------------------------
(* Losers who go on *)

LosersSeated(d, r) ==
  \A m \in d.matches :
    Over(r, m) /\ d.loserTo[m] # None =>
      \A c \in Beaten(r, m) : c # None /\ \E s \in Sides : r[d.loserTo[m]].competitor[s] = c

LEMMA LosersStaySeated ==
  ASSUME NEW d, NEW r, NEW q, NEW m, NEW side, NEW k, AFight(d, r, q, m, side, k),
         DOMAIN r = d.matches, DOMAIN q = d.matches, LosersSeated(d, r)
  PROVE  LosersSeated(d, q)
<1>a. /\ m \in d.matches /\ side \in Sides
      /\ WellDrawn(d) /\ TurnsInv(d, r) /\ IsFought(d, r, q, m, side, k)
  BY DEF AFight
<1>b. /\ k \in Sides
      /\ d.loserTo[m] # None /\ d.loserTo[m] = d.winnerTo[m] => k # d.winnerSide[m]
  BY RoomForBoth
<1>c. /\ \A n \in d.matches : Over(q, n) <=> Over(r, n) \/ n = m
      /\ \A n \in d.matches, s \in Sides :
           r[n].competitor[s] # None => q[n].competitor[s] = r[n].competitor[s]
      /\ \A n \in d.matches : n # m /\ Over(r, n) => Beaten(q, n) = Beaten(r, n)
      /\ Beaten(q, m) = {r[m].competitor[3 - side]}
  BY RowsKept, BeatenOnce
<1> SUFFICES ASSUME NEW n \in d.matches, Over(q, n), d.loserTo[n] # None, NEW c \in Beaten(q, n)
             PROVE  c # None /\ \E s \in Sides : q[d.loserTo[n]].competitor[s] = c
  BY DEF LosersSeated
<1>1. d.loserTo[n] \in d.matches
  BY <1>a DEF WellDrawn
<1>2. CASE n = m
  <2>1. c # None
    BY <1>a, <1>c, <1>2, OtherSide DEF IsFought
  <2>2. q[d.loserTo[m]].competitor[k] = r[m].competitor[3 - side]
    BY <1>a, <1>b, <1>1, <1>2 DEF IsFought
  <2> QED
    BY <1>b, <1>c, <1>2, <2>1, <2>2
<1>3. CASE n # m
  BY <1>c, <1>1, <1>3 DEF LosersSeated
<1> QED
  BY <1>2, <1>3

-----------------------------------------------------------------------------
(* Who has fought the last match *)

(* Those for whom a match was the last: who wins one that leads nowhere,   *)
(* and who loses one without a second chance.                              *)
Ended(d, r, m) ==
  {c \in {r[m].winner} \cup Beaten(r, m) :
     /\ Over(r, m) /\ m \notin d.byes
     /\ IF c = r[m].winner THEN d.winnerTo[m] = None ELSE d.loserTo[m] = None}

(* Nobody has two last matches, or waits for another after it.             *)
OneEndEach(d, r) ==
  \A m \in d.matches : \A c \in Ended(d, r, m) :
    /\ c # None
    /\ \A n \in d.matches : c \in Ended(d, r, n) => n = m
    /\ \A n \in Contested(d), s \in Sides : ~Over(r, n) => r[n].competitor[s] # c

LEMMA OneEndStays ==
  ASSUME NEW d, NEW r, NEW q, NEW m, NEW side, NEW k, AFight(d, r, q, m, side, k),
         DOMAIN r = d.matches, DOMAIN q = d.matches, OneEndEach(d, r)
  PROVE  OneEndEach(d, q)
<1>a. /\ m \in d.matches /\ side \in Sides
      /\ WellDrawn(d) /\ TurnsInv(d, r) /\ IsFought(d, r, q, m, side, k)
  BY DEF AFight
<1> DEFINE winner == r[m].competitor[side]
           loser == r[m].competitor[3 - side]
<1>b. /\ m \in Contested(d) /\ 3 - side \in Sides /\ ~Over(r, m)
      /\ winner # loser /\ winner # None /\ loser # None
  BY <1>a, RoomForBoth, OtherSide DEF IsFought, Over
<1>c. /\ \A n \in d.matches : Over(q, n) <=> Over(r, n) \/ n = m
      /\ \A n \in d.matches : n # m /\ Over(r, n) => Beaten(q, n) = Beaten(r, n)
      /\ Beaten(q, m) = {loser} /\ q[m].winner = winner
      /\ \A n \in d.matches : n # m => q[n].winner = r[n].winner
  BY <1>a, RowsKept, BeatenOnce DEF IsFought
<1>d. \A n \in d.matches, s \in Sides :
        \/ n = d.winnerTo[m] /\ q[n].competitor[s] = winner
        \/ n = d.loserTo[m] /\ q[n].competitor[s] = loser
        \/ q[n].competitor[s] = r[n].competitor[s]
  <2> SUFFICES ASSUME NEW n \in d.matches, NEW s \in Sides
               PROVE  \/ n = d.winnerTo[m] /\ q[n].competitor[s] = winner
                      \/ n = d.loserTo[m] /\ q[n].competitor[s] = loser
                      \/ q[n].competitor[s] = r[n].competitor[s]
    OBVIOUS
  <2> QED
    BY <1>a DEF IsFought
<1> HIDE DEF winner, loser
<1>1. \A n \in d.matches : n # m => Ended(d, q, n) = Ended(d, r, n)
  BY <1>c DEF Ended
<1>2. \A c \in Ended(d, q, m) :
        \/ c = winner /\ d.winnerTo[m] = None
        \/ c = loser /\ d.loserTo[m] = None
  BY <1>b, <1>c DEF Ended
<1>3. \A n \in d.matches : winner \notin Ended(d, r, n) /\ loser \notin Ended(d, r, n)
  BY <1>a, <1>b DEF OneEndEach, winner, loser
<1>4. ASSUME NEW n \in Contested(d), NEW s \in Sides, ~Over(q, n)
      PROVE  /\ n \in d.matches /\ n # None /\ ~Over(r, n)
             /\ r[n].competitor[s] # winner /\ r[n].competitor[s] # loser
  <2>1. n \in d.matches /\ n # m /\ ~Over(r, n)
    BY <1>a, <1>c, <1>4 DEF Contested
  <2>2. n # None
    BY <1>a, <2>1 DEF WellDrawn
  <2> QED
    BY <1>a, <1>b, <2>1, <2>2 DEF TurnsInv, OneSlotEach, winner, loser
<1> SUFFICES ASSUME NEW o \in d.matches, NEW c \in Ended(d, q, o)
             PROVE  /\ c # None
                    /\ \A n \in d.matches : c \in Ended(d, q, n) => n = o
                    /\ \A n \in Contested(d), s \in Sides : ~Over(q, n) => q[n].competitor[s] # c
  BY DEF OneEndEach
<1>5. CASE o = m
  <2>1. c \in {winner, loser}
    BY <1>2, <1>5
  <2>2. \A n \in d.matches : c \in Ended(d, q, n) => n = o
    BY <1>1, <1>3, <1>5, <2>1
  <2>3. ASSUME NEW n \in Contested(d), NEW s \in Sides, ~Over(q, n), q[n].competitor[s] = c
        PROVE  FALSE
    <3>1. n \in d.matches /\ n # None /\ q[n].competitor[s] # r[n].competitor[s]
      BY <1>4, <2>1, <2>3
    <3> QED
      BY <1>b, <1>2, <1>5, <1>d, <2>3, <3>1
  <2> QED
    BY <1>b, <2>1, <2>2, <2>3
<1>6. CASE o # m
  <2>1. c \in Ended(d, r, o) /\ c # None /\ c # winner /\ c # loser
    BY <1>1, <1>3, <1>6 DEF OneEndEach
  <2>2. \A n \in d.matches : c \in Ended(d, q, n) => n = o
    BY <1>1, <1>2, <2>1 DEF OneEndEach
  <2>3. \A n \in Contested(d), s \in Sides : ~Over(q, n) => q[n].competitor[s] # c
    BY <1>4, <1>d, <2>1 DEF OneEndEach
  <2> QED
    BY <2>1, <2>2, <2>3
<1> QED
  BY <1>5, <1>6

SeatedIInv == TurnsIInv /\ LosersSeated(TheDraw, row) /\ OneEndEach(TheDraw, row)

LEMMA SeatedInit == FullDraws /\ Init => SeatedIInv
<1> SUFFICES ASSUME FullDraws, Init PROVE SeatedIInv
  OBVIOUS
<1>1. TurnsIInv
  BY InitTurns
<1>2. \A m \in TheDraw.matches : Over(row, m) => m \in TheDraw.byes
  BY DEF Init, TheDraw, Bracket!Init, Bracket!DrawnRow, Over
<1>3. WellDrawn(TheDraw)
  BY <1>1, DrawIsWell DEF TurnsIInv, Typing, TheDraw
<1>4. \A m \in TheDraw.matches : Over(row, m) => Beaten(row, m) = {}
  BY <1>1, <1>2, <1>3 DEF TurnsIInv, TurnsInv, FoughtRows, WellDrawn, Beaten
<1>5. \A m \in TheDraw.matches : Ended(TheDraw, row, m) = {}
  BY <1>2 DEF Ended
<1> QED
  BY <1>1, <1>4, <1>5 DEF SeatedIInv, LosersSeated, OneEndEach

LEMMA SeatedNext == FullDraws /\ SeatedIInv /\ [Next]_vars => SeatedIInv'
<1> SUFFICES ASSUME FullDraws, SeatedIInv, [Next]_vars PROVE SeatedIInv'
  OBVIOUS
<1>1. CASE UNCHANGED vars
  BY <1>1 DEF vars, SeatedIInv, TurnsIInv, Typing, TheDraw
<1>2. ASSUME NEW c \in Categories, NEW m \in Called, NEW side \in Sides, Fight(c, Drawn[c], m, side)
      PROVE  SeatedIInv'
  <2>1. m \in Ready /\ TurnsIInv /\ TurnsIInv'
    BY TurnsNext DEF Called, SeatedIInv
  <2>2. Typing' /\ UNCHANGED TheDraw
    BY <1>2, <2>1, FightIsAFight
  <2>3. PICK k : AFight(TheDraw, row, row', m, side, k)
    BY <1>2, <2>1, FightIsAFight
  <2>4. DOMAIN row = TheDraw.matches /\ DOMAIN row' = TheDraw.matches
    BY <2>1, <2>2 DEF TurnsIInv, Typing, TheDraw
  <2>5. LosersSeated(TheDraw, row')
    BY <2>3, <2>4, LosersStaySeated DEF SeatedIInv
  <2>6. OneEndEach(TheDraw, row')
    BY <2>3, <2>4, OneEndStays DEF SeatedIInv
  <2> QED
    BY <2>1, <2>2, <2>5, <2>6 DEF SeatedIInv
<1> QED
  BY <1>1, <1>2 DEF Next

(* The loser of a quarter-final is sent to the repechage of its half.      *)
LEMMA QuarterFinalRoute ==
  ASSUME NEW c \in Categories, c.bracketType = "DOUBLE_REPECHAGE", c.registered = c.drawn, c.drawn > 1,
         NEW m \in Drawn[c].matches, m.phase = "MAIN", m.round = TotalRoundsFor(c.drawn) - 2
  PROVE  Drawn[c].loserTo[m] = Repechage(IF m.position <= 2 THEN "TOP" ELSE "BOTTOM")
<1>0. IsCategory(c) /\ Drawn[c] = DrawOf(c)
  BY CategoriesAre
<1>1. m \in MainOf(c)
  <2>1. m \in DOMAIN DoubleRepechage(c.drawn)
    BY <1>0, EliminationDraw
  <2>2. m \notin RepechageMatches
    BY DEF RepechageMatches, Repechage, Bronze, Placeholder, MatchId
  <2> QED
    BY <2>1, <2>2 DEF MainOf, DoubleRepechage, WithPlaceholders
<1> QED
  BY <1>0, <1>1, LosersOfDouble

(* In a double repechage from which nobody has withdrawn the four losers   *)
(* of the quarter-finals go on to the repechage of their half, in whatever *)
(* order the matches are called: both bronzes are fought for.              *)
THEOREM QuarterFinalLosersAreSeated ==
  ASSUME WholeDraws
  PROVE  Spec => []QuarterFinalLosersGoOn
<1>0. FullDraws
  BY DrawsAreFull
<1>1. Init => SeatedIInv
  BY <1>0, SeatedInit
<1>2. SeatedIInv /\ [Next]_vars => SeatedIInv'
  BY <1>0, SeatedNext
<1>3. SeatedIInv => QuarterFinalLosersGoOn
  <2> SUFFICES ASSUME SeatedIInv, category.bracketType = "DOUBLE_REPECHAGE",
                      NEW m \in DOMAIN row, RoundsBeforeFinal(m, 2), Completed(m)
               PROVE  \E half \in Halves :
                        /\ half = IF m.position <= 2 THEN "TOP" ELSE "BOTTOM"
                        /\ Beaten(row, m) \subseteq Seats(Repechage(half))
    BY DEF QuarterFinalLosersGoOn
  <2> DEFINE half == IF m.position <= 2 THEN "TOP" ELSE "BOTTOM"
  <2>1. category \in Categories /\ DOMAIN row = TheDraw.matches /\ Over(row, m)
    BY DEF SeatedIInv, TurnsIInv, Typing, Completed, Over, TheDraw
  <2>2. TheDraw.loserTo[m] = Repechage(half)
    BY <2>1, QuarterFinalRoute DEF RoundsBeforeFinal, TheDraw, WholeDraws
  <2>3. Repechage(half) # None
    <3>1. half \in Halves
      BY DEF Halves
    <3>2. Repechage(half) \in DOMAIN Draw("DOUBLE_REPECHAGE", category.drawn)
      BY <3>1 DEF Draw, DoubleRepechage, WithPlaceholders, RepechageMatches
    <3>3. Repechage(half) \in TheDraw.matches
      BY <2>1, <3>2 DEF TheDraw, Drawn, Generated
    <3> QED
      BY <1>0, <2>1, <3>3, DrawIsWell DEF WellDrawn, TheDraw
  <2>4. \A c \in Beaten(row, m) : c # None /\ \E s \in Sides : row[Repechage(half)].competitor[s] = c
    BY <2>1, <2>2, <2>3 DEF SeatedIInv, LosersSeated
  <2> QED
    BY <2>4 DEF Seats, Halves
<1> QED
  BY <1>1, <1>2, <1>3, PTL DEF Spec
-----------------------------------------------------------------------------
(* Who is placed *)

(* The match whose winner is first and whose loser is second.              *)
LastMatch(c) == IF c.bracketType = "GRAND_SLAM" THEN Final ELSE FinalFor(c.registered)

(* The places that a last match gives.                                     *)
WinnerRank(c, m) == IF m = LastMatch(c) THEN 1 ELSE 3

LoserRank(c, m) ==
  IF m = LastMatch(c) THEN 2
  ELSE IF m.phase = "REPECHAGE" THEN 7 ELSE IF m.phase = "KNOCKOUT_BRONZE" THEN 5 ELSE 3

RankIn(c, r, m, x) == IF x = r[m].winner THEN WinnerRank(c, m) ELSE LoserRank(c, m)

PlacedIn(c, r, m) == {Place(RankIn(c, r, m, x), x) : x \in Ended(Drawn[c], r, m)}

(* The matches of a grand slam that give places lead nowhere.              *)
LEMMA GrandSlamEnds ==
  ASSUME NEW c \in Categories, c.bracketType = "GRAND_SLAM"
  PROVE  /\ Final \in Drawn[c].matches =>
              Drawn[c].winnerTo[Final] = None /\ Drawn[c].loserTo[Final] = None
         /\ \A half \in Halves :
              Bronze(half) \in Drawn[c].matches => Drawn[c].winnerTo[Bronze(half)] = None
<1> DEFINE draw == Draw("GRAND_SLAM", c.drawn)
<1>1. Drawn[c] = Generated("GRAND_SLAM", draw, c.registered)
  BY DEF Drawn
<1> HIDE DEF draw
<1>2. WinnerRoutes("GRAND_SLAM", draw, Final) = NoRoutes
      /\ LoserRoutes("GRAND_SLAM", draw, Final, c.registered) = NoRoutes
  BY DEF WinnerRoutes, LoserRoutes, WinnerInGrandSlam, LoserInGrandSlam, IsPoolFinal, Final, MatchId
<1>3. \A half \in Halves : WinnerRoutes("GRAND_SLAM", draw, Bronze(half)) = NoRoutes
  BY DEF WinnerRoutes, WinnerInGrandSlam, IsPoolFinal, Bronze, Placeholder, MatchId
<1>4. Target(NoRoutes).match = None
  BY DEF Target, Route
<1> QED
  BY <1>1, <1>2, <1>3, <1>4 DEF Generated

LEMMA WinnerEnds ==
  ASSUME NEW d, NEW r, WellDrawn(d), DOMAIN r = d.matches,
         NEW m \in d.matches, Done(r, m), d.winnerTo[m] = None
  PROVE  r[m].winner \in Ended(d, r, m)
BY DEF WellDrawn, EnteredOnce, Ended, Done, Over

LEMMA LoserEnds ==
  ASSUME NEW d, NEW r, WellDrawn(d), FoughtRows(d, r), DOMAIN r = d.matches,
         NEW m \in d.matches, NEW x \in Beaten(r, m), d.loserTo[m] = None
  PROVE  x \in Ended(d, r, m) /\ x # r[m].winner
<1>1. Over(r, m) /\ (\A s \in Sides : r[m].competitor[s] # None) /\ x = Loser(r[m], r[m].winner)
  BY DEF Beaten, Done, Over
<1>2. m \notin d.byes
  BY <1>1 DEF WellDrawn, FoughtRows
<1>3. PICK side \in Sides : /\ r[m].winner = r[m].competitor[side]
                            /\ r[m].competitor[side] # r[m].competitor[3 - side]
  BY <1>1, <1>2 DEF FoughtRows
<1>4. x # r[m].winner
  BY <1>1, <1>3 DEF Loser, Sides
<1> QED
  BY <1>1, <1>2, <1>4 DEF Ended

(* Every place is that of somebody whose last match it was, and follows    *)
(* from the match and the way it ended.                                    *)
LEMMA PlacesAreEnds ==
  ASSUME SeatedIInv, WholeDraws,
         NEW p \in Places
  PROVE  \E m \in TheDraw.matches : p \in PlacedIn(category, row, m)
<1> DEFINE d == TheDraw
           last == LastMatch(category)
<1>1. /\ category \in Categories /\ d = Drawn[category] /\ DOMAIN row = d.matches
      /\ WellDrawn(d) /\ FoughtRows(d, row)
      /\ category.bracketType # "GRAND_SLAM" => category.registered = category.drawn
  BY DrawIsWell, DrawsAreFull DEF SeatedIInv, TurnsIInv, TurnsInv, Typing, TheDraw, WholeDraws
<1> SUFFICES \E m \in d.matches : p \in PlacedIn(category, row, m)
  OBVIOUS
<1> HIDE DEF d
<1>2. \A m \in d.matches : \A x :
        x \in Ended(d, row, m) => Place(RankIn(category, row, m, x), x) \in PlacedIn(category, row, m)
  BY <1>1 DEF PlacedIn
<1>3. ASSUME NEW m \in d.matches, d.winnerTo[m] = None, p \in WinnerPlace(row, m, WinnerRank(category, m))
      PROVE  \E n \in d.matches : p \in PlacedIn(category, row, n)
  <2>1. Done(row, m) /\ p = Place(WinnerRank(category, m), row[m].winner)
    BY <1>3 DEF WinnerPlace
  <2>2. row[m].winner \in Ended(d, row, m)
    BY <1>1, <1>3, <2>1, WinnerEnds
  <2> QED
    BY <1>2, <1>3, <2>1, <2>2 DEF RankIn
<1>4. ASSUME NEW m \in d.matches, d.loserTo[m] = None, p \in LoserPlace(row, m, LoserRank(category, m))
      PROVE  \E n \in d.matches : p \in PlacedIn(category, row, n)
  <2>1. PICK x \in Beaten(row, m) : p = Place(LoserRank(category, m), x)
    BY <1>4 DEF LoserPlace
  <2>2. x \in Ended(d, row, m) /\ x # row[m].winner
    BY <1>1, <1>4, <2>1, LoserEnds
  <2> QED
    BY <1>2, <1>4, <2>1, <2>2 DEF RankIn
<1>5. \A m, rank : p \in WinnerPlace(row, m, rank) \/ p \in LoserPlace(row, m, rank) => m \in d.matches
  BY <1>1 DEF WinnerPlace, LoserPlace, Beaten, Done, Exists
<1>6. \A half \in Halves : /\ Bronze(half).phase = "KNOCKOUT_BRONZE" /\ Repechage(half).phase = "REPECHAGE"
                           /\ Bronze(half) # last /\ Repechage(half) # last
  BY DEF Bronze, Repechage, Placeholder, MatchId, LastMatch, Final, FinalFor
<1>7. \A m \in d.matches : m.phase \in {"REPECHAGE", "KNOCKOUT_BRONZE"} => d.loserTo[m] = None
  <2>1. OneConsolation(d)
    BY <1>1 DEF WellDrawn
  <2> QED
    BY <2>1 DEF OneConsolation, Consolation
<1> HIDE DEF last
<1>8. /\ WinnerRank(category, last) = 1 /\ LoserRank(category, last) = 2
      /\ \A half \in Halves :
           /\ WinnerRank(category, Bronze(half)) = 3 /\ LoserRank(category, Bronze(half)) = 5
           /\ LoserRank(category, Repechage(half)) = 7
  BY <1>6 DEF WinnerRank, LoserRank, last
<1>9. CASE category.bracketType = "GRAND_SLAM"
  <2>1. last = Final /\ Places = GrandSlamPlaces(row)
    BY <1>9 DEF LastMatch, Places, last
  <2>2. /\ Final \in d.matches => d.winnerTo[Final] = None /\ d.loserTo[Final] = None
        /\ \A half \in Halves : Bronze(half) \in d.matches => d.winnerTo[Bronze(half)] = None
    BY <1>1, <1>9, GrandSlamEnds
  <2>3. CASE p \in WinnerPlace(row, Final, 1)
    BY <1>3, <1>5, <1>8, <2>1, <2>2, <2>3
  <2>4. CASE p \in LoserPlace(row, Final, 2)
    BY <1>4, <1>5, <1>8, <2>1, <2>2, <2>4
  <2>5. ASSUME NEW half \in Halves, p \in WinnerPlace(row, Bronze(half), 3)
        PROVE  \E n \in d.matches : p \in PlacedIn(category, row, n)
    BY <1>3, <1>5, <1>8, <2>2, <2>5
  <2>6. ASSUME NEW half \in Halves, p \in LoserPlace(row, Bronze(half), 5)
        PROVE  \E n \in d.matches : p \in PlacedIn(category, row, n)
    BY <1>4, <1>5, <1>6, <1>7, <1>8, <2>6
  <2>7. ASSUME NEW half \in Halves, p \in LoserPlace(row, Repechage(half), 7)
        PROVE  \E n \in d.matches : p \in PlacedIn(category, row, n)
    BY <1>4, <1>5, <1>6, <1>7, <1>8, <2>7
  <2> QED
    BY <2>1, <2>3, <2>4, <2>5, <2>6, <2>7 DEF GrandSlamPlaces
<1>10. CASE category.bracketType # "GRAND_SLAM"
  <2>1. last = FinalFor(category.drawn) /\ Places = EliminationPlaces(row, category.drawn)
    BY <1>1, <1>10 DEF LastMatch, Places, last
  <2>2. /\ last \in d.matches => d.winnerTo[last] = None /\ d.loserTo[last] = None
        /\ \A half \in Halves : Bronze(half) \in d.matches => d.winnerTo[Bronze(half)] = None
        /\ category.bracketType = "SINGLE_REPECHAGE" =>
             \A m \in d.matches : m.phase = "MAIN" /\ d.loserTo[m] = None
        /\ category.bracketType = "DOUBLE_REPECHAGE" =>
             BronzesOf(row) = {Bronze(half) : half \in Halves}
    BY <1>1, <1>10, <2>1, EliminationEnds, CategoriesAre DEF BronzesOf
  <2>3. CASE p \in WinnerPlace(row, last, 1)
    BY <1>3, <1>5, <1>8, <2>2, <2>3
  <2>4. CASE p \in LoserPlace(row, last, 2)
    BY <1>4, <1>5, <1>8, <2>2, <2>4
  <2>5. CASE category.bracketType = "DOUBLE_REPECHAGE" /\ p \in ThirdPlaces(row, category.drawn)
    <3>1. PICK half \in Halves : p \in WinnerPlace(row, Bronze(half), 3)
      BY <2>2, <2>5 DEF ThirdPlaces, Halves
    <3> QED
      BY <1>3, <1>5, <1>8, <2>2, <3>1
  <2>6. CASE category.bracketType = "SINGLE_REPECHAGE" /\ p \in ThirdPlaces(row, category.drawn)
    <3>1. PICK m \in d.matches : /\ p \in LoserPlace(row, m, 3)
                                 /\ m.phase = "MAIN" /\ TotalRoundsFor(category.drawn) >= 2
                                 /\ m.round = TotalRoundsFor(category.drawn) - 1
      <4>1. BronzesOf(row) = {}
        BY <1>1, <2>2, <2>6 DEF BronzesOf
      <4> QED
        BY <1>1, <2>6, <4>1 DEF ThirdPlaces
    <3>2. m # last
      <4>1. TotalRoundsFor(category.drawn) \in Nat
        BY <1>1, TournamentTypes, RoundsOfBracket
      <4> QED
        BY <2>1, <3>1, <4>1 DEF FinalFor, MatchId
    <3>3. LoserRank(category, m) = 3
      BY <3>1, <3>2 DEF LoserRank, last
    <3> QED
      BY <1>4, <2>2, <2>6, <3>1, <3>3
  <2>7. category.bracketType \in {"SINGLE_REPECHAGE", "DOUBLE_REPECHAGE"}
    BY <1>1, <1>10, TournamentTypes
  <2> QED
    BY <2>1, <2>3, <2>4, <2>5, <2>6, <2>7 DEF EliminationPlaces
<1> QED
  BY <1>9, <1>10

(* Everybody has one place, as everybody has one last match.               *)
LEMMA OnePlaceEach ==
  ASSUME SeatedIInv, WholeDraws
  PROVE  /\ PlacesFit
         /\ \A p, q \in Places : p.competitor = q.competitor => p = q
<1> DEFINE d == TheDraw
           placed == {p.competitor : p \in Places}
<1>1. category \in Categories /\ d = Drawn[category] /\ OneEndEach(d, row)
  BY DEF SeatedIInv, TurnsIInv, Typing, TheDraw
<1>2. \A p \in Places : \E m \in d.matches : p \in PlacedIn(category, row, m)
  BY PlacesAreEnds
<1>3. \A p \in Places : \E m \in d.matches :
        /\ p.competitor \in Ended(d, row, m)
        /\ p = Place(RankIn(category, row, m, p.competitor), p.competitor)
  BY <1>1, <1>2 DEF PlacedIn, Place
<1> HIDE DEF d
<1>4. \A p, q \in Places : p.competitor = q.competitor => p = q
  <2> SUFFICES ASSUME NEW p \in Places, NEW q \in Places, p.competitor = q.competitor
               PROVE  p = q
    OBVIOUS
  <2>1. PICK m \in d.matches : /\ p.competitor \in Ended(d, row, m)
                               /\ p = Place(RankIn(category, row, m, p.competitor), p.competitor)
    BY <1>3
  <2>2. PICK n \in d.matches : /\ q.competitor \in Ended(d, row, n)
                               /\ q = Place(RankIn(category, row, n, q.competitor), q.competitor)
    BY <1>3
  <2>3. m = n
    BY <1>1, <2>1, <2>2 DEF OneEndEach
  <2> QED
    BY <2>1, <2>2, <2>3
<1>5. placed \subseteq 0..(category.drawn - 1) \cup {None}
  <2>1. \A m \in d.matches : Ended(d, row, m) \subseteq 0..(category.drawn - 1) \cup {None}
    <3>1. PICK c \in Categories : category = c /\ row \in [Drawn[c].matches -> Bracket(c, Drawn[c])!Row]
      BY DEF SeatedIInv, TurnsIInv, Typing
    <3> QED
      BY <1>1, <3>1 DEF Ended, Beaten, Loser, Sides, Bracket!Row, Bracket!MaybeCompetitor, Bracket!Sides
  <2> QED
    BY <1>3, <2>1
<1>6. IsFiniteSet(placed)
  <2>1. IsFiniteSet(0..(category.drawn - 1))
    BY <1>1, TournamentTypes, FS_Interval
  <2>2. IsFiniteSet(0..(category.drawn - 1) \cup {None})
    BY <2>1, FS_AddElement
  <2> QED
    BY <1>5, <2>2, FS_Subset
<1> DEFINE competitorOf == [p \in Places |-> p.competitor]
<1>7. competitorOf \in Injection(Places, placed) /\ competitorOf \in Surjection(Places, placed)
  BY <1>4 DEF Injection, Surjection, IsInjective
<1>8. Cardinality(Places) = Cardinality(placed)
  BY <1>6, <1>7, FS_Injection
<1> QED
  BY <1>4, <1>8 DEF PlacesFit

(* A match that gives a place is not fought again, and its place is read   *)
(* off the same row ever after.                                            *)
LEMMA PlacesKept ==
  ASSUME SeatedIInv, WholeDraws, [Next]_vars
  PROVE  Places \subseteq Places'
<1>1. CASE UNCHANGED vars
  BY <1>1 DEF vars, Places, GrandSlamPlaces, EliminationPlaces, ThirdPlaces, WinnerPlace, LoserPlace,
              Beaten, Done, Exists, BronzesOf
<1>2. ASSUME NEW c \in Categories, NEW m \in Called, NEW side \in Sides, Fight(c, Drawn[c], m, side)
      PROVE  Places \subseteq Places'
  <2>1. m \in Ready /\ TurnsIInv
    BY DEF Called, SeatedIInv
  <2>2. Typing' /\ UNCHANGED <<TheDraw, category>>
    BY <1>2, <2>1, DrawsAreFull, FightIsAFight DEF Fight
  <2>3. PICK k : AFight(TheDraw, row, row', m, side, k)
    BY <1>2, <2>1, DrawsAreFull, FightIsAFight
  <2>4. DOMAIN row = TheDraw.matches /\ DOMAIN row' = TheDraw.matches
    BY <2>1, <2>2 DEF TurnsIInv, Typing, TheDraw
  <2>5. \A n \in TheDraw.matches : n # m /\ Over(row, n) => Beaten(row', n) = Beaten(row, n)
    BY <2>3, <2>4, BeatenOnce
  <2>6. ~Over(row, m) /\ \A n \in TheDraw.matches : n # m =>
          row'[n].status = row[n].status /\ row'[n].winner = row[n].winner
    BY <2>3 DEF AFight, IsFought, Over
  <2>7. \A n : Done(row, n) => Done(row', n) /\ row'[n].winner = row[n].winner
    BY <2>4, <2>6 DEF Done, Exists, Over
  <2>8. \A n : Beaten(row, n) # {} => Beaten(row', n) = Beaten(row, n)
    <3>1. \A n : Beaten(row, n) # {} => Over(row, n) /\ n \in TheDraw.matches
      BY <2>4 DEF Beaten, Done, Exists, Over
    <3> QED
      BY <2>5, <2>6, <3>1
  <2>9. /\ \A n, rank : WinnerPlace(row, n, rank) \subseteq WinnerPlace(row', n, rank)
        /\ \A n, rank : LoserPlace(row, n, rank) \subseteq LoserPlace(row', n, rank)
    BY <2>7, <2>8 DEF WinnerPlace, LoserPlace
  <2>10. BronzesOf(row') = BronzesOf(row)
    BY <2>4 DEF BronzesOf
  <2>11. GrandSlamPlaces(row) \subseteq GrandSlamPlaces(row')
    BY <2>9 DEF GrandSlamPlaces
  <2>12. \A n : ThirdPlaces(row, n) \subseteq ThirdPlaces(row', n)
    BY <2>4, <2>9, <2>10 DEF ThirdPlaces
  <2>13. \A n : EliminationPlaces(row, n) \subseteq EliminationPlaces(row', n)
    BY <2>9, <2>12 DEF EliminationPlaces
  <2> QED
    BY <2>2, <2>11, <2>13 DEF Places
<1> QED
  BY <1>1, <1>2 DEF Next

(* In a category from which nobody has withdrawn nobody is given two       *)
(* places, and a place shown once is never taken back or given to somebody *)
(* else, however the remaining matches end.                                *)
THEOREM PlacesAreKept ==
  ASSUME WholeDraws
  PROVE  Spec => PlacesStay
<1>0. FullDraws
  BY DrawsAreFull
<1>1. Init => SeatedIInv
  BY <1>0, SeatedInit
<1>2. SeatedIInv /\ [Next]_vars => SeatedIInv'
  BY <1>0, SeatedNext
<1>3. SeatedIInv => PlacesFit
  BY OnePlaceEach
<1>4. SeatedIInv /\ [Next]_vars => Places \subseteq Places'
  BY PlacesKept
<1> QED
  BY <1>1, <1>2, <1>3, <1>4, PTL DEF Spec, PlacesStay
-----------------------------------------------------------------------------
(* Who meets whom in a grand slam *)

(* Competitor c is drawn into that pool.                                   *)
InPool(d, c, group) ==
  \E m \in Contested(d), s \in Sides :
    m.phase = "POOL" /\ m.group = group /\ d.entrants[m][s] = c

(* Who is where, by the pool: pools and semi-finals keep to themselves, a  *)
(* repechage has the losers of the two pools of its half, and a bronze one *)
(* of each half.                                                           *)
FromPool(d, r, m, s, group) ==
  /\ m.phase = "POOL" => group = m.group
  /\ m.phase = "KNOCKOUT_SF" => (m.position = 1 <=> TopPool(group))
  /\ m.phase = "REPECHAGE" =>
       /\ HalfOf(group) = m.group /\ SideOfPool(group) = s
       /\ \E n \in DefeatsIn(d, r, r[m].competitor[s]) : n.phase = "POOL"
  /\ m.phase = "KNOCKOUT_BRONZE" => (s = 1 <=> HalfOf(group) = m.group)

AllFromPools(d, r) ==
  \A m \in Contested(d), s \in Sides :
    r[m].competitor[s] # None =>
      \E group : InPool(d, r[m].competitor[s], group) /\ FromPool(d, r, m, s, group)

(* The same two competitors are in both matches.                           *)
SamePair(r, m, n) ==
  /\ \A s \in Sides : r[m].competitor[s] # None /\ r[n].competitor[s] # None
  /\ \A s \in Sides : \E t \in Sides : r[m].competitor[s] = r[n].competitor[t]
  /\ r[m].competitor[1] # r[m].competitor[2]

NobodyMeetsTwice(d, r) == \A m, n \in d.matches : m # n => ~SamePair(r, m, n)

(* The ways from a match of a grand slam.                                  *)
SlamWays(d, m) ==
  /\ \A s \in Sides : d.entrants[m][s] # None => m.phase = "POOL"
  /\ d.winnerTo[m] # None =>
       LET next == d.winnerTo[m]
       IN  /\ m.phase \in {"POOL", "KNOCKOUT_SF", "REPECHAGE"}
           /\ m.phase = "POOL" =>
                \/ next.phase = "POOL" /\ next.group = m.group
                \/ next.phase = "KNOCKOUT_SF" /\ (next.position = 1 <=> TopPool(m.group))
           /\ m.phase = "KNOCKOUT_SF" => next.phase = "KNOCKOUT_FINAL"
           /\ m.phase = "REPECHAGE" =>
                next.phase = "KNOCKOUT_BRONZE" /\ next.group = m.group /\ d.winnerSide[m] = 1
  /\ d.loserTo[m] # None =>
       LET next == d.loserTo[m]
       IN  /\ m.phase \in {"POOL", "KNOCKOUT_SF"}
           /\ m.phase = "POOL" =>
                /\ next.phase = "REPECHAGE" /\ next.group = HalfOf(m.group)
                /\ d.loserSide[m] = SideOfPool(m.group)
           /\ m.phase = "KNOCKOUT_SF" =>
                /\ next.phase = "KNOCKOUT_BRONZE" /\ next.group = CrossHalf(m.position)
                /\ d.loserSide[m] = 2

LEMMA SlamIsDrawn ==
  ASSUME NEW c \in Categories, c.bracketType = "GRAND_SLAM"
  PROVE  \A m \in Drawn[c].matches : SlamWays(Drawn[c], m)
<1> DEFINE draw == Draw("GRAND_SLAM", c.drawn)
           d == Drawn[c]
           others == RepechageMatches \cup {Semifinal(1), Semifinal(2), Final}
<1>1. d = Generated("GRAND_SLAM", draw, c.registered)
  BY DEF Drawn
<1>2. /\ draw = GrandSlam(c.drawn)
      /\ \A m \in others : m.phase # "POOL"
  BY DEF Draw, RepechageMatches, Repechage, Bronze, Semifinal, Final, Placeholder, MatchId
<1> DEFINE inPools == UNION {DOMAIN Elimination(PoolSize(c.drawn, group), "POOL", group) :
                               group \in SlamPools}
<1>3. /\ DOMAIN draw = inPools \cup others
      /\ \A m \in others : m \notin inPools => draw[m] = Open
      /\ \A m \in inPools : m.phase = "POOL" /\ m = MatchId(m.phase, m.group, m.round, m.position)
  <2> DEFINE pool == [group \in SlamPools |->
                        Seated(Elimination(PoolSize(c.drawn, group), "POOL", group), PoolMembers(c.drawn, group))]
             pools == [m \in UNION {DOMAIN pool[group] : group \in DOMAIN pool} |-> pool[m.group][m]]
  <2>1. draw = WithPlaceholders(pools, others)
    BY <1>2 DEF GrandSlam
  <2>2. DOMAIN pools = inPools
    BY DEF Seated
  <2>3. \A m \in inPools : m.phase = "POOL" /\ m = MatchId(m.phase, m.group, m.round, m.position)
    BY DEF Elimination, MatchId
  <2> HIDE DEF pools, inPools, others, draw
  <2> QED
    BY <2>1, <2>2, <2>3 DEF WithPlaceholders
<1>4. ASSUME NEW m \in others
      PROVE  \A s \in Sides : draw[m][s] = Nobody
  <2>1. draw[m] = Open
    BY <1>2, <1>3, <1>4
  <2> QED
    BY <2>1 DEF Open, Sides
<1> HIDE DEF draw, d, inPools
<1>5. ASSUME NEW routes, NEW match, NEW side, routes \subseteq {Route(match, side)}
      PROVE  \/ Target(routes).match = None
             \/ Target(routes).match = match /\ Target(routes).side = side
  <2>1. routes = {} \/ routes = {Route(match, side)}
    BY <1>5
  <2>2. Target(NoRoutes).match = None
    BY DEF Target, Route
  <2>3. Target({Route(match, side)}) = Route(match, side)
    BY DEF Target, NoRoutes
  <2> QED
    BY <2>1, <2>2, <2>3 DEF NoRoutes, Route
<1>6. \A match, side : Found(draw, Route(match, side)) \subseteq {Route(match, side)}
  BY DEF Found, NoRoutes
<1>7. \A m \in DOMAIN draw : m = MatchId(m.phase, m.group, m.round, m.position)
  <2>1. \A m \in others : m = MatchId(m.phase, m.group, m.round, m.position)
    BY DEF RepechageMatches, Repechage, Bronze, Semifinal, Final, Placeholder, MatchId
  <2> QED
    BY <1>3, <2>1
<1>8. SUFFICES ASSUME NEW m \in DOMAIN draw
               PROVE  SlamWays(d, m)
  <2>1. d.matches = DOMAIN draw
    BY <1>1 DEF Generated
  <2> QED
    BY <2>1 DEF d
<1>9. /\ d.winnerTo[m] = Target(WinnerInGrandSlam(draw, m)).match
      /\ d.winnerSide[m] = Target(WinnerInGrandSlam(draw, m)).side
      /\ d.loserTo[m] = Target(LoserInGrandSlam(draw, m)).match
      /\ d.loserSide[m] = Target(LoserInGrandSlam(draw, m)).side
      /\ \A s \in Sides : d.entrants[m][s] = IF draw[m][s] = Nobody THEN None ELSE draw[m][s]
  BY <1>1 DEF Generated, WinnerRoutes, LoserRoutes
<1>10. \A s \in Sides : d.entrants[m][s] # None => m.phase = "POOL"
  <2>1. CASE m \in others
    BY <1>4, <1>9, <2>1
  <2>2. CASE m \in inPools
    BY <1>3, <2>2
  <2> QED
    BY <1>3, <2>1, <2>2
<1>11. ASSUME NEW match, NEW side
       PROVE  /\ WinnerInGrandSlam(draw, m) = Found(draw, Route(match, side)) =>
                    d.winnerTo[m] = None \/ (d.winnerTo[m] = match /\ d.winnerSide[m] = side)
              /\ LoserInGrandSlam(draw, m) = Found(draw, Route(match, side)) =>
                    d.loserTo[m] = None \/ (d.loserTo[m] = match /\ d.loserSide[m] = side)
              /\ WinnerInGrandSlam(draw, m) = NoRoutes => d.winnerTo[m] = None
              /\ LoserInGrandSlam(draw, m) = NoRoutes => d.loserTo[m] = None
  <2>1. Target(NoRoutes).match = None
    BY DEF Target, Route
  <2> QED
    BY <1>5, <1>6, <1>9, <2>1
<1>12. /\ \A p : Semifinal(p).phase = "KNOCKOUT_SF" /\ Semifinal(p).position = p
       /\ \A h : /\ Repechage(h).phase = "REPECHAGE" /\ Repechage(h).group = h
                 /\ Bronze(h).phase = "KNOCKOUT_BRONZE" /\ Bronze(h).group = h
       /\ Final.phase = "KNOCKOUT_FINAL"
  BY DEF Semifinal, Final, Repechage, Bronze, Placeholder, MatchId
<1>13. m.phase \in {"POOL", "KNOCKOUT_SF", "KNOCKOUT_FINAL", "REPECHAGE", "KNOCKOUT_BRONZE"}
  <2>1. CASE m \in others
    BY <1>12, <2>1 DEF RepechageMatches
  <2> QED
    BY <1>3, <2>1
<1>14. CASE m.phase = "POOL" /\ IsPoolFinal(draw, m)
  <2>1. /\ WinnerInGrandSlam(draw, m)
             = Found(draw, Route(Semifinal(IF TopPool(m.group) THEN 1 ELSE 2), SideOfPool(m.group)))
        /\ LoserInGrandSlam(draw, m)
             = Found(draw, Route(Repechage(HalfOf(m.group)), SideOfPool(m.group)))
    BY <1>14 DEF WinnerInGrandSlam, LoserInGrandSlam, HalfOf
  <2>2. d.winnerTo[m] \in {None, Semifinal(IF TopPool(m.group) THEN 1 ELSE 2)}
    BY <1>11, <2>1
  <2>3. \/ d.loserTo[m] = None
        \/ d.loserTo[m] = Repechage(HalfOf(m.group)) /\ d.loserSide[m] = SideOfPool(m.group)
    BY <1>11, <2>1
  <2> QED
    BY <1>10, <1>12, <1>14, <2>2, <2>3 DEF SlamWays
<1>15. CASE m.phase = "POOL" /\ ~IsPoolFinal(draw, m)
  <2>1. WinnerInGrandSlam(draw, m) = Found(draw, NextSlot(m)) /\ LoserInGrandSlam(draw, m) = NoRoutes
    BY <1>15 DEF WinnerInGrandSlam, LoserInGrandSlam
  <2> DEFINE match == [m EXCEPT !.round = @ + 1, !.position = (@ + 1) \div 2]
  <2>2. match.phase = m.phase /\ match.group = m.group
    BY <1>7 DEF MatchId
  <2>3. d.winnerTo[m] \in {None, match} /\ d.loserTo[m] = None
    <3>1. NextSlot(m) = Route(match, IF m.position % 2 = 1 THEN 1 ELSE 2)
      BY DEF NextSlot
    <3> HIDE DEF match
    <3> QED
      BY <1>11, <2>1, <3>1
  <2> HIDE DEF match
  <2> QED
    BY <1>10, <1>15, <2>2, <2>3 DEF SlamWays
<1>16. CASE m.phase = "KNOCKOUT_SF"
  <2>1. /\ WinnerInGrandSlam(draw, m) = Found(draw, Route(Final, IF m.position = 1 THEN 1 ELSE 2))
        /\ LoserInGrandSlam(draw, m) = Found(draw, Route(Bronze(CrossHalf(m.position)), 2))
    BY <1>16 DEF WinnerInGrandSlam, LoserInGrandSlam, IsPoolFinal
  <2>2. d.winnerTo[m] \in {None, Final}
    BY <1>11, <2>1
  <2>3. \/ d.loserTo[m] = None
        \/ d.loserTo[m] = Bronze(CrossHalf(m.position)) /\ d.loserSide[m] = 2
    BY <1>11, <2>1
  <2> QED
    BY <1>10, <1>12, <1>16, <2>2, <2>3 DEF SlamWays
<1>17. CASE m.phase = "REPECHAGE"
  <2>1. WinnerInGrandSlam(draw, m) = Found(draw, Route(Bronze(m.group), 1)) /\ LoserInGrandSlam(draw, m) = NoRoutes
    BY <1>17 DEF WinnerInGrandSlam, LoserInGrandSlam, IsPoolFinal
  <2>2. d.loserTo[m] = None /\ (d.winnerTo[m] = None \/ (d.winnerTo[m] = Bronze(m.group) /\ d.winnerSide[m] = 1))
    BY <1>11, <2>1
  <2> QED
    BY <1>10, <1>12, <1>17, <2>2 DEF SlamWays
<1>18. CASE m.phase \in {"KNOCKOUT_FINAL", "KNOCKOUT_BRONZE"}
  <2>1. WinnerInGrandSlam(draw, m) = NoRoutes /\ LoserInGrandSlam(draw, m) = NoRoutes
    BY <1>18 DEF WinnerInGrandSlam, LoserInGrandSlam, IsPoolFinal
  <2> QED
    BY <1>10, <1>11, <1>18, <2>1 DEF SlamWays
<1> QED
  BY <1>13, <1>14, <1>15, <1>16, <1>17, <1>18

(* Where somebody waits who has been in a match that is over, it was not   *)
(* against the same opponent.                                              *)
LEMMA NoRematchAwaits ==
  ASSUME NEW d, NEW r, WellDrawn(d), TurnsInv(d, r), DOMAIN r = d.matches, AllFromPools(d, r),
         \A m \in d.matches : SlamWays(d, m),
         NEW m \in d.matches, NEW n \in d.matches, Over(r, m), ~Over(r, n), SamePair(r, m, n)
  PROVE  FALSE
<1>1. m \in Contested(d) /\ n \in Contested(d) /\ m \notin d.byes
  <2>1. \A o \in {m, n}, s \in Sides : r[o].competitor[s] # None
    BY DEF SamePair
  <2>2. m \notin d.byes
    BY <2>1 DEF WellDrawn, TurnsInv, FoughtRows
  <2> QED
    BY <2>1, <2>2 DEF TurnsInv, FoughtRows, Contested
<1>2. PICK side \in Sides : /\ r[m].winner = r[m].competitor[side]
                            /\ r[m].competitor[side] # r[m].competitor[3 - side]
  BY <1>1 DEF TurnsInv, FoughtRows
<1> DEFINE loser == r[m].competitor[3 - side]
<1>3. m \in DefeatsIn(d, r, loser) /\ loser # None /\ 3 - side \in Sides
  <2>1. /\ \A s \in Sides : r[m].competitor[s] # None
        /\ 3 - side \in Sides /\ 3 - side # side /\ \A s \in Sides : s \in {side, 3 - side}
    BY OtherSide DEF SamePair
  <2>2. Done(r, m) /\ Loser(r[m], r[m].winner) = loser
    BY <1>2, <2>1 DEF Done, Exists, Over, Loser, Sides
  <2> QED
    BY <2>1, <2>2 DEF DefeatsIn, Beaten
<1>4. PICK t \in Sides : r[n].competitor[t] = loser
  BY <1>3 DEF SamePair
<1> HIDE DEF loser
<1>5. n \in Consolation(d) /\ d.loserTo[m] # None /\ DefeatsIn(d, r, loser) = {m}
  BY <1>1, <1>3, <1>4 DEF TurnsInv, DefeatsFit
<1>6. m.phase \in {"POOL", "KNOCKOUT_SF"} /\ n.phase \in {"REPECHAGE", "KNOCKOUT_BRONZE"}
  BY <1>5 DEF SlamWays, Consolation
<1>7. PICK g1, g2 : /\ FromPool(d, r, n, 1, g1) /\ InPool(d, r[n].competitor[1], g1)
                    /\ FromPool(d, r, n, 2, g2) /\ InPool(d, r[n].competitor[2], g2)
  BY <1>1 DEF AllFromPools, SamePair, Sides
<1>8. ASSUME NEW c, NEW g, NEW h, c # None, InPool(d, c, g), InPool(d, c, h)
      PROVE  g = h
  BY <1>8 DEF InPool, WellDrawn, EnteredOnce
<1>9. g1 # g2 /\ (n.phase = "KNOCKOUT_BRONZE" => (TopPool(g1) <=> ~TopPool(g2)))
  <2>1. CASE n.phase = "REPECHAGE"
    BY <1>7, <2>1 DEF FromPool
  <2>2. CASE n.phase = "KNOCKOUT_BRONZE"
    BY <1>7, <2>2 DEF FromPool, HalfOf
  <2> QED
    BY <1>6, <2>1, <2>2
<1>10. \A s \in Sides : \E u \in Sides : \E g :
         /\ r[n].competitor[s] = r[m].competitor[u]
         /\ InPool(d, r[n].competitor[s], g) /\ FromPool(d, r, m, u, g)
  <2> SUFFICES ASSUME NEW s \in Sides
               PROVE  \E u \in Sides : \E g :
                        /\ r[n].competitor[s] = r[m].competitor[u]
                        /\ InPool(d, r[n].competitor[s], g) /\ FromPool(d, r, m, u, g)
    OBVIOUS
  <2>1. PICK u \in Sides : r[n].competitor[s] = r[m].competitor[u]
    <3>1. \E v, w \in Sides : /\ r[m].competitor[1] = r[n].competitor[v]
                              /\ r[m].competitor[2] = r[n].competitor[w]
                              /\ v # w
      BY DEF SamePair, Sides
    <3> QED
      BY <3>1 DEF Sides
  <2>2. \E g : InPool(d, r[m].competitor[u], g) /\ FromPool(d, r, m, u, g)
    BY <1>1 DEF AllFromPools, SamePair
  <2> QED
    BY <2>1, <2>2
<1>11. \E u, v \in Sides : FromPool(d, r, m, u, g1) /\ FromPool(d, r, m, v, g2)
  <2>1. 1 \in Sides /\ 2 \in Sides /\ r[n].competitor[1] # None /\ r[n].competitor[2] # None
    BY DEF SamePair, Sides
  <2> QED
    BY <1>7, <1>8, <1>10, <2>1
<1>12. CASE m.phase = "POOL"
  BY <1>9, <1>11, <1>12 DEF FromPool
<1>13. CASE m.phase = "KNOCKOUT_SF"
  <2>1. TopPool(g1) <=> TopPool(g2)
    BY <1>11, <1>13 DEF FromPool
  <2>2. n.phase = "REPECHAGE"
    BY <1>6, <1>9, <2>1
  <2>3. \E o \in DefeatsIn(d, r, loser) : o.phase = "POOL"
    <3>1. \A s \in Sides : \E o \in DefeatsIn(d, r, r[n].competitor[s]) : o.phase = "POOL"
      BY <1>7, <2>2 DEF FromPool, Sides
    <3> QED
      BY <1>4, <3>1
  <2> QED
    BY <1>5, <1>13, <2>3
<1> QED
  BY <1>6, <1>12, <1>13

LEMMA AllStayFromPools ==
  ASSUME NEW d, NEW r, NEW q, NEW m, NEW side, NEW k, AFight(d, r, q, m, side, k),
         DOMAIN r = d.matches, DOMAIN q = d.matches,
         \A n \in d.matches : SlamWays(d, n), AllFromPools(d, r)
  PROVE  AllFromPools(d, q)
<1>a. /\ m \in d.matches /\ side \in Sides
      /\ WellDrawn(d) /\ TurnsInv(d, r) /\ IsFought(d, r, q, m, side, k)
  BY DEF AFight
<1> DEFINE winner == r[m].competitor[side]
           loser == r[m].competitor[3 - side]
<1>b. m \in Contested(d) /\ 3 - side \in Sides /\ winner # None /\ loser # None
  BY <1>a, RoomForBoth, OtherSide DEF IsFought
<1>c. \A c : DefeatsIn(d, r, c) \subseteq DefeatsIn(d, q, c)
  <2>1. /\ \A n \in d.matches : Over(q, n) <=> Over(r, n) \/ n = m
        /\ \A n \in d.matches : n # m /\ Over(r, n) => Beaten(q, n) = Beaten(r, n)
    BY RowsKept, BeatenOnce
  <2>2. ~Over(r, m)
    BY <1>a DEF IsFought, Over
  <2> QED
    BY <2>1, <2>2 DEF DefeatsIn
<1>d. m \in DefeatsIn(d, q, loser)
  BY <1>a, RowsKept, BeatenOnce DEF DefeatsIn
<1>e. PICK gw : InPool(d, winner, gw) /\ FromPool(d, r, m, side, gw)
  BY <1>a, <1>b DEF AllFromPools
<1>f. PICK gl : InPool(d, loser, gl) /\ FromPool(d, r, m, 3 - side, gl)
  BY <1>a, <1>b DEF AllFromPools
<1> SUFFICES ASSUME NEW n \in Contested(d), NEW s \in Sides, q[n].competitor[s] # None
             PROVE  \E group : InPool(d, q[n].competitor[s], group) /\ FromPool(d, q, n, s, group)
  BY DEF AllFromPools
<1>1. n \in d.matches /\ n # None
  BY <1>a DEF Contested, WellDrawn
<1>2. \/ n = d.winnerTo[m] /\ s = d.winnerSide[m] /\ q[n].competitor[s] = winner
      \/ n = d.loserTo[m] /\ s = k /\ q[n].competitor[s] = loser
      \/ q[n].competitor[s] = r[n].competitor[s]
  BY <1>a, <1>1 DEF IsFought
<1> HIDE DEF winner, loser
<1>3. CASE n = d.winnerTo[m] /\ s = d.winnerSide[m] /\ q[n].competitor[s] = winner
  <2>1. SlamWays(d, m)
    BY <1>a
  <2>2. FromPool(d, q, n, s, gw)
    <3>1. CASE m.phase = "POOL"
      BY <1>1, <1>3, <1>e, <2>1, <3>1 DEF SlamWays, FromPool
    <3>2. CASE m.phase = "KNOCKOUT_SF"
      BY <1>1, <1>3, <1>e, <2>1, <3>2 DEF SlamWays, FromPool
    <3>3. CASE m.phase = "REPECHAGE"
      BY <1>1, <1>3, <1>e, <2>1, <3>3 DEF SlamWays, FromPool
    <3> QED
      BY <1>1, <1>3, <2>1, <3>1, <3>2, <3>3 DEF SlamWays
  <2> QED
    BY <1>3, <1>e, <2>2
<1>4. CASE n = d.loserTo[m] /\ s = k /\ q[n].competitor[s] = loser
  <2>1. SlamWays(d, m) /\ (d.loserSide[m] \in Sides => k = d.loserSide[m])
    BY <1>a DEF IsFought, Sides, ArrivalOrder
  <2>2. FromPool(d, q, n, s, gl)
    <3>1. CASE m.phase = "POOL"
      BY <1>1, <1>4, <1>d, <1>f, <2>1, <3>1 DEF SlamWays, FromPool, SideOfPool, Sides
    <3>2. CASE m.phase = "KNOCKOUT_SF"
      BY <1>1, <1>4, <1>f, <2>1, <3>2 DEF SlamWays, FromPool, HalfOf, CrossHalf, Sides
    <3> QED
      BY <1>1, <1>4, <2>1, <3>1, <3>2 DEF SlamWays
  <2> QED
    BY <1>4, <1>f, <2>2
<1>5. CASE q[n].competitor[s] = r[n].competitor[s]
  BY <1>5, <1>c DEF AllFromPools, FromPool
<1> QED
  BY <1>2, <1>3, <1>4, <1>5

LEMMA NobodyMeetsAgain ==
  ASSUME NEW d, NEW r, NEW q, NEW m, NEW side, NEW k, AFight(d, r, q, m, side, k),
         DOMAIN r = d.matches, DOMAIN q = d.matches, TurnsInv(d, q),
         \A n \in d.matches : SlamWays(d, n), AllFromPools(d, q), NobodyMeetsTwice(d, r)
  PROVE  NobodyMeetsTwice(d, q)
<1>1. WellDrawn(d)
  BY DEF AFight
<1> SUFFICES ASSUME NEW n \in d.matches, NEW o \in d.matches, n # o, SamePair(q, n, o)
             PROVE  FALSE
  BY DEF NobodyMeetsTwice
<1>2. SamePair(q, o, n)
  BY DEF SamePair, Sides
<1>3. CASE Over(q, n) /\ Over(q, o)
  <2>1. \A s \in Sides : /\ q[n].competitor[s] = r[n].competitor[s]
                         /\ q[o].competitor[s] = r[o].competitor[s]
    BY <1>3, RowsKept
  <2>2. SamePair(r, n, o)
    BY <2>1 DEF SamePair, Sides
  <2> QED
    BY <2>2 DEF NobodyMeetsTwice
<1>4. CASE Over(q, n) /\ ~Over(q, o)
  BY <1>1, <1>4, NoRematchAwaits
<1>5. CASE ~Over(q, n) /\ Over(q, o)
  BY <1>1, <1>2, <1>5, NoRematchAwaits
<1>6. CASE ~Over(q, n) /\ ~Over(q, o)
  <2>1. \A s \in Sides : q[n].competitor[s] # None /\ q[o].competitor[s] # None
    BY DEF SamePair
  <2>2. n \in Contested(d) /\ o \in Contested(d)
    BY <1>6, <2>1 DEF TurnsInv, FoughtRows, Contested
  <2> QED
    BY <1>6, <2>1, <2>2 DEF TurnsInv, OneSlotEach, SamePair, Sides
<1> QED
  BY <1>3, <1>4, <1>5, <1>6

MeetIInv ==
  /\ TurnsIInv
  /\ category.bracketType = "GRAND_SLAM" =>
       AllFromPools(TheDraw, row) /\ NobodyMeetsTwice(TheDraw, row)

LEMMA MeetInit == FullDraws /\ Init => MeetIInv
<1> SUFFICES ASSUME FullDraws, Init, category.bracketType = "GRAND_SLAM"
             PROVE  AllFromPools(TheDraw, row) /\ NobodyMeetsTwice(TheDraw, row)
  BY InitTurns DEF MeetIInv
<1> DEFINE d == TheDraw
<1>1. TurnsIInv
  BY InitTurns
<1>2. category \in Categories /\ WellDrawn(d) /\ TurnsInv(d, row) /\ DOMAIN row = d.matches
  BY <1>1, DrawIsWell DEF TurnsIInv, Typing, TheDraw
<1>3. \A m \in d.matches : SlamWays(d, m)
  BY <1>2, SlamIsDrawn DEF TheDraw
<1>4. \A m \in d.matches, s \in Sides : row[m].competitor[s] = d.entrants[m][s]
  <2>1. PICK c \in Categories : category = c /\ Bracket(c, Drawn[c])!Init
    BY DEF Init
  <2> QED
    BY <2>1 DEF Bracket!Init, Bracket!DrawnRow, TheDraw
<1> HIDE DEF d
<1>5. AllFromPools(d, row)
  <2> SUFFICES ASSUME NEW m \in Contested(d), NEW s \in Sides, row[m].competitor[s] # None
               PROVE  \E group : InPool(d, row[m].competitor[s], group) /\ FromPool(d, row, m, s, group)
    BY DEF AllFromPools
  <2>1. m \in d.matches /\ m.phase = "POOL"
    BY <1>3, <1>4 DEF SlamWays, Contested
  <2>2. InPool(d, row[m].competitor[s], m.group)
    BY <1>4, <2>1 DEF InPool
  <2> QED
    BY <2>1, <2>2 DEF FromPool
<1>6. NobodyMeetsTwice(d, row)
  <2> SUFFICES ASSUME NEW m \in d.matches, NEW n \in d.matches, m # n, SamePair(row, m, n)
               PROVE  FALSE
    BY DEF NobodyMeetsTwice
  <2>1. \A s \in Sides : d.entrants[m][s] # None /\ d.entrants[n][s] # None
    BY <1>4 DEF SamePair
  <2>2. m \in Contested(d) /\ n \in Contested(d)
    BY <1>2, <2>1 DEF WellDrawn, Contested, Fed
  <2>3. \E s \in Sides : d.entrants[m][1] = d.entrants[n][s]
    BY <1>4 DEF SamePair, Sides
  <2> QED
    BY <1>2, <2>1, <2>2, <2>3 DEF WellDrawn, EnteredOnce, Sides
<1> QED
  BY <1>5, <1>6 DEF d

LEMMA MeetNext == FullDraws /\ MeetIInv /\ [Next]_vars => MeetIInv'
<1> SUFFICES ASSUME FullDraws, MeetIInv, [Next]_vars PROVE MeetIInv'
  OBVIOUS
<1>1. CASE UNCHANGED vars
  BY <1>1 DEF vars, MeetIInv, TurnsIInv, Typing, TheDraw
<1>2. ASSUME NEW c \in Categories, NEW m \in Called, NEW side \in Sides, Fight(c, Drawn[c], m, side)
      PROVE  MeetIInv'
  <2>1. m \in Ready /\ TurnsIInv /\ TurnsIInv'
    BY TurnsNext DEF Called, MeetIInv
  <2>2. Typing' /\ UNCHANGED <<TheDraw, category>> /\ TheDraw = Drawn[c] /\ category = c
    BY <1>2, <2>1, FightIsAFight DEF Fight
  <2>3. PICK k : AFight(TheDraw, row, row', m, side, k)
    BY <1>2, <2>1, FightIsAFight
  <2>4. /\ DOMAIN row = TheDraw.matches /\ DOMAIN row' = TheDraw.matches
        /\ TurnsInv(TheDraw, row')
    BY <2>1, <2>2 DEF TurnsIInv, Typing, TheDraw
  <2>5. ASSUME category.bracketType = "GRAND_SLAM"
        PROVE  AllFromPools(TheDraw, row') /\ NobodyMeetsTwice(TheDraw, row')
    <3>1. \A n \in TheDraw.matches : SlamWays(TheDraw, n)
      BY <2>2, <2>5, SlamIsDrawn
    <3>2. AllFromPools(TheDraw, row) /\ NobodyMeetsTwice(TheDraw, row)
      BY <2>5 DEF MeetIInv
    <3>3. AllFromPools(TheDraw, row')
      BY <2>3, <2>4, <3>1, <3>2, AllStayFromPools
    <3> QED
      BY <2>3, <2>4, <3>1, <3>2, <3>3, NobodyMeetsAgain
  <2> QED
    BY <2>1, <2>2, <2>5 DEF MeetIInv
<1> QED
  BY <1>1, <1>2 DEF Next

(* In every grand slam nobody is drawn against the same opponent twice, on *)
(* the way to the final or to a bronze, whoever wins: the loser of a       *)
(* semi-final meets the repechage of the other half.                       *)
THEOREM NobodyMeetsTheSameTwice ==
  ASSUME FullDraws
  PROVE  Spec => []NoRematch
<1>1. Init => MeetIInv
  BY MeetInit
<1>2. MeetIInv /\ [Next]_vars => MeetIInv'
  BY MeetNext
<1>3. MeetIInv => NoRematch
  <2> SUFFICES ASSUME MeetIInv, category.bracketType = "GRAND_SLAM"
               PROVE  LET pairs == {m \in DOMAIN row : Cardinality(Seats(m)) = 2}
                      IN  Cardinality({Seats(m) : m \in pairs}) = Cardinality(pairs)
    BY DEF NoRematch
  <2> DEFINE pairs == {m \in DOMAIN row : Cardinality(Seats(m)) = 2}
             met == {Seats(m) : m \in pairs}
             seatsOf == [m \in pairs |-> Seats(m)]
             n == category.drawn
  <2>1. PICK c \in Categories : /\ category = c
                                /\ row \in [Drawn[c].matches -> Bracket(c, Drawn[c])!Row]
    BY DEF MeetIInv, TurnsIInv, Typing
  <2>2. NobodyMeetsTwice(Drawn[c], row) /\ DOMAIN row = Drawn[c].matches
    BY <2>1 DEF MeetIInv, TheDraw
  <2>3. \A m \in pairs : /\ row[m].competitor[1] # None /\ row[m].competitor[2] # None
                         /\ row[m].competitor[1] # row[m].competitor[2]
                         /\ Seats(m) = {row[m].competitor[1], row[m].competitor[2]}
    <3> SUFFICES ASSUME NEW m \in pairs
                 PROVE  /\ row[m].competitor[1] # None /\ row[m].competitor[2] # None
                        /\ row[m].competitor[1] # row[m].competitor[2]
                        /\ Seats(m) = {row[m].competitor[1], row[m].competitor[2]}
      OBVIOUS
    <3>1. Cardinality(Seats(m)) = 2
      OBVIOUS
    <3>2. Seats(m) = {row[m].competitor[1], row[m].competitor[2]} \ {None}
      BY DEF Seats, Sides
    <3>3. Cardinality({}) = 0
      BY FS_EmptySet
    <3>4. Seats(m) # {}
      BY <3>1, <3>3
    <3>5. ASSUME NEW x, Seats(m) = {x}
          PROVE  FALSE
      <4>1. Cardinality({x}) = 1
        BY FS_Singleton
      <4> QED
        BY <3>1, <3>5, <4>1
    <3> QED
      BY <3>2, <3>4, <3>5
  <2>4. \A m, o \in pairs : Seats(m) = Seats(o) => m = o
    <3> SUFFICES ASSUME NEW m \in pairs, NEW o \in pairs, Seats(m) = Seats(o), m # o
                 PROVE  FALSE
      OBVIOUS
    <3>1. SamePair(row, m, o)
      BY <2>3 DEF SamePair, Sides
    <3> QED
      BY <2>2, <3>1 DEF NobodyMeetsTwice
  <2>5. met \subseteq SUBSET (0..(n - 1))
    <3>1. \A m \in pairs : Seats(m) \subseteq 0..(n - 1)
      BY <2>1 DEF Seats, Bracket!Row, Bracket!MaybeCompetitor, Bracket!Sides, Sides
    <3> QED
      BY <3>1
  <2>6. IsFiniteSet(met)
    <3>1. IsFiniteSet(0..(n - 1))
      BY <2>1, TournamentTypes, FS_Interval
    <3>2. IsFiniteSet(SUBSET (0..(n - 1)))
      BY <3>1, FS_SUBSET
    <3> QED
      BY <2>5, <3>2, FS_Subset
  <2>7. seatsOf \in Injection(pairs, met) /\ seatsOf \in Surjection(pairs, met)
    <3> HIDE DEF pairs
    <3> QED
      BY <2>4 DEF Injection, Surjection, IsInjective
  <2> QED
    BY <2>6, <2>7, FS_Injection
<1> QED
  BY <1>1, <1>2, <1>3, PTL DEF Spec
-----------------------------------------------------------------------------
(* Medals of an elimination *)

(* With four competitors or more both semi-finals are fought, by two each. *)
LEMMA SemifinalsAreFought ==
  ASSUME NEW c \in Categories, IsElimination(c), c.drawn >= 4
  PROVE  LET d == Drawn[c]
             total == TotalRoundsFor(c.drawn)
             semifinals == {m \in MainOf(c) : m.round = total - 1}
         IN  /\ total >= 2
             /\ \E m, n \in semifinals : m # n /\ semifinals = {m, n}
             /\ \A m \in semifinals :
                  /\ m \in Contested(d) /\ d.winnerTo[m] = FinalFor(c.drawn)
                  /\ d.winnerSide[m] \in Sides
<1> DEFINE n == c.drawn
           d == Drawn[c]
           total == TotalRoundsFor(n)
           semifinals == {m \in MainOf(c) : m.round = total - 1}
           semi(p) == MatchId("MAIN", NoGroup, total - 1, p)
<1>0. IsCategory(c) /\ d = DrawOf(c)
  BY CategoriesAre
<1>1. n \in Nat /\ n > 1 /\ total \in Nat /\ total >= 1 /\ n <= 2^total /\ 2^total \in Nat
  BY TournamentTypes, RoundsOfBracket, PowersOfTwo DEF IsElimination
<1>2. total >= 2
  <2> SUFFICES ASSUME total = 1 PROVE FALSE
    BY <1>1
  <2> HIDE DEF total
  <2>1. 2^total = 2
    BY SmallPowers
  <2> QED
    BY <1>1, <2>1
<1>3. \A l : l \in MainOf(c) <=>
        \E round \in 1..total : \E position \in 1..2^(total - round) :
          l = MatchId("MAIN", NoGroup, round, position)
  BY <1>1, EliminationSlots DEF MainOf
<1>4. total - (total - 1) = 1 /\ total - 1 \in 1..total
  BY <1>1, <1>2
<1>5. 2^(total - (total - 1)) = 2
  <2> DEFINE k == total - (total - 1)
  <2>1. k = 1
    BY <1>4
  <2> HIDE DEF k
  <2>2. 2^k = 2
    BY <2>1, SmallPowers
  <2> QED
    BY <2>2 DEF k
<1> HIDE DEF n, d, total
<1>6. \A m \in MainOf(c) : m.round = total - 1 => m \in {semi(1), semi(2)}
  <2> SUFFICES ASSUME NEW m \in MainOf(c), m.round = total - 1
               PROVE  m \in {semi(1), semi(2)}
    OBVIOUS
  <2>1. /\ m.position \in 1..2^(total - m.round)
        /\ m = MatchId("MAIN", NoGroup, m.round, m.position)
    BY <1>0, MainMatches DEF total, n
  <2>2. m.position \in 1..2
    BY <1>5, <2>1
  <2> QED
    BY <2>1, <2>2
<1>7. semi(1) \in MainOf(c) /\ semi(2) \in MainOf(c)
  BY <1>3, <1>4, <1>5
<1>8. semi(1) # semi(2) /\ semi(1).round = total - 1 /\ semi(2).round = total - 1
  BY DEF MatchId
<1>9. semifinals = {semi(1), semi(2)}
  BY <1>6, <1>7, <1>8
<1>10. \E m, l \in semifinals : m # l /\ semifinals = {m, l}
  BY <1>7, <1>8, <1>9
<1>11. ASSUME NEW m \in semifinals
       PROVE  /\ m \in Contested(d) /\ d.winnerTo[m] = FinalFor(n)
              /\ d.winnerSide[m] \in Sides
  <2>1. /\ m.position \in 1..2 /\ m \in MainOf(c) /\ m.round = total - 1
    BY <1>6, <1>8 DEF MatchId
  <2>2. /\ m \in d.matches /\ d.winnerTo[m] \in MainOf(c) /\ d.winnerTo[m].round = total
        /\ d.winnerTo[m].position = (m.position + 1) \div 2
        /\ d.winnerSide[m] = IF m.position % 2 = 1 THEN 1 ELSE 2
        /\ m \in d.byes => m.round = 1 /\ FirstRound(n, m.position)[2] = Nobody
    <3>1. m.round < total /\ m.round + 1 = total
      BY <1>1, <2>1
    <3>2. /\ m \in d.matches
          /\ m \in d.byes => m.round = 1 /\ FirstRound(n, m.position)[2] = Nobody
      BY <1>0, <2>1, MainMatches DEF n
    <3>3. m.round < TotalRoundsFor(c.drawn)
      BY <3>1 DEF total, n
    <3> QED
      BY <1>0, <2>1, <3>1, <3>2, <3>3, MainMatches
  <2>3. d.winnerTo[m] = FinalFor(n)
    <3>1. d.winnerTo[m] = MatchId("MAIN", NoGroup, total, (m.position + 1) \div 2)
      BY <1>0, <2>2, MainMatches
    <3>2. (m.position + 1) \div 2 = 1
      BY <2>1
    <3> QED
      BY <3>1, <3>2 DEF FinalFor, total
  <2>4. CASE total = 2
    <3>1. n = 4
      <4>1. 2^total = 4
        BY <2>4, SmallPowers
      <4> QED
        BY <1>1, <4>1 DEF n
    <3>2. m.position \in 1..2^(total - 1) /\ 2 * m.position \in 1..2^total
      <4>1. total - 1 = 1
        BY <2>4
      <4>2. 2^(total - 1) = 2 /\ 2^total = 4
        BY <2>4, <4>1, SmallPowers
      <4> QED
        BY <2>1, <4>2
    <3>3. Seedings[total][2 * m.position] < n /\ Seedings[total][2 * m.position] \in Nat
      <4>1. Seedings[total][2 * m.position] \in 0..(2^total - 1)
        BY <1>1, <3>2, SeedsHavePlaces DEF SeedsAreSet
      <4>2. 2^total = 4
        BY <2>4, SmallPowers
      <4> QED
        BY <3>1, <4>1, <4>2
    <3>4. FirstRound(n, m.position)[1] # Nobody /\ FirstRound(n, m.position)[2] # Nobody
      BY <1>1, <3>2, <3>3, FirstRoundSlots DEF Nobody, total
    <3>5. m.round = 1 /\ m \notin d.byes
      BY <2>1, <2>2, <2>4, <3>4
    <3>6. \A s \in Sides : d.entrants[m][s] # None
      <4>1. Elimination(n, "MAIN", NoGroup)[m] = FirstRound(n, m.position)
        BY <1>1, <2>1, <3>5, EliminationSlots DEF MainOf, n
      <4>2. \A s \in Sides : Elimination(n, "MAIN", NoGroup)[m][s] \in 0..(n - 1)
        BY <1>1, <3>2, <3>4, <4>1, FirstRoundSlots DEF Sides, total
      <4>3. \A s \in Sides : d.entrants[m][s] = Elimination(n, "MAIN", NoGroup)[m][s]
        BY <1>0, <1>1, <2>1, <3>4, <4>1, EliminationMain DEF Sides, IsElimination, n
      <4>4. None \notin 0..(n - 1)
        BY DrawsAreTyped DEF Bracket!DrawTypes, n
      <4> QED
        BY <4>2, <4>3, <4>4
    <3> QED
      BY <2>2, <2>3, <3>5, <3>6 DEF Contested, Fed, Sides
  <2>5. CASE total # 2
    <3>1. m \notin d.byes
      BY <1>1, <1>2, <2>1, <2>2, <2>5
    <3>2. \A s \in Sides : Fed(d, m, s)
      <4> SUFFICES ASSUME NEW s \in Sides
                   PROVE  \E l \in d.matches : d.winnerTo[l] = m /\ d.winnerSide[l] = s
        BY DEF Fed
      <4> DEFINE l == MatchId("MAIN", NoGroup, total - 2, 2 * m.position - 2 + s)
      <4>1. 2^(total - (total - 2)) = 4
        <5> DEFINE k == total - (total - 2)
        <5>1. k = 2
          BY <1>1
        <5> HIDE DEF k
        <5>2. 2^k = 4
          BY <5>1, SmallPowers
        <5> QED
          BY <5>2 DEF k
      <4>2. 2 * m.position - 2 + s \in 1..4 /\ total - 2 \in 1..total
        BY <1>1, <1>2, <2>1, <2>5 DEF Sides
      <4>3. l \in MainOf(c)
        BY <1>3, <4>1, <4>2
      <4>4. l.round = total - 2 /\ l.position = 2 * m.position - 2 + s
        BY DEF MatchId
      <4> HIDE DEF l
      <4>5. /\ l \in d.matches /\ d.winnerTo[l] \in MainOf(c) /\ d.winnerTo[l].round = total - 1
            /\ d.winnerTo[l].position = (l.position + 1) \div 2
            /\ d.winnerSide[l] = IF l.position % 2 = 1 THEN 1 ELSE 2
        <5>1. l.round < TotalRoundsFor(c.drawn) /\ l.round + 1 = total - 1
          BY <1>1, <4>4 DEF total, n
        <5> QED
          BY <1>0, <4>3, <5>1, MainMatches
      <4>6. d.winnerTo[l].position = m.position /\ d.winnerSide[l] = s
        BY <2>1, <4>4, <4>5 DEF Sides
      <4>7. d.winnerTo[l] = m
        BY <1>0, <2>1, <4>5, <4>6, MainMatches
      <4> QED
        BY <4>5, <4>6, <4>7
    <3> QED
      BY <2>2, <2>3, <3>1, <3>2 DEF Contested, Sides
  <2> QED
    BY <2>4, <2>5
<1> QED
  BY <1>2, <1>10, <1>11 DEF n, d, total

LEMMA FourPlaces ==
  ASSUME NEW gold, NEW silver, NEW left, NEW right, left # right,
         Places = {Place(1, gold), Place(2, silver), Place(3, left), Place(3, right)}
  PROVE  HasPodium
<1>1. /\ {p \in Places : p.rank = 1} = {Place(1, gold)}
      /\ {p \in Places : p.rank = 2} = {Place(2, silver)}
      /\ {p \in Places : p.rank = 3} = {Place(3, left), Place(3, right)}
  BY DEF Place
<1>2. Place(3, left) # Place(3, right)
  BY DEF Place
<1>3. Cardinality({p \in Places : p.rank = 1}) = 1
  <2>1. Cardinality({Place(1, gold)}) = 1
    BY FS_Singleton
  <2> QED
    BY <1>1, <2>1
<1>4. Cardinality({p \in Places : p.rank = 2}) = 1
  <2>1. Cardinality({Place(2, silver)}) = 1
    BY FS_Singleton
  <2> QED
    BY <1>1, <2>1
<1>5. Cardinality({p \in Places : p.rank = 3}) = 2
  <2>1. Cardinality({Place(3, left), Place(3, right)}) = 2
    BY <1>2, TwoElements
  <2> QED
    BY <1>1, <2>1
<1> SUFFICES ASSUME NEW rank \in 1..3
             PROVE  Cardinality({p \in Places : p.rank = rank}) = IF rank = 3 THEN 2 ELSE 1
  BY DEF HasPodium
<1>6. rank = 1 \/ rank = 2 \/ rank = 3
  OBVIOUS
<1>7. CASE rank = 1
  BY <1>3, <1>7
<1>8. CASE rank = 2
  BY <1>4, <1>8
<1>9. CASE rank = 3
  BY <1>5, <1>9
<1> QED
  BY <1>6, <1>7, <1>8, <1>9

(* Somebody has lost a match that is over and no bye.                      *)
LEMMA FoughtHasLoser ==
  ASSUME NEW d, NEW r, FoughtRows(d, r), DOMAIN r = d.matches,
         NEW m \in d.matches, m \notin d.byes, Over(r, m)
  PROVE  /\ Beaten(r, m) = {Loser(r[m], r[m].winner)} /\ Done(r, m)
         /\ \A s \in Sides : r[m].competitor[s] # None
<1>1. PICK side \in Sides :
        /\ r[m].winner = r[m].competitor[side]
        /\ r[m].competitor[side] # None /\ r[m].competitor[3 - side] # None
  BY DEF FoughtRows
<1>2. \A s \in Sides : r[m].competitor[s] # None
  BY <1>1 DEF Sides
<1> QED
  BY <1>1, <1>2 DEF Beaten, Done, Exists, Over

LEMMA CompleteIsPodium ==
  ASSUME SeatedIInv, WholeDraws, category.bracketType # "GRAND_SLAM",
         category.bracketType = "SINGLE_REPECHAGE" => category.drawn >= 4,
         EliminationComplete(row, category.registered)
  PROVE  HasPodium
<1> DEFINE c == category
           d == TheDraw
           last == FinalFor(c.drawn)
           lost(m) == Loser(row[m], row[m].winner)
           total == TotalRoundsFor(c.drawn)
<1>1. /\ c \in Categories /\ d = Drawn[c] /\ DOMAIN row = d.matches /\ IsElimination(c)
      /\ c.registered = c.drawn /\ WellDrawn(d) /\ TurnsInv(d, row) /\ FoughtRows(d, row)
      /\ OneEndEach(d, row)
  BY DrawsAreFull, DrawIsWell
     DEF SeatedIInv, TurnsIInv, Typing, TheDraw, WholeDraws, IsElimination, TurnsInv
<1>2. /\ Done(row, last) /\ last \in d.matches /\ Over(row, last)
      /\ \A m \in BronzesOf(row) : Done(row, m)
  BY <1>1 DEF EliminationComplete, Done, Exists, Over
<1> HIDE DEF c, d, last, total
<1>3. /\ d.winnerTo[last] = None /\ d.loserTo[last] = None
      /\ \A half \in Halves : Bronze(half) \in d.matches => d.winnerTo[Bronze(half)] = None
      /\ c.bracketType = "SINGLE_REPECHAGE" =>
           \A m \in d.matches : m.phase = "MAIN" /\ d.loserTo[m] = None
      /\ c.bracketType = "DOUBLE_REPECHAGE" => BronzesOf(row) = {Bronze(half) : half \in Halves}
  BY <1>1, <1>2, EliminationEnds, CategoriesAre DEF BronzesOf, IsElimination, last
<1>4. last \notin d.byes
  BY <1>1, <1>3 DEF WellDrawn, EnteredOnce
<1>5. Beaten(row, last) = {lost(last)} /\ \A s \in Sides : row[last].competitor[s] # None
  BY <1>1, <1>2, <1>4, FoughtHasLoser
<1>6. /\ WinnerPlace(row, last, 1) = {Place(1, row[last].winner)}
      /\ LoserPlace(row, last, 2) = {Place(2, lost(last))}
  BY <1>2, <1>5 DEF WinnerPlace, LoserPlace
<1>7. Places = WinnerPlace(row, last, 1) \cup LoserPlace(row, last, 2) \cup ThirdPlaces(row, c.drawn)
  BY <1>1 DEF Places, EliminationPlaces, IsElimination, c, last
<1> HIDE DEF lost
<1>8. ASSUME NEW left, NEW right, left # right,
             ThirdPlaces(row, c.drawn) = {Place(3, left), Place(3, right)}
      PROVE  HasPodium
  <2>1. Places = {Place(1, row[last].winner), Place(2, lost(last)), Place(3, left), Place(3, right)}
    BY <1>6, <1>7, <1>8
  <2> QED
    BY <1>8, <2>1, FourPlaces
<1>9. CASE c.bracketType = "DOUBLE_REPECHAGE"
  <2>1. /\ BronzesOf(row) = {Bronze("TOP"), Bronze("BOTTOM")}
        /\ Bronze("TOP") # Bronze("BOTTOM")
        /\ \A half \in Halves : Bronze(half) \in d.matches /\ Done(row, Bronze(half))
    <3>1. BronzesOf(row) = {Bronze(half) : half \in Halves}
      BY <1>3, <1>9
    <3>2. Bronze("TOP") # Bronze("BOTTOM")
      BY DEF Bronze, Placeholder, MatchId
    <3> QED
      BY <1>1, <1>2, <3>1, <3>2 DEF Halves, BronzesOf
  <2>2. \A half \in Halves : row[Bronze(half)].winner \in Ended(d, row, Bronze(half))
    BY <1>1, <1>3, <2>1, WinnerEnds
  <2>3. row[Bronze("TOP")].winner # row[Bronze("BOTTOM")].winner
    BY <1>1, <2>1, <2>2 DEF OneEndEach, Halves
  <2>4. ThirdPlaces(row, c.drawn) = {Place(3, row[Bronze("TOP")].winner), Place(3, row[Bronze("BOTTOM")].winner)}
    BY <2>1 DEF ThirdPlaces, WinnerPlace, Halves
  <2> QED
    BY <1>8, <2>3, <2>4
<1>10. CASE c.bracketType = "SINGLE_REPECHAGE"
  <2> DEFINE semifinals == {m \in MainOf(c) : m.round = total - 1}
  <2>1. /\ total >= 2
        /\ \E m, n \in semifinals : m # n /\ semifinals = {m, n}
        /\ \A m \in semifinals : /\ m \in Contested(d) /\ d.winnerTo[m] = last
                                 /\ d.winnerSide[m] \in Sides
    <3>1. c.drawn >= 4
      BY <1>10 DEF c
    <3> QED
      BY <1>1, <3>1, SemifinalsAreFought DEF last, total
  <2>2. d.matches = MainOf(c) /\ BronzesOf(row) = {}
    <3>1. d.matches = MainOf(c)
      BY <1>1, <1>10, CategoryTypes, CategoriesAre, EliminationMain DEF IsElimination
    <3> QED
      BY <1>1, <1>3, <1>10, <3>1 DEF BronzesOf
  <2>3. ASSUME NEW m \in semifinals
        PROVE  /\ m \in d.matches /\ LoserPlace(row, m, 3) = {Place(3, lost(m))}
               /\ lost(m) \in Ended(d, row, m)
    <3>1. m \in d.matches /\ m \notin d.byes /\ last # None
      BY <1>1, <1>2, <2>1 DEF Contested, WellDrawn
    <3>2. Over(row, m)
      BY <1>1, <1>5, <2>1, <3>1 DEF TurnsInv, SlotsAwait
    <3>3. Beaten(row, m) = {lost(m)}
      BY <1>1, <3>1, <3>2, FoughtHasLoser DEF lost
    <3>4. lost(m) \in Ended(d, row, m)
      BY <1>1, <1>3, <1>10, <3>1, <3>3, LoserEnds
    <3> QED
      BY <3>1, <3>3, <3>4 DEF LoserPlace
  <2>4. PICK m, n \in semifinals : m # n /\ semifinals = {m, n}
    BY <2>1
  <2>5. lost(m) # lost(n)
    BY <1>1, <2>3, <2>4 DEF OneEndEach
  <2>6. ThirdPlaces(row, c.drawn) = {Place(3, lost(m)), Place(3, lost(n))}
    <3>1. {o \in DOMAIN row : o.phase = "MAIN" /\ total >= 2 /\ o.round = total - 1} = semifinals
      BY <1>1, <1>3, <1>10, <2>1, <2>2
    <3>2. ThirdPlaces(row, c.drawn) = UNION {LoserPlace(row, o, 3) : o \in semifinals}
      BY <2>2, <3>1 DEF ThirdPlaces, total
    <3> HIDE DEF semifinals
    <3> QED
      BY <2>3, <2>4, <3>2
  <2> QED
    BY <1>8, <2>5, <2>6
<1> QED
  BY <1>1, <1>9, <1>10, TournamentTypes DEF IsElimination

(* An elimination that is reported as complete has its gold, its silver    *)
(* and two bronzes, in every double repechage and in every single          *)
(* elimination of four or more.  (Two or three single out no two losers of *)
(* semi-finals.)                                                           *)
THEOREM CompleteIsWithMedals ==
  ASSUME WholeDraws, \A c \in Categories : c.bracketType = "SINGLE_REPECHAGE" => c.drawn >= 4
  PROVE  Spec => []CompleteHasPodium
<1>0. FullDraws
  BY DrawsAreFull
<1>1. Init => SeatedIInv
  BY <1>0, SeatedInit
<1>2. SeatedIInv /\ [Next]_vars => SeatedIInv'
  BY <1>0, SeatedNext
<1>3. SeatedIInv => CompleteHasPodium
  BY CompleteIsPodium DEF CompleteHasPodium, SeatedIInv, TurnsIInv, Typing
<1> QED
  BY <1>1, <1>2, <1>3, PTL DEF Spec

-----------------------------------------------------------------------------
(* What pages and profiles read *)

(* A match has a winner when it is over, a bye its only competitor, any    *)
(* other an ippon; and who is drawn into a match stays there.              *)
RowsTell(d, r) ==
  \A m \in d.matches :
    /\ ~Over(r, m) => r[m].winner = None
    /\ m \in d.byes => \E side \in Sides :
         /\ r[m].winner = r[m].competitor[side] /\ r[m].winner # None
         /\ r[m].competitor[3 - side] = None
    /\ Over(r, m) => (r[m].winMethod = "IPPON" <=> m \notin d.byes)
    /\ \A side \in Sides :
         d.entrants[m][side] # None => r[m].competitor[side] = d.entrants[m][side]

(* Who has won a match is in the slot it leads to, and so is who has lost  *)
(* it when that slot does not depend on who comes first.                   *)
SentOn(d, r) ==
  \A m \in d.matches \ d.byes : Over(r, m) =>
    /\ d.winnerTo[m] # None => r[d.winnerTo[m]].competitor[d.winnerSide[m]] = r[m].winner
    /\ d.loserTo[m] # None /\ d.loserSide[m] # ArrivalOrder =>
         Beaten(r, m) = {r[d.loserTo[m]].competitor[d.loserSide[m]]}

(* How often somebody has lost whose last match is over.                   *)
EndsFit(d, r) ==
  \A m \in d.matches : \A c \in Ended(d, r, m) :
    Cardinality(DefeatsIn(d, r, c)) =
      (IF m \in Consolation(d) THEN 1 ELSE 0) + (IF c = r[m].winner THEN 0 ELSE 1)

LEMMA RowsStillTell ==
  ASSUME NEW d, NEW r, NEW q, NEW m, NEW side, NEW k, AFight(d, r, q, m, side, k), RowsTell(d, r),
         \A n \in d.matches : q[n].winMethod = IF n = m THEN "IPPON" ELSE r[n].winMethod
  PROVE  RowsTell(d, q)
<1>a. /\ m \in d.matches /\ side \in Sides /\ m \notin d.byes
      /\ WellDrawn(d) /\ TurnsInv(d, r) /\ IsFought(d, r, q, m, side, k)
  BY RoomForBoth DEF AFight
<1>b. /\ \A n \in d.matches : Over(q, n) <=> Over(r, n) \/ n = m
      /\ \A n \in d.matches, s \in Sides :
           /\ r[n].competitor[s] # None => q[n].competitor[s] = r[n].competitor[s]
           /\ Over(r, n) \/ n = m => q[n].competitor[s] = r[n].competitor[s]
  BY RowsKept
<1> SUFFICES ASSUME NEW n \in d.matches
             PROVE  /\ ~Over(q, n) => q[n].winner = None
                    /\ n \in d.byes => \E s \in Sides :
                         /\ q[n].winner = q[n].competitor[s] /\ q[n].winner # None
                         /\ q[n].competitor[3 - s] = None
                    /\ Over(q, n) => (q[n].winMethod = "IPPON" <=> n \notin d.byes)
                    /\ \A s \in Sides :
                         d.entrants[n][s] # None => q[n].competitor[s] = d.entrants[n][s]
  BY DEF RowsTell
<1>1. ~Over(q, n) => q[n].winner = None
  BY <1>a, <1>b DEF RowsTell, IsFought
<1>2. ASSUME n \in d.byes
      PROVE  \E s \in Sides :
               /\ q[n].winner = q[n].competitor[s] /\ q[n].winner # None
               /\ q[n].competitor[3 - s] = None
  <2>1. PICK s \in Sides : /\ r[n].winner = r[n].competitor[s] /\ r[n].winner # None
                           /\ r[n].competitor[3 - s] = None
    BY <1>2 DEF RowsTell
  <2>2. Over(r, n) /\ n # m /\ q[n].winner = r[n].winner
    BY <1>a, <1>2 DEF TurnsInv, FoughtRows, IsFought
  <2> QED
    BY <1>b, <2>1, <2>2, OtherSide
<1>3. Over(q, n) => (q[n].winMethod = "IPPON" <=> n \notin d.byes)
  BY <1>a, <1>b DEF RowsTell
<1>4. ASSUME NEW s \in Sides, d.entrants[n][s] # None
      PROVE  q[n].competitor[s] = d.entrants[n][s]
  BY <1>4, <1>b DEF RowsTell
<1> QED
  BY <1>1, <1>2, <1>3, <1>4

LEMMA StillSentOn ==
  ASSUME NEW d, NEW r, NEW q, NEW m, NEW side, NEW k, AFight(d, r, q, m, side, k),
         DOMAIN r = d.matches, DOMAIN q = d.matches, SentOn(d, r)
  PROVE  SentOn(d, q)
<1>a. /\ m \in d.matches /\ side \in Sides /\ 3 - side \in Sides
      /\ WellDrawn(d) /\ TurnsInv(d, r) /\ IsFought(d, r, q, m, side, k)
  BY OtherSide DEF AFight
<1>b. /\ k \in Sides /\ m \notin d.byes
      /\ d.loserTo[m] # None /\ d.loserTo[m] = d.winnerTo[m] => k # d.winnerSide[m]
  BY RoomForBoth
<1>c. /\ \A n \in d.matches : Over(q, n) <=> Over(r, n) \/ n = m
      /\ \A n \in d.matches, s \in Sides :
           /\ r[n].competitor[s] # None => q[n].competitor[s] = r[n].competitor[s]
           /\ Over(r, n) \/ n = m => q[n].competitor[s] = r[n].competitor[s]
  BY RowsKept
<1>d. /\ \A n \in d.matches : n # m /\ Over(r, n) => Beaten(q, n) = Beaten(r, n)
      /\ Beaten(q, m) = {r[m].competitor[3 - side]}
  BY BeatenOnce
<1> SUFFICES ASSUME NEW n \in d.matches \ d.byes, Over(q, n)
             PROVE  /\ d.winnerTo[n] # None =>
                         q[d.winnerTo[n]].competitor[d.winnerSide[n]] = q[n].winner
                    /\ d.loserTo[n] # None /\ d.loserSide[n] # ArrivalOrder =>
                         Beaten(q, n) = {q[d.loserTo[n]].competitor[d.loserSide[n]]}
  BY DEF SentOn
<1>1. /\ d.winnerTo[n] # None => d.winnerTo[n] \in d.matches /\ d.winnerSide[n] \in Sides
      /\ d.loserTo[n] # None => d.loserTo[n] \in d.matches
      /\ d.loserTo[n] # None /\ d.loserSide[n] # ArrivalOrder => d.loserSide[n] \in Sides
  BY <1>a DEF WellDrawn
<1>2. CASE n = m
  <2>1. d.winnerTo[n] # None => q[d.winnerTo[n]].competitor[d.winnerSide[n]] = q[n].winner
    BY <1>a, <1>1, <1>2 DEF IsFought
  <2>2. ASSUME d.loserTo[n] # None, d.loserSide[n] # ArrivalOrder
        PROVE  Beaten(q, n) = {q[d.loserTo[n]].competitor[d.loserSide[n]]}
    <3>1. k = d.loserSide[n]
      BY <1>a, <1>2, <2>2 DEF IsFought
    <3>2. q[d.loserTo[n]].competitor[k] = r[m].competitor[3 - side]
      BY <1>a, <1>b, <1>1, <1>2, <2>2, <3>1 DEF IsFought
    <3> QED
      BY <1>d, <1>2, <3>1, <3>2
  <2> QED
    BY <2>1, <2>2
<1>3. CASE n # m
  <2>1. Over(r, n) /\ q[n].winner = r[n].winner /\ Beaten(q, n) = Beaten(r, n)
    BY <1>a, <1>c, <1>d, <1>3 DEF IsFought
  <2>2. /\ Beaten(r, n) = {Loser(r[n], r[n].winner)} /\ r[n].winner # None
        /\ \A s \in Sides : r[n].competitor[s] # None
    BY <1>a, <2>1, FoughtHasLoser DEF TurnsInv, Done
  <2>3. Loser(r[n], r[n].winner) # None
    BY <2>2 DEF Loser, Sides
  <2>4. d.winnerTo[n] # None => q[d.winnerTo[n]].competitor[d.winnerSide[n]] = q[n].winner
    BY <1>c, <1>1, <2>1, <2>2 DEF SentOn
  <2>5. ASSUME d.loserTo[n] # None, d.loserSide[n] # ArrivalOrder
        PROVE  Beaten(q, n) = {q[d.loserTo[n]].competitor[d.loserSide[n]]}
    <3>1. Beaten(r, n) = {r[d.loserTo[n]].competitor[d.loserSide[n]]}
      BY <2>1, <2>5 DEF SentOn
    <3>2. r[d.loserTo[n]].competitor[d.loserSide[n]] # None
      BY <2>2, <2>3, <3>1
    <3> QED
      BY <1>c, <1>1, <2>1, <2>5, <3>1, <3>2
  <2> QED
    BY <2>4, <2>5
<1> QED
  BY <1>2, <1>3

LEMMA EndsStillFit ==
  ASSUME NEW d, NEW r, NEW q, NEW m, NEW side, NEW k, AFight(d, r, q, m, side, k),
         DOMAIN r = d.matches, DOMAIN q = d.matches, OneEndEach(d, r), EndsFit(d, r)
  PROVE  EndsFit(d, q)
<1>a. /\ m \in d.matches /\ side \in Sides
      /\ WellDrawn(d) /\ TurnsInv(d, r) /\ IsFought(d, r, q, m, side, k)
  BY DEF AFight
<1> DEFINE winner == r[m].competitor[side]
           loser == r[m].competitor[3 - side]
<1>b. /\ m \in Contested(d) /\ m \notin d.byes
      /\ winner # loser /\ 3 - side \in Sides /\ ~Over(r, m)
      /\ winner # None /\ loser # None
  BY <1>a, RoomForBoth, OtherSide DEF IsFought, Over
<1>c. \A n \in d.matches : Over(q, n) <=> Over(r, n) \/ n = m
  BY RowsKept
<1>1. /\ \A n \in d.matches : n # m /\ Over(r, n) => Beaten(q, n) = Beaten(r, n)
      /\ Beaten(q, m) = {loser}
  BY BeatenOnce
<1>2. \A c : DefeatsIn(d, q, c) = DefeatsIn(d, r, c) \cup (IF c = loser THEN {m} ELSE {})
  BY <1>a, <1>b, <1>c, <1>1 DEF DefeatsIn
<1>3. /\ q[m].winner = winner
      /\ \A n \in d.matches \ {m} : q[n].winner = r[n].winner
  BY <1>a DEF IsFought
<1>4. /\ m \notin DefeatsIn(d, r, loser)
      /\ IF m \in Consolation(d)
         THEN \E n, o \in d.matches : DefeatsIn(d, r, winner) = {n} /\ DefeatsIn(d, r, loser) = {o}
         ELSE DefeatsIn(d, r, winner) = {} /\ DefeatsIn(d, r, loser) = {}
  BY <1>a, <1>b DEF TurnsInv, DefeatsFit, DefeatsIn
<1> HIDE DEF winner, loser
<1> SUFFICES ASSUME NEW n \in d.matches, NEW c \in Ended(d, q, n)
             PROVE  Cardinality(DefeatsIn(d, q, c)) =
                      (IF n \in Consolation(d) THEN 1 ELSE 0) + (IF c = q[n].winner THEN 0 ELSE 1)
  BY DEF EndsFit
<1>5. Cardinality({}) = 0 /\ \A x : Cardinality({x}) = 1
  BY FS_EmptySet, FS_Singleton
<1>6. CASE n = m
  <2>1. c = winner \/ c = loser
    BY <1>1, <1>3, <1>6 DEF Ended
  <2>2. CASE c = winner
    <3>1. DefeatsIn(d, q, c) = DefeatsIn(d, r, winner)
      BY <1>b, <1>2, <2>2 DEF winner, loser
    <3>2. CASE m \in Consolation(d)
      <4>1. PICK o \in d.matches : DefeatsIn(d, q, c) = {o}
        BY <1>4, <3>1, <3>2
      <4>2. Cardinality(DefeatsIn(d, q, c)) = 1
        BY <1>5, <4>1
      <4> QED
        BY <1>3, <1>6, <2>2, <3>2, <4>2
    <3>3. CASE m \notin Consolation(d)
      <4>1. Cardinality(DefeatsIn(d, q, c)) = 0
        BY <1>4, <1>5, <3>1, <3>3
      <4> QED
        BY <1>3, <1>6, <2>2, <3>3, <4>1
    <3> QED
      BY <3>2, <3>3
  <2>3. CASE c = loser
    <3>1. DefeatsIn(d, q, c) = DefeatsIn(d, r, loser) \cup {m} /\ c # q[n].winner
      BY <1>b, <1>2, <1>3, <1>6, <2>3 DEF winner, loser
    <3>2. CASE m \in Consolation(d)
      <4>1. PICK o \in d.matches : DefeatsIn(d, r, loser) = {o}
        BY <1>4, <3>2
      <4>2. o # m /\ DefeatsIn(d, q, c) = {o, m}
        BY <1>4, <3>1, <4>1
      <4>3. Cardinality(DefeatsIn(d, q, c)) = 2
        <5>1. Cardinality({o, m}) = 2
          BY <4>2, TwoElements
        <5> QED
          BY <4>2, <5>1
      <4> QED
        BY <1>6, <3>1, <3>2, <4>3
    <3>3. CASE m \notin Consolation(d)
      <4>1. DefeatsIn(d, q, c) = {m}
        BY <1>4, <3>1, <3>3
      <4>2. Cardinality(DefeatsIn(d, q, c)) = 1
        BY <1>5, <4>1
      <4> QED
        BY <1>6, <3>1, <3>3, <4>2
    <3> QED
      BY <3>2, <3>3
  <2> QED
    BY <2>1, <2>2, <2>3
<1>7. CASE n # m
  <2>1. Over(q, n) /\ Over(r, n)
    BY <1>c, <1>7 DEF Ended
  <2>2. q[n].winner = r[n].winner /\ Beaten(q, n) = Beaten(r, n)
    BY <1>1, <1>3, <1>7, <2>1
  <2>3. c \in Ended(d, r, n)
    BY <2>1, <2>2 DEF Ended
  <2>4. c # loser
    BY <1>b, <2>3 DEF OneEndEach, loser
  <2>5. DefeatsIn(d, q, c) = DefeatsIn(d, r, c)
    BY <1>2, <2>4
  <2> QED
    BY <2>2, <2>3, <2>5 DEF EndsFit
<1> QED
  BY <1>6, <1>7

-----------------------------------------------------------------------------
(* The invariant of what pages read.                                       *)
PagesIInv ==
  /\ SeatedIInv
  /\ RowsTell(TheDraw, row) /\ SentOn(TheDraw, row) /\ EndsFit(TheDraw, row)

LEMMA PagesInit == FullDraws /\ Init => PagesIInv
<1> SUFFICES ASSUME FullDraws, NEW c \in Categories, category = c, Bracket(c, Drawn[c])!Init, SeatedIInv
             PROVE  PagesIInv
  BY SeatedInit DEF Init
<1> DEFINE d == Drawn[c]
<1>1. WellDrawn(d) /\ TheDraw = d /\ \A m \in d.byes : m \in d.matches
  BY DrawIsWell DEF TheDraw, WellDrawn
<1>2. \A m \in d.byes : (d.entrants[m][1] = None) # (d.entrants[m][2] = None)
  BY GeneratedDraws DEF Bracket!ByesAdvanced
<1>3. row = [m \in d.matches |-> Bracket(c, d)!DrawnRow(m)]
  BY DEF Bracket!Init
<1> HIDE DEF d
<1>4. ASSUME NEW m \in d.matches
      PROVE  /\ Over(row, m) <=> m \in d.byes
             /\ row[m].winner = IF m \notin d.byes THEN None
                                ELSE IF d.entrants[m][1] # None THEN d.entrants[m][1] ELSE d.entrants[m][2]
             /\ m \in d.byes => row[m].winMethod = "FUSEN_GACHI"
             /\ row[m].competitor = d.entrants[m]
  BY <1>3 DEF Bracket!DrawnRow, Bracket!ByeWinner, Over
<1>5. RowsTell(d, row)
  BY <1>1, <1>2, <1>4 DEF RowsTell, Sides
<1>6. SentOn(d, row)
  BY <1>4 DEF SentOn
<1>7. \A m \in d.matches : Ended(d, row, m) = {}
  BY <1>4 DEF Ended
<1> QED
  BY <1>1, <1>5, <1>6, <1>7 DEF PagesIInv, EndsFit

LEMMA PagesNext == FullDraws /\ PagesIInv /\ [Next]_vars => PagesIInv'
<1> SUFFICES ASSUME FullDraws, PagesIInv, [Next]_vars PROVE PagesIInv'
  OBVIOUS
<1>1. CASE UNCHANGED vars
  BY <1>1 DEF vars, PagesIInv, SeatedIInv, TurnsIInv, Typing, TheDraw
<1>2. ASSUME NEW c \in Categories, NEW m \in Called, NEW side \in Sides, Fight(c, Drawn[c], m, side)
      PROVE  PagesIInv'
  <2>1. m \in Ready /\ TurnsIInv /\ SeatedIInv'
    BY SeatedNext DEF Called, PagesIInv, SeatedIInv
  <2>2. /\ UNCHANGED TheDraw
        /\ \A n \in TheDraw.matches : row'[n].winMethod = IF n = m THEN "IPPON" ELSE row[n].winMethod
    BY <1>2, <2>1, FightIsAFight
  <2>3. PICK k : AFight(TheDraw, row, row', m, side, k)
    BY <1>2, <2>1, FightIsAFight
  <2>4. DOMAIN row = TheDraw.matches /\ DOMAIN row' = TheDraw.matches
    BY <2>1, <2>2 DEF SeatedIInv, TurnsIInv, Typing, TheDraw
  <2>5. RowsTell(TheDraw, row')
    BY <2>2, <2>3, RowsStillTell DEF PagesIInv
  <2>6. SentOn(TheDraw, row')
    BY <2>3, <2>4, StillSentOn DEF PagesIInv
  <2>7. EndsFit(TheDraw, row')
    BY <2>3, <2>4, EndsStillFit DEF PagesIInv, SeatedIInv
  <2> QED
    BY <2>1, <2>2, <2>5, <2>6, <2>7 DEF PagesIInv
<1> QED
  BY <1>1, <1>2 DEF Next

-----------------------------------------------------------------------------
(* The page of a grand slam agrees with standings and routes.              *)
LEMMA SlamPageAgrees ==
  ASSUME PagesIInv, WholeDraws
  PROVE  PageAgrees
<1> SUFFICES ASSUME category.bracketType = "GRAND_SLAM" PROVE PageAgrees
  BY DEF PageAgrees
<1> DEFINE d == TheDraw
           of(rank) == {p.competitor : p \in {q \in Places : q.rank = rank}}
<1>1. /\ category \in Categories /\ d = DrawOf(category) /\ DOMAIN row = d.matches
      /\ IsCategory(category) /\ IsSlam(category)
      /\ FoughtRows(d, row) /\ RowsTell(d, row) /\ SentOn(d, row)
  BY CategoriesAre
     DEF PagesIInv, SeatedIInv, TurnsIInv, TurnsInv, Typing, TheDraw, WholeDraws, IsSlam
<1> HIDE DEF d
<1>2. /\ d.byes = {} /\ Final \in d.matches
      /\ \A p \in {1, 2} : Semifinal(p) \in d.matches
      /\ \A half \in Halves : Bronze(half) \in d.matches
  <2>1. SlamOthers \subseteq d.matches /\ d.byes = {}
    BY <1>1, SlamMatches
  <2> QED
    BY <2>1 DEF SlamOthers, RepechageMatches
(* The rows of a match that is over name a winner and a loser.             *)
<1>3. ASSUME NEW m \in d.matches
      PROVE  /\ Over(row, m) =>
                  /\ Done(row, m) /\ Beaten(row, m) = {Loser(row[m], row[m].winner)}
                  /\ \E side \in Sides :
                       /\ row[m].winner = row[m].competitor[side] /\ row[m].winner # None
                       /\ row[m].competitor[3 - side] # row[m].winner
                       /\ row[m].competitor[3 - side] # None
             /\ ~Over(row, m) => ~Done(row, m) /\ Beaten(row, m) = {} /\ row[m].winner = None
  <2>1. ASSUME Over(row, m)
        PROVE  /\ Done(row, m) /\ Beaten(row, m) = {Loser(row[m], row[m].winner)}
               /\ \E side \in Sides :
                    /\ row[m].winner = row[m].competitor[side] /\ row[m].winner # None
                    /\ row[m].competitor[3 - side] # row[m].winner
                    /\ row[m].competitor[3 - side] # None
    <3>1. Done(row, m) /\ Beaten(row, m) = {Loser(row[m], row[m].winner)}
      BY <1>1, <1>2, <2>1, FoughtHasLoser
    <3>2. PICK side \in Sides :
            /\ row[m].winner = row[m].competitor[side]
            /\ row[m].competitor[side] # None /\ row[m].competitor[3 - side] # None
            /\ row[m].competitor[side] # row[m].competitor[3 - side]
      BY <1>1, <1>2, <2>1 DEF FoughtRows
    <3> QED
      BY <3>1, <3>2
  <2>2. ASSUME ~Over(row, m)
        PROVE  ~Done(row, m) /\ Beaten(row, m) = {} /\ row[m].winner = None
    <3>1. ~Done(row, m)
      BY <2>2 DEF Over, Done
    <3> QED
      BY <1>1, <2>2, <3>1 DEF RowsTell, Beaten
  <2> QED
    BY <2>1, <2>2
<1>4. of(1) = (IF Over(row, Final) THEN {row[Final].winner} ELSE {}) /\ of(2) = Beaten(row, Final)
  <2>1. \A p \in Places : /\ p.rank = 1 <=> p \in WinnerPlace(row, Final, 1)
                          /\ p.rank = 2 <=> p \in LoserPlace(row, Final, 2)
    BY DEF Places, GrandSlamPlaces, WinnerPlace, LoserPlace, Place
  <2>2. WinnerPlace(row, Final, 1) \subseteq Places /\ LoserPlace(row, Final, 2) \subseteq Places
    BY DEF Places, GrandSlamPlaces
  <2>3. /\ {q \in Places : q.rank = 1} = WinnerPlace(row, Final, 1)
        /\ {q \in Places : q.rank = 2} = LoserPlace(row, Final, 2)
    BY <2>1, <2>2
  <2>4. {p.competitor : p \in LoserPlace(row, Final, 2)} = Beaten(row, Final)
    <3>1. \A c \in Beaten(row, Final) : Place(2, c) \in LoserPlace(row, Final, 2)
      BY DEF LoserPlace
    <3>2. \A p \in LoserPlace(row, Final, 2) : p.competitor \in Beaten(row, Final)
      BY DEF LoserPlace, Place
    <3>3. \A c : Place(2, c).competitor = c
      BY DEF Place
    <3> QED
      BY <3>1, <3>2, <3>3
  <2>5. {p.competitor : p \in WinnerPlace(row, Final, 1)} =
          IF Over(row, Final) THEN {row[Final].winner} ELSE {}
    <3>1. WinnerPlace(row, Final, 1) =
            IF Over(row, Final) THEN {Place(1, row[Final].winner)} ELSE {}
      BY <1>2, <1>3 DEF WinnerPlace
    <3>2. {p.competitor : p \in {Place(1, row[Final].winner)}} = {row[Final].winner}
      <4>1. Place(1, row[Final].winner).competitor = row[Final].winner
        BY DEF Place
      <4> QED
        BY <4>1
    <3>3. CASE Over(row, Final)
      BY <3>1, <3>2, <3>3
    <3>4. CASE ~Over(row, Final)
      BY <3>1, <3>4
    <3> QED
      BY <3>3, <3>4
  <2> QED
    BY <2>3, <2>4, <2>5
<1>5. Medals(row, Final).gold = of(1) /\ Medals(row, Final).silver = of(2)
  <2> DEFINE won == {side \in Sides : /\ row[Final].winner # None
                                      /\ row[Final].competitor[side] = row[Final].winner}
             lost == {side \in Sides : /\ row[Final].status = "COMPLETED"
                                       /\ won = Sides \ {side}}
  <2>1. /\ Medals(row, Final).gold = {row[Final].competitor[side] : side \in won}
        /\ Medals(row, Final).silver = {row[Final].competitor[side] : side \in lost} \ {None}
    BY DEF Medals
  <2>2. CASE ~Over(row, Final)
    <3>1. won = {} /\ lost = {}
      BY <1>2, <1>3, <2>2 DEF Over
    <3>2. of(1) = {} /\ of(2) = {}
      BY <1>2, <1>3, <1>4, <2>2
    <3> QED
      BY <2>1, <3>1, <3>2
  <2>3. CASE Over(row, Final)
    <3>1. PICK side \in Sides :
            /\ row[Final].winner = row[Final].competitor[side] /\ row[Final].winner # None
            /\ row[Final].competitor[3 - side] # row[Final].winner
            /\ row[Final].competitor[3 - side] # None
      BY <1>2, <1>3, <2>3
    <3>2. 3 - side \in Sides /\ 3 - side # side /\ Sides = {side, 3 - side}
      BY OtherSide
    <3>3. won = {side}
      BY <3>1, <3>2
    <3>4. Sides \ {3 - side} = {side} /\ Sides \ {side} = {3 - side}
      BY <3>2
    <3> HIDE DEF won
    <3>5. lost = {3 - side}
      BY <2>3, <3>2, <3>3, <3>4 DEF Over
    <3>6. Loser(row[Final], row[Final].winner) = row[Final].competitor[3 - side]
      BY <3>1 DEF Loser, Sides
    <3>7. of(1) = {row[Final].competitor[side]} /\ of(2) = {row[Final].competitor[3 - side]}
      BY <1>2, <1>3, <1>4, <2>3, <3>1, <3>6
    <3> HIDE DEF lost
    <3> QED
      BY <2>1, <3>1, <3>3, <3>5, <3>7
  <2> QED
    BY <2>2, <2>3
<1>6. ASSUME NEW half \in Halves, Completed(FeederOf(half))
      PROVE  FeederName(row, half) = row[Bronze(half)].competitor[2]
  <2> DEFINE p == IF half = "TOP" THEN 2 ELSE 1
  <2>1. FeederOf(half) = Semifinal(p) /\ p \in {1, 2} /\ CrossHalf(p) = half
    BY DEF FeederOf, CrossHalf, Halves
  <2> HIDE DEF p
  <2> DEFINE m == Semifinal(p)
  <2>2. /\ m \in d.matches \ d.byes /\ Over(row, m)
        /\ d.loserTo[m] = Bronze(half) /\ d.loserSide[m] = 2 /\ Bronze(half) # None
    <3>1. d.loserTo[m] = Bronze(half) /\ d.loserSide[m] = 2
      BY <1>1, <2>1, SlamRoutes
    <3>2. Bronze(half) # None
      BY <1>1, <1>2 DEF IsCategory
    <3> QED
      BY <1>2, <1>6, <2>1, <3>1, <3>2 DEF Completed, Over
  <2> HIDE DEF m
  <2>3. Beaten(row, m) = {row[Bronze(half)].competitor[2]}
    BY <1>1, <2>2 DEF SentOn, ArrivalOrder
  <2>4. Loser(row[m], row[m].winner) = row[Bronze(half)].competitor[2] /\ row[m].winner # None
    BY <1>3, <2>2, <2>3 DEF Done
  <2> QED
    BY <2>1, <2>4 DEF FeederName, Loser, m
<1> QED
  BY <1>5, <1>6 DEF PageAgrees

-----------------------------------------------------------------------------
(* Nobody is left waiting *)

(* Matches lead to later ones; one that cannot be fought is a bye whose    *)
(* only competitor has been put where it leads; and the losers who take    *)
(* whichever side is free come in twos.                                    *)
Flows(d, level) ==
  \A m \in d.matches :
    /\ level[m] \in Nat
    /\ d.winnerTo[m] # None => level[m] < level[d.winnerTo[m]]
    /\ d.loserTo[m] # None => level[m] < level[d.loserTo[m]]
    /\ m \notin Contested(d) =>
         /\ m.round = 1 /\ m.phase \in {"MAIN", "POOL"} /\ d.loserTo[m] = None
         /\ \E side \in Sides : d.entrants[m][side] # None
         /\ d.winnerTo[m] # None => d.entrants[d.winnerTo[m]][d.winnerSide[m]] # None
    /\ d.loserTo[m] # None /\ d.loserSide[m] = ArrivalOrder =>
         \E n \in d.matches : n # m /\ d.loserTo[n] = d.loserTo[m]

(* The first match that is not over can be called.                         *)
LEMMA AllAreFought ==
  ASSUME PagesIInv, FullDraws, NEW level, Flows(TheDraw, level), Ready = {}
  PROVE  \A m \in Contested(TheDraw) : Over(row, m)
<1> DEFINE d == TheDraw
           waiting == {m \in Contested(d) : ~Over(row, m)}
<1>1. /\ DOMAIN row = d.matches /\ WellDrawn(d) /\ TurnsInv(d, row)
      /\ FoughtRows(d, row) /\ RowsTell(d, row) /\ SentOn(d, row) /\ LosersSeated(d, row)
      /\ \A m \in d.matches : row[m].status \in {"SCHEDULED", "ACTIVE", "COMPLETED"}
  BY DrawIsWell DEF PagesIInv, SeatedIInv, TurnsIInv, Typing, TheDraw, TurnsInv, Bracket!Row, Bracket!Statuses
<1>2. Contested(d) \subseteq d.matches \ d.byes
  BY DEF Contested
<1> SUFFICES ASSUME waiting # {} PROVE FALSE
  OBVIOUS
<1>3. PICK m \in waiting : \A n \in waiting : level[m] <= level[n]
  <2> DEFINE levels == {level[n] : n \in waiting}
  <2>1. levels \in SUBSET Nat /\ levels # {}
    BY <1>2 DEF Flows
  <2>2. PICK i \in levels : \A j \in levels : i <= j
    <3> HIDE DEF levels
    <3> QED
      BY <2>1, LeastNatural
  <2> QED
    BY <2>2
<1>4. m \in d.matches /\ m \in Contested(d) /\ ~Over(row, m) /\ m # None
  BY <1>1, <1>2 DEF WellDrawn
<1>5. \A n \in d.matches : n \in Contested(d) /\ level[n] < level[m] => Over(row, n) /\ n \notin d.byes
  <2> SUFFICES ASSUME NEW n \in Contested(d), level[n] < level[m], ~Over(row, n) PROVE FALSE
    BY <1>2
  <2>1. level[n] \in Nat /\ level[m] \in Nat /\ level[m] <= level[n]
    BY <1>2, <1>3 DEF Flows
  <2> QED
    BY <2>1
<1> HIDE DEF d, waiting
(* A loser who is to come to this match has come.                          *)
<1>6. ASSUME NEW n \in d.matches, d.loserTo[n] = m
      PROVE  /\ Over(row, n) /\ n \notin d.byes
             /\ \E c : /\ Beaten(row, n) = {c} /\ c # None
                       /\ \E s \in Sides : row[m].competitor[s] = c
  <2>1. Over(row, n) /\ n \notin d.byes
    BY <1>4, <1>5, <1>6 DEF Flows, d
  <2>2. Beaten(row, n) = {Loser(row[n], row[n].winner)}
    BY <1>1, <2>1, FoughtHasLoser
  <2> QED
    BY <1>1, <1>4, <1>6, <2>1, <2>2 DEF LosersSeated
<1>7. ASSUME NEW s \in Sides PROVE row[m].competitor[s] # None
  <2>1. CASE d.entrants[m][s] # None
    BY <1>1, <1>4, <2>1 DEF RowsTell
  <2>2. ASSUME NEW n \in d.matches, d.winnerTo[n] = m, d.winnerSide[n] = s
        PROVE  row[m].competitor[s] # None
    <3>1. CASE n \in Contested(d)
      <4>1. Over(row, n) /\ n \notin d.byes
        BY <1>4, <1>5, <2>2, <3>1 DEF Flows, d
      <4>2. row[n].winner # None
        BY <1>1, <4>1, FoughtHasLoser DEF Done
      <4> QED
        BY <1>1, <1>4, <2>2, <4>1, <4>2 DEF SentOn
    <3>2. CASE n \notin Contested(d)
      <4>1. d.entrants[m][s] # None
        BY <1>4, <2>2, <3>2 DEF Flows, d
      <4> QED
        BY <2>1, <4>1
    <3> QED
      BY <3>1, <3>2
  <2>3. ASSUME NEW n \in d.matches, d.loserTo[n] = m, d.loserSide[n] = s
        PROVE  row[m].competitor[s] # None
    <3>1. s # ArrivalOrder
      BY DEF Sides, ArrivalOrder
    <3>2. PICK c : Beaten(row, n) = {c} /\ c # None
      BY <1>6, <2>3
    <3>3. Over(row, n) /\ n \notin d.byes
      BY <1>6, <2>3
    <3>4. Beaten(row, n) = {row[m].competitor[s]}
      BY <1>1, <1>4, <2>3, <3>1, <3>3 DEF SentOn
    <3> QED
      BY <3>2, <3>4
  <2>4. ASSUME NEW n \in d.matches, d.loserTo[n] = m, d.loserSide[n] = ArrivalOrder
        PROVE  row[m].competitor[s] # None
    <3>1. PICK l \in d.matches : l # n /\ d.loserTo[l] = m
      BY <1>4, <2>4 DEF Flows, d
    <3>2. PICK x : /\ Beaten(row, n) = {x} /\ x # None
                   /\ \E t \in Sides : row[m].competitor[t] = x
      BY <1>6, <2>4
    <3>3. PICK y : /\ Beaten(row, l) = {y} /\ y # None
                   /\ \E t \in Sides : row[m].competitor[t] = y
      BY <1>6, <3>1
    <3>4. Over(row, n) /\ Over(row, l)
      BY <1>6, <2>4, <3>1
    <3>5. x # y
      <4> SUFFICES ASSUME x = y PROVE FALSE
        OBVIOUS
      <4>1. n \in DefeatsIn(d, row, x) /\ l \in DefeatsIn(d, row, x)
        BY <3>2, <3>3, <3>4 DEF DefeatsIn
      <4>2. \/ \E o \in d.matches : DefeatsIn(d, row, x) = {o}
            \/ DefeatsIn(d, row, x) = {}
        BY <1>1, <1>4, <3>2 DEF TurnsInv, DefeatsFit
      <4> QED
        BY <3>1, <4>1, <4>2
    <3> QED
      BY <3>2, <3>3, <3>5 DEF Sides
  <2> QED
    BY <1>4, <2>1, <2>2, <2>3, <2>4 DEF Contested, Fed
<1>8. ReadyRow(row[m])
  BY <1>1, <1>4, <1>7 DEF ReadyRow, FoughtRows, Over
<1> QED
  BY <1>1, <1>4, <1>8 DEF Ready

LEMMA EveryCardIsNamed ==
  ASSUME PagesIInv, FullDraws, NEW level, Flows(TheDraw, level)
  PROVE  NobodyIsLeftWaiting
<1> DEFINE d == TheDraw
<1>1. DOMAIN row = d.matches /\ FoughtRows(d, row) /\ RowsTell(d, row)
  BY DEF PagesIInv, SeatedIInv, TurnsIInv, TurnsInv, Typing, TheDraw
<1> SUFFICES ASSUME Ready = {}, NEW m \in d.matches, NEW side \in Sides
             PROVE  /\ Label(row, m, side) # "TBD"
                    /\ Label(row, m, side) = "BYE" => m.round = 1 /\ m.phase \in {"MAIN", "POOL"}
  BY <1>1 DEF NobodyIsLeftWaiting
<1> DEFINE known == {s \in Sides : row[m].competitor[s] # None}
<1>2. CASE m \in Contested(d)
  <2>1. Over(row, m) /\ m \notin d.byes
    BY <1>2, AllAreFought DEF Contested
  <2>2. row[m].competitor[side] # None
    BY <1>1, <2>1, FoughtHasLoser
  <2>3. side \in known
    BY <2>2
  <2> QED
    BY <2>3 DEF Label
<1>3. CASE m \notin Contested(d)
  <2>1. /\ m.round = 1 /\ m.phase \in {"MAIN", "POOL"}
        /\ \E s \in Sides : row[m].competitor[s] # None
    BY <1>1, <1>3 DEF Flows, RowsTell
  <2>2. side \in known \/ known = Sides \ {side}
    BY <2>1, OtherSide DEF Sides
  <2> QED
    BY <2>1, <2>2 DEF Label
<1> QED
  BY <1>2, <1>3

-----------------------------------------------------------------------------
(* Eliminations from which nobody has been withdrawn flow *)

(* The rounds a match comes after.                                         *)
LevelsOf(c) ==
  [m \in DrawOf(c).matches |->
     IF m.phase \in {"MAIN", "POOL"} THEN m.round
     ELSE c.drawn + (IF m.phase \in {"KNOCKOUT_SF", "REPECHAGE"} THEN 1 ELSE 2)]

(* A match of the bracket that is no bye has somebody to come to each side.*)
LEMMA MainIsContested ==
  ASSUME NEW c, IsCategory(c), IsElimination(c), None \notin 0..(c.drawn - 1),
         NEW m \in MainOf(c), m \notin DrawOf(c).byes
  PROVE  m \in Contested(DrawOf(c))
<1> DEFINE n == c.drawn
           d == DrawOf(c)
           draw == Elimination(n, "MAIN", NoGroup)
<1>1. n \in Nat /\ n > 1 /\ c.bracketType # "GRAND_SLAM"
  BY CategoryTypes DEF IsElimination
<1>2. m \in DOMAIN draw /\ m \in d.matches /\ m.round \in 1..TotalRoundsFor(n)
  BY MainMatches DEF MainOf
<1> SUFFICES ASSUME NEW s \in Sides PROVE Fed(d, m, s)
  BY <1>2 DEF Contested
<1>3. CASE m.round = 1
  <2>1. ~Unopposed(n, m)
    BY <1>3, MainMatches DEF Unopposed
  <2>2. draw[m][s] # Nobody
    BY <1>1, <1>2, <1>3, <2>1, UnopposedIsAhead DEF Sides
  <2>3. draw[m][s] \in 0..(n - 1)
    BY <1>1, <1>2, <2>2, DrawnFrom DEF Sides
  <2>4. d.entrants[m][s] = draw[m][s]
    BY <1>1, <2>2, EliminationMain
  <2> QED
    BY <2>3, <2>4 DEF Fed
<1>4. CASE m.round # 1
  <2> DEFINE l == MatchId("MAIN", NoGroup, m.round - 1, 2 * m.position - 2 + s)
  <2>0. m.round > 1 /\ TotalRoundsFor(n) \in Nat
    BY <1>1, <1>2, <1>4, RoundsOfBracket
  <2>1. /\ l \in DOMAIN draw /\ l.round = m.round - 1
        /\ m = MatchId("MAIN", NoGroup, l.round + 1, (l.position + 1) \div 2)
        /\ s = IF l.position % 2 = 1 THEN 1 ELSE 2
    BY <1>1, <1>2, <2>0, FeedersInBracket DEF Sides
  <2> HIDE DEF l
  <2>2. l \in MainOf(c)
    BY <2>1 DEF MainOf
  <2>3. l \in d.matches /\ l.round < TotalRoundsFor(n)
    BY <1>2, <2>0, <2>1, <2>2, MainMatches
  <2>4. /\ d.winnerTo[l] \in MainOf(c) /\ d.winnerTo[l].round = l.round + 1
        /\ d.winnerTo[l].position = (l.position + 1) \div 2
        /\ d.winnerSide[l] = IF l.position % 2 = 1 THEN 1 ELSE 2
    BY <2>2, <2>3, MainMatches
  <2>5. d.winnerTo[l] = m
    <3>1. d.winnerTo[l] = MatchId("MAIN", NoGroup, d.winnerTo[l].round, d.winnerTo[l].position)
      BY <2>4, MainMatches
    <3> QED
      BY <2>1, <2>4, <3>1
  <2> QED
    BY <2>1, <2>3, <2>4, <2>5 DEF Fed
<1> QED
  BY <1>3, <1>4

(* So has each repechage and bronze, and losers of quarter-finals come in  *)
(* twos.                                                                   *)
LEMMA RepechageIsContested ==
  ASSUME NEW c, IsCategory(c), IsElimination(c), c.bracketType = "DOUBLE_REPECHAGE", c.drawn >= 8
  PROVE  LET d == DrawOf(c)
             total == TotalRoundsFor(c.drawn)
         IN  /\ total \in Nat /\ total >= 3
             /\ \A half \in Halves : Repechage(half) \in Contested(d) /\ Bronze(half) \in Contested(d)
             /\ \A m \in MainOf(c) : m.round = total - 2 =>
                  \E n \in d.matches : n # m /\ d.loserTo[n] = d.loserTo[m]
<1> DEFINE n == c.drawn
           d == DrawOf(c)
           total == TotalRoundsFor(n)
           quarter(p) == MatchId("MAIN", NoGroup, total - 2, p)
           semi(p) == MatchId("MAIN", NoGroup, total - 1, p)
<1>1. n \in Nat /\ n > 1 /\ c.bracketType # "GRAND_SLAM" /\ c.registered = n
  BY CategoryTypes DEF IsElimination
<1>2. total \in Nat /\ total >= 3
  <2>1. total \in Nat /\ n <= 2^total
    BY <1>1, RoundsOfBracket
  <2>2. total # 0 /\ total # 1 /\ total # 2
    BY <1>1, <2>1, SmallPowers
  <2> QED
    BY <2>1, <2>2
<1> HIDE DEF n, total
<1>3. /\ \A p \in 1..4 : quarter(p) \in MainOf(c) /\ quarter(p).round = total - 2 /\ quarter(p).position = p
      /\ \A p \in 1..2 : semi(p) \in MainOf(c) /\ semi(p).round = total - 1 /\ semi(p).position = p
  <2>1. 2^(total - (total - 2)) = 4 /\ 2^(total - (total - 1)) = 2
    <3>1. total - (total - 2) = 2 /\ total - (total - 1) = 1
      BY <1>2
    <3> QED
      BY <3>1, SmallPowers
  <2>2. total - 2 \in 1..total /\ total - 1 \in 1..total
    BY <1>2
  <2>3. /\ \A p \in 1..4 : quarter(p) \in DOMAIN Elimination(n, "MAIN", NoGroup)
        /\ \A p \in 1..2 : semi(p) \in DOMAIN Elimination(n, "MAIN", NoGroup)
    BY <1>1, <2>1, <2>2, EliminationSlots DEF total
  <2> QED
    BY <2>3 DEF MainOf, MatchId, n
<1>4. MainOf(c) \subseteq d.matches /\ d.matches = MainOf(c) \cup RepechageMatches
  BY <1>1, EliminationMain DEF n
<1>5. ASSUME NEW p \in 1..4
      PROVE  /\ d.loserTo[quarter(p)] = Repechage(IF p <= 2 THEN "TOP" ELSE "BOTTOM")
             /\ d.loserSide[quarter(p)] = ArrivalOrder
  BY <1>1, <1>3, LosersOfDouble DEF n, total
<1>6. ASSUME NEW p \in 1..2
      PROVE  /\ d.loserTo[semi(p)] = Bronze(IF p <= 1 THEN "TOP" ELSE "BOTTOM")
             /\ d.loserSide[semi(p)] = 2
  BY <1>1, <1>3, LosersOfDouble DEF n, total
<1> HIDE DEF quarter, semi
<1>7. ASSUME NEW half \in Halves
      PROVE  Repechage(half) \in Contested(d) /\ Bronze(half) \in Contested(d)
  <2>1. /\ Repechage(half) \in d.matches /\ Bronze(half) \in d.matches
        /\ Repechage(half) \notin d.byes /\ Bronze(half) \notin d.byes
    <3>1. Repechage(half) \in d.matches /\ Bronze(half) \in d.matches
      BY <1>4 DEF RepechageMatches
    <3>2. Repechage(half) \notin MainOf(c) /\ Bronze(half) \notin MainOf(c)
      BY MainMatches DEF Repechage, Bronze, Placeholder, MatchId
    <3>3. \A m \in d.matches \ MainOf(c) : m \notin d.byes
      BY <1>1, EliminationMain DEF n
    <3> QED
      BY <3>1, <3>2, <3>3
  <2>2. /\ d.winnerTo[Repechage(half)] = Bronze(half) /\ d.winnerSide[Repechage(half)] = 1
    BY <1>1, LosersOfDouble DEF n
  <2>3. PICK p \in {1, 3} : half = IF p <= 2 THEN "TOP" ELSE "BOTTOM"
    BY DEF Halves
  <2>4. quarter(p) \in d.matches /\ d.loserTo[quarter(p)] = Repechage(half) /\ d.loserSide[quarter(p)] = ArrivalOrder
    BY <1>3, <1>4, <1>5, <2>3
  <2>5. PICK q \in {1, 2} : half = IF q <= 1 THEN "TOP" ELSE "BOTTOM"
    BY DEF Halves
  <2>6. semi(q) \in d.matches /\ d.loserTo[semi(q)] = Bronze(half) /\ d.loserSide[semi(q)] = 2
    BY <1>3, <1>4, <1>6, <2>5
  <2> QED
    BY <2>1, <2>2, <2>4, <2>6 DEF Contested, Fed, Sides
<1>8. ASSUME NEW m \in MainOf(c), m.round = total - 2
      PROVE  \E l \in d.matches : l # m /\ d.loserTo[l] = d.loserTo[m]
  <2>1. m.position \in 1..4
    <3>1. m.position \in 1..2^(total - m.round) /\ total - m.round = 2
      BY <1>2, <1>8, MainMatches DEF total, n
    <3> QED
      BY <3>1, SmallPowers
  <2>2. d.loserTo[m] = Repechage(IF m.position <= 2 THEN "TOP" ELSE "BOTTOM")
    BY <1>1, <1>8, LosersOfDouble DEF n, total
  <2> DEFINE p == IF m.position <= 2 THEN 3 - m.position ELSE 7 - m.position
  <2>3. p \in 1..4 /\ p # m.position /\ (p <= 2 <=> m.position <= 2)
    BY <2>1
  <2> HIDE DEF p
  <2>4. quarter(p) # m /\ quarter(p) \in d.matches /\ d.loserTo[quarter(p)] = d.loserTo[m]
    BY <1>3, <1>4, <1>5, <2>2, <2>3
  <2> QED
    BY <2>4
<1> QED
  BY <1>2, <1>7, <1>8 DEF total, n

(* A bye of the bracket is of the first round, and its competitor ahead.   *)
LEMMA ByeIsAhead ==
  ASSUME NEW c, IsCategory(c), IsElimination(c), None \notin 0..(c.drawn - 1),
         c.bracketType = "DOUBLE_REPECHAGE" => c.drawn >= 8,
         NEW m \in MainOf(c), m \in DrawOf(c).byes
  PROVE  LET d == DrawOf(c)
         IN  /\ m.round = 1 /\ d.loserTo[m] = None /\ d.entrants[m][1] # None
             /\ d.winnerTo[m] # None => d.entrants[d.winnerTo[m]][d.winnerSide[m]] # None
<1> DEFINE n == c.drawn
           d == DrawOf(c)
           draw == Elimination(n, "MAIN", NoGroup)
           total == TotalRoundsFor(n)
           next == MatchId("MAIN", NoGroup, m.round + 1, (m.position + 1) \div 2)
           side == IF m.position % 2 = 1 THEN 1 ELSE 2
<1>1. n \in Nat /\ n > 1 /\ c.bracketType # "GRAND_SLAM" /\ c.registered = n /\ total \in Nat
  BY CategoryTypes, RoundsOfBracket DEF IsElimination
<1>2. m \in DOMAIN draw /\ m \in d.matches /\ Unopposed(n, m) /\ m.round = 1
  BY MainMatches DEF MainOf, Unopposed
<1>3. draw[m][1] # Nobody /\ m.round < total /\ draw[next][side] = draw[m][1]
  BY <1>1, <1>2, UnopposedIsAhead
<1>4. draw[m][1] \in 0..(n - 1)
  BY <1>1, <1>2, <1>3, DrawnFrom
<1>5. d.entrants[m][1] # None
  BY <1>1, <1>3, <1>4, EliminationMain DEF Sides
<1>6. d.entrants[d.winnerTo[m]][d.winnerSide[m]] # None
  <2>1. /\ d.winnerTo[m] \in MainOf(c) /\ d.winnerTo[m].round = m.round + 1
        /\ d.winnerTo[m].position = (m.position + 1) \div 2
        /\ d.winnerSide[m] = side
    BY <1>3, MainMatches
  <2>2. d.winnerTo[m] = next
    <3>1. d.winnerTo[m] = MatchId("MAIN", NoGroup, d.winnerTo[m].round, d.winnerTo[m].position)
      BY <2>1, MainMatches
    <3> QED
      BY <2>1, <3>1
  <2> HIDE DEF next
  <2>3. side \in Sides
    BY DEF Sides
  <2> HIDE DEF side
  <2> QED
    BY <1>1, <1>3, <1>4, <2>1, <2>2, <2>3, EliminationMain DEF Nobody
<1>7. d.loserTo[m] = None
  <2> SUFFICES ASSUME d.loserTo[m] # None PROVE FALSE
    OBVIOUS
  <2>1. c.bracketType = "DOUBLE_REPECHAGE" /\ (m.round = total - 2 \/ m.round = total - 1)
    BY <1>2, LosersOfElimination
  <2>2. total = 3
    BY <1>2, <2>1, RepechageIsContested
  <2>3. n = 8
    <3>1. n <= 2^total /\ 2^3 = 8
      <4>1. 2^3 = 2 * 2^2
        BY PowerStep
      <4> QED
        BY <1>1, <4>1, RoundsOfBracket, SmallPowers
    <3> QED
      BY <1>1, <2>1, <2>2, <3>1
  <2>4. 2^total = 8
    BY <2>2, PowerStep, SmallPowers
  <2>5. m.position \in 1..2^(total - 1)
    BY <1>2, MainMatches
  <2>6. 2 * m.position \in 1..2^total
    BY <1>1, <2>5, FirstRoundSlots
  <2>7. Seedings[total][2 * m.position] \in 0..7
    <3>1. Seedings[total][2 * m.position] \in 0..(2^total - 1)
      BY <1>1, <2>6, SeedsHavePlaces DEF SeedsAreSet
    <3> HIDE DEF total
    <3> QED
      BY <2>4, <3>1
  <2>8. FirstRound(n, m.position)[2] = Seedings[total][2 * m.position]
    BY <1>1, <2>3, <2>5, <2>7, FirstRoundSlots
  <2> QED
    BY <1>2, <2>7, <2>8 DEF Unopposed, Nobody
<1> QED
  BY <1>2, <1>5, <1>6, <1>7

LEMMA EliminationFlows ==
  ASSUME NEW c, IsCategory(c), IsElimination(c), None \notin 0..(c.drawn - 1),
         c.bracketType = "DOUBLE_REPECHAGE" => c.drawn >= 8
  PROVE  Flows(DrawOf(c), LevelsOf(c))
<1> DEFINE n == c.drawn
           d == DrawOf(c)
           total == TotalRoundsFor(n)
           level == LevelsOf(c)
<1>1. n \in Nat /\ n > 1 /\ c.bracketType # "GRAND_SLAM" /\ c.registered = n /\ total \in Nat
  BY CategoryTypes, RoundsOfBracket DEF IsElimination
<1>2. total <= n
  <2>1. total >= 1 /\ 2^(total - 1) < n
    BY <1>1, RoundsOfBracket
  <2>2. total - 1 \in Nat
    BY <1>1, <2>1
  <2>3. 2^(total - 1) \in Nat /\ total - 1 <= 2^(total - 1)
    BY <2>2, PowersOfTwo
  <2> QED
    BY <1>1, <2>1, <2>3
<1>3. /\ c.bracketType \in {"SINGLE_REPECHAGE", "DOUBLE_REPECHAGE"}
      /\ c.bracketType = "SINGLE_REPECHAGE" => d.matches = MainOf(c)
      /\ c.bracketType = "DOUBLE_REPECHAGE" => d.matches = MainOf(c) \cup RepechageMatches
  BY <1>1, EliminationMain, CategoryTypes
<1>4. \A m \in MainOf(c) : level[m] = m.round /\ m.round \in 1..total /\ m \in d.matches
  BY MainMatches DEF LevelsOf
<1>5. \A half \in Halves :
        /\ Repechage(half) \in d.matches => level[Repechage(half)] = n + 1
        /\ Bronze(half) \in d.matches => level[Bronze(half)] = n + 2
  BY DEF LevelsOf, Repechage, Bronze, Placeholder, MatchId
<1> HIDE DEF n, d, total, level
<1> SUFFICES ASSUME NEW m \in d.matches
             PROVE  /\ level[m] \in Nat
                    /\ d.winnerTo[m] # None => level[m] < level[d.winnerTo[m]]
                    /\ d.loserTo[m] # None => level[m] < level[d.loserTo[m]]
                    /\ m \notin Contested(d) =>
                         /\ m.round = 1 /\ m.phase \in {"MAIN", "POOL"} /\ d.loserTo[m] = None
                         /\ \E side \in Sides : d.entrants[m][side] # None
                         /\ d.winnerTo[m] # None => d.entrants[d.winnerTo[m]][d.winnerSide[m]] # None
                    /\ d.loserTo[m] # None /\ d.loserSide[m] = ArrivalOrder =>
                         \E l \in d.matches : l # m /\ d.loserTo[l] = d.loserTo[m]
  BY DEF Flows, d, level
<1>6. CASE m \in MainOf(c)
  <2>1. d.winnerTo[m] # None => level[m] < level[d.winnerTo[m]]
    <3>1. d.winnerTo[m] # None => d.winnerTo[m] \in MainOf(c) /\ d.winnerTo[m].round = m.round + 1
      BY <1>6, MainMatches DEF d, total, n
    <3> QED
      BY <1>4, <1>6, <3>1
  <2>2. ASSUME d.loserTo[m] # None
        PROVE  /\ level[m] < level[d.loserTo[m]]
               /\ d.loserSide[m] = ArrivalOrder => m.round = total - 2
               /\ c.bracketType = "DOUBLE_REPECHAGE"
    <3>1. /\ c.bracketType = "DOUBLE_REPECHAGE"
          /\ \/ /\ m.round = total - 2 /\ d.loserSide[m] = ArrivalOrder
                /\ d.loserTo[m] = Repechage(IF m.position <= 2 THEN "TOP" ELSE "BOTTOM")
             \/ /\ m.round = total - 1 /\ d.loserSide[m] = 2
                /\ d.loserTo[m] = Bronze(IF m.position <= 1 THEN "TOP" ELSE "BOTTOM")
          /\ d.loserTo[m] \in d.matches
      BY <2>2, LosersOfElimination DEF d, total, n
    <3>2. level[d.loserTo[m]] \in {n + 1, n + 2}
      BY <1>5, <3>1 DEF Halves
    <3>3. level[m] <= n
      BY <1>1, <1>2, <1>4, <1>6
    <3> QED
      BY <1>1, <1>4, <1>6, <3>1, <3>2, <3>3 DEF ArrivalOrder
  <2>3. ASSUME m \notin Contested(d)
        PROVE  /\ m.round = 1 /\ m.phase \in {"MAIN", "POOL"} /\ d.loserTo[m] = None
               /\ \E side \in Sides : d.entrants[m][side] # None
               /\ d.winnerTo[m] # None => d.entrants[d.winnerTo[m]][d.winnerSide[m]] # None
    <3>1. m \in d.byes
      BY <1>6, <2>3, MainIsContested DEF d, n
    <3>2. /\ m.round = 1 /\ d.loserTo[m] = None /\ d.entrants[m][1] # None
          /\ d.winnerTo[m] # None => d.entrants[d.winnerTo[m]][d.winnerSide[m]] # None
      BY <1>6, <3>1, ByeIsAhead DEF d, n
    <3>3. m.phase = "MAIN"
      BY <1>6, MainMatches
    <3> QED
      BY <3>2, <3>3 DEF Sides
  <2>4. ASSUME d.loserTo[m] # None, d.loserSide[m] = ArrivalOrder
        PROVE  \E l \in d.matches : l # m /\ d.loserTo[l] = d.loserTo[m]
    BY <1>6, <2>2, <2>4, RepechageIsContested DEF d, total, n
  <2>5. level[m] \in Nat
    BY <1>4, <1>6
  <2> QED
    BY <2>1, <2>2, <2>3, <2>4, <2>5
<1>7. CASE m \notin MainOf(c)
  <2>1. c.bracketType = "DOUBLE_REPECHAGE" /\ \E half \in Halves : m \in {Repechage(half), Bronze(half)}
    BY <1>3, <1>7 DEF RepechageMatches
  <2>2. PICK half \in Halves : m \in {Repechage(half), Bronze(half)}
    BY <2>1
  <2>3. m \in Contested(d)
    BY <2>1, <2>2, RepechageIsContested DEF d, n
  <2>4. /\ d.loserTo[m] = None
        /\ m = Bronze(half) => d.winnerTo[m] = None
        /\ m = Repechage(half) => d.winnerTo[m] = Bronze(half)
    BY <1>1, <2>1, <2>2, LosersOfDouble DEF d, n
  <2>5. Bronze(half) \in d.matches
    BY <1>3, <2>1 DEF RepechageMatches
  <2>6. /\ level[m] \in Nat
        /\ d.winnerTo[m] # None => level[m] < level[d.winnerTo[m]]
    <3>1. CASE m = Bronze(half)
      BY <1>1, <1>5, <2>4, <3>1
    <3>2. CASE m = Repechage(half)
      BY <1>1, <1>5, <2>4, <2>5, <3>2
    <3> QED
      BY <2>2, <3>1, <3>2
  <2> QED
    BY <2>3, <2>4, <2>6
<1> QED
  BY <1>6, <1>7

-----------------------------------------------------------------------------
(* Grand slams flow *)

(* A match of a pool whose second seat of the first round is empty cannot  *)
(* be fought, and its competitor is ahead; any other one is contested.     *)
LEMMA PoolMatchFlows ==
  ASSUME NEW c, IsCategory(c), IsSlam(c), None \notin 0..(c.drawn - 1),
         NEW group \in SlamPools, NEW m \in DOMAIN PoolDraw(c, group)
  PROVE  LET d == DrawOf(c)
         IN  \/ m \in Contested(d)
             \/ /\ m.round = 1 /\ m.phase = "POOL" /\ d.loserTo[m] = None /\ d.entrants[m][1] # None
                /\ d.entrants[d.winnerTo[m]][d.winnerSide[m]] # None
<1> DEFINE k == PoolSize(c.drawn, group)
           d == DrawOf(c)
           draw == PoolDraw(c, group)
           rounds == RoundsOfPool(c, group)
           next == MatchId("POOL", group, m.round + 1, (m.position + 1) \div 2)
           side == IF m.position % 2 = 1 THEN 1 ELSE 2
<1>1. k \in Nat /\ k > 1 /\ rounds \in Nat /\ m.round \in 1..rounds /\ m.phase = "POOL"
  BY PoolBracket
<1>2. /\ DOMAIN draw \subseteq d.matches /\ d.byes = {}
      /\ \A o \in DOMAIN draw, s \in Sides : draw[o][s] # Nobody => d.entrants[o][s] # None
  <2>1. \A o \in DOMAIN draw, s \in Sides : draw[o][s] # Nobody => d.entrants[o][s] \in 0..(c.drawn - 1)
    BY SlamMatches
  <2> QED
    BY <2>1, SlamMatches
<1>3. draw = Elimination(k, "POOL", group) /\ rounds = TotalRoundsFor(k)
  BY DEF PoolDraw, RoundsOfPool
<1> HIDE DEF k, draw, rounds, d
<1>4. CASE Unopposed(k, m)
  <2>1. m.round = 1
    BY <1>4 DEF Unopposed
  <2>2. draw[m][1] # Nobody /\ m.round < rounds /\ draw[next][side] = draw[m][1]
    BY <1>1, <1>3, <1>4, <2>1, UnopposedIsAhead DEF draw
  <2>3. d.winnerTo[m] = next /\ d.winnerSide[m] = side /\ d.loserTo[m] = None
    BY <2>2, SlamRoutes DEF d, draw, rounds
  <2>4. next \in DOMAIN draw
    BY <1>1, <1>3, <2>2, NextInBracket DEF draw
  <2>5. side \in Sides /\ 1 \in Sides
    BY DEF Sides
  <2> HIDE DEF next, side
  <2>6. d.entrants[m][1] # None /\ d.entrants[next][side] # None
    BY <1>2, <2>2, <2>4, <2>5 DEF draw
  <2> QED
    BY <1>1, <2>1, <2>3, <2>6 DEF d
<1>5. CASE ~Unopposed(k, m)
  <2> SUFFICES ASSUME NEW s \in Sides PROVE Fed(d, m, s)
    BY <1>2 DEF Contested, d, draw
  <2>1. CASE m.round = 1
    <3>1. draw[m][s] # Nobody
      BY <1>1, <1>3, <1>5, <2>1, UnopposedIsAhead DEF Sides, draw
    <3> QED
      BY <1>2, <3>1 DEF Fed, draw
  <2>2. CASE m.round # 1
    <3> DEFINE l == MatchId("POOL", group, m.round - 1, 2 * m.position - 2 + s)
    <3>0. m.round > 1
      BY <1>1, <2>2
    <3>1. /\ l \in DOMAIN draw /\ l.round = m.round - 1
          /\ m = MatchId("POOL", group, l.round + 1, (l.position + 1) \div 2)
          /\ s = IF l.position % 2 = 1 THEN 1 ELSE 2
      BY <1>1, <1>3, <3>0, FeedersInBracket DEF Sides, draw
    <3> HIDE DEF l
    <3>2. l.round < rounds
      BY <1>1, <3>0, <3>1
    <3>3. d.winnerTo[l] = m /\ d.winnerSide[l] = s
      BY <3>1, <3>2, SlamRoutes DEF d, draw, rounds
    <3> QED
      BY <1>2, <3>1, <3>3 DEF Fed
  <2> QED
    BY <2>1, <2>2
<1> QED
  BY <1>4, <1>5 DEF d

LEMMA KnockoutIsContested ==
  ASSUME NEW c, IsCategory(c), IsSlam(c), NEW m \in SlamOthers
  PROVE  m \in Contested(DrawOf(c))
<1> DEFINE d == DrawOf(c)
           last(group) == LastOfPool(c, group)
<1>1. SlamOthers \subseteq d.matches /\ d.byes = {} /\ m \in d.matches
  BY SlamMatches
<1>2. ASSUME NEW group \in SlamPools
      PROVE  /\ last(group) \in d.matches
             /\ d.winnerTo[last(group)] = Semifinal(IF TopPool(group) THEN 1 ELSE 2)
             /\ d.winnerSide[last(group)] = SideOfPool(group)
             /\ d.loserTo[last(group)] = Repechage(HalfOf(group))
             /\ d.loserSide[last(group)] = SideOfPool(group)
  <2>1. last(group) \in DOMAIN PoolDraw(c, group) /\ RoundsOfPool(c, group) \in Nat
    BY PoolBracket DEF LastOfPool
  <2>2. ~(last(group).round < RoundsOfPool(c, group))
    BY <2>1 DEF LastOfPool, MatchId
  <2>3. last(group) \in d.matches
    BY <2>1, SlamMatches
  <2> QED
    BY <2>1, <2>2, <2>3, SlamRoutes
<1>3. ASSUME NEW p \in {1, 2}
      PROVE  /\ Semifinal(p) \in d.matches
             /\ d.winnerTo[Semifinal(p)] = Final /\ d.winnerSide[Semifinal(p)] = p
             /\ d.loserTo[Semifinal(p)] = Bronze(CrossHalf(p)) /\ d.loserSide[Semifinal(p)] = 2
  <2>1. Semifinal(p) \in SlamOthers
    BY DEF SlamOthers
  <2> QED
    BY <1>1, <2>1, SlamRoutes
<1>4. ASSUME NEW half \in Halves
      PROVE  /\ Repechage(half) \in d.matches
             /\ d.winnerTo[Repechage(half)] = Bronze(half) /\ d.winnerSide[Repechage(half)] = 1
  <2>1. Repechage(half) \in SlamOthers
    BY DEF SlamOthers, RepechageMatches
  <2> QED
    BY <1>1, <2>1, SlamRoutes
<1> HIDE DEF d, last
<1>5. /\ d.winnerTo[last("A")] = Semifinal(1) /\ d.winnerSide[last("A")] = 1 /\ last("A") \in d.matches
      /\ d.winnerTo[last("B")] = Semifinal(1) /\ d.winnerSide[last("B")] = 2 /\ last("B") \in d.matches
      /\ d.winnerTo[last("C")] = Semifinal(2) /\ d.winnerSide[last("C")] = 1 /\ last("C") \in d.matches
      /\ d.winnerTo[last("D")] = Semifinal(2) /\ d.winnerSide[last("D")] = 2 /\ last("D") \in d.matches
      /\ d.loserTo[last("A")] = Repechage("TOP") /\ d.loserSide[last("A")] = 1
      /\ d.loserTo[last("B")] = Repechage("TOP") /\ d.loserSide[last("B")] = 2
      /\ d.loserTo[last("C")] = Repechage("BOTTOM") /\ d.loserSide[last("C")] = 1
      /\ d.loserTo[last("D")] = Repechage("BOTTOM") /\ d.loserSide[last("D")] = 2
  BY <1>2 DEF SlamPools, TopPool, SideOfPool, HalfOf
<1>6. CASE m \in {Semifinal(1), Semifinal(2)}
  BY <1>1, <1>5, <1>6 DEF Contested, Fed, Sides, d
<1>7. CASE m = Final
  BY <1>1, <1>3, <1>7 DEF Contested, Fed, Sides, d
<1>8. CASE m \in RepechageMatches
  <2>1. PICK half \in Halves : m \in {Repechage(half), Bronze(half)}
    BY <1>8 DEF RepechageMatches
  <2>2. half = "TOP" \/ half = "BOTTOM"
    BY DEF Halves
  <2>3. CASE m = Repechage(half)
    BY <1>1, <1>5, <2>2, <2>3 DEF Contested, Fed, Sides, d
  <2>4. CASE m = Bronze(half)
    <3>1. \E p \in {1, 2} : CrossHalf(p) = half
      BY <2>2 DEF CrossHalf
    <3> QED
      BY <1>1, <1>3, <1>4, <2>4, <3>1 DEF Contested, Fed, Sides, d
  <2> QED
    BY <2>1, <2>3, <2>4
<1> QED
  BY <1>6, <1>7, <1>8 DEF SlamOthers

LEMMA SlamFlows ==
  ASSUME NEW c, IsCategory(c), IsSlam(c), None \notin 0..(c.drawn - 1)
  PROVE  Flows(DrawOf(c), LevelsOf(c))
<1> DEFINE n == c.drawn
           d == DrawOf(c)
           level == LevelsOf(c)
<1>1. n \in Nat /\ n >= 16
  BY CategoryTypes DEF IsSlam, IsGrandSlamBracketSize
<1>2. \A group \in SlamPools : RoundsOfPool(c, group) \in Nat /\ RoundsOfPool(c, group) <= n
  <2> TAKE group \in SlamPools
  <2> DEFINE k == PoolSize(n, group)
             rounds == RoundsOfPool(c, group)
  <2>1. k \in Nat /\ k > 1 /\ rounds \in Nat /\ rounds >= 1
    BY PoolBracket
  <2>2. k <= n
    <3> DEFINE size(g) == PoolSize(n, g)
    <3>1. /\ \A g \in SlamPools : size(g) \in n \div 4 .. (n \div 4 + 1)
          /\ n \div 4 \in Nat /\ n \div 4 >= 4
      BY <1>1, PoolSizes
    <3>2. k <= n \div 4 + 1
      BY <3>1
    <3>3. n \div 4 + 1 <= n
      BY <1>1
    <3> HIDE DEF k
    <3> QED
      BY <1>1, <2>1, <3>1, <3>2, <3>3
  <2>3. 2^(rounds - 1) < k /\ rounds - 1 \in Nat
    BY <2>1, RoundsOfBracket DEF RoundsOfPool
  <2> HIDE DEF k, rounds, n
  <2>4. 2^(rounds - 1) \in Nat /\ rounds - 1 <= 2^(rounds - 1)
    BY <2>3, PowersOfTwo
  <2>5. rounds <= n
    BY <1>1, <2>1, <2>2, <2>3, <2>4
  <2> QED
    BY <2>1, <2>5 DEF rounds
<1>3. d.matches = (UNION {DOMAIN PoolDraw(c, group) : group \in SlamPools}) \cup SlamOthers
  BY SlamMatches
<1>4. ASSUME NEW group \in SlamPools, NEW m \in DOMAIN PoolDraw(c, group)
      PROVE  /\ m \in d.matches /\ level[m] = m.round /\ m.round \in 1..RoundsOfPool(c, group)
             /\ level[m] \in Nat /\ level[m] <= n
  <2>1. m \in d.matches /\ m.phase = "POOL" /\ m.round \in 1..RoundsOfPool(c, group)
    BY <1>3, PoolBracket
  <2>2. level[m] = m.round
    BY <2>1 DEF LevelsOf
  <2> HIDE DEF n, level
  <2> QED
    BY <1>1, <1>2, <2>1, <2>2
<1>5. /\ \A p \in {1, 2} : Semifinal(p) \in d.matches /\ level[Semifinal(p)] = n + 1
      /\ Final \in d.matches /\ level[Final] = n + 2
      /\ \A half \in Halves :
           /\ Repechage(half) \in d.matches /\ level[Repechage(half)] = n + 1
           /\ Bronze(half) \in d.matches /\ level[Bronze(half)] = n + 2
  <2>1. /\ \A p \in {1, 2} : Semifinal(p) \in d.matches
        /\ Final \in d.matches
        /\ \A half \in Halves : Repechage(half) \in d.matches /\ Bronze(half) \in d.matches
    BY <1>3 DEF SlamOthers, RepechageMatches
  <2> QED
    BY <2>1, SlamIds DEF LevelsOf
<1> HIDE DEF n, d, level
<1> SUFFICES ASSUME NEW m \in d.matches
             PROVE  /\ level[m] \in Nat
                    /\ d.winnerTo[m] # None => level[m] < level[d.winnerTo[m]]
                    /\ d.loserTo[m] # None => level[m] < level[d.loserTo[m]]
                    /\ m \notin Contested(d) =>
                         /\ m.round = 1 /\ m.phase \in {"MAIN", "POOL"} /\ d.loserTo[m] = None
                         /\ \E side \in Sides : d.entrants[m][side] # None
                         /\ d.winnerTo[m] # None => d.entrants[d.winnerTo[m]][d.winnerSide[m]] # None
                    /\ d.loserTo[m] # None /\ d.loserSide[m] = ArrivalOrder =>
                         \E l \in d.matches : l # m /\ d.loserTo[l] = d.loserTo[m]
  BY DEF Flows, d, level
<1>6. level[m] \in Nat
  <2>1. CASE m \in SlamOthers
    <3>1. level[m] \in {n + 1, n + 2}
      BY <1>5, <2>1 DEF SlamOthers, RepechageMatches
    <3> QED
      BY <1>1, <3>1 DEF n
  <2> QED
    BY <1>3, <1>4, <2>1
<1>7. d.winnerTo[m] # None => level[m] < level[d.winnerTo[m]]
  <2> SUFFICES ASSUME d.winnerTo[m] # None PROVE level[m] < level[d.winnerTo[m]]
    OBVIOUS
  <2>1. \/ \E group \in SlamPools :
             /\ m \in DOMAIN PoolDraw(c, group) /\ m.round < RoundsOfPool(c, group)
             /\ d.winnerTo[m] = MatchId("POOL", group, m.round + 1, (m.position + 1) \div 2)
        \/ \E group \in SlamPools :
             m = LastOfPool(c, group) /\ d.winnerTo[m] = Semifinal(IF TopPool(group) THEN 1 ELSE 2)
        \/ \E p \in {1, 2} : m = Semifinal(p) /\ d.winnerTo[m] = Final
        \/ \E half \in Halves : m = Repechage(half) /\ d.winnerTo[m] = Bronze(half)
    BY SlamLeads DEF d
  <2>2. ASSUME NEW group \in SlamPools, m \in DOMAIN PoolDraw(c, group), m.round < RoundsOfPool(c, group),
               d.winnerTo[m] = MatchId("POOL", group, m.round + 1, (m.position + 1) \div 2)
        PROVE  level[m] < level[d.winnerTo[m]]
    <3>1. d.winnerTo[m] \in DOMAIN PoolDraw(c, group)
      BY <2>2, PoolBracket DEF Route
    <3>2. d.winnerTo[m].round = m.round + 1
      BY <2>2 DEF MatchId
    <3>3. level[d.winnerTo[m]] = m.round + 1 /\ level[m] = m.round /\ m.round \in Int
      BY <1>4, <2>2, <3>1, <3>2
    <3> QED
      BY <3>3
  <2>3. ASSUME NEW group \in SlamPools,
               m = LastOfPool(c, group), d.winnerTo[m] = Semifinal(IF TopPool(group) THEN 1 ELSE 2)
        PROVE  level[m] < level[d.winnerTo[m]]
    <3>1. m \in DOMAIN PoolDraw(c, group)
      BY <2>3, PoolBracket DEF LastOfPool
    <3>2. level[m] \in Nat /\ level[m] <= n /\ level[d.winnerTo[m]] = n + 1
      BY <1>4, <1>5, <2>3, <3>1
    <3> QED
      BY <1>1, <3>2 DEF n
  <2>4. ASSUME NEW p \in {1, 2}, m = Semifinal(p), d.winnerTo[m] = Final
        PROVE  level[m] < level[d.winnerTo[m]]
    BY <1>1, <1>5, <2>4 DEF n
  <2>5. ASSUME NEW half \in Halves, m = Repechage(half), d.winnerTo[m] = Bronze(half)
        PROVE  level[m] < level[d.winnerTo[m]]
    BY <1>1, <1>5, <2>5 DEF n
  <2> QED
    BY <2>1, <2>2, <2>3, <2>4, <2>5
<1>8. d.loserTo[m] # None => level[m] < level[d.loserTo[m]] /\ d.loserSide[m] # ArrivalOrder
  <2> SUFFICES ASSUME d.loserTo[m] # None
               PROVE  level[m] < level[d.loserTo[m]] /\ d.loserSide[m] # ArrivalOrder
    OBVIOUS
  <2>1. /\ \/ \E group \in SlamPools :
                m \in DOMAIN PoolDraw(c, group) /\ d.loserTo[m] = Repechage(HalfOf(group))
           \/ \E p \in {1, 2} : m = Semifinal(p) /\ d.loserTo[m] = Bronze(CrossHalf(p))
        /\ d.loserSide[m] \in Sides
    BY SlamLeads DEF d
  <2>2. d.loserSide[m] # ArrivalOrder
    BY <2>1 DEF Sides, ArrivalOrder
  <2>3. ASSUME NEW group \in SlamPools, m \in DOMAIN PoolDraw(c, group), d.loserTo[m] = Repechage(HalfOf(group))
        PROVE  level[m] < level[d.loserTo[m]]
    <3>1. HalfOf(group) \in Halves
      BY DEF HalfOf, Halves
    <3>2. level[m] \in Nat /\ level[m] <= n /\ level[d.loserTo[m]] = n + 1
      BY <1>4, <1>5, <2>3, <3>1
    <3> QED
      BY <1>1, <3>2 DEF n
  <2>4. ASSUME NEW p \in {1, 2}, m = Semifinal(p), d.loserTo[m] = Bronze(CrossHalf(p))
        PROVE  level[m] < level[d.loserTo[m]]
    <3>1. CrossHalf(p) \in Halves
      BY DEF CrossHalf, Halves
    <3>2. level[m] = n + 1 /\ level[d.loserTo[m]] = n + 2
      BY <1>5, <2>4, <3>1
    <3> QED
      BY <1>1, <3>2 DEF n
  <2> QED
    BY <2>1, <2>2, <2>3, <2>4
<1>9. ASSUME m \notin Contested(d)
      PROVE  /\ m.round = 1 /\ m.phase \in {"MAIN", "POOL"} /\ d.loserTo[m] = None
             /\ \E side \in Sides : d.entrants[m][side] # None
             /\ d.winnerTo[m] # None => d.entrants[d.winnerTo[m]][d.winnerSide[m]] # None
  <2>1. m \notin SlamOthers
    BY <1>9, KnockoutIsContested DEF d
  <2>2. PICK group \in SlamPools : m \in DOMAIN PoolDraw(c, group)
    BY <1>3, <2>1
  <2>3. /\ m.round = 1 /\ m.phase = "POOL" /\ d.loserTo[m] = None /\ d.entrants[m][1] # None
        /\ d.entrants[d.winnerTo[m]][d.winnerSide[m]] # None
    BY <1>9, <2>2, PoolMatchFlows DEF d
  <2> QED
    BY <2>3 DEF Sides
<1> QED
  BY <1>6, <1>7, <1>8, <1>9

-----------------------------------------------------------------------------
(* What the profiles count *)

LEMMA SumFunctionIs ==
  ASSUME NEW f
  PROVE  Sums!SumFunction(f) = SumOf(f, DOMAIN f)
BY DEF Sums!SumFunction, Sums!SumFunctionOnSet, Sums!FoldFunctionOnSet, Sums!MapThenFoldSet, SumOf, IsSum, SumStep

(* The matches that have been fought, each won and lost by one competitor. *)
FoughtIn(d, r) == {m \in d.matches \ d.byes : Over(r, m)}

LEMMA WonAndLost ==
  ASSUME PagesIInv
  PROVE  LET C == 0..(category.drawn - 1)
             d == TheDraw
         IN  /\ category \in Categories /\ DOMAIN row = d.matches /\ None \notin C
             /\ \A m \in d.matches, s \in Sides : row[m].competitor[s] \in C \cup {None}
             /\ \A m \in FoughtIn(d, row) :
                  LET loser == Loser(row[m], row[m].winner)
                  IN  /\ row[m].winner \in C /\ loser \in C /\ row[m].winner # loser
                      /\ Beaten(row, m) = {loser} /\ Seats(m) = {row[m].winner, loser}
             /\ \A m \in d.byes : m \in d.matches =>
                  /\ Over(row, m) /\ row[m].winner # None
                  /\ Beaten(row, m) = {} /\ Seats(m) = {row[m].winner}
<1> DEFINE d == TheDraw
           C == 0..(category.drawn - 1)
<1>1. PICK c \in Categories : category = c /\ row \in [Drawn[c].matches -> Bracket(c, Drawn[c])!Row]
  BY DEF PagesIInv, SeatedIInv, TurnsIInv, Typing
<1>2. /\ category \in Categories /\ DOMAIN row = d.matches /\ None \notin C
      /\ \A m \in d.matches, s \in Sides : row[m].competitor[s] \in C \cup {None}
  BY <1>1, DrawsAreTyped DEF TheDraw, Bracket!Row, Bracket!MaybeCompetitor, Bracket!Sides, Sides, Bracket!DrawTypes
<1>3. FoughtRows(d, row) /\ RowsTell(d, row)
  BY DEF PagesIInv, SeatedIInv, TurnsIInv, TurnsInv
<1> HIDE DEF d, C
<1>4. ASSUME NEW m \in FoughtIn(d, row)
      PROVE  LET loser == Loser(row[m], row[m].winner)
             IN  /\ row[m].winner \in C /\ loser \in C /\ row[m].winner # loser
                 /\ Beaten(row, m) = {loser} /\ Seats(m) = {row[m].winner, loser}
  <2>1. m \in d.matches /\ m \notin d.byes /\ Over(row, m)
    BY DEF FoughtIn
  <2>2. PICK side \in Sides :
           /\ row[m].winner = row[m].competitor[side]
           /\ row[m].competitor[side] # None /\ row[m].competitor[3 - side] # None
           /\ row[m].competitor[side] # row[m].competitor[3 - side]
    BY <1>3, <2>1 DEF FoughtRows
  <2>3. 3 - side \in Sides /\ Sides = {side, 3 - side}
    BY OtherSide
  <2>4. Loser(row[m], row[m].winner) = row[m].competitor[3 - side]
    BY <2>2 DEF Loser, Sides
  <2>5. Beaten(row, m) = {Loser(row[m], row[m].winner)}
    BY <1>2, <1>3, <2>1, FoughtHasLoser
  <2>6. row[m].competitor[side] \in C /\ row[m].competitor[3 - side] \in C
    BY <1>2, <2>1, <2>2, <2>3
  <2>7. Seats(m) = {row[m].competitor[side], row[m].competitor[3 - side]}
    BY <2>2, <2>3 DEF Seats
  <2> QED
    BY <2>2, <2>4, <2>5, <2>6, <2>7
<1>5. ASSUME NEW m \in d.byes, m \in d.matches
      PROVE  /\ Over(row, m) /\ row[m].winner # None
             /\ Beaten(row, m) = {} /\ Seats(m) = {row[m].winner}
  <2>1. PICK side \in Sides :
           /\ row[m].winner = row[m].competitor[side] /\ row[m].winner # None
           /\ row[m].competitor[3 - side] = None
    BY <1>3, <1>5 DEF RowsTell
  <2>2. 3 - side \in Sides /\ Sides = {side, 3 - side}
    BY OtherSide
  <2>3. Beaten(row, m) = {} /\ Seats(m) = {row[m].winner}
    BY <2>1, <2>2 DEF Beaten, Seats
  <2> QED
    BY <1>3, <1>5, <2>1, <2>3 DEF FoughtRows
<1> QED
  BY <1>2, <1>4, <1>5 DEF d, C

(* A profile counts the defeats, and the victories that are no byes.       *)
LEMMA ProfileCounts ==
  ASSUME PagesIInv, NEW x \in 0..(category.drawn - 1)
  PROVE  LET d == TheDraw
         IN  /\ Profile(x).lost = Cardinality(DefeatsIn(d, row, x))
             /\ Profile(x).lost =
                  Cardinality({m \in FoughtIn(d, row) : Loser(row[m], row[m].winner) = x})
             /\ Profile(x).ippons = Cardinality({m \in FoughtIn(d, row) : row[m].winner = x})
<1> DEFINE d == TheDraw
           fought == FoughtIn(d, row)
           played == FoughtBy(x)
           won == {m \in played : row[m].winner = x}
           loser(m) == Loser(row[m], row[m].winner)
<1>1. /\ DOMAIN row = d.matches /\ x # None
      /\ \A m \in fought : /\ row[m].winner # None /\ row[m].winner # loser(m) /\ loser(m) # None
                           /\ Beaten(row, m) = {loser(m)} /\ Seats(m) = {row[m].winner, loser(m)}
      /\ \A m \in d.byes : m \in d.matches =>
           Over(row, m) /\ row[m].winner # None /\ Beaten(row, m) = {} /\ Seats(m) = {row[m].winner}
  BY WonAndLost
<1>2. \A m \in d.matches : Over(row, m) <=> m \in fought \/ m \in d.byes
  BY <1>1 DEF FoughtIn
<1>3. fought \subseteq d.matches /\ fought \cap d.byes = {}
  BY DEF FoughtIn
<1>4. \A m \in fought : row[m].winMethod = "IPPON"
  BY DEF FoughtIn, PagesIInv, RowsTell
<1>5. \A m \in d.byes : m \in d.matches => row[m].winMethod # "IPPON"
  BY <1>1 DEF PagesIInv, RowsTell
<1>6. \A m : m \in played <=> m \in d.matches /\ Over(row, m) /\ x \in Seats(m)
  BY <1>1 DEF FoughtBy, Completed, Over
<1>10. \A m : m \in won <=> m \in played /\ row[m].winner = x
  OBVIOUS
<1> HIDE DEF d, fought, played, won, loser
<1>7. {m \in played \ won : row[m].winner # None} = {m \in fought : loser(m) = x}
  BY <1>1, <1>2, <1>3, <1>6, <1>10
<1>8. {m \in won : row[m].winMethod = "IPPON"} = {m \in fought : row[m].winner = x}
  BY <1>1, <1>2, <1>3, <1>4, <1>5, <1>6, <1>10
<1>9. DefeatsIn(d, row, x) = {m \in fought : loser(m) = x}
  BY <1>1, <1>2, <1>3 DEF DefeatsIn
<1>11. /\ Profile(x).lost = Cardinality({m \in played \ won : row[m].winner # None})
       /\ Profile(x).ippons = Cardinality({m \in won : row[m].winMethod = "IPPON"})
  BY DEF Profile, played, won
<1> QED
  BY <1>7, <1>8, <1>9, <1>11 DEF d, fought, loser

LEMMA MatchesAreFinite ==
  ASSUME NEW c, IsCategory(c), IsElimination(c) \/ IsSlam(c)
  PROVE  IsFiniteSet(DrawOf(c).matches)
<1>1. ASSUME NEW n \in Nat, n > 1, NEW phase, NEW group
      PROVE  IsFiniteSet(DOMAIN Elimination(n, phase, group))
  <2> DEFINE rounds == TotalRoundsFor(n)
             of(round) == {MatchId(phase, group, round, position) : position \in 1..2^(rounds - round)}
             parts == {of(round) : round \in 1..rounds}
  <2>1. rounds \in Nat
    BY <1>1, RoundsOfBracket
  <2>2. ASSUME NEW round \in 1..rounds PROVE IsFiniteSet(of(round))
    <3>1. rounds - round \in Nat
      BY <2>1
    <3>2. 2^(rounds - round) \in Nat
      BY <3>1, PowersOfTwo
    <3> DEFINE positions == 1..2^(rounds - round)
               f == [position \in positions |-> MatchId(phase, group, round, position)]
    <3>3. IsFiniteSet(positions)
      BY <3>2, FS_Interval
    <3>4. of(round) = {f[position] : position \in positions}
      OBVIOUS
    <3> HIDE DEF f, of, positions
    <3> QED
      BY <3>3, <3>4, ValuesAreFinite
  <2>3. IsFiniteSet(parts)
    <3>1. IsFiniteSet(1..rounds)
      BY <2>1, FS_Interval
    <3> DEFINE f == [round \in 1..rounds |-> of(round)]
    <3> HIDE DEF of
    <3>2. parts = {f[round] : round \in 1..rounds}
      OBVIOUS
    <3> HIDE DEF f, parts
    <3> QED
      BY <3>1, <3>2, ValuesAreFinite
  <2>4. IsFiniteSet(UNION parts)
    BY <2>2, <2>3, FS_UNION
  <2>5. DOMAIN Elimination(n, phase, group) = UNION parts
    BY DEF Elimination
  <2> QED
    BY <2>4, <2>5
<1>2. IsFiniteSet(RepechageMatches) /\ IsFiniteSet(SlamOthers)
  <2>1. IsFiniteSet({}) /\ \A S, x : IsFiniteSet(S) => IsFiniteSet(S \cup {x})
    BY FS_EmptySet, FS_AddElement
  <2> DEFINE r == {} \cup {Repechage("TOP")} \cup {Bronze("TOP")} \cup {Repechage("BOTTOM")} \cup {Bronze("BOTTOM")}
  <2>2. IsFiniteSet(r)
    BY <2>1
  <2>3. RepechageMatches = r
    BY DEF RepechageMatches, Halves
  <2>4. SlamOthers = RepechageMatches \cup {Semifinal(1)} \cup {Semifinal(2)} \cup {Final}
    BY DEF SlamOthers
  <2> HIDE DEF r
  <2>5. IsFiniteSet(RepechageMatches)
    BY <2>2, <2>3
  <2> QED
    BY <2>1, <2>4, <2>5
<1>3. CASE IsElimination(c)
  <2>1. c.drawn \in Nat /\ c.drawn > 1
    BY <1>3, CategoryTypes DEF IsElimination
  <2>2. DrawOf(c).matches \subseteq MainOf(c) \cup RepechageMatches
    BY <1>3, EliminationMain, CategoryTypes DEF IsElimination
  <2>3. IsFiniteSet(MainOf(c))
    BY <1>1, <2>1 DEF MainOf
  <2> QED
    BY <1>2, <2>2, <2>3, FS_Union, FS_Subset
<1>4. CASE IsSlam(c)
  <2> DEFINE pools == {DOMAIN PoolDraw(c, group) : group \in SlamPools}
  <2>1. \A group \in SlamPools : IsFiniteSet(DOMAIN PoolDraw(c, group))
    <3> TAKE group \in SlamPools
    <3>1. PoolSize(c.drawn, group) \in Nat /\ PoolSize(c.drawn, group) > 1
      BY <1>4, PoolBracket
    <3> QED
      BY <1>1, <3>1 DEF PoolDraw
  <2>2. IsFiniteSet(pools)
    <3>1. IsFiniteSet(SlamPools)
      <4>1. SlamPools = {"A", "B"} \cup {"C", "D"}
        BY DEF SlamPools
      <4>2. IsFiniteSet({"A", "B"}) /\ IsFiniteSet({"C", "D"})
        BY TwoElements
      <4> QED
        BY <4>1, <4>2, FS_Union
    <3> DEFINE f == [group \in SlamPools |-> DOMAIN PoolDraw(c, group)]
    <3>2. pools = {f[group] : group \in SlamPools}
      OBVIOUS
    <3> HIDE DEF f, pools
    <3> QED
      BY <3>1, <3>2, ValuesAreFinite
  <2>3. IsFiniteSet(UNION pools)
    BY <2>1, <2>2, FS_UNION
  <2>4. DrawOf(c).matches = (UNION pools) \cup SlamOthers
    BY <1>4, SlamMatches
  <2> QED
    BY <1>2, <2>3, <2>4, FS_Union
<1> QED
  BY <1>3, <1>4

(* Only the last match and the consolation lead nowhere.                   *)
LEMMA LeadsNowhere ==
  ASSUME NEW c, IsCategory(c), IsElimination(c) \/ IsSlam(c),
         NEW m \in DrawOf(c).matches, DrawOf(c).winnerTo[m] = None
  PROVE  m = LastMatch(c) \/ m \in Consolation(DrawOf(c))
<1> DEFINE d == DrawOf(c)
<1>1. None \notin d.matches
  BY CategoryTypes
<1>2. ASSUME IsElimination(c), m \in MainOf(c) PROVE m = LastMatch(c)
  <2> DEFINE total == TotalRoundsFor(c.drawn)
  <2>1. /\ m.round \in 1..total /\ m.position \in 1..2^(total - m.round)
        /\ m = MatchId("MAIN", NoGroup, m.round, m.position)
        /\ m.round < total => d.winnerTo[m] \in MainOf(c)
    BY <1>2, MainMatches
  <2>2. ~(m.round < total)
    <3>1. MainOf(c) \subseteq d.matches
      BY <1>2, MainMatches
    <3> QED
      BY <1>1, <2>1, <3>1
  <2>3. total \in Nat
    BY CategoryTypes, RoundsOfBracket
  <2>4. m.round = total /\ total - m.round = 0
    BY <2>1, <2>2, <2>3
  <2>5. m.position = 1
    <3>1. m.position \in 1..1
      BY <2>1, <2>4, SmallPowers
    <3> QED
      BY <3>1
  <2> QED
    BY <1>2, <2>1, <2>4, <2>5 DEF LastMatch, FinalFor, IsElimination
<1>3. ASSUME IsElimination(c), m \notin MainOf(c) PROVE m \in Consolation(d)
  <2>1. m \in RepechageMatches
    BY <1>3, EliminationMain, CategoryTypes DEF IsElimination
  <2>2. m.phase \in {"REPECHAGE", "KNOCKOUT_BRONZE"}
    BY <2>1 DEF RepechageMatches, Repechage, Bronze, Placeholder, MatchId
  <2> QED
    BY <2>2 DEF Consolation
<1>4. ASSUME IsSlam(c) PROVE m = LastMatch(c) \/ m \in Consolation(d)
  <2>1. /\ d.matches = (UNION {DOMAIN PoolDraw(c, group) : group \in SlamPools}) \cup SlamOthers
    BY <1>4, SlamMatches
  <2>2. \A p \in {1, 2} : Semifinal(p) \in d.matches
    BY <2>1 DEF SlamOthers
  <2>3. ASSUME NEW group \in SlamPools, m \in DOMAIN PoolDraw(c, group) PROVE FALSE
    <3>1. CASE m.round < RoundsOfPool(c, group)
      <4>1. d.winnerTo[m] = MatchId("POOL", group, m.round + 1, (m.position + 1) \div 2)
        BY <1>4, <2>3, <3>1, SlamRoutes
      <4>2. d.winnerTo[m] \in DOMAIN PoolDraw(c, group)
        BY <1>4, <2>3, <3>1, <4>1, PoolBracket DEF Route
      <4> QED
        BY <1>1, <2>1, <4>2
    <3>2. CASE ~(m.round < RoundsOfPool(c, group))
      <4>1. d.winnerTo[m] = Semifinal(IF TopPool(group) THEN 1 ELSE 2)
        BY <1>4, <2>3, <3>2, SlamRoutes
      <4> QED
        BY <1>1, <2>2, <4>1
    <3> QED
      BY <3>1, <3>2
  <2>4. m \in SlamOthers
    BY <2>1, <2>3
  <2>5. CASE m \in {Semifinal(1), Semifinal(2)}
    <3>1. d.winnerTo[m] = Final /\ Final \in d.matches
      BY <1>4, <2>1, <2>5, SlamRoutes DEF SlamOthers
    <3> QED
      BY <1>1, <3>1
  <2>6. CASE m \in RepechageMatches
    BY <2>1, <2>4, <2>6, SlamIds DEF Consolation, RepechageMatches
  <2> QED
    BY <1>4, <2>4, <2>5, <2>6 DEF SlamOthers, LastMatch, IsSlam
<1> QED
  BY <1>2, <1>3, <1>4

LEMMA ProfilesFit ==
  ASSUME PagesIInv, WholeDraws
  PROVE  ProfilesFitPlaces
<1> DEFINE d == TheDraw
           C == 0..(category.drawn - 1)
           of == [c \in C |-> Profile(c)]
           fought == FoughtIn(d, row)
           loser(m) == Loser(row[m], row[m].winner)
           lost == [c \in DOMAIN of |-> of[c].lost]
           ippons == [c \in DOMAIN of |-> of[c].ippons]
<1>1. /\ category \in Categories /\ d = DrawOf(category) /\ d = Drawn[category] /\ IsCategory(category)
      /\ IsElimination(category) \/ IsSlam(category)
      /\ DOMAIN row = d.matches
  BY CategoriesAre, WonAndLost DEF TheDraw, WholeDraws, IsElimination, IsSlam
<1>2. \A m \in fought : row[m].winner \in C /\ loser(m) \in C
  BY WonAndLost
<1>3. \A c \in C : /\ of[c].lost = Cardinality(DefeatsIn(d, row, c))
                   /\ of[c].lost = Cardinality({m \in fought : loser(m) = c})
                   /\ of[c].ippons = Cardinality({m \in fought : row[m].winner = c})
  BY ProfileCounts
<1>4. DOMAIN of = C /\ IsFiniteSet(C)
  <2>1. category.drawn \in Nat
    BY <1>1, CategoryTypes
  <2> QED
    BY <2>1, FS_Interval
<1> HIDE DEF d, C, of, fought, loser
<1>5. ASSUME NEW p \in Places
      PROVE  of[p.competitor].lost = IF p.rank = 1 THEN 0 ELSE IF p.rank <= 3 THEN 1 ELSE 2
  <2> DEFINE x == p.competitor
  <2>1. PICK m \in d.matches : p \in PlacedIn(category, row, m)
    BY PlacesAreEnds DEF PagesIInv, d
  <2>2. x \in Ended(d, row, m) /\ p.rank = RankIn(category, row, m, x)
    BY <1>1, <2>1 DEF PlacedIn, Place
  <2>3. m \in fought /\ (x = row[m].winner \/ x \in Beaten(row, m))
    BY <2>1, <2>2 DEF Ended, FoughtIn, fought
  <2>4. x \in C
    <3>1. Beaten(row, m) = {loser(m)}
      BY <2>3, WonAndLost DEF fought, loser, d
    <3> QED
      BY <1>2, <2>3, <3>1
  <2>5. of[x].lost = (IF m \in Consolation(d) THEN 1 ELSE 0) + (IF x = row[m].winner THEN 0 ELSE 1)
    BY <1>3, <2>2, <2>4 DEF PagesIInv, EndsFit, d
  <2>6. m \in Consolation(d) <=> m.phase \in {"REPECHAGE", "KNOCKOUT_BRONZE"}
    BY DEF Consolation
  <2>7. LastMatch(category).phase \notin {"REPECHAGE", "KNOCKOUT_BRONZE"}
    BY DEF LastMatch, Final, FinalFor, MatchId
  <2> HIDE DEF x
  <2>8. CASE x = row[m].winner
    <3>1. d.winnerTo[m] = None
      BY <2>2, <2>8 DEF Ended
    <3>2. m = LastMatch(category) \/ m \in Consolation(d)
      BY <1>1, <3>1, LeadsNowhere
    <3>3. p.rank = IF m = LastMatch(category) THEN 1 ELSE 3
      BY <2>2, <2>8 DEF RankIn, WinnerRank
    <3> QED
      BY <2>5, <2>6, <2>7, <2>8, <3>2, <3>3 DEF x
  <2>9. CASE x # row[m].winner
    <3>1. p.rank = IF m = LastMatch(category) THEN 2
                   ELSE IF m.phase = "REPECHAGE" THEN 7 ELSE IF m.phase = "KNOCKOUT_BRONZE" THEN 5 ELSE 3
      BY <2>2, <2>9 DEF RankIn, LoserRank
    <3> QED
      BY <2>5, <2>6, <2>7, <2>9, <3>1 DEF x
  <2> QED
    BY <2>8, <2>9
<1>6. IsFiniteSet(fought)
  <2>1. IsFiniteSet(d.matches)
    BY <1>1, MatchesAreFinite
  <2>2. fought \subseteq d.matches
    BY DEF fought, FoughtIn
  <2> QED
    BY <2>1, <2>2, FS_Subset
<1>7. SumOf(ippons, C) = Cardinality(fought)
  <2> DEFINE f == [m \in fought |-> row[m].winner]
  <2>1. \A m \in fought : f[m] \in C
    BY <1>2
  <2>2. \A c \in C : ippons[c] = Cardinality(OfValue(fought, f, c))
    <3> TAKE c \in C
    <3>1. OfValue(fought, f, c) = {m \in fought : row[m].winner = c}
      BY DEF OfValue
    <3>2. ippons[c] = of[c].ippons
      BY <1>4
    <3> HIDE DEF f, ippons
    <3> QED
      BY <1>3, <3>1, <3>2
  <2> HIDE DEF f, ippons
  <2> QED
    BY <1>4, <1>6, <2>1, <2>2, CountedByValue
<1>8. SumOf(lost, C) = Cardinality(fought)
  <2> DEFINE f == [m \in fought |-> loser(m)]
  <2>1. \A m \in fought : f[m] \in C
    BY <1>2
  <2>2. \A c \in C : lost[c] = Cardinality(OfValue(fought, f, c))
    <3> TAKE c \in C
    <3>1. OfValue(fought, f, c) = {m \in fought : loser(m) = c}
      BY DEF OfValue
    <3>2. lost[c] = of[c].lost
      BY <1>4
    <3> HIDE DEF f, lost
    <3> QED
      BY <1>3, <3>1, <3>2
  <2> HIDE DEF f, lost
  <2> QED
    BY <1>4, <1>6, <2>1, <2>2, CountedByValue
<1>9. Sums!SumFunction(ippons) = Sums!SumFunction(lost)
  <2>1. DOMAIN ippons = C /\ DOMAIN lost = C
    BY <1>4
  <2> HIDE DEF ippons, lost
  <2> QED
    BY <1>7, <1>8, <2>1, SumFunctionIs
<1> QED
  BY <1>5, <1>9 DEF ProfilesFitPlaces, of, C

-----------------------------------------------------------------------------
(* What pages and profiles compute agrees with standings and routes, for   *)
(* every category of any size: the draw of a double repechage has the      *)
(* quarter-finals its repechage is fed from when eight are drawn.          *)
THEOREM PagesAlwaysAgree ==
  ASSUME WholeDraws,
         \A c \in Categories : c.bracketType = "DOUBLE_REPECHAGE" => c.drawn >= 8
  PROVE  Spec => []PagesAgree
<1>1. Init => PagesIInv
  BY DrawsAreFull, PagesInit
<1>2. PagesIInv /\ [Next]_vars => PagesIInv'
  BY DrawsAreFull, PagesNext
<1>3. PagesIInv => PagesAgree
  <2> SUFFICES ASSUME PagesIInv PROVE PagesAgree
    OBVIOUS
  <2>1. /\ category \in Categories /\ TheDraw = DrawOf(category) /\ IsCategory(category)
        /\ None \notin 0..(category.drawn - 1)
    BY CategoriesAre, WonAndLost DEF TheDraw
  <2>2. Flows(TheDraw, LevelsOf(category))
    <3>1. CASE category.bracketType = "GRAND_SLAM"
      <4>1. IsSlam(category)
        BY <2>1, <3>1 DEF WholeDraws, IsSlam
      <4> QED
        BY <2>1, <4>1, SlamFlows
    <3>2. CASE category.bracketType # "GRAND_SLAM"
      <4>1. IsElimination(category)
        BY <2>1, <3>2 DEF WholeDraws, IsElimination
      <4> QED
        BY <2>1, <4>1, EliminationFlows
    <3> QED
      BY <3>1, <3>2
  <2>3. NobodyIsLeftWaiting
    BY <2>2, DrawsAreFull, EveryCardIsNamed
  <2> QED
    BY <2>3, SlamPageAgrees, ProfilesFit DEF PagesAgree
<1> QED
  BY <1>1, <1>2, <1>3, PTL DEF Spec

-----------------------------------------------------------------------------
(* Drawing: what was generated is the draw of a size that is accepted.     *)
DrawingIInv ==
  /\ bracketType \in {"ROUND_ROBIN", "POOLS", "SINGLE_REPECHAGE", "DOUBLE_REPECHAGE", "GRAND_SLAM"}
  /\ count \in Nat /\ Accepts(bracketType, count)
  /\ matches = Draw(bracketType, count)

(* What is drawn in a group is a round robin of those who are entered.     *)
IsRoundRobinOf(group) ==
  /\ \A m \in Of(group) : \E a, b \in Entered(group) : a # b /\ Opponents(m) = {a, b}
  /\ \A a, b \in Entered(group) : a # b => \E m \in Of(group) : Opponents(m) = {a, b}
  /\ \A m, l \in Of(group) : Opponents(m) = Opponents(l) => m = l

(* Two of its competitors have one match, and others none.                 *)
LEMMA MeetingsCounted ==
  ASSUME NEW group, IsRoundRobinOf(group), NEW c, NEW d, c # d
  PROVE  Cardinality({m \in Of(group) : Opponents(m) = {c, d}}) =
           IF {c, d} \subseteq Entered(group) THEN 1 ELSE 0
<1> DEFINE meetings == {m \in Of(group) : Opponents(m) = {c, d}}
<1>1. CASE {c, d} \subseteq Entered(group)
  <2>1. PICK m \in Of(group) : Opponents(m) = {c, d}
    BY <1>1 DEF IsRoundRobinOf
  <2>2. meetings = {m}
    BY <2>1 DEF IsRoundRobinOf
  <2> QED
    BY <1>1, <2>2, FS_Singleton
<1>2. CASE ~({c, d} \subseteq Entered(group))
  <2>1. ASSUME NEW m \in Of(group), Opponents(m) = {c, d} PROVE FALSE
    <3>1. PICK a \in Entered(group), b \in Entered(group) : {a, b} = {c, d}
      BY <2>1 DEF IsRoundRobinOf
    <3> QED
      BY <1>2, <3>1
  <2>2. meetings = {}
    BY <2>1
  <2> QED
    BY <1>2, <2>2, FS_EmptySet
<1> QED
  BY <1>1, <1>2

(* Where nobody is missing, the opponents are those drawn.                 *)
LEMMA OpponentsAreDrawn ==
  ASSUME \A m \in DOMAIN matches, s \in {1, 2} : matches[m][s] # Nobody
  PROVE  /\ \A m \in DOMAIN matches : Opponents(m) = {matches[m][1], matches[m][2]}
         /\ \A group : Of(group) = DrawnIn(matches, group) /\ Entered(group) = EnteredIn(matches, group)
<1>1. \A m \in DOMAIN matches : Opponents(m) = {matches[m][1], matches[m][2]}
  BY DEF Opponents
<1>2. ASSUME NEW group PROVE Of(group) = DrawnIn(matches, group)
  BY DEF Of, DrawnIn
<1>3. ASSUME NEW group PROVE Entered(group) = EnteredIn(matches, group)
  <2>1. \A m \in Of(group) : m \in DOMAIN matches
    BY DEF Of
  <2>2. Entered(group) = UNION {{matches[m][1], matches[m][2]} : m \in Of(group)}
    BY <1>1, <2>1 DEF Entered
  <2>3. EnteredIn(matches, group) = {matches[m][side] : m \in Of(group), side \in {1, 2}}
    BY <1>2 DEF EnteredIn
  <2> QED
    BY <2>2, <2>3
<1> QED
  BY <1>1, <1>2, <1>3

(* A round robin has one group, of everybody.                              *)
LEMMA OneGroup ==
  ASSUME DrawingIInv, bracketType = "ROUND_ROBIN"
  PROVE  /\ Groups = {NoGroup} /\ Entered(NoGroup) = 0..(count - 1) /\ IsRoundRobinOf(NoGroup)
         /\ \A m \in DOMAIN matches : Opponents(m) = {matches[m][1], matches[m][2]}
<1> DEFINE players == 0..(count - 1)
<1>1. count \in Nat /\ count >= 2 /\ matches = RoundRobin(count, "MAIN", NoGroup)
  BY DEF DrawingIInv, Accepts, Draw
<1>2. /\ \A m \in DOMAIN matches :
           matches[m][1] \in players /\ matches[m][2] \in players /\ matches[m][1] # matches[m][2]
      /\ \A a, b \in players : a # b => \E m \in DOMAIN matches : {matches[m][1], matches[m][2]} = {a, b}
      /\ \A m, l \in DOMAIN matches :
           {matches[m][1], matches[m][2]} = {matches[l][1], matches[l][2]} => m = l
  <2>1. EachPairOnce(count, "MAIN", NoGroup)
    BY <1>1, RoundRobinIsComplete
  <2> QED
    BY <1>1, <2>1 DEF EachPairOnce
<1>3. \A m \in DOMAIN matches : m.group = NoGroup
  BY <1>1, RoundRobinMatches
<1>4. /\ \A m \in DOMAIN matches : Opponents(m) = {matches[m][1], matches[m][2]}
      /\ Of(NoGroup) = DrawnIn(matches, NoGroup) /\ Entered(NoGroup) = EnteredIn(matches, NoGroup)
  <2>1. \A m \in DOMAIN matches, s \in {1, 2} : matches[m][s] # Nobody
    BY <1>1, <1>2 DEF Nobody
  <2> QED
    BY <2>1, OpponentsAreDrawn
<1>5. Of(NoGroup) = DOMAIN matches
  BY <1>3 DEF Of
<1>6. \A a \in players : \E b \in players : b # a
  <2>1. 0 \in players /\ 1 \in players
    BY <1>1
  <2> HIDE DEF players
  <2> QED
    BY <2>1
<1>7. Entered(NoGroup) = players
  <2>1. Entered(NoGroup) = {matches[m][side] : m \in DOMAIN matches, side \in {1, 2}}
    BY <1>4, <1>5 DEF EnteredIn
  <2>2. ASSUME NEW a \in players PROVE \E m \in DOMAIN matches, side \in {1, 2} : matches[m][side] = a
    <3>1. PICK b \in players : b # a
      BY <1>6
    <3>2. PICK m \in DOMAIN matches : {matches[m][1], matches[m][2]} = {a, b}
      BY <1>2, <3>1
    <3> QED
      BY <3>2
  <2> HIDE DEF players
  <2> QED
    BY <1>2, <2>1, <2>2
<1>8. Groups = {NoGroup}
  <2>1. PICK m : m \in DOMAIN matches
    <3>1. 0 \in players
      BY <1>1
    <3> QED
      BY <1>2, <1>6, <3>1
  <2> QED
    BY <1>3, <2>1 DEF Groups
<1> HIDE DEF players
<1>9. IsRoundRobinOf(NoGroup)
  <2>1. \A m \in Of(NoGroup) : \E a, b \in Entered(NoGroup) : a # b /\ Opponents(m) = {a, b}
    BY <1>2, <1>4, <1>5, <1>7
  <2>2. \A a, b \in Entered(NoGroup) : a # b => \E m \in Of(NoGroup) : Opponents(m) = {a, b}
    <3> SUFFICES ASSUME NEW a \in Entered(NoGroup), NEW b \in Entered(NoGroup), a # b
                 PROVE  \E m \in Of(NoGroup) : Opponents(m) = {a, b}
      OBVIOUS
    <3>1. PICK m \in DOMAIN matches : {matches[m][1], matches[m][2]} = {a, b}
      BY <1>2, <1>7
    <3> QED
      BY <1>4, <1>5, <3>1
  <2>3. \A m, l \in Of(NoGroup) : Opponents(m) = Opponents(l) => m = l
    <3> SUFFICES ASSUME NEW m \in Of(NoGroup), NEW l \in Of(NoGroup), Opponents(m) = Opponents(l)
                 PROVE  m = l
      OBVIOUS
    <3>1. {matches[m][1], matches[m][2]} = {matches[l][1], matches[l][2]}
      BY <1>4, <1>5
    <3> QED
      BY <1>2, <1>5, <3>1
  <2> QED
    BY <2>1, <2>2, <2>3 DEF IsRoundRobinOf
<1> QED
  BY <1>4, <1>7, <1>8, <1>9 DEF players

(* The pools are two groups, and everybody is entered in one of them.      *)
LEMMA TwoGroups ==
  ASSUME DrawingIInv, bracketType = "POOLS"
  PROVE  /\ Groups = PoolGroups
         /\ \A group \in PoolGroups :
              /\ Of(group) = DrawnIn(matches, group) /\ Entered(group) = EnteredIn(matches, group)
              /\ IsRoundRobinOf(group)
         /\ \A c \in 0..(count - 1) :
              \E group \in PoolGroups : \A other \in PoolGroups : c \in Entered(other) <=> other = group
         /\ \A m \in DOMAIN matches : Opponents(m) = {matches[m][1], matches[m][2]}
<1>1. count \in 5..15 /\ matches = Pools(count)
  BY DEF DrawingIInv, Accepts, Draw, IsPoolsBracketSize
<1>2. /\ \A m \in DOMAIN matches :
           /\ m.group \in PoolGroups
           /\ IsPairOf(matches[m], EnteredIn(matches, m.group)) /\ IsPairOf(matches[m], 0..(count - 1))
      /\ \A group \in PoolGroups : DrawnIn(matches, group) # {}
      /\ EnteredIn(matches, "A") \cap EnteredIn(matches, "B") = {}
  BY <1>1, PoolsAreDrawnInTwo
<1>3. \A m \in DOMAIN matches, s \in {1, 2} : matches[m][s] # Nobody
  BY <1>1, <1>2 DEF IsPairOf, Nobody
<1>4. /\ \A m \in DOMAIN matches : Opponents(m) = {matches[m][1], matches[m][2]}
      /\ \A group : Of(group) = DrawnIn(matches, group) /\ Entered(group) = EnteredIn(matches, group)
  BY <1>3, OpponentsAreDrawn
<1>5. Groups = PoolGroups
  BY <1>2 DEF Groups, DrawnIn
<1>6. ASSUME NEW group \in PoolGroups
      PROVE  IsRoundRobinOf(group)
  <2> DEFINE draw == Pools(count)
             drawn == DrawnIn(draw, group)
             entered == EnteredIn(draw, group)
  <2>1. /\ \A a, b \in entered : a # b => \E m \in drawn : {draw[m][1], draw[m][2]} = {a, b}
        /\ \A m, l \in drawn : {draw[m][1], draw[m][2]} = {draw[l][1], draw[l][2]} => m = l
    BY <1>1, PoolsAreComplete
  <2>2. \A m \in drawn : m \in DOMAIN matches /\ m.group = group
    BY <1>1 DEF DrawnIn
  <2>3. ASSUME NEW m \in drawn
        PROVE  \E a, b \in entered : a # b /\ {matches[m][1], matches[m][2]} = {a, b}
    <3>1. PICK a \in entered, b \in entered : a # b /\ matches[m] = <<a, b>>
      BY <1>1, <1>2, <2>2 DEF IsPairOf
    <3>2. matches[m][1] = a /\ matches[m][2] = b
      BY <3>1
    <3> QED
      BY <3>1, <3>2
  <2>4. Of(group) = drawn /\ Entered(group) = entered /\ draw = matches
    BY <1>1, <1>4
  <2> HIDE DEF draw, drawn, entered
  <2>5. \A m \in drawn : Opponents(m) = {matches[m][1], matches[m][2]}
    BY <1>4, <2>2
  <2>6. \A m \in drawn : \E a, b \in entered : a # b /\ Opponents(m) = {a, b}
    BY <2>3, <2>5
  <2>7. \A a, b \in entered : a # b => \E m \in drawn : Opponents(m) = {a, b}
    BY <2>1, <2>4, <2>5
  <2>8. \A m, l \in drawn : Opponents(m) = Opponents(l) => m = l
    <3> SUFFICES ASSUME NEW m \in drawn, NEW l \in drawn, Opponents(m) = Opponents(l)
                 PROVE  m = l
      OBVIOUS
    <3>1. {draw[m][1], draw[m][2]} = {draw[l][1], draw[l][2]}
      BY <2>4, <2>5
    <3> QED
      BY <2>1, <3>1
  <2>9. /\ \A m \in Of(group) : \E a, b \in Entered(group) : a # b /\ Opponents(m) = {a, b}
        /\ \A a, b \in Entered(group) : a # b => \E m \in Of(group) : Opponents(m) = {a, b}
        /\ \A m, l \in Of(group) : Opponents(m) = Opponents(l) => m = l
    <3>1. \A m \in Of(group) : \E a, b \in Entered(group) : a # b /\ Opponents(m) = {a, b}
      BY <2>4, <2>6
    <3>2. \A a, b \in Entered(group) : a # b => \E m \in Of(group) : Opponents(m) = {a, b}
      BY <2>4, <2>7
    <3>3. \A m, l \in Of(group) : Opponents(m) = Opponents(l) => m = l
      BY <2>4, <2>8
    <3> QED
      BY <3>1, <3>2, <3>3
  <2> QED
    BY <2>9 DEF IsRoundRobinOf
<1>7. ASSUME NEW c \in 0..(count - 1)
      PROVE  \E group \in PoolGroups : \A other \in PoolGroups : c \in Entered(other) <=> other = group
  <2>1. PICK group \in PoolGroups :
          \E i \in 1..Len(SplitIntoPools(count)[group]) : SplitIntoPools(count)[group][i] = c
    BY <1>1, PoolsSeatAll
  <2>2. c \in EnteredIn(matches, group)
    <3>1. \A i \in 1..Len(SplitIntoPools(count)[group]) :
            SplitIntoPools(count)[group][i] \in EnteredIn(Pools(count), group)
      BY <1>1, PoolsAreComplete
    <3> QED
      BY <1>1, <2>1, <3>1
  <2> QED
    BY <1>2, <1>4, <2>2 DEF PoolGroups
<1> QED
  BY <1>4, <1>5, <1>6, <1>7

(* The matches of both pools are as many as the scoreboard waits for.      *)
LEMMA PoolMatchesCounted ==
  ASSUME NEW n \in 5..15
  PROVE  Cardinality(DOMAIN Pools(n)) = ExpectedPoolMatchCount(n)
<1> DEFINE draw == Pools(n)
           size(group) == Len(SplitIntoPools(n)[group])
           all(k) == (k * (k - 1)) \div 2
           a == DrawnIn(draw, "A")
           b == DrawnIn(draw, "B")
<1>1. "A" \in PoolGroups /\ "B" \in PoolGroups
  BY DEF PoolGroups
<1>2. Cardinality(a) = all(size("A")) /\ Cardinality(b) = all(size("B"))
  BY <1>1, PoolsAreComplete
<1>3. IsFiniteSet(a) /\ IsFiniteSet(b)
  BY <1>1, EntrantsOfPools
<1>4. DOMAIN draw = a \cup b
  BY PoolsAreDrawnInTwo DEF DrawnIn, PoolGroups
<1>5. a \cap b = {}
  BY DEF DrawnIn
<1>6. ExpectedPoolMatchCount(n) = all(size("A")) + all(size("B"))
  BY DEF ExpectedPoolMatchCount
<1> HIDE DEF draw, a, b, all, size
<1>7. Cardinality(a \cup b) = Cardinality(a) + Cardinality(b) - Cardinality(a \cap b)
  BY <1>3, FS_Union
<1>8. Cardinality(a \cap b) = 0
  BY <1>5, FS_EmptySet
<1>9. Cardinality(a) \in Nat /\ Cardinality(b) \in Nat
  BY <1>3, FS_CardinalityType
<1> QED
  BY <1>2, <1>4, <1>6, <1>7, <1>8, <1>9 DEF draw

LEMMA PairsMeet == DrawingIInv => EveryPairMeetsOnce
<1> SUFFICES ASSUME DrawingIInv, IsRoundRobin
             PROVE  /\ \A group \in Groups, c, d \in 0..(count - 1) :
                         c < d =>
                           Cardinality({m \in Of(group) : Opponents(m) = {c, d}}) =
                             IF {c, d} \subseteq Entered(group) THEN 1 ELSE 0
                    /\ \A c \in 0..(count - 1) :
                         Cardinality({group \in Groups : c \in Entered(group)}) = 1
                    /\ bracketType = "POOLS" => Cardinality(DOMAIN matches) = ExpectedPoolMatchCount(count)
  BY DEF EveryPairMeetsOnce
<1>1. bracketType = "ROUND_ROBIN" \/ bracketType = "POOLS"
  BY DEF IsRoundRobin
<1>2. /\ bracketType = "ROUND_ROBIN" => Groups = {NoGroup}
      /\ bracketType = "POOLS" => Groups = PoolGroups
      /\ \A group \in Groups : IsRoundRobinOf(group)
  BY <1>1, OneGroup, TwoGroups
<1>3. ASSUME NEW group \in Groups, NEW c \in 0..(count - 1), NEW d \in 0..(count - 1), c < d
      PROVE  Cardinality({m \in Of(group) : Opponents(m) = {c, d}}) =
               IF {c, d} \subseteq Entered(group) THEN 1 ELSE 0
  <2>1. c # d
    BY <1>3
  <2> QED
    BY <1>2, <2>1, MeetingsCounted
<1>4. ASSUME NEW c \in 0..(count - 1)
      PROVE  Cardinality({group \in Groups : c \in Entered(group)}) = 1
  <2>1. PICK group \in Groups : \A other \in Groups : c \in Entered(other) <=> other = group
    <3>1. CASE bracketType = "ROUND_ROBIN"
      BY <1>2, <3>1, OneGroup
    <3>2. CASE bracketType = "POOLS"
      BY <1>2, <3>2, TwoGroups
    <3> QED
      BY <1>1, <3>1, <3>2
  <2>2. {other \in Groups : c \in Entered(other)} = {group}
    BY <2>1
  <2> QED
    BY <2>2, FS_Singleton
<1>5. ASSUME bracketType = "POOLS"
      PROVE  Cardinality(DOMAIN matches) = ExpectedPoolMatchCount(count)
  <2>1. count \in 5..15 /\ matches = Pools(count)
    BY <1>5 DEF DrawingIInv, Accepts, Draw, IsPoolsBracketSize
  <2> QED
    BY <2>1, PoolMatchesCounted
<1> QED
  BY <1>3, <1>4, <1>5

LEMMA RoundsFit == DrawingIInv => OneMatchPerRound
<1> SUFFICES ASSUME DrawingIInv, IsRoundRobin,
                    NEW m \in DOMAIN matches, NEW l \in DOMAIN matches,
                    m.group = l.group, m.round = l.round, m # l
             PROVE  Opponents(m) \cap Opponents(l) = {}
  BY DEF OneMatchPerRound
<1>1. bracketType = "ROUND_ROBIN" \/ bracketType = "POOLS"
  BY DEF IsRoundRobin
<1>2. Opponents(m) = {matches[m][1], matches[m][2]} /\ Opponents(l) = {matches[l][1], matches[l][2]}
  BY <1>1, OneGroup, TwoGroups
<1>3. \A s, t \in {1, 2} : matches[m][s] # matches[l][t]
  <2>1. CASE bracketType = "ROUND_ROBIN"
    <3>1. count \in Nat /\ matches = RoundRobin(count, "MAIN", NoGroup)
      BY <2>1 DEF DrawingIInv, Draw
    <3> QED
      BY <3>1, OnceARound
  <2>2. CASE bracketType = "POOLS"
    <3>1. count \in 5..15 /\ matches = Pools(count)
      BY <2>2 DEF DrawingIInv, Accepts, Draw, IsPoolsBracketSize
    <3>2. m.group \in PoolGroups
      BY <3>1, PoolsAreDrawnInTwo
    <3>3. m \in DrawnIn(Pools(count), m.group) /\ l \in DrawnIn(Pools(count), m.group)
      BY <3>1 DEF DrawnIn
    <3>4. \A x, y \in DrawnIn(Pools(count), m.group), s, t \in {1, 2} :
            x.round = y.round /\ x # y => Pools(count)[x][s] # Pools(count)[y][t]
      BY <3>1, <3>2, PoolsAreComplete
    <3> QED
      BY <3>1, <3>3, <3>4
  <2> QED
    BY <1>1, <2>1, <2>2
<1> QED
  BY <1>2, <1>3

(* Everybody has one first match in a bracket.  Who is alone in it waits in*)
(* the second round, and nobody else is drawn beyond the first.            *)
FirstMatchesFit(n, phase, group) ==
  LET draw == Elimination(n, phase, group)
      first == {m \in DOMAIN draw : m.round = 1}
  IN  /\ \A c \in 0..(n - 1) : \E m \in first, s \in {1, 2} : draw[m][s] = c
      /\ \A m, l \in first, s, t \in {1, 2} :
           draw[m][s] # Nobody /\ draw[m][s] = draw[l][t] => m = l /\ s = t
      /\ \A m \in first :
           draw[m][1] \in 0..(n - 1) /\ (draw[m][2] # Nobody => draw[m][2] \in 0..(n - 1))
      /\ \A m \in DOMAIN draw \ first, s \in {1, 2} :
           LET feeder == MatchId(phase, group, 1, 2 * m.position - 2 + s)
           IN  /\ m.phase = phase /\ m.group = group /\ m.round \in Nat /\ m.round > 1
               /\ m.round > 2 => draw[m][s] = Nobody
               /\ m.round = 2 =>
                    /\ feeder \in first
                    /\ draw[m][s] = IF draw[feeder][2] = Nobody THEN draw[feeder][1] ELSE Nobody

LEMMA FirstMatches ==
  ASSUME NEW n \in Nat, n > 1, NEW phase, NEW group
  PROVE  FirstMatchesFit(n, phase, group)
<1> DEFINE draw == Elimination(n, phase, group)
           first == {m \in DOMAIN draw : m.round = 1}
           rounds == TotalRoundsFor(n)
           places == 1..2^(rounds - 1)
           match(p) == MatchId(phase, group, 1, p)
<1>1. rounds \in Nat /\ rounds >= 1
  BY RoundsOfBracket
<1>2. /\ \A m : m \in DOMAIN draw <=>
           \E round \in 1..rounds : \E position \in 1..2^(rounds - round) :
             m = MatchId(phase, group, round, position)
      /\ \A m \in DOMAIN draw :
           /\ m.round = 1 => m.position \in places /\ draw[m] = FirstRound(n, m.position)
           /\ m.round = 2 => \A s \in {1, 2} :
                /\ 2 * m.position - 2 + s \in places
                /\ draw[m][s] = Advanced(FirstRound(n, 2 * m.position - 2 + s))
           /\ m.round > 2 => draw[m] = Open
  BY EliminationSlots
<1>3. \A m \in DOMAIN draw :
        /\ m.phase = phase /\ m.group = group /\ m.round \in 1..rounds
        /\ m = MatchId(phase, group, m.round, m.position)
  <2> SUFFICES ASSUME NEW m \in DOMAIN draw
               PROVE  /\ m.phase = phase /\ m.group = group /\ m.round \in 1..rounds
                      /\ m = MatchId(phase, group, m.round, m.position)
    OBVIOUS
  <2> HIDE DEF draw, rounds, places
  <2>1. PICK round \in 1..rounds : \E position \in 1..2^(rounds - round) : m = MatchId(phase, group, round, position)
    BY <1>2
  <2>2. PICK position \in 1..2^(rounds - round) : m = MatchId(phase, group, round, position)
    BY <2>1
  <2>3. m.phase = phase /\ m.group = group /\ m.round = round /\ m.position = position
    BY <2>2 DEF MatchId
  <2> QED
    BY <2>2, <2>3
<1>4. \A p \in places : match(p) \in first /\ match(p).position = p
  BY <1>1, <1>2 DEF MatchId
<1>5. /\ \A p, q \in places, s, t \in {1, 2} :
           FirstRound(n, p)[s] # Nobody /\ FirstRound(n, p)[s] = FirstRound(n, q)[t] => p = q /\ s = t
      /\ \A c \in 0..(n - 1) : \E p \in places, s \in {1, 2} : FirstRound(n, p)[s] = c
  BY FirstRoundOnce
<1>6. \A p \in places :
        /\ FirstRound(n, p)[1] \in 0..(n - 1)
        /\ FirstRound(n, p)[2] # Nobody => FirstRound(n, p)[2] \in 0..(n - 1)
  BY FirstRoundSlots
<1> HIDE DEF draw, places, rounds
<1>7. \A m \in first : m.position \in places /\ draw[m] = FirstRound(n, m.position) /\ m = match(m.position)
  BY <1>2, <1>3
<1>8. \A p \in places : draw[match(p)] = FirstRound(n, p)
  BY <1>4, <1>7
<1> HIDE DEF match
<1>9. \A c \in 0..(n - 1) : \E m \in first, s \in {1, 2} : draw[m][s] = c
  <2> SUFFICES ASSUME NEW c \in 0..(n - 1) PROVE \E m \in first, s \in {1, 2} : draw[m][s] = c
    OBVIOUS
  <2>1. PICK p \in places, s \in {1, 2} : FirstRound(n, p)[s] = c
    BY <1>5
  <2> HIDE DEF first
  <2> QED
    BY <1>4, <1>8, <2>1
<1>10. ASSUME NEW m \in first, NEW l \in first, NEW s \in {1, 2}, NEW t \in {1, 2},
              draw[m][s] # Nobody, draw[m][s] = draw[l][t]
       PROVE  m = l /\ s = t
  <2>1. /\ m.position \in places /\ draw[m] = FirstRound(n, m.position) /\ m = match(m.position)
        /\ l.position \in places /\ draw[l] = FirstRound(n, l.position) /\ l = match(l.position)
    BY <1>7
  <2> HIDE DEF first
  <2>2. FirstRound(n, m.position)[s] # Nobody /\ FirstRound(n, m.position)[s] = FirstRound(n, l.position)[t]
    BY <1>10, <2>1
  <2>3. m.position = l.position /\ s = t
    BY <1>5, <2>1, <2>2
  <2> QED
    BY <2>1, <2>3
<1>11. \A m \in first :
         draw[m][1] \in 0..(n - 1) /\ (draw[m][2] # Nobody => draw[m][2] \in 0..(n - 1))
  BY <1>6, <1>7
<1>12. ASSUME NEW m \in DOMAIN draw \ first, NEW s \in {1, 2}
       PROVE  LET feeder == MatchId(phase, group, 1, 2 * m.position - 2 + s)
              IN  /\ m.phase = phase /\ m.group = group /\ m.round \in Nat /\ m.round > 1
                  /\ m.round > 2 => draw[m][s] = Nobody
                  /\ m.round = 2 =>
                       /\ feeder \in first
                       /\ draw[m][s] = IF draw[feeder][2] = Nobody THEN draw[feeder][1] ELSE Nobody
  <2> DEFINE p == 2 * m.position - 2 + s
  <2>1. m.phase = phase /\ m.group = group /\ m.round \in Nat /\ m.round > 1
    BY <1>1, <1>3
  <2>2. m.round > 2 => draw[m][s] = Nobody
    BY <1>2 DEF Open
  <2>3. ASSUME m.round = 2
        PROVE  /\ match(p) \in first
               /\ draw[m][s] = IF draw[match(p)][2] = Nobody THEN draw[match(p)][1] ELSE Nobody
    <3>1. p \in places /\ draw[m][s] = Advanced(FirstRound(n, p))
      BY <1>2, <2>3
    <3> HIDE DEF p
    <3>2. FirstRound(n, p)[1] # Nobody
      BY <1>6, <3>1 DEF Nobody
    <3>3. Advanced(FirstRound(n, p)) = IF FirstRound(n, p)[2] = Nobody THEN FirstRound(n, p)[1] ELSE Nobody
      BY <3>2 DEF Advanced, IsBye
    <3> QED
      BY <1>4, <1>8, <3>1, <3>3
  <2> QED
    BY <2>1, <2>2, <2>3 DEF match
<1> QED
  BY <1>9, <1>10, <1>11, <1>12 DEF FirstMatchesFit, draw, first

(* The stage is drawn as brackets of several groups, whose seats are taken *)
(* by all the competitors, the better first.                               *)
StageOf(phase, groups, size, seats) ==
  /\ \A g \in groups : size[g] \in Nat /\ size[g] > 1
  /\ \A m : m \in Stage <=> \E g \in groups : m \in DOMAIN Elimination(size[g], phase, g)
  /\ \A g \in groups : \A m \in DOMAIN Elimination(size[g], phase, g), s \in {1, 2} :
       LET place == Elimination(size[g], phase, g)[m][s]
       IN  matches[m][s] = IF place = Nobody THEN Nobody ELSE seats[g][place]
  /\ \A g \in groups : \A i \in 0..(size[g] - 1) : seats[g][i] \in 0..(count - 1)
  /\ \A g, h \in groups : \A i \in 0..(size[g] - 1), j \in 0..(size[h] - 1) :
       seats[g][i] = seats[h][j] => g = h /\ i = j
  /\ \A c \in 0..(count - 1) : \E g \in groups : \E i \in 0..(size[g] - 1) : seats[g][i] = c
  /\ \A g \in groups : \A i, j \in 0..(size[g] - 1) : i < j => seats[g][i] < seats[g][j]
  /\ \A m \in DOMAIN matches : m.group \in groups => m \in Stage

(* Then everybody has one first match.                                     *)
LEMMA StageEnters ==
  ASSUME count \in Nat, NEW phase, NEW groups, NEW size, NEW seats, StageOf(phase, groups, size, seats)
  PROVE  EveryoneEntersOnce
<1>0. /\ \A g \in groups : size[g] \in Nat /\ size[g] > 1
      /\ \A m : m \in Stage <=> \E g \in groups : m \in DOMAIN Elimination(size[g], phase, g)
      /\ \A g \in groups : \A m \in DOMAIN Elimination(size[g], phase, g), s \in {1, 2} :
           LET place == Elimination(size[g], phase, g)[m][s]
           IN  matches[m][s] = IF place = Nobody THEN Nobody ELSE seats[g][place]
      /\ \A g \in groups : \A i \in 0..(size[g] - 1) : seats[g][i] \in 0..(count - 1)
      /\ \A g, h \in groups : \A i \in 0..(size[g] - 1), j \in 0..(size[h] - 1) :
           seats[g][i] = seats[h][j] => g = h /\ i = j
      /\ \A c \in 0..(count - 1) : \E g \in groups : \E i \in 0..(size[g] - 1) : seats[g][i] = c
  BY DEF StageOf
<1> DEFINE draw(g) == Elimination(size[g], phase, g)
           first(g) == {m \in DOMAIN draw(g) : m.round = 1}
<1>1. \A m : m \in Stage <=> \E g \in groups : m \in DOMAIN draw(g)
  BY <1>0
<1>2. \A g \in groups : \A m \in DOMAIN draw(g), s \in {1, 2} :
        matches[m][s] = IF draw(g)[m][s] = Nobody THEN Nobody ELSE seats[g][draw(g)[m][s]]
  BY <1>0
<1>3. ASSUME NEW g \in groups
      PROVE  /\ \A c \in 0..(size[g] - 1) : \E m \in first(g), s \in {1, 2} : draw(g)[m][s] = c
             /\ \A m, l \in first(g), s, t \in {1, 2} :
                  draw(g)[m][s] # Nobody /\ draw(g)[m][s] = draw(g)[l][t] => m = l /\ s = t
             /\ \A m \in first(g) :
                  /\ draw(g)[m][1] \in 0..(size[g] - 1)
                  /\ draw(g)[m][2] # Nobody => draw(g)[m][2] \in 0..(size[g] - 1)
             /\ \A m \in DOMAIN draw(g) \ first(g), s \in {1, 2} :
                  LET feeder == MatchId(phase, g, 1, 2 * m.position - 2 + s)
                  IN  /\ m.phase = phase /\ m.group = g /\ m.round \in Nat /\ m.round > 1
                      /\ m.round > 2 => draw(g)[m][s] = Nobody
                      /\ m.round = 2 =>
                           /\ feeder \in first(g)
                           /\ draw(g)[m][s] = IF draw(g)[feeder][2] = Nobody THEN draw(g)[feeder][1] ELSE Nobody
  <2> DEFINE sz == size[g]
  <2>1. sz \in Nat /\ sz > 1
    BY <1>0
  <2> HIDE DEF sz
  <2>2. FirstMatchesFit(sz, phase, g)
    BY <2>1, FirstMatches
  <2> QED
    BY <2>2 DEF FirstMatchesFit, sz
<1>4. \A g \in groups : \A m \in first(g) : m \in DOMAIN draw(g) /\ m.round = 1
  OBVIOUS
<1> HIDE DEF draw
<1>5. ASSUME NEW g \in groups, NEW m \in first(g)
      PROVE  /\ matches[m][1] \in 0..(count - 1)
             /\ IF draw(g)[m][2] = Nobody THEN Opponents(m) = {matches[m][1]}
                ELSE /\ Opponents(m) = {matches[m][1], matches[m][2]} /\ matches[m][1] # matches[m][2]
                     /\ matches[m][2] \in 0..(count - 1)
  <2> HIDE DEF first
  <2>1. draw(g)[m][1] \in 0..(size[g] - 1) /\ (draw(g)[m][2] # Nobody => draw(g)[m][2] \in 0..(size[g] - 1))
    BY <1>3
  <2>2. draw(g)[m][1] # Nobody /\ (draw(g)[m][2] # Nobody => draw(g)[m][1] # draw(g)[m][2])
    <3>1. draw(g)[m][1] # Nobody
      BY <2>1 DEF Nobody
    <3> QED
      BY <1>3, <3>1
  <2>3. m \in DOMAIN draw(g)
    BY <1>4
  <2>4. matches[m][1] = seats[g][draw(g)[m][1]]
    BY <1>2, <2>2, <2>3
  <2>5. matches[m][1] \in 0..(count - 1)
    BY <1>0, <2>1, <2>4
  <2>6. matches[m][1] # Nobody
    BY <2>5 DEF Nobody
  <2>7. CASE draw(g)[m][2] = Nobody
    BY <1>2, <2>3, <2>5, <2>6, <2>7 DEF Opponents
  <2>8. CASE draw(g)[m][2] # Nobody
    <3>1. matches[m][2] = seats[g][draw(g)[m][2]]
      BY <1>2, <2>3, <2>8
    <3>2. matches[m][2] \in 0..(count - 1) /\ matches[m][1] # matches[m][2]
      BY <1>0, <2>1, <2>2, <2>4, <2>8, <3>1
    <3>3. matches[m][2] # Nobody
      BY <3>2 DEF Nobody
    <3> QED
      BY <2>5, <2>6, <2>8, <3>2, <3>3 DEF Opponents
  <2> QED
    BY <2>7, <2>8
<1>6. \A m \in Stage : m.round = 1 => \E g \in groups : m \in first(g)
  BY <1>1
<1>7. ASSUME NEW c \in 0..(count - 1)
      PROVE  Cardinality({m \in Stage : m.round = 1 /\ c \in Opponents(m)}) = 1
  <2>1. PICK g \in groups : \E i \in 0..(size[g] - 1) : seats[g][i] = c
    BY <1>0
  <2>2. PICK i \in 0..(size[g] - 1) : seats[g][i] = c
    BY <2>1
  <2>3. \E m \in first(g), s \in {1, 2} : draw(g)[m][s] = i
    BY <1>3
  <2>4. PICK m \in first(g), s \in {1, 2} : draw(g)[m][s] = i
    BY <2>3
  <2>5. m \in Stage /\ m.round = 1 /\ m \in DOMAIN draw(g)
    BY <1>1, <1>4
  <2> HIDE DEF first
  <2>6. i # Nobody
    BY DEF Nobody
  <2>7. matches[m][s] = c
    BY <1>2, <2>2, <2>4, <2>5, <2>6
  <2>8. c \in Opponents(m)
    <3>1. c # Nobody
      BY DEF Nobody
    <3> QED
      BY <2>7, <3>1 DEF Opponents
  <2>9. ASSUME NEW l \in Stage, l.round = 1, c \in Opponents(l)
        PROVE  l = m
    <3>1. PICK h \in groups : l \in first(h)
      BY <1>6, <2>9
    <3>2. PICK t \in {1, 2} : matches[l][t] = c /\ c # Nobody
      BY <2>9 DEF Opponents
    <3>3. draw(h)[l][t] # Nobody /\ matches[l][t] = seats[h][draw(h)[l][t]]
      BY <1>2, <1>4, <3>1, <3>2
    <3>4. draw(h)[l][t] \in 0..(size[h] - 1)
      BY <1>3, <3>1, <3>3
    <3>5. g = h /\ i = draw(h)[l][t]
      BY <1>0, <2>2, <3>2, <3>3, <3>4
    <3> QED
      BY <1>3, <2>4, <2>6, <3>1, <3>5
  <2>10. {l \in Stage : l.round = 1 /\ c \in Opponents(l)} = {m}
    BY <2>5, <2>8, <2>9
  <2> QED
    BY <2>10, FS_Singleton
<1>8. ASSUME NEW m \in Stage, m.round = 1
      PROVE  Opponents(m) # {}
  <2>1. PICK g \in groups : m \in first(g)
    BY <1>6, <1>8
  <2> HIDE DEF first
  <2>2. matches[m][1] \in Opponents(m)
    <3>1. CASE draw(g)[m][2] = Nobody
      BY <1>5, <2>1, <3>1
    <3>2. CASE draw(g)[m][2] # Nobody
      BY <1>5, <2>1, <3>2
    <3> QED
      BY <3>1, <3>2
  <2> QED
    BY <2>2
<1>9. ASSUME NEW m \in Stage, NEW s \in 1..2, m.round > 1
      PROVE  matches[m][s] =
               IF m.round > 2 THEN Nobody
               ELSE LET feeder == MatchId(m.phase, m.group, 1, 2 * m.position - 2 + s)
                    IN  IF Cardinality(Opponents(feeder)) = 1 THEN CHOOSE c \in Opponents(feeder) : TRUE
                                                              ELSE Nobody
  <2>1. PICK g \in groups : m \in DOMAIN draw(g)
    BY <1>1
  <2>2. s \in {1, 2} /\ m \in DOMAIN draw(g) \ first(g)
    BY <1>9, <2>1
  <2> DEFINE feeder == MatchId(phase, g, 1, 2 * m.position - 2 + s)
  <2>3. /\ m.phase = phase /\ m.group = g /\ m.round \in Nat
        /\ m.round > 2 => draw(g)[m][s] = Nobody
        /\ m.round = 2 =>
             /\ feeder \in first(g)
             /\ draw(g)[m][s] = IF draw(g)[feeder][2] = Nobody THEN draw(g)[feeder][1] ELSE Nobody
    BY <1>3, <2>2
  <2> HIDE DEF feeder, first
  <2>4. CASE m.round > 2
    BY <1>2, <2>1, <2>2, <2>3, <2>4
  <2>5. CASE m.round = 2
    <3>1. /\ feeder \in first(g) /\ feeder \in DOMAIN draw(g)
          /\ draw(g)[m][s] = IF draw(g)[feeder][2] = Nobody THEN draw(g)[feeder][1] ELSE Nobody
      BY <1>4, <2>3, <2>5
    <3>2. CASE draw(g)[feeder][2] = Nobody
      <4>1. Opponents(feeder) = {matches[feeder][1]}
        BY <1>5, <3>1, <3>2
      <4>2. Cardinality(Opponents(feeder)) = 1 /\ (CHOOSE c \in Opponents(feeder) : TRUE) = matches[feeder][1]
        BY <4>1, FS_Singleton
      <4>3. matches[m][s] = matches[feeder][1]
        BY <1>2, <2>1, <2>2, <3>1, <3>2
      <4> QED
        BY <2>3, <2>5, <4>2, <4>3 DEF feeder
    <3>3. CASE draw(g)[feeder][2] # Nobody
      <4>1. Opponents(feeder) = {matches[feeder][1], matches[feeder][2]} /\ matches[feeder][1] # matches[feeder][2]
        BY <1>5, <3>1, <3>3
      <4> DEFINE c == matches[feeder][1]
                 d == matches[feeder][2]
      <4>4. c # d /\ Opponents(feeder) = {c, d}
        BY <4>1
      <4> HIDE DEF c, d
      <4>2. Cardinality(Opponents(feeder)) = 2
        <5>1. c # d
          BY <4>4
        <5>2. Cardinality({c, d}) = 2
          BY <5>1, TwoElements
        <5> QED
          BY <4>4, <5>2
      <4>3. matches[m][s] = Nobody
        BY <1>2, <2>1, <2>2, <3>1, <3>3
      <4> QED
        BY <2>3, <2>5, <4>2, <4>3 DEF feeder
    <3> QED
      BY <3>2, <3>3
  <2> QED
    BY <1>9, <2>3, <2>4, <2>5
<1> QED
  BY <1>7, <1>8, <1>9 DEF EveryoneEntersOnce

-----------------------------------------------------------------------------
(* Drawing: the category of what was drawn, from which nobody withdrew.    *)
DrawnCategory == [bracketType |-> bracketType, drawn |-> count, registered |-> count]

LEMMA MatchesAreIds ==
  ASSUME NEW n, NEW type \in {"SINGLE_REPECHAGE", "DOUBLE_REPECHAGE", "GRAND_SLAM"}, NEW m \in DOMAIN Draw(type, n)
  PROVE  \E phase, group, round, position : m = MatchId(phase, group, round, position)
<1>1. ASSUME NEW k, NEW phase, NEW group, NEW l \in DOMAIN Elimination(k, phase, group)
      PROVE  \E round, position : l = MatchId(phase, group, round, position)
  BY <1>1 DEF Elimination
<1>2. ASSUME NEW l \in RepechageMatches \cup {Semifinal(1), Semifinal(2), Final}
      PROVE  \E phase, group, round, position : l = MatchId(phase, group, round, position)
  BY <1>2 DEF RepechageMatches, Repechage, Bronze, Semifinal, Final, Placeholder
<1>3. CASE type = "SINGLE_REPECHAGE"
  <2>1. Draw(type, n) = Elimination(n, "MAIN", NoGroup)
    BY <1>3 DEF Draw
  <2> QED
    BY <1>1, <2>1
<1>4. CASE type = "DOUBLE_REPECHAGE"
  <2>1. Draw(type, n) = DoubleRepechage(n)
    BY <1>4 DEF Draw
  <2>2. DOMAIN DoubleRepechage(n) = DOMAIN Elimination(n, "MAIN", NoGroup) \cup RepechageMatches
    BY DEF DoubleRepechage, WithPlaceholders
  <2> QED
    BY <1>1, <1>2, <2>1, <2>2
<1>5. CASE type = "GRAND_SLAM"
  <2> DEFINE bracket(g) == Elimination(PoolSize(n, g), "POOL", g)
             pool == [g \in SlamPools |-> Seated(bracket(g), PoolMembers(n, g))]
             inPools == UNION {DOMAIN pool[g] : g \in DOMAIN pool}
             pools == [l \in inPools |-> pool[l.group][l]]
  <2>1. Draw(type, n) = WithPlaceholders(pools, RepechageMatches \cup {Semifinal(1), Semifinal(2), Final})
    BY <1>5 DEF Draw, GrandSlam
  <2>2. m \in inPools \/ m \in RepechageMatches \cup {Semifinal(1), Semifinal(2), Final}
    BY <2>1 DEF WithPlaceholders
  <2>3. ASSUME m \in inPools
        PROVE  \E g \in SlamPools : m \in DOMAIN bracket(g)
    BY <2>3 DEF Seated
  <2> HIDE DEF pools, inPools, pool
  <2> QED
    BY <1>1, <1>2, <2>2, <2>3
<1> QED
  BY <1>3, <1>4, <1>5

LEMMA DrawnIsCategory ==
  ASSUME \A phase, group, round, position : None # MatchId(phase, group, round, position),
         DrawingIInv, ~IsRoundRobin
  PROVE  /\ IsCategory(DrawnCategory) /\ DrawnCategory.drawn = count /\ DrawnCategory.registered = count
         /\ DrawOf(DrawnCategory) = Generated(bracketType, matches, count)
         /\ IF bracketType = "GRAND_SLAM" THEN IsSlam(DrawnCategory) ELSE IsElimination(DrawnCategory)
<1>1. /\ bracketType \in {"SINGLE_REPECHAGE", "DOUBLE_REPECHAGE", "GRAND_SLAM"}
      /\ count \in Nat /\ Accepts(bracketType, count) /\ matches = Draw(bracketType, count)
  BY DEF DrawingIInv, IsRoundRobin
<1>2. DrawnCategory.bracketType = bracketType /\ DrawnCategory.drawn = count /\ DrawnCategory.registered = count
  BY DEF DrawnCategory
<1>3. DrawOf(DrawnCategory) = Generated(bracketType, matches, count)
  BY <1>1, <1>2 DEF DrawOf
<1>4. DrawOf(DrawnCategory).matches = DOMAIN matches
  BY <1>3 DEF Generated
<1>5. None \notin DOMAIN matches
  BY <1>1, MatchesAreIds
<1>6. IsCategory(DrawnCategory)
  BY <1>1, <1>2, <1>4, <1>5 DEF IsCategory
<1>7. IF bracketType = "GRAND_SLAM" THEN IsSlam(DrawnCategory) ELSE IsElimination(DrawnCategory)
  BY <1>1, <1>2 DEF Accepts, IsSlam, IsElimination, IsGrandSlamBracketSize
<1> QED
  BY <1>2, <1>3, <1>6, <1>7

(* Everybody enters the main bracket of an elimination.                    *)
LEMMA MainIsStage ==
  ASSUME DrawingIInv, bracketType \in {"SINGLE_REPECHAGE", "DOUBLE_REPECHAGE"}
  PROVE  \E size, seats : StageOf("MAIN", {NoGroup}, size, seats)
<1> DEFINE groups == {NoGroup}
           size == [g \in groups |-> count]
           seats == [g \in groups |-> [i \in 0..(count - 1) |-> i]]
           draw == Elimination(count, "MAIN", NoGroup)
<1>1. /\ count \in Nat /\ count > 1
      /\ bracketType = "SINGLE_REPECHAGE" => matches = draw
      /\ bracketType = "DOUBLE_REPECHAGE" => matches = DoubleRepechage(count)
  BY DEF DrawingIInv, Accepts, Draw
<1>2. \A m \in DOMAIN draw : m.phase = "MAIN"
  BY <1>1, MainRounds
<1>3. \A m \in RepechageMatches : m.phase \notin {"MAIN", "POOL"}
  BY DEF RepechageMatches, Repechage, Bronze, Placeholder, MatchId
<1>4. \A m : m \in Stage <=> m \in DOMAIN draw
  <2>1. CASE bracketType = "SINGLE_REPECHAGE"
    BY <1>1, <1>2, <2>1 DEF Stage
  <2>2. CASE bracketType = "DOUBLE_REPECHAGE"
    <3>1. DOMAIN matches = DOMAIN draw \cup RepechageMatches
      BY <1>1, <2>2 DEF DoubleRepechage, WithPlaceholders
    <3> QED
      BY <1>2, <1>3, <3>1 DEF Stage
  <2> QED
    BY <2>1, <2>2
<1>5. \A m \in DOMAIN draw : matches[m] = draw[m]
  BY <1>1 DEF DoubleRepechage, WithPlaceholders
<1>6. \A m \in DOMAIN draw, s \in {1, 2} : draw[m][s] # Nobody => draw[m][s] \in 0..(count - 1)
  BY <1>1, DrawnFrom
<1> HIDE DEF draw
<1>7. \A m \in DOMAIN draw, s \in {1, 2} :
        matches[m][s] = IF draw[m][s] = Nobody THEN Nobody ELSE seats[NoGroup][draw[m][s]]
  BY <1>5, <1>6
<1>8. size[NoGroup] = count /\ \A i \in 0..(count - 1) : seats[NoGroup][i] = i
  OBVIOUS
<1>9. \A g \in groups : g = NoGroup
  OBVIOUS
<1> HIDE DEF size, seats
<1>10. /\ \A g \in groups : size[g] \in Nat /\ size[g] > 1
       /\ \A g \in groups : Elimination(size[g], "MAIN", g) = draw
       /\ \A g \in groups : \A i \in 0..(size[g] - 1) : seats[g][i] \in 0..(count - 1)
       /\ \A g, h \in groups : \A i \in 0..(size[g] - 1), j \in 0..(size[h] - 1) :
           seats[g][i] = seats[h][j] => g = h /\ i = j
       /\ \A c \in 0..(count - 1) : \E g \in groups : \E i \in 0..(size[g] - 1) : seats[g][i] = c
  BY <1>1, <1>8, <1>9 DEF draw
<1>11. \A m : m \in Stage <=> \E g \in groups : m \in DOMAIN Elimination(size[g], "MAIN", g)
  BY <1>4, <1>10
<1>12. \A g \in groups : \A m \in DOMAIN Elimination(size[g], "MAIN", g), s \in {1, 2} :
           LET place == Elimination(size[g], "MAIN", g)[m][s]
           IN  matches[m][s] = IF place = Nobody THEN Nobody ELSE seats[g][place]
  BY <1>7, <1>9, <1>10
<1>13. \A g \in groups : \A i, j \in 0..(size[g] - 1) : i < j => seats[g][i] < seats[g][j]
  BY <1>8, <1>9
<1>14. \A m \in DOMAIN matches : m.group \in groups => m \in Stage
  <2>1. DOMAIN matches \subseteq DOMAIN draw \cup RepechageMatches
    BY <1>1 DEF DoubleRepechage, WithPlaceholders, draw
  <2>2. \A m \in RepechageMatches : m.group # NoGroup
    BY DEF RepechageMatches, Repechage, Bronze, Placeholder, MatchId, Halves, NoGroup
  <2> QED
    BY <1>4, <1>9, <2>1, <2>2
<1> HIDE DEF groups
<1>15. StageOf("MAIN", groups, size, seats)
  BY <1>10, <1>11, <1>12, <1>13, <1>14 DEF StageOf
<1> QED
  BY <1>15 DEF groups

(* Everybody enters the bracket of one pool of a grand slam.               *)
LEMMA PoolsAreStage ==
  ASSUME \A phase, group, round, position : None # MatchId(phase, group, round, position),
         DrawingIInv, bracketType = "GRAND_SLAM"
  PROVE  \E size, seats :
           /\ StageOf("POOL", SlamPools, size, seats)
           /\ \A g \in SlamPools :
                size[g] = PoolSize(count, g)
                  /\ \A i \in 0..(size[g] - 1) : seats[g][i] = PoolMembers(count, g)[i + 1]
<1> DEFINE c == DrawnCategory
           size == [g \in SlamPools |-> PoolSize(count, g)]
           seats == [g \in SlamPools |-> [i \in 0..(PoolSize(count, g) - 1) |-> PoolMembers(count, g)[i + 1]]]
           draw(g) == Elimination(size[g], "POOL", g)
<1>1. IsCategory(c) /\ IsSlam(c) /\ c.drawn = count /\ count \in Nat
      /\ matches = Draw("GRAND_SLAM", count)
  BY DrawnIsCategory DEF IsRoundRobin, DrawingIInv
<1> HIDE DEF c
<1>2. \A g \in SlamPools :
        /\ size[g] = PoolSize(count, g) /\ size[g] \in Nat /\ size[g] > 1
        /\ draw(g) = PoolDraw(c, g)
  BY <1>1, PoolBracket DEF PoolDraw
<1>3. \A g \in SlamPools : \A i \in 0..(size[g] - 1) :
        seats[g][i] = PoolMembers(count, g)[i + 1] /\ i + 1 \in 1..PoolSize(count, g)
  BY <1>2
<1>4. /\ DOMAIN matches = (UNION {DOMAIN PoolDraw(c, g) : g \in SlamPools}) \cup SlamOthers
      /\ \A m \in SlamOthers : m.phase \notin {"POOL", "MAIN"}
      /\ \A g \in SlamPools : \A m \in DOMAIN PoolDraw(c, g), s \in Sides :
           LET seat == PoolDraw(c, g)[m][s]
           IN  matches[m][s] = IF seat = Nobody THEN Nobody ELSE PoolMembers(count, g)[seat + 1]
  <2> DEFINE drawn == Draw("GRAND_SLAM", c.drawn)
  <2>1. /\ DOMAIN drawn = (UNION {DOMAIN PoolDraw(c, g) : g \in SlamPools}) \cup SlamOthers
        /\ \A m \in SlamOthers : m.phase \notin {"POOL", "MAIN"}
    BY <1>1, SlamMatches
  <2>2. \A g \in SlamPools : \A m \in DOMAIN PoolDraw(c, g), s \in Sides :
           LET seat == PoolDraw(c, g)[m][s]
           IN  drawn[m][s] = IF seat = Nobody THEN Nobody ELSE PoolMembers(c.drawn, g)[seat + 1]
    BY <1>1, SlamMatches
  <2>3. matches = drawn
    BY <1>1
  <2> HIDE DEF drawn
  <2> QED
    BY <1>1, <2>1, <2>2, <2>3
<1>5. \A g \in SlamPools : \A m \in DOMAIN PoolDraw(c, g) : m.phase = "POOL"
  BY <1>1, PoolBracket
<1>6. \A m : m \in Stage <=> \E g \in SlamPools : m \in DOMAIN draw(g)
  BY <1>2, <1>4, <1>5 DEF Stage
<1>7. \A g \in SlamPools : \A m \in DOMAIN draw(g), s \in {1, 2} :
        draw(g)[m][s] # Nobody => draw(g)[m][s] \in 0..(size[g] - 1)
  <2> SUFFICES ASSUME NEW g \in SlamPools, NEW m \in DOMAIN draw(g), NEW s \in {1, 2}, draw(g)[m][s] # Nobody
               PROVE  draw(g)[m][s] \in 0..(size[g] - 1)
    OBVIOUS
  <2> DEFINE k == size[g]
  <2>1. k \in Nat /\ k > 1
    BY <1>2
  <2> HIDE DEF k
  <2> QED
    BY <2>1, DrawnFrom DEF k
<1>8. \A g \in SlamPools : \A m \in DOMAIN draw(g), s \in {1, 2} :
        LET place == draw(g)[m][s]
        IN  matches[m][s] = IF place = Nobody THEN Nobody ELSE seats[g][place]
  <2> SUFFICES ASSUME NEW g \in SlamPools, NEW m \in DOMAIN draw(g), NEW s \in {1, 2}
               PROVE  matches[m][s] = IF draw(g)[m][s] = Nobody THEN Nobody ELSE seats[g][draw(g)[m][s]]
    OBVIOUS
  <2>1. draw(g) = PoolDraw(c, g) /\ s \in Sides
    BY <1>2 DEF Sides
  <2>2. draw(g)[m][s] # Nobody => draw(g)[m][s] \in 0..(size[g] - 1)
    BY <1>7
  <2> HIDE DEF draw, seats, size
  <2>3. matches[m][s] = IF draw(g)[m][s] = Nobody THEN Nobody ELSE PoolMembers(count, g)[draw(g)[m][s] + 1]
    BY <1>4, <2>1
  <2> QED
    BY <1>3, <2>2, <2>3
<1> HIDE DEF seats, size
<1>9. /\ \A g \in SlamPools : \A i \in 0..(size[g] - 1) : seats[g][i] \in 0..(count - 1)
      /\ \A g, h \in SlamPools : \A i \in 0..(size[g] - 1), j \in 0..(size[h] - 1) :
           seats[g][i] = seats[h][j] => g = h /\ i = j
  <2>3. /\ \A g \in SlamPools : \A i \in 1..PoolSize(count, g) : PoolMembers(count, g)[i] \in 0..(count - 1)
        /\ \A g, h \in SlamPools : \A i \in 1..PoolSize(count, g), j \in 1..PoolSize(count, h) :
             PoolMembers(count, g)[i] = PoolMembers(count, h)[j] => g = h /\ i = j
    BY <1>1, SlamMembers
  <2>1. ASSUME NEW g \in SlamPools, NEW i \in 0..(size[g] - 1)
        PROVE  seats[g][i] \in 0..(count - 1)
    <3>1. seats[g][i] = PoolMembers(count, g)[i + 1] /\ i + 1 \in 1..PoolSize(count, g)
      BY <1>3
    <3> QED
      BY <2>3, <3>1
  <2>2. ASSUME NEW g \in SlamPools, NEW h \in SlamPools, NEW i \in 0..(size[g] - 1), NEW j \in 0..(size[h] - 1),
               seats[g][i] = seats[h][j]
        PROVE  g = h /\ i = j
    <3>1. /\ i + 1 \in 1..PoolSize(count, g) /\ j + 1 \in 1..PoolSize(count, h)
          /\ PoolMembers(count, g)[i + 1] = PoolMembers(count, h)[j + 1]
      BY <1>3, <2>2
    <3>2. g = h /\ i + 1 = j + 1
      <4> DEFINE a == i + 1
                 b == j + 1
      <4> HIDE DEF a, b
      <4>1. a \in 1..PoolSize(count, g) /\ b \in 1..PoolSize(count, h)
            /\ PoolMembers(count, g)[a] = PoolMembers(count, h)[b]
        BY <3>1 DEF a, b
      <4>2. g = h /\ a = b
        BY <2>3, <4>1
      <4> QED
        BY <4>2 DEF a, b
    <3> QED
      BY <1>2, <3>2
  <2> QED
    BY <2>1, <2>2
<1>10. \A k \in 0..(count - 1) : \E g \in SlamPools : \E i \in 0..(size[g] - 1) : seats[g][i] = k
  <2> SUFFICES ASSUME NEW k \in 0..(count - 1)
               PROVE  \E g \in SlamPools : \E i \in 0..(size[g] - 1) : seats[g][i] = k
    OBVIOUS
  <2>1. PICK g \in SlamPools : \E i \in 1..PoolSize(count, g) : PoolMembers(count, g)[i] = k
    BY <1>1, SlamMembers
  <2>2. PICK i \in 1..PoolSize(count, g) : PoolMembers(count, g)[i] = k
    BY <2>1
  <2>3. i - 1 \in 0..(size[g] - 1) /\ (i - 1) + 1 = i
    BY <1>2
  <2>4. seats[g][i - 1] = k
    BY <1>3, <2>2, <2>3
  <2> QED
    BY <2>3, <2>4
<1>11. \A g \in SlamPools : size[g] \in Nat /\ size[g] > 1
  BY <1>2
<1>12. \A g \in SlamPools : \A i, j \in 0..(size[g] - 1) : i < j => seats[g][i] < seats[g][j]
  <2> SUFFICES ASSUME NEW g \in SlamPools, NEW i \in 0..(size[g] - 1), NEW j \in 0..(size[g] - 1), i < j
               PROVE  seats[g][i] < seats[g][j]
    OBVIOUS
  <2> DEFINE k == i + 1
             l == j + 1
  <2>1. /\ seats[g][i] = PoolMembers(count, g)[k] /\ k \in 1..PoolSize(count, g)
        /\ seats[g][j] = PoolMembers(count, g)[l] /\ l \in 1..PoolSize(count, g)
    BY <1>3
  <2>2. k \in Int /\ l \in Int /\ k < l
    BY <1>2
  <2> HIDE DEF k, l
  <2>3. /\ PoolMembers(count, g)[k] \in 4 * (k - 1) .. (4 * (k - 1) + 3)
        /\ PoolMembers(count, g)[l] \in 4 * (l - 1) .. (4 * (l - 1) + 3)
    BY <1>1, <2>1, MembersAreSnake
  <2> QED
    BY <2>1, <2>2, <2>3
<1>13. \A m \in DOMAIN matches : m.group \in SlamPools => m \in Stage
  <2>1. \A m \in SlamOthers : m.group \notin SlamPools
    BY DEF SlamOthers, RepechageMatches, Repechage, Bronze, Semifinal, Final, Placeholder, MatchId,
           Halves, NoGroup, SlamPools
  <2> QED
    BY <1>2, <1>4, <1>6, <2>1
<1>14. StageOf("POOL", SlamPools, size, seats)
  BY <1>6, <1>8, <1>9, <1>10, <1>11, <1>12, <1>13 DEF StageOf
<1> QED
  BY <1>2, <1>3, <1>14

LEMMA EveryoneEnters ==
  ASSUME \A phase, group, round, position : None # MatchId(phase, group, round, position), DrawingIInv
  PROVE  EveryoneEntersOnce
<1>1. CASE IsRoundRobin
  BY <1>1 DEF EveryoneEntersOnce
<1>2. CASE bracketType = "GRAND_SLAM"
  <2>1. PICK size, seats : StageOf("POOL", SlamPools, size, seats)
    BY <1>2, PoolsAreStage
  <2> QED
    BY <2>1, StageEnters DEF DrawingIInv
<1>3. CASE bracketType \in {"SINGLE_REPECHAGE", "DOUBLE_REPECHAGE"}
  <2>1. PICK size, seats : StageOf("MAIN", {NoGroup}, size, seats)
    BY <1>3, MainIsStage
  <2> QED
    BY <2>1, StageEnters DEF DrawingIInv
<1> QED
  BY <1>1, <1>2, <1>3 DEF DrawingIInv, IsRoundRobin

-----------------------------------------------------------------------------
(* Drawing: the routes.                                                   *)

(* The slot after a match of a pool waits for its winner; a bye is already *)
(* in it, and nobody is sent to the bye.                                   *)
LEMMA PoolWinnersAwaited ==
  ASSUME NEW c, IsCategory(c), IsSlam(c), NEW group \in SlamPools, NEW m \in DOMAIN PoolDraw(c, group),
         m.round < RoundsOfPool(c, group)
  PROVE  LET d == DrawOf(c)
             next == MatchId("POOL", group, m.round + 1, (m.position + 1) \div 2)
             side == IF m.position % 2 = 1 THEN 1 ELSE 2
         IN  \/ d.entrants[next][side] = None
             \/ /\ \A n \in d.matches : d.winnerTo[n] # m /\ d.loserTo[n] # m
                /\ d.entrants[m][2] = None /\ d.entrants[m][1] = d.entrants[next][side]
<1> DEFINE d == DrawOf(c)
           size == PoolSize(c.drawn, group)
           draw == Elimination(size, "POOL", group)
           next == MatchId("POOL", group, m.round + 1, (m.position + 1) \div 2)
           side == IF m.position % 2 = 1 THEN 1 ELSE 2
<1>1. /\ size \in Nat /\ size > 1 /\ draw = PoolDraw(c, group) /\ m \in DOMAIN draw
      /\ m.phase = "POOL" /\ m.round \in Int /\ m.position \in Int /\ RoundsOfPool(c, group) = TotalRoundsFor(size)
  BY PoolBracket DEF PoolDraw, RoundsOfPool
<1>2. /\ next \in DOMAIN draw /\ m \in d.matches /\ m # None /\ side \in Sides /\ side \in {1, 2}
      /\ next.round = m.round + 1 /\ next.position = (m.position + 1) \div 2
  <2>1. next \in DOMAIN draw
    <3> HIDE DEF size
    <3> QED
      BY <1>1, NextInBracket
  <2>2. m \in d.matches
    BY SlamMatches
  <2>3. m # None
    BY <2>2, CategoryTypes
  <2> QED
    BY <2>1, <2>2, <2>3 DEF Sides, MatchId
<1>3. \A l \in DOMAIN draw, s \in Sides :
        d.entrants[l][s] = IF draw[l][s] = Nobody THEN None ELSE PoolMembers(c.drawn, group)[draw[l][s] + 1]
  BY <1>1, SlamMatches
<1> HIDE DEF next, side, size, d, draw
<1>4. CASE ~Unopposed(size, m)
  <2>1. draw[next][side] = Nobody
    BY <1>1, <1>4, NextIsOpen DEF next, side, draw
  <2> QED
    BY <1>2, <1>3, <2>1 DEF d, next, side
<1>5. CASE Unopposed(size, m)
  <2>1. m.round = 1 /\ FirstRound(size, m.position)[2] = Nobody
    BY <1>5 DEF Unopposed
  <2>2. draw[m] = FirstRound(size, m.position) /\ m.position \in 1..2^(TotalRoundsFor(size) - 1)
    BY <1>1, <2>1, EliminationSlots DEF draw
  <2>3. FirstRound(size, m.position)[1] \in 0..(size - 1)
    BY <1>1, <2>2, FirstRoundSlots
  <2>4. 2 * next.position - 2 + side = m.position
    BY <1>1, <1>2 DEF side
  <2>5. next.round = 2
    BY <1>2, <2>1
  <2>6. draw[next][side] = Advanced(FirstRound(size, 2 * next.position - 2 + side))
    BY <1>1, <1>2, <2>5, EliminationSlots DEF draw
  <2>7. draw[next][side] = draw[m][1]
    <3>1. FirstRound(size, m.position)[1] # Nobody
      BY <1>1, <2>3 DEF Nobody
    <3> QED
      BY <2>1, <2>2, <2>4, <2>6, <3>1 DEF Advanced, IsBye
  <2>8. d.entrants[m][2] = None /\ d.entrants[m][1] = d.entrants[next][side]
    BY <1>1, <1>2, <1>3, <2>1, <2>2, <2>7 DEF Sides
  <2>9. ASSUME NEW n \in d.matches, d.winnerTo[n] = m PROVE FALSE
    <3>1. PICK other \in SlamPools :
            /\ n \in DOMAIN PoolDraw(c, other)
            /\ m = MatchId("POOL", other, n.round + 1, (n.position + 1) \div 2)
      BY <1>1, <1>2, <2>9, SlamLeads, SlamIds DEF d
    <3>2. n.round \in Nat /\ n.round >= 1 /\ m.round = n.round + 1
      BY <3>1, PoolBracket, SlamIds
    <3> QED
      BY <2>1, <3>2
  <2>10. ASSUME NEW n \in d.matches, d.loserTo[n] = m PROVE FALSE
    BY <1>1, <1>2, <2>10, SlamLeads, SlamIds DEF d
  <2> QED
    BY <2>8, <2>9, <2>10 DEF d, next, side
<1> QED
  BY <1>4, <1>5

LEMMA SlamWinnersAwaited ==
  ASSUME NEW c, IsCategory(c), IsSlam(c), NEW m \in DrawOf(c).matches, DrawOf(c).winnerTo[m] # None
  PROVE  LET d == DrawOf(c)
         IN  \/ d.entrants[d.winnerTo[m]][d.winnerSide[m]] = None
             \/ /\ \A n \in d.matches : d.winnerTo[n] # m /\ d.loserTo[n] # m
                /\ d.entrants[m][2] = None
                /\ d.entrants[m][1] = d.entrants[d.winnerTo[m]][d.winnerSide[m]]
<1> DEFINE d == DrawOf(c)
<1>1. CASE \E group \in SlamPools :
             /\ m \in DOMAIN PoolDraw(c, group) /\ m.round < RoundsOfPool(c, group)
             /\ d.winnerTo[m] = MatchId("POOL", group, m.round + 1, (m.position + 1) \div 2)
             /\ d.winnerSide[m] = IF m.position % 2 = 1 THEN 1 ELSE 2
  <2>1. PICK group \in SlamPools :
             /\ m \in DOMAIN PoolDraw(c, group) /\ m.round < RoundsOfPool(c, group)
             /\ d.winnerTo[m] = MatchId("POOL", group, m.round + 1, (m.position + 1) \div 2)
             /\ d.winnerSide[m] = IF m.position % 2 = 1 THEN 1 ELSE 2
    BY <1>1
  <2> QED
    BY <2>1, PoolWinnersAwaited
<1>2. CASE d.winnerTo[m] \in SlamOthers /\ d.winnerSide[m] \in Sides
  BY <1>2, SlamMatches
<1>3. /\ \A p : Semifinal(IF TopPool(p) THEN 1 ELSE 2) \in SlamOthers /\ SideOfPool(p) \in Sides
      /\ Final \in SlamOthers /\ \A half \in Halves : Bronze(half) \in SlamOthers
      /\ 1 \in Sides /\ 2 \in Sides
  BY DEF SlamOthers, RepechageMatches, SideOfPool, Sides
<1> HIDE DEF d
<1>4. \/ \E group \in SlamPools :
             /\ m \in DOMAIN PoolDraw(c, group) /\ m.round < RoundsOfPool(c, group)
             /\ d.winnerTo[m] = MatchId("POOL", group, m.round + 1, (m.position + 1) \div 2)
             /\ d.winnerSide[m] = IF m.position % 2 = 1 THEN 1 ELSE 2
      \/ d.winnerTo[m] \in SlamOthers /\ d.winnerSide[m] \in Sides
  BY <1>3, SlamLeads DEF d
<1> QED
  BY <1>1, <1>2, <1>4 DEF d

(* The routes of what is generated fit it.                                 *)
LEMMA RoutesFit ==
  ASSUME None \notin Int,
         \A phase, group, round, position : None # MatchId(phase, group, round, position), DrawingIInv
  PROVE  RoutesFitTheDraw
<1> SUFFICES ASSUME ~IsRoundRobin
             PROVE  \E drawn \in {Generated(bracketType, matches, count)} :
                      /\ Rows(drawn)!DrawTypes /\ Rows(drawn)!ByesAdvanced
                      /\ Rows(drawn)!OneFeederPerSlot /\ Rows(drawn)!OneLoserPerSlot
                      /\ Rows(drawn)!WinnersAwaited
                      /\ EnteredOnce(drawn) /\ OneConsolation(drawn)
  BY DEF RoutesFitTheDraw
<1>0. PICK c : c = DrawnCategory
  OBVIOUS
<1> DEFINE d == DrawOf(c)
<1>1. /\ IsCategory(c) /\ c.drawn = count /\ d = Generated(bracketType, matches, count)
      /\ IF bracketType = "GRAND_SLAM" THEN IsSlam(c) ELSE IsElimination(c)
  BY <1>0, DrawnIsCategory
<1>2. /\ Bracket(c, d)!DrawTypes /\ Bracket(c, d)!OneFeederPerSlot /\ Bracket(c, d)!ByesAdvanced
      /\ FullDraw(c, d)
  BY <1>1, SlamIsADraw, SlamIsFull, EliminationIsADraw, EliminationIsFull
<1>3. /\ Bracket(c, d)!OneLoserPerSlot /\ EnteredOnce(d) /\ OneConsolation(d)
  BY <1>2 DEF FullDraw
<1>4. /\ Rows(d)!DrawTypes /\ Rows(d)!OneFeederPerSlot
      /\ Rows(d)!ByesAdvanced /\ Rows(d)!OneLoserPerSlot
  <2> HIDE DEF d
  <2>1. Rows(d)!DrawTypes
    BY <1>1, <1>2 DEF Bracket!DrawTypes, Bracket!MaybeCompetitor, Bracket!MaybeMatch, Bracket!Sides,
                      Bracket!FirstFree, Rows!DrawTypes, Rows!MaybeCompetitor, Rows!MaybeMatch,
                      Rows!Sides, Rows!FirstFree
  <2>2. Rows(d)!OneFeederPerSlot
    BY <1>2 DEF Bracket!OneFeederPerSlot, Bracket!Sides, Rows!OneFeederPerSlot, Rows!Sides
  <2>3. Rows(d)!ByesAdvanced
    BY <1>2 DEF Bracket!ByesAdvanced, Bracket!ByeWinner, Rows!ByesAdvanced, Rows!ByeWinner
  <2>4. Rows(d)!OneLoserPerSlot
    BY <1>3 DEF Bracket!OneLoserPerSlot, Bracket!FirstFree, Bracket!Sides,
                Rows!OneLoserPerSlot, Rows!FirstFree, Rows!Sides
  <2> QED
    BY <2>1, <2>2, <2>3, <2>4
<1>5. Rows(d)!WinnersAwaited
  <2>1. ASSUME NEW m \in d.matches \ d.byes, d.winnerTo[m] # None
        PROVE  \/ d.entrants[d.winnerTo[m]][d.winnerSide[m]] = None
               \/ /\ \A n \in d.matches : d.winnerTo[n] # m /\ d.loserTo[n] # m
                  /\ d.entrants[m][2] = None
                  /\ d.entrants[m][1] = d.entrants[d.winnerTo[m]][d.winnerSide[m]]
    <3>1. CASE bracketType = "GRAND_SLAM"
      BY <1>1, <2>1, <3>1, SlamWinnersAwaited
    <3>2. CASE bracketType # "GRAND_SLAM"
      BY <1>1, <2>1, <3>2, WinnersFindRoom
    <3> QED
      BY <3>1, <3>2
  <2> HIDE DEF d
  <2> QED
    BY <2>1 DEF Rows!WinnersAwaited, Rows!Unopposed, Rows!Sides
<1> HIDE DEF d
<1> QED
  BY <1>1, <1>3, <1>4, <1>5

LEMMA SmallestIsAccepted ==
  ASSUME NEW type \in {"ROUND_ROBIN", "POOLS", "SINGLE_REPECHAGE", "DOUBLE_REPECHAGE", "GRAND_SLAM"}
  PROVE  Smallest(type) \in Nat /\ Accepts(type, Smallest(type))
<1> DEFINE IsSmallest(n) == Accepts(type, n) /\ \A k \in 2..(n - 1) : ~Accepts(type, k)
<1>1. \E n \in 2..16 : IsSmallest(n)
  <2>1. CASE type = "POOLS"
    <3>1. IsSmallest(5)
      BY <2>1 DEF Accepts, IsPoolsBracketSize
    <3> QED
      BY <3>1
  <2>2. CASE type = "GRAND_SLAM"
    <3>1. IsSmallest(16)
      BY <2>2 DEF Accepts, IsGrandSlamBracketSize
    <3> QED
      BY <3>1
  <2>3. CASE type = "DOUBLE_REPECHAGE"
    <3>1. IsSmallest(16)
      BY <2>3 DEF Accepts
    <3> QED
      BY <3>1
  <2>4. CASE type \in {"ROUND_ROBIN", "SINGLE_REPECHAGE"}
    <3>1. IsSmallest(2)
      BY <2>4 DEF Accepts
    <3> QED
      BY <3>1
  <2> QED
    BY <2>1, <2>2, <2>3, <2>4
<1>2. Smallest(type) = CHOOSE n \in 2..16 : IsSmallest(n)
  BY DEF Smallest
<1>3. Smallest(type) \in 2..16 /\ IsSmallest(Smallest(type))
  <2> HIDE DEF IsSmallest
  <2> QED
    BY <1>1, <1>2
<1> QED
  BY <1>3

LEMMA DrawingStarts == DrawingInit => DrawingIInv
<1> SUFFICES ASSUME DrawingInit
             PROVE  DrawingIInv
  OBVIOUS
<1>1. bracketType \in {"ROUND_ROBIN", "POOLS", "SINGLE_REPECHAGE", "DOUBLE_REPECHAGE", "GRAND_SLAM"}
  BY DrawingTypes DEF DrawingInit
<1> QED
  BY <1>1, SmallestIsAccepted DEF DrawingInit, DrawingIInv

LEMMA DrawingStays == DrawingIInv /\ [GenerateBrackets]_drawingVars => DrawingIInv'
<1> SUFFICES ASSUME DrawingIInv, [GenerateBrackets]_drawingVars
             PROVE  DrawingIInv'
  OBVIOUS
<1>1. CASE GenerateBrackets
  BY <1>1 DEF DrawingIInv, GenerateBrackets
<1>2. CASE UNCHANGED drawingVars
  BY <1>2 DEF DrawingIInv, drawingVars
<1> QED
  BY <1>1, <1>2

(* Whatever the format and however many competitors there are: in a round  *)
(* robin and in each pool everybody meets everybody once, nobody twice in  *)
(* a round; in an elimination everybody has one first match and who is     *)
(* alone in it waits in the second round; and advanceWinner finds a slot   *)
(* of its own for everybody it sends on.  None stands for null, which is no*)
(* competitor and no match.                                                *)
THEOREM DrawingsAreComplete ==
  ASSUME None \notin Int,
         \A phase, group, round, position : None # MatchId(phase, group, round, position)
  PROVE  DrawingSpec => []DrawIsComplete
<1>1. DrawingInit => DrawingIInv
  BY DrawingStarts
<1>2. DrawingIInv /\ [GenerateBrackets]_drawingVars => DrawingIInv'
  BY DrawingStays
<1>3. DrawingIInv => DrawIsComplete
  BY PairsMeet, RoundsFit, EveryoneEnters, RoutesFit DEF DrawIsComplete
<1> QED
  BY <1>1, <1>2, <1>3, PTL DEF DrawingSpec

-----------------------------------------------------------------------------
(* Drawing: the seeds.                                                     *)

(* The best of a bracket have the byes, one each.                          *)
LEMMA ByesToTheBest ==
  ASSUME NEW n \in Nat, n > 1
  PROVE  LET rounds == TotalRoundsFor(n)
             byes == {p \in 1..2^(rounds - 1) : FirstRound(n, p)[2] = Nobody}
             free == 2^rounds - n
         IN  /\ free \in 0..(n - 1) /\ IsFiniteSet(byes) /\ Cardinality(byes) = free
             /\ \A p \in byes : FirstRound(n, p)[1] \in 0..(free - 1)
             /\ \A i \in 0..(free - 1) : \E p \in byes : FirstRound(n, p)[1] = i
<1> DEFINE rounds == TotalRoundsFor(n)
           places == 1..2^(rounds - 1)
           byes == {p \in places : FirstRound(n, p)[2] = Nobody}
           free == 2^rounds - n
<1>1. rounds \in Nat /\ rounds >= 1 /\ 2^(rounds - 1) < n /\ n <= 2^rounds
  BY RoundsOfBracket
<1>2. \A p \in places : FirstRound(n, p)[2] = Nobody <=> FirstRound(n, p)[1] < free
  BY SeedsMeetLate
<1>3. \A p \in places :
        /\ FirstRound(n, p)[1] \in 0..(n - 1)
        /\ FirstRound(n, p)[2] # Nobody => FirstRound(n, p)[2] = Seedings[rounds][2 * p]
  BY FirstRoundSlots
<1>4. /\ \A p, q \in places, s, t \in {1, 2} :
           FirstRound(n, p)[s] # Nobody /\ FirstRound(n, p)[s] = FirstRound(n, q)[t] => p = q /\ s = t
      /\ \A c \in 0..(n - 1) : \E p \in places, s \in {1, 2} : FirstRound(n, p)[s] = c
  BY FirstRoundOnce
<1> HIDE DEF rounds
<1>5. 2^rounds = 2 * 2^(rounds - 1) /\ 2^(rounds - 1) \in Nat /\ 2^rounds \in Nat
  BY <1>1, PowerStep, PowersOfTwo
<1>6. free \in 0..(n - 1) /\ free <= 2^(rounds - 1)
  BY <1>1, <1>5
<1>7. \A p \in places : Seedings[rounds][2 * p] >= 2^(rounds - 1)
  <2> SUFFICES ASSUME NEW p \in places PROVE Seedings[rounds][2 * p] >= 2^(rounds - 1)
    OBVIOUS
  <2>1. Seedings[rounds][2 * p] = 2^rounds - 1 - Seedings[rounds - 1][p]
    BY <1>1, SeedsOfPair
  <2>2. Seedings[rounds - 1][p] \in 0..(2^(rounds - 1) - 1)
    BY <1>1, SeedsHavePlaces DEF SeedsAreSet
  <2> QED
    BY <1>5, <2>1, <2>2
<1> HIDE DEF places, free
<1>8. \A p \in byes : FirstRound(n, p)[1] \in 0..(free - 1)
  BY <1>2, <1>3, <1>6
<1>9. ASSUME NEW i \in 0..(free - 1)
      PROVE  \E p \in byes : FirstRound(n, p)[1] = i
  <2>1. i \in 0..(n - 1)
    BY <1>6
  <2>2. PICK p \in places, s \in {1, 2} : FirstRound(n, p)[s] = i
    BY <1>4, <2>1
  <2>3. s = 1
    <3> SUFFICES ASSUME s = 2 PROVE FALSE
      OBVIOUS
    <3>1. FirstRound(n, p)[2] = i /\ i # Nobody
      BY <2>2 DEF Nobody
    <3> QED
      BY <1>3, <1>5, <1>6, <1>7, <3>1
  <2> QED
    BY <1>2, <1>6, <2>2, <2>3
<1> DEFINE f == [p \in byes |-> FirstRound(n, p)[1]]
<1>10. f \in Bijection(byes, 0..(free - 1))
  <2>1. ASSUME NEW p \in byes, NEW q \in byes, FirstRound(n, p)[1] = FirstRound(n, q)[1]
        PROVE  p = q
    <3>1. FirstRound(n, p)[1] # Nobody
      BY <1>3 DEF Nobody
    <3> QED
      BY <1>4, <2>1, <3>1
  <2> HIDE DEF byes
  <2>2. f \in [byes -> 0..(free - 1)]
    BY <1>8
  <2>3. f \in Injection(byes, 0..(free - 1))
    BY <2>1, <2>2 DEF Injection, IsInjective
  <2>4. f \in Surjection(byes, 0..(free - 1))
    BY <1>9, <2>2 DEF Surjection
  <2> QED
    BY <2>3, <2>4 DEF Bijection
<1>11. IsFiniteSet(byes)
  <2>1. IsFiniteSet(places)
    BY <1>5, FS_Interval DEF places
  <2> QED
    BY <2>1, FS_Subset
<1>12. Cardinality(byes) = free
  <2> HIDE DEF byes, f
  <2>1. Cardinality(0..(free - 1)) = Cardinality(byes)
    BY <1>10, <1>11, FS_Bijection DEF ExistsBijection
  <2>2. Cardinality(0..(free - 1)) = free
    BY <1>6, FS_Interval
  <2> QED
    BY <2>1, <2>2
<1> QED
  BY <1>6, <1>8, <1>9, <1>11, <1>12 DEF rounds, places, free

(* The best of those whose seats are taken in order have the first seats.  *)
BestOf(seated, k) == {c \in seated : Cardinality({d \in seated : d < c}) < k}

Rising(f, n) ==
  /\ \A i \in 0..(n - 1) : f[i] \in Int
  /\ \A i, j \in 0..(n - 1) : i < j => f[i] < f[j]

SeatsOf(f, n) == {f[i] : i \in 0..(n - 1)}

FirstSeats(f, n, k) == {f[i] : i \in {j \in 0..(n - 1) : j < k}}

LEMMA BestHaveFirstSeats ==
  ASSUME NEW n \in Nat, NEW f, Rising(f, n), NEW k \in Nat
  PROVE  /\ IsFiniteSet(SeatsOf(f, n)) /\ Cardinality(SeatsOf(f, n)) = n
         /\ BestOf(SeatsOf(f, n), k) = FirstSeats(f, n, k)
<1> DEFINE seated == {f[i] : i \in 0..(n - 1)}
           upTo(i) == {f[j] : j \in 0..(i - 1)}
<1>0. /\ \A i \in 0..(n - 1) : f[i] \in Int
      /\ \A i, j \in 0..(n - 1) : i < j => f[i] < f[j]
  BY DEF Rising
<1>1. ASSUME NEW i \in 0..n
      PROVE  IsFiniteSet(upTo(i)) /\ Cardinality(upTo(i)) = i
  <2> DEFINE g == [j \in 0..(i - 1) |-> f[j]]
  <2>1. g \in Bijection(0..(i - 1), upTo(i))
    <3>1. g \in [0..(i - 1) -> upTo(i)]
      OBVIOUS
    <3>2. \A a, b \in 0..(i - 1) : g[a] = g[b] => a = b
      <4> SUFFICES ASSUME NEW a \in 0..(i - 1), NEW b \in 0..(i - 1), f[a] = f[b] PROVE a = b
        OBVIOUS
      <4>1. a \in 0..(n - 1) /\ b \in 0..(n - 1)
        OBVIOUS
      <4>2. ~(f[a] < f[b]) /\ ~(f[b] < f[a])
        BY <1>0, <4>1
      <4> QED
        BY <1>0, <4>1, <4>2
    <3>3. \A c \in upTo(i) : \E j \in 0..(i - 1) : g[j] = c
      OBVIOUS
    <3> HIDE DEF g, upTo
    <3> QED
      BY <3>1, <3>2, <3>3 DEF Bijection, Injection, IsInjective, Surjection
  <2>2. IsFiniteSet(0..(i - 1)) /\ Cardinality(0..(i - 1)) = i
    BY FS_Interval
  <2> HIDE DEF g, upTo
  <2> QED
    BY <2>1, <2>2, FS_Bijection DEF ExistsBijection
<1>2. \A i \in 0..(n - 1) : {d \in seated : d < f[i]} = upTo(i)
  <2> SUFFICES ASSUME NEW i \in 0..(n - 1) PROVE {d \in seated : d < f[i]} = upTo(i)
    OBVIOUS
  <2>1. ASSUME NEW j \in 0..(n - 1) PROVE f[j] < f[i] <=> j < i
    <3>1. f[i] \in Int /\ f[j] \in Int
      BY <1>0
    <3>2. CASE j < i
      BY <1>0, <3>2
    <3>3. CASE j = i
      BY <3>1, <3>3
    <3>4. CASE i < j
      <4>1. f[i] < f[j]
        BY <1>0, <3>4
      <4> QED
        BY <3>1, <3>4, <4>1
    <3> QED
      BY <3>2, <3>3, <3>4
  <2>2. \A d \in seated : d < f[i] => d \in upTo(i)
    BY <2>1
  <2>3. \A d \in upTo(i) : d \in seated /\ d < f[i]
    BY <2>1
  <2> QED
    BY <2>2, <2>3
<1>3. \A i \in 0..(n - 1) : Cardinality({d \in seated : d < f[i]}) = i
  <2> HIDE DEF seated, upTo
  <2> SUFFICES ASSUME NEW i \in 0..(n - 1) PROVE Cardinality({d \in seated : d < f[i]}) = i
    OBVIOUS
  <2>1. i \in 0..n
    OBVIOUS
  <2>2. Cardinality(upTo(i)) = i
    BY <1>1, <2>1
  <2>3. {d \in seated : d < f[i]} = upTo(i)
    BY <1>2
  <2> QED
    BY <2>2, <2>3
<1>4. IsFiniteSet(seated) /\ Cardinality(seated) = n
  <2>1. n \in 0..n /\ upTo(n) = seated
    OBVIOUS
  <2> HIDE DEF upTo, seated
  <2> QED
    BY <1>1, <2>1
<1>5. {c \in seated : Cardinality({d \in seated : d < c}) < k} = {f[i] : i \in {j \in 0..(n - 1) : j < k}}
  <2> DEFINE below(c) == Cardinality({d \in seated : d < c})
  <2>1. \A i \in 0..(n - 1) : below(f[i]) = i
    BY <1>3
  <2> HIDE DEF below
  <2>2. \A c \in seated : below(c) < k <=> \E i \in {j \in 0..(n - 1) : j < k} : c = f[i]
    <3> SUFFICES ASSUME NEW i \in 0..(n - 1)
                 PROVE  below(f[i]) < k <=> \E l \in {j \in 0..(n - 1) : j < k} : f[i] = f[l]
      OBVIOUS
    <3>1. below(f[i]) = i
      BY <2>1
    <3>2. ASSUME NEW l \in {j \in 0..(n - 1) : j < k}, f[i] = f[l] PROVE i < k
      BY <2>1, <3>1, <3>2
    <3> QED
      BY <3>1, <3>2
  <2>3. {c \in seated : below(c) < k} = {f[i] : i \in {j \in 0..(n - 1) : j < k}}
    BY <2>2
  <2> QED
    BY <2>3 DEF below
<1> QED
  BY <1>4, <1>5 DEF BestOf, SeatsOf, FirstSeats

(* A group of the stage, in terms of its seats.                            *)
LEMMA GroupOfStage ==
  ASSUME count \in Nat, NEW phase, NEW groups, NEW size, NEW seats, StageOf(phase, groups, size, seats),
         NEW g \in groups
  PROVE  LET n == size[g]
             places == 1..2^(TotalRoundsFor(n) - 1)
             ofGroup == {m \in Stage : m.group = g}
             first == {m \in ofGroup : m.round = 1}
         IN  /\ n \in Nat /\ n > 1
             /\ \A i \in 0..(n - 1) : seats[g][i] \in 0..(count - 1)
             /\ \A i, j \in 0..(n - 1) : i < j => seats[g][i] < seats[g][j]
             /\ Entered(g) = {seats[g][i] : i \in 0..(n - 1)}
             /\ {m.round : m \in ofGroup} = 1..TotalRoundsFor(n)
             /\ \A m \in first :
                  /\ m.position \in places /\ m = MatchId(phase, g, 1, m.position)
                  /\ Opponents(m) = {seats[g][FirstRound(n, m.position)[s]] :
                                        s \in {t \in {1, 2} : FirstRound(n, m.position)[t] # Nobody}}
             /\ \A p \in places : MatchId(phase, g, 1, p) \in first
<1> DEFINE n == size[g]
           rounds == TotalRoundsFor(n)
           places == 1..2^(rounds - 1)
           ofGroup == {m \in Stage : m.group = g}
           first == {m \in ofGroup : m.round = 1}
           draw == Elimination(n, phase, g)
<1>1. /\ \A h \in groups : size[h] \in Nat /\ size[h] > 1
      /\ \A m : m \in Stage <=> \E h \in groups : m \in DOMAIN Elimination(size[h], phase, h)
      /\ \A m \in DOMAIN draw, s \in {1, 2} :
           matches[m][s] = IF draw[m][s] = Nobody THEN Nobody ELSE seats[g][draw[m][s]]
      /\ \A i \in 0..(n - 1) : seats[g][i] \in 0..(count - 1)
      /\ \A i, j \in 0..(n - 1) : i < j => seats[g][i] < seats[g][j]
      /\ \A m \in DOMAIN matches : m.group = g => m \in Stage
  BY DEF StageOf
<1>2. n \in Nat /\ n > 1
  BY <1>1
<1>3. \A h \in groups : \A m \in DOMAIN Elimination(size[h], phase, h) : m.group = h
  <2> SUFFICES ASSUME NEW h \in groups, NEW m \in DOMAIN Elimination(size[h], phase, h) PROVE m.group = h
    OBVIOUS
  <2> DEFINE k == size[h]
  <2>1. k \in Nat /\ k > 1
    BY <1>1
  <2> HIDE DEF k
  <2> QED
    BY <2>1, NextInBracket DEF k
<1>4. ofGroup = DOMAIN draw
  <2> DEFINE bracket(h) == DOMAIN Elimination(size[h], phase, h)
  <2>1. /\ \A m : m \in Stage <=> \E h \in groups : m \in bracket(h)
        /\ \A h \in groups : \A m \in bracket(h) : m.group = h
        /\ bracket(g) = DOMAIN draw
    BY <1>1, <1>3
  <2> HIDE DEF bracket, draw
  <2> QED
    BY <2>1
<1> HIDE DEF n, ofGroup, draw
<1>5. rounds \in Nat /\ rounds >= 1
  BY <1>2, RoundsOfBracket
<1>6. /\ \A m : m \in DOMAIN draw <=>
           \E round \in 1..rounds : \E position \in 1..2^(rounds - round) :
             m = MatchId(phase, g, round, position)
      /\ \A m \in DOMAIN draw : m.round = 1 =>
           m.position \in places /\ draw[m] = FirstRound(n, m.position)
  BY <1>2, EliminationSlots DEF draw
<1>7. \A m \in DOMAIN draw : m.round \in 1..rounds /\ m = MatchId(phase, g, m.round, m.position)
  <2> SUFFICES ASSUME NEW m \in DOMAIN draw
               PROVE  m.round \in 1..rounds /\ m = MatchId(phase, g, m.round, m.position)
    OBVIOUS
  <2>1. m \in DOMAIN Elimination(n, phase, g)
    BY DEF draw
  <2> QED
    BY <1>2, <2>1, NextInBracket
<1> HIDE DEF places, rounds
<1>8. \A m \in DOMAIN draw, s \in {1, 2} : draw[m][s] # Nobody => draw[m][s] \in 0..(n - 1)
  BY <1>2, DrawnFrom DEF draw
<1>9. \A p \in places : MatchId(phase, g, 1, p) \in first /\ MatchId(phase, g, 1, p).position = p
  <2> SUFFICES ASSUME NEW p \in places
               PROVE  MatchId(phase, g, 1, p) \in first /\ MatchId(phase, g, 1, p).position = p
    OBVIOUS
  <2>1. 1 \in 1..rounds /\ MatchId(phase, g, 1, p).round = 1 /\ MatchId(phase, g, 1, p).position = p
    BY <1>5 DEF MatchId
  <2> QED
    BY <1>4, <1>6, <2>1 DEF places
<1>10. \A m \in DOMAIN draw :
         Opponents(m) = {seats[g][draw[m][s]] : s \in {t \in {1, 2} : draw[m][t] # Nobody}}
  <2> SUFFICES ASSUME NEW m \in DOMAIN draw
               PROVE  Opponents(m) = {seats[g][draw[m][s]] : s \in {t \in {1, 2} : draw[m][t] # Nobody}}
    OBVIOUS
  <2>1. \A s \in {1, 2} : draw[m][s] # Nobody => seats[g][draw[m][s]] # Nobody
    BY <1>1, <1>8 DEF Nobody
  <2>2. Opponents(m) = {matches[m][s] : s \in {1, 2}} \ {Nobody}
    BY DEF Opponents
  <2>3. \A s \in {1, 2} : matches[m][s] = IF draw[m][s] = Nobody THEN Nobody ELSE seats[g][draw[m][s]]
    BY <1>1
  <2> QED
    BY <2>1, <2>2, <2>3
<1>11. \A m \in first :
         /\ m.position \in places /\ m = MatchId(phase, g, 1, m.position)
         /\ Opponents(m) = {seats[g][FirstRound(n, m.position)[s]] :
                               s \in {t \in {1, 2} : FirstRound(n, m.position)[t] # Nobody}}
  <2> SUFFICES ASSUME NEW m \in first
               PROVE  /\ m.position \in places /\ m = MatchId(phase, g, 1, m.position)
                      /\ Opponents(m) = {seats[g][FirstRound(n, m.position)[s]] :
                                            s \in {t \in {1, 2} : FirstRound(n, m.position)[t] # Nobody}}
    OBVIOUS
  <2>1. m \in DOMAIN draw /\ m.round = 1
    BY <1>4
  <2>2. m.position \in places /\ draw[m] = FirstRound(n, m.position) /\ m = MatchId(phase, g, 1, m.position)
    BY <1>6, <1>7, <2>1
  <2> HIDE DEF first
  <2> QED
    BY <1>10, <2>1, <2>2
<1>12. Entered(g) = {seats[g][i] : i \in 0..(n - 1)}
  <2>1. ASSUME NEW c \in Entered(g)
        PROVE  \E i \in 0..(n - 1) : c = seats[g][i]
    <3>1. PICK m \in DOMAIN draw : c \in Opponents(m)
      BY <1>1, <1>4 DEF Entered, Of, ofGroup
    <3>2. PICK s \in {1, 2} : draw[m][s] # Nobody /\ c = seats[g][draw[m][s]]
      BY <1>10, <3>1
    <3> QED
      BY <1>8, <3>1, <3>2
  <2>2. ASSUME NEW i \in 0..(n - 1)
        PROVE  seats[g][i] \in Entered(g)
    <3>1. PICK p \in places, s \in {1, 2} : FirstRound(n, p)[s] = i
      BY <1>2, FirstRoundOnce DEF places, rounds
    <3>2. i # Nobody
      BY DEF Nobody
    <3> DEFINE m == MatchId(phase, g, 1, p)
    <3>3. m \in first /\ m.position = p
      BY <1>9
    <3>4. m \in ofGroup
      BY <3>3
    <3> HIDE DEF m
    <3>5. seats[g][i] \in Opponents(m)
      BY <1>11, <3>1, <3>2, <3>3
    <3>6. m \in DOMAIN matches /\ m.group = g
      BY <3>4 DEF ofGroup, Stage
    <3> QED
      BY <3>5, <3>6 DEF Entered, Of
  <2> QED
    BY <2>1, <2>2
<1>13. {m.round : m \in ofGroup} = 1..rounds
  <2>1. \A m \in ofGroup : m.round \in 1..rounds
    BY <1>4, <1>7
  <2>2. ASSUME NEW round \in 1..rounds
        PROVE  \E m \in ofGroup : m.round = round
    <3>1. 1 \in 1..2^(rounds - round)
      <4>1. rounds - round \in Nat
        BY <1>5
      <4>2. 2^(rounds - round) \in Nat /\ 2^(rounds - round) >= 1
        BY <4>1, PowersOfTwo, SmallPowers
      <4> QED
        BY <4>2
    <3>2. MatchId(phase, g, round, 1) \in ofGroup /\ MatchId(phase, g, round, 1).round = round
      BY <1>4, <1>6, <3>1 DEF MatchId
    <3> QED
      BY <3>2
  <2> QED
    BY <2>1, <2>2
<1>14. /\ \A i \in 0..(n - 1) : seats[g][i] \in 0..(count - 1)
       /\ \A i, j \in 0..(n - 1) : i < j => seats[g][i] < seats[g][j]
  BY <1>1 DEF n
<1> QED
  BY <1>2, <1>9, <1>11, <1>12, <1>13, <1>14 DEF n, ofGroup, places, rounds

(* The match of the first round that somebody of the group is drawn into.  *)
LEMMA FirstMatchOf ==
  ASSUME count \in Nat, NEW phase, NEW groups, NEW size, NEW seats, StageOf(phase, groups, size, seats),
         NEW g \in groups, NEW i \in 0..(size[g] - 1)
  PROVE  LET first == {m \in Stage : m.group = g /\ m.round = 1}
             where(c) == (CHOOSE m \in first : c \in Opponents(m)).position
         IN  \E p \in 1..2^(TotalRoundsFor(size[g]) - 1), s \in {1, 2} :
               where(seats[g][i]) = p /\ FirstRound(size[g], p)[s] = i
<1> DEFINE n == size[g]
           places == 1..2^(TotalRoundsFor(n) - 1)
           first == {m \in Stage : m.group = g /\ m.round = 1}
           names(m) == {seats[g][FirstRound(n, m.position)[s]] :
                          s \in {t \in {1, 2} : FirstRound(n, m.position)[t] # Nobody}}
           chosen == CHOOSE m \in first : seats[g][i] \in Opponents(m)
<1>1. /\ n \in Nat /\ n > 1
      /\ \A j \in 0..(n - 1) : seats[g][j] \in 0..(count - 1)
      /\ \A j, k \in 0..(n - 1) : j < k => seats[g][j] < seats[g][k]
      /\ \A m \in first : m.position \in places /\ Opponents(m) = names(m)
      /\ \A p \in places : MatchId(phase, g, 1, p) \in first
  BY GroupOfStage
<1>2. i \in 0..(n - 1) /\ i # Nobody
  BY <1>1 DEF Nobody
<1> HIDE DEF n
<1>3. \A p \in places, s \in {1, 2} :
        FirstRound(n, p)[s] # Nobody => FirstRound(n, p)[s] \in 0..(n - 1)
  BY <1>1, FirstRoundSlots
<1>4. PICK p \in places, s \in {1, 2} : FirstRound(n, p)[s] = i
  BY <1>1, <1>2, FirstRoundOnce
<1> HIDE DEF places, first
<1>5. MatchId(phase, g, 1, p) \in first /\ MatchId(phase, g, 1, p).position = p
  BY <1>1 DEF MatchId
<1>6. seats[g][i] \in Opponents(MatchId(phase, g, 1, p))
  BY <1>1, <1>2, <1>4, <1>5
<1>7. chosen \in first /\ seats[g][i] \in Opponents(chosen)
  BY <1>5, <1>6
<1> HIDE DEF chosen
<1>8. PICK t \in {1, 2} : /\ FirstRound(n, chosen.position)[t] # Nobody
                          /\ seats[g][i] = seats[g][FirstRound(n, chosen.position)[t]]
  BY <1>1, <1>7
<1>9. FirstRound(n, chosen.position)[t] = i
  <2> DEFINE j == FirstRound(n, chosen.position)[t]
  <2>1. j \in 0..(n - 1) /\ seats[g][i] = seats[g][j]
    BY <1>1, <1>3, <1>7, <1>8
  <2> HIDE DEF j
  <2>2. ~(i < j) /\ ~(j < i)
    <3>1. seats[g][i] \in Int /\ seats[g][j] \in Int
      BY <1>1, <1>2, <2>1
    <3> QED
      BY <1>1, <1>2, <2>1, <3>1
  <2>3. i = j
    BY <1>2, <2>1, <2>2
  <2> QED
    BY <2>3 DEF j
<1>10. chosen.position \in places
  BY <1>1, <1>7
<1> QED
  BY <1>9, <1>10 DEF chosen, first, places, n

(* The byes of the group go to its best.                                   *)
ByesIn(g) == {m \in {l \in Stage : l.group = g /\ l.round = 1} : Cardinality(Opponents(m)) = 1}

LEMMA ByesOfGroup ==
  ASSUME count \in Nat, NEW phase, NEW groups, NEW size, NEW seats, StageOf(phase, groups, size, seats),
         NEW g \in groups
  PROVE  /\ Cardinality(ByesIn(g)) \in 0..(size[g] - 1)
         /\ UNION {Opponents(m) : m \in ByesIn(g)} = {seats[g][i] : i \in 0..(Cardinality(ByesIn(g)) - 1)}
<1> DEFINE n == size[g]
           rounds == TotalRoundsFor(n)
           places == 1..2^(rounds - 1)
           first == {m \in Stage : m.group = g /\ m.round = 1}
           byes == {m \in first : Cardinality(Opponents(m)) = 1}
           alone == {p \in places : FirstRound(n, p)[2] = Nobody}
           free == 2^rounds - n
           match(p) == MatchId(phase, g, 1, p)
<1>1. /\ n \in Nat /\ n > 1
      /\ \A i \in 0..(n - 1) : seats[g][i] \in 0..(count - 1)
      /\ \A j, k \in 0..(n - 1) : j < k => seats[g][j] < seats[g][k]
      /\ \A m \in first :
           /\ m.position \in places /\ m = match(m.position)
           /\ Opponents(m) = {seats[g][FirstRound(n, m.position)[s]] :
                                s \in {t \in {1, 2} : FirstRound(n, m.position)[t] # Nobody}}
      /\ \A p \in places : match(p) \in first
  BY GroupOfStage
<1> HIDE DEF n, first
<1>2. \A p \in places :
        /\ FirstRound(n, p)[1] \in 0..(n - 1)
        /\ FirstRound(n, p)[2] # Nobody => FirstRound(n, p)[2] \in 0..(n - 1)
  BY <1>1, FirstRoundSlots
<1>3. \A p \in places : FirstRound(n, p)[1] # FirstRound(n, p)[2]
  <2>1. \A p, q \in places, s, t \in {1, 2} :
          FirstRound(n, p)[s] # Nobody /\ FirstRound(n, p)[s] = FirstRound(n, q)[t] => p = q /\ s = t
    BY <1>1, FirstRoundOnce
  <2>2. \A p \in places : FirstRound(n, p)[1] # Nobody
    BY <1>2 DEF Nobody
  <2> QED
    BY <2>1, <2>2
<1>4. /\ free \in 0..(n - 1) /\ IsFiniteSet(alone) /\ Cardinality(alone) = free
      /\ \A p \in alone : FirstRound(n, p)[1] \in 0..(free - 1)
      /\ \A i \in 0..(free - 1) : \E p \in alone : FirstRound(n, p)[1] = i
  BY <1>1, ByesToTheBest
<1>5. \A p \in places : match(p).position = p
  BY DEF MatchId
<1> HIDE DEF rounds, places, match, free
<1>6. ASSUME NEW p \in places
      PROVE  /\ FirstRound(n, p)[2] = Nobody =>
                  Opponents(match(p)) = {seats[g][FirstRound(n, p)[1]]} /\ Cardinality(Opponents(match(p))) = 1
             /\ FirstRound(n, p)[2] # Nobody => Cardinality(Opponents(match(p))) = 2
  <2> DEFINE c == FirstRound(n, p)[1]
             d == FirstRound(n, p)[2]
  <2>1. c \in 0..(n - 1) /\ c # Nobody /\ c # d /\ (d # Nobody => d \in 0..(n - 1))
    BY <1>2, <1>3 DEF Nobody
  <2>2. Opponents(match(p)) = {seats[g][FirstRound(n, p)[s]] : s \in {t \in {1, 2} : FirstRound(n, p)[t] # Nobody}}
    <3> DEFINE m == match(p)
    <3>1. m \in first /\ m.position = p
      BY <1>1, <1>5
    <3> HIDE DEF m
    <3>2. Opponents(m) = {seats[g][FirstRound(n, m.position)[s]] :
                             s \in {t \in {1, 2} : FirstRound(n, m.position)[t] # Nobody}}
      BY <1>1, <3>1
    <3> QED
      BY <3>1, <3>2 DEF m
  <2>3. ASSUME d = Nobody
        PROVE  Opponents(match(p)) = {seats[g][c]}
    BY <2>1, <2>2, <2>3
  <2>4. ASSUME d # Nobody
        PROVE  Opponents(match(p)) = {seats[g][c], seats[g][d]}
    <3>1. {t \in {1, 2} : FirstRound(n, p)[t] # Nobody} = {1, 2}
      BY <2>1, <2>4
    <3>2. Opponents(match(p)) = {seats[g][FirstRound(n, p)[s]] : s \in {1, 2}}
      BY <2>2, <3>1
    <3> DEFINE name(s) == seats[g][FirstRound(n, p)[s]]
    <3>3. Opponents(match(p)) = {name(s) : s \in {1, 2}}
      BY <3>2
    <3> HIDE DEF name
    <3>4. Opponents(match(p)) = {name(1), name(2)}
      BY <3>3
    <3> QED
      BY <3>4 DEF name
  <2> HIDE DEF c, d
  <2>5. ASSUME d # Nobody
        PROVE  seats[g][c] # seats[g][d]
    <3>1. d \in 0..(n - 1) /\ seats[g][c] \in Int /\ seats[g][d] \in Int /\ (c < d \/ d < c)
      BY <1>1, <2>1, <2>5
    <3> QED
      BY <1>1, <2>1, <3>1
  <2>6. d = Nobody => Opponents(match(p)) = {seats[g][c]} /\ Cardinality(Opponents(match(p))) = 1
    BY <2>3, FS_Singleton
  <2>7. d # Nobody => Cardinality(Opponents(match(p))) = 2
    <3> DEFINE a == seats[g][c]
               b == seats[g][d]
    <3>1. d # Nobody => a # b /\ Opponents(match(p)) = {a, b}
      BY <2>4, <2>5
    <3> HIDE DEF a, b
    <3>2. a # b => Cardinality({a, b}) = 2
      BY TwoElements
    <3> QED
      BY <3>1, <3>2
  <2> QED
    BY <2>6, <2>7 DEF c, d
<1>7. \A m \in first : m \in byes <=> m.position \in alone
  <2> SUFFICES ASSUME NEW m \in first PROVE m \in byes <=> m.position \in alone
    OBVIOUS
  <2> DEFINE p == m.position
  <2>1. p \in places /\ m = match(p)
    BY <1>1
  <2> HIDE DEF p
  <2>2. m \in byes <=> Cardinality(Opponents(match(p))) = 1
    BY <2>1
  <2>3. p \in alone <=> FirstRound(n, p)[2] = Nobody
    BY <2>1
  <2> HIDE DEF byes, alone
  <2>4. FirstRound(n, p)[2] = Nobody <=> Cardinality(Opponents(match(p))) = 1
    <3>1. /\ FirstRound(n, p)[2] = Nobody => Cardinality(Opponents(match(p))) = 1
          /\ FirstRound(n, p)[2] # Nobody => Cardinality(Opponents(match(p))) = 2
      BY <1>6, <2>1
    <3> DEFINE k == Cardinality(Opponents(match(p)))
    <3>2. k = 2 => k # 1
      OBVIOUS
    <3> HIDE DEF k
    <3> QED
      BY <3>1, <3>2 DEF k
  <2> QED
    BY <2>2, <2>3, <2>4 DEF p
<1>8. \A p \in alone : match(p) \in byes
  BY <1>1, <1>5, <1>7
<1> DEFINE f == [p \in alone |-> match(p)]
<1>9. f \in Bijection(alone, byes)
  <2>1. f \in [alone -> byes]
    BY <1>8
  <2>2. \A p, q \in alone : match(p) = match(q) => p = q
    BY <1>5
  <2>3. \A m \in byes : m.position \in alone /\ match(m.position) = m
    BY <1>1, <1>7
  <2> HIDE DEF alone, byes
  <2>4. f \in Injection(alone, byes)
    BY <2>1, <2>2 DEF Injection, IsInjective
  <2>5. f \in Surjection(alone, byes)
    BY <2>1, <2>3 DEF Surjection
  <2> QED
    BY <2>4, <2>5 DEF Bijection
<1>10. Cardinality(byes) = free
  <2> HIDE DEF f, alone, byes
  <2> QED
    BY <1>4, <1>9, FS_Bijection DEF ExistsBijection
<1>11. UNION {Opponents(m) : m \in byes} = {seats[g][i] : i \in 0..(free - 1)}
  <2>1. \A m \in byes : m.position \in alone /\ Opponents(m) = {seats[g][FirstRound(n, m.position)[1]]}
    BY <1>1, <1>6, <1>7
  <2>2. \A p \in alone : match(p) \in byes /\ Opponents(match(p)) = {seats[g][FirstRound(n, p)[1]]}
    BY <1>6, <1>8
  <2> HIDE DEF alone, byes
  <2>3. ASSUME NEW c \in UNION {Opponents(m) : m \in byes}
        PROVE  c \in {seats[g][i] : i \in 0..(free - 1)}
    BY <1>4, <2>1
  <2>4. ASSUME NEW i \in 0..(free - 1)
        PROVE  seats[g][i] \in UNION {Opponents(m) : m \in byes}
    <3>1. PICK p \in alone : FirstRound(n, p)[1] = i
      BY <1>4
    <3> QED
      BY <2>2, <3>1
  <2> QED
    BY <2>3, <2>4
<1> HIDE DEF byes
<1>12. Cardinality(byes) \in 0..(n - 1)
  BY <1>4, <1>10
<1> QED
  BY <1>10, <1>11, <1>12 DEF byes, first, n, ByesIn

LEMMA StageKeepsApart ==
  ASSUME count \in Nat, NEW phase, NEW groups, NEW size, NEW seats, StageOf(phase, groups, size, seats)
  PROVE  SeedsKeptApart
<1> SUFFICES ASSUME NEW g \in {m.group : m \in Stage}
             PROVE  LET first == {m \in Stage : m.group = g /\ m.round = 1}
                        best(k) == {c \in Entered(g) : Cardinality({d \in Entered(g) : d < c}) < k}
                        where(c) == (CHOOSE m \in first : c \in Opponents(m)).position
                        rounds == Sets!Max({m.round : m \in {l \in Stage : l.group = g}})
                    IN  /\ \A k \in 1..(rounds - 1) : \A c, d \in best(2^k) :
                             c # d => (where(c) - 1) \div 2^(rounds - k - 1)
                                        # (where(d) - 1) \div 2^(rounds - k - 1)
                        /\ LET byes == {m \in first : Cardinality(Opponents(m)) = 1}
                           IN  UNION {Opponents(m) : m \in byes} = best(Cardinality(byes))
  BY DEF SeedsKeptApart
<1> DEFINE n == size[g]
           total == TotalRoundsFor(n)
           first == {m \in Stage : m.group = g /\ m.round = 1}
           best(k) == {c \in Entered(g) : Cardinality({d \in Entered(g) : d < c}) < k}
           where(c) == (CHOOSE m \in first : c \in Opponents(m)).position
           rounds == Sets!Max({m.round : m \in {l \in Stage : l.group = g}})
           byes == {m \in first : Cardinality(Opponents(m)) = 1}
<1>1. g \in groups
  <2>1. PICK m \in Stage : m.group = g
    OBVIOUS
  <2>2. PICK h \in groups : m \in DOMAIN Elimination(size[h], phase, h) /\ size[h] \in Nat /\ size[h] > 1
    BY <2>1 DEF StageOf
  <2> DEFINE k == size[h]
  <2> HIDE DEF k
  <2>3. k \in Nat /\ k > 1 /\ m \in DOMAIN Elimination(k, phase, h)
    BY <2>2 DEF k
  <2>4. m.group = h
    BY <2>3, NextInBracket
  <2> QED
    BY <2>1, <2>4
<1>2. /\ n \in Nat /\ n > 1
      /\ \A i \in 0..(n - 1) : seats[g][i] \in 0..(count - 1)
      /\ \A i, j \in 0..(n - 1) : i < j => seats[g][i] < seats[g][j]
      /\ Entered(g) = {seats[g][i] : i \in 0..(n - 1)}
      /\ {m.round : m \in {l \in Stage : l.group = g}} = 1..total
  BY <1>1, GroupOfStage
<1>3. total \in Nat /\ total >= 1
  BY <1>2, RoundsOfBracket
<1>4. rounds = total
  <2>1. rounds = Sets!Max(1..total)
    BY <1>2
  <2> HIDE DEF total
  <2>2. total \in 1..total /\ \A r \in 1..total : total >= r
    BY <1>3
  <2>3. \A r \in 1..total : (\A k \in 1..total : r >= k) => r = total
    BY <1>3
  <2>4. Sets!Max(1..total) = CHOOSE r \in 1..total : \A k \in 1..total : r >= k
    BY DEF Sets!Max
  <2> QED
    BY <2>1, <2>2, <2>3, <2>4
<1>5. ASSUME NEW k \in Nat
      PROVE  best(k) = {seats[g][i] : i \in {j \in 0..(n - 1) : j < k}}
  <2> DEFINE f == seats[g]
  <2>1. Rising(f, n) /\ n \in Nat
    BY <1>2 DEF Rising
  <2>2. Entered(g) = SeatsOf(f, n)
    BY <1>2 DEF SeatsOf
  <2>3. best(k) = BestOf(Entered(g), k)
    BY DEF BestOf
  <2> HIDE DEF f, n, best
  <2>4. best(k) = FirstSeats(f, n, k)
    BY <2>1, <2>2, <2>3, BestHaveFirstSeats
  <2> QED
    BY <2>4 DEF f, FirstSeats
<1>6. \A i \in 0..(n - 1) : \E p \in 1..2^(total - 1), s \in {1, 2} :
        where(seats[g][i]) = p /\ FirstRound(n, p)[s] = i
  BY <1>1, FirstMatchOf
<1> DEFINE free == Cardinality(byes)
<1>9. free \in 0..(n - 1) /\ UNION {Opponents(m) : m \in byes} = {seats[g][i] : i \in 0..(free - 1)}
  <2>1. byes = ByesIn(g)
    BY DEF ByesIn
  <2> HIDE DEF byes
  <2>2. Cardinality(byes) \in 0..(size[g] - 1)
    BY <1>1, <2>1, ByesOfGroup
  <2>3. UNION {Opponents(m) : m \in byes} = {seats[g][i] : i \in 0..(Cardinality(byes) - 1)}
    BY <1>1, <2>1, ByesOfGroup
  <2> QED
    BY <2>2, <2>3
<1> HIDE DEF n, best, where
<1>7. ASSUME NEW k \in 1..(total - 1), NEW c \in best(2^k), NEW d \in best(2^k), c # d
      PROVE  (where(c) - 1) \div 2^(total - k - 1) # (where(d) - 1) \div 2^(total - k - 1)
  <2>1. 2^k \in Nat
    BY <1>3, PowersOfTwo
  <2>2. PICK i \in {j \in 0..(n - 1) : j < 2^k} : c = seats[g][i]
    BY <1>5, <2>1
  <2>3. PICK j \in {l \in 0..(n - 1) : l < 2^k} : d = seats[g][j]
    BY <1>5, <2>1
  <2>4. PICK p \in 1..2^(total - 1), s \in {1, 2} : where(c) = p /\ FirstRound(n, p)[s] = i
    BY <1>6, <2>2
  <2>5. PICK q \in 1..2^(total - 1), t \in {1, 2} : where(d) = q /\ FirstRound(n, q)[t] = j
    BY <1>6, <2>3
  <2>6. i # j
    BY <1>7, <2>2, <2>3
  <2> DEFINE round == total - k
  <2>7. /\ k \in 0..(total - 1) /\ round \in 1..total /\ round + k <= total
        /\ i \in 0..(2^k - 1) /\ j \in 0..(2^k - 1)
    BY <1>3, <2>1, <2>2, <2>3
  <2>8. Reached(p, round) # Reached(q, round)
    <3> HIDE DEF round, total
    <3>1. \A a, b \in 1..2^(TotalRoundsFor(n) - 1), u, v \in {1, 2} :
            /\ FirstRound(n, a)[u] \in 0..(2^k - 1)
            /\ FirstRound(n, b)[v] \in 0..(2^k - 1)
            /\ Reached(a, round) = Reached(b, round)
            => FirstRound(n, a)[u] = FirstRound(n, b)[v]
      BY <1>2, <2>7, SeedsMeetLate DEF total
    <3> QED
      BY <2>4, <2>5, <2>6, <2>7, <3>1 DEF total
  <2>9. /\ Reached(p, round) = (where(c) - 1) \div 2^(total - k - 1) + 1
        /\ Reached(q, round) = (where(d) - 1) \div 2^(total - k - 1) + 1
    BY <2>4, <2>5 DEF Reached
  <2> QED
    BY <2>8, <2>9
<1>8. UNION {Opponents(m) : m \in byes} = best(Cardinality(byes))
  <2> HIDE DEF free, byes
  <2>1. best(free) = {seats[g][i] : i \in {j \in 0..(n - 1) : j < free}}
    BY <1>5, <1>9
  <2>2. {j \in 0..(n - 1) : j < free} = 0..(free - 1)
    BY <1>2, <1>9
  <2> QED
    BY <1>9, <2>1, <2>2 DEF free
<1> QED
  BY <1>4, <1>7, <1>8 DEF best, where

(* The sum over a set of numbers.                                          *)
LEMMA SumSetIs ==
  ASSUME NEW S \in SUBSET Nat, IsFiniteSet(S)
  PROVE  Sets!SumSet(S) = SumOf(Itself, S)
<1> DEFINE step(g, s) == IF s = {} THEN 0 ELSE (CHOOSE y \in s : TRUE) + g[s \ {CHOOSE y \in s : TRUE}]
           IsIter(g) == g = [s \in SUBSET S |-> step(g, s)]
           iter == CHOOSE g : IsIter(g)
           IsIt(g) == IsSum(Itself, S, g)
           it == CHOOSE g : IsIt(g)
<1>1. Sets!SumSet(S) = iter[S]
  BY DEF Sets!SumSet, Sets!FoldSet, Sets!MapThenFoldSet
<1>2. SumOf(Itself, S) = it[S]
  BY DEF SumOf
<1>3. \A g : \A s \in SUBSET S : step(g, s) = SumStep(Itself, g, s)
  <2> SUFFICES ASSUME NEW g, NEW s \in SUBSET S PROVE step(g, s) = SumStep(Itself, g, s)
    OBVIOUS
  <2> DEFINE x == CHOOSE y \in s : TRUE
  <2>1. s # {} => x \in s
    OBVIOUS
  <2>2. SumStep(Itself, g, s) = IF s = {} THEN 0 ELSE Itself[x] + g[s \ {x}]
    BY DEF SumStep
  <2>3. step(g, s) = IF s = {} THEN 0 ELSE x + g[s \ {x}]
    OBVIOUS
  <2> HIDE DEF x, step
  <2>4. s # {} => Itself[x] = x
    BY <2>1 DEF Itself
  <2> QED
    BY <2>2, <2>3, <2>4
<1>4. \A g : IsIter(g) <=> IsIt(g)
  <2> SUFFICES ASSUME NEW g PROVE IsIter(g) <=> IsIt(g)
    OBVIOUS
  <2> HIDE DEF step
  <2>1. [s \in SUBSET S |-> step(g, s)] = [s \in SUBSET S |-> SumStep(Itself, g, s)]
    BY <1>3
  <2> QED
    BY <2>1 DEF IsSum
<1>5. \E g : IsIt(g)
  BY SumExists
<1> HIDE DEF IsIter, IsIt
<1>6. IsIter(iter) /\ IsIt(it)
  BY <1>4, <1>5
<1>7. IsSum(Itself, S, iter) /\ IsSum(Itself, S, it)
  BY <1>4, <1>6 DEF IsIt
<1> HIDE DEF iter, it
<1>8. \A g : IsSum(Itself, S, g) => Recurs(Itself, S, g)
  BY DEF IsSum, Recurs
<1>9. iter[S] = it[S]
  <2>1. S \in SUBSET S
    OBVIOUS
  <2> QED
    BY <1>7, <1>8, <2>1, SumAgrees
<1> QED
  BY <1>1, <1>2, <1>9

(* Who enters a pool of a grand slam are the seeds the snake puts there.   *)
LEMMA PoolOfSeeds ==
  ASSUME \A phase, group, round, position : None # MatchId(phase, group, round, position),
         DrawingIInv, bracketType = "GRAND_SLAM", NEW g \in SlamPools
  PROVE  /\ PoolSize(count, g) \in Nat /\ PoolSize(count, g) > 1
         /\ Entered(g) = FirstSeeds(count, g, PoolSize(count, g))
         /\ Entered(g) \in SUBSET Nat
         /\ IsFiniteSet(Entered(g)) /\ Cardinality(Entered(g)) = PoolSize(count, g)
<1>1. PICK size, seats :
        /\ StageOf("POOL", SlamPools, size, seats)
        /\ \A h \in SlamPools :
             size[h] = PoolSize(count, h)
               /\ \A i \in 0..(size[h] - 1) : seats[h][i] = PoolMembers(count, h)[i + 1]
  BY PoolsAreStage
<1>2. count \in Nat
  BY DEF DrawingIInv
<1> DEFINE n == size[g]
           seat(i) == seats[g][i]
           seed(i) == SnakeSeed(count, g, i)
<1>3. /\ n \in Nat /\ n > 1
      /\ \A i \in 0..(n - 1) : seat(i) \in 0..(count - 1)
      /\ \A i, j \in 0..(n - 1) : i < j => seat(i) < seat(j)
      /\ Entered(g) = {seat(i) : i \in 0..(n - 1)}
  BY <1>1, <1>2, GroupOfStage
<1>4. n = PoolSize(count, g) /\ \A i \in 0..(n - 1) : seat(i) = PoolMembers(count, g)[i + 1]
  BY <1>1
<1>5. \A i \in 1..n : PoolMembers(count, g)[i] = seed(i)
  BY <1>2, <1>4, MembersAreSnake
<1> HIDE DEF n, seed
<1>6. Entered(g) = {seed(i) : i \in 1..n}
  <2> HIDE DEF seat
  <2>1. ASSUME NEW i \in 0..(n - 1) PROVE i + 1 \in 1..n /\ seat(i) = seed(i + 1)
    <3>1. i + 1 \in 1..n
      BY <1>3
    <3> QED
      BY <1>4, <1>5, <3>1
  <2>2. ASSUME NEW i \in 1..n PROVE i - 1 \in 0..(n - 1) /\ seat(i - 1) = seed(i)
    <3>1. i - 1 \in 0..(n - 1) /\ (i - 1) + 1 = i
      BY <1>3
    <3> QED
      BY <2>1, <3>1
  <2> QED
    BY <1>3, <2>1, <2>2
<1>7. Rising(seats[g], n)
  BY <1>3 DEF Rising
<1>8. IsFiniteSet(Entered(g)) /\ Cardinality(Entered(g)) = n
  <2>1. 0 \in Nat
    OBVIOUS
  <2>2. IsFiniteSet(SeatsOf(seats[g], n)) /\ Cardinality(SeatsOf(seats[g], n)) = n
    BY <1>3, <1>7, <2>1, BestHaveFirstSeats
  <2>3. SeatsOf(seats[g], n) = Entered(g)
    BY <1>3 DEF SeatsOf
  <2> QED
    BY <2>2, <2>3
<1>9. Entered(g) \in SUBSET Nat
  <2> HIDE DEF seat
  <2> QED
    BY <1>2, <1>3
<1> QED
  BY <1>3, <1>4, <1>6, <1>8, <1>9 DEF seed, FirstSeeds

(* The first of a pool is one of the best four, and the only one.          *)
LEMMA BestFourApart ==
  ASSUME NEW n \in Nat, NEW g \in SlamPools, PoolSize(n, g) >= 1
  PROVE  Cardinality(FirstSeeds(n, g, PoolSize(n, g)) \cap 0..3) = 1
<1> DEFINE size == PoolSize(n, g)
           seed(i) == SnakeSeed(n, g, i)
<1>1. size \in Nat
  BY PoolSizes
<1>2. \A i \in 1..size : seed(i) \in 4 * (i - 1) .. (4 * (i - 1) + 3)
  BY MembersAreSnake
<1>3. FirstSeeds(n, g, size) = {seed(i) : i \in 1..size}
  BY DEF FirstSeeds
<1> HIDE DEF seed
<1>4. 1 \in 1..size /\ seed(1) \in 0..3
  <2>1. 1 \in 1..size
    BY <1>1
  <2> QED
    BY <1>2, <2>1
<1>5. \A i \in 1..size : i # 1 => seed(i) \notin 0..3
  <2> SUFFICES ASSUME NEW i \in 1..size, i # 1 PROVE seed(i) \notin 0..3
    OBVIOUS
  <2>1. seed(i) \in 4 * (i - 1) .. (4 * (i - 1) + 3) /\ i > 1
    BY <1>1, <1>2
  <2> QED
    BY <1>1, <2>1
<1> HIDE DEF size
<1>6. FirstSeeds(n, g, size) \cap 0..3 = {seed(1)}
  BY <1>3, <1>4, <1>5
<1> QED
  BY <1>6, FS_Singleton DEF size

(* The pools are balanced.                                                 *)
LEMMA PoolsAreBalanced ==
  ASSUME \A phase, group, round, position : None # MatchId(phase, group, round, position), DrawingIInv
  PROVE  PoolsBalanced
<1> SUFFICES ASSUME bracketType = "GRAND_SLAM" PROVE PoolsBalanced
  BY DEF PoolsBalanced
<1> DEFINE size(g) == Cardinality(Entered(g))
<1>1. count \in Nat
  BY DEF DrawingIInv
<1>2. \A g \in SlamPools :
        /\ size(g) = PoolSize(count, g) /\ size(g) \in Nat /\ size(g) > 1
        /\ IsFiniteSet(Entered(g)) /\ Entered(g) \in SUBSET Nat
        /\ Entered(g) = FirstSeeds(count, g, PoolSize(count, g))
  BY PoolOfSeeds
<1>3. "A" \in SlamPools /\ "B" \in SlamPools /\ "C" \in SlamPools /\ "D" \in SlamPools
      /\ {"A", "B", "C", "D"} = SlamPools
  BY DEF SlamPools
<1> HIDE DEF size
<1>4. \A g \in SlamPools : Cardinality(Entered(g) \cap 0..3) = 1
  BY <1>1, <1>2, BestFourApart
<1>5. /\ size("A") >= size("B") /\ size("B") >= size("C") /\ size("C") >= size("D")
      /\ size("A") - size("D") <= 1
  <2>1. /\ \A g \in SlamPools : PoolSize(count, g) \in count \div 4 .. (count \div 4 + 1)
        /\ PoolSize(count, "A") >= PoolSize(count, "B")
        /\ PoolSize(count, "B") >= PoolSize(count, "C")
        /\ PoolSize(count, "C") >= PoolSize(count, "D")
    BY <1>1, PoolSizes
  <2> QED
    BY <1>1, <1>2, <1>3, <2>1
<1>6. ASSUME NEW g \in SlamPools, NEW h \in SlamPools, size(g) = size(h), size(g) % 2 = 0
      PROVE  Strength(g) = Strength(h)
  <2> DEFINE j == size(g) \div 2
  <2>1. j \in Nat /\ 2 * j = size(g) /\ 2 * j = size(h)
    BY <1>2, <1>6
  <2> HIDE DEF j
  <2>2. \A i \in {g, h} : Strength(i) = SumOf(Itself, FirstSeeds(count, i, 2 * j))
    <3> SUFFICES ASSUME NEW i \in {g, h} PROVE Strength(i) = SumOf(Itself, FirstSeeds(count, i, 2 * j))
      OBVIOUS
    <3>1. Entered(i) = FirstSeeds(count, i, 2 * j) /\ IsFiniteSet(Entered(i))
      BY <1>2, <2>1
    <3>2. Entered(i) \in SUBSET Nat
      BY <1>2
    <3> QED
      BY <3>1, <3>2, SumSetIs DEF Strength
  <2>3. SumOf(Itself, FirstSeeds(count, g, 2 * j)) = SumOf(Itself, FirstSeeds(count, h, 2 * j))
    <3>1. 2 * j <= PoolSize(count, g) /\ 2 * j <= PoolSize(count, h)
      BY <1>2, <2>1
    <3> QED
      BY <1>1, <2>1, <3>1, PairsAddUp
  <2> QED
    BY <2>2, <2>3
<1> QED
  BY <1>3, <1>4, <1>5, <1>6 DEF PoolsBalanced, size

(* The brackets keep their seeds apart.                                    *)
LEMMA SeedsAreApart ==
  ASSUME \A phase, group, round, position : None # MatchId(phase, group, round, position), DrawingIInv
  PROVE  SeedsKeptApart
<1>1. count \in Nat
  BY DEF DrawingIInv
<1>2. CASE bracketType \in {"SINGLE_REPECHAGE", "DOUBLE_REPECHAGE"}
  <2>1. PICK size, seats : StageOf("MAIN", {NoGroup}, size, seats)
    BY <1>2, MainIsStage
  <2> QED
    BY <1>1, <2>1, StageKeepsApart
<1>3. CASE bracketType = "GRAND_SLAM"
  <2>1. PICK size, seats : StageOf("POOL", SlamPools, size, seats)
    BY <1>3, PoolsAreStage
  <2> QED
    BY <1>1, <2>1, StageKeepsApart
<1>4. CASE IsRoundRobin
  BY <1>4 DEF SeedsKeptApart
<1> QED
  BY <1>2, <1>3, <1>4 DEF DrawingIInv, IsRoundRobin

(* Whatever the format and however many competitors there are: the best    *)
(* of a bracket, two, four and so on, cannot meet before its final, its    *)
(* semi-finals and so on, and the byes are theirs; of the pools of a grand *)
(* slam each has one of the best four, none has two competitors more than  *)
(* another, and two of the same even size have seeds of the same sum.      *)
THEOREM SeedsSpread ==
  ASSUME \A phase, group, round, position : None # MatchId(phase, group, round, position)
  PROVE  DrawingSpec => []SeedsAreSpread
<1>1. DrawingInit => DrawingIInv
  BY DrawingStarts
<1>2. DrawingIInv /\ [GenerateBrackets]_drawingVars => DrawingIInv'
  BY DrawingStays
<1>3. DrawingIInv => SeedsAreSpread
  BY SeedsAreApart, PoolsAreBalanced DEF SeedsAreSpread
<1> QED
  BY <1>1, <1>2, <1>3, PTL DEF DrawingSpec
=============================================================================
