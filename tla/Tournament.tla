----------------------------- MODULE Tournament -----------------------------
(***************************************************************************)
(* A category from its draw to its podium: matches are called when both    *)
(* competitors are known, in any order the mats allow, and each is fought, *)
(* completed, advanced and routed as one operation of AtomicBracket (what  *)
(* module Scoreboard implements).  The draw comes from the generators      *)
(* (Brackets), the routes from advanceWinner (Advancement), the placings   *)
(* from the standings service (Standings), the cards from the page         *)
(* (BracketView).                                                          *)
(***************************************************************************)
EXTENDS Standings, Advancement, BracketView

Sums == INSTANCE Functions

CONSTANT Categories    \* the categories a behaviour starts from, one of them each

(* bracketType, competitors drawn, how many of them are not WITHDRAWN, and *)
(* the bound: the rounds won by the better seed, in a fixed order.         *)
ASSUME TournamentTypes ==
  \A c \in Categories :
    /\ c.bracketType \in {"SINGLE_REPECHAGE", "DOUBLE_REPECHAGE", "GRAND_SLAM"}
    /\ c.drawn \in Nat /\ c.registered \in 0..c.drawn
    /\ c.openingRounds \in Nat

(* The draw of each, and where its winners and losers go. *)
Drawn ==
  [c \in Categories |-> Generated(c.bracketType, Draw(c.bracketType, c.drawn), c.registered)]

-----------------------------------------------------------------------------
VARIABLES category, row

vars == <<category, row>>

Bracket(c, draw) ==
  INSTANCE AtomicBracket WITH
    Matches <- draw.matches, Competitors <- 0..(c.drawn - 1),
    Entrants <- draw.entrants, Byes <- draw.byes,
    WinnerTo <- draw.winnerTo, WinnerSide <- draw.winnerSide,
    LoserTo <- draw.loserTo, LoserSide <- draw.loserSide

(* The generated draws are draws as module Draw assumes them.              *)
ASSUME GeneratedDraws ==
  \A c \in Categories : \E draw \in {Drawn[c]} :
    /\ Bracket(c, draw)!DrawTypes
    /\ Bracket(c, draw)!OneFeederPerSlot
    /\ Bracket(c, draw)!ByesAdvanced

(* A draw from which nobody has been withdrawn: losers find a slot of their *)
(* own, everybody enters once and gets at most one second chance.          *)
FullDraw(c, draw) ==
  Bracket(c, draw)!OneLoserPerSlot /\ EnteredOnce(draw) /\ OneConsolation(draw)

FullDraws == \A c \in Categories : FullDraw(c, Drawn[c])

(* Nobody has been withdrawn from an elimination; the routes of a grand    *)
(* slam do not depend on it.  It then follows that the draw is full.       *)
WholeDraws ==
  \A c \in Categories :
    IF c.bracketType = "GRAND_SLAM" THEN IsGrandSlamBracketSize(c.drawn)
    ELSE c.registered = c.drawn /\ c.drawn > 1

Init ==
  \E c \in Categories : \E draw \in {Drawn[c]} :
    category = c /\ Bracket(c, draw)!Init

Ready == {m \in DOMAIN row : ReadyRow(row[m])}

IsOpening(m) == m.phase \in {"MAIN", "POOL"} /\ m.round <= category.openingRounds

Favourite(m) == IF row[m].competitor[1] < row[m].competitor[2] THEN 1 ELSE 2

(* The bound on the order of the matches: opening matches one by one.      *)
Called ==
  LET opening == {m \in Ready : IsOpening(m)}
  IN  IF opening = {} THEN Ready ELSE {CHOOSE m \in opening : TRUE}

(* A match is started and ends with a winning score for one side.          *)
Fight(c, draw, m, side) ==
  /\ category = c
  /\ ReadyRow(row[m])
  /\ IsOpening(m) => side = Favourite(m)
  /\ LET winner == row[m].competitor[side]
         target == draw.loserTo[m]
         loserSide == IF target # None /\ draw.loserSide[m] = ArrivalOrder
                      THEN FreeSide(row[target]) ELSE draw.loserSide[m]
     IN  row' = [n \in DOMAIN row |->
                   IF n \in {m, draw.winnerTo[m], target}
                   THEN Bracket(c, draw)!CompletedRow(m, winner, "IPPON", EmptyScores, loserSide, n)
                   ELSE row[n]]
  /\ UNCHANGED category

Next ==
  \E c \in Categories : \E draw \in {Drawn[c]}, m \in Called, side \in Sides :
    Fight(c, draw, m, side)

Spec == Init /\ [][Next]_vars

(* The mats go on calling matches while there is one to call.              *)
FairSpec == Spec /\ WF_vars(Next)

-----------------------------------------------------------------------------
Completed(m) == row[m].status = "COMPLETED"

Seats(m) == {row[m].competitor[side] : side \in Sides} \ {None}

Defeats(c) == {m \in DOMAIN row : Completed(m) /\ c \in Beaten(row, m)}

Places ==
  IF category.bracketType = "GRAND_SLAM"
  THEN GrandSlamPlaces(row) ELSE EliminationPlaces(row, category.registered)

FoughtBy(c) == {m \in DOMAIN row : Completed(m) /\ c \in Seats(m)}

(* getProfile: what the public profile of an athlete counts.  A bye is     *)
(* COMPLETED and has a winner.                                             *)
Profile(c) ==
  LET played == FoughtBy(c)
      won == {m \in played : row[m].winner = c}
  IN  [played |-> Cardinality(played), won |-> Cardinality(won),
       lost   |-> Cardinality({m \in played \ won : row[m].winner # None}),
       ippons |-> Cardinality({m \in won : row[m].winMethod = "IPPON"})]

(* Nobody is called to two mats at once: the matches that can be fought    *)
(* have no competitor in common.                                           *)
NeverCalledTwice ==
  \A m, n \in Ready : m # n => Seats(m) \cap Seats(n) = {}

(* Who loses has at most one second chance: nobody fights on after a       *)
(* second defeat, and nobody who lost before the rounds that feed the      *)
(* repechage fights again.                                                 *)
TwoDefeatsAreTheEnd ==
  \A m \in Ready : \A c \in Seats(m) :
    LET defeats == Defeats(c)
    IN  defeats # {} =>
          \E n \in defeats : defeats = {n} /\ Drawn[category].loserTo[n] # None

(* The rule the cross-half routing of a grand slam exists for: on the way  *)
(* to a bronze nobody is drawn against the same opponent twice.            *)
NoRematch ==
  category.bracketType = "GRAND_SLAM" =>
    LET pairs == {m \in DOMAIN row : Cardinality(Seats(m)) = 2}
    IN  Cardinality({Seats(m) : m \in pairs}) = Cardinality(pairs)

(* Nobody has two places, and a place once given is not taken back or      *)
(* given to somebody else when further matches are fought.                 *)
PlacesFit ==
  Cardinality({p.competitor : p \in Places}) = Cardinality(Places)

PlacesStay == [][PlacesFit' /\ Places \subseteq Places']_vars

(* The rounds before the final in the bracket as it was drawn.             *)
RoundsBeforeFinal(m, k) ==
  m.phase = "MAIN" /\ m.round = TotalRoundsFor(category.drawn) - k

(* Two distinct bronze medals: each loser of a quarter-final is given the  *)
(* repechage of its half as soon as the quarter-final is over.             *)
QuarterFinalLosersGoOn ==
  category.bracketType = "DOUBLE_REPECHAGE" => \A m \in DOMAIN row :
    RoundsBeforeFinal(m, 2) /\ Completed(m) =>
      \E half \in Halves :
        /\ half = IF m.position <= 2 THEN "TOP" ELSE "BOTTOM"
        /\ Beaten(row, m) \subseteq Seats(Repechage(half))

(* Every category gets its podium: one gold, one silver and two bronzes,   *)
(* whoever wins and in whatever order the matches are called.              *)
HasPodium ==
  LET places == Places
  IN  \A rank \in 1..3 :
        Cardinality({p \in places : p.rank = rank}) = IF rank = 3 THEN 2 ELSE 1

PodiumIsReached == <>HasPodium

(* A bracket with a single final is not reported as COMPLETE, and shown    *)
(* with its medals, before all four medals are fought for.                 *)
CompleteHasPodium ==
  category.bracketType # "GRAND_SLAM" /\ EliminationComplete(row, category.registered) =>
    HasPodium

(* The profiles of the athletes, counted from their matches, fit the places*)
(* of the standings, read off the final matches: the winner has lost no    *)
(* match, the medalists below one, everybody below a medal two, and nobody *)
(* who is placed has lost more; every win that is not a bye is an ippon    *)
(* here, and the loss of somebody else.                                    *)
ProfilesFitPlaces ==
  LET of == [c \in 0..(category.drawn - 1) |-> Profile(c)]
  IN  /\ \A p \in Places :
           of[p.competitor].lost = IF p.rank = 1 THEN 0 ELSE IF p.rank <= 3 THEN 1 ELSE 2
      /\ Sums!SumFunction([c \in DOMAIN of |-> of[c].ippons])
           = Sums!SumFunction([c \in DOMAIN of |-> of[c].lost])

(* The page finds medals and losers on its own, and agrees: the medals on  *)
(* the card of the final are those of the standings, and the loser of a    *)
(* semi-final is announced where advanceWinner has sent the loser.         *)
PageAgrees ==
  category.bracketType = "GRAND_SLAM" =>
    LET of(rank) == {p.competitor : p \in {q \in Places : q.rank = rank}}
    IN  /\ Medals(row, Final).gold = of(1) /\ Medals(row, Final).silver = of(2)
        /\ \A half \in Halves :
             Completed(FeederOf(half)) =>
               FeederName(row, half) = row[Bronze(half)].competitor[2]

(* Nobody is left waiting for an opponent: when no match can be called any *)
(* more, every card names two, or one whose first opponent is a bye.       *)
NobodyIsLeftWaiting ==
  Ready = {} =>
    \A m \in DOMAIN row : \A side \in Sides :
      /\ Label(row, m, side) # "TBD"
      /\ Label(row, m, side) = "BYE" => m.round = 1 /\ m.phase \in {"MAIN", "POOL"}

(* Whoever is called may fight: on one mat only, and not after a second    *)
(* defeat.                                                                 *)
CalledInTurn == NeverCalledTwice /\ TwoDefeatsAreTheEnd

(* What pages and profiles compute on their own from the matches agrees    *)
(* with the standings and with the ways of advanceWinner.                  *)
PagesAgree == PageAgrees /\ NobodyIsLeftWaiting /\ ProfilesFitPlaces
=============================================================================
