------------------------------ MODULE Drawing ------------------------------
(***************************************************************************)
(* generateBrackets run again and again on a category that grows: what     *)
(* every draw has to be, whatever the number of competitors, and what the  *)
(* pages make of it.                                                       *)
(***************************************************************************)
EXTENDS BracketView, Advancement

Sets == INSTANCE FiniteSetsExt

CONSTANTS
  BracketTypes,   \* the formats drawn
  MaxCompetitors  \* bound: the largest category

ASSUME DrawingTypes ==
  /\ BracketTypes \subseteq {"ROUND_ROBIN", "POOLS", "SINGLE_REPECHAGE",
                             "DOUBLE_REPECHAGE", "GRAND_SLAM"}
  /\ MaxCompetitors \in Nat

VARIABLES
  bracketType,  \* Category.bracketType
  count,        \* the competitors of the category
  matches       \* what was generated

drawingVars == <<bracketType, count, matches>>

(* The sizes a generator accepts; a round robin and a single elimination   *)
(* are drawn for any number, the pools of other formats rely on it.        *)
Accepts(type, n) ==
  CASE type = "POOLS"            -> IsPoolsBracketSize(n)
    [] type = "GRAND_SLAM"       -> IsGrandSlamBracketSize(n)
    [] type = "DOUBLE_REPECHAGE" -> n >= 16
    [] OTHER                     -> n >= 2

Smallest(type) == CHOOSE n \in 2..16 :
                    Accepts(type, n) /\ \A k \in 2..(n - 1) : ~Accepts(type, k)

DrawingInit ==
  /\ bracketType \in BracketTypes
  /\ count = Smallest(bracketType)
  /\ matches = Draw(bracketType, count)

(* One more competitor, and the brackets generated again. *)
GenerateBrackets ==
  /\ count < MaxCompetitors
  /\ Accepts(bracketType, count + 1)
  /\ count' = count + 1
  /\ matches' = Draw(bracketType, count')
  /\ UNCHANGED bracketType

DrawingSpec == DrawingInit /\ [][GenerateBrackets]_drawingVars

-----------------------------------------------------------------------------
Opponents(m) == {matches[m][1], matches[m][2]} \ {Nobody}

Groups == {m.group : m \in DOMAIN matches}

Of(group) == {m \in DOMAIN matches : m.group = group}

Entered(group) == UNION {Opponents(m) : m \in Of(group)}

IsRoundRobin == bracketType \in {"ROUND_ROBIN", "POOLS"}

(* In a round robin and in each of the two pools everybody meets everybody *)
(* once; nobody is drawn into both pools, and the stage has as many        *)
(* matches as the scoreboard waits for.                                    *)
EveryPairMeetsOnce ==
  IsRoundRobin =>
    /\ \A group \in Groups, c, d \in 0..(count - 1) :
         c < d =>
           Cardinality({m \in Of(group) : Opponents(m) = {c, d}}) =
             IF {c, d} \subseteq Entered(group) THEN 1 ELSE 0
    /\ \A c \in 0..(count - 1) :
         Cardinality({group \in Groups : c \in Entered(group)}) = 1
    /\ bracketType = "POOLS" => Cardinality(DOMAIN matches) = ExpectedPoolMatchCount(count)

(* Nobody is drawn twice in a round: a round can be fought at once, and it *)
(* takes no more rounds than the circle has.                               *)
OneMatchPerRound ==
  IsRoundRobin =>
    \A m, n \in DOMAIN matches :
      m.group = n.group /\ m.round = n.round /\ m # n => Opponents(m) \cap Opponents(n) = {}

Stage == {m \in DOMAIN matches : m.phase \in {"MAIN", "POOL"}}

(* An elimination has one first match for everybody.  Who has no opponent  *)
(* there also waits in the second round, on the side the winner of that    *)
(* match would take, and nobody else is drawn beyond the first round.      *)
EveryoneEntersOnce ==
  ~IsRoundRobin =>
    /\ \A c \in 0..(count - 1) :
         Cardinality({m \in Stage : m.round = 1 /\ c \in Opponents(m)}) = 1
    /\ \A m \in Stage : m.round = 1 => Opponents(m) # {}
    /\ \A m \in Stage : \A side \in 1..2 :
         m.round > 1 =>
           matches[m][side] =
             IF m.round > 2 THEN Nobody
             ELSE LET feeder == MatchId(m.phase, m.group, 1, 2 * m.position - 2 + side)
                  IN  IF Cardinality(Opponents(feeder)) = 1 THEN CHOOSE c \in Opponents(feeder) : TRUE
                                                       ELSE Nobody

(* "Structurally seeded so the top seed survives to the final under a      *)
(* clean run": the two best of a bracket can only meet in its final, the   *)
(* best four not before the semi-finals and so on, and byes go to the best.*)
SeedsKeptApart ==
  ~IsRoundRobin =>
    \A group \in {m.group : m \in Stage} :
      LET first == {m \in Stage : m.group = group /\ m.round = 1}
          best(k) == {c \in Entered(group) :
                        Cardinality({d \in Entered(group) : d < c}) < k}
          where(c) == (CHOOSE m \in first : c \in Opponents(m)).position
          rounds == Sets!Max({m.round : m \in {n \in Stage : n.group = group}})
      IN  /\ \A k \in 1..(rounds - 1) : \A c, d \in best(2^k) :
               c # d => (where(c) - 1) \div 2^(rounds - k - 1)
                          # (where(d) - 1) \div 2^(rounds - k - 1)
          /\ LET byes == {m \in first : Cardinality(Opponents(m)) = 1}
             IN  UNION {Opponents(m) : m \in byes} = best(Cardinality(byes))

Strength(group) == Sets!SumSet(Entered(group))

(* The snake: the four top seeds are in four pools, the larger pools come  *)
(* first, and two pools of the same even size have seeds of the same sum.  *)
PoolsBalanced ==
  bracketType = "GRAND_SLAM" =>
    LET size(group) == Cardinality(Entered(group))
    IN  /\ \A group \in {"A", "B", "C", "D"} :
             Cardinality(Entered(group) \cap 0..3) = 1
        /\ size("A") >= size("B") /\ size("B") >= size("C") /\ size("C") >= size("D")
        /\ size("A") - size("D") <= 1
        /\ \A g, h \in {"A", "B", "C", "D"} :
             size(g) = size(h) /\ size(g) % 2 = 0 => Strength(g) = Strength(h)

-----------------------------------------------------------------------------
Names == [m \in DOMAIN matches |-> Opponents(m)]

(* The geometry of the page fits the draw: every match is on exactly one   *)
(* card, and no card covers another.                                       *)
EveryMatchHasItsCard ==
  ~IsRoundRobin =>
    \E cards \in {CardsOf(bracketType, matches, count, Names)} :
      /\ {card.match : card \in cards} = DOMAIN matches
      /\ Cardinality(cards) = Cardinality(DOMAIN matches)
      /\ \A card, other \in cards :
           card # other /\ card.canvas = other.canvas /\ card.column = other.column =>
             \/ card.centre - other.centre >= card.height
             \/ other.centre - card.centre >= card.height

Routes(of(_)) ==
  UNION {{[from |-> m, to |-> route.match, side |-> route.side] : route \in of(m)} : m \in DOMAIN matches}

(* The lines of the page, which it draws without asking, are the ways of   *)
(* advanceWinner: a line leads to where the winner goes, the upper of two  *)
(* to competitor1; and the card announced for the loser of a semi-final is *)
(* drawn at the bronze that this loser is sent to.                         *)
LinesFollowRoutes ==
  ~IsRoundRobin =>
    \E cards \in {CardsOf(bracketType, matches, count, Names)},
      ways \in {Routes(LAMBDA m : WinnerRoutes(bracketType, matches, m))} :
      LET centre(m) == (CHOOSE card \in cards : card.match = m).centre
      IN  /\ LinesOf(bracketType, count, Names) = {Line(w.from, w.to) : w \in ways}
          /\ \A w, v \in ways :
               w.to = v.to /\ centre(w.from) < centre(v.from) => w.side = 1 /\ v.side = 2
          /\ bracketType = "GRAND_SLAM" =>
               FeederLines = {Line(w.from, w.to) :
                 w \in {v \in Routes(LAMBDA m : LoserRoutes(bracketType, matches, m, count)) :
                          v.from.phase = "KNOCKOUT_SF"}}

(* The draw and the routes of advanceWinner fit each other: a slot waits   *)
(* for one winner or for losers, and losers who share a match find room.   *)
Rows(drawn) ==
  INSTANCE Draw WITH
    Matches <- drawn.matches, Competitors <- 0..(count - 1),
    Entrants <- drawn.entrants, Byes <- drawn.byes,
    WinnerTo <- drawn.winnerTo, WinnerSide <- drawn.winnerSide,
    LoserTo <- drawn.loserTo, LoserSide <- drawn.loserSide

RoutesFitTheDraw ==
  ~IsRoundRobin =>
    \E drawn \in {Generated(bracketType, matches, count)} :
      /\ Rows(drawn)!DrawTypes /\ Rows(drawn)!ByesAdvanced
      /\ Rows(drawn)!OneFeederPerSlot /\ Rows(drawn)!OneLoserPerSlot
      /\ Rows(drawn)!WinnersAwaited
      /\ EnteredOnce(drawn) /\ OneConsolation(drawn)

(* Whatever the format, a draw is complete: the pairs and the rounds of a  *)
(* round robin, the first matches and the byes of an elimination, and a    *)
(* slot for everybody who is sent on.                                      *)
DrawIsComplete ==
  /\ EveryPairMeetsOnce /\ OneMatchPerRound
  /\ EveryoneEntersOnce /\ RoutesFitTheDraw

(* Strong competitors are kept apart: in the bracket they were seeded in,  *)
(* and in a grand slam by the pools before it.                             *)
SeedsAreSpread == SeedsKeptApart /\ PoolsBalanced

(* The brackets page shows the draw: all its matches, and between them the *)
(* ways the scoreboard takes.                                              *)
PageShowsDraw == EveryMatchHasItsCard /\ LinesFollowRoutes
=============================================================================
