----------------------------- MODULE PoolStage -----------------------------
(***************************************************************************)
(* A POOLS category: the matches of two pools, the knock-out matches that  *)
(* the completion of the last pool match creates, and their fights.  The   *)
(* transaction of a pool match is modelled statement by statement as in    *)
(* module Scoreboard: it writes its own row, reads all pool matches, looks *)
(* for a knock-out and creates one.                                        *)
(*                                                                         *)
(* Knock-out rows are created without a mat and with rounds 99 and 100;    *)
(* here they go by their phase and position.                               *)
(***************************************************************************)
EXTENDS Ranking, Standings

CONSTANTS
  Handlers,   \* calls in flight at the same time
  Stages      \* the categories a behaviour starts from, one of them each

(* The bounds of a stage: the win methods its matches end with, which of   *)
(* its matches are still to be fought, and the calls that may overlap.     *)
ASSUME PoolStageTypes ==
  /\ None \notin Handlers /\ None \notin Int
  /\ IsFiniteSet(Handlers)
  /\ \A s \in Stages :
       /\ IsPoolsBracketSize(s.count)
       /\ s.winWays \subseteq WinMethods
       /\ s.lastRoundOnly \in BOOLEAN
       /\ s.handlers \subseteq Handlers

(* What generateBrackets writes.                                           *)
PoolsOf == [s \in Stages |-> Pools(s.count)]

Bronze4 == Placeholder("KNOCKOUT_BRONZE", NoGroup, 2)

IsKnockout(m) == m.phase # "POOL"

VARIABLES
  stage,
  row,        \* the committed rows; knock-out rows appear when they are created
  creations,  \* how many transactions have created a knock-out
  pc,         \* the next statement of a call
  call        \* its match and winner, and the knock-out it is to create

vars == <<stage, row, creations, pc, call>>

NoCall == [match |-> None, winner |-> None, winMethod |-> None, knockout |-> <<>>]

(* The pool matches outside the bound were won by the better seed.         *)
FoughtRow(pair) ==
  [ScheduledRow(pair) EXCEPT !.status = "COMPLETED", !.winMethod = "IPPON",
                             !.winner = IF pair[1] < pair[2] THEN pair[1] ELSE pair[2]]

InLastRound(matches, m) ==
  \A n \in matches : n.group = m.group => n.round <= m.round

Init ==
  /\ stage \in Stages
  /\ row = [m \in DOMAIN PoolsOf[stage] |->
              IF stage.lastRoundOnly /\ ~InLastRound(DOMAIN PoolsOf[stage], m)
              THEN FoughtRow(PoolsOf[stage][m]) ELSE ScheduledRow(PoolsOf[stage][m])]
  /\ creations = 0
  /\ pc = [h \in Handlers |-> "idle"]
  /\ call = [h \in Handlers |-> NoCall]

-----------------------------------------------------------------------------
InPool(r, group) == {m \in DOMAIN r : m.phase = "POOL" /\ m.group = group}

EntrantsOf(group) ==
  {row[m].competitor[side] : m \in InPool(row, group), side \in Sides}

(* The competitors of a pair that have not been seen before.               *)
Unseen(pair, seen) ==
  LET new(side) == pair[side] \notin {seen[i] : i \in DOMAIN seen}
  IN  CASE new(1) /\ new(2)   -> pair
        [] new(1) /\ ~new(2)  -> <<pair[1]>>
        [] ~new(1) /\ new(2)  -> <<pair[2]>>
        [] ~new(1) /\ ~new(2) -> <<>>

(* findMany has no ORDER BY, so a pool may be read in any order of its     *)
(* matches; who is level keeps the order of first appearance.  read[k] is  *)
(* what can have appeared after k matches.                                 *)
Appearances(group) ==
  LET size == Cardinality(EntrantsOf(group))
      read[k \in 0..size] ==
        IF k = 0 THEN {<<>>}
        ELSE {seen \o Unseen(row[m].competitor, seen) :
                seen \in read[k - 1], m \in InPool(row, group)}
  IN  {seen \in read[size] : Len(seen) = size}

Earlier(appearance, c, d) ==
  \E i, j \in DOMAIN appearance : i < j /\ appearance[i] = c /\ appearance[j] = d

(* From first to last: by rank, then in the order of appearance.           *)
Ordered(rank, appearance) ==
  LET before(c, d) == \/ rank[c] < rank[d]
                      \/ rank[c] = rank[d] /\ Earlier(appearance, c, d)
      place(c) == 1 + Cardinality({d \in DOMAIN rank : before(d, c)})
  IN  [i \in 1..Cardinality(DOMAIN rank) |-> CHOOSE c \in DOMAIN rank : place(c) = i]

(* standingsByPool: what the table of a pool can be in rows r.             *)
PoolTables(r, group) ==
  {Ordered(rank, appearance) :
     rank \in {Ranks(r, InPool(r, group), EntrantsOf(group))},
     appearance \in Appearances(group)}

TwoTeam == stage.count <= 8    \* knockoutFormatFor

KnockoutMatches ==
  {Final, Bronze4} \cup (IF TwoTeam THEN {} ELSE {Semifinal(1), Semifinal(2)})

(* Mutant of PairOf: the semi-finals are drawn within the pools.           *)
PairWithinPools(m, a, b) ==
  CASE m = Semifinal(1) -> <<a[1], a[2]>>
    [] m = Semifinal(2) -> <<b[1], b[2]>>
    [] TwoTeam          -> IF m = Final THEN <<a[1], a[2]>> ELSE <<b[1], b[2]>>
    [] OTHER            -> <<None, None>>

(* Mutant of PairOf: the bronze waits for losers of semi-finals even when  *)
(* there are none.                                                         *)
PairWithOpenBronze(m, a, b) ==
  CASE m = Semifinal(1)       -> <<a[1], b[2]>>
    [] m = Semifinal(2)       -> <<b[1], a[2]>>
    [] TwoTeam /\ m = Final   -> <<a[1], b[1]>>
    [] OTHER                  -> <<None, None>>

(* The pair of a knock-out match, from the tables of the pools.            *)
PairOf(m, a, b) ==
  CASE m = Semifinal(1) -> <<a[1], b[2]>>
    [] m = Semifinal(2) -> <<b[1], a[2]>>
    [] TwoTeam          -> IF m = Final THEN <<a[1], b[1]>> ELSE <<a[2], b[2]>>
    [] OTHER            -> <<None, None>>

KnockoutOf(a, b) == [m \in KnockoutMatches |-> ScheduledRow(PairOf(m, a, b))]

-----------------------------------------------------------------------------
(* startMatch, as one step. *)
StartMatch(m) ==
  /\ row[m].status = "SCHEDULED"
  /\ row' = [row EXCEPT ![m].status = "ACTIVE"]
  /\ UNCHANGED <<stage, creations, pc, call>>

ReadMatch(h, m) == pc[h] = "idle" /\ row[m].status = "ACTIVE"

EndMatch(h, m, winner, winMethod) ==
  /\ ReadMatch(h, m)
  /\ pc' = [pc EXCEPT ![h] = "write"]
  /\ call' = [call EXCEPT ![h] = [NoCall EXCEPT !.match = m, !.winner = winner,
                                                !.winMethod = winMethod]]
  /\ UNCHANGED <<stage, row, creations>>

Locked(m) == \E h \in Handlers : call[h].match = m /\ pc[h] \in {"count", "look", "commit"}

(* The rows as call h sees them: the committed ones and its own.           *)
View(h) ==
  LET m == call[h].match
  IN  [row EXCEPT ![m].status = "COMPLETED", ![m].winner = call[h].winner,
                  ![m].winMethod = call[h].winMethod]

WriteResult(h) ==
  /\ pc[h] = "write"
  /\ ~Locked(call[h].match)
  /\ pc' = [pc EXCEPT ![h] = IF IsKnockout(call[h].match) THEN "commit" ELSE "count"]
  /\ UNCHANGED <<stage, row, creations, call>>

(* Mutant of StageIsOver: the pool matches are read outside the            *)
(* transaction, which does not show its own write.                         *)
StageWasOver(r) ==
  \A n \in DOMAIN r : n.phase = "POOL" => row[n].status = "COMPLETED"

StageIsOver(r) ==
  \A n \in DOMAIN r : n.phase = "POOL" => r[n].status = "COMPLETED"

(* The pool matches are read once; the tables come from this reading.      *)
CountPoolMatches(h) ==
  /\ pc[h] = "count"
  /\ IF StageIsOver(View(h))
     THEN \E a \in PoolTables(View(h), "A"), b \in PoolTables(View(h), "B") :
            /\ pc' = [pc EXCEPT ![h] = "look"]
            /\ call' = [call EXCEPT ![h].knockout = KnockoutOf(a, b)]
     ELSE /\ pc' = [pc EXCEPT ![h] = "commit"]
          /\ UNCHANGED call
  /\ UNCHANGED <<stage, row, creations>>

(* Mutant of KnockoutExists: nobody looks for an earlier knock-out.        *)
NeverExists(r) == FALSE

KnockoutExists(r) == \E m \in DOMAIN r : IsKnockout(m)

LookForKnockout(h) ==
  /\ pc[h] = "look"
  /\ pc' = [pc EXCEPT ![h] = "commit"]
  /\ call' = [call EXCEPT ![h].knockout = IF KnockoutExists(row) THEN <<>> ELSE @]
  /\ UNCHANGED <<stage, row, creations>>

(* advanceWinnerInPools for a semi-final: the first takes side 1 of the    *)
(* final and of the bronze, the second side 2.                             *)
Advance(r, m) ==
  LET loser == Loser(r[m], r[m].winner)
      side == IF m.position = 1 THEN 1 ELSE 2
  IN  IF m.phase # "KNOCKOUT_SF" THEN r
      ELSE [r EXCEPT ![Final].competitor[side] = r[m].winner,
                     ![Bronze4].competitor[side] = IF loser = None THEN @ ELSE loser]

Commit(h) ==
  /\ pc[h] = "commit"
  /\ row' = [m \in DOMAIN call[h].knockout \cup DOMAIN row |->
               IF m \in DOMAIN call[h].knockout THEN call[h].knockout[m]
               ELSE Advance(View(h), call[h].match)[m]]
  /\ creations' = creations + (IF call[h].knockout = <<>> THEN 0 ELSE 1)
  /\ UNCHANGED stage
  /\ pc' = [pc EXCEPT ![h] = "idle"]
  /\ call' = [call EXCEPT ![h] = NoCall]

Rollback(h) ==
  /\ pc[h] # "idle"
  /\ pc' = [pc EXCEPT ![h] = "idle"]
  /\ call' = [call EXCEPT ![h] = NoCall]
  /\ UNCHANGED <<stage, row, creations>>

(* The mats call matches that can be fought, and the referee names one of  *)
(* the two that fought; startMatch and endMatch look at neither.           *)
Request(h) ==
  \E m \in DOMAIN row :
    \/ pc[h] = "idle" /\ ReadyRow(row[m]) /\ StartMatch(m)
    \/ \E side \in Sides, winMethod \in stage.winWays :
         EndMatch(h, m, row[m].competitor[side], winMethod)

Proceed(h) ==
  WriteResult(h) \/ CountPoolMatches(h) \/ LookForKnockout(h) \/ Commit(h)

Next == \E h \in stage.handlers : Request(h) \/ Proceed(h) \/ Rollback(h)

Spec == Init /\ [][Next]_vars

-----------------------------------------------------------------------------
Serial == Cardinality(stage.handlers) = 1

StageDone == \A m \in DOMAIN row : m.phase = "POOL" => row[m].status = "COMPLETED"

(* A call that is about to commit a knock-out, and one that completes a    *)
(* match which another call has completed since it read the match.         *)
Creates(h) == pc[h] = "commit" /\ call[h].knockout # <<>>

Repeats(h) == row[call[h].match].status = "COMPLETED"

(* Idempotency: however two calls overlap, at most one knock-out is        *)
(* created.  Of more calls, only one that repeats the completion of a      *)
(* match creates a knock-out next to another call or after it; three calls *)
(* that complete the last match of both pools twice do create two.         *)
KnockoutOnce ==
  /\ Cardinality(stage.handlers) <= 2 => creations <= 1
  /\ \A h \in Handlers :
       Creates(h) /\ (creations > 0 \/ \E g \in Handlers \ {h} : Creates(g)) => Repeats(h)

(* When every pool match is completed and every call has returned, the     *)
(* knock-out is there.                                                     *)
KnockoutIsCreated ==
  StageDone /\ (\A h \in Handlers : pc[h] = "idle") => KnockoutExists(row)

(* The first pair of the knock-out, A's competitor before B's.             *)
FirstOf(group) ==
  IF TwoTeam THEN row[Final].competitor[IF group = "A" THEN 1 ELSE 2]
             ELSE row[Semifinal(IF group = "A" THEN 1 ELSE 2)].competitor[1]

SecondOf(group) ==
  IF TwoTeam THEN row[Bronze4].competitor[IF group = "A" THEN 1 ELSE 2]
             ELSE row[Semifinal(IF group = "A" THEN 2 ELSE 1)].competitor[2]

MoreWins(group, c) ==
  LET entrants == EntrantsOf(group)
      wins == WinsIn(row, InPool(row, group), entrants)
  IN  {d \in entrants : wins[d] > wins[c]}

(* With one call at a time the knock-out is drawn from the tables as they  *)
(* stay: first and second of each pool are two competitors of that pool,   *)
(* nobody of it has won more often than the first and at most one more     *)
(* often than the second.                                                  *)
BestOfPoolsGoOn ==
  Serial /\ KnockoutExists(row) =>
    \A group \in {"A", "B"} :
      /\ {FirstOf(group), SecondOf(group)} \subseteq EntrantsOf(group)
      /\ FirstOf(group) # SecondOf(group)
      /\ MoreWins(group, FirstOf(group)) = {}
      /\ Cardinality(MoreWins(group, SecondOf(group))) <= 1

(* A tie the criteria cannot break is surfaced to the organizer: nobody is *)
(* sent on whose place in the pool is tied.                                *)
TiesAreSurfaced ==
  KnockoutExists(row) =>
    \A group \in {"A", "B"} :
      TiedWith(row, InPool(row, group), EntrantsOf(group), FirstOf(group)) = {}

Podium == PoolsPlaces(row, Final, Bronze4)

(* With one call at a time the category never gets stuck: once a call has  *)
(* returned, there is a match to start or to end until four different      *)
(* competitors are placed first to fourth.                                 *)
PodiumOrAMatchToFight ==
  Serial /\ (\A h \in Handlers : pc[h] = "idle") =>
    \/ \E m \in DOMAIN row : ReadyRow(row[m]) \/ row[m].status = "ACTIVE"
    \/ /\ PoolsComplete(row, Final, Bronze4)
       /\ {p.rank : p \in Podium} = 1..4
       /\ Cardinality({p.competitor : p \in Podium}) = 4
=============================================================================
