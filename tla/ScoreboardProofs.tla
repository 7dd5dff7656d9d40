-------------------------- MODULE ScoreboardProofs --------------------------
(***************************************************************************)
(* Proofs about Scoreboard for every draw, every number of overlapping     *)
(* calls and every order of their statements.                              *)
(***************************************************************************)
EXTENDS Scoreboard, TLAPS

-----------------------------------------------------------------------------
(* What the operators on rows and scores return. *)

(* The rows the generators write are rows. *)
LEMMA DrawnRowType ==
  ASSUME NEW m \in Matches
  PROVE  DrawnRow(m) \in Row
<1>1. EmptyScores \in [Sides -> Score]
  BY DEF EmptyScores, EmptyScore, Score
<1>2. Entrants[m] \in [Sides -> MaybeCompetitor]
  BY DrawTypes
<1>3. ByeWinner(m) \in MaybeCompetitor
  BY <1>2 DEF ByeWinner, Sides
<1>4. None \in MaybeCompetitor
  BY DEF MaybeCompetitor
<1> QED
  BY <1>1, <1>2, <1>3, <1>4 DEF DrawnRow, Row, Statuses, WinMethods

(* A score event on typed scores gives typed scores. *)
LEMMA ScoredType ==
  ASSUME NEW scores \in [Sides -> Score], NEW side \in Sides, NEW type
  PROVE  Scored(scores, side, type) \in [Sides -> Score]
<1>1. \A counted : Points(type, counted) \in Nat
  BY DEF Points
<1>2. scores[side] \in Score
  OBVIOUS
<1>3. [wazaAri |-> scores[side].wazaAri + Points(type, "WAZA_ARI"),
       yuko    |-> scores[side].yuko    + Points(type, "YUKO"),
       shido   |-> scores[side].shido   + Points(type, "SHIDO")] \in Score
  BY <1>1, <1>2 DEF Score
<1> QED
  BY <1>3 DEF Scored

(* An event that does not end the match leaves undecided scores undecided. *)
LEMMA ScoredUndecided ==
  ASSUME NEW scores \in [Sides -> Score], NEW side \in Sides, NEW type,
         Undecided(scores),
         ~Terminates(Scored(scores, side, type)[side], type)
  PROVE  Undecided(Scored(scores, side, type))
<1> DEFINE new == Scored(scores, side, type)
<1>1. new \in [Sides -> Score]
  BY ScoredType
<1>2. new[side].wazaAri < 2 /\ new[side].shido < 3
  <2>1. new[side] \in Score
    BY <1>1
  <2>2. new[side].wazaAri \in Nat /\ new[side].shido \in Nat
    BY <2>1 DEF Score
  <2> QED
    BY <2>2 DEF Terminates, EndsByIppon, EndsByHansokuMake
<1>3. \A other \in Sides : other # side => new[other] = scores[other]
  BY DEF Scored
<1> QED
  BY <1>2, <1>3 DEF Undecided

LEMMA EmptyScoresType == EmptyScores \in [Sides -> Score]
BY DEF EmptyScores, EmptyScore, Score

(* The column writes of start-match, golden score and a score event. *)
LEMMA ColumnWriteType ==
  ASSUME NEW row \in Row, NEW scores \in [Sides -> Score]
  PROVE  /\ [row EXCEPT !.status = "ACTIVE", !.scores = scores] \in Row
         /\ [row EXCEPT !.goldenScore = TRUE] \in Row
         /\ [row EXCEPT !.scores = scores] \in Row
BY DEF Row, Statuses

LEMMA LoserType ==
  ASSUME NEW row \in Row, NEW winner
  PROVE  Loser(row, winner) \in MaybeCompetitor
BY DEF Loser, Row, Sides

Lemmas == INSTANCE DrawLemmas

-----------------------------------------------------------------------------
(* Every write keeps a row a row *)

LEMMA CompletedType ==
  ASSUME NEW row \in Row, NEW c \in Call, c.winMethod \in WinMethods,
         NEW scores \in [Sides -> Score]
  PROVE  Completed(row, c, scores) \in Row
BY DEF Completed, Row, Call, Statuses

LEMMA SeatedType ==
  ASSUME NEW row \in Row, NEW side \in Sides, NEW c \in MaybeCompetitor
  PROVE  Seated(row, side, c) \in Row
BY DEF Seated, Row

LEMMA NoCallType == NoCall \in Call
BY EmptyScoresType DEF NoCall, Call, MaybeMatch, MaybeCompetitor, Sides

-----------------------------------------------------------------------------
(* Type correctness.  A call that is past its reading knows its match, and *)
(* one that completes a match knows the winner and the method.             *)

Completing == {"decide", "end", "winner", "loser", "place", "mat", "next",
               "swap", "commit"}

CallOK ==
  \A h \in Handlers :
    /\ pc[h] # "idle" => call[h].match \in Matches
    /\ pc[h] \in Completing =>
         call[h].winner \in Competitors /\ call[h].winMethod \in WinMethods
    /\ pc[h] = "place" => LoserTo[call[h].match] # None

Typing == TypeOK /\ CallOK

LEMMA InitTyping == Init => Typing
<1> SUFFICES ASSUME Init PROVE Typing
  OBVIOUS
<1>1. \A m \in Matches : DrawnRow(m) \in Row
  BY DrawnRowType
<1>2. TypeOK
  BY <1>1, NoCallType DEF Init, TypeOK, MaybeMatch, Points_of_call
<1>3. CallOK
  BY DEF Init, CallOK, Completing
<1> QED
  BY <1>2, <1>3 DEF Typing

(* A call that starts: only its own pc and call change. *)
LEMMA RequestTyping ==
  ASSUME Typing, NEW h \in Handlers, Request(h)
  PROVE  Typing'
<1> USE DEF Typing
<1>1. ASSUME NEW m \in Called, StartMatch(h, m) \/ EnableGoldenScore(h, m)
      PROVE  Typing'
  <2>1. m \in Matches
    BY QueueTypes
  <2>2. call' = [call EXCEPT ![h].match = m]
    BY <1>1 DEF StartMatch, EnableGoldenScore
  <2>3. call'[h] \in Call /\ call'[h].match = m
    BY <2>1, <2>2 DEF TypeOK, Call, MaybeMatch
  <2> QED
    BY <1>1, <2>1, <2>2, <2>3
    DEF StartMatch, EnableGoldenScore, Goto, TypeOK, CallOK, rows,
        Points_of_call, Completing
<1>2. ASSUME NEW m \in Called, NEW c \in Competitors, NEW type \in EventTypes,
             ScoreEvent(h, m, c, type)
      PROVE  Typing'
  <2>1. m \in Matches
    BY QueueTypes
  <2> DEFINE scores == Scored(db[m].scores, SideOf(db[m], c), type)
  <2>2. scores \in [Sides -> Score]
    <3>1. db[m].scores \in [Sides -> Score]
      BY <2>1 DEF TypeOK, Row
    <3>2. SideOf(db[m], c) \in Sides
      BY DEF SideOf, Sides
    <3> QED
      BY <3>1, <3>2, ScoredType
  <2>3. call' = [call EXCEPT ![h].match = m, ![h].scores = scores]
    BY <1>2 DEF ScoreEvent
  <2>4. call'[h] \in Call /\ call'[h].match = m
    BY <2>1, <2>2, <2>3 DEF TypeOK, Call, MaybeMatch
  <2> QED
    BY <1>2, <2>1, <2>3, <2>4
    DEF ScoreEvent, Goto, TypeOK, CallOK, rows, Points_of_call, Completing
<1>3. ASSUME NEW m \in Called, NEW c \in Competitors, NEW type \in EventTypes,
             DecidingEvent(h, m, c, type)
      PROVE  Typing'
  <2>1. m \in Matches
    BY QueueTypes
  <2> DEFINE side == SideOf(db[m], c)
             scores == Scored(db[m].scores, side, type)
             winner == db[m].competitor[WinningSide(side, scores[side], type)]
             winMethod == MethodOf(scores[side], type)
  <2>2. side \in Sides
    BY DEF SideOf, Sides
  <2>3. scores \in [Sides -> Score]
    <3>1. db[m].scores \in [Sides -> Score]
      BY <2>1 DEF TypeOK, Row
    <3> QED
      BY <3>1, <2>2, ScoredType
  <2>4. winner \in Competitors
    <3>1. WinningSide(side, scores[side], type) \in Sides
      BY <2>2 DEF WinningSide, Opponent, Sides
    <3>2. winner \in MaybeCompetitor
      BY <2>1, <3>1 DEF TypeOK, Row
    <3>3. winner # None
      BY <1>3 DEF DecidingEvent
    <3> QED
      BY <3>2, <3>3 DEF MaybeCompetitor
  <2>5. winMethod \in WinMethods
    BY DEF MethodOf, WinMethods
  <2>6. call' = [call EXCEPT ![h].match = m, ![h].scores = scores,
                             ![h].winner = winner, ![h].winMethod = winMethod]
    BY <1>3 DEF DecidingEvent
  <2> HIDE DEF side, scores, winner, winMethod
  <2>7. /\ call'[h] \in Call
        /\ call'[h].match = m
        /\ call'[h].winner = winner
        /\ call'[h].winMethod = winMethod
    BY <2>1, <2>3, <2>4, <2>5, <2>6 DEF TypeOK, Call, MaybeMatch, MaybeCompetitor
  <2>8. \A g \in Handlers : g # h => call'[g] = call[g]
    BY <2>6 DEF TypeOK
  <2> QED
    BY <1>3, <2>1, <2>4, <2>5, <2>6, <2>7, <2>8
    DEF DecidingEvent, Goto, TypeOK, CallOK, rows, Points_of_call, Completing
<1>4. ASSUME NEW m \in Called, NEW c \in Competitors, NEW winMethod \in EndMethods,
             EndMatch(h, m, c, winMethod)
      PROVE  Typing'
  <2>1. m \in Matches /\ winMethod \in WinMethods
    BY QueueTypes
  <2>2. /\ call'[h] \in Call
        /\ call'[h].match = m
        /\ call'[h].winner = c
        /\ call'[h].winMethod = winMethod
    BY <1>4, <2>1 DEF EndMatch, TypeOK, Call, MaybeMatch, MaybeCompetitor
  <2> QED
    BY <1>4, <2>1, <2>2
    DEF EndMatch, Goto, TypeOK, CallOK, rows, Points_of_call, Completing
<1>5. ASSUME NEW mat \in Mats, NEW m \in Called, AssignMatchToMat(h, mat, m)
      PROVE  Typing'
  BY <1>5, QueueTypes
  DEF AssignMatchToMat, TypeOK, CallOK, rows, MaybeMatch
<1> QED
  BY <1>1, <1>2, <1>3, <1>4, <1>5 DEF Request
(* Ranks are natural numbers, so a queue that is not empty has a head.     *)
LEMMA QueueHeadExists ==
  ASSUME NEW queue \in SUBSET Matches, queue # {}
  PROVE  First(queue) \in queue
<1> DEFINE ranks == {QueueRank[n] : n \in queue}
<1>1. ranks \subseteq Nat /\ ranks # {}
  BY QueueTypes
<1>2. \E r \in ranks : \A other \in ranks : r <= other
  <2> HIDE DEF ranks
  <2> QED
    BY <1>1, Lemmas!LeastNatural
<1>3. \E n \in queue : \A other \in queue : QueueRank[n] <= QueueRank[other]
  BY <1>2
<1> QED
  BY <1>3 DEF First

(* A call that returns, having committed or not. *)
LEMMA ReturnTyping ==
  ASSUME Typing, NEW h \in Handlers, Return(h)
  PROVE  /\ CallOK'
         /\ pc' \in [Handlers -> Points_of_call]
         /\ call' \in [Handlers -> Call]
BY NoCallType DEF Typing, TypeOK, CallOK, Return, Goto, Points_of_call, Completing

LEMMA FlushTyping ==
  ASSUME Typing, NEW h \in Handlers, Flush(h)
  PROVE  /\ db' \in [Matches -> Row]
         /\ work' \in [Matches -> Row]
         /\ lock' \in [Matches -> Handlers \cup {None}]
BY DEF Typing, TypeOK, Flush, View

LEMMA UpdateNowTyping ==
  ASSUME Typing, NEW m \in Matches, NEW new \in Row, UpdateNow(m, new)
  PROVE  /\ db' \in [Matches -> Row]
         /\ work' \in [Matches -> Row]
         /\ lock' \in [Matches -> Handlers \cup {None}]
BY DEF Typing, TypeOK, UpdateNow

LEMMA UpdateTyping ==
  ASSUME Typing, NEW h \in Handlers, NEW m \in Matches, NEW new \in Row,
         Update(h, m, new)
  PROVE  /\ db' \in [Matches -> Row]
         /\ work' \in [Matches -> Row]
         /\ lock' \in [Matches -> Handlers \cup {None}]
BY DEF Typing, TypeOK, Update

(* A call that goes on, or fails. *)
LEMMA ProceedTyping ==
  ASSUME Typing, NEW h \in Handlers, Proceed(h) \/ Rollback(h)
  PROVE  Typing'
<1> DEFINE m == call[h].match
<1>1. call[h] \in Call
  BY DEF Typing, TypeOK
<1>2. pc[h] # "idle" => m \in Matches /\ work[m] \in Row
  BY DEF Typing, TypeOK, CallOK
<1>3. CASE WriteStart(h)
  <2>1. m \in Matches
    BY <1>2, <1>3 DEF WriteStart
  <2>2. [work[m] EXCEPT !.status = "ACTIVE", !.scores = EmptyScores] \in Row
    BY <1>2, <1>3, ColumnWriteType, EmptyScoresType DEF WriteStart
  <2> QED
    BY <1>3, <2>1, <2>2, UpdateNowTyping, ReturnTyping
    DEF WriteStart, Typing, TypeOK
<1>4. CASE WriteGoldenScore(h)
  <2>1. m \in Matches
    BY <1>2, <1>4 DEF WriteGoldenScore
  <2>2. [work[m] EXCEPT !.goldenScore = TRUE] \in Row
    BY <1>2, <1>4, ColumnWriteType, EmptyScoresType DEF WriteGoldenScore
  <2> QED
    BY <1>4, <2>1, <2>2, UpdateNowTyping, ReturnTyping
    DEF WriteGoldenScore, Typing, TypeOK
<1>5. CASE WriteScores(h)
  <2>1. m \in Matches
    BY <1>2, <1>5 DEF WriteScores
  <2>2. [work[m] EXCEPT !.scores = call[h].scores] \in Row
    BY <1>1, <1>2, <1>5, ColumnWriteType DEF WriteScores, Call
  <2> QED
    BY <1>5, <2>1, <2>2, UpdateNowTyping, ReturnTyping
    DEF WriteScores, Typing, TypeOK
<1>6. CASE WriteResult(h)
  <2> DEFINE scores == IF pc[h] = "decide" THEN call[h].scores ELSE work[m].scores
             loser  == Loser(work[m], call[h].winner)
  <2>1. m \in Matches /\ work[m] \in Row
    BY <1>2, <1>6 DEF WriteResult
  <2>2. scores \in [Sides -> Score]
    BY <1>1, <2>1 DEF Call, Row
  <2>3. call[h].winMethod \in WinMethods /\ call[h].winner \in Competitors
    BY <1>6 DEF WriteResult, Typing, CallOK, Completing
  <2>4. Completed(work[m], call[h], scores) \in Row
    BY <1>1, <2>1, <2>2, <2>3, CompletedType
  <2>5. Update(h, m, Completed(work[m], call[h], scores))
    BY <1>6 DEF WriteResult
  <2>6. loser \in MaybeCompetitor
    BY <2>1, LoserType
  <2>7. call' = [call EXCEPT ![h].loser = loser] /\ Goto(h, "winner")
    BY <1>6 DEF WriteResult
  <2> HIDE DEF loser
  <2>8. /\ call' \in [Handlers -> Call]
        /\ call'[h].match = m
        /\ call'[h].winner = call[h].winner
        /\ call'[h].winMethod = call[h].winMethod
        /\ \A g \in Handlers : g # h => call'[g] = call[g]
    BY <2>6, <2>7 DEF Typing, TypeOK, Call
  <2>9. pc' \in [Handlers -> Points_of_call]
    BY <2>7 DEF Goto, Typing, TypeOK, Points_of_call
  <2>10. CallOK'
    BY <2>1, <2>3, <2>7, <2>8 DEF Goto, Typing, TypeOK, CallOK, Completing
  <2>11. UNCHANGED current
    BY <1>6 DEF WriteResult
  <2> QED
    BY <2>1, <2>4, <2>5, <2>8, <2>9, <2>10, <2>11, UpdateTyping
    DEF Typing, TypeOK
<1>7. CASE AdvanceWinner(h)
  <2>1. m \in Matches /\ WinnerTo[m] \in Matches /\ WinnerSide[m] \in Sides
    BY <1>2, <1>7, DrawTypes DEF AdvanceWinner, MaybeMatch
  <2>2. call[h].winner \in MaybeCompetitor
    BY <1>1 DEF Call
  <2>3. Seated(work[WinnerTo[m]], WinnerSide[m], call[h].winner) \in Row
    BY <2>1, <2>2, SeatedType DEF Typing, TypeOK
  <2> QED
    BY <1>7, <2>1, <2>3, UpdateTyping
    DEF AdvanceWinner, Goto, Typing, TypeOK, CallOK, Points_of_call, Completing
<1>8. CASE NoNextMatch(h)
  BY <1>8
  DEF NoNextMatch, Goto, Typing, TypeOK, CallOK, rows, Points_of_call, Completing
<1>9. CASE FindLoserSlot(h)
  <2>1. m \in Matches /\ LoserTo[m] # None
    BY <1>2, <1>9 DEF FindLoserSlot
  <2> DEFINE side == IF LoserSide[m] = FirstFree THEN FreeSide(View(h, LoserTo[m]))
                                                 ELSE LoserSide[m]
  <2>2. side \in Sides
    BY <2>1, DrawTypes DEF FreeSide, Sides
  <2>3. call' = [call EXCEPT ![h].side = side]
    BY <1>9 DEF FindLoserSlot
  <2> HIDE DEF side
  <2>4. /\ call' \in [Handlers -> Call]
        /\ call'[h].match = m
        /\ call'[h].winner = call[h].winner
        /\ call'[h].winMethod = call[h].winMethod
        /\ \A g \in Handlers : g # h => call'[g] = call[g]
    BY <2>2, <2>3 DEF Typing, TypeOK, Call
  <2> QED
    BY <1>9, <2>1, <2>4
    DEF FindLoserSlot, Goto, Typing, TypeOK, CallOK, rows, Points_of_call, Completing
<1>10. CASE LoserIsOut(h)
  BY <1>10
  DEF LoserIsOut, Goto, Typing, TypeOK, CallOK, rows, Points_of_call, Completing
<1>11. CASE PlaceLoser(h)
  <2>1. m \in Matches /\ LoserTo[m] \in Matches
    BY <1>2, <1>11, DrawTypes DEF PlaceLoser, Typing, CallOK, MaybeMatch
  <2>2. call[h].loser \in MaybeCompetitor /\ call[h].side \in Sides
    BY <1>1 DEF Call
  <2>3. Seated(work[LoserTo[m]], call[h].side, call[h].loser) \in Row
    BY <2>1, <2>2, SeatedType DEF Typing, TypeOK
  <2> QED
    BY <1>11, <2>1, <2>3, UpdateTyping
    DEF PlaceLoser, Goto, Typing, TypeOK, CallOK, Points_of_call, Completing
<1>12. CASE ReadMat(h)
  BY <1>12
  DEF ReadMat, Goto, Typing, TypeOK, CallOK, rows, Points_of_call, Completing
<1>13. CASE FindNext(h)
  <2> DEFINE queue == Queue(h, m)
             next  == IF queue = {} THEN None ELSE First(queue)
  <2>1. queue \subseteq Matches
    BY DEF Queue
  <2>2. next \in MaybeMatch
    BY <2>1, QueueHeadExists DEF MaybeMatch
  <2>3. call' = [call EXCEPT ![h].next = next]
    BY <1>13 DEF FindNext
  <2> HIDE DEF next
  <2>4. /\ call' \in [Handlers -> Call]
        /\ call'[h].match = m
        /\ call'[h].winner = call[h].winner
        /\ call'[h].winMethod = call[h].winMethod
        /\ \A g \in Handlers : g # h => call'[g] = call[g]
    BY <2>2, <2>3 DEF Typing, TypeOK, Call
  <2> QED
    BY <1>13, <2>4
    DEF FindNext, Goto, Typing, TypeOK, CallOK, rows, Points_of_call, Completing
<1>14. CASE SwapAndCommit(h)
  <2>1. call[h].next \in MaybeMatch
    BY <1>1 DEF Call
  <2>2. current' \in [Mats -> MaybeMatch]
    BY <1>14, <2>1 DEF SwapAndCommit, Typing, TypeOK
  <2> QED
    BY <1>14, <2>2, FlushTyping, ReturnTyping DEF SwapAndCommit, Typing, TypeOK
<1>15. CASE Commit(h)
  BY <1>15, FlushTyping, ReturnTyping DEF Commit, Typing, TypeOK
<1>16. CASE Rollback(h)
  BY <1>16, ReturnTyping DEF Rollback, Typing, TypeOK
<1> QED
  BY <1>3, <1>4, <1>5, <1>6, <1>7, <1>8, <1>9, <1>10, <1>11, <1>12, <1>13,
     <1>14, <1>15, <1>16 DEF Proceed

LEMMA NextTyping == Typing /\ [Next]_vars => Typing'
<1> SUFFICES ASSUME Typing, [Next]_vars PROVE Typing'
  OBVIOUS
<1>1. CASE Next
  BY <1>1, RequestTyping, ProceedTyping DEF Next
<1>2. CASE UNCHANGED vars
  BY <1>2 DEF vars, Typing, TypeOK, CallOK
<1> QED
  BY <1>1, <1>2

(* Rows, locks and calls keep their types (TypeOK), in every draw and with *)
(* any number of calls in flight.                                          *)
THEOREM TypeCorrect == Spec => []TypeOK
<1>1. Typing => TypeOK
  BY DEF Typing
<1> QED
  BY InitTyping, NextTyping, <1>1, PTL DEF Spec
-----------------------------------------------------------------------------
(* No match runs on a score that decided it.  The rows nobody has committed *)
(* yet and the scores that calls carry to their write must be as sound as   *)
(* the committed rows for the property to be inductive.                     *)

Sound(tableRows) ==
  \A m \in Matches :
    tableRows[m].status = "ACTIVE" => Undecided(tableRows[m].scores)

ScoresIInv ==
  /\ Sound(db)
  /\ Sound(work)
  /\ \A h \in Handlers : pc[h] = "score" => Undecided(call[h].scores)

LEMMA EmptyUndecided == Undecided(EmptyScores)
BY DEF Undecided, EmptyScores, EmptyScore, Sides

LEMMA ScoresRequest ==
  ASSUME Typing, ScoresIInv, NEW h \in Handlers, Request(h)
  PROVE  ScoresIInv'
<1> USE DEF ScoresIInv, Typing, TypeOK, rows
<1>1. ASSUME NEW m \in Called, StartMatch(h, m) \/ EnableGoldenScore(h, m)
      PROVE  ScoresIInv'
  BY <1>1 DEF StartMatch, EnableGoldenScore, Goto, Sound
<1>2. ASSUME NEW m \in Called, NEW c \in Competitors, NEW type \in EventTypes,
             ScoreEvent(h, m, c, type)
      PROVE  ScoresIInv'
  <2> DEFINE side == SideOf(db[m], c)
             scores == Scored(db[m].scores, side, type)
  <2>1. m \in Matches /\ db[m].scores \in [Sides -> Score]
    BY QueueTypes DEF Row
  <2>2. side \in Sides
    BY DEF SideOf, Sides
  <2>3. Undecided(db[m].scores) /\ ~Terminates(scores[side], type)
    BY <1>2, <2>1 DEF ScoreEvent, ReadMatch, Sound
  <2>4. Undecided(scores)
    BY <2>1, <2>2, <2>3, ScoredUndecided
  <2>5. call' = [call EXCEPT ![h].match = m, ![h].scores = scores]
    BY <1>2 DEF ScoreEvent
  <2>6. Goto(h, "score") /\ UNCHANGED <<db, work>>
    BY <1>2 DEF ScoreEvent
  <2> HIDE DEF scores
  <2>7. \A g \in Handlers : pc'[g] = "score" => Undecided(call'[g].scores)
    BY <2>4, <2>5, <2>6 DEF Goto, Call
  <2> QED
    BY <2>6, <2>7 DEF Sound
<1>3. ASSUME NEW m \in Called, NEW c \in Competitors, NEW type \in EventTypes,
             DecidingEvent(h, m, c, type)
      PROVE  ScoresIInv'
  <2>1. Goto(h, "decide") /\ UNCHANGED <<db, work>>
    BY <1>3 DEF DecidingEvent
  <2>2. \A g \in Handlers : g # h => call'[g] = call[g]
    BY <1>3 DEF DecidingEvent
  <2> QED
    BY <2>1, <2>2 DEF Goto, Sound
<1>4. ASSUME NEW m \in Called, NEW c \in Competitors, NEW winMethod \in EndMethods,
             EndMatch(h, m, c, winMethod)
      PROVE  ScoresIInv'
  BY <1>4 DEF EndMatch, Goto, Sound
<1>5. ASSUME NEW mat \in Mats, NEW m \in Called, AssignMatchToMat(h, mat, m)
      PROVE  ScoresIInv'
  BY <1>5 DEF AssignMatchToMat, Sound
<1> QED
  BY <1>1, <1>2, <1>3, <1>4, <1>5 DEF Request

(* What a write does to soundness is decided by the row it writes. *)
LEMMA SoundWrite ==
  ASSUME NEW tableRows, NEW m \in Matches, NEW new, NEW after,
         tableRows \in [Matches -> Row], Sound(tableRows),
         after = [tableRows EXCEPT ![m] = new],
         new.status = "ACTIVE" => Undecided(new.scores)
  PROVE  Sound(after)
BY DEF Sound

LEMMA ScoresProceed ==
  ASSUME Typing, ScoresIInv, NEW h \in Handlers, Proceed(h) \/ Rollback(h)
  PROVE  ScoresIInv'
<1> DEFINE m == call[h].match
<1>1. /\ db \in [Matches -> Row]
      /\ work \in [Matches -> Row]
      /\ Sound(db)
      /\ Sound(work)
  BY DEF Typing, TypeOK, ScoresIInv
<1>2. pc[h] # "idle" => m \in Matches /\ work[m] \in Row
  BY DEF Typing, TypeOK, CallOK
<1>3. ASSUME NEW n \in Matches, NEW new, UpdateNow(n, new), Return(h),
             new.status = "ACTIVE" => Undecided(new.scores)
      PROVE  ScoresIInv'
  <2>1. Sound(db') /\ Sound(work')
    BY <1>1, <1>3, SoundWrite DEF UpdateNow
  <2> QED
    BY <1>3, <2>1 DEF Return, Goto, ScoresIInv, Sound, Typing, TypeOK
<1>4. ASSUME NEW n \in Matches, NEW new, Update(h, n, new),
             pc'[h] # "score",
             \A g \in Handlers : g # h => pc'[g] = pc[g] /\ call'[g] = call[g],
             new.status = "ACTIVE" => Undecided(new.scores)
      PROVE  ScoresIInv'
  <2>1. Sound(db') /\ Sound(work')
    BY <1>1, <1>4, SoundWrite DEF Update
  <2> QED
    BY <1>4, <2>1 DEF ScoresIInv, Sound
<1>5. CASE WriteStart(h)
  <2> DEFINE new == [work[m] EXCEPT !.status = "ACTIVE", !.scores = EmptyScores]
  <2>1. m \in Matches /\ UpdateNow(m, new) /\ Return(h)
    BY <1>2, <1>5 DEF WriteStart
  <2>2. new.scores = EmptyScores
    BY <1>2, <1>5 DEF WriteStart, Row
  <2> QED
    BY <1>3, <2>1, <2>2, EmptyUndecided
<1>6. CASE WriteGoldenScore(h)
  <2> DEFINE new == [work[m] EXCEPT !.goldenScore = TRUE]
  <2>1. m \in Matches /\ UpdateNow(m, new) /\ Return(h)
    BY <1>2, <1>6 DEF WriteGoldenScore
  <2>2. new.status = work[m].status /\ new.scores = work[m].scores
    BY <1>2, <2>1, <1>6 DEF WriteGoldenScore, Row
  <2> QED
    BY <1>1, <1>3, <2>1, <2>2 DEF Sound
<1>7. CASE WriteScores(h)
  <2> DEFINE new == [work[m] EXCEPT !.scores = call[h].scores]
  <2>1. m \in Matches /\ UpdateNow(m, new) /\ Return(h)
    BY <1>2, <1>7 DEF WriteScores
  <2>2. new.scores = call[h].scores /\ Undecided(call[h].scores)
    BY <1>2, <1>7 DEF WriteScores, Row, ScoresIInv
  <2> QED
    BY <1>3, <2>1, <2>2
<1>8. CASE WriteResult(h)
  <2> DEFINE scores == IF pc[h] = "decide" THEN call[h].scores ELSE work[m].scores
             new    == Completed(work[m], call[h], scores)
  <2>1. m \in Matches /\ Update(h, m, new)
    BY <1>2, <1>8 DEF WriteResult
  <2>2. new.status = "COMPLETED"
    BY <1>2, <2>1, <1>8 DEF Completed, Row, WriteResult
  <2>3. /\ pc'[h] # "score"
        /\ \A g \in Handlers : g # h => pc'[g] = pc[g] /\ call'[g] = call[g]
    BY <1>8 DEF WriteResult, Goto, Typing, TypeOK
  <2> HIDE DEF new
  <2> QED
    BY <1>4, <2>1, <2>2, <2>3
<1>9. ASSUME NEW n \in Matches, NEW side, NEW c
      PROVE  LET new == Seated(work[n], side, c)
             IN  new.status = "ACTIVE" => Undecided(new.scores)
  BY <1>1 DEF Seated, Row, Sound
<1>10. CASE AdvanceWinner(h)
  <2> DEFINE new == Seated(work[WinnerTo[m]], WinnerSide[m], call[h].winner)
  <2>1. WinnerTo[m] \in Matches /\ Update(h, WinnerTo[m], new)
    BY <1>2, <1>10, DrawTypes DEF AdvanceWinner, MaybeMatch
  <2>2. /\ pc'[h] # "score"
        /\ \A g \in Handlers : g # h => pc'[g] = pc[g] /\ call'[g] = call[g]
    BY <1>10 DEF AdvanceWinner, Goto, Typing, TypeOK
  <2> QED
    BY <1>4, <1>9, <2>1, <2>2
<1>11. CASE PlaceLoser(h)
  <2> DEFINE new == Seated(work[LoserTo[m]], call[h].side, call[h].loser)
  <2>1. LoserTo[m] \in Matches /\ Update(h, LoserTo[m], new)
    BY <1>2, <1>11, DrawTypes DEF PlaceLoser, MaybeMatch, Typing, CallOK
  <2>2. /\ pc'[h] # "score"
        /\ \A g \in Handlers : g # h => pc'[g] = pc[g] /\ call'[g] = call[g]
    BY <1>11 DEF PlaceLoser, Goto, Typing, TypeOK
  <2> QED
    BY <1>4, <1>9, <2>1, <2>2
<1>12. CASE NoNextMatch(h) \/ FindLoserSlot(h) \/ LoserIsOut(h) \/ ReadMat(h)
            \/ FindNext(h)
  <2>1. UNCHANGED <<db, work>>
    BY <1>12 DEF NoNextMatch, FindLoserSlot, LoserIsOut, ReadMat, FindNext, rows
  <2>2. /\ pc'[h] # "score"
        /\ \A g \in Handlers : g # h => pc'[g] = pc[g] /\ call'[g] = call[g]
    BY <1>12 DEF NoNextMatch, FindLoserSlot, LoserIsOut, ReadMat, FindNext, Goto,
                 Typing, TypeOK
  <2> QED
    BY <2>1, <2>2 DEF ScoresIInv, Sound
<1>13. CASE SwapAndCommit(h) \/ Commit(h)
  <2>1. Flush(h) /\ Return(h)
    BY <1>13 DEF SwapAndCommit, Commit
  <2>2. Sound(db') /\ Sound(work')
    BY <1>1, <2>1 DEF Flush, View, Sound
  <2> QED
    BY <2>1, <2>2 DEF Return, Goto, ScoresIInv, Sound, Typing, TypeOK
<1>14. CASE Rollback(h)
  <2>1. Sound(db') /\ Sound(work')
    BY <1>1, <1>14 DEF Rollback, Sound
  <2> QED
    BY <1>14, <2>1 DEF Rollback, Return, Goto, ScoresIInv, Sound, Typing, TypeOK
<1> QED
  BY <1>5, <1>6, <1>7, <1>8, <1>10, <1>11, <1>12, <1>13, <1>14 DEF Proceed

LEMMA ScoresInit == Init => ScoresIInv
<1> SUFFICES ASSUME Init PROVE ScoresIInv
  OBVIOUS
<1>1. \A m \in Matches : DrawnRow(m).status # "ACTIVE"
  BY DEF DrawnRow
<1> QED
  BY <1>1 DEF Init, ScoresIInv, Sound

LEMMA ScoresNext == Typing /\ ScoresIInv /\ [Next]_vars => ScoresIInv'
<1> SUFFICES ASSUME Typing, ScoresIInv, [Next]_vars PROVE ScoresIInv'
  OBVIOUS
<1>1. CASE Next
  BY <1>1, ScoresRequest, ScoresProceed DEF Next
<1>2. CASE UNCHANGED vars
  BY <1>2 DEF vars, ScoresIInv, Sound
<1> QED
  BY <1>1, <1>2

(* Whatever calls overlap and whichever scores they counted from old       *)
(* readings, a committed match that is still ACTIVE has no two waza-ari    *)
(* and no three shido (applyScoreEvent, startMatch, endMatch).             *)
THEOREM NoDecidedMatchEverRuns == Spec => []NoDecidedMatchRuns
<1>1. ScoresIInv => NoDecidedMatchRuns
  BY DEF ScoresIInv, Sound, NoDecidedMatchRuns
<1> QED
  BY InitTyping, NextTyping, ScoresInit, ScoresNext, <1>1, PTL DEF Spec
-----------------------------------------------------------------------------
(* The winner of a completed match is in its slot.  The argument is the    *)
(* row lock: the transaction that completes a match holds its row until it *)
(* commits, so of the calls that complete the same match only one is past  *)
(* its first write, and no other feeds the slot (OneFeederPerSlot).        *)

Past(h) == pc[h] \in {"loser", "place", "mat", "next", "swap", "commit"}

InTransaction(h) == pc[h] = "winner" \/ Past(h)

Completes(h, m) == InTransaction(h) /\ call[h].match = m

Slot(tableRows, m) == tableRows[WinnerTo[m]].competitor[WinnerSide[m]]

FreeRows == \A m \in Matches : lock[m] = None => work[m] = db[m]

LocksHeld ==
  \A m \in Matches, h \in Handlers : lock[m] = h => InTransaction(h)

ResultWritten ==
  \A h \in Handlers :
    InTransaction(h) => /\ lock[call[h].match] = h
                        /\ work[call[h].match].winner = call[h].winner

SlotWritten ==
  \A h \in Handlers :
    Past(h) /\ WinnerTo[call[h].match] # None =>
      /\ lock[WinnerTo[call[h].match]] = h
      /\ Slot(work, call[h].match) = call[h].winner

SideChosen ==
  \A h \in Handlers :
    pc[h] = "place" /\ LoserSide[call[h].match] # FirstFree =>
      call[h].side = LoserSide[call[h].match]

WinnersKept ==
  \A m \in Matches :
    (\A h \in Handlers : ~Completes(h, m)) => work[m].winner = db[m].winner

SlotsKept ==
  \A m \in Matches :
    WinnerTo[m] # None /\ (\A h \in Handlers : ~(Past(h) /\ call[h].match = m))
      => Slot(work, m) = Slot(db, m)

AdvanceIInv ==
  /\ FreeRows
  /\ LocksHeld
  /\ ResultWritten
  /\ SlotWritten
  /\ SideChosen
  /\ WinnersKept
  /\ SlotsKept
  /\ WinnerAdvanced

LEMMA AdvanceInit == Init => AdvanceIInv
<1> SUFFICES ASSUME Init PROVE AdvanceIInv
  OBVIOUS
<1>1. /\ \A h \in Handlers : ~InTransaction(h) /\ ~Past(h) /\ pc[h] = "idle"
      /\ work = db
      /\ \A m \in Matches : lock[m] = None /\ db[m] = DrawnRow(m)
  BY DEF Init, InTransaction, Past
<1>2. WinnerAdvanced
  <2> SUFFICES ASSUME NEW m \in Matches, db[m].winner # None, WinnerTo[m] # None
               PROVE  db[WinnerTo[m]].competitor[WinnerSide[m]] = db[m].winner
    BY DEF WinnerAdvanced
  <2>1. \A n \in Matches :
          /\ db[n].winner = IF n \in Byes THEN ByeWinner(n) ELSE None
          /\ db[n].competitor = Entrants[n]
    <3> SUFFICES ASSUME NEW n \in Matches
                 PROVE  /\ db[n].winner = IF n \in Byes THEN ByeWinner(n) ELSE None
                        /\ db[n].competitor = Entrants[n]
      OBVIOUS
    <3>1. db[n] = DrawnRow(n)
      BY <1>1
    <3> QED
      BY <3>1 DEF DrawnRow
  <2>2. m \in Byes /\ db[m].winner = ByeWinner(m)
    BY <2>1
  <2>3. WinnerTo[m] \in Matches
    BY DrawTypes DEF MaybeMatch
  <2> QED
    BY <2>1, <2>2, <2>3, ByesAdvanced
<1> QED
  BY <1>1, <1>2, QueueTypes
  DEF AdvanceIInv, FreeRows, LocksHeld, ResultWritten, SlotWritten, SideChosen,
      WinnersKept, SlotsKept

(* A step outside any transaction that leaves the rows alone. *)
LEMMA AdvanceOutside ==
  ASSUME Typing, AdvanceIInv, NEW h \in Handlers, UNCHANGED rows,
         ~InTransaction(h), ~InTransaction(h)', pc'[h] # "place",
         \A g \in Handlers : g # h => pc'[g] = pc[g] /\ call'[g] = call[g]
  PROVE  AdvanceIInv'
<1>1. \A g \in Handlers : /\ InTransaction(g)' <=> InTransaction(g)
                          /\ Past(g)' <=> Past(g)
                          /\ InTransaction(g) => call'[g] = call[g]
  BY DEF InTransaction, Past
<1>2. FreeRows' /\ LocksHeld' /\ ResultWritten' /\ SideChosen' /\ WinnerAdvanced'
  BY <1>1 DEF AdvanceIInv, rows, FreeRows, LocksHeld, ResultWritten, SideChosen,
              WinnerAdvanced
<1>3. SlotWritten'
  BY <1>1 DEF AdvanceIInv, rows, SlotWritten, Slot, InTransaction
<1>4. WinnersKept' /\ SlotsKept'
  BY <1>1 DEF AdvanceIInv, rows, WinnersKept, SlotsKept, Slot, Completes,
              InTransaction
<1> QED
  BY <1>2, <1>3, <1>4 DEF AdvanceIInv

(* What every call does when it starts. *)
OnlyReads(h) ==
  /\ UNCHANGED rows
  /\ pc[h] = "idle"
  /\ pc'[h] \in {"idle", "start", "golden", "score", "decide", "end"}
  /\ \A g \in Handlers : g # h => pc'[g] = pc[g] /\ call'[g] = call[g]

LEMMA RequestOnlyReads ==
  ASSUME Typing, NEW h \in Handlers, Request(h)
  PROVE  OnlyReads(h)
<1> USE DEF OnlyReads, Goto, ReadMatch, Typing, TypeOK
<1>1. ASSUME NEW m \in Called, StartMatch(h, m) PROVE OnlyReads(h)
  BY <1>1 DEF StartMatch
<1>2. ASSUME NEW m \in Called, EnableGoldenScore(h, m) PROVE OnlyReads(h)
  BY <1>2 DEF EnableGoldenScore
<1>3. ASSUME NEW m \in Called, NEW c \in Competitors, NEW type \in EventTypes,
             ScoreEvent(h, m, c, type)
      PROVE  OnlyReads(h)
  BY <1>3 DEF ScoreEvent
<1>4. ASSUME NEW m \in Called, NEW c \in Competitors, NEW type \in EventTypes,
             DecidingEvent(h, m, c, type)
      PROVE  OnlyReads(h)
  BY <1>4 DEF DecidingEvent
<1>5. ASSUME NEW m \in Called, NEW c \in Competitors, NEW winMethod \in EndMethods,
             EndMatch(h, m, c, winMethod)
      PROVE  OnlyReads(h)
  BY <1>5 DEF EndMatch
<1>6. ASSUME NEW mat \in Mats, NEW m \in Called, AssignMatchToMat(h, mat, m)
      PROVE  OnlyReads(h)
  BY <1>6 DEF AssignMatchToMat
<1> HIDE DEF OnlyReads
<1> QED
  BY <1>1, <1>2, <1>3, <1>4, <1>5, <1>6 DEF Request

LEMMA AdvanceRequest ==
  ASSUME Typing, AdvanceIInv, NEW h \in Handlers, Request(h)
  PROVE  AdvanceIInv'
BY RequestOnlyReads, AdvanceOutside DEF OnlyReads, InTransaction, Past

(* A write of one statement touches neither a winner nor a slot. *)
LEMMA AdvanceUpdateNow ==
  ASSUME Typing, AdvanceIInv, NEW h \in Handlers, ~InTransaction(h),
         NEW m \in Matches, NEW new, UpdateNow(m, new), Return(h),
         new.winner = work[m].winner, new.competitor = work[m].competitor
  PROVE  AdvanceIInv'
<1>1. \A g \in Handlers : /\ InTransaction(g)' <=> InTransaction(g)
                          /\ Past(g)' <=> Past(g)
                          /\ InTransaction(g) => call'[g] = call[g]
                          /\ pc'[g] = "place" <=> pc[g] = "place"
  BY DEF InTransaction, Past, Return, Goto, Typing, TypeOK
<1>2. /\ \A n \in Matches : /\ work'[n].winner = work[n].winner
                            /\ work'[n].competitor = work[n].competitor
      /\ \A n \in Matches : /\ db'[n].winner = db[n].winner
                            /\ db'[n].competitor = db[n].competitor
  BY DEF UpdateNow, Typing, TypeOK, AdvanceIInv, FreeRows, Free
<1>3. \A n \in Matches : WinnerTo[n] # None => WinnerTo[n] \in Matches
  BY DrawTypes DEF MaybeMatch
<1>4. lock' = lock
  BY DEF UpdateNow
<1>5. \A g \in Handlers : InTransaction(g) => call[g].match \in Matches
  BY DEF InTransaction, Past, Typing, CallOK
<1>6. FreeRows'
  BY DEF AdvanceIInv, UpdateNow, FreeRows, Typing, TypeOK
<1>7. LocksHeld' /\ ResultWritten' /\ SideChosen'
  BY <1>1, <1>2, <1>4, <1>5
  DEF AdvanceIInv, LocksHeld, ResultWritten, SideChosen, InTransaction, Past
<1>8. SlotWritten'
  BY <1>1, <1>2, <1>3, <1>4, <1>5
  DEF AdvanceIInv, SlotWritten, Slot, InTransaction
<1>9. WinnersKept' /\ SlotsKept' /\ WinnerAdvanced'
  BY <1>1, <1>2, <1>3
  DEF AdvanceIInv, WinnersKept, SlotsKept, WinnerAdvanced, Slot, Completes,
      InTransaction
<1> QED
  BY <1>6, <1>7, <1>8, <1>9 DEF AdvanceIInv
(* The first write of the transaction: only now does the call own a row,   *)
(* and it was free, since the call owned none.                             *)
LEMMA AdvanceWriteResult ==
  ASSUME Typing, AdvanceIInv, NEW h \in Handlers, WriteResult(h)
  PROVE  AdvanceIInv'
<1> DEFINE m == call[h].match
           scores == IF pc[h] = "decide" THEN call[h].scores ELSE work[m].scores
           new    == Completed(work[m], call[h], scores)
<1>1. m \in Matches /\ work[m] \in Row
  BY DEF WriteResult, Typing, TypeOK, CallOK
<1>2. new.winner = call[h].winner /\ new.competitor = work[m].competitor
  BY <1>1 DEF Completed, Row
<1>3. Update(h, m, new) /\ Goto(h, "winner")
  BY DEF WriteResult
<1> HIDE DEF new
<1>4. /\ call'[h].match = m
      /\ call'[h].winner = call[h].winner
      /\ \A g \in Handlers : g # h => call'[g] = call[g]
  BY DEF WriteResult, Typing, TypeOK, Call
<1>5. ~InTransaction(h) /\ lock[m] = None
  <2>1. ~InTransaction(h)
    BY DEF WriteResult, InTransaction, Past
  <2> QED
    BY <1>1, <1>3, <2>1 DEF Update, Lockable, AdvanceIInv, LocksHeld
<1>6. /\ InTransaction(h)' /\ ~Past(h)'
      /\ \A g \in Handlers : g # h => /\ InTransaction(g)' <=> InTransaction(g)
                                      /\ Past(g)' <=> Past(g)
                                      /\ pc'[g] = "place" <=> pc[g] = "place"
      /\ pc'[h] # "place"
  BY <1>3 DEF Goto, InTransaction, Past, Typing, TypeOK
<1>7. /\ db' = db
      /\ work'[m] = new
      /\ \A n \in Matches : /\ work'[n].competitor = work[n].competitor
                            /\ n # m => work'[n] = work[n]
      /\ lock'[m] = h
      /\ \A n \in Matches : n # m => lock'[n] = lock[n]
  BY <1>1, <1>2, <1>3 DEF Update, Typing, TypeOK
<1>8. \A n \in Matches : WinnerTo[n] # None => WinnerTo[n] \in Matches
  BY DrawTypes DEF MaybeMatch
<1>9. \A g \in Handlers : InTransaction(g) => /\ call[g].match \in Matches
                                              /\ call[g].match # m
  <2> SUFFICES ASSUME NEW g \in Handlers, InTransaction(g)
               PROVE  call[g].match \in Matches /\ call[g].match # m
    OBVIOUS
  <2>1. lock[call[g].match] = g
    BY DEF AdvanceIInv, ResultWritten
  <2> QED
    BY <1>5, <2>1, QueueTypes DEF InTransaction, Past, Typing, CallOK
<1>10. FreeRows' /\ LocksHeld'
  BY <1>6, <1>7, QueueTypes DEF AdvanceIInv, FreeRows, LocksHeld
<1>11. ResultWritten'
  BY <1>1, <1>2, <1>4, <1>6, <1>7, <1>9 DEF AdvanceIInv, ResultWritten
<1>12. SlotWritten'
  <2> SUFFICES ASSUME NEW g \in Handlers, Past(g)', WinnerTo[call'[g].match] # None
               PROVE  /\ lock'[WinnerTo[call'[g].match]] = g
                      /\ Slot(work', call'[g].match) = call'[g].winner
    BY DEF SlotWritten, Slot
  <2>1. g # h /\ Past(g) /\ call'[g] = call[g] /\ InTransaction(g)
    BY <1>4, <1>6 DEF InTransaction
  <2>2. WinnerTo[call[g].match] \in Matches
    BY <1>8, <1>9, <2>1
  <2>3. /\ lock[WinnerTo[call[g].match]] = g
        /\ Slot(work, call[g].match) = call[g].winner
    BY <2>1 DEF AdvanceIInv, SlotWritten
  <2>4. WinnerTo[call[g].match] # m
    BY <1>5, <2>3, QueueTypes
  <2> QED
    BY <1>7, <2>1, <2>2, <2>3, <2>4 DEF Slot
<1>13. SideChosen' /\ WinnerAdvanced'
  BY <1>4, <1>6, <1>7 DEF AdvanceIInv, SideChosen, WinnerAdvanced
<1>14. WinnersKept'
  <2> SUFFICES ASSUME NEW n \in Matches, \A g \in Handlers : ~Completes(g, n)'
               PROVE  work'[n].winner = db'[n].winner
    BY DEF WinnersKept
  <2>1. n # m
    BY <1>4, <1>6 DEF Completes
  <2>2. \A g \in Handlers : ~Completes(g, n)
    BY <1>4, <1>5, <1>6 DEF Completes
  <2> QED
    BY <1>7, <2>1, <2>2 DEF AdvanceIInv, WinnersKept
<1>15. SlotsKept'
  <2> SUFFICES ASSUME NEW n \in Matches, WinnerTo[n] # None,
                      \A g \in Handlers : ~(Past(g)' /\ call'[g].match = n)
               PROVE  Slot(work', n) = Slot(db', n)
    BY DEF SlotsKept, Slot
  <2>1. \A g \in Handlers : ~(Past(g) /\ call[g].match = n)
    BY <1>4, <1>5, <1>6 DEF InTransaction
  <2> QED
    BY <1>7, <1>8, <2>1 DEF AdvanceIInv, SlotsKept, Slot
<1> QED
  BY <1>10, <1>11, <1>12, <1>13, <1>14, <1>15 DEF AdvanceIInv
(* The winner is seated.  No other call can be past that step for the same *)
(* match, and the slots of other feeders lie elsewhere.                    *)
LEMMA AdvanceSeatWinner ==
  ASSUME Typing, AdvanceIInv, NEW h \in Handlers, AdvanceWinner(h)
  PROVE  AdvanceIInv'
<1> DEFINE m == call[h].match
           target == WinnerTo[m]
           new == Seated(work[target], WinnerSide[m], call[h].winner)
<1>1. m \in Matches /\ target \in Matches /\ WinnerSide[m] \in Sides
  BY DrawTypes DEF AdvanceWinner, Typing, CallOK, MaybeMatch
<1>2. /\ new.winner = work[target].winner
      /\ new.competitor[WinnerSide[m]] = call[h].winner
      /\ \A side \in Sides : side # WinnerSide[m] =>
            new.competitor[side] = work[target].competitor[side]
  <2>1. work[target] \in Row /\ work[target].competitor \in [Sides -> MaybeCompetitor]
    BY <1>1 DEF Typing, TypeOK, Row
  <2> QED
    BY <1>1, <2>1 DEF Seated, Row
<1>3. Update(h, target, new) /\ Goto(h, "loser") /\ call' = call
  BY DEF AdvanceWinner
<1> HIDE DEF new
<1>4. InTransaction(h) /\ ~Past(h) /\ lock[m] = h
  BY DEF AdvanceWinner, InTransaction, Past, AdvanceIInv, ResultWritten
<1>5. /\ Past(h)' /\ InTransaction(h)'
      /\ \A g \in Handlers : g # h => /\ InTransaction(g)' <=> InTransaction(g)
                                      /\ Past(g)' <=> Past(g)
                                      /\ pc'[g] = "place" <=> pc[g] = "place"
      /\ pc'[h] # "place"
  BY <1>3 DEF Goto, InTransaction, Past, Typing, TypeOK
<1>6. /\ db' = db
      /\ lock[target] \in {None, h}
      /\ work'[target] = new
      /\ \A n \in Matches : /\ work'[n].winner = work[n].winner
                            /\ n # target => work'[n] = work[n]
      /\ lock'[target] = h
      /\ \A n \in Matches : n # target => lock'[n] = lock[n]
  BY <1>1, <1>2, <1>3 DEF Update, Lockable, Typing, TypeOK
<1>7. \A n \in Matches : WinnerTo[n] # None => /\ WinnerTo[n] \in Matches
                                              /\ WinnerSide[n] \in Sides
  BY DrawTypes DEF MaybeMatch
<1>8. \A n \in Matches : n # m /\ WinnerTo[n] # None => Slot(work', n) = Slot(work, n)
  <2> SUFFICES ASSUME NEW n \in Matches, n # m, WinnerTo[n] # None
               PROVE  Slot(work', n) = Slot(work, n)
    OBVIOUS
  <2>1. CASE WinnerTo[n] # target
    BY <1>6, <1>7, <2>1 DEF Slot
  <2>2. CASE WinnerTo[n] = target
    <3>1. WinnerSide[n] # WinnerSide[m]
      BY <1>1, <2>2, OneFeederPerSlot, DrawTypes
    <3> QED
      BY <1>2, <1>6, <1>7, <2>2, <3>1 DEF Slot
  <2> QED
    BY <2>1, <2>2
<1>9. \A g \in Handlers : InTransaction(g) => /\ call[g].match \in Matches
                                              /\ lock[call[g].match] = g
                                              /\ g # h => call[g].match # m
  BY <1>4 DEF AdvanceIInv, ResultWritten, InTransaction, Past, Typing, CallOK
<1>10. FreeRows' /\ LocksHeld'
  BY <1>5, <1>6, QueueTypes DEF AdvanceIInv, FreeRows, LocksHeld
<1>11. ResultWritten'
  <2> SUFFICES ASSUME NEW g \in Handlers, InTransaction(g)'
               PROVE  /\ lock'[call'[g].match] = g
                      /\ work'[call'[g].match].winner = call'[g].winner
    BY DEF ResultWritten
  <2>1. InTransaction(g)
    BY <1>4, <1>5
  <2>2. lock[call[g].match] = g /\ work[call[g].match].winner = call[g].winner
    BY <2>1 DEF AdvanceIInv, ResultWritten
  <2>3. call[g].match = target => g = h
    BY <1>6, <2>2, QueueTypes
  <2> QED
    BY <1>3, <1>6, <1>9, <2>1, <2>2, <2>3
<1>12. SlotWritten'
  <2> SUFFICES ASSUME NEW g \in Handlers, Past(g)', WinnerTo[call'[g].match] # None
               PROVE  /\ lock'[WinnerTo[call'[g].match]] = g
                      /\ Slot(work', call'[g].match) = call'[g].winner
    BY DEF SlotWritten, Slot
  <2>1. CASE g = h
    BY <1>2, <1>3, <1>6, <2>1 DEF Slot
  <2>2. CASE g # h
    <3>1. Past(g) /\ InTransaction(g) /\ call'[g] = call[g]
      BY <1>3, <1>5, <2>2 DEF InTransaction
    <3>2. /\ lock[WinnerTo[call[g].match]] = g
          /\ Slot(work, call[g].match) = call[g].winner
      BY <1>3, <3>1 DEF AdvanceIInv, SlotWritten
    <3>3. WinnerTo[call[g].match] # target
      BY <1>6, <2>2, <3>2, QueueTypes
    <3>4. WinnerTo[call[g].match] \in Matches
      BY <1>3, <1>7, <1>9, <3>1
    <3> QED
      BY <1>6, <3>1, <3>2, <3>3, <3>4 DEF Slot
  <2> QED
    BY <2>1, <2>2
<1>13. SideChosen' /\ WinnerAdvanced'
  BY <1>3, <1>5, <1>6 DEF AdvanceIInv, SideChosen, WinnerAdvanced
<1>14. WinnersKept'
  BY <1>3, <1>4, <1>5, <1>6 DEF AdvanceIInv, WinnersKept, Completes
<1>15. SlotsKept'
  <2> SUFFICES ASSUME NEW n \in Matches, WinnerTo[n] # None,
                      \A g \in Handlers : ~(Past(g)' /\ call'[g].match = n)
               PROVE  Slot(work', n) = Slot(db', n)
    BY DEF SlotsKept, Slot
  <2>1. n # m
    BY <1>3, <1>5
  <2>2. \A g \in Handlers : ~(Past(g) /\ call[g].match = n)
    BY <1>3, <1>4, <1>5
  <2> QED
    BY <1>6, <1>8, <2>1, <2>2 DEF AdvanceIInv, SlotsKept, Slot
<1> QED
  BY <1>10, <1>11, <1>12, <1>13, <1>14, <1>15 DEF AdvanceIInv

(* The loser is seated where no winner is waited for.                      *)
LEMMA AdvanceSeatLoser ==
  ASSUME Typing, AdvanceIInv, NEW h \in Handlers, PlaceLoser(h)
  PROVE  AdvanceIInv'
<1> DEFINE m == call[h].match
           target == LoserTo[m]
           new == Seated(work[target], call[h].side, call[h].loser)
<1>1. m \in Matches /\ target \in Matches /\ call[h].side \in Sides
  BY DrawTypes DEF PlaceLoser, Typing, TypeOK, CallOK, Call, MaybeMatch
<1>2. /\ new.winner = work[target].winner
      /\ \A side \in Sides : side # call[h].side =>
            new.competitor[side] = work[target].competitor[side]
  <2>1. work[target] \in Row /\ work[target].competitor \in [Sides -> MaybeCompetitor]
    BY <1>1 DEF Typing, TypeOK, Row
  <2> QED
    BY <1>1, <2>1 DEF Seated, Row
<1>3. Update(h, target, new) /\ Goto(h, "mat") /\ call' = call
  BY DEF PlaceLoser
<1> HIDE DEF new
<1>4. Past(h) /\ InTransaction(h) /\ pc[h] = "place"
  BY DEF PlaceLoser, InTransaction, Past
<1>5. /\ \A g \in Handlers : /\ InTransaction(g)' <=> InTransaction(g)
                             /\ Past(g)' <=> Past(g)
                             /\ pc'[g] = "place" => pc[g] = "place"
  BY <1>3, <1>4 DEF Goto, InTransaction, Past, Typing, TypeOK
<1>6. /\ db' = db
      /\ lock[target] \in {None, h}
      /\ work'[target] = new
      /\ \A n \in Matches : /\ work'[n].winner = work[n].winner
                            /\ n # target => work'[n] = work[n]
      /\ lock'[target] = h
      /\ \A n \in Matches : n # target => lock'[n] = lock[n]
  BY <1>1, <1>2, <1>3 DEF Update, Lockable, Typing, TypeOK
<1>7. \A n \in Matches : WinnerTo[n] # None => /\ WinnerTo[n] \in Matches
                                              /\ WinnerSide[n] \in Sides
  BY DrawTypes DEF MaybeMatch
<1>8. \A n \in Matches : WinnerTo[n] # None => Slot(work', n) = Slot(work, n)
  <2> SUFFICES ASSUME NEW n \in Matches, WinnerTo[n] # None
               PROVE  Slot(work', n) = Slot(work, n)
    OBVIOUS
  <2>1. CASE WinnerTo[n] # target
    BY <1>6, <1>7, <2>1 DEF Slot
  <2>2. CASE WinnerTo[n] = target
    <3>1. LoserSide[m] \in Sides /\ LoserSide[m] # WinnerSide[n]
      BY <1>1, <2>2, OneFeederPerSlot
    <3>2. call[h].side = LoserSide[m]
      BY <1>4, <3>1 DEF AdvanceIInv, SideChosen, FirstFree, Sides
    <3> QED
      BY <1>2, <1>6, <1>7, <2>2, <3>1, <3>2 DEF Slot
  <2> QED
    BY <2>1, <2>2
<1>9. \A g \in Handlers : InTransaction(g) => call[g].match \in Matches
  BY DEF InTransaction, Past, Typing, CallOK
<1>10. FreeRows' /\ LocksHeld'
  BY <1>4, <1>5, <1>6, QueueTypes DEF AdvanceIInv, FreeRows, LocksHeld
<1>11. ResultWritten'
  <2> SUFFICES ASSUME NEW g \in Handlers, InTransaction(g)'
               PROVE  /\ lock'[call'[g].match] = g
                      /\ work'[call'[g].match].winner = call'[g].winner
    BY DEF ResultWritten
  <2>1. lock[call[g].match] = g /\ work[call[g].match].winner = call[g].winner
    BY <1>5 DEF AdvanceIInv, ResultWritten
  <2>2. call[g].match = target => g = h
    BY <1>6, <2>1, QueueTypes
  <2> QED
    BY <1>3, <1>5, <1>6, <1>9, <2>1, <2>2
<1>12. SlotWritten'
  <2> SUFFICES ASSUME NEW g \in Handlers, Past(g)', WinnerTo[call'[g].match] # None
               PROVE  /\ lock'[WinnerTo[call'[g].match]] = g
                      /\ Slot(work', call'[g].match) = call'[g].winner
    BY DEF SlotWritten, Slot
  <2>1. Past(g) /\ InTransaction(g) /\ call'[g] = call[g]
    BY <1>3, <1>5 DEF InTransaction
  <2>2. /\ lock[WinnerTo[call[g].match]] = g
        /\ Slot(work, call[g].match) = call[g].winner
    BY <1>3, <2>1 DEF AdvanceIInv, SlotWritten
  <2>3. WinnerTo[call[g].match] \in Matches
    BY <1>3, <1>7, <1>9, <2>1
  <2>4. lock'[WinnerTo[call[g].match]] = g
    BY <1>6, <2>2, <2>3, QueueTypes
  <2> QED
    BY <1>3, <1>8, <1>9, <2>1, <2>2, <2>4
<1>13. SideChosen' /\ WinnerAdvanced' /\ WinnersKept'
  BY <1>3, <1>5, <1>6
  DEF AdvanceIInv, SideChosen, WinnerAdvanced, WinnersKept, Completes
<1>14. SlotsKept'
  <2> SUFFICES ASSUME NEW n \in Matches, WinnerTo[n] # None,
                      \A g \in Handlers : ~(Past(g)' /\ call'[g].match = n)
               PROVE  Slot(work', n) = Slot(db', n)
    BY DEF SlotsKept, Slot
  <2>1. \A g \in Handlers : ~(Past(g) /\ call[g].match = n)
    BY <1>3, <1>5
  <2> QED
    BY <1>6, <1>8, <2>1 DEF AdvanceIInv, SlotsKept, Slot
<1> QED
  BY <1>10, <1>11, <1>12, <1>13, <1>14 DEF AdvanceIInv
(* Between its writes a transaction only reads.                            *)
LEMMA AdvanceReads ==
  ASSUME Typing, AdvanceIInv, NEW h \in Handlers, UNCHANGED rows,
         InTransaction(h), InTransaction(h)', Past(h)',
         Past(h) \/ WinnerTo[call[h].match] = None,
         pc'[h] = "place" =>
           (LoserSide[call[h].match] # FirstFree =>
              call'[h].side = LoserSide[call[h].match]),
         call'[h].match = call[h].match, call'[h].winner = call[h].winner,
         \A g \in Handlers : g # h => pc'[g] = pc[g] /\ call'[g] = call[g]
  PROVE  AdvanceIInv'
<1>1. \A g \in Handlers : /\ InTransaction(g)' <=> InTransaction(g)
                          /\ Past(g)' => Past(g) \/ WinnerTo[call[g].match] = None
                          /\ Past(g) => Past(g)'
                          /\ call'[g].match = call[g].match
                          /\ call'[g].winner = call[g].winner
  BY DEF InTransaction, Past
<1>2. FreeRows' /\ LocksHeld' /\ ResultWritten' /\ WinnerAdvanced' /\ WinnersKept'
  BY <1>1 DEF AdvanceIInv, rows, FreeRows, LocksHeld, ResultWritten,
              WinnerAdvanced, WinnersKept, Completes
<1>3. SideChosen'
  BY <1>1 DEF AdvanceIInv, SideChosen
<1>4. SlotWritten' /\ SlotsKept'
  BY <1>1 DEF AdvanceIInv, rows, SlotWritten, SlotsKept, Slot
<1> QED
  BY <1>2, <1>3, <1>4 DEF AdvanceIInv

LEMMA AdvanceBetween ==
  ASSUME Typing, AdvanceIInv, NEW h \in Handlers,
         NoNextMatch(h) \/ FindLoserSlot(h) \/ LoserIsOut(h) \/ ReadMat(h)
           \/ FindNext(h)
  PROVE  AdvanceIInv'
<1> DEFINE m == call[h].match
<1> USE DEF Goto, InTransaction, Past, Typing, TypeOK
<1>1. CASE NoNextMatch(h)
  BY <1>1, AdvanceReads DEF NoNextMatch
<1>2. CASE FindLoserSlot(h)
  <2> DEFINE side == IF LoserSide[m] = FirstFree THEN FreeSide(View(h, LoserTo[m]))
                                                 ELSE LoserSide[m]
  <2>1. call' = [call EXCEPT ![h].side = side]
    BY <1>2 DEF FindLoserSlot
  <2>2. LoserSide[m] # FirstFree => side = LoserSide[m]
    OBVIOUS
  <2> HIDE DEF side
  <2>3. /\ call'[h].match = m
        /\ call'[h].winner = call[h].winner
        /\ call'[h].side = side
        /\ \A g \in Handlers : g # h => call'[g] = call[g]
    BY <2>1 DEF Call
  <2> QED
    BY <1>2, <2>2, <2>3, AdvanceReads DEF FindLoserSlot
<1>3. CASE LoserIsOut(h)
  BY <1>3, AdvanceReads DEF LoserIsOut
<1>4. CASE ReadMat(h)
  BY <1>4, AdvanceReads DEF ReadMat
<1>5. CASE FindNext(h)
  <2>1. /\ call'[h].match = m
        /\ call'[h].winner = call[h].winner
        /\ \A g \in Handlers : g # h => call'[g] = call[g]
    BY <1>5 DEF FindNext, Call
  <2> QED
    BY <1>5, <2>1, AdvanceReads DEF FindNext
<1> QED
  BY <1>1, <1>2, <1>3, <1>4, <1>5

(* A call that commits: the winner and the slot it wrote become visible in *)
(* the same step, and the rows it shows of other matches are as they were  *)
(* where it matters.                                                       *)
LEMMA AdvanceCommit ==
  ASSUME Typing, AdvanceIInv, NEW h \in Handlers, Past(h), Flush(h), Return(h)
  PROVE  AdvanceIInv'
<1> DEFINE m == call[h].match
<1>1. /\ \A n \in Matches : /\ lock[n] = h => db'[n] = work[n] /\ lock'[n] = None
                            /\ lock[n] # h => db'[n] = db[n] /\ lock'[n] = lock[n]
      /\ work' = work
  BY DEF Flush, View
<1>2. /\ ~InTransaction(h)' /\ ~Past(h)' /\ pc'[h] # "place"
      /\ \A g \in Handlers : g # h => /\ InTransaction(g)' <=> InTransaction(g)
                                      /\ Past(g)' <=> Past(g)
                                      /\ call'[g] = call[g]
                                      /\ pc'[g] = "place" <=> pc[g] = "place"
  BY DEF Return, Goto, InTransaction, Past, Typing, TypeOK
<1>3. \A n \in Matches : WinnerTo[n] # None => WinnerTo[n] \in Matches
  BY DrawTypes DEF MaybeMatch
<1>4. \A g \in Handlers :
        InTransaction(g) => call[g].match \in Matches /\ lock[call[g].match] = g
  BY DEF AdvanceIInv, ResultWritten, InTransaction, Past, Typing, CallOK
<1>5. InTransaction(h)
  BY DEF InTransaction
<1>6. FreeRows' /\ LocksHeld'
  BY <1>1, <1>2, QueueTypes DEF AdvanceIInv, FreeRows, LocksHeld
<1>7. ResultWritten'
  BY <1>1, <1>2, <1>4 DEF AdvanceIInv, ResultWritten
<1>8. SlotWritten'
  <2> SUFFICES ASSUME NEW g \in Handlers, Past(g)', WinnerTo[call'[g].match] # None
               PROVE  /\ lock'[WinnerTo[call'[g].match]] = g
                      /\ Slot(work', call'[g].match) = call'[g].winner
    BY DEF SlotWritten, Slot
  <2>1. g # h /\ Past(g) /\ InTransaction(g) /\ call'[g] = call[g]
    BY <1>2 DEF InTransaction
  <2>2. /\ lock[WinnerTo[call[g].match]] = g
        /\ Slot(work, call[g].match) = call[g].winner
    BY <2>1 DEF AdvanceIInv, SlotWritten
  <2> QED
    BY <1>1, <1>3, <1>4, <2>1, <2>2
<1>9. SideChosen'
  BY <1>2 DEF AdvanceIInv, SideChosen
<1>10. \A n \in Matches : n # m => db'[n].winner = db[n].winner
  <2> SUFFICES ASSUME NEW n \in Matches, n # m, lock[n] = h
               PROVE  work[n].winner = db[n].winner
    BY <1>1
  <2>1. \A g \in Handlers : ~Completes(g, n)
    BY <1>4 DEF Completes
  <2> QED
    BY <2>1 DEF AdvanceIInv, WinnersKept
<1>11. \A n \in Matches : n # m /\ WinnerTo[n] # None => Slot(db', n) = Slot(db, n)
  <2> SUFFICES ASSUME NEW n \in Matches, n # m, WinnerTo[n] # None,
                      lock[WinnerTo[n]] = h
               PROVE  Slot(work, n) = Slot(db, n)
    BY <1>1, <1>3 DEF Slot
  <2>1. ASSUME NEW g \in Handlers, Past(g), call[g].match = n PROVE FALSE
    <3>1. lock[WinnerTo[n]] = g
      BY <2>1 DEF AdvanceIInv, SlotWritten
    <3> QED
      BY <2>1, <3>1
  <2> QED
    BY <2>1 DEF AdvanceIInv, SlotsKept
<1>12. /\ db'[m].winner = call[h].winner
       /\ WinnerTo[m] # None => Slot(db', m) = call[h].winner
  BY <1>1, <1>3, <1>4, <1>5 DEF AdvanceIInv, ResultWritten, SlotWritten, Slot
<1>13. WinnerAdvanced'
  <2> SUFFICES ASSUME NEW n \in Matches, db'[n].winner # None, WinnerTo[n] # None
               PROVE  Slot(db', n) = db'[n].winner
    BY DEF WinnerAdvanced, Slot
  <2>1. CASE n = m
    BY <1>12, <2>1
  <2>2. CASE n # m
    BY <1>10, <1>11, <2>2 DEF AdvanceIInv, WinnerAdvanced, Slot
  <2> QED
    BY <2>1, <2>2
<1>14. WinnersKept'
  <2> SUFFICES ASSUME NEW n \in Matches, \A g \in Handlers : ~Completes(g, n)'
               PROVE  work'[n].winner = db'[n].winner
    BY DEF WinnersKept
  <2>1. CASE lock[n] = h
    BY <1>1, <2>1
  <2>2. CASE lock[n] # h
    <3>1. \A g \in Handlers : ~Completes(g, n)
      BY <1>2, <1>4, <2>2 DEF Completes
    <3> QED
      BY <1>1, <2>2, <3>1 DEF AdvanceIInv, WinnersKept
  <2> QED
    BY <2>1, <2>2
<1>15. SlotsKept'
  <2> SUFFICES ASSUME NEW n \in Matches, WinnerTo[n] # None,
                      \A g \in Handlers : ~(Past(g)' /\ call'[g].match = n)
               PROVE  Slot(work', n) = Slot(db', n)
    BY DEF SlotsKept, Slot
  <2>1. CASE lock[WinnerTo[n]] = h
    BY <1>1, <1>3, <2>1 DEF Slot
  <2>2. CASE lock[WinnerTo[n]] # h
    <3>1. \A g \in Handlers : ~(Past(g) /\ call[g].match = n)
      BY <1>2, <2>2 DEF AdvanceIInv, SlotWritten
    <3> QED
      BY <1>1, <1>3, <2>2, <3>1 DEF AdvanceIInv, SlotsKept, Slot
  <2> QED
    BY <2>1, <2>2
<1> QED
  BY <1>6, <1>7, <1>8, <1>9, <1>13, <1>14, <1>15 DEF AdvanceIInv
(* A call that fails takes back what it wrote.                             *)
LEMMA AdvanceRollback ==
  ASSUME Typing, AdvanceIInv, NEW h \in Handlers, Rollback(h)
  PROVE  AdvanceIInv'
<1>1. /\ \A n \in Matches :
           /\ lock[n] = h => work'[n] = db[n] /\ lock'[n] = None
           /\ lock[n] # h => work'[n] = work[n] /\ lock'[n] = lock[n]
      /\ db' = db
      /\ Return(h)
  BY DEF Rollback
<1>2. /\ ~InTransaction(h)' /\ ~Past(h)' /\ pc'[h] # "place"
      /\ \A g \in Handlers : g # h => /\ InTransaction(g)' <=> InTransaction(g)
                                      /\ Past(g)' <=> Past(g)
                                      /\ call'[g] = call[g]
                                      /\ pc'[g] = "place" <=> pc[g] = "place"
  BY <1>1 DEF Return, Goto, InTransaction, Past, Typing, TypeOK
<1>3. \A n \in Matches : WinnerTo[n] # None => WinnerTo[n] \in Matches
  BY DrawTypes DEF MaybeMatch
<1>4. \A g \in Handlers :
        InTransaction(g) => call[g].match \in Matches /\ lock[call[g].match] = g
  BY DEF AdvanceIInv, ResultWritten, InTransaction, Past, Typing, CallOK
<1>5. FreeRows' /\ LocksHeld'
  BY <1>1, <1>2, QueueTypes DEF AdvanceIInv, FreeRows, LocksHeld
<1>6. ResultWritten'
  BY <1>1, <1>2, <1>4 DEF AdvanceIInv, ResultWritten
<1>7. SlotWritten'
  <2> SUFFICES ASSUME NEW g \in Handlers, Past(g)', WinnerTo[call'[g].match] # None
               PROVE  /\ lock'[WinnerTo[call'[g].match]] = g
                      /\ Slot(work', call'[g].match) = call'[g].winner
    BY DEF SlotWritten, Slot
  <2>1. g # h /\ Past(g) /\ InTransaction(g) /\ call'[g] = call[g]
    BY <1>2 DEF InTransaction
  <2>2. /\ lock[WinnerTo[call[g].match]] = g
        /\ Slot(work, call[g].match) = call[g].winner
    BY <2>1 DEF AdvanceIInv, SlotWritten
  <2> QED
    BY <1>1, <1>3, <1>4, <2>1, <2>2 DEF Slot
<1>8. SideChosen' /\ WinnerAdvanced'
  BY <1>1, <1>2 DEF AdvanceIInv, SideChosen, WinnerAdvanced
<1>9. WinnersKept'
  <2> SUFFICES ASSUME NEW n \in Matches, \A g \in Handlers : ~Completes(g, n)',
                      lock[n] # h
               PROVE  work[n].winner = db[n].winner
    BY <1>1 DEF WinnersKept
  <2>1. \A g \in Handlers : ~Completes(g, n)
    BY <1>2, <1>4 DEF Completes
  <2> QED
    BY <2>1 DEF AdvanceIInv, WinnersKept
<1>10. SlotsKept'
  <2> SUFFICES ASSUME NEW n \in Matches, WinnerTo[n] # None,
                      \A g \in Handlers : ~(Past(g)' /\ call'[g].match = n),
                      lock[WinnerTo[n]] # h
               PROVE  Slot(work, n) = Slot(db, n)
    BY <1>1, <1>3 DEF SlotsKept, Slot
  <2>1. \A g \in Handlers : ~(Past(g) /\ call[g].match = n)
    BY <1>2 DEF AdvanceIInv, SlotWritten
  <2> QED
    BY <2>1 DEF AdvanceIInv, SlotsKept
<1> QED
  BY <1>5, <1>6, <1>7, <1>8, <1>9, <1>10 DEF AdvanceIInv

LEMMA AdvanceNext == Typing /\ AdvanceIInv /\ [Next]_vars => AdvanceIInv'
<1> SUFFICES ASSUME Typing, AdvanceIInv, [Next]_vars PROVE AdvanceIInv'
  OBVIOUS
<1>1. ASSUME NEW h \in Handlers, WriteStart(h) PROVE AdvanceIInv'
  <2> DEFINE m == call[h].match
             new == [work[m] EXCEPT !.status = "ACTIVE", !.scores = EmptyScores]
  <2>1. m \in Matches /\ work[m] \in Row /\ ~InTransaction(h)
    BY <1>1 DEF WriteStart, Typing, TypeOK, CallOK, InTransaction, Past
  <2>2. new.winner = work[m].winner /\ new.competitor = work[m].competitor
    BY <2>1 DEF Row
  <2>3. UpdateNow(m, new) /\ Return(h)
    BY <1>1 DEF WriteStart
  <2> QED
    BY <2>1, <2>2, <2>3, AdvanceUpdateNow
<1>2. ASSUME NEW h \in Handlers, WriteGoldenScore(h) PROVE AdvanceIInv'
  <2> DEFINE m == call[h].match
             new == [work[m] EXCEPT !.goldenScore = TRUE]
  <2>1. m \in Matches /\ work[m] \in Row /\ ~InTransaction(h)
    BY <1>2 DEF WriteGoldenScore, Typing, TypeOK, CallOK, InTransaction, Past
  <2>2. new.winner = work[m].winner /\ new.competitor = work[m].competitor
    BY <2>1 DEF Row
  <2>3. UpdateNow(m, new) /\ Return(h)
    BY <1>2 DEF WriteGoldenScore
  <2> QED
    BY <2>1, <2>2, <2>3, AdvanceUpdateNow
<1>3. ASSUME NEW h \in Handlers, WriteScores(h) PROVE AdvanceIInv'
  <2> DEFINE m == call[h].match
             new == [work[m] EXCEPT !.scores = call[h].scores]
  <2>1. m \in Matches /\ work[m] \in Row /\ ~InTransaction(h)
    BY <1>3 DEF WriteScores, Typing, TypeOK, CallOK, InTransaction, Past
  <2>2. new.winner = work[m].winner /\ new.competitor = work[m].competitor
    BY <2>1 DEF Row
  <2>3. UpdateNow(m, new) /\ Return(h)
    BY <1>3 DEF WriteScores
  <2> QED
    BY <2>1, <2>2, <2>3, AdvanceUpdateNow
<1>4. ASSUME NEW h \in Handlers, SwapAndCommit(h) \/ Commit(h) PROVE AdvanceIInv'
  BY <1>4, AdvanceCommit DEF SwapAndCommit, Commit, Past
<1>5. CASE UNCHANGED vars
  BY <1>5
  DEF vars, AdvanceIInv, FreeRows, LocksHeld, ResultWritten, SlotWritten,
      SideChosen, WinnersKept, SlotsKept, WinnerAdvanced, Slot, Completes,
      InTransaction, Past
<1>6. CASE Next
  BY <1>1, <1>2, <1>3, <1>4, <1>6, AdvanceRequest, AdvanceWriteResult,
     AdvanceSeatWinner, AdvanceSeatLoser, AdvanceBetween, AdvanceRollback
  DEF Next, Proceed
<1> QED
  BY <1>5, <1>6

(* In every draw in which each waited-for slot has one feeder, whichever   *)
(* calls overlap, repeat a completion or fail half way: the committed slot *)
(* of the next match holds the winner of every match that has one          *)
(* (the transaction of applyScoreEvent and endMatch).                      *)
THEOREM WinnerAlwaysAdvanced == Spec => []WinnerAdvanced
<1>1. AdvanceIInv => WinnerAdvanced
  BY DEF AdvanceIInv
<1> QED
  BY InitTyping, NextTyping, AdvanceInit, AdvanceNext, <1>1, PTL DEF Spec

-----------------------------------------------------------------------------
(* What readers see of a call is one operation of AtomicBracket.  The rows *)
(* a transaction holds are at every statement the committed ones with what *)
(* it has written so far, so that its commit shows the whole effect of     *)
(* completing the match on rows nobody else has touched meanwhile.         *)

LoserSeated(h) ==
  pc[h] \in {"mat", "next", "swap", "commit"} /\ call[h].loser # None

Written(h, n) ==
  LET m == call[h].match
  IN  \/ n = m
      \/ Past(h) /\ n = WinnerTo[m]
      \/ LoserSeated(h) /\ n = LoserTo[m]

WrittenRow(h, n) ==
  LET m      == call[h].match
      kept   == IF n = m THEN Completed(db[m], call[h], work[m].scores) ELSE db[n]
      placed == IF Past(h) /\ n = WinnerTo[m]
                THEN Seated(kept, WinnerSide[m], call[h].winner) ELSE kept
  IN  IF LoserSeated(h) /\ n = LoserTo[m]
      THEN Seated(placed, call[h].side, call[h].loser) ELSE placed

EffectOK(h) ==
  InTransaction(h) =>
    /\ call[h].loser = Loser(db[call[h].match], call[h].winner)
    /\ pc[h] = "place" => call[h].loser # None
    /\ (pc[h] = "place" \/ (LoserSeated(h) /\ LoserTo[call[h].match] # None))
         /\ LoserSide[call[h].match] # FirstFree
         => call[h].side = LoserSide[call[h].match]
    /\ \A n \in Matches :
         /\ lock[n] = h <=> Written(h, n)
         /\ lock[n] = h => work[n] = WrittenRow(h, n)

(* A call that has read that its match was started never sees it SCHEDULED *)
(* again.                                                                  *)
Begun(h) ==
  pc[h] \notin {"idle", "start"} => db[call[h].match].status # "SCHEDULED"

EffectIInv == \A h \in Handlers : EffectOK(h) /\ Begun(h)

(* Rows and calls that a step of another call leaves alone.                *)
Undisturbed(g) ==
  /\ pc'[g] = pc[g] /\ call'[g] = call[g]
  /\ \A n \in Matches :
       /\ lock[n] = g => db'[n] = db[n] /\ work'[n] = work[n] /\ lock'[n] = g
       /\ lock[n] # g => lock'[n] # g

LEMMA OthersUndisturbed ==
  ASSUME Typing, NEW h \in Handlers, Request(h) \/ Proceed(h) \/ Rollback(h),
         NEW g \in Handlers, g # h
  PROVE  Undisturbed(g)
<1> USE DEF Typing, TypeOK
<1>1. h # None /\ g # None
  BY QueueTypes
<1>2. pc'[g] = pc[g] /\ call'[g] = call[g]
  <2>1. CASE Request(h)
    BY <2>1, RequestOnlyReads DEF OnlyReads
  <2>2. CASE Proceed(h)
    BY <2>2 DEF Proceed, Return, Goto, WriteStart, WriteGoldenScore, WriteScores,
       WriteResult, AdvanceWinner, NoNextMatch, FindLoserSlot, LoserIsOut,
       PlaceLoser, ReadMat, FindNext, SwapAndCommit, Commit
  <2>3. CASE Rollback(h)
    BY <2>3 DEF Rollback, Return, Goto
  <2> QED
    BY <2>1, <2>2, <2>3
<1>3. CASE UNCHANGED rows
  BY <1>2, <1>3 DEF Undisturbed, rows
<1>4. ASSUME NEW m, NEW new, UpdateNow(m, new) PROVE Undisturbed(g)
  BY <1>1, <1>2, <1>4 DEF Undisturbed, UpdateNow, Free
<1>5. ASSUME NEW m, NEW new, Update(h, m, new) PROVE Undisturbed(g)
  BY <1>1, <1>2, <1>5 DEF Undisturbed, Update, Lockable
<1>6. CASE Flush(h)
  BY <1>1, <1>2, <1>6 DEF Undisturbed, Flush, View
<1>7. CASE Rollback(h)
  BY <1>1, <1>2, <1>7 DEF Undisturbed, Rollback
<1>8. CASE Request(h)
  BY <1>3, <1>8, RequestOnlyReads DEF OnlyReads
<1>9. CASE Proceed(h)
  <2>1. CASE WriteStart(h) \/ WriteGoldenScore(h) \/ WriteScores(h)
    BY <1>4, <2>1 DEF WriteStart, WriteGoldenScore, WriteScores
  <2>2. CASE WriteResult(h) \/ AdvanceWinner(h) \/ PlaceLoser(h)
    BY <1>5, <2>2 DEF WriteResult, AdvanceWinner, PlaceLoser
  <2>3. CASE NoNextMatch(h) \/ FindLoserSlot(h) \/ LoserIsOut(h) \/ ReadMat(h)
             \/ FindNext(h)
    BY <1>3, <2>3 DEF NoNextMatch, FindLoserSlot, LoserIsOut, ReadMat, FindNext
  <2>4. CASE SwapAndCommit(h) \/ Commit(h)
    BY <1>6, <2>4 DEF SwapAndCommit, Commit
  <2> QED
    BY <1>9, <2>1, <2>2, <2>3, <2>4 DEF Proceed
<1> QED
  BY <1>3, <1>4, <1>5, <1>6, <1>7, <1>8, <1>9

LEMMA EffectUndisturbed ==
  ASSUME Typing, NEW g \in Handlers, Undisturbed(g), EffectOK(g)
  PROVE  EffectOK(g)'
<1> SUFFICES ASSUME InTransaction(g)' PROVE EffectOK(g)'
  BY DEF EffectOK
<1> DEFINE m == call[g].match
<1>1. pc'[g] = pc[g] /\ call'[g] = call[g] /\ InTransaction(g)
  BY DEF Undisturbed, InTransaction, Past
<1>2. m \in Matches /\ lock[m] = g
  BY <1>1 DEF InTransaction, Past, EffectOK, Written, Typing, CallOK
<1>3. db'[m] = db[m] /\ work'[m] = work[m]
  BY <1>2 DEF Undisturbed
<1>4. \A n \in Matches : Written(g, n)' <=> Written(g, n)
  BY <1>1 DEF Written, LoserSeated, Past
<1>5. \A n \in Matches : db'[n] = db[n] => WrittenRow(g, n)' = WrittenRow(g, n)
  BY <1>1, <1>3 DEF WrittenRow, LoserSeated, Past
<1>6. \A n \in Matches : (lock[n] = g => db'[n] = db[n] /\ work'[n] = work[n]) /\ (lock'[n] = g <=> lock[n] = g)
  BY DEF Undisturbed
<1>7. LoserSeated(g)' <=> LoserSeated(g)
  BY <1>1 DEF LoserSeated
<1> QED
  BY <1>1, <1>2, <1>3, <1>4, <1>5, <1>6, <1>7 DEF EffectOK

(* The transaction's own statements.                                       *)
LEMMA EffectWriteResult ==
  ASSUME Typing, AdvanceIInv, NEW h \in Handlers, WriteResult(h)
  PROVE  EffectOK(h)'
<1> DEFINE m == call[h].match
           scores == IF pc[h] = "decide" THEN call[h].scores ELSE work[m].scores
           new    == Completed(work[m], call[h], scores)
<1>1. m \in Matches /\ work[m] \in Row /\ h # None
  BY QueueTypes DEF WriteResult, Typing, TypeOK, CallOK
<1>2. Update(h, m, new) /\ pc' = [pc EXCEPT ![h] = "winner"]
      /\ call' = [call EXCEPT ![h].loser = Loser(work[m], call[h].winner)]
  BY DEF WriteResult, Goto
<1>3. \A n \in Matches : lock[n] # h
  BY DEF AdvanceIInv, LocksHeld, InTransaction, Past, WriteResult
<1>4. work[m] = db[m]
  BY <1>1, <1>2, <1>3 DEF AdvanceIInv, FreeRows, Update, Lockable
<1>5. /\ pc'[h] = "winner" /\ call'[h].loser = Loser(db[m], call[h].winner)
      /\ call'[h].match = m /\ call'[h].winner = call[h].winner
      /\ call'[h].winMethod = call[h].winMethod
  BY <1>2, <1>4 DEF Typing, TypeOK, Call
<1>6. db' = db /\ \A n \in Matches : lock'[n] = h <=> n = m
  BY <1>1, <1>2, <1>3 DEF Update, Typing, TypeOK
<1>7. work'[m] = Completed(db[m], call[h], scores)
  BY <1>1, <1>2, <1>4 DEF Update, Typing, TypeOK
<1>8. work'[m].scores = scores
  BY <1>1, <1>4, <1>7 DEF Completed, Row
<1>9. \A n \in Matches : Written(h, n)' <=> n = m
  BY <1>5 DEF Written, Past, LoserSeated
<1>10. WrittenRow(h, m)' = Completed(db[m], call[h], scores)
  BY <1>5, <1>6, <1>8 DEF WrittenRow, Past, LoserSeated, Completed
<1> QED
  BY <1>5, <1>6, <1>7, <1>9, <1>10 DEF EffectOK, LoserSeated

LEMMA EffectAdvanceWinner ==
  ASSUME Typing, AdvanceIInv, NEW h \in Handlers, EffectOK(h), AdvanceWinner(h)
  PROVE  EffectOK(h)'
<1> DEFINE m == call[h].match
           target == WinnerTo[m]
           new == Seated(work[target], WinnerSide[m], call[h].winner)
<1>1. m \in Matches /\ h # None /\ InTransaction(h) /\ pc[h] = "winner"
  BY QueueTypes DEF AdvanceWinner, Typing, TypeOK, CallOK, InTransaction
<1>2. target \in Matches /\ target # m
  BY <1>1, DrawTypes, OneFeederPerSlot DEF AdvanceWinner, MaybeMatch
<1>3. Update(h, target, new) /\ pc' = [pc EXCEPT ![h] = "loser"] /\ call' = call
  BY DEF AdvanceWinner, Goto
<1>4. pc'[h] = "loser"
  BY <1>3 DEF Typing, TypeOK
<1>5. /\ call[h].loser = Loser(db[m], call[h].winner)
      /\ \A n \in Matches : lock[n] = h <=> n = m
      /\ work[m] = Completed(db[m], call[h], work[m].scores)
  BY <1>1 DEF EffectOK, Written, WrittenRow, Past, LoserSeated
<1>6. work[target] = db[target]
  BY <1>2, <1>3, <1>5 DEF AdvanceIInv, FreeRows, Update, Lockable
<1>7. db' = db /\ \A n \in Matches : lock'[n] = h <=> n \in {m, target}
  BY <1>2, <1>3, <1>5 DEF Update, Typing, TypeOK
<1>8. work'[m] = work[m] /\ work'[target] = Seated(db[target], WinnerSide[m], call[h].winner)
  BY <1>1, <1>2, <1>3, <1>6 DEF Update, Typing, TypeOK
<1>9. \A n \in Matches : Written(h, n)' <=> n \in {m, target}
  BY <1>3, <1>4 DEF Written, Past, LoserSeated
<1>10. WrittenRow(h, m)' = work'[m]
  BY <1>2, <1>3, <1>4, <1>5, <1>7, <1>8 DEF WrittenRow, LoserSeated
<1>11. WrittenRow(h, target)' = work'[target]
  BY <1>2, <1>3, <1>4, <1>7, <1>8 DEF WrittenRow, LoserSeated, Past
<1> QED
  BY <1>3, <1>4, <1>5, <1>7, <1>9, <1>10, <1>11 DEF EffectOK, LoserSeated

LEMMA EffectPlaceLoser ==
  ASSUME Typing, AdvanceIInv, NEW h \in Handlers, EffectOK(h), PlaceLoser(h)
  PROVE  EffectOK(h)'
<1> DEFINE m == call[h].match
           target == LoserTo[m]
           new == Seated(work[target], call[h].side, call[h].loser)
           placed(n) == IF n = WinnerTo[m] THEN Seated(db[n], WinnerSide[m], call[h].winner)
                                           ELSE db[n]
<1>1. m \in Matches /\ h # None /\ InTransaction(h) /\ pc[h] = "place" /\ Past(h)
  BY QueueTypes DEF PlaceLoser, Typing, TypeOK, CallOK, InTransaction, Past
<1>2. target \in Matches /\ target # m /\ target # None /\ WinnerTo[m] # m
  BY <1>1, DrawTypes, OneFeederPerSlot DEF Typing, CallOK, MaybeMatch
<1>3. Update(h, target, new) /\ pc' = [pc EXCEPT ![h] = "mat"] /\ call' = call
  BY DEF PlaceLoser, Goto
<1>4. pc'[h] = "mat"
  BY <1>3 DEF Typing, TypeOK
<1>5. /\ call[h].loser = Loser(db[m], call[h].winner) /\ call[h].loser # None
      /\ LoserSide[m] # FirstFree => call[h].side = LoserSide[m]
      /\ \A n \in Matches : lock[n] = h <=> n \in {m, WinnerTo[m]}
      /\ work[m] = Completed(db[m], call[h], work[m].scores)
      /\ \A n \in Matches : lock[n] = h /\ n # m => work[n] = placed(n)
  BY <1>1, <1>2 DEF EffectOK, Written, WrittenRow, LoserSeated
<1>6. work[target] = placed(target)
  BY <1>1, <1>2, <1>3, <1>5 DEF AdvanceIInv, FreeRows, Update, Lockable
<1>7. db' = db /\ \A n \in Matches : lock'[n] = h <=> n \in {m, WinnerTo[m], target}
  BY <1>2, <1>3, <1>5 DEF Update, Typing, TypeOK
<1>8. /\ \A n \in Matches : n # target => work'[n] = work[n]
      /\ work'[target] = Seated(placed(target), call[h].side, call[h].loser)
  BY <1>1, <1>2, <1>3, <1>6 DEF Update, Typing, TypeOK
<1>9. \A n \in Matches : Written(h, n)' <=> n \in {m, WinnerTo[m], target}
  BY <1>3, <1>4, <1>5 DEF Written, Past, LoserSeated
<1>10. WrittenRow(h, m)' = work'[m]
  BY <1>1, <1>2, <1>3, <1>4, <1>5, <1>7, <1>8 DEF WrittenRow
<1>11. \A n \in Matches : lock'[n] = h /\ n # m => WrittenRow(h, n)' = work'[n]
  <2> SUFFICES ASSUME NEW n \in Matches, n # m, lock'[n] = h
               PROVE  WrittenRow(h, n)' = work'[n]
    OBVIOUS
  <2>1. WrittenRow(h, n)' = IF n = target
                            THEN Seated(placed(n), call[h].side, call[h].loser)
                            ELSE placed(n)
    BY <1>3, <1>4, <1>5, <1>7 DEF WrittenRow, LoserSeated, Past
  <2>2. n # target => n = WinnerTo[m] /\ work'[n] = placed(n)
    BY <1>5, <1>7, <1>8
  <2> QED
    BY <1>8, <2>1, <2>2
<1> QED
  BY <1>3, <1>4, <1>5, <1>7, <1>9, <1>10, <1>11 DEF EffectOK, LoserSeated

(* Between its writes a transaction chooses the loser's side and nothing   *)
(* else its rows depend on.                                                *)
LEMMA EffectReads ==
  ASSUME Typing, NEW h \in Handlers, EffectOK(h), UNCHANGED rows,
         InTransaction(h),
         Past(h)' , Past(h) \/ WinnerTo[call[h].match] = None,
         LoserTo[call[h].match] # None => (LoserSeated(h)' <=> LoserSeated(h)),
         pc'[h] = "place" =>
           /\ call[h].loser # None
           /\ LoserSide[call[h].match] # FirstFree =>
                call'[h].side = LoserSide[call[h].match],
         pc'[h] # "place" => call'[h].side = call[h].side,
         ~(pc'[h] = "place" /\ LoserSeated(h)),
         call'[h].match = call[h].match, call'[h].winner = call[h].winner,
         call'[h].winMethod = call[h].winMethod, call'[h].loser = call[h].loser
  PROVE  EffectOK(h)'
<1> DEFINE m == call[h].match
<1>1. m \in Matches /\ m # None
  BY DrawTypes DEF InTransaction, Past, Typing, CallOK
<1>2. db' = db /\ work' = work /\ lock' = lock
  BY DEF rows
<1>3. \A n \in Matches : /\ n = WinnerTo[m] => (Past(h)' <=> Past(h))
                         /\ n = LoserTo[m] => (LoserSeated(h)' <=> LoserSeated(h))
  BY DrawTypes
<1>4. \A n \in Matches : Written(h, n)' <=> Written(h, n)
  BY <1>3 DEF Written
<1>5. LoserSeated(h)' => pc'[h] # "place"
  BY DEF LoserSeated
<1>6. \A n \in Matches : WrittenRow(h, n)' = WrittenRow(h, n)
  BY <1>2, <1>3, <1>5 DEF WrittenRow, Completed
<1> QED
  BY <1>1, <1>2, <1>4, <1>5, <1>6 DEF EffectOK

LEMMA EffectBetween ==
  ASSUME Typing, NEW h \in Handlers, EffectOK(h),
         NoNextMatch(h) \/ FindLoserSlot(h) \/ LoserIsOut(h) \/ ReadMat(h)
           \/ FindNext(h)
  PROVE  EffectOK(h)'
<1> DEFINE m == call[h].match
<1> USE DEF Goto, InTransaction, Past, LoserSeated, Typing, TypeOK
<1>1. CASE NoNextMatch(h)
  BY <1>1, EffectReads DEF NoNextMatch
<1>2. CASE FindLoserSlot(h)
  <2> DEFINE side == IF LoserSide[m] = FirstFree THEN FreeSide(View(h, LoserTo[m]))
                                                 ELSE LoserSide[m]
  <2>1. call' = [call EXCEPT ![h].side = side]
    BY <1>2 DEF FindLoserSlot
  <2>2. LoserSide[m] # FirstFree => side = LoserSide[m]
    OBVIOUS
  <2> HIDE DEF side
  <2>3. /\ call'[h].match = m
        /\ call'[h].winner = call[h].winner
        /\ call'[h].winMethod = call[h].winMethod
        /\ call'[h].loser = call[h].loser
        /\ call'[h].side = side
    BY <2>1 DEF Call
  <2> QED
    BY <1>2, <2>2, <2>3, EffectReads DEF FindLoserSlot
<1>3. CASE LoserIsOut(h)
  BY <1>3, EffectReads DEF LoserIsOut
<1>4. CASE ReadMat(h)
  BY <1>4, EffectReads DEF ReadMat
<1>5. CASE FindNext(h)
  <2> DEFINE next == IF Queue(h, m) = {} THEN None ELSE First(Queue(h, m))
  <2>1. call' = [call EXCEPT ![h].next = next]
    BY <1>5 DEF FindNext
  <2> HIDE DEF next
  <2>2. /\ call'[h].match = m
        /\ call'[h].winner = call[h].winner
        /\ call'[h].winMethod = call[h].winMethod
        /\ call'[h].loser = call[h].loser
        /\ call'[h].side = call[h].side
    BY <2>1 DEF Call
  <2> QED
    BY <1>5, <2>2, EffectReads DEF FindNext
<1> QED
  BY <1>1, <1>2, <1>3, <1>4, <1>5

(* What a reader sees of a match never becomes SCHEDULED again.            *)
LEMMA StatusKept ==
  ASSUME Typing, AdvanceIInv, NEW h \in Handlers, EffectOK(h),
         Request(h) \/ Proceed(h) \/ Rollback(h),
         NEW n \in Matches, db[n].status # "SCHEDULED"
  PROVE  db'[n].status # "SCHEDULED"
<1> DEFINE m == call[h].match
<1>1. pc[h] # "idle" => m \in Matches /\ work[m] \in Row
  BY DEF Typing, TypeOK, CallOK
<1>2. db[n] \in Row
  BY DEF Typing, TypeOK
<1>3. ASSUME NEW new, pc[h] # "idle", UpdateNow(m, new),
             new.status \in {"ACTIVE", work[m].status}
      PROVE  db'[n].status # "SCHEDULED"
  BY <1>1, <1>3 DEF UpdateNow, Free, AdvanceIInv, FreeRows, Typing, TypeOK
<1>4. CASE WriteStart(h)
  BY <1>1, <1>3, <1>4 DEF WriteStart, Row
<1>5. CASE WriteGoldenScore(h)
  BY <1>1, <1>3, <1>5 DEF WriteGoldenScore, Row
<1>6. CASE WriteScores(h)
  BY <1>1, <1>3, <1>6 DEF WriteScores, Row
<1>7. CASE SwapAndCommit(h) \/ Commit(h)
  <2>1. InTransaction(h) /\ db'[n] = View(h, n)
    BY <1>7 DEF SwapAndCommit, Commit, Flush, InTransaction, Past
  <2>2. lock[n] = h => work[n] = WrittenRow(h, n)
    BY <2>1 DEF EffectOK
  <2>3. WrittenRow(h, n).status \in {"COMPLETED", db[n].status}
    BY <1>2 DEF WrittenRow, Completed, Seated, Row
  <2> QED
    BY <2>1, <2>2, <2>3 DEF View
<1>8. CASE UNCHANGED db
  BY <1>8
<1>9. Request(h) \/ Rollback(h) => UNCHANGED db
  BY RequestOnlyReads DEF OnlyReads, rows, Rollback
<1> QED
  BY <1>4, <1>5, <1>6, <1>7, <1>8, <1>9
  DEF Proceed, WriteResult, AdvanceWinner, NoNextMatch, FindLoserSlot,
      LoserIsOut, PlaceLoser, ReadMat, FindNext, Update, rows

LEMMA BegunNext ==
  ASSUME Typing, AdvanceIInv, EffectIInv, NEW h \in Handlers,
         Request(h) \/ Proceed(h) \/ Rollback(h), NEW g \in Handlers
  PROVE  Begun(g)'
<1> SUFFICES ASSUME pc'[g] \notin {"idle", "start"}
             PROVE  db'[call'[g].match].status # "SCHEDULED"
  BY DEF Begun
<1>1. ASSUME pc[g] \notin {"idle", "start"}, call'[g].match = call[g].match
      PROVE  db'[call'[g].match].status # "SCHEDULED"
  BY <1>1, StatusKept DEF EffectIInv, Begun, Typing, CallOK
<1>2. CASE g # h
  BY <1>1, <1>2, OthersUndisturbed DEF Undisturbed
<1>3. CASE g = h /\ Request(h)
  <2>1. db' = db
    BY <1>3, RequestOnlyReads DEF OnlyReads, rows
  <2> USE DEF Goto, ReadMatch, Typing, TypeOK
  <2>2. ASSUME NEW m \in Called, StartMatch(h, m) PROVE FALSE
    BY <1>3, <2>2 DEF StartMatch
  <2>3. ASSUME NEW m \in Called, db[m].status = "ACTIVE", call'[h].match = m
        PROVE  db'[call'[g].match].status # "SCHEDULED"
    BY <1>3, <2>1, <2>3
  <2>4. ASSUME NEW m \in Called, EnableGoldenScore(h, m)
        PROVE  db[m].status = "ACTIVE" /\ call'[h].match = m
    BY <2>4 DEF EnableGoldenScore, Call
  <2>5. ASSUME NEW m \in Called, NEW c \in Competitors, NEW type \in EventTypes,
               ScoreEvent(h, m, c, type)
        PROVE  db[m].status = "ACTIVE" /\ call'[h].match = m
    <3> DEFINE scores == Scored(db[m].scores, SideOf(db[m], c), type)
    <3>1. db[m].status = "ACTIVE"
          /\ call' = [call EXCEPT ![h].match = m, ![h].scores = scores]
      BY <2>5 DEF ScoreEvent
    <3> HIDE DEF scores
    <3> QED
      BY <3>1 DEF Call
  <2>6. ASSUME NEW m \in Called, NEW c \in Competitors, NEW type \in EventTypes,
               DecidingEvent(h, m, c, type)
        PROVE  db[m].status = "ACTIVE" /\ call'[h].match = m
    <3> DEFINE side == SideOf(db[m], c)
               scores == Scored(db[m].scores, side, type)
               winner == db[m].competitor[WinningSide(side, scores[side], type)]
               winMethod == MethodOf(scores[side], type)
    <3>1. db[m].status = "ACTIVE"
          /\ call' = [call EXCEPT ![h].match = m, ![h].scores = scores,
                                  ![h].winner = winner, ![h].winMethod = winMethod]
      BY <2>6 DEF DecidingEvent
    <3> HIDE DEF side, scores, winner, winMethod
    <3> QED
      BY <3>1 DEF Call
  <2>7. ASSUME NEW m \in Called, NEW c \in Competitors, NEW winMethod \in EndMethods,
               EndMatch(h, m, c, winMethod)
        PROVE  db[m].status = "ACTIVE" /\ call'[h].match = m
    BY <2>7 DEF EndMatch, Call
  <2>8. ASSUME NEW mat \in Mats, NEW m \in Called, AssignMatchToMat(h, mat, m)
        PROVE  FALSE
    BY <1>3, <2>8 DEF AssignMatchToMat
  <2> QED
    BY <1>3, <2>2, <2>3, <2>4, <2>5, <2>6, <2>7, <2>8 DEF Request
<1>4. CASE g = h /\ (Proceed(h) \/ Rollback(h))
  <2>1. pc'[h] # "idle" => pc[h] \notin {"idle", "start"}
    BY <1>4 DEF Proceed, Rollback, Return, Goto, WriteStart, WriteGoldenScore,
       WriteScores, WriteResult, AdvanceWinner, NoNextMatch, FindLoserSlot,
       LoserIsOut, PlaceLoser, ReadMat, FindNext, SwapAndCommit, Commit, Typing, TypeOK
  <2>2. pc'[h] # "idle" => call'[h].match = call[h].match
    <3>1. CASE WriteResult(h)
      <4> DEFINE loser == Loser(work[call[h].match], call[h].winner)
      <4>1. call' = [call EXCEPT ![h].loser = loser]
        BY <3>1 DEF WriteResult
      <4> HIDE DEF loser
      <4> QED
        BY <4>1 DEF Call, Typing, TypeOK
    <3>2. CASE FindLoserSlot(h)
      <4>1. PICK side : call' = [call EXCEPT ![h].side = side]
        BY <3>2 DEF FindLoserSlot
      <4> QED
        BY <4>1 DEF Call, Typing, TypeOK
    <3>3. CASE FindNext(h)
      <4>1. PICK next : call' = [call EXCEPT ![h].next = next]
        BY <3>3 DEF FindNext
      <4> QED
        BY <4>1 DEF Call, Typing, TypeOK
    <3> QED
      BY <1>4, <3>1, <3>2, <3>3 DEF Proceed, Rollback, Return, Goto, WriteStart,
         WriteGoldenScore, WriteScores, AdvanceWinner, NoNextMatch, LoserIsOut,
         PlaceLoser, ReadMat, SwapAndCommit, Commit, Typing, TypeOK
  <2> QED
    BY <1>1, <1>4, <2>1, <2>2
<1> QED
  BY <1>2, <1>3, <1>4

LEMMA EffectInit == Init => EffectIInv
BY DEF Init, EffectIInv, EffectOK, Begun, InTransaction, Past

LEMMA EffectNext ==
  Typing /\ AdvanceIInv /\ EffectIInv /\ [Next]_vars => EffectIInv'
<1> SUFFICES ASSUME Typing, AdvanceIInv, EffectIInv, [Next]_vars PROVE EffectIInv'
  OBVIOUS
<1>1. CASE Next
  <2>1. PICK h \in Handlers : Request(h) \/ Proceed(h) \/ Rollback(h)
    BY <1>1 DEF Next
  <2>2. \A g \in Handlers : g # h => EffectOK(g)'
    BY <2>1, OthersUndisturbed, EffectUndisturbed DEF EffectIInv
  <2>3. EffectOK(h)
    BY DEF EffectIInv
  <2>4. ASSUME ~InTransaction(h)' PROVE EffectOK(h)'
    BY <2>4 DEF EffectOK
  <2>5. ASSUME Request(h) \/ Rollback(h) PROVE EffectOK(h)'
    BY <2>4, <2>5, RequestOnlyReads
    DEF OnlyReads, Rollback, Return, Goto, InTransaction, Past, Typing, TypeOK
  <2>6. ASSUME Proceed(h) PROVE EffectOK(h)'
    <3>1. CASE WriteStart(h) \/ WriteGoldenScore(h) \/ WriteScores(h)
               \/ SwapAndCommit(h) \/ Commit(h)
      <4>1. Return(h)
        BY <3>1 DEF WriteStart, WriteGoldenScore, WriteScores, SwapAndCommit, Commit
      <4> QED
        BY <2>4, <4>1 DEF Return, Goto, InTransaction, Past, Typing, TypeOK
    <3> QED
      BY <2>3, <2>6, <3>1, EffectWriteResult, EffectAdvanceWinner,
         EffectPlaceLoser, EffectBetween DEF Proceed
  <2> QED
    BY <2>1, <2>2, <2>5, <2>6, BegunNext DEF EffectIInv
<1>2. CASE UNCHANGED vars
  BY <1>2 DEF vars, EffectIInv, EffectOK, Begun, InTransaction, Past, Written,
              WrittenRow, LoserSeated
<1> QED
  BY <1>1, <1>2

(* Each statement, as AtomicBracket sees it.                               *)
LEMMA BracketOperators ==
  /\ Bracket!EmptyScores = EmptyScores
  /\ \A scores : Bracket!Undecided(scores) <=> Undecided(scores)
  /\ \A r, winner : Bracket!Loser(r, winner) = Loser(r, winner)
  /\ \A m : Bracket!DrawnRow(m) = DrawnRow(m)
  /\ Bracket!WinMethods = WinMethods /\ Bracket!Sides = Sides
  /\ Bracket!FirstFree = FirstFree
BY DEF Bracket!EmptyScores, EmptyScores, Bracket!EmptyScore, EmptyScore,
   Bracket!Undecided, Undecided, Bracket!Loser, Loser, Bracket!DrawnRow, DrawnRow,
   Bracket!ByeWinner, ByeWinner, Bracket!WinMethods, WinMethods, Bracket!Sides,
   Sides, Bracket!FirstFree, FirstFree

LEMMA SingleWritesMap ==
  ASSUME Typing, ScoresIInv, AdvanceIInv, EffectIInv, NEW h \in Handlers,
         WriteStart(h) \/ WriteGoldenScore(h) \/ WriteScores(h)
  PROVE  Bracket!Next
<1> DEFINE m == call[h].match
<1>1. m \in Matches /\ work[m] \in Row /\ db[m] \in Row
  BY DEF WriteStart, WriteGoldenScore, WriteScores, Typing, TypeOK, CallOK
<1>2. work[m] = db[m]
  BY <1>1 DEF WriteStart, WriteGoldenScore, WriteScores, UpdateNow, Free,
              AdvanceIInv, FreeRows
<1>3. CASE WriteStart(h)
  <2>1. db' = [db EXCEPT ![m] = [db[m] EXCEPT !.status = "ACTIVE",
                                              !.scores = EmptyScores]]
    BY <1>2, <1>3 DEF WriteStart, UpdateNow
  <2>2. Bracket!Start(m)
    BY <1>1, <2>1, BracketOperators DEF Bracket!Start, Typing, TypeOK
  <2> QED
    BY <1>1, <2>2 DEF Bracket!Next
<1>4. CASE WriteGoldenScore(h)
  <2>1. db' = [db EXCEPT ![m] = [db[m] EXCEPT !.goldenScore = TRUE]]
    BY <1>2, <1>4 DEF WriteGoldenScore, UpdateNow
  <2>2. db[m].status # "SCHEDULED"
    BY <1>4 DEF WriteGoldenScore, EffectIInv, Begun
  <2>3. Bracket!GoldenScore(m)
    BY <1>1, <2>1, <2>2 DEF Bracket!GoldenScore, Typing, TypeOK
  <2> QED
    BY <1>1, <2>3 DEF Bracket!Next
<1>5. CASE WriteScores(h)
  <2>1. db' = [db EXCEPT ![m] = [db[m] EXCEPT !.scores = call[h].scores]]
    BY <1>2, <1>5 DEF WriteScores, UpdateNow
  <2>2. db[m].status # "SCHEDULED" /\ Undecided(call[h].scores)
    BY <1>5 DEF WriteScores, EffectIInv, Begun, ScoresIInv
  <2>3. db'[m].scores = call[h].scores
    BY <1>1, <2>1 DEF Typing, TypeOK, Row
  <2>4. Bracket!KeepScore(m)
    BY <1>1, <2>1, <2>2, <2>3, BracketOperators DEF Bracket!KeepScore, Typing, TypeOK
  <2> QED
    BY <1>1, <2>4 DEF Bracket!Next
<1> QED
  BY <1>3, <1>4, <1>5

LEMMA CommitMaps ==
  ASSUME Typing, AdvanceIInv, EffectIInv, NEW h \in Handlers,
         pc[h] \in {"swap", "commit"}, Flush(h)
  PROVE  Bracket!Next
<1> DEFINE m == call[h].match
           winner == call[h].winner
           winMethod == call[h].winMethod
           loser == Loser(db[m], winner)
           seated == loser # None
           side == IF LoserTo[m] # None /\ seated THEN call[h].side
                   ELSE IF LoserSide[m] = FirstFree THEN 1 ELSE LoserSide[m]
<1>1. /\ InTransaction(h) /\ Past(h) /\ m \in Matches /\ m # None
      /\ winner \in Competitors /\ winMethod \in WinMethods
      /\ call[h].side \in Sides
  BY DrawTypes DEF InTransaction, Past, Typing, TypeOK, CallOK, Completing, Call
<1>2. WinnerTo[m] # m /\ LoserTo[m] # m
  BY <1>1, OneFeederPerSlot
<1>3. /\ call[h].loser = loser
      /\ LoserSeated(h) <=> seated
      /\ LoserTo[m] # None /\ seated /\ LoserSide[m] # FirstFree =>
           call[h].side = LoserSide[m]
      /\ \A n \in Matches : lock[n] = h => work[n] = WrittenRow(h, n)
      /\ \A n \in Matches : lock[n] # h => ~Written(h, n)
  BY <1>1 DEF EffectIInv, EffectOK, LoserSeated
<1>4. side \in Sides /\ (LoserSide[m] # FirstFree => side = LoserSide[m])
  <2>1. LoserSide[m] # FirstFree => LoserSide[m] \in Sides
    BY <1>1, DrawTypes
  <2>2. 1 \in Sides
    BY DEF Sides
  <2> QED
    BY <1>1, <1>3, <2>1, <2>2
<1>5. \A n \in Matches : db'[n] = WrittenRow(h, n)
  <2> SUFFICES ASSUME NEW n \in Matches PROVE db'[n] = WrittenRow(h, n)
    OBVIOUS
  <2>1. db'[n] = View(h, n)
    BY DEF Flush
  <2>2. lock[n] # h => WrittenRow(h, n) = db[n]
    BY <1>1, <1>3 DEF WrittenRow, Written
  <2> QED
    BY <1>3, <2>1, <2>2 DEF View
<1>6. db'[m] = Completed(db[m], call[h], work[m].scores)
  BY <1>1, <1>2, <1>5 DEF WrittenRow
<1>7. db'[m].scores = work[m].scores
  <2>1. db[m] \in Row
    BY <1>1 DEF Typing, TypeOK
  <2> QED
    BY <1>6, <2>1 DEF Completed, Row
<1>8. \A n \in Matches :
        WrittenRow(h, n)
          = Bracket!CompletedRow(m, winner, winMethod, work[m].scores, side, n)
  <2> SUFFICES ASSUME NEW n \in Matches
               PROVE  WrittenRow(h, n) = Bracket!CompletedRow(m, winner, winMethod,
                                            work[m].scores, side, n)
    OBVIOUS
  <2>1. n = LoserTo[m] => LoserTo[m] # None
    BY DrawTypes
  <2> HIDE DEF loser
  <2>2. n = LoserTo[m] /\ seated => side = call[h].side
    BY <2>1
  <2> HIDE DEF side
  <2>3. Bracket!Loser(db[m], winner) = loser
    BY BracketOperators DEF loser
  <2>4. CASE n = m
    <3>1. WrittenRow(h, n) = [db[n] EXCEPT !.status = "COMPLETED", !.winner = winner,
                                !.winMethod = winMethod, !.scores = work[m].scores]
      BY <1>2, <2>4 DEF WrittenRow, Completed
    <3> QED
      BY <1>2, <2>4, <3>1 DEF Bracket!CompletedRow
  <2>5. CASE n # m /\ n = LoserTo[m] /\ seated
    <3> DEFINE placed == IF n = WinnerTo[m]
                         THEN [db[n] EXCEPT !.competitor[WinnerSide[m]] = winner]
                         ELSE db[n]
    <3>1. WrittenRow(h, n) = Seated(placed, call[h].side, call[h].loser)
      BY <1>1, <1>3, <2>5 DEF WrittenRow, Seated
    <3>2. Bracket!CompletedRow(m, winner, winMethod, work[m].scores, side, n)
            = [placed EXCEPT !.competitor[side] = loser]
      BY <2>3, <2>5 DEF Bracket!CompletedRow
    <3> QED
      BY <1>3, <2>2, <2>5, <3>1, <3>2 DEF Seated
  <2>6. CASE n # m /\ ~(n = LoserTo[m] /\ seated)
    BY <1>1, <1>3, <2>3, <2>6 DEF WrittenRow, Seated, Bracket!CompletedRow
  <2> QED
    BY <2>4, <2>5, <2>6
<1>9. db' = [n \in Matches |->
               Bracket!CompletedRow(m, winner, winMethod, db'[m].scores, side, n)]
  <2>1. db' = [n \in Matches |-> db'[n]]
    BY DEF Flush
  <2> HIDE DEF winner, winMethod, side
  <2> QED
    BY <1>5, <1>7, <1>8, <2>1
<1>10. db[m].status # "SCHEDULED"
  BY DEF EffectIInv, Begun
<1>11. Bracket!Complete(m)
  <2> HIDE DEF winner, winMethod, side
  <2> QED
    BY <1>1, <1>4, <1>9, <1>10, BracketOperators DEF Bracket!Complete
<1> QED
  BY <1>1, <1>11 DEF Bracket!Next

LEMMA StepMaps ==
  Typing /\ ScoresIInv /\ AdvanceIInv /\ EffectIInv /\ [Next]_vars
    => [Bracket!Next]_db
<1> SUFFICES ASSUME Typing, ScoresIInv, AdvanceIInv, EffectIInv, [Next]_vars
             PROVE  Bracket!Next \/ UNCHANGED db
  OBVIOUS
<1>1. CASE UNCHANGED vars
  BY <1>1 DEF vars
<1>2. ASSUME NEW h \in Handlers, Request(h) \/ Rollback(h)
      PROVE  UNCHANGED db
  BY <1>2, RequestOnlyReads DEF OnlyReads, rows, Rollback
<1>3. ASSUME NEW h \in Handlers, SwapAndCommit(h) \/ Commit(h)
      PROVE  Bracket!Next
  BY <1>3, CommitMaps DEF SwapAndCommit, Commit
<1>4. ASSUME NEW h \in Handlers, Proceed(h)
      PROVE  Bracket!Next \/ UNCHANGED db
  BY <1>3, <1>4, SingleWritesMap
  DEF Proceed, WriteResult, AdvanceWinner, NoNextMatch, FindLoserSlot,
      LoserIsOut, PlaceLoser, ReadMat, FindNext, Update, rows
<1> QED
  BY <1>1, <1>2, <1>4 DEF Next

(* Whichever calls overlap, whatever they had read before and whichever    *)
(* statement fails: each change of the rows a reader sees is one whole     *)
(* operation of AtomicBracket (the atomicity boundary of applyScoreEvent   *)
(* and endMatch, with everything advanceWinner writes inside it).          *)
THEOREM ScoreboardIsAtomic == Spec => AtomicOperations
<1>1. Init => Bracket!Init
  BY BracketOperators DEF Init, Bracket!Init
<1> QED
  BY InitTyping, NextTyping, ScoresInit, ScoresNext, AdvanceInit, AdvanceNext,
     EffectInit, EffectNext, StepMaps, <1>1, PTL
  DEF Spec, AtomicOperations, Bracket!Spec

-----------------------------------------------------------------------------
(* One call at a time.  Then what a call has read of its match, of the mat *)
(* and of its queue is still so when it writes.                            *)

Reading(h) ==
  LET m == call[h].match
  IN  /\ pc[h] = "start" => db[m].status = "SCHEDULED"
      /\ pc[h] \notin {"idle", "start"} => db[m].status = "ACTIVE"
      /\ pc[h] \in {"next", "swap"} => IsCurrent(m)
      /\ pc[h] = "swap" =>
           call[h].next = IF Queue(h, m) = {} THEN None ELSE First(Queue(h, m))

LEMMA ReadingRequest ==
  ASSUME Typing, NEW h \in Handlers, Request(h)
  PROVE  Reading(h)'
<1> USE DEF Goto, ReadMatch, Typing, TypeOK, Reading
<1>1. db' = db
  BY RequestOnlyReads DEF OnlyReads, rows
<1>2. ASSUME NEW m \in Called, StartMatch(h, m) PROVE Reading(h)'
  BY <1>1, <1>2 DEF StartMatch, Call
<1>3. ASSUME NEW m \in Called, db[m].status = "ACTIVE", call'[h].match = m,
             pc'[h] \in {"golden", "score", "decide", "end"}
      PROVE  Reading(h)'
  BY <1>1, <1>3
<1>4. ASSUME NEW m \in Called, EnableGoldenScore(h, m) PROVE Reading(h)'
  BY <1>3, <1>4 DEF EnableGoldenScore, Call
<1>5. ASSUME NEW m \in Called, NEW c \in Competitors, NEW type \in EventTypes,
             ScoreEvent(h, m, c, type)
      PROVE  Reading(h)'
  <2> DEFINE scores == Scored(db[m].scores, SideOf(db[m], c), type)
  <2>1. db[m].status = "ACTIVE" /\ pc' = [pc EXCEPT ![h] = "score"]
        /\ call' = [call EXCEPT ![h].match = m, ![h].scores = scores]
    BY <1>5 DEF ScoreEvent
  <2> HIDE DEF scores
  <2>2. call'[h].match = m /\ pc'[h] = "score"
    BY <2>1 DEF Call
  <2> QED
    BY <1>3, <2>1, <2>2
<1>6. ASSUME NEW m \in Called, NEW c \in Competitors, NEW type \in EventTypes,
             DecidingEvent(h, m, c, type)
      PROVE  Reading(h)'
  <2> DEFINE side == SideOf(db[m], c)
             scores == Scored(db[m].scores, side, type)
             winner == db[m].competitor[WinningSide(side, scores[side], type)]
             winMethod == MethodOf(scores[side], type)
  <2>1. db[m].status = "ACTIVE" /\ pc' = [pc EXCEPT ![h] = "decide"]
        /\ call' = [call EXCEPT ![h].match = m, ![h].scores = scores,
                                ![h].winner = winner, ![h].winMethod = winMethod]
    BY <1>6 DEF DecidingEvent
  <2> HIDE DEF side, scores, winner, winMethod
  <2>2. call'[h].match = m /\ pc'[h] = "decide"
    BY <2>1 DEF Call
  <2> QED
    BY <1>3, <2>1, <2>2
<1>7. ASSUME NEW m \in Called, NEW c \in Competitors, NEW winMethod \in EndMethods,
             EndMatch(h, m, c, winMethod)
      PROVE  Reading(h)'
  BY <1>3, <1>7 DEF EndMatch, Call
<1>8. ASSUME NEW mat \in Mats, NEW m \in Called, AssignMatchToMat(h, mat, m)
      PROVE  Reading(h)'
  BY <1>8 DEF AssignMatchToMat
<1> QED
  BY <1>2, <1>4, <1>5, <1>6, <1>7, <1>8 DEF Request

LEMMA ReadingProceed ==
  ASSUME Typing, NEW h \in Handlers, Reading(h), Proceed(h) \/ Rollback(h)
  PROVE  Reading(h)'
<1> DEFINE m == call[h].match
<1>1. ASSUME Return(h) PROVE Reading(h)'
  BY <1>1 DEF Return, Goto, Reading, Typing, TypeOK
<1>2. CASE WriteStart(h) \/ WriteGoldenScore(h) \/ WriteScores(h)
           \/ SwapAndCommit(h) \/ Commit(h) \/ Rollback(h)
  BY <1>1, <1>2 DEF WriteStart, WriteGoldenScore, WriteScores, SwapAndCommit,
                    Commit, Rollback
<1>3. ASSUME db' = db, call'[h].match = m, pc[h] \notin {"idle", "start"},
             pc'[h] \in {"winner", "loser", "place", "mat", "commit"}
      PROVE  Reading(h)'
  BY <1>3 DEF Reading
<1>4. CASE WriteResult(h)
  <2> DEFINE loser == Loser(work[m], call[h].winner)
  <2>1. call' = [call EXCEPT ![h].loser = loser] /\ db' = db
        /\ pc' = [pc EXCEPT ![h] = "winner"] /\ pc[h] \in {"decide", "end"}
    BY <1>4 DEF WriteResult, Goto, Update
  <2> HIDE DEF loser
  <2>2. call'[h].match = m /\ pc'[h] = "winner"
    BY <2>1 DEF Call, Typing, TypeOK
  <2> QED
    BY <1>3, <2>1, <2>2
<1>5. CASE AdvanceWinner(h) \/ NoNextMatch(h) \/ LoserIsOut(h) \/ PlaceLoser(h)
  BY <1>3, <1>5
  DEF AdvanceWinner, NoNextMatch, LoserIsOut, PlaceLoser, Goto, Update, rows,
      Typing, TypeOK
<1>6. CASE FindLoserSlot(h)
  <2>1. PICK side : call' = [call EXCEPT ![h].side = side]
    BY <1>6 DEF FindLoserSlot
  <2>2. call'[h].match = m
    BY <2>1 DEF Call, Typing, TypeOK
  <2> QED
    BY <1>3, <1>6, <2>2 DEF FindLoserSlot, Goto, rows, Typing, TypeOK
<1>7. CASE ReadMat(h)
  BY <1>7 DEF ReadMat, Goto, rows, Reading, IsCurrent, Typing, TypeOK
<1>8. CASE FindNext(h)
  <2> DEFINE next == IF Queue(h, m) = {} THEN None ELSE First(Queue(h, m))
  <2>1. /\ call' = [call EXCEPT ![h].next = next] /\ pc' = [pc EXCEPT ![h] = "swap"]
        /\ pc[h] = "next" /\ UNCHANGED rows /\ current' = current
    BY <1>8 DEF FindNext, Goto
  <2>2. next' = next
    BY <2>1 DEF Queue, View, First, rows
  <2> HIDE DEF next
  <2>3. call'[h].match = m /\ call'[h].next = next /\ pc'[h] = "swap"
    BY <2>1 DEF Call, Typing, TypeOK
  <2> QED
    BY <2>1, <2>2, <2>3 DEF Reading, IsCurrent, rows, next, Queue, View, First
<1> QED
  BY <1>2, <1>4, <1>5, <1>6, <1>7, <1>8 DEF Proceed

SerialInv == Typing /\ AdvanceIInv /\ EffectIInv /\ \A h \in Handlers : Reading(h)

LEMMA SerialInit == Init => SerialInv
BY InitTyping, AdvanceInit, EffectInit DEF Init, SerialInv, Reading

LEMMA SerialNext ==
  ASSUME NEW only, Handlers = {only}
  PROVE  SerialInv /\ [Next]_vars => SerialInv'
<1> SUFFICES ASSUME SerialInv, [Next]_vars PROVE SerialInv'
  OBVIOUS
<1>1. Typing' /\ AdvanceIInv' /\ EffectIInv'
  BY NextTyping, AdvanceNext, EffectNext DEF SerialInv
<1>2. CASE Next
  BY <1>1, <1>2, ReadingRequest, ReadingProceed DEF Next, SerialInv
<1>3. CASE UNCHANGED vars
  BY <1>1, <1>3 DEF vars, SerialInv, Reading, IsCurrent, Queue, View, First
<1> QED
  BY <1>2, <1>3

Kept(m) ==
  db[m].status = "COMPLETED" =>
    /\ db'[m].status = "COMPLETED"
    /\ db'[m].winner = db[m].winner
    /\ db'[m].winMethod = db[m].winMethod
    /\ db'[m].scores = db[m].scores

LEMMA ResultKept ==
  ASSUME SerialInv, NEW h \in Handlers, Request(h) \/ Proceed(h) \/ Rollback(h),
         NEW n \in Matches
  PROVE  Kept(n)
<1> DEFINE m == call[h].match
<1> USE DEF Kept
<1>1. db[n] \in Row
  BY DEF SerialInv, Typing, TypeOK
<1>2. CASE UNCHANGED db
  BY <1>2
<1>3. Request(h) \/ Rollback(h) => UNCHANGED db
  BY RequestOnlyReads DEF SerialInv, OnlyReads, rows, Rollback
<1>4. CASE WriteStart(h) \/ WriteGoldenScore(h) \/ WriteScores(h)
  <2>1. pc[h] \in {"start", "golden", "score"} /\ \E new : UpdateNow(m, new)
    BY <1>4 DEF WriteStart, WriteGoldenScore, WriteScores
  <2>2. m \in Matches /\ db[m].status # "COMPLETED"
    BY <2>1 DEF SerialInv, Typing, CallOK, Reading
  <2> QED
    BY <2>1, <2>2 DEF UpdateNow, SerialInv, Typing, TypeOK
<1>5. CASE SwapAndCommit(h) \/ Commit(h)
  <2>1. /\ InTransaction(h) /\ pc[h] \notin {"idle", "start"} /\ db'[n] = View(h, n)
    BY <1>5 DEF SwapAndCommit, Commit, Flush, InTransaction, Past
  <2>2. db[m].status = "ACTIVE" /\ (lock[n] = h => work[n] = WrittenRow(h, n))
    BY <2>1 DEF SerialInv, EffectIInv, EffectOK, Reading
  <2>3. n # m => /\ WrittenRow(h, n).status = db[n].status
                 /\ WrittenRow(h, n).winner = db[n].winner
                 /\ WrittenRow(h, n).winMethod = db[n].winMethod
                 /\ WrittenRow(h, n).scores = db[n].scores
    BY <1>1 DEF WrittenRow, Seated, Row
  <2> QED
    BY <2>1, <2>2, <2>3 DEF View
<1> QED
  BY <1>2, <1>3, <1>4, <1>5
  DEF Proceed, WriteResult, AdvanceWinner, NoNextMatch, FindLoserSlot,
      LoserIsOut, PlaceLoser, ReadMat, FindNext, Update, rows

(* A completed match is not scored, restarted or given to somebody else    *)
(* when calls do not overlap (startMatch, applyScoreEvent and endMatch     *)
(* check the status they read), in every draw and whatever fails.          *)
THEOREM ResultsAreFinal ==
  ASSUME NEW only, Handlers = {only}
  PROVE  Spec => ResultIsFinal
<1>1. SerialInv /\ [Next]_vars => [\A m \in Matches : Kept(m)]_vars
  BY ResultKept DEF Next
<1>2. [\A m \in Matches : Kept(m)]_vars
        => [\A m \in Matches :
              db[m].status = "COMPLETED" =>
                /\ db'[m].status = "COMPLETED"
                /\ db'[m].winner = db[m].winner
                /\ db'[m].winMethod = db[m].winMethod
                /\ db'[m].scores = db[m].scores]_vars
  BY DEF Kept
<1> QED
  BY SerialInit, SerialNext, <1>1, <1>2, PTL DEF Spec, ResultIsFinal

LEMMA SwapFollowsQueue ==
  ASSUME SerialInv, NEW only, Handlers = {only}, Next,
         NEW h \in Handlers, NEW mat \in Mats, Swap(h, mat)
  PROVE  LET queue == {n \in Matches : MatOf[n] = mat /\ ReadyRow(db'[n])}
         IN  /\ current[mat] = call[h].match
             /\ current'[mat] = IF queue = {} THEN None ELSE First(queue)
<1> DEFINE m == call[h].match
           queue == {n \in Matches : MatOf[n] = mat /\ ReadyRow(db'[n])}
<1>1. SwapAndCommit(h) \/ Rollback(h)
  <2>1. pc[h] = "swap"
    BY DEF Swap
  <2>2. Request(h) \/ Proceed(h) \/ Rollback(h)
    BY DEF Next
  <2>3. ~Request(h)
    <3>1. Request(h) => pc[h] = "idle"
      BY RequestOnlyReads DEF SerialInv, OnlyReads
    <3> QED
      BY <2>1, <3>1
  <2> QED
    BY <2>1, <2>2, <2>3 DEF Proceed, WriteStart, WriteGoldenScore, WriteScores,
       WriteResult, AdvanceWinner, NoNextMatch, FindLoserSlot, LoserIsOut,
       PlaceLoser, ReadMat, FindNext, Commit
<1>2. SwapAndCommit(h)
  BY <1>1 DEF Swap, Rollback
<1>3. current' = [current EXCEPT ![MatOf[m]] = call[h].next] /\ Flush(h)
  BY <1>2 DEF SwapAndCommit
<1>4. MatOf[m] = mat
  BY <1>3 DEF Swap, SerialInv, Typing, TypeOK
<1>5. /\ current[mat] = m /\ InTransaction(h) /\ m \in Matches
      /\ call[h].next = IF Queue(h, m) = {} THEN None ELSE First(Queue(h, m))
  BY <1>4 DEF Swap, SerialInv, Reading, IsCurrent, InTransaction, Past, Typing, CallOK
<1>6. Queue(h, m) = queue
  <2>1. \A n \in Matches : db'[n] = View(h, n)
    BY <1>3 DEF Flush
  <2>2. View(h, m).status = "COMPLETED"
    <3>1. lock[m] = h /\ work[m] = WrittenRow(h, m)
      BY <1>5 DEF SerialInv, EffectIInv, EffectOK, Written
    <3>2. db[m] \in Row
      BY <1>5 DEF SerialInv, Typing, TypeOK
    <3>3. WrittenRow(h, m).status = "COMPLETED"
      BY <3>2 DEF WrittenRow, Completed, Seated, Row
    <3> QED
      BY <3>1, <3>3 DEF View
  <2>3. ~ReadyRow(View(h, m))
    BY <2>2 DEF ReadyRow
  <2> QED
    BY <1>4, <2>1, <2>3 DEF Queue
<1> QED
  BY <1>3, <1>4, <1>5, <1>6 DEF SerialInv, Typing, TypeOK

(* A mat moves on only from the match that was completed, and to the first *)
(* match of its queue that can be fought, when calls do not overlap        *)
(* (advanceMatQueue), whatever the draw, the mats and the order.           *)
THEOREM MatsFollowTheirQueues ==
  ASSUME NEW only, Handlers = {only}
  PROVE  Spec => MatFollowsQueue
<1> DEFINE Step == \A h \in Handlers, mat \in Mats :
             LET queue == {n \in Matches : MatOf[n] = mat /\ ReadyRow(db'[n])}
             IN  Swap(h, mat) =>
                   /\ current[mat] = call[h].match
                   /\ current'[mat] = IF queue = {} THEN None ELSE First(queue)
<1>1. SerialInv /\ [Next]_vars => [Step]_vars
  BY SwapFollowsQueue
<1>2. [Step]_vars => /\ [\A h \in Handlers, mat \in Mats :
                           Swap(h, mat) => current[mat] = call[h].match]_vars
                     /\ [\A h \in Handlers, mat \in Mats :
                           LET queue == {n \in Matches : MatOf[n] = mat
                                                           /\ ReadyRow(db'[n])}
                           IN  Swap(h, mat) =>
                                 current'[mat] = IF queue = {} THEN None
                                                 ELSE First(queue)]_vars
  OBVIOUS
<1> HIDE DEF Step
<1> QED
  BY SerialInit, SerialNext, <1>1, <1>2, PTL
  DEF Spec, MatFollowsQueue, OverrideKept, SwapsToQueueHead

-----------------------------------------------------------------------------
(* Losers, one call at a time.  The side a call has found free is still    *)
(* free when it commits, so the first loser of a shared match takes        *)
(* competitor1 and the second competitor2 (OneLoserPerSlot: there is no    *)
(* third).                                                                 *)

SideIsFree(h) ==
  LET m == call[h].match
  IN  /\ pc[h] = "place" \/ LoserSeated(h)
      /\ LoserTo[m] # None
      /\ LoserSide[m] = FirstFree
      => call[h].side = FreeSide(db[LoserTo[m]])

Drawn(m) == \A side \in Sides : Entrants[m][side] # None

Fought(m) == m \notin Byes /\ db[m].status = "COMPLETED"

LoserOf(m) == Loser(db[m], db[m].winner)

DrawnStay ==
  \A m \in Matches :
    Drawn(m) /\ LoserTo[m] # None => db[m].competitor = Entrants[m]

ByesStay == \A m \in Byes : db[m].status = "COMPLETED"

LosersOnTheirSide ==
  \A m \in Matches :
    Drawn(m) /\ Fought(m) /\ LoserTo[m] # None /\ LoserSide[m] # FirstFree
      => db[LoserTo[m]].competitor[LoserSide[m]] = LoserOf(m)

LosersInOrder ==
  \A m \in Matches :
    LoserTo[m] # None /\ LoserSide[m] = FirstFree =>
      LET taken(side) == db[LoserTo[m]].competitor[side] # None
          feeders == {n \in Matches : LoserTo[n] = LoserTo[m]}
      IN  /\ taken(1) => \E n \in feeders : Fought(n)
          /\ taken(2) => taken(1) /\ \A n \in feeders : Fought(n)
          /\ Drawn(m) /\ Fought(m) =>
               \E side \in Sides : db[LoserTo[m]].competitor[side] = LoserOf(m)

LosersIInv == DrawnStay /\ ByesStay /\ LosersOnTheirSide /\ LosersInOrder

SeatingInv == SerialInv /\ LosersIInv /\ \A h \in Handlers : SideIsFree(h)

LEMMA LosersInit ==
  ASSUME OneLoserPerSlot
  PROVE  Init => LosersIInv
<1> SUFFICES ASSUME Init PROVE LosersIInv
  OBVIOUS
<1>1. \A m \in Matches :
        /\ db[m].competitor = Entrants[m]
        /\ db[m].status = "COMPLETED" <=> m \in Byes
  BY DEF Init, DrawnRow
<1>2. DrawnStay /\ ByesStay /\ LosersOnTheirSide
  BY <1>1, DrawTypes DEF DrawnStay, ByesStay, LosersOnTheirSide, Fought
<1>3. LosersInOrder
  <2> SUFFICES ASSUME NEW m \in Matches, LoserTo[m] # None, LoserSide[m] = FirstFree
               PROVE  /\ ~Fought(m)
                      /\ \A side \in Sides : db[LoserTo[m]].competitor[side] = None
    BY DEF LosersInOrder, Sides
  <2>1. LoserTo[m] \in Matches
    BY DrawTypes DEF MaybeMatch
  <2> QED
    BY <1>1, <2>1 DEF OneLoserPerSlot, Fought
<1> QED
  BY <1>2, <1>3 DEF LosersIInv

(* The side is chosen from a row that the transaction has not written: a   *)
(* loser without a side of its own never meets a winner (OneFeederPerSlot).*)
LEMMA SideStaysFree ==
  ASSUME SerialInv, NEW h \in Handlers, SideIsFree(h),
         Request(h) \/ Proceed(h) \/ Rollback(h)
  PROVE  SideIsFree(h)'
<1> DEFINE m == call[h].match
<1> USE DEF SerialInv
<1>1. CASE Request(h)
  BY <1>1, RequestOnlyReads DEF OnlyReads, SideIsFree, LoserSeated
<1>2. ASSUME Return(h) PROVE SideIsFree(h)'
  BY <1>2 DEF Return, Goto, SideIsFree, LoserSeated, Typing, TypeOK
<1>3. CASE WriteStart(h) \/ WriteGoldenScore(h) \/ WriteScores(h)
           \/ SwapAndCommit(h) \/ Commit(h) \/ Rollback(h)
  BY <1>2, <1>3 DEF WriteStart, WriteGoldenScore, WriteScores, SwapAndCommit,
                    Commit, Rollback
<1>4. CASE WriteResult(h) \/ AdvanceWinner(h) \/ NoNextMatch(h)
  BY <1>4 DEF WriteResult, AdvanceWinner, NoNextMatch, Goto, SideIsFree,
              LoserSeated, Typing, TypeOK
<1>5. CASE FindLoserSlot(h)
  <2> DEFINE target == LoserTo[m]
  <2>1. /\ InTransaction(h) /\ m \in Matches /\ target \in Matches /\ target # m
        /\ pc[h] = "loser"
    BY <1>5, DrawTypes, OneFeederPerSlot
    DEF FindLoserSlot, InTransaction, Past, Typing, CallOK, MaybeMatch
  <2>2. LoserSide[m] = FirstFree => View(h, target) = db[target]
    <3> SUFFICES ASSUME LoserSide[m] = FirstFree PROVE lock[target] # h
      BY DEF View
    <3>1. WinnerTo[m] # target
      BY <2>1, DrawTypes, OneFeederPerSlot DEF Sides, FirstFree
    <3> QED
      BY <2>1, <3>1 DEF EffectIInv, EffectOK, Written, LoserSeated
  <2> DEFINE side == IF LoserSide[m] = FirstFree THEN FreeSide(View(h, target))
                                                 ELSE LoserSide[m]
  <2>3. call' = [call EXCEPT ![h].side = side] /\ db' = db
    BY <1>5 DEF FindLoserSlot, rows
  <2>4. LoserSide[m] = FirstFree => side = FreeSide(db[target])
    BY <2>2
  <2> HIDE DEF side
  <2>5. call'[h].match = m /\ call'[h].side = side
    BY <2>3 DEF Call, Typing, TypeOK
  <2> QED
    BY <2>3, <2>4, <2>5 DEF SideIsFree
<1>6. CASE LoserIsOut(h)
  BY <1>6 DEF LoserIsOut, Goto, SideIsFree, LoserSeated, rows, Typing, TypeOK
<1>7. CASE PlaceLoser(h)
  BY <1>7 DEF PlaceLoser, Update, Goto, SideIsFree, LoserSeated, Typing, TypeOK
<1>8. CASE ReadMat(h)
  BY <1>8 DEF ReadMat, rows, Goto, SideIsFree, LoserSeated, Typing, TypeOK
<1>9. CASE FindNext(h)
  <2> DEFINE next == IF Queue(h, m) = {} THEN None ELSE First(Queue(h, m))
  <2>1. /\ call' = [call EXCEPT ![h].next = next] /\ db' = db
        /\ pc' = [pc EXCEPT ![h] = "swap"] /\ pc[h] = "next"
    BY <1>9 DEF FindNext, Goto, rows
  <2> HIDE DEF next
  <2>2. /\ call'[h].match = m /\ call'[h].loser = call[h].loser
        /\ call'[h].side = call[h].side /\ pc'[h] = "swap"
    BY <2>1 DEF Call, Typing, TypeOK
  <2> QED
    BY <2>1, <2>2 DEF SideIsFree, LoserSeated
<1> QED
  BY <1>1, <1>3, <1>4, <1>5, <1>6, <1>7, <1>8, <1>9 DEF Proceed

(* A commit, slot by slot.                                                 *)
LEMMA CommitSeats ==
  ASSUME SeatingInv, NEW h \in Handlers, SwapAndCommit(h) \/ Commit(h)
  PROVE  LET m     == call[h].match
             loser == Loser(db[m], call[h].winner)
             side  == call[h].side
         IN  /\ m \in Matches /\ m \notin Byes /\ ~Fought(m) /\ side \in Sides
             /\ loser # None /\ LoserTo[m] # None =>
                  side = IF LoserSide[m] = FirstFree THEN FreeSide(db[LoserTo[m]])
                                                     ELSE LoserSide[m]
             /\ db'[m].status = "COMPLETED" /\ db'[m].winner = call[h].winner
             /\ \A n \in Matches :
                  /\ n # m => db'[n].status = db[n].status
                              /\ db'[n].winner = db[n].winner
                  /\ \A s \in Sides :
                       db'[n].competitor[s] =
                         IF n = LoserTo[m] /\ loser # None /\ s = side THEN loser
                         ELSE IF n = WinnerTo[m] /\ s = WinnerSide[m]
                              THEN call[h].winner
                         ELSE db[n].competitor[s]
<1> DEFINE m     == call[h].match
           loser == Loser(db[m], call[h].winner)
           side  == call[h].side
<1> USE DEF SeatingInv, SerialInv
<1>1. /\ InTransaction(h) /\ Past(h) /\ pc[h] \in {"swap", "commit"}
      /\ m \in Matches /\ side \in Sides /\ Flush(h)
  BY DEF SwapAndCommit, Commit, InTransaction, Past, Typing, TypeOK, CallOK, Call
<1>2. db[m].status = "ACTIVE"
  BY <1>1 DEF Reading
<1>3. m \notin Byes /\ ~Fought(m)
  BY <1>2 DEF LosersIInv, ByesStay, Fought
<1>4. call[h].loser = loser /\ (LoserSeated(h) <=> loser # None)
  BY <1>1 DEF EffectIInv, EffectOK, LoserSeated
<1>5. loser # None /\ LoserTo[m] # None =>
        side = IF LoserSide[m] = FirstFree THEN FreeSide(db[LoserTo[m]])
                                           ELSE LoserSide[m]
  BY <1>1, <1>4 DEF EffectIInv, EffectOK, SideIsFree
<1>6. m # WinnerTo[m] /\ m # LoserTo[m]
  BY <1>1, OneFeederPerSlot
<1>7. \A n \in Matches : db'[n] = WrittenRow(h, n)
  <2> SUFFICES ASSUME NEW n \in Matches PROVE db'[n] = WrittenRow(h, n)
    OBVIOUS
  <2>1. db'[n] = View(h, n)
    BY <1>1 DEF Flush
  <2>2. lock[n] = h => work[n] = WrittenRow(h, n)
    BY <1>1 DEF EffectIInv, EffectOK
  <2>3. lock[n] # h => WrittenRow(h, n) = db[n]
    <3>1. lock[n] # h => ~Written(h, n)
      BY <1>1 DEF EffectIInv, EffectOK
    <3> QED
      BY <3>1 DEF WrittenRow, Written
  <2> QED
    BY <2>1, <2>2, <2>3 DEF View
<1>8. \A n \in Matches : db[n] \in Row
  BY DEF Typing, TypeOK
<1>9. db'[m] = Completed(db[m], call[h], work[m].scores)
  BY <1>1, <1>6, <1>7 DEF WrittenRow
<1>10. /\ db'[m].status = "COMPLETED" /\ db'[m].winner = call[h].winner
       /\ db'[m].competitor = db[m].competitor
  BY <1>1, <1>8, <1>9 DEF Completed, Row
<1>11. ASSUME NEW n \in Matches, n # m
       PROVE  /\ db'[n].status = db[n].status /\ db'[n].winner = db[n].winner
              /\ \A s \in Sides :
                   db'[n].competitor[s] =
                     IF n = LoserTo[m] /\ loser # None /\ s = side THEN loser
                     ELSE IF n = WinnerTo[m] /\ s = WinnerSide[m] THEN call[h].winner
                     ELSE db[n].competitor[s]
  <2> DEFINE placed == IF n = WinnerTo[m]
                       THEN Seated(db[n], WinnerSide[m], call[h].winner) ELSE db[n]
  <2> HIDE DEF loser
  <2>1. db'[n] = IF n = LoserTo[m] /\ loser # None THEN Seated(placed, side, loser)
                                                   ELSE placed
    BY <1>1, <1>4, <1>7, <1>11 DEF WrittenRow
  <2>2. /\ placed.status = db[n].status /\ placed.winner = db[n].winner
        /\ placed \in Row
        /\ \A s \in Sides : placed.competitor[s] =
             IF n = WinnerTo[m] /\ s = WinnerSide[m] THEN call[h].winner
                                                     ELSE db[n].competitor[s]
    <3>1. WinnerSide[m] \in Sides /\ call[h].winner \in MaybeCompetitor
      BY <1>1, DrawTypes DEF Typing, TypeOK, Call
    <3>2. db[n] \in Row
      BY <1>8
    <3>3. placed \in Row
      BY <3>1, <3>2, SeatedType
    <3> QED
      BY <3>1, <3>2, <3>3 DEF Seated, Row
  <2> HIDE DEF placed
  <2> QED
    BY <1>1, <2>1, <2>2 DEF Seated, Row
<1>12. \A s \in Sides : db'[m].competitor[s] = db[m].competitor[s]
  BY <1>10
<1> QED
  BY <1>1, <1>3, <1>5, <1>6, <1>10, <1>11, <1>12

(* Nothing but a commit changes who sits where, or which match is over.    *)
LEMMA LosersUnchanged ==
  ASSUME SeatingInv, NEW h \in Handlers, Request(h) \/ Proceed(h) \/ Rollback(h),
         ~SwapAndCommit(h), ~Commit(h)
  PROVE  LosersIInv'
<1> USE DEF SeatingInv, SerialInv
<1>1. \A n \in Matches :
        /\ db'[n].competitor = db[n].competitor
        /\ db[n].status = "COMPLETED" <=> db'[n].status = "COMPLETED"
        /\ db'[n].winner = db[n].winner
  <2>1. CASE WriteStart(h) \/ WriteGoldenScore(h) \/ WriteScores(h)
    <3> DEFINE m == call[h].match
    <3>1. m \in Matches /\ work[m] \in Row /\ db[m].status # "COMPLETED"
      BY <2>1 DEF WriteStart, WriteGoldenScore, WriteScores, Typing, TypeOK, CallOK,
                  Reading
    <3>2. work[m] = db[m]
      BY <2>1, <3>1 DEF WriteStart, WriteGoldenScore, WriteScores, UpdateNow, Free,
                        AdvanceIInv, FreeRows
    <3>3. ASSUME NEW new, UpdateNow(m, new), new.competitor = work[m].competitor,
                 new.winner = work[m].winner, new.status \in {"ACTIVE", work[m].status}
          PROVE  \A n \in Matches :
                   /\ db'[n].competitor = db[n].competitor
                   /\ db[n].status = "COMPLETED" <=> db'[n].status = "COMPLETED"
                   /\ db'[n].winner = db[n].winner
      BY <3>1, <3>2, <3>3 DEF UpdateNow, Typing, TypeOK
    <3>4. CASE WriteStart(h)
      BY <3>1, <3>3, <3>4 DEF WriteStart, Row
    <3>5. CASE WriteGoldenScore(h)
      BY <3>1, <3>3, <3>5 DEF WriteGoldenScore, Row
    <3>6. CASE WriteScores(h)
      BY <3>1, <3>3, <3>6 DEF WriteScores, Row
    <3> QED
      BY <2>1, <3>4, <3>5, <3>6
  <2>2. CASE UNCHANGED db
    BY <2>2
  <2>3. Request(h) \/ Rollback(h) => UNCHANGED db
    BY RequestOnlyReads DEF OnlyReads, rows, Rollback
  <2> QED
    BY <2>1, <2>2, <2>3
    DEF Proceed, WriteResult, AdvanceWinner, NoNextMatch, FindLoserSlot,
        LoserIsOut, PlaceLoser, ReadMat, FindNext, Update, rows
<1>2. \A n \in Matches : LoserTo[n] # None => LoserTo[n] \in Matches
  BY DrawTypes DEF MaybeMatch
<1>3. \A n \in Matches : (Fought(n)' <=> Fought(n)) /\ LoserOf(n)' = LoserOf(n)
  BY <1>1 DEF Fought, LoserOf, Loser
<1>4. DrawnStay' /\ ByesStay'
  BY <1>1, DrawTypes DEF LosersIInv, DrawnStay, ByesStay
<1>5. LosersOnTheirSide' /\ LosersInOrder'
  BY <1>1, <1>2, <1>3 DEF LosersIInv, LosersOnTheirSide, LosersInOrder
<1> QED
  BY <1>4, <1>5 DEF LosersIInv

LEMMA LosersCommit ==
  ASSUME OneLoserPerSlot, SeatingInv, NEW h \in Handlers, SwapAndCommit(h) \/ Commit(h)
  PROVE  LosersIInv'
<1> DEFINE m     == call[h].match
           loser == Loser(db[m], call[h].winner)
           side  == call[h].side
<1> USE DEF SeatingInv
<1>1. /\ m \in Matches /\ m \notin Byes /\ ~Fought(m) /\ side \in Sides
      /\ loser # None /\ LoserTo[m] # None =>
           side = IF LoserSide[m] = FirstFree THEN FreeSide(db[LoserTo[m]])
                                              ELSE LoserSide[m]
      /\ db'[m].status = "COMPLETED" /\ db'[m].winner = call[h].winner
      /\ \A n \in Matches : n # m => /\ db'[n].status = db[n].status
                                     /\ db'[n].winner = db[n].winner
  BY CommitSeats
<1>2. \A n \in Matches, s \in Sides :
        db'[n].competitor[s] =
          IF n = LoserTo[m] /\ loser # None /\ s = side THEN loser
          ELSE IF n = WinnerTo[m] /\ s = WinnerSide[m] THEN call[h].winner
          ELSE db[n].competitor[s]
  BY CommitSeats
<1>3. /\ \A n \in Matches : Fought(n)' <=> n = m \/ Fought(n)
      /\ \A n \in Matches : LoserTo[n] # None => LoserTo[n] \in Matches
      /\ m # LoserTo[m] /\ m # WinnerTo[m]
  BY <1>1, DrawTypes, OneFeederPerSlot DEF Fought, MaybeMatch
<1> HIDE DEF loser, side
<1>4. DrawnStay'
  <2> SUFFICES ASSUME NEW n \in Matches, Drawn(n), LoserTo[n] # None
               PROVE  db'[n].competitor = Entrants[n]
    BY DEF DrawnStay
  <2>1. n # WinnerTo[m]
    BY <1>1 DEF OneLoserPerSlot, Drawn
  <2>2. n = LoserTo[m] => loser = None
    <3> SUFFICES ASSUME n = LoserTo[m], loser # None PROVE FALSE
      OBVIOUS
    <3>1. LoserSide[m] \in Sides \/ LoserSide[m] = FirstFree
      BY <1>1, DrawTypes
    <3>2. PICK s \in Sides : LoserSide[m] \in {s, FirstFree}
      BY <3>1 DEF Sides
    <3>3. LoserTo[m] # None
      BY DrawTypes
    <3>4. Entrants[LoserTo[m]][s] = None
      BY <1>1, <3>2, <3>3 DEF OneLoserPerSlot
    <3> QED
      BY <3>4 DEF Drawn
  <2>3. \A s \in Sides : db'[n].competitor[s] = db[n].competitor[s]
    BY <1>2, <2>1, <2>2
  <2>4. db'[n].competitor \in [Sides -> MaybeCompetitor]
    <3>1. db' \in [Matches -> Row]
      <4>1. Flush(h)
        BY DEF SwapAndCommit, Commit
      <4> QED
        BY <4>1, FlushTyping DEF SerialInv
    <3> QED
      BY <3>1 DEF Row
  <2>5. db[n].competitor = Entrants[n] /\ Entrants[n] \in [Sides -> MaybeCompetitor]
    BY DrawTypes DEF LosersIInv, DrawnStay
  <2> QED
    BY <2>3, <2>4, <2>5
<1>5. ByesStay'
  BY <1>1, DrawTypes DEF LosersIInv, ByesStay
<1>6. \A n \in Matches : Drawn(n) /\ LoserTo[n] # None =>
        /\ LoserOf(n)' = IF n = m THEN loser ELSE LoserOf(n)
        /\ n = m => loser # None
  <2> SUFFICES ASSUME NEW n \in Matches, Drawn(n), LoserTo[n] # None
               PROVE  /\ LoserOf(n)' = IF n = m THEN loser ELSE LoserOf(n)
                      /\ n = m => loser # None
    OBVIOUS
  <2>1. db'[n].competitor = Entrants[n] /\ db[n].competitor = Entrants[n]
    BY <1>4 DEF LosersIInv, DrawnStay
  <2>2. \A winner : Loser(db'[n], winner) = Loser(db[n], winner)
    BY <2>1 DEF Loser
  <2>3. n = m => loser # None
    BY <2>1 DEF loser, Loser, Drawn, Sides
  <2> QED
    BY <1>1, <2>2, <2>3 DEF LoserOf, loser
<1>7. LosersOnTheirSide'
  <2> SUFFICES ASSUME NEW n \in Matches, Drawn(n), Fought(n)', LoserTo[n] # None,
                      LoserSide[n] # FirstFree
               PROVE  db'[LoserTo[n]].competitor[LoserSide[n]] = LoserOf(n)'
    BY DEF LosersOnTheirSide
  <2>1. LoserTo[n] \in Matches /\ LoserSide[n] \in Sides
    BY <1>3, DrawTypes
  <2>2. CASE n = m
    BY <1>1, <1>2, <1>6, <2>1, <2>2
  <2>3. CASE n # m
    <3>1. db[LoserTo[n]].competitor[LoserSide[n]] = LoserOf(n)
      BY <1>3, <2>3 DEF LosersIInv, LosersOnTheirSide
    <3>2. ~(LoserTo[n] = WinnerTo[m] /\ LoserSide[n] = WinnerSide[m])
      BY <1>1, OneFeederPerSlot
    <3>3. ~(LoserTo[n] = LoserTo[m] /\ loser # None /\ LoserSide[n] = side)
      BY <1>1, <2>3 DEF OneLoserPerSlot
    <3> QED
      BY <1>2, <1>6, <2>1, <2>3, <3>1, <3>2, <3>3
  <2> QED
    BY <2>2, <2>3
<1>8. LosersInOrder'
  <2> SUFFICES ASSUME NEW n \in Matches, LoserTo[n] # None, LoserSide[n] = FirstFree
               PROVE  LET taken(s) == db'[LoserTo[n]].competitor[s] # None
                          feeders == {l \in Matches : LoserTo[l] = LoserTo[n]}
                      IN  /\ taken(1) => \E l \in feeders : Fought(l)'
                          /\ taken(2) => taken(1) /\ \A l \in feeders : Fought(l)'
                          /\ Drawn(n) /\ Fought(n)' =>
                               \E s \in Sides :
                                 db'[LoserTo[n]].competitor[s] = LoserOf(n)'
    BY DEF LosersInOrder
  <2> DEFINE target == LoserTo[n]
             feeders == {l \in Matches : LoserTo[l] = target}
             before(s) == db[target].competitor[s]
             after(s) == db'[target].competitor[s]
  <2>1. target \in Matches /\ 1 \in Sides /\ 2 \in Sides /\ Sides = {1, 2}
    BY <1>3 DEF Sides
  <2>2. target # WinnerTo[m]
    <3> SUFFICES ASSUME target = WinnerTo[m] PROVE FALSE
      OBVIOUS
    <3>1. LoserSide[n] \in Sides
      BY <1>1, OneFeederPerSlot
    <3> QED
      BY <3>1 DEF Sides, FirstFree
  <2>3. /\ before(1) # None => \E l \in feeders : Fought(l)
        /\ before(2) # None => before(1) # None /\ \A l \in feeders : Fought(l)
        /\ Drawn(n) /\ Fought(n) => \E s \in Sides : before(s) = LoserOf(n)
    BY DEF LosersIInv, LosersInOrder
  <2>4. CASE target # LoserTo[m] \/ loser = None
    <3>1. \A s \in Sides : after(s) = before(s)
      BY <1>2, <2>1, <2>2, <2>4
    <3>2. Drawn(n) => n # m
      BY <1>6, <2>4
    <3> HIDE DEF target
    <3> QED
      BY <1>3, <1>6, <2>1, <2>3, <3>1, <3>2 DEF target
  <2>5. CASE target = LoserTo[m] /\ loser # None
    <3>1. m \in feeders /\ LoserSide[m] = FirstFree
      <4>1. m # n => (LoserSide[m] = FirstFree <=> LoserSide[n] = FirstFree)
        BY <1>1, <2>5 DEF OneLoserPerSlot
      <4> QED
        BY <1>1, <2>5, <4>1
    <3>2. before(2) = None
      BY <1>1, <2>3, <3>1
    <3>3. side = IF before(1) = None THEN 1 ELSE 2
      BY <1>1, <2>5, <3>1 DEF FreeSide
    <3>4. \A s \in Sides : after(s) = IF s = side THEN loser ELSE before(s)
      BY <1>2, <2>1, <2>2, <2>5
    <3>5. \A s \in Sides : before(s) # None => after(s) = before(s)
      BY <2>1, <3>2, <3>3, <3>4
    <3>6. after(1) # None /\ (after(2) # None => before(1) # None)
      BY <2>1, <2>5, <3>2, <3>3, <3>4
    <3>7. before(1) # None => \A l \in feeders : l = m \/ Fought(l)
      <4> SUFFICES ASSUME before(1) # None, NEW l \in feeders, l # m PROVE Fought(l)
        OBVIOUS
      <4>1. PICK k \in feeders : Fought(k)
        BY <2>3
      <4>2. k # m
        BY <1>1, <4>1
      <4>3. l \in {k, m}
        BY <3>1, <4>2, <2>5 DEF OneLoserPerSlot
      <4> QED
        BY <4>1, <4>3
    <3>8. Drawn(n) /\ Fought(n)' => \E s \in Sides : after(s) = LoserOf(n)'
      <4>1. CASE n = m
        BY <1>1, <1>6, <2>5, <3>4, <4>1
      <4>2. CASE n # m
        <5> SUFFICES ASSUME Drawn(n), Fought(n)
                     PROVE  \E s \in Sides : after(s) = LoserOf(n)
          BY <1>3, <1>6, <4>2
        <5>1. PICK s \in Sides : before(s) = LoserOf(n)
          BY <2>3
        <5>2. LoserOf(n) # None
          BY DEF LosersIInv, DrawnStay, LoserOf, Loser, Drawn, Sides
        <5> QED
          BY <3>5, <5>1, <5>2
      <4> QED
        BY <4>1, <4>2
    <3>9. \A l \in feeders : Fought(l)' <=> l = m \/ Fought(l)
      BY <1>3
    <3> HIDE DEF target, feeders, after, before
    <3>10. /\ \E l \in feeders : Fought(l)'
           /\ after(2) # None => \A l \in feeders : Fought(l)'
      BY <3>1, <3>6, <3>7, <3>9
    <3> QED
      BY <3>6, <3>8, <3>10 DEF target, feeders, after
  <2> QED
    BY <2>4, <2>5
<1> QED
  BY <1>4, <1>5, <1>7, <1>8 DEF LosersIInv

LEMMA SeatingNext ==
  ASSUME NEW only, Handlers = {only}, OneLoserPerSlot
  PROVE  SeatingInv /\ [Next]_vars => SeatingInv'
<1> SUFFICES ASSUME SeatingInv, [Next]_vars PROVE SeatingInv'
  OBVIOUS
<1>1. SerialInv'
  BY SerialNext DEF SeatingInv
<1>2. CASE Next
  <2>1. PICK h \in Handlers : Request(h) \/ Proceed(h) \/ Rollback(h)
    BY <1>2 DEF Next
  <2>2. LosersIInv'
    BY <2>1, LosersUnchanged, LosersCommit
  <2>3. SideIsFree(h)'
    BY <2>1, SideStaysFree DEF SeatingInv
  <2> QED
    BY <1>1, <2>2, <2>3 DEF SeatingInv
<1>3. CASE UNCHANGED vars
  BY <1>1, <1>3
  DEF vars, SeatingInv, LosersIInv, DrawnStay, ByesStay, LosersOnTheirSide,
      LosersInOrder, Fought, LoserOf, SideIsFree, LoserSeated
<1> QED
  BY <1>2, <1>3

(* The loser of a match between two drawn competitors is found in the match *)
(* losers go to, in every draw, when calls do not overlap: where two losers *)
(* share a match neither replaces the other (the loser helpers of          *)
(* advanceWinner, which read the row to find the side that is free).  That *)
(* the generated draws are such draws is checked by module Drawing.        *)
THEOREM LosersArePlaced ==
  ASSUME NEW only, Handlers = {only}, OneLoserPerSlot
  PROVE  Spec => []EveryLoserPlaced
<1>1. Init => SeatingInv
  BY SerialInit, LosersInit DEF SeatingInv, Init, SideIsFree, LoserSeated
<1>2. SeatingInv => EveryLoserPlaced
  <2> SUFFICES ASSUME SeatingInv, NEW m \in Matches, db[m].status = "COMPLETED",
                      LoserTo[m] # None, Drawn(m)
               PROVE  \E side \in Sides : db[LoserTo[m]].competitor[side] = LoserOf(m)
    BY DEF EveryLoserPlaced, Drawn, LoserOf
  <2>1. m \notin Byes
    BY ByesAdvanced DEF Drawn, Sides
  <2>2. Fought(m) /\ LoserSide[m] \in Sides \cup {FirstFree}
    BY <2>1, DrawTypes DEF Fought
  <2> QED
    BY <2>2 DEF SeatingInv, LosersIInv, LosersOnTheirSide, LosersInOrder
<1> QED
  BY <1>1, <1>2, SeatingNext, PTL DEF Spec
=============================================================================
