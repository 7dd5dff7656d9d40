----------------------------- MODULE Scoreboard -----------------------------
(***************************************************************************)
(* ScoreboardService over PostgreSQL, one step per database statement.     *)
(*                                                                         *)
(* Every call reads its match first, outside any transaction, decides from *)
(* that reading, and writes later without looking again.  A write that     *)
(* completes a match runs in an interactive transaction under READ         *)
(* COMMITTED: an UPDATE locks its row until the transaction ends and is    *)
(* applied to the newest version of the row, a SELECT sees committed rows  *)
(* and the transaction's own writes.  A write of a single statement is one *)
(* step.                                                                   *)
(***************************************************************************)
EXTENDS Draw

CONSTANTS
  Handlers,    \* calls that can be in flight at the same time
  Mats,
  MatOf,       \* Match.matId
  QueueRank,   \* the order (categoryId, sequenceNum) of the mat queues
  Operations,  \* bound: the operations that are called
  Called,      \* bound: the matches they are called on
  EventTypes,  \* bound: the score events that are sent
  EndMethods,  \* bound: the win methods sent with end-match
  MaxYuko      \* bound: yuko are counted without limit by the code

ASSUME QueueTypes ==
  /\ MatOf \in [Matches -> Mats \cup {None}]
  /\ None \notin Mats
  /\ None \notin Handlers
  /\ QueueRank \in [Matches -> Nat]
  /\ \A m, n \in Matches : QueueRank[m] = QueueRank[n] => m = n
  /\ Called \subseteq Matches
  /\ EventTypes \subseteq ScoreEventTypes
  /\ EndMethods \subseteq WinMethods
  /\ MaxYuko \in Nat

VARIABLES
  db,        \* the committed rows of Match
  work,      \* the newest version of each row, committed or not
  lock,      \* the call whose transaction holds the row, or None
  current,   \* Mat.currentMatchId
  pc,        \* the next statement of a call
  call       \* what a call knows: its match and what it decided or read

vars == <<db, work, lock, current, pc, call>>

rows == <<db, work, lock>>

Points_of_call == {"idle", "start", "golden", "score", "decide", "end",
                   "winner", "loser", "place", "mat", "next", "swap", "commit"}

NoCall == [match |-> None, scores |-> EmptyScores, winner |-> None,
           winMethod |-> None, loser |-> None, side |-> 1, next |-> None]

Call == [match : MaybeMatch, scores : [Sides -> Score], winner : MaybeCompetitor,
         winMethod : WinMethods \cup {None}, loser : MaybeCompetitor,
         side : Sides, next : MaybeMatch]

Init ==
  /\ db = [m \in Matches |-> DrawnRow(m)]
  /\ work = db
  /\ lock = [m \in Matches |-> None]
  /\ current = [mat \in Mats |-> None]
  /\ pc = [h \in Handlers |-> "idle"]
  /\ call = [h \in Handlers |-> NoCall]

-----------------------------------------------------------------------------
(* Statements *)

Free(m) == lock[m] = None

Lockable(h, m) == lock[m] \in {None, h}

(* What a SELECT of call h returns for the row of m. *)
View(h, m) == IF lock[m] = h THEN work[m] ELSE db[m]

(* An UPDATE by a transaction that stays open. *)
Update(h, m, new) ==
  /\ Lockable(h, m)
  /\ work' = [work EXCEPT ![m] = new]
  /\ lock' = [lock EXCEPT ![m] = h]
  /\ UNCHANGED db

(* An UPDATE that is a transaction of its own. *)
UpdateNow(m, new) ==
  /\ Free(m)
  /\ db' = [db EXCEPT ![m] = new]
  /\ work' = [work EXCEPT ![m] = new]
  /\ UNCHANGED lock

Goto(h, where) == pc' = [pc EXCEPT ![h] = where]

Return(h) == Goto(h, "idle") /\ call' = [call EXCEPT ![h] = NoCall]

Flush(h) ==
  /\ db' = [m \in Matches |-> View(h, m)]
  /\ lock' = [m \in Matches |-> IF lock[m] = h THEN None ELSE lock[m]]
  /\ UNCHANGED work

-----------------------------------------------------------------------------
(* The pre-flight reading of each call *)

(* Mutant of ReadMatch: the status is not looked at.                       *)
ReadAnyMatch(h, m, status) == pc[h] = "idle"

ReadMatch(h, m, status) == pc[h] = "idle" /\ db[m].status = status

(* startMatch: only the status is looked at, not the competitors. *)
StartMatch(h, m) ==
  /\ ReadMatch(h, m, "SCHEDULED")
  /\ Goto(h, "start")
  /\ call' = [call EXCEPT ![h].match = m]
  /\ UNCHANGED <<rows, current>>

EnableGoldenScore(h, m) ==
  /\ ReadMatch(h, m, "ACTIVE")
  /\ Goto(h, "golden")
  /\ call' = [call EXCEPT ![h].match = m]
  /\ UNCHANGED <<rows, current>>

(* getCompetitorSide: a call that names neither competitor is rejected. *)
InMatch(row, c) == \E side \in Sides : row.competitor[side] = c

SideOf(row, c) == IF row.competitor[1] = c THEN 1 ELSE 2

ScoreEvent(h, m, c, type) ==
  LET side   == SideOf(db[m], c)
      scores == Scored(db[m].scores, side, type)
  IN  /\ ReadMatch(h, m, "ACTIVE")
      /\ InMatch(db[m], c)
      /\ ~Terminates(scores[side], type)
      /\ scores[side].yuko <= MaxYuko
      /\ Goto(h, "score")
      /\ call' = [call EXCEPT ![h].match = m, ![h].scores = scores]
      /\ UNCHANGED <<rows, current>>

(* A third shido without an opponent has nobody to connect as winner, and  *)
(* the call fails before it writes.                                        *)
DecidingEvent(h, m, c, type) ==
  LET side   == SideOf(db[m], c)
      scores == Scored(db[m].scores, side, type)
      winner == db[m].competitor[WinningSide(side, scores[side], type)]
  IN  /\ ReadMatch(h, m, "ACTIVE")
      /\ InMatch(db[m], c)
      /\ Terminates(scores[side], type)
      /\ winner # None
      /\ Goto(h, "decide")
      /\ call' = [call EXCEPT ![h].match = m, ![h].scores = scores,
                              ![h].winner = winner,
                              ![h].winMethod = MethodOf(scores[side], type)]
      /\ UNCHANGED <<rows, current>>

(* endMatch takes any competitor for winner, in the match or not. *)
EndMatch(h, m, c, winMethod) ==
  /\ ReadMatch(h, m, "ACTIVE")
  /\ Goto(h, "end")
  /\ call' = [call EXCEPT ![h].match = m, ![h].winner = c,
                          ![h].winMethod = winMethod]
  /\ UNCHANGED <<rows, current>>

-----------------------------------------------------------------------------
(* Writes of one statement *)

WriteStart(h) ==
  LET m == call[h].match
  IN  /\ pc[h] = "start"
      /\ UpdateNow(m, [work[m] EXCEPT !.status = "ACTIVE", !.scores = EmptyScores])
      /\ Return(h)
      /\ UNCHANGED current

WriteGoldenScore(h) ==
  LET m == call[h].match
  IN  /\ pc[h] = "golden"
      /\ UpdateNow(m, [work[m] EXCEPT !.goldenScore = TRUE])
      /\ Return(h)
      /\ UNCHANGED current

WriteScores(h) ==
  LET m == call[h].match
  IN  /\ pc[h] = "score"
      /\ UpdateNow(m, [work[m] EXCEPT !.scores = call[h].scores])
      /\ Return(h)
      /\ UNCHANGED current

(* MatService.assignMatchToMat: the organizer puts any match on a mat. *)
AssignMatchToMat(h, mat, m) ==
  /\ pc[h] = "idle"
  /\ current' = [current EXCEPT ![mat] = m]
  /\ UNCHANGED <<rows, pc, call>>

-----------------------------------------------------------------------------
(* The transaction that completes a match *)

Completed(row, c, scores) ==
  [row EXCEPT !.status = "COMPLETED", !.winner = c.winner,
              !.winMethod = c.winMethod, !.scores = scores]

(* Mutant of WriteResult: the result is written outside the transaction.   *)
WriteResultNow(h) ==
  LET m == call[h].match
  IN  /\ pc[h] \in {"decide", "end"}
      /\ UpdateNow(m, Completed(work[m], call[h], work[m].scores))
      /\ Goto(h, "winner")
      /\ call' = [call EXCEPT ![h].loser = Loser(work[m], call[h].winner)]
      /\ UNCHANGED current

(* tx.match.update: the scores go along only with a deciding score event;  *)
(* the row that comes back names the loser.                                *)
WriteResult(h) ==
  LET m == call[h].match
      scores == IF pc[h] = "decide" THEN call[h].scores ELSE work[m].scores
  IN  /\ pc[h] \in {"decide", "end"}
      /\ Update(h, m, Completed(work[m], call[h], scores))
      /\ Goto(h, "winner")
      /\ call' = [call EXCEPT ![h].loser = Loser(work[m], call[h].winner)]
      /\ UNCHANGED current

Seated(row, side, c) == [row EXCEPT !.competitor[side] = c]

(* Mutant of AdvanceWinner: it first locks the other feeders of the next   *)
(* match (SELECT ... FOR UPDATE), which their own completions hold while   *)
(* they do the same.                                                       *)
AdvanceWinnerLockingFeeders(h) ==
  LET m == call[h].match
      target == WinnerTo[m]
  IN  /\ pc[h] = "winner"
      /\ target # None
      /\ \A feeder \in Matches : WinnerTo[feeder] = target => Lockable(h, feeder)
      /\ Update(h, target, Seated(work[target], WinnerSide[m], call[h].winner))
      /\ Goto(h, "loser")
      /\ UNCHANGED <<current, call>>

(* advanceWinner: the winner takes the slot of the next match. *)
AdvanceWinner(h) ==
  LET m == call[h].match
      target == WinnerTo[m]
  IN  /\ pc[h] = "winner"
      /\ target # None
      /\ Update(h, target, Seated(work[target], WinnerSide[m], call[h].winner))
      /\ Goto(h, "loser")
      /\ UNCHANGED <<current, call>>

NoNextMatch(h) ==
  /\ pc[h] = "winner"
  /\ WinnerTo[call[h].match] = None
  /\ Goto(h, "loser")
  /\ UNCHANGED <<rows, current, call>>

(* The loser's match is looked up before it is updated: where the draw     *)
(* leaves the side open, the side comes from this reading.                 *)
FindLoserSlot(h) ==
  LET m == call[h].match
      target == LoserTo[m]
  IN  /\ pc[h] = "loser"
      /\ target # None
      /\ call[h].loser # None
      /\ Goto(h, "place")
      /\ call' = [call EXCEPT ![h].side =
                    IF LoserSide[m] = FirstFree THEN FreeSide(View(h, target))
                                                ELSE LoserSide[m]]
      /\ UNCHANGED <<rows, current>>

LoserIsOut(h) ==
  /\ pc[h] = "loser"
  /\ LoserTo[call[h].match] = None \/ call[h].loser = None
  /\ Goto(h, "mat")
  /\ UNCHANGED <<rows, current, call>>

(* Mutant of PlaceLoser: the helper writes past the transaction.           *)
PlaceLoserNow(h) ==
  LET target == LoserTo[call[h].match]
  IN  /\ pc[h] = "place"
      /\ UpdateNow(target, Seated(work[target], call[h].side, call[h].loser))
      /\ Goto(h, "mat")
      /\ UNCHANGED <<current, call>>

PlaceLoser(h) ==
  LET target == LoserTo[call[h].match]
  IN  /\ pc[h] = "place"
      /\ Update(h, target, Seated(work[target], call[h].side, call[h].loser))
      /\ Goto(h, "mat")
      /\ UNCHANGED <<current, call>>

(* advanceMatQueue: nothing happens unless the completed match is the      *)
(* current one of its mat.                                                 *)
IsCurrent(m) == MatOf[m] # None /\ current[MatOf[m]] = m

ReadMat(h) ==
  /\ pc[h] = "mat"
  /\ Goto(h, IF IsCurrent(call[h].match) THEN "next" ELSE "commit")
  /\ UNCHANGED <<rows, current, call>>

(* Mutant of Queue: a match with an open slot is taken for ready.          *)
ScheduledQueue(h, m) ==
  {n \in Matches \ {m} : MatOf[n] = MatOf[m] /\ View(h, n).status = "SCHEDULED"}

Queue(h, m) ==
  {n \in Matches \ {m} : MatOf[n] = MatOf[m] /\ ReadyRow(View(h, n))}

First(queue) == CHOOSE n \in queue :
                  \A other \in queue : QueueRank[n] <= QueueRank[other]

FindNext(h) ==
  LET queue == Queue(h, call[h].match)
  IN  /\ pc[h] = "next"
      /\ Goto(h, "swap")
      /\ call' = [call EXCEPT ![h].next = IF queue = {} THEN None ELSE First(queue)]
      /\ UNCHANGED <<rows, current>>

(* tx.mat.update is the last statement: nothing comes between it and the   *)
(* commit that another call could see.                                     *)
SwapAndCommit(h) ==
  /\ pc[h] = "swap"
  /\ current' = [current EXCEPT ![MatOf[call[h].match]] = call[h].next]
  /\ Flush(h)
  /\ Return(h)

Commit(h) ==
  /\ pc[h] = "commit"
  /\ Flush(h)
  /\ Return(h)
  /\ UNCHANGED current

(* The call fails: the transaction times out waiting for a lock, the       *)
(* connection is lost or the server stops.  What it wrote is undone.       *)
Rollback(h) ==
  /\ pc[h] # "idle"
  /\ work' = [m \in Matches |-> IF lock[m] = h THEN db[m] ELSE work[m]]
  /\ lock' = [m \in Matches |-> IF lock[m] = h THEN None ELSE lock[m]]
  /\ Return(h)
  /\ UNCHANGED <<db, current>>

-----------------------------------------------------------------------------
Request(h) ==
  \/ \E m \in Called :
       \/ "start-match" \in Operations /\ StartMatch(h, m)
       \/ "golden-score" \in Operations /\ EnableGoldenScore(h, m)
       \/ \E c \in Competitors, type \in EventTypes :
            /\ "score-event" \in Operations
            /\ ScoreEvent(h, m, c, type) \/ DecidingEvent(h, m, c, type)
       \/ \E c \in Competitors, winMethod \in EndMethods :
            "end-match" \in Operations /\ EndMatch(h, m, c, winMethod)
  \/ \E mat \in Mats, m \in Called :
       "assign" \in Operations /\ AssignMatchToMat(h, mat, m)

Proceed(h) ==
  \/ WriteStart(h) \/ WriteGoldenScore(h) \/ WriteScores(h) \/ WriteResult(h)
  \/ AdvanceWinner(h) \/ NoNextMatch(h)
  \/ FindLoserSlot(h) \/ LoserIsOut(h) \/ PlaceLoser(h)
  \/ ReadMat(h) \/ FindNext(h) \/ SwapAndCommit(h) \/ Commit(h)

Next == \E h \in Handlers : Request(h) \/ Proceed(h) \/ Rollback(h)

Spec == Init /\ [][Next]_vars

(* The event loop resumes a call whose statement has answered, and the     *)
(* database hands a released row to the transactions that wait for it in   *)
(* the order they came, so no call waits for ever for rows others release. *)
FairSpec == Spec /\ \A h \in Handlers : SF_vars(Proceed(h))

-----------------------------------------------------------------------------
(* Properties *)

(* Rows, locks and calls keep their types. *)
TypeOK ==
  /\ db \in [Matches -> Row]
  /\ work \in [Matches -> Row]
  /\ lock \in [Matches -> Handlers \cup {None}]
  /\ current \in [Mats -> MaybeMatch]
  /\ pc \in [Handlers -> Points_of_call]
  /\ call \in [Handlers -> Call]

(* applyScoreEvent ends the match in the write that makes it two waza-ari  *)
(* or three shido.  Calls that overlap write scores they counted from old  *)
(* readings, over a finished match or a restarted one: even so no reader   *)
(* sees a match still running on a score that decided it.                  *)
NoDecidedMatchRuns ==
  \A m \in Matches : db[m].status = "ACTIVE" => Undecided(db[m].scores)

(* The atomicity boundary of applyScoreEvent and endMatch: no "match       *)
(* completed but bracket not advanced" state is ever committed, whichever  *)
(* calls overlap, however often a match is completed again and whatever    *)
(* statement fails.  The slot of the next match holds the winner.          *)
WinnerAdvanced ==
  \A m \in Matches :
    db[m].winner # None /\ WinnerTo[m] # None =>
      db[WinnerTo[m]].competitor[WinnerSide[m]] = db[m].winner

(* The same boundary for the whole effect: each change of the committed    *)
(* rows is one operation of AtomicBracket, none is seen half done.         *)
Bracket == INSTANCE AtomicBracket WITH row <- db

AtomicOperations == Bracket!Spec

(* When calls do not overlap, the result of a match is final: a completed  *)
(* match is not scored, restarted or given to somebody else.               *)
ResultIsFinal ==
  [][\A m \in Matches :
       db[m].status = "COMPLETED" =>
         /\ db'[m].status = "COMPLETED"
         /\ db'[m].winner = db[m].winner
         /\ db'[m].winMethod = db[m].winMethod
         /\ db'[m].scores = db[m].scores]_vars

(* The loser of a match between two drawn competitors is found in the      *)
(* match losers go to: where two losers share a match, the first arrival   *)
(* takes competitor1 and the second competitor2, none replaces the other.  *)
EveryLoserPlaced ==
  \A m \in Matches :
    LET loser == Loser(db[m], db[m].winner)
    IN  db[m].status = "COMPLETED" /\ LoserTo[m] # None
          /\ (\A side \in Sides : Entrants[m][side] # None)
        => \E side \in Sides : db[LoserTo[m]].competitor[side] = loser

(* Steps of advanceMatQueue that moved a mat on. *)
Swap(h, mat) ==
  pc[h] = "swap" /\ pc'[h] = "idle" /\ current'[mat] # current[mat]

(* A mat moves on by itself only from the match that was just completed: a *)
(* match the organizer has put on the mat meanwhile stays there.           *)
OverrideKept ==
  [][\A h \in Handlers, mat \in Mats :
       Swap(h, mat) => current[mat] = call[h].match]_vars

(* A mat moves on to the first match of its queue that can be fought, and  *)
(* to none only if no match of the mat can be.                             *)
SwapsToQueueHead ==
  [][\A h \in Handlers, mat \in Mats :
       LET queue == {n \in Matches : MatOf[n] = mat /\ ReadyRow(db'[n])}
       IN  Swap(h, mat) =>
             current'[mat] = IF queue = {} THEN None ELSE First(queue)]_vars

(* "No-op if [...] the queue is empty": a mat whose last match ends keeps   *)
(* it as its current match.                                                *)
NoOpOnEmptyQueue ==
  [][\A h \in Handlers, mat \in Mats : Swap(h, mat) => current'[mat] # None]_vars

(* Every call is answered: calls that complete neighbouring matches lock   *)
(* the rows they share and never wait for each other in a circle.          *)
CallsReturn == \A h \in Handlers : pc[h] # "idle" ~> pc[h] = "idle"

(* A mat goes on to the head of its queue, and only from the match that    *)
(* was completed.                                                          *)
MatFollowsQueue == OverrideKept /\ SwapsToQueueHead
=============================================================================
