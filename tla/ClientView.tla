----------------------------- MODULE ClientView -----------------------------
(***************************************************************************)
(* useScoreboard: what a page of a mat makes of the messages it receives,  *)
(* and what the table may send while it shows a match.  A page applies the *)
(* messages of its connection one by one in the order they were sent.      *)
(***************************************************************************)
EXTENDS MatchRow

NoView == [match |-> None, row |-> ScheduledRow(<<None, None>>)]

(* number: which hold-down of the match it is, in the place of its start.  *)
NoHoldDown == [active |-> FALSE, competitor |-> None, number |-> 0]

MatchState(m, row) == [type |-> "match-state", match |-> m, row |-> row]

ScoreUpdate(m, scores) == [type |-> "score-update", match |-> m, scores |-> scores]

MatchStarted(m) == [type |-> "match-started", match |-> m]

MatchEnded(m, winner, winMethod) ==
  [type |-> "match-ended", match |-> m, winner |-> winner, winMethod |-> winMethod]

OsaekomiStarted(m, c, n) ==
  [type |-> "osaekomi-started", match |-> m, competitor |-> c, number |-> n]

(* A hold-down whose start the page knows.                                 *)
HoldDown(msg) == [active |-> TRUE, competitor |-> msg.competitor, number |-> msg.number]

OsaekomiStopped(m) == [type |-> "osaekomi-stopped", match |-> m]

Role(role) == [type |-> "role", role |-> role]

-----------------------------------------------------------------------------
(* A winner that is not in the match is shown as none.                     *)
ShownWinner(row, c) == IF \E side \in Sides : row.competitor[side] = c THEN c ELSE None

(* Mutant of ViewAfter: an update replaces nothing but missing scores.     *)
ViewWithoutUpdates(view, msg) ==
  CASE msg.type = "match-state"   -> [match |-> msg.match, row |-> msg.row]
    [] msg.type = "match-started" -> [view EXCEPT !.row.status = "ACTIVE"]
    [] msg.type = "match-ended"   -> [view EXCEPT !.row.status = "COMPLETED"]
    [] OTHER -> view

(* setMatchState: updates and results are taken for the match shown only;  *)
(* match-started does not compare the match.                               *)
ViewAfter(view, msg) ==
  CASE msg.type = "match-state" ->
         [match |-> msg.match, row |-> msg.row]
    [] msg.type = "score-update" /\ view.match = msg.match ->
         [view EXCEPT !.row.scores = msg.scores]
    [] msg.type = "match-started" /\ view.match # None ->
         [view EXCEPT !.row.status = "ACTIVE"]
    [] msg.type = "match-ended" /\ view.match = msg.match ->
         [view EXCEPT !.row.status = "COMPLETED", !.row.winMethod = msg.winMethod,
                      !.row.winner = ShownWinner(view.row, msg.winner)]
    [] OTHER -> view

(* Mutant of HoldDownAfter: osaekomi-stopped is not listened to.           *)
HoldDownUntilMatchEnds(hold, msg) ==
  CASE msg.type = "osaekomi-started" -> HoldDown(msg)
    [] msg.type = "match-ended"      -> NoHoldDown
    [] OTHER -> hold

(* setOsaekomi: none of the messages is compared with the match shown.     *)
HoldDownAfter(hold, msg) ==
  CASE msg.type = "osaekomi-started" -> HoldDown(msg)
    [] msg.type \in {"osaekomi-stopped", "match-ended"} -> NoHoldDown
    [] OTHER -> hold

(* WinBanner: how a match that is over was won, and the name of the winner.*)
Banner(row) ==
  IF row.status = "COMPLETED" /\ row.winMethod # None
  THEN [method |-> row.winMethod, names |-> row.winner] ELSE None

(* OsaekomiTimer, OsaekomiBar: what is announced for a hold-down under     *)
(* 10 s, under 20 s and of 20 s.                                           *)
Cue(held) == CASE held = 0 -> None [] held = 1 -> "WAZA_ARI" [] held = 2 -> "IPPON"

RoleAfter(role, msg) == IF msg.type = "role" THEN msg.role ELSE role

-----------------------------------------------------------------------------
(* The buttons of the table (ControlBoard).  Scores need the connection;   *)
(* the other buttons are shown while it is lost, but what they send then   *)
(* arrives before the table has joined again and is dropped.               *)
CanStart(view) == view.match # None /\ view.row.status = "SCHEDULED"

CanScore(view) == view.match # None /\ view.row.status = "ACTIVE"

(* One button per competitor: it stops whatever hold-down is shown, and    *)
(* starts one only if none is.                                             *)
CanStartHoldDown(view, hold) == CanScore(view) /\ ~hold.active

CanStopHoldDown(view, hold) == CanScore(view) /\ hold.active
=============================================================================
