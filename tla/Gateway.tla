------------------------------ MODULE Gateway ------------------------------
(***************************************************************************)
(* ScoreboardGateway: the rooms, controllers and hold-downs the server     *)
(* keeps in memory, the handlers that wait for the database in between,    *)
(* and the pages of the mats with the messages on their way to them.       *)
(*                                                                         *)
(* A handler is split at its awaits.  The services it awaits change the    *)
(* rows in one step here, as AtomicBracket promises; how calls overlap     *)
(* inside them is the business of module Scoreboard.  A mat and its        *)
(* current match are read in one step.                                     *)
(***************************************************************************)
EXTENDS Draw, MatchClocks, Sequences, FiniteSets

CONSTANTS
  Mats,
  Programme,      \* the matches of a mat in the order of its queue
  Pages,
  MatOfPage,
  Handlers,       \* calls in flight at the same time
  Settings,       \* the settings a behaviour starts from, one of them each
  MaxSockets,     \* bound: how often a page connects
  MaxHoldDowns    \* bound: hold-downs started in a match

Sendable == {"start", "WAZA_ARI", "end", "golden", "osaekomi", "pause"}

(* The bounds of a setting: the pages that are open, those of them that    *)
(* send the PIN of their mat, the calls that may overlap, what may fail,   *)
(* the requests the tables send, for which side, and how many at most, and *)
(* the duration of a match, or 0 to leave the clocks of the pages out.     *)
ASSUME GatewayTypes ==
  /\ None \notin Handlers /\ None \notin Mats /\ None \notin Pages /\ None \notin Pages \X Nat
  /\ Programme \in [Mats -> Seq(Matches)]
  /\ MatOfPage \in [Pages -> Mats]
  /\ MaxSockets \in Nat \ {0} /\ MaxHoldDowns \in Nat
  /\ \A s \in Settings : /\ s.tables \subseteq s.pages /\ s.pages \subseteq Pages
                         /\ s.handlers \subseteq Handlers
                         /\ s.faults \subseteq Pages \cup {"server"}
                         /\ s.sends \subseteq Sendable /\ s.sides \subseteq Sides
                         /\ s.requests \in Nat /\ s.duration \in Nat

(* Match.matId: a match is on one mat. *)
ASSUME OneMatEach ==
  \A mat, other \in Mats :
    \A i \in DOMAIN Programme[mat], j \in DOMAIN Programme[other] :
      Programme[mat][i] = Programme[other][j] => mat = other

VARIABLES
  setting,
  row,          \* the rows of Match
  current,      \* Mat.currentMatchId
  rooms,        \* the sockets in the room of their mat
  controllers,  \* the sockets whose PIN was valid
  osaekomi,     \* the tracker of a match
  timers,       \* setTimeout: the ages of the timers running for a match
  pc,           \* the next step of a call
  call,
  socket,       \* a page's connection, counted
  online,
  role,         \* what a page shows: its role, match and hold-down
  view,
  hold,
  clock,        \* and the clock it keeps of the match
  inbox,        \* the messages on their way to a page
  sent,         \* how many requests the table has sent
  holdDowns,    \* history: hold-downs started in a match
  credited,     \* history: scores given for each of them
  fought        \* history: how long a match has been ACTIVE

serverVars == <<rooms, controllers, osaekomi, timers>>
dbVars     == <<row, current>>
pageVars   == <<socket, online, role, view, hold, clock>>
history    == <<sent, holdDowns, credited, fought>>
vars == <<setting, dbVars, serverVars, pc, call, pageVars, inbox, history>>

Rows == INSTANCE AtomicBracket

Ages == 0..2     \* under 10 s, under 20 s, 20 s

NoTracker == [competitor |-> None, held |-> 0, room |-> None, number |-> 0]

NoCall == [op |-> "none", socket |-> None, room |-> None, match |-> None, competitor |-> None,
           event |-> None, detached |-> FALSE, held |-> 0, number |-> 0, out |-> <<>>]

Socket(p) == <<p, socket[p]>>

PageOf(s) == s[1]

Live(s) == s # None /\ online[PageOf(s)] /\ Socket(PageOf(s)) = s

Serial == \A g, h \in setting.handlers : g = h

Quiet == (\A h \in Handlers : pc[h] = "idle") /\ (\A p \in Pages : inbox[p] = <<>>)

Init ==
  /\ setting \in Settings
  /\ row = [m \in Matches |-> DrawnRow(m)]
  /\ current = [mat \in Mats |-> IF Programme[mat] = <<>> THEN None ELSE Head(Programme[mat])]
  /\ rooms = {} /\ controllers = {}
  /\ osaekomi = [m \in Matches |-> NoTracker]
  /\ timers = [m \in Matches |-> {}]
  /\ pc = [h \in Handlers |-> "idle"]
  /\ call = [h \in Handlers |-> NoCall]
  /\ socket = [p \in Pages |-> 0]
  /\ online = [p \in Pages |-> FALSE]
  /\ role = [p \in Pages |-> "none"]
  /\ view = [p \in Pages |-> NoView]
  /\ hold = [p \in Pages |-> NoHoldDown]
  /\ clock = [p \in Pages |-> NoClock]
  /\ inbox = [p \in Pages |-> <<>>]
  /\ sent = 0
  /\ holdDowns = [m \in Matches |-> 0]
  /\ credited = [m \in Matches |-> [n \in 1..MaxHoldDowns |-> 0]]
  /\ fought = [m \in Matches |-> 0]

-----------------------------------------------------------------------------
(* client.emit and server.to(room).emit *)

Emit(s, msgs) ==
  inbox' = [p \in Pages |-> IF Live(s) /\ p = PageOf(s) THEN inbox[p] \o msgs ELSE inbox[p]]

Broadcast(room, msgs) ==
  inbox' = [p \in Pages |-> IF Socket(p) \in rooms /\ MatOfPage[p] = room
                            THEN inbox[p] \o msgs ELSE inbox[p]]

(* getClientRoom: the rooms of a client that is gone are empty, and a      *)
(* broadcast to none reaches nobody.                                       *)
ClientRoom(s) == IF s \in rooms THEN MatOfPage[PageOf(s)] ELSE None

IsController(s) == s \in controllers

Goto(h, where) == pc' = [pc EXCEPT ![h] = where]

Return(h) == Goto(h, "idle") /\ call' = [call EXCEPT ![h] = NoCall]

-----------------------------------------------------------------------------
(* join-mat *)

(* A page connects and joins; the room is entered before the PIN is read.  *)
Join(h, p) ==
  LET s == <<p, socket[p] + 1>>
      hasPin == p \in setting.tables
  IN  /\ pc[h] = "idle" /\ ~online[p] /\ socket[p] < MaxSockets
      /\ online' = [online EXCEPT ![p] = TRUE]
      /\ socket' = [socket EXCEPT ![p] = @ + 1]
      /\ rooms' = rooms \cup {s}
      /\ Goto(h, IF hasPin THEN "verify" ELSE "look")
      /\ call' = [call EXCEPT ![h] = [NoCall EXCEPT !.op = "join", !.socket = s]]
      /\ inbox' = [inbox EXCEPT ![p] = IF hasPin THEN @ ELSE Append(@, Role("viewer"))]
      /\ UNCHANGED <<setting, dbVars, controllers, osaekomi, timers, role, view, hold, clock, history>>

(* The PIN was right: the socket is a controller from here on, also if it  *)
(* has been closed meanwhile.                                              *)
VerifyPin(h) ==
  LET s == call[h].socket
  IN  /\ pc[h] = "verify"
      /\ controllers' = controllers \cup {s}
      /\ Emit(s, <<Role("controller")>>)
      /\ Goto(h, "look")
      /\ UNCHANGED <<setting, dbVars, rooms, osaekomi, timers, call, pageVars, history>>

GetMatState(h) ==
  LET m == current[MatOfPage[PageOf(call[h].socket)]]
  IN  /\ pc[h] = "look"
      /\ Goto(h, "answer")
      /\ call' = [call EXCEPT ![h].out = IF m = None THEN <<>> ELSE <<MatchState(m, row[m])>>]
      /\ UNCHANGED <<setting, dbVars, serverVars, pageVars, inbox, history>>

Answer(h) ==
  /\ pc[h] = "answer"
  /\ Emit(call[h].socket, call[h].out)
  /\ Return(h)
  /\ UNCHANGED <<setting, dbVars, serverVars, pageVars, history>>

-----------------------------------------------------------------------------
(* Requests of the table *)

SetClock(p, new) == clock' = IF setting.duration = 0 THEN clock ELSE [clock EXCEPT ![p] = new]

(* The buttons of a competitor who is not known yet do nothing.            *)
Offered(p, side) == view[p].row.competitor[side] # None

(* A request reaches the server: of a controller, or it is dropped.        *)
Press(p) ==
  /\ online[p] /\ role[p] = "controller"
  /\ IsController(Socket(p))
  /\ sent < setting.requests
  /\ sent' = sent + 1

Request(h, p, c, newClock) ==
  /\ pc[h] = "idle" /\ Press(p)
  /\ Goto(h, "apply")
  /\ call' = [call EXCEPT ![h] = [c EXCEPT !.socket = Socket(p), !.match = view[p].match]]
  /\ SetClock(p, newClock)
  /\ UNCHANGED <<setting, dbVars, serverVars, socket, online, role, view, hold, inbox,
                 holdDowns, credited, fought>>

(* The clock of the table runs from here on, whatever the server answers.  *)
SendStartMatch(h, p) ==
  CanStart(view[p]) /\ Request(h, p, [NoCall EXCEPT !.op = "start"], Started(clock[p]))

SendScoreEvent(h, p, side, type) ==
  /\ CanScore(view[p]) /\ Offered(p, side)
  /\ Request(h, p, [NoCall EXCEPT !.op = "score", !.event = type,
                                  !.competitor = view[p].row.competitor[side]], clock[p])

(* END MATCH offers the two competitors shown, and sends DECISION.         *)
SendEndMatch(h, p, side) ==
  /\ CanScore(view[p]) /\ Offered(p, side)
  /\ Request(h, p, [NoCall EXCEPT !.op = "end", !.competitor = view[p].row.competitor[side]],
             Stopped(clock[p]))

SendGoldenScore(h, p) ==
  /\ CanGoldenScore(view[p], clock[p])
  /\ Request(h, p, [NoCall EXCEPT !.op = "golden"], Started(clock[p]))

PauseOrResume(p) ==
  /\ "pause" \in setting.sends /\ Quiet /\ p \in setting.tables /\ CanScore(view[p])
  /\ SetClock(p, Toggled(clock[p]))
  /\ UNCHANGED <<setting, dbVars, serverVars, pc, call, socket, online, role, view, hold, inbox,
                 history>>

(* Mutants of TimersWith: the timer of the hold-down that is replaced is   *)
(* left running; the new hold-down has none.                               *)
TimersKept(m) == timers[m] \cup {0}

NoNewTimer(m) == timers[m] \ {osaekomi[m].held}

(* clearTimeout for a hold-down that is still running, and a new timer.    *)
TimersWith(m) ==
  (IF osaekomi[m] = NoTracker THEN timers[m] ELSE timers[m] \ {osaekomi[m].held}) \cup {0}

(* start-osaekomi awaits nothing, and does not look at the match.          *)
StartHoldDown(p, side) ==
  LET m == view[p].match
      c == view[p].row.competitor[side]
      room == ClientRoom(Socket(p))
  IN  /\ CanStartHoldDown(view[p], hold[p]) /\ Offered(p, side) /\ Press(p)
      /\ holdDowns[m] < MaxHoldDowns
      /\ timers' = [timers EXCEPT ![m] = TimersWith(m)]
      /\ osaekomi' = [osaekomi EXCEPT ![m] = [competitor |-> c, held |-> 0, room |-> room,
                                             number |-> holdDowns[m] + 1]]
      /\ holdDowns' = [holdDowns EXCEPT ![m] = @ + 1]
      /\ Broadcast(room, <<OsaekomiStarted(m, c, holdDowns[m] + 1)>>)
      /\ UNCHANGED <<setting, dbVars, rooms, controllers, pc, call, pageVars, credited, fought>>

-----------------------------------------------------------------------------
(* resolveOsaekomi *)

(* Mutant of Forget: the tracker is deleted once the score is given.       *)
KeepTracker(m) == UNCHANGED osaekomi

Forget(m) == osaekomi' = [osaekomi EXCEPT ![m] = NoTracker]

(* The hold-down is over before its score is given.  A timer that fires    *)
(* counts as 20 s, whatever the tracker says.                              *)
Resolve(h, m, held, s, otherTimers) ==
  LET tracker == osaekomi[m]
  IN  /\ pc[h] = "idle" /\ tracker # NoTracker
      /\ timers' = [timers EXCEPT ![m] = otherTimers \ {tracker.held}]
      /\ Forget(m)
      /\ Broadcast(tracker.room, <<OsaekomiStopped(m)>>)
      /\ IF held = 0 THEN UNCHANGED <<pc, call>>
         ELSE /\ Goto(h, "apply")
              /\ call' = [call EXCEPT ![h] =
                   [NoCall EXCEPT !.op = "score", !.room = tracker.room, !.socket = s, !.match = m,
                      !.competitor = tracker.competitor, !.detached = s = None,
                      !.event = IF held = 2 THEN "IPPON" ELSE "WAZA_ARI",
                      !.held = tracker.held, !.number = tracker.number]]
      /\ UNCHANGED <<setting, dbVars, rooms, controllers, pageVars, holdDowns, credited, fought>>

SendStopHoldDown(h, p) ==
  LET m == view[p].match
  IN  /\ CanStopHoldDown(view[p], hold[p]) /\ Press(p)
      /\ Resolve(h, m, osaekomi[m].held, Socket(p), timers[m])

TimerFires(h, m) ==
  /\ 2 \in timers[m]
  /\ Resolve(h, m, 2, None, timers[m] \ {2})
  /\ UNCHANGED sent

(* Ten seconds go by.  With clocks on the pages what was on its way has    *)
(* arrived by then, and time is told until a match has had its duration.   *)
Tick ==
  LET older(age) == IF age = 2 THEN 2 ELSE age + 1
      unfinished == {m \in Matches : Running(row[m]) /\ fought[m] < setting.duration}
  IN  /\ \/ setting.duration = 0 /\ \E m \in Matches : osaekomi[m] # NoTracker /\ osaekomi[m].held < 2
         \/ setting.duration > 0 /\ Quiet /\ unfinished # {}
      /\ fought' = [m \in Matches |-> IF m \in unfinished THEN fought[m] + 1 ELSE fought[m]]
      /\ clock' = [p \in Pages |-> Ticked(clock[p], view[p].row)]
      /\ osaekomi' = [m \in Matches |-> IF osaekomi[m] = NoTracker THEN NoTracker
                                        ELSE [osaekomi[m] EXCEPT !.held = older(@)]]
      /\ timers' = [m \in Matches |-> {older(age) : age \in timers[m]}]
      /\ UNCHANGED <<setting, dbVars, rooms, controllers, pc, call, socket, online, role, view, hold,
                     inbox, sent, holdDowns, credited>>

-----------------------------------------------------------------------------
(* The services, in one step each *)

MatOf(m) == CHOOSE mat \in Mats : \E i \in DOMAIN Programme[mat] : Programme[mat][i] = m

Ready(mat, m) ==
  {i \in DOMAIN Programme[mat] : Programme[mat][i] # m /\ ReadyRow(row[Programme[mat][i]])}

(* advanceMatQueue: the first match of the queue that can be fought.       *)
NextCurrent(m) ==
  LET mat == MatOf(m)
      ready == Ready(mat, m)
      first == CHOOSE i \in ready : \A j \in ready : i <= j
  IN  IF current[mat] # m THEN current
      ELSE [current EXCEPT ![mat] = IF ready = {} THEN None ELSE Programme[mat][first]]

InMatch(m, c) == \E side \in Sides : row[m].competitor[side] = c

(* The side of the loser of m in the match it goes to, if there is one.    *)
SideOfLoser(m) ==
  IF LoserTo[m] # None /\ LoserSide[m] = FirstFree THEN FreeSide(row[LoserTo[m]]) ELSE LoserSide[m]

Complete(m, winner, winMethod, scores) ==
  /\ row' = [n \in Matches |->
               Rows!CompletedRow(m, winner, winMethod, scores, SideOfLoser(m), n)]
  /\ current' = NextCurrent(m)

ThenTell(h, msgs) ==
  /\ Goto(h, "tell")
  /\ call' = [call EXCEPT ![h].out = msgs]

ApplyScoreEvent(h) ==
  LET c == call[h]
      m == c.match
      side == IF row[m].competitor[1] = c.competitor THEN 1 ELSE 2
      scores == Scored(row[m].scores, side, c.event)
      over == Terminates(scores[side], c.event)
      winner == row[m].competitor[WinningSide(side, scores[side], c.event)]
      winMethod == MethodOf(scores[side], c.event)
  IN  /\ pc[h] = "apply" /\ c.op = "score"
      /\ row[m].status = "ACTIVE" /\ InMatch(m, c.competitor)
      /\ IF over THEN Complete(m, winner, winMethod, scores)
         ELSE /\ row' = [row EXCEPT ![m].scores = scores]
              /\ UNCHANGED current
      /\ ThenTell(h, <<ScoreUpdate(m, scores)>>
                       \o (IF over THEN <<MatchEnded(m, winner, winMethod)>> ELSE <<>>))
      /\ credited' = IF c.number = 0 THEN credited
                     ELSE [credited EXCEPT ![m][c.number] = @ + 1]
      /\ UNCHANGED <<setting, serverVars, pageVars, inbox, sent, holdDowns, fought>>

StartMatch(h) ==
  LET m == call[h].match
  IN  /\ pc[h] = "apply" /\ call[h].op = "start"
      /\ row[m].status = "SCHEDULED"
      /\ Rows!Start(m)
      /\ ThenTell(h, <<MatchStarted(m), MatchState(m, row'[m])>>)
      /\ UNCHANGED <<setting, current, serverVars, pageVars, inbox, history>>

EndMatch(h) ==
  LET m == call[h].match
  IN  /\ pc[h] = "apply" /\ call[h].op = "end"
      /\ row[m].status = "ACTIVE"
      /\ Complete(m, call[h].competitor, "DECISION", row[m].scores)
      /\ ThenTell(h, <<MatchEnded(m, call[h].competitor, "DECISION")>>)
      /\ UNCHANGED <<setting, serverVars, pageVars, inbox, history>>

EnableGoldenScore(h) ==
  LET m == call[h].match
  IN  /\ pc[h] = "apply" /\ call[h].op = "golden"
      /\ row[m].status = "ACTIVE"
      /\ Rows!GoldenScore(m)
      /\ Goto(h, "reread")
      /\ UNCHANGED <<setting, current, serverVars, call, pageVars, inbox, history>>

(* getMatchState: the state that is broadcast is read again.               *)
GetMatchState(h) ==
  /\ pc[h] = "reread"
  /\ ThenTell(h, <<MatchState(call[h].match, row[call[h].match])>>)
  /\ UNCHANGED <<setting, dbVars, serverVars, pageVars, inbox, history>>

(* The service refuses: the client is sent an exception it does not listen *)
(* to.                                                                     *)
Refused(h) ==
  LET m == call[h].match
  IN  /\ pc[h] = "apply"
      /\ IF call[h].op = "start" THEN row[m].status # "SCHEDULED" ELSE row[m].status # "ACTIVE"

Reject(h) ==
  /\ Refused(h) /\ ~call[h].detached
  /\ Return(h)
  /\ UNCHANGED <<setting, dbVars, serverVars, pageVars, inbox, history>>

(* Mutant of Tell: the answer is for the one who asked.                    *)
TellTheCaller(h) ==
  /\ pc[h] = "tell"
  /\ Emit(call[h].socket, call[h].out)
  /\ Return(h)
  /\ UNCHANGED <<setting, dbVars, serverVars, pageVars, history>>

(* The room is looked up when the service has answered; that of a          *)
(* hold-down was taken when it began.                                      *)
Tell(h) ==
  /\ pc[h] = "tell"
  /\ Broadcast(IF call[h].number = 0 THEN ClientRoom(call[h].socket) ELSE call[h].room, call[h].out)
  /\ Return(h)
  /\ UNCHANGED <<setting, dbVars, serverVars, pageVars, history>>

-----------------------------------------------------------------------------
(* Pages and failures *)

(* The table and the displays keep different clocks.                       *)
ClockAfter(p, new) ==
  LET time == IF new.match = None THEN 0 ELSE fought[new.match]
  IN  IF p \in setting.tables
      THEN TableClockAfter(clock[p], view[p], new, setting.duration, time)
      ELSE DisplayClockAfter(clock[p], view[p], new, setting.duration, time)

Deliver(p) ==
  LET msg == Head(inbox[p])
  IN  /\ online[p] /\ inbox[p] # <<>>
      /\ inbox' = [inbox EXCEPT ![p] = Tail(@)]
      /\ role' = [role EXCEPT ![p] = RoleAfter(@, msg)]
      /\ view' = [view EXCEPT ![p] = ViewAfter(@, msg)]
      /\ hold' = [hold EXCEPT ![p] = HoldDownAfter(@, msg)]
      /\ SetClock(p, ClockAfter(p, view'[p]))
      /\ UNCHANGED <<setting, dbVars, serverVars, pc, call, socket, online, history>>

(* handleDisconnect; calls of the client go on, and what was on its way to *)
(* it is lost.  The page keeps what it shows.  With clocks on the pages a  *)
(* connection is lost between two calls.                                   *)
Disconnect(p) ==
  /\ p \in setting.faults /\ online[p] /\ (setting.duration > 0 => Quiet)
  /\ online' = [online EXCEPT ![p] = FALSE]
  /\ inbox' = [inbox EXCEPT ![p] = <<>>]
  /\ rooms' = rooms \ {Socket(p)}
  /\ controllers' = controllers \ {Socket(p)}
  /\ UNCHANGED <<setting, dbVars, osaekomi, timers, pc, call, socket, role, view, hold, clock, history>>

(* The process ends: rooms, controllers, hold-downs, timers and calls are  *)
(* gone, and every page has to connect again.                              *)
ServerStops ==
  /\ rooms' = {} /\ controllers' = {}
  /\ osaekomi' = [m \in Matches |-> NoTracker]
  /\ timers' = [m \in Matches |-> {}]
  /\ pc' = [h \in Handlers |-> "idle"]
  /\ call' = [h \in Handlers |-> NoCall]
  /\ online' = [p \in Pages |-> FALSE]
  /\ inbox' = [p \in Pages |-> <<>>]
  /\ UNCHANGED <<setting, dbVars, socket, role, view, hold, clock, history>>

Crash == "server" \in setting.faults /\ (\E p \in Pages : online[p]) /\ ServerStops

(* Nobody waits for a timer's call: when the service refuses, the process  *)
(* ends on the unhandled rejection, or goes on if Sentry has taken it.     *)
RejectDetached(h) ==
  /\ Refused(h) /\ call[h].detached
  /\ \/ ServerStops
     \/ /\ Return(h)
        /\ UNCHANGED <<setting, dbVars, serverVars, pageVars, inbox, history>>

-----------------------------------------------------------------------------
Send(h, p) ==
  \/ "start" \in setting.sends /\ SendStartMatch(h, p)
  \/ "golden" \in setting.sends /\ SendGoldenScore(h, p)
  \/ SendStopHoldDown(h, p)
  \/ \E side \in setting.sides :
       \/ "end" \in setting.sends /\ SendEndMatch(h, p, side)
       \/ "WAZA_ARI" \in setting.sends /\ SendScoreEvent(h, p, side, "WAZA_ARI")

Proceed(h) ==
  \/ VerifyPin(h) \/ GetMatState(h) \/ Answer(h)
  \/ ApplyScoreEvent(h) \/ StartMatch(h) \/ EndMatch(h)
  \/ EnableGoldenScore(h) \/ GetMatchState(h)
  \/ Reject(h) \/ RejectDetached(h) \/ Tell(h)

Next ==
  \/ \E h \in setting.handlers :
       \/ \E p \in setting.pages : Join(h, p) \/ Send(h, p)
       \/ \E m \in Matches : TimerFires(h, m)
       \/ Proceed(h)
  \/ "osaekomi" \in setting.sends
       /\ \E p \in setting.pages, side \in setting.sides : StartHoldDown(p, side)
  \/ \E p \in setting.pages : Deliver(p) \/ Disconnect(p) \/ PauseOrResume(p)
  \/ Tick \/ Crash

Spec == Init /\ [][Next]_vars

(* The event loop resumes every call whose service has answered, time goes *)
(* on, timers fire, and a connected page receives what it was sent.        *)
FairSpec ==
  /\ Spec
  /\ \A h \in Handlers : WF_vars(h \in setting.handlers /\ Proceed(h))
  /\ \A m \in Matches : SF_vars(\E h \in setting.handlers : TimerFires(h, m))
  /\ \A p \in Pages : WF_vars(Deliver(p))
  /\ WF_vars(Tick)

-----------------------------------------------------------------------------
(* Properties *)

(* The timer of a hold-down and the table official who stops it may both   *)
(* come, a hold-down may replace one that still runs, and connections and  *)
(* the server may fail: a hold-down gives one score at most.               *)
HoldDownScoresOnce ==
  \A m \in Matches, n \in 1..MaxHoldDowns : credited[m][n] <= 1

(* The score given for a hold-down is the one the timers of the pages      *)
(* announce at its age: no timer of an earlier hold-down cuts a later one  *)
(* short and makes it an ippon.                                            *)
AwardedAsAnnounced ==
  \A h \in Handlers : call[h].number # 0 => call[h].event = Cue(call[h].held)

(* When calls do not overlap and all messages have arrived, a page shows a *)
(* match of two competitors as it is in the database, whatever was pressed *)
(* on its mat and on the others.  That is so for the only page of all even *)
(* when connections and the server fail.  Two things nobody tells a page:  *)
(* that its mat has no match when it joins again, and who has come to a    *)
(* match that waited for a competitor when it was shown.                   *)
ViewsAgree ==
  Serial /\ Quiet =>
    \A p \in setting.pages :
      LET m == view[p].match
          told == /\ setting.faults = {} \/ setting.pages = {p}
                  /\ current[MatOfPage[p]] # None \/ socket[p] = 1
      IN  online[p] /\ told /\ m # None /\ (\A side \in Sides : Offered(p, side))
            => view[p].row = row[m]

(* When a mat has one table, a hold-down that is shown in a running match  *)
(* is the one the server counts, from the same start, until a page has to  *)
(* join again, also while calls overlap.  With two tables one of them can  *)
(* start the next match while the other still shows a hold-down of the     *)
(* match before.                                                           *)
NoPhantomHoldDown ==
  Quiet /\ (\A p \in Pages : socket[p] <= 1)
        /\ (\A p, q \in setting.tables : MatOfPage[p] = MatOfPage[q] => p = q) =>
    \A p \in setting.pages :
      LET m == view[p].match
      IN  hold[p].active /\ online[p] /\ m # None /\ row[m].status = "ACTIVE"
            => /\ osaekomi[m].competitor = hold[p].competitor
               /\ osaekomi[m].number = hold[p].number

(* Nobody can enter golden score while a table has official time left: a   *)
(* match with two tables that start, pause and lose their connection, and  *)
(* miss the end of one match and the start of the next, has been fought    *)
(* for its whole duration by then.                                         *)
GoldenScoreAfterTime ==
  \A m \in Matches : row[m].goldenScore => fought[m] >= setting.duration

(* The table that was not paused and the display, which measure time each  *)
(* in its way, show the same, if they were told of the match at the same   *)
(* time.  (A display that is not told of the end of a match, because its   *)
(* connection or that of the caller was lost, goes on with the time of the *)
(* match before.)                                                          *)
ClocksAgree ==
  Serial /\ Quiet =>
    \A p, q \in setting.pages :
      LET told(page) == /\ online[page] /\ Running(view[page].row)
                        /\ clock[page].running /\ clock[page].steady
      IN  told(p) /\ told(q) /\ view[p].match = view[q].match /\ clock[p].since = clock[q].since
            => clock[p].left = clock[q].left

(* If the server does not fail, a hold-down of 20 s ends its match, unless *)
(* another one has been started in its place.                              *)
TwentySecondsEndIt ==
  \A m \in Matches :
    setting.faults = {} /\ osaekomi[m].held = 2
      ~> row[m].status = "COMPLETED" \/ (osaekomi[m] # NoTracker /\ osaekomi[m].held = 0)

(* When calls do not overlap and nothing fails, every page that shows a    *)
(* match names the winner and how the match was won in the end, or is      *)
(* joining again.                                                          *)
ResultIsShown ==
  \A m \in Matches, p \in Pages :
    Serial /\ setting.faults = {} /\ view[p].match = m /\ row[m].status = "COMPLETED"
      ~> \/ view[p].match # m \/ ~online[p]
         \/ Banner(view[p].row) = [method |-> row[m].winMethod, names |-> row[m].winner]
=============================================================================
