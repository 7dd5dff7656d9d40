--------------------------- MODULE GatewayProofs ---------------------------
(***************************************************************************)
(* Proofs about Gateway for every number of mats, pages, matches and       *)
(* overlapping calls, with connections and the server failing at any time. *)
(***************************************************************************)
EXTENDS Gateway, SequenceTheorems, TLAPS

-----------------------------------------------------------------------------
(* What the operators on rows and scores return. *)

(* The rows the generators write are rows. *)
LEMMA DrawnRowType ==
  ASSUME NEW m \in Matches
  PROVE  DrawnRow(m) \in Row
<1>1. EmptyScores \in [Sides -> Score]
  BY DEF EmptyScores, EmptyScore, Score
<1>2. Entrants[m] \in [Sides -> MaybeCompetitor]
  BY DrawTypes
<1>3. ByeWinner(m) \in MaybeCompetitor
  BY <1>2 DEF ByeWinner, Sides
<1>4. None \in MaybeCompetitor
  BY DEF MaybeCompetitor
<1> QED
  BY <1>1, <1>2, <1>3, <1>4 DEF DrawnRow, Row, Statuses, WinMethods

(* A score event on typed scores gives typed scores. *)
LEMMA ScoredType ==
  ASSUME NEW scores \in [Sides -> Score], NEW side \in Sides, NEW type
  PROVE  Scored(scores, side, type) \in [Sides -> Score]
<1>1. \A counted : Points(type, counted) \in Nat
  BY DEF Points
<1>2. scores[side] \in Score
  OBVIOUS
<1>3. [wazaAri |-> scores[side].wazaAri + Points(type, "WAZA_ARI"),
       yuko    |-> scores[side].yuko    + Points(type, "YUKO"),
       shido   |-> scores[side].shido   + Points(type, "SHIDO")] \in Score
  BY <1>1, <1>2 DEF Score
<1> QED
  BY <1>3 DEF Scored

LEMMA EmptyScoresType == EmptyScores \in [Sides -> Score]
BY DEF EmptyScores, EmptyScore, Score

(* The column writes of start-match, golden score and a score event. *)
LEMMA ColumnWriteType ==
  ASSUME NEW r \in Row, NEW scores \in [Sides -> Score]
  PROVE  /\ [r EXCEPT !.status = "ACTIVE", !.scores = scores] \in Row
         /\ [r EXCEPT !.goldenScore = TRUE] \in Row
         /\ [r EXCEPT !.scores = scores] \in Row
BY DEF Row, Statuses

LEMMA LoserType ==
  ASSUME NEW r \in Row, NEW winner
  PROVE  Loser(r, winner) \in MaybeCompetitor
BY DEF Loser, Row, Sides

Lemmas == INSTANCE DrawLemmas

-----------------------------------------------------------------------------
(* Types *)

MaybeMat == Mats \cup {None}

Sockets == Pages \X Nat

Scores == [Sides -> Score]

Message ==
  [type : {"match-state"}, match : Matches, row : Row]
    \cup [type : {"score-update"}, match : Matches, scores : Scores]
    \cup [type : {"match-started", "osaekomi-stopped"}, match : Matches]
    \cup [type : {"match-ended"}, match : Matches, winner : MaybeCompetitor, winMethod : WinMethods]
    \cup [type : {"osaekomi-started"}, match : Matches, competitor : MaybeCompetitor, number : Nat]
    \cup [type : {"role"}, role : {"viewer", "controller"}]

Tracker == [competitor : MaybeCompetitor, held : Ages, room : MaybeMat, number : Nat]

Call == [op         : {"none", "join", "start", "score", "end", "golden"},
         socket     : Sockets \cup {None},
         room       : MaybeMat,
         match      : MaybeMatch,
         competitor : MaybeCompetitor,
         event      : {None, "WAZA_ARI", "IPPON"},
         detached   : BOOLEAN,
         held       : Ages,
         number     : Nat,
         out        : Seq(Message)]

View == [match : MaybeMatch, row : Row]

(* A call that a service works for knows its match.                        *)
CallsOK ==
  /\ pc \in [Handlers -> {"idle", "verify", "look", "answer", "apply", "reread", "tell"}]
  /\ call \in [Handlers -> Call]
  /\ \A h \in Handlers : pc[h] \in {"apply", "reread"} => call[h].match \in Matches
  /\ \A h \in Handlers : pc[h] \in {"verify", "look"} => call[h].socket \in Sockets

ServerOK ==
  /\ rooms \subseteq Sockets /\ controllers \subseteq Sockets
  /\ osaekomi \in [Matches -> Tracker]
  /\ timers \in [Matches -> SUBSET Ages]

PagesOK ==
  /\ socket \in [Pages -> Nat]
  /\ view \in [Pages -> View]
  /\ inbox \in [Pages -> Seq(Message)]

HistoryOK ==
  /\ holdDowns \in [Matches -> 0..MaxHoldDowns]
  /\ credited \in [Matches -> [1..MaxHoldDowns -> Nat]]

Typing ==
  /\ setting \in Settings
  /\ row \in [Matches -> Row]
  /\ current \in [Mats -> MaybeMatch]
  /\ CallsOK /\ ServerOK /\ PagesOK /\ HistoryOK

-----------------------------------------------------------------------------
(* A hold-down is known by its match and its number.  Until its score is   *)
(* given it is held by its tracker or by one call, and by nothing else.    *)

OneTimerEach ==
  \A m \in Matches : timers[m] = IF osaekomi[m] = NoTracker THEN {} ELSE {osaekomi[m].held}

(* The numbers given out so far. *)
NumbersGiven ==
  /\ \A m \in Matches : osaekomi[m] # NoTracker => osaekomi[m].number \in 1..holdDowns[m]
  /\ \A h \in Handlers : call[h].number # 0 =>
       /\ pc[h] \in {"apply", "tell"} /\ call[h].op = "score"
       /\ call[h].match \in Matches
       /\ call[h].number \in 1..holdDowns[call[h].match]

(* The score of a hold-down is about to be given. *)
Claims(h, m, n) == pc[h] = "apply" /\ call[h].match = m /\ call[h].number = n

OneClaimEach ==
  \A m \in Matches, n \in 1..MaxHoldDowns, h \in Handlers :
    Claims(h, m, n) => /\ osaekomi[m].number # n
                       /\ \A g \in Handlers : Claims(g, m, n) => g = h

UnpaidUntilApplied ==
  \A m \in Matches, n \in 1..MaxHoldDowns :
    /\ n > holdDowns[m] \/ osaekomi[m].number = n \/ (\E h \in Handlers : Claims(h, m, n))
         => credited[m][n] = 0
    /\ credited[m][n] <= 1

HoldDownIInv ==
  OneTimerEach /\ NumbersGiven /\ OneClaimEach /\ UnpaidUntilApplied /\ AwardedAsAnnounced

-----------------------------------------------------------------------------
(* Operators *)

LEMMA MessageTypes ==
  ASSUME NEW m \in Matches, NEW r \in Row, NEW scores \in Scores,
         NEW c \in MaybeCompetitor, NEW winMethod \in WinMethods, NEW n \in Nat
  PROVE  /\ MatchState(m, r) \in Message
         /\ ScoreUpdate(m, scores) \in Message
         /\ MatchStarted(m) \in Message /\ OsaekomiStopped(m) \in Message
         /\ MatchEnded(m, c, winMethod) \in Message
         /\ OsaekomiStarted(m, c, n) \in Message
         /\ Role("viewer") \in Message /\ Role("controller") \in Message
BY DEF Message, MatchState, ScoreUpdate, MatchStarted, OsaekomiStopped, MatchEnded,
       OsaekomiStarted, Role

LEMMA CountedType ==
  ASSUME NEW S, NEW f \in [S -> Nat], NEW n
  PROVE  [f EXCEPT ![n] = @ + 1] \in [S -> Nat]
<1>1. CASE n \in S
  <2>1. f[n] + 1 \in Nat
    BY <1>1
  <2> QED
    BY <2>1
<1>2. CASE n \notin S
  <2>1. [f EXCEPT ![n] = @ + 1] = f
    BY <1>2
  <2> QED
    BY <2>1
<1> QED
  BY <1>1, <1>2

LEMMA NoCallType == NoCall \in Call
<1>1. <<>> \in Seq(Message)
  BY EmptySeq
<1> QED
  BY <1>1 DEF NoCall, Call, MaybeMatch, MaybeCompetitor, MaybeMat, Ages

LEMMA NoViewType == NoView \in View
<1>1. <<None, None>> \in [Sides -> MaybeCompetitor]
  BY DEF Sides, MaybeCompetitor
<1> QED
  BY <1>1, EmptyScoresType
  DEF NoView, ScheduledRow, View, Row, MaybeMatch, MaybeCompetitor, Statuses

(* A page shows a match of the system, or none, whatever it is told.       *)
LEMMA ViewAfterType ==
  ASSUME NEW v \in View, NEW msg \in Message
  PROVE  ViewAfter(v, msg) \in View
<1>1. CASE msg.type = "match-state"
  BY <1>1 DEF ViewAfter, View, Message, MaybeMatch
<1>2. CASE msg.type = "score-update"
  BY <1>2 DEF ViewAfter, View, Message, Scores, Row
<1>3. CASE msg.type = "match-started"
  BY <1>3 DEF ViewAfter, View, Row, Statuses
<1>4. CASE msg.type = "match-ended"
  <2>1. msg.winMethod \in WinMethods /\ msg.winner \in MaybeCompetitor
    BY <1>4 DEF Message
  <2>2. ShownWinner(v.row, msg.winner) \in MaybeCompetitor
    BY <2>1 DEF ShownWinner, MaybeCompetitor
  <2>3. v.row \in Row
    BY DEF View
  <2>4. CASE v.match = msg.match
    <3> DEFINE r == [v.row EXCEPT !.status = "COMPLETED", !.winMethod = msg.winMethod,
                                  !.winner = ShownWinner(v.row, msg.winner)]
    <3>1. r \in Row
      BY <2>1, <2>2, <2>3 DEF Row, Statuses
    <3>2. ViewAfter(v, msg) = [v EXCEPT !.row = r]
      BY <1>4, <2>4 DEF ViewAfter, View
    <3> HIDE DEF r
    <3> QED
      BY <3>1, <3>2 DEF View
  <2>5. CASE v.match # msg.match
    BY <1>4, <2>5 DEF ViewAfter
  <2> QED
    BY <2>4, <2>5
<1>5. CASE msg.type \notin {"match-state", "score-update", "match-started", "match-ended"}
  BY <1>5 DEF ViewAfter
<1> QED
  BY <1>1, <1>2, <1>3, <1>4, <1>5

LEMMA SideOfLoserType ==
  ASSUME NEW m \in Matches, LoserTo[m] # None
  PROVE  SideOfLoser(m) \in Sides
BY DrawTypes DEF SideOfLoser, FreeSide, Sides

LEMMA CompletedRowType ==
  ASSUME row \in [Matches -> Row], NEW m \in Matches, NEW winner \in MaybeCompetitor,
         NEW winMethod \in WinMethods, NEW scores \in Scores, NEW n \in Matches
  PROVE  Rows!CompletedRow(m, winner, winMethod, scores, SideOfLoser(m), n) \in Row
<1> DEFINE loser == Rows!Loser(row[m], winner)
           kept == IF n = m
                   THEN [row[n] EXCEPT !.status = "COMPLETED", !.winner = winner,
                                       !.winMethod = winMethod, !.scores = scores]
                   ELSE row[n]
           placed == IF n = WinnerTo[m]
                     THEN [kept EXCEPT !.competitor[WinnerSide[m]] = winner] ELSE kept
<1>1. kept \in Row
  BY DEF Row, Statuses, Scores
<1>2. placed \in Row
  <2> HIDE DEF kept
  <2> QED
    BY <1>1, DrawTypes DEF Row
<1>3. loser \in MaybeCompetitor
  BY LoserType DEF Loser, Rows!Loser, Row, Sides
<1>4. n = LoserTo[m] => [placed EXCEPT !.competitor[SideOfLoser(m)] = loser] \in Row
  <2>1. n = LoserTo[m] => SideOfLoser(m) \in Sides
    BY SideOfLoserType, DrawTypes
  <2> HIDE DEF placed, loser
  <2> QED
    BY <1>2, <1>3, <2>1 DEF Row, Sides
<1> QED
  BY <1>2, <1>4 DEF Rows!CompletedRow

LEMMA FirstReady ==
  ASSUME NEW mat \in Mats, NEW m, Ready(mat, m) # {}
  PROVE  (CHOOSE i \in Ready(mat, m) : \A j \in Ready(mat, m) : i <= j) \in Ready(mat, m)
<1>1. Programme[mat] \in Seq(Matches)
  BY GatewayTypes
<1>2. Ready(mat, m) \in SUBSET Nat
  BY <1>1, LenProperties DEF Ready
<1> QED
  BY <1>2, Lemmas!LeastNatural

LEMMA NextCurrentType ==
  ASSUME current \in [Mats -> MaybeMatch], NEW m
  PROVE  NextCurrent(m) \in [Mats -> MaybeMatch]
<1> DEFINE mat == MatOf(m)
           ready == Ready(mat, m)
           first == CHOOSE i \in ready : \A j \in ready : i <= j
<1>1. ASSUME mat \in Mats, ready # {}
      PROVE  Programme[mat][first] \in Matches
  <2>1. Programme[mat] \in Seq(Matches)
    BY <1>1, GatewayTypes
  <2>2. first \in ready
    BY <1>1, FirstReady
  <2>3. first \in 1..Len(Programme[mat])
    <3> HIDE DEF first
    <3> QED
      BY <2>1, <2>2, LenProperties DEF Ready
  <2> HIDE DEF first
  <2> QED
    BY <2>1, <2>3, ElementOfSeq
<1>2. \A x \in Mats : NextCurrent(m)[x] \in MaybeMatch
  <2> HIDE DEF mat, ready, first
  <2>1. NextCurrent(m) =
          IF current[mat] # m THEN current
          ELSE [current EXCEPT ![mat] = IF ready = {} THEN None ELSE Programme[mat][first]]
    BY DEF NextCurrent, mat, ready, first
  <2> QED
    BY <1>1, <2>1 DEF MaybeMatch
<1>3. NextCurrent(m) = [x \in Mats |-> NextCurrent(m)[x]]
  <2>1. CASE current[mat] # m
    BY <2>1 DEF NextCurrent
  <2>2. CASE current[mat] = m
    <3> DEFINE new == IF ready = {} THEN None ELSE Programme[mat][first]
    <3>1. NextCurrent(m) = [current EXCEPT ![mat] = new]
      BY <2>2 DEF NextCurrent
    <3> HIDE DEF mat, ready, new
    <3> QED
      BY <3>1
  <2> QED
    BY <2>1, <2>2
<1> QED
  BY <1>2, <1>3

LEMMA ClientRoomType ==
  ASSUME ServerOK, NEW s
  PROVE  ClientRoom(s) \in MaybeMat
<1>1. s \in rooms => PageOf(s) \in Pages
  BY DEF ServerOK, Sockets, PageOf
<1> QED
  BY <1>1, GatewayTypes DEF ClientRoom, MaybeMat

LEMMA InboxType ==
  ASSUME inbox \in [Pages -> Seq(Message)], NEW msgs \in Seq(Message),
         NEW s, NEW room, Emit(s, msgs) \/ Broadcast(room, msgs)
  PROVE  inbox' \in [Pages -> Seq(Message)]
<1>1. \A p \in Pages : inbox[p] \o msgs \in Seq(Message)
  BY ConcatProperties
<1> QED
  BY <1>1 DEF Emit, Broadcast

-----------------------------------------------------------------------------
(* Type correctness, one action at a time *)

LEMMA InitTyping == Init => Typing
<1> SUFFICES ASSUME Init PROVE Typing
  OBVIOUS
<1>1. row \in [Matches -> Row]
  BY DrawnRowType DEF Init
<1>2. current \in [Mats -> MaybeMatch]
  <2>1. \A mat \in Mats : Programme[mat] # <<>> => Head(Programme[mat]) \in Matches
    BY GatewayTypes, HeadTailProperties
  <2> QED
    BY <2>1 DEF Init, MaybeMatch
<1>3. CallsOK
  BY NoCallType DEF Init, CallsOK
<1>4. ServerOK
  BY DEF Init, ServerOK, Tracker, NoTracker, MaybeCompetitor, MaybeMat, Ages
<1>5. PagesOK
  BY NoViewType, EmptySeq DEF Init, PagesOK
<1>6. HistoryOK
  BY GatewayTypes DEF Init, HistoryOK
<1> QED
  BY <1>1, <1>2, <1>3, <1>4, <1>5, <1>6 DEF Init, Typing

(* A call goes on with its next step, or returns.                          *)
LEMMA GotoTyping ==
  ASSUME CallsOK, NEW h \in Handlers, NEW where \in {"idle", "answer", "tell"}, Goto(h, where),
         NEW c \in Call, call' = [call EXCEPT ![h] = c]
  PROVE  CallsOK'
BY DEF CallsOK, Goto

LEMMA ReturnTyping ==
  ASSUME CallsOK, NEW h \in Handlers, Return(h)
  PROVE  CallsOK'
BY NoCallType DEF CallsOK, Return, Goto

LEMMA ThenTellTyping ==
  ASSUME CallsOK, NEW h \in Handlers, NEW msgs \in Seq(Message), ThenTell(h, msgs)
  PROVE  CallsOK'
<1>1. [call[h] EXCEPT !.out = msgs] \in Call
  BY DEF CallsOK, Call
<1>2. call' = [call EXCEPT ![h] = [call[h] EXCEPT !.out = msgs]] /\ Goto(h, "tell")
  BY DEF ThenTell
<1> QED
  BY <1>1, <1>2, GotoTyping

(* Joining a mat. *)
LEMMA JoinTyping ==
  ASSUME Typing, NEW h \in Handlers,
         (\E p \in Pages : Join(h, p)) \/ VerifyPin(h) \/ GetMatState(h) \/ Answer(h)
  PROVE  Typing'
<1> USE DEF Typing
<1>1. ASSUME NEW p \in Pages, Join(h, p) PROVE Typing'
  <2> DEFINE s == <<p, socket[p] + 1>>
             c == [NoCall EXCEPT !.op = "join", !.socket = s]
  <2>1. s \in Sockets
    BY DEF PagesOK, Sockets
  <2>2. c \in Call /\ c.socket = s
    BY <2>1, NoCallType DEF Call
  <2>3. CallsOK'
    <3>1. /\ call' = [call EXCEPT ![h] = c]
          /\ Goto(h, "verify") \/ Goto(h, "look")
      BY <1>1 DEF Join
    <3> HIDE DEF c
    <3> QED
      BY <2>1, <2>2, <3>1 DEF CallsOK, Goto
  <2>4. ServerOK'
    BY <1>1, <2>1 DEF Join, ServerOK
  <2>5. PagesOK'
    <3>1. inbox[p] \in Seq(Message) /\ Role("viewer") \in Message
      BY DEF PagesOK, Message, Role
    <3>2. Append(inbox[p], Role("viewer")) \in Seq(Message)
      BY <3>1, AppendProperties
    <3>3. socket' \in [Pages -> Nat]
      <4>1. socket' = [socket EXCEPT ![p] = @ + 1]
        BY <1>1 DEF Join
      <4> QED
        BY <4>1, CountedType DEF PagesOK
    <3>4. inbox' = [inbox EXCEPT ![p] = IF p \in setting.tables THEN inbox[p]
                                        ELSE Append(inbox[p], Role("viewer"))]
      BY <1>1 DEF Join
    <3> QED
      BY <1>1, <3>2, <3>3, <3>4 DEF Join, PagesOK
  <2> QED
    BY <1>1, <2>3, <2>4, <2>5 DEF Join, HistoryOK, dbVars, history
<1>2. CASE VerifyPin(h)
  <2>1. CallsOK' /\ call[h].socket \in Sockets
    BY <1>2 DEF VerifyPin, CallsOK, Goto
  <2>2. <<Role("controller")>> \in Seq(Message)
    BY DEF Message, Role
  <2>3. inbox' \in [Pages -> Seq(Message)]
    BY <1>2, <2>2, InboxType DEF VerifyPin, PagesOK
  <2> QED
    BY <1>2, <2>1, <2>3
    DEF VerifyPin, ServerOK, PagesOK, HistoryOK, dbVars, pageVars, history
<1>3. CASE GetMatState(h)
  <2> DEFINE m == current[MatOfPage[PageOf(call[h].socket)]]
             out == IF m = None THEN <<>> ELSE <<MatchState(m, row[m])>>
  <2>1. PageOf(call[h].socket) \in Pages
    BY <1>3 DEF GetMatState, CallsOK, Sockets, PageOf
  <2>2. m \in MaybeMatch
    BY <2>1, GatewayTypes
  <2>3. m # None => MatchState(m, row[m]) \in Message
    BY <2>2 DEF MaybeMatch, MatchState, Message
  <2>4. out \in Seq(Message)
    BY <2>3, EmptySeq
  <2>5. call' = [call EXCEPT ![h] = [call[h] EXCEPT !.out = out]] /\ Goto(h, "answer")
    BY <1>3 DEF GetMatState
  <2> HIDE DEF out, m
  <2>6. [call[h] EXCEPT !.out = out] \in Call
    BY <2>4 DEF CallsOK, Call
  <2>7. CallsOK'
    BY <2>5, <2>6, GotoTyping
  <2> QED
    BY <1>3, <2>7
    DEF GetMatState, ServerOK, PagesOK, HistoryOK, dbVars, serverVars, pageVars, history
<1>4. CASE Answer(h)
  <2>1. call[h].out \in Seq(Message)
    BY DEF CallsOK, Call
  <2>2. inbox' \in [Pages -> Seq(Message)]
    BY <1>4, <2>1, InboxType DEF Answer, PagesOK
  <2>3. CallsOK'
    BY <1>4, ReturnTyping DEF Answer
  <2> QED
    BY <1>4, <2>2, <2>3
    DEF Answer, ServerOK, PagesOK, HistoryOK, dbVars, serverVars, pageVars, history
<1> QED
  BY <1>1, <1>2, <1>3, <1>4

(* A request of a table: only its call and its clock change.               *)
LEMMA RequestTyping ==
  ASSUME Typing, NEW h \in Handlers, NEW p \in Pages, NEW c \in Call, NEW clk,
         view[p].match # None, Request(h, p, c, clk)
  PROVE  /\ Typing'
         /\ pc' = [pc EXCEPT ![h] = "apply"]
         /\ call' = [call EXCEPT ![h] = [c EXCEPT !.socket = Socket(p), !.match = view[p].match]]
         /\ UNCHANGED <<serverVars, holdDowns, credited>>
<1> DEFINE new == [c EXCEPT !.socket = Socket(p), !.match = view[p].match]
<1>1. Socket(p) \in Sockets
  BY DEF Socket, Sockets, Typing, PagesOK
<1>2. view[p].match \in Matches
  BY DEF Typing, PagesOK, View, MaybeMatch
<1>3. new \in Call /\ new.match \in Matches
  BY <1>1, <1>2 DEF Call, MaybeMatch
<1>4. pc' = [pc EXCEPT ![h] = "apply"] /\ call' = [call EXCEPT ![h] = new]
  BY DEF Request, Goto
<1> HIDE DEF new
<1>5. CallsOK'
  BY <1>3, <1>4 DEF Typing, CallsOK
<1>6. (Typing /\ CallsOK)'
  BY <1>5 DEF Request, Typing, ServerOK, PagesOK, HistoryOK, dbVars, serverVars
<1> QED
  BY <1>4, <1>6 DEF Request, new

(* The buttons of the table other than those of a hold-down.               *)
Plain(h, p, side) ==
  \/ SendStartMatch(h, p) \/ SendGoldenScore(h, p)
  \/ SendEndMatch(h, p, side) \/ SendScoreEvent(h, p, side, "WAZA_ARI")

LEMMA PlainTyping ==
  ASSUME Typing, NEW h \in Handlers, NEW p \in Pages, NEW side \in Sides, Plain(h, p, side)
  PROVE  /\ Typing'
         /\ pc' = [pc EXCEPT ![h] = "apply"]
         /\ \E c \in Call : c.number = 0 /\ call' = [call EXCEPT ![h] = c]
         /\ UNCHANGED <<serverVars, holdDowns, credited>>
<1>1. view[p].row.competitor[side] \in MaybeCompetitor
  BY DEF Typing, PagesOK, View, Row
<1>2. view[p].match # None
  BY DEF Plain, SendStartMatch, SendGoldenScore, SendEndMatch, SendScoreEvent,
         CanStart, CanScore, CanGoldenScore
<1>3. PICK c \in Call : c.number = 0 /\ \E clk : Request(h, p, c, clk)
  <2>1. [NoCall EXCEPT !.op = "start"] \in Call /\ [NoCall EXCEPT !.op = "start"].number = 0
    BY NoCallType DEF Call, NoCall
  <2>2. [NoCall EXCEPT !.op = "golden"] \in Call /\ [NoCall EXCEPT !.op = "golden"].number = 0
    BY NoCallType DEF Call, NoCall
  <2>3. \A c \in MaybeCompetitor :
          /\ [NoCall EXCEPT !.op = "end", !.competitor = c] \in Call
          /\ [NoCall EXCEPT !.op = "end", !.competitor = c].number = 0
    BY NoCallType DEF Call, NoCall
  <2>4. \A c \in MaybeCompetitor :
          /\ [NoCall EXCEPT !.op = "score", !.event = "WAZA_ARI", !.competitor = c] \in Call
          /\ [NoCall EXCEPT !.op = "score", !.event = "WAZA_ARI", !.competitor = c].number = 0
    BY NoCallType DEF Call, NoCall
  <2>5. CASE SendStartMatch(h, p)
    BY <2>1, <2>5 DEF SendStartMatch
  <2>6. CASE SendGoldenScore(h, p)
    BY <2>2, <2>6 DEF SendGoldenScore
  <2>7. CASE SendEndMatch(h, p, side)
    BY <1>1, <2>3, <2>7 DEF SendEndMatch
  <2>8. CASE SendScoreEvent(h, p, side, "WAZA_ARI")
    BY <1>1, <2>4, <2>8 DEF SendScoreEvent
  <2> QED
    BY <2>5, <2>6, <2>7, <2>8 DEF Plain
<1> DEFINE new == [c EXCEPT !.socket = Socket(p), !.match = view[p].match]
<1>4. /\ Typing'
      /\ pc' = [pc EXCEPT ![h] = "apply"]
      /\ call' = [call EXCEPT ![h] = new]
      /\ UNCHANGED <<serverVars, holdDowns, credited>>
  BY <1>2, <1>3, RequestTyping
<1>5. new.number = 0
  BY <1>3 DEF Call
<1>6. new \in Call
  <2> HIDE DEF new
  <2> QED
    BY <1>4 DEF Typing, CallsOK
<1> QED
  BY <1>4, <1>5, <1>6

(* A hold-down that starts in a match. *)
LEMMA StartHoldDownTyping ==
  ASSUME Typing, NEW p \in Pages, NEW side \in Sides, StartHoldDown(p, side)
  PROVE  Typing' /\ view[p].match \in Matches
<1> USE DEF Typing
<1> DEFINE m == view[p].match
           c == view[p].row.competitor[side]
           room == ClientRoom(Socket(p))
           tracker == [competitor |-> c, held |-> 0, room |-> room, number |-> holdDowns[m] + 1]
<1>1. m \in Matches /\ c \in MaybeCompetitor
  BY DEF StartHoldDown, CanStartHoldDown, CanScore, PagesOK, View, Row, MaybeMatch
<1>2. room \in MaybeMat
  BY ClientRoomType
<1>3. holdDowns[m] + 1 \in 0..MaxHoldDowns
  BY <1>1, GatewayTypes DEF StartHoldDown, HistoryOK
<1>4. tracker \in Tracker
  BY <1>1, <1>2, <1>3 DEF Tracker, Ages
<1>5. TimersWith(m) \in SUBSET Ages
  BY <1>1 DEF TimersWith, ServerOK, Ages
<1>6. OsaekomiStarted(m, c, holdDowns[m] + 1) \in Message
  BY <1>1, <1>3, GatewayTypes DEF OsaekomiStarted, Message
<1>7. inbox' \in [Pages -> Seq(Message)]
  <2>1. /\ <<OsaekomiStarted(m, c, holdDowns[m] + 1)>> \in Seq(Message)
        /\ Broadcast(room, <<OsaekomiStarted(m, c, holdDowns[m] + 1)>>)
    BY <1>6 DEF StartHoldDown
  <2> QED
    BY <2>1, InboxType DEF PagesOK
<1>8. ServerOK'
  <2>1. /\ timers' = [timers EXCEPT ![m] = TimersWith(m)]
        /\ osaekomi' = [osaekomi EXCEPT ![m] = tracker]
        /\ UNCHANGED <<rooms, controllers>>
    BY DEF StartHoldDown
  <2> HIDE DEF tracker
  <2> QED
    BY <1>4, <1>5, <2>1 DEF ServerOK
<1>9. HistoryOK'
  BY <1>3 DEF StartHoldDown, HistoryOK
<1> QED
  BY <1>1, <1>7, <1>8, <1>9 DEF StartHoldDown, CallsOK, PagesOK, dbVars, pageVars

(* A hold-down that is over. *)
LEMMA ResolveTyping ==
  ASSUME Typing, NEW h \in Handlers, NEW m \in Matches, NEW held \in Ages,
         NEW s \in Sockets \cup {None}, NEW others \in SUBSET Ages, Resolve(h, m, held, s, others),
         sent' \in {sent, sent + 1}
  PROVE  Typing'
<1> USE DEF Typing
<1> DEFINE tracker == osaekomi[m]
           c == [NoCall EXCEPT !.op = "score", !.room = tracker.room, !.socket = s, !.match = m,
                      !.competitor = tracker.competitor, !.detached = s = None,
                      !.event = IF held = 2 THEN "IPPON" ELSE "WAZA_ARI",
                      !.held = tracker.held, !.number = tracker.number]
<1>1. tracker \in Tracker
  BY DEF ServerOK
<1>2. c \in Call /\ c.match = m
  BY <1>1, NoCallType DEF Call, Tracker, MaybeMatch
<1>3. CallsOK'
  <2>1. CASE held = 0
    BY <2>1 DEF Resolve, CallsOK
  <2>2. CASE held # 0
    <3>1. pc' = [pc EXCEPT ![h] = "apply"] /\ call' = [call EXCEPT ![h] = c]
      BY <2>2 DEF Resolve, Goto
    <3> HIDE DEF c
    <3> QED
      BY <1>2, <3>1 DEF CallsOK
  <2> QED
    BY <2>1, <2>2
<1>4. ServerOK'
  <2>1. NoTracker \in Tracker
    BY DEF NoTracker, Tracker, MaybeCompetitor, MaybeMat, Ages
  <2> QED
    BY <2>1 DEF Resolve, Forget, ServerOK
<1>5. inbox' \in [Pages -> Seq(Message)]
  <2>1. <<OsaekomiStopped(m)>> \in Seq(Message) /\ Broadcast(tracker.room, <<OsaekomiStopped(m)>>)
    BY DEF OsaekomiStopped, Message, Resolve
  <2> QED
    BY <2>1, InboxType DEF PagesOK
<1> QED
  BY <1>3, <1>4, <1>5 DEF Resolve, PagesOK, HistoryOK, dbVars, pageVars

LEMMA StopTyping ==
  ASSUME Typing, NEW h \in Handlers,
         (\E p \in Pages : SendStopHoldDown(h, p)) \/ (\E m \in Matches : TimerFires(h, m))
  PROVE  Typing'
<1>1. ASSUME NEW p \in Pages, SendStopHoldDown(h, p) PROVE Typing'
  <2>1. view[p].match \in Matches
    BY <1>1 DEF SendStopHoldDown, CanStopHoldDown, CanScore, Typing, PagesOK, View, MaybeMatch
  <2>2. Socket(p) \in Sockets
    BY DEF Socket, Sockets, Typing, PagesOK
  <2>3. osaekomi[view[p].match].held \in Ages /\ timers[view[p].match] \in SUBSET Ages
    BY <2>1 DEF Typing, ServerOK, Tracker
  <2> QED
    BY <1>1, <2>1, <2>2, <2>3, ResolveTyping DEF SendStopHoldDown, Press
<1>2. ASSUME NEW m \in Matches, TimerFires(h, m) PROVE Typing'
  <2>1. timers[m] \ {2} \in SUBSET Ages /\ 2 \in Ages
    BY DEF Typing, ServerOK, Ages
  <2> QED
    BY <1>2, <2>1, ResolveTyping DEF TimerFires
<1> QED
  BY <1>1, <1>2

LEMMA TickTyping ==
  ASSUME Typing, Tick
  PROVE  Typing'
<1> DEFINE older(age) == IF age = 2 THEN 2 ELSE age + 1
<1>1. \A age \in Ages : older(age) \in Ages
  BY DEF Ages
<1>2. \A m \in Matches : [osaekomi[m] EXCEPT !.held = older(osaekomi[m].held)] \in Tracker
  BY <1>1 DEF Typing, ServerOK, Tracker
<1>3. NoTracker \in Tracker
  BY DEF NoTracker, Tracker, MaybeCompetitor, MaybeMat, Ages
<1>4. osaekomi' \in [Matches -> Tracker]
  BY <1>2, <1>3 DEF Tick
<1>5. timers' \in [Matches -> SUBSET Ages]
  BY <1>1 DEF Tick, Typing, ServerOK
<1> QED
  BY <1>4, <1>5 DEF Tick, Typing, CallsOK, ServerOK, PagesOK, HistoryOK, dbVars

-----------------------------------------------------------------------------
(* The services *)

LEMMA CompleteTyping ==
  ASSUME Typing, NEW m \in Matches, NEW winner \in MaybeCompetitor,
         NEW winMethod \in WinMethods, NEW scores \in Scores, Complete(m, winner, winMethod, scores)
  PROVE  row' \in [Matches -> Row] /\ current' \in [Mats -> MaybeMatch]
<1>1. \A n \in Matches : Rows!CompletedRow(m, winner, winMethod, scores, SideOfLoser(m), n) \in Row
  BY CompletedRowType DEF Typing
<1> QED
  BY <1>1, NextCurrentType DEF Complete, Typing

LEMMA ApplyTyping ==
  ASSUME Typing, NEW h \in Handlers, ApplyScoreEvent(h)
  PROVE  Typing'
<1> USE DEF Typing
<1> DEFINE c == call[h]
           m == c.match
           side == IF row[m].competitor[1] = c.competitor THEN 1 ELSE 2
           scores == Scored(row[m].scores, side, c.event)
           over == Terminates(scores[side], c.event)
           winner == row[m].competitor[WinningSide(side, scores[side], c.event)]
           winMethod == MethodOf(scores[side], c.event)
           told == <<ScoreUpdate(m, scores)>>
                     \o (IF over THEN <<MatchEnded(m, winner, winMethod)>> ELSE <<>>)
<1>1. m \in Matches /\ row[m] \in Row /\ side \in Sides
  BY DEF ApplyScoreEvent, CallsOK, Sides
<1>2. scores \in Scores
  BY <1>1, ScoredType DEF Scores, Row
<1>3. winner \in MaybeCompetitor
  BY <1>1 DEF WinningSide, Opponent, Row, Sides
<1>4. winMethod \in WinMethods
  BY DEF MethodOf, WinMethods
<1> HIDE DEF side, scores, winner, winMethod
<1>5. row' \in [Matches -> Row] /\ current' \in [Mats -> MaybeMatch]
  <2>1. CASE over
    <3>1. Complete(m, winner, winMethod, scores)
      BY <2>1 DEF ApplyScoreEvent, side, scores, winner, winMethod
    <3> QED
      BY <1>1, <1>2, <1>3, <1>4, <3>1, CompleteTyping
  <2>2. CASE ~over
    <3>1. row' = [row EXCEPT ![m].scores = scores] /\ UNCHANGED current
      BY <2>2 DEF ApplyScoreEvent, side, scores, winner, winMethod
    <3> QED
      BY <1>1, <1>2, <3>1 DEF Row, Scores
  <2> QED
    BY <2>1, <2>2
<1>6. told \in Seq(Message)
  <2>1. ScoreUpdate(m, scores) \in Message /\ MatchEnded(m, winner, winMethod) \in Message
    BY <1>1, <1>2, <1>3, <1>4 DEF ScoreUpdate, MatchEnded, Message
  <2> QED
    BY <2>1, EmptySeq, ConcatProperties
<1>7. CallsOK'
  <2>1. ThenTell(h, told)
    BY DEF ApplyScoreEvent, side, scores, winner, winMethod
  <2> HIDE DEF told
  <2> QED
    BY <1>6, <2>1, ThenTellTyping
<1>8. HistoryOK'
  <2>1. /\ UNCHANGED holdDowns
        /\ credited' = IF c.number = 0 THEN credited ELSE [credited EXCEPT ![m][c.number] = @ + 1]
    BY DEF ApplyScoreEvent
  <2>2. credited[m] \in [1..MaxHoldDowns -> Nat]
    BY <1>1 DEF HistoryOK
  <2>3. [credited[m] EXCEPT ![c.number] = @ + 1] \in [1..MaxHoldDowns -> Nat]
    BY <2>2, CountedType
  <2>4. [credited EXCEPT ![m][c.number] = @ + 1] \in [Matches -> [1..MaxHoldDowns -> Nat]]
    BY <2>3 DEF HistoryOK
  <2> QED
    BY <2>1, <2>4 DEF HistoryOK
<1>9. UNCHANGED <<setting, serverVars, pageVars, inbox>>
  BY DEF ApplyScoreEvent
<1> QED
  BY <1>5, <1>7, <1>8, <1>9 DEF ServerOK, PagesOK, serverVars, pageVars

LEMMA ServiceTyping ==
  ASSUME Typing, NEW h \in Handlers,
         StartMatch(h) \/ EndMatch(h) \/ EnableGoldenScore(h) \/ GetMatchState(h)
  PROVE  Typing'
<1> USE DEF Typing
<1> DEFINE m == call[h].match
<1>1. m \in Matches /\ row[m] \in Row
  BY DEF CallsOK, StartMatch, EndMatch, EnableGoldenScore, GetMatchState
<1>2. UNCHANGED <<setting, serverVars, pageVars, inbox, history>>
  BY DEF StartMatch, EndMatch, EnableGoldenScore, GetMatchState
<1>3. ServerOK' /\ PagesOK' /\ HistoryOK' /\ setting' \in Settings
  BY <1>2 DEF ServerOK, PagesOK, HistoryOK, serverVars, pageVars, history
<1>4. CASE StartMatch(h)
  <2>1. row' \in [Matches -> Row] /\ row'[m] \in Row
    <3>1. row' = [row EXCEPT ![m].status = "ACTIVE", ![m].scores = EmptyScores]
      BY <1>4 DEF StartMatch, Rows!Start, Rows!EmptyScores, Rows!EmptyScore, Rows!Sides,
                  EmptyScores, EmptyScore, Sides
    <3>2. [row[m] EXCEPT !.status = "ACTIVE", !.scores = EmptyScores] \in Row
      BY <1>1, ColumnWriteType, EmptyScoresType
    <3> QED
      BY <1>1, <3>1, <3>2
  <2>2. <<MatchStarted(m), MatchState(m, row'[m])>> \in Seq(Message)
    BY <1>1, <2>1 DEF MatchStarted, MatchState, Message
  <2>3. CallsOK'
    BY <1>4, <2>2, ThenTellTyping DEF StartMatch
  <2> QED
    BY <1>3, <1>4, <2>1, <2>3 DEF StartMatch
<1>5. CASE EndMatch(h)
  <2>1. call[h].competitor \in MaybeCompetitor /\ "DECISION" \in WinMethods /\ row[m].scores \in Scores
    BY <1>1 DEF CallsOK, Call, WinMethods, Row, Scores
  <2>2. row' \in [Matches -> Row] /\ current' \in [Mats -> MaybeMatch]
    BY <1>1, <1>5, <2>1, CompleteTyping DEF EndMatch
  <2>3. <<MatchEnded(m, call[h].competitor, "DECISION")>> \in Seq(Message)
    BY <1>1, <2>1 DEF MatchEnded, Message
  <2>4. CallsOK'
    BY <1>5, <2>3, ThenTellTyping DEF EndMatch
  <2> QED
    BY <1>3, <2>2, <2>4
<1>6. CASE EnableGoldenScore(h)
  <2>1. row' \in [Matches -> Row]
    BY <1>1, <1>6 DEF EnableGoldenScore, Rows!GoldenScore, Row
  <2>2. CallsOK'
    BY <1>1, <1>6 DEF EnableGoldenScore, CallsOK, Goto
  <2> QED
    BY <1>3, <1>6, <2>1, <2>2 DEF EnableGoldenScore
<1>7. CASE GetMatchState(h)
  <2>1. <<MatchState(m, row[m])>> \in Seq(Message)
    BY <1>1 DEF MatchState, Message
  <2>2. CallsOK'
    BY <1>7, <2>1, ThenTellTyping DEF GetMatchState
  <2> QED
    BY <1>3, <1>7, <2>2 DEF GetMatchState, dbVars
<1> QED
  BY <1>4, <1>5, <1>6, <1>7

LEMMA AnswerTyping ==
  ASSUME Typing, NEW h \in Handlers, Tell(h) \/ Reject(h)
  PROVE  Typing'
<1> USE DEF Typing
<1>1. CallsOK'
  BY ReturnTyping DEF Tell, Reject
<1>2. inbox' \in [Pages -> Seq(Message)]
  <2>1. CASE Tell(h)
    <3>1. call[h].out \in Seq(Message)
      BY DEF CallsOK, Call
    <3> QED
      BY <2>1, <3>1, InboxType DEF Tell, PagesOK
  <2>2. CASE Reject(h)
    BY <2>2 DEF Reject, PagesOK
  <2> QED
    BY <2>1, <2>2
<1> QED
  BY <1>1, <1>2
  DEF Tell, Reject, ServerOK, PagesOK, HistoryOK, dbVars, serverVars, pageVars, history

-----------------------------------------------------------------------------
(* Pages and failures *)

LEMMA PageTyping ==
  ASSUME Typing, NEW p \in Pages, Deliver(p) \/ Disconnect(p) \/ PauseOrResume(p)
  PROVE  Typing' /\ UNCHANGED <<osaekomi, timers, pc, call, holdDowns, credited>>
<1> USE DEF Typing
<1>1. CASE Deliver(p)
  <2>1. Head(inbox[p]) \in Message /\ Tail(inbox[p]) \in Seq(Message)
    BY <1>1, HeadTailProperties DEF Deliver, PagesOK
  <2>2. ViewAfter(view[p], Head(inbox[p])) \in View
    BY <2>1, ViewAfterType DEF PagesOK
  <2>3. /\ inbox' = [inbox EXCEPT ![p] = Tail(@)]
        /\ view' = [view EXCEPT ![p] = ViewAfter(@, Head(inbox[p]))]
        /\ UNCHANGED <<setting, dbVars, serverVars, pc, call, socket, history>>
    BY <1>1 DEF Deliver
  <2> QED
    BY <2>1, <2>2, <2>3
    DEF CallsOK, ServerOK, PagesOK, HistoryOK, dbVars, serverVars, history
<1>2. CASE Disconnect(p)
  BY <1>2, EmptySeq
  DEF Disconnect, CallsOK, ServerOK, PagesOK, HistoryOK, dbVars, history
<1>3. CASE PauseOrResume(p)
  BY <1>3
  DEF PauseOrResume, CallsOK, ServerOK, PagesOK, HistoryOK, dbVars, serverVars, history
<1> QED
  BY <1>1, <1>2, <1>3

LEMMA ServerStopsTyping ==
  ASSUME Typing, ServerStops
  PROVE  Typing'
<1>1. NoTracker \in Tracker
  BY DEF NoTracker, Tracker, MaybeCompetitor, MaybeMat, Ages
<1> QED
  BY <1>1, NoCallType, EmptySeq
  DEF ServerStops, Typing, CallsOK, ServerOK, PagesOK, HistoryOK, dbVars, history

LEMMA DetachedTyping ==
  ASSUME Typing, NEW h \in Handlers, RejectDetached(h)
  PROVE  Typing'
<1>1. CASE ServerStops
  BY <1>1, ServerStopsTyping
<1>2. CASE Return(h) /\ UNCHANGED <<setting, dbVars, serverVars, pageVars, inbox, history>>
  BY <1>2, ReturnTyping
  DEF Typing, ServerOK, PagesOK, HistoryOK, dbVars, serverVars, pageVars, history
<1> QED
  BY <1>1, <1>2 DEF RejectDetached

(* The steps of the system, without what the bounds of a setting forbid.   *)
LEMMA NextSteps ==
  ASSUME Typing, Next
  PROVE  \/ \E h \in Handlers :
              \/ \E p \in Pages :
                   \/ Join(h, p) \/ SendStopHoldDown(h, p)
                   \/ \E side \in Sides : Plain(h, p, side)
              \/ \E m \in Matches : TimerFires(h, m)
              \/ Proceed(h)
         \/ \E p \in Pages, side \in Sides : StartHoldDown(p, side)
         \/ \E p \in Pages : Deliver(p) \/ Disconnect(p) \/ PauseOrResume(p)
         \/ Tick \/ ServerStops
<1>1. /\ setting.handlers \subseteq Handlers
      /\ setting.pages \subseteq Pages
      /\ setting.sides \subseteq Sides
  BY GatewayTypes DEF Typing
<1>2. 1 \in Sides
  BY DEF Sides
<1>3. ASSUME NEW h \in setting.handlers, NEW p \in setting.pages, Send(h, p)
      PROVE  SendStopHoldDown(h, p) \/ \E side \in Sides : Plain(h, p, side)
  BY <1>1, <1>2, <1>3 DEF Send, Plain
<1> QED
  BY <1>1, <1>3 DEF Next, Crash

LEMMA NextTyping == Typing /\ [Next]_vars => Typing'
<1> SUFFICES ASSUME Typing, [Next]_vars PROVE Typing'
  OBVIOUS
<1>1. CASE Next
  <2>1. ASSUME NEW h \in Handlers, NEW p \in Pages,
               Join(h, p) \/ SendStopHoldDown(h, p) \/ \E side \in Sides : Plain(h, p, side)
        PROVE  Typing'
    BY <2>1, JoinTyping, StopTyping, PlainTyping
  <2>2. ASSUME NEW h \in Handlers, NEW m \in Matches, TimerFires(h, m)
        PROVE  Typing'
    BY <2>2, StopTyping
  <2>3. ASSUME NEW h \in Handlers, Proceed(h)
        PROVE  Typing'
    BY <2>3, JoinTyping, ApplyTyping, ServiceTyping, AnswerTyping, DetachedTyping DEF Proceed
  <2>4. ASSUME NEW p \in Pages, NEW side \in Sides, StartHoldDown(p, side)
        PROVE  Typing'
    BY <2>4, StartHoldDownTyping
  <2>5. ASSUME NEW p \in Pages, Deliver(p) \/ Disconnect(p) \/ PauseOrResume(p)
        PROVE  Typing'
    BY <2>5, PageTyping
  <2> QED
    BY <1>1, <2>1, <2>2, <2>3, <2>4, <2>5, NextSteps, TickTyping, ServerStopsTyping
<1>2. CASE UNCHANGED vars
  BY <1>2 DEF vars, Typing, CallsOK, ServerOK, PagesOK, HistoryOK, dbVars, serverVars,
              pageVars, history
<1> QED
  BY <1>1, <1>2

(* The state of a mat and its pages is always one the program can be in:   *)
(* whatever overlaps or fails, a page shows a match of the programme, a    *)
(* tracker is that of a hold-down that was started, and every message is   *)
(* one of those the pages listen to.                                       *)
THEOREM TypeCorrect == Spec => []Typing
<1>1. Init => Typing
  BY InitTyping
<1>2. Typing /\ [Next]_vars => Typing'
  BY NextTyping
<1> QED
  BY <1>1, <1>2, PTL DEF Spec

-----------------------------------------------------------------------------
(* The invariant of the hold-downs *)

LEMMA HoldDownInit == Init => HoldDownIInv
BY GatewayTypes
DEF Init, HoldDownIInv, OneTimerEach, NumbersGiven, OneClaimEach, Claims, UnpaidUntilApplied,
    AwardedAsAnnounced, NoTracker, NoCall

(* A step that leaves trackers, timers and scores alone, and every call    *)
(* that carries a hold-down with them.                                     *)
LEMMA HoldDownElsewhere ==
  ASSUME HoldDownIInv, UNCHANGED <<osaekomi, timers, holdDowns, credited>>,
         \A h \in Handlers : call'[h].number = 0 \/ (pc'[h] = pc[h] /\ call'[h] = call[h])
  PROVE  HoldDownIInv'
<1> USE DEF HoldDownIInv
<1>1. OneTimerEach'
  BY DEF OneTimerEach
<1>2. NumbersGiven'
  BY DEF NumbersGiven
<1>3. \A m \in Matches, n \in 1..MaxHoldDowns, h \in Handlers :
        Claims(h, m, n)' => Claims(h, m, n)
  BY DEF Claims
<1>4. OneClaimEach'
  BY <1>3 DEF OneClaimEach
<1>5. UnpaidUntilApplied'
  BY <1>3 DEF UnpaidUntilApplied
<1>6. AwardedAsAnnounced'
  BY DEF AwardedAsAnnounced
<1> QED
  BY <1>1, <1>2, <1>4, <1>5, <1>6

(* The services other than scores, and the answers.                        *)
LEMMA HoldDownCalls ==
  ASSUME Typing, HoldDownIInv, NEW h \in Handlers,
         \/ \E p \in Pages : Join(h, p)
         \/ VerifyPin(h) \/ GetMatState(h) \/ Answer(h)
         \/ StartMatch(h) \/ EndMatch(h) \/ EnableGoldenScore(h) \/ GetMatchState(h)
         \/ Reject(h) \/ Tell(h)
  PROVE  HoldDownIInv'
<1>1. UNCHANGED <<osaekomi, timers, holdDowns, credited>>
  BY DEF Join, VerifyPin, GetMatState, Answer, StartMatch, EndMatch, EnableGoldenScore,
         GetMatchState, Reject, Tell, serverVars, history
<1>2. /\ pc \in [Handlers -> {"idle", "verify", "look", "answer", "apply", "reread", "tell"}]
      /\ call \in [Handlers -> Call]
  BY DEF Typing, CallsOK
<1>3. call[h].number # 0 => pc[h] \in {"apply", "tell"} /\ call[h].op = "score"
  BY DEF HoldDownIInv, NumbersGiven
<1>4. \A g \in Handlers \ {h} : pc'[g] = pc[g] /\ call'[g] = call[g]
  BY <1>2
  DEF Join, VerifyPin, GetMatState, Answer, StartMatch, EndMatch, EnableGoldenScore,
      GetMatchState, Reject, Tell, ThenTell, Return, Goto
<1>5. call'[h].number = 0
  <2>1. CASE Reject(h) \/ Tell(h) \/ Answer(h)
    BY <1>2, <2>1 DEF Reject, Tell, Answer, Return, NoCall
  <2>2. CASE \E p \in Pages : Join(h, p)
    BY <1>2, <2>2 DEF Join, NoCall
  <2>3. CASE VerifyPin(h) \/ EnableGoldenScore(h)
    BY <1>2, <1>3, <2>3 DEF VerifyPin, EnableGoldenScore
  <2>4. CASE GetMatState(h) \/ StartMatch(h) \/ EndMatch(h) \/ GetMatchState(h)
    <3>1. call[h].number = 0
      BY <1>3, <2>4 DEF GetMatState, StartMatch, EndMatch, GetMatchState
    <3>2. \E out : call' = [call EXCEPT ![h] = [call[h] EXCEPT !.out = out]]
      BY <2>4 DEF GetMatState, StartMatch, EndMatch, GetMatchState, ThenTell
    <3>3. call[h] \in Call
      BY <1>2
    <3> QED
      BY <1>2, <3>1, <3>2, <3>3 DEF Call
  <2> QED
    BY <2>1, <2>2, <2>3, <2>4
<1> QED
  BY <1>1, <1>4, <1>5, HoldDownElsewhere

LEMMA HoldDownPlain ==
  ASSUME Typing, HoldDownIInv, NEW h \in Handlers, NEW p \in Pages, NEW side \in Sides,
         Plain(h, p, side)
  PROVE  HoldDownIInv'
<1>1. PICK c \in Call : c.number = 0 /\ call' = [call EXCEPT ![h] = c]
  BY PlainTyping
<1>2. pc' = [pc EXCEPT ![h] = "apply"] /\ UNCHANGED <<serverVars, holdDowns, credited>>
  BY PlainTyping
<1>3. \A g \in Handlers : call'[g].number = 0 \/ (pc'[g] = pc[g] /\ call'[g] = call[g])
  BY <1>1, <1>2 DEF Typing, CallsOK
<1> QED
  BY <1>2, <1>3, HoldDownElsewhere DEF serverVars

(* A new hold-down has a number that no score was given for.               *)
LEMMA HoldDownStarts ==
  ASSUME Typing, HoldDownIInv, NEW p \in Pages, NEW side \in Sides, StartHoldDown(p, side)
  PROVE  HoldDownIInv'
<1> USE DEF HoldDownIInv
<1> DEFINE m == view[p].match
           new == holdDowns[m] + 1
<1>1. m \in Matches
  BY StartHoldDownTyping
<1>2. holdDowns[m] \in Nat /\ new \in 1..MaxHoldDowns
  BY <1>1, GatewayTypes DEF StartHoldDown, Typing, HistoryOK
<1>3. /\ osaekomi' \in [Matches -> Tracker]
      /\ osaekomi'[m].number = new /\ osaekomi'[m].held = 0 /\ osaekomi'[m] # NoTracker
      /\ \A n \in Matches \ {m} : osaekomi'[n] = osaekomi[n]
  <2> DEFINE tracker == [competitor |-> view[p].row.competitor[side], held |-> 0,
                         room |-> ClientRoom(Socket(p)), number |-> new]
  <2>1. osaekomi' = [osaekomi EXCEPT ![m] = tracker]
    BY DEF StartHoldDown
  <2>2. tracker.number = new /\ tracker.held = 0 /\ tracker # NoTracker
    BY <1>2 DEF NoTracker
  <2>3. osaekomi' \in [Matches -> Tracker]
    BY StartHoldDownTyping DEF Typing, ServerOK
  <2> HIDE DEF tracker
  <2> QED
    BY <1>1, <2>1, <2>2, <2>3 DEF Typing, ServerOK
<1>4. /\ holdDowns'[m] = new
      /\ \A n \in Matches \ {m} : holdDowns'[n] = holdDowns[n]
      /\ UNCHANGED <<pc, call, credited>>
  BY <1>1 DEF StartHoldDown, Typing, HistoryOK
<1>5. timers'[m] = {0} /\ \A n \in Matches \ {m} : timers'[n] = timers[n]
  BY <1>1 DEF StartHoldDown, TimersWith, OneTimerEach, Typing, ServerOK
<1> HIDE DEF new
<1>6. OneTimerEach'
  BY <1>3, <1>5 DEF OneTimerEach
<1>7. \A n \in Matches : holdDowns[n] \in Nat /\ holdDowns'[n] \in Nat /\ holdDowns[n] <= holdDowns'[n]
  BY <1>1, <1>2, <1>4 DEF new, Typing, HistoryOK
<1>8. NumbersGiven'
  <2>1. \A n \in Matches : osaekomi'[n] # NoTracker => osaekomi'[n].number \in 1..holdDowns'[n]
    BY <1>1, <1>2, <1>3, <1>4 DEF NumbersGiven
  <2>2. \A h \in Handlers : call[h].number # 0 => call[h].number \in 1..holdDowns'[call[h].match]
    BY <1>7 DEF NumbersGiven
  <2> QED
    BY <1>4, <2>1, <2>2 DEF NumbersGiven
<1>9. \A h \in Handlers, n \in 1..MaxHoldDowns : Claims(h, m, n) => n <= holdDowns[m]
  BY <1>1 DEF Claims, NumbersGiven
<1>10. OneClaimEach'
  <2>1. \A h \in Handlers : ~Claims(h, m, new)
    BY <1>2, <1>9 DEF new
  <2> QED
    BY <1>1, <1>3, <1>4, <2>1 DEF OneClaimEach, Claims
<1>11. UnpaidUntilApplied'
  <2> SUFFICES ASSUME NEW k \in Matches, NEW n \in 1..MaxHoldDowns
               PROVE  /\ n > holdDowns'[k] \/ osaekomi'[k].number = n
                           \/ (\E h \in Handlers : Claims(h, k, n)) => credited[k][n] = 0
                      /\ credited[k][n] <= 1
    BY <1>4 DEF UnpaidUntilApplied, Claims
  <2>1. n > holdDowns'[k] => n > holdDowns[k]
    BY <1>7
  <2>2. k = m /\ n = new => n > holdDowns[k]
    BY <1>2 DEF new
  <2> QED
    BY <1>3, <2>1, <2>2 DEF UnpaidUntilApplied
<1>12. AwardedAsAnnounced'
  BY <1>4 DEF AwardedAsAnnounced
<1> QED
  BY <1>6, <1>8, <1>10, <1>11, <1>12

(* A hold-down that is over passes its claim from the tracker to a call.   *)
LEMMA HoldDownResolves ==
  ASSUME Typing, HoldDownIInv, NEW h \in Handlers, NEW m \in Matches, NEW s, NEW others,
         others \subseteq timers[m], NEW held, held = osaekomi[m].held, Resolve(h, m, held, s, others)
  PROVE  HoldDownIInv'
<1> USE DEF HoldDownIInv
<1> DEFINE tracker == osaekomi[m]
           c == [NoCall EXCEPT !.op = "score", !.room = tracker.room, !.socket = s, !.match = m,
                      !.competitor = tracker.competitor, !.detached = s = None,
                      !.event = IF held = 2 THEN "IPPON" ELSE "WAZA_ARI",
                      !.held = tracker.held, !.number = tracker.number]
<1>1. /\ tracker \in Tracker /\ tracker # NoTracker
      /\ holdDowns[m] \in 0..MaxHoldDowns
      /\ tracker.number \in 1..holdDowns[m]
  BY DEF Resolve, NumbersGiven, Typing, ServerOK, HistoryOK
<1>2. tracker.number \in 1..MaxHoldDowns /\ tracker.number # 0
  BY <1>1, GatewayTypes
<1>3. /\ osaekomi'[m] = NoTracker /\ timers'[m] = {}
      /\ \A n \in Matches \ {m} : osaekomi'[n] = osaekomi[n] /\ timers'[n] = timers[n]
      /\ UNCHANGED <<holdDowns, credited>>
  <2>1. others \ {tracker.held} = {}
    BY <1>1 DEF OneTimerEach
  <2> QED
    BY <2>1 DEF Resolve, Forget, Typing, ServerOK
<1>4. /\ \A g \in Handlers \ {h} : pc'[g] = pc[g] /\ call'[g] = call[g]
      /\ \/ pc'[h] = pc[h] /\ call'[h] = call[h]
         \/ pc'[h] = "apply" /\ call'[h] = c /\ held # 0
  BY DEF Resolve, Goto, Typing, CallsOK
<1>5. /\ c.op = "score" /\ c.match = m /\ c.number = tracker.number /\ c.held = held
      /\ c.event = IF held = 2 THEN "IPPON" ELSE "WAZA_ARI"
  BY DEF NoCall
<1> HIDE DEF c
<1>6. OneTimerEach'
  BY <1>3 DEF OneTimerEach
<1>7. NumbersGiven'
  BY <1>1, <1>3, <1>4, <1>5 DEF NumbersGiven
<1>8. \A k \in Matches, n \in 1..MaxHoldDowns, g \in Handlers :
        Claims(g, k, n)' => \/ Claims(g, k, n)
                            \/ g = h /\ k = m /\ n = tracker.number
  BY <1>4, <1>5 DEF Claims
<1>9. \A g \in Handlers : ~Claims(g, m, tracker.number)
  BY <1>2 DEF OneClaimEach
<1>10. OneClaimEach'
  <2> SUFFICES ASSUME NEW k \in Matches, NEW n \in 1..MaxHoldDowns, NEW g \in Handlers,
                      Claims(g, k, n)'
               PROVE  osaekomi'[k].number # n /\ \A f \in Handlers : Claims(f, k, n)' => f = g
    BY DEF OneClaimEach
  <2>1. osaekomi'[k].number # n
    <3>1. CASE k = m
      BY <1>3, <3>1 DEF NoTracker
    <3>2. CASE k # m
      BY <1>3, <1>8, <3>2 DEF OneClaimEach
    <3> QED
      BY <3>1, <3>2
  <2>2. \A f \in Handlers : Claims(f, k, n)' => f = g
    BY <1>8, <1>9 DEF OneClaimEach
  <2> QED
    BY <2>1, <2>2
<1>11. UnpaidUntilApplied'
  <2> SUFFICES ASSUME NEW k \in Matches, NEW n \in 1..MaxHoldDowns
               PROVE  /\ n > holdDowns[k] \/ osaekomi'[k].number = n
                           \/ (\E g \in Handlers : Claims(g, k, n)') => credited[k][n] = 0
                      /\ credited[k][n] <= 1
    BY <1>3 DEF UnpaidUntilApplied
  <2>1. osaekomi'[k].number = n => osaekomi[k].number = n
    BY <1>3 DEF NoTracker
  <2> QED
    BY <1>8, <2>1 DEF UnpaidUntilApplied
<1>12. AwardedAsAnnounced'
  <2>1. held \in Ages
    BY <1>1 DEF Tracker
  <2>2. held # 0 => c.event = Cue(c.held)
    BY <1>5, <2>1 DEF Cue, Ages
  <2> QED
    BY <1>4, <2>2 DEF AwardedAsAnnounced
<1> QED
  BY <1>6, <1>7, <1>10, <1>11, <1>12

(* The official who stops a hold-down, and its timer, which is the only    *)
(* one of the match and therefore of the age of the tracker.               *)
LEMMA HoldDownStops ==
  ASSUME Typing, HoldDownIInv, NEW h \in Handlers,
         (\E p \in Pages : SendStopHoldDown(h, p)) \/ (\E m \in Matches : TimerFires(h, m))
  PROVE  HoldDownIInv'
<1>1. ASSUME NEW p \in Pages, SendStopHoldDown(h, p) PROVE HoldDownIInv'
  <2>1. view[p].match \in Matches
    BY <1>1 DEF SendStopHoldDown, CanStopHoldDown, CanScore, Typing, PagesOK, View, MaybeMatch
  <2> QED
    BY <1>1, <2>1, HoldDownResolves DEF SendStopHoldDown
<1>2. ASSUME NEW m \in Matches, TimerFires(h, m) PROVE HoldDownIInv'
  <2>1. osaekomi[m].held = 2
    BY <1>2 DEF TimerFires, HoldDownIInv, OneTimerEach
  <2> QED
    BY <1>2, <2>1, HoldDownResolves DEF TimerFires
<1> QED
  BY <1>1, <1>2

(* The score is given: the claim is used up in the same step.              *)
LEMMA HoldDownScores ==
  ASSUME Typing, HoldDownIInv, NEW h \in Handlers, ApplyScoreEvent(h)
  PROVE  HoldDownIInv'
<1> USE DEF HoldDownIInv
<1> DEFINE m == call[h].match
           k == call[h].number
<1>1. m \in Matches /\ call[h] \in Call /\ pc[h] = "apply"
  BY DEF ApplyScoreEvent, Typing, CallsOK
<1>2. UNCHANGED <<osaekomi, timers, holdDowns>>
  BY DEF ApplyScoreEvent, serverVars
<1>3. /\ \A g \in Handlers \ {h} : pc'[g] = pc[g] /\ call'[g] = call[g]
      /\ pc'[h] = "tell"
      /\ call'[h].op = call[h].op /\ call'[h].match = m /\ call'[h].number = k
      /\ call'[h].event = call[h].event /\ call'[h].held = call[h].held
  <2>1. \E out : call' = [call EXCEPT ![h] = [call[h] EXCEPT !.out = out]]
    BY DEF ApplyScoreEvent, ThenTell
  <2>2. pc' = [pc EXCEPT ![h] = "tell"]
    BY DEF ApplyScoreEvent, ThenTell, Goto
  <2> QED
    BY <1>1, <2>1, <2>2 DEF Typing, CallsOK, Call
<1>4. OneTimerEach'
  BY <1>2 DEF OneTimerEach
<1>5. NumbersGiven'
  BY <1>2, <1>3 DEF NumbersGiven
<1>6. \A j \in Matches, n \in 1..MaxHoldDowns, g \in Handlers :
        Claims(g, j, n)' => Claims(g, j, n) /\ g # h
  BY <1>3 DEF Claims
<1>7. OneClaimEach'
  BY <1>2, <1>6 DEF OneClaimEach
<1>8. AwardedAsAnnounced'
  BY <1>3 DEF AwardedAsAnnounced
<1>9. UnpaidUntilApplied'
  <2>1. CASE k = 0
    <3>1. UNCHANGED credited
      BY <2>1 DEF ApplyScoreEvent
    <3> QED
      BY <1>2, <1>6, <3>1 DEF UnpaidUntilApplied
  <2>2. CASE k # 0
    <3>1. k \in 1..holdDowns[m] /\ holdDowns[m] \in 0..MaxHoldDowns
      BY <1>1, <2>2 DEF NumbersGiven, Typing, HistoryOK
    <3>2. k \in 1..MaxHoldDowns
      <4> HIDE DEF k
      <4> QED
        BY <3>1, GatewayTypes
    <3>3. Claims(h, m, k)
      BY <1>1 DEF Claims
    <3>4. credited[m][k] = 0
      BY <1>1, <3>2, <3>3 DEF UnpaidUntilApplied
    <3>5. credited' = [credited EXCEPT ![m][k] = @ + 1]
      BY <2>2 DEF ApplyScoreEvent
    <3>6. ASSUME NEW j \in Matches, NEW n \in 1..MaxHoldDowns, j = m, n = k
          PROVE  /\ ~(n > holdDowns[j]) /\ osaekomi[j].number # n
                 /\ \A g \in Handlers : ~Claims(g, j, n)'
                 /\ credited'[j][n] = 1
      <4>1. osaekomi[j].number # n /\ \A g \in Handlers : ~Claims(g, j, n)'
        BY <1>1, <1>6, <3>3, <3>6 DEF OneClaimEach
      <4>2. ~(n > holdDowns[j])
        BY <3>1, <3>6
      <4>3. credited[j] \in [1..MaxHoldDowns -> Nat] /\ credited[j][n] = 0
        BY <3>4, <3>6 DEF Typing, HistoryOK
      <4>4. credited' = [credited EXCEPT ![j][n] = @ + 1]
        BY <3>5, <3>6
      <4>5. credited'[j][n] = credited[j][n] + 1
        BY <4>3, <4>4 DEF Typing, HistoryOK
      <4> QED
        BY <4>1, <4>2, <4>3, <4>5
    <3>7. \A j \in Matches, n \in 1..MaxHoldDowns :
            j # m \/ n # k => credited'[j][n] = credited[j][n]
      <4> HIDE DEF m, k
      <4> QED
        BY <3>5 DEF Typing, HistoryOK
    <3> HIDE DEF m, k
    <3>8. ASSUME NEW j \in Matches, NEW n \in 1..MaxHoldDowns
          PROVE  /\ n > holdDowns[j] \/ osaekomi[j].number = n
                      \/ (\E g \in Handlers : Claims(g, j, n)') => credited'[j][n] = 0
                 /\ credited'[j][n] <= 1
      <4>1. CASE j = m /\ n = k
        BY <3>6, <4>1
      <4>2. CASE j # m \/ n # k
        BY <1>6, <3>7, <4>2 DEF UnpaidUntilApplied
      <4> QED
        BY <4>1, <4>2
    <3> QED
      BY <1>2, <3>8 DEF UnpaidUntilApplied
  <2> QED
    BY <2>1, <2>2
<1> QED
  BY <1>4, <1>5, <1>7, <1>8, <1>9

LEMMA HoldDownTicks ==
  ASSUME Typing, HoldDownIInv, Tick
  PROVE  HoldDownIInv'
<1> USE DEF HoldDownIInv
<1> DEFINE older(age) == IF age = 2 THEN 2 ELSE age + 1
<1>1. /\ osaekomi' = [m \in Matches |-> IF osaekomi[m] = NoTracker THEN NoTracker
                                        ELSE [osaekomi[m] EXCEPT !.held = older(@)]]
      /\ timers' = [m \in Matches |-> {older(age) : age \in timers[m]}]
      /\ UNCHANGED <<pc, call, holdDowns, credited>>
  BY DEF Tick
<1> HIDE DEF older
<1>2. ASSUME NEW m \in Matches, osaekomi[m] # NoTracker
      PROVE  /\ osaekomi'[m] # NoTracker
             /\ osaekomi'[m].number = osaekomi[m].number
             /\ osaekomi'[m].held = older(osaekomi[m].held)
  <2>1. osaekomi[m] \in Tracker /\ osaekomi[m].number # 0
    BY <1>2 DEF NumbersGiven, Typing, ServerOK, HistoryOK
  <2>2. /\ [osaekomi[m] EXCEPT !.held = older(@)].number = osaekomi[m].number
        /\ [osaekomi[m] EXCEPT !.held = older(@)].held = older(osaekomi[m].held)
    BY <2>1 DEF Tracker
  <2> QED
    BY <1>1, <1>2, <2>1, <2>2 DEF NoTracker
<1>3. \A m \in Matches : osaekomi[m] = NoTracker => osaekomi'[m] = NoTracker
  BY <1>1
<1>4. OneTimerEach'
  <2>1. \A m \in Matches : osaekomi[m] = NoTracker => timers'[m] = {}
    BY <1>1 DEF OneTimerEach
  <2>2. \A m \in Matches : osaekomi[m] # NoTracker => timers'[m] = {older(osaekomi[m].held)}
    BY <1>1 DEF OneTimerEach, older
  <2> QED
    BY <1>2, <1>3, <2>1, <2>2 DEF OneTimerEach
<1>5. \A m \in Matches : osaekomi'[m].number = osaekomi[m].number
  BY <1>2, <1>3
<1>6. NumbersGiven'
  BY <1>1, <1>2, <1>3 DEF NumbersGiven
<1>7. OneClaimEach' /\ UnpaidUntilApplied' /\ AwardedAsAnnounced'
  BY <1>1, <1>5 DEF OneClaimEach, UnpaidUntilApplied, AwardedAsAnnounced, Claims
<1> QED
  BY <1>4, <1>6, <1>7

(* When the process ends, hold-downs and calls are gone with their claims. *)
LEMMA HoldDownServerStops ==
  ASSUME Typing, HoldDownIInv, ServerStops
  PROVE  HoldDownIInv'
<1> USE DEF HoldDownIInv
<1>1. /\ osaekomi' = [m \in Matches |-> NoTracker] /\ timers' = [m \in Matches |-> {}]
      /\ pc' = [h \in Handlers |-> "idle"] /\ call' = [h \in Handlers |-> NoCall]
      /\ UNCHANGED <<holdDowns, credited>>
  BY DEF ServerStops, history
<1>2. OneTimerEach' /\ NumbersGiven' /\ AwardedAsAnnounced'
  BY <1>1 DEF OneTimerEach, NumbersGiven, AwardedAsAnnounced, NoCall
<1>3. \A m \in Matches, n \in 1..MaxHoldDowns :
        osaekomi'[m].number # n /\ \A h \in Handlers : ~Claims(h, m, n)'
  BY <1>1 DEF Claims, NoTracker
<1>4. OneClaimEach' /\ UnpaidUntilApplied'
  BY <1>1, <1>3 DEF OneClaimEach, UnpaidUntilApplied
<1> QED
  BY <1>2, <1>4

LEMMA HoldDownDetached ==
  ASSUME Typing, HoldDownIInv, NEW h \in Handlers, RejectDetached(h)
  PROVE  HoldDownIInv'
<1>1. CASE ServerStops
  BY <1>1, HoldDownServerStops
<1>2. CASE Return(h) /\ UNCHANGED <<setting, dbVars, serverVars, pageVars, inbox, history>>
  <2>1. \A g \in Handlers : call'[g].number = 0 \/ (pc'[g] = pc[g] /\ call'[g] = call[g])
    BY <1>2 DEF Return, Goto, NoCall, Typing, CallsOK
  <2> QED
    BY <1>2, <2>1, HoldDownElsewhere DEF serverVars, history
<1> QED
  BY <1>1, <1>2 DEF RejectDetached

LEMMA HoldDownNext == Typing /\ HoldDownIInv /\ [Next]_vars => HoldDownIInv'
<1> SUFFICES ASSUME Typing, HoldDownIInv, [Next]_vars PROVE HoldDownIInv'
  OBVIOUS
<1>1. CASE Next
  <2>1. ASSUME NEW h \in Handlers, NEW p \in Pages,
               Join(h, p) \/ SendStopHoldDown(h, p) \/ \E side \in Sides : Plain(h, p, side)
        PROVE  HoldDownIInv'
    BY <2>1, HoldDownCalls, HoldDownStops, HoldDownPlain
  <2>2. ASSUME NEW h \in Handlers, NEW m \in Matches, TimerFires(h, m)
        PROVE  HoldDownIInv'
    BY <2>2, HoldDownStops
  <2>3. ASSUME NEW h \in Handlers, Proceed(h)
        PROVE  HoldDownIInv'
    BY <2>3, HoldDownCalls, HoldDownScores, HoldDownDetached DEF Proceed
  <2>4. ASSUME NEW p \in Pages, NEW side \in Sides, StartHoldDown(p, side)
        PROVE  HoldDownIInv'
    BY <2>4, HoldDownStarts
  <2>5. ASSUME NEW p \in Pages, Deliver(p) \/ Disconnect(p) \/ PauseOrResume(p)
        PROVE  HoldDownIInv'
    <3>1. UNCHANGED <<osaekomi, timers, pc, call, holdDowns, credited>>
      BY <2>5, PageTyping
    <3> QED
      BY <3>1, HoldDownElsewhere
  <2> QED
    BY <1>1, <2>1, <2>2, <2>3, <2>4, <2>5, NextSteps, HoldDownTicks, HoldDownServerStops
<1>2. CASE UNCHANGED vars
  <2>1. UNCHANGED <<osaekomi, timers, pc, call, holdDowns, credited>>
    BY <1>2 DEF vars, serverVars, history
  <2> QED
    BY <2>1, HoldDownElsewhere
<1> QED
  BY <1>1, <1>2

-----------------------------------------------------------------------------

(* A hold-down gives one score at most, and the one the pages announced at *)
(* its age: for any number of hold-downs, calls that overlap, timers that  *)
(* race the official who stops them, connections and servers that fail.    *)
THEOREM HoldDownsScoreOnce == Spec => [](HoldDownScoresOnce /\ AwardedAsAnnounced)
<1>1. Init => Typing /\ HoldDownIInv
  BY InitTyping, HoldDownInit
<1>2. Typing /\ HoldDownIInv /\ [Next]_vars => (Typing /\ HoldDownIInv)'
  BY NextTyping, HoldDownNext
<1>3. HoldDownIInv => HoldDownScoresOnce /\ AwardedAsAnnounced
  BY DEF HoldDownIInv, UnpaidUntilApplied, HoldDownScoresOnce
<1> QED
  BY <1>1, <1>2, <1>3, PTL DEF Spec

-----------------------------------------------------------------------------
(* The clocks of the pages, and the time a match has been fought *)

Clock == [left : Nat, running : BOOLEAN, since : Nat, steady : BOOLEAN]

ClocksOK == clock \in [Pages -> Clock] /\ fought \in [Matches -> Nat]

(* A match that was started is never SCHEDULED again, one that is COMPLETED*)
(* stays so, and a match enters golden score by a request for it that the  *)
(* service works for while it is ACTIVE.                                   *)
GoldenRequested(h) == pc[h] = "apply" /\ call[h].op = "golden"

RowsGoOn ==
  /\ UNCHANGED setting
  /\ \A m \in Matches :
       /\ row[m].status # "SCHEDULED" => row'[m].status # "SCHEDULED"
       /\ row[m].status = "COMPLETED" => row'[m].status = "COMPLETED"
       /\ fought[m] <= fought'[m]
       /\ row'[m].goldenScore =>
            \/ row[m].goldenScore
            \/ \E h \in Handlers : /\ GoldenRequested(h) /\ call[h].match = m
                                   /\ row[m].status = "ACTIVE"

(* What is on its way: match-started is followed by the state of the match,*)
(* and no state tells of a match as ACTIVE that has not been started.      *)
Orderly(rows, msgs) ==
  \A i \in 1..Len(msgs) :
    /\ msgs[i].type = "match-started" => i < Len(msgs) /\ msgs[i + 1].type = "match-state"
    /\ msgs[i].type = "match-state" /\ Running(msgs[i].row) =>
         rows[msgs[i].match].status # "SCHEDULED"

LEMMA NoneOrderly == ASSUME NEW rows PROVE Orderly(rows, <<>>)
BY DEF Orderly

LEMMA OrderlyLater ==
  ASSUME NEW rows, NEW later, NEW msgs \in Seq(Message), Orderly(rows, msgs),
         \A m \in Matches : rows[m].status # "SCHEDULED" => later[m].status # "SCHEDULED"
  PROVE  Orderly(later, msgs)
<1>1. \A i \in 1..Len(msgs) : msgs[i].type = "match-state" => msgs[i].match \in Matches
  <2>1. \A i \in 1..Len(msgs) : msgs[i] \in Message
    BY ElementOfSeq
  <2> QED
    BY <2>1 DEF Message
<1> QED
  BY <1>1 DEF Orderly

LEMMA OrderlyConcat ==
  ASSUME NEW rows, NEW S, NEW a \in Seq(S), NEW b \in Seq(S), Orderly(rows, a), Orderly(rows, b)
  PROVE  Orderly(rows, a \o b)
<1> DEFINE c == a \o b
<1>1. Len(a) \in Nat /\ Len(b) \in Nat /\ Len(c) = Len(a) + Len(b)
  BY ConcatProperties, LenProperties
<1>2. \A i \in 1..Len(c) : c[i] = IF i <= Len(a) THEN a[i] ELSE b[i - Len(a)]
  BY <1>1, ConcatProperties
<1> HIDE DEF c
<1> SUFFICES ASSUME NEW i \in 1..Len(c)
             PROVE  /\ c[i].type = "match-started" =>
                         i < Len(c) /\ c[i + 1].type = "match-state"
                    /\ c[i].type = "match-state" /\ Running(c[i].row) =>
                         rows[c[i].match].status # "SCHEDULED"
  BY DEF Orderly, c
<1>3. CASE i <= Len(a)
  <2>1. c[i] = a[i] /\ i \in 1..Len(a)
    BY <1>1, <1>2, <1>3
  <2>2. i < Len(a) => c[i + 1] = a[i + 1]
    BY <1>1, <1>2, <1>3
  <2> QED
    BY <1>1, <2>1, <2>2 DEF Orderly
<1>4. CASE i > Len(a)
  <2> DEFINE k == i - Len(a)
  <2>1. c[i] = b[k] /\ k \in 1..Len(b)
    BY <1>1, <1>2, <1>4
  <2>2. k < Len(b) => i < Len(c) /\ c[i + 1] = b[k + 1]
    BY <1>1, <1>2, <1>4
  <2> HIDE DEF k
  <2> QED
    BY <2>1, <2>2 DEF Orderly
<1> QED
  BY <1>1, <1>3, <1>4

LEMMA OrderlyTail ==
  ASSUME NEW rows, NEW msgs \in Seq(Message), msgs # <<>>, Orderly(rows, msgs)
  PROVE  /\ Orderly(rows, Tail(msgs))
         /\ Head(msgs).type = "match-started" =>
              Tail(msgs) # <<>> /\ Head(Tail(msgs)).type = "match-state"
         /\ Head(msgs).type = "match-state" /\ Running(Head(msgs).row) =>
              rows[Head(msgs).match].status # "SCHEDULED"
<1> DEFINE t == Tail(msgs)
<1>1. /\ t \in Seq(Message) /\ Len(msgs) \in Nat \ {0} /\ Len(t) = Len(msgs) - 1
      /\ Head(msgs) = msgs[1]
  BY HeadTailProperties, LenProperties, EmptySeq
<1>2. \A i \in 1..Len(t) : t[i] = msgs[i + 1]
  BY <1>1, HeadTailProperties
<1> HIDE DEF t
<1>3. Orderly(rows, t)
  <2> SUFFICES ASSUME NEW i \in 1..Len(t)
               PROVE  /\ t[i].type = "match-started" =>
                           i < Len(t) /\ t[i + 1].type = "match-state"
                      /\ t[i].type = "match-state" /\ Running(t[i].row) =>
                           rows[t[i].match].status # "SCHEDULED"
    BY DEF Orderly
  <2>1. i + 1 \in 1..Len(msgs) /\ t[i] = msgs[i + 1]
    BY <1>1, <1>2
  <2>2. i + 1 < Len(msgs) => i < Len(t) /\ t[i + 1] = msgs[i + 1 + 1]
    BY <1>1, <1>2
  <2> QED
    BY <2>1, <2>2 DEF Orderly
<1>4. 1 \in 1..Len(msgs)
  BY <1>1
<1>5. Head(msgs).type = "match-started" => t # <<>> /\ Head(t).type = "match-state"
  <2> SUFFICES ASSUME msgs[1].type = "match-started"
               PROVE  t # <<>> /\ Head(t).type = "match-state"
    BY <1>1
  <2>1. 1 < Len(msgs) /\ msgs[1 + 1].type = "match-state"
    BY <1>4 DEF Orderly
  <2>2. Len(t) # 0
    BY <1>1, <2>1
  <2>3. t # <<>>
    BY <1>1, <2>2, EmptySeq
  <2>4. t[1] = msgs[1 + 1] /\ Head(t) = t[1]
    BY <1>1, <1>2, <2>1, <2>3, HeadTailProperties
  <2> QED
    BY <2>1, <2>3, <2>4
<1>6. Head(msgs).type = "match-state" /\ Running(Head(msgs).row) =>
              rows[Head(msgs).match].status # "SCHEDULED"
  BY <1>1, <1>4 DEF Orderly
<1> QED
  BY <1>3, <1>5, <1>6 DEF t

-----------------------------------------------------------------------------
(* The invariant of the clocks *)

InboxesOrderly == \A p \in Pages : Orderly(row, inbox[p])

(* A table that shows a match as ACTIVE has at least the time left that    *)
(* the match has not been fought, until the match is over.                 *)
TimeLeft ==
  \A p \in setting.tables :
    LET m == view[p].match
    IN  m # None /\ Running(view[p].row) =>
          /\ row[m].status # "COMPLETED" => clock[p].left + fought[m] >= setting.duration
          /\ row[m].status = "SCHEDULED" =>
               inbox[p] # <<>> /\ Head(inbox[p]).type = "match-state"

TimeIsUp(m) == row[m].status = "COMPLETED" \/ fought[m] >= setting.duration

CallsTimed ==
  \A h \in Handlers :
    /\ Orderly(row, call[h].out)
    /\ pc[h] = "verify" => PageOf(call[h].socket) \in setting.tables
    /\ GoldenRequested(h) => TimeIsUp(call[h].match)

TablesAsk == \A s \in controllers : PageOf(s) \in setting.tables

GoldenIInv == InboxesOrderly /\ TimeLeft /\ CallsTimed /\ TablesAsk /\ GoldenScoreAfterTime

(* Messages are put behind those that are on their way.                    *)
InboxesGrow ==
  \A p \in Pages :
    /\ Orderly(row', inbox'[p])
    /\ inbox[p] # <<>> => inbox'[p] # <<>> /\ Head(inbox'[p]) = Head(inbox[p])

LEMMA InboxGrows ==
  ASSUME Typing, InboxesOrderly, RowsGoOn, NEW msgs \in Seq(Message), Orderly(row', msgs),
         \A p \in Pages : inbox'[p] \in {inbox[p], inbox[p] \o msgs}
  PROVE  InboxesGrow
<1> SUFFICES ASSUME NEW p \in Pages
             PROVE  /\ Orderly(row', inbox'[p])
                    /\ inbox[p] # <<>> => inbox'[p] # <<>> /\ Head(inbox'[p]) = Head(inbox[p])
  BY DEF InboxesGrow
<1>1. inbox[p] \in Seq(Message)
  BY DEF Typing, PagesOK
<1>2. Orderly(row', inbox[p])
  BY <1>1, OrderlyLater DEF InboxesOrderly, RowsGoOn
<1>3. Orderly(row', inbox[p] \o msgs)
  BY <1>1, <1>2, OrderlyConcat
<1>4. ASSUME inbox[p] # <<>>
      PROVE  inbox[p] \o msgs # <<>> /\ Head(inbox[p] \o msgs) = Head(inbox[p])
  <2> DEFINE c == inbox[p] \o msgs
  <2>1. /\ c \in Seq(Message) /\ Len(inbox[p]) \in Nat \ {0} /\ Len(msgs) \in Nat
        /\ Len(c) = Len(inbox[p]) + Len(msgs)
    BY <1>1, <1>4, ConcatProperties, LenProperties, EmptySeq
  <2>2. c[1] = inbox[p][1]
    BY <1>1, <2>1, ConcatProperties
  <2>3. c # <<>>
    <3> HIDE DEF c
    <3> QED
      BY <2>1, EmptySeq
  <2> QED
    BY <1>1, <1>4, <2>1, <2>2, <2>3, HeadTailProperties
<1> QED
  BY <1>2, <1>3, <1>4

(* A step in which no page takes a message and no time goes by.            *)
LEMMA GoldenCalls ==
  ASSUME Typing, Typing', GoldenIInv, RowsGoOn, InboxesGrow, ClocksOK, ClocksOK',
         UNCHANGED view, \A p \in Pages : clock'[p].left = clock[p].left,
         \A s \in controllers' : PageOf(s) \in setting.tables,
         \A h \in Handlers :
           \/ pc'[h] = pc[h] /\ call'[h] = call[h]
           \/ /\ Orderly(row', call'[h].out)
              /\ pc'[h] = "verify" => PageOf(call'[h].socket) \in setting.tables
              /\ GoldenRequested(h)' => TimeIsUp(call'[h].match)
  PROVE  GoldenIInv'
<1> USE DEF GoldenIInv
<1>1. \A m \in Matches : TimeIsUp(m) => TimeIsUp(m)'
  <2>1. fought \in [Matches -> Nat] /\ fought' \in [Matches -> Nat] /\ setting.duration \in Nat
    BY GatewayTypes DEF ClocksOK, Typing
  <2> QED
    BY <2>1 DEF RowsGoOn, TimeIsUp
<1>2. InboxesOrderly'
  BY DEF InboxesGrow, InboxesOrderly
<1>3. TimeLeft'
  <2> SUFFICES ASSUME NEW p \in setting.tables, view[p].match # None, Running(view[p].row)
               PROVE  LET m == view[p].match
                      IN  /\ row'[m].status # "COMPLETED" =>
                               clock'[p].left + fought'[m] >= setting.duration
                          /\ row'[m].status = "SCHEDULED" =>
                               inbox'[p] # <<>> /\ Head(inbox'[p]).type = "match-state"
    BY DEF TimeLeft, RowsGoOn
  <2> DEFINE m == view[p].match
  <2>1. p \in Pages /\ setting.duration \in Nat
    BY GatewayTypes DEF Typing
  <2>2. m \in Matches /\ clock[p].left \in Nat /\ fought[m] \in Nat /\ fought'[m] \in Nat
    BY <2>1 DEF Typing, PagesOK, View, MaybeMatch, ClocksOK, Clock
  <2>3. /\ row[m].status # "COMPLETED" => clock[p].left + fought[m] >= setting.duration
        /\ row[m].status = "SCHEDULED" =>
               inbox[p] # <<>> /\ Head(inbox[p]).type = "match-state"
    BY DEF TimeLeft
  <2>4. fought[m] <= fought'[m] /\ clock'[p].left = clock[p].left
    BY <2>1, <2>2 DEF RowsGoOn
  <2>5. /\ row'[m].status # "COMPLETED" => row[m].status # "COMPLETED"
        /\ row'[m].status = "SCHEDULED" => row[m].status = "SCHEDULED"
    BY <2>2 DEF RowsGoOn
  <2> HIDE DEF m
  <2>6. row'[m].status # "COMPLETED" => clock'[p].left + fought'[m] >= setting.duration
    BY <2>1, <2>2, <2>3, <2>4, <2>5
  <2> QED
    BY <2>1, <2>3, <2>5, <2>6 DEF InboxesGrow, m
<1>4. CallsTimed'
  <2> SUFFICES ASSUME NEW h \in Handlers
               PROVE  /\ Orderly(row', call'[h].out)
                      /\ pc'[h] = "verify" => PageOf(call'[h].socket) \in setting.tables
                      /\ (GoldenRequested(h) => TimeIsUp(call[h].match))'
    BY DEF CallsTimed, RowsGoOn
  <2>1. GoldenRequested(h)' => call'[h].match \in Matches
    BY DEF GoldenRequested, Typing, CallsOK
  <2>2. GoldenRequested(h)' /\ TimeIsUp(call'[h].match) => TimeIsUp(call[h].match)'
    BY <1>1, <2>1 DEF TimeIsUp
  <2>3. CASE pc'[h] = pc[h] /\ call'[h] = call[h]
    <3>1. call[h].out \in Seq(Message) /\ Orderly(row, call[h].out)
      BY DEF Typing, CallsOK, Call, CallsTimed
    <3>2. Orderly(row', call[h].out)
      BY <3>1, OrderlyLater DEF RowsGoOn
    <3>3. GoldenRequested(h)' => TimeIsUp(call[h].match)
      BY <2>3 DEF GoldenRequested, CallsTimed
    <3> QED
      BY <1>1, <2>1, <2>3, <3>2, <3>3, <2>2 DEF CallsTimed
  <2> QED
    BY <1>1, <2>1, <2>3, <2>2
<1>5. TablesAsk'
  BY DEF TablesAsk, RowsGoOn
<1>6. GoldenScoreAfterTime'
  <2> SUFFICES ASSUME NEW m \in Matches, row'[m].goldenScore
               PROVE  fought'[m] >= setting.duration
    BY DEF GoldenScoreAfterTime, RowsGoOn
  <2>1. /\ fought[m] \in Nat /\ fought'[m] \in Nat /\ fought[m] <= fought'[m]
        /\ setting.duration \in Nat
    BY GatewayTypes DEF ClocksOK, RowsGoOn, Typing
  <2>2. CASE row[m].goldenScore
    BY <2>1, <2>2 DEF GoldenScoreAfterTime
  <2>3. CASE \E h \in Handlers : /\ GoldenRequested(h) /\ call[h].match = m
                                 /\ row[m].status = "ACTIVE"
    BY <2>1, <2>3 DEF CallsTimed, TimeIsUp
  <2> QED
    BY <2>2, <2>3 DEF RowsGoOn
<1> QED
  BY <1>2, <1>3, <1>4, <1>5, <1>6

-----------------------------------------------------------------------------
(* The clocks of the pages are clocks *)

LEMMA ClockAfterType ==
  ASSUME NEW c \in Clock, NEW old, NEW new, NEW duration \in Nat, NEW time \in Nat
  PROVE  /\ TableClockAfter(c, old, new, duration, time) \in Clock
         /\ DisplayClockAfter(c, old, new, duration, time) \in Clock
<1>1. c.left \in Nat /\ c.running \in BOOLEAN /\ c.since \in Nat /\ c.steady \in BOOLEAN
  BY DEF Clock
<1>2. TableClockAfter(c, old, new, duration, time) \in Clock
  <2> DEFINE left == IF ~Restarts(old, new) THEN c.left
                     ELSE IF Running(new.row) THEN duration ELSE 0
             running == c.running /\ (Changed(old, new) /\ new.match # None => Running(new.row))
             since == IF Changed(old, new) THEN time ELSE c.since
             steady == Changed(old, new) \/ c.steady
  <2>1. left \in Nat /\ since \in Nat
    BY <1>1
  <2>2. running \in BOOLEAN
    OBVIOUS
  <2>3. steady \in BOOLEAN
    OBVIOUS
  <2>4. TableClockAfter(c, old, new, duration, time) =
          [left |-> left, running |-> running, since |-> since, steady |-> steady]
    BY DEF TableClockAfter
  <2> HIDE DEF left, running, since, steady
  <2> QED
    BY <2>1, <2>2, <2>3, <2>4 DEF Clock
<1>3. DisplayClockAfter(c, old, new, duration, time) \in Clock
  <2>1. Stopped(c) \in Clock
    BY DEF Stopped, Clock
  <2>2. [left |-> IF c.running THEN c.left ELSE duration,
         running |-> TRUE, since |-> time, steady |-> TRUE] \in Clock
    BY <1>1 DEF Clock
  <2> QED
    BY <2>1, <2>2 DEF DisplayClockAfter
<1> QED
  BY <1>2, <1>3

LEMMA ClockWriteType ==
  ASSUME NEW c \in Clock, NEW r
  PROVE  /\ Started(c) \in Clock /\ Started(c).left = c.left
         /\ Stopped(c) \in Clock /\ Stopped(c).left = c.left
         /\ Toggled(c) \in Clock /\ Toggled(c).left = c.left
         /\ Ticked(c, r) \in Clock /\ Ticked(c, r).left + 1 >= c.left
<1>1. \A b \in BOOLEAN : [c EXCEPT !.running = b] \in Clock /\ [c EXCEPT !.running = b].left = c.left
  BY DEF Clock
<1>2. \A b \in BOOLEAN : /\ [c EXCEPT !.running = b, !.steady = FALSE] \in Clock
                         /\ [c EXCEPT !.running = b, !.steady = FALSE].left = c.left
  BY DEF Clock
<1>3. Started(c) \in Clock /\ Started(c).left = c.left
  BY <1>1 DEF Started
<1>4. Stopped(c) \in Clock /\ Stopped(c).left = c.left
  BY <1>1 DEF Stopped
<1>5. Toggled(c) \in Clock /\ Toggled(c).left = c.left
  <2>1. (~c.running) \in BOOLEAN
    OBVIOUS
  <2>2. Toggled(c) = [c EXCEPT !.running = ~c.running, !.steady = FALSE]
    BY DEF Toggled
  <2> QED
    BY <1>2, <2>1, <2>2
<1>6. Ticked(c, r) \in Clock /\ Ticked(c, r).left + 1 >= c.left
  <2>1. c.left \in Nat
    BY DEF Clock
  <2>2. CASE c.running /\ Running(r) /\ c.left > 0
    <3>1. Ticked(c, r) = [c EXCEPT !.left = c.left - 1] /\ c.left - 1 \in Nat
      BY <2>1, <2>2 DEF Ticked
    <3> QED
      BY <2>1, <3>1 DEF Clock
  <2>3. CASE ~(c.running /\ Running(r) /\ c.left > 0)
    BY <2>1, <2>3 DEF Ticked
  <2> QED
    BY <2>2, <2>3
<1> QED
  BY <1>3, <1>4, <1>5, <1>6

LEMMA InitClocks == Init => ClocksOK
BY DEF Init, ClocksOK, Clock, NoClock

LEMMA SetClockType ==
  ASSUME ClocksOK, NEW p \in Pages, NEW new \in Clock, SetClock(p, new), UNCHANGED fought
  PROVE  ClocksOK'
BY DEF ClocksOK, SetClock

(* The buttons of the table let its clock run or stop, and leave what it   *)
(* shows.                                                                  *)
LEMMA PlainClock ==
  ASSUME ClocksOK, NEW h \in Handlers, NEW p \in Pages, NEW side \in Sides, Plain(h, p, side)
  PROVE  /\ ClocksOK'
         /\ \A q \in Pages : clock'[q].left = clock[q].left
         /\ UNCHANGED <<setting, row, fought, view, inbox, controllers>>
<1>1. clock[p] \in Clock
  BY DEF ClocksOK
<1>2. PICK new \in {clock[p], Started(clock[p]), Stopped(clock[p])} :
        SetClock(p, new) /\ UNCHANGED <<setting, row, fought, view, inbox, controllers>>
  BY DEF Plain, SendStartMatch, SendGoldenScore, SendEndMatch, SendScoreEvent, Request,
         dbVars, serverVars
<1>3. new \in Clock /\ new.left = clock[p].left
  BY <1>1, <1>2, ClockWriteType
<1> QED
  BY <1>2, <1>3, SetClockType DEF SetClock, ClocksOK

LEMMA ClocksTyping == Typing /\ ClocksOK /\ [Next]_vars => ClocksOK'
<1> SUFFICES ASSUME Typing, ClocksOK, [Next]_vars PROVE ClocksOK'
  OBVIOUS
<1>1. UNCHANGED <<clock, fought>> => ClocksOK'
  BY DEF ClocksOK
<1>2. ASSUME NEW h \in Handlers, NEW p \in Pages, NEW side \in Sides, Plain(h, p, side)
      PROVE  ClocksOK'
  BY <1>2, PlainClock
<1>3. ASSUME NEW h \in Handlers, NEW p \in Pages, Join(h, p) \/ SendStopHoldDown(h, p)
      PROVE  UNCHANGED <<clock, fought>>
  BY <1>3 DEF Join, SendStopHoldDown, Resolve, pageVars, history
<1>4. ASSUME NEW h \in Handlers, NEW m \in Matches, TimerFires(h, m)
      PROVE  UNCHANGED <<clock, fought>>
  BY <1>4 DEF TimerFires, Resolve, pageVars
<1>5. ASSUME ServerStops PROVE UNCHANGED <<clock, fought>>
  BY <1>5 DEF ServerStops, history
<1>6. ASSUME NEW h \in Handlers, Proceed(h) PROVE UNCHANGED <<clock, fought>>
  BY <1>5, <1>6
  DEF Proceed, VerifyPin, GetMatState, Answer, ApplyScoreEvent, StartMatch, EndMatch,
      EnableGoldenScore, GetMatchState, Reject, RejectDetached, Tell, pageVars, history
<1>7. ASSUME NEW p \in Pages, NEW side \in Sides, StartHoldDown(p, side)
      PROVE  UNCHANGED <<clock, fought>>
  BY <1>7 DEF StartHoldDown, pageVars
<1>8. ASSUME NEW p \in Pages, Deliver(p) PROVE ClocksOK'
  <2>1. view'[p].match \in MaybeMatch
    BY <1>8, PageTyping DEF Typing, PagesOK, View
  <2>2. setting.duration \in Nat
    BY GatewayTypes DEF Typing
  <2>3. ClockAfter(p, view'[p]) \in Clock
    BY <2>1, <2>2, ClockAfterType DEF ClockAfter, ClocksOK, MaybeMatch
  <2>4. SetClock(p, ClockAfter(p, view'[p])) /\ UNCHANGED fought
    BY <1>8 DEF Deliver, history
  <2> QED
    BY <2>3, <2>4, SetClockType
<1>9. ASSUME NEW p \in Pages, Disconnect(p) PROVE UNCHANGED <<clock, fought>>
  BY <1>9 DEF Disconnect, history
<1>10. ASSUME NEW p \in Pages, PauseOrResume(p) PROVE ClocksOK'
  <2>1. SetClock(p, Toggled(clock[p])) /\ UNCHANGED fought
    BY <1>10 DEF PauseOrResume, history
  <2> QED
    BY <2>1, ClockWriteType, SetClockType DEF ClocksOK
<1>11. ASSUME Tick PROVE ClocksOK'
  <2>1. \A p \in Pages : Ticked(clock[p], view[p].row) \in Clock
    BY ClockWriteType DEF ClocksOK
  <2> QED
    BY <1>11, <2>1 DEF Tick, ClocksOK
<1>12. CASE Next
  BY <1>1, <1>2, <1>3, <1>4, <1>5, <1>6, <1>7, <1>8, <1>9, <1>10, <1>11, <1>12, NextSteps
<1>13. CASE UNCHANGED vars
  BY <1>1, <1>13 DEF vars, pageVars, history
<1> QED
  BY <1>12, <1>13

-----------------------------------------------------------------------------
(* No step takes a match back *)

LEMMA StaticRows ==
  ASSUME ClocksOK, UNCHANGED <<setting, row, fought>>
  PROVE  RowsGoOn
BY DEF RowsGoOn, ClocksOK

LEMMA CompleteStatus ==
  ASSUME Typing, NEW m \in Matches, NEW winner, NEW winMethod, NEW scores,
         Complete(m, winner, winMethod, scores), NEW n \in Matches
  PROVE  /\ row'[n].status = (IF n = m THEN "COMPLETED" ELSE row[n].status)
         /\ row'[n].goldenScore = row[n].goldenScore
<1>1. row \in [Matches -> Row]
  BY DEF Typing
<1> DEFINE kept == IF n = m
                   THEN [row[n] EXCEPT !.status = "COMPLETED", !.winner = winner,
                                       !.winMethod = winMethod, !.scores = scores]
                   ELSE row[n]
           fields == {"status", "competitor", "scores", "winner", "winMethod", "goldenScore"}
<1>2. /\ kept.status = (IF n = m THEN "COMPLETED" ELSE row[n].status)
      /\ kept.goldenScore = row[n].goldenScore
      /\ DOMAIN kept = DOMAIN row[n]
  BY <1>1 DEF Row
<1>3. \A side, c : /\ [kept EXCEPT !.competitor[side] = c].status = kept.status
                   /\ [kept EXCEPT !.competitor[side] = c].goldenScore = kept.goldenScore
  <2>1. kept = [f \in DOMAIN row[n] |-> kept[f]]
    BY <1>1 DEF Row
  <2>2. "status" \in DOMAIN row[n] /\ "goldenScore" \in DOMAIN row[n]
    BY <1>1 DEF Row
  <2> HIDE DEF kept
  <2> QED
    BY <2>1, <2>2
<1>4. \A side, c, other, d :
        LET placed == [kept EXCEPT !.competitor[side] = c]
        IN  /\ [placed EXCEPT !.competitor[other] = d].status = kept.status
            /\ [placed EXCEPT !.competitor[other] = d].goldenScore = kept.goldenScore
  <2>1. kept = [f \in DOMAIN row[n] |-> kept[f]]
    BY <1>1 DEF Row
  <2>2. "status" \in DOMAIN row[n] /\ "goldenScore" \in DOMAIN row[n]
    BY <1>1 DEF Row
  <2> HIDE DEF kept
  <2> QED
    BY <2>1, <2>2
<1>5. row'[n] = Rows!CompletedRow(m, winner, winMethod, scores, SideOfLoser(m), n)
  BY DEF Complete
<1> DEFINE loser == Rows!Loser(row[m], winner)
           placed == IF n = WinnerTo[m]
                     THEN [kept EXCEPT !.competitor[WinnerSide[m]] = winner] ELSE kept
<1>6. row'[n] = IF n = LoserTo[m] /\ loser # None
                THEN [placed EXCEPT !.competitor[SideOfLoser(m)] = loser] ELSE placed
  BY <1>5 DEF Rows!CompletedRow
<1> HIDE DEF kept, loser
<1>7. row'[n].status = kept.status /\ row'[n].goldenScore = kept.goldenScore
  BY <1>3, <1>4, <1>6
<1> QED
  BY <1>2, <1>7

LEMMA CompleteGoesOn ==
  ASSUME Typing, ClocksOK, NEW m \in Matches, row[m].status = "ACTIVE",
         NEW winner, NEW winMethod, NEW scores, Complete(m, winner, winMethod, scores),
         UNCHANGED <<setting, fought>>
  PROVE  RowsGoOn
<1>1. fought \in [Matches -> Nat]
  BY DEF ClocksOK
<1>2. \A n \in Matches : /\ row'[n].status = (IF n = m THEN "COMPLETED" ELSE row[n].status)
                         /\ row'[n].goldenScore = row[n].goldenScore
  BY CompleteStatus
<1> QED
  BY <1>1, <1>2 DEF RowsGoOn

(* The scores of a match are none of this. *)
LEMMA ApplyGoesOn ==
  ASSUME Typing, ClocksOK, NEW h \in Handlers, ApplyScoreEvent(h)
  PROVE  RowsGoOn
<1> DEFINE c == call[h]
           m == c.match
           side == IF row[m].competitor[1] = c.competitor THEN 1 ELSE 2
           scores == Scored(row[m].scores, side, c.event)
           over == Terminates(scores[side], c.event)
           winner == row[m].competitor[WinningSide(side, scores[side], c.event)]
           winMethod == MethodOf(scores[side], c.event)
<1>1. m \in Matches /\ row[m].status = "ACTIVE" /\ UNCHANGED <<setting, fought>>
  BY DEF ApplyScoreEvent, Typing, CallsOK
<1>2. CASE over
  <2>1. Complete(m, winner, winMethod, scores)
    BY <1>2 DEF ApplyScoreEvent
  <2> HIDE DEF winner, winMethod, scores
  <2> QED
    BY <1>1, <2>1, CompleteGoesOn
<1>3. CASE ~over
  <2>1. row' = [row EXCEPT ![m].scores = scores]
    BY <1>3 DEF ApplyScoreEvent
  <2> HIDE DEF scores
  <2>2. row \in [Matches -> Row] /\ fought \in [Matches -> Nat]
    BY DEF Typing, ClocksOK
  <2>3. \A n \in Matches : row'[n].status = row[n].status /\ row'[n].goldenScore = row[n].goldenScore
    BY <1>1, <2>1, <2>2 DEF Row
  <2> QED
    BY <1>1, <2>2, <2>3 DEF RowsGoOn
<1> QED
  BY <1>2, <1>3

LEMMA ServiceGoesOn ==
  ASSUME Typing, ClocksOK, NEW h \in Handlers,
         StartMatch(h) \/ EndMatch(h) \/ EnableGoldenScore(h) \/ GetMatchState(h)
  PROVE  RowsGoOn
<1> DEFINE m == call[h].match
<1>1. row \in [Matches -> Row] /\ fought \in [Matches -> Nat]
  BY DEF Typing, ClocksOK
<1>2. m \in Matches /\ UNCHANGED <<setting, fought>>
  BY DEF StartMatch, EndMatch, EnableGoldenScore, GetMatchState, Typing, CallsOK, history
<1>3. CASE StartMatch(h)
  <2>1. row[m].status = "SCHEDULED" /\ \E s : row' = [row EXCEPT ![m].status = "ACTIVE", ![m].scores = s]
    BY <1>3 DEF StartMatch, Rows!Start
  <2>2. \A n \in Matches : /\ row'[n].status = IF n = m THEN "ACTIVE" ELSE row[n].status
                           /\ row'[n].goldenScore = row[n].goldenScore
    BY <1>1, <1>2, <2>1 DEF Row
  <2> QED
    BY <1>1, <1>2, <2>1, <2>2 DEF RowsGoOn
<1>4. CASE EndMatch(h)
  <2>1. /\ row[m].status = "ACTIVE"
        /\ Complete(m, call[h].competitor, "DECISION", row[m].scores)
    BY <1>4 DEF EndMatch
  <2> QED
    BY <1>2, <2>1, CompleteGoesOn
<1>5. CASE EnableGoldenScore(h)
  <2>1. /\ row[m].status = "ACTIVE" /\ GoldenRequested(h)
        /\ row' = [row EXCEPT ![m].goldenScore = TRUE]
    BY <1>5 DEF EnableGoldenScore, Rows!GoldenScore, GoldenRequested
  <2>2. \A n \in Matches : /\ row'[n].status = row[n].status
                           /\ n # m => row'[n].goldenScore = row[n].goldenScore
    BY <1>1, <1>2, <2>1 DEF Row
  <2> QED
    BY <1>1, <1>2, <2>1, <2>2 DEF RowsGoOn
<1>6. CASE GetMatchState(h)
  BY <1>2, <1>6, StaticRows DEF GetMatchState, dbVars
<1> QED
  BY <1>3, <1>4, <1>5, <1>6

-----------------------------------------------------------------------------
(* The invariant of the clocks, one action at a time *)

LEMMA OneOrderly ==
  ASSUME NEW rows, NEW msg, msg.type # "match-started",
         msg.type = "match-state" /\ Running(msg.row) => rows[msg.match].status # "SCHEDULED"
  PROVE  Orderly(rows, <<msg>>)
BY DEF Orderly

LEMMA InboxSteps ==
  ASSUME Typing, InboxesOrderly, RowsGoOn, NEW msgs \in Seq(Message), Orderly(row', msgs),
         NEW s, NEW room, Emit(s, msgs) \/ Broadcast(room, msgs) \/ UNCHANGED inbox
  PROVE  InboxesGrow
BY InboxGrows DEF Emit, Broadcast

LEMMA InboxesKept ==
  ASSUME Typing, InboxesOrderly, RowsGoOn, UNCHANGED inbox
  PROVE  InboxesGrow
<1>1. <<>> \in Seq(Message)
  BY EmptySeq
<1> QED
  BY <1>1, NoneOrderly, InboxGrows

(* One call goes on. *)
LEMMA GoldenCall ==
  ASSUME Typing, Typing', GoldenIInv, RowsGoOn, InboxesGrow, ClocksOK, ClocksOK',
         UNCHANGED <<view, clock>>, NEW h \in Handlers, NEW c, NEW where,
         \A s \in controllers' : PageOf(s) \in setting.tables,
         pc' = [pc EXCEPT ![h] = where], call' = [call EXCEPT ![h] = c],
         Orderly(row', c.out),
         where = "verify" => PageOf(c.socket) \in setting.tables,
         ~(where = "apply" /\ c.op = "golden")
  PROVE  GoldenIInv'
<1>1. \A g \in Handlers \ {h} : pc'[g] = pc[g] /\ call'[g] = call[g]
  BY DEF Typing, CallsOK
<1>2. pc'[h] = where /\ call'[h] = c
  BY DEF Typing, CallsOK
<1> QED
  BY <1>1, <1>2, GoldenCalls DEF GoldenRequested

(* The steps of a call that is joining a mat. *)
LEMMA GoldenJoins ==
  ASSUME Typing, Typing', ClocksOK, ClocksOK', GoldenIInv, NEW h \in Handlers,
         (\E p \in Pages : Join(h, p)) \/ VerifyPin(h) \/ GetMatState(h) \/ Answer(h)
  PROVE  GoldenIInv'
<1> USE DEF GoldenIInv
<1>1. RowsGoOn /\ UNCHANGED <<view, clock>>
  BY StaticRows DEF Join, VerifyPin, GetMatState, Answer, dbVars, pageVars, history
<1>2. ASSUME NEW p \in Pages, Join(h, p) PROVE GoldenIInv'
  <2> DEFINE c == [NoCall EXCEPT !.op = "join", !.socket = <<p, socket[p] + 1>>]
             where == IF p \in setting.tables THEN "verify" ELSE "look"
  <2>1. InboxesGrow
    <3>1. <<Role("viewer")>> \in Seq(Message) /\ Orderly(row', <<Role("viewer")>>)
      BY OneOrderly DEF Role, Message
    <3>2. inbox[p] \in Seq(Message) /\ Role("viewer") \in Message
      BY DEF Typing, PagesOK, Role, Message
    <3>3. Append(inbox[p], Role("viewer")) = inbox[p] \o <<Role("viewer")>>
      BY <3>2, AppendIsConcat
    <3>4. inbox' = [inbox EXCEPT ![p] = IF p \in setting.tables THEN inbox[p]
                                        ELSE Append(inbox[p], Role("viewer"))]
      BY <1>2 DEF Join
    <3>5. \A q \in Pages : inbox'[q] \in {inbox[q], inbox[q] \o <<Role("viewer")>>}
      BY <3>3, <3>4 DEF Typing, PagesOK
    <3> QED
      BY <1>1, <3>1, <3>5, InboxGrows
  <2>2. /\ pc' = [pc EXCEPT ![h] = where] /\ call' = [call EXCEPT ![h] = c]
        /\ UNCHANGED controllers
    BY <1>2 DEF Join, Goto
  <2>3. c.out = <<>> /\ c.op = "join" /\ PageOf(c.socket) = p
    BY DEF NoCall, PageOf
  <2> HIDE DEF c
  <2>4. Orderly(row', c.out)
    BY <2>3, NoneOrderly
  <2>5. where = "verify" => PageOf(c.socket) \in setting.tables
    BY <2>3
  <2> HIDE DEF where
  <2> QED
    BY <1>1, <2>1, <2>2, <2>3, <2>4, <2>5, GoldenCall DEF TablesAsk
<1>3. CASE VerifyPin(h)
  <2>1. <<Role("controller")>> \in Seq(Message) /\ Orderly(row', <<Role("controller")>>)
    BY OneOrderly DEF Role, Message
  <2>2. InboxesGrow
    BY <1>1, <1>3, <2>1, InboxSteps DEF VerifyPin
  <2>3. /\ PageOf(call[h].socket) \in setting.tables
        /\ controllers' = controllers \cup {call[h].socket}
    BY <1>3 DEF VerifyPin, CallsTimed
  <2>4. pc' = [pc EXCEPT ![h] = "look"] /\ call' = [call EXCEPT ![h] = call[h]]
    BY <1>3 DEF VerifyPin, Goto, Typing, CallsOK
  <2>5. Orderly(row', call[h].out)
    BY <1>3 DEF VerifyPin, dbVars, CallsTimed
  <2>6. \A s \in controllers' : PageOf(s) \in setting.tables
    BY <2>3 DEF TablesAsk
  <2> QED
    BY <1>1, <2>2, <2>4, <2>5, <2>6, GoldenCall
<1>4. CASE GetMatState(h)
  <2> DEFINE m == current[MatOfPage[PageOf(call[h].socket)]]
             out == IF m = None THEN <<>> ELSE <<MatchState(m, row[m])>>
             c == [call[h] EXCEPT !.out = out]
  <2>1. Orderly(row', out)
    <3>1. Running(row[m]) => row'[m].status # "SCHEDULED"
      BY <1>4 DEF Running, GetMatState, dbVars
    <3>2. m # None => Orderly(row', <<MatchState(m, row[m])>>)
      BY <3>1, OneOrderly DEF MatchState
    <3> QED
      BY <3>2, NoneOrderly
  <2>2. pc' = [pc EXCEPT ![h] = "answer"] /\ call' = [call EXCEPT ![h] = c]
    BY <1>4 DEF GetMatState, Goto
  <2> HIDE DEF out
  <2>3. c.out = out
    BY DEF Typing, CallsOK, Call
  <2>4. InboxesGrow /\ UNCHANGED controllers
    BY <1>1, <1>4, InboxesKept DEF GetMatState, serverVars
  <2> HIDE DEF c
  <2> QED
    BY <1>1, <2>1, <2>2, <2>3, <2>4, GoldenCall DEF TablesAsk
<1>5. CASE Answer(h)
  <2>1. call[h].out \in Seq(Message) /\ Orderly(row', call[h].out)
    BY <1>5 DEF Answer, dbVars, Typing, CallsOK, Call, CallsTimed
  <2>2. InboxesGrow
    BY <1>1, <1>5, <2>1, InboxSteps DEF Answer
  <2>3. /\ pc' = [pc EXCEPT ![h] = "idle"] /\ call' = [call EXCEPT ![h] = NoCall]
        /\ UNCHANGED controllers
    BY <1>5 DEF Answer, Return, Goto, serverVars
  <2>4. Orderly(row', NoCall.out)
    BY NoneOrderly DEF NoCall
  <2> QED
    BY <1>1, <2>2, <2>3, <2>4, GoldenCall DEF TablesAsk
<1> QED
  BY <1>2, <1>3, <1>4, <1>5

(* GOLDEN SCORE is pressed on a table that has no time left.               *)
LEMMA GoldenInTime ==
  ASSUME Typing, ClocksOK, TimeLeft, TablesAsk,
         NEW h \in Handlers, NEW p \in Pages, SendGoldenScore(h, p)
  PROVE  TimeIsUp(view[p].match)
<1> DEFINE m == view[p].match
<1>1. p \in setting.tables
  BY DEF SendGoldenScore, Request, Press, IsController, Socket, PageOf, TablesAsk
<1>2. m # None /\ Running(view[p].row) /\ clock[p].left = 0
  BY DEF SendGoldenScore, CanGoldenScore, CanScore, Running
<1>3. row[m].status # "COMPLETED" => 0 + fought[m] >= setting.duration
  BY <1>1, <1>2 DEF TimeLeft
<1>4. fought[m] \in Nat
  BY <1>2 DEF Typing, PagesOK, View, MaybeMatch, ClocksOK
<1> HIDE DEF m
<1> QED
  BY <1>3, <1>4 DEF TimeIsUp, m

(* The buttons of the table other than those of a hold-down.               *)
LEMMA GoldenPlain ==
  ASSUME Typing, Typing', ClocksOK, GoldenIInv,
         NEW h \in Handlers, NEW p \in Pages, NEW side \in Sides, Plain(h, p, side)
  PROVE  GoldenIInv'
<1> USE DEF GoldenIInv
<1>1. RowsGoOn /\ InboxesGrow /\ ClocksOK' /\ UNCHANGED <<setting, row, view, controllers>>
      /\ \A q \in Pages : clock'[q].left = clock[q].left
  BY PlainClock, StaticRows, InboxesKept
<1>2. PICK c \in {[NoCall EXCEPT !.op = "start"], [NoCall EXCEPT !.op = "golden"]}
             \cup {[NoCall EXCEPT !.op = "end", !.competitor = x] : x \in MaybeCompetitor}
             \cup {[NoCall EXCEPT !.op = "score", !.event = "WAZA_ARI", !.competitor = x] :
                     x \in MaybeCompetitor} :
        /\ \E clk : Request(h, p, c, clk)
        /\ c.op = "golden" => SendGoldenScore(h, p)
  <2>1. view[p].row.competitor[side] \in MaybeCompetitor
    BY DEF Typing, PagesOK, View, Row
  <2>2. CASE SendStartMatch(h, p)
    <3>1. [NoCall EXCEPT !.op = "start"].op # "golden"
      BY DEF NoCall
    <3> QED
      BY <2>2, <3>1 DEF SendStartMatch
  <2>3. CASE SendGoldenScore(h, p)
    BY <2>3 DEF SendGoldenScore
  <2>4. CASE SendEndMatch(h, p, side)
    <3>1. \A x : [NoCall EXCEPT !.op = "end", !.competitor = x].op # "golden"
      BY DEF NoCall
    <3> QED
      BY <2>1, <2>4, <3>1 DEF SendEndMatch
  <2>5. CASE SendScoreEvent(h, p, side, "WAZA_ARI")
    <3>1. \A x : [NoCall EXCEPT !.op = "score", !.event = "WAZA_ARI", !.competitor = x].op # "golden"
      BY DEF NoCall
    <3> DEFINE x == view[p].row.competitor[side]
               d == [NoCall EXCEPT !.op = "score", !.event = "WAZA_ARI", !.competitor = x]
    <3>2. Request(h, p, d, clock[p])
      BY <2>5 DEF SendScoreEvent
    <3>3. d \in {[NoCall EXCEPT !.op = "score", !.event = "WAZA_ARI", !.competitor = y] :
                     y \in MaybeCompetitor}
      BY <2>1
    <3>4. d.op # "golden"
      BY <3>1
    <3> HIDE DEF d
    <3> QED
      BY <3>2, <3>3, <3>4
  <2> QED
    BY <2>2, <2>3, <2>4, <2>5 DEF Plain
<1> DEFINE m == view[p].match
           new == [c EXCEPT !.socket = Socket(p), !.match = m]
<1>3. pc' = [pc EXCEPT ![h] = "apply"] /\ call' = [call EXCEPT ![h] = new]
  BY <1>2 DEF Request, Goto
<1>4. new.op = c.op /\ new.out = <<>> /\ new.match = m
  BY <1>2 DEF NoCall
<1>5. c.op = "golden" => TimeIsUp(m)
  BY <1>2, GoldenInTime
<1> HIDE DEF new
<1>6. \A g \in Handlers :
        \/ pc'[g] = pc[g] /\ call'[g] = call[g]
        \/ /\ Orderly(row', call'[g].out)
           /\ pc'[g] = "verify" => PageOf(call'[g].socket) \in setting.tables
           /\ GoldenRequested(g)' => TimeIsUp(call'[g].match)
  <2>1. \A g \in Handlers \ {h} : pc'[g] = pc[g] /\ call'[g] = call[g]
    BY <1>3 DEF Typing, CallsOK
  <2>2. pc'[h] = "apply" /\ call'[h] = new
    BY <1>3 DEF Typing, CallsOK
  <2> QED
    BY <1>4, <1>5, <2>1, <2>2, NoneOrderly DEF GoldenRequested
<1> QED
  BY <1>1, <1>6, GoldenCalls DEF TablesAsk

(* A hold-down that starts or is over.                                     *)
LEMMA GoldenHoldDowns ==
  ASSUME Typing, Typing', ClocksOK, ClocksOK', GoldenIInv,
         \/ \E p \in Pages, side \in Sides : StartHoldDown(p, side)
         \/ \E h \in Handlers, m \in Matches : \E held, s, others : Resolve(h, m, held, s, others)
  PROVE  GoldenIInv'
<1> USE DEF GoldenIInv
<1>1. RowsGoOn /\ UNCHANGED <<view, clock, controllers>>
  BY StaticRows DEF StartHoldDown, Resolve, dbVars, pageVars
<1>2. ASSUME NEW p \in Pages, NEW side \in Sides, StartHoldDown(p, side)
      PROVE  GoldenIInv'
  <2> DEFINE m == view[p].match
             msg == OsaekomiStarted(m, view[p].row.competitor[side], holdDowns[m] + 1)
  <2>1. m \in Matches /\ view[p].row.competitor[side] \in MaybeCompetitor /\ holdDowns[m] + 1 \in Nat
    <3>1. m \in Matches
      BY <1>2, StartHoldDownTyping
    <3>2. view[p].row \in Row
      BY DEF Typing, PagesOK, View
    <3>3. holdDowns[m] \in 0..MaxHoldDowns /\ MaxHoldDowns \in Nat
      BY <3>1, GatewayTypes DEF Typing, HistoryOK
    <3> QED
      BY <3>1, <3>2, <3>3 DEF Row
  <2>2. msg \in Message /\ msg.type = "osaekomi-started"
    BY <2>1 DEF OsaekomiStarted, Message
  <2>3. Broadcast(ClientRoom(Socket(p)), <<msg>>) /\ UNCHANGED <<pc, call>>
    BY <1>2 DEF StartHoldDown
  <2> HIDE DEF msg
  <2>4. <<msg>> \in Seq(Message) /\ Orderly(row', <<msg>>)
    BY <2>2, OneOrderly
  <2>5. InboxesGrow
    BY <1>1, <2>3, <2>4, InboxSteps
  <2> QED
    BY <1>1, <2>3, <2>5, GoldenCalls DEF TablesAsk
<1>3. ASSUME NEW h \in Handlers, NEW m \in Matches, NEW held, NEW s, NEW others,
             Resolve(h, m, held, s, others)
      PROVE  GoldenIInv'
  <2>1. <<OsaekomiStopped(m)>> \in Seq(Message) /\ Orderly(row', <<OsaekomiStopped(m)>>)
    BY OneOrderly DEF OsaekomiStopped, Message
  <2>2. InboxesGrow
    BY <1>1, <1>3, <2>1, InboxSteps DEF Resolve
  <2>3. CASE held = 0
    BY <1>1, <1>3, <2>2, <2>3, GoldenCalls DEF Resolve, TablesAsk
  <2>4. CASE held # 0
    <3> DEFINE tracker == osaekomi[m]
               c == [NoCall EXCEPT !.op = "score", !.room = tracker.room, !.socket = s, !.match = m,
                      !.competitor = tracker.competitor, !.detached = s = None,
                      !.event = IF held = 2 THEN "IPPON" ELSE "WAZA_ARI",
                      !.held = tracker.held, !.number = tracker.number]
    <3>1. pc' = [pc EXCEPT ![h] = "apply"] /\ call' = [call EXCEPT ![h] = c]
      BY <1>3, <2>4 DEF Resolve, Goto
    <3>2. c.op = "score" /\ c.out = <<>>
      BY DEF NoCall
    <3> HIDE DEF c
    <3>3. Orderly(row', c.out)
      BY <3>2, NoneOrderly
    <3> QED
      BY <1>1, <2>2, <3>1, <3>2, <3>3, GoldenCall DEF TablesAsk
  <2> QED
    BY <2>3, <2>4
<1> QED
  BY <1>2, <1>3

(* A service answers, and its answer waits to be told.                     *)
LEMMA GoldenAnswer ==
  ASSUME Typing, Typing', ClocksOK, ClocksOK', GoldenIInv, RowsGoOn, NEW h \in Handlers,
         NEW msgs, ThenTell(h, msgs), Orderly(row', msgs),
         UNCHANGED <<inbox, view, clock, controllers>>
  PROVE  GoldenIInv'
<1> DEFINE c == [call[h] EXCEPT !.out = msgs]
<1>1. pc' = [pc EXCEPT ![h] = "tell"] /\ call' = [call EXCEPT ![h] = c]
  BY DEF ThenTell, Goto
<1>2. c.out = msgs
  BY DEF Typing, CallsOK, Call
<1>3. InboxesGrow
  BY InboxesKept DEF GoldenIInv
<1> HIDE DEF c
<1> QED
  BY <1>1, <1>2, <1>3, GoldenCall DEF GoldenIInv, TablesAsk

LEMMA GoldenServices ==
  ASSUME Typing, Typing', ClocksOK, ClocksOK', GoldenIInv, NEW h \in Handlers,
         \/ ApplyScoreEvent(h) \/ StartMatch(h) \/ EndMatch(h)
         \/ EnableGoldenScore(h) \/ GetMatchState(h)
  PROVE  GoldenIInv'
<1> DEFINE m == call[h].match
<1>1. RowsGoOn /\ UNCHANGED <<inbox, view, clock, controllers>>
  BY ApplyGoesOn, ServiceGoesOn
  DEF ApplyScoreEvent, StartMatch, EndMatch, EnableGoldenScore, GetMatchState, serverVars, pageVars
<1>2. m \in Matches /\ row \in [Matches -> Row] /\ row' \in [Matches -> Row]
  BY DEF ApplyScoreEvent, StartMatch, EndMatch, EnableGoldenScore, GetMatchState, Typing, CallsOK
<1>3. CASE ApplyScoreEvent(h)
  <2>1. PICK scores, told : /\ ThenTell(h, <<ScoreUpdate(m, scores)>> \o told)
                            /\ \/ told = <<>>
                               \/ \E winner, winMethod : told = <<MatchEnded(m, winner, winMethod)>>
    BY <1>3 DEF ApplyScoreEvent
  <2> DEFINE msgs == <<ScoreUpdate(m, scores)>> \o told
  <2>2. Orderly(row', msgs)
    <3>1. Orderly(row', told)
      BY <2>1, NoneOrderly, OneOrderly DEF MatchEnded
    <3>2. Orderly(row', <<ScoreUpdate(m, scores)>>)
      BY OneOrderly DEF ScoreUpdate
    <3>3. \E S : <<ScoreUpdate(m, scores)>> \in Seq(S) /\ told \in Seq(S)
      <4>1. CASE told = <<>>
        <5>1. told \in Seq({ScoreUpdate(m, scores)})
          BY <4>1, EmptySeq
        <5>2. <<ScoreUpdate(m, scores)>> \in Seq({ScoreUpdate(m, scores)})
          OBVIOUS
        <5> QED
          BY <5>1, <5>2
      <4>2. ASSUME NEW winner, NEW winMethod, told = <<MatchEnded(m, winner, winMethod)>>
            PROVE  \E S : <<ScoreUpdate(m, scores)>> \in Seq(S) /\ told \in Seq(S)
        <5> DEFINE S == {ScoreUpdate(m, scores), MatchEnded(m, winner, winMethod)}
        <5>1. <<ScoreUpdate(m, scores)>> \in Seq(S) /\ told \in Seq(S)
          BY <4>2
        <5> HIDE DEF S
        <5> QED
          BY <5>1
      <4> QED
        BY <2>1, <4>1, <4>2
    <3> QED
      BY <3>1, <3>2, <3>3, OrderlyConcat
  <2> HIDE DEF msgs
  <2> QED
    BY <1>1, <2>1, <2>2, GoldenAnswer DEF msgs
<1>4. CASE StartMatch(h)
  <2> DEFINE msgs == <<MatchStarted(m), MatchState(m, row'[m])>>
  <2>1. row'[m].status = "ACTIVE"
    <3>1. \E s : row' = [row EXCEPT ![m].status = "ACTIVE", ![m].scores = s]
      BY <1>4 DEF StartMatch, Rows!Start
    <3> QED
      BY <1>2, <3>1 DEF Row
  <2>2. Len(msgs) = 2 /\ msgs[1] = MatchStarted(m) /\ msgs[2] = MatchState(m, row'[m])
    OBVIOUS
  <2>3. ThenTell(h, msgs)
    BY <1>4 DEF StartMatch
  <2> HIDE DEF msgs
  <2>4. msgs[1].type = "match-started" /\ msgs[2].type = "match-state" /\ msgs[2].match = m
    BY <2>2 DEF MatchStarted, MatchState
  <2>5. Orderly(row', msgs)
    BY <2>1, <2>2, <2>4 DEF Orderly
  <2> QED
    BY <1>1, <2>3, <2>5, GoldenAnswer
<1>5. CASE EndMatch(h)
  <2>1. ThenTell(h, <<MatchEnded(m, call[h].competitor, "DECISION")>>)
    BY <1>5 DEF EndMatch
  <2>2. Orderly(row', <<MatchEnded(m, call[h].competitor, "DECISION")>>)
    BY OneOrderly DEF MatchEnded
  <2> QED
    BY <1>1, <2>1, <2>2, GoldenAnswer
<1>6. CASE EnableGoldenScore(h)
  <2>1. pc' = [pc EXCEPT ![h] = "reread"] /\ call' = [call EXCEPT ![h] = call[h]]
    BY <1>6 DEF EnableGoldenScore, Goto, Typing, CallsOK
  <2>2. call[h].out \in Seq(Message) /\ Orderly(row, call[h].out)
    BY DEF Typing, CallsOK, Call, GoldenIInv, CallsTimed
  <2>3. Orderly(row', call[h].out)
    BY <1>1, <2>2, OrderlyLater DEF RowsGoOn
  <2>4. InboxesGrow
    BY <1>1, InboxesKept DEF GoldenIInv
  <2> QED
    BY <1>1, <2>1, <2>3, <2>4, GoldenCall DEF GoldenIInv, TablesAsk
<1>7. CASE GetMatchState(h)
  <2>1. ThenTell(h, <<MatchState(m, row[m])>>) /\ UNCHANGED row
    BY <1>7 DEF GetMatchState, dbVars
  <2>2. Orderly(row', <<MatchState(m, row[m])>>)
    BY <2>1, OneOrderly DEF MatchState, Running
  <2> QED
    BY <1>1, <2>1, <2>2, GoldenAnswer
<1> QED
  BY <1>3, <1>4, <1>5, <1>6, <1>7

(* The answer is told, or the service refused.                             *)
LEMMA GoldenReturns ==
  ASSUME Typing, Typing', ClocksOK, ClocksOK', GoldenIInv, NEW h \in Handlers,
         \/ Tell(h) \/ Reject(h)
         \/ Return(h) /\ UNCHANGED <<setting, dbVars, serverVars, pageVars, inbox, history>>
  PROVE  GoldenIInv'
<1> USE DEF GoldenIInv
<1>1. /\ Return(h) /\ UNCHANGED <<setting, row, fought, view, clock, controllers>>
      /\ UNCHANGED inbox \/ \E room : Broadcast(room, call[h].out)
  BY DEF Tell, Reject, dbVars, serverVars, pageVars, history
<1>2. RowsGoOn
  BY <1>1, StaticRows
<1>3. call[h].out \in Seq(Message) /\ Orderly(row', call[h].out)
  BY <1>1 DEF Typing, CallsOK, Call, CallsTimed
<1>4. InboxesGrow
  BY <1>1, <1>2, <1>3, InboxSteps
<1>5. Orderly(row', NoCall.out)
  BY NoneOrderly DEF NoCall
<1>6. pc' = [pc EXCEPT ![h] = "idle"] /\ call' = [call EXCEPT ![h] = NoCall]
  BY <1>1 DEF Return, Goto
<1> QED
  BY <1>1, <1>2, <1>4, <1>5, <1>6, GoldenCall DEF TablesAsk

(* Connections are lost when nothing is on its way.                        *)
LEMMA GoldenLosses ==
  ASSUME Typing, Typing', ClocksOK, ClocksOK', GoldenIInv, setting.duration > 0,
         \/ \E p \in Pages : Disconnect(p) \/ PauseOrResume(p)
         \/ ServerStops /\ Quiet
  PROVE  GoldenIInv'
<1> USE DEF GoldenIInv
<1>1. RowsGoOn
  BY StaticRows DEF Disconnect, PauseOrResume, ServerStops, dbVars, history
<1>2. UNCHANGED view /\ controllers' \subseteq controllers
  BY DEF Disconnect, PauseOrResume, ServerStops, serverVars
<1>3. \A p \in Pages : inbox'[p] \in {inbox[p], inbox[p] \o <<>>}
  BY DEF Disconnect, PauseOrResume, ServerStops, Quiet, Typing, PagesOK
<1>4. InboxesGrow
  BY <1>1, <1>3, NoneOrderly, EmptySeq, InboxGrows
<1>5. \A p \in Pages : clock'[p].left = clock[p].left
  BY ClockWriteType DEF Disconnect, PauseOrResume, ServerStops, SetClock, ClocksOK
<1>6. \A h \in Handlers :
        \/ pc'[h] = pc[h] /\ call'[h] = call[h]
        \/ pc'[h] = "idle" /\ call'[h] = NoCall
  BY DEF Disconnect, PauseOrResume, ServerStops
<1>7. Orderly(row', NoCall.out)
  BY NoneOrderly DEF NoCall
<1> QED
  BY <1>1, <1>2, <1>4, <1>5, <1>6, <1>7, GoldenCalls DEF TablesAsk, GoldenRequested

(* A table that is told of another match or status takes the whole         *)
(* duration, and one that is told of a start is told the match next.       *)
LEMMA TableTold ==
  ASSUME Typing, Typing', ClocksOK, InboxesOrderly, TimeLeft, setting.duration > 0,
         NEW p \in Pages, Deliver(p), p \in setting.tables,
         view'[p].match # None, Running(view'[p].row)
  PROVE  LET m == view'[p].match
         IN  /\ row[m].status # "COMPLETED" => clock'[p].left + fought[m] >= setting.duration
             /\ row[m].status = "SCHEDULED" =>
                  inbox'[p] # <<>> /\ Head(inbox'[p]).type = "match-state"
<1> DEFINE msg == Head(inbox[p])
           m == view'[p].match
<1>1. inbox[p] \in Seq(Message) /\ inbox[p] # <<>> /\ view[p] \in View
  BY DEF Typing, PagesOK, Deliver
<1>2. inbox'[p] = Tail(inbox[p]) /\ view'[p] = ViewAfter(view[p], msg)
  BY DEF Deliver, Typing, PagesOK
<1>3. clock'[p].left = IF Changed(view[p], view'[p]) THEN setting.duration ELSE clock[p].left
  <2> DEFINE time == IF m = None THEN 0 ELSE fought[m]
             new == TableClockAfter(clock[p], view[p], view'[p], setting.duration, time)
  <2>1. clock' = [clock EXCEPT ![p] = new]
    BY DEF Deliver, SetClock, ClockAfter
  <2>2. new.left = IF Changed(view[p], view'[p]) THEN setting.duration ELSE clock[p].left
    BY DEF TableClockAfter, Restarts
  <2> HIDE DEF new
  <2> QED
    BY <2>1, <2>2 DEF ClocksOK
<1>4. /\ m \in Matches /\ fought[m] \in Nat /\ clock[p].left \in Nat
      /\ setting.duration \in Nat
  BY GatewayTypes DEF Typing, PagesOK, View, MaybeMatch, ClocksOK, Clock
<1>5. /\ msg.type = "match-started" =>
           Tail(inbox[p]) # <<>> /\ Head(Tail(inbox[p])).type = "match-state"
      /\ msg.type = "match-state" /\ Running(msg.row) => row[msg.match].status # "SCHEDULED"
  BY <1>1, OrderlyTail DEF InboxesOrderly
<1>6. msg \in Message
  BY <1>1, HeadTailProperties
<1> HIDE DEF msg
<1>7. \/ ~Changed(view[p], view'[p]) /\ view[p].match = m /\ Running(view[p].row)
      \/ Changed(view[p], view'[p])
  BY DEF Changed, Running
<1>8. row[m].status # "COMPLETED" => clock'[p].left + fought[m] >= setting.duration
  <2>1. CASE ~Changed(view[p], view'[p]) /\ view[p].match = m /\ Running(view[p].row)
    <3>1. row[m].status # "COMPLETED" => clock[p].left + fought[m] >= setting.duration
      BY <2>1 DEF TimeLeft
    <3> QED
      BY <1>3, <2>1, <3>1
  <2>2. CASE Changed(view[p], view'[p])
    <3> HIDE DEF m
    <3>1. clock'[p].left = setting.duration
      BY <1>3, <2>2
    <3> QED
      BY <1>4, <3>1
  <2> QED
    BY <1>7, <2>1, <2>2
<1>9. row[m].status = "SCHEDULED" => inbox'[p] # <<>> /\ Head(inbox'[p]).type = "match-state"
  <2> SUFFICES ASSUME row[m].status = "SCHEDULED"
               PROVE  Tail(inbox[p]) # <<>> /\ Head(Tail(inbox[p])).type = "match-state"
    BY <1>2
  <2>1. CASE msg.type = "match-state"
    <3>1. view'[p] = [match |-> msg.match, row |-> msg.row]
      BY <1>2, <2>1 DEF ViewAfter
    <3> QED
      BY <1>5, <2>1, <3>1
  <2>2. CASE msg.type = "match-started"
    BY <1>5, <2>2
  <2>3. CASE msg.type \notin {"match-state", "match-started"}
    <3>1. view[p].match = m /\ Running(view[p].row)
      <4>1. CASE msg.type = "score-update" /\ view[p].match = msg.match
        <5>1. view'[p] = [view[p] EXCEPT !.row.scores = msg.scores]
          BY <1>2, <4>1 DEF ViewAfter
        <5>2. view'[p].match = view[p].match /\ view'[p].row.status = view[p].row.status
          BY <1>1, <5>1 DEF View, Row
        <5> QED
          BY <5>2 DEF Running
      <4>2. CASE msg.type = "match-ended" /\ view[p].match = msg.match
        <5> DEFINE r == [view[p].row EXCEPT !.status = "COMPLETED", !.winMethod = msg.winMethod,
                                            !.winner = ShownWinner(view[p].row, msg.winner)]
        <5>1. view'[p] = [view[p] EXCEPT !.row = r]
          BY <1>1, <1>2, <4>2 DEF ViewAfter, View
        <5>2. r.status = "COMPLETED"
          BY <1>1 DEF View, Row
        <5> HIDE DEF r
        <5>3. view'[p].row = r
          BY <1>1, <5>1 DEF View
        <5> QED
          BY <5>2, <5>3 DEF Running
      <4>3. CASE ~(msg.type \in {"score-update", "match-ended"} /\ view[p].match = msg.match)
        <5>1. view'[p] = view[p]
          BY <1>2, <2>3, <4>3 DEF ViewAfter
        <5> QED
          BY <5>1
      <4> QED
        BY <4>1, <4>2, <4>3
    <3>2. Head(inbox[p]).type = "match-state"
      BY <1>4, <3>1 DEF TimeLeft
    <3> QED
      BY <2>3, <3>2 DEF msg
  <2> QED
    BY <2>1, <2>2, <2>3
<1> QED
  BY <1>8, <1>9

LEMMA GoldenDelivers ==
  ASSUME Typing, Typing', ClocksOK, GoldenIInv, setting.duration > 0,
         NEW p \in Pages, Deliver(p)
  PROVE  GoldenIInv'
<1> USE DEF GoldenIInv
<1>1. UNCHANGED <<setting, row, fought, controllers, pc, call>>
  BY DEF Deliver, dbVars, serverVars, history
<1>2. \A q \in Pages \ {p} : inbox'[q] = inbox[q] /\ view'[q] = view[q] /\ clock'[q] = clock[q]
  BY DEF Deliver, Typing, PagesOK, ClocksOK, SetClock
<1>3. InboxesOrderly'
  <2>1. inbox[p] \in Seq(Message) /\ inbox[p] # <<>> /\ inbox'[p] = Tail(inbox[p])
    BY DEF Deliver, Typing, PagesOK
  <2>2. Orderly(row, inbox'[p])
    BY <2>1, OrderlyTail DEF InboxesOrderly
  <2> QED
    BY <1>1, <1>2, <2>2 DEF InboxesOrderly
<1>4. TimeLeft'
  <2> SUFFICES ASSUME NEW q \in setting.tables, view'[q].match # None, Running(view'[q].row)
               PROVE  LET m == view'[q].match
                      IN  /\ row[m].status # "COMPLETED" =>
                               clock'[q].left + fought[m] >= setting.duration
                          /\ row[m].status = "SCHEDULED" =>
                               inbox'[q] # <<>> /\ Head(inbox'[q]).type = "match-state"
    BY <1>1 DEF TimeLeft
  <2>1. q \in Pages
    BY GatewayTypes DEF Typing
  <2>2. CASE q = p
    BY <2>2, TableTold
  <2>3. CASE q # p
    BY <1>2, <2>1, <2>3 DEF TimeLeft
  <2> QED
    BY <2>2, <2>3
<1>5. CallsTimed' /\ TablesAsk' /\ GoldenScoreAfterTime'
  BY <1>1 DEF CallsTimed, TablesAsk, GoldenScoreAfterTime, GoldenRequested, TimeIsUp
<1> QED
  BY <1>3, <1>4, <1>5

(* A unit of time that a table shows less is one the match has been fought *)
(* more: nothing is on its way, so that a table shows no match as ACTIVE   *)
(* that has not been started.                                              *)
LEMMA GoldenTicks ==
  ASSUME Typing, Typing', ClocksOK, ClocksOK', GoldenIInv, setting.duration > 0, Tick
  PROVE  GoldenIInv'
<1> USE DEF GoldenIInv
<1>1. /\ UNCHANGED <<setting, row, controllers, pc, call, view, inbox>> /\ Quiet
      /\ clock' = [p \in Pages |-> Ticked(clock[p], view[p].row)]
  BY DEF Tick, dbVars
<1>2. \A m \in Matches :
        /\ fought[m] \in Nat /\ fought'[m] \in Nat /\ fought[m] <= fought'[m]
        /\ Running(row[m]) =>
             fought[m] >= setting.duration \/ fought'[m] = fought[m] + 1
  <2>1. \A m \in Matches :
          fought'[m] = IF Running(row[m]) /\ fought[m] < setting.duration
                       THEN fought[m] + 1 ELSE fought[m]
    BY DEF Tick
  <2>2. \A m \in Matches : fought[m] \in Nat /\ fought'[m] \in Nat /\ setting.duration \in Nat
    BY GatewayTypes DEF Typing, ClocksOK
  <2> QED
    BY <2>1, <2>2
<1>3. TimeLeft'
  <2> SUFFICES ASSUME NEW p \in setting.tables, view[p].match # None, Running(view[p].row)
               PROVE  LET m == view[p].match
                      IN  /\ row[m].status # "COMPLETED" =>
                               clock'[p].left + fought'[m] >= setting.duration
                          /\ row[m].status # "SCHEDULED"
    BY <1>1 DEF TimeLeft
  <2> DEFINE m == view[p].match
  <2>1. p \in Pages /\ setting.duration \in Nat
    BY GatewayTypes DEF Typing
  <2>2. m \in Matches /\ row[m].status \in Statuses
    BY <2>1 DEF Typing, PagesOK, View, MaybeMatch, Row
  <2>3. clock[p] \in Clock /\ clock'[p] \in Clock /\ clock'[p].left + 1 >= clock[p].left
    BY <1>1, <2>1, ClockWriteType DEF ClocksOK
  <2>4. clock[p].left \in Nat /\ clock'[p].left \in Nat
    BY <2>3 DEF Clock
  <2>5. row[m].status # "SCHEDULED"
    BY <1>1, <2>1 DEF TimeLeft, Quiet
  <2>6. row[m].status # "COMPLETED" =>
          Running(row[m]) /\ clock[p].left + fought[m] >= setting.duration
    BY <2>2, <2>5 DEF TimeLeft, Running, Statuses
  <2> HIDE DEF m
  <2>7. row[m].status # "COMPLETED" => clock'[p].left + fought'[m] >= setting.duration
    BY <1>2, <2>1, <2>2, <2>3, <2>4, <2>6
  <2> QED
    BY <2>5, <2>7 DEF m
<1>4. CallsTimed'
  <2>1. \A h \in Handlers : GoldenRequested(h) => call[h].match \in Matches
    BY DEF GoldenRequested, Typing, CallsOK
  <2>2. setting.duration \in Nat
    BY GatewayTypes DEF Typing
  <2>3. \A m \in Matches : TimeIsUp(m) => row[m].status = "COMPLETED" \/ fought'[m] >= setting.duration
    BY <1>2, <2>2 DEF TimeIsUp
  <2> QED
    BY <1>1, <2>1, <2>3 DEF CallsTimed, GoldenRequested, TimeIsUp
<1>5. GoldenScoreAfterTime'
  <2>1. setting.duration \in Nat
    BY GatewayTypes DEF Typing
  <2> QED
    BY <1>1, <1>2, <2>1 DEF GoldenScoreAfterTime
<1>6. InboxesOrderly' /\ TablesAsk'
  BY <1>1 DEF InboxesOrderly, TablesAsk
<1> QED
  BY <1>3, <1>4, <1>5, <1>6

LEMMA SettingStays ==
  ASSUME Typing, Next
  PROVE  UNCHANGED setting
<1>1. ASSUME NEW h \in Handlers, NEW p \in Pages, Join(h, p) \/ SendStopHoldDown(h, p)
      PROVE  UNCHANGED setting
  BY <1>1 DEF Join, SendStopHoldDown, Resolve
<1>2. ASSUME NEW h \in Handlers, NEW p \in Pages, NEW side \in Sides, Plain(h, p, side)
      PROVE  UNCHANGED setting
  BY <1>2
  DEF Plain, SendStartMatch, SendGoldenScore, SendEndMatch, SendScoreEvent, Request
<1>3. ASSUME NEW h \in Handlers, NEW m \in Matches, TimerFires(h, m)
      PROVE  UNCHANGED setting
  BY <1>3 DEF TimerFires, Resolve
<1>4. ASSUME NEW h \in Handlers, Proceed(h) PROVE UNCHANGED setting
  BY <1>4
  DEF Proceed, VerifyPin, GetMatState, Answer, ApplyScoreEvent, StartMatch, EndMatch,
      EnableGoldenScore, GetMatchState, Reject, RejectDetached, ServerStops, Tell
<1>5. ASSUME NEW p \in Pages, NEW side \in Sides, StartHoldDown(p, side)
      PROVE  UNCHANGED setting
  BY <1>5 DEF StartHoldDown
<1>6. ASSUME NEW p \in Pages, Deliver(p) \/ Disconnect(p) \/ PauseOrResume(p)
      PROVE  UNCHANGED setting
  BY <1>6 DEF Deliver, Disconnect, PauseOrResume
<1>7. Tick \/ ServerStops => UNCHANGED setting
  BY DEF Tick, ServerStops
<1> QED
  BY <1>1, <1>2, <1>3, <1>4, <1>5, <1>6, <1>7, NextSteps

(* The server does not stop while calls or messages are on their way.      *)
StopsWhenQuiet == ServerStops => Quiet

ClocksIInv == Typing /\ ClocksOK /\ (setting.duration > 0 => GoldenIInv)

LEMMA GoldenInit == Init => ClocksIInv
<1> SUFFICES ASSUME Init PROVE ClocksIInv
  OBVIOUS
<1>1. InboxesOrderly /\ TimeLeft /\ TablesAsk
  BY NoneOrderly, InitTyping, GatewayTypes
  DEF Init, InboxesOrderly, TimeLeft, TablesAsk, NoView, Typing
<1>2. CallsTimed
  BY NoneOrderly DEF Init, CallsTimed, GoldenRequested, NoCall
<1>3. GoldenScoreAfterTime
  BY DEF Init, GoldenScoreAfterTime, DrawnRow
<1> QED
  BY <1>1, <1>2, <1>3, InitTyping, InitClocks DEF ClocksIInv, GoldenIInv

LEMMA GoldenNext == ClocksIInv /\ [Next]_vars /\ [StopsWhenQuiet]_vars => ClocksIInv'
<1> SUFFICES ASSUME ClocksIInv, [Next]_vars, [StopsWhenQuiet]_vars PROVE ClocksIInv'
  OBVIOUS
<1>1. Typing /\ Typing' /\ ClocksOK /\ ClocksOK'
  BY NextTyping, ClocksTyping DEF ClocksIInv
<1>2. CASE UNCHANGED vars
  <2>1. UNCHANGED <<setting, row, fought, controllers, pc, call, view, clock, inbox>>
    BY <1>2 DEF vars, dbVars, serverVars, pageVars, history
  <2>2. GoldenIInv => GoldenIInv'
    BY <2>1 DEF GoldenIInv, InboxesOrderly, TimeLeft, CallsTimed, TablesAsk, GoldenScoreAfterTime,
                GoldenRequested, TimeIsUp
  <2> QED
    BY <1>1, <2>1, <2>2 DEF ClocksIInv
<1>3. CASE Next /\ StopsWhenQuiet
  <2>1. UNCHANGED setting
    BY <1>1, <1>3, SettingStays
  <2> SUFFICES ASSUME setting.duration > 0, GoldenIInv PROVE GoldenIInv'
    BY <1>1, <2>1 DEF ClocksIInv
  <2>2. ASSUME NEW h \in Handlers, NEW p \in Pages,
               Join(h, p) \/ SendStopHoldDown(h, p) \/ \E side \in Sides : Plain(h, p, side)
        PROVE  GoldenIInv'
    <3>1. CASE Join(h, p)
      BY <1>1, <3>1, GoldenJoins
    <3>2. CASE SendStopHoldDown(h, p)
      <4>1. view[p].match \in Matches
        BY <1>1, <3>2 DEF SendStopHoldDown, CanStopHoldDown, CanScore, Typing, PagesOK, View, MaybeMatch
      <4> QED
        BY <1>1, <3>2, <4>1, GoldenHoldDowns DEF SendStopHoldDown
    <3>3. CASE \E side \in Sides : Plain(h, p, side)
      BY <1>1, <3>3, GoldenPlain
    <3> QED
      BY <2>2, <3>1, <3>2, <3>3
  <2>3. ASSUME NEW h \in Handlers, NEW m \in Matches, TimerFires(h, m)
        PROVE  GoldenIInv'
    BY <1>1, <2>3, GoldenHoldDowns DEF TimerFires
  <2>4. ASSUME ServerStops PROVE GoldenIInv'
    BY <1>1, <1>3, <2>4, GoldenLosses DEF StopsWhenQuiet
  <2>5. ASSUME NEW h \in Handlers, Proceed(h)
        PROVE  GoldenIInv'
    BY <1>1, <2>4, <2>5, GoldenJoins, GoldenServices, GoldenReturns DEF Proceed, RejectDetached
  <2>6. ASSUME NEW p \in Pages, NEW side \in Sides, StartHoldDown(p, side)
        PROVE  GoldenIInv'
    BY <1>1, <2>6, GoldenHoldDowns
  <2>7. ASSUME NEW p \in Pages, Deliver(p) \/ Disconnect(p) \/ PauseOrResume(p)
        PROVE  GoldenIInv'
    BY <1>1, <2>7, GoldenDelivers, GoldenLosses
  <2>8. ASSUME Tick PROVE GoldenIInv'
    BY <1>1, <2>8, GoldenTicks
  <2> QED
    BY <1>1, <1>3, <2>2, <2>3, <2>4, <2>5, <2>6, <2>7, <2>8, NextSteps
<1> QED
  BY <1>2, <1>3

(* Nobody can enter golden score while a table has official time left: for *)
(* any number of tables and mats that start, end, pause and lose their     *)
(* connections while calls overlap, as long as the server does not stop    *)
(* between the two messages of a start.                                    *)
THEOREM TimeIsFought ==
  Spec /\ [][StopsWhenQuiet]_vars => []GoldenScoreAfterTime
<1>1. Init => ClocksIInv
  BY GoldenInit
<1>2. ClocksIInv /\ [Next]_vars /\ [StopsWhenQuiet]_vars => ClocksIInv'
  BY GoldenNext
<1>3. ClocksIInv => GoldenScoreAfterTime
  <2> SUFFICES ASSUME ClocksIInv, setting.duration = 0 PROVE GoldenScoreAfterTime
    BY GatewayTypes DEF ClocksIInv, GoldenIInv, Typing
  <2> QED
    BY DEF ClocksIInv, ClocksOK, GoldenScoreAfterTime
<1> QED
  BY <1>1, <1>2, <1>3, PTL DEF Spec

-----------------------------------------------------------------------------
(* What a page makes of the messages that are on their way: the state one  *)
(* step at a time, from the one it is in to the one it comes to.           *)

Leads(step, S, from, msgs, to) ==
  \E s \in [0..Len(msgs) -> S] :
    /\ s[0] = from /\ s[Len(msgs)] = to
    /\ \A i \in 1..Len(msgs) : s[i] = step[<<s[i - 1], msgs[i]>>]

LEMMA LeadsStay ==
  ASSUME NEW step, NEW S, NEW x \in S
  PROVE  Leads(step, S, x, <<>>, x)
<1> DEFINE s == [i \in 0..0 |-> x]
<1>1. Len(<<>>) = 0
  OBVIOUS
<1>2. s \in [0..0 -> S] /\ s[0] = x
  OBVIOUS
<1> HIDE DEF s
<1> QED
  BY <1>1, <1>2 DEF Leads

LEMMA LeadsNowhere ==
  ASSUME NEW step, NEW S, NEW x, NEW y, Leads(step, S, x, <<>>, y)
  PROVE  x = y
BY DEF Leads

LEMMA LeadsType ==
  ASSUME NEW step, NEW S, NEW T, NEW msgs \in Seq(T), NEW x, NEW y, Leads(step, S, x, msgs, y)
  PROVE  x \in S /\ y \in S
<1>1. Len(msgs) \in Nat
  BY LenProperties
<1> QED
  BY <1>1 DEF Leads

LEMMA LeadsOne ==
  ASSUME NEW step, NEW S, NEW x \in S, NEW msg, step[<<x, msg>>] \in S
  PROVE  Leads(step, S, x, <<msg>>, step[<<x, msg>>])
<1> DEFINE s == [i \in 0..1 |-> IF i = 0 THEN x ELSE step[<<x, msg>>]]
<1>1. Len(<<msg>>) = 1 /\ <<msg>>[1] = msg
  OBVIOUS
<1>2. s \in [0..1 -> S] /\ s[0] = x /\ s[1] = step[<<x, msg>>]
  OBVIOUS
<1> HIDE DEF s
<1>3. \A i \in 1..1 : s[i] = step[<<s[i - 1], <<msg>>[i]>>]
  BY <1>1, <1>2
<1> QED
  BY <1>1, <1>2, <1>3 DEF Leads

LEMMA LeadsOn ==
  ASSUME NEW step, NEW S, NEW T, NEW first \in Seq(T), NEW second \in Seq(T),
         NEW x, NEW y, NEW z, Leads(step, S, x, first, y), Leads(step, S, y, second, z)
  PROVE  Leads(step, S, x, first \o second, z)
<1> DEFINE k == Len(first)
           n == Len(second)
           all == first \o second
<1>1. /\ k \in Nat /\ n \in Nat /\ Len(all) = k + n
      /\ \A i \in 1..k : all[i] = first[i]
      /\ \A i \in 1..n : all[k + i] = second[i]
  <2>1. all \in Seq(T) /\ Len(all) = k + n
    BY ConcatProperties
  <2>2. k \in Nat /\ n \in Nat
    BY LenProperties
  <2> QED
    BY <2>1, <2>2, ConcatProperties
<1>2. PICK s \in [0..k -> S] :
        s[0] = x /\ s[k] = y /\ \A i \in 1..k : s[i] = step[<<s[i - 1], first[i]>>]
  BY DEF Leads
<1>3. PICK t \in [0..n -> S] :
        t[0] = y /\ t[n] = z /\ \A i \in 1..n : t[i] = step[<<t[i - 1], second[i]>>]
  BY DEF Leads
<1> DEFINE u == [i \in 0..(k + n) |-> IF i <= k THEN s[i] ELSE t[i - k]]
<1> HIDE DEF k, n, all
<1>4. \A i \in 0..(k + n) : u[i] = IF i <= k THEN s[i] ELSE t[i - k]
  OBVIOUS
<1>5. u \in [0..(k + n) -> S]
  <2>1. ASSUME NEW i \in 0..(k + n) PROVE u[i] \in S
    <3>1. i <= k \/ i - k \in 0..n
      BY <1>1
    <3> QED
      BY <1>1, <1>2, <1>3, <1>4, <3>1
  <2> QED
    BY <2>1
<1> HIDE DEF u
<1>6. u[0] = x /\ u[k + n] = z
  BY <1>1, <1>2, <1>3, <1>4
<1>7. ASSUME NEW i \in 1..(k + n) PROVE u[i] = step[<<u[i - 1], all[i]>>]
  <2>1. CASE i <= k
    <3>1. i \in 1..k /\ i - 1 \in 0..(k + n) /\ i - 1 <= k
      BY <1>1, <2>1
    <3>2. u[i] = s[i] /\ u[i - 1] = s[i - 1] /\ all[i] = first[i]
      BY <1>1, <1>4, <2>1, <3>1
    <3> QED
      BY <1>2, <3>1, <3>2
  <2>2. CASE i > k
    <3>1. i - k \in 1..n /\ all[i] = second[i - k]
      <4>1. i - k \in 1..n /\ i = k + (i - k)
        BY <1>1, <2>2
      <4> QED
        BY <1>1, <4>1
    <3>2. t[i - k] = step[<<t[i - k - 1], second[i - k]>>]
      BY <1>3, <3>1
    <3>3. u[i - 1] = t[i - k - 1]
      BY <1>1, <1>2, <1>3, <1>4, <2>2
    <3>4. u[i] = t[i - k]
      BY <1>1, <1>4, <2>2
    <3> QED
      BY <3>1, <3>2, <3>3, <3>4
  <2> QED
    BY <1>1, <2>1, <2>2
<1> QED
  BY <1>1, <1>5, <1>6, <1>7 DEF Leads, all

LEMMA LeadsTail ==
  ASSUME NEW step, NEW S, NEW T, NEW msgs \in Seq(T), msgs # <<>>,
         NEW x, NEW z, Leads(step, S, x, msgs, z)
  PROVE  Leads(step, S, step[<<x, Head(msgs)>>], Tail(msgs), z)
<1> DEFINE n == Len(msgs)
           rest == Tail(msgs)
<1>1. /\ n \in Nat \ {0} /\ Len(rest) = n - 1 /\ Head(msgs) = msgs[1]
      /\ \A i \in 1..(n - 1) : rest[i] = msgs[i + 1]
  BY HeadTailProperties, LenProperties, EmptySeq
<1>2. PICK s \in [0..n -> S] :
        s[0] = x /\ s[n] = z /\ \A i \in 1..n : s[i] = step[<<s[i - 1], msgs[i]>>]
  BY DEF Leads
<1> DEFINE u == [i \in 0..(n - 1) |-> s[i + 1]]
<1> HIDE DEF n, rest
<1>3. u \in [0..(n - 1) -> S] /\ \A i \in 0..(n - 1) : u[i] = s[i + 1]
  BY <1>1, <1>2
<1> HIDE DEF u
<1>4. u[0] = step[<<x, Head(msgs)>>] /\ u[n - 1] = z
  BY <1>1, <1>2, <1>3
<1>5. ASSUME NEW i \in 1..(n - 1) PROVE u[i] = step[<<u[i - 1], rest[i]>>]
  <2>1. u[i] = s[i + 1] /\ u[i - 1] = s[i] /\ i + 1 \in 1..n /\ (i + 1) - 1 = i
    BY <1>1, <1>3
  <2>2. s[i + 1] = step[<<s[(i + 1) - 1], msgs[i + 1]>>]
    BY <1>2, <2>1
  <2> QED
    BY <1>1, <2>1, <2>2
<1> QED
  BY <1>1, <1>3, <1>4, <1>5 DEF Leads, rest

-----------------------------------------------------------------------------
(* Who hears of which match.  A mat's pages, trackers and calls know of    *)
(* the matches of that mat only; the pages that are connected are in their *)
(* room; what is on its way to the others is lost.                         *)

Hold == [active : BOOLEAN, competitor : MaybeCompetitor, number : Nat]

OnMat(mat) == {Programme[mat][i] : i \in DOMAIN Programme[mat]}

(* What the services have to tell of a match, and the state of a mat.      *)
Results(m) ==
  {<<ScoreUpdate(m, scores)>> : scores \in Scores}
    \cup {<<MatchEnded(m, c, how)>> : c \in MaybeCompetitor, how \in WinMethods}
    \cup {<<ScoreUpdate(m, scores), MatchEnded(m, c, how)>> :
            scores \in Scores, c \in MaybeCompetitor, how \in WinMethods}
    \cup {<<MatchStarted(m), MatchState(m, r)>> : r \in Row}
    \cup {<<MatchState(m, r)>> : r \in Row}

States(mat) == {<<>>} \cup {<<MatchState(m, r)>> : m \in OnMat(mat), r \in Row}

OnlineOK == online \in [Pages -> BOOLEAN] /\ hold \in [Pages -> Hold]

RoomsLive == \A s \in rooms : Live(s)

InTheirRoom ==
  \A p \in Pages :
    /\ online[p] => Socket(p) \in rooms
    /\ ~online[p] => inbox[p] = <<>>
    /\ socket[p] = 0 => ~online[p] /\ view[p] = NoView /\ hold[p] = NoHoldDown

Connected == OnlineOK /\ RoomsLive /\ InTheirRoom

CurrentOnMat == \A mat \in Mats : current[mat] \in OnMat(mat) \cup {None}

About(msgs, mat) ==
  \A i \in 1..Len(msgs) : msgs[i].type # "role" => msgs[i].match \in OnMat(mat)

PagesOnMat ==
  \A p \in Pages : /\ view[p].match # None => view[p].match \in OnMat(MatOfPage[p])
                   /\ About(inbox[p], MatOfPage[p])

TrackersOnMat ==
  \A m \in Matches : osaekomi[m] # NoTracker =>
                       osaekomi[m].room \in Mats /\ m \in OnMat(osaekomi[m].room)

(* The mat a call is about. *)
Home(c) == IF c.number # 0 THEN c.room ELSE MatOfPage[PageOf(c.socket)]

Joining(step) == step \in {"verify", "look", "answer"}

Asking(step) == step \in {"apply", "reread", "tell"}

RightCall(step, c) ==
  /\ Joining(step) => c.socket \in Sockets
  /\ step = "verify" => PageOf(c.socket) \in setting.tables
  /\ step = "answer" => c.out \in States(MatOfPage[PageOf(c.socket)])
  /\ Asking(step) =>
       /\ Home(c) \in Mats /\ c.match \in Matches /\ c.match \in OnMat(Home(c))
       /\ c.number = 0 => c.socket \in Sockets /\ PageOf(c.socket) \in setting.tables
  /\ step = "tell" => c.out \in Results(c.match)

CallsRight == \A h \in Handlers : RightCall(pc[h], call[h])

Linked ==
  /\ Connected /\ CurrentOnMat /\ PagesOnMat /\ TrackersOnMat /\ CallsRight /\ TablesAsk

-----------------------------------------------------------------------------
LEMMA OneMat ==
  ASSUME NEW mat \in Mats, NEW other \in Mats, NEW m, m \in OnMat(mat), m \in OnMat(other)
  PROVE  mat = other
BY OneMatEach DEF OnMat

LEMMA OnMatType ==
  ASSUME NEW mat \in Mats
  PROVE  OnMat(mat) \subseteq Matches /\ None \notin OnMat(mat)
<1>1. Programme[mat] \in Seq(Matches)
  BY GatewayTypes
<1>2. OnMat(mat) \subseteq Matches
  BY <1>1, ElementOfSeq, LenProperties DEF OnMat
<1> QED
  BY <1>2, DrawTypes

LEMMA RightMats ==
  ASSUME Typing
  PROVE  /\ \A p \in Pages : MatOfPage[p] \in Mats /\ PageOf(Socket(p)) = p
         /\ setting.tables \subseteq Pages /\ setting.pages \subseteq Pages
         /\ setting.tables \subseteq setting.pages /\ setting.handlers \subseteq Handlers
BY GatewayTypes DEF Typing, Socket, PageOf

LEMMA ResultsAbout ==
  ASSUME NEW m \in Matches, NEW msgs \in Results(m)
  PROVE  /\ msgs \in Seq(Message)
         /\ \A mat : m \in OnMat(mat) => About(msgs, mat)
<1>1. ASSUME NEW scores \in Scores, msgs = <<ScoreUpdate(m, scores)>>
      PROVE  msgs \in Seq(Message) /\ \A mat : m \in OnMat(mat) => About(msgs, mat)
  <2>1. ScoreUpdate(m, scores) \in Message /\ ScoreUpdate(m, scores).match = m
    BY DEF Message, ScoreUpdate
  <2> QED
    BY <1>1, <2>1 DEF About
<1>2. ASSUME NEW c \in MaybeCompetitor, NEW how \in WinMethods, msgs = <<MatchEnded(m, c, how)>>
      PROVE  msgs \in Seq(Message) /\ \A mat : m \in OnMat(mat) => About(msgs, mat)
  <2>1. MatchEnded(m, c, how) \in Message /\ MatchEnded(m, c, how).match = m
    BY DEF Message, MatchEnded
  <2> QED
    BY <1>2, <2>1 DEF About
<1>3. ASSUME NEW scores \in Scores, NEW c \in MaybeCompetitor, NEW how \in WinMethods,
             msgs = <<ScoreUpdate(m, scores), MatchEnded(m, c, how)>>
      PROVE  msgs \in Seq(Message) /\ \A mat : m \in OnMat(mat) => About(msgs, mat)
  <2>1. ScoreUpdate(m, scores) \in Message /\ ScoreUpdate(m, scores).match = m
    BY DEF Message, ScoreUpdate
  <2>2. MatchEnded(m, c, how) \in Message /\ MatchEnded(m, c, how).match = m
    BY DEF Message, MatchEnded
  <2> QED
    BY <1>3, <2>1, <2>2 DEF About
<1>4. ASSUME NEW r \in Row, msgs = <<MatchStarted(m), MatchState(m, r)>>
      PROVE  msgs \in Seq(Message) /\ \A mat : m \in OnMat(mat) => About(msgs, mat)
  <2>1. MatchStarted(m) \in Message /\ MatchStarted(m).match = m
    BY DEF Message, MatchStarted
  <2>2. MatchState(m, r) \in Message /\ MatchState(m, r).match = m
    BY DEF Message, MatchState
  <2> QED
    BY <1>4, <2>1, <2>2 DEF About
<1>5. ASSUME NEW r \in Row, msgs = <<MatchState(m, r)>>
      PROVE  msgs \in Seq(Message) /\ \A mat : m \in OnMat(mat) => About(msgs, mat)
  <2>1. MatchState(m, r) \in Message /\ MatchState(m, r).match = m
    BY DEF Message, MatchState
  <2> QED
    BY <1>5, <2>1 DEF About
<1> QED
  BY <1>1, <1>2, <1>3, <1>4, <1>5 DEF Results

LEMMA StatesAbout ==
  ASSUME NEW mat \in Mats, NEW msgs \in States(mat)
  PROVE  msgs \in Seq(Message) /\ About(msgs, mat)
<1>1. CASE msgs = <<>>
  BY <1>1, EmptySeq DEF About
<1>2. ASSUME NEW m \in OnMat(mat), NEW r \in Row, msgs = <<MatchState(m, r)>>
      PROVE  msgs \in Seq(Message) /\ About(msgs, mat)
  <2>1. MatchState(m, r) \in Message /\ MatchState(m, r).match = m
    BY OnMatType DEF Message, MatchState
  <2> QED
    BY <1>2, <2>1 DEF About
<1> QED
  BY <1>1, <1>2 DEF States

LEMMA AboutBoth ==
  ASSUME NEW first \in Seq(Message), NEW second \in Seq(Message), NEW mat,
         About(first, mat), About(second, mat)
  PROVE  About(first \o second, mat)
<1> DEFINE all == first \o second
<1>1. /\ Len(all) = Len(first) + Len(second) /\ Len(first) \in Nat /\ Len(second) \in Nat
      /\ \A i \in 1..Len(first) : all[i] = first[i]
      /\ \A i \in (Len(first) + 1)..(Len(first) + Len(second)) : all[i] = second[i - Len(first)]
  BY ConcatProperties, LenProperties
<1>2. \A i \in 1..Len(all) :
        i \in 1..Len(first) \/ (i - Len(first) \in 1..Len(second)
                                 /\ i \in (Len(first) + 1)..(Len(first) + Len(second)))
  BY <1>1
<1> HIDE DEF all
<1> QED
  BY <1>1, <1>2 DEF About, all

LEMMA AboutTail ==
  ASSUME NEW msgs \in Seq(Message), msgs # <<>>, NEW mat, About(msgs, mat)
  PROVE  /\ About(Tail(msgs), mat)
         /\ Head(msgs).type # "role" => Head(msgs).match \in OnMat(mat)
<1> DEFINE t == Tail(msgs)
<1>1. /\ Len(msgs) \in Nat \ {0} /\ Len(t) = Len(msgs) - 1 /\ Head(msgs) = msgs[1]
      /\ \A i \in 1..Len(t) : t[i] = msgs[i + 1]
  BY HeadTailProperties, LenProperties, EmptySeq
<1>2. \A i \in 1..Len(t) : i + 1 \in 1..Len(msgs)
  BY <1>1
<1>3. 1 \in 1..Len(msgs)
  BY <1>1
<1> HIDE DEF t
<1> QED
  BY <1>1, <1>2, <1>3 DEF About, t

(* A step of one call. *)
LEMMA CallMoves ==
  ASSUME Typing, CallsRight, UNCHANGED setting, NEW h \in Handlers, NEW where, NEW c,
         pc' = [pc EXCEPT ![h] = where], call' = [call EXCEPT ![h] = c], RightCall(where, c)
  PROVE  CallsRight'
<1>1. \A g \in Handlers : IF g = h THEN pc'[g] = where /\ call'[g] = c
                          ELSE pc'[g] = pc[g] /\ call'[g] = call[g]
  BY DEF Typing, CallsOK
<1> QED
  BY <1>1 DEF CallsRight, RightCall

LEMMA CallReturns ==
  ASSUME Typing, CallsRight, UNCHANGED setting, NEW h \in Handlers, Return(h)
  PROVE  CallsRight'
<1>1. RightCall("idle", NoCall)
  BY DEF RightCall, Joining, Asking
<1> QED
  BY <1>1, CallMoves DEF Return, Goto

(* Messages for pages that are connected. *)
LEMMA SentToConnected ==
  ASSUME Typing, Connected, UNCHANGED <<rooms, online, socket, view, hold>>,
         NEW s, NEW room, NEW msgs,
         Emit(s, msgs) \/ Broadcast(room, msgs) \/ UNCHANGED inbox
  PROVE  Connected'
<1>1. \A p \in Pages : inbox'[p] # inbox[p] => online[p]
  BY RightMats DEF Emit, Broadcast, Connected, RoomsLive, Live
<1> QED
  BY <1>1 DEF Connected, OnlineOK, RoomsLive, InTheirRoom, Live, Socket

LEMMA SentOnMat ==
  ASSUME Typing, PagesOnMat, UNCHANGED view, NEW msgs \in Seq(Message),
         \A p \in Pages : \/ inbox'[p] = inbox[p] \/ inbox'[p] = <<>>
                          \/ inbox'[p] = inbox[p] \o msgs /\ About(msgs, MatOfPage[p])
  PROVE  PagesOnMat'
<1>1. \A p \in Pages : inbox[p] \in Seq(Message)
  BY DEF Typing, PagesOK
<1>2. ASSUME NEW p \in Pages PROVE About(inbox'[p], MatOfPage[p])
  <2>1. About(<<>>, MatOfPage[p]) /\ About(inbox[p], MatOfPage[p])
    BY DEF About, PagesOnMat
  <2>2. CASE inbox'[p] = inbox[p] \o msgs /\ About(msgs, MatOfPage[p])
    BY <1>1, <2>1, <2>2, AboutBoth
  <2> QED
    BY <2>1, <2>2
<1>3. \A p \in Pages : view'[p].match # None => view'[p].match \in OnMat(MatOfPage[p])
  BY DEF PagesOnMat
<1> QED
  BY <1>2, <1>3 DEF PagesOnMat

-----------------------------------------------------------------------------
LEMMA NextCurrentOnMat ==
  ASSUME current \in [Mats -> MaybeMatch], NEW m \in Matches, NEW mat \in Mats
  PROVE  /\ NextCurrent(m)[mat] \in OnMat(mat) \cup {None, current[mat]}
         /\ current[mat] = None => NextCurrent(m)[mat] = None
<1> DEFINE own == MatOf(m)
           ready == Ready(own, m)
           first == CHOOSE i \in ready : \A j \in ready : i <= j
           new == IF ready = {} THEN None ELSE Programme[own][first]
<1>1. NextCurrent(m) = IF current[own] # m THEN current ELSE [current EXCEPT ![own] = new]
  BY DEF NextCurrent
<1>2. own \in Mats => new \in OnMat(own) \cup {None}
  <2> SUFFICES ASSUME own \in Mats, ready # {} PROVE Programme[own][first] \in OnMat(own)
    OBVIOUS
  <2>1. first \in ready
    BY FirstReady
  <2> HIDE DEF first
  <2> QED
    BY <2>1 DEF Ready, OnMat
<1>3. None \notin Matches
  BY DrawTypes
<1> HIDE DEF own, new
<1> QED
  BY <1>1, <1>2, <1>3

LEMMA CompleteCurrent ==
  ASSUME Typing, CurrentOnMat, NEW m \in Matches, NEW winner, NEW how, NEW scores,
         Complete(m, winner, how, scores)
  PROVE  /\ CurrentOnMat'
         /\ \A mat \in Mats : current[mat] = None => current'[mat] = None
BY NextCurrentOnMat DEF Complete, CurrentOnMat, Typing

LEMMA NoHoldDownType == NoHoldDown \in Hold
BY DEF NoHoldDown, Hold, MaybeCompetitor

LEMMA LinkedInit == Init => Linked
<1> SUFFICES ASSUME Init PROVE Linked
  OBVIOUS
<1>1. Typing
  BY InitTyping
<1>2. NoHoldDown \in Hold
  BY NoHoldDownType
<1>3. Connected
  BY <1>2 DEF Init, Connected, OnlineOK, RoomsLive, InTheirRoom
<1>4. CurrentOnMat
  <2>1. \A mat \in Mats : Programme[mat] # <<>> =>
          Head(Programme[mat]) = Programme[mat][1] /\ 1 \in DOMAIN Programme[mat]
    BY GatewayTypes, HeadTailProperties, LenProperties, EmptySeq
  <2> QED
    BY <2>1 DEF Init, CurrentOnMat, OnMat
<1>5. PagesOnMat
  BY DEF Init, PagesOnMat, NoView, About
<1>6. TrackersOnMat /\ TablesAsk
  BY DEF Init, TrackersOnMat, TablesAsk
<1>7. CallsRight
  BY DEF Init, CallsRight, RightCall, Joining, Asking
<1> QED
  BY <1>3, <1>4, <1>5, <1>6, <1>7 DEF Linked

LEMMA LinkedJoins ==
  ASSUME Typing, Linked, NEW h \in Handlers, NEW p \in Pages, Join(h, p)
  PROVE  Linked'
<1> USE DEF Linked
<1> DEFINE s == <<p, socket[p] + 1>>
           c == [NoCall EXCEPT !.op = "join", !.socket = s]
           where == IF p \in setting.tables THEN "verify" ELSE "look"
<1>1. /\ UNCHANGED <<setting, current, osaekomi, controllers, view, hold>>
      /\ pc' = [pc EXCEPT ![h] = where] /\ call' = [call EXCEPT ![h] = c]
      /\ ~online[p]
      /\ online' = [online EXCEPT ![p] = TRUE] /\ socket' = [socket EXCEPT ![p] = @ + 1]
      /\ rooms' = rooms \cup {s}
  BY DEF Join, Goto, dbVars
<1>2. inbox[p] \in Seq(Message) /\ Role("viewer") \in Message /\ <<Role("viewer")>> \in Seq(Message)
  BY DEF Typing, PagesOK, Role, Message
<1>3. \A q \in Pages : IF q # p THEN inbox'[q] = inbox[q]
                        ELSE inbox'[q] \in {inbox[q], inbox[q] \o <<Role("viewer")>>}
  <2>1. inbox' = [inbox EXCEPT ![p] = IF p \in setting.tables THEN inbox[p]
                                      ELSE Append(inbox[p], Role("viewer"))]
    BY DEF Join
  <2>2. Append(inbox[p], Role("viewer")) = inbox[p] \o <<Role("viewer")>>
    BY <1>2, AppendIsConcat
  <2> QED
    BY <2>1, <2>2 DEF Typing, PagesOK
<1>4. Connected'
  <2> USE DEF Connected
  <2>1. socket \in [Pages -> Nat]
    BY DEF Typing, PagesOK
  <2>2. \A q \in Pages : q # p => online'[q] = online[q] /\ socket'[q] = socket[q]
    BY <1>1 DEF OnlineOK
  <2>3. online'[p] /\ socket'[p] = socket[p] + 1 /\ socket'[p] # 0
    BY <1>1, <2>1 DEF OnlineOK
  <2>4. RoomsLive'
    <3>1. s # None /\ s[1] = p /\ <<p, socket'[p]>> = s
      BY <2>1, <2>3, GatewayTypes
    <3>2. \A r \in rooms : r # None /\ online[r[1]] /\ <<r[1], socket[r[1]]>> = r
      BY DEF RoomsLive, Live, Socket, PageOf
    <3>3. \A r \in rooms : r[1] \in Pages \ {p}
      BY <1>1, <3>2 DEF Typing, ServerOK, Sockets
    <3> HIDE DEF s
    <3>4. \A r \in rooms' : r # None /\ online'[r[1]] /\ <<r[1], socket'[r[1]]>> = r
      BY <1>1, <2>2, <2>3, <3>1, <3>2, <3>3
    <3> QED
      BY <3>4 DEF RoomsLive, Live, Socket, PageOf
  <2>5. OnlineOK'
    BY <1>1 DEF OnlineOK
  <2>6. InTheirRoom'
    BY <1>1, <1>3, <2>2, <2>3 DEF InTheirRoom, Socket
  <2> QED
    BY <2>4, <2>5, <2>6
<1>5. PagesOnMat'
  <2>1. \A mat : About(<<Role("viewer")>>, mat)
    BY DEF About, Role
  <2> QED
    BY <1>1, <1>2, <1>3, <2>1, SentOnMat
<1>6. CallsRight'
  <2>1. s \in Sockets /\ PageOf(s) = p
    BY DEF Sockets, Typing, PagesOK, PageOf
  <2>2. c.socket = s
    BY DEF NoCall
  <2> HIDE DEF s, c
  <2>3. RightCall(where, c)
    BY <2>1, <2>2 DEF RightCall, Joining, Asking
  <2> HIDE DEF where
  <2> QED
    BY <1>1, <2>3, CallMoves
<1> QED
  BY <1>1, <1>4, <1>5, <1>6 DEF CurrentOnMat, TrackersOnMat, TablesAsk

LEMMA LinkedAnswers ==
  ASSUME Typing, Linked, NEW h \in Handlers, VerifyPin(h) \/ GetMatState(h) \/ Answer(h)
  PROVE  Linked'
<1> USE DEF Linked
<1> DEFINE s == call[h].socket
           mat == MatOfPage[PageOf(s)]
<1>1. /\ s \in Sockets /\ PageOf(s) \in Pages /\ mat \in Mats
      /\ call = [call EXCEPT ![h] = call[h]] /\ call[h] \in Call
  <2>1. s \in Sockets
    BY DEF VerifyPin, GetMatState, Answer, CallsRight, RightCall, Joining
  <2> QED
    BY <2>1, RightMats DEF Sockets, PageOf, Typing, CallsOK
<1>2. /\ UNCHANGED <<setting, current, osaekomi, rooms, online, socket, view, hold>>
      /\ CurrentOnMat' /\ TrackersOnMat'
  BY DEF VerifyPin, GetMatState, Answer, dbVars, serverVars, pageVars, CurrentOnMat, TrackersOnMat
<1>3. CASE VerifyPin(h)
  <2>1. /\ controllers' = controllers \cup {s} /\ Emit(s, <<Role("controller")>>)
        /\ pc' = [pc EXCEPT ![h] = "look"] /\ call' = [call EXCEPT ![h] = call[h]]
        /\ pc[h] = "verify"
    BY <1>1, <1>3 DEF VerifyPin, Goto
  <2>2. TablesAsk'
    BY <1>2, <2>1 DEF TablesAsk, CallsRight, RightCall
  <2>3. PagesOnMat'
    <3>1. <<Role("controller")>> \in Seq(Message)
      BY DEF Role, Message
    <3>2. \A p \in Pages : About(<<Role("controller")>>, MatOfPage[p])
      BY DEF About, Role
    <3> QED
      BY <1>2, <2>1, <3>1, <3>2, SentOnMat DEF Emit
  <2>4. CallsRight'
    <3>1. RightCall("look", call[h])
      BY <1>1 DEF RightCall, Joining, Asking
    <3> QED
      BY <1>2, <2>1, <3>1, CallMoves
  <2>5. Connected'
    BY <1>2, <2>1, SentToConnected
  <2> QED
    BY <1>2, <2>2, <2>3, <2>4, <2>5
<1>4. CASE GetMatState(h)
  <2> DEFINE m == current[mat]
             out == IF m = None THEN <<>> ELSE <<MatchState(m, row[m])>>
             c == [call[h] EXCEPT !.out = out]
  <2>1. /\ pc' = [pc EXCEPT ![h] = "answer"] /\ call' = [call EXCEPT ![h] = c]
        /\ UNCHANGED <<inbox, controllers>>
    BY <1>4 DEF GetMatState, Goto, serverVars
  <2>2. out \in States(mat)
    <3>1. m \in OnMat(mat) \cup {None}
      BY <1>1 DEF CurrentOnMat
    <3>2. m # None => row[m] \in Row
      BY <1>1, <3>1, OnMatType DEF Typing
    <3> QED
      BY <3>1, <3>2 DEF States
  <2>3. c.out = out /\ c.socket = s
    BY <1>1 DEF Call
  <2> HIDE DEF c, out
  <2>4. RightCall("answer", c)
    BY <1>1, <2>2, <2>3 DEF RightCall, Joining, Asking
  <2>5. CallsRight'
    BY <1>2, <2>1, <2>4, CallMoves
  <2>6. Connected' /\ PagesOnMat' /\ TablesAsk'
    BY <1>2, <2>1, SentToConnected DEF PagesOnMat, TablesAsk
  <2> QED
    BY <1>2, <2>5, <2>6
<1>5. CASE Answer(h)
  <2>1. Emit(s, call[h].out) /\ UNCHANGED controllers /\ Return(h)
    BY <1>5 DEF Answer, serverVars
  <2>2. call[h].out \in Seq(Message) /\ About(call[h].out, mat)
    BY <1>1, <1>5, StatesAbout DEF Answer, CallsRight, RightCall
  <2>3. PagesOnMat'
    BY <1>2, <2>1, <2>2, SentOnMat DEF Emit
  <2> QED
    BY <1>2, <2>1, <2>3, SentToConnected, CallReturns DEF TablesAsk
<1> QED
  BY <1>3, <1>4, <1>5

(* What a table asks for. *)
LEMMA PlainCall ==
  ASSUME Typing, NEW h \in Handlers, NEW p \in Pages, NEW side \in Sides, Plain(h, p, side)
  PROVE  /\ pc[h] = "idle" /\ online[p] /\ Socket(p) \in controllers /\ view[p].match \in Matches
         /\ UNCHANGED <<setting, dbVars, serverVars, socket, online, view, hold, inbox>>
         /\ pc' = [pc EXCEPT ![h] = "apply"]
         /\ \E c \in Call :
              /\ call' = [call EXCEPT ![h] = c]
              /\ c.number = 0 /\ c.socket = Socket(p) /\ c.match = view[p].match
              /\ c.op \in {"start", "golden", "end", "score"}
              /\ c.op = "end" => /\ c.competitor = view[p].row.competitor[side]
                                 /\ c.competitor # None
<1>1. view[p].match \in Matches
  BY DEF Plain, SendStartMatch, SendGoldenScore, SendEndMatch, SendScoreEvent,
         CanStart, CanScore, CanGoldenScore, Typing, PagesOK, View, MaybeMatch
<1>2. Socket(p) \in Sockets /\ view[p].row.competitor[side] \in MaybeCompetitor
  BY DEF Socket, Sockets, Typing, PagesOK, View, Row
<1>3. PICK c \in Call :
        /\ \E clk : Request(h, p, c, clk)
        /\ c.number = 0 /\ c.op \in {"start", "golden", "end", "score"}
        /\ c.op = "end" => /\ c.competitor = view[p].row.competitor[side]
                           /\ c.competitor # None
  <2>1. CASE SendStartMatch(h, p)
    <3> DEFINE c == [NoCall EXCEPT !.op = "start"]
    <3>1. c \in Call /\ c.number = 0 /\ c.op = "start"
      BY NoCallType DEF Call, NoCall
    <3>2. \E clk : Request(h, p, c, clk)
      BY <2>1 DEF SendStartMatch
    <3> HIDE DEF c
    <3> QED
      BY <3>1, <3>2
  <2>2. CASE SendGoldenScore(h, p)
    <3> DEFINE c == [NoCall EXCEPT !.op = "golden"]
    <3>1. c \in Call /\ c.number = 0 /\ c.op = "golden"
      BY NoCallType DEF Call, NoCall
    <3>2. \E clk : Request(h, p, c, clk)
      BY <2>2 DEF SendGoldenScore
    <3> HIDE DEF c
    <3> QED
      BY <3>1, <3>2
  <2>3. CASE SendEndMatch(h, p, side)
    <3> DEFINE who == view[p].row.competitor[side]
               c == [NoCall EXCEPT !.op = "end", !.competitor = who]
    <3>1. c \in Call /\ c.number = 0 /\ c.op = "end" /\ c.competitor = who
      BY <1>2, NoCallType DEF Call, NoCall
    <3>2. (\E clk : Request(h, p, c, clk)) /\ who # None
      BY <2>3 DEF SendEndMatch, Offered
    <3> HIDE DEF c
    <3> QED
      BY <3>1, <3>2
  <2>4. CASE SendScoreEvent(h, p, side, "WAZA_ARI")
    <3> DEFINE c == [NoCall EXCEPT !.op = "score", !.event = "WAZA_ARI",
                                   !.competitor = view[p].row.competitor[side]]
    <3>1. c \in Call /\ c.number = 0 /\ c.op = "score"
      BY <1>2, NoCallType DEF Call, NoCall
    <3>2. \E clk : Request(h, p, c, clk)
      BY <2>4 DEF SendScoreEvent
    <3> HIDE DEF c
    <3> QED
      BY <3>1, <3>2
  <2> QED
    BY <2>1, <2>2, <2>3, <2>4 DEF Plain
<1> DEFINE d == [c EXCEPT !.socket = Socket(p), !.match = view[p].match]
<1>4. /\ d \in Call /\ d.number = c.number /\ d.socket = Socket(p) /\ d.match = view[p].match
      /\ d.op = c.op /\ d.competitor = c.competitor
  BY <1>1, <1>2 DEF Call, MaybeMatch
<1>5. /\ pc[h] = "idle" /\ Press(p) /\ pc' = [pc EXCEPT ![h] = "apply"]
      /\ call' = [call EXCEPT ![h] = d]
      /\ UNCHANGED <<setting, dbVars, serverVars, socket, online, view, hold, inbox>>
  BY <1>3 DEF Request, Goto
<1> HIDE DEF d
<1> QED
  BY <1>1, <1>3, <1>4, <1>5 DEF Press, IsController

LEMMA LinkedPlain ==
  ASSUME Typing, Linked, NEW h \in Handlers, NEW p \in Pages, NEW side \in Sides, Plain(h, p, side)
  PROVE  Linked'
<1> USE DEF Linked
<1>1. PICK c \in Call :
        /\ call' = [call EXCEPT ![h] = c]
        /\ c.number = 0 /\ c.socket = Socket(p) /\ c.match = view[p].match
  BY PlainCall
<1>2. /\ Socket(p) \in controllers /\ view[p].match \in Matches
      /\ pc' = [pc EXCEPT ![h] = "apply"]
      /\ UNCHANGED <<setting, current, rooms, controllers, osaekomi, socket, online, view, hold, inbox>>
  BY PlainCall DEF dbVars, serverVars
<1>3. RightCall("apply", c)
  <2>1. PageOf(Socket(p)) = p /\ MatOfPage[p] \in Mats /\ Socket(p) \in Sockets
    BY RightMats DEF Socket, Sockets, Typing, PagesOK
  <2>2. p \in setting.tables
    BY <1>2, <2>1 DEF TablesAsk
  <2>3. view[p].match \in OnMat(MatOfPage[p])
    BY <1>2, DrawTypes DEF PagesOnMat
  <2> QED
    BY <1>1, <1>2, <2>1, <2>2, <2>3 DEF RightCall, Joining, Asking, Home
<1>4. CallsRight'
  BY <1>1, <1>2, <1>3, CallMoves
<1>5. Connected'
  BY <1>2, SentToConnected
<1> QED
  BY <1>2, <1>4, <1>5 DEF CurrentOnMat, PagesOnMat, TrackersOnMat, TablesAsk

LEMMA PairIsConcat ==
  ASSUME NEW T, NEW a \in T, NEW b \in T
  PROVE  <<a>> \o <<b>> = <<a, b>>
<1> DEFINE s == <<a>> \o <<b>>
<1>1. <<a>> \in Seq(T) /\ <<b>> \in Seq(T) /\ <<a, b>> \in Seq(T)
  OBVIOUS
<1>2. /\ Len(<<a>>) = 1 /\ Len(<<b>>) = 1 /\ <<a>>[1] = a /\ <<b>>[1] = b
      /\ Len(<<a, b>>) = 2 /\ <<a, b>>[1] = a /\ <<a, b>>[2] = b
  OBVIOUS
<1>3. s \in Seq(T) /\ Len(s) = 2 /\ s[1] = a /\ s[2] = b
  BY <1>1, <1>2, ConcatProperties
<1>4. \A i \in 1..2 : s[i] = <<a, b>>[i]
  BY <1>2, <1>3
<1> HIDE DEF s
<1>5. s = <<a, b>>
  BY <1>1, <1>2, <1>3, <1>4, SeqEqual
<1> QED
  BY <1>5 DEF s

(* A hold-down that is started. *)
LEMMA StartFacts ==
  ASSUME Typing, Linked, NEW p \in Pages, NEW side \in Sides, StartHoldDown(p, side)
  PROVE  \E m \in Matches, c \in MaybeCompetitor, n \in Nat \ {0}, t \in Tracker :
           /\ m = view[p].match /\ m \in OnMat(MatOfPage[p]) /\ online[p] /\ p \in setting.tables
           /\ t.competitor = c /\ t.number = n /\ t.room = MatOfPage[p]
           /\ osaekomi' = [osaekomi EXCEPT ![m] = t]
           /\ OsaekomiStarted(m, c, n) \in Message
           /\ Broadcast(MatOfPage[p], <<OsaekomiStarted(m, c, n)>>)
           /\ UNCHANGED <<setting, dbVars, rooms, controllers, pc, call, pageVars>>
<1> DEFINE m == view[p].match
           c == view[p].row.competitor[side]
           n == holdDowns[m] + 1
           t == [competitor |-> c, held |-> 0, room |-> MatOfPage[p], number |-> n]
<1>1. m \in Matches
  BY StartHoldDownTyping
<1>2. c \in MaybeCompetitor /\ n \in Nat \ {0}
  BY <1>1, GatewayTypes DEF Typing, PagesOK, View, Row, HistoryOK
<1>3. online[p] /\ Socket(p) \in controllers
  BY DEF StartHoldDown, Press, IsController
<1>4. p \in setting.tables /\ MatOfPage[p] \in Mats /\ PageOf(Socket(p)) = p
  BY <1>3, RightMats DEF Linked, TablesAsk
<1>5. ClientRoom(Socket(p)) = MatOfPage[p]
  BY <1>3, <1>4 DEF ClientRoom, Linked, Connected, InTheirRoom
<1>6. m \in OnMat(MatOfPage[p])
  BY <1>1, DrawTypes DEF Linked, PagesOnMat
<1>7. t \in Tracker /\ t.competitor = c /\ t.number = n /\ t.room = MatOfPage[p]
  BY <1>2, <1>4 DEF Tracker, MaybeMat, Ages
<1>8. osaekomi' = [osaekomi EXCEPT ![m] = t]
  BY <1>5 DEF StartHoldDown
<1>9. OsaekomiStarted(m, c, n) \in Message
  BY <1>1, <1>2 DEF OsaekomiStarted, Message
<1>10. Broadcast(MatOfPage[p], <<OsaekomiStarted(m, c, n)>>)
  BY <1>5 DEF StartHoldDown
<1>11. UNCHANGED <<setting, dbVars, rooms, controllers, pc, call, pageVars>>
  BY DEF StartHoldDown
<1> HIDE DEF m, c, n, t
<1>12. m = view[p].match
  BY DEF m
<1> QED
  BY <1>1, <1>2, <1>3, <1>4, <1>6, <1>7, <1>8, <1>9, <1>10, <1>11, <1>12

(* One that is over. *)
HoldDownEnds(h, m) ==
  /\ osaekomi[m] # NoTracker /\ osaekomi[m].room \in Mats /\ m \in OnMat(osaekomi[m].room)
  /\ osaekomi' = [osaekomi EXCEPT ![m] = NoTracker]
  /\ OsaekomiStopped(m) \in Message
  /\ Broadcast(osaekomi[m].room, <<OsaekomiStopped(m)>>)
  /\ UNCHANGED <<setting, dbVars, rooms, controllers, pageVars>>
  /\ pc[h] = "idle"
  /\ \/ UNCHANGED <<pc, call>>
     \/ \E c \in Call : /\ c.number # 0 /\ c.room = osaekomi[m].room /\ c.match = m
                        /\ c.op = "score"
                        /\ pc' = [pc EXCEPT ![h] = "apply"] /\ call' = [call EXCEPT ![h] = c]

LEMMA ResolveFacts ==
  ASSUME Typing, Linked, NumbersGiven, NEW h \in Handlers, NEW m \in Matches, NEW held,
         NEW s \in Sockets \cup {None}, NEW others, Resolve(h, m, held, s, others)
  PROVE  HoldDownEnds(h, m)
<1> DEFINE t == osaekomi[m]
           c == [NoCall EXCEPT !.op = "score", !.room = t.room, !.socket = s, !.match = m,
                      !.competitor = t.competitor, !.detached = s = None,
                      !.event = IF held = 2 THEN "IPPON" ELSE "WAZA_ARI",
                      !.held = t.held, !.number = t.number]
<1>1. t # NoTracker /\ t \in Tracker
  BY DEF Resolve, Typing, ServerOK
<1>2. t.room \in Mats /\ m \in OnMat(t.room) /\ t.number \in 1..holdDowns[m]
  BY <1>1 DEF Linked, TrackersOnMat, NumbersGiven
<1>3. t.number # 0
  BY <1>2
<1>4. /\ c \in Call /\ c.number = t.number /\ c.room = t.room /\ c.match = m /\ c.op = "score"
  BY <1>1, NoCallType DEF Call, Tracker, MaybeMatch
<1>5. held # 0 => pc' = [pc EXCEPT ![h] = "apply"] /\ call' = [call EXCEPT ![h] = c]
  BY DEF Resolve, Goto
<1>6. held = 0 => UNCHANGED <<pc, call>>
  BY DEF Resolve
<1>7. /\ osaekomi' = [osaekomi EXCEPT ![m] = NoTracker] /\ pc[h] = "idle"
      /\ Broadcast(t.room, <<OsaekomiStopped(m)>>)
      /\ UNCHANGED <<setting, dbVars, rooms, controllers, pageVars>>
  BY DEF Resolve, Forget
<1>8. OsaekomiStopped(m) \in Message
  BY DEF OsaekomiStopped, Message
<1>9. UNCHANGED <<pc, call>> \/ (pc' = [pc EXCEPT ![h] = "apply"] /\ call' = [call EXCEPT ![h] = c])
  BY <1>5, <1>6
<1> HIDE DEF c
<1> QED
  BY <1>1, <1>2, <1>3, <1>4, <1>7, <1>8, <1>9 DEF HoldDownEnds

(* A service works for a call. *)
LEMMA ServiceFacts ==
  ASSUME Typing, NEW h \in Handlers,
         \/ ApplyScoreEvent(h) \/ StartMatch(h) \/ EndMatch(h)
         \/ EnableGoldenScore(h) \/ GetMatchState(h)
  PROVE  /\ pc[h] \in {"apply", "reread"} /\ call[h].match \in Matches
         /\ UNCHANGED <<setting, serverVars, pageVars, inbox>>
         /\ \E c \in Call, where \in {"tell", "reread"} :
              /\ pc' = [pc EXCEPT ![h] = where] /\ call' = [call EXCEPT ![h] = c]
              /\ c.number = call[h].number /\ c.socket = call[h].socket
              /\ c.match = call[h].match /\ c.room = call[h].room
              /\ \/ where = "tell" /\ c.out \in Results(call[h].match)
                 \/ where = "reread" /\ c = call[h]
<1> DEFINE m == call[h].match
<1>1. /\ pc[h] \in {"apply", "reread"} /\ m \in Matches /\ row[m] \in Row /\ call[h] \in Call
      /\ UNCHANGED <<setting, serverVars, pageVars, inbox>>
  BY DEF ApplyScoreEvent, StartMatch, EndMatch, EnableGoldenScore, GetMatchState, Typing, CallsOK
<1>2. ASSUME NEW msgs \in Results(m), ThenTell(h, msgs)
      PROVE  \E c \in Call :
               /\ pc' = [pc EXCEPT ![h] = "tell"] /\ call' = [call EXCEPT ![h] = c]
               /\ c.number = call[h].number /\ c.socket = call[h].socket
               /\ c.match = call[h].match /\ c.room = call[h].room
               /\ c.out \in Results(m)
  <2> DEFINE c == [call[h] EXCEPT !.out = msgs]
  <2>1. pc' = [pc EXCEPT ![h] = "tell"] /\ call' = [call EXCEPT ![h] = c]
    BY <1>2 DEF ThenTell, Goto
  <2>2. msgs \in Seq(Message)
    BY <1>1, ResultsAbout
  <2>3. /\ c \in Call /\ c.out = msgs /\ c.number = call[h].number /\ c.socket = call[h].socket
        /\ c.match = call[h].match /\ c.room = call[h].room
    BY <1>1, <2>2 DEF Call
  <2> HIDE DEF c
  <2> QED
    BY <2>1, <2>3
<1>3. CASE ApplyScoreEvent(h)
  <2> DEFINE who == call[h]
             side == IF row[m].competitor[1] = who.competitor THEN 1 ELSE 2
             scores == Scored(row[m].scores, side, who.event)
             over == Terminates(scores[side], who.event)
             winner == row[m].competitor[WinningSide(side, scores[side], who.event)]
             winMethod == MethodOf(scores[side], who.event)
             told == <<ScoreUpdate(m, scores)>>
                       \o (IF over THEN <<MatchEnded(m, winner, winMethod)>> ELSE <<>>)
  <2>1. side \in Sides
    BY DEF Sides
  <2>2. scores \in Scores
    BY <1>1, <2>1, ScoredType DEF Scores, Row
  <2>3. winner \in MaybeCompetitor
    BY <1>1 DEF WinningSide, Opponent, Row, Sides
  <2>4. winMethod \in WinMethods
    BY DEF MethodOf, WinMethods
  <2>5. ThenTell(h, told)
    BY <1>3 DEF ApplyScoreEvent
  <2> HIDE DEF side, scores, over, winner, winMethod
  <2>6. told \in Results(m)
    <3>1. CASE over
      <4>1. told = <<ScoreUpdate(m, scores), MatchEnded(m, winner, winMethod)>>
        <5>1. ScoreUpdate(m, scores) \in Message /\ MatchEnded(m, winner, winMethod) \in Message
          BY <1>1, <2>2, <2>3, <2>4 DEF Message, ScoreUpdate, MatchEnded
        <5> QED
          BY <3>1, <5>1, PairIsConcat
      <4> HIDE DEF told
      <4> QED
        BY <2>2, <2>3, <2>4, <4>1 DEF Results
    <3>2. CASE ~over
      <4>1. told = <<ScoreUpdate(m, scores)>>
        BY <3>2
      <4> HIDE DEF told
      <4> QED
        BY <2>2, <4>1 DEF Results
    <3> QED
      BY <3>1, <3>2
  <2> HIDE DEF told
  <2> QED
    BY <1>1, <1>2, <2>5, <2>6
<1>4. CASE StartMatch(h)
  <2>1. row'[m] \in Row /\ ThenTell(h, <<MatchStarted(m), MatchState(m, row'[m])>>)
    BY <1>1, <1>4, ServiceTyping DEF StartMatch, Typing
  <2>2. <<MatchStarted(m), MatchState(m, row'[m])>> \in Results(m)
    BY <2>1 DEF Results
  <2> QED
    BY <1>1, <1>2, <2>1, <2>2
<1>5. CASE EndMatch(h)
  <2>1. call[h].competitor \in MaybeCompetitor /\ "DECISION" \in WinMethods
    BY <1>1 DEF Call, WinMethods
  <2>2. <<MatchEnded(m, call[h].competitor, "DECISION")>> \in Results(m)
    BY <2>1 DEF Results
  <2>3. ThenTell(h, <<MatchEnded(m, call[h].competitor, "DECISION")>>)
    BY <1>5 DEF EndMatch
  <2> QED
    BY <1>1, <1>2, <2>2, <2>3
<1>6. CASE EnableGoldenScore(h)
  <2>1. pc' = [pc EXCEPT ![h] = "reread"] /\ call' = [call EXCEPT ![h] = call[h]]
    BY <1>6 DEF EnableGoldenScore, Goto, Typing, CallsOK
  <2> QED
    BY <1>1, <2>1
<1>7. CASE GetMatchState(h)
  <2>1. <<MatchState(m, row[m])>> \in Results(m)
    BY <1>1 DEF Results
  <2>2. ThenTell(h, <<MatchState(m, row[m])>>)
    BY <1>7 DEF GetMatchState
  <2> QED
    BY <1>1, <1>2, <2>1, <2>2
<1> QED
  BY <1>3, <1>4, <1>5, <1>6, <1>7

(* The answer of a service goes to the mat it is about, or to nobody when  *)
(* the one who asked is gone.                                              *)
LEMMA TellFacts ==
  ASSUME Typing, Linked, NEW h \in Handlers, Tell(h)
  PROVE  /\ call[h].match \in Matches /\ call[h].match \in OnMat(Home(call[h]))
         /\ Home(call[h]) \in Mats
         /\ call[h].out \in Results(call[h].match)
         /\ \/ Broadcast(Home(call[h]), call[h].out)
            \/ call[h].number = 0 /\ call[h].socket \notin rooms /\ UNCHANGED inbox
         /\ Return(h) /\ UNCHANGED <<setting, dbVars, serverVars, pageVars>>
<1> DEFINE c == call[h]
<1>1. /\ c.match \in Matches /\ c.match \in OnMat(Home(c)) /\ Home(c) \in Mats
      /\ c.out \in Results(c.match)
  BY DEF Tell, Linked, CallsRight, RightCall, Asking
<1>2. Broadcast(IF c.number = 0 THEN ClientRoom(c.socket) ELSE c.room, c.out)
  BY DEF Tell
<1>3. CASE c.number = 0 /\ c.socket \notin rooms
  <2>1. \A p \in Pages : MatOfPage[p] # None
    BY GatewayTypes
  <2>2. Broadcast(None, c.out)
    BY <1>2, <1>3 DEF ClientRoom
  <2>3. inbox' = inbox
    BY <2>1, <2>2 DEF Broadcast, Typing, PagesOK
  <2> QED
    BY <1>1, <1>3, <2>3 DEF Tell
<1>4. CASE c.number # 0 \/ c.socket \in rooms
  <2>1. Broadcast(Home(c), c.out)
    BY <1>2, <1>4 DEF Home, ClientRoom
  <2> QED
    BY <1>1, <2>1 DEF Tell
<1> QED
  BY <1>3, <1>4

LEMMA LinkedStart ==
  ASSUME Typing, Linked, NEW p \in Pages, NEW side \in Sides, StartHoldDown(p, side)
  PROVE  Linked'
<1> USE DEF Linked
<1>1. PICK m \in Matches, c \in MaybeCompetitor, n \in Nat \ {0}, t \in Tracker :
        /\ m \in OnMat(MatOfPage[p]) /\ t.room = MatOfPage[p]
        /\ osaekomi' = [osaekomi EXCEPT ![m] = t]
        /\ OsaekomiStarted(m, c, n) \in Message
        /\ Broadcast(MatOfPage[p], <<OsaekomiStarted(m, c, n)>>)
        /\ UNCHANGED <<setting, dbVars, rooms, controllers, pc, call, pageVars>>
  BY StartFacts
<1>2. /\ UNCHANGED <<setting, current, rooms, controllers, pc, call, online, socket, view, hold>>
      /\ MatOfPage[p] \in Mats
  BY <1>1, RightMats DEF dbVars, pageVars
<1> DEFINE msgs == <<OsaekomiStarted(m, c, n)>>
<1>3. msgs \in Seq(Message) /\ About(msgs, MatOfPage[p])
  BY <1>1 DEF About, OsaekomiStarted
<1>4. Broadcast(MatOfPage[p], msgs)
  BY <1>1
<1> HIDE DEF msgs
<1>5. PagesOnMat'
  BY <1>2, <1>3, <1>4, SentOnMat DEF Broadcast, Typing, PagesOK
<1>6. Connected'
  BY <1>2, <1>4, SentToConnected
<1>7. TrackersOnMat'
  BY <1>1, <1>2 DEF TrackersOnMat, Typing, ServerOK
<1> QED
  BY <1>2, <1>5, <1>6, <1>7 DEF CurrentOnMat, TablesAsk, CallsRight, RightCall

LEMMA LinkedResolve ==
  ASSUME Typing, Linked, NumbersGiven, NEW h \in Handlers, NEW m \in Matches, NEW held,
         NEW s \in Sockets \cup {None}, NEW others, Resolve(h, m, held, s, others)
  PROVE  Linked'
<1> USE DEF Linked
<1> DEFINE room == osaekomi[m].room
           msgs == <<OsaekomiStopped(m)>>
<1>0. HoldDownEnds(h, m)
  BY ResolveFacts
<1>1. /\ room \in Mats /\ m \in OnMat(room)
      /\ osaekomi' = [osaekomi EXCEPT ![m] = NoTracker]
      /\ OsaekomiStopped(m) \in Message /\ Broadcast(room, msgs)
      /\ UNCHANGED <<setting, dbVars, rooms, controllers, pageVars>>
      /\ \/ UNCHANGED <<pc, call>>
         \/ \E c \in Call : /\ c.number # 0 /\ c.room = room /\ c.match = m
                            /\ pc' = [pc EXCEPT ![h] = "apply"] /\ call' = [call EXCEPT ![h] = c]
  BY <1>0 DEF HoldDownEnds
<1>2. UNCHANGED <<setting, current, rooms, controllers, online, socket, view, hold>>
  BY <1>1 DEF dbVars, pageVars
<1>3. msgs \in Seq(Message) /\ About(msgs, room)
  BY <1>1 DEF About, OsaekomiStopped
<1> HIDE DEF msgs
<1>4. PagesOnMat'
  BY <1>1, <1>2, <1>3, SentOnMat DEF Broadcast
<1>5. Connected'
  BY <1>1, <1>2, SentToConnected
<1>6. TrackersOnMat'
  BY <1>1 DEF TrackersOnMat, Typing, ServerOK
<1>7. CallsRight'
  <2>1. CASE UNCHANGED <<pc, call>>
    BY <1>2, <2>1 DEF CallsRight, RightCall
  <2>2. ASSUME NEW c \in Call, c.number # 0, c.room = room, c.match = m,
               pc' = [pc EXCEPT ![h] = "apply"], call' = [call EXCEPT ![h] = c]
        PROVE  CallsRight'
    <3>1. RightCall("apply", c)
      BY <1>1, <2>2 DEF RightCall, Joining, Asking, Home
    <3> QED
      BY <1>2, <2>2, <3>1, CallMoves
  <2> QED
    BY <1>1, <2>1, <2>2
<1> QED
  BY <1>2, <1>4, <1>5, <1>6, <1>7 DEF CurrentOnMat, TablesAsk

LEMMA LinkedServices ==
  ASSUME Typing, Linked, NEW h \in Handlers,
         \/ ApplyScoreEvent(h) \/ StartMatch(h) \/ EndMatch(h)
         \/ EnableGoldenScore(h) \/ GetMatchState(h)
  PROVE  Linked' /\ \A mat \in Mats : current[mat] = None => current'[mat] = None
<1> USE DEF Linked
<1> DEFINE m == call[h].match
<1>1. /\ pc[h] \in {"apply", "reread"} /\ m \in Matches
      /\ UNCHANGED <<setting, serverVars, pageVars, inbox>>
  BY ServiceFacts
<1>2. PICK c \in Call, where \in {"tell", "reread"} :
        /\ pc' = [pc EXCEPT ![h] = where] /\ call' = [call EXCEPT ![h] = c]
        /\ c.number = call[h].number /\ c.socket = call[h].socket
        /\ c.match = call[h].match /\ c.room = call[h].room
        /\ where = "tell" => c.out \in Results(m)
  BY ServiceFacts
<1>3. RightCall(where, c)
  BY <1>1, <1>2 DEF CallsRight, RightCall, Joining, Asking, Home
<1>4. CallsRight'
  BY <1>1, <1>2, <1>3, CallMoves
<1>5. CurrentOnMat' /\ \A mat \in Mats : current[mat] = None => current'[mat] = None
  <2>1. CASE UNCHANGED current
    BY <2>1 DEF CurrentOnMat
  <2>2. CASE \E winner, how, scores : Complete(m, winner, how, scores)
    BY <1>1, <2>2, CompleteCurrent
  <2> QED
    BY <2>1, <2>2 DEF ApplyScoreEvent, StartMatch, EndMatch, EnableGoldenScore, GetMatchState, dbVars
<1>6. UNCHANGED <<rooms, controllers, osaekomi, online, socket, view, hold, inbox>>
  BY <1>1 DEF serverVars, pageVars
<1>7. Connected'
  BY <1>6, SentToConnected
<1> QED
  BY <1>1, <1>4, <1>5, <1>6, <1>7 DEF PagesOnMat, TrackersOnMat, TablesAsk

LEMMA LinkedTells ==
  ASSUME Typing, Linked, NEW h \in Handlers, Tell(h)
  PROVE  Linked'
<1> USE DEF Linked
<1> DEFINE c == call[h]
<1>1. /\ c.match \in Matches /\ c.match \in OnMat(Home(c)) /\ Home(c) \in Mats
      /\ c.out \in Results(c.match) /\ Return(h)
      /\ Broadcast(Home(c), c.out) \/ UNCHANGED inbox
      /\ UNCHANGED <<setting, dbVars, serverVars, pageVars>>
  BY TellFacts
<1>2. UNCHANGED <<setting, current, rooms, controllers, osaekomi, online, socket, view, hold>>
  BY <1>1 DEF dbVars, serverVars, pageVars
<1>3. c.out \in Seq(Message) /\ About(c.out, Home(c))
  BY <1>1, ResultsAbout
<1>4. PagesOnMat'
  <2>1. \A p \in Pages : \/ inbox'[p] = inbox[p]
                         \/ inbox'[p] = inbox[p] \o c.out /\ About(c.out, MatOfPage[p])
    BY <1>1, <1>3 DEF Broadcast
  <2> QED
    BY <1>2, <1>3, <2>1, SentOnMat
<1>5. Connected'
  BY <1>1, <1>2, SentToConnected
<1>6. CallsRight'
  BY <1>1, <1>2, CallReturns
<1> QED
  BY <1>2, <1>4, <1>5, <1>6 DEF CurrentOnMat, TrackersOnMat, TablesAsk

LEMMA LinkedReturns ==
  ASSUME Typing, Linked, NEW h \in Handlers, Return(h),
         UNCHANGED <<setting, dbVars, serverVars, pageVars, inbox>>
  PROVE  Linked'
<1> USE DEF Linked
<1>1. UNCHANGED <<setting, current, rooms, controllers, osaekomi, online, socket, view, hold, inbox>>
  BY DEF dbVars, serverVars, pageVars
<1>2. Connected'
  BY <1>1, SentToConnected
<1>3. CallsRight'
  BY <1>1, CallReturns
<1> QED
  BY <1>1, <1>2, <1>3 DEF CurrentOnMat, PagesOnMat, TrackersOnMat, TablesAsk

LEMMA HoldDownAfterType ==
  ASSUME NEW x \in Hold, NEW msg \in Message
  PROVE  HoldDownAfter(x, msg) \in Hold
<1>1. NoHoldDown \in Hold
  BY NoHoldDownType
<1>2. msg.type = "osaekomi-started" => HoldDown(msg) \in Hold
  BY DEF Message, HoldDown, Hold
<1> QED
  BY <1>1, <1>2 DEF HoldDownAfter

(* A page takes a message. *)
LEMMA DeliverFacts ==
  ASSUME Typing, Linked, NEW p \in Pages, Deliver(p)
  PROVE  LET msg == Head(inbox[p])
         IN  /\ online[p] /\ inbox[p] # <<>> /\ msg \in Message
             /\ inbox' = [inbox EXCEPT ![p] = Tail(inbox[p])]
             /\ view' = [view EXCEPT ![p] = ViewAfter(view[p], msg)]
             /\ hold' = [hold EXCEPT ![p] = HoldDownAfter(hold[p], msg)]
             /\ ViewAfter(view[p], msg).match =
                  IF msg.type = "match-state" THEN msg.match ELSE view[p].match
             /\ msg.type # "role" => msg.match \in OnMat(MatOfPage[p])
             /\ UNCHANGED <<setting, dbVars, serverVars, pc, call, socket, online>>
<1> DEFINE msg == Head(inbox[p])
<1>1. inbox[p] \in Seq(Message) /\ view[p] \in View
  BY DEF Typing, PagesOK
<1>2. /\ online[p] /\ inbox[p] # <<>>
      /\ inbox' = [inbox EXCEPT ![p] = Tail(inbox[p])]
      /\ view' = [view EXCEPT ![p] = ViewAfter(view[p], msg)]
      /\ hold' = [hold EXCEPT ![p] = HoldDownAfter(hold[p], msg)]
      /\ UNCHANGED <<setting, dbVars, serverVars, pc, call, socket, online>>
  BY DEF Deliver
<1>3. msg \in Message
  BY <1>1, <1>2, HeadTailProperties
<1>4. msg.type # "role" => msg.match \in OnMat(MatOfPage[p])
  BY <1>1, <1>2, AboutTail DEF Linked, PagesOnMat
<1>5. ViewAfter(view[p], msg).match = IF msg.type = "match-state" THEN msg.match ELSE view[p].match
  <2> HIDE DEF msg
  <2>1. view[p].row \in Row
    BY <1>1 DEF View
  <2>2. CASE msg.type = "match-state"
    BY <2>2 DEF ViewAfter
  <2>3. CASE msg.type = "score-update"
    BY <1>1, <2>3 DEF ViewAfter, View
  <2>4. CASE msg.type = "match-started"
    BY <1>1, <2>4 DEF ViewAfter, View
  <2>5. CASE msg.type = "match-ended"
    BY <1>1, <2>5 DEF ViewAfter, View
  <2>6. CASE msg.type \notin {"match-state", "score-update", "match-started", "match-ended"}
    BY <2>6 DEF ViewAfter
  <2> QED
    BY <2>2, <2>3, <2>4, <2>5, <2>6
<1> QED
  BY <1>2, <1>3, <1>4, <1>5

LEMMA LinkedDelivers ==
  ASSUME Typing, Linked, NEW p \in Pages, Deliver(p)
  PROVE  Linked'
<1> USE DEF Linked
<1> DEFINE msg == Head(inbox[p])
<1>1. /\ online[p] /\ inbox[p] # <<>> /\ msg \in Message
      /\ inbox' = [inbox EXCEPT ![p] = Tail(inbox[p])]
      /\ view' = [view EXCEPT ![p] = ViewAfter(view[p], msg)]
      /\ hold' = [hold EXCEPT ![p] = HoldDownAfter(hold[p], msg)]
      /\ ViewAfter(view[p], msg).match = IF msg.type = "match-state" THEN msg.match ELSE view[p].match
      /\ msg.type # "role" => msg.match \in OnMat(MatOfPage[p])
      /\ UNCHANGED <<setting, dbVars, serverVars, pc, call, socket, online>>
  BY DeliverFacts
<1> HIDE DEF msg
<1>2. UNCHANGED <<setting, current, rooms, controllers, osaekomi, pc, call, socket, online>>
  BY <1>1 DEF dbVars, serverVars
<1>3. \A q \in Pages :
        IF q = p THEN /\ inbox'[q] = Tail(inbox[p]) /\ view'[q] = ViewAfter(view[p], msg)
        ELSE inbox'[q] = inbox[q] /\ view'[q] = view[q] /\ hold'[q] = hold[q]
  BY <1>1 DEF Typing, PagesOK, Connected, OnlineOK
<1>4. PagesOnMat'
  <2>1. About(Tail(inbox[p]), MatOfPage[p])
    BY <1>1, AboutTail DEF PagesOnMat, Typing, PagesOK
  <2>2. ASSUME NEW q \in Pages
        PROVE  /\ view'[q].match # None => view'[q].match \in OnMat(MatOfPage[q])
               /\ About(inbox'[q], MatOfPage[q])
    BY <1>1, <1>3, <2>1 DEF PagesOnMat
  <2> QED
    BY <2>2 DEF PagesOnMat
<1>5. Connected'
  <2>1. HoldDownAfter(hold[p], msg) \in Hold
    BY <1>1, HoldDownAfterType DEF Connected, OnlineOK
  <2>2. OnlineOK'
    BY <1>1, <1>2, <2>1 DEF Connected, OnlineOK
  <2>3. RoomsLive'
    BY <1>2 DEF Connected, RoomsLive, Live, Socket
  <2>4. InTheirRoom'
    BY <1>1, <1>2, <1>3 DEF Connected, InTheirRoom, Socket
  <2> QED
    BY <2>2, <2>3, <2>4 DEF Connected
<1> QED
  BY <1>2, <1>4, <1>5 DEF CurrentOnMat, TrackersOnMat, TablesAsk, CallsRight, RightCall

LEMMA LinkedLosses ==
  ASSUME Typing, Linked,
         (\E p \in Pages : Disconnect(p) \/ PauseOrResume(p)) \/ Tick \/ ServerStops
  PROVE  Linked'
<1> USE DEF Linked
<1>1. ASSUME NEW p \in Pages, Disconnect(p) PROVE Linked'
  <2>1. /\ online' = [online EXCEPT ![p] = FALSE] /\ inbox' = [inbox EXCEPT ![p] = <<>>]
        /\ rooms' = rooms \ {Socket(p)} /\ controllers' = controllers \ {Socket(p)}
        /\ UNCHANGED <<setting, current, osaekomi, pc, call, socket, view, hold>>
    BY <1>1 DEF Disconnect, dbVars
  <2>2. \A q \in Pages : IF q = p THEN ~online'[q] /\ inbox'[q] = <<>>
                         ELSE online'[q] = online[q] /\ inbox'[q] = inbox[q] /\ Socket(q) # Socket(p)
    BY <2>1 DEF Typing, PagesOK, Connected, OnlineOK, Socket
  <2>3. Connected'
    <3>1. OnlineOK'
      BY <2>1 DEF Connected, OnlineOK
    <3>2. RoomsLive'
      <4>1. \A s \in rooms : s # None /\ online[s[1]] /\ <<s[1], socket[s[1]]>> = s /\ s[1] \in Pages
        BY DEF Connected, RoomsLive, Live, Socket, PageOf, Typing, ServerOK, Sockets
      <4>2. \A s \in rooms' : s # None /\ online'[s[1]] /\ <<s[1], socket'[s[1]]>> = s
        BY <2>1, <2>2, <4>1 DEF Socket
      <4> QED
        BY <4>2 DEF RoomsLive, Live, Socket, PageOf
    <3>3. InTheirRoom'
      BY <2>1, <2>2 DEF Connected, InTheirRoom, Socket
    <3> QED
      BY <3>1, <3>2, <3>3 DEF Connected
  <2>4. PagesOnMat'
    <3>1. <<>> \in Seq(Message)
      BY EmptySeq
    <3>2. \A q \in Pages : inbox'[q] = inbox[q] \/ inbox'[q] = <<>>
      BY <2>2
    <3> QED
      BY <2>1, <3>1, <3>2, SentOnMat
  <2> QED
    BY <2>1, <2>3, <2>4 DEF CurrentOnMat, TrackersOnMat, TablesAsk, CallsRight, RightCall
<1>2. ASSUME NEW p \in Pages, PauseOrResume(p) PROVE Linked'
  <2>1. UNCHANGED <<setting, current, rooms, controllers, osaekomi, pc, call, socket, online, view,
                    hold, inbox>>
    BY <1>2 DEF PauseOrResume, dbVars, serverVars
  <2>2. Connected'
    BY <2>1, SentToConnected
  <2> QED
    BY <2>1, <2>2 DEF CurrentOnMat, PagesOnMat, TrackersOnMat, TablesAsk, CallsRight, RightCall
<1>3. ASSUME Tick PROVE Linked'
  <2>1. UNCHANGED <<setting, current, rooms, controllers, pc, call, socket, online, view, hold, inbox>>
    BY <1>3 DEF Tick, dbVars
  <2>2. \A m \in Matches : osaekomi'[m] # NoTracker =>
                             osaekomi[m] # NoTracker /\ osaekomi'[m].room = osaekomi[m].room
    <3>1. osaekomi \in [Matches -> Tracker]
      BY DEF Typing, ServerOK
    <3> QED
      BY <1>3, <3>1 DEF Tick, Tracker
  <2>3. TrackersOnMat'
    BY <2>2 DEF TrackersOnMat
  <2>4. Connected'
    BY <2>1, SentToConnected
  <2> QED
    BY <2>1, <2>3, <2>4 DEF CurrentOnMat, PagesOnMat, TablesAsk, CallsRight, RightCall
<1>4. ASSUME ServerStops PROVE Linked'
  <2>1. /\ UNCHANGED <<setting, current, socket, view, hold>>
        /\ rooms' = {} /\ controllers' = {} /\ osaekomi' = [m \in Matches |-> NoTracker]
        /\ pc' = [h \in Handlers |-> "idle"] /\ call' = [h \in Handlers |-> NoCall]
        /\ online' = [p \in Pages |-> FALSE] /\ inbox' = [p \in Pages |-> <<>>]
    BY <1>4 DEF ServerStops, dbVars
  <2>2. Connected'
    BY <2>1 DEF Connected, OnlineOK, RoomsLive, InTheirRoom
  <2>3. PagesOnMat'
    BY <2>1 DEF PagesOnMat, About
  <2>4. CallsRight'
    BY <2>1 DEF CallsRight, RightCall, Joining, Asking
  <2> QED
    BY <2>1, <2>2, <2>3, <2>4 DEF CurrentOnMat, TrackersOnMat, TablesAsk
<1> QED
  BY <1>1, <1>2, <1>3, <1>4

LEMMA ResolveSteps ==
  ASSUME Typing, NEW h \in Handlers,
         (\E p \in Pages : SendStopHoldDown(h, p)) \/ (\E m \in Matches : TimerFires(h, m))
  PROVE  \E m \in Matches, s \in Sockets \cup {None} :
           \E held, others : Resolve(h, m, held, s, others)
<1>1. ASSUME NEW p \in Pages, SendStopHoldDown(h, p)
      PROVE  \E m \in Matches, s \in Sockets \cup {None} :
               \E held, others : Resolve(h, m, held, s, others)
  <2>1. view[p].match \in Matches
    BY <1>1 DEF SendStopHoldDown, CanStopHoldDown, CanScore, Typing, PagesOK, View, MaybeMatch
  <2>2. Socket(p) \in Sockets
    BY DEF Socket, Sockets, Typing, PagesOK
  <2> QED
    BY <1>1, <2>1, <2>2 DEF SendStopHoldDown
<1>2. ASSUME NEW m \in Matches, TimerFires(h, m)
      PROVE  \E n \in Matches, s \in Sockets \cup {None} :
               \E held, others : Resolve(h, n, held, s, others)
  BY <1>2 DEF TimerFires
<1> QED
  BY <1>1, <1>2

LEMMA LinkedNext == Typing /\ NumbersGiven /\ Linked /\ [Next]_vars => Linked'
<1> SUFFICES ASSUME Typing, NumbersGiven, Linked, [Next]_vars PROVE Linked'
  OBVIOUS
<1>1. CASE Next
  <2>1. ASSUME NEW h \in Handlers, NEW p \in Pages,
               Join(h, p) \/ SendStopHoldDown(h, p) \/ \E side \in Sides : Plain(h, p, side)
        PROVE  Linked'
    BY <2>1, LinkedJoins, LinkedPlain, ResolveSteps, LinkedResolve
  <2>2. ASSUME NEW h \in Handlers, NEW m \in Matches, TimerFires(h, m)
        PROVE  Linked'
    BY <2>2, ResolveSteps, LinkedResolve
  <2>3. ASSUME NEW h \in Handlers, Proceed(h)
        PROVE  Linked'
    <3>1. Reject(h) \/ RejectDetached(h) =>
            ServerStops \/ (Return(h) /\ UNCHANGED <<setting, dbVars, serverVars, pageVars, inbox>>)
      BY DEF Reject, RejectDetached
    <3> QED
      BY <2>3, <3>1, LinkedAnswers, LinkedServices, LinkedTells, LinkedReturns, LinkedLosses
      DEF Proceed
  <2>4. ASSUME NEW p \in Pages, NEW side \in Sides, StartHoldDown(p, side)
        PROVE  Linked'
    BY <2>4, LinkedStart
  <2>5. ASSUME NEW p \in Pages, Deliver(p) \/ Disconnect(p) \/ PauseOrResume(p)
        PROVE  Linked'
    BY <2>5, LinkedDelivers, LinkedLosses
  <2> QED
    BY <1>1, <2>1, <2>2, <2>3, <2>4, <2>5, NextSteps, LinkedLosses
<1>2. CASE UNCHANGED vars
  <2>1. UNCHANGED <<setting, current, rooms, controllers, osaekomi, pc, call, socket, online, view,
                    hold, inbox>>
    BY <1>2 DEF vars, dbVars, serverVars, pageVars
  <2>2. Connected'
    BY <2>1, SentToConnected DEF Linked
  <2> QED
    BY <2>1, <2>2
    DEF Linked, CurrentOnMat, PagesOnMat, TrackersOnMat, TablesAsk, CallsRight, RightCall
<1> QED
  BY <1>1, <1>2

-----------------------------------------------------------------------------
(* The hold-downs the pages show.  A mat that has one table, and pages     *)
(* that have joined once, know of one match; what a page shows of a hold-  *)
(* down once it has all its messages is what the server counts for it.     *)

OneTableEach == \A p, q \in setting.tables : MatOfPage[p] = MatOfPage[q] => p = q

FirstJoins == \A p \in Pages : socket[p] <= 1

HoldStep == [x \in Hold \X Message |-> HoldDownAfter(x[1], x[2])]

(* The matches whose state is among the messages. *)
StatesOf(msgs, S) == \A i \in 1..Len(msgs) : msgs[i].type = "match-state" => msgs[i].match \in S

TablesKnow ==
  \A t \in setting.tables :
    \E m \in MaybeMatch : view[t].match \in {None, m} /\ StatesOf(inbox[t], {m})

TrackersShown ==
  \A t \in setting.tables, m \in Matches :
    osaekomi[m] # NoTracker /\ osaekomi[m].room = MatOfPage[t] => view[t].match = m

CallsShown ==
  \A t \in setting.tables, h \in Handlers :
    Asking(pc[h]) /\ Home(call[h]) = MatOfPage[t] => call[h].match = view[t].match

JoinsOf(h, t) == Joining(pc[h]) /\ PageOf(call[h].socket) = t

JoinsFirst ==
  \A t \in setting.tables, h \in Handlers :
    JoinsOf(h, t) =>
      /\ socket[t] # 0 /\ view[t].match = None /\ StatesOf(inbox[t], {})
      /\ \A g \in Handlers : JoinsOf(g, t) => g = h

ActiveShown ==
  \A m \in Matches : row[m].status = "ACTIVE" => \E t \in setting.tables : view[t].match = m

HoldIs(e, p) ==
  e.active => \E t \in setting.tables :
                /\ MatOfPage[t] = MatOfPage[p] /\ view[t].match \in Matches
                /\ osaekomi[view[t].match].competitor = e.competitor
                /\ osaekomi[view[t].match].number = e.number

HoldsTold ==
  \A p \in Pages :
    online[p] => \E e \in Hold : Leads(HoldStep, Hold, hold[p], inbox[p], e) /\ HoldIs(e, p)

HoldDownsTold ==
  TablesKnow /\ TrackersShown /\ CallsShown /\ JoinsFirst /\ ActiveShown /\ HoldsTold

PhantomIInv == OneTableEach /\ FirstJoins => HoldDownsTold

LEMMA StatesBoth ==
  ASSUME NEW first \in Seq(Message), NEW second \in Seq(Message), NEW S,
         StatesOf(first, S), StatesOf(second, S)
  PROVE  StatesOf(first \o second, S)
<1> DEFINE all == first \o second
<1>1. /\ Len(all) = Len(first) + Len(second) /\ Len(first) \in Nat /\ Len(second) \in Nat
      /\ \A i \in 1..Len(first) : all[i] = first[i]
      /\ \A i \in (Len(first) + 1)..(Len(first) + Len(second)) : all[i] = second[i - Len(first)]
  BY ConcatProperties, LenProperties
<1>2. \A i \in 1..Len(all) :
        i \in 1..Len(first) \/ (i - Len(first) \in 1..Len(second)
                                 /\ i \in (Len(first) + 1)..(Len(first) + Len(second)))
  BY <1>1
<1> HIDE DEF all
<1> QED
  BY <1>1, <1>2 DEF StatesOf, all

LEMMA StatesTail ==
  ASSUME NEW msgs \in Seq(Message), msgs # <<>>, NEW S, StatesOf(msgs, S)
  PROVE  /\ StatesOf(Tail(msgs), S)
         /\ Head(msgs).type = "match-state" => Head(msgs).match \in S
<1> DEFINE t == Tail(msgs)
<1>1. /\ Len(msgs) \in Nat \ {0} /\ Len(t) = Len(msgs) - 1 /\ Head(msgs) = msgs[1]
      /\ \A i \in 1..Len(t) : t[i] = msgs[i + 1]
  BY HeadTailProperties, LenProperties, EmptySeq
<1>2. \A i \in 1..Len(t) : i + 1 \in 1..Len(msgs)
  BY <1>1
<1>3. 1 \in 1..Len(msgs)
  BY <1>1
<1> HIDE DEF t
<1> QED
  BY <1>1, <1>2, <1>3 DEF StatesOf, t

LEMMA StatesOne ==
  ASSUME NEW msg, msg.type # "match-state", NEW S
  PROVE  StatesOf(<<msg>>, S)
BY DEF StatesOf

LEMMA ResultStates ==
  ASSUME NEW m \in Matches, NEW msgs \in Results(m)
  PROVE  StatesOf(msgs, {m})
BY DEF Results, StatesOf, ScoreUpdate, MatchEnded, MatchStarted, MatchState

LEMMA HoldSame ==
  ASSUME NEW x \in Hold, NEW msg \in Message,
         msg.type \notin {"osaekomi-started", "osaekomi-stopped", "match-ended"}
  PROVE  Leads(HoldStep, Hold, x, <<msg>>, x)
<1>1. HoldStep[<<x, msg>>] = x
  BY DEF HoldStep, HoldDownAfter
<1> QED
  BY <1>1, LeadsOne

LEMMA HoldOver ==
  ASSUME NEW x \in Hold, NEW msg \in Message, msg.type \in {"osaekomi-stopped", "match-ended"}
  PROVE  NoHoldDown \in Hold /\ Leads(HoldStep, Hold, x, <<msg>>, NoHoldDown)
<1>1. HoldStep[<<x, msg>>] = NoHoldDown
  BY DEF HoldStep, HoldDownAfter
<1>2. NoHoldDown \in Hold
  BY NoHoldDownType
<1>3. HoldStep[<<x, msg>>] \in Hold
  BY <1>1, <1>2
<1>4. Leads(HoldStep, Hold, x, <<msg>>, HoldStep[<<x, msg>>])
  BY <1>3, LeadsOne
<1> QED
  BY <1>1, <1>2, <1>4

LEMMA HoldAfterResults ==
  ASSUME NEW m \in Matches, NEW msgs \in Results(m), NEW x \in Hold
  PROVE  \E y \in {x, NoHoldDown} : Leads(HoldStep, Hold, x, msgs, y)
<1>1. ASSUME NEW scores \in Scores
      PROVE  /\ ScoreUpdate(m, scores) \in Message
             /\ Leads(HoldStep, Hold, x, <<ScoreUpdate(m, scores)>>, x)
  <2>1. ScoreUpdate(m, scores) \in Message /\ ScoreUpdate(m, scores).type = "score-update"
    BY DEF Message, ScoreUpdate
  <2> QED
    BY <2>1, HoldSame
<1>2. ASSUME NEW c \in MaybeCompetitor, NEW how \in WinMethods
      PROVE  /\ MatchEnded(m, c, how) \in Message
             /\ Leads(HoldStep, Hold, x, <<MatchEnded(m, c, how)>>, NoHoldDown)
  <2>1. MatchEnded(m, c, how) \in Message /\ MatchEnded(m, c, how).type = "match-ended"
    BY DEF Message, MatchEnded
  <2> QED
    BY <2>1, HoldOver
<1>3. ASSUME NEW r \in Row
      PROVE  /\ MatchState(m, r) \in Message /\ MatchStarted(m) \in Message
             /\ Leads(HoldStep, Hold, x, <<MatchState(m, r)>>, x)
             /\ Leads(HoldStep, Hold, x, <<MatchStarted(m)>>, x)
  <2>1. MatchState(m, r) \in Message /\ MatchState(m, r).type = "match-state"
    BY DEF Message, MatchState
  <2>2. MatchStarted(m) \in Message /\ MatchStarted(m).type = "match-started"
    BY DEF Message, MatchStarted
  <2> QED
    BY <2>1, <2>2, HoldSame
<1>4. ASSUME NEW a \in Message, NEW b \in Message, NEW y, msgs = <<a, b>>,
             Leads(HoldStep, Hold, x, <<a>>, x), Leads(HoldStep, Hold, x, <<b>>, y)
      PROVE  Leads(HoldStep, Hold, x, msgs, y)
  <2>1. <<a>> \in Seq(Message) /\ <<b>> \in Seq(Message)
    OBVIOUS
  <2>2. <<a>> \o <<b>> = <<a, b>>
    BY PairIsConcat
  <2>3. Leads(HoldStep, Hold, x, <<a>> \o <<b>>, y)
    BY <1>4, <2>1, LeadsOn
  <2> QED
    BY <1>4, <2>2, <2>3
<1>5. CASE \E scores \in Scores : msgs = <<ScoreUpdate(m, scores)>>
  BY <1>1, <1>5
<1>6. CASE \E c \in MaybeCompetitor, how \in WinMethods : msgs = <<MatchEnded(m, c, how)>>
  BY <1>2, <1>6
<1>7. CASE \E scores \in Scores, c \in MaybeCompetitor, how \in WinMethods :
             msgs = <<ScoreUpdate(m, scores), MatchEnded(m, c, how)>>
  BY <1>1, <1>2, <1>4, <1>7
<1>8. CASE \E r \in Row : msgs = <<MatchStarted(m), MatchState(m, r)>>
  BY <1>3, <1>4, <1>8
<1>9. CASE \E r \in Row : msgs = <<MatchState(m, r)>>
  BY <1>3, <1>9
<1> QED
  BY <1>5, <1>6, <1>7, <1>8, <1>9 DEF Results

(* Nothing happens to the hold-downs of the mat of a page. *)
Kept(p) ==
  \A t \in setting.tables :
    LET m == view[t].match
    IN  MatOfPage[t] = MatOfPage[p] /\ m \in Matches =>
          /\ view'[t].match = m
          /\ osaekomi'[m].competitor = osaekomi[m].competitor
          /\ osaekomi'[m].number = osaekomi[m].number

LEMMA HoldIsKept ==
  ASSUME UNCHANGED setting, NEW p \in Pages, NEW e \in Hold, HoldIs(e, p), Kept(p)
  PROVE  HoldIs(e, p)'
BY DEF HoldIs, Kept

(* Messages on their way to pages that showed nothing else before. *)
LEMMA HoldsGoOn ==
  ASSUME Typing, HoldsTold, UNCHANGED setting, NEW msgs \in Seq(Message),
         \A x \in Hold : \E y \in {x, NoHoldDown} : Leads(HoldStep, Hold, x, msgs, y),
         \A p \in Pages : online'[p] =>
           online[p] /\ hold'[p] = hold[p] /\ inbox'[p] \in {inbox[p], inbox[p] \o msgs},
         \A p \in Pages : Kept(p)
  PROVE  HoldsTold'
<1> SUFFICES ASSUME NEW p \in Pages, online'[p]
             PROVE  \E e \in Hold : Leads(HoldStep, Hold, hold'[p], inbox'[p], e) /\ HoldIs(e, p)'
  BY DEF HoldsTold
<1>1. PICK e \in Hold : Leads(HoldStep, Hold, hold[p], inbox[p], e) /\ HoldIs(e, p)
  BY DEF HoldsTold
<1>2. inbox[p] \in Seq(Message)
  BY DEF Typing, PagesOK
<1>3. CASE inbox'[p] = inbox[p]
  BY <1>1, <1>3, HoldIsKept
<1>4. CASE inbox'[p] = inbox[p] \o msgs
  <2>1. PICK y \in {e, NoHoldDown} : Leads(HoldStep, Hold, e, msgs, y)
    OBVIOUS
  <2>2. Leads(HoldStep, Hold, hold[p], inbox[p] \o msgs, y)
    BY <1>1, <1>2, <2>1, LeadsOn
  <2>5. y \in Hold
    BY <1>1, <2>1, NoHoldDownType
  <2>3. HoldIs(y, p)
    BY <1>1, <2>1 DEF HoldIs, NoHoldDown
  <2>6. HoldIs(y, p)' /\ hold'[p] = hold[p]
    BY <2>3, <2>5, HoldIsKept
  <2> QED
    BY <1>4, <2>2, <2>5, <2>6
<1> QED
  BY <1>3, <1>4

LEMMA JoinsGoOn ==
  ASSUME JoinsFirst, UNCHANGED <<setting, socket>>,
         \A t \in setting.tables : view'[t].match = view[t].match,
         \A h \in Handlers : Joining(pc'[h]) => Joining(pc[h]) /\ call'[h].socket = call[h].socket,
         \A t \in setting.tables, h \in Handlers :
           Joining(pc'[h]) /\ PageOf(call'[h].socket) = t /\ StatesOf(inbox[t], {})
             => StatesOf(inbox'[t], {})
  PROVE  JoinsFirst'
<1> SUFFICES ASSUME NEW t \in setting.tables, NEW h \in Handlers, JoinsOf(h, t)'
             PROVE  (/\ socket[t] # 0 /\ view[t].match = None /\ StatesOf(inbox[t], {})
                     /\ \A g \in Handlers : JoinsOf(g, t) => g = h)'
  BY DEF JoinsFirst
<1>1. \A g \in Handlers : JoinsOf(g, t)' => JoinsOf(g, t)
  BY DEF JoinsOf
<1>2. /\ socket[t] # 0 /\ view[t].match = None /\ StatesOf(inbox[t], {})
      /\ \A g \in Handlers : JoinsOf(g, t) => g = h
  BY <1>1 DEF JoinsFirst
<1>3. Joining(pc'[h]) /\ PageOf(call'[h].socket) = t
  BY DEF JoinsOf
<1>4. StatesOf(inbox'[t], {})
  BY <1>2, <1>3
<1> QED
  BY <1>1, <1>2, <1>4 DEF StatesOf

(* A step in which the tables show what they showed, and hear of no other  *)
(* match.                                                                  *)
LEMMA TablesGoOn ==
  ASSUME TablesKnow, UNCHANGED setting,
         \A t \in setting.tables : view'[t].match = view[t].match,
         \A t \in setting.tables : \A m \in MaybeMatch :
           view[t].match \in {None, m} /\ StatesOf(inbox[t], {m}) => StatesOf(inbox'[t], {m})
  PROVE  TablesKnow'
<1> SUFFICES ASSUME NEW t \in setting.tables
             PROVE  \E m \in MaybeMatch : view'[t].match \in {None, m} /\ StatesOf(inbox'[t], {m})
  BY DEF TablesKnow, StatesOf
<1> QED
  BY DEF TablesKnow

LEMMA NoStates == StatesOf(<<>>, {}) /\ \A S : StatesOf(<<>>, S)
BY DEF StatesOf

LEMMA ToldInit == Init => HoldDownsTold
<1> SUFFICES ASSUME Init PROVE HoldDownsTold
  OBVIOUS
<1>1. Typing
  BY InitTyping
<1>2. TablesKnow
  BY <1>1, RightMats, NoStates DEF Init, TablesKnow, NoView, MaybeMatch
<1>3. TrackersShown /\ CallsShown /\ JoinsFirst
  BY DEF Init, TrackersShown, CallsShown, JoinsFirst, JoinsOf, Asking, Joining
<1>4. ActiveShown
  BY DEF Init, ActiveShown, DrawnRow, ScheduledRow
<1>5. HoldsTold
  BY DEF Init, HoldsTold
<1> QED
  BY <1>2, <1>3, <1>4, <1>5 DEF HoldDownsTold

LEMMA ToldJoins ==
  ASSUME Typing, Linked, FirstJoins', HoldDownsTold,
         NEW h \in Handlers, NEW p \in Pages, Join(h, p)
  PROVE  HoldDownsTold'
<1> USE DEF HoldDownsTold
<1> DEFINE s == <<p, socket[p] + 1>>
           c == [NoCall EXCEPT !.op = "join", !.socket = s]
           where == IF p \in setting.tables THEN "verify" ELSE "look"
           msgs == IF p \in setting.tables THEN <<>> ELSE <<Role("viewer")>>
<1>1. /\ UNCHANGED <<setting, row, osaekomi, view, hold>>
      /\ pc' = [pc EXCEPT ![h] = where] /\ call' = [call EXCEPT ![h] = c]
      /\ ~online[p] /\ pc[h] = "idle"
      /\ online' = [online EXCEPT ![p] = TRUE] /\ socket' = [socket EXCEPT ![p] = @ + 1]
  BY DEF Join, Goto, dbVars
<1>2. socket[p] = 0
  <2>1. socket[p] \in Nat /\ socket'[p] = socket[p] + 1 /\ socket'[p] <= 1
    BY <1>1 DEF FirstJoins, Typing, PagesOK
  <2> QED
    BY <2>1
<1>3. view[p] = NoView /\ hold[p] = NoHoldDown /\ inbox[p] = <<>>
  BY <1>2 DEF Linked, Connected, InTheirRoom
<1>4. inbox' = [inbox EXCEPT ![p] = msgs]
  <2>1. Append(<<>>, Role("viewer")) = <<Role("viewer")>>
    OBVIOUS
  <2> QED
    BY <1>3, <2>1 DEF Join
<1>5. \A q \in Pages : IF q = p THEN inbox'[q] = msgs /\ socket'[q] = 1
                       ELSE inbox'[q] = inbox[q] /\ online'[q] = online[q] /\ socket'[q] = socket[q]
  BY <1>1, <1>2, <1>4 DEF Typing, PagesOK, Linked, Connected, OnlineOK
<1>6. \A g \in Handlers : IF g = h THEN /\ pc'[g] = where /\ call'[g].socket = s
                                        /\ ~Asking(pc'[g])
                          ELSE pc'[g] = pc[g] /\ call'[g] = call[g]
  BY <1>1 DEF Typing, CallsOK, NoCall, Asking
<1>7. PageOf(s) = p
  BY DEF PageOf
<1>8. p \in setting.tables => msgs = <<>>
  OBVIOUS
<1>9. TablesKnow'
  <2>1. \A t \in setting.tables : t = p \/ inbox'[t] = inbox[t]
    BY <1>5, RightMats
  <2>2. \A t \in setting.tables : \A m \in MaybeMatch :
          StatesOf(inbox[t], {m}) => StatesOf(inbox'[t], {m})
    BY <1>5, <1>8, <2>1, NoStates, RightMats
  <2> QED
    BY <1>1, <2>2, TablesGoOn
<1>10. TrackersShown' /\ ActiveShown'
  BY <1>1 DEF TrackersShown, ActiveShown
<1>11. CallsShown'
  BY <1>1, <1>6 DEF CallsShown, Home
<1>12. JoinsFirst'
  <2> SUFFICES ASSUME NEW t \in setting.tables, NEW g \in Handlers, JoinsOf(g, t)'
               PROVE  (/\ socket[t] # 0 /\ view[t].match = None /\ StatesOf(inbox[t], {})
                       /\ \A k \in Handlers : JoinsOf(k, t) => k = g)'
    BY <1>1 DEF JoinsFirst
  <2>1. t \in Pages
    BY RightMats
  <2>2. \A k \in Handlers : JoinsOf(k, t)' => JoinsOf(k, t) \/ (k = h /\ t = p)
    BY <1>6, <1>7 DEF JoinsOf
  <2>3. CASE t = p
    <3>1. \A k \in Handlers : ~JoinsOf(k, p)
      BY <1>2, <2>3 DEF JoinsFirst
    <3>2. \A k \in Handlers : JoinsOf(k, t)' => k = h
      BY <2>2, <2>3, <3>1
    <3>3. socket'[t] # 0 /\ view'[t].match = None /\ StatesOf(inbox'[t], {})
      BY <1>1, <1>3, <1>5, <1>8, <2>1, <2>3, NoStates DEF NoView
    <3> QED
      BY <3>2, <3>3 DEF StatesOf
  <2>4. CASE t # p
    <3>1. /\ socket[t] # 0 /\ view[t].match = None /\ StatesOf(inbox[t], {})
          /\ \A k \in Handlers : JoinsOf(k, t) => k = g
      BY <2>2, <2>4 DEF JoinsFirst
    <3>2. socket'[t] = socket[t] /\ view'[t] = view[t] /\ inbox'[t] = inbox[t]
      BY <1>1, <1>5, <2>1, <2>4
    <3> QED
      BY <2>2, <2>4, <3>1, <3>2 DEF StatesOf
  <2> QED
    BY <2>3, <2>4
<1>13. HoldsTold'
  <2> SUFFICES ASSUME NEW q \in Pages, online'[q]
               PROVE  \E e \in Hold : Leads(HoldStep, Hold, hold'[q], inbox'[q], e) /\ HoldIs(e, q)'
    BY DEF HoldsTold
  <2>1. CASE q = p
    <3>1. Role("viewer") \in Message /\ Role("viewer").type = "role"
      BY DEF Role, Message
    <3>2. Leads(HoldStep, Hold, NoHoldDown, msgs, NoHoldDown)
      BY <3>1, NoHoldDownType, LeadsStay, HoldSame
    <3>3. HoldIs(NoHoldDown, q)'
      BY DEF HoldIs, NoHoldDown
    <3> HIDE DEF msgs
    <3> QED
      BY <1>1, <1>3, <1>5, <2>1, <3>2, <3>3, NoHoldDownType
  <2>2. CASE q # p
    <3>1. PICK e \in Hold : Leads(HoldStep, Hold, hold[q], inbox[q], e) /\ HoldIs(e, q)
      BY <1>5, <2>2 DEF HoldsTold
    <3>2. HoldIs(e, q)'
      BY <1>1, <3>1 DEF HoldIs
    <3> QED
      BY <1>1, <1>5, <2>2, <3>1, <3>2
  <2> QED
    BY <2>1, <2>2
<1> QED
  BY <1>9, <1>10, <1>11, <1>12, <1>13

LEMMA StateAnswer ==
  ASSUME NEW mat \in Mats, NEW msgs \in States(mat)
  PROVE  /\ \E m \in MaybeMatch : StatesOf(msgs, {m})
         /\ \A x \in Hold : Leads(HoldStep, Hold, x, msgs, x)
<1>1. CASE msgs = <<>>
  BY <1>1, LeadsStay, NoStates DEF MaybeMatch
<1>2. ASSUME NEW m \in OnMat(mat), NEW r \in Row, msgs = <<MatchState(m, r)>>
      PROVE  /\ \E n \in MaybeMatch : StatesOf(msgs, {n})
             /\ \A x \in Hold : Leads(HoldStep, Hold, x, msgs, x)
  <2>1. MatchState(m, r) \in Message /\ MatchState(m, r).type = "match-state"
    BY OnMatType DEF Message, MatchState
  <2>2. m \in Matches
    BY OnMatType
  <2>3. StatesOf(msgs, {m}) /\ m \in MaybeMatch
    BY <1>2, <2>2 DEF StatesOf, MatchState, MaybeMatch
  <2>4. \A x \in Hold : Leads(HoldStep, Hold, x, msgs, x)
    BY <1>2, <2>1, HoldSame
  <2> QED
    BY <2>3, <2>4
<1>3. msgs = <<>> \/ \E m \in OnMat(mat), r \in Row : msgs = <<MatchState(m, r)>>
  BY DEF States
<1> QED
  BY <1>1, <1>2, <1>3

LEMMA ToldAnswers ==
  ASSUME Typing, Linked, HoldDownsTold,
         NEW h \in Handlers, VerifyPin(h) \/ GetMatState(h) \/ Answer(h)
  PROVE  HoldDownsTold'
<1> USE DEF HoldDownsTold
<1> DEFINE s == call[h].socket
           p == PageOf(s)
           mat == MatOfPage[p]
<1>1. s \in Sockets /\ p \in Pages /\ mat \in Mats /\ Joining(pc[h])
  <2>1. s \in Sockets /\ Joining(pc[h])
    BY DEF VerifyPin, GetMatState, Answer, Linked, CallsRight, RightCall, Joining
  <2> QED
    BY <2>1, RightMats DEF Sockets, PageOf
<1>2. UNCHANGED <<setting, row, osaekomi, online, socket, view, hold>>
  BY DEF VerifyPin, GetMatState, Answer, dbVars, serverVars, pageVars
<1>3. TrackersShown' /\ ActiveShown'
  BY <1>2 DEF TrackersShown, ActiveShown
<1>4. \A q \in Pages : Kept(q)
  BY <1>2 DEF Kept
<1>5. ASSUME NEW msgs \in Seq(Message), Emit(s, msgs),
             \A x \in Hold : Leads(HoldStep, Hold, x, msgs, x)
      PROVE  HoldsTold'
  <2>1. \A q \in Pages : inbox'[q] \in {inbox[q], inbox[q] \o msgs}
    BY <1>5 DEF Emit
  <2>2. \A q \in Pages : online'[q] = online[q] /\ hold'[q] = hold[q]
    BY <1>2
  <2> QED
    BY <1>2, <1>4, <1>5, <2>1, <2>2, HoldsGoOn
<1>6. CASE VerifyPin(h)
  <2> DEFINE msgs == <<Role("controller")>>
  <2>1. Emit(s, msgs) /\ pc' = [pc EXCEPT ![h] = "look"] /\ UNCHANGED call
    BY <1>6 DEF VerifyPin, Goto
  <2>2. /\ Role("controller") \in Message /\ Role("controller").type = "role"
        /\ msgs \in Seq(Message) /\ \A S : StatesOf(msgs, S)
    BY StatesOne DEF Role, Message
  <2>3. \A x \in Hold : Leads(HoldStep, Hold, x, msgs, x)
    BY <2>2, HoldSame
  <2>4. \A t \in Pages : \A S : StatesOf(inbox[t], S) => StatesOf(inbox'[t], S)
    <3> HIDE DEF msgs
    <3>1. \A q \in Pages : inbox[q] \in Seq(Message) /\ inbox'[q] \in {inbox[q], inbox[q] \o msgs}
      BY <2>1 DEF Emit, Typing, PagesOK
    <3> SUFFICES ASSUME NEW t \in Pages, NEW S, StatesOf(inbox[t], S)
                 PROVE  StatesOf(inbox'[t], S)
      OBVIOUS
    <3>2. StatesOf(msgs, S)
      BY <2>2
    <3>3. StatesOf(inbox[t] \o msgs, S)
      BY <2>2, <3>1, <3>2, StatesBoth
    <3>4. inbox'[t] = inbox[t] \/ inbox'[t] = inbox[t] \o msgs
      BY <3>1
    <3> QED
      BY <3>3, <3>4
  <2>5. TablesKnow'
    BY <1>2, <2>4, RightMats, TablesGoOn
  <2>6. \A g \in Handlers : /\ (Joining(pc'[g]) <=> Joining(pc[g])) /\ call'[g] = call[g]
                            /\ (Asking(pc'[g]) <=> Asking(pc[g]))
    <3>1. \A g \in Handlers : call'[g] = call[g] /\ (pc'[g] = pc[g]
                                \/ (pc[g] = "verify" /\ pc'[g] = "look"))
      BY <1>6, <2>1 DEF Typing, CallsOK, VerifyPin
    <3> QED
      BY <3>1 DEF Joining, Asking
  <2>7. JoinsFirst'
    BY <1>2, <2>4, <2>6, RightMats, JoinsGoOn
  <2>8. CallsShown'
    BY <1>2, <2>6 DEF CallsShown, Home
  <2>9. HoldsTold'
    BY <1>5, <2>1, <2>2, <2>3
  <2> QED
    BY <1>3, <2>5, <2>7, <2>8, <2>9
<1>7. CASE GetMatState(h)
  <2>1. UNCHANGED inbox /\ pc' = [pc EXCEPT ![h] = "answer"]
        /\ \E out : call' = [call EXCEPT ![h].out = out]
    BY <1>7 DEF GetMatState, Goto
  <2>2. \A g \in Handlers : /\ (Joining(pc'[g]) <=> Joining(pc[g])) /\ call'[g].socket = call[g].socket
                            /\ call'[g].match = call[g].match /\ call'[g].number = call[g].number
                            /\ call'[g].room = call[g].room
                            /\ (Asking(pc'[g]) <=> Asking(pc[g]))
    BY <1>7, <2>1 DEF Typing, CallsOK, Call, Joining, Asking, GetMatState
  <2>3. TablesKnow'
    BY <1>2, <2>1, TablesGoOn
  <2>4. JoinsFirst'
    BY <1>2, <2>1, <2>2, JoinsGoOn
  <2>5. CallsShown'
    BY <1>2, <2>2 DEF CallsShown, Home
  <2>6. HoldsTold'
    BY <1>2, <2>1 DEF HoldsTold, HoldIs
  <2> QED
    BY <1>3, <2>3, <2>4, <2>5, <2>6
<1>8. CASE Answer(h)
  <2> DEFINE msgs == call[h].out
  <2>1. Emit(s, msgs) /\ Return(h)
    BY <1>8 DEF Answer
  <2>2. msgs \in States(mat)
    BY <1>8 DEF Answer, Linked, CallsRight, RightCall
  <2>3. msgs \in Seq(Message) /\ \A x \in Hold : Leads(HoldStep, Hold, x, msgs, x)
    BY <1>1, <2>2, StatesAbout, StateAnswer
  <2>4. PICK m \in MaybeMatch : StatesOf(msgs, {m})
    BY <1>1, <2>2, StateAnswer
  <2>5. \A g \in Handlers : IF g = h THEN ~Joining(pc'[g]) /\ ~Asking(pc'[g])
                            ELSE pc'[g] = pc[g] /\ call'[g] = call[g]
    BY <2>1 DEF Return, Goto, Typing, CallsOK, Joining, Asking
  <2>6. \A q \in Pages : q = p \/ inbox'[q] = inbox[q]
    BY <2>1 DEF Emit
  <2>7. inbox[p] \in Seq(Message) /\ inbox'[p] \in {inbox[p], inbox[p] \o msgs}
    BY <1>1, <2>1 DEF Emit, Typing, PagesOK
  <2> HIDE DEF msgs
  <2>8. p \in setting.tables => /\ view[p].match = None /\ StatesOf(inbox[p], {})
                                /\ \A g \in Handlers : JoinsOf(g, p) => g = h
    BY <1>1 DEF JoinsFirst, JoinsOf
  <2>9. TablesKnow'
    <3> SUFFICES ASSUME NEW t \in setting.tables
                 PROVE  \E n \in MaybeMatch : view'[t].match \in {None, n} /\ StatesOf(inbox'[t], {n})
      BY <1>2 DEF TablesKnow, StatesOf
    <3>1. t \in Pages
      BY RightMats
    <3>2. CASE t = p
      <4>1. StatesOf(inbox[p], {m})
        BY <2>8, <3>2 DEF StatesOf
      <4>2. StatesOf(inbox[p] \o msgs, {m})
        BY <2>3, <2>4, <2>7, <4>1, StatesBoth
      <4> QED
        BY <1>2, <2>7, <2>8, <3>2, <4>1, <4>2
    <3>3. CASE t # p
      BY <1>2, <2>6, <3>1, <3>3 DEF TablesKnow
    <3> QED
      BY <3>2, <3>3
  <2>10. JoinsFirst'
    <3>1. \A t \in setting.tables, g \in Handlers :
            Joining(pc'[g]) /\ PageOf(call'[g].socket) = t => t # p
      BY <2>5, <2>8 DEF JoinsOf
    <3>2. \A t \in setting.tables, g \in Handlers :
            Joining(pc'[g]) /\ PageOf(call'[g].socket) = t => inbox'[t] = inbox[t]
      BY <2>6, <3>1, RightMats
    <3> QED
      BY <1>2, <2>5, <3>2, JoinsGoOn
  <2>11. CallsShown'
    BY <1>2, <2>5 DEF CallsShown, Home
  <2>12. HoldsTold'
    BY <1>5, <2>1, <2>3 DEF msgs
  <2> QED
    BY <1>3, <2>9, <2>10, <2>11, <2>12
<1> QED
  BY <1>6, <1>7, <1>8

LEMMA ToldPlain ==
  ASSUME Typing, Linked, OneTableEach, HoldDownsTold,
         NEW h \in Handlers, NEW p \in Pages, NEW side \in Sides, Plain(h, p, side)
  PROVE  HoldDownsTold'
<1> USE DEF HoldDownsTold
<1>1. PICK c \in Call :
        /\ call' = [call EXCEPT ![h] = c]
        /\ c.number = 0 /\ c.socket = Socket(p) /\ c.match = view[p].match
  BY PlainCall
<1>2. /\ Socket(p) \in controllers /\ pc[h] = "idle" /\ pc' = [pc EXCEPT ![h] = "apply"]
      /\ UNCHANGED <<setting, row, osaekomi, socket, online, view, hold, inbox>>
  BY PlainCall DEF dbVars, serverVars
<1>3. PageOf(Socket(p)) = p /\ p \in setting.tables
  BY <1>2, RightMats DEF Linked, TablesAsk
<1>4. \A g \in Handlers : IF g = h THEN pc'[g] = "apply" /\ call'[g] = c
                          ELSE pc'[g] = pc[g] /\ call'[g] = call[g]
  BY <1>1, <1>2 DEF Typing, CallsOK
<1>5. TablesKnow' /\ TrackersShown' /\ ActiveShown' /\ HoldsTold'
  BY <1>2, TablesGoOn DEF TrackersShown, ActiveShown, HoldsTold, HoldIs
<1>6. JoinsFirst'
  <2>1. \A g \in Handlers : Joining(pc'[g]) => Joining(pc[g]) /\ call'[g].socket = call[g].socket
    BY <1>4 DEF Joining
  <2> QED
    BY <1>2, <2>1, JoinsGoOn
<1>7. CallsShown'
  <2> SUFFICES ASSUME NEW t \in setting.tables, NEW g \in Handlers,
                      Asking(pc'[g]), Home(call'[g]) = MatOfPage[t]
               PROVE  call'[g].match = view[t].match
    BY <1>2 DEF CallsShown, Home
  <2>1. CASE g = h
    <3>1. Home(call'[g]) = MatOfPage[p]
      BY <1>1, <1>3, <1>4, <2>1 DEF Home
    <3>2. t = p
      BY <1>3, <3>1 DEF OneTableEach
    <3> QED
      BY <1>1, <1>4, <2>1, <3>2
  <2>2. CASE g # h
    BY <1>4, <2>2 DEF CallsShown
  <2> QED
    BY <2>1, <2>2
<1> QED
  BY <1>5, <1>6, <1>7

(* Messages that tell of no match. *)
LEMMA ToldOfHoldDowns ==
  ASSUME Typing, TablesKnow, JoinsFirst, UNCHANGED <<setting, socket, view>>,
         NEW msg \in Message, msg.type # "match-state", NEW room, Broadcast(room, <<msg>>),
         \A h \in Handlers : Joining(pc'[h]) => Joining(pc[h]) /\ call'[h] = call[h]
  PROVE  TablesKnow' /\ JoinsFirst'
<1>1. <<msg>> \in Seq(Message) /\ \A S : StatesOf(<<msg>>, S)
  BY StatesOne
<1>2. ASSUME NEW t \in Pages, NEW S, StatesOf(inbox[t], S) PROVE StatesOf(inbox'[t], S)
  <2>1. inbox[t] \in Seq(Message) /\ inbox'[t] \in {inbox[t], inbox[t] \o <<msg>>}
    BY DEF Broadcast, Typing, PagesOK
  <2>2. StatesOf(inbox[t] \o <<msg>>, S)
    <3>1. StatesOf(<<msg>>, S)
      BY <1>1
    <3> QED
      BY <1>1, <1>2, <2>1, <3>1, StatesBoth
  <2> QED
    BY <1>2, <2>1, <2>2
<1>3. TablesKnow'
  BY <1>2, RightMats, TablesGoOn
<1>4. JoinsFirst'
  BY <1>2, RightMats, JoinsGoOn
<1> QED
  BY <1>3, <1>4

LEMMA ToldStart ==
  ASSUME Typing, Linked, OneTableEach, HoldDownsTold,
         NEW p \in Pages, NEW side \in Sides, StartHoldDown(p, side)
  PROVE  HoldDownsTold'
<1> USE DEF HoldDownsTold
<1>1. PICK m \in Matches, c \in MaybeCompetitor, n \in Nat \ {0}, k \in Tracker :
        /\ m = view[p].match /\ m \in OnMat(MatOfPage[p]) /\ p \in setting.tables
        /\ k.competitor = c /\ k.number = n /\ k.room = MatOfPage[p]
        /\ osaekomi' = [osaekomi EXCEPT ![m] = k]
        /\ OsaekomiStarted(m, c, n) \in Message
        /\ Broadcast(MatOfPage[p], <<OsaekomiStarted(m, c, n)>>)
        /\ UNCHANGED <<setting, dbVars, rooms, controllers, pc, call, pageVars>>
  BY StartFacts
<1> DEFINE msg == OsaekomiStarted(m, c, n)
           started == HoldDown(msg)
<1>2. UNCHANGED <<setting, row, rooms, pc, call, online, socket, view, hold>>
  BY <1>1 DEF dbVars, pageVars
<1>3. msg \in Message /\ msg.type = "osaekomi-started"
  BY <1>1 DEF OsaekomiStarted
<1>4. started \in Hold /\ started.competitor = c /\ started.number = n
  BY <1>1 DEF HoldDown, Hold, OsaekomiStarted
<1>5. Broadcast(MatOfPage[p], <<msg>>)
  BY <1>1
<1>6. \A x \in Hold : Leads(HoldStep, Hold, x, <<msg>>, started)
  <2> SUFFICES ASSUME NEW x \in Hold PROVE Leads(HoldStep, Hold, x, <<msg>>, started)
    OBVIOUS
  <2>1. HoldStep[<<x, msg>>] = HoldDownAfter(x, msg)
    BY <1>3 DEF HoldStep
  <2>2. HoldDownAfter(x, msg) = started
    BY <1>3 DEF HoldDownAfter
  <2>3. HoldStep[<<x, msg>>] \in Hold
    BY <1>4, <2>1, <2>2
  <2>4. Leads(HoldStep, Hold, x, <<msg>>, HoldStep[<<x, msg>>])
    BY <2>3, LeadsOne
  <2> QED
    BY <2>1, <2>2, <2>4
<1> HIDE DEF started, msg
<1>7. \A a \in Matches : IF a = m THEN osaekomi'[a] = k ELSE osaekomi'[a] = osaekomi[a]
  BY <1>1 DEF Typing, ServerOK
<1>8. TablesKnow' /\ JoinsFirst'
  BY <1>2, <1>3, <1>5, ToldOfHoldDowns
<1>9. TrackersShown'
  <2> SUFFICES ASSUME NEW t \in setting.tables, NEW a \in Matches,
                      osaekomi'[a] # NoTracker, osaekomi'[a].room = MatOfPage[t]
               PROVE  view[t].match = a
    BY <1>2 DEF TrackersShown
  <2>1. CASE a = m
    BY <1>1, <1>7, <2>1 DEF OneTableEach
  <2>2. CASE a # m
    BY <1>7, <2>2 DEF TrackersShown
  <2> QED
    BY <2>1, <2>2
<1>10. CallsShown' /\ ActiveShown'
  BY <1>2 DEF CallsShown, Home, ActiveShown
<1>11. HoldsTold'
  <2> SUFFICES ASSUME NEW q \in Pages, online'[q]
               PROVE  \E e \in Hold : Leads(HoldStep, Hold, hold'[q], inbox'[q], e) /\ HoldIs(e, q)'
    BY DEF HoldsTold
  <2>1. PICK e \in Hold : Leads(HoldStep, Hold, hold[q], inbox[q], e) /\ HoldIs(e, q)
    BY <1>2 DEF HoldsTold
  <2>2. inbox[q] \in Seq(Message) /\ Socket(q) \in rooms
    BY <1>2 DEF Typing, PagesOK, Linked, Connected, InTheirRoom
  <2>3. CASE MatOfPage[q] = MatOfPage[p]
    <3>1. inbox'[q] = inbox[q] \o <<msg>>
      BY <1>5, <2>2, <2>3 DEF Broadcast
    <3>2. <<msg>> \in Seq(Message)
      BY <1>3
    <3>3. Leads(HoldStep, Hold, e, <<msg>>, started)
      BY <1>6
    <3>4. Leads(HoldStep, Hold, hold[q], inbox[q] \o <<msg>>, started)
      BY <2>1, <2>2, <3>2, <3>3, LeadsOn
    <3>5. HoldIs(started, q)'
      <4>1. osaekomi'[view[p].match].competitor = started.competitor
            /\ osaekomi'[view[p].match].number = started.number
        BY <1>1, <1>4, <1>7
      <4> QED
        BY <1>1, <1>2, <2>3, <4>1 DEF HoldIs
    <3> QED
      BY <1>2, <1>4, <3>1, <3>4, <3>5
  <2>4. CASE MatOfPage[q] # MatOfPage[p]
    <3>1. inbox'[q] = inbox[q]
      BY <1>5, <2>4 DEF Broadcast
    <3>2. Kept(q)
      <4> SUFFICES ASSUME NEW t \in setting.tables, MatOfPage[t] = MatOfPage[q],
                          view[t].match \in Matches
                   PROVE  view[t].match # m
        BY <1>2, <1>7 DEF Kept
      <4>1. view[t].match \in OnMat(MatOfPage[q]) /\ MatOfPage[q] \in Mats /\ MatOfPage[p] \in Mats
        BY RightMats, DrawTypes DEF Linked, PagesOnMat
      <4> QED
        BY <1>1, <2>4, <4>1, OneMat
    <3>3. HoldIs(e, q)'
      BY <1>2, <2>1, <3>2, HoldIsKept
    <3> QED
      BY <1>2, <2>1, <3>1, <3>3
  <2> QED
    BY <2>3, <2>4
<1> QED
  BY <1>8, <1>9, <1>10, <1>11

LEMMA ToldResolve ==
  ASSUME Typing, Linked, NumbersGiven, HoldDownsTold,
         NEW h \in Handlers, NEW m \in Matches, NEW held,
         NEW s \in Sockets \cup {None}, NEW others, Resolve(h, m, held, s, others)
  PROVE  HoldDownsTold'
<1> USE DEF HoldDownsTold
<1> DEFINE room == osaekomi[m].room
           msg == OsaekomiStopped(m)
<1>0. HoldDownEnds(h, m)
  BY ResolveFacts
<1>1. /\ osaekomi[m] # NoTracker /\ room \in Mats /\ m \in OnMat(room)
      /\ osaekomi' = [osaekomi EXCEPT ![m] = NoTracker]
      /\ msg \in Message /\ Broadcast(room, <<msg>>) /\ pc[h] = "idle"
      /\ UNCHANGED <<setting, dbVars, rooms, controllers, pageVars>>
      /\ \/ UNCHANGED <<pc, call>>
         \/ \E c \in Call : /\ c.number # 0 /\ c.room = room /\ c.match = m
                            /\ pc' = [pc EXCEPT ![h] = "apply"] /\ call' = [call EXCEPT ![h] = c]
  BY <1>0 DEF HoldDownEnds
<1>2. UNCHANGED <<setting, row, rooms, online, socket, view, hold>>
  BY <1>1 DEF dbVars, pageVars
<1>3. msg.type = "osaekomi-stopped"
  BY DEF OsaekomiStopped
<1> HIDE DEF msg
<1>4. \A g \in Handlers : \/ pc'[g] = pc[g] /\ call'[g] = call[g]
                          \/ /\ pc'[g] = "apply" /\ call'[g].number # 0
                             /\ call'[g].room = room /\ call'[g].match = m
  BY <1>1 DEF Typing, CallsOK
<1>5. \A a \in Matches : IF a = m THEN osaekomi'[a] = NoTracker ELSE osaekomi'[a] = osaekomi[a]
  BY <1>1 DEF Typing, ServerOK
<1>6. TablesKnow' /\ JoinsFirst'
  <2>1. \A g \in Handlers : Joining(pc'[g]) => Joining(pc[g]) /\ call'[g] = call[g]
    BY <1>4 DEF Joining
  <2> QED
    BY <1>1, <1>2, <1>3, <2>1, ToldOfHoldDowns
<1>7. TrackersShown' /\ ActiveShown'
  BY <1>2, <1>5 DEF TrackersShown, ActiveShown
<1>8. CallsShown'
  <2> SUFFICES ASSUME NEW t \in setting.tables, NEW g \in Handlers,
                      Asking(pc'[g]), Home(call'[g]) = MatOfPage[t]
               PROVE  call'[g].match = view[t].match
    BY <1>2 DEF CallsShown, Home
  <2>1. CASE pc'[g] = pc[g] /\ call'[g] = call[g]
    BY <2>1 DEF CallsShown
  <2>2. CASE call'[g].number # 0 /\ call'[g].room = room /\ call'[g].match = m
    BY <1>1, <2>2 DEF TrackersShown, Home
  <2> QED
    BY <1>4, <2>1, <2>2
<1>9. HoldsTold'
  <2> SUFFICES ASSUME NEW q \in Pages, online'[q]
               PROVE  \E e \in Hold : Leads(HoldStep, Hold, hold'[q], inbox'[q], e) /\ HoldIs(e, q)'
    BY DEF HoldsTold
  <2>1. PICK e \in Hold : Leads(HoldStep, Hold, hold[q], inbox[q], e) /\ HoldIs(e, q)
    BY <1>2 DEF HoldsTold
  <2>2. inbox[q] \in Seq(Message) /\ Socket(q) \in rooms
    BY <1>2 DEF Typing, PagesOK, Linked, Connected, InTheirRoom
  <2>3. CASE MatOfPage[q] = room
    <3>1. inbox'[q] = inbox[q] \o <<msg>>
      BY <1>1, <2>2, <2>3 DEF Broadcast
    <3>2. <<msg>> \in Seq(Message)
      BY <1>1
    <3>3. Leads(HoldStep, Hold, e, <<msg>>, NoHoldDown)
      BY <1>1, <1>3, HoldOver
    <3>4. Leads(HoldStep, Hold, hold[q], inbox[q] \o <<msg>>, NoHoldDown)
      BY <2>1, <2>2, <3>2, <3>3, LeadsOn
    <3>5. HoldIs(NoHoldDown, q)'
      BY DEF HoldIs, NoHoldDown
    <3> QED
      BY <1>2, <3>1, <3>4, <3>5, NoHoldDownType
  <2>4. CASE MatOfPage[q] # room
    <3>1. inbox'[q] = inbox[q]
      BY <1>1, <2>4 DEF Broadcast
    <3>2. Kept(q)
      <4> SUFFICES ASSUME NEW t \in setting.tables, MatOfPage[t] = MatOfPage[q],
                          view[t].match \in Matches
                   PROVE  view[t].match # m
        BY <1>2, <1>5 DEF Kept
      <4>1. view[t].match \in OnMat(MatOfPage[q]) /\ MatOfPage[q] \in Mats
        BY RightMats, DrawTypes DEF Linked, PagesOnMat
      <4> QED
        BY <1>1, <2>4, <4>1, OneMat
    <3>3. HoldIs(e, q)'
      BY <1>2, <2>1, <3>2, HoldIsKept
    <3> QED
      BY <1>2, <2>1, <3>1, <3>3
  <2> QED
    BY <2>3, <2>4
<1> QED
  BY <1>6, <1>7, <1>8, <1>9

LEMMA ToldServices ==
  ASSUME Typing, Linked, NumbersGiven, HoldDownsTold, NEW h \in Handlers,
         \/ ApplyScoreEvent(h) \/ StartMatch(h) \/ EndMatch(h)
         \/ EnableGoldenScore(h) \/ GetMatchState(h)
  PROVE  HoldDownsTold'
<1> USE DEF HoldDownsTold
<1> DEFINE m == call[h].match
<1>1. /\ pc[h] \in {"apply", "reread"} /\ m \in Matches
      /\ UNCHANGED <<setting, serverVars, pageVars, inbox>>
  BY ServiceFacts
<1>2. PICK c \in Call, where \in {"tell", "reread"} :
        /\ pc' = [pc EXCEPT ![h] = where] /\ call' = [call EXCEPT ![h] = c]
        /\ c.number = call[h].number /\ c.socket = call[h].socket
        /\ c.match = call[h].match /\ c.room = call[h].room
  BY ServiceFacts
<1>3. UNCHANGED <<setting, osaekomi, online, socket, view, hold, inbox>>
  BY <1>1 DEF serverVars, pageVars
<1>4. TablesKnow' /\ TrackersShown' /\ HoldsTold'
  BY <1>3, TablesGoOn DEF TrackersShown, HoldsTold, HoldIs
<1>5. \A g \in Handlers : IF g = h THEN pc'[g] = where /\ call'[g] = c
                          ELSE pc'[g] = pc[g] /\ call'[g] = call[g]
  BY <1>2 DEF Typing, CallsOK
<1>6. JoinsFirst'
  <2>1. \A g \in Handlers : Joining(pc'[g]) => Joining(pc[g]) /\ call'[g].socket = call[g].socket
    BY <1>5 DEF Joining
  <2> QED
    BY <1>3, <2>1, JoinsGoOn
<1>7. CallsShown'
  <2> SUFFICES ASSUME NEW t \in setting.tables, NEW g \in Handlers,
                      Asking(pc'[g]), Home(call'[g]) = MatOfPage[t]
               PROVE  call'[g].match = view[t].match
    BY <1>3 DEF CallsShown, Home
  <2>1. CASE g = h
    <3>1. Home(call[h]) = MatOfPage[t] /\ Asking(pc[h])
      BY <1>1, <1>2, <1>5, <2>1 DEF Home, Asking
    <3> QED
      BY <1>2, <1>5, <2>1, <3>1 DEF CallsShown
  <2>2. CASE g # h
    BY <1>5, <2>2 DEF CallsShown
  <2> QED
    BY <2>1, <2>2
<1>8. ActiveShown'
  <2> SUFFICES ASSUME NEW a \in Matches, row'[a].status = "ACTIVE"
               PROVE  \E t \in setting.tables : view[t].match = a
    BY <1>3 DEF ActiveShown
  <2>1. CASE row[a].status = "ACTIVE"
    BY <2>1 DEF ActiveShown
  <2>2. CASE StartMatch(h) /\ a = m
    <3>1. call[h].op = "start" /\ pc[h] = "apply"
      BY <2>2 DEF StartMatch
    <3>2. call[h].number = 0
      BY <3>1 DEF NumbersGiven
    <3>3. PageOf(call[h].socket) \in setting.tables
      BY <3>1, <3>2 DEF Linked, CallsRight, RightCall, Asking
    <3>4. Home(call[h]) = MatOfPage[PageOf(call[h].socket)]
      BY <3>2 DEF Home
    <3> QED
      BY <2>2, <3>1, <3>3, <3>4 DEF CallsShown, Asking
  <2>3. CASE row[a].status # "ACTIVE" /\ ~(StartMatch(h) /\ a = m)
    <3>1. row'[a].status # "ACTIVE"
      <4>1. ASSUME NEW winner, NEW how, NEW scores, Complete(m, winner, how, scores)
            PROVE  row'[a].status \in {"COMPLETED", row[a].status}
        BY <1>1, <4>1, CompleteStatus
      <4>2. CASE ApplyScoreEvent(h) \/ EndMatch(h)
        <5>1. \/ \E winner, how, scores : Complete(m, winner, how, scores)
              \/ \E scores : row' = [row EXCEPT ![m].scores = scores]
          BY <4>2 DEF ApplyScoreEvent, EndMatch
        <5>2. ASSUME NEW scores, row' = [row EXCEPT ![m].scores = scores]
              PROVE  row'[a].status = row[a].status
          BY <1>1, <5>2 DEF Typing, Row
        <5> QED
          BY <2>3, <4>1, <5>1, <5>2
      <4>3. CASE StartMatch(h)
        BY <2>3, <4>3, <1>1 DEF StartMatch, Rows!Start, Typing
      <4>4. CASE EnableGoldenScore(h) \/ GetMatchState(h)
        BY <2>3, <4>4, <1>1 DEF EnableGoldenScore, GetMatchState, Rows!GoldenScore, Typing, Row, dbVars
      <4> QED
        BY <4>2, <4>3, <4>4
    <3> QED
      BY <2>3, <3>1
  <2> QED
    BY <2>1, <2>2, <2>3
<1> QED
  BY <1>4, <1>6, <1>7, <1>8

LEMMA ToldReturns ==
  ASSUME Typing, HoldDownsTold, NEW h \in Handlers, Return(h),
         UNCHANGED <<setting, dbVars, serverVars, pageVars, inbox>>
  PROVE  HoldDownsTold'
<1> USE DEF HoldDownsTold
<1>1. UNCHANGED <<setting, row, osaekomi, socket, online, view, hold, inbox>>
  BY DEF dbVars, serverVars, pageVars
<1>2. \A g \in Handlers : IF g = h THEN pc'[g] = "idle" ELSE pc'[g] = pc[g] /\ call'[g] = call[g]
  BY DEF Return, Goto, Typing, CallsOK
<1>3. TablesKnow' /\ TrackersShown' /\ ActiveShown' /\ HoldsTold'
  BY <1>1, TablesGoOn DEF TrackersShown, ActiveShown, HoldsTold, HoldIs
<1>4. JoinsFirst'
  <2>1. \A g \in Handlers : Joining(pc'[g]) => Joining(pc[g]) /\ call'[g].socket = call[g].socket
    BY <1>2 DEF Joining
  <2> QED
    BY <1>1, <2>1, JoinsGoOn
<1>5. CallsShown'
  BY <1>1, <1>2 DEF CallsShown, Asking, Home
<1> QED
  BY <1>3, <1>4, <1>5

LEMMA ToldTells ==
  ASSUME Typing, Linked, HoldDownsTold, NEW h \in Handlers, Tell(h)
  PROVE  HoldDownsTold'
<1> USE DEF HoldDownsTold
<1> DEFINE c == call[h]
           m == c.match
           msgs == c.out
<1>1. /\ m \in Matches /\ m \in OnMat(Home(c)) /\ Home(c) \in Mats /\ msgs \in Results(m)
      /\ Broadcast(Home(c), msgs) \/ UNCHANGED inbox
      /\ Return(h) /\ UNCHANGED <<setting, dbVars, serverVars, pageVars>>
  BY TellFacts
<1>2. CASE UNCHANGED inbox
  BY <1>1, <1>2, ToldReturns
<1>3. CASE Broadcast(Home(c), msgs)
  <2>1. UNCHANGED <<setting, row, osaekomi, socket, online, view, hold>>
    BY <1>1 DEF dbVars, serverVars, pageVars
  <2>2. \A g \in Handlers : IF g = h THEN pc'[g] = "idle" ELSE pc'[g] = pc[g] /\ call'[g] = call[g]
    BY <1>1 DEF Return, Goto, Typing, CallsOK
  <2>3. msgs \in Seq(Message) /\ StatesOf(msgs, {m})
    BY <1>1, ResultsAbout, ResultStates
  <2>4. \A q \in Pages : /\ inbox[q] \in Seq(Message)
                         /\ inbox'[q] \in {inbox[q], inbox[q] \o msgs}
                         /\ MatOfPage[q] # Home(c) => inbox'[q] = inbox[q]
    BY <1>3 DEF Broadcast, Typing, PagesOK
  <2>5. \A t \in setting.tables : MatOfPage[t] = Home(c) => view[t].match = m
    BY DEF Tell, CallsShown, Asking
  <2>6. TablesKnow'
    <3> SUFFICES ASSUME NEW t \in setting.tables, NEW a \in MaybeMatch,
                        view[t].match \in {None, a}, StatesOf(inbox[t], {a})
                 PROVE  StatesOf(inbox'[t], {a})
      BY <2>1, TablesGoOn
    <3>1. t \in Pages
      BY RightMats
    <3>2. CASE MatOfPage[t] = Home(c)
      <4>1. a = m
        BY <1>1, <2>5, <3>2, DrawTypes
      <4>2. StatesOf(inbox[t] \o msgs, {a})
        BY <2>3, <2>4, <3>1, <4>1, StatesBoth
      <4> QED
        BY <2>4, <3>1, <4>2
    <3> QED
      BY <2>4, <3>1, <3>2
  <2>7. TrackersShown' /\ ActiveShown'
    BY <2>1 DEF TrackersShown, ActiveShown
  <2>8. CallsShown'
    BY <2>1, <2>2 DEF CallsShown, Asking, Home
  <2>9. JoinsFirst'
    <3>1. \A g \in Handlers : Joining(pc'[g]) => Joining(pc[g]) /\ call'[g] = call[g]
      BY <2>2 DEF Joining
    <3>2. \A t \in setting.tables, g \in Handlers :
            Joining(pc'[g]) /\ PageOf(call'[g].socket) = t => inbox'[t] = inbox[t]
      <4> SUFFICES ASSUME NEW t \in setting.tables, NEW g \in Handlers,
                          Joining(pc'[g]), PageOf(call'[g].socket) = t
                   PROVE  inbox'[t] = inbox[t]
        OBVIOUS
      <4>1. view[t].match = None
        BY <3>1 DEF JoinsFirst, JoinsOf
      <4> QED
        BY <1>1, <2>4, <2>5, <4>1, RightMats, DrawTypes
    <3> QED
      BY <2>1, <3>1, <3>2, JoinsGoOn
  <2>10. HoldsTold'
    <3>1. \A x \in Hold : \E y \in {x, NoHoldDown} : Leads(HoldStep, Hold, x, msgs, y)
      BY <1>1, HoldAfterResults
    <3>2. \A q \in Pages : Kept(q)
      BY <2>1 DEF Kept
    <3>3. \A q \in Pages : online'[q] = online[q] /\ hold'[q] = hold[q]
      BY <2>1
    <3> HIDE DEF msgs
    <3> QED
      BY <2>1, <2>3, <2>4, <3>1, <3>2, <3>3, HoldsGoOn
  <2> QED
    BY <2>6, <2>7, <2>8, <2>9, <2>10
<1> QED
  BY <1>1, <1>2, <1>3

LEMMA ToldDelivers ==
  ASSUME Typing, Linked, HoldDownsTold, NEW p \in Pages, Deliver(p)
  PROVE  HoldDownsTold'
<1> USE DEF HoldDownsTold
<1> DEFINE msg == Head(inbox[p])
<1>1. /\ online[p] /\ inbox[p] # <<>> /\ msg \in Message
      /\ inbox' = [inbox EXCEPT ![p] = Tail(inbox[p])]
      /\ view' = [view EXCEPT ![p] = ViewAfter(view[p], msg)]
      /\ hold' = [hold EXCEPT ![p] = HoldDownAfter(hold[p], msg)]
      /\ ViewAfter(view[p], msg).match = IF msg.type = "match-state" THEN msg.match ELSE view[p].match
      /\ UNCHANGED <<setting, dbVars, serverVars, pc, call, socket, online>>
  BY DeliverFacts
<1>2. UNCHANGED <<setting, row, osaekomi, pc, call, socket, online>>
  BY <1>1 DEF dbVars, serverVars
<1>3. inbox[p] \in Seq(Message) /\ view[p] \in View
  BY DEF Typing, PagesOK
<1>4. \A S : StatesOf(inbox[p], S) =>
               StatesOf(Tail(inbox[p]), S) /\ (msg.type = "match-state" => msg.match \in S)
  BY <1>1, <1>3, StatesTail
<1> HIDE DEF msg
<1>5. \A q \in Pages :
        IF q = p THEN /\ inbox'[q] = Tail(inbox[p]) /\ view'[q] = ViewAfter(view[p], msg)
                      /\ hold'[q] = HoldDownAfter(hold[p], msg)
        ELSE inbox'[q] = inbox[q] /\ view'[q] = view[q] /\ hold'[q] = hold[q]
  BY <1>1 DEF Typing, PagesOK, Linked, Connected, OnlineOK
<1>6. \A t \in setting.tables : t \in Pages
  BY RightMats
<1>7. \A t \in setting.tables :
        \E a \in MaybeMatch : /\ view[t].match \in {None, a} /\ view'[t].match \in {None, a}
                              /\ view[t].match # None => view'[t].match = view[t].match
                              /\ StatesOf(inbox'[t], {a})
  <2> SUFFICES ASSUME NEW t \in setting.tables, NEW a \in MaybeMatch,
                      view[t].match \in {None, a}, StatesOf(inbox[t], {a})
               PROVE  /\ view'[t].match \in {None, a} /\ StatesOf(inbox'[t], {a})
                      /\ view[t].match # None => view'[t].match = view[t].match
    BY DEF TablesKnow
  <2>1. CASE t = p
    <3>1. StatesOf(Tail(inbox[p]), {a}) /\ (msg.type = "match-state" => msg.match = a)
      BY <1>4, <2>1
    <3> QED
      BY <1>1, <1>5, <1>6, <2>1, <3>1
  <2> QED
    BY <1>5, <1>6, <2>1
<1>8. TablesKnow'
  BY <1>2, <1>7 DEF TablesKnow, StatesOf
<1>9. \A t \in setting.tables : view[t].match # None => view'[t].match = view[t].match
  BY <1>7
<1>10. TrackersShown' /\ ActiveShown' /\ CallsShown'
  <2>1. \A h \in Handlers : Asking(pc[h]) => call[h].match # None
    BY DrawTypes DEF Linked, CallsRight, RightCall
  <2>2. None \notin Matches
    BY DrawTypes
  <2>3. TrackersShown'
    BY <1>2, <1>9, <2>2 DEF TrackersShown
  <2>4. ActiveShown'
    BY <1>2, <1>9, <2>2 DEF ActiveShown
  <2>5. CallsShown'
    BY <1>2, <1>9, <2>1 DEF CallsShown, Home
  <2> QED
    BY <2>3, <2>4, <2>5
<1>11. JoinsFirst'
  <2> SUFFICES ASSUME NEW t \in setting.tables, NEW h \in Handlers, JoinsOf(h, t)
               PROVE  (/\ socket[t] # 0 /\ view[t].match = None /\ StatesOf(inbox[t], {})
                       /\ \A g \in Handlers : JoinsOf(g, t) => g = h)'
    BY <1>2 DEF JoinsFirst, JoinsOf
  <2>1. /\ socket[t] # 0 /\ view[t].match = None /\ StatesOf(inbox[t], {})
        /\ \A g \in Handlers : JoinsOf(g, t) => g = h
    BY DEF JoinsFirst
  <2>2. view'[t].match = None /\ StatesOf(inbox'[t], {})
    <3>1. CASE t = p
      <4>1. StatesOf(Tail(inbox[p]), {}) /\ msg.type # "match-state"
        BY <1>4, <2>1, <3>1
      <4> QED
        BY <1>1, <1>5, <1>6, <2>1, <3>1, <4>1
    <3> QED
      BY <1>5, <1>6, <2>1, <3>1
  <2> QED
    BY <1>2, <2>1, <2>2 DEF JoinsOf, StatesOf
<1>12. HoldsTold'
  <2> SUFFICES ASSUME NEW q \in Pages, online'[q]
               PROVE  \E e \in Hold : Leads(HoldStep, Hold, hold'[q], inbox'[q], e) /\ HoldIs(e, q)'
    BY DEF HoldsTold
  <2>1. PICK e \in Hold : Leads(HoldStep, Hold, hold[q], inbox[q], e) /\ HoldIs(e, q)
    BY <1>2 DEF HoldsTold
  <2>2. HoldIs(e, q)'
    <3>1. None \notin Matches
      BY DrawTypes
    <3>2. Kept(q)
      BY <1>2, <1>9, <3>1 DEF Kept
    <3> QED
      BY <1>2, <2>1, <3>2, HoldIsKept
  <2>3. CASE q = p
    <3>1. hold[p] \in Hold
      BY DEF Linked, Connected, OnlineOK
    <3>2. HoldStep[<<hold[p], msg>>] = hold'[p]
      BY <1>1, <1>5, <3>1 DEF HoldStep
    <3>3. Leads(HoldStep, Hold, HoldStep[<<hold[p], Head(inbox[p])>>], Tail(inbox[p]), e)
      BY <1>1, <1>3, <2>1, <2>3, LeadsTail
    <3> QED
      BY <1>5, <2>2, <2>3, <3>2, <3>3 DEF msg
  <2>4. CASE q # p
    BY <1>5, <2>1, <2>2, <2>4
  <2> QED
    BY <2>3, <2>4
<1> QED
  BY <1>8, <1>10, <1>11, <1>12

LEMMA ToldLosses ==
  ASSUME Typing, Linked, HoldDownsTold,
         (\E p \in Pages : Disconnect(p) \/ PauseOrResume(p)) \/ Tick \/ ServerStops
  PROVE  HoldDownsTold'
<1> USE DEF HoldDownsTold
<1>1. ASSUME NEW p \in Pages, Disconnect(p) PROVE HoldDownsTold'
  <2>1. /\ online' = [online EXCEPT ![p] = FALSE] /\ inbox' = [inbox EXCEPT ![p] = <<>>]
        /\ UNCHANGED <<setting, row, osaekomi, pc, call, socket, view, hold>>
    BY <1>1 DEF Disconnect, dbVars
  <2>2. \A q \in Pages : IF q = p THEN ~online'[q] /\ inbox'[q] = <<>>
                         ELSE online'[q] = online[q] /\ inbox'[q] = inbox[q]
    BY <2>1 DEF Typing, PagesOK, Linked, Connected, OnlineOK
  <2>3. \A t \in setting.tables : inbox'[t] = inbox[t] \/ inbox'[t] = <<>>
    BY <2>2, RightMats
  <2>4. TablesKnow'
    BY <2>1, <2>3, NoStates, TablesGoOn
  <2>5. JoinsFirst'
    BY <2>1, <2>3, NoStates, JoinsGoOn
  <2>6. TrackersShown' /\ ActiveShown' /\ CallsShown'
    BY <2>1 DEF TrackersShown, ActiveShown, CallsShown, Home
  <2>7. HoldsTold'
    BY <2>1, <2>2 DEF HoldsTold, HoldIs
  <2> QED
    BY <2>4, <2>5, <2>6, <2>7
<1>2. ASSUME NEW p \in Pages, PauseOrResume(p) PROVE HoldDownsTold'
  <2>1. UNCHANGED <<setting, row, osaekomi, pc, call, socket, online, view, hold, inbox>>
    BY <1>2 DEF PauseOrResume, dbVars, serverVars
  <2>2. TablesKnow' /\ JoinsFirst'
    BY <2>1, TablesGoOn, JoinsGoOn
  <2> QED
    BY <2>1, <2>2 DEF TrackersShown, ActiveShown, CallsShown, Home, HoldsTold, HoldIs
<1>3. ASSUME Tick PROVE HoldDownsTold'
  <2>1. UNCHANGED <<setting, row, pc, call, socket, online, view, hold, inbox>>
    BY <1>3 DEF Tick, dbVars
  <2>2. \A m \in Matches :
          /\ osaekomi'[m] # NoTracker => osaekomi[m] # NoTracker
          /\ osaekomi'[m].room = osaekomi[m].room
          /\ osaekomi'[m].competitor = osaekomi[m].competitor
          /\ osaekomi'[m].number = osaekomi[m].number
    <3>1. osaekomi \in [Matches -> Tracker]
      BY DEF Typing, ServerOK
    <3> QED
      BY <1>3, <3>1 DEF Tick, Tracker
  <2>3. TablesKnow' /\ JoinsFirst'
    BY <2>1, TablesGoOn, JoinsGoOn
  <2>4. TrackersShown'
    BY <2>1, <2>2 DEF TrackersShown
  <2>5. HoldsTold'
    BY <2>1, <2>2 DEF HoldsTold, HoldIs
  <2> QED
    BY <2>1, <2>3, <2>4, <2>5 DEF ActiveShown, CallsShown, Home
<1>4. ASSUME ServerStops PROVE HoldDownsTold'
  <2>1. /\ UNCHANGED <<setting, row, socket, view, hold>>
        /\ osaekomi' = [m \in Matches |-> NoTracker]
        /\ pc' = [h \in Handlers |-> "idle"]
        /\ online' = [p \in Pages |-> FALSE] /\ inbox' = [p \in Pages |-> <<>>]
    BY <1>4 DEF ServerStops, dbVars
  <2>2. \A t \in setting.tables : inbox'[t] = <<>>
    BY <2>1, RightMats
  <2>3. TablesKnow'
    BY <2>1, <2>2, NoStates, TablesGoOn
  <2>4. TrackersShown' /\ ActiveShown' /\ HoldsTold'
    BY <2>1 DEF TrackersShown, ActiveShown, HoldsTold
  <2>5. CallsShown' /\ JoinsFirst'
    BY <2>1 DEF CallsShown, JoinsFirst, JoinsOf, Asking, Joining
  <2> QED
    BY <2>3, <2>4, <2>5
<1> QED
  BY <1>1, <1>2, <1>3, <1>4

LEMMA ToldNext ==
  ASSUME Typing, Linked, NumbersGiven, OneTableEach, FirstJoins', HoldDownsTold, [Next]_vars
  PROVE  HoldDownsTold'
<1>1. CASE Next
  <2>1. ASSUME NEW h \in Handlers, NEW p \in Pages,
               Join(h, p) \/ SendStopHoldDown(h, p) \/ \E side \in Sides : Plain(h, p, side)
        PROVE  HoldDownsTold'
    BY <2>1, ToldJoins, ToldPlain, ResolveSteps, ToldResolve
  <2>2. ASSUME NEW h \in Handlers, NEW m \in Matches, TimerFires(h, m)
        PROVE  HoldDownsTold'
    BY <2>2, ResolveSteps, ToldResolve
  <2>3. ASSUME NEW h \in Handlers, Proceed(h)
        PROVE  HoldDownsTold'
    <3>1. Reject(h) \/ RejectDetached(h) =>
            ServerStops \/ (Return(h) /\ UNCHANGED <<setting, dbVars, serverVars, pageVars, inbox>>)
      BY DEF Reject, RejectDetached
    <3> QED
      BY <2>3, <3>1, ToldAnswers, ToldServices, ToldTells, ToldReturns, ToldLosses
      DEF Proceed
  <2>4. ASSUME NEW p \in Pages, NEW side \in Sides, StartHoldDown(p, side)
        PROVE  HoldDownsTold'
    BY <2>4, ToldStart
  <2>5. ASSUME NEW p \in Pages, Deliver(p) \/ Disconnect(p) \/ PauseOrResume(p)
        PROVE  HoldDownsTold'
    BY <2>5, ToldDelivers, ToldLosses
  <2> QED
    BY <1>1, <2>1, <2>2, <2>3, <2>4, <2>5, NextSteps, ToldLosses
<1>2. CASE UNCHANGED vars
  <2>1. UNCHANGED <<setting, row, osaekomi, pc, call, socket, online, view, hold, inbox>>
    BY <1>2 DEF vars, dbVars, serverVars, pageVars
  <2>2. TablesKnow' /\ JoinsFirst'
    BY <2>1, TablesGoOn, JoinsGoOn DEF HoldDownsTold
  <2> QED
    BY <2>1, <2>2
    DEF HoldDownsTold, TrackersShown, ActiveShown, CallsShown, Home, HoldsTold, HoldIs
<1> QED
  BY <1>1, <1>2

(* A connection is counted, never forgotten. *)
LEMMA JoinsCount ==
  ASSUME Typing, [Next]_vars, FirstJoins'
  PROVE  FirstJoins
<1>1. \A p \in Pages : socket'[p] \in {socket[p], socket[p] + 1}
  <2>1. ASSUME NEW h \in Handlers, NEW q \in Pages, Join(h, q)
        PROVE  \A p \in Pages : socket'[p] \in {socket[p], socket[p] + 1}
    BY <2>1 DEF Join, Typing, PagesOK
  <2>2. CASE UNCHANGED socket
    BY <2>2
  <2>3. UNCHANGED socket \/ \E h \in Handlers, q \in Pages : Join(h, q)
    <3>1. CASE UNCHANGED vars
      BY <3>1 DEF vars, pageVars
    <3>2. ASSUME NEW h \in Handlers, NEW p \in Pages,
                 SendStopHoldDown(h, p) \/ \E side \in Sides : Plain(h, p, side)
          PROVE  UNCHANGED socket
      BY <3>2, PlainCall DEF SendStopHoldDown, Resolve, pageVars
    <3>3. ASSUME NEW h \in Handlers, Proceed(h) PROVE UNCHANGED socket
      BY <3>3 DEF Proceed, VerifyPin, GetMatState, Answer, ApplyScoreEvent, StartMatch, EndMatch,
                  EnableGoldenScore, GetMatchState, Reject, RejectDetached, ServerStops, Tell, pageVars
    <3>4. ASSUME NEW h \in Handlers, NEW m \in Matches, TimerFires(h, m)
          PROVE  UNCHANGED socket
      BY <3>4 DEF TimerFires, Resolve, pageVars
    <3>5. ASSUME NEW p \in Pages, NEW side \in Sides, StartHoldDown(p, side)
          PROVE  UNCHANGED socket
      BY <3>5 DEF StartHoldDown, pageVars
    <3>6. ASSUME NEW p \in Pages, Deliver(p) \/ Disconnect(p) \/ PauseOrResume(p)
          PROVE  UNCHANGED socket
      BY <3>6 DEF Deliver, Disconnect, PauseOrResume
    <3>7. Tick \/ ServerStops => UNCHANGED socket
      BY DEF Tick, ServerStops
    <3>8. CASE Next
      BY <3>2, <3>3, <3>4, <3>5, <3>6, <3>7, <3>8, NextSteps
    <3> QED
      BY <3>1, <3>8
  <2> QED
    BY <2>1, <2>2, <2>3
<1>2. \A p \in Pages : socket[p] \in Nat
  BY DEF Typing, PagesOK
<1> QED
  BY <1>1, <1>2 DEF FirstJoins

(* When a mat has one table, a hold-down that is shown in a running match  *)
(* is the one the server counts, from the same start, until a page has to  *)
(* join again, however calls, timers and messages overlap and whatever     *)
(* fails.                                                                  *)
THEOREM HoldDownsAreReal == Spec => []NoPhantomHoldDown
<1> DEFINE IInv == Typing /\ HoldDownIInv /\ Linked /\ PhantomIInv
<1>1. Init => IInv
  BY InitTyping, HoldDownInit, LinkedInit, ToldInit DEF PhantomIInv
<1>2. IInv /\ [Next]_vars => IInv'
  <2> SUFFICES ASSUME IInv, [Next]_vars PROVE IInv'
    OBVIOUS
  <2>1. Typing' /\ HoldDownIInv' /\ Linked'
    BY NextTyping, HoldDownNext, LinkedNext DEF HoldDownIInv
  <2>2. ASSUME OneTableEach', FirstJoins' PROVE HoldDownsTold'
    <3>1. UNCHANGED setting
      BY SettingStays DEF vars
    <3>2. OneTableEach /\ FirstJoins
      BY <2>2, <3>1, JoinsCount DEF OneTableEach
    <3> QED
      BY <2>2, <3>2, ToldNext DEF HoldDownIInv, PhantomIInv
  <2> QED
    BY <2>1, <2>2 DEF PhantomIInv
<1>3. IInv => NoPhantomHoldDown
  <2> SUFFICES ASSUME IInv, Quiet, OneTableEach, FirstJoins, NEW p \in setting.pages,
                      hold[p].active, online[p], view[p].match # None,
                      row[view[p].match].status = "ACTIVE"
               PROVE  /\ osaekomi[view[p].match].competitor = hold[p].competitor
                      /\ osaekomi[view[p].match].number = hold[p].number
    BY DEF NoPhantomHoldDown, OneTableEach, FirstJoins
  <2> DEFINE m == view[p].match
  <2>1. p \in Pages /\ inbox[p] = <<>> /\ m \in Matches
    BY RightMats DEF Quiet, Typing, PagesOK, View, MaybeMatch
  <2>2. HoldDownsTold
    BY DEF PhantomIInv
  <2>3. PICK e \in Hold : Leads(HoldStep, Hold, hold[p], <<>>, e) /\ HoldIs(e, p)
    BY <2>1, <2>2 DEF HoldDownsTold, HoldsTold
  <2>4. e = hold[p]
    BY <2>3, LeadsNowhere
  <2>5. PICK t \in setting.tables :
          /\ MatOfPage[t] = MatOfPage[p] /\ view[t].match \in Matches
          /\ osaekomi[view[t].match].competitor = hold[p].competitor
          /\ osaekomi[view[t].match].number = hold[p].number
    BY <2>3, <2>4 DEF HoldIs
  <2>6. PICK u \in setting.tables : view[u].match = m
    BY <2>1, <2>2 DEF HoldDownsTold, ActiveShown
  <2>7. MatOfPage[u] = MatOfPage[p]
    <3>1. m \in OnMat(MatOfPage[u]) /\ m \in OnMat(MatOfPage[p])
      BY <2>1, <2>6, RightMats DEF Linked, PagesOnMat
    <3> QED
      BY <2>1, <3>1, OneMat, RightMats
  <2>8. u = t
    BY <2>5, <2>7 DEF OneTableEach
  <2> QED
    BY <2>5, <2>6, <2>8
<1> QED
  BY <1>1, <1>2, <1>3, PTL DEF Spec

-----------------------------------------------------------------------------
(* The slots of the draw.  A match that is not over has not sent anybody   *)
(* on: the slots it feeds are open, or its only competitor has been drawn  *)
(* into the next one.  So a slot that is taken stays as it is, and a match *)
(* of two competitors is changed by its own calls only.                    *)

WalksOn(m) ==
  /\ \A n \in Matches : WinnerTo[n] # m /\ LoserTo[n] # m
  /\ \E side, other \in Sides :
        /\ side # other /\ row[m].competitor[other] = None
        /\ row[m].competitor[side] = row[WinnerTo[m]].competitor[WinnerSide[m]]

OpenSlots ==
  \A m \in Matches : row[m].status # "COMPLETED" =>
    /\ WinnerTo[m] # None =>
         row[WinnerTo[m]].competitor[WinnerSide[m]] = None \/ WalksOn(m)
    /\ LoserTo[m] # None /\ LoserSide[m] # FirstFree =>
         row[LoserTo[m]].competitor[LoserSide[m]] = None
    /\ LoserTo[m] # None /\ LoserSide[m] = FirstFree =>
         /\ \E side \in Sides : row[LoserTo[m]].competitor[side] = None
         /\ \A n \in Matches :
              n # m /\ LoserTo[n] = LoserTo[m] /\ row[n].status # "COMPLETED" =>
                \A side \in Sides : row[LoserTo[m]].competitor[side] = None

Full(r) == \A side \in Sides : r.competitor[side] # None

SlotsStay ==
  \A n \in Matches, side \in Sides :
    row[n].competitor[side] # None => row'[n].competitor[side] = row[n].competitor[side]

(* The winner and the loser of m take their slots. *)
Seated(m, winner, loser) ==
  /\ \A n \in Matches, side \in Sides :
       row'[n].competitor[side] =
         IF n = LoserTo[m] /\ loser # None /\ side = SideOfLoser(m) THEN loser
         ELSE IF n = WinnerTo[m] /\ side = WinnerSide[m] THEN winner
         ELSE row[n].competitor[side]
  /\ \A n \in Matches :
       n # m /\ (\A side \in Sides : row'[n].competitor[side] = row[n].competitor[side])
         => row'[n] = row[n]

LEMMA CompleteSlots ==
  ASSUME Typing, NEW m \in Matches, NEW winner, NEW how, NEW scores,
         Complete(m, winner, how, scores)
  PROVE  /\ Seated(m, winner, Rows!Loser(row[m], winner))
         /\ row'[m] = [row[m] EXCEPT !.status = "COMPLETED", !.winner = winner,
                                     !.winMethod = how, !.scores = scores]
<1> DEFINE loser == Rows!Loser(row[m], winner)
           kept(n) == IF n = m
                      THEN [row[n] EXCEPT !.status = "COMPLETED", !.winner = winner,
                                          !.winMethod = how, !.scores = scores]
                      ELSE row[n]
           placed(n) == IF n = WinnerTo[m]
                        THEN [kept(n) EXCEPT !.competitor[WinnerSide[m]] = winner] ELSE kept(n)
<1>1. \A n \in Matches : row[n] \in Row
  BY DEF Typing
<1>2. \A n \in Matches :
        row'[n] = IF n = LoserTo[m] /\ loser # None
                  THEN [placed(n) EXCEPT !.competitor[SideOfLoser(m)] = loser] ELSE placed(n)
  BY DEF Complete, Rows!CompletedRow
<1>3. m # WinnerTo[m] /\ m # LoserTo[m]
  BY OneFeederPerSlot
<1>4. row'[m] = kept(m)
  BY <1>2, <1>3
<1>5. ASSUME NEW n \in Matches, n # m,
             \A side \in Sides : row'[n].competitor[side] = row[n].competitor[side]
      PROVE  row'[n] = row[n]
  <2> DEFINE r == row[n]
             p == IF n = WinnerTo[m] THEN [r EXCEPT !.competitor[WinnerSide[m]] = winner] ELSE r
             q == IF n = LoserTo[m] /\ loser # None
                  THEN [p EXCEPT !.competitor[SideOfLoser(m)] = loser] ELSE p
  <2>1. row'[n] = q
    BY <1>2, <1>5
  <2> HIDE DEF loser
  <2>2. /\ r = [f \in DOMAIN r |-> r[f]] /\ "competitor" \in DOMAIN r
        /\ r.competitor = [side \in Sides |-> r.competitor[side]]
    BY <1>1 DEF Row
  <2> HIDE DEF r
  <2>3. p = [r EXCEPT !.competitor = p.competitor] /\ p.competitor = [side \in Sides |-> p.competitor[side]]
    BY <2>2
  <2>4. p = [f \in DOMAIN r |-> p[f]] /\ "competitor" \in DOMAIN p
    BY <2>2
  <2> HIDE DEF p
  <2>5. q = [p EXCEPT !.competitor = q.competitor] /\ q.competitor = [side \in Sides |-> q.competitor[side]]
    BY <2>3, <2>4
  <2>6. \A side \in Sides : q.competitor[side] = r.competitor[side]
    BY <1>5, <2>1 DEF r
  <2> HIDE DEF q
  <2>7. q.competitor = r.competitor
    BY <2>2, <2>5, <2>6
  <2>8. q = [r EXCEPT !.competitor = r.competitor]
    BY <2>2, <2>3, <2>4, <2>5, <2>7
  <2>9. q = r
    BY <2>2, <2>8
  <2> QED
    BY <2>1, <2>9 DEF r
<1>6. ASSUME NEW n \in Matches, NEW side \in Sides
      PROVE  row'[n].competitor[side] =
               IF n = LoserTo[m] /\ loser # None /\ side = SideOfLoser(m) THEN loser
               ELSE IF n = WinnerTo[m] /\ side = WinnerSide[m] THEN winner
               ELSE row[n].competitor[side]
  <2>1. kept(n).competitor = row[n].competitor /\ "competitor" \in DOMAIN kept(n)
    BY <1>1 DEF Row
  <2>2. row[n].competitor \in [Sides -> MaybeCompetitor]
    BY <1>1 DEF Row
  <2> DEFINE k == kept(n)
             first == [k EXCEPT !.competitor[WinnerSide[m]] = winner]
             p == IF n = WinnerTo[m] THEN first ELSE k
             both == [p EXCEPT !.competitor[SideOfLoser(m)] = loser]
  <2>3. row'[n] = IF n = LoserTo[m] /\ loser # None THEN both ELSE p
    BY <1>2
  <2> HIDE DEF k, loser
  <2>4. k = [f \in DOMAIN k |-> k[f]] /\ k.competitor = row[n].competitor
        /\ "competitor" \in DOMAIN k
    BY <1>1, <2>1 DEF k, Row
  <2>5. DOMAIN row[n].competitor = Sides
    BY <2>2
  <2>6. /\ "competitor" \in DOMAIN p /\ p = [f \in DOMAIN p |-> p[f]]
        /\ DOMAIN p.competitor = Sides
        /\ p.competitor[side] = IF n = WinnerTo[m] /\ side = WinnerSide[m] THEN winner
                                ELSE row[n].competitor[side]
    BY <2>4, <2>5
  <2> HIDE DEF p
  <2>7. both.competitor[side] = IF side = SideOfLoser(m) THEN loser ELSE p.competitor[side]
    BY <2>6
  <2> QED
    BY <2>3, <2>6, <2>7
<1> QED
  BY <1>4, <1>5, <1>6 DEF Seated

(* Where the loser of m goes is still open. *)
LEMMA LoserSlotIsOpen ==
  ASSUME Typing, OpenSlots, NEW m \in Matches, row[m].status # "COMPLETED", LoserTo[m] # None
  PROVE  LoserTo[m] \in Matches /\ row[LoserTo[m]].competitor[SideOfLoser(m)] = None
<1>1. LoserTo[m] \in Matches
  BY DrawTypes DEF MaybeMatch
<1>2. CASE LoserSide[m] # FirstFree
  BY <1>1, <1>2 DEF OpenSlots, SideOfLoser
<1>3. CASE LoserSide[m] = FirstFree
  <2>1. \E side \in Sides : row[LoserTo[m]].competitor[side] = None
    BY <1>3 DEF OpenSlots
  <2> QED
    BY <1>1, <1>3, <2>1 DEF SideOfLoser, FreeSide, Sides
<1> QED
  BY <1>1, <1>2, <1>3

LEMMA CompleteFillsOpen ==
  ASSUME Typing, OpenSlots, NEW m \in Matches, row[m].status # "COMPLETED",
         NEW winner, NEW how, NEW scores, Complete(m, winner, how, scores),
         winner # None, \E side \in Sides : row[m].competitor[side] = winner
  PROVE  /\ SlotsStay
         /\ \A n \in Matches : n # m /\ Full(row[n]) => row'[n] = row[n]
<1> DEFINE loser == Rows!Loser(row[m], winner)
<1>1. /\ \A n \in Matches, side \in Sides :
           row'[n].competitor[side] =
             IF n = LoserTo[m] /\ loser # None /\ side = SideOfLoser(m) THEN loser
             ELSE IF n = WinnerTo[m] /\ side = WinnerSide[m] THEN winner
             ELSE row[n].competitor[side]
      /\ \A n \in Matches :
           n # m /\ (\A side \in Sides : row'[n].competitor[side] = row[n].competitor[side])
             => row'[n] = row[n]
  <2>1. Seated(m, winner, loser)
    BY CompleteSlots
  <2> QED
    BY <2>1 DEF Seated
<1>2. LoserTo[m] # None => /\ LoserTo[m] \in Matches /\ SideOfLoser(m) \in Sides
                           /\ row[LoserTo[m]].competitor[SideOfLoser(m)] = None
  BY LoserSlotIsOpen, SideOfLoserType
<1>3. WinnerTo[m] # None => row[WinnerTo[m]].competitor[WinnerSide[m]] \in {None, winner}
  <2> SUFFICES ASSUME WinnerTo[m] # None, WalksOn(m)
               PROVE  row[WinnerTo[m]].competitor[WinnerSide[m]] \in {None, winner}
    BY DEF OpenSlots
  <2>1. PICK side, other \in Sides :
          /\ side # other /\ row[m].competitor[other] = None
          /\ row[m].competitor[side] = row[WinnerTo[m]].competitor[WinnerSide[m]]
    BY DEF WalksOn
  <2> QED
    BY <2>1 DEF Sides
<1>4. None \notin Matches
  BY DrawTypes
<1> HIDE DEF loser
<1>5. SlotsStay
  BY <1>1, <1>2, <1>3, <1>4 DEF SlotsStay
<1>6. ASSUME NEW n \in Matches, n # m, Full(row[n]) PROVE row'[n] = row[n]
  <2>1. \A side \in Sides : row'[n].competitor[side] = row[n].competitor[side]
    BY <1>5, <1>6 DEF SlotsStay, Full
  <2> QED
    BY <1>1, <1>6, <2>1
<1> QED
  BY <1>5, <1>6

LEMMA OpenInit ==
  ASSUME OneLoserPerSlot, WinnersAwaited
  PROVE  Init => OpenSlots
<1> SUFFICES ASSUME Init PROVE OpenSlots
  OBVIOUS
<1>1. \A m \in Matches : row[m].competitor = Entrants[m] /\ (row[m].status # "COMPLETED" => m \notin Byes)
  BY DEF Init, DrawnRow
<1>2. \A m \in Matches : /\ WinnerTo[m] # None => WinnerTo[m] \in Matches
                         /\ LoserTo[m] # None => LoserTo[m] \in Matches
                         /\ LoserSide[m] # FirstFree => LoserSide[m] \in Sides
  BY DrawTypes DEF MaybeMatch
<1>3. \A m \in Matches, side \in Sides :
        LoserTo[m] # None /\ LoserSide[m] \in {side, FirstFree} =>
          Entrants[LoserTo[m]][side] = None
  BY DEF OneLoserPerSlot
<1>4. 1 \in Sides
  BY DEF Sides
<1> SUFFICES ASSUME NEW m \in Matches, m \notin Byes
             PROVE
    /\ WinnerTo[m] # None =>
         row[WinnerTo[m]].competitor[WinnerSide[m]] = None \/ WalksOn(m)
    /\ LoserTo[m] # None /\ LoserSide[m] # FirstFree =>
         row[LoserTo[m]].competitor[LoserSide[m]] = None
    /\ LoserTo[m] # None /\ LoserSide[m] = FirstFree =>
         \A side \in Sides : row[LoserTo[m]].competitor[side] = None
  BY <1>1, <1>4 DEF OpenSlots
<1>5. WinnerTo[m] # None =>
        row[WinnerTo[m]].competitor[WinnerSide[m]] = None \/ WalksOn(m)
  BY <1>1, <1>2 DEF WinnersAwaited, Unopposed, WalksOn
<1>6. LoserTo[m] # None => \A side \in Sides :
        LoserSide[m] \in {side, FirstFree} => row[LoserTo[m]].competitor[side] = None
  BY <1>1, <1>2, <1>3
<1> QED
  BY <1>2, <1>5, <1>6

LEMMA OpenComplete ==
  ASSUME OneLoserPerSlot, Typing, OpenSlots, NEW m \in Matches, row[m].status # "COMPLETED",
         NEW winner, NEW how, NEW scores, Complete(m, winner, how, scores)
  PROVE  OpenSlots'
<1> DEFINE loser == Rows!Loser(row[m], winner)
<1>1. \A n \in Matches, side \in Sides :
        row'[n].competitor[side] =
          IF n = LoserTo[m] /\ loser # None /\ side = SideOfLoser(m) THEN loser
          ELSE IF n = WinnerTo[m] /\ side = WinnerSide[m] THEN winner
          ELSE row[n].competitor[side]
  <2>1. Seated(m, winner, loser)
    BY CompleteSlots
  <2> QED
    BY <2>1 DEF Seated
<1> HIDE DEF loser
<1>2. \A n \in Matches : row'[n].status = IF n = m THEN "COMPLETED" ELSE row[n].status
  BY CompleteStatus
<1>3. LoserTo[m] # None => SideOfLoser(m) \in Sides
  BY SideOfLoserType
<1>4. LoserSide[m] # FirstFree => SideOfLoser(m) = LoserSide[m]
  BY DEF SideOfLoser
<1> SUFFICES ASSUME NEW n \in Matches, n # m, row[n].status # "COMPLETED"
             PROVE
    /\ WinnerTo[n] # None =>
         row'[WinnerTo[n]].competitor[WinnerSide[n]] = None \/ WalksOn(n)'
    /\ LoserTo[n] # None /\ LoserSide[n] # FirstFree =>
         row'[LoserTo[n]].competitor[LoserSide[n]] = None
    /\ LoserTo[n] # None /\ LoserSide[n] = FirstFree =>
         /\ \E side \in Sides : row'[LoserTo[n]].competitor[side] = None
         /\ \A k \in Matches :
              k # n /\ LoserTo[k] = LoserTo[n] /\ row'[k].status # "COMPLETED" =>
                \A side \in Sides : row'[LoserTo[n]].competitor[side] = None
  BY <1>2 DEF OpenSlots
<1>5. ASSUME WinnerTo[n] # None
      PROVE  row'[WinnerTo[n]].competitor[WinnerSide[n]] = None \/ WalksOn(n)'
  <2>1. WinnerTo[n] \in Matches /\ WinnerSide[n] \in Sides
    BY <1>5, DrawTypes DEF MaybeMatch
  <2>2. ~(WinnerTo[n] = WinnerTo[m] /\ WinnerSide[n] = WinnerSide[m])
    BY <1>5, OneFeederPerSlot
  <2>3. ~(WinnerTo[n] = LoserTo[m] /\ WinnerSide[n] = SideOfLoser(m))
    <3>1. WinnerTo[n] = LoserTo[m] => LoserSide[m] \in Sides /\ LoserSide[m] # WinnerSide[n]
      BY <1>5, OneFeederPerSlot
    <3>2. LoserSide[m] \in Sides => LoserSide[m] # FirstFree
      BY DEF Sides, FirstFree
    <3> QED
      BY <1>4, <3>1, <3>2
  <2>4. row'[WinnerTo[n]].competitor[WinnerSide[n]] = row[WinnerTo[n]].competitor[WinnerSide[n]]
    BY <1>1, <2>1, <2>2, <2>3
  <2>5. row[WinnerTo[n]].competitor[WinnerSide[n]] = None \/ WalksOn(n)
    BY <1>5 DEF OpenSlots
  <2>6. ASSUME WalksOn(n) PROVE WalksOn(n)'
    <3>1. n # WinnerTo[m] /\ n # LoserTo[m]
      BY <2>6 DEF WalksOn
    <3>2. \A side \in Sides : row'[n].competitor[side] = row[n].competitor[side]
      BY <1>1, <3>1
    <3> QED
      BY <2>4, <2>6, <3>2 DEF WalksOn
  <2> QED
    BY <2>4, <2>5, <2>6
<1>6. ASSUME LoserTo[n] # None, LoserSide[n] # FirstFree
      PROVE  row'[LoserTo[n]].competitor[LoserSide[n]] = None
  <2>1. LoserTo[n] \in Matches /\ LoserSide[n] \in Sides
    BY <1>6, DrawTypes DEF MaybeMatch
  <2>2. ~(LoserTo[n] = WinnerTo[m] /\ LoserSide[n] = WinnerSide[m])
    BY <1>6, OneFeederPerSlot
  <2>3. ~(LoserTo[n] = LoserTo[m] /\ LoserSide[n] = SideOfLoser(m))
    BY <1>4, <1>6 DEF OneLoserPerSlot
  <2>4. row[LoserTo[n]].competitor[LoserSide[n]] = None
    BY <1>6 DEF OpenSlots
  <2> QED
    BY <1>1, <2>1, <2>2, <2>3, <2>4
<1>7. ASSUME LoserTo[n] # None, LoserSide[n] = FirstFree
      PROVE  /\ \E side \in Sides : row'[LoserTo[n]].competitor[side] = None
             /\ \A k \in Matches :
                  k # n /\ LoserTo[k] = LoserTo[n] /\ row'[k].status # "COMPLETED" =>
                    \A side \in Sides : row'[LoserTo[n]].competitor[side] = None
  <2> DEFINE to == LoserTo[n]
  <2>1. to \in Matches
    BY <1>7, DrawTypes DEF MaybeMatch
  <2>2. to # WinnerTo[m]
    BY <1>7, OneFeederPerSlot DEF Sides, FirstFree
  <2>3. CASE to = LoserTo[m]
    <3>1. \A side \in Sides : row[to].competitor[side] = None
      <4>1. LoserSide[m] = FirstFree /\ LoserTo[m] # None
        BY <1>7, <2>3 DEF OneLoserPerSlot
      <4> QED
        BY <1>7, <2>3, <4>1 DEF OpenSlots
    <3>2. \E side \in Sides : side # SideOfLoser(m)
      BY DEF Sides
    <3>3. \A k \in Matches : LoserTo[k] = to => k \in {m, n}
      BY <1>7, <2>3 DEF OneLoserPerSlot
    <3>4. \E side \in Sides : row'[to].competitor[side] = None
      BY <1>1, <2>1, <2>2, <3>1, <3>2
    <3> QED
      BY <1>2, <3>3, <3>4
  <2>4. CASE to # LoserTo[m]
    <3>1. \A side \in Sides : row'[to].competitor[side] = row[to].competitor[side]
      BY <1>1, <2>1, <2>2, <2>4
    <3>2. /\ \E side \in Sides : row[to].competitor[side] = None
          /\ \A k \in Matches :
               k # n /\ LoserTo[k] = to /\ row[k].status # "COMPLETED" =>
                 \A side \in Sides : row[to].competitor[side] = None
      BY <1>7 DEF OpenSlots
    <3> HIDE DEF to
    <3>3. \A k \in Matches : row'[k].status # "COMPLETED" => row[k].status # "COMPLETED"
      BY <1>2
    <3> QED
      BY <3>1, <3>2, <3>3 DEF to
  <2> QED
    BY <2>3, <2>4
<1> QED
  BY <1>5, <1>6, <1>7

(* No request of a table carries a shido, and a score is always for        *)
(* somebody: who scores last wins, and the winner is somebody.             *)
ByScoreOnly ==
  /\ \A m \in Matches, side \in Sides : row[m].scores[side].shido = 0
  /\ \A m \in Matches : osaekomi[m] # NoTracker => osaekomi[m].competitor # None
  /\ \A h \in Handlers : pc[h] = "apply" /\ call[h].op = "score" =>
       call[h].competitor # None /\ call[h].event \in {"WAZA_ARI", "IPPON"}

LEMMA NoShidoScored ==
  ASSUME NEW scores \in Scores, NEW side \in Sides, NEW event \in {"WAZA_ARI", "IPPON"},
         \A s \in Sides : scores[s].shido = 0
  PROVE  \A s \in Sides : Scored(scores, side, event)[s].shido = 0
<1>1. scores \in [Sides -> Score] /\ Points(event, "SHIDO") = 0
  BY DEF Scores, Points
<1>2. ASSUME NEW s \in Sides
      PROVE  Scored(scores, side, event)[s].shido = 0
  BY <1>1 DEF Scored, Score
<1> QED
  BY <1>2

LEMMA WonByScore ==
  ASSUME Typing, ByScoreOnly, NEW h \in Handlers, ApplyScoreEvent(h)
  PROVE  LET m == call[h].match
             side == IF row[m].competitor[1] = call[h].competitor THEN 1 ELSE 2
             scores == Scored(row[m].scores, side, call[h].event)
         IN  /\ \A s \in Sides : scores[s].shido = 0
             /\ Terminates(scores[side], call[h].event) =>
                  row[m].competitor[WinningSide(side, scores[side], call[h].event)] # None
<1> DEFINE m == call[h].match
           event == call[h].event
           side == IF row[m].competitor[1] = call[h].competitor THEN 1 ELSE 2
           scores == Scored(row[m].scores, side, event)
<1>1. /\ m \in Matches /\ row[m].scores \in Scores
      /\ call[h].competitor # None /\ event \in {"WAZA_ARI", "IPPON"} /\ InMatch(m, call[h].competitor)
  BY DEF ApplyScoreEvent, Typing, CallsOK, ByScoreOnly, Row, Scores
<1>2. side \in Sides /\ row[m].competitor[side] = call[h].competitor
  BY <1>1 DEF InMatch, Sides
<1>3. \A s \in Sides : scores[s].shido = 0
  BY <1>1, <1>2, NoShidoScored DEF ByScoreOnly
<1> HIDE DEF side, scores, event, m
<1>4. ~EndsByHansokuMake(scores[side], event)
  BY <1>2, <1>3 DEF EndsByHansokuMake
<1>5. Terminates(scores[side], event) => WinningSide(side, scores[side], event) = side
  BY <1>4 DEF Terminates, WinningSide
<1> QED
  BY <1>1, <1>2, <1>3, <1>5 DEF m, event, side, scores

LEMMA ByScoreInit == Init => ByScoreOnly
<1> SUFFICES ASSUME Init PROVE ByScoreOnly
  OBVIOUS
<1>1. \A m \in Matches : row[m].scores = EmptyScores
  BY DEF Init, DrawnRow
<1>2. \A side \in Sides : EmptyScores[side].shido = 0
  BY DEF EmptyScores, EmptyScore
<1> QED
  BY <1>1, <1>2 DEF Init, ByScoreOnly

(* A step that writes no scores and starts no hold-down. *)
LEMMA ByScoreGoesOn ==
  ASSUME Typing, ByScoreOnly, UNCHANGED row,
         \A m \in Matches : osaekomi'[m] # NoTracker =>
           osaekomi[m] # NoTracker /\ osaekomi'[m].competitor = osaekomi[m].competitor,
         \A h \in Handlers : \/ pc'[h] = pc[h] /\ call'[h] = call[h]
                             \/ pc'[h] # "apply"
                             \/ call'[h].op # "score"
                             \/ /\ call'[h].competitor # None
                                /\ call'[h].event \in {"WAZA_ARI", "IPPON"}
  PROVE  ByScoreOnly'
BY DEF ByScoreOnly

LEMMA ByScorePlain ==
  ASSUME Typing, ByScoreOnly, NEW h \in Handlers, NEW p \in Pages, NEW side \in Sides,
         Plain(h, p, side)
  PROVE  ByScoreOnly'
<1>1. UNCHANGED <<row, osaekomi>> /\ \A g \in Handlers : g # h => pc'[g] = pc[g] /\ call'[g] = call[g]
  BY PlainCall DEF dbVars, serverVars, Typing, CallsOK
<1>2. call'[h].op # "score" \/ (call'[h].competitor # None /\ call'[h].event \in {"WAZA_ARI", "IPPON"})
  <2> DEFINE who == view[p].row.competitor[side]
             onto(c) == [c EXCEPT !.socket = Socket(p), !.match = view[p].match]
  <2>1. \A c, clk : Request(h, p, c, clk) => call'[h] = onto(c)
    BY DEF Request, Typing, CallsOK
  <2>2. CASE SendScoreEvent(h, p, side, "WAZA_ARI")
    <3> DEFINE c == [NoCall EXCEPT !.op = "score", !.event = "WAZA_ARI", !.competitor = who]
    <3>1. onto(c).event = "WAZA_ARI" /\ onto(c).competitor = who
      BY DEF NoCall
    <3>2. (\E clk : Request(h, p, c, clk)) /\ who # None
      BY <2>2 DEF SendScoreEvent, Offered
    <3> HIDE DEF c, onto
    <3> QED
      BY <2>1, <3>1, <3>2
  <2>3. CASE ~SendScoreEvent(h, p, side, "WAZA_ARI")
    <3> DEFINE start == [NoCall EXCEPT !.op = "start"]
               golden == [NoCall EXCEPT !.op = "golden"]
               end == [NoCall EXCEPT !.op = "end", !.competitor = who]
    <3>1. onto(start).op # "score" /\ onto(golden).op # "score" /\ onto(end).op # "score"
      BY DEF NoCall
    <3>2. \E clk : Request(h, p, start, clk) \/ Request(h, p, golden, clk) \/ Request(h, p, end, clk)
      BY <2>3 DEF Plain, SendStartMatch, SendGoldenScore, SendEndMatch
    <3> HIDE DEF start, golden, end, onto
    <3> QED
      BY <2>1, <3>1, <3>2
  <2> QED
    BY <2>2, <2>3
<1> QED
  BY <1>1, <1>2, ByScoreGoesOn

LEMMA ByScoreHoldDowns ==
  ASSUME Typing, ByScoreOnly,
         \/ \E p \in Pages, side \in Sides : StartHoldDown(p, side)
         \/ \E h \in Handlers, m \in Matches, s \in Sockets \cup {None} :
              \E held, others : Resolve(h, m, held, s, others)
  PROVE  ByScoreOnly'
<1>1. ASSUME NEW p \in Pages, NEW side \in Sides, StartHoldDown(p, side) PROVE ByScoreOnly'
  <2> DEFINE t == [competitor |-> view[p].row.competitor[side], held |-> 0,
                   room |-> ClientRoom(Socket(p)), number |-> holdDowns[view[p].match] + 1]
  <2>1. /\ UNCHANGED <<row, pc, call>> /\ t.competitor # None
        /\ osaekomi' = [osaekomi EXCEPT ![view[p].match] = t]
    BY <1>1 DEF StartHoldDown, Offered, dbVars
  <2> HIDE DEF t
  <2> QED
    BY <2>1 DEF ByScoreOnly, Typing, ServerOK
<1>2. ASSUME NEW h \in Handlers, NEW m \in Matches, NEW s \in Sockets \cup {None},
             NEW held, NEW others, Resolve(h, m, held, s, others)
      PROVE  ByScoreOnly'
  <2> DEFINE t == osaekomi[m]
             c == [NoCall EXCEPT !.op = "score", !.room = t.room, !.socket = s, !.match = m,
                      !.competitor = t.competitor, !.detached = s = None,
                      !.event = IF held = 2 THEN "IPPON" ELSE "WAZA_ARI",
                      !.held = t.held, !.number = t.number]
  <2>1. /\ UNCHANGED row /\ osaekomi' = [osaekomi EXCEPT ![m] = NoTracker] /\ t # NoTracker
        /\ UNCHANGED <<pc, call>> \/ (Goto(h, "apply") /\ call' = [call EXCEPT ![h] = c])
    BY <1>2 DEF Resolve, Forget, dbVars
  <2>2. c.competitor = t.competitor /\ c.event \in {"WAZA_ARI", "IPPON"}
    BY DEF NoCall
  <2>3. t.competitor # None
    BY <2>1 DEF ByScoreOnly
  <2>4. \A n \in Matches : osaekomi'[n] # NoTracker => osaekomi'[n] = osaekomi[n]
    BY <2>1 DEF Typing, ServerOK
  <2> HIDE DEF c, t
  <2>5. \A g \in Handlers : \/ pc'[g] = pc[g] /\ call'[g] = call[g]
                            \/ call'[g].competitor # None /\ call'[g].event \in {"WAZA_ARI", "IPPON"}
    BY <2>1, <2>2, <2>3 DEF Goto, Typing, CallsOK
  <2> QED
    BY <2>1, <2>4, <2>5, ByScoreGoesOn
<1> QED
  BY <1>1, <1>2

LEMMA ByScoreServices ==
  ASSUME Typing, ByScoreOnly, NEW h \in Handlers,
         \/ ApplyScoreEvent(h) \/ StartMatch(h) \/ EndMatch(h)
         \/ EnableGoldenScore(h) \/ GetMatchState(h)
  PROVE  ByScoreOnly'
<1> DEFINE m == call[h].match
<1>1. /\ m \in Matches /\ row \in [Matches -> Row] /\ UNCHANGED osaekomi
      /\ \A g \in Handlers : g = h \/ (pc'[g] = pc[g] /\ call'[g] = call[g])
      /\ pc'[h] \in {"tell", "reread"}
  BY ServiceFacts DEF serverVars, Typing, CallsOK
<1>2. ASSUME NEW winner, NEW how, NEW scores, Complete(m, winner, how, scores)
      PROVE  \A n \in Matches : row'[n].scores = IF n = m THEN scores ELSE row[n].scores
  BY <1>1, <1>2 DEF Complete, Rows!CompletedRow, Row
<1>3. \A n \in Matches, s \in Sides : row'[n].scores[s].shido = 0
  <2>1. CASE ApplyScoreEvent(h)
    <3> DEFINE side == IF row[m].competitor[1] = call[h].competitor THEN 1 ELSE 2
               scores == Scored(row[m].scores, side, call[h].event)
    <3>1. \A s \in Sides : scores[s].shido = 0
      BY <2>1, WonByScore
    <3>2. \/ \E winner, how : Complete(m, winner, how, scores)
          \/ row' = [row EXCEPT ![m].scores = scores]
      BY <2>1 DEF ApplyScoreEvent
    <3> HIDE DEF scores
    <3>3. \A n \in Matches : row'[n].scores = IF n = m THEN scores ELSE row[n].scores
      BY <1>1, <1>2, <3>2 DEF Row
    <3> QED
      BY <3>1, <3>3 DEF ByScoreOnly
  <2>2. CASE EndMatch(h)
    <3>1. \A n \in Matches : row'[n].scores = row[n].scores
      BY <1>2, <2>2 DEF EndMatch
    <3> QED
      BY <3>1 DEF ByScoreOnly
  <2>3. CASE StartMatch(h)
    <3>1. row' = [row EXCEPT ![m].status = "ACTIVE", ![m].scores = EmptyScores]
      BY <2>3 DEF StartMatch, Rows!Start, Rows!EmptyScores, Rows!EmptyScore, Rows!Sides,
                  EmptyScores, EmptyScore, Sides
    <3>2. \A n \in Matches : row'[n].scores = IF n = m THEN EmptyScores ELSE row[n].scores
      BY <1>1, <3>1 DEF Row
    <3>3. \A side \in Sides : EmptyScores[side].shido = 0
      BY DEF EmptyScores, EmptyScore
    <3> QED
      BY <3>2, <3>3 DEF ByScoreOnly
  <2>4. CASE EnableGoldenScore(h) \/ GetMatchState(h)
    <3>1. \A n \in Matches : row'[n].scores = row[n].scores
      BY <1>1, <2>4 DEF EnableGoldenScore, GetMatchState, Rows!GoldenScore, Row, dbVars
    <3> QED
      BY <3>1 DEF ByScoreOnly
  <2> QED
    BY <2>1, <2>2, <2>3, <2>4
<1> QED
  BY <1>1, <1>3 DEF ByScoreOnly

LEMMA ByScoreNext == Typing /\ ByScoreOnly /\ [Next]_vars => ByScoreOnly'
<1> SUFFICES ASSUME Typing, ByScoreOnly, [Next]_vars PROVE ByScoreOnly'
  OBVIOUS
<1>1. CASE Next
  <2>1. ASSUME NEW h \in Handlers, NEW p \in Pages,
               Join(h, p) \/ SendStopHoldDown(h, p) \/ \E side \in Sides : Plain(h, p, side)
        PROVE  ByScoreOnly'
    <3>1. Join(h, p) => /\ UNCHANGED <<row, osaekomi>>
                        /\ \A g \in Handlers : \/ pc'[g] = pc[g] /\ call'[g] = call[g]
                                               \/ pc'[g] # "apply"
      BY DEF Join, Goto, Typing, CallsOK, dbVars
    <3> QED
      BY <2>1, <3>1, ByScoreGoesOn, ByScorePlain, ResolveSteps, ByScoreHoldDowns
  <2>2. ASSUME NEW h \in Handlers, NEW m \in Matches, TimerFires(h, m)
        PROVE  ByScoreOnly'
    BY <2>2, ResolveSteps, ByScoreHoldDowns
  <2>3. ServerStops => ByScoreOnly'
    <3>1. ServerStops => /\ UNCHANGED row /\ \A m \in Matches : osaekomi'[m] = NoTracker
                         /\ \A h \in Handlers : pc'[h] # "apply"
      BY DEF ServerStops, dbVars
    <3> QED
      BY <3>1, ByScoreGoesOn
  <2>4. ASSUME NEW h \in Handlers, Proceed(h)
        PROVE  ByScoreOnly'
    <3>1. CASE \/ ApplyScoreEvent(h) \/ StartMatch(h) \/ EndMatch(h)
               \/ EnableGoldenScore(h) \/ GetMatchState(h)
      BY <3>1, ByScoreServices
    <3>2. Reject(h) \/ RejectDetached(h) => ServerStops \/ (Return(h) /\ UNCHANGED <<row, osaekomi>>)
      BY DEF Reject, RejectDetached, dbVars, serverVars
    <3>3. Return(h) => \A g \in Handlers : \/ pc'[g] = pc[g] /\ call'[g] = call[g]
                                           \/ pc'[g] # "apply"
      BY DEF Return, Goto, Typing, CallsOK
    <3>4. ASSUME NEW c, call' = [call EXCEPT ![h] = c] \/ UNCHANGED call,
                 Goto(h, "look") \/ Goto(h, "answer")
          PROVE  \A g \in Handlers : \/ pc'[g] = pc[g] /\ call'[g] = call[g]
                                     \/ pc'[g] # "apply"
      BY <3>4 DEF Goto, Typing, CallsOK
    <3>5. CASE Reject(h) \/ RejectDetached(h)
      BY <2>3, <3>2, <3>3, <3>5, ByScoreGoesOn
    <3>6. CASE VerifyPin(h) \/ GetMatState(h)
      <4>1. /\ Goto(h, "look") \/ Goto(h, "answer")
            /\ (\E c : call' = [call EXCEPT ![h] = c]) \/ UNCHANGED call
            /\ UNCHANGED <<row, osaekomi>>
        <5>1. CASE VerifyPin(h)
          BY <5>1 DEF VerifyPin, dbVars
        <5>2. CASE GetMatState(h)
          <6>1. \E c : call' = [call EXCEPT ![h] = c]
            BY <5>2 DEF GetMatState
          <6> QED
            BY <5>2, <6>1 DEF GetMatState, dbVars, serverVars
        <5> QED
          BY <3>6, <5>1, <5>2
      <4> QED
        BY <3>4, <4>1, ByScoreGoesOn
    <3>7. CASE Answer(h) \/ Tell(h)
      <4>1. Return(h) /\ UNCHANGED <<row, osaekomi>>
        BY <3>7 DEF Answer, Tell, dbVars, serverVars
      <4> QED
        BY <3>3, <4>1, ByScoreGoesOn
    <3> QED
      BY <2>4, <3>1, <3>5, <3>6, <3>7 DEF Proceed
  <2>5. ASSUME NEW p \in Pages, NEW side \in Sides, StartHoldDown(p, side)
        PROVE  ByScoreOnly'
    BY <2>5, ByScoreHoldDowns
  <2>6. ASSUME NEW p \in Pages, Deliver(p) \/ Disconnect(p) \/ PauseOrResume(p)
        PROVE  ByScoreOnly'
    <3>1. UNCHANGED <<row, osaekomi, pc, call>>
      BY <2>6 DEF Deliver, Disconnect, PauseOrResume, dbVars, serverVars
    <3> QED
      BY <3>1, ByScoreGoesOn
  <2>7. Tick => ByScoreOnly'
    <3> SUFFICES ASSUME Tick PROVE ByScoreOnly'
      OBVIOUS
    <3>1. UNCHANGED <<row, pc, call>>
      BY DEF Tick, dbVars
    <3>2. \A m \in Matches : osaekomi'[m] # NoTracker =>
            osaekomi[m] # NoTracker /\ osaekomi'[m].competitor = osaekomi[m].competitor
      BY DEF Tick, Typing, ServerOK, Tracker
    <3> QED
      BY <3>1, <3>2, ByScoreGoesOn
  <2> QED
    BY <1>1, <2>1, <2>2, <2>3, <2>4, <2>5, <2>6, <2>7, NextSteps
<1>2. CASE UNCHANGED vars
  <2>1. UNCHANGED <<row, osaekomi, pc, call>>
    BY <1>2 DEF vars, dbVars, serverVars
  <2> QED
    BY <2>1, ByScoreGoesOn
<1> QED
  BY <1>1, <1>2

(* What a service writes, and what it has to tell then. *)
LEMMA ServiceWrites ==
  ASSUME Typing, NEW h \in Handlers,
         \/ ApplyScoreEvent(h) \/ StartMatch(h) \/ EndMatch(h)
         \/ EnableGoldenScore(h) \/ GetMatchState(h)
  PROVE  LET m == call[h].match
         IN  \/ /\ pc[h] = "apply" /\ row[m].status = "ACTIVE" /\ call[h].op = "score"
                /\ \E scores \in Scores :
                     /\ row' = [row EXCEPT ![m].scores = scores] /\ UNCHANGED current
                     /\ ThenTell(h, <<ScoreUpdate(m, scores)>>)
             \/ /\ pc[h] = "apply" /\ row[m].status = "ACTIVE" /\ call[h].op = "score"
                /\ \E scores \in Scores, side \in Sides, how \in WinMethods :
                     /\ ByScoreOnly => row[m].competitor[side] # None
                     /\ Complete(m, row[m].competitor[side], how, scores)
                     /\ ThenTell(h, <<ScoreUpdate(m, scores),
                                      MatchEnded(m, row[m].competitor[side], how)>>)
             \/ /\ pc[h] = "apply" /\ row[m].status = "ACTIVE" /\ call[h].op = "end"
                /\ Complete(m, call[h].competitor, "DECISION", row[m].scores)
                /\ ThenTell(h, <<MatchEnded(m, call[h].competitor, "DECISION")>>)
             \/ /\ pc[h] = "apply" /\ row[m].status = "SCHEDULED"
                /\ row' = [row EXCEPT ![m].status = "ACTIVE", ![m].scores = EmptyScores]
                /\ UNCHANGED current
                /\ ThenTell(h, <<MatchStarted(m), MatchState(m, row'[m])>>)
             \/ /\ pc[h] = "apply" /\ row[m].status = "ACTIVE"
                /\ row' = [row EXCEPT ![m].goldenScore = TRUE] /\ UNCHANGED <<current, call>>
                /\ Goto(h, "reread")
             \/ /\ pc[h] = "reread" /\ UNCHANGED dbVars
                /\ ThenTell(h, <<MatchState(m, row[m])>>)
<1> DEFINE m == call[h].match
<1>1. m \in Matches /\ row[m] \in Row /\ call[h] \in Call
  BY ServiceFacts DEF Typing, CallsOK
<1>2. CASE ApplyScoreEvent(h)
  <2> DEFINE who == call[h]
             side == IF row[m].competitor[1] = who.competitor THEN 1 ELSE 2
             scores == Scored(row[m].scores, side, who.event)
             over == Terminates(scores[side], who.event)
             won == WinningSide(side, scores[side], who.event)
             how == MethodOf(scores[side], who.event)
             told == <<ScoreUpdate(m, scores)>>
                       \o (IF over THEN <<MatchEnded(m, row[m].competitor[won], how)>> ELSE <<>>)
  <2>1. side \in Sides
    BY DEF Sides
  <2>2. scores \in Scores
    BY <1>1, <2>1, ScoredType DEF Scores, Row
  <2>3. won \in Sides
    BY <2>1 DEF WinningSide, Opponent, Sides
  <2>4. how \in WinMethods
    BY DEF MethodOf, WinMethods
  <2>5. /\ pc[h] = "apply" /\ row[m].status = "ACTIVE" /\ call[h].op = "score"
        /\ ThenTell(h, told)
        /\ IF over THEN Complete(m, row[m].competitor[won], how, scores)
           ELSE row' = [row EXCEPT ![m].scores = scores] /\ UNCHANGED current
    BY <1>2 DEF ApplyScoreEvent
  <2>6. row[m].competitor[won] \in MaybeCompetitor
    BY <1>1, <2>3 DEF Row
  <2> HIDE DEF side, scores, over, won, how
  <2>7. CASE over
    <3>1. /\ ScoreUpdate(m, scores) \in Message
          /\ MatchEnded(m, row[m].competitor[won], how) \in Message
      BY <1>1, <2>2, <2>4, <2>6 DEF ScoreUpdate, MatchEnded, Message
    <3>2. told = <<ScoreUpdate(m, scores), MatchEnded(m, row[m].competitor[won], how)>>
      BY <2>7, <3>1, PairIsConcat
    <3>3. ByScoreOnly => row[m].competitor[won] # None
      BY <1>1, <1>2, <2>7, WonByScore DEF side, scores, over, won
    <3> HIDE DEF told
    <3> QED
      BY <2>2, <2>3, <2>4, <2>5, <2>7, <3>2, <3>3
  <2>8. CASE ~over
    <3>1. <<ScoreUpdate(m, scores)>> \o <<>> = <<ScoreUpdate(m, scores)>>
      OBVIOUS
    <3>2. told = <<ScoreUpdate(m, scores)>>
      BY <2>8, <3>1
    <3> HIDE DEF told
    <3> QED
      BY <2>2, <2>5, <2>8, <3>2
  <2> QED
    BY <2>7, <2>8
<1>3. CASE StartMatch(h)
  <2>1. /\ pc[h] = "apply" /\ row[m].status = "SCHEDULED" /\ UNCHANGED current
        /\ ThenTell(h, <<MatchStarted(m), MatchState(m, row'[m])>>)
    BY <1>3 DEF StartMatch
  <2>2. row' = [row EXCEPT ![m].status = "ACTIVE", ![m].scores = EmptyScores]
    BY <1>3 DEF StartMatch, Rows!Start, Rows!EmptyScores, Rows!EmptyScore, Rows!Sides,
                EmptyScores, EmptyScore, Sides
  <2> QED
    BY <2>1, <2>2
<1>4. CASE EndMatch(h)
  BY <1>4 DEF EndMatch
<1>5. CASE EnableGoldenScore(h)
  BY <1>5 DEF EnableGoldenScore, Rows!GoldenScore
<1>6. CASE GetMatchState(h)
  BY <1>6 DEF GetMatchState
<1> QED
  BY <1>2, <1>3, <1>4, <1>5, <1>6

(* What a page, a message or a call knows of the competitors of a match is *)
(* right; a competitor who came later may be missing.                      *)

Fewer(rows, r, m) == \A side \in Sides : r.competitor[side] \in {None, rows[m].competitor[side]}

KnownIn(rows, msgs) ==
  \A i \in 1..Len(msgs) : msgs[i].type = "match-state" => Fewer(rows, msgs[i].row, msgs[i].match)

CallKnown(rows, step, c) ==
  /\ step \in {"answer", "tell"} => KnownIn(rows, c.out)
  /\ step = "apply" /\ c.op = "end" =>
       c.competitor # None /\ \E side \in Sides : rows[c.match].competitor[side] = c.competitor

ViewsKnown == \A p \in Pages : view[p].match # None => Fewer(row, view[p].row, view[p].match)

InboxesKnown == \A p \in Pages : KnownIn(row, inbox[p])

CallsKnown == \A h \in Handlers : CallKnown(row, pc[h], call[h])

Known == ViewsKnown /\ InboxesKnown /\ CallsKnown

(* A service changes the row of its own match, and open slots. *)
LEMMA ServiceRows ==
  ASSUME OneLoserPerSlot, Typing, ByScoreOnly, OpenSlots, Known, NEW h \in Handlers,
         \/ ApplyScoreEvent(h) \/ StartMatch(h) \/ EndMatch(h)
         \/ EnableGoldenScore(h) \/ GetMatchState(h)
  PROVE  /\ OpenSlots' /\ SlotsStay
         /\ \A n \in Matches : n # call[h].match /\ Full(row[n]) => row'[n] = row[n]
<1> DEFINE m == call[h].match
<1>1. m \in Matches /\ row \in [Matches -> Row]
  BY ServiceFacts DEF Typing
<1>2. ASSUME NEW winner, NEW how, NEW scores, Complete(m, winner, how, scores),
             row[m].status = "ACTIVE", winner # None,
             \E side \in Sides : row[m].competitor[side] = winner
      PROVE  /\ OpenSlots' /\ SlotsStay
             /\ \A n \in Matches : n # m /\ Full(row[n]) => row'[n] = row[n]
  BY <1>1, <1>2, OpenComplete, CompleteFillsOpen
<1>3. ASSUME row[m].status # "COMPLETED", NEW r \in Row, r.competitor = row[m].competitor,
             row' = [row EXCEPT ![m] = r]
      PROVE  /\ OpenSlots' /\ SlotsStay
             /\ \A n \in Matches : n # m /\ Full(row[n]) => row'[n] = row[n]
  <2>1. \A n \in Matches : /\ row'[n].competitor = row[n].competitor
                           /\ row'[n].status # "COMPLETED" => row[n].status # "COMPLETED"
                           /\ n # m => row'[n] = row[n]
    BY <1>1, <1>3
  <2>2. \A n \in Matches : /\ WinnerTo[n] # None => WinnerTo[n] \in Matches
                           /\ LoserTo[n] # None => LoserTo[n] \in Matches
    BY DrawTypes DEF MaybeMatch
  <2>3. OpenSlots'
    BY <2>1, <2>2 DEF OpenSlots, WalksOn
  <2> QED
    BY <2>1, <2>3 DEF SlotsStay
<1>4. ASSUME UNCHANGED row
      PROVE  /\ OpenSlots' /\ SlotsStay
             /\ \A n \in Matches : n # m /\ Full(row[n]) => row'[n] = row[n]
  BY <1>4 DEF OpenSlots, WalksOn, SlotsStay
<1>5. \/ /\ row[m].status = "ACTIVE"
         /\ \E winner, how, scores :
              /\ Complete(m, winner, how, scores) /\ winner # None
              /\ \E side \in Sides : row[m].competitor[side] = winner
      \/ /\ row[m].status # "COMPLETED"
         /\ \E r \in Row : r.competitor = row[m].competitor /\ row' = [row EXCEPT ![m] = r]
      \/ UNCHANGED row
  <2>1. ASSUME NEW scores \in Scores, row' = [row EXCEPT ![m].scores = scores],
               row[m].status = "ACTIVE"
        PROVE  /\ row[m].status # "COMPLETED"
               /\ \E r \in Row : r.competitor = row[m].competitor /\ row' = [row EXCEPT ![m] = r]
    <3> DEFINE r == [row[m] EXCEPT !.scores = scores]
    <3>1. r \in Row /\ r.competitor = row[m].competitor /\ row' = [row EXCEPT ![m] = r]
      BY <1>1, <2>1 DEF Row, Scores
    <3> HIDE DEF r
    <3> QED
      BY <2>1, <3>1
  <2>2. ASSUME row' = [row EXCEPT ![m].status = "ACTIVE", ![m].scores = EmptyScores],
               row[m].status = "SCHEDULED"
        PROVE  /\ row[m].status # "COMPLETED"
               /\ \E r \in Row : r.competitor = row[m].competitor /\ row' = [row EXCEPT ![m] = r]
    <3> DEFINE r == [row[m] EXCEPT !.status = "ACTIVE", !.scores = EmptyScores]
    <3>1. r \in Row /\ r.competitor = row[m].competitor /\ row' = [row EXCEPT ![m] = r]
      BY <1>1, <2>2, EmptyScoresType DEF Row, Statuses
    <3> HIDE DEF r
    <3> QED
      BY <2>2, <3>1
  <2>3. ASSUME row' = [row EXCEPT ![m].goldenScore = TRUE], row[m].status = "ACTIVE"
        PROVE  /\ row[m].status # "COMPLETED"
               /\ \E r \in Row : r.competitor = row[m].competitor /\ row' = [row EXCEPT ![m] = r]
    <3> DEFINE r == [row[m] EXCEPT !.goldenScore = TRUE]
    <3>1. r \in Row /\ r.competitor = row[m].competitor /\ row' = [row EXCEPT ![m] = r]
      BY <1>1, <2>3 DEF Row
    <3> HIDE DEF r
    <3> QED
      BY <2>3, <3>1
  <2>4. pc[h] = "apply" /\ call[h].op = "end" =>
          /\ call[h].competitor # None
          /\ \E side \in Sides : row[m].competitor[side] = call[h].competitor
    BY DEF Known, CallsKnown, CallKnown
  <2> QED
    BY <2>1, <2>2, <2>3, <2>4, ServiceWrites DEF dbVars
<1> QED
  BY <1>2, <1>3, <1>4, <1>5

LEMMA KnownNothing ==
  ASSUME NEW rows
  PROVE  KnownIn(rows, <<>>)
BY DEF KnownIn

LEMMA KnownOne ==
  ASSUME NEW rows, NEW msg, msg.type # "match-state" \/ Fewer(rows, msg.row, msg.match)
  PROVE  KnownIn(rows, <<msg>>)
BY DEF KnownIn

LEMMA KnownTwo ==
  ASSUME NEW rows, NEW first, NEW second, first.type # "match-state",
         second.type # "match-state" \/ Fewer(rows, second.row, second.match)
  PROVE  KnownIn(rows, <<first, second>>)
<1> DEFINE s == <<first, second>>
<1>1. Len(s) = 2 /\ s[1] = first /\ s[2] = second
  OBVIOUS
<1>2. \A i \in 1..2 : i = 1 \/ i = 2
  OBVIOUS
<1> HIDE DEF s
<1> QED
  BY <1>1, <1>2 DEF KnownIn, s

LEMMA KnownBoth ==
  ASSUME NEW rows, NEW first \in Seq(Message), NEW second \in Seq(Message),
         KnownIn(rows, first), KnownIn(rows, second)
  PROVE  KnownIn(rows, first \o second)
<1> DEFINE all == first \o second
<1>1. /\ Len(all) = Len(first) + Len(second) /\ Len(first) \in Nat /\ Len(second) \in Nat
      /\ \A i \in 1..Len(first) : all[i] = first[i]
      /\ \A i \in (Len(first) + 1)..(Len(first) + Len(second)) : all[i] = second[i - Len(first)]
  BY ConcatProperties, LenProperties
<1>2. \A i \in 1..Len(all) :
        i \in 1..Len(first) \/ (i - Len(first) \in 1..Len(second)
                                 /\ i \in (Len(first) + 1)..(Len(first) + Len(second)))
  BY <1>1
<1> HIDE DEF all
<1> QED
  BY <1>1, <1>2 DEF KnownIn, all

LEMMA KnownTail ==
  ASSUME NEW rows, NEW msgs \in Seq(Message), msgs # <<>>, KnownIn(rows, msgs)
  PROVE  /\ KnownIn(rows, Tail(msgs))
         /\ Head(msgs).type = "match-state" => Fewer(rows, Head(msgs).row, Head(msgs).match)
<1> DEFINE t == Tail(msgs)
<1>1. /\ Len(msgs) \in Nat \ {0} /\ Len(t) = Len(msgs) - 1 /\ Head(msgs) = msgs[1]
      /\ \A i \in 1..Len(t) : t[i] = msgs[i + 1]
  BY HeadTailProperties, LenProperties, EmptySeq
<1>2. \A i \in 1..Len(t) : i + 1 \in 1..Len(msgs)
  BY <1>1
<1>3. 1 \in 1..Len(msgs)
  BY <1>1
<1> HIDE DEF t
<1> QED
  BY <1>1, <1>2, <1>3 DEF KnownIn, t

(* Slots that are taken stay: what was right stays right. *)
LEMMA FewerLater ==
  ASSUME SlotsStay, NEW m \in Matches, NEW r, Fewer(row, r, m)
  PROVE  Fewer(row', r, m)
BY DEF SlotsStay, Fewer

LEMMA KnownLater ==
  ASSUME SlotsStay, NEW msgs \in Seq(Message), KnownIn(row, msgs)
  PROVE  KnownIn(row', msgs)
<1> SUFFICES ASSUME NEW i \in 1..Len(msgs), msgs[i].type = "match-state"
             PROVE  Fewer(row', msgs[i].row, msgs[i].match)
  BY DEF KnownIn
<1>1. msgs[i] \in Message
  BY ElementOfSeq
<1>2. msgs[i].match \in Matches
  BY <1>1 DEF Message
<1>3. Fewer(row, msgs[i].row, msgs[i].match)
  BY DEF KnownIn
<1> QED
  BY <1>2, <1>3, FewerLater

LEMMA CallKnownLater ==
  ASSUME SlotsStay, NEW step, NEW c \in Call, step = "apply" => c.match \in Matches,
         CallKnown(row, step, c)
  PROVE  CallKnown(row', step, c)
<1>1. c.out \in Seq(Message)
  BY DEF Call
<1>2. step \in {"answer", "tell"} => KnownIn(row', c.out)
  BY <1>1, KnownLater DEF CallKnown
<1>3. step = "apply" /\ c.op = "end" =>
        c.competitor # None /\ \E side \in Sides : row'[c.match].competitor[side] = c.competitor
  BY DEF CallKnown, SlotsStay
<1> QED
  BY <1>2, <1>3 DEF CallKnown

(* A step that leaves the views alone. *)
LEMMA KnownGoesOn ==
  ASSUME Typing, Known, SlotsStay, UNCHANGED view,
         NEW msgs \in Seq(Message), KnownIn(row', msgs),
         \A p \in Pages : inbox'[p] \in {inbox[p], <<>>, inbox[p] \o msgs},
         \A h \in Handlers : \/ pc'[h] = pc[h] /\ call'[h] = call[h]
                             \/ CallKnown(row', pc'[h], call'[h])
  PROVE  Known'
<1>1. ViewsKnown'
  <2> SUFFICES ASSUME NEW p \in Pages, view[p].match # None
               PROVE  Fewer(row', view[p].row, view[p].match)
    BY DEF ViewsKnown
  <2>1. view[p].match \in Matches
    BY DEF Typing, PagesOK, View, MaybeMatch
  <2>2. Fewer(row, view[p].row, view[p].match)
    BY DEF Known, ViewsKnown
  <2> QED
    BY <2>1, <2>2, FewerLater
<1>2. InboxesKnown'
  <2> SUFFICES ASSUME NEW p \in Pages PROVE KnownIn(row', inbox'[p])
    BY DEF InboxesKnown
  <2>1. inbox[p] \in Seq(Message) /\ KnownIn(row, inbox[p])
    BY DEF Typing, PagesOK, Known, InboxesKnown
  <2>2. KnownIn(row', inbox[p])
    BY <2>1, KnownLater
  <2>3. KnownIn(row', inbox[p] \o msgs)
    BY <2>1, <2>2, KnownBoth
  <2> QED
    BY <2>2, <2>3, KnownNothing
<1>3. CallsKnown'
  <2> SUFFICES ASSUME NEW h \in Handlers PROVE CallKnown(row', pc'[h], call'[h])
    BY DEF CallsKnown
  <2>1. CallKnown(row', pc[h], call[h])
    BY CallKnownLater DEF Typing, CallsOK, Known, CallsKnown
  <2> QED
    BY <2>1
<1> QED
  BY <1>1, <1>2, <1>3 DEF Known

LEMMA KnownInit == Init => Known
<1> SUFFICES ASSUME Init PROVE Known
  OBVIOUS
<1>1. \A p \in Pages : view[p].match = None /\ inbox[p] = <<>>
  BY DEF Init, NoView
<1>2. \A h \in Handlers : pc[h] = "idle"
  BY DEF Init
<1> QED
  BY <1>1, <1>2, KnownNothing DEF Known, ViewsKnown, InboxesKnown, CallsKnown, CallKnown

LEMMA KnownJoins ==
  ASSUME Typing, Linked, Known, NEW h \in Handlers, NEW p \in Pages, Join(h, p)
  PROVE  Known'
<1> DEFINE where == IF p \in setting.tables THEN "verify" ELSE "look"
<1>1. /\ UNCHANGED <<row, view>> /\ Role("viewer") \in Message /\ Role("viewer").type = "role"
      /\ pc' = [pc EXCEPT ![h] = where]
      /\ \A g \in Handlers : g # h => call'[g] = call[g]
  BY DEF Join, Goto, dbVars, Message, Role, Typing, CallsOK
<1>2. <<Role("viewer")>> \in Seq(Message) /\ KnownIn(row', <<Role("viewer")>>)
  BY <1>1, KnownOne
<1>3. \A q \in Pages : inbox'[q] \in {inbox[q], <<>>, inbox[q] \o <<Role("viewer")>>}
  <2>1. inbox[p] = <<>>
    BY DEF Join, Linked, Connected, InTheirRoom
  <2>2. Append(<<>>, Role("viewer")) = <<>> \o <<Role("viewer")>>
    OBVIOUS
  <2> QED
    BY <2>1, <2>2 DEF Join, Typing, PagesOK
<1>4. \A g \in Handlers : \/ pc'[g] = pc[g] /\ call'[g] = call[g]
                          \/ pc'[g] \in {"verify", "look"}
  BY <1>1 DEF Typing, CallsOK
<1>5. SlotsStay
  BY <1>1 DEF SlotsStay
<1>6. \A g \in Handlers : pc'[g] \in {"verify", "look"} => CallKnown(row', pc'[g], call'[g])
  BY DEF CallKnown
<1> QED
  BY <1>1, <1>2, <1>3, <1>4, <1>5, <1>6, KnownGoesOn

(* A step that writes no row and sends what is known. *)
LEMMA KnownSends ==
  ASSUME Typing, Known, UNCHANGED <<row, view>>, NEW h \in Handlers,
         NEW msgs \in Seq(Message), KnownIn(row, msgs),
         (\E s : Emit(s, msgs)) \/ (\E room : Broadcast(room, msgs)) \/ UNCHANGED inbox,
         \A g \in Handlers : g = h \/ (pc'[g] = pc[g] /\ call'[g] = call[g]),
         CallKnown(row, pc'[h], call'[h])
  PROVE  Known'
<1>1. \A q \in Pages : inbox'[q] \in {inbox[q], <<>>, inbox[q] \o msgs}
  BY DEF Emit, Broadcast
<1>2. SlotsStay
  BY DEF SlotsStay
<1>3. \A g \in Handlers : \/ pc'[g] = pc[g] /\ call'[g] = call[g]
                          \/ CallKnown(row', pc'[g], call'[g])
  <2> SUFFICES ASSUME NEW g \in Handlers, g = h PROVE CallKnown(row', pc'[g], call'[g])
    OBVIOUS
  <2> QED
    OBVIOUS
<1>4. KnownIn(row', msgs)
  OBVIOUS
<1> QED
  BY <1>1, <1>2, <1>3, <1>4, KnownGoesOn

LEMMA KnownAnswers ==
  ASSUME Typing, Linked, Known, NEW h \in Handlers, VerifyPin(h) \/ GetMatState(h) \/ Answer(h)
  PROVE  Known'
<1> DEFINE s == call[h].socket
           mat == MatOfPage[PageOf(s)]
<1>1. UNCHANGED <<row, view>> /\ call[h] \in Call
  BY DEF VerifyPin, GetMatState, Answer, dbVars, pageVars, Typing, CallsOK
<1>2. CASE VerifyPin(h)
  <2>1. /\ Emit(s, <<Role("controller")>>) /\ pc' = [pc EXCEPT ![h] = "look"] /\ call' = call
        /\ Role("controller") \in Message /\ Role("controller").type = "role"
    BY <1>2 DEF VerifyPin, Goto, Message, Role
  <2>2. <<Role("controller")>> \in Seq(Message) /\ KnownIn(row, <<Role("controller")>>)
    BY <2>1, KnownOne
  <2>3. /\ pc'[h] = "look"
        /\ \A g \in Handlers : g = h \/ (pc'[g] = pc[g] /\ call'[g] = call[g])
    BY <2>1 DEF Typing, CallsOK
  <2>4. CallKnown(row, pc'[h], call'[h])
    BY <2>3 DEF CallKnown
  <2> QED
    BY <1>1, <2>1, <2>2, <2>3, <2>4, KnownSends
<1>3. CASE GetMatState(h)
  <2> DEFINE m == current[mat]
             out == IF m = None THEN <<>> ELSE <<MatchState(m, row[m])>>
  <2>1. /\ pc' = [pc EXCEPT ![h] = "answer"] /\ call' = [call EXCEPT ![h].out = out]
        /\ UNCHANGED inbox
    BY <1>3 DEF GetMatState, Goto
  <2>2. KnownIn(row, out)
    <3>1. MatchState(m, row[m]).row = row[m] /\ MatchState(m, row[m]).match = m
      BY DEF MatchState
    <3>2. Fewer(row, row[m], m)
      BY DEF Fewer
    <3> QED
      BY <3>1, <3>2, KnownNothing, KnownOne
  <2> HIDE DEF out
  <2>3. /\ pc'[h] = "answer" /\ call'[h].out = out
        /\ \A g \in Handlers : g = h \/ (pc'[g] = pc[g] /\ call'[g] = call[g])
    BY <2>1 DEF Typing, CallsOK, Call
  <2>4. CallKnown(row, pc'[h], call'[h])
    BY <2>2, <2>3 DEF CallKnown
  <2>5. <<>> \in Seq(Message) /\ KnownIn(row, <<>>)
    BY EmptySeq, KnownNothing
  <2> QED
    BY <1>1, <2>1, <2>3, <2>4, <2>5, KnownSends
<1>4. CASE Answer(h)
  <2>1. Emit(s, call[h].out) /\ Return(h) /\ pc[h] = "answer"
    BY <1>4 DEF Answer
  <2>2. call[h].out \in Seq(Message) /\ KnownIn(row, call[h].out)
    BY <1>1, <2>1 DEF Call, Known, CallsKnown, CallKnown
  <2>3. /\ pc'[h] = "idle"
        /\ \A g \in Handlers : g = h \/ (pc'[g] = pc[g] /\ call'[g] = call[g])
    BY <2>1 DEF Return, Goto, Typing, CallsOK
  <2>4. CallKnown(row, pc'[h], call'[h])
    BY <2>3 DEF CallKnown
  <2> QED
    BY <1>1, <2>1, <2>2, <2>3, <2>4, KnownSends
<1> QED
  BY <1>2, <1>3, <1>4

LEMMA KnownPlain ==
  ASSUME Typing, Known, NEW h \in Handlers, NEW p \in Pages, NEW side \in Sides, Plain(h, p, side)
  PROVE  Known'
<1>1. PICK c \in Call :
        /\ call' = [call EXCEPT ![h] = c] /\ c.match = view[p].match
        /\ c.op = "end" => /\ c.competitor = view[p].row.competitor[side]
                           /\ c.competitor # None
  BY PlainCall
<1>2. /\ UNCHANGED <<row, view, inbox>> /\ pc' = [pc EXCEPT ![h] = "apply"]
      /\ view[p].match \in Matches
  BY PlainCall DEF dbVars
<1>3. /\ pc'[h] = "apply" /\ call'[h] = c
      /\ \A g \in Handlers : g = h \/ (pc'[g] = pc[g] /\ call'[g] = call[g])
  BY <1>1, <1>2 DEF Typing, CallsOK
<1>4. Fewer(row, view[p].row, view[p].match)
  BY <1>2, DrawTypes DEF Known, ViewsKnown
<1>5. CallKnown(row, "apply", c)
  BY <1>1, <1>4 DEF CallKnown, Fewer
<1>6. <<>> \in Seq(Message) /\ KnownIn(row, <<>>)
  BY EmptySeq, KnownNothing
<1> QED
  BY <1>2, <1>3, <1>5, <1>6, KnownSends

LEMMA KnownHoldDowns ==
  ASSUME Typing, Linked, NumbersGiven, Known,
         \/ \E p \in Pages, side \in Sides : StartHoldDown(p, side)
         \/ \E h \in Handlers, m \in Matches, s \in Sockets \cup {None} :
              \E held, others : Resolve(h, m, held, s, others)
  PROVE  Known'
<1>1. ASSUME NEW p \in Pages, NEW side \in Sides, StartHoldDown(p, side) PROVE Known'
  <2>1. PICK m \in Matches, c \in MaybeCompetitor, n \in Nat \ {0}, t \in Tracker :
          /\ OsaekomiStarted(m, c, n) \in Message
          /\ Broadcast(MatOfPage[p], <<OsaekomiStarted(m, c, n)>>)
          /\ UNCHANGED <<setting, dbVars, rooms, controllers, pc, call, pageVars>>
    BY <1>1, StartFacts
  <2> DEFINE msgs == <<OsaekomiStarted(m, c, n)>>
  <2>2. msgs \in Seq(Message) /\ KnownIn(row, msgs)
    <3>1. OsaekomiStarted(m, c, n).type # "match-state"
      BY DEF OsaekomiStarted
    <3> QED
      BY <2>1, <3>1, KnownOne
  <2>3. UNCHANGED <<row, view, pc, call>>
    BY <2>1 DEF dbVars, pageVars
  <2>4. \A q \in Pages : inbox'[q] \in {inbox[q], <<>>, inbox[q] \o msgs}
    BY <2>1 DEF Broadcast
  <2>5. SlotsStay /\ KnownIn(row', msgs)
    BY <2>2, <2>3 DEF SlotsStay
  <2> HIDE DEF msgs
  <2> QED
    BY <2>2, <2>3, <2>4, <2>5, KnownGoesOn
<1>2. ASSUME NEW h \in Handlers, NEW m \in Matches, NEW s \in Sockets \cup {None},
             NEW held, NEW others, Resolve(h, m, held, s, others)
      PROVE  Known'
  <2>0. HoldDownEnds(h, m)
    BY <1>2, ResolveFacts
  <2>1. /\ OsaekomiStopped(m) \in Message
        /\ Broadcast(osaekomi[m].room, <<OsaekomiStopped(m)>>)
        /\ UNCHANGED <<dbVars, pageVars>> /\ pc[h] = "idle"
        /\ \/ UNCHANGED <<pc, call>>
           \/ \E c \in Call : /\ c.op = "score"
                              /\ pc' = [pc EXCEPT ![h] = "apply"] /\ call' = [call EXCEPT ![h] = c]
    BY <2>0 DEF HoldDownEnds
  <2>2. <<OsaekomiStopped(m)>> \in Seq(Message) /\ KnownIn(row, <<OsaekomiStopped(m)>>)
    <3>1. OsaekomiStopped(m).type # "match-state"
      BY DEF OsaekomiStopped
    <3> QED
      BY <2>1, <3>1, KnownOne
  <2>3. UNCHANGED <<row, view>>
    BY <2>1 DEF dbVars, pageVars
  <2>4. /\ pc'[h] = "idle" \/ (pc'[h] = "apply" /\ call'[h].op = "score")
        /\ \A g \in Handlers : g = h \/ (pc'[g] = pc[g] /\ call'[g] = call[g])
    BY <2>1 DEF Typing, CallsOK
  <2>5. CallKnown(row, pc'[h], call'[h])
    BY <2>4 DEF CallKnown
  <2> QED
    BY <2>1, <2>2, <2>3, <2>4, <2>5, KnownSends
<1> QED
  BY <1>1, <1>2

LEMMA KnownReturns ==
  ASSUME Typing, Known, NEW h \in Handlers, Return(h), UNCHANGED <<dbVars, pageVars, inbox>>
  PROVE  Known'
<1>1. <<>> \in Seq(Message) /\ KnownIn(row, <<>>)
  BY EmptySeq, KnownNothing
<1>2. /\ pc'[h] = "idle"
      /\ \A g \in Handlers : g = h \/ (pc'[g] = pc[g] /\ call'[g] = call[g])
  BY DEF Return, Goto, Typing, CallsOK
<1>3. CallKnown(row, pc'[h], call'[h])
  BY <1>2 DEF CallKnown
<1> QED
  BY <1>1, <1>2, <1>3, KnownSends DEF dbVars, pageVars

LEMMA KnownTells ==
  ASSUME Typing, Linked, Known, NEW h \in Handlers, Tell(h)
  PROVE  Known'
<1> DEFINE msgs == call[h].out
<1>1. /\ call[h].match \in Matches /\ msgs \in Results(call[h].match)
      /\ Broadcast(Home(call[h]), msgs) \/ UNCHANGED inbox
      /\ Return(h) /\ UNCHANGED <<dbVars, pageVars>>
  BY TellFacts
<1>2. pc[h] = "tell"
  BY DEF Tell
<1>3. msgs \in Seq(Message) /\ KnownIn(row, msgs)
  BY <1>1, <1>2, ResultsAbout DEF Known, CallsKnown, CallKnown
<1>4. /\ pc'[h] = "idle"
      /\ \A g \in Handlers : g = h \/ (pc'[g] = pc[g] /\ call'[g] = call[g])
  BY <1>1 DEF Return, Goto, Typing, CallsOK
<1>5. CallKnown(row, pc'[h], call'[h])
  BY <1>4 DEF CallKnown
<1> HIDE DEF msgs
<1> QED
  BY <1>1, <1>3, <1>4, <1>5, KnownSends DEF dbVars, pageVars

LEMMA KnownDelivers ==
  ASSUME Typing, Linked, Known, NEW p \in Pages, Deliver(p)
  PROVE  Known'
<1> DEFINE msg == Head(inbox[p])
<1>1. /\ inbox[p] # <<>> /\ msg \in Message
      /\ inbox' = [inbox EXCEPT ![p] = Tail(inbox[p])]
      /\ view' = [view EXCEPT ![p] = ViewAfter(view[p], msg)]
      /\ UNCHANGED <<dbVars, pc, call>>
  BY DeliverFacts
<1>2. /\ UNCHANGED <<row, pc, call>> /\ inbox[p] \in Seq(Message) /\ view[p] \in View
      /\ KnownIn(row, inbox[p])
      /\ view[p].match # None => Fewer(row, view[p].row, view[p].match)
  BY <1>1 DEF dbVars, Typing, PagesOK, Known, InboxesKnown, ViewsKnown
<1>3. /\ KnownIn(row, Tail(inbox[p]))
      /\ msg.type = "match-state" => Fewer(row, msg.row, msg.match)
  BY <1>1, <1>2, KnownTail
<1> HIDE DEF msg
<1>4. ViewAfter(view[p], msg).match # None =>
        Fewer(row, ViewAfter(view[p], msg).row, ViewAfter(view[p], msg).match)
  <2> DEFINE v == view[p]
             w == ViewAfter(view[p], msg)
  <2>1. CASE msg.type = "match-state"
    <3>1. w = [match |-> msg.match, row |-> msg.row]
      BY <2>1 DEF ViewAfter
    <3>2. w.match = msg.match /\ w.row = msg.row
      BY <3>1
    <3> QED
      BY <1>3, <2>1, <3>2
  <2>2. CASE msg.type # "match-state"
    <3>1. w.match = v.match /\ w.row.competitor = v.row.competitor
      <4>1. v.row \in Row
        BY <1>2 DEF View
      <4> QED
        BY <1>2, <2>2, <4>1 DEF ViewAfter, View, Row
    <3>2. v.match # None => Fewer(row, v.row, v.match)
      BY <1>2
    <3> HIDE DEF v, w
    <3>3. w.match # None => Fewer(row, w.row, w.match)
      BY <3>1, <3>2 DEF Fewer
    <3> QED
      BY <3>3 DEF w
  <2> QED
    BY <2>1, <2>2
<1>5. ViewsKnown'
  <2> SUFFICES ASSUME NEW q \in Pages, view'[q].match # None
               PROVE  Fewer(row', view'[q].row, view'[q].match)
    BY DEF ViewsKnown
  <2>1. CASE q = p
    BY <1>1, <1>2, <1>4, <2>1 DEF Typing, PagesOK
  <2>2. CASE q # p
    BY <1>1, <1>2, <2>2 DEF Typing, PagesOK, Known, ViewsKnown
  <2> QED
    BY <2>1, <2>2
<1>6. InboxesKnown'
  <2> SUFFICES ASSUME NEW q \in Pages PROVE KnownIn(row', inbox'[q])
    BY DEF InboxesKnown
  <2> QED
    BY <1>1, <1>2, <1>3 DEF Typing, PagesOK, Known, InboxesKnown
<1>7. CallsKnown'
  BY <1>2 DEF Known, CallsKnown
<1> QED
  BY <1>5, <1>6, <1>7 DEF Known

LEMMA KnownLosses ==
  ASSUME Typing, Linked, Known,
         (\E p \in Pages : Disconnect(p) \/ PauseOrResume(p)) \/ Tick \/ ServerStops
  PROVE  Known'
<1>1. UNCHANGED <<row, view>>
  BY DEF Disconnect, PauseOrResume, Tick, ServerStops, dbVars
<1>2. \A q \in Pages : inbox'[q] \in {inbox[q], <<>>, inbox[q] \o <<>>}
  BY DEF Disconnect, PauseOrResume, Tick, ServerStops, Typing, PagesOK
<1>3. \A h \in Handlers : \/ pc'[h] = pc[h] /\ call'[h] = call[h]
                          \/ pc'[h] = "idle"
  BY DEF Disconnect, PauseOrResume, Tick, ServerStops
<1>4. \A h \in Handlers : pc'[h] = "idle" => CallKnown(row', pc'[h], call'[h])
  BY DEF CallKnown
<1>5. <<>> \in Seq(Message) /\ KnownIn(row', <<>>) /\ SlotsStay
  BY <1>1, EmptySeq, KnownNothing DEF SlotsStay
<1> QED
  BY <1>1, <1>2, <1>3, <1>4, <1>5, KnownGoesOn

LEMMA KnownServices ==
  ASSUME OneLoserPerSlot, Typing, ByScoreOnly, OpenSlots, Known, NEW h \in Handlers,
         \/ ApplyScoreEvent(h) \/ StartMatch(h) \/ EndMatch(h)
         \/ EnableGoldenScore(h) \/ GetMatchState(h)
  PROVE  Known'
<1> DEFINE m == call[h].match
<1>1. SlotsStay
  BY ServiceRows
<1>2. /\ UNCHANGED <<view, inbox>> /\ call[h] \in Call /\ m \in Matches
      /\ \A g \in Handlers : g = h \/ (pc'[g] = pc[g] /\ call'[g] = call[g])
  BY ServiceFacts DEF pageVars, Typing, CallsOK
<1>4. /\ \A scores : KnownIn(row', <<ScoreUpdate(m, scores)>>)
      /\ \A c, how : KnownIn(row', <<MatchEnded(m, c, how)>>)
      /\ \A scores, c, how : KnownIn(row', <<ScoreUpdate(m, scores), MatchEnded(m, c, how)>>)
      /\ KnownIn(row', <<MatchStarted(m), MatchState(m, row'[m])>>)
      /\ KnownIn(row', <<MatchState(m, row'[m])>>)
  <2>1. /\ \A scores : ScoreUpdate(m, scores).type # "match-state"
        /\ \A c, how : MatchEnded(m, c, how).type # "match-state"
        /\ MatchStarted(m).type # "match-state"
        /\ MatchState(m, row'[m]).row = row'[m] /\ MatchState(m, row'[m]).match = m
    BY DEF ScoreUpdate, MatchEnded, MatchStarted, MatchState
  <2>2. Fewer(row', row'[m], m)
    BY DEF Fewer
  <2>3. Fewer(row', MatchState(m, row'[m]).row, MatchState(m, row'[m]).match)
    BY <2>1, <2>2
  <2>4. /\ KnownIn(row', <<MatchStarted(m), MatchState(m, row'[m])>>)
        /\ KnownIn(row', <<MatchState(m, row'[m])>>)
    BY <2>1, <2>3, KnownOne, KnownTwo
  <2>5. /\ \A scores : KnownIn(row', <<ScoreUpdate(m, scores)>>)
        /\ \A c, how : KnownIn(row', <<MatchEnded(m, c, how)>>)
    BY <2>1, KnownOne
  <2>6. \A scores, c, how : KnownIn(row', <<ScoreUpdate(m, scores), MatchEnded(m, c, how)>>)
    <3> SUFFICES ASSUME NEW scores, NEW c, NEW how
                 PROVE  KnownIn(row', <<ScoreUpdate(m, scores), MatchEnded(m, c, how)>>)
      OBVIOUS
    <3>1. ScoreUpdate(m, scores).type # "match-state" /\ MatchEnded(m, c, how).type # "match-state"
      BY <2>1
    <3> QED
      BY <3>1, KnownTwo
  <2> QED
    BY <2>4, <2>5, <2>6
<1>5. \/ \E msgs : KnownIn(row', msgs) /\ Goto(h, "tell") /\ call' = [call EXCEPT ![h].out = msgs]
      \/ Goto(h, "reread")
      \/ UNCHANGED row /\ Goto(h, "tell") /\ call' = [call EXCEPT ![h].out = <<MatchState(m, row[m])>>]
  BY <1>4, ServiceWrites DEF ThenTell, dbVars
<1>6. ASSUME Goto(h, "reread") PROVE CallKnown(row', pc'[h], call'[h])
  <2>1. pc'[h] = "reread"
    BY <1>6 DEF Goto, Typing, CallsOK
  <2> QED
    BY <2>1 DEF CallKnown
<1>7. ASSUME NEW msgs, KnownIn(row', msgs), Goto(h, "tell"), call' = [call EXCEPT ![h].out = msgs]
      PROVE  CallKnown(row', pc'[h], call'[h])
  <2>1. pc'[h] = "tell" /\ call'[h].out = msgs
    BY <1>2, <1>7 DEF Goto, Typing, CallsOK, Call
  <2> QED
    BY <1>7, <2>1 DEF CallKnown
<1>8. CallKnown(row', pc'[h], call'[h])
  <2>1. UNCHANGED row => KnownIn(row', <<MatchState(m, row[m])>>)
    BY <1>4
  <2>2. \/ Goto(h, "reread")
        \/ \E msgs : KnownIn(row', msgs) /\ Goto(h, "tell") /\ call' = [call EXCEPT ![h].out = msgs]
    BY <1>5, <2>1
  <2> QED
    BY <1>6, <1>7, <2>2
<1>9. <<>> \in Seq(Message) /\ KnownIn(row', <<>>)
  BY EmptySeq, KnownNothing
<1>10. \A g \in Handlers : \/ pc'[g] = pc[g] /\ call'[g] = call[g]
                           \/ CallKnown(row', pc'[g], call'[g])
  <2> SUFFICES ASSUME NEW g \in Handlers, g = h PROVE CallKnown(row', pc'[g], call'[g])
    BY <1>2
  <2> QED
    BY <1>8
<1>11. \A q \in Pages : inbox'[q] \in {inbox[q], <<>>, inbox[q] \o <<>>}
  BY <1>2
<1> QED
  BY <1>1, <1>2, <1>9, <1>10, <1>11, KnownGoesOn

LEMMA KnownNext ==
  ASSUME OneLoserPerSlot, Typing, NumbersGiven, Linked, ByScoreOnly, OpenSlots, Known, [Next]_vars
  PROVE  OpenSlots' /\ Known'
<1>1. CASE Next
  <2>1. UNCHANGED row => OpenSlots'
    BY DEF OpenSlots, WalksOn
  <2>2. ASSUME NEW h \in Handlers, NEW p \in Pages,
               Join(h, p) \/ SendStopHoldDown(h, p) \/ \E side \in Sides : Plain(h, p, side)
        PROVE  OpenSlots' /\ Known'
    <3>1. UNCHANGED row
      BY <2>2, PlainCall DEF Join, SendStopHoldDown, Resolve, dbVars
    <3> QED
      BY <2>1, <2>2, <3>1, KnownJoins, KnownPlain, ResolveSteps, KnownHoldDowns
  <2>3. ASSUME NEW h \in Handlers, NEW m \in Matches, TimerFires(h, m)
        PROVE  OpenSlots' /\ Known'
    <3>1. UNCHANGED row
      BY <2>3 DEF TimerFires, Resolve, dbVars
    <3> QED
      BY <2>1, <2>3, <3>1, ResolveSteps, KnownHoldDowns
  <2>4. ASSUME NEW h \in Handlers, Proceed(h)
        PROVE  OpenSlots' /\ Known'
    <3>1. CASE \/ ApplyScoreEvent(h) \/ StartMatch(h) \/ EndMatch(h)
               \/ EnableGoldenScore(h) \/ GetMatchState(h)
      BY <3>1, ServiceRows, KnownServices
    <3>2. Reject(h) \/ RejectDetached(h) =>
            ServerStops \/ (Return(h) /\ UNCHANGED <<dbVars, pageVars, inbox>>)
      BY DEF Reject, RejectDetached
    <3>3. CASE Reject(h) \/ RejectDetached(h)
      BY <2>1, <3>2, <3>3, KnownReturns, KnownLosses DEF ServerStops, dbVars
    <3>4. CASE VerifyPin(h) \/ GetMatState(h) \/ Answer(h) \/ Tell(h)
      BY <2>1, <3>4, KnownAnswers, KnownTells DEF VerifyPin, GetMatState, Answer, Tell, dbVars
    <3> QED
      BY <2>4, <3>1, <3>3, <3>4 DEF Proceed
  <2>5. ASSUME NEW p \in Pages, NEW side \in Sides, StartHoldDown(p, side)
        PROVE  OpenSlots' /\ Known'
    BY <2>1, <2>5, KnownHoldDowns DEF StartHoldDown, dbVars
  <2>6. ASSUME NEW p \in Pages, Deliver(p) \/ Disconnect(p) \/ PauseOrResume(p)
        PROVE  OpenSlots' /\ Known'
    BY <2>1, <2>6, KnownDelivers, KnownLosses DEF Deliver, Disconnect, PauseOrResume, dbVars
  <2>7. Tick \/ ServerStops => OpenSlots' /\ Known'
    BY <2>1, KnownLosses DEF Tick, ServerStops, dbVars
  <2> QED
    BY <1>1, <2>2, <2>3, <2>4, <2>5, <2>6, <2>7, NextSteps
<1>2. CASE UNCHANGED vars
  <2>1. UNCHANGED <<row, pc, call, view, inbox>>
    BY <1>2 DEF vars, dbVars, pageVars
  <2> QED
    BY <2>1 DEF OpenSlots, WalksOn, Known, ViewsKnown, InboxesKnown, CallsKnown
<1> QED
  BY <1>1, <1>2

-----------------------------------------------------------------------------
(* When calls do not overlap, what a page has still to be told is known:   *)
(* what is on its way to it, and what is due to it from the only call.     *)

ViewStep == [x \in View \X Message |-> ViewAfter(x[1], x[2])]

(* join-mat answers with the state of the mat, if it has a match. *)
StateOf(rows, matches, mat) ==
  IF matches[mat] = None THEN <<>> ELSE <<MatchState(matches[mat], rows[matches[mat]])>>

(* What a call will send to connection s, of a page of the mat. *)
Due(rows, matches, step, c, mat, s) ==
  CASE step = "tell" /\ Home(c) = mat -> c.out
    [] step = "reread" /\ Home(c) = mat -> <<MatchState(c.match, rows[c.match])>>
    [] step = "answer" /\ c.socket = s -> c.out
    [] step \in {"verify", "look"} /\ c.socket = s -> StateOf(rows, matches, mat)
    [] OTHER -> <<>>

Agrees(rows, v, mat) ==
  v.match # None => v.match \in OnMat(mat) /\ (Full(v.row) => v.row = rows[v.match])

(* Nothing fails, or this is the only page; and it has not come back to a  *)
(* mat that has no match.                                                  *)
Told(p) ==
  /\ setting.faults = {} \/ setting.pages = {p}
  /\ current[MatOfPage[p]] # None \/ socket[p] = 1

WillAgree(p) ==
  \E h \in setting.handlers, e, f \in View :
    /\ Leads(ViewStep, View, view[p], inbox[p], e)
    /\ Leads(ViewStep, View, e, Due(row, current, pc[h], call[h], MatOfPage[p], Socket(p)), f)
    /\ Agrees(row, f, MatOfPage[p])

PagesWillAgree == \A p \in setting.pages : online[p] /\ Told(p) => WillAgree(p)

(* Who has called is still connected, or nobody is told. *)
CallersThere ==
  \A h \in setting.handlers : pc[h] # "idle" /\ call[h].number = 0 =>
    /\ PageOf(call[h].socket) \in setting.pages
    /\ setting.faults = {} \/ online[PageOf(call[h].socket)] => call[h].socket \in rooms

ViewsInv == Serial => CallersThere /\ PagesWillAgree

(* The steps of the system with the bounds of a setting. *)
LEMMA NextCalls ==
  ASSUME Typing, Next
  PROVE  \/ \E h \in setting.handlers :
              \/ \E p \in setting.pages :
                   \/ Join(h, p) \/ SendStopHoldDown(h, p)
                   \/ \E side \in Sides : Plain(h, p, side)
              \/ \E m \in Matches : TimerFires(h, m)
              \/ Proceed(h)
         \/ \E p \in setting.pages, side \in Sides : StartHoldDown(p, side)
         \/ \E p \in setting.pages : Deliver(p) \/ Disconnect(p) \/ PauseOrResume(p)
         \/ Tick \/ ServerStops
<1>1. setting.sides \subseteq Sides
  BY GatewayTypes DEF Typing
<1>2. 1 \in Sides
  BY DEF Sides
<1>3. ASSUME NEW h \in setting.handlers, NEW p \in setting.pages, Send(h, p)
      PROVE  SendStopHoldDown(h, p) \/ \E side \in Sides : Plain(h, p, side)
  BY <1>1, <1>2, <1>3 DEF Send, Plain
<1> QED
  BY <1>1, <1>3 DEF Next, Crash

(* Only calls of a page that is connected are under way. *)
LEMMA CallersJoin ==
  ASSUME Typing, Serial, CallersThere, NEW h \in setting.handlers,
         NEW p \in setting.pages, Join(h, p)
  PROVE  CallersThere'
<1>1. /\ UNCHANGED setting /\ rooms' = rooms \cup {<<p, socket[p] + 1>>}
      /\ call'[h].socket = <<p, socket[p] + 1>>
  <2>1. h \in Handlers
    BY RightMats
  <2> QED
    BY <2>1 DEF Join, Typing, CallsOK, NoCall
<1>2. \A g \in setting.handlers : g = h
  BY DEF Serial
<1> SUFFICES ASSUME NEW g \in setting.handlers
             PROVE  /\ PageOf(call'[g].socket) \in setting.pages
                    /\ call'[g].socket \in rooms'
  BY <1>1 DEF CallersThere
<1>3. g = h /\ PageOf(<<p, socket[p] + 1>>) = p
  BY <1>2 DEF PageOf
<1> QED
  BY <1>1, <1>3

LEMMA CallersStay ==
  ASSUME CallersThere, UNCHANGED <<setting, rooms, online>>,
         \A g \in setting.handlers :
           \/ pc'[g] = "idle" \/ call'[g].number # 0
           \/ /\ pc[g] # "idle" /\ call[g].number = 0
              /\ call'[g].socket = call[g].socket
           \/ /\ PageOf(call'[g].socket) \in setting.pages
              /\ call'[g].socket \in rooms
  PROVE  CallersThere'
BY DEF CallersThere

LEMMA CallersPlain ==
  ASSUME Typing, Linked, CallersThere, NEW h \in setting.handlers,
         NEW p \in setting.pages, NEW side \in Sides, Plain(h, p, side)
  PROVE  CallersThere'
<1>1. h \in Handlers /\ p \in Pages
  BY RightMats
<1>2. PICK c \in Call : call' = [call EXCEPT ![h] = c] /\ c.socket = Socket(p)
  BY <1>1, PlainCall
<1>3. online[p] /\ UNCHANGED <<setting, rooms, online>> /\ pc' = [pc EXCEPT ![h] = "apply"]
  BY <1>1, PlainCall DEF serverVars
<1>4. Socket(p) \in rooms /\ PageOf(Socket(p)) = p
  BY <1>1, <1>3, RightMats DEF Linked, Connected, InTheirRoom
<1>5. \A g \in setting.handlers : IF g = h THEN call'[g] = c
                                  ELSE pc'[g] = pc[g] /\ call'[g] = call[g]
  BY <1>1, <1>2, <1>3, RightMats DEF Typing, CallsOK
<1>6. \A g \in setting.handlers :
        \/ pc'[g] = "idle" \/ call'[g].number # 0
        \/ /\ pc[g] # "idle" /\ call[g].number = 0
           /\ call'[g].socket = call[g].socket
        \/ /\ PageOf(call'[g].socket) \in setting.pages
           /\ call'[g].socket \in rooms
  BY <1>2, <1>4, <1>5
<1> QED
  BY <1>3, <1>6, CallersStay

LEMMA CallersResolve ==
  ASSUME Typing, Linked, NumbersGiven, CallersThere, NEW h \in Handlers, NEW m \in Matches, NEW held,
         NEW s \in Sockets \cup {None}, NEW others, Resolve(h, m, held, s, others)
  PROVE  CallersThere'
<1>0. HoldDownEnds(h, m)
  BY ResolveFacts
<1>1. /\ UNCHANGED <<setting, rooms, pageVars>>
      /\ \/ UNCHANGED <<pc, call>>
         \/ \E c \in Call : /\ c.number # 0
                            /\ pc' = [pc EXCEPT ![h] = "apply"] /\ call' = [call EXCEPT ![h] = c]
  BY <1>0 DEF HoldDownEnds
<1>2. UNCHANGED online /\ setting.handlers \subseteq Handlers
  BY <1>1, RightMats DEF pageVars
<1>3. CASE UNCHANGED <<pc, call>>
  BY <1>1, <1>2, <1>3, CallersStay
<1>4. ASSUME NEW c \in Call, c.number # 0, pc' = [pc EXCEPT ![h] = "apply"],
             call' = [call EXCEPT ![h] = c]
      PROVE  CallersThere'
  <2>1. \A g \in setting.handlers : IF g = h THEN call'[g] = c
                                    ELSE pc'[g] = pc[g] /\ call'[g] = call[g]
    BY <1>2, <1>4 DEF Typing, CallsOK
  <2>2. \A g \in setting.handlers : \/ pc'[g] = pc[g] /\ call'[g] = call[g]
                                    \/ call'[g].number # 0
    BY <1>4, <2>1
  <2>3. \A g \in setting.handlers :
          \/ pc'[g] = "idle" \/ call'[g].number # 0
          \/ /\ pc[g] # "idle" /\ call[g].number = 0
             /\ call'[g].socket = call[g].socket
          \/ /\ PageOf(call'[g].socket) \in setting.pages
             /\ call'[g].socket \in rooms
    BY <2>2
  <2> QED
    BY <1>1, <1>2, <2>3, CallersStay
<1> QED
  BY <1>1, <1>3, <1>4

(* A call that goes on or ends. *)
LEMMA CallersProceed ==
  ASSUME Typing, CallersThere, NEW h \in Handlers, Proceed(h), ~ServerStops
  PROVE  CallersThere'
<1> DEFINE Goal == /\ UNCHANGED <<setting, rooms, online>>
                   /\ \A g \in Handlers :
                        \/ pc'[g] = "idle"
                        \/ pc'[g] = pc[g] /\ call'[g] = call[g]
                        \/ /\ pc[g] # "idle" /\ call'[g].number = call[g].number
                           /\ call'[g].socket = call[g].socket
<1>1. /\ setting.handlers \subseteq Handlers /\ call \in [Handlers -> Call]
      /\ pc \in [Handlers -> {"idle", "verify", "look", "answer", "apply", "reread", "tell"}]
  BY RightMats DEF Typing, CallsOK
<1>2. ASSUME VerifyPin(h) PROVE Goal
  BY <1>1, <1>2 DEF VerifyPin, Goto, pageVars
<1>3. ASSUME GetMatState(h) PROVE Goal
  BY <1>1, <1>3 DEF GetMatState, Goto, pageVars, serverVars, Call
<1>4. ASSUME Return(h), UNCHANGED <<setting, serverVars, pageVars>> PROVE Goal
  BY <1>1, <1>4 DEF Return, Goto, serverVars, pageVars
<1>5. ASSUME Answer(h) \/ Tell(h) \/ Reject(h) \/ RejectDetached(h) PROVE Goal
  BY <1>4, <1>5 DEF Answer, Tell, Reject, RejectDetached
<1>6. ASSUME \/ ApplyScoreEvent(h) \/ StartMatch(h) \/ EndMatch(h)
             \/ EnableGoldenScore(h) \/ GetMatchState(h)
      PROVE  Goal
  <2>1. /\ pc[h] \in {"apply", "reread"} /\ UNCHANGED <<setting, serverVars, pageVars>>
        /\ \E c \in Call, where \in {"tell", "reread"} :
             /\ pc' = [pc EXCEPT ![h] = where] /\ call' = [call EXCEPT ![h] = c]
             /\ c.number = call[h].number /\ c.socket = call[h].socket
    BY <1>6, ServiceFacts
  <2> QED
    BY <1>1, <2>1 DEF serverVars, pageVars
<1>7. Goal
  BY <1>2, <1>3, <1>5, <1>6 DEF Proceed
<1>8. /\ UNCHANGED <<setting, rooms, online>>
      /\ \A g \in setting.handlers :
           \/ pc'[g] = "idle" \/ call'[g].number # 0
           \/ /\ pc[g] # "idle" /\ call[g].number = 0
              /\ call'[g].socket = call[g].socket
  <2>1. ASSUME NEW g \in setting.handlers, pc'[g] = pc[g], call'[g] = call[g]
        PROVE  \/ pc'[g] = "idle" \/ call'[g].number # 0
               \/ /\ pc[g] # "idle" /\ call[g].number = 0
                  /\ call'[g].socket = call[g].socket
    BY <2>1
  <2> QED
    BY <1>1, <1>7, <2>1
<1> QED
  BY <1>8, CallersStay

LEMMA CallersLosses ==
  ASSUME Typing, Linked, CallersThere,
         (\E p \in Pages : Disconnect(p) \/ PauseOrResume(p)) \/ Tick \/ ServerStops
  PROVE  CallersThere'
<1>1. setting.handlers \subseteq Handlers
  BY RightMats
<1>2. ASSUME NEW p \in Pages, Disconnect(p) PROVE CallersThere'
  <2>1. /\ UNCHANGED <<setting, pc, call>> /\ setting.faults # {}
        /\ online' = [online EXCEPT ![p] = FALSE] /\ rooms' = rooms \ {Socket(p)}
    BY <1>2 DEF Disconnect
  <2> SUFFICES ASSUME NEW g \in setting.handlers, pc[g] # "idle", call[g].number = 0
               PROVE  /\ PageOf(call[g].socket) \in setting.pages
                      /\ online'[PageOf(call[g].socket)] => call[g].socket \in rooms'
    BY <2>1 DEF CallersThere
  <2> DEFINE q == PageOf(call[g].socket)
  <2>2. q \in setting.pages /\ (online[q] => call[g].socket \in rooms)
    BY DEF CallersThere
  <2>3. online \in [Pages -> BOOLEAN] /\ q \in Pages
    BY <2>2, RightMats DEF Linked, Connected, OnlineOK
  <2>4. online'[q] => online[q] /\ q # p
    BY <2>1, <2>3
  <2>5. q # p => call[g].socket # Socket(p)
    BY DEF PageOf, Socket
  <2> QED
    BY <2>1, <2>2, <2>4, <2>5
<1>3. ASSUME (\E p \in Pages : PauseOrResume(p)) \/ Tick PROVE CallersThere'
  BY <1>3 DEF PauseOrResume, Tick, CallersThere, serverVars
<1>4. ASSUME ServerStops PROVE CallersThere'
  BY <1>1, <1>4 DEF ServerStops, CallersThere
<1> QED
  BY <1>2, <1>3, <1>4

LEMMA CallersNext ==
  ASSUME Typing, Linked, NumbersGiven, Serial, CallersThere, [Next]_vars
  PROVE  CallersThere'
<1>1. setting.handlers \subseteq Handlers /\ setting.pages \subseteq Pages
  BY RightMats
<1>2. CASE Next
  <2>1. ASSUME NEW h \in setting.handlers, NEW p \in setting.pages,
               Join(h, p) \/ SendStopHoldDown(h, p) \/ \E side \in Sides : Plain(h, p, side)
        PROVE  CallersThere'
    BY <1>1, <2>1, CallersJoin, CallersPlain, ResolveSteps, CallersResolve
  <2>2. ASSUME NEW h \in setting.handlers, NEW m \in Matches, TimerFires(h, m)
        PROVE  CallersThere'
    BY <1>1, <2>2, ResolveSteps, CallersResolve
  <2>3. ASSUME NEW h \in setting.handlers, Proceed(h)
        PROVE  CallersThere'
    BY <1>1, <2>3, CallersProceed, CallersLosses
  <2>4. ASSUME NEW p \in setting.pages, NEW side \in Sides, StartHoldDown(p, side)
        PROVE  CallersThere'
    BY <2>4 DEF StartHoldDown, CallersThere, pageVars
  <2>5. ASSUME NEW p \in setting.pages, Deliver(p) \/ Disconnect(p) \/ PauseOrResume(p)
        PROVE  CallersThere'
    <3>1. Deliver(p) => CallersThere'
      BY DEF Deliver, CallersThere, serverVars
    <3> QED
      BY <1>1, <2>5, <3>1, CallersLosses
  <2> QED
    BY <1>2, <2>1, <2>2, <2>3, <2>4, <2>5, NextCalls, CallersLosses
<1>3. CASE UNCHANGED vars
  BY <1>3 DEF vars, CallersThere, serverVars, pageVars
<1> QED
  BY <1>2, <1>3

(* What a page makes of one message. *)
LEMMA ViewOne ==
  ASSUME NEW x \in View, NEW msg \in Message
  PROVE  ViewAfter(x, msg) \in View /\ Leads(ViewStep, View, x, <<msg>>, ViewAfter(x, msg))
<1>1. ViewAfter(x, msg) \in View
  BY ViewAfterType
<1>2. ViewStep[<<x, msg>>] = ViewAfter(x, msg)
  <2>1. <<x, msg>> \in View \X Message
    OBVIOUS
  <2> QED
    BY <2>1 DEF ViewStep
<1>3. Leads(ViewStep, View, x, <<msg>>, ViewStep[<<x, msg>>])
  BY <1>1, <1>2, LeadsOne
<1> QED
  BY <1>1, <1>2, <1>3

LEMMA ViewSame ==
  ASSUME NEW x \in View, NEW msg \in Message,
         msg.type \notin {"match-state", "score-update", "match-started", "match-ended"}
  PROVE  Leads(ViewStep, View, x, <<msg>>, x)
<1>1. ViewAfter(x, msg) = x
  BY DEF ViewAfter
<1>2. Leads(ViewStep, View, x, <<msg>>, ViewAfter(x, msg))
  BY ViewOne
<1> QED
  BY <1>1, <1>2

LEMMA ViewOfState ==
  ASSUME NEW x \in View, NEW m \in Matches, NEW r \in Row
  PROVE  /\ [match |-> m, row |-> r] \in View
         /\ Leads(ViewStep, View, x, <<MatchState(m, r)>>, [match |-> m, row |-> r])
<1> DEFINE msg == MatchState(m, r)
<1>1. /\ msg \in Message /\ msg.type = "match-state" /\ msg.match = m /\ msg.row = r
  BY DEF MatchState, Message
<1> HIDE DEF msg
<1>2. ViewAfter(x, msg) = [match |-> m, row |-> r]
  BY <1>1 DEF ViewAfter
<1>3. ViewAfter(x, msg) \in View /\ Leads(ViewStep, View, x, <<msg>>, ViewAfter(x, msg))
  BY <1>1, ViewOne
<1>4. Leads(ViewStep, View, x, <<msg>>, [match |-> m, row |-> r])
  BY <1>2, <1>3
<1> QED
  BY <1>2, <1>3, <1>4 DEF msg

LEMMA ScoredView ==
  ASSUME NEW x \in View, NEW m \in Matches, NEW scores \in Scores
  PROVE  LET y == ViewAfter(x, ScoreUpdate(m, scores))
         IN  /\ y.match = x.match
             /\ y.row = IF x.match = m THEN [x.row EXCEPT !.scores = scores] ELSE x.row
<1> DEFINE msg == ScoreUpdate(m, scores)
<1>1. msg.type = "score-update" /\ msg.match = m /\ msg.scores = scores
  BY DEF ScoreUpdate
<1> HIDE DEF msg
<1>2. ViewAfter(x, msg) = IF x.match = m THEN [x EXCEPT !.row.scores = scores] ELSE x
  BY <1>1 DEF ViewAfter
<1>3. /\ ViewAfter(x, msg).match = x.match
      /\ ViewAfter(x, msg).row = IF x.match = m THEN [x.row EXCEPT !.scores = scores] ELSE x.row
  BY <1>2 DEF View
<1> QED
  BY <1>3 DEF msg

(* View y is view x with the result of m. *)
HasResult(x, m, winner, how, y) ==
  /\ y.match = x.match
  /\ y.row = IF x.match = m
             THEN [x.row EXCEPT !.status = "COMPLETED", !.winMethod = how,
                                !.winner = ShownWinner(x.row, winner)]
             ELSE x.row

LEMMA EndedView ==
  ASSUME NEW x \in View, NEW m \in Matches, NEW winner, NEW how
  PROVE  HasResult(x, m, winner, how, ViewAfter(x, MatchEnded(m, winner, how)))
<1> DEFINE msg == MatchEnded(m, winner, how)
           who == ShownWinner(x.row, winner)
<1>1. msg.type = "match-ended" /\ msg.match = m /\ msg.winner = winner /\ msg.winMethod = how
  BY DEF MatchEnded
<1> HIDE DEF msg
<1>2. ViewAfter(x, msg) =
        IF x.match = m
        THEN [x EXCEPT !.row.status = "COMPLETED", !.row.winMethod = how, !.row.winner = who] ELSE x
  BY <1>1 DEF ViewAfter
<1> HIDE DEF who
<1>3. /\ ViewAfter(x, msg).match = x.match
      /\ ViewAfter(x, msg).row =
           IF x.match = m
           THEN [x.row EXCEPT !.status = "COMPLETED", !.winMethod = how, !.winner = who] ELSE x.row
  BY <1>2 DEF View
<1> QED
  BY <1>3 DEF HasResult, msg, who

(* The views of the matches a step leaves alone. *)
LEMMA AgreesElsewhere ==
  ASSUME NEW x \in View, NEW mat \in Mats, Agrees(row, x, mat), NEW m,
         \A n \in Matches : n # m /\ Full(row[n]) => row'[n] = row[n],
         x.match # m \/ ~Full(x.row)
  PROVE  Agrees(row', x, mat)
<1>1. x.match # None => x.match \in Matches
  BY DEF View, MaybeMatch
<1> QED
  BY <1>1 DEF Agrees

LEMMA AgreesOnState ==
  ASSUME NEW rows, NEW mat, NEW m \in OnMat(mat)
  PROVE  Agrees(rows, [match |-> m, row |-> rows[m]], mat)
BY DEF Agrees

(* A page that is told of a score, or of a result, goes on to agree. *)
LEMMA ScoredAgrees ==
  ASSUME Typing, NEW x \in View, NEW mat \in Mats, NEW m \in OnMat(mat), NEW scores \in Scores,
         Agrees(row, x, mat), row' = [row EXCEPT ![m].scores = scores]
  PROVE  Agrees(row', ViewAfter(x, ScoreUpdate(m, scores)), mat)
<1> DEFINE y == ViewAfter(x, ScoreUpdate(m, scores))
<1>1. m \in Matches /\ x.row \in Row /\ x.match \in MaybeMatch
  BY OnMatType DEF View
<1>2. /\ y.match = x.match
      /\ y.row = IF x.match = m THEN [x.row EXCEPT !.scores = scores] ELSE x.row
  BY <1>1, ScoredView
<1>3. /\ row'[m] = [row[m] EXCEPT !.scores = scores]
      /\ \A n \in Matches : n # m => row'[n] = row[n]
  BY <1>1 DEF Typing
<1> SUFFICES Agrees(row', y, mat)
  OBVIOUS
<1> HIDE DEF y
<1>4. CASE x.match = m
  <2>1. y.row.competitor = x.row.competitor
    BY <1>1, <1>2, <1>4 DEF Row
  <2>2. Full(y.row) => Full(x.row)
    BY <2>1 DEF Full
  <2>3. Full(x.row) => x.row = row[m]
    BY <1>1, <1>4, DrawTypes DEF Agrees
  <2> QED
    BY <1>2, <1>3, <1>4, <2>2, <2>3 DEF Agrees
<1>5. CASE x.match # m
  BY <1>1, <1>2, <1>3, <1>5 DEF Agrees, MaybeMatch
<1> QED
  BY <1>4, <1>5

LEMMA CompletedAgrees ==
  ASSUME Typing, NEW x \in View, NEW y \in View, NEW mat \in Mats, NEW m \in OnMat(mat),
         NEW scores, NEW winner, NEW how, Agrees(row, x, mat),
         y.match = x.match, x.match # m => y.row = x.row,
         x.match = m => /\ y.row.competitor = x.row.competitor
                        /\ Full(x.row) => y.row = [row[m] EXCEPT !.scores = scores],
         \E side \in Sides : row[m].competitor[side] = winner,
         row'[m] = [row[m] EXCEPT !.status = "COMPLETED", !.winner = winner,
                                  !.winMethod = how, !.scores = scores],
         \A n \in Matches : n # m /\ Full(row[n]) => row'[n] = row[n]
  PROVE  Agrees(row', ViewAfter(y, MatchEnded(m, winner, how)), mat)
<1> DEFINE z == ViewAfter(y, MatchEnded(m, winner, how))
           who == ShownWinner(y.row, winner)
<1>1. m \in Matches /\ row[m] \in Row /\ y.row \in Row /\ y.match \in MaybeMatch
  BY OnMatType DEF View, Typing
<1>2. /\ z.match = y.match
      /\ z.row = IF y.match = m
                 THEN [y.row EXCEPT !.status = "COMPLETED", !.winMethod = how, !.winner = who]
                 ELSE y.row
  <2>1. HasResult(y, m, winner, how, z)
    BY <1>1, EndedView
  <2> QED
    BY <2>1 DEF HasResult
<1>3. ShownWinner(row[m], winner) = winner
  BY DEF ShownWinner
<1> SUFFICES Agrees(row', z, mat)
  OBVIOUS
<1> HIDE DEF z
<1>4. CASE y.match = m
  <2> SUFFICES ASSUME Full(z.row) PROVE z.row = row'[m]
    BY <1>2, <1>4 DEF Agrees
  <2>1. z.row.competitor = y.row.competitor
    <3> HIDE DEF who
    <3> QED
      BY <1>1, <1>2, <1>4 DEF Row
  <2>2. Full(x.row)
    BY <1>4, <2>1 DEF Full
  <2>3. y.row = [row[m] EXCEPT !.scores = scores]
    BY <1>4, <2>2
  <2>4. y.row.competitor = row[m].competitor
    BY <1>1, <2>3 DEF Row
  <2>5. who = winner
    BY <1>3, <2>4 DEF ShownWinner
  <2> HIDE DEF who
  <2>6. z.row = [y.row EXCEPT !.status = "COMPLETED", !.winMethod = how, !.winner = winner]
    BY <1>2, <1>4, <2>5
  <2> QED
    BY <1>1, <2>3, <2>6 DEF Row
<1>5. CASE y.match # m
  BY <1>1, <1>2, <1>5 DEF Agrees, MaybeMatch
<1> QED
  BY <1>4, <1>5

(* Nothing is due from a call that waits for a service. *)
LEMMA DueLater ==
  ASSUME NEW rows, NEW matches, NEW step, NEW c, NEW mat, NEW s
  PROVE  /\ step \in {"idle", "apply"} => Due(rows, matches, step, c, mat, s) = <<>>
         /\ Asking(step) /\ Home(c) # mat => Due(rows, matches, step, c, mat, s) = <<>>
         /\ step = "tell" /\ Home(c) = mat => Due(rows, matches, step, c, mat, s) = c.out
         /\ step = "reread" /\ Home(c) = mat =>
              Due(rows, matches, step, c, mat, s) = <<MatchState(c.match, rows[c.match])>>
         /\ step = "answer" /\ c.socket = s => Due(rows, matches, step, c, mat, s) = c.out
         /\ step \in {"verify", "look"} /\ c.socket = s =>
              Due(rows, matches, step, c, mat, s) = StateOf(rows, matches, mat)
         /\ Joining(step) /\ c.socket # s => Due(rows, matches, step, c, mat, s) = <<>>
BY DEF Due, Asking, Joining

LEMMA LeadsTwo ==
  ASSUME NEW first \in Message, NEW second \in Message, NEW x, NEW y, NEW z,
         Leads(ViewStep, View, x, <<first>>, y), Leads(ViewStep, View, y, <<second>>, z)
  PROVE  Leads(ViewStep, View, x, <<first, second>>, z)
<1>1. <<first>> \in Seq(Message) /\ <<second>> \in Seq(Message)
  OBVIOUS
<1>2. Leads(ViewStep, View, x, <<first>> \o <<second>>, z)
  BY <1>1, LeadsOn
<1> QED
  BY <1>2, PairIsConcat

(* The services tell the pages of the mat what they have changed. *)
LEMMA ServiceTells ==
  ASSUME OneLoserPerSlot, Typing, Typing', ByScoreOnly, OpenSlots, Known, NEW h \in Handlers,
         \/ ApplyScoreEvent(h) \/ StartMatch(h) \/ EndMatch(h)
         \/ EnableGoldenScore(h) \/ GetMatchState(h),
         NEW mat \in Mats, call[h].match \in OnMat(mat), NEW e \in View,
         pc[h] = "apply" => Agrees(row, e, mat)
  PROVE  \/ \E g \in View : /\ pc'[h] = "tell" /\ Leads(ViewStep, View, e, call'[h].out, g)
                            /\ Agrees(row', g, mat)
         \/ pc'[h] = "reread" /\ call'[h] = call[h]
<1> DEFINE m == call[h].match
<1>1. /\ m \in Matches /\ row[m] \in Row /\ row'[m] \in Row /\ call[h] \in Call
      /\ MatchStarted(m) \in Message
  BY OnMatType DEF Typing, CallsOK, MatchStarted, Message
<1>2. \A n \in Matches : n # m /\ Full(row[n]) => row'[n] = row[n]
  BY ServiceRows
<1>3. ASSUME NEW msgs, pc' = [pc EXCEPT ![h] = "tell"], call' = [call EXCEPT ![h].out = msgs]
      PROVE  pc'[h] = "tell" /\ call'[h].out = msgs
  BY <1>3 DEF Typing, CallsOK, Call
<1>4. ASSUME pc[h] = "apply", NEW scores \in Scores, row' = [row EXCEPT ![m].scores = scores],
             ThenTell(h, <<ScoreUpdate(m, scores)>>)
      PROVE  \E g \in View : /\ pc'[h] = "tell" /\ Leads(ViewStep, View, e, call'[h].out, g)
                             /\ Agrees(row', g, mat)
  <2>1. pc'[h] = "tell" /\ call'[h].out = <<ScoreUpdate(m, scores)>>
    BY <1>3, <1>4 DEF ThenTell, Goto
  <2>2. ScoreUpdate(m, scores) \in Message
    BY <1>1 DEF ScoreUpdate, Message
  <2>3. Agrees(row', ViewAfter(e, ScoreUpdate(m, scores)), mat)
    BY <1>4, ScoredAgrees
  <2> QED
    BY <2>1, <2>2, <2>3, ViewOne
<1>5. ASSUME pc[h] = "apply", NEW scores \in Scores, NEW side \in Sides, NEW how \in WinMethods,
             Complete(m, row[m].competitor[side], how, scores),
             ThenTell(h, <<ScoreUpdate(m, scores), MatchEnded(m, row[m].competitor[side], how)>>)
      PROVE  \E g \in View : /\ pc'[h] = "tell" /\ Leads(ViewStep, View, e, call'[h].out, g)
                             /\ Agrees(row', g, mat)
  <2> DEFINE winner == row[m].competitor[side]
             first == ScoreUpdate(m, scores)
             second == MatchEnded(m, winner, how)
             y == ViewAfter(e, first)
  <2>1. pc'[h] = "tell" /\ call'[h].out = <<first, second>>
    BY <1>3, <1>5 DEF ThenTell, Goto
  <2>2. first \in Message /\ second \in Message
    BY <1>1 DEF ScoreUpdate, MatchEnded, Message, Row
  <2>3. y \in View /\ Leads(ViewStep, View, e, <<first>>, y)
    BY <2>2, ViewOne
  <2>4. /\ y.match = e.match
        /\ y.row = IF e.match = m THEN [e.row EXCEPT !.scores = scores] ELSE e.row
    BY <1>1, ScoredView
  <2>5. row'[m] = [row[m] EXCEPT !.status = "COMPLETED", !.winner = winner,
                                 !.winMethod = how, !.scores = scores]
    <3>1. m # WinnerTo[m] /\ m # LoserTo[m]
      BY <1>1, OneFeederPerSlot
    <3> QED
      BY <1>1, <1>5, <3>1 DEF Complete, Rows!CompletedRow
  <2>6. e.match = m => /\ y.row.competitor = e.row.competitor
                       /\ Full(e.row) => y.row = [row[m] EXCEPT !.scores = scores]
    <3>1. e.row \in Row
      BY DEF View
    <3>2. Full(e.row) /\ e.match = m => e.row = row[m]
      BY <1>1, <1>5, DrawTypes DEF Agrees
    <3> HIDE DEF y
    <3> QED
      BY <2>4, <3>1, <3>2 DEF Row
  <2>7. e.match # m => y.row = e.row
    BY <2>4
  <2>8. \E k \in Sides : row[m].competitor[k] = winner
    OBVIOUS
  <2> HIDE DEF first, y, winner
  <2>9. Agrees(row', ViewAfter(y, MatchEnded(m, winner, how)), mat)
    BY <1>2, <1>5, <2>3, <2>4, <2>5, <2>6, <2>7, <2>8, CompletedAgrees
  <2>10. ViewAfter(y, second) \in View /\ Leads(ViewStep, View, y, <<second>>, ViewAfter(y, second))
    BY <2>2, <2>3, ViewOne
  <2>11. Leads(ViewStep, View, e, <<first, second>>, ViewAfter(y, second))
    BY <2>2, <2>3, <2>10, LeadsTwo
  <2> QED
    BY <2>1, <2>9, <2>10, <2>11 DEF second
<1>6. ASSUME pc[h] = "apply", call[h].op = "end",
             Complete(m, call[h].competitor, "DECISION", row[m].scores),
             ThenTell(h, <<MatchEnded(m, call[h].competitor, "DECISION")>>)
      PROVE  \E g \in View : /\ pc'[h] = "tell" /\ Leads(ViewStep, View, e, call'[h].out, g)
                             /\ Agrees(row', g, mat)
  <2> DEFINE winner == call[h].competitor
             scores == row[m].scores
             msg == MatchEnded(m, winner, "DECISION")
  <2>1. pc'[h] = "tell" /\ call'[h].out = <<msg>>
    BY <1>3, <1>6 DEF ThenTell, Goto
  <2>2. msg \in Message
    BY <1>1 DEF MatchEnded, Message, Call, WinMethods
  <2>3. row'[m] = [row[m] EXCEPT !.status = "COMPLETED", !.winner = winner,
                                 !.winMethod = "DECISION", !.scores = scores]
    <3>1. m # WinnerTo[m] /\ m # LoserTo[m]
      BY <1>1, OneFeederPerSlot
    <3> QED
      BY <1>1, <1>6, <3>1 DEF Complete, Rows!CompletedRow
  <2>4. e.match = m /\ Full(e.row) => e.row = [row[m] EXCEPT !.scores = scores]
    <3>1. e.match = m /\ Full(e.row) => e.row = row[m]
      BY <1>1, <1>6, DrawTypes DEF Agrees
    <3>2. row[m] = [row[m] EXCEPT !.scores = row[m].scores]
      BY <1>1 DEF Row
    <3> QED
      BY <3>1, <3>2
  <2>5. \E side \in Sides : row[m].competitor[side] = winner
    BY <1>6 DEF Known, CallsKnown, CallKnown
  <2> HIDE DEF winner, scores
  <2>6. Agrees(row', ViewAfter(e, MatchEnded(m, winner, "DECISION")), mat)
    BY <1>2, <1>6, <2>3, <2>4, <2>5, CompletedAgrees
  <2> QED
    BY <2>1, <2>2, <2>6, ViewOne
<1>7. ASSUME NEW out, out \in {<<MatchState(m, row'[m])>>, <<MatchStarted(m), MatchState(m, row'[m])>>},
             pc' = [pc EXCEPT ![h] = "tell"], call' = [call EXCEPT ![h].out = out]
      PROVE  \E g \in View : /\ pc'[h] = "tell" /\ Leads(ViewStep, View, e, call'[h].out, g)
                             /\ Agrees(row', g, mat)
  <2> DEFINE g == [match |-> m, row |-> row'[m]]
             y == ViewAfter(e, MatchStarted(m))
             state == MatchState(m, row'[m])
  <2>1. pc'[h] = "tell" /\ call'[h].out = out
    BY <1>3, <1>7
  <2>2. g \in View /\ \A x \in View : Leads(ViewStep, View, x, <<state>>, g)
    BY <1>1, ViewOfState
  <2>3. Agrees(row', g, mat)
    BY AgreesOnState
  <2>4. y \in View /\ Leads(ViewStep, View, e, <<MatchStarted(m)>>, y)
    BY <1>1, ViewOne
  <2>5. state \in Message
    BY <1>1 DEF MatchState, Message
  <2> HIDE DEF g, y, state
  <2>6. Leads(ViewStep, View, e, <<MatchStarted(m), state>>, g)
    <3>1. Leads(ViewStep, View, y, <<state>>, g)
      BY <2>2, <2>4
    <3> QED
      BY <1>1, <2>4, <2>5, <3>1, LeadsTwo
  <2>8. Leads(ViewStep, View, e, out, g)
    <3>1. out = <<state>> \/ out = <<MatchStarted(m), state>>
      BY <1>7 DEF state
    <3> QED
      BY <2>2, <2>6, <3>1
  <2> QED
    BY <2>1, <2>2, <2>3, <2>8
<1> DEFINE Goal == \E g \in View : /\ pc'[h] = "tell" /\ Leads(ViewStep, View, e, call'[h].out, g)
                                  /\ Agrees(row', g, mat)
<1>8. \/ pc[h] = "apply" /\ \E scores \in Scores :
           /\ row' = [row EXCEPT ![m].scores = scores]
           /\ ThenTell(h, <<ScoreUpdate(m, scores)>>)
      \/ pc[h] = "apply" /\ \E scores \in Scores, side \in Sides, how \in WinMethods :
           /\ Complete(m, row[m].competitor[side], how, scores)
           /\ ThenTell(h, <<ScoreUpdate(m, scores),
                            MatchEnded(m, row[m].competitor[side], how)>>)
      \/ /\ pc[h] = "apply" /\ call[h].op = "end"
         /\ Complete(m, call[h].competitor, "DECISION", row[m].scores)
         /\ ThenTell(h, <<MatchEnded(m, call[h].competitor, "DECISION")>>)
      \/ ThenTell(h, <<MatchStarted(m), MatchState(m, row'[m])>>)
      \/ UNCHANGED call /\ Goto(h, "reread")
      \/ UNCHANGED row /\ ThenTell(h, <<MatchState(m, row[m])>>)
  BY ServiceWrites DEF dbVars
<1>9. ASSUME ThenTell(h, <<MatchStarted(m), MatchState(m, row'[m])>>) PROVE Goal
  BY <1>7, <1>9 DEF ThenTell, Goto
<1>10. ASSUME UNCHANGED row, ThenTell(h, <<MatchState(m, row[m])>>) PROVE Goal
  <2>1. ThenTell(h, <<MatchState(m, row'[m])>>)
    BY <1>10 DEF ThenTell
  <2> QED
    BY <1>7, <2>1 DEF ThenTell, Goto
<1>11. ASSUME UNCHANGED call, Goto(h, "reread") PROVE pc'[h] = "reread" /\ call'[h] = call[h]
  BY <1>11 DEF Goto, Typing, CallsOK
<1> HIDE DEF m
<1> QED
  BY <1>4, <1>5, <1>6, <1>8, <1>9, <1>10, <1>11

-----------------------------------------------------------------------------
(* What a step may do with the messages of a page and keep what it comes   *)
(* to show.                                                                *)

(* The call that may be under way, and what it leaves on the page. *)
Awaits(p, h, e, f) ==
  /\ Leads(ViewStep, View, view[p], inbox[p], e)
  /\ Leads(ViewStep, View, e, Due(row, current, pc[h], call[h], MatOfPage[p], Socket(p)), f)
  /\ Agrees(row, f, MatOfPage[p])

LEMMA AwaitsOne ==
  ASSUME Serial, NEW h \in setting.handlers, NEW p, WillAgree(p)
  PROVE  \E e, f \in View : Awaits(p, h, e, f)
BY DEF Serial, WillAgree, Awaits

LEMMA AgreeFrom ==
  ASSUME NEW h \in setting.handlers, UNCHANGED setting, NEW p, NEW e \in View, NEW f \in View,
         Awaits(p, h, e, f)'
  PROVE  WillAgree(p)'
BY DEF WillAgree, Awaits

(* Nothing is sent to the page, and the same is due to it. *)
LEMMA AgreeKept ==
  ASSUME Serial, UNCHANGED setting, NEW h \in setting.handlers, NEW p, WillAgree(p),
         view'[p] = view[p], inbox'[p] = inbox[p],
         Due(row, current, pc[h], call[h], MatOfPage[p], Socket(p))'
           = Due(row, current, pc[h], call[h], MatOfPage[p], Socket(p)),
         \A x \in View : Agrees(row, x, MatOfPage[p]) => Agrees(row', x, MatOfPage[p])
  PROVE  WillAgree(p)'
<1>1. PICK e \in View, f \in View : Awaits(p, h, e, f)
  BY AwaitsOne
<1>2. Awaits(p, h, e, f)'
  BY <1>1 DEF Awaits
<1> QED
  BY <1>2, AgreeFrom

(* What was due is sent. *)
LEMMA AgreeTold ==
  ASSUME Typing, Serial, UNCHANGED <<setting, row>>, NEW h \in setting.handlers, NEW p \in Pages,
         WillAgree(p), view'[p] = view[p], NEW msgs \in Seq(Message), inbox'[p] = inbox[p] \o msgs,
         Due(row, current, pc[h], call[h], MatOfPage[p], Socket(p)) = msgs,
         Due(row, current, pc[h], call[h], MatOfPage[p], Socket(p))' = <<>>
  PROVE  WillAgree(p)'
<1>1. PICK e \in View, f \in View : Awaits(p, h, e, f)
  BY AwaitsOne
<1>2. inbox[p] \in Seq(Message)
  BY DEF Typing, PagesOK
<1>3. Leads(ViewStep, View, view[p], inbox[p], e) /\ Leads(ViewStep, View, e, msgs, f)
      /\ Agrees(row, f, MatOfPage[p])
  BY <1>1 DEF Awaits
<1>4. Leads(ViewStep, View, view[p], inbox[p] \o msgs, f)
  BY <1>2, <1>3, LeadsOn
<1>5. Leads(ViewStep, View, f, <<>>, f)
  BY LeadsStay
<1>6. Awaits(p, h, f, f)'
  BY <1>3, <1>4, <1>5 DEF Awaits, Agrees
<1> QED
  BY <1>6, AgreeFrom

(* A message that leaves the match alone. *)
LEMMA AgreeMore ==
  ASSUME Typing, Serial, UNCHANGED <<setting, row>>, NEW h \in setting.handlers, NEW p \in Pages,
         WillAgree(p), view'[p] = view[p], NEW msg \in Message, inbox'[p] = inbox[p] \o <<msg>>,
         msg.type \notin {"match-state", "score-update", "match-started", "match-ended"},
         Due(row, current, pc[h], call[h], MatOfPage[p], Socket(p))'
           = Due(row, current, pc[h], call[h], MatOfPage[p], Socket(p))
  PROVE  WillAgree(p)'
<1>1. PICK e \in View, f \in View : Awaits(p, h, e, f)
  BY AwaitsOne
<1>2. inbox[p] \in Seq(Message) /\ <<msg>> \in Seq(Message)
  BY DEF Typing, PagesOK
<1>3. Leads(ViewStep, View, view[p], inbox[p], e) /\ Leads(ViewStep, View, e, <<msg>>, e)
  BY <1>1, ViewSame DEF Awaits
<1>4. Leads(ViewStep, View, view[p], inbox[p] \o <<msg>>, e)
  BY <1>2, <1>3, LeadsOn
<1>5. Awaits(p, h, e, f)'
  BY <1>1, <1>4 DEF Awaits, Agrees
<1> QED
  BY <1>5, AgreeFrom

(* A message arrives. *)
LEMMA AgreeDeliver ==
  ASSUME Typing, Serial, NEW h \in setting.handlers, NEW p \in Pages, Deliver(p), WillAgree(p)
  PROVE  WillAgree(p)'
<1>1. PICK e \in View, f \in View : Awaits(p, h, e, f)
  BY AwaitsOne
<1>2. /\ inbox[p] \in Seq(Message) /\ inbox[p] # <<>> /\ view[p] \in View
      /\ view \in [Pages -> View] /\ inbox \in [Pages -> Seq(Message)]
  BY DEF Typing, PagesOK, Deliver
<1>3. /\ UNCHANGED <<setting, row, current, pc, call, socket>>
      /\ view'[p] = ViewAfter(view[p], Head(inbox[p])) /\ inbox'[p] = Tail(inbox[p])
  BY <1>2 DEF Deliver, dbVars
<1>4. Head(inbox[p]) \in Message
  BY <1>2
<1>5. ViewStep[<<view[p], Head(inbox[p])>>] = view'[p]
  <2>1. <<view[p], Head(inbox[p])>> \in View \X Message
    BY <1>2, <1>4
  <2> QED
    BY <1>3, <2>1 DEF ViewStep
<1>6. Leads(ViewStep, View, view'[p], inbox'[p], e)
  <2>1. Leads(ViewStep, View, view[p], inbox[p], e)
    BY <1>1 DEF Awaits
  <2>2. Leads(ViewStep, View, ViewStep[<<view[p], Head(inbox[p])>>], Tail(inbox[p]), e)
    BY <1>2, <2>1, LeadsTail
  <2> QED
    BY <1>3, <1>5, <2>2
<1>7. Awaits(p, h, e, f)'
  BY <1>1, <1>3, <1>6 DEF Awaits, Socket
<1> QED
  BY <1>3, <1>7, AgreeFrom

LEMMA ToldBefore ==
  ASSUME NEW p, UNCHANGED setting, socket'[p] = socket[p], Told(p)',
         current[MatOfPage[p]] = None => current'[MatOfPage[p]] = None
  PROVE  Told(p)
BY DEF Told

LEMMA JoinAgrees ==
  ASSUME Typing, Linked, Serial, PagesWillAgree, NEW h \in setting.handlers,
         NEW q \in setting.pages, Join(h, q), NEW p \in setting.pages, online'[p], Told(p)'
  PROVE  WillAgree(p)'
<1> DEFINE mat == MatOfPage[p]
           s == <<q, socket[q] + 1>>
<1>1. h \in Handlers /\ p \in Pages /\ q \in Pages /\ mat \in Mats
  BY RightMats
<1>2. /\ UNCHANGED <<setting, row, current, view>> /\ pc[h] = "idle" /\ ~online[q]
      /\ online' = [online EXCEPT ![q] = TRUE] /\ socket' = [socket EXCEPT ![q] = @ + 1]
      /\ inbox' = [inbox EXCEPT ![q] = IF q \in setting.tables THEN @ ELSE Append(@, Role("viewer"))]
      /\ pc'[h] \in {"verify", "look"} /\ call'[h].socket = s
  BY <1>1 DEF Join, Goto, dbVars, Typing, CallsOK, NoCall
<1>3. /\ inbox \in [Pages -> Seq(Message)] /\ socket \in [Pages -> Nat] /\ view \in [Pages -> View]
      /\ online \in [Pages -> BOOLEAN]
  BY DEF Typing, PagesOK, Linked, Connected, OnlineOK
<1>4. CASE p # q
  <2>1. online[p] /\ socket'[p] = socket[p] /\ inbox'[p] = inbox[p]
    BY <1>1, <1>2, <1>3, <1>4
  <2>2. WillAgree(p)
    BY <1>2, <2>1, ToldBefore DEF PagesWillAgree
  <2>3. call'[h].socket # Socket(p)'
    BY <1>2, <1>4 DEF Socket
  <2>4. Due(row, current, pc[h], call[h], mat, Socket(p)) = <<>>
    <3>1. pc[h] = "idle"
      BY <1>2
    <3> QED
      BY <3>1, DueLater
  <2>5. Due(row, current, pc[h], call[h], mat, Socket(p))' = <<>>
    <3>1. Joining(pc'[h]) /\ call'[h].socket # Socket(p)'
      BY <1>2, <2>3 DEF Joining
    <3> QED
      BY <3>1, DueLater
  <2> QED
    BY <1>2, <2>1, <2>2, <2>4, <2>5, AgreeKept
<1>5. CASE p = q
  <2>1. socket'[p] = socket[p] + 1 /\ Socket(p)' = s
    BY <1>1, <1>2, <1>3, <1>5 DEF Socket
  <2>2. inbox[p] = <<>> /\ (socket[p] = 0 => view[p] = NoView)
    BY <1>1, <1>2, <1>5 DEF Linked, Connected, InTheirRoom
  <2>3. inbox'[p] = <<>> \/ inbox'[p] = <<Role("viewer")>>
    BY <1>1, <1>2, <1>3, <1>5, <2>2
  <2>4. Role("viewer") \in Message /\ Role("viewer").type = "role" /\ view[p] \in View
    BY <1>1, <1>3 DEF Role, Message
  <2>5. Leads(ViewStep, View, view[p], inbox'[p], view[p])
    BY <2>3, <2>4, LeadsStay, ViewSame
  <2>6. Due(row, current, pc[h], call[h], mat, Socket(p))' = StateOf(row', current', mat)
    BY <1>2, <2>1, DueLater
  <2>7. CASE current[mat] = None
    <3>1. StateOf(row', current', mat) = <<>>
      BY <1>2, <2>7 DEF StateOf
    <3>2. view[p] = NoView
      BY <1>2, <1>3, <1>1, <2>1, <2>2, <2>7 DEF Told
    <3>3. Agrees(row', view[p], mat)
      BY <3>2 DEF Agrees, NoView
    <3>4. Leads(ViewStep, View, view[p], <<>>, view[p])
      BY <2>4, LeadsStay
    <3>5. Awaits(p, h, view[p], view[p])'
      BY <1>2, <2>5, <2>6, <3>1, <3>3, <3>4 DEF Awaits
    <3> QED
      BY <1>2, <2>4, <3>5, AgreeFrom
  <2>8. CASE current[mat] # None
    <3>1. PICK m \in OnMat(mat) : m = current[mat]
      BY <1>1, <2>8 DEF Linked, CurrentOnMat
    <3>2. m \in Matches /\ row[m] \in Row
      BY <1>1, OnMatType DEF Typing
    <3>3. PICK f \in View : /\ f = [match |-> m, row |-> row[m]]
                           /\ Leads(ViewStep, View, view[p], <<MatchState(m, row[m])>>, f)
      BY <2>4, <3>2, ViewOfState
    <3>4. Agrees(row', f, mat)
      BY <1>2, <3>3 DEF Agrees
    <3>5. StateOf(row', current', mat) = <<MatchState(m, row[m])>>
      BY <1>2, <2>8, <3>1 DEF StateOf
    <3>6. Awaits(p, h, view[p], f)'
      BY <1>2, <2>5, <2>6, <3>3, <3>4, <3>5 DEF Awaits
    <3> QED
      BY <1>2, <2>4, <3>6, AgreeFrom
  <2> QED
    BY <2>7, <2>8
<1> QED
  BY <1>4, <1>5

(* The rest of join-mat. *)
LEMMA AnswerAgrees ==
  ASSUME Typing, Linked, Serial, NEW h \in setting.handlers,
         VerifyPin(h) \/ GetMatState(h) \/ Answer(h),
         NEW p \in setting.pages, online[p], WillAgree(p)
  PROVE  WillAgree(p)'
<1> DEFINE mat == MatOfPage[p]
           c == call[h]
<1>1. h \in Handlers /\ p \in Pages /\ mat \in Mats
  BY RightMats
<1>2. /\ UNCHANGED <<setting, row, current, view, online, socket>>
      /\ inbox \in [Pages -> Seq(Message)] /\ c \in Call
  BY <1>1 DEF VerifyPin, GetMatState, Answer, dbVars, pageVars, Typing, PagesOK, CallsOK
<1>3. Live(Socket(p)) /\ PageOf(Socket(p)) = p
  <2>1. Socket(p) # None
    <3>1. Socket(p) \in Pages \X Nat
      BY <1>1 DEF Socket, Typing, PagesOK
    <3> QED
      BY <3>1, GatewayTypes
  <2> QED
    BY <2>1 DEF Live, Socket, PageOf
<1>4. ASSUME NEW msgs, Emit(c.socket, msgs)
      PROVE  inbox'[p] = IF c.socket = Socket(p) THEN inbox[p] \o msgs ELSE inbox[p]
  BY <1>1, <1>3, <1>4 DEF Emit, Live
<1>5. UNCHANGED Socket(p) /\ \A x \in View : Agrees(row, x, mat) => Agrees(row', x, mat)
  BY <1>2 DEF Socket, Agrees
<1>6. CASE VerifyPin(h)
  <2>1. pc[h] = "verify" /\ pc'[h] = "look" /\ UNCHANGED call /\ Emit(c.socket, <<Role("controller")>>)
    BY <1>1, <1>6 DEF VerifyPin, Goto, Typing, CallsOK
  <2>2. Due(row, current, pc[h], call[h], mat, Socket(p))'
          = Due(row, current, pc[h], call[h], mat, Socket(p))
    BY <1>2, <1>5, <2>1 DEF Due
  <2>3. Role("controller") \in Message /\ Role("controller").type = "role"
    BY DEF Role, Message
  <2>4. CASE c.socket = Socket(p)
    BY <1>1, <1>2, <1>4, <2>1, <2>2, <2>3, <2>4, AgreeMore
  <2>5. CASE c.socket # Socket(p)
    BY <1>2, <1>4, <1>5, <2>1, <2>2, <2>5, AgreeKept
  <2> QED
    BY <2>4, <2>5
<1>7. CASE GetMatState(h)
  <2>1. /\ pc[h] = "look" /\ pc'[h] = "answer" /\ UNCHANGED inbox /\ call'[h].socket = c.socket
        /\ call'[h].out = StateOf(row, current, MatOfPage[PageOf(c.socket)])
    BY <1>1, <1>7 DEF GetMatState, Goto, StateOf, Typing, CallsOK, Call
  <2>2. Due(row, current, pc[h], call[h], mat, Socket(p))'
          = Due(row, current, pc[h], call[h], mat, Socket(p))
    BY <1>3, <1>5, <2>1 DEF Due
  <2> QED
    BY <1>2, <1>5, <2>1, <2>2, AgreeKept
<1>8. CASE Answer(h)
  <2>1. pc[h] = "answer" /\ pc'[h] = "idle" /\ Emit(c.socket, c.out)
    BY <1>1, <1>8 DEF Answer, Return, Goto, Typing, CallsOK
  <2>2. Due(row, current, pc[h], call[h], mat, Socket(p))' = <<>>
    BY <2>1, DueLater
  <2>3. CASE c.socket = Socket(p)
    <3>1. Due(row, current, pc[h], call[h], mat, Socket(p)) = c.out
      BY <2>1, <2>3, DueLater
    <3>2. c.out \in Seq(Message) /\ inbox'[p] = inbox[p] \o c.out
      BY <1>2, <1>4, <2>1, <2>3 DEF Call
    <3> QED
      BY <1>1, <1>2, <2>2, <3>1, <3>2, AgreeTold
  <2>4. CASE c.socket # Socket(p)
    <3>1. Due(row, current, pc[h], call[h], mat, Socket(p)) = <<>>
      BY <2>1, <2>4, DueLater DEF Joining
    <3>2. inbox'[p] = inbox[p]
      BY <1>4, <2>1, <2>4
    <3> QED
      BY <1>2, <1>5, <2>2, <3>1, <3>2, AgreeKept
  <2> QED
    BY <2>3, <2>4
<1> QED
  BY <1>6, <1>7, <1>8

LEMMA SameDue ==
  ASSUME NEW h, NEW p, UNCHANGED <<row, current, socket>>, pc'[h] = pc[h], call'[h] = call[h]
  PROVE  Due(row, current, pc[h], call[h], MatOfPage[p], Socket(p))'
           = Due(row, current, pc[h], call[h], MatOfPage[p], Socket(p))
BY DEF Due, Socket

LEMMA NothingDue ==
  ASSUME NEW h, NEW p, pc[h] \in {"idle", "apply"}, pc'[h] \in {"idle", "apply"}
  PROVE  /\ Due(row, current, pc[h], call[h], MatOfPage[p], Socket(p)) = <<>>
         /\ Due(row, current, pc[h], call[h], MatOfPage[p], Socket(p))' = <<>>
<1>1. Due(row, current, pc[h], call[h], MatOfPage[p], Socket(p)) = <<>>
  BY DueLater
<1>2. Due(row, current, pc[h], call[h], MatOfPage[p], Socket(p))' = <<>>
  BY DueLater
<1> QED
  BY <1>1, <1>2

(* A broadcast of a message that leaves the match alone. *)
LEMMA BroadcastAgrees ==
  ASSUME Typing, Serial, UNCHANGED <<setting, row, view>>, NEW h \in setting.handlers,
         NEW p \in Pages, WillAgree(p), NEW room, NEW msg \in Message, Broadcast(room, <<msg>>),
         msg.type \notin {"match-state", "score-update", "match-started", "match-ended"},
         Due(row, current, pc[h], call[h], MatOfPage[p], Socket(p))'
           = Due(row, current, pc[h], call[h], MatOfPage[p], Socket(p))
  PROVE  WillAgree(p)'
<1>1. inbox'[p] = inbox[p] \/ inbox'[p] = inbox[p] \o <<msg>>
  BY DEF Broadcast
<1>2. \A x \in View : Agrees(row, x, MatOfPage[p]) => Agrees(row', x, MatOfPage[p])
  BY DEF Agrees
<1>3. CASE inbox'[p] = inbox[p]
  BY <1>2, <1>3, AgreeKept
<1>4. CASE inbox'[p] = inbox[p] \o <<msg>>
  BY <1>4, AgreeMore
<1> QED
  BY <1>1, <1>3, <1>4

LEMMA PlainAgrees ==
  ASSUME Typing, Serial, NEW h \in setting.handlers, NEW q \in setting.pages, NEW side \in Sides,
         Plain(h, q, side), NEW p \in setting.pages, WillAgree(p)
  PROVE  WillAgree(p)'
<1>1. h \in Handlers /\ q \in Pages
  BY RightMats
<1>2. /\ UNCHANGED <<setting, dbVars, view, inbox>>
      /\ pc[h] = "idle" /\ pc' = [pc EXCEPT ![h] = "apply"]
  BY <1>1, PlainCall
<1>3. pc'[h] = "apply" /\ UNCHANGED row
  BY <1>1, <1>2 DEF Typing, CallsOK, dbVars
<1>4. \A x \in View : Agrees(row, x, MatOfPage[p]) => Agrees(row', x, MatOfPage[p])
  BY <1>3 DEF Agrees
<1> QED
  BY <1>2, <1>3, <1>4, NothingDue, AgreeKept

LEMMA HoldDownAgrees ==
  ASSUME Typing, Linked, NumbersGiven, Serial, NEW h \in setting.handlers,
         NEW m \in Matches, NEW held, NEW s \in Sockets \cup {None}, NEW others,
         Resolve(h, m, held, s, others), NEW p \in setting.pages, WillAgree(p)
  PROVE  WillAgree(p)'
<1>1. h \in Handlers /\ p \in Pages
  BY RightMats
<1>2. HoldDownEnds(h, m)
  BY <1>1, ResolveFacts
<1>3. /\ UNCHANGED <<setting, row, view>> /\ OsaekomiStopped(m) \in Message
      /\ Broadcast(osaekomi[m].room, <<OsaekomiStopped(m)>>)
      /\ pc[h] = "idle" /\ pc'[h] \in {"idle", "apply"}
  BY <1>1, <1>2 DEF HoldDownEnds, dbVars, pageVars, Typing, CallsOK
<1>4. OsaekomiStopped(m).type = "osaekomi-stopped"
  BY DEF OsaekomiStopped
<1>5. Due(row, current, pc[h], call[h], MatOfPage[p], Socket(p))'
        = Due(row, current, pc[h], call[h], MatOfPage[p], Socket(p))
  BY <1>3, NothingDue
<1> QED
  BY <1>1, <1>3, <1>4, <1>5, BroadcastAgrees

LEMMA StartAgrees ==
  ASSUME Typing, Linked, Serial, NEW q \in setting.pages, NEW side \in Sides,
         StartHoldDown(q, side), NEW p \in setting.pages, WillAgree(p)
  PROVE  WillAgree(p)'
<1>1. PICK h \in setting.handlers : TRUE
  BY DEF WillAgree
<1>2. p \in Pages /\ q \in Pages
  BY RightMats
<1> DEFINE m == view[q].match
           c == view[q].row.competitor[side]
           room == ClientRoom(Socket(q))
           msg == OsaekomiStarted(m, c, holdDowns[m] + 1)
<1>3. UNCHANGED <<setting, row, current, socket, view, pc, call>> /\ Broadcast(room, <<msg>>)
  BY DEF StartHoldDown, dbVars, pageVars
<1>4. m \in Matches /\ c \in MaybeCompetitor /\ holdDowns[m] \in Nat
  <2>1. m \in Matches
    BY <1>2 DEF StartHoldDown, CanStartHoldDown, CanScore, Typing, PagesOK, View, MaybeMatch
  <2>2. view[q].row \in Row
    BY <1>2 DEF Typing, PagesOK, View
  <2> QED
    BY <2>1, <2>2 DEF Row, Typing, HistoryOK
<1>5. msg \in Message /\ msg.type = "osaekomi-started"
  BY <1>4 DEF OsaekomiStarted, Message
<1> HIDE DEF room, msg
<1>6. Due(row, current, pc[h], call[h], MatOfPage[p], Socket(p))'
        = Due(row, current, pc[h], call[h], MatOfPage[p], Socket(p))
  BY <1>3, SameDue
<1> QED
  BY <1>2, <1>3, <1>5, <1>6, BroadcastAgrees

LEMMA ReturnAgrees ==
  ASSUME Typing, Serial, NEW h \in setting.handlers, pc[h] = "apply", Return(h),
         UNCHANGED <<setting, dbVars, pageVars, inbox>>, NEW p \in setting.pages, WillAgree(p)
  PROVE  WillAgree(p)'
<1>1. pc'[h] = "idle" /\ UNCHANGED <<row, view>>
  BY RightMats DEF Return, Goto, Typing, CallsOK, dbVars, pageVars
<1>2. \A x \in View : Agrees(row, x, MatOfPage[p]) => Agrees(row', x, MatOfPage[p])
  BY <1>1 DEF Agrees
<1> QED
  BY <1>1, <1>2, NothingDue, AgreeKept

LEMMA TellAgrees ==
  ASSUME Typing, Linked, Serial, CallersThere, NEW h \in setting.handlers, Tell(h),
         NEW p \in setting.pages, online[p], Told(p), WillAgree(p)
  PROVE  WillAgree(p)'
<1> DEFINE mat == MatOfPage[p]
           c == call[h]
<1>1. h \in Handlers /\ p \in Pages
  BY RightMats
<1>2. /\ c.out \in Results(c.match) /\ c.match \in Matches
      /\ \/ Broadcast(Home(c), c.out)
         \/ c.number = 0 /\ c.socket \notin rooms /\ UNCHANGED inbox
      /\ Return(h) /\ UNCHANGED <<setting, dbVars, serverVars, pageVars>>
  BY <1>1, TellFacts
<1>3. pc[h] = "tell" /\ pc'[h] = "idle" /\ UNCHANGED <<row, view>>
  BY <1>1, <1>2 DEF Tell, Return, Goto, Typing, CallsOK, dbVars, pageVars
<1>4. Broadcast(Home(c), c.out)
  <2> SUFFICES ASSUME c.number = 0, c.socket \notin rooms PROVE FALSE
    BY <1>2
  <2>1. /\ PageOf(c.socket) \in setting.pages
        /\ setting.faults # {} /\ ~online[PageOf(c.socket)]
    BY <1>3 DEF CallersThere
  <2>2. setting.pages = {p}
    BY <2>1 DEF Told
  <2> QED
    BY <2>1, <2>2
<1>5. Due(row, current, pc[h], call[h], mat, Socket(p))' = <<>>
  BY <1>3, DueLater
<1>6. Socket(p) \in rooms
  BY <1>1 DEF Linked, Connected, InTheirRoom
<1>7. CASE Home(c) = mat
  <2>1. inbox'[p] = inbox[p] \o c.out
    BY <1>1, <1>4, <1>6, <1>7 DEF Broadcast
  <2>2. c.out \in Seq(Message)
    BY <1>2, ResultsAbout
  <2>3. Due(row, current, pc[h], call[h], mat, Socket(p)) = c.out
    BY <1>3, <1>7, DueLater
  <2> QED
    BY <1>1, <1>2, <1>3, <1>5, <2>1, <2>2, <2>3, AgreeTold
<1>8. CASE Home(c) # mat
  <2>1. inbox'[p] = inbox[p]
    BY <1>1, <1>4, <1>8 DEF Broadcast
  <2>2. Due(row, current, pc[h], call[h], mat, Socket(p)) = <<>>
    <3>1. Asking(pc[h])
      BY <1>3 DEF Asking
    <3> QED
      BY <1>8, <3>1, DueLater
  <2>3. \A x \in View : Agrees(row, x, mat) => Agrees(row', x, mat)
    BY <1>3 DEF Agrees
  <2> QED
    BY <1>2, <1>3, <1>5, <2>1, <2>2, <2>3, AgreeKept
<1> QED
  BY <1>7, <1>8

LEMMA ServiceAgrees ==
  ASSUME OneLoserPerSlot, Typing, Typing', Linked, ByScoreOnly, OpenSlots, Known, Serial,
         NEW h \in setting.handlers,
         \/ ApplyScoreEvent(h) \/ StartMatch(h) \/ EndMatch(h)
         \/ EnableGoldenScore(h) \/ GetMatchState(h),
         NEW p \in setting.pages, WillAgree(p)
  PROVE  WillAgree(p)'
<1> DEFINE mat == MatOfPage[p]
           m == call[h].match
<1>1. h \in Handlers /\ p \in Pages /\ mat \in Mats
  BY RightMats
<1>2. /\ pc[h] \in {"apply", "reread"} /\ m \in Matches /\ row'[m] \in Row
      /\ UNCHANGED <<setting, view, inbox, socket>>
  BY <1>1, ServiceFacts DEF pageVars, Typing
<1>3. Home(call[h]) \in Mats /\ m \in OnMat(Home(call[h]))
  BY <1>1, <1>2 DEF Linked, CallsRight, RightCall, Asking
<1>4. pc'[h] \in {"tell", "reread"} /\ Home(call'[h]) = Home(call[h])
  <2>1. PICK c \in Call, where \in {"tell", "reread"} :
          /\ pc' = [pc EXCEPT ![h] = where] /\ call' = [call EXCEPT ![h] = c]
          /\ c.number = call[h].number /\ c.socket = call[h].socket /\ c.room = call[h].room
    BY <1>1, ServiceFacts
  <2>2. pc'[h] = where /\ call'[h] = c
    BY <1>1, <2>1 DEF Typing, CallsOK
  <2> QED
    BY <2>1, <2>2 DEF Home
<1>5. PICK e \in View, f \in View : Awaits(p, h, e, f)
  BY AwaitsOne
<1>6. /\ Leads(ViewStep, View, view'[p], inbox'[p], e)
      /\ Leads(ViewStep, View, e, Due(row, current, pc[h], call[h], mat, Socket(p)), f)
      /\ Agrees(row, f, mat)
  BY <1>2, <1>5 DEF Awaits
<1>7. CASE Home(call[h]) = mat
  <2>1. pc[h] = "apply" => Agrees(row, e, mat)
    <3> SUFFICES ASSUME pc[h] = "apply" PROVE e = f
      BY <1>6
    <3>1. Due(row, current, pc[h], call[h], mat, Socket(p)) = <<>>
      BY DueLater
    <3> QED
      BY <1>6, <3>1, LeadsNowhere
  <2>2. \/ \E g \in View : /\ pc'[h] = "tell" /\ Leads(ViewStep, View, e, call'[h].out, g)
                           /\ Agrees(row', g, mat)
        \/ pc'[h] = "reread" /\ call'[h] = call[h]
    BY <1>1, <1>3, <1>7, <2>1, ServiceTells
  <2>3. ASSUME NEW g \in View, pc'[h] = "tell", Leads(ViewStep, View, e, call'[h].out, g),
               Agrees(row', g, mat)
        PROVE  WillAgree(p)'
    <3>1. Due(row, current, pc[h], call[h], mat, Socket(p))' = call'[h].out
      BY <1>4, <1>7, <2>3, DueLater
    <3>2. Awaits(p, h, e, g)'
      BY <1>6, <2>3, <3>1 DEF Awaits
    <3> QED
      BY <1>2, <3>2, AgreeFrom
  <2>4. ASSUME pc'[h] = "reread", call'[h] = call[h]
        PROVE  WillAgree(p)'
    <3>1. Due(row, current, pc[h], call[h], mat, Socket(p))' = <<MatchState(m, row'[m])>>
      BY <1>7, <2>4, DueLater
    <3>2. PICK g \in View : /\ g = [match |-> m, row |-> row'[m]]
                            /\ Leads(ViewStep, View, e, <<MatchState(m, row'[m])>>, g)
      BY <1>2, ViewOfState
    <3>3. m \in OnMat(mat)
      BY <1>3, <1>7
    <3>4. Agrees(row', g, mat)
      BY <3>2, <3>3 DEF Agrees
    <3>5. Awaits(p, h, e, g)'
      BY <1>6, <3>1, <3>2, <3>4 DEF Awaits
    <3> QED
      BY <1>2, <3>5, AgreeFrom
  <2> QED
    BY <2>2, <2>3, <2>4
<1>8. CASE Home(call[h]) # mat
  <2>1. Due(row, current, pc[h], call[h], mat, Socket(p)) = <<>>
    <3>1. Asking(pc[h])
      BY <1>2 DEF Asking
    <3> QED
      BY <1>8, <3>1, DueLater
  <2>2. Due(row, current, pc[h], call[h], mat, Socket(p))' = <<>>
    <3>1. Asking(pc'[h]) /\ Home(call'[h]) # mat
      BY <1>4, <1>8 DEF Asking
    <3> QED
      BY <3>1, DueLater
  <2>3. \A n \in Matches : n # m /\ Full(row[n]) => row'[n] = row[n]
    BY <1>1, ServiceRows
  <2>4. ASSUME NEW x \in View, Agrees(row, x, mat) PROVE Agrees(row', x, mat)
    <3>1. m \notin OnMat(mat)
      BY <1>1, <1>3, <1>8, OneMat
    <3>2. x.match # m
      BY <1>2, <2>4, <3>1, DrawTypes DEF Agrees
    <3> QED
      BY <1>1, <2>3, <2>4, <3>2, AgreesElsewhere
  <2> QED
    BY <1>2, <2>1, <2>2, <2>4, AgreeKept
<1> QED
  BY <1>7, <1>8

LEMMA StillAgrees ==
  ASSUME Serial, NEW p, WillAgree(p), UNCHANGED <<setting, row, current, pc, call, socket>>,
         view'[p] = view[p], inbox'[p] = inbox[p]
  PROVE  WillAgree(p)'
<1>1. PICK h \in setting.handlers : TRUE
  BY DEF WillAgree
<1>2. \A x \in View : Agrees(row, x, MatOfPage[p]) => Agrees(row', x, MatOfPage[p])
  BY DEF Agrees
<1> QED
  BY <1>2, SameDue, AgreeKept

(* A page that is lost is not told any more, and the others if it is one   *)
(* of several.                                                             *)
LEMMA LossesAgree ==
  ASSUME Typing, Linked, Serial, NEW q \in setting.pages,
         Deliver(q) \/ Disconnect(q) \/ PauseOrResume(q) \/ Tick \/ ServerStops,
         NEW p \in setting.pages, online'[p], Told(p), online[p] => WillAgree(p)
  PROVE  WillAgree(p)'
<1>1. p \in Pages /\ q \in Pages /\ online \in [Pages -> BOOLEAN]
  BY RightMats DEF Linked, Connected, OnlineOK
<1>2. CASE Deliver(q)
  <2>1. online[p]
    BY <1>1, <1>2 DEF Deliver
  <2>2. CASE p = q
    <3>1. PICK h \in setting.handlers : TRUE
      BY <2>1 DEF WillAgree
    <3> QED
      BY <1>1, <1>2, <2>1, <2>2, AgreeDeliver
  <2>3. CASE p # q
    <3>1. /\ UNCHANGED <<setting, row, current, pc, call, socket>>
          /\ view'[p] = view[p] /\ inbox'[p] = inbox[p]
      BY <1>1, <1>2, <2>3 DEF Deliver, dbVars, Typing, PagesOK
    <3> QED
      BY <2>1, <3>1, StillAgrees
  <2> QED
    BY <2>2, <2>3
<1>3. CASE Disconnect(q)
  <2>1. q \in setting.faults /\ online' = [online EXCEPT ![q] = FALSE]
    BY <1>3 DEF Disconnect
  <2>2. setting.pages = {p}
    BY <2>1 DEF Told
  <2> QED
    BY <1>1, <2>1, <2>2
<1>4. CASE PauseOrResume(q) \/ Tick
  <2>1. UNCHANGED <<setting, row, current, pc, call, socket, online, view, inbox>>
    BY <1>4 DEF PauseOrResume, Tick, dbVars
  <2> QED
    BY <2>1, StillAgrees
<1>5. CASE ServerStops
  BY <1>1, <1>5 DEF ServerStops
<1> QED
  BY <1>2, <1>3, <1>4, <1>5

LEMMA PagesNext ==
  ASSUME OneLoserPerSlot, Typing, Typing', NumbersGiven, Linked, ByScoreOnly, OpenSlots, Known, Serial,
         CallersThere, PagesWillAgree, Next
  PROVE  PagesWillAgree'
<1>1. UNCHANGED setting
  BY SettingStays
<1> SUFFICES ASSUME NEW p \in setting.pages, online'[p], Told(p)' PROVE WillAgree(p)'
  BY <1>1 DEF PagesWillAgree
<1>2. /\ p \in Pages /\ MatOfPage[p] \in Mats /\ setting.handlers \subseteq Handlers
      /\ setting.pages \subseteq Pages
  BY RightMats
<1>3. ASSUME socket'[p] = socket[p], online[p],
             current[MatOfPage[p]] = None => current'[MatOfPage[p]] = None
      PROVE  Told(p) /\ WillAgree(p)
  <2>1. Told(p)
    BY <1>1, <1>3, ToldBefore
  <2> QED
    BY <1>3, <2>1 DEF PagesWillAgree
<1>4. ASSUME UNCHANGED <<current, socket, online>> PROVE online[p] /\ Told(p) /\ WillAgree(p)
  BY <1>3, <1>4
<1>5. ASSUME NEW h \in setting.handlers, NEW q \in setting.pages, Join(h, q)
      PROVE  WillAgree(p)'
  BY <1>5, JoinAgrees
<1>6. ASSUME NEW h \in setting.handlers, NEW q \in setting.pages, NEW side \in Sides,
             Plain(h, q, side)
      PROVE  WillAgree(p)'
  <2>1. UNCHANGED <<current, socket, online>>
    BY <1>2, <1>6, PlainCall DEF dbVars
  <2> QED
    BY <1>4, <1>6, <2>1, PlainAgrees
<1>7. ASSUME NEW h \in setting.handlers,
             (\E q \in setting.pages : SendStopHoldDown(h, q)) \/ (\E m \in Matches : TimerFires(h, m))
      PROVE  WillAgree(p)'
  <2>1. PICK m \in Matches, s \in Sockets \cup {None} :
          \E held, others : Resolve(h, m, held, s, others)
    BY <1>2, <1>7, ResolveSteps
  <2>2. PICK held, others : Resolve(h, m, held, s, others)
    BY <2>1
  <2>3. UNCHANGED <<current, socket, online>>
    BY <2>2 DEF Resolve, dbVars, pageVars
  <2> QED
    BY <1>4, <2>2, <2>3, HoldDownAgrees
<1>8. ASSUME NEW h \in setting.handlers, Proceed(h) PROVE WillAgree(p)'
  <2>1. CASE VerifyPin(h) \/ GetMatState(h) \/ Answer(h)
    <3>1. UNCHANGED <<current, socket, online>>
      BY <2>1 DEF VerifyPin, GetMatState, Answer, dbVars, pageVars
    <3> QED
      BY <1>4, <2>1, <3>1, AnswerAgrees
  <2>2. CASE \/ ApplyScoreEvent(h) \/ StartMatch(h) \/ EndMatch(h)
             \/ EnableGoldenScore(h) \/ GetMatchState(h)
    <3>1. UNCHANGED <<socket, online>>
      BY <1>2, <2>2, ServiceFacts DEF pageVars
    <3>2. current[MatOfPage[p]] = None => current'[MatOfPage[p]] = None
      BY <1>2, <2>2, LinkedServices
    <3> QED
      BY <1>3, <2>2, <3>1, <3>2, ServiceAgrees
  <2>3. CASE Reject(h) \/ RejectDetached(h)
    <3>1. \/ ServerStops
          \/ pc[h] = "apply" /\ Return(h) /\ UNCHANGED <<setting, dbVars, pageVars, inbox>>
      BY <2>3 DEF Reject, RejectDetached, Refused
    <3>2. ~ServerStops
      BY <1>2 DEF ServerStops
    <3>3. UNCHANGED <<current, socket, online>>
      BY <3>1, <3>2 DEF dbVars, pageVars
    <3> QED
      BY <1>4, <3>1, <3>2, <3>3, ReturnAgrees
  <2>4. CASE Tell(h)
    <3>1. UNCHANGED <<current, socket, online>>
      BY <2>4 DEF Tell, dbVars, pageVars
    <3> QED
      BY <1>4, <2>4, <3>1, TellAgrees
  <2> QED
    BY <1>8, <2>1, <2>2, <2>3, <2>4 DEF Proceed
<1>9. ASSUME NEW q \in setting.pages, NEW side \in Sides, StartHoldDown(q, side)
      PROVE  WillAgree(p)'
  <2>1. UNCHANGED <<current, socket, online>>
    BY <1>9 DEF StartHoldDown, dbVars, pageVars
  <2> QED
    BY <1>4, <1>9, <2>1, StartAgrees
<1>10. ASSUME NEW q \in setting.pages,
              Deliver(q) \/ Disconnect(q) \/ PauseOrResume(q) \/ Tick \/ ServerStops
       PROVE  WillAgree(p)'
  <2>1. UNCHANGED <<current, socket>> /\ (online'[p] => online[p])
    <3>1. online \in [Pages -> BOOLEAN]
      BY DEF Linked, Connected, OnlineOK
    <3>2. UNCHANGED <<current, socket>>
      BY <1>10 DEF Deliver, Disconnect, PauseOrResume, Tick, ServerStops, dbVars
    <3>3. online' = online \/ online' = [online EXCEPT ![q] = FALSE] \/ ServerStops
      BY <1>10 DEF Deliver, Disconnect, PauseOrResume, Tick
    <3> QED
      BY <1>2, <3>1, <3>2, <3>3 DEF ServerStops
  <2>2. Told(p) /\ WillAgree(p)
    BY <1>3, <2>1
  <2> QED
    BY <1>10, <2>2, LossesAgree
<1> QED
  BY <1>5, <1>6, <1>7, <1>8, <1>9, <1>10, NextCalls

LEMMA ViewsNext ==
  ASSUME OneLoserPerSlot, Typing, Typing', NumbersGiven, Linked, ByScoreOnly, OpenSlots, Known, ViewsInv,
         [Next]_vars
  PROVE  ViewsInv'
<1> SUFFICES ASSUME Serial' PROVE CallersThere' /\ PagesWillAgree'
  BY DEF ViewsInv
<1>1. UNCHANGED setting
  BY SettingStays DEF vars
<1>2. Serial /\ CallersThere /\ PagesWillAgree
  BY <1>1 DEF Serial, ViewsInv
<1>3. CallersThere'
  BY <1>2, CallersNext
<1>4. CASE Next
  BY <1>2, <1>3, <1>4, PagesNext
<1>5. CASE UNCHANGED vars
  <2>1. UNCHANGED <<setting, row, current, pc, call, socket, online, view, inbox>>
    BY <1>5 DEF vars, dbVars, pageVars
  <2>2. ASSUME NEW p \in setting.pages, online[p], Told(p) PROVE WillAgree(p)'
    <3>1. WillAgree(p)
      BY <1>2, <2>2 DEF PagesWillAgree
    <3> QED
      BY <1>2, <2>1, <3>1, StillAgrees
  <2> QED
    BY <1>3, <2>1, <2>2 DEF PagesWillAgree, Told
<1> QED
  BY <1>3, <1>4, <1>5

(* When calls do not overlap and all messages have arrived, a page shows a *)
(* match of two competitors as it is in the database, for every draw of a  *)
(* generator, programme, number of pages and of requests.                  *)
THEOREM PagesComeToAgree ==
  ASSUME OneLoserPerSlot, WinnersAwaited
  PROVE  Spec => []ViewsAgree
<1> DEFINE IInv == Typing /\ HoldDownIInv /\ Linked /\ ByScoreOnly /\ OpenSlots /\ Known /\ ViewsInv
<1>1. Init => IInv
  <2>1. Init => ViewsInv
    <3> SUFFICES ASSUME Init PROVE CallersThere /\ PagesWillAgree
      BY DEF ViewsInv
    <3>1. Typing
      BY InitTyping
    <3>2. setting.handlers \subseteq Handlers /\ setting.pages \subseteq Pages
      BY <3>1, RightMats
    <3> QED
      BY <3>2 DEF Init, CallersThere, PagesWillAgree
  <2> QED
    BY <2>1, InitTyping, HoldDownInit, LinkedInit, ByScoreInit, OpenInit, KnownInit
<1>2. IInv /\ [Next]_vars => IInv'
  <2> SUFFICES ASSUME IInv, [Next]_vars PROVE IInv'
    OBVIOUS
  <2>1. Typing' /\ HoldDownIInv' /\ Linked' /\ ByScoreOnly'
    BY NextTyping, HoldDownNext, LinkedNext, ByScoreNext DEF HoldDownIInv
  <2>2. OpenSlots' /\ Known'
    BY KnownNext DEF HoldDownIInv
  <2>3. ViewsInv'
    BY <2>1, ViewsNext DEF HoldDownIInv
  <2> QED
    BY <2>1, <2>2, <2>3
<1>3. IInv => ViewsAgree
  <2> SUFFICES ASSUME IInv, Serial, Quiet, NEW p \in setting.pages, online[p],
                      setting.faults = {} \/ setting.pages = {p},
                      current[MatOfPage[p]] # None \/ socket[p] = 1,
                      view[p].match # None, \A side \in Sides : Offered(p, side)
               PROVE  view[p].row = row[view[p].match]
    BY DEF ViewsAgree
  <2>1. p \in Pages /\ setting.handlers \subseteq Handlers
    BY RightMats
  <2>2. WillAgree(p)
    BY DEF ViewsInv, PagesWillAgree, Told
  <2>3. PICK h \in setting.handlers, e \in View, f \in View : Awaits(p, h, e, f)
    BY <2>2 DEF WillAgree, Awaits
  <2>4. inbox[p] = <<>> /\ pc[h] = "idle"
    BY <2>1 DEF Quiet
  <2>5. Due(row, current, pc[h], call[h], MatOfPage[p], Socket(p)) = <<>>
    BY <2>4, DueLater
  <2>6. view[p] = e /\ e = f
    BY <2>3, <2>4, <2>5, LeadsNowhere DEF Awaits
  <2>7. Agrees(row, view[p], MatOfPage[p])
    BY <2>3, <2>6 DEF Awaits
  <2> QED
    BY <2>7 DEF Agrees, Full, Offered
<1> QED
  BY <1>1, <1>2, <1>3, PTL DEF Spec
=============================================================================
