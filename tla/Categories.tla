----------------------------- MODULE Categories -----------------------------
(***************************************************************************)
(* A competition from the weigh-in on: the categories generated from the   *)
(* weights, their draws, and the mats they are fought on.                  *)
(*                                                                         *)
(* Calls of the organizer overlap: each is split into what it reads and,   *)
(* statement by statement, the transaction that writes.  The rows a        *)
(* transaction has updated or deleted are locked until it ends, and what   *)
(* it writes is seen when it commits (READ COMMITTED).  The end of a match *)
(* is one step here; modules Scoreboard and PoolStage have its statements. *)
(***************************************************************************)
EXTENDS CompetitorRow, SequencesExt

CONSTANTS
  Competitors,     \* the numbers of the rows
  Entrant,         \* gender and birth of a competitor
  Date,            \* the day of the competition
  Handlers,        \* calls in flight at the same time
  Settings,        \* the settings a behaviour starts from, one of them each
  MaxCategories,   \* bound: categories ever created
  MaxMats          \* bound: mats

Ops == {"recordWeight", "updateWeight", "byOrganizer", "generate", "assignCompetitor", "draw",
        "activate", "assignAll", "assign", "assignMatch", "callFirst", "fight", "createMats"}

(* The bounds of a setting: the calls and how many overlap, the competitors*)
(* that take part with their weights, what the scale may show, mats, the   *)
(* sides that may win, and how often brackets are drawn.                   *)
ASSUME CategoriesTypes ==
  /\ MaxCategories \in Nat /\ MaxMats \in Nat
  /\ IsFiniteSet(Competitors) /\ Competitors \subseteq Int /\ IsFiniteSet(Handlers)
  /\ \A s \in Settings : /\ s.handlers \subseteq Handlers /\ s.ops \subseteq Ops
                         /\ DOMAIN s.weight \subseteq Competitors
                         /\ s.scale \subseteq Nat /\ s.mats \in Nat
                         /\ s.winners \subseteq {1, 2} /\ s.draws \in Nat

VARIABLES
  setting,
  status,       \* Competition.status
  competitor,   \* the rows of Competitor
  category,     \* the rows of Category, by id
  match,        \* the rows of Match, by the draw, the category and sequenceNum
  current,      \* Mat.currentMatchId of the mats there are
  pc,           \* the next step of a call
  call,
  created,      \* how many categories there have been
  draws         \* and how many draws

rows == <<competitor, category, match, current>>
vars == <<setting, status, rows, pc, call, created, draws>>

D == INSTANCE Advancement

NoCall == [competitor |-> None, weight |-> None, category |-> None, todo |-> {}, locked |-> {},
           known |-> {}, members |-> <<>>, target |-> <<>>, left |-> 0]

(* The class of a competitor, from the weight the row has now.             *)
ClassNow(c) ==
  ClassOf([birth |-> Entrant[c].birth, gender |-> Entrant[c].gender,
           weight |-> competitor[c].weight], Date)

Members(id) == {c \in DOMAIN competitor : competitor[c].category = id}

MatchesOf(id) == {m \in DOMAIN match : match[m].category = id}

Begun(id) == \E m \in MatchesOf(id) : match[m].status # "SCHEDULED"

Init ==
  /\ setting \in Settings
  /\ status = "WEIGH_IN"
  /\ competitor = [c \in DOMAIN setting.weight |->
                     [weight |-> setting.weight[c], category |-> None, status |-> setting.status]]
  /\ category = <<>> /\ match = <<>>
  /\ current = [mat \in 1..setting.mats |-> None]
  /\ pc = [h \in Handlers |-> "idle"]
  /\ call = [h \in Handlers |-> NoCall]
  /\ created = 0 /\ draws = 0

-----------------------------------------------------------------------------
(* Calls and their locks *)

Goto(h, where, c) == pc' = [pc EXCEPT ![h] = where] /\ call' = [call EXCEPT ![h] = c]

Begin(h, op, where, c) == op \in setting.ops /\ pc[h] = "idle" /\ Goto(h, where, c)

Return(h) == Goto(h, "idle", NoCall)

(* generateCategories updates all competitors before anything else.        *)
LocksCompetitors(h) == pc[h] \in {"replace", "create"}

(* Mutant of CompetitorsFree: the competitors are not cleared first.       *)
CompetitorsNeverLocked(h) == TRUE

CompetitorsFree(h) == \A g \in Handlers \ {h} : ~LocksCompetitors(g)

CategoriesFree(h, ids) == \A g \in Handlers \ {h} : call[g].locked \cap ids = {}

MatchFree(m) == \A g \in Handlers : match[m].category \notin call[g].locked

(* Any statement of a transaction may fail, and a deadlock is broken by    *)
(* failing one: nothing is written.                                        *)
Rollback(h) ==
  /\ pc[h] \in {"clear", "replace", "create", "draw", "assign"}
  /\ Return(h)
  /\ UNCHANGED <<setting, status, rows, created, draws>>

-----------------------------------------------------------------------------
(* The weigh-in *)

RecordWeight(h, c, w) ==
  /\ status = "WEIGH_IN"
  /\ competitor[c].category = None \/ ~Begun(competitor[c].category)
  /\ Begin(h, "recordWeight", "recordWeight", [NoCall EXCEPT !.competitor = c, !.weight = w])
  /\ UNCHANGED <<setting, status, rows, created, draws>>

UpdateWeight(h, c, w) ==
  /\ status = "WEIGH_IN"
  /\ Begin(h, "updateWeight", "updateWeight", [NoCall EXCEPT !.competitor = c, !.weight = w])
  /\ UNCHANGED <<setting, status, rows, created, draws>>

WriteWeight(h) ==
  LET c == call[h].competitor
      w == call[h].weight
  IN  /\ pc[h] \in {"recordWeight", "updateWeight"} /\ CompetitorsFree(h)
      /\ competitor' = [competitor EXCEPT ![c] =
                          IF pc[h] = "recordWeight" THEN WeighedIn(@, w) ELSE Reweighed(@, w)]
      /\ Return(h)
      /\ UNCHANGED <<setting, status, category, match, current, created, draws>>

(* withdraw, disqualify and updateStatus look at nothing.                  *)
ByOrganizer(c) ==
  /\ "byOrganizer" \in setting.ops /\ \A h \in Handlers : ~LocksCompetitors(h)
  /\ \E row \in {Withdrawn(competitor[c]), Disqualified(competitor[c])}
                 \cup {WithStatus(competitor[c], s) : s \in RegistrationStatuses} :
       competitor' = [competitor EXCEPT ![c] = row]
  /\ UNCHANGED <<setting, status, category, match, current, pc, call, created, draws>>

Activate ==
  /\ "activate" \in setting.ops /\ status = "WEIGH_IN"
  /\ status' = NextStatus(status)
  /\ UNCHANGED <<setting, rows, pc, call, created, draws>>

-----------------------------------------------------------------------------
(* generateCategories *)

GenerateCategories(h) ==
  /\ status = "WEIGH_IN" /\ \A id \in DOMAIN category : ~Begun(id)
  /\ Begin(h, "generate", "clear", NoCall)
  /\ UNCHANGED <<setting, status, rows, created, draws>>

(* categoryId is cleared, which waits for and then locks every competitor; *)
(* the categories to delete are those the next statement finds.            *)
ClearCategories(h) ==
  /\ pc[h] = "clear" /\ CompetitorsFree(h)
  /\ Goto(h, "replace", [NoCall EXCEPT !.known = DOMAIN category])
  /\ UNCHANGED <<setting, status, rows, created, draws>>

(* The categories are deleted, which waits for those that are written by   *)
(* others; who has been weighed in is read.                                *)
ReplaceCategories(h) ==
  LET fit == {c \in DOMAIN competitor : competitor[c].status = "WEIGHED_IN" /\ ClassNow(c) # None}
      classes == {ClassNow(c) : c \in fit}
  IN  /\ pc[h] = "replace" /\ CategoriesFree(h, call[h].known)
      /\ created + Cardinality(classes) <= MaxCategories
      /\ Goto(h, "create", [call[h] EXCEPT !.locked = call[h].known,
                             !.members = [class \in classes |-> {c \in fit : ClassNow(c) = class}]])
      /\ UNCHANGED <<setting, status, rows, created, draws>>

(* The new categories with their competitors; the matches of the old ones  *)
(* are deleted with them.                                                  *)
CreateCategories(h) ==
  LET members == call[h].members
      order == SetToSeq(DOMAIN members)
      id(class) == created + (CHOOSE i \in DOMAIN order : order[i] = class)
      new == [i \in {id(class) : class \in DOMAIN members} |->
                [class |-> order[i - created], mat |-> None]]
      old == call[h].locked
  IN  /\ pc[h] = "create"
      /\ category' = [i \in DOMAIN new \cup (DOMAIN category \ old) |->
                        IF i \in DOMAIN new THEN new[i] ELSE category[i]]
      /\ match' = Restrict(match, {m \in DOMAIN match : match[m].category \notin old})
      /\ competitor' = [c \in DOMAIN competitor |->
           [competitor[c] EXCEPT !.category =
              IF \E class \in DOMAIN members : c \in members[class]
              THEN id(CHOOSE class \in DOMAIN members : c \in members[class]) ELSE None]]
      /\ created' = created + Len(order)
      /\ Return(h)
      /\ UNCHANGED <<setting, status, current, draws>>

(* assignCompetitor: the category for the weight that was read.            *)
AssignCompetitor(h, c) ==
  \E id \in DOMAIN category :
    /\ category[id].class = ClassNow(c)
    /\ Begin(h, "assignCompetitor", "assignCompetitor",
             [NoCall EXCEPT !.competitor = c, !.category = id])
    /\ UNCHANGED <<setting, status, rows, created, draws>>

WriteCategory(h) ==
  LET id == call[h].category
  IN  /\ pc[h] = "assignCompetitor" /\ CompetitorsFree(h) /\ CategoriesFree(h, {id})
      /\ competitor' = IF id \in DOMAIN category
                       THEN [competitor EXCEPT ![call[h].competitor].category = id] ELSE competitor
      /\ Return(h)
      /\ UNCHANGED <<setting, status, category, match, current, created, draws>>

-----------------------------------------------------------------------------
(* generateBrackets *)

Drawable == {id \in DOMAIN category : Cardinality(Members(id)) >= 2}

(* A set in an order: each comes after those that go before it.            *)
Sorted(S, before(_, _)) ==
  [i \in 1..Cardinality(S) |->
     CHOOSE x \in S : Cardinality({y \in S : before(y, x)}) = i - 1]

(* The competitors of a category are read in the order of their rows.      *)
ReadBefore(c, d) == c < d

(* Whoever is in a category is drawn, also if withdrawn.                   *)
GenerateBrackets(h) ==
  /\ status \in {"WEIGH_IN", "ACTIVE"} /\ draws < setting.draws
  /\ Begin(h, "draw", "draw",
       [NoCall EXCEPT !.todo = Drawable, !.known = DOMAIN match,
                      !.members = [id \in Drawable |-> Sorted(Members(id), ReadBefore)],
                      !.target = [id \in Drawable |-> category[id].mat]])
  /\ UNCHANGED <<setting, status, rows, created, draws>>

(* The next category is updated, which locks it; the call fails when it    *)
(* has been deleted.                                                       *)
UpdateCategory(h) ==
  /\ pc[h] \in {"draw", "assign"}
  /\ \E id \in call[h].todo :
       /\ CategoriesFree(h, {id})
       /\ IF id \in DOMAIN category
          THEN Goto(h, pc[h], [call[h] EXCEPT !.todo = @ \ {id}, !.locked = @ \cup {id}])
          ELSE Return(h)
  /\ UNCHANGED <<setting, status, rows, created, draws>>

(* Mutant of Replaced: the matches that were read with the categories.     *)
ReplacedAsRead(h) == {m \in call[h].known : m \in DOMAIN match /\ match[m].category \in call[h].locked}

(* The matches a category has when it is locked, whatever their status.    *)
Replaced(h) == {m \in DOMAIN match : match[m].category \in call[h].locked}

FormatOf(n) ==
  CASE n <= 4                   -> "ROUND_ROBIN"
    [] D!IsPoolsBracketSize(n)  -> "POOLS"
    [] OTHER                    -> "GRAND_SLAM"

(* The generators list the matches phase by phase, pool by pool, round by  *)
(* round.                                                                  *)
Listed ==
  << <<"MAIN", D!NoGroup>>, <<"POOL", "A">>, <<"POOL", "B">>, <<"POOL", "C">>, <<"POOL", "D">>,
     <<"KNOCKOUT_SF", D!NoGroup>>, <<"KNOCKOUT_FINAL", D!NoGroup>>,
     <<"REPECHAGE", "TOP">>, <<"REPECHAGE", "BOTTOM">>,
     <<"KNOCKOUT_BRONZE", "TOP">>, <<"KNOCKOUT_BRONZE", "BOTTOM">> >>

Part(p) == CHOOSE i \in DOMAIN Listed : Listed[i] = <<p.phase, p.group>>

ListedBefore(p, q) ==
  \/ Part(p) < Part(q)
  \/ Part(p) = Part(q) /\ p.round < q.round
  \/ Part(p) = Part(q) /\ p.round = q.round /\ p.position < q.position

(* The matches of a draw in the order of their sequenceNum.  The format is *)
(* the bracketType of the category, which the same transaction writes.     *)
DrawOf(h, id) ==
  LET seed == call[h].members[id]
      format == FormatOf(Len(seed))
      drawn == D!Draw(format, Len(seed))
      order == Sorted(DOMAIN drawn, ListedBefore)
      entrant(p, side) == IF drawn[p][side] = D!Nobody THEN None ELSE seed[drawn[p][side] + 1]
  IN  [k \in {<<draws + 1, id, i>> : i \in DOMAIN order} |->
         [category |-> id, format |-> format, place |-> order[k[3]],
          competitor |-> [side \in D!Sides |-> entrant(order[k[3]], side)],
          status |-> "SCHEDULED", mat |-> call[h].target[id]]]

CommitDraw(h) ==
  LET draw == [id \in call[h].locked |-> DrawOf(h, id)]
      drawn == UNION {DOMAIN draw[id] : id \in call[h].locked}
      kept == DOMAIN match \ Replaced(h)
  IN  /\ pc[h] = "draw" /\ call[h].todo = {} /\ draws < setting.draws
      /\ match' = [k \in drawn \cup kept |-> IF k \in drawn THEN draw[k[2]][k] ELSE match[k]]
      /\ draws' = draws + 1
      /\ Return(h)
      /\ UNCHANGED <<setting, status, competitor, category, current, created>>

-----------------------------------------------------------------------------
(* Mats *)

(* Mutant of Heavier: small categories first.                              *)
Lighter(count, a, b) == count[a] < count[b]

Heavier(count, a, b) == count[a] > count[b]

(* What the sort by size makes of the categories, read in any order.       *)
SortedBySize(count) ==
  {order \in Bijection(1..Cardinality(DOMAIN count), DOMAIN count) :
     \A i, j \in DOMAIN order : i < j => ~Heavier(count, order[j], order[i])}

Load(count, target, ids, mat) == SumFunctionOnSet(count, {id \in ids : target[id] = mat})

(* Each category in turn goes to the first mat with the least competitors. *)
Balances(count, mats, order, target) ==
  \A i \in DOMAIN order, other \in mats :
    LET load(mat) == Load(count, target, {order[j] : j \in 1..(i - 1)}, mat)
        mat == target[order[i]]
    IN  load(mat) < load(other) \/ (load(mat) = load(other) /\ mat <= other)

AssignCategoriesToMats(h) ==
  LET count == [id \in DOMAIN category |-> Cardinality(Members(id))]
      orders == SortedBySize(count)
      mats == DOMAIN current
  IN  /\ mats # {} /\ DOMAIN category # {}
      /\ \E target \in [DOMAIN category -> mats] :
           /\ Begin(h, "assignAll", "assign",
                [NoCall EXCEPT !.todo = DOMAIN category, !.known = mats, !.members = count,
                               !.target = target])
           /\ \E order \in orders : Balances(count, mats, order, target)
      /\ UNCHANGED <<setting, status, rows, created, draws>>

AssignCategoryToMat(h, id, mat) ==
  /\ Begin(h, "assign", "assign", [NoCall EXCEPT !.todo = {id}, !.target = [i \in {id} |-> mat]])
  /\ UNCHANGED <<setting, status, rows, created, draws>>

(* Mutant of MovesAlong: matches that are fought stay where they are.      *)
MovesWhenScheduled(m) == match[m].status = "SCHEDULED"

MovesAlong(m) == match[m].status # "COMPLETED"

CommitMats(h) ==
  LET target == call[h].target
  IN  /\ pc[h] = "assign" /\ call[h].todo = {}
      /\ category' = [id \in DOMAIN category |->
           IF id \in DOMAIN target THEN [category[id] EXCEPT !.mat = target[id]] ELSE category[id]]
      /\ match' = [m \in DOMAIN match |->
           IF match[m].category \in DOMAIN target /\ MovesAlong(m)
           THEN [match[m] EXCEPT !.mat = target[match[m].category]] ELSE match[m]]
      /\ Return(h)
      /\ UNCHANGED <<setting, status, competitor, current, created, draws>>

NextNumber == Cardinality(DOMAIN current) + 1

CreateMats(h, n) ==
  /\ Cardinality(DOMAIN current) + n <= MaxMats
  /\ Begin(h, "createMats", "createMats", [NoCall EXCEPT !.target = NextNumber, !.left = n])
  /\ UNCHANGED <<setting, status, rows, created, draws>>

(* Mats are created one by one; the number of a mat is unique, and the     *)
(* call fails at the first that is taken.                                  *)
CreateMat(h) ==
  LET number == call[h].target
  IN  /\ pc[h] = "createMats"
      /\ IF call[h].left = 0 \/ number \in DOMAIN current
         THEN Return(h) /\ UNCHANGED current
         ELSE /\ current' = [mat \in DOMAIN current \cup {number} |-> IF mat = number THEN None ELSE current[mat]]
              /\ Goto(h, pc[h], [call[h] EXCEPT !.target = @ + 1, !.left = @ - 1])
      /\ UNCHANGED <<setting, status, competitor, category, match, created, draws>>

-----------------------------------------------------------------------------
(* Matches *)

(* A match that can be fought has two competitors.                         *)
Ready(m) == \A side \in D!Sides : match[m].competitor[side] # None

Before(m, n) == match[m].category < match[n].category
                \/ (match[m].category = match[n].category /\ m[3] < n[3])

(* The matches a mat may call next: advanceMatQueue and getMats.           *)
Queue(mat, but) ==
  Sorted({m \in DOMAIN match : /\ match[m].mat = mat /\ match[m].status = "SCHEDULED"
                               /\ Ready(m) /\ m # but},
         Before)

NextOn(mat, but) == IF Queue(mat, but) = <<>> THEN None ELSE Head(Queue(mat, but))

(* Mutant of ScheduledBefore: round by round.                              *)
ScheduledByRound(m, n) ==
  \/ match[m].place.round < match[n].place.round
  \/ match[m].place.round = match[n].place.round /\ (m[2] < n[2] \/ (m[2] = n[2] /\ m[3] < n[3]))

(* computeEtas: the matches of a mat, the one that is fought first.  A     *)
(* match is announced for its place, counted from zero, times the duration *)
(* of a match.                                                             *)
ScheduledBefore(m, n) ==
  IF match[m].status # match[n].status THEN match[m].status = "ACTIVE" ELSE Before(m, n)

OnSchedule(mat) ==
  {m \in DOMAIN match : match[m].mat = mat /\ match[m].status # "COMPLETED" /\ Ready(m)}

Eta(m) ==
  IF match[m].status = "ACTIVE" THEN 0
  ELSE Cardinality({n \in OnSchedule(match[m].mat) : ScheduledBefore(n, m)})

(* The public schedule: the matches after the current one of a mat.        *)
UpNext(mat) ==
  LET queue == Queue(mat, current[mat])
  IN  SubSeq(queue, 1, Min({8, Len(queue)}))

FormatEta(eta) == IF eta = 0 THEN "starting" ELSE "later"

(* What the schedule says of a match of a list, and the spectators' page   *)
(* of the match of a mat.  A match that waits for competitors has no       *)
(* forecast.                                                               *)
EtaPill(m) ==
  IF match[m].status = "ACTIVE" THEN "live" ELSE IF Ready(m) THEN FormatEta(Eta(m)) ELSE None

MatStatusBadge(m) == IF match[m].status = "COMPLETED" THEN "final" ELSE EtaPill(m)

(* The organizer may override the queue with a match that is scheduled.    *)
Overrides == {m \in DOMAIN match : match[m].status = "SCHEDULED"}

(* Those of the categories that are on the mat, or on none.                *)
Eligible(mat) == {m \in Overrides : category[match[m].category].mat \in {None, mat}}

(* Whatever is picked becomes current: assignMatchToMat looks at nothing.  *)
(* (Where a setting has callFirst, only a free mat is given a match.)      *)
AssignMatchToMat(mat, m) ==
  /\ "assignMatch" \in setting.ops \/ ("callFirst" \in setting.ops /\ current[mat] = None)
  /\ m \in Eligible(mat)
  /\ current' = [current EXCEPT ![mat] = m]
  /\ UNCHANGED <<setting, status, competitor, category, match, pc, call, created, draws>>

(* A mat starts and ends the match it shows; neither looks at the status   *)
(* of the competition.                                                     *)
StartMatch(mat) ==
  LET m == current[mat]
  IN  /\ "fight" \in setting.ops /\ m \in DOMAIN match
      /\ match[m].status = "SCHEDULED" /\ MatchFree(m)
      /\ match' = [match EXCEPT ![m].status = "ACTIVE"]
      /\ UNCHANGED <<setting, status, competitor, category, current, pc, call, created, draws>>

(* advanceWinner.  The final and the bronze of pools are found by their    *)
(* phase, and a semi-final fills the side of its position.                 *)
KnockoutFinal == D!MatchId("KNOCKOUT_FINAL", D!NoGroup, 100, 1)

KnockoutBronze == D!MatchId("KNOCKOUT_BRONZE", D!NoGroup, 100, 2)

KnockoutSemifinal(position) == D!MatchId("KNOCKOUT_SF", D!NoGroup, 99, position)

IsPoolSemifinal(m) == match[m].format = "POOLS" /\ match[m].place.phase = "KNOCKOUT_SF"

(* The places of the category, as the helpers look them up.                *)
PlacesOf(m) == [p \in {match[n].place : n \in MatchesOf(match[m].category)} |-> D!Open]

WinnerGoesTo(m) ==
  CASE match[m].format = "GRAND_SLAM" -> D!WinnerInGrandSlam(PlacesOf(m), match[m].place)
    [] IsPoolSemifinal(m)             -> {D!Route(KnockoutFinal, match[m].place.position)}
    [] OTHER                          -> {}

LoserGoesTo(m) ==
  CASE match[m].format = "GRAND_SLAM" -> D!LoserInGrandSlam(PlacesOf(m), match[m].place)
    [] IsPoolSemifinal(m)             -> {D!Route(KnockoutBronze, match[m].place.position)}
    [] OTHER                          -> {}

(* Who is in match n once side has won match m of the same category.       *)
Advanced(m, side, n) ==
  LET winner == match[m].competitor[side]
      loser == match[m].competitor[D!Opponent(side)]
      slot(s) == D!Route(match[n].place, s)
  IN  [s \in D!Sides |-> CASE slot(s) \in WinnerGoesTo(m)                 -> winner
                           [] slot(s) \in LoserGoesTo(m) /\ loser # None -> loser
                           [] OTHER                                     -> match[n].competitor[s]]

Fought(m, side) ==
  [n \in DOMAIN match |->
     [match[n] EXCEPT !.status = IF n = m THEN "COMPLETED" ELSE @,
                      !.competitor = IF match[n].category = match[m].category
                                     THEN Advanced(m, side, n) ELSE @]]

(* The last pool match creates the knock-out, once, without a mat.         *)
EndsPoolStage(m) ==
  /\ match[m].format = "POOLS" /\ match[m].place.phase = "POOL"
  /\ \A n \in MatchesOf(match[m].category) \ {m} :
       match[n].place.phase = "POOL" /\ match[n].status = "COMPLETED"

EntrantsOf(id, groups) ==
  {match[m].competitor[side] : m \in {n \in MatchesOf(id) : match[n].place.group \in groups},
                               side \in D!Sides}

(* The first two of a pool, whoever they are: module PoolStage has the     *)
(* standings.                                                              *)
FirstTwo(id, group) ==
  {two \in [D!Sides -> EntrantsOf(id, {group})] : two[1] # two[2]}

(* The matches of the knock-out in the order they are created, and who is  *)
(* in them; a and b are the first two of the pools.                        *)
KnockoutPlan(count, a, b) ==
  IF count <= 8
  THEN << <<KnockoutFinal, a[1], b[1]>>, <<KnockoutBronze, a[2], b[2]>> >>
  ELSE << <<KnockoutSemifinal(1), a[1], b[2]>>, <<KnockoutSemifinal(2), b[1], a[2]>>,
          <<KnockoutFinal, None, None>>, <<KnockoutBronze, None, None>> >>

Knockout(m, a, b) ==
  LET id == match[m].category
      last == Cardinality(MatchesOf(id))
      plan == KnockoutPlan(Cardinality(EntrantsOf(id, {"A", "B"})), a, b)
  IN  [k \in {<<m[1], id, last + i>> : i \in DOMAIN plan} |->
         LET planned == plan[k[3] - last]
         IN  [category |-> id, format |-> "POOLS", place |-> planned[1],
              competitor |-> [side \in D!Sides |-> planned[side + 1]],
              status |-> "SCHEDULED", mat |-> None]]

Inserted(new, old) ==
  [k \in DOMAIN old \cup DOMAIN new |-> IF k \in DOMAIN old THEN old[k] ELSE new[k]]

(* The mat that goes on is the one the match is on by then; its queue has  *)
(* the matches that this end has made ready.                               *)
EndMatch(m, side) ==
  /\ match[m].status = "ACTIVE" /\ MatchFree(m) /\ match[m].competitor[side] # None
  /\ IF EndsPoolStage(m)
     THEN \E a \in FirstTwo(match[m].category, "A"), b \in FirstTwo(match[m].category, "B") :
            match' = Inserted(Knockout(m, a, b), Fought(m, side))
     ELSE match' = Fought(m, side)
  /\ \E mat \in {match[m].mat} :
       current' = IF mat # None /\ current[mat] = m
                  THEN [current EXCEPT ![mat] = NextOn(mat, m)'] ELSE current
  /\ UNCHANGED <<setting, status, competitor, category, pc, call, created, draws>>

-----------------------------------------------------------------------------
Next ==
  \/ \E h \in setting.handlers :
       \/ \E c \in DOMAIN competitor, w \in setting.scale : RecordWeight(h, c, w) \/ UpdateWeight(h, c, w)
       \/ WriteWeight(h)
       \/ GenerateCategories(h) \/ ClearCategories(h) \/ ReplaceCategories(h) \/ CreateCategories(h)
       \/ \E c \in DOMAIN competitor : AssignCompetitor(h, c)
       \/ WriteCategory(h)
       \/ GenerateBrackets(h) \/ UpdateCategory(h) \/ CommitDraw(h)
       \/ AssignCategoriesToMats(h)
       \/ \E id \in DOMAIN category, mat \in DOMAIN current \cup {None} : AssignCategoryToMat(h, id, mat)
       \/ CommitMats(h)
       \/ \E n \in 1..2 : CreateMats(h, n)
       \/ CreateMat(h)
       \/ Rollback(h)
  \/ \E c \in DOMAIN competitor : ByOrganizer(c)
  \/ Activate
  \/ \E mat \in DOMAIN current : StartMatch(mat) \/ \E m \in DOMAIN match : AssignMatchToMat(mat, m)
  \/ \E m \in DOMAIN match, side \in setting.winners : EndMatch(m, side)

Spec == Init /\ [][Next]_vars

-----------------------------------------------------------------------------
(* Properties *)

Serial == Cardinality(setting.handlers) = 1

(* However often and with whatever overlap categories are generated, there *)
(* is one category for a class.                                            *)
OneCategoryPerClass ==
  \A id, other \in DOMAIN category : category[id].class = category[other].class => id = other

(* A competitor in a category has the weight of its class, also when the   *)
(* scale and the generation of categories overlap.  assignCompetitor reads *)
(* the weight outside its update: when a weighing comes in between, it puts*)
(* the competitor into the category of the weight before.                  *)
CategoryFits ==
  Serial \/ "assignCompetitor" \notin setting.ops =>
    \A c \in DOMAIN competitor :
      LET id == competitor[c].category
      IN  id # None => id \in DOMAIN category /\ category[id].class = ClassNow(c)

Opponents(m) == {match[m].competitor[side] : side \in D!Sides}

(* The matches of a category are one draw, however many calls draw it at   *)
(* the same time and whatever is fought: they are numbered from one on,    *)
(* the routes of winners and losers find each by its place, and in a round *)
(* robin each two meet once.                                               *)
OneDrawPerCategory ==
  \A id \in DOMAIN category :
    LET drawn == UNION {Opponents(m) : m \in MatchesOf(id)}
    IN  /\ {m[3] : m \in MatchesOf(id)} = 1..Cardinality(MatchesOf(id))
        /\ \A m, n \in MatchesOf(id) : match[m].place = match[n].place => m = n
        /\ (\A m \in MatchesOf(id) : match[m].format = "ROUND_ROBIN") =>
             \A pair \in kSubset(2, drawn) :
               Cardinality({m \in MatchesOf(id) : Opponents(m) = pair}) = 1

(* One call of the organizer at a time, and matches that start and end     *)
(* meanwhile: each that is not over is in the queue of its category's mat. *)
(* The knock-out of pools has no mat when it is created; it goes with its  *)
(* category from the next assignment on.  (A draw that overlaps with an    *)
(* assignment writes the mat it has read.)                                 *)
MatchesFollowCategory ==
  Serial =>
    \A m \in DOMAIN match :
      match[m].status # "COMPLETED" =>
        \/ match[m].mat = category[match[m].category].mat
        \/ match[m].mat = None /\ match[m].format = "POOLS" /\ match[m].place.phase # "POOL"

(* Auto-assignment spreads the competitors over the mats it has read:      *)
(* without its smallest category no mat would have more than another.      *)
MatsAreBalanced ==
  \A h \in Handlers :
    LET count == call[h].members
        target == call[h].target
        on(mat) == {id \in DOMAIN target : target[id] = mat}
        load(mat) == Load(count, target, DOMAIN target, mat)
    IN  pc[h] = "assign" /\ count # <<>> =>
          \A mat, other \in call[h].known :
            \A id \in on(mat) : (\A least \in on(mat) : count[id] <= count[least])
              => load(mat) - count[id] <= load(other)

(* The mats are numbered from one without a gap, although calls that       *)
(* create them overlap and fail half-way.                                  *)
MatsAreNumbered == DOMAIN current = 1..Cardinality(DOMAIN current)

(* The forecast of the schedule and the queue of the mats agree.  While a  *)
(* match of two competitors is fought the schedule lists those to come in  *)
(* the order of their forecasts and announces none as starting.  When it   *)
(* ends, the mat goes on to the first of the list, unless this end has made*)
(* a match of the same category ready that goes before it: a pool final    *)
(* whose last semi-final this was is called before the matches that were   *)
(* announced.  What is called is announced as starting from then on,       *)
(* unless yet another match is fought on the mat.                          *)
CalledAsForecast ==
  [][\A m \in DOMAIN match \cap DOMAIN match' :
       LET mat == match[m].mat
           next == UpNext(mat)
           woken == {n \in MatchesOf(match[m].category) :
                       /\ match[n].mat = mat /\ match[n].status = "SCHEDULED"
                       /\ ~Ready(n) /\ Ready(n)'}
           candidates == {next[i] : i \in DOMAIN next \cap {1}} \cup woken
           alone == \A n \in DOMAIN match \ {m} : match[n].mat = mat => match[n].status # "ACTIVE"
       IN  match[m].status = "ACTIVE" /\ match'[m].status = "COMPLETED" /\ Ready(m)
             /\ mat # None /\ current[mat] = m
           => /\ MatStatusBadge(m) = "live"
              /\ \A i \in DOMAIN next : /\ EtaPill(next[i]) = "later"
                                        /\ i > 1 => Eta(next[i - 1]) < Eta(next[i])
              /\ candidates = {} => current'[mat] = None
              /\ candidates # {} =>
                   \E n \in candidates : /\ current'[mat] = n
                                         /\ \A other \in candidates \ {n} : Before(n, other)
                                         /\ alone => MatStatusBadge(n)' = "starting"]_vars

(* A mat never shows a match that is over, when no calls overlap.  False:  *)
(* a match that is fought may be moved to another mat.                     *)
MatGoesOn ==
  Serial =>
    \A mat \in DOMAIN current :
      current[mat] \in DOMAIN match => match[current[mat]].status # "COMPLETED"

(* Generated categories partition the competitors by class: one category   *)
(* for a class, and in it nobody of another.                               *)
CategoriesPartition == OneCategoryPerClass /\ CategoryFits

(* The mats, however calls that create them and calls that assign to them  *)
(* overlap: numbered without a gap, and evenly used.                       *)
MatsAreInOrder == MatsAreNumbered /\ MatsAreBalanced
=============================================================================
