# Matside: verification project

Matside runs judo competitions: registration and weigh-in, categories, draws,
one scoreboard per mat, standings. This directory models its server and the
parts of its pages that decide something in TLA+, checks the models with TLC
and proves with TLAPS, for every value of their constants, the main safety
properties of the scoreboard, the gateway, registration, the pools, the
categories, the draws and the tournaments fought from them.

Paths below are relative to the repository (`src/`): `backend/src/...` is the
NestJS server, `frontend/src/...` the React client.

## 1. The system

| component | state it keeps | operations | interacts with |
|---|---|---|---|
| Scoreboard service (`backend/src/scoreboard/scoreboard.service.ts`) | the `Match` rows: status, competitors, scores, winner, win method, golden score; `Mat.currentMatchId` | `applyScoreEvent`, `startMatch`, `endMatch`, `enableGoldenScore`, `advanceWinner` and its helpers, `advanceMatQueue` | called by the gateway; writes rows the generators created; reads the ranking |
| Scoreboard gateway (`scoreboard.gateway.ts`) | rooms and their controllers, one hold-down (osaekomi) tracker and timer per match, all in memory | `join-mat`, `score-event`, `start-match`, `end-match`, `start-osaekomi`, `stop-osaekomi`, `golden-score`, disconnect, the timer callback | calls the service, emits to the clients of a room |
| Client view (`frontend/src/hooks/useScoreboard.ts`) | the match it shows, role, hold-down, connection | reacts to the events of its room | receives what the gateway emits, in the order it emits |
| Pages of a mat (`frontend/src/pages/scoreboard`) | the clock of the table, the clock of the display, pauses | start, pause, golden score, announcements | each computes its time from what the client view shows |
| Mats (`mat.service.ts`) | `Mat.currentMatchId`, PIN | create, list with queue, assign a match, verify a PIN | shares `currentMatchId` with the scoreboard |
| Schedule (`scheduler.service.ts`) | a five-second cache | estimated start times | reads mats and matches |
| Draws (`backend/src/brackets`) | none; writes `Match` rows | `generateBrackets` and one generator per format | deletes and creates the rows the scoreboard advances |
| Brackets page (`frontend/src/components/BracketView.tsx`) | none | cards, lines, announced losers, medals, the grid of a round robin | repeats geometry and routing of the server |
| Standings (`backend/src/standings`) | none | ranking of round robins, pools, brackets | reads matches; also decides who enters the knock-out |
| Categories (`backend/src/categories`) | `Category`, `Competitor.categoryId`, `matId` of categories and matches | generate, assign a competitor, assign to mats | guards against matches in progress; cascades to matches |
| Weight classes (`ijf-projection.util.ts`, `age-group.util.ts`, and copies in the pages) | none | the class of a birth date, gender and weight | registration, weigh-in, categories |
| Competition (`backend/src/competitions`) | `Competition.status`, cap | create, update, list, public view, access checks | its status gates registration, weigh-in, categories, draws |
| Competitors (`backend/src/competitors`) | registration status, weight, category | register, weigh in, disqualify, withdraw | capacity check in a SERIALIZABLE transaction |
| Athletes (`backend/src/athletes`) | one row per person, unique by email and by licence | find or create at registration, backfill, profile | called inside the transaction of registration |
| Accounts (`backend/src/auth`), health, mail, Sentry, other pages | tokens, users; UI state | log in, render | — |

## 2. What is hard here, and what makes each part correct

* Every service method reads first and writes later. Nothing locks the row
  between, and PostgreSQL runs at READ COMMITTED, so two calls decide on the
  same reading.
* Completing a match is a transaction of several statements over the rows of
  other matches and of the mat.
* Hold-downs are timers in memory: a timer can fire while the table official
  stops the hold-down, starts another or ends the match by hand, and a
  restart forgets it.
* Answers and broadcasts are sent after an `await`, to a room looked up then.
* Every page keeps a clock of its own and repeats rules of the server: classes,
  rounds, routes, medals.
* Draws are regenerated and competitors disqualified while matches run.
* Status checks (registration open, competition active, nothing in progress)
  are made in one statement and relied on in a later one.

| component | correct when |
|---|---|
| Scoreboard service | a match never runs on a score that decides it; a completed match has its winner in the next one, in one commit; losers that share a match both get a side; every call returns |
| Mats, queue, schedule | a mat moves only from the match just completed, to the first match that can be fought: the one the schedule announced, or one of the same category that its last match has made ready |
| Draws | every pair of a round robin meets once; everybody enters an elimination once; seeds meet late; pools are balanced; the page draws the same bracket |
| Advancement | nobody has two places, a rematch on the way to bronze, or a third chance; the podium is reached whatever the order |
| Pools | one knock-out is created, from the tables, and the category always has a match to fight until four are placed |
| Standings | shared places are the reported ties; a win never costs the winner a place; COMPLETE means over |
| Gateway, pages of a mat | a hold-down scores at most once, and what the pages announced; a page ends up showing the last state and the result; golden score is not offered while there is official time left |
| Registration, weigh-in | no class above its cap; an athlete is one person who has registered; one class for a weight, the one the page announced, wherever its browser is |
| Categories, mats | one category for a class and one draw for a category, whatever overlaps; a match is in the queue of its category's mat; mats are evenly used |

## 3. The modules

| module | models | uses |
|---|---|---|
| `Scoring` | the pure part of `applyScoreEvent`: scores after an event, when and for whom it ends the match | |
| `MatchRow` | one row of `Match`, its loser, the side that is free, whether it can be fought | `Scoring` |
| `Draw` | the rows after generation and the routes out of every match, as constants | `MatchRow` |
| `AtomicBracket` | abstract: completing, advancing and routing in one step | `Draw` |
| `Scoreboard` | `ScoreboardService` and `assignMatchToMat`, one step per database statement, any number of calls at a time | `Draw`, implements `AtomicBracket` |
| `ScoreboardProofs` | the theorems about it | `Scoreboard`, `DrawLemmas` |
| `ClientView` | `useScoreboard`: what a page makes of each message, and what it announces | `MatchRow` |
| `MatchClocks` | the clock of the table and the clock of the display | `ClientView` |
| `Gateway` | `ScoreboardGateway` with the pages of its rooms; each service call one step of `AtomicBracket` | `Draw`, `MatchClocks` |
| `GatewayProofs` | the theorems about it | `Gateway`, `DrawLemmas` |
| `Brackets` | the five generators | |
| `BracketView` | what the brackets page computes: cards, lines, announced losers, medals, labels, the grid | `MatchRow`, `Brackets` |
| `Drawing` | `generateBrackets` for a category that grows, and its page | `BracketView`, `Advancement` |
| `Advancement` | the routes of `advanceWinner` and its helpers, per format | `Brackets` |
| `Standings` | the places of formats that end in a knock-out | `MatchRow`, `Brackets` |
| `Tournament` | a drawn category from the first match to the podium, its page and its athletes' profiles; each match one step of `AtomicBracket` | `Standings`, `Advancement`, `BracketView`, `AtomicBracket` |
| `Ranking` | `rankRoundRobin` and its criteria | `MatchRow` |
| `PoolStage` | a POOLS category: pool matches, the transaction that creates the knock-out, statement by statement, and the knock-out | `Ranking`, `Standings` |
| `PoolStageProofs` | the theorems about it | `PoolStage`, `DrawLemmas` |
| `RoundRobinTable` | a round robin, its table, its grid and its status while matches are fought and competitors leave | `Ranking`, `BracketView` |
| `TableProofs` | the theorems about it, for every number of competitors | `RoundRobinTable`, `DrawLemmas` |
| `WeightClasses` | the age on a day, the age group, the class of a weight, from the server's tables | |
| `CompetitorRow` | the statuses of a competitor and the changes each operation makes | `WeightClasses` |
| `WeighInPage` | the class the registration page and the weigh-in announce, from their own tables and in the browser's time zone | `CompetitorRow` |
| `Registration` | registration, athletes, withdrawals, weigh-in and the competition's status, with overlapping calls | `WeighInPage` |
| `RegistrationProofs` | the theorems about it, and that the copies of the class tables agree | `Registration`, `DrawLemmas` |
| `Categories` | generated categories, their draws in all formats, mats and queues, the schedule, with overlapping calls; matches fought with the routes of `Advancement` and the knock-out of pools | `CompetitorRow`, `Advancement` |
| `DrawLemmas` | what the generators draw, for every number of competitors: the circle method pairs each two once, who is drawn in which pool, the seeds of an elimination are a permutation, its first and second round, the match each match leads to, the best seeds meet late, the snake puts each seed into one pool of a grand slam; which of two entries of a table is ahead; powers of two; a set of numbers has a least one | `Brackets`, `Ranking` |
| `TournamentProofs` | that draws of every size are what `Draw` and `Tournament` take them to be, and the theorems about `Tournament` | `Tournament`, `DrawLemmas` |
| `CategoriesProofs` | the theorems about `Categories` | `Categories`, `DrawLemmas` |

The modules whose name begins with `MC` only give values to constants.

### 3.1 Scoreboard

| in the module | in the code |
|---|---|
| `db` | the committed `Match` rows |
| `work`, `lock` | the newest version of a row and the transaction that holds it |
| `current` | `Mat.currentMatchId` |
| `pc`, `call` | where a call of a method stands and what its local variables hold |
| `StartMatch`, `EnableGoldenScore`, `ScoreEvent`, `DecidingEvent`, `EndMatch` | the reading at the head of a method with its status check, and everything computed from it before the first write |
| `WriteStart`, `WriteGoldenScore`, `WriteScores` | the single UPDATE of a call that completes nothing |
| `WriteResult` ... `SwapAndCommit`, `Commit` | the statements inside `prisma.$transaction` of `applyScoreEvent` and `endMatch`: result, `advanceWinner`, `advanceMatQueue` |
| `Rollback` | any statement failing, the five-second timeout of a transaction, the server stopping |

A call that is rejected by its checks changes nothing and is left out. The
database is modelled from how `src/` uses it: the schema and Prisma options set
no isolation level for these transactions, so PostgreSQL's READ COMMITTED
applies. An UPDATE waits for the row lock and is then applied column by column
to the newest version; a SELECT sees committed rows and those its own
transaction wrote. What an UPDATE does not name keeps its value, so `WriteStart`
of a match that was completed meanwhile leaves the winner where it is.

The gateway passes `winnerId` and `winMethod` of `end-match` on without
comparing the winner with the two competitors, so `EndMatch` takes any
competitor; `start-match` does not look for two competitors either.

`advanceWinner` chooses the next match by format. In `Scoreboard` the result of
this choice is a constant (`WinnerTo`, `LoserTo` and their sides); that the
generators and helpers yield such routes is `Advancement` and `Tournament`,
and `Drawing` evaluates the assumptions of `Draw` on every generated draw
(`RoutesFitTheDraw`). Where the code picks the side for an arriving loser by
reading the row, the constant says `FirstFree` and the reading is a step.

### 3.2 Gateway and the pages of a mat

| in the module | in the code |
|---|---|
| `rooms`, `controllers`, `osaekomi`, `timers` | the maps of the gateway and its `setTimeout`s, lost when the process ends |
| `row`, `current` | the database |
| `inbox` | messages emitted and not yet handled by a page: in order, and lost with the connection |
| `socket`, `online`, `role`, `view`, `hold` | the state of `useScoreboard`; a page that connects again has a new socket |
| `clock` | the countdown of `ControlPage`, `startedAtRef` of `DisplayPage` |
| `Join`, `VerifyPin`, `GetMatState`, `Answer` | `join-mat`: the room is entered first, then the PIN is read, then the match |
| a request's first step | `isController` and the checks before the first await; what it looked up is kept in `call` |
| its later steps | the service call, then the broadcast, to the room the caller is in by then |
| `TimerFires` | the callback of a hold-down's timer; the score it sends runs detached |
| `Disconnect`, `Crash` | a connection or the process ends; the handlers that wait go on after a disconnect |

A service call is one step, by `AtomicBracket`; what overlaps inside it is the
business of `Scoreboard`. Time passes in units of ten seconds, which is what
the hold-down's limits are made of; in the settings with clocks, time, pauses
and disconnects happen when nothing else is on its way (`Quiet`), because the
effects of React are taken to run with the message that causes them.

### 3.3 Draws, tournaments, pools, tables, and what pages make of them

A match is identified by phase, group, round and position, as the code finds
it again. The rounds 99, 100, 999 and 1000 that some knock-out and bronze rows
carry are left out: nothing compares them but the display order. A competitor
is its index in the seeded list.

`Tournament` fights a match in one step. `Scoreboard` implements that step when
calls do not overlap and, for the rows of winners, also when they do. Matches
are called when both sides are known (`ReadyRow`) and won by one of the two:
an assumption on the officials. `openingRounds` bounds a run: those rounds are
fought in a fixed order and won by the better seed; everything after them is free.

`PoolStage` keeps the transaction apart, because its reading of the other pool
matches is what can go wrong. Rows come without ORDER BY, so the order of
appearance that breaks ties in the ranking is any order the pool's matches
allow.

`RoundRobinTable` lets a competitor leave at any time; `disqualify` and
`withdraw` look at the competitor's row only and change no match.

`BracketView` keeps of the page what must agree with the server: which card a
match has and where, which cards a line joins, whose name is announced for a
bronze, what stands on an empty side, the medals, the cells of the grid.
`Profile` in `Tournament` counts an athlete's matches as `getProfile` does.

### 3.4 Registration and weigh-in

`register` runs at SERIALIZABLE: its readings are of the moment it begins
(`call[h]` keeps them), it is `doomed` when it and another one that commits
first have each read what the other writes, and it fails when a row it read and
writes was written since or a unique key is taken. Everything else is one
statement, or a reading and one statement: `updateStatus`, `withdraw`,
`recordWeight` check a row and write it later. Weights are in units of 100 g.

A weigh-in is read in two places and at two times. The modal compares with the
projection of a list its page fetched earlier (`ReadList`;
`WeighInModal.tsx:62`, `CompetitionDetailPage.tsx:132`), and the server reads
the row again when the request arrives (`RecordWeight`, `UpdateWeight`;
`competitors.service.ts:234`) and reports a change of class against that
(`WriteWeight`; `:257`). Between the two another scale may weigh the same
competitor; the history variable `overtaken` says for which calls one did.

Dates are stored as midnight UTC and read with `getFullYear`, `getMonth` and
`getDate` by the server and by the browser, each in its own zone. The model
takes days as the server reads them; the browser reads the same, the day before
or the day after (`Zones`, `Local`), which is what two zones can differ by at
midnight UTC. It reads the birth date and the competition day in the same way:
zones whose offset has changed its sign from one date to the other are not
considered.

`UpdateCap` is the part of `update` that sets `maxEntriesPerCategory`: a cap is
introduced, changed or cleared at any time. `ceiling`, a history variable, is the
largest cap there has been, and null once there has been a time without one.

### 3.5 Categories, mats, schedule

`generateCategories` reads matches in progress and competitors first and then
clears, deletes and creates in one transaction; clearing locks the rows of all
competitors, which is what keeps two of them apart (`CompetitorsFree`).
`generateBrackets` reads the category with its competitors and mat, and replaces
the matches in a transaction. The matches are those of the format for the number
of competitors, in the order of the generator, which is their `sequenceNum`; a
row keeps the format it was drawn in (`bracketType`). Assigning a category to a
mat writes the category and then the matches that are not over; for all
categories at once they are sorted by size, those of one size in any order,
since they are read in no order (`SortedBySize`). Rows a transaction wrote are
in `locked` until it ends.

The matches of a mat are ordered three times, by the queue, the schedule and the
public page; all three orders are in the module, each with its filter of matches
that have both competitors (`Ready`). The end of a match is one step: result,
`advanceWinner` (`Advanced`), the knock-out after the last match of the pools
(`Knockout`), `advanceMatQueue`. Their statements are the business of
`Scoreboard` and `PoolStage`; who goes on from a pool is left open here
(`FirstTwo`), since `PoolStage` has the tables. As in the code, the queue is
looked at after the winner has advanced, so it has the matches that this end
made ready, and the matches of a knock-out have no mat
(`scoreboard.service.ts:749`) until their category is assigned again or an
official picks one by hand.

## 4. The runs

| run | question | bounds |
|---|---|---|
| `serial` | one call at a time: are results final, do both losers of a shared repechage find a side, does a mat follow its queue? | two quarter-finals and their repechage on one mat; starting, golden score, IPPON, ending, assigning |
| `race_scores` | two calls on one match: types, and no match runs on a deciding score | one match, WAZA_ARI and SHIDO, all operations; the third shido and the second waza-ari are both reached and overshot |
| `race_bracket` | two calls completing neighbours or one match twice: is the winner always in its slot, does each commit look like one operation, does every call return? | two pool finals, their semi-final and repechage |
| `gateway` | what is scored for a hold-down, what pages show, what their clocks allow, while connections and the server fail | five settings: table and display without failures; a table with one and with two calls and every failure; a table and a display, and two tables, with clocks. Two matches on a mat, each page connects at most twice, two hold-downs in a match, three or four requests |
| `drawing` | is every draw what a draw has to be, do the scoreboard's routes fit it, and does its page show it? | every number of competitors up to 33: each power of two up to 32 is crossed, so every pattern of byes occurs |
| `tournament` | whatever the order and the winners, is there one podium, and nobody misplaced, on the page and in the profiles too? | grand slam of 21 (free from the pool finals' feeders on), double repechage of 16 (from the quarter-finals on), single elimination of 7 (wholly free) |
| `pools` | is the knock-out created once, from the tables, and does the category reach its podium? | five competitors, every result of every match; nine, from the last round of the pools on; five with two overlapping calls |
| `table` | do the places add up and agree with the grid, and does winning help? | three competitors with shido, one of whom may leave; four, one of whom may |
| `registration` | do classes stay within their cap, athletes persons, classes as announced? | two overlapping calls on up to three registrations with shared and blank keys; two scales that weigh one competitor; a cap that is changed, cleared and introduced; and one registrant for each age group and gender, weighed at and just above each limit by a page in each zone |
| `categories` | one category for a class, one draw for a category, a queue in the order of the forecasts, mats evenly used? | seven settings: scale against generation, draws against assignments, mats against assignments, each with two calls; and with one call, matches moved between mats, competitors weighed or withdrawn after the draw, a grand slam of sixteen and pools of five with their knock-out, each beside a category of two on one mat. Four categories and two draws ever, three mats; `competitor1` wins |
| `pools_lost` | *violation* of `KnockoutIsCreated` with two calls | five competitors |
| `mat_stuck` | *violation* of `MatGoesOn` | as `categories` |

Two handlers are enough for the races these runs look for: each concerns a pair
of calls, one whose reading the other makes stale. Where three differ from two
the runs or the proofs say so: `KnockoutOnce` distinguishes them, and the
theorems of section 5 hold for any number of calls unless they name one.
`SYMMETRY` is used for the handlers of the run without liveness. Deadlock is not
checked where a category ends or where every match, request, connection or
registration of the bound is used up.

Yuko decide nothing and are not sent (`MaxYuko` = 0); golden score is a flag
that is set. Scores are bounded by the completions they cause.

Two connections of a page are one loss and one return; two hold-downs are one
that is replaced or forgotten and the one that follows. Four categories are a
generation repeated with two classes. The limits of the weight classes are all
entered, because they are where the copies of the tables could differ, and the
day of the competition is 1 January, so that a page in a zone behind the server's
reads another year. `registration` has 840,956 states and `categories`
1,431,392, the two largest of all runs.

In `categories` a match that an end makes ready goes before the announced ones
only within its own category, the grand slam: the final of a pool before the
matches of the next pool, say. One that goes before the matches of another
category, and one that is called while nothing was announced, are not reached:
`MatsCallAsForecast` covers them.

### Fairness

* `race_bracket` (`CallsReturn`): strong fairness of each call's next statement:
  the event loop resumes every call whose statement has answered, and PostgreSQL
  queues the transactions waiting for a row, so a call whose row is released
  again and again gets it. `Rollback` is never assumed to happen: the result
  does not lean on the timeout.
* `tournament` (`PodiumIsReached`): mats go on calling matches while there is
  one to call (weak fairness of the whole next-state relation).
* `gateway` (`TwentySecondsEndIt`, `ResultIsShown`): weak fairness of a call that
  has been begun, of the delivery of messages and of the passing of time; strong
  fairness of the timers, which wait for a handler of the bound to be free.
  Nobody is assumed to press anything, to connect or to fail.

### What the violations show

* `pools_lost`: the last two pool matches end on two mats at the same time.
  Each transaction reads the other match as not completed
  (`scoreboard.service.ts:685`), neither creates the knock-out, and no later
  completion looks again: the category is stuck until a pool match is ended
  once more.
* `mat_stuck`: a mat goes on to its next match through the `matId` of the match
  that ended (`:172`), not through the mat it was current on. A match assigned
  by hand has no `matId` of its own if its category has no mat, and a match
  moved to another mat with its category while it is fought names the other
  one: the mat it was fought on keeps showing a match that is over.

### Known disagreements without a run

The modules state more properties than the runs list; the code breaks these in
other settings. Each is reached with the change given.

| property | change | what happens |
|---|---|---|
| `EveryLoserPlaced` | `serial` with `Handlers <- TwoHandlers` | two quarter-final losers both take `competitor1` of the repechage: the side is chosen from a reading without a lock (`scoreboard.service.ts:423`) |
| `OverrideKept` | the same | a match assigned between `advanceMatQueue`'s comparison and its update is replaced (`:190`, `:203`) |
| `SwapsToQueueHead` | the same | the next match is started between its lookup and the commit (`:192`) |
| `ResultIsFinal` | the same | `startMatch` reopens a match completed after its check (`:135`) |
| `NoOpOnEmptyQueue` | `serial` with this property | the comment at `:183` promises a no-op for an empty queue; `currentMatchId` is set to null, and nothing moves the mat when a match becomes ready later |
| `QuarterFinalLosersGoOn` | a double repechage of 17 of whom one leaves | the number of rounds is taken from the competitors that are left (`:391`): losers of quarter-finals are not sent on |
| `TiesAreSurfaced` | `pools` with this invariant | of two competitors no criterion separates, the one read first goes to the final; `tiedWith` is dropped (`:722`) |
| `CompleteIsOver` | without its condition `withdrawn = {}` | matches of a competitor who has left count against the number of matches without them (`standings/round-robin.util.ts:171`), so the category is over too early |
| `KnockoutOnce` | `creations <= 1` for three calls, `pools` with three that overlap | the last match of each pool is ended twice. The first two calls miss each other as in `pools_lost`; the second two, which read their match before it was completed, both see every pool match completed and no knock-out, and create one each, while the comment at `:686` calls this idempotent |
| `CategoriesPartition` | without its condition, where `assignCompetitor` and the scale overlap | the weight is read outside the update that sets the category (`categories.service.ts:123`): the competitor is put where the weight before belongs |
| `OneClassAsAnnounced` | without `h \notin overtaken`, two scales and one competitor | the modal compares with the projection of the list it was opened from (`WeighInModal.tsx:62`), the server with the weight it reads when the request arrives (`competitors.service.ts:234`, `:257`): after another scale's weigh-in the modal announces a change of class that the server does not report, or the other way round |
| `OneClassAsAnnounced` | without `ReadAlike`, a page in another zone and a birthday that one zone reads as 1 March and the other as the last of February | the two days are read in the browser's zone (`frontend/src/lib/ijf.ts:53`) and in the server's (`age-group.util.ts:14`); as 1 March follows the 28th of February or the 29th, the age may differ by a year on one day, and with it the age group announced. `ReadAlike` leaves out whoever's birthday is 1 March in either zone |
| `CalledAsForecast` | without `woken` | `advanceMatQueue` looks for the next match after the winner has advanced (`scoreboard.service.ts:171-172`): a match that is made ready by it and goes before the announced ones is called instead of them, though the schedule had no forecast for it |
| `MatchesFollowCategory` | without its exception, a category of pools on a mat | the knock-out is created without a mat (`scoreboard.service.ts:749`): it is in no queue until the category is assigned again or its matches are assigned by hand |
| `ViewsAgree` | without `Serial` | two answers are broadcast in the other order than their rows were written; nothing corrects the page until the next message |
| `ViewsAgree` | without its condition of two competitors, two mats of which one fights for a place in the other's match | the second competitor of a match that is shown is written when the match before ends (`scoreboard.service.ts:339`); nothing is sent to the room of the match, so its pages show the empty side until they join again |
| `ViewsAgree` | without its condition on who has joined again, one match on the mat | the page loses its connection with the server while the only match is ended; when it has joined again the mat has no match, so it is sent none (`scoreboard.gateway.ts:73`) and keeps showing the match as it was |
| `NoPhantomHoldDown` | without its condition of one table for each mat, two tables that start and end matches and hold-downs | the first table ends a match and presses the hold-down before it is told of the end; the second, which has joined since, starts the next match. The first shows that match with the hold-down of the one before: no message of a hold-down is compared with the match shown (`useScoreboard.ts:118`) |

Met while reading, and kept in the models as the code has them:

* Tables: the match between two competitors is looked at after ippons, waza-ari
  and shido, while `README.md:12` and the comment at
  `standings/round-robin.util.ts:80` put it directly after the wins.
* Gateway: a broadcast reaches nobody when its caller has disconnected meanwhile,
  so a display can miss the end of a match; no message announces the next match
  of a mat, a page must join again; pages that join during a hold-down do not
  see it; a hold-down of a match ended by hand keeps its timer, whose score is
  rejected with nobody to handle it; a client that disconnects while its PIN is
  read stays in `controllers`. `ControlPage.tsx:122` says that waza-ari is
  awarded by the server at ten seconds; it is awarded when the hold-down stops.
* Clocks: the display never pauses and starts at the full duration when it joins
  during a match; a display that missed the end of a match goes on with that
  match's time; reloading the table resets its clock.
* Registration: two overlapping registrations may enter the same person twice,
  and one may commit after registration was closed; the weigh-in does not look
  at the cap, which `competitors.service.ts:83` says it does; weighing reinstates
  a withdrawn competitor; two updates of the competition's status can undo each
  other; a licence number is only filled in, where the comment at
  `athletes.service.ts:67` says updated.
* Weigh-in: a modal opened before another scale weighed the competitor still shows
  the class of its own list (see `OneClassAsAnnounced` above); the last weight
  written stays.
* Categories: a bye of a double repechage, which only the fallback for categories
  drawn earlier still generates, is COMPLETED from the draw on and counts as a
  match in progress, which blocks generating again; `generateBrackets` draws withdrawn
  competitors and deletes matches that are being fought; weighing, withdrawing or
  disqualifying after the draw leaves the match with a competitor that is not in
  its category; a deleted match may still be a mat's current one.
* Pages: the announced cross-half loser is the first competitor of a semi-final
  until that is fought; a match that waits for its second competitor says BYE
  on some cards; the number of rounds shown follows the competitors that are
  left; the profile counts byes as matches won.

## 5. What is proved

Every theorem holds for all values of the constants that satisfy the named
assumptions of its modules: any draw, any number of calls in flight, of pages,
of persons, of categories. TLC evaluates the assumptions on the instances of the
runs (those of `Draw` also on every generated draw of up to 33 competitors:
`RoutesFitTheDraw` of `Drawing`, which `DrawingsAreComplete` below proves of a
draw of any size). Each safety theorem follows one argument: an inductive
invariant that implies the property, one lemma that `Init` establishes it, one
that every action preserves it.

### Scoreboard

* `TypeCorrect`: `Spec => []TypeOK`. Inductive: `Typing`, which is `TypeOK` and
  `CallOK`, what a call knows at each of its statements.
* `NoDecidedMatchEverRuns`: `Spec => []NoDecidedMatchRuns`. Inductive with
  `ScoresIInv`: both versions of a row are *sound* (not ACTIVE on a deciding
  score) and a call about to write scores that do not end the match holds
  undecided ones. A stale write is harmless because it carries its own reading
  of the whole score with it.
* `WinnerAlwaysAdvanced`: `Spec => []WinnerAdvanced`. Inductive with
  `AdvanceIInv`:
  `FreeRows` (a row nobody holds has no uncommitted version), `LocksHeld` (who
  holds a row is inside a transaction that wrote it), `ResultWritten` and
  `SlotWritten` (what a transaction has written by each of its statements),
  `SideChosen` (a loser never goes to the side a winner waits for),
  `WinnersKept` (a row nobody is completing keeps its committed winner) and
  `SlotsKept` (a slot not being filled keeps its committed competitor). The
  argument: two transactions that complete the same match serialise on its
  row, and the one that writes the winner writes the slot before it commits;
  by `OneFeederPerSlot` nobody else writes that slot.
* `ScoreboardIsAtomic`: `Spec => AtomicOperations`, the refinement. A commit has
  to be one `Complete` of `AtomicBracket`, so `EffectIInv` says what each
  version of a row a transaction holds is made of: the committed row and exactly
  what the transaction has written so far (`WrittenRow`). From it `CommitMaps`
  computes the rows after a commit; `SingleWritesMap` does the single updates;
  everything else is a stutter. This is what allows `Gateway` and `Tournament` to
  take a service call as one step.
* `ResultsAreFinal`, `MatsFollowTheirQueues`, `LosersArePlaced`: with one call
  at a time (`Handlers = {only}`; with two all three fail, see section 4). What
  a call has read is then still so when it writes (`SerialInv`), a result is
  only written to a match that is running, the mat a call moves is the one it
  was current on, and `LosersIInv` counts who has arrived: a side of a shared
  match is taken only when a match that feeds it has been fought, `competitor1`
  first. `OneLoserPerSlot`, a hypothesis of this theorem, leaves the second
  loser `competitor2` and no third. `drawing` checks it on every draw of up to
  33 competitors, `DrawsAreFull` proves it of every size; it is not so when
  competitors leave the category after a double repechage was drawn
  (`QuarterFinalLosersGoOn` in section 4).

### Gateway

* `TypeCorrect`: `Spec => []Typing`: connections, calls, hold-downs, messages and
  pages.
* `HoldDownsScoreOnce`: `Spec => [](HoldDownScoresOnce /\ AwardedAsAnnounced)`.
  Inductive: `HoldDownIInv`. A hold-down that has a number is, until its score is
  given, held by its tracker or by one call and by nothing else
  (`OneClaimEach`), a tracker has one timer and it was set for that tracker
  (`OneTimerEach`), and numbers are not given twice (`NumbersGiven`); so neither
  a timer that fires while the hold-down is being stopped nor one left from an
  earlier hold-down can score again or score too much.
* `TimeIsFought`: `Spec /\ [][StopsWhenQuiet]_vars => []GoldenScoreAfterTime`,
  for any number of tables. Inductive: `ClocksIInv`. A table asks for golden
  score from its own clock, which it starts again when its view turns to another
  match, so the invariant follows a message from the server to the table: in
  every inbox a match-started has the match-state of its match behind it
  (`InboxesOrderly`), a call carries the match its table showed
  (`CallsTimed`), and what is left on a table's clock and what has been fought
  of the match it shows as ACTIVE make up the whole time (`TimeLeft`).
  The hypothesis says that the server does not stop while a call runs or a
  message is under way, as the model with clocks says of connections (the guard
  of `Disconnect`). Without it the theorem is false, and TLC has the
  behaviour: a table has handled the match-started of another mat's match, the
  server stops before the match-state follows, the table shows the next,
  SCHEDULED match as ACTIVE, its clock runs out while the other match is fought,
  and its golden score is accepted for a match with no second fought. It takes
  two mats and three calls, more than the settings with clocks of `gateway`
  have.
* `HoldDownsAreReal`: `Spec => []NoPhantomHoldDown`, for any number of mats,
  pages and overlapping calls. What a page shows after the messages that are on
  their way is written `Leads`: a chain of one step of the page for each message
  of its inbox. `HoldDownsTold` says, for a page that is connected, where its
  hold-down leads (`HoldsTold`: to the server's tracker of the match it will
  show, or to none), and what tables, calls and trackers have to do with it: the
  tracker of a mat is of the match its table shows (`TrackersShown`), a call that
  waits is about the match its table shows (`CallsShown`), a match that runs is
  shown by a table (`ActiveShown`), and a table that is still to be answered
  shows no match and has none on its way (`JoinsFirst`). The conditions of the
  property, one table for each mat and no page that has joined again, are the
  ones without which section 4 has behaviours.
* `PagesComeToAgree`: `Spec => []ViewsAgree`, for calls that do not overlap.
  Inductive with `ViewsInv`: what is on its way to a page and what is due to it
  from the only call (`Due`) leads to the row in the database (`WillAgree`). For
  that a row must not change without a call of its own, and `advanceWinner`
  writes the rows of other matches. So `OpenSlots` says that a match that is not
  over has not yet sent anybody on, and `Known` that what a page, a message or a
  call knows of the competitors of a match is right but for those who came
  later; a match of two competitors then has nobody to come. The theorem has two
  hypotheses about the draw, `OneLoserPerSlot` and `WinnersAwaited` (the slots a
  match leads to are empty, or it is a bye the generator has already drawn
  into the next match, as the pools of a grand slam have: `Unopposed`). `drawing`
  checks both on every draw of up to 33 competitors, in `RoutesFitTheDraw`, and
  `DrawingsAreComplete` proves them of every size.
  `ByScoreOnly` is the part of the invariant that no match is over by shido:
  the requests of the model carry none.

### Registration and weigh-in

* `TypeCorrect`: `Spec => []Typing`.
* `CapHolds`: `Spec => []ClassWithinCap`: no class grows above the largest cap
  there has been, if there always was one. A registration counts from a reading
  taken when it begins. `CapIInv` says what that reading is worth at the commit
  (`RoomLeft`): unless the call is doomed, the class has not grown since. The
  step that matters is the commit of another registration of the same class,
  which dooms it.
* `PreviewIsClassOf` (with `OneClassPerWeight`): for every gender, date of
  birth, competition day, weight and zone of the browser the page's class, from
  the page's own tables, is the server's, but for birthdays around 1 March read in
  another zone (`ReadAlike`; section 4). Each age group and gender is a case;
  within it the limits are compared. That the age is the same in every zone is
  `LocalAge`: the day before and the day after keep the order of two days of the
  year, and where they change the year they change it for both.
* `ClassesAsAnnounced`: `Spec => OneClassAsAnnounced`: every competitor with a
  weight is in one class; and, an action property, each registration and weigh-in
  writes the class its page announced, whatever overlaps, and the server reports a
  change of class if and only if the modal announced one, unless another scale has
  weighed the competitor since the page read its list. Inductive: `ListsOK`, that
  until then the class in the page's list is the one the server has read or will
  read (`ListOK`); no other call changes a weight (`ClassKept`).
* `NoAthleteLeft`: a registration that fails leaves no athlete without an entry.
* `AthletesAreThem`: `Spec => []AthletesAreRegistrants`, for registrants who
  share neither email nor licence number (`OneIdentity`; `registration` has such
  registrants, blank keys included). `IdentityIInv` adds that keys stay unique
  and that what a transaction has found (`FoundFor`) still has the keys it was
  found by when it commits.

### Pools

* `OneKnockout`: `Spec => []KnockoutOnce`, for every size of the category.
  Inductive: `KnockoutIInv`. Who creates has seen all other pool matches
  completed while it holds the row of its own (`OneWriterEach`, `OthersOver`).
  Two that create without knowing of each other would each have needed the
  other's match completed before: both repeat a completion, and of two calls
  only one can (`OneRepeats`).
* `DrawnWhenOver`: a knock-out exists only when every pool match is over.
* `BestGoOn`: `Spec => []BestOfPoolsGoOn`, and `CategoryIsFinished`:
  `Spec => []PodiumOrAMatchToFight`, for every size of the category; both are
  about calls that do not overlap (`Serial`). Inductive with `StageTypes` and
  `SerialIInv`: the match of the call is being fought (`OneCall`), so its commit
  changes no table a knock-out was drawn from; nobody is missing in a match that
  is fought (`FoughtByTwo`); the knock-out is there exactly from the commit of
  the last pool match on and stays drawn from the tables (`KnockoutDrawn`), its
  final and bronze match filled by the semi-finals that are over
  (`FedBySemifinals`). Under it lie three facts for every pool: more wins give a
  better rank, the head-to-head rule included (`MoreWinsRankBetter`); a table has
  everybody in one place (`OrderedPlaces`), in whatever order its matches are
  read (`AppearancesAreOrders`, an induction over the matches read by
  `LeastNatural`); the two pools have no member in common (`PoolsAreDrawnInTwo`).

### Tables of round robins

For every number of competitors, every result with every number of shido, and
whoever leaves. Inductive: `TableIInv`, which says of which competitors the rows
are and that a match that is over was won by one of its two. The rest is about
the chain of criteria on any such rows (`ATable`).

* `TableAndGridAgree`: `Spec => []TableIsTold`. Somebody's place is one more than
  the number of those before them (`Before`), and before is a strict order whose
  ties are the reported ones (`PlacesOfChain`): of two that are level and met,
  the match between them decides (`LevelAreTwo`); of three nothing does. The grid
  is compared match by match (`GridIsRight`).
* `OverMeansFought`: `Spec => []CompleteIsOver`. A round robin of `n` has
  `n (n - 1) / 2` matches: its matches and their two sides are put in a bijection
  with the ordered pairs of competitors (`MatchesCounted`, from
  `RoundRobinIsComplete`).
* `WinningNeverHurts`: `Spec => WinnerNeverDrops`. One more win goes before all
  other criteria, so nobody who was not before the winner is so now, even if the
  match costs shido and ends a tie that had been in the winner's favour.

### Categories and mats

`CallsInv` says what a call holds at each of its statements and that no row is
held by two, `RowsInv` which columns there are.

* `CategoriesArePartition`: `Spec => []CategoriesPartition`. `PartitionInv`: when
  a generation creates, the competitors it groups are the ones of each class at
  that moment, because it holds all their rows.
* `RoundRobinIsComplete`: for every `n`, the circle method lets each two of `n`
  competitors meet exactly once. A pair that meets in a round is fixed by the
  sum of its places modulo `n - 1`; the arithmetic is in `DrawLemmas`.
* `CategoriesAreDrawnOnce`: `Spec => []OneDrawPerCategory`, for draws of every
  format and whatever is fought. `DrawsInv`: the matches of a category are those
  of one draw, numbered from one on, and their places, by which the routes find
  them, are all different; a round robin is a draw of one list of competitors,
  and `RoundRobinIsComplete` says that each two of them meet once. The lists
  the generators write are gone through format by format (`DrawIsListed`). The
  end of a match moves competitors only along the routes of its own category,
  and none into a round robin (`FoughtDraws`); the knock-out of pools is numbered
  on from where the pools end, at places of its own (`KnockoutNumbered`,
  `KnockoutPlaces`).
* `MatchesAreOnTheirMat`: `Spec => []MatchesFollowCategory`, whose own conditions
  are that calls do not overlap and that the knock-out of pools starts without a
  mat.
* `MatsAreEvenlyUsed`: `Spec => []MatsAreInOrder`. Its first half is
  `MatsHaveNoGap`: a call that creates mats goes on from a number there is or from
  the next one (`MatsInv`). For its second half `EvenInv` keeps what an assignment
  has read until it is written. That the assignment is even when it is made
  (`BalancesEvenly`) goes by the first place of the sorted categories at which it
  would not be: a category goes to a mat that has the least, and none before it
  is smaller (`PlacedEvenly`). The number of competitors of a mat is a fold of
  the community modules; that the fold is defined on finite sets and adds one
  element at a time, in any order, is `SumRecursion` and `SumAdds`.
* `MatsCallAsForecast`: `Spec => CalledAsForecast`, for draws of every format and
  any number of calls of the organizer that overlap: what a mat calls next is the
  first match announced or one of the same category that this end has made ready,
  whichever goes first. It is stated for the end of a match of two competitors,
  the others have no forecast. Queue and schedule are
  `Sorted`: at place i is the match that i - 1 go before. That there is one for
  every place, whatever the order is that is total, is `PlacesInOrder`, and that
  the sorted list holds everything once and in order `SortedByPlace`. The order of
  the matches is total because those of a category have different numbers
  (`InOrder`, from `DrawsInv`), and every match is on a mat there is or on none
  (`PlacedInv`). With that, `OrderForecasts` compares the forecasts of two matches
  of a mat by counting what goes before each on the schedule, and
  `QueuesAreSorted` and `UpNextIsQueue` say that the page lists the queue.
  `QueueAfterEnd` is about the step in which a match ends: nobody loses a
  competitor (`StaysReady`), so the queue after it is the queue before and the
  matches that were woken; `OverByItsEnd` finds that step, and `EndGoesAsForecast`
  compares the first of the two.

### Draws and tournaments

Everything here holds for every draw of every format, every winner of every
match, and every order in which matches that can be fought are fought.

First, about draws of any size:

* `DrawingsAreComplete`: `DrawingSpec => []DrawIsComplete`. The invariant,
  `DrawingIInv`, is only that what was generated is the draw of an accepted
  size; the theorem is what follows from it, format by format. Of a round robin
  and of the two pools: everybody meets everybody once (`PairsMeet`), nobody is
  twice in a round (`RoundsFit`: no seat of the circle is two seats,
  `SeatsDiffer`), and there are as many matches as the scoreboard waits for
  (`RoundRobinCounted`). Of eliminations and grand slams: everybody has one first
  match and who is alone in it waits in the second round (`EveryoneEnters`, of a
  bracket by `FirstMatches` and of all seats of a stage by `StageEnters`), and
  the routes fit (`RoutesFit`, from the next two theorems; `SlamWinnersAwaited`
  is about the byes of pools). Its hypotheses say that `None`, which stands for
  null, is no number and no match.
* `SeedsSpread`: `DrawingSpec => []SeedsAreSpread`, from the same invariant. Of
  brackets it rests on `SeedsMeetLate` below: the stage is one bracket or four,
  whose seats are taken by competitors in their order (`StageOf`), so the best of
  those who enter have the first seats (`BestHaveFirstSeats`) and the byes
  (`ByesOfGroup`). Of the pools of a grand slam it follows from a formula for the
  snake: the i-th seed of a pool is one of the i-th four, counted from the first
  pool or from the last in turn (`MembersAreSnake`), so each pool has one of the
  best four (`BestFourApart`), and of the seeds of a pool each two that follow each
  other add up to the same in every pool (`PairsAddUp`).
* `DrawsAreDrawn`: the rows and routes of a category are what `Draw` assumes:
  each slot has one feeder, losers and winners are sent to different slots, who
  has no opponent waits in the second round. It is proved without
  `GeneratedDraws`, the assumption by which `Tournament` takes it for granted.
* `DrawsAreFull`: moreover the draw is full (`FullDraw`). The seeds fill the
  first round, or the pools and the first round of each, once; byes lead into
  the second round; the losers who go on find a side of their own; nobody comes
  from the consolation to the final.
* `SeedsMeetLate` (`DrawLemmas`): in a bracket of any size no two of the best
  `2^k` can meet while more than `k` rounds are left, so the two best meet in the
  final or not at all, and byes belong to the best. The bracket doubles by giving
  each seed the block of the one before and its opposite, and each of the best
  keeps the head of a block of its own (`SeedsStay`).

`DrawsAreDrawn` and `DrawsAreFull` assume `WholeDraws`: at least two competitors
and nobody withdrawn, or, of a grand slam, at least the sixteen it is generated
for. For an elimination this is needed: with a competitor withdrawn the code
takes the number of rounds from those who are left (`QuarterFinalLosersGoOn` in
section 4). The routes of a grand slam do not depend on it. Under them lie facts
of `DrawLemmas`, each for every `n`: the seeding of a bracket is a permutation
(`Seedings`), no first-round match is without its upper seed, the matches of one
round pair up into the next (`NextInBracket`), and the snake puts every seed
into one pool and fills each pool (`SlamMembers`).

Then, about the matches fought in them:

* `EverybodyInTurn`: `Spec => []CalledInTurn`, for every full draw. Neither half
  of it is inductive: that nobody is called to two matches needs to know where
  everybody waits. `TurnsIInv` says that only matches with two different
  competitors have been fought (`FoughtRows`), a slot is empty until the match it
  waits for is over (`SlotsAwait`; a slot filled in order of arrival, until one or
  both of its feeders are), everybody waits in one slot at most (`OneSlotEach`),
  and who waits in the consolation has lost once and anybody else never
  (`DefeatsFit`).
* `QuarterFinalLosersAreSeated`: `Spec => []QuarterFinalLosersGoOn`,
  `PlacesAreKept`: `Spec => PlacesStay`, and `CompleteIsWithMedals`:
  `Spec => []CompleteHasPodium`. Inductive: `SeatedIInv`, which adds that losers
  who go on have been seated (`LosersSeated`) and that nobody has two last
  matches (`OneEndEach`). Each place of the standings is that of somebody whose
  last match is over, and follows from that match alone (`PlacesAreEnds`); a
  last match stays one. A single elimination has its two bronzes from the losers
  of its semi-finals, so `CompleteIsWithMedals` asks for four competitors there:
  of two or three, a semi-final is a bye or there is none.
* `NobodyMeetsTheSameTwice`: `Spec => []NoRematch`. Inductive: `MeetIInv`. In a
  grand slam everybody belongs to the pool they were drawn in, and what a slot
  behind the pools holds came from the pools that lead to it (`AllFromPools`), so
  two competitors who meet once more would have come from one pool or one half,
  while the two sides of a bronze are from the halves across
  (`NobodyMeetsTwice`).
* `PagesAlwaysAgree`: `Spec => []PagesAgree`. Inductive: `PagesIInv`, which adds
  to `SeatedIInv` what each row shows of itself (`RowsTell`: a winner is one of
  its two, an unopposed competitor went on without a match), that winners and
  losers are where the routes lead (`SentOn`), and how often somebody whose last
  match is over has lost (`EndsFit`). That no card waits when no match can be
  called rests on `AllAreFought`: every route leads to a later match, so the first
  match that is not over has both its competitors. The profiles add up because
  wins and defeats both count the fought matches, each once (`CountedByValue` of
  `DrawLemmas`). A double repechage needs eight competitors here, since its
  repechage is fed from four quarter-finals; the generator asks for sixteen.

### What stays model-checked

* Liveness, which needs ENABLED: `CallsReturn`, `PodiumIsReached`,
  `TwentySecondsEndIt`, `ResultIsShown`.
* The geometry of the brackets page (`PageShowsDraw`).
* `ClocksAgree`. It is about the settings that have clocks: a display that misses
  the end of a match keeps that match's time (section 4), so it is not true of
  whatever messages are lost.

## 6. What is not modelled

Listed per component in `PROJECT.json`. Reading methods (public views, lists),
CSV export, accounts, health, mail, Sentry and the rest of the pages keep no
state a property is about. Of modelled components: the one-time
`backfillAthletes`; creating, renaming and deleting competitions; the PINs
themselves (a page has the right one or not); the schedule's five-second cache;
the explanatory repechage section of the brackets page; layout and animations.
The offline queue exists in a design document only.
`getCompetitionStandings` of a grand slam is not asked when it is COMPLETE: its
comment says the two bronzes decide.

## 7. Plan

Done: every module of section 3, and the proofs of section 5.

Next:

1. Of `Drawing`: `PageShowsDraw` for every size, from the heights of the columns.
