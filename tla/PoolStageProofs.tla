-------------------------- MODULE PoolStageProofs --------------------------
(***************************************************************************)
(* Proofs about PoolStage for every size of a pools category, every number *)
(* of overlapping calls and every order of their statements: which calls   *)
(* can create a knock-out, and how often.  And with one call at a time:    *)
(* who goes on from the pools, and that the category ends with a podium.   *)
(***************************************************************************)
EXTENDS PoolStage, DrawLemmas, FiniteSetTheorems, TLAPS

-----------------------------------------------------------------------------
(* Matches and rows *)

HasStatus(r) == "status" \in DOMAIN r /\ r.status \in Statuses

(* generateBrackets writes pool matches only.                              *)
LEMMA PoolsAreDrawn ==
  ASSUME NEW n, NEW m \in DOMAIN Pools(n)
  PROVE  m.phase = "POOL"
<1>1. ASSUME NEW k, NEW group, NEW d \in DOMAIN RoundRobin(k, "POOL", group)
      PROVE  d.phase = "POOL"
  BY <1>1 DEF RoundRobin, MatchId
<1>2. \A draw, members : DOMAIN Seated(draw, members) = DOMAIN draw
  BY DEF Seated
<1> QED
  BY <1>1, <1>2 DEF Pools

LEMMA NewRowsHaveStatus ==
  ASSUME NEW pair
  PROVE  HasStatus(ScheduledRow(pair)) /\ HasStatus(FoughtRow(pair))
BY DEF HasStatus, ScheduledRow, FoughtRow, Statuses

(* What a call may create: at least one match, and none of a pool.         *)
IsAKnockout(k) ==
  DOMAIN k # {} /\ \A m \in DOMAIN k : IsKnockout(m) /\ HasStatus(k[m])

LEMMA KnockoutIsAKnockout ==
  ASSUME NEW a, NEW b
  PROVE  IsAKnockout(KnockoutOf(a, b))
<1>1. \A m \in KnockoutMatches : IsKnockout(m)
  BY DEF KnockoutMatches, IsKnockout, Final, Bronze4, Semifinal, Placeholder, MatchId
<1>2. KnockoutMatches # {}
  BY DEF KnockoutMatches
<1>3. \A pair : HasStatus(ScheduledRow(pair))
  BY NewRowsHaveStatus
<1> QED
  BY <1>1, <1>2, <1>3 DEF IsAKnockout, KnockoutOf

LEMMA NothingCreated == DOMAIN <<>> = {} /\ ~IsAKnockout(<<>>)
BY DEF IsAKnockout

(* Routing the winner of a semi-final changes no status.                   *)
LEMMA AdvanceKeepsStatus ==
  ASSUME NEW r, NEW m, \A n \in DOMAIN r : HasStatus(r[n])
  PROVE  /\ DOMAIN Advance(r, m) = DOMAIN r
         /\ \A n \in DOMAIN r :
              HasStatus(Advance(r, m)[n]) /\ Advance(r, m)[n].status = r[n].status
<1> DEFINE loser == Loser(r[m], r[m].winner)
           side == IF m.position = 1 THEN 1 ELSE 2
           first == [r EXCEPT ![Final].competitor[side] = r[m].winner]
           both == [first EXCEPT ![Bronze4].competitor[side] = IF loser = None THEN r[Bronze4].competitor[side] ELSE loser]
<1>1. /\ DOMAIN first = DOMAIN r
      /\ \A n \in DOMAIN r : HasStatus(first[n]) /\ first[n].status = r[n].status
  BY DEF HasStatus
<1>2. /\ DOMAIN both = DOMAIN r
      /\ \A n \in DOMAIN r : HasStatus(both[n]) /\ both[n].status = r[n].status
  <2> HIDE DEF first, loser, side
  <2> QED
    BY <1>1 DEF HasStatus
<1>3. Advance(r, m) = r \/ Advance(r, m) = both
  BY DEF Advance
<1> QED
  BY <1>2, <1>3

LEMMA ViewStatus ==
  ASSUME NEW h \in Handlers, call[h].match \in DOMAIN row,
         \A n \in DOMAIN row : HasStatus(row[n])
  PROVE  /\ DOMAIN View(h) = DOMAIN row
         /\ View(h)[call[h].match].status = "COMPLETED"
         /\ \A n \in DOMAIN row : HasStatus(View(h)[n])
         /\ \A n \in DOMAIN row \ {call[h].match} : View(h)[n] = row[n]
BY DEF View, HasStatus, Statuses

-----------------------------------------------------------------------------
(* The inductive invariant.  A call that creates a knock-out has seen every*)
(* other pool match completed; as a transaction it has the row of its own  *)
(* match to itself.                                                        *)

InFlight(h) == pc[h] # "idle"

OthersOver(h) ==
  \A n \in DOMAIN row \ {call[h].match} : n.phase = "POOL" => row[n].status = "COMPLETED"

Rows == \A m \in DOMAIN row : HasStatus(row[m])

Calls ==
  /\ DOMAIN pc = Handlers /\ DOMAIN call = Handlers
  /\ \A h \in Handlers :
       /\ {"match", "knockout"} \subseteq DOMAIN call[h]
       /\ pc[h] \in {"idle", "write", "count", "look", "commit"}
       /\ InFlight(h) => h \in stage.handlers /\ call[h].match \in DOMAIN row
       /\ pc[h] \in {"idle", "write", "count"} => call[h].knockout = <<>>
       /\ pc[h] = "count" => ~IsKnockout(call[h].match)
       /\ pc[h] = "look" \/ Creates(h) =>
            /\ IsAKnockout(call[h].knockout)
            /\ ~IsKnockout(call[h].match)
            /\ OthersOver(h)

(* The row lock of the update that completes a match.                      *)
Writing(h) == pc[h] \in {"count", "look", "commit"}

OneWriterEach ==
  \A g, h \in Handlers :
    Writing(g) /\ Writing(h) /\ call[g].match = call[h].match => g = h

(* A knock-out is created when the stage is over.                          *)
CreatedWhenOver ==
  /\ creations \in Nat
  /\ creations # 0 => StageDone
  /\ creations # 0 <=> KnockoutExists(row)

(* Of two calls one at most repeats a completion: the match of either was  *)
(* read ACTIVE, and who completes a match has returned.                    *)
OneRepeats ==
  \A g, h \in Handlers : InFlight(g) /\ InFlight(h) /\ Repeats(g) /\ Repeats(h) => g = h

TwoCalls ==
  Cardinality(stage.handlers) <= 2 =>
    /\ OneRepeats
    /\ creations <= 1
    /\ \A h \in Handlers : Creates(h) => creations = 0

KnockoutIInv ==
  /\ stage \in Stages
  /\ Rows
  /\ Calls
  /\ OneWriterEach
  /\ CreatedWhenOver
  /\ TwoCalls

LEMMA HandlersOfStage ==
  ASSUME stage \in Stages, NEW h \in stage.handlers
  PROVE  h \in Handlers
BY PoolStageTypes

(* Among three calls of at most two, two are the same.                     *)
LEMMA NoThirdCall ==
  ASSUME stage \in Stages, Cardinality(stage.handlers) <= 2,
         NEW f \in stage.handlers, NEW g \in stage.handlers, NEW h \in stage.handlers
  PROVE  f = g \/ g = h \/ f = h
<1> SUFFICES ASSUME f # g, g # h, f # h PROVE FALSE
  OBVIOUS
<1>1. IsFiniteSet(stage.handlers) /\ Cardinality(stage.handlers) \in Nat
  BY PoolStageTypes, FS_Subset, FS_CardinalityType
<1>2. Cardinality({f}) = 1 /\ IsFiniteSet({f})
  BY FS_Singleton
<1>3. Cardinality({f} \cup {g}) = 2 /\ IsFiniteSet({f} \cup {g})
  BY <1>2, FS_AddElement
<1>4. Cardinality(({f} \cup {g}) \cup {h}) = 3
  BY <1>3, FS_AddElement
<1>5. Cardinality(({f} \cup {g}) \cup {h}) <= Cardinality(stage.handlers)
  BY <1>1, FS_Subset
<1> QED
  BY <1>1, <1>4, <1>5

LEMMA InitKnockout == Init => KnockoutIInv
<1> SUFFICES ASSUME Init PROVE KnockoutIInv
  OBVIOUS
<1>1. DOMAIN row = DOMAIN Pools(stage.count)
  BY DEF Init, PoolsOf
<1>2. \A m \in DOMAIN row : ~IsKnockout(m)
  BY <1>1, PoolsAreDrawn DEF IsKnockout
<1>3. Rows
  <2> SUFFICES ASSUME NEW m \in DOMAIN row PROVE HasStatus(row[m])
    BY DEF Rows
  <2> QED
    BY NewRowsHaveStatus DEF Init
<1>4. Calls
  <2> USE DEF Init
  <2>1. DOMAIN pc = Handlers /\ DOMAIN call = Handlers
    OBVIOUS
  <2>2. ASSUME NEW h \in Handlers PROVE call[h] = NoCall /\ pc[h] = "idle"
    OBVIOUS
  <2> QED
    BY <2>1, <2>2 DEF Calls, NoCall, InFlight, Creates
<1>5. OneWriterEach
  BY DEF Init, OneWriterEach, Writing
<1>6. CreatedWhenOver
  BY <1>2 DEF Init, CreatedWhenOver, KnockoutExists
<1>7. TwoCalls
  BY DEF Init, TwoCalls, OneRepeats, InFlight, Creates
<1> QED
  BY <1>3, <1>4, <1>5, <1>6, <1>7 DEF KnockoutIInv, Init

(* A step of one call: what is known of the others stays.                  *)
OnlyCall(h, where, c) ==
  /\ DOMAIN pc' = Handlers /\ DOMAIN call' = Handlers
  /\ pc'[h] = where /\ call'[h] = c
  /\ \A g \in Handlers \ {h} : pc'[g] = pc[g] /\ call'[g] = call[g]

(* When it writes no row, the invariant follows from what is new: that it is*)
(* well-formed, that a writer is alone, and, of two calls, that it repeats *)
(* nothing next to another and creates only the first knock-out.           *)
LEMMA CallStep ==
  ASSUME KnockoutIInv, NEW h \in stage.handlers, NEW where, NEW c,
         OnlyCall(h, where, c), UNCHANGED <<stage, row, creations>>,
         {"match", "knockout"} \subseteq DOMAIN c,
         where \in {"idle", "write", "count", "look", "commit"},
         where # "idle" => c.match \in DOMAIN row,
         where \in {"idle", "write", "count"} => c.knockout = <<>>,
         where = "count" => ~IsKnockout(c.match),
         where = "look" \/ (where = "commit" /\ c.knockout # <<>>) =>
           /\ IsAKnockout(c.knockout)
           /\ ~IsKnockout(c.match)
           /\ \A n \in DOMAIN row \ {c.match} : n.phase = "POOL" => row[n].status = "COMPLETED",
         where \in {"count", "look", "commit"} =>
           \A g \in Handlers \ {h} : Writing(g) => call[g].match # c.match,
         where # "idle" => row[c.match].status # "COMPLETED" \/ (InFlight(h) /\ c.match = call[h].match),
         where = "commit" /\ c.knockout # <<>> => ~KnockoutExists(row)
  PROVE  KnockoutIInv'
<1> h \in Handlers
  BY HandlersOfStage DEF KnockoutIInv
<1>1. /\ DOMAIN pc' = Handlers /\ DOMAIN call' = Handlers
      /\ pc'[h] = where /\ call'[h] = c
      /\ \A g \in Handlers \ {h} : pc'[g] = pc[g] /\ call'[g] = call[g]
  BY DEF OnlyCall
<1>2. stage' \in Stages /\ Rows' /\ CreatedWhenOver'
  BY DEF KnockoutIInv, Rows, CreatedWhenOver, StageDone, KnockoutExists
<1>3. Calls'
  <2> SUFFICES ASSUME NEW g \in Handlers
               PROVE  /\ {"match", "knockout"} \subseteq DOMAIN call'[g]
                      /\ pc'[g] \in {"idle", "write", "count", "look", "commit"}
                      /\ InFlight(g)' => g \in stage'.handlers /\ call'[g].match \in DOMAIN row'
                      /\ pc'[g] \in {"idle", "write", "count"} => call'[g].knockout = <<>>
                      /\ pc'[g] = "count" => ~IsKnockout(call'[g].match)
                      /\ pc'[g] = "look" \/ Creates(g)' =>
                           /\ IsAKnockout(call'[g].knockout)
                           /\ ~IsKnockout(call'[g].match)
                           /\ OthersOver(g)'
    BY <1>1 DEF Calls
  <2>1. CASE g = h
    BY <2>1, <1>1 DEF InFlight, Creates, OthersOver
  <2>2. CASE g # h
    <3>1. pc'[g] = pc[g] /\ call'[g] = call[g]
      BY <2>2, <1>1
    <3>2. (OthersOver(g)' <=> OthersOver(g)) /\ (Creates(g)' <=> Creates(g)) /\ (InFlight(g)' <=> InFlight(g))
      BY <3>1 DEF OthersOver, Creates, InFlight
    <3> QED
      BY <3>1, <3>2 DEF KnockoutIInv, Calls
  <2> QED
    BY <2>1, <2>2
<1>4. OneWriterEach'
  <2> SUFFICES ASSUME NEW f \in Handlers, NEW g \in Handlers, Writing(f)', Writing(g)',
                      call'[f].match = call'[g].match, f # g
               PROVE  FALSE
    BY DEF OneWriterEach
  <2>1. CASE f # h /\ g # h
    BY <2>1, <1>1 DEF KnockoutIInv, OneWriterEach, Writing
  <2>2. CASE f = h \/ g = h
    BY <2>2, <1>1 DEF Writing
  <2> QED
    BY <2>1, <2>2
<1>5. TwoCalls'
  <2> SUFFICES ASSUME Cardinality(stage.handlers) <= 2
               PROVE  /\ OneRepeats'
                      /\ creations' <= 1
                      /\ \A g \in Handlers : Creates(g)' => creations' = 0
    BY DEF TwoCalls
  <2>1. OneRepeats'
    <3> SUFFICES ASSUME NEW f \in Handlers, NEW g \in Handlers, InFlight(f)', InFlight(g)',
                        Repeats(f)', Repeats(g)', f # g
                 PROVE  FALSE
      BY DEF OneRepeats
    <3>1. ASSUME NEW k \in Handlers, InFlight(k)', Repeats(k)'
          PROVE  InFlight(k) /\ Repeats(k)
      <4>1. CASE k = h
        BY <4>1, <3>1, <1>1 DEF InFlight, Repeats
      <4>2. CASE k # h
        BY <4>2, <3>1, <1>1 DEF InFlight, Repeats
      <4> QED
        BY <4>1, <4>2
    <3> QED
      BY <3>1 DEF KnockoutIInv, TwoCalls, OneRepeats
  <2>2. ASSUME NEW g \in Handlers, Creates(g)' PROVE creations' = 0
    <3>1. CASE g = h
      BY <3>1, <2>2, <1>1 DEF Creates, KnockoutIInv, CreatedWhenOver
    <3>2. CASE g # h
      BY <3>2, <2>2, <1>1 DEF Creates, KnockoutIInv, TwoCalls
    <3> QED
      BY <3>1, <3>2
  <2> QED
    BY <2>1, <2>2 DEF KnockoutIInv, TwoCalls
<1> QED
  BY <1>2, <1>3, <1>4, <1>5 DEF KnockoutIInv

LEMMA StartMatchKnockout ==
  ASSUME KnockoutIInv, NEW m \in DOMAIN row, StartMatch(m)
  PROVE  KnockoutIInv'
<1> USE DEF KnockoutIInv, StartMatch
<1>1. /\ DOMAIN row' = DOMAIN row /\ row'[m].status = "ACTIVE"
      /\ \A n \in DOMAIN row \ {m} : row'[n] = row[n]
      /\ HasStatus(row'[m])
  BY DEF Rows, HasStatus, Statuses
<1>2. row[m].status # "COMPLETED"
  OBVIOUS
<1>3. Rows'
  BY <1>1 DEF Rows
<1>4. \A n \in DOMAIN row : row[n].status = "COMPLETED" <=> row'[n].status = "COMPLETED"
  BY <1>1, <1>2
<1>5. \A h \in Handlers : (Creates(h)' <=> Creates(h)) /\ (InFlight(h)' <=> InFlight(h))
  BY DEF Creates, InFlight
<1>6. Calls'
  <2>1. \A h \in Handlers : InFlight(h) /\ OthersOver(h) => OthersOver(h)'
    BY <1>1, <1>4 DEF OthersOver
  <2>2. \A h \in Handlers : pc[h] = "look" \/ Creates(h) => InFlight(h)
    BY DEF Creates, InFlight
  <2> QED
    BY <1>1, <1>5, <2>1, <2>2 DEF Calls
<1>7. OneWriterEach'
  BY DEF OneWriterEach, Writing
<1>8. CreatedWhenOver'
  BY <1>1, <1>4 DEF CreatedWhenOver, StageDone, KnockoutExists
<1>9. TwoCalls'
  <2>1. \A h \in Handlers : InFlight(h) => (Repeats(h)' <=> Repeats(h))
    BY <1>4 DEF Repeats, Calls
  <2> QED
    BY <1>5, <2>1 DEF TwoCalls, OneRepeats
<1> QED
  BY <1>3, <1>6, <1>7, <1>8, <1>9

LEMMA EndMatchKnockout ==
  ASSUME KnockoutIInv, NEW h \in stage.handlers, NEW m \in DOMAIN row, NEW winner, NEW winMethod,
         EndMatch(h, m, winner, winMethod)
  PROVE  KnockoutIInv'
<1> DEFINE c == [NoCall EXCEPT !.match = m, !.winner = winner, !.winMethod = winMethod]
<1> h \in Handlers
  BY HandlersOfStage DEF KnockoutIInv
<1>1. {"match", "knockout"} \subseteq DOMAIN c /\ c.match = m /\ c.knockout = <<>>
  BY DEF NoCall
<1>2. OnlyCall(h, "write", c)
  BY DEF OnlyCall, EndMatch, KnockoutIInv, Calls
<1>3. row[m].status # "COMPLETED" /\ UNCHANGED <<stage, row, creations>>
  BY DEF EndMatch, ReadMatch
<1> HIDE DEF c
<1> QED
  BY <1>1, <1>2, <1>3, CallStep

LEMMA WriteResultKnockout ==
  ASSUME KnockoutIInv, NEW h \in stage.handlers, WriteResult(h)
  PROVE  KnockoutIInv'
<1> DEFINE where == IF IsKnockout(call[h].match) THEN "commit" ELSE "count"
<1> h \in Handlers
  BY HandlersOfStage DEF KnockoutIInv
<1>1. OnlyCall(h, where, call[h])
  BY DEF OnlyCall, WriteResult, KnockoutIInv, Calls
<1>2. InFlight(h) /\ pc[h] = "write" /\ UNCHANGED <<stage, row, creations>>
  BY DEF WriteResult, InFlight
<1>3. {"match", "knockout"} \subseteq DOMAIN call[h] /\ call[h].match \in DOMAIN row /\ call[h].knockout = <<>>
  BY <1>2 DEF KnockoutIInv, Calls
<1>4. \A g \in Handlers \ {h} : Writing(g) => call[g].match # call[h].match
  BY DEF WriteResult, Locked, Writing
<1> QED
  BY <1>1, <1>2, <1>3, <1>4, CallStep

LEMMA CountKnockout ==
  ASSUME KnockoutIInv, NEW h \in stage.handlers, CountPoolMatches(h)
  PROVE  KnockoutIInv'
<1> h \in Handlers
  BY HandlersOfStage DEF KnockoutIInv
<1>1. InFlight(h) /\ pc[h] = "count" /\ UNCHANGED <<stage, row, creations>>
  BY DEF CountPoolMatches, InFlight
<1>2. /\ {"match", "knockout"} \subseteq DOMAIN call[h] /\ call[h].match \in DOMAIN row
      /\ call[h].knockout = <<>> /\ ~IsKnockout(call[h].match)
  BY <1>1 DEF KnockoutIInv, Calls
<1>3. \A g \in Handlers \ {h} : Writing(g) => call[g].match # call[h].match
  BY <1>1 DEF KnockoutIInv, OneWriterEach, Writing
<1>4. CASE StageIsOver(View(h))
  <2>1. PICK a \in PoolTables(View(h), "A"), b \in PoolTables(View(h), "B") :
               /\ pc' = [pc EXCEPT ![h] = "look"]
               /\ call' = [call EXCEPT ![h].knockout = KnockoutOf(a, b)]
    BY <1>4 DEF CountPoolMatches
  <2> DEFINE c == [call[h] EXCEPT !.knockout = KnockoutOf(a, b)]
  <2>2. /\ {"match", "knockout"} \subseteq DOMAIN c
        /\ c.match = call[h].match /\ c.knockout = KnockoutOf(a, b)
    BY <1>2
  <2>3. OnlyCall(h, "look", c)
    BY <2>1 DEF OnlyCall, KnockoutIInv, Calls
  <2>4. IsAKnockout(c.knockout)
    BY <2>2, KnockoutIsAKnockout
  <2>5. \A n \in DOMAIN row \ {c.match} : n.phase = "POOL" => row[n].status = "COMPLETED"
    BY <1>2, <1>4, <2>2, ViewStatus DEF StageIsOver, KnockoutIInv, Rows
  <2> HIDE DEF c
  <2> QED
    BY <1>1, <1>2, <1>3, <2>2, <2>3, <2>4, <2>5, CallStep
<1>5. CASE ~StageIsOver(View(h))
  <2>1. OnlyCall(h, "commit", call[h])
    BY <1>5 DEF OnlyCall, CountPoolMatches, KnockoutIInv, Calls
  <2> QED
    BY <1>1, <1>2, <1>3, <2>1, CallStep
<1> QED
  BY <1>4, <1>5

LEMMA LookKnockout ==
  ASSUME KnockoutIInv, NEW h \in stage.handlers, LookForKnockout(h)
  PROVE  KnockoutIInv'
<1> DEFINE c == [call[h] EXCEPT !.knockout = IF KnockoutExists(row) THEN <<>> ELSE @]
<1> h \in Handlers
  BY HandlersOfStage DEF KnockoutIInv
<1>1. InFlight(h) /\ pc[h] = "look" /\ UNCHANGED <<stage, row, creations>>
  BY DEF LookForKnockout, InFlight
<1>2. /\ {"match", "knockout"} \subseteq DOMAIN call[h] /\ call[h].match \in DOMAIN row
      /\ IsAKnockout(call[h].knockout) /\ ~IsKnockout(call[h].match) /\ OthersOver(h)
  BY <1>1 DEF KnockoutIInv, Calls
<1>3. \A g \in Handlers \ {h} : Writing(g) => call[g].match # call[h].match
  BY <1>1 DEF KnockoutIInv, OneWriterEach, Writing
<1>4. /\ {"match", "knockout"} \subseteq DOMAIN c /\ c.match = call[h].match
      /\ c.knockout = IF KnockoutExists(row) THEN <<>> ELSE call[h].knockout
  BY <1>2
<1>5. OnlyCall(h, "commit", c)
  BY DEF OnlyCall, LookForKnockout, KnockoutIInv, Calls
<1> HIDE DEF c
<1> QED
  BY <1>1, <1>2, <1>3, <1>4, <1>5, CallStep DEF OthersOver

LEMMA RollbackKnockout ==
  ASSUME KnockoutIInv, NEW h \in stage.handlers, Rollback(h)
  PROVE  KnockoutIInv'
<1> h \in Handlers
  BY HandlersOfStage DEF KnockoutIInv
<1>1. {"match", "knockout"} \subseteq DOMAIN NoCall /\ NoCall.knockout = <<>>
  BY DEF NoCall
<1>2. OnlyCall(h, "idle", NoCall)
  BY DEF OnlyCall, Rollback, KnockoutIInv, Calls
<1>3. UNCHANGED <<stage, row, creations>>
  BY DEF Rollback
<1> QED
  BY <1>1, <1>2, <1>3, CallStep

(* Two calls that create at the same time repeat completions both: each    *)
(* has seen the match of the other completed.                              *)
LEMMA BothRepeat ==
  ASSUME KnockoutIInv, NEW g \in Handlers, NEW h \in Handlers, g # h, Creates(g), Creates(h)
  PROVE  Repeats(g) /\ Repeats(h)
<1>1. call[g].match # call[h].match
  BY DEF KnockoutIInv, OneWriterEach, Writing, Creates
<1>2. /\ call[g].match \in DOMAIN row /\ call[h].match \in DOMAIN row
      /\ call[g].match.phase = "POOL" /\ call[h].match.phase = "POOL"
      /\ OthersOver(g) /\ OthersOver(h)
  BY DEF KnockoutIInv, Calls, InFlight, Creates, IsKnockout
<1> QED
  BY <1>1, <1>2 DEF OthersOver, Repeats

(* What a commit leaves of the rows: its match is completed, the statuses  *)
(* of the other pool matches stay, and the knock-out is there.             *)
LEMMA CommittedRows ==
  ASSUME KnockoutIInv, NEW h \in Handlers, Commit(h)
  PROVE  /\ DOMAIN row' = DOMAIN call[h].knockout \cup DOMAIN row
         /\ \A n \in DOMAIN row' : HasStatus(row'[n])
         /\ \A n \in DOMAIN row' : n.phase = "POOL" =>
              /\ n \in DOMAIN row
              /\ row'[n].status = IF n = call[h].match THEN "COMPLETED" ELSE row[n].status
<1> DEFINE m == call[h].match
           k == call[h].knockout
           after == Advance(View(h), m)
<1>1. m \in DOMAIN row /\ \A n \in DOMAIN row : HasStatus(row[n])
  BY DEF KnockoutIInv, Calls, Rows, Commit, InFlight
<1>2. \A n \in DOMAIN k : HasStatus(k[n]) /\ n.phase # "POOL"
  <2>1. CASE k = <<>>
    BY <2>1, NothingCreated
  <2>2. CASE k # <<>>
    BY <2>2 DEF KnockoutIInv, Calls, Commit, Creates, IsAKnockout, IsKnockout
  <2> QED
    BY <2>1, <2>2
<1>3. /\ DOMAIN after = DOMAIN row
      /\ \A n \in DOMAIN row :
           /\ HasStatus(after[n])
           /\ after[n].status = IF n = m THEN "COMPLETED" ELSE row[n].status
  <2>1. /\ DOMAIN View(h) = DOMAIN row /\ View(h)[m].status = "COMPLETED"
        /\ \A n \in DOMAIN row : HasStatus(View(h)[n])
        /\ \A n \in DOMAIN row \ {m} : View(h)[n] = row[n]
    BY <1>1, ViewStatus
  <2>2. /\ DOMAIN after = DOMAIN View(h)
        /\ \A n \in DOMAIN View(h) : HasStatus(after[n]) /\ after[n].status = View(h)[n].status
    BY <2>1, AdvanceKeepsStatus
  <2> HIDE DEF after, m
  <2> QED
    BY <2>1, <2>2
<1>4. row' = [n \in DOMAIN k \cup DOMAIN row |-> IF n \in DOMAIN k THEN k[n] ELSE after[n]]
  BY DEF Commit
<1> HIDE DEF after, m, k
<1>5. /\ DOMAIN row' = DOMAIN k \cup DOMAIN row
      /\ \A n \in DOMAIN row' : HasStatus(row'[n])
      /\ \A n \in DOMAIN row' : n.phase = "POOL" =>
           n \in DOMAIN row /\ row'[n].status = IF n = m THEN "COMPLETED" ELSE row[n].status
  BY <1>2, <1>3, <1>4
<1> QED
  BY <1>5 DEF m, k

LEMMA CommitKnockout ==
  ASSUME KnockoutIInv, NEW h \in stage.handlers, Commit(h)
  PROVE  KnockoutIInv'
<1> h \in Handlers
  BY HandlersOfStage DEF KnockoutIInv
<1>1. OnlyCall(h, "idle", NoCall)
  BY DEF OnlyCall, Commit, KnockoutIInv, Calls
<1>2. /\ DOMAIN row' = DOMAIN call[h].knockout \cup DOMAIN row
      /\ \A n \in DOMAIN row' : HasStatus(row'[n])
      /\ \A n \in DOMAIN row' : n.phase = "POOL" =>
           /\ n \in DOMAIN row
           /\ row'[n].status = IF n = call[h].match THEN "COMPLETED" ELSE row[n].status
  BY CommittedRows
<1>3. /\ stage' = stage /\ pc[h] = "commit" /\ InFlight(h) /\ creations \in Nat
      /\ creations' = IF Creates(h) THEN creations + 1 ELSE creations
  BY DEF Commit, Creates, InFlight, KnockoutIInv, CreatedWhenOver
<1>4. Creates(h) => IsAKnockout(call[h].knockout) /\ OthersOver(h)
  BY DEF KnockoutIInv, Calls
<1>5. ~Creates(h) => DOMAIN row' = DOMAIN row
  BY <1>2, <1>3, NothingCreated DEF Creates
<1>6. Rows'
  BY <1>2 DEF Rows
<1>7. Calls'
  <2> SUFFICES ASSUME NEW g \in Handlers
               PROVE  /\ {"match", "knockout"} \subseteq DOMAIN call'[g]
                      /\ pc'[g] \in {"idle", "write", "count", "look", "commit"}
                      /\ InFlight(g)' => g \in stage'.handlers /\ call'[g].match \in DOMAIN row'
                      /\ pc'[g] \in {"idle", "write", "count"} => call'[g].knockout = <<>>
                      /\ pc'[g] = "count" => ~IsKnockout(call'[g].match)
                      /\ pc'[g] = "look" \/ Creates(g)' =>
                           /\ IsAKnockout(call'[g].knockout)
                           /\ ~IsKnockout(call'[g].match)
                           /\ OthersOver(g)'
    BY <1>1 DEF Calls, OnlyCall
  <2>1. CASE g = h
    BY <2>1, <1>1 DEF OnlyCall, NoCall, InFlight, Creates
  <2>2. CASE g # h
    <3>1. pc'[g] = pc[g] /\ call'[g] = call[g]
      BY <2>2, <1>1 DEF OnlyCall
    <3>2. (Creates(g)' <=> Creates(g)) /\ (InFlight(g)' <=> InFlight(g))
      BY <3>1 DEF Creates, InFlight
    <3>3. OthersOver(g) => OthersOver(g)'
      BY <3>1, <1>2 DEF OthersOver
    <3> QED
      BY <3>1, <3>2, <3>3, <1>2, <1>3 DEF KnockoutIInv, Calls
  <2> QED
    BY <2>1, <2>2
<1>8. OneWriterEach'
  BY <1>1 DEF OnlyCall, KnockoutIInv, OneWriterEach, Writing
<1>9. CreatedWhenOver'
  <2>1. creations' \in Nat
    BY <1>3
  <2>2. CASE Creates(h)
    <3>1. StageDone'
      BY <2>2, <1>2, <1>4 DEF StageDone, OthersOver
    <3>2. KnockoutExists(row)' /\ creations' # 0
      BY <2>2, <1>2, <1>3, <1>4 DEF KnockoutExists, IsAKnockout
    <3> QED
      BY <2>1, <3>1, <3>2 DEF CreatedWhenOver
  <2>3. CASE ~Creates(h)
    <3>1. StageDone => StageDone'
      BY <1>2 DEF StageDone
    <3>2. (KnockoutExists(row)' <=> KnockoutExists(row)) /\ creations' = creations
      BY <2>3, <1>3, <1>5 DEF KnockoutExists
    <3> QED
      BY <2>1, <3>1, <3>2 DEF KnockoutIInv, CreatedWhenOver
  <2> QED
    BY <2>2, <2>3
<1>10. TwoCalls'
  <2> SUFFICES ASSUME Cardinality(stage.handlers) <= 2
               PROVE  /\ OneRepeats'
                      /\ creations' <= 1
                      /\ \A g \in Handlers : Creates(g)' => creations' = 0
    BY <1>3 DEF TwoCalls
  <2>1. OneRepeats'
    <3> SUFFICES ASSUME NEW f \in Handlers, NEW g \in Handlers, InFlight(f)', InFlight(g)', f # g
                 PROVE  FALSE
      BY DEF OneRepeats
    <3>1. f # h /\ g # h
      BY <1>1 DEF OnlyCall, InFlight
    <3>2. f \in stage.handlers /\ g \in stage.handlers
      BY <1>3, <1>7 DEF Calls
    <3> QED
      BY <3>1, <3>2, NoThirdCall DEF KnockoutIInv
  <2>2. creations' <= 1
    BY <1>3 DEF KnockoutIInv, TwoCalls
  <2>3. ASSUME NEW g \in Handlers, Creates(g)' PROVE creations' = 0
    <3>1. g # h /\ Creates(g)
      BY <2>3, <1>1 DEF OnlyCall, Creates
    <3>2. ~Creates(h)
      BY <3>1, BothRepeat DEF KnockoutIInv, TwoCalls, OneRepeats, Creates, InFlight
    <3> QED
      BY <3>1, <3>2, <1>3 DEF KnockoutIInv, TwoCalls
  <2> QED
    BY <2>1, <2>2, <2>3
<1> QED
  BY <1>3, <1>6, <1>7, <1>8, <1>9, <1>10 DEF KnockoutIInv

-----------------------------------------------------------------------------
(* Every step keeps the invariant *)

LEMMA StepKnockout == KnockoutIInv /\ [Next]_vars => KnockoutIInv'
<1> SUFFICES ASSUME KnockoutIInv, [Next]_vars PROVE KnockoutIInv'
  OBVIOUS
<1>1. ASSUME NEW h \in stage.handlers, Request(h) PROVE KnockoutIInv'
  BY <1>1, StartMatchKnockout, EndMatchKnockout DEF Request
<1>2. ASSUME NEW h \in stage.handlers, Proceed(h) PROVE KnockoutIInv'
  BY <1>2, WriteResultKnockout, CountKnockout, LookKnockout, CommitKnockout DEF Proceed
<1>3. ASSUME NEW h \in stage.handlers, Rollback(h) PROVE KnockoutIInv'
  BY <1>3, RollbackKnockout
<1>4. CASE UNCHANGED vars
  BY <1>4 DEF vars, KnockoutIInv, Rows, Calls, OneWriterEach, CreatedWhenOver, TwoCalls, OneRepeats,
     InFlight, Creates, Repeats, OthersOver, Writing, StageDone, KnockoutExists
<1> QED
  BY <1>1, <1>2, <1>3, <1>4 DEF Next

LEMMA KnockoutFollows == KnockoutIInv => KnockoutOnce
<1> SUFFICES ASSUME KnockoutIInv PROVE KnockoutOnce
  OBVIOUS
<1>1. Cardinality(stage.handlers) <= 2 => creations <= 1
  BY DEF KnockoutIInv, TwoCalls
<1>2. ASSUME NEW h \in Handlers, Creates(h), creations > 0 PROVE Repeats(h)
  <2>1. call[h].match \in DOMAIN row /\ call[h].match.phase = "POOL"
    BY <1>2 DEF KnockoutIInv, Calls, Creates, InFlight, IsKnockout
  <2>2. StageDone
    BY <1>2 DEF KnockoutIInv, CreatedWhenOver
  <2> QED
    BY <2>1, <2>2 DEF StageDone, Repeats
<1>3. ASSUME NEW h \in Handlers, NEW g \in Handlers \ {h}, Creates(h), Creates(g) PROVE Repeats(h)
  BY <1>3, BothRepeat
<1> QED
  BY <1>1, <1>2, <1>3 DEF KnockoutOnce

(* Of two overlapping calls at most one creates the knock-out; of more, a  *)
(* second knock-out takes calls that repeat a completion.                  *)
THEOREM OneKnockout == Spec => []KnockoutOnce
BY InitKnockout, StepKnockout, KnockoutFollows, PTL DEF Spec

(* A knock-out exists only when every pool match is completed: no fight of *)
(* a pool can change the tables it was drawn from without being repeated.  *)
THEOREM DrawnWhenOver == Spec => [](KnockoutExists(row) => StageDone)
<1>1. KnockoutIInv => (KnockoutExists(row) => StageDone)
  BY DEF KnockoutIInv, CreatedWhenOver
<1> QED
  BY <1>1, InitKnockout, StepKnockout, PTL DEF Spec

-----------------------------------------------------------------------------
(* Ranking: more wins give a better rank *)

(* More wins give a better rank, even when a match between two decides.    *)
LEMMA MoreWinsRankBetter ==
  ASSUME NEW r, NEW table, IsFiniteSet(table), NEW entered, IsFiniteSet(entered),
         \A m \in table, side \in Sides : r[m].scores[side].shido \in Nat
  PROVE  /\ Ranks(r, table, entered) \in [entered -> Nat]
         /\ \A c, d \in entered :
              WinsIn(r, table, entered)[d] > WinsIn(r, table, entered)[c] =>
                Ranks(r, table, entered)[d] < Ranks(r, table, entered)[c]
<1> DEFINE criteria == Criteria(r, table, entered)
           wins == WinsIn(r, table, entered)
           ahead(c) == {d \in entered : Ahead(criteria[d], criteria[c])}
           lostDirect(c) ==
             LET level == Level(criteria, c)
             IN  /\ ToldApart(r, table, level)
                 /\ \A d \in level \ {c} : c \notin HeadToHead(r, table, c, d)
           rank(c) == 1 + Cardinality(ahead(c)) + (IF lostDirect(c) THEN 1 ELSE 0)
<1>1. /\ criteria \in [entered -> Vector] /\ wins \in [entered -> Nat]
      /\ \A c \in entered : criteria[c][1] = wins[c]
  BY CriteriaAreNumbers
<1>2. Ranks(r, table, entered) = [c \in entered |-> rank(c)]
  BY DEF Ranks
<1>3. ASSUME NEW c \in entered, lostDirect(c)
      PROVE  \E e \in entered : e # c /\ criteria[e] = criteria[c]
  <2> DEFINE level == Level(criteria, c)
  <2>1. Cardinality(level) = 2
    BY <1>3 DEF ToldApart
  <2>2. level # {c}
    <3>1. Cardinality({c}) = 1
      BY FS_Singleton
    <3> HIDE DEF level
    <3> QED
      BY <2>1, <3>1
  <2>3. c \in level /\ level \subseteq entered /\ \A e \in level : criteria[e] = criteria[c]
    BY <1>1 DEF Level
  <2> HIDE DEF level
  <2> QED
    BY <2>2, <2>3
<1> HIDE DEF criteria, wins, lostDirect
<1>4. ASSUME NEW c \in entered
      PROVE  IsFiniteSet(ahead(c)) /\ Cardinality(ahead(c)) \in Nat
  <2>1. ahead(c) \subseteq entered
    OBVIOUS
  <2> HIDE DEF ahead
  <2> QED
    BY <2>1, FS_Subset, FS_CardinalityType
<1>5. ASSUME NEW c \in entered, NEW d \in entered, wins[d] > wins[c]
      PROVE  rank(d) < rank(c)
  <2>1. ahead(d) \subseteq ahead(c) /\ d \in ahead(c) /\ d \notin ahead(d)
    BY <1>1, <1>5, AheadOrders
  <2>2. \A e \in entered : criteria[e] = criteria[d] => e \in ahead(c) /\ e \notin ahead(d)
    BY <2>1
  <2>3. PICK extra \in SUBSET ahead(c) :
          /\ extra \cap ahead(d) = {} /\ IsFiniteSet(extra)
          /\ Cardinality(extra) = IF lostDirect(d) THEN 2 ELSE 1
    <3>1. CASE lostDirect(d)
      <4>1. PICK e \in entered : e # d /\ criteria[e] = criteria[d]
        BY <1>3, <3>1
      <4>2. IsFiniteSet({d, e}) /\ Cardinality({d, e}) = 2
        BY <4>1, TwoElements
      <4>3. {d, e} \subseteq ahead(c) /\ {d, e} \cap ahead(d) = {}
        BY <2>1, <2>2, <4>1
      <4> HIDE DEF ahead
      <4> QED
        BY <3>1, <4>2, <4>3
    <3>2. CASE ~lostDirect(d)
      <4>1. IsFiniteSet({d}) /\ Cardinality({d}) = 1
        BY FS_Singleton
      <4>2. {d} \subseteq ahead(c) /\ {d} \cap ahead(d) = {}
        BY <2>1
      <4> HIDE DEF ahead
      <4> QED
        BY <3>2, <4>1, <4>2
    <3> QED
      BY <3>1, <3>2
  <2> HIDE DEF ahead
  <2>4. Cardinality(ahead(d) \cup extra) = Cardinality(ahead(d)) + Cardinality(extra)
    <3>1. Cardinality(ahead(d) \cap extra) = 0
      BY <2>3, FS_EmptySet
    <3>2. Cardinality(ahead(d) \cup extra) =
            Cardinality(ahead(d)) + Cardinality(extra) - Cardinality(ahead(d) \cap extra)
      BY <1>4, <2>3, FS_Union
    <3>3. Cardinality(ahead(d)) \in Nat /\ Cardinality(extra) \in Nat
      BY <1>4, <2>3
    <3> QED
      BY <3>1, <3>2, <3>3
  <2>5. Cardinality(ahead(d) \cup extra) <= Cardinality(ahead(c))
    <3>1. (ahead(d) \cup extra) \subseteq ahead(c)
      BY <2>1, <2>3
    <3> QED
      BY <1>4, <3>1, FS_Subset
  <2> QED
    BY <1>4, <2>3, <2>4, <2>5
<1>6. \A c \in entered : rank(c) \in Nat
  <2> HIDE DEF ahead
  <2> QED
    BY <1>4
<1> HIDE DEF rank
<1>7. Ranks(r, table, entered) \in [entered -> Nat]
  BY <1>2, <1>6
<1>8. \A c \in entered : Ranks(r, table, entered)[c] = rank(c)
  BY <1>2
<1> QED
  BY <1>5, <1>7, <1>8 DEF wins

(* The table of wins depends on the rows of the table only.                *)
LEMMA WinsDependOnTable ==
  ASSUME NEW r, NEW q, NEW table, NEW entered, \A m \in table : r[m] = q[m]
  PROVE  WinsIn(r, table, entered) = WinsIn(q, table, entered)
<1>1. Counted(r, table, entered) = Counted(q, table, entered)
  BY DEF Counted
<1>2. ASSUME NEW c
      PROVE  Won(r, Counted(r, table, entered), c) = Won(q, Counted(q, table, entered), c)
  <2>1. Counted(r, table, entered) \subseteq table
    BY DEF Counted
  <2>2. \A m \in table : CountedWinner(r, m) = CountedWinner(q, m)
    BY DEF CountedWinner
  <2> QED
    BY <1>1, <2>1, <2>2 DEF Won
<1> QED
  BY <1>2 DEF WinsIn

-----------------------------------------------------------------------------
(* Tables: everybody has one place, in the order of the ranks *)

(* The order in which competitors have appeared, each of them once.        *)
IsOrderOf(appearance, entered) ==
  /\ appearance \in [1..Cardinality(entered) -> entered]
  /\ \A i, j \in 1..Cardinality(entered) : appearance[i] = appearance[j] => i = j
  /\ \A c \in entered : \E i \in 1..Cardinality(entered) : appearance[i] = c

(* A table has everybody in one place, and at most i - 1 competitors have a*)
(* better rank than the one in place i.                                    *)
LEMMA OrderedPlaces ==
  ASSUME NEW entered, IsFiniteSet(entered), NEW rank \in [entered -> Nat],
         NEW appearance, IsOrderOf(appearance, entered),
         NEW i \in 1..Cardinality(entered)
  PROVE  /\ Ordered(rank, appearance)[i] \in entered
         /\ \A j \in 1..Cardinality(entered) :
              Ordered(rank, appearance)[i] = Ordered(rank, appearance)[j] => i = j
         /\ LET better == {d \in entered : rank[d] < rank[Ordered(rank, appearance)[i]]}
            IN  IsFiniteSet(better) /\ Cardinality(better) \in 0..(i - 1)
<1> DEFINE n == Cardinality(entered)
           before(c, d) == \/ rank[c] < rank[d]
                           \/ rank[c] = rank[d] /\ Earlier(appearance, c, d)
           ahead(c) == {d \in entered : before(d, c)}
           place(c) == 1 + Cardinality(ahead(c))
           table == Ordered(rank, appearance)
<1>1. n \in Nat
  BY FS_CardinalityType
<1>2. PICK at \in [entered -> 1..n] : \A c \in entered : appearance[at[c]] = c
  <2>1. \A c \in entered : \E j \in 1..n : appearance[j] = c
    BY DEF IsOrderOf
  <2> DEFINE at == [c \in entered |-> CHOOSE j \in 1..n : appearance[j] = c]
  <2>2. at \in [entered -> 1..n] /\ \A c \in entered : appearance[at[c]] = c
    <3> HIDE DEF n
    <3> QED
      BY <2>1
  <2> QED
    BY <2>2
<1>3. ASSUME NEW c \in entered, NEW d \in entered
      PROVE  Earlier(appearance, c, d) <=> at[c] < at[d]
  <2>1. DOMAIN appearance = 1..n /\ \A j, k \in 1..n : appearance[j] = appearance[k] => j = k
    BY DEF IsOrderOf
  <2> HIDE DEF n
  <2> QED
    BY <1>2, <2>1 DEF Earlier
<1>4. ASSUME NEW c \in entered, NEW d \in entered
      PROVE  before(c, d) <=> rank[c] < rank[d] \/ (rank[c] = rank[d] /\ at[c] < at[d])
  BY <1>3
<1>5. /\ \A c, d \in entered : c # d => before(c, d) \/ before(d, c)
      /\ \A c \in entered : ~before(c, c)
      /\ \A c, d, e \in entered : before(c, d) /\ before(d, e) => before(c, e)
  <2>1. \A c \in entered : rank[c] \in Nat /\ at[c] \in Int
    BY <1>1, <1>2
  <2>2. \A c, d \in entered : c # d => at[c] # at[d]
    BY <1>2
  <2> HIDE DEF before, n
  <2> QED
    BY <1>4, <2>1, <2>2
<1> HIDE DEF before
<1>6. ASSUME NEW c \in entered
      PROVE  IsFiniteSet(ahead(c)) /\ Cardinality(ahead(c)) \in Nat /\ place(c) \in 1..n
  <2>1. ahead(c) \subseteq entered /\ ahead(c) # entered
    BY <1>5
  <2> HIDE DEF ahead
  <2>2. IsFiniteSet(ahead(c)) /\ Cardinality(ahead(c)) \in Nat
    BY <2>1, FS_Subset, FS_CardinalityType
  <2>3. Cardinality(ahead(c)) <= n /\ Cardinality(ahead(c)) # n
    BY <2>1, FS_Subset
  <2> HIDE DEF n
  <2> QED
    BY <1>1, <2>2, <2>3
<1>7. ASSUME NEW c \in entered, NEW d \in entered, before(c, d)
      PROVE  place(c) < place(d)
  <2>1. ahead(c) \subseteq ahead(d) /\ ahead(c) # ahead(d)
    BY <1>5, <1>7
  <2> HIDE DEF ahead
  <2>2. Cardinality(ahead(c)) <= Cardinality(ahead(d)) /\ Cardinality(ahead(c)) # Cardinality(ahead(d))
    BY <1>6, <2>1, FS_Subset
  <2> QED
    BY <1>6, <2>2
<1>8. \A c, d \in entered : place(c) = place(d) => c = d
  <2> HIDE DEF ahead
  <2>1. \A c \in entered : place(c) \in Nat
    BY <1>6
  <2> HIDE DEF place
  <2> QED
    BY <1>5, <1>7, <2>1
<1>9. \A k \in 1..n : \E c \in entered : place(c) = k
  <2> DEFINE places == [c \in entered |-> place(c)]
  <2>1. places \in Injection(entered, 1..n)
    <3> HIDE DEF place, n
    <3>1. places \in [entered -> 1..n]
      <4>1. \A c \in entered : place(c) \in 1..n
        BY <1>6 DEF place
      <4> QED
        BY <4>1
    <3> QED
      BY <1>8, <3>1 DEF Injection, IsInjective
  <2>2. IsFiniteSet(1..n) /\ Cardinality(1..n) = n
    <3> HIDE DEF n
    <3> QED
      BY <1>1, FS_Interval
  <2> HIDE DEF places
  <2>3. Cardinality(entered) = Cardinality(1..n)
    BY <2>2
  <2> HIDE DEF n
  <2>4. Cardinality(entered) = Cardinality(1..n) <=> places \in Surjection(entered, 1..n)
    BY <2>1, <2>2, FS_Injection
  <2> QED
    BY <2>3, <2>4 DEF Surjection, places
<1>10. \A k \in 1..n : table[k] \in entered /\ place(table[k]) = k
  <2>1. DOMAIN rank = entered
    OBVIOUS
  <2>2. table = [k \in 1..n |-> CHOOSE c \in entered : place(c) = k]
    BY <2>1 DEF Ordered, before
  <2> HIDE DEF table, place, n
  <2> QED
    BY <1>9, <2>2
<1> HIDE DEF table
<1>11. LET better == {d \in entered : rank[d] < rank[table[i]]}
       IN  IsFiniteSet(better) /\ Cardinality(better) \in 0..(i - 1)
  <2> DEFINE better == {d \in entered : rank[d] < rank[table[i]]}
  <2>1. table[i] \in entered /\ place(table[i]) = i
    BY <1>10
  <2>2. better \subseteq ahead(table[i])
    BY <2>1 DEF before
  <2> HIDE DEF better, ahead
  <2>3. IsFiniteSet(better) /\ Cardinality(better) \in Nat /\ Cardinality(better) <= Cardinality(ahead(table[i]))
    BY <1>6, <2>1, <2>2, FS_Subset, FS_CardinalityType
  <2>4. Cardinality(ahead(table[i])) = i - 1
    <3>1. Cardinality(ahead(table[i])) \in Nat
      BY <1>6, <2>1
    <3> QED
      BY <2>1, <3>1
  <2>5. Cardinality(better) \in 0..(i - 1)
    <3> HIDE DEF n
    <3> QED
      BY <2>3, <2>4
  <2> QED
    BY <2>3, <2>5 DEF better
<1> HIDE DEF place, n
<1>12. table[i] \in entered /\ \A j \in 1..n : table[i] = table[j] => i = j
  <2>1. i \in 1..n
    BY DEF n
  <2> QED
    BY <1>10, <2>1
<1> QED
  BY <1>11, <1>12 DEF table, n

-----------------------------------------------------------------------------
(* Readings: a pool is read in some order of its matches *)

(* The competitors seen so far, each of them once.                         *)
Distinct(entered) ==
  {seen \in Seq(entered) : \A i, j \in 1..Len(seen) : seen[i] = seen[j] => i = j}

(* A match that is read shows nobody twice.                                *)
LEMMA ReadOneMatch ==
  ASSUME NEW entered, NEW seen \in Distinct(entered), NEW pair, IsPairOf(pair, entered)
  PROVE  seen \o Unseen(pair, seen) \in Distinct(entered)
<1> DEFINE new == Unseen(pair, seen)
           all == seen \o new
<1>1. PICK c, d \in entered : c # d /\ pair = <<c, d>>
  BY DEF IsPairOf
<1>2. /\ seen \in Seq(entered) /\ Len(seen) \in Nat /\ DOMAIN seen = 1..Len(seen)
      /\ \A i, j \in 1..Len(seen) : seen[i] = seen[j] => i = j
  BY DEF Distinct
<1> DEFINE old == {seen[j] : j \in DOMAIN seen}
<1>3. /\ c \notin old /\ d \notin old => new = <<c, d>>
      /\ c \notin old /\ d \in old => new = <<c>>
      /\ c \in old /\ d \notin old => new = <<d>>
      /\ c \in old /\ d \in old => new = <<>>
  <2>1. pair[1] = c /\ pair[2] = d
    BY <1>1
  <2> QED
    BY <1>1, <2>1 DEF Unseen
<1> HIDE DEF new
<1>4. /\ new \in Seq(entered) /\ Len(new) \in Nat
      /\ \A i, j \in 1..Len(new) : new[i] = new[j] => i = j
      /\ \A k \in 1..Len(seen), l \in 1..Len(new) : seen[k] # new[l]
  <2>1. \A k \in 1..Len(seen) : seen[k] \in old
    BY <1>2
  <2> HIDE DEF old
  <2>2. CASE c \notin old /\ d \notin old
    <3>1. new = <<c, d>>
      BY <1>3, <2>2
    <3>2. Len(new) = 2 /\ new[1] = c /\ new[2] = d /\ new \in Seq(entered)
      BY <3>1
    <3> QED
      BY <1>1, <2>1, <2>2, <3>2
  <2>3. CASE c \notin old /\ d \in old
    <3>1. new = <<c>>
      BY <1>3, <2>3
    <3>2. Len(new) = 1 /\ new[1] = c /\ new \in Seq(entered)
      BY <3>1
    <3> QED
      BY <2>1, <2>3, <3>2
  <2>4. CASE c \in old /\ d \notin old
    <3>1. new = <<d>>
      BY <1>3, <2>4
    <3>2. Len(new) = 1 /\ new[1] = d /\ new \in Seq(entered)
      BY <3>1
    <3> QED
      BY <2>1, <2>4, <3>2
  <2>5. CASE c \in old /\ d \in old
    <3>1. new = <<>>
      BY <1>3, <2>5
    <3> QED
      BY <3>1
  <2> QED
    BY <2>2, <2>3, <2>4, <2>5
<1>5. /\ all \in Seq(entered) /\ Len(all) = Len(seen) + Len(new)
      /\ \A i \in 1..(Len(seen) + Len(new)) :
           all[i] = IF i <= Len(seen) THEN seen[i] ELSE new[i - Len(seen)]
  BY <1>2, <1>4, ConcatProperties
<1> HIDE DEF all
<1>6. ASSUME NEW i \in 1..Len(all), NEW j \in 1..Len(all), all[i] = all[j]
      PROVE  i = j
  <2> DEFINE first == Len(seen)
             second == Len(new)
  <2>1. /\ first \in Nat /\ second \in Nat /\ i \in 1..(first + second) /\ j \in 1..(first + second)
        /\ all[i] = IF i <= first THEN seen[i] ELSE new[i - first]
        /\ all[j] = IF j <= first THEN seen[j] ELSE new[j - first]
    BY <1>2, <1>4, <1>5
  <2>2. /\ \A k, l \in 1..first : seen[k] = seen[l] => k = l
        /\ \A k, l \in 1..second : new[k] = new[l] => k = l
        /\ \A k \in 1..first, l \in 1..second : seen[k] # new[l]
    BY <1>2, <1>4
  <2> HIDE DEF first, second
  <2>3. CASE i <= first /\ j <= first
    <3>1. i \in 1..first /\ j \in 1..first
      BY <2>1, <2>3
    <3>2. seen[i] = seen[j]
      BY <1>6, <2>1, <2>3
    <3> QED
      BY <2>2, <3>1, <3>2
  <2>4. CASE i <= first /\ ~(j <= first)
    <3>1. i \in 1..first /\ j - first \in 1..second
      BY <2>1, <2>4
    <3> QED
      BY <1>6, <2>1, <2>2, <2>4, <3>1
  <2>5. CASE ~(i <= first) /\ j <= first
    <3>1. j \in 1..first /\ i - first \in 1..second
      BY <2>1, <2>5
    <3> QED
      BY <1>6, <2>1, <2>2, <2>5, <3>1
  <2>6. CASE ~(i <= first) /\ ~(j <= first)
    <3>1. i - first \in 1..second /\ j - first \in 1..second
      BY <2>1, <2>6
    <3>2. i - first = j - first
      BY <1>6, <2>1, <2>2, <2>6, <3>1
    <3> QED
      BY <2>1, <3>2
  <2> QED
    BY <2>3, <2>4, <2>5, <2>6
<1> QED
  BY <1>5, <1>6 DEF Distinct, all, new

(* What the recursive definition of Appearances demands of read.           *)
NextSeen(matches, before) ==
  {seen \o Unseen(row[m].competitor, seen) : seen \in before, m \in matches}

Reads(matches, n, read) ==
  read = [k \in 0..n |-> IF k = 0 THEN {<<>>} ELSE NextSeen(matches, read[k - 1])]

(* There is something a pool can be read as after each match.              *)
LEMMA ReadExists ==
  ASSUME NEW matches, NEW n \in Nat
  PROVE  \E read : Reads(matches, n, read)
<1> DEFINE missing == {k \in Nat : ~\E read : Reads(matches, k, read)}
<1> SUFFICES ASSUME n \in missing PROVE FALSE
  OBVIOUS
<1>1. PICK k \in missing : \A other \in missing : k <= other
  <2>1. missing \subseteq Nat /\ missing # {}
    OBVIOUS
  <2> HIDE DEF missing
  <2> QED
    BY <2>1, LeastNatural
<1>2. CASE k = 0
  <2>1. Reads(matches, 0, [j \in 0..0 |-> {<<>>}])
    BY DEF Reads
  <2> QED
    BY <1>1, <1>2, <2>1
<1>3. CASE k # 0
  <2>1. k \in Nat /\ k - 1 \in Nat /\ k - 1 \notin missing
    BY <1>1, <1>3
  <2>2. PICK read : Reads(matches, k - 1, read)
    BY <2>1
  <2> DEFINE more == [j \in 0..k |-> IF j = k THEN NextSeen(matches, read[k - 1]) ELSE read[j]]
  <2>3. \A j \in 0..(k - 1) : read[j] = IF j = 0 THEN {<<>>} ELSE NextSeen(matches, read[j - 1])
    BY <2>2 DEF Reads
  <2>4. \A j \in 0..k : more[j] = IF j = 0 THEN {<<>>} ELSE NextSeen(matches, more[j - 1])
    BY <1>3, <2>1, <2>3
  <2>5. Reads(matches, k, more)
    <3>1. more = [j \in 0..k |-> more[j]]
      OBVIOUS
    <3> HIDE DEF more
    <3> QED
      BY <2>4, <3>1 DEF Reads
  <2> QED
    BY <1>1, <2>5
<1> QED
  BY <1>2, <1>3

(* Nobody appears twice in what has been read.                             *)
LEMMA ReadIsDistinct ==
  ASSUME NEW matches, NEW n \in Nat, NEW entered, NEW read, Reads(matches, n, read),
         \A m \in matches : IsPairOf(row[m].competitor, entered),
         NEW k \in 0..n
  PROVE  read[k] \subseteq Distinct(entered)
<1> DEFINE wrong == {j \in 0..n : ~(read[j] \subseteq Distinct(entered))}
<1> SUFFICES ASSUME k \in wrong PROVE FALSE
  OBVIOUS
<1>1. PICK j \in wrong : \A other \in wrong : j <= other
  <2>1. wrong \subseteq Nat /\ wrong # {}
    OBVIOUS
  <2> HIDE DEF wrong
  <2> QED
    BY <2>1, LeastNatural
<1>2. read[j] = IF j = 0 THEN {<<>>} ELSE NextSeen(matches, read[j - 1])
  BY <1>1 DEF Reads
<1>3. CASE j = 0
  <2>1. <<>> \in Distinct(entered)
    BY DEF Distinct
  <2> QED
    BY <1>1, <1>2, <1>3, <2>1
<1>4. CASE j # 0
  <2>1. read[j - 1] \subseteq Distinct(entered)
    BY <1>1, <1>4
  <2>2. ASSUME NEW seen \in read[j - 1], NEW m \in matches
        PROVE  seen \o Unseen(row[m].competitor, seen) \in Distinct(entered)
    <3>1. seen \in Distinct(entered) /\ IsPairOf(row[m].competitor, entered)
      BY <2>1
    <3> QED
      BY <3>1, ReadOneMatch
  <2>3. NextSeen(matches, read[j - 1]) \subseteq Distinct(entered)
    <3> DEFINE before == read[j - 1]
    <3> SUFFICES ASSUME NEW after \in NextSeen(matches, before) PROVE after \in Distinct(entered)
      OBVIOUS
    <3>1. PICK seen \in before, m \in matches : after = seen \o Unseen(row[m].competitor, seen)
      BY DEF NextSeen
    <3> QED
      BY <2>2, <3>1
  <2> QED
    BY <1>1, <1>2, <1>4, <2>3
<1> QED
  BY <1>3, <1>4

(* Whatever the order in which the matches of a pool are read, everybody   *)
(* has appeared once when as many as there are entrants have appeared.     *)
LEMMA AppearancesAreOrders ==
  ASSUME NEW group, IsFiniteSet(EntrantsOf(group)),
         \A m \in InPool(row, group) : IsPairOf(row[m].competitor, EntrantsOf(group)),
         NEW appearance \in Appearances(group)
  PROVE  IsOrderOf(appearance, EntrantsOf(group))
<1> DEFINE entered == EntrantsOf(group)
           matches == InPool(row, group)
           n == Cardinality(entered)
           read == CHOOSE read : Reads(matches, n, read)
<1>1. n \in Nat
  BY FS_CardinalityType
<1>2. Appearances(group) = {seen \in read[n] : Len(seen) = n}
  BY DEF Appearances, Reads, NextSeen
<1> HIDE DEF entered, n, matches
<1>3. Reads(matches, n, read)
  BY <1>1, ReadExists
<1> HIDE DEF read
<1>4. n \in 0..n /\ \A m \in matches : IsPairOf(row[m].competitor, entered)
  BY <1>1 DEF matches, entered
<1>5. read[n] \subseteq Distinct(entered)
  BY <1>1, <1>3, <1>4, ReadIsDistinct
<1>6. /\ appearance \in [1..n -> entered]
      /\ \A i, j \in 1..n : appearance[i] = appearance[j] => i = j
  <2>1. appearance \in Distinct(entered) /\ Len(appearance) = n
    BY <1>2, <1>5
  <2> QED
    BY <2>1, LenProperties DEF Distinct
<1>7. \A c \in entered : \E i \in 1..n : appearance[i] = c
  <2>1. appearance \in Injection(1..n, entered)
    BY <1>6 DEF Injection, IsInjective
  <2>2. IsFiniteSet(1..n) /\ Cardinality(1..n) = n /\ IsFiniteSet(entered) /\ Cardinality(entered) = n
    BY <1>1, FS_Interval DEF entered, n
  <2>3. appearance \in Surjection(1..n, entered)
    BY <2>1, <2>2, FS_Injection
  <2> QED
    BY <2>3 DEF Surjection
<1> QED
  BY <1>6, <1>7 DEF IsOrderOf, n, entered

-----------------------------------------------------------------------------
(* Tables are led by the best of the pool *)

(* Two competitors of a pool: nobody has won more often than the first and *)
(* at most one more often than the second.                                 *)
AreBest(r, matches, entered, first, second) ==
  LET wins == WinsIn(r, matches, entered)
      more(c) == {d \in entered : wins[d] > wins[c]}
  IN  /\ first \in entered /\ second \in entered /\ first # second
      /\ more(first) = {}
      /\ Cardinality(more(second)) <= 1

(* The first two of a table are the best of the pool.                      *)
LEMMA TableIsLedByBest ==
  ASSUME NEW r, NEW group, IsFiniteSet(InPool(r, group)), IsFiniteSet(EntrantsOf(group)),
         Cardinality(EntrantsOf(group)) >= 2,
         \A m \in InPool(row, group) : IsPairOf(row[m].competitor, EntrantsOf(group)),
         \A m \in InPool(r, group), side \in Sides : r[m].scores[side].shido \in Nat,
         NEW table \in PoolTables(r, group)
  PROVE  AreBest(r, InPool(r, group), EntrantsOf(group), table[1], table[2])
<1> DEFINE entered == EntrantsOf(group)
           matches == InPool(r, group)
           rank == Ranks(r, matches, entered)
           wins == WinsIn(r, matches, entered)
           better(c) == {d \in entered : rank[d] < rank[c]}
           more(c) == {d \in entered : wins[d] > wins[c]}
<1>1. PICK appearance \in Appearances(group) : table = Ordered(rank, appearance)
  BY DEF PoolTables
<1>2. IsOrderOf(appearance, entered)
  BY AppearancesAreOrders
<1>3. Cardinality(entered) \in Nat /\ 1 \in 1..Cardinality(entered) /\ 2 \in 1..Cardinality(entered)
  BY FS_CardinalityType
<1>4. /\ rank \in [entered -> Nat]
      /\ \A c, d \in entered : wins[d] > wins[c] => rank[d] < rank[c]
  BY MoreWinsRankBetter
<1> HIDE DEF rank, wins, matches
<1>5. ASSUME NEW i \in 1..Cardinality(entered)
      PROVE  /\ table[i] \in entered
             /\ \A j \in 1..Cardinality(entered) : table[i] = table[j] => i = j
             /\ IsFiniteSet(better(table[i])) /\ Cardinality(better(table[i])) \in 0..(i - 1)
  BY <1>1, <1>2, <1>4, OrderedPlaces
<1> HIDE DEF entered
<1> HIDE DEF better
<1>6. table[1] \in entered /\ table[2] \in entered /\ table[1] # table[2]
  <2>1. table[1] = table[2] => 1 = 2
    BY <1>3, <1>5
  <2> QED
    BY <1>3, <1>5, <2>1
<1>7. \A c \in entered : more(c) \subseteq better(c)
  BY <1>4 DEF better
<1>8. more(table[1]) = {}
  <2>1. IsFiniteSet(better(table[1])) /\ Cardinality(better(table[1])) = 0
    <3>1. Cardinality(better(table[1])) \in 0..(1 - 1)
      BY <1>3, <1>5
    <3> QED
      BY <1>3, <1>5, <3>1
  <2>2. better(table[1]) = {}
    BY <2>1, FS_EmptySet
  <2> QED
    BY <1>6, <1>7, <2>2
<1>9. Cardinality(more(table[2])) <= 1
  <2>1. IsFiniteSet(better(table[2])) /\ Cardinality(better(table[2])) \in 0..1
    <3>1. Cardinality(better(table[2])) \in 0..(2 - 1)
      BY <1>3, <1>5
    <3> QED
      BY <1>3, <1>5, <3>1
  <2>2. more(table[2]) \subseteq better(table[2])
    BY <1>6, <1>7
  <2> HIDE DEF more
  <2>3. /\ Cardinality(more(table[2])) <= Cardinality(better(table[2]))
        /\ IsFiniteSet(more(table[2]))
    BY <2>1, <2>2, FS_Subset
  <2>4. Cardinality(more(table[2])) \in Nat
    BY <2>3, FS_CardinalityType
  <2> QED
    BY <2>1, <2>3, <2>4
<1> QED
  BY <1>6, <1>8, <1>9 DEF AreBest, wins, matches, entered

(* Who is best depends on the matches of the pool only.                    *)
LEMMA BestStaysBest ==
  ASSUME NEW r, NEW q, NEW matches, NEW entered, NEW first, NEW second,
         \A m \in matches : r[m] = q[m],
         AreBest(r, matches, entered, first, second)
  PROVE  AreBest(q, matches, entered, first, second)
<1>1. WinsIn(r, matches, entered) = WinsIn(q, matches, entered)
  BY WinsDependOnTable
<1> QED
  BY <1>1 DEF AreBest

-----------------------------------------------------------------------------
(* The inductive invariant of one call at a time *)

(* The competitors of a category, by seed, and its rows.                   *)
Contestants == 0..(stage.count - 1)

FightRow ==
  [status : Statuses, competitor : [Sides -> Contestants \cup {None}],
   scores : {EmptyScores}, winner : Contestants \cup {None},
   winMethod : WinMethods \cup {None}, goldenScore : {FALSE}]

IsDrawnKnockout(k) ==
  /\ DOMAIN k \in {{}, KnockoutMatches}
  /\ \A m \in DOMAIN k : k[m] \in FightRow

(* Pool rows keep the pair they were drawn with.                           *)
StageTypes ==
  /\ DOMAIN row \in {DOMAIN PoolsOf[stage], DOMAIN PoolsOf[stage] \cup KnockoutMatches}
  /\ \A m \in DOMAIN row : row[m] \in FightRow
  /\ \A m \in DOMAIN PoolsOf[stage] : row[m].competitor = PoolsOf[stage][m]
  /\ \A h \in Handlers :
       /\ DOMAIN call[h] = {"match", "winner", "winMethod", "knockout"}
       /\ call[h].winner \in Contestants \cup {None}
       /\ call[h].winMethod \in WinMethods \cup {None}
       /\ IsDrawnKnockout(call[h].knockout)

PoolMatches(group) == DrawnIn(PoolsOf[stage], group)

PoolEntrants(group) == EnteredIn(PoolsOf[stage], group)

(* Who fights in a row.                                                    *)
Fighters(r) == {r.competitor[side] : side \in Sides}

(* With one call at a time: its match is being fought, and the knock-out   *)
(* it is to create is drawn from the tables of the pools as it leaves them.*)
DrawnFromTables(h) ==
  \E a \in [Sides -> PoolEntrants("A")], b \in [Sides -> PoolEntrants("B")] :
    /\ call[h].knockout = KnockoutOf(a, b)
    /\ AreBest(View(h), PoolMatches("A"), PoolEntrants("A"), a[1], a[2])
    /\ AreBest(View(h), PoolMatches("B"), PoolEntrants("B"), b[1], b[2])

OneCall ==
  \A h \in Handlers : InFlight(h) =>
    /\ row[call[h].match].status = "ACTIVE"
    /\ call[h].winner \in Fighters(row[call[h].match])
    /\ pc[h] = "look" \/ Creates(h) => DrawnFromTables(h)
    /\ pc[h] = "commit" /\ ~IsKnockout(call[h].match) /\ ~Creates(h) => ~OthersOver(h)

(* Nobody is missing in a match that is or was fought, and one of the two  *)
(* has won it.                                                             *)
FoughtByTwo ==
  \A m \in DOMAIN row :
    /\ row[m].status # "SCHEDULED" => None \notin Fighters(row[m])
    /\ row[m].status = "COMPLETED" => row[m].winner \in Fighters(row[m])

(* The semi-finals feed the final and the bronze match.                    *)
FedBySemifinals ==
  ~TwoTeam => \A i \in Sides :
    LET semi == row[Semifinal(i)]
    IN  IF semi.status = "COMPLETED"
        THEN /\ row[Final].competitor[i] = semi.winner
             /\ row[Bronze4].competitor[i] = Loser(semi, semi.winner)
        ELSE row[Final].competitor[i] = None /\ row[Bronze4].competitor[i] = None

KnockoutDrawn ==
  /\ \A group \in PoolGroups :
       AreBest(row, PoolMatches(group), PoolEntrants(group), FirstOf(group), SecondOf(group))
  /\ FedBySemifinals

(* The knock-out is there from the commit of the last pool match on, and   *)
(* stays drawn from the tables of the pools.                               *)
SerialIInv ==
  Serial =>
    /\ OneCall
    /\ FoughtByTwo
    /\ StageDone <=> KnockoutExists(row)
    /\ KnockoutExists(row) => KnockoutDrawn

-----------------------------------------------------------------------------
(* Rows and tables of a category *)

(* What is known of the category of a behaviour.                           *)
LEMMA StageCount ==
  ASSUME stage \in Stages
  PROVE  stage.count \in 5..15 /\ PoolsOf[stage] = Pools(stage.count)
BY PoolStageTypes DEF IsPoolsBracketSize, PoolsOf

(* The matches of a knock-out, and which of them are semi-finals.          *)
LEMMA KnockoutIds ==
  /\ Final.phase = "KNOCKOUT_FINAL" /\ Bronze4.phase = "KNOCKOUT_BRONZE"
  /\ \A i \in Sides : Semifinal(i).phase = "KNOCKOUT_SF" /\ Semifinal(i).position = i
  /\ \A m \in KnockoutMatches :
       /\ m \in {Final, Bronze4, Semifinal(1), Semifinal(2)} /\ m.phase # "POOL"
       /\ m.phase = "KNOCKOUT_SF" => ~TwoTeam /\ \E i \in Sides : m = Semifinal(i)
BY DEF Final, Bronze4, Semifinal, Placeholder, MatchId, KnockoutMatches, Sides

(* A pair is one competitor for each side.                                 *)
LEMMA PairType ==
  ASSUME NEW S, NEW c \in S, NEW d \in S
  PROVE  /\ <<c, d>> \in [Sides -> S]
         /\ <<c, d>>[1] = c /\ <<c, d>>[2] = d
<1>1. DOMAIN <<c, d>> = Sides
  BY DEF Sides
<1>2. <<c, d>>[1] = c /\ <<c, d>>[2] = d
  OBVIOUS
<1>3. <<c, d>> = [side \in Sides |-> <<c, d>>[side]]
  BY <1>1
<1> QED
  BY <1>2, <1>3 DEF Sides

(* The rows that are created are rows.                                     *)
LEMMA NewRowType ==
  ASSUME NEW pair \in [Sides -> Contestants \cup {None}]
  PROVE  /\ ScheduledRow(pair) \in FightRow
         /\ pair[1] # None /\ pair[2] # None => FoughtRow(pair) \in FightRow
BY DEF ScheduledRow, FoughtRow, FightRow, Statuses, WinMethods, Sides

(* A pool match is drawn for two different competitors.                    *)
LEMMA DrawnPairType ==
  ASSUME stage \in Stages, NEW m \in DOMAIN PoolsOf[stage]
  PROVE  /\ PoolsOf[stage][m] \in [Sides -> Contestants]
         /\ PoolsOf[stage][m][1] # PoolsOf[stage][m][2]
         /\ None \notin Contestants
<1>1. IsPairOf(PoolsOf[stage][m], Contestants)
  BY StageCount, PoolsAreDrawnInTwo DEF Contestants
<1>2. PICK c, d \in Contestants : c # d /\ PoolsOf[stage][m] = <<c, d>>
  BY <1>1 DEF IsPairOf
<1>3. None \notin Contestants
  BY PoolStageTypes, StageCount DEF Contestants
<1> QED
  BY <1>2, <1>3, PairType

(* The rows a category starts with are well-formed.                        *)
LEMMA InitTypes == Init => StageTypes
<1> SUFFICES ASSUME Init PROVE StageTypes
  OBVIOUS
<1>1. stage \in Stages /\ DOMAIN row = DOMAIN PoolsOf[stage]
  BY DEF Init
<1>2. ASSUME NEW m \in DOMAIN PoolsOf[stage]
      PROVE  row[m] \in FightRow /\ row[m].competitor = PoolsOf[stage][m]
  <2> DEFINE pair == PoolsOf[stage][m]
  <2>1. row[m] = FoughtRow(pair) \/ row[m] = ScheduledRow(pair)
    BY DEF Init
  <2>2. pair \in [Sides -> Contestants \cup {None}] /\ pair[1] # None /\ pair[2] # None
    BY <1>1, DrawnPairType DEF Sides
  <2>3. ScheduledRow(pair) \in FightRow /\ FoughtRow(pair) \in FightRow
    BY <2>2, NewRowType
  <2>4. ScheduledRow(pair).competitor = pair /\ FoughtRow(pair).competitor = pair
    BY DEF ScheduledRow, FoughtRow
  <2> QED
    BY <2>1, <2>3, <2>4
<1>3. \A h \in Handlers : call[h] = NoCall
  BY DEF Init
<1> QED
  BY <1>1, <1>2, <1>3 DEF StageTypes, NoCall, IsDrawnKnockout

(* The rows of the pools are what the lemmas on tables ask for.            *)
LEMMA PoolsInRows ==
  ASSUME stage \in Stages, StageTypes, NEW r, DOMAIN r = DOMAIN row,
         \A m \in DOMAIN row : r[m].competitor = row[m].competitor,
         NEW group \in PoolGroups
  PROVE  /\ InPool(r, group) = PoolMatches(group)
         /\ {r[m].competitor[side] : m \in InPool(r, group), side \in Sides} = PoolEntrants(group)
<1>1. \A m \in DOMAIN PoolsOf[stage] : m.phase = "POOL"
  BY StageCount, PoolsAreDrawnInTwo
<1>2. \A m \in DOMAIN row : m.phase = "POOL" <=> m \in DOMAIN PoolsOf[stage]
  BY <1>1, KnockoutIds DEF StageTypes
<1>3. InPool(r, group) = PoolMatches(group)
  BY <1>2 DEF InPool, PoolMatches, DrawnIn, StageTypes
<1>4. \A m \in PoolMatches(group) : r[m].competitor = PoolsOf[stage][m]
  BY DEF StageTypes, PoolMatches, DrawnIn
<1> QED
  BY <1>3, <1>4 DEF PoolEntrants, EnteredIn, PoolMatches, Sides

(* The tables of such rows are led by the best of the pools.               *)
LEMMA TablesOfPools ==
  ASSUME stage \in Stages, StageTypes, NEW r, DOMAIN r = DOMAIN row,
         \A m \in DOMAIN row : r[m].competitor = row[m].competitor /\ r[m].scores = EmptyScores,
         NEW group \in PoolGroups, NEW table \in PoolTables(r, group)
  PROVE  AreBest(r, PoolMatches(group), PoolEntrants(group), table[1], table[2])
<1>1. InPool(r, group) = PoolMatches(group) /\ InPool(row, group) = PoolMatches(group)
  BY PoolsInRows
<1>2. EntrantsOf(group) = PoolEntrants(group)
  BY PoolsInRows DEF EntrantsOf
<1>3. /\ IsFiniteSet(PoolMatches(group)) /\ IsFiniteSet(PoolEntrants(group))
      /\ Cardinality(PoolEntrants(group)) >= 2
  BY StageCount, EntrantsOfPools DEF PoolMatches, PoolEntrants
<1>4. \A m \in PoolMatches(group) : m \in DOMAIN row /\ m \in DOMAIN PoolsOf[stage] /\ m.group = group
  BY DEF StageTypes, PoolMatches, DrawnIn
<1>5. \A m \in PoolMatches(group) : IsPairOf(row[m].competitor, PoolEntrants(group))
  BY <1>4, StageCount, PoolsAreDrawnInTwo DEF StageTypes, PoolEntrants
<1>6. \A m \in PoolMatches(group), side \in Sides : r[m].scores[side].shido \in Nat
  <2>1. \A side \in Sides : EmptyScores[side].shido \in Nat
    BY DEF EmptyScores, EmptyScore
  <2> QED
    BY <1>4, <2>1
<1> QED
  BY <1>1, <1>2, <1>3, <1>5, <1>6, TableIsLedByBest

(* Who is drawn in a pool competes in the category.                        *)
LEMMA EntrantsAreContestants ==
  ASSUME stage \in Stages, NEW group \in PoolGroups
  PROVE  PoolEntrants(group) \subseteq Contestants /\ None \notin PoolEntrants(group)
BY StageCount, PoolsAreDrawnInTwo, PoolStageTypes DEF PoolEntrants, Contestants

(* A knock-out of competitors is well-formed.                              *)
LEMMA KnockoutType ==
  ASSUME NEW a, NEW b, a[1] \in Contestants, a[2] \in Contestants,
         b[1] \in Contestants, b[2] \in Contestants
  PROVE  IsDrawnKnockout(KnockoutOf(a, b))
<1>1. ASSUME NEW m \in KnockoutMatches
      PROVE  PairOf(m, a, b) \in [Sides -> Contestants \cup {None}]
  <2>1. <<a[1], b[2]>> \in [Sides -> Contestants \cup {None}]
    BY PairType
  <2>2. <<b[1], a[2]>> \in [Sides -> Contestants \cup {None}]
    BY PairType
  <2>3. <<a[1], b[1]>> \in [Sides -> Contestants \cup {None}]
    BY PairType
  <2>4. <<a[2], b[2]>> \in [Sides -> Contestants \cup {None}]
    BY PairType
  <2>5. <<None, None>> \in [Sides -> Contestants \cup {None}]
    BY PairType
  <2>6. PairOf(m, a, b) \in {<<a[1], b[2]>>, <<b[1], a[2]>>, <<a[1], b[1]>>, <<a[2], b[2]>>, <<None, None>>}
    BY KnockoutIds DEF PairOf
  <2> QED
    BY <2>1, <2>2, <2>3, <2>4, <2>5, <2>6
<1> QED
  BY <1>1, NewRowType DEF IsDrawnKnockout, KnockoutOf

(* A semi-final fills its side of the final and of the bronze match.       *)
LEMMA AdvanceRows ==
  ASSUME NEW r, \A n \in DOMAIN r : r[n] \in FightRow, NEW m \in DOMAIN r
  PROVE  /\ DOMAIN Advance(r, m) = DOMAIN r
         /\ \A n \in DOMAIN r : Advance(r, m)[n] \in FightRow
         /\ \A n \in DOMAIN r \ {Final, Bronze4} : Advance(r, m)[n] = r[n]
         /\ m.phase # "KNOCKOUT_SF" => Advance(r, m) = r
         /\ \A i \in Sides, n \in DOMAIN r :
              m = Semifinal(i) /\ n \in {Final, Bronze4} =>
                LET new == Advance(r, m)[n]
                    mover == IF n = Final THEN r[m].winner ELSE Loser(r[m], r[m].winner)
                IN  /\ new.status = r[n].status /\ new.winner = r[n].winner
                    /\ mover # None => new.competitor[i] = mover
                    /\ \A other \in Sides \ {i} : new.competitor[other] = r[n].competitor[other]
<1> DEFINE winner == r[m].winner
           loser == Loser(r[m], winner)
           side == IF m.position = 1 THEN 1 ELSE 2
           kept == IF loser = None THEN r[Bronze4].competitor[side] ELSE loser
           both == [r EXCEPT ![Final].competitor[side] = winner, ![Bronze4].competitor[side] = kept]
<1>1. winner \in Contestants \cup {None} /\ loser \in Contestants \cup {None} /\ side \in Sides
  BY DEF FightRow, Loser, Sides
<1>2. Final # Bronze4
  BY KnockoutIds
<1>3. Advance(r, m) = IF m.phase # "KNOCKOUT_SF" THEN r ELSE both
  BY <1>2 DEF Advance
<1> HIDE DEF winner, loser, side
<1>4. ASSUME NEW n \in DOMAIN r
      PROVE  /\ both[n] \in FightRow
             /\ n \notin {Final, Bronze4} => both[n] = r[n]
             /\ n = Final => both[n] = [r[n] EXCEPT !.competitor = [r[n].competitor EXCEPT ![side] = winner]]
             /\ n = Bronze4 => both[n] = [r[n] EXCEPT !.competitor = [r[n].competitor EXCEPT ![side] = kept]]
  <2>1. /\ n \notin {Final, Bronze4} => both[n] = r[n]
        /\ n = Final => both[n] = [r[n] EXCEPT !.competitor = [r[n].competitor EXCEPT ![side] = winner]]
        /\ n = Bronze4 => both[n] = [r[n] EXCEPT !.competitor = [r[n].competitor EXCEPT ![side] = kept]]
    BY <1>2
  <2>2. n = Bronze4 => kept \in Contestants \cup {None}
    BY <1>1 DEF FightRow
  <2>3. r[n] \in FightRow
    OBVIOUS
  <2> HIDE DEF both, kept
  <2>4. \A c \in Contestants \cup {None} :
          [r[n] EXCEPT !.competitor = [r[n].competitor EXCEPT ![side] = c]] \in FightRow
    BY <2>3 DEF FightRow
  <2> QED
    BY <1>1, <2>1, <2>2, <2>3, <2>4
<1>5. DOMAIN both = DOMAIN r
  OBVIOUS
<1> HIDE DEF both
<1>6. ASSUME NEW i \in Sides, NEW n \in DOMAIN r, m = Semifinal(i), n \in {Final, Bronze4}
      PROVE  LET new == Advance(r, m)[n]
                 mover == IF n = Final THEN winner ELSE loser
             IN  /\ new.status = r[n].status /\ new.winner = r[n].winner
                 /\ mover # None => new.competitor[i] = mover
                 /\ \A other \in Sides \ {i} : new.competitor[other] = r[n].competitor[other]
  <2>1. Advance(r, m) = both /\ side = i
    BY <1>3, <1>6, KnockoutIds DEF side, Sides
  <2>2. r[n] \in FightRow
    OBVIOUS
  <2>3. /\ DOMAIN r[n].competitor = Sides
        /\ DOMAIN r[n] = {"status", "competitor", "scores", "winner", "winMethod", "goldenScore"}
    BY <2>2 DEF FightRow
  <2> DEFINE with(c) == [r[n] EXCEPT !.competitor = [r[n].competitor EXCEPT ![i] = c]]
  <2>6. ASSUME NEW c
        PROVE  /\ with(c).status = r[n].status /\ with(c).winner = r[n].winner
               /\ with(c).competitor[i] = c
               /\ \A other \in Sides \ {i} : with(c).competitor[other] = r[n].competitor[other]
    BY <2>3
  <2>4. CASE n = Final
    <3>1. Advance(r, m)[n] = with(winner)
      BY <1>4, <2>1, <2>4
    <3> HIDE DEF with
    <3> QED
      BY <2>4, <2>6, <3>1
  <2>5. CASE n = Bronze4
    <3>1. Advance(r, m)[n] = with(kept)
      BY <1>4, <2>1, <2>5
    <3>2. n # Final /\ (loser # None => kept = loser)
      BY <1>2, <2>5
    <3> HIDE DEF with, kept
    <3> QED
      BY <2>5, <2>6, <3>1, <3>2
  <2> QED
    BY <1>6, <2>4, <2>5
<1> QED
  BY <1>3, <1>4, <1>5, <1>6 DEF winner, loser

(* A call sees its own match completed and the others as committed.        *)
LEMMA ViewRows ==
  ASSUME KnockoutIInv, StageTypes, NEW h \in Handlers, InFlight(h)
  PROVE  LET m == call[h].match
         IN  /\ m \in DOMAIN row /\ DOMAIN View(h) = DOMAIN row
             /\ \A n \in DOMAIN row :
                  View(h)[n] \in FightRow /\ View(h)[n].competitor = row[n].competitor
             /\ \A n \in DOMAIN row \ {m} : View(h)[n] = row[n]
             /\ View(h)[m].status = "COMPLETED" /\ View(h)[m].winner = call[h].winner
<1> DEFINE m == call[h].match
<1>1. m \in DOMAIN row
  BY DEF KnockoutIInv, Calls
<1>2. /\ row[m] \in FightRow /\ call[h].winner \in Contestants \cup {None}
      /\ call[h].winMethod \in WinMethods \cup {None}
  BY <1>1 DEF StageTypes
<1>3. /\ DOMAIN View(h) = DOMAIN row
      /\ \A n \in DOMAIN row \ {m} : View(h)[n] = row[n]
      /\ View(h)[m] = [row[m] EXCEPT !.status = "COMPLETED", !.winner = call[h].winner,
                                     !.winMethod = call[h].winMethod]
  BY <1>1 DEF View
<1> HIDE DEF m
<1>4. /\ View(h)[m] \in FightRow /\ View(h)[m].competitor = row[m].competitor
      /\ View(h)[m].status = "COMPLETED" /\ View(h)[m].winner = call[h].winner
  BY <1>2, <1>3 DEF FightRow, Statuses
<1>5. \A n \in DOMAIN row : View(h)[n] \in FightRow /\ View(h)[n].competitor = row[n].competitor
  BY <1>3, <1>4 DEF StageTypes
<1> QED
  BY <1>1, <1>3, <1>4, <1>5 DEF m

(* The tables a call reads are led by the best of the pools.               *)
LEMMA TablesOfView ==
  ASSUME KnockoutIInv, StageTypes, NEW h \in Handlers, InFlight(h),
         NEW group \in PoolGroups, NEW table \in PoolTables(View(h), group)
  PROVE  AreBest(View(h), PoolMatches(group), PoolEntrants(group), table[1], table[2])
<1>1. \A n \in DOMAIN row : View(h)[n] \in FightRow
  BY ViewRows
<1>2. \A n \in DOMAIN row : View(h)[n].scores = EmptyScores
  BY <1>1 DEF FightRow
<1>3. stage \in Stages
  BY DEF KnockoutIInv
<1> QED
  BY <1>2, <1>3, ViewRows, TablesOfPools

(* A category keeps its size, its pools and who is drawn in them.          *)
LEMMA SameStage ==
  ASSUME stage' = stage
  PROVE  /\ Contestants' = Contestants /\ FightRow' = FightRow
         /\ KnockoutMatches' = KnockoutMatches /\ (TwoTeam' <=> TwoTeam)
         /\ \A group : PoolMatches(group)' = PoolMatches(group) /\ PoolEntrants(group)' = PoolEntrants(group)
         /\ \A a, b : KnockoutOf(a, b)' = KnockoutOf(a, b)
BY DEF Contestants, FightRow, KnockoutMatches, TwoTeam, PoolMatches, PoolEntrants, KnockoutOf, PairOf

(* The rows a commit leaves: those it creates, and the others as the call  *)
(* sees them with the winner of a semi-final passed on.                    *)
LEMMA RowsAfterCommit ==
  ASSUME KnockoutIInv, StageTypes, NEW h \in Handlers, Commit(h)
  PROVE  LET k == call[h].knockout
             after == Advance(View(h), call[h].match)
         IN  /\ DOMAIN row' = DOMAIN k \cup DOMAIN row /\ DOMAIN after = DOMAIN row
             /\ \A n \in DOMAIN k : row'[n] = k[n]
             /\ \A n \in DOMAIN row \ DOMAIN k : row'[n] = after[n] /\ after[n] \in FightRow
             /\ \A n \in DOMAIN PoolsOf[stage] : row'[n] = View(h)[n]
<1> DEFINE k == call[h].knockout
           m == call[h].match
           after == Advance(View(h), m)
<1>1. InFlight(h) /\ stage \in Stages
  BY DEF Commit, InFlight, KnockoutIInv
<1>2. m \in DOMAIN row /\ DOMAIN View(h) = DOMAIN row /\ \A n \in DOMAIN View(h) : View(h)[n] \in FightRow
  BY <1>1, ViewRows
<1>3. /\ DOMAIN after = DOMAIN row
      /\ \A n \in DOMAIN row : after[n] \in FightRow
      /\ \A n \in DOMAIN row \ {Final, Bronze4} : after[n] = View(h)[n]
  <2> HIDE DEF m, after
  <2> QED
    BY <1>2, AdvanceRows DEF after
<1>4. row' = [n \in DOMAIN k \cup DOMAIN row |-> IF n \in DOMAIN k THEN k[n] ELSE after[n]]
  BY DEF Commit
<1>5. ASSUME NEW n \in DOMAIN PoolsOf[stage]
      PROVE  n \in DOMAIN row /\ n \notin DOMAIN k /\ n \notin {Final, Bronze4}
  <2>1. n.phase = "POOL"
    BY <1>1, StageCount, PoolsAreDrawnInTwo
  <2>2. DOMAIN k \subseteq KnockoutMatches
    BY DEF StageTypes, IsDrawnKnockout
  <2> QED
    BY <2>1, <2>2, KnockoutIds DEF StageTypes
<1> HIDE DEF k, m, after
<1> QED
  BY <1>3, <1>4, <1>5 DEF k, m, after

(* Every step keeps the rows and the calls well-formed.                    *)
LEMMA StepTypes ==
  ASSUME KnockoutIInv, StageTypes, [Next]_vars
  PROVE  StageTypes'
<1> DEFINE CallTyped(c) ==
             /\ DOMAIN c = {"match", "winner", "winMethod", "knockout"}
             /\ c.winner \in Contestants \cup {None}
             /\ c.winMethod \in WinMethods \cup {None}
             /\ IsDrawnKnockout(c.knockout)
           RowsTyped(r) ==
             /\ DOMAIN r \in {DOMAIN PoolsOf[stage], DOMAIN PoolsOf[stage] \cup KnockoutMatches}
             /\ \A m \in DOMAIN r : r[m] \in FightRow
             /\ \A m \in DOMAIN PoolsOf[stage] : r[m].competitor = PoolsOf[stage][m]
<1>1. stage' = stage /\ stage \in Stages
  BY DEF Next, Request, Proceed, Rollback, StartMatch, EndMatch, WriteResult, CountPoolMatches,
         LookForKnockout, Commit, vars, KnockoutIInv
<1>2. RowsTyped(row) /\ \A h \in Handlers : CallTyped(call[h])
  BY DEF StageTypes
<1>3. ASSUME RowsTyped(row'), \A h \in Handlers : CallTyped(call'[h])
      PROVE  StageTypes'
  <2>1. /\ Contestants' = Contestants /\ FightRow' = FightRow /\ KnockoutMatches' = KnockoutMatches
    BY <1>1, SameStage
  <2> QED
    BY <1>1, <1>3, <2>1 DEF StageTypes, IsDrawnKnockout
<1> HIDE DEF RowsTyped, CallTyped
<1>4. CallTyped(NoCall)
  BY DEF CallTyped, NoCall, IsDrawnKnockout
<1>5. ASSUME NEW h \in stage.handlers, Request(h) PROVE StageTypes'
  <2>1. PICK m \in DOMAIN row :
          \/ StartMatch(m)
          \/ \E side \in Sides, winMethod \in stage.winWays : EndMatch(h, m, row[m].competitor[side], winMethod)
    BY <1>5 DEF Request
  <2>2. row[m] \in FightRow
    BY <1>2 DEF RowsTyped
  <2>3. CASE StartMatch(m)
    <3>1. /\ call' = call /\ DOMAIN row' = DOMAIN row /\ \A n \in DOMAIN row \ {m} : row'[n] = row[n]
          /\ row'[m] \in FightRow /\ row'[m].competitor = row[m].competitor
      BY <2>2, <2>3 DEF StartMatch, FightRow, Statuses
    <3>2. RowsTyped(row')
      <4>1. \A n \in DOMAIN row' : row'[n] \in FightRow /\ row'[n].competitor = row[n].competitor
        BY <1>2, <3>1 DEF RowsTyped
      <4> QED
        BY <1>2, <3>1, <4>1 DEF RowsTyped
    <3> QED
      BY <1>2, <1>3, <3>1, <3>2
  <2>4. CASE \E side \in Sides, winMethod \in stage.winWays : EndMatch(h, m, row[m].competitor[side], winMethod)
    <3>1. PICK side \in Sides, winMethod \in stage.winWays : EndMatch(h, m, row[m].competitor[side], winMethod)
      BY <2>4
    <3> DEFINE c == [NoCall EXCEPT !.match = m, !.winner = row[m].competitor[side], !.winMethod = winMethod]
    <3>2. row[m].competitor[side] \in Contestants \cup {None} /\ winMethod \in WinMethods
      BY <1>1, <2>2, PoolStageTypes DEF FightRow
    <3>3. CallTyped(c)
      BY <3>2 DEF CallTyped, NoCall, IsDrawnKnockout
    <3>4. row' = row /\ \A g \in Handlers : call'[g] \in {call[g], c}
      BY <3>1 DEF EndMatch, KnockoutIInv, Calls
    <3> HIDE DEF c
    <3> QED
      BY <1>2, <1>3, <3>3, <3>4
  <2> QED
    BY <2>1, <2>3, <2>4
<1>6. ASSUME NEW h \in stage.handlers, WriteResult(h) PROVE StageTypes'
  BY <1>2, <1>3, <1>6 DEF WriteResult
<1>7. ASSUME NEW h \in stage.handlers, NEW k, IsDrawnKnockout(k), row' = row,
             call' = [call EXCEPT ![h].knockout = k]
      PROVE  StageTypes'
  <2>1. ASSUME NEW g \in Handlers PROVE CallTyped(call'[g])
    <3>1. CallTyped(call[g]) /\ DOMAIN call = Handlers
      BY <1>2 DEF KnockoutIInv, Calls
    <3>2. call'[g] = IF g = h THEN [call[g] EXCEPT !.knockout = k] ELSE call[g]
      BY <1>7, <3>1
    <3> QED
      BY <1>7, <3>1, <3>2 DEF CallTyped
  <2> QED
    BY <1>2, <1>3, <1>7, <2>1
<1>8. ASSUME NEW h \in stage.handlers, CountPoolMatches(h) PROVE StageTypes'
  <2>1. CASE StageIsOver(View(h))
    <3>1. PICK a \in PoolTables(View(h), "A"), b \in PoolTables(View(h), "B") :
            call' = [call EXCEPT ![h].knockout = KnockoutOf(a, b)]
      BY <1>8, <2>1 DEF CountPoolMatches
    <3>2. h \in Handlers /\ InFlight(h) /\ row' = row
      BY <1>1, <1>8, HandlersOfStage DEF CountPoolMatches, InFlight
    <3>3. /\ AreBest(View(h), PoolMatches("A"), PoolEntrants("A"), a[1], a[2])
          /\ AreBest(View(h), PoolMatches("B"), PoolEntrants("B"), b[1], b[2])
      BY <3>2, TablesOfView DEF PoolGroups
    <3>4. IsDrawnKnockout(KnockoutOf(a, b))
      <4>1. /\ a[1] \in PoolEntrants("A") /\ a[2] \in PoolEntrants("A")
            /\ b[1] \in PoolEntrants("B") /\ b[2] \in PoolEntrants("B")
        BY <3>3 DEF AreBest
      <4>2. PoolEntrants("A") \subseteq Contestants /\ PoolEntrants("B") \subseteq Contestants
        BY <1>1, EntrantsAreContestants DEF PoolGroups
      <4> QED
        BY <4>1, <4>2, KnockoutType
    <3> QED
      BY <1>7, <3>1, <3>2, <3>4
  <2>2. CASE ~StageIsOver(View(h))
    BY <1>2, <1>3, <1>8, <2>2 DEF CountPoolMatches
  <2> QED
    BY <2>1, <2>2
<1>9. ASSUME NEW h \in stage.handlers, LookForKnockout(h) PROVE StageTypes'
  <2> DEFINE k == IF KnockoutExists(row) THEN <<>> ELSE call[h].knockout
  <2>1. h \in Handlers /\ DOMAIN call = Handlers
    BY <1>1, HandlersOfStage DEF KnockoutIInv, Calls
  <2>2. row' = row /\ call' = [call EXCEPT ![h].knockout = k]
    BY <1>9, <2>1 DEF LookForKnockout
  <2>3. IsDrawnKnockout(k)
    BY <1>2, <2>1 DEF CallTyped, IsDrawnKnockout
  <2> HIDE DEF k
  <2> QED
    BY <1>7, <2>2, <2>3
<1>10. ASSUME NEW h \in stage.handlers, Commit(h) PROVE StageTypes'
  <2> DEFINE k == call[h].knockout
             after == Advance(View(h), call[h].match)
  <2>1. h \in Handlers /\ InFlight(h) /\ DOMAIN call = Handlers
    BY <1>1, <1>10, HandlersOfStage DEF Commit, InFlight, KnockoutIInv, Calls
  <2>2. /\ DOMAIN row' = DOMAIN k \cup DOMAIN row /\ DOMAIN after = DOMAIN row
        /\ \A n \in DOMAIN k : row'[n] = k[n]
        /\ \A n \in DOMAIN row \ DOMAIN k : row'[n] = after[n] /\ after[n] \in FightRow
        /\ \A n \in DOMAIN PoolsOf[stage] : row'[n] = View(h)[n]
    BY <1>10, <2>1, RowsAfterCommit
  <2>3. IsDrawnKnockout(k)
    BY <1>2, <2>1 DEF CallTyped
  <2> HIDE DEF k, after
  <2>4. RowsTyped(row')
    <3>1. DOMAIN row' \in {DOMAIN PoolsOf[stage], DOMAIN PoolsOf[stage] \cup KnockoutMatches}
      <4>1. DOMAIN k = {} \/ DOMAIN k = KnockoutMatches
        BY <2>3 DEF IsDrawnKnockout
      <4>2. DOMAIN row = DOMAIN PoolsOf[stage] \/ DOMAIN row = DOMAIN PoolsOf[stage] \cup KnockoutMatches
        BY <1>2 DEF RowsTyped
      <4> QED
        BY <2>2, <4>1, <4>2
    <3>2. \A n \in DOMAIN row' : row'[n] \in FightRow
      BY <2>2, <2>3 DEF IsDrawnKnockout
    <3>3. \A n \in DOMAIN PoolsOf[stage] : row'[n].competitor = PoolsOf[stage][n]
      <4>1. \A n \in DOMAIN row : View(h)[n].competitor = row[n].competitor
        BY <2>1, ViewRows
      <4> QED
        BY <1>2, <2>2, <4>1 DEF RowsTyped
    <3> QED
      BY <3>1, <3>2, <3>3 DEF RowsTyped
  <2>5. \A g \in Handlers : call'[g] \in {call[g], NoCall}
    BY <1>10, <2>1 DEF Commit
  <2> QED
    BY <1>2, <1>3, <1>4, <2>4, <2>5
<1>11. ASSUME NEW h \in stage.handlers, Rollback(h) PROVE StageTypes'
  <2>1. row' = row /\ \A g \in Handlers : call'[g] \in {call[g], NoCall}
    BY <1>11 DEF Rollback, KnockoutIInv, Calls
  <2> QED
    BY <1>2, <1>3, <1>4, <2>1
<1>12. CASE UNCHANGED vars
  BY <1>2, <1>3, <1>12 DEF vars
<1> QED
  BY <1>5, <1>6, <1>8, <1>9, <1>10, <1>11, <1>12 DEF Next, Proceed

-----------------------------------------------------------------------------
(* Every step of the only call keeps the invariant *)

(* Some match is still to be fought in every stage: one of the last round. *)
LEMMA NotOverAtFirst == Init => ~StageDone
<1> SUFFICES ASSUME Init PROVE ~StageDone
  OBVIOUS
<1> DEFINE draw == PoolsOf[stage]
           n == stage.count
           left == {n - m.round : m \in DrawnIn(draw, "A")}
<1>1. stage \in Stages /\ draw = Pools(n) /\ n \in 5..15 /\ DOMAIN row = DOMAIN draw
  BY StageCount DEF Init
<1>2. /\ DrawnIn(draw, "A") # {}
      /\ \A m \in DOMAIN draw : m.phase = "POOL" /\ m.round \in 1..n
  BY <1>1, PoolsAreDrawnInTwo DEF PoolGroups
<1>3. PICK m \in DrawnIn(draw, "A") : \A other \in DrawnIn(draw, "A") : other.round <= m.round
  <2>1. \A m \in DrawnIn(draw, "A") : m.round \in 1..n
    BY <1>2 DEF DrawnIn
  <2> HIDE DEF draw
  <2>2. left \subseteq Nat /\ left # {}
    BY <1>1, <1>2, <2>1
  <2>3. PICK least \in left : \A other \in left : least <= other
    <3> HIDE DEF left
    <3> QED
      BY <2>2, LeastNatural
  <2>4. PICK m \in DrawnIn(draw, "A") : least = n - m.round
    OBVIOUS
  <2>5. ASSUME NEW other \in DrawnIn(draw, "A") PROVE other.round <= m.round
    <3>1. n - other.round \in left
      OBVIOUS
    <3>2. n - m.round <= n - other.round
      BY <2>3, <2>4, <3>1
    <3> QED
      BY <1>1, <2>1, <3>2
  <2> QED
    BY <2>5
<1>4. m \in DOMAIN draw /\ InLastRound(DOMAIN draw, m)
  BY <1>3 DEF InLastRound, DrawnIn
<1>5. row[m] = ScheduledRow(draw[m])
  BY <1>4 DEF Init
<1>6. row[m].status = "SCHEDULED" /\ m \in DOMAIN row /\ m.phase = "POOL"
  BY <1>1, <1>2, <1>4, <1>5 DEF ScheduledRow
<1> QED
  BY <1>6 DEF StageDone

(* The invariant of one call at a time holds at first.                     *)
LEMMA InitSerial == Init => SerialIInv
<1> SUFFICES ASSUME Init PROVE SerialIInv
  OBVIOUS
<1>1. stage \in Stages /\ DOMAIN row = DOMAIN PoolsOf[stage] /\ \A h \in Handlers : ~InFlight(h)
  BY DEF Init, InFlight
<1>2. ~KnockoutExists(row)
  BY <1>1, StageCount, PoolsAreDrawnInTwo DEF KnockoutExists, IsKnockout
<1>3. FoughtByTwo
  <2> SUFFICES ASSUME NEW m \in DOMAIN row
               PROVE  /\ row[m].status # "SCHEDULED" => None \notin Fighters(row[m])
                      /\ row[m].status = "COMPLETED" => row[m].winner \in Fighters(row[m])
    BY DEF FoughtByTwo
  <2> DEFINE pair == PoolsOf[stage][m]
  <2>1. pair \in [Sides -> Contestants] /\ None \notin Contestants
    BY <1>1, DrawnPairType
  <2>2. row[m] = FoughtRow(pair) \/ row[m] = ScheduledRow(pair)
    BY DEF Init
  <2> HIDE DEF pair
  <2>3. pair[1] \in Contestants /\ pair[2] \in Contestants
    BY <2>1 DEF Sides
  <2>4. CASE row[m] = ScheduledRow(pair)
    BY <2>4 DEF ScheduledRow
  <2>5. CASE row[m] = FoughtRow(pair)
    <3>1. row[m].competitor = pair /\ row[m].winner \in {pair[1], pair[2]}
      BY <2>5 DEF FoughtRow, ScheduledRow
    <3>2. Fighters(row[m]) = {pair[1], pair[2]}
      BY <3>1 DEF Fighters, Sides
    <3> QED
      BY <2>1, <2>3, <3>1, <3>2
  <2> QED
    BY <2>2, <2>4, <2>5
<1> QED
  BY <1>1, <1>2, <1>3, NotOverAtFirst DEF SerialIInv, OneCall

(* With one call at a time no other is in flight.                          *)
LEMMA OnlyOneCall ==
  ASSUME KnockoutIInv, Serial, NEW h \in stage.handlers
  PROVE  h \in Handlers /\ \A g \in Handlers : InFlight(g) => g = h
<1>1. IsFiniteSet(stage.handlers) /\ stage.handlers \subseteq Handlers
  BY PoolStageTypes, FS_Subset DEF KnockoutIInv
<1>2. PICK only : stage.handlers = {only}
  BY <1>1, FS_Singleton DEF Serial
<1> QED
  BY <1>1, <1>2 DEF KnockoutIInv, Calls

(* What a step of the only call does to the others.                        *)
LEMMA NoOtherCall ==
  ASSUME KnockoutIInv, Serial, NEW h \in stage.handlers, NEW where,
         pc' = [pc EXCEPT ![h] = where]
  PROVE  \A g \in Handlers : InFlight(g)' => g = h
BY OnlyOneCall DEF InFlight, KnockoutIInv, Calls

(* The knock-out stays drawn from the tables: pools and pairs are kept.    *)
LEMMA DrawnStays ==
  ASSUME StageTypes, KnockoutDrawn, stage' = stage,
         \A m \in DOMAIN PoolsOf[stage] : row'[m] = row[m],
         \A m \in KnockoutMatches :
           TwoTeam \/ m.phase = "KNOCKOUT_SF" => row'[m].competitor = row[m].competitor,
         FedBySemifinals'
  PROVE  KnockoutDrawn'
<1> SUFFICES ASSUME NEW group \in PoolGroups
             PROVE  AreBest(row', PoolMatches(group), PoolEntrants(group), FirstOf(group)', SecondOf(group)')
  BY SameStage DEF KnockoutDrawn
<1>1. AreBest(row', PoolMatches(group), PoolEntrants(group), FirstOf(group), SecondOf(group))
  <2>1. \A m \in PoolMatches(group) : row[m] = row'[m]
    BY DEF PoolMatches, DrawnIn
  <2>2. AreBest(row, PoolMatches(group), PoolEntrants(group), FirstOf(group), SecondOf(group))
    BY DEF KnockoutDrawn
  <2> QED
    BY <2>1, <2>2, BestStaysBest
<1>2. FirstOf(group)' = FirstOf(group) /\ SecondOf(group)' = SecondOf(group)
  <2>1. CASE TwoTeam
    <3>1. TwoTeam' /\ Final \in KnockoutMatches /\ Bronze4 \in KnockoutMatches
      BY <2>1, SameStage DEF KnockoutMatches
    <3> QED
      BY <2>1, <3>1 DEF FirstOf, SecondOf
  <2>2. CASE ~TwoTeam
    <3>1. ~TwoTeam' /\ Semifinal(1) \in KnockoutMatches /\ Semifinal(2) \in KnockoutMatches
      BY <2>2, SameStage DEF KnockoutMatches
    <3>2. /\ row'[Semifinal(1)].competitor = row[Semifinal(1)].competitor
          /\ row'[Semifinal(2)].competitor = row[Semifinal(2)].competitor
      BY <3>1, KnockoutIds DEF Sides
    <3> QED
      BY <2>2, <3>1, <3>2 DEF FirstOf, SecondOf
  <2> QED
    BY <2>1, <2>2
<1> QED
  BY <1>1, <1>2

(* A match that is started has two competitors.                            *)
LEMMA StartMatchSerial ==
  ASSUME KnockoutIInv, StageTypes, SerialIInv, Serial, NEW h \in stage.handlers,
         NEW m \in DOMAIN row, pc[h] = "idle", ReadyRow(row[m]), StartMatch(m)
  PROVE  SerialIInv'
<1>1. /\ stage' = stage /\ pc' = pc /\ call' = call /\ DOMAIN row' = DOMAIN row
      /\ row[m].status = "SCHEDULED" /\ row'[m] = [row[m] EXCEPT !.status = "ACTIVE"]
      /\ \A n \in DOMAIN row \ {m} : row'[n] = row[n]
  BY DEF StartMatch
<1>2. \A n \in DOMAIN row :
        /\ row'[n].competitor = row[n].competitor /\ row'[n].winner = row[n].winner
        /\ row'[n].status = IF n = m THEN "ACTIVE" ELSE row[n].status
  <2>1. row[m] \in FightRow
    BY DEF StageTypes
  <2> QED
    BY <1>1, <2>1 DEF FightRow
<1>3. OneCall'
  BY <1>1, OnlyOneCall DEF OneCall, InFlight
<1>4. FoughtByTwo'
  <2>1. None \notin Fighters(row[m])
    BY DEF ReadyRow, Fighters
  <2> QED
    BY <1>1, <1>2, <2>1 DEF SerialIInv, FoughtByTwo, Fighters
<1>5. (StageDone' <=> StageDone) /\ (KnockoutExists(row)' <=> KnockoutExists(row))
  BY <1>1, <1>2 DEF StageDone, KnockoutExists
<1>6. KnockoutExists(row) => KnockoutDrawn'
  <2> SUFFICES ASSUME KnockoutExists(row) PROVE KnockoutDrawn'
    OBVIOUS
  <2>1. StageDone /\ KnockoutDrawn
    BY DEF SerialIInv
  <2>2. \A n \in DOMAIN PoolsOf[stage] : n \in DOMAIN row /\ n.phase = "POOL"
    BY StageCount, PoolsAreDrawnInTwo DEF StageTypes, KnockoutIInv
  <2>3. \A n \in DOMAIN PoolsOf[stage] : row'[n] = row[n]
    BY <1>1, <2>1, <2>2 DEF StageDone
  <2>4. KnockoutMatches \subseteq DOMAIN row
    <3>1. DOMAIN row # DOMAIN PoolsOf[stage]
      BY <2>2 DEF KnockoutExists, IsKnockout
    <3> QED
      BY <3>1 DEF StageTypes
  <2>5. FedBySemifinals'
    <3> SUFFICES ASSUME ~TwoTeam, NEW i \in Sides
                 PROVE  LET semi == row'[Semifinal(i)]
                        IN  IF semi.status = "COMPLETED"
                            THEN /\ row'[Final].competitor[i] = semi.winner
                                 /\ row'[Bronze4].competitor[i] = Loser(semi, semi.winner)
                            ELSE row'[Final].competitor[i] = None /\ row'[Bronze4].competitor[i] = None
      BY <1>1, SameStage DEF FedBySemifinals
    <3>1. Semifinal(i) \in DOMAIN row /\ Final \in DOMAIN row /\ Bronze4 \in DOMAIN row
      BY <2>4 DEF KnockoutMatches, Sides
    <3> QED
      BY <1>1, <1>2, <2>1, <3>1 DEF KnockoutDrawn, FedBySemifinals, Loser
  <2> QED
    BY <1>1, <1>2, <2>1, <2>3, <2>4, <2>5, DrawnStays
<1>7. StageDone <=> KnockoutExists(row)
  BY DEF SerialIInv
<1> QED
  BY <1>3, <1>4, <1>5, <1>6, <1>7 DEF SerialIInv

(* A step that writes no row is right when the call is right.              *)
LEMMA RowsStay ==
  ASSUME SerialIInv, Serial, UNCHANGED <<stage, row>>, OneCall'
  PROVE  SerialIInv'
BY DEF SerialIInv, FoughtByTwo, StageDone, KnockoutExists, KnockoutDrawn,
   FedBySemifinals, FirstOf, SecondOf, TwoTeam, PoolMatches, PoolEntrants

(* A call names one of the two that fight its match as the winner.         *)
LEMMA EndMatchSerial ==
  ASSUME KnockoutIInv, StageTypes, SerialIInv, Serial, NEW h \in stage.handlers,
         NEW m \in DOMAIN row, NEW side \in Sides, NEW winMethod,
         EndMatch(h, m, row[m].competitor[side], winMethod)
  PROVE  SerialIInv'
<1> DEFINE winner == row[m].competitor[side]
           c == [NoCall EXCEPT !.match = m, !.winner = winner, !.winMethod = winMethod]
<1>1. /\ UNCHANGED <<stage, row>> /\ row[m].status = "ACTIVE"
      /\ pc' = [pc EXCEPT ![h] = "write"] /\ call' = [call EXCEPT ![h] = c]
  BY DEF EndMatch, ReadMatch
<1>2. h \in Handlers /\ pc'[h] = "write" /\ call'[h] = c
  BY <1>1, OnlyOneCall DEF KnockoutIInv, Calls
<1>3. c.match = m /\ c.winner = winner
  BY DEF NoCall
<1> HIDE DEF c
<1>4. OneCall'
  <2>1. winner \in Fighters(row[m])
    BY DEF Fighters
  <2>2. \A g \in Handlers : InFlight(g)' => g = h
    BY <1>1, NoOtherCall
  <2> QED
    BY <1>1, <1>2, <1>3, <2>1, <2>2 DEF OneCall, Creates
<1> QED
  BY <1>1, <1>4, RowsStay

(* Its write is not seen by others yet.                                    *)
LEMMA WriteResultSerial ==
  ASSUME KnockoutIInv, StageTypes, SerialIInv, Serial, NEW h \in stage.handlers, WriteResult(h)
  PROVE  SerialIInv'
<1> DEFINE where == IF IsKnockout(call[h].match) THEN "commit" ELSE "count"
<1>1. UNCHANGED <<stage, row, call>> /\ pc[h] = "write" /\ pc' = [pc EXCEPT ![h] = where]
  BY DEF WriteResult
<1>2. h \in Handlers /\ InFlight(h) /\ pc'[h] = where /\ call[h].knockout = <<>>
  BY <1>1, OnlyOneCall DEF InFlight, KnockoutIInv, Calls
<1>3. \A g \in Handlers : InFlight(g)' => g = h
  BY <1>1, NoOtherCall
<1>4. OneCall'
  BY <1>1, <1>2, <1>3 DEF OneCall, SerialIInv, Creates
<1> QED
  BY <1>1, <1>4, RowsStay

(* The pool matches it reads are final when its own is the last.           *)
LEMMA CountSerial ==
  ASSUME KnockoutIInv, StageTypes, SerialIInv, Serial, NEW h \in stage.handlers, CountPoolMatches(h)
  PROVE  SerialIInv'
<1>1. UNCHANGED <<stage, row>> /\ pc[h] = "count"
  BY DEF CountPoolMatches
<1>2. h \in Handlers /\ InFlight(h) /\ call[h].knockout = <<>> /\ stage \in Stages
  BY <1>1, OnlyOneCall DEF InFlight, KnockoutIInv, Calls
<1>3. /\ row[call[h].match].status = "ACTIVE" /\ call[h].winner \in Fighters(row[call[h].match])
  BY <1>2 DEF SerialIInv, OneCall
<1>4. CASE StageIsOver(View(h))
  <2>1. PICK a \in PoolTables(View(h), "A"), b \in PoolTables(View(h), "B") :
          pc' = [pc EXCEPT ![h] = "look"] /\ call' = [call EXCEPT ![h].knockout = KnockoutOf(a, b)]
    BY <1>4 DEF CountPoolMatches
  <2>2. /\ pc'[h] = "look" /\ call'[h] = [call[h] EXCEPT !.knockout = KnockoutOf(a, b)]
        /\ DOMAIN call[h] = {"match", "winner", "winMethod", "knockout"}
    BY <1>2, <2>1 DEF KnockoutIInv, Calls, StageTypes
  <2>3. /\ call'[h].match = call[h].match /\ call'[h].winner = call[h].winner
        /\ call'[h].winMethod = call[h].winMethod /\ call'[h].knockout = KnockoutOf(a, b)
    BY <2>2
  <2>4. View(h)' = View(h)
    BY <1>1, <2>3 DEF View
  <2>5. /\ AreBest(View(h), PoolMatches("A"), PoolEntrants("A"), a[1], a[2])
        /\ AreBest(View(h), PoolMatches("B"), PoolEntrants("B"), b[1], b[2])
    BY <1>2, TablesOfView DEF PoolGroups
  <2>6. DrawnFromTables(h)'
    <3> DEFINE first == <<a[1], a[2]>>
               second == <<b[1], b[2]>>
    <3>1. /\ first \in [Sides -> PoolEntrants("A")] /\ first[1] = a[1] /\ first[2] = a[2]
          /\ second \in [Sides -> PoolEntrants("B")] /\ second[1] = b[1] /\ second[2] = b[2]
      BY <2>5, PairType DEF AreBest
    <3> HIDE DEF first, second
    <3>2. KnockoutOf(a, b) = KnockoutOf(first, second)
      BY <3>1 DEF KnockoutOf, PairOf
    <3>3. /\ KnockoutOf(first, second)' = KnockoutOf(first, second)
          /\ PoolMatches("A")' = PoolMatches("A") /\ PoolMatches("B")' = PoolMatches("B")
          /\ PoolEntrants("A")' = PoolEntrants("A") /\ PoolEntrants("B")' = PoolEntrants("B")
      BY <1>1, SameStage
    <3>4. call'[h].knockout = KnockoutOf(first, second)'
      BY <2>3, <3>2, <3>3
    <3>5. /\ AreBest(View(h)', PoolMatches("A")', PoolEntrants("A")', first[1], first[2])
          /\ AreBest(View(h)', PoolMatches("B")', PoolEntrants("B")', second[1], second[2])
      BY <2>4, <2>5, <3>1, <3>3
    <3> QED
      BY <3>1, <3>3, <3>4, <3>5 DEF DrawnFromTables
  <2>7. \A g \in Handlers : InFlight(g)' => g = h
    BY <2>1, NoOtherCall
  <2>8. OneCall'
    BY <1>1, <1>3, <2>2, <2>3, <2>6, <2>7 DEF OneCall
  <2> QED
    BY <1>1, <2>8, RowsStay
<1>5. CASE ~StageIsOver(View(h))
  <2>1. pc' = [pc EXCEPT ![h] = "commit"] /\ call' = call
    BY <1>5 DEF CountPoolMatches
  <2>2. ~OthersOver(h)
    <3>1. PICK n \in DOMAIN View(h) : n.phase = "POOL" /\ View(h)[n].status # "COMPLETED"
      BY <1>5 DEF StageIsOver
    <3>2. n \in DOMAIN row \ {call[h].match} /\ View(h)[n] = row[n]
      BY <1>2, <3>1, ViewRows
    <3> QED
      BY <3>1, <3>2 DEF OthersOver
  <2>3. \A g \in Handlers : InFlight(g)' => g = h
    BY <2>1, NoOtherCall
  <2>4. pc'[h] = "commit" /\ ~Creates(h)' /\ ~OthersOver(h)'
    BY <1>1, <1>2, <2>1, <2>2 DEF KnockoutIInv, Calls, Creates, OthersOver
  <2>5. OneCall'
    BY <1>1, <1>3, <2>1, <2>3, <2>4 DEF OneCall
  <2> QED
    BY <1>1, <2>5, RowsStay
<1> QED
  BY <1>4, <1>5

(* It finds no knock-out, because its own match is not over yet.           *)
LEMMA LookSerial ==
  ASSUME KnockoutIInv, StageTypes, SerialIInv, Serial, NEW h \in stage.handlers, LookForKnockout(h)
  PROVE  SerialIInv'
<1>1. UNCHANGED <<stage, row>> /\ pc[h] = "look" /\ pc' = [pc EXCEPT ![h] = "commit"]
  BY DEF LookForKnockout
<1>2. /\ h \in Handlers /\ InFlight(h) /\ call[h].match \in DOMAIN row
      /\ IsAKnockout(call[h].knockout) /\ call[h].match.phase = "POOL"
  BY <1>1, OnlyOneCall DEF InFlight, KnockoutIInv, Calls, IsKnockout
<1>3. /\ row[call[h].match].status = "ACTIVE" /\ call[h].winner \in Fighters(row[call[h].match])
      /\ DrawnFromTables(h)
  BY <1>1, <1>2 DEF SerialIInv, OneCall
<1>4. ~KnockoutExists(row)
  BY <1>2, <1>3 DEF SerialIInv, StageDone
<1>5. /\ call'[h].match = call[h].match /\ call'[h].winner = call[h].winner
      /\ call'[h].winMethod = call[h].winMethod /\ call'[h].knockout = call[h].knockout
  <2>1. call' = [call EXCEPT ![h].knockout = call[h].knockout]
    BY <1>4 DEF LookForKnockout
  <2>2. DOMAIN call = Handlers /\ DOMAIN call[h] = {"match", "winner", "winMethod", "knockout"}
    BY <1>2 DEF KnockoutIInv, Calls, StageTypes
  <2> QED
    BY <1>2, <2>1, <2>2
<1>6. DrawnFromTables(h)'
  <2>1. PICK a \in [Sides -> PoolEntrants("A")], b \in [Sides -> PoolEntrants("B")] :
          /\ call[h].knockout = KnockoutOf(a, b)
          /\ AreBest(View(h), PoolMatches("A"), PoolEntrants("A"), a[1], a[2])
          /\ AreBest(View(h), PoolMatches("B"), PoolEntrants("B"), b[1], b[2])
    BY <1>3 DEF DrawnFromTables
  <2>2. KnockoutOf(a, b)' = KnockoutOf(a, b) /\ View(h)' = View(h)
    BY <1>1, <1>5, SameStage DEF View
  <2>3. /\ PoolMatches("A")' = PoolMatches("A") /\ PoolMatches("B")' = PoolMatches("B")
        /\ PoolEntrants("A")' = PoolEntrants("A") /\ PoolEntrants("B")' = PoolEntrants("B")
    BY <1>1, SameStage
  <2>4. /\ AreBest(View(h)', PoolMatches("A")', PoolEntrants("A")', a[1], a[2])
        /\ AreBest(View(h)', PoolMatches("B")', PoolEntrants("B")', b[1], b[2])
    BY <2>1, <2>2, <2>3
  <2> QED
    BY <1>5, <2>1, <2>2, <2>3, <2>4 DEF DrawnFromTables
<1>7. pc'[h] = "commit" /\ Creates(h)'
  BY <1>1, <1>2, <1>5, NothingCreated DEF KnockoutIInv, Calls, Creates
<1>8. OneCall'
  <2>1. \A g \in Handlers : InFlight(g)' => g = h
    BY <1>1, NoOtherCall
  <2> QED
    BY <1>1, <1>3, <1>5, <1>6, <1>7, <2>1 DEF OneCall
<1> QED
  BY <1>1, <1>8, RowsStay

(* What it has done is undone.                                             *)
LEMMA RollbackSerial ==
  ASSUME KnockoutIInv, StageTypes, SerialIInv, Serial, NEW h \in stage.handlers, Rollback(h)
  PROVE  SerialIInv'
<1>1. UNCHANGED <<stage, row>> /\ pc' = [pc EXCEPT ![h] = "idle"]
  BY DEF Rollback
<1>2. \A g \in Handlers : InFlight(g)' => g = h
  BY <1>1, NoOtherCall
<1>3. ~InFlight(h)'
  BY <1>1, OnlyOneCall DEF InFlight, KnockoutIInv, Calls
<1>4. OneCall'
  BY <1>2, <1>3 DEF OneCall
<1> QED
  BY <1>1, <1>4, RowsStay

(* The call that commits: its match is being fought and it completes it.   *)
LEMMA CommittingCall ==
  ASSUME KnockoutIInv, StageTypes, SerialIInv, Serial, NEW h \in stage.handlers, Commit(h)
  PROVE  LET m == call[h].match
         IN  /\ h \in Handlers /\ InFlight(h) /\ stage' = stage /\ stage \in Stages
             /\ m \in DOMAIN row /\ row[m].status = "ACTIVE"
             /\ None \notin Fighters(row[m]) /\ call[h].winner \in Fighters(row[m])
             /\ ~IsKnockout(m) => ~KnockoutExists(row) /\ ~StageDone
             /\ IsKnockout(m) => call[h].knockout = <<>> /\ KnockoutExists(row) /\ StageDone /\ KnockoutDrawn
             /\ OneCall'
<1>1. /\ h \in Handlers /\ InFlight(h) /\ stage' = stage /\ stage \in Stages
      /\ pc[h] = "commit" /\ pc' = [pc EXCEPT ![h] = "idle"]
  BY OnlyOneCall DEF Commit, InFlight, KnockoutIInv
<1>2. call[h].match \in DOMAIN row
  BY <1>1 DEF KnockoutIInv, Calls
<1>3. row[call[h].match].status = "ACTIVE" /\ call[h].winner \in Fighters(row[call[h].match])
  BY <1>1 DEF SerialIInv, OneCall
<1>4. None \notin Fighters(row[call[h].match])
  BY <1>2, <1>3 DEF SerialIInv, FoughtByTwo
<1>5. ~IsKnockout(call[h].match) => ~KnockoutExists(row) /\ ~StageDone
  BY <1>2, <1>3 DEF SerialIInv, StageDone, IsKnockout
<1>6. IsKnockout(call[h].match) => call[h].knockout = <<>> /\ KnockoutExists(row) /\ StageDone /\ KnockoutDrawn
  <2>1. Creates(h) => ~IsKnockout(call[h].match)
    BY <1>1 DEF KnockoutIInv, Calls
  <2>2. IsKnockout(call[h].match) => KnockoutExists(row)
    BY <1>2 DEF KnockoutExists
  <2> QED
    BY <1>1, <2>1, <2>2 DEF SerialIInv, Creates
<1>7. OneCall'
  <2>1. \A g \in Handlers : InFlight(g)' => g = h
    BY <1>1, NoOtherCall
  <2>2. ~InFlight(h)'
    BY <1>1 DEF InFlight, KnockoutIInv, Calls
  <2> QED
    BY <2>1, <2>2 DEF OneCall
<1> QED
  BY <1>1, <1>2, <1>3, <1>4, <1>5, <1>6, <1>7

(* In what it sees, too, two have fought each match and one has won.       *)
LEMMA ViewIsFought ==
  ASSUME KnockoutIInv, StageTypes, SerialIInv, Serial, NEW h \in stage.handlers, Commit(h),
         NEW n \in DOMAIN row
  PROVE  /\ View(h)[n].status # "SCHEDULED" => None \notin Fighters(View(h)[n])
         /\ View(h)[n].status = "COMPLETED" => View(h)[n].winner \in Fighters(View(h)[n])
<1>1. /\ h \in Handlers /\ InFlight(h)
      /\ None \notin Fighters(row[call[h].match]) /\ call[h].winner \in Fighters(row[call[h].match])
  BY CommittingCall
<1>2. View(h)[n].competitor = row[n].competitor
  BY <1>1, ViewRows
<1>3. CASE n = call[h].match
  BY <1>1, <1>2, <1>3, ViewRows DEF Fighters
<1>4. CASE n # call[h].match
  BY <1>1, <1>4, ViewRows DEF SerialIInv, FoughtByTwo
<1> QED
  BY <1>3, <1>4

(* A pool match that is not the last one.                                  *)
LEMMA CommitPoolMatch ==
  ASSUME KnockoutIInv, StageTypes, SerialIInv, Serial, NEW h \in stage.handlers, Commit(h),
         ~IsKnockout(call[h].match), ~Creates(h)
  PROVE  SerialIInv'
<1>1. /\ h \in Handlers /\ InFlight(h) /\ OneCall' /\ call[h].match \in DOMAIN row
      /\ ~KnockoutExists(row) /\ pc[h] = "commit" /\ call[h].knockout = <<>> /\ ~OthersOver(h)
  BY CommittingCall DEF Commit, Creates, SerialIInv, OneCall
<1>2. \A n \in DOMAIN row : View(h)[n] \in FightRow
  BY <1>1, ViewRows
<1>3. Advance(View(h), call[h].match) = View(h)
  BY DEF Advance, IsKnockout
<1>4. DOMAIN row' = DOMAIN row /\ \A n \in DOMAIN row : row'[n] = View(h)[n]
  <2>1. LET k == call[h].knockout
            after == Advance(View(h), call[h].match)
        IN  /\ DOMAIN row' = DOMAIN k \cup DOMAIN row
            /\ \A n \in DOMAIN row \ DOMAIN k : row'[n] = after[n]
    BY <1>1, RowsAfterCommit
  <2>2. DOMAIN call[h].knockout = {}
    BY <1>1, NothingCreated
  <2> QED
    BY <1>3, <2>1, <2>2
<1>5. FoughtByTwo'
  BY <1>4, ViewIsFought DEF FoughtByTwo
<1>6. ~StageDone'
  <2>1. PICK n \in DOMAIN row \ {call[h].match} : n.phase = "POOL" /\ row[n].status # "COMPLETED"
    BY <1>1 DEF OthersOver
  <2>2. row'[n] = row[n]
    BY <1>1, <1>4, <2>1, ViewRows
  <2> QED
    BY <1>4, <2>1, <2>2 DEF StageDone
<1>7. ~KnockoutExists(row)'
  BY <1>1, <1>4 DEF KnockoutExists
<1> QED
  BY <1>1, <1>5, <1>6, <1>7 DEF SerialIInv

(* The last pool match creates the knock-out.                              *)
LEMMA CommitCreation ==
  ASSUME KnockoutIInv, StageTypes, SerialIInv, Serial, NEW h \in stage.handlers, Commit(h),
         Creates(h)
  PROVE  SerialIInv'
<1> DEFINE m == call[h].match
           k == call[h].knockout
<1>1. /\ h \in Handlers /\ InFlight(h) /\ stage \in Stages /\ stage' = stage /\ OneCall' /\ m \in DOMAIN row
      /\ pc[h] = "commit"
  BY CommittingCall DEF Creates
<1>2. ~IsKnockout(m) /\ IsAKnockout(k) /\ OthersOver(h) /\ DrawnFromTables(h)
  BY <1>1 DEF KnockoutIInv, Calls, SerialIInv, OneCall
<1>3. PICK a \in [Sides -> PoolEntrants("A")], b \in [Sides -> PoolEntrants("B")] :
        /\ k = KnockoutOf(a, b)
        /\ AreBest(View(h), PoolMatches("A"), PoolEntrants("A"), a[1], a[2])
        /\ AreBest(View(h), PoolMatches("B"), PoolEntrants("B"), b[1], b[2])
  BY <1>2 DEF DrawnFromTables
<1>4. DOMAIN row = DOMAIN PoolsOf[stage]
  <2>1. Final \in KnockoutMatches /\ IsKnockout(Final)
    BY KnockoutIds DEF KnockoutMatches, IsKnockout
  <2>2. ~KnockoutExists(row)
    BY <1>2, CommittingCall
  <2> QED
    BY <2>1, <2>2 DEF StageTypes, KnockoutExists
<1>5. /\ DOMAIN k = KnockoutMatches
      /\ \A n \in KnockoutMatches : k[n] = ScheduledRow(PairOf(n, a, b))
  BY <1>3 DEF KnockoutOf
<1>6. /\ DOMAIN row' = KnockoutMatches \cup DOMAIN row
      /\ \A n \in KnockoutMatches : row'[n] = ScheduledRow(PairOf(n, a, b))
      /\ \A n \in DOMAIN row : row'[n] = View(h)[n]
  BY <1>1, <1>4, <1>5, RowsAfterCommit
<1>7. \A n \in KnockoutMatches : row'[n].status = "SCHEDULED" /\ row'[n].competitor = PairOf(n, a, b)
  BY <1>6 DEF ScheduledRow
<1> HIDE DEF k, m
<1>8. FoughtByTwo'
  <2>1. \A n \in DOMAIN row :
          /\ View(h)[n].status # "SCHEDULED" => None \notin Fighters(View(h)[n])
          /\ View(h)[n].status = "COMPLETED" => View(h)[n].winner \in Fighters(View(h)[n])
    BY ViewIsFought
  <2> QED
    BY <1>6, <1>7, <2>1 DEF FoughtByTwo
<1>9. StageDone'
  <2> SUFFICES ASSUME NEW n \in DOMAIN row', n.phase = "POOL" PROVE row'[n].status = "COMPLETED"
    BY DEF StageDone
  <2>1. n \in DOMAIN row
    BY <1>6, KnockoutIds
  <2>2. CASE n = call[h].match
    BY <1>1, <1>6, <2>1, <2>2, ViewRows
  <2>3. CASE n # call[h].match
    BY <1>1, <1>2, <1>6, <2>1, <2>3, ViewRows DEF OthersOver
  <2> QED
    BY <2>2, <2>3
<1>10. KnockoutExists(row)'
  <2>1. Final \in DOMAIN row' /\ IsKnockout(Final)
    BY <1>6, KnockoutIds DEF KnockoutMatches, IsKnockout
  <2> QED
    BY <2>1 DEF KnockoutExists
<1>11. KnockoutDrawn'
  <2> DEFINE best(group) == IF group = "A" THEN a ELSE b
  <2>1. Semifinal(1) # Semifinal(2) /\ Final # Bronze4 /\ \A i \in Sides : Semifinal(i) \notin {Final, Bronze4}
    BY KnockoutIds DEF Sides
  <2>2. ASSUME TwoTeam
        PROVE  /\ row'[Final].competitor = <<a[1], b[1]>>
               /\ row'[Bronze4].competitor = <<a[2], b[2]>>
    <3>1. PairOf(Final, a, b) = <<a[1], b[1]>> /\ PairOf(Bronze4, a, b) = <<a[2], b[2]>>
      BY <2>1, <2>2 DEF PairOf, Sides
    <3> QED
      BY <1>7, <3>1 DEF KnockoutMatches
  <2>3. ASSUME ~TwoTeam
        PROVE  /\ row'[Semifinal(1)].competitor = <<a[1], b[2]>>
               /\ row'[Semifinal(2)].competitor = <<b[1], a[2]>>
               /\ row'[Final].competitor = <<None, None>> /\ row'[Bronze4].competitor = <<None, None>>
               /\ \A i \in Sides : row'[Semifinal(i)].status = "SCHEDULED"
    <3>1. /\ PairOf(Semifinal(1), a, b) = <<a[1], b[2]>>
          /\ PairOf(Semifinal(2), a, b) = <<b[1], a[2]>>
          /\ PairOf(Final, a, b) = <<None, None>> /\ PairOf(Bronze4, a, b) = <<None, None>>
      BY <2>1, <2>3 DEF PairOf, Sides
    <3>2. KnockoutMatches = {Final, Bronze4, Semifinal(1), Semifinal(2)}
      BY <2>3 DEF KnockoutMatches
    <3> QED
      BY <1>7, <3>1, <3>2 DEF Sides
  <2>4. TwoTeam' <=> TwoTeam
    BY <1>1, SameStage
  <2>5. ASSUME NEW group \in PoolGroups
        PROVE  FirstOf(group)' = best(group)[1] /\ SecondOf(group)' = best(group)[2]
    <3>1. CASE TwoTeam
      BY <2>2, <2>4, <3>1 DEF FirstOf, SecondOf, PoolGroups
    <3>2. CASE ~TwoTeam
      BY <2>3, <2>4, <3>2 DEF FirstOf, SecondOf, PoolGroups
    <3> QED
      BY <3>1, <3>2
  <2>6. ASSUME NEW group \in PoolGroups
        PROVE  AreBest(row', PoolMatches(group), PoolEntrants(group), best(group)[1], best(group)[2])
    <3>1. \A n \in PoolMatches(group) : View(h)[n] = row'[n]
      BY <1>4, <1>6 DEF PoolMatches, DrawnIn
    <3>2. AreBest(View(h), PoolMatches(group), PoolEntrants(group), best(group)[1], best(group)[2])
      BY <1>3 DEF PoolGroups
    <3> HIDE DEF best
    <3> QED
      BY <3>1, <3>2, BestStaysBest
  <2>7. FedBySemifinals'
    BY <2>3, <2>4 DEF FedBySemifinals, Sides
  <2> HIDE DEF best
  <2>8. ASSUME NEW group \in PoolGroups
        PROVE  AreBest(row, PoolMatches(group), PoolEntrants(group), FirstOf(group), SecondOf(group))'
    <3>1. PoolMatches(group)' = PoolMatches(group) /\ PoolEntrants(group)' = PoolEntrants(group)
      BY <1>1, SameStage
    <3>2. AreBest(row', PoolMatches(group)', PoolEntrants(group)', FirstOf(group)', SecondOf(group)')
      BY <2>5, <2>6, <3>1
    <3> QED
      BY <3>2
  <2> QED
    BY <2>7, <2>8 DEF KnockoutDrawn
<1> QED
  BY <1>1, <1>8, <1>9, <1>10, <1>11 DEF SerialIInv

(* Once it is there, the knock-out is complete.                            *)
LEMMA KnockoutIsWhole ==
  ASSUME stage \in Stages, StageTypes, KnockoutExists(row)
  PROVE  /\ DOMAIN row = DOMAIN PoolsOf[stage] \cup KnockoutMatches
         /\ \A n \in DOMAIN PoolsOf[stage] : n.phase = "POOL"
<1>1. \A n \in DOMAIN PoolsOf[stage] : n.phase = "POOL"
  BY StageCount, PoolsAreDrawnInTwo
<1> QED
  BY <1>1 DEF StageTypes, KnockoutExists, IsKnockout

(* The completion of a knock-out match; that of a semi-final passes its    *)
(* winner and its loser on.                                                *)
LEMMA CommitKnockoutMatch ==
  ASSUME KnockoutIInv, StageTypes, SerialIInv, Serial, NEW h \in stage.handlers, Commit(h),
         IsKnockout(call[h].match)
  PROVE  SerialIInv'
<1> DEFINE m == call[h].match
           after == Advance(View(h), m)
<1>1. /\ h \in Handlers /\ InFlight(h) /\ stage \in Stages /\ stage' = stage /\ OneCall'
      /\ m \in DOMAIN row /\ row[m].status = "ACTIVE"
      /\ None \notin Fighters(row[m]) /\ call[h].winner \in Fighters(row[m])
      /\ call[h].knockout = <<>> /\ KnockoutExists(row) /\ StageDone /\ KnockoutDrawn
  BY CommittingCall
<1>2. /\ DOMAIN row = DOMAIN PoolsOf[stage] \cup KnockoutMatches
      /\ \A n \in DOMAIN PoolsOf[stage] : n.phase = "POOL"
      /\ m \in KnockoutMatches
  BY <1>1, KnockoutIsWhole DEF IsKnockout
<1>3. DOMAIN row' = DOMAIN row /\ \A n \in DOMAIN row : row'[n] = after[n]
  <2>1. LET k == call[h].knockout
        IN  /\ DOMAIN row' = DOMAIN k \cup DOMAIN row
            /\ \A n \in DOMAIN row \ DOMAIN k : row'[n] = after[n]
    BY <1>1, RowsAfterCommit
  <2>2. DOMAIN call[h].knockout = {}
    BY <1>1, NothingCreated
  <2> QED
    BY <2>1, <2>2
<1>4. /\ DOMAIN View(h) = DOMAIN row
      /\ \A n \in DOMAIN row : View(h)[n] \in FightRow /\ View(h)[n].competitor = row[n].competitor
      /\ \A n \in DOMAIN row \ {m} : View(h)[n] = row[n]
      /\ View(h)[m].status = "COMPLETED" /\ View(h)[m].winner = call[h].winner
  BY <1>1, ViewRows
<1>5. /\ \A n \in DOMAIN row \ {Final, Bronze4} : after[n] = View(h)[n]
      /\ m.phase # "KNOCKOUT_SF" => after = View(h)
      /\ \A i \in Sides, n \in DOMAIN row :
           m = Semifinal(i) /\ n \in {Final, Bronze4} =>
             LET mover == IF n = Final THEN View(h)[m].winner ELSE Loser(View(h)[m], View(h)[m].winner)
             IN  /\ after[n].status = View(h)[n].status /\ after[n].winner = View(h)[n].winner
                 /\ mover # None => after[n].competitor[i] = mover
                 /\ \A other \in Sides \ {i} : after[n].competitor[other] = View(h)[n].competitor[other]
  <2>1. m \in DOMAIN View(h) /\ \A n \in DOMAIN View(h) : View(h)[n] \in FightRow
    BY <1>1, <1>4
  <2> HIDE DEF m
  <2> QED
    BY <1>4, <2>1, AdvanceRows
<1> HIDE DEF m, after
<1>6. CASE m.phase # "KNOCKOUT_SF"
  <2>1. \A n \in DOMAIN row : row'[n] = View(h)[n]
    BY <1>3, <1>5, <1>6
  <2>2. FoughtByTwo'
    BY <1>3, <2>1, ViewIsFought DEF FoughtByTwo
  <2>3. \A n \in DOMAIN PoolsOf[stage] : row'[n] = row[n]
    BY <1>1, <1>2, <1>4, <2>1 DEF IsKnockout, m
  <2>4. \A n \in KnockoutMatches : row'[n].competitor = row[n].competitor
    BY <1>2, <1>4, <2>1
  <2>5. FedBySemifinals'
    <3> SUFFICES ASSUME ~TwoTeam, NEW i \in Sides
                 PROVE  LET semi == row'[Semifinal(i)]
                        IN  IF semi.status = "COMPLETED"
                            THEN /\ row'[Final].competitor[i] = semi.winner
                                 /\ row'[Bronze4].competitor[i] = Loser(semi, semi.winner)
                            ELSE row'[Final].competitor[i] = None /\ row'[Bronze4].competitor[i] = None
      BY <1>1, SameStage DEF FedBySemifinals
    <3>1. Semifinal(i) \in KnockoutMatches /\ Final \in KnockoutMatches /\ Bronze4 \in KnockoutMatches
      BY DEF KnockoutMatches, Sides
    <3>2. Semifinal(i) # m
      BY <1>6, KnockoutIds
    <3>3. row'[Semifinal(i)] = row[Semifinal(i)]
      BY <1>2, <1>4, <2>1, <3>1, <3>2
    <3> QED
      BY <1>1, <2>4, <3>1, <3>3 DEF KnockoutDrawn, FedBySemifinals
  <2>6. KnockoutDrawn'
    BY <1>1, <2>3, <2>4, <2>5, DrawnStays
  <2>7. StageDone' /\ KnockoutExists(row)'
    <3>1. \A n \in DOMAIN row' : n.phase = "POOL" => n \in DOMAIN PoolsOf[stage]
      BY <1>2, <1>3, KnockoutIds
    <3> QED
      BY <1>1, <1>2, <1>3, <2>3, <3>1 DEF StageDone, KnockoutExists
  <2> QED
    BY <1>1, <2>2, <2>6, <2>7 DEF SerialIInv
<1>7. CASE m.phase = "KNOCKOUT_SF"
  <2>1. PICK i \in Sides : m = Semifinal(i)
    BY <1>2, <1>7, KnockoutIds
  <2>2. /\ ~TwoTeam /\ Final \in DOMAIN row /\ Bronze4 \in DOMAIN row /\ Final # Bronze4
        /\ m \notin {Final, Bronze4} /\ Semifinal(1) # Semifinal(2)
        /\ \A j \in Sides : Semifinal(j) \in DOMAIN row /\ Semifinal(j) \notin {Final, Bronze4}
    BY <1>2, <1>7, KnockoutIds DEF KnockoutMatches, Sides
  <2>3. row[Final].competitor[i] = None /\ row[Bronze4].competitor[i] = None
    BY <1>1, <2>1, <2>2 DEF KnockoutDrawn, FedBySemifinals
  <2>4. row[Final].status = "SCHEDULED" /\ row[Bronze4].status = "SCHEDULED"
    <3>1. None \in Fighters(row[Final]) /\ None \in Fighters(row[Bronze4])
      BY <2>3 DEF Fighters
    <3> QED
      BY <2>2, <3>1 DEF SerialIInv, FoughtByTwo
  <2>5. \A n \in DOMAIN row \ {Final, Bronze4} : row'[n] = View(h)[n]
    BY <1>3, <1>5
  <2>6. /\ View(h)[m].winner # None /\ Loser(View(h)[m], View(h)[m].winner) # None
    <3>1. View(h)[m].competitor = row[m].competitor
      BY <1>1, <1>4
    <3> QED
      BY <1>1, <1>4, <3>1 DEF Fighters, Loser, Sides
  <2>7. ASSUME NEW n \in {Final, Bronze4}
        PROVE  /\ row'[n].status = "SCHEDULED"
               /\ row'[n].competitor[i] = IF n = Final THEN View(h)[m].winner ELSE Loser(View(h)[m], View(h)[m].winner)
               /\ \A other \in Sides \ {i} : row'[n].competitor[other] = row[n].competitor[other]
    <3>1. n \in DOMAIN row /\ row'[n] = after[n] /\ View(h)[n] = row[n]
      BY <1>3, <1>4, <2>2
    <3>2. row[n].status = "SCHEDULED"
      BY <2>4
    <3> QED
      BY <1>5, <2>1, <2>6, <3>1, <3>2
  <2>8. FoughtByTwo'
    <3> SUFFICES ASSUME NEW n \in DOMAIN row
                 PROVE  /\ row'[n].status # "SCHEDULED" => None \notin Fighters(row'[n])
                        /\ row'[n].status = "COMPLETED" => row'[n].winner \in Fighters(row'[n])
      BY <1>3 DEF FoughtByTwo
    <3>1. CASE n \in {Final, Bronze4}
      BY <2>7, <3>1
    <3>2. CASE n \notin {Final, Bronze4}
      BY <2>5, <3>2, ViewIsFought
    <3> QED
      BY <3>1, <3>2
  <2>9. \A n \in DOMAIN PoolsOf[stage] : row'[n] = row[n]
    BY <1>1, <1>2, <1>4, <2>5, KnockoutIds DEF IsKnockout, m
  <2>10. \A j \in Sides : row'[Semifinal(j)].competitor = row[Semifinal(j)].competitor
    BY <1>4, <2>2, <2>5
  <2>11. FedBySemifinals'
    <3> SUFFICES ASSUME NEW j \in Sides
                 PROVE  LET semi == row'[Semifinal(j)]
                        IN  IF semi.status = "COMPLETED"
                            THEN /\ row'[Final].competitor[j] = semi.winner
                                 /\ row'[Bronze4].competitor[j] = Loser(semi, semi.winner)
                            ELSE row'[Final].competitor[j] = None /\ row'[Bronze4].competitor[j] = None
      BY <1>1, SameStage DEF FedBySemifinals
    <3>1. CASE j = i
      <4>1. row'[Semifinal(j)] = View(h)[m]
        BY <2>1, <2>2, <2>5, <3>1
      <4>2. View(h)[m].status = "COMPLETED"
        BY <1>4
      <4> QED
        BY <2>2, <2>7, <3>1, <4>1, <4>2
    <3>2. CASE j # i
      <4>1. Semifinal(j) # m
        BY <2>1, <3>2, KnockoutIds
      <4>2. row'[Semifinal(j)] = row[Semifinal(j)]
        BY <1>4, <2>2, <2>5, <4>1
      <4>3. row'[Final].competitor[j] = row[Final].competitor[j] /\ row'[Bronze4].competitor[j] = row[Bronze4].competitor[j]
        BY <2>7, <3>2
      <4> QED
        BY <1>1, <2>2, <4>2, <4>3 DEF KnockoutDrawn, FedBySemifinals
    <3> QED
      BY <3>1, <3>2
  <2>12. KnockoutDrawn'
    <3>1. \A n \in KnockoutMatches : TwoTeam \/ n.phase = "KNOCKOUT_SF" => row'[n].competitor = row[n].competitor
      BY <2>2, <2>10, KnockoutIds
    <3> QED
      BY <1>1, <2>9, <2>11, <3>1, DrawnStays
  <2>13. StageDone' /\ KnockoutExists(row)'
    <3>1. \A n \in DOMAIN row' : n.phase = "POOL" => n \in DOMAIN PoolsOf[stage]
      BY <1>2, <1>3, KnockoutIds
    <3> QED
      BY <1>1, <1>2, <1>3, <2>9, <3>1 DEF StageDone, KnockoutExists
  <2> QED
    BY <1>1, <2>8, <2>12, <2>13 DEF SerialIInv
<1> QED
  BY <1>6, <1>7

(* Every step keeps the invariant of one call at a time.                   *)
LEMMA StepSerial ==
  ASSUME KnockoutIInv, StageTypes, SerialIInv, [Next]_vars
  PROVE  SerialIInv'
<1> SUFFICES ASSUME Serial' PROVE SerialIInv'
  BY DEF SerialIInv
<1>1. stage' = stage
  BY DEF Next, Request, Proceed, Rollback, StartMatch, EndMatch, WriteResult, CountPoolMatches,
         LookForKnockout, Commit, vars
<1>2. Serial
  BY <1>1 DEF Serial
<1>3. ASSUME NEW h \in stage.handlers, Request(h) PROVE SerialIInv'
  <2>1. PICK m \in DOMAIN row :
          \/ pc[h] = "idle" /\ ReadyRow(row[m]) /\ StartMatch(m)
          \/ \E side \in Sides, winMethod \in stage.winWays : EndMatch(h, m, row[m].competitor[side], winMethod)
    BY <1>3 DEF Request
  <2>2. CASE pc[h] = "idle" /\ ReadyRow(row[m]) /\ StartMatch(m)
    BY <1>2, <2>2, StartMatchSerial
  <2>3. CASE \E side \in Sides, winMethod \in stage.winWays : EndMatch(h, m, row[m].competitor[side], winMethod)
    BY <1>2, <2>3, EndMatchSerial
  <2> QED
    BY <2>1, <2>2, <2>3
<1>4. ASSUME NEW h \in stage.handlers, Commit(h) PROVE SerialIInv'
  <2>1. CASE IsKnockout(call[h].match)
    BY <1>2, <1>4, <2>1, CommitKnockoutMatch
  <2>2. CASE ~IsKnockout(call[h].match) /\ ~Creates(h)
    BY <1>2, <1>4, <2>2, CommitPoolMatch
  <2>3. CASE Creates(h)
    BY <1>2, <1>4, <2>3, CommitCreation
  <2> QED
    BY <2>1, <2>2, <2>3
<1>5. ASSUME NEW h \in stage.handlers, Proceed(h) PROVE SerialIInv'
  BY <1>2, <1>4, <1>5, WriteResultSerial, CountSerial, LookSerial DEF Proceed
<1>6. ASSUME NEW h \in stage.handlers, Rollback(h) PROVE SerialIInv'
  BY <1>2, <1>6, RollbackSerial
<1>7. CASE UNCHANGED vars
  <2>1. UNCHANGED <<stage, row, pc, call>>
    BY <1>7 DEF vars
  <2>2. OneCall'
    <3>1. \A g \in Handlers : View(g)' = View(g)
      BY <2>1 DEF View
    <3>2. OneCall
      BY <1>2 DEF SerialIInv
    <3> QED
      BY <2>1, <3>1, <3>2, SameStage DEF OneCall, InFlight, Creates, OthersOver, DrawnFromTables
  <2> QED
    BY <1>2, <2>1, <2>2, RowsStay
<1> QED
  BY <1>3, <1>5, <1>6, <1>7 DEF Next

(* The best of the pools go on.                                            *)
LEMMA BestFollows ==
  ASSUME KnockoutIInv, StageTypes, SerialIInv
  PROVE  BestOfPoolsGoOn
<1> SUFFICES ASSUME Serial, KnockoutExists(row), NEW group \in PoolGroups
             PROVE  /\ {FirstOf(group), SecondOf(group)} \subseteq EntrantsOf(group)
                    /\ FirstOf(group) # SecondOf(group)
                    /\ MoreWins(group, FirstOf(group)) = {}
                    /\ Cardinality(MoreWins(group, SecondOf(group))) <= 1
  BY DEF BestOfPoolsGoOn, PoolGroups
<1>1. AreBest(row, PoolMatches(group), PoolEntrants(group), FirstOf(group), SecondOf(group))
  BY DEF SerialIInv, KnockoutDrawn
<1>2. InPool(row, group) = PoolMatches(group) /\ EntrantsOf(group) = PoolEntrants(group)
  BY PoolsInRows DEF KnockoutIInv, EntrantsOf
<1>3. AreBest(row, InPool(row, group), EntrantsOf(group), FirstOf(group), SecondOf(group))
  BY <1>1, <1>2
<1> QED
  BY <1>3 DEF AreBest, MoreWins

(* Four different competitors in the two deciding matches are placed.      *)
LEMMA FourArePlaced ==
  ASSUME NEW a, NEW b, NEW c, NEW d, Cardinality({a, b, c, d}) = 4,
         {Final, Bronze4} \subseteq DOMAIN row,
         row[Final].status = "COMPLETED", row[Bronze4].status = "COMPLETED",
         None \notin Fighters(row[Final]), None \notin Fighters(row[Bronze4]),
         row[Final].winner \in Fighters(row[Final]), row[Bronze4].winner \in Fighters(row[Bronze4]),
         Fighters(row[Final]) \cup Fighters(row[Bronze4]) = {a, b, c, d}
  PROVE  /\ PoolsComplete(row, Final, Bronze4)
         /\ {p.rank : p \in Podium} = 1..4
         /\ Cardinality({p.competitor : p \in Podium}) = 4
<1>1. ASSUME NEW m \in {Final, Bronze4}, NEW rank
      PROVE  LET w == row[m].winner
                 l == Loser(row[m], w)
             IN  /\ Fought(row, m) /\ Pair(row, m, rank) = {Place(rank, w), Place(rank + 1, l)}
                 /\ {w, l} = Fighters(row[m])
  <2> DEFINE w == row[m].winner
             l == Loser(row[m], w)
  <2>1. /\ m \in DOMAIN row /\ row[m].status = "COMPLETED"
        /\ None \notin Fighters(row[m]) /\ w \in Fighters(row[m])
    OBVIOUS
  <2>2. Fighters(row[m]) = {row[m].competitor[1], row[m].competitor[2]}
    BY DEF Fighters, Sides
  <2>3. {w, l} = Fighters(row[m])
    BY <2>1, <2>2 DEF Loser
  <2>4. Done(row, m) /\ \A side \in Sides : row[m].competitor[side] # None
    BY <2>1 DEF Done, Exists, Fighters
  <2>5. Beaten(row, m) = {l}
    BY <2>4 DEF Beaten
  <2> QED
    BY <2>3, <2>4, <2>5 DEF Fought, Pair, WinnerPlace, LoserPlace
<1> DEFINE w1 == row[Final].winner
           l1 == Loser(row[Final], w1)
           w2 == row[Bronze4].winner
           l2 == Loser(row[Bronze4], w2)
<1>2. /\ PoolsComplete(row, Final, Bronze4)
      /\ Podium = {Place(1, w1), Place(2, l1), Place(3, w2), Place(4, l2)}
      /\ {w1, l1} \cup {w2, l2} = {a, b, c, d}
  <2>1. /\ Fought(row, Final) /\ Fought(row, Bronze4)
        /\ Pair(row, Final, 1) = {Place(1, w1), Place(1 + 1, l1)}
        /\ Pair(row, Bronze4, 3) = {Place(3, w2), Place(3 + 1, l2)}
        /\ {w1, l1} = Fighters(row[Final]) /\ {w2, l2} = Fighters(row[Bronze4])
    BY <1>1
  <2> HIDE DEF w1, l1, w2, l2
  <2>2. Podium = Pair(row, Final, 1) \cup Pair(row, Bronze4, 3)
    BY DEF Podium, PoolsPlaces
  <2>3. Podium = {Place(1, w1), Place(2, l1), Place(3, w2), Place(4, l2)}
    BY <2>1, <2>2
  <2> QED
    BY <2>1, <2>3 DEF PoolsComplete
<1> HIDE DEF w1, l1, w2, l2
<1>3. {p.rank : p \in Podium} = 1..4
  BY <1>2 DEF Place
<1>4. {p.competitor : p \in Podium} = {a, b, c, d}
  <2>1. {p.competitor : p \in Podium} = {w1, l1, w2, l2}
    BY <1>2 DEF Place
  <2> QED
    BY <1>2, <2>1
<1> QED
  BY <1>2, <1>3, <1>4

(* Four that differ are four.                                              *)
LEMMA FourElements ==
  ASSUME NEW a, NEW b, NEW c, NEW d, a # b, a # c, a # d, b # c, b # d, c # d
  PROVE  Cardinality({a, b, c, d}) = 4
<1>1. Cardinality({}) = 0 /\ IsFiniteSet({})
  BY FS_EmptySet
<1>2. Cardinality({} \cup {a}) = 1 /\ IsFiniteSet({} \cup {a})
  BY <1>1, FS_AddElement
<1>3. Cardinality(({} \cup {a}) \cup {b}) = 2 /\ IsFiniteSet(({} \cup {a}) \cup {b})
  BY <1>2, FS_AddElement
<1>4. Cardinality((({} \cup {a}) \cup {b}) \cup {c}) = 3 /\ IsFiniteSet((({} \cup {a}) \cup {b}) \cup {c})
  BY <1>3, FS_AddElement
<1>5. Cardinality(((({} \cup {a}) \cup {b}) \cup {c}) \cup {d}) = 4
  BY <1>4, FS_AddElement
<1>6. ((({} \cup {a}) \cup {b}) \cup {c}) \cup {d} = {a, b, c, d}
  OBVIOUS
<1> QED
  BY <1>5, <1>6

(* Nothing left to fight: every match is completed, and so is the podium.  *)
LEMMA PodiumFollows ==
  ASSUME KnockoutIInv, StageTypes, SerialIInv
  PROVE  PodiumOrAMatchToFight
<1> SUFFICES ASSUME Serial, \A m \in DOMAIN row : ~ReadyRow(row[m]) /\ row[m].status # "ACTIVE"
             PROVE  /\ PoolsComplete(row, Final, Bronze4)
                    /\ {p.rank : p \in Podium} = 1..4
                    /\ Cardinality({p.competitor : p \in Podium}) = 4
  BY DEF PodiumOrAMatchToFight
<1>1. stage \in Stages
  BY DEF KnockoutIInv
<1>2. ASSUME NEW m \in DOMAIN row, None \notin Fighters(row[m])
      PROVE  row[m].status = "COMPLETED" /\ row[m].winner \in Fighters(row[m])
  <2>1. row[m].status \in {"SCHEDULED", "ACTIVE", "COMPLETED"}
    BY DEF StageTypes, FightRow, Statuses
  <2>2. row[m].status # "SCHEDULED"
    BY <1>2 DEF ReadyRow, Fighters
  <2>3. row[m].status = "COMPLETED"
    BY <2>1, <2>2
  <2> QED
    BY <2>3 DEF SerialIInv, FoughtByTwo
<1>3. StageDone
  <2> SUFFICES ASSUME NEW m \in DOMAIN row, m.phase = "POOL" PROVE row[m].status = "COMPLETED"
    BY DEF StageDone
  <2>1. m \in DOMAIN PoolsOf[stage] /\ row[m].competitor = PoolsOf[stage][m]
    BY KnockoutIds DEF StageTypes
  <2>2. None \notin Fighters(row[m])
    BY <1>1, <2>1, DrawnPairType DEF Fighters
  <2> QED
    BY <1>2, <2>2
<1>4. KnockoutDrawn /\ KnockoutMatches \subseteq DOMAIN row
  BY <1>1, <1>3, KnockoutIsWhole DEF SerialIInv
<1> DEFINE a1 == FirstOf("A")
           a2 == SecondOf("A")
           b1 == FirstOf("B")
           b2 == SecondOf("B")
<1>5. /\ a1 # a2 /\ b1 # b2 /\ a1 # b1 /\ a1 # b2 /\ a2 # b1 /\ a2 # b2
      /\ None \notin {a1, a2, b1, b2}
  <2>1. /\ a1 \in PoolEntrants("A") /\ a2 \in PoolEntrants("A") /\ a1 # a2
        /\ b1 \in PoolEntrants("B") /\ b2 \in PoolEntrants("B") /\ b1 # b2
    BY <1>4 DEF KnockoutDrawn, AreBest, PoolGroups
  <2>2. PoolEntrants("A") \cap PoolEntrants("B") = {}
    BY <1>1, StageCount, PoolsAreDrawnInTwo DEF PoolEntrants
  <2>3. None \notin PoolEntrants("A") /\ None \notin PoolEntrants("B")
    BY <1>1, EntrantsAreContestants DEF PoolGroups
  <2> HIDE DEF a1, a2, b1, b2
  <2> QED
    BY <2>1, <2>2, <2>3
<1>6. Cardinality({a1, a2, b1, b2}) = 4
  <2> HIDE DEF a1, a2, b1, b2
  <2> QED
    BY <1>5, FourElements
<1>7. Final \in DOMAIN row /\ Bronze4 \in DOMAIN row
  BY <1>4 DEF KnockoutMatches
<1>8. /\ None \notin Fighters(row[Final]) /\ None \notin Fighters(row[Bronze4])
      /\ Fighters(row[Final]) \cup Fighters(row[Bronze4]) = {a1, a2, b1, b2}
  <2>1. CASE TwoTeam
    <3>1. /\ a1 = row[Final].competitor[1] /\ b1 = row[Final].competitor[2]
          /\ a2 = row[Bronze4].competitor[1] /\ b2 = row[Bronze4].competitor[2]
      BY <2>1 DEF FirstOf, SecondOf
    <3> HIDE DEF a1, a2, b1, b2
    <3>2. Fighters(row[Final]) = {a1, b1} /\ Fighters(row[Bronze4]) = {a2, b2}
      BY <3>1 DEF Fighters, Sides
    <3> QED
      BY <1>5, <3>2
  <2>2. CASE ~TwoTeam
    <3> DEFINE s1 == row[Semifinal(1)]
               s2 == row[Semifinal(2)]
               l1 == Loser(s1, s1.winner)
               l2 == Loser(s2, s2.winner)
    <3>1. /\ a1 = s1.competitor[1] /\ b2 = s1.competitor[2]
          /\ b1 = s2.competitor[1] /\ a2 = s2.competitor[2]
      BY <2>2 DEF FirstOf, SecondOf
    <3>2. Semifinal(1) \in DOMAIN row /\ Semifinal(2) \in DOMAIN row
      BY <1>4, <2>2 DEF KnockoutMatches
    <3> HIDE DEF a1, a2, b1, b2
    <3>3. Fighters(s1) = {a1, b2} /\ Fighters(s2) = {b1, a2}
      BY <3>1 DEF Fighters, Sides
    <3>4. /\ s1.status = "COMPLETED" /\ s1.winner \in Fighters(s1)
          /\ s2.status = "COMPLETED" /\ s2.winner \in Fighters(s2)
      BY <1>2, <1>5, <3>2, <3>3
    <3>5. /\ row[Final].competitor[1] = s1.winner /\ row[Bronze4].competitor[1] = l1
          /\ row[Final].competitor[2] = s2.winner /\ row[Bronze4].competitor[2] = l2
      BY <1>4, <2>2, <3>4 DEF KnockoutDrawn, FedBySemifinals, Sides
    <3>6. {s1.winner, l1} = {a1, b2} /\ {s2.winner, l2} = {b1, a2}
      BY <3>1, <3>3, <3>4 DEF Loser
    <3> HIDE DEF s1, s2, l1, l2
    <3>7. Fighters(row[Final]) = {s1.winner, s2.winner} /\ Fighters(row[Bronze4]) = {l1, l2}
      BY <3>5 DEF Fighters, Sides
    <3> QED
      BY <1>5, <3>6, <3>7
  <2> QED
    BY <2>1, <2>2
<1>9. /\ row[Final].status = "COMPLETED" /\ row[Final].winner \in Fighters(row[Final])
      /\ row[Bronze4].status = "COMPLETED" /\ row[Bronze4].winner \in Fighters(row[Bronze4])
  BY <1>2, <1>7, <1>8
<1> HIDE DEF a1, a2, b1, b2
<1> QED
  BY <1>6, <1>7, <1>8, <1>9, FourArePlaced

(* With one call at a time, in a category of any size, whatever the        *)
(* results and the order of reading: the two that go on from a pool are    *)
(* the best of it by the matches as they stay.                             *)
THEOREM BestGoOn == Spec => []BestOfPoolsGoOn
<1>1. Init => KnockoutIInv /\ StageTypes /\ SerialIInv
  BY InitKnockout, InitTypes, InitSerial
<1>2. KnockoutIInv /\ StageTypes /\ SerialIInv /\ [Next]_vars => (KnockoutIInv /\ StageTypes /\ SerialIInv)'
  BY StepKnockout, StepTypes, StepSerial
<1>3. KnockoutIInv /\ StageTypes /\ SerialIInv => BestOfPoolsGoOn
  BY BestFollows
<1> QED
  BY <1>1, <1>2, <1>3, PTL DEF Spec

(* With one call at a time a category of any size never gets stuck: there  *)
(* is a match to start or to end until four different competitors are      *)
(* placed first to fourth.                                                 *)
THEOREM CategoryIsFinished == Spec => []PodiumOrAMatchToFight
<1>1. Init => KnockoutIInv /\ StageTypes /\ SerialIInv
  BY InitKnockout, InitTypes, InitSerial
<1>2. KnockoutIInv /\ StageTypes /\ SerialIInv /\ [Next]_vars => (KnockoutIInv /\ StageTypes /\ SerialIInv)'
  BY StepKnockout, StepTypes, StepSerial
<1>3. KnockoutIInv /\ StageTypes /\ SerialIInv => PodiumOrAMatchToFight
  BY PodiumFollows
<1> QED
  BY <1>1, <1>2, <1>3, PTL DEF Spec
=============================================================================
