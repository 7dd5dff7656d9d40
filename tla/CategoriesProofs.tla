-------------------------- MODULE CategoriesProofs --------------------------
(***************************************************************************)
(* Proofs about Categories for every competition, every number of          *)
(* overlapping calls of the organizer and every order of their statements. *)
(*                                                                         *)
(* The invariants come in layers, each inductive with those before it: the *)
(* calls and their locks, the rows and their references, the categories    *)
(* and their competitors, the draws with the matches they number, the mats *)
(* of the matches, the mats and how evenly they are used, the columns the  *)
(* matches are sorted by.  The last part counts what goes before a match,  *)
(* in the queue and in the schedule of its mat, and what the end of a match*)
(* adds to the queue.                                                      *)
(***************************************************************************)
EXTENDS Categories, FiniteSetTheorems, TLAPS

Lemmas == INSTANCE DrawLemmas

-----------------------------------------------------------------------------
(* Calls and their locks.  generateCategories runs one at a time from its  *)
(* second statement on, and has then locked all the categories there are.  *)

Steps == {"idle", "recordWeight", "updateWeight", "clear", "replace", "create",
          "assignCompetitor", "draw", "assign", "createMats"}

CallFields == {"competitor", "weight", "category", "todo", "locked", "known", "members",
               "target", "left"}

CallOK(h) ==
  /\ CallFields \subseteq DOMAIN call[h]
  /\ pc[h] \in Steps
  /\ pc[h] # "idle" => h \in setting.handlers
  /\ pc[h] = "assignCompetitor" => "assignCompetitor" \in setting.ops
  /\ call[h].locked \subseteq DOMAIN category
  /\ LocksCompetitors(h) => call[h].known = DOMAIN category
  /\ pc[h] = "create" => call[h].locked = DOMAIN category

CallsInv ==
  /\ setting \in Settings
  /\ DOMAIN pc = Handlers /\ DOMAIN call = Handlers
  /\ \A h \in Handlers : CallOK(h)
  /\ \A g, h \in Handlers : g # h => call[g].locked \cap call[h].locked = {}
  /\ \A g, h \in Handlers : LocksCompetitors(g) /\ LocksCompetitors(h) => g = h

(* A step of one call: what is known of the others stays.                  *)
OnlyCall(h, where, c) ==
  /\ DOMAIN pc' = Handlers /\ DOMAIN call' = Handlers
  /\ pc'[h] = where /\ call'[h] = c
  /\ \A g \in Handlers \ {h} : pc'[g] = pc[g] /\ call'[g] = call[g]

LEMMA HandlersOfSetting ==
  ASSUME setting \in Settings
  PROVE  setting.handlers \subseteq Handlers /\ IsFiniteSet(setting.handlers)
BY CategoriesTypes, FS_Subset

LEMMA NoCallFields ==
  /\ CallFields \subseteq DOMAIN NoCall
  /\ NoCall.locked = {} /\ NoCall.todo = {}
BY DEF CallFields, NoCall

LEMMA GotoIsOnlyCall ==
  ASSUME CallsInv, NEW h \in Handlers, NEW where, NEW c, Goto(h, where, c)
  PROVE  OnlyCall(h, where, c)
BY DEF CallsInv, Goto, OnlyCall

(* A step of one call that deletes no category and creates none.           *)
LEMMA CallStep ==
  ASSUME CallsInv, NEW h \in setting.handlers, NEW where, NEW c, OnlyCall(h, where, c),
         setting' = setting, DOMAIN category' = DOMAIN category,
         CallFields \subseteq DOMAIN c, where \in Steps,
         where = "assignCompetitor" => "assignCompetitor" \in setting.ops,
         c.locked \subseteq DOMAIN category,
         \A g \in Handlers \ {h} : call[g].locked \cap c.locked = {},
         where \in {"replace", "create"} =>
           c.known = DOMAIN category /\ \A g \in Handlers \ {h} : ~LocksCompetitors(g),
         where = "create" => c.locked = DOMAIN category
  PROVE  CallsInv'
<1> h \in Handlers
  BY HandlersOfSetting DEF CallsInv
<1>1. /\ setting' \in Settings
      /\ DOMAIN pc' = Handlers /\ DOMAIN call' = Handlers
  BY DEF OnlyCall, CallsInv
<1>2. ASSUME NEW g \in Handlers PROVE CallOK(g)'
  <2>1. CASE g = h
    BY <2>1 DEF OnlyCall, CallOK, LocksCompetitors
  <2>2. CASE g # h
    <3>1. pc'[g] = pc[g] /\ call'[g] = call[g] /\ CallOK(g)
      BY <2>2 DEF OnlyCall, CallsInv
    <3> QED
      BY <3>1 DEF CallOK, LocksCompetitors
  <2> QED
    BY <2>1, <2>2
<1>3. ASSUME NEW f \in Handlers, NEW g \in Handlers, f # g
      PROVE  call'[f].locked \cap call'[g].locked = {}
  <2>1. CASE f # h /\ g # h
    BY <1>3, <2>1 DEF OnlyCall, CallsInv
  <2>2. CASE f = h \/ g = h
    BY <1>3, <2>2 DEF OnlyCall
  <2> QED
    BY <2>1, <2>2
<1>4. ASSUME NEW f \in Handlers, NEW g \in Handlers, LocksCompetitors(f)', LocksCompetitors(g)', f # g
      PROVE  FALSE
  <2>1. CASE f # h /\ g # h
    BY <1>4, <2>1 DEF OnlyCall, CallsInv, LocksCompetitors
  <2>2. CASE f = h \/ g = h
    BY <1>4, <2>2 DEF OnlyCall, LocksCompetitors
  <2> QED
    BY <2>1, <2>2
<1> QED
  BY <1>1, <1>2, <1>3, <1>4 DEF CallsInv

(* A call begins with nothing locked, and returns so.                      *)
LEMMA BeginCalls ==
  ASSUME CallsInv, NEW h \in setting.handlers, NEW op, NEW where, NEW c, Begin(h, op, where, c),
         setting' = setting, DOMAIN category' = DOMAIN category,
         CallFields \subseteq DOMAIN c, c.locked = {},
         where \in Steps \ {"replace", "create"},
         where = "assignCompetitor" => op = "assignCompetitor"
  PROVE  CallsInv'
<1> h \in Handlers
  BY HandlersOfSetting DEF CallsInv
<1>1. OnlyCall(h, where, c) /\ op \in setting.ops
  BY GotoIsOnlyCall DEF Begin
<1> QED
  BY <1>1, CallStep

LEMMA ReturnCalls ==
  ASSUME CallsInv, NEW h \in setting.handlers, Return(h),
         setting' = setting, DOMAIN category' = DOMAIN category
  PROVE  CallsInv'
<1> h \in Handlers
  BY HandlersOfSetting DEF CallsInv
<1>1. OnlyCall(h, "idle", NoCall)
  BY GotoIsOnlyCall DEF Return
<1> QED
  BY <1>1, CallStep, NoCallFields DEF Steps

LEMMA IdleCalls ==
  ASSUME CallsInv, setting' = setting, DOMAIN category' = DOMAIN category,
         UNCHANGED <<pc, call>>
  PROVE  CallsInv'
BY DEF CallsInv, CallOK, LocksCompetitors

LEMMA WeighInCalls ==
  ASSUME CallsInv, NEW h \in setting.handlers, NEW c, NEW w,
         RecordWeight(h, c, w) \/ UpdateWeight(h, c, w)
  PROVE  CallsInv'
<1> DEFINE new == [NoCall EXCEPT !.competitor = c, !.weight = w]
<1>1. CallFields \subseteq DOMAIN new /\ new.locked = {}
  BY DEF NoCall, CallFields
<1>2. setting' = setting /\ DOMAIN category' = DOMAIN category
  BY DEF RecordWeight, UpdateWeight, rows
<1>3. \/ Begin(h, "recordWeight", "recordWeight", new)
      \/ Begin(h, "updateWeight", "updateWeight", new)
  BY DEF RecordWeight, UpdateWeight
<1> HIDE DEF new
<1> QED
  BY <1>1, <1>2, <1>3, BeginCalls DEF Steps

LEMMA GenerateCalls ==
  ASSUME CallsInv, NEW h \in setting.handlers,
         GenerateCategories(h) \/ ClearCategories(h) \/ ReplaceCategories(h)
  PROVE  CallsInv'
<1> h \in Handlers
  BY HandlersOfSetting DEF CallsInv
<1>1. setting' = setting /\ category' = category
  BY DEF GenerateCategories, ClearCategories, ReplaceCategories, rows
<1>2. CASE GenerateCategories(h)
  BY <1>1, <1>2, BeginCalls, NoCallFields DEF GenerateCategories, Steps
<1>3. CASE ClearCategories(h)
  <2> DEFINE new == [NoCall EXCEPT !.known = DOMAIN category]
  <2>1. CallFields \subseteq DOMAIN new /\ new.locked = {} /\ new.known = DOMAIN category
    BY DEF NoCall, CallFields
  <2>2. OnlyCall(h, "replace", new)
    BY <1>3, GotoIsOnlyCall DEF ClearCategories
  <2>3. \A g \in Handlers \ {h} : ~LocksCompetitors(g)
    BY <1>3 DEF ClearCategories, CompetitorsFree, LocksCompetitors
  <2> HIDE DEF new
  <2> QED
    BY <1>1, <2>1, <2>2, <2>3, CallStep DEF Steps
<1>4. CASE ReplaceCategories(h)
  <2>1. PICK members :
          /\ Goto(h, "create", [call[h] EXCEPT !.locked = call[h].known, !.members = members])
          /\ pc[h] = "replace" /\ CategoriesFree(h, call[h].known)
    BY <1>4 DEF ReplaceCategories
  <2> DEFINE new == [call[h] EXCEPT !.locked = call[h].known, !.members = members]
  <2>2. OnlyCall(h, "create", new)
    BY <2>1, GotoIsOnlyCall
  <2>3. CallOK(h) /\ LocksCompetitors(h)
    BY <2>1 DEF CallsInv, LocksCompetitors
  <2>4. /\ CallFields \subseteq DOMAIN new
        /\ new.locked = DOMAIN category /\ new.known = DOMAIN category
    BY <2>3 DEF CallOK, CallFields
  <2>5. \A g \in Handlers \ {h} : ~LocksCompetitors(g)
    BY <2>3 DEF CallsInv
  <2>6. \A g \in Handlers \ {h} : call[g].locked \cap new.locked = {}
    BY <2>1, <2>3, <2>4 DEF CategoriesFree, CallOK
  <2> HIDE DEF new
  <2> QED
    BY <1>1, <2>2, <2>4, <2>5, <2>6, CallStep DEF Steps
<1> QED
  BY <1>2, <1>3, <1>4

(* The categories that are there when new ones are created were locked by  *)
(* this call, so no other call holds any; none of them is left.            *)
LEMMA CreateCalls ==
  ASSUME CallsInv, NEW h \in setting.handlers, CreateCategories(h)
  PROVE  CallsInv'
<1> h \in Handlers
  BY HandlersOfSetting DEF CallsInv
<1>1. OnlyCall(h, "idle", NoCall) /\ setting' = setting
  BY GotoIsOnlyCall DEF CreateCategories, Return
<1>2. LocksCompetitors(h) /\ call[h].locked = DOMAIN category
  BY DEF CreateCategories, CallsInv, CallOK, LocksCompetitors
<1>3. \A g \in Handlers \ {h} : call[g].locked = {} /\ ~LocksCompetitors(g)
  BY <1>2 DEF CallsInv, CallOK
<1>4. ASSUME NEW g \in Handlers
      PROVE  CallOK(g)' /\ call'[g].locked = {} /\ ~LocksCompetitors(g)'
  <2>1. CASE g = h
    BY <2>1, <1>1, NoCallFields DEF OnlyCall, CallOK, Steps, LocksCompetitors
  <2>2. CASE g # h
    <3>1. pc'[g] = pc[g] /\ call'[g] = call[g] /\ CallOK(g)
      BY <2>2, <1>1 DEF OnlyCall, CallsInv
    <3> QED
      BY <3>1, <2>2, <1>1, <1>3 DEF CallOK, LocksCompetitors
  <2> QED
    BY <2>1, <2>2
<1> QED
  BY <1>1, <1>4 DEF CallsInv, OnlyCall

LEMMA AssignCompetitorCalls ==
  ASSUME CallsInv, NEW h \in setting.handlers, NEW c, AssignCompetitor(h, c)
  PROVE  CallsInv'
<1>1. PICK id \in DOMAIN category :
        Begin(h, "assignCompetitor", "assignCompetitor",
              [NoCall EXCEPT !.competitor = c, !.category = id])
  BY DEF AssignCompetitor
<1> DEFINE new == [NoCall EXCEPT !.competitor = c, !.category = id]
<1>2. CallFields \subseteq DOMAIN new /\ new.locked = {}
  BY DEF NoCall, CallFields
<1>3. setting' = setting /\ category' = category
  BY DEF AssignCompetitor, rows
<1>4. Begin(h, "assignCompetitor", "assignCompetitor", new)
  BY <1>1
<1> HIDE DEF new
<1> QED
  BY <1>2, <1>3, <1>4, BeginCalls DEF Steps

LEMMA GenerateBracketsCalls ==
  ASSUME CallsInv, NEW h \in setting.handlers, GenerateBrackets(h)
  PROVE  CallsInv'
<1> DEFINE new == [NoCall EXCEPT !.todo = Drawable, !.known = DOMAIN match,
                      !.members = [id \in Drawable |-> Sorted(Members(id), ReadBefore)],
                      !.target = [id \in Drawable |-> category[id].mat]]
<1>1. CallFields \subseteq DOMAIN new /\ new.locked = {}
  BY DEF NoCall, CallFields
<1>2. setting' = setting /\ category' = category /\ Begin(h, "draw", "draw", new)
  BY DEF GenerateBrackets, rows
<1> HIDE DEF new
<1> QED
  BY <1>1, <1>2, BeginCalls DEF Steps

LEMMA AssignMatsCalls ==
  ASSUME CallsInv, NEW h \in setting.handlers, NEW id, NEW mat,
         AssignCategoriesToMats(h) \/ AssignCategoryToMat(h, id, mat)
  PROVE  CallsInv'
<1>1. setting' = setting /\ category' = category
  BY DEF AssignCategoriesToMats, AssignCategoryToMat, rows
<1>2. CASE AssignCategoriesToMats(h)
  <2>1. PICK target :
          Begin(h, "assignAll", "assign",
            [NoCall EXCEPT !.todo = DOMAIN category, !.known = DOMAIN current,
                           !.members = [i \in DOMAIN category |-> Cardinality(Members(i))],
                           !.target = target])
    BY <1>2 DEF AssignCategoriesToMats
  <2> DEFINE new == [NoCall EXCEPT !.todo = DOMAIN category, !.known = DOMAIN current,
                          !.members = [i \in DOMAIN category |-> Cardinality(Members(i))],
                          !.target = target]
  <2>2. CallFields \subseteq DOMAIN new /\ new.locked = {}
    BY DEF NoCall, CallFields
  <2>3. Begin(h, "assignAll", "assign", new)
    BY <2>1
  <2> HIDE DEF new
  <2> QED
    BY <1>1, <2>2, <2>3, BeginCalls DEF Steps
<1>3. CASE AssignCategoryToMat(h, id, mat)
  <2> DEFINE new == [NoCall EXCEPT !.todo = {id}, !.target = [i \in {id} |-> mat]]
  <2>1. CallFields \subseteq DOMAIN new /\ new.locked = {}
    BY DEF NoCall, CallFields
  <2>2. Begin(h, "assign", "assign", new)
    BY <1>3 DEF AssignCategoryToMat
  <2> HIDE DEF new
  <2> QED
    BY <1>1, <2>1, <2>2, BeginCalls DEF Steps
<1> QED
  BY <1>2, <1>3

LEMMA UpdateCategoryCalls ==
  ASSUME CallsInv, NEW h \in setting.handlers, UpdateCategory(h)
  PROVE  CallsInv'
<1> h \in Handlers
  BY HandlersOfSetting DEF CallsInv
<1>1. setting' = setting /\ category' = category
  BY DEF UpdateCategory, rows
<1>2. PICK id \in call[h].todo :
        /\ CategoriesFree(h, {id})
        /\ IF id \in DOMAIN category
           THEN Goto(h, pc[h], [call[h] EXCEPT !.todo = @ \ {id}, !.locked = @ \cup {id}])
           ELSE Return(h)
  BY DEF UpdateCategory
<1>3. CASE id \in DOMAIN category
  <2> DEFINE new == [call[h] EXCEPT !.todo = @ \ {id}, !.locked = @ \cup {id}]
  <2>1. CallOK(h) /\ pc[h] \in {"draw", "assign"}
    BY DEF CallsInv, UpdateCategory
  <2>2. CallFields \subseteq DOMAIN new /\ new.locked = call[h].locked \cup {id}
    BY <2>1 DEF CallOK, CallFields
  <2>3. OnlyCall(h, pc[h], new)
    BY <1>2, <1>3, GotoIsOnlyCall
  <2>4. \A g \in Handlers \ {h} : call[g].locked \cap new.locked = {}
    BY <1>2, <2>2 DEF CallsInv, CategoriesFree
  <2>5. new.locked \subseteq DOMAIN category
    BY <1>3, <2>1, <2>2 DEF CallOK
  <2> HIDE DEF new
  <2> QED
    BY <1>1, <2>1, <2>2, <2>3, <2>4, <2>5, CallStep DEF Steps
<1>4. CASE id \notin DOMAIN category
  BY <1>1, <1>2, <1>4, ReturnCalls
<1> QED
  BY <1>3, <1>4

LEMMA MatCalls ==
  ASSUME CallsInv, NEW h \in setting.handlers, NEW n, CreateMats(h, n) \/ CreateMat(h)
  PROVE  CallsInv'
<1> h \in Handlers
  BY HandlersOfSetting DEF CallsInv
<1>1. setting' = setting /\ category' = category
  BY DEF CreateMats, CreateMat, rows
<1>2. CASE CreateMats(h, n)
  <2> DEFINE new == [NoCall EXCEPT !.target = NextNumber, !.left = n]
  <2>1. CallFields \subseteq DOMAIN new /\ new.locked = {}
    BY DEF NoCall, CallFields
  <2>2. Begin(h, "createMats", "createMats", new)
    BY <1>2 DEF CreateMats
  <2> HIDE DEF new
  <2> QED
    BY <1>1, <2>1, <2>2, BeginCalls DEF Steps
<1>3. CASE CreateMat(h)
  <2>1. CASE Return(h)
    BY <1>1, <2>1, ReturnCalls
  <2>2. CASE Goto(h, pc[h], [call[h] EXCEPT !.target = @ + 1, !.left = @ - 1])
    <3> DEFINE new == [call[h] EXCEPT !.target = @ + 1, !.left = @ - 1]
    <3>1. CallOK(h) /\ pc[h] = "createMats"
      BY <1>3 DEF CallsInv, CreateMat
    <3>2. CallFields \subseteq DOMAIN new /\ new.locked = call[h].locked
      BY <3>1 DEF CallOK, CallFields
    <3>3. OnlyCall(h, pc[h], new)
      BY <2>2, GotoIsOnlyCall
    <3>4. \A g \in Handlers \ {h} : call[g].locked \cap new.locked = {}
      BY <3>2 DEF CallsInv
    <3>5. new.locked \subseteq DOMAIN category
      BY <3>1, <3>2 DEF CallOK
    <3> HIDE DEF new
    <3> QED
      BY <1>1, <3>1, <3>2, <3>3, <3>4, <3>5, CallStep DEF Steps
  <2> QED
    BY <1>3, <2>1, <2>2 DEF CreateMat
<1> QED
  BY <1>2, <1>3

LEMMA InitCalls == Init => CallsInv
BY NoCallFields DEF Init, CallsInv, CallOK, Steps, LocksCompetitors

LEMMA StepCalls == CallsInv /\ [Next]_vars => CallsInv'
<1> SUFFICES ASSUME CallsInv, [Next]_vars PROVE CallsInv'
  OBVIOUS
<1>1. ASSUME NEW h \in setting.handlers,
             WriteWeight(h) \/ WriteCategory(h) \/ CommitDraw(h) \/ CommitMats(h) \/ Rollback(h)
      PROVE  CallsInv'
  <2>1. Return(h) /\ setting' = setting
    BY <1>1 DEF WriteWeight, WriteCategory, CommitDraw, CommitMats, Rollback
  <2>2. DOMAIN category' = DOMAIN category
    BY <1>1 DEF WriteWeight, WriteCategory, CommitDraw, CommitMats, Rollback, rows
  <2> QED
    BY <2>1, <2>2, ReturnCalls
<1>2. ASSUME \/ \E c \in DOMAIN competitor : ByOrganizer(c)
             \/ Activate
             \/ \E mat \in DOMAIN current : StartMatch(mat) \/ \E m \in DOMAIN match : AssignMatchToMat(mat, m)
             \/ \E m \in DOMAIN match, side \in setting.winners : EndMatch(m, side)
             \/ UNCHANGED vars
      PROVE  CallsInv'
  <2>1. setting' = setting /\ category' = category /\ UNCHANGED <<pc, call>>
    BY <1>2 DEF ByOrganizer, Activate, StartMatch, AssignMatchToMat, EndMatch, rows, vars
  <2> QED
    BY <2>1, IdleCalls
<1> QED
  BY <1>1, <1>2, WeighInCalls, GenerateCalls, CreateCalls, AssignCompetitorCalls,
     GenerateBracketsCalls, AssignMatsCalls, UpdateCategoryCalls, MatCalls DEF Next

-----------------------------------------------------------------------------
(* The rows: their columns, and that the category of a match exists.       *)

CompetitorColumns == {"weight", "category", "status"}

CategoryColumns == {"class", "mat"}

MatchColumns == {"category", "format", "place", "competitor", "status", "mat"}

RowsInv ==
  /\ DOMAIN competitor = DOMAIN setting.weight
  /\ \A c \in DOMAIN competitor : CompetitorColumns \subseteq DOMAIN competitor[c]
  /\ \A id \in DOMAIN category : CategoryColumns \subseteq DOMAIN category[id]
  /\ \A m \in DOMAIN match :
       /\ MatchColumns \subseteq DOMAIN match[m]
       /\ match[m].category \in DOMAIN category
       /\ m[2] = match[m].category

(* What a draw writes for one category.                                    *)
LEMMA DrawnRows ==
  ASSUME NEW h, NEW id, NEW k \in DOMAIN DrawOf(h, id)
  PROVE  /\ k[2] = id
         /\ MatchColumns \subseteq DOMAIN DrawOf(h, id)[k]
         /\ DrawOf(h, id)[k].category = id
         /\ DrawOf(h, id)[k].mat = call[h].target[id]
         /\ DrawOf(h, id)[k].status = "SCHEDULED"
<1>1. PICK i : k = <<draws + 1, id, i>>
  BY DEF DrawOf
<1>2. \E format, place, entrants :
        DrawOf(h, id)[k] = [category |-> id, format |-> format, place |-> place,
                            competitor |-> entrants, status |-> "SCHEDULED",
                            mat |-> call[h].target[id]]
  BY DEF DrawOf
<1> QED
  BY <1>1, <1>2 DEF MatchColumns

(* The matches after a draw: new ones of the categories that were drawn,   *)
(* and the old ones of the others.                                         *)
LEMMA MatchesDrawn ==
  ASSUME NEW h, CommitDraw(h), NEW k \in DOMAIN match'
  PROVE  \/ /\ k[2] \in call[h].locked
            /\ k \in DOMAIN DrawOf(h, k[2])
            /\ match'[k] = DrawOf(h, k[2])[k]
         \/ /\ k \in DOMAIN match /\ match[k].category \notin call[h].locked
            /\ match'[k] = match[k]
<1> DEFINE draw == [id \in call[h].locked |-> DrawOf(h, id)]
           drawn == UNION {DOMAIN draw[id] : id \in call[h].locked}
           kept == DOMAIN match \ Replaced(h)
<1>1. match' = [n \in drawn \cup kept |-> IF n \in drawn THEN draw[n[2]][n] ELSE match[n]]
  BY DEF CommitDraw
<1>2. \A id \in call[h].locked : draw[id] = DrawOf(h, id)
  OBVIOUS
<1> HIDE DEF draw
<1>3. CASE k \in drawn
  <2>1. PICK id \in call[h].locked : k \in DOMAIN DrawOf(h, id)
    BY <1>2, <1>3
  <2>2. k[2] = id
    BY <2>1, DrawnRows
  <2>3. match'[k] = draw[k[2]][k]
    BY <1>1, <1>3
  <2> QED
    BY <1>2, <2>1, <2>2, <2>3
<1>4. CASE k \notin drawn
  <2>1. k \in kept /\ match'[k] = match[k]
    BY <1>1, <1>4
  <2> QED
    BY <2>1 DEF Replaced
<1> QED
  BY <1>3, <1>4

(* The categories after generateCategories: new ones only, one for a class *)
(* and each competitor in the one of their class.                          *)
NewIds(h) ==
  LET order == SetToSeq(DOMAIN call[h].members)
  IN  [class \in DOMAIN call[h].members |-> created + (CHOOSE i \in DOMAIN order : order[i] = class)]

LEMMA CreatedCategories ==
  ASSUME CallsInv, NEW h \in Handlers, CreateCategories(h)
  PROVE  /\ DOMAIN category' = {NewIds(h)[class] : class \in DOMAIN call[h].members}
         /\ \A id \in DOMAIN category' :
              /\ CategoryColumns \subseteq DOMAIN category'[id]
              /\ category'[id].class = SetToSeq(DOMAIN call[h].members)[id - created]
<1> DEFINE members == call[h].members
           order == SetToSeq(DOMAIN members)
           id(class) == created + (CHOOSE i \in DOMAIN order : order[i] = class)
           ids == {id(class) : class \in DOMAIN members}
           new == [i \in ids |-> [class |-> order[i - created], mat |-> None]]
<1>1. category' = [i \in DOMAIN new \cup (DOMAIN category \ call[h].locked) |->
                     IF i \in DOMAIN new THEN new[i] ELSE category[i]]
  BY DEF CreateCategories
<1>2. DOMAIN category \ call[h].locked = {}
  BY DEF CreateCategories, CallsInv, CallOK
<1>3. DOMAIN category' = ids /\ \A i \in ids : category'[i] = new[i]
  BY <1>1, <1>2
<1>4. ids = {NewIds(h)[class] : class \in DOMAIN members}
  BY DEF NewIds
<1>5. ASSUME NEW i \in ids
      PROVE  CategoryColumns \subseteq DOMAIN category'[i] /\ category'[i].class = order[i - created]
  <2>1. category'[i] = [class |-> order[i - created], mat |-> None]
    BY <1>3
  <2> HIDE DEF order
  <2> QED
    BY <2>1 DEF CategoryColumns
<1> QED
  BY <1>3, <1>4, <1>5

LEMMA CreatedMatches ==
  ASSUME CallsInv, RowsInv, NEW h \in Handlers, CreateCategories(h)
  PROVE  DOMAIN match' = {}
<1>1. call[h].locked = DOMAIN category
  BY DEF CreateCategories, CallsInv, CallOK
<1>2. DOMAIN match' = {m \in DOMAIN match : match[m].category \notin call[h].locked}
  BY DEF CreateCategories, Restrict
<1> QED
  BY <1>1, <1>2 DEF RowsInv

LEMMA CompetitorWrites ==
  ASSUME NEW row, CompetitorColumns \subseteq DOMAIN row, NEW weight, NEW s, NEW id
  PROVE  \A new \in {WeighedIn(row, weight), Reweighed(row, weight), Withdrawn(row),
                     Disqualified(row), WithStatus(row, s), [row EXCEPT !.category = id]} :
           CompetitorColumns \subseteq DOMAIN new
BY DEF CompetitorColumns, WeighedIn, Reweighed, Withdrawn, Disqualified, WithStatus

LEMMA InitRows == Init => RowsInv
<1> SUFFICES ASSUME Init PROVE RowsInv
  OBVIOUS
<1>1. /\ DOMAIN competitor = DOMAIN setting.weight
      /\ \A c \in DOMAIN competitor : CompetitorColumns \subseteq DOMAIN competitor[c]
  BY DEF Init, CompetitorColumns
<1>2. DOMAIN category = {} /\ DOMAIN match = {}
  BY DEF Init
<1> QED
  BY <1>1, <1>2 DEF RowsInv

(* The calls that only read, and what is not of these rows.                *)
Reads(h) ==
  \/ \E c \in DOMAIN competitor, w \in setting.scale : RecordWeight(h, c, w) \/ UpdateWeight(h, c, w)
  \/ GenerateCategories(h) \/ ClearCategories(h) \/ ReplaceCategories(h)
  \/ \E c \in DOMAIN competitor : AssignCompetitor(h, c)
  \/ GenerateBrackets(h) \/ UpdateCategory(h) \/ AssignCategoriesToMats(h)
  \/ \E id \in DOMAIN category, mat \in DOMAIN current \cup {None} : AssignCategoryToMat(h, id, mat)
  \/ \E n \in 1..2 : CreateMats(h, n)
  \/ Rollback(h)

LEMMA ReadsFrame ==
  ASSUME NEW h, Reads(h)
  PROVE  UNCHANGED <<setting, status, competitor, category, match, current, created, draws>>
<1>1. UNCHANGED <<setting, status, rows, created, draws>>
  BY DEF Reads, RecordWeight, UpdateWeight, GenerateCategories, ClearCategories, ReplaceCategories,
     AssignCompetitor, GenerateBrackets, UpdateCategory, AssignCategoriesToMats,
     AssignCategoryToMat, CreateMats, Rollback
<1> QED
  BY <1>1 DEF rows

(* The steps there are: of a call that reads or that writes, and of others.*)
LEMMA StepsThereAre ==
  ASSUME [Next]_vars
  PROVE  \/ \E h \in setting.handlers :
              \/ Reads(h)
              \/ WriteWeight(h) \/ CreateCategories(h) \/ WriteCategory(h)
              \/ CommitDraw(h) \/ CommitMats(h) \/ CreateMat(h)
         \/ \E c \in DOMAIN competitor : ByOrganizer(c)
         \/ Activate
         \/ \E mat \in DOMAIN current : StartMatch(mat) \/ \E m \in DOMAIN match : AssignMatchToMat(mat, m)
         \/ \E m \in DOMAIN match, side \in setting.winners : EndMatch(m, side)
         \/ UNCHANGED vars
BY DEF Next, Reads

LEMMA SameRows ==
  ASSUME RowsInv, UNCHANGED <<setting, competitor, category, match>>
  PROVE  RowsInv'
BY DEF RowsInv

(* What the end of the last pool match creates.                            *)
LEMMA KnockoutRows ==
  ASSUME NEW m, NEW a, NEW b, NEW k \in DOMAIN Knockout(m, a, b)
  PROVE  LET row == Knockout(m, a, b)[k]
         IN  /\ k[2] = match[m].category
             /\ MatchColumns \subseteq DOMAIN row
             /\ row.category = match[m].category
             /\ row.format = "POOLS"
             /\ row.status = "SCHEDULED"
             /\ row.mat = None
<1>1. PICK i : k = <<m[1], match[m].category, i>>
  BY DEF Knockout
<1>2. \E place, entrants :
        Knockout(m, a, b)[k] = [category |-> match[m].category, format |-> "POOLS",
                                place |-> place, competitor |-> entrants,
                                status |-> "SCHEDULED", mat |-> None]
  BY DEF Knockout
<1> QED
  BY <1>1, <1>2 DEF MatchColumns

(* A match that starts or ends stays in its category and on its mat, and   *)
(* so do those it sends somebody to.  An end may create a knock-out.       *)
LEMMA FoughtMatches ==
  ASSUME RowsInv, NEW mat, NEW m, NEW side, StartMatch(mat) \/ EndMatch(m, side)
  PROVE  /\ DOMAIN match \subseteq DOMAIN match'
         /\ \A k \in DOMAIN match :
              /\ MatchColumns \subseteq DOMAIN match'[k]
              /\ match'[k].category = match[k].category
              /\ match'[k].format = match[k].format
              /\ match'[k].place = match[k].place
              /\ match'[k].mat = match[k].mat
              /\ match[k].status = "COMPLETED" => match'[k].status = "COMPLETED"
         /\ \A k \in DOMAIN match' \ DOMAIN match :
              /\ EndMatch(m, side)
              /\ MatchColumns \subseteq DOMAIN match'[k]
              /\ k[2] = match[m].category
              /\ match'[k].category = match[m].category
              /\ match'[k].format = "POOLS"
              /\ match'[k].status = "SCHEDULED"
              /\ match'[k].mat = None
         /\ UNCHANGED <<setting, status, competitor, category, pc, call, created, draws>>
<1>1. \A k \in DOMAIN match : MatchColumns \subseteq DOMAIN match[k]
  BY DEF RowsInv
<1>2. CASE StartMatch(mat)
  <2>1. PICK n : /\ match' = [match EXCEPT ![n].status = "ACTIVE"]
                 /\ match[n].status = "SCHEDULED"
                 /\ UNCHANGED <<setting, status, competitor, category, pc, call, created, draws>>
    BY <1>2 DEF StartMatch
  <2> QED
    BY <1>1, <2>1 DEF MatchColumns
<1>3. CASE EndMatch(m, side)
  <2>1. /\ DOMAIN Fought(m, side) = DOMAIN match
        /\ \A k \in DOMAIN match :
             LET row == Fought(m, side)[k]
             IN  /\ MatchColumns \subseteq DOMAIN row
                 /\ row.category = match[k].category /\ row.format = match[k].format
                 /\ row.place = match[k].place /\ row.mat = match[k].mat
                 /\ match[k].status = "COMPLETED" => row.status = "COMPLETED"
    BY <1>1 DEF Fought, MatchColumns
  <2>2. UNCHANGED <<setting, status, competitor, category, pc, call, created, draws>>
    BY <1>3 DEF EndMatch
  <2>3. CASE match' = Fought(m, side)
    BY <2>1, <2>2, <2>3
  <2>4. ASSUME NEW a, NEW b, match' = Inserted(Knockout(m, a, b), Fought(m, side))
        PROVE  /\ DOMAIN match' = DOMAIN match \cup DOMAIN Knockout(m, a, b)
               /\ \A k \in DOMAIN match : match'[k] = Fought(m, side)[k]
               /\ \A k \in DOMAIN match' \ DOMAIN match : match'[k] = Knockout(m, a, b)[k]
    BY <2>1, <2>4 DEF Inserted
  <2>5. ASSUME NEW a, NEW b, match' = Inserted(Knockout(m, a, b), Fought(m, side)),
               NEW k \in DOMAIN match' \ DOMAIN match
        PROVE  /\ MatchColumns \subseteq DOMAIN match'[k]
               /\ k[2] = match[m].category
               /\ match'[k].category = match[m].category
               /\ match'[k].format = "POOLS"
               /\ match'[k].status = "SCHEDULED"
               /\ match'[k].mat = None
    <3>1. k \in DOMAIN Knockout(m, a, b) /\ match'[k] = Knockout(m, a, b)[k]
      BY <2>4, <2>5
    <3> QED
      BY <3>1, KnockoutRows
  <2>6. match' = Fought(m, side) \/ \E a, b : match' = Inserted(Knockout(m, a, b), Fought(m, side))
    BY <1>3 DEF EndMatch
  <2>7. ASSUME NEW a, NEW b, match' = Inserted(Knockout(m, a, b), Fought(m, side))
        PROVE  /\ DOMAIN match \subseteq DOMAIN match'
               /\ \A k \in DOMAIN match : match'[k] = Fought(m, side)[k]
    BY <2>4, <2>7
  <2> QED
    BY <1>3, <2>1, <2>2, <2>3, <2>5, <2>6, <2>7
<1> QED
  BY <1>2, <1>3

(* The rows after the end of a match: those there were, with the match over*)
(* and those it sends somebody to, and those of the knock-out if there is  *)
(* one now.                                                                *)
LEMMA EndIsFought ==
  ASSUME RowsInv, NEW m, NEW side, EndMatch(m, side)
  PROVE  /\ \A k \in DOMAIN match :
              /\ match'[k] = Fought(m, side)[k]
              /\ match'[k].status = IF k = m THEN "COMPLETED" ELSE match[k].status
              /\ match'[k].competitor = IF match[k].category = match[m].category
                                        THEN Advanced(m, side, k) ELSE match[k].competitor
         /\ \/ DOMAIN match' = DOMAIN match
            \/ /\ EndsPoolStage(m)
               /\ \E a \in FirstTwo(match[m].category, "A"), b \in FirstTwo(match[m].category, "B") :
                    /\ DOMAIN match' = DOMAIN match \cup DOMAIN Knockout(m, a, b)
                    /\ \A k \in DOMAIN match' \ DOMAIN match : match'[k] = Knockout(m, a, b)[k]
<1>1. /\ DOMAIN Fought(m, side) = DOMAIN match
      /\ \A k \in DOMAIN match :
           LET row == Fought(m, side)[k]
           IN  /\ row.status = IF k = m THEN "COMPLETED" ELSE match[k].status
               /\ row.competitor = IF match[k].category = match[m].category
                                   THEN Advanced(m, side, k) ELSE match[k].competitor
  <2>1. \A k \in DOMAIN match : MatchColumns \subseteq DOMAIN match[k]
    BY DEF RowsInv
  <2> QED
    BY <2>1 DEF Fought, MatchColumns
<1>2. CASE match' = Fought(m, side)
  BY <1>1, <1>2
<1>3. ASSUME EndsPoolStage(m),
             NEW a \in FirstTwo(match[m].category, "A"), NEW b \in FirstTwo(match[m].category, "B"),
             match' = Inserted(Knockout(m, a, b), Fought(m, side))
      PROVE  /\ DOMAIN match' = DOMAIN match \cup DOMAIN Knockout(m, a, b)
             /\ \A k \in DOMAIN match : match'[k] = Fought(m, side)[k]
             /\ \A k \in DOMAIN match' \ DOMAIN match : match'[k] = Knockout(m, a, b)[k]
  BY <1>1, <1>3 DEF Inserted
<1>4. \/ match' = Fought(m, side)
      \/ /\ EndsPoolStage(m)
         /\ \E a \in FirstTwo(match[m].category, "A"), b \in FirstTwo(match[m].category, "B") :
              match' = Inserted(Knockout(m, a, b), Fought(m, side))
  BY DEF EndMatch
<1> QED
  BY <1>1, <1>2, <1>3, <1>4

(* A category that goes to a mat takes its matches along.                  *)
LEMMA MovedRows ==
  ASSUME RowsInv, NEW h, CommitMats(h)
  PROVE  /\ DOMAIN category' = DOMAIN category /\ DOMAIN match' = DOMAIN match
         /\ \A id \in DOMAIN category :
              /\ CategoryColumns \subseteq DOMAIN category'[id]
              /\ category'[id].class = category[id].class
              /\ category'[id].mat = IF id \in DOMAIN call[h].target THEN call[h].target[id]
                                                                   ELSE category[id].mat
         /\ \A k \in DOMAIN match :
              /\ MatchColumns \subseteq DOMAIN match'[k]
              /\ match'[k].category = match[k].category
              /\ match'[k].format = match[k].format
              /\ match'[k].place = match[k].place
              /\ match'[k].competitor = match[k].competitor
              /\ match'[k].status = match[k].status
              /\ match'[k].mat = IF match[k].category \in DOMAIN call[h].target /\ MovesAlong(k)
                                THEN call[h].target[match[k].category] ELSE match[k].mat
         /\ UNCHANGED <<setting, status, competitor, current, created, draws>>
<1> DEFINE target == call[h].target
<1>1. /\ category' = [id \in DOMAIN category |->
           IF id \in DOMAIN target THEN [category[id] EXCEPT !.mat = target[id]] ELSE category[id]]
      /\ match' = [m \in DOMAIN match |->
           IF match[m].category \in DOMAIN target /\ MovesAlong(m)
           THEN [match[m] EXCEPT !.mat = target[match[m].category]] ELSE match[m]]
      /\ UNCHANGED <<setting, status, competitor, current, created, draws>>
  BY DEF CommitMats
<1> HIDE DEF target
<1>2. \A id \in DOMAIN category : CategoryColumns \subseteq DOMAIN category[id]
  BY DEF RowsInv
<1>3. \A m \in DOMAIN match : MatchColumns \subseteq DOMAIN match[m]
  BY DEF RowsInv
<1>4. /\ DOMAIN category' = DOMAIN category
      /\ \A id \in DOMAIN category :
              /\ CategoryColumns \subseteq DOMAIN category'[id]
              /\ category'[id].class = category[id].class
              /\ category'[id].mat = IF id \in DOMAIN target THEN target[id] ELSE category[id].mat
  BY <1>1, <1>2 DEF CategoryColumns
<1>5. /\ DOMAIN match' = DOMAIN match
      /\ \A k \in DOMAIN match :
              /\ MatchColumns \subseteq DOMAIN match'[k]
              /\ match'[k].category = match[k].category
              /\ match'[k].format = match[k].format
              /\ match'[k].place = match[k].place
              /\ match'[k].competitor = match[k].competitor
              /\ match'[k].status = match[k].status
              /\ match'[k].mat = IF match[k].category \in DOMAIN target /\ MovesAlong(k)
                                THEN target[match[k].category] ELSE match[k].mat
  BY <1>1, <1>3 DEF MatchColumns
<1> QED
  BY <1>1, <1>4, <1>5 DEF target

(* A write of one row of Competitor. *)
LEMMA CompetitorWritten ==
  ASSUME RowsInv, NEW h, NEW c, WriteWeight(h) \/ WriteCategory(h) \/ ByOrganizer(c)
  PROVE  /\ DOMAIN competitor' = DOMAIN competitor
         /\ \A d \in DOMAIN competitor : CompetitorColumns \subseteq DOMAIN competitor'[d]
         /\ UNCHANGED <<setting, category, match, created, draws>>
<1>1. \A d \in DOMAIN competitor : CompetitorColumns \subseteq DOMAIN competitor[d]
  BY DEF RowsInv
<1>2. UNCHANGED <<setting, category, match, created, draws>>
  BY DEF WriteWeight, WriteCategory, ByOrganizer
<1>4. CASE WriteWeight(h)
  <2> DEFINE d == call[h].competitor
             new == IF pc[h] = "recordWeight" THEN WeighedIn(competitor[d], call[h].weight)
                                              ELSE Reweighed(competitor[d], call[h].weight)
  <2>1. competitor' = [competitor EXCEPT ![d] = new]
    BY <1>4 DEF WriteWeight
  <2>2. d \in DOMAIN competitor => CompetitorColumns \subseteq DOMAIN new
    BY <1>1, CompetitorWrites
  <2> HIDE DEF d, new
  <2> QED
    BY <1>1, <1>2, <2>1, <2>2
<1>3. CASE WriteCategory(h)
  <2> DEFINE d == call[h].competitor
             new == [competitor[d] EXCEPT !.category = call[h].category]
  <2>1. competitor' = [competitor EXCEPT ![d] = new] \/ competitor' = competitor
    BY <1>3 DEF WriteCategory
  <2>2. d \in DOMAIN competitor => CompetitorColumns \subseteq DOMAIN new
    BY <1>1, CompetitorWrites
  <2> HIDE DEF d, new
  <2> QED
    BY <1>1, <1>2, <2>1, <2>2
<1>5. CASE ByOrganizer(c)
  <2>1. PICK new \in {Withdrawn(competitor[c]), Disqualified(competitor[c])}
                 \cup {WithStatus(competitor[c], s) : s \in RegistrationStatuses} :
          competitor' = [competitor EXCEPT ![c] = new]
    BY <1>5 DEF ByOrganizer
  <2>2. c \in DOMAIN competitor => CompetitorColumns \subseteq DOMAIN new
    BY <1>1, CompetitorWrites
  <2> QED
    BY <1>1, <1>2, <2>1, <2>2
<1> QED
  BY <1>3, <1>4, <1>5

LEMMA StepRows == CallsInv /\ RowsInv /\ [Next]_vars => RowsInv'
<1> SUFFICES ASSUME CallsInv, RowsInv, [Next]_vars PROVE RowsInv'
  OBVIOUS
<1>1. ASSUME NEW h \in setting.handlers, Reads(h) PROVE RowsInv'
  BY <1>1, ReadsFrame, SameRows
<1>2. ASSUME NEW h, NEW c, WriteWeight(h) \/ WriteCategory(h) \/ ByOrganizer(c) PROVE RowsInv'
  BY <1>2, CompetitorWritten DEF RowsInv
<1>3. ASSUME NEW h \in setting.handlers, CreateCategories(h) PROVE RowsInv'
  <2> h \in Handlers
    BY HandlersOfSetting DEF CallsInv
  <2>1. PICK id : /\ setting' = setting
                  /\ competitor' = [c \in DOMAIN competitor |-> [competitor[c] EXCEPT !.category = id[c]]]
    <3> DEFINE members == call[h].members
               order == SetToSeq(DOMAIN members)
               number(class) == created + (CHOOSE i \in DOMAIN order : order[i] = class)
               target == [c \in DOMAIN competitor |->
                            IF \E class \in DOMAIN members : c \in members[class]
                            THEN number(CHOOSE class \in DOMAIN members : c \in members[class]) ELSE None]
    <3>1. /\ setting' = setting
          /\ competitor' = [c \in DOMAIN competitor |-> [competitor[c] EXCEPT !.category = target[c]]]
      BY <1>3 DEF CreateCategories
    <3> HIDE DEF target
    <3> QED
      BY <3>1
  <2>2. /\ DOMAIN competitor' = DOMAIN competitor
        /\ \A c \in DOMAIN competitor : CompetitorColumns \subseteq DOMAIN competitor'[c]
    BY <2>1, CompetitorWrites DEF RowsInv
  <2>3. \A i \in DOMAIN category' : CategoryColumns \subseteq DOMAIN category'[i]
    BY <1>3, CreatedCategories
  <2>4. DOMAIN match' = {}
    BY <1>3, CreatedMatches
  <2> QED
    BY <2>1, <2>2, <2>3, <2>4 DEF RowsInv
<1>4. ASSUME NEW h \in setting.handlers, CommitDraw(h) PROVE RowsInv'
  <2> h \in Handlers
    BY HandlersOfSetting DEF CallsInv
  <2>1. UNCHANGED <<setting, competitor, category>>
    BY <1>4 DEF CommitDraw
  <2>2. call[h].locked \subseteq DOMAIN category
    BY DEF CallsInv, CallOK
  <2>3. ASSUME NEW k \in DOMAIN match'
        PROVE  /\ MatchColumns \subseteq DOMAIN match'[k]
               /\ match'[k].category \in DOMAIN category
               /\ k[2] = match'[k].category
    <3>1. CASE /\ k[2] \in call[h].locked
               /\ k \in DOMAIN DrawOf(h, k[2])
               /\ match'[k] = DrawOf(h, k[2])[k]
      BY <3>1, <2>2, DrawnRows
    <3>2. CASE k \in DOMAIN match /\ match'[k] = match[k]
      BY <3>2 DEF RowsInv
    <3> QED
      BY <1>4, <3>1, <3>2, MatchesDrawn
  <2> QED
    BY <2>1, <2>3 DEF RowsInv
<1>5. ASSUME NEW h \in setting.handlers, CommitMats(h) PROVE RowsInv'
  BY <1>5, MovedRows DEF RowsInv
<1>6. ASSUME NEW h \in setting.handlers, CreateMat(h) PROVE RowsInv'
  BY <1>6, SameRows DEF CreateMat
<1>7. ASSUME Activate \/ UNCHANGED vars \/ \E mat, m : AssignMatchToMat(mat, m) PROVE RowsInv'
  BY <1>7, SameRows DEF Activate, AssignMatchToMat, vars, rows
<1>8. ASSUME NEW mat, NEW m \in DOMAIN match, NEW side, EndMatch(m, side) PROVE RowsInv'
  <2>1. ASSUME NEW k \in DOMAIN match'
        PROVE  /\ MatchColumns \subseteq DOMAIN match'[k]
               /\ match'[k].category \in DOMAIN category
               /\ k[2] = match'[k].category
    BY <1>8, <2>1, FoughtMatches DEF RowsInv
  <2> QED
    BY <1>8, <2>1, FoughtMatches DEF RowsInv
<1>9. ASSUME NEW mat, StartMatch(mat) PROVE RowsInv'
  BY <1>9, FoughtMatches DEF RowsInv, StartMatch
<1> QED
  BY <1>9, <1>1, <1>2, <1>3, <1>4, <1>5, <1>6, <1>7, <1>8, StepsThereAre

-----------------------------------------------------------------------------
(* Categories and their competitors *)

(* SetToSeq lists a finite set, each element once.                         *)
LEMMA ListedOnce ==
  ASSUME NEW S, IsFiniteSet(S)
  PROVE  /\ Cardinality(S) \in Nat
         /\ SetToSeq(S) \in [1..Cardinality(S) -> S]
         /\ IsInjective(SetToSeq(S))
         /\ \A x \in S : \E i \in 1..Cardinality(S) : SetToSeq(S)[i] = x
<1> DEFINE n == Cardinality(S)
<1>1. n \in Nat /\ ExistsBijection(1..n, S)
  BY FS_CardinalityType
<1>2. \E f \in [1..n -> S] : IsInjective(f)
  BY <1>1 DEF ExistsBijection, Bijection, Injection, IsInjective
<1>3. SetToSeq(S) \in [1..n -> S] /\ IsInjective(SetToSeq(S))
  BY <1>2 DEF SetToSeq
<1>4. SetToSeq(S) \in Injection(1..n, S)
  BY <1>3 DEF Injection, IsInjective
<1>5. IsFiniteSet(1..n) /\ Cardinality(1..n) = n
  BY <1>1, FS_Interval
<1>6. SetToSeq(S) \in Surjection(1..n, S)
  BY <1>4, <1>5, FS_Injection
<1> QED
  BY <1>1, <1>3, <1>6 DEF Surjection

(* The members of the categories to create, read when all competitors were *)
(* locked, still fit.                                                      *)
MembersFit(h) ==
  /\ IsFiniteSet(DOMAIN call[h].members)
  /\ \A class \in DOMAIN call[h].members : \A c \in call[h].members[class] :
       c \in DOMAIN competitor /\ ClassNow(c) = class

(* With one call at a time so does the competitor assignCompetitor read.   *)
AssignedFits(h) ==
  /\ call[h].competitor \in DOMAIN competitor
  /\ call[h].category \in DOMAIN category
  /\ category[call[h].category].class = ClassNow(call[h].competitor)

PartitionInv ==
  /\ created \in Nat
  /\ OneCategoryPerClass
  /\ CategoryFits
  /\ \A h \in Handlers :
       /\ pc[h] = "create" => MembersFit(h)
       /\ Serial /\ pc[h] = "assignCompetitor" => AssignedFits(h)

LEMMA OneCallOnly ==
  ASSUME setting \in Settings, Serial, NEW g \in setting.handlers, NEW h \in setting.handlers
  PROVE  g = h
BY HandlersOfSetting, FS_Singleton DEF Serial

LEMMA InitPartition == Init => PartitionInv
<1> SUFFICES ASSUME Init PROVE PartitionInv
  OBVIOUS
<1>1. DOMAIN category = {} /\ created = 0
  BY DEF Init
<1>2. \A c \in DOMAIN competitor : competitor[c].category = None
  BY DEF Init
<1>3. \A h \in Handlers : pc[h] = "idle"
  BY DEF Init
<1> QED
  BY <1>1, <1>2, <1>3 DEF PartitionInv, OneCategoryPerClass, CategoryFits

(* Steps that change no weight and no class, and put nobody in a category. *)
LEMMA PartitionStays ==
  ASSUME PartitionInv, setting' = setting, created' = created,
         DOMAIN category' = DOMAIN category,
         \A id \in DOMAIN category : category'[id].class = category[id].class,
         DOMAIN competitor' = DOMAIN competitor,
         \A c \in DOMAIN competitor :
           /\ competitor'[c].weight = competitor[c].weight
           /\ competitor'[c].category \in {competitor[c].category, None},
         \A h \in Handlers : pc'[h] \in {"create", "assignCompetitor"} =>
                            pc'[h] = pc[h] /\ call'[h] = call[h]
  PROVE  PartitionInv'
<1>1. \A c \in DOMAIN competitor : ClassNow(c)' = ClassNow(c)
  BY DEF ClassNow
<1>2. OneCategoryPerClass'
  BY DEF PartitionInv, OneCategoryPerClass
<1>3. CategoryFits'
  BY <1>1 DEF PartitionInv, CategoryFits, Serial
<1>4. ASSUME NEW h \in Handlers, pc'[h] = "create" PROVE MembersFit(h)'
  <2>1. call'[h] = call[h] /\ MembersFit(h)
    BY <1>4 DEF PartitionInv
  <2> QED
    BY <1>1, <2>1 DEF MembersFit
<1>5. ASSUME NEW h \in Handlers, Serial, pc'[h] = "assignCompetitor" PROVE AssignedFits(h)'
  <2>1. call'[h] = call[h] /\ AssignedFits(h)
    BY <1>5 DEF PartitionInv
  <2> QED
    BY <1>1, <2>1 DEF AssignedFits
<1>6. Serial' <=> Serial
  BY DEF Serial
<1> QED
  BY <1>2, <1>3, <1>4, <1>5, <1>6 DEF PartitionInv

LEMMA CreatePartition ==
  ASSUME CallsInv, RowsInv, PartitionInv, NEW h \in setting.handlers, CreateCategories(h)
  PROVE  PartitionInv'
<1> DEFINE members == call[h].members
           order == SetToSeq(DOMAIN members)
           number(class) == created + (CHOOSE i \in DOMAIN order : order[i] = class)
<1> h \in Handlers
  BY HandlersOfSetting DEF CallsInv
<1>1. MembersFit(h) /\ created \in Nat
  BY DEF PartitionInv, CreateCategories
<1>2. /\ Cardinality(DOMAIN members) \in Nat
      /\ order \in [1..Cardinality(DOMAIN members) -> DOMAIN members]
      /\ \A x \in DOMAIN members : \E i \in 1..Cardinality(DOMAIN members) : order[i] = x
  BY <1>1, ListedOnce DEF MembersFit
<1>3. \A class \in DOMAIN members :
        /\ NewIds(h)[class] = number(class)
        /\ number(class) - created \in DOMAIN order
        /\ order[number(class) - created] = class
  <2> SUFFICES ASSUME NEW class \in DOMAIN members
               PROVE  /\ NewIds(h)[class] = number(class)
                      /\ number(class) - created \in DOMAIN order
                      /\ order[number(class) - created] = class
    OBVIOUS
  <2>1. NewIds(h)[class] = number(class)
    BY DEF NewIds
  <2> DEFINE i == CHOOSE i \in DOMAIN order : order[i] = class
  <2>2. i \in DOMAIN order /\ order[i] = class /\ i \in Nat
    <3> HIDE DEF order, members
    <3> QED
      BY <1>2
  <2>3. number(class) - created = i
    <3>1. number(class) = created + i
      OBVIOUS
    <3> HIDE DEF number, i
    <3> QED
      BY <1>1, <2>2, <3>1
  <2> QED
    BY <2>1, <2>2, <2>3
<1>4. /\ DOMAIN category' = {NewIds(h)[class] : class \in DOMAIN members}
      /\ \A id \in DOMAIN category' : category'[id].class = order[id - created]
  BY CreatedCategories
<1>5. \A class \in DOMAIN members :
        NewIds(h)[class] \in DOMAIN category' /\ category'[NewIds(h)[class]].class = class
  <2> HIDE DEF order, number, members
  <2> QED
    BY <1>3, <1>4
<1>6. OneCategoryPerClass'
  <2> SUFFICES ASSUME NEW id \in DOMAIN category', NEW other \in DOMAIN category',
                      category'[id].class = category'[other].class
               PROVE  id = other
    BY DEF OneCategoryPerClass
  <2> HIDE DEF order, number, members
  <2> QED
    BY <1>4, <1>5
<1>7. /\ DOMAIN competitor' = DOMAIN competitor
      /\ \A c \in DOMAIN competitor :
           /\ competitor'[c].weight = competitor[c].weight
           /\ competitor'[c].category =
                IF \E class \in DOMAIN members : c \in members[class]
                THEN number(CHOOSE class \in DOMAIN members : c \in members[class]) ELSE None
  <2> DEFINE target(c) == IF \E class \in DOMAIN members : c \in members[class]
                          THEN number(CHOOSE class \in DOMAIN members : c \in members[class]) ELSE None
  <2>1. competitor' = [c \in DOMAIN competitor |-> [competitor[c] EXCEPT !.category = target(c)]]
    BY DEF CreateCategories
  <2>2. \A c \in DOMAIN competitor : CompetitorColumns \subseteq DOMAIN competitor[c]
    BY DEF RowsInv
  <2>3. /\ DOMAIN competitor' = DOMAIN competitor
        /\ \A c \in DOMAIN competitor :
              competitor'[c].weight = competitor[c].weight /\ competitor'[c].category = target(c)
    <3> HIDE DEF target
    <3> QED
      BY <2>1, <2>2 DEF CompetitorColumns
  <2> QED
    BY <2>3
<1>8. \A c \in DOMAIN competitor : ClassNow(c)' = ClassNow(c)
  BY <1>7 DEF ClassNow
<1>9. CategoryFits'
  <2> SUFFICES ASSUME NEW c \in DOMAIN competitor, competitor'[c].category # None
               PROVE  /\ competitor'[c].category \in DOMAIN category'
                      /\ category'[competitor'[c].category].class = ClassNow(c)'
    BY <1>7 DEF CategoryFits
  <2>1. PICK class \in DOMAIN members : c \in members[class] /\ competitor'[c].category = number(class)
    <3> HIDE DEF members, number
    <3> QED
      BY <1>7
  <2>2. ClassNow(c) = class
    BY <1>1, <2>1 DEF MembersFit
  <2>3. competitor'[c].category = NewIds(h)[class]
    BY <1>3, <2>1
  <2> QED
    BY <1>5, <1>8, <2>2, <2>3
<1>10. created' \in Nat
  <2>1. created' = created + Len(order)
    BY DEF CreateCategories
  <2>2. Len(order) = Cardinality(DOMAIN members)
    <3> HIDE DEF order, members
    <3> QED
      BY <1>2
  <2> QED
    BY <1>1, <1>2, <2>1, <2>2
<1>11. ASSUME NEW g \in Handlers
       PROVE  pc'[g] # "create" /\ (Serial => pc'[g] # "assignCompetitor")
  <2>1. OnlyCall(h, "idle", NoCall)
    BY GotoIsOnlyCall DEF CreateCategories, Return
  <2>2. LocksCompetitors(h)
    BY DEF CreateCategories, LocksCompetitors
  <2>3. CASE g = h
    BY <2>1, <2>3 DEF OnlyCall
  <2>4. CASE g # h
    <3>1. pc'[g] = pc[g] /\ CallOK(g)
      BY <2>1, <2>4 DEF OnlyCall, CallsInv
    <3>2. pc[g] # "create"
      BY <2>2, <2>4 DEF CallsInv, LocksCompetitors
    <3>3. Serial => g \notin setting.handlers
      BY <2>4, OneCallOnly DEF CallsInv
    <3> QED
      BY <3>1, <3>2, <3>3 DEF CallOK
  <2> QED
    BY <2>3, <2>4
<1>12. Serial' <=> Serial
  BY DEF Serial, CreateCategories
<1> QED
  BY <1>6, <1>9, <1>10, <1>11, <1>12 DEF PartitionInv

(* Reading calls: who is created is read with the competitors locked, who  *)
(* is assigned is read, and nothing is written.                            *)
LEMMA ReadsPartition ==
  ASSUME CallsInv, RowsInv, PartitionInv, NEW h \in setting.handlers, Reads(h)
  PROVE  PartitionInv'
<1> h \in Handlers
  BY HandlersOfSetting DEF CallsInv
<1>1. UNCHANGED <<setting, competitor, category, created>>
  BY ReadsFrame
<1>2. \A c : ClassNow(c)' = ClassNow(c)
  BY <1>1 DEF ClassNow
<1>3. OneCategoryPerClass' /\ CategoryFits' /\ created' \in Nat /\ (Serial' <=> Serial)
  BY <1>1, <1>2 DEF PartitionInv, OneCategoryPerClass, CategoryFits, Serial
<1>4. PICK where, known : OnlyCall(h, where, known)
  <2>1. \E where, c : Goto(h, where, c)
    BY DEF Reads, RecordWeight, UpdateWeight, GenerateCategories, ClearCategories,
       ReplaceCategories, AssignCompetitor, GenerateBrackets, UpdateCategory,
       AssignCategoriesToMats, AssignCategoryToMat, CreateMats, Rollback, Begin, Return
  <2> QED
    BY <2>1, GotoIsOnlyCall
<1>5. ASSUME NEW g \in Handlers \ {h}
      PROVE  /\ pc'[g] = "create" => MembersFit(g)'
             /\ Serial' /\ pc'[g] = "assignCompetitor" => AssignedFits(g)'
  <2>1. pc'[g] = pc[g] /\ call'[g] = call[g]
    BY <1>4 DEF OnlyCall
  <2>2. pc[g] = "create" => MembersFit(g)
    BY DEF PartitionInv
  <2>3. Serial /\ pc[g] = "assignCompetitor" => AssignedFits(g)
    BY DEF PartitionInv
  <2> QED
    BY <1>1, <1>2, <1>3, <2>1, <2>2, <2>3 DEF MembersFit, AssignedFits
<1>6. pc'[h] = "create" => MembersFit(h)'
  <2> SUFFICES ASSUME pc'[h] = "create" PROVE MembersFit(h)'
    OBVIOUS
  <2> DEFINE fit == {c \in DOMAIN competitor : competitor[c].status = "WEIGHED_IN" /\ ClassNow(c) # None}
             classes == {ClassNow(c) : c \in fit}
             members == [class \in classes |-> {c \in fit : ClassNow(c) = class}]
  <2>1. Goto(h, "create", [call[h] EXCEPT !.locked = call[h].known, !.members = members])
    <3>1. DOMAIN pc = Handlers
      BY DEF CallsInv
    <3>2. ReplaceCategories(h)
      <4>1. pc' # [pc EXCEPT ![h] = "recordWeight"] /\ pc' # [pc EXCEPT ![h] = "updateWeight"]
            /\ pc' # [pc EXCEPT ![h] = "clear"] /\ pc' # [pc EXCEPT ![h] = "replace"]
            /\ pc' # [pc EXCEPT ![h] = "assignCompetitor"] /\ pc' # [pc EXCEPT ![h] = "draw"]
            /\ pc' # [pc EXCEPT ![h] = "assign"] /\ pc' # [pc EXCEPT ![h] = "createMats"]
            /\ pc' # [pc EXCEPT ![h] = "idle"]
        BY <3>1
      <4>2. ~UpdateCategory(h)
        <5> SUFFICES ASSUME UpdateCategory(h) PROVE FALSE
          OBVIOUS
        <5>1. pc[h] \in {"draw", "assign"} /\ (pc' = [pc EXCEPT ![h] = pc[h]] \/ Return(h))
          BY DEF UpdateCategory, Goto
        <5> QED
          BY <5>1, <4>1 DEF Return, Goto
      <4> QED
        BY <4>1, <4>2 DEF Reads, RecordWeight, UpdateWeight, GenerateCategories, ClearCategories,
           AssignCompetitor, GenerateBrackets, AssignCategoriesToMats, AssignCategoryToMat,
           CreateMats, Rollback, Begin, Return, Goto
    <3> QED
      BY <3>2 DEF ReplaceCategories
  <2>2. call'[h].members = members
    <3>1. DOMAIN call = Handlers /\ "members" \in DOMAIN call[h]
      BY DEF CallsInv, CallOK, CallFields
    <3> HIDE DEF members
    <3> QED
      BY <2>1, <3>1 DEF Goto
  <2>3. IsFiniteSet(fit)
    <3>1. DOMAIN competitor \subseteq Competitors /\ IsFiniteSet(Competitors)
      BY CategoriesTypes DEF RowsInv, CallsInv
    <3> QED
      BY <3>1, FS_Subset
  <2>4. IsFiniteSet(classes)
    <3> DEFINE classOf == [c \in fit |-> ClassNow(c)]
    <3>1. classOf \in Surjection(fit, classes)
      BY DEF Surjection
    <3> HIDE DEF classOf, fit, classes
    <3> QED
      BY <2>3, <3>1, FS_Surjection
  <2> QED
    BY <1>1, <1>2, <2>2, <2>4 DEF MembersFit
<1>7. Serial' /\ pc'[h] = "assignCompetitor" => AssignedFits(h)'
  <2> SUFFICES ASSUME pc'[h] = "assignCompetitor" PROVE AssignedFits(h)'
    OBVIOUS
  <2>1. PICK c \in DOMAIN competitor, id \in DOMAIN category :
          /\ category[id].class = ClassNow(c)
          /\ call' = [call EXCEPT ![h] = [NoCall EXCEPT !.competitor = c, !.category = id]]
    <3>1. DOMAIN pc = Handlers
      BY DEF CallsInv
    <3>2. \E c \in DOMAIN competitor : AssignCompetitor(h, c)
      <4>1. pc' # [pc EXCEPT ![h] = "recordWeight"] /\ pc' # [pc EXCEPT ![h] = "updateWeight"]
            /\ pc' # [pc EXCEPT ![h] = "clear"] /\ pc' # [pc EXCEPT ![h] = "replace"]
            /\ pc' # [pc EXCEPT ![h] = "create"] /\ pc' # [pc EXCEPT ![h] = "draw"]
            /\ pc' # [pc EXCEPT ![h] = "assign"] /\ pc' # [pc EXCEPT ![h] = "createMats"]
            /\ pc' # [pc EXCEPT ![h] = "idle"]
        BY <3>1
      <4>2. ~UpdateCategory(h)
        <5> SUFFICES ASSUME UpdateCategory(h) PROVE FALSE
          OBVIOUS
        <5>1. pc[h] \in {"draw", "assign"} /\ (pc' = [pc EXCEPT ![h] = pc[h]] \/ Return(h))
          BY DEF UpdateCategory, Goto
        <5> QED
          BY <5>1, <4>1 DEF Return, Goto
      <4> QED
        BY <4>1, <4>2 DEF Reads, RecordWeight, UpdateWeight, GenerateCategories, ClearCategories,
           ReplaceCategories, GenerateBrackets, AssignCategoriesToMats, AssignCategoryToMat,
           CreateMats, Rollback, Begin, Return, Goto
    <3> QED
      BY <3>2 DEF AssignCompetitor, Begin, Goto
  <2>2. call'[h].competitor = c /\ call'[h].category = id
    BY <2>1 DEF CallsInv, NoCall
  <2> QED
    BY <1>1, <1>2, <2>1, <2>2 DEF AssignedFits
<1> QED
  BY <1>3, <1>5, <1>6, <1>7 DEF PartitionInv

(* The weight of a competitor is written with no category, and by a call   *)
(* that waits for the one that creates categories.                         *)
LEMMA WriteWeightPartition ==
  ASSUME CallsInv, RowsInv, PartitionInv, NEW h \in setting.handlers, WriteWeight(h)
  PROVE  PartitionInv'
<1> DEFINE d == call[h].competitor
<1> h \in Handlers
  BY HandlersOfSetting DEF CallsInv
<1>1. UNCHANGED <<setting, category, created>> /\ OnlyCall(h, "idle", NoCall)
  BY GotoIsOnlyCall DEF WriteWeight, Return
<1>2. PICK new : /\ competitor' = [competitor EXCEPT ![d] = new]
                 /\ d \in DOMAIN competitor => new.category = None
  <2> DEFINE w == call[h].weight
             new == IF pc[h] = "recordWeight" THEN WeighedIn(competitor[d], w) ELSE Reweighed(competitor[d], w)
  <2>1. competitor' = [competitor EXCEPT ![d] = new]
    BY DEF WriteWeight
  <2>2. d \in DOMAIN competitor => new.category = None
    BY DEF RowsInv, CompetitorColumns, WeighedIn, Reweighed
  <2> HIDE DEF new
  <2> QED
    BY <2>1, <2>2
<1>3. /\ DOMAIN competitor' = DOMAIN competitor
      /\ \A c \in DOMAIN competitor : competitor'[c].category = None \/ competitor'[c] = competitor[c]
      /\ \A c \in DOMAIN competitor \ {d} : competitor'[c] = competitor[c]
  BY <1>2
<1>4. \A c \in DOMAIN competitor : competitor'[c] = competitor[c] => ClassNow(c)' = ClassNow(c)
  BY DEF ClassNow
<1>5. OneCategoryPerClass' /\ created' \in Nat /\ (Serial' <=> Serial)
  BY <1>1 DEF PartitionInv, OneCategoryPerClass, Serial
<1>6. CategoryFits'
  BY <1>1, <1>3, <1>4, <1>5 DEF PartitionInv, CategoryFits
<1>7. ASSUME NEW g \in Handlers
      PROVE  pc'[g] # "create" /\ (Serial => pc'[g] # "assignCompetitor")
  <2>1. CASE g = h
    BY <1>1, <2>1 DEF OnlyCall
  <2>2. CASE g # h
    <3>1. pc'[g] = pc[g] /\ CallOK(g)
      BY <1>1, <2>2 DEF OnlyCall, CallsInv
    <3>2. pc[g] # "create"
      BY <2>2 DEF WriteWeight, CompetitorsFree, LocksCompetitors
    <3>3. Serial => g \notin setting.handlers
      BY <2>2, OneCallOnly DEF CallsInv
    <3> QED
      BY <3>1, <3>2, <3>3 DEF CallOK
  <2> QED
    BY <2>1, <2>2
<1> QED
  BY <1>5, <1>6, <1>7 DEF PartitionInv

LEMMA WriteCategoryPartition ==
  ASSUME CallsInv, RowsInv, PartitionInv, NEW h \in setting.handlers, WriteCategory(h)
  PROVE  PartitionInv'
<1> DEFINE d == call[h].competitor
           id == call[h].category
<1> h \in Handlers
  BY HandlersOfSetting DEF CallsInv
<1>1. UNCHANGED <<setting, category, created>> /\ OnlyCall(h, "idle", NoCall)
  BY GotoIsOnlyCall DEF WriteCategory, Return
<1>2. \A c \in DOMAIN competitor : CompetitorColumns \subseteq DOMAIN competitor[c]
  BY DEF RowsInv
<1>3. /\ DOMAIN competitor' = DOMAIN competitor
      /\ \A c \in DOMAIN competitor : competitor'[c].weight = competitor[c].weight
      /\ \A c \in DOMAIN competitor : competitor'[c].category = competitor[c].category
                                    \/ (c = d /\ competitor'[c].category = id)
  <2>1. competitor' = [competitor EXCEPT ![d].category = id] \/ competitor' = competitor
    BY DEF WriteCategory
  <2> HIDE DEF d, id
  <2> QED
    BY <1>2, <2>1 DEF CompetitorColumns
<1>4. \A c \in DOMAIN competitor : ClassNow(c)' = ClassNow(c)
  BY <1>3 DEF ClassNow
<1>5. OneCategoryPerClass' /\ created' \in Nat /\ (Serial' <=> Serial)
  BY <1>1 DEF PartitionInv, OneCategoryPerClass, Serial
<1>6. "assignCompetitor" \in setting.ops /\ (Serial => AssignedFits(h))
  BY DEF WriteCategory, CallsInv, CallOK, PartitionInv
<1>7. CategoryFits'
  <2> SUFFICES ASSUME Serial, NEW c \in DOMAIN competitor, competitor'[c].category # None
               PROVE  /\ competitor'[c].category \in DOMAIN category
                      /\ category[competitor'[c].category].class = ClassNow(c)
    BY <1>1, <1>3, <1>4, <1>5, <1>6 DEF CategoryFits
  <2>1. CASE competitor'[c].category = competitor[c].category
    BY <2>1 DEF PartitionInv, CategoryFits
  <2>2. CASE c = d /\ competitor'[c].category = id
    BY <2>2, <1>6 DEF AssignedFits
  <2> QED
    BY <1>3, <2>1, <2>2
<1>8. ASSUME NEW g \in Handlers
      PROVE  pc'[g] # "create" /\ (Serial => pc'[g] # "assignCompetitor")
  <2>1. CASE g = h
    BY <1>1, <2>1 DEF OnlyCall
  <2>2. CASE g # h
    <3>1. pc'[g] = pc[g] /\ CallOK(g)
      BY <1>1, <2>2 DEF OnlyCall, CallsInv
    <3>2. pc[g] # "create"
      BY <2>2 DEF WriteCategory, CompetitorsFree, LocksCompetitors
    <3>3. Serial => g \notin setting.handlers
      BY <2>2, OneCallOnly DEF CallsInv
    <3> QED
      BY <3>1, <3>2, <3>3 DEF CallOK
  <2> QED
    BY <2>1, <2>2
<1> QED
  BY <1>5, <1>7, <1>8 DEF PartitionInv

LEMMA ByOrganizerPartition ==
  ASSUME CallsInv, RowsInv, PartitionInv, NEW d \in DOMAIN competitor, ByOrganizer(d)
  PROVE  PartitionInv'
<1>1. \A c \in DOMAIN competitor : CompetitorColumns \subseteq DOMAIN competitor[c]
  BY DEF RowsInv
<1>2. PICK new \in {Withdrawn(competitor[d]), Disqualified(competitor[d])}
               \cup {WithStatus(competitor[d], s) : s \in RegistrationStatuses} :
        competitor' = [competitor EXCEPT ![d] = new]
  BY DEF ByOrganizer
<1>3. new.weight = competitor[d].weight /\ new.category \in {competitor[d].category, None}
  BY <1>1 DEF CompetitorColumns, Withdrawn, Disqualified, WithStatus
<1>4. UNCHANGED <<setting, category, created, pc, call>>
  BY DEF ByOrganizer
<1> QED
  BY <1>2, <1>3, <1>4, PartitionStays

LEMMA StepPartition ==
  CallsInv /\ RowsInv /\ PartitionInv /\ [Next]_vars => PartitionInv'
<1> SUFFICES ASSUME CallsInv, RowsInv, PartitionInv, [Next]_vars PROVE PartitionInv'
  OBVIOUS
<1>1. ASSUME NEW h \in setting.handlers, CommitDraw(h) \/ CommitMats(h) \/ CreateMat(h)
      PROVE  PartitionInv'
  <2> h \in Handlers
    BY HandlersOfSetting DEF CallsInv
  <2>1. UNCHANGED <<setting, competitor, created>>
    BY <1>1 DEF CommitDraw, CommitMats, CreateMat
  <2>2. /\ DOMAIN category' = DOMAIN category
        /\ \A id \in DOMAIN category : category'[id].class = category[id].class
    <3>1. CASE CommitMats(h)
      BY <3>1, MovedRows
    <3>2. CASE CommitDraw(h) \/ CreateMat(h)
      BY <3>2 DEF CommitDraw, CreateMat
    <3> QED
      BY <1>1, <3>1, <3>2
  <2>3. pc[h] \in {"draw", "assign", "createMats"}
    BY <1>1 DEF CommitDraw, CommitMats, CreateMat
  <2>4. PICK where, c : OnlyCall(h, where, c) /\ where \in {"idle", "createMats"}
    <3>1. \E where, c : Goto(h, where, c) /\ where \in {"idle", "createMats"}
      BY <1>1 DEF CommitDraw, CommitMats, CreateMat, Return
    <3> QED
      BY <3>1, GotoIsOnlyCall
  <2>5. \A g \in Handlers : pc'[g] \in {"create", "assignCompetitor"} =>
                           pc'[g] = pc[g] /\ call'[g] = call[g]
    BY <2>4 DEF OnlyCall
  <2> QED
    BY <2>1, <2>2, <2>5, PartitionStays
<1>2. ASSUME \/ Activate
             \/ \E mat \in DOMAIN current : StartMatch(mat) \/ \E m \in DOMAIN match : AssignMatchToMat(mat, m)
             \/ \E m \in DOMAIN match, side \in setting.winners : EndMatch(m, side)
             \/ UNCHANGED vars
      PROVE  PartitionInv'
  <2>1. UNCHANGED <<setting, competitor, category, created, pc, call>>
    BY <1>2 DEF Activate, StartMatch, AssignMatchToMat, EndMatch, rows, vars
  <2> QED
    BY <2>1, PartitionStays
<1> QED
  BY <1>1, <1>2, StepsThereAre, ReadsPartition, WriteWeightPartition, CreatePartition,
     WriteCategoryPartition, ByOrganizerPartition

(* Generated categories partition the competitors by class, whatever calls *)
(* overlap: one category for a class and, unless assignCompetitor overlaps *)
(* with a weighing, in it nobody of another class.                         *)
THEOREM CategoriesArePartition == Spec => []CategoriesPartition
<1>1. Init => CallsInv /\ RowsInv /\ PartitionInv
  BY InitCalls, InitRows, InitPartition
<1>2. (CallsInv /\ RowsInv /\ PartitionInv) /\ [Next]_vars => (CallsInv /\ RowsInv /\ PartitionInv)'
  BY StepCalls, StepRows, StepPartition
<1>3. CallsInv /\ RowsInv /\ PartitionInv => CategoriesPartition
  BY DEF PartitionInv, CategoriesPartition
<1> QED
  BY <1>1, <1>2, <1>3, PTL DEF Spec

-----------------------------------------------------------------------------
(* A total order: the place of an element is the number of those that go   *)
(* before it.                                                              *)

IsTotal(R, S) ==
  /\ \A x \in S : <<x, x>> \notin R
  /\ \A x, y, z \in S : <<x, y>> \in R /\ <<y, z>> \in R => <<x, z>> \in R
  /\ \A x, y \in S : x # y => <<x, y>> \in R \/ <<y, x>> \in R

GoingBefore(R, S, x) == {y \in S : <<y, x>> \in R}

LEMMA PlacesInOrder ==
  ASSUME NEW S, IsFiniteSet(S), NEW R, IsTotal(R, S)
  PROVE  LET place(x) == Cardinality(GoingBefore(R, S, x))
         IN  /\ Cardinality(S) \in Nat
             /\ \A x \in S : place(x) \in 0..(Cardinality(S) - 1)
             /\ \A x, y \in S : <<x, y>> \in R <=> place(x) < place(y)
             /\ \A i \in 1..Cardinality(S) : \E x \in S : place(x) = i - 1
<1> DEFINE n == Cardinality(S)
           place == [x \in S |-> Cardinality(GoingBefore(R, S, x))]
<1>1. n \in Nat
  BY FS_CardinalityType
<1>2. ASSUME NEW x \in S
      PROVE  /\ IsFiniteSet(GoingBefore(R, S, x)) /\ place[x] \in Nat /\ place[x] < n
  <2>1. GoingBefore(R, S, x) \in SUBSET S /\ x \notin GoingBefore(R, S, x)
    BY DEF GoingBefore, IsTotal
  <2>2. /\ IsFiniteSet(GoingBefore(R, S, x))
        /\ Cardinality(GoingBefore(R, S, x)) <= n
        /\ n # Cardinality(GoingBefore(R, S, x))
    BY <2>1, FS_Subset
  <2> QED
    BY <1>1, <2>2, FS_CardinalityType
<1>3. ASSUME NEW x \in S, NEW y \in S, <<x, y>> \in R
      PROVE  place[x] < place[y]
  <2>1. /\ GoingBefore(R, S, x) \in SUBSET GoingBefore(R, S, y)
        /\ x \in GoingBefore(R, S, y) /\ x \notin GoingBefore(R, S, x)
    BY <1>3 DEF GoingBefore, IsTotal
  <2>2. /\ Cardinality(GoingBefore(R, S, x)) <= Cardinality(GoingBefore(R, S, y))
        /\ Cardinality(GoingBefore(R, S, x)) # Cardinality(GoingBefore(R, S, y))
    BY <1>2, <2>1, FS_Subset
  <2> QED
    BY <1>2, <2>2
<1>4. ASSUME NEW x \in S, NEW y \in S, place[x] < place[y]
      PROVE  <<x, y>> \in R
  <2>1. x # y /\ <<y, x>> \notin R
    <3> HIDE DEF place
    <3> QED
      BY <1>2, <1>3, <1>4
  <2> QED
    BY <2>1 DEF IsTotal
<1>5. ASSUME NEW x \in S, NEW y \in S, place[x] = place[y]
      PROVE  x = y
  <2> HIDE DEF place
  <2>1. <<x, y>> \notin R /\ <<y, x>> \notin R
    BY <1>2, <1>3, <1>5
  <2> QED
    BY <2>1 DEF IsTotal
<1>6. place \in Injection(S, 0..(n - 1))
  <2>1. place \in [S -> 0..(n - 1)]
    <3> SUFFICES ASSUME NEW x \in S PROVE place[x] \in 0..(n - 1)
      OBVIOUS
    <3> HIDE DEF place, n
    <3> QED
      BY <1>1, <1>2
  <2> HIDE DEF place, n
  <2> QED
    BY <1>5, <2>1 DEF Injection, IsInjective
<1>7. IsFiniteSet(0..(n - 1)) /\ Cardinality(0..(n - 1)) = n
  <2> HIDE DEF n
  <2> QED
    BY <1>1, FS_Interval
<1>8. place \in Surjection(S, 0..(n - 1))
  BY <1>6, <1>7, FS_Injection
<1>9. \A i \in 1..n : \E x \in S : place[x] = i - 1
  <2> SUFFICES ASSUME NEW i \in 1..n PROVE \E x \in S : place[x] = i - 1
    OBVIOUS
  <2> HIDE DEF n, place
  <2>1. i - 1 \in 0..(n - 1)
    BY <1>1
  <2> QED
    BY <1>8, <2>1 DEF Surjection
<1>10. \A x \in S : place[x] = Cardinality(GoingBefore(R, S, x))
  OBVIOUS
<1>11. \A x \in S : place[x] \in 0..(n - 1)
  <2> HIDE DEF n, place
  <2> QED
    BY <1>1, <1>2
<1> HIDE DEF n, place
<1>12. \A x, y \in S : <<x, y>> \in R <=> place[x] < place[y]
  BY <1>3, <1>4
<1> QED
  BY <1>1, <1>9, <1>10, <1>11, <1>12 DEF n

(* What is sorted by such an order holds each once, at its place.          *)
InPlace(list, R, S) ==
  /\ list \in [1..Cardinality(S) -> S]
  /\ \A i \in 1..Cardinality(S) : Cardinality(GoingBefore(R, S, list[i])) = i - 1

LEMMA SortedByPlace ==
  ASSUME NEW S, IsFiniteSet(S), NEW R, IsTotal(R, S), NEW list, InPlace(list, R, S)
  PROVE  /\ \A i, j \in 1..Cardinality(S) : i < j => <<list[i], list[j]>> \in R
         /\ \A x \in S : \E i \in 1..Cardinality(S) : list[i] = x
         /\ \A i, j \in 1..Cardinality(S) : list[i] = list[j] => i = j
<1> DEFINE n == Cardinality(S)
           place == [x \in S |-> Cardinality(GoingBefore(R, S, x))]
<1>1. /\ n \in Nat
      /\ \A x \in S : place[x] \in 0..(n - 1)
      /\ \A x, y \in S : <<x, y>> \in R <=> place[x] < place[y]
      /\ \A i \in 1..n : \E x \in S : place[x] = i - 1
  <2>1. \A x \in S : place[x] = Cardinality(GoingBefore(R, S, x))
    OBVIOUS
  <2> HIDE DEF place
  <2> QED
    BY <2>1, PlacesInOrder
<1>2. ASSUME NEW i \in 1..n PROVE list[i] \in S /\ place[list[i]] = i - 1
  BY DEF InPlace
<1> HIDE DEF n, place
<1>4. ASSUME NEW i \in 1..n, NEW j \in 1..n, i < j PROVE <<list[i], list[j]>> \in R
  <2>1. list[i] \in S /\ list[j] \in S /\ place[list[i]] = i - 1 /\ place[list[j]] = j - 1
    BY <1>2
  <2>2. i - 1 < j - 1
    BY <1>1, <1>4
  <2> QED
    BY <1>1, <2>1, <2>2
<1>5. \A i, j \in 1..n : list[i] = list[j] => i = j
  <2> SUFFICES ASSUME NEW i \in 1..n, NEW j \in 1..n, list[i] = list[j] PROVE i = j
    OBVIOUS
  <2>1. i - 1 = j - 1
    BY <1>2
  <2> QED
    BY <1>1, <2>1
<1>6. ASSUME NEW x \in S PROVE \E i \in 1..n : list[i] = x
  <2>1. PICK i \in 1..n : i - 1 = place[x]
    <3>1. place[x] + 1 \in 1..n /\ (place[x] + 1) - 1 = place[x]
      BY <1>1
    <3> QED
      BY <3>1
  <2>2. list[i] \in S /\ place[list[i]] = place[x]
    BY <1>2, <2>1
  <2>3. <<list[i], x>> \notin R /\ <<x, list[i]>> \notin R
    <3>1. place[x] \in Int
      BY <1>1
    <3>2. ~(place[list[i]] < place[x]) /\ ~(place[x] < place[list[i]])
      BY <2>2, <3>1
    <3> QED
      BY <1>1, <2>2, <3>2
  <2> QED
    BY <2>2, <2>3 DEF IsTotal
<1> QED
  BY <1>4, <1>5, <1>6 DEF n

LEMMA ImageIsFinite ==
  ASSUME NEW S, IsFiniteSet(S), NEW f
  PROVE  IsFiniteSet({f[x] : x \in S})
<1> DEFINE T == {f[x] : x \in S}
           g == [x \in S |-> f[x]]
<1>1. g \in Surjection(S, T)
  BY DEF Surjection
<1> HIDE DEF T, g
<1>2. IsFiniteSet(T)
  BY <1>1, FS_Surjection
<1> QED
  BY <1>2 DEF T

-----------------------------------------------------------------------------
(* Draws.  The matches of a category are those of one draw, whatever calls *)
(* drew it: a draw replaces all the matches of the categories it locks.    *)

RR(n) == D!RoundRobin(n, "MAIN", D!NoGroup)

(* A place of a match that the generators list.                            *)
IsListed(p) ==
  \E i \in DOMAIN Listed, round, position \in Int :
    p = D!MatchId(Listed[i][1], Listed[i][2], round, position)

LEMMA PartOfPlace ==
  ASSUME NEW p, IsListed(p)
  PROVE  /\ Part(p) \in Int /\ Listed[Part(p)] = <<p.phase, p.group>>
         /\ p.round \in Int /\ p.position \in Int
         /\ p = D!MatchId(p.phase, p.group, p.round, p.position)
<1>1. PICK i \in DOMAIN Listed, round \in Int, position \in Int :
        p = D!MatchId(Listed[i][1], Listed[i][2], round, position)
  BY DEF IsListed
<1>2. /\ p.phase = Listed[i][1] /\ p.group = Listed[i][2]
      /\ p.round = round /\ p.position = position
  BY <1>1 DEF D!MatchId
<1>3. DOMAIN Listed = 1..11 /\ \A j \in 1..11 : Listed[j] = <<Listed[j][1], Listed[j][2]>>
  BY DEF Listed
<1>4. \E j \in DOMAIN Listed : Listed[j] = <<p.phase, p.group>>
  BY <1>2, <1>3
<1>5. Part(p) \in DOMAIN Listed /\ Listed[Part(p)] = <<p.phase, p.group>>
  BY <1>4 DEF Part
<1> QED
  BY <1>1, <1>2, <1>3, <1>5

LEMMA ListedIsTotal ==
  ASSUME NEW S, \A p \in S : IsListed(p)
  PROVE  IsTotal({x \in S \X S : ListedBefore(x[1], x[2])}, S)
<1> DEFINE R == {x \in S \X S : ListedBefore(x[1], x[2])}
<1>1. \A p, q \in S : <<p, q>> \in R <=> ListedBefore(p, q)
  OBVIOUS
<1>2. \A p \in S : Part(p) \in Int /\ p.round \in Int /\ p.position \in Int
  BY PartOfPlace
<1>3. ASSUME NEW p \in S, NEW q \in S, Part(p) = Part(q), p.round = q.round, p.position = q.position
      PROVE  p = q
  <2>1. Listed[Part(p)] = <<p.phase, p.group>> /\ Listed[Part(q)] = <<q.phase, q.group>>
    BY PartOfPlace
  <2>2. p.phase = q.phase /\ p.group = q.group
    BY <1>3, <2>1
  <2>3. /\ p = D!MatchId(p.phase, p.group, p.round, p.position)
        /\ q = D!MatchId(q.phase, q.group, q.round, q.position)
    BY PartOfPlace
  <2> QED
    BY <1>3, <2>2, <2>3
<1>4. \A p \in S : ~ListedBefore(p, p)
  BY <1>2 DEF ListedBefore
<1>5. \A p, q, r \in S : ListedBefore(p, q) /\ ListedBefore(q, r) => ListedBefore(p, r)
  BY <1>2 DEF ListedBefore
<1>6. \A p, q \in S : p # q => ListedBefore(p, q) \/ ListedBefore(q, p)
  BY <1>2, <1>3 DEF ListedBefore
<1> HIDE DEF R
<1> QED
  BY <1>1, <1>4, <1>5, <1>6 DEF IsTotal, R

LEMMA SortedList ==
  ASSUME NEW S, IsFiniteSet(S), NEW R, IsTotal(R, S), NEW list,
         list = [i \in 1..Cardinality(S) |-> list[i]],
         \A i \in 1..Cardinality(S) :
           (\E x \in S : Cardinality(GoingBefore(R, S, x)) = i - 1)
             => list[i] \in S /\ Cardinality(GoingBefore(R, S, list[i])) = i - 1
  PROVE  InPlace(list, R, S)
<1>1. \A i \in 1..Cardinality(S) : \E x \in S : Cardinality(GoingBefore(R, S, x)) = i - 1
  BY PlacesInOrder
<1> QED
  BY <1>1 DEF InPlace

(* The generators write finitely many matches, all at places they list.    *)
LEMMA RoundsAreANumber ==
  ASSUME NEW n \in Nat
  PROVE  D!TotalRoundsFor(n) \in Nat
<1>1. D!TotalRoundsFor(n) = Lemmas!TotalRoundsFor(n)
  BY DEF D!TotalRoundsFor, Lemmas!TotalRoundsFor
<1> QED
  BY <1>1, Lemmas!RoundsOfBracket

LEMMA EliminationPlaces ==
  ASSUME NEW n \in Nat, NEW phase, NEW group
  PROVE  /\ IsFiniteSet(DOMAIN D!Elimination(n, phase, group))
         /\ \A m \in DOMAIN D!Elimination(n, phase, group) :
              \E r, p \in Int : m = D!MatchId(phase, group, r, p)
<1> DEFINE rounds == D!TotalRoundsFor(n)
           positions(round) == 1..2^(rounds - round)
           matches(round) == {D!MatchId(phase, group, round, position) : position \in positions(round)}
           of == [round \in 1..rounds |-> matches(round)]
           parts == {of[round] : round \in 1..rounds}
<1>1. rounds \in Nat
  BY RoundsAreANumber
<1>2. DOMAIN D!Elimination(n, phase, group) = UNION {matches(round) : round \in 1..rounds}
  BY DEF D!Elimination
<1>3. ASSUME NEW round \in 1..rounds
      PROVE  positions(round) \subseteq Int /\ IsFiniteSet(matches(round))
  <2>1. rounds - round \in Nat
    BY <1>1
  <2>2. 2^(rounds - round) \in Nat
    BY <2>1, Lemmas!PowersOfTwo
  <2>3. IsFiniteSet(positions(round)) /\ positions(round) \subseteq Int
    BY <2>2, FS_Interval
  <2> DEFINE f == [position \in positions(round) |-> D!MatchId(phase, group, round, position)]
  <2> HIDE DEF positions
  <2>4. matches(round) = {f[position] : position \in positions(round)}
    OBVIOUS
  <2> HIDE DEF f, matches
  <2> QED
    BY <2>3, <2>4, ImageIsFinite
<1> HIDE DEF rounds, positions
<1>4. \A m : (\E round \in 1..rounds : m \in matches(round)) =>
             \E r, p \in Int : m = D!MatchId(phase, group, r, p)
  <2> SUFFICES ASSUME NEW m, NEW round \in 1..rounds, m \in matches(round)
               PROVE  \E r, p \in Int : m = D!MatchId(phase, group, r, p)
    OBVIOUS
  <2>1. PICK position \in positions(round) : m = D!MatchId(phase, group, round, position)
    OBVIOUS
  <2>2. round \in Int
    BY <1>1
  <2>3. positions(round) \subseteq Int
    BY <1>3, Zenon
  <2> QED
    BY <2>1, <2>2, <2>3
<1> HIDE DEF matches
<1>5. UNION {matches(round) : round \in 1..rounds} = UNION parts
  OBVIOUS
<1>6. IsFiniteSet(parts)
  <2>1. IsFiniteSet(1..rounds)
    BY <1>1, FS_Interval
  <2> HIDE DEF of
  <2> QED
    BY <2>1, ImageIsFinite
<1>7. IsFiniteSet(UNION parts)
  <2>1. \A part \in parts : IsFiniteSet(part)
    BY <1>3
  <2> HIDE DEF parts
  <2> QED
    BY <1>6, <2>1, FS_UNION
<1> QED
  BY <1>2, <1>4, <1>5, <1>7

LEMMA RoundRobinPlaces ==
  ASSUME NEW n \in Nat, NEW phase, NEW group
  PROVE  /\ IsFiniteSet(DOMAIN D!RoundRobin(n, phase, group))
         /\ \A m \in DOMAIN D!RoundRobin(n, phase, group) :
              \E r, p \in Int : m = D!MatchId(phase, group, r, p)
<1>1. IsFiniteSet(DOMAIN Lemmas!RoundRobin(n, phase, group))
  <2>1. \A S : Lemmas!IsFiniteSet(S) <=> IsFiniteSet(S)
    BY DEF IsFiniteSet, Lemmas!IsFiniteSet
  <2> QED
    BY <2>1, Lemmas!RoundRobinMatches
<1>2. Lemmas!RoundRobin(n, phase, group) = D!RoundRobin(n, phase, group)
  BY DEF D!RoundRobin, D!Circle, D!Even, D!Turned, D!MatchId,
     Lemmas!RoundRobin, Lemmas!Circle, Lemmas!Even, Lemmas!Turned, Lemmas!MatchId
<1>3. \A m \in DOMAIN D!RoundRobin(n, phase, group) :
        \E r, p \in Int : m = D!MatchId(phase, group, r, p)
  BY DEF D!RoundRobin
<1> QED
  BY <1>1, <1>2, <1>3

LEMMA ListedParts ==
  \A p : \A r, s \in Int :
    \/ \E group \in {"A", "B", "C", "D"} : p = D!MatchId("POOL", group, r, s)
    \/ \E phase \in {"MAIN", "KNOCKOUT_SF", "KNOCKOUT_FINAL"} : p = D!MatchId(phase, D!NoGroup, r, s)
    \/ \E phase \in {"REPECHAGE", "KNOCKOUT_BRONZE"}, group \in {"TOP", "BOTTOM"} :
         p = D!MatchId(phase, group, r, s)
    => IsListed(p)
<1> SUFFICES ASSUME NEW p, NEW r \in Int, NEW s \in Int,
                    NEW phase, NEW group, p = D!MatchId(phase, group, r, s),
                    \/ phase = "POOL" /\ group \in {"A", "B", "C", "D"}
                    \/ phase \in {"MAIN", "KNOCKOUT_SF", "KNOCKOUT_FINAL"} /\ group = D!NoGroup
                    \/ phase \in {"REPECHAGE", "KNOCKOUT_BRONZE"} /\ group \in {"TOP", "BOTTOM"}
             PROVE  IsListed(p)
  OBVIOUS
<1> DEFINE at(i) == Listed[i]
<1>1. /\ DOMAIN Listed = 1..11
      /\ at(1) = <<"MAIN", D!NoGroup>> /\ at(2) = <<"POOL", "A">> /\ at(3) = <<"POOL", "B">>
      /\ at(4) = <<"POOL", "C">> /\ at(5) = <<"POOL", "D">> /\ at(6) = <<"KNOCKOUT_SF", D!NoGroup>>
      /\ at(7) = <<"KNOCKOUT_FINAL", D!NoGroup>> /\ at(8) = <<"REPECHAGE", "TOP">>
      /\ at(9) = <<"REPECHAGE", "BOTTOM">> /\ at(10) = <<"KNOCKOUT_BRONZE", "TOP">>
      /\ at(11) = <<"KNOCKOUT_BRONZE", "BOTTOM">>
  BY DEF Listed
<1>2. \A i \in 1..11 : at(i) = Listed[i]
  OBVIOUS
<1> HIDE DEF at
<1>3. \E i \in 1..11 : at(i) = <<phase, group>>
  BY <1>1
<1>4. PICK i \in DOMAIN Listed : Listed[i][1] = phase /\ Listed[i][2] = group
  BY <1>1, <1>2, <1>3
<1> QED
  BY <1>4 DEF IsListed

LEMMA PoolsAreListed ==
  ASSUME NEW n \in Nat, D!IsPoolsBracketSize(n)
  PROVE  IsFiniteSet(DOMAIN D!Pools(n)) /\ \A p \in DOMAIN D!Pools(n) : IsListed(p)
<1> DEFINE members == D!SplitIntoPools(n)
           draw(group) == D!RoundRobin(Len(members[group]), "POOL", group)
           pool(group) == D!Seated(draw(group), members[group])
<1>1. \A group \in {"A", "B"} : Len(members[group]) \in Nat
  <2>1. D!SplitIntoPools(n) = Lemmas!SplitIntoPools(n)
    BY DEF D!SplitIntoPools, Lemmas!SplitIntoPools
  <2>2. n \in 5..15 /\ Lemmas!PoolGroups = {"A", "B"}
    BY DEF D!IsPoolsBracketSize, Lemmas!PoolGroups
  <2>3. \A group \in {"A", "B"} : Len(Lemmas!SplitIntoPools(n)[group]) \in Nat
    BY <2>2, Lemmas!MembersOfPools
  <2> QED
    BY <2>1, <2>3
<1>2. DOMAIN D!Pools(n) = DOMAIN pool("A") \cup DOMAIN pool("B")
  BY DEF D!Pools
<1>3. \A group : DOMAIN pool(group) = DOMAIN draw(group)
  BY DEF D!Seated
<1> HIDE DEF pool, members
<1>4. \A group \in {"A", "B"} :
        /\ IsFiniteSet(DOMAIN draw(group))
        /\ \A p \in DOMAIN draw(group) : \E r, s \in Int : p = D!MatchId("POOL", group, r, s)
  BY <1>1, RoundRobinPlaces
<1> HIDE DEF draw
<1>5. IsFiniteSet(DOMAIN pool("A") \cup DOMAIN pool("B"))
  BY <1>3, <1>4, FS_Union
<1>6. ASSUME NEW group \in {"A", "B"}, NEW p \in DOMAIN draw(group) PROVE IsListed(p)
  BY <1>4, ListedParts
<1> QED
  BY <1>2, <1>3, <1>5, <1>6

LEMMA SlamIsListed ==
  ASSUME NEW n \in Nat
  PROVE  IsFiniteSet(DOMAIN D!GrandSlam(n)) /\ \A p \in DOMAIN D!GrandSlam(n) : IsListed(p)
<1> DEFINE draw(group) == D!Elimination(D!PoolSize(n, group), "POOL", group)
           pool == [group \in D!SlamPools |-> D!Seated(draw(group), D!PoolMembers(n, group))]
           placeholders == D!RepechageMatches \cup {D!Semifinal(1), D!Semifinal(2), D!Final}
<1>1. \A group \in D!SlamPools : D!PoolSize(n, group) \in Nat
  <2>1. ASSUME NEW group \in Lemmas!SlamPools PROVE Lemmas!PoolSize(n, group) \in Nat
    <3>1. n \div 4 \in Nat /\ Lemmas!PoolSize(n, group) \in n \div 4 .. (n \div 4 + 1)
      BY Lemmas!PoolSizes
    <3> QED
      BY <3>1
  <2>2. \A group : D!PoolSize(n, group) = Lemmas!PoolSize(n, group)
    BY DEF D!PoolSize, D!DistributePoolSizes, D!PoolLetters,
           Lemmas!PoolSize, Lemmas!DistributePoolSizes, Lemmas!PoolLetters
  <2>3. D!SlamPools = Lemmas!SlamPools
    BY DEF D!SlamPools, Lemmas!SlamPools
  <2> QED
    BY <2>1, <2>2, <2>3
<1>2. DOMAIN D!GrandSlam(n) = (UNION {DOMAIN pool[group] : group \in D!SlamPools}) \cup placeholders
  <2> DEFINE pools == [m \in UNION {DOMAIN pool[group] : group \in DOMAIN pool} |-> pool[m.group][m]]
  <2>1. D!GrandSlam(n) = D!WithPlaceholders(pools, placeholders)
    BY DEF D!GrandSlam
  <2>2. DOMAIN pool = D!SlamPools
    OBVIOUS
  <2> HIDE DEF pool
  <2>3. DOMAIN pools = UNION {DOMAIN pool[group] : group \in D!SlamPools}
    BY <2>2
  <2> HIDE DEF pools, placeholders
  <2> QED
    BY <2>1, <2>3 DEF D!WithPlaceholders
<1>3. \A group \in D!SlamPools : DOMAIN pool[group] = DOMAIN draw(group)
  BY DEF D!Seated
<1>4. \A group \in D!SlamPools :
        /\ IsFiniteSet(DOMAIN draw(group))
        /\ \A p \in DOMAIN draw(group) : \E r, s \in Int : p = D!MatchId("POOL", group, r, s)
  BY <1>1, EliminationPlaces
<1> HIDE DEF pool, draw
<1>5. D!SlamPools = {"A", "B", "C", "D"}
  BY DEF D!SlamPools
<1>6. UNION {DOMAIN pool[group] : group \in D!SlamPools} =
        DOMAIN draw("A") \cup DOMAIN draw("B") \cup DOMAIN draw("C") \cup DOMAIN draw("D")
  BY <1>3, <1>5
<1>7. IsFiniteSet(DOMAIN draw("A") \cup DOMAIN draw("B") \cup DOMAIN draw("C") \cup DOMAIN draw("D"))
  BY <1>4, <1>5, FS_Union
<1>8. IsFiniteSet(placeholders) /\ \A p \in placeholders : IsListed(p)
  <2> DEFINE semi == D!Semifinal(1)
             other == D!Semifinal(2)
             top == D!Repechage("TOP")
             bottom == D!Repechage("BOTTOM")
             bronze == D!Bronze("TOP")
             third == D!Bronze("BOTTOM")
             all == {} \cup {semi} \cup {other} \cup {D!Final} \cup {top} \cup {bronze} \cup {bottom} \cup {third}
  <2>1. placeholders = all
    BY DEF D!RepechageMatches, D!Halves
  <2>2. /\ semi = D!MatchId("KNOCKOUT_SF", D!NoGroup, 1, 1)
        /\ other = D!MatchId("KNOCKOUT_SF", D!NoGroup, 1, 2)
        /\ D!Final = D!MatchId("KNOCKOUT_FINAL", D!NoGroup, 2, 1)
        /\ top = D!MatchId("REPECHAGE", "TOP", 1, 1) /\ bottom = D!MatchId("REPECHAGE", "BOTTOM", 1, 2)
        /\ bronze = D!MatchId("KNOCKOUT_BRONZE", "TOP", 1, 1)
        /\ third = D!MatchId("KNOCKOUT_BRONZE", "BOTTOM", 1, 2)
    BY DEF D!Semifinal, D!Final, D!Repechage, D!Bronze, D!Placeholder
  <2> HIDE DEF semi, other, top, bottom, bronze, third
  <2>3. /\ IsListed(semi) /\ IsListed(other) /\ IsListed(D!Final) /\ IsListed(top)
        /\ IsListed(bottom) /\ IsListed(bronze) /\ IsListed(third)
    BY <2>2, ListedParts
  <2>4. IsFiniteSet({}) /\ \A S, x : IsFiniteSet(S) => IsFiniteSet(S \cup {x})
    BY FS_EmptySet, FS_AddElement
  <2>5. IsFiniteSet(all)
    BY <2>4
  <2> HIDE DEF placeholders
  <2> QED
    BY <2>1, <2>3, <2>5
<1> HIDE DEF placeholders
<1>9. ASSUME NEW group \in {"A", "B", "C", "D"}, NEW p \in DOMAIN draw(group) PROVE IsListed(p)
  BY <1>4, <1>5, ListedParts
<1> DEFINE inPools == DOMAIN draw("A") \cup DOMAIN draw("B") \cup DOMAIN draw("C") \cup DOMAIN draw("D")
<1>10. \A p \in inPools : IsListed(p)
  BY <1>9
<1>11. DOMAIN D!GrandSlam(n) = inPools \cup placeholders /\ IsFiniteSet(inPools)
  BY <1>2, <1>6, <1>7
<1> HIDE DEF inPools
<1> QED
  BY <1>8, <1>10, <1>11, FS_Union

LEMMA DrawIsListed ==
  ASSUME NEW n \in Nat
  PROVE  LET draw == D!Draw(FormatOf(n), n)
         IN  /\ IsFiniteSet(DOMAIN draw) /\ \A p \in DOMAIN draw : IsListed(p)
             /\ FormatOf(n) = "ROUND_ROBIN" => draw = RR(n)
<1>1. CASE n <= 4
  <2>1. FormatOf(n) = "ROUND_ROBIN"
    BY <1>1 DEF FormatOf, D!IsPoolsBracketSize
  <2>2. D!Draw("ROUND_ROBIN", n) = RR(n)
    BY DEF D!Draw, RR
  <2>3. IsFiniteSet(DOMAIN RR(n)) /\ \A p \in DOMAIN RR(n) : IsListed(p)
    <3>1. /\ IsFiniteSet(DOMAIN RR(n))
          /\ \A p \in DOMAIN RR(n) : \E r, s \in Int : p = D!MatchId("MAIN", D!NoGroup, r, s)
      BY RoundRobinPlaces DEF RR
    <3> QED
      BY <3>1, ListedParts
  <2> QED
    BY <2>1, <2>2, <2>3
<1>2. CASE n > 4 /\ D!IsPoolsBracketSize(n)
  <2>1. FormatOf(n) = "POOLS"
    BY <1>2 DEF FormatOf
  <2>2. D!Draw("POOLS", n) = D!Pools(n)
    BY DEF D!Draw
  <2> QED
    BY <1>2, <2>1, <2>2, PoolsAreListed
<1>3. CASE n > 4 /\ ~D!IsPoolsBracketSize(n)
  <2>1. FormatOf(n) = "GRAND_SLAM"
    BY <1>3 DEF FormatOf
  <2>2. D!Draw("GRAND_SLAM", n) = D!GrandSlam(n)
    BY DEF D!Draw
  <2> QED
    BY <2>1, <2>2, SlamIsListed
<1> QED
  BY <1>1, <1>2, <1>3

PairIn(seed, two) == {seed[two[1] + 1], seed[two[2] + 1]}

(* The competitors of a category in the order they were read, each once.   *)
Seeded(seed) == \E n \in Nat : seed \in [1..n -> Competitors] /\ IsInjective(seed)

(* The matches of a round robin, each found by its place.                  *)
RoundRobinOf(id, seed) ==
  /\ {match[m].place : m \in MatchesOf(id)} = DOMAIN RR(Len(seed))
  /\ \A m \in MatchesOf(id) :
       /\ match[m].format = "ROUND_ROBIN"
       /\ Opponents(m) = PairIn(seed, RR(Len(seed))[match[m].place])

(* The matches that one draw has written for a category.                   *)
Numbered(d, id, n) == {<<d, id, i>> : i \in 1..n}

DrawnWhole(id) ==
  /\ \E d, n : n \in Nat /\ MatchesOf(id) = Numbered(d, id, n)
  /\ \A m, n \in MatchesOf(id) : match[m].place = match[n].place => m = n
  /\ \/ \A m \in MatchesOf(id) : match[m].format # "ROUND_ROBIN"
     \/ \E seed : Seeded(seed) /\ RoundRobinOf(id, seed)

SeedsAreRead(h) ==
  \A id \in call[h].todo \cup call[h].locked : Seeded(call[h].members[id])

DrawsInv ==
  /\ \A id \in DOMAIN category : DrawnWhole(id)
  /\ \A h \in Handlers : pc[h] = "draw" => SeedsAreRead(h)

(* The round robin, in the terms of the lemmas about it.                   *)
LEMMA RoundRobinIsWhole ==
  ASSUME NEW n \in Nat
  PROVE  LET draw == RR(n)
         IN  /\ \A m \in DOMAIN draw : draw[m][1] \in 0..(n - 1) /\ draw[m][2] \in 0..(n - 1)
             /\ \A a, b \in 0..(n - 1) : a # b => \E m \in DOMAIN draw : {draw[m][1], draw[m][2]} = {a, b}
             /\ \A m, other \in DOMAIN draw :
                  {draw[m][1], draw[m][2]} = {draw[other][1], draw[other][2]} => m = other
<1>1. Lemmas!EachPairOnce(n, "MAIN", Lemmas!NoGroup)
  BY Lemmas!RoundRobinIsComplete
<1>2. Lemmas!RoundRobin(n, "MAIN", Lemmas!NoGroup) = RR(n)
  BY DEF RR, D!RoundRobin, D!NoGroup, D!Circle, D!Even, D!Turned, D!MatchId,
     Lemmas!RoundRobin, Lemmas!NoGroup, Lemmas!Circle, Lemmas!Even, Lemmas!Turned, Lemmas!MatchId
<1> QED
  BY <1>1, <1>2 DEF Lemmas!EachPairOnce

(* What a draw writes for a category: its matches in their order, each at  *)
(* another place.                                                          *)
LEMMA DrawOfSeed ==
  ASSUME NEW h, NEW id, Seeded(call[h].members[id])
  PROVE  LET seed == call[h].members[id]
             drawn == D!Draw(FormatOf(Len(seed)), Len(seed))
             draw == DrawOf(h, id)
         IN  /\ \E n \in Nat : DOMAIN draw = {<<draws + 1, id, i>> : i \in 1..n}
             /\ \A k, m \in DOMAIN draw : draw[k].place = draw[m].place => k = m
             /\ {draw[k].place : k \in DOMAIN draw} = DOMAIN drawn
             /\ \A k \in DOMAIN draw : draw[k].format = FormatOf(Len(seed))
             /\ FormatOf(Len(seed)) = "ROUND_ROBIN" =>
                  /\ drawn = RR(Len(seed))
                  /\ \A k \in DOMAIN draw : {draw[k].competitor[side] : side \in D!Sides} =
                                              PairIn(seed, drawn[draw[k].place])
<1> DEFINE seed == call[h].members[id]
           size == Len(seed)
           drawn == D!Draw(FormatOf(size), size)
           S == DOMAIN drawn
           R == {x \in S \X S : ListedBefore(x[1], x[2])}
           list == Sorted(S, ListedBefore)
           n == Cardinality(S)
           draw == DrawOf(h, id)
           entrant(p, side) == IF drawn[p][side] = D!Nobody THEN None ELSE seed[drawn[p][side] + 1]
           key(i) == <<draws + 1, id, i>>
           row(i) == [category |-> id, format |-> FormatOf(size), place |-> list[i],
                      competitor |-> [side \in D!Sides |-> entrant(list[i], side)],
                      status |-> "SCHEDULED", mat |-> call[h].target[id]]
           value(i) == CHOOSE p \in S : Cardinality({q \in S : ListedBefore(q, p)}) = i - 1
<1>1. size \in Nat
  BY DEF Seeded
<1>2. /\ IsFiniteSet(S) /\ IsTotal(R, S)
      /\ FormatOf(size) = "ROUND_ROBIN" => drawn = RR(size)
  <2> HIDE DEF size
  <2> QED
    BY <1>1, DrawIsListed, ListedIsTotal
<1>3. list = [i \in 1..n |-> value(i)]
  BY DEF Sorted
<1>4. \A p \in S : {q \in S : ListedBefore(q, p)} = GoingBefore(R, S, p)
  BY DEF GoingBefore
<1>5. DOMAIN list = 1..n
  BY <1>3
<1>6. draw = [k \in {key(i) : i \in DOMAIN list} |-> row(k[3])]
  BY DEF DrawOf
<1>7. InPlace(list, R, S)
  <2> HIDE DEF S, R, list
  <2>1. ASSUME NEW i \in 1..n, \E p \in S : Cardinality(GoingBefore(R, S, p)) = i - 1
        PROVE  list[i] \in S /\ Cardinality(GoingBefore(R, S, list[i])) = i - 1
    <3>1. list[i] = value(i)
      <4> HIDE DEF value
      <4> QED
        BY <1>3
    <3>2. \E p \in S : Cardinality({q \in S : ListedBefore(q, p)}) = i - 1
      BY <1>4, <2>1
    <3>3. list[i] \in S /\ Cardinality({q \in S : ListedBefore(q, list[i])}) = i - 1
      BY <3>1, <3>2
    <3> QED
      BY <1>4, <3>3
  <2>2. list = [i \in 1..n |-> list[i]]
    <3> HIDE DEF value, n
    <3> QED
      BY <1>3
  <2> QED
    BY <1>2, <2>1, <2>2, SortedList
<1>8. /\ n \in Nat /\ list \in [1..n -> S]
      /\ \A p \in S : \E i \in 1..n : list[i] = p
      /\ \A i, j \in 1..n : list[i] = list[j] => i = j
  <2> HIDE DEF S, R, list
  <2>1. n \in Nat
    BY <1>2, FS_CardinalityType
  <2>2. list \in [1..n -> S]
    BY <1>7 DEF InPlace
  <2> QED
    BY <1>2, <1>7, <2>1, <2>2, SortedByPlace
<1> HIDE DEF list, n, draw, entrant, size
<1>9. /\ DOMAIN draw = {key(i) : i \in 1..n}
      /\ \A i \in 1..n : draw[key(i)] = row(i)
  <2>1. \A i : key(i)[3] = i
    OBVIOUS
  <2> HIDE DEF row, key
  <2> QED
    BY <1>5, <1>6, <2>1
<1>14. \A i \in 1..n :
         /\ row(i).place = list[i] /\ row(i).format = FormatOf(size)
         /\ \A side \in D!Sides : row(i).competitor[side] = entrant(list[i], side)
  OBVIOUS
<1> HIDE DEF row
<1>15. \E m \in Nat : DOMAIN draw = {<<draws + 1, id, i>> : i \in 1..m}
  BY <1>8, <1>9
<1> HIDE DEF key
<1>10. \A k, m \in DOMAIN draw : draw[k].place = draw[m].place => k = m
  BY <1>8, <1>9, <1>14
<1>11. {draw[k].place : k \in DOMAIN draw} = S
  <2> HIDE DEF S
  <2>1. \A k \in DOMAIN draw : draw[k].place \in S
    BY <1>8, <1>9, <1>14
  <2>2. \A p \in S : \E k \in DOMAIN draw : draw[k].place = p
    <3> TAKE p \in S
    <3>1. PICK i \in 1..n : list[i] = p
      BY <1>8
    <3> QED
      BY <1>9, <1>14, <3>1
  <2> QED
    BY <2>1, <2>2
<1>12. \A k \in DOMAIN draw : draw[k].format = FormatOf(size)
  BY <1>9, <1>14
<1>13. ASSUME FormatOf(size) = "ROUND_ROBIN", NEW k \in DOMAIN draw
       PROVE  {draw[k].competitor[side] : side \in D!Sides} = PairIn(seed, drawn[draw[k].place])
  <2>1. PICK i \in 1..n : draw[k] = row(i)
    BY <1>9
  <2> DEFINE p == list[i]
  <2>2. p \in S /\ drawn = RR(size)
    BY <1>2, <1>8, <1>13
  <2>3. draw[k].place = p /\ \A side \in D!Sides : draw[k].competitor[side] = entrant(p, side)
    BY <1>14, <2>1
  <2> HIDE DEF p
  <2>4. drawn[p][1] \in 0..(size - 1) /\ drawn[p][2] \in 0..(size - 1)
    <3> HIDE DEF drawn
    <3> QED
      BY <1>1, <2>2, RoundRobinIsWhole
  <2> HIDE DEF drawn
  <2>5. entrant(p, 1) = seed[drawn[p][1] + 1] /\ entrant(p, 2) = seed[drawn[p][2] + 1]
    BY <1>1, <2>4 DEF entrant, D!Nobody
  <2> HIDE DEF seed
  <2> QED
    BY <2>3, <2>5 DEF PairIn, D!Sides
<1> QED
  BY <1>2, <1>15, <1>10, <1>11, <1>12, <1>13 DEF draw, size

(* Steps that leave the matches of a category where they are.              *)
LEMMA DrawnStays ==
  ASSUME NEW id,
         \A k : k \in MatchesOf(id)' <=> k \in MatchesOf(id),
         \A k \in MatchesOf(id) :
           /\ match'[k].format = match[k].format /\ match'[k].place = match[k].place
           /\ match[k].format = "ROUND_ROBIN" => Opponents(k)' = Opponents(k),
         DrawnWhole(id)
  PROVE  DrawnWhole(id)'
<1>1. MatchesOf(id)' = MatchesOf(id)
  OBVIOUS
<1>2. ASSUME NEW seed, RoundRobinOf(id, seed)
      PROVE  RoundRobinOf(id, seed)'
  <2>1. {match'[m].place : m \in MatchesOf(id)'} = {match[m].place : m \in MatchesOf(id)}
    BY <1>1
  <2>2. ASSUME NEW m \in MatchesOf(id)'
        PROVE  /\ match'[m].format = "ROUND_ROBIN"
               /\ Opponents(m)' = PairIn(seed, RR(Len(seed))[match'[m].place])
    BY <1>1, <1>2 DEF RoundRobinOf
  <2> QED
    BY <1>2, <2>1, <2>2 DEF RoundRobinOf
<1>3. \A m, n \in MatchesOf(id)' : match'[m].place = match'[n].place => m = n
  BY <1>1 DEF DrawnWhole
<1>4. (\A m \in MatchesOf(id) : match[m].format # "ROUND_ROBIN") =>
        \A m \in MatchesOf(id)' : match'[m].format # "ROUND_ROBIN"
  BY <1>1
<1>5. \E d, n : n \in Nat /\ MatchesOf(id)' = Numbered(d, id, n)
  <2>1. PICK d, n : n \in Nat /\ MatchesOf(id) = Numbered(d, id, n)
    BY DEF DrawnWhole
  <2> QED
    BY <1>1, <2>1
<1>6. \/ \A m \in MatchesOf(id)' : match'[m].format # "ROUND_ROBIN"
      \/ \E seed : Seeded(seed) /\ RoundRobinOf(id, seed)'
  BY <1>2, <1>4 DEF DrawnWhole
<1> QED
  BY <1>3, <1>5, <1>6 DEF DrawnWhole, Seeded

LEMMA SeedsStay ==
  ASSUME NEW h \in Handlers, pc'[h] = pc[h], call'[h] = call[h], pc[h] = "draw" => SeedsAreRead(h)
  PROVE  pc'[h] = "draw" => SeedsAreRead(h)'
BY DEF SeedsAreRead, Seeded

LEMMA InitDraws == Init => DrawsInv
<1> SUFFICES ASSUME Init PROVE DrawsInv
  OBVIOUS
<1>1. DOMAIN category = {} /\ \A h \in Handlers : pc[h] # "draw"
  BY DEF Init
<1> QED
  BY <1>1 DEF DrawsInv

(* The competitors of a category are read in the order of their rows.      *)
LEMMA MembersAreSeeded ==
  ASSUME CallsInv, RowsInv, NEW id
  PROVE  Seeded(Sorted(Members(id), ReadBefore))
<1> DEFINE S == Members(id)
           R == {x \in S \X S : x[1] < x[2]}
           list == Sorted(S, ReadBefore)
           n == Cardinality(S)
           value(i) == CHOOSE c \in S : Cardinality({d \in S : d < c}) = i - 1
<1>1. S \subseteq Competitors /\ IsFiniteSet(S) /\ \A c \in S : c \in Int
  <2>1. S \subseteq Competitors /\ IsFiniteSet(Competitors) /\ Competitors \subseteq Int
    BY CategoriesTypes DEF CallsInv, RowsInv, Members
  <2> HIDE DEF S
  <2> QED
    BY <2>1, FS_Subset
<1>2. list = [i \in 1..n |-> value(i)]
  BY DEF Sorted, ReadBefore
<1> HIDE DEF S
<1>3. IsTotal(R, S)
  BY <1>1 DEF IsTotal
<1>4. \A c \in S : {d \in S : d < c} = GoingBefore(R, S, c)
  BY DEF GoingBefore
<1> HIDE DEF R, list
<1>5. ASSUME NEW i \in 1..n, \E c \in S : Cardinality(GoingBefore(R, S, c)) = i - 1
      PROVE  list[i] \in S /\ Cardinality(GoingBefore(R, S, list[i])) = i - 1
  <2>1. list[i] = value(i)
    <3> HIDE DEF value
    <3> QED
      BY <1>2
  <2>2. \E c \in S : Cardinality({d \in S : d < c}) = i - 1
    BY <1>4, <1>5
  <2>3. list[i] \in S /\ Cardinality({d \in S : d < list[i]}) = i - 1
    BY <2>1, <2>2
  <2> QED
    BY <1>4, <2>3
<1>6. InPlace(list, R, S)
  <2>1. list = [i \in 1..n |-> list[i]]
    <3> HIDE DEF value, n
    <3> QED
      BY <1>2
  <2> QED
    BY <1>1, <1>3, <1>5, <2>1, SortedList
<1>7. n \in Nat /\ list \in [1..n -> S] /\ \A i, j \in 1..n : list[i] = list[j] => i = j
  <2>1. n \in Nat
    BY <1>1, FS_CardinalityType
  <2>2. list \in [1..n -> S]
    BY <1>6 DEF InPlace
  <2> QED
    BY <1>1, <1>3, <1>6, <2>1, <2>2, SortedByPlace
<1>8. list \in [1..n -> Competitors]
  BY <1>1, <1>7
<1> HIDE DEF n
<1>9. Seeded(list)
  BY <1>7, <1>8 DEF Seeded, IsInjective
<1> QED
  BY <1>9 DEF list, S

LEMMA ReadsDrawOrNot ==
  ASSUME NEW h, Reads(h)
  PROVE  \/ GenerateBrackets(h)
         \/ UpdateCategory(h)
         \/ \E where, c : Goto(h, where, c) /\ where # "draw"
<1>1. ASSUME NEW op, NEW where, NEW c, Begin(h, op, where, c), where # "draw"
      PROVE  \E w, new : Goto(h, w, new) /\ w # "draw"
  BY <1>1 DEF Begin
<1>2. Rollback(h) \/ ClearCategories(h) \/ ReplaceCategories(h) =>
        \E w, new : Goto(h, w, new) /\ w # "draw"
  BY DEF Rollback, Return, ClearCategories, ReplaceCategories
<1>3. ASSUME NEW c, NEW w, RecordWeight(h, c, w) \/ UpdateWeight(h, c, w)
      PROVE  \E op, where, new : Begin(h, op, where, new) /\ where # "draw"
  BY <1>3 DEF RecordWeight, UpdateWeight
<1>4. GenerateCategories(h) => \E new : Begin(h, "generate", "clear", new)
  BY DEF GenerateCategories
<1>5. \A c : AssignCompetitor(h, c) =>
        \E new : Begin(h, "assignCompetitor", "assignCompetitor", new)
  BY DEF AssignCompetitor
<1>6. AssignCategoriesToMats(h) => \E new : Begin(h, "assignAll", "assign", new)
  BY DEF AssignCategoriesToMats
<1>7. \A id, mat : AssignCategoryToMat(h, id, mat) => \E new : Begin(h, "assign", "assign", new)
  BY DEF AssignCategoryToMat
<1>8. \A n : CreateMats(h, n) => \E new : Begin(h, "createMats", "createMats", new)
  BY DEF CreateMats
<1> QED
  BY <1>1, <1>2, <1>3, <1>4, <1>5, <1>6, <1>7, <1>8 DEF Reads

LEMMA ReadsDraws ==
  ASSUME CallsInv, RowsInv, DrawsInv, NEW h \in setting.handlers, Reads(h)
  PROVE  DrawsInv'
<1> h \in Handlers
  BY HandlersOfSetting DEF CallsInv
<1>1. UNCHANGED <<category, match>>
  BY ReadsFrame
<1>2. ASSUME NEW id \in DOMAIN category PROVE DrawnWhole(id)'
  BY <1>1, <1>2, DrawnStays DEF DrawsInv, MatchesOf, Opponents
<1>3. \/ GenerateBrackets(h)
      \/ UpdateCategory(h)
      \/ \E where, c : Goto(h, where, c) /\ where # "draw"
  BY ReadsDrawOrNot
<1>4. ASSUME NEW where, NEW c, Goto(h, where, c),
             where = "draw" => \A id \in c.todo \cup c.locked : Seeded(c.members[id])
      PROVE  DrawsInv'
  <2>1. OnlyCall(h, where, c)
    BY <1>4, GotoIsOnlyCall
  <2>2. ASSUME NEW g \in Handlers, pc'[g] = "draw" PROVE SeedsAreRead(g)'
    <3>1. CASE g = h
      BY <1>4, <2>1, <2>2, <3>1 DEF OnlyCall, SeedsAreRead, Seeded
    <3>2. CASE g # h
      BY <2>1, <2>2, <3>2, SeedsStay DEF OnlyCall, DrawsInv
    <3> QED
      BY <3>1, <3>2
  <2> QED
    BY <1>1, <1>2, <2>2 DEF DrawsInv
<1>5. CASE GenerateBrackets(h)
  <2> DEFINE new == [NoCall EXCEPT !.todo = Drawable, !.known = DOMAIN match,
                        !.members = [id \in Drawable |-> Sorted(Members(id), ReadBefore)],
                        !.target = [id \in Drawable |-> category[id].mat]]
  <2>1. Goto(h, "draw", new)
    BY <1>5 DEF GenerateBrackets, Begin
  <2>2. /\ new.todo = Drawable /\ new.locked = {}
        /\ new.members = [id \in Drawable |-> Sorted(Members(id), ReadBefore)]
    BY DEF NoCall
  <2> HIDE DEF new
  <2>3. \A id \in new.todo \cup new.locked : Seeded(new.members[id])
    BY <2>2, MembersAreSeeded
  <2> QED
    BY <1>4, <2>1, <2>3
<1>6. CASE UpdateCategory(h)
  <2>1. PICK id \in call[h].todo :
          IF id \in DOMAIN category
          THEN Goto(h, pc[h], [call[h] EXCEPT !.todo = @ \ {id}, !.locked = @ \cup {id}])
          ELSE Return(h)
    BY <1>6 DEF UpdateCategory
  <2>2. CASE id \in DOMAIN category
    <3> DEFINE new == [call[h] EXCEPT !.todo = @ \ {id}, !.locked = @ \cup {id}]
    <3>1. CallFields \subseteq DOMAIN call[h]
      BY DEF CallsInv, CallOK
    <3>2. /\ new.todo = call[h].todo \ {id} /\ new.locked = call[h].locked \cup {id}
          /\ new.members = call[h].members
      BY <3>1 DEF CallFields
    <3>3. Goto(h, pc[h], new)
      BY <2>1, <2>2
    <3> HIDE DEF new
    <3>4. pc[h] = "draw" => \A i \in new.todo \cup new.locked : Seeded(new.members[i])
      BY <3>2 DEF DrawsInv, SeedsAreRead
    <3> QED
      BY <1>4, <3>3, <3>4
  <2>3. CASE id \notin DOMAIN category
    BY <1>4, <2>1, <2>3 DEF Return
  <2> QED
    BY <2>2, <2>3
<1> QED
  BY <1>3, <1>4, <1>5, <1>6

(* A draw writes all its matches, and keeps those of other categories.     *)
LEMMA AllAreWritten ==
  ASSUME RowsInv, NEW h, CommitDraw(h)
  PROVE  /\ \A id \in call[h].locked : \A k \in DOMAIN DrawOf(h, id) :
              k \in DOMAIN match' /\ match'[k] = DrawOf(h, id)[k]
         /\ \A k \in DOMAIN match : match[k].category \notin call[h].locked =>
              k \in DOMAIN match' /\ match'[k] = match[k]
<1> DEFINE draw == [id \in call[h].locked |-> DrawOf(h, id)]
           drawn == UNION {DOMAIN draw[id] : id \in call[h].locked}
           kept == DOMAIN match \ Replaced(h)
<1>1. match' = [n \in drawn \cup kept |-> IF n \in drawn THEN draw[n[2]][n] ELSE match[n]]
  BY DEF CommitDraw
<1>2. \A id \in call[h].locked : draw[id] = DrawOf(h, id)
  OBVIOUS
<1> HIDE DEF draw
<1>3. ASSUME NEW id \in call[h].locked, NEW k \in DOMAIN DrawOf(h, id)
      PROVE  k \in DOMAIN match' /\ match'[k] = DrawOf(h, id)[k]
  <2>1. k \in drawn /\ k[2] = id
    BY <1>2, <1>3, DrawnRows
  <2> HIDE DEF drawn, kept
  <2> QED
    BY <1>1, <1>2, <2>1
<1>4. ASSUME NEW k \in DOMAIN match, match[k].category \notin call[h].locked
      PROVE  k \in DOMAIN match' /\ match'[k] = match[k]
  <2>1. k \in kept
    BY <1>4 DEF Replaced
  <2>2. k \notin drawn
    <3> SUFFICES ASSUME NEW id \in call[h].locked, k \in DOMAIN DrawOf(h, id) PROVE FALSE
      BY <1>2
    <3> QED
      BY <1>4, DrawnRows DEF RowsInv
  <2> HIDE DEF drawn, kept
  <2> QED
    BY <1>1, <2>1, <2>2
<1> QED
  BY <1>3, <1>4

LEMMA CommitDrawDraws ==
  ASSUME CallsInv, RowsInv, DrawsInv, NEW h \in setting.handlers, CommitDraw(h)
  PROVE  DrawsInv'
<1> h \in Handlers
  BY HandlersOfSetting DEF CallsInv
<1>1. category' = category /\ OnlyCall(h, "idle", NoCall)
  BY GotoIsOnlyCall DEF CommitDraw, Return
<1>2. ASSUME NEW id \in call[h].locked PROVE DrawnWhole(id)'
  <2>0. PICK seed : seed = call[h].members[id]
    OBVIOUS
  <2> DEFINE format == FormatOf(Len(seed))
             drawn == D!Draw(format, Len(seed))
             draw == DrawOf(h, id)
  <2>1. Seeded(seed)
    BY <2>0 DEF CommitDraw, DrawsInv, SeedsAreRead
  <2>2. \A k : k \in MatchesOf(id)' <=> k \in DOMAIN draw
    <3>1. ASSUME NEW k \in DOMAIN match', match'[k].category = id
          PROVE  k \in DOMAIN draw
      BY <1>2, <3>1, MatchesDrawn, DrawnRows
    <3>2. ASSUME NEW k \in DOMAIN draw
          PROVE  k \in DOMAIN match' /\ match'[k].category = id
      BY AllAreWritten, DrawnRows
    <3> QED
      BY <3>1, <3>2 DEF MatchesOf
  <2>3. \A k \in DOMAIN draw : match'[k] = draw[k]
    BY AllAreWritten
  <2>4. /\ \E n \in Nat : DOMAIN draw = {<<draws + 1, id, i>> : i \in 1..n}
        /\ \A k, m \in DOMAIN draw : draw[k].place = draw[m].place => k = m
        /\ {draw[k].place : k \in DOMAIN draw} = DOMAIN drawn
        /\ \A k \in DOMAIN draw : draw[k].format = format
        /\ format = "ROUND_ROBIN" =>
             /\ drawn = RR(Len(seed))
             /\ \A k \in DOMAIN draw : {draw[k].competitor[side] : side \in D!Sides} =
                                         PairIn(seed, drawn[draw[k].place])
    BY <2>0, <2>1, DrawOfSeed
  <2> HIDE DEF draw, format, drawn
  <2>5. MatchesOf(id)' = DOMAIN draw
    BY <2>2
  <2>6. \E d, n : n \in Nat /\ MatchesOf(id)' = Numbered(d, id, n)
    <3>1. PICK n \in Nat : DOMAIN draw = {<<draws + 1, id, i>> : i \in 1..n}
      BY <2>4
    <3>2. \E d : d = draws + 1
      OBVIOUS
    <3> QED
      BY <2>5, <3>1, <3>2 DEF Numbered
  <2>7. \A m, n \in MatchesOf(id)' : match'[m].place = match'[n].place => m = n
    BY <2>3, <2>4, <2>5
  <2>8. CASE format = "ROUND_ROBIN"
    <3>1. {match'[m].place : m \in MatchesOf(id)'} = DOMAIN RR(Len(seed))
      <4>1. {match'[m].place : m \in MatchesOf(id)'} = {draw[k].place : k \in DOMAIN draw}
        BY <2>3, <2>5
      <4> QED
        BY <2>4, <2>8, <4>1
    <3>2. ASSUME NEW m \in MatchesOf(id)'
          PROVE  /\ match'[m].format = "ROUND_ROBIN"
                 /\ Opponents(m)' = PairIn(seed, RR(Len(seed))[match'[m].place])
      <4>1. m \in DOMAIN draw /\ match'[m] = draw[m]
        BY <2>3, <2>5
      <4>2. Opponents(m)' = {draw[m].competitor[side] : side \in D!Sides}
        BY <4>1 DEF Opponents
      <4> QED
        BY <2>4, <2>8, <4>1, <4>2
    <3>3. RoundRobinOf(id, seed)'
      BY <3>1, <3>2 DEF RoundRobinOf
    <3> QED
      BY <2>1, <2>6, <2>7, <3>3 DEF DrawnWhole, Seeded
  <2>9. CASE format # "ROUND_ROBIN"
    <3>1. \A m \in MatchesOf(id)' : match'[m].format # "ROUND_ROBIN"
      BY <2>3, <2>4, <2>5, <2>9
    <3> QED
      BY <2>6, <2>7, <3>1 DEF DrawnWhole
  <2> QED
    BY <2>8, <2>9
<1>3. ASSUME NEW id \in DOMAIN category, id \notin call[h].locked PROVE DrawnWhole(id)'
  <2>1. \A k : k \in MatchesOf(id)' <=> k \in MatchesOf(id)
    <3>1. ASSUME NEW k \in DOMAIN match', match'[k].category = id
          PROVE  k \in DOMAIN match /\ match[k].category = id
      BY <1>3, <3>1, MatchesDrawn, DrawnRows
    <3>2. ASSUME NEW k \in DOMAIN match, match[k].category = id
          PROVE  k \in DOMAIN match' /\ match'[k].category = id
      BY <1>3, <3>2, AllAreWritten
    <3> QED
      BY <3>1, <3>2 DEF MatchesOf
  <2>2. \A k \in MatchesOf(id) : match'[k] = match[k]
    BY <1>3, AllAreWritten DEF MatchesOf
  <2>3. \A k \in MatchesOf(id) : Opponents(k)' = Opponents(k)
    BY <2>2 DEF Opponents
  <2> QED
    BY <2>1, <2>2, <2>3, DrawnStays DEF DrawsInv
<1>4. ASSUME NEW g \in Handlers, pc'[g] = "draw" PROVE SeedsAreRead(g)'
  BY <1>1, <1>4, SeedsStay DEF OnlyCall, DrawsInv
<1> QED
  BY <1>1, <1>2, <1>3, <1>4 DEF DrawsInv

LEMMA NumberedRows ==
  ASSUME NEW d, NEW id, NEW n \in Nat
  PROVE  IsFiniteSet(Numbered(d, id, n)) /\ Cardinality(Numbered(d, id, n)) = n
<1> DEFINE S == {<<d, id, i>> : i \in 1..n}
           row == [i \in 1..n |-> <<d, id, i>>]
<1>1. row \in [1..n -> S] /\ \A i, j \in 1..n : row[i] = row[j] => i = j
  OBVIOUS
<1>2. \A k \in S : \E i \in 1..n : row[i] = k
  OBVIOUS
<1> HIDE DEF row, S
<1>3. row \in Bijection(1..n, S)
  BY <1>1, <1>2 DEF Bijection, Injection, Surjection, IsInjective
<1>4. Cardinality(S) = n
  BY <1>3, FS_CountingElements DEF ExistsBijection
<1>5. IsFiniteSet(S)
  BY <1>3, FS_Interval, FS_Bijection DEF ExistsBijection
<1> QED
  BY <1>4, <1>5 DEF S, Numbered

(* The knock-out goes on where the pools end, at places of its own.        *)
LEMMA KnockoutNumbered ==
  ASSUME NEW d, NEW id, NEW n \in Nat, NEW m, NEW a, NEW b,
         MatchesOf(id) = Numbered(d, id, n), m \in MatchesOf(id)
  PROVE  LET new == Knockout(m, a, b)
         IN  /\ \E last \in Nat : MatchesOf(id) \cup DOMAIN new = Numbered(d, id, last)
             /\ MatchesOf(id) \cap DOMAIN new = {}
             /\ \A k \in DOMAIN new : new[k].place.phase # "POOL"
             /\ \A k, l \in DOMAIN new : new[k].place = new[l].place => k = l
<1> DEFINE new == Knockout(m, a, b)
           count == Cardinality(EntrantsOf(id, {"A", "B"}))
           plan == KnockoutPlan(count, a, b)
           row(i) == [category |-> id, format |-> "POOLS", place |-> plan[i][1],
                      competitor |-> [side \in D!Sides |-> plan[i][side + 1]],
                      status |-> "SCHEDULED", mat |-> None]
<1>0. match[m].category = id
  BY DEF MatchesOf
<1>1. m[1] = d /\ Cardinality(MatchesOf(id)) = n
  <2>1. m[1] = d
    BY DEF Numbered
  <2> QED
    BY <2>1, NumberedRows
<1>2. new = [k \in {<<d, id, n + i>> : i \in DOMAIN plan} |-> row(k[3] - n)]
  BY <1>0, <1>1 DEF Knockout
<1>3. /\ DOMAIN plan = 1..2 \/ DOMAIN plan = 1..4
      /\ \A i \in DOMAIN plan : plan[i][1].phase # "POOL"
      /\ \A i, j \in DOMAIN plan : plan[i][1] = plan[j][1] => i = j
  BY DEF KnockoutPlan, KnockoutFinal, KnockoutBronze, KnockoutSemifinal, D!MatchId
<1> HIDE DEF plan
<1>4. PICK size \in Nat : DOMAIN plan = 1..size
  BY <1>3
<1>5. \A i : row(i).place = plan[i][1]
  OBVIOUS
<1> HIDE DEF row, new
<1>6. ASSUME NEW k \in DOMAIN new
      PROVE  \E i \in 1..size : k = <<d, id, n + i>> /\ new[k].place = plan[i][1]
  <2>1. PICK i \in 1..size : k = <<d, id, n + i>>
    BY <1>2, <1>4
  <2>2. k[3] - n = i
    BY <2>1
  <2>3. new[k] = row(i)
    BY <1>2, <2>2
  <2> QED
    BY <1>5, <2>1, <2>3
<1>7. MatchesOf(id) \cup DOMAIN new = Numbered(d, id, n + size)
  <2>1. \A i \in 1..n : i \in 1..(n + size)
    OBVIOUS
  <2>2. \A i \in 1..size : n + i \in 1..(n + size)
    OBVIOUS
  <2>3. \A i \in 1..(n + size) : i \in 1..n \/ (i - n \in 1..size /\ n + (i - n) = i)
    OBVIOUS
  <2>4. DOMAIN new = {<<d, id, n + i>> : i \in 1..size}
    BY <1>2, <1>4
  <2> QED
    BY <2>1, <2>2, <2>3, <2>4 DEF Numbered
<1>8. MatchesOf(id) \cap DOMAIN new = {}
  <2>1. \A i \in 1..n, j \in 1..size : i # n + j
    OBVIOUS
  <2> QED
    BY <1>6, <2>1 DEF Numbered
<1>9. \A k \in DOMAIN new : new[k].place.phase # "POOL"
  BY <1>3, <1>4, <1>6
<1>10. \A k, l \in DOMAIN new : new[k].place = new[l].place => k = l
  BY <1>3, <1>4, <1>6
<1> QED
  BY <1>7, <1>8, <1>9, <1>10, n + size \in Nat DEF new

(* In a round robin nobody goes on to another match.                       *)
LEMMA NobodyMoves ==
  ASSUME RowsInv, NEW m, NEW side, EndMatch(m, side), NEW k \in DOMAIN match,
         match[k].category = match[m].category => match[m].format = "ROUND_ROBIN"
  PROVE  Opponents(k)' = Opponents(k)
<1>1. CASE match[k].category = match[m].category
  <2>1. WinnerGoesTo(m) = {} /\ LoserGoesTo(m) = {}
    BY <1>1 DEF WinnerGoesTo, LoserGoesTo, IsPoolSemifinal
  <2>2. \A s \in D!Sides : Advanced(m, side, k)[s] = match[k].competitor[s]
    BY <2>1 DEF Advanced
  <2>3. match'[k].competitor = Advanced(m, side, k)
    BY <1>1, EndIsFought
  <2> QED
    BY <2>2, <2>3 DEF Opponents
<1>2. CASE match[k].category # match[m].category
  <2>1. match'[k].competitor = match[k].competitor
    BY <1>2, EndIsFought
  <2> QED
    BY <2>1 DEF Opponents
<1> QED
  BY <1>1, <1>2

LEMMA KnockoutPlaces ==
  ASSUME RowsInv, NEW m \in DOMAIN match, NEW side, EndMatch(m, side), NEW id, match[m].category = id,
         DrawnWhole(id), NEW k \in DOMAIN match', k \notin DOMAIN match
  PROVE  match'[k].place.phase # "POOL"
<1>0. match[m].category = id
  OBVIOUS
<1>1. PICK a \in FirstTwo(id, "A"), b \in FirstTwo(id, "B") :
        /\ DOMAIN match' = DOMAIN match \cup DOMAIN Knockout(m, a, b)
        /\ \A l \in DOMAIN match' \ DOMAIN match : match'[l] = Knockout(m, a, b)[l]
  BY EndIsFought
<1>2. PICK d, n : n \in Nat /\ MatchesOf(id) = Numbered(d, id, n)
  BY DEF DrawnWhole
<1>3. m \in MatchesOf(id)
  BY DEF MatchesOf
<1> DEFINE new == Knockout(m, a, b)
<1>4. /\ MatchesOf(id) \cap DOMAIN new = {}
      /\ \A l \in DOMAIN new : new[l].place.phase # "POOL"
      /\ \A j, l \in DOMAIN new : new[j].place = new[l].place => j = l
  BY <1>0, <1>2, <1>3, KnockoutNumbered
<1> QED
  BY <1>1, <1>4

(* A category stays one draw when a match of it starts or ends, and when   *)
(* its knock-out is created.                                               *)
LEMMA FoughtDraws ==
  ASSUME RowsInv, NEW mat, NEW m \in DOMAIN match, NEW side, StartMatch(mat) \/ EndMatch(m, side),
         NEW id, DrawnWhole(id)
  PROVE  DrawnWhole(id)'
<1>1. \A k \in DOMAIN match : /\ k \in DOMAIN match'
                              /\ match'[k].category = match[k].category
                              /\ match'[k].format = match[k].format
                              /\ match'[k].place = match[k].place
  BY FoughtMatches
<1>2. CASE StartMatch(mat)
  <2>1. DOMAIN match' = DOMAIN match /\ \A k \in DOMAIN match : match'[k].competitor = match[k].competitor
    <3>1. PICK n : match' = [match EXCEPT ![n].status = "ACTIVE"]
      BY <1>2 DEF StartMatch
    <3>2. \A k \in DOMAIN match : MatchColumns \subseteq DOMAIN match[k]
      BY DEF RowsInv
    <3> QED
      BY <3>1, <3>2 DEF MatchColumns
  <2> QED
    BY <1>1, <2>1, DrawnStays DEF MatchesOf, Opponents
<1>3. CASE EndMatch(m, side) /\ (match[m].category # id \/ DOMAIN match' = DOMAIN match)
  <2>1. \A k : k \in MatchesOf(id)' <=> k \in MatchesOf(id)
    BY <1>1, <1>3, FoughtMatches DEF MatchesOf
  <2>2. ASSUME NEW k \in MatchesOf(id), match[k].format = "ROUND_ROBIN"
        PROVE  Opponents(k)' = Opponents(k)
    <3>1. ASSUME match[m].category = id PROVE match[m].format = "ROUND_ROBIN"
      BY <2>2, <3>1 DEF DrawnWhole, RoundRobinOf, MatchesOf
    <3> QED
      BY <1>3, <2>2, <3>1, NobodyMoves DEF MatchesOf
  <2> QED
    BY <1>1, <2>1, <2>2, DrawnStays DEF MatchesOf
<1>4. CASE EndMatch(m, side) /\ match[m].category = id /\ DOMAIN match' # DOMAIN match
  <2>0. m \in MatchesOf(id)
    BY <1>4 DEF MatchesOf
  <2>1. PICK a \in FirstTwo(id, "A"), b \in FirstTwo(id, "B") :
          /\ DOMAIN match' = DOMAIN match \cup DOMAIN Knockout(m, a, b)
          /\ \A k \in DOMAIN match' \ DOMAIN match : match'[k] = Knockout(m, a, b)[k]
    BY <1>4, EndIsFought
  <2>2. /\ match[m].format = "POOLS"
        /\ \A k \in MatchesOf(id) : match[k].place.phase = "POOL"
    <3>1. EndsPoolStage(m)
      BY <1>4, EndIsFought
    <3> QED
      BY <1>4, <3>1 DEF EndsPoolStage
  <2>3. PICK d, n : n \in Nat /\ MatchesOf(id) = Numbered(d, id, n)
    BY DEF DrawnWhole
  <2> DEFINE new == Knockout(m, a, b)
  <2>4. PICK last \in Nat : MatchesOf(id) \cup DOMAIN new = Numbered(d, id, last)
    BY <1>4, <2>0, <2>3, KnockoutNumbered
  <2>5. /\ MatchesOf(id) \cap DOMAIN new = {}
        /\ \A k \in DOMAIN new : new[k].place.phase # "POOL"
        /\ \A k, l \in DOMAIN new : new[k].place = new[l].place => k = l
    BY <1>4, <2>0, <2>3, KnockoutNumbered
  <2>6. \A k \in DOMAIN new : k[2] = id /\ new[k].category = id /\ new[k].format = "POOLS"
    BY <1>4, KnockoutRows
  <2> HIDE DEF new
  <2>7. \A k \in DOMAIN new : k \notin DOMAIN match
    BY <2>5, <2>6 DEF RowsInv, MatchesOf
  <2>8. \A k \in DOMAIN new : k \in DOMAIN match' /\ match'[k] = new[k]
    BY <2>1, <2>7 DEF new
  <2>9. MatchesOf(id)' = MatchesOf(id) \cup DOMAIN new
    BY <1>1, <2>1, <2>6, <2>8 DEF MatchesOf, new
  <2>10. \E e, i : i \in Nat /\ MatchesOf(id)' = Numbered(e, id, i)
    BY <2>4, <2>9
  <2>11. ASSUME NEW k \in MatchesOf(id)', NEW l \in MatchesOf(id)', match'[k].place = match'[l].place
         PROVE  k = l
    <3>1. CASE k \in MatchesOf(id) /\ l \in MatchesOf(id)
      BY <1>1, <2>11, <3>1 DEF DrawnWhole, MatchesOf
    <3>2. CASE k \in DOMAIN new /\ l \in DOMAIN new
      BY <2>5, <2>8, <2>11, <3>2
    <3>3. \A x \in MatchesOf(id) : match'[x].place.phase = "POOL"
      BY <1>1, <2>2 DEF MatchesOf
    <3>4. \A x \in DOMAIN new : match'[x].place.phase # "POOL"
      BY <2>5, <2>8
    <3> QED
      BY <2>9, <2>11, <3>1, <3>2, <3>3, <3>4
  <2>12. \A k \in MatchesOf(id)' : match'[k].format # "ROUND_ROBIN"
    <3>1. \A k \in MatchesOf(id) : match[k].format # "ROUND_ROBIN"
      BY <2>0, <2>2 DEF DrawnWhole, RoundRobinOf
    <3> QED
      BY <1>1, <2>6, <2>8, <2>9, <3>1 DEF MatchesOf
  <2> QED
    BY <2>10, <2>11, <2>12 DEF DrawnWhole
<1> QED
  BY <1>2, <1>3, <1>4

LEMMA StepDraws == CallsInv /\ RowsInv /\ DrawsInv /\ [Next]_vars => DrawsInv'
<1> SUFFICES ASSUME CallsInv, RowsInv, DrawsInv, [Next]_vars PROVE DrawsInv'
  OBVIOUS
<1>1. ASSUME NEW h \in setting.handlers,
             WriteWeight(h) \/ WriteCategory(h) \/ CommitMats(h) \/ CreateMat(h) \/ CreateCategories(h)
      PROVE  \A g \in Handlers : pc'[g] = "draw" => SeedsAreRead(g)'
  <2> h \in Handlers
    BY HandlersOfSetting DEF CallsInv
  <2>1. PICK where, c : OnlyCall(h, where, c) /\ where # "draw"
    <3>1. \E where, c : Goto(h, where, c) /\ where # "draw"
      <4>1. CASE CreateMat(h)
        BY <4>1 DEF CreateMat, Return
      <4>2. CASE WriteWeight(h) \/ WriteCategory(h) \/ CommitMats(h) \/ CreateCategories(h)
        <5>1. Return(h)
          BY <4>2 DEF WriteWeight, WriteCategory, CommitMats, CreateCategories
        <5> QED
          BY <5>1 DEF Return
      <4> QED
        BY <1>1, <4>1, <4>2
    <3> QED
      BY <3>1, GotoIsOnlyCall
  <2> SUFFICES ASSUME NEW g \in Handlers, pc'[g] = "draw" PROVE SeedsAreRead(g)'
    OBVIOUS
  <2> QED
    BY <2>1, SeedsStay DEF OnlyCall, DrawsInv
<1>2. ASSUME UNCHANGED <<category, match>> PROVE \A id \in DOMAIN category' : DrawnWhole(id)'
  BY <1>2, DrawnStays DEF DrawsInv, MatchesOf, Opponents
<1>3. ASSUME UNCHANGED <<pc, call>> PROVE \A g \in Handlers : pc'[g] = "draw" => SeedsAreRead(g)'
  <2> SUFFICES ASSUME NEW g \in Handlers, pc'[g] = "draw" PROVE SeedsAreRead(g)'
    OBVIOUS
  <2> QED
    BY <1>3, SeedsStay DEF DrawsInv
<1>4. ASSUME NEW h \in setting.handlers, WriteWeight(h) \/ WriteCategory(h) \/ CreateMat(h)
      PROVE  DrawsInv'
  <2>1. UNCHANGED <<category, match>>
    BY <1>4 DEF WriteWeight, WriteCategory, CreateMat
  <2> QED
    BY <1>1, <1>2, <1>4, <2>1 DEF DrawsInv
<1>5. ASSUME NEW h \in setting.handlers, CommitMats(h) PROVE DrawsInv'
  <2>1. ASSUME NEW id \in DOMAIN category' PROVE DrawnWhole(id)'
    <3>1. DOMAIN category' = DOMAIN category /\ DOMAIN match' = DOMAIN match
      BY <1>5, MovedRows
    <3>2. \A k \in DOMAIN match : /\ match'[k].category = match[k].category
                                  /\ match'[k].format = match[k].format
                                  /\ match'[k].place = match[k].place
                                  /\ match'[k].competitor = match[k].competitor
      BY <1>5, MovedRows
    <3> QED
      BY <3>1, <3>2, DrawnStays DEF DrawsInv, MatchesOf, Opponents
  <2> QED
    BY <1>1, <1>5, <2>1 DEF DrawsInv
<1>6. ASSUME NEW h \in setting.handlers, CreateCategories(h) PROVE DrawsInv'
  <2>1. DOMAIN match' = {}
    BY <1>6, CreatedMatches, HandlersOfSetting DEF CallsInv
  <2>2. ASSUME NEW id PROVE DrawnWhole(id)'
    <3>1. MatchesOf(id)' = {}
      BY <2>1 DEF MatchesOf
    <3>2. 0 \in Nat /\ \A d : Numbered(d, id, 0) = {}
      BY DEF Numbered
    <3> QED
      BY <3>1, <3>2 DEF DrawnWhole
  <2> QED
    BY <1>1, <1>6, <2>2 DEF DrawsInv
<1>7. ASSUME NEW mat, NEW m \in DOMAIN match, NEW side, StartMatch(mat) \/ EndMatch(m, side)
      PROVE  DrawsInv'
  <2>1. UNCHANGED <<category, pc, call>>
    BY <1>7, FoughtMatches
  <2>2. ASSUME NEW id \in DOMAIN category' PROVE DrawnWhole(id)'
    BY <1>7, <2>1, FoughtDraws DEF DrawsInv
  <2> QED
    BY <1>3, <2>1, <2>2 DEF DrawsInv
<1>9. ASSUME NEW mat, StartMatch(mat) PROVE DrawsInv'
  BY <1>7, <1>9 DEF StartMatch
<1>8. ASSUME \/ \E c \in DOMAIN competitor : ByOrganizer(c)
             \/ Activate
             \/ \E mat, m : AssignMatchToMat(mat, m)
             \/ UNCHANGED vars
      PROVE  DrawsInv'
  <2>1. UNCHANGED <<category, match, pc, call>>
    BY <1>8 DEF ByOrganizer, Activate, AssignMatchToMat, vars, rows
  <2> QED
    BY <1>2, <1>3, <2>1 DEF DrawsInv
<1> QED
  BY <1>4, <1>5, <1>6, <1>7, <1>8, <1>9, StepsThereAre, ReadsDraws, CommitDrawDraws

(* The pairs of a set, of those who are drawn.                             *)
LEMMA PairsOfTwo ==
  ASSUME NEW S, IsFiniteSet(S), NEW two \in kSubset(2, S)
  PROVE  \E x, y \in S : x # y /\ two = {x, y}
<1>1. two \subseteq S /\ Cardinality(two) = 2 /\ IsFiniteSet(two)
  BY FS_Subset DEF kSubset
<1>2. PICK f : f \in Bijection(1..2, two)
  BY <1>1, FS_CardinalityType DEF ExistsBijection
<1>3. f[1] \in two /\ f[2] \in two /\ f[1] # f[2] /\ \A z \in two : z = f[1] \/ z = f[2]
  <2>1. /\ f \in [1..2 -> two]
        /\ \A i, j \in 1..2 : f[i] = f[j] => i = j
        /\ \A z \in two : \E i \in 1..2 : f[i] = z
    BY <1>2 DEF Bijection, Injection, Surjection, IsInjective
  <2>2. 1 \in 1..2 /\ 2 \in 1..2 /\ \A i \in 1..2 : i = 1 \/ i = 2
    OBVIOUS
  <2> QED
    BY <2>1, <2>2
<1> QED
  BY <1>1, <1>3

LEMMA WholeDrawIsComplete ==
  ASSUME NEW id, NEW seed, Seeded(seed), RoundRobinOf(id, seed),
         \A m, n \in MatchesOf(id) : match[m].place = match[n].place => m = n
  PROVE  LET drawn == UNION {Opponents(m) : m \in MatchesOf(id)}
         IN  \A pair \in kSubset(2, drawn) :
               Cardinality({m \in MatchesOf(id) : Opponents(m) = pair}) = 1
<1> DEFINE drawn == UNION {Opponents(m) : m \in MatchesOf(id)}
           n == Len(seed)
           draw == RR(n)
           place(m) == match[m].place
<1>1. /\ n \in Nat /\ seed \in [1..n -> Competitors]
      /\ \A i, j \in 1..n : seed[i] = seed[j] => i = j
  BY DEF Seeded, IsInjective
<1>2. /\ {place(m) : m \in MatchesOf(id)} = DOMAIN draw
      /\ \A m \in MatchesOf(id) :
           Opponents(m) = {seed[draw[place(m)][1] + 1], seed[draw[place(m)][2] + 1]}
  BY DEF RoundRobinOf, PairIn
<1> HIDE DEF n
<1>3. /\ \A p \in DOMAIN draw : draw[p][1] \in 0..(n - 1) /\ draw[p][2] \in 0..(n - 1)
      /\ \A a, b \in 0..(n - 1) : a # b => \E p \in DOMAIN draw : {draw[p][1], draw[p][2]} = {a, b}
      /\ \A p, other \in DOMAIN draw :
           {draw[p][1], draw[p][2]} = {draw[other][1], draw[other][2]} => p = other
  BY <1>1, RoundRobinIsWhole
<1> HIDE DEF draw
<1>4. \A m \in MatchesOf(id) : place(m) \in DOMAIN draw
  BY <1>2
<1>5. \A x \in drawn : x \in Competitors /\ \E a \in 0..(n - 1) : x = seed[a + 1]
  <2> SUFFICES ASSUME NEW x \in drawn PROVE x \in Competitors /\ \E a \in 0..(n - 1) : x = seed[a + 1]
    OBVIOUS
  <2>1. PICK m \in MatchesOf(id) : x \in Opponents(m)
    OBVIOUS
  <2>2. PICK a \in 0..(n - 1) : x = seed[a + 1]
    BY <1>2, <1>3, <1>4, <2>1
  <2>3. a + 1 \in 1..n
    BY <1>1
  <2> QED
    BY <1>1, <2>2, <2>3
<1>6. IsFiniteSet(drawn)
  <2>1. drawn \subseteq Competitors /\ IsFiniteSet(Competitors)
    BY <1>5, CategoriesTypes
  <2> QED
    BY <2>1, FS_Subset
<1> HIDE DEF drawn
<1>7. ASSUME NEW pair \in kSubset(2, drawn)
      PROVE  Cardinality({m \in MatchesOf(id) : Opponents(m) = pair}) = 1
  <2>1. PICK x \in drawn, y \in drawn : x # y /\ pair = {x, y}
    BY <1>6, PairsOfTwo
  <2>2. PICK a \in 0..(n - 1), b \in 0..(n - 1) : x = seed[a + 1] /\ y = seed[b + 1]
    BY <1>5
  <2>3. PICK p \in DOMAIN draw : {draw[p][1], draw[p][2]} = {a, b}
    BY <1>3, <2>1, <2>2
  <2>4. PICK m \in MatchesOf(id) : place(m) = p
    BY <1>2
  <2>5. Opponents(m) = pair
    <3>1. Opponents(m) = {seed[draw[p][1] + 1], seed[draw[p][2] + 1]}
      BY <1>2, <2>4
    <3> QED
      BY <2>1, <2>2, <2>3, <3>1
  <2>6. ASSUME NEW other \in MatchesOf(id), Opponents(other) = pair
        PROVE  other = m
    <3> DEFINE e == draw[place(other)][1]
               f == draw[place(other)][2]
    <3>1. e \in 0..(n - 1) /\ f \in 0..(n - 1) /\ {seed[e + 1], seed[f + 1]} = {seed[a + 1], seed[b + 1]}
      BY <1>2, <1>3, <1>4, <2>1, <2>2, <2>6
    <3> HIDE DEF e, f
    <3>2. e + 1 \in 1..n /\ f + 1 \in 1..n /\ a + 1 \in 1..n /\ b + 1 \in 1..n
      BY <1>1, <3>1
    <3>3. (e + 1 = a + 1 /\ f + 1 = b + 1) \/ (e + 1 = b + 1 /\ f + 1 = a + 1)
      BY <1>1, <2>1, <2>2, <3>1, <3>2
    <3>4. {e, f} = {a, b}
      BY <3>1, <3>3
    <3>5. place(other) = p
      BY <1>3, <1>4, <2>3, <3>4 DEF e, f
    <3> QED
      BY <2>4, <3>5
  <2>7. {k \in MatchesOf(id) : Opponents(k) = pair} = {m}
    BY <2>5, <2>6
  <2> QED
    BY <2>7, FS_Singleton
<1> QED
  BY <1>7 DEF drawn

(* However many calls draw a category at the same time, generate the       *)
(* categories again or put competitors into others meanwhile, and whatever *)
(* is fought: the matches of a category are one draw.  They are numbered   *)
(* from one on, also with the knock-out that the end of the pools creates; *)
(* none has the place of another; and in a round robin each two of those   *)
(* who are drawn meet once.                                                *)
THEOREM CategoriesAreDrawnOnce == Spec => []OneDrawPerCategory
<1>1. Init => CallsInv /\ RowsInv /\ DrawsInv
  BY InitCalls, InitRows, InitDraws
<1>2. (CallsInv /\ RowsInv /\ DrawsInv) /\ [Next]_vars => (CallsInv /\ RowsInv /\ DrawsInv)'
  BY StepCalls, StepRows, StepDraws
<1>3. CallsInv /\ RowsInv /\ DrawsInv => OneDrawPerCategory
  <2> SUFFICES ASSUME DrawsInv, NEW id \in DOMAIN category
               PROVE  /\ {m[3] : m \in MatchesOf(id)} = 1..Cardinality(MatchesOf(id))
                      /\ \A m, n \in MatchesOf(id) : match[m].place = match[n].place => m = n
                      /\ (\A m \in MatchesOf(id) : match[m].format = "ROUND_ROBIN") =>
                           \A pair \in kSubset(2, UNION {Opponents(m) : m \in MatchesOf(id)}) :
                             Cardinality({m \in MatchesOf(id) : Opponents(m) = pair}) = 1
    BY DEF OneDrawPerCategory
  <2>1. DrawnWhole(id)
    BY DEF DrawsInv
  <2>2. PICK d, n : n \in Nat /\ MatchesOf(id) = Numbered(d, id, n)
    BY <2>1 DEF DrawnWhole
  <2>3. {m[3] : m \in MatchesOf(id)} = 1..Cardinality(MatchesOf(id))
    <3>1. Cardinality(MatchesOf(id)) = n
      BY <2>2, NumberedRows
    <3>2. {m[3] : m \in Numbered(d, id, n)} = 1..n
      <4>1. \A m \in Numbered(d, id, n) : m[3] \in 1..n
        BY DEF Numbered
      <4>2. \A i \in 1..n : \E m \in Numbered(d, id, n) : m[3] = i
        <5> TAKE i \in 1..n
        <5>1. <<d, id, i>> \in Numbered(d, id, n) /\ <<d, id, i>>[3] = i
          BY DEF Numbered
        <5> QED
          BY <5>1
      <4> QED
        BY <4>1, <4>2
    <3> QED
      BY <2>2, <3>1, <3>2
  <2>4. ASSUME \A m \in MatchesOf(id) : match[m].format = "ROUND_ROBIN"
        PROVE  \A pair \in kSubset(2, UNION {Opponents(m) : m \in MatchesOf(id)}) :
                 Cardinality({m \in MatchesOf(id) : Opponents(m) = pair}) = 1
    <3>1. CASE MatchesOf(id) = {}
      <4> DEFINE drawn == UNION {Opponents(m) : m \in MatchesOf(id)}
      <4>1. drawn = {}
        BY <3>1
      <4>2. \A two : two \in kSubset(2, drawn) => FALSE
        <5> HIDE DEF drawn
        <5> QED
          BY <4>1, FS_EmptySet, PairsOfTwo
      <4> QED
        BY <4>2
    <3>2. CASE MatchesOf(id) # {}
      <4>1. PICK seed : Seeded(seed) /\ RoundRobinOf(id, seed)
        BY <2>1, <2>4, <3>2 DEF DrawnWhole
      <4> QED
        BY <2>1, <4>1, WholeDrawIsComplete DEF DrawnWhole
    <3> QED
      BY <3>1, <3>2
  <2> QED
    BY <2>1, <2>3, <2>4 DEF DrawnWhole
<1> QED
  BY <1>1, <1>2, <1>3, PTL DEF Spec

-----------------------------------------------------------------------------
(* One call at a time: a draw writes the mats its categories still have.   *)

DrawsForMats(h) ==
  \A id \in call[h].todo \cup call[h].locked : call[h].target[id] = category[id].mat

AwaitsItsMat(m) ==
  match[m].mat = None /\ match[m].format = "POOLS" /\ match[m].place.phase # "POOL"

FollowInv ==
  /\ MatchesFollowCategory
  /\ Serial => \A h \in Handlers : pc[h] = "draw" => DrawsForMats(h)

LEMMA OthersAreIdle ==
  ASSUME CallsInv, Serial, NEW h \in setting.handlers, NEW g \in Handlers, g # h
  PROVE  pc[g] = "idle"
BY OneCallOnly DEF CallsInv, CallOK

LEMMA InitFollow == Init => FollowInv
<1> SUFFICES ASSUME Init PROVE FollowInv
  OBVIOUS
<1>1. DOMAIN match = {} /\ \A h \in Handlers : pc[h] = "idle"
  BY DEF Init
<1> QED
  BY <1>1 DEF FollowInv, MatchesFollowCategory

(* The one call there is goes on to something else than a draw.            *)
LEMMA NoDrawFollows ==
  ASSUME CallsInv, Serial, NEW h \in setting.handlers, NEW where, NEW c, Goto(h, where, c),
         where # "draw"
  PROVE  \A g \in Handlers : pc'[g] # "draw"
<1> h \in Handlers
  BY HandlersOfSetting DEF CallsInv
<1>1. OnlyCall(h, where, c)
  BY GotoIsOnlyCall
<1> QED
  BY <1>1, OthersAreIdle DEF OnlyCall

LEMMA ReadsFollow ==
  ASSUME CallsInv, FollowInv, NEW h \in setting.handlers, Reads(h), Serial
  PROVE  FollowInv'
<1> h \in Handlers
  BY HandlersOfSetting DEF CallsInv
<1>1. UNCHANGED <<setting, category, match>>
  BY ReadsFrame
<1>2. MatchesFollowCategory'
  BY <1>1 DEF FollowInv, MatchesFollowCategory, Serial
<1>3. \/ GenerateBrackets(h)
      \/ UpdateCategory(h)
      \/ \E where, c : Goto(h, where, c) /\ where # "draw"
  BY ReadsDrawOrNot
<1>4. ASSUME NEW c, Goto(h, "draw", c),
             \A id \in c.todo \cup c.locked : c.target[id] = category[id].mat
      PROVE  FollowInv'
  <2>1. OnlyCall(h, "draw", c)
    BY <1>4, GotoIsOnlyCall
  <2>2. \A g \in Handlers : pc'[g] = "draw" => DrawsForMats(g)'
    BY <1>1, <1>4, <2>1, OthersAreIdle DEF OnlyCall, DrawsForMats
  <2> QED
    BY <1>2, <2>2 DEF FollowInv
<1>5. CASE GenerateBrackets(h)
  <2> DEFINE new == [NoCall EXCEPT !.todo = Drawable, !.known = DOMAIN match,
                        !.members = [id \in Drawable |-> Sorted(Members(id), ReadBefore)],
                        !.target = [id \in Drawable |-> category[id].mat]]
  <2>1. Goto(h, "draw", new)
    BY <1>5 DEF GenerateBrackets, Begin
  <2>2. /\ new.todo = Drawable /\ new.locked = {}
        /\ new.target = [id \in Drawable |-> category[id].mat]
    BY DEF NoCall
  <2> HIDE DEF new
  <2> QED
    BY <1>4, <2>1, <2>2
<1>6. CASE UpdateCategory(h)
  <2>1. PICK id \in call[h].todo :
          IF id \in DOMAIN category
          THEN Goto(h, pc[h], [call[h] EXCEPT !.todo = @ \ {id}, !.locked = @ \cup {id}])
          ELSE Return(h)
    BY <1>6 DEF UpdateCategory
  <2>2. CASE pc[h] = "draw" /\ id \in DOMAIN category
    <3> DEFINE new == [call[h] EXCEPT !.todo = @ \ {id}, !.locked = @ \cup {id}]
    <3>1. CallFields \subseteq DOMAIN call[h]
      BY DEF CallsInv, CallOK
    <3>2. /\ new.todo = call[h].todo \ {id} /\ new.locked = call[h].locked \cup {id}
          /\ new.target = call[h].target
      BY <3>1 DEF CallFields
    <3>3. Goto(h, "draw", new)
      BY <2>1, <2>2
    <3> HIDE DEF new
    <3>4. \A i \in new.todo \cup new.locked : new.target[i] = category[i].mat
      BY <2>2, <3>2 DEF FollowInv, DrawsForMats
    <3> QED
      BY <1>4, <3>3, <3>4
  <2>3. CASE ~(pc[h] = "draw" /\ id \in DOMAIN category)
    <3>1. \E where, c : Goto(h, where, c) /\ where # "draw"
      BY <2>1, <2>3 DEF Return
    <3> QED
      BY <1>2, <3>1, NoDrawFollows DEF FollowInv
  <2> QED
    BY <2>2, <2>3
<1>7. CASE \E where, c : Goto(h, where, c) /\ where # "draw"
  BY <1>2, <1>7, NoDrawFollows DEF FollowInv
<1> QED
  BY <1>3, <1>5, <1>6, <1>7

LEMMA StepFollow == CallsInv /\ RowsInv /\ DrawsInv /\ FollowInv /\ [Next]_vars => FollowInv'
<1> SUFFICES ASSUME CallsInv, RowsInv, DrawsInv, FollowInv, [Next]_vars, Serial' PROVE FollowInv'
  BY DEF FollowInv, MatchesFollowCategory
<1>1. setting' = setting /\ Serial
  <2>1. setting' = setting
    BY DEF Next, vars, rows, RecordWeight, UpdateWeight, WriteWeight, GenerateCategories,
       ClearCategories, ReplaceCategories, CreateCategories, AssignCompetitor, WriteCategory,
       GenerateBrackets, UpdateCategory, CommitDraw, AssignCategoriesToMats, AssignCategoryToMat,
       CommitMats, CreateMats, CreateMat, Rollback, ByOrganizer, Activate, StartMatch,
       AssignMatchToMat, EndMatch
  <2> QED
    BY <2>1 DEF Serial
<1>2. \A m \in DOMAIN match :
        match[m].status # "COMPLETED" =>
          match[m].mat = category[match[m].category].mat \/ AwaitsItsMat(m)
  BY <1>1 DEF FollowInv, MatchesFollowCategory, AwaitsItsMat
<1>3. ASSUME NEW h \in setting.handlers,
             \/ WriteWeight(h) \/ WriteCategory(h) \/ CommitMats(h) \/ CreateMat(h)
             \/ CreateCategories(h) \/ CommitDraw(h)
      PROVE  \A g \in Handlers : pc'[g] # "draw"
  <2>1. \E where, c : Goto(h, where, c) /\ where # "draw"
    <3>1. CASE CreateMat(h)
      BY <3>1 DEF CreateMat, Return
    <3>2. CASE \/ WriteWeight(h) \/ WriteCategory(h) \/ CommitMats(h)
               \/ CreateCategories(h) \/ CommitDraw(h)
      <4>1. Return(h)
        BY <3>2 DEF WriteWeight, WriteCategory, CommitMats, CreateCategories, CommitDraw
      <4> QED
        BY <4>1 DEF Return
    <3> QED
      BY <1>3, <3>1, <3>2
  <2> QED
    BY <1>1, <2>1, NoDrawFollows
<1>4. ASSUME NEW h \in setting.handlers, WriteWeight(h) \/ WriteCategory(h) \/ CreateMat(h)
      PROVE  FollowInv'
  <2>1. UNCHANGED <<category, match>>
    BY <1>4 DEF WriteWeight, WriteCategory, CreateMat
  <2> QED
    BY <1>2, <1>3, <1>4, <2>1 DEF FollowInv, MatchesFollowCategory, AwaitsItsMat
<1>5. ASSUME NEW h \in setting.handlers, CreateCategories(h) PROVE FollowInv'
  <2>1. DOMAIN match' = {}
    BY <1>5, CreatedMatches, HandlersOfSetting DEF CallsInv
  <2> QED
    BY <1>3, <1>5, <2>1 DEF FollowInv, MatchesFollowCategory
<1>6. ASSUME NEW h \in setting.handlers, CommitDraw(h) PROVE FollowInv'
  <2> h \in Handlers
    BY HandlersOfSetting DEF CallsInv
  <2>1. category' = category /\ DrawsForMats(h)
    BY <1>1, <1>6 DEF CommitDraw, FollowInv
  <2>2. ASSUME NEW k \in DOMAIN match', match'[k].status # "COMPLETED"
        PROVE  match'[k].mat = category[match'[k].category].mat \/ AwaitsItsMat(k)'
    <3>1. CASE k[2] \in call[h].locked /\ k \in DOMAIN DrawOf(h, k[2]) /\ match'[k] = DrawOf(h, k[2])[k]
      BY <2>1, <3>1, DrawnRows DEF DrawsForMats
    <3>2. CASE k \in DOMAIN match /\ match'[k] = match[k]
      BY <1>2, <2>2, <3>2 DEF AwaitsItsMat
    <3> QED
      BY <1>6, <3>1, <3>2, MatchesDrawn
  <2> QED
    BY <1>3, <1>6, <2>1, <2>2 DEF FollowInv, MatchesFollowCategory, AwaitsItsMat
<1>7. ASSUME NEW h \in setting.handlers, CommitMats(h) PROVE FollowInv'
  <2>1. ASSUME NEW k \in DOMAIN match', match'[k].status # "COMPLETED"
        PROVE  match'[k].mat = category'[match'[k].category].mat \/ AwaitsItsMat(k)'
    <3>1. k \in DOMAIN match /\ match[k].status # "COMPLETED" /\ match[k].category \in DOMAIN category
      BY <1>7, <2>1, MovedRows DEF RowsInv
    <3>2. /\ match'[k].category = match[k].category
          /\ match'[k].format = match[k].format /\ match'[k].place = match[k].place
          /\ match'[k].mat = IF match[k].category \in DOMAIN call[h].target /\ MovesAlong(k)
                             THEN call[h].target[match[k].category] ELSE match[k].mat
          /\ category'[match[k].category].mat =
               IF match[k].category \in DOMAIN call[h].target THEN call[h].target[match[k].category]
                                                              ELSE category[match[k].category].mat
      BY <1>7, <3>1, MovedRows
    <3> QED
      BY <1>2, <3>1, <3>2 DEF MovesAlong, AwaitsItsMat
  <2> QED
    BY <1>3, <1>7, <2>1 DEF FollowInv, MatchesFollowCategory, AwaitsItsMat
<1>8. ASSUME UNCHANGED <<category, pc, call>>
      PROVE  \A h \in Handlers : pc'[h] = "draw" => DrawsForMats(h)'
  BY <1>1, <1>8 DEF FollowInv, DrawsForMats
<1>9. ASSUME NEW mat, NEW m \in DOMAIN match, NEW side, StartMatch(mat) \/ EndMatch(m, side)
      PROVE  FollowInv'
  <2>1. UNCHANGED <<category, pc, call>>
    BY <1>9, FoughtMatches
  <2>2. ASSUME NEW k \in DOMAIN match', match'[k].status # "COMPLETED"
        PROVE  match'[k].mat = category'[match'[k].category].mat \/ AwaitsItsMat(k)'
    <3>1. CASE k \in DOMAIN match
      <4>1. /\ match'[k].category = match[k].category /\ match'[k].mat = match[k].mat
            /\ match'[k].format = match[k].format /\ match'[k].place = match[k].place
            /\ match[k].status # "COMPLETED"
        BY <1>9, <2>2, <3>1, FoughtMatches
      <4> QED
        BY <1>2, <2>1, <3>1, <4>1 DEF AwaitsItsMat
    <3>2. CASE k \notin DOMAIN match
      <4>1. EndMatch(m, side) /\ match'[k].format = "POOLS" /\ match'[k].mat = None
        BY <1>9, <3>2, FoughtMatches
      <4>2. match'[k].place.phase # "POOL"
        BY <3>2, <4>1, KnockoutPlaces DEF DrawsInv, RowsInv
      <4> QED
        BY <4>1, <4>2 DEF AwaitsItsMat
    <3> QED
      BY <3>1, <3>2
  <2> QED
    BY <1>8, <2>1, <2>2 DEF FollowInv, MatchesFollowCategory, AwaitsItsMat
<1>11. ASSUME NEW mat, StartMatch(mat) PROVE FollowInv'
  BY <1>9, <1>11 DEF StartMatch
<1>10. ASSUME \/ \E c \in DOMAIN competitor : ByOrganizer(c)
              \/ Activate
              \/ \E mat, m : AssignMatchToMat(mat, m)
              \/ UNCHANGED vars
       PROVE  FollowInv'
  <2>1. UNCHANGED <<category, match, pc, call>>
    BY <1>10 DEF ByOrganizer, Activate, AssignMatchToMat, vars, rows
  <2> QED
    BY <1>2, <1>8, <2>1 DEF FollowInv, MatchesFollowCategory, AwaitsItsMat
<1> QED
  BY <1>1, <1>4, <1>5, <1>6, <1>7, <1>9, <1>10, <1>11, StepsThereAre, ReadsFollow

(* When the organizer's calls do not overlap, each match that is not over  *)
(* is on its category's mat, whatever is fought meanwhile; only a knock-out*)
(* of pools is on none from its creation to the next assignment.           *)
THEOREM MatchesAreOnTheirMat == Spec => []MatchesFollowCategory
<1> DEFINE Inv == CallsInv /\ RowsInv /\ DrawsInv /\ FollowInv
<1>1. Init => Inv
  BY InitCalls, InitRows, InitDraws, InitFollow
<1>2. Inv /\ [Next]_vars => Inv'
  BY StepCalls, StepRows, StepDraws, StepFollow
<1>3. Inv => MatchesFollowCategory
  BY DEF FollowInv
<1> QED
  BY <1>1, <1>2, <1>3, PTL DEF Spec

-----------------------------------------------------------------------------
(* The mats.  A call that creates them goes on from a number there is or   *)
(* from the next one, whatever other calls have created since it began.    *)

NumberedUpTo(n) ==
  /\ DOMAIN current = 1..n
  /\ \A h \in Handlers : pc[h] = "createMats" => call[h].target \in 1..(n + 1)

MatsInv == \E n \in Nat : NumberedUpTo(n)

LEMMA InitMats == Init => MatsInv
<1> SUFFICES ASSUME Init PROVE MatsInv
  OBVIOUS
<1>1. setting.mats \in Nat /\ DOMAIN current = 1..setting.mats
  BY CategoriesTypes DEF Init
<1>2. \A h \in Handlers : pc[h] = "idle"
  BY DEF Init
<1> QED
  BY <1>1, <1>2 DEF MatsInv, NumberedUpTo

(* Steps that create no mat, nor begin to.                                 *)
LEMMA MatsStay ==
  ASSUME MatsInv, DOMAIN current' = DOMAIN current,
         \A h \in Handlers : pc'[h] = "createMats" => pc[h] = "createMats" /\ call'[h] = call[h]
  PROVE  MatsInv'
BY DEF MatsInv, NumberedUpTo

LEMMA ReturnMats ==
  ASSUME CallsInv, MatsInv, NEW h \in Handlers, NEW where, NEW c, Goto(h, where, c),
         where # "createMats", DOMAIN current' = DOMAIN current
  PROVE  MatsInv'
<1>1. OnlyCall(h, where, c)
  BY GotoIsOnlyCall
<1> QED
  BY <1>1, MatsStay DEF OnlyCall

LEMMA CreateMatsMats ==
  ASSUME CallsInv, MatsInv, NEW h \in setting.handlers, NEW n, CreateMats(h, n) \/ CreateMat(h)
  PROVE  MatsInv'
<1> h \in Handlers
  BY HandlersOfSetting DEF CallsInv
<1>1. PICK k \in Nat : NumberedUpTo(k)
  BY DEF MatsInv
<1>2. CASE CreateMats(h, n)
  <2> DEFINE new == [NoCall EXCEPT !.target = NextNumber, !.left = n]
  <2>1. OnlyCall(h, "createMats", new) /\ current' = current
    BY <1>2, GotoIsOnlyCall DEF CreateMats, Begin, rows
  <2>2. new.target = k + 1
    <3>1. NextNumber = k + 1
      BY <1>1, FS_Interval DEF NextNumber, NumberedUpTo
    <3> QED
      BY <3>1 DEF NoCall
  <2> HIDE DEF new
  <2>3. NumberedUpTo(k)'
    BY <1>1, <2>1, <2>2 DEF OnlyCall, NumberedUpTo
  <2> QED
    BY <2>3 DEF MatsInv
<1>3. CASE CreateMat(h)
  <2> DEFINE number == call[h].target
             new == [call[h] EXCEPT !.target = @ + 1, !.left = @ - 1]
  <2>1. pc[h] = "createMats" /\ number \in 1..(k + 1)
    BY <1>1, <1>3 DEF CreateMat, NumberedUpTo
  <2>2. CASE Return(h) /\ UNCHANGED current
    BY <2>2, ReturnMats DEF Return
  <2>3. CASE /\ number \notin DOMAIN current
             /\ DOMAIN current' = DOMAIN current \cup {number}
             /\ Goto(h, pc[h], new)
    <3>1. number = k + 1 /\ DOMAIN current' = 1..(k + 1)
      BY <1>1, <2>1, <2>3 DEF NumberedUpTo
    <3>2. new.target = k + 2
      <4>1. "target" \in DOMAIN call[h]
        BY DEF CallsInv, CallOK, CallFields
      <4> QED
        BY <3>1, <4>1
    <3>3. OnlyCall(h, "createMats", new)
      BY <2>1, <2>3, GotoIsOnlyCall
    <3> HIDE DEF new, number
    <3>4. ASSUME NEW g \in Handlers, pc'[g] = "createMats"
          PROVE  call'[g].target \in 1..(k + 2)
      <4>1. CASE g = h
        BY <3>2, <3>3, <4>1 DEF OnlyCall
      <4>2. CASE g # h
        <5>1. call[g].target \in 1..(k + 1) /\ call'[g] = call[g]
          BY <1>1, <3>3, <3>4, <4>2 DEF OnlyCall, NumberedUpTo
        <5> QED
          BY <5>1
      <4> QED
        BY <4>1, <4>2
    <3>5. NumberedUpTo(k + 1)'
      BY <3>1, <3>4 DEF NumberedUpTo
    <3> QED
      BY <3>5 DEF MatsInv
  <2> QED
    BY <1>3, <2>2, <2>3 DEF CreateMat
<1> QED
  BY <1>2, <1>3

LEMMA CallsElsewhere ==
  ASSUME NEW h, Reads(h), \A n \in 1..2 : ~CreateMats(h, n)
  PROVE  \E where, c : Goto(h, where, c) /\ where # "createMats"
<1>1. ASSUME NEW op, NEW where, NEW c, Begin(h, op, where, c), where # "createMats"
      PROVE  \E w, new : Goto(h, w, new) /\ w # "createMats"
  BY <1>1 DEF Begin
<1>2. Rollback(h) \/ ClearCategories(h) \/ ReplaceCategories(h) =>
        \E w, new : Goto(h, w, new) /\ w # "createMats"
  BY DEF Rollback, Return, ClearCategories, ReplaceCategories
<1>3. UpdateCategory(h) => \E w, new : Goto(h, w, new) /\ w # "createMats"
  BY DEF UpdateCategory, Return
<1>4. ASSUME NEW c, NEW w, RecordWeight(h, c, w) \/ UpdateWeight(h, c, w)
      PROVE  \E op, where, new : Begin(h, op, where, new) /\ where # "createMats"
  BY <1>4 DEF RecordWeight, UpdateWeight
<1>5. GenerateCategories(h) => \E new : Begin(h, "generate", "clear", new)
  BY DEF GenerateCategories
<1>6. \A c : AssignCompetitor(h, c) =>
        \E new : Begin(h, "assignCompetitor", "assignCompetitor", new)
  BY DEF AssignCompetitor
<1>7. GenerateBrackets(h) => \E new : Begin(h, "draw", "draw", new)
  BY DEF GenerateBrackets
<1>8. AssignCategoriesToMats(h) => \E new : Begin(h, "assignAll", "assign", new)
  BY DEF AssignCategoriesToMats
<1>9. \A id, mat : AssignCategoryToMat(h, id, mat) => \E new : Begin(h, "assign", "assign", new)
  BY DEF AssignCategoryToMat
<1> QED
  BY <1>1, <1>2, <1>3, <1>4, <1>5, <1>6, <1>7, <1>8, <1>9 DEF Reads

LEMMA StepMats == CallsInv /\ MatsInv /\ [Next]_vars => MatsInv'
<1> SUFFICES ASSUME CallsInv, MatsInv, [Next]_vars PROVE MatsInv'
  OBVIOUS
<1>1. ASSUME NEW h \in setting.handlers, Reads(h), \A n \in 1..2 : ~CreateMats(h, n)
      PROVE  MatsInv'
  <2> h \in Handlers
    BY HandlersOfSetting DEF CallsInv
  <2>1. current' = current
    BY <1>1, ReadsFrame
  <2>2. \E where, c : Goto(h, where, c) /\ where # "createMats"
    BY <1>1, CallsElsewhere
  <2> QED
    BY <2>1, <2>2, ReturnMats
<1>2. ASSUME NEW h \in setting.handlers,
             WriteWeight(h) \/ WriteCategory(h) \/ CommitMats(h) \/ CreateCategories(h) \/ CommitDraw(h)
      PROVE  MatsInv'
  <2>1. Return(h) /\ current' = current
    BY <1>2 DEF WriteWeight, WriteCategory, CommitMats, CreateCategories, CommitDraw
  <2> QED
    BY <2>1, ReturnMats, HandlersOfSetting DEF Return, CallsInv
<1>3. ASSUME \/ \E c \in DOMAIN competitor : ByOrganizer(c)
             \/ Activate
             \/ \E mat \in DOMAIN current : StartMatch(mat) \/ \E m \in DOMAIN match : AssignMatchToMat(mat, m)
             \/ \E m \in DOMAIN match, side \in setting.winners : EndMatch(m, side)
             \/ UNCHANGED vars
      PROVE  MatsInv'
  <2>1. UNCHANGED <<pc, call>> /\ DOMAIN current' = DOMAIN current
    <3>1. CASE \E m \in DOMAIN match, side \in setting.winners : EndMatch(m, side)
      BY <3>1 DEF EndMatch
    <3>2. CASE ~\E m \in DOMAIN match, side \in setting.winners : EndMatch(m, side)
      BY <1>3, <3>2 DEF ByOrganizer, Activate, StartMatch, AssignMatchToMat, rows, vars
    <3> QED
      BY <3>1, <3>2
  <2> QED
    BY <2>1, MatsStay
<1> QED
  BY <1>1, <1>2, <1>3, CreateMatsMats, StepsThereAre DEF Reads

(* The mats are numbered from one without a gap, although calls that       *)
(* create them overlap, fail half-way, and go on from a count that is old. *)
THEOREM MatsHaveNoGap == Spec => []MatsAreNumbered
<1>1. Init => CallsInv /\ MatsInv
  BY InitCalls, InitMats
<1>2. (CallsInv /\ MatsInv) /\ [Next]_vars => (CallsInv /\ MatsInv)'
  BY StepCalls, StepMats
<1>3. CallsInv /\ MatsInv => MatsAreNumbered
  BY FS_Interval DEF MatsInv, NumberedUpTo, MatsAreNumbered
<1> QED
  BY <1>1, <1>2, <1>3, PTL DEF Spec

-----------------------------------------------------------------------------
(* A sum over the categories adds in any order.                            *)
LEMMA SumIs ==
  ASSUME NEW f, NEW S
  PROVE  SumFunctionOnSet(f, S) = Lemmas!SumOf(f, S)
BY DEF SumFunctionOnSet, FoldFunctionOnSet, MapThenFoldSet, Lemmas!SumOf, Lemmas!IsSum, Lemmas!SumStep

LEMMA SumOfNaturals ==
  ASSUME NEW S, IsFiniteSet(S), NEW f, \A x \in S : f[x] \in Nat
  PROVE  SumFunctionOnSet(f, S) \in Nat
<1>1. Lemmas!IsFiniteSet(S)
  BY DEF IsFiniteSet, Lemmas!IsFiniteSet
<1> QED
  BY <1>1, SumIs, Lemmas!SumOfNaturals

LEMMA SumAdds ==
  ASSUME NEW S, IsFiniteSet(S), NEW f, \A y \in S : f[y] \in Nat, NEW x \in S
  PROVE  SumFunctionOnSet(f, S) = f[x] + SumFunctionOnSet(f, S \ {x})
<1>1. Lemmas!IsFiniteSet(S)
  BY DEF IsFiniteSet, Lemmas!IsFiniteSet
<1>2. Lemmas!SumOf(f, S) = f[x] + Lemmas!SumOf(f, S \ {x})
  BY <1>1, Lemmas!SumAdds
<1> QED
  BY <1>2, SumIs

(* The categories a sort by size has put first are not smaller than the    *)
(* next one, so the mat that one is put on has, without it, no more        *)
(* competitors than any other.                                             *)

On(target, ids, mat) == {id \in ids : target[id] = mat}

EvenlyUsed(count, target, ids, mats) ==
  \A mat, other \in mats :
    \A id \in On(target, ids, mat) :
      (\A least \in On(target, ids, mat) : count[id] <= count[least])
        => Load(count, target, ids, mat) - count[id] <= Load(count, target, ids, other)

LEMMA LoadAdds ==
  ASSUME NEW ids, IsFiniteSet(ids), NEW count, NEW new, new \notin ids,
         \A id \in ids \cup {new} : count[id] \in Nat, NEW target, NEW mat
  PROVE  /\ Load(count, target, ids, mat) \in Nat
         /\ Load(count, target, ids \cup {new}, mat) =
              Load(count, target, ids, mat) + (IF target[new] = mat THEN count[new] ELSE 0)
<1> DEFINE before == On(target, ids, mat)
           after == On(target, ids \cup {new}, mat)
<1>1. Load(count, target, ids, mat) = SumFunctionOnSet(count, before)
  BY DEF Load, On
<1>2. Load(count, target, ids \cup {new}, mat) = SumFunctionOnSet(count, after)
  BY DEF Load, On
<1>3. IsFiniteSet(before) /\ \A id \in before : count[id] \in Nat
  BY FS_Subset DEF On
<1>4. SumFunctionOnSet(count, before) \in Nat
  <2> HIDE DEF before
  <2> QED
    BY <1>3, SumOfNaturals
<1>5. CASE target[new] = mat
  <2>1. after = before \cup {new} /\ new \notin before
    BY <1>5 DEF On
  <2>2. IsFiniteSet(after) /\ new \in after /\ after \ {new} = before
        /\ \A id \in after : count[id] \in Nat
    <3> HIDE DEF before, after
    <3> QED
      BY <1>3, <2>1, FS_AddElement
  <2>3. SumFunctionOnSet(count, after) = count[new] + SumFunctionOnSet(count, before)
    <3> HIDE DEF before, after
    <3>1. SumFunctionOnSet(count, after) = count[new] + SumFunctionOnSet(count, after \ {new})
      BY <2>2, SumAdds
    <3> QED
      BY <2>2, <3>1
  <2> HIDE DEF before, after
  <2> QED
    BY <1>1, <1>2, <1>4, <1>5, <2>3
<1>6. CASE target[new] # mat
  <2>1. after = before
    BY <1>6 DEF On
  <2> HIDE DEF before, after
  <2> QED
    BY <1>1, <1>2, <1>4, <1>6, <2>1
<1> QED
  BY <1>5, <1>6

LEMMA PlacedEvenly ==
  ASSUME NEW ids, IsFiniteSet(ids), NEW count, NEW new, new \notin ids,
         \A id \in ids \cup {new} : count[id] \in Nat,
         NEW mats, NEW target,
         EvenlyUsed(count, target, ids, mats),
         \A id \in ids : count[new] <= count[id],
         \A other \in mats :
           Load(count, target, ids, target[new]) <= Load(count, target, ids, other)
  PROVE  EvenlyUsed(count, target, ids \cup {new}, mats)
<1>1. ASSUME NEW m
      PROVE  /\ Load(count, target, ids, m) \in Nat
             /\ Load(count, target, ids \cup {new}, m) =
                  Load(count, target, ids, m) + (IF target[new] = m THEN count[new] ELSE 0)
  BY LoadAdds
<1> DEFINE all == ids \cup {new}
<1>0. \A m \in mats : /\ Load(count, target, ids, m) \in Nat
                      /\ Load(count, target, all, m) =
                           Load(count, target, ids, m) + (IF target[new] = m THEN count[new] ELSE 0)
  BY <1>1
<1> SUFFICES ASSUME NEW mat \in mats, NEW other \in mats, NEW id \in On(target, all, mat),
                    \A least \in On(target, all, mat) : count[id] <= count[least]
             PROVE  Load(count, target, all, mat) - count[id] <= Load(count, target, all, other)
  BY DEF EvenlyUsed
<1>2. count[new] \in Nat /\ count[id] \in Nat /\ id \in all /\ target[id] = mat
  BY DEF On
<1>3. CASE target[new] = mat
  <2>1. new \in On(target, all, mat)
    BY <1>3 DEF On
  <2>2. count[id] = count[new]
    <3>1. count[id] <= count[new]
      BY <2>1
    <3>2. count[new] <= count[id]
      BY <1>2
    <3> QED
      BY <1>2, <3>1, <3>2
  <2>3. Load(count, target, ids, mat) <= Load(count, target, ids, other)
    BY <1>3
  <2> HIDE DEF all
  <2> QED
    BY <1>0, <1>2, <1>3, <2>2, <2>3
<1>4. CASE target[new] # mat
  <2>1. On(target, all, mat) = On(target, ids, mat)
    BY <1>4 DEF On
  <2>2. Load(count, target, ids, mat) - count[id] <= Load(count, target, ids, other)
    <3> HIDE DEF all
    <3> QED
      BY <2>1 DEF EvenlyUsed
  <2> HIDE DEF all
  <2> QED
    BY <1>0, <1>2, <1>4, <2>2
<1> QED
  BY <1>3, <1>4

LEMMA BalancesEvenly ==
  ASSUME NEW count, IsFiniteSet(DOMAIN count), \A id \in DOMAIN count : count[id] \in Nat,
         NEW order \in SortedBySize(count), NEW mats, NEW target \in [DOMAIN count -> mats],
         Balances(count, mats, order, target)
  PROVE  EvenlyUsed(count, target, DOMAIN count, mats)
<1> DEFINE n == Cardinality(DOMAIN count)
           placed(k) == {order[j] : j \in 1..k}
           uneven == {k \in Nat : k <= n /\ ~EvenlyUsed(count, target, placed(k), mats)}
<1>1. n \in Nat
  BY FS_CardinalityType
<1>2. /\ order \in [1..n -> DOMAIN count]
      /\ \A i, j \in 1..n : order[i] = order[j] => i = j
      /\ \A id \in DOMAIN count : \E i \in 1..n : order[i] = id
      /\ \A i, j \in 1..n : i < j => ~(count[order[j]] > count[order[i]])
  <2>1. order \in Injection(1..n, DOMAIN count) /\ order \in Surjection(1..n, DOMAIN count)
    BY DEF SortedBySize, Bijection
  <2>2. order \in [1..n -> DOMAIN count]
    BY <2>1 DEF Injection
  <2>3. \A i, j \in 1..n : i < j => ~(count[order[j]] > count[order[i]])
    BY <2>2 DEF SortedBySize, Heavier
  <2> QED
    BY <2>1, <2>2, <2>3 DEF Injection, Surjection, IsInjective
<1> HIDE DEF n
<1>3. ASSUME NEW k \in Nat, k <= n PROVE EvenlyUsed(count, target, placed(k), mats)
  <2> SUFFICES ASSUME uneven # {} PROVE FALSE
    BY <1>3
  <2>1. PICK i \in uneven : \A j \in uneven : i <= j
    <3>1. uneven \in SUBSET Nat
      OBVIOUS
    <3> HIDE DEF uneven
    <3> QED
      BY <3>1, Lemmas!LeastNatural
  <2>2. i \in Nat /\ i <= n /\ ~EvenlyUsed(count, target, placed(i), mats)
    OBVIOUS
  <2>3. i # 0
    <3>1. placed(0) = {}
      OBVIOUS
    <3>2. EvenlyUsed(count, target, {}, mats)
      BY DEF EvenlyUsed, On
    <3> QED
      BY <2>2, <3>1, <3>2
  <2> DEFINE ids == placed(i - 1)
             new == order[i]
  <2>4. EvenlyUsed(count, target, ids, mats)
    <3>1. i - 1 \in Nat /\ i - 1 <= n /\ i - 1 < i
      BY <1>1, <2>2, <2>3
    <3>2. i - 1 \notin uneven
      <4> HIDE DEF uneven
      <4> QED
        BY <2>1, <2>2, <3>1
    <3> QED
      BY <3>1, <3>2
  <2>5. i \in 1..n /\ new \in DOMAIN count
    BY <1>1, <1>2, <2>2, <2>3
  <2>6. placed(i) = ids \cup {new}
    <3>1. \A j : j \in 1..i <=> j \in 1..(i - 1) \/ j = i
      BY <2>2, <2>3
    <3> QED
      BY <3>1
  <2>7. new \notin ids /\ \A id \in ids : id \in DOMAIN count /\ count[new] <= count[id]
    <3>1. \A j \in 1..(i - 1) : j \in 1..n /\ j < i
      BY <1>1, <2>5
    <3>2. \A j \in 1..(i - 1) : order[j] # new /\ order[j] \in DOMAIN count
      BY <1>2, <2>5, <3>1
    <3>3. \A j \in 1..(i - 1) : count[new] <= count[order[j]]
      <4> SUFFICES ASSUME NEW j \in 1..(i - 1) PROVE count[new] <= count[order[j]]
        OBVIOUS
      <4>1. ~(count[new] > count[order[j]])
        BY <1>2, <2>5, <3>1
      <4>2. count[new] \in Nat /\ count[order[j]] \in Nat
        BY <2>5, <3>2
      <4> HIDE DEF new
      <4> QED
        BY <4>1, <4>2
    <3> QED
      BY <3>2, <3>3
  <2>8. IsFiniteSet(ids)
    <3>1. ids \subseteq DOMAIN count
      BY <2>7
    <3> HIDE DEF ids
    <3> QED
      BY <3>1, FS_Subset
  <2>9. \A other \in mats :
          Load(count, target, ids, target[new]) <= Load(count, target, ids, other)
    <3> SUFFICES ASSUME NEW other \in mats
                 PROVE  Load(count, target, ids, target[new]) <= Load(count, target, ids, other)
      OBVIOUS
    <3>1. DOMAIN order = 1..n
      BY <1>2
    <3>2. \/ Load(count, target, ids, target[new]) < Load(count, target, ids, other)
          \/ Load(count, target, ids, target[new]) = Load(count, target, ids, other)
      BY <2>5, <3>1 DEF Balances
    <3>3. \A m : Load(count, target, ids, m) \in Nat
      <4> HIDE DEF ids, new
      <4> QED
        BY <2>5, <2>7, <2>8, LoadAdds
    <3> HIDE DEF ids, new
    <3> QED
      BY <3>2, <3>3
  <2>10. EvenlyUsed(count, target, ids \cup {new}, mats)
    <3> HIDE DEF ids, new
    <3> QED
      BY <2>4, <2>5, <2>7, <2>8, <2>9, PlacedEvenly
  <2> QED
    BY <2>2, <2>6, <2>10
<1>4. placed(n) = DOMAIN count
  <2>1. \A id \in placed(n) : id \in DOMAIN count
    BY <1>2
  <2>2. \A id \in DOMAIN count : id \in placed(n)
    BY <1>2
  <2> HIDE DEF placed
  <2> QED
    BY <2>1, <2>2
<1> QED
  BY <1>1, <1>3, <1>4

-----------------------------------------------------------------------------
(* What stays of a balanced assignment until it is written: the categories *)
(* with their competitors and mats are those that were read, however the   *)
(* rows change meanwhile.                                                  *)

Placed(c) ==
  c.members # <<>> => EvenlyUsed(c.members, c.target, DOMAIN c.target, c.known)

EvenInv ==
  /\ IsFiniteSet(DOMAIN category)
  /\ \A h \in Handlers :
       /\ pc[h] = "create" => IsFiniteSet(DOMAIN call[h].members)
       /\ pc[h] = "assign" => Placed(call[h])

LEMMA InitEven == Init => EvenInv
<1> SUFFICES ASSUME Init PROVE EvenInv
  OBVIOUS
<1>1. DOMAIN category = {} /\ \A h \in Handlers : pc[h] = "idle"
  BY DEF Init
<1> QED
  BY <1>1, FS_EmptySet DEF EvenInv

LEMMA EvenStep ==
  ASSUME CallsInv, EvenInv, NEW h \in Handlers, NEW where, NEW c, Goto(h, where, c),
         IsFiniteSet(DOMAIN category'),
         where = "create" => IsFiniteSet(DOMAIN c.members),
         where = "assign" => Placed(c)
  PROVE  EvenInv'
<1>1. OnlyCall(h, where, c)
  BY GotoIsOnlyCall
<1>2. ASSUME NEW g \in Handlers
      PROVE  /\ pc'[g] = "create" => IsFiniteSet(DOMAIN call'[g].members)
             /\ pc'[g] = "assign" => Placed(call'[g])
  <2>1. CASE g = h
    BY <1>1, <2>1 DEF OnlyCall
  <2>2. CASE g # h
    BY <1>1, <2>2 DEF OnlyCall, EvenInv
  <2> QED
    BY <2>1, <2>2
<1> QED
  BY <1>2 DEF EvenInv, Placed

LEMMA MembersAreFinite ==
  ASSUME CallsInv, RowsInv
  PROVE  /\ IsFiniteSet(DOMAIN competitor)
         /\ \A id : Cardinality(Members(id)) \in Nat
<1>1. IsFiniteSet(DOMAIN competitor)
  <2>1. DOMAIN competitor \subseteq Competitors /\ IsFiniteSet(Competitors)
    BY CategoriesTypes DEF CallsInv, RowsInv
  <2> QED
    BY <2>1, FS_Subset
<1>2. ASSUME NEW id PROVE Cardinality(Members(id)) \in Nat
  <2>1. Members(id) \subseteq DOMAIN competitor
    BY DEF Members
  <2> QED
    BY <1>1, <2>1, FS_Subset, FS_CardinalityType
<1> QED
  BY <1>1, <1>2

LEMMA AssignMatsEven ==
  ASSUME CallsInv, RowsInv, EvenInv, NEW h \in Handlers, AssignCategoriesToMats(h)
  PROVE  EvenInv'
<1> DEFINE count == [id \in DOMAIN category |-> Cardinality(Members(id))]
           mats == DOMAIN current
           new(target) == [NoCall EXCEPT !.todo = DOMAIN category, !.known = mats,
                                         !.members = count, !.target = target]
<1>1. PICK target \in [DOMAIN category -> mats] :
        /\ Begin(h, "assignAll", "assign", new(target))
        /\ \E order \in SortedBySize(count) : Balances(count, mats, order, target)
  BY DEF AssignCategoriesToMats
<1>2. category' = category
  BY DEF AssignCategoriesToMats, rows
<1>3. /\ new(target).known = mats /\ new(target).members = count
      /\ new(target).target = target
  BY DEF NoCall
<1>4. Goto(h, "assign", new(target))
  BY <1>1 DEF Begin
<1>5. /\ DOMAIN count = DOMAIN category
      /\ \A id \in DOMAIN count : count[id] \in Nat
  BY MembersAreFinite
<1> HIDE DEF count, mats, new
<1>6. IsFiniteSet(DOMAIN count)
  BY <1>5 DEF EvenInv
<1>7. EvenlyUsed(count, target, DOMAIN count, mats)
  <2>1. PICK order \in SortedBySize(count) : Balances(count, mats, order, target)
    BY <1>1
  <2>2. target \in [DOMAIN count -> mats]
    BY <1>1, <1>5
  <2> QED
    BY <1>5, <1>6, <2>1, <2>2, BalancesEvenly
<1>8. Placed(new(target))
  <2>1. DOMAIN target = DOMAIN count
    BY <1>1, <1>5
  <2> QED
    BY <1>3, <1>7, <2>1 DEF Placed
<1>9. IsFiniteSet(DOMAIN category')
  BY <1>2 DEF EvenInv
<1> QED
  BY <1>4, <1>8, <1>9, EvenStep

LEMMA ReadsEven ==
  ASSUME CallsInv, RowsInv, EvenInv, NEW h \in Handlers, Reads(h)
  PROVE  EvenInv'
<1>1. category' = category /\ IsFiniteSet(DOMAIN category')
  BY ReadsFrame DEF EvenInv
<1>2. ASSUME NEW where, NEW c, Goto(h, where, c), where \notin {"create", "assign"}
      PROVE  EvenInv'
  BY <1>1, <1>2, EvenStep
<1>3. ASSUME NEW op, NEW where, NEW c, Begin(h, op, where, c), where \notin {"create", "assign"}
      PROVE  EvenInv'
  BY <1>2, <1>3 DEF Begin
<1>4. ASSUME NEW c, NEW w, RecordWeight(h, c, w) \/ UpdateWeight(h, c, w)
      PROVE  EvenInv'
  BY <1>3, <1>4 DEF RecordWeight, UpdateWeight
<1>5. CASE GenerateCategories(h)
  BY <1>3, <1>5 DEF GenerateCategories
<1>6. CASE ClearCategories(h)
  BY <1>2, <1>6 DEF ClearCategories
<1>7. CASE ReplaceCategories(h)
  <2> DEFINE fit == {c \in DOMAIN competitor : competitor[c].status = "WEIGHED_IN" /\ ClassNow(c) # None}
             class == [c \in DOMAIN competitor |-> ClassNow(c)]
             classes == {ClassNow(c) : c \in fit}
             new == [call[h] EXCEPT !.locked = call[h].known,
                       !.members = [k \in classes |-> {c \in fit : ClassNow(c) = k}]]
  <2>1. Goto(h, "create", new)
    BY <1>7 DEF ReplaceCategories
  <2>2. DOMAIN new.members = classes
    BY DEF CallsInv, CallOK, CallFields
  <2>3. classes = {class[c] : c \in fit} /\ fit \subseteq DOMAIN competitor
    OBVIOUS
  <2> HIDE DEF fit, class, classes, new
  <2>4. IsFiniteSet(fit)
    BY <2>3, MembersAreFinite, FS_Subset
  <2>5. IsFiniteSet(DOMAIN new.members)
    BY <2>2, <2>3, <2>4, ImageIsFinite
  <2> QED
    BY <1>1, <2>1, <2>5, EvenStep
<1>8. ASSUME NEW c, AssignCompetitor(h, c) PROVE EvenInv'
  BY <1>3, <1>8 DEF AssignCompetitor
<1>9. CASE GenerateBrackets(h)
  BY <1>3, <1>9 DEF GenerateBrackets
<1>10. CASE UpdateCategory(h)
  <2>1. PICK id \in call[h].todo :
          \/ Goto(h, pc[h], [call[h] EXCEPT !.todo = @ \ {id}, !.locked = @ \cup {id}])
          \/ Return(h)
    BY <1>10 DEF UpdateCategory
  <2>2. CASE Return(h)
    BY <1>2, <2>2 DEF Return
  <2> DEFINE new == [call[h] EXCEPT !.todo = @ \ {id}, !.locked = @ \cup {id}]
  <2>3. CASE Goto(h, pc[h], new)
    <3>1. /\ new.members = call[h].members /\ new.target = call[h].target
          /\ new.known = call[h].known
      BY DEF CallsInv, CallOK, CallFields
    <3>2. pc[h] = "assign" => Placed(new)
      <4> HIDE DEF new
      <4> QED
        BY <3>1 DEF Placed, EvenInv
    <3>3. pc[h] # "create"
      BY <1>10 DEF UpdateCategory
    <3> HIDE DEF new
    <3> QED
      BY <1>1, <2>3, <3>2, <3>3, EvenStep
  <2> QED
    BY <2>1, <2>2, <2>3
<1>11. CASE AssignCategoriesToMats(h)
  BY <1>11, AssignMatsEven
<1>12. ASSUME NEW id, NEW mat, AssignCategoryToMat(h, id, mat) PROVE EvenInv'
  <2> DEFINE new == [NoCall EXCEPT !.todo = {id}, !.target = [i \in {id} |-> mat]]
  <2>1. Goto(h, "assign", new)
    BY <1>12 DEF AssignCategoryToMat, Begin
  <2>2. Placed(new)
    BY DEF Placed, NoCall
  <2> HIDE DEF new
  <2> QED
    BY <1>1, <2>1, <2>2, EvenStep
<1>13. ASSUME NEW n, CreateMats(h, n) PROVE EvenInv'
  BY <1>3, <1>13 DEF CreateMats
<1>14. CASE Rollback(h)
  BY <1>2, <1>14 DEF Rollback, Return
<1> QED
  BY <1>4, <1>5, <1>6, <1>7, <1>8, <1>9, <1>10, <1>11, <1>12, <1>13, <1>14 DEF Reads

LEMMA StepEven == CallsInv /\ RowsInv /\ EvenInv /\ [Next]_vars => EvenInv'
<1> SUFFICES ASSUME CallsInv, RowsInv, EvenInv, [Next]_vars PROVE EvenInv'
  OBVIOUS
<1>1. setting.handlers \subseteq Handlers
  BY HandlersOfSetting DEF CallsInv
<1>2. ASSUME NEW h \in Handlers, Reads(h) PROVE EvenInv'
  BY <1>2, ReadsEven
<1>3. ASSUME NEW h \in Handlers, WriteWeight(h) \/ WriteCategory(h) \/ CommitDraw(h) \/ CommitMats(h)
      PROVE  EvenInv'
  <2>1. Goto(h, "idle", NoCall) /\ DOMAIN category' = DOMAIN category
    BY <1>3 DEF WriteWeight, WriteCategory, CommitDraw, CommitMats, Return
  <2>2. IsFiniteSet(DOMAIN category')
    BY <2>1 DEF EvenInv
  <2> QED
    BY <2>1, <2>2, EvenStep
<1>4. ASSUME NEW h \in Handlers, CreateCategories(h) PROVE EvenInv'
  <2>1. Goto(h, "idle", NoCall) /\ pc[h] = "create"
    BY <1>4 DEF CreateCategories, Return
  <2>2. DOMAIN category' = {NewIds(h)[class] : class \in DOMAIN call[h].members}
    BY <1>4, CreatedCategories
  <2>3. IsFiniteSet(DOMAIN category')
    BY <2>1, <2>2, ImageIsFinite DEF EvenInv
  <2> QED
    BY <2>1, <2>3, EvenStep
<1>5. ASSUME NEW h \in Handlers, CreateMat(h) PROVE EvenInv'
  <2>1. /\ \E where, c : Goto(h, where, c) /\ where \notin {"create", "assign"}
        /\ category' = category
    BY <1>5 DEF CreateMat, Return
  <2>2. IsFiniteSet(DOMAIN category')
    BY <2>1 DEF EvenInv
  <2> QED
    BY <2>1, <2>2, EvenStep
<1>6. ASSUME \/ \E c \in DOMAIN competitor : ByOrganizer(c)
             \/ Activate
             \/ \E mat \in DOMAIN current : StartMatch(mat) \/ \E m \in DOMAIN match : AssignMatchToMat(mat, m)
             \/ \E m \in DOMAIN match, side \in setting.winners : EndMatch(m, side)
             \/ UNCHANGED vars
      PROVE  EvenInv'
  <2>1. UNCHANGED <<category, pc, call>>
    BY <1>6 DEF ByOrganizer, Activate, StartMatch, AssignMatchToMat, EndMatch, rows, vars
  <2> QED
    BY <2>1 DEF EvenInv
<1> QED
  BY <1>1, <1>2, <1>3, <1>4, <1>5, <1>6, StepsThereAre

(* The mats are numbered without a gap, and an assignment of all the       *)
(* categories uses those it has read evenly: a mat without its smallest    *)
(* category has no more competitors than any other, whatever the sizes and *)
(* in whatever order categories of the same size are taken.                *)
THEOREM MatsAreEvenlyUsed == Spec => []MatsAreInOrder
<1>1. Init => CallsInv /\ RowsInv /\ EvenInv
  BY InitCalls, InitRows, InitEven
<1>2. (CallsInv /\ RowsInv /\ EvenInv) /\ [Next]_vars => (CallsInv /\ RowsInv /\ EvenInv)'
  BY StepCalls, StepRows, StepEven
<1>3. EvenInv => MatsAreBalanced
  <2> SUFFICES ASSUME EvenInv, NEW h \in Handlers, pc[h] = "assign", call[h].members # <<>>
               PROVE  \A mat, other \in call[h].known :
                        \A id \in On(call[h].target, DOMAIN call[h].target, mat) :
                          (\A least \in On(call[h].target, DOMAIN call[h].target, mat) :
                             call[h].members[id] <= call[h].members[least])
                          => Load(call[h].members, call[h].target, DOMAIN call[h].target, mat)
                               - call[h].members[id]
                             <= Load(call[h].members, call[h].target, DOMAIN call[h].target, other)
    BY DEF MatsAreBalanced, On
  <2> QED
    BY DEF EvenInv, Placed, EvenlyUsed
<1>4. Spec => [](CallsInv /\ RowsInv /\ EvenInv)
  BY <1>1, <1>2, PTL DEF Spec
<1>5. MatsAreNumbered /\ MatsAreBalanced => MatsAreInOrder
  BY DEF MatsAreInOrder
<1> QED
  BY <1>3, <1>4, <1>5, MatsHaveNoGap, PTL

(* What the order of the matches relies on: categories have a number, and  *)
(* a match is on a mat that there is or on none.                           *)

OnAMat(mat) == mat = None \/ mat \in DOMAIN current

Statuses == {"SCHEDULED", "ACTIVE", "COMPLETED"}

GoesToAMat(h) ==
  /\ pc[h] = "draw" => \A id \in call[h].todo \cup call[h].locked : OnAMat(call[h].target[id])
  /\ pc[h] = "assign" => \A id \in DOMAIN call[h].target : OnAMat(call[h].target[id])

PlacedInv ==
  /\ created \in Nat /\ DOMAIN category \subseteq Nat
  /\ \A id \in DOMAIN category : OnAMat(category[id].mat)
  /\ \A m \in DOMAIN match : match[m].status \in Statuses /\ OnAMat(match[m].mat)
  /\ \A h \in Handlers : GoesToAMat(h)

LEMMA InitPlaced == Init => PlacedInv
<1> SUFFICES ASSUME Init PROVE PlacedInv
  OBVIOUS
<1>1. DOMAIN category = {} /\ DOMAIN match = {} /\ created = 0 /\ \A h \in Handlers : pc[h] = "idle"
  BY DEF Init
<1> QED
  BY <1>1 DEF PlacedInv, GoesToAMat

LEMMA MatsOnlyGrow ==
  ASSUME [Next]_vars PROVE DOMAIN current \subseteq DOMAIN current'
<1>1. ASSUME NEW h, CreateMat(h) PROVE DOMAIN current \subseteq DOMAIN current'
  BY <1>1 DEF CreateMat
<1>2. ASSUME NEW m, NEW side, EndMatch(m, side) PROVE DOMAIN current' = DOMAIN current
  BY <1>2 DEF EndMatch
<1>3. ASSUME NEW mat, NEW m, AssignMatchToMat(mat, m) PROVE DOMAIN current' = DOMAIN current
  BY <1>3 DEF AssignMatchToMat
<1>4. ASSUME NEW h, WriteWeight(h) \/ CreateCategories(h) \/ WriteCategory(h) \/ CommitDraw(h) \/ CommitMats(h)
      PROVE  current' = current
  BY <1>4 DEF WriteWeight, CreateCategories, WriteCategory, CommitDraw, CommitMats
<1>5. ASSUME NEW c, NEW mat, ByOrganizer(c) \/ Activate \/ StartMatch(mat) \/ UNCHANGED vars
      PROVE  current' = current
  BY <1>5 DEF ByOrganizer, Activate, StartMatch, rows, vars
<1> QED
  BY <1>1, <1>2, <1>3, <1>4, <1>5, StepsThereAre, ReadsFrame

LEMMA CallPlaced ==
  ASSUME CallsInv, PlacedInv, DOMAIN current \subseteq DOMAIN current',
         NEW h \in Handlers, NEW where, NEW c, Goto(h, where, c),
         where = "draw" => \A id \in c.todo \cup c.locked : OnAMat(c.target[id]),
         where = "assign" => \A id \in DOMAIN c.target : OnAMat(c.target[id])
  PROVE  \A g \in Handlers : GoesToAMat(g)'
<1>1. OnlyCall(h, where, c)
  BY GotoIsOnlyCall
<1>2. \A mat : OnAMat(mat) => OnAMat(mat)'
  BY DEF OnAMat
<1> SUFFICES ASSUME NEW g \in Handlers PROVE GoesToAMat(g)'
  OBVIOUS
<1>3. CASE g = h
  BY <1>1, <1>2, <1>3 DEF OnlyCall, GoesToAMat
<1>4. CASE g # h
  <2>1. pc'[g] = pc[g] /\ call'[g] = call[g] /\ GoesToAMat(g)
    BY <1>1, <1>4 DEF OnlyCall, PlacedInv
  <2> QED
    BY <1>2, <2>1 DEF GoesToAMat
<1> QED
  BY <1>3, <1>4

(* Steps of a call that leave the categories and matches, and of others.   *)
LEMMA RowsPlaced ==
  ASSUME PlacedInv, DOMAIN current \subseteq DOMAIN current',
         UNCHANGED <<category, match, created>>, \A g \in Handlers : GoesToAMat(g)'
  PROVE  PlacedInv'
<1>1. \A mat : OnAMat(mat) => OnAMat(mat)'
  BY DEF OnAMat
<1> QED
  BY <1>1 DEF PlacedInv

LEMMA IdlePlaced ==
  ASSUME PlacedInv, DOMAIN current \subseteq DOMAIN current', UNCHANGED <<pc, call>>
  PROVE  \A g \in Handlers : GoesToAMat(g)'
<1>1. \A mat : OnAMat(mat) => OnAMat(mat)'
  BY DEF OnAMat
<1> QED
  BY <1>1 DEF PlacedInv, GoesToAMat

LEMMA ReadsPlaced ==
  ASSUME CallsInv, PlacedInv, DOMAIN current \subseteq DOMAIN current',
         NEW h \in Handlers, Reads(h)
  PROVE  PlacedInv'
<1>1. UNCHANGED <<category, match, created>>
  BY ReadsFrame
<1>2. ASSUME NEW where, NEW c, Goto(h, where, c), where \notin {"draw", "assign"}
      PROVE  PlacedInv'
  BY <1>1, <1>2, CallPlaced, RowsPlaced
<1>3. ASSUME NEW op, NEW where, NEW c, Begin(h, op, where, c), where \notin {"draw", "assign"}
      PROVE  PlacedInv'
  BY <1>2, <1>3 DEF Begin
<1>4. ASSUME NEW c, NEW w, RecordWeight(h, c, w) \/ UpdateWeight(h, c, w)
      PROVE  PlacedInv'
  BY <1>3, <1>4 DEF RecordWeight, UpdateWeight
<1>5. CASE GenerateCategories(h)
  BY <1>3, <1>5 DEF GenerateCategories
<1>6. CASE ClearCategories(h) \/ ReplaceCategories(h)
  BY <1>2, <1>6 DEF ClearCategories, ReplaceCategories
<1>7. ASSUME NEW c, AssignCompetitor(h, c) PROVE PlacedInv'
  BY <1>3, <1>7 DEF AssignCompetitor
<1>8. CASE GenerateBrackets(h)
  <2> DEFINE new == [NoCall EXCEPT !.todo = Drawable, !.known = DOMAIN match,
                      !.members = [id \in Drawable |-> Sorted(Members(id), ReadBefore)],
                      !.target = [id \in Drawable |-> category[id].mat]]
  <2>1. Goto(h, "draw", new)
    BY <1>8 DEF GenerateBrackets, Begin
  <2>2. /\ new.todo = Drawable /\ new.locked = {}
        /\ new.target = [id \in Drawable |-> category[id].mat]
    BY DEF NoCall
  <2>3. \A id \in new.todo \cup new.locked : OnAMat(new.target[id])
    <3> HIDE DEF new
    <3>1. Drawable \subseteq DOMAIN category
      BY DEF Drawable
    <3> QED
      BY <2>2, <3>1 DEF PlacedInv
  <2> HIDE DEF new
  <2> QED
    BY <1>1, <2>1, <2>3, CallPlaced, RowsPlaced
<1>9. CASE UpdateCategory(h)
  <2>1. PICK id \in call[h].todo :
          \/ Goto(h, pc[h], [call[h] EXCEPT !.todo = @ \ {id}, !.locked = @ \cup {id}])
          \/ Return(h)
    BY <1>9 DEF UpdateCategory
  <2>2. CASE Return(h)
    BY <1>2, <2>2 DEF Return
  <2> DEFINE new == [call[h] EXCEPT !.todo = @ \ {id}, !.locked = @ \cup {id}]
  <2>3. CASE Goto(h, pc[h], new)
    <3>1. /\ new.target = call[h].target
          /\ new.todo \cup new.locked \subseteq call[h].todo \cup call[h].locked
      BY DEF CallsInv, CallOK, CallFields
    <3>2. GoesToAMat(h)
      BY DEF PlacedInv
    <3> HIDE DEF new
    <3>3. pc[h] = "draw" => \A i \in new.todo \cup new.locked : OnAMat(new.target[i])
      BY <3>1, <3>2 DEF GoesToAMat
    <3>4. pc[h] = "assign" => \A i \in DOMAIN new.target : OnAMat(new.target[i])
      BY <3>1, <3>2 DEF GoesToAMat
    <3> QED
      BY <1>1, <2>3, <3>3, <3>4, CallPlaced, RowsPlaced
  <2> QED
    BY <2>1, <2>2, <2>3
<1>10. CASE AssignCategoriesToMats(h)
  <2> DEFINE count == [id \in DOMAIN category |-> Cardinality(Members(id))]
             new(target) == [NoCall EXCEPT !.todo = DOMAIN category, !.known = DOMAIN current,
                                           !.members = count, !.target = target]
  <2>1. PICK target \in [DOMAIN category -> DOMAIN current] : Goto(h, "assign", new(target))
    BY <1>10 DEF AssignCategoriesToMats, Begin
  <2>2. new(target).target = target
    BY DEF NoCall
  <2>3. \A id \in DOMAIN new(target).target : OnAMat(new(target).target[id])
    <3> HIDE DEF new
    <3> QED
      BY <2>1, <2>2 DEF OnAMat
  <2> HIDE DEF new
  <2> QED
    BY <1>1, <2>1, <2>3, CallPlaced, RowsPlaced
<1>11. ASSUME NEW id, NEW mat \in DOMAIN current \cup {None}, AssignCategoryToMat(h, id, mat)
       PROVE  PlacedInv'
  <2> DEFINE new == [NoCall EXCEPT !.todo = {id}, !.target = [i \in {id} |-> mat]]
  <2>1. Goto(h, "assign", new)
    BY <1>11 DEF AssignCategoryToMat, Begin
  <2>2. new.target = [i \in {id} |-> mat]
    BY DEF NoCall
  <2>3. \A i \in DOMAIN new.target : OnAMat(new.target[i])
    <3> HIDE DEF new
    <3> QED
      BY <2>2 DEF OnAMat
  <2> HIDE DEF new
  <2> QED
    BY <1>1, <2>1, <2>3, CallPlaced, RowsPlaced
<1>12. ASSUME NEW n, CreateMats(h, n) PROVE PlacedInv'
  BY <1>3, <1>12 DEF CreateMats
<1>13. CASE Rollback(h)
  BY <1>2, <1>13 DEF Rollback, Return
<1> QED
  BY <1>4, <1>5, <1>6, <1>7, <1>8, <1>9, <1>10, <1>11, <1>12, <1>13 DEF Reads

LEMMA CreatedPlaced ==
  ASSUME CallsInv, RowsInv, EvenInv, PlacedInv, DOMAIN current \subseteq DOMAIN current',
         NEW h \in Handlers, CreateCategories(h)
  PROVE  PlacedInv'
<1> DEFINE members == call[h].members
           order == SetToSeq(DOMAIN members)
<1>1. pc[h] = "create" /\ Goto(h, "idle", NoCall) /\ created' = created + Len(order)
  BY DEF CreateCategories, Return
<1>2. IsFiniteSet(DOMAIN members)
  BY <1>1 DEF EvenInv
<1>3. /\ Cardinality(DOMAIN members) \in Nat
      /\ order \in [1..Cardinality(DOMAIN members) -> DOMAIN members]
      /\ \A class \in DOMAIN members : \E i \in 1..Cardinality(DOMAIN members) : order[i] = class
  BY <1>2, ListedOnce
<1>4. Len(order) \in Nat
  <2> HIDE DEF order
  <2>1. order \in Seq(DOMAIN members)
    BY <1>3
  <2> QED
    BY <2>1
<1>5. created' \in Nat
  BY <1>1, <1>4 DEF PlacedInv
<1>6. DOMAIN category' \subseteq Nat
  <2>1. ASSUME NEW class \in DOMAIN members PROVE NewIds(h)[class] \in Nat
    <3> DEFINE i == CHOOSE i \in DOMAIN order : order[i] = class
    <3>1. NewIds(h)[class] = created + i
      BY DEF NewIds
    <3>2. DOMAIN order = 1..Cardinality(DOMAIN members)
      BY <1>3
    <3>3. i \in 1..Cardinality(DOMAIN members)
      <4> HIDE DEF order
      <4> QED
        BY <1>3, <3>2
    <3> HIDE DEF i
    <3> QED
      BY <1>3, <3>1, <3>3 DEF PlacedInv
  <2>2. DOMAIN category' = {NewIds(h)[class] : class \in DOMAIN members}
    BY CreatedCategories
  <2> HIDE DEF members
  <2> QED
    BY <2>1, <2>2
<1>7. \A id \in DOMAIN category' : category'[id].mat = None
  <2> DEFINE id(class) == created + (CHOOSE i \in DOMAIN order : order[i] = class)
             new == [i \in {id(class) : class \in DOMAIN members} |->
                       [class |-> order[i - created], mat |-> None]]
  <2>1. category' = [i \in DOMAIN new \cup (DOMAIN category \ call[h].locked) |->
                      IF i \in DOMAIN new THEN new[i] ELSE category[i]]
    BY DEF CreateCategories
  <2>2. DOMAIN category \ call[h].locked = {}
    BY <1>1 DEF CallsInv, CallOK
  <2>3. \A i \in DOMAIN new : new[i].mat = None
    OBVIOUS
  <2> HIDE DEF new
  <2> QED
    BY <2>1, <2>2, <2>3
<1>8. DOMAIN match' = {}
  BY CreatedMatches
<1>9. \A g \in Handlers : GoesToAMat(g)'
  BY <1>1, CallPlaced
<1> HIDE DEF members, order
<1> QED
  BY <1>5, <1>6, <1>7, <1>8, <1>9 DEF PlacedInv, OnAMat

LEMMA DrawnPlaced ==
  ASSUME CallsInv, PlacedInv, DOMAIN current \subseteq DOMAIN current',
         NEW h \in Handlers, CommitDraw(h)
  PROVE  PlacedInv'
<1>1. /\ pc[h] = "draw" /\ Goto(h, "idle", NoCall)
      /\ category' = category /\ current' = current /\ created' = created
  BY DEF CommitDraw, Return
<1>2. \A id \in call[h].locked : OnAMat(call[h].target[id])
  BY <1>1 DEF PlacedInv, GoesToAMat
<1>3. ASSUME NEW k \in DOMAIN match'
      PROVE  match'[k].status \in Statuses /\ OnAMat(match'[k].mat)
  <2>1. CASE /\ k[2] \in call[h].locked /\ k \in DOMAIN DrawOf(h, k[2])
             /\ match'[k] = DrawOf(h, k[2])[k]
    BY <1>2, <2>1, DrawnRows DEF Statuses
  <2>2. CASE k \in DOMAIN match /\ match'[k] = match[k]
    BY <2>2 DEF PlacedInv
  <2> QED
    BY <2>1, <2>2, MatchesDrawn
<1>4. \A g \in Handlers : GoesToAMat(g)'
  BY <1>1, CallPlaced
<1>5. \A mat : OnAMat(mat)' <=> OnAMat(mat)
  BY <1>1 DEF OnAMat
<1> QED
  BY <1>1, <1>3, <1>4, <1>5 DEF PlacedInv

LEMMA MovedPlaced ==
  ASSUME CallsInv, RowsInv, PlacedInv, DOMAIN current \subseteq DOMAIN current',
         NEW h \in Handlers, CommitMats(h)
  PROVE  PlacedInv'
<1>1. /\ pc[h] = "assign" /\ Goto(h, "idle", NoCall)
      /\ current' = current /\ created' = created
  BY DEF CommitMats, Return
<1>2. \A id \in DOMAIN call[h].target : OnAMat(call[h].target[id])
  BY <1>1 DEF PlacedInv, GoesToAMat
<1>3. /\ DOMAIN category' = DOMAIN category
      /\ \A id \in DOMAIN category : OnAMat(category'[id].mat)
  BY <1>2, MovedRows DEF PlacedInv
<1>4. /\ DOMAIN match' = DOMAIN match
      /\ \A k \in DOMAIN match : match'[k].status \in Statuses /\ OnAMat(match'[k].mat)
  BY <1>2, MovedRows DEF PlacedInv
<1>5. \A g \in Handlers : GoesToAMat(g)'
  BY <1>1, CallPlaced
<1>6. \A mat : OnAMat(mat)' <=> OnAMat(mat)
  BY <1>1 DEF OnAMat
<1> QED
  BY <1>1, <1>3, <1>4, <1>5, <1>6 DEF PlacedInv

(* A match is started, or ends.                                            *)
LEMMA FoughtPlaced ==
  ASSUME RowsInv, PlacedInv, DOMAIN current \subseteq DOMAIN current',
         NEW mat, NEW m, NEW side, StartMatch(mat) \/ EndMatch(m, side)
  PROVE  PlacedInv'
<1>1. UNCHANGED <<category, created, pc, call>>
  BY FoughtMatches DEF StartMatch, EndMatch
<1>2. \A x : OnAMat(x) => OnAMat(x)'
  BY DEF OnAMat
<1>3. \A k \in DOMAIN match : match'[k].mat = match[k].mat
  BY FoughtMatches
<1>4. \A k \in DOMAIN match' \ DOMAIN match : match'[k].mat = None /\ match'[k].status = "SCHEDULED"
  BY FoughtMatches
<1>5. \A k \in DOMAIN match : match'[k].status \in Statuses
  <2>1. CASE StartMatch(mat)
    <3>1. PICK n : match' = [match EXCEPT ![n].status = "ACTIVE"]
      BY <2>1 DEF StartMatch
    <3>2. \A k \in DOMAIN match : MatchColumns \subseteq DOMAIN match[k] /\ match[k].status \in Statuses
      BY DEF RowsInv, PlacedInv
    <3> QED
      BY <3>1, <3>2 DEF MatchColumns, Statuses
  <2>2. CASE EndMatch(m, side)
    BY <2>2, EndIsFought DEF PlacedInv, Statuses
  <2> QED
    BY <2>1, <2>2
<1>6. \A g \in Handlers : GoesToAMat(g)'
  BY <1>1, IdlePlaced
<1> QED
  BY <1>1, <1>2, <1>3, <1>4, <1>5, <1>6 DEF PlacedInv, OnAMat, Statuses

LEMMA StepPlaced == CallsInv /\ RowsInv /\ EvenInv /\ PlacedInv /\ [Next]_vars => PlacedInv'
<1> SUFFICES ASSUME CallsInv, RowsInv, EvenInv, PlacedInv, [Next]_vars PROVE PlacedInv'
  OBVIOUS
<1>1. setting.handlers \subseteq Handlers
  BY HandlersOfSetting DEF CallsInv
<1>2. DOMAIN current \subseteq DOMAIN current'
  BY MatsOnlyGrow
<1>3. ASSUME NEW h \in Handlers, Reads(h) PROVE PlacedInv'
  BY <1>2, <1>3, ReadsPlaced
<1>4. ASSUME NEW h \in Handlers, WriteWeight(h) \/ WriteCategory(h)
      PROVE  PlacedInv'
  <2>1. Goto(h, "idle", NoCall) /\ UNCHANGED <<category, match, created>>
    BY <1>4 DEF WriteWeight, WriteCategory, Return
  <2>2. \A g \in Handlers : GoesToAMat(g)'
    BY <1>2, <2>1, CallPlaced
  <2> QED
    BY <1>2, <2>1, <2>2, RowsPlaced
<1>5. ASSUME NEW h \in Handlers, CreateMat(h) PROVE PlacedInv'
  <2>1. /\ \E where, c : Goto(h, where, c) /\ where \notin {"draw", "assign"}
        /\ UNCHANGED <<category, match, created>>
    BY <1>5 DEF CreateMat, Return
  <2>2. \A g \in Handlers : GoesToAMat(g)'
    BY <1>2, <2>1, CallPlaced
  <2> QED
    BY <1>2, <2>1, <2>2, RowsPlaced
<1>6. ASSUME NEW h \in Handlers, CreateCategories(h) \/ CommitDraw(h) \/ CommitMats(h)
      PROVE  PlacedInv'
  BY <1>2, <1>6, CreatedPlaced, DrawnPlaced, MovedPlaced
<1>7. ASSUME \/ \E c \in DOMAIN competitor : ByOrganizer(c)
             \/ Activate
             \/ \E mat \in DOMAIN current, m \in DOMAIN match : AssignMatchToMat(mat, m)
             \/ UNCHANGED vars
      PROVE  PlacedInv'
  <2>1. UNCHANGED <<category, match, created, pc, call>>
    BY <1>7 DEF ByOrganizer, Activate, AssignMatchToMat, rows, vars
  <2> QED
    BY <1>2, <2>1, IdlePlaced, RowsPlaced
<1>8. ASSUME NEW mat, NEW m, NEW side, StartMatch(mat) \/ EndMatch(m, side) PROVE PlacedInv'
  BY <1>2, <1>8, FoughtPlaced
<1> QED
  BY <1>1, <1>3, <1>4, <1>5, <1>6, <1>7, <1>8, StepsThereAre

-----------------------------------------------------------------------------
(* Matches are sorted by category and sequenceNum, by which each is found. *)

InOrder ==
  /\ IsFiniteSet(DOMAIN match)
  /\ \A m \in DOMAIN match :
       /\ match[m].category \in Nat /\ m[3] \in Nat
       /\ match[m].status \in Statuses /\ OnAMat(match[m].mat)
  /\ \A m, n \in DOMAIN match :
       match[m].category = match[n].category /\ m[3] = n[3] => m = n

LEMMA MatchesOfCategory ==
  ASSUME NEW id, DrawnWhole(id)
  PROVE  /\ IsFiniteSet(MatchesOf(id))
         /\ \A m \in MatchesOf(id) : m[3] \in Nat
         /\ \A m, n \in MatchesOf(id) : m[3] = n[3] => m = n
<1>1. PICK d, n : n \in Nat /\ MatchesOf(id) = Numbered(d, id, n)
  BY DEF DrawnWhole
<1>2. IsFiniteSet(Numbered(d, id, n))
  BY <1>1, NumberedRows
<1>3. \A m \in Numbered(d, id, n) : \E i \in 1..n : m = <<d, id, i>>
  BY DEF Numbered
<1> QED
  BY <1>1, <1>2, <1>3

LEMMA MatchesInOrder == RowsInv /\ DrawsInv /\ EvenInv /\ PlacedInv => InOrder
<1> SUFFICES ASSUME RowsInv, DrawsInv, EvenInv, PlacedInv PROVE InOrder
  OBVIOUS
<1> DEFINE matches == [id \in DOMAIN category |-> MatchesOf(id)]
           each == {matches[id] : id \in DOMAIN category}
<1>1. \A id \in DOMAIN category :
        /\ IsFiniteSet(MatchesOf(id))
        /\ \A m \in MatchesOf(id) : m[3] \in Nat
        /\ \A m, n \in MatchesOf(id) : m[3] = n[3] => m = n
  BY MatchesOfCategory DEF DrawsInv
<1>2. \A m \in DOMAIN match : match[m].category \in DOMAIN category /\ m \in MatchesOf(match[m].category)
  BY DEF RowsInv, MatchesOf
<1>3. IsFiniteSet(DOMAIN match)
  <2>1. \A s \in each : IsFiniteSet(s)
    BY <1>1
  <2>2. DOMAIN match \subseteq UNION each
    BY <1>2
  <2> HIDE DEF matches
  <2>3. IsFiniteSet(each)
    BY ImageIsFinite DEF EvenInv
  <2> HIDE DEF each
  <2>4. IsFiniteSet(UNION each)
    BY <2>1, <2>3, FS_UNION
  <2> QED
    BY <2>2, <2>4, FS_Subset
<1>4. \A m \in DOMAIN match :
       /\ match[m].category \in Nat /\ m[3] \in Nat
       /\ match[m].status \in Statuses /\ OnAMat(match[m].mat)
  BY <1>1, <1>2 DEF PlacedInv
<1>5. \A m, n \in DOMAIN match :
        match[m].category = match[n].category /\ m[3] = n[3] => m = n
  BY <1>1, <1>2
<1> HIDE DEF matches, each
<1> QED
  BY <1>3, <1>4, <1>5 DEF InOrder

QueueOf(mat, but) ==
  {m \in DOMAIN match : match[m].mat = mat /\ match[m].status = "SCHEDULED"
                     /\ Ready(m) /\ m # but}

LEMMA BeforeIsTotal ==
  ASSUME InOrder, NEW S \in SUBSET DOMAIN match
  PROVE  /\ IsTotal({p \in S \X S : Before(p[1], p[2])}, S)
         /\ \A m, n \in S : \/ m = n \/ Before(m, n) \/ Before(n, m)
<1>1. \A m, n \in S : <<m, n>> \in {p \in S \X S : Before(p[1], p[2])} <=> Before(m, n)
  OBVIOUS
<1>2. \A m \in S : match[m].category \in Nat /\ m[3] \in Nat
  BY DEF InOrder
<1>3. \A m, n \in S :
        match[m].category = match[n].category /\ m[3] = n[3] => m = n
  BY DEF InOrder
<1>4. \A m \in S : ~Before(m, m)
  BY <1>2 DEF Before
<1>5. \A m, n, k \in S : Before(m, n) /\ Before(n, k) => Before(m, k)
  BY <1>2 DEF Before
<1>6. \A m, n \in S : m # n => Before(m, n) \/ Before(n, m)
  BY <1>2, <1>3 DEF Before
<1> QED
  BY <1>1, <1>4, <1>5, <1>6 DEF IsTotal

LEMMA ScheduleIsTotal ==
  ASSUME InOrder, NEW mat
  PROVE  LET S == OnSchedule(mat)
         IN  /\ IsTotal({p \in S \X S : ScheduledBefore(p[1], p[2])}, S)
             /\ S \in SUBSET DOMAIN match /\ IsFiniteSet(S)
             /\ \A m \in S : match[m].mat = mat /\ match[m].status \in {"SCHEDULED", "ACTIVE"}
<1> DEFINE S == OnSchedule(mat)
<1>1. \A m, n \in S : <<m, n>> \in {p \in S \X S : ScheduledBefore(p[1], p[2])} <=> ScheduledBefore(m, n)
  OBVIOUS
<1>2. /\ S \in SUBSET DOMAIN match
      /\ \A m \in S : match[m].mat = mat /\ match[m].status \in {"SCHEDULED", "ACTIVE"}
  BY DEF OnSchedule, InOrder, Statuses
<1>3. IsFiniteSet(S)
  BY <1>2, FS_Subset DEF InOrder
<1> HIDE DEF S
<1>4. /\ \A m \in S : ~Before(m, m)
      /\ \A m, n, k \in S : Before(m, n) /\ Before(n, k) => Before(m, k)
      /\ \A m, n \in S : m # n => Before(m, n) \/ Before(n, m)
  <2>1. IsTotal({p \in S \X S : Before(p[1], p[2])}, S)
    BY <1>2, BeforeIsTotal
  <2>2. \A m, n \in S : <<m, n>> \in {p \in S \X S : Before(p[1], p[2])} <=> Before(m, n)
    OBVIOUS
  <2> QED
    BY <2>1, <2>2 DEF IsTotal
<1>5. /\ \A m \in S : ~ScheduledBefore(m, m)
      /\ \A m, n, k \in S : ScheduledBefore(m, n) /\ ScheduledBefore(n, k) => ScheduledBefore(m, k)
      /\ \A m, n \in S : m # n => ScheduledBefore(m, n) \/ ScheduledBefore(n, m)
  BY <1>2, <1>4 DEF ScheduledBefore
<1>6. IsTotal({p \in S \X S : ScheduledBefore(p[1], p[2])}, S)
  BY <1>1, <1>5 DEF IsTotal
<1> QED
  BY <1>2, <1>3, <1>6 DEF S

LEMMA QueueIsSorted ==
  ASSUME InOrder, NEW mat, NEW but
  PROVE  LET n == Cardinality(QueueOf(mat, but))
         IN  /\ n \in Nat /\ Queue(mat, but) \in [1..n -> QueueOf(mat, but)]
             /\ \A i, j \in 1..n : i < j => Before(Queue(mat, but)[i], Queue(mat, but)[j])
             /\ \A m \in QueueOf(mat, but) : \E i \in 1..n : Queue(mat, but)[i] = m
<1> DEFINE S == QueueOf(mat, but)
           n == Cardinality(S)
           R == {p \in S \X S : Before(p[1], p[2])}
           list == Queue(mat, but)
<1>1. IsTotal(R, S) /\ IsFiniteSet(S)
  <2>1. S \in SUBSET DOMAIN match
    BY DEF QueueOf
  <2> HIDE DEF S
  <2> QED
    BY <2>1, BeforeIsTotal, FS_Subset DEF InOrder
<1>2. list = [i \in 1..n |-> CHOOSE m \in S : Cardinality({k \in S : Before(k, m)}) = i - 1]
  BY DEF Queue, QueueOf, Sorted
<1>3. \A m \in S : {k \in S : Before(k, m)} = GoingBefore(R, S, m)
  BY DEF GoingBefore
<1>4. \A m, k \in S : <<m, k>> \in R <=> Before(m, k)
  OBVIOUS
<1> HIDE DEF S, R
<1>5. n \in Nat /\ \A i \in 1..n : \E m \in S : Cardinality(GoingBefore(R, S, m)) = i - 1
  BY <1>1, PlacesInOrder
<1> HIDE DEF n, list
<1>6. ASSUME NEW i \in 1..n
      PROVE  list[i] \in S /\ Cardinality(GoingBefore(R, S, list[i])) = i - 1
  <2>1. list[i] = CHOOSE m \in S : Cardinality({k \in S : Before(k, m)}) = i - 1
    BY <1>2
  <2>2. \E m \in S : Cardinality({k \in S : Before(k, m)}) = i - 1
    BY <1>3, <1>5
  <2>3. list[i] \in S /\ Cardinality({k \in S : Before(k, list[i])}) = i - 1
    BY <2>1, <2>2
  <2> QED
    BY <1>3, <2>3
<1>7. list \in [1..n -> S]
  BY <1>2, <1>6
<1>8. /\ \A i, j \in 1..n : i < j => <<list[i], list[j]>> \in R
      /\ \A m \in S : \E i \in 1..n : list[i] = m
  <2>1. InPlace(list, R, S)
    BY <1>6, <1>7 DEF n, InPlace
  <2>2. /\ \A i, j \in 1..Cardinality(S) : i < j => <<list[i], list[j]>> \in R
        /\ \A m \in S : \E i \in 1..Cardinality(S) : list[i] = m
    BY <1>1, <2>1, SortedByPlace
  <2> QED
    BY <2>2 DEF n
<1>9. \A i, j \in 1..n : i < j => Before(list[i], list[j])
  BY <1>4, <1>7, <1>8
<1> QED
  BY <1>5, <1>7, <1>8, <1>9 DEF S, n, list

(* The forecast of a match that waits: none for the first of its mat, some *)
(* for the others, more for the later ones.                                *)
ForecastsFit ==
  \A m \in DOMAIN match : match[m].status = "SCHEDULED" /\ Ready(m) =>
    \A k \in OnSchedule(match[m].mat) :
      /\ ScheduledBefore(k, m) => Eta(m) # 0
      /\ ScheduledBefore(k, m) /\ match[k].status = "SCHEDULED" => Eta(k) < Eta(m)
      /\ (\A other \in OnSchedule(match[m].mat) \ {m} : ScheduledBefore(m, other)) => Eta(m) = 0

LEMMA OrderForecasts == InOrder => ForecastsFit
<1> SUFFICES ASSUME InOrder, NEW m \in DOMAIN match, match[m].status = "SCHEDULED", Ready(m),
                    NEW k \in OnSchedule(match[m].mat)
             PROVE  /\ ScheduledBefore(k, m) => Eta(m) # 0
                    /\ ScheduledBefore(k, m) /\ match[k].status = "SCHEDULED" => Eta(k) < Eta(m)
                    /\ (\A other \in OnSchedule(match[m].mat) \ {m} : ScheduledBefore(m, other))
                         => Eta(m) = 0
  BY DEF ForecastsFit
<1> DEFINE mat == match[m].mat
           S == OnSchedule(mat)
           R == {p \in S \X S : ScheduledBefore(p[1], p[2])}
           place == [x \in S |-> Cardinality(GoingBefore(R, S, x))]
<1>1. /\ IsTotal(R, S) /\ IsFiniteSet(S)
      /\ \A x \in S : match[x].mat = mat /\ match[x].status \in {"SCHEDULED", "ACTIVE"}
  BY ScheduleIsTotal
<1>2. \A x, y \in S : <<x, y>> \in R <=> ScheduledBefore(x, y)
  OBVIOUS
<1>3. m \in S /\ k \in S
  BY DEF OnSchedule
<1>4. ASSUME NEW x \in S, match[x].status = "SCHEDULED" PROVE Eta(x) = place[x]
  <2>1. {y \in S : ScheduledBefore(y, x)} = GoingBefore(R, S, x)
    BY DEF GoingBefore
  <2>2. Eta(x) = Cardinality({y \in S : ScheduledBefore(y, x)})
    BY <1>1, <1>4 DEF Eta
  <2> QED
    BY <2>1, <2>2
<1>5. \A x \in S : place[x] = Cardinality(GoingBefore(R, S, x))
  OBVIOUS
<1> HIDE DEF S, R, place, mat
<1>6. /\ Cardinality(S) \in Nat
      /\ \A x \in S : place[x] \in 0..(Cardinality(S) - 1)
      /\ \A x, y \in S : <<x, y>> \in R <=> place[x] < place[y]
      /\ \A i \in 1..Cardinality(S) : \E x \in S : place[x] = i - 1
  BY <1>1, <1>5, PlacesInOrder
<1>7. ASSUME \A other \in S \ {m} : ScheduledBefore(m, other) PROVE place[m] = 0
  <2>1. Cardinality(S) # 0
    BY <1>3, <1>6
  <2>2. PICK x \in S : place[x] = 0
    BY <1>6, <2>1
  <2>3. ASSUME x # m PROVE FALSE
    <3>1. <<m, x>> \in R
      BY <1>2, <1>3, <1>7, <2>3
    <3>2. place[m] < place[x] /\ place[m] \in 0..(Cardinality(S) - 1)
      BY <1>3, <1>6, <3>1
    <3> QED
      BY <1>6, <2>2, <3>2
  <2> QED
    BY <2>2, <2>3
<1>8. ASSUME ScheduledBefore(k, m)
      PROVE  place[k] < place[m] /\ place[k] \in 0..(Cardinality(S) - 1) /\ place[m] \in Int
  <2>1. <<k, m>> \in R
    BY <1>2, <1>3, <1>8
  <2> QED
    BY <1>3, <1>6, <2>1
<1>9. Eta(m) = place[m] /\ (match[k].status = "SCHEDULED" => Eta(k) = place[k])
  BY <1>3, <1>4
<1>10. ScheduledBefore(k, m) => Eta(m) # 0
  BY <1>6, <1>8, <1>9
<1> QED
  BY <1>7, <1>8, <1>9, <1>10 DEF S, mat

(* A match that is over was ended by EndMatch, by no other call.           *)
LEMMA OverByItsEnd ==
  ASSUME RowsInv, [Next]_vars, NEW m \in DOMAIN match, m \in DOMAIN match',
         match[m].status = "ACTIVE", match'[m].status = "COMPLETED", CallsInv
  PROVE  \E side : EndMatch(m, side)
<1>1. setting.handlers \subseteq Handlers
  BY HandlersOfSetting DEF CallsInv
<1>2. match' # match
  OBVIOUS
<1>3. ASSUME NEW h \in Handlers,
             Reads(h) \/ WriteWeight(h) \/ WriteCategory(h) \/ CreateMat(h)
      PROVE  FALSE
  BY <1>2, <1>3, ReadsFrame DEF WriteWeight, WriteCategory, CreateMat
<1>4. ASSUME NEW h \in Handlers, CreateCategories(h) PROVE FALSE
  BY <1>4, CreatedMatches
<1>5. ASSUME NEW h \in Handlers, CommitDraw(h) PROVE FALSE
  BY <1>5, MatchesDrawn, DrawnRows
<1>6. ASSUME NEW h \in Handlers, CommitMats(h) PROVE FALSE
  BY <1>6, MovedRows
<1>7. ASSUME \/ \E c \in DOMAIN competitor : ByOrganizer(c)
             \/ Activate
             \/ \E mat \in DOMAIN current, k \in DOMAIN match : AssignMatchToMat(mat, k)
             \/ UNCHANGED vars
      PROVE  FALSE
  BY <1>2, <1>7 DEF ByOrganizer, Activate, AssignMatchToMat, rows, vars
<1>8. ASSUME NEW mat, StartMatch(mat) PROVE FALSE
  <2>1. PICK n \in DOMAIN match : match' = [match EXCEPT ![n].status = "ACTIVE"]
    BY <1>8 DEF StartMatch
  <2>2. MatchColumns \subseteq DOMAIN match[n]
    BY DEF RowsInv
  <2> QED
    BY <2>1, <2>2 DEF MatchColumns
<1>9. ASSUME NEW k \in DOMAIN match, NEW side, EndMatch(k, side), k # m PROVE FALSE
  BY <1>9, EndIsFought
<1> QED
  BY <1>1, <1>3, <1>4, <1>5, <1>6, <1>7, <1>8, <1>9, StepsThereAre

(* The next of a mat goes before whatever else is in its queue.            *)
QueuesFit ==
  \A mat, but :
    /\ QueueOf(mat, but) = {} => NextOn(mat, but) = None
    /\ QueueOf(mat, but) # {} =>
         \E n \in QueueOf(mat, but) :
           NextOn(mat, but) = n /\ \A other \in QueueOf(mat, but) \ {n} : Before(n, other)

LEMMA QueuesAreSorted == InOrder => QueuesFit
<1> SUFFICES ASSUME InOrder, NEW mat, NEW but
             PROVE  /\ QueueOf(mat, but) = {} => NextOn(mat, but) = None
                    /\ QueueOf(mat, but) # {} =>
                         \E n \in QueueOf(mat, but) :
                           /\ NextOn(mat, but) = n
                           /\ \A other \in QueueOf(mat, but) \ {n} : Before(n, other)
  BY DEF QueuesFit
<1> DEFINE S == QueueOf(mat, but)
           n == Cardinality(S)
           queue == Queue(mat, but)
<1>1. /\ n \in Nat /\ queue \in [1..n -> S]
      /\ \A i, j \in 1..n : i < j => Before(queue[i], queue[j])
      /\ \A m \in S : \E i \in 1..n : queue[i] = m
  BY QueueIsSorted
<1>2. NextOn(mat, but) = IF queue = <<>> THEN None ELSE Head(queue)
  BY DEF NextOn
<1> HIDE DEF S, n, queue
<1>3. queue \in Seq(S) /\ Len(queue) = n
  BY <1>1
<1>4. CASE S = {}
  <2>1. queue = <<>>
    BY <1>3, <1>4
  <2> QED
    BY <1>2, <1>4, <2>1 DEF S
<1>5. CASE S # {}
  <2>1. n # 0 /\ 1 \in 1..n
    BY <1>1, <1>5
  <2>2. queue # <<>> /\ Head(queue) = queue[1]
    BY <1>1, <1>3, <2>1
  <2>3. NextOn(mat, but) = queue[1] /\ queue[1] \in S
    BY <1>1, <1>2, <2>1, <2>2
  <2>4. ASSUME NEW other \in S, other # queue[1] PROVE Before(queue[1], other)
    <3>1. PICK i \in 1..n : queue[i] = other
      BY <1>1
    <3>2. 1 < i
      <4>1. i # 1
        BY <2>4, <3>1
      <4> QED
        BY <1>1, <4>1
    <3> QED
      BY <1>1, <2>1, <3>1, <3>2
  <2> QED
    BY <2>3, <2>4 DEF S
<1> QED
  BY <1>4, <1>5

(* The list of the public schedule is the beginning of the queue.          *)
LEMMA UpNextIsQueue ==
  ASSUME InOrder, NEW mat, NEW m, current[mat] = m
  PROVE  LET queue == Queue(mat, m)
             n == Cardinality(QueueOf(mat, m))
         IN  /\ n \in Nat /\ DOMAIN UpNext(mat) \subseteq 1..n
             /\ \A i \in DOMAIN UpNext(mat) : i > 1 => i - 1 \in DOMAIN UpNext(mat)
             /\ \A i \in DOMAIN UpNext(mat) : UpNext(mat)[i] = queue[i]
             /\ QueueOf(mat, m) # {} => 1 \in DOMAIN UpNext(mat) /\ NextOn(mat, m) = queue[1]
<1> DEFINE queue == Queue(mat, m)
           n == Cardinality(QueueOf(mat, m))
           S == QueueOf(mat, m)
           shown == Min({8, Len(queue)})
<1>1. /\ n \in Nat /\ queue \in [1..n -> S]
      /\ \A x \in S : \E i \in 1..n : queue[i] = x
  BY QueueIsSorted
<1>2. UpNext(mat) = SubSeq(queue, 1, shown)
  BY DEF UpNext
<1>3. NextOn(mat, m) = IF queue = <<>> THEN None ELSE Head(queue)
  BY DEF NextOn
<1> HIDE DEF S, n, queue
<1>4. queue \in Seq(S) /\ Len(queue) = n
  BY <1>1
<1>5. shown = IF 8 <= n THEN 8 ELSE n
  <2>1. \A x, y \in Nat : Min({x, y}) = IF x <= y THEN x ELSE y
    BY DEF Min
  <2> QED
    BY <1>1, <1>4, <2>1
<1> HIDE DEF shown
<1>6. /\ DOMAIN UpNext(mat) = 1..shown
      /\ \A i \in 1..shown : UpNext(mat)[i] = queue[i]
  BY <1>1, <1>2, <1>4, <1>5
<1>7. ASSUME S # {} PROVE 1 \in 1..shown /\ NextOn(mat, m) = queue[1]
  <2>1. n # 0
    BY <1>1, <1>7
  <2>2. queue # <<>> /\ Head(queue) = queue[1]
    BY <1>1, <1>4, <2>1
  <2> QED
    BY <1>1, <1>3, <1>5, <2>1, <2>2
<1> QED
  BY <1>1, <1>5, <1>6, <1>7 DEF S, queue, n

(* The matches of a mat that the end of a match makes ready.               *)
WokenOn(mat, m) ==
  {n \in MatchesOf(match[m].category) :
     match[n].mat = mat /\ match[n].status = "SCHEDULED" /\ ~Ready(n) /\ Ready(n)'}

(* Whoever is in a match stays in it, and only matches of the same category*)
(* get competitors.                                                        *)
LEMMA StaysReady ==
  ASSUME RowsInv, NEW m \in DOMAIN match, NEW side, EndMatch(m, side), NEW n \in DOMAIN match
  PROVE  /\ Ready(n) => Ready(n)'
         /\ ~Ready(n) /\ Ready(n)' => n \in MatchesOf(match[m].category)
<1>1. match'[n].competitor = IF match[n].category = match[m].category
                             THEN Advanced(m, side, n) ELSE match[n].competitor
  BY EndIsFought
<1>2. match[m].competitor[side] # None
  BY DEF EndMatch
<1>3. ASSUME NEW s \in D!Sides, match[n].competitor[s] # None PROVE Advanced(m, side, n)[s] # None
  BY <1>2, <1>3 DEF Advanced
<1> QED
  BY <1>1, <1>3 DEF Ready, MatchesOf

LEMMA QueueAfterEnd ==
  ASSUME RowsInv, NEW m \in DOMAIN match, NEW side, EndMatch(m, side), NEW mat, mat # None
  PROVE  QueueOf(mat, m)' = QueueOf(mat, m) \cup WokenOn(mat, m)
<1>1. /\ DOMAIN match \subseteq DOMAIN match'
      /\ \A k \in DOMAIN match : match'[k].mat = match[k].mat
      /\ \A k \in DOMAIN match' \ DOMAIN match : match'[k].mat = None
  BY FoughtMatches
<1>2. \A k \in DOMAIN match \ {m} : match'[k].status = match[k].status
  BY EndIsFought
<1>3. m \notin WokenOn(mat, m)
  BY DEF WokenOn, EndMatch
<1>4. \A k \in DOMAIN match : /\ Ready(k) => Ready(k)'
                              /\ ~Ready(k) /\ Ready(k)' => k \in MatchesOf(match[m].category)
  BY StaysReady
<1>5. WokenOn(mat, m) \subseteq DOMAIN match
  BY DEF WokenOn, MatchesOf
<1>6. ASSUME NEW k \in DOMAIN match
      PROVE  k \in QueueOf(mat, m)' <=> k \in QueueOf(mat, m) \/ k \in WokenOn(mat, m)
  BY <1>1, <1>2, <1>3, <1>4, <1>6 DEF QueueOf, WokenOn
<1>7. QueueOf(mat, m)' \subseteq DOMAIN match /\ QueueOf(mat, m) \subseteq DOMAIN match
  BY <1>1 DEF QueueOf
<1> QED
  BY <1>5, <1>6, <1>7

FirstOf(next) == {next[i] : i \in DOMAIN next \cap {1}}

LEMMA EndGoesAsForecast ==
  ASSUME RowsInv, InOrder, ForecastsFit, QueuesFit, InOrder', ForecastsFit', QueuesFit',
         NEW m \in DOMAIN match, match[m].status = "ACTIVE", Ready(m),
         NEW side, EndMatch(m, side), NEW mat, mat = match[m].mat, mat # None, current[mat] = m
  PROVE  LET next == UpNext(mat)
             candidates == FirstOf(next) \cup WokenOn(mat, m)
             alone == \A n \in DOMAIN match \ {m} : match[n].mat = mat => match[n].status # "ACTIVE"
         IN  /\ MatStatusBadge(m) = "live"
             /\ \A i \in DOMAIN next : /\ EtaPill(next[i]) = "later"
                                       /\ i > 1 => Eta(next[i - 1]) < Eta(next[i])
             /\ candidates = {} => current'[mat] = None
             /\ candidates # {} =>
                  \E n \in candidates : /\ current'[mat] = n
                                        /\ \A other \in candidates \ {n} : Before(n, other)
                                        /\ alone => MatStatusBadge(n)' = "starting"
<1> DEFINE next == UpNext(mat)
           queue == Queue(mat, m)
           S == QueueOf(mat, m)
           k == Cardinality(S)
           woken == WokenOn(mat, m)
           candidates == FirstOf(next) \cup woken
<1>1. current'[mat] = NextOn(mat, m)'
  <2>1. mat \in DOMAIN current
    BY DEF InOrder, OnAMat
  <2>2. current' = [current EXCEPT ![mat] = NextOn(mat, m)']
    <3>1. \E to \in {match[m].mat} :
            current' = IF to # None /\ current[to] = m
                       THEN [current EXCEPT ![to] = NextOn(to, m)'] ELSE current
      BY DEF EndMatch
    <3> QED
      BY <3>1
  <2> QED
    BY <2>1, <2>2
<1>2. /\ k \in Nat /\ DOMAIN next \subseteq 1..k
      /\ \A i \in DOMAIN next : i > 1 => i - 1 \in DOMAIN next
      /\ \A i \in DOMAIN next : next[i] = queue[i]
      /\ S # {} => 1 \in DOMAIN next /\ NextOn(mat, m) = queue[1]
  BY UpNextIsQueue
<1>3. /\ queue \in [1..k -> S]
      /\ \A i, j \in 1..k : i < j => Before(queue[i], queue[j])
  BY QueueIsSorted
<1>4. \A n \in S : /\ n \in DOMAIN match /\ match[n].status = "SCHEDULED" /\ match[n].mat = mat
                   /\ n \in OnSchedule(mat) /\ n # m /\ Ready(n)
  BY DEF QueueOf, OnSchedule
<1>5. m \in OnSchedule(mat)
  BY DEF OnSchedule
<1>6. /\ DOMAIN match \subseteq DOMAIN match'
      /\ \A n \in DOMAIN match : /\ match'[n].mat = match[n].mat
                                 /\ match'[n].category = match[n].category
                                 /\ match'[n].status = IF n = m THEN "COMPLETED" ELSE match[n].status
      /\ \A n \in DOMAIN match' \ DOMAIN match : match'[n].mat = None
  BY FoughtMatches, EndIsFought
<1>7. QueueOf(mat, m)' = S \cup woken
  BY QueueAfterEnd
<1>8. \A n \in woken : n \in DOMAIN match
  BY DEF WokenOn, MatchesOf
<1>9. /\ S = {} => DOMAIN next = {}
      /\ S # {} => 1 \in DOMAIN next /\ next[1] = NextOn(mat, m)
  <2> HIDE DEF S, next, queue
  <2>1. ASSUME S = {} PROVE k = 0
    BY <2>1, FS_EmptySet
  <2> HIDE DEF k
  <2>2. ASSUME S = {} PROVE DOMAIN next = {}
    <3>1. 1..k = {}
      BY <2>1, <2>2
    <3> QED
      BY <1>2, <3>1
  <2>3. ASSUME S # {} PROVE 1 \in DOMAIN next /\ next[1] = NextOn(mat, m)
    BY <1>2, <2>3
  <2> QED
    BY <2>2, <2>3
<1>10. /\ S # {} => /\ next[1] \in S
                    /\ \A other \in S \ {next[1]} : Before(next[1], other)
  BY <1>9 DEF QueuesFit
<1>11. /\ S \cup woken = {} => NextOn(mat, m)' = None
       /\ S \cup woken # {} =>
            \E n \in S \cup woken :
              NextOn(mat, m)' = n /\ \A other \in (S \cup woken) \ {n} : Before(n, other)'
  BY <1>7 DEF QueuesFit
<1>12. FirstOf(next) = IF S = {} THEN {} ELSE {next[1]}
  <2> HIDE DEF S, next
  <2> QED
    BY <1>9 DEF FirstOf
<1>13. \A x, y \in DOMAIN match : Before(x, y)' <=> Before(x, y)
  BY <1>6 DEF Before
<1>14. \A x \in S \cup woken : x \in DOMAIN match
  BY <1>4, <1>8
<1>15. \A x, y \in DOMAIN match : Before(x, y) => ~Before(y, x)
  BY DEF Before, InOrder
<1> HIDE DEF next, queue, S, k, woken
<1>16. MatStatusBadge(m) = "live"
  BY DEF MatStatusBadge, EtaPill
<1>17. ASSUME NEW i \in DOMAIN next PROVE EtaPill(next[i]) = "later"
  <2>1. next[i] \in S
    BY <1>2, <1>3
  <2>2. ScheduledBefore(m, next[i])
    BY <1>4, <2>1 DEF ScheduledBefore
  <2>3. Eta(next[i]) # 0
    BY <1>4, <1>5, <2>1, <2>2 DEF ForecastsFit
  <2> QED
    BY <1>4, <2>1, <2>3 DEF EtaPill, FormatEta
<1>18. ASSUME NEW i \in DOMAIN next, i > 1 PROVE Eta(next[i - 1]) < Eta(next[i])
  <2>1. i - 1 \in DOMAIN next /\ i \in 1..k /\ i - 1 \in 1..k /\ i - 1 < i
    BY <1>2, <1>18
  <2>2. next[i - 1] \in S /\ next[i] \in S /\ Before(next[i - 1], next[i])
    BY <1>2, <1>3, <2>1
  <2>3. ScheduledBefore(next[i - 1], next[i])
    BY <1>4, <2>2 DEF ScheduledBefore
  <2> QED
    BY <1>4, <2>2, <2>3 DEF ForecastsFit
<1>19. candidates \subseteq S \cup woken /\ (candidates = {} => S \cup woken = {})
  BY <1>10, <1>12
<1>20. candidates = {} => current'[mat] = None
  BY <1>1, <1>11, <1>19
<1>21. ASSUME candidates # {}
       PROVE  \E n \in candidates :
                /\ current'[mat] = n /\ n \in QueueOf(mat, m)'
                /\ \A other \in candidates \ {n} : Before(n, other)
                /\ \A other \in QueueOf(mat, m)' \ {n} : Before(n, other)'
  <2>1. PICK n \in S \cup woken :
          /\ NextOn(mat, m)' = n /\ \A other \in (S \cup woken) \ {n} : Before(n, other)'
    BY <1>11, <1>19, <1>21
  <2>2. \A other \in (S \cup woken) \ {n} : Before(n, other)
    BY <1>13, <1>14, <2>1
  <2>3. n \in candidates
    <3>1. CASE n \in woken
      BY <3>1
    <3>2. CASE n \in S
      <4>1. n = next[1]
        BY <1>10, <1>14, <1>15, <2>2, <3>2
      <4> QED
        BY <1>12, <3>2, <4>1
    <3> QED
      BY <3>1, <3>2
  <2> QED
    BY <1>1, <1>7, <1>19, <2>1, <2>2, <2>3
<1>22. ASSUME \A n \in DOMAIN match \ {m} : match[n].mat = mat => match[n].status # "ACTIVE",
              NEW n \in QueueOf(mat, m)',
              \A other \in QueueOf(mat, m)' \ {n} : Before(n, other)'
       PROVE  MatStatusBadge(n)' = "starting"
  <2>1. n \in DOMAIN match' /\ match'[n].status = "SCHEDULED" /\ match'[n].mat = mat /\ Ready(n)'
    BY DEF QueueOf
  <2>2. n \in OnSchedule(match[n].mat)'
    BY <2>1 DEF OnSchedule
  <2>3. ASSUME NEW other \in OnSchedule(match[n].mat)' \ {n} PROVE ScheduledBefore(n, other)'
    <3>1. /\ other \in DOMAIN match' /\ match'[other].mat = mat /\ match'[other].status # "COMPLETED"
          /\ Ready(other)'
      BY <2>1 DEF OnSchedule
    <3>2. /\ other \in DOMAIN match /\ other # m
          /\ match[other].mat = mat /\ match[other].status = match'[other].status
      BY <1>6, <3>1
    <3>3. match'[other].status = "SCHEDULED"
      BY <1>22, <3>1, <3>2 DEF InOrder, Statuses
    <3>4. other \in QueueOf(mat, m)'
      BY <3>1, <3>2, <3>3 DEF QueueOf
    <3>5. Before(n, other)'
      BY <1>22, <2>3, <3>4
    <3> QED
      BY <2>1, <3>3, <3>5 DEF ScheduledBefore
  <2>4. Eta(n)' = 0
    BY <2>1, <2>2, <2>3 DEF ForecastsFit
  <2> QED
    BY <2>1, <2>4 DEF MatStatusBadge, EtaPill, FormatEta
<1>23. (\A n \in DOMAIN match \ {m} : match[n].mat = mat => match[n].status # "ACTIVE") /\ candidates # {} =>
         \E n \in candidates : /\ current'[mat] = n
                               /\ \A other \in candidates \ {n} : Before(n, other)
                               /\ MatStatusBadge(n)' = "starting"
  BY <1>21, <1>22
<1> QED
  BY <1>16, <1>17, <1>18, <1>20, <1>21, <1>23 DEF next, woken

(* When a match ends, its mat goes on to the match the schedule announces  *)
(* first or, when the end has made a match of the same category ready that *)
(* goes before it, to that; whatever calls have drawn and moved the matches*)
(* and in whatever order they are fought.  The queue, the schedule and the *)
(* public list are filtered and sorted alike.                              *)
THEOREM MatsCallAsForecast == Spec => CalledAsForecast
<1> DEFINE Inv == CallsInv /\ RowsInv /\ DrawsInv /\ EvenInv /\ PlacedInv
<1>1. Init => Inv
  BY InitCalls, InitRows, InitDraws, InitEven, InitPlaced
<1>2. Inv /\ [Next]_vars => Inv'
  BY StepCalls, StepRows, StepDraws, StepEven, StepPlaced
<1>3. Inv => InOrder /\ ForecastsFit /\ QueuesFit
  BY MatchesInOrder, OrderForecasts, QueuesAreSorted
<1>4. CallsInv /\ RowsInv /\ InOrder /\ ForecastsFit /\ QueuesFit
        /\ InOrder' /\ ForecastsFit' /\ QueuesFit' /\ [Next]_vars =>
        [\A m \in DOMAIN match \cap DOMAIN match' :
           LET mat == match[m].mat
               next == UpNext(mat)
               woken == {n \in MatchesOf(match[m].category) :
                           /\ match[n].mat = mat /\ match[n].status = "SCHEDULED"
                           /\ ~Ready(n) /\ Ready(n)'}
               candidates == {next[i] : i \in DOMAIN next \cap {1}} \cup woken
               alone == \A n \in DOMAIN match \ {m} : match[n].mat = mat => match[n].status # "ACTIVE"
           IN  match[m].status = "ACTIVE" /\ match'[m].status = "COMPLETED" /\ Ready(m)
                 /\ mat # None /\ current[mat] = m
               => /\ MatStatusBadge(m) = "live"
                  /\ \A i \in DOMAIN next : /\ EtaPill(next[i]) = "later"
                                            /\ i > 1 => Eta(next[i - 1]) < Eta(next[i])
                  /\ candidates = {} => current'[mat] = None
                  /\ candidates # {} =>
                       \E n \in candidates : /\ current'[mat] = n
                                             /\ \A other \in candidates \ {n} : Before(n, other)
                                             /\ alone => MatStatusBadge(n)' = "starting"]_vars
  <2> SUFFICES ASSUME CallsInv, RowsInv, InOrder, ForecastsFit, QueuesFit,
                      InOrder', ForecastsFit', QueuesFit', [Next]_vars,
                      NEW m \in DOMAIN match, m \in DOMAIN match',
                      match[m].status = "ACTIVE", match'[m].status = "COMPLETED", Ready(m),
                      match[m].mat # None, current[match[m].mat] = m
               PROVE  LET mat == match[m].mat
                          next == UpNext(mat)
                          candidates == FirstOf(next) \cup WokenOn(mat, m)
                          alone == \A n \in DOMAIN match \ {m} :
                                     match[n].mat = mat => match[n].status # "ACTIVE"
                      IN  /\ MatStatusBadge(m) = "live"
                          /\ \A i \in DOMAIN next : /\ EtaPill(next[i]) = "later"
                                                    /\ i > 1 => Eta(next[i - 1]) < Eta(next[i])
                          /\ candidates = {} => current'[mat] = None
                          /\ candidates # {} =>
                               \E n \in candidates :
                                 /\ current'[mat] = n
                                 /\ \A other \in candidates \ {n} : Before(n, other)
                                 /\ alone => MatStatusBadge(n)' = "starting"
    BY DEF FirstOf, WokenOn
  <2>1. PICK side : EndMatch(m, side)
    BY OverByItsEnd
  <2>2. PICK mat : mat = match[m].mat
    OBVIOUS
  <2> QED
    BY <2>1, <2>2, EndGoesAsForecast
<1> HIDE DEF Inv
<1>5. Spec => []Inv
  BY <1>1, <1>2, PTL DEF Spec
<1>6. Inv => CallsInv /\ RowsInv
  BY DEF Inv
<1> QED
  BY <1>3, <1>4, <1>5, <1>6, PTL DEF Spec, CalledAsForecast
=============================================================================
