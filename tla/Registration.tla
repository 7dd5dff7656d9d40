---------------------------- MODULE Registration ----------------------------
(***************************************************************************)
(* A competition until its categories are generated: registration by       *)
(* competitors, coaches and organizers, the persistent athletes behind it, *)
(* withdrawals, the weigh-in and the status of the competition.            *)
(*                                                                         *)
(* Calls overlap: each is split where it awaits the database between what  *)
(* it reads and what it writes.  The transaction of register is            *)
(* SERIALIZABLE: it reads one snapshot, and of two overlapping ones that   *)
(* each read what the other writes PostgreSQL lets one commit.             *)
(***************************************************************************)
EXTENDS WeighInPage, FiniteSets

CONSTANTS
  Forms,           \* what registrants send; "person" is who they really are
  Date,            \* the day of the competition
  Handlers,        \* calls in flight at the same time
  Settings,        \* the settings a behaviour starts from, one of them each
  MaxCompetitors   \* bound: registrations in the competition

(* What RegisterCompetitorDto and UpdateWeightDto let through: 1 to 500 kg. *)
Weights == 10..5000

MaybeWeight == Weights \cup {None}

(* A cap of 0 is stored as none.                                           *)
MaybeCap == (Nat \ {0}) \cup {None}

Dates == {day \in Int \X Int \X Int : day[2] \in 1..12 /\ day[3] \in 1..DaysIn(day[1], day[2])}

AthleteRow == [email : STRING \cup {None}, licence : STRING \cup {None}]

(* The bounds of a setting: how many calls overlap, the athletes known     *)
(* from earlier competitions, the cap and what it may be set to, what the  *)
(* weigh-in may find, the forms sent, and the zone of the pages: whether   *)
(* they read a day as the server does, as the one before or the one after. *)
ASSUME RegistrationTypes ==
  /\ None \notin Int /\ None \notin STRING /\ None \notin Forms
  /\ MaxCompetitors \in Nat /\ Date \in Dates
  /\ \A f \in Forms : /\ f.email \in STRING /\ f.licence \in STRING /\ f.birth \in Dates
                      /\ f.gender \in {"MALE", "FEMALE"} /\ f.weight \in MaybeWeight
                      /\ f.coach \in BOOLEAN
  /\ \A s \in Settings : /\ s.handlers \subseteq Handlers /\ s.forms \subseteq Forms
                         /\ s.athletes \in Seq(AthleteRow)
                         /\ s.cap \in MaybeCap /\ s.caps \subseteq MaybeCap
                         /\ s.weights \subseteq Weights /\ s.zone \in Zones

VARIABLES
  setting,
  status,       \* Competition.status
  cap,          \* Competition.maxEntriesPerCategory
  competitor,   \* the rows of Competitor, in the order of their creation
  athlete,      \* the rows of Athlete
  pc,           \* the next step of a call
  call,
  ceiling,      \* history: the largest cap there has been, None after a time without
  overtaken     \* history: the calls whose competitor another one weighed since the
                \* page read its list, and before the server read the row

competition == <<status, cap>>
history == <<ceiling, overtaken>>
vars == <<setting, competition, competitor, athlete, pc, call, history>>

NoCall == [form |-> None, cap |-> None, found |-> None, doomed |-> FALSE,
           competitor |-> 0, weight |-> None, status |-> None,
           previous |-> None, shown |-> None]

Init ==
  /\ setting \in Settings
  /\ status = "DRAFT"
  /\ cap = setting.cap
  /\ competitor = <<>>
  /\ athlete = setting.athletes
  /\ pc = [h \in Handlers |-> "idle"]
  /\ call = [h \in Handlers |-> NoCall]
  /\ ceiling = setting.cap
  /\ overtaken = {}

Goto(h, where, c) == pc' = [pc EXCEPT ![h] = where] /\ call' = [call EXCEPT ![h] = c]

Return(h) == Goto(h, "idle", NoCall)

-----------------------------------------------------------------------------
(* findOrCreateForRegistration *)

(* A blank email or licence number is none.                                *)
Key(text) == IF text = "" THEN None ELSE text

With(row, key, value) == {i \in DOMAIN athlete : value # None /\ athlete[i][key] = value}

(* The athlete with the email, else the one with the licence number, each  *)
(* given the key it lacks; else a new one.                                 *)
FindOrCreate(f) ==
  LET email == Key(f.email)
      licence == Key(f.licence)
      byEmail == With(athlete, "email", email)
      byLicence == With(athlete, "licence", licence)
      found(i, key, value) ==
        [id |-> i, before |-> athlete[i],
         row |-> IF athlete[i][key] = None THEN [athlete[i] EXCEPT ![key] = value] ELSE athlete[i]]
  IN  CASE byEmail # {}   -> found(CHOOSE i \in byEmail : TRUE, "licence", licence)
        [] byEmail = {} /\ byLicence # {} -> found(CHOOSE i \in byLicence : TRUE, "email", email)
        [] OTHER -> [id |-> 0, before |-> None, row |-> [email |-> email, licence |-> licence]]

Keys == {"email", "licence"}

(* Athlete.email and Athlete.licenseNumber are unique.                     *)
KeysAreFree(found) ==
  \A i \in DOMAIN athlete \ {found.id}, key \in Keys :
    found.row[key] = None \/ athlete[i][key] # found.row[key]

(* A row that is written has free keys, and has not been written since.    *)
Writable(found) ==
  found.id = 0 \/ found.row # found.before =>
    KeysAreFree(found) /\ (found.id # 0 => athlete[found.id] = found.before)

-----------------------------------------------------------------------------
(* register *)

Entrant(f) == [birth |-> f.birth, gender |-> f.gender, weight |-> f.weight]

(* The projected class of a row, from the weight it has now.               *)
RowClass(row) == ClassOf([Entrant(row.form) EXCEPT !.weight = row.weight], Date)

(* countCompetitorsInProjectedClass *)
InClass(class) == {i \in DOMAIN competitor : competitor[i].status # "WITHDRAWN"
                                             /\ RowClass(competitor[i]) = class}

(* The registration page and the modal of the weigh-in announce the class  *)
(* before they send the weight.                                            *)
FormShows(f) == [from |-> None, class |-> Preview(Entrant(f), Date, setting.zone)]

(* The class the row had in the list, which the server put there, and the  *)
(* one of the weight entered.                                              *)
ModalShows(row, weight) ==
  [from  |-> RowClass(row),
   class |-> Preview([Entrant(row.form) EXCEPT !.weight = weight], Date, setting.zone)]

Register(h, f) ==
  /\ pc[h] = "idle" /\ status = "REGISTRATION"
  /\ Goto(h, IF f.email = "" THEN "begin" ELSE "email",
          [NoCall EXCEPT !.form = f, !.cap = cap, !.shown = FormShows(f)])
  /\ UNCHANGED <<setting, competition, competitor, athlete, history>>

EmailTaken(email) == \E i \in DOMAIN competitor : competitor[i].form.email = email

(* Whoever has registered with the email, also if withdrawn since.  Two    *)
(* calls that both look before either has written both go on.              *)
FindEmail(h) ==
  /\ pc[h] = "email"
  /\ IF EmailTaken(call[h].form.email) THEN Return(h) ELSE Goto(h, "begin", call[h])
  /\ UNCHANGED <<setting, competition, competitor, athlete, history>>

(* The cap is looked at when there is one and the registrant has a class.  *)
Capped(c) == c.cap # None /\ ClassOf(Entrant(c.form), Date) # None

Full(c) == Capped(c) /\ Cardinality(InClass(ClassOf(Entrant(c.form), Date))) >= c.cap

(* The transaction reads its snapshot: it is refused at capacity.          *)
ReadClassAndAthlete(h) ==
  /\ pc[h] = "begin"
  /\ IF Full(call[h]) THEN Return(h)
     ELSE Goto(h, "commit", [call[h] EXCEPT !.found = FindOrCreate(call[h].form)])
  /\ UNCHANGED <<setting, competition, competitor, athlete, history>>

(* Mutant of ReadEachOther: READ COMMITTED, the default isolation.         *)
NobodyIsDoomed(c, d) == FALSE

(* Each of the two transactions has read the class list the other adds to: *)
(* the later one fails.                                                    *)
ReadEachOther(c, d) == Capped(c) /\ Capped(d) /\ c.form.gender = d.form.gender

NewRow(f, i) ==
  [form |-> f, weight |-> f.weight, athlete |-> i, status |-> "REGISTERED",
   category |-> None, moved |-> FALSE]

(* Athlete and competitor are written together, unless a unique key or the *)
(* row of the athlete has been written by another since.                   *)
CreateCompetitor(h) ==
  LET c == call[h]
      found == c.found
      id == IF found.id = 0 THEN Len(athlete) + 1 ELSE found.id
  IN  /\ pc[h] = "commit" /\ ~c.doomed /\ Len(competitor) < MaxCompetitors
      /\ Writable(found)
      /\ athlete' = IF found.id = 0 THEN Append(athlete, found.row)
                    ELSE IF found.row = found.before THEN athlete
                    ELSE [athlete EXCEPT ![id] = found.row]
      /\ competitor' = Append(competitor, NewRow(c.form, id))
      /\ pc' = [pc EXCEPT ![h] = "idle"]
      /\ call' = [g \in Handlers |->
                    IF g = h THEN NoCall
                    ELSE IF pc[g] = "commit" /\ ReadEachOther(call[g], c)
                    THEN [call[g] EXCEPT !.doomed = TRUE] ELSE call[g]]
      /\ UNCHANGED <<setting, competition, history>>

(* Mutant of Rollback: the athlete was created outside the transaction.    *)
RollbackCompetitorOnly(h) ==
  /\ pc[h] = "commit"
  /\ athlete' = IF call[h].found.id = 0 /\ KeysAreFree(call[h].found)
                THEN Append(athlete, call[h].found.row) ELSE athlete
  /\ Return(h)
  /\ UNCHANGED <<setting, competition, competitor, history>>

(* A unique key, a serialization failure or any other error: nothing is    *)
(* written.                                                                *)
Rollback(h) ==
  /\ pc[h] = "commit"
  /\ Return(h)
  /\ UNCHANGED <<setting, competition, competitor, athlete, history>>

-----------------------------------------------------------------------------
(* Withdrawals, weigh-in and status.  No category has been generated yet,  *)
(* so that no match can stop a weigh-in.                                   *)

Write(i, row) == competitor' = [competitor EXCEPT ![i] = row]

WithdrawAsCoach(h, i) ==
  /\ pc[h] = "idle" /\ status = "REGISTRATION" /\ competitor[i].form.coach
  /\ Goto(h, "withdraw", [NoCall EXCEPT !.competitor = i])
  /\ UNCHANGED <<setting, competition, competitor, athlete, history>>

WriteWithdrawal(h) ==
  LET i == call[h].competitor
  IN  /\ pc[h] = "withdraw"
      /\ Write(i, Withdrawn(competitor[i]))
      /\ Return(h)
      /\ UNCHANGED <<setting, competition, athlete, history>>

(* A page reads its list of competitors.  Its modal shows what the row was *)
(* then, and the organizer confirms what it announces for a weight, however*)
(* long after.                                                             *)
ReadList(h, i, weight) ==
  /\ pc[h] = "idle"
  /\ Goto(h, "modal", [NoCall EXCEPT !.competitor = i, !.weight = weight,
                                     !.shown = ModalShows(competitor[i], weight)])
  /\ overtaken' = overtaken \ {h}
  /\ UNCHANGED <<setting, competition, competitor, athlete, ceiling>>

(* The server reads the row itself, with the status; it writes the weight  *)
(* whatever has become of either since.                                    *)
RecordWeight(h) ==
  /\ pc[h] = "modal"
  /\ IF status = "WEIGH_IN"
     THEN Goto(h, "recordWeight",
               [call[h] EXCEPT !.previous = RowClass(competitor[call[h].competitor])])
     ELSE Return(h)
  /\ UNCHANGED <<setting, competition, competitor, athlete, history>>

(* The weight edited in the list: nothing is announced.                    *)
UpdateWeight(h, i, weight) ==
  /\ pc[h] = "idle" /\ status = "WEIGH_IN"
  /\ Goto(h, "updateWeight", [NoCall EXCEPT !.competitor = i, !.weight = weight])
  /\ UNCHANGED <<setting, competition, competitor, athlete, history>>

WriteWeight(h) ==
  LET i == call[h].competitor
      row == [competitor[i] EXCEPT !.moved = TRUE]
      weight == call[h].weight
  IN  /\ pc[h] \in {"recordWeight", "updateWeight"}
      /\ Write(i, IF pc[h] = "recordWeight" THEN WeighedIn(row, weight) ELSE Reweighed(row, weight))
      /\ Return(h)
      /\ overtaken' = overtaken \cup {g \in Handlers : pc[g] = "modal" /\ call[g].competitor = i}
      /\ UNCHANGED <<setting, competition, athlete, ceiling>>

(* withdraw, disqualify and updateStatus look at nothing but who owns the  *)
(* competition.                                                            *)
ByOrganizer(i) ==
  LET row == competitor[i]
  IN  /\ \/ Write(i, Withdrawn(row))
         \/ Write(i, Disqualified(row))
         \/ \E s \in RegistrationStatuses :
              Write(i, WithStatus([row EXCEPT !.moved = @ \/ row.status = "WITHDRAWN"], s))
      /\ UNCHANGED <<setting, competition, athlete, pc, call, history>>

(* update reads the status and writes the one it allows.                   *)
Update(h) ==
  /\ pc[h] = "idle" /\ NextStatus(status) \in {"REGISTRATION", "WEIGH_IN"}
  /\ Goto(h, "update", [NoCall EXCEPT !.status = NextStatus(status)])
  /\ UNCHANGED <<setting, competition, competitor, athlete, history>>

WriteStatus(h) ==
  /\ pc[h] = "update"
  /\ status' = call[h].status
  /\ Return(h)
  /\ UNCHANGED <<setting, cap, competitor, athlete, history>>

(* The cap is introduced, changed or cleared.                              *)
UpdateCap(n) ==
  /\ cap' = n
  /\ ceiling' = IF n = None \/ ceiling = None THEN None ELSE IF n > ceiling THEN n ELSE ceiling
  /\ UNCHANGED <<setting, status, competitor, athlete, pc, call, overtaken>>

-----------------------------------------------------------------------------
Next ==
  \/ \E h \in setting.handlers :
       \/ \E f \in setting.forms : Register(h, f)
       \/ FindEmail(h) \/ ReadClassAndAthlete(h) \/ CreateCompetitor(h) \/ Rollback(h)
       \/ Update(h) \/ WriteStatus(h)
       \/ \E i \in DOMAIN competitor :
            \/ WithdrawAsCoach(h, i)
            \/ \E w \in setting.weights : ReadList(h, i, w) \/ UpdateWeight(h, i, w)
       \/ RecordWeight(h) \/ WriteWithdrawal(h) \/ WriteWeight(h)
  \/ setting.byOrganizer /\ \E i \in DOMAIN competitor : ByOrganizer(i)
  \/ \E n \in setting.caps : UpdateCap(n)

Spec == Init /\ [][Next]_vars

-----------------------------------------------------------------------------
(* Properties *)

(* However registrations overlap, and whoever withdraws meanwhile, a class *)
(* never has more registered competitors than the largest cap allowed, if  *)
(* there always was one; left out are those the organizer weighed or       *)
(* reinstated, whose cap nobody looks at.                                  *)
ClassWithinCap ==
  ceiling # None =>
    \A i \in DOMAIN competitor :
      LET class == RowClass(competitor[i])
      IN  class # None =>
            Cardinality({j \in InClass(class) : ~competitor[j].moved}) <= ceiling

(* Registrations that share an email or a licence number are one athlete,  *)
(* and no athlete is made of two persons, those without either included.   *)
AthleteIsOnePerson ==
  \A i, j \in DOMAIN competitor :
    LET c == competitor[i]
        d == competitor[j]
    IN  /\ (\E k \in Keys : Key(c.form[k]) # None /\ c.form[k] = d.form[k])
             => c.athlete = d.athlete
        /\ c.athlete = d.athlete => c.form.person = d.form.person

(* A known athlete is one registrant: whoever has one of its keys has the  *)
(* other, and nobody else has.                                             *)
OfOnePerson(row) ==
  \A f, g \in Forms, k, l \in Keys :
    f[k] # "" /\ row[k] = f[k] /\ g[l] # "" /\ row[l] # None =>
      (row[l] = g[l] <=> f.person = g.person)

(* What AthleteIsOnePerson takes for granted of those who register: they   *)
(* share neither email nor licence number, and give them as they did       *)
(* before, if at all.                                                      *)
OneIdentity ==
  /\ \A f, g \in Forms, k \in Keys :
       f[k] # "" /\ g[k] # "" => (f[k] = g[k] <=> f.person = g.person)
  /\ \A s \in Settings : \A i, j \in DOMAIN s.athletes :
       /\ OfOnePerson(s.athletes[i])
       /\ i # j => \A k \in Keys : s.athletes[i][k] = None \/ s.athletes[j][k] # s.athletes[i][k]

(* A registration that fails anywhere leaves no athlete behind: each has   *)
(* been registered, here or before.                                        *)
NoAthleteWithoutEntry ==
  \A i \in DOMAIN athlete :
    i > Len(setting.athletes) => \E j \in DOMAIN competitor : competitor[j].athlete = i

(* Every competitor with a weight is in one class and no other, also at    *)
(* the limit of two.                                                       *)
OneClassEach ==
  \A i \in DOMAIN competitor :
    LET c == competitor[i]
        group == AgeGroup(c.form.birth, Date)
        classes == DOMAIN Limits(c.form.gender, group)
    IN  c.weight # None =>
          Cardinality({k \in classes : Admits(WeightClass(c.form.gender, group, k), c.weight)}) = 1

(* Around 1 March the same days may be a year apart in one zone and not in *)
(* another, as the day before is sometimes the 29th of February.           *)
ReadAlike(birth) ==
  setting.zone = 0 \/ (~FirstOfMarch(birth) /\ ~FirstOfMarch(Local(birth, setting.zone)))

(* A call that is answered has put the competitor in the class its page    *)
(* announced.                                                              *)
AsAnnounced(h) ==
  LET c == call[h]
      weighed == pc[h] = "recordWeight" /\ pc'[h] = "idle"
      registered == pc[h] = "commit" /\ Len(competitor') > Len(competitor) /\ pc'[h] = "idle"
      row == competitor'[IF weighed THEN c.competitor ELSE Len(competitor')]
  IN  (weighed \/ registered) /\ ReadAlike(row.form.birth) =>
        /\ RowClass(row) = c.shown.class
        /\ weighed /\ h \notin overtaken =>
             (Bumped(c.shown.from, c.shown.class) <=> Bumped(c.previous, RowClass(row)))

(* The class that a page announces is the one the competitor gets, although*)
(* the pages have their own tables and may read the dates in another zone: *)
(* by the registration page before, and by the weigh-in, whatever overlaps.*)
(* The modal announces a bump to another class if and only if the server   *)
(* reports one, unless another scale has weighed the same competitor since *)
(* the page read its list.                                                 *)
ClassAsAnnounced == [][\A h \in Handlers : AsAnnounced(h)]_vars

(* The athletes are the persons that have registered: nobody is two of     *)
(* them, none is two persons, and none is left by a call that failed.      *)
AthletesAreRegistrants == AthleteIsOnePerson /\ NoAthleteWithoutEntry

(* One class for a weight, and the one that was announced.                 *)
OneClassAsAnnounced == []OneClassEach /\ ClassAsAnnounced
=============================================================================
