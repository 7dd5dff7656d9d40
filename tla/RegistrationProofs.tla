------------------------- MODULE RegistrationProofs -------------------------
(***************************************************************************)
(* Proofs about Registration for every number of overlapping calls, all    *)
(* forms the server lets through and every cap.                            *)
(***************************************************************************)
EXTENDS Registration, SequenceTheorems, FiniteSetTheorems, TLAPS

Lemmas == INSTANCE DrawLemmas

-----------------------------------------------------------------------------
(* The tables of the weight classes: the server and the pages agree for    *)
(* every competitor, and a weight is in one class.                         *)

Genders == {"MALE", "FEMALE"}

AgeGroups == {"U13", "U15", "CADET", "JUNIOR", "SENIOR", "VETERAN"}

(* The limits of a table rise, up to the last, which opens the class of    *)
(* everybody above it and therefore comes twice.                           *)
Rising(limits) ==
  /\ limits \in Seq(1..998)
  /\ Len(limits) > 1 /\ limits[Len(limits)] = limits[Len(limits) - 1]
  /\ \A i, j \in 1..(Len(limits) - 1) : i < j => limits[i] < limits[j]

LEMMA LimitsRise ==
  ASSUME NEW gender, NEW ageGroup
  PROVE  Rising(Limits(gender, ageGroup))
<1>1. Rising(<<30, 34, 38, 42, 46, 50, 55, 55>>)
  BY DEF Rising
<1>2. Rising(<<38, 42, 46, 50, 55, 60, 66, 66>>)
  BY DEF Rising
<1>3. Rising(<<50, 55, 60, 66, 73, 81, 90, 90>>)
  BY DEF Rising
<1>4. Rising(<<55, 60, 66, 73, 81, 90, 100, 100>>)
  BY DEF Rising
<1>5. Rising(<<60, 66, 73, 81, 90, 100, 100>>)
  BY DEF Rising
<1>6. Rising(<<28, 32, 36, 40, 44, 48, 52, 52>>)
  BY DEF Rising
<1>7. Rising(<<36, 40, 44, 48, 52, 57, 63, 63>>)
  BY DEF Rising
<1>8. Rising(<<40, 44, 48, 52, 57, 63, 70, 70>>)
  BY DEF Rising
<1>9. Rising(<<44, 48, 52, 57, 63, 70, 78, 78>>)
  BY DEF Rising
<1>10. Rising(<<48, 52, 57, 63, 70, 78, 78>>)
  BY DEF Rising
<1> QED
  BY <1>1, <1>2, <1>3, <1>4, <1>5, <1>6, <1>7, <1>8, <1>9, <1>10, Zenon DEF Limits

-----------------------------------------------------------------------------
(* One class for a weight *)

Heaviest == 9990

Lower(limits, i) == IF i = 1 THEN 0 ELSE 10 * limits[i - 1]

Upper(limits, i) == IF i = Len(limits) THEN Heaviest ELSE 10 * limits[i]

Between(limits, weight) ==
  {i \in 1..Len(limits) : weight > Lower(limits, i) /\ weight <= Upper(limits, i)}

LEMMA RisingType ==
  ASSUME NEW limits, Rising(limits)
  PROVE  /\ Len(limits) \in Nat /\ Len(limits) > 1 /\ DOMAIN limits = 1..Len(limits)
         /\ \A i \in 1..Len(limits) : limits[i] \in Nat /\ limits[i] > 0 /\ limits[i] < 999
         /\ \A i \in 1..Len(limits) : Lower(limits, i) \in Nat /\ Upper(limits, i) \in Nat
<1>1. limits \in Seq(1..998)
  BY DEF Rising
<1>2. Len(limits) \in Nat /\ Len(limits) > 1 /\ DOMAIN limits = 1..Len(limits)
  BY <1>1 DEF Rising
<1>3. ASSUME NEW i \in 1..Len(limits)
      PROVE  /\ limits[i] \in Nat /\ limits[i] > 0 /\ limits[i] < 999
             /\ Lower(limits, i) \in Nat /\ Upper(limits, i) \in Nat
  <2> DEFINE kilos == 1..998
  <2>1. \A k \in 1..Len(limits) : limits[k] \in kilos
    <3>1. limits \in Seq(kilos)
      BY <1>1
    <3> HIDE DEF kilos
    <3> QED
      BY <3>1, ElementOfSeq
  <2>2. i # 1 => i - 1 \in 1..Len(limits)
    BY <1>2
  <2>3. i # 1 => limits[i - 1] \in 1..998
    BY <2>1, <2>2
  <2>4. Lower(limits, i) \in Nat
    <3> DEFINE limit == limits[i - 1]
    <3>1. Lower(limits, i) = IF i = 1 THEN 0 ELSE 10 * limit
      BY DEF Lower
    <3>2. i # 1 => limit \in 1..998
      BY <2>3
    <3> HIDE DEF limit
    <3>3. ASSUME i # 1 PROVE 10 * limit \in Nat
      <4>1. limit \in 1..998
        BY <3>2, <3>3
      <4> QED
        BY <4>1
    <3> QED
      BY <3>1, <3>3
  <2>5. Upper(limits, i) \in Nat
    <3> DEFINE limit == limits[i]
    <3>1. Upper(limits, i) = IF i = Len(limits) THEN Heaviest ELSE 10 * limit
      BY DEF Upper
    <3>2. limit \in 1..998
      BY <2>1
    <3> HIDE DEF limit
    <3>3. 10 * limit \in Nat /\ Heaviest \in Nat
      BY <3>2 DEF Heaviest
    <3> HIDE DEF Heaviest
    <3> QED
      BY <3>1, <3>3
  <2>6. limits[i] \in Nat /\ limits[i] > 0 /\ limits[i] < 999
    <3> DEFINE limit == limits[i]
    <3>1. limit \in 1..998
      BY <2>1
    <3> HIDE DEF limit
    <3>2. limit \in Nat /\ limit > 0 /\ limit < 999
      BY <3>1
    <3> QED
      BY <3>2 DEF limit
  <2> QED
    BY <2>4, <2>5, <2>6
<1> QED
  BY <1>2, <1>3

(* The classes of a table border on each other.                            *)
LEMMA ClassBounds ==
  ASSUME NEW gender, NEW ageGroup, NEW i \in 1..Len(Limits(gender, ageGroup))
  PROVE  WeightClass(gender, ageGroup, i) =
           [gender |-> gender, ageGroup |-> ageGroup,
            min |-> Lower(Limits(gender, ageGroup), i),
            max |-> Upper(Limits(gender, ageGroup), i)]
<1> DEFINE limits == Limits(gender, ageGroup)
<1>1. Rising(limits)
  BY LimitsRise
<1>2. WeightClass(gender, ageGroup, i) =
        [gender |-> gender, ageGroup |-> ageGroup,
         min |-> IF i = Len(limits) THEN 10 * limits[i]
                 ELSE IF i = 1 THEN 0 ELSE 10 * limits[i - 1],
         max |-> Upper(limits, i)]
  BY DEF WeightClass, Upper, Heaviest
<1>3. i \in 1..Len(limits)
  OBVIOUS
<1> HIDE DEF limits
<1>4. Len(limits) \in Nat /\ Len(limits) > 1 /\ limits[Len(limits)] = limits[Len(limits) - 1]
  BY <1>1, RisingType DEF Rising
<1>5. (IF i = Len(limits) THEN 10 * limits[i] ELSE IF i = 1 THEN 0 ELSE 10 * limits[i - 1])
        = Lower(limits, i)
  BY <1>3, <1>4 DEF Lower
<1>6. WeightClass(gender, ageGroup, i) =
        [gender |-> gender, ageGroup |-> ageGroup, min |-> Lower(limits, i), max |-> Upper(limits, i)]
  BY <1>2, <1>5
<1> QED
  BY <1>6 DEF limits

(* The classes do not overlap, and there is none missing between them.     *)
LEMMA OneInterval ==
  ASSUME NEW limits, Rising(limits), NEW weight \in 1..Heaviest
  PROVE  \E first \in 1..Len(limits) : Between(limits, weight) = {first}
<1> DEFINE upTo == {i \in 1..Len(limits) : weight <= Upper(limits, i)}
<1>1. Len(limits) \in Nat /\ Len(limits) > 1
  BY RisingType
<1>2. \A i \in 1..Len(limits) : /\ limits[i] \in Nat /\ limits[i] > 0 /\ limits[i] < 999
                                /\ Lower(limits, i) \in Nat /\ Upper(limits, i) \in Nat
  BY RisingType
<1>3. PICK first \in upTo : \A j \in upTo : first <= j
  <2>1. Len(limits) \in upTo
    BY <1>1 DEF Upper
  <2>2. upTo \in SUBSET Nat
    BY <1>1
  <2> HIDE DEF upTo
  <2> QED
    BY <2>1, <2>2, Lemmas!LeastNatural
<1>4. first \in 1..Len(limits) /\ weight <= Upper(limits, first)
  BY <1>3
<1>5. weight > Lower(limits, first)
  <2>1. CASE first = 1
    BY <2>1 DEF Lower
  <2>2. CASE first # 1
    <3>1. first - 1 \in 1..Len(limits) /\ first - 1 # Len(limits) /\ ~(first <= first - 1)
      BY <1>1, <1>4, <2>2
    <3>2. first - 1 \notin upTo
      BY <1>3, <3>1
    <3>3. ~(weight <= Upper(limits, first - 1))
      BY <3>1, <3>2
    <3>4. Upper(limits, first - 1) = 10 * limits[first - 1] /\ limits[first - 1] \in Nat
      BY <1>2, <3>1 DEF Upper
    <3> QED
      BY <2>2, <3>3, <3>4 DEF Lower
  <2> QED
    BY <2>1, <2>2
<1>6. ASSUME NEW i \in 1..Len(limits), NEW j \in 1..Len(limits), i < j
      PROVE  Upper(limits, i) <= Lower(limits, j)
  <2>1. i \in 1..(Len(limits) - 1) /\ j - 1 \in 1..(Len(limits) - 1) /\ j # 1 /\ i # Len(limits)
    BY <1>1, <1>6
  <2>2. i = j - 1 \/ i < j - 1
    BY <1>6
  <2>3. i < j - 1 => limits[i] < limits[j - 1]
    BY <2>1 DEF Rising
  <2>4. limits[i] \in Nat /\ limits[j - 1] \in Nat
    BY <1>1, <1>2, <2>1
  <2>5. limits[i] <= limits[j - 1]
    BY <2>2, <2>3, <2>4
  <2> QED
    BY <2>1, <2>4, <2>5 DEF Upper, Lower
<1>7. ASSUME NEW i \in 1..Len(limits), NEW j \in 1..Len(limits), i < j,
             weight <= Upper(limits, i), weight > Lower(limits, j)
      PROVE  FALSE
  BY <1>2, <1>6, <1>7
<1>8. ASSUME NEW i \in 1..Len(limits), weight > Lower(limits, i), weight <= Upper(limits, i)
      PROVE  i = first
  <2>1. i < first \/ i = first \/ first < i
    BY <1>4
  <2> QED
    BY <1>4, <1>5, <1>7, <1>8, <2>1
<1> QED
  BY <1>4, <1>5, <1>8 DEF Between

Fitting(gender, ageGroup, weight) ==
  {i \in DOMAIN Limits(gender, ageGroup) : Admits(WeightClass(gender, ageGroup, i), weight)}

LEMMA FittingInterval ==
  ASSUME NEW gender, NEW ageGroup, NEW weight
  PROVE  Fitting(gender, ageGroup, weight) = Between(Limits(gender, ageGroup), weight)
<1> DEFINE limits == Limits(gender, ageGroup)
<1>1. DOMAIN limits = 1..Len(limits)
  <2>1. Rising(limits)
    BY LimitsRise
  <2> HIDE DEF limits
  <2> QED
    BY <2>1, RisingType
<1>2. \A i \in 1..Len(limits) : /\ WeightClass(gender, ageGroup, i).min = Lower(limits, i)
                                /\ WeightClass(gender, ageGroup, i).max = Upper(limits, i)
  BY ClassBounds
<1> QED
  BY <1>1, <1>2 DEF Fitting, Admits, Between

(* A weight up to 999 kg is in exactly one class of its table.             *)
LEMMA OneClassPerWeight ==
  ASSUME NEW gender, NEW ageGroup, NEW weight \in 1..Heaviest
  PROVE  \E first \in DOMAIN Limits(gender, ageGroup) :
           Fitting(gender, ageGroup, weight) = {first}
<1> DEFINE limits == Limits(gender, ageGroup)
<1>1. Rising(limits)
  BY LimitsRise
<1>2. Fitting(gender, ageGroup, weight) = Between(limits, weight)
  BY FittingInterval
<1> HIDE DEF limits
<1>3. PICK first \in 1..Len(limits) : Between(limits, weight) = {first}
  BY <1>1, OneInterval
<1>4. first \in DOMAIN limits
  BY <1>1, RisingType
<1> QED
  BY <1>2, <1>3, <1>4 DEF limits

-----------------------------------------------------------------------------
(* The pages *)

LEMMA PageTables ==
  ASSUME NEW gender \in Genders, NEW ageGroup \in AgeGroups
  PROVE  PageLimits[gender][ageGroup] = Limits(gender, ageGroup)
BY DEF PageLimits, Limits, Genders, AgeGroups

LEMMA AgeGroupType ==
  ASSUME NEW birth, NEW date
  PROVE  AgeGroup(birth, date) \in AgeGroups
BY Zenon DEF AgeGroup, AgeGroups

(* The class of a competitor, who may have no weight yet.                  *)
LEMMA ClassOfKeepsGender ==
  ASSUME NEW entrant, NEW date, ClassOf(entrant, date) # None
  PROVE  ClassOf(entrant, date).gender = entrant.gender
<1> DEFINE ageGroup == AgeGroup(entrant.birth, date)
<1>1. ClassOf(entrant, date) = FindWeightClass(entrant.gender, ageGroup, entrant.weight)
  BY DEF ClassOf
<1> HIDE DEF ageGroup
<1>2. \A i : WeightClass(entrant.gender, ageGroup, i).gender = entrant.gender
  BY DEF WeightClass
<1>3. FindWeightClass(entrant.gender, ageGroup, entrant.weight) # None =>
        \E i : FindWeightClass(entrant.gender, ageGroup, entrant.weight)
                 = WeightClass(entrant.gender, ageGroup, i)
  BY DEF FindWeightClass
<1> QED
  BY <1>1, <1>2, <1>3

LEMMA FebruaryType ==
  ASSUME NEW year \in Int
  PROVE  FebruaryOf(year) \in {28, 29}
BY DEF FebruaryOf

(* Days come in the same order in every zone.  Two of them are as many     *)
(* years apart, unless 1 March, which follows one day or the other, is a   *)
(* birthday.                                                               *)
LEMMA LocalAge ==
  ASSUME NEW birth \in Dates, NEW date \in Dates, NEW zone \in Zones,
         zone = 0 \/ (~FirstOfMarch(birth) /\ ~FirstOfMarch(Local(birth, zone)))
  PROVE  PageAge(Local(birth, zone), Local(date, zone)) = Age(birth, date)
<1>1. PICK by \in Int, bm \in 1..12, bd \in Int : birth = <<by, bm, bd>> /\ bd \in 1..DaysIn(by, bm)
  BY DEF Dates
<1>2. PICK y \in Int, m \in 1..12, d \in Int : date = <<y, m, d>> /\ d \in 1..DaysIn(y, m)
  BY DEF Dates
<1>3. /\ FebruaryOf(by) \in {28, 29} /\ FebruaryOf(y) \in {28, 29}
      /\ FebruaryOf(by - 1) \in {28, 29} /\ FebruaryOf(y - 1) \in {28, 29}
  BY FebruaryType
<1>4. CASE zone = 0
  BY <1>1, <1>2, <1>4 DEF Local, PageAge, Age
<1>5. CASE zone = -1
  BY <1>1, <1>2, <1>3, <1>5 DEF Local, DayBefore, DaysIn, PageAge, Age, FirstOfMarch
<1>6. CASE zone = 1
  BY <1>1, <1>2, <1>3, <1>6 DEF Local, DayAfter, DaysIn, PageAge, Age, FirstOfMarch
<1> QED
  BY <1>4, <1>5, <1>6 DEF Zones

LEMMA PageAgeGroupType ==
  ASSUME NEW birth, NEW date
  PROVE  PageAgeGroup(birth, date) \in AgeGroups
BY DEF PageAgeGroup, AgeGroupAt, AgeGroups

(* The page looks for the class in the same table as the server, in the age*)
(* group it sees.                                                          *)
LEMMA PreviewFinds ==
  ASSUME None \notin Int,
         NEW entrant, entrant.gender \in Genders, entrant.weight \in Nat \cup {None},
         NEW date, NEW zone
  PROVE  Preview(entrant, date, zone) =
           IF entrant.weight = None \/ entrant.weight = 0 THEN None
           ELSE FindWeightClass(entrant.gender,
                                PageAgeGroup(Local(entrant.birth, zone), Local(date, zone)),
                                entrant.weight)
<1> DEFINE gender == entrant.gender
           group == PageAgeGroup(Local(entrant.birth, zone), Local(date, zone))
           weight == entrant.weight
           limits == Limits(gender, group)
           fits(i) == weight > PageClass(gender, group, i).min
                      /\ weight <= PageClass(gender, group, i).max
           fitting == {i \in DOMAIN limits : fits(i)}
<1>1. group \in AgeGroups
  BY PageAgeGroupType
<1>2. PageLimits[gender][group] = limits
  BY <1>1, PageTables
<1>3. \A i : PageClass(gender, group, i) = WeightClass(gender, group, i)
  BY <1>2 DEF PageClass, WeightClass
<1>4. fitting = Fitting(gender, group, weight)
  BY <1>3 DEF Fitting, Admits
<1>5. Preview(entrant, date, zone) =
        IF weight = None \/ fitting = {} THEN None
        ELSE WeightClass(gender, group, CHOOSE i \in fitting : \A j \in fitting : i <= j)
  <2> DEFINE shown == PageLimits[gender][group]
             shownFitting == {i \in DOMAIN shown : fits(i)}
  <2>1. Preview(entrant, date, zone) =
          IF weight = None \/ shownFitting = {} THEN None
          ELSE PageClass(gender, group, CHOOSE i \in shownFitting : \A j \in shownFitting : i <= j)
    BY DEF Preview
  <2>2. shownFitting = fitting
    <3> HIDE DEF group, limits
    <3> QED
      BY <1>2
  <2> HIDE DEF limits, group, gender, fitting, shownFitting
  <2> QED
    BY <1>3, <2>1, <2>2
<1>6. FindWeightClass(gender, group, weight) =
        IF fitting = {} THEN None
        ELSE WeightClass(gender, group, CHOOSE i \in fitting : \A j \in fitting : i <= j)
  <2> HIDE DEF fitting
  <2> QED
    BY <1>4 DEF FindWeightClass, Fitting
<1>7. weight = 0 => fitting = {}
  <2>1. ASSUME weight = 0, NEW i \in 1..Len(limits), weight > Lower(limits, i)
        PROVE  FALSE
    <3>1. Rising(limits)
      BY LimitsRise
    <3>2. Lower(limits, i) \in Nat
      <4> HIDE DEF limits
      <4> QED
        BY <2>1, <3>1, RisingType
    <3> QED
      BY <2>1, <3>2
  <2> HIDE DEF fitting
  <2> QED
    BY <1>4, <2>1, FittingInterval DEF Between
<1> HIDE DEF fitting
<1> QED
  BY <1>5, <1>6, <1>7

(* The page and the server put a competitor in the same class.             *)
LEMMA PreviewIsClassOf ==
  ASSUME None \notin Int,
         NEW entrant, entrant.gender \in Genders, entrant.birth \in Dates,
         entrant.weight \in Nat \cup {None}, NEW date \in Dates, NEW zone \in Zones,
         zone = 0 \/ (~FirstOfMarch(entrant.birth) /\ ~FirstOfMarch(Local(entrant.birth, zone)))
  PROVE  Preview(entrant, date, zone) = ClassOf(entrant, date)
<1>1. PageAgeGroup(Local(entrant.birth, zone), Local(date, zone)) = AgeGroup(entrant.birth, date)
  <2>1. PageAge(Local(entrant.birth, zone), Local(date, zone)) = Age(entrant.birth, date)
    BY LocalAge
  <2> QED
    BY <2>1, Zenon DEF PageAgeGroup, AgeGroup, AgeGroupAt
<1>2. Preview(entrant, date, zone) =
        IF entrant.weight = None \/ entrant.weight = 0 THEN None
        ELSE FindWeightClass(entrant.gender, AgeGroup(entrant.birth, date), entrant.weight)
  BY <1>1, PreviewFinds
<1> QED
  BY <1>2 DEF ClassOf

-----------------------------------------------------------------------------
(* Types *)

Class == [gender : Genders, ageGroup : AgeGroups, min : Nat, max : Nat]

MaybeClass == Class \cup {None}

Entry == [form : Forms, weight : MaybeWeight, athlete : Nat, status : RegistrationStatuses,
          category : {None}, moved : BOOLEAN]

Found == [id : Nat, before : AthleteRow \cup {None}, row : AthleteRow]

Shown == [from : MaybeClass, class : MaybeClass]

Call == [form       : Forms \cup {None},
         cap        : MaybeCap,
         found      : Found \cup {None},
         doomed     : BOOLEAN,
         competitor : Nat,
         weight     : MaybeWeight,
         status     : {None, "REGISTRATION", "WEIGH_IN"},
         previous   : MaybeClass,
         shown      : Shown \cup {None}]

Registering == {"email", "begin", "commit"}

OfCompetitor == {"withdraw", "modal", "recordWeight", "updateWeight"}

Places == {"idle", "update"} \cup Registering \cup OfCompetitor

TypeOK ==
  /\ setting \in Settings
  /\ status \in {"DRAFT", "REGISTRATION", "WEIGH_IN"}
  /\ cap \in MaybeCap /\ ceiling \in MaybeCap
  /\ competitor \in Seq(Entry)
  /\ athlete \in Seq(AthleteRow)
  /\ pc \in [Handlers -> Places]
  /\ call \in [Handlers -> Call]

(* What a call has read, or announced, when it writes.                     *)
CallOK(where, c) ==
  /\ where \in Registering => c.form \in Forms /\ c.shown.class = Preview(Entrant(c.form), Date, setting.zone)
  /\ where = "commit" => c.found \in Found /\ c.found.id \in 0..Len(athlete)
  /\ where = "update" => c.status \in {"REGISTRATION", "WEIGH_IN"}
  /\ where \in OfCompetitor => c.competitor \in 1..Len(competitor)
  /\ where \in {"modal", "recordWeight", "updateWeight"} => c.weight \in Weights
  /\ where \in {"modal", "recordWeight"} =>
       c.shown.class = ModalShows(competitor[c.competitor], c.weight).class

CallsOK == \A h \in Handlers : CallOK(pc[h], call[h])

Typing == TypeOK /\ CallsOK

LEMMA FormType ==
  ASSUME NEW f \in Forms
  PROVE  /\ f.email \in STRING /\ f.licence \in STRING /\ f.birth \in Dates
         /\ f.gender \in Genders /\ f.weight \in MaybeWeight /\ f # None
BY RegistrationTypes DEF Genders

LEMMA SettingType ==
  ASSUME NEW s \in Settings
  PROVE  /\ s.handlers \subseteq Handlers /\ s.forms \subseteq Forms
         /\ s.athletes \in Seq(AthleteRow)
         /\ s.cap \in MaybeCap /\ s.caps \subseteq MaybeCap /\ s.weights \subseteq Weights
         /\ s.zone \in Zones
BY RegistrationTypes

-----------------------------------------------------------------------------
(* The class of a competitor, by the server and by the pages *)

LEMMA FindType ==
  ASSUME NEW gender \in Genders, NEW group \in AgeGroups, NEW weight
  PROVE  FindWeightClass(gender, group, weight) \in MaybeClass
<1> DEFINE fitting == Fitting(gender, group, weight)
           first == CHOOSE i \in fitting : \A j \in fitting : i <= j
<1>2. FindWeightClass(gender, group, weight) = None
      \/ (fitting # {} /\ FindWeightClass(gender, group, weight) = WeightClass(gender, group, first))
  BY DEF FindWeightClass, Fitting
<1>3. ASSUME fitting # {} PROVE WeightClass(gender, group, first) \in Class
  <2> DEFINE limits == Limits(gender, group)
  <2>1. Rising(limits)
    BY LimitsRise
  <2> HIDE DEF limits
  <2>2. DOMAIN limits = 1..Len(limits) /\ Len(limits) \in Nat
    BY <2>1, RisingType
  <2>3. fitting \in SUBSET (1..Len(limits))
    BY <2>2 DEF Fitting, limits
  <2>4. fitting \in SUBSET Nat
    BY <2>2, <2>3
  <2>5. first \in fitting
    <3> HIDE DEF fitting
    <3> QED
      BY <1>3, <2>4, Lemmas!LeastNatural
  <2> HIDE DEF fitting, first
  <2>6. first \in 1..Len(limits)
    BY <2>3, <2>5
  <2>7. Lower(limits, first) \in Nat /\ Upper(limits, first) \in Nat
    BY <2>1, <2>6, RisingType
  <2>8. WeightClass(gender, group, first) =
          [gender |-> gender, ageGroup |-> group,
           min |-> Lower(limits, first), max |-> Upper(limits, first)]
    BY <2>6, ClassBounds DEF limits
  <2> QED
    BY <2>7, <2>8 DEF Class
<1> QED
  BY <1>2, <1>3 DEF MaybeClass

LEMMA ClassOfType ==
  ASSUME NEW entrant, entrant.gender \in Genders, NEW date
  PROVE  ClassOf(entrant, date) \in MaybeClass
BY AgeGroupType, FindType DEF ClassOf, MaybeClass

(* The entrant of a form with the weight its row has.                      *)
Weighed(f, weight) == [Entrant(f) EXCEPT !.weight = weight]

LEMMA WeighedType ==
  ASSUME NEW f \in Forms, NEW weight \in MaybeWeight
  PROVE  /\ Weighed(f, weight).gender \in Genders /\ Weighed(f, weight).birth = f.birth
         /\ Weighed(f, weight).birth \in Dates /\ Weighed(f, weight).weight \in Nat \cup {None}
<1>1. Weighed(f, weight) = [birth |-> f.birth, gender |-> f.gender, weight |-> weight]
  BY DEF Weighed, Entrant
<1>2. f.gender \in Genders /\ f.birth \in Dates
  BY FormType
<1>3. weight \in Nat \cup {None}
  BY DEF MaybeWeight, Weights
<1> QED
  BY <1>1, <1>2, <1>3

LEMMA WeighedClass ==
  ASSUME NEW f \in Forms, NEW weight \in MaybeWeight
  PROVE  ClassOf(Weighed(f, weight), Date) \in MaybeClass
BY WeighedType, ClassOfType

LEMMA PreviewType ==
  ASSUME NEW f \in Forms, NEW weight \in MaybeWeight, NEW zone
  PROVE  Preview(Weighed(f, weight), Date, zone) \in MaybeClass
<1> DEFINE entrant == Weighed(f, weight)
<1>1. entrant.gender \in Genders /\ entrant.weight \in Nat \cup {None}
  BY WeighedType
<1>2. None \notin Int
  BY RegistrationTypes
<1> HIDE DEF entrant
<1>3. Preview(entrant, Date, zone) \in MaybeClass
  BY <1>1, <1>2, PreviewFinds, PageAgeGroupType, FindType DEF MaybeClass
<1> QED
  BY <1>3 DEF entrant

LEMMA PageAgrees ==
  ASSUME setting \in Settings, NEW f \in Forms, NEW weight \in MaybeWeight, ReadAlike(f.birth)
  PROVE  Preview(Weighed(f, weight), Date, setting.zone) = ClassOf(Weighed(f, weight), Date)
<1> DEFINE entrant == Weighed(f, weight)
<1>1. /\ entrant.gender \in Genders /\ entrant.birth = f.birth
      /\ entrant.birth \in Dates /\ entrant.weight \in Nat \cup {None}
  BY WeighedType
<1>2. None \notin Int /\ Date \in Dates /\ setting.zone \in Zones
  BY RegistrationTypes
<1> HIDE DEF entrant
<1>3. Preview(entrant, Date, setting.zone) = ClassOf(entrant, Date)
  BY <1>1, <1>2, PreviewIsClassOf DEF ReadAlike
<1> QED
  BY <1>3 DEF entrant

LEMMA AsEntered ==
  ASSUME NEW f \in Forms
  PROVE  Entrant(f) = Weighed(f, f.weight)
BY DEF Weighed, Entrant

-----------------------------------------------------------------------------
(* Calls *)

(* What no step undoes: athletes and competitors stay, with their forms.   *)
Kept ==
  /\ setting' = setting
  /\ Len(athlete) <= Len(athlete') /\ Len(competitor) <= Len(competitor')
  /\ \A i \in 1..Len(competitor) : competitor'[i].form = competitor[i].form

LEMMA CallStable ==
  ASSUME Typing, competitor' \in Seq(Entry), athlete' \in Seq(AthleteRow), Kept,
         NEW where, NEW c, CallOK(where, c)
  PROVE  CallOK(where, c)'
<1>1. /\ Len(competitor) \in Nat /\ Len(competitor') \in Nat
      /\ Len(athlete) \in Nat /\ Len(athlete') \in Nat
  BY LenProperties DEF Typing, TypeOK
<1>2. where = "commit" => c.found \in Found /\ c.found.id \in 0..Len(athlete')
  BY <1>1 DEF CallOK, Kept
<1>3. where \in OfCompetitor => c.competitor \in 1..Len(competitor')
  BY <1>1 DEF CallOK, Kept
<1>4. ASSUME where \in {"modal", "recordWeight"}
      PROVE  (ModalShows(competitor[c.competitor], c.weight).class)'
               = ModalShows(competitor[c.competitor], c.weight).class
  <2>1. c.competitor \in 1..Len(competitor)
    BY <1>4 DEF CallOK, OfCompetitor
  <2>2. competitor'[c.competitor].form = competitor[c.competitor].form
    BY <2>1 DEF Kept
  <2> QED
    BY <2>2 DEF ModalShows, Kept
<1>5. setting' = setting
  BY DEF Kept
<1> QED
  BY <1>2, <1>3, <1>4, <1>5 DEF CallOK

LEMMA NoCallType ==
  NoCall \in Call
BY DEF NoCall, Call, MaybeCap, MaybeWeight, MaybeClass

LEMMA IdleOK ==
  ASSUME NEW c
  PROVE  CallOK("idle", c)
BY DEF CallOK, Registering, OfCompetitor

(* A call goes on; the others have read what they have read.               *)
LEMMA GotoTyped ==
  ASSUME Typing, NEW h \in Handlers, NEW where \in Places, NEW c \in Call, Goto(h, where, c),
         competitor' \in Seq(Entry), athlete' \in Seq(AthleteRow), Kept, CallOK(where, c)'
  PROVE  /\ pc' \in [Handlers -> Places] /\ call' \in [Handlers -> Call]
         /\ CallsOK'
<1>1. pc \in [Handlers -> Places] /\ call \in [Handlers -> Call] /\ CallsOK
  BY DEF Typing, TypeOK
<1>2. \A g \in Handlers : /\ pc'[g] = IF g = h THEN where ELSE pc[g]
                          /\ call'[g] = IF g = h THEN c ELSE call[g]
  BY <1>1 DEF Goto
<1>3. pc' \in [Handlers -> Places] /\ call' \in [Handlers -> Call]
  BY <1>1 DEF Goto
<1>4. ASSUME NEW g \in Handlers PROVE CallOK(pc[g], call[g])'
  <2>1. ASSUME NEW there, NEW that, there = pc'[g], that = call'[g], CallOK(there, that)'
        PROVE  CallOK(pc[g], call[g])'
    BY <2>1 DEF CallOK
  <2>2. CASE g = h
    BY <1>2, <2>1, <2>2
  <2>3. CASE g # h
    <3>1. CallOK(pc[g], call[g])
      BY <1>1 DEF CallsOK
    <3>2. ASSUME NEW there, NEW that, there = pc[g], that = call[g]
          PROVE  CallOK(there, that)'
      <4>1. CallOK(there, that)
        BY <3>1, <3>2
      <4> QED
        BY <4>1, CallStable
    <3> QED
      BY <1>2, <2>1, <2>3, <3>2
  <2> QED
    BY <2>2, <2>3
<1> QED
  BY <1>3, <1>4 DEF CallsOK

-----------------------------------------------------------------------------
(* What the calls write *)

LEMMA RowType ==
  ASSUME Typing, NEW i \in 1..Len(competitor)
  PROVE  /\ competitor[i] \in Entry /\ i \in DOMAIN competitor
         /\ Entrant(competitor[i].form) = [birth |-> competitor[i].form.birth,
                                           gender |-> competitor[i].form.gender,
                                           weight |-> competitor[i].form.weight]
         /\ RowClass(competitor[i]) = ClassOf(Weighed(competitor[i].form, competitor[i].weight), Date)
         /\ RowClass(competitor[i]) \in MaybeClass
<1>1. competitor[i] \in Entry /\ i \in DOMAIN competitor
  BY ElementOfSeq, LenProperties DEF Typing, TypeOK
<1>2. competitor[i].form \in Forms /\ competitor[i].weight \in MaybeWeight
  BY <1>1 DEF Entry
<1> QED
  BY <1>1, <1>2, WeighedClass DEF RowClass, Weighed, Entrant

LEMMA KeyType ==
  ASSUME NEW text \in STRING
  PROVE  Key(text) \in STRING \cup {None}
BY DEF Key

LEMMA FindOrCreateType ==
  ASSUME Typing, NEW f \in Forms
  PROVE  FindOrCreate(f) \in Found /\ FindOrCreate(f).id \in 0..Len(athlete)
<1> DEFINE email == Key(f.email)
           licence == Key(f.licence)
           byEmail == With(athlete, "email", email)
           byLicence == With(athlete, "licence", licence)
           first == CHOOSE i \in byEmail : TRUE
           second == CHOOSE i \in byLicence : TRUE
<1>1. email \in STRING \cup {None} /\ licence \in STRING \cup {None}
  BY FormType, KeyType
<1>2. athlete \in Seq(AthleteRow) /\ Len(athlete) \in Nat /\ DOMAIN athlete = 1..Len(athlete)
  BY LenProperties DEF Typing, TypeOK
<1>3. \A i \in 1..Len(athlete) : athlete[i] \in AthleteRow
  BY <1>2, ElementOfSeq
<1>4. byEmail \subseteq 1..Len(athlete) /\ byLicence \subseteq 1..Len(athlete)
  BY <1>2 DEF With
<1>5. CASE byEmail # {}
  <2>1. first \in 1..Len(athlete)
    <3>1. first \in byEmail
      BY <1>5
    <3> QED
      BY <1>4, <3>1
  <2>2. FindOrCreate(f) =
          [id |-> first, before |-> athlete[first],
           row |-> IF athlete[first]["licence"] = None
                   THEN [athlete[first] EXCEPT !["licence"] = licence] ELSE athlete[first]]
    BY <1>5 DEF FindOrCreate
  <2> HIDE DEF first, licence
  <2>3. athlete[first] \in AthleteRow /\ [athlete[first] EXCEPT !["licence"] = licence] \in AthleteRow
    BY <1>1, <1>3, <2>1 DEF AthleteRow
  <2> QED
    BY <1>2, <2>1, <2>2, <2>3 DEF Found
<1>6. CASE byEmail = {} /\ byLicence # {}
  <2>1. second \in 1..Len(athlete)
    <3>1. second \in byLicence
      BY <1>6
    <3> QED
      BY <1>4, <3>1
  <2>2. FindOrCreate(f) =
          [id |-> second, before |-> athlete[second],
           row |-> IF athlete[second]["email"] = None
                   THEN [athlete[second] EXCEPT !["email"] = email] ELSE athlete[second]]
    BY <1>6 DEF FindOrCreate
  <2> HIDE DEF second, email
  <2>3. athlete[second] \in AthleteRow /\ [athlete[second] EXCEPT !["email"] = email] \in AthleteRow
    BY <1>1, <1>3, <2>1 DEF AthleteRow
  <2> QED
    BY <1>2, <2>1, <2>2, <2>3 DEF Found
<1>7. CASE byEmail = {} /\ byLicence = {}
  <2>1. FindOrCreate(f) = [id |-> 0, before |-> None, row |-> [email |-> email, licence |-> licence]]
    BY <1>7 DEF FindOrCreate
  <2> HIDE DEF email, licence
  <2> QED
    BY <1>1, <1>2, <2>1 DEF Found, AthleteRow
<1> QED
  BY <1>5, <1>6, <1>7

LEMMA NewRowType ==
  ASSUME NEW f \in Forms, NEW i \in Nat
  PROVE  NewRow(f, i) \in Entry
BY FormType DEF NewRow, Entry, RegistrationStatuses

(* A row is rewritten: nobody who did not count for the cap counts after.  *)
Rewrites(i, row) ==
  /\ Write(i, row)
  /\ row \in Entry /\ row.form = competitor[i].form /\ row.athlete = competitor[i].athlete
  /\ \/ row.status = "WITHDRAWN" \/ row.moved
     \/ /\ row.weight = competitor[i].weight
        /\ ~competitor[i].moved /\ competitor[i].status # "WITHDRAWN"

LEMMA WithdrawalRewrites ==
  ASSUME NEW i, competitor[i] \in Entry
  PROVE  /\ Write(i, Withdrawn(competitor[i])) => Rewrites(i, Withdrawn(competitor[i]))
         /\ Write(i, Disqualified(competitor[i])) => Rewrites(i, Disqualified(competitor[i]))
BY DEF Rewrites, Withdrawn, Disqualified, Entry, RegistrationStatuses

LEMMA WeightRewrites ==
  ASSUME NEW i, competitor[i] \in Entry, NEW weight \in Weights, NEW row,
         row \in {WeighedIn([competitor[i] EXCEPT !.moved = TRUE], weight),
                  Reweighed([competitor[i] EXCEPT !.moved = TRUE], weight)},
         Write(i, row)
  PROVE  Rewrites(i, row) /\ row.weight = weight
BY DEF Rewrites, WeighedIn, Reweighed, Entry, RegistrationStatuses, MaybeWeight

LEMMA StatusRewrites ==
  ASSUME NEW i, competitor[i] \in Entry, NEW s \in RegistrationStatuses, NEW row,
         row = WithStatus([competitor[i] EXCEPT !.moved = @ \/ competitor[i].status = "WITHDRAWN"], s),
         Write(i, row)
  PROVE  Rewrites(i, row)
<1> DEFINE moved == competitor[i].moved \/ competitor[i].status = "WITHDRAWN"
<1>1. moved \in BOOLEAN
  BY DEF Entry
<1>2. row = [competitor[i] EXCEPT !.moved = moved, !.status = s]
  BY DEF WithStatus, Entry
<1>3. ~moved => ~competitor[i].moved /\ competitor[i].status # "WITHDRAWN"
  OBVIOUS
<1> HIDE DEF moved
<1> QED
  BY <1>1, <1>2, <1>3 DEF Rewrites, Entry, RegistrationStatuses

LEMMA OrganizerRewrites ==
  ASSUME NEW i, competitor[i] \in Entry, ByOrganizer(i)
  PROVE  \E row : Rewrites(i, row)
BY WithdrawalRewrites, StatusRewrites DEF ByOrganizer

LEMMA RewritesKeep ==
  ASSUME Typing, NEW i \in 1..Len(competitor), NEW row, Rewrites(i, row)
  PROVE  /\ competitor' \in Seq(Entry) /\ Len(competitor') = Len(competitor)
         /\ \A j \in 1..Len(competitor) : competitor'[j] = IF j = i THEN row ELSE competitor[j]
         /\ \A j \in 1..Len(competitor) : /\ competitor'[j].form = competitor[j].form
                                          /\ competitor'[j].athlete = competitor[j].athlete
<1>1. competitor \in Seq(Entry)
  BY DEF Typing, TypeOK
<1>2. competitor' = [competitor EXCEPT ![i] = row] /\ row \in Entry
  BY DEF Rewrites, Write
<1>3. /\ competitor' \in Seq(Entry) /\ Len(competitor') = Len(competitor)
      /\ \A j \in 1..Len(competitor) : competitor'[j] = IF j = i THEN row ELSE competitor[j]
  BY <1>1, <1>2, ExceptSeq
<1> QED
  BY <1>3 DEF Rewrites

-----------------------------------------------------------------------------
(* Typing *)

(* A step of a call that writes no competitor and no athlete.              *)
LEMMA ReadingTyped ==
  ASSUME Typing, NEW h \in Handlers, NEW where \in Places, NEW c \in Call, Goto(h, where, c),
         UNCHANGED <<setting, cap, competitor, athlete, ceiling>>,
         status' \in {"DRAFT", "REGISTRATION", "WEIGH_IN"}, CallOK(where, c)
  PROVE  Typing'
<1>1. competitor' \in Seq(Entry) /\ athlete' \in Seq(AthleteRow) /\ Kept
  <2>1. Len(competitor) \in Nat /\ Len(athlete) \in Nat
    BY LenProperties DEF Typing, TypeOK
  <2> QED
    BY <2>1 DEF Typing, TypeOK, Kept
<1>2. CallOK(where, c)'
  BY <1>1, CallStable
<1>3. /\ pc' \in [Handlers -> Places] /\ call' \in [Handlers -> Call]
      /\ CallsOK'
  BY <1>1, <1>2, GotoTyped
<1> QED
  BY <1>3 DEF Typing, TypeOK

(* A step that rewrites a competitor and ends the call.                    *)
LEMMA RewritingTyped ==
  ASSUME Typing, NEW h \in Handlers, NEW i \in 1..Len(competitor), NEW row, Rewrites(i, row),
         Return(h), UNCHANGED <<setting, competition, athlete, ceiling>>
  PROVE  Typing'
<1>1. competitor' \in Seq(Entry) /\ athlete' \in Seq(AthleteRow) /\ Kept
  <2>1. Len(competitor) \in Nat /\ Len(athlete) \in Nat
    BY LenProperties DEF Typing, TypeOK
  <2> QED
    BY <2>1, RewritesKeep DEF Typing, TypeOK, Kept
<1>2. /\ pc' \in [Handlers -> Places] /\ call' \in [Handlers -> Call]
      /\ CallsOK'
  <2>1. CallOK("idle", NoCall)'
    BY DEF CallOK, Registering, OfCompetitor
  <2>2. Goto(h, "idle", NoCall) /\ "idle" \in Places
    BY DEF Return, Places
  <2> QED
    BY <1>1, <2>1, <2>2, GotoTyped, NoCallType
<1> QED
  BY <1>1, <1>2 DEF Typing, TypeOK, competition, history

LEMMA ReturnTyped ==
  ASSUME Typing, NEW h \in Handlers, Return(h),
         UNCHANGED <<setting, cap, competitor, athlete, ceiling>>,
         status' \in {"DRAFT", "REGISTRATION", "WEIGH_IN"}
  PROVE  Typing'
BY ReadingTyped, NoCallType, IdleOK DEF Return, Places

LEMMA RegisterTyped ==
  ASSUME Typing, NEW h \in Handlers, NEW f \in Forms, Register(h, f)
  PROVE  Typing'
<1> DEFINE where == IF f.email = "" THEN "begin" ELSE "email"
           c == [NoCall EXCEPT !.form = f, !.cap = cap, !.shown = FormShows(f)]
<1>1. where \in Places /\ where \in Registering /\ where # "commit"
  BY DEF Places, Registering
<1>2. FormShows(f) = [from |-> None, class |-> Preview(Entrant(f), Date, setting.zone)]
      /\ FormShows(f) \in Shown
  <2>1. f.weight \in MaybeWeight /\ Entrant(f) = Weighed(f, f.weight)
    BY AsEntered, FormType
  <2>2. Preview(Entrant(f), Date, setting.zone) \in MaybeClass
    BY <2>1, PreviewType
  <2> QED
    BY <2>2 DEF FormShows, Shown, MaybeClass
<1>3. c \in Call /\ c.form = f /\ c.shown = FormShows(f)
  <2>1. cap \in MaybeCap
    BY DEF Typing, TypeOK
  <2> QED
    BY <1>2, <2>1 DEF NoCall, Call, MaybeCap, MaybeWeight, MaybeClass
<1>4. CallOK(where, c)
  <2>1. c.form = f /\ c.shown.class = Preview(Entrant(f), Date, setting.zone)
    BY <1>2, <1>3
  <2>2. where \notin OfCompetitor
        /\ where \notin {"commit", "update", "modal", "recordWeight", "updateWeight"}
    BY DEF OfCompetitor
  <2> HIDE DEF where, c
  <2> QED
    BY <2>1, <2>2 DEF CallOK
<1>5. Goto(h, where, c) /\ UNCHANGED <<setting, cap, competitor, athlete, ceiling>>
      /\ status' \in {"DRAFT", "REGISTRATION", "WEIGH_IN"}
  BY DEF Register, competition, history, Typing, TypeOK
<1> HIDE DEF where, c
<1> QED
  BY <1>1, <1>3, <1>4, <1>5, ReadingTyped

LEMMA FindEmailTyped ==
  ASSUME Typing, NEW h \in Handlers, FindEmail(h)
  PROVE  Typing'
<1>1. UNCHANGED <<setting, cap, competitor, athlete, ceiling>>
      /\ status' \in {"DRAFT", "REGISTRATION", "WEIGH_IN"}
  BY DEF FindEmail, competition, history, Typing, TypeOK
<1>2. CASE Return(h)
  BY <1>1, <1>2, ReturnTyped
<1>3. CASE Goto(h, "begin", call[h])
  <2>1. pc[h] = "email" /\ CallOK(pc[h], call[h]) /\ call[h] \in Call
    BY DEF FindEmail, Typing, TypeOK, CallsOK
  <2>2. CallOK("begin", call[h]) /\ "begin" \in Places
    BY <2>1 DEF CallOK, Registering, OfCompetitor, Places
  <2> QED
    BY <1>1, <1>3, <2>1, <2>2, ReadingTyped
<1> QED
  BY <1>2, <1>3 DEF FindEmail

LEMMA ReadClassAndAthleteTyped ==
  ASSUME Typing, NEW h \in Handlers, ReadClassAndAthlete(h)
  PROVE  Typing'
<1> DEFINE found == FindOrCreate(call[h].form)
           c == [call[h] EXCEPT !.found = found]
<1>1. UNCHANGED <<setting, cap, competitor, athlete, ceiling>>
      /\ status' \in {"DRAFT", "REGISTRATION", "WEIGH_IN"}
  BY DEF ReadClassAndAthlete, competition, history, Typing, TypeOK
<1>2. CASE Return(h)
  BY <1>1, <1>2, ReturnTyped
<1>3. CASE Goto(h, "commit", c)
  <2>1. pc[h] = "begin" /\ CallOK(pc[h], call[h]) /\ call[h] \in Call
    BY DEF ReadClassAndAthlete, Typing, TypeOK, CallsOK
  <2>2. call[h].form \in Forms /\ call[h].shown.class = Preview(Entrant(call[h].form), Date, setting.zone)
    BY <2>1 DEF CallOK, Registering
  <2>3. found \in Found /\ found.id \in 0..Len(athlete)
    BY <2>2, FindOrCreateType
  <2> HIDE DEF found
  <2>4. c \in Call /\ c.form = call[h].form /\ c.shown = call[h].shown /\ c.found = found
    BY <2>1, <2>3 DEF Call
  <2> HIDE DEF c
  <2>5. CallOK("commit", c) /\ "commit" \in Places
    BY <2>2, <2>3, <2>4 DEF CallOK, Registering, OfCompetitor, Places
  <2> QED
    BY <1>1, <1>3, <2>4, <2>5, ReadingTyped
<1> QED
  BY <1>2, <1>3 DEF ReadClassAndAthlete

(* What a committing transaction writes.                                   *)
LEMMA CreateWrites ==
  ASSUME Typing, NEW h \in Handlers, CreateCompetitor(h)
  PROVE  /\ pc[h] = "commit" /\ ~call[h].doomed /\ call[h].form \in Forms
         /\ \E id \in Nat :
              /\ competitor' = Append(competitor, NewRow(call[h].form, id))
              /\ id \in 1..Len(athlete')
              /\ Len(athlete') > Len(athlete) => Len(athlete') = Len(athlete) + 1 /\ id = Len(athlete')
         /\ competitor' \in Seq(Entry) /\ Len(competitor') = Len(competitor) + 1
         /\ \A j \in 1..Len(competitor) : competitor'[j] = competitor[j]
         /\ athlete' \in Seq(AthleteRow) /\ Len(athlete) <= Len(athlete')
<1> DEFINE c == call[h]
           found == c.found
           id == IF found.id = 0 THEN Len(athlete) + 1 ELSE found.id
<1>1. pc[h] = "commit" /\ ~c.doomed /\ CallOK(pc[h], c)
  BY DEF CreateCompetitor, Typing, CallsOK
<1>2. c.form \in Forms /\ found \in Found /\ found.id \in 0..Len(athlete)
  BY <1>1 DEF CallOK, Registering
<1>3. athlete \in Seq(AthleteRow) /\ Len(athlete) \in Nat /\ competitor \in Seq(Entry)
      /\ Len(competitor) \in Nat
  BY LenProperties DEF Typing, TypeOK
<1>4. /\ athlete' = IF found.id = 0 THEN Append(athlete, found.row)
                    ELSE IF found.row = found.before THEN athlete
                    ELSE [athlete EXCEPT ![id] = found.row]
      /\ competitor' = Append(competitor, NewRow(c.form, id))
  BY DEF CreateCompetitor
<1>5. id \in Nat
  BY <1>2, <1>3
<1>6. found.row \in AthleteRow
  BY <1>2 DEF Found
<1> HIDE DEF found, c
<1>7. /\ athlete' \in Seq(AthleteRow) /\ Len(athlete) <= Len(athlete') /\ id \in 1..Len(athlete')
      /\ Len(athlete') > Len(athlete) => Len(athlete') = Len(athlete) + 1 /\ id = Len(athlete')
  <2>1. CASE found.id = 0
    <3>1. athlete' = Append(athlete, found.row) /\ id = Len(athlete) + 1
      BY <1>4, <2>1
    <3> HIDE DEF id
    <3>2. athlete' \in Seq(AthleteRow) /\ Len(athlete') = Len(athlete) + 1
      BY <1>3, <1>6, <3>1, AppendProperties
    <3> QED
      BY <1>3, <3>1, <3>2
  <2>2. CASE found.id # 0
    <3>1. id \in 1..Len(athlete) /\ id = found.id
      BY <1>2, <2>2
    <3>2. athlete' = athlete \/ athlete' = [athlete EXCEPT ![id] = found.row]
      BY <1>4, <2>2
    <3> HIDE DEF id
    <3>3. [athlete EXCEPT ![id] = found.row] \in Seq(AthleteRow)
          /\ Len([athlete EXCEPT ![id] = found.row]) = Len(athlete)
      BY <1>3, <1>6, <3>1, ExceptSeq
    <3>4. athlete' \in Seq(AthleteRow) /\ Len(athlete') = Len(athlete)
      BY <1>3, <3>2, <3>3
    <3> QED
      BY <1>3, <3>1, <3>4
  <2> QED
    BY <2>1, <2>2
<1> HIDE DEF id
<1>8. NewRow(c.form, id) \in Entry
  BY <1>2, <1>5, NewRowType
<1>9. /\ competitor' \in Seq(Entry) /\ Len(competitor') = Len(competitor) + 1
      /\ \A j \in 1..Len(competitor) : competitor'[j] = competitor[j]
  BY <1>3, <1>4, <1>8, AppendProperties
<1> QED
  BY <1>1, <1>2, <1>4, <1>5, <1>7, <1>9 DEF c

LEMMA CreateCompetitorTyped ==
  ASSUME Typing, NEW h \in Handlers, CreateCompetitor(h)
  PROVE  Typing'
<1>1. /\ competitor' \in Seq(Entry) /\ Len(competitor') = Len(competitor) + 1
      /\ \A j \in 1..Len(competitor) : competitor'[j] = competitor[j]
      /\ athlete' \in Seq(AthleteRow) /\ Len(athlete) <= Len(athlete')
  BY CreateWrites
<1>2. Kept
  <2>1. Len(competitor) \in Nat
    BY LenProperties DEF Typing, TypeOK
  <2> QED
    BY <1>1, <2>1 DEF Kept, CreateCompetitor
<1>3. pc \in [Handlers -> Places] /\ call \in [Handlers -> Call] /\ CallsOK
  BY DEF Typing, TypeOK
<1>4. /\ pc' = [pc EXCEPT ![h] = "idle"]
      /\ call' = [g \in Handlers |->
                    IF g = h THEN NoCall
                    ELSE IF pc[g] = "commit" /\ ReadEachOther(call[g], call[h])
                    THEN [call[g] EXCEPT !.doomed = TRUE] ELSE call[g]]
      /\ UNCHANGED <<setting, status, cap, ceiling>>
  BY DEF CreateCompetitor, competition, history
<1>5. \A g \in Handlers : [call[g] EXCEPT !.doomed = TRUE] \in Call
  BY <1>3 DEF Call
<1>6. pc' \in [Handlers -> Places] /\ call' \in [Handlers -> Call]
  BY <1>3, <1>4, <1>5, NoCallType DEF Places
<1>7. ASSUME NEW g \in Handlers PROVE CallOK(pc[g], call[g])'
  <2>1. ASSUME NEW there, NEW that, there = pc'[g], that = call'[g], CallOK(there, that)
        PROVE  CallOK(pc[g], call[g])'
    <3>1. CallOK(there, that)'
      BY <1>1, <1>2, <2>1, CallStable
    <3> QED
      BY <2>1, <3>1 DEF CallOK
  <2>2. CASE g = h
    <3>1. pc'[g] = "idle"
      BY <1>3, <1>4, <2>2
    <3> QED
      BY <2>1, <3>1, IdleOK
  <2>3. CASE g # h
    <3>1. pc'[g] = pc[g] /\ call'[g] \in {call[g], [call[g] EXCEPT !.doomed = TRUE]}
      BY <1>4, <2>3
    <3>2. CallOK(pc[g], call[g]) /\ call[g] \in Call
      BY <1>3 DEF CallsOK
    <3>3. CallOK(pc[g], [call[g] EXCEPT !.doomed = TRUE])
      BY <3>2 DEF CallOK, Call
    <3>4. CallOK(pc'[g], call'[g])
      BY <3>1, <3>2, <3>3
    <3> QED
      BY <2>1, <3>4
  <2> QED
    BY <2>2, <2>3
<1> QED
  BY <1>1, <1>3, <1>4, <1>6, <1>7 DEF Typing, TypeOK, CallsOK

LEMMA UpdateTyped ==
  ASSUME Typing, NEW h \in Handlers, Update(h)
  PROVE  Typing'
<1> DEFINE next == NextStatus(status)
           c == [NoCall EXCEPT !.status = next]
<1>1. UNCHANGED <<setting, cap, competitor, athlete, ceiling>>
      /\ status' \in {"DRAFT", "REGISTRATION", "WEIGH_IN"} /\ Goto(h, "update", c)
      /\ next \in {"REGISTRATION", "WEIGH_IN"}
  BY DEF Update, competition, history, Typing, TypeOK
<1> HIDE DEF next
<1>2. c \in Call /\ c.status = next
  BY <1>1, NoCallType DEF Call, NoCall
<1> HIDE DEF c
<1>3. CallOK("update", c) /\ "update" \in Places
  BY <1>1, <1>2 DEF CallOK, Registering, OfCompetitor, Places
<1> QED
  BY <1>1, <1>2, <1>3, ReadingTyped

LEMMA WriteStatusTyped ==
  ASSUME Typing, NEW h \in Handlers, WriteStatus(h)
  PROVE  Typing'
<1>1. pc[h] = "update" /\ CallOK(pc[h], call[h]) /\ call[h] \in Call
  BY DEF WriteStatus, Typing, TypeOK, CallsOK
<1>2. call[h].status \in {"REGISTRATION", "WEIGH_IN"}
  BY <1>1 DEF CallOK
<1> QED
  BY <1>2, ReturnTyped DEF WriteStatus, history

LEMMA RollbackTyped ==
  ASSUME Typing, NEW h \in Handlers, Rollback(h)
  PROVE  Typing'
<1>1. status \in {"DRAFT", "REGISTRATION", "WEIGH_IN"}
  BY DEF Typing, TypeOK
<1> QED
  BY <1>1, ReturnTyped DEF Rollback, competition, history

LEMMA WithdrawAsCoachTyped ==
  ASSUME Typing, NEW h \in Handlers, NEW i \in 1..Len(competitor), WithdrawAsCoach(h, i)
  PROVE  Typing'
<1> DEFINE c == [NoCall EXCEPT !.competitor = i]
<1>1. i \in Nat
  BY LenProperties DEF Typing, TypeOK
<1>2. c \in Call /\ c.competitor = i
  BY <1>1, NoCallType DEF Call, NoCall
<1>3. Goto(h, "withdraw", c) /\ UNCHANGED <<setting, cap, competitor, athlete, ceiling>>
      /\ status' \in {"DRAFT", "REGISTRATION", "WEIGH_IN"}
  BY DEF WithdrawAsCoach, competition, history, Typing, TypeOK
<1> HIDE DEF c
<1>4. CallOK("withdraw", c) /\ "withdraw" \in Places
  BY <1>2 DEF CallOK, Registering, OfCompetitor, Places
<1> QED
  BY <1>2, <1>3, <1>4, ReadingTyped

(* The modal announces the class of a weight for a row of the list.        *)
LEMMA ReadListTyped ==
  ASSUME Typing, NEW h \in Handlers, NEW i \in 1..Len(competitor), NEW weight \in Weights,
         ReadList(h, i, weight)
  PROVE  Typing'
<1> DEFINE row == competitor[i]
           shown == ModalShows(row, weight)
           c == [NoCall EXCEPT !.competitor = i, !.weight = weight, !.shown = shown]
<1>1. i \in Nat /\ weight \in MaybeWeight
  BY LenProperties DEF Typing, TypeOK, MaybeWeight
<1>2. shown \in Shown
  <2>1. row \in Entry /\ RowClass(row) \in MaybeClass
    BY RowType
  <2>2. row.form \in Forms
    BY <2>1 DEF Entry
  <2>3. Preview(Weighed(row.form, weight), Date, setting.zone) \in MaybeClass
    BY <1>1, <2>2, PreviewType
  <2>4. shown = [from |-> RowClass(row), class |-> Preview(Weighed(row.form, weight), Date, setting.zone)]
    BY DEF ModalShows, Weighed
  <2> HIDE DEF shown, row
  <2> QED
    BY <2>1, <2>3, <2>4 DEF Shown
<1>3. Goto(h, "modal", c) /\ UNCHANGED <<setting, cap, competitor, athlete, ceiling>>
      /\ status' \in {"DRAFT", "REGISTRATION", "WEIGH_IN"}
  BY DEF ReadList, competition, history, Typing, TypeOK
<1> HIDE DEF shown
<1>4. c \in Call /\ c.competitor = i /\ c.weight = weight /\ c.shown = shown
  BY <1>1, <1>2, NoCallType DEF Call, NoCall
<1> HIDE DEF c
<1>5. CallOK("modal", c) /\ "modal" \in Places
  <2>1. shown.class = ModalShows(competitor[c.competitor], c.weight).class
    BY <1>4 DEF shown
  <2> QED
    BY <1>4, <2>1 DEF CallOK, Registering, OfCompetitor, Places
<1> QED
  BY <1>3, <1>4, <1>5, ReadingTyped

LEMMA RecordWeightTyped ==
  ASSUME Typing, NEW h \in Handlers, RecordWeight(h)
  PROVE  Typing'
<1> DEFINE previous == RowClass(competitor[call[h].competitor])
           c == [call[h] EXCEPT !.previous = previous]
<1>1. UNCHANGED <<setting, cap, competitor, athlete, ceiling>>
      /\ status' \in {"DRAFT", "REGISTRATION", "WEIGH_IN"}
  BY DEF RecordWeight, competition, history, Typing, TypeOK
<1>2. pc[h] = "modal" /\ CallOK(pc[h], call[h]) /\ call[h] \in Call
  BY DEF RecordWeight, Typing, TypeOK, CallsOK
<1>3. CASE Return(h)
  BY <1>1, <1>3, ReturnTyped
<1>4. CASE Goto(h, "recordWeight", c)
  <2>1. previous \in MaybeClass
    BY <1>2, RowType DEF CallOK, OfCompetitor
  <2> HIDE DEF previous
  <2>2. /\ c \in Call /\ c.competitor = call[h].competitor /\ c.weight = call[h].weight
        /\ c.shown = call[h].shown
    BY <1>2, <2>1 DEF Call
  <2> HIDE DEF c
  <2>3. CallOK("recordWeight", c) /\ "recordWeight" \in Places
    BY <1>2, <2>2 DEF CallOK, Registering, OfCompetitor, Places
  <2> QED
    BY <1>1, <1>4, <2>2, <2>3, ReadingTyped
<1> QED
  BY <1>3, <1>4 DEF RecordWeight

LEMMA UpdateWeightTyped ==
  ASSUME Typing, NEW h \in Handlers, NEW i \in 1..Len(competitor), NEW weight \in Weights,
         UpdateWeight(h, i, weight)
  PROVE  Typing'
<1> DEFINE c == [NoCall EXCEPT !.competitor = i, !.weight = weight]
<1>1. i \in Nat /\ weight \in MaybeWeight
  BY LenProperties DEF Typing, TypeOK, MaybeWeight
<1>2. c \in Call /\ c.competitor = i /\ c.weight = weight
  BY <1>1, NoCallType DEF Call, NoCall
<1>3. Goto(h, "updateWeight", c) /\ UNCHANGED <<setting, cap, competitor, athlete, ceiling>>
      /\ status' \in {"DRAFT", "REGISTRATION", "WEIGH_IN"}
  BY DEF UpdateWeight, competition, history, Typing, TypeOK
<1> HIDE DEF c
<1>4. CallOK("updateWeight", c) /\ "updateWeight" \in Places
  BY <1>2 DEF CallOK, Registering, OfCompetitor, Places
<1> QED
  BY <1>2, <1>3, <1>4, ReadingTyped

LEMMA WriteWithdrawalRewrites ==
  ASSUME Typing, NEW h \in Handlers, WriteWithdrawal(h)
  PROVE  /\ call[h].competitor \in 1..Len(competitor)
         /\ \E row : Rewrites(call[h].competitor, row)
         /\ Return(h) /\ UNCHANGED <<setting, competition, athlete, ceiling>>
<1> DEFINE i == call[h].competitor
<1>1. pc[h] = "withdraw" /\ CallOK(pc[h], call[h])
  BY DEF WriteWithdrawal, Typing, CallsOK
<1>2. i \in 1..Len(competitor)
  BY <1>1 DEF CallOK, OfCompetitor
<1>3. competitor[i] \in Entry
  BY <1>2, RowType
<1>4. Write(i, Withdrawn(competitor[i])) /\ Return(h) /\ UNCHANGED <<setting, competition, athlete, ceiling>>
  BY DEF WriteWithdrawal, history
<1> QED
  BY <1>2, <1>3, <1>4, WithdrawalRewrites

LEMMA WriteWeightRewrites ==
  ASSUME Typing, NEW h \in Handlers, WriteWeight(h)
  PROVE  /\ call[h].competitor \in 1..Len(competitor) /\ call[h].weight \in Weights
         /\ \E row : Rewrites(call[h].competitor, row) /\ row.weight = call[h].weight
         /\ Return(h) /\ UNCHANGED <<setting, competition, athlete, ceiling>>
<1> DEFINE i == call[h].competitor
           weight == call[h].weight
           row == [competitor[i] EXCEPT !.moved = TRUE]
           written == IF pc[h] = "recordWeight" THEN WeighedIn(row, weight) ELSE Reweighed(row, weight)
<1>1. pc[h] \in {"recordWeight", "updateWeight"} /\ CallOK(pc[h], call[h])
  BY DEF WriteWeight, Typing, CallsOK
<1>2. i \in 1..Len(competitor) /\ weight \in Weights
  BY <1>1 DEF CallOK, OfCompetitor
<1>3. competitor[i] \in Entry
  BY <1>2, RowType
<1>4. Write(i, written) /\ Return(h) /\ UNCHANGED <<setting, competition, athlete, ceiling>>
  BY DEF WriteWeight
<1>5. written \in {WeighedIn(row, weight), Reweighed(row, weight)}
  OBVIOUS
<1> HIDE DEF written
<1>6. Rewrites(i, written) /\ written.weight = weight
  BY <1>2, <1>3, <1>4, <1>5, WeightRewrites
<1> QED
  BY <1>2, <1>4, <1>6

LEMMA UpdateCapTyped ==
  ASSUME Typing, NEW n \in MaybeCap, UpdateCap(n)
  PROVE  Typing'
<1>1. UNCHANGED <<setting, status, competitor, athlete, pc, call>> /\ cap' = n
      /\ ceiling' \in {None, n, ceiling}
  BY DEF UpdateCap
<1>2. ceiling \in MaybeCap /\ ceiling' \in MaybeCap /\ cap' \in MaybeCap
  BY <1>1 DEF Typing, TypeOK, MaybeCap
<1>3. CallsOK'
  <2>1. CallsOK
    BY DEF Typing
  <2> QED
    BY <1>1, <2>1 DEF CallsOK, CallOK, ModalShows
<1> QED
  BY <1>1, <1>2, <1>3 DEF Typing, TypeOK

(* The steps there are: a call goes on, a row is rewritten, the organizer  *)
(* changes a row or the cap.                                               *)
LEMMA Steps ==
  ASSUME Typing, [Next]_vars
  PROVE  \/ \E h \in Handlers :
              \/ \E f \in Forms : Register(h, f)
              \/ FindEmail(h) \/ ReadClassAndAthlete(h) \/ CreateCompetitor(h) \/ Rollback(h)
              \/ Update(h) \/ WriteStatus(h)
              \/ \E i \in 1..Len(competitor) : WithdrawAsCoach(h, i)
              \/ \E i \in 1..Len(competitor), weight \in Weights :
                   ReadList(h, i, weight) \/ UpdateWeight(h, i, weight)
              \/ RecordWeight(h) \/ WriteWithdrawal(h) \/ WriteWeight(h)
         \/ \E i \in 1..Len(competitor) : ByOrganizer(i)
         \/ \E n \in MaybeCap : UpdateCap(n)
         \/ UNCHANGED vars
<1>1. /\ setting.handlers \subseteq Handlers /\ setting.forms \subseteq Forms
      /\ setting.caps \subseteq MaybeCap /\ setting.weights \subseteq Weights
  BY SettingType DEF Typing, TypeOK
<1>2. DOMAIN competitor = 1..Len(competitor)
  BY LenProperties DEF Typing, TypeOK
<1>3. Next \/ UNCHANGED vars
  OBVIOUS
<1>4. CASE Next
  <2>1. CASE \E h \in setting.handlers :
               \/ \E f \in setting.forms : Register(h, f)
               \/ FindEmail(h) \/ ReadClassAndAthlete(h) \/ CreateCompetitor(h) \/ Rollback(h)
               \/ Update(h) \/ WriteStatus(h)
               \/ \E i \in DOMAIN competitor :
                    \/ WithdrawAsCoach(h, i)
                    \/ \E w \in setting.weights : ReadList(h, i, w) \/ UpdateWeight(h, i, w)
               \/ RecordWeight(h) \/ WriteWithdrawal(h) \/ WriteWeight(h)
    BY <1>1, <1>2, <2>1, Zenon
  <2>2. CASE setting.byOrganizer /\ \E i \in DOMAIN competitor : ByOrganizer(i)
    BY <1>2, <2>2, Zenon
  <2>3. CASE \E n \in setting.caps : UpdateCap(n)
    BY <1>1, <2>3, Zenon
  <2> QED
    BY <1>4, <2>1, <2>2, <2>3 DEF Next
<1> QED
  BY <1>3, <1>4

LEMMA TypingInitially ==
  ASSUME Init
  PROVE  Typing
<1>1. setting.athletes \in Seq(AthleteRow) /\ setting.cap \in MaybeCap /\ setting \in Settings
  BY SettingType DEF Init
<1>2. \A h \in Handlers : pc[h] = "idle"
  BY DEF Init
<1>3. CallsOK
  BY <1>2, IdleOK DEF CallsOK
<1> QED
  BY <1>1, <1>3, NoCallType, EmptySeq DEF Init, Typing, TypeOK, Places

LEMMA TypingStep ==
  ASSUME Typing, [Next]_vars
  PROVE  Typing'
<1>1. CASE \E h \in Handlers :
             \/ \E f \in Forms : Register(h, f)
             \/ FindEmail(h) \/ ReadClassAndAthlete(h) \/ CreateCompetitor(h) \/ Rollback(h)
             \/ Update(h) \/ WriteStatus(h)
             \/ \E i \in 1..Len(competitor) : WithdrawAsCoach(h, i)
             \/ \E i \in 1..Len(competitor), weight \in Weights :
                  ReadList(h, i, weight) \/ UpdateWeight(h, i, weight)
             \/ RecordWeight(h)
  BY <1>1, RegisterTyped, FindEmailTyped, ReadClassAndAthleteTyped, CreateCompetitorTyped,
     RollbackTyped, UpdateTyped, WriteStatusTyped, WithdrawAsCoachTyped, ReadListTyped, UpdateWeightTyped,
     RecordWeightTyped
<1>2. ASSUME NEW h \in Handlers, WriteWithdrawal(h) \/ WriteWeight(h)
      PROVE  Typing'
  <2>1. PICK i \in 1..Len(competitor) :
          /\ \E row : Rewrites(i, row)
          /\ Return(h) /\ UNCHANGED <<setting, competition, athlete, ceiling>>
    BY <1>2, WriteWithdrawalRewrites, WriteWeightRewrites
  <2>2. PICK row : Rewrites(i, row)
    BY <2>1
  <2> QED
    BY <2>1, <2>2, RewritingTyped
<1>3. ASSUME NEW i \in 1..Len(competitor), ByOrganizer(i)
      PROVE  Typing'
  <2>1. competitor[i] \in Entry
    BY RowType
  <2>2. PICK row : Rewrites(i, row)
    BY <1>3, <2>1, OrganizerRewrites
  <2>3. UNCHANGED <<setting, competition, athlete, pc, call, ceiling>>
    BY <1>3 DEF ByOrganizer, history
  <2>4. Kept /\ competitor' \in Seq(Entry) /\ athlete' \in Seq(AthleteRow)
    <3>1. Len(competitor) \in Nat /\ Len(athlete) \in Nat
      BY LenProperties DEF Typing, TypeOK
    <3> QED
      BY <2>2, <2>3, <3>1, RewritesKeep DEF Kept, Typing, TypeOK
  <2>5. ASSUME NEW h \in Handlers PROVE CallOK(pc[h], call[h])'
    <3>1. ASSUME NEW there, NEW that, there = pc[h], that = call[h]
          PROVE  CallOK(there, that)'
      <4>1. CallOK(there, that)
        BY <3>1 DEF Typing, CallsOK
      <4> QED
        BY <2>4, <4>1, CallStable
    <3>2. pc' = pc /\ call' = call
      BY <2>3
    <3> QED
      BY <3>1, <3>2 DEF CallOK
  <2> QED
    BY <2>3, <2>4, <2>5 DEF Typing, TypeOK, CallsOK, competition, history
<1>4. ASSUME NEW n \in MaybeCap, UpdateCap(n)
      PROVE  Typing'
  BY <1>4, UpdateCapTyped
<1>5. CASE UNCHANGED vars
  BY <1>5 DEF vars, competition, history, Typing, TypeOK, CallsOK, CallOK, ModalShows
<1> QED
  BY <1>1, <1>2, <1>3, <1>4, <1>5, Steps

(* Every competitor, athlete and call in flight is well-formed, whatever   *)
(* overlaps: a call that is about to write knows a competitor or an        *)
(* athlete that exists, and announced the class that row will have.        *)
THEOREM TypeCorrect == Spec => []Typing
<1>1. Init => Typing
  BY TypingInitially
<1>2. Typing /\ [Next]_vars => Typing'
  BY TypingStep
<1> QED
  BY <1>1, <1>2, PTL DEF Spec

-----------------------------------------------------------------------------
(* The cap *)

(* The competitors of a class the cap is about.                            *)
Counted(class) == {j \in InClass(class) : ~competitor[j].moved}

(* Every cap a registration has read is one there has been.                *)
CapRead(c) == ceiling # None => c.cap # None /\ c.cap <= ceiling

CapsRead ==
  /\ ceiling # None => cap # None /\ cap <= ceiling
  /\ \A h \in Handlers : pc[h] \in Registering => CapRead(call[h])

(* A transaction that can still commit counted before anybody else joined  *)
(* its class.                                                              *)
RoomFor(c) ==
  ~c.doomed /\ Capped(c) => Cardinality(Counted(ClassOf(Entrant(c.form), Date))) < c.cap

RoomLeft == ceiling # None => \A h \in Handlers : pc[h] = "commit" => RoomFor(call[h])

ClassesWithinCap ==
  ceiling # None => \A class \in Class \ {None} : Cardinality(Counted(class)) <= ceiling

CapIInv == CapsRead /\ RoomLeft /\ ClassesWithinCap

LEMMA CountedType ==
  ASSUME Typing, NEW class
  PROVE  /\ InClass(class) \subseteq 1..Len(competitor) /\ Counted(class) \subseteq 1..Len(competitor)
         /\ IsFiniteSet(Counted(class)) /\ Cardinality(Counted(class)) \in Nat
         /\ Cardinality(InClass(class)) \in Nat
         /\ Cardinality(Counted(class)) <= Cardinality(InClass(class))
<1>1. DOMAIN competitor = 1..Len(competitor) /\ Len(competitor) \in Nat
  BY LenProperties DEF Typing, TypeOK
<1>2. InClass(class) \subseteq 1..Len(competitor) /\ Counted(class) \in SUBSET InClass(class)
  BY <1>1 DEF InClass, Counted
<1>3. IsFiniteSet(1..Len(competitor))
  BY <1>1, FS_Interval
<1>4. IsFiniteSet(InClass(class))
  BY <1>2, <1>3, FS_Subset
<1> QED
  BY <1>2, <1>4, FS_Subset, FS_CardinalityType

LEMMA CountedShrinks ==
  ASSUME Typing, NEW i \in 1..Len(competitor), NEW row, Rewrites(i, row), NEW class
  PROVE  /\ Cardinality(Counted(class)') \in Nat
         /\ Cardinality(Counted(class)') <= Cardinality(Counted(class))
<1>1. /\ Len(competitor') = Len(competitor) /\ competitor' \in Seq(Entry)
      /\ \A j \in 1..Len(competitor) : competitor'[j] = IF j = i THEN row ELSE competitor[j]
  BY RewritesKeep
<1>2. DOMAIN competitor = 1..Len(competitor) /\ DOMAIN competitor' = 1..Len(competitor)
  BY <1>1, LenProperties DEF Typing, TypeOK
<1>3. Counted(class)' = {j \in 1..Len(competitor) : /\ competitor'[j].status # "WITHDRAWN"
                                                    /\ RowClass(competitor'[j]) = class
                                                    /\ ~competitor'[j].moved}
  BY <1>2 DEF Counted, InClass, RowClass
<1>4. Counted(class) = {j \in 1..Len(competitor) : /\ competitor[j].status # "WITHDRAWN"
                                                   /\ RowClass(competitor[j]) = class
                                                   /\ ~competitor[j].moved}
  BY <1>2 DEF Counted, InClass
<1>5. ASSUME row.status # "WITHDRAWN", ~row.moved
      PROVE  /\ RowClass(row) = RowClass(competitor[i])
             /\ competitor[i].status # "WITHDRAWN" /\ ~competitor[i].moved
  BY <1>5 DEF Rewrites, RowClass
<1>6. Counted(class)' \in SUBSET Counted(class)
  BY <1>1, <1>3, <1>4, <1>5
<1> QED
  BY <1>6, CountedType, FS_Subset, FS_CardinalityType

LEMMA CountedGrows ==
  ASSUME Typing, NEW h \in Handlers, CreateCompetitor(h), NEW class
  PROVE  /\ ClassOf(Entrant(call[h].form), Date) # class => Counted(class)' = Counted(class)
         /\ Cardinality(Counted(class)') \in Nat
         /\ Cardinality(Counted(class)') <= Cardinality(Counted(class)) + 1
<1> DEFINE f == call[h].form
           n == Len(competitor)
<1>1. f \in Forms
  BY CreateWrites
<1>2. PICK id \in Nat : competitor' = Append(competitor, NewRow(f, id))
  BY CreateWrites
<1>3. /\ competitor' \in Seq(Entry) /\ Len(competitor') = n + 1
      /\ \A j \in 1..n : competitor'[j] = competitor[j]
  BY CreateWrites
<1>4. n \in Nat /\ DOMAIN competitor = 1..n /\ DOMAIN competitor' = 1..(n + 1)
  BY <1>3, LenProperties DEF Typing, TypeOK
<1>5. competitor'[n + 1] = NewRow(f, id)
  BY <1>2, AppendProperties DEF Typing, TypeOK
<1>6. RowClass(competitor'[n + 1]) = ClassOf(Entrant(f), Date)
  BY <1>5 DEF RowClass, NewRow, Entrant
<1>7. Counted(class)' = {j \in 1..(n + 1) : /\ competitor'[j].status # "WITHDRAWN"
                                            /\ RowClass(competitor'[j]) = class
                                            /\ ~competitor'[j].moved}
  BY <1>4 DEF Counted, InClass, RowClass
<1>8. Counted(class) = {j \in 1..n : /\ competitor[j].status # "WITHDRAWN"
                                     /\ RowClass(competitor[j]) = class
                                     /\ ~competitor[j].moved}
  BY <1>4 DEF Counted, InClass
<1>9. 1..(n + 1) = 1..n \cup {n + 1} /\ n + 1 \notin 1..n
  BY <1>4
<1> HIDE DEF n
<1>10. Counted(class)' \subseteq Counted(class) \cup {n + 1} /\ Counted(class) \subseteq Counted(class)'
  BY <1>3, <1>7, <1>8, <1>9
<1>11. ClassOf(Entrant(f), Date) # class => n + 1 \notin Counted(class)'
  BY <1>6, <1>7
<1>12. IsFiniteSet(Counted(class)) /\ Cardinality(Counted(class)) \in Nat
  BY CountedType
<1>13. IsFiniteSet(Counted(class) \cup {n + 1})
       /\ Cardinality(Counted(class) \cup {n + 1}) <= Cardinality(Counted(class)) + 1
  BY <1>12, FS_AddElement
<1>14. /\ IsFiniteSet(Counted(class)')
       /\ Cardinality(Counted(class)') <= Cardinality(Counted(class) \cup {n + 1})
  BY <1>10, <1>13, FS_Subset
<1>15. Cardinality(Counted(class)') \in Nat /\ Cardinality(Counted(class) \cup {n + 1}) \in Nat
  BY <1>13, <1>14, FS_CardinalityType
<1> QED
  BY <1>10, <1>11, <1>12, <1>13, <1>14, <1>15

(* A call goes on and joins no class.                                      *)
LEMMA CapReading ==
  ASSUME Typing, CapIInv, NEW h \in Handlers, NEW where, NEW c, Goto(h, where, c),
         UNCHANGED <<cap, ceiling, competitor>>,
         where \in Registering => CapRead(c),
         where = "commit" => RoomFor(c)
  PROVE  CapIInv'
<1>1. pc \in [Handlers -> Places] /\ call \in [Handlers -> Call]
  BY DEF Typing, TypeOK
<1>2. \A g \in Handlers : \/ pc'[g] = where /\ call'[g] = c
                          \/ pc'[g] = pc[g] /\ call'[g] = call[g]
  BY <1>1 DEF Goto
<1>3. \A g \in Handlers : pc'[g] \in Registering => CapRead(call'[g])
  BY <1>2 DEF CapIInv, CapsRead
<1>4. ceiling # None => \A g \in Handlers : pc'[g] = "commit" => RoomFor(call'[g])
  BY <1>2 DEF CapIInv, RoomLeft
<1>5. CapsRead'
  BY <1>3 DEF CapIInv, CapsRead, CapRead
<1>6. ASSUME NEW class PROVE Counted(class)' = Counted(class)
  BY DEF Counted, InClass
<1>7. RoomLeft'
  <2>1. ASSUME ceiling # None, NEW g \in Handlers, pc'[g] = "commit" PROVE RoomFor(call[g])'
    <3>1. ASSUME NEW that, that = call'[g] PROVE RoomFor(call[g])'
      <4>1. RoomFor(that)
        BY <1>4, <2>1, <3>1
      <4>2. RoomFor(that)'
        BY <1>6, <4>1 DEF RoomFor, Capped
      <4> QED
        BY <3>1, <4>2 DEF RoomFor
    <3> QED
      BY <3>1
  <2> QED
    BY <2>1 DEF RoomLeft
<1>8. ClassesWithinCap'
  BY <1>6 DEF CapIInv, ClassesWithinCap
<1> QED
  BY <1>5, <1>7, <1>8 DEF CapIInv

LEMMA CapReturn ==
  ASSUME Typing, CapIInv, NEW h \in Handlers, Return(h), UNCHANGED <<cap, ceiling, competitor>>
  PROVE  CapIInv'
<1>1. "idle" \notin Registering
  BY DEF Registering
<1> QED
  BY <1>1, CapReading DEF Return

LEMMA CapRegister ==
  ASSUME Typing, CapIInv, NEW h \in Handlers, NEW f \in Forms, Register(h, f)
  PROVE  CapIInv'
<1> DEFINE where == IF f.email = "" THEN "begin" ELSE "email"
           c == [NoCall EXCEPT !.form = f, !.cap = cap, !.shown = FormShows(f)]
<1>1. Goto(h, where, c) /\ UNCHANGED <<cap, ceiling, competitor>>
  BY DEF Register, competition, history
<1>2. where # "commit" /\ c.cap = cap
  BY DEF NoCall
<1> HIDE DEF where, c
<1>3. CapRead(c)
  BY <1>2 DEF CapIInv, CapsRead, CapRead
<1> QED
  BY <1>1, <1>2, <1>3, CapReading

LEMMA CapFindEmail ==
  ASSUME Typing, CapIInv, NEW h \in Handlers, FindEmail(h)
  PROVE  CapIInv'
<1>1. UNCHANGED <<cap, ceiling, competitor>>
  BY DEF FindEmail, competition, history
<1>2. CapRead(call[h])
  BY DEF FindEmail, CapIInv, CapsRead, Registering
<1>3. Return(h) \/ Goto(h, "begin", call[h])
  BY DEF FindEmail
<1> QED
  BY <1>1, <1>2, <1>3, CapReturn, CapReading

(* The cap is looked at in the snapshot the transaction commits on.        *)
LEMMA CapReadClassAndAthlete ==
  ASSUME Typing, CapIInv, NEW h \in Handlers, ReadClassAndAthlete(h)
  PROVE  CapIInv'
<1> DEFINE found == FindOrCreate(call[h].form)
           c == [call[h] EXCEPT !.found = found]
           class == ClassOf(Entrant(c.form), Date)
<1>1. UNCHANGED <<cap, ceiling, competitor>>
  BY DEF ReadClassAndAthlete, competition, history
<1>2. CASE Return(h)
  BY <1>1, <1>2, CapReturn
<1>3. CASE ~Full(call[h]) /\ Goto(h, "commit", c)
  <2>1. CapRead(call[h])
    BY DEF ReadClassAndAthlete, CapIInv, CapsRead, Registering
  <2>2. call[h] \in Call
    BY DEF Typing, TypeOK
  <2> HIDE DEF found
  <2>3. c.cap = call[h].cap /\ c.form = call[h].form /\ c.cap \in MaybeCap
    BY <2>2 DEF Call
  <2>4. CapRead(c)
    BY <2>1, <2>3 DEF CapRead
  <2> HIDE DEF c
  <2>5. RoomFor(c)
    <3>1. ASSUME Capped(c) PROVE Cardinality(Counted(class)) < c.cap
      <4>1. Capped(call[h]) /\ c.cap # None
        BY <2>3, <3>1 DEF Capped
      <4>2. ~(Cardinality(InClass(class)) >= c.cap)
        BY <1>3, <2>3, <4>1 DEF Full
      <4>3. c.cap \in Nat
        BY <2>3, <4>1 DEF MaybeCap
      <4> HIDE DEF class
      <4>4. /\ Cardinality(Counted(class)) \in Nat /\ Cardinality(InClass(class)) \in Nat
            /\ Cardinality(Counted(class)) <= Cardinality(InClass(class))
        BY CountedType
      <4> QED
        BY <4>2, <4>3, <4>4
    <3> QED
      BY <3>1 DEF RoomFor
  <2> QED
    BY <1>1, <1>3, <2>4, <2>5, CapReading
<1> QED
  BY <1>2, <1>3 DEF ReadClassAndAthlete

(* A row is rewritten: the classes lose, and never gain, a competitor the  *)
(* cap is about.                                                           *)
LEMMA CapRewriting ==
  ASSUME Typing, CapIInv, NEW i \in 1..Len(competitor), NEW row, Rewrites(i, row),
         UNCHANGED <<cap, ceiling>>,
         \A g \in Handlers : pc'[g] = "idle" \/ (pc'[g] = pc[g] /\ call'[g] = call[g])
  PROVE  CapIInv'
<1>1. \A g \in Handlers : pc'[g] \in Registering => CapRead(call'[g])
  BY DEF CapIInv, CapsRead, Registering
<1>2. CapsRead'
  BY <1>1 DEF CapIInv, CapsRead, CapRead
<1>3. ASSUME NEW class
      PROVE  /\ Cardinality(Counted(class)') <= Cardinality(Counted(class))
             /\ Cardinality(Counted(class)) \in Nat /\ Cardinality(Counted(class)') \in Nat
  BY CountedShrinks, CountedType
<1>4. RoomLeft'
  <2>1. ASSUME ceiling # None, NEW g \in Handlers, pc'[g] = "commit" PROVE RoomFor(call[g])'
    <3>1. pc[g] = "commit" /\ call'[g] = call[g] /\ call[g] \in Call
      BY <2>1 DEF Typing, TypeOK
    <3>2. ASSUME NEW that, that = call[g] PROVE RoomFor(that)'
      <4>1. RoomFor(that)
        BY <2>1, <3>1, <3>2 DEF CapIInv, RoomLeft
      <4>2. Capped(that) => that.cap \in Nat
        BY <3>1, <3>2 DEF Capped, Call, MaybeCap
      <4> QED
        BY <1>3, <4>1, <4>2 DEF RoomFor, Capped
    <3> QED
      BY <3>1, <3>2 DEF RoomFor
  <2> QED
    BY <2>1 DEF RoomLeft
<1>5. ClassesWithinCap'
  <2>1. ceiling # None => ceiling \in Nat
    BY DEF Typing, TypeOK, MaybeCap
  <2> QED
    BY <1>3, <2>1 DEF CapIInv, ClassesWithinCap
<1> QED
  BY <1>2, <1>4, <1>5 DEF CapIInv

(* The others that could still commit on a count of the same class have    *)
(* read what this one writes: they are doomed.                             *)
LEMMA CapCreateCompetitor ==
  ASSUME Typing, CapIInv, NEW h \in Handlers, CreateCompetitor(h)
  PROVE  CapIInv'
<1> DEFINE c == call[h]
           joined == ClassOf(Entrant(c.form), Date)
<1>1. /\ pc[h] = "commit" /\ ~c.doomed /\ UNCHANGED <<cap, ceiling>>
      /\ pc' = [pc EXCEPT ![h] = "idle"]
      /\ call' = [g \in Handlers |->
                    IF g = h THEN NoCall
                    ELSE IF pc[g] = "commit" /\ ReadEachOther(call[g], c)
                    THEN [call[g] EXCEPT !.doomed = TRUE] ELSE call[g]]
  BY DEF CreateCompetitor, competition, history
<1>2. pc \in [Handlers -> Places] /\ call \in [Handlers -> Call]
  BY DEF Typing, TypeOK
<1>3. c.form \in Forms
  BY CreateWrites
<1>4. ASSUME NEW g \in Handlers, pc'[g] \in Registering
      PROVE  /\ g # h /\ pc'[g] = pc[g] /\ call'[g].form = call[g].form /\ call'[g].cap = call[g].cap
             /\ ~call'[g].doomed => call'[g] = call[g]
                  /\ (pc[g] = "commit" => ~ReadEachOther(call[g], c))
  <2>1. g # h /\ pc'[g] = pc[g]
    BY <1>1, <1>2, <1>4 DEF Registering
  <2>2. call'[g] = IF pc[g] = "commit" /\ ReadEachOther(call[g], c)
                   THEN [call[g] EXCEPT !.doomed = TRUE] ELSE call[g]
    BY <1>1, <2>1
  <2>3. call[g] \in Call
    BY <1>2
  <2> HIDE DEF c
  <2> QED
    BY <2>1, <2>2, <2>3 DEF Call
<1>5. CapRead(c)
  BY <1>1 DEF CapIInv, CapsRead, Registering
<1>6. CapsRead'
  <2>1. \A g \in Handlers : pc'[g] \in Registering => CapRead(call'[g])
    BY <1>4 DEF CapIInv, CapsRead, CapRead
  <2> QED
    BY <1>1, <2>1 DEF CapIInv, CapsRead, CapRead
<1>7. RoomLeft'
  <2>1. ASSUME ceiling # None, NEW g \in Handlers, pc'[g] = "commit" PROVE RoomFor(call[g])'
    <3>1. CASE call'[g].doomed
      BY <3>1 DEF RoomFor
    <3>2. CASE ~call'[g].doomed
      <4>1. g # h /\ pc[g] = "commit" /\ call'[g] = call[g] /\ ~ReadEachOther(call[g], c)
        BY <1>4, <2>1, <3>2 DEF Registering
      <4>2. ASSUME NEW that, that = call[g], Capped(that)
            PROVE  joined # ClassOf(Entrant(that.form), Date)
        <5>1. that.cap # None /\ CapRead(that)
          BY <4>1, <4>2 DEF Capped, CapIInv, CapsRead, Registering
        <5>2. c.cap # None
          BY <1>5, <2>1 DEF CapRead
        <5>3. ~Capped(c) \/ that.form.gender # c.form.gender
          BY <4>1, <4>2 DEF ReadEachOther
        <5>4. CASE ~Capped(c)
          BY <4>2, <5>2, <5>4 DEF Capped
        <5>5. CASE that.form.gender # c.form.gender
          <6>1. Entrant(c.form).gender = c.form.gender /\ Entrant(that.form).gender = that.form.gender
            BY DEF Entrant
          <6>2. ClassOf(Entrant(that.form), Date) # None
            BY <4>2 DEF Capped
          <6> QED
            BY <5>5, <6>1, <6>2, ClassOfKeepsGender
        <5> QED
          BY <5>3, <5>4, <5>5
      <4>3. ASSUME NEW that, that = call[g] PROVE RoomFor(that)'
        <5>1. RoomFor(that)
          BY <2>1, <4>1, <4>3 DEF CapIInv, RoomLeft
        <5>2. Capped(that) => Counted(ClassOf(Entrant(that.form), Date))'
                                = Counted(ClassOf(Entrant(that.form), Date))
          BY <4>2, <4>3, CountedGrows
        <5> QED
          BY <5>1, <5>2 DEF RoomFor, Capped
      <4> QED
        BY <4>1, <4>3 DEF RoomFor
    <3> QED
      BY <3>1, <3>2
  <2> QED
    BY <1>1, <2>1 DEF RoomLeft
<1>8. ClassesWithinCap'
  <2>1. ASSUME ceiling # None, NEW class \in Class \ {None}
        PROVE  Cardinality(Counted(class)') <= ceiling
    <3>1. ceiling \in Nat /\ c.cap # None /\ c.cap <= ceiling /\ c.cap \in Nat
      <4>1. ceiling \in Nat /\ call[h] \in Call
        BY <2>1 DEF Typing, TypeOK, MaybeCap
      <4>2. c.cap # None /\ c.cap <= ceiling
        BY <1>5, <2>1 DEF CapRead
      <4> QED
        BY <4>1, <4>2 DEF Call, MaybeCap
    <3>2. /\ Cardinality(Counted(class)) \in Nat /\ Cardinality(Counted(class)') \in Nat
          /\ Cardinality(Counted(class)') <= Cardinality(Counted(class)) + 1
      BY CountedGrows, CountedType
    <3>3. CASE joined = class
      <4>1. class # None
        BY <2>1
      <4>2. Capped(c) /\ RoomFor(c)
        BY <1>1, <2>1, <3>1, <3>3, <4>1 DEF Capped, CapIInv, RoomLeft
      <4>3. Cardinality(Counted(class)) < c.cap
        BY <1>1, <3>3, <4>2 DEF RoomFor
      <4> HIDE DEF c, joined
      <4> QED
        BY <3>1, <3>2, <4>3
    <3>4. CASE joined # class
      <4>1. Counted(class)' = Counted(class)
        BY <3>4, CountedGrows
      <4> QED
        BY <2>1, <4>1 DEF CapIInv, ClassesWithinCap
    <3> QED
      BY <3>3, <3>4
  <2> QED
    BY <1>1, <2>1 DEF ClassesWithinCap
<1> QED
  BY <1>6, <1>7, <1>8 DEF CapIInv

LEMMA CapUpdateCap ==
  ASSUME Typing, CapIInv, NEW n \in MaybeCap, UpdateCap(n)
  PROVE  CapIInv'
<1>1. /\ cap' = n
      /\ ceiling' = IF n = None \/ ceiling = None THEN None ELSE IF n > ceiling THEN n ELSE ceiling
      /\ UNCHANGED <<competitor, pc, call>>
  BY DEF UpdateCap
<1>2. ceiling # None => ceiling \in Nat
  BY DEF Typing, TypeOK, MaybeCap
<1>3. ceiling' # None => /\ ceiling \in Nat /\ ceiling # None /\ n # None
                        /\ ceiling' \in Nat /\ ceiling <= ceiling' /\ n <= ceiling'
  BY <1>1, <1>2 DEF MaybeCap
<1>5. ASSUME NEW g \in Handlers, pc[g] \in Registering
      PROVE  CapRead(call[g])'
  <2>1. CapRead(call[g]) /\ call[g] \in Call
    BY <1>5 DEF CapIInv, CapsRead, Typing, TypeOK
  <2>2. call[g].cap # None => call[g].cap \in Nat
    BY <2>1 DEF Call, MaybeCap
  <2> QED
    BY <1>1, <1>3, <2>1, <2>2 DEF CapRead
<1>6. CapsRead'
  BY <1>1, <1>3, <1>5 DEF CapsRead
<1>7. ASSUME NEW class PROVE Counted(class)' = Counted(class)
  BY <1>1 DEF Counted, InClass
<1>8. RoomLeft'
  <2>1. ASSUME ceiling # None, NEW g \in Handlers, pc[g] = "commit" PROVE RoomFor(call[g])'
    <3>1. RoomFor(call[g])
      BY <2>1 DEF CapIInv, RoomLeft
    <3> QED
      BY <1>1, <1>7, <3>1 DEF RoomFor, Capped
  <2> QED
    BY <1>1, <1>3, <2>1 DEF RoomLeft
<1>9. ClassesWithinCap'
  <2>1. ASSUME ceiling' # None, NEW class \in Class \ {None}
        PROVE  Cardinality(Counted(class)) <= ceiling'
    <3>1. Cardinality(Counted(class)) <= ceiling /\ Cardinality(Counted(class)) \in Nat
      BY <1>3, <2>1, CountedType DEF CapIInv, ClassesWithinCap
    <3> QED
      BY <1>3, <2>1, <3>1
  <2> QED
    BY <1>7, <2>1 DEF ClassesWithinCap
<1> QED
  BY <1>6, <1>8, <1>9 DEF CapIInv

LEMMA CapInitially ==
  ASSUME Init, Typing
  PROVE  CapIInv
<1>1. cap = ceiling /\ cap \in MaybeCap /\ competitor = <<>>
  BY DEF Init, Typing, TypeOK
<1>2. \A h \in Handlers : pc[h] = "idle"
  BY DEF Init
<1>3. CapsRead
  BY <1>1, <1>2 DEF CapsRead, Registering, MaybeCap
<1>4. RoomLeft
  BY <1>2 DEF RoomLeft
<1>5. ClassesWithinCap
  <2>1. ASSUME ceiling # None, NEW class PROVE Cardinality(Counted(class)) <= ceiling
    <3>1. Counted(class) = {}
      BY <1>1 DEF Counted, InClass
    <3>2. ceiling \in Nat /\ ceiling > 0
      BY <1>1, <2>1 DEF MaybeCap
    <3> QED
      BY <3>1, <3>2, FS_EmptySet
  <2> QED
    BY <2>1 DEF ClassesWithinCap
<1> QED
  BY <1>3, <1>4, <1>5 DEF CapIInv

LEMMA CapStep ==
  ASSUME Typing, CapIInv, [Next]_vars
  PROVE  CapIInv'
<1>1. ASSUME NEW h \in Handlers,
             \/ \E f \in Forms : Register(h, f)
             \/ FindEmail(h) \/ ReadClassAndAthlete(h) \/ CreateCompetitor(h)
      PROVE  CapIInv'
  BY <1>1, CapRegister, CapFindEmail, CapReadClassAndAthlete, CapCreateCompetitor
<1>2. ASSUME NEW h \in Handlers, Rollback(h) \/ WriteStatus(h)
      PROVE  CapIInv'
  BY <1>2, CapReturn DEF Rollback, WriteStatus, competition, history
<1>3. ASSUME NEW h \in Handlers,
             \/ Update(h)
             \/ \E i \in 1..Len(competitor) : WithdrawAsCoach(h, i)
             \/ \E i \in 1..Len(competitor), weight \in Weights :
                  ReadList(h, i, weight) \/ UpdateWeight(h, i, weight)
             \/ RecordWeight(h)
      PROVE  CapIInv'
  <2>1. /\ \E where \in {"idle", "update", "withdraw", "modal", "recordWeight", "updateWeight"}, c \in {call'[h]} :
             Goto(h, where, c)
        /\ UNCHANGED <<cap, ceiling, competitor>>
    <3>1. /\ \E where \in {"idle", "update", "withdraw", "modal", "recordWeight", "updateWeight"} :
               \E c : Goto(h, where, c)
          /\ UNCHANGED <<cap, ceiling, competitor>>
      BY <1>3 DEF Update, WithdrawAsCoach, ReadList, UpdateWeight, RecordWeight, Return,
                  competition, history
    <3> QED
      BY <3>1 DEF Goto, Typing, TypeOK
  <2>2. PICK where \in {"idle", "update", "withdraw", "modal", "recordWeight", "updateWeight"} :
          Goto(h, where, call'[h])
    BY <2>1
  <2>3. ASSUME NEW c, c = call'[h] PROVE CapIInv'
    <3>1. Goto(h, where, c) /\ where \notin Registering /\ where # "commit"
      BY <2>2, <2>3 DEF Registering
    <3> QED
      BY <2>1, <3>1, CapReading
  <2> QED
    BY <2>3
<1>4. ASSUME NEW h \in Handlers, WriteWithdrawal(h) \/ WriteWeight(h)
      PROVE  CapIInv'
  <2>1. PICK i \in 1..Len(competitor) :
          /\ \E row : Rewrites(i, row)
          /\ Return(h) /\ UNCHANGED <<setting, competition, athlete, ceiling>>
    BY <1>4, WriteWithdrawalRewrites, WriteWeightRewrites
  <2>2. PICK row : Rewrites(i, row)
    BY <2>1
  <2>3. /\ UNCHANGED <<cap, ceiling>>
        /\ \A g \in Handlers : pc'[g] = "idle" \/ (pc'[g] = pc[g] /\ call'[g] = call[g])
    BY <2>1 DEF Return, Goto, competition, history, Typing, TypeOK
  <2> QED
    BY <2>2, <2>3, CapRewriting
<1>5. ASSUME NEW i \in 1..Len(competitor), ByOrganizer(i)
      PROVE  CapIInv'
  <2>1. competitor[i] \in Entry
    BY RowType
  <2>2. PICK row : Rewrites(i, row)
    BY <1>5, <2>1, OrganizerRewrites
  <2>3. UNCHANGED <<cap, ceiling, pc, call>>
    BY <1>5 DEF ByOrganizer, competition, history
  <2> QED
    BY <2>2, <2>3, CapRewriting
<1>6. ASSUME NEW n \in MaybeCap, UpdateCap(n)
      PROVE  CapIInv'
  BY <1>6, CapUpdateCap
<1>7. CASE UNCHANGED vars
  BY <1>7 DEF vars, competition, history, CapIInv, CapsRead, CapRead, RoomLeft, RoomFor, Capped,
              ClassesWithinCap, Counted, InClass
<1> QED
  BY <1>1, <1>2, <1>3, <1>4, <1>5, <1>6, <1>7, Steps

(* However registrations, withdrawals and changes of the cap overlap, a    *)
(* class never holds more registered competitors than the largest cap      *)
(* there has been, if there always was one: a transaction of register that *)
(* has seen room is alone in using it, because one that commits after it   *)
(* fails.                                                                  *)
THEOREM CapHolds == Spec => []ClassWithinCap
<1>1. Init => Typing /\ CapIInv
  BY TypingInitially, CapInitially
<1>2. Typing /\ CapIInv /\ [Next]_vars => (Typing /\ CapIInv)'
  BY TypingStep, CapStep
<1>3. Typing /\ CapIInv => ClassWithinCap
  <2> SUFFICES ASSUME Typing, CapIInv, ceiling # None, NEW i \in DOMAIN competitor,
                      RowClass(competitor[i]) # None
               PROVE  Cardinality({j \in InClass(RowClass(competitor[i])) : ~competitor[j].moved})
                        <= ceiling
    BY DEF ClassWithinCap
  <2>1. i \in 1..Len(competitor)
    BY LenProperties DEF Typing, TypeOK
  <2>2. RowClass(competitor[i]) \in Class \ {None}
    BY <2>1, RowType DEF MaybeClass
  <2> QED
    BY <2>2 DEF CapIInv, ClassesWithinCap, Counted
<1> QED
  BY <1>1, <1>2, <1>3, PTL DEF Spec

-----------------------------------------------------------------------------
(* Classes *)

LEMMA OneClassNow ==
  ASSUME Typing
  PROVE  OneClassEach
<1> SUFFICES ASSUME NEW i \in DOMAIN competitor, competitor[i].weight # None
             PROVE  Cardinality(Fitting(competitor[i].form.gender,
                                        AgeGroup(competitor[i].form.birth, Date),
                                        competitor[i].weight)) = 1
  BY DEF OneClassEach, Fitting
<1>1. competitor[i] \in Entry
  <2>1. i \in 1..Len(competitor)
    BY LenProperties DEF Typing, TypeOK
  <2> QED
    BY <2>1, RowType
<1>2. competitor[i].weight \in 1..Heaviest
  <2>1. competitor[i].weight \in Weights
    BY <1>1 DEF Entry, MaybeWeight
  <2> QED
    BY <2>1 DEF Weights, Heaviest
<1>3. PICK first : Fitting(competitor[i].form.gender, AgeGroup(competitor[i].form.birth, Date),
                           competitor[i].weight) = {first}
  BY <1>2, OneClassPerWeight
<1> QED
  BY <1>3, FS_Singleton

(* A call returns by a step of its own.                                    *)
LEMMA OwnStep ==
  ASSUME Typing, [Next]_vars, NEW h \in Handlers, pc[h] \in {"commit", "recordWeight"}, pc'[h] = "idle"
  PROVE  CreateCompetitor(h) \/ (pc[h] = "commit" /\ Rollback(h))
           \/ (pc[h] = "recordWeight" /\ WriteWeight(h))
<1>1. pc \in [Handlers -> Places]
  BY DEF Typing, TypeOK
<1>2. ASSUME NEW g \in Handlers,
             \/ \E f \in Forms : Register(g, f)
             \/ FindEmail(g) \/ ReadClassAndAthlete(g) \/ Update(g) \/ WriteStatus(g)
             \/ \E i \in 1..Len(competitor) : WithdrawAsCoach(g, i)
             \/ \E i \in 1..Len(competitor), weight \in Weights :
                  ReadList(g, i, weight) \/ UpdateWeight(g, i, weight)
             \/ RecordWeight(g)
             \/ WriteWithdrawal(g)
      PROVE  FALSE
  <2>1. /\ pc[g] \in {"idle", "email", "begin", "update", "withdraw", "modal"}
        /\ \E where : pc' = [pc EXCEPT ![g] = where]
    BY <1>2 DEF Register, FindEmail, ReadClassAndAthlete, Update, WriteStatus, WithdrawAsCoach,
                ReadList, UpdateWeight, RecordWeight, WriteWithdrawal, Goto, Return
  <2> QED
    BY <1>1, <2>1
<1>3. ASSUME NEW g \in Handlers, CreateCompetitor(g) \/ Rollback(g) \/ WriteWeight(g)
      PROVE  g = h
  <2>1. pc' = [pc EXCEPT ![g] = "idle"]
    BY <1>3 DEF CreateCompetitor, Rollback, WriteWeight, Goto, Return
  <2> QED
    BY <1>1, <2>1
<1>4. ASSUME NEW i, ByOrganizer(i) PROVE FALSE
  BY <1>4 DEF ByOrganizer
<1>5. ASSUME NEW n, UpdateCap(n) PROVE FALSE
  BY <1>5 DEF UpdateCap
<1>6. ASSUME UNCHANGED vars PROVE FALSE
  BY <1>6 DEF vars
<1>7. CreateCompetitor(h) \/ Rollback(h) \/ WriteWeight(h)
  BY <1>2, <1>3, <1>4, <1>5, <1>6, Steps
<1> QED
  BY <1>7 DEF Rollback, WriteWeight

(* Until another scale weighs the competitor, the class in the page's list *)
(* is the one the server reads.                                            *)
ListOK(h) ==
  LET c == call[h]
  IN  h \notin overtaken =>
        /\ pc[h] = "modal" => c.shown.from = RowClass(competitor[c.competitor])
        /\ pc[h] = "recordWeight" => c.shown.from = c.previous

ListsOK == \A h \in Handlers : ListOK(h)

(* The class of a competitor changes only when its weight is written.      *)
ClassKept(i) == RowClass(competitor'[i]) = RowClass(competitor[i])

LEMMA ListKept ==
  ASSUME Typing, ListsOK, NEW h \in Handlers, pc'[h] = pc[h], call'[h] = call[h],
         h \in overtaken => h \in overtaken',
         pc[h] = "modal" /\ h \notin overtaken' => ClassKept(call[h].competitor)
  PROVE  ListOK(h)'
BY DEF ListsOK, ListOK, ClassKept, RowClass

LEMMA OrganizerKeepsClass ==
  ASSUME Typing, NEW i \in 1..Len(competitor), NEW j \in 1..Len(competitor),
         ByOrganizer(i) \/ Write(i, Withdrawn(competitor[i]))
  PROVE  ClassKept(j)
<1>1. competitor \in Seq(Entry)
  BY DEF Typing, TypeOK
<1>2. competitor[i] \in Entry
  BY RowType
<1>3. PICK row : Write(i, row) /\ row.form = competitor[i].form /\ row.weight = competitor[i].weight
  <2>1. CASE Write(i, Withdrawn(competitor[i])) \/ Write(i, Disqualified(competitor[i]))
    <3>1. ASSUME NEW row, row \in {Withdrawn(competitor[i]), Disqualified(competitor[i])}
          PROVE  row.form = competitor[i].form /\ row.weight = competitor[i].weight
      BY <1>2, <3>1 DEF Withdrawn, Disqualified, Entry
    <3> QED
      BY <2>1, <3>1
  <2>2. ASSUME NEW s, NEW moved, NEW row,
               row = WithStatus([competitor[i] EXCEPT !.moved = moved], s)
        PROVE  row.form = competitor[i].form /\ row.weight = competitor[i].weight
    BY <1>2, <2>2 DEF WithStatus, Entry
  <2>3. CASE \E s \in RegistrationStatuses :
               Write(i, WithStatus([competitor[i] EXCEPT
                                      !.moved = @ \/ competitor[i].status = "WITHDRAWN"], s))
    BY <2>2, <2>3
  <2> QED
    BY <2>1, <2>3 DEF ByOrganizer
<1>4. competitor'[j] = IF j = i THEN row ELSE competitor[j]
  BY <1>1, <1>3, LenProperties DEF Write
<1> QED
  BY <1>3, <1>4 DEF ClassKept, RowClass

LEMMA ListsStep ==
  ASSUME Typing, ListsOK, [Next]_vars
  PROVE  ListsOK'
<1>1. /\ pc \in [Handlers -> Places] /\ call \in [Handlers -> Call]
      /\ \A g \in Handlers : pc[g] = "modal" => call[g].competitor \in 1..Len(competitor)
  BY DEF Typing, TypeOK, CallsOK, CallOK, OfCompetitor
<1>2. ASSUME UNCHANGED <<competitor, overtaken>>, NEW h \in Handlers, NEW where,
             where \notin {"modal", "recordWeight"}, NEW c, Goto(h, where, c)
      PROVE  ListsOK'
  <2>1. ASSUME NEW g \in Handlers PROVE ListOK(g)'
    <3>1. CASE g = h
      <4>1. pc'[g] = where
        BY <1>1, <1>2, <3>1 DEF Goto
      <4> QED
        BY <1>2, <4>1 DEF ListOK
    <3>2. CASE g # h
      <4>1. pc'[g] = pc[g] /\ call'[g] = call[g]
        BY <1>1, <1>2, <3>2 DEF Goto
      <4> QED
        BY <1>2, <4>1, ListKept DEF ClassKept
    <3> QED
      BY <3>1, <3>2
  <2> QED
    BY <2>1 DEF ListsOK
<1>3. ASSUME NEW h \in Handlers,
             \/ \E f \in Forms : Register(h, f)
             \/ FindEmail(h) \/ ReadClassAndAthlete(h) \/ Rollback(h) \/ Update(h) \/ WriteStatus(h)
             \/ \E i \in 1..Len(competitor) : WithdrawAsCoach(h, i)
             \/ \E i \in 1..Len(competitor), weight \in Weights : UpdateWeight(h, i, weight)
      PROVE  ListsOK'
  <2>1. /\ UNCHANGED <<competitor, overtaken>>
        /\ \E where : where \notin {"modal", "recordWeight"} /\ \E c : Goto(h, where, c)
    BY <1>3 DEF Register, FindEmail, ReadClassAndAthlete, Rollback, Update, WriteStatus,
                WithdrawAsCoach, UpdateWeight, Return, history
  <2> QED
    BY <1>2, <2>1
<1>4. ASSUME NEW h \in Handlers, CreateCompetitor(h)
      PROVE  ListsOK'
  <2>1. \A j \in 1..Len(competitor) : ClassKept(j)
    BY <1>4, CreateWrites DEF ClassKept
  <2>2. /\ pc' = [pc EXCEPT ![h] = "idle"] /\ overtaken' = overtaken
        /\ \A g \in Handlers : g # h /\ pc[g] # "commit" => call'[g] = call[g]
    BY <1>4 DEF CreateCompetitor, history
  <2>3. ASSUME NEW g \in Handlers PROVE ListOK(g)'
    <3>1. CASE g = h \/ pc[g] = "commit"
      <4>1. pc'[g] \notin {"modal", "recordWeight"}
        BY <1>1, <2>2, <3>1
      <4> QED
        BY <4>1 DEF ListOK
    <3>2. CASE ~(g = h \/ pc[g] = "commit")
      <4>1. pc'[g] = pc[g] /\ call'[g] = call[g]
        BY <1>1, <2>2, <3>2
      <4> QED
        BY <1>1, <2>1, <2>2, <4>1, ListKept
    <3> QED
      BY <3>1, <3>2
  <2> QED
    BY <2>3 DEF ListsOK
<1>5. ASSUME NEW h \in Handlers, NEW i \in 1..Len(competitor), NEW weight \in Weights,
             ReadList(h, i, weight)
      PROVE  ListsOK'
  <2> DEFINE c == [NoCall EXCEPT !.competitor = i, !.weight = weight,
                                 !.shown = ModalShows(competitor[i], weight)]
  <2>1. Goto(h, "modal", c) /\ competitor' = competitor /\ overtaken' = overtaken \ {h}
    BY <1>5 DEF ReadList
  <2>2. c.competitor = i /\ c.shown = ModalShows(competitor[i], weight)
    BY DEF NoCall
  <2> HIDE DEF c
  <2>3. ASSUME NEW g \in Handlers PROVE ListOK(g)'
    <3>1. CASE g = h
      <4>1. pc'[g] = "modal" /\ call'[g] = c
        BY <1>1, <2>1, <3>1 DEF Goto
      <4>2. c.shown.from = RowClass(competitor[i])
        BY <2>2 DEF ModalShows
      <4> QED
        BY <2>1, <2>2, <4>1, <4>2 DEF ListOK, RowClass
    <3>2. CASE g # h
      <4>1. pc'[g] = pc[g] /\ call'[g] = call[g]
        BY <1>1, <2>1, <3>2 DEF Goto
      <4> QED
        BY <2>1, <3>2, <4>1, ListKept DEF ClassKept
    <3> QED
      BY <3>1, <3>2
  <2> QED
    BY <2>3 DEF ListsOK
<1>6. ASSUME NEW h \in Handlers, RecordWeight(h)
      PROVE  ListsOK'
  <2> DEFINE previous == RowClass(competitor[call[h].competitor])
             c == [call[h] EXCEPT !.previous = previous]
  <2>1. pc[h] = "modal" /\ UNCHANGED <<competitor, overtaken>>
        /\ (Goto(h, "recordWeight", c) \/ Return(h))
    BY <1>6 DEF RecordWeight, history
  <2>2. CASE Return(h)
    BY <1>2, <2>1, <2>2 DEF Return
  <2>3. CASE Goto(h, "recordWeight", c)
    <3>1. c.previous = previous /\ c.shown = call[h].shown
      BY <1>1 DEF Call
    <3> HIDE DEF c
    <3>2. ASSUME NEW g \in Handlers PROVE ListOK(g)'
      <4>1. CASE g = h
        <5>1. pc'[g] = "recordWeight" /\ call'[g] = c
          BY <1>1, <2>3, <4>1 DEF Goto
        <5>2. h \notin overtaken => call[h].shown.from = previous
          BY <2>1 DEF ListsOK, ListOK
        <5> QED
          BY <2>1, <3>1, <4>1, <5>1, <5>2 DEF ListOK
      <4>2. CASE g # h
        <5>1. pc'[g] = pc[g] /\ call'[g] = call[g]
          BY <1>1, <2>3, <4>2 DEF Goto
        <5> QED
          BY <2>1, <5>1, ListKept DEF ClassKept
      <4> QED
        BY <4>1, <4>2
    <3> QED
      BY <3>2 DEF ListsOK
  <2> QED
    BY <2>1, <2>2, <2>3
<1>7. ASSUME NEW h \in Handlers, WriteWithdrawal(h) \/ WriteWeight(h)
      PROVE  ListsOK'
  <2> DEFINE i == call[h].competitor
  <2>1. i \in 1..Len(competitor) /\ Return(h)
    BY <1>7, WriteWithdrawalRewrites, WriteWeightRewrites
  <2>2. \/ overtaken' = overtaken /\ \A j \in 1..Len(competitor) : ClassKept(j)
        \/ /\ overtaken' = overtaken \cup {g \in Handlers : pc[g] = "modal" /\ call[g].competitor = i}
           /\ \A j \in 1..Len(competitor) : j # i => ClassKept(j)
    <3>1. CASE WriteWithdrawal(h)
      BY <2>1, <3>1, OrganizerKeepsClass DEF WriteWithdrawal, history
    <3>2. CASE WriteWeight(h)
      <4>1. PICK row : Rewrites(i, row)
        BY <3>2, WriteWeightRewrites
      <4>2. \A j \in 1..Len(competitor) : j # i => ClassKept(j)
        BY <2>1, <4>1, RewritesKeep DEF ClassKept
      <4> QED
        BY <3>2, <4>2 DEF WriteWeight
    <3> QED
      BY <1>7, <3>1, <3>2
  <2>3. ASSUME NEW g \in Handlers PROVE ListOK(g)'
    <3>1. CASE g = h
      <4>1. pc'[g] = "idle"
        BY <1>1, <2>1, <3>1 DEF Return, Goto
      <4> QED
        BY <4>1 DEF ListOK
    <3>2. CASE g # h
      <4>1. pc'[g] = pc[g] /\ call'[g] = call[g]
        BY <1>1, <2>1, <3>2 DEF Return, Goto
      <4>2. overtaken \subseteq overtaken'
        BY <2>2
      <4>3. pc[g] = "modal" /\ g \notin overtaken' => ClassKept(call[g].competitor)
        BY <1>1, <2>2
      <4> QED
        BY <4>1, <4>2, <4>3, ListKept
    <3> QED
      BY <3>1, <3>2
  <2> QED
    BY <2>3 DEF ListsOK
<1>8. ASSUME NEW i \in 1..Len(competitor), ByOrganizer(i)
      PROVE  ListsOK'
  <2>1. UNCHANGED <<pc, call, overtaken>> /\ \A j \in 1..Len(competitor) : ClassKept(j)
    BY <1>8, OrganizerKeepsClass DEF ByOrganizer, history
  <2> QED
    BY <1>1, <2>1, ListKept DEF ListsOK
<1>9. ASSUME UNCHANGED <<competitor, pc, call, overtaken>>
      PROVE  ListsOK'
  BY <1>9 DEF ListsOK, ListOK, RowClass
<1>10. ASSUME NEW n \in MaybeCap, UpdateCap(n) PROVE ListsOK'
  BY <1>9, <1>10 DEF UpdateCap
<1>11. ASSUME UNCHANGED vars PROVE ListsOK'
  BY <1>9, <1>11 DEF vars, history
<1> QED
  BY <1>3, <1>4, <1>5, <1>6, <1>7, <1>8, <1>10, <1>11, Steps

LEMMA AnnouncedStep ==
  ASSUME Typing, ListsOK, [Next]_vars, NEW h \in Handlers
  PROVE  AsAnnounced(h)
<1> DEFINE c == call[h]
<1>1. CallOK(pc[h], c) /\ setting \in Settings
  BY DEF Typing, TypeOK, CallsOK
<1>2. ASSUME pc[h] = "recordWeight", pc'[h] = "idle",
             ReadAlike(competitor'[c.competitor].form.birth)
      PROVE  /\ RowClass(competitor'[c.competitor]) = c.shown.class
             /\ h \notin overtaken => c.shown.from = c.previous
  <2>1. WriteWeight(h)
    BY <1>2, OwnStep DEF CreateCompetitor
  <2>2. PICK row : Rewrites(c.competitor, row) /\ row.weight = c.weight
    BY <2>1, WriteWeightRewrites
  <2>3. c.competitor \in 1..Len(competitor) /\ c.weight \in MaybeWeight
    BY <2>1, WriteWeightRewrites DEF MaybeWeight
  <2>4. competitor'[c.competitor] = row
    BY <2>2, <2>3, RewritesKeep
  <2>5. row.form = competitor[c.competitor].form /\ row.form \in Forms
    BY <2>2 DEF Rewrites, Entry
  <2>6. RowClass(row) = ClassOf(Weighed(row.form, c.weight), Date)
    BY <2>2 DEF RowClass, Weighed
  <2>7. ModalShows(competitor[c.competitor], c.weight).class
          = Preview(Weighed(row.form, c.weight), Date, setting.zone)
    BY <2>5 DEF ModalShows, Weighed
  <2>8. Preview(Weighed(row.form, c.weight), Date, setting.zone)
          = ClassOf(Weighed(row.form, c.weight), Date)
    BY <1>1, <1>2, <2>3, <2>4, <2>5, PageAgrees
  <2>9. h \notin overtaken => c.shown.from = c.previous
    BY <1>2 DEF ListsOK, ListOK
  <2> QED
    BY <1>1, <1>2, <2>4, <2>6, <2>7, <2>8, <2>9 DEF CallOK
<1>3. ASSUME pc[h] = "commit", pc'[h] = "idle", Len(competitor') > Len(competitor),
             ReadAlike(competitor'[Len(competitor')].form.birth)
      PROVE  RowClass(competitor'[Len(competitor')]) = c.shown.class
  <2>1. CreateCompetitor(h)
    <3>1. ~Rollback(h)
      BY <1>3, LenProperties DEF Rollback, Typing, TypeOK
    <3> QED
      BY <1>3, <3>1, OwnStep
  <2>2. PICK id \in Nat : competitor' = Append(competitor, NewRow(c.form, id))
    BY <2>1, CreateWrites
  <2>3. Len(competitor') = Len(competitor) + 1 /\ c.form \in Forms
    BY <2>1, CreateWrites
  <2>4. competitor'[Len(competitor')] = NewRow(c.form, id)
    BY <2>2, <2>3, AppendProperties DEF Typing, TypeOK
  <2>5. RowClass(NewRow(c.form, id)) = ClassOf(Entrant(c.form), Date)
    BY DEF RowClass, NewRow, Entrant
  <2>6. Preview(Entrant(c.form), Date, setting.zone) = ClassOf(Entrant(c.form), Date)
    <3>1. ReadAlike(c.form.birth)
      BY <1>3, <2>4 DEF NewRow
    <3>2. c.form.weight \in MaybeWeight /\ Entrant(c.form) = Weighed(c.form, c.form.weight)
      BY <2>3, FormType, AsEntered
    <3> HIDE DEF c
    <3> QED
      BY <1>1, <2>3, <3>1, <3>2, PageAgrees
  <2> QED
    BY <1>1, <1>3, <2>4, <2>5, <2>6 DEF CallOK, Registering
<1> QED
  BY <1>2, <1>3 DEF AsAnnounced

(* Every competitor with a weight is in exactly one class, and each        *)
(* registration and weigh-in puts a competitor in the class the page       *)
(* announced, from its own tables and in its own zone: for every form and  *)
(* weight the server lets through, on every day of competition, with any   *)
(* number of pages.  The modal and the server disagree about a bump only   *)
(* if another scale has weighed the competitor since the page read it.     *)
THEOREM ClassesAsAnnounced == Spec => OneClassAsAnnounced
<1>1. Init => Typing /\ ListsOK
  <2>1. Init => ListsOK
    BY DEF Init, ListsOK, ListOK
  <2> QED
    BY <2>1, TypingInitially
<1>2. Typing /\ ListsOK /\ [Next]_vars => (Typing /\ ListsOK)'
  BY TypingStep, ListsStep
<1>3. Typing => OneClassEach
  BY OneClassNow
<1>4. Typing /\ ListsOK /\ [Next]_vars => [\A h \in Handlers : AsAnnounced(h)]_vars
  BY AnnouncedStep
<1> QED
  BY <1>1, <1>2, <1>3, <1>4, PTL DEF Spec, OneClassAsAnnounced, ClassAsAnnounced

-----------------------------------------------------------------------------
(* Athletes *)

LEMMA EntriesInitially ==
  ASSUME Init, Typing
  PROVE  NoAthleteWithoutEntry
<1>1. athlete = setting.athletes /\ DOMAIN athlete = 1..Len(athlete) /\ Len(athlete) \in Nat
  BY LenProperties DEF Init, Typing, TypeOK
<1> QED
  BY <1>1 DEF NoAthleteWithoutEntry

LEMMA EntriesStep ==
  ASSUME Typing, NoAthleteWithoutEntry, [Next]_vars
  PROVE  NoAthleteWithoutEntry'
<1>1. /\ DOMAIN athlete = 1..Len(athlete) /\ Len(athlete) \in Nat
      /\ DOMAIN competitor = 1..Len(competitor) /\ Len(competitor) \in Nat
  BY LenProperties DEF Typing, TypeOK
<1>2. CASE UNCHANGED <<setting, athlete, competitor>>
  BY <1>2 DEF NoAthleteWithoutEntry
<1>3. ASSUME NEW i \in 1..Len(competitor), NEW row, Rewrites(i, row), UNCHANGED <<setting, athlete>>
      PROVE  NoAthleteWithoutEntry'
  <2>1. DOMAIN competitor' = DOMAIN competitor
        /\ \A j \in DOMAIN competitor : competitor'[j].athlete = competitor[j].athlete
    BY <1>1, <1>3, RewritesKeep, LenProperties
  <2> QED
    BY <1>3, <2>1 DEF NoAthleteWithoutEntry
<1>4. ASSUME NEW h \in Handlers, CreateCompetitor(h)
      PROVE  NoAthleteWithoutEntry'
  <2>1. PICK id \in Nat :
          /\ competitor' = Append(competitor, NewRow(call[h].form, id))
          /\ id \in 1..Len(athlete')
          /\ Len(athlete') > Len(athlete) => Len(athlete') = Len(athlete) + 1 /\ id = Len(athlete')
    BY <1>4, CreateWrites
  <2>2. /\ competitor' \in Seq(Entry) /\ Len(competitor') = Len(competitor) + 1
        /\ \A j \in 1..Len(competitor) : competitor'[j] = competitor[j]
        /\ athlete' \in Seq(AthleteRow) /\ Len(athlete) <= Len(athlete')
    BY <1>4, CreateWrites
  <2>3. /\ DOMAIN athlete' = 1..Len(athlete') /\ Len(athlete') \in Nat
        /\ DOMAIN competitor' = 1..(Len(competitor) + 1)
    BY <2>2, LenProperties
  <2>4. competitor'[Len(competitor) + 1].athlete = id
    BY <2>1, AppendProperties DEF Typing, TypeOK, NewRow
  <2>5. setting' = setting
    BY <1>4 DEF CreateCompetitor
  <2>6. ASSUME NEW i \in 1..Len(athlete'), i > Len(setting.athletes)
        PROVE  \E j \in 1..(Len(competitor) + 1) : competitor'[j].athlete = i
    <3>1. CASE i \in 1..Len(athlete)
      <4>1. i \in DOMAIN athlete
        BY <1>1, <3>1
      <4>2. PICK j \in DOMAIN competitor : competitor[j].athlete = i
        BY <2>6, <4>1 DEF NoAthleteWithoutEntry
      <4> QED
        BY <1>1, <2>2, <4>2
    <3>2. CASE i \notin 1..Len(athlete)
      <4>1. i = id
        <5> DEFINE n == Len(athlete)
                   m == Len(athlete')
        <5>1. n \in Nat /\ m \in Nat /\ i \in 1..m /\ i \notin 1..n
          BY <1>1, <2>3, <3>2
        <5>2. m > n => m = n + 1 /\ id = m
          BY <2>1
        <5> HIDE DEF n, m
        <5> QED
          BY <5>1, <5>2
      <4> QED
        BY <1>1, <2>4, <4>1
    <3> QED
      BY <3>1, <3>2
  <2> QED
    BY <2>3, <2>5, <2>6 DEF NoAthleteWithoutEntry
<1>5. ASSUME NEW h \in Handlers, WriteWithdrawal(h) \/ WriteWeight(h)
      PROVE  NoAthleteWithoutEntry'
  <2>1. PICK i \in 1..Len(competitor) :
          /\ \E row : Rewrites(i, row)
          /\ Return(h) /\ UNCHANGED <<setting, competition, athlete, ceiling>>
    BY <1>5, WriteWithdrawalRewrites, WriteWeightRewrites
  <2> QED
    BY <1>3, <2>1
<1>6. ASSUME NEW i \in 1..Len(competitor), ByOrganizer(i)
      PROVE  NoAthleteWithoutEntry'
  <2>1. competitor[i] \in Entry
    BY RowType
  <2>2. PICK row : Rewrites(i, row)
    BY <1>6, <2>1, OrganizerRewrites
  <2>3. UNCHANGED <<setting, athlete>>
    BY <1>6 DEF ByOrganizer
  <2> QED
    BY <1>3, <2>2, <2>3
<1>7. ASSUME NEW h \in Handlers,
             \/ \E f \in Forms : Register(h, f)
             \/ FindEmail(h) \/ ReadClassAndAthlete(h) \/ Rollback(h) \/ Update(h) \/ WriteStatus(h)
             \/ \E i \in 1..Len(competitor) : WithdrawAsCoach(h, i)
             \/ \E i \in 1..Len(competitor), weight \in Weights :
                  ReadList(h, i, weight) \/ UpdateWeight(h, i, weight)
             \/ RecordWeight(h)
      PROVE  UNCHANGED <<setting, athlete, competitor>>
  BY <1>7 DEF Register, FindEmail, ReadClassAndAthlete, Rollback, Update, WriteStatus,
              WithdrawAsCoach, ReadList, UpdateWeight, RecordWeight
<1>8. ASSUME NEW n, UpdateCap(n) PROVE UNCHANGED <<setting, athlete, competitor>>
  BY <1>8 DEF UpdateCap
<1>9. ASSUME UNCHANGED vars PROVE UNCHANGED <<setting, athlete, competitor>>
  BY <1>9 DEF vars
<1> QED
  BY <1>2, <1>4, <1>5, <1>6, <1>7, <1>8, <1>9, Steps

(* A registration that fails, at whatever point, leaves no athlete behind. *)
THEOREM NoAthleteLeft == Spec => []NoAthleteWithoutEntry
<1>1. Init => Typing /\ NoAthleteWithoutEntry
  BY TypingInitially, EntriesInitially
<1>2. Typing /\ NoAthleteWithoutEntry /\ [Next]_vars => (Typing /\ NoAthleteWithoutEntry)'
  BY TypingStep, EntriesStep
<1> QED
  BY <1>1, <1>2, PTL DEF Spec

-----------------------------------------------------------------------------
(* Identity *)

UniqueKeys ==
  \A i, j \in 1..Len(athlete), k \in Keys :
    i # j => athlete[i][k] = None \/ athlete[j][k] # athlete[i][k]

Anonymous(f) == \A k \in Keys : f[k] = ""

(* A competitor with keys has an athlete with the same, and one without    *)
(* has an athlete of their own that nobody will find.                      *)
Entered ==
  \A i \in 1..Len(competitor) :
    LET c == competitor[i]
    IN  /\ c.athlete \in 1..Len(athlete)
        /\ \A k \in Keys : c.form[k] # "" => athlete[c.athlete][k] = c.form[k]
        /\ Anonymous(c.form) =>
             /\ \A k \in Keys : athlete[c.athlete][k] = None
             /\ \A j \in 1..Len(competitor) : j # i => competitor[j].athlete # c.athlete

(* What has been found for a form: a new athlete, or one with one of its   *)
(* keys, that has lost none since.                                         *)
FoundFor(f, found) ==
  \/ /\ found.id = 0
     /\ found.row = [email |-> Key(f.email), licence |-> Key(f.licence)]
  \/ /\ found.id \in 1..Len(athlete)
     /\ \A k \in Keys : found.before[k] # None => athlete[found.id][k] = found.before[k]
     /\ \A k \in Keys : found.row[k] = IF found.before[k] = None THEN Key(f[k]) ELSE found.before[k]
     /\ \E k \in Keys : f[k] # "" /\ found.before[k] = f[k]

FoundOK == \A h \in Handlers : pc[h] = "commit" => FoundFor(call[h].form, call[h].found)

IdentityIInv ==
  /\ UniqueKeys
  /\ \A i \in 1..Len(athlete) : OfOnePerson(athlete[i])
  /\ Entered
  /\ FoundOK

LEMMA KeyGiven ==
  ASSUME NEW f \in Forms, NEW k \in Keys
  PROVE  /\ f[k] \in STRING /\ f[k] # None
         /\ f[k] # "" => Key(f[k]) = f[k] /\ Key(f[k]) # None
         /\ f[k] = "" => Key(f[k]) = None
<1>1. f[k] \in STRING
  BY FormType DEF Keys
<1>2. None \notin STRING
  BY RegistrationTypes
<1> QED
  BY <1>1, <1>2 DEF Key

(* Two keys that a row has of a form and of another are of one person.     *)
LEMMA RowOfForm ==
  ASSUME OneIdentity, NEW form \in Forms, NEW row,
         \A k \in Keys : row[k] = Key(form[k])
  PROVE  OfOnePerson(row)
<1>1. ASSUME NEW g \in Forms, NEW d \in Forms, NEW k \in Keys, NEW l \in Keys,
             g[k] # "", row[k] = g[k], d[l] # "", row[l] # None
      PROVE  row[l] = d[l] <=> g.person = d.person
  <2>1. form[k] # "" /\ row[k] = form[k] /\ form[l] # "" /\ row[l] = form[l]
    BY <1>1, KeyGiven
  <2>2. form[k] = g[k] <=> form.person = g.person
    BY <1>1, <2>1 DEF OneIdentity
  <2>3. form[l] = d[l] <=> form.person = d.person
    BY <1>1, <2>1 DEF OneIdentity
  <2> QED
    BY <1>1, <2>1, <2>2, <2>3
<1>2. ASSUME NEW g \in Forms, NEW d \in Forms, NEW k \in Keys, NEW l \in Keys
      PROVE  g[k] # "" /\ row[k] = g[k] /\ d[l] # "" /\ row[l] # None =>
               (row[l] = d[l] <=> g.person = d.person)
  BY <1>1
<1> QED
  BY <1>2 DEF OfOnePerson

(* A key that the athlete lacked is given by the form.                     *)
LEMMA KeyFilled ==
  ASSUME NEW row \in AthleteRow, NEW f, NEW key \in Keys
  PROVE  \A k \in Keys :
           (IF row[key] = None THEN [row EXCEPT ![key] = Key(f[key])] ELSE row)[k]
             = IF k = key /\ row[key] = None THEN Key(f[k]) ELSE row[k]
<1>1. ASSUME NEW k \in Keys, NEW value
      PROVE  [row EXCEPT ![key] = value][k] = IF k = key THEN value ELSE row[k]
  BY DEF AthleteRow, Keys
<1> QED
  BY <1>1

LEMMA FoundMatches ==
  ASSUME Typing, NEW f \in Forms
  PROVE  FoundFor(f, FindOrCreate(f))
<1> DEFINE email == Key(f.email)
           licence == Key(f.licence)
           byEmail == With(athlete, "email", email)
           byLicence == With(athlete, "licence", licence)
           first == CHOOSE i \in byEmail : TRUE
           second == CHOOSE i \in byLicence : TRUE
<1>1. athlete \in Seq(AthleteRow) /\ DOMAIN athlete = 1..Len(athlete)
  BY LenProperties DEF Typing, TypeOK
<1>2. \A i \in 1..Len(athlete) : athlete[i] \in AthleteRow
  BY <1>1, ElementOfSeq
<1>3. /\ email = Key(f["email"]) /\ licence = Key(f["licence"])
      /\ email # None => f["email"] # "" /\ email = f["email"]
      /\ licence # None => f["licence"] # "" /\ licence = f["licence"]
  BY DEF Key
<1>4. CASE byEmail # {}
  <2>1. first \in byEmail
    BY <1>4
  <2>2. first \in 1..Len(athlete) /\ email # None /\ athlete[first]["email"] = email
    BY <1>1, <2>1 DEF With
  <2>3. FindOrCreate(f) =
          [id |-> first, before |-> athlete[first],
           row |-> IF athlete[first]["licence"] = None
                   THEN [athlete[first] EXCEPT !["licence"] = licence] ELSE athlete[first]]
    BY <1>4 DEF FindOrCreate
  <2> HIDE DEF first, byEmail
  <2>4. athlete[first] \in AthleteRow
    BY <1>2, <2>2
  <2>5. \A k \in Keys : FindOrCreate(f).row[k] =
                          IF athlete[first][k] = None THEN Key(f[k]) ELSE athlete[first][k]
    <3>1. athlete[first]["email"] # None
      BY <2>2
    <3>2. "licence" \in Keys /\ \A k \in Keys : k = "email" \/ k = "licence"
      BY DEF Keys
    <3>3. FindOrCreate(f).row = IF athlete[first]["licence"] = None
                                THEN [athlete[first] EXCEPT !["licence"] = Key(f["licence"])]
                                ELSE athlete[first]
      <4>1. FindOrCreate(f).row = IF athlete[first]["licence"] = None
                                  THEN [athlete[first] EXCEPT !["licence"] = licence] ELSE athlete[first]
        <5> HIDE DEF email, licence
        <5> QED
          BY <2>3
      <4> HIDE DEF email, licence
      <4> QED
        BY <1>3, <4>1
    <3>4. \A k \in Keys : FindOrCreate(f).row[k] =
            IF k = "licence" /\ athlete[first]["licence"] = None THEN Key(f[k]) ELSE athlete[first][k]
      BY <2>4, <3>2, <3>3, KeyFilled
    <3> QED
      BY <3>1, <3>2, <3>4
  <2>6. FindOrCreate(f).id = first /\ FindOrCreate(f).before = athlete[first]
    BY <2>3
  <2>7. \E k \in Keys : f[k] # "" /\ FindOrCreate(f).before[k] = f[k]
    BY <1>3, <2>2, <2>6 DEF Keys
  <2> QED
    BY <2>2, <2>5, <2>6, <2>7 DEF FoundFor
<1>5. CASE byEmail = {} /\ byLicence # {}
  <2>1. second \in byLicence
    BY <1>5
  <2>2. second \in 1..Len(athlete) /\ licence # None /\ athlete[second]["licence"] = licence
    BY <1>1, <2>1 DEF With
  <2>3. FindOrCreate(f) =
          [id |-> second, before |-> athlete[second],
           row |-> IF athlete[second]["email"] = None
                   THEN [athlete[second] EXCEPT !["email"] = email] ELSE athlete[second]]
    BY <1>5 DEF FindOrCreate
  <2> HIDE DEF second, byLicence
  <2>4. athlete[second] \in AthleteRow
    BY <1>2, <2>2
  <2>5. \A k \in Keys : FindOrCreate(f).row[k] =
                          IF athlete[second][k] = None THEN Key(f[k]) ELSE athlete[second][k]
    <3>1. athlete[second]["licence"] # None
      BY <2>2
    <3>2. "email" \in Keys /\ \A k \in Keys : k = "email" \/ k = "licence"
      BY DEF Keys
    <3>3. FindOrCreate(f).row = IF athlete[second]["email"] = None
                                THEN [athlete[second] EXCEPT !["email"] = Key(f["email"])]
                                ELSE athlete[second]
      <4>1. FindOrCreate(f).row = IF athlete[second]["email"] = None
                                  THEN [athlete[second] EXCEPT !["email"] = email] ELSE athlete[second]
        <5> HIDE DEF email, licence
        <5> QED
          BY <2>3
      <4> HIDE DEF email, licence
      <4> QED
        BY <1>3, <4>1
    <3>4. \A k \in Keys : FindOrCreate(f).row[k] =
            IF k = "email" /\ athlete[second]["email"] = None THEN Key(f[k]) ELSE athlete[second][k]
      BY <2>4, <3>2, <3>3, KeyFilled
    <3> QED
      BY <3>1, <3>2, <3>4
  <2>6. FindOrCreate(f).id = second /\ FindOrCreate(f).before = athlete[second]
    BY <2>3
  <2>7. \E k \in Keys : f[k] # "" /\ FindOrCreate(f).before[k] = f[k]
    BY <1>3, <2>2, <2>6 DEF Keys
  <2> QED
    BY <2>2, <2>5, <2>6, <2>7 DEF FoundFor
<1>6. CASE byEmail = {} /\ byLicence = {}
  <2>1. FindOrCreate(f) = [id |-> 0, before |-> None, row |-> [email |-> email, licence |-> licence]]
    BY <1>6 DEF FindOrCreate
  <2> QED
    BY <2>1 DEF FoundFor
<1> QED
  BY <1>4, <1>5, <1>6

(* No athlete is lost, and none loses a key.                               *)
Grown ==
  /\ Len(athlete) <= Len(athlete')
  /\ \A i \in 1..Len(athlete), k \in Keys : athlete[i][k] # None => athlete'[i][k] = athlete[i][k]

LEMMA FoundStable ==
  ASSUME Typing, athlete' \in Seq(AthleteRow), Grown, NEW f, NEW found, FoundFor(f, found)
  PROVE  FoundFor(f, found)'
<1>1. Len(athlete) \in Nat /\ Len(athlete') \in Nat
  BY LenProperties DEF Typing, TypeOK
<1>2. CASE found.id \in 1..Len(athlete)
           /\ \A k \in Keys : found.before[k] # None => athlete[found.id][k] = found.before[k]
  <2>1. found.id \in 1..Len(athlete')
    BY <1>1, <1>2 DEF Grown
  <2>2. \A k \in Keys : found.before[k] # None => athlete'[found.id][k] = found.before[k]
    BY <1>2 DEF Grown
  <2> QED
    BY <2>1, <2>2 DEF FoundFor
<1> QED
  BY <1>2 DEF FoundFor

LEMMA IdentityInitially ==
  ASSUME OneIdentity, Init, Typing
  PROVE  IdentityIInv
<1>1. /\ athlete = setting.athletes /\ setting \in Settings /\ competitor = <<>>
      /\ DOMAIN athlete = 1..Len(athlete)
  BY LenProperties DEF Init, Typing, TypeOK
<1>2. UniqueKeys /\ \A i \in 1..Len(athlete) : OfOnePerson(athlete[i])
  <2>1. ASSUME NEW i \in 1..Len(athlete), NEW j \in 1..Len(athlete)
        PROVE  /\ OfOnePerson(athlete[i])
               /\ i # j => \A k \in Keys : athlete[i][k] = None \/ athlete[j][k] # athlete[i][k]
    <3>1. \A s \in Settings : \A l, m \in DOMAIN s.athletes :
            /\ OfOnePerson(s.athletes[l])
            /\ l # m => \A k \in Keys : s.athletes[l][k] = None \/ s.athletes[m][k] # s.athletes[l][k]
      BY DEF OneIdentity
    <3>2. /\ setting \in Settings /\ i \in DOMAIN setting.athletes /\ j \in DOMAIN setting.athletes
          /\ athlete = setting.athletes
      BY <1>1
    <3> QED
      BY <3>1, <3>2
  <2> QED
    BY <2>1 DEF UniqueKeys
<1>3. Entered
  <2>1. 1..Len(competitor) = {}
    BY <1>1, EmptySeq
  <2> QED
    BY <2>1 DEF Entered
<1>4. FoundOK
  BY DEF Init, FoundOK
<1> QED
  BY <1>2, <1>3, <1>4 DEF IdentityIInv

(* No athlete and no form changes, and whoever goes on has found what is   *)
(* there.                                                                  *)
LEMMA IdentityKept ==
  ASSUME Typing, IdentityIInv, athlete' = athlete, Len(competitor') = Len(competitor),
         \A j \in 1..Len(competitor) : /\ competitor'[j].form = competitor[j].form
                                       /\ competitor'[j].athlete = competitor[j].athlete,
         \A g \in Handlers : pc'[g] = "commit" => FoundFor(call'[g].form, call'[g].found)
  PROVE  IdentityIInv'
<1>1. UniqueKeys' /\ (\A i \in 1..Len(athlete) : OfOnePerson(athlete[i]))'
  BY DEF IdentityIInv, UniqueKeys
<1>2. Entered'
  <2>1. ASSUME NEW i \in 1..Len(competitor)
        PROVE  LET c == competitor'[i]
               IN  /\ c.athlete \in 1..Len(athlete)
                   /\ \A k \in Keys : c.form[k] # "" => athlete[c.athlete][k] = c.form[k]
                   /\ Anonymous(c.form) =>
                        /\ \A k \in Keys : athlete[c.athlete][k] = None
                        /\ \A j \in 1..Len(competitor) : j # i => competitor'[j].athlete # c.athlete
    <3>1. competitor'[i].form = competitor[i].form /\ competitor'[i].athlete = competitor[i].athlete
      OBVIOUS
    <3>2. LET c == competitor[i]
          IN  /\ c.athlete \in 1..Len(athlete)
              /\ \A k \in Keys : c.form[k] # "" => athlete[c.athlete][k] = c.form[k]
              /\ Anonymous(c.form) =>
                   /\ \A k \in Keys : athlete[c.athlete][k] = None
                   /\ \A j \in 1..Len(competitor) : j # i => competitor[j].athlete # c.athlete
      BY DEF IdentityIInv, Entered
    <3> QED
      BY <3>1, <3>2
  <2> QED
    BY <2>1 DEF Entered
<1>3. FoundOK'
  BY DEF FoundOK, FoundFor
<1> QED
  BY <1>1, <1>2, <1>3 DEF IdentityIInv

(* What a registration does to the athletes: it makes one of the form, or  *)
(* takes one with a key of it and gives it the other.                      *)
Enrols(f, id) ==
  /\ athlete' \in Seq(AthleteRow) /\ Grown
  /\ id \in 1..Len(athlete')
  /\ \A j \in 1..Len(athlete') : j # id => j \in 1..Len(athlete) /\ athlete'[j] = athlete[j]
  /\ \A k \in Keys : f[k] # "" => athlete'[id][k] = f[k]
  /\ \A j \in 1..Len(athlete'), k \in Keys :
       j # id => athlete'[id][k] = None \/ athlete'[j][k] # athlete'[id][k]
  /\ OfOnePerson(athlete'[id])
  /\ \/ id \notin 1..Len(athlete) /\ \A k \in Keys : athlete'[id][k] = Key(f[k])
     \/ id \in 1..Len(athlete) /\ \E k \in Keys : f[k] # "" /\ athlete[id][k] # None

(* A new athlete.                                                          *)
LEMMA EnrolsNew ==
  ASSUME OneIdentity, Typing, NEW f \in Forms, NEW row \in AthleteRow,
         \A k \in Keys : row[k] = Key(f[k]), athlete' = Append(athlete, row),
         \A i \in 1..Len(athlete), k \in Keys : row[k] = None \/ athlete[i][k] # row[k]
  PROVE  Enrols(f, Len(athlete) + 1)
<1> DEFINE n == Len(athlete)
<1>1. athlete \in Seq(AthleteRow) /\ n \in Nat
  BY LenProperties DEF Typing, TypeOK
<1>2. /\ athlete' \in Seq(AthleteRow) /\ Len(athlete') = n + 1 /\ athlete'[n + 1] = row
      /\ \A j \in 1..n : athlete'[j] = athlete[j]
  BY <1>1, AppendProperties
<1>3. OfOnePerson(row)
  BY RowOfForm
<1>4. \A j \in 1..(n + 1) : j # n + 1 => j \in 1..n
  BY <1>1
<1>5. n <= n + 1 /\ n + 1 \in 1..(n + 1) /\ n + 1 \notin 1..n
  BY <1>1
<1>6. \A k \in Keys : f[k] # "" => row[k] = f[k]
  BY KeyGiven
<1> HIDE DEF n
<1>7. Grown
  BY <1>2, <1>5 DEF Grown, n
<1>8. /\ \A j \in 1..Len(athlete') : j # n + 1 => j \in 1..n /\ athlete'[j] = athlete[j]
      /\ \A j \in 1..Len(athlete'), k \in Keys :
           j # n + 1 => athlete'[n + 1][k] = None \/ athlete'[j][k] # athlete'[n + 1][k]
  <2>1. \A j \in 1..n, k \in Keys : row[k] = None \/ athlete[j][k] # row[k]
    BY DEF n
  <2> QED
    BY <1>2, <1>4, <2>1
<1>9. Enrols(f, n + 1)
  BY <1>2, <1>3, <1>5, <1>6, <1>7, <1>8, Zenon DEF Enrols, n
<1> QED
  BY <1>9 DEF n

(* An athlete with a key of the form has the other, or gets it.            *)
LEMMA SameKeys ==
  ASSUME NEW before, NEW row, OfOnePerson(before), \A k \in Keys : row[k] = before[k]
  PROVE  OfOnePerson(row)
<1>1. ASSUME NEW g \in Forms, NEW d \in Forms, NEW k \in Keys, NEW l \in Keys
      PROVE  g[k] # "" /\ row[k] = g[k] /\ d[l] # "" /\ row[l] # None =>
               (row[l] = d[l] <=> g.person = d.person)
  <2>1. g[k] # "" /\ before[k] = g[k] /\ d[l] # "" /\ before[l] # None =>
          (before[l] = d[l] <=> g.person = d.person)
    BY DEF OfOnePerson
  <2> QED
    BY <2>1
<1> QED
  BY <1>1 DEF OfOnePerson

LEMMA EnrolsKnown ==
  ASSUME OneIdentity, Typing, IdentityIInv, NEW f \in Forms, NEW id \in 1..Len(athlete),
         NEW found, found.id = id, found.row \in AthleteRow, FoundFor(f, found),
         \/ found.row = found.before /\ athlete' = athlete
         \/ /\ athlete[id] = found.before /\ KeysAreFree(found)
            /\ athlete' = [athlete EXCEPT ![id] = found.row]
  PROVE  Enrols(f, id)
<1> DEFINE n == Len(athlete)
           before == found.before
           row == found.row
<1>1. athlete \in Seq(AthleteRow) /\ n \in Nat /\ id # 0 /\ DOMAIN athlete = 1..n
  BY LenProperties DEF Typing, TypeOK
<1>2. /\ \A k \in Keys : before[k] # None => athlete[id][k] = before[k]
      /\ \A k \in Keys : row[k] = IF before[k] = None THEN Key(f[k]) ELSE before[k]
  BY <1>1 DEF FoundFor
<1>3. PICK k1 \in Keys : f[k1] # "" /\ before[k1] = f[k1]
  BY <1>1 DEF FoundFor
<1>4. before[k1] # None /\ athlete[id][k1] = f[k1]
  BY <1>2, <1>3, KeyGiven
<1>5. OfOnePerson(athlete[id])
  BY DEF IdentityIInv
<1>6. ASSUME NEW k \in Keys, f[k] # "" PROVE row[k] = f[k]
  <2>1. CASE before[k] = None
    BY <1>2, <1>6, <2>1, KeyGiven
  <2>2. CASE before[k] # None
    <3>1. athlete[id][k] = before[k] /\ row[k] = before[k]
      BY <1>2, <2>2
    <3>2. athlete[id][k] = f[k] <=> f.person = f.person
      BY <1>3, <1>4, <1>5, <1>6, <2>2, <3>1 DEF OfOnePerson
    <3> QED
      BY <3>1, <3>2
  <2> QED
    BY <2>1, <2>2
<1> HIDE DEF n, before, row
<1>7. CASE row = before /\ athlete' = athlete
  <2>1. ASSUME NEW k \in Keys, f[k] # "" PROVE athlete[id][k] = f[k]
    <3>1. before[k] = f[k] /\ f[k] # None
      BY <1>6, <1>7, <2>1, KeyGiven
    <3> QED
      BY <1>2, <3>1
  <2>2. Grown
    BY <1>1, <1>7 DEF Grown, n
  <2>3. \A j \in 1..n, k \in Keys : j # id => athlete[id][k] = None \/ athlete[j][k] # athlete[id][k]
    BY DEF IdentityIInv, UniqueKeys, n
  <2>4. \E k \in Keys : f[k] # "" /\ athlete[id][k] # None
    BY <1>3, <1>4, KeyGiven
  <2> QED
    BY <1>1, <1>5, <1>7, <2>1, <2>2, <2>3, <2>4 DEF Enrols, n
<1>8. CASE athlete[id] = before /\ KeysAreFree(found) /\ athlete' = [athlete EXCEPT ![id] = row]
  <2>1. /\ athlete' \in Seq(AthleteRow) /\ Len(athlete') = n
        /\ \A j \in 1..n : athlete'[j] = IF j = id THEN row ELSE athlete[j]
    BY <1>1, <1>8, ExceptSeq DEF n, row
  <2>2. id \in 1..n
    BY DEF n
  <2>3. Grown
    BY <1>1, <1>2, <1>8, <2>1, <2>2 DEF Grown, n
  <2>4. OfOnePerson(row)
    <3>1. CASE \A k \in Keys : f[k] # ""
      <4>1. \A k \in Keys : row[k] = Key(f[k])
        BY <1>6, <3>1, KeyGiven
      <4> QED
        BY <4>1, RowOfForm
    <3>2. CASE \E k \in Keys : f[k] = ""
      <4>1. PICK k2 \in Keys : f[k2] = ""
        BY <3>2
      <4>2. row[k2] = before[k2] /\ row[k1] = before[k1]
        <5>1. Key(f[k2]) = None
          BY <4>1, KeyGiven
        <5>2. row[k2] = IF before[k2] = None THEN None ELSE before[k2]
          BY <1>2, <5>1
        <5> QED
          BY <1>2, <1>3, <1>4, <5>2
      <4>3. \A k \in Keys : k = k1 \/ k = k2
        BY <1>3, <4>1 DEF Keys
      <4>4. \A k \in Keys : row[k] = athlete[id][k]
        BY <1>8, <4>2, <4>3
      <4> QED
        BY <1>5, <4>4, SameKeys
    <3> QED
      BY <3>1, <3>2
  <2>5. \A j \in 1..n, k \in Keys : j # id => row[k] = None \/ athlete[j][k] # row[k]
    BY <1>1, <1>8 DEF KeysAreFree, row, n
  <2>6. \E k \in Keys : f[k] # "" /\ athlete[id][k] # None
    BY <1>3, <1>4, KeyGiven
  <2>7. athlete'[id] = row /\ \A j \in 1..n : j # id => athlete'[j] = athlete[j]
    BY <2>1, <2>2
  <2> QED
    <3>1. \A j \in 1..n, k \in Keys :
            j # id => athlete'[id][k] = None \/ athlete'[j][k] # athlete'[id][k]
      BY <2>5, <2>7
    <3>2. \A j \in 1..n : j # id => j \in 1..n /\ athlete'[j] = athlete[j]
      BY <2>7
    <3>3. \A k \in Keys : f[k] # "" => athlete'[id][k] = f[k]
      BY <1>6, <2>7
    <3> QED
      BY <2>1, <2>2, <2>3, <2>4, <2>6, <2>7, <3>1, <3>2, <3>3, Zenon DEF Enrols, n
<1> QED
  BY <1>7, <1>8 DEF row, before

LEMMA CreateEnrols ==
  ASSUME OneIdentity, Typing, IdentityIInv, NEW h \in Handlers, CreateCompetitor(h)
  PROVE  /\ call[h].form \in Forms
         /\ \E id \in 1..Len(athlete') :
              /\ Enrols(call[h].form, id)
              /\ competitor' = Append(competitor, NewRow(call[h].form, id))
<1> DEFINE f == call[h].form
           found == call[h].found
           id == IF found.id = 0 THEN Len(athlete) + 1 ELSE found.id
<1>1. pc[h] = "commit" /\ CallOK(pc[h], call[h]) /\ FoundFor(f, found)
  BY DEF CreateCompetitor, Typing, CallsOK, IdentityIInv, FoundOK
<1>2. f \in Forms /\ found \in Found /\ found.id \in 0..Len(athlete)
  BY <1>1 DEF CallOK, Registering
<1>3. /\ Writable(found)
      /\ athlete' = IF found.id = 0 THEN Append(athlete, found.row)
                    ELSE IF found.row = found.before THEN athlete
                    ELSE [athlete EXCEPT ![id] = found.row]
      /\ competitor' = Append(competitor, NewRow(f, id))
  BY DEF CreateCompetitor
<1>4. Len(athlete) \in Nat /\ DOMAIN athlete = 1..Len(athlete) /\ found.row \in AthleteRow
  BY <1>2, LenProperties DEF Typing, TypeOK, Found
<1> HIDE DEF f, found
<1>5. CASE found.id = 0
  <2>1. found.row = [email |-> Key(f.email), licence |-> Key(f.licence)]
    BY <1>4, <1>5, <1>1 DEF FoundFor
  <2>2. \A k \in Keys : found.row[k] = Key(f[k])
    <3>1. \A k \in Keys : k = "email" \/ k = "licence"
      BY DEF Keys
    <3>2. found.row["email"] = Key(f["email"]) /\ found.row["licence"] = Key(f["licence"])
      BY <2>1
    <3> QED
      BY <3>1, <3>2, Zenon
  <2>3. \A i \in 1..Len(athlete), k \in Keys : found.row[k] = None \/ athlete[i][k] # found.row[k]
    BY <1>3, <1>4, <1>5 DEF Writable, KeysAreFree
  <2>4. athlete' = Append(athlete, found.row) /\ id = Len(athlete) + 1
    BY <1>3, <1>5
  <2>5. Enrols(f, id)
    BY <1>2, <1>4, <2>2, <2>3, <2>4, EnrolsNew
  <2> QED
    BY <1>2, <1>3, <2>5 DEF Enrols, f
<1>6. CASE found.id # 0
  <2>1. found.id \in 1..Len(athlete) /\ id = found.id
    BY <1>2, <1>4, <1>6
  <2>2. \/ found.row = found.before /\ athlete' = athlete
        \/ /\ athlete[id] = found.before /\ KeysAreFree(found)
           /\ athlete' = [athlete EXCEPT ![id] = found.row]
    BY <1>3, <1>6, <2>1 DEF Writable
  <2> HIDE DEF id
  <2>3. Enrols(f, id)
    BY <1>1, <1>2, <1>4, <2>1, <2>2, EnrolsKnown
  <2> QED
    BY <1>2, <1>3, <2>3 DEF Enrols, f
<1> QED
  BY <1>5, <1>6

LEMMA IdentityCreate ==
  ASSUME OneIdentity, Typing, IdentityIInv, NEW h \in Handlers, CreateCompetitor(h)
  PROVE  IdentityIInv'
<1> DEFINE f == call[h].form
           n == Len(competitor)
<1>1. PICK id \in 1..Len(athlete') :
        Enrols(f, id) /\ competitor' = Append(competitor, NewRow(f, id))
  BY CreateEnrols
<1>2. f \in Forms
  BY CreateEnrols
<1>3. /\ competitor' \in Seq(Entry) /\ Len(competitor') = n + 1 /\ n \in Nat
      /\ \A j \in 1..n : competitor'[j] = competitor[j]
  BY CreateWrites, LenProperties DEF Typing, TypeOK
<1>4. competitor'[n + 1] = NewRow(f, id)
  BY <1>1, AppendProperties DEF Typing, TypeOK
<1>5. competitor'[n + 1].form = f /\ competitor'[n + 1].athlete = id
  BY <1>4 DEF NewRow
<1>6. /\ \A j \in 1..Len(athlete') : j # id => j \in 1..Len(athlete) /\ athlete'[j] = athlete[j]
      /\ \A k \in Keys : f[k] # "" => athlete'[id][k] = f[k]
      /\ \A j \in 1..Len(athlete'), k \in Keys :
           j # id => athlete'[id][k] = None \/ athlete'[j][k] # athlete'[id][k]
      /\ OfOnePerson(athlete'[id]) /\ Grown /\ athlete' \in Seq(AthleteRow)
      /\ \/ id \notin 1..Len(athlete) /\ \A k \in Keys : athlete'[id][k] = Key(f[k])
         \/ id \in 1..Len(athlete) /\ \E k \in Keys : f[k] # "" /\ athlete[id][k] # None
  BY <1>1 DEF Enrols
<1>7. Len(athlete) \in Nat /\ Len(athlete') \in Nat /\ Len(athlete) <= Len(athlete')
  BY <1>6, LenProperties DEF Typing, TypeOK, Grown
<1>8. UniqueKeys'
  <2>1. ASSUME NEW i \in 1..Len(athlete'), NEW j \in 1..Len(athlete'), NEW k \in Keys, i # j
        PROVE  athlete'[i][k] = None \/ athlete'[j][k] # athlete'[i][k]
    <3>1. CASE i = id
      BY <1>6, <2>1, <3>1
    <3>2. CASE j = id
      BY <1>6, <2>1, <3>2
    <3>3. CASE i # id /\ j # id
      <4>1. i \in 1..Len(athlete) /\ j \in 1..Len(athlete)
            /\ athlete'[i] = athlete[i] /\ athlete'[j] = athlete[j]
        BY <1>6, <3>3
      <4>2. athlete[i][k] = None \/ athlete[j][k] # athlete[i][k]
        BY <2>1, <4>1, Zenon DEF IdentityIInv, UniqueKeys
      <4> QED
        BY <4>1, <4>2
    <3> QED
      BY <3>1, <3>2, <3>3
  <2> QED
    BY <2>1 DEF UniqueKeys
<1>9. ASSUME NEW i \in 1..Len(athlete') PROVE OfOnePerson(athlete'[i])
  BY <1>6 DEF IdentityIInv
<1>10. Entered'
  <2>1. ASSUME NEW i \in 1..n
        PROVE  LET c == competitor'[i]
               IN  /\ c.athlete \in 1..Len(athlete')
                   /\ \A k \in Keys : c.form[k] # "" => athlete'[c.athlete][k] = c.form[k]
                   /\ Anonymous(c.form) =>
                        /\ \A k \in Keys : athlete'[c.athlete][k] = None
                        /\ \A j \in 1..(n + 1) : j # i => competitor'[j].athlete # c.athlete
    <3> DEFINE c == competitor[i]
               a == c.athlete
    <3>1. /\ a \in 1..Len(athlete)
          /\ \A k \in Keys : c.form[k] # "" => athlete[a][k] = c.form[k]
          /\ Anonymous(c.form) =>
               /\ \A k \in Keys : athlete[a][k] = None
               /\ \A j \in 1..n : j # i => competitor[j].athlete # a
      BY DEF IdentityIInv, Entered
    <3>2. competitor'[i] = c /\ c \in Entry
      BY <1>3, RowType
    <3>3. a \in 1..Len(athlete')
      <4>1. \A x \in 1..Len(athlete) : x \in 1..Len(athlete')
        BY <1>7
      <4> QED
        BY <3>1, <4>1
    <3>4. ASSUME NEW k \in Keys, c.form[k] # "" PROVE athlete'[a][k] = c.form[k]
      <4>1. c.form[k] # None
        BY <3>2, KeyGiven DEF Entry
      <4> QED
        BY <1>6, <3>1, <3>4, <4>1 DEF Grown
    <3>5. ASSUME Anonymous(c.form)
          PROVE  /\ \A k \in Keys : athlete'[a][k] = None
                 /\ \A j \in 1..(n + 1) : j # i => competitor'[j].athlete # a
      <4>1. a # id
        BY <1>6, <3>1, <3>5
      <4>2. athlete'[a] = athlete[a]
        BY <1>6, <3>3, <4>1
      <4>3. \A j \in 1..n : j # i => competitor'[j].athlete # a
        BY <1>3, <3>1, <3>5
      <4>4. \A j \in 1..(n + 1) : j \in 1..n \/ j = n + 1
        BY <1>3
      <4> QED
        BY <1>5, <3>1, <3>5, <4>1, <4>2, <4>3, <4>4
    <3> QED
      BY <3>2, <3>3, <3>4, <3>5
  <2>2. ASSUME Anonymous(f)
        PROVE  /\ \A k \in Keys : athlete'[id][k] = None
               /\ \A j \in 1..n : competitor'[j].athlete # id
    <3>1. id \notin 1..Len(athlete) /\ \A k \in Keys : athlete'[id][k] = Key(f[k])
      BY <1>6, <2>2 DEF Anonymous
    <3>2. \A k \in Keys : Key(f[k]) = None
      BY <1>2, <2>2, KeyGiven DEF Anonymous
    <3>3. \A j \in 1..n : competitor[j].athlete \in 1..Len(athlete)
      BY DEF IdentityIInv, Entered
    <3> QED
      BY <1>3, <3>1, <3>2, <3>3
  <2>3. \A j \in 1..(n + 1) : j \in 1..n \/ j = n + 1
    BY <1>3
  <2>4. n + 1 \in 1..(n + 1) /\ n + 1 \notin 1..n
    BY <1>3
  <2> HIDE DEF f, n
  <2>5. ASSUME NEW i \in 1..(n + 1)
        PROVE  LET c == competitor'[i]
               IN  /\ c.athlete \in 1..Len(athlete')
                   /\ \A k \in Keys : c.form[k] # "" => athlete'[c.athlete][k] = c.form[k]
                   /\ Anonymous(c.form) =>
                        /\ \A k \in Keys : athlete'[c.athlete][k] = None
                        /\ \A j \in 1..(n + 1) : j # i => competitor'[j].athlete # c.athlete
    <3>1. CASE i \in 1..n
      BY <2>1, <3>1
    <3>2. CASE i = n + 1
      BY <1>5, <1>6, <2>2, <2>3, <3>2
    <3> QED
      BY <2>3, <3>1, <3>2
  <2> QED
    BY <1>3, <2>5 DEF Entered
<1>11. FoundOK'
  <2>1. ASSUME NEW g \in Handlers, pc'[g] = "commit"
        PROVE  g # h /\ pc[g] = "commit" /\ call'[g].form = call[g].form /\ call'[g].found = call[g].found
    <3>1. pc \in [Handlers -> Places] /\ call \in [Handlers -> Call]
      BY DEF Typing, TypeOK
    <3>2. g # h /\ pc[g] = "commit"
          /\ call'[g] \in {call[g], [call[g] EXCEPT !.doomed = TRUE]}
      BY <2>1, <3>1 DEF CreateCompetitor
    <3>3. call[g] \in Call
      BY <3>1
    <3> QED
      BY <3>2, <3>3 DEF Call
  <2>2. ASSUME NEW form, NEW found, FoundFor(form, found)
        PROVE  FoundFor(form, found)'
    BY <1>6, <2>2, FoundStable
  <2>3. ASSUME NEW g \in Handlers, pc'[g] = "commit", NEW form, NEW found,
               form = call[g].form, found = call[g].found
        PROVE  FoundFor(form, found)' /\ call'[g].form = form /\ call'[g].found = found
    <3>1. FoundFor(form, found)
      BY <2>1, <2>3 DEF IdentityIInv, FoundOK
    <3> QED
      BY <2>1, <2>2, <2>3, <3>1
  <2> QED
    <3>1. ASSUME NEW g \in Handlers, pc'[g] = "commit"
          PROVE  FoundFor(call[g].form, call[g].found)'
      <4>1. ASSUME NEW form, NEW found, form = call[g].form, found = call[g].found
            PROVE  FoundFor(call[g].form, call[g].found)'
        <5>1. FoundFor(form, found)' /\ call'[g].form = form /\ call'[g].found = found
          BY <2>3, <3>1, <4>1
        <5> QED
          BY <5>1 DEF FoundFor
      <4> QED
        BY <4>1
    <3> QED
      BY <3>1 DEF FoundOK
<1> QED
  BY <1>8, <1>9, <1>10, <1>11 DEF IdentityIInv

LEMMA IdentityStep ==
  ASSUME OneIdentity, Typing, IdentityIInv, [Next]_vars
  PROVE  IdentityIInv'
<1>1. \A g \in Handlers : pc[g] = "commit" => FoundFor(call[g].form, call[g].found)
  BY DEF IdentityIInv, FoundOK
<1>2. pc \in [Handlers -> Places] /\ call \in [Handlers -> Call]
  BY DEF Typing, TypeOK
<1>3. ASSUME UNCHANGED <<athlete, competitor>>,
             \A g \in Handlers : pc'[g] = "commit" => FoundFor(call'[g].form, call'[g].found)
      PROVE  IdentityIInv'
  BY <1>3, IdentityKept
<1>4. ASSUME NEW h \in Handlers, NEW where, NEW c, Goto(h, where, c),
             where = "commit" => FoundFor(c.form, c.found), UNCHANGED <<athlete, competitor>>
      PROVE  IdentityIInv'
  <2>1. \A g \in Handlers : \/ pc'[g] = where /\ call'[g] = c
                            \/ pc'[g] = pc[g] /\ call'[g] = call[g]
    BY <1>2, <1>4 DEF Goto
  <2> QED
    BY <1>1, <1>3, <1>4, <2>1
<1>5. ASSUME NEW h \in Handlers,
             \/ \E f \in Forms : Register(h, f)
             \/ FindEmail(h) \/ Rollback(h) \/ Update(h) \/ WriteStatus(h)
             \/ \E i \in 1..Len(competitor) : WithdrawAsCoach(h, i)
             \/ \E i \in 1..Len(competitor), weight \in Weights :
                  ReadList(h, i, weight) \/ UpdateWeight(h, i, weight)
             \/ RecordWeight(h)
      PROVE  IdentityIInv'
  <2>1. /\ \E where : where # "commit" /\ \E c : Goto(h, where, c)
        /\ UNCHANGED <<athlete, competitor>>
    BY <1>5 DEF Register, FindEmail, Rollback, Update, WriteStatus, WithdrawAsCoach, ReadList, UpdateWeight, RecordWeight, Return
  <2> QED
    BY <1>4, <2>1
<1>6. ASSUME NEW h \in Handlers, ReadClassAndAthlete(h)
      PROVE  IdentityIInv'
  <2> DEFINE found == FindOrCreate(call[h].form)
             c == [call[h] EXCEPT !.found = found]
  <2>1. UNCHANGED <<athlete, competitor>> /\ (Return(h) \/ Goto(h, "commit", c))
    BY <1>6 DEF ReadClassAndAthlete
  <2>2. call[h].form \in Forms /\ call[h] \in Call
    BY <1>2, <1>6 DEF ReadClassAndAthlete, Typing, CallsOK, CallOK, Registering
  <2>3. FoundFor(call[h].form, found)
    BY <2>2, FoundMatches
  <2> HIDE DEF found
  <2>4. c.form = call[h].form /\ c.found = found
    BY <2>2 DEF Call
  <2>5. FoundFor(c.form, c.found)
    BY <2>3, <2>4
  <2> HIDE DEF c
  <2> QED
    BY <1>4, <2>1, <2>5 DEF Return
<1>7. ASSUME NEW h \in Handlers, CreateCompetitor(h)
      PROVE  IdentityIInv'
  BY <1>7, IdentityCreate
<1>8. ASSUME NEW i \in 1..Len(competitor), NEW row, Rewrites(i, row), athlete' = athlete,
             \A g \in Handlers : pc'[g] = "idle" \/ (pc'[g] = pc[g] /\ call'[g] = call[g])
      PROVE  IdentityIInv'
  <2>1. \A g \in Handlers : pc'[g] = "commit" => FoundFor(call'[g].form, call'[g].found)
    BY <1>1, <1>8
  <2>2. Len(competitor') = Len(competitor)
        /\ \A j \in 1..Len(competitor) : /\ competitor'[j].form = competitor[j].form
                                         /\ competitor'[j].athlete = competitor[j].athlete
    BY <1>8, RewritesKeep
  <2> QED
    BY <1>8, <2>1, <2>2, IdentityKept
<1>9. ASSUME NEW h \in Handlers, WriteWithdrawal(h) \/ WriteWeight(h)
      PROVE  IdentityIInv'
  <2>1. PICK i \in 1..Len(competitor) :
          /\ \E row : Rewrites(i, row)
          /\ Return(h) /\ UNCHANGED <<setting, competition, athlete, ceiling>>
    BY <1>9, WriteWithdrawalRewrites, WriteWeightRewrites
  <2>2. \A g \in Handlers : pc'[g] = "idle" \/ (pc'[g] = pc[g] /\ call'[g] = call[g])
    BY <1>2, <2>1 DEF Return, Goto
  <2> QED
    BY <1>8, <2>1, <2>2
<1>10. ASSUME NEW i \in 1..Len(competitor), ByOrganizer(i)
       PROVE  IdentityIInv'
  <2>1. competitor[i] \in Entry
    BY RowType
  <2>2. PICK row : Rewrites(i, row)
    BY <1>10, <2>1, OrganizerRewrites
  <2>3. UNCHANGED <<athlete, pc, call>>
    BY <1>10 DEF ByOrganizer
  <2> QED
    BY <1>8, <2>2, <2>3
<1>11. ASSUME NEW n, UpdateCap(n)
       PROVE  IdentityIInv'
  BY <1>1, <1>3, <1>11 DEF UpdateCap
<1>12. ASSUME UNCHANGED vars
       PROVE  IdentityIInv'
  BY <1>1, <1>3, <1>12 DEF vars
<1> QED
  BY <1>5, <1>6, <1>7, <1>9, <1>10, <1>11, <1>12, Steps

LEMMA OnePersonNow ==
  ASSUME OneIdentity, Typing, IdentityIInv
  PROVE  AthleteIsOnePerson
<1> SUFFICES ASSUME NEW i \in 1..Len(competitor), NEW j \in 1..Len(competitor)
             PROVE  LET c == competitor[i]
                        d == competitor[j]
                    IN  /\ (\E k \in Keys : Key(c.form[k]) # None /\ c.form[k] = d.form[k])
                             => c.athlete = d.athlete
                        /\ c.athlete = d.athlete => c.form.person = d.form.person
  <2>1. DOMAIN competitor = 1..Len(competitor)
    BY LenProperties DEF Typing, TypeOK
  <2> QED
    BY <2>1 DEF AthleteIsOnePerson
<1> DEFINE c == competitor[i]
           d == competitor[j]
<1>1. c.form \in Forms /\ d.form \in Forms
  BY RowType DEF Entry
<1>2. /\ c.athlete \in 1..Len(athlete) /\ d.athlete \in 1..Len(athlete)
      /\ \A k \in Keys : c.form[k] # "" => athlete[c.athlete][k] = c.form[k]
      /\ \A k \in Keys : d.form[k] # "" => athlete[d.athlete][k] = d.form[k]
      /\ Anonymous(c.form) /\ j # i => d.athlete # c.athlete
      /\ Anonymous(d.form) /\ j # i => d.athlete # c.athlete
  BY DEF IdentityIInv, Entered
<1> HIDE DEF c, d
<1>3. ASSUME NEW k \in Keys, Key(c.form[k]) # None, c.form[k] = d.form[k]
      PROVE  c.athlete = d.athlete
  <2>1. c.form[k] # "" /\ c.form[k] # None
    BY <1>1, <1>3, KeyGiven
  <2>2. athlete[c.athlete][k] = athlete[d.athlete][k] /\ athlete[c.athlete][k] # None
    BY <1>2, <1>3, <2>1
  <2> QED
    BY <1>2, <2>2, Zenon DEF IdentityIInv, UniqueKeys
<1>4. ASSUME c.athlete = d.athlete
      PROVE  c.form.person = d.form.person
  <2>1. CASE i = j
    BY <2>1 DEF c, d
  <2>2. CASE i # j
    <3>1. PICK k \in Keys : c.form[k] # ""
      BY <1>2, <1>4, <2>2 DEF Anonymous
    <3>2. PICK l \in Keys : d.form[l] # ""
      BY <1>2, <1>4, <2>2 DEF Anonymous
    <3>3. OfOnePerson(athlete[c.athlete])
      BY <1>2 DEF IdentityIInv
    <3>4. athlete[c.athlete][k] = c.form[k] /\ athlete[c.athlete][l] = d.form[l] /\ d.form[l] # None
      BY <1>1, <1>2, <1>4, <3>1, <3>2, KeyGiven
    <3> QED
      BY <1>1, <3>1, <3>2, <3>3, <3>4 DEF OfOnePerson
  <2> QED
    BY <2>1, <2>2
<1> QED
  BY <1>3, <1>4 DEF c, d

(* Of registrants who give their own email and licence number, and the     *)
(* same ones each time, each is one athlete, with whatever registrations   *)
(* overlap: no athlete is made twice, shared, or left without an entry.    *)
THEOREM AthletesAreThem ==
  ASSUME OneIdentity
  PROVE  Spec => []AthletesAreRegistrants
<1>1. Init => Typing /\ IdentityIInv /\ NoAthleteWithoutEntry
  BY TypingInitially, IdentityInitially, EntriesInitially
<1>2. Typing /\ IdentityIInv /\ NoAthleteWithoutEntry /\ [Next]_vars
        => (Typing /\ IdentityIInv /\ NoAthleteWithoutEntry)'
  BY TypingStep, IdentityStep, EntriesStep
<1>3. Typing /\ IdentityIInv /\ NoAthleteWithoutEntry => AthletesAreRegistrants
  BY OnePersonNow DEF AthletesAreRegistrants
<1> QED
  BY <1>1, <1>2, <1>3, PTL DEF Spec

=============================================================================
