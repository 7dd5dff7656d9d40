---------------------------- MODULE WeightClasses ----------------------------
(***************************************************************************)
(* The IJF age groups and weight classes a competitor is put in.  Weights  *)
(* are in tenths of a kilogram, dates are <<year, month, day>>.  The pages *)
(* project with a copy of these tables (frontend lib/ijf.ts).              *)
(***************************************************************************)
EXTENDS Integers, Sequences

CONSTANT None

(* getAgeOnDate *)
Age(birth, date) ==
  date[1] - birth[1] -
    (IF date[2] < birth[2] \/ (date[2] = birth[2] /\ date[3] < birth[3]) THEN 1 ELSE 0)

AgeGroup(birth, date) ==
  LET age == Age(birth, date)
  IN  CASE age < 13  -> "U13"
        [] age \in 13..14 -> "U15"
        [] age \in 15..17 -> "CADET"
        [] age \in 18..20 -> "JUNIOR"
        [] age \in 21..35 -> "SENIOR"
        [] OTHER -> "VETERAN"

(* IJF_WEIGHT_CLASSES: the upper limits of the classes; the last class is  *)
(* everybody above the last limit.                                         *)
Limits(gender, ageGroup) ==
  IF gender = "MALE" THEN
    CASE ageGroup = "U13"    -> <<30, 34, 38, 42, 46, 50, 55, 55>>
      [] ageGroup = "U15"    -> <<38, 42, 46, 50, 55, 60, 66, 66>>
      [] ageGroup = "CADET"  -> <<50, 55, 60, 66, 73, 81, 90, 90>>
      [] ageGroup = "JUNIOR" -> <<55, 60, 66, 73, 81, 90, 100, 100>>
      [] OTHER               -> <<60, 66, 73, 81, 90, 100, 100>>
  ELSE
    CASE ageGroup = "U13"    -> <<28, 32, 36, 40, 44, 48, 52, 52>>
      [] ageGroup = "U15"    -> <<36, 40, 44, 48, 52, 57, 63, 63>>
      [] ageGroup = "CADET"  -> <<40, 44, 48, 52, 57, 63, 70, 70>>
      [] ageGroup = "JUNIOR" -> <<44, 48, 52, 57, 63, 70, 78, 78>>
      [] OTHER               -> <<48, 52, 57, 63, 70, 78, 78>>

WeightClass(gender, ageGroup, i) ==
  LET limits == Limits(gender, ageGroup)
      last == i = Len(limits)
  IN  [gender |-> gender, ageGroup |-> ageGroup,
       min |-> IF last THEN 10 * limits[i] ELSE IF i = 1 THEN 0 ELSE 10 * limits[i - 1],
       max |-> IF last THEN 9990 ELSE 10 * limits[i]]

Admits(class, weight) == weight > class.min /\ weight <= class.max

(* findIjfWeightClass: the first class that admits the weight.             *)
FindWeightClass(gender, ageGroup, weight) ==
  LET admitting == {i \in DOMAIN Limits(gender, ageGroup) :
                      Admits(WeightClass(gender, ageGroup, i), weight)}
  IN  IF admitting = {} THEN None
      ELSE WeightClass(gender, ageGroup, CHOOSE i \in admitting : \A j \in admitting : i <= j)

(* projectIjfCategory, and the class a category is generated for: none     *)
(* without a weight.                                                       *)
ClassOf(entrant, date) ==
  IF entrant.weight = None \/ entrant.weight = 0 THEN None
  ELSE FindWeightClass(entrant.gender, AgeGroup(entrant.birth, date), entrant.weight)
=============================================================================
