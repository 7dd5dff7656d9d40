---------------------------- MODULE WeighInPage ----------------------------
(***************************************************************************)
(* The pages announce the class of a competitor before they send a weight: *)
(* lib/ijf.ts projects it with copies of the server's tables, which are    *)
(* translated here from the copy.                                          *)
(***************************************************************************)
EXTENDS CompetitorRow

(* Both dates are stored as midnight UTC; getFullYear, getMonth and getDate*)
(* tell the day it is then where the program runs.  Days are those of the  *)
(* server's zone; in the browser's it may still be the day before, or      *)
(* already the one after.                                                  *)
Zones == {-1, 0, 1}

FebruaryOf(year) == IF year % 4 = 0 /\ (year % 100 # 0 \/ year % 400 = 0) THEN 29 ELSE 28

DaysIn(year, month) ==
  CASE month = 2              -> FebruaryOf(year)
    [] month \in {4, 6, 9, 11} -> 30
    [] OTHER                  -> 31

DayBefore(day) ==
  CASE day[3] > 1                -> <<day[1], day[2], day[3] - 1>>
    [] day[3] <= 1 /\ day[2] > 1 -> <<day[1], day[2] - 1, DaysIn(day[1], day[2] - 1)>>
    [] OTHER                     -> <<day[1] - 1, 12, 31>>

DayAfter(day) ==
  CASE day[3] < DaysIn(day[1], day[2])                 -> <<day[1], day[2], day[3] + 1>>
    [] day[3] >= DaysIn(day[1], day[2]) /\ day[2] < 12 -> <<day[1], day[2] + 1, 1>>
    [] OTHER                                           -> <<day[1] + 1, 1, 1>>

Local(day, zone) == IF zone = -1 THEN DayBefore(day) ELSE IF zone = 1 THEN DayAfter(day) ELSE day

FirstOfMarch(day) == day[2] = 3 /\ day[3] = 1

(* getAgeOnDate of the page.                                               *)
PageAge(birth, date) ==
  LET birthdayToCome == date[2] < birth[2] \/ (date[2] = birth[2] /\ date[3] < birth[3])
  IN  IF birthdayToCome THEN date[1] - birth[1] - 1 ELSE date[1] - birth[1]

AgeGroupAt(age) ==
  CASE age < 13 -> "U13" [] age \in 13..14 -> "U15" [] age \in 15..17 -> "CADET"
    [] age \in 18..20 -> "JUNIOR" [] age \in 21..35 -> "SENIOR" [] OTHER -> "VETERAN"

(* Mutant of PageAgeGroup: the age reached in the year.                    *)
AgeGroupOfTheYear(birth, date) == AgeGroupAt(date[1] - birth[1])

PageAgeGroup(birth, date) == AgeGroupAt(PageAge(birth, date))

PageLimits ==
  [MALE   |-> [SENIOR  |-> <<60, 66, 73, 81, 90, 100, 100>>,
               JUNIOR  |-> <<55, 60, 66, 73, 81, 90, 100, 100>>,
               CADET   |-> <<50, 55, 60, 66, 73, 81, 90, 90>>,
               U15     |-> <<38, 42, 46, 50, 55, 60, 66, 66>>,
               U13     |-> <<30, 34, 38, 42, 46, 50, 55, 55>>,
               VETERAN |-> <<60, 66, 73, 81, 90, 100, 100>>],
   FEMALE |-> [SENIOR  |-> <<48, 52, 57, 63, 70, 78, 78>>,
               JUNIOR  |-> <<44, 48, 52, 57, 63, 70, 78, 78>>,
               CADET   |-> <<40, 44, 48, 52, 57, 63, 70, 70>>,
               U15     |-> <<36, 40, 44, 48, 52, 57, 63, 63>>,
               U13     |-> <<28, 32, 36, 40, 44, 48, 52, 52>>,
               VETERAN |-> <<48, 52, 57, 63, 70, 78, 78>>]]

(* wc of the page.                                                         *)
PageClass(gender, ageGroup, i) ==
  LET limits == PageLimits[gender][ageGroup]
      max == IF i = Len(limits) THEN 9990 ELSE 10 * limits[i]
      min == IF i = Len(limits) THEN 10 * limits[i] ELSE IF i = 1 THEN 0 ELSE 10 * limits[i - 1]
  IN  [gender |-> gender, ageGroup |-> ageGroup, min |-> min, max |-> max]

(* projectIjfCategory of the page, in the zone of the browser.             *)
Preview(entrant, date, zone) ==
  LET ageGroup == PageAgeGroup(Local(entrant.birth, zone), Local(date, zone))
      fits(i) == entrant.weight > PageClass(entrant.gender, ageGroup, i).min
                 /\ entrant.weight <= PageClass(entrant.gender, ageGroup, i).max
      fitting == {i \in DOMAIN PageLimits[entrant.gender][ageGroup] : fits(i)}
  IN  IF entrant.weight = None \/ fitting = {} THEN None
      ELSE PageClass(entrant.gender, ageGroup,
                     CHOOSE i \in fitting : \A j \in fitting : i <= j)

(* bumped of recordWeight, isBump of the modal.                            *)
Bumped(before, after) == before # None /\ after # None /\ before # after
=============================================================================
