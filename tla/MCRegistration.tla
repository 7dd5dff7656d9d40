--------------------------- MODULE MCRegistration ---------------------------
(***************************************************************************)
(* Registrants at the limit of two classes: one known athlete, a new one,  *)
(* and two without email or licence number.                                *)
(***************************************************************************)
EXTENDS Registration

CONSTANTS h1, h2

(* A page in a zone behind the server's reads the day before it, a year    *)
(* earlier.                                                                *)
TheDay == <<2026, 1, 1>>

(* Thirty-five on the day, and eighteen the day after it.                  *)
Senior == <<1991, 1, 1>>
Cadet  == <<2008, 1, 2>>

Form(person, email, licence, birth, weight, coach) ==
  [person |-> person, email |-> email, licence |-> licence, birth |-> birth,
   gender |-> "MALE", weight |-> weight, coach |-> coach]

Ann   == Form("ann", "ann@x", "lic1", Senior, 660, FALSE)
AnnByLicence == Form("ann", "", "lic1", Senior, 660, TRUE)
Bea   == Form("bea", "bea@x", "", Senior, 660, FALSE)
Cid   == Form("cid", "", "", Senior, 660, TRUE)
Dan   == Form("dan", "", "", Cadet, None, FALSE)

(* One registrant for every age group of men and women.                    *)
Graded == {[Form("eve", "eve@x", "", <<year, 1, 2>>, None, FALSE) EXCEPT !.gender = gender] :
             year \in {2013, 2012, 2009, 2006, 2000, 1980}, gender \in {"MALE", "FEMALE"}}

AllForms == {Ann, AnnByLicence, Bea, Cid, Dan} \cup Graded

OneHandler == {h1}
TwoHandlers == {h1, h2}

Setting(handlers, athletes, cap0, caps, forms, weights, byOrganizer, zone) ==
  [handlers |-> handlers, athletes |-> athletes, cap |-> cap0, caps |-> caps, forms |-> forms,
   weights |-> weights, byOrganizer |-> byOrganizer, zone |-> zone]

AnnIsKnown == <<[email |-> None, licence |-> "lic1"]>>

(* Overlapping registrations under a cap, while competitors are withdrawn  *)
(* and reinstated; without a cap, of new athletes; of a known athlete; at  *)
(* two scales; and with a cap that changes, is cleared and introduced *)
(* again, one call at a time.  Then every age group, weighed at and above  *)
(* each of its limits, by a page in any zone.                              *)
AllSettings ==
  LET limits(f) == {Limits(f.gender, AgeGroup(f.birth, TheDay))[i] :
                      i \in DOMAIN Limits(f.gender, AgeGroup(f.birth, TheDay))}
      scale(f) == {10 * limit + excess : limit \in limits(f), excess \in {0, 1}}
  IN
  {Setting(OneHandler, <<>>, None, {}, {f}, scale(f), FALSE, zone) : f \in Graded, zone \in Zones} \cup
  {Setting(TwoHandlers, <<>>, 1, {2}, {Ann, Bea}, {}, TRUE, -1),
   Setting(TwoHandlers, <<>>, None, {}, {Ann, AnnByLicence, Cid, Dan}, {}, FALSE, 0),
   Setting(TwoHandlers, AnnIsKnown, 2, {}, {Ann, Dan}, {}, FALSE, 0),
   Setting(TwoHandlers, <<>>, None, {}, {Ann}, {660, 661}, FALSE, 1),
   Setting(OneHandler, AnnIsKnown, 2, {1, None}, {Ann, Bea, Cid}, {661}, TRUE, 0)}

ASSUME Identities == OneIdentity
=============================================================================
