---------------------------- MODULE CompetitorRow ----------------------------
(***************************************************************************)
(* What the operations of CompetitorsService write to the row of a         *)
(* competitor.                                                             *)
(***************************************************************************)
EXTENDS WeightClasses

RegistrationStatuses == {"REGISTERED", "WEIGHED_IN", "WITHDRAWN"}

(* recordWeight *)
WeighedIn(row, weight) ==
  [row EXCEPT !.weight = weight, !.category = None, !.status = "WEIGHED_IN"]

(* updateWeight *)
Reweighed(row, weight) == [row EXCEPT !.weight = weight, !.category = None]

(* withdraw and withdrawAsCoach *)
Withdrawn(row) == [row EXCEPT !.status = "WITHDRAWN", !.category = None]

(* disqualify: the competitor stays in the category.                       *)
Disqualified(row) == [row EXCEPT !.status = "WITHDRAWN"]

(* updateStatus *)
WithStatus(row, status) == [row EXCEPT !.status = status]

(* VALID_TRANSITIONS: the status a competition may go on to.               *)
NextStatus(status) ==
  CASE status = "DRAFT"        -> "REGISTRATION"
    [] status = "REGISTRATION" -> "WEIGH_IN"
    [] status = "WEIGH_IN"     -> "ACTIVE"
    [] status = "ACTIVE"       -> "COMPLETED"
    [] OTHER                   -> None
=============================================================================
