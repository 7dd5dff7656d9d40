---------------------------- MODULE MCCategories ----------------------------
(***************************************************************************)
(* Competitors of one age group around the limits of 60 and 66 kg.         *)
(***************************************************************************)
EXTENDS Categories

CONSTANTS h1, h2

TheDay == <<2026, 3, 14>>

EighteenCompetitors == 1..18

EveryEntrant == [c \in EighteenCompetitors |-> [birth |-> <<2000, 1, 1>>, gender |-> "MALE"]]

OneHandler == {h1}
TwoHandlers == {h1, h2}

Setting(handlers, ops, weight, status0, scale, mats, draws0) ==
  [handlers |-> handlers, ops |-> ops, weight |-> weight, status |-> status0, scale |-> scale,
   mats |-> mats, winners |-> {1}, draws |-> draws0]

(* Three competitors of 60 kg, two of 66, two of 73 and one of 81.         *)
FourClasses == <<600, 600, 600, 660, 660, 730, 730, 810>>

(* A category of 16 or of 5 competitors, and one of two.                   *)
Slam == [c \in 1..18 |-> IF c <= 16 THEN 660 ELSE 600]
Pools == <<600, 600, 600, 600, 600, 660, 660>>

(* The scale and the generation of categories overlap; draws, mats and     *)
(* matches overlap; mats are created and filled; and, one call at a time,  *)
(* matches that are moved between mats, the competitors of drawn           *)
(* categories that are weighed again, withdrawn and put back, and a mat    *)
(* with an elimination or with pools and their knock-out.                  *)
SevenSettings ==
  {Setting(TwoHandlers, {"recordWeight", "updateWeight", "generate", "byOrganizer"},
           <<600, None>>, "WEIGHED_IN", {610}, 0, 0),
   Setting(TwoHandlers, {"generate", "draw", "assignAll", "assign", "fight", "assignMatch"},
           <<600, 600>>, "WEIGHED_IN", {}, 2, 2),
   Setting(TwoHandlers, {"generate", "assignAll", "createMats"}, FourClasses, "WEIGHED_IN", {}, 0, 0),
   Setting(OneHandler, {"generate", "draw", "assignAll", "assign", "fight", "assignMatch"},
           <<610, 610, 600, 600, 600>>, "WEIGHED_IN", {}, 1, 2),
   Setting(OneHandler, Ops \ {"createMats", "assign", "assignMatch"},
           <<600, 600>>, "WEIGHED_IN", {610}, 1, 1),
   Setting(OneHandler, {"generate", "draw", "assignAll", "callFirst", "fight"}, Slam, "WEIGHED_IN", {}, 1, 1),
   Setting(OneHandler, {"generate", "draw", "assign", "callFirst", "fight"}, Pools, "WEIGHED_IN", {}, 1, 1)}
=============================================================================
