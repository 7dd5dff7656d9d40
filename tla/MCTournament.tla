---------------------------- MODULE MCTournament ----------------------------
(***************************************************************************)
(* Categories for TLC, one of each format: a grand slam with byes in every *)
(* pool, a full double repechage, a single elimination with a bye.         *)
(***************************************************************************)
EXTENDS Tournament

Category(bracketType, drawn, registered, openingRounds) ==
  [bracketType |-> bracketType, drawn |-> drawn, registered |-> registered,
   openingRounds |-> openingRounds]

ThreeFormats ==
  {Category("GRAND_SLAM", 21, 21, 2),
   Category("DOUBLE_REPECHAGE", 16, 16, 1),
   Category("SINGLE_REPECHAGE", 7, 7, 0)}
=============================================================================
