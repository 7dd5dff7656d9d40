------------------------- MODULE MCRoundRobinTable --------------------------
(***************************************************************************)
(* Round robins for TLC: three competitors with shido, one of whom may     *)
(* leave, and four, of whom three can end in a circle.                     *)
(***************************************************************************)
EXTENDS RoundRobinTable

Table3 ==
  [count |-> 3, leaving |-> {2}, winWays |-> {"IPPON", "DECISION"}, maxShido |-> 1]

Table4(leaving, winWays) ==
  [count |-> 4, leaving |-> leaving, winWays |-> winWays, maxShido |-> 0]

ThreeAndFour == {Table3, Table4({2}, {"IPPON"})}
=============================================================================
