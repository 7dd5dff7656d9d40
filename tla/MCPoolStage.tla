---------------------------- MODULE MCPoolStage ----------------------------
(***************************************************************************)
(* Small categories for TLC: five competitors with every pool match open,  *)
(* nine competitors whose pools are fought but for their last rounds, and  *)
(* five competitors with two calls at a time and, in the last rounds of    *)
(* their pools, with three.                                                *)
(***************************************************************************)
EXTENDS PoolStage

CONSTANTS h1, h2, h3

OneHandler == {h1}

TwoHandlers == {h1, h2}

ThreeHandlers == {h1, h2, h3}

Stage(count, winWays, lastRoundOnly, handlers) ==
  [count |-> count, winWays |-> winWays, lastRoundOnly |-> lastRoundOnly,
   handlers |-> handlers]

OverlappingCalls == Stage(5, {"IPPON"}, FALSE, TwoHandlers)

Overlapping == {OverlappingCalls}

SerialAndOverlapping ==
  {Stage(5, {"IPPON", "DECISION"}, FALSE, OneHandler),
   Stage(9, {"IPPON"}, TRUE, OneHandler),
   OverlappingCalls,
   Stage(5, {"IPPON"}, TRUE, ThreeHandlers)}
=============================================================================
