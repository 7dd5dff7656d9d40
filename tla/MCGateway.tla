----------------------------- MODULE MCGateway -----------------------------
(***************************************************************************)
(* One mat with two matches in its queue, its table and another page: its  *)
(* display or a second table.                                              *)
(***************************************************************************)
EXTENDS Gateway

CONSTANTS h1, h2

TwoMatches == {"m1", "m2"}

FourCompetitors == {"ann", "bea", "cid", "dan"}

TwoEntrants == [m \in TwoMatches |-> IF m = "m1" THEN <<"ann", "bea">> ELSE <<"cid", "dan">>]

NoWayOn == [m \in TwoMatches |-> None]

FirstSide == [m \in TwoMatches |-> 1]

OneProgramme == [mat \in {"mat1"} |-> <<"m1", "m2">>]

TwoPages == {"table", "other"}

AllOnOneMat == [p \in TwoPages |-> "mat1"]

OneHandler == {h1}

TwoHandlers == {h1, h2}

Setting(pages, tables, handlers, faults, sends, sides, requests, duration) ==
  [pages |-> pages, tables |-> tables, handlers |-> handlers, faults |-> faults,
   sends |-> sends, sides |-> sides, requests |-> requests, duration |-> duration]

(* A table and a display, one call at a time and nothing fails; a table    *)
(* with one and with two calls at a time, when its connection and the      *)
(* server fail; and the clocks of a table that may lose its connection and *)
(* a display, and of two tables that may.                                  *)
FiveSettings ==
  LET one == {"table"}
      two == TwoPages
      both == {"table", "server"}
  IN  {Setting(two, one, OneHandler, {}, {"start", "WAZA_ARI", "end", "osaekomi"}, {1}, 4, 0),
       Setting(one, one, OneHandler, both, {"start", "end", "golden", "osaekomi"}, {2}, 4, 0),
       Setting(one, one, TwoHandlers, both, {"start", "end", "osaekomi"}, {1}, 3, 0),
       Setting(two, one, OneHandler, one, {"start", "end", "pause"}, {1}, 3, 2),
       Setting(two, two, OneHandler, two, {"start", "end", "golden"}, {1}, 4, 1)}
=============================================================================
