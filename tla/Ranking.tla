------------------------------ MODULE Ranking ------------------------------
(***************************************************************************)
(* rankRoundRobin: the table of a round robin or of one pool.  row is a    *)
(* function from matches to rows (module MatchRow), table a set of matches *)
(* of it, entered the competitors to rank.                                 *)
(***************************************************************************)
EXTENDS MatchRow, FiniteSets

(* computeRoundRobinStats counts a match once it has a winner, unless one  *)
(* of its two competitors is not ranked.                                   *)
Counted(row, table, entered) ==
  {m \in table : /\ row[m].status = "COMPLETED"
                 /\ row[m].winner # None
                 /\ \A side \in Sides : row[m].competitor[side] \in entered}

(* As winner counts competitor1 when it won, and competitor2 otherwise.    *)
CountedWinner(row, m) ==
  IF row[m].winner = row[m].competitor[1] THEN row[m].competitor[1]
                                          ELSE row[m].competitor[2]

Won(row, counted, c) == {m \in counted : CountedWinner(row, m) = c}

WinsBy(row, counted, c, winMethod) ==
  Cardinality({m \in Won(row, counted, c) : row[m].winMethod = winMethod})

(* Those of a match are counted one by one.                                *)
ShidosReceived(row, counted, c) ==
  LET received(m) == row[m].scores[IF row[m].competitor[1] = c THEN 1 ELSE 2].shido
      fought == {m \in counted : \E side \in Sides : row[m].competitor[side] = c}
  IN  Cardinality(UNION {{m} \X (1..received(m)) : m \in fought})

WinsIn(row, table, entered) ==
  LET counted == Counted(row, table, entered)
  IN  [c \in entered |-> Cardinality(Won(row, counted, c))]

(* What the comparison looks at, in its order; larger is better.           *)
Criteria(row, table, entered) ==
  LET counted == Counted(row, table, entered)
  IN  [c \in entered |->
         <<Cardinality(Won(row, counted, c)), WinsBy(row, counted, c, "IPPON"),
           WinsBy(row, counted, c, "WAZA_ARI"), -ShidosReceived(row, counted, c)>>]

(* Mutant of Ahead: wins are not looked at.                                *)
AheadOnIppons(k, l) ==
  \E i \in 2..4 : k[i] > l[i] /\ \A j \in 2..(i - 1) : k[j] = l[j]

Ahead(k, l) == \E i \in 1..4 : k[i] > l[i] /\ \A j \in 1..(i - 1) : k[j] = l[j]

(* headToHeadWinner *)
HeadToHead(row, table, c, d) ==
  {row[m].winner : m \in Counted(row, table, {c, d})}

(* The competitors that are level with c on every criterion.               *)
Level(criteria, c) == {d \in DOMAIN criteria : criteria[d] = criteria[c]}

(* Mutant of ToldApart: any number of competitors.                         *)
AnyToldApart(row, table, level) ==
  \E c, d \in level : c # d /\ HeadToHead(row, table, c, d) # {}

(* Only two that are level are told apart, by the match between them.      *)
ToldApart(row, table, level) ==
  /\ Cardinality(level) = 2
  /\ \E c, d \in level : c # d /\ HeadToHead(row, table, c, d) # {}

TiedWith(row, table, entered, c) ==
  LET level == Level(Criteria(row, table, entered), c)
  IN  IF ToldApart(row, table, level) THEN {} ELSE level \ {c}

Ranks(row, table, entered) ==
  LET criteria == Criteria(row, table, entered)
      ahead(c) == {d \in entered : Ahead(criteria[d], criteria[c])}
      lostDirect(c) ==
        LET level == Level(criteria, c)
        IN  /\ ToldApart(row, table, level)
            /\ \A d \in level \ {c} : c \notin HeadToHead(row, table, c, d)
  IN  [c \in entered |-> 1 + Cardinality(ahead(c)) + (IF lostDirect(c) THEN 1 ELSE 0)]
=============================================================================
