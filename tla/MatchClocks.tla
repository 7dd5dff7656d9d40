---------------------------- MODULE MatchClocks ----------------------------
(***************************************************************************)
(* The clocks the pages of a mat keep of the match they show: the server   *)
(* keeps none.  The table counts down while it runs and may be paused; a   *)
(* display takes the time when it first shows the match as ACTIVE.  Time   *)
(* is in units of ten seconds.                                             *)
(***************************************************************************)
EXTENDS ClientView

(* since: how long the match had been fought when the page was told;       *)
(* steady: whether it has not been paused since then.                      *)
NoClock == [left |-> 0, running |-> FALSE, since |-> 0, steady |-> FALSE]

Running(row) == row.status = "ACTIVE"

(* The effects run when the match, its status or its duration changes.     *)
Changed(old, new) == old.match # new.match \/ old.row.status # new.row.status

(* Mutant of Restarts: the match is left out of what the effect looks at.  *)
RestartsByStatus(old, new) == old.row.status # new.row.status

Restarts(old, new) == Changed(old, new)

(* ControlBoard: the time left is the whole duration of a match that is    *)
(* shown as ACTIVE, and none otherwise; a match that is not ACTIVE stops   *)
(* the countdown.  START MATCH sets it running before the match is ACTIVE. *)
TableClockAfter(clock, old, new, duration, fought) ==
  [left    |-> IF ~Restarts(old, new) THEN clock.left
               ELSE IF Running(new.row) THEN duration ELSE 0,
   running |-> clock.running /\ (Changed(old, new) /\ new.match # None => Running(new.row)),
   since   |-> IF Changed(old, new) THEN fought ELSE clock.since,
   steady  |-> Changed(old, new) \/ clock.steady]

(* Mutant of Stopped: startedAtRef is not reset.                           *)
NeverStopped(clock) == clock

Stopped(clock) == [clock EXCEPT !.running = FALSE]

(* DisplayPage: startedAtRef is taken unless it is set, and reset by a     *)
(* match that is not ACTIVE.                                               *)
DisplayClockAfter(clock, old, new, duration, fought) ==
  IF ~Changed(old, new) THEN clock
  ELSE IF ~Running(new.row) THEN Stopped(clock)
  ELSE [left    |-> IF clock.running THEN clock.left ELSE duration,
        running |-> TRUE, since |-> fought, steady |-> TRUE]

(* A unit of time on a page that shows a match with this row.              *)
Ticked(clock, row) ==
  IF clock.running /\ Running(row) /\ clock.left > 0 THEN [clock EXCEPT !.left = @ - 1] ELSE clock

Started(clock) == [clock EXCEPT !.running = TRUE]

(* PAUSE and RESUME. *)
Toggled(clock) == [clock EXCEPT !.running = ~@, !.steady = FALSE]

(* GOLDEN SCORE is offered when the time of an ACTIVE match is over.       *)
CanGoldenScore(view, clock) == CanScore(view) /\ clock.left = 0 /\ ~view.row.goldenScore
=============================================================================
