---- MODULE MCClockHands ----
(***************************************************************************)
(* Instances of ClockHands for TLC.                                        *)
(***************************************************************************)
EXTENDS ClockHands

Budget(starts, restarts, pauses, turns, entries) ==
    [starts |-> starts, restarts |-> restarts, pauses |-> pauses, turns |-> turns,
     entries |-> entries]

\* One match: a turn and a pause, two turns, or a turn and a tap that enters a move; and
\* two: by the button after a turn, or from the setup screen, one over the other.
OneOfEach == {Budget(1, 0, 1, 1, 0), Budget(1, 0, 0, 2, 0), Budget(1, 0, 0, 1, 1),
              Budget(1, 1, 0, 1, 0), Budget(2, 0, 0, 0, 0)}

\* A match played on, and another by the button.
TwoTurns == {Budget(1, 1, 0, 2, 0)}
====
