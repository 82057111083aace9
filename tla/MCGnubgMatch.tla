---- MODULE MCGnubgMatch ----
EXTENDS GnubgMatch

\* Money sessions are cut short, where beavers fit; matches reach their third game, the one
\* after the Crawford game.
MCMaxRecords == [n \in Lengths |-> IF n = 0 THEN 4 ELSE 6]

\* The view of the run: states that differ only in nSessionLen while a match is played are
\* explored once. No step from such a state reads it, and every way into a session sets it.
Live == <<ms, lMatch, last, fNextTurn, fCrawfordState, walked, turns,
          IF ms.nMatchTo = 0 THEN nSessionLen ELSE 0>>
====
