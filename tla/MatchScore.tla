---- MODULE MatchScore ----
(***************************************************************************)
(* What a backgammon match promises its players, without a board: games are*)
(* won one after the other, each adds points to one score, the match is    *)
(* over when a score reaches its length, and nothing is won after that.  A *)
(* player may go back to an earlier game; what followed it is then gone.   *)
(* GnubgMatch is shown to implement this.                                  *)
(***************************************************************************)
EXTENDS Integers, Sequences

CONSTANTS
    Lengths,    \* lengths a match may have; 0 is a session without end
    Points      \* what a game may be worth

Players == 0..1

VARIABLES
    length,  \* the length of the match in play
    line     \* the scores, one before the first game and one after each game

vars == <<length, line>>

NilNil == [p \in Players |-> 0]

Over(score) == length # 0 /\ \E p \in Players : score[p] >= length

Init == length = 0 /\ line = <<NilNil>>

Start == length' \in Lengths /\ line' = <<NilNil>>

\* A game won, from the score after game k - 1; what came after is gone.
Win(k, p, points) ==
    /\ ~Over(line[k])
    /\ line' = Append(SubSeq(line, 1, k), [line[k] EXCEPT ![p] = @ + points])
    /\ UNCHANGED length

TakeBack ==
    /\ \E k \in 1..Len(line) : line' = SubSeq(line, 1, k)
    /\ UNCHANGED length

Next ==
    \/ Start
    \/ \E k \in 1..Len(line), p \in Players, points \in Points : Win(k, p, points)
    \/ TakeBack

Spec == Init /\ [][Next]_vars
====
