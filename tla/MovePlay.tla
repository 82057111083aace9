---- MODULE MovePlay ----
(***************************************************************************)
(* The entry of a turn over gnubg's own lists of plays: MoveEntry, with    *)
(* LegalMoves, FindMove and GiveMove bound to the functions of MoveList.   *)
(* What is said here relates what gnubg lists and takes to the rules.      *)
(***************************************************************************)
EXTENDS MoveEntry, MoveList

\* gnubg waits for a move, and nothing is pressed or left over from before.
Fresh == queue = <<>> /\ main = <<>> /\ engine = <<>> /\ gnubg.waiting /\ shown = Settled(gnubg)

Die(k) == gnubg.start.dice[k]

\* The generator lists exactly the boards the rules allow a play to lead to: it prunes the
\* plays of a double, and keeps the longest of those it meets (GenerateMoves, SaveMoves).
GeneratedAreTheRules ==
    Fresh => LET ml == GenerateMoves(gnubg.board, Die(1), Die(2)) IN
             {PositionFromKey(ml.amMoves[k].key) : k \in DOMAIN ml.amMoves}
             = RulePlays(gnubg.board, Die(1), Die(2))

\* A play found on the screen and sent as text reaches gnubg as that play.
TextIsThePlay ==
    Fresh => \A cur \in RulePlays(gnubg.board, Die(1), Die(2)) :
                CommandMove(find_move(gnubg.board, cur, Die(1), Die(2)),
                            gnubg.board, Die(1), Die(2)) = cur

\* Whatever presses overtake each other, what gnubg takes for the human's move is a play of
\* the position and the roll it waited with, or no play where there is none (CommandMove).
GnubgTakesPlays ==
    LET start == gnubg.start.board
        plays == RulePlays(start, Die(1), Die(2))
    IN  ~gnubg.waiting => gnubg.board \in IF plays = {} THEN {start} ELSE plays
====
