---- MODULE MCMoveEntry ----
EXTENDS MovePlay

Halves == {h \in [Slots -> 0..NChequers] : Chequers(h) <= NChequers}

\* Every position in which the game goes on.
LegalBoards == {b \in [0..1 -> Halves] : CheckPosition(b) /\ \A s \in 0..1 : Back(b[s]) >= 0}

At(points) == [i \in Slots |-> Cardinality({k \in DOMAIN points : points[k] = i})]
On(opp, own) == [s \in 0..1 |-> At(IF s = 0 THEN opp ELSE own)]

\* Those that are played out: a race, where presses may overtake each other; and,
\* press by press, hits on the way of doubles, and a chequer on the bar.
Race == [board |-> On(<<0, 0>>, <<1, 1>>), dice |-> <<1, 2>>]
Hits == [board |-> On(<<1, 3>>, <<3, 1>>), dice |-> <<1, 1>>]
Bars == [board |-> On(<<2, 1>>, <<Bar, 3>>), dice |-> <<2, 1>>]

\* The same race with another roll, on which a press left over from the first may fall.
Again == [Race EXCEPT !.dice = <<2, 2>>]

\* What the proofs assume of the generator's plays, of MoveList's.
ASSUME GeneratorAssumption == PlaysKeepTo(LegalBoards)

MCPositions == {[board |-> b, dice |-> d] : b \in LegalBoards, d \in (1..NFaces) \X (1..NFaces)}
MCReplies   == {Race, Again}
MCMaxQueue(p) == IF p = Race THEN 2 ELSE IF p \in {Hits, Bars, Again} THEN 1 ELSE 0

---------------------------------------------------------------------------
\* Boards that can be entered by taps and swaps of the dice alone.
RECURSIVE Enterable(_)
Enterable(states) ==
    LET swapped == {[s EXCEPT !.remainingDice = Reverse(@)] : s \in states}
        tapped  == UNION {Tapped(s, point) : s \in states \cup swapped, point \in 0..NPoints}
        next    == {[s EXCEPT !.moveHistory = <<>>] : s \in tapped}
    IN  IF states = {} THEN {} ELSE {s.board : s \in states} \cup Enterable(next)

\* Every legal play of a roll can be entered by hand, whichever chequer is moved with
\* which die first: the greedy tap and the swap of the dice miss none (onPointTap).
EveryPlayCanBeEntered ==
    Fresh => RulePlays(gnubg.board, Die(1), Die(2)) \subseteq Enterable({shown})

\* The dice greyed are those no play can use (GameViewModel.kt:436).  Not so: README.
GreyAreUnplayable ==
    LET plays == {w \in Ways(gnubg.board, RollOf(Die(1), Die(2))) : w.board \in RulePlays(gnubg.board, Die(1), Die(2))}
        used == IF plays = {} THEN {}
                ELSE IF \E w \in plays : w.n > 1 THEN {Die(1), Die(2)}
                ELSE {w.pips : w \in plays}
    IN Fresh => unplayableDiceFor(gnubg.board, shown.legalMoves, shown.remainingDice) = {Die(1), Die(2)} \ used
====
