---- MODULE MCMatchSetup ----
EXTENDS MatchSetup

At(points) == [i \in Slots |-> Cardinality({k \in DOMAIN points : points[k] = i})]
OnBoard(opp, own) == [s \in 0..1 |-> At(IF s = 0 THEN opp ELSE own)]

MCInitialBoard == OnBoard(<<1, 3>>, <<1, 3>>)

SomeScores == [0..1 -> {0, 2}]

\* Boards: on the way, both on the bar, borne off, and two that are not legal.
SomeBoards == {OnBoard(<<1, 3>>, <<0, 2>>), OnBoard(<<Bar>>, <<Bar, 2>>), OnBoard(<<>>, <<0>>)}
Shared     == OnBoard(<<1, 3>>, <<2, 2>>)

EditedOn(boards) ==
    [board : boards, fMove : 0..1, anDice : {<<0, 0>>, <<1, 2>>, <<2, 2>>}, fCubeOwner : -1..1,
     fCrawford : 0..1, nMatchTo : {0, 1, 3}, anScore : SomeScores, nCube : {1, 2}]

\* Money has no Crawford game; a score may have been left above the length.
MCEdits  == {e \in EditedOn(SomeBoards) : e.nMatchTo = 0 => e.fCrawford = 0}

\* The turn is the mover's but for an answer to a double or a resignation.
Keys == {k \in [nCube : {0, 1, 5}, fCubeOwner : {0, 1, 3}, fMove : 0..1, fCrawford : 0..1, gs : {1, 2},
                fTurn : 0..1, fDoubled : 0..1, fResigned : {0, 2}, anDice : {<<0, 0>>, <<2, 1>>},
                nMatchTo : {0, 3}, anScore : SomeScores, fJacoby : {0}] :
            /\ k.fTurn = k.fMove <=> (k.fDoubled = 0 /\ k.fResigned = 0)
            /\ IF k.nMatchTo = 3 THEN k.fResigned = 0
               ELSE k.fCrawford = 0 /\ k.anScore[0] + k.anScore[1] = 0}
    \cup {[MatchID(Playing) EXCEPT !.anDice = <<7, 0>>],
          [MatchID(Playing) EXCEPT !.anDice = <<1, 2>>],
          [MatchID(Playing) EXCEPT !.anScore[1] = 4],
          [MatchID(Idle) EXCEPT !.fCrawford = 1]}

SomeIDs == {PositionID(b) : b \in {Shared, OnBoard(<<0, 1>>, <<Bar>>)}}

\* Bare position IDs: as many ones as a legal position may have, anywhere.
MCPastes == [pos : {None, CHOOSE id \in SomeIDs : TRUE}, match : Keys]
       \cup [pos : {id \in [1..KeyBits -> 0..1] : Cardinality({k \in 1..KeyBits : id[k] = 1}) <= 2 * NChequers},
             match : {None}]

MCXGs == [board : {OnBoard(<<1, 3>>, <<0, 2>>)}, fMove : 0..1, anDice : {<<0, 0>>, <<1, 2>>}, doubled : BOOLEAN,
          fCubeOwner : -1..1, nCube : {1, 2}, nMatchTo : {0, 3}, rules : 0..3,
          anScore : {[p \in 0..1 |-> 0], [p \in 0..1 |-> 2 * p]}]

\* Set over whatever was set before: a bare position, a bare match, an edit.
MCAgain == [pos : {PositionID(OnBoard(<<0, 1>>, <<Bar>>))}, match : {None}]
      \cup [pos : {None}, match : {[MatchID(Playing) EXCEPT !.nCube = 1, !.fMove = 0, !.fTurn = 0]}]
      \cup {CHOOSE e \in MCEdits : e.fMove = 1 /\ e.nMatchTo = 3 /\ e.nCube = 2 /\ ScoreFits(e)}
====
