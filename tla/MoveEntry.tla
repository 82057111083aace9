---- MODULE MoveEntry ----
(***************************************************************************)
(* How a turn is entered on the board: GameViewModel.kt in HUMAN_MOVING,   *)
(* from the roll to the move given to gnubg.                               *)
(*                                                                         *)
(* The main thread takes the presses.  A tap, a drag, Confirm and Pass     *)
(* capture the state shown and launch a body on engineThread, which runs   *)
(* the bodies in order; Undo and the swap of the dice read the state and   *)
(* write it back on the main thread itself.  So what a body captured may   *)
(* be old when it runs, and two threads write _gameState.                  *)
(*                                                                         *)
(* What gnubg says of plays comes in as constants, bound by the facade's   *)
(* functions of MoveList.  gnubg's own turn is no more than the position   *)
(* it leaves.  Left out: the coach's hold, the clock, the tutor, the cube. *)
(***************************************************************************)
EXTENDS Board, Sequences, SequencesExt

CONSTANTS
    LegalMoves(_, _, _),      \* Engine.getLegalMoves(board, d0, d1)
    FindMove(_, _, _, _),     \* Engine.findMove(old, cur, d0, d1), <<>> if none
    GiveMove(_, _, _, _),     \* CommandMove(text) on board and dice, NoBoard if refused
    Positions,                \* what a turn begins with: [board |-> , dice |-> ]
    Replies,                  \* those gnubg's own turn may leave
    MaxQueue(_),              \* bound, by position: bodies waiting for engineThread
    MaxTurns                  \* bound: turns of the human

ASSUME EntryAssumption ==
    /\ Replies \subseteq Positions
    /\ Positions \subseteq [board : Boards, dice : (1..NFaces) \X (1..NFaces)]
    /\ \A p \in Positions : ~SharedPoint(p.board) /\ CorrectNumberOfChequers(p.board)
    /\ MaxTurns \in Nat \ {0}
    \* what waits behind a roll may wait in the turn it begins
    /\ \A p \in Positions : /\ MaxQueue(p) \in Nat
                            /\ \A r \in Replies : MaxQueue(p) <= MaxQueue(r) + 1

VARIABLES
    gnubg,      \* gnubg's match: the turn, the position it began with, the board, and
                \* whether it waits for the human's move
    shown,      \* _gameState
    queue,      \* bodies launched on engineThread, with the state each captured
    main,       \* what the main thread is about to write: <<>> or <<state>>
    engine      \* what the body at work is giving to gnubg: <<>> or <<text>>

vars == <<gnubg, shown, queue, main, engine>>

Presses == [op : {"tap"}, point : 0..NPoints]
    \cup [op : {"drag"}, from : 0..NPoints, to : 0..NPoints]
    \cup [op : {"confirm", "pass", "roll"}]

---------------------------------------------------------------------------
(* Lists of dice, as Kotlin's lists.                                       *)

Without(dice, k) == [j \in 1 .. Len(dice) - 1 |-> IF j < k THEN dice[j] ELSE dice[j + 1]]

FirstAt(dice, d) == CHOOSE k \in DOMAIN dice : dice[k] = d /\ \A j \in 1 .. k - 1 : dice[j] # d

FourOrTwo_NoDoublesFault(dice) == dice

FourOrTwo(dice) == IF dice[1] = dice[2] THEN [k \in 1..4 |-> dice[1]] ELSE dice

\* getLegalMoves over what is left; one die is asked for as a double.
MovesFor(b, dice) ==
    IF dice = <<>> THEN <<>>
    ELSE LegalMoves(b, dice[1], IF Len(dice) > 1 THEN dice[2] ELSE dice[1])

\* What is shown when gnubg waits for the human's move, and when it does not.
FreshEntry(b, dice) ==
    [phase |-> "HUMAN_MOVING", board |-> b, oldBoard |-> b, originalDice |-> dice,
     remainingDice |-> FourOrTwo(dice), legalMoves |-> LegalMoves(b, dice[1], dice[2]),
     moveHistory |-> <<>>]

NothingThere == [s \in 0..1 |-> [i \in Slots |-> 0]]

\* settleFromEngine: the projection of gnubg's state.
Settled(g) ==
    IF g.waiting THEN FreshEntry(g.board, g.start.dice)
    ELSE [FreshEntry(g.board, g.start.dice) EXCEPT
            !.phase = IF GameStatus(g.board) # 0 THEN "GAME_OVER" ELSE "WAITING_FOR_ROLL",
            !.oldBoard = NothingThere, !.remainingDice = <<>>, !.legalMoves = <<>>]

\* The state after a hop: dice that cannot be played any more are dropped.
Hopped(s, b, left) ==
    LET moves == MovesFor(b, left)
        snapshot == [board |-> s.board, remainingDice |-> s.remainingDice,
                     legalMoves |-> s.legalMoves]
    IN  [s EXCEPT !.board = b, !.legalMoves = moves,
                  !.remainingDice = IF moves = <<>> THEN <<>> ELSE left,
                  !.moveHistory = Append(@, snapshot)]

---------------------------------------------------------------------------
(* Taps.                                                                   *)

\* tryDestinationStackMove: two chequers brought to one point by a tap on it.
Stacks(s, dest) ==
    LET dice == s.remainingDice
        Hop(b, d) == IF b = NoBoard \/ dest + d >= NPoints THEN NoBoard
                     ELSE apply_sub_move(b, dest + d, d)
        pairs == {ij \in (DOMAIN dice) \X (DOMAIN dice) : ij[1] # ij[2]}
        results == {[board |-> Hop(Hop(s.board, dice[ij[1]]), dice[ij[2]]),
                     left |-> Without(Without(dice, ij[1]),
                                      IF ij[2] < ij[1] THEN ij[2] ELSE ij[2] - 1)] : ij \in pairs}
    IN  {r \in results : r.board # NoBoard}

\* tapSource: the states a tap can leave, none if it changes nothing.
Tapped(s, point) ==
    LET onBar  == s.board[1][Bar] > 0
        stacks == IF ~onBar /\ point > 0 /\ s.board[1][point - 1] = 0
                  THEN Stacks(s, point - 1) ELSE {}
        src    == IF onBar \/ point = 0 THEN Bar ELSE point - 1
        usable == {k \in DOMAIN s.remainingDice :
                     apply_sub_move(s.board, src, s.remainingDice[k]) # NoBoard}
    IN  IF Cardinality(stacks) = 1 THEN {Hopped(s, r.board, r.left) : r \in stacks}
        ELSE {Hopped(s, apply_sub_move(s.board, src, s.remainingDice[k]),
                     Without(s.remainingDice, k)) :
                k \in {k \in usable : \A j \in usable : k <= j}}

---------------------------------------------------------------------------
(* Drags.  A chequer is followed along the plays gnubg lists.              *)

Way(an, origin, target) ==
    LET Follow(acc, hop) ==
            IF acc.reached \/ hop[1] # acc.here THEN acc
            ELSE [here |-> hop[2], hops |-> Append(acc.hops, hop), reached |-> hop[2] = target]
    IN  FoldLeft(Follow, [here |-> origin, hops |-> <<>>, reached |-> FALSE], an)

\* The hops of a way applied; a hop off the board takes the smallest die that serves.
Walked(s, hops) ==
    LET Walk(acc, hop) ==
            LET dice == {d \in Range(acc.left) : /\ hop[2] < 0 \/ d = hop[1] - hop[2]
                                                 /\ apply_sub_move(acc.board, hop[1], d) # NoBoard}
                die  == CHOOSE d \in dice : \A e \in dice : d <= e
            IN  IF ~acc.ok \/ dice = {} THEN [acc EXCEPT !.ok = FALSE]
                ELSE [ok |-> TRUE, board |-> apply_sub_move(acc.board, hop[1], die),
                      left |-> Without(acc.left, FirstAt(acc.left, die))]
    IN  FoldLeft(Walk, [ok |-> TRUE, board |-> s.board, left |-> s.remainingDice], hops)

\* dragMove: the first listed play along which the chequer gets there.
Dragged(s, from, to) ==
    LET origin == IF from = 0 THEN Bar ELSE from - 1
        way(k) == Way(s.legalMoves[k], origin, to - 1)
        found  == {k \in DOMAIN s.legalMoves : way(k).reached /\ Walked(s, way(k).hops).ok}
    IN  {Hopped(s, Walked(s, way(k).hops).board, Walked(s, way(k).hops).left) :
            k \in {k \in found : \A j \in found : k <= j}}

LandingPoints_AllHopsFault(s, point) ==
    LET Follow(acc, hop) ==
            IF hop[1] # acc.here THEN acc
            ELSE [here |-> hop[2], lit |-> acc.lit \cup ({hop[2] + 1} \ {0})]
        Lit(an) == FoldLeft(Follow, [here |-> point - 1, lit |-> {}],
                            an).lit
    IN  IF s.board[1][point - 1] = 0 THEN {} ELSE UNION {Lit(an) : an \in Range(s.legalMoves)}

\* Board.kt, landingPointsForSource: the points lit up for a chequer.
LandingPoints(s, point) ==
    LET Follow(acc, hop) ==
            IF hop[1] # acc.here THEN acc
            ELSE [here |-> hop[2], lit |-> acc.lit \cup ({hop[2] + 1} \ {0})]
        Lit(an) == FoldLeft(Follow, [here |-> point - 1, lit |-> {}],
                            SubSeq(an, 1, IF Len(an) < Len(s.remainingDice)
                                          THEN Len(an) ELSE Len(s.remainingDice))).lit
    IN  IF s.board[1][point - 1] = 0 THEN {} ELSE UNION {Lit(an) : an \in Range(s.legalMoves)}

\* What a drag lights up, and where it may end: for the bar, barEntryPoints.
Highlighted(s, from) ==
    IF from > 0 THEN LandingPoints(s, from)
    ELSE {NPoints + 1 - d : d \in {d \in Range(s.remainingDice) :
                                     apply_sub_move(s.board, Bar, d) # NoBoard}}

\* unplayableDiceFor: the dice greyed when a turn begins.  The die of a hop off
\* the board is guessed: one not yet seen, if it would serve.
unplayableDiceFor(b, moves, dice) ==
    LET distinct == IF dice[1] = dice[2] THEN <<dice[1]>> ELSE dice
        Hop(acc, hop) ==
            LET served == SelectSeq(distinct, LAMBDA d : apply_sub_move(acc.work, hop[1], d) # NoBoard)
                unseen == SelectSeq(served, LAMBDA d : d \notin acc.playable)
                die == IF hop[2] >= 0 THEN hop[1] - hop[2]
                       ELSE IF unseen # <<>> THEN unseen[1] ELSE served[1]
            IN  IF hop[2] < 0 /\ served = <<>> THEN acc
                ELSE [playable |-> acc.playable \cup {die},
                      work |-> IF apply_sub_move(acc.work, hop[1], die) = NoBoard THEN acc.work
                               ELSE apply_sub_move(acc.work, hop[1], die)]
        Play(playable, an) == FoldLeft(Hop, [playable |-> playable, work |-> b], an).playable
    IN  Range(dice) \ FoldLeft(Play, {}, moves)

---------------------------------------------------------------------------
(* The main thread.                                                        *)

Rolled(p, n) == [turn |-> n, start |-> p, board |-> p.board, waiting |-> TRUE]

Init == /\ gnubg \in {Rolled(p, 1) : p \in Positions}
        /\ shown = Settled(gnubg)
        /\ queue = <<>> /\ main = <<>> /\ engine = <<>>

CanPress(press) ==
    /\ shown.phase = IF press.op = "roll" THEN "WAITING_FOR_ROLL" ELSE "HUMAN_MOVING"
    /\ press.op \in {"tap", "drag"} => shown.remainingDice # <<>>
    /\ press.op = "drag" => press.to \in Highlighted(shown, press.from)
    /\ press.op = "pass" => shown.legalMoves = <<>> /\ shown.board = shown.oldBoard

Press(press) ==
    /\ main = <<>> /\ Len(queue) < MaxQueue(gnubg.start) /\ CanPress(press)
    /\ queue' = Append(queue, [press |-> press, state |-> shown])
    /\ UNCHANGED <<gnubg, shown, main, engine>>

\* undo and swapDice copy the state they have read; MainWrites puts it back.
Undo ==
    /\ main = <<>> /\ shown.phase = "HUMAN_MOVING" /\ shown.moveHistory # <<>>
    /\ main' = <<[shown EXCEPT !.board = Last(shown.moveHistory).board,
                               !.remainingDice = Last(shown.moveHistory).remainingDice,
                               !.legalMoves = Last(shown.moveHistory).legalMoves,
                               !.moveHistory = Front(@)]>>
    /\ UNCHANGED <<gnubg, shown, queue, engine>>

SwapDice ==
    /\ main = <<>> /\ shown.phase = "HUMAN_MOVING"
    /\ Len(shown.remainingDice) >= 2 /\ shown.remainingDice[1] # shown.remainingDice[2]
    /\ main' = <<[shown EXCEPT !.remainingDice = Reverse(@)]>>
    /\ UNCHANGED <<gnubg, shown, queue, engine>>

MainWrites ==
    /\ main # <<>>
    /\ shown' = main[1] /\ main' = <<>>
    /\ UNCHANGED <<gnubg, queue, engine>>

---------------------------------------------------------------------------
(* The engine thread.                                                      *)

HopBody_MergeFault ==
    /\ engine = <<>> /\ queue # <<>> /\ Head(queue).press.op \in {"tap", "drag"}
    /\ LET s == Head(queue).state
           p == Head(queue).press
           new == IF p.op = "tap" THEN Tapped(s, p.point) ELSE Dragged(s, p.from, p.to)
       IN  IF new = {} THEN UNCHANGED shown ELSE \E s2 \in new : shown' = [s2 EXCEPT !.oldBoard = shown.oldBoard, !.moveHistory = Append(shown.moveHistory, Last(s2.moveHistory))]
    /\ queue' = Tail(queue)
    /\ UNCHANGED <<gnubg, main, engine>>

\* A body of tapSource or dragMove: it writes what it made of the state captured.
HopBody ==
    /\ engine = <<>> /\ queue # <<>> /\ Head(queue).press.op \in {"tap", "drag"}
    /\ LET s == Head(queue).state
           p == Head(queue).press
           new == IF p.op = "tap" THEN Tapped(s, p.point) ELSE Dragged(s, p.from, p.to)
       IN  IF new = {} THEN UNCHANGED shown ELSE shown' \in new
    /\ queue' = Tail(queue)
    /\ UNCHANGED <<gnubg, main, engine>>

\* confirm and passTurn up to beginEngineWork: the play of the captured state, the
\* phase of the state now.  The empty text passes.
GiveBody ==
    /\ engine = <<>> /\ queue # <<>> /\ Head(queue).press.op \in {"confirm", "pass"}
    /\ LET s == Head(queue).state
           text == FindMove(s.oldBoard, s.board, s.originalDice[1], s.originalDice[2])
           given == IF Head(queue).press.op = "pass" THEN <<>> ELSE text
       IN  IF /\ Head(queue).press.op = "confirm" => s.board # s.oldBoard /\ text # <<>>
              /\ shown.phase = "HUMAN_MOVING"
           THEN engine' = <<given>> /\ shown' = [shown EXCEPT !.phase = "ENGINE_THINKING"]
           ELSE UNCHANGED <<engine, shown>>
    /\ queue' = Tail(queue)
    /\ UNCHANGED <<gnubg, main>>

\* gnubg's answer and settleFromEngine.  gnubg refuses when it does not wait
\* for a move, and what is no play of its own board and dice.
GnubgAnswers ==
    /\ engine # <<>>
    /\ LET new == GiveMove(engine[1], gnubg.board, gnubg.start.dice[1], gnubg.start.dice[2])
       IN  gnubg' = IF gnubg.waiting /\ new # NoBoard
                    THEN [gnubg EXCEPT !.board = new, !.waiting = FALSE] ELSE gnubg
    /\ shown' = Settled(gnubg')
    /\ engine' = <<>>
    /\ UNCHANGED <<queue, main>>

\* doRollNow: gnubg has moved, the human rolls; it refuses a second
\* roll, and any after the end of the game.
RollBody ==
    /\ engine = <<>> /\ queue # <<>> /\ Head(queue).press.op = "roll"
    /\ IF gnubg.waiting \/ GameStatus(gnubg.board) # 0 THEN UNCHANGED gnubg
       ELSE gnubg.turn < MaxTurns /\ gnubg' \in {Rolled(p, gnubg.turn + 1) : p \in Replies}
    /\ shown' = Settled(gnubg')
    /\ queue' = Tail(queue)
    /\ UNCHANGED <<main, engine>>

Next ==
    \/ \E press \in Presses : Press(press)
    \/ Undo \/ SwapDice \/ MainWrites
    \/ HopBody \/ GiveBody \/ GnubgAnswers \/ RollBody

Spec == Init /\ [][Next]_vars

---------------------------------------------------------------------------
(* Properties.                                                             *)

\* What the preview relies on, of gnubg's lists for some boards: hops of the dice to points
\* the opponent has not made, and each of two different dice is used once.
IsPlay(an, b, dice) ==
    /\ \A k \in DOMAIN an : an[k][1] \in Slots /\ an[k][2] \in -1 .. NPoints - 1
    /\ \A k \in DOMAIN an : an[k][2] >= 0 =>
          an[k][1] - an[k][2] \in dice /\ b[0][Mirror(an[k][2])] < 2
    /\ (\E d, e \in dice : d # e) =>
          /\ Len(an) <= 2
          /\ \A j, k \in DOMAIN an : j # k /\ an[j][2] >= 0 /\ an[k][2] >= 0 =>
                an[j][1] - an[j][2] # an[k][1] - an[k][2]

PlaysKeepTo(boards) ==
    \A b \in boards, d0, d1 \in 1..NFaces : \A k \in DOMAIN LegalMoves(b, d0, d1) :
        IsPlay(LegalMoves(b, d0, d1)[k], b, {d0, d1})

\* The variables stay in their types, and a hop loses no chequer of the opponent's.
TypeOK ==
    /\ gnubg \in [turn : 1..MaxTurns,
                 start : [board : Boards, dice : (1..NFaces) \X (1..NFaces)], board : Boards, waiting : BOOLEAN]
    /\ shown.phase \in {"HUMAN_MOVING", "ENGINE_THINKING", "WAITING_FOR_ROLL", "GAME_OVER"}
    /\ shown.board \in Boards
    /\ shown.phase = "HUMAN_MOVING" =>
          Chequers(shown.board[0]) = Chequers(shown.oldBoard[0])    \* a hit is not a loss
    /\ Len(queue) <= MaxQueue(gnubg.start)
    /\ Len(main) <= 1 /\ Len(engine) <= 1

HomeOf(s) == IF s.moveHistory = <<>> THEN s.board ELSE s.moveHistory[1].board

LeadsHome(s) == s.phase = "HUMAN_MOVING" => HomeOf(s) = s.oldBoard

\* Undo leads back to where the turn began, whichever writes of the two threads
\* were lost: the last snapshot of every state shown, captured or about to be
\* written is the board the turn began with.
UndoLeadsHome ==
    /\ LeadsHome(shown)
    /\ \A k \in DOMAIN main : LeadsHome(main[k])
    /\ \A k \in DOMAIN queue : LeadsHome(queue[k].state)

\* A point lit up for a chequer on the board can be dropped on: the preview
\* (Board.kt) and dragMove read gnubg's list in the same way.
PreviewCanBeDropped ==
    shown.phase = "HUMAN_MOVING" =>
        \A from \in 1..NPoints : \A to \in LandingPoints(shown, from) : Dragged(shown, from, to) # {}

\* "gnubg IS the phase": with no thread at work the screen asks for a move just
\* when gnubg waits for one (settleFromEngine, GameViewModel.kt:1494-1500).
PhaseIsGnubgs ==
    queue = <<>> /\ main = <<>> /\ engine = <<>> =>
        (shown.phase = "HUMAN_MOVING" <=> gnubg.waiting)
====
