---- MODULE MatchSetup ----
(***************************************************************************)
(* Positions set up from outside play: a GNU BG ID or an XGID pasted, or a *)
(* position edited on the Analyse screen, which is encoded as an ID and    *)
(* installed like one.  engine-core/positionid.c, matchid.c, set.c and     *)
(* play.c, with the verbs of jni-bridge/src/gnubg_mobile.c.                *)
(*                                                                         *)
(* Base64 turns bits into letters one to one and is left out: a position   *)
(* ID is the sequence of its bits, a match ID the record of its fields,    *)
(* each cut to its width.  Left out as well: the record of moves (each     *)
(* record added is applied to ms at once), names, and nBeavers.            *)
(***************************************************************************)
EXTENDS Board, Sequences, SequencesExt

CONSTANTS
    InitialBoard,   \* InitBoard
    MaxScore,       \* MAXSCORE
    MaxCube,        \* MAX_CUBE
    Pastes,         \* [pos |-> , match |-> ]: IDs pasted, <<>> where there is none
    XGs,            \* XGIDs pasted
    Edits,          \* positions edited
    Again           \* bound: of all these, those set when another was set before

ASSUME SetupAssumption ==
    /\ InitialBoard \in Boards /\ CheckPosition(InitialBoard)
    /\ MaxScore \in 3 .. 2 ^ 15 - 1 /\ MaxCube \in Nat \ {0}

GAME_NONE == 0
GAME_PLAYING == 1

VARIABLES
    ms,     \* the match state
    ap,     \* ap[i].pt
    set     \* what was set last, on which match state, and what the verb returned

vars == <<ms, ap, set>>

---------------------------------------------------------------------------
(* Position IDs: a one for each chequer of a point, then a zero, in the    *)
(* order of anBoard.                                                       *)

KeyBits == 2 * (NChequers + NPoints + 1)

PositionID(b) ==
    LET Point(s, i) == [k \in 1 .. b[s][i] + 1 |-> IF k <= b[s][i] THEN 1 ELSE 0]
        bits == FlattenSeq([k \in 1 .. 2 * (NPoints + 1) |->
                    Point((k - 1) \div (NPoints + 1), (k - 1) % (NPoints + 1))])
    IN  [k \in 1 .. KeyBits |-> IF k <= Len(bits) THEN bits[k] ELSE 0]

\* A one after the last point ends the reading.
oldPositionFromKey(bits) ==
    LET Read(acc, bit) ==
            IF acc.i = 2 THEN acc
            ELSE IF bit = 1 THEN [acc EXCEPT !.board[acc.i][acc.j] = @ + 1]
            ELSE IF acc.j = NPoints THEN [acc EXCEPT !.i = @ + 1, !.j = 0]
            ELSE [acc EXCEPT !.j = @ + 1]
    IN  FoldLeft(Read, [i |-> 0, j |-> 0, board |-> [s \in 0..1 |-> [i \in Slots |-> 0]]], bits).board

\* The board is written whatever the answer, which is 1 or 0.
PositionFromID(bits) ==
    LET b == oldPositionFromKey(bits)
    IN  [board |-> b, rc |-> IF CheckPosition(b) THEN 1 ELSE 0]

---------------------------------------------------------------------------
(* Match IDs.                                                              *)

LogCube(n) == CHOOSE i \in 0..30 : 2 ^ i <= n /\ n < 2 ^ (i + 1)

MatchID_NoLogFault(m) ==
    LET dice == IF m.anDice[1] >= m.anDice[2] THEN m.anDice ELSE Reverse(m.anDice)
    IN  [nCube |-> m.nCube % 16, fCubeOwner |-> m.fCubeOwner % 4, fMove |-> m.fMove % 2,
         fCrawford |-> m.fCrawford, gs |-> m.gs % 8, fTurn |-> m.fTurn % 2, fDoubled |-> m.fDoubled,
         fResigned |-> m.fResigned % 4, anDice |-> [k \in 1..2 |-> dice[k] % 8],
         nMatchTo |-> m.nMatchTo % 2 ^ 15, anScore |-> [p \in 0..1 |-> m.anScore[p] % 2 ^ 15],
         fJacoby |-> m.fJacoby]

MatchID(m) ==
    LET dice == IF m.anDice[1] >= m.anDice[2] THEN m.anDice ELSE Reverse(m.anDice)
    IN  [nCube |-> LogCube(m.nCube) % 16, fCubeOwner |-> m.fCubeOwner % 4, fMove |-> m.fMove % 2,
         fCrawford |-> m.fCrawford, gs |-> m.gs % 8, fTurn |-> m.fTurn % 2, fDoubled |-> m.fDoubled,
         fResigned |-> m.fResigned % 4, anDice |-> [k \in 1..2 |-> dice[k] % 8],
         nMatchTo |-> m.nMatchTo % 2 ^ 15, anScore |-> [p \in 0..1 |-> m.anScore[p] % 2 ^ 15],
         fJacoby |-> m.fJacoby]

\* MatchFromKey, with its check.
MatchFromID(id) ==
    [rc  |-> IF /\ \A k \in 1..2 : id.anDice[k] <= 6
                /\ id.nMatchTo <= MaxScore
                /\ IF id.nMatchTo > 0 THEN \A p \in 0..1 : id.anScore[p] <= id.nMatchTo
                   ELSE id.fCrawford = 0
             THEN 0 ELSE -1,
     key |-> [id EXCEPT !.nCube = 2 ^ @, !.fCubeOwner = IF @ \in 0..1 THEN @ ELSE -1]]

---------------------------------------------------------------------------
(* Records applied to the match state; each says that a game is on.        *)

On(m) == [m EXCEPT !.gs = GAME_PLAYING, !.fResigned = 0]

\* A cube may be set before anybody is on move.
MoverOf(m) == IF m.fMove < 0 THEN 0 ELSE m.fMove

SetDice(m, anDice) == [On(m) EXCEPT !.anDice = anDice, !.fTurn = m.fMove, !.fDoubled = 0]

SetCubePos(m, owner) ==
    [On(m) EXCEPT !.fCubeOwner = owner, !.fDoubled = 0, !.fMove = MoverOf(m), !.fTurn = MoverOf(m)]

CheckCubeAllowed(m) == m.gs = GAME_PLAYING /\ m.fCrawford = 0 /\ m.fCubeUse

SetCubeValue(m, n) ==
    IF CheckCubeAllowed(m) /\ n <= MaxCube
    THEN [On(m) EXCEPT !.nCube = n, !.fDoubled = 0, !.fMove = MoverOf(m), !.fTurn = MoverOf(m)]
    ELSE m

\* The record holds the board as player 0 sees it.
SetBoardRecord(m, b) ==
    [On(m) EXCEPT !.anBoard = IF m.fMove = 1 THEN SwapSides(b) ELSE b,
                  !.fMove = MoverOf(m), !.fTurn = IF m.fMove < 0 THEN 0 ELSE @]

SetBoard_FrameFault(m, id) ==
    LET an == PositionFromID(id)
    IN  IF m.gs # GAME_PLAYING \/ an.rc < 0 \/ ~CorrectNumberOfChequers(an.board) THEN m
        ELSE SetBoardRecord(m, an.board)

\* ParsePosition gives 0 for a position that is not legal; SetBoard refuses
\* what is below 0.
SetBoard(m, id) ==
    LET an == PositionFromID(id)
    IN  IF m.gs # GAME_PLAYING \/ an.rc < 0 \/ ~CorrectNumberOfChequers(an.board) THEN m
        ELSE SetBoardRecord(m, IF m.fMove = 1 THEN SwapSides(an.board) ELSE an.board)

\* The match begins anew: a GAMEINFO, then what the ID says of the game, then
\* a record each for the dice, the cube, and the board there was before.
SetMatchID(m, id) ==
    LET read   == MatchFromID(id)
        k      == read.key
        turn   == IF k.fDoubled = 1 THEN 1 - k.fTurn ELSE k.fTurn
        oneAway == \E p \in 0..1 : k.anScore[p] = k.nMatchTo - 1
        craw   == IF oneAway /\ k.nMatchTo # 1 THEN k.fCrawford ELSE 0
        begun  == [m EXCEPT !.nMatchTo = k.nMatchTo, !.anScore = k.anScore, !.fCrawford = craw,
                            !.fPostCrawford = craw = 0 /\ oneAway, !.anBoard = InitialBoard,
                            !.fCubeOwner = -1, !.nCube = 1, !.anDice = <<0, 0>>,
                            !.gs = k.gs, !.fMove = IF k.fDoubled = 1 THEN turn ELSE k.fMove,
                            !.fTurn = turn, !.fResigned = k.fResigned, !.fDoubled = 0,
                            !.fJacoby = k.fJacoby]
        diced  == IF k.anDice[1] > 0 THEN SetDice(begun, k.anDice) ELSE begun
        owned  == IF k.fCubeOwner # -1 THEN SetCubePos(diced, k.fCubeOwner) ELSE diced
        cubed  == IF k.nCube # 1 THEN SetCubeValue(owned, k.nCube) ELSE owned
    IN  IF read.rc < 0 THEN m
        ELSE IF m.gs = GAME_PLAYING THEN SetBoard(cubed, PositionID(m.anBoard)) ELSE cubed

---------------------------------------------------------------------------
(* The verbs.                                                              *)

None == <<>>

\* SetGNUbgID, for a string that is not an XGID.
SetIDs(m, id) ==
    LET matched == IF id.match = None THEN m ELSE SetMatchID(m, id.match)
    IN  IF id.pos = None THEN matched ELSE SetBoard(matched, id.pos)

\* SetXGID: the match state it fills in; a double is put to the other side.
XGState(m, x) ==
    [m EXCEPT !.anDice = IF x.doubled THEN <<0, 0>> ELSE x.anDice, !.fResigned = 0,
              !.fDoubled = IF x.doubled THEN 1 ELSE 0, !.fMove = x.fMove,
              !.fTurn = IF x.doubled THEN 1 - x.fMove ELSE x.fMove,
              !.fCubeOwner = x.fCubeOwner, !.nCube = x.nCube, !.nMatchTo = x.nMatchTo,
              !.anScore = x.anScore, !.gs = GAME_PLAYING,
              !.fCrawford = IF x.nMatchTo > 0 THEN x.rules ELSE 0,
              !.fJacoby = IF x.nMatchTo > 0 THEN 0 ELSE x.rules % 2]

XGIsValid(x) ==
    /\ x.nMatchTo <= MaxScore
    /\ x.rules \in IF x.nMatchTo > 0 THEN 0..1 ELSE 0..3
    /\ x.nMatchTo > 0 => \A p \in 0..1 : x.anScore[p] < x.nMatchTo
    /\ x.nCube <= MaxCube

\* 1 if refused, 2 if the player on roll is said to appear on top.
SetXGID(m, x) ==
    LET board   == IF x.fMove = 1 THEN x.board ELSE SwapSides(x.board)
        matched == SetMatchID(m, MatchID(XGState(m, x)))
    IN  IF ~XGIsValid(x) THEN [ms |-> m, rc |-> 1]
        ELSE [ms |-> SetBoard(matched, PositionID(board)), rc |-> IF x.fMove = 1 THEN 0 ELSE 2]

ids_from_state_NoSwapFault(m, e) ==
    [pos   |-> PositionID(e.board),
     match |-> MatchID([m EXCEPT !.anDice = e.anDice, !.fTurn = e.fMove, !.fMove = e.fMove,
                                 !.fCubeOwner = e.fCubeOwner, !.fCrawford = e.fCrawford,
                                 !.nMatchTo = e.nMatchTo, !.anScore = e.anScore,
                                 !.nCube = e.nCube, !.fResigned = 0, !.fDoubled = 0,
                                 !.gs = GAME_PLAYING])]

\* gnubg_mobile_ids_from_state: e.board is the human's, side 1 the human.
ids_from_state(m, e) ==
    [pos   |-> PositionID(IF e.fMove = 1 THEN SwapSides(e.board) ELSE e.board),
     match |-> MatchID([m EXCEPT !.anDice = e.anDice, !.fTurn = e.fMove, !.fMove = e.fMove,
                                 !.fCubeOwner = e.fCubeOwner, !.fCrawford = e.fCrawford,
                                 !.nMatchTo = e.nMatchTo, !.anScore = e.anScore,
                                 !.nCube = e.nCube, !.fResigned = 0, !.fDoubled = 0,
                                 !.gs = GAME_PLAYING])]

current_ids(m) == [pos |-> PositionID(m.anBoard), match |-> MatchID(m)]

\* gnubg_mobile_get_board_human
get_board_human(m) == IF m.fMove = 1 THEN SwapSides(m.anBoard) ELSE m.anBoard

---------------------------------------------------------------------------
(* What may be set: IDs are bits and fields of their width, an XGID is     *)
(* parsed to numbers, and the editor has no Crawford game without a match. *)
(* It raises a score only below the length, but lowers the length whatever *)
(* the scores are (AnalyseScreen.kt:656-687).                              *)

Rolls  == [1..2 -> 0..6]
Cubes  == {2 ^ i : i \in 0..15}
Scores == [0..1 -> 0 .. 2 ^ 15 - 1]

PositionIDs == [1..KeyBits -> 0..1]

MatchIDs ==
    [nCube : 0..15, fCubeOwner : 0..3, fMove : 0..1, fCrawford : 0..1, gs : 0..7, fTurn : 0..1,
     fDoubled : 0..1, fResigned : 0..3, anDice : [1..2 -> 0..7], nMatchTo : 0 .. 2 ^ 15 - 1,
     anScore : Scores, fJacoby : 0..1]

XGIDs ==
    [board : Boards, fMove : 0..1, anDice : Rolls, doubled : BOOLEAN, fCubeOwner : -1..1,
     nCube : Cubes, nMatchTo : Nat, rules : Nat, anScore : [0..1 -> Nat]]

Edited ==
    {e \in [board : Boards, fMove : 0..1, anDice : Rolls, fCubeOwner : -1..1, fCrawford : 0..1,
            nMatchTo : 0..MaxScore, anScore : Scores, nCube : Cubes \cap 1..MaxCube] :
        e.nMatchTo = 0 => e.fCrawford = 0}

ASSUME InputAssumption ==
    /\ Pastes \subseteq [pos : {None} \cup PositionIDs, match : {None} \cup MatchIDs]
    /\ XGs \subseteq XGIDs
    /\ Edits \subseteq Edited

---------------------------------------------------------------------------
\* gnubg_mobile_init, and the ms of a Play game just started.
Idle == [gs |-> GAME_NONE, fMove |-> -1, fTurn |-> -1, anDice |-> <<0, 0>>, fDoubled |-> 0,
         fResigned |-> 0, fCubeOwner |-> -1, nCube |-> 1, fCrawford |-> 0,
         fPostCrawford |-> FALSE, nMatchTo |-> 0, anScore |-> [p \in 0..1 |-> 0],
         fJacoby |-> 0, fCubeUse |-> TRUE, anBoard |-> InitialBoard]
Playing == [Idle EXCEPT !.gs = GAME_PLAYING, !.fMove = 1, !.fTurn = 1, !.anDice = <<2, 1>>,
                        !.nMatchTo = 3]

Human == "PLAYER_HUMAN"
Gnu   == "PLAYER_GNU"

Init == /\ ms \in {Idle, Playing}
        /\ ap = [p \in 0..1 |-> IF p = 0 THEN Human ELSE Gnu]
        /\ set = [by |-> "nothing", what |-> None, on |-> ms, rc |-> 0]

Offered(all) == IF set.by = "nothing" THEN all ELSE {what \in Again : what \in all}

Paste(id) ==
    /\ ms' = SetIDs(ms, id)
    /\ set' = [by |-> "paste", what |-> id, on |-> ms, rc |-> 0]
    /\ UNCHANGED ap

PasteXG(x) ==
    /\ ms' = SetXGID(ms, x).ms
    /\ set' = [by |-> "xg", what |-> x, on |-> ms, rc |-> SetXGID(ms, x).rc]
    /\ UNCHANGED ap

\* evaluateEdit of the Analyse screen.
Edit(e) ==
    /\ ms' = SetIDs(ms, ids_from_state(ms, e))
    /\ set' = [by |-> "edit", what |-> e, on |-> ms, rc |-> 0]
    /\ UNCHANGED ap

\* doSwap, CommandSwapPlayers: asked for when the verb before returned 2.
SwapPlayers ==
    /\ set.rc = 2
    /\ ms' = [ms EXCEPT !.anScore = [p \in 0..1 |-> @[1 - p]]]
    /\ ap' = [p \in 0..1 |-> ap[1 - p]]
    /\ set' = [by |-> "swap", what |-> None, on |-> ms, rc |-> 0]

Next ==
    \/ \E id \in Offered(Pastes) : Paste(id)
    \/ \E x \in Offered(XGs) : PasteXG(x)
    \/ \E e \in Offered(Edits) : Edit(e)
    \/ SwapPlayers

Spec == Init /\ [][Next]_vars

---------------------------------------------------------------------------
(* Properties.                                                             *)

\* The variables stay in their types; no half of the board holds too many chequers.
TypeOK ==
    /\ ms.anBoard \in Boards /\ CorrectNumberOfChequers(ms.anBoard)
    /\ ms.gs \in 0..7 /\ ms.fMove \in -1..1 /\ ms.fTurn \in -1..1
    /\ ms.fCubeOwner \in -1..1 /\ ms.nCube \in 1..MaxCube /\ ms.fDoubled = 0
    /\ Range(ap) = {Human, Gnu}

ScoreFits(e) == e.nMatchTo > 0 => \A p \in 0..1 : e.anScore[p] <= e.nMatchTo

\* A position edited on the Analyse screen comes back from gnubg as it was drawn,
\* through two encoders, two decoders and up to five records: board, player on
\* roll, dice, score and cube.  Crawford counts only one away, and then the cube
\* is at 1 (SetMatchID, SetCubeValue).  Not so one with more points than the match
\* has: the match ID that the encoder writes of it the decoder refuses.
EditedIsInstalled ==
    set.by = "edit" /\ CheckPosition(set.what.board) /\ ScoreFits(set.what) =>
        LET e == set.what
            craw == e.fCrawford = 1 /\ e.nMatchTo > 1
                       /\ \E p \in 0..1 : e.anScore[p] = e.nMatchTo - 1
        IN  /\ get_board_human(ms) = e.board /\ ms.fMove = e.fMove /\ ms.fTurn = e.fMove
            /\ ToSet(ms.anDice) = ToSet(e.anDice)
            /\ ms.nMatchTo = e.nMatchTo /\ ms.anScore = e.anScore
            /\ ms.fCrawford = 1 <=> craw
            /\ ms.fCubeOwner = e.fCubeOwner /\ ms.nCube = IF craw THEN 1 ELSE e.nCube

\* What the screen shows as the IDs of the position brings the same position back,
\* pasted over any other (gnubg_mobile_current_ids against SetGNUbgID), but for a
\* resignation on offer, which the record of the board clears, and dice pasted with the
\* smaller first, which are written the larger first.
IdsAreStable ==
    ms.gs = GAME_PLAYING /\ ms.fMove = ms.fTurn /\ ms.fResigned = 0 /\ ms.anDice[1] >= ms.anDice[2] =>
        \A other \in {Idle, Playing} : SetIDs(other, current_ids(ms)) = ms

\* gs is the test the Analyse screen puts to a pasted ID (AnalyseScreen.kt:214-223): with a
\* game on, the board is the one pasted, or the one there was when the ID has no position;
\* with none, or for a position with too many chequers, the one there was, or the one a
\* match begins with.
GameStateIsTheTest ==
    set.by = "paste" =>
        LET id     == set.what
            fresh  == id.match # None /\ MatchFromID(id.match).rc = 0
            before == IF fresh /\ ~(set.on.gs = GAME_PLAYING /\ ms.gs = GAME_PLAYING)
                      THEN InitialBoard ELSE set.on.anBoard
            taken  == /\ id.pos # None /\ ms.gs = GAME_PLAYING
                      /\ CorrectNumberOfChequers(PositionFromID(id.pos).board)
        IN  ms.anBoard = IF taken THEN PositionFromID(id.pos).board ELSE before

\* "0  IDs accepted; board and match context installed" (gnubg_mobile.c:1455), with a game
\* on, which the Analyse screen takes for the proof of it: what is then analysed is the
\* position of the length and score the editor shows.
ContextIsInstalled ==
    set.by = "edit" /\ set.rc = 0 /\ ms.gs = GAME_PLAYING =>
        ms.nMatchTo = set.what.nMatchTo /\ ms.anScore = set.what.anScore

\* "player 0 is the human" (gnubg_mobile.c:1407): the player Play takes for the
\* human is the one gnubg lets the human play.
HumanIsPlayerZero == ap[0] = Human
====
