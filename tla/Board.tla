---- MODULE Board ----
(***************************************************************************)
(* gnubg's board, the TanBoard of eval.h, and the functions on it that the *)
(* facade hands out: engine-core/eval.c and positionid.c.                  *)
(*                                                                         *)
(* anBoard[1] belongs to the player on roll, anBoard[0] to the opponent;   *)
(* each is indexed from its own ace point, 0, to its own bar, NPoints.  A  *)
(* point has index i for one player and NPoints - 1 - i for the other.     *)
(* The sizes of the real board, 24 points, 6 of them home, 15 chequers, are*)
(* constants, so that a board TLC can enumerate obeys the same code.       *)
(***************************************************************************)
EXTENDS Integers, FiniteSets, Functions

CONSTANTS
    NPoints,    \* 24
    NHome,      \* 6
    NChequers,  \* 15: anChequers[VARIATION_STANDARD]
    NFaces,     \* 6: the largest roll of a die
    CrashN,     \* 6: N of ClassifyPosition
    Databases   \* the bearoff databases, by class: [nPoints |-> , nChequers |-> ]

ASSUME BoardAssumption ==
    /\ NPoints \in Nat /\ NHome \in 1..NPoints
    /\ NChequers \in Nat \ {0} /\ NFaces \in Nat \ {0}
    /\ CrashN \in Nat

Bar    == NPoints
Slots  == 0..NPoints
Boards == [0..1 -> [Slots -> Nat]]

Mirror(i) == NPoints - 1 - i    \* 23 - i

Chequers(half) == SumFunction(half)

\* The highest point held by a half of the board, -1 if it holds none.
Back(half) ==
    IF \E i \in Slots : half[i] > 0
    THEN CHOOSE i \in Slots : half[i] > 0 /\ \A j \in Slots : j > i => half[j] = 0
    ELSE -1

SwapSides(b) == [s \in 0..1 |-> b[1 - s]]

---------------------------------------------------------------------------
(* Moving a chequer.                                                       *)

ApplySubMove_LostHitFault(b, iSrc, nRoll) ==
    LET iDest  == iSrc - nRoll
        lifted == [b EXCEPT ![1][iSrc] = @ - 1]
        hit    == [lifted EXCEPT ![1][iDest] = 1, ![0][Mirror(iDest)] = 0]
        put    == [lifted EXCEPT ![1][iDest] = @ + 1]
    IN  IF ~(iSrc \in Slots /\ iDest < iSrc /\ b[1][iSrc] >= 1) THEN [rc |-> -1, board |-> b]
        ELSE IF iDest < 0 THEN [rc |-> 0, board |-> lifted]
        ELSE CASE b[0][Mirror(iDest)] > 1 -> [rc |-> -1, board |-> lifted]
               [] b[0][Mirror(iDest)] = 1 -> [rc |-> 0, board |-> hit]
               [] OTHER                   -> [rc |-> 0, board |-> put]

\* The board may be half moved when the result is -1: the chequer is lifted
\* before its destination is looked at.
ApplySubMove(b, iSrc, nRoll) ==
    LET iDest  == iSrc - nRoll
        lifted == [b EXCEPT ![1][iSrc] = @ - 1]
        hit    == [lifted EXCEPT ![1][iDest] = 1, ![0][Mirror(iDest)] = 0, ![0][Bar] = @ + 1]
        put    == [lifted EXCEPT ![1][iDest] = @ + 1]
    IN  IF ~(iSrc \in Slots /\ iDest < iSrc /\ b[1][iSrc] >= 1) THEN [rc |-> -1, board |-> b]
        ELSE IF iDest < 0 THEN [rc |-> 0, board |-> lifted]
        ELSE CASE b[0][Mirror(iDest)] > 1 -> [rc |-> -1, board |-> lifted]
               [] b[0][Mirror(iDest)] = 1 -> [rc |-> 0, board |-> hit]
               [] OTHER                   -> [rc |-> 0, board |-> put]

LegalMove(b, iSrc, nPips) ==
    LET iDest == iSrc - nPips
        nBack == IF Back(b[1]) > 0 THEN Back(b[1]) ELSE 0
    IN  IF iDest >= 0 THEN b[0][Mirror(iDest)] < 2
        ELSE nBack < NHome /\ (iSrc = nBack \/ iDest = -1)

\* gnubg_mobile_apply_sub_move: what a tap on the board asks for; NoBoard is
\* the empty array.  The rule that the bar comes first is not looked at here.
NoBoard == <<>>

apply_sub_move(b, iSrc, nRoll) ==
    LET moved == ApplySubMove(b, iSrc, nRoll)
    IN  IF LegalMove(b, iSrc, nRoll) /\ nRoll \in 1..NFaces /\ moved.rc = 0
        THEN moved.board ELSE NoBoard

---------------------------------------------------------------------------
(* The class and the value of a position.                                  *)

isBearoff(db, b) ==
    /\ \A s \in 0..1 : Back(b[s]) >= 0
    /\ Back(b[0]) + Back(b[1]) <= NPoints - 2
    /\ \A s \in 0..1 : Chequers(b[s]) <= db.nChequers /\ Back(b[s]) < db.nPoints

Crashed(half) ==
    LET tot == Chequers(half) IN
    \/ tot <= CrashN
    \/ half[0] > 1 /\ tot <= CrashN + half[0]
    \/ half[0] > 1 /\ half[1] > 1 /\ 1 + tot - (half[0] + half[1]) <= CrashN
    \* unsigned arithmetic: with no chequer on the 2 point N - 1 is still positive
    \/ half[0] <= 1 /\ tot <= CrashN + half[1] - 1

ClassifyPosition(b) ==
    IF \E s \in 0..1 : Back(b[s]) < 0 THEN "over"
    ELSE IF Back(b[1]) + Back(b[0]) > NPoints - 2
    THEN IF \E s \in 0..1 : Crashed(b[s]) THEN "crashed" ELSE "contact"
    ELSE IF \E db \in Databases : isBearoff(db, b) THEN "bearoff" ELSE "race"

\* EvalOver and GameStatus: 0 while the game goes on, else what it is worth.
GameStatus(b) ==
    LET loser == IF Back(b[0]) < 0 THEN 1 ELSE 0 IN
    IF ClassifyPosition(b) # "over" THEN 0
    ELSE IF Chequers(b[loser]) # NChequers THEN 1
    ELSE IF \E i \in NPoints - NHome .. NPoints : b[loser][i] > 0 THEN 3 ELSE 2

---------------------------------------------------------------------------
(* Positions that come from outside.                                       *)

SharedPoint(b) == \E i \in 0 .. NPoints - 1 : b[0][i] > 0 /\ b[1][Mirror(i)] > 0
OpenBoard(b)   == \E i \in 0 .. NHome - 1 : b[0][i] < 2 \/ b[1][i] < 2

CorrectNumberOfChequers(b) == \A s \in 0..1 : Chequers(b[s]) <= NChequers

CheckPosition(b) ==
    /\ CorrectNumberOfChequers(b)
    /\ ~SharedPoint(b)
    /\ OpenBoard(b) \/ b[0][Bar] = 0 \/ b[1][Bar] = 0

---------------------------------------------------------------------------
(* Keys: four bits to a point.                                             *)

PositionKey(b) ==
    [own |-> [i \in 0 .. NPoints - 1 |-> b[1][i] % 16],
     opp |-> [i \in 0 .. NPoints - 1 |-> b[0][i] % 16],
     bar |-> (b[0][Bar] % 16) + 16 * (b[1][Bar] % 16)]

PositionFromKey(key) ==
    [s \in 0..1 |-> [i \in Slots |->
        IF i = Bar THEN IF s = 0 THEN key.bar % 16 ELSE key.bar \div 16
        ELSE IF s = 0 THEN key.opp[i] ELSE key.own[i]]]

====
