---- MODULE MoveEntryProofs ----
(***************************************************************************)
(* Proofs about Board, for a board of any size: what the functions of the  *)
(* position keep.  Then about MoveEntry, for any board, any generator of   *)
(* plays and any number of presses: Undo leads back to where the turn      *)
(* began, although two threads write the state shown and each may write an *)
(* old copy; the variables stay in their types, by which a chequer hit     *)
(* is not lost, for any gnubg that answers with boards and lists of plays; *)
(* and what the preview lights up can be dropped on, for any such gnubg    *)
(* whose plays keep to the dice and to open points.                        *)
(* Then about MoveList, for any legal board and any roll: what is searched *)
(* is a tree of plays, and what the rules allow are ways to play the dice  *)
(* in any order; hop by hop each play is a way, and each way that uses all *)
(* it can is met by a play of the same board (DoubleStep: two hops of a    *)
(* double may be exchanged; PairGoesOn: two dice are searched in both      *)
(* orders); SaveMoves keeps the best of what is met; so the generator lists*)
(* what the rules allow.  A listed play, applied hop by hop, leads to its  *)
(* board; so gnubg takes nothing but plays, and its own generator keeps to *)
(* what was assumed of it.                                                 *)
(* Last about the text of a play.  What hops do to a point is counted: the *)
(* net of those into it and those out of it (Net).  Sorting hops, joining  *)
(* those of one chequer, writing equal ones once with their number, and    *)
(* reading them, keep the net of each point and the blots hit (Amounts).   *)
(* Hops alike in both, made from the highest point down, can be made and   *)
(* lead to the same board (SameMade), so a text is taken for the play it   *)
(* was written of.                                                         *)
(* Sums and folds are recursive functions on the subsets of a finite set;  *)
(* what they are is proved by induction on the size of those.              *)
(***************************************************************************)
EXTENDS MovePlay, FiniteSetTheorems, SequenceTheorems, TLAPS

---------------------------------------------------------------------------
(* The board.                                                              *)

\* No point holds chequers of both sides.
Apart(b) == b \in Boards /\ ~SharedPoint(b)

\* A die moves a chequer to a point before it, or off.
LEMMA Destination ==
  ASSUME NEW iSrc \in Slots, NEW nRoll \in 1..NFaces
  PROVE  /\ iSrc - nRoll \in Int /\ iSrc - nRoll < NPoints
         /\ iSrc - nRoll >= 0 =>
              /\ iSrc - nRoll \in 0 .. NPoints - 1
              /\ Mirror(iSrc - nRoll) \in 0 .. NPoints - 1
              /\ Mirror(Mirror(iSrc - nRoll)) = iSrc - nRoll
<1>1. NPoints \in Nat /\ NFaces \in Nat
  BY BoardAssumption
<1> QED
  BY <1>1 DEF Slots, Mirror

Played(b, i, d) == ApplySubMove(b, i, d).board

\* A chequer that is there, and a hop of any length (that of a die, or several made as one) by
\* which it gets off or to a point not made.
CanHop(b, i, d) ==
    /\ i \in Slots /\ d \in Nat \ {0} /\ b[1][i] > 0
    /\ i - d >= 0 => b[0][Mirror(i - d)] < 2

One(c) == IF c THEN 1 ELSE 0

\* What a hop makes of every point of a board on which no point holds both colours.
HopMakes(b, i, d, n) ==
    /\ \A x \in Slots : n[1][x] = (b[1][x] - One(x = i)) + One(x = i - d)
    /\ \A x \in 0 .. NPoints - 1 :
          n[0][x] = IF i - d >= 0 /\ x = Mirror(i - d) THEN 0 ELSE b[0][x]
    /\ n[0][Bar] = b[0][Bar] + One(i - d >= 0 /\ b[0][Mirror(i - d)] = 1)

\* A chequer that can be moved is, and the points stay apart.
LEMMA HopGoes ==
  ASSUME NEW b, Apart(b), NEW i, NEW d, CanHop(b, i, d)
  PROVE  /\ ApplySubMove(b, i, d).rc = 0
         /\ Apart(Played(b, i, d)) /\ HopMakes(b, i, d, Played(b, i, d))
<1> DEFINE dest == i - d
           m == Mirror(dest)
           n == Played(b, i, d)
           lifted == [b EXCEPT ![1][i] = @ - 1]
           hit == [lifted EXCEPT ![1][dest] = 1, ![0][m] = 0, ![0][Bar] = @ + 1]
           put == [lifted EXCEPT ![1][dest] = @ + 1]
<1>1. /\ i \in Slots /\ d \in Nat \ {0} /\ NPoints \in Nat /\ Bar \in Slots /\ b[1][i] > 0
      /\ \A x \in 0 .. NPoints - 1 : x \in Slots /\ x # Bar
      /\ \A x \in Slots : x # Bar => x \in 0 .. NPoints - 1
  BY BoardAssumption DEF Slots, Bar, CanHop
<1>2. /\ dest \in Int /\ dest < i /\ dest < NPoints
      /\ dest >= 0 => dest \in 0 .. NPoints - 1 /\ m \in 0 .. NPoints - 1 /\ Mirror(m) = dest
  BY <1>1 DEF Mirror, Slots, Bar
<1>3. /\ b = [s \in 0..1 |-> b[s]] /\ b[0] \in [Slots -> Nat] /\ b[1] \in [Slots -> Nat]
      /\ b \in [0..1 -> [Slots -> Nat]]
  BY DEF Apart, Boards
<1>4. dest >= 0 => b[0][m] \in {0, 1}
  <2>1. dest >= 0 => b[0][m] < 2
    BY DEF CanHop
  <2>2. dest >= 0 => b[0][m] \in Nat
    BY <1>1, <1>2, <1>3
  <2> QED BY <2>1, <2>2
<1>5. dest >= 0 /\ b[0][m] = 1 => b[1][dest] = 0
  <2> SUFFICES ASSUME dest >= 0, b[0][m] = 1, b[1][dest] # 0 PROVE FALSE
    OBVIOUS
  <2>1. m \in 0 .. NPoints - 1 /\ Mirror(m) = dest /\ dest \in Slots
    BY <1>1, <1>2
  <2>2. b[1][dest] > 0 /\ b[0][m] > 0
    BY <1>3, <2>1
  <2> HIDE DEF dest, m
  <2>3. SharedPoint(b)
    BY <2>1, <2>2 DEF SharedPoint
  <2> QED BY <2>3 DEF Apart
<1>6. /\ lifted[0] = b[0] /\ lifted[1] = [b[1] EXCEPT ![i] = b[1][i] - 1] /\ DOMAIN lifted = 0..1
      /\ lifted[1] \in [Slots -> Nat] /\ lifted \in [0..1 -> [Slots -> Nat]]
  BY <1>1, <1>3
<1>7. ApplySubMove(b, i, d) =
        [rc |-> 0, board |-> IF dest < 0 THEN lifted ELSE IF b[0][m] = 1 THEN hit ELSE put]
  <2> HIDE DEF hit, put, lifted
  <2>1. dest >= 0 => ~(b[0][m] > 1)
    BY <1>4
  <2>2. i \in Slots /\ dest < i /\ b[1][i] >= 1
    BY <1>1, <1>2, <1>3
  <2>0. dest < 0 \/ (dest >= 0 /\ ~(dest < 0))
    BY <1>2
  <2> HIDE DEF dest, m
  <2>3. CASE dest < 0
    BY <2>2, <2>3 DEF ApplySubMove, dest, m, lifted, hit, put
  <2>4. CASE dest >= 0 /\ ~(dest < 0) /\ b[0][m] = 1
    BY <2>1, <2>2, <2>4 DEF ApplySubMove, dest, m, lifted, hit, put
  <2>5. CASE dest >= 0 /\ ~(dest < 0) /\ b[0][m] # 1
    BY <2>1, <2>2, <2>5 DEF ApplySubMove, dest, m, lifted, hit, put
  <2> QED BY <2>0, <2>3, <2>4, <2>5
<1>8. n = IF dest < 0 THEN lifted ELSE IF b[0][m] = 1 THEN hit ELSE put
  BY <1>7 DEF Played
<1> HIDE DEF lifted, n
<1>9. dest >= 0 => /\ hit = [s \in 0..1 |-> IF s = 1 THEN [lifted[1] EXCEPT ![dest] = 1]
                                            ELSE [b[0] EXCEPT ![m] = 0, ![Bar] = b[0][Bar] + 1]]
                   /\ put = [s \in 0..1 |-> IF s = 1 THEN [lifted[1] EXCEPT ![dest] = lifted[1][dest] + 1] ELSE b[0]]
  <2> SUFFICES ASSUME dest >= 0
               PROVE  /\ hit = [s \in 0..1 |-> IF s = 1 THEN [lifted[1] EXCEPT ![dest] = 1]
                                            ELSE [b[0] EXCEPT ![m] = 0, ![Bar] = b[0][Bar] + 1]]
                      /\ put = [s \in 0..1 |-> IF s = 1 THEN [lifted[1] EXCEPT ![dest] = lifted[1][dest] + 1] ELSE b[0]]
    OBVIOUS
  <2>1. m # Bar /\ m \in Slots /\ dest \in Slots
    BY <1>1, <1>2
  <2> HIDE DEF dest, m
  <2> QED BY <1>1, <1>3, <1>6, <2>1
<1> HIDE DEF hit, put
<1>10. \A x \in Slots : lifted[1][x] = b[1][x] - One(x = i)
  BY <1>1, <1>3, <1>6 DEF One
<1>11. HopMakes(b, i, d, n) /\ n \in Boards
  <2>1. CASE dest < 0
    <3>1. n[1] = lifted[1] /\ n[0] = b[0] /\ n = lifted
      BY <1>6, <1>8, <2>1
    <3>2. ASSUME NEW x \in Slots
          PROVE  One(x = dest) = 0 /\ x \in Int /\ b[1][x] \in Nat /\ One(x = i) \in Nat
      <4>1. x \in Nat /\ b[1][x] \in Nat
        BY <1>1, <1>3 DEF Slots
      <4>2. x # dest
        BY <1>2, <2>1, <4>1
      <4> QED BY <4>1, <4>2 DEF One
    <3>3. One(dest >= 0 /\ b[0][m] = 1) = 0 /\ b[0][Bar] \in Nat
      BY <1>1, <1>2, <1>3, <2>1 DEF One
    <3>4. n \in Boards
      BY <1>3, <1>6, <3>1 DEF Boards
    <3>5. HopMakes(b, i, d, n)
      <4>1. \A x \in Slots : n[1][x] = (b[1][x] - One(x = i)) + One(x = dest)
        BY <1>10, <3>1, <3>2
      <4>2. ~(dest >= 0)
        BY <1>2, <2>1
      <4> QED BY <3>1, <3>3, <4>1, <4>2 DEF HopMakes
    <3> QED BY <3>4, <3>5
  <2>2. CASE dest >= 0
    <3>0. dest \in Slots /\ m \in Slots /\ m # Bar /\ dest # i /\ ~(dest < 0)
      BY <1>1, <1>2, <2>2
    <3>1. ASSUME NEW x \in Slots PROVE n[1][x] = (b[1][x] - One(x = i)) + One(x = dest)
      <4>1. b[1][x] \in Nat /\ b[1][dest] \in Nat
        BY <1>3, <3>0
      <4> HIDE DEF dest, m
      <4>2. n[1][x] = IF x = dest THEN IF b[0][m] = 1 THEN 1 ELSE lifted[1][dest] + 1 ELSE lifted[1][x]
        BY <1>6, <1>8, <1>9, <2>2, <3>0
      <4>3. lifted[1][dest] = b[1][dest]
        BY <1>10, <3>0, <4>1 DEF One
      <4>4. CASE x = dest
        BY <1>5, <2>2, <3>0, <4>1, <4>2, <4>3, <4>4 DEF One
      <4>5. CASE x # dest
        BY <1>10, <4>1, <4>2, <4>5 DEF One
      <4> QED BY <4>4, <4>5
    <3>2. /\ \A x \in 0 .. NPoints - 1 : n[0][x] = IF x = m THEN 0 ELSE b[0][x]
          /\ n[0][Bar] = b[0][Bar] + One(b[0][m] = 1)
      <4> HIDE DEF dest, m
      <4>1. CASE b[0][m] = 1
        BY <1>1, <1>3, <1>8, <1>9, <2>2, <3>0, <4>1 DEF One
      <4>2. CASE b[0][m] # 1
        BY <1>1, <1>3, <1>4, <1>8, <1>9, <2>2, <3>0, <4>2 DEF One
      <4> QED BY <4>1, <4>2
    <3>3. n \in Boards
      <4>1. n = [s \in 0..1 |-> IF s = 1 THEN n[1] ELSE n[0]] /\ DOMAIN n[1] = Slots /\ DOMAIN n[0] = Slots
        BY <1>3, <1>6, <1>8, <1>9, <2>2, <3>0
      <4>2. ASSUME NEW x \in Slots PROVE n[1][x] \in Nat
        BY <1>1, <1>3, <3>1 DEF One
      <4>3. \A x \in Slots : n[0][x] \in Nat
        BY <1>1, <1>3, <3>2 DEF One
      <4>4. n[1] = [x \in Slots |-> n[1][x]] /\ n[0] = [x \in Slots |-> n[0][x]]
        BY <1>3, <1>6, <1>8, <1>9, <2>2, <3>0
      <4>5. n[1] \in [Slots -> Nat] /\ n[0] \in [Slots -> Nat]
        BY <4>2, <4>3, <4>4
      <4> QED BY <4>1, <4>5 DEF Boards
    <3>4. HopMakes(b, i, d, n)
      <4>1. \A x \in 0 .. NPoints - 1 : n[0][x] = IF dest >= 0 /\ x = m THEN 0 ELSE b[0][x]
        BY <2>2, <3>2
      <4>2. n[0][Bar] = b[0][Bar] + One(dest >= 0 /\ b[0][m] = 1)
        BY <2>2, <3>2 DEF One
      <4> QED BY <3>1, <4>1, <4>2 DEF HopMakes
    <3> QED BY <3>3, <3>4
  <2> QED BY <1>2, <2>1, <2>2
<1>12. ~SharedPoint(n)
  <2> SUFFICES ASSUME NEW x \in 0 .. NPoints - 1, n[0][x] > 0, n[1][Mirror(x)] > 0 PROVE FALSE
    BY DEF SharedPoint
  <2>1. Mirror(x) \in Slots /\ x \in Slots /\ Mirror(Mirror(x)) = x
    BY <1>1 DEF Mirror, Slots
  <2>2. ~(dest >= 0 /\ x = m) /\ n[0][x] = b[0][x]
    BY <1>11 DEF HopMakes
  <2>3. Mirror(x) # dest
    <3>1. ASSUME Mirror(x) = dest PROVE dest >= 0 /\ x = Mirror(dest)
      BY <1>1, <2>1, <3>1 DEF Slots
    <3> QED BY <2>2, <3>1
  <2>4. n[1][Mirror(x)] = b[1][Mirror(x)] - One(Mirror(x) = i)
    <3>1. n[1][Mirror(x)] = (b[1][Mirror(x)] - One(Mirror(x) = i)) + One(Mirror(x) = dest)
      BY <1>11, <2>1 DEF HopMakes
    <3>2. b[1][Mirror(x)] \in Nat
      BY <1>3, <2>1
    <3> QED BY <2>3, <3>1, <3>2 DEF One
  <2>5. b[1][Mirror(x)] > 0
    BY <1>3, <2>1, <2>4 DEF One
  <2> QED BY <2>2, <2>5 DEF Apart, SharedPoint
<1>13. ApplySubMove(b, i, d).rc = 0
  BY <1>7
<1> QED BY <1>11, <1>12, <1>13 DEF Apart, n

\* A hop that the facade allows leads from a board on which no point holds both colours
\* to another one, and takes nothing from the opponent but a blot, which goes to the bar
\* (gnubg_mobile_apply_sub_move, ApplySubMove).
THEOREM HopKeepsPointsApart ==
  ASSUME NEW b, Apart(b), NEW iSrc, NEW nRoll,
         apply_sub_move(b, iSrc, nRoll) # NoBoard
  PROVE  LET n == apply_sub_move(b, iSrc, nRoll) IN
         /\ Apart(n)
         /\ \/ n[0] = b[0]
            \/ \E i \in 0 .. NPoints - 1 :
                 b[0][i] = 1 /\ n[0] = [b[0] EXCEPT ![i] = 0, ![Bar] = b[0][Bar] + 1]
<1> DEFINE n == apply_sub_move(b, iSrc, nRoll)
           m == Mirror(iSrc - nRoll)
<1>1. /\ NPoints \in Nat /\ NFaces \in Nat /\ n = Played(b, iSrc, nRoll) /\ nRoll \in 1..NFaces
      /\ iSrc \in Slots /\ b[1][iSrc] >= 1 /\ LegalMove(b, iSrc, nRoll)
  BY BoardAssumption DEF apply_sub_move, ApplySubMove, Played
<1>2. /\ iSrc - nRoll \in Int
      /\ iSrc - nRoll >= 0 => iSrc - nRoll \in 0 .. NPoints - 1 /\ m \in 0 .. NPoints - 1
  BY <1>1, Destination
<1>3. b \in [0..1 -> [Slots -> Nat]] /\ \A x \in 0 .. NPoints - 1 : x \in Slots /\ x # Bar
  BY <1>1 DEF Apart, Boards, Slots, Bar
<1>4. CanHop(b, iSrc, nRoll)
  <2>1. iSrc - nRoll >= 0 => b[0][m] < 2
    BY <1>1 DEF LegalMove
  <2>2. nRoll \in Nat \ {0} /\ b[1][iSrc] > 0
    BY <1>1, <1>3
  <2> QED BY <1>1, <2>1, <2>2 DEF CanHop
<1>5. Apart(n) /\ HopMakes(b, iSrc, nRoll, n)
  BY <1>1, <1>4, HopGoes
<1> HIDE DEF n
<1>6. n[0] \in [Slots -> Nat] /\ b[0] \in [Slots -> Nat] /\ Bar \in Slots
      /\ \A x \in Slots : x = Bar \/ x \in 0 .. NPoints - 1
  <2>1. n[0] \in [Slots -> Nat] /\ b[0] \in [Slots -> Nat]
    BY <1>5 DEF Apart, Boards
  <2> QED BY <1>1, <2>1 DEF Slots, Bar
<1>7. CASE iSrc - nRoll >= 0 /\ b[0][m] = 1
  <2>1. n[0] = [b[0] EXCEPT ![m] = 0, ![Bar] = b[0][Bar] + 1]
    BY <1>2, <1>3, <1>5, <1>6, <1>7 DEF HopMakes, One
  <2> QED BY <1>2, <1>5, <1>7, <2>1 DEF n
<1>8. CASE ~(iSrc - nRoll >= 0 /\ b[0][m] = 1)
  <2>1. iSrc - nRoll >= 0 => b[0][m] = 0
    BY <1>2, <1>3, <1>4, <1>8 DEF CanHop
  <2>2. n[0] = b[0]
    BY <1>3, <1>5, <1>6, <1>8, <2>1 DEF HopMakes, One
  <2> QED BY <1>5, <2>2 DEF n
<1> QED BY <1>7, <1>8

\* A position is as legal for one player as for the other, whoever's way it is turned,
\* and turned twice it is itself (SwapSides, CheckPosition; the frames of the facade).
THEOREM SwapSidesKeepsLegality ==
  ASSUME NEW b \in Boards
  PROVE  /\ SwapSides(SwapSides(b)) = b
         /\ SharedPoint(SwapSides(b)) <=> SharedPoint(b)
         /\ CheckPosition(SwapSides(b)) <=> CheckPosition(b)
<1>0. NPoints \in Nat /\ b \in [0..1 -> [Slots -> Nat]]
  BY BoardAssumption DEF Boards
<1> DEFINE w == SwapSides(b)
<1>1. w[0] = b[1] /\ w[1] = b[0] /\ SwapSides(w) = b
  BY <1>0 DEF SwapSides
<1> HIDE DEF w
<1>2. \A i \in 0 .. NPoints - 1 : Mirror(i) \in 0 .. NPoints - 1 /\ Mirror(Mirror(i)) = i
  BY <1>0 DEF Mirror
<1>3. SharedPoint(w) <=> SharedPoint(b)
  BY <1>1, <1>2 DEF SharedPoint
<1>4. CorrectNumberOfChequers(w) <=> CorrectNumberOfChequers(b)
  BY <1>1 DEF CorrectNumberOfChequers
<1>5. OpenBoard(w) <=> OpenBoard(b)
  BY <1>1 DEF OpenBoard
<1> QED
  BY <1>1, <1>3, <1>4, <1>5 DEF CheckPosition, w

\* The key tells boards apart, as SaveMoves takes for granted when it drops a play whose
\* key it has: with at most fifteen chequers to a side nothing overflows its four bits.
THEOREM KeyIsFaithful ==
  ASSUME NEW b \in Boards, \A s \in 0..1, i \in Slots : b[s][i] < 16
  PROVE  PositionFromKey(PositionKey(b)) = b
<1>0. NPoints \in Nat /\ b \in [0..1 -> [Slots -> Nat]] /\ Bar \in Slots
      /\ \A i \in Slots \ {Bar} : i \in 0 .. NPoints - 1
  BY BoardAssumption DEF Boards, Bar, Slots
<1>1. \A x \in Nat : x < 16 => x % 16 = x
  OBVIOUS
<1>2. \A x, y \in Nat : x < 16 /\ y < 16 => (x + 16 * y) % 16 = x /\ (x + 16 * y) \div 16 = y
  OBVIOUS
<1> DEFINE key == PositionKey(b)
<1>3. /\ key.bar = b[0][Bar] + 16 * b[1][Bar]
      /\ \A i \in 0 .. NPoints - 1 : key.own[i] = b[1][i] /\ key.opp[i] = b[0][i]
  <2>1. \A i \in 0 .. NPoints - 1 : i \in Slots
    BY <1>0 DEF Slots
  <2> QED BY <1>0, <1>1, <2>1 DEF PositionKey
<1>4. key.bar % 16 = b[0][Bar] /\ key.bar \div 16 = b[1][Bar]
  BY <1>0, <1>2, <1>3
<1> HIDE DEF key
<1> DEFINE r == PositionFromKey(key)
<1>5. \A s \in 0..1, i \in Slots : r[s][i] = b[s][i]
  BY <1>0, <1>3, <1>4 DEF PositionFromKey
<1>6. r = [s \in 0..1 |-> [i \in Slots |-> r[s][i]]]
  BY DEF PositionFromKey
<1> HIDE DEF r
<1>7. r = b
  BY <1>0, <1>5, <1>6
<1> QED
  BY <1>7 DEF r, key

---------------------------------------------------------------------------
(* The entry of a turn.                                                    *)

\* A sequence, of whatever.
IsList(q) == q \in Seq(Range(q))

Fields == {"phase", "board", "oldBoard", "originalDice", "remainingDice",
           "legalMoves", "moveHistory"}

\* A state of the entry, from which Undo leads home.
Homing(s) == DOMAIN s = Fields /\ IsList(s.moveHistory) /\ LeadsHome(s)

\* Every copy of the state, on whichever thread, is homing.
IInv ==
    /\ Homing(shown)
    /\ IsList(main) /\ Len(main) <= 1 /\ \A k \in DOMAIN main : Homing(main[k])
    /\ IsList(queue) /\ \A k \in DOMAIN queue : Homing(queue[k].state)

---------------------------------------------------------------------------
(* Sequences of unknown elements.                                          *)

\* A list appended to is a list, with the same elements before the new one.
LEMMA AppendToList ==
  ASSUME NEW q, IsList(q), NEW e
  PROVE  /\ IsList(Append(q, e))
         /\ Len(q) \in Nat /\ DOMAIN q = 1..Len(q)
         /\ DOMAIN Append(q, e) = 1..(Len(q) + 1)
         /\ \A k \in 1..Len(q) : Append(q, e)[k] = q[k]
         /\ Append(q, e)[Len(q) + 1] = e
<1> DEFINE S == Range(q) \cup {e}
<1>1. q \in Seq(S)
  BY SeqMonotonic DEF IsList
<1>2. e \in S
  OBVIOUS
<1> HIDE DEF S
<1>3. Append(q, e) \in Seq(S)
  BY <1>1, <1>2, AppendProperties
<1>4. IsList(Append(q, e))
  BY <1>3, SeqOfRange DEF IsList
<1> QED
  BY <1>1, <1>2, <1>3, <1>4, AppendProperties, LenProperties

\* The rest of a list, and all of it but the last element, are lists.
LEMMA PartsOfList ==
  ASSUME NEW q, IsList(q), q # <<>>
  PROVE  /\ Len(q) \in Nat \ {0} /\ DOMAIN q = 1..Len(q)
         /\ IsList(Tail(q)) /\ DOMAIN Tail(q) = 1..(Len(q) - 1)
         /\ \A k \in 1..(Len(q) - 1) : Tail(q)[k] = q[k + 1]
         /\ IsList(Front(q)) /\ DOMAIN Front(q) = 1..(Len(q) - 1)
         /\ \A k \in 1..(Len(q) - 1) : Front(q)[k] = q[k]
<1> DEFINE S == Range(q)
<1>1. q \in Seq(S)
  BY DEF IsList
<1> HIDE DEF S
<1>2. Len(q) \in Nat \ {0} /\ DOMAIN q = 1..Len(q)
  BY <1>1, LenProperties, EmptySeq
<1>3. Tail(q) \in Seq(S) /\ Len(Tail(q)) = Len(q) - 1
      /\ \A k \in 1..Len(Tail(q)) : Tail(q)[k] = q[k + 1]
  BY <1>1, HeadTailProperties
<1>4. \A i \in 1..(Len(q) - 1) : q[i] \in S
  BY <1>1, <1>2, ElementOfSeq
<1>5. Front(q) \in Seq(S) /\ Len(Front(q)) = Len(q) - 1
      /\ \A k \in 1..(Len(q) - 1) : Front(q)[k] = q[k]
  <2>1. Len(q) - 1 \in Int /\ 1 \in Int
    BY <1>2
  <2> QED
    BY <1>2, <1>4, <2>1, SubSeqProperties DEF Front
<1>6. IsList(Tail(q)) /\ IsList(Front(q))
  BY <1>3, <1>5, SeqOfRange DEF IsList
<1> QED
  BY <1>2, <1>3, <1>5, <1>6, LenProperties

LEMMA EmptyList == IsList(<<>>) /\ Len(<<>>) = 0 /\ DOMAIN <<>> = {}
  BY EmptySeq, LenProperties DEF IsList

LEMMA SingletonList ==
  ASSUME NEW e
  PROVE  IsList(<<e>>) /\ Len(<<e>>) = 1 /\ DOMAIN <<e>> = {1} /\ <<e>>[1] = e
<1>1. <<e>> \in Seq({e})
  OBVIOUS
<1>2. IsList(<<e>>)
  BY <1>1, SeqOfRange DEF IsList
<1> QED
  BY <1>2

---------------------------------------------------------------------------
(* What the handlers make of a homing state.                               *)

\* A hop keeps the way home: the board before the first hop is the first snapshot.
LEMMA HopLeadsHome ==
  ASSUME NEW s, Homing(s), NEW b, NEW left
  PROVE  Homing(Hopped(s, b, left))
<1> DEFINE snapshot == [board |-> s.board, remainingDice |-> s.remainingDice,
                        legalMoves |-> s.legalMoves]
           t == Hopped(s, b, left)
<1>1. /\ DOMAIN t = Fields /\ t.phase = s.phase /\ t.oldBoard = s.oldBoard
      /\ t.moveHistory = Append(s.moveHistory, snapshot)
  BY DEF Homing, Hopped, Fields
<1>2. snapshot.board = s.board
  OBVIOUS
<1> HIDE DEF snapshot, t
<1>3. IsList(s.moveHistory)
  BY DEF Homing
<1>4. IsList(t.moveHistory) /\ t.moveHistory # <<>>
  BY <1>1, <1>3, EmptyList, AppendToList
<1>5. HomeOf(t) = HomeOf(s)
  <2>1. CASE s.moveHistory = <<>>
    BY <1>1, <1>2, <1>3, <1>4, <2>1, AppendToList, EmptyList DEF HomeOf
  <2>2. CASE s.moveHistory # <<>>
    <3>1. 1 \in 1..Len(s.moveHistory)
      BY <1>3, <2>2, PartsOfList
    <3>2. t.moveHistory[1] = s.moveHistory[1]
      BY <1>1, <1>3, <3>1, AppendToList
    <3> QED BY <1>4, <2>2, <3>2 DEF HomeOf
  <2> QED BY <2>1, <2>2
<1> QED
  BY <1>1, <1>4, <1>5 DEF Homing, LeadsHome, t

\* What a tap or a drag leaves is a hop of the state it found.
LEMMA TapIsHop ==
  ASSUME NEW s, NEW point, NEW t \in Tapped(s, point)
  PROVE  \E b, left : t = Hopped(s, b, left)
  BY DEF Tapped

LEMMA DragIsHop ==
  ASSUME NEW s, NEW from, NEW to, NEW t \in Dragged(s, from, to)
  PROVE  \E b, left : t = Hopped(s, b, left)
  BY DEF Dragged

\* What is projected from gnubg is at home.
LEMMA SettledHoming == ASSUME NEW g PROVE Homing(Settled(g))
<1> DEFINE f == FreshEntry(g.board, g.start.dice)
           t == Settled(g)
<1>1. DOMAIN f = Fields /\ f.moveHistory = <<>> /\ f.board = f.oldBoard
  BY DEF FreshEntry, Fields
<1>2. /\ DOMAIN t = Fields /\ t.moveHistory = <<>>
      /\ g.waiting => t.board = t.oldBoard
      /\ ~g.waiting => t.phase # "HUMAN_MOVING"
  BY <1>1, Zenon DEF Settled, FreshEntry, Fields
<1> QED
  BY <1>2, EmptyList DEF Homing, LeadsHome, HomeOf

---------------------------------------------------------------------------
(* The invariant.                                                          *)

LEMMA InitIInv == Init => IInv
<1> SUFFICES ASSUME Init PROVE IInv
  OBVIOUS
<1>1. Homing(shown)
  BY SettledHoming DEF Init
<1> QED
  BY <1>1, EmptyList DEF Init, IInv

LEMMA PressKeeps == ASSUME IInv, NEW press, Press(press) PROVE IInv'
<1> DEFINE body == [press |-> press, state |-> shown]
<1>1. queue' = Append(queue, body) /\ body.state = shown /\ UNCHANGED <<shown, main>>
  BY DEF Press
<1> HIDE DEF body
<1>2. /\ IsList(queue') /\ DOMAIN queue' = 1..(Len(queue) + 1)
      /\ DOMAIN queue = 1..Len(queue) /\ Len(queue) \in Nat
      /\ \A k \in 1..Len(queue) : queue'[k] = queue[k]
      /\ queue'[Len(queue) + 1] = body
  BY <1>1, AppendToList DEF IInv
<1>3. ASSUME NEW k \in DOMAIN queue' PROVE Homing(queue'[k].state)
  <2>1. CASE k = Len(queue) + 1
    BY <1>1, <1>2, <2>1 DEF IInv
  <2>2. CASE k \in 1..Len(queue)
    BY <1>2, <2>2 DEF IInv
  <2> QED BY <1>2, <2>1, <2>2
<1> QED
  BY <1>1, <1>2, <1>3 DEF IInv

LEMMA UndoKeeps == ASSUME IInv, Undo PROVE IInv'
<1> DEFINE h == shown.moveHistory
           t == main'[1]
<1>1. /\ main = <<>> /\ h # <<>> /\ UNCHANGED <<shown, queue>>
      /\ main' = <<[shown EXCEPT !.board = Last(h).board,
                                 !.remainingDice = Last(h).remainingDice,
                                 !.legalMoves = Last(h).legalMoves,
                                 !.moveHistory = Front(@)]>>
  BY DEF Undo
<1>2. /\ DOMAIN t = Fields /\ t.board = Last(h).board /\ t.moveHistory = Front(h)
      /\ t.phase = shown.phase /\ t.oldBoard = shown.oldBoard
  BY <1>1 DEF IInv, Homing, Fields
<1> HIDE DEF t
<1>3. /\ Len(h) \in Nat \ {0} /\ IsList(Front(h)) /\ DOMAIN Front(h) = 1..(Len(h) - 1)
      /\ \A k \in 1..(Len(h) - 1) : Front(h)[k] = h[k]
  BY <1>1, PartsOfList DEF IInv, Homing
<1>4. HomeOf(t) = HomeOf(shown)
  <2>1. CASE Len(h) = 1
    <3>1. Front(h) = <<>>
      BY <2>1, SubSeqEmpty DEF Front
    <3>2. Last(h) = h[1]
      BY <2>1 DEF Last
    <3> QED BY <1>1, <1>2, <3>1, <3>2 DEF HomeOf
  <2>2. CASE Len(h) > 1
    <3>1. 1 \in DOMAIN Front(h) /\ Front(h)[1] = h[1]
      BY <1>3, <2>2
    <3>2. Front(h) # <<>>
      BY <3>1, EmptyList
    <3> QED BY <1>1, <1>2, <3>1, <3>2 DEF HomeOf
  <2>3. ASSUME NEW n \in Nat \ {0} PROVE n = 1 \/ n > 1
    OBVIOUS
  <2>4. Len(h) = 1 \/ Len(h) > 1
    BY <1>3, <2>3
  <2> QED BY <2>1, <2>2, <2>4
<1>5. Homing(t)
  BY <1>2, <1>3, <1>4 DEF IInv, Homing, LeadsHome
<1>6. IsList(main') /\ Len(main') = 1 /\ DOMAIN main' = {1}
  BY <1>1, SingletonList
<1> QED
  BY <1>1, <1>5, <1>6 DEF IInv, t

LEMMA SwapDiceKeeps == ASSUME IInv, SwapDice PROVE IInv'
<1> DEFINE t == main'[1]
<1>1. /\ main' = <<[shown EXCEPT !.remainingDice = Reverse(@)]>>
      /\ UNCHANGED <<shown, queue>>
  BY DEF SwapDice
<1>2. /\ DOMAIN t = Fields /\ t.board = shown.board /\ t.moveHistory = shown.moveHistory
      /\ t.phase = shown.phase /\ t.oldBoard = shown.oldBoard
  BY <1>1 DEF IInv, Homing, Fields
<1> HIDE DEF t
<1>3. Homing(t)
  BY <1>2 DEF IInv, Homing, LeadsHome, HomeOf
<1>4. IsList(main') /\ Len(main') = 1 /\ DOMAIN main' = {1}
  BY <1>1, SingletonList
<1> QED
  BY <1>1, <1>3, <1>4 DEF IInv, t

LEMMA MainWritesKeeps == ASSUME IInv, MainWrites PROVE IInv'
<1>1. main # <<>> /\ shown' = main[1] /\ main' = <<>> /\ UNCHANGED queue
  BY DEF MainWrites
<1>2. 1 \in DOMAIN main
  BY <1>1, PartsOfList DEF IInv
<1> QED
  BY <1>1, <1>2, EmptyList DEF IInv

\* The bodies behind the one at work stay as they were captured.
LEMMA TailKeeps ==
  ASSUME IInv, queue # <<>>, queue' = Tail(queue)
  PROVE  IsList(queue') /\ \A k \in DOMAIN queue' : Homing(queue'[k].state)
<1>1. /\ Len(queue) \in Nat \ {0} /\ DOMAIN queue = 1..Len(queue) /\ IsList(queue')
      /\ DOMAIN queue' = 1..(Len(queue) - 1)
      /\ \A k \in 1..(Len(queue) - 1) : queue'[k] = queue[k + 1]
  BY PartsOfList DEF IInv
<1>2. ASSUME NEW k \in DOMAIN queue' PROVE Homing(queue'[k].state)
  BY <1>1 DEF IInv
<1> QED
  BY <1>1, <1>2

LEMMA HeadIsHoming == ASSUME IInv, queue # <<>> PROVE Homing(Head(queue).state)
<1>1. 1 \in DOMAIN queue /\ Head(queue) = queue[1]
  BY PartsOfList DEF IInv
<1> QED
  BY <1>1 DEF IInv

LEMMA HopBodyKeeps == ASSUME IInv, HopBody PROVE IInv'
<1> DEFINE s == Head(queue).state
           p == Head(queue).press
<1>1. queue # <<>> /\ queue' = Tail(queue) /\ UNCHANGED main
  BY DEF HopBody
<1>2. Homing(s)
  BY <1>1, HeadIsHoming
<1>3. shown' = shown \/ shown' \in Tapped(s, p.point) \/ shown' \in Dragged(s, p.from, p.to)
  BY DEF HopBody
<1> HIDE DEF s, p
<1>4. Homing(shown')
  <2>1. CASE shown' = shown
    BY <2>1 DEF IInv
  <2>2. CASE shown' \in Tapped(s, p.point)
    BY <1>2, <2>2, TapIsHop, HopLeadsHome
  <2>3. CASE shown' \in Dragged(s, p.from, p.to)
    BY <1>2, <2>3, DragIsHop, HopLeadsHome
  <2> QED BY <1>3, <2>1, <2>2, <2>3
<1> QED
  BY <1>1, <1>4, TailKeeps DEF IInv

LEMMA GiveBodyKeeps == ASSUME IInv, GiveBody PROVE IInv'
<1>1. /\ queue # <<>> /\ queue' = Tail(queue) /\ UNCHANGED main
      /\ shown' = shown \/ shown' = [shown EXCEPT !.phase = "ENGINE_THINKING"]
  BY DEF GiveBody
<1>2. Homing(shown')
  <2>1. CASE shown' = shown
    BY <2>1 DEF IInv
  <2>2. CASE shown' = [shown EXCEPT !.phase = "ENGINE_THINKING"]
    BY <2>2 DEF IInv, Homing, LeadsHome, Fields
  <2> QED BY <1>1, <2>1, <2>2
<1> QED
  BY <1>1, <1>2, TailKeeps DEF IInv

LEMMA StepKeepsIInv == IInv /\ [Next]_vars => IInv'
<1> SUFFICES ASSUME IInv, [Next]_vars PROVE IInv'
  OBVIOUS
<1>1. ASSUME NEW press \in Presses, Press(press) PROVE IInv'
  BY <1>1, PressKeeps
<1>2. CASE Undo
  BY <1>2, UndoKeeps
<1>3. CASE SwapDice
  BY <1>3, SwapDiceKeeps
<1>4. CASE MainWrites
  BY <1>4, MainWritesKeeps
<1>5. CASE HopBody
  BY <1>5, HopBodyKeeps
<1>6. CASE GiveBody
  BY <1>6, GiveBodyKeeps
<1>7. CASE GnubgAnswers
  BY <1>7, SettledHoming DEF IInv, GnubgAnswers
<1>8. CASE RollBody
  BY <1>8, SettledHoming, TailKeeps DEF IInv, RollBody
<1>9. CASE UNCHANGED vars
  BY <1>9 DEF IInv, vars
<1> QED
  BY <1>1, <1>2, <1>3, <1>4, <1>5, <1>6, <1>7, <1>8, <1>9 DEF Next

---------------------------------------------------------------------------

\* Undo, pressed until the history is empty, brings back the board the turn began
\* with: on any board, with any number of presses waiting, and whichever writes of
\* the main thread and of the engine thread overtake each other
\* (GameViewModel.kt, undo, swapDice, tapSource, dragMove, confirm).
THEOREM UndoCorrect == Spec => []UndoLeadsHome
<1>1. IInv => UndoLeadsHome
  BY DEF IInv, Homing, UndoLeadsHome
<1> QED
  BY <1>1, InitIInv, StepKeepsIInv, PTL DEF Spec

---------------------------------------------------------------------------
(* Induction.  The library's theorems take an operator; these take the set *)
(* a fact is true of.  The first rests on the pigeonhole principle.        *)

\* Induction over the natural numbers, on the set a fact is true of.
LEMMA SetInduction ==
  ASSUME NEW S, 0 \in S, \A n \in Nat : n \in S => n + 1 \in S
  PROVE  Nat \subseteq S
<1> SUFFICES ASSUME NEW n \in Nat, n \notin S PROVE FALSE
  OBVIOUS
<1> DEFINE A == {i \in 0..n : i \in S}
           B == A \ {0}
           f == [i \in A |-> i + 1]
<1>1. IsFiniteSet(0..n) /\ A \subseteq 0..n /\ 0 \in A
  BY FS_Interval
<1>2. f \in [A -> B]
  OBVIOUS
<1>3. \A x, y \in A : x # y => f[x] # f[y]
  OBVIOUS
<1> HIDE DEF A, B, f
<1>4. IsFiniteSet(A) /\ Cardinality(A) \in Nat
  BY <1>1, FS_Subset, FS_CardinalityType
<1>5. IsFiniteSet(B) /\ Cardinality(B) = Cardinality(A) - 1
  BY <1>1, <1>4, FS_RemoveElement DEF B
<1>6. \E x, y \in A : x # y /\ f[x] = f[y]
  BY <1>2, <1>4, <1>5, FS_PigeonHole
<1> QED BY <1>3, <1>6

\* A subset of a finite set has fewer elements once one is taken out.
LEMMA OneLess ==
  ASSUME NEW S, IsFiniteSet(S), NEW T \in SUBSET S, NEW n \in Nat, Cardinality(T) <= n + 1,
         NEW x \in T
  PROVE  Cardinality(T) \in Nat /\ Cardinality(T \ {x}) \in Nat /\ Cardinality(T \ {x}) <= n
<1>1. IsFiniteSet(T)
  BY FS_Subset
<1>2. IsFiniteSet(T \ {x}) /\ Cardinality(T \ {x}) = Cardinality(T) - 1
  BY <1>1, FS_RemoveElement
<1>3. Cardinality(T) \in Nat /\ Cardinality(T \ {x}) \in Nat
  BY <1>1, <1>2, FS_CardinalityType
<1> QED BY <1>2, <1>3

\* Induction over the subsets of a finite set, on the set of those a fact is true of.
LEMMA SubsetInduction ==
  ASSUME NEW S, IsFiniteSet(S), NEW G, {} \in G,
         \A T \in SUBSET S : T # {} /\ (\A x \in T : T \ {x} \in G) => T \in G
  PROVE  SUBSET S \subseteq G
<1> DEFINE A == {n \in Nat : \A T \in SUBSET S : Cardinality(T) <= n => T \in G}
<1>1. \A T \in SUBSET S : IsFiniteSet(T) /\ Cardinality(T) \in Nat /\ (Cardinality(T) = 0 <=> T = {})
  BY FS_Subset, FS_CardinalityType, FS_EmptySet
<1>2. 0 \in A
  <2> SUFFICES ASSUME NEW T \in SUBSET S, Cardinality(T) <= 0 PROVE T \in G
    OBVIOUS
  <2> QED BY <1>1
<1>3. ASSUME NEW n \in Nat, n \in A PROVE n + 1 \in A
  <2>1. ASSUME NEW T \in SUBSET S, Cardinality(T) <= n + 1, T # {} PROVE T \in G
    <3>1. ASSUME NEW x \in T PROVE T \ {x} \in G
      BY <1>3, <2>1, OneLess
    <3> QED BY <2>1, <3>1
  <2>2. \A T \in SUBSET S : Cardinality(T) <= n + 1 => T \in G
    BY <2>1
  <2> QED BY <2>2
<1>4. Nat \subseteq A
  <2> HIDE DEF A
  <2> QED BY <1>2, <1>3, SetInduction
<1>5. ASSUME NEW T \in SUBSET S PROVE T \in G
  <2>1. Cardinality(T) \in A /\ Cardinality(T) \in Nat
    BY <1>1, <1>4
  <2>2. Cardinality(T) <= Cardinality(T)
    BY <2>1
  <2> QED BY <2>1, <2>2
<1> QED BY <1>5

---------------------------------------------------------------------------
(* Folds.                                                                  *)

\* What MapThenFoldSet computes with: for a subset of S, what is folded of it.
Folding(f, S, base, pick, step) ==
    f = [T \in SUBSET S |-> IF T = {} THEN base ELSE step[pick[T]][f[T \ {pick[T]}]]]

\* It exists.
LEMMA FoldingExists ==
  ASSUME NEW S, IsFiniteSet(S), NEW V, NEW base \in V, NEW step \in [S -> [V -> V]],
         NEW pick, \A T \in SUBSET S : T # {} => pick[T] \in T
  PROVE  \E f \in [SUBSET S -> V] : Folding(f, S, base, pick, step)
<1> DEFINE F(f) == [T \in SUBSET S |-> IF T = {} THEN base ELSE step[pick[T]][f[T \ {pick[T]}]]]
           Up(f, n) == \A T \in SUBSET S : Cardinality(T) <= n => f[T] = F(f)[T]
           A == {n \in Nat : \E f \in [SUBSET S -> V] : Up(f, n)}
<1>1. ASSUME NEW T \in SUBSET S, T # {}
      PROVE  T \ {pick[T]} \in SUBSET S /\ pick[T] \in T /\ step[pick[T]] \in [V -> V]
  BY <1>1
<1>2. ASSUME NEW f \in [SUBSET S -> V] PROVE F(f) \in [SUBSET S -> V]
  BY <1>1
<1>3. \A T \in SUBSET S : IsFiniteSet(T) /\ Cardinality(T) \in Nat /\ (Cardinality(T) = 0 <=> T = {})
  BY FS_Subset, FS_CardinalityType, FS_EmptySet
<1>4. 0 \in A
  <2>1. Up([T \in SUBSET S |-> base], 0)
    BY <1>3
  <2>2. [T \in SUBSET S |-> base] \in [SUBSET S -> V]
    OBVIOUS
  <2> HIDE DEF Up
  <2> QED BY <2>1, <2>2
<1>5. ASSUME NEW n \in Nat, n \in A PROVE n + 1 \in A
  <2>1. PICK f \in [SUBSET S -> V] : Up(f, n)
    BY <1>5
  <2>2. F(f) \in [SUBSET S -> V]
    BY <1>2
  <2>3. ASSUME NEW T \in SUBSET S, Cardinality(T) <= n + 1 PROVE F(f)[T] = F(F(f))[T]
    <3>1. CASE T = {}
      BY <3>1
    <3>2. CASE T # {}
      <4>1. T \ {pick[T]} \in SUBSET S /\ Cardinality(T \ {pick[T]}) <= n
        BY <1>1, <2>3, <3>2, OneLess
      <4>2. f[T \ {pick[T]}] = F(f)[T \ {pick[T]}]
        BY <2>1, <4>1
      <4> HIDE DEF F
      <4>3. /\ F(f)[T] = step[pick[T]][f[T \ {pick[T]}]]
            /\ F(F(f))[T] = step[pick[T]][F(f)[T \ {pick[T]}]]
        BY <3>2 DEF F
      <4> QED BY <4>2, <4>3
    <3> QED BY <3>1, <3>2
  <2>4. Up(F(f), n + 1)
    BY <2>3
  <2> HIDE DEF Up, F
  <2> QED BY <2>2, <2>4
<1>6. Nat \subseteq A
  <2> HIDE DEF A
  <2> QED BY <1>4, <1>5, SetInduction
<1>7. Cardinality(S) \in Nat
  BY FS_CardinalityType
<1>8. PICK f \in [SUBSET S -> V] : Up(f, Cardinality(S))
  BY <1>6, <1>7
<1>9. ASSUME NEW T \in SUBSET S PROVE f[T] = F(f)[T]
  BY <1>8, FS_Subset
<1>10. f = F(f)
  BY <1>9
<1> QED BY <1>10 DEF Folding

---------------------------------------------------------------------------
(* Sums.                                                                   *)

\* The element of a set that is added first.
First == [T \in SUBSET Slots |-> CHOOSE x \in T : TRUE]

\* The partial sums of a half of the board.
SumsTo(f, h) ==
    \A T \in SUBSET Slots :
        f[T] \in Nat /\ f[T] = IF T = {} THEN 0 ELSE h[First[T]] + f[T \ {First[T]}]

\* The sum that Chequers is has partial sums.
LEMMA ChequersSums ==
  ASSUME NEW h \in [Slots -> Nat]
  PROVE  \E f : SumsTo(f, h) /\ Chequers(h) = f[Slots]
<1> DEFINE P(f) == f = [T \in SUBSET Slots |->
                          IF T = {} THEN 0
                          ELSE h[CHOOSE x \in T : TRUE] + f[T \ {CHOOSE x \in T : TRUE}]]
           c == CHOOSE f : P(f)
           step == [x \in Slots |-> [n \in Nat |-> h[x] + n]]
<1>1. Chequers(h) = c[Slots]
  BY Zenon DEF Chequers, SumFunction, SumFunctionOnSet, FoldFunctionOnSet, MapThenFoldSet
<1>2. IsFiniteSet(Slots) /\ step \in [Slots -> [Nat -> Nat]]
  <2>1. IsFiniteSet(Slots)
    BY BoardAssumption, FS_Interval DEF Slots
  <2>2. \A x \in Slots, n \in Nat : h[x] + n \in Nat
    OBVIOUS
  <2> QED BY <2>1, <2>2
<1>3. \A T \in SUBSET Slots : /\ First[T] = CHOOSE x \in T : TRUE
                              /\ T # {} => First[T] \in T /\ T \ {First[T]} \in SUBSET Slots
  BY DEF First
<1>4. PICK f \in [SUBSET Slots -> Nat] : Folding(f, Slots, 0, First, step)
  <2> HIDE DEF step
  <2> QED BY <1>2, <1>3, FoldingExists
<1>5. ASSUME NEW T \in SUBSET Slots
      PROVE  f[T] = IF T = {} THEN 0 ELSE h[CHOOSE x \in T : TRUE] + f[T \ {CHOOSE x \in T : TRUE}]
  <2>1. f[T] = IF T = {} THEN 0 ELSE step[First[T]][f[T \ {First[T]}]]
    BY <1>4 DEF Folding
  <2>2. CASE T = {}
    BY <2>1, <2>2
  <2>3. CASE T # {}
    <3>1. First[T] \in Slots /\ f[T \ {First[T]}] \in Nat
      BY <1>3, <2>3
    <3>2. step[First[T]][f[T \ {First[T]}]] = h[First[T]] + f[T \ {First[T]}]
      BY <3>1
    <3> HIDE DEF step
    <3> QED BY <1>3, <2>1, <2>3, <3>2
  <2> QED BY <2>2, <2>3
<1>6. P(f)
  <2> HIDE DEF step
  <2> QED BY <1>5
<1>7. P(c)
  <2> HIDE DEF P
  <2> QED BY <1>6
<1> HIDE DEF c
<1> DEFINE G == {T \in SUBSET Slots : c[T] \in Nat}
<1>8. \A T \in SUBSET Slots : c[T] = IF T = {} THEN 0 ELSE h[First[T]] + c[T \ {First[T]}]
  BY <1>3, <1>7
<1> HIDE DEF P
<1>9. {} \in G
  <2>1. c[{}] = 0
    BY <1>8
  <2> QED BY <2>1
<1>10. ASSUME NEW T \in SUBSET Slots, T # {}, \A x \in T : T \ {x} \in G PROVE T \in G
  <2>1. First[T] \in Slots /\ c[T \ {First[T]}] \in Nat
    BY <1>3, <1>10
  <2>2. h[First[T]] \in Nat
    BY <2>1
  <2>3. c[T] = h[First[T]] + c[T \ {First[T]}]
    BY <1>8, <1>10
  <2>4. c[T] \in Nat
    BY <2>1, <2>2, <2>3
  <2> QED BY <2>4
<1>11. SUBSET Slots \subseteq G
  <2> HIDE DEF G
  <2> QED BY <1>2, <1>9, <1>10, SubsetInduction
<1> QED BY <1>1, <1>8, <1>11 DEF SumsTo

\* A chequer put from one point on another is not lost.
LEMMA ChequersMoved ==
  ASSUME NEW h \in [Slots -> Nat], NEW g \in [Slots -> Nat], NEW i \in Slots, NEW j \in Slots, i # j,
         h[i] = g[i] + 1, g[j] = h[j] + 1, \A x \in Slots \ {i, j} : g[x] = h[x]
  PROVE  Chequers(g) = Chequers(h)
<1>1. PICK s : SumsTo(s, h) /\ Chequers(h) = s[Slots]
  BY ChequersSums
<1>2. PICK t : SumsTo(t, g) /\ Chequers(g) = t[Slots]
  BY ChequersSums
<1> DEFINE Has(x, T) == IF x \in T THEN 1 ELSE 0
           G == {T \in SUBSET Slots : t[T] + Has(i, T) = s[T] + Has(j, T)}
<1>3. {} \in G
  BY <1>1, <1>2 DEF SumsTo
<1>4. ASSUME NEW T \in SUBSET Slots, T # {}, \A x \in T : T \ {x} \in G PROVE T \in G
  <2> DEFINE x == First[T]
             U == T \ {x}
  <2>1. x \in T /\ x \in Slots /\ U \in SUBSET Slots
    BY <1>4 DEF First
  <2>2. s[T] = h[x] + s[U] /\ t[T] = g[x] + t[U] /\ s[U] \in Nat /\ t[U] \in Nat
    BY <1>1, <1>2, <1>4, <2>1 DEF SumsTo
  <2>3. t[U] + Has(i, U) = s[U] + Has(j, U)
    BY <1>4, <2>1
  <2>4. g[x] \in Nat /\ h[x] \in Nat
    BY <2>1
  <2>5. Has(i, T) = IF x = i THEN Has(i, U) + 1 ELSE Has(i, U)
    BY <2>1
  <2>6. Has(j, T) = IF x = j THEN Has(j, U) + 1 ELSE Has(j, U)
    BY <2>1
  <2>7. x = i => i \notin U
    OBVIOUS
  <2>8. x = j => j \notin U
    OBVIOUS
  <2>9. Has(i, U) \in 0..1 /\ Has(j, U) \in 0..1
    OBVIOUS
  <2> HIDE DEF x, U
  <2>10. t[T] + Has(i, T) = s[T] + Has(j, T)
    <3> HIDE DEF Has
    <3>1. CASE x = i
      BY <2>2, <2>3, <2>4, <2>5, <2>6, <2>9, <3>1
    <3>2. CASE x = j
      BY <2>2, <2>3, <2>4, <2>5, <2>6, <2>9, <3>2
    <3>3. CASE x \notin {i, j}
      BY <2>1, <2>2, <2>3, <2>4, <2>5, <2>6, <2>9, <3>3
    <3> QED BY <3>1, <3>2, <3>3
  <2> QED BY <2>10
<1>5. SUBSET Slots \subseteq G
  <2>1. IsFiniteSet(Slots)
    BY BoardAssumption, FS_Interval DEF Slots
  <2> HIDE DEF G
  <2> QED BY <1>3, <1>4, <2>1, SubsetInduction
<1>6. t[Slots] + 1 = s[Slots] + 1 /\ t[Slots] \in Nat /\ s[Slots] \in Nat
  BY <1>1, <1>2, <1>5 DEF SumsTo
<1> QED BY <1>1, <1>2, <1>6

---------------------------------------------------------------------------
(* Folds over sequences.                                                   *)

\* The numbers of a set that holds one have a largest and a smallest among them.
LEMMA Extremes ==
  ASSUME NEW n \in Nat, NEW D, D = 1..n, NEW T \in SUBSET D, T # {}
  PROVE  /\ \E x \in T : \A y \in T : x >= y
         /\ \E x \in T : \A y \in T : x <= y
<1> DEFINE Has(U) == /\ \E x \in U : \A y \in U : x >= y
                     /\ \E x \in U : \A y \in U : x <= y
           G == {U \in SUBSET D : U # {} => Has(U)}
<1>1. {} \in G
  OBVIOUS
<1>2. ASSUME NEW U \in SUBSET D, U # {}, \A x \in U : U \ {x} \in G PROVE U \in G
  <2>1. PICK z \in U : TRUE
    BY <1>2
  <2> DEFINE W == U \ {z}
  <2>2. W = {} \/ Has(W)
    BY <1>2, <2>1
  <2>3. CASE W = {}
    <3>1. U = {z}
      BY <2>1, <2>3, Zenon
    <3>2. z \in Nat
      OBVIOUS
    <3> QED BY <3>1, <3>2
  <2>4. CASE Has(W)
    <3>0. U = W \cup {z} /\ z \in Nat /\ \A y \in W : y \in Nat
      BY <2>1
    <3> HIDE DEF W
    <3>1. \E x \in U : \A y \in U : x >= y
      <4>1. PICK x \in W : \A y \in W : x >= y
        BY <2>4
      <4>2. x \in Nat /\ x \in U /\ z \in U
        BY <3>0
      <4>3. CASE x >= z
        BY <3>0, <4>1, <4>2, <4>3
      <4>4. CASE z >= x
        BY <3>0, <4>1, <4>2, <4>4
      <4> QED BY <3>0, <4>2, <4>3, <4>4
    <3>2. \E x \in U : \A y \in U : x <= y
      <4>1. PICK x \in W : \A y \in W : x <= y
        BY <2>4
      <4>2. x \in Nat /\ x \in U /\ z \in U
        BY <3>0
      <4>3. CASE x <= z
        BY <3>0, <4>1, <4>2, <4>3
      <4>4. CASE z <= x
        BY <3>0, <4>1, <4>2, <4>4
      <4> QED BY <3>0, <4>2, <4>3, <4>4
    <3> QED BY <3>1, <3>2
  <2> QED BY <2>2, <2>3, <2>4
<1>3. IsFiniteSet(D)
  BY FS_Interval
<1>4. SUBSET D \subseteq G
  <2> HIDE DEF G
  <2> QED BY <1>1, <1>2, <1>3, SubsetInduction, Zenon
<1> QED BY <1>4

LEMMA MaxIn ==
  ASSUME NEW n \in Nat, NEW D, D = 1..n, NEW T \in SUBSET D, T # {}
  PROVE  Max(T) \in T
BY Extremes DEF Max

\* What a fold over the indices D of a sequence computes, in V and by steps from V to V.
FoldsIn(f, D, V, base, step) ==
    /\ f \in [SUBSET D -> V]
    /\ \A T \in SUBSET D : f[T] = IF T = {} THEN base ELSE step[Max(T)][f[T \ {Max(T)}]]

\* The same for what is not known to be in V, as long as it is.
Folds(c, D, V, base, step) ==
    /\ c[{}] = base
    /\ \A T \in SUBSET D : T # {} /\ c[T \ {Max(T)}] \in V
                              => c[T] = step[Max(T)][c[T \ {Max(T)}]]

\* f goes on index by index, in V, to last.
GoesOn(f, n, D, V, base, step, last) ==
    /\ f \in [0..n -> V] /\ f[0] = base /\ f[n] = last
    /\ \A i \in D : f[i] = step[i][f[i - 1]]

\* A fold goes on index by index, and stays in V if its steps do.
LEMMA FoldBySteps ==
  ASSUME NEW n \in Nat, NEW D, D = 1..n, NEW V, NEW base \in V, NEW step \in [D -> [V -> V]],
         NEW c, Folds(c, D, V, base, step)
  PROVE  \E f : GoesOn(f, n, D, V, base, step, c[D])
<1> DEFINE G == {T \in SUBSET D : c[T] \in V}
           f == [i \in 0..n |-> c[1..i]]
<1>1. {} \in G
  BY DEF Folds
<1>2. ASSUME NEW T \in SUBSET D, T # {}, \A x \in T : T \ {x} \in G PROVE T \in G
  <2>1. Max(T) \in T /\ Max(T) \in D
    BY <1>2, MaxIn
  <2>2. c[T \ {Max(T)}] \in V
    BY <1>2, <2>1
  <2>3. step[Max(T)] \in [V -> V]
    BY <2>1
  <2>4. c[T] \in V
    BY <1>2, <2>2, <2>3 DEF Folds
  <2> QED BY <2>4
<1>3. IsFiniteSet(D)
  BY FS_Interval
<1>4. SUBSET D \subseteq G
  <2> HIDE DEF G
  <2> QED BY <1>1, <1>2, <1>3, SubsetInduction, Zenon
<1>5. ASSUME NEW i \in 0..n PROVE 1..i \in SUBSET D /\ f[i] = c[1..i] /\ c[1..i] \in V
  BY <1>4
<1>6. f \in [0..n -> V]
  BY <1>5
<1>7. f[0] = base
  BY <1>5 DEF Folds
<1>8. f[n] = c[D]
  BY <1>5
<1>9. ASSUME NEW i \in D PROVE f[i] = step[i][f[i - 1]]
  <2>1. i \in 0..n /\ i - 1 \in 0..n
    OBVIOUS
  <2> DEFINE T == 1..i
  <2>2. T # {} /\ i \in T /\ T \ {i} = 1..(i - 1) /\ \A y \in T : i >= y
    OBVIOUS
  <2>3. Max(T) = i
    <3>1. Max(T) \in T /\ \A y \in T : Max(T) >= y
      <4>1. i \in Nat
        OBVIOUS
      <4>2. \E x \in T : \A y \in T : x >= y
        BY <2>2
      <4> HIDE DEF T
      <4> QED BY <4>2 DEF Max
    <3> QED BY <2>2, <3>1
  <2>4. T \in SUBSET D /\ f[i] = c[T] /\ f[i - 1] = c[T \ {Max(T)}] /\ f[i - 1] \in V
    BY <1>5, <2>1, <2>2, <2>3
  <2> HIDE DEF T, f
  <2> QED BY <2>2, <2>3, <2>4 DEF Folds
<1> HIDE DEF f
<1> QED BY <1>6, <1>7, <1>8, <1>9 DEF GoesOn

\* A fold by steps that stay in V can be computed.
LEMMA FoldComputes ==
  ASSUME NEW n \in Nat, NEW D, D = 1..n, NEW V, NEW base \in V, NEW step \in [D -> [V -> V]]
  PROVE  \E f : FoldsIn(f, D, V, base, step)
<1> DEFINE pick == [T \in SUBSET D |-> Max(T)]
<1>1. IsFiniteSet(D)
  BY FS_Interval
<1>2. \A T \in SUBSET D : pick[T] = Max(T) /\ (T # {} => pick[T] \in T)
  BY MaxIn
<1> HIDE DEF pick
<1>3. PICK f \in [SUBSET D -> V] : Folding(f, D, base, pick, step)
  BY <1>1, <1>2, FoldingExists
<1>4. ASSUME NEW T \in SUBSET D
      PROVE  f[T] = IF T = {} THEN base ELSE step[Max(T)][f[T \ {Max(T)}]]
  <2>1. f[T] = IF T = {} THEN base ELSE step[pick[T]][f[T \ {pick[T]}]]
    BY <1>3 DEF Folding
  <2>2. pick[T] = Max(T)
    BY <1>2
  <2> QED BY <2>1, <2>2
<1> QED BY <1>4 DEF FoldsIn

---------------------------------------------------------------------------
(* The folds over plays, step by step.                                     *)

\* A chequer followed over one hop more.
Followed(acc, hop, target) ==
    IF acc.reached \/ hop[1] # acc.here THEN acc
    ELSE [here |-> hop[2], hops |-> Append(acc.hops, hop), reached |-> hop[2] = target]

\* The points a chequer lights up, with one hop more.
Lit(acc, hop) ==
    IF hop[1] # acc.here THEN acc
    ELSE [here |-> hop[2], lit |-> acc.lit \cup ({hop[2] + 1} \ {0})]

\* A chequer walked over one hop more: the dice it can use, and the smallest of them.
Useful(acc, hop) == {d \in Range(acc.left) : /\ hop[2] < 0 \/ d = hop[1] - hop[2]
                                             /\ apply_sub_move(acc.board, hop[1], d) # NoBoard}

Smallest(acc, hop) == CHOOSE d \in Useful(acc, hop) : \A e \in Useful(acc, hop) : d <= e

Walk(acc, hop) ==
    IF ~acc.ok \/ Useful(acc, hop) = {} THEN [acc EXCEPT !.ok = FALSE]
    ELSE [ok |-> TRUE, board |-> apply_sub_move(acc.board, hop[1], Smallest(acc, hop)),
          left |-> Without(acc.left, FirstAt(acc.left, Smallest(acc, hop)))]

\* The way of a chequer, hop by hop.
WayBy(f, an, origin, target) ==
    /\ f[0] = [here |-> origin, hops |-> <<>>, reached |-> FALSE]
    /\ f[Len(an)] = Way(an, origin, target)
    /\ \A i \in 1..Len(an) : f[i] = Followed(f[i - 1], an[i], target)
    /\ \A i \in 0..Len(an) : f[i].hops \in Seq(Range(an)) /\ f[i].reached \in BOOLEAN

\* It is such a way.
LEMMA WayFold ==
  ASSUME NEW an, IsList(an), NEW origin, NEW target
  PROVE  \E f : WayBy(f, an, origin, target)
<1> DEFINE n == Len(an)
           D == DOMAIN an
           X == Range(an)
           H == {origin} \cup {an[i][2] : i \in D}
           V == [here : H, hops : Seq(X), reached : BOOLEAN]
           base == [here |-> origin, hops |-> <<>>, reached |-> FALSE]
           P(f) == f = [T \in SUBSET DOMAIN an |->
                          IF T = {} THEN base ELSE Followed(f[T \ {Max(T)}], an[Max(T)], target)]
           c == CHOOSE f : P(f)
           step == [i \in D |-> [acc \in V |-> Followed(acc, an[i], target)]]
<1>1. Way(an, origin, target) = c[DOMAIN an]
  BY Zenon DEF Way, FoldLeft, MapThenFoldSet, Followed
<1>2. n \in Nat /\ DOMAIN an = D /\ D = 1..n
  BY LenProperties DEF IsList
<1>3. base \in V
  BY EmptySeq
<1>4. ASSUME NEW i \in D, NEW acc \in V PROVE Followed(acc, an[i], target) \in V
  <2>1. an[i] \in X /\ an[i][2] \in H
    BY DEF Range
  <2>2. Append(acc.hops, an[i]) \in Seq(X)
    BY <2>1, AppendProperties
  <2> HIDE DEF H, X
  <2> QED BY <2>1, <2>2 DEF Followed
<1> HIDE DEF V, base
<1>5. step \in [D -> [V -> V]]
  BY <1>4
<1>6. \A i \in D, acc \in V : step[i][acc] = Followed(acc, an[i], target)
  OBVIOUS
<1> HIDE DEF step
<1>7. \A T \in SUBSET D : T # {} => Max(T) \in D /\ T \ {Max(T)} \in SUBSET D
  BY <1>2, MaxIn
<1> HIDE DEF n, D
<1>8. P(c)
  <2>1. PICK f : FoldsIn(f, D, V, base, step)
    BY <1>2, <1>3, <1>5, FoldComputes
  <2>2. ASSUME NEW T \in SUBSET D
        PROVE  f[T] = IF T = {} THEN base ELSE Followed(f[T \ {Max(T)}], an[Max(T)], target)
    BY <1>6, <1>7, <2>1 DEF FoldsIn
  <2>3. P(f)
    BY <1>2, <2>1, <2>2 DEF FoldsIn
  <2> HIDE DEF P
  <2> QED BY <2>3
<1> HIDE DEF c
<1>9. Folds(c, D, V, base, step)
  BY <1>2, <1>6, <1>7, <1>8 DEF Folds
<1> HIDE DEF P
<1>10. PICK f : GoesOn(f, n, D, V, base, step, c[D])
  BY <1>2, <1>3, <1>5, <1>9, FoldBySteps
<1>11. \A i \in D : f[i] = Followed(f[i - 1], an[i], target)
  BY <1>2, <1>6, <1>10 DEF GoesOn
<1>12. \A i \in 0..n : f[i].hops \in Seq(X) /\ f[i].reached \in BOOLEAN
  BY <1>10 DEF V, GoesOn
<1> HIDE DEF X
<1>13. f[n] = Way(an, origin, target)
  BY <1>1, <1>2, <1>10 DEF GoesOn
<1> QED BY <1>2, <1>10, <1>11, <1>12, <1>13 DEF n, X, base, WayBy, GoesOn

\* What a chequer is followed along is a sequence of hops.
LEMMA WayIsList ==
  ASSUME NEW an, IsList(an), NEW origin, NEW target
  PROVE  IsList(Way(an, origin, target).hops)
<1>1. PICK f : WayBy(f, an, origin, target)
  BY WayFold
<1>2. Len(an) \in 0..Len(an)
  BY LenProperties DEF IsList
<1>3. Way(an, origin, target).hops \in Seq(Range(an))
  BY <1>1, <1>2 DEF WayBy
<1> QED BY <1>3, SeqOfRange DEF IsList

\* The points lit up, hop by hop.
LitBy(f, an, origin) ==
    LET base == [here |-> origin, lit |-> {}]
        Follow(acc, hop) == IF hop[1] # acc.here THEN acc
                ELSE [here |-> hop[2], lit |-> acc.lit \cup ({hop[2] + 1} \ {0})]
    IN  /\ f[0] = base /\ f[Len(an)] = FoldLeft(Follow, base, an)
        /\ \A i \in 1..Len(an) : f[i] = Lit(f[i - 1], an[i])

\* They are.
LEMMA LitFold ==
  ASSUME NEW an, IsList(an), \A i \in DOMAIN an : an[i][2] \in Int, NEW origin
  PROVE  \E f : LitBy(f, an, origin)
<1> DEFINE n == Len(an)
           D == DOMAIN an
           H == {origin} \cup {an[i][2] : i \in D}
           V == [here : H, lit : SUBSET Int]
           base == [here |-> origin, lit |-> {}]
           Follow(acc, hop) == IF hop[1] # acc.here THEN acc
                ELSE [here |-> hop[2], lit |-> acc.lit \cup ({hop[2] + 1} \ {0})]
           P(f) == f = [T \in SUBSET DOMAIN an |->
                          IF T = {} THEN base ELSE Lit(f[T \ {Max(T)}], an[Max(T)])]
           c == CHOOSE f : P(f)
           step == [i \in D |-> [acc \in V |-> Lit(acc, an[i])]]
<1>1. FoldLeft(Follow, base, an) = c[DOMAIN an]
  BY Zenon DEF FoldLeft, MapThenFoldSet, Lit
<1>2. n \in Nat /\ DOMAIN an = D /\ D = 1..n
  BY LenProperties DEF IsList
<1>3. base \in V
  OBVIOUS
<1>4. ASSUME NEW i \in D, NEW acc \in V PROVE Lit(acc, an[i]) \in V
  <2>1. an[i][2] \in H /\ an[i][2] + 1 \in Int
    OBVIOUS
  <2> HIDE DEF H
  <2> QED BY <2>1 DEF Lit
<1> HIDE DEF V, base
<1>5. step \in [D -> [V -> V]]
  BY <1>4
<1>6. \A i \in D, acc \in V : step[i][acc] = Lit(acc, an[i])
  OBVIOUS
<1> HIDE DEF step
<1>7. \A T \in SUBSET D : T # {} => Max(T) \in D /\ T \ {Max(T)} \in SUBSET D
  BY <1>2, MaxIn
<1> HIDE DEF n, D
<1>8. P(c)
  <2>1. PICK f : FoldsIn(f, D, V, base, step)
    BY <1>2, <1>3, <1>5, FoldComputes
  <2>2. ASSUME NEW T \in SUBSET D
        PROVE  f[T] = IF T = {} THEN base ELSE Lit(f[T \ {Max(T)}], an[Max(T)])
    BY <1>6, <1>7, <2>1 DEF FoldsIn
  <2>3. P(f)
    BY <1>2, <2>1, <2>2 DEF FoldsIn
  <2> HIDE DEF P
  <2> QED BY <2>3
<1> HIDE DEF c
<1>9. Folds(c, D, V, base, step)
  BY <1>2, <1>6, <1>7, <1>8 DEF Folds
<1> HIDE DEF P
<1>10. PICK f : GoesOn(f, n, D, V, base, step, c[D])
  BY <1>2, <1>3, <1>5, <1>9, FoldBySteps
<1>11. \A i \in D : f[i] = Lit(f[i - 1], an[i])
  BY <1>2, <1>6, <1>10 DEF GoesOn
<1>12. f[n] = FoldLeft(Follow, base, an)
  BY <1>1, <1>2, <1>10 DEF GoesOn
<1> QED BY <1>2, <1>10, <1>11, <1>12 DEF n, base, LitBy, GoesOn

---------------------------------------------------------------------------
(* Hops and dice.                                                          *)

\* A hop loses no chequer of the opponent's: one that is hit is on the bar.
LEMMA HopKeepsChequers ==
  ASSUME NEW b, Apart(b), NEW iSrc, NEW nRoll,
         apply_sub_move(b, iSrc, nRoll) # NoBoard
  PROVE  /\ Apart(apply_sub_move(b, iSrc, nRoll))
         /\ Chequers(apply_sub_move(b, iSrc, nRoll)[0]) = Chequers(b[0])
<1> DEFINE n == apply_sub_move(b, iSrc, nRoll)
<1>1. /\ Apart(n)
      /\ \/ n[0] = b[0]
         \/ \E i \in 0 .. NPoints - 1 :
              b[0][i] = 1 /\ n[0] = [b[0] EXCEPT ![i] = 0, ![Bar] = b[0][Bar] + 1]
  BY HopKeepsPointsApart
<1> HIDE DEF n
<1>2. b[0] \in [Slots -> Nat] /\ n[0] \in [Slots -> Nat]
  BY <1>1 DEF Apart, Boards
<1>3. CASE n[0] # b[0]
  <2>1. PICK i \in 0 .. NPoints - 1 :
              b[0][i] = 1 /\ n[0] = [b[0] EXCEPT ![i] = 0, ![Bar] = b[0][Bar] + 1]
    BY <1>1, <1>3
  <2>2. i \in Slots /\ Bar \in Slots /\ i # Bar
    BY BoardAssumption DEF Slots, Bar
  <2>3. /\ b[0][i] = n[0][i] + 1 /\ n[0][Bar] = b[0][Bar] + 1
        /\ \A x \in Slots \ {i, Bar} : n[0][x] = b[0][x]
    BY <1>2, <2>1, <2>2
  <2> QED BY <1>1, <1>2, <2>2, <2>3, ChequersMoved DEF n
<1> QED BY <1>1, <1>3 DEF n

\* Dice a turn has left: two, or any number of the same.
Usable(dice) == Len(dice) = 2 \/ \A i, j \in DOMAIN dice : dice[i] = dice[j]

\* A die taken out of a list of dice leaves the others.
LEMMA WithoutTyped ==
  ASSUME NEW D, NEW dice \in Seq(D), NEW k \in DOMAIN dice
  PROVE  LET w == Without(dice, k) IN
         /\ w \in Seq(D) /\ Len(dice) \in Nat \ {0} /\ Len(w) = Len(dice) - 1
         /\ Range(w) \subseteq Range(dice) /\ Range(dice) \subseteq Range(w) \cup {dice[k]}
         /\ Usable(dice) => Usable(w)
<1> DEFINE w == Without(dice, k)
<1>1. /\ Len(dice) \in Nat \ {0} /\ DOMAIN dice = 1..Len(dice) /\ k \in 1..Len(dice)
      /\ \A j \in 1..Len(dice) : dice[j] \in D
  <2>1. Len(dice) \in Nat /\ DOMAIN dice = 1..Len(dice)
    BY LenProperties
  <2>2. \A j \in 1..Len(dice) : dice[j] \in D
    BY ElementOfSeq
  <2> QED BY <2>1, <2>2
<1>2. \A j \in 1 .. Len(dice) - 1 : j \in 1..Len(dice) /\ j + 1 \in 1..Len(dice)
  BY <1>1
<1>3. Len(dice) - 1 \in Nat /\ w \in [1 .. Len(dice) - 1 -> D]
  BY <1>1, <1>2 DEF Without
<1>4. w \in Seq(D) /\ Len(w) = Len(dice) - 1 /\ DOMAIN w = 1 .. Len(dice) - 1
  BY <1>3, LenProperties
<1>5. \A j \in DOMAIN w : w[j] = IF j < k THEN dice[j] ELSE dice[j + 1]
  BY <1>4 DEF Without
<1> HIDE DEF w
<1>6. Range(w) \subseteq Range(dice)
  BY <1>1, <1>2, <1>4, <1>5 DEF Range
<1>7. Range(dice) \subseteq Range(w) \cup {dice[k]}
  <2> SUFFICES ASSUME NEW i \in DOMAIN dice, i # k PROVE \E j \in DOMAIN w : w[j] = dice[i]
    BY DEF Range
  <2>1. CASE i < k
    BY <1>1, <1>4, <1>5, <2>1
  <2>2. CASE i > k
    <3>1. i - 1 \in DOMAIN w /\ ~(i - 1 < k) /\ (i - 1) + 1 = i
      BY <1>1, <1>4, <2>2
    <3> QED BY <1>5, <3>1
  <2> QED BY <1>1, <2>1, <2>2
<1>8. ASSUME Usable(dice) PROVE Usable(w)
  <2>1. CASE Len(dice) = 2
    BY <1>4, <2>1 DEF Usable
  <2>2. CASE \A i, j \in DOMAIN dice : dice[i] = dice[j]
    BY <1>1, <1>2, <1>4, <1>5, <2>2 DEF Usable
  <2> QED BY <1>8, <2>1, <2>2 DEF Usable
<1> QED BY <1>1, <1>4, <1>6, <1>7, <1>8 DEF w

\* A die in a list has a first place there.
LEMMA FirstAtIs ==
  ASSUME NEW D, NEW dice \in Seq(D), NEW d \in Range(dice)
  PROVE  FirstAt(dice, d) \in DOMAIN dice /\ dice[FirstAt(dice, d)] = d
<1> DEFINE T == {k \in DOMAIN dice : dice[k] = d}
<1>1. Len(dice) \in Nat /\ DOMAIN dice = 1..Len(dice)
  BY LenProperties
<1>2. T \in SUBSET DOMAIN dice /\ T # {}
  BY DEF Range
<1>3. \E x \in T : \A y \in T : x <= y
  <2> HIDE DEF T
  <2> QED BY <1>1, <1>2, Extremes
<1>4. \E k \in DOMAIN dice : dice[k] = d /\ \A j \in 1 .. k - 1 : dice[j] # d
  <2>1. PICK x \in T : \A y \in T : x <= y
    BY <1>3
  <2>2. ASSUME NEW j \in 1 .. x - 1 PROVE dice[j] # d
    BY <1>1, <2>1
  <2> QED BY <2>1, <2>2
<1> QED BY <1>4 DEF FirstAt

Dice == 1..NFaces

\* The boards a turn can pass through: no chequer of the opponent's is lost.
Passed(b, c) == Apart(b) /\ Chequers(b[0]) = c

\* What a chequer is walked along leaves of board and dice, hop by hop, while the opponent
\* has c chequers.
WalkBy(f, s, c, hops) ==
    /\ f[0] = [ok |-> TRUE, board |-> s.board, left |-> s.remainingDice]
    /\ f[Len(hops)] = Walked(s, hops)
    /\ \A i \in 1..Len(hops) : f[i] = Walk(f[i - 1], hops[i])
    /\ \A i \in 0..Len(hops) : /\ f[i].ok \in BOOLEAN
                                /\ Passed(f[i].board, c)
                                /\ f[i].left \in Seq(Dice) /\ Usable(f[i].left)

\* It is so.
LEMMA WalkFold ==
  ASSUME NEW s, NEW c0, Passed(s.board, c0), s.remainingDice \in Seq(Dice),
         Usable(s.remainingDice), NEW hops, IsList(hops)
  PROVE  \E f : WalkBy(f, s, c0, hops)
<1> DEFINE n == Len(hops)
           D == DOMAIN hops
           V == [ok : BOOLEAN, board : {b \in Boards : Passed(b, c0)},
                 left : {l \in Seq(Dice) : Usable(l)}]
           base == [ok |-> TRUE, board |-> s.board, left |-> s.remainingDice]
           P(f) == f = [T \in SUBSET DOMAIN hops |->
                          IF T = {} THEN base ELSE Walk(f[T \ {Max(T)}], hops[Max(T)])]
           c == CHOOSE f : P(f)
           step == [i \in D |-> [acc \in V |-> Walk(acc, hops[i])]]
<1>1. Walked(s, hops) = c[DOMAIN hops]
  BY Zenon DEF Walked, FoldLeft, MapThenFoldSet, Walk, Smallest, Useful
<1>2. n \in Nat /\ DOMAIN hops = D /\ D = 1..n
  BY LenProperties DEF IsList
<1>3. base \in V
  BY DEF Passed, Apart
<1>4. \A hop : \A acc \in V : Walk(acc, hop) \in V
  <2> SUFFICES ASSUME NEW hop, NEW acc \in V PROVE Walk(acc, hop) \in V
    OBVIOUS
  <2>1. CASE ~acc.ok \/ Useful(acc, hop) = {}
    BY <2>1 DEF Walk
  <2>2. CASE ~(~acc.ok \/ Useful(acc, hop) = {})
    <3> DEFINE U == Useful(acc, hop)
               d == Smallest(acc, hop)
    <3>1. Range(acc.left) \subseteq Dice /\ NFaces \in Nat
      BY BoardAssumption, RangeOfSeq
    <3>2. U \in SUBSET (1..NFaces) /\ U # {}
      BY <2>2, <3>1 DEF Dice, Useful
    <3>3. \E x \in U : \A y \in U : x <= y
      <4> HIDE DEF U
      <4> QED BY <3>1, <3>2, Extremes
    <3>4. d \in U
      <4>1. d = CHOOSE x \in U : \A y \in U : x <= y
        BY DEF Smallest
      <4> HIDE DEF U, d
      <4> QED BY <3>3, <4>1
    <3>5. apply_sub_move(acc.board, hop[1], d) # NoBoard
      BY <3>4 DEF Useful
    <3>10. d \in Range(acc.left)
      BY <3>4 DEF Useful
    <3> HIDE DEF d, U
    <3>6. Passed(acc.board, c0) /\ acc.left \in Seq(Dice) /\ Usable(acc.left)
      OBVIOUS
    <3>7. Passed(apply_sub_move(acc.board, hop[1], d), c0)
      BY <3>5, <3>6, HopKeepsChequers DEF Passed
    <3>8. apply_sub_move(acc.board, hop[1], d) \in Boards
      BY <3>7 DEF Passed, Apart
    <3>9. /\ Without(acc.left, FirstAt(acc.left, d)) \in Seq(Dice)
          /\ Usable(Without(acc.left, FirstAt(acc.left, d)))
      BY <3>6, <3>10, WithoutTyped, FirstAtIs
    <3> QED BY <2>2, <3>7, <3>8, <3>9 DEF Walk, d
  <2> QED BY <2>1, <2>2
<1> HIDE DEF V, base
<1>5. step \in [D -> [V -> V]]
  BY <1>4
<1>6. \A i \in D, acc \in V : step[i][acc] = Walk(acc, hops[i])
  OBVIOUS
<1> HIDE DEF step
<1>7. \A T \in SUBSET D : T # {} => Max(T) \in D /\ T \ {Max(T)} \in SUBSET D
  BY <1>2, MaxIn
<1> HIDE DEF n, D
<1>8. P(c)
  <2>1. PICK f : FoldsIn(f, D, V, base, step)
    BY <1>2, <1>3, <1>5, FoldComputes
  <2>2. ASSUME NEW T \in SUBSET D
        PROVE  f[T] = IF T = {} THEN base ELSE Walk(f[T \ {Max(T)}], hops[Max(T)])
    BY <1>6, <1>7, <2>1 DEF FoldsIn
  <2>3. P(f)
    BY <1>2, <2>1, <2>2 DEF FoldsIn
  <2> HIDE DEF P
  <2> QED BY <2>3
<1> HIDE DEF c
<1>9. Folds(c, D, V, base, step)
  BY <1>2, <1>6, <1>7, <1>8 DEF Folds
<1> HIDE DEF P
<1>10. PICK f : GoesOn(f, n, D, V, base, step, c[D])
  BY <1>2, <1>3, <1>5, <1>9, FoldBySteps
<1>11. \A i \in D : f[i] = Walk(f[i - 1], hops[i])
  BY <1>2, <1>6, <1>10 DEF GoesOn
<1>12. \A i \in 0..n : /\ f[i].ok \in BOOLEAN /\ Passed(f[i].board, c0)
                         /\ f[i].left \in Seq(Dice) /\ Usable(f[i].left)
  BY <1>10 DEF V, GoesOn
<1>13. f[n] = Walked(s, hops)
  BY <1>1, <1>2, <1>10 DEF GoesOn
<1> QED BY <1>2, <1>10, <1>11, <1>12, <1>13 DEF n, base, WalkBy, GoesOn

\* A chequer walked along a way takes nothing from the opponent.
LEMMA WalkedPasses ==
  ASSUME NEW s, NEW c0, Passed(s.board, c0), s.remainingDice \in Seq(Dice),
         Usable(s.remainingDice), NEW hops, IsList(hops)
  PROVE  LET w == Walked(s, hops) IN
         Passed(w.board, c0) /\ w.left \in Seq(Dice) /\ Usable(w.left)
<1>1. PICK f : WalkBy(f, s, c0, hops)
  BY WalkFold
<1>2. Len(hops) \in 0..Len(hops)
  BY LenProperties DEF IsList
<1> QED BY <1>1, <1>2 DEF WalkBy

---------------------------------------------------------------------------
(* The types of the entry.                                                 *)

ListOfPlays(l) == IsList(l) /\ \A k \in DOMAIN l : IsList(l[k])

\* What the theorem takes for granted of gnubg: it lists plays, and what it makes of a text
\* found by it, or of none, is a board, if it does not refuse it.
GnubgAssumed ==
    /\ \A b \in Boards, d0, d1 \in Dice : ListOfPlays(LegalMoves(b, d0, d1))
    /\ \A b \in Boards, d0, d1 \in Dice :
          /\ GiveMove(<<>>, b, d0, d1) \in Boards \cup {NoBoard}
          /\ \A old, cur \in Boards, e0, e1 \in Dice :
                GiveMove(FindMove(old, cur, e0, e1), b, d0, d1) \in Boards \cup {NoBoard}

Phases == {"HUMAN_MOVING", "ENGINE_THINKING", "WAITING_FOR_ROLL", "GAME_OVER"}

\* And what the preview takes for granted of it: a play keeps to the dice and to the points
\* that are open.
GnubgPlays == PlaysKeepTo(Boards)

\* Plays for a board and what is left of the dice.
Listed(l, b, left) ==
    /\ ListOfPlays(l)
    /\ GnubgPlays => \A k \in DOMAIN l : IsPlay(l[k], b, Range(left))

\* What a state of the entry and a snapshot of its history have of a turn in which the
\* opponent has c chequers.
Carries(t, c) == /\ Passed(t.board, c) /\ t.remainingDice \in Seq(Dice) /\ Usable(t.remainingDice)
                 /\ Listed(t.legalMoves, t.board, t.remainingDice)

Entering(s) == LET c == Chequers(s.oldBoard[0]) IN
               /\ s.oldBoard \in Boards /\ s.originalDice \in Dice \X Dice
               /\ Carries(s, c) /\ \A k \in DOMAIN s.moveHistory : Carries(s.moveHistory[k], c)

Typed(s) == /\ s.phase \in Phases /\ s.board \in Boards
            /\ s.phase = "HUMAN_MOVING" => Entering(s)

\* The plays for what is left of the dice.
LEMMA MovesForTyped ==
  ASSUME GnubgAssumed, NEW b \in Boards, NEW left \in Seq(Dice), Usable(left)
  PROVE  Listed(MovesFor(b, left), b, left)
<1>1. CASE left = <<>>
  BY <1>1, EmptyList DEF MovesFor, ListOfPlays, Listed
<1>2. CASE left # <<>>
  <2> DEFINE d0 == left[1]
             d1 == IF Len(left) > 1 THEN left[2] ELSE left[1]
             l == LegalMoves(b, d0, d1)
  <2>1. /\ Len(left) \in Nat \ {0} /\ DOMAIN left = 1..Len(left)
        /\ \A k \in 1..Len(left) : left[k] \in Dice
    BY <1>2, LenProperties, EmptySeq, ElementOfSeq
  <2>2. d0 \in Dice /\ d1 \in Dice
    BY <2>1
  <2>3. Range(left) = {d0, d1}
    <3>1. d0 \in Range(left) /\ d1 \in Range(left)
      BY <2>1 DEF Range
    <3>2. \A k \in DOMAIN left : left[k] \in {d0, d1}
      <4>1. CASE Len(left) = 2
        BY <2>1, <4>1
      <4>2. CASE \A i, j \in DOMAIN left : left[i] = left[j]
        BY <2>1, <4>2
      <4> QED BY <4>1, <4>2 DEF Usable
    <3> QED BY <3>1, <3>2 DEF Range
  <2>4. MovesFor(b, left) = l
    BY <1>2 DEF MovesFor
  <2> HIDE DEF d0, d1
  <2>5. ListOfPlays(l)
    BY <2>2 DEF GnubgAssumed
  <2>6. ASSUME GnubgPlays, NEW k \in DOMAIN l PROVE IsPlay(l[k], b, {d0, d1})
    BY <2>2, <2>6 DEF GnubgPlays, PlaysKeepTo, Dice
  <2> HIDE DEF l
  <2> QED BY <2>3, <2>4, <2>5, <2>6 DEF Listed
<1> QED BY <1>1, <1>2

\* A hop to a board the turn can pass through keeps the types.
LEMMA HoppedTyped ==
  ASSUME GnubgAssumed, NEW s, Homing(s), Typed(s), s.phase = "HUMAN_MOVING",
         NEW b, Passed(b, Chequers(s.oldBoard[0])), NEW left \in Seq(Dice), Usable(left)
  PROVE  Typed(Hopped(s, b, left))
<1> DEFINE snapshot == [board |-> s.board, remainingDice |-> s.remainingDice,
                        legalMoves |-> s.legalMoves]
           t == Hopped(s, b, left)
           c == Chequers(s.oldBoard[0])
           moves == MovesFor(b, left)
<1>1. /\ t.phase = s.phase /\ t.oldBoard = s.oldBoard /\ t.originalDice = s.originalDice
      /\ t.moveHistory = Append(s.moveHistory, snapshot) /\ t.board = b /\ t.legalMoves = moves
      /\ t.remainingDice = IF moves = <<>> THEN <<>> ELSE left
  BY DEF Homing, Hopped, Fields
<1>2. Entering(s) /\ b \in Boards
  BY DEF Typed, Passed, Apart
<1>3. Carries(snapshot, c)
  BY <1>2 DEF Entering, Carries
<1> HIDE DEF snapshot, t, moves
<1>4. Listed(moves, b, left)
  BY <1>2, MovesForTyped DEF moves
<1>5. ASSUME moves = <<>> PROVE Carries(t, c)
  <2> HIDE DEF c
  <2>1. t.remainingDice = <<>> /\ t.remainingDice \in Seq(Dice) /\ Usable(t.remainingDice)
    BY <1>1, <1>5, EmptySeq, EmptyList DEF Usable
  <2>2. Listed(t.legalMoves, t.board, t.remainingDice)
    BY <1>1, <1>4, <1>5, EmptyList DEF Listed
  <2>3. Passed(t.board, c)
    BY <1>1 DEF c
  <2> QED BY <2>1, <2>2, <2>3 DEF Carries
<1>6. Carries(t, c)
  <2>1. CASE moves # <<>>
    BY <1>1, <1>4, <2>1 DEF Carries
  <2> QED BY <1>5, <2>1
<1>7. ASSUME NEW k \in DOMAIN t.moveHistory PROVE Carries(t.moveHistory[k], c)
  <2>1. IsList(s.moveHistory)
    BY DEF Homing
  <2>2. /\ DOMAIN s.moveHistory = 1..Len(s.moveHistory) /\ Len(s.moveHistory) \in Nat
        /\ DOMAIN t.moveHistory = 1..(Len(s.moveHistory) + 1)
        /\ \A j \in 1..Len(s.moveHistory) : t.moveHistory[j] = s.moveHistory[j]
        /\ t.moveHistory[Len(s.moveHistory) + 1] = snapshot
    BY <1>1, <2>1, AppendToList
  <2>3. k = Len(s.moveHistory) + 1 \/ k \in 1..Len(s.moveHistory)
    BY <2>2
  <2> HIDE DEF c
  <2>4. CASE k = Len(s.moveHistory) + 1
    BY <1>3, <2>2, <2>4
  <2>5. CASE k \in 1..Len(s.moveHistory)
    BY <1>2, <2>2, <2>5 DEF Entering, c
  <2> QED BY <2>3, <2>4, <2>5
<1>8. Entering(t)
  BY <1>1, <1>2, <1>6, <1>7 DEF Entering
<1>9. t.phase \in Phases
  BY <1>1 DEF Typed
<1> QED BY <1>1, <1>2, <1>8, <1>9 DEF Typed, t

\* What a stack by one tap leads to.
LEMMA StacksPass ==
  ASSUME NEW s, NEW c, Passed(s.board, c), s.remainingDice \in Seq(Dice),
         Usable(s.remainingDice), NEW dest, NEW r \in Stacks(s, dest)
  PROVE  Passed(r.board, c) /\ r.left \in Seq(Dice) /\ Usable(r.left)
<1> DEFINE dice == s.remainingDice
           Hop(b, d) == IF b = NoBoard \/ dest + d >= NPoints THEN NoBoard
                        ELSE apply_sub_move(b, dest + d, d)
<1>1. PICK ij \in (DOMAIN dice) \X (DOMAIN dice) :
         /\ ij[1] # ij[2]
         /\ r.board = Hop(Hop(s.board, dice[ij[1]]), dice[ij[2]])
         /\ r.left = Without(Without(dice, ij[1]), IF ij[2] < ij[1] THEN ij[2] ELSE ij[2] - 1)
  BY DEF Stacks
<1>2. r.board # NoBoard
  BY DEF Stacks
<1>3. \A b, d : Hop(b, d) # NoBoard => /\ b # NoBoard
                                        /\ Hop(b, d) = apply_sub_move(b, dest + d, d)
  OBVIOUS
<1> HIDE DEF Hop
<1>4. \A b, d : Passed(b, c) /\ Hop(b, d) # NoBoard => Passed(Hop(b, d), c)
  <2> SUFFICES ASSUME NEW b, NEW d, Passed(b, c), Hop(b, d) # NoBoard PROVE Passed(Hop(b, d), c)
    OBVIOUS
  <2>1. Hop(b, d) = apply_sub_move(b, dest + d, d)
    BY <1>3
  <2> QED BY <2>1, HopKeepsChequers DEF Passed
<1>5. Passed(Hop(s.board, dice[ij[1]]), c)
  BY <1>1, <1>2, <1>3, <1>4
<1>6. Passed(r.board, c)
  BY <1>1, <1>2, <1>4, <1>5
<1>7. r.left \in Seq(Dice) /\ Usable(r.left)
  <2> DEFINE w == Without(dice, ij[1])
             j == IF ij[2] < ij[1] THEN ij[2] ELSE ij[2] - 1
  <2>1. w \in Seq(Dice) /\ Usable(w) /\ Len(dice) \in Nat \ {0} /\ Len(w) = Len(dice) - 1
    BY <1>1, WithoutTyped
  <2>2. DOMAIN w = 1..Len(w) /\ DOMAIN dice = 1..Len(dice)
    BY <2>1, LenProperties
  <2>3. r.left = Without(w, j)
    BY <1>1
  <2> HIDE DEF w, dice
  <2>4. j \in DOMAIN w
    BY <1>1, <2>1, <2>2
  <2> HIDE DEF j
  <2> QED BY <2>1, <2>3, <2>4, WithoutTyped
<1> QED BY <1>6, <1>7

\* What a tap leaves keeps the types.
LEMMA TapTyped ==
  ASSUME GnubgAssumed, NEW s, Homing(s), Typed(s), s.phase = "HUMAN_MOVING", NEW point,
         NEW t \in Tapped(s, point)
  PROVE  Typed(t)
<1> DEFINE c == Chequers(s.oldBoard[0])
           src == IF s.board[1][Bar] > 0 \/ point = 0 THEN Bar ELSE point - 1
<1>1. Passed(s.board, c) /\ s.remainingDice \in Seq(Dice) /\ Usable(s.remainingDice)
  BY DEF Typed, Entering, Carries
<1> SUFFICES \E b, left : /\ t = Hopped(s, b, left) /\ Passed(b, c)
                          /\ left \in Seq(Dice) /\ Usable(left)
  <2> HIDE DEF c
  <2> QED BY HoppedTyped DEF c
<1>2. \/ \E r \in Stacks(s, point - 1) : t = Hopped(s, r.board, r.left)
      \/ \E k \in DOMAIN s.remainingDice :
           /\ apply_sub_move(s.board, src, s.remainingDice[k]) # NoBoard
           /\ t = Hopped(s, apply_sub_move(s.board, src, s.remainingDice[k]),
                         Without(s.remainingDice, k))
  BY DEF Tapped
<1> HIDE DEF c, src
<1>3. CASE \E r \in Stacks(s, point - 1) : t = Hopped(s, r.board, r.left)
  BY <1>1, <1>3, StacksPass
<1>4. ASSUME NEW k \in DOMAIN s.remainingDice,
             apply_sub_move(s.board, src, s.remainingDice[k]) # NoBoard,
             t = Hopped(s, apply_sub_move(s.board, src, s.remainingDice[k]),
                        Without(s.remainingDice, k))
      PROVE  \E b, left : /\ t = Hopped(s, b, left) /\ Passed(b, c)
                                 /\ left \in Seq(Dice) /\ Usable(left)
  <2>1. Passed(apply_sub_move(s.board, src, s.remainingDice[k]), c)
    BY <1>1, <1>4, HopKeepsChequers DEF Passed
  <2>2. Without(s.remainingDice, k) \in Seq(Dice) /\ Usable(Without(s.remainingDice, k))
    BY <1>1, WithoutTyped
  <2> QED BY <1>4, <2>1, <2>2
<1> QED BY <1>2, <1>3, <1>4

\* And so does what a drag leaves.
LEMMA DragTyped ==
  ASSUME GnubgAssumed, NEW s, Homing(s), Typed(s), s.phase = "HUMAN_MOVING", NEW from, NEW to,
         NEW t \in Dragged(s, from, to)
  PROVE  Typed(t)
<1> DEFINE c == Chequers(s.oldBoard[0])
           origin == IF from = 0 THEN Bar ELSE from - 1
           way(k) == Way(s.legalMoves[k], origin, to - 1)
<1>1. /\ Passed(s.board, c) /\ s.remainingDice \in Seq(Dice) /\ Usable(s.remainingDice)
      /\ ListOfPlays(s.legalMoves)
  BY DEF Typed, Entering, Carries, Listed
<1>2. PICK k \in DOMAIN s.legalMoves :
         t = Hopped(s, Walked(s, way(k).hops).board, Walked(s, way(k).hops).left)
  BY DEF Dragged
<1>3. IsList(way(k).hops)
  BY <1>1, WayIsList DEF ListOfPlays
<1> HIDE DEF way
<1> DEFINE w == Walked(s, way(k).hops)
<1>4. Passed(w.board, c) /\ w.left \in Seq(Dice) /\ Usable(w.left)
  <2> HIDE DEF c
  <2> QED BY <1>1, <1>3, WalkedPasses
<1> HIDE DEF w
<1>5. t = Hopped(s, w.board, w.left)
  BY <1>2 DEF w
<1> QED BY <1>4, <1>5, HoppedTyped

---------------------------------------------------------------------------
(* The invariant of the types.                                             *)

\* gnubg's match, with the turn it is in.
GnubgTyped ==
    /\ gnubg \in [turn : 1..MaxTurns,
                  start : [board : Boards, dice : Dice \X Dice], board : Boards, waiting : BOOLEAN]
    /\ gnubg.start \in Positions
    /\ gnubg.waiting => gnubg.board = gnubg.start.board

\* A body launched: it captured the state the press was allowed in.
Captured(e) ==
    /\ e.press \in Presses /\ Typed(e.state)
    /\ e.press.op # "roll" => e.state.phase = "HUMAN_MOVING"

\* A text on its way to gnubg.
IsText(text) ==
    \A b \in Boards, d0, d1 \in Dice : GiveMove(text, b, d0, d1) \in Boards \cup {NoBoard}

\* Every copy of the state has its types, and every text is one that gnubg made.
TInv ==
    /\ IInv /\ GnubgTyped /\ Typed(shown)
    /\ \A k \in DOMAIN main : Typed(main[k])
    /\ \A k \in DOMAIN queue : Captured(queue[k])
    /\ Len(queue) <= MaxQueue(gnubg.start)
    /\ engine = <<>> \/ \E text : engine = <<text>> /\ IsText(text)

\* A position is a board and a pair of dice.
LEMMA PositionIs ==
  ASSUME NEW p \in Positions
  PROVE  /\ p.board \in Boards /\ Apart(p.board) /\ p.dice \in Dice \X Dice
         /\ p \in [board : Boards, dice : Dice \X Dice]
         /\ p.dice[1] \in Dice /\ p.dice[2] \in Dice /\ p.dice \in Seq(Dice)
<1>1. p \in [board : Boards, dice : Dice \X Dice] /\ ~SharedPoint(p.board)
  BY EntryAssumption DEF Dice
<1>2. p.dice \in Dice \X Dice /\ p.board \in Boards
  BY <1>1
<1>3. p.dice[1] \in Dice /\ p.dice[2] \in Dice /\ p.dice = <<p.dice[1], p.dice[2]>>
  BY <1>2
<1>4. p.dice \in Seq(Dice)
  <2>1. \A x, y \in Dice : <<x, y>> \in Seq(Dice)
    OBVIOUS
  <2> QED BY <1>3, <2>1, Zenon
<1> QED BY <1>1, <1>2, <1>3, <1>4 DEF Apart

\* What is projected from gnubg has its types.
LEMMA SettledTyped ==
  ASSUME GnubgAssumed, NEW g, g.board \in Boards, g.start \in Positions,
         g.waiting => g.board = g.start.board
  PROVE  Typed(Settled(g))
<1> DEFINE f == FreshEntry(g.board, g.start.dice)
           t == Settled(g)
           dice == g.start.dice
<1>1. /\ f.phase = "HUMAN_MOVING" /\ f.board = g.board /\ f.oldBoard = g.board
      /\ f.originalDice = dice /\ f.remainingDice = FourOrTwo(dice)
      /\ f.legalMoves = LegalMoves(g.board, dice[1], dice[2]) /\ f.moveHistory = <<>>
  BY DEF FreshEntry
<1>2. /\ g.waiting => t = f
      /\ ~g.waiting => t.board = g.board /\ t.phase \in {"GAME_OVER", "WAITING_FOR_ROLL"}
  BY DEF Settled, FreshEntry
<1>3. dice[1] \in Dice /\ dice[2] \in Dice /\ dice \in Dice \X Dice /\ dice \in Seq(Dice)
      /\ Apart(g.start.board)
  BY PositionIs
<1> HIDE DEF f, t, dice
<1>4. CASE g.waiting
  <2>1. /\ FourOrTwo(dice) \in Seq(Dice) /\ Usable(FourOrTwo(dice))
        /\ Range(FourOrTwo(dice)) = {dice[1], dice[2]}
    <3>1. CASE dice[1] = dice[2]
      <4> DEFINE four == [k \in 1..4 |-> dice[1]]
      <4>1. four \in Seq(Dice)
        BY <1>3
      <4>2. DOMAIN four = 1..4 /\ \A k \in 1..4 : four[k] = dice[1]
        OBVIOUS
      <4>3. FourOrTwo(dice) = four
        BY <3>1 DEF FourOrTwo
      <4>4. Usable(four)
        BY <4>2 DEF Usable
      <4>5. 1 \in DOMAIN four
        BY <4>2
      <4> HIDE DEF four
      <4>6. Range(four) = {dice[1]}
        BY <4>2, <4>5 DEF Range
      <4> QED BY <3>1, <4>1, <4>3, <4>4, <4>6
    <3>2. CASE dice[1] # dice[2]
      <4>1. FourOrTwo(dice) = dice
        BY <3>2 DEF FourOrTwo
      <4>2. dice = <<dice[1], dice[2]>>
        BY <1>3
      <4>3. Len(dice) = 2 /\ DOMAIN dice = {1, 2}
        <5>1. \A x, y : Len(<<x, y>>) = 2 /\ DOMAIN <<x, y>> = {1, 2}
          OBVIOUS
        <5> QED BY <4>2, <5>1, Zenon
      <4>4. Range(dice) = {dice[1], dice[2]}
        BY <4>3 DEF Range
      <4> QED BY <1>3, <4>1, <4>3, <4>4 DEF Usable
    <3> QED BY <3>1, <3>2
  <2>2. Listed(f.legalMoves, f.board, f.remainingDice)
    <3> DEFINE l == LegalMoves(g.board, dice[1], dice[2])
    <3>1. ListOfPlays(l)
      BY <1>3 DEF GnubgAssumed
    <3>2. ASSUME GnubgPlays, NEW k \in DOMAIN l PROVE IsPlay(l[k], g.board, {dice[1], dice[2]})
      BY <1>3, <3>2 DEF GnubgPlays, PlaysKeepTo, Dice
    <3>3. f.legalMoves = l
      BY <1>1
    <3> HIDE DEF l
    <3> QED BY <1>1, <2>1, <3>1, <3>2, <3>3 DEF Listed
  <2>3. DOMAIN f.moveHistory = {}
    BY <1>1, EmptyList
  <2>4. Entering(f)
    BY <1>1, <1>3, <1>4, <2>1, <2>2, <2>3 DEF Entering, Carries, Passed
  <2>5. Typed(f)
    BY <1>1, <2>4 DEF Typed, Phases
  <2> QED BY <1>2, <1>4, <2>5 DEF t
<1>5. CASE ~g.waiting
  BY <1>2, <1>5 DEF Typed, t, Phases
<1> QED BY <1>4, <1>5

\* The types hold at first.
LEMMA InitTInv == ASSUME GnubgAssumed, Init PROVE TInv
<1>1. PICK p \in Positions : gnubg = Rolled(p, 1)
  BY DEF Init
<1>2. /\ gnubg.start = p /\ gnubg.board = p.board /\ gnubg.waiting = TRUE /\ gnubg.turn = 1
      /\ gnubg = [turn |-> 1, start |-> p, board |-> p.board, waiting |-> TRUE]
  BY <1>1 DEF Rolled
<1>3. p.board \in Boards /\ p \in [board : Boards, dice : Dice \X Dice] /\ 1 \in 1..MaxTurns
  BY PositionIs, EntryAssumption
<1>4. GnubgTyped
  BY <1>2, <1>3 DEF GnubgTyped
<1>5. Typed(shown)
  BY <1>2, <1>3, SettledTyped DEF Init
<1>6. /\ queue = <<>> /\ main = <<>> /\ engine = <<>>
      /\ Len(queue) = 0 /\ DOMAIN queue = {} /\ DOMAIN main = {}
  BY EmptyList DEF Init
<1>7. 0 <= MaxQueue(p)
  BY EntryAssumption
<1> QED BY <1>2, <1>4, <1>5, <1>6, <1>7, InitIInv DEF TInv

---------------------------------------------------------------------------
(* Every step keeps the types.                                             *)

\* A press captures what is shown.
LEMMA PressTyped == ASSUME TInv, NEW press \in Presses, Press(press)
                    PROVE  /\ \A k \in DOMAIN queue' : Captured(queue'[k])
                           /\ Len(queue') <= MaxQueue(gnubg.start)
<1> DEFINE body == [press |-> press, state |-> shown]
<1>1. /\ queue' = Append(queue, body) /\ Len(queue) < MaxQueue(gnubg.start) /\ CanPress(press)
      /\ body.press = press /\ body.state = shown
  BY DEF Press
<1> HIDE DEF body
<1>2. /\ DOMAIN queue' = 1..(Len(queue) + 1) /\ IsList(queue')
      /\ DOMAIN queue = 1..Len(queue) /\ Len(queue) \in Nat
      /\ \A k \in 1..Len(queue) : queue'[k] = queue[k]
      /\ queue'[Len(queue) + 1] = body
  BY <1>1, AppendToList DEF TInv, IInv
<1>3. Captured(body)
  BY <1>1 DEF Captured, CanPress, TInv
<1>4. ASSUME NEW k \in DOMAIN queue' PROVE Captured(queue'[k])
  <2>1. k = Len(queue) + 1 \/ k \in 1..Len(queue)
    BY <1>2
  <2>2. CASE k = Len(queue) + 1
    BY <1>2, <1>3, <2>2
  <2>3. CASE k \in 1..Len(queue)
    BY <1>2, <2>3 DEF TInv
  <2> QED BY <2>1, <2>2, <2>3
<1>5. Len(queue') <= MaxQueue(gnubg.start)
  <2>1. Len(queue') = Len(queue) + 1
    BY <1>1, <1>2, LenProperties DEF IsList
  <2>2. MaxQueue(gnubg.start) \in Nat
    BY EntryAssumption DEF TInv, GnubgTyped
  <2> QED BY <1>1, <1>2, <2>1, <2>2
<1> QED BY <1>4, <1>5

\* What is taken from the queue was captured, and so is what is left.
LEMMA QueueTyped ==
  ASSUME TInv, queue # <<>>, queue' = Tail(queue)
  PROVE  /\ Captured(Head(queue)) /\ Homing(Head(queue).state)
         /\ \A k \in DOMAIN queue' : Captured(queue'[k])
         /\ Len(queue') \in Nat /\ Len(queue') = Len(queue) - 1 /\ Len(queue) \in Nat
         /\ Len(queue') <= MaxQueue(gnubg.start)
<1>1. /\ Len(queue) \in Nat \ {0} /\ DOMAIN queue = 1..Len(queue) /\ IsList(queue')
      /\ DOMAIN queue' = 1..(Len(queue) - 1)
      /\ \A k \in 1..(Len(queue) - 1) : queue'[k] = queue[k + 1]
  BY PartsOfList DEF TInv, IInv
<1>2. Head(queue) = queue[1] /\ 1 \in DOMAIN queue
  BY <1>1
<1>3. Captured(Head(queue)) /\ Homing(Head(queue).state)
  BY <1>2, HeadIsHoming DEF TInv
<1>4. ASSUME NEW k \in DOMAIN queue' PROVE Captured(queue'[k])
  BY <1>1 DEF TInv
<1>5. Len(queue') = Len(queue) - 1
  BY <1>1, LenProperties DEF IsList
<1>6. MaxQueue(gnubg.start) \in Nat
  BY EntryAssumption DEF TInv, GnubgTyped
<1> QED BY <1>1, <1>3, <1>4, <1>5, <1>6 DEF TInv

\* Undo and the swap of the dice write a typed state.
LEMMA UndoTyped == ASSUME TInv, Undo PROVE \A k \in DOMAIN main' : Typed(main'[k])
<1> DEFINE h == shown.moveHistory
           t == main'[1]
           c == Chequers(shown.oldBoard[0])
<1>1. /\ h # <<>> /\ shown.phase = "HUMAN_MOVING"
      /\ main' = <<[shown EXCEPT !.board = Last(h).board,
                                 !.remainingDice = Last(h).remainingDice,
                                 !.legalMoves = Last(h).legalMoves,
                                 !.moveHistory = Front(@)]>>
  BY DEF Undo
<1>2. /\ t.board = Last(h).board /\ t.moveHistory = Front(h)
      /\ t.remainingDice = Last(h).remainingDice /\ t.legalMoves = Last(h).legalMoves
      /\ t.phase = shown.phase /\ t.oldBoard = shown.oldBoard /\ t.originalDice = shown.originalDice
  BY <1>1 DEF TInv, IInv, Homing, Fields
<1>3. DOMAIN main' = {1}
  BY <1>1, SingletonList
<1> HIDE DEF t
<1>4. /\ Len(h) \in Nat \ {0} /\ DOMAIN h = 1..Len(h) /\ DOMAIN Front(h) = 1..(Len(h) - 1)
      /\ \A k \in 1..(Len(h) - 1) : Front(h)[k] = h[k]
  BY <1>1, PartsOfList DEF TInv, IInv, Homing
<1>5. Entering(shown)
  BY <1>1 DEF TInv, Typed
<1> HIDE DEF h
<1>6. Last(h) = h[Len(h)] /\ Len(h) \in DOMAIN h
  BY <1>4 DEF Last
<1>7. Carries(Last(h), c)
  BY <1>5, <1>6 DEF Entering, h
<1>8. ASSUME NEW k \in DOMAIN t.moveHistory PROVE Carries(t.moveHistory[k], c)
  BY <1>2, <1>4, <1>5 DEF Entering, h
<1> HIDE DEF c
<1>9. Carries(t, c) /\ t.board \in Boards
  BY <1>2, <1>7 DEF Carries, Passed, Apart
<1>10. Entering(t)
  BY <1>2, <1>5, <1>8, <1>9 DEF Entering, c
<1>11. Typed(t)
  BY <1>1, <1>2, <1>9, <1>10 DEF Typed, Phases
<1> QED BY <1>3, <1>11 DEF t

LEMMA SwapDiceTyped == ASSUME TInv, SwapDice PROVE \A k \in DOMAIN main' : Typed(main'[k])
<1> DEFINE t == main'[1]
<1>1. /\ shown.phase = "HUMAN_MOVING"
      /\ main' = <<[shown EXCEPT !.remainingDice = Reverse(@)]>>
  BY DEF SwapDice
<1>2. /\ t.board = shown.board /\ t.moveHistory = shown.moveHistory
      /\ t.remainingDice = Reverse(shown.remainingDice) /\ t.legalMoves = shown.legalMoves
      /\ t.phase = shown.phase /\ t.oldBoard = shown.oldBoard /\ t.originalDice = shown.originalDice
  BY <1>1 DEF TInv, IInv, Homing, Fields
<1>3. DOMAIN main' = {1}
  BY <1>1, SingletonList
<1> HIDE DEF t
<1>4. Entering(shown) /\ shown.board \in Boards
  BY <1>1 DEF TInv, Typed
<1>5. /\ Reverse(shown.remainingDice) \in Seq(Dice) /\ Usable(Reverse(shown.remainingDice))
      /\ Range(Reverse(shown.remainingDice)) = Range(shown.remainingDice)
  <2> DEFINE dice == shown.remainingDice
  <2>1. dice \in Seq(Dice) /\ Usable(dice)
    BY <1>4 DEF Entering, Carries
  <2>2. Len(dice) >= 2 /\ dice[1] # dice[2]
    BY DEF SwapDice
  <2>3. Len(dice) \in Nat /\ DOMAIN dice = 1..Len(dice) /\ \A j \in 1..Len(dice) : dice[j] \in Dice
    BY <2>1, LenProperties, ElementOfSeq
  <2> HIDE DEF dice
  <2>4. Len(dice) = 2
    BY <2>1, <2>2, <2>3 DEF Usable
  <2>5. \A j \in 1..Len(dice) : (Len(dice) - j) + 1 \in 1..Len(dice)
    BY <2>3
  <2>6. Reverse(dice) \in [1..Len(dice) -> Dice]
    BY <2>3, <2>5 DEF Reverse
  <2>7. Reverse(dice) \in Seq(Dice) /\ Len(Reverse(dice)) = 2 /\ DOMAIN Reverse(dice) = 1..2
    <3>1. Reverse(dice) \in Seq(Dice)
      BY <2>3, <2>6
    <3>2. DOMAIN Reverse(dice) = 1..2
      BY <2>4, <2>6
    <3> QED BY <3>1, <3>2, LenProperties
  <2>8. Reverse(dice)[1] = dice[2] /\ Reverse(dice)[2] = dice[1]
    BY <2>4 DEF Reverse
  <2>9. Range(dice) = {dice[1], dice[2]} /\ Range(Reverse(dice)) = {dice[2], dice[1]}
    BY <2>3, <2>4, <2>7, <2>8 DEF Range
  <2>10. Usable(Reverse(dice))
    BY <2>7 DEF Usable
  <2> QED BY <2>7, <2>9, <2>10 DEF dice
<1>6. Entering(t)
  BY <1>2, <1>4, <1>5 DEF Entering, Carries, Listed
<1>7. Typed(t)
  BY <1>1, <1>2, <1>4, <1>6 DEF Typed, Phases
<1> QED BY <1>3, <1>7 DEF t

\* The bodies leave typed states, whatever they captured.
LEMMA HopBodyTyped == ASSUME GnubgAssumed, TInv, HopBody PROVE Typed(shown')
<1> DEFINE s == Head(queue).state
           p == Head(queue).press
<1>1. queue # <<>> /\ queue' = Tail(queue) /\ p.op \in {"tap", "drag"}
  BY DEF HopBody
<1>2. Homing(s) /\ Captured(Head(queue))
  BY <1>1, QueueTyped
<1>3. Typed(s) /\ s.phase = "HUMAN_MOVING"
  BY <1>1, <1>2 DEF Captured
<1>4. shown' = shown \/ shown' \in Tapped(s, p.point) \/ shown' \in Dragged(s, p.from, p.to)
  BY DEF HopBody
<1> HIDE DEF s, p
<1>5. CASE shown' = shown
  BY <1>5 DEF TInv
<1>6. CASE shown' \in Tapped(s, p.point)
  BY <1>2, <1>3, <1>6, TapTyped
<1>7. CASE shown' \in Dragged(s, p.from, p.to)
  BY <1>2, <1>3, <1>7, DragTyped
<1> QED BY <1>4, <1>5, <1>6, <1>7

LEMMA GiveBodyTyped ==
  ASSUME GnubgAssumed, TInv, GiveBody
  PROVE  /\ Typed(shown')
         /\ engine' = <<>> \/ \E text : engine' = <<text>> /\ IsText(text)
<1> DEFINE s == Head(queue).state
           text == FindMove(s.oldBoard, s.board, s.originalDice[1], s.originalDice[2])
           given == IF Head(queue).press.op = "pass" THEN <<>> ELSE text
<1>1. /\ queue # <<>> /\ queue' = Tail(queue) /\ engine = <<>>
      /\ Head(queue).press.op \in {"confirm", "pass"}
      /\ \/ engine' = <<given>> /\ shown' = [shown EXCEPT !.phase = "ENGINE_THINKING"]
         \/ UNCHANGED <<engine, shown>>
  BY DEF GiveBody
<1>2. Captured(Head(queue))
  BY <1>1, QueueTyped
<1>3. Entering(s) /\ s.board \in Boards
  BY <1>1, <1>2 DEF Captured, Typed
<1>4. s.originalDice[1] \in Dice /\ s.originalDice[2] \in Dice /\ s.oldBoard \in Boards
  BY <1>3 DEF Entering
<1> HIDE DEF s
<1>5. IsText(given)
  BY <1>3, <1>4 DEF GnubgAssumed, IsText
<1> HIDE DEF given
<1>6. CASE engine' = <<given>> /\ shown' = [shown EXCEPT !.phase = "ENGINE_THINKING"]
  <2>1. shown'.phase = "ENGINE_THINKING" /\ shown'.board = shown.board
    BY <1>6 DEF TInv, IInv, Homing, Fields
  <2>2. shown.board \in Boards
    BY DEF TInv, Typed
  <2>3. Typed(shown')
    BY <2>1, <2>2 DEF Typed, Phases
  <2> QED BY <1>5, <1>6, <2>3
<1>7. CASE UNCHANGED <<engine, shown>>
  BY <1>1, <1>7 DEF TInv
<1> QED BY <1>1, <1>6, <1>7

LEMMA GnubgAnswersTyped == ASSUME GnubgAssumed, TInv, GnubgAnswers
                           PROVE  GnubgTyped' /\ Typed(shown') /\ gnubg'.start = gnubg.start
<1> DEFINE new == GiveMove(engine[1], gnubg.board, gnubg.start.dice[1], gnubg.start.dice[2])
<1>1. /\ engine # <<>> /\ shown' = Settled(gnubg')
      /\ gnubg' = IF gnubg.waiting /\ new # NoBoard
                  THEN [gnubg EXCEPT !.board = new, !.waiting = FALSE] ELSE gnubg
  BY DEF GnubgAnswers
<1>2. GnubgTyped
  BY DEF TInv
<1>3. /\ gnubg \in [turn : 1..MaxTurns, start : [board : Boards, dice : Dice \X Dice],
                    board : Boards, waiting : BOOLEAN]
      /\ gnubg.start \in Positions /\ gnubg.board \in Boards
  BY <1>2 DEF GnubgTyped
<1>4. gnubg.start.dice[1] \in Dice /\ gnubg.start.dice[2] \in Dice
  BY <1>3, PositionIs
<1>5. IsText(engine[1])
  <2>1. PICK text : engine = <<text>> /\ IsText(text)
    BY <1>1 DEF TInv
  <2> QED BY <2>1
<1>6. new \in Boards \cup {NoBoard}
  BY <1>3, <1>4, <1>5 DEF IsText
<1> HIDE DEF new
<1>7. GnubgTyped' /\ gnubg'.start = gnubg.start
  <2>1. CASE gnubg.waiting /\ new # NoBoard
    <3>1. new \in Boards /\ gnubg' = [gnubg EXCEPT !.board = new, !.waiting = FALSE]
      BY <1>1, <1>6, <2>1
    <3>2. gnubg'.start = gnubg.start /\ gnubg'.waiting = FALSE
      BY <1>3, <3>1
    <3>3. gnubg' \in [turn : 1..MaxTurns, start : [board : Boards, dice : Dice \X Dice],
                      board : Boards, waiting : BOOLEAN]
      BY <1>3, <3>1
    <3> QED BY <1>3, <3>2, <3>3 DEF GnubgTyped
  <2>2. CASE ~(gnubg.waiting /\ new # NoBoard)
    BY <1>1, <1>2, <2>2 DEF GnubgTyped
  <2> QED BY <2>1, <2>2
<1>8. /\ gnubg'.board \in Boards /\ gnubg'.start \in Positions
      /\ gnubg'.waiting => gnubg'.board = gnubg'.start.board
  BY <1>7 DEF GnubgTyped
<1>9. Typed(shown')
  BY <1>1, <1>8, SettledTyped
<1> QED BY <1>7, <1>9

LEMMA RollBodyTyped == ASSUME GnubgAssumed, TInv, RollBody
                       PROVE  /\ GnubgTyped' /\ Typed(shown')
                              /\ Len(queue') <= MaxQueue(gnubg'.start)
<1>1. /\ queue # <<>> /\ queue' = Tail(queue) /\ shown' = Settled(gnubg')
      /\ \/ gnubg' = gnubg
         \/ gnubg.turn < MaxTurns /\ \E p \in Replies : gnubg' = Rolled(p, gnubg.turn + 1)
  BY DEF RollBody
<1>2. /\ Len(queue') \in Nat /\ Len(queue') = Len(queue) - 1 /\ Len(queue) \in Nat
      /\ Len(queue') <= MaxQueue(gnubg.start)
  BY <1>1, QueueTyped
<1>3. GnubgTyped /\ Len(queue) <= MaxQueue(gnubg.start)
  BY DEF TInv
<1>4. GnubgTyped' /\ Len(queue') <= MaxQueue(gnubg'.start)
  <2>1. CASE gnubg' = gnubg
    BY <1>2, <1>3, <2>1 DEF GnubgTyped
  <2>2. ASSUME NEW p \in Replies, gnubg' = Rolled(p, gnubg.turn + 1), gnubg.turn < MaxTurns
        PROVE  GnubgTyped' /\ Len(queue') <= MaxQueue(gnubg'.start)
    <3>1. gnubg' = [turn |-> gnubg.turn + 1, start |-> p, board |-> p.board, waiting |-> TRUE]
      BY <2>2 DEF Rolled
    <3>2. p \in Positions /\ gnubg.start \in Positions
      BY <1>3, EntryAssumption DEF GnubgTyped
    <3>3. p \in [board : Boards, dice : Dice \X Dice] /\ p.board \in Boards
      BY <3>2, PositionIs
    <3>4. gnubg.turn + 1 \in 1..MaxTurns
      BY <1>3, <2>2, EntryAssumption DEF GnubgTyped
    <3>5. GnubgTyped'
      BY <3>1, <3>2, <3>3, <3>4 DEF GnubgTyped
    <3>6. MaxQueue(gnubg.start) \in Nat /\ MaxQueue(p) \in Nat
          /\ MaxQueue(gnubg.start) <= MaxQueue(p) + 1
      BY <3>2, EntryAssumption
    <3>7. Len(queue') <= MaxQueue(p)
      BY <1>2, <1>3, <3>6
    <3> QED BY <3>1, <3>5, <3>7
  <2> QED BY <1>1, <2>1, <2>2
<1>5. /\ gnubg'.board \in Boards /\ gnubg'.start \in Positions
      /\ gnubg'.waiting => gnubg'.board = gnubg'.start.board
  BY <1>4 DEF GnubgTyped
<1>6. Typed(shown')
  BY <1>1, <1>5, SettledTyped
<1> QED BY <1>4, <1>6

\* Every step keeps the types.
LEMMA StepKeepsTInv == ASSUME GnubgAssumed, TInv, [Next]_vars PROVE TInv'
<1>0. IInv'
  BY StepKeepsIInv DEF TInv
<1>1. ASSUME NEW press \in Presses, Press(press) PROVE TInv'
  BY <1>0, <1>1, PressTyped DEF Press, TInv, GnubgTyped
<1>2. CASE Undo
  BY <1>0, <1>2, UndoTyped DEF Undo, TInv, GnubgTyped
<1>3. CASE SwapDice
  BY <1>0, <1>3, SwapDiceTyped DEF SwapDice, TInv, GnubgTyped
<1>4. CASE MainWrites
  <2>1. main # <<>> /\ shown' = main[1] /\ main' = <<>> /\ UNCHANGED <<gnubg, queue, engine>>
    BY <1>4 DEF MainWrites
  <2>2. 1 \in DOMAIN main
    BY <2>1, PartsOfList DEF TInv, IInv
  <2>3. Typed(shown') /\ DOMAIN main' = {}
    BY <2>1, <2>2, EmptyList DEF TInv
  <2> QED BY <1>0, <2>1, <2>3 DEF TInv, GnubgTyped
<1>5. CASE HopBody
  <2>1. queue # <<>> /\ queue' = Tail(queue) /\ UNCHANGED <<gnubg, main, engine>>
    BY <1>5 DEF HopBody
  <2>2. Typed(shown')
    BY <1>5, HopBodyTyped
  <2> QED BY <1>0, <2>1, <2>2, QueueTyped DEF TInv, GnubgTyped
<1>6. CASE GiveBody
  <2>1. queue # <<>> /\ queue' = Tail(queue) /\ UNCHANGED <<gnubg, main>>
    BY <1>6 DEF GiveBody
  <2>2. Typed(shown') /\ (engine' = <<>> \/ \E text : engine' = <<text>> /\ IsText(text))
    BY <1>6, GiveBodyTyped
  <2> QED BY <1>0, <2>1, <2>2, QueueTyped DEF TInv, GnubgTyped
<1>7. CASE GnubgAnswers
  <2>1. engine' = <<>> /\ UNCHANGED <<queue, main>>
    BY <1>7 DEF GnubgAnswers
  <2>2. GnubgTyped' /\ Typed(shown') /\ gnubg'.start = gnubg.start
    BY <1>7, GnubgAnswersTyped
  <2> QED BY <1>0, <2>1, <2>2 DEF TInv
<1>8. CASE RollBody
  <2>1. queue # <<>> /\ queue' = Tail(queue) /\ UNCHANGED <<main, engine>>
    BY <1>8 DEF RollBody
  <2>2. GnubgTyped' /\ Typed(shown') /\ Len(queue') <= MaxQueue(gnubg'.start)
    BY <1>8, RollBodyTyped
  <2>3. \A k \in DOMAIN queue' : Captured(queue'[k])
    BY <2>1, QueueTyped
  <2> QED BY <1>0, <2>1, <2>2, <2>3 DEF TInv
<1>9. CASE UNCHANGED vars
  BY <1>0, <1>9 DEF vars, TInv, GnubgTyped
<1> QED
  BY <1>1, <1>2, <1>3, <1>4, <1>5, <1>6, <1>7, <1>8, <1>9 DEF Next

\* The types imply the invariant that is checked.
LEMMA TypedIsTypeOK == ASSUME TInv PROVE TypeOK
<1>1. /\ gnubg \in [turn : 1..MaxTurns,
                    start : [board : Boards, dice : (1..NFaces) \X (1..NFaces)],
                    board : Boards, waiting : BOOLEAN]
  BY DEF TInv, GnubgTyped, Dice
<1>2. shown.phase \in Phases /\ shown.board \in Boards
      /\ (shown.phase = "HUMAN_MOVING" =>
            Chequers(shown.board[0]) = Chequers(shown.oldBoard[0]))
  BY DEF TInv, Typed, Entering, Carries, Passed
<1>3. Len(queue) <= MaxQueue(gnubg.start) /\ Len(main) <= 1
  BY DEF TInv, IInv
<1>4. Len(engine) <= 1
  <2>1. CASE engine = <<>>
    BY <2>1, EmptyList
  <2>2. ASSUME NEW text, engine = <<text>> PROVE Len(engine) <= 1
    BY <2>2, SingletonList
  <2> QED BY <2>1, <2>2 DEF TInv
<1> QED BY <1>1, <1>2, <1>3, <1>4 DEF TypeOK, Phases

---------------------------------------------------------------------------

\* The variables stay in their types.  A board that is shown is one that gnubg or a chain of
\* legal hops has made, also when taps and drags of one state overtake each other: a chequer
\* hit on the way is on the bar, never lost, on any board and with any number of presses.
THEOREM TypeCorrect == ASSUME GnubgAssumed PROVE Spec => []TypeOK
<1>1. Init => TInv
  BY InitTInv
<1>2. TInv /\ [Next]_vars => TInv'
  BY StepKeepsTInv
<1>3. TInv => TypeOK
  BY TypedIsTypeOK
<1> QED BY <1>1, <1>2, <1>3, PTL DEF Spec

---------------------------------------------------------------------------
(* The preview and the drag.                                               *)

\* A legal hop on the board leaves the chequer where it leads, and the opponent no more
\* chequers on any point.
LEMMA OneHop ==
  ASSUME NEW b, Apart(b), NEW src \in 0 .. NPoints - 1, NEW d \in Dice, src - d >= 0,
         b[1][src] >= 1, b[0][Mirror(src - d)] < 2
  PROVE  LET n == apply_sub_move(b, src, d) IN
         /\ n # NoBoard /\ n[1][src - d] >= 1
         /\ \A x \in 0 .. NPoints - 1 : n[0][x] <= b[0][x]
<1> DEFINE dest == src - d
           m == Mirror(dest)
           n == apply_sub_move(b, src, d)
<1>1. /\ src \in Slots /\ d \in 1..NFaces /\ NPoints \in Nat /\ Bar \in Slots
      /\ \A x \in 0 .. NPoints - 1 : x \in Slots /\ x # Bar
  BY BoardAssumption DEF Slots, Bar, Dice
<1>2. dest \in 0 .. NPoints - 1 /\ m \in 0 .. NPoints - 1 /\ dest < src /\ dest # src
  BY <1>1, Destination
<1>3. /\ b = [s \in 0..1 |-> b[s]] /\ b[0] \in [Slots -> Nat] /\ b[1] \in [Slots -> Nat]
  BY DEF Apart, Boards
<1>4. LegalMove(b, src, d)
  BY <1>2 DEF LegalMove
<1> DEFINE lifted == [b EXCEPT ![1][src] = @ - 1]
           hit == [lifted EXCEPT ![1][dest] = 1, ![0][m] = 0, ![0][Bar] = @ + 1]
           put == [lifted EXCEPT ![1][dest] = @ + 1]
<1>5. b[0][m] \in Nat /\ b[0][m] < 2
  BY <1>1, <1>2, <1>3
<1>6. ApplySubMove(b, src, d) = [rc |-> 0, board |-> IF b[0][m] = 1 THEN hit ELSE put]
  <2> HIDE DEF hit, put, lifted
  <2>1. /\ ~(b[0][m] > 1) /\ ~(dest < 0)
        /\ src \in Slots /\ dest < src /\ b[1][src] >= 1
    BY <1>1, <1>2, <1>5
  <2> HIDE DEF dest, m
  <2>2. CASE b[0][m] = 1
    BY <2>1, <2>2 DEF ApplySubMove, dest, m, lifted, hit, put
  <2>3. CASE b[0][m] # 1
    BY <2>1, <2>3 DEF ApplySubMove, dest, m, lifted, hit, put
  <2> QED BY <2>2, <2>3
<1>7. n = IF b[0][m] = 1 THEN hit ELSE put
  BY <1>1, <1>4, <1>6 DEF apply_sub_move
<1>8. /\ lifted[0] = b[0] /\ lifted[1] = [b[1] EXCEPT ![src] = @ - 1] /\ DOMAIN lifted = 0..1
      /\ lifted[1] \in [Slots -> Int]
  BY <1>1, <1>3
<1> HIDE DEF lifted, n
<1>9. hit[1][dest] = 1 /\ hit[0] = [b[0] EXCEPT ![m] = 0, ![Bar] = b[0][Bar] + 1]
  BY <1>1, <1>2, <1>3, <1>8
<1>10. put[1][dest] = b[1][dest] + 1 /\ put[0] = b[0]
  BY <1>1, <1>2, <1>3, <1>8
<1>13. DOMAIN hit = 0..1 /\ DOMAIN put = 0..1
  BY <1>8
<1> HIDE DEF hit, put
<1>11. n[1][dest] >= 1
  BY <1>1, <1>2, <1>3, <1>7, <1>9, <1>10
<1>12. \A x \in 0 .. NPoints - 1 : n[0][x] <= b[0][x]
  BY <1>1, <1>2, <1>3, <1>5, <1>7, <1>9, <1>10
<1>14. n # NoBoard
  <2>1. DOMAIN n = 0..1 /\ 0 \in 0..1
    BY <1>7, <1>13
  <2> QED BY <2>1, EmptyList DEF NoBoard
<1> QED BY <1>11, <1>12, <1>14 DEF n


\* A chequer's hops one after the other, from origin, on points of the board.
Chain(h, origin) ==
    \A i \in 1..Len(h) : /\ h[i][1] = IF i = 1 THEN origin ELSE h[i - 1][2]
                         /\ h[i][1] \in 0 .. NPoints - 1 /\ h[i][2] \in 0 .. NPoints - 1

\* They are hops of a play for this board and these dice, no more of them than dice.
Playable(h, b, dice) ==
    /\ IsList(h) /\ Len(h) <= Len(dice)
    /\ \A i \in 1..Len(h) : h[i][1] - h[i][2] \in Range(dice) /\ b[0][Mirror(h[i][2])] < 2
    /\ Len(dice) = 2 /\ dice[1] # dice[2] =>
         \A i, j \in 1..Len(h) : i # j => h[i][1] - h[i][2] # h[j][1] - h[j][2]

\* What is true after i hops of such a chain, walked from a state of the entry.
After(a, i, s, h, origin) ==
    /\ a.ok
    /\ \A x \in 0 .. NPoints - 1 : a.board[0][x] <= s.board[0][x]
    /\ a.board[1][IF i = 0 THEN origin ELSE h[i][2]] >= 1
    /\ Len(a.left) = Len(s.remainingDice) - i /\ Range(a.left) \subseteq Range(s.remainingDice)
    /\ \A d \in Range(s.remainingDice) :
         (\A j \in 1..i : h[j][1] - h[j][2] # d) => d \in Range(a.left)

\* The die of the next hop is left.
LEMMA DieLeft ==
  ASSUME NEW s, s.remainingDice \in Seq(Dice), Usable(s.remainingDice), NEW h, NEW origin,
         Playable(h, s.board, s.remainingDice), NEW i \in 1..Len(h), NEW a,
         After(a, i - 1, s, h, origin), a.left \in Seq(Dice)
  PROVE  h[i][1] - h[i][2] \in Range(a.left)
<1> DEFINE dice == s.remainingDice
           d == h[i][1] - h[i][2]
<1>1. Len(dice) \in Nat /\ DOMAIN dice = 1..Len(dice) /\ Len(h) \in Nat
      /\ Len(a.left) \in Nat /\ DOMAIN a.left = 1..Len(a.left)
  BY LenProperties DEF Playable, IsList
<1>2. d \in Range(dice) /\ Len(h) <= Len(dice) /\ Range(a.left) \subseteq Range(dice)
  BY DEF Playable, After
<1>3. CASE \A x, y \in DOMAIN dice : dice[x] = dice[y]
  <2>1. Len(a.left) >= 1
    BY <1>1, <1>2 DEF After
  <2>2. 1 \in DOMAIN a.left
    BY <1>1, <2>1
  <2>3. a.left[1] \in Range(a.left) /\ a.left[1] \in Range(dice)
    BY <1>2, <2>2 DEF Range
  <2>4. \A x, y \in Range(dice) : x = y
    BY <1>3 DEF Range
  <2> HIDE DEF d, dice
  <2> QED BY <1>2, <2>3, <2>4 DEF d
<1>4. CASE Len(dice) = 2 /\ dice[1] # dice[2]
  <2>1. \A j \in 1 .. i - 1 : j \in 1..Len(h) /\ j # i
    BY <1>1
  <2>2. \A j \in 1 .. i - 1 : h[j][1] - h[j][2] # d
    BY <1>4, <2>1 DEF Playable
  <2> QED BY <1>2, <2>2 DEF After
<1>5. Len(dice) = 2 /\ dice[1] = dice[2] => \A x, y \in DOMAIN dice : dice[x] = dice[y]
  BY <1>1
<1> QED BY <1>3, <1>4, <1>5 DEF Usable

\* The dice leave a chequer a chain of hops of a play: each can be made.
LEMMA ChainWalks ==
  ASSUME NEW s, NEW c, Passed(s.board, c), s.remainingDice \in Seq(Dice), Usable(s.remainingDice),
         NEW h, NEW origin \in 0 .. NPoints - 1, s.board[1][origin] >= 1,
         Chain(h, origin), Playable(h, s.board, s.remainingDice)
  PROVE  Walked(s, h).ok
<1> DEFINE dice == s.remainingDice
           n == Len(h)
<1>1. PICK a : WalkBy(a, s, c, h)
  BY WalkFold DEF Playable
<1>2. n \in Nat /\ Len(dice) \in Nat /\ Range(dice) \subseteq Dice /\ NFaces \in Nat /\ NPoints \in Nat
  BY LenProperties, RangeOfSeq, BoardAssumption DEF Playable, IsList
<1>3. After(a[0], 0, s, h, origin)
  <2>1. a[0].ok = TRUE /\ a[0].board = s.board /\ a[0].left = dice
    BY <1>1 DEF WalkBy
  <2>2. s.board[0] \in [Slots -> Nat] /\ \A x \in 0 .. NPoints - 1 : x \in Slots
    BY <1>2 DEF Passed, Apart, Boards, Slots
  <2>3. \A x \in 0 .. NPoints - 1 : s.board[0][x] <= s.board[0][x]
    BY <2>2
  <2>4. Len(dice) = Len(dice) - 0
    BY <1>2
  <2> QED BY <2>1, <2>3, <2>4 DEF After
<1>4. ASSUME NEW i \in 1..n, After(a[i - 1], i - 1, s, h, origin)
      PROVE  After(a[i], i, s, h, origin)
  <2> DEFINE acc == a[i - 1]
             hop == h[i]
             d == h[i][1] - h[i][2]
             w == Without(acc.left, FirstAt(acc.left, d))
             new == apply_sub_move(acc.board, h[i][1], d)
  <2>1. /\ acc.ok /\ Passed(acc.board, c) /\ acc.left \in Seq(Dice)
        /\ a[i] = Walk(acc, hop) /\ i - 1 \in 0..n
    BY <1>1, <1>2, <1>4 DEF WalkBy, After
  <2>2. d \in Range(acc.left) /\ d \in Dice
    BY <1>4, <2>1, RangeOfSeq, DieLeft
  <2>3. /\ h[i][1] \in 0 .. NPoints - 1 /\ h[i][2] \in 0 .. NPoints - 1 /\ h[i][1] - d = h[i][2]
        /\ h[i][1] = IF i - 1 = 0 THEN origin ELSE h[i - 1][2]
    BY <1>2 DEF Chain
  <2>4. acc.board[1][h[i][1]] >= 1
    BY <1>4, <2>3 DEF After
  <2>5. acc.board[0][Mirror(h[i][2])] < 2
    <3>1. Mirror(h[i][2]) \in 0 .. NPoints - 1
      BY <1>2, <2>3 DEF Mirror
    <3>2. acc.board[0][Mirror(h[i][2])] <= s.board[0][Mirror(h[i][2])]
      BY <1>4, <3>1 DEF After
    <3>3. s.board[0][Mirror(h[i][2])] < 2
      BY DEF Playable
    <3>4. /\ acc.board[0][Mirror(h[i][2])] \in Nat /\ s.board[0][Mirror(h[i][2])] \in Nat
      <4>1. Mirror(h[i][2]) \in Slots
        BY <1>2, <3>1 DEF Slots
      <4>2. acc.board \in [0..1 -> [Slots -> Nat]] /\ s.board \in [0..1 -> [Slots -> Nat]]
        BY <2>1 DEF Passed, Apart, Boards
      <4> QED BY <4>1, <4>2
    <3> QED BY <3>2, <3>3, <3>4
  <2> HIDE DEF acc, d
  <2>6. /\ new # NoBoard /\ new[1][h[i][2]] >= 1
        /\ \A x \in 0 .. NPoints - 1 : new[0][x] <= acc.board[0][x]
    <3>1. Apart(acc.board) /\ h[i][1] - d >= 0
      BY <2>1, <2>3 DEF Passed
    <3> QED BY <2>2, <2>3, <2>4, <2>5, <3>1, OneHop
  <2>7. Useful(acc, hop) = {d}
    BY <2>2, <2>3, <2>6 DEF Useful, d
  <2>8. Smallest(acc, hop) = d
    <3>1. d <= d
      BY <1>2, <2>2 DEF Dice
    <3> QED BY <2>7, <3>1 DEF Smallest
  <2>9. a[i] = [ok |-> TRUE, board |-> new, left |-> w]
    BY <2>1, <2>7, <2>8 DEF Walk
  <2>10. /\ Len(acc.left) \in Nat /\ Len(w) = Len(acc.left) - 1 /\ Range(w) \subseteq Range(acc.left)
         /\ Range(acc.left) \subseteq Range(w) \cup {d}
    BY <2>1, <2>2, FirstAtIs, WithoutTyped
  <2> HIDE DEF new, w
  <2>11. /\ Len(acc.left) = Len(dice) - (i - 1) /\ Range(acc.left) \subseteq Range(dice)
         /\ \A x \in 0 .. NPoints - 1 : acc.board[0][x] <= s.board[0][x]
    BY <1>4 DEF After, acc
  <2>12. ASSUME NEW x \in 0 .. NPoints - 1 PROVE new[0][x] <= s.board[0][x]
    <3>1. new[0][x] <= acc.board[0][x] /\ acc.board[0][x] <= s.board[0][x]
      BY <2>6, <2>11
    <3>2. new[0][x] \in Nat /\ acc.board[0][x] \in Nat /\ s.board[0][x] \in Nat
      <4>1. x \in Slots
        BY <1>2 DEF Slots
      <4>2. Passed(a[i].board, c)
        BY <1>1, <1>2 DEF WalkBy
      <4>3. /\ acc.board \in [0..1 -> [Slots -> Nat]] /\ s.board \in [0..1 -> [Slots -> Nat]]
            /\ new \in [0..1 -> [Slots -> Nat]]
        BY <2>1, <2>9, <4>2 DEF Passed, Apart, Boards
      <4> QED BY <4>1, <4>3
    <3> QED BY <3>1, <3>2
  <2>13. Len(w) = Len(dice) - i /\ Range(w) \subseteq Range(dice)
    BY <1>2, <2>10, <2>11
  <2>14. ASSUME NEW e \in Range(dice), \A j \in 1..i : h[j][1] - h[j][2] # e PROVE e \in Range(w)
    <3>1. e # d /\ \A j \in 1 .. i - 1 : h[j][1] - h[j][2] # e
      BY <1>2, <2>14 DEF d
    <3>2. e \in Range(acc.left)
      BY <1>4, <3>1 DEF After, acc
    <3> QED BY <2>10, <3>1, <3>2
  <2>15. i # 0
    BY <1>2
  <2> QED BY <2>6, <2>9, <2>12, <2>13, <2>14, <2>15 DEF After
<1>5. After(a[n], n, s, h, origin)
  <2> DEFINE G == {i \in Nat : i <= n => After(a[i], i, s, h, origin)}
  <2>1. 0 \in G
    BY <1>3
  <2>2. ASSUME NEW i \in Nat, i \in G PROVE i + 1 \in G
    <3> SUFFICES ASSUME i + 1 <= n PROVE After(a[i + 1], i + 1, s, h, origin)
      OBVIOUS
    <3>1. i + 1 \in 1..n /\ (i + 1) - 1 = i /\ After(a[i], i, s, h, origin)
      BY <1>2, <2>2
    <3> QED BY <1>4, <3>1
  <2> HIDE DEF G
  <2>3. Nat \subseteq G
    BY <2>1, <2>2, SetInduction
  <2> QED BY <1>2, <2>3 DEF G
<1> QED BY <1>1, <1>5 DEF WalkBy, After

\* What is true of a play followed for k hops: of the way w to a point, and of the points l
\* that are lit.
FollowedTo(w, l, an, origin, to, k) ==
    LET h == w.hops IN
    /\ IsList(h) /\ Len(h) <= k
    /\ \A i \in 1..Len(h) : /\ h[i][1] = IF i = 1 THEN origin ELSE h[i - 1][2]
                            /\ \E j \in i .. k - (Len(h) - i) : h[i] = an[j]
    /\ w.here = IF h = <<>> THEN origin ELSE h[Len(h)][2]
    /\ l.lit \subseteq 1..NPoints
    /\ w.reached => h # <<>> /\ w.here = to - 1
    /\ ~w.reached => l.here = w.here /\ to \notin l.lit

\* The two folds agree on one hop more.
LEMMA OneFollowed ==
  ASSUME NEW an, IsList(an), NEW origin, NEW to, NEW k \in Nat, k + 1 \in 1..Len(an),
         an[k + 1][2] \in -1 .. NPoints - 1, NEW w, NEW l, FollowedTo(w, l, an, origin, to, k),
         to \in Int, w.reached \in BOOLEAN
  PROVE  FollowedTo(Followed(w, an[k + 1], to - 1), Lit(l, an[k + 1]), an, origin, to, k + 1)
<1> DEFINE h == w.hops
           hop == an[k + 1]
           v == Followed(w, hop, to - 1)
           m == Lit(l, hop)
<1>1. /\ IsList(h) /\ Len(h) <= k /\ l.lit \subseteq 1..NPoints
      /\ w.here = IF h = <<>> THEN origin ELSE h[Len(h)][2]
      /\ w.reached => h # <<>> /\ w.here = to - 1
      /\ ~w.reached => l.here = w.here /\ to \notin l.lit
  BY DEF FollowedTo
<1>2. \A i \in 1..Len(h) : /\ h[i][1] = IF i = 1 THEN origin ELSE h[i - 1][2]
                           /\ \E j \in i .. k - (Len(h) - i) : h[i] = an[j]
  BY DEF FollowedTo
<1>3. Len(h) \in Nat /\ NPoints \in Nat
  BY <1>1, LenProperties, BoardAssumption DEF IsList
<1>4. m.lit \subseteq 1..NPoints
  <2>1. hop[2] + 1 \in 0..NPoints
    BY <1>3
  <2> HIDE DEF hop
  <2>2. {hop[2] + 1} \ {0} \subseteq 1..NPoints
    BY <1>3, <2>1
  <2> QED BY <1>1, <2>2 DEF Lit
<1>5. ASSUME NEW i \in 1..Len(h)
      PROVE  \E j \in i .. (k + 1) - (Len(h) - i) : h[i] = an[j]
  <2>1. PICK j \in i .. k - (Len(h) - i) : h[i] = an[j]
    BY <1>2
  <2>2. j \in i .. (k + 1) - (Len(h) - i)
    BY <1>3, <2>1
  <2> QED BY <2>1, <2>2
<1>6. CASE w.reached
  <2>1. v = w
    BY <1>6 DEF Followed
  <2>2. Len(h) <= k + 1
    BY <1>1, <1>3
  <2> HIDE DEF v, m
  <2> QED BY <1>1, <1>2, <1>4, <1>5, <1>6, <2>1, <2>2 DEF FollowedTo, v, m
<1>7. CASE ~w.reached /\ hop[1] # w.here
  <2>1. v = w /\ m = l
    BY <1>1, <1>7 DEF Followed, Lit
  <2>2. Len(h) <= k + 1
    BY <1>1, <1>3
  <2> HIDE DEF v, m
  <2> QED BY <1>1, <1>2, <1>4, <1>5, <1>7, <2>1, <2>2 DEF FollowedTo, v, m
<1>8. CASE ~w.reached /\ hop[1] = w.here
  <2> DEFINE g == Append(h, hop)
  <2>1. /\ v = [here |-> hop[2], hops |-> g, reached |-> hop[2] = to - 1]
        /\ m = [here |-> hop[2], lit |-> l.lit \cup ({hop[2] + 1} \ {0})]
    BY <1>1, <1>8 DEF Followed, Lit
  <2>2. /\ IsList(g) /\ DOMAIN g = 1..(Len(h) + 1) /\ g[Len(h) + 1] = hop
        /\ \A i \in 1..Len(h) : g[i] = h[i]
    BY <1>1, AppendToList
  <2> HIDE DEF g, v, m, h
  <2>3. Len(g) = Len(h) + 1 /\ g # <<>>
    BY <1>3, <2>2, EmptyList, LenProperties DEF IsList
  <2>4. Len(g) <= k + 1
    BY <1>1, <1>3, <2>3
  <2>5. ASSUME NEW i \in 1..Len(g)
        PROVE  /\ g[i][1] = IF i = 1 THEN origin ELSE g[i - 1][2]
               /\ \E j \in i .. (k + 1) - (Len(g) - i) : g[i] = an[j]
    <3>1. CASE i \in 1..Len(h)
      <4>3. i # 1 => i - 1 \in 1..Len(h)
        BY <1>3, <3>1
      <4>1. g[i] = h[i] /\ (i # 1 => g[i - 1] = h[i - 1])
        <5>1. g[i] = h[i]
          BY <2>2, <3>1
        <5>2. ASSUME i # 1 PROVE g[i - 1] = h[i - 1]
          BY <2>2, <4>3, <5>2
        <5> QED BY <5>1, <5>2
      <4>2. k - (Len(h) - i) = (k + 1) - (Len(g) - i)
        BY <1>3, <2>3
      <4>4. h[i][1] = IF i = 1 THEN origin ELSE h[i - 1][2]
        BY <1>2, <3>1
      <4>5. PICK j \in i .. k - (Len(h) - i) : h[i] = an[j]
        BY <1>2, <3>1
      <4>6. j \in i .. (k + 1) - (Len(g) - i) /\ g[i] = an[j]
        BY <4>1, <4>2, <4>5
      <4>7. g[i][1] = IF i = 1 THEN origin ELSE g[i - 1][2]
        BY <4>1, <4>4
      <4> QED BY <4>6, <4>7
    <3>2. CASE i = Len(h) + 1
      <4>1. g[i] = hop /\ k + 1 \in i .. (k + 1) - (Len(g) - i)
        BY <1>3, <2>2, <2>3, <2>4, <3>2
      <4>2. hop[1] = IF i = 1 THEN origin ELSE g[i - 1][2]
        <5>1. CASE h = <<>>
          BY <1>1, <1>8, <3>2, <5>1, EmptyList
        <5>2. CASE h # <<>>
          <6>1. Len(h) \in 1..Len(h) /\ i # 1 /\ i - 1 = Len(h)
            BY <1>1, <1>3, <3>2, <5>2, PartsOfList
          <6>2. g[i - 1] = h[Len(h)]
            BY <2>2, <6>1
          <6> QED BY <1>1, <1>8, <5>2, <6>1, <6>2
        <5> QED BY <5>1, <5>2
      <4> QED BY <4>1, <4>2 DEF hop
    <3> QED BY <1>3, <2>3, <3>1, <3>2
  <2>6. hop[2] # to - 1 => to \notin m.lit
    BY <1>1, <1>8, <2>1 DEF hop
  <2>7. /\ v.hops = g /\ v.here = hop[2] /\ m.here = hop[2] /\ v.reached = (hop[2] = to - 1)
    BY <2>1
  <2>8. g[Len(g)] = hop
    BY <2>2, <2>3
  <2>9. v.reached => v.here = to - 1
    BY <2>7
  <2>10. ~v.reached => to \notin m.lit
    BY <2>6, <2>7
  <2>11. v.reached => v.hops # <<>> /\ v.here = to - 1
    BY <2>3, <2>7, <2>9
  <2>12. ~v.reached => m.here = v.here /\ to \notin m.lit
    BY <2>7, <2>10
  <2>13. v.here = IF v.hops = <<>> THEN origin ELSE v.hops[Len(v.hops)][2]
    BY <2>3, <2>7, <2>8
  <2>14. IsList(v.hops) /\ Len(v.hops) <= k + 1
    BY <2>2, <2>4, <2>7
  <2>15. \A i \in 1..Len(v.hops) :
            /\ v.hops[i][1] = IF i = 1 THEN origin ELSE v.hops[i - 1][2]
            /\ \E j \in i .. (k + 1) - (Len(v.hops) - i) : v.hops[i] = an[j]
    BY <2>5, <2>7
  <2>16. FollowedTo(v, m, an, origin, to, k + 1)
    BY <1>4, <2>11, <2>12, <2>13, <2>14, <2>15 DEF FollowedTo
  <2> QED BY <2>16 DEF v, m
<1> QED BY <1>6, <1>7, <1>8 DEF v, m, hop

\* So they agree after each of the hops the preview looks at.
LEMMA FollowedAlong ==
  ASSUME NEW an, IsList(an), \A i \in DOMAIN an : an[i][2] \in -1 .. NPoints - 1,
         NEW origin, NEW to \in Int, NEW m \in Nat, m <= Len(an),
         NEW f, WayBy(f, an, origin, to - 1), NEW g, LitBy(g, SubSeq(an, 1, m), origin)
  PROVE  FollowedTo(f[m], g[m], an, origin, to, m)
<1> DEFINE q == SubSeq(an, 1, m)
           G == {k \in Nat : k <= m => FollowedTo(f[k], g[k], an, origin, to, k)}
<1>1. Len(an) \in Nat /\ DOMAIN an = 1..Len(an) /\ \A i \in 1..Len(an) : an[i] \in Range(an)
  BY LenProperties DEF Range, IsList
<1>2. Len(q) = m /\ \A i \in 1..m : q[i] = an[i]
  <2>1. \A i \in 1..m : an[i] \in Range(an)
    BY <1>1
  <2>2. Len(q) = IF 1 <= m THEN m - 1 + 1 ELSE 0
    BY <2>1, SubSeqProperties
  <2>3. \A i \in 1 .. m - 1 + 1 : q[i] = an[1 + i - 1]
    BY <2>1, SubSeqProperties
  <2> HIDE DEF q
  <2>4. Len(q) = m
    BY <2>2
  <2>5. \A i \in 1..m : i \in 1 .. m - 1 + 1 /\ 1 + i - 1 = i
    OBVIOUS
  <2> QED BY <2>3, <2>4, <2>5
<1> HIDE DEF q
<1>3. 0 \in G
  <2>1. f[0] = [here |-> origin, hops |-> <<>>, reached |-> FALSE]
    BY DEF WayBy
  <2>2. g[0] = [here |-> origin, lit |-> {}]
    BY DEF LitBy
  <2>3. FollowedTo(f[0], g[0], an, origin, to, 0)
    BY <2>1, <2>2, EmptyList DEF FollowedTo
  <2> QED BY <2>3
<1>4. ASSUME NEW k \in Nat, k \in G PROVE k + 1 \in G
  <2> SUFFICES ASSUME k + 1 <= m PROVE FollowedTo(f[k + 1], g[k + 1], an, origin, to, k + 1)
    OBVIOUS
  <2>1. k + 1 \in 1..m /\ k + 1 \in 1..Len(an) /\ k \in 0..Len(an) /\ (k + 1) - 1 = k
    BY <1>1
  <2>2. FollowedTo(f[k], g[k], an, origin, to, k)
    BY <1>4
  <2>3. f[k + 1] = Followed(f[k], an[k + 1], to - 1) /\ f[k].reached \in BOOLEAN
    BY <2>1 DEF WayBy
  <2>4. g[k + 1] = Lit(g[k], an[k + 1])
    BY <1>2, <2>1 DEF LitBy, q
  <2>5. an[k + 1][2] \in -1 .. NPoints - 1
    BY <1>1, <2>1
  <2> HIDE DEF G
  <2> QED BY <2>1, <2>2, <2>3, <2>4, <2>5, OneFollowed
<1> HIDE DEF G
<1>5. Nat \subseteq G
  BY <1>3, <1>4, SetInduction
<1> QED BY <1>5 DEF G

\* A way that has been followed to its end is not followed further.
LEMMA WayStays ==
  ASSUME NEW an, IsList(an), NEW origin, NEW target, NEW f, WayBy(f, an, origin, target),
         NEW m \in Nat, m <= Len(an), f[m].reached
  PROVE  Way(an, origin, target) = f[m]
<1> DEFINE G == {k \in Nat : m + k <= Len(an) => f[m + k] = f[m]}
<1>1. Len(an) \in Nat
  BY LenProperties DEF IsList
<1>2. 0 \in G
  OBVIOUS
<1>3. ASSUME NEW k \in Nat, k \in G PROVE k + 1 \in G
  <2> SUFFICES ASSUME m + (k + 1) <= Len(an) PROVE f[m + (k + 1)] = f[m]
    OBVIOUS
  <2>1. m + (k + 1) \in 1..Len(an) /\ (m + (k + 1)) - 1 = m + k /\ m + k <= Len(an)
    BY <1>1
  <2>2. f[m + (k + 1)] = Followed(f[m + k], an[m + (k + 1)], target)
    BY <2>1 DEF WayBy
  <2>3. f[m + k] = f[m]
    BY <1>3, <2>1
  <2> QED BY <2>2, <2>3 DEF Followed
<1> HIDE DEF G
<1>4. Nat \subseteq G
  BY <1>2, <1>3, SetInduction
<1>5. PICK k \in Nat : m + k = Len(an)
  BY <1>1
<1>6. f[m + k] = f[m]
  BY <1>1, <1>4, <1>5 DEF G
<1> QED BY <1>5, <1>6 DEF WayBy

\* A point that is lit is reached, by a chain of hops of the play.
LEMMA LitIsReached ==
  ASSUME NEW an, IsList(an), NEW b, NEW dice \in Seq(Dice), IsPlay(an, b, Range(dice)),
         NEW origin \in 0 .. NPoints - 1, NEW m \in Nat, m <= Len(an), m <= Len(dice),
         NEW g, LitBy(g, SubSeq(an, 1, m), origin), NEW to, to \in g[m].lit
  PROVE  LET w == Way(an, origin, to - 1) IN
         w.reached /\ Chain(w.hops, origin) /\ Playable(w.hops, b, dice)
<1>1. /\ Len(an) \in Nat /\ DOMAIN an = 1..Len(an) /\ NPoints \in Nat
      /\ Len(dice) \in Nat /\ DOMAIN dice = 1..Len(dice)
  BY LenProperties, BoardAssumption DEF IsList
<1>2. /\ \A i \in DOMAIN an : an[i][1] \in Slots /\ an[i][2] \in -1 .. NPoints - 1
      /\ \A i \in DOMAIN an : an[i][2] >= 0 =>
            an[i][1] - an[i][2] \in Range(dice) /\ b[0][Mirror(an[i][2])] < 2
  BY DEF IsPlay
<1>3. to \in 1..NPoints
  <2>1. PICK t \in Int : TRUE
    OBVIOUS
  <2>2. PICK f : WayBy(f, an, origin, t - 1)
    BY WayFold
  <2>3. FollowedTo(f[m], g[m], an, origin, t, m)
    BY <1>2, <2>2, FollowedAlong
  <2> QED BY <2>3 DEF FollowedTo
<1>4. to \in Int /\ to - 1 \in 0 .. NPoints - 1
  BY <1>1, <1>3
<1>5. PICK f : WayBy(f, an, origin, to - 1)
  BY WayFold
<1>6. FollowedTo(f[m], g[m], an, origin, to, m)
  BY <1>2, <1>4, <1>5, FollowedAlong
<1>7. f[m].reached
  <2>1. m \in 0..Len(an)
    BY <1>1
  <2>2. f[m].reached \in BOOLEAN
    BY <1>5, <2>1 DEF WayBy
  <2> QED BY <1>6, <2>2 DEF FollowedTo
<1>8. Way(an, origin, to - 1) = f[m]
  BY <1>5, <1>7, WayStays
<1> DEFINE h == f[m].hops
<1>9. /\ IsList(h) /\ Len(h) <= m /\ h # <<>> /\ h[Len(h)][2] = to - 1
  BY <1>6, <1>7 DEF FollowedTo
<1>10. \A i \in 1..Len(h) : /\ h[i][1] = IF i = 1 THEN origin ELSE h[i - 1][2]
                            /\ \E j \in i .. m - (Len(h) - i) : h[i] = an[j]
  BY <1>6 DEF FollowedTo
<1> HIDE DEF h
<1>11. Len(h) \in Nat \ {0}
  BY <1>9, PartsOfList
<1>12. ASSUME NEW i \in 1..Len(h) PROVE h[i][1] \in Slots /\ h[i][2] \in -1 .. NPoints - 1
  <2>1. PICK j \in i .. m - (Len(h) - i) : h[i] = an[j]
    BY <1>10
  <2>2. j \in DOMAIN an
    BY <1>1, <1>11, <2>1
  <2> QED BY <1>2, <2>1, <2>2
<1>13. ASSUME NEW i \in 1..Len(h) PROVE h[i][2] \in 0 .. NPoints - 1
  <2>1. CASE i = Len(h)
    BY <1>4, <1>9, <2>1
  <2>2. CASE i # Len(h)
    <3>1. i + 1 \in 1..Len(h) /\ i + 1 # 1 /\ (i + 1) - 1 = i
      BY <1>11, <2>2
    <3>2. h[i + 1][1] = h[i][2]
      BY <1>10, <3>1
    <3>3. h[i][2] \in Slots /\ h[i][2] \in -1 .. NPoints - 1
      BY <1>12, <3>1, <3>2
    <3> QED BY <1>1, <3>3 DEF Slots
  <2> QED BY <2>1, <2>2
<1>14. ASSUME NEW i \in 1..Len(h) PROVE h[i][1] \in 0 .. NPoints - 1
  <2>1. CASE i = 1
    BY <1>10, <2>1
  <2>2. CASE i # 1
    <3>1. i - 1 \in 1..Len(h)
      BY <1>11, <2>2
    <3> QED BY <1>10, <1>13, <2>2, <3>1
  <2> QED BY <2>1, <2>2
<1>15. Chain(h, origin)
  BY <1>10, <1>13, <1>14 DEF Chain
<1>16. ASSUME NEW i \in 1..Len(h)
       PROVE  h[i][1] - h[i][2] \in Range(dice) /\ b[0][Mirror(h[i][2])] < 2
  <2>1. PICK j \in i .. m - (Len(h) - i) : h[i] = an[j]
    BY <1>10
  <2>2. j \in DOMAIN an
    BY <1>1, <1>11, <2>1
  <2>3. an[j][2] >= 0
    <3>1. h[i][2] \in 0 .. NPoints - 1
      BY <1>13
    <3> QED BY <1>1, <2>1, <3>1
  <2> QED BY <1>2, <2>1, <2>2, <2>3
<1>17. ASSUME Len(dice) = 2, dice[1] # dice[2], NEW i \in 1..Len(h), NEW j \in 1..Len(h), i # j
       PROVE  h[i][1] - h[i][2] # h[j][1] - h[j][2]
  <2>1. dice[1] \in Range(dice) /\ dice[2] \in Range(dice)
    BY <1>1, <1>17 DEF Range
  <2>2. /\ Len(an) <= 2
        /\ \A x, y \in DOMAIN an : x # y /\ an[x][2] >= 0 /\ an[y][2] >= 0 =>
             an[x][1] - an[x][2] # an[y][1] - an[y][2]
    BY <1>17, <2>1 DEF IsPlay
  <2>3. Len(h) = 2 /\ m = 2 /\ Len(an) = 2
    <3>1. Len(an) <= 2 /\ Len(h) <= m
      BY <1>9, <2>2
    <3>2. Len(h) >= 2
      BY <1>11, <1>17
    <3>3. \A x, y, z \in Nat : x <= 2 /\ y <= x /\ z <= y /\ z >= 2 => z = 2 /\ y = 2 /\ x = 2
      OBVIOUS
    <3> QED BY <1>1, <1>11, <3>1, <3>2, <3>3
  <2>4. ASSUME NEW x \in 1..Len(h) PROVE h[x] = an[x] /\ x \in DOMAIN an /\ an[x][2] >= 0
    <3>1. PICK y \in x .. m - (Len(h) - x) : h[x] = an[y]
      BY <1>10
    <3>2. y = x
      <4>1. m - (Len(h) - x) = x /\ x \in Int
        BY <2>3
      <4>2. y \in x..x
        BY <3>1, <4>1
      <4> QED BY <4>1, <4>2
    <3>3. h[x][2] \in 0 .. NPoints - 1
      BY <1>13
    <3> QED BY <1>1, <2>3, <3>1, <3>2, <3>3
  <2>5. /\ h[i] = an[i] /\ i \in DOMAIN an /\ an[i][2] >= 0
        /\ h[j] = an[j] /\ j \in DOMAIN an /\ an[j][2] >= 0
    BY <2>4
  <2> QED BY <1>17, <2>2, <2>5
<1>18. Len(h) <= Len(dice)
  BY <1>1, <1>9, <1>11
<1>19. Playable(h, b, dice)
  BY <1>9, <1>16, <1>17, <1>18 DEF Playable
<1> QED BY <1>7, <1>8, <1>15, <1>19 DEF h

\* The first of the plays along which a chequer gets there is taken.
LEMMA FoundIsDragged ==
  ASSUME NEW s, IsList(s.legalMoves), NEW from, NEW to, from # 0, NEW k \in DOMAIN s.legalMoves,
         Way(s.legalMoves[k], from - 1, to - 1).reached,
         Walked(s, Way(s.legalMoves[k], from - 1, to - 1).hops).ok
  PROVE  Dragged(s, from, to) # {}
<1> DEFINE origin == IF from = 0 THEN Bar ELSE from - 1
           way(j) == Way(s.legalMoves[j], origin, to - 1)
           found == {j \in DOMAIN s.legalMoves : way(j).reached /\ Walked(s, way(j).hops).ok}
<1>1. Len(s.legalMoves) \in Nat /\ DOMAIN s.legalMoves = 1..Len(s.legalMoves)
  BY LenProperties DEF IsList
<1>2. found \in SUBSET DOMAIN s.legalMoves /\ found # {}
  BY Zenon
<1> DEFINE W(j) == Hopped(s, Walked(s, way(j).hops).board, Walked(s, way(j).hops).left)
<1>3. Dragged(s, from, to) = {W(j) : j \in {j \in found : \A i \in found : j <= i}}
  BY Zenon DEF Dragged
<1> HIDE DEF found, W
<1>4. \E x \in found : \A y \in found : x <= y
  BY <1>1, <1>2, Extremes
<1> QED BY <1>3, <1>4

\* What is lit can be dropped on, if the list of plays is one for the board and the dice.
LEMMA LitIsDropped ==
  ASSUME NEW s, NEW c, Carries(s, c), GnubgPlays, NEW from \in 1..NPoints,
         NEW to \in LandingPoints(s, from)
  PROVE  Dragged(s, from, to) # {}
<1> DEFINE origin == from - 1
           dice == s.remainingDice
           M(an) == IF Len(an) < Len(dice) THEN Len(an) ELSE Len(dice)
           Follow(acc, hop) == IF hop[1] # acc.here THEN acc
                ELSE [here |-> hop[2], lit |-> acc.lit \cup ({hop[2] + 1} \ {0})]
           L(an) == FoldLeft(Follow, [here |-> origin, lit |-> {}], SubSeq(an, 1, M(an))).lit
<1>1. \E an \in Range(s.legalMoves) : to \in L(an)
  BY Zenon DEF LandingPoints
<1>2. s.board[1][origin] # 0
  BY Zenon DEF LandingPoints
<1>3. PICK k \in DOMAIN s.legalMoves : to \in L(s.legalMoves[k])
  <2> HIDE DEF L
  <2> QED BY <1>1 DEF Range
<1> DEFINE an == s.legalMoves[k]
           m == M(an)
<1>4. /\ Passed(s.board, c) /\ dice \in Seq(Dice) /\ Usable(dice)
      /\ IsList(s.legalMoves) /\ IsList(an) /\ IsPlay(an, s.board, Range(dice))
  BY DEF Carries, Listed, ListOfPlays
<1>5. /\ Len(an) \in Nat /\ DOMAIN an = 1..Len(an) /\ Len(dice) \in Nat /\ NPoints \in Nat
      /\ \A i \in DOMAIN an : an[i] \in Range(an)
  <2>1. Len(an) \in Nat /\ DOMAIN an = 1..Len(an)
    BY <1>4, LenProperties DEF IsList
  <2>2. Len(dice) \in Nat
    BY <1>4, LenProperties
  <2> QED BY <2>1, <2>2, BoardAssumption DEF Range
<1>6. m \in Nat /\ m <= Len(an) /\ m <= Len(dice)
  BY <1>5
<1>7. origin \in 0 .. NPoints - 1 /\ from # 0
  BY <1>5
<1> DEFINE q == SubSeq(an, 1, m)
<1>8. L(an) = FoldLeft(Follow, [here |-> origin, lit |-> {}], q).lit
  OBVIOUS
<1> HIDE DEF an, m, dice, origin, M
<1>9. IsList(q) /\ Len(q) = m /\ \A i \in DOMAIN q : q[i][2] \in Int
  <2>1. \A i \in 1..m : an[i] \in Range(an) /\ an[i][2] \in -1 .. NPoints - 1
    BY <1>4, <1>5, <1>6 DEF IsPlay
  <2>2. /\ q \in Seq(Range(an)) /\ Len(q) = (IF 1 <= m THEN m - 1 + 1 ELSE 0)
        /\ \A i \in 1 .. m - 1 + 1 : q[i] = an[1 + i - 1]
    BY <1>6, <2>1, SubSeqProperties
  <2> HIDE DEF q
  <2>3. Len(q) = m /\ DOMAIN q = 1..m
    BY <1>6, <2>2, LenProperties
  <2>4. \A i \in 1..m : i \in 1 .. m - 1 + 1 /\ 1 + i - 1 = i
    BY <1>6
  <2>5. ASSUME NEW i \in 1..m PROVE q[i] = an[i] /\ q[i][2] \in Int
    <3>1. q[i] = an[i]
      BY <2>2, <2>4
    <3>2. an[i][2] \in Int
      BY <1>5, <2>1
    <3> QED BY <3>1, <3>2
  <2> QED BY <2>2, <2>3, <2>5, SeqOfRange DEF IsList
<1>10. PICK g : LitBy(g, q, origin)
  <2> HIDE DEF q
  <2> QED BY <1>9, LitFold
<1>11. to \in g[m].lit
  <2>1. g[Len(q)] = FoldLeft(Follow, [here |-> origin, lit |-> {}], q)
    BY <1>10, Zenon DEF LitBy
  <2> HIDE DEF q, Follow, L
  <2> QED BY <1>3, <1>8, <1>9, <2>1 DEF an
<1> DEFINE h == Way(an, origin, to - 1).hops
<1>12. Way(an, origin, to - 1).reached /\ Chain(h, origin) /\ Playable(h, s.board, dice)
  <2>1. LitBy(g, SubSeq(an, 1, m), origin)
    BY <1>10
  <2> HIDE DEF h, q
  <2>2. /\ dice \in Seq(Dice) /\ IsList(an) /\ IsPlay(an, s.board, Range(dice))
        /\ origin \in 0 .. NPoints - 1 /\ m \in Nat /\ m <= Len(an) /\ m <= Len(dice)
    BY <1>4, <1>6, <1>7
  <2>3. LET w == Way(an, origin, to - 1) IN
        w.reached /\ Chain(w.hops, origin) /\ Playable(w.hops, s.board, dice)
    BY <1>11, <2>1, <2>2, LitIsReached
  <2> QED BY <2>3 DEF h
<1> HIDE DEF h
<1>13. s.board[1][origin] >= 1
  <2>1. s.board \in [0..1 -> [Slots -> Nat]] /\ origin \in Slots
    BY <1>4, <1>5, <1>7 DEF Passed, Apart, Boards, Slots
  <2>2. s.board[1][origin] \in Nat
    BY <2>1
  <2> QED BY <1>2, <2>2
<1>14. Walked(s, h).ok
  BY <1>4, <1>7, <1>12, <1>13, ChainWalks DEF dice
<1> QED BY <1>4, <1>7, <1>12, <1>14, FoundIsDragged DEF h, an, origin

---------------------------------------------------------------------------

\* Every point lit up for a chequer on the board can be dropped on, after any taps, drags, undos
\* and swaps of the dice: what Board.kt lights up, the hops of the list that no die may be left
\* for left out, is what dragMove follows and finds a die for, hop by hop.
THEOREM PreviewCorrect ==
  ASSUME GnubgAssumed, GnubgPlays PROVE Spec => []PreviewCanBeDropped
<1>1. Init => TInv
  BY InitTInv
<1>2. TInv /\ [Next]_vars => TInv'
  BY StepKeepsTInv
<1>3. TInv => PreviewCanBeDropped
  <2> SUFFICES ASSUME TInv, shown.phase = "HUMAN_MOVING", NEW from \in 1..NPoints,
                      NEW to \in LandingPoints(shown, from)
               PROVE  Dragged(shown, from, to) # {}
    BY DEF PreviewCanBeDropped
  <2>1. Carries(shown, Chequers(shown.oldBoard[0]))
    BY DEF TInv, Typed, Entering
  <2> QED BY <2>1, LitIsDropped
<1> QED BY <1>1, <1>2, <1>3, PTL DEF Spec

---------------------------------------------------------------------------
(* Sequences made step by step.                                            *)

\* f is computed from base by these steps, in V.
Recurs(f, n, D, V, base, step) ==
    f \in [0..n -> V] /\ f[0] = base /\ \A k \in D : f[k] = step[k][f[k - 1]]

\* A recursion over the numbers up to n, by steps that stay in V, can be computed.
LEMMA RecursionComputes ==
  ASSUME NEW n \in Nat, NEW D, D = 1..n, NEW V, NEW base \in V, NEW step \in [D -> [V -> V]]
  PROVE  \E f : Recurs(f, n, D, V, base, step)
<1>2. PICK c : FoldsIn(c, D, V, base, step)
  BY FoldComputes
<1>3. Folds(c, D, V, base, step)
  BY <1>2 DEF FoldsIn, Folds
<1>4. PICK f : GoesOn(f, n, D, V, base, step, c[D])
  BY <1>3, FoldBySteps
<1> QED BY <1>4 DEF GoesOn, Recurs

\* Appending and joining, as to what is in the lists.
LEMMA AppendedRange ==
  ASSUME NEW q, IsList(q), NEW e
  PROVE  /\ IsList(Append(q, e)) /\ Range(Append(q, e)) = Range(q) \cup {e}
         /\ Len(q) \in Nat /\ Len(Append(q, e)) = Len(q) + 1
<1> DEFINE r == Append(q, e)
<1>1. /\ IsList(r) /\ Len(q) \in Nat /\ DOMAIN q = 1..Len(q) /\ DOMAIN r = 1..(Len(q) + 1)
      /\ \A k \in 1..Len(q) : r[k] = q[k]
      /\ r[Len(q) + 1] = e
  BY AppendToList
<1>2. Len(r) \in Nat /\ DOMAIN r = 1..Len(r)
  BY <1>1, LenProperties DEF IsList
<1> HIDE DEF r
<1>3. Len(r) = Len(q) + 1
  BY <1>1, <1>2
<1>4. Range(r) = Range(q) \cup {e}
  BY <1>1 DEF Range
<1> QED BY <1>1, <1>3, <1>4 DEF r

\* Two lists joined are a list of what is in either.
LEMMA JoinedRange ==
  ASSUME NEW q, IsList(q), NEW r, IsList(r)
  PROVE  IsList(q \o r) /\ Range(q \o r) = Range(q) \cup Range(r)
<1> DEFINE T == Range(q) \cup Range(r)
           j == q \o r
<1>1. q \in Seq(T) /\ r \in Seq(T)
  BY SeqMonotonic DEF IsList
<1> HIDE DEF T
<1>2. /\ j \in Seq(T) /\ Len(j) = Len(q) + Len(r)
      /\ \A i \in 1 .. Len(q) + Len(r) : j[i] = IF i <= Len(q) THEN q[i] ELSE r[i - Len(q)]
  BY <1>1, ConcatProperties
<1>3. /\ Len(q) \in Nat /\ DOMAIN q = 1..Len(q) /\ Len(r) \in Nat /\ DOMAIN r = 1..Len(r)
      /\ DOMAIN j = 1 .. Len(q) + Len(r)
  BY <1>1, <1>2, LenProperties
<1> HIDE DEF j
<1>4. Range(j) \subseteq T
  <2>1. ASSUME NEW i \in 1 .. Len(q) + Len(r) PROVE j[i] \in T
    <3>1. CASE i <= Len(q)
      BY <1>2, <1>3, <3>1 DEF T, Range
    <3>2. CASE ~(i <= Len(q))
      BY <1>2, <1>3, <3>2 DEF T, Range
    <3> QED BY <3>1, <3>2
  <2> QED BY <1>3, <2>1 DEF Range
<1>5. Range(q) \subseteq Range(j)
  BY <1>2, <1>3 DEF Range
<1>6. Range(r) \subseteq Range(j)
  <2>1. ASSUME NEW i \in DOMAIN r PROVE Len(q) + i \in DOMAIN j /\ j[Len(q) + i] = r[i]
    BY <1>2, <1>3
  <2> QED BY <2>1 DEF Range
<1> QED BY <1>2, <1>4, <1>5, <1>6, SeqOfRange DEF IsList, T, j

\* Members of x picked by their places.
Picks(c, n, x, K) ==
    c[0] = <<>> /\ \A k \in 1..n : c[k] = IF k \in K THEN Append(c[k - 1], x[k]) ELSE c[k - 1]

\* They are what is picked.
LEMMA PicksAre ==
  ASSUME NEW n \in Nat, NEW x, NEW K, NEW c, Picks(c, n, x, K)
  PROVE  IsList(c[n]) /\ Range(c[n]) = {x[k] : k \in K \cap 1..n}
<1> DEFINE Is(m) == IsList(c[m]) /\ Range(c[m]) = {x[k] : k \in K \cap 1..m}
           A == {m \in Nat : m <= n => Is(m)}
<1>1. 0 \in A
  <2>1. IsList(c[0]) /\ Range(c[0]) = {}
    BY EmptyList DEF Range, Picks
  <2>2. 1..0 = {}
    OBVIOUS
  <2> QED BY <2>1, <2>2
<1>2. ASSUME NEW m \in Nat, m \in A PROVE m + 1 \in A
  <2> SUFFICES ASSUME m + 1 <= n PROVE Is(m + 1)
    OBVIOUS
  <2>1. m + 1 \in 1..n /\ (m + 1) - 1 = m /\ Is(m)
    BY <1>2
  <2>2. 1..(m + 1) = 1..m \cup {m + 1}
    OBVIOUS
  <2>3. CASE m + 1 \in K
    <3>1. c[m + 1] = Append(c[m], x[m + 1])
      BY <2>1, <2>3 DEF Picks
    <3>2. IsList(c[m + 1]) /\ Range(c[m + 1]) = Range(c[m]) \cup {x[m + 1]}
      BY <2>1, <3>1, AppendedRange
    <3> QED BY <2>1, <2>2, <2>3, <3>2
  <2>4. CASE m + 1 \notin K
    BY <2>1, <2>2, <2>4 DEF Picks
  <2> QED BY <2>3, <2>4
<1>3. Nat \subseteq A
  <2> HIDE DEF A
  <2> QED BY <1>1, <1>2, SetInduction
<1>4. Is(n)
  BY <1>3
<1> QED BY <1>4

\* Lists joined one behind the other.
Joins(c, n, x) == c[0] = <<>> /\ \A k \in 1..n : c[k] = c[k - 1] \o x[k]

\* They are what is in any of them.
LEMMA JoinsAre ==
  ASSUME NEW n \in Nat, NEW x, \A k \in 1..n : IsList(x[k]), NEW c, Joins(c, n, x)
  PROVE  IsList(c[n]) /\ Range(c[n]) = UNION {Range(x[k]) : k \in 1..n}
<1> DEFINE Is(m) == IsList(c[m]) /\ Range(c[m]) = UNION {Range(x[k]) : k \in 1..m}
           A == {m \in Nat : m <= n => Is(m)}
<1>1. 0 \in A
  <2>1. IsList(c[0]) /\ Range(c[0]) = {}
    BY EmptyList DEF Range, Joins
  <2>2. 1..0 = {}
    OBVIOUS
  <2> QED BY <2>1, <2>2
<1>2. ASSUME NEW m \in Nat, m \in A PROVE m + 1 \in A
  <2> SUFFICES ASSUME m + 1 <= n PROVE Is(m + 1)
    OBVIOUS
  <2>1. m + 1 \in 1..n /\ (m + 1) - 1 = m /\ Is(m)
    BY <1>2
  <2>2. 1..(m + 1) = 1..m \cup {m + 1}
    OBVIOUS
  <2>3. c[m + 1] = c[m] \o x[m + 1] /\ IsList(x[m + 1])
    BY <2>1 DEF Joins
  <2>4. IsList(c[m + 1]) /\ Range(c[m + 1]) = Range(c[m]) \cup Range(x[m + 1])
    BY <2>1, <2>3, JoinedRange
  <2>5. UNION {Range(x[k]) : k \in 1..(m + 1)} = (UNION {Range(x[k]) : k \in 1..m}) \cup Range(x[m + 1])
    BY <2>2
  <2> QED BY <2>1, <2>4, <2>5
<1>3. Nat \subseteq A
  <2> HIDE DEF A
  <2> QED BY <1>1, <1>2, SetInduction
<1>4. Is(n)
  BY <1>3
<1> QED BY <1>4

---------------------------------------------------------------------------
(* The tree of plays.                                                      *)

\* The plays one hop longer, and what a play gives way to on the next level.
Nexts(p, anRoll) ==
    {Moved(p, i, anRoll) : i \in {i \in Slots : MayMove(p, i, anRoll[Len(p.an) + 1])}}

Further(p, anRoll) ==
    IF Len(p.an) = Len(anRoll) \/ Nexts(p, anRoll) = {} THEN {p} ELSE Nexts(p, anRoll)

\* Longer lists these plays (the loop of GenerateMovesSub).
LEMMA LongerIs ==
  ASSUME NEW p, NEW anRoll
  PROVE  IsList(Longer(p, anRoll)) /\ Range(Longer(p, anRoll)) = Further(p, anRoll)
<1> DEFINE n == NPoints + 1
           d == anRoll[Len(p.an) + 1]
           K == {k \in 1..n : MayMove(p, n - k, d)}
           x == [k \in 1..n |-> Moved(p, n - k, anRoll)]
           T == {x[k] : k \in 1..n}
           Op(q, k) == IF k \in K THEN Append(q, x[k]) ELSE q
           P(f) == f = [k \in 0 .. NPoints + 1 |->
                          IF k = 0 THEN <<>>
                          ELSE IF MayMove(p, NPoints + 1 - k, d)
                               THEN Append(f[k - 1], Moved(p, NPoints + 1 - k, anRoll))
                               ELSE f[k - 1]]
           c == CHOOSE f : P(f)
           step == [k \in 1..n |-> [q \in Seq(T) |-> Op(q, k)]]
<1>1. n \in Nat /\ n = NPoints + 1 /\ NPoints \in Nat
  BY BoardAssumption
<1>2. Longer(p, anRoll) = IF Len(p.an) = Len(anRoll) THEN <<p>>
                          ELSE IF c[n] = <<>> THEN <<p>> ELSE c[n]
  BY Zenon DEF Longer
<1>3. \A f : P(f) <=> f = [k \in 0..n |-> IF k = 0 THEN <<>> ELSE Op(f[k - 1], k)]
  <2> SUFFICES ASSUME NEW f, NEW k \in 0..n, k # 0
               PROVE  Op(f[k - 1], k) = IF MayMove(p, NPoints + 1 - k, d)
                               THEN Append(f[k - 1], Moved(p, NPoints + 1 - k, anRoll))
                               ELSE f[k - 1]
    BY Zenon
  <2>1. k \in 1..n
    BY <1>1
  <2>2. k \in K <=> MayMove(p, NPoints + 1 - k, d)
    BY <1>1, <2>1
  <2>3. x[k] = Moved(p, NPoints + 1 - k, anRoll)
    BY <1>1, <2>1
  <2> HIDE DEF K, x
  <2> QED BY <2>2, <2>3
<1> HIDE DEF P, n, d
<1>4. step \in [1..n -> [Seq(T) -> Seq(T)]]
  <2> SUFFICES ASSUME NEW k \in 1..n, NEW q \in Seq(T) PROVE Op(q, k) \in Seq(T)
    OBVIOUS
  <2>1. x[k] \in T
    OBVIOUS
  <2> HIDE DEF T, x
  <2> QED BY <2>1, AppendProperties
<1>5. <<>> \in Seq(T)
  BY EmptySeq
<1>6. \A k \in 1..n, q \in Seq(T) : step[k][q] = Op(q, k)
  OBVIOUS
<1> HIDE DEF step, Op, T
<1>7. PICK f \in [0..n -> Seq(T)] : f[0] = <<>> /\ \A k \in 1..n : f[k] = step[k][f[k - 1]]
  <2> DEFINE V == Seq(T)
             base == <<>>
  <2> HIDE DEF V, base
  <2> DEFINE D == 1..n
  <2>0. D = 1..n
    OBVIOUS
  <2> HIDE DEF D
  <2>1. base \in V /\ step \in [D -> [V -> V]] /\ n \in Nat
    BY <1>1, <1>4, <1>5 DEF V, base, D
  <2>2. \E f : Recurs(f, n, D, V, base, step)
    BY <2>0, <2>1, RecursionComputes
  <2> QED BY <2>0, <2>2 DEF V, base, Recurs
<1>8. P(f)
  <2>1. \A k \in 0..n : f[k] = IF k = 0 THEN <<>> ELSE Op(f[k - 1], k)
    <3> SUFFICES ASSUME NEW k \in 0..n, k # 0 PROVE f[k] = Op(f[k - 1], k)
      BY <1>7
    <3>1. k \in 1..n /\ k - 1 \in 0..n
      BY <1>1
    <3>2. f[k - 1] \in Seq(T) /\ f[k] = step[k][f[k - 1]]
      BY <1>7, <3>1
    <3> QED BY <1>6, <3>1, <3>2
  <2> QED BY <1>3, <1>7, <2>1
<1>9. P(c)
  BY <1>8
<1> HIDE DEF c
<1>10. Picks(c, n, x, K)
  <2>1. c = [k \in 0..n |-> IF k = 0 THEN <<>> ELSE Op(c[k - 1], k)]
    BY <1>3, <1>9
  <2>2. \A k \in 1..n : k \in 0..n /\ k # 0
    OBVIOUS
  <2>3. 0 \in 0..n
    BY <1>1
  <2> QED BY <2>1, <2>2, <2>3 DEF Picks, Op
<1>11. IsList(c[n]) /\ Range(c[n]) = {x[k] : k \in K \cap 1..n}
  BY <1>1, <1>10, PicksAre
<1>12. {x[k] : k \in K \cap 1..n} = Nexts(p, anRoll)
  <2>1. \A k \in 1..n : n - k \in Slots /\ n - (n - k) = k
    BY <1>1 DEF Slots
  <2>2. \A i \in Slots : n - i \in 1..n /\ n - (n - i) = i
    BY <1>1 DEF Slots
  <2>3. ASSUME NEW k \in K \cap 1..n PROVE x[k] \in Nexts(p, anRoll)
    BY <2>1 DEF Nexts, d
  <2>4. ASSUME NEW i \in Slots, MayMove(p, i, d)
        PROVE  n - i \in K \cap 1..n /\ x[n - i] = Moved(p, i, anRoll)
    BY <2>2, <2>4
  <2> HIDE DEF K, x
  <2> QED BY <2>3, <2>4 DEF Nexts, d
<1>13. c[n] = <<>> <=> Nexts(p, anRoll) = {}
  <2>1. c[n] = <<>> => Range(c[n]) = {}
    BY EmptyList DEF Range
  <2>2. ASSUME Range(c[n]) = {} PROVE c[n] = <<>>
    <3>1. c[n] \in Seq({})
      BY <1>11, <2>2 DEF IsList
    <3>2. \A i \in 1..Len(c[n]) : c[n][i] \in {}
      BY <3>1, ElementOfSeq
    <3>3. Len(c[n]) \in Nat
      BY <3>1, LenProperties
    <3>4. Len(c[n]) = 0
      BY <3>2, <3>3
    <3> QED BY <3>1, <3>4, EmptySeq
  <2> QED BY <1>11, <1>12, <2>1, <2>2
<1>14. IsList(<<p>>) /\ Range(<<p>>) = {p}
  BY SingletonList DEF Range
<1> QED BY <1>2, <1>11, <1>12, <1>13, <1>14 DEF Further

\* And Deeper those of all the plays it is given.
LEMMA DeeperIs ==
  ASSUME NEW plays, IsList(plays), NEW anRoll
  PROVE  /\ IsList(Deeper(plays, anRoll))
         /\ Range(Deeper(plays, anRoll)) = UNION {Further(p, anRoll) : p \in Range(plays)}
<1> DEFINE n == Len(plays)
           x == [k \in 1..n |-> Longer(plays[k], anRoll)]
           T == UNION {Range(x[k]) : k \in 1..n}
           P(f) == f = [k \in 0..Len(plays) |-> IF k = 0 THEN <<>> ELSE f[k - 1] \o Longer(plays[k], anRoll)]
           c == CHOOSE f : P(f)
           step == [k \in 1..n |-> [q \in Seq(T) |-> q \o x[k]]]
<1>1. n \in Nat /\ DOMAIN plays = 1..n
  BY LenProperties DEF IsList
<1>2. Deeper(plays, anRoll) = c[n]
  BY Zenon DEF Deeper
<1>3. \A f : P(f) <=> f = [k \in 0..n |-> IF k = 0 THEN <<>> ELSE f[k - 1] \o x[k]]
  <2> SUFFICES ASSUME NEW f, NEW k \in 0..n, k # 0 PROVE x[k] = Longer(plays[k], anRoll)
    BY Zenon
  <2>1. k \in 1..n
    BY <1>1
  <2> QED BY <2>1
<1>4. ASSUME NEW k \in 1..n
      PROVE  IsList(x[k]) /\ Range(x[k]) = Further(plays[k], anRoll) /\ x[k] \in Seq(T)
  <2>1. x[k] = Longer(plays[k], anRoll)
    OBVIOUS
  <2>2. Range(x[k]) \subseteq T
    OBVIOUS
  <2>3. IsList(x[k]) /\ Range(x[k]) = Further(plays[k], anRoll)
    BY <2>1, LongerIs
  <2> HIDE DEF T, x
  <2> QED BY <2>2, <2>3, SeqMonotonic DEF IsList
<1> HIDE DEF P, n, x, T
<1>5. step \in [1..n -> [Seq(T) -> Seq(T)]]
  <2> SUFFICES ASSUME NEW k \in 1..n, NEW q \in Seq(T) PROVE q \o x[k] \in Seq(T)
    OBVIOUS
  <2> QED BY <1>4, ConcatProperties
<1>6. <<>> \in Seq(T)
  BY EmptySeq
<1>7. \A k \in 1..n, q \in Seq(T) : step[k][q] = q \o x[k]
  OBVIOUS
<1> HIDE DEF step
<1>8. PICK f \in [0..n -> Seq(T)] : f[0] = <<>> /\ \A k \in 1..n : f[k] = step[k][f[k - 1]]
  <2> DEFINE V == Seq(T)
             base == <<>>
  <2> HIDE DEF V, base
  <2> DEFINE D == 1..n
  <2>0. D = 1..n
    OBVIOUS
  <2> HIDE DEF D
  <2>1. base \in V /\ step \in [D -> [V -> V]] /\ n \in Nat
    BY <1>1, <1>5, <1>6 DEF V, base, D
  <2>2. \E f : Recurs(f, n, D, V, base, step)
    BY <2>0, <2>1, RecursionComputes
  <2> QED BY <2>0, <2>2 DEF V, base, Recurs
<1>9. P(f)
  <2>1. \A k \in 0..n : f[k] = IF k = 0 THEN <<>> ELSE f[k - 1] \o x[k]
    <3> SUFFICES ASSUME NEW k \in 0..n, k # 0 PROVE f[k] = f[k - 1] \o x[k]
      BY <1>8
    <3>1. k \in 1..n /\ k - 1 \in 0..n
      BY <1>1
    <3>2. f[k - 1] \in Seq(T) /\ f[k] = step[k][f[k - 1]]
      BY <1>8, <3>1
    <3> QED BY <1>7, <3>1, <3>2
  <2> QED BY <1>3, <1>8, <2>1
<1>10. P(c)
  BY <1>9
<1> HIDE DEF c
<1>11. Joins(c, n, x)
  <2>1. c = [k \in 0..n |-> IF k = 0 THEN <<>> ELSE c[k - 1] \o x[k]]
    BY <1>3, <1>10
  <2>2. \A k \in 1..n : k \in 0..n /\ k # 0
    OBVIOUS
  <2>3. 0 \in 0..n
    BY <1>1
  <2> QED BY <2>1, <2>2, <2>3 DEF Joins
<1>12. IsList(c[n]) /\ Range(c[n]) = UNION {Range(x[k]) : k \in 1..n}
  BY <1>1, <1>4, <1>11, JoinsAre
<1>13. UNION {Range(x[k]) : k \in 1..n} = UNION {Further(p, anRoll) : p \in Range(plays)}
  <2>1. \A k \in 1..n : plays[k] \in Range(plays)
    BY <1>1 DEF Range
  <2>2. \A p \in Range(plays) : \E k \in 1..n : p = plays[k]
    BY <1>1 DEF Range
  <2>3. \A k \in 1..n : Range(x[k]) = Further(plays[k], anRoll)
    BY <1>4
  <2> QED BY <2>1, <2>2, <2>3
<1> QED BY <1>2, <1>12, <1>13

---------------------------------------------------------------------------
(* One hop of a play.                                                      *)

\* A chequer that is there, and a die with which it gets off or to a point not made.
CanPlay(b, i, d) ==
    /\ i \in Slots /\ d \in Dice /\ b[1][i] > 0
    /\ i - d >= 0 => b[0][Mirror(i - d)] < 2

\* A chequer that a die can play is played by it.
LEMMA HopIs ==
  ASSUME NEW b, Apart(b), NEW i, NEW d, CanPlay(b, i, d)
  PROVE  /\ ApplySubMove(b, i, d).rc = 0
         /\ Apart(Played(b, i, d)) /\ HopMakes(b, i, d, Played(b, i, d))
<1>1. CanHop(b, i, d)
  BY BoardAssumption DEF CanPlay, CanHop, Dice
<1> QED BY <1>1, HopGoes

\* Fewer chequers on every point are fewer chequers.
LEMMA ChequersFewer ==
  ASSUME NEW h \in [Slots -> Nat], NEW g \in [Slots -> Nat], \A x \in Slots : g[x] <= h[x]
  PROVE  Chequers(g) <= Chequers(h) /\ Chequers(g) \in Nat /\ Chequers(h) \in Nat
<1>1. PICK s : SumsTo(s, h) /\ Chequers(h) = s[Slots]
  BY ChequersSums
<1>2. PICK t : SumsTo(t, g) /\ Chequers(g) = t[Slots]
  BY ChequersSums
<1> DEFINE G == {T \in SUBSET Slots : t[T] <= s[T]}
<1>3. {} \in G
  <2>1. {} \in SUBSET Slots
    OBVIOUS
  <2>2. t[{}] = 0 /\ s[{}] = 0
    BY <1>1, <1>2, <2>1 DEF SumsTo
  <2> QED BY <2>1, <2>2
<1>4. ASSUME NEW T \in SUBSET Slots, T # {}, \A x \in T : T \ {x} \in G PROVE T \in G
  <2> DEFINE x == First[T]
             U == T \ {x}
  <2>1. x \in T /\ x \in Slots /\ U \in SUBSET Slots
    BY <1>4 DEF First
  <2>2. s[T] = h[x] + s[U] /\ t[T] = g[x] + t[U] /\ s[U] \in Nat /\ t[U] \in Nat
    BY <1>1, <1>2, <1>4, <2>1 DEF SumsTo
  <2>3. t[U] <= s[U] /\ g[x] <= h[x] /\ g[x] \in Nat /\ h[x] \in Nat
    BY <1>4, <2>1
  <2> HIDE DEF x, U
  <2> QED BY <2>2, <2>3
<1>5. SUBSET Slots \subseteq G
  <2>1. IsFiniteSet(Slots)
    BY BoardAssumption, FS_Interval DEF Slots
  <2> HIDE DEF G
  <2> QED BY <1>3, <1>4, <2>1, SubsetInduction
<1> QED BY <1>1, <1>2, <1>5 DEF SumsTo

\* No point holds more chequers than there are.
LEMMA PointBound ==
  ASSUME NEW h \in [Slots -> Nat], NEW y \in Slots
  PROVE  h[y] <= Chequers(h)
<1>1. PICK s : SumsTo(s, h) /\ Chequers(h) = s[Slots]
  BY ChequersSums
<1> DEFINE G == {T \in SUBSET Slots : y \in T => h[y] <= s[T]}
<1>2. {} \in G
  OBVIOUS
<1>3. ASSUME NEW T \in SUBSET Slots, T # {}, \A x \in T : T \ {x} \in G PROVE T \in G
  <2> DEFINE x == First[T]
             U == T \ {x}
  <2>1. x \in T /\ x \in Slots /\ U \in SUBSET Slots
    BY <1>3 DEF First
  <2>2. s[T] = h[x] + s[U] /\ s[U] \in Nat /\ h[x] \in Nat /\ h[y] \in Nat
    BY <1>1, <1>3, <2>1 DEF SumsTo
  <2>3. y \in T => y = x \/ y \in U
    OBVIOUS
  <2>4. y \in U => h[y] <= s[U]
    BY <1>3, <2>1
  <2> HIDE DEF x, U
  <2> QED BY <2>2, <2>3, <2>4
<1>4. SUBSET Slots \subseteq G
  <2>1. IsFiniteSet(Slots)
    BY BoardAssumption, FS_Interval DEF Slots
  <2> HIDE DEF G
  <2> QED BY <1>2, <1>3, <2>1, SubsetInduction
<1> QED BY <1>1, <1>4

\* A board on which a play can be under way.
Legal(b) == Apart(b) /\ CorrectNumberOfChequers(b)

\* A hop keeps it so.
LEMMA HopKeepsLegal ==
  ASSUME NEW b, Legal(b), NEW i, NEW d, CanPlay(b, i, d)
  PROVE  Legal(Played(b, i, d))
<1> DEFINE n == Played(b, i, d)
           dest == i - d
           m == Mirror(dest)
<1>1. Apart(n) /\ HopMakes(b, i, d, n)
  BY HopIs DEF Legal
<1>2. /\ b[0] \in [Slots -> Nat] /\ b[1] \in [Slots -> Nat]
      /\ n[0] \in [Slots -> Nat] /\ n[1] \in [Slots -> Nat]
  BY <1>1 DEF Apart, Boards, Legal
<1>3. /\ i \in Slots /\ i \in Int /\ Bar \in Slots /\ Slots = 0 .. NPoints - 1 \cup {Bar}
      /\ \A x \in 0 .. NPoints - 1 : x # Bar
      /\ dest \in Int /\ dest # i /\ dest < NPoints
      /\ dest >= 0 => dest \in Slots /\ m \in Slots /\ m # Bar /\ m \in 0 .. NPoints - 1
  <2>1. i \in Slots /\ d \in 1..NFaces /\ NPoints \in Nat
    BY BoardAssumption DEF CanPlay, Dice
  <2>2. dest \in Int /\ dest < NPoints /\ (dest >= 0 => dest \in 0 .. NPoints - 1 /\ m \in 0 .. NPoints - 1)
    BY <2>1, Destination
  <2>3. dest # i /\ i \in Int
    BY <2>1 DEF Slots
  <2> HIDE DEF dest, m
  <2>4. Slots = 0 .. NPoints - 1 \cup {Bar}
    BY <2>1 DEF Slots, Bar
  <2> QED BY <2>1, <2>2, <2>3, <2>4 DEF Slots, Bar
<1>4. /\ \A x \in Slots : n[1][x] = (b[1][x] - One(x = i)) + One(x = dest)
      /\ \A x \in 0 .. NPoints - 1 : n[0][x] = IF dest >= 0 /\ x = m THEN 0 ELSE b[0][x]
      /\ n[0][Bar] = b[0][Bar] + One(dest >= 0 /\ b[0][m] = 1)
  BY <1>1 DEF HopMakes
<1>5. dest >= 0 => b[0][m] < 2
  BY DEF CanPlay
<1> HIDE DEF n, dest, m
<1>6. Chequers(n[1]) <= Chequers(b[1]) /\ Chequers(n[1]) \in Nat /\ Chequers(b[1]) \in Nat
  <2>0. Chequers(n[1]) \in Nat /\ Chequers(b[1]) \in Nat
    BY <1>2, ChequersFewer
  <2>1. CASE dest < 0
    <3>1. ASSUME NEW x \in Slots PROVE n[1][x] <= b[1][x]
      <4>1. x \in Nat /\ x # dest /\ b[1][x] \in Nat
        <5>1. b[1][x] \in Nat
          BY <1>2
        <5>2. x \in Nat
          BY BoardAssumption DEF Slots
        <5> QED BY <1>3, <2>1, <5>1, <5>2
      <4> QED BY <1>4, <4>1 DEF One
    <3> QED BY <1>2, <3>1, ChequersFewer
  <2>2. CASE dest >= 0
    <3>1. /\ b[1][i] = n[1][i] + 1 /\ n[1][dest] = b[1][dest] + 1
          /\ \A x \in Slots \ {i, dest} : n[1][x] = b[1][x]
      BY <1>2, <1>3, <1>4, <2>2 DEF One
    <3>2. Chequers(n[1]) = Chequers(b[1])
      <4> DEFINE h == b[1]
                 g == n[1]
      <4>1. h \in [Slots -> Nat] /\ g \in [Slots -> Nat] /\ i \in Slots /\ dest \in Slots /\ i # dest
        BY <1>2, <1>3, <2>2
      <4>2. h[i] = g[i] + 1 /\ g[dest] = h[dest] + 1 /\ \A x \in Slots \ {i, dest} : g[x] = h[x]
        BY <3>1
      <4> HIDE DEF h, g
      <4>3. Chequers(g) = Chequers(h)
        BY <4>1, <4>2, ChequersMoved
      <4> QED BY <4>3 DEF g, h
    <3> QED BY <2>0, <3>2
  <2> QED BY <1>3, <2>1, <2>2
<1>7. Chequers(n[0]) = Chequers(b[0])
  <2>1. CASE dest >= 0 /\ b[0][m] = 1
    <3>1. /\ b[0][m] = n[0][m] + 1 /\ n[0][Bar] = b[0][Bar] + 1
          /\ \A x \in Slots \ {m, Bar} : n[0][x] = b[0][x]
      BY <1>2, <1>3, <1>4, <2>1 DEF One
    <3> DEFINE h == b[0]
               g == n[0]
    <3>2. h \in [Slots -> Nat] /\ g \in [Slots -> Nat] /\ m \in Slots /\ Bar \in Slots /\ m # Bar
      BY <1>2, <1>3, <2>1
    <3>3. h[m] = g[m] + 1 /\ g[Bar] = h[Bar] + 1 /\ \A x \in Slots \ {m, Bar} : g[x] = h[x]
      BY <3>1
    <3> HIDE DEF h, g
    <3>4. Chequers(g) = Chequers(h)
      BY <3>2, <3>3, ChequersMoved
    <3> QED BY <3>4 DEF g, h
  <2>2. CASE ~(dest >= 0 /\ b[0][m] = 1)
    <3>1. dest >= 0 => b[0][m] = 0
      BY <1>2, <1>3, <1>5, <2>2
    <3>2. \A x \in Slots : n[0][x] = b[0][x]
      <4>1. b[0][Bar] \in Nat
        BY <1>2, <1>3
      <4>2. n[0][Bar] = b[0][Bar]
        BY <1>4, <2>2, <4>1 DEF One
      <4>3. \A x \in 0 .. NPoints - 1 : n[0][x] = b[0][x]
        BY <1>4, <3>1
      <4> QED BY <1>3, <4>2, <4>3
    <3>3. n[0] = b[0]
      BY <1>2, <3>2
    <3> QED BY <3>3
  <2> QED BY <2>1, <2>2
<1>8. CorrectNumberOfChequers(n)
  <2>1. Chequers(b[1]) <= NChequers /\ Chequers(b[0]) <= NChequers /\ NChequers \in Nat
    BY BoardAssumption DEF Legal, CorrectNumberOfChequers
  <2>2. Chequers(n[1]) <= NChequers
    BY <1>6, <2>1
  <2> QED BY <1>7, <2>1, <2>2 DEF CorrectNumberOfChequers
<1> QED BY <1>1, <1>8 DEF Legal, n

\* The highest point held.
LEMMA BackIs ==
  ASSUME NEW h \in [Slots -> Nat], NEW i \in Slots, h[i] > 0
  PROVE  /\ Back(h) \in Slots /\ h[Back(h)] > 0 /\ Back(h) >= i
         /\ \A j \in Slots : j > Back(h) => h[j] = 0
<1> DEFINE n == NPoints + 1
           D == 1..n
           T == {k \in D : h[k - 1] > 0}
<1>0. NPoints \in Nat /\ n \in Nat /\ \A k \in D : k - 1 \in Slots
  BY BoardAssumption DEF Slots
<1>1. \A j \in Slots : j + 1 \in D /\ (j + 1) - 1 = j /\ j \in Nat
  BY <1>0 DEF Slots
<1>2. T # {}
  BY <1>1
<1>3. \E x \in T : \A y \in T : x >= y
  <2>1. D = 1..n /\ T \in SUBSET D
    OBVIOUS
  <2> HIDE DEF D, T, n
  <2> QED BY <1>0, <1>2, <2>1, Extremes
<1>4. PICK x \in T : \A y \in T : x >= y
  BY <1>3
<1>5. x - 1 \in Slots /\ h[x - 1] > 0 /\ \A j \in Slots : j > x - 1 => h[j] = 0
  <2>1. x \in D /\ x \in Nat
    BY <1>0
  <2>2. ASSUME NEW j \in Slots, j > x - 1 PROVE h[j] = 0
    <3>1. j + 1 \in D /\ ~(x >= j + 1)
      BY <1>1, <2>1, <2>2
    <3>2. j + 1 \notin T
      BY <1>4, <3>1
    <3>3. ~(h[j] > 0) /\ h[j] \in Nat
      BY <1>1, <3>1, <3>2
    <3> QED BY <3>3
  <2> QED BY <1>0, <2>1, <2>2
<1>6. \E k \in Slots : h[k] > 0 /\ \A j \in Slots : j > k => h[j] = 0
  BY <1>5
<1>7. Back(h) = CHOOSE k \in Slots : h[k] > 0 /\ \A j \in Slots : j > k => h[j] = 0
  BY DEF Back
<1>8. Back(h) \in Slots /\ h[Back(h)] > 0 /\ \A j \in Slots : j > Back(h) => h[j] = 0
  BY <1>6, <1>7, Zenon
<1>9. Back(h) >= i
  BY <1>1, <1>8
<1> QED BY <1>8, <1>9

\* The hops the rules allow can be played.
LEMMA RuleCanPlay ==
  ASSUME NEW b, NEW i \in Slots, NEW d \in Dice, RuleAllows(b, i, d)
  PROVE  CanPlay(b, i, d)
BY DEF RuleAllows, CanPlay

\* The generator's test is the rule, for chequers not above the point it looks from.
LEMMA MayMoveIsRule ==
  ASSUME NEW p, Apart(p.board), p.iPip \in Int, p.iPip <= NPoints - 1, NEW i \in Slots, NEW n \in Dice
  PROVE  MayMove(p, i, n) <=> RuleAllows(p.board, i, n) /\ (i = Bar \/ i <= p.iPip)
<1> DEFINE b == p.board
           dest == i - n
           q == p.iPip
<1>1. /\ b[0] \in [Slots -> Nat] /\ b[1] \in [Slots -> Nat]
  BY DEF Apart, Boards
<1>2. /\ NPoints \in Nat /\ NHome \in 1..NPoints /\ NFaces \in Nat \ {0} /\ NFaces <= NPoints
      /\ Bar = NPoints /\ Bar \in Slots /\ i \in Nat /\ i <= NPoints /\ n \in Nat \ {0} /\ n <= NPoints
      /\ dest \in Int /\ dest < i
  BY BoardAssumption, ListAssumption DEF Bar, Slots, Dice
<1>3. CASE b[1][Bar] > 0
  <2>1. Bar - n >= 0 /\ Mirror(Bar - n) = n - 1
    BY <1>2 DEF Mirror
  <2>2. MayMove(p, i, n) <=> i = Bar /\ b[0][n - 1] < 2
    BY <1>3 DEF MayMove
  <2>3. RuleAllows(b, i, n) <=> i = Bar /\ b[0][n - 1] < 2
    BY <1>3, <2>1 DEF RuleAllows
  <2> QED BY <2>2, <2>3
<1>4. CASE ~(b[1][Bar] > 0)
  <2>1. MayMove(p, i, n) <=> i <= q /\ b[1][i] > 0 /\ LegalMove(b, i, n)
    BY <1>4 DEF MayMove
  <2>2. i # Bar => (b[1][i] > 0 => (LegalMove(b, i, n) <=> RuleAllows(b, i, n)))
    <3> SUFFICES ASSUME i # Bar, b[1][i] > 0
                 PROVE  LegalMove(b, i, n) <=> RuleAllows(b, i, n)
      OBVIOUS
    <3>1. CASE dest >= 0
      BY <1>4, <3>1 DEF LegalMove, RuleAllows
    <3>2. CASE ~(dest >= 0)
      <4> DEFINE k == Back(b[1])
                 h == b[1]
                 away == \A j \in NHome..NPoints : h[j] = 0
                 behind == \A j \in i + 1 .. NHome - 1 : h[j] = 0
                 back == IF k > 0 THEN k ELSE 0
      <4>1. k \in Slots /\ h[k] > 0 /\ k >= i /\ \A j \in Slots : j > k => h[j] = 0
        BY <1>1, BackIs
      <4>2. k \in Nat /\ k <= NPoints /\ back = k /\ h \in [Slots -> Nat]
        <5>1. h \in [Slots -> Nat]
          BY <1>1
        <5>2. k \in Slots
          BY <4>1
        <5> HIDE DEF k, h
        <5>3. k \in Nat /\ k <= NPoints
          BY <1>2, <5>2 DEF Slots
        <5> QED BY <5>1, <5>3
      <4>3. LegalMove(b, i, n) <=> k < NHome /\ (i = k \/ dest = -1)
        BY <3>2, <4>2 DEF LegalMove
      <4>4. RuleAllows(b, i, n) <=> away /\ (dest = -1 \/ behind)
        BY <1>4, <3>2 DEF RuleAllows
      <4> HIDE DEF k, h, away, behind, dest
      <4>5. k < NHome => away
        <5> SUFFICES ASSUME k < NHome, NEW j \in NHome..NPoints PROVE h[j] = 0
          BY DEF away
        <5>1. j \in Slots /\ j > k
          BY <1>2, <4>2 DEF Slots
        <5> QED BY <4>1, <5>1
      <4>6. away => k < NHome
        <5> SUFFICES ASSUME ~(k < NHome), away PROVE FALSE
          OBVIOUS
        <5>1. k \in NHome..NPoints
          BY <1>2, <4>2
        <5> QED BY <4>1, <5>1 DEF away
      <4>7. i = k => behind
        <5> SUFFICES ASSUME i = k, NEW j \in i + 1 .. NHome - 1 PROVE h[j] = 0
          BY DEF behind
        <5>1. j \in Slots /\ j > k
          BY <1>2, <4>2 DEF Slots
        <5> QED BY <4>1, <5>1
      <4>8. away /\ behind => i = k
        <5> SUFFICES ASSUME k < NHome, behind, i # k PROVE FALSE
          BY <4>6
        <5>1. k \in i + 1 .. NHome - 1
          BY <1>2, <4>1, <4>2
        <5> QED BY <4>1, <5>1 DEF behind
      <4> QED BY <4>3, <4>4, <4>5, <4>6, <4>7, <4>8
    <3> QED BY <3>1, <3>2
  <2>3. RuleAllows(b, i, n) => b[1][i] > 0
    BY DEF RuleAllows
  <2>4. i = Bar => ~(b[1][i] > 0) /\ ~(i <= q)
    BY <1>2, <1>4
  <2> HIDE DEF b, q
  <2>5. MayMove(p, i, n) <=> RuleAllows(b, i, n) /\ (i = Bar \/ i <= q)
    BY <2>1, <2>2, <2>3, <2>4
  <2> QED BY <2>5 DEF b, q
<1> QED BY <1>3, <1>4

---------------------------------------------------------------------------
(* The order of two hops of the same die.                                  *)

\* What lower, then upper chequer moved give is what upper, then lower give: the rules
\* allow both, for hops from points below the bar of a board with no point shared.
LEMMA Exchange ==
  ASSUME NEW b, Apart(b), NEW d \in Dice, NEW i \in Slots, NEW j \in Slots, i < j, j # Bar,
         RuleAllows(b, i, d), RuleAllows(Played(b, i, d), j, d)
  PROVE  /\ RuleAllows(b, j, d) /\ RuleAllows(Played(b, j, d), i, d)
         /\ Played(Played(b, j, d), i, d) = Played(Played(b, i, d), j, d)
<1> DEFINE bi == Played(b, i, d)
           bj == Played(b, j, d)
           bij == Played(bi, j, d)
           bji == Played(bj, i, d)
           di == i - d
           dj == j - d
           mi == Mirror(di)
           mj == Mirror(dj)
<1>0. /\ NPoints \in Nat /\ NHome \in 1..NPoints /\ d \in Nat \ {0}
      /\ i \in Nat /\ j \in Nat /\ j < NPoints /\ i < NPoints /\ Bar = NPoints /\ Bar \in Slots
      /\ di \in Int /\ dj \in Int /\ di < i /\ dj < j /\ di < dj
  BY BoardAssumption DEF Dice, Slots, Bar
<1>1. /\ dj >= 0 => mj \in 0 .. NPoints - 1 /\ dj \in 0 .. NPoints - 1
      /\ di >= 0 => mi \in 0 .. NPoints - 1 /\ di \in 0 .. NPoints - 1
      /\ di >= 0 => mi # mj
      /\ \A x \in 0 .. NPoints - 1 : x \in Slots
      /\ \A x \in Slots : x # Bar => x \in 0 .. NPoints - 1
  BY <1>0 DEF Mirror, Slots
<1>2. CanPlay(b, i, d)
  BY RuleCanPlay
<1>3. Apart(bi) /\ HopMakes(b, i, d, bi)
  BY <1>2, HopIs
<1>4. /\ b \in [0..1 -> [Slots -> Nat]] /\ bi \in [0..1 -> [Slots -> Nat]]
      /\ b[0] \in [Slots -> Nat] /\ b[1] \in [Slots -> Nat]
      /\ bi[0] \in [Slots -> Nat] /\ bi[1] \in [Slots -> Nat]
  BY <1>3 DEF Apart, Boards
<1>5. /\ \A x \in Slots : bi[1][x] = (b[1][x] - One(x = i)) + One(x = di)
      /\ \A x \in 0 .. NPoints - 1 : bi[0][x] = IF di >= 0 /\ x = mi THEN 0 ELSE b[0][x]
      /\ bi[0][Bar] = b[0][Bar] + One(di >= 0 /\ b[0][mi] = 1)
  BY <1>3 DEF HopMakes
<1> HIDE DEF bi
<1>6. /\ b[1][i] > 0 /\ (b[1][Bar] > 0 => i = Bar)
      /\ IF di >= 0 THEN b[0][mi] < 2
         ELSE /\ \A x \in NHome..NPoints : b[1][x] = 0
              /\ di = -1 \/ \A x \in i + 1 .. NHome - 1 : b[1][x] = 0
  BY DEF RuleAllows
<1>7. /\ bi[1][j] > 0
      /\ IF dj >= 0 THEN bi[0][mj] < 2
         ELSE /\ \A x \in NHome..NPoints : bi[1][x] = 0
              /\ dj = -1 \/ \A x \in j + 1 .. NHome - 1 : bi[1][x] = 0
  BY DEF RuleAllows, bi
<1>8. b[1][Bar] = 0
  BY <1>0, <1>4, <1>6
<1> HIDE DEF di, dj, mi, mj
<1>9. \A x \in Slots : x > i => bi[1][x] = b[1][x]
  <2> SUFFICES ASSUME NEW x \in Slots, x > i PROVE bi[1][x] = b[1][x]
    OBVIOUS
  <2>1. x \in Nat /\ x # i /\ x # di /\ b[1][x] \in Nat
    <3>1. x \in Nat
      BY <1>0 DEF Slots
    <3>2. x # i /\ x # di
      BY <1>0, <3>1
    <3> QED BY <1>4, <3>1, <3>2
  <2> QED BY <1>5, <2>1 DEF One
<1>10. RuleAllows(b, j, d)
  <2>1. b[1][j] > 0
    BY <1>7, <1>9
  <2>2. CASE dj >= 0
    BY <1>1, <1>5, <1>7, <1>8, <2>1, <2>2 DEF RuleAllows, dj, mj
  <2>3. CASE ~(dj >= 0)
    <3>1. di < 0
      BY <1>0, <2>3
    <3>2. \A x \in NHome..NPoints : b[1][x] = 0
      <4>1. ~(di >= 0)
        BY <1>0, <3>1
      <4> QED BY <1>6, <4>1, Zenon
    <3>3. dj = -1 \/ \A x \in j + 1 .. NHome - 1 : b[1][x] = 0
      <4> SUFFICES ASSUME dj # -1, NEW x \in j + 1 .. NHome - 1 PROVE b[1][x] = 0
        OBVIOUS
      <4>1. x \in Slots /\ x > i
        BY <1>0 DEF Slots
      <4>2. bi[1][x] = 0
        BY <1>7, <2>3
      <4> QED BY <1>9, <4>1, <4>2
    <3> QED BY <1>8, <2>1, <2>3, <3>2, <3>3 DEF RuleAllows, dj
  <2> QED BY <2>2, <2>3
<1>11. CanPlay(b, j, d)
  BY <1>10, RuleCanPlay
<1>12. Apart(bj) /\ HopMakes(b, j, d, bj)
  BY <1>11, HopIs
<1>13. bj \in [0..1 -> [Slots -> Nat]] /\ bj[0] \in [Slots -> Nat] /\ bj[1] \in [Slots -> Nat]
  BY <1>12 DEF Apart, Boards
<1>14. /\ \A x \in Slots : bj[1][x] = (b[1][x] - One(x = j)) + One(x = dj)
       /\ \A x \in 0 .. NPoints - 1 : bj[0][x] = IF dj >= 0 /\ x = mj THEN 0 ELSE b[0][x]
       /\ bj[0][Bar] = b[0][Bar] + One(dj >= 0 /\ b[0][mj] = 1)
  BY <1>12 DEF HopMakes, dj, mj
<1> HIDE DEF bj
<1>15. RuleAllows(bj, i, d)
  <2>1. bj[1][i] > 0 /\ bj[1][Bar] = 0
    BY <1>0, <1>4, <1>6, <1>8, <1>14 DEF One
  <2>2. CASE di >= 0
    BY <1>1, <1>6, <1>14, <2>1, <2>2 DEF RuleAllows, di, mi
  <2>3. CASE ~(di >= 0)
    <3>1. /\ \A x \in NHome..NPoints : b[1][x] = 0
          /\ di = -1 \/ \A x \in i + 1 .. NHome - 1 : b[1][x] = 0
      BY <1>6, <2>3
    <3>2. b[1][j] > 0 /\ j < NHome
      <4>1. b[1][j] > 0
        BY <1>7, <1>9
      <4>2. ~(j \in NHome..NPoints)
        BY <3>1, <4>1
      <4> QED BY <1>0, <4>1, <4>2
    <3>3. di = -1
      BY <1>0, <3>1, <3>2
    <3>4. ASSUME NEW x \in NHome..NPoints PROVE bj[1][x] = 0
      BY <1>0, <1>14, <3>1, <3>2 DEF One, Slots
    <3> QED BY <2>1, <2>3, <3>3, <3>4 DEF RuleAllows, di
  <2> QED BY <2>2, <2>3
<1>16. Apart(bij) /\ HopMakes(bi, j, d, bij)
  BY <1>3, HopIs, RuleCanPlay DEF bi
<1>17. Apart(bji) /\ HopMakes(bj, i, d, bji)
  BY <1>12, <1>15, HopIs, RuleCanPlay
<1>18. /\ \A x \in Slots : bij[1][x] = (bi[1][x] - One(x = j)) + One(x = dj)
       /\ \A x \in 0 .. NPoints - 1 : bij[0][x] = IF dj >= 0 /\ x = mj THEN 0 ELSE bi[0][x]
       /\ bij[0][Bar] = bi[0][Bar] + One(dj >= 0 /\ bi[0][mj] = 1)
  BY <1>16 DEF HopMakes, dj, mj
<1>19. /\ \A x \in Slots : bji[1][x] = (bj[1][x] - One(x = i)) + One(x = di)
       /\ \A x \in 0 .. NPoints - 1 : bji[0][x] = IF di >= 0 /\ x = mi THEN 0 ELSE bj[0][x]
       /\ bji[0][Bar] = bj[0][Bar] + One(di >= 0 /\ bj[0][mi] = 1)
  BY <1>17 DEF HopMakes, di, mi
<1>20. bij \in [0..1 -> [Slots -> Nat]] /\ bji \in [0..1 -> [Slots -> Nat]]
  BY <1>16, <1>17 DEF Apart, Boards
<1> HIDE DEF bij, bji
<1>21. ASSUME NEW x \in Slots PROVE bij[1][x] = bji[1][x]
  <2>1. /\ bij[1][x] = (((b[1][x] - One(x = i)) + One(x = di)) - One(x = j)) + One(x = dj)
        /\ bji[1][x] = (((b[1][x] - One(x = j)) + One(x = dj)) - One(x = i)) + One(x = di)
    BY <1>5, <1>14, <1>18, <1>19
  <2>2. b[1][x] \in Int /\ \A c \in BOOLEAN : One(c) \in Int
    BY <1>4 DEF One
  <2>3. One(x = i) \in Int /\ One(x = di) \in Int /\ One(x = j) \in Int /\ One(x = dj) \in Int
    BY DEF One
  <2> DEFINE a1 == One(x = i)
             a2 == One(x = di)
             a3 == One(x = j)
             a4 == One(x = dj)
             a0 == b[1][x]
  <2>4. a0 \in Int /\ a1 \in Int /\ a2 \in Int /\ a3 \in Int /\ a4 \in Int
    BY <2>2, <2>3
  <2>5. bij[1][x] = (((a0 - a1) + a2) - a3) + a4 /\ bji[1][x] = (((a0 - a3) + a4) - a1) + a2
    BY <2>1
  <2> HIDE DEF a0, a1, a2, a3, a4
  <2> QED BY <2>4, <2>5
<1>22. \A x \in 0 .. NPoints - 1 : bij[0][x] = bji[0][x]
  BY <1>5, <1>14, <1>18, <1>19
<1>23. bij[0][Bar] = bji[0][Bar]
  <2> DEFINE ci == One(di >= 0 /\ b[0][mi] = 1)
             cj == One(dj >= 0 /\ b[0][mj] = 1)
  <2>1. One(dj >= 0 /\ bi[0][mj] = 1) = cj
    BY <1>1, <1>5 DEF One
  <2>2. One(di >= 0 /\ bj[0][mi] = 1) = ci
    BY <1>1, <1>14 DEF One
  <2>3. b[0][Bar] \in Int /\ ci \in Int /\ cj \in Int
    BY <1>0, <1>4 DEF One
  <2>4. bij[0][Bar] = (b[0][Bar] + ci) + cj /\ bji[0][Bar] = (b[0][Bar] + cj) + ci
    BY <1>5, <1>14, <1>18, <1>19, <2>1, <2>2
  <2> HIDE DEF ci, cj
  <2> QED BY <2>3, <2>4
<1>24. bij = bji
  <2>1. \A x \in Slots : bij[0][x] = bji[0][x]
    BY <1>1, <1>22, <1>23
  <2>2. bij[0] = bji[0] /\ bij[1] = bji[1]
    BY <1>20, <1>21, <2>1
  <2> QED BY <1>20, <2>2
<1> QED BY <1>10, <1>15, <1>24 DEF bij, bji, bi, bj

---------------------------------------------------------------------------
(* The tree of plays, hop by hop, and the ways the rules allow.            *)

IsRoll(r) == Len(r) \in {2, 4} /\ DOMAIN r = 1..Len(r) /\ \A k \in 1..Len(r) : r[k] \in Dice

None(b) == [an |-> <<>>, cPip |-> 0, board |-> b, iPip |-> NPoints - 1]

\* The plays one hop longer than this one.
Kids(p, r) == IF Len(p.an) = Len(r) THEN {} ELSE Nexts(p, r)

\* t[k] are the plays of k hops.
Grows(t, b, r) == t[0] = {None(b)} /\ \A k \in 1..4 : t[k] = UNION {Kids(p, r) : p \in t[k - 1]}

\* w[k] are the ways to play k of the dice.
Reach(w, b, r) ==
    /\ w[0] = {[board |-> b, left |-> DOMAIN r, n |-> 0, pips |-> 0]}
    /\ \A k \in 1..4 : w[k] = PlayedOn(w[k - 1], r)

\* There is such a tree.
LEMMA TreeGrows == ASSUME NEW b, NEW r PROVE \E t : Grows(t, b, r)
<1> DEFINE On(P) == UNION {Kids(p, r) : p \in P}
           t0 == {None(b)}
           t1 == On(t0)
           t2 == On(t1)
           t3 == On(t2)
           t4 == On(t3)
           t == [k \in 0..4 |-> IF k = 0 THEN t0 ELSE IF k = 1 THEN t1 ELSE IF k = 2 THEN t2
                                ELSE IF k = 3 THEN t3 ELSE t4]
<1>1. t1 = On(t0) /\ t2 = On(t1) /\ t3 = On(t2) /\ t4 = On(t3)
  OBVIOUS
<1> HIDE DEF On, t1, t2, t3, t4, t0
<1>2. t[0] = t0 /\ t[1] = t1 /\ t[2] = t2 /\ t[3] = t3 /\ t[4] = t4
  OBVIOUS
<1> HIDE DEF t
<1>3. ASSUME NEW k \in 1..4 PROVE t[k] = On(t[k - 1])
  BY <1>1, <1>2
<1> QED BY <1>2, <1>3 DEF Grows, On, t0

\* There are such ways, and all of them are the ways the rules allow.
LEMMA WaysReach ==
  ASSUME NEW b, NEW r
  PROVE  \E w : Reach(w, b, r) /\ Ways(b, r) = UNION {w[k] : k \in 0..4}
<1> DEFINE On(P) == PlayedOn(P, r)
           t0 == {[board |-> b, left |-> DOMAIN r, n |-> 0, pips |-> 0]}
           t1 == On(t0)
           t2 == On(t1)
           t3 == On(t2)
           t4 == On(t3)
           t == [k \in 0..4 |-> IF k = 0 THEN t0 ELSE IF k = 1 THEN t1 ELSE IF k = 2 THEN t2
                                ELSE IF k = 3 THEN t3 ELSE t4]
<1>1. t1 = On(t0) /\ t2 = On(t1) /\ t3 = On(t2) /\ t4 = On(t3)
  OBVIOUS
<1>2. Ways(b, r) = t0 \cup t1 \cup t2 \cup t3 \cup t4
  BY Zenon DEF Ways
<1> HIDE DEF On, t1, t2, t3, t4, t0
<1>3. t[0] = t0 /\ t[1] = t1 /\ t[2] = t2 /\ t[3] = t3 /\ t[4] = t4
  OBVIOUS
<1> HIDE DEF t
<1>4. ASSUME NEW k \in 1..4 PROVE t[k] = On(t[k - 1])
  BY <1>1, <1>3
<1>5. UNION {t[k] : k \in 0..4} = t0 \cup t1 \cup t2 \cup t3 \cup t4
  <2>1. ASSUME NEW k \in 0..4 PROVE t[k] \subseteq t0 \cup t1 \cup t2 \cup t3 \cup t4
    BY <1>3
  <2>2. 0 \in 0..4 /\ 1 \in 0..4 /\ 2 \in 0..4 /\ 3 \in 0..4 /\ 4 \in 0..4
    OBVIOUS
  <2> QED BY <1>3, <2>1, <2>2
<1> QED BY <1>2, <1>3, <1>4, <1>5 DEF Reach, On, t0

\* The plays of a tree that go no further.
Leaves(t, r) == {p \in UNION {t[k] : k \in 0..4} : Kids(p, r) = {}}

\* The plays saved are those laid out four times.
LEMMA StreamUnfolds ==
  ASSUME NEW r, NEW b
  PROVE  GenerateMovesSub(r, b) = Deeper(Deeper(Deeper(Deeper(<<None(b)>>, r), r), r), r)
<1> DEFINE s0 == <<None(b)>>
           s1 == Deeper(s0, r)
           s2 == Deeper(s1, r)
           s3 == Deeper(s2, r)
           s4 == Deeper(s3, r)
           P(f) == f = [hops \in 0..4 |-> IF hops = 0 THEN <<None(b)>> ELSE Deeper(f[hops - 1], r)]
           c == CHOOSE f : P(f)
           by == [k \in 0..4 |-> IF k = 0 THEN s0 ELSE IF k = 1 THEN s1 ELSE IF k = 2 THEN s2
                                 ELSE IF k = 3 THEN s3 ELSE s4]
<1>1. GenerateMovesSub(r, b) = c[4]
  BY Zenon DEF GenerateMovesSub, None
<1>2. s1 = Deeper(s0, r) /\ s2 = Deeper(s1, r) /\ s3 = Deeper(s2, r) /\ s4 = Deeper(s3, r) /\ s0 = <<None(b)>>
  OBVIOUS
<1> HIDE DEF s0, s1, s2, s3, s4
<1>3. P(by)
  <2>1. by[0] = s0 /\ by[1] = s1 /\ by[2] = s2 /\ by[3] = s3 /\ by[4] = s4
    OBVIOUS
  <2>2. by = [k \in 0..4 |-> by[k]]
    OBVIOUS
  <2> HIDE DEF by
  <2>3. ASSUME NEW k \in 0..4
        PROVE  by[k] = IF k = 0 THEN <<None(b)>> ELSE Deeper(by[k - 1], r)
    BY <1>2, <2>1
  <2> QED BY <2>2, <2>3
<1> HIDE DEF by
<1>4. P(c)
  BY <1>3
<1> HIDE DEF c
<1>5. c[0] = s0 /\ c[1] = Deeper(c[0], r) /\ c[2] = Deeper(c[1], r)
      /\ c[3] = Deeper(c[2], r) /\ c[4] = Deeper(c[3], r)
  BY <1>2, <1>4
<1> QED BY <1>1, <1>2, <1>5

\* They are what one order of the dice is searched for.
LEMMA StreamIs ==
  ASSUME NEW b, NEW r, NEW t, Grows(t, b, r), \A p \in t[4] : Kids(p, r) = {}
  PROVE  /\ IsList(GenerateMovesSub(r, b))
         /\ Range(GenerateMovesSub(r, b)) = Leaves(t, r)
<1> DEFINE Ends(P) == {p \in P : Kids(p, r) = {}}
           On(P) == UNION {Kids(p, r) : p \in P}
           Far(P) == UNION {Further(p, r) : p \in P}
           s0 == <<None(b)>>
           s1 == Deeper(s0, r)
           s2 == Deeper(s1, r)
           s3 == Deeper(s2, r)
           s4 == Deeper(s3, r)
<1>1. GenerateMovesSub(r, b) = s4
  BY StreamUnfolds
<1>2. \A p : Further(p, r) = IF Kids(p, r) = {} THEN {p} ELSE Kids(p, r)
  BY DEF Further, Kids
<1>3. \A P, Q : (\A q \in Q : Kids(q, r) = {}) => Far(P \cup Q) = On(P) \cup Ends(P) \cup Q
  <2> SUFFICES ASSUME NEW P, NEW Q, \A q \in Q : Kids(q, r) = {}
               PROVE  Far(P \cup Q) = On(P) \cup Ends(P) \cup Q
    OBVIOUS
  <2>1. Far(P \cup Q) \subseteq On(P) \cup Ends(P) \cup Q
    BY <1>2
  <2>2. Q \subseteq Far(P \cup Q)
    BY <1>2
  <2>3. Ends(P) \subseteq Far(P \cup Q)
    BY <1>2
  <2>4. On(P) \subseteq Far(P \cup Q)
    <3> SUFFICES ASSUME NEW p \in P, NEW q \in Kids(p, r) PROVE q \in Far(P \cup Q)
      OBVIOUS
    <3>1. q \in Further(p, r) /\ p \in P \cup Q
      BY <1>2
    <3> QED BY <3>1
  <2> QED BY <2>1, <2>2, <2>3, <2>4
<1>4. IsList(s0) /\ Range(s0) = t[0]
  BY SingletonList DEF Range, Grows
<1>5. t[1] = On(t[0]) /\ t[2] = On(t[1]) /\ t[3] = On(t[2]) /\ t[4] = On(t[3])
  BY DEF Grows
<1>6. \A P : \A q \in Ends(P) : Kids(q, r) = {}
  OBVIOUS
<1>7. \A s : IsList(s) => IsList(Deeper(s, r)) /\ Range(Deeper(s, r)) = Far(Range(s))
  BY DeeperIs
<1> HIDE DEF On, Far
<1>8. IsList(s1) /\ Range(s1) = t[1] \cup Ends(t[0])
  <2>1. Far(t[0] \cup {}) = On(t[0]) \cup Ends(t[0]) \cup {}
    BY <1>3
  <2> QED BY <1>4, <1>5, <1>7, <2>1
<1> HIDE DEF s1
<1>9. IsList(s2) /\ Range(s2) = t[2] \cup (Ends(t[0]) \cup Ends(t[1]))
  <2>1. Far(t[1] \cup Ends(t[0])) = On(t[1]) \cup Ends(t[1]) \cup Ends(t[0])
    BY <1>3, <1>6
  <2> QED BY <1>5, <1>7, <1>8, <2>1
<1> HIDE DEF s2
<1>10. IsList(s3) /\ Range(s3) = t[3] \cup (Ends(t[0]) \cup Ends(t[1]) \cup Ends(t[2]))
  <2> DEFINE Q == Ends(t[0]) \cup Ends(t[1])
  <2>0. \A q \in Q : Kids(q, r) = {}
    OBVIOUS
  <2>1. Far(t[2] \cup Q) = On(t[2]) \cup Ends(t[2]) \cup Q
    <3> HIDE DEF Q, Ends
    <3> QED BY <1>3, <2>0
  <2> QED BY <1>5, <1>7, <1>9, <2>1
<1> HIDE DEF s3
<1>11. IsList(s4) /\ Range(s4) = t[4] \cup (Ends(t[0]) \cup Ends(t[1]) \cup Ends(t[2]) \cup Ends(t[3]))
  <2> DEFINE Q == Ends(t[0]) \cup Ends(t[1]) \cup Ends(t[2])
  <2>0. \A q \in Q : Kids(q, r) = {}
    OBVIOUS
  <2>1. Far(t[3] \cup Q) = On(t[3]) \cup Ends(t[3]) \cup Q
    <3> HIDE DEF Q, Ends
    <3> QED BY <1>3, <2>0
  <2> QED BY <1>5, <1>7, <1>10, <2>1
<1>12. t[4] = Ends(t[4])
  OBVIOUS
<1>13. Leaves(t, r) = Ends(t[0]) \cup Ends(t[1]) \cup Ends(t[2]) \cup Ends(t[3]) \cup Ends(t[4])
  <2>1. 0 \in 0..4 /\ 1 \in 0..4 /\ 2 \in 0..4 /\ 3 \in 0..4 /\ 4 \in 0..4
    OBVIOUS
  <2>2. \A k \in 0..4 : k = 0 \/ k = 1 \/ k = 2 \/ k = 3 \/ k = 4
    OBVIOUS
  <2>3. Leaves(t, r) \subseteq Ends(t[0]) \cup Ends(t[1]) \cup Ends(t[2]) \cup Ends(t[3]) \cup Ends(t[4])
    BY <2>2 DEF Leaves
  <2>4. \A k \in 0..4 : Ends(t[k]) \subseteq Leaves(t, r)
    BY DEF Leaves
  <2> QED BY <2>1, <2>3, <2>4
<1> QED BY <1>1, <1>11, <1>12, <1>13

\* A way played on by the die at one of its places.
WayOn(v, k, i, r) == [board |-> Played(v.board, i, r[k]), left |-> v.left \ {k},
                      n |-> v.n + 1, pips |-> v.pips + r[k]]

\* A way the rules allow to be played on is.
LEMMA WayGoesOn ==
  ASSUME NEW W, NEW r, NEW v \in W, NEW k \in v.left, NEW i \in Slots, RuleAllows(v.board, i, r[k])
  PROVE  WayOn(v, k, i, r) \in PlayedOn(W, r)
<1> DEFINE On(x, y) == {WayOn(x, y, z, r) : z \in {z \in Slots : RuleAllows(x.board, z, r[y])}}
<1>1. PlayedOn(W, r) = UNION {UNION {On(x, y) : y \in x.left} : x \in W}
  BY Zenon DEF PlayedOn, WayOn, Played
<1>2. WayOn(v, k, i, r) \in On(v, k)
  OBVIOUS
<1> HIDE DEF On
<1>3. WayOn(v, k, i, r) \in UNION {On(v, y) : y \in v.left}
  BY <1>2
<1> QED BY <1>1, <1>3

From(u, W, v, k, i, r) ==
    /\ v \in W /\ k \in v.left /\ i \in Slots
    /\ RuleAllows(v.board, i, r[k]) /\ u = WayOn(v, k, i, r)

\* And a way played on came from one.
LEMMA WayCameFrom ==
  ASSUME NEW W, NEW r, NEW u \in PlayedOn(W, r)
  PROVE  \E v, k, i : From(u, W, v, k, i, r)
<1> DEFINE On(x, y) == {WayOn(x, y, z, r) : z \in {z \in Slots : RuleAllows(x.board, z, r[y])}}
<1>1. PlayedOn(W, r) = UNION {UNION {On(x, y) : y \in x.left} : x \in W}
  BY Zenon DEF PlayedOn, WayOn, Played
<1> HIDE DEF On
<1>2. PICK v \in W : \E y \in v.left : u \in On(v, y)
  BY <1>1
<1>3. PICK k \in v.left : u \in On(v, k)
  BY <1>2
<1>4. PICK i \in {z \in Slots : RuleAllows(v.board, z, r[k])} : u = WayOn(v, k, i, r)
  BY <1>3 DEF On
<1> QED BY <1>4 DEF From

\* The die for the next hop.
LEMMA NextPlace ==
  ASSUME NEW r, IsRoll(r), NEW k \in Nat, k < Len(r)
  PROVE  k + 1 \in 1..Len(r) /\ r[k + 1] \in Dice
<1>1. Len(r) \in Nat
  BY DEF IsRoll
<1>2. k + 1 \in 1..Len(r)
  BY <1>1
<1> QED BY <1>2 DEF IsRoll

\* A play under way after k hops.
Under(p, k, r) ==
    /\ IsList(p.an) /\ Len(p.an) = k /\ k <= Len(r)
    /\ Legal(p.board) /\ p.cPip \in Nat /\ p.iPip \in Int /\ p.iPip <= NPoints - 1

\* As a way to play the dice in their order.
AsWay(p, k, r) == [board |-> p.board, left |-> (k + 1) .. Len(r), n |-> k, pips |-> p.cPip]

\* The next hops of a play are those the rules allow, from the bar or from iPip downwards.
NextBy(p, k, r, i) ==
    i \in Slots /\ RuleAllows(p.board, i, r[k + 1]) /\ (i = Bar \/ i <= p.iPip)

\* The plays one hop longer, by the rules.
LEMMA KidsAre ==
  ASSUME NEW r, IsRoll(r), NEW k \in Nat, NEW p, Under(p, k, r)
  PROVE  Kids(p, r) = IF k = Len(r) THEN {} ELSE {Moved(p, i, r) : i \in {j \in Slots : NextBy(p, k, r, j)}}
<1>1. CASE k = Len(r)
  BY <1>1 DEF Kids, Under
<1>2. CASE k # Len(r)
  <2> DEFINE d == r[k + 1]
  <2>1. d \in Dice /\ Apart(p.board)
    <3>1. k < Len(r)
      <4>1. Len(r) \in Nat /\ k <= Len(r)
        BY DEF Under, IsRoll
      <4> QED BY <1>2, <4>1
    <3>2. d \in Dice
      BY <3>1, NextPlace
    <3> QED BY <3>2 DEF Under, Legal
  <2> HIDE DEF d
  <2>2. \A i \in Slots : MayMove(p, i, d) <=> RuleAllows(p.board, i, d) /\ (i = Bar \/ i <= p.iPip)
    BY <2>1, MayMoveIsRule DEF Under
  <2>3. Nexts(p, r) = {Moved(p, i, r) : i \in {j \in Slots : MayMove(p, j, d)}}
    BY DEF Nexts, Under, d
  <2>4. Kids(p, r) = Nexts(p, r)
    BY <1>2 DEF Kids, Under
  <2>5. {j \in Slots : MayMove(p, j, d)} = {j \in Slots : NextBy(p, k, r, j)}
    BY <2>2 DEF NextBy, d
  <2> QED BY <1>2, <2>3, <2>4, <2>5
<1> QED BY <1>1, <1>2

\* q is p with a hop more.
IsKid(q, p, k, r, i) ==
    /\ Under(q, k + 1, r)
    /\ q.board = Played(p.board, i, r[k + 1])
    /\ q.cPip = p.cPip + r[k + 1]
    /\ q.an = Append(p.an, <<i, i - r[k + 1]>>)
    /\ q.iPip = IF r[1] = r[2] /\ i # Bar THEN i ELSE NPoints - 1

\* Such a play is under way, one hop further.
LEMMA KidUnder ==
  ASSUME NEW r, IsRoll(r), NEW k \in Nat, NEW p, Under(p, k, r), k < Len(r), NEW i, NextBy(p, k, r, i)
  PROVE  IsKid(Moved(p, i, r), p, k, r, i)
<1> DEFINE d == r[k + 1]
           q == Moved(p, i, r)
<1>1. d \in Dice /\ i \in Slots /\ NPoints \in Nat /\ RuleAllows(p.board, i, d)
  <2>1. d \in Dice
    BY NextPlace
  <2> QED BY <2>1, BoardAssumption DEF NextBy
<1>2. q = [an |-> Append(p.an, <<i, i - d>>), cPip |-> p.cPip + d,
           board |-> Played(p.board, i, d),
           iPip |-> IF r[1] = r[2] /\ i # Bar THEN i ELSE NPoints - 1]
  BY DEF Moved, Played, Under
<1> HIDE DEF d, q
<1>3. CanPlay(p.board, i, d)
  BY <1>1, RuleCanPlay
<1>4. Legal(Played(p.board, i, d))
  BY <1>3, HopKeepsLegal DEF Under
<1>5. IsList(q.an) /\ Len(q.an) = k + 1
  BY <1>2, AppendedRange DEF Under
<1>6. q.cPip \in Nat
  <2>1. d \in Nat
    BY <1>1, BoardAssumption DEF Dice
  <2> QED BY <1>2, <2>1 DEF Under
<1>7. q.iPip \in Int /\ q.iPip <= NPoints - 1
  BY <1>1, <1>2 DEF Slots, Bar
<1>8. k + 1 <= Len(r)
  BY DEF IsRoll
<1>9. Under(q, k + 1, r)
  BY <1>2, <1>4, <1>5, <1>6, <1>7, <1>8 DEF Under
<1> QED BY <1>2, <1>9 DEF q, d, IsKid

\* Every play of a tree is legal, and one of the ways the rules allow.
LEMMA TreeIsSound ==
  ASSUME NEW b, Legal(b), NEW r, IsRoll(r), NEW t, Grows(t, b, r), NEW w, Reach(w, b, r)
  PROVE  \A k \in 0..4 : \A p \in t[k] : Under(p, k, r) /\ AsWay(p, k, r) \in w[k]
<1> DEFINE A == {m \in Nat : m <= 4 => \A p \in t[m] : Under(p, m, r) /\ AsWay(p, m, r) \in w[m]}
<1>1. 0 \in A
  <2> SUFFICES ASSUME NEW p \in t[0] PROVE Under(p, 0, r) /\ AsWay(p, 0, r) \in w[0]
    OBVIOUS
  <2>1. p = None(b) /\ NPoints \in Nat
    BY BoardAssumption DEF Grows
  <2>2. Under(p, 0, r)
    BY <2>1, EmptyList DEF Under, None, IsRoll
  <2>3. AsWay(p, 0, r) = [board |-> b, left |-> DOMAIN r, n |-> 0, pips |-> 0]
    BY <2>1 DEF AsWay, None, IsRoll
  <2> QED BY <2>2, <2>3 DEF Reach
<1>2. ASSUME NEW m \in Nat, m \in A PROVE m + 1 \in A
  <2> SUFFICES ASSUME m + 1 <= 4, NEW q \in t[m + 1]
               PROVE  Under(q, m + 1, r) /\ AsWay(q, m + 1, r) \in w[m + 1]
    OBVIOUS
  <2>1. m + 1 \in 1..4 /\ (m + 1) - 1 = m /\ m <= 4
    OBVIOUS
  <2>2. PICK p \in t[m] : q \in Kids(p, r)
    BY <2>1 DEF Grows
  <2>3. Under(p, m, r) /\ AsWay(p, m, r) \in w[m]
    BY <1>2, <2>1
  <2>4. m # Len(r)
    BY <2>2, <2>3, KidsAre
  <2>5. PICK i \in Slots : NextBy(p, m, r, i) /\ q = Moved(p, i, r)
    BY <2>2, <2>3, <2>4, KidsAre
  <2>6. m < Len(r)
    BY <2>3, <2>4 DEF Under, IsRoll
  <2>7. /\ Under(q, m + 1, r) /\ q.board = Played(p.board, i, r[m + 1])
        /\ q.cPip = p.cPip + r[m + 1]
    BY <2>3, <2>5, <2>6, KidUnder DEF IsKid
  <2>8. w[m + 1] = PlayedOn(w[m], r)
    BY <2>1 DEF Reach
  <2> DEFINE v == AsWay(p, m, r)
  <2>9. /\ v.board = p.board /\ v.left = (m + 1) .. Len(r) /\ v.n = m /\ v.pips = p.cPip /\ v \in w[m]
    BY <2>3 DEF AsWay
  <2>10. AsWay(q, m + 1, r) = WayOn(v, m + 1, i, r)
    <3>1. ((m + 1) .. Len(r)) \ {m + 1} = ((m + 1) + 1) .. Len(r)
      BY DEF IsRoll
    <3> QED BY <2>7, <2>9, <3>1 DEF AsWay, WayOn
  <2>11. m + 1 \in v.left
    BY <2>6, <2>9 DEF IsRoll
  <2>12. RuleAllows(v.board, i, r[m + 1])
    BY <2>5, <2>9 DEF NextBy
  <2> HIDE DEF v
  <2>13. AsWay(q, m + 1, r) \in PlayedOn(w[m], r)
    BY <2>9, <2>10, <2>11, <2>12, WayGoesOn
  <2> QED BY <2>7, <2>8, <2>13
<1>3. Nat \subseteq A
  <2> HIDE DEF A
  <2> QED BY <1>1, <1>2, SetInduction
<1> QED BY <1>3

\* The longest plays of a tree end there.
LEMMA TreeEnds ==
  ASSUME NEW b, Legal(b), NEW r, IsRoll(r), NEW t, Grows(t, b, r)
  PROVE  \A p \in t[4] : Kids(p, r) = {}
<1> SUFFICES ASSUME NEW p \in t[4] PROVE Kids(p, r) = {}
  OBVIOUS
<1>1. PICK w : Reach(w, b, r)
  BY WaysReach
<1>2. Under(p, 4, r)
  BY <1>1, TreeIsSound
<1>3. Len(r) = 4
  BY <1>2 DEF Under, IsRoll
<1> QED BY <1>2, <1>3 DEF Kids, Under

\* What the ways are.
WayTyped(v, k, r) ==
    /\ v = [board |-> v.board, left |-> v.left, n |-> k, pips |-> v.pips]
    /\ Legal(v.board) /\ v.left \subseteq 1..Len(r) /\ v.pips \in Nat

\* So are they all.
LEMMA WaysTyped ==
  ASSUME NEW b, Legal(b), NEW r, IsRoll(r), NEW w, Reach(w, b, r)
  PROVE  \A k \in 0..4 : \A v \in w[k] : WayTyped(v, k, r)
<1> DEFINE A == {m \in Nat : m <= 4 => \A v \in w[m] : WayTyped(v, m, r)}
<1>1. 0 \in A
  <2> SUFFICES ASSUME NEW v \in w[0] PROVE WayTyped(v, 0, r)
    OBVIOUS
  <2>1. v = [board |-> b, left |-> 1..Len(r), n |-> 0, pips |-> 0]
    BY DEF Reach, IsRoll
  <2> QED BY <2>1 DEF WayTyped
<1>2. ASSUME NEW m \in Nat, m \in A PROVE m + 1 \in A
  <2> SUFFICES ASSUME m + 1 <= 4, NEW u \in w[m + 1] PROVE WayTyped(u, m + 1, r)
    OBVIOUS
  <2>1. m + 1 \in 1..4 /\ (m + 1) - 1 = m /\ m <= 4
    OBVIOUS
  <2>2. u \in PlayedOn(w[m], r)
    BY <2>1 DEF Reach
  <2>3. PICK v, k, i : From(u, w[m], v, k, i, r)
    BY <2>2, WayCameFrom
  <2>4. WayTyped(v, m, r)
    BY <1>2, <2>1, <2>3 DEF From
  <2>5. r[k] \in Dice
    BY <2>3, <2>4 DEF WayTyped, IsRoll, From
  <2>6. CanPlay(v.board, i, r[k])
    BY <2>3, <2>5, RuleCanPlay DEF From
  <2>7. Legal(Played(v.board, i, r[k]))
    BY <2>4, <2>6, HopKeepsLegal DEF WayTyped
  <2>8. r[k] \in Nat
    BY <2>5, BoardAssumption DEF Dice
  <2>9. v.n = m /\ v.pips \in Nat /\ v.left \subseteq 1..Len(r)
    BY <2>4 DEF WayTyped
  <2>10. /\ u.board = Played(v.board, i, r[k]) /\ u.left = v.left \ {k} /\ u.n = m + 1
         /\ u.pips = v.pips + r[k]
         /\ u = [board |-> u.board, left |-> u.left, n |-> u.n, pips |-> u.pips]
    BY <2>3, <2>9 DEF WayOn, From
  <2>11. u.pips \in Nat
    BY <2>8, <2>9, <2>10
  <2> QED BY <2>7, <2>9, <2>10, <2>11 DEF WayTyped
<1>3. Nat \subseteq A
  <2> HIDE DEF A
  <2> QED BY <1>1, <1>2, SetInduction
<1> QED BY <1>3

\* A play of the tree goes on by every hop that is looked for.
LEMMA TreeGoesOn ==
  ASSUME NEW b, NEW r, IsRoll(r), NEW t, Grows(t, b, r), NEW k \in 0..3, NEW p \in t[k],
         Under(p, k, r), k < Len(r), NEW i, NextBy(p, k, r, i)
  PROVE  Moved(p, i, r) \in t[k + 1]
<1>1. k \in Nat /\ k + 1 \in 1..4 /\ (k + 1) - 1 = k
  OBVIOUS
<1>2. Moved(p, i, r) \in Kids(p, r)
  <2>1. i \in {j \in Slots : NextBy(p, k, r, j)}
    BY DEF NextBy
  <2>2. Kids(p, r) = {Moved(p, j, r) : j \in {j \in Slots : NextBy(p, k, r, j)}}
    BY <1>1, KidsAre
  <2> QED BY <2>1, <2>2
<1>3. t[k + 1] = UNION {Kids(q, r) : q \in t[k]}
  BY <1>1 DEF Grows
<1> QED BY <1>2, <1>3

---------------------------------------------------------------------------
(* A double: the search leaves out only other orders of the same hops.     *)

IsDouble(r, d) == IsRoll(r) /\ Len(r) = 4 /\ \A k \in 1..4 : r[k] = d

\* What a play of a double leaves out, a chequer above iPip, a play with the same board has
\* moved before: the two hops are exchanged.
LEMMA DoubleStep ==
  ASSUME NEW b, Legal(b), NEW r, NEW d, IsDouble(r, d), NEW t, Grows(t, b, r)
  PROVE  \A k \in 0..3 : \A p \in t[k], j \in Slots : RuleAllows(p.board, j, d) =>
            \E q \in t[k + 1] : /\ q.board = Played(p.board, j, d)
                                /\ q.iPip >= j \/ q.iPip >= p.iPip
<1> DEFINE Goes(m, p, j) == \E q \in t[m + 1] : /\ q.board = Played(p.board, j, d)
                                                /\ q.iPip >= j \/ q.iPip >= p.iPip
           A == {m \in Nat : m <= 3 => \A p \in t[m], j \in Slots : RuleAllows(p.board, j, d) => Goes(m, p, j)}
<1>1. PICK w : Reach(w, b, r)
  BY WaysReach
<1>2. \A k \in 0..4 : \A p \in t[k] : Under(p, k, r)
  BY <1>1, TreeIsSound DEF IsDouble
<1>3. /\ IsRoll(r) /\ Len(r) = 4 /\ \A k \in 0..3 : r[k + 1] = d
      /\ r[1] = r[2] /\ d \in Dice
  <2>1. IsRoll(r) /\ Len(r) = 4 /\ r[1] = d /\ r[2] = d /\ \A k \in 1..4 : r[k] = d
    BY DEF IsDouble
  <2>2. \A k \in 0..3 : k + 1 \in 1..4
    OBVIOUS
  <2>3. d \in Dice
    BY <2>1 DEF IsRoll
  <2> QED BY <2>1, <2>2, <2>3
<1>4. NPoints \in Nat /\ Bar = NPoints /\ \A x \in Slots : x \in Nat /\ x <= NPoints
  BY BoardAssumption DEF Bar, Slots
\* A hop that is looked for.
<1>5. ASSUME NEW m \in 0..3, NEW p \in t[m], NEW i \in Slots, RuleAllows(p.board, i, d),
             i = Bar \/ i <= p.iPip
      PROVE  \E q \in t[m + 1] : /\ q.board = Played(p.board, i, d)
                                 /\ q.iPip = IF i # Bar THEN i ELSE NPoints - 1
  <2>1. Under(p, m, r) /\ m \in Nat /\ m < Len(r)
    BY <1>2, <1>3
  <2>2. NextBy(p, m, r, i)
    BY <1>3, <1>5 DEF NextBy
  <2>3. Moved(p, i, r) \in t[m + 1]
    BY <1>3, <2>1, <2>2, TreeGoesOn
  <2>4. /\ Moved(p, i, r).board = Played(p.board, i, d)
        /\ Moved(p, i, r).iPip = IF i # Bar THEN i ELSE NPoints - 1
    <3>1. IsKid(Moved(p, i, r), p, m, r, i)
      BY <1>3, <2>1, <2>2, KidUnder
    <3> QED BY <1>3, <3>1 DEF IsKid
  <2> QED BY <2>3, <2>4
\* A hop that is not: it is from above the last.
<1>6. ASSUME NEW m \in 0..3, NEW p \in t[m], NEW j \in Slots, RuleAllows(p.board, j, d),
             j = Bar \/ j <= p.iPip
      PROVE  Goes(m, p, j)
  <2>1. PICK q \in t[m + 1] : /\ q.board = Played(p.board, j, d)
                              /\ q.iPip = IF j # Bar THEN j ELSE NPoints - 1
    BY <1>5, <1>6
  <2>2. Under(p, m, r)
    BY <1>2
  <2>3. p.iPip \in Int /\ p.iPip <= NPoints - 1 /\ j \in Nat
    BY <1>4, <2>2 DEF Under
  <2>4. q.iPip >= j \/ q.iPip >= p.iPip
    BY <1>4, <2>1, <2>3
  <2> QED BY <2>1, <2>4
<1>7. 0 \in A
  <2> SUFFICES ASSUME NEW p \in t[0], NEW j \in Slots, RuleAllows(p.board, j, d) PROVE Goes(0, p, j)
    OBVIOUS
  <2>1. p.iPip = NPoints - 1 /\ j \in Nat /\ j <= NPoints
    BY <1>4 DEF Grows, None
  <2>2. j = Bar \/ j <= p.iPip
    BY <1>4, <2>1
  <2> QED BY <1>6, <2>2
<1>8. ASSUME NEW m \in Nat, m \in A PROVE m + 1 \in A
  <2> SUFFICES ASSUME m + 1 <= 3, NEW p \in t[m + 1], NEW j \in Slots, RuleAllows(p.board, j, d)
               PROVE  Goes(m + 1, p, j)
    OBVIOUS
  <2>1. m \in 0..3 /\ m + 1 \in 0..3 /\ m + 1 \in 1..4 /\ (m + 1) - 1 = m
    OBVIOUS
  <2>2. CASE j = Bar \/ j <= p.iPip
    BY <1>6, <2>1, <2>2
  <2>3. CASE ~(j = Bar \/ j <= p.iPip)
    <3>1. PICK o \in t[m] : p \in Kids(o, r)
      BY <2>1 DEF Grows
    <3>2. Under(o, m, r) /\ m < Len(r) /\ m # Len(r)
      BY <1>2, <1>3, <2>1
    <3>3. PICK i \in Slots : NextBy(o, m, r, i) /\ p = Moved(o, i, r)
      BY <1>3, <3>1, <3>2, KidsAre
    <3>4. p.board = Played(o.board, i, d) /\ p.iPip = IF i # Bar THEN i ELSE NPoints - 1
      <4>1. m \in Nat
        BY <2>1
      <4>2. IsKid(p, o, m, r, i)
        BY <1>3, <3>2, <3>3, <4>1, KidUnder
      <4> QED BY <1>3, <2>1, <4>2 DEF IsKid
    <3>5. i # Bar /\ i < j /\ p.iPip = i
      BY <1>4, <2>3, <3>4
    <3>6. RuleAllows(o.board, i, d) /\ i <= o.iPip
      BY <1>3, <2>1, <3>3, <3>5 DEF NextBy
    <3>7. Apart(o.board)
      BY <3>2 DEF Under, Legal
    <3>8. /\ RuleAllows(o.board, j, d) /\ RuleAllows(Played(o.board, j, d), i, d)
          /\ Played(Played(o.board, j, d), i, d) = Played(p.board, j, d)
      BY <1>3, <2>3, <3>4, <3>5, <3>6, <3>7, Exchange
    <3>9. PICK q \in t[m + 1] : /\ q.board = Played(o.board, j, d)
                                /\ q.iPip >= j \/ q.iPip >= o.iPip
      BY <1>8, <2>1, <3>8
    <3>10. i <= q.iPip
      <4>1. Under(q, m + 1, r)
        BY <1>2, <2>1
      <4>2. q.iPip \in Int /\ o.iPip \in Int /\ i \in Nat /\ j \in Nat
        BY <1>4, <3>2, <4>1 DEF Under
      <4> QED BY <3>5, <3>6, <3>9, <4>2
    <3>11. PICK x \in t[(m + 1) + 1] : /\ x.board = Played(q.board, i, d)
                                       /\ x.iPip = IF i # Bar THEN i ELSE NPoints - 1
      BY <1>5, <2>1, <3>8, <3>9, <3>10
    <3>12. x.board = Played(p.board, j, d)
      BY <3>8, <3>9, <3>11
    <3>13. x.iPip >= p.iPip
      BY <1>4, <3>5, <3>11
    <3> QED BY <3>11, <3>12, <3>13
  <2> QED BY <2>2, <2>3
<1>9. Nat \subseteq A
  <2> HIDE DEF A
  <2> QED BY <1>7, <1>8, SetInduction
<1> QED BY <1>9

\* So every way has a play that leads to the same board.
LEMMA DoublesMeetWays ==
  ASSUME NEW b, Legal(b), NEW r, NEW d, IsDouble(r, d), NEW t, Grows(t, b, r), NEW w, Reach(w, b, r)
  PROVE  \A k \in 0..4 : \A v \in w[k] : \E p \in t[k] : p.board = v.board /\ p.cPip = v.pips
<1> DEFINE A == {m \in Nat : m <= 4 => /\ \E c \in Nat : \A v \in w[m] : v.pips = c
                                       /\ \A v \in w[m] : \E p \in t[m] : p.board = v.board}
<1>1. IsRoll(r) /\ Len(r) = 4 /\ \A k \in 1..4 : r[k] = d
  BY DEF IsDouble
<1>2. d \in Dice /\ d \in Nat
  <2>1. d \in Dice
    BY <1>1 DEF IsRoll
  <2> QED BY <2>1, BoardAssumption DEF Dice
<1>3. \A k \in 0..4 : \A v \in w[k] : WayTyped(v, k, r)
  BY <1>1, WaysTyped
<1>4. 0 \in A
  <2>1. \A v \in w[0] : v.pips = 0 /\ v.board = b
    BY DEF Reach
  <2>2. None(b) \in t[0] /\ None(b).board = b
    BY DEF Grows, None
  <2> QED BY <2>1, <2>2
<1>5. ASSUME NEW m \in Nat, m \in A PROVE m + 1 \in A
  <2> SUFFICES ASSUME m + 1 <= 4
               PROVE  /\ \E c \in Nat : \A v \in w[m + 1] : v.pips = c
                      /\ \A v \in w[m + 1] : \E p \in t[m + 1] : p.board = v.board
    OBVIOUS
  <2>1. m + 1 \in 1..4 /\ m \in 0..3 /\ (m + 1) - 1 = m /\ m <= 4
    OBVIOUS
  <2>2. PICK c \in Nat : \A v \in w[m] : v.pips = c
    BY <1>5, <2>1
  <2>3. \A u \in w[m + 1] : \E v, k, i : From(u, w[m], v, k, i, r)
    BY <2>1, WayCameFrom DEF Reach
  <2>4. \A v \in w[m] : \A k \in v.left : r[k] = d
    BY <1>1, <1>3, <2>1 DEF WayTyped
  <2>5. ASSUME NEW u \in w[m + 1] PROVE u.pips = c + d
    <3>1. PICK v, k, i : From(u, w[m], v, k, i, r)
      BY <2>3
    <3> QED BY <2>2, <2>4, <3>1 DEF WayOn, From
  <2>6. ASSUME NEW u \in w[m + 1] PROVE \E p \in t[m + 1] : p.board = u.board
    <3>1. PICK v, k, i : From(u, w[m], v, k, i, r)
      BY <2>3
    <3>2. /\ v \in w[m] /\ i \in Slots /\ RuleAllows(v.board, i, d)
          /\ u.board = Played(v.board, i, d)
      BY <2>4, <3>1 DEF WayOn, From
    <3>3. PICK p \in t[m] : p.board = v.board
      BY <1>5, <2>1, <3>2
    <3> QED BY <2>1, <3>2, <3>3, DoubleStep
  <2>7. c + d \in Nat
    BY <1>2
  <2> QED BY <2>5, <2>6, <2>7
<1>6. Nat \subseteq A
  <2> HIDE DEF A
  <2> QED BY <1>4, <1>5, SetInduction
<1>7. ASSUME NEW k \in 0..4, NEW v \in w[k] PROVE \E p \in t[k] : p.board = v.board /\ p.cPip = v.pips
  <2>1. PICK c \in Nat : \A u \in w[k] : u.pips = c
    BY <1>6
  <2>2. PICK p \in t[k] : p.board = v.board
    BY <1>6
  <2>3. AsWay(p, k, r) \in w[k] /\ AsWay(p, k, r).pips = p.cPip
    BY <1>1, TreeIsSound DEF AsWay
  <2>4. p.cPip = c /\ v.pips = c
    BY <2>1, <2>3
  <2> QED BY <2>2, <2>4
<1> QED BY <1>7

---------------------------------------------------------------------------
(* Two different dice, in both orders.                                     *)

IsPair(r, x, y) == IsRoll(r) /\ Len(r) = 2 /\ r[1] = x /\ r[2] = y /\ x # y

\* A way seen from the other order.
Swapped(v) == [board |-> v.board, left |-> {3 - j : j \in v.left}, n |-> v.n, pips |-> v.pips]

\* The ways of one order are those of the other.
LEMMA WaysSwapped ==
  ASSUME NEW b, Legal(b), NEW r, NEW s, NEW x, NEW y, IsPair(r, x, y), IsPair(s, y, x),
         NEW w, Reach(w, b, r), NEW z, Reach(z, b, s)
  PROVE  \A k \in 0..4 : \A v \in z[k] : Swapped(v) \in w[k]
<1> DEFINE A == {m \in Nat : m <= 4 => \A v \in z[m] : Swapped(v) \in w[m]}
<1>1. /\ IsRoll(r) /\ IsRoll(s) /\ DOMAIN r = 1..2 /\ DOMAIN s = 1..2
      /\ Len(s) = 2 /\ r[1] = s[2] /\ r[2] = s[1]
  BY DEF IsPair, IsRoll
<1>2. 0 \in A
  <2> SUFFICES ASSUME NEW v \in z[0] PROVE Swapped(v) \in w[0]
    OBVIOUS
  <2>1. v = [board |-> b, left |-> 1..2, n |-> 0, pips |-> 0]
    BY <1>1 DEF Reach
  <2>2. {3 - j : j \in 1..2} = 1..2
    OBVIOUS
  <2>3. Swapped(v) = [board |-> b, left |-> 1..2, n |-> 0, pips |-> 0]
    BY <2>1, <2>2 DEF Swapped
  <2> QED BY <1>1, <2>3 DEF Reach
<1>3. ASSUME NEW m \in Nat, m \in A PROVE m + 1 \in A
  <2> SUFFICES ASSUME m + 1 <= 4, NEW u \in z[m + 1] PROVE Swapped(u) \in w[m + 1]
    OBVIOUS
  <2>1. m + 1 \in 1..4 /\ (m + 1) - 1 = m /\ m <= 4 /\ m \in 0..4
    OBVIOUS
  <2>2. u \in PlayedOn(z[m], s) /\ w[m + 1] = PlayedOn(w[m], r)
    BY <2>1 DEF Reach
  <2>3. PICK v, k, i : From(u, z[m], v, k, i, s)
    BY <2>2, WayCameFrom
  <2>4. v \in z[m] /\ k \in v.left /\ i \in Slots /\ RuleAllows(v.board, i, s[k]) /\ u = WayOn(v, k, i, s)
    BY <2>3 DEF From
  <2>5. v.left \subseteq 1..2
    BY <1>1, <2>1, <2>4, WaysTyped DEF WayTyped
  <2>6. Swapped(v) \in w[m]
    BY <1>3, <2>1, <2>4
  <2> DEFINE h == 3 - k
             a == Swapped(v)
  <2>7. h \in a.left /\ r[h] = s[k]
    <3>1. k = 1 \/ k = 2
      BY <2>4, <2>5
    <3>2. h \in a.left
      BY <2>4 DEF Swapped
    <3>3. r[3 - 1] = s[1] /\ r[3 - 2] = s[2]
      BY <1>1
    <3> QED BY <3>1, <3>2, <3>3
  <2>8. RuleAllows(a.board, i, r[h])
    BY <2>4, <2>7 DEF Swapped
  <2>9. Swapped(u) = WayOn(a, h, i, r)
    <3>1. {3 - j : j \in v.left \ {k}} = {3 - j : j \in v.left} \ {3 - k}
      BY <2>4, <2>5
    <3> QED BY <2>4, <2>7, <3>1 DEF Swapped, WayOn
  <2> HIDE DEF h, a
  <2>10. a \in w[m]
    BY <2>6 DEF a
  <2>11. WayOn(a, h, i, r) \in PlayedOn(w[m], r)
    BY <2>4, <2>7, <2>8, <2>10, WayGoesOn
  <2> QED BY <2>2, <2>9, <2>11
<1>4. Nat \subseteq A
  <2> HIDE DEF A
  <2> QED BY <1>2, <1>3, SetInduction
<1> QED BY <1>4

\* With two different dice every hop is looked for.
LEMMA PairGoesOn ==
  ASSUME NEW b, Legal(b), NEW r, NEW x, NEW y, IsPair(r, x, y), NEW t, Grows(t, b, r),
         NEW k \in 0..1, NEW p \in t[k], NEW i \in Slots, RuleAllows(p.board, i, r[k + 1])
  PROVE  \E q \in t[k + 1] : q.board = Played(p.board, i, r[k + 1]) /\ q.cPip = p.cPip + r[k + 1]
<1>1. IsRoll(r) /\ Len(r) = 2 /\ r[1] # r[2]
  BY DEF IsPair
<1>2. PICK w : Reach(w, b, r)
  BY WaysReach
<1>3. \A m \in 0..4 : \A q \in t[m] : Under(q, m, r)
  BY <1>1, <1>2, TreeIsSound
<1>4. k \in Nat /\ k \in 0..3 /\ k < Len(r) /\ NPoints \in Nat /\ k \in 0..4
  BY <1>1, BoardAssumption
<1>5. p.iPip = NPoints - 1
  <2>1. CASE k = 0
    BY <2>1 DEF Grows, None
  <2>2. CASE k = 1
    <3>1. 1 \in 1..4 /\ 1 - 1 = 0 /\ 0 \in 0..4 /\ 0 \in Nat
      OBVIOUS
    <3>2. PICK o \in t[0] : p \in Kids(o, r)
      BY <2>2, <3>1 DEF Grows
    <3>3. Under(o, 0, r) /\ 0 < Len(r)
      BY <1>1, <1>3, <3>1
    <3>4. PICK j \in Slots : NextBy(o, 0, r, j) /\ p = Moved(o, j, r)
      BY <1>1, <3>1, <3>2, <3>3, KidsAre
    <3>5. IsKid(p, o, 0, r, j)
      BY <1>1, <3>1, <3>3, <3>4, KidUnder
    <3> QED BY <1>1, <3>5 DEF IsKid
  <2> QED BY <2>1, <2>2
<1>6. NextBy(p, k, r, i)
  <2>1. i \in Nat /\ i <= NPoints
    BY <1>4 DEF Slots
  <2>2. i = Bar \/ i <= p.iPip
    BY <1>4, <1>5, <2>1 DEF Bar
  <2> QED BY <2>2 DEF NextBy
<1>7. Under(p, k, r)
  BY <1>3, <1>4
<1>8. Moved(p, i, r) \in t[k + 1]
  BY <1>1, <1>4, <1>6, <1>7, TreeGoesOn
<1>9. IsKid(Moved(p, i, r), p, k, r, i)
  BY <1>1, <1>4, <1>6, <1>7, KidUnder
<1> QED BY <1>8, <1>9 DEF IsKid

\* Between them the two orders lead wherever a way leads.
LEMMA PairsMeetWays ==
  ASSUME NEW b, Legal(b), NEW r, NEW s, NEW x, NEW y, IsPair(r, x, y), IsPair(s, y, x),
         NEW t, Grows(t, b, r), NEW u, Grows(u, b, s), NEW w, Reach(w, b, r)
  PROVE  \A k \in 0..4 : \A v \in w[k] : \E p \in t[k] \cup u[k] : p.board = v.board /\ p.cPip = v.pips
<1>1. /\ IsRoll(r) /\ DOMAIN r = 1..2 /\ r[1] = s[2] /\ r[2] = s[1]
  BY DEF IsPair, IsRoll
<1>2. \A v \in w[0] : v.board = b /\ v.left = {1, 2} /\ v.pips = 0
  BY <1>1 DEF Reach
<1>3. \A k \in 1..4 : \A v \in w[k] : \E o, j, i : From(v, w[k - 1], o, j, i, r)
  BY WayCameFrom DEF Reach
<1>4. 1 \in 1..4 /\ 2 \in 1..4 /\ 3 \in 1..4 /\ 4 \in 1..4 /\ 1 - 1 = 0 /\ 2 - 1 = 1 /\ 3 - 1 = 2 /\ 4 - 1 = 3
  OBVIOUS
<1>5. 0 \in 0..1 /\ 1 \in 0..1 /\ 0 + 1 = 1 /\ 1 + 1 = 2
  OBVIOUS
<1>6. None(b) \in t[0] /\ None(b) \in u[0] /\ None(b).board = b /\ None(b).cPip = 0
  BY DEF Grows, None
\* One die.
<1>7. ASSUME NEW v \in w[1]
      PROVE  \/ /\ v.left = {2} /\ \E p \in t[1] : p.board = v.board /\ p.cPip = v.pips
             \/ /\ v.left = {1} /\ \E p \in u[1] : p.board = v.board /\ p.cPip = v.pips
  <2>1. PICK o, j, i : From(v, w[0], o, j, i, r)
    BY <1>3, <1>4
  <2>2. /\ o \in w[0] /\ j \in o.left /\ i \in Slots /\ RuleAllows(o.board, i, r[j])
        /\ v.board = Played(o.board, i, r[j]) /\ v.left = o.left \ {j} /\ v.pips = o.pips + r[j]
    BY <2>1 DEF From, WayOn
  <2>3. CASE j = 1
    BY <1>2, <1>5, <1>6, <2>2, <2>3, PairGoesOn
  <2>4. CASE j = 2
    <3>1. RuleAllows(b, i, s[1])
      BY <1>1, <1>2, <2>2, <2>4
    <3>2. \E p \in u[1] : p.board = Played(b, i, s[1]) /\ p.cPip = 0 + s[1]
      BY <1>5, <1>6, <2>2, <3>1, PairGoesOn
    <3> QED BY <1>1, <1>2, <2>2, <2>4, <3>2
  <2> QED BY <1>2, <2>2, <2>3, <2>4
\* Two dice.
<1>8. ASSUME NEW v \in w[2]
      PROVE  v.left = {} /\ \E p \in t[2] \cup u[2] : p.board = v.board /\ p.cPip = v.pips
  <2>1. PICK o, j, i : From(v, w[1], o, j, i, r)
    BY <1>3, <1>4
  <2>2. /\ o \in w[1] /\ j \in o.left /\ i \in Slots /\ RuleAllows(o.board, i, r[j])
        /\ v.board = Played(o.board, i, r[j]) /\ v.left = o.left \ {j} /\ v.pips = o.pips + r[j]
    BY <2>1 DEF From, WayOn
  <2>3. CASE o.left = {2} /\ \E p \in t[1] : p.board = o.board /\ p.cPip = o.pips
    <3>1. j = 2 /\ v.left = {}
      BY <2>2, <2>3
    <3>2. PICK p \in t[1] : p.board = o.board /\ p.cPip = o.pips
      BY <2>3
    <3>3. \E q \in t[2] : q.board = Played(p.board, i, r[2]) /\ q.cPip = p.cPip + r[2]
      BY <1>5, <2>2, <3>1, <3>2, PairGoesOn
    <3> QED BY <2>2, <3>1, <3>2, <3>3
  <2>4. CASE o.left = {1} /\ \E p \in u[1] : p.board = o.board /\ p.cPip = o.pips
    <3>1. j = 1 /\ v.left = {}
      BY <2>2, <2>4
    <3>2. PICK p \in u[1] : p.board = o.board /\ p.cPip = o.pips
      BY <2>4
    <3>3. RuleAllows(p.board, i, s[2])
      BY <1>1, <2>2, <3>1, <3>2
    <3>4. \E q \in u[2] : q.board = Played(p.board, i, s[2]) /\ q.cPip = p.cPip + s[2]
      BY <1>5, <2>2, <3>2, <3>3, PairGoesOn
    <3> QED BY <1>1, <2>2, <3>1, <3>2, <3>4
  <2> QED BY <1>7, <2>2, <2>3, <2>4
<1>9. w[3] = {}
  <2> SUFFICES ASSUME NEW v \in w[3] PROVE FALSE
    OBVIOUS
  <2>1. PICK o, j, i : From(v, w[2], o, j, i, r)
    BY <1>3, <1>4
  <2> QED BY <1>8, <2>1 DEF From
<1>10. w[4] = {}
  <2> SUFFICES ASSUME NEW v \in w[4] PROVE FALSE
    OBVIOUS
  <2>1. PICK o, j, i : From(v, w[3], o, j, i, r)
    BY <1>3, <1>4
  <2> QED BY <1>9, <2>1 DEF From
<1>11. ASSUME NEW k \in 0..4, NEW v \in w[k]
       PROVE  \E p \in t[k] \cup u[k] : p.board = v.board /\ p.cPip = v.pips
  <2>1. k = 0 \/ k = 1 \/ k = 2 \/ k = 3 \/ k = 4
    OBVIOUS
  <2>2. CASE k = 0
    BY <1>2, <1>6, <2>2
  <2>3. CASE k = 1
    BY <1>7, <2>3
  <2>4. CASE k = 2
    BY <1>8, <2>4
  <2> QED BY <1>9, <1>10, <2>1, <2>2, <2>3, <2>4
<1> QED BY <1>11

---------------------------------------------------------------------------
(* The search as a whole.                                                  *)

\* What RollOf makes of two dice.
LEMMA RollsAre ==
  ASSUME NEW x \in Dice, NEW y \in Dice
  PROVE  /\ x = y => IsDouble(RollOf(x, y), x)
         /\ x # y => IsPair(RollOf(x, y), x, y)
<1>1. ASSUME x = y PROVE IsDouble(RollOf(x, y), x)
  <2> DEFINE r == <<x, x, x, x>>
  <2>1. RollOf(x, y) = r
    BY <1>1 DEF RollOf
  <2>2. Len(r) = 4 /\ DOMAIN r = 1..4 /\ r[1] = x /\ r[2] = x /\ r[3] = x /\ r[4] = x
    OBVIOUS
  <2> HIDE DEF r
  <2>3. \A k \in 1..4 : r[k] = x
    BY <2>2
  <2> QED BY <2>1, <2>2, <2>3 DEF IsDouble, IsRoll
<1>2. ASSUME x # y PROVE IsPair(RollOf(x, y), x, y)
  <2> DEFINE r == <<x, y>>
  <2>1. RollOf(x, y) = r
    BY <1>2 DEF RollOf
  <2>2. Len(r) = 2 /\ DOMAIN r = 1..2 /\ r[1] = x /\ r[2] = y
    OBVIOUS
  <2> HIDE DEF r
  <2>3. \A k \in 1..2 : r[k] \in Dice
    BY <2>2
  <2> QED BY <1>2, <2>1, <2>2, <2>3 DEF IsPair, IsRoll
<1> QED BY <1>1, <1>2

\* A play of the tree of an order of the dice.
InTree(p, k, b, r) == k \in 0..4 /\ \E t : Grows(t, b, r) /\ p \in t[k]

\* No way goes on from those with k dice.
Ended(w, k) == k = 4 \/ w[k + 1] = {}

\* Every play met is one of the ways w, and every way that cannot be gone on is met.
Meets(P, w) ==
    /\ \A p \in P : \E k \in 0..4 : /\ IsList(p.an) /\ Len(p.an) = k /\ Legal(p.board) /\ p.cPip \in Nat
                                    /\ \E v \in w[k] : v.board = p.board /\ v.pips = p.cPip
    /\ \A k \in 0..4 : Ended(w, k) =>
         \A v \in w[k] : \E p \in P : Len(p.an) = k /\ p.board = v.board /\ p.cPip = v.pips

\* A play as long as the longest way is not played on.
LEMMA EndOfTree ==
  ASSUME NEW b, Legal(b), NEW r, IsRoll(r), NEW t, Grows(t, b, r), NEW w, Reach(w, b, r),
         NEW k, Ended(w, k), k \in 0..4, NEW p, p \in t[k]
  PROVE  p \in Leaves(t, r) /\ Len(p.an) = k
<1>1. Under(p, k, r) /\ k \in Nat
  BY TreeIsSound
<1>2. ASSUME NEW q \in Kids(p, r) PROVE FALSE
  <2>1. k # Len(r)
    BY <1>1, <1>2, KidsAre
  <2>2. k # 4
    <3>1. k <= Len(r)
      BY <1>1 DEF Under
    <3>2. Len(r) = 2 \/ Len(r) = 4
      BY DEF IsRoll
    <3> DEFINE n == Len(r)
    <3>3. k # n /\ k <= n /\ (n = 2 \/ n = 4)
      BY <2>1, <3>1, <3>2
    <3> HIDE DEF n
    <3> QED BY <3>3
  <2>3. k + 1 \in 1..4 /\ (k + 1) - 1 = k /\ k + 1 \in 0..4
    BY <2>2
  <2>4. q \in t[k + 1]
    BY <1>2, <2>3 DEF Grows
  <2>5. AsWay(q, k + 1, r) \in w[k + 1]
    BY <2>3, <2>4, TreeIsSound
  <2> QED BY <2>2, <2>5 DEF Ended
<1> QED BY <1>1, <1>2 DEF Leaves, Under

\* What the two orders, or the one of a double, are searched for.
Stream(b, x, y) ==
    IF x = y THEN GenerateMovesSub(RollOf(x, y), b)
    ELSE GenerateMovesSub(RollOf(x, y), b) \o GenerateMovesSub(RollOf(y, x), b)

\* All that is searched is in one of the trees.
LEMMA SearchIsInTree ==
  ASSUME NEW b, Legal(b), NEW x \in Dice, NEW y \in Dice
  PROVE  /\ IsList(Stream(b, x, y))
         /\ \A p \in Range(Stream(b, x, y)) :
              \E k : InTree(p, k, b, RollOf(x, y)) \/ InTree(p, k, b, RollOf(y, x))
<1> DEFINE r == RollOf(x, y)
           s == RollOf(y, x)
<1>1. IsRoll(r) /\ IsRoll(s)
  BY RollsAre DEF IsDouble, IsPair
<1>2. PICK t : Grows(t, b, r)
  BY TreeGrows
<1>3. PICK u : Grows(u, b, s)
  BY TreeGrows
<1>4. /\ IsList(GenerateMovesSub(r, b)) /\ Range(GenerateMovesSub(r, b)) = Leaves(t, r)
      /\ IsList(GenerateMovesSub(s, b)) /\ Range(GenerateMovesSub(s, b)) = Leaves(u, s)
  BY <1>1, <1>2, <1>3, TreeEnds, StreamIs
<1>5. IsList(Stream(b, x, y)) /\ Range(Stream(b, x, y)) \subseteq Leaves(t, r) \cup Leaves(u, s)
  BY <1>4, JoinedRange DEF Stream
<1> HIDE DEF r, s
<1>6. \A p \in Leaves(t, r) : \E k : InTree(p, k, b, r)
  BY <1>2 DEF Leaves, InTree
<1>7. \A p \in Leaves(u, s) : \E k : InTree(p, k, b, s)
  BY <1>3 DEF Leaves, InTree
<1> QED BY <1>5, <1>6, <1>7 DEF r, s

\* The search of a double.
LEMMA DoubleSearchMeets ==
  ASSUME NEW b, Legal(b), NEW x \in Dice, NEW w, Reach(w, b, RollOf(x, x))
  PROVE  Meets(Range(Stream(b, x, x)), w)
<1> DEFINE r == RollOf(x, x)
           P == Range(Stream(b, x, x))
<1>1. IsDouble(r, x) /\ IsRoll(r)
  BY RollsAre DEF IsDouble
<1>2. PICK t : Grows(t, b, r)
  BY TreeGrows
<1>3. P = Leaves(t, r)
  BY <1>1, <1>2, TreeEnds, StreamIs DEF Stream
<1> HIDE DEF r, P
<1>4. Reach(w, b, r)
  BY DEF r
<1>5. ASSUME NEW p \in P
      PROVE  \E k \in 0..4 : /\ IsList(p.an) /\ Len(p.an) = k /\ Legal(p.board) /\ p.cPip \in Nat
                             /\ \E v \in w[k] : v.board = p.board /\ v.pips = p.cPip
  <2>1. PICK k \in 0..4 : p \in t[k]
    BY <1>3, <1>5 DEF Leaves
  <2>2. Under(p, k, r) /\ AsWay(p, k, r) \in w[k]
    BY <1>1, <1>2, <1>4, <2>1, TreeIsSound
  <2> QED BY <2>2 DEF Under, AsWay
<1>6. ASSUME NEW k \in 0..4, Ended(w, k), NEW v \in w[k]
      PROVE  \E p \in P : Len(p.an) = k /\ p.board = v.board /\ p.cPip = v.pips
  <2>1. PICK p \in t[k] : p.board = v.board /\ p.cPip = v.pips
    BY <1>1, <1>2, <1>4, DoublesMeetWays
  <2>2. p \in Leaves(t, r) /\ Len(p.an) = k
    BY <1>1, <1>2, <1>4, <1>6, <2>1, EndOfTree
  <2> QED BY <1>3, <2>1, <2>2
<1> QED BY <1>5, <1>6 DEF Meets, P

\* The search of two different dice, in both orders.
LEMMA PairSearchMeets ==
  ASSUME NEW b, Legal(b), NEW x \in Dice, NEW y \in Dice, x # y, NEW w, Reach(w, b, RollOf(x, y))
  PROVE  Meets(Range(Stream(b, x, y)), w)
<1> DEFINE r == RollOf(x, y)
           s == RollOf(y, x)
           P == Range(Stream(b, x, y))
<1>1. IsPair(r, x, y) /\ IsPair(s, y, x) /\ IsRoll(r) /\ IsRoll(s)
  BY RollsAre DEF IsPair
<1>2. PICK t : Grows(t, b, r)
  BY TreeGrows
<1>3. PICK u : Grows(u, b, s)
  BY TreeGrows
<1>4. PICK z : Reach(z, b, s)
  BY WaysReach
<1>5. P = Leaves(t, r) \cup Leaves(u, s)
  BY <1>1, <1>2, <1>3, JoinedRange, TreeEnds, StreamIs DEF Stream
<1> HIDE DEF r, s, P
<1>6. Reach(w, b, r)
  BY DEF r
<1>7. \A k \in 0..4 : \A v \in z[k] : Swapped(v) \in w[k]
  BY <1>1, <1>4, <1>6, WaysSwapped
<1>8. ASSUME NEW p \in P
      PROVE  \E k \in 0..4 : /\ IsList(p.an) /\ Len(p.an) = k /\ Legal(p.board) /\ p.cPip \in Nat
                             /\ \E v \in w[k] : v.board = p.board /\ v.pips = p.cPip
  <2>1. CASE p \in Leaves(t, r)
    <3>1. PICK k \in 0..4 : p \in t[k]
      BY <2>1 DEF Leaves
    <3>2. Under(p, k, r) /\ AsWay(p, k, r) \in w[k]
      BY <1>1, <1>2, <1>6, <3>1, TreeIsSound
    <3> QED BY <3>2 DEF Under, AsWay
  <2>2. CASE p \in Leaves(u, s)
    <3>1. PICK k \in 0..4 : p \in u[k]
      BY <2>2 DEF Leaves
    <3>2. Under(p, k, s) /\ AsWay(p, k, s) \in z[k]
      BY <1>1, <1>3, <1>4, <3>1, TreeIsSound
    <3>3. Swapped(AsWay(p, k, s)) \in w[k]
      BY <1>7, <3>2
    <3>4. Swapped(AsWay(p, k, s)).board = p.board /\ Swapped(AsWay(p, k, s)).pips = p.cPip
      BY DEF Swapped, AsWay
    <3> QED BY <3>2, <3>3, <3>4 DEF Under
  <2> QED BY <1>5, <2>1, <2>2
<1>9. ASSUME NEW k \in 0..4, Ended(w, k), NEW v \in w[k]
      PROVE  \E p \in P : Len(p.an) = k /\ p.board = v.board /\ p.cPip = v.pips
  <2>1. PICK p \in t[k] \cup u[k] : p.board = v.board /\ p.cPip = v.pips
    BY <1>1, <1>2, <1>3, <1>6, PairsMeetWays
  <2>2. CASE p \in t[k]
    BY <1>1, <1>2, <1>5, <1>6, <1>9, <2>1, <2>2, EndOfTree
  <2>3. CASE p \in u[k]
    <3>1. Ended(z, k)
      BY <1>7, <1>9 DEF Ended
    <3>2. p \in Leaves(u, s) /\ Len(p.an) = k
      BY <1>1, <1>3, <1>4, <2>3, <3>1, EndOfTree
    <3> QED BY <1>5, <2>1, <3>2
  <2> QED BY <2>1, <2>2, <2>3
<1> QED BY <1>8, <1>9 DEF Meets, P

---------------------------------------------------------------------------
(* What is saved of the plays met.                                         *)

Entry(p) == [an |-> Clamped(p.an), key |-> PositionKey(p.board), cMoves |-> Len(p.an), cPips |-> p.cPip]

Saved(ml, p) == IF p.an = <<>> THEN ml ELSE SaveMoves(ml, p.an, p.cPip, p.board)

Nothing == [amMoves |-> <<>>, cMaxMoves |-> 0, cMaxPips |-> 0]

\* A play with its hops counted, and plays of which a longer one has no fewer pips.
Counted(p) == IsList(p.an) /\ Len(p.an) \in Nat /\ p.cPip \in Nat
Graded(P) == \A p, q \in P : Len(p.an) > Len(q.an) => p.cPip >= q.cPip

Best(ml, Q) == {p \in Q : Len(p.an) = ml.cMaxMoves /\ p.cPip = ml.cMaxPips}

\* The list holds the best of Q, one of those with the same key.
Kept(ml, Q) ==
    /\ ml.cMaxMoves \in Nat /\ ml.cMaxPips \in Nat /\ IsList(ml.amMoves)
    /\ Q = {} => ml.amMoves = <<>> /\ ml.cMaxMoves = 0 /\ ml.cMaxPips = 0
    /\ Q # {} => Best(ml, Q) # {}
    /\ \A p \in Q : Len(p.an) <= ml.cMaxMoves /\ p.cPip <= ml.cMaxPips
    /\ \A e \in Range(ml.amMoves) : \E p \in Best(ml, Q) : e = Entry(p)
    /\ \A p \in Best(ml, Q) : \E e \in Range(ml.amMoves) : e.key = PositionKey(p.board)

\* What one call of SaveMoves makes of the list.
SavedBy(n, ml, p, kept, same, better) ==
    /\ kept = IF Len(p.an) > ml.cMaxMoves \/ p.cPip > ml.cMaxPips THEN <<>> ELSE ml.amMoves
    /\ same = {k \in DOMAIN kept : kept[k].key = PositionKey(p.board)}
    /\ better = {k \in same : Len(p.an) > kept[k].cMoves \/ p.cPip > kept[k].cPips}
    /\ n = IF Len(p.an) < ml.cMaxMoves \/ p.cPip < ml.cMaxPips THEN ml
           ELSE [cMaxMoves |-> Len(p.an), cMaxPips |-> p.cPip,
                 amMoves |-> IF same = {} THEN Append(kept, Entry(p))
                             ELSE [k \in DOMAIN kept |-> IF k \in better THEN Entry(p) ELSE kept[k]]]

\* It is this.
LEMMA SaveIs ==
  ASSUME NEW ml, NEW p
  PROVE  \E kept, same, better : SavedBy(SaveMoves(ml, p.an, p.cPip, p.board), ml, p, kept, same, better)
<1> DEFINE pm == [an |-> Clamped(p.an), key |-> PositionKey(p.board), cMoves |-> Len(p.an), cPips |-> p.cPip]
           kept == IF Len(p.an) > ml.cMaxMoves \/ p.cPip > ml.cMaxPips THEN <<>> ELSE ml.amMoves
           same == {k \in DOMAIN kept : kept[k].key = pm.key}
           better == {k \in same : Len(p.an) > kept[k].cMoves \/ p.cPip > kept[k].cPips}
<1>1. pm = Entry(p) /\ pm.key = PositionKey(p.board)
  BY DEF Entry
<1>2. SaveMoves(ml, p.an, p.cPip, p.board) =
        IF Len(p.an) < ml.cMaxMoves \/ p.cPip < ml.cMaxPips THEN ml
        ELSE [cMaxMoves |-> Len(p.an), cMaxPips |-> p.cPip,
              amMoves |-> IF same = {} THEN Append(kept, pm)
                          ELSE [k \in DOMAIN kept |-> IF k \in better THEN pm ELSE kept[k]]]
  BY Zenon DEF SaveMoves
<1> HIDE DEF pm
<1>3. same = {k \in DOMAIN kept : kept[k].key = PositionKey(p.board)}
  BY <1>1
<1> HIDE DEF same
<1>4. /\ kept = IF Len(p.an) > ml.cMaxMoves \/ p.cPip > ml.cMaxPips THEN <<>> ELSE ml.amMoves
      /\ better = {k \in same : Len(p.an) > kept[k].cMoves \/ p.cPip > kept[k].cPips}
  OBVIOUS
<1> HIDE DEF kept, better
<1>5. SavedBy(SaveMoves(ml, p.an, p.cPip, p.board), ml, p, kept, same, better)
  BY <1>1, <1>2, <1>3, <1>4, Zenon DEF SavedBy
<1> QED BY <1>5

\* It keeps what is best.
LEMMA SaveKeeps ==
  ASSUME NEW ml, NEW Q, Kept(ml, Q), \A q \in Q : Counted(q),
         NEW p, Counted(p), Len(p.an) > 0, Graded(Q \cup {p})
  PROVE  Kept(SaveMoves(ml, p.an, p.cPip, p.board), Q \cup {p})
<1> DEFINE R == Q \cup {p}
           n == SaveMoves(ml, p.an, p.cPip, p.board)
           L == Len(p.an)
           c == p.cPip
<1> SUFFICES Kept(n, R)
  OBVIOUS
<1>1. L \in Nat /\ c \in Nat /\ ml.cMaxMoves \in Nat /\ ml.cMaxPips \in Nat /\ L > 0
  BY DEF Counted, Kept
<1>2. \A q \in Q : Len(q.an) \in Nat /\ q.cPip \in Nat
  BY DEF Counted
<1>3. \A q \in Q : Len(q.an) <= ml.cMaxMoves /\ q.cPip <= ml.cMaxPips
  BY DEF Kept
<1>4. PICK kept, same, better : SavedBy(n, ml, p, kept, same, better)
  BY SaveIs
<1> HIDE DEF n
<1>9. /\ kept = IF L > ml.cMaxMoves \/ c > ml.cMaxPips THEN <<>> ELSE ml.amMoves
      /\ same = {k \in DOMAIN kept : kept[k].key = PositionKey(p.board)}
      /\ better = {k \in same : L > kept[k].cMoves \/ c > kept[k].cPips}
      /\ n = IF L < ml.cMaxMoves \/ c < ml.cMaxPips THEN ml
             ELSE [cMaxMoves |-> L, cMaxPips |-> c,
                   amMoves |-> IF same = {} THEN Append(kept, Entry(p))
                               ELSE [k \in DOMAIN kept |-> IF k \in better THEN Entry(p) ELSE kept[k]]]
  BY <1>4, Zenon DEF SavedBy
\* A lesser play is not saved.
<1>5. CASE L < ml.cMaxMoves \/ c < ml.cMaxPips
  <2>1. n = ml
    BY <1>9, <1>5
  <2>2. Q # {}
    <3> SUFFICES ASSUME Q = {} PROVE FALSE
      OBVIOUS
    <3>1. ml.cMaxMoves = 0 /\ ml.cMaxPips = 0
      BY DEF Kept
    <3> HIDE DEF L, c
    <3> QED BY <1>1, <1>5, <3>1
  <2>3. PICK q \in Q : Len(q.an) = ml.cMaxMoves /\ q.cPip = ml.cMaxPips
    BY <2>2 DEF Kept, Best
  <2>4. L <= ml.cMaxMoves /\ c <= ml.cMaxPips
    <3>1. /\ L > Len(q.an) => c >= q.cPip
          /\ Len(q.an) > L => q.cPip >= c
      BY DEF Graded
    <3> HIDE DEF L, c
    <3>2. CASE L < ml.cMaxMoves
      BY <1>1, <2>3, <3>1, <3>2
    <3>3. CASE c < ml.cMaxPips
      BY <1>1, <2>3, <3>1, <3>3
    <3> QED BY <1>5, <3>2, <3>3
  <2>5. Best(ml, R) = Best(ml, Q)
    BY <1>1, <1>5 DEF Best
  <2>6. R # {} /\ \A o \in R : Len(o.an) <= ml.cMaxMoves /\ o.cPip <= ml.cMaxPips
    BY <1>3, <2>4
  <2> HIDE DEF R
  <2> QED BY <2>1, <2>2, <2>5, <2>6 DEF Kept
\* A better one is saved alone.
<1>6. CASE ~(L < ml.cMaxMoves \/ c < ml.cMaxPips) /\ (L > ml.cMaxMoves \/ c > ml.cMaxPips)
  <2>1. kept = <<>> /\ DOMAIN kept = {}
    BY <1>9, <1>6, EmptyList
  <2>2. same = {}
    BY <1>9, <2>1
  <2>3. n.cMaxMoves = L /\ n.cMaxPips = c /\ n.amMoves = Append(kept, Entry(p))
    BY <1>9, <1>6, <2>2
  <2>4. IsList(n.amMoves) /\ Range(n.amMoves) = {Entry(p)}
    <3>1. Range(kept) = {} /\ IsList(kept)
      BY <2>1, EmptyList DEF Range
    <3> QED BY <2>3, <3>1, AppendedRange
  <2>5. Best(n, R) = {p}
    <3>1. \A q \in Q : ~(Len(q.an) = L /\ q.cPip = c)
      <4> HIDE DEF L, c
      <4> QED BY <1>1, <1>2, <1>3, <1>6
    <3> QED BY <2>3, <3>1 DEF Best
  <2>6. \A q \in R : Len(q.an) <= n.cMaxMoves /\ q.cPip <= n.cMaxPips
    <3>1. \A q \in Q : Len(q.an) <= L /\ q.cPip <= c
      <4> HIDE DEF L, c
      <4> QED BY <1>1, <1>2, <1>3, <1>6
    <3> QED BY <1>1, <2>3, <3>1
  <2>7. Entry(p).key = PositionKey(p.board)
    BY DEF Entry
  <2>8. R # {}
    OBVIOUS
  <2> HIDE DEF R
  <2> QED BY <1>1, <2>3, <2>4, <2>5, <2>6, <2>7, <2>8 DEF Kept
\* One as good is saved if its board is new.
<1>7. CASE L = ml.cMaxMoves /\ c = ml.cMaxPips
  <2>1. kept = ml.amMoves /\ IsList(kept)
    BY <1>1, <1>9, <1>7 DEF Kept
  <2>2. ASSUME NEW k \in DOMAIN kept PROVE kept[k].cMoves = L /\ kept[k].cPips = c
    <3>1. kept[k] \in Range(ml.amMoves)
      BY <2>1 DEF Range
    <3>2. PICK q \in Best(ml, Q) : kept[k] = Entry(q)
      BY <3>1 DEF Kept
    <3> QED BY <1>7, <3>2 DEF Entry, Best
  <2>3. better = {}
    BY <1>1, <1>9, <2>2
  <2>4. /\ n.cMaxMoves = L /\ n.cMaxPips = c
        /\ n.amMoves = IF same = {} THEN Append(kept, Entry(p)) ELSE [k \in DOMAIN kept |-> kept[k]]
    BY <1>1, <1>9, <1>7, <2>3
  <2>5. kept = [k \in DOMAIN kept |-> kept[k]]
    BY <2>1, LenProperties DEF IsList
  <2>6. Best(n, R) = Best(ml, Q) \cup {p}
    BY <1>7, <2>4 DEF Best
  <2>7. Entry(p).key = PositionKey(p.board)
    BY DEF Entry
  <2>8. \A q \in R : Len(q.an) <= n.cMaxMoves /\ q.cPip <= n.cMaxPips
    BY <1>1, <1>3, <1>7, <2>4
  <2>9. CASE same = {}
    <3>1. IsList(n.amMoves) /\ Range(n.amMoves) = Range(kept) \cup {Entry(p)}
      BY <2>1, <2>4, <2>9, AppendedRange
    <3> HIDE DEF R
    <3>2. R # {} /\ Best(n, R) # {}
      BY <2>6 DEF R
    <3>3. \A e \in Range(n.amMoves) : \E q \in Best(n, R) : e = Entry(q)
      BY <2>1, <2>6, <3>1 DEF Kept
    <3>4. \A q \in Best(n, R) : \E e \in Range(n.amMoves) : e.key = PositionKey(q.board)
      BY <2>1, <2>6, <2>7, <3>1 DEF Kept
    <3>5. n.cMaxMoves \in Nat /\ n.cMaxPips \in Nat
      BY <1>1, <2>4
    <3> QED BY <2>8, <3>1, <3>2, <3>3, <3>4, <3>5 DEF Kept
  <2>10. CASE same # {}
    <3>1. n.amMoves = kept
      BY <2>4, <2>5, <2>10
    <3>2. PICK k \in DOMAIN kept : kept[k].key = PositionKey(p.board)
      BY <1>9, <2>10
    <3>3. kept[k] \in Range(kept)
      BY DEF Range
    <3> HIDE DEF R
    <3>4. R # {} /\ Best(n, R) # {}
      BY <2>6 DEF R
    <3>5. \A e \in Range(n.amMoves) : \E q \in Best(n, R) : e = Entry(q)
      BY <2>1, <2>6, <3>1 DEF Kept
    <3>6. \A q \in Best(n, R) : \E e \in Range(n.amMoves) : e.key = PositionKey(q.board)
      BY <2>1, <2>6, <3>1, <3>2, <3>3 DEF Kept
    <3>7. n.cMaxMoves \in Nat /\ n.cMaxPips \in Nat
      BY <1>1, <2>4
    <3> QED BY <2>1, <2>8, <3>1, <3>4, <3>5, <3>6, <3>7 DEF Kept
  <2> QED BY <2>9, <2>10
<1> QED BY <1>1, <1>5, <1>6, <1>7

\* The lists of moves made of the plays of P.
ListsOf(P) == [amMoves : Seq({Entry(p) : p \in P}), cMaxMoves : Nat, cMaxPips : Nat]

\* A call of SaveMoves leaves such a list.
LEMMA SavedStays ==
  ASSUME NEW P, NEW p \in P, Counted(p), NEW ml \in ListsOf(P)
  PROVE  Saved(ml, p) \in ListsOf(P)
<1> DEFINE E == {Entry(q) : q \in P}
           n == SaveMoves(ml, p.an, p.cPip, p.board)
<1>1. Entry(p) \in E /\ ml.amMoves \in Seq(E) /\ <<>> \in Seq(E)
  BY EmptySeq DEF ListsOf
<1>2. PICK kept, same, better : SavedBy(n, ml, p, kept, same, better)
  BY SaveIs
<1> HIDE DEF n, E
<1>3. kept \in Seq(E)
  BY <1>1, <1>2 DEF SavedBy
<1>4. Append(kept, Entry(p)) \in Seq(E)
  BY <1>1, <1>3, AppendProperties
<1>5. [k \in DOMAIN kept |-> IF k \in better THEN Entry(p) ELSE kept[k]] \in Seq(E)
  <2> DEFINE f == [k \in DOMAIN kept |-> IF k \in better THEN Entry(p) ELSE kept[k]]
  <2>1. DOMAIN kept = 1..Len(kept) /\ Len(kept) \in Nat
    BY <1>3, LenProperties
  <2>2. \A k \in DOMAIN kept : kept[k] \in E
    BY <1>3, <2>1, ElementOfSeq
  <2>3. f \in [1..Len(kept) -> E]
    BY <1>1, <2>1, <2>2
  <2> HIDE DEF f
  <2>4. f \in Seq(E)
    BY <2>1, <2>3, SeqDef
  <2> QED BY <2>4 DEF f
<1>6. n = ml \/ \E q \in Seq(E) : n = [cMaxMoves |-> Len(p.an), cMaxPips |-> p.cPip, amMoves |-> q]
  <2> DEFINE q == IF same = {} THEN Append(kept, Entry(p))
                  ELSE [k \in DOMAIN kept |-> IF k \in better THEN Entry(p) ELSE kept[k]]
  <2>1. n = ml \/ n = [cMaxMoves |-> Len(p.an), cMaxPips |-> p.cPip, amMoves |-> q]
    BY <1>2, Zenon DEF SavedBy
  <2>2. q \in Seq(E)
    BY <1>4, <1>5
  <2> HIDE DEF q
  <2> QED BY <2>1, <2>2
<1>7. n \in ListsOf(P)
  BY <1>6 DEF ListsOf, Counted, E
<1> QED BY <1>7 DEF Saved, n

\* GenerateMoves, play by play.
SavedBySteps(f, st, last) ==
    /\ f[0] = Nothing /\ f[Len(st)] = last
    /\ \A i \in 1..Len(st) : f[i] = Saved(f[i - 1], st[i])

\* There are such steps.
LEMMA GenerateFold ==
  ASSUME NEW b, NEW x, NEW y, NEW st, st = Stream(b, x, y), IsList(st), \A p \in Range(st) : Counted(p)
  PROVE  \E f : SavedBySteps(f, st, GenerateMoves(b, x, y))
<1> DEFINE n == Len(st)
           D == DOMAIN st
           V == ListsOf(Range(st))
           base == Nothing
           P(f) == f = [T \in SUBSET DOMAIN st |->
                          IF T = {} THEN base ELSE Saved(f[T \ {Max(T)}], st[Max(T)])]
           c == CHOOSE f : P(f)
           step == [i \in D |-> [acc \in V |-> Saved(acc, st[i])]]
<1>1. GenerateMoves(b, x, y) = c[DOMAIN st]
  <2> DEFINE first == GenerateMovesSub(RollOf(x, y), b)
             Save(ml, p) == IF p.an = <<>> THEN ml ELSE SaveMoves(ml, p.an, p.cPip, p.board)
  <2>1. GenerateMoves(b, x, y) =
          FoldLeft(Save, [amMoves |-> <<>>, cMaxMoves |-> 0, cMaxPips |-> 0],
                   IF x = y THEN first ELSE first \o GenerateMovesSub(RollOf(y, x), b))
    BY Zenon DEF GenerateMoves
  <2>2. (IF x = y THEN first ELSE first \o GenerateMovesSub(RollOf(y, x), b)) = st
    BY DEF Stream
  <2> HIDE DEF first
  <2>3. GenerateMoves(b, x, y) = FoldLeft(Save, [amMoves |-> <<>>, cMaxMoves |-> 0, cMaxPips |-> 0], st)
    BY <2>1, <2>2, Zenon
  <2> QED BY <2>3, Zenon DEF FoldLeft, MapThenFoldSet, Saved, Nothing
<1>2. n \in Nat /\ DOMAIN st = D /\ D = 1..n
  BY LenProperties DEF IsList
<1>3. base \in V
  BY EmptySeq DEF Nothing, ListsOf
<1>4. ASSUME NEW i \in D, NEW acc \in V PROVE Saved(acc, st[i]) \in V
  BY SavedStays DEF Range
<1> HIDE DEF V, base
<1>5. step \in [D -> [V -> V]]
  BY <1>4
<1>6. \A i \in D, acc \in V : step[i][acc] = Saved(acc, st[i])
  OBVIOUS
<1> HIDE DEF step
<1>7. \A T \in SUBSET D : T # {} => Max(T) \in D /\ T \ {Max(T)} \in SUBSET D
  BY <1>2, MaxIn
<1> HIDE DEF n, D
<1>8. P(c)
  <2>1. PICK f : FoldsIn(f, D, V, base, step)
    BY <1>2, <1>3, <1>5, FoldComputes
  <2>2. ASSUME NEW T \in SUBSET D
        PROVE  f[T] = IF T = {} THEN base ELSE Saved(f[T \ {Max(T)}], st[Max(T)])
    BY <1>6, <1>7, <2>1 DEF FoldsIn
  <2>3. P(f)
    BY <1>2, <2>1, <2>2 DEF FoldsIn
  <2> HIDE DEF P
  <2> QED BY <2>3
<1> HIDE DEF c
<1>9. Folds(c, D, V, base, step)
  BY <1>2, <1>6, <1>7, <1>8 DEF Folds
<1> HIDE DEF P
<1>10. PICK f : GoesOn(f, n, D, V, base, step, c[D])
  BY <1>2, <1>3, <1>5, <1>9, FoldBySteps
<1>11. \A i \in D : f[i] = Saved(f[i - 1], st[i])
  BY <1>2, <1>6, <1>10 DEF GoesOn
<1>12. f[n] = GenerateMoves(b, x, y)
  BY <1>1, <1>2, <1>10 DEF GoesOn
<1> QED BY <1>2, <1>10, <1>11, <1>12 DEF n, base, SavedBySteps, GoesOn

\* The list holds the best of the plays met.
LEMMA GenerateKeeps ==
  ASSUME NEW b, NEW x, NEW y, NEW st, st = Stream(b, x, y), IsList(st),
         \A p \in Range(st) : Counted(p), Graded(Range(st))
  PROVE  Kept(GenerateMoves(b, x, y), {p \in Range(st) : p.an # <<>>})
<1> DEFINE n == Len(st)
           Met(m) == {st[i] : i \in {i \in 1..m : st[i].an # <<>>}}
<1>1. PICK f : SavedBySteps(f, st, GenerateMoves(b, x, y))
  BY GenerateFold
<1>2. n \in Nat /\ DOMAIN st = 1..n
  BY LenProperties DEF IsList
<1> DEFINE A == {m \in Nat : m <= n => Kept(f[m], Met(m))}
<1>3. 0 \in A
  <2>1. Met(0) = {}
    OBVIOUS
  <2>2. f[0] = Nothing
    BY <1>1 DEF SavedBySteps
  <2> HIDE DEF Met
  <2>3. Range(Nothing.amMoves) = {} /\ IsList(Nothing.amMoves)
    BY EmptyList DEF Nothing, Range
  <2>4. Best(Nothing, {}) = {}
    BY DEF Best
  <2>5. Kept(Nothing, {})
    BY <2>3, <2>4 DEF Kept, Nothing
  <2> QED BY <2>1, <2>2, <2>5
<1>4. ASSUME NEW m \in Nat, m \in A PROVE m + 1 \in A
  <2> SUFFICES ASSUME m + 1 <= n PROVE Kept(f[m + 1], Met(m + 1))
    OBVIOUS
  <2> DEFINE p == st[m + 1]
  <2>1. m + 1 \in 1..n /\ (m + 1) - 1 = m /\ m <= n /\ 1..(m + 1) = 1..m \cup {m + 1}
    BY <1>2
  <2>2. p \in Range(st) /\ Counted(p)
    BY <1>2, <2>1 DEF Range
  <2>3. f[m + 1] = Saved(f[m], p)
    BY <1>1, <2>1 DEF SavedBySteps
  <2>4. Kept(f[m], Met(m))
    BY <1>4, <2>1
  <2>5. Met(m + 1) = IF p.an # <<>> THEN Met(m) \cup {p} ELSE Met(m)
    BY <2>1
  <2>6. Met(m) \subseteq Range(st)
    BY <1>2, <2>1 DEF Range
  <2> HIDE DEF Met, p
  <2>7. CASE p.an = <<>>
    BY <2>3, <2>4, <2>5, <2>7 DEF Saved
  <2>8. CASE p.an # <<>>
    <3>1. f[m + 1] = SaveMoves(f[m], p.an, p.cPip, p.board)
      BY <2>3, <2>8 DEF Saved
    <3>2. Len(p.an) > 0
      BY <2>2, <2>8, EmptySeq, LenProperties DEF Counted, IsList
    <3>3. Graded(Met(m) \cup {p}) /\ \A q \in Met(m) : Counted(q)
      BY <2>2, <2>6 DEF Graded
    <3>4. Kept(SaveMoves(f[m], p.an, p.cPip, p.board), Met(m) \cup {p})
      BY <2>2, <2>4, <3>2, <3>3, SaveKeeps
    <3> QED BY <2>5, <2>8, <3>1, <3>4
  <2> QED BY <2>7, <2>8
<1>5. Nat \subseteq A
  <2> HIDE DEF A
  <2> QED BY <1>3, <1>4, SetInduction
<1>6. Kept(f[n], Met(n))
  <2>1. n \in A /\ n <= n
    <3> HIDE DEF A
    <3> QED BY <1>2, <1>5
  <2> HIDE DEF Met, n
  <2> QED BY <2>1
<1>7. Met(n) = {p \in Range(st) : p.an # <<>>}
  BY <1>2 DEF Range
<1> QED BY <1>1, <1>6, <1>7 DEF SavedBySteps

\* Every way with m dice has c pips, and none with fewer has more.
PipsTo(w, m, c) == /\ \A v \in w[m] : v.pips = c
                   /\ \A j \in 0 .. m - 1 : \A u \in w[j] : u.pips <= c

\* A longer way has no fewer pips.
LEMMA WaysGraded ==
  ASSUME NEW b, Legal(b), NEW x \in Dice, NEW y \in Dice, NEW w, Reach(w, b, RollOf(x, y))
  PROVE  \A j, k \in 0..4 : j < k => \A u \in w[j], v \in w[k] : u.pips <= v.pips
<1> DEFINE r == RollOf(x, y)
<1>1. \A k \in 1..4 : \A v \in w[k] : \E o, j, i : From(v, w[k - 1], o, j, i, r)
  BY WayCameFrom DEF Reach
<1>2. \A v \in w[0] : v.pips = 0 /\ v.left = DOMAIN r
  BY DEF Reach
<1>3. x \in Nat /\ y \in Nat
  BY BoardAssumption DEF Dice
<1>4. IsRoll(r)
  BY RollsAre DEF IsDouble, IsPair
<1>5. Reach(w, b, r)
  OBVIOUS
<1>6. \A k \in 0..4 : \A v \in w[k] : v.left \subseteq 1..Len(r) /\ v.pips \in Nat
  BY <1>4, <1>5, WaysTyped DEF WayTyped
<1>7. CASE x = y
  <2>1. Len(r) = 4 /\ \A k \in 1..4 : r[k] = x
    BY <1>7, RollsAre DEF IsDouble
  <2> HIDE DEF r
  <2> DEFINE A == {m \in Nat : m <= 4 => \E c \in Nat : PipsTo(w, m, c)}
  <2>2. 0 \in A
    BY <1>2 DEF PipsTo
  <2>3. ASSUME NEW m \in Nat, m \in A PROVE m + 1 \in A
    <3> SUFFICES ASSUME m + 1 <= 4
                 PROVE  \E c \in Nat : PipsTo(w, m + 1, c)
      OBVIOUS
    <3>1. m + 1 \in 1..4 /\ (m + 1) - 1 = m /\ m <= 4 /\ m \in 0..4
      OBVIOUS
    <3>0. PICK c \in Nat : PipsTo(w, m, c)
      BY <2>3, <3>1
    <3>2. /\ \A v \in w[m] : v.pips = c
          /\ \A j \in 0 .. m - 1 : \A u \in w[j] : u.pips <= c
      BY <3>0 DEF PipsTo
    <3>3. ASSUME NEW v \in w[m + 1] PROVE v.pips = c + x
      <4>1. PICK o, j, i : From(v, w[m], o, j, i, r)
        BY <1>1, <3>1
      <4>2. o \in w[m] /\ j \in o.left /\ v.pips = o.pips + r[j]
        BY <4>1 DEF From, WayOn
      <4>3. j \in 1..4
        BY <1>6, <2>1, <3>1, <4>2
      <4> QED BY <2>1, <3>2, <4>2, <4>3
    <3>4. c + x \in Nat /\ c <= c + x
      BY <1>3
    <3>5. ASSUME NEW j \in 0..m, NEW u \in w[j] PROVE u.pips <= c + x
      <4>1. j \in 0..4
        BY <3>1
      <4>2. u.pips \in Nat
        BY <1>6, <4>1
      <4>3. CASE j = m
        BY <1>3, <3>2, <4>3
      <4>4. CASE j # m
        <5>1. j \in 0 .. m - 1
          BY <4>4
        <5>2. u.pips <= c
          BY <3>2, <5>1
        <5> QED BY <1>3, <4>2, <5>2
      <4> QED BY <4>3, <4>4
    <3>6. PipsTo(w, m + 1, c + x)
      BY <3>1, <3>3, <3>5 DEF PipsTo
    <3> QED BY <3>4, <3>6
  <2>4. Nat \subseteq A
    <3> HIDE DEF A
    <3> QED BY <2>2, <2>3, SetInduction
  <2>5. ASSUME NEW j \in 0..4, NEW k \in 0..4, j < k, NEW u \in w[j], NEW v \in w[k]
        PROVE  u.pips <= v.pips
    <3>1. k \in A /\ k <= 4
      <4> HIDE DEF A
      <4> QED BY <2>4
    <3>4. PICK c \in Nat : PipsTo(w, k, c)
      BY <3>1
    <3>2. v.pips = c /\ \A i \in 0 .. k - 1 : \A o \in w[i] : o.pips <= c
      BY <3>4 DEF PipsTo
    <3>3. j \in 0 .. k - 1
      BY <2>5
    <3> QED BY <3>2, <3>3
  <2> QED BY <2>5
<1>8. CASE x # y
  <2>1. Len(r) = 2 /\ r[1] = x /\ r[2] = y /\ DOMAIN r = 1..2
    BY <1>8, RollsAre DEF IsPair, IsRoll
  <2> HIDE DEF r
  <2>2. 1 \in 1..4 /\ 2 \in 1..4 /\ 3 \in 1..4 /\ 4 \in 1..4 /\ 1 - 1 = 0 /\ 2 - 1 = 1 /\ 3 - 1 = 2 /\ 4 - 1 = 3
        /\ 1..2 = {1, 2}
    OBVIOUS
  <2>3. ASSUME NEW v \in w[1]
        PROVE  (v.left = {2} /\ v.pips = x) \/ (v.left = {1} /\ v.pips = y)
    <3>1. PICK o, j, i : From(v, w[0], o, j, i, r)
      BY <1>1, <2>2
    <3>2. o \in w[0] /\ j \in o.left /\ v.left = o.left \ {j} /\ v.pips = o.pips + r[j]
      BY <3>1 DEF From, WayOn
    <3>3. o.left = {1, 2} /\ o.pips = 0
      BY <1>2, <2>1, <2>2, <3>2
    <3> QED BY <1>3, <2>1, <3>2, <3>3
  <2>4. ASSUME NEW v \in w[2]
        PROVE  v.left = {} /\ v.pips = x + y
    <3>1. PICK o, j, i : From(v, w[1], o, j, i, r)
      BY <1>1, <2>2
    <3>2. o \in w[1] /\ j \in o.left /\ v.left = o.left \ {j} /\ v.pips = o.pips + r[j]
      BY <3>1 DEF From, WayOn
    <3> QED BY <1>3, <2>1, <2>3, <3>2
  <2>5. w[3] = {}
    <3> SUFFICES ASSUME NEW v \in w[3] PROVE FALSE
      OBVIOUS
    <3>1. PICK o, j, i : From(v, w[2], o, j, i, r)
      BY <1>1, <2>2
    <3> QED BY <2>4, <3>1 DEF From
  <2>6. w[4] = {}
    <3> SUFFICES ASSUME NEW v \in w[4] PROVE FALSE
      OBVIOUS
    <3>1. PICK o, j, i : From(v, w[3], o, j, i, r)
      BY <1>1, <2>2
    <3> QED BY <2>5, <3>1 DEF From
  <2>7. ASSUME NEW j \in 0..4, NEW k \in 0..4, j < k, NEW u \in w[j], NEW v \in w[k]
        PROVE  u.pips <= v.pips
    <3>1. (j = 0 /\ k = 1) \/ (j = 0 /\ k = 2) \/ (j = 1 /\ k = 2)
      BY <2>5, <2>6, <2>7
    <3>2. CASE j = 0
      <4>1. u.pips = 0
        BY <1>2, <3>2
      <4>2. v.pips \in Nat
        BY <1>6
      <4> QED BY <4>1, <4>2
    <3>3. CASE j = 1 /\ k = 2
      BY <1>3, <2>3, <2>4, <3>3
    <3> QED BY <3>1, <3>2, <3>3
  <2> QED BY <2>7
<1> QED BY <1>7, <1>8

\* The key of a legal board gives the board.
LEMMA KeyOfLegal ==
  ASSUME NEW b, Legal(b)
  PROVE  PositionFromKey(PositionKey(b)) = b
<1>1. b \in Boards /\ b[0] \in [Slots -> Nat] /\ b[1] \in [Slots -> Nat]
  BY DEF Legal, Apart, Boards
<1>2. NChequers \in Nat /\ NChequers <= 15
  BY BoardAssumption, ListAssumption
<1>3. ASSUME NEW s \in 0..1, NEW i \in Slots PROVE b[s][i] < 16
  <2>1. b[s] \in [Slots -> Nat] /\ Chequers(b[s]) <= NChequers
    BY <1>1 DEF Legal, CorrectNumberOfChequers, Boards
  <2>2. b[s][i] <= Chequers(b[s]) /\ b[s][i] \in Nat
    BY <2>1, PointBound
  <2>3. Chequers(b[s]) \in Nat
    BY <2>1, ChequersSums DEF SumsTo
  <2> QED BY <1>2, <2>1, <2>2, <2>3
<1> QED BY <1>1, <1>3, KeyIsFaithful

\* The plays met, as ways: hops counted, and a longer one with no fewer pips.
LEMMA MetAreCounted ==
  ASSUME NEW b, Legal(b), NEW x \in Dice, NEW y \in Dice, NEW w, Reach(w, b, RollOf(x, y)),
         NEW P, Meets(P, w)
  PROVE  (\A p \in P : Counted(p)) /\ Graded(P)
<1>1. ASSUME NEW p \in P PROVE Counted(p)
  BY LenProperties DEF IsList, Counted, Meets
<1>2. ASSUME NEW p \in P, NEW q \in P, Len(p.an) > Len(q.an) PROVE p.cPip >= q.cPip
  <2>1. PICK k \in 0..4 : Len(p.an) = k /\ \E v \in w[k] : v.pips = p.cPip
    BY DEF Meets
  <2>2. PICK j \in 0..4 : Len(q.an) = j /\ \E u \in w[j] : u.pips = q.cPip
    BY DEF Meets
  <2>3. j < k
    BY <1>2, <2>1, <2>2
  <2>4. q.cPip <= p.cPip
    BY <2>1, <2>2, <2>3, WaysGraded
  <2>5. q.cPip \in Nat /\ p.cPip \in Nat
    BY <1>1 DEF Counted
  <2> QED BY <2>4, <2>5
<1> QED BY <1>1, <1>2 DEF Graded

\* Whatever the roll.
LEMMA SearchMeets ==
  ASSUME NEW b, Legal(b), NEW x \in Dice, NEW y \in Dice, NEW w, Reach(w, b, RollOf(x, y))
  PROVE  Meets(Range(Stream(b, x, y)), w)
<1>1. CASE x = y
  <2>1. Reach(w, b, RollOf(x, x))
    BY <1>1
  <2>2. Meets(Range(Stream(b, x, x)), w)
    BY <2>1, DoubleSearchMeets
  <2> QED BY <1>1, <2>2
<1>2. CASE x # y
  BY <1>2, PairSearchMeets
<1> QED BY <1>1, <1>2

\* The ways with the most dice.
LEMMA MostDice ==
  ASSUME NEW w, w[0] # {}, \A k \in 1..4 : w[k - 1] = {} => w[k] = {}
  PROVE  \E m \in 0..4 : w[m] # {} /\ Ended(w, m) /\ \A k \in 0..4 : k > m => w[k] = {}
<1>1. /\ w[1] # {} \/ w[1] = {}
      /\ w[1] = {} => w[2] = {}
      /\ w[2] = {} => w[3] = {}
      /\ w[3] = {} => w[4] = {}
  OBVIOUS
<1>2. \A k \in 0..4 : k = 0 \/ k = 1 \/ k = 2 \/ k = 3 \/ k = 4
  OBVIOUS
<1>3. CASE w[4] # {}
  BY <1>3 DEF Ended
<1>4. CASE w[4] = {} /\ w[3] # {}
  BY <1>4 DEF Ended
<1>5. CASE w[3] = {} /\ w[2] # {}
  BY <1>1, <1>5 DEF Ended
<1>6. CASE w[2] = {} /\ w[1] # {}
  BY <1>1, <1>6 DEF Ended
<1>7. CASE w[1] = {}
  BY <1>1, <1>7 DEF Ended
<1> QED BY <1>1, <1>3, <1>4, <1>5, <1>6, <1>7

\* The longest ways, of them those with most pips.
LEMMA RulePlaysAre ==
  ASSUME NEW b, Legal(b), NEW x \in Dice, NEW y \in Dice, NEW w, Reach(w, b, RollOf(x, y)),
         Ways(b, RollOf(x, y)) = UNION {w[k] : k \in 0..4}
  PROVE  \E m \in 0..4 : /\ w[m] # {} /\ Ended(w, m) /\ \A k \in 0..4 : k > m => w[k] = {}
                         /\ RulePlays(b, x, y) =
                              {v.board : v \in {u \in w[m] : m > 0 /\ \A o \in w[m] : o.pips <= u.pips}}
<1> DEFINE r == RollOf(x, y)
           ways == Ways(b, r)
           most == {v \in ways : \A u \in ways : u.n <= v.n}
           best == {v \in most : \A u \in most : u.pips <= v.pips}
<1>1. IsRoll(r)
  BY RollsAre DEF IsDouble, IsPair
<1>2. \A k \in 0..4 : \A v \in w[k] : v.n = k
  BY <1>1, WaysTyped DEF WayTyped
<1>3. w[0] # {} /\ \A k \in 1..4 : w[k - 1] = {} => w[k] = {}
  <2>1. w[0] # {}
    BY DEF Reach
  <2>2. ASSUME NEW k \in 1..4, w[k - 1] = {} PROVE w[k] = {}
    BY <2>2, WayCameFrom DEF From, Reach
  <2> QED BY <2>1, <2>2
<1>4. PICK m \in 0..4 : w[m] # {} /\ Ended(w, m) /\ \A k \in 0..4 : k > m => w[k] = {}
  BY <1>3, MostDice
<1>5. RulePlays(b, x, y) = {v.board : v \in {u \in best : u.n > 0}}
  BY Zenon DEF RulePlays
<1>6. most = w[m]
  <2>1. ASSUME NEW v \in w[m] PROVE v \in most
    <3>1. v \in ways /\ v.n = m
      BY <1>2
    <3>2. ASSUME NEW u \in ways PROVE u.n <= m
      <4>1. PICK k \in 0..4 : u \in w[k]
        BY <3>2
      <4>2. ~(k > m) /\ u.n = k
        BY <1>2, <1>4, <4>1
      <4> QED BY <4>2
    <3> QED BY <3>1, <3>2
  <2>2. ASSUME NEW v \in most PROVE v \in w[m]
    <3>1. PICK k \in 0..4 : v \in w[k]
      BY <2>2
    <3>2. PICK u \in w[m] : u \in ways /\ u.n = m
      BY <1>2, <1>4
    <3>3. m <= k
      BY <1>2, <2>2, <3>1, <3>2
    <3>4. ~(k > m)
      BY <1>4, <3>1
    <3>5. k = m
      BY <3>3, <3>4
    <3> QED BY <3>1, <3>5
  <2> QED BY <2>1, <2>2
<1> HIDE DEF most
<1>7. {u \in best : u.n > 0} = {u \in w[m] : m > 0 /\ \A o \in w[m] : o.pips <= u.pips}
  BY <1>2, <1>6
<1> QED BY <1>4, <1>5, <1>7

---------------------------------------------------------------------------
(* The generator.                                                          *)

\* What it lists are plays it met, of the boards the rules allow, and of all of these.
GeneratedIs(ml, P, R) ==
    /\ IsList(ml.amMoves)
    /\ \A e \in Range(ml.amMoves) : \E p \in P : e = Entry(p) /\ p.an # <<>> /\ p.board \in R /\ Legal(p.board)
    /\ \A c \in R : Legal(c) /\ \E e \in Range(ml.amMoves) : e.key = PositionKey(c)

\* The generator keeps the best of what it meets.
LEMMA GeneratedIsKept ==
  ASSUME NEW b, Legal(b), NEW x \in Dice, NEW y \in Dice
  PROVE  /\ \A p \in Range(Stream(b, x, y)) : Counted(p)
         /\ Kept(GenerateMoves(b, x, y), {p \in Range(Stream(b, x, y)) : p.an # <<>>})
<1> DEFINE st == Stream(b, x, y)
           P == Range(st)
           ml == GenerateMoves(b, x, y)
           Q == {p \in P : p.an # <<>>}
<1>1. PICK w : Reach(w, b, RollOf(x, y)) /\ Ways(b, RollOf(x, y)) = UNION {w[k] : k \in 0..4}
  BY WaysReach
<1>2. Meets(P, w)
  BY <1>1, SearchMeets
<1>3. (\A p \in P : Counted(p)) /\ Graded(P)
  BY <1>1, <1>2, MetAreCounted
<1>4. Kept(ml, Q)
  <2>1. IsList(st)
    BY SearchIsInTree
  <2> HIDE DEF st
  <2> QED BY <1>3, <2>1, GenerateKeeps DEF st
<1> QED BY <1>3, <1>4

\* It is so for every legal board and every roll.
LEMMA GeneratedListsRules ==
  ASSUME NEW b, Legal(b), NEW x \in Dice, NEW y \in Dice
  PROVE  GeneratedIs(GenerateMoves(b, x, y), Range(Stream(b, x, y)), RulePlays(b, x, y))
<1> DEFINE st == Stream(b, x, y)
           P == Range(st)
           ml == GenerateMoves(b, x, y)
           Q == {p \in P : p.an # <<>>}
           R == RulePlays(b, x, y)
<1>1. PICK w : Reach(w, b, RollOf(x, y)) /\ Ways(b, RollOf(x, y)) = UNION {w[k] : k \in 0..4}
  BY WaysReach
<1>2. Meets(P, w)
  BY <1>1, SearchMeets
<1>3. \A p \in P : Counted(p)
  BY GeneratedIsKept
<1>4. Kept(ml, Q)
  BY GeneratedIsKept
<1>5. PICK m \in 0..4 :
         /\ w[m] # {} /\ Ended(w, m) /\ \A k \in 0..4 : k > m => w[k] = {}
         /\ R = {v.board : v \in {u \in w[m] : m > 0 /\ \A o \in w[m] : o.pips <= u.pips}}
  BY <1>1, RulePlaysAre
<1> HIDE DEF st, ml, R, P
\* Every play met is a way, and every way with the most dice is met.
<1>6. ASSUME NEW p \in P
      PROVE  \E k \in 0..4 : /\ Len(p.an) = k /\ Legal(p.board) /\ p.cPip \in Nat /\ k <= m
                             /\ \E v \in w[k] : v.board = p.board /\ v.pips = p.cPip
  <2>1. PICK k \in 0..4 : /\ Len(p.an) = k /\ Legal(p.board) /\ p.cPip \in Nat
                          /\ \E v \in w[k] : v.board = p.board /\ v.pips = p.cPip
    BY <1>2 DEF Meets
  <2>2. ~(k > m)
    BY <1>5, <2>1
  <2> QED BY <2>1, <2>2
<1>7. \A v \in w[m] : \E p \in P : Len(p.an) = m /\ p.board = v.board /\ p.cPip = v.pips
  BY <1>2, <1>5 DEF Meets
<1>8. \A p \in P : p.an = <<>> <=> Len(p.an) = 0
  BY <1>3, EmptySeq, LenProperties DEF Counted, IsList
\* With dice to play the best are those of w[m] with the most pips.
<1>9. ASSUME NEW p \in Best(ml, Q) PROVE p \in P /\ p.an # <<>> /\ p.board \in R /\ Legal(p.board)
  <2>1. p \in Q /\ p \in P /\ p.an # <<>> /\ Len(p.an) = ml.cMaxMoves /\ p.cPip = ml.cMaxPips
    BY <1>9 DEF Best
  <2>2. PICK k \in 0..4 : /\ Len(p.an) = k /\ Legal(p.board) /\ k <= m
                          /\ \E v \in w[k] : v.board = p.board /\ v.pips = p.cPip
    BY <1>6, <2>1
  <2>3. k > 0 /\ m > 0
    BY <1>8, <2>1, <2>2
  <2>4. \A v \in w[m] : \E q \in Q : Len(q.an) = m /\ q.board = v.board /\ q.cPip = v.pips
    BY <1>7, <1>8, <2>3
  <2>5. k = m
    <3>1. PICK q \in Q : Len(q.an) = m
      BY <1>5, <2>4
    <3>2. m <= ml.cMaxMoves
      BY <1>4, <3>1 DEF Kept
    <3> QED BY <2>1, <2>2, <3>2
  <2>6. \A v \in w[m] : v.pips <= ml.cMaxPips
    BY <1>4, <2>4 DEF Kept
  <2>7. PICK v \in w[m] : v.board = p.board /\ v.pips = p.cPip
    BY <2>2, <2>5
  <2>8. p.board \in R
    BY <1>5, <2>1, <2>3, <2>6, <2>7
  <2> QED BY <2>1, <2>2, <2>8
<1>10. ASSUME NEW c \in R PROVE \E p \in Best(ml, Q) : p.board = c
  <2>1. PICK v \in w[m] : m > 0 /\ v.board = c /\ \A o \in w[m] : o.pips <= v.pips
    BY <1>5
  <2>2. PICK p \in P : Len(p.an) = m /\ p.board = c /\ p.cPip = v.pips
    BY <1>7, <2>1
  <2>3. p \in Q
    BY <1>8, <2>1, <2>2
  <2>4. PICK q \in Best(ml, Q) : q \in P /\ Len(q.an) = ml.cMaxMoves /\ q.cPip = ml.cMaxPips
    BY <1>4, <2>3 DEF Kept, Best
  <2>5. p.cPip <= ml.cMaxPips /\ Len(p.an) <= ml.cMaxMoves
    BY <1>4, <2>3 DEF Kept
  <2>6. PICK k \in 0..4 : /\ Len(q.an) = k /\ k <= m /\ q.cPip \in Nat
                          /\ \E u \in w[k] : u.board = q.board /\ u.pips = q.cPip
    BY <1>6, <2>4
  <2>7. k = m /\ ml.cMaxMoves = m
    BY <2>2, <2>4, <2>5, <2>6
  <2>8. q.cPip <= p.cPip
    BY <2>1, <2>2, <2>6, <2>7
  <2>9. p.cPip \in Nat
    BY <1>6
  <2>10. p.cPip = ml.cMaxPips
    BY <2>4, <2>5, <2>6, <2>8, <2>9
  <2> QED BY <2>2, <2>3, <2>7, <2>10 DEF Best
<1>11. \A e \in Range(ml.amMoves) : \E p \in P : e = Entry(p) /\ p.an # <<>> /\ p.board \in R /\ Legal(p.board)
  BY <1>4, <1>9 DEF Kept
<1>12. ASSUME NEW c \in R PROVE Legal(c) /\ \E e \in Range(ml.amMoves) : e.key = PositionKey(c)
  <2>1. PICK p \in Best(ml, Q) : p.board = c
    BY <1>10
  <2>2. Legal(c)
    BY <1>9, <2>1
  <2> QED BY <1>4, <2>1, <2>2 DEF Kept
<1>13. IsList(ml.amMoves)
  BY <1>4 DEF Kept
<1>14. GeneratedIs(ml, P, R)
  BY <1>11, <1>12, <1>13 DEF GeneratedIs
<1> QED BY <1>14 DEF ml, P, R, st

\* For every legal board and every roll, the generator lists exactly the boards that the
\* rules allow a play to lead to.
THEOREM GeneratorIsTheRules ==
  ASSUME NEW b, Apart(b), CorrectNumberOfChequers(b), NEW x \in Dice, NEW y \in Dice
  PROVE  LET ml == GenerateMoves(b, x, y) IN
         {PositionFromKey(ml.amMoves[k].key) : k \in DOMAIN ml.amMoves} = RulePlays(b, x, y)
<1> DEFINE ml == GenerateMoves(b, x, y)
           R == RulePlays(b, x, y)
           P == Range(Stream(b, x, y))
           K == {PositionFromKey(ml.amMoves[k].key) : k \in DOMAIN ml.amMoves}
<1>1. Legal(b)
  BY DEF Legal
<1>2. GeneratedIs(ml, P, R)
  BY <1>1, GeneratedListsRules
<1> HIDE DEF ml, R, P
<1>3. K = {PositionFromKey(e.key) : e \in Range(ml.amMoves)}
  BY DEF Range
<1> HIDE DEF K
<1>4. ASSUME NEW e \in Range(ml.amMoves) PROVE PositionFromKey(e.key) \in R
  <2>1. PICK p \in P : e = Entry(p) /\ p.board \in R /\ Legal(p.board)
    BY <1>2 DEF GeneratedIs
  <2>2. PositionFromKey(e.key) = p.board
    BY <2>1, KeyOfLegal DEF Entry
  <2> QED BY <2>1, <2>2
<1>5. ASSUME NEW c \in R PROVE \E e \in Range(ml.amMoves) : PositionFromKey(e.key) = c
  <2>1. PICK e \in Range(ml.amMoves) : Legal(c) /\ e.key = PositionKey(c)
    BY <1>2 DEF GeneratedIs
  <2> QED BY <2>1, KeyOfLegal
<1>6. K = R
  BY <1>3, <1>4, <1>5
<1> QED BY <1>6 DEF K, R, ml

---------------------------------------------------------------------------
(* What gnubg waits with.                                                  *)

\* A turn begins with a position, and gnubg waits with the board of it.
Waits ==
    /\ DOMAIN gnubg = {"turn", "start", "board", "waiting"}
    /\ gnubg.start \in Positions /\ (gnubg.waiting => gnubg.board = gnubg.start.board)

\* At first,
LEMMA InitWaits == Init => Waits
<1> SUFFICES ASSUME Init PROVE Waits
  OBVIOUS
<1>1. PICK p \in Positions : gnubg = Rolled(p, 1)
  BY DEF Init
<1> QED BY <1>1 DEF Rolled, Waits

\* gnubg's match changes by its answer and by a roll, and by nothing else.
LEMMA OnlyTwoTouch ==
  ASSUME [Next]_vars, ~GnubgAnswers, ~RollBody PROVE gnubg' = gnubg
<1>1. CASE \E press \in Presses : Press(press)
  BY <1>1 DEF Press
<1>2. CASE Undo
  BY <1>2 DEF Undo
<1>3. CASE SwapDice
  BY <1>3 DEF SwapDice
<1>4. CASE MainWrites
  BY <1>4 DEF MainWrites
<1>5. CASE HopBody
  BY <1>5 DEF HopBody
<1>6. CASE GiveBody
  BY <1>6 DEF GiveBody
<1>7. CASE UNCHANGED vars
  BY <1>7 DEF vars
<1> QED BY <1>1, <1>2, <1>3, <1>4, <1>5, <1>6, <1>7 DEF Next

\* What gnubg's answer makes of its match.
Answered(new) ==
    gnubg' = IF gnubg.waiting /\ new # NoBoard
             THEN [gnubg EXCEPT !.board = new, !.waiting = FALSE] ELSE gnubg

\* It is this.
LEMMA AnswerIs ==
  ASSUME GnubgAnswers
  PROVE  Answered(GiveMove(engine[1], gnubg.board, gnubg.start.dice[1], gnubg.start.dice[2]))
BY Zenon DEF GnubgAnswers, Answered

\* And what a roll makes of it.
LEMMA RollIs ==
  ASSUME RollBody
  PROVE  gnubg' = gnubg \/ \E p \in Positions : \E n : gnubg' = Rolled(p, n)
<1>1. Replies \subseteq Positions
  BY EntryAssumption
<1> QED BY <1>1 DEF RollBody

\* and after every step.
LEMMA StepKeepsWaits == Waits /\ [Next]_vars => Waits'
<1> SUFFICES ASSUME Waits, [Next]_vars PROVE Waits'
  OBVIOUS
<1>1. CASE GnubgAnswers
  <2>1. PICK new : Answered(new)
    BY <1>1, AnswerIs
  <2> QED BY <2>1 DEF Answered, Waits
<1>2. CASE RollBody
  <2>1. CASE gnubg' = gnubg
    BY <2>1 DEF Waits
  <2>2. ASSUME NEW p \in Positions, NEW n, gnubg' = Rolled(p, n) PROVE Waits'
    BY <2>2 DEF Rolled, Waits
  <2> QED BY <1>2, <2>1, <2>2, RollIs
<1>3. CASE ~GnubgAnswers /\ ~RollBody
  <2>1. gnubg' = gnubg
    BY <1>3, OnlyTwoTouch
  <2> QED BY <2>1 DEF Waits
<1> QED BY <1>1, <1>2, <1>3

\* The position gnubg waits with is legal, and so are its dice.
LEMMA StartIs ==
  ASSUME Waits
  PROVE  Legal(gnubg.start.board) /\ Die(1) \in Dice /\ Die(2) \in Dice
<1>1. gnubg.start \in Positions
  BY DEF Waits
<1>2. CorrectNumberOfChequers(gnubg.start.board)
  BY <1>1, EntryAssumption
<1> QED BY <1>1, <1>2, PositionIs DEF Legal, Die

\* Whenever gnubg waits for a fresh move its generator, which searches both orders of the dice
\* or one of a double from the highest chequer down, lists exactly what the rules allow.
THEOREM GeneratedCorrect == Spec => []GeneratedAreTheRules
<1>1. Init => Waits
  BY InitWaits
<1>2. Waits /\ [Next]_vars => Waits'
  BY StepKeepsWaits
<1>3. Waits => GeneratedAreTheRules
  <2> SUFFICES ASSUME Waits, Fresh
               PROVE  LET ml == GenerateMoves(gnubg.board, Die(1), Die(2)) IN
                      {PositionFromKey(ml.amMoves[k].key) : k \in DOMAIN ml.amMoves}
                      = RulePlays(gnubg.board, Die(1), Die(2))
    BY Zenon DEF GeneratedAreTheRules
  <2>1. gnubg.board = gnubg.start.board
    BY DEF Fresh, Waits
  <2>2. Apart(gnubg.board) /\ CorrectNumberOfChequers(gnubg.board) /\ Die(1) \in Dice /\ Die(2) \in Dice
    BY <2>1, StartIs DEF Legal
  <2> QED BY <2>2, GeneratorIsTheRules
<1> QED BY <1>1, <1>2, <1>3, PTL DEF Spec

---------------------------------------------------------------------------
(* A play applied hop by hop.                                              *)

\* A hop of a play applied to what its earlier hops made.
Applied(acc, hop) == IF acc.rc # 0 THEN acc ELSE ApplySubMove(acc.board, hop[1], hop[1] - hop[2])

Hops(an) == IsList(an) /\ \A k \in DOMAIN an : an[k][1] \in Int /\ an[k][2] \in Int

\* A number of chequers put on a point, if it is one.
Fits(i, v) == i \in Slots => v \in Nat

\* It leaves a board.
LEMMA PutOnPoint ==
  ASSUME NEW b, b \in Boards, NEW s, s \in 0..1, NEW i, NEW v, Fits(i, v)
  PROVE  [b EXCEPT ![s][i] = v] \in Boards
<1>1. b[s] \in [Slots -> Nat]
  BY DEF Boards
<1> DEFINE h == [b[s] EXCEPT ![i] = v]
<1>2. h \in [Slots -> Nat]
  BY <1>1 DEF Fits
<1>3. [b EXCEPT ![s][i] = v] = [b EXCEPT ![s] = h]
  OBVIOUS
<1> HIDE DEF h
<1> QED BY <1>2, <1>3 DEF Boards

\* Also a hop that fails leaves a board.
LEMMA HopStaysBoard ==
  ASSUME NEW b, b \in Boards, NEW i \in Int, NEW d \in Int
  PROVE  ApplySubMove(b, i, d).rc \in Int /\ ApplySubMove(b, i, d).board \in Boards
<1> DEFINE dest == i - d
           m == Mirror(dest)
           lifted == [b EXCEPT ![1][i] = @ - 1]
           hit == [lifted EXCEPT ![1][dest] = 1, ![0][m] = 0, ![0][Bar] = @ + 1]
           put == [lifted EXCEPT ![1][dest] = @ + 1]
           r == ApplySubMove(b, i, d)
           there == i \in Slots /\ dest < i /\ b[1][i] >= 1
<1>1. 0 \in 0..1 /\ 1 \in 0..1 /\ -1 \in Int /\ 0 \in Int
  OBVIOUS
<1>2. \A c \in Boards, s \in 0..1, x \in Slots : c[s][x] \in Nat /\ c[s][x] + 1 \in Nat
  BY DEF Boards
<1>3. \A x : Fits(x, 0) /\ Fits(x, 1)
  BY DEF Fits
<1>4. CASE ~there
  <2>1. r = [rc |-> -1, board |-> b]
    BY <1>4 DEF ApplySubMove
  <2> HIDE DEF r
  <2> QED BY <1>1, <2>1 DEF r
<1>5. CASE there
  <2>1. lifted \in Boards
    <3> DEFINE v == b[1][i] - 1
    <3>1. Fits(i, v)
      BY <1>1, <1>2, <1>5 DEF Fits
    <3> HIDE DEF v
    <3>2. [b EXCEPT ![1][i] = v] \in Boards
      BY <1>1, <3>1, PutOnPoint
    <3> QED BY <3>2 DEF v
  <2> HIDE DEF lifted, dest, m
  <2>2. put \in Boards
    <3> DEFINE v == lifted[1][dest] + 1
    <3>1. Fits(dest, v)
      BY <1>1, <1>2, <2>1 DEF Fits
    <3> HIDE DEF v
    <3>2. [lifted EXCEPT ![1][dest] = v] \in Boards
      BY <1>1, <2>1, <3>1, PutOnPoint
    <3> QED BY <3>2 DEF v
  <2>3. hit \in Boards
    <3> DEFINE one == [lifted EXCEPT ![1][dest] = 1]
               two == [one EXCEPT ![0][m] = 0]
               v == lifted[0][Bar] + 1
    <3>1. one \in Boards
      BY <1>1, <1>3, <2>1, PutOnPoint
    <3> HIDE DEF one
    <3>2. two \in Boards
      BY <1>1, <1>3, <3>1, PutOnPoint
    <3> HIDE DEF two
    <3>3. Fits(Bar, v)
      BY <1>1, <1>2, <2>1 DEF Fits
    <3> HIDE DEF v
    <3>4. [two EXCEPT ![0][Bar] = v] \in Boards
      BY <1>1, <3>2, <3>3, PutOnPoint
    <3> QED BY <3>4 DEF one, two, v
  <2> HIDE DEF hit, put
  <2>4. there /\ dest < 0 => r = [rc |-> 0, board |-> lifted]
    BY Zenon DEF ApplySubMove, lifted, dest, r
  <2> DEFINE rest == CASE b[0][m] > 1 -> [rc |-> -1, board |-> lifted]
                       [] b[0][m] = 1 -> [rc |-> 0, board |-> hit]
                       [] OTHER       -> [rc |-> 0, board |-> put]
  <2>5. there /\ ~(dest < 0) => r = rest
    BY Zenon DEF ApplySubMove, lifted, hit, put, dest, m, r
  <2> HIDE DEF r, dest, m, there
  <2>6. rest \in {[rc |-> -1, board |-> lifted], [rc |-> 0, board |-> hit], [rc |-> 0, board |-> put]}
    OBVIOUS
  <2> HIDE DEF rest
  <2>7. r \in {[rc |-> -1, board |-> lifted], [rc |-> 0, board |-> hit],
               [rc |-> 0, board |-> put], [rc |-> 0, board |-> lifted]}
    BY <1>5, <2>4, <2>5, <2>6
  <2>8. r.rc \in Int /\ r.board \in Boards
    BY <1>1, <2>1, <2>2, <2>3, <2>7
  <2> QED BY <2>8 DEF r
<1> QED BY <1>4, <1>5

\* What a play makes of a board, hop by hop.
AppliedBy(f, b, an) ==
    /\ f[0] = [rc |-> 0, board |-> b]
    /\ f[Len(an)] = ApplyMove(b, an)
    /\ \A i \in 1..Len(an) : f[i] = Applied(f[i - 1], an[i])
    /\ \A i \in 0..Len(an) : f[i].board \in Boards

\* It is made so.
LEMMA ApplyFold ==
  ASSUME NEW b, b \in Boards, NEW an, Hops(an)
  PROVE  \E f : AppliedBy(f, b, an)
<1> DEFINE n == Len(an)
           D == DOMAIN an
           V == [rc : Int, board : Boards]
           base == [rc |-> 0, board |-> b]
           P(f) == f = [T \in SUBSET DOMAIN an |->
                          IF T = {} THEN base ELSE Applied(f[T \ {Max(T)}], an[Max(T)])]
           c == CHOOSE f : P(f)
           step == [i \in D |-> [acc \in V |-> Applied(acc, an[i])]]
<1>1. ApplyMove(b, an) = c[DOMAIN an]
  BY Zenon DEF ApplyMove, FoldLeft, MapThenFoldSet, Applied
<1>2. n \in Nat /\ DOMAIN an = D /\ D = 1..n
  BY LenProperties DEF IsList, Hops
<1>3. base \in V
  OBVIOUS
<1>4. ASSUME NEW i \in D, NEW acc \in V PROVE Applied(acc, an[i]) \in V
  <2> DEFINE x == an[i][1]
             d == an[i][1] - an[i][2]
             r == ApplySubMove(acc.board, x, d)
  <2>1. x \in Int /\ d \in Int /\ acc.board \in Boards
    BY DEF Hops
  <2> HIDE DEF x, d
  <2>2. r.rc \in Int /\ r.board \in Boards
    BY <2>1, HopStaysBoard
  <2>3. r = [rc |-> r.rc, board |-> r.board]
    <3>1. \A y, z : [rc |-> y, board |-> z] = [rc |-> [rc |-> y, board |-> z].rc,
                                               board |-> [rc |-> y, board |-> z].board]
      OBVIOUS
    <3> QED BY <3>1, Zenon DEF ApplySubMove
  <2> HIDE DEF r
  <2>4. r \in V
    BY <2>2, <2>3
  <2>5. Applied(acc, an[i]) = IF acc.rc # 0 THEN acc ELSE r
    BY DEF Applied, r, x, d
  <2> HIDE DEF V
  <2> QED BY <2>4, <2>5
<1> HIDE DEF V, base
<1>5. step \in [D -> [V -> V]]
  BY <1>4
<1>6. \A i \in D, acc \in V : step[i][acc] = Applied(acc, an[i])
  OBVIOUS
<1> HIDE DEF step
<1>7. \A T \in SUBSET D : T # {} => Max(T) \in D /\ T \ {Max(T)} \in SUBSET D
  BY <1>2, MaxIn
<1> HIDE DEF n, D
<1>8. P(c)
  <2>1. PICK f : FoldsIn(f, D, V, base, step)
    BY <1>2, <1>3, <1>5, FoldComputes
  <2>2. ASSUME NEW T \in SUBSET D
        PROVE  f[T] = IF T = {} THEN base ELSE Applied(f[T \ {Max(T)}], an[Max(T)])
    BY <1>6, <1>7, <2>1 DEF FoldsIn
  <2>3. P(f)
    BY <1>2, <2>1, <2>2 DEF FoldsIn
  <2> HIDE DEF P
  <2> QED BY <2>3
<1> HIDE DEF c
<1>9. Folds(c, D, V, base, step)
  BY <1>2, <1>6, <1>7, <1>8 DEF Folds
<1> HIDE DEF P
<1>10. PICK f : GoesOn(f, n, D, V, base, step, c[D])
  BY <1>2, <1>3, <1>5, <1>9, FoldBySteps
<1>11. \A i \in D : f[i] = Applied(f[i - 1], an[i])
  BY <1>2, <1>6, <1>10 DEF GoesOn
<1>12. f[n] = ApplyMove(b, an) /\ f[0] = [rc |-> 0, board |-> b]
  BY <1>1, <1>2, <1>10 DEF GoesOn, base
<1>13. \A i \in 0..n : f[i].board \in Boards
  BY <1>10 DEF GoesOn, V
<1> QED BY <1>2, <1>11, <1>12, <1>13 DEF n, AppliedBy

\* A chequer leaves the board by whatever takes it there.
LEMMA OffIsOff ==
  ASSUME NEW b, NEW i, NEW d, CanPlay(b, i, d), b \in Boards, NEW e, e \in Int, i - d < 0, i - e < 0
  PROVE  ApplySubMove(b, i, e) = ApplySubMove(b, i, d)
<1>1. i \in Nat /\ d \in Int /\ i \in Slots /\ NPoints \in Nat
  BY BoardAssumption DEF CanPlay, Slots, Dice
<1>2. b[1][i] >= 1
  BY <1>1 DEF CanPlay, Boards
<1>3. i - d < i /\ i - e < i
  BY <1>1
<1> DEFINE gone == [rc |-> 0, board |-> [b EXCEPT ![1][i] = @ - 1]]
<1>4. ASSUME NEW x, i - x < 0, i - x < i PROVE ApplySubMove(b, i, x) = gone
  BY <1>1, <1>2, <1>4, Zenon DEF ApplySubMove
<1> HIDE DEF gone
<1> QED BY <1>3, <1>4

\* A result has these two fields.
LEMMA ResultIs ==
  ASSUME NEW b, NEW i, NEW d
  PROVE  LET r == ApplySubMove(b, i, d) IN r = [rc |-> r.rc, board |-> r.board]
<1>1. \A y, z : [rc |-> y, board |-> z] = [rc |-> [rc |-> y, board |-> z].rc,
                                           board |-> [rc |-> y, board |-> z].board]
  OBVIOUS
<1> QED BY <1>1, Zenon DEF ApplySubMove

\* The hop with which a play goes on, as it is listed, does what it did in the search.
LEMMA HopReplays ==
  ASSUME NEW b, Apart(b), NEW i, NEW d, CanPlay(b, i, d), NEW hop, hop[1] = i,
         hop[2] = IF i - d > -1 THEN i - d ELSE -1
  PROVE  Applied([rc |-> 0, board |-> b], hop) = [rc |-> 0, board |-> Played(b, i, d)]
<1>1. i \in Nat /\ d \in Int /\ b \in Boards /\ NPoints \in Nat
  BY BoardAssumption DEF CanPlay, Slots, Dice, Apart
<1> DEFINE e == hop[1] - hop[2]
<1>2. ApplySubMove(b, i, e) = ApplySubMove(b, i, d)
  <2>1. CASE i - d > -1
    <3>1. e = d
      BY <1>1, <2>1
    <3> QED BY <3>1
  <2>2. CASE ~(i - d > -1)
    <3>1. i - d < 0 /\ e = i + 1 /\ e \in Int /\ i - e < 0
      BY <1>1, <2>2
    <3> HIDE DEF e
    <3> QED BY <1>1, <3>1, OffIsOff
  <2> QED BY <2>1, <2>2
<1>3. ApplySubMove(b, i, d).rc = 0
  BY HopIs
<1>4. ApplySubMove(b, i, d) = [rc |-> 0, board |-> Played(b, i, d)]
  BY <1>3, ResultIs DEF Played
<1>5. Applied([rc |-> 0, board |-> b], hop) = ApplySubMove(b, i, e)
  BY DEF Applied
<1> QED BY <1>2, <1>4, <1>5

\* Applied hop by hop, as it is listed, a play leads to its board.
Replayed(f, b, an) ==
    /\ f[0] = [rc |-> 0, board |-> b]
    /\ \A i \in 1..Len(an) : f[i] = Applied(f[i - 1], Clamped(an)[i])

Replays(p, k, b) ==
    /\ Hops(p.an) /\ Len(p.an) = k
    /\ \A f : Replayed(f, b, p.an) => f[k] = [rc |-> 0, board |-> p.board]

\* One hop more.
LEMMA KidReplays ==
  ASSUME NEW b, NEW r, IsRoll(r), NEW k \in Nat, NEW p, Under(p, k, r), Replays(p, k, b),
         NEW q, NEW i, IsKid(q, p, k, r, i), NextBy(p, k, r, i), k < Len(r)
  PROVE  Replays(q, k + 1, b)
<1> DEFINE d == r[k + 1]
           hop == <<i, i - d>>
<1>1. d \in Dice /\ d \in Int /\ i \in Int /\ RuleAllows(p.board, i, d) /\ Apart(p.board)
  BY NextPlace, BoardAssumption DEF NextBy, Under, Legal, Dice, Slots
<1>2. CanPlay(p.board, i, d)
  BY <1>1, RuleCanPlay DEF NextBy
<1>3. q.board = Played(p.board, i, d) /\ q.an = Append(p.an, hop)
  BY DEF IsKid
<1>4. /\ IsList(q.an) /\ DOMAIN p.an = 1..k /\ DOMAIN q.an = 1..(k + 1)
      /\ \A j \in 1..k : q.an[j] = p.an[j]
      /\ q.an[k + 1] = hop
  BY <1>3, AppendToList DEF Replays, Hops
<1>5. Len(q.an) = k + 1
  BY DEF IsKid, Under
<1>6. hop[1] = i /\ hop[2] = i - d /\ hop[1] \in Int /\ hop[2] \in Int
  BY <1>1
<1> HIDE DEF d, hop
<1>7. Hops(q.an)
  <2> SUFFICES ASSUME NEW j \in 1..(k + 1) PROVE q.an[j][1] \in Int /\ q.an[j][2] \in Int
    BY <1>4 DEF Hops
  <2>1. CASE j = k + 1
    BY <1>4, <1>6, <2>1
  <2>2. CASE j # k + 1
    <3>1. j \in 1..k
      BY <2>2
    <3> QED BY <1>4, <3>1 DEF Replays, Hops
  <2> QED BY <2>1, <2>2
<1>8. ASSUME NEW f, Replayed(f, b, q.an) PROVE f[k + 1] = [rc |-> 0, board |-> q.board]
  <2>1. ASSUME NEW j \in 1..k PROVE Clamped(q.an)[j] = Clamped(p.an)[j]
    BY <1>4 DEF Clamped
  <2>2. Replayed(f, b, p.an)
    <3>1. \A j \in 1..k : j \in 1..(k + 1)
      OBVIOUS
    <3>2. Len(p.an) = k
      BY DEF Replays
    <3> QED BY <1>5, <1>8, <2>1, <3>1, <3>2 DEF Replayed
  <2>3. f[k] = [rc |-> 0, board |-> p.board]
    BY <2>2 DEF Replays
  <2>4. k + 1 \in 1..(k + 1) /\ (k + 1) - 1 = k
    OBVIOUS
  <2> DEFINE last == Clamped(q.an)[k + 1]
  <2>5. f[k + 1] = Applied(f[k], last)
    BY <1>5, <1>8, <2>4 DEF Replayed
  <2>6. last[1] = i /\ last[2] = IF i - d > -1 THEN i - d ELSE -1
    <3>1. k + 1 \in DOMAIN q.an
      BY <1>4, <2>4
    <3>2. last = <<q.an[k + 1][1], IF q.an[k + 1][2] > -1 THEN q.an[k + 1][2] ELSE -1>>
      BY <3>1 DEF Clamped
    <3> QED BY <1>4, <1>6, <3>2
  <2> HIDE DEF last
  <2> QED BY <1>1, <1>2, <1>3, <2>3, <2>5, <2>6, HopReplays
<1> QED BY <1>5, <1>7, <1>8 DEF Replays

\* Every play of a tree.
LEMMA TreeReplays ==
  ASSUME NEW b, Legal(b), NEW r, IsRoll(r), NEW t, Grows(t, b, r)
  PROVE  \A k \in 0..4 : \A p \in t[k] : Replays(p, k, b)
<1> DEFINE A == {m \in Nat : m <= 4 => \A p \in t[m] : Replays(p, m, b)}
<1>0. PICK w : Reach(w, b, r)
  BY WaysReach
<1>1. 0 \in A
  <2> SUFFICES ASSUME NEW p \in t[0] PROVE Replays(p, 0, b)
    OBVIOUS
  <2>1. p.an = <<>> /\ p.board = b
    BY DEF Grows, None
  <2>2. Hops(p.an) /\ Len(p.an) = 0
    BY <2>1, EmptyList, Zenon DEF Hops
  <2> QED BY <2>1, <2>2 DEF Replays, Replayed
<1>2. ASSUME NEW m \in Nat, m \in A PROVE m + 1 \in A
  <2> SUFFICES ASSUME m + 1 <= 4, NEW q \in t[m + 1] PROVE Replays(q, m + 1, b)
    OBVIOUS
  <2>1. m + 1 \in 1..4 /\ (m + 1) - 1 = m /\ m \in 0..4
    OBVIOUS
  <2>2. PICK p \in t[m] : q \in Kids(p, r)
    BY <2>1 DEF Grows
  <2>3. Under(p, m, r) /\ Replays(p, m, b)
    BY <1>0, <1>2, <2>1, TreeIsSound
  <2>4. m # Len(r)
    BY <2>2, <2>3, KidsAre
  <2>5. PICK i \in Slots : NextBy(p, m, r, i) /\ q = Moved(p, i, r)
    BY <2>2, <2>3, <2>4, KidsAre
  <2>6. m < Len(r)
    <3> DEFINE n == Len(r)
    <3>1. m <= n /\ m # n
      BY <2>3, <2>4 DEF Under
    <3>2. n = 2 \/ n = 4
      BY DEF IsRoll
    <3> HIDE DEF n
    <3>3. m < n
      BY <3>1, <3>2
    <3> QED BY <3>3 DEF n
  <2>7. IsKid(q, p, m, r, i)
    BY <2>3, <2>5, <2>6, KidUnder
  <2> QED BY <2>3, <2>5, <2>6, <2>7, KidReplays
<1>3. Nat \subseteq A
  <2> HIDE DEF A
  <2> QED BY <1>1, <1>2, SetInduction
<1> QED BY <1>3

\* An entry of the list is of a play that leads, hop by hop, to a board the rules allow.
PlayedOut(e, b, R) ==
    /\ e.an # <<>>
    /\ \E c \in R : Legal(c) /\ e.key = PositionKey(c) /\ ApplyMove(b, e.an) = [rc |-> 0, board |-> c]

LEMMA EntryReplays ==
  ASSUME NEW b, Legal(b), NEW x \in Dice, NEW y \in Dice,
         NEW e \in Range(GenerateMoves(b, x, y).amMoves)
  PROVE  PlayedOut(e, b, RulePlays(b, x, y))
<1> DEFINE r == RollOf(x, y)
           s == RollOf(y, x)
           P == Range(Stream(b, x, y))
           R == RulePlays(b, x, y)
           ml == GenerateMoves(b, x, y)
<1>1. IsRoll(r) /\ IsRoll(s)
  BY RollsAre DEF IsDouble, IsPair
<1>2. GeneratedIs(ml, P, R)
  BY GeneratedListsRules
<1>3. \A p \in P : \E k : InTree(p, k, b, r) \/ InTree(p, k, b, s)
  BY SearchIsInTree
<1> HIDE DEF r, s, P, R, ml
<1>4. PICK p \in P : e = Entry(p) /\ p.an # <<>> /\ p.board \in R /\ Legal(p.board)
  BY <1>2 DEF GeneratedIs, ml
<1>5. PICK k : InTree(p, k, b, r) \/ InTree(p, k, b, s)
  BY <1>3
<1>6. Replays(p, k, b)
  <2>1. CASE InTree(p, k, b, r)
    BY <1>1, <2>1, TreeReplays DEF InTree
  <2>2. CASE InTree(p, k, b, s)
    BY <1>1, <2>2, TreeReplays DEF InTree
  <2> QED BY <1>5, <2>1, <2>2
<1> DEFINE an == Clamped(p.an)
<1>7. Hops(an) /\ Len(an) = k
  <2>1. /\ DOMAIN p.an = 1..Len(p.an) /\ Len(p.an) \in Nat /\ Len(p.an) = k
        /\ \A j \in DOMAIN p.an : p.an[j][1] \in Int /\ p.an[j][2] \in Int
    BY <1>6, LenProperties DEF Replays, Hops, IsList
  <2>2. an = [j \in 1..k |-> <<p.an[j][1], IF p.an[j][2] > -1 THEN p.an[j][2] ELSE -1>>]
    BY <2>1 DEF Clamped
  <2>3. DOMAIN an = 1..k /\ k \in Nat
    BY <2>1, <2>2
  <2>4. \A j \in 1..k : an[j][1] \in Int /\ an[j][2] \in Int
    BY <2>1, <2>2
  <2>5. IsList(an) /\ Len(an) = k
    <3>1. an = [j \in 1..k |-> an[j]]
      BY <2>2
    <3> HIDE DEF an
    <3>2. \A j \in 1..k : an[j] \in Range(an)
      BY <2>3 DEF Range
    <3>3. an \in Seq(Range(an)) /\ Len(an) = k
      BY <2>3, <3>1, <3>2, IsASeq, LenProperties
    <3> QED BY <3>3 DEF IsList
  <2> HIDE DEF an
  <2> QED BY <2>3, <2>4, <2>5 DEF Hops
<1>8. b \in Boards
  BY DEF Legal, Apart
<1> HIDE DEF an
<1>9. PICK f : AppliedBy(f, b, an)
  BY <1>7, <1>8, ApplyFold
<1>10. Replayed(f, b, p.an)
  BY <1>6, <1>7, <1>9 DEF AppliedBy, Replayed, an, Replays
<1>11. f[k] = [rc |-> 0, board |-> p.board]
  BY <1>6, <1>10 DEF Replays
<1>12. ApplyMove(b, an) = [rc |-> 0, board |-> p.board]
  BY <1>7, <1>9, <1>11 DEF AppliedBy
<1>13. e.an = an /\ e.key = PositionKey(p.board)
  BY <1>4 DEF Entry, an
<1>14. an # <<>>
  <2>1. p.an \in Seq(Range(p.an)) /\ p.an # <<>>
    BY <1>4, <1>6 DEF Replays, Hops, IsList
  <2>2. Len(p.an) # 0 /\ Len(p.an) = k
    BY <1>6, <2>1, EmptySeq DEF Replays
  <2>3. Len(<<>>) = 0
    BY EmptySeq
  <2> QED BY <1>7, <2>2, <2>3
<1> QED BY <1>4, <1>12, <1>13, <1>14 DEF PlayedOut, R

LEMMA ListedReplays ==
  ASSUME NEW b, Legal(b), NEW x \in Dice, NEW y \in Dice,
         NEW e \in Range(GenerateMoves(b, x, y).amMoves)
  PROVE  ApplyMove(b, e.an).board \in RulePlays(b, x, y)
<1> DEFINE R == RulePlays(b, x, y)
<1>1. PlayedOut(e, b, R)
  BY EntryReplays
<1> HIDE DEF R
<1> QED BY <1>1 DEF PlayedOut, R

\* The boards a turn may end with: those of the plays, or the one it began with if there are none.
EndsOf(b, plays) == IF plays = {} THEN {b} ELSE plays

\* CommandMove makes of a text the board of a listed play, of none the only board there is,
\* or refuses it.
LEMMA CommandMoveAnswers ==
  ASSUME NEW b, NEW x \in Dice, NEW y \in Dice, NEW text, NEW S,
         IsList(GenerateMoves(b, x, y).amMoves),
         \A e \in Range(GenerateMoves(b, x, y).amMoves) : ApplyMove(b, e.an).board \in S,
         Range(GenerateMoves(b, x, y).amMoves) = {} => b \in S
  PROVE  CommandMove(text, b, x, y) \in S \cup {NoBoard}
<1> DEFINE l == GenerateMoves(b, x, y).amMoves
           c == CommandMove(text, b, x, y)
<1>1. Len(l) \in Nat /\ DOMAIN l = 1..Len(l)
  BY LenProperties DEF IsList
<1>2. \A k \in DOMAIN l : ApplyMove(b, l[k].an).board \in S
  BY DEF Range
<1>3. CASE text # <<>>
  <2> DEFINE new == parse_move_is_legal(text, b, x, y)
  <2>1. c = new
    BY <1>3 DEF CommandMove
  <2>2. new = NoBoard \/ \E k \in DOMAIN l : ApplyMove(b, l[k].an).board = new
    BY Zenon DEF parse_move_is_legal, board_in_list
  <2> HIDE DEF new
  <2> QED BY <1>2, <2>1, <2>2
<1>4. CASE text = <<>>
  <2>1. c = CASE Len(l) = 0 -> b
              [] Len(l) = 1 -> ApplyMove(b, l[1].an).board
              [] OTHER      -> NoBoard
    BY <1>4, Zenon DEF CommandMove
  <2>2. Len(l) = 0 => b \in S
    BY <1>1 DEF Range
  <2>3. Len(l) = 1 => 1 \in DOMAIN l
    BY <1>1
  <2> HIDE DEF c, l
  <2>4. c \in S \cup {NoBoard}
    BY <1>2, <2>1, <2>2, <2>3
  <2> QED BY <2>4 DEF c
<1> QED BY <1>3, <1>4

\* What CommandMove makes of any text, if it does not refuse it.
LEMMA CommandMoveGivesPlays ==
  ASSUME NEW b, Legal(b), NEW x \in Dice, NEW y \in Dice, NEW text,
         CommandMove(text, b, x, y) # NoBoard
  PROVE  CommandMove(text, b, x, y) \in EndsOf(b, RulePlays(b, x, y))
<1> DEFINE R == RulePlays(b, x, y)
           l == GenerateMoves(b, x, y).amMoves
           c == CommandMove(text, b, x, y)
<1>1. IsList(l) /\ (Range(l) = {} => R = {})
  BY GeneratedListsRules DEF GeneratedIs
<1>2. \A e \in Range(l) : ApplyMove(b, e.an).board \in R
  BY ListedReplays
<1> HIDE DEF R
<1>3. c \in EndsOf(b, R) \cup {NoBoard}
  <2>1. \A e \in Range(l) : ApplyMove(b, e.an).board \in EndsOf(b, R)
    BY <1>2 DEF EndsOf
  <2>2. Range(l) = {} => b \in EndsOf(b, R)
    BY <1>1 DEF EndsOf
  <2> QED BY <1>1, <2>1, <2>2, CommandMoveAnswers
<1> QED BY <1>3 DEF R

---------------------------------------------------------------------------

\* gnubg makes of a text what CommandMove makes of it.
GivenToCommandMove ==
    \A text : \A b \in Boards, d0, d1 \in Dice :
        GiveMove(text, b, d0, d1) = CommandMove(text, b, d0, d1)

TurnInv == Waits /\ GnubgTakesPlays

\* At first,
LEMMA InitTurnInv == Init => TurnInv
<1> SUFFICES ASSUME Init PROVE TurnInv
  OBVIOUS
<1>1. PICK p \in Positions : gnubg = Rolled(p, 1)
  BY DEF Init
<1>2. gnubg.waiting
  BY <1>1 DEF Rolled
<1> QED BY <1>2, InitWaits DEF TurnInv, GnubgTakesPlays

\* and after every step.
LEMMA StepKeepsTurnInv == ASSUME GivenToCommandMove, TurnInv, [Next]_vars PROVE TurnInv'
<1>1. Waits /\ Waits'
  BY StepKeepsWaits DEF TurnInv
<1>2. CASE gnubg' = gnubg
  BY <1>1, <1>2 DEF TurnInv, GnubgTakesPlays, Die
<1>3. ASSUME gnubg'.waiting PROVE TurnInv'
  BY <1>1, <1>3 DEF TurnInv, GnubgTakesPlays
<1>4. CASE GnubgAnswers
  <2> DEFINE b == gnubg.start.board
             new == GiveMove(engine[1], gnubg.board, gnubg.start.dice[1], gnubg.start.dice[2])
  <2>1. Answered(new)
    BY <1>4, AnswerIs
  <2>2. ASSUME gnubg.waiting, new # NoBoard PROVE TurnInv'
    <3>1. gnubg.board = b /\ Legal(b) /\ Die(1) \in Dice /\ Die(2) \in Dice
      BY <1>1, <2>2, StartIs DEF Waits
    <3>2. new = CommandMove(engine[1], b, Die(1), Die(2))
      BY <3>1 DEF GivenToCommandMove, Legal, Apart, Die
    <3> HIDE DEF new
    <3>3. new \in EndsOf(b, RulePlays(b, Die(1), Die(2)))
      BY <2>2, <3>1, <3>2, CommandMoveGivesPlays
    <3>4. gnubg'.board = new /\ gnubg'.start = gnubg.start
      BY <1>1, <2>1, <2>2 DEF Answered, Waits
    <3>5. GnubgTakesPlays'
      BY <3>3, <3>4 DEF GnubgTakesPlays, EndsOf, Die
    <3> QED BY <1>1, <3>5 DEF TurnInv
  <2>3. ~(gnubg.waiting /\ new # NoBoard) => gnubg' = gnubg
    <3> HIDE DEF new
    <3> QED BY <2>1 DEF Answered
  <2> QED BY <1>2, <2>2, <2>3
<1>5. CASE RollBody
  <2>1. ASSUME NEW p \in Positions, NEW n, gnubg' = Rolled(p, n) PROVE TurnInv'
    BY <1>3, <2>1 DEF Rolled
  <2> QED BY <1>2, <1>5, <2>1, RollIs
<1> QED BY <1>2, <1>4, <1>5, OnlyTwoTouch

\* Whatever taps, drags, undos, confirms and passes overtake each other, and whatever text they
\* make, the board gnubg takes for the human's move is that of a play the rules allow of the
\* position and the roll it waited with, or the same board where there is none.
THEOREM TakenCorrect ==
  ASSUME GivenToCommandMove PROVE Spec => []GnubgTakesPlays
<1>1. Init => TurnInv
  BY InitTurnInv
<1>2. TurnInv /\ [Next]_vars => TurnInv'
  BY StepKeepsTurnInv
<1>3. TurnInv => GnubgTakesPlays
  BY DEF TurnInv
<1> QED BY <1>1, <1>2, <1>3, PTL DEF Spec

---------------------------------------------------------------------------
(* What is listed for any board, also one no game leads to.                *)

\* A chequer is moved to a point that is open.
LEMMA MayMoveOpens ==
  ASSUME NEW p, NEW i \in Slots, NEW d \in Dice, MayMove(p, i, d), i - d >= 0
  PROVE  p.board[0][Mirror(i - d)] < 2
<1>1. CASE p.board[1][Bar] > 0
  <2>1. i = Bar /\ p.board[0][d - 1] < 2
    BY <1>1 DEF MayMove
  <2>2. Mirror(i - d) = d - 1
    BY <2>1, BoardAssumption DEF Mirror, Bar, Dice
  <2> QED BY <2>1, <2>2
<1>2. CASE ~(p.board[1][Bar] > 0)
  BY <1>2 DEF LegalMove, MayMove
<1> QED BY <1>1, <1>2

\* No hop closes a point that was made.
LEMMA OpenWasOpen ==
  ASSUME NEW b, b \in Boards, NEW i \in Int, NEW d \in Int, NEW x \in 0 .. NPoints - 1,
         Played(b, i, d)[0][x] < 2
  PROVE  b[0][x] < 2
<1> DEFINE dest == i - d
           m == Mirror(dest)
           lifted == [b EXCEPT ![1][i] = @ - 1]
           hit == [lifted EXCEPT ![1][dest] = 1, ![0][m] = 0, ![0][Bar] = @ + 1]
           put == [lifted EXCEPT ![1][dest] = @ + 1]
           n == Played(b, i, d)
           there == i \in Slots /\ dest < i /\ b[1][i] >= 1
<1>1. x # Bar /\ x \in Slots /\ NPoints \in Nat
  BY BoardAssumption DEF Bar, Slots
<1>2. b \in [0..1 -> [Slots -> Nat]] /\ b[0] \in [Slots -> Nat]
  BY DEF Boards
<1>3. lifted[0] = b[0] /\ DOMAIN lifted = 0..1
  BY <1>2
<1> HIDE DEF lifted, dest, m
<1>4. put[0] = b[0]
  BY <1>3
<1>5. x # m => hit[0][x] = b[0][x]
  <2> DEFINE one == [lifted EXCEPT ![1][dest] = 1]
             two == [one EXCEPT ![0][m] = 0]
             v == lifted[0][Bar] + 1
  <2>1. one[0] = b[0] /\ DOMAIN one = 0..1
    BY <1>3
  <2> HIDE DEF one
  <2>2. two[0] = [b[0] EXCEPT ![m] = 0] /\ DOMAIN two = 0..1
    BY <2>1
  <2> HIDE DEF two, v
  <2>3. [two EXCEPT ![0][Bar] = v][0] = [two[0] EXCEPT ![Bar] = v]
    BY <2>2
  <2>4. x # m => [two EXCEPT ![0][Bar] = v][0][x] = b[0][x]
    BY <1>1, <1>2, <2>2, <2>3
  <2> QED BY <2>4 DEF one, two, v
<1> HIDE DEF hit, put
<1>6. ~there => n = b
  BY DEF Played, ApplySubMove, dest
<1>7. there /\ dest < 0 => n = lifted
  BY Zenon DEF Played, ApplySubMove, lifted, dest
<1> DEFINE rest == CASE b[0][m] > 1 -> [rc |-> -1, board |-> lifted]
                     [] b[0][m] = 1 -> [rc |-> 0, board |-> hit]
                     [] OTHER       -> [rc |-> 0, board |-> put]
<1>8. there /\ ~(dest < 0) => n = rest.board
  BY Zenon DEF Played, ApplySubMove, lifted, hit, put, dest, m
<1> HIDE DEF n, there
<1>9. \/ rest.board = lifted \/ (rest.board = hit /\ b[0][m] = 1) \/ rest.board = put
  OBVIOUS
<1> HIDE DEF rest
<1>10. \/ n[0] = b[0] \/ (n = hit /\ b[0][m] = 1)
  BY <1>3, <1>4, <1>6, <1>7, <1>8, <1>9
<1>11. n[0][x] < 2
  BY DEF n
<1>12. CASE n = hit /\ b[0][m] = 1
  <2>1. CASE x = m
    BY <1>12, <2>1
  <2>2. CASE x # m
    BY <1>5, <1>11, <1>12, <2>2
  <2> QED BY <2>1, <2>2
<1> QED BY <1>10, <1>11, <1>12

\* A play of a tree that grows from any board.
Loose(p, k, r, b) ==
    /\ IsList(p.an) /\ Len(p.an) = k /\ k <= Len(r) /\ p.cPip \in Nat /\ p.board \in Boards
    /\ \A j \in 1..k : /\ p.an[j][1] \in Slots /\ p.an[j][2] = p.an[j][1] - r[j]
                       /\ p.an[j][2] >= 0 => b[0][Mirror(p.an[j][2])] < 2
    /\ \A x \in 0 .. NPoints - 1 : p.board[0][x] < 2 => b[0][x] < 2

\* One hop more.
LEMMA LooseKid ==
  ASSUME NEW b, NEW r, IsRoll(r), NEW k \in Nat, NEW p, Loose(p, k, r, b), k < Len(r),
         NEW i, i \in Slots, MayMove(p, i, r[k + 1])
  PROVE  Loose(Moved(p, i, r), k + 1, r, b)
<1> DEFINE d == r[k + 1]
           q == Moved(p, i, r)
           hop == <<i, i - d>>
<1>1. d \in Dice /\ d \in Nat /\ i \in Int /\ NPoints \in Nat
  BY NextPlace, BoardAssumption DEF Dice, Slots
<1>2. q.an = Append(p.an, hop) /\ q.cPip = p.cPip + d /\ q.board = Played(p.board, i, d)
  BY DEF Moved, Played, Loose
<1>3. hop[1] = i /\ hop[2] = i - d
  OBVIOUS
<1>4. /\ IsList(q.an) /\ DOMAIN q.an = 1..(k + 1)
      /\ \A j \in 1..k : q.an[j] = p.an[j]
      /\ q.an[k + 1] = hop
  BY <1>2, AppendToList DEF Loose
<1>5. Len(q.an) = k + 1
  BY <1>2, AppendedRange DEF Loose
<1>6. k + 1 <= Len(r)
  BY DEF IsRoll
<1>7. q.cPip \in Nat
  BY <1>1, <1>2 DEF Loose
<1>8. q.board \in Boards
  BY <1>1, <1>2, HopStaysBoard DEF Loose, Played
<1>9. \A x \in 0 .. NPoints - 1 : q.board[0][x] < 2 => b[0][x] < 2
  <2> SUFFICES ASSUME NEW x \in 0 .. NPoints - 1, q.board[0][x] < 2 PROVE b[0][x] < 2
    OBVIOUS
  <2>1. p.board[0][x] < 2
    BY <1>1, <1>2, OpenWasOpen DEF Loose
  <2> QED BY <2>1 DEF Loose
<1>10. i - d >= 0 => b[0][Mirror(i - d)] < 2
  <2> SUFFICES ASSUME i - d >= 0 PROVE b[0][Mirror(i - d)] < 2
    OBVIOUS
  <2>1. p.board[0][Mirror(i - d)] < 2
    BY <1>1, MayMoveOpens
  <2>2. Mirror(i - d) \in 0 .. NPoints - 1
    BY <1>1 DEF Mirror, Slots, Dice
  <2> QED BY <2>1, <2>2 DEF Loose
<1>11. ASSUME NEW j \in 1..(k + 1)
       PROVE  /\ q.an[j][1] \in Slots /\ q.an[j][2] = q.an[j][1] - r[j]
              /\ q.an[j][2] >= 0 => b[0][Mirror(q.an[j][2])] < 2
  <2>1. CASE j = k + 1
    <3> HIDE DEF q, hop
    <3>1. q.an[j][1] = i /\ q.an[j][2] = i - d /\ r[j] = d
      BY <1>3, <1>4, <2>1 DEF d
    <3> QED BY <1>10, <3>1
  <2>2. CASE j # k + 1
    <3>1. j \in 1..k
      BY <2>2
    <3> HIDE DEF q
    <3>2. q.an[j] = p.an[j]
      BY <1>4, <3>1
    <3> QED BY <3>1, <3>2 DEF Loose
  <2> QED BY <2>1, <2>2
<1> HIDE DEF q
<1> QED BY <1>4, <1>5, <1>6, <1>7, <1>8, <1>9, <1>11 DEF Loose, q

\* Every play of the tree.
LEMMA LooseTree ==
  ASSUME NEW b, b \in Boards, NEW r, IsRoll(r), NEW t, Grows(t, b, r)
  PROVE  \A k \in 0..4 : \A p \in t[k] : Loose(p, k, r, b)
<1> DEFINE A == {m \in Nat : m <= 4 => \A p \in t[m] : Loose(p, m, r, b)}
<1>1. 0 \in A
  <2> SUFFICES ASSUME NEW p \in t[0] PROVE Loose(p, 0, r, b)
    OBVIOUS
  <2>1. p.an = <<>> /\ p.board = b /\ p.cPip = 0
    BY DEF Grows, None
  <2>2. IsList(p.an) /\ Len(p.an) = 0
    BY <2>1, EmptyList
  <2>3. 0 <= Len(r)
    BY DEF IsRoll
  <2> QED BY <2>1, <2>2, <2>3 DEF Loose
<1>2. ASSUME NEW m \in Nat, m \in A PROVE m + 1 \in A
  <2> SUFFICES ASSUME m + 1 <= 4, NEW q \in t[m + 1] PROVE Loose(q, m + 1, r, b)
    OBVIOUS
  <2>1. m + 1 \in 1..4 /\ (m + 1) - 1 = m /\ m \in 0..4
    OBVIOUS
  <2>2. PICK p \in t[m] : q \in Kids(p, r)
    BY <2>1 DEF Grows
  <2>3. Loose(p, m, r, b)
    BY <1>2, <2>1
  <2>4. Len(p.an) = m /\ m <= Len(r)
    BY <2>3 DEF Loose
  <2>5. m # Len(r) /\ q \in Nexts(p, r)
    BY <2>2, <2>4 DEF Kids
  <2>6. PICK i \in Slots : MayMove(p, i, r[m + 1]) /\ q = Moved(p, i, r)
    BY <2>4, <2>5 DEF Nexts
  <2>7. m < Len(r)
    <3> DEFINE n == Len(r)
    <3>1. m <= n /\ m # n
      BY <2>4, <2>5
    <3>2. n = 2 \/ n = 4
      BY DEF IsRoll
    <3> HIDE DEF n
    <3>3. m < n
      BY <3>1, <3>2
    <3> QED BY <3>3 DEF n
  <2> QED BY <2>3, <2>6, <2>7, LooseKid
<1>3. Nat \subseteq A
  <2> HIDE DEF A
  <2> QED BY <1>1, <1>2, SetInduction
<1> QED BY <1>3

\* The plays met in one order of the dice.
LEMMA LooseLeaves ==
  ASSUME NEW b, b \in Boards, NEW r, IsRoll(r)
  PROVE  /\ IsList(GenerateMovesSub(r, b))
         /\ \A p \in Range(GenerateMovesSub(r, b)) : \E k \in Nat : Loose(p, k, r, b)
<1>1. PICK t : Grows(t, b, r)
  BY TreeGrows
<1>2. \A k \in 0..4 : \A p \in t[k] : Loose(p, k, r, b)
  BY <1>1, LooseTree
<1>3. ASSUME NEW p \in t[4] PROVE Kids(p, r) = {}
  <2>1. Len(p.an) = 4 /\ 4 <= Len(r)
    BY <1>2 DEF Loose
  <2>2. Len(r) = 4
    <3> DEFINE n == Len(r)
    <3>1. n = 2 \/ n = 4
      BY DEF IsRoll
    <3>2. 4 <= n
      BY <2>1
    <3> HIDE DEF n
    <3>3. n = 4
      BY <3>1, <3>2
    <3> QED BY <3>3 DEF n
  <2> QED BY <2>1, <2>2 DEF Kids
<1>4. IsList(GenerateMovesSub(r, b)) /\ Range(GenerateMovesSub(r, b)) = Leaves(t, r)
  BY <1>1, <1>3, StreamIs
<1>5. \A k \in 0..4 : k \in Nat
  OBVIOUS
<1> QED BY <1>2, <1>4, <1>5 DEF Leaves

\* A play met in one of the orders.
Found(p, b, x, y) == \E k \in Nat : Loose(p, k, RollOf(x, y), b) \/ Loose(p, k, RollOf(y, x), b)

\* What is listed has been met, for any board.
LEMMA ListedIsFound ==
  ASSUME NEW b, b \in Boards, NEW x \in Dice, NEW y \in Dice
  PROVE  LET l == GenerateMoves(b, x, y).amMoves IN
         IsList(l) /\ \A k \in DOMAIN l : \E p : Found(p, b, x, y) /\ l[k] = Entry(p)
<1> DEFINE r == RollOf(x, y)
           s == RollOf(y, x)
           st == Stream(b, x, y)
           P == Range(st)
           ml == GenerateMoves(b, x, y)
           l == ml.amMoves
<1>1. IsRoll(r) /\ IsRoll(s)
  BY RollsAre DEF IsDouble, IsPair
<1>2. /\ IsList(GenerateMovesSub(r, b)) /\ \A p \in Range(GenerateMovesSub(r, b)) : Found(p, b, x, y)
      /\ IsList(GenerateMovesSub(s, b)) /\ \A p \in Range(GenerateMovesSub(s, b)) : Found(p, b, x, y)
  BY <1>1, LooseLeaves DEF Found
<1>3. IsList(st) /\ \A p \in P : Found(p, b, x, y)
  BY <1>2, JoinedRange DEF Stream
<1>4. ASSUME NEW p \in P PROVE Counted(p)
  BY <1>3, LenProperties DEF IsList, Counted, Found, Loose
<1>5. st = Stream(b, x, y)
  OBVIOUS
<1> HIDE DEF r, s, st
<1>6. PICK f : SavedBySteps(f, st, ml)
  BY <1>3, <1>4, <1>5, GenerateFold
<1>7. Len(st) \in Nat /\ DOMAIN st = 1..Len(st)
  BY <1>3, LenProperties DEF IsList
<1>8. ml \in ListsOf(P)
  <2> DEFINE n == Len(st)
             V == ListsOf(P)
             A == {m \in Nat : m <= n => f[m] \in V}
  <2>1. 0 \in A
    <3>1. Nothing \in V
      BY EmptySeq DEF Nothing, ListsOf
    <3> QED BY <1>6, <3>1 DEF SavedBySteps
  <2>2. ASSUME NEW m \in Nat, m \in A PROVE m + 1 \in A
    <3> SUFFICES ASSUME m + 1 <= n PROVE f[m + 1] \in V
      OBVIOUS
    <3>1. m + 1 \in 1..n /\ (m + 1) - 1 = m /\ m <= n
      BY <1>7
    <3>2. st[m + 1] \in P
      BY <1>7, <3>1 DEF Range
    <3>3. f[m] \in V
      BY <2>2, <3>1
    <3>4. f[m + 1] = Saved(f[m], st[m + 1])
      BY <1>6, <3>1 DEF SavedBySteps
    <3> HIDE DEF P
    <3> QED BY <1>4, <3>2, <3>3, <3>4, SavedStays
  <2>3. Nat \subseteq A
    <3> HIDE DEF A
    <3> QED BY <2>1, <2>2, SetInduction
  <2>4. n \in A /\ n <= n
    <3> HIDE DEF A
    <3> QED BY <1>7, <2>3
  <2>5. f[n] \in V
    BY <2>4
  <2> QED BY <1>6, <2>5 DEF SavedBySteps
<1> HIDE DEF ml, P
<1>9. l \in Seq({Entry(p) : p \in P})
  BY <1>8 DEF ListsOf
<1> HIDE DEF l
<1>10. IsList(l)
  BY <1>9, SeqOfRange DEF IsList
<1>11. DOMAIN l = 1..Len(l)
  BY <1>9, LenProperties
<1>12. ASSUME NEW k \in DOMAIN l PROVE \E p : Found(p, b, x, y) /\ l[k] = Entry(p)
  BY <1>3, <1>9, <1>11, ElementOfSeq
<1> QED BY <1>10, <1>12 DEF l, ml

\* Clamped to the board, the hops of such a play.
ClampedIs(h, p, k) ==
    /\ IsList(h) /\ Len(h) = k /\ DOMAIN h = 1..k
    /\ \A j \in 1..k : h[j][1] = p.an[j][1] /\ h[j][2] = IF p.an[j][2] > -1 THEN p.an[j][2] ELSE -1

\* They are these.
LEMMA ClampedHops ==
  ASSUME NEW p, NEW k \in Nat, IsList(p.an), Len(p.an) = k
  PROVE  ClampedIs(Clamped(p.an), p, k)
<1> DEFINE h == Clamped(p.an)
<1>1. DOMAIN p.an = 1..k
  BY LenProperties DEF IsList
<1>2. h = [j \in 1..k |-> <<p.an[j][1], IF p.an[j][2] > -1 THEN p.an[j][2] ELSE -1>>]
  BY <1>1 DEF Clamped
<1>3. DOMAIN h = 1..k
  BY <1>2
<1>4. \A j \in 1..k : h[j][1] = p.an[j][1] /\ h[j][2] = IF p.an[j][2] > -1 THEN p.an[j][2] ELSE -1
  BY <1>2
<1>5. h = [j \in 1..k |-> h[j]]
  BY <1>2
<1> HIDE DEF h
<1>6. \A j \in 1..k : h[j] \in Range(h)
  BY <1>3 DEF Range
<1>7. h \in Seq(Range(h)) /\ Len(h) = k
  BY <1>3, <1>5, <1>6, IsASeq, LenProperties
<1> QED BY <1>3, <1>4, <1>7 DEF ClampedIs, IsList, h

\* A play listed keeps to the dice and to the points that are open.
LEMMA FoundIsPlay ==
  ASSUME NEW b, b \in Boards, NEW x \in Dice, NEW y \in Dice, NEW p, Found(p, b, x, y)
  PROVE  IsList(Clamped(p.an)) /\ Hops(Clamped(p.an)) /\ IsPlay(Clamped(p.an), b, {x, y})
<1> DEFINE h == Clamped(p.an)
<1>1. PICK k \in Nat, r \in {RollOf(x, y), RollOf(y, x)} : Loose(p, k, r, b)
  BY DEF Found
<1>2. /\ IsRoll(r) /\ \A j \in 1..Len(r) : r[j] \in {x, y}
      /\ x # y => Len(r) = 2 /\ r[1] # r[2]
  <2>1. CASE x = y
    BY <2>1, RollsAre DEF IsDouble
  <2>2. CASE x # y
    <3>1. IsPair(r, x, y) \/ IsPair(r, y, x)
      BY <2>2, RollsAre
    <3>2. \A j \in 1..2 : j = 1 \/ j = 2
      OBVIOUS
    <3> QED BY <3>1, <3>2 DEF IsPair
  <2> QED BY <2>1, <2>2
<1>3. ClampedIs(h, p, k)
  BY <1>1, ClampedHops DEF Loose
<1> HIDE DEF h
<1>4. NPoints \in Nat /\ NFaces \in Nat
  BY BoardAssumption
<1>5. Len(r) \in Nat /\ k <= Len(r)
  BY <1>1, <1>2 DEF IsRoll, Loose
<1>6. \A j \in 1..k : j \in 1..Len(r)
  <2> DEFINE n == Len(r)
  <2> HIDE DEF n
  <2>1. n \in Nat /\ k <= n
    BY <1>5 DEF n
  <2>2. \A j \in 1..k : j \in 1..n
    BY <2>1
  <2> QED BY <2>2 DEF n
\* Hop by hop.
<1>7. ASSUME NEW j \in 1..k
      PROVE  /\ h[j][1] \in Slots /\ h[j][2] \in -1 .. NPoints - 1
             /\ h[j][1] \in Int /\ h[j][2] \in Int
             /\ h[j][2] >= 0 => h[j][1] - h[j][2] = r[j] /\ b[0][Mirror(h[j][2])] < 2
  <2> DEFINE u == p.an[j][1]
             v == p.an[j][2]
             e == h[j][2]
             d == r[j]
  <2>1. h[j][1] = u /\ e = IF v > -1 THEN v ELSE -1
    BY <1>3 DEF ClampedIs
  <2>2. u \in Slots /\ v = u - d /\ (v >= 0 => b[0][Mirror(v)] < 2)
    BY <1>1 DEF Loose
  <2>3. d \in Dice
    BY <1>2, <1>6 DEF IsRoll
  <2> HIDE DEF u, v, e, d
  <2>4. u \in Int /\ d \in Int /\ d >= 1 /\ u <= NPoints /\ v \in Int
    BY <1>4, <2>2, <2>3 DEF Slots, Dice
  <2>5. v <= NPoints - 1
    BY <1>4, <2>2, <2>4
  <2>6. (v >= 0 /\ e = v) \/ (v < 0 /\ e = -1)
    BY <2>1, <2>4
  <2>7. e \in -1 .. NPoints - 1 /\ e \in Int
    BY <1>4, <2>4, <2>5, <2>6
  <2>8. e >= 0 => e = v /\ u - e = d
    BY <2>2, <2>4, <2>6
  <2>9. e >= 0 => u - e = d /\ b[0][Mirror(e)] < 2
    BY <2>2, <2>8
  <2> QED BY <2>1, <2>2, <2>4, <2>7, <2>9 DEF e, d
<1>8. IsList(h) /\ Len(h) = k /\ DOMAIN h = 1..k
  BY <1>3 DEF ClampedIs
<1>9. Hops(h)
  BY <1>7, <1>8 DEF Hops
<1>10. \A j \in DOMAIN h : h[j][2] >= 0 => h[j][1] - h[j][2] \in {x, y} /\ b[0][Mirror(h[j][2])] < 2
  BY <1>2, <1>6, <1>7, <1>8
<1>11. ASSUME x # y
       PROVE  /\ Len(h) <= 2
              /\ \A i, j \in DOMAIN h : i # j /\ h[i][2] >= 0 /\ h[j][2] >= 0 =>
                    h[i][1] - h[i][2] # h[j][1] - h[j][2]
  <2>1. Len(r) = 2 /\ r[1] # r[2] /\ k <= 2
    BY <1>2, <1>5, <1>11
  <2>2. \A i, j \in 1..k : i # j => r[i] # r[j]
    <3> SUFFICES ASSUME NEW i \in 1..k, NEW j \in 1..k, i # j PROVE r[i] # r[j]
      OBVIOUS
    <3>1. (i = 1 /\ j = 2) \/ (i = 2 /\ j = 1)
      BY <2>1
    <3> QED BY <2>1, <3>1
  <2> QED BY <1>7, <1>8, <2>1, <2>2
<1>12. \A j \in DOMAIN h : h[j][1] \in Slots /\ h[j][2] \in -1 .. NPoints - 1
  BY <1>7, <1>8
<1>13. (\E d, e \in {x, y} : d # e) => x # y
  OBVIOUS
<1>14. IsPlay(h, b, {x, y})
  BY <1>10, <1>11, <1>12, <1>13 DEF IsPlay
<1> QED BY <1>8, <1>9, <1>14 DEF h

\* A play applied to a board, as far as it goes, leaves a board.
LEMMA ApplyMoveStays ==
  ASSUME NEW b, b \in Boards, NEW an, Hops(an) PROVE ApplyMove(b, an).board \in Boards
<1>1. PICK f : AppliedBy(f, b, an)
  BY ApplyFold
<1>2. Len(an) \in 0..Len(an)
  BY LenProperties DEF Hops, IsList
<1> QED BY <1>1, <1>2 DEF AppliedBy

\* What the facade lists for any board, and what CommandMove makes of it with any text.
LEMMA FacadeLists ==
  ASSUME NEW b, b \in Boards, NEW x \in Dice, NEW y \in Dice
  PROVE  LET l == get_legal_moves(b, x, y) IN
         /\ IsList(l)
         /\ \A k \in DOMAIN l : IsList(l[k]) /\ Hops(l[k]) /\ IsPlay(l[k], b, {x, y})
<1> DEFINE m == GenerateMoves(b, x, y).amMoves
           l == get_legal_moves(b, x, y)
<1>1. IsList(m) /\ \A k \in DOMAIN m : \E p : Found(p, b, x, y) /\ m[k] = Entry(p)
  BY ListedIsFound
<1>2. l = [k \in DOMAIN m |-> m[k].an]
  BY DEF get_legal_moves
<1> HIDE DEF m, l
<1>3. ASSUME NEW k \in DOMAIN l PROVE IsList(l[k]) /\ Hops(l[k]) /\ IsPlay(l[k], b, {x, y})
  <2>1. PICK p : Found(p, b, x, y) /\ m[k] = Entry(p)
    BY <1>1, <1>2
  <2>2. l[k] = Clamped(p.an)
    BY <1>2, <2>1 DEF Entry
  <2> QED BY <2>1, <2>2, FoundIsPlay
<1>4. IsList(l)
  <2>1. Len(m) \in Nat /\ DOMAIN m = 1..Len(m)
    BY <1>1, LenProperties DEF IsList
  <2> DEFINE n == Len(m)
  <2>2. l = [k \in 1..n |-> l[k]] /\ DOMAIN l = 1..n /\ n \in Nat
    BY <1>2, <2>1
  <2> HIDE DEF n
  <2>3. \A k \in 1..n : l[k] \in Range(l)
    BY <2>2 DEF Range
  <2>4. l \in Seq(Range(l))
    BY <2>2, <2>3, IsASeq
  <2> QED BY <2>4 DEF IsList
<1> QED BY <1>3, <1>4 DEF l

\* CommandMove makes a board of any text, or refuses it.
LEMMA CommandMoveGivesBoards ==
  ASSUME NEW b, b \in Boards, NEW x \in Dice, NEW y \in Dice, NEW text
  PROVE  CommandMove(text, b, x, y) \in Boards \cup {NoBoard}
<1> DEFINE l == GenerateMoves(b, x, y).amMoves
<1>1. IsList(l) /\ \A k \in DOMAIN l : \E p : Found(p, b, x, y) /\ l[k] = Entry(p)
  BY ListedIsFound
<1>2. ASSUME NEW e \in Range(l) PROVE ApplyMove(b, e.an).board \in Boards
  <2> HIDE DEF l
  <2>1. PICK p : Found(p, b, x, y) /\ e = Entry(p)
    BY <1>1 DEF Range
  <2>2. Hops(Clamped(p.an))
    BY <2>1, FoundIsPlay
  <2>3. e.an = Clamped(p.an)
    BY <2>1 DEF Entry
  <2> QED BY <2>2, <2>3, ApplyMoveStays
<1> QED BY <1>1, <1>2, CommandMoveAnswers

---------------------------------------------------------------------------

\* The lists and the answers are those of gnubg's own functions.
BoundToMoveList ==
    /\ \A b \in Boards, d0, d1 \in Dice : LegalMoves(b, d0, d1) = get_legal_moves(b, d0, d1)
    /\ GivenToCommandMove

\* What the types and the preview take for granted of gnubg is so: for every board, also one
\* no game leads to, its generator lists plays that use the dice and land on open points only
\* (GenerateMovesSub, LegalMove), and CommandMove refuses a text or makes a board of it.
THEOREM GnubgKeepsItsWord ==
  ASSUME BoundToMoveList PROVE GnubgAssumed /\ GnubgPlays
<1>1. ASSUME NEW b \in Boards, NEW x \in Dice, NEW y \in Dice
      PROVE  /\ ListOfPlays(LegalMoves(b, x, y))
             /\ \A k \in DOMAIN LegalMoves(b, x, y) : IsPlay(LegalMoves(b, x, y)[k], b, {x, y})
  <2> DEFINE l == LegalMoves(b, x, y)
  <2>1. l = get_legal_moves(b, x, y)
    BY DEF BoundToMoveList
  <2> HIDE DEF l
  <2>2. IsList(l) /\ \A k \in DOMAIN l : IsList(l[k]) /\ IsPlay(l[k], b, {x, y})
    BY <2>1, FacadeLists
  <2> QED BY <2>2 DEF ListOfPlays, l
<1>2. \A text : \A b \in Boards, d0, d1 \in Dice : GiveMove(text, b, d0, d1) \in Boards \cup {NoBoard}
  <2> SUFFICES ASSUME NEW text, NEW b \in Boards, NEW x \in Dice, NEW y \in Dice
               PROVE  GiveMove(text, b, x, y) \in Boards \cup {NoBoard}
    OBVIOUS
  <2>1. GiveMove(text, b, x, y) = CommandMove(text, b, x, y)
    BY DEF BoundToMoveList, GivenToCommandMove
  <2> QED BY <2>1, CommandMoveGivesBoards
<1>3. GnubgAssumed
  BY <1>1, <1>2 DEF GnubgAssumed
<1>4. GnubgPlays
  BY <1>1 DEF GnubgPlays, PlaysKeepTo, Dice
<1> QED BY <1>3, <1>4

---------------------------------------------------------------------------
(* Hops counted: h gives the hops, S are the places of those meant.        *)

Count(S, h, c, p) == Cardinality({e \in S : h[e][c] = p})

LEMMA CountIsNat ==
  ASSUME NEW S, IsFiniteSet(S), NEW h, NEW c, NEW p
  PROVE  Count(S, h, c, p) \in Nat
<1>1. IsFiniteSet({e \in S : h[e][c] = p})
  BY FS_Subset
<1> QED BY <1>1, FS_CardinalityType DEF Count

LEMMA CountAdds ==
  ASSUME NEW S, IsFiniteSet(S), NEW h, NEW e, e \notin S, NEW c, NEW p
  PROVE  Count(S \cup {e}, h, c, p) = IF h[e][c] = p THEN Count(S, h, c, p) + 1 ELSE Count(S, h, c, p)
<1> DEFINE A == {d \in S : h[d][c] = p}
           B == {d \in S \cup {e} : h[d][c] = p}
<1>1. IsFiniteSet(A) /\ e \notin A
  BY FS_Subset
<1>3. CASE h[e][c] = p
  <2>1. B = A \cup {e}
    BY <1>3
  <2>2. Cardinality(A \cup {e}) = Cardinality(A) + 1
    BY <1>1, FS_AddElement
  <2> QED BY <1>3, <2>1, <2>2 DEF Count
<1>4. CASE h[e][c] # p
  <2>1. B = A
    BY <1>4
  <2> QED BY <1>4, <2>1 DEF Count
<1> QED BY <1>3, <1>4

LEMMA CountSame ==
  ASSUME NEW S, NEW g, NEW h, NEW c, \A e \in S : g[e][c] = h[e][c], NEW p
  PROVE  Count(S, g, c, p) = Count(S, h, c, p)
<1>1. {e \in S : g[e][c] = p} = {e \in S : h[e][c] = p}
  OBVIOUS
<1> QED BY <1>1 DEF Count

LEMMA CountMore ==
  ASSUME NEW S, NEW T, IsFiniteSet(T), S \subseteq T, NEW h, NEW c, NEW p
  PROVE  Count(S, h, c, p) <= Count(T, h, c, p)
<1>1. {e \in S : h[e][c] = p} \in SUBSET {e \in T : h[e][c] = p} /\ IsFiniteSet({e \in T : h[e][c] = p})
  BY FS_Subset
<1> QED BY <1>1, FS_Subset DEF Count

\* The places of one list of hops stand for those of another, one for one.
OneForOne(f, S, T) ==
    /\ f \in [S -> T]
    /\ \A d, e \in S : f[d] = f[e] => d = e
    /\ \A t \in T : \E e \in S : f[e] = t

Matches(f, S, g, T, h) == OneForOne(f, S, T) /\ \A e \in S : g[e] = h[f[e]]

LEMMA OneForOneCounts ==
  ASSUME NEW S, NEW T, NEW f, OneForOne(f, S, T), IsFiniteSet(S) \/ IsFiniteSet(T)
  PROVE  IsFiniteSet(S) /\ IsFiniteSet(T) /\ Cardinality(S) = Cardinality(T) /\ Cardinality(S) \in Nat
<1>1. f \in Bijection(S, T)
  BY DEF OneForOne, Bijection, Injection, Surjection, IsInjective
<1>2. f \in Injection(S, T)
  BY <1>1 DEF Bijection
<1>3. IsFiniteSet(S)
  <2>1. CASE IsFiniteSet(S)
    BY <2>1
  <2>2. CASE IsFiniteSet(T)
    BY <1>2, <2>2, FS_Injection
  <2> QED BY <2>1, <2>2
<1>4. ExistsBijection(S, T)
  BY <1>1 DEF ExistsBijection
<1> QED BY <1>3, <1>4, FS_Bijection, FS_CardinalityType

LEMMA MatchedCount ==
  ASSUME NEW S, NEW T, NEW f, NEW g, NEW h, Matches(f, S, g, T, h), IsFiniteSet(T), NEW c, NEW p
  PROVE  Count(S, g, c, p) = Count(T, h, c, p)
<1> DEFINE A == {e \in S : g[e][c] = p}
           B == {e \in T : h[e][c] = p}
           k == [e \in A |-> f[e]]
<1>1. k \in [A -> B]
  BY DEF Matches, OneForOne
<1>2. \A d, e \in A : k[d] = k[e] => d = e
  BY DEF Matches, OneForOne
<1>3. \A t \in B : \E e \in A : k[e] = t
  BY DEF Matches, OneForOne
<1>4. IsFiniteSet(B)
  BY FS_Subset
<1> HIDE DEF k, A, B
<1>5. OneForOne(k, A, B)
  BY <1>1, <1>2, <1>3 DEF OneForOne
<1>6. Cardinality(A) = Cardinality(B)
  BY <1>4, <1>5, OneForOneCounts
<1> QED BY <1>6 DEF Count, A, B

LEMMA OneForOneJoins ==
  ASSUME NEW S, NEW T, NEW U, NEW f, OneForOne(f, S, T), NEW g, OneForOne(g, T, U)
  PROVE  OneForOne([e \in S |-> g[f[e]]], S, U)
BY DEF OneForOne

---------------------------------------------------------------------------
(* The places of a list put in order.                                      *)

\* An order of S, by what comes before.
Orders(before, S) ==
    /\ before \in [S -> SUBSET S]
    /\ \A k \in S : k \notin before[k]
    /\ \A j, k \in S : j # k => j \in before[k] \/ k \in before[j]
    /\ \A i, j, k \in S : i \in before[j] /\ j \in before[k] => i \in before[k]

InOrder(f, before, S) ==
    \A r, s \in 1..Cardinality(S) : r < s => f[r] \in before[f[s]]

LEMMA RankedInOrder ==
  ASSUME NEW S, IsFiniteSet(S), NEW before, Orders(before, S)
  PROVE  LET f == [r \in 1..Cardinality(S) |-> Nth(S, before, r)]
         IN  OneForOne(f, 1..Cardinality(S), S) /\ InOrder(f, before, S)
<1> DEFINE n == Cardinality(S)
           rank == [k \in S |-> Cardinality(before[k]) + 1]
           f == [r \in 1..n |-> Nth(S, before, r)]
<1>1. n \in Nat /\ \A k \in S : IsFiniteSet(before[k]) /\ Cardinality(before[k]) \in Nat
  BY FS_Subset, FS_CardinalityType DEF Orders
<1>2. ASSUME NEW j \in S, NEW k \in S, j \in before[k] PROVE rank[j] < rank[k]
  <2>1. before[j] \cup {j} \in SUBSET before[k] /\ j \notin before[j]
    BY <1>2 DEF Orders
  <2>2. Cardinality(before[j] \cup {j}) = Cardinality(before[j]) + 1
    BY <1>1, <2>1, FS_AddElement
  <2>3. Cardinality(before[j] \cup {j}) <= Cardinality(before[k])
    BY <1>1, <2>1, FS_Subset
  <2> QED BY <1>1, <2>2, <2>3
<1>3. ASSUME NEW k \in S PROVE rank[k] \in 1..n
  <2>1. before[k] \cup {k} \in SUBSET S /\ k \notin before[k]
    BY DEF Orders
  <2>2. Cardinality(before[k] \cup {k}) = Cardinality(before[k]) + 1
    BY <1>1, <2>1, FS_AddElement
  <2>3. Cardinality(before[k] \cup {k}) <= n
    BY <2>1, FS_Subset
  <2> QED BY <1>1, <2>2, <2>3
<1>4. \A j, k \in S : rank[j] = rank[k] => j = k
  <2> SUFFICES ASSUME NEW j \in S, NEW k \in S, rank[j] = rank[k], j # k PROVE FALSE
    OBVIOUS
  <2>1. j \in before[k] \/ k \in before[j]
    BY DEF Orders
  <2>2. rank[j] < rank[k] \/ rank[k] < rank[j]
    BY <1>2, <2>1
  <2>3. rank[j] \in Int /\ rank[k] \in Int
    BY <1>3, <1>1
  <2> HIDE DEF rank
  <2> QED BY <2>2, <2>3
<1>5. rank \in Injection(S, 1..n) /\ IsFiniteSet(1..n) /\ Cardinality(1..n) = n
  <2>1. rank \in [S -> 1..n]
    BY <1>3
  <2>2. IsFiniteSet(1..n) /\ Cardinality(1..n) = n
    BY <1>1, FS_Interval
  <2> HIDE DEF rank
  <2> QED BY <1>4, <2>1, <2>2 DEF Injection, IsInjective
<1>6. \A r \in 1..n : \E k \in S : rank[k] = r
  <2>1. rank \in Surjection(S, 1..n)
    BY <1>5, FS_Injection
  <2> HIDE DEF rank
  <2> QED BY <2>1 DEF Surjection
<1>7. \A k \in S, r \in 1..n : rank[k] = r <=> Cardinality(before[k]) = r - 1
  BY <1>1
<1>8. ASSUME NEW r \in 1..n PROVE f[r] \in S /\ rank[f[r]] = r
  <2>1. \E k \in S : Cardinality(before[k]) = r - 1
    BY <1>6, <1>7
  <2>2. f[r] \in S /\ Cardinality(before[f[r]]) = r - 1
    BY <2>1 DEF Nth
  <2> HIDE DEF f, rank
  <2> QED BY <1>7, <2>2
<1>9. DOMAIN f = 1..n
  OBVIOUS
<1>10. f = [r \in 1..n |-> f[r]]
  OBVIOUS
<1> HIDE DEF f, rank
<1>11. \A k \in S : rank[k] \in 1..n /\ f[rank[k]] = k
  BY <1>3, <1>4, <1>8
<1>12. OneForOne(f, 1..n, S)
  <2>1. f \in [1..n -> S]
    BY <1>8, <1>10
  <2>2. \A r, s \in 1..n : f[r] = f[s] => r = s
    BY <1>8
  <2>3. \A k \in S : \E r \in 1..n : f[r] = k
    BY <1>11
  <2> QED BY <2>1, <2>2, <2>3 DEF OneForOne
<1>13. ASSUME NEW r \in 1..n, NEW s \in 1..n, r < s PROVE f[r] \in before[f[s]]
  <2>1. f[r] \in S /\ f[s] \in S /\ rank[f[r]] = r /\ rank[f[s]] = s
    BY <1>8
  <2>2. f[r] # f[s]
    BY <1>13, <2>1
  <2>3. f[s] \notin before[f[r]]
    BY <1>2, <1>13, <2>1
  <2> QED BY <2>1, <2>2, <2>3 DEF Orders
<1>14. InOrder(f, before, S)
  BY <1>13 DEF InOrder
<1> QED BY <1>12, <1>14 DEF f

\* From the highest source down.
Falling(an) == \A j, k \in DOMAIN an : j < k => an[j][1] >= an[k][1]

\* A list of hops in canonical order.
Reordered(q, an) ==
    /\ IsList(q) /\ DOMAIN q = DOMAIN an /\ Len(q) = Len(an) /\ Falling(q)
    /\ \E f : Matches(f, DOMAIN q, q, DOMAIN an, an)

LEMMA FunctionIsList ==
  ASSUME NEW n \in Nat, NEW q, q = [k \in 1..n |-> q[k]]
  PROVE  IsList(q) /\ DOMAIN q = 1..n /\ Len(q) = n
<1>1. q \in [1..n -> Range(q)]
  BY DEF Range
<1>2. q \in Seq(Range(q))
  BY <1>1, SeqDef
<1> QED BY <1>2, LenProperties DEF IsList

LEMMA UpTo ==
  ASSUME NEW n \in Nat
  PROVE  IsFiniteSet(1..n) /\ Cardinality(1..n) = n
BY FS_Interval

LEMMA CanonicalOrder ==
  ASSUME NEW an, Hops(an)
  PROVE  Reordered(CanonicalMoveOrder(an), an)
<1> DEFINE S == DOMAIN an
           n == Len(an)
           Before(j, k) ==
             \/ an[j][1] > an[k][1]
             \/ an[j][1] = an[k][1] /\ (an[j][2] > an[k][2] \/ (an[j][2] = an[k][2] /\ j < k))
           before == [k \in S |-> {j \in S : Before(j, k)}]
           f == [r \in 1..Cardinality(S) |-> Nth(S, before, r)]
           q == CanonicalMoveOrder(an)
<1>1. n \in Nat /\ S = 1..n
  BY LenProperties DEF Hops, IsList
<1>2. \A k \in S : an[k][1] \in Int /\ an[k][2] \in Int
  BY DEF Hops
<1>3. IsFiniteSet(S) /\ Cardinality(S) = n
  BY <1>1, UpTo
<1>4. Orders(before, S)
  <2>1. before \in [S -> SUBSET S]
    OBVIOUS
  <2>2. \A k \in S : k \notin before[k]
    BY <1>1, <1>2
  <2>3. \A j, k \in S : j # k => Before(j, k) \/ Before(k, j)
    BY <1>1, <1>2
  <2>4. ASSUME NEW i \in S, NEW j \in S, NEW k \in S, Before(i, j), Before(j, k) PROVE Before(i, k)
    <3>1. i \in Int /\ j \in Int /\ k \in Int
      BY <1>1
    <3> QED BY <1>2, <2>4, <3>1
  <2>5. \A j, k \in S : j \in before[k] <=> Before(j, k)
    OBVIOUS
  <2> HIDE DEF Before, before
  <2> QED BY <2>1, <2>2, <2>3, <2>4, <2>5 DEF Orders
<1>5. q = [r \in S |-> an[Nth(S, before, r)]]
  BY DEF CanonicalMoveOrder
<1>6. \A j, k \in S : j \in before[k] => an[j][1] >= an[k][1]
  BY <1>2
<1>7. f = [r \in S |-> Nth(S, before, r)]
  BY <1>1, <1>3
<1> HIDE DEF before
<1>8. OneForOne(f, S, S) /\ InOrder(f, before, S)
  BY <1>1, <1>3, <1>4, RankedInOrder
<1> HIDE DEF f
<1>9. DOMAIN q = S /\ \A r \in S : q[r] = an[f[r]]
  BY <1>5, <1>7
<1>10. IsList(q) /\ Len(q) = n
  <2>1. q = [k \in 1..n |-> q[k]]
    BY <1>1, <1>5
  <2> HIDE DEF q, n
  <2> QED BY <1>1, <2>1, FunctionIsList
<1> HIDE DEF q
<1>11. Falling(q)
  <2> SUFFICES ASSUME NEW j \in S, NEW k \in S, j < k PROVE q[j][1] >= q[k][1]
    BY <1>9 DEF Falling
  <2>1. f[j] \in S /\ f[k] \in S
    BY <1>8 DEF OneForOne
  <2>2. f[j] \in before[f[k]]
    BY <1>1, <1>3, <1>8 DEF InOrder
  <2> QED BY <1>6, <1>9, <2>1, <2>2
<1>12. Matches(f, DOMAIN q, q, S, an)
  BY <1>8, <1>9 DEF Matches
<1> QED BY <1>9, <1>10, <1>11, <1>12 DEF Reordered, q

---------------------------------------------------------------------------
(* What the hops of a play make of a board, in whatever order they go.     *)

\* Hops of chequers to open points or off.
OpenHops(b, an) ==
    /\ Hops(an)
    /\ \A k \in DOMAIN an :
          /\ an[k][1] \in Slots /\ an[k][2] \in -1 .. NPoints - 1 /\ an[k][2] < an[k][1]
          /\ an[k][2] >= 0 => b[0][Mirror(an[k][2])] < 2

Blots(b) == {x \in 0 .. NPoints - 1 : b[0][Mirror(x)] = 1}
Hits(b, an, k) == {x \in Blots(b) : \E j \in 1..k : an[j][2] = x}

\* The board n after k of these hops: chequers that left and came, blots that were hit.
Gone(n, b, an, k) ==
    /\ Apart(n)
    /\ \A x \in Slots : n[1][x] = (b[1][x] - Count(1..k, an, 1, x)) + Count(1..k, an, 2, x)
    /\ \A x \in 0 .. NPoints - 1 : n[0][x] = IF Mirror(x) \in Hits(b, an, k) THEN 0 ELSE b[0][x]
    /\ n[0][Bar] = b[0][Bar] + Cardinality(Hits(b, an, k))

LEMMA NoneGone ==
  ASSUME NEW b, Apart(b), NEW an
  PROVE  Gone(b, b, an, 0)
<1>1. 1..0 = {}
  OBVIOUS
<1>2. Hits(b, an, 0) = {} /\ \A c, x : {e \in 1..0 : an[e][c] = x} = {}
  BY <1>1 DEF Hits
<1>3. \A c, x : Count(1..0, an, c, x) = 0
  BY <1>2, FS_EmptySet DEF Count
<1>4. /\ \A x \in Slots : b[1][x] \in Nat
      /\ b[0][Bar] \in Nat
  BY BoardAssumption DEF Apart, Boards, Slots, Bar
<1> QED BY <1>2, <1>3, <1>4, FS_EmptySet DEF Gone

LEMMA HitsFinite ==
  ASSUME NEW b, NEW an, NEW k
  PROVE  IsFiniteSet(Hits(b, an, k)) /\ Cardinality(Hits(b, an, k)) \in Nat
<1>1. IsFiniteSet(0 .. NPoints - 1) /\ Hits(b, an, k) \in SUBSET (0 .. NPoints - 1)
  BY BoardAssumption, FS_Interval DEF Hits, Blots
<1> QED BY <1>1, FS_Subset, FS_CardinalityType

LEMMA OneMoreHop ==
  ASSUME NEW an, NEW k \in Nat \ {0}, NEW c, NEW x
  PROVE  /\ Count(1..k, an, c, x) = IF an[k][c] = x THEN Count(1 .. k - 1, an, c, x) + 1
                                  ELSE Count(1 .. k - 1, an, c, x)
         /\ Count(1 .. k - 1, an, c, x) \in Nat
<1>1. 1..k = (1 .. k - 1) \cup {k} /\ k \notin 1 .. k - 1 /\ k - 1 \in Nat
  OBVIOUS
<1>2. IsFiniteSet(1 .. k - 1)
  BY <1>1, UpTo
<1> DEFINE S == 1 .. k - 1
<1>3. 1..k = S \cup {k} /\ k \notin S /\ IsFiniteSet(S)
  BY <1>1, <1>2
<1> HIDE DEF S
<1>4. Count(S \cup {k}, an, c, x) = IF an[k][c] = x THEN Count(S, an, c, x) + 1 ELSE Count(S, an, c, x)
  BY <1>3, CountAdds
<1>5. Count(S, an, c, x) \in Nat
  BY <1>3, CountIsNat
<1> QED BY <1>3, <1>4, <1>5 DEF S

LEMMA OneMoreHit ==
  ASSUME NEW b, NEW an, NEW k \in Nat \ {0}
  PROVE  Hits(b, an, k) = Hits(b, an, k - 1) \cup (Blots(b) \cap {an[k][2]})
<1>1. 1..k = (1 .. k - 1) \cup {k}
  OBVIOUS
<1> QED BY <1>1 DEF Hits

\* One hop more, when there is a chequer to make it.
LEMMA HopGoesOn ==
  ASSUME NEW b, Apart(b), NEW an, OpenHops(b, an), NEW k \in Nat \ {0}, k \in DOMAIN an,
         NEW n, Gone(n, b, an, k - 1), n[1][an[k][1]] > 0
  PROVE  LET r == ApplySubMove(n, an[k][1], an[k][1] - an[k][2]) IN
         r.rc = 0 /\ Gone(r.board, b, an, k)
<1> DEFINE i == an[k][1]
           t == an[k][2]
           d == i - t
           r == ApplySubMove(n, i, d)
           m == r.board
           H == Hits(b, an, k - 1)
           G == Hits(b, an, k)
<1>1. /\ i \in Slots /\ t \in Int /\ -1 <= t /\ t <= NPoints - 1 /\ t < i
      /\ t >= 0 => b[0][Mirror(t)] < 2
  BY DEF OpenHops
<1>2. NPoints \in Nat /\ i \in Nat /\ Bar \in Slots /\ (\A x \in 0 .. NPoints - 1 : x \in Slots)
      /\ (t >= 0 => t \in 0 .. NPoints - 1)
  BY <1>1, BoardAssumption DEF Slots, Bar
<1>3. /\ \A x \in Slots : b[0][x] \in Nat /\ b[1][x] \in Nat /\ n[0][x] \in Nat /\ n[1][x] \in Nat
      /\ Apart(n)
  BY DEF Gone, Apart, Boards
<1>4. \A x \in 0 .. NPoints - 1 : Mirror(x) \in 0 .. NPoints - 1 /\ Mirror(Mirror(x)) = x
  BY <1>2 DEF Mirror
<1>5. G = H \cup (Blots(b) \cap {t})
  BY OneMoreHit
<1>6. t >= 0 => b[0][Mirror(t)] \in {0, 1} /\ (t \in Blots(b) <=> b[0][Mirror(t)] = 1)
  BY <1>1, <1>2, <1>3, <1>4 DEF Blots
<1>7. \A x \in 0 .. NPoints - 1 : n[0][x] = IF Mirror(x) \in H THEN 0 ELSE b[0][x]
  BY DEF Gone
<1>8. ~(t >= 0) => t \notin Blots(b)
  BY <1>2 DEF Blots
<1> HIDE DEF H, G
<1>9. t >= 0 => n[0][Mirror(t)] = IF t \in H THEN 0 ELSE b[0][Mirror(t)]
  BY <1>2, <1>4, <1>7
<1>10. i - d = t /\ d \in Nat \ {0}
  BY <1>1, <1>2
<1>11. CanHop(n, i, d)
  <2>1. t >= 0 => n[0][Mirror(t)] < 2
    BY <1>6, <1>9
  <2>2. n[1][i] > 0
    OBVIOUS
  <2>3. i \in Slots /\ d \in Nat \ {0}
    BY <1>1, <1>10
  <2>4. i - d >= 0 => n[0][Mirror(i - d)] < 2
    <3> HIDE DEF d, t, i
    <3> QED BY <1>10, <2>1
  <2> HIDE DEF d, t, i
  <2>5. CanHop(n, i, d)
    BY <2>2, <2>3, <2>4 DEF CanHop
  <2> QED BY <2>5
<1>12. r.rc = 0 /\ Apart(m) /\ HopMakes(n, i, d, m)
  <2> HIDE DEF i, d
  <2> QED BY <1>3, <1>11, HopGoes DEF Played
<1> HIDE DEF r, m, d
<1>13. ASSUME NEW x \in Slots
       PROVE  m[1][x] = (b[1][x] - Count(1..k, an, 1, x)) + Count(1..k, an, 2, x)
  <2>1. m[1][x] = (n[1][x] - One(x = i)) + One(x = t)
    BY <1>10, <1>12 DEF HopMakes
  <2>2. n[1][x] = (b[1][x] - Count(1 .. k - 1, an, 1, x)) + Count(1 .. k - 1, an, 2, x)
    BY DEF Gone
  <2>3. /\ Count(1..k, an, 1, x) = IF i = x THEN Count(1 .. k - 1, an, 1, x) + 1
                                   ELSE Count(1 .. k - 1, an, 1, x)
        /\ Count(1 .. k - 1, an, 1, x) \in Nat
        /\ Count(1..k, an, 2, x) = IF t = x THEN Count(1 .. k - 1, an, 2, x) + 1
                                   ELSE Count(1 .. k - 1, an, 2, x)
        /\ Count(1 .. k - 1, an, 2, x) \in Nat
    <3>1. ASSUME NEW c
          PROVE  /\ Count(1..k, an, c, x) = IF an[k][c] = x THEN Count(1 .. k - 1, an, c, x) + 1
                                           ELSE Count(1 .. k - 1, an, c, x)
                 /\ Count(1 .. k - 1, an, c, x) \in Nat
      BY OneMoreHop
    <3> QED BY <3>1
  <2> DEFINE u == Count(1 .. k - 1, an, 1, x)
             v == Count(1 .. k - 1, an, 2, x)
             y == One(x = i)
             z == One(x = t)
             U == Count(1 .. k, an, 1, x)
             V == Count(1 .. k, an, 2, x)
  <2>4. y = (IF x = i THEN 1 ELSE 0) /\ z = (IF x = t THEN 1 ELSE 0)
    BY DEF One
  <2>5. m[1][x] = (n[1][x] - y) + z /\ n[1][x] = (b[1][x] - u) + v
        /\ U = u + y /\ V = v + z
        /\ u \in Int /\ v \in Int /\ y \in Int /\ z \in Int /\ b[1][x] \in Int
    <3> HIDE DEF y, z, i, t
    <3> QED BY <1>3, <2>1, <2>2, <2>3, <2>4 DEF y, z
  <2> HIDE DEF u, v, y, z, U, V
  <2>6. m[1][x] = (b[1][x] - U) + V
    BY <2>5
  <2> QED BY <2>6 DEF U, V
<1>14. ASSUME NEW x \in 0 .. NPoints - 1
       PROVE  m[0][x] = IF Mirror(x) \in G THEN 0 ELSE b[0][x]
  <2>1. m[0][x] = IF t >= 0 /\ x = Mirror(t) THEN 0 ELSE n[0][x]
    BY <1>10, <1>12 DEF HopMakes
  <2>2. Mirror(x) = t => t >= 0 /\ x = Mirror(t)
    BY <1>4
  <2>3. t >= 0 /\ x = Mirror(t) => Mirror(x) = t
    BY <1>2, <1>4
  <2> HIDE DEF t
  <2>4. CASE t >= 0 /\ x = Mirror(t)
    BY <1>5, <1>6, <2>1, <2>3, <2>4
  <2>5. CASE ~(t >= 0 /\ x = Mirror(t))
    BY <1>5, <1>7, <2>1, <2>2, <2>5
  <2> QED BY <2>4, <2>5
<1>15. m[0][Bar] = b[0][Bar] + Cardinality(G)
  <2>1. m[0][Bar] = n[0][Bar] + One(t >= 0 /\ n[0][Mirror(t)] = 1)
    BY <1>10, <1>12 DEF HopMakes
  <2>2. n[0][Bar] = b[0][Bar] + Cardinality(H)
    BY DEF Gone, H
  <2>3. IsFiniteSet(H) /\ Cardinality(H) \in Nat /\ b[0][Bar] \in Nat
    BY <1>2, <1>3, HitsFinite DEF H
  <2> HIDE DEF t
  <2>4. CASE t \in Blots(b) /\ t \notin H
    <3>1. G = H \cup {t}
      BY <1>5, <2>4
    <3>2. Cardinality(G) = Cardinality(H) + 1
      BY <2>3, <2>4, <3>1, FS_AddElement
    <3>3. One(t >= 0 /\ n[0][Mirror(t)] = 1) = 1
      BY <1>6, <1>8, <1>9, <2>4 DEF One
    <3> QED BY <2>1, <2>2, <2>3, <3>2, <3>3
  <2>5. CASE ~(t \in Blots(b) /\ t \notin H)
    <3>1. G = H
      BY <1>5, <2>5
    <3>2. One(t >= 0 /\ n[0][Mirror(t)] = 1) = 0
      BY <1>6, <1>8, <1>9, <2>5 DEF One
    <3> QED BY <2>1, <2>2, <2>3, <3>1, <3>2
  <2> QED BY <2>4, <2>5
<1>16. Gone(m, b, an, k)
  BY <1>12, <1>13, <1>14, <1>15 DEF Gone, G
<1>17. r.rc = 0 /\ Gone(r.board, b, an, k)
  BY <1>12, <1>16 DEF m
<1> QED BY <1>17 DEF r, d

\* Whenever a hop of the play is to be made, there is a chequer to make it.
Feasible(f, b, an) ==
    \A k \in DOMAIN an :
        f[k - 1].rc = 0 /\ Gone(f[k - 1].board, b, an, k - 1) => f[k - 1].board[1][an[k][1]] > 0

LEMMA PlayGoes ==
  ASSUME NEW b, Apart(b), NEW an, OpenHops(b, an), NEW f, AppliedBy(f, b, an), Feasible(f, b, an)
  PROVE  \A k \in 0..Len(an) : f[k].rc = 0 /\ Gone(f[k].board, b, an, k)
<1> DEFINE Goes(k) == f[k].rc = 0 /\ Gone(f[k].board, b, an, k)
           A == {k \in Nat : k <= Len(an) => Goes(k)}
<1>1. Len(an) \in Nat /\ DOMAIN an = 1..Len(an)
  BY LenProperties DEF OpenHops, Hops, IsList
<1>2. 0 \in A
  BY NoneGone DEF AppliedBy
<1>3. ASSUME NEW k \in Nat, k \in A PROVE k + 1 \in A
  <2> SUFFICES ASSUME k + 1 <= Len(an) PROVE Goes(k + 1)
    OBVIOUS
  <2> DEFINE l == k + 1
             n == f[k].board
             i == an[l][1]
             d == an[l][1] - an[l][2]
  <2>1. l \in Nat \ {0} /\ l \in DOMAIN an /\ l - 1 = k /\ l \in 1..Len(an)
    BY <1>1
  <2>2. f[k].rc = 0 /\ Gone(n, b, an, l - 1)
    BY <1>1, <1>3, <2>1
  <2> HIDE DEF l
  <2>3. n[1][i] > 0
    BY <2>1, <2>2 DEF Feasible
  <2>4. f[l] = Applied(f[k], an[l])
    BY <2>1 DEF AppliedBy
  <2>5. f[l] = ApplySubMove(n, i, d)
    BY <2>2, <2>4 DEF Applied
  <2> HIDE DEF n
  <2>6. f[l].rc = 0 /\ Gone(f[l].board, b, an, l)
    BY <2>1, <2>2, <2>3, <2>5, HopGoesOn
  <2> QED BY <2>6 DEF l
<1>4. Nat \subseteq A
  <2> HIDE DEF A
  <2> QED BY <1>2, <1>3, SetInduction
<1> QED BY <1>1, <1>4

\* A play that was made to its end failed nowhere.
LEMMA FailureStays ==
  ASSUME NEW b, NEW an, Hops(an), NEW f, AppliedBy(f, b, an), ApplyMove(b, an).rc = 0
  PROVE  \A k \in 0..Len(an) : f[k].rc = 0
<1> DEFINE n == Len(an)
           A == {m \in Nat : m <= n => f[n - m].rc = 0}
<1>1. n \in Nat
  BY LenProperties DEF Hops, IsList
<1>2. 0 \in A
  <2>1. f[n].rc = 0
    BY DEF AppliedBy
  <2>2. n - 0 = n
    BY <1>1
  <2> QED BY <2>1, <2>2
<1>3. ASSUME NEW m \in Nat, m \in A PROVE m + 1 \in A
  <2> SUFFICES ASSUME m + 1 <= n PROVE f[n - (m + 1)].rc = 0
    OBVIOUS
  <2> DEFINE k == n - m
  <2>1. k \in 1..n /\ n - (m + 1) = k - 1
    BY <1>1
  <2>2. f[k].rc = 0
    BY <1>1, <1>3
  <2> HIDE DEF k, A
  <2>3. f[k] = Applied(f[k - 1], an[k])
    BY <2>1 DEF AppliedBy
  <2>4. f[k - 1].rc = 0
    BY <2>2, <2>3 DEF Applied
  <2> QED BY <2>1, <2>4
<1>4. Nat \subseteq A
  <2> HIDE DEF A, n
  <2> QED BY <1>2, <1>3, SetInduction
<1>5. ASSUME NEW k \in 0..n PROVE f[k].rc = 0
  <2>1. n - k \in Nat /\ n - k <= n /\ n - (n - k) = k
    BY <1>1
  <2>2. n - k \in A
    BY <1>4, <2>1
  <2> QED BY <2>1, <2>2
<1> QED BY <1>5

LEMMA HopNeedsChequer ==
  ASSUME NEW n \in Boards, NEW i, NEW d, ApplySubMove(n, i, d).rc = 0
  PROVE  i \in Slots /\ n[1][i] > 0
<1>1. ASSUME ~(i \in Slots /\ i - d < i /\ n[1][i] >= 1) PROVE FALSE
  <2>1. ApplySubMove(n, i, d) = [rc |-> -1, board |-> n]
    BY <1>1, Zenon DEF ApplySubMove
  <2> QED BY <2>1
<1>2. i \in Slots /\ n[1][i] >= 1
  BY <1>1
<1>3. n[1][i] \in Nat
  BY <1>2 DEF Boards
<1> QED BY <1>2, <1>3

LEMMA MadeIsFeasible ==
  ASSUME NEW b, NEW an, Hops(an), NEW f, AppliedBy(f, b, an), ApplyMove(b, an).rc = 0
  PROVE  Feasible(f, b, an)
<1> SUFFICES ASSUME NEW k \in DOMAIN an PROVE f[k - 1].board[1][an[k][1]] > 0
  BY DEF Feasible
<1>1. Len(an) \in Nat /\ DOMAIN an = 1..Len(an)
  BY LenProperties DEF Hops, IsList
<1>2. k - 1 \in 0..Len(an) /\ k \in 0..Len(an) /\ k \in 1..Len(an)
  BY <1>1
<1>3. f[k].rc = 0 /\ f[k - 1].rc = 0
  BY <1>2, FailureStays
<1>4. f[k] = Applied(f[k - 1], an[k]) /\ f[k - 1].board \in Boards
  BY <1>2 DEF AppliedBy
<1>5. f[k] = ApplySubMove(f[k - 1].board, an[k][1], an[k][1] - an[k][2])
  BY <1>3, <1>4 DEF Applied
<1> QED BY <1>3, <1>4, <1>5, HopNeedsChequer

\* What the hops of a list do to each point, all together.
Net(an, x) == Count(DOMAIN an, an, 2, x) - Count(DOMAIN an, an, 1, x)

\* From the highest source down, every chequer that comes to a point is there before one leaves.
LEMMA FallingIsFeasible ==
  ASSUME NEW b, Apart(b), NEW an, OpenHops(b, an), Falling(an), NEW f, AppliedBy(f, b, an),
         \A x \in Slots : b[1][x] + Net(an, x) >= 0
  PROVE  Feasible(f, b, an)
<1> SUFFICES ASSUME NEW k \in DOMAIN an, Gone(f[k - 1].board, b, an, k - 1)
             PROVE  f[k - 1].board[1][an[k][1]] > 0
  BY DEF Feasible
<1> DEFINE i == an[k][1]
           n == f[k - 1].board
           m == Len(an)
           O(l) == Count(1..l, an, 1, i)
           I(l) == Count(1..l, an, 2, i)
<1>1. m \in Nat /\ DOMAIN an = 1..m
  BY LenProperties DEF OpenHops, Hops, IsList
<1>2. /\ \A e \in DOMAIN an : an[e][1] \in Slots /\ an[e][2] \in Int /\ an[e][2] < an[e][1]
      /\ Slots \subseteq Nat
  BY DEF OpenHops, Slots, Hops
<1>3. k \in Nat \ {0} /\ k \in 1..m /\ 1..k \subseteq 1..m /\ IsFiniteSet(1..m)
  BY <1>1, UpTo
<1>4. O(k) = O(k - 1) + 1 /\ O(k - 1) \in Nat
  <2>1. ASSUME NEW c PROVE /\ Count(1..k, an, c, i) = IF an[k][c] = i THEN Count(1 .. k - 1, an, c, i) + 1
                                                      ELSE Count(1 .. k - 1, an, c, i)
                           /\ Count(1 .. k - 1, an, c, i) \in Nat
    BY <1>3, OneMoreHop
  <2> QED BY <2>1
<1>5. O(k) <= O(m)
  <2>1. ASSUME NEW c PROVE Count(1..k, an, c, i) <= Count(1..m, an, c, i)
    BY <1>3, CountMore
  <2> QED BY <2>1
<1>6. I(k - 1) = I(m)
  <2>1. ASSUME NEW e \in 1..m, an[e][2] = i PROVE e \in 1 .. k - 1
    <3>1. ASSUME k < e PROVE FALSE
      <4>1. an[k][1] >= an[e][1]
        BY <1>1, <3>1 DEF Falling
      <4> DEFINE u == an[k][1]
                 v == an[e][1]
                 w == an[e][2]
      <4>2. u \in Int /\ v \in Int /\ w \in Int /\ w < v /\ w = u /\ u >= v
        <5>1. an[k][1] \in Nat /\ an[e][1] \in Nat /\ an[e][2] \in Int /\ an[e][2] < an[e][1]
          BY <1>1, <1>2
        <5> QED BY <2>1, <4>1, <5>1
      <4> HIDE DEF u, v, w
      <4> QED BY <4>2
    <3>2. k # e
      BY <1>1, <1>2, <2>1
    <3> QED BY <1>1, <1>3, <2>1, <3>1, <3>2
  <2>2. {e \in 1 .. k - 1 : an[e][2] = i} = {e \in 1..m : an[e][2] = i}
    <3>1. 1 .. k - 1 \subseteq 1..m
      BY <1>1, <1>3
    <3> HIDE DEF i
    <3> QED BY <2>1, <3>1
  <2> QED BY <2>2 DEF Count
<1>7. O(m) \in Nat /\ I(m) \in Nat
  BY <1>3, CountIsNat
<1>8. n[1][i] = (b[1][i] - O(k - 1)) + I(k - 1)
  BY <1>2 DEF Gone
<1>9. b[1][i] + (I(m) - O(m)) >= 0
  BY <1>1, <1>2 DEF Net
<1>10. b[1][i] \in Nat
  BY <1>2 DEF Apart, Boards
<1> HIDE DEF O, I, n
<1>11. n[1][i] > 0
  BY <1>4, <1>5, <1>6, <1>7, <1>8, <1>9, <1>10
<1> QED BY <1>11 DEF n

\* Two boards of the same chequers and the same hits are the same board.
LEMMA SameGone ==
  ASSUME NEW b, Apart(b), NEW an, NEW n, Gone(n, b, an, Len(an)), DOMAIN an = 1..Len(an),
         NEW q, NEW m, Gone(m, b, q, Len(q)), DOMAIN q = 1..Len(q), Len(an) \in Nat, Len(q) \in Nat,
         Hits(b, q, Len(q)) = Hits(b, an, Len(an)), \A x \in Slots : Net(q, x) = Net(an, x)
  PROVE  m = n
<1>1. ASSUME NEW x \in Slots PROVE m[1][x] = n[1][x]
  <2> DEFINE a1 == Count(1..Len(an), an, 1, x)
             a2 == Count(1..Len(an), an, 2, x)
             q1 == Count(1..Len(q), q, 1, x)
             q2 == Count(1..Len(q), q, 2, x)
  <2>1. n[1][x] = (b[1][x] - a1) + a2 /\ m[1][x] = (b[1][x] - q1) + q2
    BY DEF Gone
  <2>2. a2 - a1 = q2 - q1
    BY DEF Net
  <2>3. a1 \in Nat /\ a2 \in Nat /\ q1 \in Nat /\ q2 \in Nat /\ b[1][x] \in Nat
    BY CountIsNat, UpTo DEF Apart, Boards
  <2> DEFINE bx == b[1][x]
             nx == n[1][x]
             mx == m[1][x]
  <2>4. /\ nx = (bx - a1) + a2 /\ mx = (bx - q1) + q2 /\ a2 - a1 = q2 - q1
        /\ bx \in Int /\ a1 \in Int /\ a2 \in Int /\ q1 \in Int /\ q2 \in Int
    BY <2>1, <2>2, <2>3
  <2> HIDE DEF a1, a2, q1, q2, bx, nx, mx
  <2>5. mx = nx
    BY <2>4
  <2> QED BY <2>5 DEF mx, nx
<1>2. ASSUME NEW x \in Slots PROVE m[0][x] = n[0][x]
  <2>1. CASE x = Bar
    BY <2>1 DEF Gone
  <2>2. CASE x # Bar
    BY <2>2, BoardAssumption DEF Gone, Slots, Bar
  <2> QED BY <2>1, <2>2
<1>3. n \in Boards /\ m \in Boards
  BY DEF Gone, Apart
<1> QED BY <1>1, <1>2, <1>3 DEF Boards

\* Two plays with the same hits, which do the same to each point, lead to the same board,
\* if one can be made and the other goes from the highest source down.
LEMMA SameEffect ==
  ASSUME NEW b, Apart(b), NEW an, OpenHops(b, an), ApplyMove(b, an).rc = 0,
         NEW q, OpenHops(b, q), Falling(q),
         Hits(b, q, Len(q)) = Hits(b, an, Len(an)), \A x \in Slots : Net(q, x) = Net(an, x)
  PROVE  ApplyMove(b, q).board = ApplyMove(b, an).board
<1>0. b \in Boards /\ Hops(an) /\ Hops(q)
  BY DEF Apart, OpenHops
<1>1. PICK f : AppliedBy(f, b, an)
  BY <1>0, ApplyFold
<1>2. PICK g : AppliedBy(g, b, q)
  BY <1>0, ApplyFold
<1>3. Len(an) \in Nat /\ DOMAIN an = 1..Len(an) /\ Len(q) \in Nat /\ DOMAIN q = 1..Len(q)
  BY <1>0, LenProperties DEF Hops, IsList
<1>4. Feasible(f, b, an)
  BY <1>0, <1>1, MadeIsFeasible
<1> DEFINE n == ApplyMove(b, an).board
           m == ApplyMove(b, q).board
<1>5. Gone(n, b, an, Len(an))
  <2>1. Len(an) \in 0..Len(an)
    BY <1>3
  <2>2. Gone(f[Len(an)].board, b, an, Len(an))
    BY <1>1, <1>4, <2>1, PlayGoes
  <2> QED BY <1>1, <2>2 DEF AppliedBy
<1>6. ASSUME NEW x \in Slots PROVE b[1][x] + Net(q, x) >= 0
  <2> DEFINE a1 == Count(1..Len(an), an, 1, x)
             a2 == Count(1..Len(an), an, 2, x)
  <2>1. n[1][x] = (b[1][x] - a1) + a2 /\ n[1][x] \in Nat
    BY <1>5 DEF Gone, Apart, Boards
  <2>2. Net(q, x) = a2 - a1
    BY <1>3 DEF Net
  <2>3. a1 \in Nat /\ a2 \in Nat /\ b[1][x] \in Nat
    BY <1>3, CountIsNat, UpTo DEF Apart, Boards
  <2> HIDE DEF a1, a2, n
  <2> QED BY <2>1, <2>2, <2>3
<1>7. Feasible(g, b, q)
  BY <1>2, <1>6, FallingIsFeasible
<1>8. Gone(m, b, q, Len(q))
  <2>1. Len(q) \in 0..Len(q)
    BY <1>3
  <2>2. Gone(g[Len(q)].board, b, q, Len(q))
    BY <1>2, <1>7, <2>1, PlayGoes
  <2> QED BY <1>2, <2>2 DEF AppliedBy
<1> HIDE DEF n, m
<1>9. m = n
  BY <1>3, <1>5, <1>8, SameGone
<1> QED BY <1>9 DEF n, m

---------------------------------------------------------------------------
(* Hops joined to ways.                                                    *)

LEMMA CountSplits ==
  ASSUME NEW S, IsFiniteSet(S), NEW e \in S, NEW g, NEW c, NEW p
  PROVE  /\ Count(S, g, c, p) = IF g[e][c] = p THEN Count(S \ {e}, g, c, p) + 1 ELSE Count(S \ {e}, g, c, p)
         /\ Count(S \ {e}, g, c, p) \in Nat /\ IsFiniteSet(S \ {e})
<1> DEFINE T == S \ {e}
<1>1. IsFiniteSet(T) /\ e \notin T /\ S = T \cup {e}
  BY FS_RemoveElement
<1> HIDE DEF T
<1>2. Count(T \cup {e}, g, c, p) = IF g[e][c] = p THEN Count(T, g, c, p) + 1 ELSE Count(T, g, c, p)
  BY <1>1, CountAdds
<1>3. Count(T, g, c, p) \in Nat
  BY <1>1, CountIsNat
<1> QED BY <1>1, <1>2, <1>3 DEF T

\* A hop written elsewhere.
Moves(g, h, d, e) ==
    /\ d \in DOMAIN g /\ e \notin DOMAIN g /\ DOMAIN h = (DOMAIN g \ {d}) \cup {e}
    /\ \A x \in DOMAIN g \ {d} : h[x] = g[x]
    /\ h[e] = g[d]

\* Two hops, e going on from d, made one.
Merges(g, h, d, e) ==
    /\ d \in DOMAIN g /\ e \in DOMAIN g /\ d # e /\ DOMAIN h = DOMAIN g \ {e}
    /\ \A x \in DOMAIN h : x # d => h[x] = g[x]
    /\ g[d][2] = g[e][1] /\ h[d][1] = g[d][1] /\ h[d][2] = g[e][2]

LEMMA MovedNet ==
  ASSUME NEW g, NEW h, NEW d, NEW e, Moves(g, h, d, e), IsFiniteSet(DOMAIN g)
  PROVE  /\ IsFiniteSet(DOMAIN h) /\ Cardinality(DOMAIN h) = Cardinality(DOMAIN g)
         /\ \A p : Net(h, p) = Net(g, p)
<1> DEFINE S == DOMAIN g
           B == S \ {d}
           T == DOMAIN h
<1>1. d \in S /\ e \notin B /\ T = B \cup {e} /\ IsFiniteSet(S)
  BY DEF Moves
<1>2. IsFiniteSet(B) /\ Cardinality(B) = Cardinality(S) - 1 /\ Cardinality(S) \in Nat
  BY <1>1, FS_RemoveElement, FS_CardinalityType
<1>3. ASSUME NEW c, NEW p PROVE Count(T, h, c, p) = Count(S, g, c, p)
  <2>1. Count(B, h, c, p) = Count(B, g, c, p)
    <3>1. \A x \in B : h[x][c] = g[x][c]
      BY DEF Moves
    <3> HIDE DEF B
    <3> QED BY <3>1, CountSame
  <2>2. Count(S, g, c, p) = IF g[d][c] = p THEN Count(B, g, c, p) + 1 ELSE Count(B, g, c, p)
    BY <1>1, CountSplits
  <2> HIDE DEF B, T, S
  <2>3. Count(T, h, c, p) = IF h[e][c] = p THEN Count(B, h, c, p) + 1 ELSE Count(B, h, c, p)
    BY <1>1, <1>2, CountAdds
  <2>4. h[e] = g[d]
    BY DEF Moves
  <2> QED BY <2>1, <2>2, <2>3, <2>4
<1>4. IsFiniteSet(T) /\ Cardinality(T) = Cardinality(B) + 1
  <2> HIDE DEF B, T, S
  <2> QED BY <1>1, <1>2, FS_AddElement
<1>5. Cardinality(T) = Cardinality(S)
  BY <1>2, <1>4
<1>6. \A p : Net(h, p) = Net(g, p)
  BY <1>3 DEF Net
<1> QED BY <1>4, <1>5, <1>6

LEMMA MergedNet ==
  ASSUME NEW g, NEW h, NEW d, NEW e, Merges(g, h, d, e), IsFiniteSet(DOMAIN g)
  PROVE  /\ IsFiniteSet(DOMAIN h) /\ Cardinality(DOMAIN h) <= Cardinality(DOMAIN g)
         /\ \A p : Net(h, p) = Net(g, p)
<1> DEFINE S == DOMAIN g
           T == DOMAIN h
           B == T \ {d}
<1>1. d \in T /\ e \in S /\ T = S \ {e} /\ IsFiniteSet(S)
  BY DEF Merges
<1>2. IsFiniteSet(T) /\ Cardinality(T) <= Cardinality(S)
  BY <1>1, FS_Subset
<1>3. g[d][2] = g[e][1] /\ h[d][1] = g[d][1] /\ h[d][2] = g[e][2]
  BY DEF Merges
<1>5. /\ IsFiniteSet(B) /\ d \notin B /\ B \cup {d} = T /\ IsFiniteSet(T) /\ e \notin T /\ T \cup {e} = S
  BY <1>1, <1>2, FS_RemoveElement
<1>4. ASSUME NEW p PROVE Net(h, p) = Net(g, p)
  <2>1. ASSUME NEW c
        PROVE  /\ Count(B, h, c, p) = Count(B, g, c, p)
               /\ Count(B, g, c, p) \in Nat
               /\ Count(T, g, c, p) = IF g[d][c] = p THEN Count(B, g, c, p) + 1 ELSE Count(B, g, c, p)
               /\ Count(T, h, c, p) = IF h[d][c] = p THEN Count(B, h, c, p) + 1 ELSE Count(B, h, c, p)
               /\ Count(S, g, c, p) = IF g[e][c] = p THEN Count(T, g, c, p) + 1 ELSE Count(T, g, c, p)
    <3>1. Count(B, h, c, p) = Count(B, g, c, p)
      <4>1. \A x \in B : h[x][c] = g[x][c]
        BY DEF Merges
      <4> HIDE DEF B
      <4> QED BY <4>1, CountSame
    <3> HIDE DEF S, T, B
    <3>2. Count(T \cup {e}, g, c, p) = IF g[e][c] = p THEN Count(T, g, c, p) + 1 ELSE Count(T, g, c, p)
      BY <1>5, CountAdds
    <3>3. Count(B \cup {d}, g, c, p) = IF g[d][c] = p THEN Count(B, g, c, p) + 1 ELSE Count(B, g, c, p)
      BY <1>5, CountAdds
    <3>4. Count(B \cup {d}, h, c, p) = IF h[d][c] = p THEN Count(B, h, c, p) + 1 ELSE Count(B, h, c, p)
      BY <1>5, CountAdds
    <3>5. Count(B, g, c, p) \in Nat
      BY <1>5, CountIsNat
    <3> QED BY <1>5, <3>1, <3>2, <3>3, <3>4, <3>5
  <2> DEFINE b1 == Count(B, g, 1, p)
             b2 == Count(B, g, 2, p)
             h1 == Count(T, h, 1, p)
             h2 == Count(T, h, 2, p)
             g1 == Count(S, g, 1, p)
             g2 == Count(S, g, 2, p)
             t1 == Count(T, g, 1, p)
             t2 == Count(T, g, 2, p)
  <2>2. /\ b1 \in Nat /\ t1 = (IF g[d][1] = p THEN b1 + 1 ELSE b1)
        /\ h1 = (IF h[d][1] = p THEN b1 + 1 ELSE b1)
        /\ g1 = (IF g[e][1] = p THEN t1 + 1 ELSE t1)
    BY <2>1
  <2>3. /\ b2 \in Nat /\ t2 = (IF g[d][2] = p THEN b2 + 1 ELSE b2)
        /\ h2 = (IF h[d][2] = p THEN b2 + 1 ELSE b2)
        /\ g2 = (IF g[e][2] = p THEN t2 + 1 ELSE t2)
    BY <2>1
  <2> HIDE DEF b1, b2, h1, h2, g1, g2, t1, t2
  <2>4. h2 - h1 = g2 - g1
    BY <1>3, <2>2, <2>3
  <2> QED BY <2>4 DEF Net, h1, h2, g1, g2
<1> QED BY <1>2, <1>4

\* The hops of ways, by the way and the place in it.
Places(rows) == {e \in Nat \X Nat : e[1] \in DOMAIN rows /\ e[2] \in 1 .. Len(rows[e[1]]) - 1}
HopsOf(rows) == [e \in Places(rows) |-> <<rows[e[1]][e[2]], rows[e[1]][e[2] + 1]>>]

\* What Combine does with the ways i and j.
BlotAt(b, x) == b[0][NPoints - x] > 0

JoinAt(b, acc, i, j) ==
    IF /\ i < j /\ j <= Len(acc)
       /\ acc[i] # <<>> /\ acc[j] # <<>>
       /\ Last(acc[i]) = acc[j][1]
    THEN [acc EXCEPT ![j] = <<>>,
                     ![i] = IF b[0][NPoints - Last(acc[i])] > 0
                            THEN Append(acc[i], Last(acc[j]))
                            ELSE Append(Front(acc[i]), Last(acc[j]))]
    ELSE acc

\* The way w is r with y after it, or at its end.
Lengthened(w, r, y) ==
    /\ w \in Seq(Int) /\ Len(w) = Len(r) + 1 /\ w[Len(r) + 1] = y
    /\ \A h \in 1..Len(r) : w[h] = r[h]

Redirected(w, r, y) ==
    /\ w \in Seq(Int) /\ Len(w) = Len(r) /\ w[Len(r)] = y
    /\ \A h \in 1 .. Len(r) - 1 : w[h] = r[h]

LEMMA IntsAreList ==
  ASSUME NEW q \in Seq(Int)
  PROVE  /\ IsList(q) /\ Len(q) \in Nat /\ DOMAIN q = 1..Len(q)
         /\ \A k \in 1..Len(q) : q[k] \in Int
         /\ q # <<>> => Len(q) > 0
BY SeqOfRange, LenProperties, ElementOfSeq, EmptySeq DEF IsList

LEMMA NotEmpty == ASSUME NEW q \in Seq(Int), Len(q) > 0 PROVE q # <<>>
BY EmptySeq

LEMMA WayEnds ==
  ASSUME NEW r \in Seq(Int), Len(r) > 0, NEW y \in Int
  PROVE  /\ Last(r) = r[Len(r)]
         /\ Lengthened(Append(r, y), r, y) /\ Redirected(Append(Front(r), y), r, y)
<1>1. IsList(r) /\ Len(r) \in Nat /\ r # <<>>
  BY IntsAreList, EmptySeq
<1>2. Lengthened(Append(r, y), r, y)
  BY AppendProperties DEF Lengthened
<1>3. Redirected(Append(Front(r), y), r, y)
  <2> DEFINE f == Front(r)
  <2>1. IsList(f) /\ DOMAIN f = 1 .. Len(r) - 1 /\ \A k \in 1 .. Len(r) - 1 : f[k] = r[k]
    BY <1>1, PartsOfList
  <2>2. \A k \in 1 .. Len(r) - 1 : r[k] \in Int
    BY <1>1, ElementOfSeq
  <2> HIDE DEF f
  <2>3. Len(f) = Len(r) - 1
    BY <1>1, <2>1, LenProperties DEF IsList
  <2>4. f \in Seq(Int)
    BY <2>1, <2>2, SeqMonotonic DEF IsList, Range
  <2> DEFINE w == Append(f, y)
  <2>5. w \in Seq(Int) /\ Len(w) = Len(f) + 1 /\ w[Len(f) + 1] = y /\ \A h \in 1..Len(f) : w[h] = f[h]
    BY <2>4, AppendProperties
  <2> HIDE DEF w
  <2> DEFINE l == Len(r)
             k == Len(f)
  <2>7. l \in Nat /\ k = l - 1 /\ k + 1 = l
    BY <1>1, <2>3
  <2>8. Len(w) = k + 1 /\ w[k + 1] = y /\ \A h \in 1..k : w[h] = f[h]
    BY <2>5
  <2>9. \A h \in 1 .. l - 1 : f[h] = r[h]
    BY <2>1
  <2> HIDE DEF l, k
  <2>10. Len(w) = l /\ w[l] = y /\ \A h \in 1 .. l - 1 : w[h] = r[h]
    BY <2>7, <2>8, <2>9
  <2>6. Redirected(w, r, y)
    BY <2>5, <2>10 DEF Redirected, l
  <2> QED BY <2>6 DEF w, f
<1>4. Last(r) = r[Len(r)]
  BY DEF Last
<1> QED BY <1>2, <1>3, <1>4

\* The ways i and j joined, and the others left.
JoinMakes(new, acc, b, i, j) ==
    /\ new \in [DOMAIN acc -> Seq(Int)] /\ new[j] = <<>>
    /\ \A m \in DOMAIN acc \ {i, j} : new[m] = acc[m]
    /\ BlotAt(b, acc[j][1]) => Lengthened(new[i], acc[i], acc[j][2])
    /\ ~BlotAt(b, acc[j][1]) => Redirected(new[i], acc[i], acc[j][2])

LEMMA JoinMakesWay ==
  ASSUME NEW n \in Nat, NEW acc \in [1..n -> Seq(Int)], NEW b, NEW i \in 1..n, NEW j \in 1..n, i < j,
         Len(acc[i]) > 0, Len(acc[j]) = 2, acc[i][Len(acc[i])] = acc[j][1]
  PROVE  JoinMakes(JoinAt(b, acc, i, j), acc, b, i, j)
<1> DEFINE r == acc[i]
           s == acc[j]
           y == s[2]
           long == Append(r, y)
           other == Append(Front(r), y)
           w == IF BlotAt(b, s[1]) THEN long ELSE other
<1>1. r \in Seq(Int) /\ s \in Seq(Int) /\ y \in Int /\ Len(acc) = n
  <2>1. acc = [k \in 1..n |-> acc[k]]
    OBVIOUS
  <2>2. Len(acc) = n
    BY <2>1, FunctionIsList
  <2>3. r \in Seq(Int) /\ s \in Seq(Int)
    OBVIOUS
  <2>4. 2 \in 1..Len(s)
    OBVIOUS
  <2>5. y \in Int
    BY <2>3, <2>4, ElementOfSeq
  <2> QED BY <2>2, <2>3, <2>5
<1>2. Last(r) = s[1] /\ Last(s) = y /\ r # <<>> /\ s # <<>>
  <2>1. Last(r) = r[Len(r)] /\ Last(s) = s[Len(s)]
    BY DEF Last
  <2>2. r # <<>> /\ s # <<>>
    <3>1. Len(r) > 0 /\ Len(s) > 0
      OBVIOUS
    <3> HIDE DEF r, s
    <3> QED BY <1>1, <3>1, NotEmpty
  <2> QED BY <2>1, <2>2
<1>3. Lengthened(long, r, y) /\ Redirected(other, r, y)
  BY <1>1, WayEnds
<1>4. long \in Seq(Int) /\ other \in Seq(Int)
  BY <1>3 DEF Lengthened, Redirected
<1>5. JoinAt(b, acc, i, j) = [acc EXCEPT ![j] = <<>>, ![i] = w]
  <2>1. i < j /\ j <= Len(acc)
    BY <1>1
  <2>2. w = IF b[0][NPoints - Last(r)] > 0 THEN Append(r, Last(s)) ELSE Append(Front(r), Last(s))
    BY <1>2, Zenon DEF BlotAt
  <2> HIDE DEF w
  <2>3. JoinAt(b, acc, i, j) = IF i < j /\ j <= Len(acc) /\ r # <<>> /\ s # <<>> /\ Last(r) = s[1]
                               THEN [acc EXCEPT ![j] = <<>>, ![i] = w] ELSE acc
    BY <2>2, Zenon DEF JoinAt
  <2> QED BY <1>2, <2>1, <2>3
<1> DEFINE new == [acc EXCEPT ![j] = <<>>, ![i] = w]
<1>6. w \in Seq(Int) /\ <<>> \in Seq(Int)
  <2> HIDE DEF long, other
  <2> QED BY <1>4, EmptySeq
<1> HIDE DEF w
<1>7. /\ new \in [1..n -> Seq(Int)] /\ new[j] = <<>> /\ new[i] = w
      /\ \A m \in 1..n \ {i, j} : new[m] = acc[m]
  <2> DEFINE one == [acc EXCEPT ![j] = <<>>]
  <2>1. one \in [1..n -> Seq(Int)] /\ one[j] = <<>> /\ \A m \in 1..n \ {j} : one[m] = acc[m]
    BY <1>6
  <2>2. new = [one EXCEPT ![i] = w]
    OBVIOUS
  <2> HIDE DEF one, new
  <2>3. new \in [1..n -> Seq(Int)] /\ new[i] = w /\ \A m \in 1..n : m # i => new[m] = one[m]
    BY <1>6, <2>1, <2>2
  <2>4. i \in Int /\ j \in 1..n /\ j # i
    OBVIOUS
  <2>5. new[j] = <<>>
    BY <2>1, <2>3, <2>4
  <2> QED BY <2>1, <2>3, <2>4, <2>5
<1> HIDE DEF new
<1>8. JoinMakes(new, acc, b, i, j)
  <2>1. BlotAt(b, s[1]) => Lengthened(w, r, y)
    <3> HIDE DEF long, other
    <3> QED BY <1>3 DEF w
  <2>2. ~BlotAt(b, s[1]) => Redirected(w, r, y)
    <3> HIDE DEF long, other
    <3> QED BY <1>3 DEF w
  <2> QED BY <1>7, <2>1, <2>2 DEF JoinMakes
<1> QED BY <1>5, <1>8 DEF new

LEMMA PairIs ==
  ASSUME NEW m \in Nat, NEW k \in Nat
  PROVE  <<m, k>> \in Nat \X Nat /\ <<m, k>>[1] = m /\ <<m, k>>[2] = k
OBVIOUS

LEMMA PlaceIs ==
  ASSUME NEW rows, NEW e
  PROVE  e \in Places(rows) <=>
           e \in Nat \X Nat /\ e[1] \in DOMAIN rows /\ e[2] \in 1 .. Len(rows[e[1]]) - 1
BY DEF Places

LEMMA HopIsThere ==
  ASSUME NEW rows, NEW m \in Nat, m \in DOMAIN rows, NEW k \in 1 .. Len(rows[m]) - 1, Len(rows[m]) \in Nat
  PROVE  /\ <<m, k>> \in Places(rows)
         /\ HopsOf(rows)[<<m, k>>] = <<rows[m][k], rows[m][k + 1]>>
<1>1. k \in Nat
  OBVIOUS
<1>2. <<m, k>> \in Places(rows)
  BY <1>1 DEF Places
<1> QED BY <1>2 DEF HopsOf

\* Of two ways that meet, the second of one hop, the hop goes to the first (Join).
Joinable(acc, n, i, j) ==
    /\ acc \in [1..n -> Seq(Int)] /\ i \in 1..n /\ j \in 1..n /\ i < j
    /\ Len(acc[i]) >= 2 /\ Len(acc[j]) = 2 /\ acc[i][Len(acc[i])] = acc[j][1]

LEMMA JoinedPlaces ==
  ASSUME NEW n \in Nat, NEW acc, NEW i, NEW j, Joinable(acc, n, i, j), NEW b, NEW new, JoinMakes(new, acc, b, i, j)
  PROVE  /\ BlotAt(b, acc[j][1]) => Moves(HopsOf(acc), HopsOf(new), <<j, 1>>, <<i, Len(acc[i])>>)
         /\ ~BlotAt(b, acc[j][1]) => Merges(HopsOf(acc), HopsOf(new), <<i, Len(acc[i]) - 1>>, <<j, 1>>)
<1> DEFINE a == Len(acc[i])
           P == Places(acc)
           Q == Places(new)
           g == HopsOf(acc)
           h == HopsOf(new)
           y == acc[j][2]
           w == new[i]
           r == acc[i]
<1>1. /\ acc \in [1..n -> Seq(Int)] /\ new \in [1..n -> Seq(Int)]
      /\ DOMAIN acc = 1..n /\ DOMAIN new = 1..n /\ i \in 1..n /\ j \in 1..n /\ i # j
      /\ i \in Nat /\ j \in Nat
  <2>1. acc \in [1..n -> Seq(Int)] /\ i \in 1..n /\ j \in 1..n /\ i < j
    BY DEF Joinable
  <2>2. DOMAIN acc = 1..n /\ new \in [DOMAIN acc -> Seq(Int)]
    BY <2>1 DEF JoinMakes
  <2>3. new \in [1..n -> Seq(Int)]
    BY <2>2
  <2> QED BY <2>1, <2>2, <2>3
<1>2. ASSUME NEW m \in 1..n PROVE Len(acc[m]) \in Nat /\ Len(new[m]) \in Nat
  BY <1>1, IntsAreList
<1>3. /\ Len(new[j]) = 0 /\ Len(acc[j]) = 2 /\ a \in Nat /\ a >= 2 /\ r[a] = acc[j][1]
      /\ \A m \in 1..n : m # i /\ m # j => new[m] = acc[m]
  <2>1. new[j] = <<>>
    BY DEF JoinMakes
  <2>2. Len(new[j]) = 0
    BY <2>1, EmptySeq
  <2> QED BY <1>1, <1>2, <2>2 DEF Joinable, JoinMakes
<1>4. DOMAIN g = P /\ DOMAIN h = Q
  BY DEF HopsOf
<1>5. \A e \in P : g[e] = <<acc[e[1]][e[2]], acc[e[1]][e[2] + 1]>>
  BY DEF HopsOf
<1>6. \A e \in Q : h[e] = <<new[e[1]][e[2]], new[e[1]][e[2] + 1]>>
  BY DEF HopsOf
<1>7. <<j, 1>> \in P /\ g[<<j, 1>>] = <<acc[j][1], y>>
  <2>1. 1 \in 1 .. Len(acc[j]) - 1 /\ 1 + 1 = 2
    BY <1>3
  <2>2. j \in DOMAIN acc /\ j \in Nat /\ Len(acc[j]) \in Nat
    BY <1>1, <1>2
  <2>3. <<j, 1>> \in Places(acc) /\ HopsOf(acc)[<<j, 1>>] = <<acc[j][1], acc[j][1 + 1]>>
    BY <2>1, <2>2, HopIsThere
  <2> QED BY <2>1, <2>3
<1>8. \A e : e \in P <=> e \in Nat \X Nat /\ e[1] \in 1..n /\ e[2] \in 1 .. Len(acc[e[1]]) - 1
  BY <1>1, PlaceIs
<1>9. \A e : e \in Q <=> e \in Nat \X Nat /\ e[1] \in 1..n /\ e[2] \in 1 .. Len(new[e[1]]) - 1
  BY <1>1, PlaceIs
<1>10. \A e \in Nat \X Nat : e[1] = j => (e \in P <=> e = <<j, 1>>) /\ e \notin Q
  <2> SUFFICES ASSUME NEW e \in Nat \X Nat, e[1] = j PROVE (e \in P <=> e = <<j, 1>>) /\ e \notin Q
    OBVIOUS
  <2>1. e = <<e[1], e[2]>> /\ e[2] \in Nat
    OBVIOUS
  <2>2. e \in P <=> e[2] = 1
    <3>1. e \in P <=> e[2] \in 1 .. Len(acc[j]) - 1
      BY <1>1, <1>8
    <3>2. Len(acc[j]) - 1 = 1
      BY <1>3
    <3>3. e[2] \in 1..1 <=> e[2] = 1
      BY <2>1
    <3>4. e \in P <=> e[2] \in 1..1
      BY <3>1, <3>2
    <3> QED BY <3>3, <3>4
  <2>3. e \notin Q
    BY <1>3, <1>9
  <2> QED BY <2>1, <2>2, <2>3
<1>11. \A e \in Nat \X Nat : e[1] # i /\ e[1] # j => (e \in Q <=> e \in P) /\ (e \in P => h[e] = g[e])
  BY <1>3, <1>5, <1>6, <1>8, <1>9
<1> HIDE DEF P, Q, g, h, y, a
<1>12. ASSUME BlotAt(b, acc[j][1]) PROVE Moves(g, h, <<j, 1>>, <<i, a>>)
  <2>1. Len(w) = a + 1 /\ w[a + 1] = y /\ \A k \in 1..a : w[k] = r[k]
    BY <1>12 DEF JoinMakes, Lengthened, a, y
  <2>2. \A e \in Nat \X Nat : e[1] = i => (e \in P <=> e[2] \in 1 .. a - 1) /\ (e \in Q <=> e[2] \in 1..a)
    <3> SUFFICES ASSUME NEW e \in Nat \X Nat, e[1] = i
                 PROVE  (e \in P <=> e[2] \in 1 .. a - 1) /\ (e \in Q <=> e[2] \in 1..a)
      OBVIOUS
    <3>1. e \in P <=> e[2] \in 1 .. Len(acc[i]) - 1
      BY <1>1, <1>8
    <3>2. e \in Q <=> e[2] \in 1 .. Len(new[i]) - 1
      BY <1>1, <1>9
    <3>3. Len(new[i]) - 1 = a
      BY <1>3, <2>1
    <3> QED BY <3>1, <3>2, <3>3 DEF a
  <2>3. \A e \in Nat \X Nat : e[1] = i /\ e \in P => h[e] = g[e]
    <3> SUFFICES ASSUME NEW e \in Nat \X Nat, e[1] = i, e \in P PROVE h[e] = g[e]
      OBVIOUS
    <3>1. e[2] \in 1..a /\ e[2] + 1 \in 1..a /\ e \in Q
      BY <1>3, <2>2
    <3> QED BY <1>5, <1>6, <2>1, <3>1
  <2>4. <<i, a>> \in Q /\ <<i, a>> \notin P /\ <<i, a>> \in Nat \X Nat
    <3>1. <<i, a>> \in Nat \X Nat /\ <<i, a>>[1] = i /\ <<i, a>>[2] = a
      BY <1>1, <1>3
    <3> QED BY <1>3, <2>2, <3>1
  <2>5. h[<<i, a>>] = g[<<j, 1>>]
    <3>1. h[<<i, a>>] = <<w[a], w[a + 1]>>
      BY <1>6, <2>4
    <3>2. a \in 1..a
      BY <1>3
    <3> QED BY <1>3, <1>7, <2>1, <3>1, <3>2
  <2>6. Q = (P \ {<<j, 1>>}) \cup {<<i, a>>}
    <3>1. ASSUME NEW e PROVE e \in Q <=> (e \in P /\ e # <<j, 1>>) \/ e = <<i, a>>
      <4>1. CASE e \notin Nat \X Nat
        BY <1>8, <1>9, <2>4, <4>1
      <4>2. CASE e \in Nat \X Nat /\ e[1] = j
        BY <1>1, <1>10, <4>2
      <4>3. CASE e \in Nat \X Nat /\ e[1] = i
        <5>1. e = <<i, e[2]>> /\ e[2] \in Nat /\ e # <<j, 1>>
          BY <1>1, <4>3
        <5>2. e[2] \in 1..a <=> e[2] \in 1 .. a - 1 \/ e[2] = a
          BY <1>3, <5>1
        <5>3. e = <<i, a>> <=> e[2] = a
          BY <5>1
        <5> QED BY <2>2, <4>3, <5>1, <5>2, <5>3
      <4>4. CASE e \in Nat \X Nat /\ e[1] # i /\ e[1] # j
        BY <1>11, <4>4
      <4> QED BY <4>1, <4>2, <4>3, <4>4
    <3> QED BY <3>1
  <2>7. \A e \in P \ {<<j, 1>>} : h[e] = g[e]
    <3> SUFFICES ASSUME NEW e \in P, e # <<j, 1>> PROVE h[e] = g[e]
      OBVIOUS
    <3>1. e \in Nat \X Nat /\ e[1] # j
      BY <1>8, <1>10
    <3> QED BY <1>11, <2>3, <3>1
  <2> QED BY <1>4, <1>7, <2>4, <2>5, <2>6, <2>7 DEF Moves
<1>13. ASSUME ~BlotAt(b, acc[j][1]) PROVE Merges(g, h, <<i, a - 1>>, <<j, 1>>)
  <2>1. Len(w) = a /\ w[a] = y /\ \A k \in 1 .. a - 1 : w[k] = r[k]
    BY <1>13 DEF JoinMakes, Redirected, a, y
  <2>2. \A e \in Nat \X Nat : e[1] = i => (e \in P <=> e[2] \in 1 .. a - 1) /\ (e \in Q <=> e \in P)
    <3> SUFFICES ASSUME NEW e \in Nat \X Nat, e[1] = i
                 PROVE  (e \in P <=> e[2] \in 1 .. a - 1) /\ (e \in Q <=> e \in P)
      OBVIOUS
    <3>1. e \in P <=> e[2] \in 1 .. Len(acc[i]) - 1
      BY <1>1, <1>8
    <3>2. e \in Q <=> e[2] \in 1 .. Len(new[i]) - 1
      BY <1>1, <1>9
    <3> QED BY <2>1, <3>1, <3>2 DEF a
  <2> DEFINE d == <<i, a - 1>>
  <2>3. d \in Nat \X Nat /\ d[1] = i /\ d[2] = a - 1 /\ d # <<j, 1>>
    <3>1. i \in Nat /\ a - 1 \in Nat /\ i # j
      BY <1>1, <1>3
    <3>2. d \in Nat \X Nat /\ d[1] = i /\ d[2] = a - 1
      BY <3>1, PairIs
    <3>3. <<j, 1>>[1] = j
      OBVIOUS
    <3> HIDE DEF d
    <3> QED BY <3>1, <3>2, <3>3
  <2>4. d \in P /\ d \in Q
    BY <1>3, <2>2, <2>3
  <2>5. \A e \in Nat \X Nat : e[1] = i /\ e \in P /\ e # d => h[e] = g[e]
    <3> SUFFICES ASSUME NEW e \in Nat \X Nat, e[1] = i, e \in P, e # d PROVE h[e] = g[e]
      OBVIOUS
    <3>1. e = <<i, e[2]>>
      OBVIOUS
    <3>2. e[2] # a - 1
      BY <3>1
    <3>3. e[2] \in 1 .. a - 1 /\ e[2] + 1 \in 1 .. a - 1 /\ e \in Q
      BY <1>3, <2>2, <3>2
    <3> QED BY <1>5, <1>6, <2>1, <3>3
  <2>6. Q = P \ {<<j, 1>>}
    <3>1. ASSUME NEW e PROVE e \in Q <=> (e \in P /\ e # <<j, 1>>)
      <4>1. CASE e \notin Nat \X Nat
        BY <1>8, <1>9, <4>1
      <4>2. CASE e \in Nat \X Nat /\ e[1] = j
        BY <1>10, <4>2
      <4>3. CASE e \in Nat \X Nat /\ e[1] = i
        BY <1>1, <2>2, <4>3
      <4>4. CASE e \in Nat \X Nat /\ e[1] # i /\ e[1] # j
        BY <1>11, <4>4
      <4> QED BY <4>1, <4>2, <4>3, <4>4
    <3> QED BY <3>1
  <2>7. g[d] = <<r[a - 1], r[a]>> /\ h[d] = <<r[a - 1], y>>
    <3>1. a - 1 \in 1 .. a - 1 /\ (a - 1) + 1 = a
      BY <1>3
    <3>2. g[d] = <<r[a - 1], r[(a - 1) + 1]>> /\ h[d] = <<w[a - 1], w[(a - 1) + 1]>>
      BY <1>5, <1>6, <2>4
    <3> QED BY <2>1, <3>1, <3>2
  <2>8. \A e \in Q : e # d => h[e] = g[e]
    <3> SUFFICES ASSUME NEW e \in Q, e # d PROVE h[e] = g[e]
      OBVIOUS
    <3>1. e \in P /\ e \in Nat \X Nat /\ e[1] # j
      BY <1>8, <1>10, <2>6
    <3> QED BY <1>11, <2>5, <3>1
  <2> HIDE DEF d
  <2>9. Merges(g, h, d, <<j, 1>>)
    BY <1>3, <1>4, <1>7, <2>3, <2>4, <2>6, <2>7, <2>8 DEF Merges
  <2> QED BY <2>9 DEF d
<1> QED BY <1>12, <1>13 DEF g, h, a

Outs(g) == {g[e][1] : e \in DOMAIN g}
Ins(g)  == {g[e][2] : e \in DOMAIN g}

\* Hops h that do to the points what those of g do, and come from and to the same ones.
Amounts(h, g, b) ==
    /\ IsFiniteSet(DOMAIN h) /\ Cardinality(DOMAIN h) <= Cardinality(DOMAIN g)
    /\ \A p : Net(h, p) = Net(g, p)
    /\ \A e \in DOMAIN h : h[e][1] \in Outs(g) /\ h[e][2] \in Ins(g) /\ h[e][2] < h[e][1]
    /\ \A p \in Ins(g) : BlotAt(b, p) => \E e \in DOMAIN h : h[e][2] = p

LEMMA MovedAmounts ==
  ASSUME NEW f, NEW b, NEW g, Amounts(g, f, b), NEW h, NEW d, NEW e, Moves(g, h, d, e)
  PROVE  Amounts(h, f, b)
<1>1. /\ IsFiniteSet(DOMAIN h) /\ Cardinality(DOMAIN h) = Cardinality(DOMAIN g)
      /\ \A p : Net(h, p) = Net(g, p)
  BY MovedNet DEF Amounts
<1>2. \A x \in DOMAIN h : \E z \in DOMAIN g : h[x] = g[z]
  BY DEF Moves
<1>3. \A z \in DOMAIN g : \E x \in DOMAIN h : h[x] = g[z]
  BY DEF Moves
<1>4. \A x \in DOMAIN h : h[x][1] \in Outs(f) /\ h[x][2] \in Ins(f) /\ h[x][2] < h[x][1]
  BY <1>2 DEF Amounts
<1>5. \A p \in Ins(f) : BlotAt(b, p) => \E x \in DOMAIN h : h[x][2] = p
  BY <1>3 DEF Amounts
<1> QED BY <1>1, <1>4, <1>5 DEF Amounts

LEMMA MergedAmounts ==
  ASSUME NEW f, NEW b, NEW g, Amounts(g, f, b), NEW h, NEW d, NEW e, Merges(g, h, d, e),
         ~BlotAt(b, g[e][1]), Outs(f) \subseteq Int, Ins(f) \subseteq Int, Cardinality(DOMAIN f) \in Nat
  PROVE  Amounts(h, f, b)
<1>1. /\ IsFiniteSet(DOMAIN h) /\ Cardinality(DOMAIN h) <= Cardinality(DOMAIN g)
      /\ \A p : Net(h, p) = Net(g, p)
  BY MergedNet DEF Amounts
<1>2. Cardinality(DOMAIN h) <= Cardinality(DOMAIN f)
  BY <1>1, FS_CardinalityType DEF Amounts
<1>3. /\ d \in DOMAIN g /\ e \in DOMAIN g /\ d # e /\ DOMAIN h = DOMAIN g \ {e}
      /\ \A x \in DOMAIN h : x # d => h[x] = g[x]
      /\ g[d][2] = g[e][1] /\ h[d][1] = g[d][1] /\ h[d][2] = g[e][2]
  BY DEF Merges
<1>4. \A x \in DOMAIN g : g[x][1] \in Outs(f) /\ g[x][2] \in Ins(f) /\ g[x][2] < g[x][1]
  BY DEF Amounts
<1>5. ASSUME NEW x \in DOMAIN h PROVE h[x][1] \in Outs(f) /\ h[x][2] \in Ins(f) /\ h[x][2] < h[x][1]
  <2>1. CASE x # d
    BY <1>3, <1>4, <2>1
  <2>2. CASE x = d
    <3>1. /\ g[d][1] \in Outs(f) /\ g[e][2] \in Ins(f) /\ g[d][2] < g[d][1] /\ g[e][2] < g[e][1]
          /\ g[d][1] \in Int /\ g[d][2] \in Int /\ g[e][1] \in Int /\ g[e][2] \in Int
      BY <1>3, <1>4
    <3>2. g[e][2] < g[d][1]
      BY <1>3, <3>1
    <3> QED BY <1>3, <2>2, <3>1, <3>2
  <2> QED BY <2>1, <2>2
<1>6. ASSUME NEW p \in Ins(f), BlotAt(b, p) PROVE \E x \in DOMAIN h : h[x][2] = p
  <2>1. PICK z \in DOMAIN g : g[z][2] = p
    BY <1>6 DEF Amounts
  <2>2. CASE z = e
    BY <1>3, <2>1, <2>2
  <2>3. CASE z = d
    BY <1>3, <1>6, <2>1, <2>3
  <2>4. CASE z # d /\ z # e
    BY <1>3, <2>1, <2>4
  <2> QED BY <2>2, <2>3, <2>4
<1> QED BY <1>1, <1>2, <1>5, <1>6 DEF Amounts

\* The ways after k of the pairs have been looked at.
Joined(acc, g, b, n, k) ==
    /\ acc \in [1..n -> Seq(Int)] /\ Amounts(HopsOf(acc), g, b)
    /\ \A m \in 1..n : Len(acc[m]) # 1 /\ (4 * (m - 1) >= k => Len(acc[m]) \in {0, 2})

PairI(k) == 1 + ((k - 1) \div 4)
PairJ(k) == 1 + ((k - 1) % 4)

LEMMA JoinKeepsJoined ==
  ASSUME NEW n \in Nat, NEW g, NEW b, NEW k \in 1..16, NEW acc, Joined(acc, g, b, n, k - 1),
         Outs(g) \subseteq Int, Ins(g) \subseteq Int, Cardinality(DOMAIN g) \in Nat
  PROVE  Joined(JoinAt(b, acc, PairI(k), PairJ(k)), g, b, n, k)
<1> DEFINE i == PairI(k)
           j == PairJ(k)
           new == JoinAt(b, acc, i, j)
           joins == /\ i < j /\ j <= Len(acc)
                    /\ acc[i] # <<>> /\ acc[j] # <<>>
                    /\ Last(acc[i]) = acc[j][1]
<1>1. i \in 1..4 /\ j \in 1..4 /\ 4 * i >= k /\ 4 * (i - 1) < k
  BY DEF PairI, PairJ
<1>2. /\ acc \in [1..n -> Seq(Int)] /\ Amounts(HopsOf(acc), g, b)
      /\ \A m \in 1..n : Len(acc[m]) # 1 /\ (4 * (m - 1) >= k - 1 => Len(acc[m]) \in {0, 2})
  BY DEF Joined
<1>3. ASSUME NEW m \in 1..n
      PROVE  acc[m] \in Seq(Int) /\ Len(acc[m]) \in Nat /\ (acc[m] # <<>> => Len(acc[m]) > 0)
  BY <1>2, IntsAreList
<1>4. Len(acc) = n
  BY <1>2, FunctionIsList
<1> HIDE DEF i, j
<1>5. CASE ~joins
  <2>1. new = acc
    BY <1>5, Zenon DEF JoinAt
  <2>2. \A m \in 1..n : 4 * (m - 1) >= k => 4 * (m - 1) >= k - 1
    OBVIOUS
  <2> HIDE DEF new, joins
  <2>3. Joined(new, g, b, n, k)
    BY <1>2, <2>1, <2>2 DEF Joined
  <2> QED BY <2>3 DEF new, i, j
<1>6. CASE joins
  <2>1. i \in 1..n /\ j \in 1..n /\ i < j
    BY <1>1, <1>4, <1>6
  <2>2. 4 * (j - 1) >= k - 1
    BY <1>1, <2>1
  <2>3. Len(acc[i]) >= 2 /\ Len(acc[j]) = 2
    <3> DEFINE u == Len(acc[i])
               v == Len(acc[j])
    <3>1. u \in Nat /\ u > 0 /\ v > 0
      BY <1>3, <1>6, <2>1
    <3>2. u # 1
      BY <1>2, <2>1
    <3>3. v \in {0, 2}
      BY <1>2, <2>1, <2>2
    <3> HIDE DEF u, v
    <3>4. u >= 2 /\ v = 2
      BY <3>1, <3>2, <3>3
    <3> QED BY <3>4 DEF u, v
  <2>4. acc[i][Len(acc[i])] = acc[j][1]
    BY <1>6 DEF Last
  <2> HIDE DEF joins, new
  <2>5. Joinable(acc, n, i, j)
    BY <1>2, <2>1, <2>3, <2>4 DEF Joinable
  <2>6. JoinMakes(new, acc, b, i, j)
    <3>1. Len(acc[i]) > 0
      BY <1>3, <2>1, <2>3
    <3> QED BY <1>2, <2>1, <2>3, <2>4, <3>1, JoinMakesWay DEF new
  <2>7. Amounts(HopsOf(new), g, b)
    <3> DEFINE h == HopsOf(acc)
               o == HopsOf(new)
               e == <<j, 1>>
    <3>1. Amounts(h, g, b)
      BY <1>2
    <3>2. CASE BlotAt(b, acc[j][1])
      <4> DEFINE d == <<i, Len(acc[i])>>
      <4>1. Moves(h, o, e, d)
        BY <2>5, <2>6, <3>2, JoinedPlaces
      <4> HIDE DEF h, o, d, e
      <4>2. Amounts(o, g, b)
        BY <3>1, <4>1, MovedAmounts
      <4> QED BY <4>2 DEF o
    <3>3. CASE ~BlotAt(b, acc[j][1])
      <4> DEFINE d == <<i, Len(acc[i]) - 1>>
      <4>1. Merges(h, o, d, e)
        BY <2>5, <2>6, <3>3, JoinedPlaces
      <4>2. h[e] = <<acc[j][1], acc[j][2]>>
        <5>1. j \in Nat /\ j \in DOMAIN acc /\ 1 \in 1 .. Len(acc[j]) - 1 /\ Len(acc[j]) \in Nat /\ 1 + 1 = 2
          BY <1>2, <2>1, <2>3
        <5>2. HopsOf(acc)[<<j, 1>>] = <<acc[j][1], acc[j][1 + 1]>>
          BY <5>1, HopIsThere
        <5> QED BY <5>1, <5>2
      <4>3. ~BlotAt(b, h[e][1])
        BY <3>3, <4>2
      <4> HIDE DEF h, o, d, e
      <4>4. Amounts(o, g, b)
        BY <3>1, <4>1, <4>3, MergedAmounts
      <4> QED BY <4>4 DEF o
    <3> QED BY <3>2, <3>3
  <2>8. ASSUME NEW m \in 1..n
        PROVE  Len(new[m]) # 1 /\ (4 * (m - 1) >= k => Len(new[m]) \in {0, 2})
    <3>1. CASE m = j
      <4>1. new[m] = <<>>
        BY <2>6, <3>1 DEF JoinMakes
      <4>2. Len(new[m]) = 0
        BY <4>1, EmptySeq
      <4> QED BY <4>2
    <3>2. CASE m = i
      <4>1. Len(new[i]) \in {Len(acc[i]), Len(acc[i]) + 1}
        BY <2>6 DEF JoinMakes, Lengthened, Redirected
      <4>2. Len(acc[i]) \in Nat
        BY <1>3, <2>1
      <4>3. ~(4 * (m - 1) >= k)
        BY <1>1, <3>2
      <4> DEFINE u == Len(acc[i])
                 v == Len(new[i])
      <4>4. u \in Nat /\ u >= 2 /\ v \in {u, u + 1}
        BY <2>3, <4>1, <4>2
      <4> HIDE DEF u, v
      <4>5. v # 1
        BY <4>4
      <4>6. Len(new[m]) # 1
        BY <3>2, <4>5 DEF v
      <4> QED BY <4>3, <4>6
    <3>3. CASE m # i /\ m # j
      <4>1. new[m] = acc[m]
        BY <1>2, <2>6, <3>3 DEF JoinMakes
      <4>2. 4 * (m - 1) >= k => 4 * (m - 1) >= k - 1
        OBVIOUS
      <4> QED BY <1>2, <4>1, <4>2
    <3> QED BY <3>1, <3>2, <3>3
  <2>9. new \in [1..n -> Seq(Int)]
    BY <1>2, <2>6 DEF JoinMakes
  <2>10. Joined(new, g, b, n, k)
    BY <2>7, <2>8, <2>9 DEF Joined
  <2> QED BY <2>10 DEF new, i, j
<1> QED BY <1>5, <1>6

JoinPairs == [k \in 1..16 |-> <<1 + ((k - 1) \div 4), 1 + ((k - 1) % 4)>>]

\* The pairs looked at, one after another.
JoinedBy(f, b, rows) ==
    /\ f[0] = rows /\ f[16] = Combine(b, rows)
    /\ \A k \in 1..16 : f[k] = JoinAt(b, f[k - 1], PairI(k), PairJ(k))

LEMMA JoinStays ==
  ASSUME NEW n \in Nat, NEW acc \in [1..n -> Seq(Int)], NEW b, NEW i \in 1..4, NEW j \in 1..4
  PROVE  JoinAt(b, acc, i, j) \in [1..n -> Seq(Int)]
<1> DEFINE joins == /\ i < j /\ j <= Len(acc)
                    /\ acc[i] # <<>> /\ acc[j] # <<>>
                    /\ Last(acc[i]) = acc[j][1]
           w == IF b[0][NPoints - Last(acc[i])] > 0
                THEN Append(acc[i], Last(acc[j]))
                ELSE Append(Front(acc[i]), Last(acc[j]))
           new == JoinAt(b, acc, i, j)
<1>1. new = IF joins THEN [acc EXCEPT ![j] = <<>>, ![i] = w] ELSE acc
  BY Zenon DEF JoinAt
<1>2. CASE ~joins
  BY <1>1, <1>2
<1>3. CASE joins
  <2>1. Len(acc) = n
    BY FunctionIsList
  <2>2. i \in 1..n /\ j \in 1..n /\ acc[i] \in Seq(Int) /\ acc[j] \in Seq(Int)
        /\ acc[i] # <<>> /\ acc[j] # <<>>
    BY <1>3, <2>1
  <2>3. Len(acc[i]) > 0 /\ Last(acc[j]) \in Int
    <3>1. Len(acc[i]) > 0 /\ Len(acc[j]) > 0 /\ Len(acc[j]) \in Nat
      BY <2>2, IntsAreList
    <3>2. Len(acc[j]) \in 1..Len(acc[j])
      BY <3>1
    <3>3. acc[j][Len(acc[j])] \in Int
      BY <2>2, <3>2, ElementOfSeq
    <3> QED BY <3>1, <3>3 DEF Last
  <2>4. w \in Seq(Int)
    <3> DEFINE r == acc[i]
               y == Last(acc[j])
    <3>1. Lengthened(Append(r, y), r, y) /\ Redirected(Append(Front(r), y), r, y)
      BY <2>2, <2>3, WayEnds
    <3> QED BY <3>1 DEF Lengthened, Redirected
  <2>5. <<>> \in Seq(Int)
    BY EmptySeq
  <2> HIDE DEF w, joins
  <2>6. [acc EXCEPT ![j] = <<>>, ![i] = w] \in [1..n -> Seq(Int)]
    BY <2>4, <2>5
  <2> QED BY <1>1, <1>3, <2>6
<1> QED BY <1>2, <1>3

LEMMA CombineFold ==
  ASSUME NEW b, NEW n \in Nat, NEW rows \in [1..n -> Seq(Int)]
  PROVE  \E f : JoinedBy(f, b, rows)
<1> DEFINE D == DOMAIN JoinPairs
           V == [1..n -> Seq(Int)]
           At(acc, ij) == JoinAt(b, acc, ij[1], ij[2])
           P(f) == f = [T \in SUBSET DOMAIN JoinPairs |->
                          IF T = {} THEN rows ELSE At(f[T \ {Max(T)}], JoinPairs[Max(T)])]
           c == CHOOSE f : P(f)
           step == [i \in D |-> [acc \in V |-> At(acc, JoinPairs[i])]]
<1>1. Combine(b, rows) = c[DOMAIN JoinPairs]
  BY Zenon DEF Combine, FoldLeft, MapThenFoldSet, JoinAt, JoinPairs
<1>2. 16 \in Nat /\ D = 1..16
  BY DEF JoinPairs
<1>3. \A i \in D : JoinPairs[i][1] = PairI(i) /\ JoinPairs[i][2] = PairJ(i)
                   /\ PairI(i) \in 1..4 /\ PairJ(i) \in 1..4
  BY DEF JoinPairs, PairI, PairJ
<1>4. ASSUME NEW i \in D, NEW acc \in V PROVE At(acc, JoinPairs[i]) \in V
  <2> DEFINE u == PairI(i)
             v == PairJ(i)
  <2>1. u \in 1..4 /\ v \in 1..4 /\ At(acc, JoinPairs[i]) = JoinAt(b, acc, u, v)
    BY <1>3
  <2> HIDE DEF u, v
  <2>2. JoinAt(b, acc, u, v) \in V
    BY <2>1, JoinStays
  <2> QED BY <2>1, <2>2
<1>0. rows \in V
  OBVIOUS
<1> HIDE DEF V, At
<1>5. step \in [D -> [V -> V]]
  BY <1>4
<1>6. \A i \in D, acc \in V : step[i][acc] = At(acc, JoinPairs[i])
  OBVIOUS
<1> HIDE DEF step
<1>7. \A T \in SUBSET D : T # {} => Max(T) \in D /\ T \ {Max(T)} \in SUBSET D
  BY <1>2, MaxIn
<1>8. P(c)
  <2>1. PICK f : FoldsIn(f, D, V, rows, step)
    <3> HIDE DEF D
    <3> QED BY <1>0, <1>2, <1>5, FoldComputes
  <2>2. ASSUME NEW T \in SUBSET D
        PROVE  f[T] = IF T = {} THEN rows ELSE At(f[T \ {Max(T)}], JoinPairs[Max(T)])
    BY <1>6, <1>7, <2>1 DEF FoldsIn
  <2>3. P(f)
    BY <1>2, <2>1, <2>2 DEF FoldsIn
  <2> HIDE DEF P
  <2> QED BY <2>3
<1> HIDE DEF c
<1>9. Folds(c, D, V, rows, step)
  BY <1>2, <1>6, <1>7, <1>8 DEF Folds
<1> HIDE DEF P, D
<1>10. PICK f : GoesOn(f, 16, D, V, rows, step, c[D])
  BY <1>0, <1>2, <1>5, <1>9, FoldBySteps
<1>11. \A i \in D : f[i] = JoinAt(b, f[i - 1], PairI(i), PairJ(i))
  <2>1. \A i \in D : i - 1 \in 0..16
    BY <1>2
  <2>2. \A i \in D : f[i - 1] \in V
    BY <1>10, <2>1 DEF GoesOn
  <2> QED BY <1>3, <1>6, <1>10, <2>2 DEF GoesOn, At
<1>12. f[16] = Combine(b, rows) /\ f[0] = rows
  BY <1>1, <1>2, <1>10 DEF GoesOn, D
<1> QED BY <1>2, <1>11, <1>12 DEF JoinedBy

LEMMA CombineJoins ==
  ASSUME NEW n \in Nat, NEW g, NEW b, NEW rows, Joined(rows, g, b, n, 0),
         Outs(g) \subseteq Int, Ins(g) \subseteq Int, Cardinality(DOMAIN g) \in Nat
  PROVE  Joined(Combine(b, rows), g, b, n, 16)
<1>1. rows \in [1..n -> Seq(Int)]
  BY DEF Joined
<1>2. PICK f : JoinedBy(f, b, rows)
  BY <1>1, CombineFold
<1> DEFINE A == {k \in Nat : k <= 16 => Joined(f[k], g, b, n, k)}
<1>3. 0 \in A
  BY <1>2 DEF JoinedBy
<1>4. ASSUME NEW k \in Nat, k \in A PROVE k + 1 \in A
  <2> SUFFICES ASSUME k + 1 <= 16 PROVE Joined(f[k + 1], g, b, n, k + 1)
    OBVIOUS
  <2> DEFINE l == k + 1
  <2>1. l \in 1..16 /\ l - 1 = k /\ k <= 16
    OBVIOUS
  <2>2. Joined(f[l - 1], g, b, n, l - 1)
    BY <1>4, <2>1
  <2> HIDE DEF l
  <2>3. f[l] = JoinAt(b, f[l - 1], PairI(l), PairJ(l))
    BY <1>2, <2>1 DEF JoinedBy
  <2>4. Joined(f[l], g, b, n, l)
    BY <2>1, <2>2, <2>3, JoinKeepsJoined
  <2> QED BY <2>4 DEF l
<1>5. Nat \subseteq A
  <2> HIDE DEF A
  <2> QED BY <1>3, <1>4, SetInduction
<1>6. Joined(f[16], g, b, n, 16)
  BY <1>5
<1> QED BY <1>2, <1>6 DEF JoinedBy

---------------------------------------------------------------------------
(* Lists strung together.                                                  *)

\* The places of the first m of the lists ss.
Cells(ss, m) == {e \in Nat \X Nat : e[1] \in 1..m /\ e[2] \in 1..Len(ss[e[1]])}

\* The list q strung together of these: f tells where each element is from.
Flat(q, f, ss, m) ==
    /\ IsList(q) /\ OneForOne(f, 1..Len(q), Cells(ss, m))
    /\ \A t \in 1..Len(q) : q[t] = ss[f[t][1]][f[t][2]]

LEMMA FlatGoesOn ==
  ASSUME NEW q, NEW f, NEW ss, NEW m \in Nat, Flat(q, f, ss, m), IsList(ss[m + 1])
  PROVE  \E h : Flat(q \o ss[m + 1], h, ss, m + 1)
<1> DEFINE r == ss[m + 1]
           l == Len(q)
           k == Len(r)
           j == q \o r
           h == [t \in 1 .. l + k |-> IF t <= l THEN f[t] ELSE <<m + 1, t - l>>]
           C == Cells(ss, m)
           E == Cells(ss, m + 1)
<1>1. /\ l \in Nat /\ k \in Nat /\ IsList(j) /\ Len(j) = l + k
      /\ \A t \in 1 .. l + k : j[t] = IF t <= l THEN q[t] ELSE r[t - l]
  <2> DEFINE T == Range(q) \cup Range(r)
  <2>1. q \in Seq(T) /\ r \in Seq(T)
    BY SeqMonotonic DEF IsList, Flat
  <2> HIDE DEF T, r
  <2>2. IsList(j)
    BY JoinedRange DEF Flat, r
  <2> QED BY <2>1, <2>2, ConcatProperties, LenProperties
<1>2. OneForOne(f, 1..l, C) /\ \A t \in 1..l : q[t] = ss[f[t][1]][f[t][2]]
  BY DEF Flat
<1>3. \A e : e \in E <=> e \in C \/ \E x \in 1..k : e = <<m + 1, x>>
  <2>1. ASSUME NEW e \in E PROVE e \in C \/ \E x \in 1..k : e = <<m + 1, x>>
    <3>1. e \in Nat \X Nat /\ e[1] \in 1 .. m + 1 /\ e[2] \in 1..Len(ss[e[1]]) /\ e = <<e[1], e[2]>>
      BY DEF Cells
    <3>2. CASE e[1] = m + 1
      BY <3>1, <3>2
    <3>3. CASE e[1] # m + 1
      BY <3>1, <3>3 DEF Cells
    <3> QED BY <3>2, <3>3
  <2>2. ASSUME NEW e \in C PROVE e \in E
    BY DEF Cells
  <2>3. ASSUME NEW x \in 1..k PROVE <<m + 1, x>> \in E
    <3>1. x \in Nat /\ m + 1 \in Nat /\ m + 1 \in 1 .. m + 1
      BY <1>1
    <3>2. <<m + 1, x>> \in Nat \X Nat /\ <<m + 1, x>>[1] = m + 1 /\ <<m + 1, x>>[2] = x
      BY <3>1
    <3> QED BY <3>1, <3>2 DEF Cells
  <2> QED BY <2>1, <2>2, <2>3
<1>4. ASSUME NEW e \in C PROVE e \in Nat \X Nat /\ e[1] \in Nat /\ e[1] <= m /\ e[1] # m + 1
  BY DEF Cells
<1>5. ASSUME NEW t \in 1 .. l + k
      PROVE  IF t <= l THEN t \in 1..l /\ h[t] = f[t] /\ h[t] \in C
             ELSE h[t] = <<m + 1, t - l>> /\ t - l \in 1..k
  <2> HIDE DEF l, k, C
  <2>1. CASE t <= l
    BY <1>1, <1>2, <2>1 DEF OneForOne
  <2>2. CASE ~(t <= l)
    BY <1>1, <2>2
  <2> QED BY <2>1, <2>2
<1>6. DOMAIN h = 1 .. l + k /\ h = [t \in 1 .. l + k |-> h[t]]
  OBVIOUS
<1> HIDE DEF h, l, k, C, E, r, j
<1>7. \A t \in 1 .. l + k : ~(t <= l) => h[t][1] = m + 1 /\ h[t][2] = t - l
  BY <1>5
<1>8. h \in [1 .. l + k -> E]
  BY <1>3, <1>5, <1>6
<1>9. ASSUME NEW s \in 1 .. l + k, NEW t \in 1 .. l + k, h[s] = h[t] PROVE s = t
  <2>1. CASE s <= l /\ t <= l
    BY <1>2, <1>5, <1>9, <2>1 DEF OneForOne
  <2>2. CASE ~(s <= l) /\ ~(t <= l)
    BY <1>1, <1>7, <1>9, <2>2
  <2>3. CASE (s <= l) # (t <= l)
    BY <1>4, <1>5, <1>7, <1>9, <2>3
  <2> QED BY <2>1, <2>2, <2>3
<1>10. ASSUME NEW e \in E PROVE \E t \in 1 .. l + k : h[t] = e
  <2>1. CASE e \in C
    <3>1. PICK t \in 1..l : f[t] = e
      BY <1>2, <2>1 DEF OneForOne
    <3>2. t \in 1 .. l + k /\ t <= l
      BY <1>1
    <3> QED BY <1>5, <3>1, <3>2
  <2>2. CASE \E x \in 1..k : e = <<m + 1, x>>
    <3>1. PICK x \in 1..k : e = <<m + 1, x>>
      BY <2>2
    <3>2. l + x \in 1 .. l + k /\ ~(l + x <= l) /\ (l + x) - l = x
      BY <1>1
    <3>3. h[l + x] = <<m + 1, (l + x) - l>>
      BY <1>5, <3>2
    <3> QED BY <3>1, <3>2, <3>3
  <2> QED BY <1>3, <2>1, <2>2
<1>11. ASSUME NEW t \in 1 .. l + k PROVE j[t] = ss[h[t][1]][h[t][2]]
  <2>1. CASE t <= l
    BY <1>1, <1>2, <1>5, <2>1
  <2>2. CASE ~(t <= l)
    BY <1>1, <1>7, <2>2 DEF r
  <2> QED BY <2>1, <2>2
<1>12. Flat(j, h, ss, m + 1)
  BY <1>1, <1>8, <1>9, <1>10, <1>11 DEF Flat, E, OneForOne
<1> QED BY <1>12 DEF j, r

LEMMA FlattenIs ==
  ASSUME NEW n \in Nat \ {0}, NEW ss, IsList(ss), Len(ss) = n, \A k \in 1..n : IsList(ss[k])
  PROVE  \E d : Joins(d, n, ss) /\ d[n] = FlattenSeq(ss)
<1> DEFINE T == UNION {Range(ss[k]) : k \in 1..n}
           P(f) == f = [i \in 1..Len(ss) |-> IF i = 1 THEN ss[i] ELSE f[i - 1] \o ss[i]]
           c == CHOOSE f : P(f)
           step == [k \in 1..n |-> [q \in Seq(T) |-> q \o ss[k]]]
           d == [k \in 0..n |-> IF k = 0 THEN <<>> ELSE c[k]]
<1>1. FlattenSeq(ss) = c[Len(ss)]
  <2>1. ~(Len(ss) = 0)
    OBVIOUS
  <2> QED BY <2>1, Zenon DEF FlattenSeq
<1>2. ASSUME NEW k \in 1..n PROVE ss[k] \in Seq(T)
  <2>1. Range(ss[k]) \subseteq T
    OBVIOUS
  <2> HIDE DEF T
  <2> QED BY <2>1, SeqMonotonic DEF IsList
<1>3. \A f : P(f) <=> f = [i \in 1..n |-> IF i = 1 THEN ss[i] ELSE f[i - 1] \o ss[i]]
  OBVIOUS
<1> HIDE DEF P, T
<1>4. step \in [1..n -> [Seq(T) -> Seq(T)]]
  <2> SUFFICES ASSUME NEW k \in 1..n, NEW q \in Seq(T) PROVE q \o ss[k] \in Seq(T)
    OBVIOUS
  <2> QED BY <1>2, ConcatProperties
<1>5. <<>> \in Seq(T)
  BY EmptySeq
<1>6. \A k \in 1..n, q \in Seq(T) : step[k][q] = q \o ss[k]
  OBVIOUS
<1> HIDE DEF step
<1>7. PICK f \in [0..n -> Seq(T)] : f[0] = <<>> /\ \A k \in 1..n : f[k] = step[k][f[k - 1]]
  <2> DEFINE V == Seq(T)
             base == <<>>
  <2> HIDE DEF V, base
  <2> DEFINE D == 1..n
  <2>0. D = 1..n
    OBVIOUS
  <2> HIDE DEF D
  <2>1. base \in V /\ step \in [D -> [V -> V]] /\ n \in Nat
    BY <1>4, <1>5 DEF V, base, D
  <2>2. \E f : Recurs(f, n, D, V, base, step)
    BY <2>0, <2>1, RecursionComputes
  <2> QED BY <2>0, <2>2 DEF V, base, Recurs
<1>8. ASSUME NEW k \in 1..n PROVE f[k] = f[k - 1] \o ss[k]
  <2>1. k - 1 \in 0..n
    OBVIOUS
  <2> QED BY <1>6, <1>7, <2>1
<1>9. ss[1] = <<>> \o ss[1] /\ 1 \in 1..n
  BY <1>2, ConcatEmptySeq
<1>10. P(c)
  <2> DEFINE F == [k \in 1..n |-> f[k]]
  <2>1. ASSUME NEW k \in 1..n PROVE F[k] = IF k = 1 THEN ss[k] ELSE F[k - 1] \o ss[k]
    <3>1. CASE k = 1
      <4>1. f[1] = f[1 - 1] \o ss[1]
        BY <1>8, <1>9
      <4>2. f[1 - 1] = <<>>
        BY <1>7
      <4>3. f[1] = ss[1]
        BY <1>9, <4>1, <4>2
      <4>4. F[1] = f[1]
        BY <1>9
      <4> QED BY <3>1, <4>3, <4>4
    <3>2. CASE k # 1
      <4>1. k - 1 \in 1..n
        BY <3>2
      <4> QED BY <1>8, <3>2, <4>1
    <3> QED BY <3>1, <3>2
  <2>2. F = [k \in 1..n |-> F[k]]
    OBVIOUS
  <2> HIDE DEF F
  <2>3. F = [k \in 1..n |-> IF k = 1 THEN ss[k] ELSE F[k - 1] \o ss[k]]
    BY <2>1, <2>2
  <2>4. P(F)
    BY <1>3, <2>3
  <2> QED BY <2>4
<1> HIDE DEF c
<1>11. c = [i \in 1..n |-> IF i = 1 THEN ss[i] ELSE c[i - 1] \o ss[i]]
  BY <1>3, <1>10
<1>12. ASSUME NEW k \in 1..n PROVE d[k] = d[k - 1] \o ss[k]
  <2>1. d[k] = c[k] /\ k \in 0..n /\ k - 1 \in 0..n
    OBVIOUS
  <2>2. CASE k = 1
    <3>1. c[1] = ss[1]
      BY <1>9, <1>11
    <3>2. d[k - 1] = <<>>
      BY <2>2
    <3> QED BY <1>9, <2>1, <2>2, <3>1, <3>2
  <2>3. CASE k # 1
    <3>1. d[k - 1] = c[k - 1]
      BY <2>1, <2>3
    <3>2. c[k] = c[k - 1] \o ss[k]
      BY <1>11, <2>3
    <3> QED BY <2>1, <3>1, <3>2
  <2> QED BY <2>2, <2>3
<1>13. d[0] = <<>> /\ d[n] = c[n]
  OBVIOUS
<1> HIDE DEF d
<1>14. Joins(d, n, ss)
  BY <1>12, <1>13 DEF Joins
<1> QED BY <1>1, <1>13, <1>14

LEMMA FlattenIsFlat ==
  ASSUME NEW n \in Nat \ {0}, NEW ss, IsList(ss), Len(ss) = n, \A k \in 1..n : IsList(ss[k])
  PROVE  \E f : Flat(FlattenSeq(ss), f, ss, n)
<1>1. PICK d : Joins(d, n, ss) /\ d[n] = FlattenSeq(ss)
  BY FlattenIs
<1> DEFINE A == {m \in Nat : m <= n => \E f : Flat(d[m], f, ss, m)}
<1>2. 0 \in A
  <2>1. d[0] = <<>>
    BY <1>1 DEF Joins
  <2>2. Cells(ss, 0) = {} /\ 1..0 = {}
    BY DEF Cells
  <2>3. IsList(<<>>) /\ Len(<<>>) = 0
    BY EmptySeq DEF IsList
  <2> DEFINE f == [t \in {} |-> t]
  <2>4. OneForOne(f, {}, {})
    BY DEF OneForOne
  <2> HIDE DEF f
  <2>5. Flat(d[0], f, ss, 0)
    BY <2>1, <2>2, <2>3, <2>4 DEF Flat
  <2> QED BY <2>5
<1>3. ASSUME NEW m \in Nat, m \in A PROVE m + 1 \in A
  <2> SUFFICES ASSUME m + 1 <= n PROVE \E f : Flat(d[m + 1], f, ss, m + 1)
    OBVIOUS
  <2>1. PICK f : Flat(d[m], f, ss, m)
    BY <1>3
  <2>2. m + 1 \in 1..n /\ (m + 1) - 1 = m
    OBVIOUS
  <2>3. d[m + 1] = d[m] \o ss[m + 1] /\ IsList(ss[m + 1])
    BY <1>1, <2>2 DEF Joins
  <2> QED BY <2>1, <2>3, FlatGoesOn
<1>4. Nat \subseteq A
  <2> HIDE DEF A
  <2> QED BY <1>2, <1>3, SetInduction
<1>5. \E f : Flat(d[n], f, ss, n)
  BY <1>4
<1> QED BY <1>1, <1>5

---------------------------------------------------------------------------
(* What is written is read back.                                           *)

\* The ways that hold hops; those like the m-th; the first of those alike.
Full(acc) == {k \in DOMAIN acc : acc[k] # <<>>}
Alike(acc, m) == {j \in DOMAIN acc : acc[j] = acc[m]}
Firsts(acc) == {k \in DOMAIN acc : acc[k] # <<>> /\ \A j \in 1 .. k - 1 : acc[j] # acc[k]}
Precede(S) == [k \in S |-> {j \in S : j < k}]
ItemOf(acc, k) == [pts |-> acc[k], n |-> Cardinality(Alike(acc, k))]
TextOf(acc) == [r \in 1 .. Cardinality(Firsts(acc)) |-> ItemOf(acc, Nth(Firsts(acc), Precede(Firsts(acc)), r))]

\* Each item as often as it is written.
Repeated(text) == [k \in DOMAIN text |-> [c \in 1 .. text[k].n |-> text[k].pts]]
Steps(ways) == [k \in DOMAIN ways |-> [h \in 1 .. Len(ways[k]) - 1 |-> <<ways[k][h], ways[k][h + 1]>>]]

LEMMA FormatIs ==
  ASSUME NEW b, NEW an
  PROVE  FormatMove(b, an) = TextOf(Combine(b, CanonicalMoveOrder([k \in DOMAIN an |-> <<an[k][1] + 1, an[k][2] + 1>>])))
BY DEF FormatMove, TextOf, ItemOf, Alike, Firsts, Precede

LEMMA ParseIs ==
  ASSUME NEW text
  PROVE  LET ways == FlattenSeq(Repeated(text))
             hops == FlattenSeq(Steps(ways))
         IN  ParseMove(text) = IF \/ Len(FlattenSeq(ways)) > 8 \/ Len(hops) > 4
                                  \/ \E k \in DOMAIN hops : hops[k][1] = 0 \/ hops[k][2] = NPoints + 1
                               THEN Unparsable
                               ELSE CanonicalMoveOrder(hops)
BY DEF ParseMove, Repeated, Steps

\* Of the ways like a way, one is the first.
LEMMA FirstOfAlike ==
  ASSUME NEW n \in Nat, NEW acc, DOMAIN acc = 1..n, NEW m \in Full(acc)
  PROVE  \E k \in Firsts(acc) : acc[k] = acc[m]
<1> DEFINE A == {l \in Nat : \A j \in 1..l : j \in Full(acc) => \E k \in Firsts(acc) : acc[k] = acc[j]}
<1>1. 0 \in A
  OBVIOUS
<1>2. ASSUME NEW l \in Nat, l \in A PROVE l + 1 \in A
  <2> SUFFICES ASSUME NEW j \in 1 .. l + 1, j \in Full(acc) PROVE \E k \in Firsts(acc) : acc[k] = acc[j]
    OBVIOUS
  <2>1. CASE \E i \in 1 .. j - 1 : acc[i] = acc[j]
    <3>1. PICK i \in 1 .. j - 1 : acc[i] = acc[j]
      BY <2>1
    <3>2. i \in 1..l /\ i \in Full(acc)
      BY <3>1 DEF Full
    <3> QED BY <1>2, <3>1, <3>2
  <2>2. CASE \A i \in 1 .. j - 1 : acc[i] # acc[j]
    BY <2>2 DEF Full, Firsts
  <2> QED BY <2>1, <2>2
<1>3. Nat \subseteq A
  <2> HIDE DEF A
  <2> QED BY <1>1, <1>2, SetInduction
<1>4. n \in A /\ m \in 1..n
  BY <1>3 DEF Full
<1> QED BY <1>4

\* The items of a text: which way each is, and how often.
Itemised(f, acc) ==
    LET N == Cardinality(Firsts(acc)) IN
    /\ N \in Nat /\ OneForOne(f, 1..N, Firsts(acc)) /\ DOMAIN TextOf(acc) = 1..N
    /\ \A r \in 1..N : TextOf(acc)[r] = ItemOf(acc, f[r])

LEMMA TextItems ==
  ASSUME NEW n \in Nat, NEW acc, DOMAIN acc = 1..n
  PROVE  \E f : Itemised(f, acc)
<1> DEFINE S == Firsts(acc)
           before == Precede(S)
           f == [r \in 1..Cardinality(S) |-> Nth(S, before, r)]
<1>1. S \subseteq 1..n
  BY DEF Firsts
<1>2. IsFiniteSet(S) /\ Cardinality(S) \in Nat
  <2>1. IsFiniteSet(1..n)
    BY UpTo
  <2> HIDE DEF S
  <2> QED BY <1>1, <2>1, FS_Subset, FS_CardinalityType
<1> HIDE DEF S
<1>3. Orders(before, S)
  <2>1. before \in [S -> SUBSET S] /\ \A j, k \in S : j \in before[k] <=> j < k
    BY DEF Precede
  <2>2. S \subseteq Int
    BY <1>1
  <2> HIDE DEF before
  <2> QED BY <2>1, <2>2 DEF Orders
<1>4. OneForOne(f, 1..Cardinality(S), S)
  BY <1>2, <1>3, RankedInOrder
<1>5. TextOf(acc) = [r \in 1..Cardinality(S) |-> ItemOf(acc, f[r])]
  BY DEF TextOf, S
<1> HIDE DEF f
<1>6. DOMAIN TextOf(acc) = 1..Cardinality(S) /\ \A r \in 1..Cardinality(S) : TextOf(acc)[r] = ItemOf(acc, f[r])
  BY <1>5
<1>7. Itemised(f, acc)
  BY <1>2, <1>4, <1>6 DEF Itemised, S
<1> QED BY <1>7

\* A way for each way that is written, and the other way round.
Copied(beta, ways, acc) ==
    /\ IsList(ways) /\ OneForOne(beta, 1..Len(ways), Full(acc))
    /\ \A t \in 1..Len(ways) : ways[t] = acc[beta[t]]

LEMMA WaysAreRead ==
  ASSUME NEW n \in Nat, NEW acc, DOMAIN acc = 1..n, Full(acc) # {}
  PROVE  /\ \E beta : Copied(beta, FlattenSeq(Repeated(TextOf(acc))), acc)
         /\ TextOf(acc) # <<>>
<1> DEFINE N == Cardinality(Firsts(acc))
           text == TextOf(acc)
           ss == Repeated(text)
<1>1. PICK f : Itemised(f, acc)
  BY TextItems
<1>2. N \in Nat /\ OneForOne(f, 1..N, Firsts(acc)) /\ DOMAIN text = 1..N
  BY <1>1 DEF Itemised
<1>3. \A r \in 1..N : text[r].pts = acc[f[r]] /\ text[r].n = Cardinality(Alike(acc, f[r]))
  <2>1. \A r \in 1..N : text[r] = ItemOf(acc, f[r])
    BY <1>1 DEF Itemised
  <2> HIDE DEF text, N
  <2>2. \A k : ItemOf(acc, k).pts = acc[k] /\ ItemOf(acc, k).n = Cardinality(Alike(acc, k))
    BY DEF ItemOf
  <2> QED BY <2>1, <2>2
<1>4. ASSUME NEW m
      PROVE  IsFiniteSet(Alike(acc, m)) /\ Cardinality(Alike(acc, m)) \in Nat
          /\ ExistsBijection(1..Cardinality(Alike(acc, m)), Alike(acc, m))
  <2>1. IsFiniteSet(1..n) /\ Alike(acc, m) \in SUBSET (1..n)
    BY UpTo DEF Alike
  <2>2. IsFiniteSet(Alike(acc, m))
    BY <2>1, FS_Subset
  <2> QED BY <2>2, FS_CardinalityType
<1>5. N # 0 /\ text # <<>>
  <2>1. PICK m \in Full(acc) : TRUE
    OBVIOUS
  <2>2. PICK k \in Firsts(acc) : TRUE
    BY FirstOfAlike
  <2>3. \E r \in 1..N : f[r] = k
    BY <1>2 DEF OneForOne
  <2>4. 1 \in DOMAIN text
    BY <1>2, <2>3
  <2> HIDE DEF text
  <2> QED BY <1>2, <2>3, <2>4
<1>6. ss = [k \in 1..N |-> [c \in 1 .. Cardinality(Alike(acc, f[k])) |-> acc[f[k]]]]
  BY <1>2, <1>3 DEF Repeated
<1> HIDE DEF ss, text, N
<1>7. IsList(ss) /\ Len(ss) = N /\ DOMAIN ss = 1..N
  BY <1>2, <1>6, FunctionIsList
<1>8. ASSUME NEW k \in 1..N
      PROVE  IsList(ss[k]) /\ Len(ss[k]) = Cardinality(Alike(acc, f[k])) /\ \A c \in 1..Len(ss[k]) : ss[k][c] = acc[f[k]]
  <2> DEFINE C == Cardinality(Alike(acc, f[k]))
  <2>1. ss[k] = [c \in 1..C |-> acc[f[k]]] /\ C \in Nat
    BY <1>4, <1>6
  <2> HIDE DEF C
  <2>2. ss[k] = [c \in 1..C |-> ss[k][c]]
    BY <2>1
  <2>3. IsList(ss[k]) /\ Len(ss[k]) = C
    BY <2>1, <2>2, FunctionIsList
  <2> QED BY <2>1, <2>3 DEF C
<1>9. PICK g : Flat(FlattenSeq(ss), g, ss, N)
  BY <1>2, <1>5, <1>7, <1>8, FlattenIsFlat
<1> DEFINE B(m) == CHOOSE h : OneForOne(h, 1..Cardinality(Alike(acc, m)), Alike(acc, m))
           d == [e \in Cells(ss, N) |-> B(f[e[1]])[e[2]]]
<1>10. ASSUME NEW m PROVE OneForOne(B(m), 1..Cardinality(Alike(acc, m)), Alike(acc, m))
  <2>1. \E h : OneForOne(h, 1..Cardinality(Alike(acc, m)), Alike(acc, m))
    <3>1. PICK h \in Bijection(1..Cardinality(Alike(acc, m)), Alike(acc, m)) : TRUE
      BY <1>4 DEF ExistsBijection
    <3>2. OneForOne(h, 1..Cardinality(Alike(acc, m)), Alike(acc, m))
      BY <3>1 DEF OneForOne, Bijection, Injection, Surjection, IsInjective
    <3> QED BY <3>2
  <2> QED BY <2>1
<1> HIDE DEF B
<1>11. \A e : e \in Cells(ss, N) <=> e \in Nat \X Nat /\ e[1] \in 1..N /\ e[2] \in 1..Cardinality(Alike(acc, f[e[1]]))
  BY <1>8 DEF Cells
<1>12. \A r \in 1..N : f[r] \in Firsts(acc) /\ f[r] \in Nat
  BY <1>2 DEF OneForOne, Firsts
<1>13. ASSUME NEW e \in Cells(ss, N)
       PROVE  d[e] \in Alike(acc, f[e[1]]) /\ d[e] \in Full(acc)
  <2>1. d[e] \in Alike(acc, f[e[1]])
    <3> DEFINE m == f[e[1]]
    <3>1. OneForOne(B(m), 1..Cardinality(Alike(acc, m)), Alike(acc, m)) /\ e[2] \in 1..Cardinality(Alike(acc, m))
      BY <1>10, <1>11
    <3>2. d[e] = B(m)[e[2]]
      OBVIOUS
    <3> HIDE DEF m, d
    <3>3. B(m)[e[2]] \in Alike(acc, m)
      BY <3>1 DEF OneForOne
    <3> QED BY <3>2, <3>3 DEF m
  <2> HIDE DEF d
  <2> QED BY <1>11, <1>12, <2>1 DEF Alike, Full, Firsts
<1>14. \A x, y \in Firsts(acc) : acc[x] = acc[y] => x = y
  <2> SUFFICES ASSUME NEW x \in Firsts(acc), NEW y \in Firsts(acc), acc[x] = acc[y], x # y PROVE FALSE
    OBVIOUS
  <2>1. x \in 1..n /\ y \in 1..n
    BY DEF Firsts
  <2>2. x \in 1 .. y - 1 \/ y \in 1 .. x - 1
    BY <2>1
  <2> QED BY <2>2 DEF Firsts
<1>15. ASSUME NEW x \in Cells(ss, N), NEW y \in Cells(ss, N), d[x] = d[y] PROVE x = y
  <2>1. acc[f[x[1]]] = acc[f[y[1]]]
    <3> HIDE DEF d
    <3> QED BY <1>13, <1>15 DEF Alike
  <2>2. x[1] \in 1..N /\ y[1] \in 1..N /\ x = <<x[1], x[2]>> /\ y = <<y[1], y[2]>>
    BY <1>11
  <2>3. x[1] = y[1]
    BY <1>2, <1>12, <1>14, <2>1, <2>2 DEF OneForOne
  <2>4. B(f[x[1]])[x[2]] = B(f[x[1]])[y[2]]
    BY <1>15, <2>3
  <2>5. x[2] = y[2]
    BY <1>10, <1>11, <2>3, <2>4 DEF OneForOne
  <2> QED BY <2>2, <2>3, <2>5
<1>16. ASSUME NEW j \in Full(acc) PROVE \E e \in Cells(ss, N) : d[e] = j
  <2>1. PICK k \in Firsts(acc) : acc[k] = acc[j]
    BY FirstOfAlike
  <2>2. PICK r \in 1..N : f[r] = k
    BY <1>2 DEF OneForOne
  <2>3. j \in Alike(acc, k)
    BY <2>1 DEF Alike, Full
  <2>4. PICK c \in 1..Cardinality(Alike(acc, k)) : B(k)[c] = j
    BY <1>10, <2>3 DEF OneForOne
  <2>5. <<r, c>> \in Nat \X Nat /\ <<r, c>>[1] = r /\ <<r, c>>[2] = c
    BY <1>2, <1>4
  <2>6. <<r, c>> \in Cells(ss, N)
    BY <1>11, <2>2, <2>5
  <2>7. d[<<r, c>>] = j
    BY <2>2, <2>4, <2>5, <2>6
  <2> QED BY <2>6, <2>7
<1>17. OneForOne(d, Cells(ss, N), Full(acc))
  <2>1. d \in [Cells(ss, N) -> Full(acc)]
    <3>1. d = [e \in Cells(ss, N) |-> d[e]]
      OBVIOUS
    <3> HIDE DEF d
    <3> QED BY <1>13, <3>1
  <2> HIDE DEF d
  <2> QED BY <1>15, <1>16, <2>1 DEF OneForOne
<1> DEFINE w == FlattenSeq(ss)
           beta == [t \in 1..Len(w) |-> d[g[t]]]
<1>18. IsList(w) /\ OneForOne(g, 1..Len(w), Cells(ss, N)) /\ \A t \in 1..Len(w) : w[t] = ss[g[t][1]][g[t][2]]
  BY <1>9 DEF Flat
<1> HIDE DEF w, d
<1>19. OneForOne(beta, 1..Len(w), Full(acc))
  BY <1>17, <1>18, OneForOneJoins
<1>20. ASSUME NEW t \in 1..Len(w) PROVE w[t] = acc[beta[t]]
  <2>1. g[t] \in Cells(ss, N)
    BY <1>18 DEF OneForOne
  <2>2. w[t] = acc[f[g[t][1]]]
    BY <1>8, <1>18, <2>1 DEF Cells
  <2>3. acc[d[g[t]]] = acc[f[g[t][1]]]
    BY <1>13, <2>1 DEF Alike
  <2> QED BY <2>2, <2>3
<1> HIDE DEF beta
<1>21. Copied(beta, w, acc)
  BY <1>18, <1>19, <1>20 DEF Copied
<1> QED BY <1>5, <1>21 DEF w, ss, text

\* Ways of at least one hop each.
HopWays(acc, n) == acc \in [1..n -> Seq(Int)] /\ \A m \in 1..n : Len(acc[m]) # 1

LEMMA FullWay ==
  ASSUME NEW n \in Nat, NEW acc, HopWays(acc, n), NEW m
  PROVE  /\ m \in Full(acc) <=> m \in 1..n /\ Len(acc[m]) >= 2
         /\ m \in 1..n => Len(acc[m]) \in Nat /\ acc[m] \in Seq(Int) /\ IsList(acc[m])
<1>1. DOMAIN acc = 1..n /\ \A j \in 1..n : acc[j] \in Seq(Int) /\ Len(acc[j]) # 1
  BY DEF HopWays
<1>2. m \in 1..n => Len(acc[m]) \in Nat /\ IsList(acc[m]) /\ (acc[m] # <<>> => Len(acc[m]) > 0)
  BY <1>1, IntsAreList
<1>3. m \in 1..n => (Len(acc[m]) > 0 => acc[m] # <<>>)
  BY <1>1, NotEmpty
<1>4. m \in Full(acc) <=> m \in 1..n /\ acc[m] # <<>>
  BY <1>1 DEF Full
<1>5. m \in 1..n /\ acc[m] # <<>> => Len(acc[m]) >= 2
  <2> SUFFICES ASSUME m \in 1..n, acc[m] # <<>> PROVE Len(acc[m]) >= 2
    OBVIOUS
  <2> DEFINE l == Len(acc[m])
  <2>1. l \in Nat /\ l > 0 /\ l # 1
    BY <1>1, <1>2, Zenon
  <2> HIDE DEF l
  <2>2. l >= 2
    BY <2>1
  <2> QED BY <2>2 DEF l
<1>6. m \in 1..n /\ Len(acc[m]) >= 2 => acc[m] # <<>>
  BY <1>2, <1>3
<1>7. m \in Full(acc) <=> m \in 1..n /\ Len(acc[m]) >= 2
  BY <1>4, <1>5, <1>6, Zenon
<1>8. m \in 1..n => Len(acc[m]) \in Nat /\ acc[m] \in Seq(Int) /\ IsList(acc[m])
  BY <1>1, <1>2, Zenon
<1> QED BY <1>7, <1>8

\* What is read, way for way and hop for hop.
LEMMA StepsOfWay ==
  ASSUME NEW n \in Nat, NEW acc, HopWays(acc, n), NEW ways, NEW beta, Copied(beta, ways, acc)
  PROVE  LET hs == Steps(ways) IN
         /\ Len(ways) \in Nat /\ IsList(hs) /\ Len(hs) = Len(ways)
         /\ \A k \in 1..Len(ways) :
               /\ beta[k] \in Full(acc) /\ beta[k] \in 1..n /\ ways[k] = acc[beta[k]]
               /\ IsList(ways[k]) /\ Len(ways[k]) \in Nat /\ Len(ways[k]) >= 2
               /\ IsList(hs[k]) /\ Len(hs[k]) = Len(ways[k]) - 1
               /\ \A h \in 1 .. Len(ways[k]) - 1 : hs[k][h] = <<ways[k][h], ways[k][h + 1]>>
<1> DEFINE hs == Steps(ways)
           M == Len(ways)
<1>1. M \in Nat /\ DOMAIN ways = 1..M
  BY LenProperties DEF Copied, IsList
<1>2. \A k \in 1..M : hs[k] = [h \in 1 .. Len(ways[k]) - 1 |-> <<ways[k][h], ways[k][h + 1]>>]
  BY <1>1 DEF Steps
<1>3. IsList(hs) /\ Len(hs) = M
  <2>1. hs = [k \in 1..M |-> hs[k]]
    BY <1>1 DEF Steps
  <2> HIDE DEF hs, M
  <2> QED BY <1>1, <2>1, FunctionIsList
<1> HIDE DEF hs
<1>4. ASSUME NEW k \in 1..M
      PROVE  /\ beta[k] \in Full(acc) /\ beta[k] \in 1..n /\ ways[k] = acc[beta[k]]
             /\ IsList(ways[k]) /\ Len(ways[k]) \in Nat /\ Len(ways[k]) >= 2
             /\ IsList(hs[k]) /\ Len(hs[k]) = Len(ways[k]) - 1
             /\ \A h \in 1 .. Len(ways[k]) - 1 : hs[k][h] = <<ways[k][h], ways[k][h + 1]>>
  <2>1. beta[k] \in Full(acc) /\ ways[k] = acc[beta[k]]
    BY DEF Copied, OneForOne
  <2>2. beta[k] \in 1..n /\ IsList(ways[k]) /\ Len(ways[k]) \in Nat /\ Len(ways[k]) >= 2
    BY <2>1, FullWay
  <2> DEFINE l == Len(ways[k]) - 1
  <2>3. l \in Nat
    BY <2>2
  <2>4. hs[k] = [h \in 1..l |-> <<ways[k][h], ways[k][h + 1]>>]
    BY <1>2
  <2> HIDE DEF l
  <2>5. hs[k] = [h \in 1..l |-> hs[k][h]] /\ \A h \in 1..l : hs[k][h] = <<ways[k][h], ways[k][h + 1]>>
    BY <2>4
  <2>6. IsList(hs[k]) /\ Len(hs[k]) = l
    <3> DEFINE q == hs[k]
    <3>1. q = [h \in 1..l |-> q[h]]
      BY <2>5
    <3> HIDE DEF q
    <3>2. IsList(q) /\ Len(q) = l
      BY <2>3, <3>1, FunctionIsList
    <3> QED BY <3>2 DEF q
  <2> QED BY <2>1, <2>2, <2>5, <2>6 DEF l
<1> QED BY <1>1, <1>3, <1>4 DEF hs

LEMMA HopsAreRead ==
  ASSUME NEW n \in Nat, NEW acc, HopWays(acc, n), NEW ways, NEW beta, Copied(beta, ways, acc), Full(acc) # {}
  PROVE  LET q == FlattenSeq(Steps(ways)) IN
         /\ IsList(q) /\ Len(ways) # 0
         /\ \E f : Matches(f, 1..Len(q), q, Places(acc), HopsOf(acc))
<1> DEFINE hs == Steps(ways)
           M == Len(ways)
           q == FlattenSeq(hs)
           P == Places(acc)
<1>1. M \in Nat /\ IsList(hs) /\ Len(hs) = M
  BY StepsOfWay
<1>2. \A k \in 1..M :
               /\ beta[k] \in Full(acc) /\ beta[k] \in 1..n /\ ways[k] = acc[beta[k]]
               /\ Len(ways[k]) \in Nat /\ IsList(hs[k]) /\ Len(hs[k]) = Len(ways[k]) - 1
               /\ \A h \in 1 .. Len(ways[k]) - 1 : hs[k][h] = <<ways[k][h], ways[k][h + 1]>>
  BY StepsOfWay
<1>3. OneForOne(beta, 1..M, Full(acc))
  BY DEF Copied
<1>4. M # 0
  BY <1>1, <1>3 DEF OneForOne
<1> HIDE DEF hs, M
<1>5. PICK g : Flat(q, g, hs, M)
  BY <1>1, <1>2, <1>4, FlattenIsFlat
<1> HIDE DEF q
<1> DEFINE C == Cells(hs, M)
           d == [e \in C |-> <<beta[e[1]], e[2]>>]
<1>6. \A e : e \in C <=> e \in Nat \X Nat /\ e[1] \in 1..M /\ e[2] \in 1 .. Len(acc[beta[e[1]]]) - 1
  BY <1>2 DEF Cells
<1>7. DOMAIN acc = 1..n
  BY DEF HopWays
<1> HIDE DEF C, P
<1>8. ASSUME NEW e \in C PROVE d[e] \in P
  <2>1. beta[e[1]] \in 1..n /\ beta[e[1]] \in Nat /\ e[2] \in Nat /\ e[2] \in 1 .. Len(acc[beta[e[1]]]) - 1
    BY <1>2, <1>6
  <2>2. d[e] = <<beta[e[1]], e[2]>>
    OBVIOUS
  <2> HIDE DEF d
  <2>3. d[e] \in Nat \X Nat /\ d[e][1] = beta[e[1]] /\ d[e][2] = e[2]
    BY <2>1, <2>2, PairIs
  <2> QED BY <1>7, <2>1, <2>3, PlaceIs DEF P
<1>9. ASSUME NEW x \in C, NEW y \in C, d[x] = d[y] PROVE x = y
  <2>1. <<beta[x[1]], x[2]>> = <<beta[y[1]], y[2]>>
    BY <1>9
  <2>2. beta[x[1]] = beta[y[1]] /\ x[2] = y[2]
    BY <2>1
  <2>3. x[1] \in 1..M /\ y[1] \in 1..M /\ x = <<x[1], x[2]>> /\ y = <<y[1], y[2]>>
    BY <1>6
  <2>4. x[1] = y[1]
    BY <1>3, <2>2, <2>3 DEF OneForOne
  <2> QED BY <2>2, <2>3, <2>4
<1>10. ASSUME NEW e \in P PROVE \E c \in C : d[c] = e
  <2>1. e \in Nat \X Nat /\ e[1] \in 1..n /\ e[2] \in 1 .. Len(acc[e[1]]) - 1
    BY <1>7, PlaceIs DEF P
  <2>2. Len(acc[e[1]]) \in Nat /\ e = <<e[1], e[2]>> /\ e[2] \in Nat
    BY <2>1, FullWay
  <2>3. Len(acc[e[1]]) >= 2
    BY <2>1, <2>2
  <2>4. e[1] \in Full(acc)
    BY <2>1, <2>3, FullWay
  <2>5. PICK k \in 1..M : beta[k] = e[1]
    BY <1>3, <2>4 DEF OneForOne
  <2>6. k \in Nat
    BY <1>1
  <2>7. <<k, e[2]>> \in Nat \X Nat /\ <<k, e[2]>>[1] = k /\ <<k, e[2]>>[2] = e[2]
    BY <2>2, <2>6, PairIs
  <2>8. <<k, e[2]>> \in C
    BY <1>6, <2>1, <2>5, <2>7
  <2>9. d[<<k, e[2]>>] = e
    BY <2>2, <2>5, <2>7, <2>8
  <2> QED BY <2>8, <2>9
<1>11. OneForOne(d, C, P)
  <2>1. d = [e \in C |-> d[e]]
    OBVIOUS
  <2> HIDE DEF d
  <2>2. d \in [C -> P]
    BY <1>8, <2>1
  <2> QED BY <1>9, <1>10, <2>2 DEF OneForOne
<1>12. IsList(q) /\ OneForOne(g, 1..Len(q), C) /\ \A t \in 1..Len(q) : q[t] = hs[g[t][1]][g[t][2]]
  BY <1>5 DEF Flat, C
<1> DEFINE f == [t \in 1..Len(q) |-> d[g[t]]]
<1>13. OneForOne(f, 1..Len(q), P)
  <2> HIDE DEF d
  <2> QED BY <1>11, <1>12, OneForOneJoins
<1>14. ASSUME NEW t \in 1..Len(q) PROVE q[t] = HopsOf(acc)[f[t]]
  <2> DEFINE e == g[t]
  <2>1. e \in C
    BY <1>12 DEF OneForOne
  <2>2. f[t] = <<beta[e[1]], e[2]>>
    BY <2>1
  <2>3. q[t] = hs[e[1]][e[2]]
    BY <1>12
  <2> HIDE DEF e, f, d
  <2>4. e[1] \in 1..M /\ e[2] \in 1 .. Len(acc[beta[e[1]]]) - 1 /\ e[2] \in Nat
    BY <1>6, <2>1
  <2>5. q[t] = <<acc[beta[e[1]]][e[2]], acc[beta[e[1]]][e[2] + 1]>>
    <3> DEFINE k == e[1]
               h == e[2]
    <3>1. k \in 1..M /\ h \in 1 .. Len(ways[k]) - 1 /\ ways[k] = acc[beta[k]] /\ q[t] = hs[k][h]
      BY <1>2, <2>3, <2>4
    <3> HIDE DEF k, h
    <3>2. hs[k][h] = <<ways[k][h], ways[k][h + 1]>>
      BY <1>2, <3>1
    <3> QED BY <3>1, <3>2 DEF k, h
  <2>6. beta[e[1]] \in 1..n /\ beta[e[1]] \in Nat
    BY <1>2, <2>4
  <2> DEFINE m == beta[e[1]]
             k == e[2]
  <2>7. m \in Nat /\ m \in DOMAIN acc /\ k \in 1 .. Len(acc[m]) - 1 /\ Len(acc[m]) \in Nat
    BY <1>7, <2>4, <2>6, FullWay
  <2> HIDE DEF m, k
  <2>8. HopsOf(acc)[<<m, k>>] = <<acc[m][k], acc[m][k + 1]>>
    BY <2>7, HopIsThere
  <2> QED BY <2>2, <2>5, <2>8 DEF m, k
<1>15. Matches(f, 1..Len(q), q, P, HopsOf(acc))
  <2> HIDE DEF f
  <2> QED BY <1>13, <1>14 DEF Matches
<1> QED BY <1>4, <1>12, <1>15 DEF q, P, hs, M

\* Few hops have few points.
LEMMA FewPoints ==
  ASSUME NEW n \in Nat, NEW acc, HopWays(acc, n), NEW ways, NEW beta, Copied(beta, ways, acc), Full(acc) # {},
         Len(FlattenSeq(Steps(ways))) <= 4
  PROVE  Len(FlattenSeq(ways)) <= 8
<1> DEFINE hs == Steps(ways)
           M == Len(ways)
           q == FlattenSeq(hs)
           w == FlattenSeq(ways)
           A == Cells(hs, M)
           W == Cells(ways, M)
<1>1. M \in Nat /\ IsList(hs) /\ Len(hs) = M /\ M # 0 /\ IsList(ways)
  BY StepsOfWay, HopsAreRead DEF Copied
<1>2. \A k \in 1..M : /\ Len(ways[k]) \in Nat /\ Len(ways[k]) >= 2 /\ IsList(ways[k])
                      /\ IsList(hs[k]) /\ Len(hs[k]) = Len(ways[k]) - 1
  BY StepsOfWay
<1> HIDE DEF hs, M
<1>3. \E g : Flat(q, g, hs, M)
  BY <1>1, <1>2, FlattenIsFlat
<1>4. \E g : Flat(w, g, ways, M)
  BY <1>1, <1>2, FlattenIsFlat DEF M
<1>5. IsFiniteSet(A) /\ Cardinality(A) = Len(q) /\ Len(q) \in Nat
  <2>1. PICK g : OneForOne(g, 1..Len(q), A) /\ IsList(q)
    BY <1>3 DEF Flat
  <2> HIDE DEF A, q
  <2>2. Len(q) \in Nat
    BY <2>1, LenProperties DEF IsList
  <2> QED BY <2>1, <2>2, OneForOneCounts, UpTo
<1>6. Cardinality(W) = Len(w) /\ Len(w) \in Nat
  <2>1. PICK g : OneForOne(g, 1..Len(w), W) /\ IsList(w)
    BY <1>4 DEF Flat
  <2> HIDE DEF W, w
  <2>2. Len(w) \in Nat
    BY <2>1, LenProperties DEF IsList
  <2> QED BY <2>1, <2>2, OneForOneCounts, UpTo
<1> DEFINE B == {e \in W : e[2] = Len(ways[e[1]])}
           c == [e \in B |-> <<e[1], 1>>]
<1>7. \A e : e \in A <=> e \in Nat \X Nat /\ e[1] \in 1..M /\ e[2] \in 1 .. Len(ways[e[1]]) - 1
  BY <1>2 DEF Cells
<1>8. \A e : e \in W <=> e \in Nat \X Nat /\ e[1] \in 1..M /\ e[2] \in 1 .. Len(ways[e[1]])
  BY DEF Cells
<1> HIDE DEF A, W, q, w
<1>9. W = A \cup B
  <2>1. ASSUME NEW e \in W PROVE e \in A \/ e \in B
    <3>1. e \in Nat \X Nat /\ e[1] \in 1..M /\ e[2] \in 1 .. Len(ways[e[1]]) /\ Len(ways[e[1]]) \in Nat
      BY <1>2, <1>8
    <3>2. e[2] \in 1 .. Len(ways[e[1]]) - 1 \/ e[2] = Len(ways[e[1]])
      BY <3>1
    <3> QED BY <1>7, <3>1, <3>2
  <2>2. ASSUME NEW e \in A PROVE e \in W
    <3>1. e \in Nat \X Nat /\ e[1] \in 1..M /\ e[2] \in 1 .. Len(ways[e[1]]) - 1 /\ Len(ways[e[1]]) \in Nat
      BY <1>2, <1>7
    <3>2. e[2] \in 1 .. Len(ways[e[1]])
      BY <3>1
    <3> QED BY <1>8, <3>1, <3>2
  <2> QED BY <2>1, <2>2
<1>10. c \in Injection(B, A)
  <2>1. ASSUME NEW e \in B PROVE c[e] = <<e[1], 1>> /\ c[e] \in A /\ e = <<e[1], Len(ways[e[1]])>>
    <3>1. e \in Nat \X Nat /\ e[1] \in 1..M /\ e[2] = Len(ways[e[1]]) /\ e[1] \in Nat
      BY <1>8
    <3>2. <<e[1], 1>> \in Nat \X Nat /\ <<e[1], 1>>[1] = e[1] /\ <<e[1], 1>>[2] = 1
      BY <3>1
    <3>3. 1 \in 1 .. Len(ways[e[1]]) - 1
      BY <1>2, <3>1
    <3>4. <<e[1], 1>> \in A
      BY <1>7, <3>1, <3>2, <3>3
    <3> QED BY <3>1, <3>4
  <2>2. c = [e \in B |-> c[e]]
    OBVIOUS
  <2> HIDE DEF c, B
  <2>3. c \in [B -> A]
    BY <2>1, <2>2
  <2>4. ASSUME NEW d \in B, NEW e \in B, c[d] = c[e] PROVE d = e
    <3>1. <<d[1], 1>> = <<e[1], 1>>
      BY <2>1, <2>4
    <3>2. d[1] = e[1]
      BY <3>1
    <3> QED BY <2>1, <3>2
  <2> QED BY <2>3, <2>4 DEF Injection, IsInjective
<1> HIDE DEF B, c
<1>11. IsFiniteSet(B) /\ Cardinality(B) <= Cardinality(A) /\ Cardinality(B) \in Nat
  BY <1>5, <1>10, FS_Injection, FS_CardinalityType
<1>12. Cardinality(A \cup B) <= Cardinality(A) + Cardinality(B)
  <2>1. /\ IsFiniteSet(A \cup B) /\ IsFiniteSet(A \cap B)
        /\ Cardinality(A \cup B) = Cardinality(A) + Cardinality(B) - Cardinality(A \cap B)
    BY <1>5, <1>11, FS_Union, FS_Intersection
  <2>2. Cardinality(A \cap B) \in Nat /\ Cardinality(A \cup B) \in Nat
    BY <2>1, FS_CardinalityType
  <2> QED BY <1>5, <1>11, <2>1, <2>2
<1>13. Len(q) <= 4
  BY DEF q, hs
<1> QED BY <1>5, <1>6, <1>9, <1>11, <1>12, <1>13 DEF w

---------------------------------------------------------------------------
(* From a play to its text and back.                                       *)

LEMMA AmountsRead ==
  ASSUME NEW h, NEW g, NEW b, Amounts(h, g, b), NEW q, NEW f, Matches(f, DOMAIN q, q, DOMAIN h, h)
  PROVE  Amounts(q, g, b)
<1>1. /\ IsFiniteSet(DOMAIN h) /\ Cardinality(DOMAIN h) <= Cardinality(DOMAIN g)
      /\ \A p : Net(h, p) = Net(g, p)
      /\ \A e \in DOMAIN h : h[e][1] \in Outs(g) /\ h[e][2] \in Ins(g) /\ h[e][2] < h[e][1]
      /\ \A p \in Ins(g) : BlotAt(b, p) => \E e \in DOMAIN h : h[e][2] = p
  BY DEF Amounts
<1>2. OneForOne(f, DOMAIN q, DOMAIN h) /\ \A e \in DOMAIN q : q[e] = h[f[e]]
  BY DEF Matches
<1>3. IsFiniteSet(DOMAIN q) /\ Cardinality(DOMAIN q) = Cardinality(DOMAIN h)
  BY <1>1, <1>2, OneForOneCounts
<1>4. ASSUME NEW p PROVE Net(q, p) = Net(g, p)
  <2>1. \A c : Count(DOMAIN q, q, c, p) = Count(DOMAIN h, h, c, p)
    BY <1>1, MatchedCount
  <2>2. Net(q, p) = Net(h, p)
    BY <2>1 DEF Net
  <2> QED BY <1>1, <2>2
<1>5. \A e \in DOMAIN q : q[e][1] \in Outs(g) /\ q[e][2] \in Ins(g) /\ q[e][2] < q[e][1]
  BY <1>1, <1>2 DEF OneForOne
<1>6. ASSUME NEW p \in Ins(g), BlotAt(b, p) PROVE \E e \in DOMAIN q : q[e][2] = p
  <2>1. PICK d \in DOMAIN h : h[d][2] = p
    BY <1>1, <1>6
  <2>2. PICK e \in DOMAIN q : f[e] = d
    BY <1>2 DEF OneForOne
  <2> QED BY <1>2, <2>1, <2>2
<1>7. Cardinality(DOMAIN q) <= Cardinality(DOMAIN g)
  BY <1>1, <1>3
<1> QED BY <1>3, <1>4, <1>5, <1>6, <1>7 DEF Amounts

LEMMA AmountsOf ==
  ASSUME NEW h, NEW g, NEW b, Amounts(h, g, b), NEW an, IsFiniteSet(DOMAIN an),
         NEW f, Matches(f, DOMAIN g, g, DOMAIN an, an)
  PROVE  Amounts(h, an, b)
<1>1. OneForOne(f, DOMAIN g, DOMAIN an) /\ \A e \in DOMAIN g : g[e] = an[f[e]]
  BY DEF Matches
<1>2. Cardinality(DOMAIN g) = Cardinality(DOMAIN an)
  BY <1>1, OneForOneCounts
<1>3. \A p : Net(g, p) = Net(an, p)
  BY MatchedCount DEF Net
<1>4. Outs(g) = Outs(an) /\ Ins(g) = Ins(an)
  <2>1. \A e \in DOMAIN g : f[e] \in DOMAIN an /\ g[e] = an[f[e]]
    BY <1>1 DEF OneForOne
  <2>2. \A d \in DOMAIN an : \E e \in DOMAIN g : g[e] = an[d]
    BY <1>1 DEF OneForOne
  <2> QED BY <2>1, <2>2 DEF Outs, Ins
<1> QED BY <1>2, <1>3, <1>4 DEF Amounts

\* Points as they are numbered in text, and as they are numbered on the board.
Up(an)   == [k \in DOMAIN an |-> <<an[k][1] + 1, an[k][2] + 1>>]
Down(an) == [k \in DOMAIN an |-> <<an[k][1] - 1, an[k][2] - 1>>]

Shift(an, t) == [k \in DOMAIN an |-> <<an[k][1] + t, an[k][2] + t>>]

LEMMA Shifted ==
  ASSUME NEW an, Hops(an), NEW t \in Int
  PROVE  /\ Hops(Shift(an, t)) /\ DOMAIN Shift(an, t) = DOMAIN an /\ Len(Shift(an, t)) = Len(an)
         /\ \A k \in DOMAIN an : Shift(an, t)[k] = <<an[k][1] + t, an[k][2] + t>>
         /\ \A x \in Int : Net(Shift(an, t), x + t) = Net(an, x)
<1> DEFINE up == Shift(an, t)
<1>1. Len(an) \in Nat /\ DOMAIN an = 1..Len(an)
  BY LenProperties DEF Hops, IsList
<1>2. \A k \in DOMAIN an : an[k][1] \in Int /\ an[k][2] \in Int
  BY DEF Hops
<1>3. DOMAIN up = DOMAIN an /\ \A k \in DOMAIN an : up[k] = <<an[k][1] + t, an[k][2] + t>>
  BY DEF Shift
<1> HIDE DEF up
<1>4. IsList(up) /\ Len(up) = Len(an)
  BY <1>1, FunctionIsList DEF Shift, up
<1>5. \A k \in DOMAIN an : up[k][1] = an[k][1] + t /\ up[k][2] = an[k][2] + t
  BY <1>3
<1>6. Hops(up)
  BY <1>2, <1>3, <1>4, <1>5 DEF Hops
<1>7. ASSUME NEW x \in Int PROVE Net(up, x + t) = Net(an, x)
  <2>1. \A k \in DOMAIN an : (up[k][1] = x + t <=> an[k][1] = x) /\ (up[k][2] = x + t <=> an[k][2] = x)
    BY <1>2, <1>5
  <2>2. /\ {k \in DOMAIN up : up[k][1] = x + t} = {k \in DOMAIN an : an[k][1] = x}
        /\ {k \in DOMAIN up : up[k][2] = x + t} = {k \in DOMAIN an : an[k][2] = x}
    BY <1>3, <2>1
  <2> QED BY <2>2 DEF Net, Count
<1> QED BY <1>3, <1>4, <1>6, <1>7 DEF up

\* The rows that are to be joined: a way of one hop each, from the highest source down.
LEMMA RowsJoined ==
  ASSUME NEW b, NEW up, Hops(up), \A k \in DOMAIN up : up[k] = <<up[k][1], up[k][2]>> /\ up[k][2] < up[k][1]
  PROVE  LET rows == CanonicalMoveOrder(up)
             g    == HopsOf(rows)
         IN  /\ Joined(rows, g, b, Len(up), 0) /\ Falling(rows)
             /\ DOMAIN rows = 1..Len(up) /\ IsFiniteSet(DOMAIN g) /\ Cardinality(DOMAIN g) = Len(up)
             /\ \A k \in 1..Len(up) : <<k, 1>> \in DOMAIN g /\ g[<<k, 1>>] = rows[k]
             /\ \A e \in DOMAIN g : e[1] \in 1..Len(up) /\ g[e] = rows[e[1]]
             /\ \E f : Matches(f, DOMAIN g, g, DOMAIN up, up)
<1> DEFINE rows == CanonicalMoveOrder(up)
           n == Len(up)
           g == HopsOf(rows)
<1>1. n \in Nat /\ DOMAIN up = 1..n
  BY LenProperties DEF Hops, IsList
<1>2. Reordered(rows, up)
  BY CanonicalOrder
<1> HIDE DEF rows, n
<1>3. DOMAIN rows = 1..n /\ Falling(rows)
  BY <1>1, <1>2 DEF Reordered
<1>4. PICK f : OneForOne(f, 1..n, 1..n) /\ \A k \in 1..n : rows[k] = up[f[k]]
  BY <1>1, <1>2 DEF Reordered, Matches
<1>5. \A k \in 1..n : f[k] \in DOMAIN up /\ up[f[k]][1] \in Int /\ up[f[k]][2] \in Int
  BY <1>1, <1>4 DEF Hops, OneForOne
<1>6. ASSUME NEW k \in 1..n PROVE rows[k] \in Seq(Int) /\ Len(rows[k]) = 2 /\ rows[k] = <<rows[k][1], rows[k][2]>>
  <2> DEFINE x == up[f[k]][1]
             y == up[f[k]][2]
  <2>1. rows[k] = <<x, y>> /\ x \in Int /\ y \in Int
    BY <1>4, <1>5
  <2> HIDE DEF x, y
  <2> QED BY <2>1
<1>7. rows \in [1..n -> Seq(Int)]
  <2>1. rows = [k \in 1..n |-> rows[k]]
    BY <1>1, <1>3 DEF CanonicalMoveOrder, rows
  <2> QED BY <1>6, <2>1
<1>8. DOMAIN g = Places(rows)
  BY DEF HopsOf
<1>9. ASSUME NEW e
      PROVE  e \in Places(rows) <=> e \in Nat \X Nat /\ e[1] \in 1..n /\ e[2] = 1
  <2>1. e \in Places(rows) <=> e \in Nat \X Nat /\ e[1] \in 1..n /\ e[2] \in 1 .. Len(rows[e[1]]) - 1
    BY <1>3, PlaceIs
  <2>2. e[1] \in 1..n => (e[2] \in 1 .. Len(rows[e[1]]) - 1 <=> e[2] = 1)
    <3> SUFFICES ASSUME e[1] \in 1..n PROVE e[2] \in 1 .. Len(rows[e[1]]) - 1 <=> e[2] = 1
      OBVIOUS
    <3> DEFINE l == Len(rows[e[1]])
               c == e[2]
    <3>1. l = 2
      BY <1>6
    <3> HIDE DEF l, c
    <3>2. c \in 1 .. l - 1 <=> c = 1
      BY <3>1
    <3> QED BY <3>2 DEF l, c
  <2> QED BY <2>1, <2>2
<1>10. ASSUME NEW k \in 1..n PROVE <<k, 1>> \in DOMAIN g /\ g[<<k, 1>>] = rows[k]
  <2>1. k \in Nat /\ k \in DOMAIN rows /\ 1 \in 1 .. Len(rows[k]) - 1 /\ Len(rows[k]) \in Nat
    BY <1>1, <1>3, <1>6
  <2>2. <<k, 1>> \in Places(rows) /\ g[<<k, 1>>] = <<rows[k][1], rows[k][1 + 1]>>
    BY <2>1, HopIsThere
  <2> QED BY <1>6, <1>8, <2>2
<1>11. ASSUME NEW e \in DOMAIN g PROVE e[1] \in 1..n /\ g[e] = rows[e[1]] /\ e = <<e[1], 1>>
  <2>1. e \in Nat \X Nat /\ e[1] \in 1..n /\ e[2] = 1
    BY <1>8, <1>9
  <2>2. e = <<e[1], 1>>
    BY <2>1
  <2> QED BY <1>10, <2>1, <2>2
<1> HIDE DEF g
<1> DEFINE m == [e \in DOMAIN g |-> f[e[1]]]
<1>12. Matches(m, DOMAIN g, g, 1..n, up)
  <2>1. \A e \in DOMAIN g : m[e] = f[e[1]]
    OBVIOUS
  <2>2. m = [e \in DOMAIN g |-> m[e]]
    OBVIOUS
  <2> HIDE DEF m
  <2>3. m \in [DOMAIN g -> 1..n]
    BY <1>4, <1>11, <2>1, <2>2 DEF OneForOne
  <2>4. ASSUME NEW d \in DOMAIN g, NEW e \in DOMAIN g, m[d] = m[e] PROVE d = e
    <3>1. d[1] = e[1]
      BY <1>4, <1>11, <2>1, <2>4 DEF OneForOne
    <3> QED BY <1>11, <3>1
  <2>5. ASSUME NEW j \in 1..n PROVE \E e \in DOMAIN g : m[e] = j
    <3>1. PICK k \in 1..n : f[k] = j
      BY <1>4 DEF OneForOne
    <3>2. <<k, 1>> \in DOMAIN g /\ <<k, 1>>[1] = k
      BY <1>10
    <3> QED BY <2>1, <3>1, <3>2
  <2>6. \A e \in DOMAIN g : g[e] = up[m[e]]
    BY <1>4, <1>11, <2>1
  <2> QED BY <2>3, <2>4, <2>5, <2>6 DEF Matches, OneForOne
<1>13. IsFiniteSet(DOMAIN g) /\ Cardinality(DOMAIN g) = n
  <2>1. OneForOne(m, DOMAIN g, 1..n) /\ IsFiniteSet(1..n) /\ Cardinality(1..n) = n
    BY <1>1, <1>12, UpTo DEF Matches
  <2> HIDE DEF m
  <2> QED BY <2>1, OneForOneCounts
<1>14. Amounts(g, g, b)
  <2>1. \A e \in DOMAIN g : g[e][1] \in Outs(g) /\ g[e][2] \in Ins(g)
    BY DEF Outs, Ins
  <2>2. \A e \in DOMAIN g : g[e][2] < g[e][1]
    BY <1>4, <1>5, <1>11
  <2>3. \A p \in Ins(g) : \E e \in DOMAIN g : g[e][2] = p
    BY DEF Ins
  <2>4. Cardinality(DOMAIN g) <= Cardinality(DOMAIN g)
    BY <1>1, <1>13
  <2> QED BY <1>13, <2>1, <2>2, <2>3, <2>4 DEF Amounts
<1>15. Joined(rows, g, b, n, 0)
  BY <1>6, <1>7, <1>14 DEF Joined, g
<1>16. Matches(m, DOMAIN g, g, DOMAIN up, up)
  BY <1>1, <1>12
<1> QED BY <1>3, <1>10, <1>11, <1>13, <1>15, <1>16 DEF g, rows, n

LEMMA WaysStay ==
  ASSUME NEW b, NEW up, Hops(up), Len(up) # 0,
         \A k \in DOMAIN up : up[k] = <<up[k][1], up[k][2]>> /\ up[k][2] < up[k][1],
         NEW acc, NEW n \in Nat, HopWays(acc, n), Amounts(HopsOf(acc), HopsOf(CanonicalMoveOrder(up)), b)
  PROVE  Full(acc) # {}
<1> DEFINE rows == CanonicalMoveOrder(up)
           g == HopsOf(rows)
           h == HopsOf(acc)
           x == rows[1][1]
<1> SUFFICES ASSUME Full(acc) = {} PROVE FALSE
  OBVIOUS
<1>1. Len(up) \in Nat \ {0} /\ DOMAIN up = 1..Len(up)
  BY LenProperties DEF Hops, IsList
<1>2. /\ Falling(rows) /\ DOMAIN rows = 1..Len(up) /\ IsFiniteSet(DOMAIN g)
      /\ \A k \in 1..Len(up) : <<k, 1>> \in DOMAIN g /\ g[<<k, 1>>] = rows[k]
      /\ \A e \in DOMAIN g : e[1] \in 1..Len(up) /\ g[e] = rows[e[1]]
      /\ \E f : Matches(f, DOMAIN g, g, DOMAIN up, up)
  BY RowsJoined
<1>3. DOMAIN h = {}
  <2> SUFFICES ASSUME NEW e \in Places(acc) PROVE FALSE
    BY DEF HopsOf
  <2>1. e[1] \in 1..n /\ e[2] \in 1 .. Len(acc[e[1]]) - 1
    BY PlaceIs DEF HopWays
  <2>2. Len(acc[e[1]]) \in Nat
    BY <2>1, FullWay
  <2>3. Len(acc[e[1]]) >= 2
    BY <2>1, <2>2
  <2>4. e[1] \in Full(acc)
    BY <2>1, <2>3, FullWay
  <2> QED BY <2>4
<1>4. Net(h, x) = 0
  <2>1. {e \in DOMAIN h : h[e][1] = x} = {} /\ {e \in DOMAIN h : h[e][2] = x} = {}
    BY <1>3
  <2> HIDE DEF h, x
  <2>2. Count(DOMAIN h, h, 1, x) = 0 /\ Count(DOMAIN h, h, 2, x) = 0
    BY <2>1, FS_EmptySet, Zenon DEF Count
  <2>3. Net(h, x) = Count(DOMAIN h, h, 2, x) - Count(DOMAIN h, h, 1, x)
    BY Zenon DEF Net
  <2> QED BY <2>2, <2>3
<1>5. ASSUME NEW k \in 1..Len(up)
      PROVE  rows[k][1] \in Int /\ rows[k][2] \in Int /\ rows[k][2] < rows[k][1]
  <2> HIDE DEF rows
  <2>1. PICK f : Matches(f, DOMAIN g, g, DOMAIN up, up)
    BY <1>2
  <2>2. f[<<k, 1>>] \in DOMAIN up /\ rows[k] = up[f[<<k, 1>>]]
    BY <1>2, <2>1 DEF Matches, OneForOne
  <2> QED BY <2>2 DEF Hops
<1>6. 1 \in 1..Len(up)
  BY <1>1
<1> HIDE DEF rows, g, h
<1>7. ASSUME NEW e \in DOMAIN g PROVE g[e][2] # x
  <2> DEFINE k == e[1]
  <2>1. k \in 1..Len(up) /\ g[e] = rows[k]
    BY <1>2
  <2>2. rows[k][1] <= rows[1][1]
    <3>1. k = 1 \/ 1 < k
      BY <1>1, <2>1
    <3>2. 1 < k => rows[1][1] >= rows[k][1]
      BY <1>2, <1>6, <2>1 DEF Falling
    <3> HIDE DEF k
    <3> QED BY <1>5, <1>6, <2>1, <3>1, <3>2
  <2> HIDE DEF k
  <2> QED BY <1>5, <1>6, <2>1, <2>2
<1>8. Count(DOMAIN g, g, 2, x) = 0
  <2>1. {e \in DOMAIN g : g[e][2] = x} = {}
    BY <1>7
  <2> HIDE DEF x
  <2> QED BY <2>1, FS_EmptySet DEF Count
<1>9. Count(DOMAIN g, g, 1, x) # 0
  <2> DEFINE S == {e \in DOMAIN g : g[e][1] = x}
  <2>1. <<1, 1>> \in S
    BY <1>2, <1>6
  <2>2. IsFiniteSet(S)
    BY <1>2, FS_Subset
  <2> HIDE DEF S
  <2>3. Cardinality(S) # 0
    BY <2>1, <2>2, FS_EmptySet
  <2> QED BY <2>3 DEF Count, S
<1>10. Count(DOMAIN g, g, 1, x) \in Nat
  BY <1>2, CountIsNat
<1>11. Net(g, x) # 0
  <2> HIDE DEF x
  <2> QED BY <1>8, <1>9, <1>10 DEF Net
<1>12. Net(h, x) = Net(g, x)
  BY DEF Amounts, h, g, rows
<1> QED BY <1>4, <1>11, <1>12

\* A text of few hops from points and onto points or off is read, and for what it says.
LEMMA TextIsRead ==
  ASSUME NEW b, NEW up, Cardinality(DOMAIN up) \in 0..4,
         Outs(up) \subseteq 1 .. NPoints + 1, Ins(up) \subseteq 0..NPoints,
         NEW acc, NEW n \in Nat, HopWays(acc, n), Amounts(HopsOf(acc), up, b), Full(acc) # {}
  PROVE  LET p == ParseMove(TextOf(acc)) IN
         TextOf(acc) # <<>> /\ p # Unparsable /\ Hops(p) /\ Amounts(p, up, b)
<1> DEFINE ways == FlattenSeq(Repeated(TextOf(acc)))
           hops == FlattenSeq(Steps(ways))
           h == HopsOf(acc)
           p == ParseMove(TextOf(acc))
<1>1. DOMAIN acc = 1..n
  BY DEF HopWays
<1>2. TextOf(acc) # <<>> /\ \E beta : Copied(beta, ways, acc)
  BY <1>1, WaysAreRead
<1>3. PICK beta : Copied(beta, ways, acc)
  BY <1>2
<1>4. p = IF \/ Len(FlattenSeq(ways)) > 8 \/ Len(hops) > 4
             \/ \E k \in DOMAIN hops : hops[k][1] = 0 \/ hops[k][2] = NPoints + 1
          THEN Unparsable
          ELSE CanonicalMoveOrder(hops)
  BY ParseIs
<1> HIDE DEF ways
<1>5. IsList(hops) /\ \E f : Matches(f, 1..Len(hops), hops, Places(acc), h)
  BY <1>3, HopsAreRead
<1>6. Len(hops) <= 4 => Len(FlattenSeq(ways)) <= 8
  BY <1>3, FewPoints
<1> DEFINE w == FlattenSeq(ways)
<1>7. IsList(w) /\ Len(w) \in Nat
  <2>1. IsList(ways) /\ Len(ways) \in Nat /\ Len(ways) # 0 /\ \A k \in 1..Len(ways) : IsList(ways[k])
    <3>1. IsList(ways)
      BY <1>3 DEF Copied
    <3>2. Len(ways) \in Nat /\ \A k \in 1..Len(ways) : IsList(ways[k])
      BY <1>3, StepsOfWay
    <3>3. Len(ways) # 0
      BY <1>3, HopsAreRead
    <3> QED BY <3>1, <3>2, <3>3
  <2>2. \E f : Flat(w, f, ways, Len(ways))
    <3> DEFINE m == Len(ways)
    <3>1. m \in Nat \ {0} /\ Len(ways) = m /\ \A k \in 1..m : IsList(ways[k])
      BY <2>1
    <3> HIDE DEF m
    <3>2. \E f : Flat(w, f, ways, m)
      BY <2>1, <3>1, FlattenIsFlat
    <3> QED BY <3>2 DEF m
  <2>3. IsList(w)
    BY <2>2 DEF Flat
  <2> HIDE DEF w
  <2> QED BY <2>3, LenProperties DEF IsList
<1> HIDE DEF hops, w
<1>8. DOMAIN hops = 1..Len(hops) /\ Len(hops) \in Nat
  BY <1>5, LenProperties DEF IsList
<1>9. PICK f : Matches(f, DOMAIN hops, hops, DOMAIN h, h)
  BY <1>5, <1>8 DEF HopsOf
<1>10. Amounts(hops, up, b)
  BY <1>9, AmountsRead
<1>11. Len(hops) <= 4
  <2>1. Cardinality(DOMAIN hops) = Len(hops)
    BY <1>8, UpTo
  <2>2. Cardinality(DOMAIN hops) <= Cardinality(DOMAIN up)
    BY <1>10 DEF Amounts
  <2> HIDE DEF h
  <2> QED BY <1>8, <2>1, <2>2
<1>12. NPoints \in Nat
  BY BoardAssumption
<1>13. \A k \in DOMAIN hops : hops[k][1] \in 1 .. NPoints + 1 /\ hops[k][2] \in 0..NPoints
  BY <1>10 DEF Amounts
<1>14. \A k \in DOMAIN hops : /\ hops[k][1] \in Int /\ hops[k][2] \in Int
                              /\ hops[k][1] # 0 /\ hops[k][2] # NPoints + 1
  BY <1>12, <1>13
<1>15. Hops(hops)
  BY <1>5, <1>14 DEF Hops
<1> HIDE DEF p, h
<1>16. p = CanonicalMoveOrder(hops)
  <2>1. Len(w) <= 8
    BY <1>6, <1>11 DEF w
  <2>2. ~(Len(w) > 8) /\ ~(Len(hops) > 4)
    BY <1>7, <1>8, <1>11, <2>1
  <2> QED BY <1>4, <1>14, <2>2 DEF w
<1>17. Reordered(p, hops)
  BY <1>15, <1>16, CanonicalOrder
<1>18. PICK e : Matches(e, DOMAIN p, p, DOMAIN hops, hops)
  BY <1>17 DEF Reordered
<1>19. Amounts(p, up, b)
  BY <1>10, <1>18, AmountsRead
<1>20. \A k \in DOMAIN p : p[k][1] \in Int /\ p[k][2] \in Int /\ p[k][1] > 0
  BY <1>12, <1>19 DEF Amounts
<1>21. Hops(p)
  BY <1>17, <1>20 DEF Hops, Reordered
<1>22. p # Unparsable
  <2>1. DOMAIN Unparsable = 1..1 /\ Unparsable[1][1] = -1
    BY DEF Unparsable
  <2>2. 1 \in 1..1
    OBVIOUS
  <2> HIDE DEF Unparsable
  <2> QED BY <1>20, <2>1, <2>2
<1> QED BY <1>2, <1>19, <1>21, <1>22 DEF p

LEMMA UpIs ==
  ASSUME NEW an, Hops(an)
  PROVE  /\ Hops(Up(an)) /\ DOMAIN Up(an) = DOMAIN an /\ Len(Up(an)) = Len(an)
         /\ \A k \in DOMAIN an : Up(an)[k] = <<an[k][1] + 1, an[k][2] + 1>>
         /\ \A x \in Int : Net(Up(an), x + 1) = Net(an, x)
<1> DEFINE up == Up(an)
           t == 1
<1>1. t \in Int /\ up = Shift(an, t)
  BY DEF Up, Shift
<1> HIDE DEF up, t
<1>2. /\ Hops(up) /\ DOMAIN up = DOMAIN an /\ Len(up) = Len(an)
      /\ \A k \in DOMAIN an : up[k] = <<an[k][1] + t, an[k][2] + t>>
      /\ \A x \in Int : Net(up, x + t) = Net(an, x)
  BY <1>1, Shifted
<1>3. \A x : x + t = x + 1
  BY DEF t
<1>4. \A x \in Int : Net(up, x + 1) = Net(an, x)
  BY <1>2, <1>3
<1> QED BY <1>2, <1>3, <1>4 DEF up

LEMMA DownIs ==
  ASSUME NEW p, Hops(p)
  PROVE  /\ Hops(Down(p)) /\ DOMAIN Down(p) = DOMAIN p /\ Len(Down(p)) = Len(p)
         /\ \A k \in DOMAIN p : Down(p)[k] = <<p[k][1] - 1, p[k][2] - 1>>
         /\ \A x \in Int : Net(Down(p), x - 1) = Net(p, x)
<1> DEFINE down == Down(p)
           t == -1
<1>1. t \in Int /\ \A z \in Int : z + t = z - 1
  OBVIOUS
<1>2. \A k \in DOMAIN p : p[k][1] \in Int /\ p[k][2] \in Int
  BY DEF Hops
<1> HIDE DEF t
<1>3. down = Shift(p, t)
  BY <1>1, <1>2 DEF Down, Shift
<1> HIDE DEF down
<1>4. /\ Hops(down) /\ DOMAIN down = DOMAIN p /\ Len(down) = Len(p)
      /\ \A k \in DOMAIN p : down[k] = <<p[k][1] + t, p[k][2] + t>>
      /\ \A x \in Int : Net(down, x + t) = Net(p, x)
  BY <1>1, <1>3, Shifted
<1>5. \A k \in DOMAIN p : down[k] = <<p[k][1] - 1, p[k][2] - 1>>
  BY <1>1, <1>2, <1>4
<1>6. \A x \in Int : Net(down, x - 1) = Net(p, x)
  BY <1>1, <1>4
<1> QED BY <1>4, <1>5, <1>6 DEF down

\* Hops, numbered as in text, that do what the play does.
LEMMA SameMade ==
  ASSUME NEW b, Apart(b), NEW an, OpenHops(b, an), ApplyMove(b, an).rc = 0,
         NEW p, Hops(p), Amounts(p, Up(an), b)
  PROVE  ApplyMove(b, CanonicalMoveOrder(Down(p))).board = ApplyMove(b, an).board
<1> DEFINE up == Up(an)
           down == Down(p)
           q == CanonicalMoveOrder(down)
<1>1. Hops(an) /\ Len(an) \in Nat /\ DOMAIN an = 1..Len(an) /\ NPoints \in Nat
  BY LenProperties, BoardAssumption DEF OpenHops, Hops, IsList
<1>2. \A k \in DOMAIN an :
          /\ an[k][1] \in Slots /\ an[k][2] \in -1 .. NPoints - 1 /\ an[k][2] < an[k][1]
          /\ an[k][2] >= 0 => b[0][Mirror(an[k][2])] < 2
  BY DEF OpenHops
<1>3. /\ DOMAIN up = DOMAIN an
      /\ \A k \in DOMAIN an : up[k] = <<an[k][1] + 1, an[k][2] + 1>>
      /\ \A x \in Int : Net(up, x + 1) = Net(an, x)
  BY <1>1, UpIs
<1>4. /\ Hops(down) /\ DOMAIN down = DOMAIN p /\ Len(down) = Len(p)
      /\ \A k \in DOMAIN p : down[k] = <<p[k][1] - 1, p[k][2] - 1>>
      /\ \A x \in Int : Net(down, x - 1) = Net(p, x)
  BY DownIs
<1> HIDE DEF up, down
<1>5. /\ \A x : Net(p, x) = Net(up, x)
      /\ \A k \in DOMAIN p : p[k][1] \in Outs(up) /\ p[k][2] \in Ins(up) /\ p[k][2] < p[k][1]
      /\ \A x \in Ins(up) : BlotAt(b, x) => \E k \in DOMAIN p : p[k][2] = x
      /\ IsFiniteSet(DOMAIN p)
  BY DEF Amounts, up
<1>6. Reordered(q, down)
  BY <1>4, CanonicalOrder
<1> HIDE DEF q
<1>7. PICK f : Matches(f, DOMAIN q, q, DOMAIN down, down)
  BY <1>6 DEF Reordered
<1>8. \A k \in DOMAIN q : f[k] \in DOMAIN p /\ q[k] = <<p[f[k]][1] - 1, p[f[k]][2] - 1>>
  BY <1>4, <1>7 DEF Matches, OneForOne
<1>9. ASSUME NEW j \in DOMAIN p PROVE \E k \in DOMAIN q : q[k] = <<p[j][1] - 1, p[j][2] - 1>>
  <2>1. PICK k \in DOMAIN q : f[k] = j
    BY <1>4, <1>7 DEF Matches, OneForOne
  <2> QED BY <1>8, <2>1
<1>10. ASSUME NEW k \in DOMAIN p
       PROVE  /\ \E j \in DOMAIN an : p[k][1] = an[j][1] + 1
              /\ \E j \in DOMAIN an : p[k][2] = an[j][2] + 1
  <2>1. \E j \in DOMAIN up : p[k][1] = up[j][1]
    BY <1>5 DEF Outs
  <2>2. \E j \in DOMAIN up : p[k][2] = up[j][2]
    BY <1>5 DEF Ins
  <2> QED BY <1>3, <2>1, <2>2
<1>11. Slots \subseteq Int /\ \A x : x \in -1 .. NPoints - 1 => x \in Int
  BY <1>1 DEF Slots
<1>12. ASSUME NEW k \in DOMAIN q
       PROVE  /\ \E j \in DOMAIN an : q[k][1] = an[j][1]
              /\ \E j \in DOMAIN an : q[k][2] = an[j][2]
              /\ q[k][2] < q[k][1]
  <2> DEFINE m == f[k]
  <2>1. m \in DOMAIN p /\ q[k] = <<p[m][1] - 1, p[m][2] - 1>>
    BY <1>8
  <2> HIDE DEF m
  <2>2. q[k][1] = p[m][1] - 1 /\ q[k][2] = p[m][2] - 1
    BY <2>1
  <2>3. PICK i \in DOMAIN an : p[m][1] = an[i][1] + 1
    BY <1>10, <2>1
  <2>4. PICK j \in DOMAIN an : p[m][2] = an[j][2] + 1
    BY <1>10, <2>1
  <2>5. an[i][1] \in Int /\ an[j][2] \in Int /\ p[m][2] < p[m][1]
    BY <1>2, <1>5, <1>11, <2>1
  <2> QED BY <2>2, <2>3, <2>4, <2>5
<1>13. OpenHops(b, q)
  <2>1. \A k \in DOMAIN q : /\ q[k][1] \in Slots /\ q[k][2] \in -1 .. NPoints - 1 /\ q[k][2] < q[k][1]
                            /\ q[k][2] >= 0 => b[0][Mirror(q[k][2])] < 2
    BY <1>2, <1>12
  <2>2. Hops(q)
    BY <1>6, <1>11, <2>1 DEF Hops, Reordered
  <2> QED BY <2>1, <2>2 DEF OpenHops
<1>14. Falling(q) /\ DOMAIN q = 1..Len(q)
  BY <1>6, LenProperties DEF Reordered, IsList
<1>15. ASSUME NEW x \in Slots PROVE Net(q, x) = Net(an, x)
  <2>1. \A c, y : Count(DOMAIN q, q, c, y) = Count(DOMAIN down, down, c, y)
    BY <1>4, <1>5, <1>7, MatchedCount
  <2>2. Net(q, x) = Net(down, x)
    BY <2>1 DEF Net
  <2>3. x \in Int /\ x + 1 \in Int /\ (x + 1) - 1 = x
    BY <1>11
  <2>4. Net(down, x) = Net(p, x + 1)
    BY <1>4, <2>3
  <2> QED BY <1>3, <1>5, <2>2, <2>3, <2>4
<1>16. Hits(b, q, Len(q)) = Hits(b, an, Len(an))
  <2>1. ASSUME NEW x \in Blots(b), NEW k \in DOMAIN q, q[k][2] = x PROVE \E j \in DOMAIN an : an[j][2] = x
    BY <1>12, <2>1
  <2>2. ASSUME NEW x \in Blots(b), NEW j \in DOMAIN an, an[j][2] = x PROVE \E k \in DOMAIN q : q[k][2] = x
    <3>1. x \in 0 .. NPoints - 1 /\ b[0][Mirror(x)] = 1
      BY DEF Blots
    <3>2. x + 1 \in Ins(up)
      BY <1>3, <2>2 DEF Ins
    <3>3. NPoints - (x + 1) = Mirror(x)
      BY <1>1, <3>1 DEF Mirror
    <3>4. BlotAt(b, x + 1)
      BY <3>1, <3>3 DEF BlotAt
    <3>5. PICK m \in DOMAIN p : p[m][2] = x + 1
      BY <1>5, <3>2, <3>4
    <3>6. PICK k \in DOMAIN q : q[k] = <<p[m][1] - 1, p[m][2] - 1>>
      BY <1>9
    <3>7. q[k][2] = (x + 1) - 1 /\ x \in Int
      BY <3>1, <3>5, <3>6
    <3> QED BY <3>7
  <2> QED BY <1>1, <1>14, <2>1, <2>2 DEF Hits
<1>17. ApplyMove(b, q).board = ApplyMove(b, an).board
  BY <1>13, <1>14, <1>15, <1>16, SameEffect
<1> QED BY <1>17 DEF q, down

\* A play is read back from its text.
LEMMA TextLeadsThere ==
  ASSUME NEW b, Apart(b), NEW an, OpenHops(b, an), Len(an) \in 1..4, ApplyMove(b, an).rc = 0
  PROVE  LET text == FormatMove(b, an)
             p    == ParseMove(text)
         IN  /\ text # <<>> /\ p # Unparsable
             /\ ApplyMove(b, CanonicalMoveOrder(Down(p))).board = ApplyMove(b, an).board
<1> DEFINE up == Up(an)
           rows == CanonicalMoveOrder(up)
           g == HopsOf(rows)
           acc == Combine(b, rows)
           n == Len(an)
           p == ParseMove(TextOf(acc))
<1>1. Hops(an) /\ n \in Nat /\ DOMAIN an = 1..n /\ NPoints \in Nat /\ n # 0
  <2>1. Hops(an) /\ n \in Nat /\ DOMAIN an = 1..n /\ NPoints \in Nat
    BY LenProperties, BoardAssumption DEF OpenHops, Hops, IsList
  <2> HIDE DEF n
  <2>2. n \in 1..4
    BY DEF n
  <2> QED BY <2>1, <2>2
<1>2. \A k \in DOMAIN an : an[k][1] \in Slots /\ an[k][2] \in -1 .. NPoints - 1 /\ an[k][2] < an[k][1]
  BY DEF OpenHops
<1>3. /\ Hops(up) /\ DOMAIN up = DOMAIN an /\ Len(up) = n
      /\ \A k \in DOMAIN an : up[k] = <<an[k][1] + 1, an[k][2] + 1>>
  BY <1>1, UpIs
<1> HIDE DEF up, n
<1>4. ASSUME NEW k \in DOMAIN up
      PROVE  /\ up[k] = <<up[k][1], up[k][2]>> /\ up[k][2] < up[k][1]
             /\ up[k][1] \in 1 .. NPoints + 1 /\ up[k][2] \in 0..NPoints
  <2> DEFINE x == an[k][1]
             y == an[k][2]
  <2>1. x \in 0..NPoints /\ y \in -1 .. NPoints - 1 /\ y < x /\ up[k] = <<x + 1, y + 1>>
    BY <1>2, <1>3 DEF Slots
  <2> HIDE DEF x, y
  <2> QED BY <1>1, <2>1
<1>5. /\ Joined(rows, g, b, n, 0) /\ IsFiniteSet(DOMAIN g) /\ Cardinality(DOMAIN g) = n
      /\ \E f : Matches(f, DOMAIN g, g, DOMAIN up, up)
  BY <1>3, <1>4, RowsJoined
<1> HIDE DEF rows
<1>6. PICK f : Matches(f, DOMAIN g, g, DOMAIN up, up)
  BY <1>5
<1>7. Outs(g) \subseteq Int /\ Ins(g) \subseteq Int
  <2> HIDE DEF g
  <2>1. \A e \in DOMAIN g : f[e] \in DOMAIN up /\ g[e] = up[f[e]]
    BY <1>6 DEF Matches, OneForOne
  <2>2. \A k \in DOMAIN up : up[k][1] \in Int /\ up[k][2] \in Int
    BY <1>3 DEF Hops
  <2> QED BY <2>1, <2>2 DEF Outs, Ins
<1>8. Joined(acc, g, b, n, 16)
  <2> HIDE DEF g
  <2> QED BY <1>1, <1>5, <1>7, CombineJoins
<1> HIDE DEF acc
<1>9. HopWays(acc, n) /\ Amounts(HopsOf(acc), g, b)
  BY <1>8 DEF Joined, HopWays
<1>10. Full(acc) # {}
  BY <1>1, <1>3, <1>4, <1>9, WaysStay DEF rows
<1>11. IsFiniteSet(DOMAIN up) /\ Cardinality(DOMAIN up) \in 0..4
  <2>1. IsFiniteSet(1..n) /\ Cardinality(1..n) = n
    BY <1>1, UpTo
  <2> QED BY <1>1, <1>3, <2>1 DEF n
<1>12. Amounts(HopsOf(acc), up, b)
  <2> HIDE DEF g
  <2> QED BY <1>6, <1>9, <1>11, AmountsOf
<1>13. Outs(up) \subseteq 1 .. NPoints + 1 /\ Ins(up) \subseteq 0..NPoints
  BY <1>4 DEF Outs, Ins
<1>14. TextOf(acc) # <<>> /\ p # Unparsable /\ Hops(p) /\ Amounts(p, up, b)
  BY <1>1, <1>9, <1>10, <1>11, <1>12, <1>13, TextIsRead
<1>15. FormatMove(b, an) = TextOf(acc)
  BY FormatIs DEF acc, rows, up, Up
<1> HIDE DEF p
<1>16. ApplyMove(b, CanonicalMoveOrder(Down(p))).board = ApplyMove(b, an).board
  BY <1>14, SameMade DEF up
<1> QED BY <1>14, <1>15, <1>16 DEF p

---------------------------------------------------------------------------
(* The text of every play of the rules.                                    *)

\* What is listed is of the longest plays, and of the most pips.
LEMMA ListIsBest ==
  ASSUME NEW b, Legal(b), NEW x \in Dice, NEW y \in Dice
  PROVE  LET ml == GenerateMoves(b, x, y) IN
         \A e \in Range(ml.amMoves) : e.cMoves = ml.cMaxMoves /\ e.cPips = ml.cMaxPips
<1> DEFINE ml == GenerateMoves(b, x, y)
           Q == {p \in Range(Stream(b, x, y)) : p.an # <<>>}
<1>4. Kept(ml, Q)
  BY GeneratedIsKept
<1> HIDE DEF ml, Q
<1>5. \A e \in Range(ml.amMoves) : \E p \in Best(ml, Q) : e = Entry(p)
  BY <1>4 DEF Kept
<1>6. ASSUME NEW e \in Range(ml.amMoves) PROVE e.cMoves = ml.cMaxMoves /\ e.cPips = ml.cMaxPips
  <2>1. PICK p \in Best(ml, Q) : e = Entry(p)
    BY <1>5
  <2>2. e.cMoves = Len(p.an) /\ e.cPips = p.cPip
    BY <2>1 DEF Entry
  <2>3. Len(p.an) = ml.cMaxMoves /\ p.cPip = ml.cMaxPips
    BY DEF Best
  <2> QED BY <2>2, <2>3
<1> QED BY <1>6 DEF ml

\* Its hops are of one to four dice, to open points or off.
LEMMA ListedIsOpen ==
  ASSUME NEW b, b \in Boards, NEW x \in Dice, NEW y \in Dice,
         NEW e \in Range(GenerateMoves(b, x, y).amMoves), e.an # <<>>
  PROVE  OpenHops(b, e.an) /\ Len(e.an) \in 1..4
<1> DEFINE l == GenerateMoves(b, x, y).amMoves
<1>1. \A k \in DOMAIN l : \E p : Found(p, b, x, y) /\ l[k] = Entry(p)
  BY ListedIsFound
<1> HIDE DEF l
<1>2. PICK p : Found(p, b, x, y) /\ e = Entry(p)
  BY <1>1 DEF Range, l
<1>3. e.an = Clamped(p.an)
  BY <1>2 DEF Entry
<1> DEFINE an == Clamped(p.an)
<1>4. Hops(an)
  BY <1>2, FoundIsPlay
<1>5. PICK k \in Nat, r \in {RollOf(x, y), RollOf(y, x)} : Loose(p, k, r, b)
  BY <1>2 DEF Found
<1>6. IsRoll(r)
  BY RollsAre DEF IsDouble, IsPair
<1>7. ClampedIs(an, p, k)
  BY <1>5, ClampedHops DEF Loose
<1> HIDE DEF an
<1>8. k <= 4 /\ \A j \in 1..k : r[j] \in Dice
  <2> DEFINE n == Len(r)
  <2>1. (n = 2 \/ n = 4) /\ k <= n /\ \A j \in 1..n : r[j] \in Dice
    BY <1>5, <1>6 DEF IsRoll, Loose
  <2> HIDE DEF n
  <2>2. k <= 4 /\ \A j \in 1..k : j \in 1..n
    BY <2>1
  <2> QED BY <2>1, <2>2
<1>9. Len(an) = k /\ DOMAIN an = 1..k
  BY <1>7 DEF ClampedIs
<1>10. k # 0
  BY <1>3, <1>7, <1>9, EmptySeq DEF an, ClampedIs, IsList
<1>11. NPoints \in Nat /\ NFaces \in Nat
  BY BoardAssumption
<1>12. ASSUME NEW j \in 1..k
       PROVE  /\ an[j][1] \in Slots /\ an[j][2] \in -1 .. NPoints - 1 /\ an[j][2] < an[j][1]
              /\ an[j][2] >= 0 => b[0][Mirror(an[j][2])] < 2
  <2> DEFINE i == p.an[j][1]
             t == p.an[j][2]
             d == r[j]
  <2>1. i \in Slots /\ t = i - d /\ (t >= 0 => b[0][Mirror(t)] < 2)
    BY <1>5 DEF Loose
  <2>2. an[j][1] = i /\ an[j][2] = IF t > -1 THEN t ELSE -1
    BY <1>7 DEF ClampedIs
  <2>3. d \in 1..NFaces /\ i \in 0..NPoints
    BY <1>8, <2>1 DEF Dice, Slots
  <2> HIDE DEF i, t, d
  <2>4. t \in Int /\ t < i /\ t <= NPoints - 1
    BY <1>11, <2>1, <2>3
  <2>5. CASE t > -1
    BY <1>11, <2>1, <2>2, <2>4, <2>5
  <2>6. CASE ~(t > -1)
    BY <1>11, <2>1, <2>2, <2>3, <2>6
  <2> QED BY <2>5, <2>6
<1>13. OpenHops(b, an)
  BY <1>4, <1>9, <1>12 DEF OpenHops
<1>14. Len(an) \in 1..4
  BY <1>8, <1>9, <1>10
<1> QED BY <1>3, <1>13, <1>14 DEF an

\* The text made for a board the rules allow is taken for the play that leads there.
THEOREM TextIsTaken ==
  ASSUME NEW b, Legal(b), NEW x \in Dice, NEW y \in Dice, NEW cur \in RulePlays(b, x, y)
  PROVE  CommandMove(find_move(b, cur, x, y), b, x, y) = cur
<1> DEFINE ml == GenerateMoves(b, x, y)
           l == ml.amMoves
           R == RulePlays(b, x, y)
           found == {k \in DOMAIN l : /\ l[k].key = PositionKey(cur)
                                      /\ l[k].cMoves = ml.cMaxMoves /\ l[k].cPips = ml.cMaxPips}
           k == CHOOSE k \in found : \A j \in found : k <= j
           an == l[k].an
           text == FormatMove(b, an)
           p == ParseMove(text)
<1>1. find_move(b, cur, x, y) = IF found = {} THEN <<>> ELSE text
  BY Zenon DEF find_move
<1>2. GeneratedIs(ml, Range(Stream(b, x, y)), R)
  BY GeneratedListsRules
<1>3. \A e \in Range(l) : PlayedOut(e, b, R) /\ e.cMoves = ml.cMaxMoves /\ e.cPips = ml.cMaxPips
  BY EntryReplays, ListIsBest
<1>4. Apart(b) /\ b \in Boards
  BY DEF Legal, Apart
<1>5. \A e \in Range(l) : OpenHops(b, e.an) /\ Len(e.an) \in 1..4
  BY <1>3, <1>4, ListedIsOpen DEF PlayedOut
<1>6. IsList(l) /\ Legal(cur) /\ \E e \in Range(l) : e.key = PositionKey(cur)
  BY <1>2 DEF GeneratedIs
<1>7. Len(l) \in Nat /\ DOMAIN l = 1..Len(l) /\ \A j \in DOMAIN l : l[j] \in Range(l)
  BY <1>6, LenProperties DEF IsList, Range
<1>8. \A e \in Range(l) : \E j \in DOMAIN l : l[j] = e
  BY DEF Range
<1> HIDE DEF ml, R
<1>9. found # {} /\ found \in SUBSET DOMAIN l
  <2>1. PICK j \in DOMAIN l : l[j].key = PositionKey(cur)
    BY <1>6, <1>8
  <2>2. j \in found
    BY <1>3, <1>7, <2>1
  <2> QED BY <1>7, <2>2
<1>10. k \in found
  <2> HIDE DEF found
  <2>1. \E m \in found : \A j \in found : m <= j
    BY <1>7, <1>9, Extremes
  <2> QED BY <2>1
<1>11. k \in DOMAIN l /\ l[k].key = PositionKey(cur)
  <2> HIDE DEF k
  <2> QED BY <1>10
<1> HIDE DEF found, k, l
<1>12. PICK c \in R : Legal(c) /\ l[k].key = PositionKey(c) /\ ApplyMove(b, an) = [rc |-> 0, board |-> c]
  BY <1>3, <1>7, <1>11 DEF PlayedOut
<1>13. c = cur
  BY <1>6, <1>11, <1>12, KeyOfLegal
<1>14. OpenHops(b, an) /\ Len(an) \in 1..4
  BY <1>5, <1>7, <1>11
<1> HIDE DEF an
<1>15. ApplyMove(b, an).rc = 0 /\ ApplyMove(b, an).board = cur
  BY <1>12, <1>13
<1>16. /\ text # <<>> /\ p # Unparsable
       /\ ApplyMove(b, CanonicalMoveOrder(Down(p))).board = cur
  BY <1>4, <1>14, <1>15, TextLeadsThere
<1> HIDE DEF text
<1>17. find_move(b, cur, x, y) = text
  BY <1>1, <1>9
<1>18. board_in_list(ml, b, cur)
  BY <1>11, <1>15 DEF board_in_list, l, an
<1>19. parse_move_is_legal(text, b, x, y) = cur
  <2> DEFINE new == ApplyMove(b, CanonicalMoveOrder(Down(p))).board
  <2>1. parse_move_is_legal(text, b, x, y)
          = IF p # Unparsable /\ board_in_list(ml, b, new) THEN new ELSE NoBoard
    BY Zenon DEF parse_move_is_legal, Down, ml
  <2>2. new = cur
    BY <1>16
  <2> HIDE DEF new, p
  <2> QED BY <1>16, <1>18, <2>1, <2>2
<1>20. CommandMove(text, b, x, y) = parse_move_is_legal(text, b, x, y)
  BY <1>16, Zenon DEF CommandMove
<1> QED BY <1>17, <1>19, <1>20

\* Whenever gnubg waits for a fresh move, whichever play of the rules the human makes, the text
\* that find_move makes of it (FormatMove, which joins one chequer's hops, drops the points
\* between and counts what is alike) is read back by CommandMove as that play and no other.
THEOREM TextCorrect == Spec => []TextIsThePlay
<1>1. Init => Waits
  BY InitWaits
<1>2. Waits /\ [Next]_vars => Waits'
  BY StepKeepsWaits
<1>3. Waits => TextIsThePlay
  <2> SUFFICES ASSUME Waits, Fresh, NEW cur \in RulePlays(gnubg.board, Die(1), Die(2))
               PROVE  CommandMove(find_move(gnubg.board, cur, Die(1), Die(2)),
                                  gnubg.board, Die(1), Die(2)) = cur
    BY Zenon DEF TextIsThePlay
  <2>1. gnubg.board = gnubg.start.board
    BY DEF Fresh, Waits
  <2>2. Legal(gnubg.board) /\ Die(1) \in Dice /\ Die(2) \in Dice
    BY <2>1, StartIs
  <2> QED BY <2>2, TextIsTaken
<1> QED BY <1>1, <1>2, <1>3, PTL DEF Spec

---------------------------------------------------------------------------

\* The entry of a turn over gnubg's own generator and legality test, nothing assumed of
\* their answers: in every state the types hold, Undo leads home, every point lit up can be
\* dropped on, the lists are those of the rules, every play is read back from its text, and
\* what gnubg took is a play (GVM 1066-1330).
THEOREM EntryCorrect ==
  ASSUME BoundToMoveList
  PROVE  Spec => [](TypeOK /\ UndoLeadsHome /\ PreviewCanBeDropped /\ GeneratedAreTheRules /\ TextIsThePlay
               /\ GnubgTakesPlays)
<1>1. GnubgAssumed /\ GnubgPlays /\ GivenToCommandMove
  BY GnubgKeepsItsWord DEF BoundToMoveList
<1>2. Spec => []TypeOK
  BY <1>1, TypeCorrect
<1>3. Spec => []PreviewCanBeDropped
  BY <1>1, PreviewCorrect
<1>4. Spec => []GnubgTakesPlays
  BY <1>1, TakenCorrect
<1> QED BY <1>2, <1>3, <1>4, UndoCorrect, GeneratedCorrect, TextCorrect, PTL

====
