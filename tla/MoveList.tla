---- MODULE MoveList ----
(***************************************************************************)
(* The move generator of engine-core/eval.c, and the way a play travels    *)
(* from the board on the screen to gnubg: find_move writes it as text      *)
(* (FormatMove of drawboard.c), CommandMove reads the text (ParseMove) and *)
(* looks the board it leads to up in the generated list (play.c).          *)
(*                                                                         *)
(* A play, anMove, is a sequence of hops <<source, destination>>, -1 being *)
(* off.  A text is a sequence of items: the points of one chequer's way,   *)
(* counted from 1, 0 for "off" and NPoints + 1 for "bar", and how many     *)
(* chequers take it.  The hit marks, which ParseMove skips, are left out,  *)
(* and so is fPartial, which no caller sets.                               *)
(***************************************************************************)
EXTENDS Board, Sequences, SequencesExt

\* The keys hold the chequers of a point; a chequer enters on a point of the board.
ASSUME ListAssumption == NChequers <= 15 /\ NFaces <= NPoints

RollOf(n0, n1) == IF n0 = n1 THEN <<n0, n0, n0, n0>> ELSE <<n0, n1>>

Clamped(an) == [k \in DOMAIN an |-> <<an[k][1], IF an[k][2] > -1 THEN an[k][2] ELSE -1>>]

SaveMoves_NoPipsFault(ml, an, cPip, b) ==
    LET pm == [an |-> Clamped(an), key |-> PositionKey(b), cMoves |-> Len(an), cPips |-> cPip]
        kept == IF Len(an) > ml.cMaxMoves THEN <<>> ELSE ml.amMoves
        same == {k \in DOMAIN kept : kept[k].key = pm.key}
        better == {k \in same : Len(an) > kept[k].cMoves \/ cPip > kept[k].cPips}
    IN  IF Len(an) < ml.cMaxMoves THEN ml
        ELSE [cMaxMoves |-> Len(an), cMaxPips |-> cPip,
              amMoves |-> IF same = {} THEN Append(kept, pm)
                          ELSE [k \in DOMAIN kept |-> IF k \in better THEN pm ELSE kept[k]]]

SaveMoves(ml, an, cPip, b) ==
    LET pm == [an |-> Clamped(an), key |-> PositionKey(b), cMoves |-> Len(an), cPips |-> cPip]
        kept == IF Len(an) > ml.cMaxMoves \/ cPip > ml.cMaxPips THEN <<>> ELSE ml.amMoves
        same == {k \in DOMAIN kept : kept[k].key = pm.key}
        better == {k \in same : Len(an) > kept[k].cMoves \/ cPip > kept[k].cPips}
    IN  IF Len(an) < ml.cMaxMoves \/ cPip < ml.cMaxPips THEN ml
        ELSE [cMaxMoves |-> Len(an), cMaxPips |-> cPip,
              amMoves |-> IF same = {} THEN Append(kept, pm)
                          ELSE [k \in DOMAIN kept |-> IF k \in better THEN pm ELSE kept[k]]]

\* A play under way is what has been played so far and its pips, the board it leaves,
\* and the point from which the next chequer is looked for.  A chequer is taken from
\* the bar, while there is one, or from iPip downwards.
MayMove(p, i, n) ==
    IF p.board[1][Bar] > 0 THEN i = Bar /\ p.board[0][n - 1] < 2
    ELSE i <= p.iPip /\ p.board[1][i] > 0 /\ LegalMove(p.board, i, n)

Moved(p, i, anRoll) ==
    LET n == anRoll[Len(p.an) + 1] IN
    [an |-> Append(p.an, <<i, i - n>>), cPip |-> p.cPip + n,
     board |-> ApplySubMove(p.board, i, n).board,
     iPip |-> IF anRoll[1] = anRoll[2] /\ i # Bar THEN i ELSE NPoints - 1]

\* The calls one call makes: the plays one hop longer, from the highest chequer down.
\* Where there are none it returns TRUE, and the play stays to be saved.
Longer(p, anRoll) ==
    LET n == anRoll[Len(p.an) + 1]
        by[k \in 0 .. NPoints + 1] ==
            LET i == NPoints + 1 - k
            IN  IF k = 0 THEN <<>>
                ELSE IF MayMove(p, i, n) THEN Append(by[k - 1], Moved(p, i, anRoll)) ELSE by[k - 1]
    IN  IF Len(p.an) = Len(anRoll) THEN <<p>>
        ELSE IF by[NPoints + 1] = <<>> THEN <<p>> ELSE by[NPoints + 1]

Deeper(plays, anRoll) ==
    LET upTo[k \in 0 .. Len(plays)] ==
            IF k = 0 THEN <<>> ELSE upTo[k - 1] \o Longer(plays[k], anRoll)
    IN  upTo[Len(plays)]

\* The plays it saves, in that order.  No call reads the list it saves to, so the tree,
\* at most four hops deep, is laid out hop by hop.
GenerateMovesSub(anRoll, b) ==
    LET none == [an |-> <<>>, cPip |-> 0, board |-> b, iPip |-> NPoints - 1]
        by[hops \in 0..4] == IF hops = 0 THEN <<none>> ELSE Deeper(by[hops - 1], anRoll)
    IN  by[4]

GenerateMoves(b, n0, n1) ==
    LET none  == [amMoves |-> <<>>, cMaxMoves |-> 0, cMaxPips |-> 0]
        first == GenerateMovesSub(RollOf(n0, n1), b)
        \* nothing played is not saved
        Save(ml, p) == IF p.an = <<>> THEN ml ELSE SaveMoves(ml, p.an, p.cPip, p.board)
    IN  FoldLeft(Save, none,
                 IF n0 = n1 THEN first ELSE first \o GenerateMovesSub(RollOf(n1, n0), b))

\* Apply the hops of a play until one fails.
ApplyMove(b, an) ==
    FoldLeft(LAMBDA acc, hop : IF acc.rc # 0 THEN acc
                               ELSE ApplySubMove(acc.board, hop[1], hop[1] - hop[2]),
             [rc |-> 0, board |-> b], an)

---------------------------------------------------------------------------
(* Plays as text.                                                          *)

\* Of the places S the r-th, where before[k] are those that come before k.
Nth(S, before, r) == CHOOSE k \in S : Cardinality(before[k]) = r - 1

\* CompareMovesSimple: from the highest source down, then destination.
CanonicalMoveOrder(an) ==
    LET Before(j, k) ==
            \/ an[j][1] > an[k][1]
            \/ an[j][1] = an[k][1] /\ (an[j][2] > an[k][2] \/ (an[j][2] = an[k][2] /\ j < k))
        before == [k \in DOMAIN an |-> {j \in DOMAIN an : Before(j, k)}]
    IN  [r \in DOMAIN an |-> an[Nth(DOMAIN an, before, r)]]

Combine_NoHitFault(b, rows) ==
    LET pairs == [k \in 1..16 |-> <<1 + ((k - 1) \div 4), 1 + ((k - 1) % 4)>>]
        Join(acc, ij) ==
            LET i == ij[1] j == ij[2] IN
            IF /\ i < j /\ j <= Len(acc)
               /\ acc[i] # <<>> /\ acc[j] # <<>>
               /\ Last(acc[i]) = acc[j][1]
            THEN [acc EXCEPT ![j] = <<>>,
                             ![i] = Append(Front(acc[i]), Last(acc[j]))]
            ELSE acc
    IN  FoldLeft(Join, rows, pairs)

\* One chequer's hops become one way, in the place of the first; a point it hits on stays.
Combine(b, rows) ==
    LET pairs == [k \in 1..16 |-> <<1 + ((k - 1) \div 4), 1 + ((k - 1) % 4)>>]
        Join(acc, ij) ==
            LET i == ij[1] j == ij[2] IN
            IF /\ i < j /\ j <= Len(acc)
               /\ acc[i] # <<>> /\ acc[j] # <<>>
               /\ Last(acc[i]) = acc[j][1]
            THEN [acc EXCEPT ![j] = <<>>,
                             ![i] = IF b[0][NPoints - Last(acc[i])] > 0
                                    THEN Append(acc[i], Last(acc[j]))
                                    ELSE Append(Front(acc[i]), Last(acc[j]))]
            ELSE acc
    IN  FoldLeft(Join, rows, pairs)

FormatMove(b, an) ==
    LET rows  == CanonicalMoveOrder([k \in DOMAIN an |-> <<an[k][1] + 1, an[k][2] + 1>>])
        ways  == Combine(b, rows)
        first == {k \in DOMAIN ways : ways[k] # <<>> /\ \A j \in 1 .. k - 1 : ways[j] # ways[k]}
        before == [k \in first |-> {j \in first : j < k}]
        Item(k) == [pts |-> ways[k], n |-> Cardinality({j \in DOMAIN ways : ways[j] = ways[k]})]
    IN  [r \in 1 .. Cardinality(first) |-> Item(Nth(first, before, r))]

Unparsable == <<<<-1, -1>>>>

ParseMove(text) ==
    LET ways  == FlattenSeq([k \in DOMAIN text |-> [c \in 1 .. text[k].n |-> text[k].pts]])
        hops  == FlattenSeq([k \in DOMAIN ways |->
                    [h \in 1 .. Len(ways[k]) - 1 |-> <<ways[k][h], ways[k][h + 1]>>]])
    IN  IF \/ Len(FlattenSeq(ways)) > 8 \/ Len(hops) > 4
           \/ \E k \in DOMAIN hops : hops[k][1] = 0 \/ hops[k][2] = NPoints + 1
        THEN Unparsable
        ELSE CanonicalMoveOrder(hops)

board_in_list(ml, b, new) ==
    \E k \in DOMAIN ml.amMoves : ApplyMove(b, ml.amMoves[k].an).board = new

parse_move_is_legal_UncheckedFault(text, b, n0, n1) ==
    LET parsed == ParseMove(text)
        an  == CanonicalMoveOrder([k \in DOMAIN parsed |-> <<parsed[k][1] - 1, parsed[k][2] - 1>>])
        new == ApplyMove(b, an)
    IN  IF parsed # Unparsable /\ new.rc = 0 THEN new.board ELSE NoBoard

\* The board a text leads to, NoBoard if it is no legal play of the roll.
parse_move_is_legal(text, b, n0, n1) ==
    LET parsed == ParseMove(text)
        an  == CanonicalMoveOrder([k \in DOMAIN parsed |-> <<parsed[k][1] - 1, parsed[k][2] - 1>>])
        new == ApplyMove(b, an).board
    IN  IF parsed # Unparsable /\ board_in_list(GenerateMoves(b, n0, n1), b, new)
        THEN new ELSE NoBoard

\* What CommandMove makes of the board: without a text it plays what is forced.
CommandMove(text, b, n0, n1) ==
    LET ml == GenerateMoves(b, n0, n1) IN
    IF text # <<>> THEN parse_move_is_legal(text, b, n0, n1)
    ELSE CASE Len(ml.amMoves) = 0 -> b
           [] Len(ml.amMoves) = 1 -> ApplyMove(b, ml.amMoves[1].an).board
           [] OTHER               -> NoBoard

---------------------------------------------------------------------------
(* The facade.                                                             *)

\* gnubg_mobile_get_legal_moves
get_legal_moves(b, d0, d1) ==
    LET ml == GenerateMoves(b, d0, d1) IN [k \in DOMAIN ml.amMoves |-> ml.amMoves[k].an]

\* gnubg_mobile_find_move: the text of the play that leads from one board to another.
find_move(old, cur, d0, d1) ==
    LET ml == GenerateMoves(old, d0, d1)
        found == {k \in DOMAIN ml.amMoves :
                    /\ ml.amMoves[k].key = PositionKey(cur)
                    /\ ml.amMoves[k].cMoves = ml.cMaxMoves
                    /\ ml.amMoves[k].cPips = ml.cMaxPips}
    IN  IF found = {} THEN <<>>
        ELSE FormatMove(old, ml.amMoves[CHOOSE k \in found : \A j \in found : k <= j].an)

---------------------------------------------------------------------------
(* The rules of the game, against which the generator is checked.          *)

\* A chequer may be moved by a die: the bar first, not onto a made point, off
\* the board only when all are home and none is behind it that the die suits.
RuleAllows(b, i, d) ==
    /\ b[1][i] > 0
    /\ b[1][Bar] > 0 => i = Bar
    /\ IF i - d >= 0 THEN b[0][Mirror(i - d)] < 2
       ELSE /\ \A j \in NHome..NPoints : b[1][j] = 0
            /\ i - d = -1 \/ \A j \in i + 1 .. NHome - 1 : b[1][j] = 0

\* A way to play some of the dice, by the places in the roll of those that are left:
\* played on by any of these.
PlayedOn(ways, roll) ==
    UNION {UNION {{[board |-> ApplySubMove(w.board, i, roll[k]).board,
                    left |-> w.left \ {k}, n |-> w.n + 1, pips |-> w.pips + roll[k]] :
                        i \in {i \in Slots : RuleAllows(w.board, i, roll[k])}} :
                  k \in w.left} : w \in ways}

\* All ways to play some of the dice, in any order.
Ways(b, roll) ==
    LET none  == {[board |-> b, left |-> DOMAIN roll, n |-> 0, pips |-> 0]}
        one   == PlayedOn(none, roll)
        two   == PlayedOn(one, roll)
        three == PlayedOn(two, roll)
    IN  none \cup one \cup two \cup three \cup PlayedOn(three, roll)

\* The boards of the legal plays: as many dice as possible, of one the larger.
RulePlays(b, n0, n1) ==
    LET ways == Ways(b, RollOf(n0, n1))
        most == {w \in ways : \A v \in ways : v.n <= w.n}
        best == {w \in most : \A v \in most : v.pips <= w.pips}
    IN  {w.board : w \in {v \in best : v.n > 0}}
====
