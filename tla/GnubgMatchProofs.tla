---- MODULE GnubgMatchProofs ----
(***************************************************************************)
(* What GnubgMatch keeps, for matches of any length, any number of men and *)
(* any record: the inductive invariant (a game of the record replays       *)
(* legally, and the match state is what the replay up to the cursor        *)
(* leaves), the properties that follow from it, and the refinement of      *)
(* MatchScore.  The replay is a recursive function over the record, so the *)
(* facts about it are proved by induction on the record's length, for      *)
(* which SetInduction below stands in for the library's theorem.           *)
(***************************************************************************)
EXTENDS GnubgMatch, FiniteSetTheorems, FunctionTheorems, SequenceTheorems, TLAPS

---------------------------------------------------------------------------
(* Induction.  The library's theorem takes an operator; this one takes the *)
(* set of the numbers a fact is true of, and rests on the pigeonhole       *)
(* principle: were n missing, adding one would put the numbers up to n that*)
(* are in S into as many less one.                                         *)

\* Induction over the natural numbers, on the set a fact is true of.
LEMMA SetInduction ==
  ASSUME NEW S, 0 \in S, \A n \in Nat : n \in S => n + 1 \in S
  PROVE  Nat \subseteq S
<1> SUFFICES ASSUME NEW n \in Nat, n \notin S PROVE FALSE
  OBVIOUS
<1> DEFINE A == {i \in 0..n : i \in S}
           B == A \ {0}
           f == [i \in A |-> i + 1]
<1>1. IsFiniteSet(0..n) /\ A \subseteq 0..n /\ 0 \in A
  BY FS_Interval
<1>2. f \in [A -> B]
  OBVIOUS
<1>3. \A x, y \in A : x # y => f[x] # f[y]
  OBVIOUS
<1> HIDE DEF A, B, f
<1>4. IsFiniteSet(A) /\ Cardinality(A) \in Nat
  BY <1>1, FS_Subset, FS_CardinalityType
<1>5. IsFiniteSet(B) /\ Cardinality(B) = Cardinality(A) - 1
  BY <1>1, <1>4, FS_RemoveElement DEF B
<1>6. \E x, y \in A : x # y /\ f[x] = f[y]
  BY <1>2, <1>4, <1>5, FS_PigeonHole
<1> QED BY <1>3, <1>6

---------------------------------------------------------------------------
(* Functions defined by recursion on an interval.                          *)

\* f starts with x and goes on by step, n times.
Steps(f, n, x, step) == f[0] = x /\ \A i \in 1..n : f[i] = step[i][f[i - 1]]

\* A function that starts with x and goes on by given steps exists, of any length ...
LEMMA StepsExist ==
  ASSUME NEW X, NEW x \in X, NEW n \in Nat, NEW step \in [1..n -> [X -> X]]
  PROVE  \E f \in [0..n -> X] : Steps(f, n, x, step)
<1> DEFINE Good(k) == \E f \in [0..k -> X] : Steps(f, k, x, step)
           S == {k \in Nat : k <= n => Good(k)}
<1>1. 0 \in S
  <2>1. Steps([i \in 0..0 |-> x], 0, x, step)
    BY DEF Steps
  <2> QED BY <2>1
<1>2. ASSUME NEW k \in Nat, k \in S PROVE k + 1 \in S
  <2> SUFFICES ASSUME k + 1 <= n PROVE Good(k + 1)
    BY DEF S
  <2>1. PICK f \in [0..k -> X] : Steps(f, k, x, step)
    BY <1>2
  <2> DEFINE g == [i \in 0..(k + 1) |-> IF i <= k THEN f[i] ELSE step[k + 1][f[k]]]
  <2>2. step[k + 1] \in [X -> X] /\ f[k] \in X
    OBVIOUS
  <2>3. /\ g \in [0..(k + 1) -> X] /\ \A i \in 0..k : g[i] = f[i]
        /\ g[k + 1] = step[k + 1][f[k]]
    BY <2>2
  <2> HIDE DEF g
  <2>4. \A i \in 1..(k + 1) : (i \in 1..k /\ i \in 0..k /\ i - 1 \in 0..k) \/ i = k + 1
    OBVIOUS
  <2>5. \A i \in 1..k : g[i] = step[i][g[i - 1]]
    BY <2>1, <2>3, <2>4 DEF Steps
  <2>6. g[k + 1] = step[k + 1][g[(k + 1) - 1]] /\ g[0] = x
    BY <2>1, <2>3 DEF Steps
  <2>7. Steps(g, k + 1, x, step)
    BY <2>4, <2>5, <2>6 DEF Steps
  <2> QED BY <2>3, <2>7
<1>3. Nat \subseteq S
  <2> HIDE DEF S
  <2> QED BY <1>1, <1>2, SetInduction
<1> QED BY <1>3

\* ... and two of them agree as far as both go.
LEMMA StepsUnique ==
  ASSUME NEW n \in Nat, NEW x, NEW step, NEW f, NEW g,
         Steps(f, n, x, step), NEW k \in 0..n, Steps(g, k, x, step)
  PROVE  \A i \in 0..k : f[i] = g[i]
<1> DEFINE S == {i \in Nat : i <= k => f[i] = g[i]}
<1>1. 0 \in S
  BY DEF Steps
<1>2. ASSUME NEW i \in Nat, i \in S PROVE i + 1 \in S
  <2> SUFFICES ASSUME i + 1 <= k PROVE f[i + 1] = g[i + 1]
    OBVIOUS
  <2>1. i + 1 \in 1..n /\ i + 1 \in 1..k /\ (i + 1) - 1 = i
    OBVIOUS
  <2>2. f[i] = g[i]
    BY <1>2
  <2>3. f[i + 1] = step[i + 1][f[i]] /\ g[i + 1] = step[i + 1][g[i]]
    BY <2>1 DEF Steps
  <2> QED BY <2>2, <2>3
<1>3. Nat \subseteq S
  <2> HIDE DEF S
  <2> QED BY <1>1, <1>2, SetInduction
<1> QED BY <1>3

---------------------------------------------------------------------------
(* Powers of two.                                                          *)

\* The recursion that defines 1 << n has a solution: every power of two is a positive
\* number.
LEMMA ShlRecursion ==
  \A n \in Nat : Shl[n] \in Nat \ {0} /\ Shl[n] = IF n = 0 THEN 1 ELSE 2 * Shl[n - 1]
<1> DEFINE twice == [y \in Nat |-> 2 * y]
           step == [i \in Nat |-> twice]
           P(n, f) == f \in [0..n -> Nat] /\ Steps(f, n, 1, step)
           G(n) == CHOOSE f : P(n, f)
           F == [n \in Nat |-> G(n)[n]]
<1>1. ASSUME NEW n \in Nat PROVE P(n, G(n))
  <2> DEFINE some == [i \in 1..n |-> twice]
  <2>1. twice \in [Nat -> Nat]
    OBVIOUS
  <2> HIDE DEF twice
  <2>2. some \in [1..n -> [Nat -> Nat]] /\ \A i \in 1..n : some[i] = step[i]
    BY <2>1
  <2> HIDE DEF some, step
  <2>3. PICK f \in [0..n -> Nat] : Steps(f, n, 1, some)
    BY <2>2, StepsExist
  <2>4. P(n, f)
    BY <2>2, <2>3 DEF Steps
  <2> HIDE DEF P
  <2> QED BY <2>4
<1>2. ASSUME NEW n \in Nat
      PROVE  G(n)[n] \in Nat /\ G(n)[n] = IF n = 0 THEN 1 ELSE 2 * G(n - 1)[n - 1]
  <2> HIDE DEF G
  <2>1. P(n, G(n))
    BY <1>1
  <2>2. CASE n = 0
    BY <2>1, <2>2 DEF Steps
  <2>3. CASE n # 0
    <3>1. n - 1 \in Nat /\ n - 1 \in 0..n /\ n \in 1..n /\ n - 1 \in 0..(n - 1)
      BY <2>3
    <3>2. P(n - 1, G(n - 1))
      BY <1>1, <3>1
    <3>3. G(n)[n - 1] = G(n - 1)[n - 1]
      <4> HIDE DEF step
      <4> QED BY <2>1, <3>1, <3>2, StepsUnique
    <3>4. \A y \in Nat : step[n][y] = 2 * y
      OBVIOUS
    <3> HIDE DEF step
    <3>5. G(n)[n] = step[n][G(n)[n - 1]] /\ G(n)[n - 1] \in Nat /\ G(n)[n] \in Nat
      BY <2>1, <3>1 DEF Steps
    <3> QED BY <2>3, <3>3, <3>4, <3>5
  <2> QED BY <2>2, <2>3
<1> HIDE DEF G
<1>3. \A n \in Nat : F[n] = G(n)[n]
  OBVIOUS
<1>4. \A n \in Nat : n # 0 => n - 1 \in Nat
  OBVIOUS
<1>5. F = [n \in Nat |-> F[n]]
  OBVIOUS
<1> HIDE DEF F
<1>6. \A n \in Nat : F[n] \in Nat /\ F[n] = IF n = 0 THEN 1 ELSE 2 * F[n - 1]
  BY <1>2, <1>3, <1>4
<1>7. F = [n \in Nat |-> IF n = 0 THEN 1 ELSE 2 * F[n - 1]]
  BY <1>5, <1>6
<1> DEFINE Q(f) == f = [n \in Nat |-> IF n = 0 THEN 1 ELSE 2 * f[n - 1]]
<1>8. Shl = CHOOSE f : Q(f)
  BY DEF Shl
<1>9. Q(Shl)
  <2>1. Q(F)
    BY <1>7
  <2> HIDE DEF Q
  <2> QED BY <1>8, <2>1
<1>10. \A n \in Nat : Shl[n] = IF n = 0 THEN 1 ELSE 2 * Shl[n - 1]
  BY <1>9
<1> DEFINE T == {n \in Nat : Shl[n] \in Nat \ {0}}
<1>11. 0 \in T
  BY <1>10
<1>12. ASSUME NEW n \in Nat, n \in T PROVE n + 1 \in T
  <2>1. n + 1 \in Nat /\ n + 1 # 0 /\ (n + 1) - 1 = n
    OBVIOUS
  <2>2. Shl[n + 1] = 2 * Shl[n]
    BY <1>10, <2>1
  <2> QED BY <1>12, <2>2
<1>13. Nat \subseteq T
  <2> HIDE DEF T
  <2> QED BY <1>11, <1>12, SetInduction
<1> QED BY <1>10, <1>13

\* Shifting once more doubles.
LEMMA ShlStep == \A n \in Nat : Shl[n + 1] = 2 * Shl[n]
<1>1. \A n \in Nat : n + 1 \in Nat /\ n + 1 # 0 /\ (n + 1) - 1 = n
  OBVIOUS
<1> QED BY <1>1, ShlRecursion

\* A cube below MAX_CUBE can be turned once more.
LEMMA CubeRoom ==
  ASSUME NEW i \in Nat, Shl[i] < MaxCube
  PROVE  Shl[i + 1] <= MaxCube
<1> DEFINE S == {d \in Nat : \A j \in Nat : Shl[j] <= Shl[j + d]}
<1>1. 0 \in S
  BY ShlRecursion
<1>2. ASSUME NEW d \in Nat, d \in S PROVE d + 1 \in S
  <2> SUFFICES ASSUME NEW j \in Nat PROVE Shl[j] <= Shl[j + (d + 1)]
    OBVIOUS
  <2>1. Shl[j] <= Shl[j + d] /\ j + d \in Nat /\ j + (d + 1) = (j + d) + 1
    BY <1>2
  <2>2. Shl[(j + d) + 1] = 2 * Shl[j + d] /\ Shl[j] \in Nat /\ Shl[j + d] \in Nat
    BY <2>1, ShlStep, ShlRecursion
  <2> QED BY <2>1, <2>2
<1>3. Nat \subseteq S
  <2> HIDE DEF S
  <2> QED BY <1>1, <1>2, SetInduction
<1>4. PICK n \in Nat : MaxCube = Shl[n]
  BY CubeAssumption, ConstantsAssumption
<1>5. \A j, k \in Nat : j <= k => Shl[j] <= Shl[k]
  <2> SUFFICES ASSUME NEW j \in Nat, NEW k \in Nat, j <= k PROVE Shl[j] <= Shl[k]
    OBVIOUS
  <2> DEFINE d == k - j
  <2>1. d \in Nat /\ j + d = k
    OBVIOUS
  <2> HIDE DEF d
  <2>2. d \in S
    BY <1>3, <2>1
  <2> QED BY <2>1, <2>2
<1>6. n > i
  <2>1. ~(n <= i)
    BY <1>4, <1>5, ShlRecursion
  <2> QED BY <2>1
<1>7. i + 1 \in Nat /\ i + 1 <= n
  BY <1>6
<1> QED BY <1>4, <1>5, <1>7

---------------------------------------------------------------------------
(* The replay of a record, unfolded.                                       *)

\* f is a function on 0..n.
IsOn(f, n) == f = [i \in 0..n |-> f[i]]

\* f goes from b through the first n of the records.
Path(f, b, recs, n) ==
    IsOn(f, n) /\ f[0] = b /\ \A i \in 1..n : f[i] = FixAndApply(f[i - 1].ms, f[i - 1].info, recs[i])

\* A record can be replayed from any state to any length: the function of the states passed
\* exists ...
LEMMA PathExists ==
  ASSUME NEW b, NEW recs
  PROVE  \A n \in Nat : \E f : Path(f, b, recs, n)
<1> DEFINE S == {n \in Nat : \E f : Path(f, b, recs, n)}
<1>1. 0 \in S
  <2> DEFINE f == [i \in 0..0 |-> b]
  <2>1. IsOn(f, 0) /\ f[0] = b
    BY DEF IsOn
  <2>2. Path(f, b, recs, 0)
    BY <2>1 DEF Path
  <2> QED BY <2>2
<1>2. ASSUME NEW n \in Nat, n \in S PROVE n + 1 \in S
  <2>1. PICK f : Path(f, b, recs, n)
    BY <1>2
  <2> DEFINE g == [i \in 0..(n + 1) |->
                      IF i <= n THEN f[i] ELSE FixAndApply(f[n].ms, f[n].info, recs[n + 1])]
  <2>2. /\ IsOn(g, n + 1) /\ \A i \in 0..n : g[i] = f[i]
        /\ g[n + 1] = FixAndApply(f[n].ms, f[n].info, recs[n + 1])
    BY DEF IsOn
  <2> HIDE DEF g
  <2>3. \A i \in 1..(n + 1) : (i \in 1..n /\ i \in 0..n /\ i - 1 \in 0..n) \/ i = n + 1
    OBVIOUS
  <2>4. \A i \in 1..n : g[i] = FixAndApply(g[i - 1].ms, g[i - 1].info, recs[i])
    BY <2>1, <2>2, <2>3 DEF Path
  <2>5. g[n + 1] = FixAndApply(g[(n + 1) - 1].ms, g[(n + 1) - 1].info, recs[n + 1]) /\ g[0] = b
    <3>1. (n + 1) - 1 = n /\ n \in 0..n /\ 0 \in 0..n
      OBVIOUS
    <3> QED BY <2>1, <2>2, <3>1 DEF Path
  <2>6. \A i \in 1..(n + 1) : g[i] = FixAndApply(g[i - 1].ms, g[i - 1].info, recs[i])
    BY <2>3, <2>4, <2>5
  <2>7. Path(g, b, recs, n + 1)
    BY <2>2, <2>5, <2>6 DEF Path
  <2> QED BY <2>7
<1>3. Nat \subseteq S
  <2> HIDE DEF S
  <2> QED BY <1>1, <1>2, SetInduction
<1> QED BY <1>3

\* ... and is the only one.
LEMMA PathUnique ==
  ASSUME NEW b, NEW recs, NEW f, NEW n \in Nat, Path(f, b, recs, n),
         NEW g, NEW k \in 0..n, Path(g, b, recs, k)
  PROVE  \A i \in 0..k : f[i] = g[i]
<1> DEFINE S == {i \in Nat : i <= k => f[i] = g[i]}
<1>1. 0 \in S
  BY DEF Path
<1>2. ASSUME NEW i \in Nat, i \in S PROVE i + 1 \in S
  <2> SUFFICES ASSUME i + 1 <= k PROVE f[i + 1] = g[i + 1]
    OBVIOUS
  <2>1. i + 1 \in 1..n /\ i + 1 \in 1..k /\ (i + 1) - 1 = i
    OBVIOUS
  <2>2. f[i] = g[i]
    BY <1>2
  <2>3. f[i + 1] = FixAndApply(f[i].ms, f[i].info, recs[i + 1]) /\ g[i + 1] = FixAndApply(g[i].ms, g[i].info, recs[i + 1])
    BY <2>1 DEF Path
  <2> QED BY <2>2, <2>3
<1>3. Nat \subseteq S
  <2> HIDE DEF S
  <2> QED BY <1>1, <1>2, SetInduction
<1> QED BY <1>3

\* Replayed is the end of that path.
LEMMA ReplayedIsPath ==
  ASSUME NEW m, NEW game, NEW k \in Nat
  PROVE  \E f : /\ Path(f, GoesOn(ApplyGameInfo(m, game.info), game.info), game.recs, k)
                /\ Replayed(m, game, k) = f[k]
<1> DEFINE b == GoesOn(ApplyGameInfo(m, game.info), game.info)
           Q(f) == f = [i \in 0..k |-> IF i = 0 THEN b ELSE FixAndApply(f[i - 1].ms, f[i - 1].info, game.recs[i])]
<1>1. PICK f : Path(f, b, game.recs, k)
  <2> HIDE DEF b
  <2> QED BY PathExists
<1>2. Q(f)
  <2> HIDE DEF b
  <2>1. \A i \in 0..k : i = 0 \/ i \in 1..k
    OBVIOUS
  <2>2. \A i \in 0..k : f[i] = IF i = 0 THEN b ELSE FixAndApply(f[i - 1].ms, f[i - 1].info, game.recs[i])
    BY <1>1, <2>1 DEF Path
  <2>3. f = [i \in 0..k |-> f[i]]
    BY <1>1 DEF Path, IsOn
  <2> QED BY <2>2, <2>3
<1> DEFINE after == CHOOSE g : Q(g)
<1>3. Q(after)
  <2> HIDE DEF Q
  <2> QED BY <1>2
<1>4. Replayed(m, game, k) = after[k]
  BY DEF Replayed
<1>5. Path(after, b, game.recs, k)
  <2> HIDE DEF after, b
  <2>1. IsOn(after, k)
    BY <1>3 DEF IsOn
  <2>2. after[0] = b /\ \A i \in 1..k : after[i] = FixAndApply(after[i - 1].ms, after[i - 1].info, game.recs[i])
    <3>1. \A i \in 0..k : after[i] = IF i = 0 THEN b ELSE FixAndApply(after[i - 1].ms, after[i - 1].info, game.recs[i])
      BY <1>3
    <3>2. 0 \in 0..k /\ \A i \in 1..k : i \in 0..k /\ i # 0
      OBVIOUS
    <3> QED BY <3>1, <3>2
  <2> QED BY <2>1, <2>2 DEF Path
<1> HIDE DEF after
<1> QED BY <1>4, <1>5

\* After no record a game is what its GAMEINFO says, after one more it is what that record
\* makes of it (CalculateBoard's loop).
LEMMA ReplayedUnfolds ==
  ASSUME NEW m, NEW game
  PROVE  /\ Replayed(m, game, 0) = GoesOn(ApplyGameInfo(m, game.info), game.info)
         /\ \A k \in Nat : Replayed(m, game, k + 1) =
                 FixAndApply(Replayed(m, game, k).ms, Replayed(m, game, k).info, game.recs[k + 1])
<1> DEFINE b == GoesOn(ApplyGameInfo(m, game.info), game.info)
<1>1. \A k \in Nat : \E f : Path(f, b, game.recs, k) /\ Replayed(m, game, k) = f[k]
  BY ReplayedIsPath
<1> HIDE DEF b
<1>2. Replayed(m, game, 0) = b
  BY <1>1 DEF Path
<1>3. ASSUME NEW k \in Nat
      PROVE  Replayed(m, game, k + 1) =
                 FixAndApply(Replayed(m, game, k).ms, Replayed(m, game, k).info, game.recs[k + 1])
  <2>1. PICK f : Path(f, b, game.recs, k) /\ Replayed(m, game, k) = f[k]
    BY <1>1
  <2>2. PICK g : Path(g, b, game.recs, k + 1) /\ Replayed(m, game, k + 1) = g[k + 1]
    BY <1>1
  <2>3. g[k] = f[k]
    BY <2>1, <2>2, PathUnique
  <2>4. g[k + 1] = FixAndApply(g[(k + 1) - 1].ms, g[(k + 1) - 1].info, game.recs[k + 1])
    <3>1. k + 1 \in 1..(k + 1)
      OBVIOUS
    <3> QED BY <2>2, <3>1 DEF Path
  <2>5. (k + 1) - 1 = k
    OBVIOUS
  <2> QED BY <2>1, <2>2, <2>3, <2>4, <2>5
<1> QED BY <1>2, <1>3 DEF b

---------------------------------------------------------------------------
(* Match states, and what each record makes of one.                        *)

\* Whose turn it can be.
Who == Players \cup {Nobody}
\* The states a game can end in.
Ended == {"over", "drop", "resigned"}

\* The fields of a match state.
Fields == {"gs", "turn", "move", "dice", "doubled", "resigned", "declined", "cube", "owner",
           "beavers", "score", "cGames", "crawford", "post", "nMatchTo", "board"}

\* m is a function ...
IsFcn(m) == m = [f \in DOMAIN m |-> m[f]]

\* ... and a match state.
IsState(m) == DOMAIN m = Fields /\ IsFcn(m)

\* The records of a game.
Records == [mt : RecordKinds, p : Players, n : 0..3]

\* A record field by field changed is a function, which the equality of match states rests
\* on.
LEMMA ExceptIsFcn == ASSUME NEW m, NEW f, NEW v PROVE IsFcn([m EXCEPT ![f] = v])
BY DEF IsFcn

\* Two match states that agree on every field are equal.
LEMMA SameState ==
  ASSUME NEW a, NEW b, IsState(a), IsState(b),
         a.gs = b.gs, a.turn = b.turn, a.move = b.move, a.dice = b.dice,
         a.doubled = b.doubled, a.resigned = b.resigned, a.declined = b.declined,
         a.cube = b.cube, a.owner = b.owner, a.beavers = b.beavers, a.score = b.score,
         a.cGames = b.cGames, a.crawford = b.crawford, a.post = b.post,
         a.nMatchTo = b.nMatchTo, a.board = b.board
  PROVE  a = b
BY DEF IsState, Fields, IsFcn

\* There are two players.
LEMMA OtherPlayer ==
  /\ \A p \in Players : Other(p) \in Players /\ Other(p) # p /\ Other(Other(p)) = p
  /\ \A p, q \in Players : p # q => q = Other(p)
  /\ Players = {0, 1} /\ Nobody \notin Players
BY DEF Players, Other, Human, Gnu, Nobody

\* The human and the computer are the two players.
LEMMA HumanIs == Human \in Players /\ Gnu \in Players /\ Human # Gnu /\ Other(Human) = Gnu /\ Other(Gnu) = Human
BY DEF Human, Gnu, Players, Other

\* SwapSides exchanges the two counts.
LEMMA SwapSidesIs ==
  ASSUME NEW b
  PROVE  /\ SwapSides(b) = [i \in Players |-> IF i = 0 THEN b[1] ELSE b[0]]
         /\ SwapSides(b)[0] = b[1] /\ SwapSides(b)[1] = b[0]
BY DEF SwapSides, Players, Human, Gnu

\* All men on the board.
FullBoard == [i \in Players |-> Men]

\* The opening position looks the same from both sides.
LEMMA FullBoardSwaps == SwapSides(FullBoard) = FullBoard
BY DEF FullBoard, SwapSides, Players, Human, Gnu

\* One of the players needs one more point.
OneAway(info) == \E p \in Players : info.score[p] = info.nMatch - 1

\* The match state a game's info leaves.
Base(info) ==
    [gs |-> "none", turn |-> Nobody, move |-> Nobody, dice |-> NoDice, doubled |-> FALSE,
     resigned |-> 0, declined |-> 0, cube |-> Shl[info.auto], owner |-> Nobody,
     beavers |-> 0, score |-> info.score, cGames |-> info.i, crawford |-> info.crawford,
     post |-> ~info.crawford /\ OneAway(info), nMatchTo |-> info.nMatch, board |-> FullBoard]

\* A GAMEINFO sets every field: what came before it is forgotten.
LEMMA GameInfoForgets ==
  ASSUME NEW m, IsState(m), NEW info
  PROVE  ApplyGameInfo(m, info) = Base(info) /\ IsState(Base(info))
<1> DEFINE y == ApplyGameInfo(m, info)
           b == Base(info)
<1>1. /\ IsState(y) /\ y.gs = "none" /\ y.turn = Nobody /\ y.move = Nobody /\ y.dice = NoDice
      /\ y.doubled = FALSE /\ y.resigned = 0 /\ y.declined = 0 /\ y.cube = Shl[info.auto]
      /\ y.owner = Nobody /\ y.beavers = 0 /\ y.score = info.score /\ y.cGames = info.i
      /\ y.crawford = info.crawford /\ y.post = (~info.crawford /\ OneAway(info))
      /\ y.nMatchTo = info.nMatch /\ y.board = FullBoard
  BY ExceptIsFcn DEF IsState, Fields, ApplyGameInfo, OneAway, FullBoard
<1>2. /\ IsState(b) /\ b.gs = "none" /\ b.turn = Nobody /\ b.move = Nobody /\ b.dice = NoDice
      /\ b.doubled = FALSE /\ b.resigned = 0 /\ b.declined = 0 /\ b.cube = Shl[info.auto]
      /\ b.owner = Nobody /\ b.beavers = 0 /\ b.score = info.score /\ b.cGames = info.i
      /\ b.crawford = info.crawford /\ b.post = (~info.crawford /\ OneAway(info))
      /\ b.nMatchTo = info.nMatch /\ b.board = FullBoard
  BY DEF IsState, Fields, Base, IsFcn
<1> HIDE DEF y, b
<1>3. y = b
  BY <1>1, <1>2, SameState
<1> QED BY <1>2, <1>3 DEF y, b

\* What a roll makes of m.
Rolled(y, m, info, r) ==
    /\ y.info = info /\ IsState(y.ms)
    /\ y.ms.gs = "playing" /\ y.ms.turn = r.p /\ y.ms.move = r.p /\ y.ms.dice = r.n
    /\ y.ms.doubled = FALSE /\ y.ms.resigned = 0 /\ y.ms.declined = 0
    /\ y.ms.cube = m.cube /\ y.ms.owner = m.owner /\ y.ms.beavers = m.beavers
    /\ y.ms.score = m.score /\ y.ms.cGames = m.cGames /\ y.ms.crawford = m.crawford
    /\ y.ms.post = m.post /\ y.ms.nMatchTo = m.nMatchTo
    /\ y.ms.board = IF m.move # r.p THEN SwapSides(m.board) ELSE m.board

\* What ApplyMoveRecord makes of a roll.
LEMMA SetDiceStep ==
  ASSUME NEW m, IsState(m), NEW info, NEW r \in Records, r.mt = "setdice"
  PROVE  Rolled(FixAndApply(m, info, r), m, info, r)
BY ExceptIsFcn DEF IsState, Fields, FixAndApply, FixMatchState, ApplyMoveRecord, ApplySetDice,
   Records, GoesOn, Rolled

\* What the end of a game makes of m: w wins n points.
Decided(y, m, info, gs, w, n) ==
    /\ IsState(y.ms)
    /\ y.ms.gs = gs /\ y.ms.turn = m.turn /\ y.ms.move = m.move /\ y.ms.dice = m.dice
    /\ y.ms.doubled = m.doubled /\ y.ms.resigned = m.resigned
    /\ y.ms.declined = m.declined /\ y.ms.cube = m.cube /\ y.ms.owner = m.owner
    /\ y.ms.beavers = m.beavers /\ y.ms.crawford = m.crawford
    /\ y.ms.post = m.post /\ y.ms.nMatchTo = m.nMatchTo /\ y.ms.board = m.board
    /\ y.ms.score = [m.score EXCEPT ![w] = @ + n] /\ y.ms.cGames = m.cGames + 1
    /\ y.info = [info EXCEPT !.winner = w, !.points = n]

\* What the end of a game does to the match state and to the game's info.
LEMMA GameOverIs ==
  ASSUME NEW m, IsState(m), NEW info, NEW gs, NEW w, NEW n
  PROVE  Decided(GameOver(m, info, gs, w, n), m, info, gs, w, n)
BY ExceptIsFcn DEF IsState, Fields, GameOver, Decided

\* Whoever moves from a state with it on turn, or from the first position, leaves the same.
Moved(y, m, info, r) ==
    LET B == [i \in Players |-> IF i = 0 THEN m.board[1] - r.n ELSE m.board[0]]
        points == m.cube * (IF m.owner = Nobody /\ m.nMatchTo = 0 THEN 1 ELSE GameStatus(B))
    IN
    /\ IsState(y.ms)
    /\ y.ms.turn = Other(r.p) /\ y.ms.move = Other(r.p) /\ y.ms.dice = NoDice
    /\ y.ms.doubled = FALSE /\ y.ms.resigned = 0 /\ y.ms.declined = 0
    /\ y.ms.cube = m.cube /\ y.ms.owner = m.owner /\ y.ms.beavers = m.beavers
    /\ y.ms.crawford = m.crawford
    /\ y.ms.post = m.post /\ y.ms.nMatchTo = m.nMatchTo
    /\ y.ms.board = B
    /\ GameStatus(B) = 0 =>
         /\ y.info = info /\ y.ms.gs = "playing" /\ y.ms.score = m.score
         /\ y.ms.cGames = m.cGames
    /\ GameStatus(B) # 0 =>
         /\ y.info = [info EXCEPT !.winner = r.p, !.points = points]
         /\ y.ms.gs = "over" /\ y.ms.score = [m.score EXCEPT ![r.p] = @ + points]
         /\ y.ms.cGames = m.cGames + 1

\* What ApplyMoveRecord makes of a move: the board is turned, the turn passes, a bare side
\* ends the game.
LEMMA NormalStep ==
  ASSUME NEW m, IsState(m), NEW info,
         NEW r \in Records, r.mt = "normal",
         m.board \in [Players -> Int], m.score \in [Players -> Nat],
         \/ m.turn = r.p /\ m.move = r.p
         \/ m.turn = m.move /\ SwapSides(m.board) = m.board
  PROVE  Moved(FixAndApply(m, info, r), m, info, r)
<1> DEFINE B == [i \in Players |-> IF i = 0 THEN m.board[1] - r.n ELSE m.board[0]]
           fixed == FixMatchState(m, r)
           n == [[fixed EXCEPT !.gs = "playing", !.resigned = 0, !.declined = 0] EXCEPT !.doubled = FALSE]
           played == [PlayMove(n, r.p, r.n) EXCEPT !.dice = NoDice]
<1>0. r.p \in Players /\ r.n \in Int /\ Nobody \notin Players
  BY OtherPlayer DEF Records
<1>1. /\ IsState(fixed) /\ fixed.turn = r.p /\ fixed.move = r.p /\ fixed.board = m.board
      /\ fixed.cube = m.cube /\ fixed.owner = m.owner /\ fixed.beavers = m.beavers
      /\ fixed.score = m.score /\ fixed.cGames = m.cGames /\ fixed.crawford = m.crawford
      /\ fixed.post = m.post /\ fixed.nMatchTo = m.nMatchTo
  BY ExceptIsFcn, <1>0 DEF IsState, Fields, FixMatchState
<1> HIDE DEF fixed
<1>2. /\ IsState(n) /\ n.turn = r.p /\ n.move = r.p /\ n.board = m.board /\ n.gs = "playing"
      /\ n.resigned = 0 /\ n.declined = 0 /\ n.doubled = FALSE
      /\ n.cube = m.cube /\ n.owner = m.owner /\ n.beavers = m.beavers
      /\ n.score = m.score /\ n.cGames = m.cGames /\ n.crawford = m.crawford
      /\ n.post = m.post /\ n.nMatchTo = m.nMatchTo
  BY <1>1, ExceptIsFcn DEF IsState, Fields
<1> HIDE DEF n
<1>3. SwapSides([m.board EXCEPT ![1] = @ - r.n]) = B
  BY SwapSidesIs, OtherPlayer
<1> HIDE DEF B
<1>4. /\ IsState(played) /\ played.turn = Other(r.p) /\ played.move = Other(r.p)
      /\ played.board = B /\ played.gs = "playing" /\ played.dice = NoDice
      /\ played.resigned = 0 /\ played.declined = 0 /\ played.doubled = FALSE
      /\ played.cube = m.cube /\ played.owner = m.owner /\ played.beavers = m.beavers
      /\ played.score = m.score /\ played.cGames = m.cGames /\ played.crawford = m.crawford
      /\ played.post = m.post /\ played.nMatchTo = m.nMatchTo
  BY <1>2, <1>3, ExceptIsFcn DEF IsState, Fields, PlayMove
<1>5. FixAndApply(m, info, r) =
        IF GameStatus(played.board) = 0 THEN GoesOn(played, info)
        ELSE GameOver(played, info, "over", r.p, played.cube *
               (IF played.owner = Nobody /\ played.nMatchTo = 0 THEN 1 ELSE GameStatus(played.board)))
  BY DEF FixAndApply, ApplyMoveRecord, ApplyNormal, played, n, fixed
<1> HIDE DEF played
<1> DEFINE points == m.cube * (IF m.owner = Nobody /\ m.nMatchTo = 0 THEN 1 ELSE GameStatus(B))
<1>6. FixAndApply(m, info, r) =
        IF GameStatus(B) = 0 THEN GoesOn(played, info)
        ELSE GameOver(played, info, "over", r.p, points)
  BY <1>4, <1>5
<1> HIDE DEF points
<1>7. CASE GameStatus(B) = 0
  <2>1. FixAndApply(m, info, r).ms = played /\ FixAndApply(m, info, r).info = info
    BY <1>6, <1>7 DEF GoesOn
  <2> QED BY <1>4, <1>7, <2>1 DEF B, points, Moved
<1>8. CASE GameStatus(B) # 0
  <2>1. FixAndApply(m, info, r) = GameOver(played, info, "over", r.p, points)
    BY <1>6, <1>8
  <2>2. Decided(FixAndApply(m, info, r), played, info, "over", r.p, points)
    BY <1>4, <2>1, GameOverIs
  <2> QED BY <1>4, <1>8, <2>2 DEF B, points, Moved, Decided
<1> QED BY <1>7, <1>8


\* A double; a beaver, if the cube is already offered; and at MAX_CUBE nothing.
Doubled(y, m, info, r) ==
    LET none == m.cube >= MaxCube
        beaver == ~none /\ m.doubled
    IN
    /\ y.info = info /\ IsState(y.ms)
    /\ y.ms.gs = "playing" /\ y.ms.move = m.move /\ y.ms.dice = m.dice
    /\ y.ms.resigned = 0 /\ y.ms.declined = 0
    /\ y.ms.score = m.score /\ y.ms.cGames = m.cGames /\ y.ms.crawford = m.crawford
    /\ y.ms.post = m.post /\ y.ms.nMatchTo = m.nMatchTo /\ y.ms.board = m.board
    /\ y.ms.turn = IF none THEN r.p ELSE Other(r.p)
    /\ y.ms.doubled = IF none THEN m.doubled ELSE TRUE
    /\ y.ms.cube = IF beaver THEN 2 * m.cube ELSE m.cube
    /\ y.ms.beavers = IF beaver THEN m.beavers + 1 ELSE m.beavers
    /\ y.ms.owner = IF beaver THEN Other(m.move) ELSE m.owner

\* What ApplyMoveRecord makes of a double, a beaver or a raccoon.
LEMMA DoubleStep ==
  ASSUME NEW m, IsState(m), NEW info, NEW r \in Records, r.mt = "double",
         m.turn = r.p, m.move \in Players, m.doubled \in BOOLEAN
  PROVE  Doubled(FixAndApply(m, info, r), m, info, r)
<1>1. m.move # Nobody
  BY OtherPlayer
<1>2. FixMatchState(m, r) = m
  BY DEF FixMatchState
<1> DEFINE n == [m EXCEPT !.gs = "playing", !.resigned = 0, !.declined = 0]
           y == FixAndApply(m, info, r)
<1>3. y.ms = ApplyDouble(n, r.p) /\ y.info = info
  BY <1>2 DEF FixAndApply, ApplyMoveRecord, GoesOn, n
<1>4. /\ IsState(n) /\ n.turn = r.p /\ n.move = m.move /\ n.board = m.board /\ n.gs = "playing"
      /\ n.resigned = 0 /\ n.declined = 0 /\ n.doubled = m.doubled /\ n.dice = m.dice
      /\ n.cube = m.cube /\ n.owner = m.owner /\ n.beavers = m.beavers
      /\ n.score = m.score /\ n.cGames = m.cGames /\ n.crawford = m.crawford
      /\ n.post = m.post /\ n.nMatchTo = m.nMatchTo
  BY ExceptIsFcn DEF IsState, Fields
<1> HIDE DEF n, y
<1>5. ApplyDouble(n, r.p) =
        IF n.cube >= MaxCube THEN n
        ELSE IF n.doubled
               THEN [n EXCEPT !.beavers = @ + 1, !.cube = 2 * @, !.owner = Other(n.move),
                              !.turn = Other(r.p)]
               ELSE [n EXCEPT !.doubled = TRUE, !.turn = Other(r.p)]
  BY <1>1, <1>4 DEF ApplyDouble
<1>6. CASE m.cube >= MaxCube
  BY <1>3, <1>4, <1>5, <1>6 DEF y, Doubled
<1>7. CASE ~(m.cube >= MaxCube) /\ m.doubled
  <2> DEFINE z == [n EXCEPT !.beavers = @ + 1, !.cube = 2 * @, !.owner = Other(n.move),
                            !.turn = Other(r.p)]
  <2>1. y.ms = z
    BY <1>3, <1>4, <1>5, <1>7
  <2>2. /\ IsState(z) /\ z.turn = Other(r.p) /\ z.move = n.move /\ z.board = n.board
        /\ z.gs = n.gs /\ z.resigned = n.resigned /\ z.declined = n.declined
        /\ z.doubled = n.doubled /\ z.dice = n.dice /\ z.cube = 2 * n.cube
        /\ z.owner = Other(n.move) /\ z.beavers = n.beavers + 1
        /\ z.score = n.score /\ z.cGames = n.cGames /\ z.crawford = n.crawford
        /\ z.post = n.post /\ z.nMatchTo = n.nMatchTo
    BY <1>4, ExceptIsFcn DEF IsState, Fields
  <2> HIDE DEF z
  <2> QED BY <1>3, <1>4, <1>7, <2>1, <2>2 DEF y, Doubled
<1>8. CASE ~(m.cube >= MaxCube) /\ ~m.doubled
  <2> DEFINE z == [n EXCEPT !.doubled = TRUE, !.turn = Other(r.p)]
  <2>1. y.ms = z
    BY <1>3, <1>4, <1>5, <1>8
  <2>2. /\ IsState(z) /\ z.turn = Other(r.p) /\ z.move = n.move /\ z.board = n.board
        /\ z.gs = n.gs /\ z.resigned = n.resigned /\ z.declined = n.declined
        /\ z.doubled = TRUE /\ z.dice = n.dice /\ z.cube = n.cube
        /\ z.owner = n.owner /\ z.beavers = n.beavers
        /\ z.score = n.score /\ z.cGames = n.cGames /\ z.crawford = n.crawford
        /\ z.post = n.post /\ z.nMatchTo = n.nMatchTo
    BY <1>4, ExceptIsFcn DEF IsState, Fields
  <2> HIDE DEF z
  <2> QED BY <1>3, <1>4, <1>8, <2>1, <2>2 DEF y, Doubled
<1> QED BY <1>6, <1>7, <1>8 DEF y

\* What a take makes of m.
Taken(y, m, info, r) ==
    /\ y.info = info /\ IsState(y.ms)
    /\ y.ms.gs = "playing" /\ y.ms.turn = m.move /\ y.ms.move = m.move
    /\ y.ms.dice = m.dice /\ y.ms.doubled = FALSE
    /\ y.ms.resigned = 0 /\ y.ms.declined = 0
    /\ y.ms.cube = 2 * m.cube /\ y.ms.owner = Other(m.move) /\ y.ms.beavers = 0
    /\ y.ms.score = m.score /\ y.ms.cGames = m.cGames /\ y.ms.crawford = m.crawford
    /\ y.ms.post = m.post /\ y.ms.nMatchTo = m.nMatchTo /\ y.ms.board = m.board

\* What ApplyMoveRecord makes of a take.
LEMMA TakeStep ==
  ASSUME NEW m, IsState(m), NEW info, NEW r \in Records, r.mt = "take", m.doubled
  PROVE  Taken(FixAndApply(m, info, r), m, info, r)
BY ExceptIsFcn DEF IsState, Fields, FixAndApply, FixMatchState, ApplyMoveRecord, ApplyTake, GoesOn, Taken

\* What a drop makes of m.
Dropped(y, m, info, r) ==
    /\ y.info = [info EXCEPT !.winner = Other(r.p), !.points = m.cube] /\ IsState(y.ms)
    /\ y.ms.gs = "drop" /\ y.ms.turn = m.turn /\ y.ms.move = m.move
    /\ y.ms.dice = m.dice /\ y.ms.doubled = FALSE
    /\ y.ms.resigned = 0 /\ y.ms.declined = 0
    /\ y.ms.cube = m.cube /\ y.ms.owner = m.owner /\ y.ms.beavers = 0
    /\ y.ms.score = [m.score EXCEPT ![Other(r.p)] = @ + m.cube]
    /\ y.ms.cGames = m.cGames + 1 /\ y.ms.crawford = m.crawford
    /\ y.ms.post = m.post /\ y.ms.nMatchTo = m.nMatchTo /\ y.ms.board = m.board

\* What ApplyMoveRecord makes of a drop.
LEMMA DropStep ==
  ASSUME NEW m, IsState(m), NEW info, NEW r \in Records, r.mt = "drop", m.doubled
  PROVE  Dropped(FixAndApply(m, info, r), m, info, r)
<1> DEFINE n == [[m EXCEPT !.gs = "playing", !.resigned = 0, !.declined = 0]
                    EXCEPT !.doubled = FALSE, !.beavers = 0]
<1>1. FixAndApply(m, info, r) = GameOver(n, info, "drop", Other(r.p), m.cube)
  BY DEF IsState, Fields, FixAndApply, FixMatchState, ApplyMoveRecord, ApplyDrop
<1>2. /\ IsState(n) /\ n.turn = m.turn /\ n.move = m.move /\ n.board = m.board
      /\ n.resigned = 0 /\ n.declined = 0 /\ n.doubled = FALSE /\ n.dice = m.dice
      /\ n.cube = m.cube /\ n.owner = m.owner /\ n.beavers = 0
      /\ n.score = m.score /\ n.cGames = m.cGames /\ n.crawford = m.crawford
      /\ n.post = m.post /\ n.nMatchTo = m.nMatchTo
  BY ExceptIsFcn DEF IsState, Fields
<1> HIDE DEF n
<1>3. Decided(FixAndApply(m, info, r), n, info, "drop", Other(r.p), m.cube)
  BY <1>1, <1>2, GameOverIs
<1> QED BY <1>2, <1>3 DEF Decided, Dropped

\* What a resignation makes of m.
Resigned(y, m, info, r) ==
    /\ y.info = [info EXCEPT !.winner = Other(r.p), !.points = m.cube * r.n]
    /\ IsState(y.ms)
    /\ y.ms.gs = "resigned" /\ y.ms.turn = m.turn /\ y.ms.move = m.move
    /\ y.ms.dice = m.dice /\ y.ms.doubled = m.doubled
    /\ y.ms.resigned = r.n /\ y.ms.declined = 0
    /\ y.ms.cube = m.cube /\ y.ms.owner = m.owner /\ y.ms.beavers = m.beavers
    /\ y.ms.score = [m.score EXCEPT ![Other(r.p)] = @ + m.cube * r.n]
    /\ y.ms.cGames = m.cGames + 1 /\ y.ms.crawford = m.crawford
    /\ y.ms.post = m.post /\ y.ms.nMatchTo = m.nMatchTo /\ y.ms.board = m.board

\* What ApplyMoveRecord makes of a resignation.
LEMMA ResignStep ==
  ASSUME NEW m, IsState(m), NEW info, NEW r \in Records, r.mt = "resign"
  PROVE  Resigned(FixAndApply(m, info, r), m, info, r)
<1> DEFINE n == [[m EXCEPT !.gs = "playing", !.resigned = 0, !.declined = 0]
                    EXCEPT !.resigned = r.n]
           points == m.cube * r.n
<1>1. FixAndApply(m, info, r) = GameOver(n, info, "resigned", Other(r.p), points)
  BY DEF IsState, Fields, FixAndApply, FixMatchState, ApplyMoveRecord, ApplyResign
<1>2. /\ IsState(n) /\ n.turn = m.turn /\ n.move = m.move /\ n.board = m.board
      /\ n.resigned = r.n /\ n.declined = 0 /\ n.doubled = m.doubled /\ n.dice = m.dice
      /\ n.cube = m.cube /\ n.owner = m.owner /\ n.beavers = m.beavers
      /\ n.score = m.score /\ n.cGames = m.cGames /\ n.crawford = m.crawford
      /\ n.post = m.post /\ n.nMatchTo = m.nMatchTo
  BY ExceptIsFcn DEF IsState, Fields
<1> HIDE DEF n, points
<1>3. Decided(FixAndApply(m, info, r), n, info, "resigned", Other(r.p), points)
  BY <1>1, <1>2, GameOverIs
<1> QED BY <1>2, <1>3 DEF points, Decided, Resigned

---------------------------------------------------------------------------
(* A game of the record, replayed.                                         *)

\* What a game can be begun with.
Infos == [i : Nat, nMatch : Nat, score : [Players -> Nat], crawford : BOOLEAN, auto : Nat,
          winner : Who, points : Nat]
\* The games a record can hold.
Games == [info : Infos, recs : Seq(Records)]

\* A game as it begins: within MAX_CUBE, and with no automatic doubles in a match.
InfoOK(info) == Shl[info.auto] <= MaxCube /\ (info.nMatch # 0 => info.auto = 0)

\* The match state, and the GAMEINFO, after k records of a game.
After(game, k) == Replayed(Base(game.info), game, k)

\* The types of the match state's fields.
Typed(m) ==
    /\ IsState(m)
    /\ m.gs \in {"none", "playing"} \cup Ended
    /\ m.dice \in {NoDice, Stuck, Open} /\ m.doubled \in BOOLEAN
    /\ m.resigned \in 0..3 /\ m.declined = 0
    /\ m.owner \in Who /\ m.beavers \in 0..NBeavers
    /\ m.board \in [Players -> 0..Men]
    /\ m.crawford \in BOOLEAN /\ m.post \in BOOLEAN
    /\ m.nMatchTo \in Nat /\ m.score \in [Players -> Nat] /\ m.cGames \in Nat

\* The cube shows a power of two, within MAX_CUBE.
CubeOK(m) == m.cube <= MaxCube /\ \E e \in Nat : m.cube = Shl[e]

\* The cube is in the middle and nothing is offered.
Fresh(m) ==
    /\ m.turn = Nobody /\ m.move = Nobody /\ m.owner = Nobody
    /\ m.dice = NoDice /\ ~m.doubled /\ m.resigned = 0 /\ m.beavers = 0
    /\ m.board = FullBoard

\* A game goes on.
InPlay(m) ==
    /\ m.resigned = 0
    /\ ~m.doubled => m.turn = m.move
    /\ m.doubled => m.dice = NoDice /\ m.cube < MaxCube
    /\ m.doubled /\ m.nMatchTo # 0 => m.turn = Other(m.move)

\* A match state of a replay.
Sound(m) ==
    /\ Typed(m) /\ CubeOK(m)
    /\ m.gs = "none" => Fresh(m)
    /\ m.gs # "none" => m.turn \in Players /\ m.move \in Players
    /\ m.gs \in {"none", "playing"} => \A i \in Players : m.board[i] > 0
    /\ m.gs = "playing" => InPlay(m)

\* A record that a command may add to a match state.
Legal(m, r) ==
    /\ m.gs \in {"none", "playing"} /\ r \in Records
    /\ r.mt \in {"setdice", "normal"} =>
         /\ m.gs = "none" \/ (~m.doubled /\ m.turn = r.p)
         /\ r.mt = "setdice" => r.n \in {Stuck, Open} /\ m.dice = NoDice
         /\ r.mt = "normal" => r.n \in 0..1
    /\ r.mt \notin {"setdice", "normal"} => m.gs = "playing"
    /\ r.mt = "double" => m.turn = r.p
    /\ (r.mt = "double" /\ m.doubled) =>
         m.nMatchTo = 0 /\ m.beavers < NBeavers /\ m.cube < MaxCube \div 2
    /\ (r.mt = "double" /\ ~m.doubled) =>
         /\ m.owner \in {Nobody, r.p} /\ ~m.crawford /\ m.dice = NoDice
         /\ m.nMatchTo # 0 => m.cube < m.nMatchTo - m.score[r.p]
    /\ r.mt \in {"take", "drop"} => m.doubled /\ m.turn = r.p
    /\ r.mt = "resign" => r.n \in 1..3

\* gnubg's turn, with nothing offered: one it can forgo, by refusing a resignation of the
\* human's smaller than its own.
Passed(m) == m.gs = "playing" /\ ~m.doubled /\ m.turn = Gnu

\* What FixMatchState then makes of it for a record of the human's.
Facing(m) == [m EXCEPT !.board = SwapSides(@), !.move = Human, !.turn = Human]

\* A record that the commands may leave behind a match state.
Allowed(m, r) ==
    \/ Legal(m, r)
    \/ /\ Passed(m) /\ r.p = Human /\ r.mt \in {"setdice", "normal", "double"}
       /\ Legal(Facing(m), r)

\* The places of the takes among the first i records.
Takes(recs, i) == {j \in 1..i : recs[j].mt = "take"}

\* What a match state keeps of the GAMEINFO; at the end of the game, what it adds to it.
Setting(m, info) ==
    /\ m.nMatchTo = info.nMatch /\ m.crawford = info.crawford
    /\ m.post = (~info.crawford /\ OneAway(info))
    /\ m.gs \notin Ended => m.score = info.score /\ m.cGames = info.i
    /\ m.gs \in Ended =>
         /\ info.winner \in Players /\ info.points \in 1..(3 * MaxCube)
         /\ m.score = [info.score EXCEPT ![info.winner] = @ + info.points]
         /\ m.cGames = info.i + 1

\* The first i records tell of the board,
Boards(m, recs, i) ==
    \A p \in Players : m.board[IF p = m.move THEN 1 ELSE 0] = Men - BorneOff(recs, i, p)

\* of the player on move, who is the human if it was gnubg that moved last,
Turns(m, recs, i) ==
    m.gs = "playing" =>
        \A j \in 1..i : /\ recs[j].mt = "normal" /\ recs[j].p = Gnu
                        /\ \A l \in (j + 1)..i : ~(recs[l].mt = "normal" /\ recs[l].p = Human)
                       => m.move = Human

\* of a double that waits for its answer,
Offered(m, recs, i) ==
    (m.gs = "playing" /\ m.doubled) => i > 0 /\ recs[i].mt = "double" /\ recs[i].p = Other(m.turn)

\* of the cube,
Cube(m, recs, i) ==
    (m.gs \notin Ended /\ m.nMatchTo # 0) =>
        /\ m.cube = Shl[Cardinality(Takes(recs, i))]
        /\ Takes(recs, i) = {} => m.owner = Nobody
        /\ \A j \in Takes(recs, i) : (\A l \in Takes(recs, i) : l <= j) => m.owner = recs[j].p

\* and of the end of the game.
Ends(m, recs, i) ==
    m.gs \in Ended <=>
        /\ i > 0
        /\ \/ recs[i].mt \in {"drop", "resign"}
           \/ \E p \in Players : BorneOff(recs, i, p) = Men

\* All of them.
Facts(m, info, recs, i) ==
    /\ Sound(m) /\ (i = 0 <=> m.gs = "none")
    /\ Setting(m, info) /\ Boards(m, recs, i) /\ Turns(m, recs, i)
    /\ Offered(m, recs, i) /\ Cube(m, recs, i) /\ Ends(m, recs, i)

\* The facts of a game replayed up to record i.
FactsAt(game, i) ==
    After(game, i).info = game.info /\ Facts(After(game, i).ms, game.info, game.recs, i)

\* A game whose first n records are allowed, with the facts all along.
GameUpTo(game, n) ==
    /\ game \in Games /\ InfoOK(game.info) /\ n \in 0..Len(game.recs)
    /\ \A i \in 0..n : FactsAt(game, i)
    /\ \A i \in 1..n : Allowed(After(game, i - 1).ms, game.recs[i])

\* A game of the record.
GameOK(game) == game.recs # <<>> /\ GameUpTo(game, Len(game.recs))


---------------------------------------------------------------------------
(* Counting in a record.                                                   *)

\* BorneOff counts one man for each move that bears one off.
LEMMA BorneOffCounts ==
  ASSUME NEW recs, NEW p
  PROVE  /\ BorneOff(recs, 0, p) = 0
         /\ \A i \in Nat :
              /\ BorneOff(recs, i, p) \in Nat
              /\ BorneOff(recs, i + 1, p)
                   = BorneOff(recs, i, p) + IF recs[i + 1] = Rec("normal", p, 1) THEN 1 ELSE 0
<1> DEFINE B(i) == {j \in 1..i : recs[j] = Rec("normal", p, 1)}
<1>1. \A i \in Nat : IsFiniteSet(B(i)) /\ Cardinality(B(i)) \in Nat
  <2> SUFFICES ASSUME NEW i \in Nat PROVE IsFiniteSet(B(i)) /\ Cardinality(B(i)) \in Nat
    OBVIOUS
  <2>1. IsFiniteSet(1..i) /\ B(i) \in SUBSET (1..i)
    BY FS_Interval
  <2> HIDE DEF B
  <2> QED BY <2>1, FS_Subset, FS_CardinalityType
<1>2. Cardinality(B(0)) = 0
  <2>1. B(0) = {}
    OBVIOUS
  <2> QED BY <2>1, FS_EmptySet
<1>3. ASSUME NEW i \in Nat
      PROVE  Cardinality(B(i + 1))
               = Cardinality(B(i)) + IF recs[i + 1] = Rec("normal", p, 1) THEN 1 ELSE 0
  <2>1. CASE recs[i + 1] = Rec("normal", p, 1)
    <3>1. B(i + 1) = B(i) \cup {i + 1} /\ i + 1 \notin B(i)
      BY <2>1
    <3> HIDE DEF B
    <3> QED BY <1>1, <2>1, <3>1, FS_AddElement
  <2>2. CASE recs[i + 1] # Rec("normal", p, 1)
    <3>1. B(i + 1) = B(i)
      BY <2>2
    <3> HIDE DEF B
    <3> QED BY <1>1, <2>2, <3>1
  <2> QED BY <2>1, <2>2
<1> QED BY <1>1, <1>2, <1>3 DEF BorneOff

\* Takes gains the place of each take, and only these.
LEMMA TakesCount ==
  ASSUME NEW recs
  PROVE  /\ Takes(recs, 0) = {} /\ Cardinality(Takes(recs, 0)) = 0
         /\ \A i \in Nat :
              /\ Cardinality(Takes(recs, i)) \in Nat
              /\ recs[i + 1].mt # "take" => Takes(recs, i + 1) = Takes(recs, i)
              /\ recs[i + 1].mt = "take" =>
                   /\ Takes(recs, i + 1) = Takes(recs, i) \cup {i + 1}
                   /\ Cardinality(Takes(recs, i + 1)) = Cardinality(Takes(recs, i)) + 1
<1>1. \A i \in Nat : IsFiniteSet(Takes(recs, i)) /\ Cardinality(Takes(recs, i)) \in Nat
  <2> SUFFICES ASSUME NEW i \in Nat
               PROVE  IsFiniteSet(Takes(recs, i)) /\ Cardinality(Takes(recs, i)) \in Nat
    OBVIOUS
  <2>1. IsFiniteSet(1..i) /\ Takes(recs, i) \in SUBSET (1..i)
    BY FS_Interval DEF Takes
  <2> QED BY <2>1, FS_Subset, FS_CardinalityType
<1>2. Takes(recs, 0) = {}
  BY DEF Takes
<1>3. Cardinality(Takes(recs, 0)) = 0
  BY <1>2, FS_EmptySet
<1>4. ASSUME NEW i \in Nat, recs[i + 1].mt # "take" PROVE Takes(recs, i + 1) = Takes(recs, i)
  BY <1>4 DEF Takes
<1>5. ASSUME NEW i \in Nat, recs[i + 1].mt = "take"
      PROVE  /\ Takes(recs, i + 1) = Takes(recs, i) \cup {i + 1}
             /\ Cardinality(Takes(recs, i + 1)) = Cardinality(Takes(recs, i)) + 1
  <2>1. Takes(recs, i + 1) = Takes(recs, i) \cup {i + 1} /\ i + 1 \notin Takes(recs, i)
    BY <1>5 DEF Takes
  <2> QED BY <1>1, <2>1, FS_AddElement
<1> QED BY <1>1, <1>2, <1>3, <1>4, <1>5

\* What the first i records tell is all that a fact about them depends on.
LEMMA SameRecords ==
  ASSUME NEW a, NEW b, NEW i \in Nat, \A j \in 1..i : a[j] = b[j]
  PROVE  /\ \A p \in Players : BorneOff(a, i, p) = BorneOff(b, i, p)
         /\ Takes(a, i) = Takes(b, i)
<1>1. Takes(a, i) = Takes(b, i)
  BY DEF Takes
<1>2. ASSUME NEW p \in Players PROVE BorneOff(a, i, p) = BorneOff(b, i, p)
  <2>1. {j \in 1..i : a[j] = Rec("normal", p, 1)} = {j \in 1..i : b[j] = Rec("normal", p, 1)}
    OBVIOUS
  <2> QED BY <2>1 DEF BorneOff
<1> QED BY <1>1, <1>2

\* What two infos of one game have in common.
SameSetting(a, b) ==
    a.i = b.i /\ a.nMatch = b.nMatch /\ a.score = b.score /\ a.crawford = b.crawford /\ a.auto = b.auto

\* The facts of a replay are those of any record that starts in the same way.
LEMMA SameFacts ==
  ASSUME NEW a, NEW b, NEW i \in Nat, \A j \in 1..i : a[j] = b[j],
         NEW info, NEW other, SameSetting(info, other),
         NEW m, Facts(m, info, a, i), m.gs \in Ended => info = other
  PROVE  Facts(m, other, b, i)
<1>1. Setting(m, other)
  <2>1. CASE m.gs \in Ended
    BY <2>1 DEF Facts
  <2>2. CASE m.gs \notin Ended
    BY <2>2 DEF Facts, Setting, SameSetting, OneAway
  <2> QED BY <2>1, <2>2
<1>2. i > 0 => a[i] = b[i]
  OBVIOUS
<1>3. Boards(m, b, i) /\ Ends(m, b, i)
  BY <1>2, SameRecords DEF Facts, Boards, Ends
<1>4. Turns(m, b, i)
  BY DEF Facts, Turns
<1>5. Offered(m, b, i)
  BY <1>2 DEF Facts, Offered
<1>6. Cube(m, b, i)
  <2>1. Takes(a, i) = Takes(b, i)
    BY SameRecords
  <2>2. \A j \in Takes(b, i) : a[j] = b[j]
    BY DEF Takes
  <2> QED BY <2>1, <2>2 DEF Facts, Cube
<1> QED BY <1>1, <1>3, <1>4, <1>5, <1>6 DEF Facts

\* The numbers the invariant is about.
LEMMA MaxCubeIs == MaxCube \in Nat \ {0} /\ NBeavers \in Nat /\ Men \in Nat \ {0} /\ Shl[0] = 1
BY ConstantsAssumption, ShlRecursion

\* A game begins with the facts of no record.
LEMMA FirstFacts ==
  ASSUME NEW info \in Infos, InfoOK(info), NEW recs
  PROVE  Facts(Base(info), info, recs, 0)
<1> DEFINE m == Base(info)
<1>1. /\ m.gs = "none" /\ m.turn = Nobody /\ m.move = Nobody /\ m.dice = NoDice
      /\ m.doubled = FALSE /\ m.resigned = 0 /\ m.declined = 0 /\ m.cube = Shl[info.auto]
      /\ m.owner = Nobody /\ m.beavers = 0 /\ m.score = info.score /\ m.cGames = info.i
      /\ m.crawford = info.crawford /\ m.post = (~info.crawford /\ OneAway(info))
      /\ m.nMatchTo = info.nMatch /\ m.board = FullBoard
  BY DEF Base
<1>2. IsState(m)
  BY DEF Base, IsState, Fields, IsFcn
<1> HIDE DEF m
<1>3. /\ info.auto \in Nat /\ info.crawford \in BOOLEAN /\ info.score \in [Players -> Nat]
      /\ info.i \in Nat /\ info.nMatch \in Nat
  BY DEF Infos
<1>4. FullBoard \in [Players -> 0..Men] /\ \A p \in Players : FullBoard[p] = Men /\ FullBoard[p] > 0
  BY MaxCubeIs DEF FullBoard
<1>5. Sound(m)
  <2>1. Typed(m)
    <3>1. m.post \in BOOLEAN /\ m.crawford \in BOOLEAN /\ m.doubled \in BOOLEAN
      BY <1>1, <1>3
    <3>2. 0 \in 0..NBeavers /\ 0 \in 0..3
      BY MaxCubeIs
    <3> QED BY <1>1, <1>2, <1>3, <1>4, <3>1, <3>2 DEF Typed, Who
  <2>2. CubeOK(m)
    BY <1>1, <1>3 DEF CubeOK, InfoOK
  <2>3. Fresh(m)
    BY <1>1 DEF Fresh
  <2> QED BY <1>1, <1>4, <2>1, <2>2, <2>3 DEF Sound
<1>6. Setting(m, info)
  BY <1>1 DEF Setting, Ended
<1>7. Boards(m, recs, 0)
  BY <1>1, <1>4, BorneOffCounts, MaxCubeIs, OtherPlayer DEF Boards
<1>8. Turns(m, recs, 0) /\ Offered(m, recs, 0)
  BY <1>1 DEF Turns, Offered
<1>9. Cube(m, recs, 0)
  BY <1>1, TakesCount DEF Cube, InfoOK
<1>10. Ends(m, recs, 0)
  BY <1>1 DEF Ends, Ended
<1> QED BY <1>1, <1>5, <1>6, <1>7, <1>8, <1>9, <1>10 DEF Facts, m

---------------------------------------------------------------------------
(* One more record: what was true of the game remains true.                *)

\* The values of the states a game ends in and of the dice.
LEMMA Kinds == Ended = {"over", "drop", "resigned"} /\ NoDice = 0 /\ Stuck = 1 /\ Open = 2
BY DEF Ended, NoDice, Stuck, Open

\* A record other than a move leaves the chequers where they are.
LEMMA QuietRecord ==
  ASSUME NEW recs, NEW i \in Nat, recs[i + 1].mt # "normal"
  PROVE  /\ \A p \in Players : BorneOff(recs, i + 1, p) = BorneOff(recs, i, p)
         /\ \A m, n : Turns(m, recs, i) /\ n.gs = "playing" /\ m.gs = "playing" /\ n.move = m.move
                         => Turns(n, recs, i + 1)
<1>1. \A p \in Players : recs[i + 1] # Rec("normal", p, 1)
  BY DEF Rec
<1>2. ASSUME NEW m, NEW n, Turns(m, recs, i), n.gs = "playing", m.gs = "playing", n.move = m.move
      PROVE  Turns(n, recs, i + 1)
  <2> SUFFICES ASSUME NEW j \in 1..(i + 1), recs[j].mt = "normal", recs[j].p = Gnu,
                      \A l \in (j + 1)..(i + 1) : ~(recs[l].mt = "normal" /\ recs[l].p = Human)
               PROVE  n.move = Human
    BY <1>2 DEF Turns
  <2>1. j \in 1..i /\ \A l \in (j + 1)..i : l \in (j + 1)..(i + 1)
    OBVIOUS
  <2> QED BY <1>2, <2>1 DEF Turns
<1>3. ASSUME NEW p \in Players PROVE BorneOff(recs, i + 1, p) = BorneOff(recs, i, p)
  <2>1. /\ BorneOff(recs, i, p) \in Nat
        /\ BorneOff(recs, i + 1, p)
             = BorneOff(recs, i, p) + IF recs[i + 1] = Rec("normal", p, 1) THEN 1 ELSE 0
    BY BorneOffCounts
  <2> QED BY <1>1, <2>1
<1> QED BY <1>2, <1>3

\* A board that goes on is one neither side has cleared.
LEMMA NobodyDone ==
  ASSUME NEW m, NEW recs, NEW i \in Nat, Boards(m, recs, i), m.board \in [Players -> 0..Men], m.move \in Players
  PROVE  (\A p \in Players : m.board[p] > 0) <=> (\A p \in Players : BorneOff(recs, i, p) # Men)
<1>1. \A p \in Players : BorneOff(recs, i, p) \in Nat
  BY BorneOffCounts
<1>2. \A p \in Players : m.board[IF p = m.move THEN 1 ELSE 0] = Men - BorneOff(recs, i, p)
  BY DEF Boards
<1>3. m.board[0] \in 0..Men /\ m.board[1] \in 0..Men
  BY OtherPlayer
<1>4. CASE m.move = 0
  <2>1. m.board[1] = Men - BorneOff(recs, i, 0) /\ m.board[0] = Men - BorneOff(recs, i, 1)
    BY <1>2, <1>4, OtherPlayer
  <2> QED BY <1>1, <1>3, <2>1, MaxCubeIs, OtherPlayer
<1>5. CASE m.move = 1
  <2>1. m.board[0] = Men - BorneOff(recs, i, 0) /\ m.board[1] = Men - BorneOff(recs, i, 1)
    BY <1>2, <1>5, OtherPlayer
  <2> QED BY <1>1, <1>3, <2>1, MaxCubeIs, OtherPlayer
<1> QED BY <1>4, <1>5, OtherPlayer

\* A roll keeps the facts of the game.
LEMMA SetDiceFacts ==
  ASSUME NEW info \in Infos, NEW recs, NEW i \in Nat, NEW m, Facts(m, info, recs, i),
         NEW r, r = recs[i + 1], Legal(m, r), r.mt = "setdice",
         NEW y, Rolled(y, m, info, r)
  PROVE  Facts(y.ms, y.info, recs, i + 1)
<1> DEFINE n == y.ms
<1>1. /\ r \in Records /\ r.p \in Players /\ r.n \in {Stuck, Open} /\ m.dice = NoDice
      /\ m.gs = "none" \/ (m.gs = "playing" /\ ~m.doubled /\ m.turn = r.p)
  BY DEF Legal, Records
<1>2. Sound(m) /\ Setting(m, info) /\ Boards(m, recs, i) /\ Turns(m, recs, i) /\ Cube(m, recs, i)
  BY DEF Facts
<1>3. n.gs = "playing" /\ n.turn = r.p /\ n.move = r.p /\ ~n.doubled
  BY DEF Rolled
<1>4. n.board = m.board
  <2>1. CASE m.gs = "none"
    BY <1>2, <2>1, FullBoardSwaps DEF Sound, Fresh, Rolled
  <2>2. CASE m.gs # "none"
    BY <1>1, <1>2, <2>2 DEF Sound, InPlay, Rolled
  <2> QED BY <2>1, <2>2
<1>5. Typed(n)
  <2>1. Typed(m)
    BY <1>2 DEF Sound
  <2>2. n.resigned \in 0..3
    BY DEF Rolled
  <2> QED BY <1>1, <1>4, <2>1, <2>2 DEF Rolled, Typed
<1>6. Sound(n)
  <2>1. CubeOK(n)
    BY <1>2 DEF Sound, CubeOK, Rolled
  <2>2. InPlay(n)
    BY <1>3 DEF InPlay, Rolled
  <2> QED BY <1>1, <1>2, <1>3, <1>4, <1>5, <2>1, <2>2 DEF Sound
<1>7. Setting(n, y.info)
  BY <1>1, <1>2, Kinds DEF Setting, Rolled
<1>8. Boards(n, recs, i + 1)
  <2>1. \A p \in Players : BorneOff(recs, i + 1, p) = BorneOff(recs, i, p)
    BY QuietRecord
  <2>2. CASE m.gs = "none"
    <3>1. \A p \in Players : m.board[p] = Men /\ m.board[1] = Men /\ m.board[0] = Men
      BY <1>2, <2>2, OtherPlayer DEF Sound, Fresh, FullBoard
    <3> QED BY <1>2, <1>4, <2>1, <3>1 DEF Boards
  <2>3. CASE m.gs # "none"
    <3>1. n.move = m.move
      BY <1>1, <1>2, <1>3, <2>3 DEF Sound, InPlay
    <3> QED BY <1>2, <1>4, <2>1, <3>1 DEF Boards
  <2> QED BY <2>2, <2>3
<1>9. Turns(n, recs, i + 1)
  <2>1. CASE m.gs = "none"
    <3>1. i = 0
      BY <2>1 DEF Facts
    <3> QED BY <3>1 DEF Turns
  <2>2. CASE m.gs # "none"
    <3>1. n.move = m.move /\ m.gs = "playing"
      BY <1>1, <1>2, <1>3, <2>2 DEF Sound, InPlay
    <3> QED BY <1>2, <1>3, <3>1, QuietRecord
  <2> QED BY <2>1, <2>2
<1>10. Offered(n, recs, i + 1)
  BY <1>3 DEF Offered
<1>11. Cube(n, recs, i + 1)
  BY <1>1, <1>2, TakesCount, Kinds DEF Cube, Rolled
<1>12. Ends(n, recs, i + 1)
  BY <1>3, <1>5, <1>6, <1>8, NobodyDone, Kinds DEF Ends, Sound, Typed
<1> QED BY <1>3, <1>6, <1>7, <1>8, <1>9, <1>10, <1>11, <1>12 DEF Facts

\* The cube of a replay can be turned: it is at least 1, and doubled it is still a power of two.
LEMMA CubeTurns ==
  ASSUME NEW m, CubeOK(m)
  PROVE  /\ m.cube \in 1..MaxCube
         /\ \E e \in Nat : m.cube = Shl[e] /\ 2 * m.cube = Shl[e + 1]
         /\ m.cube < MaxCube => 2 * m.cube <= MaxCube
         /\ m.cube < MaxCube \div 2 => 2 * m.cube < MaxCube
<1>1. PICK e \in Nat : m.cube = Shl[e]
  BY DEF CubeOK
<1>2. 2 * m.cube = Shl[e + 1] /\ Shl[e] \in Nat \ {0}
  BY <1>1, ShlStep, ShlRecursion
<1>3. m.cube < MaxCube => 2 * m.cube <= MaxCube
  BY <1>1, <1>2, CubeRoom
<1>4. m.cube < MaxCube \div 2 => 2 * m.cube < MaxCube
  <2> DEFINE c == m.cube
  <2>1. c \in Nat /\ MaxCube \in Nat
    BY <1>1, <1>2, MaxCubeIs
  <2> HIDE DEF c
  <2>2. c < MaxCube \div 2 => 2 * c < MaxCube
    BY <2>1
  <2> QED BY <2>2 DEF c
<1> QED BY <1>1, <1>2, <1>3, <1>4, MaxCubeIs DEF CubeOK

\* A double keeps the facts of the game: the cube it leads to is within MAX_CUBE.
LEMMA DoubleFacts ==
  ASSUME NEW info \in Infos, NEW recs, NEW i \in Nat, NEW m, Facts(m, info, recs, i),
         NEW r, r = recs[i + 1], Legal(m, r), r.mt = "double",
         NEW y, Doubled(y, m, info, r)
  PROVE  Facts(y.ms, y.info, recs, i + 1)
<1> DEFINE n == y.ms
           none == m.cube >= MaxCube
           beaver == ~none /\ m.doubled
<1>1. /\ r \in Records /\ r.p \in Players /\ m.gs = "playing" /\ m.turn = r.p
      /\ m.doubled => m.nMatchTo = 0 /\ m.beavers < NBeavers /\ m.cube < MaxCube \div 2
      /\ ~m.doubled => m.dice = NoDice
  BY DEF Legal, Records
<1>2. /\ Sound(m) /\ Setting(m, info) /\ Boards(m, recs, i) /\ Turns(m, recs, i)
      /\ Cube(m, recs, i)
  BY DEF Facts
<1>3. Typed(m) /\ CubeOK(m) /\ InPlay(m) /\ m.turn \in Players /\ m.move \in Players
  BY <1>1, <1>2 DEF Sound
<1>4. /\ IsState(n) /\ y.info = info
      /\ n.gs = "playing" /\ n.move = m.move /\ n.dice = m.dice
      /\ n.resigned = 0 /\ n.declined = 0
      /\ n.score = m.score /\ n.cGames = m.cGames /\ n.crawford = m.crawford
      /\ n.post = m.post /\ n.nMatchTo = m.nMatchTo /\ n.board = m.board
      /\ n.turn = IF none THEN r.p ELSE Other(r.p)
      /\ n.doubled = IF none THEN m.doubled ELSE TRUE
      /\ n.cube = IF beaver THEN 2 * m.cube ELSE m.cube
      /\ n.beavers = IF beaver THEN m.beavers + 1 ELSE m.beavers
      /\ n.owner = IF beaver THEN Other(m.move) ELSE m.owner
  BY DEF Doubled
<1>5. m.cube \in 1..MaxCube /\ (m.doubled => ~none /\ 2 * m.cube < MaxCube)
  BY <1>1, <1>3, CubeTurns, MaxCubeIs
<1>6. m.doubled \in BOOLEAN /\ m.beavers \in 0..NBeavers /\ m.owner \in Who
  BY <1>3 DEF Typed
<1> HIDE DEF n
<1>7. /\ n.turn \in Players /\ n.doubled \in BOOLEAN /\ n.owner \in Who /\ n.resigned \in 0..3
      /\ n.beavers \in 0..NBeavers
  <2>1. n.turn \in Players /\ n.doubled \in BOOLEAN /\ n.resigned \in 0..3
    <3>1. Other(r.p) \in Players
      BY <1>1, OtherPlayer
    <3> HIDE DEF none, beaver
    <3>2. n.turn \in Players
      BY <1>1, <1>4, <3>1
    <3>3. n.doubled \in BOOLEAN
      <4>1. CASE none
        BY <1>4, <1>6, <4>1
      <4>2. CASE ~none
        BY <1>4, <4>2
      <4> QED BY <4>1, <4>2
    <3>4. n.resigned \in 0..3
      BY <1>4
    <3> QED BY <3>2, <3>3, <3>4
  <2>2. CASE beaver
    <3>1. n.beavers = m.beavers + 1 /\ m.beavers < NBeavers /\ n.owner = Other(m.move)
      BY <1>1, <1>4, <2>2
    <3> QED BY <1>3, <1>6, <2>1, <3>1, OtherPlayer, MaxCubeIs DEF Who
  <2>3. CASE ~beaver
    BY <1>4, <1>6, <2>1, <2>3
  <2> QED BY <2>1, <2>2, <2>3
<1>8. Typed(n)
  BY <1>3, <1>4, <1>7 DEF Typed
<1>9. CubeOK(n)
  BY <1>3, <1>4, <1>5, CubeTurns, MaxCubeIs DEF CubeOK
<1>10. InPlay(n)
  <2>1. CASE none
    BY <1>1, <1>3, <1>4, <1>5, <2>1 DEF InPlay
  <2>2. CASE ~none
    <3>1. n.doubled /\ n.turn = Other(r.p) /\ n.dice = NoDice
      BY <1>1, <1>3, <1>4, <2>2 DEF InPlay
    <3>2. n.cube < MaxCube
      BY <1>4, <1>5, <2>2, MaxCubeIs
    <3>3. n.nMatchTo # 0 => n.turn = Other(n.move)
      BY <1>1, <1>3, <1>4, <3>1 DEF InPlay
    <3> QED BY <1>4, <3>1, <3>2, <3>3 DEF InPlay
  <2> QED BY <2>1, <2>2
<1>11. Sound(n)
  BY <1>1, <1>2, <1>3, <1>4, <1>7, <1>8, <1>9, <1>10 DEF Sound
<1>12. Setting(n, y.info)
  BY <1>1, <1>2, <1>4, Kinds DEF Setting
<1>13. Boards(n, recs, i + 1) /\ Turns(n, recs, i + 1)
  <2>1. Boards(n, recs, i + 1)
    BY <1>2, <1>4, QuietRecord DEF Boards
  <2>2. Turns(n, recs, i + 1)
    BY <1>1, <1>2, <1>4, QuietRecord
  <2> QED BY <2>1, <2>2
<1>14. Offered(n, recs, i + 1)
  <2>1. n.doubled => n.turn = Other(r.p)
    BY <1>4, <1>5
  <2>2. r.p = Other(Other(r.p))
    BY <1>1, OtherPlayer
  <2> QED BY <2>1, <2>2 DEF Offered
<1>15. Cube(n, recs, i + 1)
  <2>1. SUFFICES ASSUME m.nMatchTo # 0 PROVE Cube(n, recs, i + 1)
    BY <1>4 DEF Cube
  <2>2. n.cube = m.cube /\ n.owner = m.owner
    BY <1>1, <1>4, <2>1
  <2>3. Takes(recs, i + 1) = Takes(recs, i)
    BY TakesCount
  <2> QED BY <1>1, <1>2, <1>4, <2>2, <2>3, Kinds DEF Cube
<1>16. Ends(n, recs, i + 1)
  BY <1>4, <1>8, <1>11, <1>13, NobodyDone, Kinds DEF Ends, Sound, Typed
<1> QED BY <1>4, <1>11, <1>12, <1>13, <1>14, <1>15, <1>16 DEF Facts, n

\* A take keeps the facts of the game: the cube is twice its value for each take, and the
\* taker's.
LEMMA TakeFacts ==
  ASSUME NEW info \in Infos, NEW recs, NEW i \in Nat, NEW m, Facts(m, info, recs, i),
         NEW r, r = recs[i + 1], Legal(m, r), r.mt = "take",
         NEW y, Taken(y, m, info, r)
  PROVE  Facts(y.ms, y.info, recs, i + 1)
<1> DEFINE n == y.ms
<1>1. /\ r \in Records /\ r.p \in Players /\ m.gs = "playing" /\ m.turn = r.p /\ m.doubled
  BY DEF Legal, Records
<1>2. /\ Sound(m) /\ Setting(m, info) /\ Boards(m, recs, i) /\ Turns(m, recs, i)
      /\ Cube(m, recs, i)
  BY DEF Facts
<1>3. Typed(m) /\ CubeOK(m) /\ InPlay(m) /\ m.turn \in Players /\ m.move \in Players
  BY <1>1, <1>2 DEF Sound
<1>4. /\ IsState(n) /\ y.info = info
      /\ n.gs = "playing" /\ n.turn = m.move /\ n.move = m.move /\ n.dice = m.dice
      /\ n.doubled = FALSE /\ n.resigned = 0 /\ n.declined = 0
      /\ n.cube = 2 * m.cube /\ n.owner = Other(m.move) /\ n.beavers = 0
      /\ n.score = m.score /\ n.cGames = m.cGames /\ n.crawford = m.crawford
      /\ n.post = m.post /\ n.nMatchTo = m.nMatchTo /\ n.board = m.board
  BY DEF Taken
<1> HIDE DEF n
<1>5. /\ n.owner \in Who /\ n.resigned \in 0..3 /\ n.beavers \in 0..NBeavers
  BY <1>3, <1>4, OtherPlayer, MaxCubeIs DEF Who
<1>6. Typed(n)
  BY <1>3, <1>4, <1>5 DEF Typed
<1>7. CubeOK(n)
  <2>1. m.cube < MaxCube
    BY <1>1, <1>3 DEF InPlay
  <2>2. n.cube <= MaxCube
    BY <1>3, <1>4, <2>1, CubeTurns
  <2>3. PICK e \in Nat : m.cube = Shl[e] /\ 2 * m.cube = Shl[e + 1]
    BY <1>3, CubeTurns
  <2> QED BY <1>4, <2>2, <2>3 DEF CubeOK
<1>8. InPlay(n)
  BY <1>4 DEF InPlay
<1>9. Sound(n)
  BY <1>1, <1>2, <1>3, <1>4, <1>6, <1>7, <1>8 DEF Sound
<1>10. Setting(n, y.info)
  BY <1>1, <1>2, <1>4, Kinds DEF Setting
<1>11. Boards(n, recs, i + 1) /\ Turns(n, recs, i + 1)
  <2>1. Boards(n, recs, i + 1)
    BY <1>2, <1>4, QuietRecord DEF Boards
  <2>2. Turns(n, recs, i + 1)
    BY <1>1, <1>2, <1>4, QuietRecord
  <2> QED BY <2>1, <2>2
<1>12. Offered(n, recs, i + 1)
  BY <1>4 DEF Offered
<1>13. Cube(n, recs, i + 1)
  <2>1. SUFFICES ASSUME m.nMatchTo # 0 PROVE Cube(n, recs, i + 1)
    BY <1>4 DEF Cube
  <2>2. r.p = Other(m.move)
    BY <1>1, <1>3, <2>1 DEF InPlay
  <2>3. /\ Takes(recs, i + 1) = Takes(recs, i) \cup {i + 1}
        /\ Cardinality(Takes(recs, i + 1)) = Cardinality(Takes(recs, i)) + 1
        /\ Cardinality(Takes(recs, i)) \in Nat
    BY <1>1, TakesCount
  <2>4. m.cube = Shl[Cardinality(Takes(recs, i))]
    BY <1>1, <1>2, <2>1, Kinds DEF Cube
  <2>5. n.cube = Shl[Cardinality(Takes(recs, i + 1))]
    BY <1>4, <2>3, <2>4, ShlStep
  <2>6. i + 1 \in Takes(recs, i + 1) /\ \A j \in Takes(recs, i + 1) : j <= i + 1
    BY <2>3 DEF Takes
  <2>7. ASSUME NEW j \in Takes(recs, i + 1), \A l \in Takes(recs, i + 1) : l <= j
        PROVE  n.owner = recs[j].p
    <3>1. j = i + 1
      BY <2>6, <2>7 DEF Takes
    <3> QED BY <1>4, <2>2, <3>1
  <2> QED BY <2>5, <2>6, <2>7 DEF Cube
<1>14. Ends(n, recs, i + 1)
  BY <1>1, <1>4, <1>6, <1>9, <1>11, NobodyDone, Kinds DEF Ends, Sound, Typed
<1> QED BY <1>4, <1>9, <1>10, <1>11, <1>12, <1>13, <1>14 DEF Facts, n

\* The GAMEINFO is carried along; at the end of the game its winner and points are set.
Outcome(info, y) ==
    /\ y.ms.gs \notin Ended => y.info = info
    /\ y.ms.gs \in Ended => \E w \in Players, points \in 1..(3 * MaxCube) :
         y.info = [info EXCEPT !.winner = w, !.points = points]

\* w has won the game, and its points are in the score and in the GAMEINFO.
EndsWith(m, n, info, other, w, points) ==
    /\ m.gs \notin Ended /\ n.gs \in Ended
    /\ n.turn \in Players /\ n.move \in Players
    /\ n.nMatchTo = m.nMatchTo /\ n.crawford = m.crawford /\ n.post = m.post
    /\ n.score = [m.score EXCEPT ![w] = @ + points] /\ n.cGames = m.cGames + 1
    /\ other = [info EXCEPT !.winner = w, !.points = points]

\* The facts at the end of a game.
LEMMA LastFacts ==
  ASSUME NEW info \in Infos, NEW other, NEW recs, NEW i \in Nat, NEW m, NEW n,
         Setting(m, info), Typed(n), CubeOK(n),
         NEW w \in Players, NEW points \in 1..(3 * MaxCube), EndsWith(m, n, info, other, w, points),
         Boards(n, recs, i + 1),
         \/ recs[i + 1].mt \in {"drop", "resign"}
         \/ \E p \in Players : n.board[p] = 0
  PROVE  Facts(n, other, recs, i + 1)
<1>1. n.gs # "none" /\ n.gs # "playing" /\ n.gs \notin {"none", "playing"}
  BY Kinds DEF EndsWith
<1>2. Sound(n)
  BY <1>1 DEF Sound, EndsWith
<1>3. /\ other.nMatch = info.nMatch /\ other.crawford = info.crawford /\ other.score = info.score
      /\ other.i = info.i /\ other.winner = w /\ other.points = points
  BY DEF Infos, EndsWith
<1>4. OneAway(other) = OneAway(info)
  BY <1>3 DEF OneAway
<1>5. Setting(n, other)
  BY <1>3, <1>4 DEF Setting, EndsWith
<1>6. Turns(n, recs, i + 1) /\ Offered(n, recs, i + 1)
  BY <1>1 DEF Turns, Offered
<1>7. Cube(n, recs, i + 1)
  BY DEF Cube, EndsWith
<1>8. Ends(n, recs, i + 1)
  <2>1. n.board \in [Players -> 0..Men] /\ n.move \in Players
    BY DEF Typed, EndsWith
  <2>2. (\A p \in Players : n.board[p] > 0)
          <=> (\A p \in Players : BorneOff(recs, i + 1, p) # Men)
    BY <2>1, NobodyDone
  <2>3. (\E p \in Players : n.board[p] = 0) => \E p \in Players : BorneOff(recs, i + 1, p) = Men
    BY <2>2
  <2> QED BY <2>3 DEF Ends, EndsWith
<1> QED BY <1>1, <1>2, <1>5, <1>6, <1>7, <1>8 DEF Facts

\* A drop keeps the facts of the game and ends it in favour of the player who doubled.
LEMMA DropFacts ==
  ASSUME NEW info \in Infos, NEW recs, NEW i \in Nat, NEW m, Facts(m, info, recs, i),
         NEW r, r = recs[i + 1], Legal(m, r), r.mt = "drop",
         NEW y, Dropped(y, m, info, r)
  PROVE  Facts(y.ms, y.info, recs, i + 1) /\ Outcome(info, y)
<1> DEFINE n == y.ms
           w == Other(r.p)
           points == m.cube
<1>1. /\ r \in Records /\ r.p \in Players /\ m.gs = "playing" /\ m.turn = r.p /\ m.doubled
      /\ w \in Players
  BY OtherPlayer DEF Legal, Records
<1>2. /\ Sound(m) /\ Setting(m, info) /\ Boards(m, recs, i)
  BY DEF Facts
<1>3. Typed(m) /\ CubeOK(m) /\ m.turn \in Players /\ m.move \in Players
  BY <1>1, <1>2 DEF Sound
<1>4. /\ IsState(n) /\ y.info = [info EXCEPT !.winner = w, !.points = points]
      /\ n.gs = "drop" /\ n.turn = m.turn /\ n.move = m.move /\ n.dice = m.dice
      /\ n.doubled = FALSE /\ n.resigned = 0 /\ n.declined = 0
      /\ n.cube = m.cube /\ n.owner = m.owner /\ n.beavers = 0
      /\ n.score = [m.score EXCEPT ![w] = @ + points] /\ n.cGames = m.cGames + 1
      /\ n.crawford = m.crawford /\ n.post = m.post /\ n.nMatchTo = m.nMatchTo
      /\ n.board = m.board
  BY DEF Dropped
<1>5. points \in 1..(3 * MaxCube)
  BY <1>3, CubeTurns, MaxCubeIs
<1> HIDE DEF n, w, points
<1>6. n.score \in [Players -> Nat] /\ n.cGames \in Nat
  <2>1. m.score \in [Players -> Nat] /\ m.cGames \in Nat /\ points \in Nat
    BY <1>3, <1>5, MaxCubeIs DEF Typed
  <2> QED BY <1>1, <1>4, <2>1
<1>7. Typed(n)
  <2>1. n.resigned \in 0..3 /\ n.beavers \in 0..NBeavers /\ n.gs \in {"none", "playing"} \cup Ended
    BY <1>4, MaxCubeIs, Kinds
  <2> QED BY <1>3, <1>4, <1>6, <2>1 DEF Typed
<1>8. CubeOK(n)
  BY <1>3, <1>4 DEF CubeOK
<1>9. Boards(n, recs, i + 1)
  BY <1>2, <1>4, QuietRecord DEF Boards
<1>10. m.gs \notin Ended /\ n.gs \in Ended
  BY <1>1, <1>4, Kinds
<1>11. Facts(n, y.info, recs, i + 1)
  <2>1. recs[i + 1].mt \in {"drop", "resign"}
    OBVIOUS
  <2>2. EndsWith(m, n, info, y.info, w, points)
    BY <1>3, <1>4, <1>10 DEF EndsWith
  <2> QED BY <1>1, <1>2, <1>5, <1>7, <1>8, <1>9, <2>1, <2>2, LastFacts
<1> QED BY <1>1, <1>4, <1>5, <1>10, <1>11 DEF n, Outcome

\* A resignation keeps the facts of the game and ends it in favour of the other player.
LEMMA ResignFacts ==
  ASSUME NEW info \in Infos, NEW recs, NEW i \in Nat, NEW m, Facts(m, info, recs, i),
         NEW r, r = recs[i + 1], Legal(m, r), r.mt = "resign",
         NEW y, Resigned(y, m, info, r)
  PROVE  Facts(y.ms, y.info, recs, i + 1) /\ Outcome(info, y)
<1> DEFINE n == y.ms
           w == Other(r.p)
           points == m.cube * r.n
<1>1. /\ r \in Records /\ r.p \in Players /\ m.gs = "playing" /\ r.n \in 1..3
      /\ w \in Players
  BY OtherPlayer DEF Legal, Records
<1>2. /\ Sound(m) /\ Setting(m, info) /\ Boards(m, recs, i)
  BY DEF Facts
<1>3. Typed(m) /\ CubeOK(m) /\ m.turn \in Players /\ m.move \in Players
  BY <1>1, <1>2 DEF Sound
<1>4. /\ IsState(n) /\ y.info = [info EXCEPT !.winner = w, !.points = points]
      /\ n.gs = "resigned" /\ n.turn = m.turn /\ n.move = m.move /\ n.dice = m.dice
      /\ n.doubled = m.doubled /\ n.resigned = r.n /\ n.declined = 0
      /\ n.cube = m.cube /\ n.owner = m.owner /\ n.beavers = m.beavers
      /\ n.score = [m.score EXCEPT ![w] = @ + points] /\ n.cGames = m.cGames + 1
      /\ n.crawford = m.crawford /\ n.post = m.post /\ n.nMatchTo = m.nMatchTo
      /\ n.board = m.board
  BY DEF Resigned
<1>5. points \in 1..(3 * MaxCube)
  <2> DEFINE c == m.cube
             k == r.n
  <2>1. c \in 1..MaxCube /\ MaxCube \in Nat /\ (k = 1 \/ k = 2 \/ k = 3)
    BY <1>1, <1>3, CubeTurns, MaxCubeIs
  <2> HIDE DEF c, k
  <2>2. c * k \in 1..(3 * MaxCube)
    BY <2>1
  <2> QED BY <2>2 DEF c, k
<1> HIDE DEF n, w, points
<1>6. n.score \in [Players -> Nat] /\ n.cGames \in Nat
  <2>1. m.score \in [Players -> Nat] /\ m.cGames \in Nat /\ points \in Nat
    BY <1>3, <1>5, MaxCubeIs DEF Typed
  <2> QED BY <1>1, <1>4, <2>1
<1>7. Typed(n)
  <2>1. n.resigned \in 0..3 /\ n.gs \in {"none", "playing"} \cup Ended
    BY <1>1, <1>4, Kinds
  <2> QED BY <1>3, <1>4, <1>6, <2>1 DEF Typed
<1>8. CubeOK(n)
  BY <1>3, <1>4 DEF CubeOK
<1>9. Boards(n, recs, i + 1)
  BY <1>2, <1>4, QuietRecord DEF Boards
<1>10. m.gs \notin Ended /\ n.gs \in Ended
  BY <1>1, <1>4, Kinds
<1>11. Facts(n, y.info, recs, i + 1)
  <2>1. recs[i + 1].mt \in {"drop", "resign"}
    OBVIOUS
  <2>2. EndsWith(m, n, info, y.info, w, points)
    BY <1>3, <1>4, <1>10 DEF EndsWith
  <2> QED BY <1>1, <1>2, <1>5, <1>7, <1>8, <1>9, <2>1, <2>2, LastFacts
<1> QED BY <1>1, <1>4, <1>5, <1>10, <1>11 DEF n, Outcome

\* GameStatus is not 0 just when a player has no men left.
LEMMA GameStatusIs ==
  ASSUME NEW b \in [Players -> 0..Men]
  PROVE  /\ GameStatus(b) \in 0..2
         /\ GameStatus(b) = 0 <=> \A i \in Players : b[i] > 0
         /\ GameStatus(b) # 0 => \E i \in Players : b[i] = 0
<1>1. \A i \in Players : b[i] \in 0..Men
  OBVIOUS
<1> QED BY <1>1, MaxCubeIs DEF GameStatus

\* A move keeps the facts of the game, and ends it when the mover has no man left.
LEMMA NormalFacts ==
  ASSUME NEW info \in Infos, NEW recs, NEW i \in Nat, NEW m, Facts(m, info, recs, i),
         NEW r, r = recs[i + 1], Legal(m, r), r.mt = "normal",
         NEW y, Moved(y, m, info, r)
  PROVE  Facts(y.ms, y.info, recs, i + 1) /\ Outcome(info, y)
<1> DEFINE n == y.ms
           B == [q \in Players |-> IF q = 0 THEN m.board[1] - r.n ELSE m.board[0]]
           points == m.cube * (IF m.owner = Nobody /\ m.nMatchTo = 0 THEN 1 ELSE GameStatus(B))
<1>1. /\ r \in Records /\ r.p \in Players /\ r.n \in 0..1
      /\ m.gs = "none" \/ (m.gs = "playing" /\ ~m.doubled /\ m.turn = r.p)
  BY DEF Legal, Records
<1>2. Sound(m) /\ Setting(m, info) /\ Boards(m, recs, i) /\ Turns(m, recs, i) /\ Cube(m, recs, i)
  BY DEF Facts
<1>3. Typed(m) /\ CubeOK(m) /\ (\A q \in Players : m.board[q] > 0) /\ m.gs \notin Ended
  BY <1>1, <1>2, Kinds DEF Sound
<1>4. /\ IsState(n) /\ n.turn = Other(r.p) /\ n.move = Other(r.p) /\ n.dice = NoDice
      /\ n.doubled = FALSE /\ n.resigned = 0 /\ n.declined = 0
      /\ n.cube = m.cube /\ n.owner = m.owner /\ n.beavers = m.beavers
      /\ n.crawford = m.crawford /\ n.post = m.post /\ n.nMatchTo = m.nMatchTo
      /\ n.board = B
      /\ GameStatus(B) = 0 =>
           /\ y.info = info /\ n.gs = "playing" /\ n.score = m.score /\ n.cGames = m.cGames
      /\ GameStatus(B) # 0 =>
           /\ y.info = [info EXCEPT !.winner = r.p, !.points = points]
           /\ n.gs = "over" /\ n.score = [m.score EXCEPT ![r.p] = @ + points]
           /\ n.cGames = m.cGames + 1
  BY DEF Moved
<1>5. /\ B[0] = m.board[1] - r.n /\ B[1] = m.board[0] /\ B \in [Players -> 0..Men]
  <2>1. m.board[0] \in 0..Men /\ m.board[1] \in 0..Men /\ m.board[0] > 0 /\ m.board[1] > 0
    BY <1>3, OtherPlayer DEF Typed
  <2>2. m.board[1] - r.n \in 0..Men
    BY <1>1, <2>1, MaxCubeIs
  <2> QED BY <2>1, <2>2, OtherPlayer
<1> HIDE DEF n, B
<1>6. points \in 1..(3 * MaxCube) \/ GameStatus(B) = 0
  <2> DEFINE c == m.cube
             k == IF m.owner = Nobody /\ m.nMatchTo = 0 THEN 1 ELSE GameStatus(B)
  <2>1. c \in 1..MaxCube /\ MaxCube \in Nat /\ GameStatus(B) \in 0..2
    BY <1>3, <1>5, CubeTurns, MaxCubeIs, GameStatusIs
  <2>2. GameStatus(B) # 0 => k = 1 \/ k = 2
    BY <2>1
  <2> HIDE DEF c, k
  <2>3. k = 1 \/ k = 2 => c * k \in 1..(3 * MaxCube)
    BY <2>1
  <2> QED BY <2>2, <2>3 DEF c, k
<1> HIDE DEF points
\* The chequers of the mover, and of the other side.
<1>7. /\ m.board[1] = Men - BorneOff(recs, i, r.p)
      /\ m.board[0] = Men - BorneOff(recs, i, Other(r.p))
  <2>1. CASE m.gs = "none"
    <3>1. m.board[0] = Men /\ m.board[1] = Men /\ m.move = Nobody
      BY <1>2, <2>1, OtherPlayer DEF Sound, Fresh, FullBoard
    <3>2. i = 0
      BY <2>1 DEF Facts
    <3> QED BY <3>1, <3>2, BorneOffCounts, MaxCubeIs
  <2>2. CASE m.gs # "none"
    <3>1. m.move = r.p /\ Other(r.p) \in Players /\ Other(r.p) # r.p
      BY <1>1, <1>2, <2>2, OtherPlayer DEF Sound, InPlay
    <3>2. \A p \in Players : m.board[IF p = r.p THEN 1 ELSE 0] = Men - BorneOff(recs, i, p)
      BY <1>2, <3>1 DEF Boards
    <3> QED BY <1>1, <3>1, <3>2
  <2> QED BY <2>1, <2>2
<1>8. Boards(n, recs, i + 1)
  <2>1. BorneOff(recs, i + 1, Other(r.p)) = BorneOff(recs, i, Other(r.p))
    <3>1. recs[i + 1] # Rec("normal", Other(r.p), 1)
      BY <1>1, OtherPlayer DEF Rec
    <3>2. /\ BorneOff(recs, i, Other(r.p)) \in Nat
          /\ BorneOff(recs, i + 1, Other(r.p)) = BorneOff(recs, i, Other(r.p))
               + IF recs[i + 1] = Rec("normal", Other(r.p), 1) THEN 1 ELSE 0
      BY BorneOffCounts
    <3> QED BY <3>1, <3>2
  <2>2. BorneOff(recs, i + 1, r.p) = BorneOff(recs, i, r.p) + r.n
    <3>1. recs[i + 1] = Rec("normal", r.p, 1) <=> r.n = 1
      BY <1>1 DEF Rec, Records
    <3>2. BorneOff(recs, i, r.p) \in Nat
      BY BorneOffCounts
    <3>3. BorneOff(recs, i + 1, r.p) = BorneOff(recs, i, r.p) + IF r.n = 1 THEN 1 ELSE 0
      BY <3>1, BorneOffCounts
    <3> QED BY <1>1, <3>2, <3>3
  <2>3. \A p \in Players : p = r.p \/ p = Other(r.p)
    BY <1>1, OtherPlayer
  <2>4. n.board[0] = Men - BorneOff(recs, i + 1, r.p)
    <3>1. BorneOff(recs, i, r.p) \in Nat
      BY BorneOffCounts
    <3> QED BY <1>1, <1>4, <1>5, <1>7, <2>2, <3>1, MaxCubeIs
  <2>5. n.board[1] = Men - BorneOff(recs, i + 1, Other(r.p))
    BY <1>4, <1>5, <1>7, <2>1
  <2>6. r.p # n.move /\ n.move = Other(r.p)
    BY <1>1, <1>4, OtherPlayer
  <2> QED BY <2>3, <2>4, <2>5, <2>6 DEF Boards
<1>9. n.turn \in Players /\ n.move \in Players /\ n.owner \in Who /\ n.resigned \in 0..3
  BY <1>1, <1>3, <1>4, OtherPlayer DEF Typed
<1>10. CubeOK(n)
  BY <1>3, <1>4 DEF CubeOK
<1>11. CASE GameStatus(B) = 0
  <2>1. y.info = info /\ n.gs = "playing" /\ n.score = m.score /\ n.cGames = m.cGames
    BY <1>4, <1>11
  <2>2. Typed(n)
    BY <1>3, <1>4, <1>5, <1>9, <2>1 DEF Typed
  <2>3. \A q \in Players : n.board[q] > 0
    BY <1>4, <1>5, <1>11, GameStatusIs
  <2>4. Sound(n)
    <3>1. InPlay(n)
      BY <1>4 DEF InPlay
    <3> QED BY <1>9, <1>10, <2>1, <2>2, <2>3, <3>1 DEF Sound
  <2>5. Setting(n, y.info)
    BY <1>2, <1>3, <1>4, <2>1, Kinds DEF Setting
  <2>6. Turns(n, recs, i + 1)
    <3> SUFFICES ASSUME NEW j \in 1..(i + 1), recs[j].p = Gnu,
                        \A l \in (j + 1)..(i + 1) : ~(recs[l].mt = "normal" /\ recs[l].p = Human)
                 PROVE  n.move = Human
      BY DEF Turns
    <3>1. r.p = Gnu
      <4>1. j = i + 1 \/ i + 1 \in (j + 1)..(i + 1)
        OBVIOUS
      <4>2. r.p # Human
        BY <4>1, HumanIs
      <4> QED BY <1>1, <4>2, HumanIs, OtherPlayer
    <3> QED BY <1>4, <3>1, HumanIs
  <2>7. Offered(n, recs, i + 1)
    BY <1>4 DEF Offered
  <2>8. Cube(n, recs, i + 1)
    <3>1. Takes(recs, i + 1) = Takes(recs, i)
      BY TakesCount
    <3> QED BY <1>2, <1>3, <1>4, <3>1 DEF Cube
  <2>9. Ends(n, recs, i + 1)
    <3>1. \A p \in Players : BorneOff(recs, i + 1, p) # Men
      BY <1>8, <1>9, <2>2, <2>3, NobodyDone DEF Typed
    <3> QED BY <2>1, <3>1, Kinds DEF Ends
  <2>10. Facts(n, y.info, recs, i + 1)
    BY <1>8, <2>1, <2>4, <2>5, <2>6, <2>7, <2>8, <2>9 DEF Facts
  <2> QED BY <2>1, <2>10, Kinds DEF n, Outcome
<1>12. CASE GameStatus(B) # 0
  <2>1. /\ y.info = [info EXCEPT !.winner = r.p, !.points = points]
        /\ n.gs = "over" /\ n.score = [m.score EXCEPT ![r.p] = @ + points]
        /\ n.cGames = m.cGames + 1 /\ points \in 1..(3 * MaxCube)
    BY <1>4, <1>6, <1>12
  <2>2. n.score \in [Players -> Nat] /\ n.cGames \in Nat
    <3>1. m.score \in [Players -> Nat] /\ m.cGames \in Nat /\ points \in Nat
      BY <1>3, <2>1, MaxCubeIs DEF Typed
    <3> QED BY <1>1, <2>1, <3>1
  <2>3. n.gs \in {"none", "playing"} \cup Ended /\ n.gs \in Ended
    BY <2>1, Kinds
  <2>4. Typed(n)
    BY <1>3, <1>4, <1>5, <1>9, <2>2, <2>3 DEF Typed
  <2>5. \E q \in Players : n.board[q] = 0
    BY <1>4, <1>5, <1>12, GameStatusIs
  <2>6. EndsWith(m, n, info, y.info, r.p, points)
    BY <1>3, <1>4, <1>9, <2>1, <2>3 DEF EndsWith
  <2>7. Facts(n, y.info, recs, i + 1)
    BY <1>1, <1>2, <1>8, <1>10, <2>1, <2>4, <2>5, <2>6, LastFacts
  <2> QED BY <1>1, <2>1, <2>3, <2>7 DEF n, Outcome
<1> QED BY <1>11, <1>12

\* Every record that is legal keeps the facts of the game.
LEMMA LegalStep ==
  ASSUME NEW info \in Infos, NEW recs, NEW i \in Nat, NEW m, Facts(m, info, recs, i),
         Legal(m, recs[i + 1]), NEW y, y = FixAndApply(m, info, recs[i + 1])
  PROVE  Facts(y.ms, y.info, recs, i + 1) /\ Outcome(info, y)
<1> DEFINE r == recs[i + 1]
<1>1. /\ r \in Records /\ r.mt \in RecordKinds /\ r.p \in Players /\ Sound(m)
      /\ m.gs \in {"none", "playing"}
  BY DEF Legal, Records, Facts
<1>2. IsState(m) /\ m.doubled \in BOOLEAN
  BY <1>1 DEF Sound, Typed
<1> HIDE DEF r
<1>3. CASE r.mt = "setdice"
  <2>1. Rolled(y, m, info, r)
    BY <1>1, <1>2, <1>3, SetDiceStep DEF r
  <2>2. Facts(y.ms, y.info, recs, i + 1)
    BY <1>3, <2>1, SetDiceFacts DEF r
  <2> QED BY <2>1, <2>2, Kinds DEF Outcome, Rolled
<1>4. CASE r.mt = "normal"
  <2>1. Moved(y, m, info, r)
    <3>1. m.board \in [Players -> Int] /\ m.score \in [Players -> Nat]
      BY <1>1 DEF Sound, Typed
    <3>2. \/ m.turn = r.p /\ m.move = r.p
          \/ m.turn = m.move /\ SwapSides(m.board) = m.board
      <4>1. CASE m.gs = "none"
        BY <1>1, <4>1, FullBoardSwaps DEF Sound, Fresh
      <4>2. CASE m.gs = "playing"
        <5>1. ~m.doubled /\ m.turn = r.p
          BY <1>4, <4>2 DEF Legal, r
        <5> QED BY <1>1, <4>2, <5>1 DEF Sound, InPlay
      <4> QED BY <1>1, <4>1, <4>2
    <3> QED BY <1>1, <1>2, <1>4, <3>1, <3>2, NormalStep DEF r
  <2> QED BY <1>4, <2>1, NormalFacts DEF r
<1>5. CASE r.mt = "double"
  <2>1. m.gs = "playing" /\ m.turn = r.p
    BY <1>5 DEF Legal, r
  <2>2. m.move \in Players
    BY <1>1, <2>1 DEF Sound
  <2>3. Doubled(y, m, info, r)
    BY <1>1, <1>2, <1>5, <2>1, <2>2, DoubleStep DEF r
  <2>4. Facts(y.ms, y.info, recs, i + 1)
    BY <1>5, <2>3, DoubleFacts DEF r
  <2> QED BY <2>3, <2>4, Kinds DEF Outcome, Doubled
<1>6. CASE r.mt = "take"
  <2>1. m.doubled
    BY <1>6 DEF Legal, r
  <2>2. Taken(y, m, info, r)
    BY <1>1, <1>2, <1>6, <2>1, TakeStep DEF r
  <2>3. Facts(y.ms, y.info, recs, i + 1)
    BY <1>6, <2>2, TakeFacts DEF r
  <2> QED BY <2>2, <2>3, Kinds DEF Outcome, Taken
<1>7. CASE r.mt = "drop"
  <2>1. m.doubled
    BY <1>7 DEF Legal, r
  <2>2. Dropped(y, m, info, r)
    BY <1>1, <1>2, <1>7, <2>1, DropStep DEF r
  <2> QED BY <1>7, <2>2, DropFacts DEF r
<1>8. CASE r.mt = "resign"
  <2>1. Resigned(y, m, info, r)
    BY <1>1, <1>2, <1>8, ResignStep DEF r
  <2> QED BY <1>8, <2>1, ResignFacts DEF r
<1> QED BY <1>1, <1>3, <1>4, <1>5, <1>6, <1>7, <1>8 DEF RecordKinds

\* gnubg's turn forgone keeps the facts of the game.
LEMMA FacingFacts ==
  ASSUME NEW info, NEW recs, NEW i, NEW m, Facts(m, info, recs, i), Passed(m)
  PROVE  Facts(Facing(m), info, recs, i)
<1> DEFINE n == Facing(m)
<1>1. /\ Sound(m) /\ Setting(m, info) /\ Boards(m, recs, i) /\ Turns(m, recs, i) /\ Cube(m, recs, i)
      /\ Ends(m, recs, i) /\ (i = 0 <=> m.gs = "none")
  BY DEF Facts
<1>2. Typed(m) /\ InPlay(m) /\ m.move = Gnu /\ m.gs = "playing" /\ ~m.doubled /\ m.turn = Gnu
  BY <1>1 DEF Sound, InPlay, Passed
<1>3. /\ n.gs = m.gs /\ n.turn = Human /\ n.move = Human /\ n.dice = m.dice
      /\ n.doubled = m.doubled /\ n.resigned = m.resigned /\ n.declined = m.declined
      /\ n.cube = m.cube /\ n.owner = m.owner /\ n.beavers = m.beavers /\ n.score = m.score
      /\ n.cGames = m.cGames /\ n.crawford = m.crawford /\ n.post = m.post
      /\ n.nMatchTo = m.nMatchTo /\ n.board = SwapSides(m.board) /\ IsState(n)
  BY <1>2, ExceptIsFcn DEF Typed, IsState, Fields, Facing
<1>4. n.board \in [Players -> 0..Men] /\ n.board[0] = m.board[1] /\ n.board[1] = m.board[0]
  <2>1. m.board[0] \in 0..Men /\ m.board[1] \in 0..Men
    BY <1>2, OtherPlayer DEF Typed
  <2> QED BY <1>3, <2>1, SwapSidesIs
<1> HIDE DEF n
<1>5. Sound(n)
  <2>1. Typed(n)
    BY <1>2, <1>3, <1>4 DEF Typed
  <2>2. CubeOK(n)
    BY <1>1, <1>3 DEF Sound, CubeOK
  <2>3. InPlay(n)
    BY <1>2, <1>3 DEF InPlay
  <2>4. \A q \in Players : n.board[q] > 0
    BY <1>1, <1>2, <1>4, OtherPlayer DEF Sound
  <2> QED BY <1>2, <1>3, <2>1, <2>2, <2>3, <2>4, HumanIs DEF Sound
<1>6. Setting(n, info)
  BY <1>1, <1>3 DEF Setting
<1>7. Boards(n, recs, i)
  <2>1. \A p \in Players : m.board[IF p = m.move THEN 1 ELSE 0] = Men - BorneOff(recs, i, p)
    BY <1>1 DEF Boards
  <2>2. m.board[1] = Men - BorneOff(recs, i, Gnu) /\ m.board[0] = Men - BorneOff(recs, i, Human)
    BY <1>2, <2>1, HumanIs
  <2>3. \A p \in Players : p = Human \/ p = Gnu
    BY HumanIs, OtherPlayer
  <2> QED BY <1>3, <1>4, <2>2, <2>3, HumanIs DEF Boards
<1>8. Turns(n, recs, i)
  BY <1>3 DEF Turns
<1>9. Offered(n, recs, i) /\ Cube(n, recs, i) /\ Ends(n, recs, i)
  BY <1>1, <1>2, <1>3 DEF Offered, Cube, Ends
<1> QED BY <1>1, <1>3, <1>5, <1>6, <1>7, <1>8, <1>9 DEF Facts, n

\* n is m turned to the human, but for what every record sets and for whose turn it was.
TurnedTo(n, m) ==
    /\ IsState(m) /\ IsState(n)
    /\ m.move = Gnu /\ n.move = Human /\ n.turn = Human /\ n.board = SwapSides(m.board)
    /\ m.dice = n.dice /\ m.doubled = n.doubled
    /\ m.cube = n.cube /\ m.owner = n.owner /\ m.beavers = n.beavers /\ m.score = n.score
    /\ m.cGames = n.cGames /\ m.crawford = n.crawford /\ m.post = n.post
    /\ m.nMatchTo = n.nMatchTo

\* A roll of the human's, or its move where it is on turn, turns the board if need be.
LEMMA TurnedToSame ==
  ASSUME NEW info, NEW m, NEW n, TurnedTo(n, m), NEW r, r.p = Human,
         r.mt = "setdice" \/ (r.mt = "normal" /\ m.turn = Human)
  PROVE  FixAndApply(n, info, r) = FixAndApply(m, info, r)
<1> DEFINE a == [m EXCEPT !.gs = "playing", !.resigned = 0, !.declined = 0]
           b == [n EXCEPT !.gs = "playing", !.resigned = 0, !.declined = 0]
<1>1. FixMatchState(m, r) = m /\ FixMatchState(n, r) = n
  BY DEF FixMatchState, TurnedTo
<1>2. /\ TurnedTo(b, a) /\ a.gs = b.gs /\ a.resigned = b.resigned /\ a.declined = b.declined
  BY ExceptIsFcn DEF TurnedTo, IsState, Fields
<1>3. /\ FixAndApply(n, info, r) = ApplyMoveRecord(n, info, r)
      /\ FixAndApply(m, info, r) = ApplyMoveRecord(m, info, r)
  BY <1>1 DEF FixAndApply
<1>4. CASE r.mt = "setdice"
  <2> DEFINE x == ApplySetDice(a, r.p, r.n)
             z == ApplySetDice(b, r.p, r.n)
  <2>1. ApplyMoveRecord(n, info, r) = GoesOn(z, info) /\ ApplyMoveRecord(m, info, r) = GoesOn(x, info)
    BY <1>4 DEF ApplyMoveRecord
  <2> HIDE DEF a, b
  <2>2. IsState(x) /\ IsState(z)
    BY <1>2, ExceptIsFcn DEF IsState, Fields, ApplySetDice, TurnedTo
  <2>3. /\ x.turn = Human /\ z.turn = Human /\ x.move = Human /\ z.move = Human
        /\ x.dice = r.n /\ z.dice = r.n /\ x.doubled = FALSE /\ z.doubled = FALSE
        /\ x.board = SwapSides(a.board) /\ z.board = b.board
    BY <1>2, HumanIs DEF IsState, Fields, ApplySetDice, TurnedTo
  <2>4. /\ x.gs = z.gs /\ x.resigned = z.resigned /\ x.declined = z.declined /\ x.cube = z.cube
        /\ x.owner = z.owner /\ x.beavers = z.beavers /\ x.score = z.score /\ x.cGames = z.cGames
        /\ x.crawford = z.crawford /\ x.post = z.post /\ x.nMatchTo = z.nMatchTo
    BY <1>2 DEF IsState, Fields, ApplySetDice, TurnedTo
  <2> HIDE DEF x, z
  <2>5. x = z
    BY <1>2, <2>2, <2>3, <2>4, SameState DEF TurnedTo
  <2> QED BY <1>3, <2>1, <2>5
<1>5. CASE r.mt = "normal"
  <2> DEFINE c == [a EXCEPT !.doubled = FALSE]
             d == [b EXCEPT !.doubled = FALSE]
             x == [PlayMove(c, r.p, r.n) EXCEPT !.dice = NoDice]
             z == [PlayMove(d, r.p, r.n) EXCEPT !.dice = NoDice]
  <2>1. /\ ApplyMoveRecord(n, info, r) = ApplyNormal(b, info, r.p, r.n)
        /\ ApplyMoveRecord(m, info, r) = ApplyNormal(a, info, r.p, r.n)
    BY <1>5 DEF ApplyMoveRecord
  <2> HIDE DEF a, b
  <2>2. TurnedTo(d, c) /\ c.gs = d.gs /\ c.resigned = d.resigned /\ c.declined = d.declined
    BY <1>2, ExceptIsFcn DEF TurnedTo, IsState, Fields
  <2> HIDE DEF c, d
  <2> DEFINE B == SwapSides([d.board EXCEPT ![1] = @ - r.n])
  <2>3. /\ PlayMove(c, r.p, r.n) = [c EXCEPT !.board = B, !.move = Other(r.p), !.turn = Other(r.p)]
        /\ PlayMove(d, r.p, r.n) = [d EXCEPT !.board = B, !.move = Other(r.p), !.turn = Other(r.p)]
    <3>1. c.move # Nobody /\ r.p # c.move /\ r.p = d.move /\ d.board = SwapSides(c.board)
      BY <2>2, HumanIs, OtherPlayer DEF TurnedTo
    <3> QED BY <3>1 DEF PlayMove
  <2> HIDE DEF B
  <2>4. x = z
    <3>1. IsState(x) /\ IsState(z)
      BY <2>2, <2>3, ExceptIsFcn DEF IsState, Fields, TurnedTo
    <3>2. /\ x.turn = z.turn /\ x.move = z.move /\ x.dice = z.dice /\ x.board = z.board
          /\ x.gs = z.gs /\ x.doubled = z.doubled /\ x.resigned = z.resigned
          /\ x.declined = z.declined
      BY <2>2, <2>3 DEF IsState, Fields, TurnedTo
    <3>3. /\ x.cube = z.cube /\ x.owner = z.owner
          /\ x.beavers = z.beavers /\ x.score = z.score /\ x.cGames = z.cGames
          /\ x.crawford = z.crawford /\ x.post = z.post /\ x.nMatchTo = z.nMatchTo
      BY <2>2, <2>3 DEF IsState, Fields, TurnedTo
    <3> HIDE DEF x, z
    <3> QED BY <3>1, <3>2, <3>3, SameState
  <2> DEFINE Out(w) ==
               IF GameStatus(w.board) = 0 THEN GoesOn(w, info)
               ELSE GameOver(w, info, "over", r.p,
                             w.cube * (IF w.owner = Nobody /\ w.nMatchTo = 0 THEN 1
                                       ELSE GameStatus(w.board)))
  <2>5. ApplyNormal(b, info, r.p, r.n) = Out(z) /\ ApplyNormal(a, info, r.p, r.n) = Out(x)
    BY DEF ApplyNormal, c, d
  <2> HIDE DEF x, z, Out
  <2> QED BY <1>3, <2>1, <2>4, <2>5
<1> QED BY <1>4, <1>5

\* A record of the human's is the same after a turn that gnubg forgoes.
LEMMA FacingSame ==
  ASSUME NEW info, NEW m, IsState(m), Passed(m), m.move = Gnu,
         NEW r, r.p = Human, r.mt \in {"setdice", "normal", "double"}
  PROVE  FixAndApply(Facing(m), info, r) = FixAndApply(m, info, r)
<1>1. TurnedTo(Facing(m), m) /\ m.turn = Gnu
  BY ExceptIsFcn DEF IsState, Fields, Facing, Passed, TurnedTo
<1>2. CASE r.mt \in {"normal", "double"}
  <2>1. FixMatchState(m, r) = Facing(m)
    BY <1>1, <1>2, HumanIs DEF FixMatchState, Facing
  <2>2. FixMatchState(Facing(m), r) = Facing(m)
    BY <1>1 DEF FixMatchState, TurnedTo
  <2> QED BY <2>1, <2>2 DEF FixAndApply
<1>3. CASE r.mt = "setdice"
  BY <1>1, <1>3, TurnedToSame
<1> QED BY <1>2, <1>3

\* Every record that is allowed keeps the facts of the game.
LEMMA FactsStep ==
  ASSUME NEW info \in Infos, NEW recs, NEW i \in Nat, NEW m, Facts(m, info, recs, i),
         Allowed(m, recs[i + 1]), NEW y, y = FixAndApply(m, info, recs[i + 1])
  PROVE  Facts(y.ms, y.info, recs, i + 1) /\ Outcome(info, y)
<1>1. CASE Legal(m, recs[i + 1])
  BY <1>1, LegalStep
<1>2. CASE ~Legal(m, recs[i + 1])
  <2>1. /\ Passed(m) /\ recs[i + 1].p = Human /\ recs[i + 1].mt \in {"setdice", "normal", "double"}
        /\ Legal(Facing(m), recs[i + 1])
    BY <1>2 DEF Allowed
  <2>2. IsState(m) /\ m.move = Gnu
    BY <2>1 DEF Facts, Sound, Typed, InPlay, Passed
  <2>3. y = FixAndApply(Facing(m), info, recs[i + 1])
    BY <2>1, <2>2, FacingSame
  <2>4. Facts(Facing(m), info, recs, i)
    BY <2>1, FacingFacts
  <2> QED BY <2>1, <2>3, <2>4, LegalStep
<1> QED BY <1>1, <1>2

\* What any record that is allowed has, and what it is allowed in.
LEMMA AllowedIs ==
  ASSUME NEW m, NEW r, Allowed(m, r)
  PROVE  r \in Records /\ r.mt \in RecordKinds /\ m.gs \in {"none", "playing"}
BY DEF Allowed, Legal, Passed, Records

\* A legal record of whoever is on turn, once gnubg has forgone its own, is allowed before.
LEMMA FacingAllows ==
  ASSUME NEW m, IsState(m), Passed(m), NEW r, Legal(Facing(m), r)
  PROVE  Allowed(m, r) /\ (r.mt # "resign" => r.p = Human /\ r.mt \in {"setdice", "normal", "double"})
<1>1. /\ Facing(m).gs = "playing" /\ Facing(m).turn = Human /\ ~Facing(m).doubled
      /\ m.gs = "playing" /\ ~m.doubled
  BY DEF IsState, Fields, Facing, Passed
<1>2. r \in Records /\ r.mt \in RecordKinds
  BY DEF Legal, Records
<1>3. CASE r.mt = "resign"
  BY <1>1, <1>2, <1>3 DEF Legal, Allowed
<1>4. CASE r.mt # "resign"
  <2>1. r.mt \in {"setdice", "normal", "double"} /\ r.p = Human
    BY <1>1, <1>2, <1>4 DEF Legal, RecordKinds
  <2> QED BY <2>1 DEF Allowed
<1> QED BY <1>3, <1>4

\* Dice are rolled where there are none.
LEMMA AllowedRoll ==
  ASSUME NEW m, IsState(m), NEW r, Allowed(m, r), r.mt = "setdice"
  PROVE  m.dice = NoDice /\ r.n \in {Stuck, Open}
<1>1. Facing(m).dice = m.dice
  BY DEF IsState, Fields, Facing
<1> QED BY <1>1 DEF Allowed, Legal

\* A match state with a game's info.
IsPair(x) == DOMAIN x = {"ms", "info"} /\ IsFcn(x)

\* The same has become of the pair with the GAMEINFO a and of the one with b.
Alike(x, a, y, b) ==
    /\ IsPair(x) /\ IsPair(y) /\ x.ms = y.ms
    /\ \/ x.info = a /\ y.info = b
       \/ \E w, points : /\ x.info = [a EXCEPT !.winner = w, !.points = points]
                         /\ y.info = [b EXCEPT !.winner = w, !.points = points]

\* A record does to the match state, and to the GAMEINFO, the same whatever the GAMEINFO is.
LEMMA InfoOnlyCarried ==
  ASSUME NEW m, NEW r, r.mt \in RecordKinds, NEW a, NEW b
  PROVE  Alike(FixAndApply(m, a, r), a, FixAndApply(m, b, r), b)
<1> DEFINE f == FixMatchState(m, r)
           n == [f EXCEPT !.gs = "playing", !.resigned = 0, !.declined = 0]
<1>1. \A z : Alike(GoesOn(z, a), a, GoesOn(z, b), b)
  BY DEF GoesOn, IsPair, IsFcn, Alike
<1>2. ASSUME NEW z, NEW gs, NEW w, NEW points
      PROVE  Alike(GameOver(z, a, gs, w, points), a, GameOver(z, b, gs, w, points), b)
  <2>1. /\ GameOver(z, a, gs, w, points).info = [a EXCEPT !.winner = w, !.points = points]
        /\ GameOver(z, b, gs, w, points).info = [b EXCEPT !.winner = w, !.points = points]
        /\ GameOver(z, a, gs, w, points).ms = GameOver(z, b, gs, w, points).ms
    BY DEF GameOver
  <2>2. IsPair(GameOver(z, a, gs, w, points)) /\ IsPair(GameOver(z, b, gs, w, points))
    BY DEF GameOver, IsPair, IsFcn
  <2> QED BY <2>1, <2>2 DEF Alike
<1> HIDE DEF n
<1>3. CASE r.mt = "setdice"
  <2>1. \A i : FixAndApply(m, i, r) = GoesOn(ApplySetDice(n, r.p, r.n), i)
    BY <1>3 DEF FixAndApply, ApplyMoveRecord, n
  <2> QED BY <1>1, <2>1
<1>4. CASE r.mt = "double"
  <2>1. \A i : FixAndApply(m, i, r) = GoesOn(ApplyDouble(n, r.p), i)
    BY <1>4 DEF FixAndApply, ApplyMoveRecord, n
  <2> QED BY <1>1, <2>1
<1>5. CASE r.mt = "take"
  <2>1. \A i : FixAndApply(m, i, r) = GoesOn(ApplyTake(n), i)
    BY <1>5 DEF FixAndApply, ApplyMoveRecord, n
  <2> QED BY <1>1, <2>1
<1>6. CASE r.mt = "drop"
  <2> DEFINE z == [n EXCEPT !.doubled = FALSE, !.beavers = 0]
  <2>1. \A i : FixAndApply(m, i, r) =
          IF ~n.doubled THEN GoesOn(n, i) ELSE GameOver(z, i, "drop", Other(r.p), n.cube)
    BY <1>6 DEF FixAndApply, ApplyMoveRecord, ApplyDrop, n
  <2> HIDE DEF z
  <2> QED BY <1>1, <1>2, <2>1
<1>7. CASE r.mt = "normal"
  <2> DEFINE z == [PlayMove([n EXCEPT !.doubled = FALSE], r.p, r.n) EXCEPT !.dice = NoDice]
             k == z.cube * (IF z.owner = Nobody /\ z.nMatchTo = 0 THEN 1 ELSE GameStatus(z.board))
  <2>1. \A i : FixAndApply(m, i, r) =
          IF GameStatus(z.board) = 0 THEN GoesOn(z, i) ELSE GameOver(z, i, "over", r.p, k)
    BY <1>7 DEF FixAndApply, ApplyMoveRecord, ApplyNormal, n
  <2> HIDE DEF z, k
  <2> QED BY <1>1, <1>2, <2>1
<1>8. CASE r.mt = "resign"
  <2> DEFINE z == [n EXCEPT !.resigned = r.n]
             k == n.cube * r.n
  <2>1. \A i : FixAndApply(m, i, r) = GameOver(z, i, "resigned", Other(r.p), k)
    BY <1>8 DEF FixAndApply, ApplyMoveRecord, ApplyResign, n
  <2> HIDE DEF z, k
  <2> QED BY <1>2, <2>1
<1> QED BY <1>3, <1>4, <1>5, <1>6, <1>7, <1>8 DEF RecordKinds

\* A game unfolds record by record.
LEMMA AfterUnfolds ==
  ASSUME NEW game
  PROVE  /\ After(game, 0) = GoesOn(Base(game.info), game.info)
         /\ After(game, 0).ms = Base(game.info) /\ After(game, 0).info = game.info
         /\ \A k \in Nat : After(game, k + 1) =
                FixAndApply(After(game, k).ms, After(game, k).info, game.recs[k + 1])
<1>1. IsState(Base(game.info))
  BY DEF Base, IsState, Fields, IsFcn
<1>2. ApplyGameInfo(Base(game.info), game.info) = Base(game.info)
  BY <1>1, GameInfoForgets
<1>3. After(game, 0) = GoesOn(Base(game.info), game.info)
  BY <1>2, ReplayedUnfolds DEF After
<1>4. GoesOn(Base(game.info), game.info).ms = Base(game.info) /\ GoesOn(Base(game.info), game.info).info = game.info
  BY DEF GoesOn
<1>5. \A k \in Nat : After(game, k + 1) =
        FixAndApply(After(game, k).ms, After(game, k).info, game.recs[k + 1])
  BY ReplayedUnfolds DEF After
<1> QED BY <1>3, <1>4, <1>5

\* Whatever was on the board before, a replay comes to the same.
LEMMA ReplayedIs ==
  ASSUME NEW m, IsState(m), NEW game
  PROVE  \A k \in Nat : Replayed(m, game, k) = After(game, k)
<1> DEFINE S == {k \in Nat : Replayed(m, game, k) = After(game, k)}
<1>1. 0 \in S
  <2>1. ApplyGameInfo(m, game.info) = Base(game.info)
    BY GameInfoForgets
  <2>2. Replayed(m, game, 0) = GoesOn(Base(game.info), game.info)
    BY <2>1, ReplayedUnfolds
  <2> QED BY <2>2, AfterUnfolds
<1>2. ASSUME NEW k \in Nat, k \in S PROVE k + 1 \in S
  <2>1. Replayed(m, game, k) = After(game, k)
    BY <1>2
  <2>2. Replayed(m, game, k + 1) = FixAndApply(After(game, k).ms, After(game, k).info, game.recs[k + 1])
    BY <2>1, ReplayedUnfolds
  <2>3. Replayed(m, game, k + 1) = After(game, k + 1)
    BY <2>2, AfterUnfolds
  <2> QED BY <2>3
<1>3. Nat \subseteq S
  <2> HIDE DEF S
  <2> QED BY <1>1, <1>2, SetInduction
<1> QED BY <1>3

---------------------------------------------------------------------------
(* A game that grows.                                                      *)

\* A game just begun has its facts.
LEMMA FreshGame ==
  ASSUME NEW info \in Infos, InfoOK(info)
  PROVE  GameUpTo([info |-> info, recs |-> <<>>], 0)
<1> DEFINE game == [info |-> info, recs |-> <<>>]
<1>1. game \in Games /\ game.info = info /\ Len(game.recs) = 0
  BY DEF Games
<1> HIDE DEF game
<1>2. After(game, 0).ms = Base(info) /\ After(game, 0).info = info
  BY <1>1, AfterUnfolds
<1>3. FactsAt(game, 0)
  BY <1>1, <1>2, FirstFacts DEF FactsAt
<1> QED BY <1>1, <1>3 DEF GameUpTo, game

\* The first n records of a game that goes on, and one more.
Grown(game, n, r, y) == [info |-> y.info, recs |-> Append(SubSeq(game.recs, 1, n), r)]

\* The game cut at n with one record added.
LEMMA GrownIs ==
  ASSUME NEW game \in Games, NEW n \in 0..Len(game.recs), NEW r \in Records,
         NEW y, y.info \in Infos
  PROVE  /\ Grown(game, n, r, y) \in Games
         /\ Grown(game, n, r, y).info = y.info
         /\ Len(Grown(game, n, r, y).recs) = n + 1
         /\ \A j \in 1..n : Grown(game, n, r, y).recs[j] = game.recs[j]
         /\ Grown(game, n, r, y).recs[n + 1] = r
<1>1. game.recs \in Seq(Records) /\ n \in Nat /\ n <= Len(game.recs)
  BY DEF Games
<1> DEFINE s == SubSeq(game.recs, 1, n)
<1>2. s \in Seq(Records) /\ Len(s) = n /\ \A j \in 1..n : s[j] = game.recs[j]
  BY <1>1, SubSeqProperties
<1> HIDE DEF s
<1>3. /\ Append(s, r) \in Seq(Records) /\ Len(Append(s, r)) = n + 1
      /\ \A j \in 1..n : Append(s, r)[j] = s[j]
      /\ Append(s, r)[n + 1] = r
  BY <1>1, <1>2, AppendProperties
<1> DEFINE q == Append(s, r)
<1>4. Grown(game, n, r, y) = [info |-> y.info, recs |-> q]
  BY DEF Grown, s
<1> HIDE DEF q
<1>5. /\ q \in Seq(Records) /\ Len(q) = n + 1
      /\ \A j \in 1..n : q[j] = game.recs[j]
      /\ q[n + 1] = r
  BY <1>2, <1>3 DEF q
<1> QED BY <1>4, <1>5 DEF Games

\* The outcome of a game changes nothing of what the game was begun with.
LEMMA OutcomeSetting ==
  ASSUME NEW info \in Infos, InfoOK(info), NEW y, Outcome(info, y)
  PROVE  y.info \in Infos /\ InfoOK(y.info) /\ SameSetting(info, y.info) /\ Base(y.info) = Base(info)
<1>1. y.info = info \/ \E w \in Players, points \in 1..(3 * MaxCube) :
         y.info = [info EXCEPT !.winner = w, !.points = points]
  BY DEF Outcome
<1>2. ASSUME NEW w \in Players, NEW points \in 1..(3 * MaxCube),
             y.info = [info EXCEPT !.winner = w, !.points = points]
      PROVE  y.info \in Infos /\ SameSetting(info, y.info) /\ y.info.auto = info.auto
  <2>1. w \in Who /\ points \in Nat
    BY MaxCubeIs DEF Who
  <2> QED BY <1>2, <2>1 DEF Infos, SameSetting
<1>3. y.info \in Infos /\ SameSetting(info, y.info)
  BY <1>1, <1>2 DEF SameSetting
<1>4. OneAway(y.info) = OneAway(info)
  BY <1>3 DEF SameSetting, OneAway
<1> QED BY <1>3, <1>4 DEF SameSetting, InfoOK, Base

\* A record that is allowed at the end of a game makes a game of it.
LEMMA GameGrows ==
  ASSUME NEW game, NEW n, GameUpTo(game, n), NEW r, Allowed(After(game, n).ms, r),
         NEW y, y = FixAndApply(After(game, n).ms, game.info, r)
  PROVE  /\ GameOK(Grown(game, n, r, y)) /\ Outcome(game.info, y)
         /\ After(Grown(game, n, r, y), n + 1) = y
<1> DEFINE H == Grown(game, n, r, y)
           m == After(game, n).ms
<1>1. /\ game \in Games /\ n \in Nat /\ n \in 0..Len(game.recs) /\ r \in Records
      /\ game.info \in Infos /\ InfoOK(game.info) /\ r.mt \in RecordKinds
  BY AllowedIs DEF GameUpTo, Games, Records
<1>2. Outcome(game.info, y)
  <2> DEFINE recs == [j \in 1..(n + 1) |-> IF j = n + 1 THEN r ELSE game.recs[j]]
  <2>1. recs[n + 1] = r /\ \A j \in 1..n : game.recs[j] = recs[j]
    BY <1>1
  <2> HIDE DEF recs
  <2>2. FactsAt(game, n)
    BY <1>1 DEF GameUpTo
  <2>3. Facts(m, game.info, recs, n)
    BY <1>1, <2>1, <2>2, SameFacts DEF FactsAt, SameSetting
  <2> QED BY <1>1, <2>1, <2>3, FactsStep
<1>3. y.info \in Infos /\ InfoOK(y.info) /\ Base(y.info) = Base(game.info)
  BY <1>1, <1>2, OutcomeSetting
<1>4. /\ H \in Games /\ H.info = y.info /\ Len(H.recs) = n + 1
      /\ \A j \in 1..n : H.recs[j] = game.recs[j]
      /\ H.recs[n + 1] = r
  BY <1>1, <1>3, GrownIs
<1> HIDE DEF H
<1> DEFINE S == {i \in Nat : i <= n => FactsAt(H, i) /\ After(H, i).ms = After(game, i).ms}
<1>5. 0 \in S
  <2>1. After(H, 0).ms = Base(y.info) /\ After(H, 0).info = y.info /\ After(game, 0).ms = Base(game.info)
    BY <1>4, AfterUnfolds
  <2>2. FactsAt(H, 0)
    BY <1>3, <1>4, <2>1, FirstFacts DEF FactsAt
  <2> QED BY <1>3, <2>1, <2>2
<1>6. ASSUME NEW i \in Nat, i \in S PROVE i + 1 \in S
  <2> SUFFICES ASSUME i + 1 <= n PROVE FactsAt(H, i + 1) /\ After(H, i + 1).ms = After(game, i + 1).ms
    OBVIOUS
  <2>1. FactsAt(H, i) /\ After(H, i).ms = After(game, i).ms
    BY <1>1, <1>6
  <2>2. H.recs[i + 1] = game.recs[i + 1]
    BY <1>1, <1>4
  <2>3. Allowed(After(game, i).ms, game.recs[i + 1])
    <3>1. i + 1 \in 1..n /\ (i + 1) - 1 = i
      BY <1>1
    <3> QED BY <3>1 DEF GameUpTo
  <2>4. FactsAt(game, i) /\ FactsAt(game, i + 1)
    BY <1>1 DEF GameUpTo
  <2>5. /\ After(H, i + 1) = FixAndApply(After(H, i).ms, H.info, H.recs[i + 1])
        /\ After(game, i + 1) = FixAndApply(After(game, i).ms, game.info, game.recs[i + 1])
    BY <2>1, <2>4, AfterUnfolds DEF FactsAt
  <2>6. After(H, i + 1).ms = After(game, i + 1).ms
    <3>1. game.recs[i + 1].mt \in RecordKinds
      BY <2>3, AllowedIs
    <3>2. Alike(FixAndApply(After(game, i).ms, H.info, game.recs[i + 1]), H.info,
                FixAndApply(After(game, i).ms, game.info, game.recs[i + 1]), game.info)
      BY <3>1, InfoOnlyCarried
    <3> QED BY <2>1, <2>2, <2>5, <3>2 DEF Alike
  <2>7. Facts(After(H, i).ms, H.info, H.recs, i)
    BY <2>1 DEF FactsAt
  <2>8. Facts(After(H, i + 1).ms, After(H, i + 1).info, H.recs, i + 1) /\ Outcome(H.info, After(H, i + 1))
    BY <1>3, <1>4, <2>1, <2>2, <2>3, <2>5, <2>7, FactsStep
  <2>9. After(game, i + 1).ms.gs \notin Ended
    <3>1. CASE i + 1 = n
      BY <3>1, AllowedIs, Kinds
    <3>2. CASE i + 1 < n
      <4>1. (i + 1) + 1 \in 1..n /\ ((i + 1) + 1) - 1 = i + 1
        BY <1>1, <3>2
      <4>2. Allowed(After(game, i + 1).ms, game.recs[(i + 1) + 1])
        BY <4>1 DEF GameUpTo
      <4> QED BY <4>2, AllowedIs, Kinds
    <3> QED BY <1>1, <3>1, <3>2
  <2>10. After(H, i + 1).info = H.info
    BY <2>6, <2>8, <2>9 DEF Outcome
  <2> QED BY <2>6, <2>8, <2>10 DEF FactsAt
<1>7. \A i \in 0..n : FactsAt(H, i) /\ After(H, i).ms = After(game, i).ms
  <2>1. Nat \subseteq S
    <3> HIDE DEF S
    <3> QED BY <1>5, <1>6, SetInduction
  <2> QED BY <1>1, <2>1
<1>8. After(H, n + 1) = FixAndApply(m, H.info, r) /\ FactsAt(H, n) /\ After(H, n).ms = m
  <2>1. FactsAt(H, n) /\ After(H, n).ms = m /\ n \in Nat
    BY <1>1, <1>7
  <2> QED BY <1>4, <2>1, AfterUnfolds DEF FactsAt
<1>9. Alike(After(H, n + 1), H.info, y, game.info)
  BY <1>1, <1>8, InfoOnlyCarried
<1>10. After(H, n + 1) = y
  <2>1. \/ After(H, n + 1).info = H.info
        \/ \E w, points : /\ After(H, n + 1).info = [H.info EXCEPT !.winner = w, !.points = points]
                          /\ H.info = [game.info EXCEPT !.winner = w, !.points = points]
    BY <1>4, <1>9 DEF Alike
  <2>2. ASSUME NEW w, NEW points, NEW old \in Infos,
               NEW new, new = [old EXCEPT !.winner = w, !.points = points]
        PROVE  [new EXCEPT !.winner = w, !.points = points] = new
    BY <2>2 DEF Infos
  <2>3. After(H, n + 1).info = y.info
    BY <1>1, <1>4, <2>1, <2>2
  <2> QED BY <1>9, <2>3 DEF Alike, IsPair, IsFcn
<1>11. FactsAt(H, n + 1)
  <2>1. Facts(m, H.info, H.recs, n)
    BY <1>8 DEF FactsAt
  <2>2. Facts(After(H, n + 1).ms, After(H, n + 1).info, H.recs, n + 1)
    BY <1>1, <1>3, <1>4, <1>8, <2>1, FactsStep
  <2> QED BY <1>4, <1>10, <2>2 DEF FactsAt
<1>12. \A i \in 0..(n + 1) : FactsAt(H, i)
  <2>1. \A i \in 0..(n + 1) : i \in 0..n \/ i = n + 1
    BY <1>1
  <2> QED BY <1>7, <1>11, <2>1
<1>13. \A i \in 1..(n + 1) : Allowed(After(H, i - 1).ms, H.recs[i])
  <2> TAKE i \in 1..(n + 1)
  <2>1. CASE i = n + 1
    <3>1. i - 1 = n
      BY <1>1, <2>1
    <3> QED BY <1>4, <1>8, <2>1, <3>1
  <2>2. CASE i # n + 1
    <3>1. i \in 1..n /\ i - 1 \in 0..n
      BY <1>1, <2>2
    <3> QED BY <1>4, <1>7, <3>1 DEF GameUpTo
  <2> QED BY <2>1, <2>2
<1>14. GameOK(H)
  <2>1. n + 1 \in 0..Len(H.recs) /\ H.recs # <<>>
    BY <1>1, <1>4
  <2>2. GameUpTo(H, n + 1)
    BY <1>3, <1>4, <1>12, <1>13, <2>1 DEF GameUpTo
  <2> QED BY <1>4, <2>1, <2>2 DEF GameOK
<1> QED BY <1>2, <1>10, <1>14 DEF H

---------------------------------------------------------------------------
(* What a record does not look at.                                         *)

\* a and b differ at most in what every record sets.
AgreeButGs(a, b) ==
    /\ IsState(a) /\ IsState(b)
    /\ a.turn = b.turn /\ a.move = b.move /\ a.dice = b.dice /\ a.doubled = b.doubled
    /\ a.cube = b.cube /\ a.owner = b.owner /\ a.beavers = b.beavers /\ a.score = b.score
    /\ a.cGames = b.cGames /\ a.crawford = b.crawford /\ a.post = b.post
    /\ a.nMatchTo = b.nMatchTo /\ a.board = b.board

\* FixAndApply does not look at the game state it replaces.
LEMMA RecordForgets ==
  ASSUME NEW a, NEW b, AgreeButGs(a, b), NEW info, NEW r
  PROVE  FixAndApply(a, info, r) = FixAndApply(b, info, r)
<1> DEFINE fa == FixMatchState(a, r)
           fb == FixMatchState(b, r)
           na == [fa EXCEPT !.gs = "playing", !.resigned = 0, !.declined = 0]
           nb == [fb EXCEPT !.gs = "playing", !.resigned = 0, !.declined = 0]
<1>1. AgreeButGs(fa, fb)
  <2>1. CASE r.mt \in {"normal", "double"} /\ a.turn # r.p
    <3> DEFINE xa == [a EXCEPT !.board = SwapSides(@), !.move = r.p, !.turn = r.p]
               xb == [b EXCEPT !.board = SwapSides(@), !.move = r.p, !.turn = r.p]
    <3>1. fa = xa /\ fb = xb
      BY <2>1 DEF FixMatchState, AgreeButGs
    <3>2. AgreeButGs(xa, xb)
      BY ExceptIsFcn DEF AgreeButGs, IsState, Fields
    <3> QED BY <3>1, <3>2
  <2>2. CASE ~(r.mt \in {"normal", "double"} /\ a.turn # r.p)
    BY <2>2 DEF FixMatchState, AgreeButGs
  <2> QED BY <2>1, <2>2
<1> HIDE DEF fa, fb
<1>2. AgreeButGs(na, nb) /\ na.gs = "playing" /\ nb.gs = "playing" /\ na.resigned = 0
      /\ nb.resigned = 0 /\ na.declined = 0 /\ nb.declined = 0
  BY <1>1, ExceptIsFcn DEF AgreeButGs, IsState, Fields
<1> HIDE DEF na, nb
<1>3. na = nb
  BY <1>2, SameState DEF AgreeButGs
<1> QED BY <1>3 DEF FixAndApply, ApplyMoveRecord, fa, fb, na, nb

\* Two states that differ in what a move replaces are taken to one by it.
LEMMA MovedSame ==
  ASSUME NEW a, NEW b, NEW info, NEW r, NEW y, NEW z,
         Moved(y, a, info, r), Moved(z, b, info, r), a.board = b.board, a.cube = b.cube,
         a.owner = b.owner, a.beavers = b.beavers, a.score = b.score, a.cGames = b.cGames,
         a.crawford = b.crawford, a.post = b.post, a.nMatchTo = b.nMatchTo
  PROVE  y.ms = z.ms /\ y.info = z.info
<1> DEFINE B == [i \in Players |-> IF i = 0 THEN a.board[1] - r.n ELSE a.board[0]]
           points == a.cube * (IF a.owner = Nobody /\ a.nMatchTo = 0 THEN 1 ELSE GameStatus(B))
           Is(x) == /\ IsState(x.ms)
                    /\ x.ms.turn = Other(r.p) /\ x.ms.move = Other(r.p) /\ x.ms.dice = NoDice
                    /\ x.ms.doubled = FALSE /\ x.ms.resigned = 0 /\ x.ms.declined = 0
                    /\ x.ms.cube = a.cube /\ x.ms.owner = a.owner /\ x.ms.beavers = a.beavers
                    /\ x.ms.crawford = a.crawford
                    /\ x.ms.post = a.post /\ x.ms.nMatchTo = a.nMatchTo
                    /\ x.ms.board = B
                    /\ GameStatus(B) = 0 =>
                         /\ x.info = info /\ x.ms.gs = "playing" /\ x.ms.score = a.score
                         /\ x.ms.cGames = a.cGames
                    /\ GameStatus(B) # 0 =>
                         /\ x.info = [info EXCEPT !.winner = r.p, !.points = points]
                         /\ x.ms.gs = "over" /\ x.ms.score = [a.score EXCEPT ![r.p] = @ + points]
                         /\ x.ms.cGames = a.cGames + 1
           Same(m, n) == /\ m.turn = n.turn /\ m.move = n.move /\ m.dice = n.dice
                         /\ m.doubled = n.doubled /\ m.resigned = n.resigned
                         /\ m.declined = n.declined /\ m.cube = n.cube /\ m.owner = n.owner
                         /\ m.beavers = n.beavers /\ m.crawford = n.crawford
                         /\ m.post = n.post /\ m.nMatchTo = n.nMatchTo /\ m.board = n.board
<1>1. Is(y) /\ Is(z)
  BY DEF Moved
<1> HIDE DEF B, points
<1>2. CASE GameStatus(B) = 0
  <2>1. y.info = z.info
    BY <1>1, <1>2
  <2> QED BY <1>1, <1>2, <2>1, SameState
<1>3. CASE GameStatus(B) # 0
  <2>1. y.info = z.info
    BY <1>1, <1>3
  <2>2. y.ms.gs = z.ms.gs /\ y.ms.score = z.ms.score /\ y.ms.cGames = z.ms.cGames
    BY <1>1, <1>3
  <2> HIDE DEF Is
  <2>3. IsState(y.ms) /\ IsState(z.ms) /\ Same(y.ms, z.ms)
    BY <1>1 DEF Is
  <2>4. y.ms = z.ms
    BY <2>2, <2>3, SameState
  <2> QED BY <2>1, <2>4
<1> QED BY <1>2, <1>3

\* Two states that differ in what a roll replaces are taken to one by it.
LEMMA RolledSame ==
  ASSUME NEW a, NEW b, NEW info, NEW r, NEW y, NEW z,
         Rolled(y, a, info, r), Rolled(z, b, info, r), a.cube = b.cube,
         a.owner = b.owner, a.beavers = b.beavers, a.score = b.score, a.cGames = b.cGames,
         a.crawford = b.crawford, a.post = b.post, a.nMatchTo = b.nMatchTo, a.board = b.board,
         a.move = b.move \/ SwapSides(a.board) = a.board
  PROVE  y.ms = z.ms /\ y.info = z.info
<1>1. y.ms.board = z.ms.board
  BY DEF Rolled
<1> QED BY <1>1, SameState DEF Rolled

\* A move is recorded in place of the roll before it: the roll has made no difference.
LEMMA RollIsNothing ==
  ASSUME NEW b, Sound(b), NEW m, Sound(m), NEW info, NEW q, Legal(b, q), q.mt = "setdice",
         NEW x, x = FixAndApply(b, info, q), m = x.ms,
         NEW r, r.p = q.p, r.mt = "normal", Legal(m, r)
  PROVE  Legal(b, r) /\ FixAndApply(m, info, r) = FixAndApply(b, info, r)
<1>4. /\ q \in Records /\ r \in Records /\ r.p \in Players
      /\ b.gs = "none" \/ (b.gs = "playing" /\ ~b.doubled /\ b.turn = r.p)
  BY DEF Legal, Records
<1>5. IsState(b) /\ IsState(m)
  BY DEF Sound, Typed
<1>6. Rolled(x, b, info, q)
  BY <1>4, <1>5, SetDiceStep
<1>7. \/ b.turn = r.p /\ b.move = r.p
      \/ b.turn = b.move /\ SwapSides(b.board) = b.board
  BY <1>4, FullBoardSwaps DEF Sound, Fresh, InPlay
<1>8. /\ m.turn = r.p /\ m.move = r.p /\ m.board = b.board
      /\ m.cube = b.cube /\ m.owner = b.owner /\ m.beavers = b.beavers
      /\ m.score = b.score /\ m.cGames = b.cGames /\ m.crawford = b.crawford
      /\ m.post = b.post /\ m.nMatchTo = b.nMatchTo
  <2>1. m.board = b.board
    BY <1>6, <1>7 DEF Rolled
  <2> QED BY <1>6, <2>1 DEF Rolled
<1>9. Legal(b, r)
  BY <1>4 DEF Legal
<1>10. b.board \in [Players -> Int] /\ m.board \in [Players -> Int]
       /\ b.score \in [Players -> Nat] /\ m.score \in [Players -> Nat]
  BY DEF Sound, Typed
<1>11. Moved(FixAndApply(m, info, r), m, info, r)
  BY <1>4, <1>5, <1>8, <1>10, NormalStep
<1>12. Moved(FixAndApply(b, info, r), b, info, r)
  BY <1>4, <1>5, <1>7, <1>10, NormalStep
<1>13. /\ FixAndApply(m, info, r).ms = FixAndApply(b, info, r).ms
       /\ FixAndApply(m, info, r).info = FixAndApply(b, info, r).info
  BY <1>8, <1>11, <1>12, MovedSame
<1>14. IsPair(FixAndApply(m, info, r)) /\ IsPair(FixAndApply(b, info, r))
  <2>1. r.mt \in RecordKinds
    BY DEF RecordKinds
  <2> QED BY <2>1, InfoOnlyCarried DEF Alike
<1> QED BY <1>9, <1>13, <1>14 DEF IsPair, IsFcn

\* The same in a game, whether or not gnubg has forgone its turn before the roll.
LEMMA RollMakesNoDifference ==
  ASSUME NEW game, NEW k \in Nat, k > 0, GameUpTo(game, k), NEW r,
         game.recs[k].mt = "setdice", game.recs[k].p = r.p, r.mt = "normal",
         Allowed(After(game, k).ms, r)
  PROVE  /\ Allowed(After(game, k - 1).ms, r)
         /\ FixAndApply(After(game, k).ms, game.info, r)
              = FixAndApply(After(game, k - 1).ms, game.info, r)
<1> DEFINE q == game.recs[k]
           x == After(game, k)
           b == After(game, k - 1).ms
<1>1. Allowed(b, q) /\ FactsAt(game, k) /\ FactsAt(game, k - 1) /\ (k - 1) + 1 = k /\ k - 1 \in Nat
  BY DEF GameUpTo
<1>2. /\ Sound(b) /\ Sound(x.ms) /\ After(game, k - 1).info = game.info /\ x.info = game.info
      /\ Facts(b, game.info, game.recs, k - 1)
  BY <1>1 DEF FactsAt, Facts
<1>3. x = FixAndApply(b, game.info, q)
  <2>1. After(game, (k - 1) + 1) = FixAndApply(After(game, k - 1).ms, After(game, k - 1).info, game.recs[(k - 1) + 1])
    BY <1>1, AfterUnfolds
  <2> QED BY <1>1, <1>2, <2>1
<1>4. IsState(b) /\ q \in Records /\ q.mt = "setdice" /\ q.p = r.p
  BY <1>1, <1>2, AllowedIs DEF Sound, Typed
<1>5. Legal(x.ms, r)
  <2>1. Rolled(x, b, game.info, q)
    BY <1>3, <1>4, SetDiceStep
  <2> QED BY <2>1, HumanIs DEF Rolled, Allowed, Passed
<1> HIDE DEF x, b, q
<1>6. CASE Legal(b, q)
  <2>1. Legal(b, r) /\ FixAndApply(x.ms, game.info, r) = FixAndApply(b, game.info, r)
    BY <1>2, <1>3, <1>4, <1>5, <1>6, RollIsNothing
  <2> QED BY <2>1 DEF Allowed, x, b
<1>7. CASE ~Legal(b, q)
  <2>1. Passed(b) /\ q.p = Human /\ Legal(Facing(b), q)
    BY <1>1, <1>7 DEF Allowed
  <2>2. b.move = Gnu
    BY <1>2, <2>1 DEF Sound, InPlay, Passed
  <2> DEFINE f == Facing(b)
  <2>3. x = FixAndApply(f, game.info, q)
    BY <1>3, <1>4, <2>1, <2>2, FacingSame
  <2>4. Sound(f) /\ Legal(f, q)
    BY <1>2, <2>1, FacingFacts DEF Facts
  <2> HIDE DEF f
  <2>5. Legal(f, r) /\ FixAndApply(x.ms, game.info, r) = FixAndApply(f, game.info, r)
    BY <1>2, <1>4, <1>5, <2>3, <2>4, RollIsNothing
  <2>6. Allowed(b, r)
    BY <1>4, <2>1, <2>5, FacingAllows DEF f
  <2>7. FixAndApply(f, game.info, r) = FixAndApply(b, game.info, r)
    BY <1>4, <2>1, <2>2, FacingSame DEF f
  <2> QED BY <2>5, <2>6, <2>7 DEF x, b
<1> QED BY <1>6, <1>7

---------------------------------------------------------------------------
(* The invariant: every game of the record can be replayed, and the match  *)
(* state is what the replay up to the cursor leaves, but for an offer to   *)
(* resign that is on the table.                                            *)

\* The state as one record, and its parts.
Whole(s) ==
    /\ DOMAIN s = {"ms", "lMatch", "last", "next", "craw", "session"} /\ IsFcn(s)
    /\ DOMAIN s.last = {"g", "k"} /\ IsFcn(s.last)

Game(s) == s.lMatch[s.last.g]

\* What the records up to the cursor leave.
Behind(s) == After(Game(s), s.last.k).ms

\* m is where gnubg forwent its turn, and r is the human's.
Skipped(m, r) == Passed(m) /\ r.p = Human /\ r.mt \in {"normal", "double"}

\* The record after the cursor is one of these.
Skips(s) == s.last.k < Len(Game(s).recs) /\ Skipped(Behind(s), Game(s).recs[s.last.k + 1])

\* What CalculateBoard makes of it, which looks ahead to that record.
At(s) == IF Skips(s) THEN Facing(Behind(s)) ELSE Behind(s)

\* The cursor is at the end of the record.
AtTheEnd(s) ==
    s.last.g = Len(s.lMatch) /\ (s.last.g # 0 => s.last.k = Len(s.lMatch[s.last.g].recs))

\* The board, from the same side unless the game was resigned where gnubg forwent its turn.
Placed(m, m0) ==
    \/ m.board = m0.board /\ (m.gs # "none" => m.move = m0.move)
    \/ m.gs \in Ended /\ m.board = SwapSides(m0.board) /\ m.move = Other(m0.move)

\* m0 is what the replay leaves.
Alongside(m, m0) ==
    /\ IsState(m) /\ m.gs = m0.gs /\ m.dice = m0.dice /\ m.doubled = m0.doubled
    /\ m.cube = m0.cube /\ m.owner = m0.owner /\ m.beavers = m0.beavers /\ m.score = m0.score
    /\ m.cGames = m0.cGames /\ m.nMatchTo = m0.nMatchTo /\ Placed(m, m0)
    /\ m.declined \in 0..3 /\ m.resigned \in 0..3 /\ m.crawford \in BOOLEAN /\ m.post \in BOOLEAN
    /\ m.gs # "none" => m.turn \in Players
    /\ m.gs \notin Ended => m.crawford = m0.crawford /\ m.post = m0.post

\* Before the first record the player on turn may already be that record's.
Waiting(m, first) == m.turn = m.move /\ m.turn \in {Nobody, first} /\ m.resigned = 0 /\ m.declined = 0

\* Nobody offers to resign, or the human does, or the computer on its roll, or it has
\* forgone that.
Offer(m, m0) ==
    IF m.resigned = 0 THEN m.turn = m0.turn \/ (m.turn = Human /\ ~m0.doubled)
    ELSE \/ m.turn = Gnu /\ (m0.turn = Human \/ ~m0.doubled)
         \/ m.turn = Human /\ m0.turn = Gnu /\ ~m0.doubled /\ m.declined = 0

\* The match state, and what the replay leaves.
Pending(m, m0, first) ==
    /\ Alongside(m, m0)
    /\ m.gs = "none" => Waiting(m, first)
    /\ m.gs = "playing" => Offer(m, m0)
    /\ m.gs \in Ended => m.resigned = m0.resigned /\ m.declined = 0

\* The match state of a program just started.
Blank ==
    [gs |-> "none", turn |-> Nobody, move |-> Nobody, dice |-> NoDice,
     doubled |-> FALSE, resigned |-> 0, declined |-> 0, cube |-> 1,
     owner |-> Nobody, beavers |-> 0, score |-> [p \in Players |-> 0],
     cGames |-> 0, crawford |-> FALSE, post |-> FALSE, nMatchTo |-> 1,
     board |-> FullBoard]

\* Every game of the record replays.
Recorded(games) == games \in Seq(Games) /\ \A g \in 1..Len(games) : GameOK(games[g])

\* The core of the invariant.
Core(s) ==
    /\ Whole(s) /\ Recorded(s.lMatch)
    /\ s.last.g \in 0..Len(s.lMatch) /\ s.last.k \in Nat
    /\ s.craw # <<>> => s.craw[1] \in BOOLEAN
    /\ s.last.g = 0 => s.lMatch = <<>> /\ s.last.k = 0 /\ s.ms = Blank
    /\ s.last.g # 0 =>
         s.last.k <= Len(Game(s).recs) /\ Pending(s.ms, At(s), Game(s).recs[1].p)

\* What is under way: the computer has been asked to let the human resign, or to play, which
\* it does at the end of the record, or it has asked; and a game that has just ended is as it
\* was recorded.
Duty(s) ==
    /\ s.next => s.last.g # 0 /\ s.ms.gs # "none"
    /\ s.next /\ s.ms.gs \in Ended =>
         AtTheEnd(s) /\ s.ms.crawford = At(s).crawford /\ s.ms.post = At(s).post
    /\ s.ms.gs = "playing" =>
         /\ s.ms.resigned # 0 /\ s.ms.turn = Gnu => s.next
         /\ At(s).turn = Gnu /\ (s.ms.resigned # 0 \/ s.ms.turn = Human \/ s.next) => AtTheEnd(s)

\* NextTurn is owed whenever the computer is on turn.
Owes(s) == s.ms.gs = "playing" /\ s.ms.resigned = 0 /\ s.ms.turn = Gnu => s.next

\* The inductive invariant.
IInv ==
    /\ Core(Now) /\ Duty(Now)
    /\ fNextTurn \in BOOLEAN /\ (~walked => AtTheEnd(Now) /\ Owes(Now))

---------------------------------------------------------------------------
(* AddMoveRecord.                                                          *)

\* The first n records.
LEMMA PrefixIs ==
  ASSUME NEW S, NEW q \in Seq(S), NEW n \in 0..Len(q)
  PROVE  /\ SubSeq(q, 1, n) \in Seq(S) /\ Len(SubSeq(q, 1, n)) = n
         /\ \A j \in 1..n : SubSeq(q, 1, n)[j] = q[j]
<1>1. n \in Int /\ \A i \in 1..n : q[i] \in S
  BY ElementOfSeq
<1>2. /\ SubSeq(q, 1, n) \in Seq(S)
      /\ Len(SubSeq(q, 1, n)) = IF 1 <= n THEN n - 1 + 1 ELSE 0
      /\ \A i \in 1..(n - 1 + 1) : SubSeq(q, 1, n)[i] = q[1 + i - 1]
  BY <1>1, SubSeqProperties
<1> QED BY <1>1, <1>2

\* A prefix of a prefix is a prefix.
LEMMA PrefixOfPrefix ==
  ASSUME NEW S, NEW q \in Seq(S), NEW n \in 0..Len(q), NEW i \in 0..n
  PROVE  SubSeq(SubSeq(q, 1, n), 1, i) = SubSeq(q, 1, i)
<1> DEFINE a == SubSeq(q, 1, n)
<1>1. a \in Seq(S) /\ Len(a) = n /\ (\A j \in 1..n : a[j] = q[j]) /\ i \in 0..Len(q) /\ i \in 0..Len(a)
  BY PrefixIs
<1> HIDE DEF a
<1>2. SubSeq(a, 1, i) \in Seq(S) /\ Len(SubSeq(a, 1, i)) = i /\ \A j \in 1..i : SubSeq(a, 1, i)[j] = a[j]
  BY <1>1, PrefixIs
<1>3. SubSeq(q, 1, i) \in Seq(S) /\ Len(SubSeq(q, 1, i)) = i /\ \A j \in 1..i : SubSeq(q, 1, i)[j] = q[j]
  BY <1>1, PrefixIs
<1>4. \A j \in 1..i : j \in 1..n
  OBVIOUS
<1>5. SubSeq(a, 1, i) = SubSeq(q, 1, i)
  BY <1>1, <1>2, <1>3, <1>4, SeqEqual
<1> QED BY <1>5 DEF a

\* After a roll the dice are there.
LEMMA RolledOnce ==
  ASSUME NEW game, NEW k \in Nat, k > 0, GameUpTo(game, k), game.recs[k].mt = "setdice"
  PROVE  After(game, k).ms.dice # NoDice
<1> DEFINE q == game.recs[k]
           b == After(game, k - 1).ms
<1>1. Allowed(b, q) /\ FactsAt(game, k - 1) /\ (k - 1) + 1 = k /\ k - 1 \in Nat
  BY DEF GameUpTo
<1>2. After(game, k) = FixAndApply(b, game.info, q)
  <2>1. After(game, k - 1).info = game.info
    BY <1>1 DEF FactsAt
  <2>2. After(game, (k - 1) + 1) = FixAndApply(After(game, k - 1).ms, After(game, k - 1).info, game.recs[(k - 1) + 1])
    BY <1>1, AfterUnfolds
  <2> QED BY <1>1, <2>1, <2>2
<1>3. IsState(b) /\ q \in Records
  BY <1>1, AllowedIs DEF FactsAt, Facts, Sound, Typed
<1>4. Rolled(After(game, k), b, game.info, q)
  BY <1>2, <1>3, SetDiceStep
<1>5. q.n \in {Stuck, Open}
  BY <1>1, <1>3, AllowedRoll
<1> QED BY <1>4, <1>5, Kinds DEF Rolled

\* What AddMoveRecord keeps of the record before the cursor.
Elides(recs, k, r) ==
    LET before == SubSeq(recs, 1, k)
    IN  /\ r.mt \in {"normal", "setdice"} /\ before # <<>>
        /\ Last(before).mt = "setdice" /\ Last(before).p = r.p

\* How many records AddMoveRecord keeps ...
Kept(recs, k, r) ==
    IF Elides(recs, k, r) THEN Front(SubSeq(recs, 1, k)) ELSE SubSeq(recs, 1, k)

\* ... and what the replay of these leaves.
KeptUpTo(game, k, r, z, n) ==
    /\ n \in Nat /\ n <= k /\ n \in 0..Len(game.recs)
    /\ Kept(game.recs, k, r) = SubSeq(game.recs, 1, n) /\ Len(Kept(game.recs, k, r)) = n
    /\ GameUpTo(game, n) /\ Allowed(After(game, n).ms, r)
    /\ z = FixAndApply(After(game, n).ms, game.info, r)

\* What AddMoveRecord leaves of the game it cuts, the elided roll included.
LEMMA KeptIs ==
  ASSUME NEW game, NEW k \in Nat, GameUpTo(game, k), NEW r, Allowed(After(game, k).ms, r),
         NEW z, z = FixAndApply(After(game, k).ms, game.info, r)
  PROVE  \E n \in Nat : KeptUpTo(game, k, r, z, n)
<1>1. game.recs \in Seq(Records) /\ k \in 0..Len(game.recs) /\ Len(game.recs) \in Nat
  BY DEF GameUpTo, Games
<1> DEFINE recs == game.recs
           before == SubSeq(recs, 1, k)
<1>2. before \in Seq(Records) /\ Len(before) = k /\ \A j \in 1..k : before[j] = recs[j]
  BY <1>1, PrefixIs
<1>3. CASE ~Elides(recs, k, r)
  <2>1. Kept(recs, k, r) = before
    BY <1>3 DEF Kept
  <2>2. Len(Kept(recs, k, r)) = k
    BY <1>2, <2>1
  <2>3. KeptUpTo(game, k, r, z, k)
    BY <1>1, <2>1, <2>2 DEF KeptUpTo
  <2> QED BY <2>3
<1>4. CASE Elides(recs, k, r)
  <2>0. before # <<>> /\ Last(before).mt = "setdice" /\ Last(before).p = r.p /\ r.mt \in {"normal", "setdice"}
    BY <1>4 DEF Elides
  <2>3. r.mt = "setdice" => After(game, k).ms.dice = NoDice
    <3>1. FactsAt(game, k)
      BY <1>1 DEF GameUpTo
    <3> QED BY <3>1, AllowedRoll DEF FactsAt, Facts, Sound, Typed
  <2>10. Kept(recs, k, r) = Front(before)
    BY <1>4 DEF Kept
  <2>11. Front(before) = SubSeq(before, 1, k - 1)
    BY <1>2 DEF Front
  <2> HIDE DEF before
  <2>1. k > 0
    BY <1>1, <1>2, <2>0, EmptySeq
  <2>2. Last(before) = recs[k]
    BY <1>1, <1>2, <2>1 DEF Last
  <2>4. recs[k].mt = "setdice" => After(game, k).ms.dice # NoDice
    BY <1>1, <2>1, RolledOnce
  <2>5. recs[k].mt = "setdice" /\ recs[k].p = r.p /\ r.mt = "normal"
    BY <2>0, <2>2, <2>3, <2>4
  <2>6. k - 1 \in 0..k /\ k - 1 \in 0..Len(recs) /\ k - 1 \in Nat /\ k - 1 <= k
    BY <1>1, <2>1
  <2>7. /\ Allowed(After(game, k - 1).ms, r)
        /\ FixAndApply(After(game, k).ms, game.info, r)
             = FixAndApply(After(game, k - 1).ms, game.info, r)
    BY <1>1, <2>1, <2>5, RollMakesNoDifference
  <2>8. GameUpTo(game, k - 1)
    <3>1. \A i \in 0..(k - 1) : i \in 0..k
      BY <2>1
    <3>2. \A i \in 1..(k - 1) : i \in 1..k
      BY <2>1
    <3> QED BY <2>6, <3>1, <3>2 DEF GameUpTo
  <2>9. SubSeq(before, 1, k - 1) = SubSeq(recs, 1, k - 1)
    BY <1>1, <2>6, PrefixOfPrefix DEF before
  <2>12. Len(SubSeq(recs, 1, k - 1)) = k - 1
    BY <1>1, <2>6, PrefixIs
  <2>13. KeptUpTo(game, k, r, z, k - 1)
    BY <2>6, <2>7, <2>8, <2>9, <2>10, <2>11, <2>12 DEF KeptUpTo
  <2> QED BY <2>6, <2>13
<1> QED BY <1>3, <1>4

\* What is recorded in place of what: t has the games before s's, and s's game up to the
\* cursor with r at its end.
Added(s, t, r, z) ==
    /\ Whole(t) /\ Recorded(t.lMatch)
    /\ t.last.g = s.last.g /\ Len(t.lMatch) = s.last.g
    /\ \A i \in 1..(s.last.g - 1) : t.lMatch[i] = s.lMatch[i]
    /\ t.last.k = Len(Game(t).recs) /\ t.last.k \in 1..(s.last.k + 1)
    /\ Game(t).recs[t.last.k] = r
    /\ After(Game(t), t.last.k) = z /\ Outcome(Game(s).info, z) /\ Game(t).info = z.info
    /\ t.craw = s.craw /\ t.session = s.session

\* The game of s up to the cursor is a game to go on with.
MayGoOn(s) ==
    /\ Whole(s) /\ s.lMatch \in Seq(Games) /\ s.last.g \in 1..Len(s.lMatch)
    /\ \A g \in 1..(s.last.g - 1) : GameOK(s.lMatch[g])
    /\ s.last.k \in Nat /\ GameUpTo(Game(s), s.last.k)

\* s with another match state, record and last record.
Put(s, m, games, k) == [s EXCEPT !.ms = m, !.lMatch = games, !.last.k = k]

\* t is s with these put in.
PutIn(t, s, m, games, k) ==
    /\ Whole(t) /\ t.ms = m /\ t.lMatch = games /\ t.last.g = s.last.g /\ t.last.k = k
    /\ t.next = s.next /\ t.craw = s.craw /\ t.session = s.session

\* The state of the match with a match state, a record and a cursor put in.
LEMMA PutIs ==
  ASSUME NEW s, Whole(s), NEW m, NEW games, NEW k
  PROVE  PutIn(Put(s, m, games, k), s, m, games, k)
<1> DEFINE l == [s.last EXCEPT !.k = k]
           a == [s EXCEPT !.ms = m]
           b == [a EXCEPT !.lMatch = games]
           t == [b EXCEPT !.last = l]
<1>1. DOMAIN l = {"g", "k"} /\ IsFcn(l) /\ l.k = k /\ l.g = s.last.g
  BY ExceptIsFcn DEF Whole
<1> HIDE DEF l
<1>2. /\ DOMAIN t = {"ms", "lMatch", "last", "next", "craw", "session"} /\ IsFcn(t)
      /\ t.ms = m /\ t.lMatch = games /\ t.last = l
      /\ t.next = s.next /\ t.craw = s.craw /\ t.session = s.session
  BY ExceptIsFcn DEF Whole
<1>3. Put(s, m, games, k) = t
  BY DEF Put, Whole, l
<1> QED BY <1>1, <1>2, <1>3 DEF PutIn, Whole

\* AddMoveRecord adds one record at the cursor, and goes by the replay that leads to it.
LEMMA AddMoveRecordAdds ==
  ASSUME NEW s, MayGoOn(s), NEW r, Allowed(Behind(s), r),
         NEW x, x = FixAndApply(s.ms, Game(s).info, r),
         NEW z, z = FixAndApply(Behind(s), Game(s).info, r), x.info = z.info,
         NEW t, t = AddMoveRecord(s, r)
  PROVE  Added(s, t, r, z) /\ t.ms = x.ms /\ t.next = s.next
<1> DEFINE g == s.last.g
           k == s.last.k
           game == s.lMatch[g]
           kept == Kept(game.recs, k, r)
           games == SubSeq(s.lMatch, 1, g - 1)
<1>0. /\ Whole(s) /\ s.lMatch \in Seq(Games) /\ g \in 1..Len(s.lMatch) /\ k \in Nat
      /\ \A i \in 1..(g - 1) : GameOK(s.lMatch[i])
      /\ Game(s) = game /\ GameUpTo(game, k) /\ Behind(s) = After(game, k).ms
  BY DEF MayGoOn, Game, Behind
<1>7. t = Put(s, x.ms, Append(games, [info |-> x.info, recs |-> Append(kept, r)]), Len(kept) + 1)
  <2> DEFINE before == SubSeq(game.recs, 1, k)
             elided == /\ r.mt \in {"normal", "setdice"} /\ before # <<>>
                       /\ Last(before).mt = "setdice" /\ Last(before).p = r.p
             e == IF elided THEN Front(before) ELSE before
  <2>1. e = kept
    BY DEF Kept, Elides
  <2>2. x = FixAndApply(s.ms, game.info, r)
    BY <1>0
  <2>3. AddMoveRecord(s, r)
          = [s EXCEPT !.ms = FixAndApply(s.ms, game.info, r).ms,
                      !.lMatch = Append(SubSeq(@, 1, g - 1),
                                        [info |-> FixAndApply(s.ms, game.info, r).info, recs |-> Append(e, r)]),
                      !.last.k = Len(e) + 1]
    BY DEF AddMoveRecord
  <2> HIDE DEF e
  <2>4. AddMoveRecord(s, r)
          = [s EXCEPT !.ms = x.ms,
                      !.lMatch = Append(SubSeq(@, 1, g - 1), [info |-> x.info, recs |-> Append(kept, r)]),
                      !.last.k = Len(kept) + 1]
    BY ONLY <2>1, <2>2, <2>3
  <2>5. @ = Put(s, x.ms, Append(SubSeq(s.lMatch, 1, g - 1), [info |-> x.info, recs |-> Append(kept, r)]), Len(kept) + 1)
    BY DEF Put
  <2> QED BY <2>4, <2>5
<1> HIDE DEF kept, games, game, g, k
<1>1. /\ game \in Games /\ Len(s.lMatch) \in Nat /\ g \in Nat /\ g # 0 /\ g <= Len(s.lMatch)
      /\ g - 1 \in 0..Len(s.lMatch) /\ g - 1 \in Nat
  <2>1. game \in Games
    BY <1>0 DEF GameUpTo
  <2>2. Len(s.lMatch) \in Nat
    BY <1>0
  <2> QED BY <1>0, <2>1, <2>2
<1>2. PICK n \in Nat : KeptUpTo(game, k, r, z, n)
  <2>1. Allowed(After(game, k).ms, r) /\ z = FixAndApply(After(game, k).ms, game.info, r)
    BY <1>0
  <2> QED BY <1>0, <2>1, KeptIs
<1> DEFINE H == Grown(game, n, r, z)
<1>6. /\ n <= k /\ n \in 0..Len(game.recs) /\ kept = SubSeq(game.recs, 1, n) /\ Len(kept) = n
      /\ GameUpTo(game, n) /\ Allowed(After(game, n).ms, r)
      /\ z = FixAndApply(After(game, n).ms, game.info, r)
  BY <1>2 DEF KeptUpTo, kept
<1>9. [info |-> x.info, recs |-> Append(kept, r)] = H
  BY <1>6 DEF Grown
<1> HIDE DEF H
<1>10. GameOK(H) /\ Outcome(game.info, z) /\ After(H, n + 1) = z
  BY <1>6, GameGrows DEF H
<1>11. H \in Games /\ H.info = z.info /\ Len(H.recs) = n + 1 /\ H.recs[n + 1] = r
  <2>1. game.info \in Infos /\ InfoOK(game.info) /\ r \in Records
    BY <1>0, <1>1, AllowedIs DEF GameUpTo, Games
  <2>2. z.info \in Infos
    BY <1>10, <2>1, OutcomeSetting
  <2> QED BY <1>1, <1>6, <2>1, <2>2, GrownIs DEF H
<1>12. games \in Seq(Games) /\ Len(games) = g - 1 /\ \A j \in 1..(g - 1) : games[j] = s.lMatch[j]
  BY <1>0, <1>1, PrefixIs DEF games
<1> DEFINE new == Append(games, H)
<1>13. /\ new \in Seq(Games) /\ Len(new) = g /\ new[g] = H
       /\ \A j \in 1..(g - 1) : new[j] = s.lMatch[j]
  <2>1. new \in Seq(Games) /\ Len(new) = Len(games) + 1 /\ new[Len(games) + 1] = H
        /\ \A j \in 1..Len(games) : new[j] = games[j]
    BY <1>11, <1>12, AppendProperties
  <2>2. Len(games) + 1 = g
    BY <1>1, <1>12
  <2> HIDE DEF new
  <2> QED BY <1>12, <2>1, <2>2
<1>14. t = Put(s, x.ms, new, n + 1)
  BY <1>6, <1>7, <1>9
<1> HIDE DEF new
<1>15. PutIn(t, s, x.ms, new, n + 1)
  BY <1>0, <1>14, PutIs
<1>15a. /\ Whole(t) /\ t.ms = x.ms /\ t.lMatch = new /\ t.last.g = g /\ t.last.k = n + 1
        /\ t.next = s.next /\ t.craw = s.craw /\ t.session = s.session
  BY <1>15 DEF PutIn, g
<1>16. Recorded(new)
  <2>1. \A j \in 1..g : j \in 1..(g - 1) \/ j = g
    BY <1>1
  <2> QED BY <1>0, <1>10, <1>13, <2>1 DEF Recorded
<1>17. Game(t) = H
  BY <1>13, <1>15a DEF Game
<1>18. n + 1 \in 1..(k + 1)
  BY <1>0, <1>6
<1>19. \A j \in 1..(g - 1) : t.lMatch[j] = s.lMatch[j]
  BY <1>13, <1>15a
<1>20. Game(s) = game
  BY <1>0
<1> QED BY <1>10, <1>11, <1>13, <1>15a, <1>16, <1>17, <1>18, <1>19, <1>20 DEF Added, g, k

---------------------------------------------------------------------------
(* A command that records.                                                 *)

\* The state is in a game of the record.
InGame(s) ==
    /\ s.last.g \in 1..Len(s.lMatch) /\ s.last.k \in 0..Len(Game(s).recs) /\ s.last.k \in Nat
    /\ GameOK(Game(s)) /\ GameUpTo(Game(s), s.last.k) /\ FactsAt(Game(s), s.last.k)
    /\ Facts(At(s), Game(s).info, Game(s).recs, s.last.k) /\ Sound(At(s))
    /\ Pending(s.ms, At(s), Game(s).recs[1].p) /\ MayGoOn(s)
    /\ Game(s).info \in Infos /\ InfoOK(Game(s).info) /\ Game(s).recs \in Seq(Records)

\* The cursor is in a game, and within it.
LEMMA CoreInGame ==
  ASSUME NEW s, Core(s), s.last.g # 0
  PROVE  InGame(s)
<1> DEFINE g == s.last.g
           k == s.last.k
           game == Game(s)
<1>1. /\ Whole(s) /\ s.lMatch \in Seq(Games) /\ g \in 1..Len(s.lMatch) /\ k \in Nat
      /\ \A i \in 1..Len(s.lMatch) : GameOK(s.lMatch[i])
      /\ k <= Len(game.recs) /\ Pending(s.ms, At(s), game.recs[1].p)
  <2>1. Len(s.lMatch) \in Nat
    BY DEF Core, Recorded
  <2> QED BY <2>1 DEF Core, Recorded
<1>2. game = s.lMatch[g] /\ Behind(s) = After(game, k).ms /\ Game(s) = game /\ s.last.k = k
  BY DEF Game, Behind
<1> HIDE DEF game, k, g
<1>3. GameOK(game)
  BY <1>1, <1>2
<1>4. /\ game \in Games /\ InfoOK(game.info) /\ Len(game.recs) \in Nat
      /\ \A i \in 0..Len(game.recs) : FactsAt(game, i)
      /\ \A i \in 1..Len(game.recs) : Allowed(After(game, i - 1).ms, game.recs[i])
  <2>1. game \in Games /\ InfoOK(game.info)
      /\ (\A i \in 0..Len(game.recs) : FactsAt(game, i))
      /\ \A i \in 1..Len(game.recs) : Allowed(After(game, i - 1).ms, game.recs[i])
    BY <1>3 DEF GameOK, GameUpTo
  <2>2. Len(game.recs) \in Nat
    BY <2>1 DEF Games
  <2> QED BY <2>1, <2>2
<1>5. k \in 0..Len(game.recs)
  BY <1>1, <1>4
<1>6. GameUpTo(game, k)
  <2>1. \A i \in 0..k : i \in 0..Len(game.recs)
    BY <1>5
  <2>2. \A i \in 1..k : i \in 1..Len(game.recs)
    BY <1>5
  <2> QED BY <1>4, <1>5, <2>1, <2>2 DEF GameUpTo
<1>7. FactsAt(game, k) /\ Facts(At(s), game.info, game.recs, k) /\ Sound(At(s))
  <2>1. FactsAt(game, k)
    BY <1>4, <1>5
  <2>2. Facts(Behind(s), game.info, game.recs, k)
    BY <1>2, <2>1 DEF FactsAt
  <2>3. Facts(At(s), game.info, game.recs, k)
    <3>1. CASE Skips(s)
      BY <2>2, <3>1, FacingFacts DEF Skips, Skipped, At
    <3>2. CASE ~Skips(s)
      BY <2>2, <3>2 DEF At
    <3> QED BY <3>1, <3>2
  <2> QED BY <2>1, <2>3 DEF Facts
<1>8. game.info \in Infos /\ game.recs \in Seq(Records)
  BY <1>4 DEF Games
<1>9. MayGoOn(s)
  <2>1. \A i \in 1..(g - 1) : i \in 1..Len(s.lMatch)
    BY <1>1
  <2> QED BY <1>1, <1>6, <2>1 DEF MayGoOn, g, k, game
<1> QED BY <1>1, <1>2, <1>3, <1>4, <1>5, <1>6, <1>7, <1>8, <1>9 DEF InGame, g, k, game

\* While there is a match the cursor is in a game.
LEMMA PlayingInGame ==
  ASSUME NEW s, Core(s), s.ms.gs # "none"
  PROVE  s.last.g # 0 /\ InGame(s)
<1>1. Blank.gs = "none"
  BY DEF Blank
<1>2. s.last.g # 0
  BY <1>1 DEF Core
<1> QED BY <1>2, CoreInGame

\* The state a replay leaves is one with nothing pending.
LEMMA NothingPending ==
  ASSUME NEW m, Sound(m), m.gs # "none", NEW p
  PROVE  Pending(m, m, p)
<1>1. /\ IsState(m) /\ m.declined = 0 /\ m.declined \in 0..3 /\ m.resigned \in 0..3
      /\ m.crawford \in BOOLEAN /\ m.post \in BOOLEAN /\ m.turn \in Players
  BY DEF Sound, Typed
<1>2. Alongside(m, m)
  BY <1>1 DEF Alongside, Placed
<1>3. m.gs = "playing" => m.resigned = 0
  BY DEF Sound, InPlay
<1> QED BY <1>1, <1>2, <1>3 DEF Pending, Offer

\* t is s with the record r added, and at rest in what r has left but for the player on
\* turn at the end of the game.
Adds(s, t) ==
    \E r : /\ Allowed(Behind(s), r)
           /\ Added(s, t, r, FixAndApply(Behind(s), Game(s).info, r))

\* At the end of the record, with the core.
Landed(t) ==
    /\ Core(t) /\ AtTheEnd(t) /\ t.last.g # 0 /\ t.ms.gs # "none"
    /\ t.ms.crawford = At(t).crawford /\ t.ms.post = At(t).post
    /\ t.ms.gs = "playing" => t.ms = At(t) /\ t.ms.resigned = 0

\* At the end of the record there is nothing to look ahead to.
LEMMA EndOfRecord ==
  ASSUME NEW s, s.last.k = Len(Game(s).recs), s.last.k \in Nat
  PROVE  At(s) = Behind(s)
<1>1. ~(s.last.k < Len(Game(s).recs))
  OBVIOUS
<1> QED BY <1>1 DEF At, Skips

\* A record added leaves the invariant's core, at the end of the record.
LEMMA AddedLands ==
  ASSUME NEW s, MayGoOn(s), NEW r, Allowed(Behind(s), r), NEW t,
         Added(s, t, r, FixAndApply(Behind(s), Game(s).info, r)),
         t.craw # <<>> => t.craw[1] \in BOOLEAN,
         Pending(t.ms, FixAndApply(Behind(s), Game(s).info, r).ms, Game(t).recs[1].p),
         t.ms.crawford = FixAndApply(Behind(s), Game(s).info, r).ms.crawford,
         t.ms.post = FixAndApply(Behind(s), Game(s).info, r).ms.post,
         t.ms.gs = "playing" => t.ms = FixAndApply(Behind(s), Game(s).info, r).ms
  PROVE  Landed(t) /\ Adds(s, t)
<1> DEFINE z == FixAndApply(Behind(s), Game(s).info, r)
           g == t.last.g
           k == t.last.k
<1>1. /\ Whole(t) /\ Recorded(t.lMatch) /\ g = Len(t.lMatch) /\ g \in 1..Len(s.lMatch)
      /\ k = Len(Game(t).recs) /\ k \in 1..(s.last.k + 1) /\ s.last.k \in Nat
      /\ After(Game(t), k) = z /\ Game(t) = t.lMatch[g] /\ s.lMatch \in Seq(Games)
  BY DEF Added, MayGoOn, Game
<1>2. At(t) = z.ms
  BY <1>1, EndOfRecord DEF Behind
<1>3. g # 0 /\ g \in 0..Len(t.lMatch) /\ k \in Nat /\ k # 0
  <2>1. g \in Nat /\ g # 0
    BY <1>1
  <2> QED BY <1>1, <2>1
<1>4. Core(t)
  <2>1. k <= Len(Game(t).recs)
    BY <1>1, <1>3
  <2>2. Pending(t.ms, At(t), Game(t).recs[1].p)
    BY <1>2
  <2> HIDE DEF z, g, k
  <2>3. t.last.g # 0 /\ t.last.g \in 0..Len(t.lMatch) /\ t.last.k \in Nat
        /\ t.last.k <= Len(Game(t).recs)
    BY <1>3, <2>1 DEF g, k
  <2> QED BY <1>1, <2>2, <2>3 DEF Core
<1>5. AtTheEnd(t)
  BY <1>1 DEF AtTheEnd
<1>6. InGame(t)
  BY <1>3, <1>4, CoreInGame
<1>7. At(t).gs # "none"
  <2>1. FactsAt(Game(t), k) /\ k # 0
    BY <1>3, <1>6 DEF InGame
  <2> QED BY <1>2, <1>1, <2>1 DEF FactsAt, Facts
<1>8. t.ms.gs = At(t).gs
  BY <1>2 DEF Pending, Alongside
<1>9. t.ms.gs = "playing" => t.ms = At(t) /\ t.ms.resigned = 0
  <2>1. At(t).gs = "playing" => At(t).resigned = 0
    BY <1>6 DEF InGame, Sound, InPlay
  <2> QED BY <1>2, <1>8, <2>1
<1>10. Adds(s, t)
  BY DEF Adds
<1> QED BY <1>2, <1>3, <1>4, <1>5, <1>7, <1>8, <1>9, <1>10 DEF Landed

\* A record other than a resignation, while none is offered.
LEMMA RecordLands ==
  ASSUME NEW s, MayGoOn(s), s.craw # <<>> => s.craw[1] \in BOOLEAN,
         NEW r, Allowed(Behind(s), r),
         FixAndApply(s.ms, Game(s).info, r) = FixAndApply(Behind(s), Game(s).info, r),
         NEW t, t = AddMoveRecord(s, r)
  PROVE  /\ Landed(t) /\ Adds(s, t) /\ t.ms = At(t) /\ t.next = s.next
         /\ t.ms = FixAndApply(Behind(s), Game(s).info, r).ms
<1> DEFINE z == FixAndApply(Behind(s), Game(s).info, r)
<1>1. Added(s, t, r, z) /\ t.ms = z.ms /\ t.next = s.next
  BY AddMoveRecordAdds
<1>2. /\ Recorded(t.lMatch) /\ Whole(t) /\ t.last.g = Len(t.lMatch) /\ t.last.g \in 1..Len(s.lMatch)
      /\ t.last.k = Len(Game(t).recs) /\ t.last.k \in 1..(s.last.k + 1) /\ s.last.k \in Nat
      /\ After(Game(t), t.last.k) = z /\ Game(t) = t.lMatch[t.last.g] /\ s.lMatch \in Seq(Games)
      /\ t.craw = s.craw
  BY <1>1 DEF Added, MayGoOn, Game
<1>3. GameOK(Game(t)) /\ t.last.k \in 0..Len(Game(t).recs) /\ t.last.k # 0 /\ t.last.k \in Nat
  <2>1. t.last.g \in 1..Len(t.lMatch) /\ t.last.k \in Nat /\ t.last.k # 0
    BY <1>2
  <2> QED BY <1>2, <2>1 DEF Recorded
<1>4. FactsAt(Game(t), t.last.k)
  BY <1>3 DEF GameOK, GameUpTo
<1>5. Sound(z.ms) /\ z.ms.gs # "none"
  BY <1>2, <1>3, <1>4 DEF FactsAt, Facts
<1>6. Pending(t.ms, z.ms, Game(t).recs[1].p)
  BY <1>1, <1>5, NothingPending
<1>7. At(t) = z.ms
  BY <1>2, <1>3, EndOfRecord DEF Behind
<1>8. Landed(t) /\ Adds(s, t)
  BY <1>1, <1>2, <1>6, AddedLands
<1> QED BY <1>1, <1>7, <1>8

---------------------------------------------------------------------------
(* The commands.                                                           *)

\* What a command sees: what the replay leaves, but that gnubg may have forgone its turn.
Sees(s) == IF s.ms.turn = At(s).turn THEN At(s) ELSE Facing(At(s))

\* a and b are the same to a player who looks at them.
LooksLike(a, b) ==
    /\ a.gs = b.gs /\ a.turn = b.turn /\ a.dice = b.dice /\ a.doubled = b.doubled
    /\ a.cube = b.cube /\ a.owner = b.owner /\ a.beavers = b.beavers /\ a.score = b.score
    /\ a.crawford = b.crawford /\ a.nMatchTo = b.nMatchTo

\* gnubg has forgone its turn, at the end of the record.
Forgone(s) ==
    /\ At(s) = Behind(s) /\ Passed(At(s)) /\ s.ms.move = Gnu /\ s.ms.turn = Human
    /\ At(s).move = Gnu /\ ~s.ms.doubled /\ TurnedTo(Facing(At(s)), s.ms)

\* While nobody offers to resign, the match state is the replay's but for what was declined,
\* or for a turn forgone.
LEMMA ReplayStands ==
  ASSUME NEW s, Core(s), Duty(s), s.ms.gs = "playing", s.ms.resigned = 0
  PROVE  /\ At(s).gs = "playing" /\ IsState(At(s)) /\ LooksLike(s.ms, Sees(s))
         /\ s.ms.turn = At(s).turn => AgreeButGs(s.ms, At(s))
         /\ s.ms.turn # At(s).turn => Forgone(s)
<1>1. InGame(s) /\ Pending(s.ms, At(s), Game(s).recs[1].p) /\ Sound(At(s)) /\ s.last.g # 0
  BY PlayingInGame DEF InGame
<1>2. Alongside(s.ms, At(s)) /\ Offer(s.ms, At(s)) /\ At(s).gs = "playing" /\ IsState(At(s))
      /\ InPlay(At(s)) /\ At(s).turn \in Players
  BY <1>1 DEF Pending, Alongside, Sound, Typed
<1> DEFINE a == At(s)
           f == Facing(a)
<1>3. CASE s.ms.turn = a.turn
  <2>1. Sees(s) = a
    BY <1>3 DEF Sees
  <2> QED BY <1>2, <1>3, <2>1 DEF AgreeButGs, Alongside, Placed, LooksLike, Ended
<1>4. CASE s.ms.turn # a.turn
  <2>1. s.ms.turn = Human /\ ~a.doubled /\ a.turn = Gnu
    BY <1>2, <1>4, HumanIs, OtherPlayer DEF Offer
  <2>2. AtTheEnd(s)
    BY <1>2, <2>1 DEF Duty
  <2>3. a = Behind(s)
    BY <1>1, <2>2, EndOfRecord DEF AtTheEnd, InGame, Game
  <2>4. Passed(a) /\ a.move = Gnu
    BY <1>2, <2>1 DEF Passed, InPlay
  <2>5. s.ms.move = Gnu /\ s.ms.board = a.board /\ ~s.ms.doubled /\ s.ms.gs = a.gs
        /\ IsState(s.ms) /\ s.ms.dice = a.dice
        /\ s.ms.cube = a.cube /\ s.ms.owner = a.owner /\ s.ms.beavers = a.beavers
        /\ s.ms.score = a.score /\ s.ms.cGames = a.cGames /\ s.ms.crawford = a.crawford
        /\ s.ms.post = a.post /\ s.ms.nMatchTo = a.nMatchTo /\ s.ms.doubled = a.doubled
    BY <1>2, <2>1, <2>4 DEF Alongside, Placed, Ended
  <2>6. /\ IsState(f) /\ f.move = Human /\ f.turn = Human /\ f.board = SwapSides(a.board)
        /\ f.gs = a.gs /\ f.dice = a.dice
        /\ f.cube = a.cube /\ f.owner = a.owner /\ f.beavers = a.beavers
        /\ f.score = a.score /\ f.cGames = a.cGames /\ f.crawford = a.crawford
        /\ f.post = a.post /\ f.nMatchTo = a.nMatchTo /\ f.doubled = a.doubled
    BY <1>2, ExceptIsFcn DEF IsState, Fields, Facing
  <2>7. Sees(s) = f
    BY <1>4 DEF Sees
  <2> HIDE DEF f, a
  <2>8. TurnedTo(f, s.ms)
    BY <2>5, <2>6 DEF TurnedTo
  <2>9. LooksLike(s.ms, f)
    BY <2>1, <2>5, <2>6 DEF LooksLike
  <2> QED BY <1>2, <1>4, <2>1, <2>3, <2>4, <2>5, <2>7, <2>8, <2>9 DEF Forgone, a, f
<1> QED BY <1>3, <1>4

\* Whoever plays is a player.
LEMMA TurnIs ==
  ASSUME NEW s, Core(s), s.ms.gs = "playing"
  PROVE  /\ s.ms.turn \in Players /\ s.ms.move \in Players /\ IsState(s.ms)
         /\ s.ms.resigned \in 0..3 /\ s.ms.declined \in 0..3 /\ s.last.g # 0
         /\ At(s).gs = "playing" /\ s.ms.doubled \in BOOLEAN
<1>1. Pending(s.ms, At(s), Game(s).recs[1].p) /\ Sound(At(s)) /\ s.last.g # 0
  BY PlayingInGame DEF InGame
<1>2. Alongside(s.ms, At(s)) /\ At(s).gs = "playing"
  BY <1>1 DEF Pending, Alongside
<1>3. s.ms.move = At(s).move
  BY <1>2 DEF Alongside, Placed, Ended
<1>4. At(s).move \in Players /\ At(s).doubled \in BOOLEAN
  BY <1>1, <1>2 DEF Sound, Typed
<1> QED BY <1>1, <1>2, <1>3, <1>4 DEF Alongside

\* The human, asked to agree, has no double to answer and does not move.
LEMMA AskedToAgree ==
  ASSUME NEW s, Core(s), s.ms.gs = "playing", s.ms.resigned # 0, s.ms.turn = Human
  PROVE  /\ ~s.ms.doubled /\ s.ms.turn # s.ms.move /\ s.ms.declined = 0
         /\ At(s).turn = Gnu /\ ~At(s).doubled
<1>1. Pending(s.ms, At(s), Game(s).recs[1].p) /\ Sound(At(s))
  BY PlayingInGame DEF InGame
<1>2. Alongside(s.ms, At(s)) /\ Offer(s.ms, At(s)) /\ At(s).gs = "playing"
  BY <1>1 DEF Pending, Alongside
<1>3. Human # Gnu
  BY DEF Human, Gnu
<1>4. At(s).turn = Gnu /\ ~At(s).doubled /\ s.ms.declined = 0
  BY <1>2, <1>3 DEF Offer
<1>5. At(s).move = Gnu
  BY <1>1, <1>2, <1>4 DEF Sound, InPlay
<1>6. s.ms.move = At(s).move
  BY <1>2 DEF Alongside, Placed, Ended
<1> QED BY <1>2, <1>3, <1>4, <1>5, <1>6 DEF Alongside

\* The record has grown, and NextTurn is owed.
Goes(s, t) == Landed(t) /\ Adds(s, t) /\ t.next = TRUE

\* fNextTurn has no part in the core of the invariant.
LEMMA NextOnly ==
  ASSUME NEW t, Whole(t), NEW b, NEW u, u = [t EXCEPT !.next = b]
  PROVE  /\ u.ms = t.ms /\ u.lMatch = t.lMatch /\ u.last = t.last /\ u.craw = t.craw
         /\ u.session = t.session /\ u.next = b /\ Whole(u)
         /\ Game(u) = Game(t) /\ At(u) = At(t) /\ Behind(u) = Behind(t)
         /\ (AtTheEnd(u) <=> AtTheEnd(t))
         /\ Core(t) => Core(u)
         /\ Landed(t) => Landed(u)
         /\ \A s : Adds(s, t) => Adds(s, u)
<1>1. /\ u.ms = t.ms /\ u.lMatch = t.lMatch /\ u.last = t.last /\ u.craw = t.craw
      /\ u.session = t.session /\ u.next = b
  BY DEF Whole
<1>2. IsFcn(u) /\ DOMAIN u = DOMAIN t
  BY ExceptIsFcn
<1>3. Whole(u)
  BY <1>1, <1>2 DEF Whole
<1>4. Game(u) = Game(t)
  BY <1>1 DEF Game
<1>5. At(u) = At(t) /\ Behind(u) = Behind(t)
  BY <1>1, <1>4 DEF At, Behind, Skips
<1>6. AtTheEnd(u) <=> AtTheEnd(t)
  BY <1>1 DEF AtTheEnd
<1>7. Core(t) => Core(u)
  BY <1>1, <1>3, <1>4, <1>5 DEF Core
<1>8. Landed(t) => Landed(u)
  BY <1>1, <1>5, <1>6, <1>7 DEF Landed
<1>9. ASSUME NEW s, NEW r, NEW z, Added(s, t, r, z) PROVE Added(s, u, r, z)
  BY <1>1, <1>3, <1>4, <1>9 DEF Added
<1>10. \A s : Adds(s, t) => Adds(s, u)
  BY <1>9 DEF Adds
<1> QED BY <1>1, <1>3, <1>4, <1>5, <1>6, <1>7, <1>8, <1>10

\* A legal record entered with Record keeps the core and leaves a turn to be taken.
LEMMA RecordGoes ==
  ASSUME NEW s, Core(s), Duty(s), s.ms.gs = "playing", s.ms.resigned = 0,
         NEW r, Legal(Sees(s), r), r.mt # "resign", r.mt = "double" => s.ms.turn = At(s).turn
  PROVE  /\ Landed(AddMoveRecord(s, r)) /\ Adds(s, AddMoveRecord(s, r))
         /\ AddMoveRecord(s, r).ms = FixAndApply(Sees(s), Game(s).info, r).ms
         /\ AddMoveRecord(s, r).next = s.next
         /\ Goes(s, Record(s, r))
<1> DEFINE t == AddMoveRecord(s, r)
           info == Game(s).info
           a == At(s)
           f == Facing(a)
<1>1. /\ MayGoOn(s) /\ (s.craw # <<>> => s.craw[1] \in BOOLEAN)
      /\ Sound(Behind(s)) /\ IsState(Behind(s))
  BY PlayingInGame DEF InGame, Core, FactsAt, Facts, Behind, Sound, Typed
<1>2. /\ Allowed(Behind(s), r) /\ FixAndApply(s.ms, info, r) = FixAndApply(Behind(s), info, r)
      /\ FixAndApply(s.ms, info, r) = FixAndApply(Sees(s), info, r)
  <2>1. CASE s.ms.turn = a.turn
    <3>1. Sees(s) = a
      BY <2>1 DEF Sees
    <3>2. FixAndApply(s.ms, info, r) = FixAndApply(a, info, r)
      BY <2>1, ReplayStands, RecordForgets
    <3>3. CASE ~Skips(s)
      BY <3>1, <3>2, <3>3 DEF At, Allowed
    <3>4. CASE Skips(s)
      <4> DEFINE b == Behind(s)
      <4>1. a = Facing(b) /\ Passed(b) /\ b.move = Gnu /\ IsState(b)
        BY <1>1, <3>4 DEF At, Skips, Skipped, Passed, Sound, InPlay
      <4> HIDE DEF b, a
      <4>2. Allowed(b, r) /\ r.p = Human /\ r.mt \in {"setdice", "normal", "double"}
        BY <3>1, <4>1, FacingAllows
      <4>3. FixAndApply(Facing(b), info, r) = FixAndApply(b, info, r)
        BY <4>1, <4>2, FacingSame
      <4> QED BY <3>1, <3>2, <4>1, <4>2, <4>3 DEF b
    <3> QED BY <3>3, <3>4
  <2>2. CASE s.ms.turn # a.turn
    <3>1. Sees(s) = f
      BY <2>2 DEF Sees
    <3>2. Forgone(s) /\ IsState(a)
      BY <2>2, ReplayStands
    <3>3. a = Behind(s) /\ Passed(a) /\ a.move = Gnu /\ TurnedTo(f, s.ms) /\ s.ms.turn = Human
      BY <3>2 DEF Forgone
    <3> HIDE DEF a
    <3>4. Allowed(a, r) /\ r.p = Human /\ r.mt \in {"setdice", "normal"}
      BY <2>2, <3>1, <3>2, <3>3, FacingAllows DEF a
    <3>5. FixAndApply(f, info, r) = FixAndApply(a, info, r)
      BY <3>2, <3>3, <3>4, FacingSame
    <3> HIDE DEF f
    <3>6. FixAndApply(f, info, r) = FixAndApply(s.ms, info, r)
      BY <3>3, <3>4, TurnedToSame
    <3> QED BY <3>1, <3>3, <3>4, <3>5, <3>6
  <2> QED BY <2>1, <2>2
<1>3. /\ Landed(t) /\ Adds(s, t) /\ t.ms = FixAndApply(Sees(s), info, r).ms
      /\ t.next = s.next
  BY <1>1, <1>2, RecordLands
<1> HIDE DEF t
<1>4. Whole(t)
  BY <1>3 DEF Landed, Core
<1>5. Record(s, r) = [t EXCEPT !.next = TRUE]
  BY DEF Record, t
<1>6. Goes(s, Record(s, r))
  BY <1>3, <1>4, <1>5, NextOnly DEF Goes
<1> QED BY <1>3, <1>6 DEF t

\* The fields of a record.
LEMMA RecIs ==
  ASSUME NEW mt \in RecordKinds, NEW p \in Players, NEW n \in 0..3
  PROVE  /\ Rec(mt, p, n) \in Records /\ Rec(mt, p, n).mt = mt
         /\ Rec(mt, p, n).p = p /\ Rec(mt, p, n).n = n
BY DEF Rec, Records

\* A move by the player on turn is legal.
LEMMA MoveGoes ==
  ASSUME NEW s, Core(s), Duty(s), s.ms.gs = "playing", s.ms.resigned = 0, ~s.ms.doubled,
         NEW borne \in 0..1
  PROVE  Legal(Sees(s), Rec("normal", s.ms.turn, borne))
<1> DEFINE r == Rec("normal", s.ms.turn, borne)
<1>1. borne \in 0..3 /\ s.ms.turn \in Players
  BY TurnIs
<1>2. r \in Records /\ r.mt = "normal" /\ r.p = s.ms.turn /\ r.n = borne
  BY <1>1, RecIs DEF RecordKinds
<1>3. Sees(s).turn = s.ms.turn /\ ~Sees(s).doubled /\ Sees(s).gs = "playing"
  BY ReplayStands DEF LooksLike
<1> HIDE DEF r
<1> QED BY <1>2, <1>3 DEF Legal, r

\* A roll is legal before the dice are there.
LEMMA RollGoes ==
  ASSUME NEW s, Core(s), Duty(s), s.ms.gs = "playing", s.ms.resigned = 0, ~s.ms.doubled,
         s.ms.dice = NoDice, NEW dice \in {Stuck, Open}
  PROVE  Legal(Sees(s), Rec("setdice", s.ms.turn, dice))
<1> DEFINE r == Rec("setdice", s.ms.turn, dice)
<1>1. dice \in 0..3 /\ s.ms.turn \in Players
  BY TurnIs, Kinds
<1>2. r \in Records /\ r.mt = "setdice" /\ r.p = s.ms.turn /\ r.n = dice
  BY <1>1, RecIs DEF RecordKinds
<1>3. Sees(s).turn = s.ms.turn /\ ~Sees(s).doubled /\ Sees(s).gs = "playing" /\ Sees(s).dice = NoDice
  BY ReplayStands DEF LooksLike
<1> HIDE DEF r
<1> QED BY <1>2, <1>3 DEF Legal, r

\* A take or a drop is legal while a double is offered.
LEMMA AnswerGoes ==
  ASSUME NEW s, Core(s), Duty(s), s.ms.gs = "playing", s.ms.resigned = 0, s.ms.doubled,
         NEW mt \in {"take", "drop"}
  PROVE  Legal(Sees(s), Rec(mt, s.ms.turn, 0))
<1> DEFINE r == Rec(mt, s.ms.turn, 0)
<1>1. 0 \in 0..3 /\ s.ms.turn \in Players /\ mt \in RecordKinds
  BY TurnIs DEF RecordKinds
<1>2. r \in Records /\ r.mt = mt /\ r.p = s.ms.turn
  BY <1>1, RecIs
<1>3. Sees(s).turn = s.ms.turn /\ Sees(s).doubled /\ Sees(s).gs = "playing"
  BY ReplayStands DEF LooksLike
<1> HIDE DEF r
<1> QED BY <1>2, <1>3 DEF Legal, r

\* A double that the guards of CommandDouble or CommandRedouble let through is legal.
LEMMA DoubleGoes ==
  ASSUME NEW s, Core(s), Duty(s), s.ms.gs = "playing", s.ms.resigned = 0,
         \/ ~s.ms.doubled /\ \E gnu : gnubg_can_double(s.ms, gnu)
         \/ s.ms.doubled /\ s.ms.nMatchTo = 0 /\ s.ms.beavers < NBeavers /\ s.ms.cube < MaxCube \div 2
  PROVE  Legal(Sees(s), Rec("double", s.ms.turn, 0)) /\ s.ms.turn = At(s).turn
<1> DEFINE r == Rec("double", s.ms.turn, 0)
<1>1. 0 \in 0..3 /\ s.ms.turn \in Players
  BY TurnIs
<1>2. r \in Records /\ r.mt = "double" /\ r.p = s.ms.turn
  BY <1>1, RecIs DEF RecordKinds
<1>3. LooksLike(s.ms, Sees(s)) /\ (s.ms.turn # At(s).turn => s.ms.move = Gnu /\ s.ms.turn = Human /\ ~s.ms.doubled)
  BY ReplayStands DEF Forgone
<1>3a. s.ms.turn = At(s).turn
  BY <1>3, HumanIs DEF gnubg_can_double
<1> HIDE DEF r
<1>4. CASE ~s.ms.doubled /\ \E gnu : gnubg_can_double(s.ms, gnu)
  BY <1>2, <1>3, <1>3a, <1>4 DEF Legal, r, gnubg_can_double, LooksLike
<1>5. CASE s.ms.doubled /\ s.ms.nMatchTo = 0 /\ s.ms.beavers < NBeavers /\ s.ms.cube < MaxCube \div 2
  BY <1>2, <1>3, <1>3a, <1>5 DEF Legal, r, LooksLike
<1> QED BY <1>4, <1>5

\* The cube's value is positive, and half of MAX_CUBE less than MAX_CUBE.
LEMMA CubeIs ==
  ASSUME NEW m, CubeOK(m)
  PROVE  m.cube \in Nat \ {0} /\ (m.cube < MaxCube \div 2 => m.cube < MaxCube)
<1>1. PICK e \in Nat : m.cube = Shl[e]
  BY DEF CubeOK
<1>2. m.cube \in Nat \ {0}
  BY <1>1, ShlRecursion
<1>3. m.cube < MaxCube \div 2 => m.cube < MaxCube
  BY <1>2, MaxCubeIs
<1> QED BY <1>2, <1>3

\* The redouble of a beaver, whose owner CommandRedouble sets before it is recorded.
LEMMA RedoubleGoes ==
  ASSUME NEW s, Core(s), Duty(s), s.ms.gs = "playing", s.ms.resigned = 0, s.ms.doubled,
         s.ms.nMatchTo = 0, s.ms.beavers < NBeavers, s.ms.cube < MaxCube \div 2
  PROVE  LET q == Record([s EXCEPT !.ms.owner = Other(s.ms.move)], Rec("double", s.ms.turn, 0))
         IN  Goes(s, q) /\ q.ms.gs = "playing" /\ q.ms.turn = Other(s.ms.turn)
<1> DEFINE r == Rec("double", s.ms.turn, 0)
           o == [s.ms EXCEPT !.owner = Other(s.ms.move)]
           q == [s EXCEPT !.ms = o]
           t == AddMoveRecord(q, r)
           info == Game(s).info
           x == FixAndApply(q.ms, info, r)
           z == FixAndApply(At(s), info, r)
<1>1. /\ Legal(At(s), r) /\ AgreeButGs(s.ms, At(s)) /\ At(s).gs = "playing" /\ At(s).doubled
      /\ At(s) = Behind(s)
  <2>1. Legal(Sees(s), r) /\ s.ms.turn = At(s).turn
    BY DoubleGoes
  <2>2. AgreeButGs(s.ms, At(s)) /\ At(s).gs = "playing" /\ At(s).doubled /\ Sees(s) = At(s)
    BY <2>1, ReplayStands DEF Sees, AgreeButGs
  <2>3. ~Skips(s)
    <3>1. CASE Skips(s)
      <4>1. ~Behind(s).doubled /\ IsState(Behind(s)) /\ At(s) = Facing(Behind(s))
        BY <3>1, PlayingInGame DEF Skips, Skipped, Passed, At, InGame, FactsAt, Facts, Behind, Sound, Typed
      <4> QED BY <2>2, <4>1 DEF Facing, IsState, Fields
    <3> QED BY <3>1
  <2> QED BY <2>1, <2>2, <2>3 DEF At
<1>2. /\ r \in Records /\ r.mt = "double" /\ r.p = s.ms.turn
  <2>1. s.ms.turn \in Players /\ 0 \in 0..3
    BY TurnIs
  <2> QED BY <2>1, RecIs DEF RecordKinds
<1>3. /\ IsState(o) /\ o.owner = Other(s.ms.move)
      /\ o.gs = s.ms.gs /\ o.turn = s.ms.turn /\ o.move = s.ms.move /\ o.dice = s.ms.dice
      /\ o.doubled = s.ms.doubled /\ o.cube = s.ms.cube /\ o.beavers = s.ms.beavers
      /\ o.score = s.ms.score /\ o.cGames = s.ms.cGames /\ o.crawford = s.ms.crawford
      /\ o.post = s.ms.post /\ o.nMatchTo = s.ms.nMatchTo /\ o.board = s.ms.board
  <2>1. IsState(s.ms)
    BY TurnIs
  <2> QED BY <2>1, ExceptIsFcn DEF IsState, Fields
<1>4. /\ InGame(s) /\ Whole(s) /\ s.last.g # 0 /\ (s.craw # <<>> => s.craw[1] \in BOOLEAN)
  BY PlayingInGame DEF Core
<1> HIDE DEF o, r
<1>5. /\ q.ms = o /\ q.lMatch = s.lMatch /\ q.last = s.last /\ q.next = s.next
      /\ q.craw = s.craw /\ q.session = s.session /\ Whole(q)
  BY <1>4, ExceptIsFcn DEF Whole
<1> HIDE DEF q
<1>6. Game(q) = Game(s) /\ Behind(q) = Behind(s)
  BY <1>5 DEF Game, Behind
<1>7. MayGoOn(q)
  BY <1>4, <1>5, <1>6 DEF InGame, MayGoOn
<1>8. x = z /\ z.ms.gs = "playing" /\ z.ms.turn = Other(s.ms.turn)
  <2>1. AgreeButGs(s.ms, At(s)) /\ At(s).gs = "playing"
    BY <1>1
  <2>2. s.ms.move \in Players /\ s.ms.doubled \in BOOLEAN
    BY TurnIs
  <2>3. Doubled(x, o, info, r)
    BY <1>2, <1>3, <1>5, <2>2, DoubleStep
  <2>4. Doubled(z, At(s), info, r)
    <3>1. IsState(At(s)) /\ At(s).turn = r.p /\ At(s).move \in Players /\ At(s).doubled \in BOOLEAN
      BY <1>2, <2>1, <2>2 DEF AgreeButGs
    <3> QED BY <1>2, <3>1, DoubleStep
  <2>5. ~(At(s).cube >= MaxCube) /\ At(s).doubled /\ ~(o.cube >= MaxCube) /\ o.doubled
    <3>1. At(s).cube = s.ms.cube /\ CubeOK(At(s))
      BY <1>4, <2>1 DEF AgreeButGs, InGame, Sound
    <3>2. s.ms.cube \in Nat /\ s.ms.cube < MaxCube
      BY <3>1, CubeIs
    <3> QED BY <1>3, <2>1, <3>1, <3>2, MaxCubeIs DEF AgreeButGs
  <2> HIDE DEF x, z
  <2>6. x.ms = z.ms
    <3>1. x.ms.owner = z.ms.owner /\ x.ms.turn = z.ms.turn /\ x.ms.doubled = z.ms.doubled
          /\ x.ms.cube = z.ms.cube /\ x.ms.beavers = z.ms.beavers
      BY <1>3, <2>1, <2>3, <2>4, <2>5 DEF Doubled, AgreeButGs
    <3>2. /\ IsState(x.ms) /\ IsState(z.ms) /\ x.ms.gs = z.ms.gs /\ x.ms.move = z.ms.move
          /\ x.ms.dice = z.ms.dice /\ x.ms.resigned = z.ms.resigned
          /\ x.ms.declined = z.ms.declined /\ x.ms.score = z.ms.score
          /\ x.ms.cGames = z.ms.cGames /\ x.ms.crawford = z.ms.crawford
          /\ x.ms.post = z.ms.post /\ x.ms.nMatchTo = z.ms.nMatchTo /\ x.ms.board = z.ms.board
      BY <1>3, <2>1, <2>3, <2>4 DEF Doubled, AgreeButGs
    <3> QED BY <3>1, <3>2, SameState
  <2>7. x.info = z.info
    BY <2>3, <2>4 DEF Doubled
  <2>8. IsPair(x) /\ IsPair(z)
    <3>1. r.mt \in RecordKinds
      BY <1>2 DEF RecordKinds
    <3> QED BY <3>1, InfoOnlyCarried DEF Alike, x, z
  <2>9. z.ms.gs = "playing" /\ z.ms.turn = Other(s.ms.turn)
    BY <1>2, <2>4, <2>5 DEF Doubled
  <2> QED BY <2>6, <2>7, <2>8, <2>9 DEF IsPair, IsFcn
<1>9. /\ Landed(t) /\ Adds(q, t) /\ t.next = s.next /\ t.ms = z.ms
  <2>1. Allowed(Behind(q), r) /\ z = FixAndApply(Behind(q), Game(q).info, r)
        /\ x = FixAndApply(q.ms, Game(q).info, r)
    BY <1>1, <1>6 DEF Allowed
  <2> HIDE DEF z, x
  <2> QED BY <1>4, <1>5, <1>7, <1>8, <2>1, RecordLands
<1>10. Adds(s, t)
  <2>1. \A b, w : Added(q, t, b, w) => Added(s, t, b, w)
    BY <1>5, <1>6 DEF Added
  <2> QED BY <1>6, <1>9, <2>1 DEF Adds
<1> HIDE DEF t
<1>11. Whole(t)
  BY <1>9 DEF Landed, Core
<1>12. Record([s EXCEPT !.ms.owner = Other(s.ms.move)], Rec("double", s.ms.turn, 0)) = [t EXCEPT !.next = TRUE]
  BY DEF Record, t, q, o, r
<1> HIDE DEF z
<1>13. t.ms.gs = "playing" /\ t.ms.turn = Other(s.ms.turn)
  BY <1>8, <1>9
<1> QED BY <1>9, <1>10, <1>11, <1>12, <1>13, NextOnly DEF Goes

\* m has what m0 has, but that the board may be seen from the other side.
Abreast(m, m0) ==
    /\ m.dice = m0.dice /\ m.doubled = m0.doubled
    /\ m.cube = m0.cube /\ m.owner = m0.owner /\ m.beavers = m0.beavers /\ m.score = m0.score
    /\ m.cGames = m0.cGames /\ m.nMatchTo = m0.nMatchTo
    /\ \/ m.board = m0.board /\ m.move = m0.move
       \/ m.board = SwapSides(m0.board) /\ m.move = Other(m0.move)

\* The other's resignation is agreed to, whoever the match state says is on turn.
LEMMA AgreeGoes ==
  ASSUME NEW s, Core(s), s.ms.gs = "playing", s.ms.resigned # 0
  PROVE  /\ Goes(s, Record(s, Rec("resign", Other(s.ms.turn), s.ms.resigned)))
         /\ Record(s, Rec("resign", Other(s.ms.turn), s.ms.resigned)).ms.gs = "resigned"
<1> DEFINE r == Rec("resign", Other(s.ms.turn), s.ms.resigned)
           t == AddMoveRecord(s, r)
           info == Game(s).info
           x == FixAndApply(s.ms, info, r)
           z == FixAndApply(Behind(s), info, r)
           m == Behind(s)
<1>1. /\ s.ms.turn \in Players /\ s.ms.resigned \in 1..3 /\ s.ms.resigned \in 0..3
      /\ At(s).gs = "playing" /\ IsState(s.ms)
  BY TurnIs
<1>2. r \in Records /\ r.mt = "resign" /\ r.p = Other(s.ms.turn) /\ r.n = s.ms.resigned
  BY <1>1, RecIs, OtherPlayer DEF RecordKinds
<1>3. /\ InGame(s) /\ Whole(s) /\ s.last.g # 0 /\ (s.craw # <<>> => s.craw[1] \in BOOLEAN)
      /\ MayGoOn(s)
  BY PlayingInGame DEF Core, InGame
<1>4. /\ Sound(m) /\ IsState(m) /\ m.crawford \in BOOLEAN /\ m.post \in BOOLEAN
  BY <1>3 DEF InGame, FactsAt, Facts, Behind, Sound, Typed
<1>4a. /\ m.gs = s.ms.gs /\ Abreast(s.ms, m) /\ s.ms.crawford = m.crawford /\ s.ms.post = m.post
       /\ s.ms.declined \in 0..3 /\ s.ms.turn \in Players
  <2>1. Alongside(s.ms, At(s))
    BY <1>3 DEF InGame, Pending
  <2>2. s.ms.board = At(s).board /\ s.ms.move = At(s).move
    BY <1>1, <2>1 DEF Alongside, Placed, Ended
  <2>3. CASE ~Skips(s)
    BY <1>1, <2>1, <2>2, <2>3 DEF At, Alongside, Abreast, Ended
  <2>4. CASE Skips(s)
    <3>1. At(s) = Facing(m) /\ Passed(m) /\ m.move = Gnu
      BY <1>4, <2>4 DEF At, Skips, Skipped, Passed, Sound, InPlay
    <3> DEFINE f == Facing(m)
    <3>2. /\ f.gs = m.gs /\ f.dice = m.dice /\ f.doubled = m.doubled /\ f.cube = m.cube
          /\ f.owner = m.owner /\ f.beavers = m.beavers /\ f.score = m.score
          /\ f.cGames = m.cGames /\ f.nMatchTo = m.nMatchTo /\ f.crawford = m.crawford
          /\ f.post = m.post /\ f.board = SwapSides(m.board) /\ f.move = Human
      BY <1>4 DEF Facing, IsState, Fields
    <3> HIDE DEF f, m
    <3>3. Other(m.move) = Human
      BY <3>1 DEF Other, Human, Gnu
    <3> QED BY <1>1, <2>1, <2>2, <3>1, <3>2, <3>3 DEF Alongside, Abreast, Ended, f
  <2> QED BY <2>3, <2>4
<1> HIDE DEF r, m
<1>5. Legal(m, r)
  BY <1>1, <1>2, <1>4a DEF Legal
<1>6. Resigned(x, s.ms, info, r) /\ Resigned(z, m, info, r)
  BY <1>1, <1>2, <1>4, <1>4a, ResignStep DEF m
<1> HIDE DEF x, z
<1>7. x.info = z.info
  BY <1>4a, <1>6 DEF Resigned, Abreast
<1>8. /\ x.ms.gs = "resigned" /\ x.ms.crawford = z.ms.crawford /\ x.ms.post = z.ms.post
  BY <1>1, <1>4a, <1>6 DEF Resigned
<1>9. ASSUME NEW p PROVE Pending(x.ms, z.ms, p)
  <2>1. x.ms.score = z.ms.score
    BY <1>4a, <1>6 DEF Resigned, Abreast
  <2>2. x.ms.resigned \in 0..3 /\ x.ms.declined \in 0..3 /\ x.ms.turn \in Players
        /\ x.ms.crawford \in BOOLEAN /\ x.ms.post \in BOOLEAN
    BY <1>1, <1>2, <1>4, <1>4a, <1>6 DEF Resigned
  <2>3. Alongside(x.ms, z.ms)
    BY <1>1, <1>4a, <1>6, <1>8, <2>1, <2>2 DEF Resigned, Alongside, Abreast, Placed, Ended
  <2> QED BY <1>6, <1>8, <2>3 DEF Pending, Resigned
<1>10. Added(s, t, r, z) /\ t.ms = x.ms /\ t.next = s.next
  BY <1>3, <1>5, <1>7, AddMoveRecordAdds DEF x, z, m, Allowed
<1> HIDE DEF t
<1>11. t.craw = s.craw
  BY <1>10 DEF Added
<1>12. Landed(t) /\ Adds(s, t)
  <2>1. Pending(t.ms, z.ms, Game(t).recs[1].p)
    BY <1>9, <1>10
  <2>2. t.ms.gs # "playing"
    BY <1>8, <1>10
  <2> QED BY <1>3, <1>5, <1>8, <1>10, <1>11, <2>1, <2>2, AddedLands DEF z, m, Allowed
<1>13. Whole(t)
  BY <1>12 DEF Landed, Core
<1>14. Record(s, Rec("resign", Other(s.ms.turn), s.ms.resigned)) = [t EXCEPT !.next = TRUE]
  BY DEF Record, t, r
<1>15. t.ms.gs = "resigned"
  BY <1>8, <1>10
<1> QED BY <1>12, <1>13, <1>14, <1>15, NextOnly DEF Goes

---------------------------------------------------------------------------
(* A resignation offered or declined.                                      *)

\* Nothing but the match state and fNextTurn has changed.
Stays(s, t) ==
    /\ t.lMatch = s.lMatch /\ t.last = s.last /\ t.craw = s.craw /\ t.session = s.session
    /\ t.ms.gs = s.ms.gs /\ t.ms.score = s.ms.score /\ t.ms.nMatchTo = s.ms.nMatchTo
    /\ t.ms.crawford = s.ms.crawford /\ t.ms.post = s.ms.post /\ t.ms.cGames = s.ms.cGames

\* The match state of s but for declined, resigned and the turn.
Turned(s, t, d, n, p) ==
    /\ Whole(t) /\ Stays(s, t) /\ t.next = TRUE /\ IsState(t.ms)
    /\ t.ms.declined = d /\ t.ms.resigned = n /\ t.ms.turn = p
    /\ t.ms.move = s.ms.move /\ t.ms.dice = s.ms.dice /\ t.ms.doubled = s.ms.doubled
    /\ t.ms.cube = s.ms.cube /\ t.ms.owner = s.ms.owner /\ t.ms.beavers = s.ms.beavers
    /\ t.ms.board = s.ms.board

\* An offer made or declined, with the turn passed, keeps the core.
LEMMA TurnedCore ==
  ASSUME NEW s, Core(s), s.ms.gs = "playing", NEW d \in 0..3, NEW n \in 0..3, NEW p \in Players,
         NEW t, Turned(s, t, d, n, p),
         IF n = 0 THEN p = At(s).turn \/ (p = Human /\ ~At(s).doubled)
         ELSE \/ p = Gnu /\ (At(s).turn = Human \/ ~At(s).doubled)
              \/ p = Human /\ At(s).turn = Gnu /\ ~At(s).doubled /\ d = 0
  PROVE  Core(t) /\ At(t) = At(s) /\ (AtTheEnd(t) <=> AtTheEnd(s))
<1>1. /\ t.lMatch = s.lMatch /\ t.last = s.last /\ t.craw = s.craw /\ t.ms.gs = "playing" /\ Whole(t)
  BY DEF Turned, Stays
<1>2. Game(t) = Game(s)
  BY <1>1 DEF Game
<1>3. At(t) = At(s) /\ (AtTheEnd(t) <=> AtTheEnd(s))
  BY <1>1, <1>2 DEF At, Behind, Skips, AtTheEnd
<1>4. Pending(s.ms, At(s), Game(s).recs[1].p) /\ s.last.g # 0
  BY PlayingInGame DEF InGame
<1>5. Alongside(t.ms, At(s))
  <2>1. Alongside(s.ms, At(s)) /\ s.ms.board = At(s).board /\ s.ms.move = At(s).move
    BY <1>4 DEF Pending, Alongside, Placed, Ended
  <2> QED BY <1>1, <2>1 DEF Alongside, Placed, Turned, Stays, Ended
<1>6. Offer(t.ms, At(s))
  BY DEF Offer, Turned
<1>7. Pending(t.ms, At(t), Game(t).recs[1].p)
  BY <1>1, <1>3, <1>5, <1>6 DEF Pending, Ended
<1>8. Core(t)
  BY <1>1, <1>2, <1>4, <1>7 DEF Core
<1> QED BY <1>3, <1>8

\* CommandResign makes an offer and passes the turn.
LEMMA ResignTurns ==
  ASSUME NEW s, Whole(s), IsState(s.ms), NEW n,
         NEW t, t = [s EXCEPT !.ms.resigned = n, !.ms.turn = Other(@), !.next = TRUE]
  PROVE  Turned(s, t, s.ms.declined, n, Other(s.ms.turn))
<1> DEFINE m == [[s.ms EXCEPT !.resigned = n] EXCEPT !.turn = Other(s.ms.turn)]
           u == [[s EXCEPT !.ms = m] EXCEPT !.next = TRUE]
<1>1. /\ IsState(m) /\ m.resigned = n /\ m.turn = Other(s.ms.turn) /\ m.declined = s.ms.declined
      /\ m.gs = s.ms.gs /\ m.move = s.ms.move /\ m.dice = s.ms.dice
      /\ m.doubled = s.ms.doubled /\ m.cube = s.ms.cube /\ m.beavers = s.ms.beavers
      /\ m.score = s.ms.score /\ m.cGames = s.ms.cGames /\ m.crawford = s.ms.crawford
      /\ m.post = s.ms.post /\ m.nMatchTo = s.ms.nMatchTo /\ m.board = s.ms.board
      /\ m.owner = s.ms.owner
  BY ExceptIsFcn DEF IsState, Fields
<1>2. t = u
  BY DEF Whole, IsState, Fields
<1> HIDE DEF m
<1>3. /\ u.ms = m /\ u.lMatch = s.lMatch /\ u.last = s.last /\ u.next = TRUE
      /\ u.craw = s.craw /\ u.session = s.session /\ Whole(u)
  BY ExceptIsFcn DEF Whole
<1> HIDE DEF u
<1>4. Turned(s, u, s.ms.declined, n, Other(s.ms.turn))
  BY <1>1, <1>3 DEF Turned, Stays
<1> QED BY <1>2, <1>4

\* CommandDecline takes the offer off the table and passes the turn.
LEMMA DeclineTurns ==
  ASSUME NEW s, Whole(s), IsState(s.ms),
         NEW t, t = [s EXCEPT !.ms.declined = s.ms.resigned, !.ms.resigned = 0,
                              !.ms.turn = Other(@), !.next = TRUE]
  PROVE  Turned(s, t, s.ms.resigned, 0, Other(s.ms.turn))
<1> DEFINE m == [[[s.ms EXCEPT !.declined = s.ms.resigned] EXCEPT !.resigned = 0] EXCEPT !.turn = Other(s.ms.turn)]
           u == [[s EXCEPT !.ms = m] EXCEPT !.next = TRUE]
<1>1. /\ IsState(m) /\ m.resigned = 0 /\ m.turn = Other(s.ms.turn) /\ m.declined = s.ms.resigned
      /\ m.gs = s.ms.gs /\ m.move = s.ms.move /\ m.dice = s.ms.dice
      /\ m.doubled = s.ms.doubled /\ m.cube = s.ms.cube /\ m.beavers = s.ms.beavers
      /\ m.score = s.ms.score /\ m.cGames = s.ms.cGames /\ m.crawford = s.ms.crawford
      /\ m.post = s.ms.post /\ m.nMatchTo = s.ms.nMatchTo /\ m.board = s.ms.board
      /\ m.owner = s.ms.owner
  BY ExceptIsFcn DEF IsState, Fields
<1>2. t = u
  BY DEF Whole, IsState, Fields
<1> HIDE DEF m
<1>3. /\ u.ms = m /\ u.lMatch = s.lMatch /\ u.last = s.last /\ u.next = TRUE
      /\ u.craw = s.craw /\ u.session = s.session /\ Whole(u)
  BY ExceptIsFcn DEF Whole
<1> HIDE DEF u
<1>4. Turned(s, u, s.ms.resigned, 0, Other(s.ms.turn))
  BY <1>1, <1>3 DEF Turned, Stays
<1> QED BY <1>2, <1>4

\* A lawful step of play.
Fine(s, t) ==
    /\ Core(t) /\ Duty(t) /\ t.next \in BOOLEAN
    /\ AtTheEnd(s) => AtTheEnd(t)
    /\ t.ms.gs \in Ended => t.next = TRUE \/ t = s
    /\ Owes(t) \/ t = s
    /\ Adds(s, t) \/ Stays(s, t)

\* A record entered with Record is a lawful step of play.
LEMMA GoesFine ==
  ASSUME NEW s, NEW t, Goes(s, t)
  PROVE  Fine(s, t) /\ t.next = TRUE
<1>1. Landed(t) /\ Adds(s, t) /\ t.next = TRUE
  BY DEF Goes
<1>2. Duty(t)
  BY <1>1 DEF Landed, Duty
<1> QED BY <1>1, <1>2 DEF Fine, Landed, Owes

\* A record that leaves the human on turn, with nothing owed.
LEMMA LandedFine ==
  ASSUME NEW s, NEW t, Landed(t), Adds(s, t), t.next \in BOOLEAN,
         t.next \/ (t.ms.turn = Human /\ t.ms.gs = "playing")
  PROVE  Fine(s, t)
<1>1. Human # Gnu
  BY DEF Human, Gnu
<1>2. Duty(t)
  BY <1>1 DEF Landed, Duty
<1> QED BY <1>1, <1>2, Kinds DEF Fine, Landed, Owes

\* A command refused is a lawful step of play.
LEMMA SelfFine ==
  ASSUME NEW s, Core(s), Duty(s), s.next \in BOOLEAN
  PROVE  Fine(s, s)
BY DEF Fine, Stays

\* The player on turn may change to p, with n offered and d declined.
MayTurn(s, d, n, p) ==
    /\ d \in 0..3 /\ n \in 0..3 /\ p \in Players
    /\ n = 0 => p = At(s).turn \/ (p = Human /\ ~At(s).doubled)
    /\ n # 0 /\ p = Gnu => At(s).turn = Human \/ ~At(s).doubled
    /\ n # 0 /\ p = Human => At(s).turn = Gnu /\ ~At(s).doubled /\ d = 0
    /\ At(s).turn = Gnu => AtTheEnd(s)

\* An offer made or declined is a lawful step of play.
LEMMA TurnedFine ==
  ASSUME NEW s, Core(s), s.ms.gs = "playing", NEW d, NEW n, NEW p, MayTurn(s, d, n, p),
         NEW t, Turned(s, t, d, n, p)
  PROVE  Fine(s, t) /\ t.next = TRUE
<1>0. /\ d \in 0..3 /\ n \in 0..3 /\ p \in Players
      /\ IF n = 0 THEN p = At(s).turn \/ (p = Human /\ ~At(s).doubled)
         ELSE \/ p = Gnu /\ (At(s).turn = Human \/ ~At(s).doubled)
              \/ p = Human /\ At(s).turn = Gnu /\ ~At(s).doubled /\ d = 0
  BY DEF MayTurn, Players
<1>1. Core(t) /\ At(t) = At(s) /\ (AtTheEnd(t) <=> AtTheEnd(s))
  BY <1>0, TurnedCore
<1>2. /\ Stays(s, t) /\ t.next = TRUE /\ t.lMatch = s.lMatch /\ t.ms.gs = "playing"
      /\ t.ms.resigned = n /\ t.ms.turn = p /\ t.last.g # 0
  <2>1. s.last.g # 0
    BY PlayingInGame
  <2> QED BY <2>1 DEF Turned, Stays
<1>4. Human # Gnu /\ p \in {Human, Gnu}
  BY <1>0 DEF Human, Gnu, Players
<1>5. Duty(t)
  BY <1>1, <1>2, <1>4 DEF Duty, Ended, MayTurn
<1> QED BY <1>1, <1>2, <1>5, Kinds DEF Fine, Owes

---------------------------------------------------------------------------
(* The human's commands.                                                   *)

\* CommandRoll, with the move it may make itself, is a lawful step of play.
LEMMA CommandRollFine ==
  ASSUME NEW s, Core(s), Duty(s), s.next = FALSE, NEW t \in CommandRoll(s)
  PROVE  Fine(s, t)
<1>1. CASE t = s
  BY <1>1, SelfFine
<1>2. CASE t # s
  <2>1. /\ MayAct(s.ms, FALSE) /\ ~s.ms.doubled /\ s.ms.resigned = 0 /\ s.ms.dice = NoDice
    BY <1>2 DEF CommandRoll
  <2>2. PICK dice \in {Stuck, Open} : t = AddMoveRecord(s, Rec("setdice", s.ms.turn, dice))
    BY <1>2, <2>1 DEF CommandRoll
  <2>3. s.ms.gs = "playing" /\ s.ms.turn = Human
    BY <2>1 DEF MayAct
  <2> DEFINE r == Rec("setdice", s.ms.turn, dice)
  <2>4. Legal(Sees(s), r) /\ r.mt = "setdice"
    BY <2>1, <2>3, RollGoes DEF Rec
  <2>5. Landed(t) /\ Adds(s, t) /\ t.next = FALSE /\ t.ms = FixAndApply(Sees(s), Game(s).info, r).ms
    BY <2>1, <2>2, <2>3, <2>4, RecordGoes
  <2>6. t.ms.turn = Human /\ t.ms.gs = "playing"
    <3>1. r \in Records /\ r.mt = "setdice" /\ r.p = Human
      <4>1. dice \in 0..3
        BY Kinds
      <4> QED BY <2>3, <4>1, HumanIs, RecIs DEF RecordKinds
    <3> HIDE DEF r
    <3>2. IsState(Sees(s))
      BY <2>1, <2>3, ReplayStands DEF Sees, Forgone, TurnedTo
    <3>3. Rolled(FixAndApply(Sees(s), Game(s).info, r), Sees(s), Game(s).info, r)
      BY <3>1, <3>2, SetDiceStep
    <3> QED BY <2>5, <3>1, <3>3 DEF Rolled
  <2> QED BY <2>5, <2>6, LandedFine
<1> QED BY <1>1, <1>2

\* CommandMove is a lawful step of play.
LEMMA CommandMoveFine ==
  ASSUME NEW s, Core(s), Duty(s), s.next = FALSE, NEW borne \in 0..1, NEW t, t = CommandMove(s, borne)
  PROVE  Fine(s, t)
<1>1. CASE t = s
  BY <1>1, SelfFine
<1>2. CASE t # s
  <2>1. /\ MayAct(s.ms, FALSE) /\ s.ms.resigned = 0 /\ ~s.ms.doubled
        /\ t = Record(s, Rec("normal", s.ms.turn, borne))
    BY <1>2 DEF CommandMove
  <2>2. s.ms.gs = "playing"
    BY <2>1 DEF MayAct
  <2>3. Goes(s, t)
    <3> DEFINE r == Rec("normal", s.ms.turn, borne)
    <3>1. Legal(Sees(s), r) /\ r.mt = "normal"
      BY <2>1, <2>2, MoveGoes DEF Rec
    <3> HIDE DEF r
    <3>2. Goes(s, Record(s, r))
      BY <2>1, <2>2, <3>1, RecordGoes
    <3> QED BY <2>1, <3>2 DEF r
  <2> QED BY <2>3, GoesFine
<1> QED BY <1>1, <1>2

\* What the commands of the cube record, whoever gives them.
LEMMA CubeCommandsGo ==
  ASSUME NEW s, Core(s), Duty(s), NEW gnu, s.ms.resigned # 0 => ~gnu
  PROVE  /\ CommandRedouble(s, gnu) = s \/ Goes(s, CommandRedouble(s, gnu))
         /\ CommandDouble(s, gnu) = s \/ Goes(s, CommandDouble(s, gnu))
         /\ CommandTake(s, gnu) = s \/ Goes(s, CommandTake(s, gnu))
         /\ CommandDrop(s, gnu) = s \/ Goes(s, CommandDrop(s, gnu))
<1> DEFINE m == s.ms
<1>1. ASSUME MayAct(m, gnu), m.resigned # 0 PROVE ~m.doubled /\ m.turn # m.move
  <2>1. m.gs = "playing" /\ m.turn = Human
    BY <1>1 DEF MayAct
  <2> QED BY <1>1, <2>1, AskedToAgree
<1>2. CommandRedouble(s, gnu) = s \/ Goes(s, CommandRedouble(s, gnu))
  <2>1. CASE /\ m.nMatchTo = 0 /\ m.beavers < NBeavers
             /\ MayAct(m, gnu) /\ m.doubled /\ m.cube < MaxCube \div 2
    <3>1. m.gs = "playing" /\ m.resigned = 0
      BY <1>1, <2>1 DEF MayAct
    <3>2. CommandRedouble(s, gnu) = Record([s EXCEPT !.ms.owner = Other(s.ms.move)], Rec("double", s.ms.turn, 0))
      BY <2>1 DEF CommandRedouble
    <3> QED BY <2>1, <3>1, <3>2, RedoubleGoes
  <2>2. CASE ~(/\ m.nMatchTo = 0 /\ m.beavers < NBeavers
               /\ MayAct(m, gnu) /\ m.doubled /\ m.cube < MaxCube \div 2)
    BY <2>2 DEF CommandRedouble
  <2> QED BY <2>1, <2>2
<1>3. CommandDouble(s, gnu) = s \/ Goes(s, CommandDouble(s, gnu))
  <2>1. CASE ~gnubg_can_double(m, gnu)
    BY <2>1 DEF CommandDouble
  <2>2. CASE gnubg_can_double(m, gnu) /\ m.doubled
    BY <1>2, <2>2 DEF CommandDouble
  <2>3. CASE gnubg_can_double(m, gnu) /\ ~m.doubled
    <3>1. CommandDouble(s, gnu) = Record(s, Rec("double", s.ms.turn, 0))
      BY <2>3 DEF CommandDouble
    <3>2. m.gs = "playing" /\ m.resigned = 0
      BY <1>1, <2>3 DEF MayAct, gnubg_can_double
    <3> DEFINE r == Rec("double", s.ms.turn, 0)
    <3>3. Legal(Sees(s), r) /\ s.ms.turn = At(s).turn /\ r.mt = "double"
      BY <2>3, <3>2, DoubleGoes DEF Rec
    <3> HIDE DEF r
    <3>4. Goes(s, Record(s, r))
      BY <3>2, <3>3, RecordGoes
    <3> QED BY <3>1, <3>4 DEF r
  <2> QED BY <2>1, <2>2, <2>3
<1>4. ASSUME MayAct(m, gnu), m.doubled, NEW mt \in {"take", "drop"}
      PROVE  Goes(s, Record(s, Rec(mt, s.ms.turn, 0)))
  <2>1. m.gs = "playing" /\ m.resigned = 0
    BY <1>1, <1>4 DEF MayAct
  <2> DEFINE r == Rec(mt, s.ms.turn, 0)
  <2>2. Legal(Sees(s), r) /\ r.mt = mt
    BY <1>4, <2>1, AnswerGoes DEF Rec
  <2> HIDE DEF r
  <2>3. Goes(s, Record(s, r))
    BY <1>4, <2>1, <2>2, RecordGoes
  <2> QED BY <2>3 DEF r
<1>5. CommandTake(s, gnu) = s \/ Goes(s, CommandTake(s, gnu))
  BY <1>4 DEF CommandTake
<1>6. CommandDrop(s, gnu) = s \/ Goes(s, CommandDrop(s, gnu))
  BY <1>4 DEF CommandDrop
<1> QED BY <1>2, <1>3, <1>5, <1>6

\* CommandAgree does nothing or records the resignation.
LEMMA CommandAgreeGoes ==
  ASSUME NEW s, Core(s), NEW gnu
  PROVE  CommandAgree(s, gnu) = s \/ Goes(s, CommandAgree(s, gnu))
<1>1. ASSUME MayAct(s.ms, gnu), s.ms.resigned # 0
      PROVE  Goes(s, Record(s, Rec("resign", Other(s.ms.turn), s.ms.resigned)))
  <2>1. s.ms.gs = "playing"
    BY <1>1 DEF MayAct
  <2> QED BY <1>1, <2>1, AgreeGoes
<1> QED BY <1>1 DEF CommandAgree

\* A human's refusal of a resignation is a lawful step of play.
LEMMA HumanDeclineFine ==
  ASSUME NEW s, Core(s), Duty(s), s.next = FALSE, NEW t, t = CommandDecline(s, FALSE)
  PROVE  Fine(s, t)
<1>1. CASE t = s
  BY <1>1, SelfFine
<1>2. CASE t # s
  <2>1. /\ MayAct(s.ms, FALSE) /\ s.ms.resigned # 0
        /\ t = [s EXCEPT !.ms.declined = s.ms.resigned, !.ms.resigned = 0,
                         !.ms.turn = Other(@), !.next = TRUE]
    BY <1>2 DEF CommandDecline
  <2>2. s.ms.gs = "playing" /\ s.ms.turn = Human
    BY <2>1 DEF MayAct
  <2>3. Whole(s) /\ IsState(s.ms) /\ s.ms.resigned \in 0..3
    BY <2>2, TurnIs DEF Core
  <2>4. Turned(s, t, s.ms.resigned, 0, Gnu)
    BY <2>1, <2>2, <2>3, DeclineTurns, HumanIs
  <2>5. At(s).turn = Gnu
    BY <2>1, <2>2, AskedToAgree
  <2>6. AtTheEnd(s)
    BY <2>1, <2>2, <2>5 DEF Duty
  <2>7. MayTurn(s, s.ms.resigned, 0, Gnu)
    BY <2>3, <2>5, <2>6, HumanIs DEF MayTurn
  <2> QED BY <2>2, <2>4, <2>7, TurnedFine
<1> QED BY <1>1, <1>2

\* A human's resignation is a lawful step of play.
LEMMA HumanResignFine ==
  ASSUME NEW s, Core(s), Duty(s), s.next = FALSE, NEW n \in 1..3, NEW t, t = CommandResign(s, n, FALSE)
  PROVE  Fine(s, t)
<1>1. CASE ~MayAct(s.ms, FALSE)
  <2>1. t = s
    BY <1>1 DEF CommandResign
  <2> QED BY <2>1, SelfFine
<1>2. CASE MayAct(s.ms, FALSE) /\ n <= s.ms.declined
  <2>1. s.ms.gs = "playing" /\ s.ms.turn = Human
    BY <1>2 DEF MayAct
  <2>2. s.ms.declined # 0
    <3>1. ~(n <= 0)
      OBVIOUS
    <3> QED BY <1>2, <3>1
  <2>3. s.ms.resigned = 0
    BY <2>1, <2>2, AskedToAgree
  <2>4. t = [s EXCEPT !.ms.resigned = 0]
    BY <1>2 DEF CommandResign
  <2>5. Whole(s) /\ IsState(s.ms)
    BY <2>1, TurnIs DEF Core
  <2>6. [s.ms EXCEPT !.resigned = 0] = s.ms
    BY <2>3, <2>5 DEF IsState, Fields, IsFcn
  <2>7. t = s
    BY <2>4, <2>5, <2>6 DEF Whole, IsFcn
  <2> QED BY <2>7, SelfFine
<1>3. CASE MayAct(s.ms, FALSE) /\ ~(n <= s.ms.declined)
  <2>1. s.ms.gs = "playing" /\ s.ms.turn = Human
    BY <1>3 DEF MayAct
  <2>2. Whole(s) /\ IsState(s.ms) /\ s.ms.declined \in 0..3
    BY <2>1, TurnIs DEF Core
  <2>3. t = [s EXCEPT !.ms.resigned = n, !.ms.turn = Other(@), !.next = TRUE]
    BY <1>3 DEF CommandResign
  <2>4. Turned(s, t, s.ms.declined, n, Gnu)
    <3>1. Turned(s, t, s.ms.declined, n, Other(s.ms.turn))
      BY <2>2, <2>3, ResignTurns
    <3> QED BY <2>1, <3>1, HumanIs
  <2>5. At(s).turn = Human \/ ~At(s).doubled
    <3>1. CASE s.ms.resigned = 0
      BY <2>1, <3>1, ReplayStands DEF Forgone, Passed
    <3>2. CASE s.ms.resigned # 0
      BY <2>1, <3>2, AskedToAgree
    <3> QED BY <3>1, <3>2
  <2>6. At(s).turn = Gnu => AtTheEnd(s)
    BY <2>1 DEF Duty
  <2>7. n \in 0..3 /\ n # 0
    OBVIOUS
  <2>8. MayTurn(s, s.ms.declined, n, Gnu)
    BY <2>2, <2>5, <2>6, <2>7, HumanIs DEF MayTurn
  <2> QED BY <2>1, <2>4, <2>8, TurnedFine
<1> QED BY <1>1, <1>2, <1>3

\* So are the human's other commands.
LEMMA HumanCommandsFine ==
  ASSUME NEW s, Core(s), Duty(s), s.next = FALSE
  PROVE  /\ Fine(s, CommandDouble(s, FALSE)) /\ Fine(s, CommandRedouble(s, FALSE))
         /\ Fine(s, CommandTake(s, FALSE)) /\ Fine(s, CommandDrop(s, FALSE))
         /\ Fine(s, CommandAgree(s, FALSE)) /\ Fine(s, CommandDecline(s, FALSE))
         /\ Fine(s, CommandAccept(s)) /\ Fine(s, CommandReject(s))
<1>1. Fine(s, s)
  BY SelfFine
<1>2. ASSUME NEW t, t = s \/ Goes(s, t) PROVE Fine(s, t)
  BY <1>1, <1>2, GoesFine
<1>3. /\ CommandRedouble(s, FALSE) = s \/ Goes(s, CommandRedouble(s, FALSE))
      /\ CommandDouble(s, FALSE) = s \/ Goes(s, CommandDouble(s, FALSE))
      /\ CommandTake(s, FALSE) = s \/ Goes(s, CommandTake(s, FALSE))
      /\ CommandDrop(s, FALSE) = s \/ Goes(s, CommandDrop(s, FALSE))
  BY CubeCommandsGo
<1>4. CommandAgree(s, FALSE) = s \/ Goes(s, CommandAgree(s, FALSE))
  BY CommandAgreeGoes
<1>5. /\ Fine(s, CommandDouble(s, FALSE)) /\ Fine(s, CommandRedouble(s, FALSE))
      /\ Fine(s, CommandTake(s, FALSE)) /\ Fine(s, CommandDrop(s, FALSE))
      /\ Fine(s, CommandAgree(s, FALSE))
  BY <1>2, <1>3, <1>4
<1>6. Fine(s, CommandDecline(s, FALSE))
  BY HumanDeclineFine
<1>7. Fine(s, CommandAccept(s))
  BY <1>1, <1>5 DEF CommandAccept
<1>8. Fine(s, CommandReject(s))
  BY <1>1, <1>5, <1>6 DEF CommandReject
<1> QED BY <1>5, <1>6, <1>7, <1>8

---------------------------------------------------------------------------
(* The computer's turn.                                                    *)

\* Asking for the next turn after a record is added.
LEMMA ThenNext ==
  ASSUME NEW s, NEW u, Landed(u), Adds(s, u), NEW t, t = [u EXCEPT !.next = TRUE]
  PROVE  Goes(s, t)
<1>1. Whole(u)
  BY DEF Landed, Core
<1> QED BY <1>1, NextOnly DEF Goes

\* Asking for the next turn after an offer.
LEMMA TurnedThenNext ==
  ASSUME NEW s, NEW u, NEW d, NEW n, NEW p, Turned(s, u, d, n, p),
         NEW t, t = [u EXCEPT !.next = TRUE]
  PROVE  Turned(s, t, d, n, p)
<1>1. Whole(u)
  BY DEF Turned
<1>2. /\ t.ms = u.ms /\ t.lMatch = u.lMatch /\ t.last = u.last /\ t.craw = u.craw
      /\ t.session = u.session /\ t.next = TRUE /\ Whole(t)
  BY <1>1, NextOnly
<1> QED BY <1>2 DEF Turned, Stays

\* Whatever ComputerTurn does is a lawful step of play, and asks for the next turn.
LEMMA ComputerTurnFine ==
  ASSUME NEW s, Core(s), s.ms.gs = "playing", s.ms.turn = Gnu,
         At(s).turn = Gnu => AtTheEnd(s), NEW t \in ComputerTurn(s)
  PROVE  Fine(s, t) /\ t.next = TRUE
<1>1. PICK u : /\ t = [u EXCEPT !.next = TRUE]
               /\ u \in IF s.ms.resigned # 0 THEN AnswerResignation(s)
                        ELSE IF s.ms.doubled THEN AnswerDouble(s)
                        ELSE ConsiderResigning(s) \cup ConsiderDoubling(s) \cup RollAndMove(s)
  BY DEF ComputerTurn
<1>2. ASSUME Goes(s, u) PROVE Fine(s, t) /\ t.next = TRUE
  <2>1. Goes(s, t)
    BY <1>1, <1>2, ThenNext DEF Goes
  <2> QED BY <2>1, GoesFine
<1>3. ASSUME u = s, s.ms.resigned = 0 PROVE Fine(s, t) /\ t.next = TRUE
  <2>1. Whole(s) /\ s.last.g # 0
    BY PlayingInGame DEF Core
  <2>2. /\ Core(t) /\ (AtTheEnd(t) <=> AtTheEnd(s)) /\ t.next = TRUE /\ t.ms = s.ms
        /\ t.lMatch = s.lMatch /\ t.last = s.last /\ t.craw = s.craw /\ t.session = s.session
    BY <1>1, <1>3, <2>1, NextOnly
  <2>3. Duty(t)
    <3>1. At(t) = At(s)
      BY <1>1, <1>3, <2>1, NextOnly
    <3> QED BY <1>3, <2>1, <2>2, <3>1 DEF Duty, Ended
  <2>4. Stays(s, t)
    BY <2>2 DEF Stays
  <2> QED BY <2>2, <2>3, <2>4 DEF Fine, Owes
<1>4. /\ Whole(s) /\ IsState(s.ms) /\ s.ms.resigned \in 0..3 /\ s.ms.declined \in 0..3
  BY TurnIs DEF Core
<1>5. MayAct(s.ms, TRUE)
  BY DEF MayAct
<1>5a. s.ms.resigned = 0 => Duty(s)
  BY PlayingInGame, Kinds DEF Duty, Ended
<1>6. CASE s.ms.resigned # 0
  <2>1. u = CommandAgree(s, TRUE) \/ u = CommandDecline(s, TRUE)
    BY <1>1, <1>6 DEF AnswerResignation
  <2>2. CASE u = CommandAgree(s, TRUE)
    <3>1. CommandAgree(s, TRUE) = Record(s, Rec("resign", Other(s.ms.turn), s.ms.resigned))
      BY <1>5, <1>6 DEF CommandAgree
    <3>2. Goes(s, u)
      BY <1>6, <2>2, <3>1, AgreeGoes
    <3> QED BY <1>2, <3>2
  <2>3. CASE u = CommandDecline(s, TRUE)
    <3>1. u = [s EXCEPT !.ms.declined = s.ms.resigned, !.ms.resigned = 0,
                        !.ms.turn = Other(@), !.next = TRUE]
      BY <1>5, <1>6, <2>3 DEF CommandDecline
    <3>2. Turned(s, u, s.ms.resigned, 0, Other(s.ms.turn))
      BY <1>4, <3>1, DeclineTurns
    <3>3. Turned(s, u, s.ms.resigned, 0, Human)
      BY <3>2, HumanIs
    <3>4. Turned(s, t, s.ms.resigned, 0, Human)
      BY <1>1, <3>3, TurnedThenNext
    <3>5. At(s).turn = Human \/ ~At(s).doubled
      <4>1. Pending(s.ms, At(s), Game(s).recs[1].p)
        BY PlayingInGame DEF InGame
      <4> QED BY <1>6, <4>1, HumanIs DEF Pending, Offer
    <3>6. MayTurn(s, s.ms.resigned, 0, Human)
      BY <1>4, <3>5, HumanIs DEF MayTurn
    <3> QED BY <3>4, <3>6, TurnedFine
  <2> QED BY <2>1, <2>2, <2>3
<1>7. CASE s.ms.resigned = 0 /\ s.ms.doubled
  <2>1. \/ u \in {CommandTake(s, TRUE), CommandDrop(s, TRUE)}
        \/ u = CommandRedouble(s, TRUE)
    BY <1>1, <1>7 DEF AnswerDouble
  <2>2. /\ CommandRedouble(s, TRUE) = s \/ Goes(s, CommandRedouble(s, TRUE))
        /\ CommandTake(s, TRUE) = s \/ Goes(s, CommandTake(s, TRUE))
        /\ CommandDrop(s, TRUE) = s \/ Goes(s, CommandDrop(s, TRUE))
    BY <1>5a, <1>7, CubeCommandsGo
  <2>3. u = s \/ Goes(s, u)
    <3>1. CASE u = CommandTake(s, TRUE)
      BY <2>2, <3>1
    <3>2. CASE u = CommandDrop(s, TRUE)
      BY <2>2, <3>2
    <3>3. CASE u = CommandRedouble(s, TRUE)
      BY <2>2, <3>3
    <3> QED BY <2>1, <3>1, <3>2, <3>3
  <2> QED BY <1>2, <1>3, <1>7, <2>3
<1>8. CASE s.ms.resigned = 0 /\ ~s.ms.doubled
  <2>1. u \in ConsiderResigning(s) \cup ConsiderDoubling(s) \cup RollAndMove(s)
    BY <1>1, <1>8
  <2>2. CASE u \in ConsiderResigning(s)
    <3>1. PICK n \in 1..3 : u = CommandResign(s, n, TRUE)
      BY <2>2 DEF ConsiderResigning
    <3>2. s.ms.declined = 0
      BY <2>2 DEF ConsiderResigning
    <3>3. u = [s EXCEPT !.ms.resigned = n, !.ms.turn = Other(@), !.next = TRUE]
      <4>1. ~(n <= s.ms.declined)
        BY <3>2
      <4> QED BY <1>5, <3>1, <4>1 DEF CommandResign
    <3>4. Turned(s, u, s.ms.declined, n, Other(s.ms.turn))
      BY <1>4, <3>3, ResignTurns
    <3>5. Turned(s, u, 0, n, Human)
      BY <3>2, <3>4, HumanIs
    <3>6. Turned(s, t, 0, n, Human)
      BY <1>1, <3>5, TurnedThenNext
    <3>7. At(s).turn = Gnu /\ ~At(s).doubled
      BY <1>5a, <1>8, ReplayStands, HumanIs DEF AgreeButGs, Forgone
    <3>8. MayTurn(s, 0, n, Human)
      <4>1. n \in 0..3 /\ n # 0 /\ 0 \in 0..3
        OBVIOUS
      <4> QED BY <1>8, <3>7, <4>1, HumanIs DEF MayTurn
    <3> QED BY <3>6, <3>8, TurnedFine
  <2>3. CASE u \in ConsiderDoubling(s)
    <3>1. u = CommandDouble(s, TRUE)
      BY <2>3 DEF ConsiderDoubling
    <3>2. u = s \/ Goes(s, u)
      BY <1>5a, <1>8, <3>1, CubeCommandsGo
    <3> QED BY <1>2, <1>3, <1>8, <3>2
  <2>4. CASE u \in RollAndMove(s)
    <3>1. PICK borne \in 0..1 : u = AddMoveRecord(s, Rec("normal", s.ms.turn, borne))
      BY <2>4 DEF RollAndMove
    <3> DEFINE r == Rec("normal", s.ms.turn, borne)
    <3>2. Legal(Sees(s), r) /\ r.mt = "normal"
      BY <1>5a, <1>8, MoveGoes DEF Rec
    <3> HIDE DEF r
    <3>3. Landed(u) /\ Adds(s, u)
      BY <1>5a, <1>8, <3>1, <3>2, RecordGoes DEF r
    <3>4. Goes(s, t)
      BY <1>1, <3>3, ThenNext
    <3> QED BY <3>4, GoesFine
  <2> QED BY <2>1, <2>2, <2>3, <2>4
<1> QED BY <1>6, <1>7, <1>8

---------------------------------------------------------------------------
(* A new game.                                                             *)

\* A record and a score that another game may follow.
MayBegin(s) ==
    /\ Whole(s) /\ Recorded(s.lMatch) /\ IsState(s.ms)
    /\ s.ms.cGames \in Nat /\ s.ms.nMatchTo \in Nat /\ s.ms.score \in [Players -> Nat]
    /\ s.ms.crawford \in BOOLEAN /\ s.ms.post \in BOOLEAN
    /\ s.craw # <<>> => s.craw[1] \in BOOLEAN

\* t has one game more than s, and its first roll.
Begun(s, t) ==
    /\ Landed(t) /\ t.next = s.next /\ t.craw = s.craw /\ t.session = s.session
    /\ Len(t.lMatch) = Len(s.lMatch) + 1 /\ t.last.g = Len(t.lMatch)
    /\ \A g \in 1..Len(s.lMatch) : t.lMatch[g] = s.lMatch[g]
    /\ t.ms.gs = "playing" /\ t.ms.dice = Open /\ t.ms.doubled = FALSE /\ t.ms.resigned = 0
    /\ t.ms.turn \in Players /\ t.last.k = 1 /\ Game(t).recs[1].mt = "setdice"
    /\ t.ms.nMatchTo = s.ms.nMatchTo /\ t.ms.score = s.ms.score
    /\ t.ms.crawford = NextCrawford(s) /\ \E auto \in Nat : Game(t).info = NextInfo(s, auto)

\* NewGame's first part: an empty game, its info, and the match state reset to it.
LEMMA BeginIs ==
  ASSUME NEW s, Whole(s), IsState(s.ms), Recorded(s.lMatch), NEW info \in Infos, InfoOK(info),
         NEW m, m = Base(info), NEW b, b = Begin(s, info)
  PROVE  /\ MayGoOn(b) /\ Behind(b) = m /\ b.ms = m /\ Game(b).info = info
         /\ b.craw = s.craw /\ b.session = s.session /\ b.next = s.next
         /\ Len(b.lMatch) = Len(s.lMatch) + 1 /\ b.last.g = Len(s.lMatch) + 1 /\ b.last.k = 0
         /\ \A g \in 1..Len(s.lMatch) : b.lMatch[g] = s.lMatch[g]
<1> DEFINE game == [info |-> info, recs |-> <<>>]
           games == Append(s.lMatch, game)
           l == [g |-> Len(s.lMatch) + 1, k |-> 0]
           u == [s EXCEPT !.ms = m]
           v == [u EXCEPT !.lMatch = games]
           w == [v EXCEPT !.last = l]
<1>1. GameUpTo(game, 0) /\ game.info = info
  BY FreshGame
<1>2. game \in Games
  BY <1>1 DEF GameUpTo
<1>3. b = w
  <2>1. ApplyGameInfo(s.ms, info) = m
    BY GameInfoForgets
  <2> QED BY <2>1 DEF Begin, Whole
<1>4. DOMAIN l = {"g", "k"} /\ IsFcn(l) /\ l.k = 0 /\ l.g = Len(s.lMatch) + 1
  BY DEF IsFcn
<1> HIDE DEF game, games, l
<1>5a. /\ w.ms = m /\ w.lMatch = games /\ w.last = l /\ w.next = s.next /\ w.craw = s.craw
       /\ w.session = s.session
  BY DEF Whole
<1>5b. DOMAIN w = {"ms", "lMatch", "last", "next", "craw", "session"} /\ IsFcn(w)
  BY ExceptIsFcn DEF Whole
<1> HIDE DEF w
<1>5. /\ b.ms = m /\ b.lMatch = games /\ b.last = l /\ b.next = s.next /\ b.craw = s.craw
      /\ b.session = s.session /\ Whole(b)
  BY <1>3, <1>4, <1>5a, <1>5b DEF Whole
<1>6. s.lMatch \in Seq(Games) /\ Len(s.lMatch) \in Nat /\ \A g \in 1..Len(s.lMatch) : GameOK(s.lMatch[g])
  BY DEF Recorded
<1>7. /\ games \in Seq(Games) /\ Len(games) = Len(s.lMatch) + 1 /\ games[Len(s.lMatch) + 1] = game
      /\ \A g \in 1..Len(s.lMatch) : games[g] = s.lMatch[g]
  BY <1>2, <1>6, AppendProperties DEF games
<1>8. Game(b) = game
  BY <1>4, <1>5, <1>7 DEF Game
<1>9. Behind(b) = After(game, 0).ms
  BY <1>4, <1>5, <1>8 DEF Behind
<1>10. Behind(b) = m
  BY <1>1, <1>9, AfterUnfolds
<1>11. MayGoOn(b)
  <2>1. b.last.g = Len(s.lMatch) + 1 /\ b.last.k = 0 /\ b.last.g \in 1..Len(games)
    BY <1>4, <1>5, <1>6, <1>7
  <2>2. \A g \in 1..(b.last.g - 1) : GameOK(games[g])
    BY <1>6, <1>7, <2>1
  <2> QED BY <1>1, <1>5, <1>7, <1>8, <2>1, <2>2 DEF MayGoOn
<1> QED BY <1>1, <1>4, <1>5, <1>7, <1>8, <1>10, <1>11

\* NewGame: an empty game with its opening roll, and automatic doubles before it.
LEMMA NewGameBegins ==
  ASSUME NEW s, MayBegin(s), NEW t \in NewGame(s)
  PROVE  Begun(s, t)
<1>1. PICK first \in Players, auto \in {a \in 0..AutoDoubles : s.ms.nMatchTo = 0 /\ Shl[a] <= MaxCube} \cup {0} :
         t = AddMoveRecord(Begin(s, NextInfo(s, auto)), Rec("setdice", first, Open))
  BY DEF NewGame
<1> DEFINE info == NextInfo(s, auto)
           m == Base(info)
           b == Begin(s, info)
           r == Rec("setdice", first, Open)
<1>2. auto \in Nat /\ Shl[auto] <= MaxCube /\ (s.ms.nMatchTo # 0 => auto = 0)
  <2>1. Shl[0] <= MaxCube /\ AutoDoubles \in Nat
    BY MaxCubeIs, ConstantsAssumption
  <2> QED BY <2>1
<1>3. NextCrawford(s) \in BOOLEAN
  BY DEF NextCrawford, MayBegin
<1>4. info \in Infos /\ InfoOK(info)
  <2>1. Nobody \in Who /\ 0 \in Nat
    BY DEF Who
  <2> QED BY <1>2, <1>3, <2>1 DEF NextInfo, Infos, InfoOK, MayBegin
<1>5. info.nMatch = s.ms.nMatchTo /\ info.score = s.ms.score /\ info.crawford = NextCrawford(s)
  BY DEF NextInfo
<1> HIDE DEF info
<1>7. /\ m.gs = "none" /\ m.dice = NoDice /\ IsState(m)
      /\ m.nMatchTo = info.nMatch /\ m.score = info.score /\ m.crawford = info.crawford
  BY DEF Base, IsState, Fields, IsFcn
<1>8. /\ MayGoOn(b) /\ Behind(b) = m /\ b.ms = m /\ Game(b).info = info
      /\ b.craw = s.craw /\ b.session = s.session /\ b.next = s.next
      /\ Len(b.lMatch) = Len(s.lMatch) + 1 /\ b.last.g = Len(s.lMatch) + 1 /\ b.last.k = 0
      /\ \A g \in 1..Len(s.lMatch) : b.lMatch[g] = s.lMatch[g]
  BY <1>4, BeginIs DEF MayBegin, m, b
<1> HIDE DEF b, m
<1>9. r \in Records /\ r.mt = "setdice" /\ r.p = first /\ r.n = Open
  <2>1. Open \in 0..3
    BY Kinds
  <2> QED BY <2>1, RecIs DEF RecordKinds
<1> HIDE DEF r
<1>10. Allowed(Behind(b), r)
  BY <1>7, <1>8, <1>9 DEF Legal, Allowed
<1>11. t = AddMoveRecord(b, r)
  BY <1>1 DEF b, info, r
<1> DEFINE z == FixAndApply(Behind(b), Game(b).info, r)
<1>12. Landed(t) /\ Adds(b, t) /\ t.next = b.next /\ t.ms = z.ms
  <2>1. b.craw # <<>> => b.craw[1] \in BOOLEAN
    BY <1>8 DEF MayBegin
  <2> QED BY <1>8, <1>10, <1>11, <2>1, RecordLands
<1>13. Added(b, t, r, z)
  BY <1>8, <1>10, <1>11, AddMoveRecordAdds
<1>14. Rolled(z, m, info, r)
  BY <1>7, <1>8, <1>9, SetDiceStep
<1> HIDE DEF z
<1>15. /\ t.ms.gs = "playing" /\ t.ms.dice = Open /\ t.ms.doubled = FALSE /\ t.ms.resigned = 0
       /\ t.ms.turn \in Players /\ t.ms.nMatchTo = info.nMatch /\ t.ms.score = info.score
       /\ t.ms.crawford = info.crawford /\ z.info = info
  BY <1>7, <1>9, <1>12, <1>14 DEF Rolled
<1>16. /\ t.last.g = Len(s.lMatch) + 1 /\ Len(t.lMatch) = Len(s.lMatch) + 1
       /\ \A i \in 1..Len(s.lMatch) : t.lMatch[i] = s.lMatch[i]
       /\ Game(t).info = z.info /\ t.craw = s.craw /\ t.session = s.session
  <2>1. Len(s.lMatch) \in Nat
    BY DEF MayBegin, Recorded
  <2>2. b.last.g - 1 = Len(s.lMatch)
    BY <1>8, <2>1
  <2> QED BY <1>8, <1>13, <2>2 DEF Added
<1>17. Game(t).info = NextInfo(s, auto)
  BY <1>15, <1>16 DEF info
<1>18. t.last.k = 1 /\ Game(t).recs[1].mt = "setdice"
  <2>1. t.last.k \in 1..(b.last.k + 1) /\ b.last.k = 0 /\ Game(t).recs[t.last.k] = r
    BY <1>8, <1>13 DEF Added
  <2>2. t.last.k = 1
    BY <2>1
  <2> QED BY <1>9, <2>1, <2>2
<1> QED BY <1>2, <1>5, <1>8, <1>12, <1>15, <1>16, <1>17, <1>18 DEF Begun

\* A new game after s, perhaps with what the computer has recorded in it.
Started(s, t) ==
    /\ Core(t) /\ Duty(t) /\ Owes(t) /\ t.next \in BOOLEAN /\ AtTheEnd(t) /\ t.last.g # 0
    /\ \E b : /\ Begun(s, b)
             /\ \/ t = b /\ b.ms.turn = Human
                \/ b.ms.turn = Gnu /\ Fine(b, t) /\ t \in ComputerTurn(b)

\* StartNewGame: NewGame, and the first turn if it is the computer's.
LEMMA StartNewGameStarts ==
  ASSUME NEW s, MayBegin(s), s.next \in BOOLEAN, NEW t \in StartNewGame(s)
  PROVE  Started(s, t)
<1>1. PICK b \in NewGame(s) : t \in IF b.ms.turn = Human THEN {b} ELSE ComputerTurn(b)
  BY DEF StartNewGame
<1>2. Begun(s, b)
  BY NewGameBegins
<1>3. /\ Landed(b) /\ b.next = s.next /\ b.ms.gs = "playing" /\ b.ms.resigned = 0
      /\ b.ms.turn \in Players
  BY <1>2 DEF Begun
<1>4. Core(b) /\ AtTheEnd(b) /\ b.last.g # 0
  BY <1>3 DEF Landed
<1>5. CASE b.ms.turn = Human
  <2>1. t = b
    BY <1>1, <1>5
  <2>2. Duty(b)
    BY <1>3, <1>4, <1>5, HumanIs DEF Duty, Ended
  <2>3. Owes(t)
    BY <1>5, <2>1, HumanIs DEF Owes
  <2> QED BY <1>2, <1>3, <1>4, <1>5, <2>1, <2>2, <2>3 DEF Started
<1>6. CASE b.ms.turn # Human
  <2>1. b.ms.turn = Gnu /\ t \in ComputerTurn(b)
    BY <1>1, <1>3, <1>6 DEF Players
  <2>2. Fine(b, t) /\ t.next = TRUE
    BY <1>3, <1>4, <2>1, ComputerTurnFine
  <2>3. t.last.g # 0
    <3>1. CASE Adds(b, t)
      BY <1>4, <3>1 DEF Adds, Added
    <3>2. CASE Stays(b, t)
      BY <1>4, <3>2 DEF Stays
    <3> QED BY <2>2, <3>1, <3>2 DEF Fine
  <2> QED BY <1>2, <1>4, <2>1, <2>2, <2>3 DEF Started, Fine, Owes
<1> QED BY <1>5, <1>6

\* The match state of a program just started.
LEMMA BlankIs ==
  /\ IsState(Blank) /\ Blank.gs = "none" /\ Blank.cGames \in Nat /\ Blank.nMatchTo \in Nat
  /\ Blank.score \in [Players -> Nat] /\ Blank.crawford \in BOOLEAN /\ Blank.post \in BOOLEAN
  /\ Blank.resigned = 0
BY DEF Blank, IsState, Fields, IsFcn

\* A game can be begun from any state.
LEMMA CoreMayBegin ==
  ASSUME NEW s, Core(s)
  PROVE  MayBegin(s)
<1>1. Whole(s) /\ Recorded(s.lMatch) /\ (s.craw # <<>> => s.craw[1] \in BOOLEAN)
  BY DEF Core
<1>2. CASE s.last.g = 0
  <2>1. s.ms = Blank
    BY <1>2 DEF Core
  <2> QED BY <1>1, <2>1, BlankIs DEF MayBegin
<1>3. CASE s.last.g # 0
  <2>1. Alongside(s.ms, At(s)) /\ Typed(At(s))
    BY <1>3, CoreInGame DEF InGame, Pending, Sound
  <2> QED BY <1>1, <2>1 DEF MayBegin, Alongside, Typed
<1> QED BY <1>2, <1>3

\* s without the game of the cursor and what lies behind it.
LEMMA PopGameIs ==
  ASSUME NEW s, MayBegin(s), s.last.g \in 1..Len(s.lMatch)
  PROVE  /\ MayBegin(PopGame(s)) /\ PopGame(s).ms = s.ms /\ PopGame(s).next = s.next
         /\ PopGame(s).craw = s.craw /\ PopGame(s).session = s.session
         /\ PopGame(s).lMatch = SubSeq(s.lMatch, 1, s.last.g - 1)
         /\ Len(PopGame(s).lMatch) = s.last.g - 1
         /\ \A g \in 1..(s.last.g - 1) : PopGame(s).lMatch[g] = s.lMatch[g]
<1> DEFINE u == PopGame(s)
           games == SubSeq(s.lMatch, 1, s.last.g - 1)
<1>1. /\ s.lMatch \in Seq(Games) /\ Len(s.lMatch) \in Nat /\ s.last.g - 1 \in 0..Len(s.lMatch)
      /\ \A g \in 1..Len(s.lMatch) : GameOK(s.lMatch[g])
  BY DEF MayBegin, Recorded
<1>2. /\ games \in Seq(Games) /\ Len(games) = s.last.g - 1
      /\ \A g \in 1..(s.last.g - 1) : games[g] = s.lMatch[g]
  BY <1>1, PrefixIs
<1>3. u = [s EXCEPT !.lMatch = games]
  BY DEF PopGame
<1> HIDE DEF games, u
<1>4. /\ u.ms = s.ms /\ u.lMatch = games /\ u.last = s.last /\ u.next = s.next
      /\ u.craw = s.craw /\ u.session = s.session /\ Whole(u)
  BY <1>3, ExceptIsFcn DEF MayBegin, Whole
<1>5. Recorded(games)
  <2>1. \A g \in 1..(s.last.g - 1) : g \in 1..Len(s.lMatch)
    BY <1>1
  <2> QED BY <1>1, <1>2, <2>1 DEF Recorded
<1>6. MayBegin(u)
  BY <1>4, <1>5 DEF MayBegin
<1> QED BY <1>2, <1>4, <1>6 DEF u, games

\* A state no game of the record has been begun from, or one in a game.
Somewhere(s) ==
    \/ s.last.g \in 1..Len(s.lMatch)
    \/ s.ms.gs = "none" /\ s.last.g = 0 /\ s.last.k = 0

\* CommandNewGame: refused when the match is won, else a game begun at the end of the record
\* or in place of the last.
LEMMA CommandNewGameStarts ==
  ASSUME NEW s, MayBegin(s), s.next \in BOOLEAN, Somewhere(s), NEW t \in CommandNewGame(s)
  PROVE  \/ MatchWon(s.ms) /\ t = s
         \/ ~MatchWon(s.ms) /\ s.ms.gs # "playing" /\ move_is_last_in_match(s) /\ Started(s, t)
         \/ /\ ~MatchWon(s.ms) /\ (s.ms.gs = "playing" \/ ~move_is_last_in_match(s))
            /\ s.last.g \in 1..Len(s.lMatch) /\ MayBegin(PopGame(s)) /\ Started(PopGame(s), t)
<1>1. CASE MatchWon(s.ms)
  BY <1>1 DEF CommandNewGame
<1>2. CASE ~MatchWon(s.ms) /\ ~(s.ms.gs = "playing" \/ ~move_is_last_in_match(s))
  <2>1. t \in StartNewGame(s)
    BY <1>2 DEF CommandNewGame
  <2> QED BY <1>2, <2>1, StartNewGameStarts
<1>3. CASE ~MatchWon(s.ms) /\ (s.ms.gs = "playing" \/ ~move_is_last_in_match(s))
  <2>1. t \in StartNewGame(PopGame(s))
    BY <1>3 DEF CommandNewGame
  <2>2. s.last.g \in 1..Len(s.lMatch)
    BY <1>3 DEF Somewhere, move_is_last_in_match
  <2>3. MayBegin(PopGame(s)) /\ PopGame(s).next \in BOOLEAN
    BY <2>2, PopGameIs
  <2>4. Started(PopGame(s), t)
    BY <2>1, <2>3, StartNewGameStarts
  <2> QED BY <1>3, <2>2, <2>3, <2>4
<1> QED BY <1>1, <1>2, <1>3

---------------------------------------------------------------------------
(* A new match or session.                                                 *)

\* The match cleared.
Cleared(s, u, n) ==
    /\ Whole(u) /\ u.lMatch = <<>> /\ u.last.g = 0 /\ u.last.k = 0 /\ u.craw = <<>>
    /\ u.next = s.next /\ u.session = s.session /\ IsState(u.ms) /\ u.ms.gs = "none"
    /\ u.ms.nMatchTo = n /\ u.ms.cGames = 0 /\ u.ms.score = [p \in Players |-> 0]
    /\ u.ms.crawford = FALSE /\ u.ms.post = FALSE

\* ClearMatch leaves nothing of the match but its length.
LEMMA ClearMatchIs ==
  ASSUME NEW s, Whole(s), IsState(s.ms), NEW n
  PROVE  Cleared(s, ClearMatch(s, n), n)
<1> DEFINE zero == [p \in Players |-> 0]
           m == [[[[[[[[s.ms EXCEPT !.nMatchTo = n] EXCEPT !.cGames = 0] EXCEPT !.score = zero]
                    EXCEPT !.move = Nobody] EXCEPT !.turn = Nobody] EXCEPT !.crawford = FALSE]
                    EXCEPT !.post = FALSE] EXCEPT !.gs = "none"]
           l == [g |-> 0, k |-> 0]
           u == [[[[s EXCEPT !.ms = m] EXCEPT !.lMatch = <<>>] EXCEPT !.last = l] EXCEPT !.craw = <<>>]
<1>1. /\ IsState(m) /\ m.gs = "none" /\ m.nMatchTo = n /\ m.cGames = 0 /\ m.score = zero
      /\ m.crawford = FALSE /\ m.post = FALSE
  BY ExceptIsFcn DEF IsState, Fields
<1>2. ClearMatch(s, n) = u
  BY DEF ClearMatch
<1>3. l.g = 0 /\ l.k = 0 /\ DOMAIN l = {"g", "k"} /\ IsFcn(l)
  BY DEF IsFcn
<1> HIDE DEF m, l
<1>4. /\ u.ms = m /\ u.lMatch = <<>> /\ u.last = l /\ u.craw = <<>> /\ u.next = s.next
      /\ u.session = s.session
  BY DEF Whole
<1>5. DOMAIN u = {"ms", "lMatch", "last", "next", "craw", "session"} /\ IsFcn(u)
  BY ExceptIsFcn DEF Whole
<1> HIDE DEF u
<1> QED BY <1>1, <1>2, <1>3, <1>4, <1>5 DEF Cleared, Whole

\* A game can be begun after ClearMatch.
LEMMA ClearedMayBegin ==
  ASSUME NEW s, NEW n \in Nat, NEW u, Cleared(s, u, n)
  PROVE  MayBegin(u) /\ Somewhere(u) /\ ~MatchWon(u.ms) /\ move_is_last_in_match(u)
<1>1. Recorded(<<>>)
  BY DEF Recorded
<1>2. MayBegin(u)
  <2>1. u.ms.score \in [Players -> Nat] /\ u.ms.cGames \in Nat /\ u.ms.nMatchTo \in Nat
    BY DEF Cleared
  <2>2. /\ Whole(u) /\ u.lMatch = <<>> /\ IsState(u.ms) /\ u.craw = <<>>
        /\ u.ms.crawford = FALSE /\ u.ms.post = FALSE
    BY DEF Cleared
  <2> QED BY <1>1, <2>1, <2>2 DEF MayBegin
<1>3. ~MatchWon(u.ms)
  <2>1. \A p \in Players : u.ms.score[p] = 0
    BY DEF Cleared
  <2> QED BY <2>1 DEF MatchWon, Cleared
<1>4. Somewhere(u) /\ move_is_last_in_match(u)
  BY DEF Cleared, Somewhere, move_is_last_in_match
<1> QED BY <1>2, <1>3, <1>4

\* A match, or a session, of length n has begun.
StartedAnew(s, n, t) == \E u : Cleared(s, u, n) /\ Started(u, t)

\* A new match or session clears the match and starts a game.
LEMMA NewMatchOrSessionStarts ==
  ASSUME NEW s, Whole(s), IsState(s.ms), s.next \in BOOLEAN, NEW n \in Nat,
         NEW t \in NewMatchOrSession(s, n)
  PROVE  StartedAnew(s, n, t)
<1> DEFINE u == ClearMatch(s, n)
<1>1. Cleared(s, u, n)
  BY ClearMatchIs
<1>2. t \in CommandNewGame(u)
  BY DEF NewMatchOrSession
<1> HIDE DEF u
<1>3. MayBegin(u) /\ Somewhere(u) /\ ~MatchWon(u.ms) /\ move_is_last_in_match(u)
  BY <1>1, ClearedMayBegin
<1>4. u.next \in BOOLEAN /\ u.ms.gs # "playing"
  BY <1>1 DEF Cleared
<1>5. Started(u, t)
  BY <1>2, <1>3, <1>4, CommandNewGameStarts
<1> QED BY <1>1, <1>5 DEF StartedAnew

\* CommandNewMatch does as well, fNextTurn being what it was.
LEMMA CommandNewMatchStarts ==
  ASSUME NEW s, Whole(s), IsState(s.ms), s.next \in BOOLEAN, NEW n \in Nat,
         NEW t \in CommandNewMatch(s, n)
  PROVE  \E q : q.next = s.next /\ StartedAnew(q, n, t)
<1> DEFINE q == IF n = 0 THEN [s EXCEPT !.session = 0] ELSE s
<1>1. t \in NewMatchOrSession(q, n)
  BY DEF CommandNewMatch
<1>2. Whole(q) /\ q.ms = s.ms /\ q.next = s.next
  <2>1. CASE n = 0
    <3> DEFINE v == [s EXCEPT !.session = 0]
    <3>1. v.ms = s.ms /\ v.next = s.next /\ v.last = s.last
      BY DEF Whole
    <3>2. DOMAIN v = DOMAIN s /\ IsFcn(v)
      BY ExceptIsFcn
    <3> HIDE DEF v
    <3>3. Whole(v)
      BY <3>1, <3>2 DEF Whole
    <3> QED BY <2>1, <3>1, <3>3 DEF v
  <2>2. CASE n # 0
    BY <2>2
  <2> QED BY <2>1, <2>2
<1> HIDE DEF q
<1>3. StartedAnew(q, n, t)
  BY <1>1, <1>2, NewMatchOrSessionStarts
<1> QED BY <1>2, <1>3

\* gnubg_mobile_start_match: the game it begins first gives way to another, or is over.
LEMMA StartMatchStarts ==
  ASSUME NEW s, Whole(s), IsState(s.ms), s.next \in BOOLEAN, NEW n \in Nat,
         NEW u \in CommandNewMatch(s, n), NEW t \in CommandNewGame(u)
  PROVE  /\ \E q : q.next = s.next /\ StartedAnew(q, n, u)
         /\ \/ MatchWon(u.ms) /\ t = u
            \/ ~MatchWon(u.ms) /\ u.ms.gs # "playing" /\ Started(u, t)
            \/ u.last.g \in 1..Len(u.lMatch) /\ MayBegin(PopGame(u)) /\ Started(PopGame(u), t)
<1>1. \E q : q.next = s.next /\ StartedAnew(q, n, u)
  BY CommandNewMatchStarts
<1>2. Core(u) /\ u.next \in BOOLEAN /\ u.last.g # 0
  BY <1>1 DEF StartedAnew, Started
<1>3. MayBegin(u) /\ Somewhere(u)
  BY <1>2, CoreMayBegin, CoreInGame DEF InGame, Somewhere
<1> QED BY <1>1, <1>2, <1>3, CommandNewGameStarts

\* A game started has the invariant.
LEMMA StartedIs ==
  ASSUME NEW s, NEW t, Started(s, t)
  PROVE  Core(t) /\ Duty(t) /\ Owes(t) /\ t.next \in BOOLEAN /\ AtTheEnd(t) /\ t.last.g # 0
BY DEF Started

---------------------------------------------------------------------------
(* NextTurn.                                                               *)

\* A game that is over has a player with no men left.
LEMMA OverIs ==
  ASSUME NEW game, NEW k \in Nat, GameUpTo(game, k), After(game, k).ms.gs = "over"
  PROVE  GameStatus(After(game, k).ms.board) # 0
<1> DEFINE q == game.recs[k]
           m == After(game, k).ms
<1>1. FactsAt(game, k) /\ k \in 0..Len(game.recs)
  BY DEF GameUpTo
<1>2. k > 0 /\ Ends(m, game.recs, k) /\ Boards(m, game.recs, k) /\ Sound(m) /\ m.gs = "over"
  BY <1>1 DEF FactsAt, Facts
<1>3. q.mt \notin {"drop", "resign"}
  <2> DEFINE b == After(game, k - 1).ms
  <2>1. Allowed(b, q) /\ FactsAt(game, k - 1) /\ (k - 1) + 1 = k /\ k - 1 \in Nat
    BY <1>2 DEF GameUpTo
  <2>2. After(game, k) = FixAndApply(b, game.info, q)
    <3>1. After(game, k - 1).info = game.info
      BY <2>1 DEF FactsAt
    <3>2. After(game, (k - 1) + 1) = FixAndApply(After(game, k - 1).ms, After(game, k - 1).info, game.recs[(k - 1) + 1])
      BY <2>1, AfterUnfolds
    <3> QED BY <2>1, <3>1, <3>2
  <2>3. IsState(b) /\ q \in Records
    BY <2>1, AllowedIs DEF FactsAt, Facts, Sound, Typed
  <2> HIDE DEF b, q
  <2>4. ASSUME q.mt = "drop" PROVE FALSE
    <3>1. b.doubled
      BY <2>1, <2>4 DEF Legal, Allowed
    <3>2. Dropped(After(game, k), b, game.info, q)
      BY <2>2, <2>3, <2>4, <3>1, DropStep
    <3> QED BY <1>2, <3>2 DEF Dropped
  <2>5. ASSUME q.mt = "resign" PROVE FALSE
    <3>1. Resigned(After(game, k), b, game.info, q)
      BY <2>2, <2>3, <2>5, ResignStep
    <3> QED BY <1>2, <3>1 DEF Resigned
  <2> QED BY <2>4, <2>5
<1>4. PICK p \in Players : BorneOff(game.recs, k, p) = Men
  BY <1>2, <1>3, Kinds DEF Ends
<1>5. m.board[IF p = m.move THEN 1 ELSE 0] = 0
  <2>1. m.board[IF p = m.move THEN 1 ELSE 0] = Men - BorneOff(game.recs, k, p)
    BY <1>2 DEF Boards
  <2> QED BY <1>4, <2>1, MaxCubeIs
<1>6. (IF p = m.move THEN 1 ELSE 0) \in Players
  BY OtherPlayer
<1> HIDE DEF m
<1>7. ~ \A i \in Players : m.board[i] > 0
  BY <1>5, <1>6
<1> QED BY <1>7 DEF GameStatus, m

\* Between games is as GameHasEnded says.
LEMMA EndedIs ==
  ASSUME NEW s, Core(s), s.ms.gs # "none"
  PROVE  /\ GameHasEnded(s.ms) <=> s.ms.gs \in Ended
         /\ s.ms.gs \in {"playing"} \cup Ended
<1>1. InGame(s)
  BY PlayingInGame
<1> DEFINE a == At(s)
<1>2. /\ GameUpTo(Game(s), s.last.k) /\ s.last.k \in Nat /\ Sound(a) /\ a.gs = s.ms.gs
      /\ Placed(s.ms, a) /\ a.board \in [Players -> 0..Men]
  BY <1>1 DEF InGame, Pending, Alongside, Sound, Typed
<1>3. s.ms.gs = "over" => GameStatus(s.ms.board) # 0
  <2>1. ASSUME s.ms.gs = "over" PROVE a = After(Game(s), s.last.k).ms
    <3>1. CASE Skips(s)
      <4>1. IsState(Behind(s)) /\ Behind(s).gs = "playing" /\ a = Facing(Behind(s))
        BY <1>1, <3>1 DEF InGame, FactsAt, Facts, Behind, Sound, Typed, Skips, Skipped, Passed, At
      <4>2. a.gs = "playing"
        BY <4>1 DEF Facing, IsState, Fields
      <4> QED BY <1>2, <2>1, <4>2
    <3>2. CASE ~Skips(s)
      BY <3>2 DEF At, Behind
    <3> QED BY <3>1, <3>2
  <2>2. ASSUME s.ms.gs = "over" PROVE ~ \A i \in Players : a.board[i] > 0
    <3>1. GameStatus(a.board) # 0
      BY <1>2, <2>1, <2>2, OverIs
    <3> QED BY <3>1 DEF GameStatus
  <2> HIDE DEF a
  <2>3. /\ SwapSides(a.board)[0] = a.board[1] /\ SwapSides(a.board)[1] = a.board[0]
        /\ Players = {0, 1}
    BY DEF SwapSides, Players, Human, Gnu
  <2>4. ASSUME s.ms.gs = "over" PROVE ~ \A i \in Players : s.ms.board[i] > 0
    BY <1>2, <2>2, <2>3, <2>4 DEF Placed
  <2>5. ASSUME NEW B, ~ \A i \in Players : B[i] > 0 PROVE GameStatus(B) # 0
    BY <2>5 DEF GameStatus
  <2> QED BY <2>4, <2>5
<1>4. s.ms.gs = "playing" => GameStatus(s.ms.board) = 0
  BY <1>2, Kinds DEF Sound, GameStatus, Placed
<1>5. s.ms.gs \in {"playing"} \cup Ended
  BY <1>2 DEF Sound, Typed
<1> QED BY <1>3, <1>4, <1>5, Kinds DEF GameHasEnded

\* e is s at the end of its game, ready for the next.
EndCrawford(s) ==
    LET w == Game(s).info.winner
        post == s.ms.post \/ (s.ms.crawford /\ s.ms.score[w] < s.ms.nMatchTo)
    IN  /\ ~post /\ ~s.ms.crawford
        /\ s.ms.score[w] = s.ms.nMatchTo - 1 /\ s.ms.score[Other(w)] # s.ms.nMatchTo - 1

\* What NextTurn makes of the state at the end of a game.
EndsIn(s, e) ==
    /\ Whole(e) /\ e.lMatch = s.lMatch /\ e.last = s.last /\ e.session = s.session /\ e.next = s.next
    /\ IsState(e.ms) /\ e.ms.gs = s.ms.gs /\ e.ms.turn = s.ms.turn /\ e.ms.move = s.ms.move
    /\ e.ms.dice = s.ms.dice /\ e.ms.doubled = s.ms.doubled /\ e.ms.resigned = s.ms.resigned
    /\ e.ms.declined = s.ms.declined /\ e.ms.cube = s.ms.cube /\ e.ms.owner = s.ms.owner
    /\ e.ms.beavers = s.ms.beavers /\ e.ms.score = s.ms.score /\ e.ms.cGames = s.ms.cGames
    /\ e.ms.nMatchTo = s.ms.nMatchTo /\ e.ms.board = s.ms.board
    /\ e.ms.crawford \in BOOLEAN /\ e.ms.post \in BOOLEAN
    /\ e.ms.crawford = IF s.ms.nMatchTo = 0 THEN s.ms.crawford ELSE EndCrawford(s)
    /\ e.craw # <<>> /\ e.craw[1] = e.ms.crawford

\* NextTurn at the end of a game: the turn is nobody's, the score and the Crawford state are
\* brought up to date.
LEMMA EndOfGameIs ==
  ASSUME NEW s, Whole(s), IsState(s.ms), s.ms.crawford \in BOOLEAN, s.ms.post \in BOOLEAN
  PROVE  EndsIn(s, EndOfGame(s))
<1> DEFINE w == Game(s).info.winner
           post == s.ms.post \/ (s.ms.crawford /\ s.ms.score[w] < s.ms.nMatchTo)
           m == [[s.ms EXCEPT !.post = post] EXCEPT !.crawford = EndCrawford(s)]
           n == IF s.ms.nMatchTo = 0 THEN s.ms ELSE m
           e == EndOfGame(s)
           c == <<n.crawford, n.post>>
           u == [[s EXCEPT !.ms = n] EXCEPT !.craw = c]
<1>1. post \in BOOLEAN /\ EndCrawford(s) \in BOOLEAN
  <2>1. post \in BOOLEAN
    OBVIOUS
  <2>2. EndCrawford(s) \in BOOLEAN
    BY DEF EndCrawford
  <2> QED BY <2>1, <2>2
<1>2. e = u
  <2>1. CASE s.ms.nMatchTo = 0
    <3>1. e = [s EXCEPT !.craw = <<s.ms.crawford, s.ms.post>>]
      BY <2>1 DEF EndOfGame
    <3>2. n = s.ms
      BY <2>1
    <3>3. [s EXCEPT !.ms = s.ms] = s
      BY DEF Whole, IsFcn
    <3> QED BY <3>1, <3>2, <3>3
  <2>2. CASE s.ms.nMatchTo # 0
    <3> DEFINE t == [s EXCEPT !.ms.post = post, !.ms.crawford = EndCrawford(s)]
    <3>1. e = [t EXCEPT !.craw = <<t.ms.crawford, t.ms.post>>]
      BY <2>2 DEF EndOfGame, EndCrawford, Game
    <3>2. n = m
      BY <2>2
    <3> HIDE DEF post
    <3>3. t = [s EXCEPT !.ms = m] /\ t.ms = m
      BY DEF Whole
    <3> HIDE DEF t
    <3> QED BY <3>1, <3>2, <3>3
  <2> QED BY <2>1, <2>2
<1> HIDE DEF post
<1>3. /\ IsState(n) /\ n.gs = s.ms.gs /\ n.turn = s.ms.turn /\ n.move = s.ms.move
      /\ n.dice = s.ms.dice /\ n.doubled = s.ms.doubled /\ n.resigned = s.ms.resigned
      /\ n.declined = s.ms.declined /\ n.cube = s.ms.cube /\ n.owner = s.ms.owner
      /\ n.beavers = s.ms.beavers /\ n.score = s.ms.score /\ n.cGames = s.ms.cGames
      /\ n.nMatchTo = s.ms.nMatchTo /\ n.board = s.ms.board
      /\ n.crawford = (IF s.ms.nMatchTo = 0 THEN s.ms.crawford ELSE EndCrawford(s))
      /\ n.post = (IF s.ms.nMatchTo = 0 THEN s.ms.post ELSE post)
  <2>1. CASE s.ms.nMatchTo = 0
    BY <2>1
  <2>2. CASE s.ms.nMatchTo # 0
    <3>1. /\ IsState(m) /\ m.gs = s.ms.gs /\ m.turn = s.ms.turn /\ m.move = s.ms.move
          /\ m.dice = s.ms.dice /\ m.doubled = s.ms.doubled /\ m.resigned = s.ms.resigned
          /\ m.declined = s.ms.declined /\ m.cube = s.ms.cube /\ m.owner = s.ms.owner
          /\ m.beavers = s.ms.beavers /\ m.score = s.ms.score /\ m.cGames = s.ms.cGames
          /\ m.nMatchTo = s.ms.nMatchTo /\ m.board = s.ms.board
          /\ m.crawford = EndCrawford(s) /\ m.post = post
      BY ExceptIsFcn DEF IsState, Fields
    <3> HIDE DEF m
    <3> QED BY <2>2, <3>1
  <2> QED BY <2>1, <2>2
<1> HIDE DEF n
<1>4. n.crawford \in BOOLEAN /\ n.post \in BOOLEAN
  <2>1. CASE s.ms.nMatchTo = 0
    BY <1>3, <2>1
  <2>2. CASE s.ms.nMatchTo # 0
    BY <1>1, <1>3, <2>2
  <2> QED BY <2>1, <2>2
<1>5. c # <<>> /\ c[1] = n.crawford
  OBVIOUS
<1> HIDE DEF c, e
<1>6. /\ u.ms = n /\ u.lMatch = s.lMatch /\ u.last = s.last /\ u.craw = c
      /\ u.session = s.session /\ u.next = s.next
  BY DEF Whole
<1>7. DOMAIN u = {"ms", "lMatch", "last", "next", "craw", "session"} /\ IsFcn(u)
  BY ExceptIsFcn DEF Whole
<1> HIDE DEF u
<1>8. EndsIn(s, u)
  BY <1>3, <1>4, <1>5, <1>6, <1>7 DEF EndsIn, Whole
<1> QED BY <1>2, <1>8 DEF e

\* A match that has been won, or a session at its length, stays at the end of its last game.
LEMMA EndsInFine ==
  ASSUME NEW s, Core(s), s.ms.gs \in Ended, AtTheEnd(s), s.next = FALSE, NEW e, EndsIn(s, e)
  PROVE  Core(e) /\ Duty(e) /\ AtTheEnd(e) /\ e.next = FALSE /\ MayBegin(e)
<1>1. Pending(s.ms, At(s), Game(s).recs[1].p) /\ s.last.g # 0
  BY PlayingInGame, Kinds DEF InGame
<1>2. /\ Whole(e) /\ e.lMatch = s.lMatch /\ e.last = s.last /\ e.ms.gs = s.ms.gs /\ e.next = FALSE
      /\ e.craw # <<>> /\ e.craw[1] \in BOOLEAN
  BY DEF EndsIn
<1>3. Game(e) = Game(s)
  BY <1>2 DEF Game
<1>4. At(e) = At(s) /\ AtTheEnd(e)
  BY <1>2, <1>3 DEF At, Behind, Skips, AtTheEnd
<1>5. Alongside(e.ms, At(s))
  BY <1>1 DEF EndsIn, Pending, Alongside, Placed
<1>6. Pending(e.ms, At(e), Game(e).recs[1].p)
  BY <1>1, <1>4, <1>5, Kinds DEF Pending, EndsIn
<1>7. Core(e)
  BY <1>1, <1>2, <1>3, <1>6 DEF Core
<1>8. Duty(e)
  BY <1>2, <1>4, Kinds DEF Duty
<1> QED BY <1>2, <1>4, <1>7, <1>8, CoreMayBegin

\* What NextTurn does first, the reset of fNextTurn, is of no account to the step.
LEMMA FineBefore ==
  ASSUME NEW n, Whole(n), n.ms.gs = "playing", NEW b, NEW s, s = [n EXCEPT !.next = b],
         NEW t, Fine(s, t), Owes(t)
  PROVE  Fine(n, t)
<1>1. /\ s.ms = n.ms /\ s.lMatch = n.lMatch /\ s.last = n.last /\ s.craw = n.craw
      /\ s.session = n.session /\ Game(s) = Game(n) /\ Behind(s) = Behind(n)
      /\ (AtTheEnd(s) <=> AtTheEnd(n))
  BY NextOnly
<1>2. \A r, z : Added(s, t, r, z) => Added(n, t, r, z)
  BY <1>1 DEF Added
<1>3. Adds(s, t) => Adds(n, t)
  BY <1>1, <1>2 DEF Adds
<1>4. Stays(s, t) => Stays(n, t)
  BY <1>1 DEF Stays
<1>5. t.ms.gs \in Ended => t.next = TRUE
  BY <1>1, Kinds DEF Fine
<1> QED BY <1>1, <1>3, <1>4, <1>5 DEF Fine

\* NextTurn: a turn of play, or a game closed and, unless the match is won, the next one
\* started.
LEMMA NextTurnSteps ==
  ASSUME NEW n, Core(n), Duty(n), n.next = TRUE, NEW s, s = [n EXCEPT !.next = FALSE],
         NEW t \in NextTurns(s)
  PROVE  \/ n.ms.gs = "playing" /\ Fine(n, t)
         \/ /\ n.ms.gs \in Ended /\ AtTheEnd(n) /\ EndsIn(s, EndOfGame(s))
            /\ Core(EndOfGame(s)) /\ Duty(EndOfGame(s)) /\ AtTheEnd(EndOfGame(s))
            /\ MayBegin(EndOfGame(s))
            /\ \/ t = EndOfGame(s) /\ t.next = FALSE /\ (MatchWon(s.ms) \/ s.ms.nMatchTo = 0)
               \/ ~MatchWon(s.ms) /\ Started(EndOfGame(s), t)
<1>1. /\ s.ms = n.ms /\ s.lMatch = n.lMatch /\ s.last = n.last /\ s.craw = n.craw
      /\ s.session = n.session /\ s.next = FALSE /\ Whole(s) /\ Game(s) = Game(n) /\ At(s) = At(n)
      /\ (AtTheEnd(s) <=> AtTheEnd(n)) /\ Core(s) /\ Whole(n)
  <2>1. Whole(n)
    BY DEF Core
  <2> QED BY <2>1, NextOnly
<1>2. n.last.g # 0 /\ n.ms.gs # "none"
  BY DEF Duty
<1>3. (GameHasEnded(s.ms) <=> n.ms.gs \in Ended) /\ n.ms.gs \in {"playing"} \cup Ended
  BY <1>1, <1>2, EndedIs
<1>4. CASE n.ms.gs = "playing"
  <2>1. ~GameHasEnded(s.ms)
    BY <1>3, <1>4, Kinds
  <2>2. t \in IF s.ms.turn = Human THEN {s} ELSE ComputerTurn(s)
    BY <2>1 DEF NextTurns
  <2>3. s.ms.turn \in Players
    BY <1>1, <1>4, TurnIs
  <2>4. At(s).turn = Gnu => AtTheEnd(s)
    BY <1>1, <1>4 DEF Duty
  <2>5. CASE s.ms.turn = Human
    <3>1. t = s /\ Owes(t)
      BY <2>2, <2>5, HumanIs DEF Owes
    <3>2. Duty(s)
      BY <1>1, <1>2, <1>4, <2>4, <2>5, HumanIs DEF Duty
    <3>3. Fine(s, t)
      BY <1>1, <3>1, <3>2, SelfFine
    <3> QED BY <1>1, <1>4, <3>1, <3>3, FineBefore
  <2>6. CASE s.ms.turn # Human
    <3>1. s.ms.turn = Gnu /\ t \in ComputerTurn(s)
      BY <2>2, <2>3, <2>6 DEF Players
    <3>2. Fine(s, t) /\ t.next = TRUE
      BY <1>1, <1>4, <2>4, <3>1, ComputerTurnFine
    <3>3. Owes(t)
      BY <3>2 DEF Owes
    <3> QED BY <1>1, <1>4, <3>2, <3>3, FineBefore
  <2> QED BY <2>5, <2>6
<1>5. CASE n.ms.gs \in Ended
  <2> DEFINE e == EndOfGame(s)
  <2>1. AtTheEnd(n) /\ AtTheEnd(s)
    BY <1>1, <1>5 DEF Duty
  <2>2. EndsIn(s, e)
    <3>1. IsState(s.ms) /\ s.ms.crawford \in BOOLEAN /\ s.ms.post \in BOOLEAN
      BY <1>1, CoreMayBegin DEF MayBegin
    <3> QED BY <1>1, <3>1, EndOfGameIs
  <2> HIDE DEF e
  <2>3. Core(e) /\ Duty(e) /\ AtTheEnd(e) /\ e.next = FALSE /\ MayBegin(e)
    BY <1>1, <1>5, <2>1, <2>2, EndsInFine
  <2>4. t \in (IF MatchWon(s.ms) \/ (s.ms.nMatchTo = 0 /\ s.session # 0 /\ s.ms.cGames >= s.session)
                THEN {e} ELSE StartNewGame(e))
    BY <1>3, <1>5 DEF NextTurns, StartNewGame, e
  <2>5. CASE MatchWon(s.ms) \/ (s.ms.nMatchTo = 0 /\ s.session # 0 /\ s.ms.cGames >= s.session)
    BY <1>5, <2>1, <2>2, <2>3, <2>4, <2>5 DEF e
  <2>6. CASE ~(MatchWon(s.ms) \/ (s.ms.nMatchTo = 0 /\ s.session # 0 /\ s.ms.cGames >= s.session))
    <3>1. Started(e, t)
      BY <2>3, <2>4, <2>6, StartNewGameStarts
    <3> QED BY <1>5, <2>1, <2>2, <2>3, <2>6, <3>1 DEF e
  <2> QED BY <2>5, <2>6
<1> QED BY <1>3, <1>4, <1>5

---------------------------------------------------------------------------
(* Walks through the record.                                               *)

\* t is s with the cursor elsewhere in the record.
Elsewhere(s, t) ==
    /\ Whole(t) /\ t.lMatch = s.lMatch /\ t.next = FALSE /\ t.craw = s.craw /\ t.session = s.session
    /\ t.last.g \in 1..Len(t.lMatch) /\ t.last.k \in 0..Len(Game(t).recs)
    /\ Pending(t.ms, At(t), Game(t).recs[1].p)
    /\ t.ms.gs = "playing" => t.ms.resigned = 0 /\ t.ms.turn = At(t).turn

\* A walk through the record keeps the core of the invariant and the duties of NextTurn.
LEMMA ElsewhereFine ==
  ASSUME NEW s, Core(s), NEW t, Elsewhere(s, t)
  PROVE  Core(t) /\ Duty(t)
<1>1. /\ Whole(t) /\ t.lMatch = s.lMatch /\ t.next = FALSE /\ t.craw = s.craw
      /\ t.last.g \in 1..Len(t.lMatch) /\ t.last.k \in 0..Len(Game(t).recs)
      /\ Pending(t.ms, At(t), Game(t).recs[1].p)
      /\ (t.ms.gs = "playing" => t.ms.resigned = 0 /\ t.ms.turn = At(t).turn)
  BY DEF Elsewhere
<1>2. Len(t.lMatch) \in Nat /\ t.last.g \in 0..Len(t.lMatch) /\ t.last.g # 0
  <2>1. Len(t.lMatch) \in Nat
    BY <1>1 DEF Core, Recorded
  <2> QED BY <1>1, <2>1
<1>3. Game(t).recs \in Seq(Records)
  <2>1. Recorded(t.lMatch)
    BY <1>1 DEF Core
  <2> QED BY <1>1, <1>2, <2>1 DEF Recorded, Game, GameOK, GameUpTo, Games
<1>4. t.last.k \in Nat /\ t.last.k <= Len(Game(t).recs)
  BY <1>1, <1>3
<1>5. Core(t)
  BY <1>1, <1>2, <1>4 DEF Core
<1>6. Duty(t)
  BY <1>1, HumanIs DEF Duty
<1> QED BY <1>5, <1>6

\* A game's info stored again is the info it has.
LEMMA InfoStays ==
  ASSUME NEW games \in Seq(Games), NEW g \in 1..Len(games), NEW info, info = games[g].info
  PROVE  [games EXCEPT ![g].info = info] = games
<1>1. games[g] \in Games
  OBVIOUS
<1> DEFINE game == games[g]
           same == [game EXCEPT !.info = info]
<1>2. same = game
  BY <1>1 DEF Games
<1>3. [games EXCEPT ![g].info = info] = [games EXCEPT ![g] = same]
  OBVIOUS
<1>4. [games EXCEPT ![g] = game] = games
  <2>1. games = [i \in 1..Len(games) |-> games[i]]
    OBVIOUS
  <2> QED BY <2>1
<1> HIDE DEF same
<1> QED BY <1>2, <1>3, <1>4

\* A later record has nothing missing before it but a turn that gnubg has forgone.
LEMMA NothingMissing ==
  ASSUME NEW game, GameOK(game), NEW k \in Nat, k > 0, k + 1 \in 1..Len(game.recs),
         NEW m, m = After(game, k).ms, NEW r, r = game.recs[k + 1]
  PROVE  /\ FixMatchState(m, r) = IF Skipped(m, r) THEN Facing(m) ELSE m
         /\ m.gs = "playing" /\ IsState(m) /\ Allowed(m, r)
<1>1. GameUpTo(game, Len(game.recs)) /\ Len(game.recs) \in Nat
  BY DEF GameOK, GameUpTo, Games
<1>2. k \in 0..Len(game.recs) /\ (k + 1) - 1 = k
  BY <1>1
<1>3. Allowed(m, r) /\ FactsAt(game, k)
  <2>1. Allowed(After(game, (k + 1) - 1).ms, game.recs[k + 1])
    BY <1>1 DEF GameUpTo
  <2> QED BY <1>1, <1>2, <2>1 DEF GameUpTo
<1>4. m.gs = "playing" /\ IsState(m)
  BY <1>3, AllowedIs DEF FactsAt, Facts, Sound, Typed
<1>5. CASE Legal(m, r)
  <2>1. r.mt \in {"normal", "double"} => m.turn = r.p
    BY <1>4, <1>5 DEF Legal
  <2> QED BY <1>3, <1>4, <2>1, HumanIs DEF FixMatchState, Skipped, Passed
<1>6. CASE ~Legal(m, r)
  BY <1>3, <1>4, <1>6, HumanIs DEF Allowed, FixMatchState, Skipped, Passed, Facing
<1> QED BY <1>5, <1>6

\* Before the first record, whoever makes it may already be on turn.
LEMMA FirstIsMissing ==
  ASSUME NEW game, GameOK(game), NEW m,
         \/ m = Base(game.info)
         \/ m = FixMatchState(Base(game.info), game.recs[1])
         \/ m = [Base(game.info) EXCEPT !.board = SwapSides(@), !.turn = game.recs[1].p,
                                        !.move = game.recs[1].p]
  PROVE  Pending(m, After(game, 0).ms, game.recs[1].p) /\ m.gs = "none"
<1> DEFINE b == Base(game.info)
           p == game.recs[1].p
           u == [b EXCEPT !.board = SwapSides(@), !.turn = p, !.move = p]
           v == [b EXCEPT !.board = SwapSides(@), !.move = p, !.turn = p]
<1>1. /\ game.info \in Infos /\ game.recs \in Seq(Records) /\ game.recs # <<>>
  BY DEF GameOK, GameUpTo, Games
<1>2. p \in Players
  <2>1. Len(game.recs) \in Nat /\ Len(game.recs) # 0
    BY <1>1, EmptySeq
  <2>2. game.recs[1] \in Records
    BY <1>1, <2>1, ElementOfSeq
  <2> QED BY <2>2 DEF Records
<1>3. /\ IsState(b) /\ b.gs = "none" /\ b.turn = Nobody /\ b.move = Nobody /\ b.resigned = 0
      /\ b.declined = 0 /\ b.board = FullBoard /\ b.crawford \in BOOLEAN /\ b.post \in BOOLEAN
  <2>1. game.info.crawford \in BOOLEAN
    BY <1>1 DEF Infos
  <2> QED BY <2>1 DEF Base, IsState, Fields, IsFcn
<1> HIDE DEF b
<1>4. /\ IsState(u) /\ u.gs = "none" /\ u.turn = p /\ u.move = p /\ u.resigned = 0
      /\ u.declined = 0 /\ u.board = FullBoard /\ u.crawford = b.crawford /\ u.post = b.post
      /\ u.dice = b.dice /\ u.doubled = b.doubled /\ u.cube = b.cube /\ u.owner = b.owner
      /\ u.beavers = b.beavers /\ u.score = b.score /\ u.cGames = b.cGames /\ u.nMatchTo = b.nMatchTo
  BY <1>3, ExceptIsFcn, FullBoardSwaps DEF IsState, Fields
<1>5. /\ IsState(v) /\ v.gs = "none" /\ v.turn = p /\ v.move = p /\ v.resigned = 0
      /\ v.declined = 0 /\ v.board = FullBoard /\ v.crawford = b.crawford /\ v.post = b.post
      /\ v.dice = b.dice /\ v.doubled = b.doubled /\ v.cube = b.cube /\ v.owner = b.owner
      /\ v.beavers = b.beavers /\ v.score = b.score /\ v.cGames = b.cGames /\ v.nMatchTo = b.nMatchTo
  BY <1>3, ExceptIsFcn, FullBoardSwaps DEF IsState, Fields
<1>6. m = b \/ m = u \/ m = v
  BY DEF FixMatchState, b
<1> HIDE DEF u, v, p
<1>7. m = b \/ (m.turn = p /\ m.move = p)
  BY <1>4, <1>5, <1>6
<1>8. /\ IsState(m) /\ m.gs = "none" /\ m.resigned = 0
      /\ m.declined = 0 /\ m.board = b.board /\ m.crawford = b.crawford /\ m.post = b.post
      /\ m.dice = b.dice /\ m.doubled = b.doubled /\ m.cube = b.cube /\ m.owner = b.owner
      /\ m.beavers = b.beavers /\ m.score = b.score /\ m.cGames = b.cGames /\ m.nMatchTo = b.nMatchTo
  BY <1>3, <1>4, <1>5, <1>6
<1>9. m.turn = m.move /\ m.turn \in {Nobody, p}
  BY <1>3, <1>7
<1>10. After(game, 0).ms = b
  BY AfterUnfolds DEF b
<1>11. Alongside(m, b)
  BY <1>3, <1>8, Kinds DEF Alongside, Placed
<1> QED BY <1>8, <1>9, <1>10, <1>11, Kinds DEF Pending, Waiting, p

\* The record at the cursor leaves what the replay leaves.
LEMMA RecordApplies ==
  ASSUME NEW s, Core(s), Duty(s), s.ms.resigned = 0, s.last.g # 0, s.last.k + 1 \in 1..Len(Game(s).recs)
  PROVE  FixAndApply(s.ms, Game(s).info, Game(s).recs[s.last.k + 1]) = After(Game(s), s.last.k + 1)
<1> DEFINE game == Game(s)
           info == game.info
           k == s.last.k
           r == game.recs[k + 1]
           a == s.ms
           b == Behind(s)
           y == FixAndApply(a, info, r)
           z == FixAndApply(b, info, r)
<1>1. /\ GameOK(game) /\ FactsAt(game, k) /\ Pending(a, At(s), game.recs[1].p) /\ k \in Nat
      /\ b = After(game, k).ms
  BY CoreInGame DEF InGame, Behind
<1>2. Allowed(b, r)
  <2>1. (k + 1) - 1 = k
    BY <1>1
  <2> QED BY <1>1, <2>1 DEF GameOK, GameUpTo
<1>3. After(game, k + 1) = z
  <2>1. After(game, k).info = info
    BY <1>1 DEF FactsAt
  <2> QED BY <1>1, <2>1, AfterUnfolds
<1>4. /\ Sound(b) /\ IsState(a) /\ IsState(b) /\ Alongside(a, At(s)) /\ r \in Records
      /\ r.mt \in RecordKinds /\ (k = 0 <=> b.gs = "none") /\ b.gs \in {"none", "playing"}
  BY <1>1, <1>2, AllowedIs DEF FactsAt, Facts, Pending, Alongside, Sound, Typed
<1>4a. At(s) = IF Skipped(b, r) THEN Facing(b) ELSE b
  <2>1. k < Len(game.recs)
    BY <1>1
  <2> QED BY <2>1 DEF At, Skips
<1> HIDE DEF a, b, r
<1>5. CASE b.gs = "playing"
  <2>1. At(s).gs = "playing"
    BY <1>4, <1>4a, <1>5 DEF Facing, IsState, Fields
  <2>2. a.gs = "playing"
    BY <1>4, <2>1 DEF Alongside
  <2>3. a.turn = At(s).turn
    <3>1. ASSUME Forgone(s) PROVE FALSE
      <4>1. AtTheEnd(s)
        BY <2>2, <3>1 DEF Forgone, Passed, Duty, a
      <4>2. s.last.k = Len(Game(s).recs)
        BY <4>1 DEF AtTheEnd, Game
      <4> QED BY <1>1, <4>2
    <3> QED BY <2>2, <3>1, ReplayStands DEF a
  <2>4. AgreeButGs(a, At(s))
    BY <2>2, <2>3, ReplayStands DEF a
  <2>5. FixAndApply(a, info, r) = FixAndApply(At(s), info, r)
    BY <2>4, RecordForgets
  <2>6. FixAndApply(At(s), info, r) = z
    <3>1. CASE ~Skipped(b, r)
      BY <1>4a, <3>1
    <3>2. CASE Skipped(b, r)
      <4>1. b.move = Gnu /\ Passed(b) /\ r.p = Human /\ r.mt \in {"setdice", "normal", "double"}
        BY <1>4, <1>5, <3>2 DEF Skipped, Passed, Sound, InPlay
      <4> QED BY <1>4, <1>4a, <3>2, <4>1, FacingSame
    <3> QED BY <3>1, <3>2
  <2> QED BY <1>3, <2>5, <2>6 DEF a, r
<1>6. CASE b.gs = "none"
  <2>0. At(s) = b /\ a.gs = "none"
    BY <1>4, <1>4a, <1>6 DEF Skipped, Passed, Alongside
  <2>1. /\ b.board = FullBoard /\ a.board = FullBoard /\ b.turn = Nobody /\ b.move = Nobody
        /\ a.turn = a.move /\ a.turn \in {Nobody, r.p}
    <3>1. Waiting(a, game.recs[1].p)
      BY <1>1, <2>0 DEF Pending
    <3>2. r = game.recs[1]
      BY <1>4, <1>6 DEF r
    <3> QED BY <1>4, <1>6, <2>0, <3>1, <3>2, Kinds DEF Waiting, Sound, Fresh, Alongside, Placed
  <2>2. r.mt \in {"setdice", "normal"}
    <3>1. ~Passed(b)
      BY <1>6 DEF Passed
    <3>2. Legal(b, r)
      BY <1>2, <3>1 DEF Allowed
    <3> QED BY <1>6, <3>2 DEF Legal
  <2>3. /\ a.cube = b.cube /\ a.owner = b.owner /\ a.beavers = b.beavers /\ a.score = b.score
        /\ a.cGames = b.cGames /\ a.crawford = b.crawford /\ a.post = b.post
        /\ a.nMatchTo = b.nMatchTo /\ a.board = b.board /\ SwapSides(a.board) = a.board
    BY <1>4, <1>6, <2>0, <2>1, FullBoardSwaps, Kinds DEF Alongside
  <2>4. CASE r.mt = "setdice"
    <3>1. Rolled(y, a, info, r) /\ Rolled(z, b, info, r)
      BY <1>4, <2>4, SetDiceStep
    <3>2. y.ms = z.ms /\ y.info = z.info
      BY <2>3, <3>1, RolledSame
    <3>3. IsPair(y) /\ IsPair(z)
      BY <1>4, InfoOnlyCarried DEF Alike
    <3> QED BY <1>3, <3>2, <3>3 DEF IsPair, IsFcn, a, r
  <2>5. CASE r.mt = "normal"
    <3>1. a.board \in [Players -> Int] /\ b.board \in [Players -> Int]
          /\ a.score \in [Players -> Nat] /\ b.score \in [Players -> Nat]
      BY <1>4, <2>3 DEF Sound, Typed
    <3>2. Moved(y, a, info, r)
      <4>1. \/ a.turn = r.p /\ a.move = r.p
            \/ a.turn = a.move /\ SwapSides(a.board) = a.board
        BY <2>1, <2>3
      <4> QED BY <1>4, <2>5, <3>1, <4>1, NormalStep
    <3>3. Moved(z, b, info, r)
      <4>1. b.turn = b.move /\ SwapSides(b.board) = b.board
        BY <2>1, <2>3
      <4> QED BY <1>4, <2>5, <3>1, <4>1, NormalStep
    <3>4. y.ms = z.ms /\ y.info = z.info
      BY <2>3, <3>2, <3>3, MovedSame
    <3>5. IsPair(y) /\ IsPair(z)
      BY <1>4, InfoOnlyCarried DEF Alike
    <3> QED BY <1>3, <3>4, <3>5 DEF IsPair, IsFcn, a, r
  <2> QED BY <2>2, <2>4, <2>5
<1> QED BY <1>4, <1>5, <1>6

\* A step on in the record.
NextOf(s) ==
    LET r == Game(s).recs[s.last.k + 1]
        x == FixAndApply(s.ms, Game(s).info, r)
        m == IF s.last.k + 2 <= Len(Game(s).recs)
               THEN FixMatchState(x.ms, Game(s).recs[s.last.k + 2]) ELSE x.ms
    IN  [s EXCEPT !.ms = m, !.lMatch[s.last.g].info = x.info, !.last.k = @ + 1]

\* The match state a walk comes to at record k of a game.
Onward(game, k) ==
    LET m == After(game, k).ms
    IN  IF k < Len(game.recs) /\ Skipped(m, game.recs[k + 1]) THEN Facing(m) ELSE m

\* The cursor moves to record k of game g, and the match state is m.
Moveto(s, g, k, m) == [s EXCEPT !.ms = m, !.last = [g |-> g, k |-> k]]

\* Standing in the record where the replay has led.
LEMMA MovetoIs ==
  ASSUME NEW s, Whole(s), s.lMatch \in Seq(Games), s.next = FALSE,
         NEW g \in 1..Len(s.lMatch), NEW k \in 0..Len(s.lMatch[g].recs), NEW m,
         Pending(m, Onward(s.lMatch[g], k), s.lMatch[g].recs[1].p),
         m.gs = "playing" => m.resigned = 0 /\ m.turn = Onward(s.lMatch[g], k).turn
  PROVE  Elsewhere(s, Moveto(s, g, k, m))
<1> DEFINE l == [g |-> g, k |-> k]
           t == [[s EXCEPT !.ms = m] EXCEPT !.last = l]
<1>1. l.g = g /\ l.k = k /\ DOMAIN l = {"g", "k"} /\ IsFcn(l)
  BY DEF IsFcn
<1>2. Moveto(s, g, k, m) = t
  BY DEF Moveto
<1> HIDE DEF l
<1>3. /\ t.ms = m /\ t.last = l /\ t.lMatch = s.lMatch /\ t.next = s.next /\ t.craw = s.craw
      /\ t.session = s.session
  BY DEF Whole
<1>4. DOMAIN t = {"ms", "lMatch", "last", "next", "craw", "session"} /\ IsFcn(t)
  BY ExceptIsFcn DEF Whole
<1> HIDE DEF t
<1>5. Game(t) = s.lMatch[g] /\ At(t) = Onward(s.lMatch[g], k)
  BY <1>1, <1>3 DEF Game, At, Behind, Skips, Onward
<1> QED BY <1>1, <1>2, <1>3, <1>4, <1>5 DEF Elsewhere, Whole

\* Such a state is one of play, or the game's beginning.
LEMMA Arrived ==
  ASSUME NEW game, GameOK(game), NEW k \in 0..Len(game.recs), NEW p
  PROVE  /\ k = 0 => Onward(game, k) = Base(game.info)
         /\ k > 0 => /\ Pending(Onward(game, k), Onward(game, k), p)
                     /\ Onward(game, k).gs = "playing" => Onward(game, k).resigned = 0
                     /\ k < Len(game.recs) =>
                          FixMatchState(After(game, k).ms, game.recs[k + 1]) = Onward(game, k)
<1> DEFINE m == After(game, k).ms
           y == Onward(game, k)
<1>1. FactsAt(game, k) /\ Len(game.recs) \in Nat /\ k \in Nat
  BY DEF GameOK, GameUpTo, Games
<1>2. Facts(m, game.info, game.recs, k)
  BY <1>1 DEF FactsAt
<1>3. CASE k = 0
  <2>1. m = Base(game.info)
    BY <1>3, AfterUnfolds
  <2>2. m.gs = "none"
    BY <1>2, <1>3 DEF Facts
  <2> QED BY <1>3, <2>1, <2>2 DEF Onward, Skipped, Passed
<1>4. CASE k > 0
  <2>1. Facts(y, game.info, game.recs, k)
    <3>1. CASE Skipped(m, game.recs[k + 1]) /\ k < Len(game.recs)
      <4>1. y = Facing(m) /\ Passed(m)
        BY <3>1 DEF Onward, Skipped
      <4> HIDE DEF m, y
      <4> QED BY <1>2, <4>1, FacingFacts
    <3>2. CASE ~(Skipped(m, game.recs[k + 1]) /\ k < Len(game.recs))
      <4>1. y = m
        BY <3>2 DEF Onward
      <4> HIDE DEF m, y
      <4> QED BY <1>2, <4>1
    <3> QED BY <3>1, <3>2
  <2>2. k < Len(game.recs) => FixMatchState(m, game.recs[k + 1]) = y
    <3>1. ASSUME k < Len(game.recs) PROVE k + 1 \in 1..Len(game.recs)
      BY <1>1, <3>1
    <3> QED BY <1>1, <1>4, <3>1, NothingMissing DEF Onward
  <2> HIDE DEF y, m
  <2>3. Sound(y) /\ y.gs # "none"
    BY <1>4, <2>1 DEF Facts
  <2>4. Pending(y, y, p)
    BY <2>3, NothingPending
  <2>5. y.gs = "playing" => y.resigned = 0
    BY <2>3 DEF Sound, InPlay
  <2>6. k # 0
    BY <1>4
  <2> QED BY <1>4, <2>2, <2>4, <2>5, <2>6 DEF y, m
<1> QED BY <1>1, <1>3, <1>4

\* CommandNext's step to the next record.
LEMMA NextOfIs ==
  ASSUME NEW s, Core(s), Duty(s), s.next = FALSE, s.ms.resigned = 0, s.last.g # 0,
         s.last.k # Len(Game(s).recs)
  PROVE  Elsewhere(s, NextOf(s)) /\ NextOf(s).last.g = s.last.g
<1> DEFINE game == Game(s)
           g == s.last.g
           k == s.last.k
           x == FixAndApply(s.ms, game.info, game.recs[k + 1])
           m == IF k + 2 <= Len(game.recs) THEN FixMatchState(x.ms, game.recs[k + 2]) ELSE x.ms
<1>1. /\ g \in 1..Len(s.lMatch) /\ k \in 0..Len(game.recs) /\ k \in Nat /\ GameOK(game)
      /\ game.recs \in Seq(Records) /\ s.lMatch \in Seq(Games) /\ Whole(s) /\ game = s.lMatch[g]
  BY CoreInGame DEF InGame, MayGoOn, Game
<1>2. /\ Len(game.recs) \in Nat /\ k + 1 \in 1..Len(game.recs) /\ k + 1 \in 0..Len(game.recs)
      /\ k + 1 \in Nat /\ k + 1 > 0
  <2>1. Len(game.recs) \in Nat
    BY <1>1, LenProperties
  <2>2. k # Len(game.recs)
    OBVIOUS
  <2> QED BY <1>1, <2>1, <2>2
<1>3. x = After(game, k + 1)
  BY <1>2, RecordApplies
<1>4. x.info = game.info
  BY <1>1, <1>2, <1>3 DEF GameOK, GameUpTo, FactsAt
<1>5. m = Onward(game, k + 1)
  <2>1. CASE k + 2 <= Len(game.recs)
    <3>1. (k + 1) + 1 = k + 2 /\ k + 1 < Len(game.recs)
      <4> DEFINE l == Len(game.recs)
      <4>1. k \in Nat /\ l \in Nat /\ k + 2 <= l
        BY <1>1, <1>2, <2>1
      <4> HIDE DEF k, l
      <4>2. (k + 1) + 1 = k + 2 /\ k + 1 < l
        BY <4>1
      <4> QED BY <4>2 DEF k, l
    <3>2. FixMatchState(After(game, k + 1).ms, game.recs[(k + 1) + 1]) = Onward(game, k + 1)
      BY <1>1, <1>2, <3>1, Arrived
    <3> QED BY <1>3, <2>1, <3>1, <3>2
  <2>2. CASE ~(k + 2 <= Len(game.recs))
    <3>1. ~(k + 1 < Len(game.recs))
      BY <1>1, <1>2, <2>2
    <3> QED BY <1>3, <2>2, <3>1 DEF Onward
  <2> QED BY <2>1, <2>2
<1>6. NextOf(s) = Moveto(s, g, k + 1, Onward(game, k + 1))
  <2> DEFINE i == x.info
             games == [s.lMatch EXCEPT ![g].info = i]
  <2>1. NextOf(s) = [s EXCEPT !.ms = m, !.lMatch[g].info = i, !.last.k = @ + 1]
    BY DEF NextOf
  <2>2. games = s.lMatch
    BY <1>1, <1>4, InfoStays
  <2> HIDE DEF m, i
  <2>3. [s EXCEPT !.ms = m, !.lMatch[g].info = i, !.last.k = @ + 1]
          = [s EXCEPT !.ms = m, !.lMatch = games, !.last = [s.last EXCEPT !.k = k + 1]]
    BY <1>1 DEF Whole
  <2>4. [s EXCEPT !.ms = m, !.lMatch = s.lMatch, !.last = [s.last EXCEPT !.k = k + 1]]
          = [s EXCEPT !.ms = m, !.last = [s.last EXCEPT !.k = k + 1]]
    BY <1>1 DEF Whole, IsFcn
  <2>5. [s.last EXCEPT !.k = k + 1] = [g |-> g, k |-> k + 1]
    BY <1>1 DEF Whole, IsFcn
  <2> HIDE DEF games
  <2>6. NextOf(s) = [s EXCEPT !.ms = m, !.last = [g |-> g, k |-> k + 1]]
    BY <2>1, <2>2, <2>3, <2>4, <2>5
  <2> QED BY <1>3, <1>5, <2>6 DEF Moveto, m
<1>7. Elsewhere(s, Moveto(s, g, k + 1, Onward(game, k + 1)))
  <2>1. /\ Pending(Onward(game, k + 1), Onward(game, k + 1), game.recs[1].p)
        /\ Onward(game, k + 1).gs = "playing" => Onward(game, k + 1).resigned = 0
    BY <1>1, <1>2, Arrived
  <2> HIDE DEF game, g, k
  <2> QED BY <1>1, <1>2, <2>1, MovetoIs
<1>8. Moveto(s, g, k + 1, Onward(game, k + 1)).last.g = g
  <2> DEFINE y == Onward(game, k + 1)
  <2> HIDE DEF y
  <2> QED BY <1>1 DEF Moveto, Whole
<1> QED BY <1>6, <1>7, <1>8

\* CalculateBoard, with the cursor at record k of game g.
LEMMA ReplayIs ==
  ASSUME NEW m, IsState(m), NEW game, GameOK(game), NEW k \in 0..Len(game.recs)
  PROVE  LET x == Replay(m, game, k)
         IN  /\ x.info = game.info
             /\ Pending(x.ms, Onward(game, k), game.recs[1].p)
             /\ x.ms.gs = "playing" => x.ms.resigned = 0 /\ x.ms.turn = Onward(game, k).turn
             /\ k = 0 => x.ms \in {Base(game.info), FixMatchState(Base(game.info), game.recs[1])}
             /\ k > 0 => x.ms = Onward(game, k)
<1> DEFINE x == Replay(m, game, k)
           y == After(game, k)
<1>1. game.recs \in Seq(Records) /\ Len(game.recs) \in Nat /\ k \in Nat /\ FactsAt(game, k)
      /\ game.recs # <<>> /\ Len(game.recs) # 0
  <2>1. game.recs \in Seq(Records) /\ game.recs # <<>>
    BY DEF GameOK, GameUpTo, Games
  <2>2. FactsAt(game, k)
    BY DEF GameOK, GameUpTo
  <2>3. Len(game.recs) \in Nat
    BY <2>1
  <2>4. Len(game.recs) # 0
    BY <2>1, EmptySeq
  <2>5. k \in Nat
    BY <2>3
  <2> QED BY <2>1, <2>2, <2>3, <2>4, <2>5
<1>2. Replayed(m, game, k) = y
  BY <1>1, ReplayedIs
<1>3. y.info = game.info
  BY <1>1 DEF FactsAt
<1>4. x = IF k < Len(game.recs) THEN GoesOn(FixMatchState(y.ms, game.recs[k + 1]), y.info) ELSE y
  BY <1>2 DEF Replay
<1>5. x.info = game.info /\ x.ms = IF k < Len(game.recs) THEN FixMatchState(y.ms, game.recs[k + 1]) ELSE y.ms
  BY <1>3, <1>4 DEF GoesOn
<1> HIDE DEF x
<1>6. CASE k > 0
  <2>1. x.ms = Onward(game, k)
    <3>1. CASE k < Len(game.recs)
      BY <1>1, <1>5, <1>6, <3>1, Arrived
    <3>2. CASE ~(k < Len(game.recs))
      BY <1>5, <3>2 DEF Onward
    <3> QED BY <3>1, <3>2
  <2>2. /\ Pending(Onward(game, k), Onward(game, k), game.recs[1].p)
        /\ Onward(game, k).gs = "playing" => Onward(game, k).resigned = 0
    BY <1>1, <1>6, Arrived
  <2>3. k # 0
    BY <1>6
  <2> QED BY <1>5, <1>6, <2>1, <2>2, <2>3 DEF x
<1>7. CASE k = 0
  <2>1. y.ms = Base(game.info)
    BY <1>7, AfterUnfolds
  <2>2. x.ms = FixMatchState(Base(game.info), game.recs[1])
    BY <1>1, <1>5, <1>7, <2>1
  <2>3. Pending(x.ms, After(game, 0).ms, game.recs[1].p) /\ x.ms.gs = "none"
    BY <2>2, FirstIsMissing
  <2>4. ~(k > 0)
    BY <1>7
  <2>5. Onward(game, k) = After(game, 0).ms
    BY <1>7, <2>1, Arrived
  <2> QED BY <1>5, <1>7, <2>2, <2>3, <2>4, <2>5 DEF x
<1> QED BY <1>1, <1>6, <1>7

\* u is s with the cursor at record k of game g, and the match state not yet its own.
Sought(s, u, g, k) ==
    /\ Whole(u) /\ u.ms = s.ms /\ u.lMatch = s.lMatch /\ u.next = s.next /\ u.craw = s.craw
    /\ u.session = s.session /\ u.last.g = g /\ u.last.k = k

\* CalculateBoard leads to what the replay to the cursor leaves.
LEMMA CalculateBoardIs ==
  ASSUME NEW s, Core(s), s.next = FALSE, s.last.g # 0,
         NEW g \in 1..Len(s.lMatch), NEW k \in 0..Len(s.lMatch[g].recs),
         NEW u, Sought(s, u, g, k)
  PROVE  /\ Elsewhere(s, CalculateBoard(u))
         /\ CalculateBoard(u).last = u.last /\ IsState(CalculateBoard(u).ms)
         /\ k = 0 => CalculateBoard(u).ms \in {Base(s.lMatch[g].info),
                            FixMatchState(Base(s.lMatch[g].info), s.lMatch[g].recs[1])}
<1> DEFINE game == s.lMatch[g]
           x == Replay(s.ms, game, k)
           m == x.ms
           i == x.info
           games == [s.lMatch EXCEPT ![g].info = i]
           v == [u EXCEPT !.ms = m]
           t == [v EXCEPT !.lMatch = games]
<1>1. /\ s.lMatch \in Seq(Games) /\ GameOK(game) /\ IsState(s.ms) /\ Whole(s)
  <2>1. InGame(s) /\ Recorded(s.lMatch)
    BY CoreInGame DEF Core
  <2> QED BY <2>1 DEF InGame, Recorded, Pending, Alongside, MayGoOn
<1>2. /\ i = game.info /\ Pending(m, Onward(game, k), game.recs[1].p)
      /\ m.gs = "playing" => m.resigned = 0 /\ m.turn = Onward(game, k).turn
      /\ k = 0 => m \in {Base(game.info), FixMatchState(Base(game.info), game.recs[1])}
  <2> HIDE DEF game
  <2> QED BY <1>1, ReplayIs DEF game
<1>3. games = s.lMatch
  BY <1>1, <1>2, InfoStays
<1>4. CalculateBoard(u) = t
  <2>1. Replay(u.ms, u.lMatch[u.last.g], u.last.k) = x
    BY DEF Sought
  <2> HIDE DEF x
  <2>2. CalculateBoard(u) = [u EXCEPT !.ms = x.ms, !.lMatch[u.last.g].info = x.info]
    BY <2>1 DEF CalculateBoard
  <2>3. u.last.g = g /\ u.lMatch = s.lMatch
    BY DEF Sought
  <2> QED BY <2>2, <2>3 DEF Sought, Whole
<1> HIDE DEF m, i, games, game
<1>5. t.ms = m /\ t.lMatch = games /\ t.last = u.last /\ t.next = u.next /\ t.craw = u.craw /\ t.session = u.session
  BY DEF Sought, Whole
<1>6. IsFcn(t) /\ DOMAIN t = DOMAIN u
  BY ExceptIsFcn
<1>7. Whole(t)
  BY <1>5, <1>6 DEF Sought, Whole
<1> HIDE DEF t, v
<1>8. Game(t) = game /\ At(t) = Onward(game, k)
  BY <1>3, <1>5 DEF Game, At, Behind, Skips, Onward, game, Sought
<1>9. Elsewhere(s, t)
  <2>1. t.last.g = g /\ t.last.k = k /\ t.lMatch = s.lMatch /\ t.next = FALSE /\ t.craw = s.craw /\ t.session = s.session
    BY <1>3, <1>5 DEF Sought
  <2>2. k \in 0..Len(Game(t).recs)
    BY <1>8 DEF game
  <2> QED BY <1>2, <1>5, <1>7, <1>8, <2>1, <2>2 DEF Elsewhere
<1>10. IsState(m)
  BY <1>2 DEF Pending, Alongside
<1> QED BY <1>2, <1>4, <1>5, <1>9, <1>10 DEF game

\* ChangeGame: the player of the first record may be put on turn.
Faced(s, p) == [s EXCEPT !.ms.board = SwapSides(@), !.ms.turn = p, !.ms.move = p]

\* ChangeGame turns the board of a game's start to the player of its first record.
LEMMA FacedIs ==
  ASSUME NEW s, NEW t, Elsewhere(s, t), IsState(t.ms), t.last.k = 0, Recorded(s.lMatch),
         t.ms \in {Base(Game(t).info), FixMatchState(Base(Game(t).info), Game(t).recs[1])},
         t.ms.turn # Game(t).recs[1].p
  PROVE  Elsewhere(s, Faced(t, Game(t).recs[1].p))
<1> DEFINE game == Game(t)
           r == game.recs[1]
           p == r.p
           b == Base(game.info)
           m == [[[t.ms EXCEPT !.board = SwapSides(t.ms.board)] EXCEPT !.turn = p] EXCEPT !.move = p]
           u == [t EXCEPT !.ms = m]
<1>1. GameOK(game) /\ t.last.g \in 1..Len(t.lMatch) /\ Whole(t)
  BY DEF Recorded, Elsewhere, Game
<1>2. t.ms = b
  <2>1. CASE t.ms = FixMatchState(b, r)
    <3>1. IsState(b)
      BY BlankIs, GameInfoForgets
    <3>2. \/ FixMatchState(b, r) = b
          \/ FixMatchState(b, r) = [b EXCEPT !.board = SwapSides(@), !.move = r.p, !.turn = r.p]
      BY DEF FixMatchState
    <3> HIDE DEF b
    <3>3. [b EXCEPT !.board = SwapSides(@), !.move = r.p, !.turn = r.p].turn = r.p
      BY <3>1 DEF IsState, Fields
    <3> QED BY <2>1, <3>2, <3>3
  <2> QED BY <2>1
<1>3. m = [b EXCEPT !.board = SwapSides(@), !.turn = p, !.move = p]
  <2> HIDE DEF b
  <2> QED BY <1>2 DEF IsState, Fields
<1>4. Faced(t, p) = u
  <2> HIDE DEF p
  <2> QED BY <1>1 DEF Faced, Whole, IsState, Fields
<1>5. Pending(m, After(game, 0).ms, p) /\ m.gs = "none"
  <2> HIDE DEF m, game
  <2> QED BY <1>1, <1>3, FirstIsMissing
<1> HIDE DEF m
<1>6. /\ u.ms = m /\ u.lMatch = t.lMatch /\ u.last = t.last /\ u.next = t.next /\ u.craw = t.craw
      /\ u.session = t.session
  BY <1>1 DEF Whole
<1>7. Whole(u)
  <2>1. IsFcn(u) /\ DOMAIN u = DOMAIN t
    BY ExceptIsFcn
  <2> QED BY <1>1, <1>6, <2>1 DEF Whole
<1> HIDE DEF u
<1>8. Game(u) = game /\ At(u) = After(game, 0).ms
  <2>1. Game(u) = game /\ u.last.k = 0
    BY <1>6 DEF Game
  <2>2. At(u) = Onward(game, 0)
    BY <2>1 DEF At, Behind, Skips, Onward
  <2>3. 0 \in 0..Len(game.recs)
    BY <1>1 DEF GameOK, GameUpTo, Games
  <2> QED BY <1>1, <2>1, <2>2, <2>3, Arrived, AfterUnfolds
<1>9. Elsewhere(s, u)
  BY <1>5, <1>6, <1>7, <1>8 DEF Elsewhere
<1> QED BY <1>4, <1>9

---------------------------------------------------------------------------
(* Every step, as what it makes of the state s.                            *)

\* A game ends: the match or the session with it, or another game begins.
Closes(s, t) ==
    \E u : /\ u = [s EXCEPT !.next = FALSE]
           /\ s.ms.gs \in Ended /\ AtTheEnd(s) /\ EndsIn(u, EndOfGame(u))
           /\ Core(EndOfGame(u)) /\ Duty(EndOfGame(u)) /\ AtTheEnd(EndOfGame(u))
           /\ MayBegin(EndOfGame(u))
           /\ \/ t = EndOfGame(u) /\ t.next = FALSE /\ (MatchWon(u.ms) \/ u.ms.nMatchTo = 0)
              \/ ~MatchWon(u.ms) /\ Started(EndOfGame(u), t)

\* A new game after s, or in the place of the one in play.
Again(s, t) ==
    \/ MatchWon(s.ms) /\ t = s
    \/ ~MatchWon(s.ms) /\ s.ms.gs # "playing" /\ move_is_last_in_match(s) /\ Started(s, t)
    \/ /\ ~MatchWon(s.ms) /\ (s.ms.gs = "playing" \/ ~move_is_last_in_match(s))
       /\ s.last.g \in 1..Len(s.lMatch) /\ MayBegin(PopGame(s)) /\ Started(PopGame(s), t)

\* A match, or a session, begins.
Anew(t) ==
    \E q, u : \E n \in Lengths :
        /\ q.next = FALSE /\ StartedAnew(q, n, u)
        /\ t = u \/ Again(u, t)

\* A lawful step.
Lawful(s, t) ==
    \/ Fine(s, t)
    \/ s.next /\ Closes(s, t)
    \/ ~s.next /\ Anew(t)
    \/ ~s.next /\ s.last.g # 0 /\ Again(s, t)
    \/ ~s.next /\ s.last.g # 0 /\ s.ms.resigned = 0 /\ Elsewhere(s, t)

\* What the invariant says of a state.
StateOK(t) == Core(t) /\ Duty(t) /\ t.next \in BOOLEAN

\* The New game button keeps the invariant.
LEMMA AgainIs ==
  ASSUME NEW s, StateOK(s), AtTheEnd(s), Owes(s), NEW t, Again(s, t)
  PROVE  StateOK(t) /\ AtTheEnd(t) /\ Owes(t)
<1>1. CASE t = s
  BY <1>1
<1>2. CASE t # s
  <2>1. \E q : Started(q, t)
    BY <1>2 DEF Again
  <2> QED BY <2>1, StartedIs DEF StateOK
<1> QED BY <1>1, <1>2

\* A match just started has the invariant.
LEMMA AnewIs ==
  ASSUME NEW t, Anew(t)
  PROVE  StateOK(t) /\ AtTheEnd(t) /\ Owes(t)
<1>1. PICK q, u : \E n \in Lengths : /\ q.next = FALSE /\ StartedAnew(q, n, u)
                                     /\ t = u \/ Again(u, t)
  BY DEF Anew
<1>2. \E c : Started(c, u)
  BY <1>1 DEF StartedAnew
<1>3. StateOK(u) /\ AtTheEnd(u) /\ Owes(u)
  BY <1>2, StartedIs DEF StateOK
<1> QED BY <1>1, <1>3, AgainIs

\* Every step leaves a state that is as it must be; only a walk leaves the end of the record.
LEMMA LawfulIs ==
  ASSUME NEW s, StateOK(s), NEW t, Lawful(s, t)
  PROVE  /\ StateOK(t) /\ Whole(t)
         /\ \/ Fine(s, t)
            \/ AtTheEnd(s) /\ AtTheEnd(t)
            \/ Anew(t) /\ AtTheEnd(t)
            \/ Again(s, t) /\ (AtTheEnd(s) => AtTheEnd(t))
            \/ Elsewhere(s, t)
<1>1. Core(s) /\ Duty(s) /\ s.next \in BOOLEAN
  BY DEF StateOK
<1>2. CASE Fine(s, t)
  BY <1>2 DEF Fine, StateOK, Core
<1>3. CASE Closes(s, t)
  <2>1. PICK u : /\ AtTheEnd(s)
                 /\ Core(EndOfGame(u)) /\ Duty(EndOfGame(u)) /\ AtTheEnd(EndOfGame(u))
                 /\ \/ t = EndOfGame(u) /\ t.next = FALSE
                    \/ Started(EndOfGame(u), t)
    BY <1>3 DEF Closes
  <2>2. Core(t) /\ Duty(t) /\ AtTheEnd(t) /\ t.next \in BOOLEAN
    BY <2>1, StartedIs
  <2> QED BY <2>1, <2>2 DEF StateOK, Core
<1>4. CASE Anew(t)
  BY <1>4, AnewIs DEF StateOK, Core
<1>5. CASE Again(s, t)
  <2>1. CASE t = s
    BY <1>1, <1>5, <2>1 DEF StateOK, Core
  <2>2. CASE t # s
    <3>1. \E q : Started(q, t)
      BY <1>5, <2>2 DEF Again
    <3> QED BY <1>5, <3>1, StartedIs DEF StateOK, Core
  <2> QED BY <2>1, <2>2
<1>6. CASE ~s.next /\ s.last.g # 0 /\ s.ms.resigned = 0 /\ Elsewhere(s, t)
  <2>1. s.next = FALSE
    BY <1>1, <1>6
  <2>3. Core(t) /\ Duty(t)
    BY <1>1, <1>6, ElsewhereFine
  <2>4. t.next = FALSE /\ Whole(t)
    BY <1>6 DEF Elsewhere
  <2> QED BY <1>6, <2>3, <2>4 DEF StateOK
<1> QED BY <1>2, <1>3, <1>4, <1>5, <1>6 DEF Lawful

---------------------------------------------------------------------------
(* The actions.                                                            *)

\* The state as one record.
LEMMA NowIs ==
  /\ Now.ms = ms /\ Now.lMatch = lMatch /\ Now.last = last /\ Now.next = fNextTurn
  /\ Now.craw = fCrawfordState /\ Now.session = nSessionLen
BY DEF Now

\* Two such records that agree on every field are equal.
LEMMA SameWhole ==
  ASSUME NEW a, NEW b, Whole(a), Whole(b), a.ms = b.ms, a.lMatch = b.lMatch, a.last = b.last,
         a.next = b.next, a.craw = b.craw, a.session = b.session
  PROVE  a = b
<1> DEFINE D == {"ms", "lMatch", "last", "next", "craw", "session"}
<1>1. IsFcn(a) /\ IsFcn(b) /\ DOMAIN a = D /\ DOMAIN b = D
  BY DEF Whole
<1>2. \A f \in D : a[f] = b[f]
  OBVIOUS
<1> HIDE DEF D
<1> QED BY <1>1, <1>2 DEF IsFcn

\* Such a record has these fields and no others.
LEMMA WholeIs ==
  ASSUME NEW t, Whole(t)
  PROVE  t = [ms |-> t.ms, lMatch |-> t.lMatch, last |-> t.last, next |-> t.next,
              craw |-> t.craw, session |-> t.session]
<1> DEFINE r == [ms |-> t.ms, lMatch |-> t.lMatch, last |-> t.last, next |-> t.next,
                 craw |-> t.craw, session |-> t.session]
<1>1. /\ DOMAIN r = {"ms", "lMatch", "last", "next", "craw", "session"} /\ IsFcn(r)
      /\ r.ms = t.ms /\ r.lMatch = t.lMatch /\ r.last = t.last /\ r.next = t.next
      /\ r.craw = t.craw /\ r.session = t.session
  BY DEF IsFcn
<1> HIDE DEF r
<1>2. Whole(r)
  BY <1>1 DEF Whole
<1>3. r = t
  BY <1>1, <1>2, SameWhole
<1> QED BY <1>3 DEF r

\* Become makes the record the next state.
LEMMA BecomeIs ==
  ASSUME NEW t, Whole(t), Become(t)
  PROVE  Now' = t
<1>1. t = [ms |-> t.ms, lMatch |-> t.lMatch, last |-> t.last, next |-> t.next,
           craw |-> t.craw, session |-> t.session]
  BY WholeIs
<1>2. Now' = [ms |-> t.ms, lMatch |-> t.lMatch, last |-> t.last, next |-> t.next,
              craw |-> t.craw, session |-> t.session]
  BY DEF Now, Become
<1> QED BY <1>1, <1>2

\* A step of the drain, a verb in the game, a new match, the New game button, or a walk.
DrainStep   == fNextTurn /\ (Fine(Now, Now') \/ Closes(Now, Now')) /\ walked' = walked
PlayStep   == ~fNextTurn /\ last.g # 0 /\ Fine(Now, Now') /\ walked' = walked
StartStep  == ~fNextTurn /\ Anew(Now') /\ walked' = FALSE
ButtonStep == ~fNextTurn /\ last.g # 0 /\ ~walked /\ Again(Now, Now') /\ walked' = walked
WalkStep   == ~fNextTurn /\ last.g # 0 /\ ms.resigned = 0 /\ Elsewhere(Now, Now') /\ walked' = TRUE

\* A lawful step of play leads to a state.
LEMMA FineWhole == ASSUME NEW s, NEW t, Fine(s, t) PROVE Whole(t)
BY DEF Fine, Core

\* NextTurn is the drain's step.
LEMMA NextTurnIs == ASSUME IInv, NextTurn PROVE DrainStep
<1>1. /\ fNextTurn /\ walked' = walked /\ fNextTurn = TRUE /\ Core(Now) /\ Duty(Now)
  BY DEF IInv, NextTurn
<1>2. PICK t \in NextTurns([Now EXCEPT !.next = FALSE]) : Become(t)
  BY DEF NextTurn
<1>3. PICK n : n = Now
  OBVIOUS
<1>4. PICK s : s = [n EXCEPT !.next = FALSE]
  OBVIOUS
<1>5. /\ Core(n) /\ Duty(n) /\ n.next = TRUE /\ t \in NextTurns(s)
  BY <1>1, <1>2, <1>3, <1>4, NowIs
<1>6. \/ n.ms.gs = "playing" /\ Fine(n, t)
      \/ /\ n.ms.gs \in Ended /\ AtTheEnd(n) /\ EndsIn(s, EndOfGame(s))
         /\ Core(EndOfGame(s)) /\ Duty(EndOfGame(s)) /\ AtTheEnd(EndOfGame(s))
         /\ MayBegin(EndOfGame(s))
         /\ \/ t = EndOfGame(s) /\ t.next = FALSE /\ (MatchWon(s.ms) \/ s.ms.nMatchTo = 0)
            \/ ~MatchWon(s.ms) /\ Started(EndOfGame(s), t)
  BY <1>4, <1>5, NextTurnSteps
<1>7. Fine(n, t) \/ Closes(n, t)
  <2>1. CASE Fine(n, t)
    BY <2>1
  <2>2. CASE ~Fine(n, t)
    BY <1>4, <1>6, <2>2 DEF Closes
  <2> QED BY <2>1, <2>2
<1>8. Whole(t)
  <2>1. CASE Fine(n, t)
    BY <2>1, FineWhole
  <2>2. CASE t = EndOfGame(s) /\ EndsIn(s, EndOfGame(s))
    BY <2>2 DEF EndsIn
  <2>3. CASE Started(EndOfGame(s), t)
    BY <2>3 DEF Started, Core
  <2> QED BY <1>6, <2>1, <2>2, <2>3
<1>9. Now' = t
  BY <1>2, <1>8, BecomeIs
<1> QED BY <1>1, <1>3, <1>7, <1>9 DEF DrainStep

\* What a verb of the game leaves is one of its outcomes.
LEMMA PlayIs ==
  ASSUME NEW t, Fine(Now, t), Become(t)
  PROVE  Fine(Now, Now')
BY FineWhole, BecomeIs

\* The human's commands, the starts of a match, ...
GameVerb ==
    \/ Roll \/ Move \/ Double \/ Redouble \/ Take \/ Drop
    \/ Accept \/ Reject \/ Agree \/ Decline \/ Resign

\* A human's command is a step of play.
LEMMA GameVerbIs == ASSUME IInv, GameVerb PROVE PlayStep
<1>1. ~fNextTurn /\ last.g # 0 /\ walked' = walked
  BY DEF GameVerb, Roll, Move, Double, Redouble, Take, Drop, Accept, Reject, Agree,
         Decline, Resign, Play, Verb
<1>2. Core(Now) /\ Duty(Now) /\ Now.next = FALSE
  BY <1>1, NowIs DEF IInv
<1>3. CASE Roll
  <2>1. PICK t \in CommandRoll(Now) : Become(t)
    BY <1>3 DEF Roll, Play, Verb
  <2> QED BY <1>1, <1>2, <2>1, CommandRollFine, PlayIs DEF PlayStep
<1>4. CASE Move
  <2>1. PICK borne \in 0..1 : Become(CommandMove(Now, borne))
    BY <1>4 DEF Move, Play, Verb
  <2>2. PICK t : t = CommandMove(Now, borne) /\ Become(t)
    BY <2>1
  <2>3. Fine(Now, t)
    BY <1>2, <2>2, CommandMoveFine
  <2> QED BY <1>1, <2>2, <2>3, PlayIs DEF PlayStep
<1>5. CASE Resign
  <2>1. PICK n \in 1..3 : Become(CommandResign(Now, n, FALSE))
    BY <1>5 DEF Resign, Play, Verb
  <2>2. PICK t : t = CommandResign(Now, n, FALSE) /\ Become(t)
    BY <2>1
  <2>3. Fine(Now, t)
    BY <1>2, <2>2, HumanResignFine
  <2> QED BY <1>1, <2>2, <2>3, PlayIs DEF PlayStep
<1>6. CASE Double \/ Redouble \/ Take \/ Drop \/ Accept \/ Reject \/ Agree \/ Decline
  <2>1. PICK t : /\ Become(t)
                 /\ t \in {CommandDouble(Now, FALSE), CommandRedouble(Now, FALSE),
                           CommandTake(Now, FALSE), CommandDrop(Now, FALSE), CommandAccept(Now),
                           CommandReject(Now), CommandAgree(Now, FALSE), CommandDecline(Now, FALSE)}
    BY <1>6 DEF Double, Redouble, Take, Drop, Accept, Reject, Agree, Decline, Play, Verb
  <2>2. Fine(Now, t)
    BY <1>2, <2>1, HumanCommandsFine
  <2> QED BY <1>1, <2>1, <2>2, PlayIs DEF PlayStep
<1> QED BY <1>3, <1>4, <1>5, <1>6 DEF GameVerb

\* CommandNewGame at the end of the record is the New game button's step.
LEMMA AgainFrom ==
  ASSUME NEW s, Core(s), s.next \in BOOLEAN, s.last.g # 0, NEW t \in CommandNewGame(s)
  PROVE  Again(s, t)
<1>1. MayBegin(s) /\ Somewhere(s) /\ s.last.g \in 1..Len(s.lMatch)
  BY CoreMayBegin, CoreInGame DEF InGame, Somewhere
<1> QED BY <1>1, CommandNewGameStarts DEF Again

\* The New game button's step leads to a state.
LEMMA AgainWhole == ASSUME NEW s, Whole(s), NEW t, Again(s, t) PROVE Whole(t)
BY DEF Again, Started, Core

\* A change of the record alone.
LEMMA LMatchOnly ==
  ASSUME NEW s, Whole(s), NEW v, NEW t, t = [s EXCEPT !.lMatch = v]
  PROVE  Whole(t) /\ t.ms = s.ms /\ t.next = s.next
<1>1. t.ms = s.ms /\ t.next = s.next /\ t.last = s.last
  BY DEF Whole
<1>2. DOMAIN t = DOMAIN s /\ IsFcn(t)
  BY ExceptIsFcn
<1> QED BY <1>1, <1>2 DEF Whole

\* A change of the session's length alone.
LEMMA SessionOnly ==
  ASSUME NEW s, Whole(s), NEW v, NEW t, t = [s EXCEPT !.session = v]
  PROVE  Whole(t) /\ t.ms = s.ms /\ t.next = s.next
<1>1. t.ms = s.ms /\ t.next = s.next /\ t.last = s.last
  BY DEF Whole
<1>2. DOMAIN t = DOMAIN s /\ IsFcn(t)
  BY ExceptIsFcn
<1> QED BY <1>1, <1>2 DEF Whole

\* A state with the core of the invariant is a state.
LEMMA CoreIsState == ASSUME NEW s, Core(s) PROVE Whole(s) /\ IsState(s.ms)
BY CoreMayBegin DEF MayBegin

\* The lengths of matches are natural numbers.
LEMMA LengthsAreNat == \A n \in Lengths : n \in Nat
BY ConstantsAssumption

\* ... and what starts one.
StartVerb == StartMatch \/ NewMatch \/ NewSession

\* A match or session started is a start step.
LEMMA StartVerbIs == ASSUME IInv, StartVerb PROVE StartStep
<1>1. ~fNextTurn /\ walked' = FALSE
  BY DEF StartVerb, StartMatch, NewMatch, NewSession, Start, Verb
<1>2. PICK s : s = Now
  OBVIOUS
<1>3. Whole(s) /\ IsState(s.ms) /\ s.next = FALSE
  BY <1>1, <1>2, NowIs, CoreIsState DEF IInv
<1>4. ASSUME NEW t, Become(t), Anew(t) PROVE StartStep
  <2>1. Whole(t)
    BY <1>4, AnewIs DEF StateOK, Core
  <2> QED BY <1>1, <1>4, <2>1, BecomeIs DEF StartStep
<1>5. CASE NewMatch
  <2>1. PICK n \in Lengths : \E t \in CommandNewMatch(s, n) : Become(t)
    BY <1>2, <1>5 DEF NewMatch, Start, Verb
  <2>2. PICK t \in CommandNewMatch(s, n) : Become(t)
    BY <2>1
  <2>3. PICK q : q.next = s.next /\ StartedAnew(q, n, t)
    BY <1>3, <2>2, LengthsAreNat, CommandNewMatchStarts
  <2>4. Anew(t)
    BY <1>3, <2>3 DEF Anew
  <2> QED BY <1>4, <2>2, <2>4
<1>6. CASE NewSession
  <2>1. 0 \in Lengths /\ \E games \in 0..1 : \E t \in NewMatchOrSession([s EXCEPT !.session = games], 0) : Become(t)
    BY <1>2, <1>6 DEF NewSession, Start, Verb
  <2>2. PICK games \in 0..1 : \E t \in NewMatchOrSession([s EXCEPT !.session = games], 0) : Become(t)
    BY <2>1
  <2>3. PICK u : u = [s EXCEPT !.session = games]
    OBVIOUS
  <2>4. PICK t \in NewMatchOrSession(u, 0) : Become(t)
    BY <2>2, <2>3
  <2>5. Whole(u) /\ IsState(u.ms) /\ u.next = FALSE
    BY <1>3, <2>3, SessionOnly
  <2>6. StartedAnew(u, 0, t)
    BY <2>4, <2>5, NewMatchOrSessionStarts
  <2>7. Anew(t)
    BY <2>1, <2>5, <2>6 DEF Anew
  <2> QED BY <1>4, <2>4, <2>7
<1>7. CASE StartMatch
  <2>1. PICK n \in Lengths :
          \E t \in UNION {CommandNewGame(c) : c \in CommandNewMatch([s EXCEPT !.lMatch = <<>>], n)} : Become(t)
    BY <1>2, <1>7 DEF StartMatch, Start, Verb
  <2>2. PICK u : u = [s EXCEPT !.lMatch = <<>>]
    OBVIOUS
  <2>3. PICK c \in CommandNewMatch(u, n) : \E t \in CommandNewGame(c) : Become(t)
    BY <2>1, <2>2
  <2>4. PICK t \in CommandNewGame(c) : Become(t)
    BY <2>3
  <2>5. Whole(u) /\ IsState(u.ms) /\ u.next = FALSE
    BY <1>3, <2>2, LMatchOnly
  <2>6. PICK q : q.next = FALSE /\ StartedAnew(q, n, c)
    BY <2>3, <2>5, LengthsAreNat, CommandNewMatchStarts
  <2>7. Core(c) /\ c.next \in BOOLEAN /\ c.last.g # 0
    BY <2>6, StartedIs DEF StartedAnew
  <2>8. Again(c, t)
    BY <2>4, <2>7, AgainFrom
  <2>9. Anew(t)
    BY <2>6, <2>8 DEF Anew
  <2> QED BY <1>4, <2>4, <2>9
<1> QED BY <1>5, <1>6, <1>7 DEF StartVerb

\* The New game button is the step it stands for.
LEMMA NewGameButtonIs == ASSUME IInv, NewGameButton PROVE ButtonStep
<1>1. ~fNextTurn /\ last.g # 0 /\ ~walked /\ walked' = walked
  BY DEF NewGameButton, Play, Verb
<1>2. PICK s : s = Now
  OBVIOUS
<1>3. PICK t \in CommandNewGame(s) : Become(t)
  BY <1>2 DEF NewGameButton, Play, Verb
<1>4. Core(s) /\ s.next = FALSE /\ s.last.g # 0
  BY <1>1, <1>2, NowIs DEF IInv
<1>5. Again(s, t) /\ Whole(t)
  BY <1>3, <1>4, AgainFrom, AgainWhole, CoreIsState
<1>6. Now' = t
  BY <1>3, <1>5, BecomeIs
<1> QED BY <1>1, <1>2, <1>5, <1>6 DEF ButtonStep

\* A walk leads to a state.
LEMMA ElsewhereWhole == ASSUME NEW s, NEW t, Elsewhere(s, t) PROVE Whole(t)
BY DEF Elsewhere

\* A walk is the walk's step.
LEMMA WalkIs ==
  ASSUME NEW t, Elsewhere(Now, t), Walk(t), last.g # 0
  PROVE  WalkStep
<1>1. ~fNextTurn /\ ms.resigned = 0 /\ walked' = TRUE /\ Become(t)
  BY DEF Walk, Verb
<1>2. Now' = t
  BY <1>1, ElsewhereWhole, BecomeIs
<1> QED BY <1>1, <1>2 DEF WalkStep

\* CommandNext is a walk.
LEMMA CommandNextIs == ASSUME IInv, CommandNext PROVE WalkStep
<1>1. ~fNextTurn /\ last.g # 0 /\ ms.resigned = 0 /\ ~move_is_last_in_match(Now)
  BY DEF CommandNext, Walk, Verb
<1>2. PICK s : s = Now
  OBVIOUS
<1>3. Core(s) /\ Duty(s) /\ s.next = FALSE /\ s.last.g # 0 /\ s.ms.resigned = 0
  BY <1>1, <1>2, NowIs DEF IInv
<1>4. s.last.k # Len(Game(s).recs)
  BY <1>1, <1>2, <1>3 DEF move_is_last_in_match, Game
<1>5. Walk(NextOf(s))
  <2>1. ms = s.ms /\ lMatch = s.lMatch /\ last = s.last
    BY <1>2, NowIs
  <2> HIDE <1>2
  <2>2. CommandNext =>
          LET g == s.last.g
              r == s.lMatch[g].recs[s.last.k + 1]
              x == FixAndApply(s.ms, s.lMatch[g].info, r)
              m == IF s.last.k + 2 <= Len(s.lMatch[g].recs)
                     THEN FixMatchState(x.ms, s.lMatch[g].recs[s.last.k + 2]) ELSE x.ms
          IN  Walk([s EXCEPT !.ms = m, !.lMatch[g].info = x.info, !.last.k = @ + 1])
    BY <1>2, <2>1 DEF CommandNext
  <2> QED BY <2>2 DEF NextOf, Game
<1>6. PICK t : t = NextOf(s)
  OBVIOUS
<1>7. Elsewhere(s, t)
  BY <1>3, <1>4, <1>6, NextOfIs
<1> QED BY <1>1, <1>2, <1>5, <1>6, <1>7, WalkIs

\* CommandPrevious is a walk.
LEMMA CommandPreviousIs == ASSUME IInv, CommandPrevious PROVE WalkStep
<1>1. ~fNextTurn /\ last.k > 0 /\ ms.resigned = 0
  BY DEF CommandPrevious, Walk, Verb
<1>2. PICK s : s = Now
  OBVIOUS
<1>3. PICK u : u = [s EXCEPT !.last.k = @ - 1]
  OBVIOUS
<1>4. Core(s) /\ s.next = FALSE /\ s.ms.resigned = 0 /\ s.last.k > 0
  BY <1>1, <1>2, NowIs DEF IInv
<1>5. s.last.g # 0
  <2>1. s.last.k # 0
    BY <1>4
  <2> QED BY <1>4, <2>1 DEF Core
<1>6. InGame(s)
  BY <1>4, <1>5, CoreInGame
<1>7. Sought(s, u, s.last.g, s.last.k - 1)
  <2> DEFINE l == [s.last EXCEPT !.k = s.last.k - 1]
             v == [s EXCEPT !.last = l]
  <2>1. u = v
    BY <1>3, <1>4 DEF Core, Whole
  <2>2. l.g = s.last.g /\ l.k = s.last.k - 1 /\ DOMAIN l = DOMAIN s.last /\ IsFcn(l)
    BY <1>4, ExceptIsFcn DEF Core, Whole
  <2> HIDE DEF l
  <2>3. /\ v.ms = s.ms /\ v.lMatch = s.lMatch /\ v.last = l /\ v.next = s.next /\ v.craw = s.craw
        /\ v.session = s.session
    BY <1>4 DEF Core, Whole
  <2>4. DOMAIN v = DOMAIN s /\ IsFcn(v)
    BY ExceptIsFcn
  <2> HIDE DEF v
  <2> QED BY <1>4, <2>1, <2>2, <2>3, <2>4 DEF Core, Whole, Sought
<1>8. Elsewhere(s, CalculateBoard(u))
  <2>1. s.last.g \in 1..Len(s.lMatch) /\ s.last.k - 1 \in 0..Len(s.lMatch[s.last.g].recs)
    <3>1. s.last.k \in 0..Len(Game(s).recs) /\ s.last.k \in Nat /\ Game(s).recs \in Seq(Records)
      BY <1>6 DEF InGame
    <3>2. Len(Game(s).recs) \in Nat
      BY <3>1, LenProperties
    <3>3. s.last.k - 1 \in 0..Len(Game(s).recs)
      BY <1>4, <3>1, <3>2
    <3> QED BY <1>6, <3>3 DEF InGame, Game
  <2> QED BY <1>4, <1>5, <1>7, <2>1, CalculateBoardIs
<1>9. Walk(CalculateBoard(u))
  BY <1>2, <1>3 DEF CommandPrevious
<1>10. PICK t : t = CalculateBoard(u)
  OBVIOUS
<1> QED BY <1>2, <1>5, <1>8, <1>9, <1>10, NowIs, WalkIs

\* ChangeGame is a walk.
LEMMA ChangeGameIs == ASSUME IInv, ChangeGame PROVE WalkStep
<1>1. ~fNextTurn /\ ms.resigned = 0
  BY DEF ChangeGame, Walk, Verb
<1>2. PICK s : s = Now
  OBVIOUS
<1>3. PICK g \in {s.last.g - 1, s.last.g + 1} \cap DOMAIN s.lMatch :
        LET t == CalculateBoard([s EXCEPT !.last = [g |-> g, k |-> 0]])
            recs == s.lMatch[g].recs
        IN  Walk(IF recs = <<>> \/ t.ms.turn = recs[1].p THEN t ELSE Faced(t, recs[1].p))
  BY <1>2, NowIs DEF ChangeGame, Faced
<1>4. PICK u : u = [s EXCEPT !.last = [g |-> g, k |-> 0]]
  OBVIOUS
<1>5. PICK t : t = CalculateBoard(u)
  OBVIOUS
<1>6. Core(s) /\ s.next = FALSE /\ s.ms.resigned = 0
  BY <1>1, <1>2, NowIs DEF IInv
<1>7. s.lMatch \in Seq(Games) /\ g \in 1..Len(s.lMatch) /\ GameOK(s.lMatch[g]) /\ s.lMatch # <<>>
  <2>1. s.lMatch \in Seq(Games)
    BY <1>6 DEF Core, Recorded
  <2>2. g \in 1..Len(s.lMatch) /\ s.lMatch # <<>>
    BY <1>3, <2>1
  <2> QED BY <1>6, <2>1, <2>2 DEF Core, Recorded
<1>8. s.last.g # 0
  BY <1>6, <1>7 DEF Core
<1>9. Sought(s, u, g, 0)
  <2> DEFINE l == [g |-> g, k |-> 0]
             v == [s EXCEPT !.last = l]
  <2>2. l.g = g /\ l.k = 0 /\ DOMAIN l = {"g", "k"} /\ IsFcn(l)
    BY DEF IsFcn
  <2>1. u = v
    BY <1>4
  <2> HIDE DEF l
  <2>3. /\ v.ms = s.ms /\ v.lMatch = s.lMatch /\ v.last = l /\ v.next = s.next /\ v.craw = s.craw
        /\ v.session = s.session
    BY <1>6 DEF Core, Whole
  <2>4. DOMAIN v = DOMAIN s /\ IsFcn(v)
    BY ExceptIsFcn
  <2> HIDE DEF v
  <2> QED BY <1>6, <2>1, <2>2, <2>3, <2>4 DEF Core, Whole, Sought
<1>10. /\ Elsewhere(s, t) /\ t.last = u.last /\ IsState(t.ms)
       /\ t.ms \in {Base(s.lMatch[g].info), FixMatchState(Base(s.lMatch[g].info), s.lMatch[g].recs[1])}
  <2>1. 0 \in 0..Len(s.lMatch[g].recs)
    <3>0. s.lMatch[g] \in Games
      BY <1>7
    <3>1. s.lMatch[g].recs \in Seq(Records)
      BY <3>0 DEF Games
    <3>2. Len(s.lMatch[g].recs) \in Nat
      BY <3>1, LenProperties
    <3> QED BY <3>2
  <2>2. PICK k : k = 0
    OBVIOUS
  <2>3. k \in 0..Len(s.lMatch[g].recs) /\ Sought(s, u, g, k)
    BY <1>9, <2>1, <2>2
  <2>4. /\ Elsewhere(s, CalculateBoard(u))
        /\ CalculateBoard(u).last = u.last /\ IsState(CalculateBoard(u).ms)
        /\ k = 0 => CalculateBoard(u).ms \in {Base(s.lMatch[g].info),
                            FixMatchState(Base(s.lMatch[g].info), s.lMatch[g].recs[1])}
    <3> HIDE <2>1, <2>2
    <3> QED BY <1>6, <1>7, <1>8, <2>3, CalculateBoardIs
  <2> QED BY <1>5, <2>2, <2>4
<1>11. Game(t) = s.lMatch[g] /\ t.last.k = 0
  BY <1>9, <1>10 DEF Game, Sought, Elsewhere
<1>12. PICK w : w = IF s.lMatch[g].recs = <<>> \/ t.ms.turn = s.lMatch[g].recs[1].p THEN t
                    ELSE Faced(t, s.lMatch[g].recs[1].p)
  OBVIOUS
<1>13. Walk(w)
  BY <1>3, <1>4, <1>5, <1>12
<1>14. Elsewhere(s, w)
  <2>1. CASE t.ms.turn = s.lMatch[g].recs[1].p
    BY <1>10, <1>12, <2>1
  <2>2. CASE t.ms.turn # s.lMatch[g].recs[1].p
    <3>1. s.lMatch[g].recs # <<>>
      BY <1>7 DEF GameOK
    <3>2. Recorded(s.lMatch)
      BY <1>6 DEF Core
    <3>3. Elsewhere(s, Faced(t, Game(t).recs[1].p))
      BY <1>10, <1>11, <2>2, <3>2, FacedIs
    <3> QED BY <1>11, <1>12, <2>2, <3>1, <3>3
  <2> QED BY <2>1, <2>2
<1> QED BY <1>2, <1>8, <1>13, <1>14, NowIs, WalkIs

\* Every verb, and every NextTurn, is one of these.
LEMMA NextIs == ASSUME IInv, Next PROVE DrainStep \/ PlayStep \/ StartStep \/ ButtonStep \/ WalkStep
<1>1. NextTurn \/ StartVerb \/ GameVerb \/ NewGameButton \/ CommandNext \/ CommandPrevious \/ ChangeGame
  BY DEF Next, StartVerb, GameVerb
<1> QED BY <1>1, NextTurnIs, StartVerbIs, GameVerbIs, NewGameButtonIs, CommandNextIs,
           CommandPreviousIs, ChangeGameIs

\* The invariant, as a property of the record that is the state.
LEMMA NowOK == ASSUME IInv PROVE StateOK(Now)
BY NowIs DEF IInv, StateOK

\* Every step is lawful.
LEMMA NextLawful == ASSUME IInv, Next PROVE Lawful(Now, Now')
<1>1. CASE DrainStep
  BY <1>1, NowIs DEF DrainStep, Lawful
<1>2. CASE PlayStep
  BY <1>2, NowIs DEF PlayStep, Lawful
<1>3. CASE StartStep
  BY <1>3, NowIs DEF StartStep, Lawful
<1>4. CASE ButtonStep
  BY <1>4, NowIs DEF ButtonStep, Lawful
<1>5. CASE WalkStep
  BY <1>5, NowIs DEF WalkStep, Lawful
<1> QED BY <1>1, <1>2, <1>3, <1>4, <1>5, NextIs

\* The invariant holds of the program just started.
LEMMA InitIs == Init => IInv
<1> SUFFICES ASSUME Init PROVE IInv
  OBVIOUS
<1>1. PICK s : s = Now
  OBVIOUS
<1>2. /\ s.ms = Blank /\ s.lMatch = <<>> /\ s.last = [g |-> 0, k |-> 0] /\ s.next = FALSE
      /\ s.craw = <<>>
  BY <1>1, NowIs DEF Init, Blank, FullBoard
<1>3. IsFcn(s) /\ DOMAIN s = {"ms", "lMatch", "last", "next", "craw", "session"}
  BY <1>1 DEF Now, IsFcn
<1>4. s.last.g = 0 /\ s.last.k = 0 /\ IsFcn(s.last) /\ DOMAIN s.last = {"g", "k"}
  BY <1>2 DEF IsFcn
<1>5. Recorded(s.lMatch) /\ Len(s.lMatch) = 0
  <2>1. s.lMatch \in Seq(Games) /\ Len(s.lMatch) = 0
    BY <1>2
  <2> QED BY <2>1 DEF Recorded
<1>6. Whole(s)
  BY <1>3, <1>4 DEF Whole
<1>7. Core(s)
  BY <1>2, <1>4, <1>5, <1>6 DEF Core
<1>8. AtTheEnd(s)
  BY <1>4, <1>5 DEF AtTheEnd
<1>9. Duty(s)
  BY <1>2, <1>8, BlankIs DEF Duty
<1>10. Owes(s)
  BY <1>2, BlankIs DEF Owes
<1> QED BY <1>1, <1>2, <1>7, <1>8, <1>9, <1>10, NowIs DEF IInv

\* At the end of a game no turn is owed.
LEMMA ClosesOwes ==
  ASSUME NEW s, NEW t, Closes(s, t)
  PROVE  AtTheEnd(t) /\ Owes(t)
<1>1. PICK u : /\ u = [s EXCEPT !.next = FALSE] /\ s.ms.gs \in Ended /\ EndsIn(u, EndOfGame(u))
               /\ AtTheEnd(EndOfGame(u)) /\ Core(EndOfGame(u))
               /\ t = EndOfGame(u) \/ Started(EndOfGame(u), t)
  BY DEF Closes
<1>2. CASE t = EndOfGame(u)
  <2>1. u.ms = s.ms
    BY <1>1
  <2>2. t.ms.gs = s.ms.gs
    BY <1>1, <1>2, <2>1 DEF EndsIn
  <2> QED BY <1>1, <1>2, <2>2, Kinds DEF Owes
<1>3. CASE Started(EndOfGame(u), t)
  BY <1>3, StartedIs
<1> QED BY <1>1, <1>2, <1>3

\* Every step keeps the invariant.
LEMMA NextKeeps == ASSUME IInv, Next PROVE IInv'
<1>1. StateOK(Now) /\ (~walked => AtTheEnd(Now) /\ Owes(Now))
  BY NowOK DEF IInv
<1>2. PICK s : s = Now
  OBVIOUS
<1>3. PICK t : t = Now'
  OBVIOUS
<1>4. StateOK(t)
  BY <1>1, <1>2, <1>3, NextLawful, LawfulIs
<1>5. ~walked' => AtTheEnd(t) /\ Owes(t)
  <2>1. CASE DrainStep
    <3>1. CASE Fine(s, t)
      BY <1>1, <1>2, <2>1, <3>1 DEF DrainStep, Fine
    <3>2. CASE Closes(s, t)
      BY <3>2, ClosesOwes
    <3> QED BY <1>2, <1>3, <2>1, <3>1, <3>2 DEF DrainStep
  <2>2. CASE PlayStep
    BY <1>1, <1>2, <1>3, <2>2 DEF PlayStep, Fine
  <2>3. CASE StartStep
    BY <1>3, <2>3, AnewIs DEF StartStep
  <2>4. CASE ButtonStep
    <3>1. AtTheEnd(s) /\ Owes(s) /\ StateOK(s) /\ Again(s, t)
      BY <1>1, <1>2, <1>3, <2>4 DEF ButtonStep
    <3> QED BY <3>1, AgainIs
  <2>5. CASE WalkStep
    BY <2>5 DEF WalkStep
  <2> QED BY <2>1, <2>2, <2>3, <2>4, <2>5, NextIs
<1>6. fNextTurn' = t.next
  BY <1>3 DEF Now
<1> QED BY <1>3, <1>4, <1>5, <1>6 DEF IInv, StateOK

\* So does a stutter.
LEMMA StutterKeeps == ASSUME IInv, UNCHANGED vars PROVE IInv'
<1>1. Now' = Now /\ fNextTurn' = fNextTurn /\ walked' = walked
  BY DEF vars, Now
<1> QED BY <1>1 DEF IInv

\* The inductive invariant: every game of the record replays legally, the match state is
\* what the replay up to the cursor leaves, but for a resignation on the table or one that
\* gnubg, having offered one itself, has refused, and the drain owes a turn when the rules want one.
THEOREM Invariant == Spec => []IInv
<1>1. Init => IInv
  BY InitIs
<1>2. IInv /\ [Next]_vars => IInv'
  BY NextKeeps, StutterKeeps
<1> QED BY <1>1, <1>2, PTL DEF Spec

---------------------------------------------------------------------------
(* What follows from the invariant.                                        *)

\* What the invariant says of the game the cursor is in ...
LEMMA LastInGame ==
  ASSUME IInv, last.g # 0
  PROVE  /\ InGame(Now) /\ Pending(ms, At(Now), Game(Now).recs[1].p) /\ Game(Now) = lMatch[last.g]
         /\ FactsAt(Game(Now), last.k) /\ Sound(At(Now))
         /\ Behind(Now) = After(lMatch[last.g], last.k).ms
         /\ Facts(At(Now), Game(Now).info, Game(Now).recs, last.k)
         /\ last.g \in 1..Len(lMatch) /\ last.k \in 0..Len(lMatch[last.g].recs)
<1>1. InGame(Now)
  BY NowIs, CoreInGame DEF IInv
<1>2. Game(Now) = lMatch[last.g] /\ Behind(Now) = After(lMatch[last.g], last.k).ms
  BY NowIs DEF Game, Behind
<1>3. /\ Pending(Now.ms, At(Now), Game(Now).recs[1].p) /\ FactsAt(Game(Now), Now.last.k)
      /\ Sound(At(Now)) /\ Facts(At(Now), Game(Now).info, Game(Now).recs, Now.last.k)
      /\ Now.last.g \in 1..Len(Now.lMatch) /\ Now.last.k \in 0..Len(Game(Now).recs)
  BY <1>1 DEF InGame
<1> QED BY <1>1, <1>2, <1>3, NowIs

\* ... of every game of the record ...
LEMMA EveryGame ==
  ASSUME IInv
  PROVE  /\ lMatch \in Seq(Games) /\ DOMAIN lMatch = 1..Len(lMatch)
         /\ \A g \in DOMAIN lMatch :
              /\ GameOK(lMatch[g]) /\ lMatch[g].recs \in Seq(Records)
              /\ DOMAIN lMatch[g].recs = 1..Len(lMatch[g].recs)
<1>1. /\ lMatch \in Seq(Games) /\ \A g \in 1..Len(lMatch) : GameOK(lMatch[g])
  BY NowIs DEF IInv, Core, Recorded
<1>2. DOMAIN lMatch = 1..Len(lMatch)
  BY <1>1
<1>3. ASSUME NEW g \in DOMAIN lMatch
      PROVE  lMatch[g].recs \in Seq(Records) /\ DOMAIN lMatch[g].recs = 1..Len(lMatch[g].recs)
  <2>1. lMatch[g].recs \in Seq(Records)
    <3>1. lMatch[g] \in Games
      BY <1>1
    <3> QED BY <3>1 DEF Games
  <2> QED BY <2>1
<1> QED BY <1>1, <1>2, <1>3

\* ... and of the fields of the match state.
LEMMA StateIsTyped ==
  ASSUME IInv
  PROVE  /\ ms.gs \in {"none", "playing"} \cup Ended
         /\ ms.turn \in Who /\ ms.move \in Who /\ ms.owner \in Who
         /\ ms.dice \in {NoDice, Stuck, Open} /\ ms.doubled \in BOOLEAN
         /\ ms.crawford \in BOOLEAN /\ ms.post \in BOOLEAN
         /\ ms.resigned \in 0..3 /\ ms.declined \in 0..3 /\ ms.beavers \in 0..NBeavers
         /\ ms.cube \in 1..MaxCube /\ ms.board \in [Players -> 0..Men]
<1>1. CASE last.g = 0
  <2>1. ms = Blank
    BY <1>1, NowIs DEF IInv, Core
  <2>2. FullBoard \in [Players -> 0..Men] /\ NBeavers \in Nat /\ MaxCube \in Nat \ {0}
    BY MaxCubeIs DEF FullBoard
  <2> QED BY <2>1, <2>2 DEF Blank, Who, Players
<1>2. CASE last.g # 0
  <2> DEFINE b == At(Now)
             p == Game(Now).recs[1].p
  <2>1. Pending(ms, b, p) /\ Sound(b) /\ p \in Players
    <3>1. GameOK(lMatch[last.g]) /\ lMatch[last.g].recs \in Seq(Records)
          /\ DOMAIN lMatch[last.g].recs = 1..Len(lMatch[last.g].recs)
      BY <1>2, LastInGame, EveryGame
    <3>2. lMatch[last.g].recs # <<>>
      BY <3>1 DEF GameOK
    <3>3. lMatch[last.g].recs[1] \in Records
      <4>1. 1 \in 1..Len(lMatch[last.g].recs)
        BY <3>1, <3>2, EmptySeq
      <4> QED BY <3>1, <4>1
    <3> QED BY <1>2, <3>3, LastInGame DEF Records
  <2> HIDE DEF b, p
  <2>2. /\ ms.gs \in {"none", "playing"} \cup Ended /\ ms.owner \in Who
        /\ ms.dice \in {NoDice, Stuck, Open} /\ ms.doubled \in BOOLEAN
        /\ ms.crawford \in BOOLEAN /\ ms.post \in BOOLEAN
        /\ ms.resigned \in 0..3 /\ ms.declined \in 0..3 /\ ms.beavers \in 0..NBeavers
        /\ ms.board \in [Players -> 0..Men]
    <3>1. Alongside(ms, b) /\ Typed(b) /\ Placed(ms, b)
      BY <2>1 DEF Pending, Alongside, Sound
    <3>2. SwapSides(b.board) \in [Players -> 0..Men]
      <4>1. b.board[0] \in 0..Men /\ b.board[1] \in 0..Men
        BY <3>1, OtherPlayer DEF Typed
      <4> QED BY <4>1, SwapSidesIs
    <3>3. ms.board \in [Players -> 0..Men]
      BY <3>1, <3>2 DEF Placed, Typed
    <3> QED BY <3>1, <3>3 DEF Alongside, Typed
  <2>3. ms.turn \in Who /\ ms.move \in Who
    <3>1. Alongside(ms, b) /\ Placed(ms, b) /\ (ms.gs = "none" => Waiting(ms, p))
          /\ (b.gs # "none" => b.move \in Players) /\ ms.gs = b.gs
      BY <2>1 DEF Pending, Alongside, Sound
    <3>2. CASE ms.gs = "none"
      BY <2>1, <3>1, <3>2 DEF Waiting, Who
    <3>3. CASE ms.gs # "none"
      BY <3>1, <3>3, OtherPlayer DEF Placed, Alongside, Who
    <3> QED BY <3>2, <3>3
  <2>4. ms.cube \in 1..MaxCube
    BY <2>1, CubeTurns DEF Pending, Alongside, Sound
  <2> QED BY <2>2, <2>3, <2>4
<1> QED BY <1>1, <1>2

\* The invariant implies TypeOK.
LEMMA InvariantTypes == ASSUME IInv PROVE TypeOK
<1>1. /\ ms.gs \in {"none", "playing", "over", "drop", "resigned"}
      /\ {ms.turn, ms.move, ms.owner} \subseteq Players \cup {Nobody}
      /\ ms.dice \in {NoDice, Stuck, Open} /\ {ms.doubled, ms.crawford, ms.post} \subseteq BOOLEAN
      /\ {ms.resigned, ms.declined} \subseteq 0..3 /\ ms.beavers \in 0..NBeavers
      /\ ms.cube \in 1..MaxCube /\ ms.board \in [Players -> 0..Men]
  <2>1. ms.gs \in {"none", "playing", "over", "drop", "resigned"}
    BY StateIsTyped DEF Ended
  <2>2. {ms.turn, ms.move, ms.owner} \subseteq Players \cup {Nobody}
    BY StateIsTyped DEF Who
  <2>3. {ms.doubled, ms.crawford, ms.post} \subseteq BOOLEAN
    BY StateIsTyped
  <2>4. {ms.resigned, ms.declined} \subseteq 0..3
    BY StateIsTyped
  <2> QED BY <2>1, <2>2, <2>3, <2>4, StateIsTyped
<1>2. last.g \in 0..Len(lMatch) /\ fNextTurn \in BOOLEAN
  BY NowIs DEF IInv, Core
<1>3. last.g # 0 => last.k \in 0..Len(lMatch[last.g].recs)
  BY LastInGame
<1>4. ASSUME NEW g \in DOMAIN lMatch, NEW i \in DOMAIN lMatch[g].recs
      PROVE  lMatch[g].recs[i].mt \in RecordKinds
  <2>1. lMatch[g].recs[i] \in Records
    BY EveryGame
  <2> QED BY <2>1 DEF Records
<1> QED BY <1>1, <1>2, <1>3, <1>4 DEF TypeOK

\* The invariant implies BoardIsOriented.
LEMMA InvariantOrients == ASSUME IInv PROVE BoardIsOriented
<1> SUFFICES ASSUME ms.gs # "none", NEW p \in Players
             PROVE  ms.board[IF p = ms.move THEN 1 ELSE 0]
                      = Men - BorneOff(lMatch[last.g].recs, last.k, p)
  BY DEF BoardIsOriented
<1>1. last.g # 0
  BY NowIs, BlankIs DEF IInv, Core
<1> DEFINE m == At(Now)
           men == Men - BorneOff(lMatch[last.g].recs, last.k, p)
<1>2. Placed(ms, m) /\ m.gs = ms.gs /\ Sound(m) /\ Boards(m, lMatch[last.g].recs, last.k)
  BY <1>1, LastInGame DEF Pending, Alongside, Facts
<1> HIDE DEF m
<1>3. m.board[IF p = m.move THEN 1 ELSE 0] = men
  BY <1>2 DEF Boards
<1>4. m.move \in Players
  BY <1>2 DEF Sound
<1> HIDE DEF men
<1>5. CASE ms.board = m.board /\ ms.move = m.move
  BY <1>3, <1>5 DEF men
<1>6. CASE ms.board = SwapSides(m.board) /\ ms.move = Other(m.move)
  <2>1. ms.board[1] = m.board[0] /\ ms.board[0] = m.board[1]
    BY <1>6, SwapSidesIs
  <2>2. p = ms.move <=> p # m.move
    BY <1>4, <1>6, OtherPlayer
  <2> QED BY <1>3, <2>1, <2>2 DEF men
<1> QED BY <1>2, <1>5, <1>6 DEF Placed

\* The invariant implies ReplayAgrees.
LEMMA InvariantReplays == ASSUME IInv PROVE ReplayAgrees
<1> SUFFICES ASSUME ~fNextTurn, ms.gs = "playing", ms.resigned = 0
             PROVE  [Replay(ms, lMatch[last.g], last.k).ms EXCEPT
                        !.declined = ms.declined, !.turn = IF TurnForgone THEN Human ELSE @] = ms
  BY DEF ReplayAgrees
<1>1. last.g # 0
  BY NowIs, BlankIs DEF IInv, Core
<1> DEFINE b == At(Now)
           r == Replay(ms, lMatch[last.g], last.k).ms
           turn == IF TurnForgone THEN Human ELSE b.turn
           c == [b EXCEPT !.declined = ms.declined, !.turn = turn]
<1>2. Alongside(ms, b) /\ b.gs = "playing" /\ Sound(b) /\ Facts(b, Game(Now).info, Game(Now).recs, last.k)
  BY <1>1, LastInGame DEF Pending, Alongside
<1>3. last.k # 0
  BY <1>2 DEF Facts
<1>4. r = b
  <2>1. GameOK(lMatch[last.g]) /\ last.k \in 0..Len(lMatch[last.g].recs) /\ last.g \in 1..Len(lMatch)
    BY <1>1, LastInGame, EveryGame
  <2>2. last.k > 0
    <3>1. last.k \in Nat
      BY <2>1, <1>1, LastInGame, NowIs DEF InGame
    <3> QED BY <1>3, <3>1
  <2>3. IsState(ms)
    BY <1>2 DEF Alongside
  <2>4. r = Onward(lMatch[last.g], last.k)
    BY <2>1, <2>2, <2>3, ReplayIs
  <2>5. b = Onward(lMatch[last.g], last.k)
    <3>1. Game(Now) = lMatch[last.g] /\ Now.last.k = last.k
      BY <1>1, LastInGame, NowIs
    <3>2. b = IF last.k < Len(lMatch[last.g].recs)
                 /\ Skipped(After(lMatch[last.g], last.k).ms, lMatch[last.g].recs[last.k + 1])
                THEN Facing(After(lMatch[last.g], last.k).ms) ELSE After(lMatch[last.g], last.k).ms
      BY <3>1 DEF At, Skips, Behind
    <3> QED BY <3>2 DEF Onward
  <2> QED BY <2>4, <2>5
<1>5. ms.turn = turn
  <2>1. Core(Now) /\ Duty(Now) /\ Now.ms = ms
    BY NowIs DEF IInv
  <2>2. ms.turn # b.turn => Forgone(Now)
    BY <2>1, ReplayStands
  <2>3. Forgone(Now) => TurnForgone /\ ms.turn = Human
    BY <2>1 DEF Forgone, TurnForgone
  <2>4. TurnForgone => ms.turn = Human
    BY DEF TurnForgone
  <2> HIDE DEF b
  <2> QED BY <2>2, <2>3, <2>4
<1> HIDE DEF b, turn
<1>6. b.resigned = 0 /\ IsState(b)
  BY <1>2 DEF Sound, InPlay, Typed
<1>7. /\ IsState(c) /\ c.declined = ms.declined /\ c.turn = turn
      /\ c.gs = b.gs /\ c.move = b.move /\ c.dice = b.dice
      /\ c.doubled = b.doubled /\ c.resigned = b.resigned /\ c.cube = b.cube /\ c.owner = b.owner
      /\ c.beavers = b.beavers /\ c.score = b.score /\ c.cGames = b.cGames
      /\ c.crawford = b.crawford /\ c.post = b.post /\ c.nMatchTo = b.nMatchTo /\ c.board = b.board
  BY <1>6, ExceptIsFcn DEF IsState, Fields
<1>8. [r EXCEPT !.declined = ms.declined, !.turn = IF TurnForgone THEN Human ELSE @] = c
  BY <1>4, <1>6 DEF turn, IsState, Fields
<1> HIDE DEF c
<1>9. Placed(ms, b) /\ ms.gs \notin Ended
  BY <1>2, Kinds DEF Alongside
<1>10. c = ms
  BY <1>2, <1>5, <1>6, <1>7, <1>9, SameState DEF Alongside, Placed
<1> QED BY <1>8, <1>10

\* The invariant implies HumanOwesNext.
LEMMA InvariantOwes == ASSUME IInv PROVE HumanOwesNext
<1> SUFFICES ASSUME ~fNextTurn, ~walked, ms.gs = "playing" PROVE ms.turn = Human
  BY DEF HumanOwesNext
<1>1. ms.turn \in Players
  BY TurnIs, NowIs DEF IInv
<1>2. ms.turn # Gnu
  BY NowIs DEF IInv, Duty, Owes
<1> QED BY <1>1, <1>2 DEF Players

\* What a game of the record tells of its record i.
LEMMA RecordTold ==
  ASSUME NEW game, GameOK(game), NEW i \in 1..Len(game.recs)
  PROVE  /\ Allowed(After(game, i - 1).ms, game.recs[i]) /\ FactsAt(game, i - 1)
         /\ After(game, i - 1).ms.gs = "none" <=> i = 1
         /\ i \in Nat /\ i - 1 \in Nat
<1>1. game.recs \in Seq(Records)
  BY DEF GameOK, GameUpTo, Games
<1>2. Len(game.recs) \in Nat
  BY <1>1, LenProperties
<1>3. i \in 1..Len(game.recs) /\ i - 1 \in 0..Len(game.recs) /\ i \in Nat /\ i - 1 \in Nat
      /\ (i - 1 = 0 <=> i = 1)
  BY <1>2
<1>4. FactsAt(game, i - 1) /\ Allowed(After(game, i - 1).ms, game.recs[i])
  BY <1>3 DEF GameOK, GameUpTo
<1> QED BY <1>3, <1>4 DEF FactsAt, Facts

\* The invariant implies GnubgMovesInTurn.
LEMMA InvariantAlternates == ASSUME IInv PROVE GnubgMovesInTurn
<1> DEFINE Moves(recs, p) == {i \in DOMAIN recs : recs[i].mt = "normal" /\ recs[i].p = p}
<1> SUFFICES ASSUME NEW g \in DOMAIN lMatch,
                    NEW i \in Moves(lMatch[g].recs, Gnu), NEW j \in Moves(lMatch[g].recs, Gnu),
                    i < j, (i + 1)..(j - 1) \cap Moves(lMatch[g].recs, Human) = {}
             PROVE  FALSE
  BY DEF GnubgMovesInTurn
<1> DEFINE game == lMatch[g]
           recs == game.recs
           m == After(game, j - 1).ms
<1>1. GameOK(game) /\ DOMAIN recs = 1..Len(recs) /\ recs \in Seq(Records) /\ Len(recs) \in Nat
  BY EveryGame, LenProperties
<1>2. /\ i \in 1..(j - 1) /\ j \in 1..Len(recs) /\ j # 1 /\ i \in Nat /\ j \in Nat
      /\ recs[i].mt = "normal" /\ recs[i].p = Gnu /\ recs[j].mt = "normal" /\ recs[j].p = Gnu
      /\ \A l \in (i + 1)..(j - 1) : l \in 1..Len(recs)
  BY <1>1
<1>3. \A l \in (i + 1)..(j - 1) : ~(recs[l].mt = "normal" /\ recs[l].p = Human)
  BY <1>1, <1>2
<1>4. Allowed(m, recs[j]) /\ FactsAt(game, j - 1) /\ m.gs # "none"
  <2> HIDE DEF game
  <2> QED BY <1>1, <1>2, RecordTold
<1>5. Turns(m, recs, j - 1) /\ Sound(m)
  BY <1>4 DEF FactsAt, Facts
<1> HIDE DEF m, recs
<1>6. Legal(m, recs[j])
  BY <1>2, <1>4, HumanIs DEF Allowed
<1>7. m.gs = "playing" /\ ~m.doubled /\ m.turn = Gnu
  BY <1>2, <1>4, <1>6 DEF Legal
<1>8. m.move = Human
  BY <1>2, <1>3, <1>5, <1>7 DEF Turns
<1> QED BY <1>5, <1>7, <1>8, HumanIs DEF Sound, InPlay

\* The invariant implies CubeProtocol.
LEMMA InvariantCube == ASSUME IInv PROVE CubeProtocol
<1> SUFFICES ASSUME NEW g \in DOMAIN lMatch, NEW i \in DOMAIN lMatch[g].recs
             PROVE  LET recs == lMatch[g].recs
                        info == lMatch[g].info
                        Taken1 == {j \in 1..(i - 1) : recs[j].mt = "take"}
                    IN  /\ recs[i].mt \in {"take", "drop"} =>
                             i > 1 /\ recs[i - 1].mt = "double" /\ recs[i - 1].p = Other(recs[i].p)
                        /\ (recs[i].mt = "double" /\ info.nMatch # 0) =>
                             /\ ~info.crawford
                             /\ info.score[recs[i].p] + Shl[Cardinality(Taken1)] < info.nMatch
                             /\ \A j \in Taken1 : (\A k \in Taken1 : k <= j) => recs[j].p = recs[i].p
  BY DEF CubeProtocol
<1> DEFINE game == lMatch[g]
           recs == game.recs
           info == game.info
           r == recs[i]
           m == After(game, i - 1).ms
           took == Takes(recs, i - 1)
<1>1. GameOK(game) /\ DOMAIN recs = 1..Len(recs) /\ recs \in Seq(Records) /\ r \in Records
  BY EveryGame
<1>2. i \in 1..Len(recs)
  BY <1>1
<1>3. /\ Allowed(m, r) /\ FactsAt(game, i - 1) /\ (m.gs = "none" <=> i = 1) /\ i \in Nat /\ i - 1 \in Nat
  <2> HIDE DEF game
  <2> QED BY <1>1, <1>2, RecordTold
<1>4. /\ Sound(m) /\ Setting(m, info) /\ Offered(m, recs, i - 1) /\ Cube(m, recs, i - 1)
  BY <1>3 DEF FactsAt, Facts
<1>5. game \in Games
  BY <1>1 DEF GameOK, GameUpTo
<1> HIDE DEF m, game
<1>6. r.mt \in {"take", "drop"} => i > 1 /\ recs[i - 1].mt = "double" /\ recs[i - 1].p = Other(r.p)
  <2> SUFFICES ASSUME r.mt \in {"take", "drop"}
               PROVE  i > 1 /\ recs[i - 1].mt = "double" /\ recs[i - 1].p = Other(r.p)
    OBVIOUS
  <2>1. m.doubled /\ m.turn = r.p /\ m.gs = "playing"
    BY <1>3 DEF Legal, Allowed
  <2>2. i - 1 > 0 /\ recs[i - 1].mt = "double" /\ recs[i - 1].p = Other(m.turn)
    BY <1>4, <2>1 DEF Offered
  <2>3. i > 1
    BY <1>3, <2>2
  <2> QED BY <2>1, <2>2, <2>3
<1>7. (r.mt = "double" /\ info.nMatch # 0) =>
         /\ ~info.crawford
         /\ info.score[r.p] + Shl[Cardinality(took)] < info.nMatch
         /\ \A j \in took : (\A k \in took : k <= j) => recs[j].p = r.p
  <2> SUFFICES ASSUME r.mt = "double", info.nMatch # 0
               PROVE  /\ ~info.crawford
                      /\ info.score[r.p] + Shl[Cardinality(took)] < info.nMatch
                      /\ \A j \in took : (\A k \in took : k <= j) => recs[j].p = r.p
    OBVIOUS
  <2>1. m.nMatchTo = info.nMatch /\ m.crawford = info.crawford
    BY <1>4 DEF Setting
  <2>2. m.gs = "playing" /\ m.owner \in {Nobody, r.p} /\ ~m.crawford
        /\ m.cube < m.nMatchTo - m.score[r.p]
    <3>1. CASE Legal(m, r)
      BY <2>1, <3>1 DEF Legal
    <3>2. CASE Passed(m) /\ Legal(Facing(m), r)
      <4> DEFINE n == Facing(m)
      <4>1. n.owner = m.owner /\ n.crawford = m.crawford /\ n.cube = m.cube /\ n.nMatchTo = m.nMatchTo
            /\ n.score = m.score /\ ~n.doubled /\ m.gs = "playing"
        BY <1>4, <3>2 DEF Facing, Passed, Sound, Typed, IsState, Fields
      <4> HIDE DEF n
      <4>2. Legal(n, r)
        BY <3>2 DEF n
      <4> QED BY <2>1, <4>1, <4>2 DEF Legal
    <3> QED BY <1>3, <3>1, <3>2 DEF Allowed
  <2>5. m.score = info.score
    BY <1>4, <2>2 DEF Setting, Ended
  <2>6. m.cube = Shl[Cardinality(took)] /\ m.cube \in 1..MaxCube /\ MaxCube \in Nat
        /\ \A j \in took : (\A l \in took : l <= j) => m.owner = recs[j].p
    BY <1>4, <2>1, <2>2, CubeTurns, MaxCubeIs DEF Cube, Ended, Sound
  <2>7. info.nMatch \in Nat /\ info.score[r.p] \in Nat
    BY <1>1, <1>5 DEF Games, Infos, Records
  <2>8. info.score[r.p] + Shl[Cardinality(took)] < info.nMatch
    <3> DEFINE c == Shl[Cardinality(took)]
               p == info.score[r.p]
               n == info.nMatch
    <3>1. c \in Int /\ p \in Int /\ n \in Int /\ c < n - p
      BY <2>1, <2>2, <2>5, <2>6, <2>7
    <3> HIDE DEF c, p, n
    <3> QED BY <3>1 DEF c, p, n
  <2>9. \A j \in took : (\A k \in took : k <= j) => recs[j].p = r.p
    <3> SUFFICES ASSUME NEW j \in took, \A k \in took : k <= j PROVE recs[j].p = r.p
      OBVIOUS
    <3>1. m.owner = recs[j].p
      BY <2>6
    <3>2. j \in 1..Len(recs)
      BY <1>2, <1>3 DEF Takes
    <3>3. recs[j] \in Records
      BY <1>1, <3>2
    <3>4. recs[j].p # Nobody
      BY <3>3 DEF Records, Players, Human, Gnu, Nobody
    <3> QED BY <2>2, <3>1, <3>4
  <2> QED BY <2>1, <2>2, <2>8, <2>9
<1> QED BY <1>6, <1>7 DEF Takes, game

\* Every variable keeps to its type, and the cube to MAX_CUBE, through every command, walk
\* and restart.
THEOREM TypeCorrect == Spec => []TypeOK
BY Invariant, InvariantTypes, PTL

\* The board is the one the record tells of, and index 1 is the player on move, however
\* often it was turned on the way (SwapSides in ApplyMoveRecord, FixMatchState, ChangeGame).
THEOREM OrientationCorrect == Spec => []BoardIsOriented
BY Invariant, InvariantOrients, PTL

\* Playing on and replaying come to the same: CalculateBoard at the cursor would restore the
\* match state that play has left, which undo, previous and next rely on; but for the turn that
\* gnubg forgoes when it refuses a resignation smaller than its own (ComputerTurn).
THEOREM ReplayCorrect == Spec => []ReplayAgrees
BY Invariant, InvariantReplays, PTL

\* In the record of every game stands a move of the human's between two of gnubg's: no
\* command, and no refusal of the computer, gives it a second one (NextTurn, ComputerTurn).
THEOREM MovesCorrect == Spec => []GnubgMovesInTurn
BY Invariant, InvariantAlternates, PTL

\* The record of every game keeps to the protocol of the cube: an answer follows a double of
\* the other side, who doubles owns the cube or it is centred, none doubles in a Crawford
\* game or past the length of the match.
THEOREM CubeCorrect == Spec => []CubeProtocol
BY Invariant, InvariantCube, PTL

\* When the drain has ended at the end of a game in play, and nothing was walked back, the
\* human is on turn: the computer is never left to act (gnubg_mobile.c, the loops around
\* NextTurn).
THEOREM HumanCorrect == Spec => []HumanOwesNext
BY Invariant, InvariantOwes, PTL

---------------------------------------------------------------------------
(* The line of scores.  Every game of the record but the last is finished, *)
(* and each goes on from the score of the one before.                      *)

\* The end of a game of the record.
EndOf(game) == After(game, Len(game.recs)).ms
\* The game is over.
Finished(game) == EndOf(game).gs \in Ended

\* The score a match begins with.
Zeros == [p \in Players |-> 0]
\* The scores.
Scores == [Players -> Nat]

\* What the end of a game of the record says of its info, and the reverse.
LEMMA FinishedIs ==
  ASSUME NEW game, GameOK(game)
  PROVE  /\ Finished(game) <=> Complete(game)
         /\ EndOf(game).gs # "none" /\ EndOf(game).nMatchTo = game.info.nMatch
         /\ EndOf(game).crawford = game.info.crawford
         /\ EndOf(game).post = (~game.info.crawford /\ OneAway(game.info))
         /\ game.info.score \in Scores /\ game.info.nMatch \in Nat
         /\ ~Finished(game) => EndOf(game).gs = "playing" /\ EndOf(game).score = game.info.score
         /\ Finished(game) =>
              /\ game.info.winner \in Players /\ game.info.points \in 1..(3 * MaxCube)
              /\ EndOf(game).score = ScoreAfter(game) /\ ScoreAfter(game) \in Scores
<1> DEFINE k == Len(game.recs)
           m == EndOf(game)
           info == game.info
<1>1. game.recs \in Seq(Records) /\ game.recs # <<>> /\ game.info \in Infos /\ GameUpTo(game, k)
  BY DEF GameOK, GameUpTo, Games
<1>2. k \in Nat /\ k # 0 /\ k > 0
  BY <1>1, EmptySeq
<1>3. FactsAt(game, k)
  BY <1>1, <1>2 DEF GameUpTo
<1>4. Facts(m, info, game.recs, k)
  BY <1>3 DEF FactsAt, EndOf
<1> HIDE DEF m
<1>5. Sound(m) /\ Setting(m, info) /\ Ends(m, game.recs, k) /\ m.gs # "none"
  BY <1>2, <1>4 DEF Facts
<1>6. info.score \in Scores /\ info.nMatch \in Nat
  BY <1>1 DEF Infos, Scores
<1>7. m.gs \in Ended <=> Complete(game)
  BY <1>1, <1>2, <1>5 DEF Ends, Complete, Last
<1>8. m.gs \notin Ended => m.gs = "playing" /\ m.score = info.score
  BY <1>5 DEF Sound, Typed, Setting
<1>9. m.gs \in Ended =>
        /\ info.winner \in Players /\ info.points \in 1..(3 * MaxCube) /\ m.score = ScoreAfter(game)
  BY <1>5 DEF Setting, ScoreAfter
<1>10. m.score \in Scores
  BY <1>5 DEF Sound, Typed, Scores
<1>11. m.nMatchTo = info.nMatch /\ m.crawford = info.crawford
       /\ m.post = (~info.crawford /\ OneAway(info))
  BY <1>5 DEF Setting
<1> QED BY <1>5, <1>6, <1>7, <1>8, <1>9, <1>10, <1>11 DEF Finished, m

\* n is the length of the match.
Chain(games, n) ==
    /\ \A g \in 1..Len(games) :
         /\ games[g].info.nMatch = n
         /\ n # 0 => \A p \in Players : games[g].info.score[p] < n
    /\ games # <<>> => games[1].info.score = Zeros
    /\ \A g \in 1..(Len(games) - 1) :
         Finished(games[g]) /\ games[g + 1].info.score = ScoreAfter(games[g])

\* The finished games of a record ...
WonOf(games) == IF games # <<>> /\ ~Complete(Last(games)) THEN Front(games) ELSE games
\* ... the scores after them, from the start ...
LineOf(games) ==
    <<Zeros>> \o [g \in DOMAIN WonOf(games) |-> ScoreAfter(WonOf(games)[g])]
\* ... and how many they are.
WonLen(games) ==
    IF games # <<>> /\ ~Finished(games[Len(games)]) THEN Len(games) - 1 ELSE Len(games)

\* The finished games of a record.
LEMMA WonIs ==
  ASSUME NEW games, Recorded(games), NEW n, Chain(games, n)
  PROVE  /\ WonOf(games) \in Seq(Games) /\ Len(WonOf(games)) = WonLen(games)
         /\ WonLen(games) \in 0..Len(games) /\ Len(games) \in Nat /\ WonLen(games) \in Nat
         /\ \A g \in 1..WonLen(games) :
              WonOf(games)[g] = games[g] /\ Finished(games[g]) /\ GameOK(games[g])
<1>1. games \in Seq(Games) /\ \A g \in 1..Len(games) : GameOK(games[g])
  BY DEF Recorded
<1>2. Len(games) \in Nat /\ (games # <<>> => Len(games) # 0 /\ Len(games) \in 1..Len(games))
  <2>1. Len(games) \in Nat /\ (games # <<>> => Len(games) \in Nat \ {0})
    BY <1>1, EmptySeq
  <2> QED BY <2>1
<1>3. games # <<>> => (Finished(games[Len(games)]) <=> Complete(Last(games)))
  BY <1>1, <1>2, FinishedIs DEF Last
<1>4. CASE games # <<>> /\ ~Complete(Last(games))
  <2>1. WonOf(games) = SubSeq(games, 1, Len(games) - 1) /\ WonLen(games) = Len(games) - 1
    BY <1>3, <1>4 DEF WonOf, WonLen, Front
  <2>2. Len(games) - 1 \in 0..Len(games) /\ Len(games) - 1 \in Nat
    BY <1>2, <1>4
  <2>3. /\ WonOf(games) \in Seq(Games) /\ Len(WonOf(games)) = Len(games) - 1
        /\ \A g \in 1..(Len(games) - 1) : WonOf(games)[g] = games[g]
    BY <1>1, <2>1, <2>2, PrefixIs
  <2>4. \A g \in 1..(Len(games) - 1) : g \in 1..Len(games) /\ Finished(games[g])
    BY <1>2 DEF Chain
  <2> QED BY <1>1, <1>2, <2>1, <2>2, <2>3, <2>4
<1>5. CASE ~(games # <<>> /\ ~Complete(Last(games)))
  <2>1. WonOf(games) = games /\ WonLen(games) = Len(games)
    BY <1>3, <1>5 DEF WonOf, WonLen
  <2>2. \A g \in 1..Len(games) : Finished(games[g])
    <3> SUFFICES ASSUME NEW g \in 1..Len(games) PROVE Finished(games[g])
      OBVIOUS
    <3>1. g = Len(games) \/ g \in 1..(Len(games) - 1)
      BY <1>2
    <3>2. games # <<>>
      BY EmptySeq
    <3> QED BY <1>3, <1>5, <3>1, <3>2 DEF Chain
  <2> QED BY <1>1, <1>2, <2>1, <2>2
<1> QED BY <1>4, <1>5

\* The line of scores they make.
LEMMA LineIs ==
  ASSUME NEW games, Recorded(games), NEW n, Chain(games, n)
  PROVE  /\ LineOf(games) \in Seq(Scores) /\ Len(LineOf(games)) = WonLen(games) + 1
         /\ LineOf(games)[1] = Zeros
         /\ \A g \in 1..WonLen(games) : LineOf(games)[g + 1] = ScoreAfter(games[g])
<1> DEFINE W == WonOf(games)
           w == WonLen(games)
           f == [g \in DOMAIN W |-> ScoreAfter(W[g])]
<1>1. /\ W \in Seq(Games) /\ Len(W) = w /\ w \in Nat
      /\ \A g \in 1..w : W[g] = games[g] /\ Finished(games[g]) /\ GameOK(games[g])
  BY WonIs
<1> HIDE DEF W, w
<1>2. DOMAIN W = 1..w
  BY <1>1, LenProperties
<1>3. \A g \in 1..w : f[g] = ScoreAfter(games[g]) /\ f[g] \in Scores
  BY <1>1, <1>2, FinishedIs
<1>4. f \in Seq(Scores) /\ Len(f) = w
  BY <1>1, <1>2, <1>3
<1>5. LineOf(games) = <<Zeros>> \o f
  BY DEF LineOf, W
<1> HIDE DEF f
<1>6. <<Zeros>> \in Seq(Scores) /\ Len(<<Zeros>>) = 1 /\ <<Zeros>>[1] = Zeros
  BY DEF Zeros, Scores
<1> DEFINE a == <<Zeros>>
<1> HIDE DEF a
<1>7. /\ a \o f \in Seq(Scores) /\ Len(a \o f) = Len(a) + Len(f)
      /\ \A i \in 1..(Len(a) + Len(f)) : (a \o f)[i] = IF i <= Len(a) THEN a[i] ELSE f[i - Len(a)]
  <2>1. a \in Seq(Scores)
    BY <1>6 DEF a
  <2> QED BY <1>4, <2>1, ConcatProperties
<1>8. Len(a) = 1 /\ a[1] = Zeros
  BY <1>6 DEF a
<1>9. (a \o f)[1] = Zeros
  BY <1>1, <1>4, <1>7, <1>8
<1>10. \A g \in 1..w : (a \o f)[g + 1] = f[g]
  <2> SUFFICES ASSUME NEW g \in 1..w PROVE (a \o f)[g + 1] = f[g]
    OBVIOUS
  <2>1. g + 1 \in 1..(1 + w) /\ ~(g + 1 <= 1) /\ (g + 1) - 1 = g
    BY <1>1
  <2>2. (a \o f)[g + 1] = IF g + 1 <= 1 THEN a[g + 1] ELSE f[(g + 1) - 1]
    BY <1>4, <1>7, <1>8, <2>1
  <2> QED BY <2>1, <2>2
<1>11. Len(a \o f) = w + 1
  BY <1>1, <1>4, <1>7, <1>8
<1> QED BY <1>3, <1>5, <1>7, <1>9, <1>10, <1>11 DEF a, w

\* A game's GAMEINFO has the score the line comes to before it.
LEMMA LineBefore ==
  ASSUME NEW games, Recorded(games), NEW n, Chain(games, n), NEW g \in 1..Len(games)
  PROVE  g \in 1..Len(LineOf(games)) /\ LineOf(games)[g] = games[g].info.score
<1>1. /\ WonLen(games) \in 0..Len(games) /\ Len(games) \in Nat /\ WonLen(games) \in Nat
      /\ Len(LineOf(games)) = WonLen(games) + 1 /\ LineOf(games)[1] = Zeros
      /\ \A i \in 1..WonLen(games) : LineOf(games)[i + 1] = ScoreAfter(games[i])
  BY WonIs, LineIs
<1>2. WonLen(games) >= Len(games) - 1
  BY <1>1 DEF WonLen
<1>3. g \in Nat /\ g >= 1 /\ g <= Len(games)
  BY <1>1
<1>4. g \in 1..Len(LineOf(games))
  BY <1>1, <1>2, <1>3
<1>5. CASE g = 1
  <2>1. games # <<>>
    BY <1>5, <1>3, EmptySeq
  <2> QED BY <1>1, <1>4, <1>5, <2>1 DEF Chain
<1>6. CASE g # 1
  <2>1. g - 1 \in 1..WonLen(games) /\ g - 1 \in 1..(Len(games) - 1) /\ (g - 1) + 1 = g
    BY <1>1, <1>2, <1>3, <1>6
  <2>2. LineOf(games)[(g - 1) + 1] = ScoreAfter(games[g - 1])
    BY <1>1, <2>1
  <2>3. games[(g - 1) + 1].info.score = ScoreAfter(games[g - 1])
    BY <2>1 DEF Chain
  <2> QED BY <1>4, <2>1, <2>2, <2>3
<1> QED BY <1>5, <1>6

\* b is what becomes of the record a when a game of it, or the next, is played on.
PlaysOn(a, b) ==
    /\ b # <<>> /\ Len(b) - 1 <= Len(a)
    /\ \A i \in 1..(Len(b) - 1) : b[i] = a[i]

\* A record cut, and played on, makes the line cut and grown by one game's points.
LEMMA LineGrows ==
  ASSUME NEW a, NEW b, NEW n, Recorded(a), Recorded(b), Chain(a, n), Chain(b, n), PlaysOn(a, b)
  PROVE  LET k == Len(b)
             L == LineOf(a)
         IN  /\ k \in 1..Len(L)
             /\ \/ LineOf(b) = SubSeq(L, 1, k)
                \/ \E p \in Players, points \in 1..(3 * MaxCube) :
                     /\ n # 0 => \A q \in Players : L[k][q] < n
                     /\ LineOf(b) = Append(SubSeq(L, 1, k), [L[k] EXCEPT ![p] = @ + points])
<1> DEFINE k == Len(b)
           L == LineOf(a)
           M == LineOf(b)
<1>1. /\ L \in Seq(Scores) /\ M \in Seq(Scores) /\ Len(L) = WonLen(a) + 1 /\ Len(M) = WonLen(b) + 1
      /\ WonLen(a) \in Nat /\ WonLen(b) \in Nat /\ Len(a) \in Nat /\ k \in Nat
      /\ WonLen(a) \in 0..Len(a) /\ L[1] = Zeros /\ M[1] = Zeros
      /\ \A g \in 1..WonLen(a) : L[g + 1] = ScoreAfter(a[g])
      /\ \A g \in 1..WonLen(b) : M[g + 1] = ScoreAfter(b[g])
  BY WonIs, LineIs
<1>2. /\ WonLen(b) = IF Finished(b[k]) THEN k ELSE k - 1
      /\ WonLen(a) = Len(a) \/ (WonLen(a) = Len(a) - 1 /\ a # <<>> /\ ~Finished(a[Len(a)]))
      /\ k # 0 /\ k <= Len(a) + 1
  <2>1. b # <<>> /\ k # 0
    BY EmptySeq DEF PlaysOn, Recorded
  <2>2. k - 1 <= Len(a)
    BY DEF PlaysOn
  <2>3. k <= Len(a) + 1
    BY <1>1, <2>2
  <2>4. WonLen(b) = IF Finished(b[k]) THEN k ELSE k - 1
    BY <2>1 DEF WonLen
  <2>5. \/ WonLen(a) = Len(a)
        \/ WonLen(a) = Len(a) - 1 /\ a # <<>> /\ ~Finished(a[Len(a)])
    BY DEF WonLen
  <2> QED BY <2>1, <2>3, <2>4, <2>5
<1>3. WonLen(a) >= k - 1
  <2>1. CASE WonLen(a) = Len(a)
    BY <1>1, <1>2, <2>1
  <2>2. CASE WonLen(a) = Len(a) - 1 /\ a # <<>> /\ ~Finished(a[Len(a)])
    <3>1. k # Len(a) + 1
      <4> SUFFICES ASSUME k = Len(a) + 1 PROVE FALSE
        OBVIOUS
      <4>1. Len(a) # 0
        BY <2>2, EmptySeq DEF Recorded
      <4>2. Len(a) \in 1..(k - 1) /\ k - 1 = Len(a)
        BY <1>1, <4>1
      <4>3. b[Len(a)] = a[Len(a)] /\ Finished(b[Len(a)])
        BY <4>2 DEF PlaysOn, Chain
      <4> QED BY <2>2, <4>3
    <3> QED BY <1>1, <1>2, <2>2, <3>1
  <2> QED BY <1>2, <2>1, <2>2
<1>4. k \in 1..Len(L) /\ k \in 0..Len(L) /\ k \in 1..k
  BY <1>1, <1>2, <1>3
<1> DEFINE S == SubSeq(L, 1, k)
<1>5. S \in Seq(Scores) /\ Len(S) = k /\ \A j \in 1..k : S[j] = L[j]
  BY <1>1, <1>4, PrefixIs
<1>6. \A j \in 1..k : M[j] = L[j]
  <2> SUFFICES ASSUME NEW j \in 1..k PROVE M[j] = L[j]
    OBVIOUS
  <2>1. CASE j = 1
    BY <1>1, <2>1
  <2>2. CASE j # 1
    <3>1. j - 1 \in 1..(k - 1) /\ j - 1 \in 1..WonLen(a) /\ j - 1 \in 1..WonLen(b) /\ (j - 1) + 1 = j
      BY <1>1, <1>2, <1>3, <2>2
    <3>2. L[(j - 1) + 1] = ScoreAfter(a[j - 1]) /\ M[(j - 1) + 1] = ScoreAfter(b[j - 1])
      BY <1>1, <3>1
    <3>3. b[j - 1] = a[j - 1]
      BY <3>1 DEF PlaysOn
    <3> QED BY <3>1, <3>2, <3>3
  <2> QED BY <2>1, <2>2
<1> HIDE DEF S, L, M
<1>7. CASE ~Finished(b[k])
  <2>1. Len(M) = k
    BY <1>1, <1>2, <1>7
  <2>2. M = S
    BY <1>1, <1>5, <1>6, <2>1, SeqEqual
  <2> QED BY <1>4, <2>2 DEF L, M, S
<1>8. CASE Finished(b[k])
  <2> DEFINE p == b[k].info.winner
             points == b[k].info.points
             x == [L[k] EXCEPT ![p] = @ + points]
  <2>1. GameOK(b[k]) /\ M[k] = b[k].info.score
    BY <1>4, LineBefore DEF Recorded, M
  <2>2. /\ p \in Players /\ points \in 1..(3 * MaxCube) /\ ScoreAfter(b[k]) \in Scores
    BY <1>8, <2>1, FinishedIs
  <2>3. L[k] = b[k].info.score
    BY <1>4, <1>6, <2>1
  <2>4. ScoreAfter(b[k]) = x
    BY <2>3 DEF ScoreAfter
  <2>5. WonLen(b) = k /\ k \in 1..WonLen(b)
    BY <1>2, <1>4, <1>8
  <2>6. M[k + 1] = x /\ Len(M) = k + 1
    BY <1>1, <2>4, <2>5
  <2> HIDE DEF x
  <2> DEFINE T == Append(S, x)
  <2>7. x \in Scores
    BY <2>2, <2>4
  <2>8. T \in Seq(Scores) /\ Len(T) = k + 1 /\ (\A j \in 1..k : T[j] = S[j]) /\ T[k + 1] = x
    BY <1>5, <2>7, AppendProperties
  <2> HIDE DEF T
  <2>9. \A j \in 1..(k + 1) : j = k + 1 \/ j \in 1..k
    BY <1>1
  <2>10. \A j \in 1..Len(M) : M[j] = T[j]
    BY <1>5, <1>6, <2>6, <2>8, <2>9
  <2>11. M = T
    BY <1>1, <2>6, <2>8, <2>10, SeqEqual
  <2>12. n # 0 => \A q \in Players : L[k][q] < n
    BY <1>4, <2>3 DEF Chain
  <2>13. M = Append(S, [L[k] EXCEPT ![p] = @ + points])
    BY <2>11 DEF T, x
  <2> HIDE DEF p, points
  <2> QED BY <1>4, <2>2, <2>12, <2>13 DEF L, M, S
<1> QED BY <1>7, <1>8

---------------------------------------------------------------------------
(* Every step keeps the line.                                              *)

\* The outcome of a game is the winner and the points.
LEMMA OutcomeInfo ==
  ASSUME NEW info \in Infos, NEW y, Outcome(info, y)
  PROVE  y.info.nMatch = info.nMatch /\ y.info.score = info.score /\ y.info.crawford = info.crawford
BY DEF Outcome, EndsWith, Infos

\* The match state has the length the games have.
LEMMA LengthIs ==
  ASSUME NEW s, Core(s), s.last.g # 0, NEW n, Chain(s.lMatch, n)
  PROVE  s.ms.nMatchTo = n
<1>1. InGame(s)
  BY CoreInGame
<1>2. s.ms.nMatchTo = Game(s).info.nMatch
  BY <1>1 DEF InGame, Pending, Alongside, FactsAt, Facts, Setting, At
<1> QED BY <1>1, <1>2 DEF InGame, Chain, Game

\* A record added to a game keeps the chain.
LEMMA AddsChain ==
  ASSUME NEW s, Recorded(s.lMatch), s.last.g \in 1..Len(s.lMatch), NEW n, Chain(s.lMatch, n),
         NEW t, Adds(s, t)
  PROVE  /\ Chain(t.lMatch, n) /\ PlaysOn(s.lMatch, t.lMatch) /\ Len(t.lMatch) = s.last.g
         /\ t.last.g = s.last.g
         /\ t.lMatch[s.last.g].info.crawford = s.lMatch[s.last.g].info.crawford
         /\ t.lMatch[s.last.g].info.score = s.lMatch[s.last.g].info.score
<1> DEFINE g == s.last.g
           a == s.lMatch
           b == t.lMatch
<1>1. PICK r : Added(s, t, r, FixAndApply(Behind(s), Game(s).info, r))
  BY DEF Adds
<1>2. PICK z : z = FixAndApply(Behind(s), Game(s).info, r)
  OBVIOUS
<1>3. /\ Recorded(b) /\ t.last.g = g /\ Len(b) = g /\ \A i \in 1..(g - 1) : b[i] = a[i]
      /\ Outcome(Game(s).info, z) /\ Game(t).info = z.info
  BY <1>1, <1>2 DEF Added
<1>4. Game(s) = a[g] /\ Game(t) = b[g]
  BY <1>3 DEF Game
<1>5. a[g].info \in Infos /\ Len(a) \in Nat
  <2>1. a \in Seq(Games) /\ Len(a) \in Nat
    BY LenProperties DEF Recorded
  <2>2. a[g] \in Games
    BY <2>1, ElementOfSeq
  <2> QED BY <2>1, <2>2 DEF Games
<1>6. /\ b[g].info.nMatch = a[g].info.nMatch /\ b[g].info.score = a[g].info.score
      /\ b[g].info.crawford = a[g].info.crawford
  BY <1>3, <1>4, <1>5, OutcomeInfo
<1>7. g \in Nat /\ g # 0 /\ g - 1 <= Len(a) /\ b # <<>>
  BY <1>3, <1>5, EmptySeq
<1>8. PlaysOn(a, b)
  BY <1>3, <1>7 DEF PlaysOn
<1>9. \A i \in 1..g : i \in 1..Len(a) /\ b[i].info.nMatch = a[i].info.nMatch /\ b[i].info.score = a[i].info.score
  <2> SUFFICES ASSUME NEW i \in 1..g
               PROVE  i \in 1..Len(a) /\ b[i].info.nMatch = a[i].info.nMatch /\ b[i].info.score = a[i].info.score
    OBVIOUS
  <2>1. i \in 1..Len(a) /\ (i = g \/ i \in 1..(g - 1))
    BY <1>5, <1>7
  <2> QED BY <1>3, <1>6, <2>1
<1>10. Chain(b, n)
  <2> HIDE DEF a, b, g
  <2>1. \A i \in 1..(g - 1) : i \in 1..g /\ i + 1 \in 1..g /\ i \in 1..(Len(a) - 1)
    BY <1>5, <1>7, <1>9 DEF g
  <2>2. Chain(a, n)
    BY DEF a
  <2>3. a # <<>> /\ 1 \in 1..g
    <3>1. Len(a) # 0
      BY <1>5, <1>7 DEF g, a
    <3> QED BY <1>7, <3>1, EmptySeq
  <2> QED BY <1>3, <1>7, <1>9, <2>1, <2>2, <2>3 DEF Chain
<1> QED BY <1>3, <1>6, <1>8, <1>10

\* Nothing has been moved yet in a game that has just begun.
LEMMA FirstBoard ==
  ASSUME NEW s, NEW b, Begun(s, b)
  PROVE  b.ms.board = [i \in Players |-> Men]
<1>1. Core(b) /\ b.last.g # 0 /\ b.ms = At(b) /\ b.last.k = 1 /\ Game(b).recs[1].mt = "setdice"
      /\ b.ms.gs = "playing"
  BY DEF Begun, Landed
<1>2. InGame(b)
  BY <1>1, CoreInGame
<1>3. Boards(b.ms, Game(b).recs, 1) /\ Sound(b.ms)
  BY <1>1, <1>2 DEF InGame, Facts
<1> DEFINE recs == Game(b).recs
<1>4. \A p \in Players : BorneOff(recs, 1, p) = 0
  <2> SUFFICES ASSUME NEW p \in Players PROVE BorneOff(recs, 1, p) = 0
    OBVIOUS
  <2>1. recs[1] # Rec("normal", p, 1)
    BY <1>1 DEF Rec
  <2> HIDE DEF recs
  <2>2. 0 \in Nat /\ 0 + 1 = 1
    OBVIOUS
  <2>3. BorneOff(recs, 0 + 1, p) = BorneOff(recs, 0, p) + 0
    BY <2>1, <2>2, BorneOffCounts
  <2> QED BY <2>2, <2>3, BorneOffCounts
<1>5. b.ms.move \in Players /\ b.ms.board \in [Players -> 0..Men]
  BY <1>1, <1>3 DEF Sound, Typed
<1>6. \A p \in Players : b.ms.board[IF p = b.ms.move THEN 1 ELSE 0] = Men - 0
  BY <1>3, <1>4 DEF Boards
<1>7. Players = {0, 1} /\ Men \in Nat
  BY MaxCubeIs DEF Players, Human, Gnu
<1>8. b.ms.board[0] = Men /\ b.ms.board[1] = Men
  <2>1. CASE b.ms.move = 0
    BY <1>6, <1>7, <2>1
  <2>2. CASE b.ms.move = 1
    BY <1>6, <1>7, <2>2
  <2> QED BY <1>5, <1>7, <2>1, <2>2
<1> QED BY <1>5, <1>7, <1>8

\* The first turn of a game does not end it, and leaves it to the human.
LEMMA FirstTurn ==
  ASSUME NEW s, NEW t, Started(s, t)
  PROVE  t.ms.gs = "playing" /\ t.ms.turn = Human
<1>1. PICK b : /\ Begun(s, b)
               /\ \/ t = b /\ b.ms.turn = Human
                  \/ b.ms.turn = Gnu /\ Fine(b, t) /\ t \in ComputerTurn(b)
  BY DEF Started
<1>2. CASE t = b /\ b.ms.turn = Human
  BY <1>1, <1>2 DEF Begun
<1>3. CASE b.ms.turn = Gnu /\ t \in ComputerTurn(b)
  <2>1. /\ Core(b) /\ b.ms = At(b) /\ b.last.k = 1 /\ Game(b).recs[1].mt = "setdice"
        /\ b.ms.gs = "playing" /\ b.ms.resigned = 0 /\ ~b.ms.doubled /\ b.ms.dice = Open
        /\ b.last.g # 0
    BY <1>1 DEF Begun, Landed
  <2>2. PICK u \in ConsiderResigning(b) \cup ConsiderDoubling(b) \cup RollAndMove(b) :
          t = [u EXCEPT !.next = TRUE]
    BY <1>3, <2>1 DEF ComputerTurn
  <2>3. ConsiderResigning(b) = {}
    <3>1. \A i \in 1..b.last.k : b.lMatch[b.last.g].recs[i].mt # "normal"
      BY <2>1 DEF Game
    <3> QED BY <3>1 DEF ConsiderResigning
  <2>4. ConsiderDoubling(b) = {}
    BY <2>1, Kinds DEF ConsiderDoubling
  <2>5. PICK borne \in 0..1 : u = AddMoveRecord(b, Rec("normal", b.ms.turn, borne))
    BY <2>2, <2>3, <2>4 DEF RollAndMove
  <2>6. PICK r : r = Rec("normal", b.ms.turn, borne)
    OBVIOUS
  <2>7. Legal(At(b), r) /\ Duty(b) /\ Sees(b) = At(b)
    <3>1. Duty(b)
      BY <1>1, <2>1, Kinds DEF Begun, Landed, Duty
    <3>2. Sees(b) = At(b)
      BY <2>1 DEF Sees
    <3>3. Legal(Sees(b), r)
      BY <2>1, <2>6, <3>1, MoveGoes
    <3> QED BY <3>1, <3>2, <3>3
  <2>8. r \in Records /\ r.mt = "normal" /\ r.p = b.ms.turn /\ r.n = borne
    BY <1>3, <2>6, RecIs, HumanIs DEF RecordKinds
  <2>9. Whole(u) /\ u.ms = FixAndApply(At(b), Game(b).info, r).ms
    <3>1. Legal(Sees(b), r) /\ r.mt # "resign" /\ r.mt # "double"
      BY <2>7, <2>8
    <3> QED BY <2>1, <2>5, <2>6, <2>7, <3>1, RecordGoes DEF Landed, Core
  <2>10. b.ms.board = [i \in Players |-> Men]
    BY <1>1, FirstBoard
  <2>11. InGame(b)
    BY <2>1, CoreInGame
  <2>12. IsState(b.ms) /\ b.ms.score \in [Players -> Nat] /\ b.ms.turn = b.ms.move
    BY <2>1, <2>11 DEF InGame, Sound, Typed, InPlay
  <2>13. SwapSides(b.ms.board) = b.ms.board /\ b.ms.board \in [Players -> Int]
    BY <2>10, FullBoardSwaps, MaxCubeIs DEF FullBoard
  <2>14. Moved(FixAndApply(b.ms, Game(b).info, r), b.ms, Game(b).info, r)
    BY <2>8, <2>12, <2>13, NormalStep
  <2> DEFINE B == [i \in Players |-> IF i = 0 THEN b.ms.board[1] - r.n ELSE b.ms.board[0]]
  <2>15. GameStatus(B) = 0
    <3>1. \A i \in Players : B[i] > 0
      BY <2>8, <2>10, ConstantsAssumption DEF Players, Human, Gnu
    <3> HIDE DEF B
    <3> QED BY <3>1 DEF GameStatus
  <2>16. /\ FixAndApply(b.ms, Game(b).info, r).ms.gs = "playing"
         /\ FixAndApply(b.ms, Game(b).info, r).ms.turn = Human
    BY <1>3, <2>8, <2>14, <2>15, HumanIs DEF Moved
  <2>17. u.ms.gs = "playing" /\ u.ms.turn = Human
    BY <2>1, <2>9, <2>16
  <2> QED BY <2>2, <2>9, <2>17, NextOnly
<1> QED BY <1>1, <1>2, <1>3

---------------------------------------------------------------------------
(* Every step keeps the line: a game begins.                               *)

\* The last game of s, if there is one, is decided and has left the score; the match is not won.
Follows(s, n) ==
    /\ Recorded(s.lMatch) /\ Chain(s.lMatch, n) /\ s.ms.nMatchTo = n /\ ~MatchWon(s.ms)
    /\ s.lMatch = <<>> => s.ms.score = Zeros
    /\ s.lMatch # <<>> =>
         /\ Finished(s.lMatch[Len(s.lMatch)])
         /\ s.ms.score = ScoreAfter(s.lMatch[Len(s.lMatch)])

\* b has one game more than a.
OneMore(a, b) == Len(b) = Len(a) + 1 /\ \A i \in 1..Len(a) : b[i] = a[i]

\* The game that begins goes on from the score.
LEMMA BegunChain ==
  ASSUME NEW s, NEW n \in Nat, Follows(s, n), NEW t, Begun(s, t), s.ms.score \in [Players -> Nat]
  PROVE  Chain(t.lMatch, n) /\ OneMore(s.lMatch, t.lMatch)
<1> DEFINE a == s.lMatch
           b == t.lMatch
           l == Len(s.lMatch)
<1>1. /\ Recorded(a) /\ Chain(a, n) /\ s.ms.nMatchTo = n /\ ~MatchWon(s.ms)
      /\ a = <<>> => s.ms.score = Zeros
      /\ a # <<>> => Finished(a[l]) /\ s.ms.score = ScoreAfter(a[l])
  BY DEF Follows
<1>2. /\ Len(b) = l + 1 /\ (\A i \in 1..l : b[i] = a[i]) /\ b[l + 1].info.nMatch = n
      /\ b[l + 1].info.score = s.ms.score
  <2>1. Len(b) = l + 1 /\ (\A i \in 1..l : b[i] = a[i]) /\ Game(t) = b[l + 1]
    BY DEF Begun, Game
  <2>2. PICK auto \in Nat : Game(t).info = NextInfo(s, auto)
    BY DEF Begun
  <2>3. NextInfo(s, auto).nMatch = s.ms.nMatchTo /\ NextInfo(s, auto).score = s.ms.score
    BY DEF NextInfo
  <2> HIDE DEF a, b, l
  <2> QED BY <1>1, <2>1, <2>2, <2>3
<1>3. l \in Nat /\ (a = <<>> <=> l = 0)
  BY <1>1, LenProperties, EmptySeq DEF Recorded
<1>4. n # 0 => \A p \in Players : s.ms.score[p] < n
  BY <1>1 DEF MatchWon
<1> HIDE DEF a, b, l
<1>5. \A g \in 1..Len(b) : b[g].info.nMatch = n /\ (n # 0 => \A p \in Players : b[g].info.score[p] < n)
  <2> SUFFICES ASSUME NEW g \in 1..Len(b)
               PROVE  b[g].info.nMatch = n /\ (n # 0 => \A p \in Players : b[g].info.score[p] < n)
    OBVIOUS
  <2>1. g = l + 1 \/ g \in 1..l
    BY <1>2, <1>3
  <2> QED BY <1>1, <1>2, <1>4, <2>1 DEF Chain, l, a
<1>6. b[1].info.score = Zeros
  <2>1. CASE l = 0
    BY <1>1, <1>2, <1>3, <2>1
  <2>2. CASE l # 0
    <3>1. 1 \in 1..l /\ a[1].info.score = Zeros
      BY <1>1, <1>3, <2>2 DEF Chain
    <3> QED BY <1>2, <3>1
  <2> QED BY <2>1, <2>2
<1>7. \A g \in 1..(Len(b) - 1) : Finished(b[g]) /\ b[g + 1].info.score = ScoreAfter(b[g])
  <2> SUFFICES ASSUME NEW g \in 1..l
               PROVE  Finished(b[g]) /\ b[g + 1].info.score = ScoreAfter(b[g])
    BY <1>2, <1>3
  <2>1. CASE g = l
    BY <1>1, <1>2, <1>3, <2>1
  <2>2. CASE g # l
    <3>1. g \in 1..(l - 1) /\ g + 1 \in 1..l
      BY <1>3, <2>2
    <3>2. Finished(a[g]) /\ a[g + 1].info.score = ScoreAfter(a[g])
      BY <1>1, <3>1 DEF Chain, l, a
    <3> QED BY <1>2, <3>1, <3>2
  <2> QED BY <2>1, <2>2
<1>8. Chain(b, n)
  BY <1>5, <1>6, <1>7 DEF Chain
<1> QED BY <1>2, <1>8 DEF OneMore, a, b, l

\* The computer's first turn adds to the game that has begun.
LEMMA FineChain ==
  ASSUME NEW s, Core(s), s.last.g # 0, NEW n, Chain(s.lMatch, n), NEW t, Fine(s, t)
  PROVE  /\ Chain(t.lMatch, n) /\ t.last.g = s.last.g /\ t.last.g # 0 /\ Recorded(t.lMatch)
         /\ \/ t.lMatch = s.lMatch
            \/ PlaysOn(s.lMatch, t.lMatch) /\ Len(t.lMatch) = s.last.g
<1>1. Recorded(s.lMatch) /\ s.last.g \in 1..Len(s.lMatch) /\ Recorded(t.lMatch)
  <2>1. InGame(s)
    BY CoreInGame
  <2> QED BY <2>1 DEF InGame, Core, Fine
<1>2. CASE Adds(s, t)
  BY <1>1, <1>2, AddsChain
<1>3. CASE Stays(s, t)
  BY <1>1, <1>3 DEF Stays
<1> QED BY <1>2, <1>3 DEF Fine

\* A game started goes on from the score that was reached.
LEMMA StartedChain ==
  ASSUME NEW s, NEW n \in Nat, Follows(s, n), NEW t, Started(s, t), s.ms.score \in [Players -> Nat]
  PROVE  Chain(t.lMatch, n) /\ OneMore(s.lMatch, t.lMatch) /\ Recorded(t.lMatch)
<1>1. PICK b : Begun(s, b) /\ (t = b \/ Fine(b, t))
  BY DEF Started
<1>2. Chain(b.lMatch, n) /\ OneMore(s.lMatch, b.lMatch)
  BY <1>1, BegunChain
<1>3. /\ Core(b) /\ b.last.g # 0 /\ b.last.g = Len(b.lMatch) /\ Recorded(b.lMatch)
      /\ Len(s.lMatch) \in Nat
  <2>1. Recorded(s.lMatch) /\ Core(b) /\ b.last.g # 0 /\ b.last.g = Len(b.lMatch)
    BY <1>1 DEF Begun, Landed, Follows
  <2> QED BY <2>1, LenProperties DEF Recorded, Core
<1>4. CASE t = b
  BY <1>2, <1>3, <1>4
<1>5. CASE Fine(b, t)
  <2>1. Chain(t.lMatch, n) /\ Recorded(t.lMatch)
        /\ (t.lMatch = b.lMatch \/ (PlaysOn(b.lMatch, t.lMatch) /\ Len(t.lMatch) = b.last.g))
    BY <1>2, <1>3, <1>5, FineChain
  <2>2. CASE t.lMatch = b.lMatch
    BY <1>2, <2>1, <2>2
  <2>3. CASE PlaysOn(b.lMatch, t.lMatch) /\ Len(t.lMatch) = b.last.g
    <3>1. Len(t.lMatch) = Len(s.lMatch) + 1 /\ \A i \in 1..Len(s.lMatch) : t.lMatch[i] = b.lMatch[i]
      BY <1>2, <1>3, <2>3 DEF OneMore, PlaysOn
    <3>2. OneMore(s.lMatch, t.lMatch)
      BY <1>2, <3>1 DEF OneMore
    <3> QED BY <2>1, <3>2
  <2> QED BY <2>1, <2>2, <2>3
<1> QED BY <1>1, <1>4, <1>5

\* At the end of the record the last game has come to its end.
LEMMA EndIs ==
  ASSUME NEW s, Core(s), AtTheEnd(s), s.last.g # 0
  PROVE  At(s) = EndOf(s.lMatch[s.last.g])
<1>1. s.last.k = Len(Game(s).recs) /\ s.last.k \in Nat /\ Game(s) = s.lMatch[s.last.g]
  BY DEF AtTheEnd, Core, Game
<1>2. At(s) = Behind(s)
  BY <1>1, EndOfRecord
<1> QED BY <1>1, <1>2 DEF Behind, EndOf

\* The state at the end of the record is what its last game comes to.
LEMMA LastEnd ==
  ASSUME NEW s, Core(s), AtTheEnd(s), s.last.g # 0
  PROVE  /\ s.last.g = Len(s.lMatch) /\ s.lMatch # <<>> /\ s.last.g \in 1..Len(s.lMatch)
         /\ Len(s.lMatch) \in Nat /\ s.ms.gs # "none" /\ GameOK(s.lMatch[s.last.g])
         /\ Finished(s.lMatch[s.last.g]) <=> s.ms.gs \in Ended
         /\ s.ms.score = EndOf(s.lMatch[s.last.g]).score
         /\ s.ms.score \in [Players -> Nat]
<1>1. InGame(s)
  BY CoreInGame
<1>2. /\ s.last.g = Len(s.lMatch) /\ s.last.g \in 1..Len(s.lMatch) /\ GameOK(Game(s))
      /\ Game(s) = s.lMatch[s.last.g] /\ s.last.k = Len(Game(s).recs)
      /\ Alongside(s.ms, At(s)) /\ Sound(At(s))
  BY <1>1 DEF InGame, AtTheEnd, Pending, Game
<1>3. At(s) = EndOf(s.lMatch[s.last.g])
  BY EndIs
<1>4. s.lMatch # <<>> /\ Len(s.lMatch) \in Nat
  <2>1. s.lMatch \in Seq(Games)
    BY DEF Core, Recorded
  <2>2. Len(s.lMatch) \in Nat
    BY <2>1
  <2>3. Len(s.lMatch) # 0
    BY <1>2, <2>2
  <2> QED BY <2>1, <2>2, <2>3, EmptySeq
<1>5. s.ms.gs = EndOf(s.lMatch[s.last.g]).gs /\ s.ms.score = EndOf(s.lMatch[s.last.g]).score
  BY <1>2, <1>3 DEF Alongside
<1>6. EndOf(s.lMatch[s.last.g]).gs # "none"
  BY <1>2, FinishedIs
<1>7. s.ms.score \in [Players -> Nat]
  BY <1>2, <1>3, <1>5 DEF Sound, Typed
<1> QED BY <1>2, <1>4, <1>5, <1>6, <1>7 DEF Finished

\* After a game that has ended another may follow.
LEMMA DecidedFollows ==
  ASSUME NEW s, Core(s), AtTheEnd(s), s.last.g # 0, s.ms.gs \in Ended, ~MatchWon(s.ms),
         NEW n, Chain(s.lMatch, n)
  PROVE  Follows(s, n)
<1> DEFINE g == s.last.g
           a == s.lMatch
<1>1. /\ g = Len(a) /\ a # <<>> /\ Finished(a[g]) /\ GameOK(a[g]) /\ s.ms.score = EndOf(a[g]).score
  BY LastEnd
<1>2. s.ms.score = ScoreAfter(a[g])
  BY <1>1, FinishedIs
<1>3. s.ms.nMatchTo = n
  BY LengthIs
<1>4. Recorded(a)
  BY DEF Core
<1> QED BY <1>1, <1>2, <1>3, <1>4 DEF Follows

\* In the place of the game in play another may follow.
LEMMA PoppedFollows ==
  ASSUME NEW s, Core(s), AtTheEnd(s), s.last.g # 0, s.ms.gs = "playing", ~MatchWon(s.ms),
         NEW n, Chain(s.lMatch, n)
  PROVE  Follows(PopGame(s), n) /\ OneMore(PopGame(s).lMatch, s.lMatch) /\ PopGame(s).ms = s.ms
<1> DEFINE g == s.last.g
           a == s.lMatch
           b == SubSeq(a, 1, g - 1)
<1>1. /\ g = Len(a) /\ a # <<>> /\ ~Finished(a[g]) /\ GameOK(a[g]) /\ s.ms.score = EndOf(a[g]).score
      /\ g \in 1..Len(a) /\ Len(a) \in Nat
  BY LastEnd, Kinds
<1>2. s.ms.score = a[g].info.score
  BY <1>1, FinishedIs
<1>3. s.ms.nMatchTo = n
  BY LengthIs
<1>4. Recorded(a) /\ a \in Seq(Games)
  BY DEF Core, Recorded
<1>5. PopGame(s).lMatch = b /\ PopGame(s).ms = s.ms
  <2>1. s.lMatch = a /\ Whole(s)
    BY DEF Core
  <2> QED BY <2>1 DEF PopGame, Whole
<1> HIDE DEF a, g
<1>6. g - 1 \in Nat /\ g - 1 \in 0..Len(a) /\ g \in Int
  BY <1>1
<1>7. b \in Seq(Games) /\ Len(b) = g - 1 /\ \A j \in 1..(g - 1) : b[j] = a[j]
  BY <1>4, <1>6, PrefixIs
<1> HIDE DEF b
<1>8. OneMore(b, a)
  BY <1>1, <1>6, <1>7 DEF OneMore
<1>9. \A j \in 1..(g - 1) : j \in 1..Len(a) /\ j \in 1..(Len(a) - 1)
  BY <1>1
<1>10. Recorded(b)
  BY <1>4, <1>7, <1>9 DEF Recorded
<1>11. Chain(a, n)
  BY DEF a
<1>12. Chain(b, n)
  <2>1. \A j \in 1..Len(b) : b[j].info.nMatch = n /\ (n # 0 => \A p \in Players : b[j].info.score[p] < n)
    BY <1>7, <1>9, <1>11 DEF Chain
  <2>2. b # <<>> => b[1].info.score = Zeros
    <3>1. b # <<>> => 1 \in 1..(g - 1)
      <4>1. b # <<>> => Len(b) # 0
        BY <1>7, EmptySeq
      <4> QED BY <1>6, <1>7, <4>1
    <3> QED BY <1>1, <1>7, <1>11, <3>1 DEF Chain
  <2>3. \A j \in 1..(Len(b) - 1) : Finished(b[j]) /\ b[j + 1].info.score = ScoreAfter(b[j])
    <3> SUFFICES ASSUME NEW j \in 1..(Len(b) - 1)
                 PROVE  Finished(b[j]) /\ b[j + 1].info.score = ScoreAfter(b[j])
      OBVIOUS
    <3>1. j \in 1..(g - 1) /\ j + 1 \in 1..(g - 1) /\ j \in 1..(Len(a) - 1)
      BY <1>1, <1>6, <1>7
    <3> QED BY <1>7, <1>11, <3>1 DEF Chain
  <2> QED BY <2>1, <2>2, <2>3 DEF Chain
<1>13. b = <<>> => s.ms.score = Zeros
  <2> SUFFICES ASSUME b = <<>> PROVE s.ms.score = Zeros
    OBVIOUS
  <2>1. Len(b) = 0
    OBVIOUS
  <2>2. g = 1
    <3>1. Len(b) = g - 1
      BY <1>7
    <3>2. g - 1 = 0
      BY <2>1, <3>1
    <3> QED BY <1>6, <3>2
  <2> QED BY <1>1, <1>2, <1>11, <2>2 DEF Chain
<1>14. b # <<>> => Finished(b[Len(b)]) /\ s.ms.score = ScoreAfter(b[Len(b)])
  <2> SUFFICES ASSUME b # <<>> PROVE Finished(b[Len(b)]) /\ s.ms.score = ScoreAfter(b[Len(b)])
    OBVIOUS
  <2>1. Len(b) # 0
    BY <1>7, EmptySeq
  <2>2. g - 1 \in 1..(g - 1) /\ g - 1 \in 1..(Len(a) - 1) /\ (g - 1) + 1 = g
    BY <1>1, <1>6, <1>7, <2>1
  <2>3. Finished(a[g - 1]) /\ a[(g - 1) + 1].info.score = ScoreAfter(a[g - 1])
    BY <1>11, <2>2 DEF Chain
  <2> QED BY <1>2, <1>7, <2>2, <2>3
<1>15. Follows(PopGame(s), n)
  BY <1>3, <1>5, <1>10, <1>12, <1>13, <1>14 DEF Follows
<1> QED BY <1>5, <1>8, <1>15 DEF a, b

\* A game after the one in play, or in its place, follows it in the line.
LEMMA AfterThat ==
  ASSUME NEW a, NEW b, Recorded(a), Recorded(b), OneMore(a, b)
  PROVE  PlaysOn(a, b)
<1>1. Len(a) \in Nat /\ Len(b) \in Nat /\ Len(b) = Len(a) + 1
  BY DEF Recorded, OneMore
<1>2. b # <<>> /\ Len(b) - 1 = Len(a)
  <2>1. Len(b) # 0
    BY <1>1
  <2> QED BY <1>1, <2>1, EmptySeq
<1>3. Len(b) - 1 <= Len(a)
  BY <1>1
<1> QED BY <1>2, <1>3 DEF OneMore, PlaysOn

\* A game begun in the place of the last one.
LEMMA InItsPlace ==
  ASSUME NEW p, NEW a, NEW b, Recorded(p), Recorded(a), Recorded(b), OneMore(p, a), OneMore(p, b)
  PROVE  PlaysOn(a, b) /\ Len(b) = Len(a)
<1>1. Len(a) \in Nat /\ Len(b) \in Nat /\ Len(p) \in Nat /\ Len(b) = Len(p) + 1 /\ Len(a) = Len(p) + 1
  BY DEF Recorded, OneMore
<1>2. b # <<>> /\ Len(b) - 1 = Len(p) /\ Len(b) - 1 <= Len(a) /\ Len(b) = Len(a)
  <2>1. Len(b) # 0
    BY <1>1
  <2> QED BY <1>1, <2>1, EmptySeq
<1>3. \A i \in 1..(Len(b) - 1) : b[i] = a[i]
  BY <1>2 DEF OneMore
<1> QED BY <1>2, <1>3 DEF PlaysOn

\* The New game button keeps the chain.
LEMMA AgainChain ==
  ASSUME NEW s, Core(s), AtTheEnd(s), s.last.g # 0, NEW n \in Nat, Chain(s.lMatch, n),
         NEW t, Again(s, t)
  PROVE  \/ t = s /\ MatchWon(s.ms)
         \/ /\ Chain(t.lMatch, n) /\ Recorded(t.lMatch) /\ PlaysOn(s.lMatch, t.lMatch)
            /\ t.ms.gs = "playing" /\ (s.ms.gs = "playing" => Len(t.lMatch) = Len(s.lMatch))
<1>1. /\ s.last.g = Len(s.lMatch) /\ s.ms.score \in [Players -> Nat] /\ Recorded(s.lMatch)
      /\ s.ms.gs \in Ended \/ s.ms.gs = "playing"
  <2>1. s.last.g = Len(s.lMatch) /\ s.ms.gs # "none" /\ s.ms.score \in [Players -> Nat]
    BY LastEnd
  <2>2. Pending(s.ms, At(s), Game(s).recs[1].p) /\ Sound(At(s))
    BY CoreInGame DEF InGame
  <2>3. s.ms.gs \in {"none", "playing"} \cup Ended
    BY <2>2 DEF Pending, Alongside, Sound, Typed
  <2> QED BY <2>1, <2>3 DEF Core
<1>2. move_is_last_in_match(s)
  BY DEF AtTheEnd, move_is_last_in_match
<1>3. CASE ~MatchWon(s.ms) /\ s.ms.gs # "playing" /\ Started(s, t)
  <2>1. Follows(s, n)
    BY <1>1, <1>3, DecidedFollows
  <2>2. Chain(t.lMatch, n) /\ OneMore(s.lMatch, t.lMatch) /\ Recorded(t.lMatch)
    BY <1>1, <1>3, <2>1, StartedChain
  <2> QED BY <1>1, <1>3, <2>2, AfterThat, FirstTurn
<1>4. CASE ~MatchWon(s.ms) /\ s.ms.gs = "playing" /\ Started(PopGame(s), t)
  <2>1. PICK q : q = PopGame(s)
    OBVIOUS
  <2>2. Follows(q, n) /\ OneMore(q.lMatch, s.lMatch) /\ q.ms = s.ms
    BY <1>4, <2>1, PoppedFollows
  <2>3. Chain(t.lMatch, n) /\ OneMore(q.lMatch, t.lMatch) /\ Recorded(t.lMatch)
    BY <1>1, <1>4, <2>1, <2>2, StartedChain
  <2>4. Recorded(q.lMatch)
    BY <2>2 DEF Follows
  <2>5. PlaysOn(s.lMatch, t.lMatch) /\ Len(t.lMatch) = Len(s.lMatch)
    BY <1>1, <2>2, <2>3, <2>4, InItsPlace
  <2>6. t.ms.gs = "playing"
    BY <1>4, <2>1, FirstTurn
  <2> QED BY <2>3, <2>5, <2>6
<1> QED BY <1>1, <1>2, <1>3, <1>4 DEF Again

\* A new match has one game, which is in play.
LEMMA AnewChain ==
  ASSUME NEW t, Anew(t)
  PROVE  /\ Core(t) /\ AtTheEnd(t) /\ t.last.g # 0
         /\ \E n \in Lengths : Chain(t.lMatch, n) /\ t.ms.nMatchTo = n
         /\ t.ms.gs = "playing" /\ Len(t.lMatch) = 1 /\ Recorded(t.lMatch)
<1>1. PICK q, u : \E n \in Lengths : StartedAnew(q, n, u) /\ (t = u \/ Again(u, t))
  BY DEF Anew
<1> PICK n \in Lengths : StartedAnew(q, n, u) /\ (t = u \/ Again(u, t))
  BY <1>1
<1>2. PICK c : Cleared(q, c, n) /\ Started(c, u)
  BY DEF StartedAnew
<1>3. n \in Nat
  BY LengthsAreNat
<1>4. /\ c.lMatch = <<>> /\ c.ms.nMatchTo = n /\ c.ms.score = Zeros
      /\ c.ms.score \in [Players -> Nat] /\ ~MatchWon(c.ms)
  <2>1. c.lMatch = <<>> /\ c.ms.nMatchTo = n /\ c.ms.score = [p \in Players |-> 0]
    BY <1>2 DEF Cleared
  <2>2. ~MatchWon(c.ms)
    BY <1>3, <2>1 DEF MatchWon
  <2> QED BY <2>1, <2>2 DEF Zeros
<1>5. Follows(c, n)
  <2>1. Recorded(<<>>) /\ Len(<<>>) = 0 /\ <<>> \in Seq(Games)
    BY DEF Recorded
  <2>2. Chain(<<>>, n)
    BY <2>1 DEF Chain
  <2> QED BY <1>4, <2>1, <2>2 DEF Follows
<1>6. Chain(u.lMatch, n) /\ OneMore(c.lMatch, u.lMatch) /\ Recorded(u.lMatch) /\ u.ms.gs = "playing"
  BY <1>2, <1>3, <1>4, <1>5, StartedChain, FirstTurn
<1>7. Core(u) /\ AtTheEnd(u) /\ u.last.g # 0 /\ Len(u.lMatch) = 1
  <2>1. Core(u) /\ AtTheEnd(u) /\ u.last.g # 0
    BY <1>2, StartedIs
  <2>2. Len(<<>>) = 0
    OBVIOUS
  <2> QED BY <1>4, <1>6, <2>1, <2>2 DEF OneMore
<1>8. /\ Chain(t.lMatch, n) /\ Recorded(t.lMatch) /\ t.ms.gs = "playing" /\ Len(t.lMatch) = 1
  <2>1. CASE t = u
    BY <1>6, <1>7, <2>1
  <2>2. CASE Again(u, t)
    BY <1>3, <1>6, <1>7, <2>2, AgainChain
  <2> QED BY <1>1, <2>1, <2>2
<1>9. Core(t) /\ AtTheEnd(t)
  BY AnewIs DEF StateOK
<1>10. t.last.g # 0
  BY <1>8, <1>9 DEF AtTheEnd
<1>11. t.ms.nMatchTo = n
  BY <1>8, <1>9, <1>10, LengthIs
<1> QED BY <1>8, <1>9, <1>10, <1>11

\* Its line is the score before the first game.
LEMMA AnewLine ==
  ASSUME NEW t, Anew(t)
  PROVE  LineOf(t.lMatch) = <<Zeros>>
<1>1. PICK n \in Lengths : Chain(t.lMatch, n)
  BY AnewChain
<1>2. Core(t) /\ AtTheEnd(t) /\ t.last.g # 0 /\ t.ms.gs = "playing" /\ Len(t.lMatch) = 1 /\ Recorded(t.lMatch)
  BY AnewChain
<1>3. t.lMatch # <<>> /\ ~Finished(t.lMatch[Len(t.lMatch)])
  BY <1>2, LastEnd, Kinds
<1>4. WonLen(t.lMatch) = 0
  BY <1>2, <1>3 DEF WonLen
<1>5. LineOf(t.lMatch) \in Seq(Scores) /\ Len(LineOf(t.lMatch)) = 1 /\ LineOf(t.lMatch)[1] = Zeros
  <2>1. /\ LineOf(t.lMatch) \in Seq(Scores) /\ Len(LineOf(t.lMatch)) = WonLen(t.lMatch) + 1
        /\ LineOf(t.lMatch)[1] = Zeros
    BY <1>1, <1>2, LineIs
  <2>2. Len(LineOf(t.lMatch)) = 1
    BY <1>4, <2>1
  <2> QED BY <2>1, <2>2
<1>6. <<Zeros>> \in Seq(Scores) /\ Len(<<Zeros>>) = 1 /\ <<Zeros>>[1] = Zeros
  BY DEF Zeros, Scores
<1> DEFINE L == LineOf(t.lMatch)
           Z == <<Zeros>>
<1>7. L \in Seq(Scores) /\ Z \in Seq(Scores) /\ Len(L) = Len(Z) /\ \A j \in 1..Len(L) : L[j] = Z[j]
  BY <1>5, <1>6
<1> HIDE DEF L, Z
<1>8. L = Z
  BY <1>7, SeqEqual
<1> QED BY <1>8 DEF L, Z

\* A game that ends, and the one that may follow.
LEMMA ClosesChain ==
  ASSUME NEW s, Core(s), s.last.g # 0, NEW n \in Nat, Chain(s.lMatch, n), NEW t, Closes(s, t)
  PROVE  /\ Chain(t.lMatch, n) /\ Recorded(t.lMatch)
         /\ \/ t.lMatch = s.lMatch
            \/ PlaysOn(s.lMatch, t.lMatch)
<1>1. PICK u : /\ u = [s EXCEPT !.next = FALSE]
               /\ s.ms.gs \in Ended /\ AtTheEnd(s) /\ EndsIn(u, EndOfGame(u))
               /\ Core(EndOfGame(u)) /\ AtTheEnd(EndOfGame(u))
               /\ \/ t = EndOfGame(u) /\ t.next = FALSE
                  \/ ~MatchWon(u.ms) /\ Started(EndOfGame(u), t)
  BY DEF Closes
<1>2. PICK e : e = EndOfGame(u)
  OBVIOUS
<1>3. u.ms = s.ms /\ u.lMatch = s.lMatch /\ u.last = s.last
  <2>1. Whole(s)
    BY DEF Core
  <2> QED BY <1>1, <2>1, NextOnly
<1>4. /\ e.lMatch = s.lMatch /\ e.last = s.last /\ e.ms.gs = s.ms.gs /\ e.ms.score = s.ms.score
      /\ e.ms.nMatchTo = s.ms.nMatchTo /\ Core(e) /\ AtTheEnd(e)
  BY <1>1, <1>2, <1>3 DEF EndsIn
<1>5. Recorded(s.lMatch)
  BY DEF Core
<1>6. CASE t = e
  BY <1>4, <1>5, <1>6
<1>7. CASE ~MatchWon(u.ms) /\ Started(e, t)
  <2>1. ~MatchWon(e.ms)
    BY <1>3, <1>4, <1>7 DEF MatchWon
  <2>2. Follows(e, n)
    BY <1>1, <1>4, <2>1, DecidedFollows
  <2>3. e.ms.score \in [Players -> Nat]
    BY <1>4, LastEnd
  <2>4. Chain(t.lMatch, n) /\ OneMore(e.lMatch, t.lMatch) /\ Recorded(t.lMatch)
    BY <1>7, <2>2, <2>3, StartedChain
  <2> QED BY <1>4, <1>5, <2>4, AfterThat
<1> QED BY <1>1, <1>2, <1>6, <1>7

---------------------------------------------------------------------------
(* GnubgMatch implements MatchScore.                                       *)

\* The line of scores and the length, as ImplementsMatchScore gives them to MatchScore.
Line   == LineOf(lMatch)
Length == IF lMatch = <<>> THEN 0 ELSE ms.nMatchTo

\* The games of the record are linked by their scores.
Linked == Chain(lMatch, ms.nMatchTo)

\* The match goes on: the line is kept, cut, or cut and continued.
Passes(s, t) ==
    \E n \in Nat :
        /\ s.lMatch # <<>> /\ t.lMatch # <<>> /\ s.ms.nMatchTo = n /\ t.ms.nMatchTo = n
        /\ Recorded(s.lMatch) /\ Recorded(t.lMatch)
        /\ Chain(s.lMatch, n) /\ Chain(t.lMatch, n)
        /\ t.lMatch = s.lMatch \/ PlaysOn(s.lMatch, t.lMatch)

\* When a step is a step of the line.
LEMMA PassesIf ==
  ASSUME NEW s, Core(s), s.last.g # 0, NEW n \in Nat, s.ms.nMatchTo = n, Chain(s.lMatch, n),
         NEW t, Core(t), Chain(t.lMatch, n), t.lMatch = s.lMatch \/ PlaysOn(s.lMatch, t.lMatch)
  PROVE  Passes(s, t)
<1>1. s.lMatch # <<>>
  <2>1. s.last.g \in 1..Len(s.lMatch)
    BY CoreInGame DEF InGame
  <2>2. Len(<<>>) = 0
    OBVIOUS
  <2> QED BY <2>1, <2>2
<1>2. t.lMatch # <<>>
  BY <1>1 DEF PlaysOn
<1>3. t.last.g # 0
  BY <1>2 DEF Core
<1>4. t.ms.nMatchTo = n
  BY <1>3, LengthIs
<1>5. Recorded(s.lMatch) /\ Recorded(t.lMatch)
  BY DEF Core
<1> QED BY <1>1, <1>2, <1>4, <1>5 DEF Passes

\* Every step begins a match or goes on in it.
LEMMA StepPasses ==
  ASSUME IInv, Linked, Next
  PROVE  Anew(Now') \/ Passes(Now, Now')
<1>1. PICK s : s = Now
  OBVIOUS
<1>2. PICK t : t = Now'
  OBVIOUS
<1>3. Core(s) /\ (~walked => AtTheEnd(s)) /\ Chain(s.lMatch, s.ms.nMatchTo)
  BY <1>1, NowIs DEF IInv, Linked
<1>4. Core(t)
  <2>1. IInv'
    BY NextKeeps
  <2>2. Core(Now)'
    BY <2>1 DEF IInv
  <2> QED BY <1>2, <2>2
<1>5. s.last.g # 0 => s.ms.nMatchTo \in Nat
  <2> SUFFICES ASSUME s.last.g # 0 PROVE s.ms.nMatchTo \in Nat
    OBVIOUS
  <2>1. Pending(s.ms, At(s), Game(s).recs[1].p) /\ Sound(At(s))
    BY <1>3, CoreInGame DEF InGame
  <2> QED BY <2>1 DEF Pending, Alongside, Sound, Typed
<1>6. ASSUME s.last.g # 0, Chain(t.lMatch, s.ms.nMatchTo),
             t.lMatch = s.lMatch \/ PlaysOn(s.lMatch, t.lMatch)
      PROVE  Passes(s, t)
  BY <1>3, <1>4, <1>5, <1>6, PassesIf
<1>7. CASE DrainStep
  <2>1. s.last.g # 0
    BY <1>1, <1>7, NowIs DEF DrainStep, IInv, Duty
  <2>2. CASE Fine(s, t)
    BY <1>1, <1>2, <1>3, <1>6, <2>1, <2>2, FineChain
  <2>3. CASE Closes(s, t)
    BY <1>1, <1>2, <1>3, <1>5, <1>6, <2>1, <2>3, ClosesChain
  <2> QED BY <1>1, <1>2, <1>7, <2>2, <2>3 DEF DrainStep
<1>8. CASE PlayStep
  <2>1. s.last.g # 0 /\ Fine(s, t)
    BY <1>1, <1>2, <1>8, NowIs DEF PlayStep
  <2> QED BY <1>1, <1>2, <1>3, <1>6, <2>1, FineChain
<1>9. CASE StartStep
  BY <1>9 DEF StartStep
<1>10. CASE ButtonStep
  <2>1. s.last.g # 0 /\ Again(s, t) /\ AtTheEnd(s)
    BY <1>1, <1>2, <1>3, <1>10, NowIs DEF ButtonStep
  <2>2. Chain(t.lMatch, s.ms.nMatchTo) /\ (t.lMatch = s.lMatch \/ PlaysOn(s.lMatch, t.lMatch))
    BY <1>3, <1>5, <2>1, AgainChain
  <2> QED BY <1>1, <1>2, <1>6, <2>1, <2>2
<1>11. CASE WalkStep
  <2>1. s.last.g # 0 /\ Elsewhere(s, t)
    BY <1>1, <1>2, <1>11, NowIs DEF WalkStep
  <2>2. t.lMatch = s.lMatch
    BY <2>1 DEF Elsewhere
  <2> QED BY <1>1, <1>2, <1>3, <1>6, <2>1, <2>2
<1> QED BY <1>7, <1>8, <1>9, <1>10, <1>11, NextIs

\* Every step keeps the chain.
LEMMA LinkedKept == ASSUME IInv, Linked, [Next]_vars PROVE Linked'
<1>1. CASE Next
  <2>1. PICK t : t = Now'
    OBVIOUS
  <2>2. Chain(t.lMatch, t.ms.nMatchTo)
    <3>1. CASE Anew(t)
      BY <3>1, AnewChain
    <3>2. CASE Passes(Now, t)
      BY <3>2 DEF Passes
    <3> QED BY <1>1, <2>1, <3>1, <3>2, StepPasses
  <2>3. t.lMatch = lMatch' /\ t.ms = ms'
    BY <2>1 DEF Now
  <2> QED BY <2>2, <2>3 DEF Linked
<1>2. CASE UNCHANGED vars
  BY <1>2 DEF vars, Linked
<1> QED BY <1>1, <1>2

\* The chain holds of the program just started.
LEMMA LinkedAtFirst == Init => Linked
<1>1. Len(<<>>) = 0
  OBVIOUS
<1> QED BY <1>1 DEF Init, Linked, Chain

\* What MatchScore says of the line and the length.
LEMMA ScoreIs ==
  /\ Score!Init <=> Length = 0 /\ Line = <<Zeros>>
  /\ Length' \in Lengths /\ Line' = <<Zeros>> => Score!Next
  /\ (\E k \in 1..Len(Line) : Line' = SubSeq(Line, 1, k)) /\ Length' = Length => Score!Next
  /\ (\E k \in 1..Len(Line), p \in Players, points \in 1..(3 * MaxCube) :
        /\ Length # 0 => \A q \in Players : ~(Line[k][q] >= Length)
        /\ Line' = Append(SubSeq(Line, 1, k), [Line[k] EXCEPT ![p] = @ + points])
        /\ Length' = Length) => Score!Next
  /\ Line' = Line /\ Length' = Length => UNCHANGED Score!vars
<1>1. Score!Players = Players
  BY DEF Score!Players, Players, Human, Gnu
<1>2. Score!NilNil = Zeros
  BY <1>1 DEF Score!NilNil, Zeros
<1> QED BY <1>1, <1>2 DEF Score!Init, Score!Next, Score!Start, Score!Win, Score!TakeBack,
      Score!Over, Score!vars, Line, Length, LineOf, WonOf, Won, Zeros

\* Every step starts a match, wins a game, or takes games back.
LEMMA StepIsScores ==
  ASSUME IInv, Linked, Next
  PROVE  Score!Next \/ UNCHANGED Score!vars
<1>1. PICK a : a = lMatch
  OBVIOUS
<1>2. PICK b : b = lMatch'
  OBVIOUS
<1>3. Line = LineOf(a) /\ Line' = LineOf(b)
  BY <1>1, <1>2 DEF Line
<1>4. CASE Anew(Now')
  <2>1. PICK t : t = Now'
    OBVIOUS
  <2>2. t.lMatch = b /\ t.ms = ms'
    BY <1>2, <2>1 DEF Now
  <2>3. \E n \in Lengths : t.ms.nMatchTo = n
    BY <1>4, <2>1, AnewChain
  <2>4. LineOf(b) = <<Zeros>>
    BY <1>4, <2>1, <2>2, AnewLine
  <2>5. b # <<>>
    <3>1. Len(b) = 1
      BY <1>4, <2>1, <2>2, AnewChain
    <3> QED BY <3>1
  <2>6. Length' \in Lengths
    BY <1>2, <2>2, <2>3, <2>5 DEF Length
  <2> QED BY <1>3, <2>4, <2>6, ScoreIs
<1>5. CASE Passes(Now, Now')
  <2>1. PICK t : t = Now'
    OBVIOUS
  <2>2. t.lMatch = b /\ t.ms = ms'
    BY <1>2, <2>1 DEF Now
  <2>3. PICK n \in Nat :
          /\ a # <<>> /\ b # <<>> /\ ms.nMatchTo = n /\ t.ms.nMatchTo = n
          /\ Recorded(a) /\ Recorded(b) /\ Chain(a, n) /\ Chain(b, n)
          /\ b = a \/ PlaysOn(a, b)
    BY <1>1, <1>5, <2>1, <2>2, NowIs DEF Passes
  <2>4. Length = n /\ Length' = n
    BY <1>1, <1>2, <2>2, <2>3 DEF Length
  <2>5. CASE b = a
    BY <1>3, <2>4, <2>5, ScoreIs
  <2>6. CASE PlaysOn(a, b)
    <3> DEFINE L == LineOf(a)
               k == Len(b)
    <3>1. /\ k \in 1..Len(L)
          /\ \/ LineOf(b) = SubSeq(L, 1, k)
             \/ \E p \in Players, points \in 1..(3 * MaxCube) :
                  /\ n # 0 => \A q \in Players : L[k][q] < n
                  /\ LineOf(b) = Append(SubSeq(L, 1, k), [L[k] EXCEPT ![p] = @ + points])
      BY <2>3, <2>6, LineGrows
    <3>2. CASE LineOf(b) = SubSeq(L, 1, k)
      BY <1>3, <2>4, <3>1, <3>2, ScoreIs
    <3>3. ASSUME NEW p \in Players, NEW points \in 1..(3 * MaxCube),
                 n # 0 => \A q \in Players : L[k][q] < n,
                 LineOf(b) = Append(SubSeq(L, 1, k), [L[k] EXCEPT ![p] = @ + points])
          PROVE  Score!Next
      <4>1. n # 0 => \A q \in Players : ~(L[k][q] >= n)
        <5>1. L \in Seq(Scores)
          BY <2>3, LineIs
        <5>2. L[k] \in Scores
          BY <3>1, <5>1, ElementOfSeq
        <5> HIDE DEF L, k
        <5> QED BY <2>3, <3>3, <5>2 DEF Scores
      <4> QED BY <1>3, <2>4, <3>1, <3>3, <4>1, ScoreIs
    <3> QED BY <3>1, <3>2, <3>3
  <2> QED BY <2>3, <2>5, <2>6
<1> QED BY <1>4, <1>5, StepPasses

\* Whatever the cube, the resignations and the cursor do, the match is a MatchScore.
THEOREM ImplementsScore == Spec => ImplementsMatchScore
<1>1. Init => Score!Init
  <2> SUFFICES ASSUME Init PROVE Score!Init
    OBVIOUS
  <2>1. Length = 0 /\ lMatch = <<>>
    BY DEF Init, Length
  <2>2. Recorded(<<>>) /\ Chain(<<>>, 0) /\ Len(<<>>) = 0
    <3>1. Len(<<>>) = 0 /\ <<>> \in Seq(Games)
      OBVIOUS
    <3> QED BY <3>1 DEF Recorded, Chain
  <2>3. LineOf(<<>>) \in Seq(Scores) /\ Len(LineOf(<<>>)) = 1 /\ LineOf(<<>>)[1] = Zeros
    <3>1. WonLen(<<>>) = 0
      BY <2>2 DEF WonLen
    <3>2. LineOf(<<>>) \in Seq(Scores) /\ LineOf(<<>>)[1] = Zeros
      BY <2>2, LineIs
    <3>3. Len(LineOf(<<>>)) = WonLen(<<>>) + 1
      BY <2>2, LineIs
    <3>4. Len(LineOf(<<>>)) = 1
      <4>1. \A m, w : w = 0 /\ m = w + 1 => m = 1
        OBVIOUS
      <4> QED BY <3>1, <3>3, <4>1
    <3> QED BY <3>2, <3>4
  <2>4. LineOf(<<>>) = <<Zeros>>
    <3>1. <<Zeros>> \in Seq(Scores) /\ Len(<<Zeros>>) = 1 /\ <<Zeros>>[1] = Zeros
      BY DEF Zeros, Scores
    <3> DEFINE L == LineOf(<<>>)
               Z == <<Zeros>>
    <3>2. L \in Seq(Scores) /\ Z \in Seq(Scores) /\ Len(L) = Len(Z) /\ \A j \in 1..Len(L) : L[j] = Z[j]
      BY <2>3, <3>1
    <3> HIDE DEF L, Z
    <3>3. L = Z
      BY <3>2, SeqEqual
    <3> QED BY <3>3 DEF L, Z
  <2> QED BY <2>1, <2>4, ScoreIs DEF Line
<1>2. IInv /\ Linked /\ [Next]_vars => [Score!Next]_(Score!vars)
  <2> SUFFICES ASSUME IInv, Linked, [Next]_vars
               PROVE  Score!Next \/ UNCHANGED Score!vars
    OBVIOUS
  <2>1. CASE UNCHANGED vars
    <3>1. Line' = Line /\ Length' = Length
      BY <2>1 DEF vars, Line, Length
    <3> QED BY <3>1, ScoreIs
  <2> QED BY <2>1, StepIsScores
<1>3. Init => Linked
  BY LinkedAtFirst
<1>4. IInv /\ Linked /\ [Next]_vars => Linked'
  BY LinkedKept
<1> QED BY <1>1, <1>2, <1>3, <1>4, Invariant, PTL DEF Spec, ImplementsMatchScore, Score!Spec

\* Of the scores in a line only the last may be one that ends a match to n, and each is the one
\* before it with a game's points added.
WonOnce(scores, n) ==
    \A k \in 1 .. Len(scores) - 1 :
        /\ n # 0 => \A p \in Players : scores[k][p] < n
        /\ \E p \in Players, points \in 1..(3 * MaxCube) :
               scores[k + 1] = [scores[k] EXCEPT ![p] = @ + points]

LEMMA ChainWonOnce ==
  ASSUME NEW games, Recorded(games), NEW n, Chain(games, n)
  PROVE  WonOnce(LineOf(games), n)
<1> DEFINE L == LineOf(games)
           w == WonLen(games)
<1>1. /\ Len(L) = w + 1 /\ L[1] = Zeros
      /\ \A g \in 1..w : L[g + 1] = ScoreAfter(games[g])
  BY LineIs
<1>2. /\ w \in 0..Len(games) /\ Len(games) \in Nat /\ w \in Nat
      /\ \A g \in 1..w : Finished(games[g]) /\ GameOK(games[g])
  BY WonIs
<1> HIDE DEF L, w
<1> SUFFICES ASSUME NEW k \in 1 .. Len(L) - 1
             PROVE  /\ n # 0 => \A p \in Players : L[k][p] < n
                    /\ \E p \in Players, points \in 1..(3 * MaxCube) :
                           L[k + 1] = [L[k] EXCEPT ![p] = @ + points]
  BY DEF WonOnce, L
<1>3. k \in 1..w /\ k \in 1..Len(games)
  BY <1>1, <1>2
<1>4. L[k] = games[k].info.score
  <2>1. CASE k = 1
    <3>1. games # <<>>
      <4>1. Len(<<>>) = 0
        OBVIOUS
      <4> QED BY <1>3, <4>1
    <3> QED BY <1>1, <2>1, <3>1 DEF Chain
  <2>2. CASE k # 1
    <3>1. k - 1 \in 1..w /\ k - 1 \in 1 .. Len(games) - 1 /\ (k - 1) + 1 = k
      BY <1>2, <1>3, <2>2
    <3>2. L[(k - 1) + 1] = ScoreAfter(games[k - 1])
      BY <1>1, <3>1
    <3>3. games[(k - 1) + 1].info.score = ScoreAfter(games[k - 1])
      BY <3>1 DEF Chain
    <3> QED BY <3>1, <3>2, <3>3
  <2> QED BY <2>1, <2>2
<1>5. n # 0 => \A p \in Players : L[k][p] < n
  BY <1>3, <1>4 DEF Chain
<1>6. games[k].info.winner \in Players /\ games[k].info.points \in 1..(3 * MaxCube)
  BY <1>2, <1>3, FinishedIs
<1>7. L[k + 1] = [L[k] EXCEPT ![games[k].info.winner] = @ + games[k].info.points]
  BY <1>1, <1>3, <1>4 DEF ScoreAfter
<1> QED BY <1>5, <1>6, <1>7

\* No game of the record is won after one that decides the match, and each begins at the score
\* the one before it left, for any length and cube.
THEOREM MatchEndsOnce == Spec => []WonOnce(Line, Length)
<1>1. Init => Linked
  BY LinkedAtFirst
<1>2. IInv /\ Linked /\ [Next]_vars => Linked'
  BY LinkedKept
<1>3. IInv /\ Linked => WonOnce(Line, Length)
  <2> SUFFICES ASSUME IInv, Linked PROVE WonOnce(Line, Length)
    OBVIOUS
  <2>1. Recorded(lMatch)
    BY NowIs DEF IInv, Core
  <2>2. WonOnce(Line, ms.nMatchTo)
    BY <2>1, ChainWonOnce DEF Linked, Line
  <2>3. CASE lMatch # <<>>
    BY <2>2, <2>3 DEF Length
  <2>4. CASE lMatch = <<>>
    <3>1. WonLen(lMatch) = 0
      <4>1. Len(<<>>) = 0
        OBVIOUS
      <4> QED BY <2>4, <4>1 DEF WonLen
    <3>2. Len(Line) = WonLen(lMatch) + 1
      BY <2>1, LineIs DEF Linked, Line
    <3>3. 1 .. Len(Line) - 1 = {}
      BY <3>1, <3>2
    <3> QED BY <3>3 DEF WonOnce
  <2> QED BY <2>3, <2>4
<1> QED BY <1>1, <1>2, <1>3, Invariant, PTL DEF Spec

---------------------------------------------------------------------------
(* The Crawford game.                                                      *)

\* Game g is the first to begin with a player one point away from the length.
Due(games, g, n) ==
    n # 0 /\ g > 1 /\ OneAway(games[g].info) /\ ~OneAway(games[g - 1].info)

\* The games of a record that are said to be Crawford games are those that are due to be.
Crawfords(games, n) == \A g \in 1..Len(games) : games[g].info.crawford = Due(games, g, n)

\* The game that would begin after s is the first.
NextDue(s, n) ==
    /\ n # 0 /\ s.lMatch # <<>> /\ (\E p \in Players : s.ms.score[p] = n - 1)
    /\ ~OneAway(s.lMatch[Len(s.lMatch)].info)

\* A game that begins as the Crawford rule wants keeps the record to it.
LEMMA BegunCrawfords ==
  ASSUME NEW s, NEW n \in Nat, Follows(s, n), s.ms.score \in [Players -> Nat], Crawfords(s.lMatch, n),
         NextCrawford(s) = NextDue(s, n), NEW t, Begun(s, t)
  PROVE  /\ Crawfords(t.lMatch, n) /\ t.craw = s.craw
         /\ t.lMatch[Len(t.lMatch)].info.crawford = NextCrawford(s)
<1> DEFINE a == s.lMatch
           b == t.lMatch
           l == Len(s.lMatch)
<1>1. Recorded(a) /\ Chain(a, n) /\ s.ms.nMatchTo = n
  BY DEF Follows
<1>2. /\ Len(b) = l + 1 /\ (\A i \in 1..l : b[i] = a[i]) /\ b[l + 1].info.nMatch = n
      /\ b[l + 1].info.score = s.ms.score /\ b[l + 1].info.crawford = NextCrawford(s)
  <2>1. Len(b) = l + 1 /\ (\A i \in 1..l : b[i] = a[i]) /\ Game(t) = b[l + 1]
    BY DEF Begun, Game
  <2>2. PICK auto \in Nat : Game(t).info = NextInfo(s, auto)
    BY DEF Begun
  <2>3. /\ NextInfo(s, auto).nMatch = s.ms.nMatchTo /\ NextInfo(s, auto).score = s.ms.score
        /\ NextInfo(s, auto).crawford = NextCrawford(s)
    BY DEF NextInfo
  <2> HIDE DEF a, b, l
  <2> QED BY <1>1, <2>1, <2>2, <2>3
<1>3. l \in Nat /\ (a = <<>> <=> l = 0)
  BY <1>1, LenProperties, EmptySeq DEF Recorded
<1>4. Due(b, l + 1, n) = NextDue(s, n)
  <2>1. OneAway(b[l + 1].info) <=> \E p \in Players : s.ms.score[p] = n - 1
    BY <1>2 DEF OneAway
  <2>2. CASE l = 0
    <3>1. ~(l + 1 > 1) /\ a = <<>>
      BY <1>3, <2>2
    <3>2. Due(b, l + 1, n) = FALSE
      BY <3>1 DEF Due
    <3>3. NextDue(s, n) = FALSE
      BY <3>1 DEF NextDue
    <3> QED BY <3>2, <3>3
  <2>3. CASE l # 0
    <3>1. l + 1 > 1 /\ b[(l + 1) - 1] = a[l] /\ a # <<>>
      BY <1>2, <1>3, <2>3
    <3> QED BY <2>1, <3>1 DEF Due, NextDue
  <2> QED BY <2>2, <2>3
<1> HIDE DEF a, b, l
<1>5. Crawfords(b, n)
  <2> SUFFICES ASSUME NEW g \in 1..Len(b) PROVE b[g].info.crawford = Due(b, g, n)
    BY DEF Crawfords
  <2>1. CASE g = l + 1
    BY <1>2, <1>4, <2>1
  <2>2. CASE g # l + 1
    <3>1. g \in 1..l /\ (g > 1 => g - 1 \in 1..l)
      BY <1>2, <1>3, <2>2
    <3>2. a[g].info.crawford = Due(a, g, n)
      BY <3>1 DEF Crawfords, a, l
    <3>3. b[g] = a[g] /\ (g > 1 => b[g - 1] = a[g - 1])
      BY <1>2, <3>1
    <3>4. Due(b, g, n) = Due(a, g, n)
      BY <3>3 DEF Due
    <3> QED BY <3>2, <3>3, <3>4
  <2> QED BY <2>1, <2>2
<1>6. t.craw = s.craw
  BY DEF Begun
<1> QED BY <1>2, <1>5, <1>6 DEF a, b, l

\* A lawful step of play leaves the rule and what is remembered of it alone.
LEMMA FineCrawfords ==
  ASSUME NEW s, Core(s), s.last.g # 0, NEW n, Chain(s.lMatch, n), Crawfords(s.lMatch, n),
         NEW t, Fine(s, t)
  PROVE  /\ Crawfords(t.lMatch, n) /\ t.craw = s.craw /\ t.last.g = s.last.g
         /\ t.lMatch[t.last.g].info.crawford = s.lMatch[s.last.g].info.crawford
<1>1. Recorded(s.lMatch) /\ s.last.g \in 1..Len(s.lMatch) /\ Len(s.lMatch) \in Nat
  <2>1. InGame(s)
    BY CoreInGame
  <2> QED BY <2>1 DEF InGame, Core, Recorded
<1>2. CASE Adds(s, t)
  <2> DEFINE a == s.lMatch
             b == t.lMatch
             l == s.last.g
  <2>1. /\ Chain(b, n) /\ PlaysOn(a, b) /\ Len(b) = l /\ t.last.g = l
        /\ b[l].info.crawford = a[l].info.crawford /\ b[l].info.score = a[l].info.score
    BY <1>1, <1>2, AddsChain
  <2>2. t.craw = s.craw
    BY <1>2 DEF Adds, Added
  <2>3. \A g \in 1..Len(a) : a[g].info.nMatch = n /\ a[g].info.crawford = Due(a, g, n)
    BY DEF Chain, Crawfords
  <2> HIDE DEF a, b, l
  <2>4. \A g \in 1..l : g \in 1..Len(a)
    BY <1>1 DEF a, l
  <2>5. \A g \in 1..l : /\ b[g].info.nMatch = a[g].info.nMatch /\ b[g].info.score = a[g].info.score
                        /\ b[g].info.crawford = a[g].info.crawford
    <3> SUFFICES ASSUME NEW g \in 1..l
                 PROVE  /\ b[g].info.nMatch = a[g].info.nMatch /\ b[g].info.score = a[g].info.score
                        /\ b[g].info.crawford = a[g].info.crawford
      OBVIOUS
    <3>1. b[g].info.nMatch = n /\ a[g].info.nMatch = n
      BY <2>1, <2>3, <2>4 DEF Chain
    <3>2. CASE g = l
      BY <2>1, <3>1, <3>2
    <3>3. CASE g # l
      <4>1. g \in 1..(l - 1)
        BY <1>1, <3>3 DEF l
      <4> QED BY <2>1, <4>1 DEF PlaysOn
    <3> QED BY <3>2, <3>3
  <2>6. Crawfords(b, n)
    <3> SUFFICES ASSUME NEW g \in 1..l PROVE b[g].info.crawford = Due(b, g, n)
      BY <2>1 DEF Crawfords
    <3>1. g > 1 => g - 1 \in 1..l
      BY <1>1 DEF l
    <3>2. OneAway(b[g].info) <=> OneAway(a[g].info)
      BY <2>5 DEF OneAway
    <3>3. g > 1 => (OneAway(b[g - 1].info) <=> OneAway(a[g - 1].info))
      BY <2>5, <3>1 DEF OneAway
    <3>4. Due(b, g, n) = Due(a, g, n)
      BY <3>2, <3>3 DEF Due
    <3> QED BY <2>3, <2>4, <2>5, <3>4
  <2> QED BY <2>1, <2>2, <2>6 DEF a, b, l
<1>3. CASE Stays(s, t)
  BY <1>3 DEF Stays
<1> QED BY <1>2, <1>3 DEF Fine

\* A new game that starts as the Crawford rule wants keeps the record to it, the computer's
\* first turn included.
LEMMA StartedCrawfords ==
  ASSUME NEW s, NEW n \in Nat, Follows(s, n), s.ms.score \in [Players -> Nat], Crawfords(s.lMatch, n),
         NextCrawford(s) = NextDue(s, n), NEW t, Started(s, t)
  PROVE  /\ Crawfords(t.lMatch, n) /\ t.craw = s.craw /\ t.ms.gs = "playing"
         /\ t.last.g = Len(t.lMatch) /\ t.lMatch[t.last.g].info.crawford = NextCrawford(s)
<1>1. PICK b : Begun(s, b) /\ (t = b \/ Fine(b, t))
  BY DEF Started
<1>2. Chain(b.lMatch, n)
  BY <1>1, BegunChain
<1>3. /\ Crawfords(b.lMatch, n) /\ b.craw = s.craw
      /\ b.lMatch[Len(b.lMatch)].info.crawford = NextCrawford(s)
  BY <1>1, BegunCrawfords
<1>4. Core(b) /\ b.last.g # 0 /\ b.last.g = Len(b.lMatch)
  BY <1>1 DEF Begun, Landed
<1>5. t.ms.gs = "playing" /\ t.last.g = Len(t.lMatch)
  <2>1. AtTheEnd(t)
    BY DEF Started
  <2> QED BY <2>1, FirstTurn DEF AtTheEnd
<1>6. CASE t = b
  BY <1>3, <1>4, <1>5, <1>6
<1>7. CASE Fine(b, t)
  <2>1. /\ Crawfords(t.lMatch, n) /\ t.craw = b.craw
        /\ t.lMatch[t.last.g].info.crawford = b.lMatch[b.last.g].info.crawford
    BY <1>2, <1>3, <1>4, <1>7, FineCrawfords
  <2> QED BY <1>3, <1>4, <1>5, <2>1
<1> QED BY <1>1, <1>6, <1>7

\* What is left of the rule between the games: craw is what NewGame will go by.
Attends(s, w) ==
    s.last.g # 0 =>
      /\ s.ms.nMatchTo = 0 => s.craw = <<>> \/ s.craw[1] = FALSE
      /\ ~w /\ s.ms.nMatchTo # 0 /\ s.ms.gs = "playing" =>
           IF s.craw = <<>> THEN Len(s.lMatch) = 1
           ELSE s.craw[1] = s.lMatch[s.last.g].info.crawford
      /\ ~w /\ s.ms.nMatchTo # 0 /\ s.ms.gs \in Ended /\ ~s.next => MatchWon(s.ms)

\* A game that has ended tells the next one whether it is the Crawford game.
LEMMA EndDue ==
  ASSUME NEW s, Core(s), Duty(s), s.next = TRUE, s.ms.gs \in Ended, AtTheEnd(s), s.last.g # 0,
         NEW n, Chain(s.lMatch, n), Crawfords(s.lMatch, n),
         NEW u, u.ms = s.ms, u.lMatch = s.lMatch, u.last = s.last, NEW e, EndsIn(u, e)
  PROVE  /\ NextCrawford(e) = NextDue(e, n) /\ e.craw # <<>> /\ e.craw[1] = NextDue(e, n)
<1> DEFINE G == s.lMatch[s.last.g]
           i == G.info
<1>1. /\ s.last.g = Len(s.lMatch) /\ s.lMatch # <<>> /\ s.last.g \in 1..Len(s.lMatch)
      /\ GameOK(G) /\ Finished(G) /\ s.ms.score = EndOf(G).score /\ Len(s.lMatch) \in Nat
  BY LastEnd
<1>2. s.ms.nMatchTo = n
  BY LengthIs
<1>3. /\ EndOf(G).crawford = i.crawford /\ EndOf(G).post = (~i.crawford /\ OneAway(i))
      /\ i.winner \in Players /\ i.points \in 1..(3 * MaxCube) /\ EndOf(G).score = ScoreAfter(G)
      /\ i.score \in Scores /\ ScoreAfter(G) \in Scores
  BY <1>1, FinishedIs
<1>4. At(s) = EndOf(G)
  BY EndIs
<1>5. s.ms.crawford = i.crawford /\ s.ms.post = (~i.crawford /\ OneAway(i))
  BY <1>3, <1>4 DEF Duty
<1>6. i.nMatch = n /\ i.crawford = Due(s.lMatch, s.last.g, n)
  BY <1>1 DEF Chain, Crawfords
<1>7. /\ e.lMatch = s.lMatch /\ e.ms.score = s.ms.score /\ e.craw # <<>> /\ e.craw[1] = e.ms.crawford
      /\ e.ms.crawford = IF s.ms.nMatchTo = 0 THEN s.ms.crawford ELSE EndCrawford(u)
  BY DEF EndsIn
<1>8. Game(u) = G
  BY DEF Game
<1>9. e.ms.crawford = NextDue(e, n)
  <2>1. CASE n = 0
    <3>1. i.crawford = FALSE
      BY <1>6, <2>1 DEF Due
    <3>2. e.ms.crawford = FALSE
      BY <1>2, <1>5, <1>7, <2>1, <3>1
    <3>3. NextDue(e, n) = FALSE
      BY <2>1 DEF NextDue
    <3> QED BY <3>2, <3>3
  <2>2. CASE n # 0
    <3> DEFINE w == i.winner
               c == s.ms.score
    <3>1. e.ms.crawford = EndCrawford(u)
      BY <1>2, <1>7, <2>2
    <3>2. EndCrawford(u) = (/\ ~(s.ms.post \/ (i.crawford /\ c[w] < n)) /\ ~i.crawford
                            /\ c[w] = n - 1 /\ c[Other(w)] # n - 1)
      BY <1>2, <1>5, <1>8 DEF EndCrawford
    <3>3. NextDue(e, n) = ((\E p \in Players : c[p] = n - 1) /\ ~OneAway(i))
      BY <1>1, <1>7, <2>2 DEF NextDue
    <3>4. i.crawford => OneAway(i)
      BY <1>6 DEF Due
    <3>5. CASE OneAway(i)
      <4>1. s.ms.post \/ i.crawford
        BY <1>5, <3>5
      <4>2. EndCrawford(u) = FALSE
        BY <3>2, <4>1
      <4>3. NextDue(e, n) = FALSE
        BY <3>3, <3>5
      <4> QED BY <3>1, <4>2, <4>3
    <3>6. CASE ~OneAway(i)
      <4>1. ~i.crawford /\ ~s.ms.post
        BY <1>5, <3>4, <3>6
      <4>2. c[Other(w)] = i.score[Other(w)] /\ w \in Players /\ Other(w) \in Players
        <5>1. c = [i.score EXCEPT ![w] = @ + i.points]
          BY <1>1, <1>3 DEF ScoreAfter
        <5>2. w \in Players /\ Other(w) \in Players /\ Other(w) # w
          BY <1>3 DEF Players, Human, Gnu, Other
        <5>3. i.score \in [Players -> Nat]
          BY <1>3 DEF Scores
        <5> HIDE DEF i, w, c
        <5> QED BY <5>1, <5>2, <5>3
      <4>3. c[Other(w)] # n - 1
        BY <1>6, <3>6, <4>2 DEF OneAway
      <4>4. \A p \in Players : p = w \/ p = Other(w)
        <5>1. w \in Players
          BY <4>2
        <5> HIDE DEF w
        <5> QED BY <5>1 DEF Players, Human, Gnu, Other
      <4> HIDE DEF i, w, c
      <4>5. EndCrawford(u) = (c[w] = n - 1)
        BY <3>2, <4>1, <4>3
      <4>6. NextDue(e, n) = (c[w] = n - 1)
        BY <3>3, <3>6, <4>2, <4>3, <4>4
      <4> QED BY <3>1, <4>5, <4>6
    <3> QED BY <3>5, <3>6
  <2> QED BY <2>1, <2>2
<1>10. NextCrawford(e) = e.craw[1]
  BY <1>7 DEF NextCrawford
<1> QED BY <1>7, <1>9, <1>10

\* A game that ends, and the one that may follow.
LEMMA ClosesCrawfords ==
  ASSUME NEW s, Core(s), Duty(s), s.next = TRUE, s.last.g # 0, NEW n \in Nat, Chain(s.lMatch, n),
         Crawfords(s.lMatch, n), NEW w, Attends(s, w), NEW t, Closes(s, t)
  PROVE  Crawfords(t.lMatch, n) /\ Attends(t, w)
<1>1. PICK u : /\ u = [s EXCEPT !.next = FALSE]
               /\ s.ms.gs \in Ended /\ AtTheEnd(s) /\ EndsIn(u, EndOfGame(u))
               /\ Core(EndOfGame(u)) /\ AtTheEnd(EndOfGame(u))
               /\ \/ t = EndOfGame(u) /\ t.next = FALSE /\ (MatchWon(u.ms) \/ u.ms.nMatchTo = 0)
                  \/ ~MatchWon(u.ms) /\ Started(EndOfGame(u), t)
  BY DEF Closes
<1>2. PICK e : e = EndOfGame(u)
  OBVIOUS
<1>3. u.ms = s.ms /\ u.lMatch = s.lMatch /\ u.last = s.last
  <2>1. Whole(s)
    BY DEF Core
  <2> QED BY <1>1, <2>1, NextOnly
<1>4. /\ e.lMatch = s.lMatch /\ e.last = s.last /\ e.ms.gs = s.ms.gs /\ e.ms.score = s.ms.score
      /\ e.ms.nMatchTo = s.ms.nMatchTo /\ Core(e) /\ AtTheEnd(e)
  BY <1>1, <1>2, <1>3 DEF EndsIn
<1>5. NextCrawford(e) = NextDue(e, n) /\ e.craw # <<>> /\ e.craw[1] = NextDue(e, n)
  BY <1>1, <1>2, <1>3, EndDue
<1>6. s.ms.nMatchTo = n
  BY LengthIs
<1>7. n = 0 => NextDue(e, n) = FALSE
  BY DEF NextDue
<1>8. CASE t = e /\ (MatchWon(u.ms) \/ u.ms.nMatchTo = 0)
  <2>1. n # 0 => MatchWon(t.ms)
    BY <1>3, <1>4, <1>6, <1>8 DEF MatchWon
  <2>2. t.ms.gs # "playing" /\ t.ms.nMatchTo = n
    BY <1>1, <1>4, <1>6, <1>8, Kinds
  <2>3. Attends(t, w)
    BY <1>5, <1>7, <1>8, <2>1, <2>2 DEF Attends
  <2> QED BY <1>4, <1>8, <2>3
<1>9. CASE ~MatchWon(u.ms) /\ Started(e, t)
  <2>1. ~MatchWon(e.ms)
    BY <1>3, <1>4, <1>9 DEF MatchWon
  <2>2. Follows(e, n)
    BY <1>1, <1>4, <2>1, DecidedFollows
  <2>3. e.ms.score \in [Players -> Nat]
    BY <1>4, LastEnd
  <2>4. /\ Crawfords(t.lMatch, n) /\ t.craw = e.craw /\ t.ms.gs = "playing"
        /\ t.lMatch[t.last.g].info.crawford = NextCrawford(e)
    BY <1>4, <1>5, <1>9, <2>2, <2>3, StartedCrawfords
  <2>5. Chain(t.lMatch, n) /\ Core(t) /\ t.last.g # 0
    BY <1>9, <2>2, <2>3, StartedChain, StartedIs
  <2>6. t.ms.nMatchTo = n
    BY <2>5, LengthIs
  <2>7. Attends(t, w)
    BY <1>5, <1>7, <2>4, <2>6, Kinds DEF Attends
  <2> QED BY <2>4, <2>7
<1> QED BY <1>1, <1>2, <1>8, <1>9

\* At nought all there is no Crawford game.
LEMMA LevelNotDue ==
  ASSUME NEW s, s.craw = <<>>, s.ms.score = Zeros
  PROVE  NextCrawford(s) = FALSE
<1>1. s.ms.score[0] = 0 /\ s.ms.score[1] = 0
  BY DEF Zeros, Players, Human, Gnu
<1>2. Max2(s.ms.score[0], s.ms.score[1]) = 0 /\ Min2(s.ms.score[0], s.ms.score[1]) = 0
  BY <1>1 DEF Max2, Min2
<1>3. NextCrawford(s) => 0 = s.ms.nMatchTo - 1 /\ 0 < s.ms.nMatchTo - 1
  BY <1>2 DEF NextCrawford
<1>4. 0 = s.ms.nMatchTo - 1 /\ 0 < s.ms.nMatchTo - 1 => FALSE
  OBVIOUS
<1>5. NextCrawford(s) \in BOOLEAN
  BY DEF NextCrawford
<1> QED BY <1>3, <1>4, <1>5

\* A session has none either.
LEMMA SessionNotDue ==
  ASSUME NEW s, s.ms.nMatchTo = 0, s.craw = <<>> \/ s.craw[1] = FALSE
  PROVE  NextCrawford(s) = FALSE /\ NextDue(s, 0) = FALSE
<1>1. NextCrawford(s) = FALSE
  BY DEF NextCrawford
<1>2. NextDue(s, 0) = FALSE
  BY DEF NextDue
<1> QED BY <1>1, <1>2

\* The record without the game in play.
LEMMA PoppedCrawfords ==
  ASSUME NEW s, Core(s), AtTheEnd(s), s.last.g # 0, s.ms.gs = "playing", ~MatchWon(s.ms),
         NEW n \in Nat, Chain(s.lMatch, n), Crawfords(s.lMatch, n), Attends(s, FALSE),
         NEW q, q = PopGame(s)
  PROVE  /\ Crawfords(q.lMatch, n) /\ q.craw = s.craw
         /\ NextCrawford(q) = NextDue(q, n)
<1> DEFINE a == s.lMatch
           g == s.last.g
<1>1. /\ g = Len(a) /\ g \in 1..Len(a) /\ Len(a) \in Nat /\ GameOK(a[g]) /\ ~Finished(a[g])
      /\ s.ms.score = EndOf(a[g]).score
  BY LastEnd, Kinds
<1>2. s.ms.score = a[g].info.score
  BY <1>1, FinishedIs
<1>3. /\ q.ms = s.ms /\ q.craw = s.craw /\ Len(q.lMatch) = g - 1
      /\ \A j \in 1..(g - 1) : q.lMatch[j] = a[j]
  <2>1. MayBegin(s) /\ s.last.g \in 1..Len(s.lMatch)
    BY <1>1, CoreMayBegin
  <2> QED BY <2>1, PopGameIs
<1>4. s.ms.nMatchTo = n
  BY LengthIs
<1>5. a[g].info.nMatch = n /\ a[g].info.crawford = Due(a, g, n)
  BY <1>1 DEF Chain, Crawfords
<1>6. Crawfords(q.lMatch, n)
  <2> SUFFICES ASSUME NEW j \in 1..Len(q.lMatch)
               PROVE  q.lMatch[j].info.crawford = Due(q.lMatch, j, n)
    BY DEF Crawfords
  <2>1. j \in 1..(g - 1) /\ j \in 1..Len(a) /\ (j > 1 => j - 1 \in 1..(g - 1))
    BY <1>1, <1>3
  <2>2. a[j].info.crawford = Due(a, j, n)
    BY <2>1 DEF Crawfords
  <2>3. q.lMatch[j] = a[j] /\ (j > 1 => q.lMatch[j - 1] = a[j - 1])
    BY <1>3, <2>1
  <2>4. Due(q.lMatch, j, n) = Due(a, j, n)
    BY <2>3 DEF Due
  <2> QED BY <2>2, <2>3, <2>4
<1>7. /\ q.lMatch = <<>> <=> g = 1
      /\ q.lMatch # <<>> => Len(q.lMatch) = g - 1 /\ q.lMatch[Len(q.lMatch)] = a[g - 1] /\ g > 1
  <2>1. Recorded(q.lMatch)
    BY PoppedFollows DEF Follows
  <2>2. q.lMatch \in Seq(Games)
    BY <2>1 DEF Recorded
  <2>3. q.lMatch = <<>> <=> Len(q.lMatch) = 0
    BY <2>2, EmptySeq
  <2> QED BY <1>1, <1>3, <2>3
<1>8. NextCrawford(q) = NextDue(q, n)
  <2>1. CASE n = 0
    <3>1. q.craw = <<>> \/ q.craw[1] = FALSE
      BY <1>3, <1>4, <2>1 DEF Attends
    <3> QED BY <1>3, <1>4, <2>1, <3>1, SessionNotDue
  <2>2. CASE n # 0 /\ q.craw = <<>>
    <3>1. g = 1
      BY <1>1, <1>3, <1>4, <2>2 DEF Attends
    <3>2. s.ms.score = Zeros
      <4>1. a # <<>>
        BY <1>1, <3>1
      <4> QED BY <1>2, <3>1, <4>1 DEF Chain
    <3>3. NextCrawford(q) = FALSE
      BY <1>3, <2>2, <3>2, LevelNotDue
    <3>4. NextDue(q, n) = FALSE
      BY <1>7, <3>1 DEF NextDue
    <3> QED BY <3>3, <3>4
  <2>3. CASE n # 0 /\ q.craw # <<>>
    <3>1. NextCrawford(q) = Due(a, g, n)
      <4>1. q.craw[1] = a[g].info.crawford
        BY <1>3, <1>4, <2>3 DEF Attends
      <4>2. NextCrawford(q) = q.craw[1]
        BY <2>3 DEF NextCrawford
      <4> QED BY <1>5, <4>1, <4>2
    <3>2. OneAway(a[g].info) <=> \E p \in Players : q.ms.score[p] = n - 1
      BY <1>2, <1>3, <1>5 DEF OneAway
    <3>3. CASE g = 1
      <4>1. Due(a, g, n) = FALSE
        BY <3>3 DEF Due
      <4>2. NextDue(q, n) = FALSE
        BY <1>7, <3>3 DEF NextDue
      <4> QED BY <3>1, <4>1, <4>2
    <3>4. CASE g # 1
      <4>1. q.lMatch # <<>> /\ q.lMatch[Len(q.lMatch)] = a[g - 1] /\ g > 1
        BY <1>7, <3>4
      <4>2. Due(a, g, n) = NextDue(q, n)
        BY <2>3, <3>2, <4>1 DEF Due, NextDue
      <4> QED BY <3>1, <4>2
    <3> QED BY <3>3, <3>4
  <2> QED BY <2>1, <2>2, <2>3
<1> QED BY <1>3, <1>6, <1>8

\* A new game, in the place of the one in play or behind one that has ended.
LEMMA AgainCrawfords ==
  ASSUME NEW s, Core(s), AtTheEnd(s), s.last.g # 0, s.ms.gs = "playing" \/ s.next = FALSE,
         NEW n \in Nat, Chain(s.lMatch, n), Crawfords(s.lMatch, n), Attends(s, FALSE),
         NEW t, Again(s, t)
  PROVE  Crawfords(t.lMatch, n) /\ Attends(t, FALSE)
<1>1. /\ s.last.g = Len(s.lMatch) /\ s.ms.score \in [Players -> Nat] /\ s.ms.nMatchTo = n
      /\ s.ms.gs \in Ended \/ s.ms.gs = "playing"
  <2>1. s.last.g = Len(s.lMatch) /\ s.ms.gs # "none" /\ s.ms.score \in [Players -> Nat]
    BY LastEnd
  <2>2. Pending(s.ms, At(s), Game(s).recs[1].p) /\ Sound(At(s))
    BY CoreInGame DEF InGame
  <2>3. s.ms.gs \in {"none", "playing"} \cup Ended
    BY <2>2 DEF Pending, Alongside, Sound, Typed
  <2> QED BY <2>1, <2>3, LengthIs
<1>2. move_is_last_in_match(s)
  BY DEF AtTheEnd, move_is_last_in_match
<1>3. CASE MatchWon(s.ms) /\ t = s
  BY <1>3
<1>4. CASE ~MatchWon(s.ms) /\ s.ms.gs # "playing" /\ Started(s, t)
  <2>1. Follows(s, n)
    BY <1>1, <1>4, DecidedFollows
  <2>2. n = 0
    BY <1>1, <1>4 DEF Attends
  <2>3. s.craw = <<>> \/ s.craw[1] = FALSE
    BY <1>1, <2>2 DEF Attends
  <2>4. NextCrawford(s) = NextDue(s, n)
    BY <1>1, <2>2, <2>3, SessionNotDue
  <2>5. Crawfords(t.lMatch, n) /\ t.craw = s.craw
    BY <1>1, <1>4, <2>1, <2>4, StartedCrawfords
  <2>6. t.ms.nMatchTo = n
    <3>1. Core(t) /\ t.last.g # 0 /\ Chain(t.lMatch, n)
      BY <1>1, <1>4, <2>1, StartedChain, StartedIs
    <3> QED BY <3>1, LengthIs
  <2>7. Attends(t, FALSE)
    BY <2>2, <2>3, <2>5, <2>6 DEF Attends
  <2> QED BY <2>5, <2>7
<1>5. CASE ~MatchWon(s.ms) /\ s.ms.gs = "playing" /\ Started(PopGame(s), t)
  <2>1. PICK q : q = PopGame(s)
    OBVIOUS
  <2>2. Follows(q, n) /\ q.ms = s.ms
    BY <1>5, <2>1, PoppedFollows
  <2>3. Crawfords(q.lMatch, n) /\ q.craw = s.craw /\ NextCrawford(q) = NextDue(q, n)
    BY <1>5, <2>1, PoppedCrawfords
  <2>4. /\ Crawfords(t.lMatch, n) /\ t.craw = s.craw /\ t.ms.gs = "playing"
        /\ t.lMatch[t.last.g].info.crawford = NextCrawford(q)
    BY <1>1, <1>5, <2>1, <2>2, <2>3, StartedCrawfords
  <2>5. Core(t) /\ t.last.g # 0 /\ Chain(t.lMatch, n) /\ Len(t.lMatch) = Len(s.lMatch)
    <3>1. Len(t.lMatch) = Len(s.lMatch)
      <4>1. \/ t = s /\ MatchWon(s.ms)
            \/ s.ms.gs = "playing" => Len(t.lMatch) = Len(s.lMatch)
        BY AgainChain
      <4> QED BY <1>5, <4>1
    <3>2. Core(t) /\ t.last.g # 0 /\ Chain(t.lMatch, n)
      BY <1>1, <1>5, <2>1, <2>2, StartedChain, StartedIs
    <3> QED BY <3>1, <3>2
  <2>6. t.ms.nMatchTo = n
    BY <2>5, LengthIs
  <2>7. NextCrawford(q) = q.craw[1] \/ q.craw = <<>>
    BY DEF NextCrawford
  <2>8. n = 0 => t.craw = <<>> \/ t.craw[1] = FALSE
    BY <1>1, <2>3, <2>4 DEF Attends
  <2>9. n # 0 => IF t.craw = <<>> THEN Len(t.lMatch) = 1
                 ELSE t.craw[1] = t.lMatch[t.last.g].info.crawford
    <3>1. CASE t.craw = <<>>
      BY <1>1, <1>5, <2>3, <2>4, <2>5, <3>1 DEF Attends
    <3>2. CASE t.craw # <<>>
      BY <2>3, <2>4, <2>7, <3>2
    <3> QED BY <3>1, <3>2
  <2>10. t.ms.gs \notin Ended
    BY <2>4, Kinds
  <2>11. Attends(t, FALSE)
    BY <2>6, <2>8, <2>9, <2>10 DEF Attends
  <2> QED BY <2>4, <2>11
<1> QED BY <1>1, <1>2, <1>3, <1>4, <1>5 DEF Again

\* A new match keeps the rule.
LEMMA AnewCrawfords ==
  ASSUME NEW t, Anew(t)
  PROVE  Crawfords(t.lMatch, t.ms.nMatchTo) /\ Attends(t, FALSE)
<1>1. PICK q, u : \E n \in Lengths : StartedAnew(q, n, u) /\ (t = u \/ Again(u, t))
  BY DEF Anew
<1> PICK n \in Lengths : StartedAnew(q, n, u) /\ (t = u \/ Again(u, t))
  BY <1>1
<1>2. PICK c : Cleared(q, c, n) /\ Started(c, u)
  BY DEF StartedAnew
<1>3. n \in Nat
  BY LengthsAreNat
<1>4. /\ c.lMatch = <<>> /\ c.ms.nMatchTo = n /\ c.ms.score = Zeros /\ c.craw = <<>>
      /\ c.ms.score \in [Players -> Nat] /\ ~MatchWon(c.ms)
  <2>1. /\ c.lMatch = <<>> /\ c.ms.nMatchTo = n /\ c.ms.score = [p \in Players |-> 0]
        /\ c.craw = <<>>
    BY <1>2 DEF Cleared
  <2>2. ~MatchWon(c.ms)
    BY <1>3, <2>1 DEF MatchWon
  <2> QED BY <2>1, <2>2 DEF Zeros
<1>5. Follows(c, n) /\ Crawfords(c.lMatch, n)
  <2>1. Recorded(<<>>) /\ Len(<<>>) = 0 /\ <<>> \in Seq(Games)
    BY DEF Recorded
  <2>2. Chain(<<>>, n)
    BY <2>1 DEF Chain
  <2>3. Crawfords(<<>>, n)
    BY <2>1 DEF Crawfords
  <2> QED BY <1>4, <2>1, <2>2, <2>3 DEF Follows
<1>6. NextCrawford(c) = NextDue(c, n)
  <2>1. NextCrawford(c) = FALSE
    BY <1>4, LevelNotDue
  <2>2. NextDue(c, n) = FALSE
    BY <1>4 DEF NextDue
  <2> QED BY <2>1, <2>2
<1>7. Crawfords(u.lMatch, n) /\ u.craw = <<>> /\ u.ms.gs = "playing"
  BY <1>2, <1>3, <1>4, <1>5, <1>6, StartedCrawfords
<1>8. Core(u) /\ AtTheEnd(u) /\ u.last.g # 0 /\ Chain(u.lMatch, n) /\ Len(u.lMatch) = 1
  <2>1. Core(u) /\ AtTheEnd(u) /\ u.last.g # 0
    BY <1>2, StartedIs
  <2>2. Chain(u.lMatch, n) /\ OneMore(c.lMatch, u.lMatch)
    BY <1>2, <1>3, <1>4, <1>5, StartedChain
  <2>3. Len(<<>>) = 0
    OBVIOUS
  <2> QED BY <1>4, <2>1, <2>2, <2>3 DEF OneMore
<1>9. Attends(u, FALSE)
  BY <1>7, <1>8, Kinds DEF Attends
<1>10. Crawfords(t.lMatch, n) /\ Attends(t, FALSE)
  <2>1. CASE t = u
    BY <1>7, <1>9, <2>1
  <2>2. CASE Again(u, t)
    BY <1>3, <1>7, <1>8, <1>9, <2>2, AgainCrawfords
  <2> QED BY <1>1, <2>1, <2>2
<1>11. t.ms.nMatchTo = n
  <2>1. CASE t = u
    BY <1>8, <2>1, LengthIs
  <2>2. CASE Again(u, t)
    <3>1. Chain(t.lMatch, n)
      BY <1>3, <1>8, <2>2, AgainChain
    <3>2. Core(t) /\ t.last.g # 0
      BY AnewChain
    <3> QED BY <3>1, <3>2, LengthIs
  <2> QED BY <1>1, <2>1, <2>2
<1> QED BY <1>10, <1>11

\* A lawful step of play.
LEMMA FineAttends ==
  ASSUME NEW s, Core(s), s.last.g # 0, NEW n, Chain(s.lMatch, n), Crawfords(s.lMatch, n),
         NEW w, ~w => AtTheEnd(s), Attends(s, w), NEW t, Fine(s, t)
  PROVE  Attends(t, w)
<1>1. /\ t.craw = s.craw /\ t.last.g = s.last.g
      /\ t.lMatch[t.last.g].info.crawford = s.lMatch[s.last.g].info.crawford
  BY FineCrawfords
<1>2. s.ms.nMatchTo = n /\ t.ms.nMatchTo = n
  <2>1. Chain(t.lMatch, n) /\ t.last.g # 0
    BY FineChain
  <2>2. Core(t)
    BY DEF Fine
  <2> QED BY <2>1, <2>2, LengthIs
<1>3. ~w /\ t.ms.gs = "playing" => s.ms.gs = "playing" /\ Len(t.lMatch) = Len(s.lMatch)
  <2> SUFFICES ASSUME ~w, t.ms.gs = "playing" PROVE s.ms.gs = "playing" /\ Len(t.lMatch) = Len(s.lMatch)
    OBVIOUS
  <2>1. s.last.g = Len(s.lMatch) /\ s.ms.gs # "none" /\ s.last.g \in 1..Len(s.lMatch)
    BY LastEnd
  <2>2. CASE Adds(s, t)
    <3>1. At(s).gs \in {"none", "playing"}
      <4>1. At(s) = Behind(s)
        <5>1. AtTheEnd(s) /\ Core(s) /\ s.last.g # 0
          OBVIOUS
        <5>2. s.last.k = Len(Game(s).recs) /\ s.last.k \in Nat
          BY <5>1 DEF AtTheEnd, Core, Game
        <5> QED BY <5>2, EndOfRecord
      <4>2. PICK r : Allowed(Behind(s), r)
        BY <2>2 DEF Adds
      <4> QED BY <4>1, <4>2, AllowedIs
    <3>2. s.ms.gs = At(s).gs
      BY DEF Core, Pending, Alongside
    <3>3. Recorded(s.lMatch)
      BY DEF Core
    <3>4. Len(t.lMatch) = s.last.g
      BY <2>1, <2>2, <3>3, AddsChain
    <3> QED BY <2>1, <3>1, <3>2, <3>4
  <2>3. CASE Stays(s, t)
    BY <2>3 DEF Stays
  <2> QED BY <2>2, <2>3 DEF Fine
<1>4. t.ms.gs \in Ended /\ ~t.next => t = s
  BY DEF Fine
<1>5. CASE t = s
  BY <1>5
<1>6. CASE ~(t.ms.gs \in Ended /\ ~t.next)
  BY <1>1, <1>2, <1>3, <1>6 DEF Attends
<1> QED BY <1>4, <1>5, <1>6

---------------------------------------------------------------------------
(* The invariant of the Crawford game.                                     *)

\* The rule is kept in the record, and what is left of it in the static variable.
Remembered == Crawfords(lMatch, ms.nMatchTo) /\ Attends(Now, walked)

\* There is nothing to remember at first.
LEMMA RememberedAtFirst == Init => Remembered
<1>1. Len(<<>>) = 0
  OBVIOUS
<1> QED BY <1>1 DEF Init, Remembered, Crawfords, Attends, Now

\* Every step keeps the rule and what is remembered of it.
LEMMA RememberedStep == ASSUME IInv, Linked, Remembered, Next PROVE Remembered'
<1>1. PICK s : s = Now
  OBVIOUS
<1>2. PICK t : t = Now'
  OBVIOUS
<1>3. PICK w : w = walked
  OBVIOUS
<1>4. /\ Core(s) /\ Duty(s) /\ (~w => AtTheEnd(s)) /\ Chain(s.lMatch, s.ms.nMatchTo)
      /\ Crawfords(s.lMatch, s.ms.nMatchTo) /\ Attends(s, w)
  BY <1>1, <1>3, NowIs DEF IInv, Linked, Remembered
<1>5. Core(t) /\ Chain(t.lMatch, t.ms.nMatchTo)
  <2>1. IInv' /\ Linked'
    BY NextKeeps, LinkedKept
  <2>2. Core(Now)' /\ Chain(lMatch, ms.nMatchTo)'
    BY <2>1 DEF IInv, Linked
  <2>3. t.lMatch = lMatch' /\ t.ms = ms'
    BY <1>2 DEF Now
  <2> QED BY <1>2, <2>2, <2>3
<1>6. s.last.g # 0 => s.ms.nMatchTo \in Nat
  <2> SUFFICES ASSUME s.last.g # 0 PROVE s.ms.nMatchTo \in Nat
    OBVIOUS
  <2>1. Pending(s.ms, At(s), Game(s).recs[1].p) /\ Sound(At(s))
    BY <1>4, CoreInGame DEF InGame
  <2> QED BY <2>1 DEF Pending, Alongside, Sound, Typed
<1>7. PICK v : v = walked'
  OBVIOUS
<1>8. Crawfords(t.lMatch, t.ms.nMatchTo) /\ Attends(t, v)
  <2>1. CASE (DrainStep \/ PlayStep) /\ Fine(s, t)
    <3>1. s.last.g # 0 /\ v = w
      BY <1>1, <1>3, <1>7, <2>1, NowIs DEF DrainStep, PlayStep, IInv, Duty
    <3>2. Attends(t, w) /\ Crawfords(t.lMatch, s.ms.nMatchTo)
      BY <1>4, <2>1, <3>1, FineAttends, FineCrawfords
    <3>3. t.ms.nMatchTo = s.ms.nMatchTo
      <4>1. Chain(t.lMatch, s.ms.nMatchTo) /\ t.last.g # 0
        BY <1>4, <2>1, <3>1, FineChain
      <4> QED BY <1>5, <4>1, LengthIs
    <3> QED BY <3>1, <3>2, <3>3
  <2>2. CASE DrainStep /\ Closes(s, t)
    <3>1. s.last.g # 0 /\ v = w /\ s.next = TRUE
      BY <1>1, <1>3, <1>7, <2>2, NowIs DEF DrainStep, IInv, Duty
    <3>2. Crawfords(t.lMatch, s.ms.nMatchTo) /\ Attends(t, w)
      BY <1>4, <1>6, <2>2, <3>1, ClosesCrawfords
    <3>3. Chain(t.lMatch, s.ms.nMatchTo) /\ t.lMatch # <<>>
      <4>1. Chain(t.lMatch, s.ms.nMatchTo) /\ (t.lMatch = s.lMatch \/ PlaysOn(s.lMatch, t.lMatch))
        BY <1>4, <1>6, <2>2, <3>1, ClosesChain
      <4>2. s.lMatch # <<>>
        BY <2>2, <3>1, <1>4, LastEnd DEF Closes
      <4> QED BY <4>1, <4>2 DEF PlaysOn
    <3>4. t.last.g # 0
      BY <2>2, <3>1, StartedIs DEF Closes, EndsIn
    <3>5. t.ms.nMatchTo = s.ms.nMatchTo
      BY <1>5, <3>3, <3>4, LengthIs
    <3> QED BY <3>1, <3>2, <3>5
  <2>3. CASE StartStep
    <3>1. Anew(t) /\ v = FALSE
      BY <1>2, <1>7, <2>3 DEF StartStep
    <3> QED BY <3>1, AnewCrawfords
  <2>4. CASE ButtonStep
    <3>1. s.last.g # 0 /\ Again(s, t) /\ v = w /\ ~w /\ s.next = FALSE
      BY <1>1, <1>2, <1>3, <1>7, <2>4, NowIs DEF ButtonStep, IInv
    <3>2. AtTheEnd(s) /\ Attends(s, FALSE)
      BY <1>4, <3>1 DEF Attends
    <3>3. Crawfords(t.lMatch, s.ms.nMatchTo) /\ Attends(t, FALSE)
      BY <1>4, <1>6, <3>1, <3>2, AgainCrawfords
    <3>4. t.ms.nMatchTo = s.ms.nMatchTo
      <4>1. Chain(t.lMatch, s.ms.nMatchTo)
        BY <1>4, <1>6, <3>1, <3>2, AgainChain
      <4>2. t.last.g # 0
        <5>1. t = s \/ \E q : Started(q, t)
          BY <3>1 DEF Again
        <5> QED BY <3>1, <5>1, StartedIs
      <4> QED BY <1>5, <4>1, <4>2, LengthIs
    <3>5. Attends(t, v)
      BY <3>1, <3>3 DEF Attends
    <3> QED BY <3>3, <3>4, <3>5
  <2>5. CASE WalkStep
    <3>1. s.last.g # 0 /\ Elsewhere(s, t) /\ v = TRUE
      BY <1>1, <1>2, <1>7, <2>5, NowIs DEF WalkStep
    <3>2. t.lMatch = s.lMatch /\ t.craw = s.craw /\ t.last.g # 0
      BY <3>1 DEF Elsewhere
    <3>3. t.ms.nMatchTo = s.ms.nMatchTo
      BY <1>4, <1>5, <3>2, LengthIs
    <3>4. Attends(t, v)
      BY <1>4, <3>1, <3>2, <3>3 DEF Attends
    <3> QED BY <1>4, <3>2, <3>3, <3>4
  <2>6. DrainStep => Fine(s, t) \/ Closes(s, t)
    BY <1>1, <1>2 DEF DrainStep
  <2>7. PlayStep => Fine(s, t)
    BY <1>1, <1>2 DEF PlayStep
  <2> QED BY <2>1, <2>2, <2>3, <2>4, <2>5, <2>6, <2>7, NextIs
<1>9. t.lMatch = lMatch' /\ t.ms = ms'
  BY <1>2 DEF Now
<1>10. Crawfords(lMatch, ms.nMatchTo)' /\ Attends(Now, walked)'
  BY <1>2, <1>7, <1>8, <1>9
<1> QED BY <1>10 DEF Remembered

\* So does a step that changes nothing.
LEMMA RememberedKept == ASSUME IInv, Linked, Remembered, [Next]_vars PROVE Remembered'
<1>1. CASE Next
  BY <1>1, RememberedStep
<1>2. CASE UNCHANGED vars
  <2>1. Now' = Now /\ lMatch' = lMatch /\ ms' = ms /\ walked' = walked
    BY <1>2 DEF vars, Now
  <2> QED BY <2>1 DEF Remembered
<1> QED BY <1>1, <1>2

---------------------------------------------------------------------------
(* The rule itself.                                                        *)

\* A player one point away stays so while the match goes on: the next point would win it.
LEMMA OneAwayStays ==
  ASSUME NEW a, Recorded(a), NEW n \in Nat, n # 0, Chain(a, n), NEW g \in 1..Len(a),
         NEW h \in 1..Len(a), h <= g, OneAway(a[h].info)
  PROVE  OneAway(a[g].info)
<1>1. Len(a) \in Nat
  <2>1. a \in Seq(Games)
    BY DEF Recorded
  <2> QED BY <2>1
<1>2. PICK p \in Players : a[h].info.score[p] = n - 1
  BY DEF OneAway, Chain
<1> DEFINE S == {d \in Nat : h + d \in 1..Len(a) => a[h + d].info.score[p] = n - 1}
<1>3. 0 \in S
  <2>1. h + 0 = h
    OBVIOUS
  <2> QED BY <1>2, <2>1
<1>4. ASSUME NEW d \in Nat, d \in S PROVE d + 1 \in S
  <2> SUFFICES ASSUME h + (d + 1) \in 1..Len(a) PROVE a[h + (d + 1)].info.score[p] = n - 1
    OBVIOUS
  <2>1. PICK j : j = h + d
    OBVIOUS
  <2>2. j \in 1..(Len(a) - 1) /\ j \in 1..Len(a) /\ j + 1 = h + (d + 1) /\ j + 1 \in 1..Len(a)
    BY <1>1, <2>1
  <2>3. a[j].info.score[p] = n - 1
    BY <1>4, <2>1, <2>2
  <2>4. a[j + 1].info.score = ScoreAfter(a[j]) /\ a[j + 1].info.score[p] < n
    BY <2>2 DEF Chain
  <2>5. /\ a[j].info.winner \in Players /\ a[j].info.points \in 1..(3 * MaxCube)
        /\ a[j].info.score \in Scores
    <3>1. Finished(a[j]) /\ GameOK(a[j])
      BY <2>2 DEF Chain, Recorded
    <3> QED BY <3>1, FinishedIs
  <2>6. a[j].info.winner # p
    <3> SUFFICES ASSUME a[j].info.winner = p PROVE FALSE
      OBVIOUS
    <3>1. ScoreAfter(a[j])[p] = a[j].info.score[p] + a[j].info.points
      BY <2>5 DEF ScoreAfter, Scores
    <3> QED BY <2>3, <2>4, <2>5, <3>1
  <2>7. ScoreAfter(a[j])[p] = a[j].info.score[p]
    BY <2>5, <2>6 DEF ScoreAfter, Scores
  <2> QED BY <2>2, <2>3, <2>4, <2>7
<1>5. Nat \subseteq S
  <2> HIDE DEF S
  <2> QED BY <1>3, <1>4, SetInduction
<1>6. g - h \in Nat /\ h + (g - h) = g
  BY <1>1
<1>7. a[g].info.score[p] = n - 1
  BY <1>5, <1>6
<1> QED BY <1>7 DEF OneAway, Chain

\* The rule follows: a player one point away at the start of a game was so at the start of
\* every later one.
LEMMA InvariantCrawford == ASSUME IInv, Linked, Remembered PROVE CrawfordRule
<1>1. PICK a : a = lMatch
  OBVIOUS
<1>2. PICK n : n = ms.nMatchTo
  OBVIOUS
<1>3. Recorded(a) /\ Chain(a, n) /\ Crawfords(a, n)
  BY <1>1, <1>2, NowIs DEF IInv, Core, Linked, Remembered
<1>4. DOMAIN a = 1..Len(a) /\ Len(a) \in Nat
  <2>1. a \in Seq(Games)
    BY <1>3 DEF Recorded
  <2> QED BY <2>1
<1> SUFFICES ASSUME NEW g \in 1..Len(a), a[g].info.nMatch >= 2
             PROVE  a[g].info.crawford
                      <=> OneAway(a[g].info) /\ \A h \in 1..(g - 1) : ~OneAway(a[h].info)
  BY <1>1, <1>4 DEF CrawfordRule, OneAway
<1>5. a[g].info.nMatch = n /\ a[g].info.crawford = Due(a, g, n)
  BY <1>3 DEF Chain, Crawfords
<1>6. n \in Nat /\ n # 0 /\ n >= 2
  <2>1. GameOK(a[g])
    BY <1>3 DEF Recorded
  <2>2. a[g].info.nMatch \in Nat
    BY <2>1, FinishedIs
  <2> QED BY <1>5, <2>2
<1>7. CASE g = 1
  <2>1. a[1].info.score = Zeros
    <3>1. a # <<>>
      <4>1. Len(<<>>) = 0
        OBVIOUS
      <4> QED BY <1>4, <4>1
    <3> QED BY <1>3, <3>1 DEF Chain
  <2>2. ~OneAway(a[g].info)
    BY <1>5, <1>6, <1>7, <2>1 DEF OneAway, Zeros
  <2> QED BY <1>5, <1>7, <2>2 DEF Due
<1>8. CASE g # 1
  <2>1. g > 1 /\ g - 1 \in 1..Len(a) /\ g - 1 \in 1..(g - 1)
    BY <1>4, <1>8
  <2>2. \A h \in 1..(g - 1) : OneAway(a[h].info) => OneAway(a[g - 1].info)
    <3> SUFFICES ASSUME NEW h \in 1..(g - 1), OneAway(a[h].info) PROVE OneAway(a[g - 1].info)
      OBVIOUS
    <3>1. h \in 1..Len(a) /\ h <= g - 1
      BY <1>4, <2>1
    <3> QED BY <1>3, <1>6, <2>1, <3>1, OneAwayStays
  <2> QED BY <1>5, <1>6, <2>1, <2>2 DEF Due
<1> QED BY <1>7, <1>8

\* In a match of two points or more the Crawford game is the first that begins with a player
\* one point away, and no other.
THEOREM CrawfordCorrect == Spec => []CrawfordRule
<1>1. Init => Linked /\ Remembered
  BY LinkedAtFirst, RememberedAtFirst
<1>2. IInv /\ Linked /\ Remembered /\ [Next]_vars => Linked' /\ Remembered'
  BY LinkedKept, RememberedKept
<1>3. IInv /\ Linked /\ Remembered => CrawfordRule
  BY InvariantCrawford
<1> QED BY <1>1, <1>2, <1>3, Invariant, PTL DEF Spec

---------------------------------------------------------------------------
(* The drain.                                                              *)

\* How many NextTurns may still leave a turn owed, when one is owed: at the end of a game the
\* computer may have the first turn of the next; the computer takes a double, rolls,
\* and wins, or doubles, moves and waits.
Left(m) ==
    IF m.gs \in Ended THEN 1
    ELSE IF m.turn = Human THEN 0 ELSE IF m.resigned = 0 /\ m.doubled THEN 3 ELSE 2

\* It is three at most.
LEMMA LeftIs ==
  ASSUME NEW m
  PROVE  /\ Left(m) \in 0..3
         /\ m.gs \in Ended => Left(m) = 1
         /\ m.gs = "playing" /\ m.turn = Human => Left(m) = 0
         /\ ~(m.resigned = 0 /\ m.doubled) => Left(m) <= 2
BY Kinds DEF Left

\* Where gnubg is on turn, it is by the replay too.
LEMMA GnuSees ==
  ASSUME NEW s, Core(s), Duty(s), s.ms.gs = "playing", s.ms.resigned = 0, s.ms.turn = Gnu
  PROVE  /\ AgreeButGs(s.ms, At(s)) /\ At(s).gs = "playing" /\ InGame(s)
         /\ At(s).turn = Gnu /\ Sees(s) = At(s)
<1>1. s.ms.turn = At(s).turn
  <2>1. ~Forgone(s)
    BY HumanIs DEF Forgone
  <2> QED BY <2>1, ReplayStands
<1> QED BY <1>1, ReplayStands, PlayingInGame DEF Sees

\* The computer's double is never refused.
LEMMA DoubleStands ==
  ASSUME NEW s, Core(s), Duty(s), s.ms.gs = "playing", s.ms.resigned = 0, ~s.ms.doubled, s.ms.turn = Gnu,
         s.ms.nMatchTo = 0 => ~s.ms.crawford, ConsiderDoubling(s) # {}
  PROVE  CommandDouble(s, TRUE).ms.gs = "playing" /\ CommandDouble(s, TRUE).ms.turn = Human
         /\ Whole(CommandDouble(s, TRUE))
<1>1. s.ms.dice = NoDice /\ s.ms.cube < MaxCube /\ GetDPEq(s.ms)
  BY DEF ConsiderDoubling
<1>2. AgreeButGs(s.ms, At(s)) /\ At(s).gs = "playing" /\ InGame(s)
  BY GnuSees
<1>3. s.ms.move = Gnu /\ s.ms.score \in [Players -> Nat] /\ s.ms.nMatchTo \in Nat /\ s.ms.cube \in Nat
  <2>1. At(s).turn = At(s).move /\ Typed(At(s)) /\ CubeOK(At(s))
    BY <1>2 DEF InGame, Sound, InPlay, AgreeButGs
  <2>2. At(s).cube \in Nat
    BY <2>1, CubeIs
  <2> QED BY <1>2, <2>1, <2>2 DEF AgreeButGs, Typed
<1>4. s.ms.score[Gnu] \in Nat
  BY <1>3, HumanIs
<1>5. gnubg_can_double(s.ms, TRUE)
  <2>1. ~s.ms.crawford /\ s.ms.owner \in {Nobody, s.ms.turn}
    BY <1>1, <1>3 DEF GetDPEq
  <2>2. s.ms.nMatchTo # 0 => s.ms.cube < s.ms.nMatchTo - s.ms.score[s.ms.turn]
    <3>1. s.ms.nMatchTo # 0 => s.ms.score[Gnu] + s.ms.cube < s.ms.nMatchTo
      BY <1>1, <1>3 DEF GetDPEq
    <3> QED BY <1>3, <1>4, <3>1
  <2> QED BY <1>1, <1>3, <2>1, <2>2 DEF gnubg_can_double, MayAct
<1>6. PICK r : r = Rec("double", s.ms.turn, 0)
  OBVIOUS
<1>7. CommandDouble(s, TRUE) = Record(s, r)
  BY <1>5, <1>6 DEF CommandDouble
<1>8. Legal(Sees(s), r) /\ s.ms.turn = At(s).turn /\ Sees(s) = At(s)
  BY <1>5, <1>6, DoubleGoes, GnuSees
<1>9. r \in Records /\ r.mt = "double" /\ r.p = Gnu
  <2>1. 0 \in 0..3 /\ Gnu \in Players
    BY HumanIs
  <2> QED BY <1>6, <2>1, RecIs DEF RecordKinds
<1>10. PICK y : y = FixAndApply(At(s), Game(s).info, r)
  OBVIOUS
<1>11. Doubled(y, At(s), Game(s).info, r)
  <2>1. /\ IsState(At(s)) /\ At(s).turn = r.p /\ At(s).move \in Players /\ At(s).doubled \in BOOLEAN
    <3>1. At(s).doubled \in BOOLEAN /\ At(s).move \in Players
      BY <1>2 DEF InGame, Sound, Typed
    <3> QED BY <1>2, <1>9, <3>1 DEF AgreeButGs
  <2> QED BY <1>9, <1>10, <2>1, DoubleStep
<1>12. y.ms.gs = "playing" /\ y.ms.turn = Human
  <2>1. ~(At(s).cube >= MaxCube)
    BY <1>1, <1>2, <1>3, MaxCubeIs DEF AgreeButGs
  <2> QED BY <1>9, <1>11, <2>1, HumanIs DEF Doubled
<1>13. PICK u : u = AddMoveRecord(s, r)
  OBVIOUS
<1>14. Whole(u) /\ u.ms = y.ms
  BY <1>8, <1>9, <1>10, <1>13, RecordGoes DEF Landed, Core
<1>15. Record(s, r) = [u EXCEPT !.next = TRUE]
  BY <1>13 DEF Record
<1>16. PICK t : t = CommandDouble(s, TRUE)
  OBVIOUS
<1>17. t.ms = u.ms /\ Whole(t)
  <2>1. t = [u EXCEPT !.next = TRUE]
    BY <1>7, <1>15, <1>16
  <2> QED BY <1>14, <2>1, NextOnly
<1> QED BY <1>12, <1>14, <1>16, <1>17

\* A double is answered: the record the cursor stands on is that double.
LEMMA AnswerStands ==
  ASSUME NEW s, Core(s), Duty(s), s.ms.gs = "playing", s.ms.resigned = 0, s.ms.doubled, s.ms.turn = Gnu
  PROVE  /\ CommandTake(s, TRUE).ms.gs = "playing" /\ ~CommandTake(s, TRUE).ms.doubled
         /\ CommandDrop(s, TRUE).ms.gs = "drop"
         /\ Whole(CommandTake(s, TRUE)) /\ Whole(CommandDrop(s, TRUE))
<1>1. AgreeButGs(s.ms, At(s)) /\ At(s).gs = "playing" /\ InGame(s)
  BY GnuSees
<1>2. At(s).doubled /\ IsState(At(s))
  BY <1>1 DEF AgreeButGs
<1>3. LinkToDouble(s) /\ MayAct(s.ms, TRUE)
  <2>1. Offered(At(s), Game(s).recs, s.last.k)
    BY <1>1 DEF InGame, Facts
  <2> QED BY <1>1, <1>2, <2>1 DEF Offered, LinkToDouble, Game, MayAct
<1>4. ASSUME NEW mt \in {"take", "drop"}, NEW r, r = Rec(mt, s.ms.turn, 0),
             NEW y, y = FixAndApply(At(s), Game(s).info, r), NEW t, t = Record(s, r)
      PROVE  t.ms = y.ms /\ Whole(t) /\ r \in Records /\ r.mt = mt
  <2>1. Legal(Sees(s), r) /\ Sees(s) = At(s)
    BY <1>4, AnswerGoes, GnuSees
  <2>2. r \in Records /\ r.mt = mt
    <3>1. 0 \in 0..3 /\ Gnu \in Players /\ mt \in RecordKinds
      BY HumanIs DEF RecordKinds
    <3> QED BY <1>4, <3>1, RecIs
  <2>3. PICK u : u = AddMoveRecord(s, r)
    OBVIOUS
  <2>4. Whole(u) /\ u.ms = y.ms
    BY <1>4, <2>1, <2>2, <2>3, RecordGoes DEF Landed, Core
  <2>5. t = [u EXCEPT !.next = TRUE]
    BY <1>4, <2>3 DEF Record
  <2> QED BY <2>2, <2>4, <2>5, NextOnly
<1>5. CommandTake(s, TRUE).ms.gs = "playing" /\ ~CommandTake(s, TRUE).ms.doubled /\ Whole(CommandTake(s, TRUE))
  <2>1. PICK r : r = Rec("take", s.ms.turn, 0)
    OBVIOUS
  <2>2. PICK y : y = FixAndApply(At(s), Game(s).info, r)
    OBVIOUS
  <2>3. PICK t : t = Record(s, r)
    OBVIOUS
  <2>4. t.ms = y.ms /\ Whole(t) /\ r \in Records /\ r.mt = "take"
    BY <1>4, <2>1, <2>2, <2>3
  <2>5. Taken(y, At(s), Game(s).info, r)
    BY <1>2, <2>2, <2>4, TakeStep
  <2>6. CommandTake(s, TRUE) = t
    BY <1>3, <2>1, <2>3 DEF CommandTake
  <2> QED BY <2>4, <2>5, <2>6 DEF Taken
<1>6. CommandDrop(s, TRUE).ms.gs = "drop" /\ Whole(CommandDrop(s, TRUE))
  <2>1. PICK r : r = Rec("drop", s.ms.turn, 0)
    OBVIOUS
  <2>2. PICK y : y = FixAndApply(At(s), Game(s).info, r)
    OBVIOUS
  <2>3. PICK t : t = Record(s, r)
    OBVIOUS
  <2>4. t.ms = y.ms /\ Whole(t) /\ r \in Records /\ r.mt = "drop"
    BY <1>4, <2>1, <2>2, <2>3
  <2>5. Dropped(y, At(s), Game(s).info, r)
    BY <1>2, <2>2, <2>4, DropStep
  <2>6. CommandDrop(s, TRUE) = t
    BY <1>3, <2>1, <2>3 DEF CommandDrop
  <2> QED BY <2>4, <2>5, <2>6 DEF Dropped
<1> QED BY <1>5, <1>6

\* After the computer's move the human is on turn, or the game is over.
LEMMA MoveStands ==
  ASSUME NEW s, Core(s), Duty(s), s.ms.gs = "playing", s.ms.resigned = 0, ~s.ms.doubled, s.ms.turn = Gnu,
         NEW u \in RollAndMove(s)
  PROVE  /\ Whole(u)
         /\ u.ms.gs \in Ended \/ (u.ms.gs = "playing" /\ u.ms.turn = Human)
<1>1. PICK borne \in 0..1 : u = AddMoveRecord(s, Rec("normal", s.ms.turn, borne))
  BY DEF RollAndMove
<1>2. PICK r : r = Rec("normal", s.ms.turn, borne)
  OBVIOUS
<1>3. Legal(Sees(s), r) /\ Sees(s) = At(s)
  BY <1>2, MoveGoes, GnuSees
<1>4. r \in Records /\ r.mt = "normal" /\ r.p = Gnu /\ r.n = borne
  <2>1. borne \in 0..3 /\ Gnu \in Players
    BY HumanIs
  <2> QED BY <1>2, <2>1, RecIs DEF RecordKinds
<1>5. Whole(u) /\ u.ms = FixAndApply(At(s), Game(s).info, r).ms
  BY <1>1, <1>2, <1>3, <1>4, RecordGoes DEF Landed, Core
<1>6. AgreeButGs(s.ms, At(s)) /\ At(s).gs = "playing" /\ InGame(s)
  BY GnuSees
<1>7. /\ IsState(At(s)) /\ At(s).score \in [Players -> Nat] /\ At(s).turn = r.p /\ At(s).move = r.p
      /\ At(s).board \in [Players -> Int]
  <2>1. At(s).turn = Gnu /\ ~At(s).doubled /\ At(s).turn = At(s).move
    BY <1>6 DEF AgreeButGs, InGame, Sound, InPlay
  <2>2. At(s).board \in [Players -> 0..Men] /\ At(s).score \in [Players -> Nat] /\ IsState(At(s))
    BY <1>6 DEF InGame, Sound, Typed
  <2> QED BY <1>4, <2>1, <2>2
<1>8. Moved(FixAndApply(At(s), Game(s).info, r), At(s), Game(s).info, r)
  BY <1>4, <1>7, NormalStep
<1> QED BY <1>4, <1>5, <1>8, HumanIs, Kinds DEF Moved

\* What the computer does brings the drain nearer to its end.
LEMMA ComputerTurnLeaves ==
  ASSUME NEW s, Core(s), s.ms.gs = "playing", s.ms.turn = Gnu,
         At(s).turn = Gnu => AtTheEnd(s),
         s.ms.nMatchTo = 0 => ~s.ms.crawford, NEW t \in ComputerTurn(s)
  PROVE  Left(t.ms) < Left(s.ms)
<1>1. PICK u : /\ t = [u EXCEPT !.next = TRUE]
               /\ u \in IF s.ms.resigned # 0 THEN AnswerResignation(s)
                        ELSE IF s.ms.doubled THEN AnswerDouble(s)
                        ELSE ConsiderResigning(s) \cup ConsiderDoubling(s) \cup RollAndMove(s)
  BY DEF ComputerTurn
<1>2. Whole(u) => t.ms = u.ms
  BY <1>1, NextOnly
<1>3. /\ Whole(s) /\ IsState(s.ms) /\ s.ms.resigned \in 0..3 /\ s.ms.declined \in 0..3
  BY TurnIs DEF Core
<1>4. MayAct(s.ms, TRUE)
  BY DEF MayAct
<1>5. /\ Left(s.ms) = IF s.ms.resigned = 0 /\ s.ms.doubled THEN 3 ELSE 2
      /\ s.ms.resigned = 0 => Duty(s)
  <2>1. Left(s.ms) = IF s.ms.resigned = 0 /\ s.ms.doubled THEN 3 ELSE 2
    BY Kinds, HumanIs DEF Left
  <2> QED BY <2>1, PlayingInGame, Kinds, HumanIs DEF Duty
<1>6. CASE s.ms.resigned # 0
  <2>1. u = CommandAgree(s, TRUE) \/ u = CommandDecline(s, TRUE)
    BY <1>1, <1>6 DEF AnswerResignation
  <2>2. CASE u = CommandAgree(s, TRUE)
    <3>1. CommandAgree(s, TRUE) = Record(s, Rec("resign", Other(s.ms.turn), s.ms.resigned))
      BY <1>4, <1>6 DEF CommandAgree
    <3>2. Whole(u) /\ u.ms.gs = "resigned"
      BY <1>6, <2>2, <3>1, AgreeGoes DEF Goes, Landed, Core
    <3>3. Left(t.ms) = 1
      BY <1>2, <3>2, LeftIs, Kinds
    <3> QED BY <1>5, <1>6, <3>3
  <2>3. CASE u = CommandDecline(s, TRUE)
    <3>1. u = [s EXCEPT !.ms.declined = s.ms.resigned, !.ms.resigned = 0,
                        !.ms.turn = Other(@), !.next = TRUE]
      BY <1>4, <1>6, <2>3 DEF CommandDecline
    <3>2. Turned(s, u, s.ms.resigned, 0, Other(s.ms.turn))
      BY <1>3, <3>1, DeclineTurns
    <3>3. Whole(u) /\ u.ms.gs = "playing" /\ u.ms.turn = Human
      BY <3>2, HumanIs DEF Turned, Stays
    <3>4. Left(t.ms) = 0
      BY <1>2, <3>3, LeftIs
    <3> QED BY <1>5, <1>6, <3>4
  <2> QED BY <2>1, <2>2, <2>3
<1>7. CASE s.ms.resigned = 0 /\ s.ms.doubled
  <2>1. Left(t.ms) <= 2
    <3>1. CASE u = CommandTake(s, TRUE)
      <4>1. Whole(u) /\ ~u.ms.doubled
        BY <1>5, <1>7, <3>1, AnswerStands
      <4> QED BY <1>2, <4>1, LeftIs
    <3>2. CASE u = CommandDrop(s, TRUE)
      <4>1. Whole(u) /\ u.ms.gs = "drop"
        BY <1>5, <1>7, <3>2, AnswerStands
      <4>2. Left(t.ms) = 1
        BY <1>2, <4>1, LeftIs, Kinds
      <4> QED BY <4>2
    <3>3. CASE /\ u = CommandRedouble(s, TRUE)
               /\ s.ms.beavers < NBeavers /\ s.ms.nMatchTo = 0 /\ s.ms.cube < MaxCube \div 2
      <4>1. s.ms.cube < MaxCube
        <5>1. InGame(s) /\ AgreeButGs(s.ms, At(s))
          BY <1>5, <1>7, GnuSees
        <5>2. CubeOK(At(s)) /\ At(s).cube = s.ms.cube
          BY <5>1 DEF InGame, Sound, AgreeButGs
        <5> QED BY <3>3, <5>2, CubeIs
      <4>2. u = Record([s EXCEPT !.ms.owner = Other(s.ms.move)], Rec("double", s.ms.turn, 0))
        BY <1>4, <1>7, <3>3 DEF CommandRedouble
      <4>3. Goes(s, u) /\ u.ms.gs = "playing" /\ u.ms.turn = Human
        BY <1>5, <1>7, <3>3, <4>2, RedoubleGoes, HumanIs
      <4>4. Left(t.ms) = 0
        BY <1>2, <4>3, LeftIs DEF Goes, Landed, Core
      <4> QED BY <4>4
    <3> QED BY <1>1, <1>7, <3>1, <3>2, <3>3 DEF AnswerDouble
  <2> QED BY <1>5, <1>7, <2>1, LeftIs
<1>8. CASE s.ms.resigned = 0 /\ ~s.ms.doubled
  <2>1. Left(t.ms) <= 1
    <3>1. CASE u \in ConsiderResigning(s)
      <4>1. PICK n \in 1..3 : u = CommandResign(s, n, TRUE)
        BY <3>1 DEF ConsiderResigning
      <4>2. s.ms.declined = 0
        BY <3>1 DEF ConsiderResigning
      <4>3. u = [s EXCEPT !.ms.resigned = n, !.ms.turn = Other(@), !.next = TRUE]
        <5>1. ~(n <= s.ms.declined)
          BY <4>2
        <5> QED BY <1>4, <4>1, <5>1 DEF CommandResign
      <4>4. Turned(s, u, s.ms.declined, n, Other(s.ms.turn))
        BY <1>3, <4>3, ResignTurns
      <4>5. Whole(u) /\ u.ms.gs = "playing" /\ u.ms.turn = Human
        BY <4>4, HumanIs DEF Turned, Stays
      <4>6. Left(t.ms) = 0
        BY <1>2, <4>5, LeftIs
      <4> QED BY <4>6
    <3>2. CASE u \in ConsiderDoubling(s)
      <4>1. u = CommandDouble(s, TRUE) /\ ConsiderDoubling(s) # {}
        BY <3>2 DEF ConsiderDoubling
      <4>2. Whole(u) /\ u.ms.gs = "playing" /\ u.ms.turn = Human
        BY <1>5, <1>8, <4>1, DoubleStands
      <4>3. Left(t.ms) = 0
        BY <1>2, <4>2, LeftIs
      <4> QED BY <4>3
    <3>3. CASE u \in RollAndMove(s)
      <4>1. Whole(u) /\ (u.ms.gs \in Ended \/ (u.ms.gs = "playing" /\ u.ms.turn = Human))
        BY <1>5, <1>8, <3>3, MoveStands
      <4>2. Left(t.ms) = 1 \/ Left(t.ms) = 0
        BY <1>2, <4>1, LeftIs
      <4> QED BY <4>2
    <3> QED BY <1>1, <1>8, <3>1, <3>2, <3>3
  <2> QED BY <1>5, <1>8, <2>1, LeftIs
<1> QED BY <1>6, <1>7, <1>8

\* A NextTurn that leaves a turn owed brings the drain nearer to its end.
LEMMA NextTurnLeaves ==
  ASSUME NEW n, Core(n), Duty(n), n.next = TRUE,
         n.ms.gs = "playing" /\ n.ms.nMatchTo = 0 => ~n.ms.crawford,
         NEW s, s = [n EXCEPT !.next = FALSE], NEW t \in NextTurns(s), t.next = TRUE
  PROVE  Left(t.ms) < Left(n.ms)
<1>1. /\ s.ms = n.ms /\ s.lMatch = n.lMatch /\ s.last = n.last /\ s.next = FALSE /\ Core(s)
  <2>1. Whole(n)
    BY DEF Core
  <2> QED BY <2>1, NextOnly
<1>2. (GameHasEnded(s.ms) <=> n.ms.gs \in Ended) /\ n.ms.gs \in {"playing"} \cup Ended
  <2>1. n.ms.gs # "none"
    BY DEF Duty
  <2> QED BY <1>1, <2>1, EndedIs
<1>3. CASE n.ms.gs = "playing"
  <2>1. ~GameHasEnded(s.ms)
    BY <1>2, <1>3, Kinds
  <2>2. t \in IF s.ms.turn = Human THEN {s} ELSE ComputerTurn(s)
    BY <2>1 DEF NextTurns
  <2>3. s.ms.turn # Human
    <3> SUFFICES ASSUME s.ms.turn = Human PROVE FALSE
      OBVIOUS
    <3>1. t = s
      BY <2>2
    <3> QED BY <1>1, <3>1
  <2>4. s.ms.turn = Gnu
    <3>1. s.ms.turn \in Players
      BY <1>1, <1>3, TurnIs
    <3> QED BY <2>3, <3>1 DEF Players
  <2>4a. At(s).turn = Gnu => AtTheEnd(s)
    <3>1. At(s) = At(n) /\ (AtTheEnd(s) <=> AtTheEnd(n))
      <4>1. Whole(n)
        BY DEF Core
      <4> QED BY <4>1, NextOnly
    <3> QED BY <1>3, <3>1 DEF Duty
  <2>5. Left(t.ms) < Left(s.ms)
    BY <1>1, <1>3, <2>2, <2>3, <2>4, <2>4a, ComputerTurnLeaves
  <2> QED BY <1>1, <2>5
<1>4. CASE n.ms.gs \in Ended
  <2>1. n.ms.gs # "playing"
    BY <1>4, Kinds
  <2>2. PICK e : e = EndOfGame(s)
    OBVIOUS
  <2>3. (t = e /\ t.next = FALSE) \/ Started(e, t)
    BY <2>1, <2>2, NextTurnSteps
  <2>4. Started(e, t)
    BY <2>3
  <2>5. Left(t.ms) = 0
    <3>1. t.ms.gs = "playing" /\ t.ms.turn = Human
      BY <2>4, FirstTurn
    <3> QED BY <3>1, LeftIs
  <2>6. Left(n.ms) = 1
    BY <1>4, LeftIs
  <2> QED BY <2>5, <2>6
<1> QED BY <1>2, <1>3, <1>4

\* A session has no Crawford game, as the match state says too.
LEMMA SessionIs ==
  ASSUME IInv, Remembered, last.g # 0, ms.gs = "playing", ms.nMatchTo = 0
  PROVE  ~ms.crawford
<1>1. /\ InGame(Now) /\ Pending(ms, At(Now), Game(Now).recs[1].p) /\ Game(Now) = lMatch[last.g]
      /\ FactsAt(Game(Now), last.k) /\ last.g \in 1..Len(lMatch)
  BY LastInGame
<1>2. lMatch[last.g].info.crawford = FALSE
  <2>1. lMatch[last.g].info.crawford = Due(lMatch, last.g, ms.nMatchTo)
    BY <1>1 DEF Remembered, Crawfords
  <2> QED BY <2>1 DEF Due
<1>3. At(Now).crawford = lMatch[last.g].info.crawford
  BY <1>1, LastInGame DEF Facts, Setting
<1>4. ms.crawford = At(Now).crawford
  BY <1>1, Kinds DEF Pending, Alongside
<1> QED BY <1>2, <1>3, <1>4

\* Only a NextTurn counts.
LEMMA VerbsWait ==
  ASSUME Next
  PROVE  NextTurn \/ (~fNextTurn /\ turns' = turns)
<1>1. CASE StartMatch \/ NewMatch \/ NewSession
  BY <1>1 DEF StartMatch, NewMatch, NewSession, Start, Verb
<1>2. CASE Roll \/ Move \/ Double \/ Redouble \/ Take \/ Drop
  BY <1>2 DEF Roll, Move, Double, Redouble, Take, Drop, Play, Verb
<1>3. CASE Accept \/ Reject \/ Agree \/ Decline \/ Resign \/ NewGameButton
  BY <1>3 DEF Accept, Reject, Agree, Decline, Resign, NewGameButton, Play, Verb
<1>4. CASE CommandNext \/ CommandPrevious \/ ChangeGame
  BY <1>4 DEF CommandNext, CommandPrevious, ChangeGame, Walk, Verb
<1> QED BY <1>1, <1>2, <1>3, <1>4 DEF Next

\* At rest nothing has been counted; what has, and what may be left, are three at most.
Drains ==
    /\ turns \in Nat
    /\ ~fNextTurn => turns = 0
    /\ fNextTurn => turns + Left(ms) <= 3

\* Nothing has been counted at first.
LEMMA DrainsAtFirst == Init => Drains
BY DEF Init, Drains

\* Every step keeps the count within what is left.
LEMMA DrainsKept ==
  ASSUME MaxTurns >= 3, IInv, Remembered, Drains, [Next]_vars
  PROVE  Drains'
<1>1. Left(ms') \in 0..3 /\ Left(ms) \in 0..3
  BY LeftIs
<1>2. Left(ms)' = Left(ms')
  BY DEF Left
<1>3. CASE ~fNextTurn /\ turns' = turns
  BY <1>1, <1>2, <1>3 DEF Drains
<1>4. CASE NextTurn
  <2>1. fNextTurn /\ turns \in Nat /\ turns + Left(ms) <= 3
    BY <1>4 DEF NextTurn, Drains
  <2>2. PICK t \in NextTurns([Now EXCEPT !.next = FALSE]) : Become(t)
    BY <1>4 DEF NextTurn
  <2>3. ms' = t.ms /\ fNextTurn' = t.next
    BY <2>2 DEF Become
  <2>4. turns' = IF fNextTurn' THEN Min2(turns, MaxTurns) + 1 ELSE 0
    BY <1>4 DEF NextTurn
  <2>5. t.next \in BOOLEAN
    <3>1. IInv'
      BY <1>4, NextKeeps DEF Next
    <3> QED BY <2>3, <3>1 DEF IInv
  <2>6. CASE t.next = FALSE
    <3>1. turns' = 0 /\ ~fNextTurn'
      BY <2>3, <2>4, <2>6
    <3> QED BY <3>1 DEF Drains
  <2>7. CASE t.next = TRUE
    <3>1. Left(ms') < Left(ms)
      <4>1. PICK n : n = Now
        OBVIOUS
      <4>2. PICK s : s = [n EXCEPT !.next = FALSE]
        OBVIOUS
      <4>3. Core(n) /\ Duty(n) /\ n.next = TRUE /\ n.ms = ms /\ last.g # 0
        BY <2>1, <4>1, NowIs DEF IInv, Duty
      <4>4. n.ms.gs = "playing" /\ n.ms.nMatchTo = 0 => ~n.ms.crawford
        BY <4>3, SessionIs
      <4>5. Left(t.ms) < Left(n.ms)
        BY <2>2, <2>7, <4>1, <4>2, <4>3, <4>4, NextTurnLeaves
      <4> QED BY <2>3, <4>3, <4>5
    <3>2. turns <= 3 /\ Min2(turns, MaxTurns) = turns
      BY <1>1, <2>1, ConstantsAssumption DEF Min2
    <3>3. turns' = turns + 1 /\ fNextTurn'
      BY <2>3, <2>4, <2>7, <3>2
    <3>4. turns' \in Nat /\ turns' + Left(ms') <= 3
      BY <1>1, <2>1, <3>1, <3>3
    <3> QED BY <1>2, <3>3, <3>4 DEF Drains
  <2> QED BY <2>5, <2>6, <2>7
<1>5. CASE UNCHANGED vars
  BY <1>2, <1>5 DEF vars, Drains
<1> QED BY <1>3, <1>4, <1>5, VerbsWait

\* And so the drain ends.
LEMMA DrainsEnd == ASSUME MaxTurns >= 3, Drains PROVE DrainEnds
<1>1. Left(ms) \in 0..3
  BY LeftIs
<1>2. turns <= 3
  BY <1>1 DEF Drains
<1> QED BY <1>2, ConstantsAssumption DEF Drains, DrainEnds

\* The drain ends, whatever the computer does: NextTurn leaves a turn owed three times at
\* most before it is the human's, or the match is over (gnubg_mobile's loop has no bound).
THEOREM DrainCorrect ==
  ASSUME MaxTurns >= 3
  PROVE  Spec => []DrainEnds
<1>1. Init => Linked /\ Remembered /\ Drains
  BY LinkedAtFirst, RememberedAtFirst, DrainsAtFirst
<1>2. IInv /\ Linked /\ Remembered /\ Drains /\ [Next]_vars => Linked' /\ Remembered' /\ Drains'
  BY LinkedKept, RememberedKept, DrainsKept
<1>3. Drains => DrainEnds
  BY DrainsEnd
<1> QED BY <1>1, <1>2, <1>3, Invariant, PTL DEF Spec

====
