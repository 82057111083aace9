---- MODULE MatchSetupProofs ----
(***************************************************************************)
(* What MatchSetup keeps, for boards of any size, a match length up to the *)
(* fields of an ID and any IDs, XGIDs and edited positions set one after   *)
(* another.  The heart of it is that a position ID is read as the board it *)
(* was written of (IDIsFaithful): by induction over the bits, of which the *)
(* reading is a fold.  What a match ID makes of the match is followed from *)
(* record to record (SetMatchIDFields); the inductive invariant then says  *)
(* that the match state is sound, and that it is what the last verb makes  *)
(* of the one before.                                                      *)
(***************************************************************************)
EXTENDS MatchSetup, FiniteSetTheorems, SequenceTheorems, TLAPS

---------------------------------------------------------------------------
(* Induction.  The library's theorems take an operator; these take the set *)
(* a fact is true of.  The first rests on the pigeonhole principle.        *)

\* Induction over the natural numbers, on the set a fact is true of.
LEMMA SetInduction ==
  ASSUME NEW S, 0 \in S, \A n \in Nat : n \in S => n + 1 \in S
  PROVE  Nat \subseteq S
<1> SUFFICES ASSUME NEW n \in Nat, n \notin S PROVE FALSE
  OBVIOUS
<1> DEFINE A == {i \in 0..n : i \in S}
           B == A \ {0}
           f == [i \in A |-> i + 1]
<1>1. IsFiniteSet(0..n) /\ A \subseteq 0..n /\ 0 \in A
  BY FS_Interval
<1>2. f \in [A -> B]
  OBVIOUS
<1>3. \A x, y \in A : x # y => f[x] # f[y]
  OBVIOUS
<1> HIDE DEF A, B, f
<1>4. IsFiniteSet(A) /\ Cardinality(A) \in Nat
  BY <1>1, FS_Subset, FS_CardinalityType
<1>5. IsFiniteSet(B) /\ Cardinality(B) = Cardinality(A) - 1
  BY <1>1, <1>4, FS_RemoveElement DEF B
<1>6. \E x, y \in A : x # y /\ f[x] = f[y]
  BY <1>2, <1>4, <1>5, FS_PigeonHole
<1> QED BY <1>3, <1>6

\* A subset of a finite set has fewer elements once one is taken out.
LEMMA OneLess ==
  ASSUME NEW S, IsFiniteSet(S), NEW T \in SUBSET S, NEW n \in Nat, Cardinality(T) <= n + 1,
         NEW x \in T
  PROVE  Cardinality(T) \in Nat /\ Cardinality(T \ {x}) \in Nat /\ Cardinality(T \ {x}) <= n
<1>1. IsFiniteSet(T)
  BY FS_Subset
<1>2. IsFiniteSet(T \ {x}) /\ Cardinality(T \ {x}) = Cardinality(T) - 1
  BY <1>1, FS_RemoveElement
<1>3. Cardinality(T) \in Nat /\ Cardinality(T \ {x}) \in Nat
  BY <1>1, <1>2, FS_CardinalityType
<1> QED BY <1>2, <1>3

\* Induction over the subsets of a finite set, on the set of those a fact is true of.
LEMMA SubsetInduction ==
  ASSUME NEW S, IsFiniteSet(S), NEW G, {} \in G,
         \A T \in SUBSET S : T # {} /\ (\A x \in T : T \ {x} \in G) => T \in G
  PROVE  SUBSET S \subseteq G
<1> DEFINE A == {n \in Nat : \A T \in SUBSET S : Cardinality(T) <= n => T \in G}
<1>1. \A T \in SUBSET S : IsFiniteSet(T) /\ Cardinality(T) \in Nat /\ (Cardinality(T) = 0 <=> T = {})
  BY FS_Subset, FS_CardinalityType, FS_EmptySet
<1>2. 0 \in A
  <2> SUFFICES ASSUME NEW T \in SUBSET S, Cardinality(T) <= 0 PROVE T \in G
    OBVIOUS
  <2> QED BY <1>1
<1>3. ASSUME NEW n \in Nat, n \in A PROVE n + 1 \in A
  <2>1. ASSUME NEW T \in SUBSET S, Cardinality(T) <= n + 1, T # {} PROVE T \in G
    <3>1. ASSUME NEW x \in T PROVE T \ {x} \in G
      <4>1. T \ {x} \in SUBSET S /\ Cardinality(T \ {x}) <= n
        BY <2>1, OneLess
      <4> QED BY <1>3, <4>1
    <3> QED BY <2>1, <3>1
  <2>2. \A T \in SUBSET S : Cardinality(T) <= n + 1 => T \in G
    BY <2>1
  <2> QED BY <2>2
<1>4. Nat \subseteq A
  <2> HIDE DEF A
  <2> QED BY <1>2, <1>3, SetInduction
<1>5. ASSUME NEW T \in SUBSET S PROVE T \in G
  <2>1. Cardinality(T) \in A /\ Cardinality(T) \in Nat
    BY <1>1, <1>4
  <2>2. Cardinality(T) <= Cardinality(T)
    BY <2>1
  <2> QED BY <2>1, <2>2
<1> QED BY <1>5

---------------------------------------------------------------------------
(* Folds.                                                                  *)

\* What MapThenFoldSet computes with: for a subset of S, what is folded of it.
Folding(f, S, base, pick, step) ==
    f = [T \in SUBSET S |-> IF T = {} THEN base ELSE step[pick[T]][f[T \ {pick[T]}]]]

\* It exists.
LEMMA FoldingExists ==
  ASSUME NEW S, IsFiniteSet(S), NEW V, NEW base \in V, NEW step \in [S -> [V -> V]],
         NEW pick, \A T \in SUBSET S : T # {} => pick[T] \in T
  PROVE  \E f \in [SUBSET S -> V] : Folding(f, S, base, pick, step)
<1> DEFINE F(f) == [T \in SUBSET S |-> IF T = {} THEN base ELSE step[pick[T]][f[T \ {pick[T]}]]]
           Up(f, n) == \A T \in SUBSET S : Cardinality(T) <= n => f[T] = F(f)[T]
           A == {n \in Nat : \E f \in [SUBSET S -> V] : Up(f, n)}
<1>1. ASSUME NEW T \in SUBSET S, T # {}
      PROVE  T \ {pick[T]} \in SUBSET S /\ pick[T] \in T /\ step[pick[T]] \in [V -> V]
  BY <1>1
<1>2. ASSUME NEW f \in [SUBSET S -> V] PROVE F(f) \in [SUBSET S -> V]
  BY <1>1
<1>3. \A T \in SUBSET S : IsFiniteSet(T) /\ Cardinality(T) \in Nat /\ (Cardinality(T) = 0 <=> T = {})
  BY FS_Subset, FS_CardinalityType, FS_EmptySet
<1>4. 0 \in A
  <2>1. Up([T \in SUBSET S |-> base], 0)
    BY <1>3
  <2>2. [T \in SUBSET S |-> base] \in [SUBSET S -> V]
    OBVIOUS
  <2> HIDE DEF Up
  <2> QED BY <2>1, <2>2
<1>5. ASSUME NEW n \in Nat, n \in A PROVE n + 1 \in A
  <2>1. PICK f \in [SUBSET S -> V] : Up(f, n)
    BY <1>5
  <2>2. F(f) \in [SUBSET S -> V]
    BY <1>2
  <2>3. ASSUME NEW T \in SUBSET S, Cardinality(T) <= n + 1 PROVE F(f)[T] = F(F(f))[T]
    <3>1. CASE T = {}
      BY <3>1
    <3>2. CASE T # {}
      <4>1. T \ {pick[T]} \in SUBSET S /\ Cardinality(T \ {pick[T]}) <= n
        BY <1>1, <2>3, <3>2, OneLess
      <4>2. f[T \ {pick[T]}] = F(f)[T \ {pick[T]}]
        BY <2>1, <4>1
      <4> HIDE DEF F
      <4>3. /\ F(f)[T] = step[pick[T]][f[T \ {pick[T]}]]
            /\ F(F(f))[T] = step[pick[T]][F(f)[T \ {pick[T]}]]
        BY <3>2 DEF F
      <4> QED BY <4>2, <4>3
    <3> QED BY <3>1, <3>2
  <2>4. Up(F(f), n + 1)
    BY <2>3
  <2> HIDE DEF Up, F
  <2> QED BY <2>2, <2>4
<1>6. Nat \subseteq A
  <2> HIDE DEF A
  <2> QED BY <1>4, <1>5, SetInduction
<1>7. Cardinality(S) \in Nat
  BY FS_CardinalityType
<1>8. PICK f \in [SUBSET S -> V] : Up(f, Cardinality(S))
  BY <1>6, <1>7
<1>9. ASSUME NEW T \in SUBSET S PROVE f[T] = F(f)[T]
  <2>1. Cardinality(T) <= Cardinality(S)
    BY FS_Subset
  <2> QED BY <1>8, <2>1
<1>10. f = F(f)
  BY <1>9
<1> QED BY <1>10 DEF Folding

---------------------------------------------------------------------------
(* Sums.                                                                   *)

\* The element of a set that is added first.
First == [T \in SUBSET Slots |-> CHOOSE x \in T : TRUE]

\* The partial sums of a half of the board.
SumsTo(f, h) ==
    \A T \in SUBSET Slots :
        f[T] \in Nat /\ f[T] = IF T = {} THEN 0 ELSE h[First[T]] + f[T \ {First[T]}]

\* The sum that Chequers is has partial sums.
LEMMA ChequersSums ==
  ASSUME NEW h \in [Slots -> Nat]
  PROVE  \E f : SumsTo(f, h) /\ Chequers(h) = f[Slots]
<1> DEFINE P(f) == f = [T \in SUBSET Slots |->
                          IF T = {} THEN 0
                          ELSE h[CHOOSE x \in T : TRUE] + f[T \ {CHOOSE x \in T : TRUE}]]
           c == CHOOSE f : P(f)
           step == [x \in Slots |-> [n \in Nat |-> h[x] + n]]
<1>1. Chequers(h) = c[Slots]
  BY Zenon DEF Chequers, SumFunction, SumFunctionOnSet, FoldFunctionOnSet, MapThenFoldSet
<1>2. IsFiniteSet(Slots) /\ step \in [Slots -> [Nat -> Nat]]
  <2>1. IsFiniteSet(Slots)
    BY BoardAssumption, FS_Interval DEF Slots
  <2>2. \A x \in Slots, n \in Nat : h[x] + n \in Nat
    OBVIOUS
  <2> QED BY <2>1, <2>2
<1>3. \A T \in SUBSET Slots : /\ First[T] = CHOOSE x \in T : TRUE
                              /\ T # {} => First[T] \in T /\ T \ {First[T]} \in SUBSET Slots
  BY DEF First
<1>4. PICK f \in [SUBSET Slots -> Nat] : Folding(f, Slots, 0, First, step)
  <2> HIDE DEF step
  <2> QED BY <1>2, <1>3, FoldingExists
<1>5. ASSUME NEW T \in SUBSET Slots
      PROVE  f[T] = IF T = {} THEN 0 ELSE h[CHOOSE x \in T : TRUE] + f[T \ {CHOOSE x \in T : TRUE}]
  <2>1. f[T] = IF T = {} THEN 0 ELSE step[First[T]][f[T \ {First[T]}]]
    BY <1>4 DEF Folding
  <2>2. CASE T = {}
    BY <2>1, <2>2
  <2>3. CASE T # {}
    <3>1. First[T] \in Slots /\ f[T \ {First[T]}] \in Nat
      BY <1>3, <2>3
    <3>2. step[First[T]][f[T \ {First[T]}]] = h[First[T]] + f[T \ {First[T]}]
      BY <3>1
    <3> HIDE DEF step
    <3> QED BY <1>3, <2>1, <2>3, <3>2
  <2> QED BY <2>2, <2>3
<1>6. P(f)
  <2> HIDE DEF step
  <2> QED BY <1>5
<1>7. P(c)
  <2> HIDE DEF P
  <2> QED BY <1>6
<1> HIDE DEF c
<1> DEFINE G == {T \in SUBSET Slots : c[T] \in Nat}
<1>8. \A T \in SUBSET Slots : c[T] = IF T = {} THEN 0 ELSE h[First[T]] + c[T \ {First[T]}]
  BY <1>3, <1>7
<1> HIDE DEF P
<1>9. {} \in G
  <2>1. c[{}] = 0
    BY <1>8
  <2> QED BY <2>1
<1>10. ASSUME NEW T \in SUBSET Slots, T # {}, \A x \in T : T \ {x} \in G PROVE T \in G
  <2>1. First[T] \in Slots /\ c[T \ {First[T]}] \in Nat
    BY <1>3, <1>10
  <2>2. h[First[T]] \in Nat
    BY <2>1
  <2>3. c[T] = h[First[T]] + c[T \ {First[T]}]
    BY <1>8, <1>10
  <2>4. c[T] \in Nat
    BY <2>1, <2>2, <2>3
  <2> QED BY <2>4
<1>11. SUBSET Slots \subseteq G
  <2> HIDE DEF G
  <2> QED BY <1>2, <1>9, <1>10, SubsetInduction
<1> QED BY <1>1, <1>8, <1>11 DEF SumsTo

---------------------------------------------------------------------------
(* Folds over sequences.                                                   *)

\* The numbers of a set that holds one have a largest and a smallest among them.
LEMMA Extremes ==
  ASSUME NEW n \in Nat, NEW D, D = 1..n, NEW T \in SUBSET D, T # {}
  PROVE  /\ \E x \in T : \A y \in T : x >= y
         /\ \E x \in T : \A y \in T : x <= y
<1> DEFINE Has(U) == /\ \E x \in U : \A y \in U : x >= y
                     /\ \E x \in U : \A y \in U : x <= y
           G == {U \in SUBSET D : U # {} => Has(U)}
<1>1. {} \in G
  OBVIOUS
<1>2. ASSUME NEW U \in SUBSET D, U # {}, \A x \in U : U \ {x} \in G PROVE U \in G
  <2>1. PICK z \in U : TRUE
    BY <1>2
  <2> DEFINE W == U \ {z}
  <2>2. W = {} \/ Has(W)
    BY <1>2, <2>1
  <2>3. CASE W = {}
    <3>1. U = {z}
      BY <2>1, <2>3, Zenon
    <3>2. z \in Nat
      OBVIOUS
    <3> QED BY <3>1, <3>2
  <2>4. CASE Has(W)
    <3>0. U = W \cup {z} /\ z \in Nat /\ \A y \in W : y \in Nat
      BY <2>1
    <3> HIDE DEF W
    <3>1. \E x \in U : \A y \in U : x >= y
      <4>1. PICK x \in W : \A y \in W : x >= y
        BY <2>4
      <4>2. x \in Nat /\ x \in U /\ z \in U
        BY <3>0
      <4>3. CASE x >= z
        BY <3>0, <4>1, <4>2, <4>3
      <4>4. CASE z >= x
        <5>1. \A y \in U : z >= y
          BY <3>0, <4>1, <4>2, <4>4
        <5> QED BY <4>2, <5>1
      <4> QED BY <3>0, <4>2, <4>3, <4>4
    <3>2. \E x \in U : \A y \in U : x <= y
      <4>1. PICK x \in W : \A y \in W : x <= y
        BY <2>4
      <4>2. x \in Nat /\ x \in U /\ z \in U
        BY <3>0
      <4>3. CASE x <= z
        BY <3>0, <4>1, <4>2, <4>3
      <4>4. CASE z <= x
        <5>1. \A y \in U : z <= y
          BY <3>0, <4>1, <4>2, <4>4
        <5> QED BY <4>2, <5>1
      <4> QED BY <3>0, <4>2, <4>3, <4>4
    <3> QED BY <3>1, <3>2
  <2> QED BY <2>2, <2>3, <2>4
<1>3. IsFiniteSet(D)
  BY FS_Interval
<1>4. SUBSET D \subseteq G
  <2> HIDE DEF G
  <2> QED BY <1>1, <1>2, <1>3, SubsetInduction, Zenon
<1> QED BY <1>4

LEMMA MaxIn ==
  ASSUME NEW n \in Nat, NEW D, D = 1..n, NEW T \in SUBSET D, T # {}
  PROVE  Max(T) \in T
BY Extremes DEF Max

\* What a fold over the indices D of a sequence computes, in V and by steps from V to V.
FoldsIn(f, D, V, base, step) ==
    /\ f \in [SUBSET D -> V]
    /\ \A T \in SUBSET D : f[T] = IF T = {} THEN base ELSE step[Max(T)][f[T \ {Max(T)}]]

\* The same for what is not known to be in V, as long as it is.
Folds(c, D, V, base, step) ==
    /\ c[{}] = base
    /\ \A T \in SUBSET D : T # {} /\ c[T \ {Max(T)}] \in V
                              => c[T] = step[Max(T)][c[T \ {Max(T)}]]

\* f goes on index by index, in V, to last.
GoesOn(f, n, D, V, base, step, last) ==
    /\ f \in [0..n -> V] /\ f[0] = base /\ f[n] = last
    /\ \A i \in D : f[i] = step[i][f[i - 1]]

\* A fold goes on index by index, and stays in V if its steps do.
LEMMA FoldBySteps ==
  ASSUME NEW n \in Nat, NEW D, D = 1..n, NEW V, NEW base \in V, NEW step \in [D -> [V -> V]],
         NEW c, Folds(c, D, V, base, step)
  PROVE  \E f : GoesOn(f, n, D, V, base, step, c[D])
<1> DEFINE G == {T \in SUBSET D : c[T] \in V}
           f == [i \in 0..n |-> c[1..i]]
<1>1. {} \in G
  BY DEF Folds
<1>2. ASSUME NEW T \in SUBSET D, T # {}, \A x \in T : T \ {x} \in G PROVE T \in G
  <2>1. Max(T) \in T /\ Max(T) \in D
    BY <1>2, MaxIn
  <2>2. c[T \ {Max(T)}] \in V
    BY <1>2, <2>1
  <2>3. step[Max(T)] \in [V -> V]
    BY <2>1
  <2>4. c[T] \in V
    BY <1>2, <2>2, <2>3 DEF Folds
  <2> QED BY <2>4
<1>3. IsFiniteSet(D)
  BY FS_Interval
<1>4. SUBSET D \subseteq G
  <2> HIDE DEF G
  <2> QED BY <1>1, <1>2, <1>3, SubsetInduction, Zenon
<1>5. ASSUME NEW i \in 0..n PROVE 1..i \in SUBSET D /\ f[i] = c[1..i] /\ c[1..i] \in V
  <2>1. 1..i \in SUBSET D
    OBVIOUS
  <2> QED BY <1>4, <2>1
<1>6. f \in [0..n -> V]
  BY <1>5
<1>7. f[0] = base
  <2>1. 0 \in 0..n /\ 1..0 = {}
    OBVIOUS
  <2> QED BY <1>5, <2>1 DEF Folds
<1>8. f[n] = c[D]
  <2>1. n \in 0..n
    OBVIOUS
  <2> QED BY <1>5, <2>1
<1>9. ASSUME NEW i \in D PROVE f[i] = step[i][f[i - 1]]
  <2>1. i \in 0..n /\ i - 1 \in 0..n
    OBVIOUS
  <2> DEFINE T == 1..i
  <2>2. T # {} /\ i \in T /\ T \ {i} = 1..(i - 1) /\ \A y \in T : i >= y
    OBVIOUS
  <2>3. Max(T) = i
    <3>1. Max(T) \in T /\ \A y \in T : Max(T) >= y
      <4>1. i \in Nat
        OBVIOUS
      <4>2. \E x \in T : \A y \in T : x >= y
        BY <2>2
      <4> HIDE DEF T
      <4> QED BY <4>2 DEF Max
    <3> QED BY <2>2, <3>1
  <2>4. T \in SUBSET D /\ f[i] = c[T] /\ f[i - 1] = c[T \ {Max(T)}] /\ f[i - 1] \in V
    BY <1>5, <2>1, <2>2, <2>3
  <2> HIDE DEF T, f
  <2> QED BY <2>2, <2>3, <2>4 DEF Folds
<1> HIDE DEF f
<1> QED BY <1>6, <1>7, <1>8, <1>9 DEF GoesOn

\* A fold by steps that stay in V can be computed.
LEMMA FoldComputes ==
  ASSUME NEW n \in Nat, NEW D, D = 1..n, NEW V, NEW base \in V, NEW step \in [D -> [V -> V]]
  PROVE  \E f : FoldsIn(f, D, V, base, step)
<1> DEFINE pick == [T \in SUBSET D |-> Max(T)]
<1>1. IsFiniteSet(D)
  BY FS_Interval
<1>2. \A T \in SUBSET D : pick[T] = Max(T) /\ (T # {} => pick[T] \in T)
  BY MaxIn
<1> HIDE DEF pick
<1>3. PICK f \in [SUBSET D -> V] : Folding(f, D, base, pick, step)
  BY <1>1, <1>2, FoldingExists
<1>4. ASSUME NEW T \in SUBSET D
      PROVE  f[T] = IF T = {} THEN base ELSE step[Max(T)][f[T \ {Max(T)}]]
  <2>1. f[T] = IF T = {} THEN base ELSE step[pick[T]][f[T \ {pick[T]}]]
    BY <1>3 DEF Folding
  <2>2. pick[T] = Max(T)
    BY <1>2
  <2> QED BY <2>1, <2>2
<1> QED BY <1>4 DEF FoldsIn


---------------------------------------------------------------------------
(* Sequences one behind the other.                                         *)

Joined(s, t) == s \o t

\* The places of two sequences joined.
LEMMA JoinedIs ==
  ASSUME NEW T, NEW s \in Seq(T), NEW t \in Seq(T)
  PROVE  /\ Joined(s, t) \in Seq(T) /\ Len(Joined(s, t)) = Len(s) + Len(t)
         /\ \A i \in 1 .. Len(s) : Joined(s, t)[i] = s[i]
         /\ \A i \in 1 .. Len(t) : Joined(s, t)[Len(s) + i] = t[i]
<1>1. /\ Joined(s, t) \in Seq(T) /\ Len(Joined(s, t)) = Len(s) + Len(t)
      /\ \A i \in 1 .. Len(s) + Len(t) :
            Joined(s, t)[i] = IF i <= Len(s) THEN s[i] ELSE t[i - Len(s)]
  BY ConcatProperties DEF Joined
<1>2. Len(s) \in Nat /\ Len(t) \in Nat
  BY LenProperties
<1>3. ASSUME NEW i \in 1 .. Len(s) PROVE Joined(s, t)[i] = s[i]
  <2>1. i \in 1 .. Len(s) + Len(t) /\ i <= Len(s)
    BY <1>2
  <2> QED BY <1>1, <2>1
<1>4. ASSUME NEW i \in 1 .. Len(t) PROVE Joined(s, t)[Len(s) + i] = t[i]
  <2> DEFINE j == Len(s) + i
  <2>1. j \in 1 .. Len(s) + Len(t) /\ ~(j <= Len(s)) /\ j - Len(s) = i
    BY <1>2
  <2> HIDE DEF j
  <2>2. Joined(s, t)[j] = t[i]
    BY <1>1, <2>1
  <2> QED BY <2>2 DEF j
<1> QED BY <1>1, <1>3, <1>4

\* f[k] is the first k of the sequences, one behind the other.
Flattens(f, n, seqs, V) ==
    /\ f \in [1..n -> V] /\ f[n] = FlattenSeq(seqs) /\ f[1] = seqs[1]
    /\ \A k \in 2..n : f[k] = Joined(f[k - 1], seqs[k])

\* FlattenSeq goes from step to step.
LEMMA FlattenBySteps ==
  ASSUME NEW T, NEW n \in Nat, n > 0, NEW seqs \in [1..n -> Seq(T)]
  PROVE  \E f : Flattens(f, n, seqs, Seq(T))
<1> DEFINE F(f) == [i \in 1..n |-> IF i = 1 THEN seqs[i] ELSE Joined(f[i - 1], seqs[i])]
           Up(f, m) == \A i \in 1..n : i <= m => f[i] = F(f)[i]
           A == {m \in Nat : \E f \in [1..n -> Seq(T)] : Up(f, m)}
           c == CHOOSE f : f = F(f)
<1>1. ASSUME NEW f \in [1..n -> Seq(T)] PROVE F(f) \in [1..n -> Seq(T)]
  <2> SUFFICES ASSUME NEW i \in 1..n, i # 1 PROVE Joined(f[i - 1], seqs[i]) \in Seq(T)
    OBVIOUS
  <2>1. f[i - 1] \in Seq(T) /\ seqs[i] \in Seq(T)
    OBVIOUS
  <2> QED BY <2>1, JoinedIs
<1>2. 0 \in A
  <2>1. [i \in 1..n |-> seqs[i]] \in [1..n -> Seq(T)]
    OBVIOUS
  <2>2. \A f : Up(f, 0)
    OBVIOUS
  <2> HIDE DEF Up
  <2> QED BY <2>1, <2>2
<1>3. ASSUME NEW m \in Nat, m \in A PROVE m + 1 \in A
  <2>1. PICK f \in [1..n -> Seq(T)] : Up(f, m)
    BY <1>3
  <2>2. F(f) \in [1..n -> Seq(T)]
    BY <1>1
  <2>3. ASSUME NEW i \in 1..n, i <= m + 1 PROVE F(f)[i] = F(F(f))[i]
    <3>1. CASE i = 1
      BY <3>1
    <3>2. CASE i # 1
      <4>1. i - 1 \in 1..n /\ i - 1 <= m
        BY <2>3, <3>2
      <4>2. f[i - 1] = F(f)[i - 1]
        BY <2>1, <4>1
      <4> HIDE DEF F
      <4>3. F(f)[i] = Joined(f[i - 1], seqs[i]) /\ F(F(f))[i] = Joined(F(f)[i - 1], seqs[i])
        BY <3>2 DEF F
      <4> QED BY <4>2, <4>3
    <3> QED BY <3>1, <3>2
  <2>4. Up(F(f), m + 1)
    BY <2>3
  <2> HIDE DEF Up, F
  <2> QED BY <2>2, <2>4
<1>4. Nat \subseteq A
  <2> HIDE DEF A
  <2> QED BY <1>2, <1>3, SetInduction
<1>5. PICK f \in [1..n -> Seq(T)] : Up(f, n)
  BY <1>4
<1>6. f = F(f)
  BY <1>5
<1>7. c = F(c)
  <2> HIDE DEF F
  <2> QED BY <1>6
<1>8. c[n] = FlattenSeq(seqs)
  <2>1. Len(seqs) = n /\ n # 0
    OBVIOUS
  <2> QED BY <2>1 DEF FlattenSeq, Joined
<1> HIDE DEF c
<1> DEFINE B == {m \in Nat : \A i \in 1..n : i <= m => c[i] \in Seq(T)}
<1>9. \A i \in 1..n : c[i] = IF i = 1 THEN seqs[i] ELSE Joined(c[i - 1], seqs[i])
  BY <1>7
<1>10. ASSUME NEW m \in Nat, m \in B PROVE m + 1 \in B
  <2> SUFFICES ASSUME NEW i \in 1..n, i = m + 1, i # 1 PROVE c[i] \in Seq(T)
    BY <1>9, <1>10
  <2>1. c[i - 1] \in Seq(T) /\ seqs[i] \in Seq(T)
    BY <1>10
  <2>2. c[i] = Joined(c[i - 1], seqs[i])
    BY <1>9
  <2> DEFINE u == c[i - 1]
             w == seqs[i]
  <2> HIDE DEF u, w
  <2>3. Joined(u, w) \in Seq(T)
    BY <2>1, JoinedIs, Zenon DEF u, w
  <2> QED BY <2>2, <2>3 DEF u, w
<1>11. Nat \subseteq B
  <2>1. 0 \in B
    OBVIOUS
  <2> HIDE DEF B
  <2> QED BY <1>10, <2>1, SetInduction
<1>12. \A i \in 1..n : c[i] \in Seq(T)
  <2>1. n \in B
    BY <1>11
  <2>2. \A i \in 1..n : i <= n
    OBVIOUS
  <2> QED BY <2>1, <2>2
<1>13. c \in [1..n -> Seq(T)]
  <2>1. c = [i \in 1..n |-> F(c)[i]]
    BY <1>7
  <2> HIDE DEF F
  <2> QED BY <1>12, <2>1
<1>14. c[1] = seqs[1] /\ \A k \in 2..n : c[k] = Joined(c[k - 1], seqs[k])
  BY <1>9
<1> QED BY <1>8, <1>13, <1>14 DEF Flattens

\* at[k] is where the first k of them end.
Ends(at, n, seqs) ==
    /\ at \in [0..n -> Nat] /\ at[0] = 0
    /\ \A k \in 1..n : at[k] = at[k - 1] + Len(seqs[k])

\* In s the first m of them are where they should be.
Placed(s, m, at, seqs) ==
    /\ Len(s) = at[m]
    /\ \A k \in 1..m : at[k] <= at[m]
    /\ \A k \in 1..m : \A i \in 1 .. Len(seqs[k]) : s[at[k - 1] + i] = seqs[k][i]

LEMMA EndsAre ==
  ASSUME NEW n \in Nat, NEW seqs, NEW at, Ends(at, n, seqs), NEW k \in 1..n
  PROVE  /\ at[k] \in Nat /\ at[k - 1] \in Nat /\ at[k] = at[k - 1] + Len(seqs[k])
BY DEF Ends

LEMMA PlacedNext ==
  ASSUME NEW T, NEW n \in Nat, NEW seqs, NEW at, Ends(at, n, seqs),
         NEW s \in Seq(T), NEW p \in 1..n, NEW q \in 1..n, p = q - 1, seqs[q] \in Seq(T),
         \A k \in 1..n : Len(seqs[k]) \in Nat, Placed(s, p, at, seqs)
  PROVE  Placed(Joined(s, seqs[q]), q, at, seqs)
<1> DEFINE t == seqs[q]
           j == Joined(s, t)
<1>1. /\ Len(j) = Len(s) + Len(t)
      /\ \A i \in 1 .. Len(s) : j[i] = s[i]
      /\ \A i \in 1 .. Len(t) : j[Len(s) + i] = t[i]
  <2>1. t \in Seq(T)
    OBVIOUS
  <2> HIDE DEF t
  <2>2. Len(Joined(s, t)) = Len(s) + Len(t)
    BY <2>1, JoinedIs
  <2>3. \A i \in 1 .. Len(s) : Joined(s, t)[i] = s[i]
    BY <2>1, JoinedIs
  <2>4. \A i \in 1 .. Len(t) : Joined(s, t)[Len(s) + i] = t[i]
    BY <2>1, JoinedIs
  <2> QED BY <2>2, <2>3, <2>4
<1>2. Len(s) = at[p] /\ \A k \in 1..p : at[k] <= at[p]
  BY DEF Placed
<1>3. at[q] = at[p] + Len(t) /\ at[p] \in Nat /\ Len(t) \in Nat
  BY EndsAre
<1>4. \A k \in 1..q : k \in 1..p \/ k = q
  OBVIOUS
<1>5. \A k \in 1..p : at[k] \in Nat
  BY EndsAre
<1> HIDE DEF j, t
<1>6. ASSUME NEW k \in 1..q PROVE at[k] <= at[q]
  <2>1. CASE k = q
    BY <1>3, <2>1
  <2>2. CASE k \in 1..p
    <3>1. at[k] <= at[p] /\ at[k] \in Nat
      BY <1>2, <1>5, <2>2
    <3> QED BY <1>3, <3>1
  <2> QED BY <1>4, <2>1, <2>2
<1>7. ASSUME NEW k \in 1..q, NEW i \in 1 .. Len(seqs[k]) PROVE j[at[k - 1] + i] = seqs[k][i]
  <2>1. CASE k = q
    BY <1>1, <1>2, <1>7, <2>1 DEF t
  <2>2. CASE k \in 1..p
    <3> DEFINE z == at[k - 1] + i
    <3>1. k \in 1..n
      BY <2>2
    <3>2. s[z] = seqs[k][i] /\ at[k] <= at[p]
      BY <1>2, <1>7, <2>2 DEF Placed
    <3>3. at[k] = at[k - 1] + Len(seqs[k]) /\ at[k - 1] \in Nat /\ Len(seqs[k]) \in Nat
      BY <3>1, EndsAre
    <3>4. z \in 1 .. Len(s)
      <4>1. \A a, b, c, d \in Nat : c <= d /\ c = a + b => \A x \in 1..b : a + x \in 1..d
        OBVIOUS
      <4>2. /\ at[k - 1] \in Nat /\ Len(seqs[k]) \in Nat /\ at[k] \in Nat /\ at[p] \in Nat
            /\ at[k] <= at[p] /\ at[k] = at[k - 1] + Len(seqs[k])
        BY <1>3, <1>5, <2>2, <3>2, <3>3
      <4> HIDE DEF z
      <4>3. at[k - 1] + i \in 1 .. at[p]
        BY <4>1, <4>2
      <4> QED BY <1>2, <4>3 DEF z
    <3> HIDE DEF z
    <3>5. j[z] = seqs[k][i]
      BY <1>1, <3>2, <3>4
    <3> QED BY <3>5 DEF z
  <2> QED BY <1>4, <2>1, <2>2
<1>8. Len(j) = at[q]
  BY <1>1, <1>2, <1>3
<1> QED BY <1>6, <1>7, <1>8 DEF Placed, j, t

\* Where the k-th of them is in the whole.
LEMMA FlattenPlaces ==
  ASSUME NEW T, NEW n \in Nat, n > 0, NEW seqs \in [1..n -> Seq(T)],
         NEW f, Flattens(f, n, seqs, Seq(T)), NEW at, Ends(at, n, seqs)
  PROVE  f[n] \in Seq(T) /\ Placed(f[n], n, at, seqs)
<1> DEFINE A == {m \in Nat : m + 1 \in 1..n => Placed(f[m + 1], m + 1, at, seqs)}
<1>1. \A k \in 1..n : f[k] \in Seq(T) /\ seqs[k] \in Seq(T)
  BY DEF Flattens
<1>2. \A k \in 1..n : Len(seqs[k]) \in Nat
  BY <1>1, LenProperties
<1>3. 0 \in A
  <2>1. 1 \in 1..n /\ f[1] = seqs[1]
    BY DEF Flattens
  <2>2. at[1] = at[0] + Len(seqs[1]) /\ at[0] = 0 /\ Len(seqs[1]) \in Nat
    BY <1>2, <2>1, EndsAre DEF Ends
  <2>3. \A k \in 1..1 : k = 1
    OBVIOUS
  <2>4. Placed(f[1], 1, at, seqs)
    <3>1. \A i \in 1 .. Len(seqs[1]) : f[1][at[0] + i] = seqs[1][i]
      BY <2>1, <2>2
    <3> QED BY <2>1, <2>2, <2>3, <3>1 DEF Placed
  <2> QED BY <2>4
<1>4. ASSUME NEW m \in Nat, m \in A PROVE m + 1 \in A
  <2> SUFFICES ASSUME NEW p \in 1..n, NEW q \in 2..n, p = q - 1, Placed(f[p], p, at, seqs)
               PROVE  Placed(f[q], q, at, seqs)
    <3>1. m + 2 \in 1..n => /\ m + 1 \in 1..n /\ m + 2 \in 2..n /\ m + 1 = m + 2 - 1
                            /\ Placed(f[m + 1], m + 1, at, seqs)
      BY <1>4
    <3>2. m + 1 + 1 = m + 2
      OBVIOUS
    <3> QED BY <3>1, <3>2
  <2>1. f[q] = Joined(f[p], seqs[q])
    BY DEF Flattens
  <2>2. q \in 1..n
    OBVIOUS
  <2>3. f[p] \in Seq(T) /\ seqs[q] \in Seq(T)
    BY <1>1, <2>2
  <2> QED BY <1>2, <2>1, <2>2, <2>3, PlacedNext, Zenon
<1>5. Nat \subseteq A
  <2> HIDE DEF A
  <2> QED BY <1>3, <1>4, SetInduction
<1>6. n - 1 \in Nat /\ n - 1 + 1 = n /\ n \in 1..n
  OBVIOUS
<1>7. n - 1 \in A
  BY <1>5, <1>6
<1> QED BY <1>1, <1>6, <1>7

---------------------------------------------------------------------------
(* Sums, point by point.                                                   *)

\* Any element may be the one added last.
AnyIsLast(f, h) == \A T \in SUBSET Slots : \A x \in T : f[T] = h[x] + f[T \ {x}]

LEMMA SumTakesAny ==
  ASSUME NEW h \in [Slots -> Nat], NEW f, SumsTo(f, h)
  PROVE  AnyIsLast(f, h)
<1> DEFINE G == {T \in SUBSET Slots : \A x \in T : f[T] = h[x] + f[T \ {x}]}
<1>1. {} \in G
  OBVIOUS
<1>2. ASSUME NEW T \in SUBSET Slots, T # {}, \A x \in T : T \ {x} \in G PROVE T \in G
  <2> DEFINE y == First[T]
  <2>1. y \in T
    BY <1>2 DEF First
  <2>2. f[T] = h[y] + f[T \ {y}]
    BY <1>2 DEF SumsTo
  <2> HIDE DEF y
  <2>3. ASSUME NEW x \in T PROVE f[T] = h[x] + f[T \ {x}]
    <3>1. CASE x = y
      BY <2>2, <3>1
    <3>2. CASE x # y
      <4> DEFINE U == (T \ {x}) \ {y}
      <4>1. U = (T \ {y}) \ {x} /\ U \in SUBSET Slots /\ T \ {x} \in G /\ T \ {y} \in G
        BY <1>2, <2>1
      <4>2. f[T \ {y}] = h[x] + f[U] /\ f[T \ {x}] = h[y] + f[U]
        BY <2>1, <3>2, <4>1
      <4>3. f[U] \in Nat /\ h[x] \in Nat /\ h[y] \in Nat
        BY <2>1, <4>1 DEF SumsTo
      <4> HIDE DEF U
      <4> QED BY <2>2, <4>2, <4>3
    <3> QED BY <3>1, <3>2
  <2> QED BY <2>3
<1>3. SUBSET Slots \subseteq G
  <2>1. IsFiniteSet(Slots)
    BY BoardAssumption, FS_Interval DEF Slots
  <2> HIDE DEF G
  <2> QED BY <1>1, <1>2, <2>1, SubsetInduction
<1> QED BY <1>3 DEF AnyIsLast

\* u[j] is the sum of the first j points.
SumsUp(u, h) ==
    /\ u \in [0 .. NPoints + 1 -> Nat] /\ u[0] = 0 /\ u[NPoints + 1] = Chequers(h)
    /\ \A j \in Slots : u[j + 1] = u[j] + h[j]

LEMMA ChequersSumUp ==
  ASSUME NEW h \in [Slots -> Nat]
  PROVE  \E u : SumsUp(u, h)
<1>1. PICK f : SumsTo(f, h) /\ Chequers(h) = f[Slots]
  BY ChequersSums
<1> DEFINE u == [j \in 0 .. NPoints + 1 |-> f[0 .. j - 1]]
<1>7. \A T \in SUBSET Slots : \A x \in T : f[T] = h[x] + f[T \ {x}]
  <2>1. SumsTo(f, h)
    BY <1>1
  <2>2. AnyIsLast(f, h)
    BY <2>1, SumTakesAny
  <2> QED BY <2>2 DEF AnyIsLast
<1>0. NPoints \in Nat
  BY BoardAssumption
<1>2. \A j \in 0 .. NPoints + 1 : 0 .. j - 1 \in SUBSET Slots
  BY <1>0 DEF Slots
<1>3. u \in [0 .. NPoints + 1 -> Nat]
  BY <1>1, <1>2 DEF SumsTo
<1>4. u[0] = 0
  <2>1. 0 .. 0 - 1 = {} /\ 0 \in 0 .. NPoints + 1
    BY <1>0
  <2>2. f[{}] = 0
    BY <1>1 DEF SumsTo
  <2> QED BY <2>1, <2>2
<1>5. u[NPoints + 1] = Chequers(h)
  <2> DEFINE m == NPoints + 1
  <2>1. m - 1 = NPoints /\ m \in 0..m
    BY <1>0
  <2>2. \A x \in 0..m : u[x] = f[0 .. x - 1]
    OBVIOUS
  <2> HIDE DEF u, m
  <2>3. u[m] = f[Slots]
    BY <2>1, <2>2 DEF Slots
  <2> QED BY <1>1, <2>3 DEF m
<1>6. ASSUME NEW j \in Slots PROVE u[j + 1] = u[j] + h[j]
  <2> DEFINE T == 0 .. j
  <2>1. /\ j \in T /\ T \in SUBSET Slots /\ T \ {j} = 0 .. j - 1 /\ j + 1 - 1 = j
        /\ j \in 0 .. NPoints + 1 /\ j + 1 \in 0 .. NPoints + 1
    BY <1>0 DEF Slots
  <2>3. u[j + 1] = f[T] /\ u[j] = f[T \ {j}]
    <3>1. u[j + 1] = f[0 .. j + 1 - 1] /\ u[j] = f[0 .. j - 1]
      BY <2>1
    <3> HIDE DEF u
    <3> QED BY <2>1, <3>1
  <2> HIDE DEF T, u
  <2>2. f[T] = h[j] + f[T \ {j}]
    BY <1>7, <2>1
  <2>4. h[j] \in Nat /\ u[j] \in Nat
    BY <1>3, <2>1
  <2> QED BY <2>2, <2>3, <2>4
<1> QED BY <1>3, <1>4, <1>5, <1>6 DEF SumsUp

---------------------------------------------------------------------------
(* Reading a position ID.                                                  *)

Readings == [i : 0..2, j : Slots, board : Boards]

NoChequers == [s \in 0..1 |-> [i \in Slots |-> 0]]

Start == [i |-> 0, j |-> 0, board |-> NoChequers]

\* A bit read.
ReadBit(acc, bit) ==
    IF acc.i = 2 THEN acc
    ELSE IF bit = 1 THEN [acc EXCEPT !.board[acc.i][acc.j] = @ + 1]
    ELSE IF acc.j = NPoints THEN [acc EXCEPT !.i = @ + 1, !.j = 0]
    ELSE [acc EXCEPT !.j = @ + 1]

\* The readings after each bit.
ReadBy(g, bits) ==
    /\ g \in [0..KeyBits -> Readings] /\ g[0] = Start
    /\ \A p \in 1..KeyBits : g[p] = ReadBit(g[p - 1], bits[p])
    /\ oldPositionFromKey(bits) = g[KeyBits].board

\* The sizes are numbers.
LEMMA Sizes ==
  /\ NPoints \in Nat /\ NChequers \in Nat /\ KeyBits \in Nat
  /\ KeyBits = 2 * NChequers + 2 * (NPoints + 1)
  /\ 0 \in Slots /\ NPoints \in Slots
BY BoardAssumption DEF KeyBits, Slots

\* A chequer more on a point, or on the next point.
LEMMA ReadBitIn ==
  ASSUME NEW acc \in Readings, NEW bit
  PROVE  ReadBit(acc, bit) \in Readings
<1>1. acc.i \in 0..2 /\ acc.j \in Slots /\ acc.board \in [0..1 -> [Slots -> Nat]]
  BY DEF Readings, Boards
<1>2. CASE acc.i = 2
  BY <1>2 DEF ReadBit
<1>3. CASE acc.i # 2 /\ bit = 1
  <2> DEFINE half == acc.board[acc.i]
             fuller == [half EXCEPT ![acc.j] = half[acc.j] + 1]
  <2>1. half \in [Slots -> Nat] /\ acc.i \in 0..1
    BY <1>1, <1>3
  <2>2. fuller \in [Slots -> Nat]
    <3>1. half[acc.j] + 1 \in Nat
      BY <1>1, <2>1
    <3> HIDE DEF half
    <3> QED BY <2>1, <3>1
  <2>3. ReadBit(acc, bit) = [acc EXCEPT !.board = [acc.board EXCEPT ![acc.i] = fuller]]
    BY <1>3 DEF ReadBit, Readings
  <2> HIDE DEF fuller
  <2>4. [acc.board EXCEPT ![acc.i] = fuller] \in [0..1 -> [Slots -> Nat]]
    BY <1>1, <2>1, <2>2
  <2> QED BY <2>3, <2>4 DEF Readings, Boards
<1>4. CASE acc.i # 2 /\ bit # 1
  <2>1. acc.j # NPoints => acc.j + 1 \in Slots
    BY <1>1, Sizes DEF Slots
  <2>2. acc.i + 1 \in 0..2 /\ 0 \in Slots
    BY <1>1, <1>4, Sizes
  <2>3. CASE acc.j = NPoints
    BY <1>4, <2>2, <2>3 DEF ReadBit, Readings
  <2>4. CASE acc.j # NPoints
    BY <1>4, <2>1, <2>4 DEF ReadBit, Readings
  <2> QED BY <2>3, <2>4
<1> QED BY <1>2, <1>3, <1>4

\* oldPositionFromKey reads bit by bit.
LEMMA ReadFold ==
  ASSUME NEW bits, DOMAIN bits = 1..KeyBits
  PROVE  \E g : ReadBy(g, bits)
<1> DEFINE n == KeyBits
           D == 1..KeyBits
           V == Readings
           base == [i |-> 0, j |-> 0, board |-> [s \in 0..1 |-> [i \in Slots |-> 0]]]
           Read(acc, bit) ==
              IF acc.i = 2 THEN acc
              ELSE IF bit = 1 THEN [acc EXCEPT !.board[acc.i][acc.j] = @ + 1]
              ELSE IF acc.j = NPoints THEN [acc EXCEPT !.i = @ + 1, !.j = 0]
              ELSE [acc EXCEPT !.j = @ + 1]
           P(f) == f = [T \in SUBSET DOMAIN bits |->
                          IF T = {} THEN base ELSE ReadBit(f[T \ {Max(T)}], bits[Max(T)])]
           c == CHOOSE f : P(f)
           step == [i \in D |-> [acc \in V |-> ReadBit(acc, bits[i])]]
<1>1. FoldLeft(Read, base, bits) = c[DOMAIN bits]
  BY Zenon DEF FoldLeft, MapThenFoldSet, ReadBit
<1>1a. oldPositionFromKey(bits) = c[DOMAIN bits].board
  BY <1>1, Zenon DEF oldPositionFromKey
<1>2. n \in Nat /\ DOMAIN bits = D /\ D = 1..n
  BY Sizes
<1>3. base \in V /\ base = Start
  BY Sizes DEF Readings, Boards, Start, NoChequers
<1>4. \A i \in D, acc \in V : ReadBit(acc, bits[i]) \in V
  BY ReadBitIn
<1> HIDE DEF V, base, Read
<1>5. step \in [D -> [V -> V]]
  BY <1>4
<1>6. \A i \in D, acc \in V : step[i][acc] = ReadBit(acc, bits[i])
  OBVIOUS
<1> HIDE DEF step
<1>7. \A T \in SUBSET D : T # {} => Max(T) \in D /\ T \ {Max(T)} \in SUBSET D
  BY <1>2, MaxIn
<1> HIDE DEF n, D
<1>8. P(c)
  <2>1. PICK f : FoldsIn(f, D, V, base, step)
    BY <1>2, <1>3, <1>5, FoldComputes
  <2>2. ASSUME NEW T \in SUBSET D
        PROVE  f[T] = IF T = {} THEN base ELSE ReadBit(f[T \ {Max(T)}], bits[Max(T)])
    <3>1. CASE T = {}
      BY <2>1, <3>1 DEF FoldsIn
    <3>2. CASE T # {}
      <4>1. f[T \ {Max(T)}] \in V
        BY <1>7, <2>1, <3>2 DEF FoldsIn
      <4> QED BY <1>6, <1>7, <2>1, <3>2, <4>1 DEF FoldsIn
    <3> QED BY <3>1, <3>2
  <2>3. P(f)
    <3>1. DOMAIN bits = D
      BY <1>2
    <3>2. f = [T \in SUBSET D |-> f[T]]
      BY <2>1 DEF FoldsIn
    <3>3. [T \in SUBSET D |-> f[T]] = [T \in SUBSET D |->
            IF T = {} THEN base ELSE ReadBit(f[T \ {Max(T)}], bits[Max(T)])]
      BY <2>2
    <3> QED BY <3>1, <3>2, <3>3, Zenon
  <2> HIDE DEF P
  <2> QED BY <2>3
<1> HIDE DEF c
<1>9. Folds(c, D, V, base, step)
  <2>1. c[{}] = base
    BY <1>8
  <2>2. ASSUME NEW T \in SUBSET D, T # {}, c[T \ {Max(T)}] \in V
        PROVE  c[T] = step[Max(T)][c[T \ {Max(T)}]]
    <3>1. c[T] = ReadBit(c[T \ {Max(T)}], bits[Max(T)])
      BY <1>2, <1>8, <2>2
    <3> HIDE DEF P
    <3> QED BY <1>6, <1>7, <2>2, <3>1
  <2> HIDE DEF P
  <2> QED BY <2>1, <2>2 DEF Folds
<1> HIDE DEF P
<1>10. PICK f : GoesOn(f, n, D, V, base, step, c[D])
  BY <1>2, <1>3, <1>5, <1>9, FoldBySteps
<1>11. \A i \in D : f[i] = ReadBit(f[i - 1], bits[i])
  <2>1. \A i \in D : i - 1 \in 0..n
    BY <1>2
  <2>2. \A i \in D : f[i - 1] \in V
    BY <1>10, <2>1 DEF GoesOn
  <2> QED BY <1>6, <1>10, <2>2 DEF GoesOn
<1>12. f[n].board = oldPositionFromKey(bits) /\ f \in [0..n -> V] /\ f[0] = Start
  BY <1>1a, <1>2, <1>3, <1>10 DEF GoesOn
<1> QED BY <1>2, <1>11, <1>12 DEF n, V, ReadBy

\* Whatever bits are read, a board comes of them.
LEMMA ReadsABoard ==
  ASSUME NEW bits, DOMAIN bits = 1..KeyBits
  PROVE  PositionFromID(bits).board \in Boards
<1>1. PICK g : ReadBy(g, bits)
  BY ReadFold
<1>2. g[KeyBits] \in Readings
  BY <1>1, Sizes DEF ReadBy
<1>3. oldPositionFromKey(bits) \in Boards
  BY <1>1, <1>2 DEF ReadBy, Readings
<1> QED BY <1>3 DEF PositionFromID

---------------------------------------------------------------------------
(* A position ID is read as it was written.                                *)

\* The points of a board one after the other, the opponent's first.
Wide == NPoints + 1
Side(k)  == IF k < Wide THEN 0 ELSE 1
Place(k) == IF k < Wide THEN k ELSE k - Wide
Of(b, k) == b[Side(k)][Place(k)]

\* The bits of a point that holds c chequers.
Unary(c) == [l \in 1 .. c + 1 |-> IF l <= c THEN 1 ELSE 0]

\* at[k] is where the first k points end in the ID.
Written(at, b) ==
    /\ at \in [0 .. 2 * Wide -> Nat] /\ at[0] = 0 /\ at[2 * Wide] <= KeyBits
    /\ \A k \in 1 .. 2 * Wide : at[k] = at[k - 1] + Of(b, k - 1) + 1
    /\ \A k \in 1 .. 2 * Wide : at[k] <= at[2 * Wide]

LEMMA Points ==
  ASSUME NEW k \in 1 .. 2 * Wide
  PROVE  /\ (k - 1) \div (NPoints + 1) = Side(k - 1)
         /\ (k - 1) % (NPoints + 1) = Place(k - 1)
         /\ Side(k - 1) \in 0..1 /\ Place(k - 1) \in Slots
<1> DEFINE w == NPoints + 1
<1>1. w \in Nat /\ w > 0 /\ Wide = w /\ Slots = 0 .. w - 1 /\ k \in Nat /\ NPoints + 1 = w
  BY Sizes DEF Wide, Slots
<1> HIDE DEF w
<1>2. CASE k \in 1..w
  <2>1. (k - 1) \div w = 0 /\ (k - 1) % w = k - 1
    BY <1>1, <1>2
  <2>2. Side(k - 1) = 0 /\ Place(k - 1) = k - 1 /\ k - 1 \in 0 .. w - 1
    BY <1>1, <1>2 DEF Side, Place
  <2> QED BY <1>1, <2>1, <2>2
<1>3. CASE k \in w + 1 .. 2 * w
  <2>1. (k - 1) \div w = 1 /\ (k - 1) % w = k - 1 - w
    BY <1>1, <1>3
  <2>2. Side(k - 1) = 1 /\ Place(k - 1) = k - 1 - w /\ k - 1 - w \in 0 .. w - 1
    BY <1>1, <1>3 DEF Side, Place
  <2> QED BY <1>1, <2>1, <2>2
<1>4. k \in 1..w \/ k \in w + 1 .. 2 * w
  BY <1>1
<1> QED BY <1>2, <1>3, <1>4

LEMMA PointHolds ==
  ASSUME NEW b \in Boards, NEW k \in 1 .. 2 * Wide
  PROVE  Of(b, k - 1) \in Nat
BY Points DEF Of, Boards

\* There is room for all the points.
LEMMA RoomForAll ==
  ASSUME NEW b \in Boards, CorrectNumberOfChequers(b)
  PROVE  \E at : Written(at, b)
<1>1. b[0] \in [Slots -> Nat] /\ b[1] \in [Slots -> Nat]
  BY DEF Boards
<1>2. PICK u : SumsUp(u, b[0])
  BY <1>1, ChequersSumUp
<1>3. PICK v : SumsUp(v, b[1])
  BY <1>1, ChequersSumUp
<1>4. Wide \in Nat /\ Wide > 0 /\ NPoints + 1 = Wide /\ Slots = 0 .. Wide - 1
      /\ KeyBits = 2 * NChequers + 2 * Wide /\ NChequers \in Nat
  BY Sizes DEF Wide, Slots
<1>5. /\ u \in [0..Wide -> Nat] /\ u[0] = 0 /\ u[Wide] <= NChequers
      /\ \A j \in 0 .. Wide - 1 : u[j + 1] = u[j] + b[0][j]
  <2>1. /\ u \in [0 .. NPoints + 1 -> Nat] /\ u[0] = 0 /\ u[NPoints + 1] = Chequers(b[0])
        /\ \A j \in Slots : u[j + 1] = u[j] + b[0][j]
    BY <1>2 DEF SumsUp
  <2>2. Chequers(b[0]) <= NChequers
    BY DEF CorrectNumberOfChequers
  <2> QED BY <1>4, <2>1, <2>2
<1>6. /\ v \in [0..Wide -> Nat] /\ v[0] = 0 /\ v[Wide] <= NChequers
      /\ \A j \in 0 .. Wide - 1 : v[j + 1] = v[j] + b[1][j]
  <2>1. /\ v \in [0 .. NPoints + 1 -> Nat] /\ v[0] = 0 /\ v[NPoints + 1] = Chequers(b[1])
        /\ \A j \in Slots : v[j + 1] = v[j] + b[1][j]
    BY <1>3 DEF SumsUp
  <2>2. Chequers(b[1]) <= NChequers
    BY DEF CorrectNumberOfChequers
  <2> QED BY <1>4, <2>1, <2>2
<1> DEFINE at == [k \in 0 .. 2 * Wide |-> IF k <= Wide THEN k + u[k]
                                          ELSE k + u[Wide] + v[k - Wide]]
<1>7. at \in [0 .. 2 * Wide -> Nat]
  <2>1. u[Wide] \in Nat
    BY <1>4, <1>5
  <2>2. ASSUME NEW k \in 0 .. 2 * Wide, k <= Wide PROVE k + u[k] \in Nat
    <3>1. u[k] \in Nat
      BY <1>4, <1>5, <2>2
    <3> QED BY <1>4, <3>1
  <2>3. ASSUME NEW k \in 0 .. 2 * Wide, ~(k <= Wide) PROVE k + u[Wide] + v[k - Wide] \in Nat
    <3>1. k - Wide \in 0..Wide
      BY <1>4, <2>3
    <3>2. v[k - Wide] \in Nat
      BY <1>6, <3>1
    <3> QED BY <1>4, <2>1, <3>2
  <2> QED BY <2>2, <2>3
<1>8. \A k \in 0 .. 2 * Wide : at[k] = IF k <= Wide THEN k + u[k] ELSE k + u[Wide] + v[k - Wide]
  OBVIOUS
<1> HIDE DEF at
<1>9. at[0] = 0
  <2>1. 0 \in 0 .. 2 * Wide /\ 0 <= Wide
    BY <1>4
  <2>2. at[0] = 0 + u[0]
    BY <1>8, <2>1
  <2> QED BY <1>5, <2>2
<1>10. at[2 * Wide] <= KeyBits
  <2> DEFINE k == 2 * Wide
  <2>1. k \in 0 .. 2 * Wide /\ ~(k <= Wide) /\ k - Wide = Wide /\ k \in Nat
    BY <1>4
  <2> HIDE DEF k
  <2>2. at[k] = k + u[Wide] + v[Wide]
    BY <1>8, <2>1
  <2>3. u[Wide] \in Nat /\ v[Wide] \in Nat
    BY <1>4, <1>5, <1>6
  <2>4. at[k] <= KeyBits
    BY <1>4, <1>5, <1>6, <2>2, <2>3 DEF k
  <2> QED BY <2>4 DEF k
<1>11. ASSUME NEW k \in 1 .. 2 * Wide PROVE at[k] = at[k - 1] + Of(b, k - 1) + 1
  <2>1. k \in 0 .. 2 * Wide /\ k - 1 \in 0 .. 2 * Wide /\ k \in Nat /\ k - 1 \in Nat
    BY <1>4
  <2>2. CASE k <= Wide
    <3>1. k - 1 \in 0 .. Wide - 1 /\ k - 1 + 1 = k /\ k - 1 < Wide /\ k - 1 <= Wide
      BY <1>4, <2>1, <2>2
    <3>2. u[k] = u[k - 1] + b[0][k - 1] /\ u[k - 1] \in Nat /\ b[0][k - 1] \in Nat
      <4>1. k - 1 \in Slots /\ k - 1 \in 0..Wide
        BY <1>4, <3>1
      <4> QED BY <1>1, <1>5, <3>1, <4>1
    <3>3. Of(b, k - 1) = b[0][k - 1]
      BY <3>1 DEF Of, Side, Place
    <3>4. at[k] = k + u[k] /\ at[k - 1] = k - 1 + u[k - 1]
      BY <1>8, <2>1, <2>2, <3>1
    <3> QED BY <2>1, <3>2, <3>3, <3>4
  <2>3. CASE k > Wide
    <3> DEFINE j == k - 1 - Wide
    <3>1. j \in 0 .. Wide - 1 /\ j + 1 = k - Wide /\ ~(k - 1 < Wide) /\ ~(k <= Wide) /\ j \in 0..Wide
      BY <1>4, <2>1, <2>3
    <3>2. v[k - Wide] = v[j] + b[1][j] /\ v[j] \in Nat /\ b[1][j] \in Nat
      <4>1. j \in Slots
        BY <1>4, <3>1
      <4> HIDE DEF j
      <4> QED BY <1>1, <1>6, <3>1, <4>1
    <3>3. Of(b, k - 1) = b[1][j]
      BY <3>1 DEF Of, Side, Place
    <3>4. u[Wide] \in Nat
      BY <1>4, <1>5
    <3>5. at[k] = k + u[Wide] + v[k - Wide]
      BY <1>8, <2>1, <3>1
    <3>6. at[k - 1] = k - 1 + u[Wide] + v[j]
      <4>1. CASE k - 1 <= Wide
        <5>1. k - 1 = Wide /\ j = 0
          BY <1>4, <2>1, <2>3, <4>1
        <5>2. at[k - 1] = k - 1 + u[k - 1]
          BY <1>8, <2>1, <4>1
        <5> HIDE DEF j
        <5> QED BY <1>6, <2>1, <3>4, <5>1, <5>2
      <4>2. CASE ~(k - 1 <= Wide)
        BY <1>8, <2>1, <4>2
      <4> QED BY <4>1, <4>2
    <3> HIDE DEF j
    <3> QED BY <2>1, <3>2, <3>3, <3>4, <3>5, <3>6
  <2> QED BY <1>4, <2>1, <2>2, <2>3
<1>12. \A k \in 1 .. 2 * Wide : at[k] <= at[2 * Wide]
  <2> DEFINE A == {d \in Nat : \A k \in 1 .. 2 * Wide : k = 2 * Wide - d => at[k] <= at[2 * Wide]}
  <2>0. 2 * Wide \in Nat /\ at[2 * Wide] \in Nat
    BY <1>4, <1>7
  <2>1. 0 \in A
    BY <2>0
  <2>2. ASSUME NEW d \in Nat, d \in A PROVE d + 1 \in A
    <3> SUFFICES ASSUME NEW k \in 1 .. 2 * Wide, k = 2 * Wide - (d + 1) PROVE at[k] <= at[2 * Wide]
      OBVIOUS
    <3>1. k + 1 \in 1 .. 2 * Wide /\ k + 1 = 2 * Wide - d /\ k + 1 - 1 = k
      BY <2>0
    <3>2. at[k + 1] <= at[2 * Wide]
      BY <2>2, <3>1
    <3>3. at[k + 1] = at[k] + Of(b, k) + 1
      BY <1>11, <3>1
    <3>4. Of(b, k) \in Nat /\ at[k] \in Nat
      <4>1. Of(b, k + 1 - 1) \in Nat
        BY <3>1, PointHolds
      <4>2. k \in 0 .. 2 * Wide
        BY <2>0
      <4> QED BY <1>7, <3>1, <4>1, <4>2
    <3> QED BY <2>0, <3>2, <3>3, <3>4
  <2>3. Nat \subseteq A
    <3> HIDE DEF A
    <3> QED BY <2>1, <2>2, SetInduction
  <2>4. ASSUME NEW k \in 1 .. 2 * Wide PROVE at[k] <= at[2 * Wide]
    <3>1. 2 * Wide - k \in Nat /\ k = 2 * Wide - (2 * Wide - k)
      BY <2>0
    <3>2. 2 * Wide - k \in A
      BY <2>3, <3>1
    <3> QED BY <3>1, <3>2
  <2> QED BY <2>4
<1> QED BY <1>7, <1>9, <1>10, <1>11, <1>12 DEF Written


\* Where in the ID a point's bits are.
LEMMA IDLayout ==
  ASSUME NEW b \in Boards, CorrectNumberOfChequers(b), NEW at, Written(at, b)
  PROVE  /\ DOMAIN PositionID(b) = 1..KeyBits
         /\ \A k \in 1 .. 2 * Wide : \A l \in 1 .. Of(b, k - 1) + 1 :
               /\ at[k - 1] + l \in 1..KeyBits
               /\ PositionID(b)[at[k - 1] + l] = IF l <= Of(b, k - 1) THEN 1 ELSE 0
<1> DEFINE n == 2 * Wide
           Point(s, i) == [k \in 1 .. b[s][i] + 1 |-> IF k <= b[s][i] THEN 1 ELSE 0]
           seqs == [k \in 1..n |-> Unary(Of(b, k - 1))]
           bits == FlattenSeq(seqs)
<1>1. n \in Nat /\ n > 0
  BY Sizes DEF Wide
<1>2. \A k \in 1..n : Of(b, k - 1) \in Nat
  BY PointHolds
<1>3. ASSUME NEW k \in 1..n
      PROVE  /\ Unary(Of(b, k - 1)) \in Seq({0, 1}) /\ Len(Unary(Of(b, k - 1))) = Of(b, k - 1) + 1
             /\ \A l \in 1 .. Of(b, k - 1) + 1 :
                   Unary(Of(b, k - 1))[l] = IF l <= Of(b, k - 1) THEN 1 ELSE 0
  <2> DEFINE c == Of(b, k - 1)
  <2>1. c \in Nat
    BY <1>2
  <2> HIDE DEF c
  <2>2. /\ Unary(c) \in Seq({0, 1}) /\ Len(Unary(c)) = c + 1
        /\ \A l \in 1 .. c + 1 : Unary(c)[l] = IF l <= c THEN 1 ELSE 0
    BY <2>1 DEF Unary
  <2> QED BY <2>2 DEF c
<1>4. [k \in 1 .. 2 * (NPoints + 1) |->
         Point((k - 1) \div (NPoints + 1), (k - 1) % (NPoints + 1))] = seqs
  <2>1. ASSUME NEW k \in 1..n
        PROVE  Point((k - 1) \div (NPoints + 1), (k - 1) % (NPoints + 1)) = Unary(Of(b, k - 1))
    <3>1. (k - 1) \div (NPoints + 1) = Side(k - 1) /\ (k - 1) % (NPoints + 1) = Place(k - 1)
      BY Points
    <3>2. Point(Side(k - 1), Place(k - 1)) = Unary(Of(b, k - 1))
      BY DEF Unary, Of
    <3> HIDE DEF Point
    <3> QED BY <3>1, <3>2
  <2>2. 2 * (NPoints + 1) = n
    BY DEF Wide
  <2> HIDE DEF Point, n
  <2> QED BY <2>1, <2>2
<1>5. PositionID(b) = [k \in 1..KeyBits |-> IF k <= Len(bits) THEN bits[k] ELSE 0]
  <2> HIDE DEF seqs
  <2> QED BY <1>4, Zenon DEF PositionID
<1>6. seqs \in [1..n -> Seq({0, 1})]
  BY <1>3
<1>7. \A k \in 1..n : seqs[k] = Unary(Of(b, k - 1))
  OBVIOUS
<1> HIDE DEF seqs
<1>8. PICK f : Flattens(f, n, seqs, Seq({0, 1}))
  <2> HIDE DEF n
  <2> QED BY <1>1, <1>6, FlattenBySteps
<1>9. Ends(at, n, seqs)
  <2>1. ASSUME NEW k \in 1..n PROVE at[k] = at[k - 1] + Len(seqs[k])
    <3>1. at[k] = at[k - 1] + Of(b, k - 1) + 1 /\ Len(seqs[k]) = Of(b, k - 1) + 1
      BY <1>3, <1>7 DEF Written
    <3>2. at[k - 1] \in Nat /\ Of(b, k - 1) \in Nat
      <4>1. k - 1 \in 0..n
        BY <1>1
      <4> QED BY <1>2, <4>1 DEF Written
    <3> QED BY <3>1, <3>2
  <2> QED BY <2>1 DEF Ends, Written
<1>10. bits = f[n] /\ Placed(f[n], n, at, seqs)
  <2> HIDE DEF n
  <2> QED BY <1>1, <1>6, <1>8, <1>9, FlattenPlaces DEF Flattens
<1> HIDE DEF bits
<1>11. Len(bits) = at[n] /\ at[n] <= KeyBits /\ at[n] \in Nat
  BY <1>1, <1>10 DEF Placed, Written
<1>12. ASSUME NEW k \in 1..n, NEW l \in 1 .. Of(b, k - 1) + 1
       PROVE  /\ at[k - 1] + l \in 1..KeyBits
              /\ PositionID(b)[at[k - 1] + l] = IF l <= Of(b, k - 1) THEN 1 ELSE 0
  <2> DEFINE z == at[k - 1] + l
  <2>1. at[k - 1] \in Nat /\ Of(b, k - 1) \in Nat /\ at[k] = at[k - 1] + Of(b, k - 1) + 1
    <3>1. k - 1 \in 0..n
      BY <1>1
    <3> QED BY <1>2, <3>1 DEF Written
  <2>2. at[k] <= at[n] /\ l \in 1 .. Len(seqs[k]) /\ seqs[k] = Unary(Of(b, k - 1))
    BY <1>3, <1>7, <1>10 DEF Placed
  <2>3. bits[z] = Unary(Of(b, k - 1))[l]
    BY <1>10, <2>2 DEF Placed
  <2>4. z \in 1..at[n]
    <3>1. \A a, c, d, e \in Nat : c <= d /\ c = a + e + 1 => \A x \in 1 .. e + 1 : a + x \in 1..d
      OBVIOUS
    <3>2. at[k] \in Nat
      BY <2>1
    <3> HIDE DEF z
    <3>3. at[k - 1] + l \in 1..at[n]
      BY <1>11, <2>1, <2>2, <3>1, <3>2
    <3> QED BY <3>3 DEF z
  <2> HIDE DEF z
  <2>5. z \in 1..KeyBits /\ z <= Len(bits)
    BY <1>11, <2>4, Sizes
  <2>6. PositionID(b)[z] = bits[z]
    BY <1>5, <2>5
  <2> QED BY <1>3, <2>3, <2>5, <2>6 DEF z
<1> QED BY <1>5, <1>12

---------------------------------------------------------------------------

Index(s, i) == IF s = 0 THEN i ELSE i + Wide

\* The board after k points and l chequers of the next.
Partly(b, k, l) ==
    [s \in 0..1 |-> [i \in Slots |->
        IF Index(s, i) < k THEN b[s][i] ELSE IF Index(s, i) = k THEN l ELSE 0]]

\* What has been read then.
Partial(b, k, l) == [i |-> Side(k), j |-> Place(k), board |-> Partly(b, k, l)]
Whole(b) == [i |-> 2, j |-> 0, board |-> b]

LEMMA Indices ==
  /\ \A k \in 0 .. 2 * Wide - 1 :
        Side(k) \in 0..1 /\ Place(k) \in Slots /\ Index(Side(k), Place(k)) = k
  /\ \A s \in 0..1, i \in Slots :
        Index(s, i) \in 0 .. 2 * Wide - 1 /\ Side(Index(s, i)) = s /\ Place(Index(s, i)) = i
<1>1. Wide \in Nat /\ Wide > 0 /\ Slots = 0 .. Wide - 1
  BY Sizes DEF Wide, Slots
<1>2. ASSUME NEW k \in 0 .. 2 * Wide - 1
      PROVE  Side(k) \in 0..1 /\ Place(k) \in Slots /\ Index(Side(k), Place(k)) = k
  <2>1. CASE k < Wide
    BY <1>1, <2>1 DEF Side, Place, Index
  <2>2. CASE ~(k < Wide)
    BY <1>1, <2>2 DEF Side, Place, Index
  <2> QED BY <2>1, <2>2
<1>3. ASSUME NEW s \in 0..1, NEW i \in Slots
      PROVE  Index(s, i) \in 0 .. 2 * Wide - 1 /\ Side(Index(s, i)) = s /\ Place(Index(s, i)) = i
  <2>1. CASE s = 0
    BY <1>1, <2>1 DEF Side, Place, Index
  <2>2. CASE s = 1
    BY <1>1, <2>2 DEF Side, Place, Index
  <2> QED BY <2>1, <2>2
<1> QED BY <1>2, <1>3

\* A one puts a chequer on the point.
LEMMA OneRead ==
  ASSUME NEW b \in Boards, NEW k \in 0 .. 2 * Wide - 1, NEW l \in Nat
  PROVE  ReadBit(Partial(b, k, l), 1) = Partial(b, k, l + 1)
<1> DEFINE s == Side(k)
           j == Place(k)
           acc == Partial(b, k, l)
           P == Partly(b, k, l)
<1>1. s \in 0..1 /\ j \in Slots /\ Index(s, j) = k /\ k \in Nat
  BY Indices, Sizes DEF Wide
<1>2. \A t \in 0..1, i \in Slots : Index(t, i) = k => t = s /\ i = j
  BY Indices
<1>3. acc.i = s /\ acc.j = j /\ acc.board = P
  BY DEF Partial
<1>4. P = [t \in 0..1 |-> P[t]] /\ P[s] = [i \in Slots |-> P[s][i]] /\ P[s][j] = l
  BY <1>1 DEF Partly
<1>5. ReadBit(acc, 1) = [acc EXCEPT !.board[s][j] = l + 1]
  <2>1. s # 2
    BY <1>1
  <2> HIDE DEF acc, s, j, P
  <2>2. ReadBit(acc, 1) = [acc EXCEPT !.board[acc.i][acc.j] = acc.board[acc.i][acc.j] + 1]
    BY <1>3, <2>1 DEF ReadBit
  <2> QED BY <1>3, <1>4, <2>2
<1>6. [P EXCEPT ![s][j] = l + 1] = Partly(b, k, l + 1)
  <2> DEFINE Q == [P EXCEPT ![s][j] = l + 1]
             R == Partly(b, k, l + 1)
  <2>1. \A t \in 0..1, i \in Slots : Q[t][i] = IF t = s /\ i = j THEN l + 1 ELSE P[t][i]
    <3>1. \A t \in 0..1 : P[t] = [i \in Slots |-> P[t][i]]
      BY DEF Partly
    <3> HIDE DEF P, s, j
    <3> QED BY <1>1, <1>4, <3>1
  <2>2. ASSUME NEW t \in 0..1, NEW i \in Slots PROVE R[t][i] = IF t = s /\ i = j THEN l + 1 ELSE P[t][i]
    <3>1. CASE t = s /\ i = j
      BY <1>1, <3>1 DEF Partly
    <3>2. CASE ~(t = s /\ i = j)
      BY <1>2, <3>2 DEF Partly
    <3> QED BY <3>1, <3>2
  <2>3. Q = [t \in 0..1 |-> [i \in Slots |-> Q[t][i]]]
    <3>1. \A t \in 0..1 : P[t] = [i \in Slots |-> P[t][i]]
      BY DEF Partly
    <3> HIDE DEF P, s, j
    <3> QED BY <1>1, <1>4, <3>1
  <2>4. R = [t \in 0..1 |-> [i \in Slots |-> R[t][i]]]
    BY DEF Partly
  <2> HIDE DEF Q, R, P, s, j
  <2>5. Q = R
    BY <2>1, <2>2, <2>3, <2>4
  <2> QED BY <2>5 DEF Q, R
<1>7. [acc EXCEPT !.board[s][j] = l + 1] = [i |-> s, j |-> j, board |-> [P EXCEPT ![s][j] = l + 1]]
  BY DEF Partial
<1> QED BY <1>5, <1>6, <1>7 DEF Partial

\* A zero ends the point, and after the last of them the reading.
LEMMA ZeroRead ==
  ASSUME NEW b \in Boards, NEW k \in 0 .. 2 * Wide - 1
  PROVE  ReadBit(Partial(b, k, Of(b, k)), 0) =
            IF k + 1 < 2 * Wide THEN Partial(b, k + 1, 0) ELSE Whole(b)
<1> DEFINE s == Side(k)
           j == Place(k)
           acc == Partial(b, k, Of(b, k))
           P == Partly(b, k, Of(b, k))
<1>0. Wide \in Nat /\ Wide > 0 /\ NPoints = Wide - 1 /\ Slots = 0..NPoints
  BY Sizes DEF Wide, Slots
<1>1. s \in 0..1 /\ j \in Slots /\ Index(s, j) = k /\ k \in Nat
  <2>1. s \in 0..1 /\ j \in Slots /\ Index(s, j) = k
    BY Indices
  <2> QED BY <1>0, <2>1
<1>2. \A t \in 0..1, i \in Slots : Index(t, i) \in Nat /\ (Index(t, i) = k => t = s /\ i = j)
  <2>1. \A t \in 0..1, i \in Slots :
          Index(t, i) \in 0 .. 2 * Wide - 1 /\ (Index(t, i) = k => t = s /\ i = j)
    BY Indices
  <2> HIDE DEF s, j
  <2> QED BY <1>0, <2>1
<1>3. acc.i = s /\ acc.j = j /\ acc.board = P
  BY DEF Partial
<1>4. \A t \in 0..1, i \in Slots :
        P[t][i] = IF Index(t, i) < k + 1 THEN b[t][i] ELSE 0
  <2> SUFFICES ASSUME NEW t \in 0..1, NEW i \in Slots
               PROVE  P[t][i] = IF Index(t, i) < k + 1 THEN b[t][i] ELSE 0
    OBVIOUS
  <2>1. P[t][i] = IF Index(t, i) < k THEN b[t][i] ELSE IF Index(t, i) = k THEN Of(b, k) ELSE 0
    BY DEF Partly
  <2>2. Index(t, i) = k => Of(b, k) = b[t][i]
    BY <1>2 DEF Of
  <2> HIDE DEF P
  <2> QED BY <1>1, <1>2, <2>1, <2>2
<1>5. P = [t \in 0..1 |-> [i \in Slots |-> P[t][i]]]
  BY DEF Partly
<1>6. CASE k + 1 < 2 * Wide
  <2>1. ReadBit(acc, 0) = [i |-> Side(k + 1), j |-> Place(k + 1), board |-> P]
    <3>1. CASE j = NPoints
      <4>1. Side(k + 1) = s + 1 /\ Place(k + 1) = 0 /\ s # 2
        BY <1>0, <1>1, <1>6, <3>1 DEF Side, Place
      <4>2. ReadBit(acc, 0) = [acc EXCEPT !.i = s + 1, !.j = 0]
        BY <1>3, <3>1, <4>1 DEF ReadBit
      <4> QED BY <4>1, <4>2 DEF Partial
    <3>2. CASE j # NPoints
      <4>1. Side(k + 1) = s /\ Place(k + 1) = j + 1 /\ s # 2
        BY <1>0, <1>1, <1>6, <3>2 DEF Side, Place
      <4>2. ReadBit(acc, 0) = [acc EXCEPT !.j = j + 1]
        BY <1>3, <3>2, <4>1 DEF ReadBit
      <4> QED BY <4>1, <4>2 DEF Partial
    <3> QED BY <3>1, <3>2
  <2>2. P = Partly(b, k + 1, 0)
    <3> DEFINE R == Partly(b, k + 1, 0)
    <3>1. R = [t \in 0..1 |-> [i \in Slots |-> R[t][i]]]
      BY DEF Partly
    <3>2. \A t \in 0..1, i \in Slots : R[t][i] = IF Index(t, i) < k + 1 THEN b[t][i] ELSE 0
      BY DEF Partly
    <3> HIDE DEF R, P
    <3>3. P = R
      BY <1>4, <1>5, <3>1, <3>2
    <3> QED BY <3>3 DEF R
  <2> QED BY <1>6, <2>1, <2>2 DEF Partial
<1>7. CASE ~(k + 1 < 2 * Wide)
  <2>1. s = 1 /\ j = NPoints /\ s # 2 /\ s + 1 = 2
    BY <1>0, <1>1, <1>7 DEF Side, Place
  <2>2. ReadBit(acc, 0) = [acc EXCEPT !.i = s + 1, !.j = 0]
    BY <1>3, <2>1 DEF ReadBit
  <2>3. P = b
    <3>1. \A t \in 0..1, i \in Slots : Index(t, i) < k + 1
      <4>1. \A t \in 0..1, i \in Slots : Index(t, i) \in 0 .. 2 * Wide - 1
        BY Indices
      <4>2. \A x \in 0 .. 2 * Wide - 1 : x < k + 1
        BY <1>0, <1>1, <1>7
      <4> QED BY <4>1, <4>2
    <3>2. b = [t \in 0..1 |-> [i \in Slots |-> b[t][i]]]
      BY DEF Boards
    <3> HIDE DEF P
    <3> QED BY <1>4, <1>5, <3>1, <3>2
  <2> QED BY <1>7, <2>1, <2>2, <2>3 DEF Partial, Whole
<1> QED BY <1>6, <1>7


\* A position ID is read as the board it was written of, whatever the board, if neither side
\* has too many chequers: the bits of both fit in the ID, and after them nothing more is
\* read (PositionID, PositionFromID).
THEOREM IDIsFaithful ==
  ASSUME NEW b \in Boards, CorrectNumberOfChequers(b)
  PROVE  PositionFromID(PositionID(b)).board = b
<1> DEFINE bits == PositionID(b)
           n == 2 * Wide
<1>1. PICK at : Written(at, b)
  BY RoomForAll
<1>2. /\ DOMAIN bits = 1..KeyBits
      /\ \A k \in 1..n : \A l \in 1 .. Of(b, k - 1) + 1 :
            /\ at[k - 1] + l \in 1..KeyBits
            /\ bits[at[k - 1] + l] = IF l <= Of(b, k - 1) THEN 1 ELSE 0
  BY <1>1, IDLayout
<1> HIDE DEF bits
<1>3. PICK g : ReadBy(g, bits)
  BY <1>2, ReadFold
<1>4. /\ Wide \in Nat /\ Wide > 0 /\ n \in Nat /\ KeyBits \in Nat
      /\ \A k \in 1..n : k - 1 \in 0 .. n - 1 /\ Of(b, k - 1) \in Nat /\ at[k - 1] \in Nat
  <2>1. Wide \in Nat /\ Wide > 0 /\ n \in Nat /\ KeyBits \in Nat
    BY Sizes DEF Wide
  <2>2. \A k \in 1..n : k - 1 \in 0 .. n - 1 /\ k - 1 \in 0..n
    BY <2>1
  <2>3. \A k \in 1..n : Of(b, k - 1) \in Nat
    BY PointHolds
  <2>4. \A k \in 1..n : at[k - 1] \in Nat
    BY <1>1, <2>2 DEF Written
  <2> QED BY <2>1, <2>2, <2>3, <2>4
<1>5. \A p \in 1..KeyBits : g[p] = ReadBit(g[p - 1], bits[p])
  BY <1>3 DEF ReadBy
\* What is read up to the k-th point, and within it.
<1> DEFINE Reached(k) == g[at[k]] = IF k < n THEN Partial(b, k, 0) ELSE Whole(b)
<1>6. ASSUME NEW k \in 1..n, Reached(k - 1) PROVE Reached(k)
  <2> DEFINE c == Of(b, k - 1)
             a == at[k - 1]
             A == {l \in Nat : l <= c => g[a + l] = Partial(b, k - 1, l)}
  <2>0. k - 1 \in 0 .. n - 1 /\ c \in Nat /\ a \in Nat /\ k - 1 < n /\ k - 1 + 1 = k
    BY <1>4
  <2>1. \A l \in 1 .. c + 1 : /\ a + l \in 1..KeyBits
                              /\ bits[a + l] = IF l <= c THEN 1 ELSE 0
    BY <1>2
  <2>2. g[a] = Partial(b, k - 1, 0)
    BY <1>6, <2>0
  <2>3. at[k] = a + (c + 1)
    <3>1. at[k] = a + c + 1
      BY <1>1 DEF Written
    <3> QED BY <2>0, <3>1
  <2> HIDE DEF Reached, c, a
  <2>4. 0 \in A
    <3>1. a + 0 = a
      BY <2>0
    <3> QED BY <2>2, <3>1
  <2>5. ASSUME NEW l \in Nat, l \in A PROVE l + 1 \in A
    <3> SUFFICES ASSUME l + 1 <= c PROVE g[a + (l + 1)] = Partial(b, k - 1, l + 1)
      OBVIOUS
    <3> DEFINE p == a + (l + 1)
    <3>1. l + 1 \in 1 .. c + 1 /\ l <= c /\ p - 1 = a + l
      BY <2>0
    <3>2. p \in 1..KeyBits /\ bits[p] = 1
      BY <2>1, <3>1
    <3> HIDE DEF p
    <3>3. g[p] = ReadBit(g[p - 1], 1)
      BY <1>5, <3>2
    <3>4. g[p - 1] = Partial(b, k - 1, l)
      BY <2>5, <3>1
    <3>5. ReadBit(Partial(b, k - 1, l), 1) = Partial(b, k - 1, l + 1)
      BY <2>0, OneRead
    <3>6. g[p] = Partial(b, k - 1, l + 1)
      BY <3>3, <3>4, <3>5
    <3> QED BY <3>6 DEF p
  <2>6. Nat \subseteq A
    <3> HIDE DEF A
    <3> QED BY <2>4, <2>5, SetInduction
  <2>7. g[a + c] = Partial(b, k - 1, c)
    <3>1. c \in A /\ c <= c
      BY <2>0, <2>6
    <3> QED BY <3>1
  <2> HIDE DEF A
  <2> DEFINE p == a + (c + 1)
  <2>8. c + 1 \in 1 .. c + 1 /\ ~(c + 1 <= c) /\ p - 1 = a + c
    BY <2>0
  <2>9. p \in 1..KeyBits /\ bits[p] = 0
    BY <2>1, <2>8
  <2> HIDE DEF p
  <2>10. g[p] = ReadBit(Partial(b, k - 1, c), 0)
    BY <1>5, <2>7, <2>8, <2>9
  <2>11. ReadBit(Partial(b, k - 1, c), 0) = IF k < n THEN Partial(b, k, 0) ELSE Whole(b)
    <3>1. ReadBit(Partial(b, k - 1, Of(b, k - 1)), 0) =
            IF k - 1 + 1 < 2 * Wide THEN Partial(b, k - 1 + 1, 0) ELSE Whole(b)
      BY <2>0, ZeroRead
    <3> QED BY <2>0, <3>1 DEF c
  <2> QED BY <2>3, <2>10, <2>11 DEF Reached, p
<1>7. Reached(0)
  <2>1. g[at[0]] = Start
    BY <1>1, <1>3 DEF Written, ReadBy
  <2>2. Start = Partial(b, 0, 0)
    <3>1. Side(0) = 0 /\ Place(0) = 0
      BY <1>4 DEF Side, Place
    <3>2. \A s \in 0..1, i \in Slots : ~(Index(s, i) < 0)
      <4>1. \A s \in 0..1, i \in Slots : Index(s, i) \in 0 .. 2 * Wide - 1
        BY Indices
      <4> QED BY <4>1
    <3>3. Partly(b, 0, 0) = NoChequers
      BY <3>2 DEF Partly, NoChequers
    <3> QED BY <3>1, <3>3 DEF Start, Partial
  <2> QED BY <1>4, <2>1, <2>2
<1>8. Reached(n)
  <2> DEFINE B == {k \in Nat : k <= n => Reached(k)}
  <2> HIDE DEF Reached
  <2>1. 0 \in B
    BY <1>7
  <2>2. ASSUME NEW k \in Nat, k \in B PROVE k + 1 \in B
    <3> SUFFICES ASSUME k + 1 <= n PROVE Reached(k + 1)
      OBVIOUS
    <3>1. k + 1 \in 1..n /\ k + 1 - 1 = k /\ k <= n
      BY <1>4
    <3>2. Reached(k + 1 - 1)
      BY <2>2, <3>1
    <3> QED BY <1>6, <3>1, <3>2
  <2>3. Nat \subseteq B
    <3> HIDE DEF B
    <3> QED BY <2>1, <2>2, SetInduction
  <2>4. n \in B /\ n <= n
    BY <1>4, <2>3
  <2> QED BY <2>4
<1>9. g[at[n]] = Whole(b) /\ at[n] \in 0..KeyBits
  BY <1>1, <1>4, <1>8 DEF Written
\* The rest is not read.
<1>10. g[KeyBits] = Whole(b)
  <2> DEFINE B == {d \in Nat : at[n] + d <= KeyBits => g[at[n] + d] = Whole(b)}
             e == at[n]
  <2>0. e \in Nat /\ e <= KeyBits /\ g[e] = Whole(b)
    BY <1>4, <1>9
  <2> HIDE DEF e
  <2>1. 0 \in B
    BY <2>0 DEF e
  <2>2. ASSUME NEW d \in Nat, d \in B PROVE d + 1 \in B
    <3> SUFFICES ASSUME e + (d + 1) <= KeyBits PROVE g[e + (d + 1)] = Whole(b)
      BY DEF e
    <3> DEFINE p == e + (d + 1)
    <3>1. p \in 1..KeyBits /\ p - 1 = e + d /\ e + d <= KeyBits
      BY <1>4, <2>0
    <3> HIDE DEF p
    <3>2. g[p - 1] = Whole(b)
      BY <2>2, <3>1 DEF e
    <3>3. g[p] = ReadBit(Whole(b), bits[p])
      BY <1>5, <3>1, <3>2
    <3>4. g[p] = Whole(b)
      BY <3>3 DEF ReadBit, Whole
    <3> QED BY <3>4 DEF p
  <2>3. Nat \subseteq B
    <3> HIDE DEF B
    <3> QED BY <2>1, <2>2, SetInduction
  <2>4. KeyBits - e \in Nat /\ e + (KeyBits - e) = KeyBits /\ KeyBits <= KeyBits
    BY <1>4, <2>0
  <2>5. KeyBits - e \in B
    BY <2>3, <2>4
  <2>6. g[e + (KeyBits - e)] = Whole(b)
    BY <2>4, <2>5 DEF e
  <2> QED BY <2>4, <2>6
<1>11. oldPositionFromKey(bits) = b
  BY <1>3, <1>10 DEF ReadBy, Whole
<1> QED BY <1>11 DEF PositionFromID, bits

---------------------------------------------------------------------------
(* The cube in a match ID.                                                 *)

\* What the values of a cube are: the provers compute powers of numbers alone.
LEMMA Doubling == \A i \in 0..30 : 2 ^ i \in Nat /\ 2 ^ i > 0 /\ 2 ^ (i + 1) = 2 * 2 ^ i
<1> SUFFICES ASSUME NEW i \in 0..30
             PROVE  2 ^ i \in Nat /\ 2 ^ i > 0 /\ 2 ^ (i + 1) = 2 * 2 ^ i
  OBVIOUS
<1>1. CASE i \in 0..7
  <2>1. /\ 2 ^ 0 \in Nat /\ 2 ^ 0 > 0 /\ 2 ^ 1 = 2 * 2 ^ 0
        /\ 2 ^ 1 \in Nat /\ 2 ^ 1 > 0 /\ 2 ^ 2 = 2 * 2 ^ 1
        /\ 2 ^ 2 \in Nat /\ 2 ^ 2 > 0 /\ 2 ^ 3 = 2 * 2 ^ 2
        /\ 2 ^ 3 \in Nat /\ 2 ^ 3 > 0 /\ 2 ^ 4 = 2 * 2 ^ 3
        /\ 2 ^ 4 \in Nat /\ 2 ^ 4 > 0 /\ 2 ^ 5 = 2 * 2 ^ 4
        /\ 2 ^ 5 \in Nat /\ 2 ^ 5 > 0 /\ 2 ^ 6 = 2 * 2 ^ 5
        /\ 2 ^ 6 \in Nat /\ 2 ^ 6 > 0 /\ 2 ^ 7 = 2 * 2 ^ 6
        /\ 2 ^ 7 \in Nat /\ 2 ^ 7 > 0 /\ 2 ^ 8 = 2 * 2 ^ 7
    BY SMT
  <2>2. \/ i = 0 /\ i + 1 = 1
        \/ i = 1 /\ i + 1 = 2
        \/ i = 2 /\ i + 1 = 3
        \/ i = 3 /\ i + 1 = 4
        \/ i = 4 /\ i + 1 = 5
        \/ i = 5 /\ i + 1 = 6
        \/ i = 6 /\ i + 1 = 7
        \/ i = 7 /\ i + 1 = 8
    BY <1>1
  <2> QED BY <2>1, <2>2
<1>2. CASE i \in 8..15
  <2>1. /\ 2 ^ 8 \in Nat /\ 2 ^ 8 > 0 /\ 2 ^ 9 = 2 * 2 ^ 8
        /\ 2 ^ 9 \in Nat /\ 2 ^ 9 > 0 /\ 2 ^ 10 = 2 * 2 ^ 9
        /\ 2 ^ 10 \in Nat /\ 2 ^ 10 > 0 /\ 2 ^ 11 = 2 * 2 ^ 10
        /\ 2 ^ 11 \in Nat /\ 2 ^ 11 > 0 /\ 2 ^ 12 = 2 * 2 ^ 11
        /\ 2 ^ 12 \in Nat /\ 2 ^ 12 > 0 /\ 2 ^ 13 = 2 * 2 ^ 12
        /\ 2 ^ 13 \in Nat /\ 2 ^ 13 > 0 /\ 2 ^ 14 = 2 * 2 ^ 13
        /\ 2 ^ 14 \in Nat /\ 2 ^ 14 > 0 /\ 2 ^ 15 = 2 * 2 ^ 14
        /\ 2 ^ 15 \in Nat /\ 2 ^ 15 > 0 /\ 2 ^ 16 = 2 * 2 ^ 15
    BY SMT
  <2>2. \/ i = 8 /\ i + 1 = 9
        \/ i = 9 /\ i + 1 = 10
        \/ i = 10 /\ i + 1 = 11
        \/ i = 11 /\ i + 1 = 12
        \/ i = 12 /\ i + 1 = 13
        \/ i = 13 /\ i + 1 = 14
        \/ i = 14 /\ i + 1 = 15
        \/ i = 15 /\ i + 1 = 16
    BY <1>2
  <2> QED BY <2>1, <2>2
<1>3. CASE i \in 16..23
  <2>1. /\ 2 ^ 16 \in Nat /\ 2 ^ 16 > 0 /\ 2 ^ 17 = 2 * 2 ^ 16
        /\ 2 ^ 17 \in Nat /\ 2 ^ 17 > 0 /\ 2 ^ 18 = 2 * 2 ^ 17
        /\ 2 ^ 18 \in Nat /\ 2 ^ 18 > 0 /\ 2 ^ 19 = 2 * 2 ^ 18
        /\ 2 ^ 19 \in Nat /\ 2 ^ 19 > 0 /\ 2 ^ 20 = 2 * 2 ^ 19
        /\ 2 ^ 20 \in Nat /\ 2 ^ 20 > 0 /\ 2 ^ 21 = 2 * 2 ^ 20
        /\ 2 ^ 21 \in Nat /\ 2 ^ 21 > 0 /\ 2 ^ 22 = 2 * 2 ^ 21
        /\ 2 ^ 22 \in Nat /\ 2 ^ 22 > 0 /\ 2 ^ 23 = 2 * 2 ^ 22
        /\ 2 ^ 23 \in Nat /\ 2 ^ 23 > 0 /\ 2 ^ 24 = 2 * 2 ^ 23
    BY SMT
  <2>2. \/ i = 16 /\ i + 1 = 17
        \/ i = 17 /\ i + 1 = 18
        \/ i = 18 /\ i + 1 = 19
        \/ i = 19 /\ i + 1 = 20
        \/ i = 20 /\ i + 1 = 21
        \/ i = 21 /\ i + 1 = 22
        \/ i = 22 /\ i + 1 = 23
        \/ i = 23 /\ i + 1 = 24
    BY <1>3
  <2> QED BY <2>1, <2>2
<1>4. CASE i \in 24..30
  <2>1. /\ 2 ^ 24 \in Nat /\ 2 ^ 24 > 0 /\ 2 ^ 25 = 2 * 2 ^ 24
        /\ 2 ^ 25 \in Nat /\ 2 ^ 25 > 0 /\ 2 ^ 26 = 2 * 2 ^ 25
        /\ 2 ^ 26 \in Nat /\ 2 ^ 26 > 0 /\ 2 ^ 27 = 2 * 2 ^ 26
        /\ 2 ^ 27 \in Nat /\ 2 ^ 27 > 0 /\ 2 ^ 28 = 2 * 2 ^ 27
        /\ 2 ^ 28 \in Nat /\ 2 ^ 28 > 0 /\ 2 ^ 29 = 2 * 2 ^ 28
        /\ 2 ^ 29 \in Nat /\ 2 ^ 29 > 0 /\ 2 ^ 30 = 2 * 2 ^ 29
        /\ 2 ^ 30 \in Nat /\ 2 ^ 30 > 0 /\ 2 ^ 31 = 2 * 2 ^ 30
    BY SMT
  <2>2. \/ i = 24 /\ i + 1 = 25
        \/ i = 25 /\ i + 1 = 26
        \/ i = 26 /\ i + 1 = 27
        \/ i = 27 /\ i + 1 = 28
        \/ i = 28 /\ i + 1 = 29
        \/ i = 29 /\ i + 1 = 30
        \/ i = 30 /\ i + 1 = 31
    BY <1>4
  <2> QED BY <2>1, <2>2
<1> QED BY <1>1, <1>2, <1>3, <1>4

\* Powers of two grow.
LEMMA Powers ==
  /\ \A i \in 0..31 : 2 ^ i \in Nat /\ 2 ^ i > 0
  /\ \A i, j \in 0..31 : i <= j => 2 ^ i <= 2 ^ j
<1>1. \A i \in 0..31 : 2 ^ i \in Nat /\ 2 ^ i > 0
  <2> SUFFICES ASSUME NEW i \in 0..31 PROVE 2 ^ i \in Nat /\ 2 ^ i > 0
    OBVIOUS
  <2>1. CASE i \in 0..30
    BY <2>1, Doubling
  <2>2. CASE i = 31
    <3>1. 2 ^ 31 \in Nat /\ 2 ^ 31 > 0
      BY SMT
    <3> QED BY <2>2, <3>1
  <2> QED BY <2>1, <2>2
<1> DEFINE A == {d \in Nat : \A i, j \in 0..31 : j = i + d => 2 ^ i <= 2 ^ j}
<1>2. 0 \in A
  <2> SUFFICES ASSUME NEW i \in 0..31 PROVE 2 ^ i <= 2 ^ (i + 0)
    OBVIOUS
  <2>1. 2 ^ i \in Nat
    BY <1>1
  <2>2. i + 0 = i
    OBVIOUS
  <2> QED BY <2>1, <2>2
<1>3. ASSUME NEW d \in Nat, d \in A PROVE d + 1 \in A
  <2> SUFFICES ASSUME NEW i \in 0..31, NEW j \in 0..31, j = i + (d + 1) PROVE 2 ^ i <= 2 ^ j
    OBVIOUS
  <2> DEFINE h == j - 1
  <2>1. h \in 0..30 /\ h \in 0..31 /\ h = i + d /\ h + 1 = j
    OBVIOUS
  <2> HIDE DEF h
  <2>2. 2 ^ i <= 2 ^ h
    BY <1>3, <2>1
  <2>3. 2 ^ i \in Nat /\ 2 ^ h \in Nat
    BY <1>1, <2>1
  <2>4. 2 ^ j = 2 * 2 ^ h
    BY <2>1, Doubling
  <2> QED BY <2>2, <2>3, <2>4
<1>4. Nat \subseteq A
  <2> HIDE DEF A
  <2> QED BY <1>2, <1>3, SetInduction
<1>5. ASSUME NEW i \in 0..31, NEW j \in 0..31, i <= j PROVE 2 ^ i <= 2 ^ j
  <2>1. j - i \in Nat /\ j = i + (j - i)
    BY <1>5
  <2>2. j - i \in A
    BY <1>4, <2>1
  <2> QED BY <2>1, <2>2
<1> QED BY <1>1, <1>5

\* The log of a cube is read as the cube (LogCube, MatchFromKey).
LEMMA LogOfPower ==
  ASSUME NEW i \in 0..15
  PROVE  LogCube(2 ^ i) = i
<1> DEFINE n == 2 ^ i
           L(j) == 2 ^ j <= n /\ n < 2 ^ (j + 1)
<1>1. i \in 0..30 /\ i \in 0..31 /\ n \in Nat
  <2>1. i \in 0..30 /\ i \in 0..31
    OBVIOUS
  <2> QED BY <2>1, Powers
<1>2. L(i)
  <2>1. 2 ^ (i + 1) = 2 * 2 ^ i /\ 2 ^ i > 0
    BY <1>1, Doubling
  <2> QED BY <1>1, <2>1
<1>3. ASSUME NEW j \in 0..30, L(j) PROVE j = i
  <2>1. j \in 0..31 /\ j + 1 \in 0..31 /\ i + 1 \in 0..31
    OBVIOUS
  <2>2. 2 ^ j \in Nat /\ 2 ^ (j + 1) \in Nat
    BY <2>1, Powers
  <2>3. CASE i < j
    <3>1. i + 1 <= j
      BY <2>3
    <3>2. 2 ^ (i + 1) <= 2 ^ j
      BY <2>1, <3>1, Powers
    <3>3. 2 ^ (i + 1) \in Nat
      BY <2>1, Powers
    <3> HIDE DEF n
    <3> QED BY <1>1, <1>2, <1>3, <2>2, <3>2, <3>3
  <2>4. CASE j < i
    <3>1. j + 1 <= i
      BY <2>4
    <3>2. 2 ^ (j + 1) <= n
      BY <1>1, <2>1, <3>1, Powers
    <3> HIDE DEF n
    <3> QED BY <1>1, <1>3, <2>2, <3>2
  <2> QED BY <2>3, <2>4
<1> HIDE DEF n
<1>4. (CHOOSE j \in 0..30 : L(j)) = i
  <2> HIDE DEF L
  <2> QED BY <1>1, <1>2, <1>3
<1> QED BY <1>4 DEF LogCube, n


---------------------------------------------------------------------------
(* Match states.                                                           *)

Games == {b \in Boards : CorrectNumberOfChequers(b)}

Matches ==
    [gs : 0..7, fMove : -1..1, fTurn : -1..1, anDice : Rolls, fDoubled : 0..1, fResigned : 0..3,
     fCubeOwner : -1..1, nCube : Cubes, fCrawford : 0..1, fPostCrawford : BOOLEAN,
     nMatchTo : 0..MaxScore, anScore : Scores, fJacoby : 0..1, fCubeUse : BOOLEAN,
     anBoard : Games]

OneAway(m) == \E p \in 0..1 : m.anScore[p] = m.nMatchTo - 1

\* No score is above the length, and money has no Crawford game.
Scored(m) ==
    IF m.nMatchTo > 0 THEN \A p \in 0..1 : m.anScore[p] <= m.nMatchTo ELSE m.fCrawford = 0

\* What is true of the match state whatever is set: somebody is on move in a game, a Crawford
\* game is one away and its cube is at 1, and the one after it is known by the score.
Sound(m) ==
    /\ m \in Matches
    /\ m.gs = GAME_PLAYING => m.fMove \in 0..1 /\ m.fTurn \in 0..1
    /\ m.fDoubled = 0 /\ m.fCubeUse /\ m.nCube <= MaxCube
    /\ Scored(m)
    /\ m.fCrawford = 1 => OneAway(m) /\ m.nMatchTo # 1 /\ m.nCube = 1
    /\ m.fPostCrawford = (m.fCrawford = 0 /\ OneAway(m))

\* The same but for the game's turn and what the record of one says is over.
Kept(r, m) ==
    /\ r.fMove = m.fMove /\ r.fTurn \in {m.fTurn, m.fMove}
    /\ r.nMatchTo = m.nMatchTo /\ r.anScore = m.anScore /\ r.fJacoby = m.fJacoby
    /\ r.fCubeUse = m.fCubeUse /\ r.fCrawford = m.fCrawford /\ r.fPostCrawford = m.fPostCrawford
    /\ r.fDoubled = 0 /\ r.fResigned \in {m.fResigned, 0}
    /\ m.gs = GAME_PLAYING => r.gs = GAME_PLAYING

(* A match state stays one with a field in its type written.                *)

LEMMA MoveKeeps == ASSUME NEW m \in Matches, NEW v \in -1..1 PROVE [m EXCEPT !.fMove = v] \in Matches
BY DEF Matches

LEMMA TurnKeeps == ASSUME NEW m \in Matches, NEW v \in -1..1 PROVE [m EXCEPT !.fTurn = v] \in Matches
BY DEF Matches

LEMMA DiceKeep == ASSUME NEW m \in Matches, NEW v \in Rolls PROVE [m EXCEPT !.anDice = v] \in Matches
BY DEF Matches

LEMMA OwnerKeeps == ASSUME NEW m \in Matches, NEW v \in -1..1 PROVE [m EXCEPT !.fCubeOwner = v] \in Matches
BY DEF Matches

LEMMA CubeKeeps == ASSUME NEW m \in Matches, NEW v \in Cubes PROVE [m EXCEPT !.nCube = v] \in Matches
BY DEF Matches

LEMMA BoardKeeps == ASSUME NEW m \in Matches, NEW v \in Games PROVE [m EXCEPT !.anBoard = v] \in Matches
BY DEF Matches

LEMMA NotDoubled == ASSUME NEW m \in Matches PROVE [m EXCEPT !.fDoubled = 0] \in Matches
BY DEF Matches

\* A record that says that a game is on keeps a match state one.
LEMMA OnKeeps == ASSUME NEW m \in Matches PROVE On(m) \in Matches
<1> DEFINE played == [m EXCEPT !.gs = GAME_PLAYING]
<1>1. played \in Matches
  BY DEF Matches, GAME_PLAYING
<1>2. On(m) = [played EXCEPT !.fResigned = 0]
  BY DEF On
<1> HIDE DEF played
<1>3. [played EXCEPT !.fResigned = 0] \in Matches
  BY <1>1 DEF Matches
<1> QED BY <1>2, <1>3

\* The turn is given to the mover.
LEMMA TurnGiven ==
  ASSUME NEW m \in Matches, NEW p \in 0..1
  PROVE  [m EXCEPT !.fMove = p, !.fTurn = p] \in Matches
<1> DEFINE moved == [m EXCEPT !.fMove = p]
<1>1. p \in -1..1
  OBVIOUS
<1>2. moved \in Matches
  BY <1>1, MoveKeeps
<1> HIDE DEF moved
<1>3. [moved EXCEPT !.fTurn = p] \in Matches
  BY <1>1, <1>2, TurnKeeps
<1> QED BY <1>3 DEF moved

\* A record of dice: a game is on, and the mover is on turn.
LEMMA SetDiceFields ==
  ASSUME NEW m \in Matches, NEW d \in Rolls, m.fMove \in 0..1, m.fDoubled = 0
  PROVE  LET r == SetDice(m, d) IN
         /\ r \in Matches /\ Kept(r, m) /\ r.gs = GAME_PLAYING /\ r.anDice = d /\ r.fTurn = m.fMove
         /\ r.fCubeOwner = m.fCubeOwner /\ r.nCube = m.nCube /\ r.anBoard = m.anBoard
<1> DEFINE on     == On(m)
           diced  == [on EXCEPT !.anDice = d]
           turned == [diced EXCEPT !.fTurn = m.fMove]
<1>1. SetDice(m, d) = [turned EXCEPT !.fDoubled = 0]
  BY DEF SetDice
<1>2. on \in Matches
  BY OnKeeps
<1> HIDE DEF on
<1>3. diced \in Matches
  BY <1>2, DiceKeep
<1>4. m.fMove \in -1..1
  BY DEF Matches
<1> HIDE DEF diced
<1>5. turned \in Matches
  BY <1>3, <1>4, TurnKeeps
<1> HIDE DEF turned
<1>6. SetDice(m, d) \in Matches
  BY <1>1, <1>5, NotDoubled
<1>7. LET r == SetDice(m, d) IN
      /\ Kept(r, m) /\ r.gs = GAME_PLAYING /\ r.anDice = d /\ r.fTurn = m.fMove
      /\ r.fCubeOwner = m.fCubeOwner /\ r.nCube = m.nCube /\ r.anBoard = m.anBoard
  BY DEF SetDice, On, Kept, Matches, GAME_PLAYING
<1> QED BY <1>6, <1>7

\* A record of the cube's owner.
LEMMA SetCubePosFields ==
  ASSUME NEW m \in Matches, NEW o \in -1..1, m.fMove \in 0..1, m.fDoubled = 0
  PROVE  LET r == SetCubePos(m, o) IN
         /\ r \in Matches /\ Kept(r, m) /\ r.gs = GAME_PLAYING /\ r.fCubeOwner = o /\ r.fTurn = m.fMove
         /\ r.anDice = m.anDice /\ r.nCube = m.nCube /\ r.anBoard = m.anBoard
<1> DEFINE on      == On(m)
           owned   == [on EXCEPT !.fCubeOwner = o]
           settled == [owned EXCEPT !.fDoubled = 0]
<1>1. MoverOf(m) = m.fMove
  BY DEF MoverOf
<1>2. SetCubePos(m, o) = [settled EXCEPT !.fMove = m.fMove, !.fTurn = m.fMove]
  BY <1>1 DEF SetCubePos
<1>3. on \in Matches
  BY OnKeeps
<1> HIDE DEF on
<1>4. owned \in Matches
  BY <1>3, OwnerKeeps
<1> HIDE DEF owned
<1>5. settled \in Matches
  BY <1>4, NotDoubled
<1> HIDE DEF settled
<1>6. SetCubePos(m, o) \in Matches
  BY <1>2, <1>5, TurnGiven
<1>7. LET r == SetCubePos(m, o) IN
      /\ Kept(r, m) /\ r.gs = GAME_PLAYING /\ r.fCubeOwner = o /\ r.fTurn = m.fMove
      /\ r.anDice = m.anDice /\ r.nCube = m.nCube /\ r.anBoard = m.anBoard
  BY <1>1 DEF SetCubePos, On, Kept, Matches, GAME_PLAYING
<1> QED BY <1>6, <1>7

\* A record of the cube's value, made if a cube may be used and is not too high.
LEMMA SetCubeValueFields ==
  ASSUME NEW m \in Matches, NEW n \in Cubes, m.fMove \in 0..1, m.fDoubled = 0, m.fCubeUse
  PROVE  LET r == SetCubeValue(m, n) IN
         /\ r \in Matches /\ Kept(r, m) /\ r.gs = m.gs /\ r.fCubeOwner = m.fCubeOwner
         /\ r.anDice = m.anDice /\ r.anBoard = m.anBoard
         /\ r.nCube = IF m.gs = GAME_PLAYING /\ m.fCrawford = 0 /\ n <= MaxCube THEN n ELSE m.nCube
<1>1. MoverOf(m) = m.fMove
  BY DEF MoverOf
<1>2. CASE CheckCubeAllowed(m) /\ n <= MaxCube
  <2> DEFINE on      == On(m)
             cubed   == [on EXCEPT !.nCube = n]
             settled == [cubed EXCEPT !.fDoubled = 0]
  <2>1. SetCubeValue(m, n) = [settled EXCEPT !.fMove = m.fMove, !.fTurn = m.fMove]
    BY <1>1, <1>2 DEF SetCubeValue
  <2>2. on \in Matches
    BY OnKeeps
  <2> HIDE DEF on
  <2>3. cubed \in Matches
    BY <2>2, CubeKeeps
  <2> HIDE DEF cubed
  <2>4. settled \in Matches
    BY <2>3, NotDoubled
  <2> HIDE DEF settled
  <2>5. SetCubeValue(m, n) \in Matches
    BY <2>1, <2>4, TurnGiven
  <2>6. SetCubeValue(m, n) =
          [On(m) EXCEPT !.nCube = n, !.fDoubled = 0, !.fMove = m.fMove, !.fTurn = m.fMove]
    BY <1>1, <1>2 DEF SetCubeValue
  <2>7. m.gs = GAME_PLAYING /\ m.fCrawford = 0 /\ n <= MaxCube
    BY <1>2 DEF CheckCubeAllowed
  <2> DEFINE r == SetCubeValue(m, n)
  <2> HIDE DEF r
  <2>8. /\ Kept(r, m) /\ r.gs = GAME_PLAYING /\ r.fCubeOwner = m.fCubeOwner
        /\ r.anDice = m.anDice /\ r.anBoard = m.anBoard /\ r.nCube = n
    BY <2>6 DEF r, On, Kept, Matches, GAME_PLAYING
  <2> QED BY <2>5, <2>7, <2>8 DEF r
<1>3. CASE ~(CheckCubeAllowed(m) /\ n <= MaxCube)
  <2>1. SetCubeValue(m, n) = m
    BY <1>3 DEF SetCubeValue
  <2>2. ~(m.gs = GAME_PLAYING /\ m.fCrawford = 0 /\ n <= MaxCube)
    BY <1>3 DEF CheckCubeAllowed
  <2> QED BY <2>1, <2>2 DEF Kept
<1> QED BY <1>2, <1>3

\* Turned round twice a board is itself, and neither side's number changes.
LEMMA TurnedRound ==
  ASSUME NEW b \in Boards
  PROVE  /\ SwapSides(b) \in Boards /\ SwapSides(SwapSides(b)) = b
         /\ CorrectNumberOfChequers(SwapSides(b)) <=> CorrectNumberOfChequers(b)
<1> DEFINE w == SwapSides(b)
<1>1. /\ b \in [0..1 -> [Slots -> Nat]]
      /\ w = [s \in 0..1 |-> b[1 - s]] /\ w[0] = b[1] /\ w[1] = b[0]
  BY DEF SwapSides, Boards
<1>2. w \in [0..1 -> [Slots -> Nat]]
  BY <1>1
<1>3. SwapSides(w) = b
  <2>1. SwapSides(w) = [s \in 0..1 |-> w[1 - s]]
    BY DEF SwapSides
  <2> HIDE DEF w
  <2>2. \A s \in 0..1 : w[1 - s] = b[s]
    BY <1>1
  <2> QED BY <1>1, <2>1, <2>2
<1>4. CorrectNumberOfChequers(w) <=> CorrectNumberOfChequers(b)
  <2> HIDE DEF w
  <2>1. \A h : CorrectNumberOfChequers(h) <=> Chequers(h[0]) <= NChequers /\ Chequers(h[1]) <= NChequers
    BY DEF CorrectNumberOfChequers
  <2> QED BY <1>1, <2>1
<1> QED BY <1>2, <1>3, <1>4 DEF Boards

\* A board is taken as it is in the ID, in a game, if neither side has too many chequers.
LEMMA SetBoardFields ==
  ASSUME NEW m \in Matches, NEW id, DOMAIN id = 1..KeyBits, m.fDoubled = 0,
         m.gs = GAME_PLAYING => m.fMove \in 0..1
  PROVE  LET r == SetBoard(m, id)
             b == PositionFromID(id).board
         IN  /\ r \in Matches /\ Kept(r, m) /\ r.gs = m.gs /\ r.fTurn = m.fTurn /\ r.anDice = m.anDice
             /\ r.fCubeOwner = m.fCubeOwner /\ r.nCube = m.nCube
             /\ r.anBoard = IF m.gs = GAME_PLAYING /\ CorrectNumberOfChequers(b) THEN b ELSE m.anBoard
<1> DEFINE r == SetBoard(m, id)
           b == PositionFromID(id).board
           w == IF m.fMove = 1 THEN SwapSides(b) ELSE b
<1>1. PositionFromID(id).rc \in 0..1 /\ b \in Boards
  BY ReadsABoard DEF PositionFromID
<1>2. CASE ~(m.gs = GAME_PLAYING /\ CorrectNumberOfChequers(b))
  <2>1. r = m
    BY <1>1, <1>2 DEF SetBoard
  <2> HIDE DEF r, b
  <2> QED BY <1>2, <2>1 DEF Kept, r, b
<1>3. CASE m.gs = GAME_PLAYING /\ CorrectNumberOfChequers(b)
  <2>1. r = SetBoardRecord(m, w)
    <3>1. ~(PositionFromID(id).rc < 0)
      BY <1>1
    <3> QED BY <1>3, <3>1 DEF SetBoard
  <2>2. (IF m.fMove = 1 THEN SwapSides(w) ELSE w) = b /\ b \in Games
    BY <1>1, <1>3, TurnedRound DEF Games
  <2> HIDE DEF w, b
  <2>3. /\ r = [On(m) EXCEPT !.anBoard = b, !.fMove = m.fMove, !.fTurn = m.fTurn]
    <3>1. m.fMove \in 0..1 /\ ~(m.fMove < 0) /\ MoverOf(m) = m.fMove
      BY <1>3 DEF MoverOf
    <3>2. On(m).fTurn = m.fTurn
      BY DEF On, Matches
    <3> QED BY <2>1, <2>2, <3>1, <3>2 DEF SetBoardRecord
  <2>4. r \in Matches
    <3> DEFINE on    == On(m)
               taken == [on EXCEPT !.anBoard = b]
               moved == [taken EXCEPT !.fMove = m.fMove]
    <3>1. r = [moved EXCEPT !.fTurn = m.fTurn]
      BY <2>3
    <3>2. on \in Matches
      BY OnKeeps
    <3>3. m.fMove \in -1..1 /\ m.fTurn \in -1..1
      BY DEF Matches
    <3> HIDE DEF on
    <3>4. taken \in Matches
      BY <2>2, <3>2, BoardKeeps
    <3> HIDE DEF taken
    <3>5. moved \in Matches
      BY <3>3, <3>4, MoveKeeps
    <3> HIDE DEF moved, r
    <3> QED BY <3>1, <3>3, <3>5, TurnKeeps
  <2> HIDE DEF r
  <2>5. Kept(r, m) /\ r.gs = m.gs /\ r.fTurn = m.fTurn /\ r.anDice = m.anDice
    BY <1>3, <2>2, <2>3 DEF On, Kept, Matches, GAME_PLAYING
  <2>6. r.fCubeOwner = m.fCubeOwner /\ r.nCube = m.nCube /\ r.anBoard = b
    BY <1>3, <2>2, <2>3 DEF On, Matches
  <2> QED BY <1>3, <2>4, <2>5, <2>6 DEF r, b
<1> QED BY <1>2, <1>3

---------------------------------------------------------------------------
(* Match IDs.                                                              *)

\* What a valid match ID holds (MatchFromKey and its check).
LEMMA KeyRead ==
  ASSUME NEW id \in MatchIDs, MatchFromID(id).rc = 0
  PROVE  LET k == MatchFromID(id).key IN
         /\ k.nCube = 2 ^ id.nCube /\ k.nCube \in Cubes
         /\ k.fCubeOwner \in -1..1 /\ k.fCubeOwner = IF id.fCubeOwner \in 0..1 THEN id.fCubeOwner ELSE -1
         /\ k.fMove = id.fMove /\ id.fMove \in 0..1 /\ k.fCrawford = id.fCrawford /\ id.fCrawford \in 0..1
         /\ k.gs = id.gs /\ id.gs \in 0..7 /\ k.fTurn = id.fTurn /\ id.fTurn \in 0..1
         /\ k.fDoubled = id.fDoubled /\ id.fDoubled \in 0..1
         /\ k.fResigned = id.fResigned /\ id.fResigned \in 0..3
         /\ k.anDice = id.anDice /\ id.anDice \in Rolls
         /\ k.nMatchTo = id.nMatchTo /\ id.nMatchTo \in 0..MaxScore
         /\ k.anScore = id.anScore /\ id.anScore \in Scores
         /\ k.fJacoby = id.fJacoby /\ id.fJacoby \in 0..1
         /\ IF id.nMatchTo > 0 THEN \A p \in 0..1 : id.anScore[p] <= id.nMatchTo ELSE id.fCrawford = 0
<1> DEFINE k == MatchFromID(id).key
<1>1. k = [id EXCEPT !.nCube = 2 ^ @, !.fCubeOwner = IF @ \in 0..1 THEN @ ELSE -1]
  BY DEF MatchFromID
<1>2. /\ \A i \in 1..2 : id.anDice[i] <= 6
      /\ id.nMatchTo <= MaxScore
      /\ IF id.nMatchTo > 0 THEN \A p \in 0..1 : id.anScore[p] <= id.nMatchTo ELSE id.fCrawford = 0
  BY DEF MatchFromID
<1> HIDE DEF k
<1>3. /\ k.nCube = 2 ^ id.nCube
      /\ k.fCubeOwner = IF id.fCubeOwner \in 0..1 THEN id.fCubeOwner ELSE -1
      /\ k.fMove = id.fMove /\ k.fCrawford = id.fCrawford /\ k.gs = id.gs /\ k.fTurn = id.fTurn
      /\ k.fDoubled = id.fDoubled /\ k.fResigned = id.fResigned /\ k.anDice = id.anDice
      /\ k.nMatchTo = id.nMatchTo /\ k.anScore = id.anScore /\ k.fJacoby = id.fJacoby
  BY <1>1 DEF MatchIDs
<1>4. /\ id.nCube \in 0..15 /\ id.fCubeOwner \in 0..3 /\ id.fMove \in 0..1 /\ id.fCrawford \in 0..1
      /\ id.gs \in 0..7 /\ id.fTurn \in 0..1 /\ id.fDoubled \in 0..1 /\ id.fResigned \in 0..3
      /\ id.anDice \in [1..2 -> 0..7] /\ id.nMatchTo \in 0 .. 2 ^ 15 - 1 /\ id.anScore \in Scores
      /\ id.fJacoby \in 0..1
  BY DEF MatchIDs
<1>5. k.nCube \in Cubes
  BY <1>3, <1>4 DEF Cubes
<1>6. k.fCubeOwner \in -1..1
  BY <1>3
<1>7. id.anDice \in Rolls
  BY <1>2, <1>4 DEF Rolls
<1>8. id.nMatchTo \in 0..MaxScore
  <2>1. id.nMatchTo \in Nat
    BY <1>4
  <2> QED BY <1>2, <2>1, SetupAssumption
<1> QED BY <1>2, <1>3, <1>4, <1>5, <1>6, <1>7, <1>8 DEF k

\* A match state is what its fields are.
Fields == {"gs", "fMove", "fTurn", "anDice", "fDoubled", "fResigned", "fCubeOwner", "nCube",
           "fCrawford", "fPostCrawford", "nMatchTo", "anScore", "fJacoby", "fCubeUse", "anBoard"}

LEMMA FieldsOfMatch == ASSUME NEW m \in Matches PROVE m = [f \in Fields |-> m[f]]
BY DEF Matches, Fields

\* What has the fields of a match state, each in its type, is one.
LEMMA MatchOfFields ==
  ASSUME NEW r, r = [f \in Fields |-> r[f]],
         r.gs \in 0..7, r.fMove \in -1..1, r.fTurn \in -1..1, r.anDice \in Rolls,
         r.fDoubled \in 0..1, r.fResigned \in 0..3, r.fCubeOwner \in -1..1, r.nCube \in Cubes,
         r.fCrawford \in 0..1, r.fPostCrawford \in BOOLEAN, r.nMatchTo \in 0..MaxScore,
         r.anScore \in Scores, r.fJacoby \in 0..1, r.fCubeUse \in BOOLEAN, r.anBoard \in Games
  PROVE  r \in Matches
BY DEF Matches, Fields

\* Where a valid match ID puts the match before the dice, the cube and the board are set.
MoverRead(id)    == IF id.fDoubled = 1 THEN 1 - id.fTurn ELSE id.fMove
TurnRead(id)     == IF id.fDoubled = 1 THEN 1 - id.fTurn ELSE id.fTurn
CrawfordRead(id) == IF OneAway(id) /\ id.nMatchTo # 1 THEN id.fCrawford ELSE 0
OwnerRead(id)    == IF id.fCubeOwner \in 0..1 THEN id.fCubeOwner ELSE -1

Begun(m, id) ==
    [m EXCEPT !.nMatchTo = id.nMatchTo, !.anScore = id.anScore, !.fCrawford = CrawfordRead(id),
              !.fPostCrawford = CrawfordRead(id) = 0 /\ OneAway(id), !.anBoard = InitialBoard,
              !.fCubeOwner = -1, !.nCube = 1, !.anDice = <<0, 0>>,
              !.gs = id.gs, !.fMove = MoverRead(id), !.fTurn = TurnRead(id),
              !.fResigned = id.fResigned, !.fDoubled = 0, !.fJacoby = id.fJacoby]

\* The match as it begins, before the records that follow.
LEMMA BegunFields ==
  ASSUME NEW m \in Matches, NEW id \in MatchIDs, MatchFromID(id).rc = 0
  PROVE  LET r == Begun(m, id) IN
         /\ r \in Matches
         /\ r.gs = id.gs /\ r.fMove = MoverRead(id) /\ r.fTurn = TurnRead(id)
         /\ r.fMove \in 0..1 /\ r.fTurn \in 0..1 /\ r.fDoubled = 0 /\ r.fResigned = id.fResigned
         /\ r.nMatchTo = id.nMatchTo /\ r.anScore = id.anScore /\ r.fJacoby = id.fJacoby
         /\ r.fCrawford = CrawfordRead(id) /\ r.fPostCrawford = (CrawfordRead(id) = 0 /\ OneAway(id))
         /\ r.fCubeOwner = -1 /\ r.nCube = 1 /\ r.anDice = <<0, 0>> /\ r.anBoard = InitialBoard
         /\ r.fCubeUse = m.fCubeUse
<1> DEFINE r == Begun(m, id)
<1>1. /\ MoverRead(id) \in 0..1 /\ TurnRead(id) \in 0..1
      /\ CrawfordRead(id) \in 0..1 /\ id.gs \in 0..7
      /\ id.fResigned \in 0..3 /\ id.nMatchTo \in 0..MaxScore
      /\ id.anScore \in Scores /\ id.fJacoby \in 0..1
  BY KeyRead DEF MoverRead, TurnRead, CrawfordRead
<1>2. InitialBoard \in Games
  BY SetupAssumption DEF Games, CheckPosition
<1>3. <<0, 0>> \in Rolls
  BY DEF Rolls
<1>4. 1 \in Cubes
  BY DEF Cubes
<1>5. m.fCubeUse \in BOOLEAN /\ (CrawfordRead(id) = 0 /\ OneAway(id)) \in BOOLEAN
  BY DEF Matches
<1>6. /\ r.gs = id.gs /\ r.fMove = MoverRead(id) /\ r.fTurn = TurnRead(id)
      /\ r.fDoubled = 0 /\ r.fResigned = id.fResigned
      /\ r.nMatchTo = id.nMatchTo /\ r.anScore = id.anScore /\ r.fJacoby = id.fJacoby
      /\ r.fCrawford = CrawfordRead(id) /\ r.fPostCrawford = (CrawfordRead(id) = 0 /\ OneAway(id))
      /\ r.fCubeOwner = -1 /\ r.nCube = 1 /\ r.anDice = <<0, 0>> /\ r.anBoard = InitialBoard
      /\ r.fCubeUse = m.fCubeUse
  BY DEF Begun, Matches
<1>7. r = [f \in Fields |-> r[f]]
  <2>1. m = [f \in Fields |-> m[f]]
    BY FieldsOfMatch
  <2> QED BY <2>1, Zenon DEF Begun
<1>8. r \in Matches
  <2>1. r.fMove \in -1..1 /\ r.fTurn \in -1..1 /\ r.fDoubled \in 0..1 /\ r.fCubeOwner \in -1..1
    BY <1>1, <1>6
  <2> HIDE DEF r
  <2> QED BY <1>1, <1>2, <1>3, <1>4, <1>5, <1>6, <1>7, <2>1, MatchOfFields
<1> QED BY <1>1, <1>6, <1>8

---------------------------------------------------------------------------
(* SetMatchID, record by record.                                           *)

DiceRead(id) == IF id.anDice[1] > 0 THEN id.anDice ELSE <<0, 0>>

\* A record of dice or of the cube's owner says that a game is on.
GameRead(id) == IF id.anDice[1] > 0 \/ id.fCubeOwner \in 0..1 THEN GAME_PLAYING ELSE id.gs

CubeRead(id) ==
    IF GameRead(id) = GAME_PLAYING /\ CrawfordRead(id) = 0 /\ 2 ^ id.nCube <= MaxCube
    THEN 2 ^ id.nCube ELSE 1

Diced(m, id) == IF id.anDice[1] > 0 THEN SetDice(Begun(m, id), id.anDice) ELSE Begun(m, id)
Owned(m, id) == IF OwnerRead(id) # -1 THEN SetCubePos(Diced(m, id), OwnerRead(id)) ELSE Diced(m, id)
Cubed(m, id) == IF 2 ^ id.nCube # 1 THEN SetCubeValue(Owned(m, id), 2 ^ id.nCube) ELSE Owned(m, id)

\* SetMatchID is these steps.
LEMMA SetMatchIDSteps ==
  ASSUME NEW m \in Matches, NEW id \in MatchIDs, MatchFromID(id).rc = 0
  PROVE  SetMatchID(m, id) = IF m.gs = GAME_PLAYING
                             THEN SetBoard(Cubed(m, id), PositionID(m.anBoard)) ELSE Cubed(m, id)
<1> DEFINE k == MatchFromID(id).key
           turn   == IF k.fDoubled = 1 THEN 1 - k.fTurn ELSE k.fTurn
           oneAway == \E p \in 0..1 : k.anScore[p] = k.nMatchTo - 1
           craw   == IF oneAway /\ k.nMatchTo # 1 THEN k.fCrawford ELSE 0
           begun  == [m EXCEPT !.nMatchTo = k.nMatchTo, !.anScore = k.anScore, !.fCrawford = craw,
                            !.fPostCrawford = craw = 0 /\ oneAway, !.anBoard = InitialBoard,
                            !.fCubeOwner = -1, !.nCube = 1, !.anDice = <<0, 0>>,
                            !.gs = k.gs, !.fMove = IF k.fDoubled = 1 THEN turn ELSE k.fMove,
                            !.fTurn = turn, !.fResigned = k.fResigned, !.fDoubled = 0,
                            !.fJacoby = k.fJacoby]
           diced  == IF k.anDice[1] > 0 THEN SetDice(begun, k.anDice) ELSE begun
           owned  == IF k.fCubeOwner # -1 THEN SetCubePos(diced, k.fCubeOwner) ELSE diced
           cubed  == IF k.nCube # 1 THEN SetCubeValue(owned, k.nCube) ELSE owned
<1>1. SetMatchID(m, id) = IF m.gs = GAME_PLAYING THEN SetBoard(cubed, PositionID(m.anBoard)) ELSE cubed
  <2>1. ~(MatchFromID(id).rc < 0)
    OBVIOUS
  <2> QED BY <2>1, Zenon DEF SetMatchID
<1>2. /\ k.nCube = 2 ^ id.nCube /\ k.fCubeOwner = OwnerRead(id)
      /\ k.fMove = id.fMove /\ k.fCrawford = id.fCrawford /\ k.gs = id.gs /\ k.fTurn = id.fTurn
      /\ k.fDoubled = id.fDoubled /\ k.fResigned = id.fResigned /\ k.anDice = id.anDice
      /\ k.nMatchTo = id.nMatchTo /\ k.anScore = id.anScore /\ k.fJacoby = id.fJacoby
  BY KeyRead DEF OwnerRead
<1> HIDE DEF k
<1>3. turn = TurnRead(id) /\ (IF k.fDoubled = 1 THEN turn ELSE k.fMove) = MoverRead(id)
  BY <1>2 DEF TurnRead, MoverRead
<1>4. oneAway = OneAway(id)
  BY <1>2 DEF OneAway
<1> HIDE DEF turn, oneAway
<1>5. craw = CrawfordRead(id)
  BY <1>2, <1>4 DEF CrawfordRead
<1> HIDE DEF craw
<1>6. begun = Begun(m, id)
  BY <1>2, <1>3, <1>4, <1>5, Zenon DEF Begun
<1> HIDE DEF begun
<1>7. diced = Diced(m, id)
  BY <1>2, <1>6, Zenon DEF Diced
<1> HIDE DEF diced
<1>8. owned = Owned(m, id)
  BY <1>2, <1>7, Zenon DEF Owned
<1> HIDE DEF owned
<1>9. cubed = Cubed(m, id)
  BY <1>2, <1>8, Zenon DEF Cubed
<1> HIDE DEF cubed
<1> QED BY <1>1, <1>9

\* What two records keep they keep together.
LEMMA KeptStill ==
  ASSUME NEW m, NEW r, NEW s, Kept(r, m), Kept(s, r)
  PROVE  Kept(s, m)
BY DEF Kept

LEMMA KeptSelf == ASSUME NEW m, m.fDoubled = 0 PROVE Kept(m, m)
BY DEF Kept

\* The match after the records of the dice and of the cube.
LEMMA CubedFields ==
  ASSUME NEW m \in Matches, m.fCubeUse, NEW id \in MatchIDs, MatchFromID(id).rc = 0
  PROVE  LET r == Cubed(m, id) IN
         /\ r \in Matches /\ Kept(r, Begun(m, id)) /\ r.gs = GameRead(id) /\ r.anDice = DiceRead(id)
         /\ r.fCubeOwner = OwnerRead(id) /\ r.nCube = CubeRead(id) /\ r.anBoard = InitialBoard
<1> DEFINE b == Begun(m, id)
           d == Diced(m, id)
           o == Owned(m, id)
           c == Cubed(m, id)
           n == 2 ^ id.nCube
<1>1. /\ b \in Matches /\ Kept(b, b) /\ b.gs = id.gs /\ b.fMove \in 0..1 /\ b.fDoubled = 0 /\ b.fCubeUse
      /\ b.fCubeOwner = -1 /\ b.nCube = 1 /\ b.anDice = <<0, 0>> /\ b.anBoard = InitialBoard
      /\ b.fCrawford = CrawfordRead(id)
  BY BegunFields, KeptSelf
<1>2. id.anDice \in Rolls /\ OwnerRead(id) \in -1..1 /\ n \in Cubes
  BY KeyRead DEF OwnerRead
<1>3. d = IF id.anDice[1] > 0 THEN SetDice(b, id.anDice) ELSE b
  BY DEF Diced
<1>4. o = IF OwnerRead(id) # -1 THEN SetCubePos(d, OwnerRead(id)) ELSE d
  BY DEF Owned
<1>5. c = IF n # 1 THEN SetCubeValue(o, n) ELSE o
  BY DEF Cubed
<1> HIDE DEF b, d, o, c, n
<1>6. /\ d \in Matches /\ Kept(d, b) /\ d.gs = (IF id.anDice[1] > 0 THEN GAME_PLAYING ELSE id.gs)
      /\ d.anDice = DiceRead(id) /\ d.fCubeOwner = -1 /\ d.nCube = 1 /\ d.anBoard = InitialBoard
  <2>1. CASE id.anDice[1] > 0
    <3>1. d = SetDice(b, id.anDice)
      BY <1>3, <2>1
    <3> QED BY <1>1, <1>2, <2>1, <3>1, SetDiceFields DEF DiceRead
  <2>2. CASE ~(id.anDice[1] > 0)
    BY <1>1, <1>3, <2>2 DEF DiceRead
  <2> QED BY <2>1, <2>2
<1>7. d.fMove \in 0..1 /\ d.fDoubled = 0
  BY <1>1, <1>6 DEF Kept
<1>8. /\ o \in Matches /\ Kept(o, b) /\ o.gs = GameRead(id)
      /\ o.anDice = DiceRead(id) /\ o.fCubeOwner = OwnerRead(id) /\ o.nCube = 1 /\ o.anBoard = InitialBoard
  <2>1. CASE OwnerRead(id) # -1
    <3>1. o = SetCubePos(d, OwnerRead(id)) /\ id.fCubeOwner \in 0..1
      BY <1>4, <2>1 DEF OwnerRead
    <3>2. /\ o \in Matches /\ Kept(o, d) /\ o.gs = GAME_PLAYING /\ o.fCubeOwner = OwnerRead(id)
          /\ o.anDice = d.anDice /\ o.nCube = d.nCube /\ o.anBoard = d.anBoard
      BY <1>2, <1>6, <1>7, <3>1, SetCubePosFields
    <3>3. Kept(o, b)
      BY <1>6, <3>2, KeptStill
    <3> QED BY <1>6, <3>1, <3>2, <3>3 DEF GameRead
  <2>2. CASE OwnerRead(id) = -1
    <3>1. o = d /\ id.fCubeOwner \notin 0..1
      BY <1>4, <2>2 DEF OwnerRead
    <3> QED BY <1>6, <2>2, <3>1 DEF GameRead
  <2> QED BY <2>1, <2>2
<1>9. o.fMove \in 0..1 /\ o.fDoubled = 0 /\ o.fCubeUse /\ o.fCrawford = CrawfordRead(id)
  BY <1>1, <1>8 DEF Kept
<1>10. CASE n # 1
  <2>1. c = SetCubeValue(o, n)
    BY <1>5, <1>10
  <2>2. /\ c \in Matches /\ Kept(c, o) /\ c.gs = o.gs /\ c.fCubeOwner = o.fCubeOwner
        /\ c.anDice = o.anDice /\ c.anBoard = o.anBoard
        /\ c.nCube = IF o.gs = GAME_PLAYING /\ o.fCrawford = 0 /\ n <= MaxCube THEN n ELSE o.nCube
    BY <1>2, <1>8, <1>9, <2>1, SetCubeValueFields
  <2>3. Kept(c, b)
    BY <1>8, <2>2, KeptStill
  <2>4. c.nCube = CubeRead(id)
    BY <1>8, <1>9, <2>2 DEF CubeRead, n
  <2> QED BY <1>8, <2>2, <2>3, <2>4 DEF b, c
<1>11. CASE n = 1
  <2>1. c = o
    BY <1>5, <1>11
  <2>2. CubeRead(id) = 1
    BY <1>11 DEF CubeRead, n
  <2> QED BY <1>8, <2>1, <2>2 DEF b, c
<1> QED BY <1>10, <1>11

\* A match ID set: the game, the mover, the dice, the score and the cube it says, and the board
\* there was if a game was on and is, the one a match begins with if not.
LEMMA SetMatchIDFields ==
  ASSUME NEW m \in Matches, m.fCubeUse, NEW id \in MatchIDs, MatchFromID(id).rc = 0
  PROVE  LET r == SetMatchID(m, id) IN
         /\ r \in Matches /\ r.gs = GameRead(id) /\ r.fMove = MoverRead(id)
         /\ r.fTurn \in {TurnRead(id), MoverRead(id)} /\ r.fMove \in 0..1 /\ r.fTurn \in 0..1
         /\ r.anDice = DiceRead(id) /\ r.fDoubled = 0 /\ r.fResigned \in {id.fResigned, 0}
         /\ r.nMatchTo = id.nMatchTo /\ r.anScore = id.anScore /\ r.fJacoby = id.fJacoby
         /\ r.fCrawford = CrawfordRead(id) /\ r.fPostCrawford = (CrawfordRead(id) = 0 /\ OneAway(id))
         /\ r.fCubeOwner = OwnerRead(id) /\ r.nCube = CubeRead(id) /\ r.fCubeUse
         /\ r.anBoard = IF m.gs = GAME_PLAYING /\ r.gs = GAME_PLAYING THEN m.anBoard ELSE InitialBoard
<1> DEFINE b == Begun(m, id)
           c == Cubed(m, id)
           r == SetMatchID(m, id)
           p == PositionID(m.anBoard)
<1>1. /\ b.fMove = MoverRead(id) /\ b.fTurn = TurnRead(id) /\ b.fMove \in 0..1 /\ b.fTurn \in 0..1
      /\ b.fResigned = id.fResigned
      /\ b.nMatchTo = id.nMatchTo /\ b.anScore = id.anScore /\ b.fJacoby = id.fJacoby
      /\ b.fCrawford = CrawfordRead(id) /\ b.fPostCrawford = (CrawfordRead(id) = 0 /\ OneAway(id))
      /\ b.fCubeUse
  BY BegunFields
<1>2. /\ c \in Matches /\ Kept(c, b) /\ c.gs = GameRead(id) /\ c.anDice = DiceRead(id)
      /\ c.fCubeOwner = OwnerRead(id) /\ c.nCube = CubeRead(id) /\ c.anBoard = InitialBoard
  BY CubedFields
<1>3. r = IF m.gs = GAME_PLAYING THEN SetBoard(c, p) ELSE c
  BY SetMatchIDSteps
<1>4. DOMAIN p = 1..KeyBits /\ PositionFromID(p).board = m.anBoard /\ CorrectNumberOfChequers(m.anBoard)
  <2>1. m.anBoard \in Boards /\ CorrectNumberOfChequers(m.anBoard)
    BY DEF Matches, Games
  <2>2. DOMAIN p = 1..KeyBits
    BY DEF PositionID
  <2> HIDE DEF p
  <2>3. PositionFromID(p).board = m.anBoard
    BY <2>1, IDIsFaithful DEF p
  <2> QED BY <2>1, <2>2, <2>3
<1> HIDE DEF b, c, r, p
<1>5. /\ r \in Matches /\ Kept(r, b) /\ r.gs = GameRead(id) /\ r.anDice = DiceRead(id)
      /\ r.fCubeOwner = OwnerRead(id) /\ r.nCube = CubeRead(id)
      /\ r.anBoard = IF m.gs = GAME_PLAYING /\ r.gs = GAME_PLAYING THEN m.anBoard ELSE InitialBoard
  <2>1. CASE m.gs = GAME_PLAYING
    <3>1. c.fDoubled = 0 /\ c.fMove \in 0..1
      BY <1>1, <1>2 DEF Kept
    <3>2. r = SetBoard(c, p)
      BY <1>3, <2>1
    <3>3. /\ r \in Matches /\ Kept(r, c) /\ r.gs = c.gs /\ r.fTurn = c.fTurn /\ r.anDice = c.anDice
          /\ r.fCubeOwner = c.fCubeOwner /\ r.nCube = c.nCube
          /\ r.anBoard = IF c.gs = GAME_PLAYING /\ CorrectNumberOfChequers(PositionFromID(p).board)
                         THEN PositionFromID(p).board ELSE c.anBoard
      BY <1>2, <1>4, <3>1, <3>2, SetBoardFields
    <3>4. Kept(r, b)
      BY <1>2, <3>3, KeptStill
    <3> QED BY <1>2, <1>4, <2>1, <3>3, <3>4
  <2>2. CASE m.gs # GAME_PLAYING
    BY <1>2, <1>3, <2>2
  <2> QED BY <2>1, <2>2
<1>6. /\ r.fMove = MoverRead(id) /\ r.fTurn \in {TurnRead(id), MoverRead(id)}
      /\ r.fMove \in 0..1 /\ r.fTurn \in 0..1
      /\ r.fDoubled = 0 /\ r.fResigned \in {id.fResigned, 0}
      /\ r.nMatchTo = id.nMatchTo /\ r.anScore = id.anScore /\ r.fJacoby = id.fJacoby
      /\ r.fCrawford = CrawfordRead(id) /\ r.fPostCrawford = (CrawfordRead(id) = 0 /\ OneAway(id))
      /\ r.fCubeUse
  BY <1>1, <1>5 DEF Kept
<1> QED BY <1>5, <1>6 DEF r

---------------------------------------------------------------------------
(* The match ID of a match state.                                          *)

\* The dice as an ID holds them, the larger first.
Ordered(d) == IF d[1] >= d[2] THEN d ELSE Reverse(d)

\* Turned round the dice are the same dice.
LEMMA OrderedDice ==
  ASSUME NEW d \in Rolls
  PROVE  /\ Ordered(d) \in Rolls /\ ToSet(Ordered(d)) = ToSet(d)
         /\ Ordered(d)[1] >= Ordered(d)[2]
         /\ d[1] >= d[2] => Ordered(d) = d
         /\ [k \in 1..2 |-> Ordered(d)[k] % 8] = Ordered(d)
<1> DEFINE o == Ordered(d)
<1>1. d \in [1..2 -> 0..6] /\ d[1] \in 0..6 /\ d[2] \in 0..6
  BY DEF Rolls
<1>2. d \in Seq(0..6) /\ Len(d) = 2
  <2>1. d \in Seq(0..6)
    <3>1. [1..2 -> 0..6] \in {[1..n -> 0..6] : n \in Nat}
      OBVIOUS
    <3> QED BY <1>1, <3>1, SeqDef
  <2>2. Len(d) \in Nat /\ DOMAIN d = 1..Len(d)
    BY <2>1, LenProperties
  <2>3. DOMAIN d = 1..2
    BY <1>1
  <2>4. 2 \in 1..Len(d) /\ 3 \notin 1..Len(d)
    <3>1. 2 \in 1..2 /\ 3 \notin 1..2
      OBVIOUS
    <3>2. 1..Len(d) = 1..2
      BY <2>2, <2>3, Zenon
    <3> QED BY <3>1, <3>2, Zenon
  <2> QED BY <2>1, <2>2, <2>4
<1>3. Reverse(d) = [k \in 1..2 |-> d[3 - k]]
  BY <1>1, <1>2 DEF Reverse
<1>4. o \in [1..2 -> 0..6] /\ o[1] >= o[2] /\ (d[1] >= d[2] => o = d) /\ {o[1], o[2]} = {d[1], d[2]}
  <2>1. CASE d[1] >= d[2]
    <3>1. o = d
      BY <2>1 DEF Ordered
    <3> QED BY <1>1, <2>1, <3>1
  <2>2. CASE ~(d[1] >= d[2])
    <3>1. o = [k \in 1..2 |-> d[3 - k]]
      BY <1>3, <2>2 DEF Ordered
    <3>2. o \in [1..2 -> 0..6] /\ o[1] = d[2] /\ o[2] = d[1]
      BY <1>1, <3>1
    <3> HIDE DEF o
    <3> QED BY <1>1, <2>2, <3>2
  <2> QED BY <2>1, <2>2
<1> HIDE DEF o
<1>5. \A s \in [1..2 -> 0..6] : ToSet(s) = {s[1], s[2]}
  BY DEF ToSet
<1>6. [k \in 1..2 |-> o[k] % 8] = o
  <2>1. \A k \in 1..2 : o[k] % 8 = o[k]
    BY <1>4
  <2> QED BY <1>4, <2>1
<1> QED BY <1>1, <1>4, <1>5, <1>6 DEF o, Rolls

\* What the ID of a match state holds, and that it is valid if the score is.
LEMMA MatchIDWritten ==
  ASSUME NEW m, m.nCube \in Cubes, m.fCubeOwner \in -1..1, m.fMove \in 0..1, m.fTurn \in 0..1,
         m.gs \in 0..7, m.fCrawford \in 0..1, m.fDoubled \in 0..1, m.fResigned \in 0..3,
         m.anDice \in Rolls, m.nMatchTo \in 0..MaxScore, m.anScore \in [0..1 -> Nat],
         m.fJacoby \in 0..1
  PROVE  LET id == MatchID(m) IN
         /\ id \in MatchIDs
         /\ 2 ^ id.nCube = m.nCube /\ OwnerRead(id) = m.fCubeOwner
         /\ id.fMove = m.fMove /\ id.fTurn = m.fTurn /\ id.gs = m.gs /\ id.fCrawford = m.fCrawford
         /\ id.fDoubled = m.fDoubled /\ id.fResigned = m.fResigned
         /\ id.anDice = Ordered(m.anDice) /\ id.nMatchTo = m.nMatchTo
         /\ id.anScore \in Scores /\ (m.anScore \in Scores => id.anScore = m.anScore)
         /\ id.fJacoby = m.fJacoby
<1> DEFINE id == MatchID(m)
           sc == [p \in 0..1 |-> m.anScore[p] % 2 ^ 15]
<1>1. PICK i \in 0..15 : m.nCube = 2 ^ i
  BY DEF Cubes
<1>2. LogCube(m.nCube) % 16 = i
  <2>1. LogCube(m.nCube) = i
    BY <1>1, LogOfPower
  <2> QED BY <2>1
<1>3. /\ m.fCubeOwner % 4 \in 0..3
      /\ (IF m.fCubeOwner % 4 \in 0..1 THEN m.fCubeOwner % 4 ELSE -1) = m.fCubeOwner
  <2>1. (-1) % 4 = 3 /\ 0 % 4 = 0 /\ 1 % 4 = 1
    <3>1. \A x \in Int : (x + 4) % 4 = x % 4
      OBVIOUS
    <3>2. (-1) + 4 = 3 /\ 3 % 4 = 3 /\ 0 % 4 = 0 /\ 1 % 4 = 1
      OBVIOUS
    <3>3. ((-1) + 4) % 4 = (-1) % 4
      BY <3>1, -1 \in Int, Zenon
    <3> QED BY <3>2, <3>3
  <2>2. m.fCubeOwner = -1 \/ m.fCubeOwner = 0 \/ m.fCubeOwner = 1
    OBVIOUS
  <2> QED BY <2>1, <2>2
<1>4. m.fMove % 2 = m.fMove /\ m.fTurn % 2 = m.fTurn /\ m.gs % 8 = m.gs /\ m.fResigned % 4 = m.fResigned
  OBVIOUS
<1>5. m.nMatchTo % 2 ^ 15 = m.nMatchTo /\ m.nMatchTo \in 0 .. 2 ^ 15 - 1
  <2>1. m.nMatchTo \in 0 .. 2 ^ 15 - 1
    BY SetupAssumption
  <2> QED BY <2>1
<1>6. sc \in Scores /\ (m.anScore \in Scores => sc = m.anScore)
  <2>1. \A n \in Nat : n % 2 ^ 15 \in 0 .. 2 ^ 15 - 1
    OBVIOUS
  <2>2. \A n \in 0 .. 2 ^ 15 - 1 : n % 2 ^ 15 = n
    OBVIOUS
  <2>3. sc \in Scores
    BY <2>1 DEF Scores
  <2>4. ASSUME m.anScore \in Scores PROVE sc = m.anScore
    BY <2>2, <2>4 DEF Scores
  <2> QED BY <2>3, <2>4
<1>7. id = [nCube |-> i, fCubeOwner |-> m.fCubeOwner % 4, fMove |-> m.fMove,
            fCrawford |-> m.fCrawford, gs |-> m.gs, fTurn |-> m.fTurn, fDoubled |-> m.fDoubled,
            fResigned |-> m.fResigned, anDice |-> Ordered(m.anDice),
            nMatchTo |-> m.nMatchTo, anScore |-> sc, fJacoby |-> m.fJacoby]
  <2> DEFINE o == Ordered(m.anDice)
  <2>1. id = [nCube |-> LogCube(m.nCube) % 16, fCubeOwner |-> m.fCubeOwner % 4, fMove |-> m.fMove % 2,
              fCrawford |-> m.fCrawford, gs |-> m.gs % 8, fTurn |-> m.fTurn % 2,
              fDoubled |-> m.fDoubled, fResigned |-> m.fResigned % 4,
              anDice |-> [k \in 1..2 |-> o[k] % 8],
              nMatchTo |-> m.nMatchTo % 2 ^ 15, anScore |-> sc, fJacoby |-> m.fJacoby]
    BY Zenon DEF MatchID, Ordered
  <2>2. [k \in 1..2 |-> o[k] % 8] = o
    BY OrderedDice
  <2> HIDE DEF sc, o, id
  <2> QED BY <1>2, <1>4, <1>5, <2>1, <2>2 DEF o
<1>8. Ordered(m.anDice) \in Rolls
  BY OrderedDice
<1> HIDE DEF sc, id
<1>9. id \in MatchIDs
  <2>1. Ordered(m.anDice) \in [1..2 -> 0..7]
    BY <1>8 DEF Rolls
  <2> QED BY <1>3, <1>5, <1>6, <1>7, <2>1 DEF MatchIDs
<1> QED BY <1>1, <1>3, <1>6, <1>7, <1>9 DEF OwnerRead, id

\* A match ID whose dice and score are possible is accepted.
LEMMA IDAccepted ==
  ASSUME NEW id, id.anDice \in Rolls, id.nMatchTo \in 0..MaxScore,
         IF id.nMatchTo > 0 THEN \A p \in 0..1 : id.anScore[p] <= id.nMatchTo ELSE id.fCrawford = 0
  PROVE  MatchFromID(id).rc = 0
<1>1. \A k \in 1..2 : id.anDice[k] <= 6
  BY DEF Rolls
<1>2. id.nMatchTo <= MaxScore
  BY SetupAssumption
<1> QED BY <1>1, <1>2 DEF MatchFromID

\* MatchFromKey answers 0 or -1.
LEMMA Answered == \A id : MatchFromID(id).rc \in {0, -1}
BY DEF MatchFromID

---------------------------------------------------------------------------
(* What is true of the match state whatever is set.                        *)

\* The match state is sound in the engine just started and in a game just begun.
LEMMA SoundStart == Sound(Idle) /\ Sound(Playing)
<1>1. /\ InitialBoard \in Games /\ <<0, 0>> \in Rolls /\ <<2, 1>> \in Rolls /\ 1 \in Cubes
      /\ 3 \in 0..MaxScore /\ 0 \in 0..MaxScore /\ [p \in 0..1 |-> 0] \in Scores /\ 1 <= MaxCube
  BY SetupAssumption DEF Games, CheckPosition, Rolls, Cubes, Scores
<1>3. /\ Playing.gs = GAME_PLAYING /\ Playing.fMove = 1 /\ Playing.fTurn = 1
      /\ Playing.anDice = <<2, 1>> /\ Playing.fDoubled = 0 /\ Playing.fResigned = 0
      /\ Playing.fCubeOwner = -1 /\ Playing.nCube = 1 /\ Playing.fCrawford = 0
      /\ Playing.fPostCrawford = FALSE /\ Playing.nMatchTo = 3
      /\ Playing.anScore = [p \in 0..1 |-> 0] /\ Playing.fJacoby = 0
      /\ Playing.fCubeUse = TRUE /\ Playing.anBoard = InitialBoard
  BY DEF Playing, Idle
<1>4. /\ Idle.gs = GAME_NONE /\ Idle.fDoubled = 0 /\ Idle.nCube = 1 /\ Idle.fCrawford = 0
      /\ Idle.fPostCrawford = FALSE /\ Idle.nMatchTo = 0
      /\ Idle.anScore = [p \in 0..1 |-> 0] /\ Idle.fCubeUse = TRUE
  BY DEF Idle
<1>2. Idle \in Matches /\ Playing \in Matches
  <2>1. Idle \in Matches
    BY <1>1 DEF Idle, Matches, GAME_NONE
  <2>2. Playing = [f \in Fields |-> Playing[f]]
    <3>1. Idle = [f \in Fields |-> Idle[f]]
      BY <2>1, FieldsOfMatch
    <3> HIDE DEF Idle
    <3> QED BY <3>1, Zenon DEF Playing
  <2>3. Playing \in Matches
    <3> HIDE DEF Playing
    <3>1. /\ Playing.gs \in 0..7 /\ Playing.fMove \in -1..1 /\ Playing.fTurn \in -1..1
          /\ Playing.fDoubled \in 0..1 /\ Playing.fResigned \in 0..3
          /\ Playing.fCubeOwner \in -1..1 /\ Playing.fCrawford \in 0..1 /\ Playing.fJacoby \in 0..1
      BY <1>3 DEF GAME_PLAYING
    <3>2. Playing.fPostCrawford \in BOOLEAN /\ Playing.fCubeUse \in BOOLEAN
      BY <1>3
    <3>3. /\ Playing.anDice \in Rolls /\ Playing.nCube \in Cubes /\ Playing.nMatchTo \in 0..MaxScore
          /\ Playing.anScore \in Scores /\ Playing.anBoard \in Games
      BY <1>1, <1>3
    <3> QED BY <2>2, <3>1, <3>2, <3>3, MatchOfFields
  <2> QED BY <2>1, <2>3
<1>5. Sound(Idle)
  <2> DEFINE m == Idle
  <2>1. m.anScore[0] = 0 /\ m.anScore[1] = 0
    BY <1>4
  <2>2. ~OneAway(m)
    BY <1>4, <2>1 DEF OneAway
  <2>3. m.fCubeUse /\ m.fPostCrawford = (m.fCrawford = 0 /\ OneAway(m))
    BY <1>4, <2>2
  <2> HIDE DEF m
  <2> QED BY <1>1, <1>2, <1>4, <2>3 DEF Sound, GAME_NONE, GAME_PLAYING, Scored, m
<1>6. Sound(Playing)
  <2> DEFINE m == Playing
  <2>1. m.anScore[0] = 0 /\ m.anScore[1] = 0
    BY <1>3
  <2>2. ~OneAway(m)
    BY <1>3, <2>1 DEF OneAway
  <2>3. Scored(m)
    BY <1>3, <2>1 DEF Scored
  <2>4. m.fCubeUse /\ m.fPostCrawford = (m.fCrawford = 0 /\ OneAway(m))
    BY <1>3, <2>2
  <2> HIDE DEF m
  <2> QED BY <1>1, <1>2, <1>3, <2>3, <2>4 DEF Sound, GAME_PLAYING, m
<1> QED BY <1>5, <1>6

\* A board set keeps the match state sound.
LEMMA SetBoardSound ==
  ASSUME NEW m, Sound(m), NEW bits, DOMAIN bits = 1..KeyBits
  PROVE  Sound(SetBoard(m, bits))
<1> DEFINE r == SetBoard(m, bits)
<1>1. m \in Matches /\ m.fDoubled = 0 /\ (m.gs = GAME_PLAYING => m.fMove \in 0..1)
  BY DEF Sound
<1>2. r \in Matches /\ Kept(r, m) /\ r.gs = m.gs /\ r.nCube = m.nCube
  BY <1>1, SetBoardFields
<1> HIDE DEF r
<1>3. (OneAway(r) <=> OneAway(m)) /\ OneAway(r) \in BOOLEAN /\ OneAway(m) \in BOOLEAN
  BY <1>2 DEF Kept, OneAway
<1>4. Scored(r)
  BY <1>2 DEF Sound, Kept, Scored
<1> QED BY <1>2, <1>3, <1>4 DEF Sound, Kept, r

\* A match ID set keeps the match state sound, be it valid or not.
LEMMA SetMatchIDSound ==
  ASSUME NEW m, Sound(m), NEW id \in MatchIDs
  PROVE  Sound(SetMatchID(m, id))
<1> DEFINE r == SetMatchID(m, id)
<1>1. CASE MatchFromID(id).rc = -1
  <2>1. r = m
    BY <1>1 DEF SetMatchID
  <2> QED BY <2>1
<1>2. CASE MatchFromID(id).rc = 0
  <2>1. m \in Matches /\ m.fCubeUse
    BY DEF Sound
  <2>2. /\ r \in Matches /\ r.fMove \in 0..1 /\ r.fTurn \in 0..1
        /\ r.fDoubled = 0 /\ r.nMatchTo = id.nMatchTo /\ r.anScore = id.anScore
        /\ r.fCrawford = CrawfordRead(id) /\ r.fPostCrawford = (CrawfordRead(id) = 0 /\ OneAway(id))
        /\ r.nCube = CubeRead(id) /\ r.fCubeUse
    BY <1>2, <2>1, SetMatchIDFields
  <2>3. IF id.nMatchTo > 0 THEN \A p \in 0..1 : id.anScore[p] <= id.nMatchTo ELSE id.fCrawford = 0
    BY <1>2, KeyRead
  <2>4. CubeRead(id) <= MaxCube /\ (CrawfordRead(id) = 1 => CubeRead(id) = 1)
    BY SetupAssumption DEF CubeRead
  <2>5. CrawfordRead(id) = 1 => OneAway(id) /\ id.nMatchTo # 1
    BY DEF CrawfordRead
  <2> HIDE DEF r
  <2>6. OneAway(r) <=> OneAway(id)
    BY <2>2 DEF OneAway
  <2>7. Scored(r)
    BY <2>2, <2>3 DEF Scored, CrawfordRead
  <2>8. OneAway(r) \in BOOLEAN /\ OneAway(id) \in BOOLEAN
    BY DEF OneAway
  <2> QED BY <2>2, <2>4, <2>5, <2>6, <2>7, <2>8 DEF Sound, r
<1> QED BY <1>1, <1>2, Answered

\* IDs of a position and of a match, or of one of them.
Settable(id) == /\ id.pos = None \/ DOMAIN id.pos = 1..KeyBits
                /\ id.match = None \/ id.match \in MatchIDs

\* The fields of a score are numbers.
LEMMA ScoresAreNumbers == \A s \in Scores : s \in [0..1 -> Nat] /\ \A p \in 0..1 : s[p] \in Nat
<1>1. ASSUME NEW n \in Int, NEW s \in [0..1 -> 0..n]
      PROVE  s \in [0..1 -> Nat] /\ \A p \in 0..1 : s[p] \in Nat
  OBVIOUS
<1>2. 2 ^ 15 - 1 \in Int
  OBVIOUS
<1> QED BY <1>1, <1>2 DEF Scores

\* A position ID has its number of bits.
LEMMA BitsWritten == \A b : DOMAIN PositionID(b) = 1..KeyBits
BY DEF PositionID

\* IDs set keep the match state sound.
LEMMA SetIDsSound ==
  ASSUME NEW m, Sound(m), NEW id, Settable(id)
  PROVE  Sound(SetIDs(m, id))
<1> DEFINE matched == IF id.match = None THEN m ELSE SetMatchID(m, id.match)
<1>1. Sound(matched)
  BY SetMatchIDSound DEF Settable
<1>2. SetIDs(m, id) = IF id.pos = None THEN matched ELSE SetBoard(matched, id.pos)
  BY Zenon DEF SetIDs
<1> HIDE DEF matched
<1>3. CASE id.pos = None
  BY <1>1, <1>2, <1>3
<1>4. CASE id.pos # None
  <2>1. DOMAIN id.pos = 1..KeyBits
    BY <1>4 DEF Settable
  <2>2. Sound(SetBoard(matched, id.pos))
    BY <1>1, <2>1, SetBoardSound
  <2> QED BY <1>2, <1>4, <2>2
<1> QED BY <1>3, <1>4

\* The match state an XGID fills in can be written as an ID.
LEMMA XGStateCoded ==
  ASSUME NEW m, Sound(m), NEW x \in XGIDs, XGIsValid(x)
  PROVE  MatchID(XGState(m, x)) \in MatchIDs
<1> DEFINE s == XGState(m, x)
<1>1. /\ x.fMove \in 0..1 /\ x.anDice \in Rolls /\ x.doubled \in BOOLEAN /\ x.fCubeOwner \in -1..1
      /\ x.nCube \in Cubes /\ x.nMatchTo \in Nat /\ x.rules \in Nat /\ x.anScore \in [0..1 -> Nat]
  BY DEF XGIDs
<1>2. x.nMatchTo \in 0..MaxScore
  BY <1>1, SetupAssumption DEF XGIsValid
<1>3. x.nMatchTo > 0 => x.rules \in 0..1
  BY DEF XGIsValid
<1>4. /\ s.anDice = (IF x.doubled THEN <<0, 0>> ELSE x.anDice) /\ s.fResigned = 0
      /\ s.fDoubled = (IF x.doubled THEN 1 ELSE 0) /\ s.fMove = x.fMove
      /\ s.fTurn = (IF x.doubled THEN 1 - x.fMove ELSE x.fMove)
      /\ s.fCubeOwner = x.fCubeOwner /\ s.nCube = x.nCube /\ s.nMatchTo = x.nMatchTo
      /\ s.anScore = x.anScore /\ s.gs = GAME_PLAYING
      /\ s.fCrawford = (IF x.nMatchTo > 0 THEN x.rules ELSE 0)
      /\ s.fJacoby = (IF x.nMatchTo > 0 THEN 0 ELSE x.rules % 2)
  BY DEF XGState, Sound, Matches
<1>5. <<0, 0>> \in Rolls
  BY DEF Rolls
<1> HIDE DEF s
<1>6. /\ s.nCube \in Cubes /\ s.fCubeOwner \in -1..1 /\ s.fMove \in 0..1 /\ s.fTurn \in 0..1
      /\ s.gs \in 0..7 /\ s.fDoubled \in 0..1 /\ s.fResigned \in 0..3
      /\ s.nMatchTo \in 0..MaxScore /\ s.anScore \in [0..1 -> Nat]
  BY <1>1, <1>2, <1>4 DEF GAME_PLAYING
<1>7. s.anDice \in Rolls
  BY <1>1, <1>4, <1>5
<1>8. s.fCrawford \in 0..1 /\ s.fJacoby \in 0..1
  BY <1>1, <1>3, <1>4
<1> QED BY <1>6, <1>7, <1>8, MatchIDWritten DEF s

\* An XGID set keeps the match state sound.
LEMMA SetXGIDSound ==
  ASSUME NEW m, Sound(m), NEW x \in XGIDs
  PROVE  Sound(SetXGID(m, x).ms)
<1> DEFINE board   == IF x.fMove = 1 THEN x.board ELSE SwapSides(x.board)
           matched == SetMatchID(m, MatchID(XGState(m, x)))
<1>1. CASE ~XGIsValid(x)
  BY <1>1 DEF SetXGID
<1>2. CASE XGIsValid(x)
  <2>1. Sound(matched)
    BY <1>2, XGStateCoded, SetMatchIDSound
  <2>2. SetXGID(m, x).ms = SetBoard(matched, PositionID(board))
    BY <1>2 DEF SetXGID
  <2> HIDE DEF matched, board
  <2>3. Sound(SetBoard(matched, PositionID(board)))
    BY <2>1, BitsWritten, SetBoardSound
  <2> QED BY <2>2, <2>3
<1> QED BY <1>1, <1>2

\* The match state an edited position is written from.
EditState(m, e) ==
    [m EXCEPT !.anDice = e.anDice, !.fTurn = e.fMove, !.fMove = e.fMove,
              !.fCubeOwner = e.fCubeOwner, !.fCrawford = e.fCrawford,
              !.nMatchTo = e.nMatchTo, !.anScore = e.anScore,
              !.nCube = e.nCube, !.fResigned = 0, !.fDoubled = 0, !.gs = GAME_PLAYING]

\* The IDs of an edited position hold what was drawn; they are accepted if the score fits.
LEMMA EditCoded ==
  ASSUME NEW m, Sound(m), NEW e \in Edited
  PROVE  LET id == ids_from_state(m, e) IN
         /\ Settable(id) /\ id.match \in MatchIDs /\ id.match # None /\ id.pos # None
         /\ id.pos = PositionID(IF e.fMove = 1 THEN SwapSides(e.board) ELSE e.board)
         /\ 2 ^ id.match.nCube = e.nCube /\ OwnerRead(id.match) = e.fCubeOwner
         /\ id.match.fMove = e.fMove /\ id.match.fTurn = e.fMove /\ id.match.gs = GAME_PLAYING
         /\ id.match.fCrawford = e.fCrawford /\ id.match.fDoubled = 0
         /\ id.match.anDice = Ordered(e.anDice) /\ id.match.nMatchTo = e.nMatchTo
         /\ id.match.anScore = e.anScore
         /\ ScoreFits(e) => MatchFromID(id.match).rc = 0
<1> DEFINE s == EditState(m, e)
           b == IF e.fMove = 1 THEN SwapSides(e.board) ELSE e.board
           id == ids_from_state(m, e)
<1>1. /\ e.board \in Boards /\ e.fMove \in 0..1 /\ e.anDice \in Rolls /\ e.fCubeOwner \in -1..1
      /\ e.fCrawford \in 0..1 /\ e.nMatchTo \in 0..MaxScore /\ e.anScore \in Scores /\ e.nCube \in Cubes
      /\ e.nMatchTo = 0 => e.fCrawford = 0
  BY DEF Edited
<1>2. /\ s.anDice = e.anDice /\ s.fTurn = e.fMove /\ s.fMove = e.fMove
      /\ s.fCubeOwner = e.fCubeOwner /\ s.fCrawford = e.fCrawford /\ s.nMatchTo = e.nMatchTo
      /\ s.anScore = e.anScore /\ s.nCube = e.nCube /\ s.fResigned = 0 /\ s.fDoubled = 0
      /\ s.gs = GAME_PLAYING /\ s.fJacoby \in 0..1
  BY DEF EditState, Sound, Matches
<1>3. id.pos = PositionID(b) /\ id.match = MatchID(s) /\ id = [pos |-> id.pos, match |-> id.match]
  BY DEF ids_from_state, EditState
<1> HIDE DEF s, b, id
<1>4. s.gs \in 0..7 /\ s.fResigned \in 0..3 /\ s.fDoubled \in 0..1 /\ s.anScore \in [0..1 -> Nat]
  <2>1. s.anScore \in [0..1 -> Nat]
    BY <1>1, <1>2, ScoresAreNumbers
  <2> QED BY <1>2, <2>1 DEF GAME_PLAYING
<1>5. /\ id.match \in MatchIDs
      /\ 2 ^ id.match.nCube = e.nCube /\ OwnerRead(id.match) = e.fCubeOwner
      /\ id.match.fMove = e.fMove /\ id.match.fTurn = e.fMove /\ id.match.gs = GAME_PLAYING
      /\ id.match.fCrawford = e.fCrawford /\ id.match.fDoubled = 0
      /\ id.match.anDice = Ordered(e.anDice) /\ id.match.nMatchTo = e.nMatchTo
      /\ id.match.anScore = e.anScore
  BY <1>1, <1>2, <1>3, <1>4, MatchIDWritten
<1>6. id.match # None /\ id.pos # None
  <2>1. id.pos # None
    <3>1. DOMAIN id.pos = 1..KeyBits /\ KeyBits \in Nat /\ KeyBits > 0
      BY <1>3, BitsWritten, BoardAssumption DEF KeyBits
    <3>2. 1 \in DOMAIN id.pos
      BY <3>1
    <3>3. DOMAIN None = {}
      BY DEF None
    <3> QED BY <3>2, <3>3
  <2>2. id.match # None
    <3>1. "gs" \in DOMAIN id.match
      BY <1>5 DEF MatchIDs
    <3>2. DOMAIN None = {}
      BY DEF None
    <3> QED BY <3>1, <3>2
  <2> QED BY <2>1, <2>2
<1>7. Settable(id)
  BY <1>3, <1>5, BitsWritten DEF Settable
<1>8. ASSUME ScoreFits(e) PROVE MatchFromID(id.match).rc = 0
  <2>1. id.match.anDice \in Rolls
    BY <1>1, <1>5, OrderedDice
  <2>2. e.nMatchTo \in Nat
    BY <1>1, SetupAssumption
  <2>3. IF e.nMatchTo > 0 THEN \A p \in 0..1 : e.anScore[p] <= e.nMatchTo ELSE e.fCrawford = 0
    BY <1>1, <1>8, <2>2 DEF ScoreFits
  <2> QED BY <1>1, <1>5, <2>1, <2>3, IDAccepted
<1> QED BY <1>3, <1>5, <1>6, <1>7, <1>8 DEF id, b

\* The scores changed round leave the match state sound.
LEMMA SwapSound ==
  ASSUME NEW m, Sound(m)
  PROVE  Sound([m EXCEPT !.anScore = [p \in 0..1 |-> @[1 - p]]])
<1> DEFINE sc == [p \in 0..1 |-> m.anScore[1 - p]]
           r  == [m EXCEPT !.anScore = sc]
<1>1. m \in Matches /\ m.anScore \in Scores
  BY DEF Sound, Matches
<1>2. sc \in Scores /\ sc[0] = m.anScore[1] /\ sc[1] = m.anScore[0]
  <2>1. \A R : \A s \in [0..1 -> R] : [p \in 0..1 |-> s[1 - p]] \in [0..1 -> R]
    OBVIOUS
  <2>2. sc \in Scores
    BY <1>1, <2>1 DEF Scores
  <2> QED BY <2>2
<1> HIDE DEF sc
<1>3. /\ r.gs = m.gs /\ r.fMove = m.fMove /\ r.fTurn = m.fTurn /\ r.fDoubled = m.fDoubled
      /\ r.fCubeUse = m.fCubeUse /\ r.nCube = m.nCube /\ r.nMatchTo = m.nMatchTo /\ r.anScore = sc
      /\ r.fCrawford = m.fCrawford /\ r.fPostCrawford = m.fPostCrawford
  BY <1>1 DEF Matches
<1>4. r \in Matches
  BY <1>1, <1>2 DEF Matches
<1> HIDE DEF r
<1>5. \A h : OneAway(h) <=> h.anScore[0] = h.nMatchTo - 1 \/ h.anScore[1] = h.nMatchTo - 1
  BY DEF OneAway
<1>6. (OneAway(r) <=> OneAway(m)) /\ OneAway(r) \in BOOLEAN /\ OneAway(m) \in BOOLEAN
  <2>1. OneAway(r) <=> OneAway(m)
    BY <1>2, <1>3, <1>5
  <2> QED BY <2>1 DEF OneAway
<1>7. \A h : Scored(h) <=> IF h.nMatchTo > 0
                           THEN h.anScore[0] <= h.nMatchTo /\ h.anScore[1] <= h.nMatchTo ELSE h.fCrawford = 0
  BY DEF Scored
<1>8. Scored(r)
  <2>1. Scored(m)
    BY DEF Sound
  <2> QED BY <1>2, <1>3, <1>7, <2>1
<1>9. Sound(r)
  BY <1>3, <1>4, <1>6, <1>8 DEF Sound
<1> QED BY <1>9 DEF r, sc

---------------------------------------------------------------------------
(* What each verb does, in the words of the properties.                    *)

\* The board after IDs are set (SetGNUbgID; AnalyseScreen.kt:214-223).
BoardAfter(m, id, r) ==
    LET fresh  == id.match # None /\ MatchFromID(id.match).rc = 0
        before == IF fresh /\ ~(m.gs = GAME_PLAYING /\ r.gs = GAME_PLAYING)
                  THEN InitialBoard ELSE m.anBoard
        taken  == /\ id.pos # None /\ r.gs = GAME_PLAYING
                  /\ CorrectNumberOfChequers(PositionFromID(id.pos).board)
    IN  IF taken THEN PositionFromID(id.pos).board ELSE before

\* The board after IDs are set is the one GameStateIsTheTest tells of.
LEMMA IDsSet ==
  ASSUME NEW m, Sound(m), NEW id, Settable(id)
  PROVE  SetIDs(m, id).anBoard = BoardAfter(m, id, SetIDs(m, id))
<1> DEFINE matched == IF id.match = None THEN m ELSE SetMatchID(m, id.match)
           r     == SetIDs(m, id)
           fresh == id.match # None /\ MatchFromID(id.match).rc = 0
           b     == PositionFromID(id.pos).board
<1>1. r = IF id.pos = None THEN matched ELSE SetBoard(matched, id.pos)
  BY Zenon DEF SetIDs
<1>2. Sound(matched)
  BY SetMatchIDSound DEF Settable
<1>3. matched.anBoard = IF fresh /\ ~(m.gs = GAME_PLAYING /\ matched.gs = GAME_PLAYING)
                        THEN InitialBoard ELSE m.anBoard
  <2>1. CASE fresh
    <3>1. matched = SetMatchID(m, id.match) /\ id.match \in MatchIDs
      BY <2>1 DEF Settable
    <3>2. m \in Matches /\ m.fCubeUse
      BY DEF Sound
    <3>3. matched.anBoard = IF m.gs = GAME_PLAYING /\ matched.gs = GAME_PLAYING
                            THEN m.anBoard ELSE InitialBoard
      BY <2>1, <3>1, <3>2, SetMatchIDFields
    <3> QED BY <2>1, <3>3
  <2>2. CASE ~fresh
    <3>1. matched = m
      <4>1. CASE id.match = None
        BY <4>1
      <4>2. CASE id.match # None
        <5>1. MatchFromID(id.match).rc = -1
          BY <2>2, <4>2, Answered
        <5> QED BY <4>2, <5>1 DEF SetMatchID
      <4> QED BY <4>1, <4>2
    <3> QED BY <2>2, <3>1
  <2> QED BY <2>1, <2>2
<1> HIDE DEF matched, r, b
<1>4. /\ r.gs = matched.gs
      /\ r.anBoard = IF id.pos # None /\ matched.gs = GAME_PLAYING /\ CorrectNumberOfChequers(b)
                     THEN b ELSE matched.anBoard
  <2>1. CASE id.pos = None
    BY <1>1, <2>1
  <2>2. CASE id.pos # None
    <3>1. DOMAIN id.pos = 1..KeyBits
      BY <2>2 DEF Settable
    <3>2. matched \in Matches /\ matched.fDoubled = 0 /\ (matched.gs = GAME_PLAYING => matched.fMove \in 0..1)
      BY <1>2 DEF Sound
    <3>3. r = SetBoard(matched, id.pos)
      BY <1>1, <2>2
    <3> QED BY <2>2, <3>1, <3>2, <3>3, SetBoardFields DEF b
  <2> QED BY <2>1, <2>2
<1> HIDE DEF fresh
<1>5. r.anBoard = IF id.pos # None /\ r.gs = GAME_PLAYING /\ CorrectNumberOfChequers(b)
                  THEN b
                  ELSE IF fresh /\ ~(m.gs = GAME_PLAYING /\ r.gs = GAME_PLAYING)
                       THEN InitialBoard ELSE m.anBoard
  BY <1>3, <1>4
<1> QED BY <1>5 DEF BoardAfter, r, b, fresh

\* A match ID in a game and the position that goes with it, set over any match.
LEMMA BothSet ==
  ASSUME NEW m, Sound(m), NEW id, Settable(id), id.match \in MatchIDs, id.match # None, id.pos # None,
         MatchFromID(id.match).rc = 0, GameRead(id.match) = GAME_PLAYING,
         NEW b \in Boards, CorrectNumberOfChequers(b), id.pos = PositionID(b)
  PROVE  LET r == SetIDs(m, id)
             k == id.match
         IN  /\ r \in Matches /\ r.gs = GAME_PLAYING /\ r.fMove = MoverRead(k)
             /\ r.fTurn \in {TurnRead(k), MoverRead(k)}
             /\ r.anDice = DiceRead(k) /\ r.fDoubled = 0 /\ r.fResigned \in {k.fResigned, 0}
             /\ r.nMatchTo = k.nMatchTo /\ r.anScore = k.anScore /\ r.fJacoby = k.fJacoby
             /\ r.fCrawford = CrawfordRead(k) /\ r.fPostCrawford = (CrawfordRead(k) = 0 /\ OneAway(k))
             /\ r.fCubeOwner = OwnerRead(k) /\ r.nCube = CubeRead(k) /\ r.fCubeUse
             /\ r.anBoard = b
<1> DEFINE k == id.match
           matched == SetMatchID(m, k)
           r == SetIDs(m, id)
<1>1. m \in Matches /\ m.fCubeUse
  BY DEF Sound
<1>2. r = SetBoard(matched, id.pos)
  BY DEF SetIDs
<1>3. /\ matched \in Matches /\ matched.gs = GameRead(k) /\ matched.fMove = MoverRead(k)
      /\ matched.fTurn \in {TurnRead(k), MoverRead(k)} /\ matched.fMove \in 0..1
      /\ matched.anDice = DiceRead(k) /\ matched.fDoubled = 0 /\ matched.fResigned \in {k.fResigned, 0}
      /\ matched.nMatchTo = k.nMatchTo /\ matched.anScore = k.anScore /\ matched.fJacoby = k.fJacoby
      /\ matched.fCrawford = CrawfordRead(k)
      /\ matched.fPostCrawford = (CrawfordRead(k) = 0 /\ OneAway(k))
      /\ matched.fCubeOwner = OwnerRead(k) /\ matched.nCube = CubeRead(k) /\ matched.fCubeUse
  BY <1>1, SetMatchIDFields
<1>4. DOMAIN id.pos = 1..KeyBits /\ PositionFromID(id.pos).board = b
  BY BitsWritten, IDIsFaithful
<1> HIDE DEF matched, r, k
<1>5. /\ r \in Matches /\ Kept(r, matched) /\ r.gs = matched.gs /\ r.fTurn = matched.fTurn
      /\ r.anDice = matched.anDice /\ r.fCubeOwner = matched.fCubeOwner /\ r.nCube = matched.nCube
      /\ r.anBoard = IF matched.gs = GAME_PLAYING /\ CorrectNumberOfChequers(b) THEN b ELSE matched.anBoard
  BY <1>2, <1>3, <1>4, SetBoardFields
<1>6. GameRead(k) = GAME_PLAYING
  BY DEF k
<1>7. r.gs = GAME_PLAYING /\ r.anBoard = b
  BY <1>3, <1>5, <1>6
<1> QED BY <1>3, <1>5, <1>7 DEF Kept, k, r

\* The dice are the ones drawn, though perhaps the other way round.
LEMMA DiceDrawn ==
  ASSUME NEW d \in Rolls
  PROVE  LET o == Ordered(d)
             r == IF o[1] > 0 THEN o ELSE <<0, 0>>
         IN  ToSet(r) = ToSet(d) /\ (d[1] >= d[2] => r = d)
<1> DEFINE o == Ordered(d)
           r == IF o[1] > 0 THEN o ELSE <<0, 0>>
<1>1. /\ o \in [1..2 -> 0..6] /\ ToSet(o) = ToSet(d) /\ o[1] >= o[2]
      /\ d[1] >= d[2] => o = d
  BY OrderedDice DEF Rolls
<1> HIDE DEF o
<1>2. r = o
  <2>1. CASE o[1] > 0
    BY <2>1
  <2>2. CASE ~(o[1] > 0)
    <3>1. o[1] = 0 /\ o[2] = 0
      BY <1>1, <2>2
    <3>2. o = <<0, 0>>
      BY <1>1, <3>1
    <3> QED BY <2>2, <3>2
  <2> QED BY <2>1, <2>2
<1> QED BY <1>1, <1>2 DEF o

\* An edited position set over any sound match state comes back as it was drawn.
LEMMA EditInstalled ==
  ASSUME NEW m, Sound(m), NEW e \in Edited, CheckPosition(e.board), ScoreFits(e)
  PROVE  LET r == SetIDs(m, ids_from_state(m, e))
             craw == e.fCrawford = 1 /\ e.nMatchTo > 1
                       /\ \E p \in 0..1 : e.anScore[p] = e.nMatchTo - 1
         IN  /\ get_board_human(r) = e.board /\ r.fMove = e.fMove /\ r.fTurn = e.fMove
             /\ ToSet(r.anDice) = ToSet(e.anDice)
             /\ r.nMatchTo = e.nMatchTo /\ r.anScore = e.anScore
             /\ r.fCrawford = 1 <=> craw
             /\ r.fCubeOwner = e.fCubeOwner /\ r.nCube = IF craw THEN 1 ELSE e.nCube
<1> DEFINE id == ids_from_state(m, e)
           k  == id.match
           r  == SetIDs(m, id)
           b  == IF e.fMove = 1 THEN SwapSides(e.board) ELSE e.board
           craw == e.fCrawford = 1 /\ e.nMatchTo > 1
                       /\ \E p \in 0..1 : e.anScore[p] = e.nMatchTo - 1
<1>1. /\ e.board \in Boards /\ e.fMove \in 0..1 /\ e.anDice \in Rolls /\ e.fCrawford \in 0..1
      /\ e.nMatchTo \in Nat /\ e.anScore \in Scores /\ e.nCube \in Cubes /\ e.nCube <= MaxCube
      /\ e.nMatchTo = 0 => e.fCrawford = 0
  <2>1. /\ e.board \in Boards /\ e.fMove \in 0..1 /\ e.anDice \in Rolls /\ e.fCrawford \in 0..1
        /\ e.nMatchTo \in 0..MaxScore /\ e.anScore \in Scores /\ e.nCube \in Cubes /\ e.nCube \in 1..MaxCube
        /\ e.nMatchTo = 0 => e.fCrawford = 0
    BY DEF Edited
  <2> QED BY <2>1, SetupAssumption
<1>2. CorrectNumberOfChequers(e.board)
  BY DEF CheckPosition
<1>3. /\ Settable(id) /\ k \in MatchIDs /\ k # None /\ id.pos # None /\ id.pos = PositionID(b)
      /\ 2 ^ k.nCube = e.nCube /\ OwnerRead(k) = e.fCubeOwner
      /\ k.fMove = e.fMove /\ k.fTurn = e.fMove /\ k.gs = GAME_PLAYING
      /\ k.fCrawford = e.fCrawford /\ k.fDoubled = 0
      /\ k.anDice = Ordered(e.anDice) /\ k.nMatchTo = e.nMatchTo /\ k.anScore = e.anScore
      /\ MatchFromID(k).rc = 0
  BY EditCoded
<1>4. b \in Boards /\ CorrectNumberOfChequers(b) /\ e.board = IF e.fMove = 1 THEN SwapSides(b) ELSE b
  BY <1>1, <1>2, TurnedRound
<1> HIDE DEF id, b
<1>5. GameRead(k) = GAME_PLAYING /\ MoverRead(k) = e.fMove /\ TurnRead(k) = e.fMove
  BY <1>3 DEF GameRead, MoverRead, TurnRead
<1>6. /\ r.fMove = MoverRead(k) /\ r.fTurn \in {TurnRead(k), MoverRead(k)} /\ r.anDice = DiceRead(k)
      /\ r.nMatchTo = k.nMatchTo /\ r.anScore = k.anScore /\ r.fCrawford = CrawfordRead(k)
      /\ r.fCubeOwner = OwnerRead(k) /\ r.nCube = CubeRead(k) /\ r.anBoard = b
  BY <1>3, <1>4, <1>5, BothSet
<1> HIDE DEF r, k
<1>7. CrawfordRead(k) \in 0..1 /\ (CrawfordRead(k) = 1 <=> craw)
  <2>1. OneAway(k) <=> \E p \in 0..1 : e.anScore[p] = e.nMatchTo - 1
    BY <1>3 DEF OneAway
  <2>2. CASE e.nMatchTo = 0
    BY <1>1, <1>3, <2>2 DEF CrawfordRead
  <2>3. CASE e.nMatchTo # 0
    <3>1. e.nMatchTo > 1 <=> e.nMatchTo # 1
      BY <1>1, <2>3
    <3> DEFINE away == \E p \in 0..1 : e.anScore[p] = e.nMatchTo - 1
    <3> HIDE DEF away
    <3>2. craw <=> e.fCrawford = 1 /\ e.nMatchTo # 1 /\ away
      BY <3>1 DEF away
    <3>3. OneAway(k) <=> away
      BY <2>1 DEF away
    <3> HIDE DEF craw
    <3> QED BY <1>1, <1>3, <3>2, <3>3 DEF CrawfordRead
  <2> QED BY <2>2, <2>3
<1> HIDE DEF craw
<1>8. r.nCube = IF craw THEN 1 ELSE e.nCube
  BY <1>1, <1>3, <1>5, <1>6, <1>7 DEF CubeRead
<1>9. ToSet(r.anDice) = ToSet(e.anDice)
  BY <1>1, <1>3, <1>6, DiceDrawn DEF DiceRead
<1>10. get_board_human(r) = e.board
  BY <1>4, <1>5, <1>6 DEF get_board_human
<1> QED BY <1>3, <1>5, <1>6, <1>7, <1>8, <1>9, <1>10 DEF r, id, craw

\* Match states with the same fields are the same.
LEMMA SameMatch ==
  ASSUME NEW m \in Matches, NEW r \in Matches,
         r.gs = m.gs, r.fMove = m.fMove, r.fTurn = m.fTurn, r.anDice = m.anDice,
         r.fDoubled = m.fDoubled, r.fResigned = m.fResigned, r.fCubeOwner = m.fCubeOwner,
         r.nCube = m.nCube, r.fCrawford = m.fCrawford, r.fPostCrawford = m.fPostCrawford,
         r.nMatchTo = m.nMatchTo, r.anScore = m.anScore, r.fJacoby = m.fJacoby,
         r.fCubeUse = m.fCubeUse, r.anBoard = m.anBoard
  PROVE  r = m
<1>1. m = [f \in Fields |-> m[f]] /\ r = [f \in Fields |-> r[f]]
  BY FieldsOfMatch
<1>2. \A f \in Fields : r[f] = m[f]
  BY DEF Fields
<1> QED BY <1>1, <1>2

\* The IDs of a sound match state bring it back, whatever they are set over.
LEMMA IdsBringBack ==
  ASSUME NEW m, Sound(m), m.gs = GAME_PLAYING, m.fMove = m.fTurn, m.fResigned = 0,
         m.anDice[1] >= m.anDice[2], NEW other, Sound(other)
  PROVE  SetIDs(other, current_ids(m)) = m
<1> DEFINE id == current_ids(m)
           k  == id.match
           r  == SetIDs(other, id)
           b  == m.anBoard
<1>1. /\ m \in Matches /\ m.fMove \in 0..1 /\ m.fTurn \in 0..1 /\ m.fDoubled = 0 /\ m.fCubeUse
      /\ m.nCube <= MaxCube /\ Scored(m)
      /\ m.fCrawford = 1 => OneAway(m) /\ m.nMatchTo # 1 /\ m.nCube = 1
      /\ m.fPostCrawford = (m.fCrawford = 0 /\ OneAway(m))
  BY DEF Sound
<1>2. /\ m.nCube \in Cubes /\ m.fCubeOwner \in -1..1 /\ m.gs \in 0..7 /\ m.fCrawford \in 0..1
      /\ m.fDoubled \in 0..1 /\ m.fResigned \in 0..3 /\ m.anDice \in Rolls
      /\ m.nMatchTo \in 0..MaxScore /\ m.anScore \in Scores /\ m.fJacoby \in 0..1
      /\ b \in Boards /\ CorrectNumberOfChequers(b)
  BY <1>1 DEF Matches, Games
<1>3. id.pos = PositionID(b) /\ k = MatchID(m)
  BY DEF current_ids
<1> HIDE DEF id, b
<1>4. m.anScore \in [0..1 -> Nat]
  BY <1>2, ScoresAreNumbers
<1>5. /\ k \in MatchIDs
      /\ 2 ^ k.nCube = m.nCube /\ OwnerRead(k) = m.fCubeOwner
      /\ k.fMove = m.fMove /\ k.fTurn = m.fTurn /\ k.gs = m.gs /\ k.fCrawford = m.fCrawford
      /\ k.fDoubled = 0 /\ k.fResigned = 0
      /\ k.anDice = Ordered(m.anDice) /\ k.nMatchTo = m.nMatchTo
      /\ k.anScore = m.anScore /\ k.fJacoby = m.fJacoby
  BY <1>1, <1>2, <1>3, <1>4, MatchIDWritten
<1>6. k # None /\ id.pos # None /\ Settable(id)
  <2>1. DOMAIN id.pos = 1..KeyBits /\ DOMAIN None = {}
    BY <1>3, BitsWritten DEF None
  <2>2. 1 \in 1..KeyBits
    BY BoardAssumption DEF KeyBits
  <2>3. "gs" \in DOMAIN k
    BY <1>5 DEF MatchIDs
  <2> QED BY <1>5, <2>1, <2>2, <2>3 DEF Settable
<1>7. MatchFromID(k).rc = 0
  <2>1. k.anDice \in Rolls
    BY <1>2, <1>5, OrderedDice
  <2>2. IF m.nMatchTo > 0 THEN \A p \in 0..1 : m.anScore[p] <= m.nMatchTo ELSE m.fCrawford = 0
    BY <1>1 DEF Scored
  <2> QED BY <1>2, <1>5, <2>1, <2>2, IDAccepted
<1>8. GameRead(k) = GAME_PLAYING /\ MoverRead(k) = m.fMove /\ TurnRead(k) = m.fMove
  BY <1>5 DEF GameRead, MoverRead, TurnRead
<1>9. /\ r \in Matches /\ r.gs = GAME_PLAYING /\ r.fMove = MoverRead(k)
      /\ r.fTurn \in {TurnRead(k), MoverRead(k)}
      /\ r.anDice = DiceRead(k) /\ r.fDoubled = 0 /\ r.fResigned \in {k.fResigned, 0}
      /\ r.nMatchTo = k.nMatchTo /\ r.anScore = k.anScore /\ r.fJacoby = k.fJacoby
      /\ r.fCrawford = CrawfordRead(k) /\ r.fPostCrawford = (CrawfordRead(k) = 0 /\ OneAway(k))
      /\ r.fCubeOwner = OwnerRead(k) /\ r.nCube = CubeRead(k) /\ r.fCubeUse
      /\ r.anBoard = b
  BY <1>2, <1>3, <1>5, <1>6, <1>7, <1>8, BothSet
<1> HIDE DEF r, k
<1>10. (OneAway(k) <=> OneAway(m)) /\ OneAway(k) \in BOOLEAN /\ OneAway(m) \in BOOLEAN
  BY <1>5 DEF OneAway
<1>11. CrawfordRead(k) = m.fCrawford
  BY <1>1, <1>2, <1>5, <1>10 DEF CrawfordRead
<1>12. r.fPostCrawford = m.fPostCrawford
  BY <1>1, <1>9, <1>10, <1>11
<1>13. r.nCube = m.nCube
  BY <1>1, <1>2, <1>5, <1>8, <1>9, <1>11 DEF CubeRead
<1>14. r.anDice = m.anDice
  BY <1>2, <1>5, <1>9, DiceDrawn DEF DiceRead
<1>15. r.fCubeUse = m.fCubeUse
  <2>1. r.fCubeUse \in BOOLEAN /\ m.fCubeUse \in BOOLEAN
    BY <1>1, <1>9 DEF Matches
  <2> QED BY <1>1, <1>9, <2>1
<1>16. r = m
  <2>1. /\ r.gs = m.gs /\ r.fMove = m.fMove /\ r.fTurn = m.fTurn /\ r.fDoubled = m.fDoubled
        /\ r.fResigned = m.fResigned /\ r.fCubeOwner = m.fCubeOwner /\ r.fCrawford = m.fCrawford
        /\ r.nMatchTo = m.nMatchTo /\ r.anScore = m.anScore /\ r.fJacoby = m.fJacoby
    BY <1>1, <1>5, <1>8, <1>9, <1>11
  <2>2. r.anBoard = m.anBoard
    BY <1>9 DEF b
  <2>3. r \in Matches /\ m \in Matches
    BY <1>1, <1>9
  <2> QED BY <1>12, <1>13, <1>14, <1>15, <2>1, <2>2, <2>3, SameMatch
<1> QED BY <1>16 DEF r, id

---------------------------------------------------------------------------
(* The inductive invariant and the theorems.                               *)

\* The match state is sound, now and when the last verb was called, and is what a paste or
\* an edit makes of it.
IInv ==
    /\ Sound(ms) /\ Sound(set.on)
    /\ ap \in [0..1 -> {Human, Gnu}] /\ ap[0] # ap[1]
    /\ set.by = "paste" => Settable(set.what) /\ ms = SetIDs(set.on, set.what)
    /\ set.by = "edit" => set.what \in Edited /\ ms = SetIDs(set.on, ids_from_state(set.on, set.what))

\* What may be set is of what is given.
LEMMA OfferedAreOffered == \A all : Offered(all) \subseteq all
BY DEF Offered

\* What is pasted is IDs.
LEMMA PastesSettable == \A id \in Pastes : Settable(id)
BY InputAssumption DEF Settable, PositionIDs

\* The invariant holds initially, and every verb keeps it.
LEMMA Inductive == Spec => []IInv
<1>1. Init => IInv
  <2> SUFFICES ASSUME Init PROVE IInv
    OBVIOUS
  <2>1. Sound(ms)
    BY SoundStart DEF Init
  <2>2. set.on = ms /\ set.by = "nothing"
    BY DEF Init
  <2>3. ap \in [0..1 -> {Human, Gnu}] /\ ap[0] # ap[1]
    BY DEF Init, Human, Gnu
  <2> QED BY <2>1, <2>2, <2>3 DEF IInv
<1>2. IInv /\ [Next]_vars => IInv'
  <2> SUFFICES ASSUME IInv, [Next]_vars PROVE IInv'
    OBVIOUS
  <2>0. Sound(ms) /\ ap \in [0..1 -> {Human, Gnu}] /\ ap[0] # ap[1]
    BY DEF IInv
  <2>1. ASSUME NEW id \in Offered(Pastes), Paste(id) PROVE IInv'
    <3>1. Settable(id)
      BY OfferedAreOffered, PastesSettable
    <3>2. /\ ms' = SetIDs(ms, id) /\ ap' = ap
          /\ set'.by = "paste" /\ set'.what = id /\ set'.on = ms
      BY <2>1 DEF Paste
    <3>3. Sound(ms')
      BY <2>0, <3>1, <3>2, SetIDsSound
    <3>4. Sound(set'.on)
      BY <2>0, <3>2
    <3>5. Settable(set'.what) /\ ms' = SetIDs(set'.on, set'.what)
      BY <3>1, <3>2
    <3> QED BY <2>0, <3>2, <3>3, <3>4, <3>5 DEF IInv
  <2>2. ASSUME NEW x \in Offered(XGs), PasteXG(x) PROVE IInv'
    <3>1. x \in XGIDs
      BY OfferedAreOffered, InputAssumption
    <3>2. /\ ms' = SetXGID(ms, x).ms /\ ap' = ap
          /\ set'.by = "xg" /\ set'.on = ms
      BY <2>2 DEF PasteXG
    <3>3. Sound(ms')
      BY <2>0, <3>1, <3>2, SetXGIDSound
    <3>4. Sound(set'.on)
      BY <2>0, <3>2
    <3> QED BY <2>0, <3>2, <3>3, <3>4 DEF IInv
  <2>3. ASSUME NEW e \in Offered(Edits), Edit(e) PROVE IInv'
    <3>1. e \in Edited
      BY OfferedAreOffered, InputAssumption
    <3>2. /\ ms' = SetIDs(ms, ids_from_state(ms, e)) /\ ap' = ap
          /\ set'.by = "edit" /\ set'.what = e /\ set'.on = ms
      BY <2>3 DEF Edit
    <3>3. Settable(ids_from_state(ms, e))
      BY <2>0, <3>1, EditCoded
    <3>4. Sound(ms')
      BY <2>0, <3>2, <3>3, SetIDsSound
    <3>5. Sound(set'.on)
      BY <2>0, <3>2
    <3>6. set'.what \in Edited /\ ms' = SetIDs(set'.on, ids_from_state(set'.on, set'.what))
      BY <3>1, <3>2
    <3> QED BY <2>0, <3>2, <3>4, <3>5, <3>6 DEF IInv
  <2>4. ASSUME SwapPlayers PROVE IInv'
    <3>1. /\ ms' = [ms EXCEPT !.anScore = [p \in 0..1 |-> @[1 - p]]]
          /\ ap' = [p \in 0..1 |-> ap[1 - p]]
          /\ set'.by = "swap" /\ set'.on = ms
      BY <2>4 DEF SwapPlayers
    <3>2. Sound(ms')
      BY <2>0, <3>1, SwapSound
    <3>3. Sound(set'.on)
      BY <2>0, <3>1
    <3>4. ap' \in [0..1 -> {Human, Gnu}] /\ ap'[0] # ap'[1]
      BY <2>0, <3>1
    <3> QED BY <3>1, <3>2, <3>3, <3>4 DEF IInv
  <2>5. CASE UNCHANGED vars
    BY <2>5 DEF IInv, vars
  <2> QED BY <2>1, <2>2, <2>3, <2>4, <2>5 DEF Next
<1> QED BY <1>1, <1>2, PTL DEF Spec

\* Whatever IDs, XGIDs and edited positions are set one after another, the match state keeps
\* to its types and neither side has too many chequers (SetGNUbgID, SetXGID,
\* gnubg_mobile_ids_from_state).
THEOREM TypeCorrect == Spec => []TypeOK
<1>1. IInv => TypeOK
  <2> SUFFICES ASSUME IInv PROVE TypeOK
    OBVIOUS
  <2>1. ms \in Matches /\ ms.fDoubled = 0 /\ ms.nCube <= MaxCube
    BY DEF IInv, Sound
  <2>2. /\ ms.anBoard \in Boards /\ CorrectNumberOfChequers(ms.anBoard)
        /\ ms.gs \in 0..7 /\ ms.fMove \in -1..1 /\ ms.fTurn \in -1..1 /\ ms.fCubeOwner \in -1..1
        /\ ms.nCube \in Cubes
    BY <2>1 DEF Matches, Games
  <2>3. ms.nCube \in 1..MaxCube
    <3>1. PICK i \in 0..15 : ms.nCube = 2 ^ i
      BY <2>2 DEF Cubes
    <3>2. ms.nCube \in Nat /\ ms.nCube > 0
      <4>1. i \in 0..31
        OBVIOUS
      <4> QED BY <3>1, <4>1, Powers
    <3> QED BY <2>1, <3>2, SetupAssumption
  <2>4. Range(ap) = {Human, Gnu}
    <3>1. ap \in [0..1 -> {Human, Gnu}] /\ ap[0] # ap[1]
      BY DEF IInv
    <3>2. Range(ap) = {ap[0], ap[1]}
      BY <3>1 DEF Range
    <3>3. ap[0] \in {Human, Gnu} /\ ap[1] \in {Human, Gnu}
      BY <3>1
    <3> QED BY <3>1, <3>2, <3>3
  <2> QED BY <2>1, <2>2, <2>3, <2>4 DEF TypeOK
<1> QED BY <1>1, Inductive, PTL

\* The game state is the test of what a paste did: in a game the board is the one pasted or
\* the one there was, out of one the one there was or the one a match begins with
\* (AnalyseScreen.kt:214-223).
THEOREM GameStateTells == Spec => []GameStateIsTheTest
<1>1. IInv => GameStateIsTheTest
  <2> SUFFICES ASSUME IInv, set.by = "paste" PROVE ms.anBoard = BoardAfter(set.on, set.what, ms)
    BY Zenon DEF GameStateIsTheTest, BoardAfter
  <2>1. Sound(set.on) /\ Settable(set.what) /\ ms = SetIDs(set.on, set.what)
    BY DEF IInv
  <2> QED BY <2>1, IDsSet
<1> QED BY <1>1, Inductive, PTL

\* A position edited on the Analyse screen comes back from gnubg as it was drawn, whatever was
\* set before it, unless it has more points than the match: through PositionID and MatchID, MatchFromID and PositionFromID, and the
\* records of the dice, the cube and the board.
THEOREM EditsComeBack == Spec => []EditedIsInstalled
<1>1. IInv => EditedIsInstalled
  <2> SUFFICES ASSUME IInv, set.by = "edit", CheckPosition(set.what.board), ScoreFits(set.what)
               PROVE  LET e == set.what
                          craw == e.fCrawford = 1 /\ e.nMatchTo > 1
                                     /\ \E p \in 0..1 : e.anScore[p] = e.nMatchTo - 1
                      IN  /\ get_board_human(ms) = e.board /\ ms.fMove = e.fMove /\ ms.fTurn = e.fMove
                          /\ ToSet(ms.anDice) = ToSet(e.anDice)
                          /\ ms.nMatchTo = e.nMatchTo /\ ms.anScore = e.anScore
                          /\ ms.fCrawford = 1 <=> craw
                          /\ ms.fCubeOwner = e.fCubeOwner /\ ms.nCube = IF craw THEN 1 ELSE e.nCube
    BY Zenon DEF EditedIsInstalled
  <2>1. Sound(set.on) /\ set.what \in Edited /\ ms = SetIDs(set.on, ids_from_state(set.on, set.what))
    BY DEF IInv
  <2> QED BY <2>1, EditInstalled, Zenon
<1> QED BY <1>1, Inductive, PTL

\* The IDs shown of a position bring it back, pasted over a fresh engine or over a game
\* (gnubg_mobile_current_ids, SetGNUbgID).
THEOREM StableIds == Spec => []IdsAreStable
<1>1. IInv => IdsAreStable
  BY SoundStart, IdsBringBack DEF IInv, IdsAreStable
<1> QED BY <1>1, Inductive, PTL

====
