---- MODULE LiveDiceProofs ----
(***************************************************************************)
(* Proofs about LiveDice, for any number of works and of rolls: without a  *)
(* lock, a watcher accepts only dice rolled after its work began.          *)
(***************************************************************************)
EXTENDS LiveDice, TLAPS

Watcher == [pc : {"none", "loop", "die0", "die1", "decide", "exit", "clear", "done"},
            base : Nat, seq : Nat, read : Nat \X Nat, accepted : Nat \X Nat]

Engine == [pc : {"idle", "work", "workRoll", "humanRoll"}, works : Nat, rolls : Nat,
           stored : SUBSET {0, 1}]

Types ==
    /\ seq \in Nat /\ die \in [{0, 1} -> Nat] /\ engine \in Engine
    /\ watcher \in [Work -> Watcher]

\* The sequence counts the rolls announced; no die is older than it, and what the hook
\* has stored is of the roll to be announced next.
SeqBehindDice ==
    /\ engine.rolls = IF engine.pc \in {"workRoll", "humanRoll"} THEN seq + 1 ELSE seq
    /\ \A d \in {0, 1} : die[d] >= seq
    /\ engine.pc \in {"workRoll", "humanRoll"} =>
          \A d \in engine.stored : die[d] = engine.rolls

\* What a watcher has read, it read after the sequence, which it read after its base.
ReadInOrder(w) ==
    LET r == watcher[w] IN
    /\ r.pc \in {"none", "loop", "die0", "die1", "decide"} => r.accepted = None
    /\ r.base <= seq
    /\ r.pc \in {"die0", "die1", "decide"} => r.base <= r.seq /\ r.seq <= seq
    /\ r.pc \in {"die1", "decide"} => r.read[1] >= r.seq
    /\ r.pc = "decide" => r.read[2] >= r.seq
    /\ r.accepted # None => r.accepted[1] > r.base /\ r.accepted[2] > r.base

\* Works not begun yet have no watcher.
ArmedInTurn == \A w \in Work : w > engine.works => watcher[w].pc = "none"

IInv == Types /\ SeqBehindDice /\ (\A w \in Work : ReadInOrder(w)) /\ ArmedInTurn

---------------------------------------------------------------------------

LEMMA InitIInv == Init => IInv
  BY LiveDiceBounds DEF Init, IInv, Types, SeqBehindDice, ReadInOrder, ArmedInTurn, Watcher,
                        Engine, Work, None

\* A watcher's step changes its own record, and of what the rest depends on nothing else.
LEMMA WatcherStepKeeps ==
  ASSUME IInv, NEW w \in Work, WatcherStep(w)
  PROVE  IInv'
<1> DEFINE r == watcher[w]
<1>0. /\ Types /\ ReadInOrder(w) /\ r \in Watcher /\ r.pc # "none"
      /\ UNCHANGED <<seq, die, engine>>
  BY DEF IInv, Types, WatcherStep, Look, LoadDie0, LoadDie1, Decide, Exit, Clear
<1>1. /\ watcher' = [watcher EXCEPT ![w] = watcher'[w]] /\ watcher'[w] \in Watcher
      /\ ReadInOrder(w)'
  <2>1. CASE Look(w)
    <3> DEFINE n == IF phase = "thinking" THEN [r EXCEPT !.pc = "die0", !.seq = seq]
                                          ELSE [r EXCEPT !.pc = "exit"]
    <3>1. watcher' = [watcher EXCEPT ![w] = n] /\ r.pc = "loop"
      BY <2>1 DEF Look
    <3>2. /\ n \in Watcher /\ n.pc \in {"die0", "exit"} /\ n.base = r.base
          /\ n.accepted = r.accepted /\ (n.pc = "die0" => n.seq = seq)
      BY <1>0 DEF Types, Watcher
    <3> HIDE DEF n
    <3>3. watcher'[w] = n
      BY <1>0, <3>1 DEF Types
    <3>4. ReadInOrder(w)'
      BY <1>0, <3>1, <3>2, <3>3 DEF Types, ReadInOrder, Watcher
    <3> QED BY <3>1, <3>2, <3>3, <3>4
  <2>2. CASE LoadDie0(w)
    <3> DEFINE n == [r EXCEPT !.pc = "die1", !.read = <<die[0], 0>>]
    <3>1. watcher' = [watcher EXCEPT ![w] = n] /\ r.pc = "die0"
      BY <2>2 DEF LoadDie0
    <3>2. die[0] \in Nat /\ die[0] >= seq
      BY DEF IInv, Types, SeqBehindDice
    <3>3. /\ n.pc = "die1" /\ n.read[1] = die[0] /\ n \in Watcher
          /\ n.base = r.base /\ n.seq = r.seq /\ n.accepted = r.accepted
      BY <1>0, <3>2 DEF Watcher
    <3> HIDE DEF n
    <3>4. watcher'[w] = n /\ r.seq \in Nat
      BY <1>0, <3>1 DEF Types, Watcher
    <3>5. ReadInOrder(w)'
      BY <1>0, <3>1, <3>2, <3>3, <3>4 DEF Types, ReadInOrder
    <3> QED BY <3>1, <3>3, <3>4, <3>5
  <2>3. CASE LoadDie1(w)
    <3> DEFINE n == [r EXCEPT !.pc = "decide", !.read = <<r.read[1], die[1]>>]
    <3>1. watcher' = [watcher EXCEPT ![w] = n] /\ r.pc = "die1"
      BY <2>3 DEF LoadDie1
    <3>2. die[1] \in Nat /\ die[1] >= seq
      BY DEF IInv, Types, SeqBehindDice
    <3>3. /\ n.pc = "decide" /\ n.read[1] = r.read[1] /\ n.read[2] = die[1] /\ n \in Watcher
          /\ n.base = r.base /\ n.seq = r.seq /\ n.accepted = r.accepted
      BY <1>0, <3>2 DEF Watcher
    <3> HIDE DEF n
    <3>4. watcher'[w] = n /\ r.seq \in Nat
      BY <1>0, <3>1 DEF Types, Watcher
    <3>5. ReadInOrder(w)'
      BY <1>0, <3>1, <3>2, <3>3, <3>4 DEF Types, ReadInOrder
    <3> QED BY <3>1, <3>3, <3>4, <3>5
  <2>4. CASE Decide(w)
    <3> DEFINE fresh == r.seq # r.base /\ r.read[1] > 0 /\ r.read[2] > 0
               n == [r EXCEPT !.pc = IF fresh THEN "exit" ELSE "loop", !.read = None,
                              !.seq = 0, !.accepted = IF fresh THEN r.read ELSE r.accepted]
    <3>1. watcher' = [watcher EXCEPT ![w] = n] /\ r.pc = "decide"
      BY <2>4 DEF Decide
    <3>2. fresh => r.read[1] > r.base /\ r.read[2] > r.base
      <4>1. /\ r.base \in Nat /\ r.seq \in Nat
            /\ r.read[1] \in Nat /\ r.read[2] \in Nat
        BY <1>0 DEF Watcher
      <4>2. r.base <= r.seq /\ r.read[1] >= r.seq /\ r.read[2] >= r.seq
        BY <1>0, <3>1 DEF ReadInOrder
      <4> HIDE DEF r
      <4> QED BY <4>1, <4>2
    <3> HIDE DEF fresh
    <3>3. /\ n.pc \in {"exit", "loop"} /\ (n.pc = "loop" <=> ~fresh)
          /\ n.accepted = IF fresh THEN r.read ELSE r.accepted
          /\ n.base = r.base /\ n \in Watcher
      <4>1. None \in Nat \X Nat
        BY DEF None
      <4>2. CASE fresh
        <5>1. n = [r EXCEPT !.pc = "exit", !.read = None, !.seq = 0, !.accepted = r.read]
          BY <4>2
        <5> HIDE DEF n
        <5> QED BY <1>0, <4>1, <4>2, <5>1 DEF Watcher
      <4>3. CASE ~fresh
        <5>1. n = [r EXCEPT !.pc = "loop", !.read = None, !.seq = 0, !.accepted = r.accepted]
          BY <4>3
        <5> HIDE DEF n
        <5> QED BY <1>0, <4>1, <4>3, <5>1 DEF Watcher
      <4> QED BY <4>2, <4>3
    <3> HIDE DEF n
    <3>4. watcher'[w] = n /\ r.accepted = None
      BY <1>0, <3>1 DEF Types, ReadInOrder
    <3>5. ReadInOrder(w)'
      BY <1>0, <3>1, <3>2, <3>3, <3>4 DEF Types, ReadInOrder
    <3> QED BY <3>1, <3>3, <3>4, <3>5
  <2>5. CASE Exit(w) \/ Clear(w)
    <3> PICK p \in {"done", "clear"} : watcher' = [watcher EXCEPT ![w] = [r EXCEPT !.pc = p]]
      BY <2>5 DEF Exit, Clear
    <3> DEFINE n == [r EXCEPT !.pc = p]
    <3>1. n.pc = p /\ n.base = r.base /\ n.accepted = r.accepted /\ n \in Watcher
      BY <1>0 DEF Watcher
    <3>2. r.pc \in {"exit", "clear"}
      BY <2>5 DEF Exit, Clear
    <3> HIDE DEF n
    <3>3. watcher' = [watcher EXCEPT ![w] = n] /\ watcher'[w] = n
      BY <1>0 DEF Types, n
    <3>4. ReadInOrder(w)'
      BY <1>0, <3>1, <3>2, <3>3 DEF ReadInOrder
    <3> QED BY <3>1, <3>3, <3>4
  <2> QED BY <2>1, <2>2, <2>3, <2>4, <2>5 DEF WatcherStep
<1>2. Types'
  BY <1>0, <1>1 DEF Types
<1>3. ASSUME NEW v \in Work PROVE ReadInOrder(v)'
  <2>1. CASE v = w
    BY <1>1, <2>1
  <2>2. CASE v # w
    <3>1. watcher'[v] = watcher[v]
      BY <1>0, <1>1, <2>2 DEF Types
    <3> QED BY <1>0, <3>1 DEF IInv, ReadInOrder
  <2> QED BY <2>1, <2>2
<1>4. ArmedInTurn'
  BY <1>0, <1>1 DEF IInv, Types, ArmedInTurn
<1> QED
  BY <1>0, <1>2, <1>3, <1>4 DEF IInv, SeqBehindDice

LEMMA EngineStepKeeps == ASSUME IInv, EngineStep PROVE IInv'
<1>0. Types
  BY DEF IInv
<1>1. CASE BeginWork
  <2> DEFINE a == engine.works + 1
  <2>0. a \in Work /\ engine.works \in Nat
    BY <1>0, <1>1, LiveDiceBounds DEF BeginWork, Types, Engine, Work
  <2> DEFINE n == [watcher[a] EXCEPT !.pc = "loop", !.base = seq]
  <2>1. /\ a \in Work /\ UNCHANGED <<seq, die>>
        /\ engine' = [engine EXCEPT !.pc = "work", !.works = a]
        /\ watcher' = [watcher EXCEPT ![a] = n]
    <3>1. watcher' = [watcher EXCEPT ![a].pc = "loop", ![a].base = seq]
      BY <1>1 DEF BeginWork
    <3>2. watcher' = [watcher EXCEPT ![a] = n]
      BY <1>0, <2>0, <3>1 DEF Types, Engine
    <3> QED BY <1>1, <2>0, <3>2 DEF BeginWork
  <2>2. watcher[a].pc = "none" /\ watcher[a] \in Watcher /\ engine.pc = "idle"
    BY <1>0, <1>1, <2>1 DEF IInv, ArmedInTurn, Types, Engine, BeginWork
  <2>3. Types'
    <3>1. n \in Watcher
      BY <1>0, <2>2 DEF Types, Engine, Watcher
    <3> HIDE DEF n
    <3>2. watcher' \in [Work -> Watcher]
      BY <1>0, <2>1, <3>1 DEF Types, Engine
    <3>3. engine' \in Engine
      <4>1. a \in Nat
        BY <2>0
      <4> HIDE DEF a
      <4> QED BY <1>0, <2>1, <4>1 DEF Types, Engine
    <3> QED BY <1>0, <2>1, <3>2, <3>3 DEF Types
  <2>4. ASSUME NEW v \in Work PROVE ReadInOrder(v)'
    <3>1. CASE v = a
      <4>1. watcher'[v] = [watcher[a] EXCEPT !.pc = "loop", !.base = seq]
        BY <1>0, <2>1, <3>1 DEF Types, Engine
      <4>2. watcher'[v].pc = "loop" /\ watcher'[v].base = seq
            /\ watcher'[v].accepted = watcher[a].accepted
        BY <2>2, <4>1 DEF Watcher
      <4>3. watcher[a].accepted = None /\ seq \in Nat
        BY <1>0, <2>1, <2>2 DEF IInv, ReadInOrder, Types, Engine
      <4> QED BY <2>1, <4>2, <4>3 DEF ReadInOrder
    <3>2. CASE v # a
      <4>1. watcher'[v] = watcher[v]
        BY <1>0, <2>1, <3>2 DEF Types, Engine
      <4> QED BY <2>1, <4>1 DEF IInv, ReadInOrder
    <3> QED BY <3>1, <3>2
  <2>5. ArmedInTurn'
    <3> SUFFICES ASSUME NEW v \in Work, v > a PROVE watcher'[v].pc = "none"
      BY <1>0, <2>1 DEF ArmedInTurn, Types, Engine
    <3>1. v > engine.works /\ v # a
      BY <1>0 DEF Types, Engine, Work
    <3> QED BY <1>0, <2>1, <3>1 DEF IInv, ArmedInTurn, Types, Engine
  <2>6. SeqBehindDice'
    <3>1. engine'.pc = "work" /\ engine'.rolls = engine.rolls
      BY <1>0, <2>1 DEF Types, Engine
    <3> QED BY <2>1, <2>2, <3>1 DEF IInv, SeqBehindDice
  <2> QED BY <2>3, <2>4, <2>5, <2>6 DEF IInv
<1>2. CASE BeginRoll
  <2>1. /\ UNCHANGED <<seq, die, watcher>> /\ engine.pc \in {"work", "idle"}
        /\ engine' = [engine EXCEPT !.pc = IF engine.pc = "work" THEN "workRoll" ELSE "humanRoll",
                                    !.rolls = @ + 1, !.stored = {}]
    BY <1>0, <1>2 DEF BeginRoll, Types, Engine
  <2>2. /\ engine'.pc \in {"workRoll", "humanRoll"} /\ engine'.works = engine.works
        /\ engine'.rolls = engine.rolls + 1 /\ engine'.stored = {}
        /\ engine' \in Engine
    <3> DEFINE p == IF engine.pc = "work" THEN "workRoll" ELSE "humanRoll"
               k == engine.rolls + 1
    <3>1. p \in {"workRoll", "humanRoll"} /\ k \in Nat
      BY <1>0 DEF Types, Engine
    <3>2. engine' = [engine EXCEPT !.pc = p, !.rolls = k, !.stored = {}]
      BY <2>1
    <3> HIDE DEF p, k
    <3>3. /\ engine'.pc = p /\ engine'.works = engine.works /\ engine'.rolls = k
          /\ engine'.stored = {}
      BY <1>0, <3>2 DEF Types, Engine
    <3>4. engine' \in Engine
      BY <1>0, <3>1, <3>2 DEF Types, Engine
    <3> QED BY <3>1, <3>3, <3>4 DEF k
  <2>3. Types' /\ ArmedInTurn' /\ \A w \in Work : ReadInOrder(w)'
    BY <1>0, <2>1, <2>2 DEF IInv, Types, Engine, ReadInOrder, ArmedInTurn
  <2>4. engine.rolls = seq
    BY <2>1 DEF IInv, SeqBehindDice
  <2>5. SeqBehindDice'
    BY <2>1, <2>2, <2>4 DEF IInv, SeqBehindDice
  <2> QED BY <2>3, <2>5 DEF IInv
<1>3. ASSUME NEW d \in {0, 1}, StoreDie(d) PROVE IInv'
  <2>1. /\ UNCHANGED <<seq, watcher>> /\ die' = [die EXCEPT ![d] = engine.rolls]
        /\ engine' = [engine EXCEPT !.stored = @ \cup {d}]
        /\ engine.pc \in {"workRoll", "humanRoll"}
    BY <1>3 DEF StoreDie
  <2>2. Types' /\ ArmedInTurn' /\ \A w \in Work : ReadInOrder(w)'
    BY <1>0, <2>1 DEF IInv, Types, Engine, ReadInOrder, ArmedInTurn
  <2>3. SeqBehindDice'
    <3>1. engine'.pc = engine.pc /\ engine'.rolls = engine.rolls
          /\ engine'.stored = engine.stored \cup {d} /\ engine.rolls = seq + 1
      BY <1>0, <2>1 DEF IInv, Types, Engine, SeqBehindDice
    <3>2. ASSUME NEW e \in {0, 1}
          PROVE  die'[e] >= seq /\ (e \in engine'.stored => die'[e] = engine.rolls)
      <4>1. CASE e = d
        BY <1>0, <2>1, <3>1, <4>1 DEF Types, Engine
      <4>2. CASE e # d
        BY <1>0, <2>1, <3>1, <4>2 DEF IInv, Types, Engine, SeqBehindDice
      <4> QED BY <4>1, <4>2
    <3>3. engine'.stored \subseteq {0, 1}
      BY <1>0, <3>1 DEF Types, Engine
    <3> QED BY <2>1, <3>1, <3>2, <3>3 DEF SeqBehindDice
  <2> QED BY <2>2, <2>3 DEF IInv
<1>4. CASE Announce
  <2>1. /\ UNCHANGED <<die, watcher>> /\ seq' = seq + 1
        /\ engine.pc \in {"workRoll", "humanRoll"} /\ engine.stored = {0, 1}
        /\ engine' = [engine EXCEPT !.pc = IF @ = "workRoll" THEN "work" ELSE "idle"]
    BY <1>4 DEF Announce
  <2>2. Types' /\ ArmedInTurn'
    BY <1>0, <2>1 DEF IInv, Types, Engine, ArmedInTurn
  <2>3. ASSUME NEW v \in Work PROVE ReadInOrder(v)'
    <3>1. watcher[v] \in Watcher
      BY <1>0 DEF Types, Engine
    <3> QED BY <1>0, <2>1, <3>1 DEF IInv, Types, Engine, ReadInOrder, Watcher
  <2>4. SeqBehindDice'
    BY <1>0, <2>1 DEF IInv, Types, Engine, SeqBehindDice
  <2> QED BY <2>2, <2>3, <2>4 DEF IInv
<1>5. CASE EndWork
  <2>1. UNCHANGED <<seq, die, watcher>> /\ engine.pc = "work"
        /\ engine' = [engine EXCEPT !.pc = "idle"]
    BY <1>5 DEF EndWork
  <2> QED BY <1>0, <2>1 DEF IInv, Types, Engine, SeqBehindDice, ReadInOrder, ArmedInTurn
<1>6. CASE NextGame
  BY <1>6 DEF NextGame, IInv, Types, Engine, SeqBehindDice, ReadInOrder, ArmedInTurn
<1> QED
  BY <1>1, <1>2, <1>3, <1>4, <1>5, <1>6 DEF EngineStep

LEMMA StepKeepsIInv == IInv /\ [Next]_vars => IInv'
<1> SUFFICES ASSUME IInv, [Next]_vars PROVE IInv'
  OBVIOUS
<1>1. CASE UNCHANGED vars
  BY <1>1 DEF vars, IInv, Types, SeqBehindDice, ReadInOrder, ArmedInTurn
<1> QED
  BY <1>1, EngineStepKeeps, WatcherStepKeeps DEF Next

---------------------------------------------------------------------------

\* "A stale previous roll can never be mistaken for this one" (GameViewModel,
\* watchEngineDice): the dice a watcher accepts are of rolls begun after its work, though
\* the two of them need not be of one roll.
THEOREM FreshCorrect == Spec => []AcceptedIsFresh
<1>1. IInv => AcceptedIsFresh
  BY DEF IInv, ReadInOrder, AcceptedIsFresh
<1> QED
  BY <1>1, InitIInv, StepKeepsIInv, PTL DEF Spec

====
