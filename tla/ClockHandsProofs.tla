---- MODULE ClockHandsProofs ----
(***************************************************************************)
(* Proofs about ClockHands, for any number of matches started, restarts,   *)
(* pauses and turns and any length of the engine's queue: the variables    *)
(* stay in their types, the end screen and the claim of a match decided on *)
(* the board, and that only the poller of the current job is not cancelled.*)
(***************************************************************************)
EXTENDS ClockHands, FiniteSetTheorems, FunctionTheorems, TLAPS

Bodies == [do : {"start", "restart", "next", "turn", "roll", "cube", "answer", "entry", "collect"},
           match : Nat]

\* Where a thread is within clockHandTo, clockFlag and onClockTimeout.
InHand == {"hand", "track", "native", "flag", "timeout", "claim"}

EnginePc == InHand \cup {"idle", "start", "arm", "untrack", "launch", "next", "begin", "play",
                         "restart", "settle", "over", "post", "collect", "entry"}
PollerPc == InHand \cup {"none", "sleep", "look", "rejoin", "settle", "dead"}

Thread == [pc : EnginePc \cup PollerPc, want : Seat \cup {Nobody},
           back : {"launch", "play", "idle", "post", "settle", "dead"}]

\* The bodies the engine thread is in for more than a step.
Doing == {"none", "start", "restart", "next", "turn", "cube", "answer", "entry", "collect"}

\* Where a thread is in its own body: within clockHandTo, where that returns to.
At(t) == IF th[t].pc \in InHand THEN th[t].back ELSE th[t].pc

Starting == {"start", "arm", "untrack", "launch"}

ThreadTypes ==
    /\ th \in [Threads -> Thread]
    /\ th[Engine].pc \in EnginePc /\ At(Engine) \in EnginePc
    /\ \A p \in Pollers : th[p].pc \in PollerPc /\ At(p) \in PollerPc

GameTypes ==
    /\ gnubg \in [match : Nat, over : {"no", "game", "match"}]
    /\ armedFor \in Nat /\ granted \in Seat \cup {Nobody}
    /\ queue \in Seq(Bodies)
    /\ task.do \in Doing
    /\ phase \in {"human", "thinking", "gameOver"}
    /\ tracked \in -2..1 /\ job \in 0..MaxStarts /\ cancelled \subseteq Pollers
    /\ claims \in [Match -> {"none", "due", "made"}]
    /\ user \in [starts : Nat, restarts : Nat, pauses : Nat, turns : Nat, entries : Nat]

Flags ==
    /\ paused \in BOOLEAN /\ latched \in BOOLEAN /\ collected \in BOOLEAN
    /\ captured \in BOOLEAN

Types == ThreadTypes /\ GameTypes /\ Flags

\* The bodies the engine's queue holds of one kind.
Waiting(q, do) == Cardinality({i \in DOMAIN q : q[i].do = do})

\* The matches the player has asked for or may still ask for, by either button.
StartsLeft   == Waiting(queue, "start") + user.starts
RestartsLeft == Waiting(queue, "restart") + user.restarts

\* What is still to be started, and what of it is still to launch its poller and to
\* reach gnubg.
LaunchAhead == IF At(Engine) \in Starting THEN 1 ELSE 0
PlayAhead   == IF At(Engine) \in Starting \cup {"restart"}
                  \/ (At(Engine) \in {"begin", "play"} /\ task.do = "start") THEN 1 ELSE 0

\* The bounds on the player's taps bound the pollers and the matches: there is one to
\* launch whenever Launch asks for it.
CountInv ==
    /\ job + LaunchAhead + StartsLeft <= MaxStarts
    /\ gnubg.match + PlayAhead + StartsLeft + RestartsLeft <= MaxStarts + MaxRestarts
    /\ armedFor \in Match

\* Under the latch gnubg is not shown at work: beginEngineWork is refused (GameViewModel
\* 1180-1184), and an end is posted that came while it was.
LatchedScreen == latched /\ phase = "thinking" => At(Engine) = "post"

\* A match that is due to be collected is the one gnubg has just decided: its end has yet
\* to be projected, for the first time and with the collection still armed, or the claim
\* is being made.
DueInv ==
    \A m \in Match : claims[m] = "due" =>
      /\ m = gnubg.match
      /\ \/ At(Engine) = "over" /\ gnubg.over = "match" /\ ~latched /\ ~collected
         \/ At(Engine) = "post" /\ th[Engine].pc = "claim"

\* Which body the engine thread is in; the clock is ahead of gnubg only while a match is
\* being started.
LatchInv ==
    /\ LatchedScreen
    /\ At(Engine) \in Starting => task.do = "start"
    /\ At(Engine) = "next" => task.do = "next"
    /\ armedFor <= gnubg.match + 1
    /\ armedFor > gnubg.match =>
         \/ At(Engine) \in Starting
         \/ At(Engine) \in {"begin", "play"} /\ task.do = "start"
    /\ DueInv

\* The pollers are launched in turn; those of earlier jobs are cancelled, and so is the
\* current one when another is about to be launched.
PollerInv ==
    /\ \A p \in Pollers : p > job <=> th[p].pc = "none"
    /\ \A p \in Pollers : p < job => p \in cancelled
    /\ At(Engine) \in Starting \ {"start"} /\ job # 0 => job \in cancelled

\* Every poller but that of the current job has been cancelled or has ended: whoever still
\* looks at the clock without being told to stop is the one clockJob holds.
OnlyTheJobPolls ==
    \A p \in Pollers : th[p].pc \notin {"none", "dead"} /\ p \notin cancelled => p = job

IInv == Types /\ CountInv /\ LatchInv /\ PollerInv

---------------------------------------------------------------------------
(* The threads, and the bodies that wait.                                  *)

\* Thread t is sent to pc, with back noted as where to return; the others stay.
Moved(t, pc, back) ==
    /\ th' \in [Threads -> Thread]
    /\ th'[t].pc = pc /\ th'[t].back = back
    /\ \A u \in Threads \ {t} : th'[u] = th[u]

LEMMA GotoMoves ==
  ASSUME Types, NEW t \in Threads, NEW pc \in EnginePc \cup PollerPc, Goto(t, pc)
  PROVE  Moved(t, pc, th[t].back)
  BY DEF Types, ThreadTypes, GameTypes, Flags, Thread, Goto, Moved

LEMMA CallMoves ==
  ASSUME Types, NEW t \in Threads, NEW s \in Seat \cup {Nobody},
         NEW back \in {"launch", "play", "idle", "post", "settle", "dead"}, CallHandTo(t, s, back)
  PROVE  Moved(t, "hand", back) /\ th'[t].want = s
<1>1. [th[t] EXCEPT !.pc = "hand", !.want = s, !.back = back] \in Thread
  <2>1. th[t] \in Thread /\ "hand" \in EnginePc
    BY DEF Types, ThreadTypes, GameTypes, Flags, EnginePc, InHand
  <2> QED BY <2>1 DEF Thread
<1>2. th' = [th EXCEPT ![t] = [th[t] EXCEPT !.pc = "hand", !.want = s, !.back = back]]
  BY DEF Types, ThreadTypes, GameTypes, Flags, CallHandTo
<1> QED BY <1>1, <1>2 DEF Types, ThreadTypes, GameTypes, Flags, Thread, Moved

LEMMA ReturnMoves ==
  ASSUME Types, NEW t \in Threads, Return(t)
  PROVE  Moved(t, th[t].back, "idle")
<1>1. [th[t] EXCEPT !.pc = th[t].back, !.want = Nobody, !.back = "idle"] \in Thread
  <2>1. th[t] \in Thread
    BY DEF Types, ThreadTypes, GameTypes, Flags
  <2>2. th[t].back \in EnginePc \cup PollerPc
    BY <2>1 DEF Thread, EnginePc, PollerPc
  <2> QED BY <2>1, <2>2 DEF Thread
<1>2. th' = [th EXCEPT ![t] = [th[t] EXCEPT !.pc = th[t].back, !.want = Nobody, !.back = "idle"]]
  BY DEF Types, ThreadTypes, GameTypes, Flags, Return
<1> QED BY <1>1, <1>2 DEF Types, ThreadTypes, GameTypes, Flags, Thread, Moved

LEMMA MovedAt ==
  ASSUME NEW t \in Threads, NEW pc, NEW back, Moved(t, pc, back)
  PROVE  /\ At(t)' = IF pc \in InHand THEN back ELSE pc
         /\ \A u \in Threads \ {t} : At(u)' = At(u)
  BY DEF Moved, At

\* The engine thread goes on in its own bodies, a poller in its rounds.
LEMMA EngineMoves ==
  ASSUME Types, NEW pc \in EnginePc, NEW back, pc \in InHand => back \in EnginePc,
         Moved(Engine, pc, back)
  PROVE  /\ ThreadTypes' /\ th'[Engine].pc = pc
         /\ At(Engine)' = IF pc \in InHand THEN back ELSE pc
         /\ \A p \in Pollers : th'[p] = th[p]
<1>1. /\ Engine \in Threads /\ Engine \notin Pollers /\ Pollers \subseteq Threads
  BY DEF Threads, Engine, Pollers
<1>2. \A p \in Pollers : th'[p] = th[p] /\ At(p)' = At(p)
  BY <1>1, MovedAt DEF Moved
<1>3. At(Engine)' = IF pc \in InHand THEN back ELSE pc
  BY <1>1, MovedAt
<1> QED BY <1>2, <1>3 DEF Moved, Types, ThreadTypes

LEMMA PollerMoves ==
  ASSUME Types, NEW p \in Pollers, NEW pc \in PollerPc, NEW back, pc \in InHand => back \in PollerPc,
         Moved(p, pc, back)
  PROVE  /\ ThreadTypes' /\ th'[p].pc = pc
         /\ th'[Engine] = th[Engine] /\ At(Engine)' = At(Engine)
         /\ \A q \in Pollers : q # p => th'[q] = th[q]
<1>1. /\ Engine \in Threads /\ Engine \notin Pollers /\ Pollers \subseteq Threads
  BY DEF Threads, Engine, Pollers
<1>2. \A q \in Pollers : q # p => th'[q] = th[q] /\ At(q)' = At(q)
  BY <1>1, MovedAt DEF Moved
<1>3. th'[Engine] = th[Engine] /\ At(Engine)' = At(Engine)
  BY <1>1, MovedAt DEF Moved
<1>4. At(p)' \in PollerPc
  BY <1>1, MovedAt
<1> QED BY <1>2, <1>3, <1>4 DEF Moved, Types, ThreadTypes

LEMMA WaitingType ==
  ASSUME NEW q \in Seq(Bodies), NEW do
  PROVE  Waiting(q, do) \in Nat
<1>1. IsFiniteSet({i \in DOMAIN q : q[i].do = do})
  BY FS_Interval, FS_Subset
<1> QED BY <1>1, FS_CardinalityType DEF Waiting

LEMMA WaitingAppend ==
  ASSUME NEW q \in Seq(Bodies), NEW b \in Bodies, NEW do
  PROVE  /\ Append(q, b) \in Seq(Bodies)
         /\ Waiting(Append(q, b), do) = Waiting(q, do) + IF b.do = do THEN 1 ELSE 0
<1> DEFINE W == {i \in DOMAIN q : q[i].do = do}
           V == {i \in DOMAIN Append(q, b) : Append(q, b)[i].do = do}
<1>1. IsFiniteSet(W) /\ Len(q) + 1 \notin W
  BY FS_Interval, FS_Subset
<1>2. V = IF b.do = do THEN W \cup {Len(q) + 1} ELSE W
  OBVIOUS
<1> HIDE DEF W, V
<1>3. Cardinality(W) \in Nat
  BY <1>1, FS_CardinalityType
<1>4. Cardinality(W \cup {Len(q) + 1}) = Cardinality(W) + 1
  BY <1>1, FS_AddElement
<1>5. Cardinality(V) = Cardinality(W) + IF b.do = do THEN 1 ELSE 0
  BY <1>2, <1>3, <1>4
<1>6. Waiting(q, do) = Cardinality(W) /\ Waiting(Append(q, b), do) = Cardinality(V)
  BY DEF Waiting, W, V
<1>7. Append(q, b) \in Seq(Bodies)
  OBVIOUS
<1> QED BY <1>5, <1>6, <1>7

LEMMA WaitingTail ==
  ASSUME NEW q \in Seq(Bodies), q # <<>>, NEW do
  PROVE  /\ Tail(q) \in Seq(Bodies) /\ Head(q) \in Bodies
         /\ Waiting(q, do) = Waiting(Tail(q), do) + IF Head(q).do = do THEN 1 ELSE 0
<1> DEFINE W == {i \in DOMAIN q : q[i].do = do}
           V == {i \in DOMAIN Tail(q) : Tail(q)[i].do = do}
           f == [i \in V |-> i + 1]
<1>1. IsFiniteSet(W)
  BY FS_Interval, FS_Subset
<1>2. IsFiniteSet(V)
  BY FS_Interval, FS_Subset
<1>3. f \in Bijection(V, W \ {1})
  <2>1. \A i \in V : i + 1 \in W \ {1}
    OBVIOUS
  <2>2. \A j \in W \ {1} : j - 1 \in V /\ (j - 1) + 1 = j
    OBVIOUS
  <2>3. \A i, k \in V : i + 1 = k + 1 => i = k
    OBVIOUS
  <2> HIDE DEF V, W
  <2>4. f \in [V -> W \ {1}]
    BY <2>1
  <2>5. \A j \in W \ {1} : \E i \in V : f[i] = j
    BY <2>2
  <2>6. \A i, k \in V : f[i] = f[k] => i = k
    BY <2>3
  <2> HIDE DEF f
  <2> QED BY <2>4, <2>5, <2>6, Fun_IsBij
<1>4. Cardinality(W \ {1}) = Cardinality(V)
  BY <1>2, <1>3, FS_Bijection DEF ExistsBijection
<1>5. 1 \in W <=> Head(q).do = do
  OBVIOUS
<1> HIDE DEF W, V, f
<1>6. Cardinality(W) \in Nat
  BY <1>1, FS_CardinalityType
<1>7. Cardinality(W \ {1}) = IF 1 \in W THEN Cardinality(W) - 1 ELSE Cardinality(W)
  BY <1>1, FS_RemoveElement
<1>8. Cardinality(W) = Cardinality(V) + IF Head(q).do = do THEN 1 ELSE 0
  BY <1>4, <1>5, <1>6, <1>7
<1>9. Tail(q) \in Seq(Bodies) /\ Head(q) \in Bodies
  OBVIOUS
<1>10. Waiting(q, do) = Cardinality(W) /\ Waiting(Tail(q), do) = Cardinality(V)
  BY DEF Waiting, W, V
<1> QED BY <1>8, <1>9, <1>10

---------------------------------------------------------------------------

LEMMA InitIInv == Init => IInv
<1> SUFFICES ASSUME Init PROVE IInv
  OBVIOUS
<1> USE ClockHandsBounds DEF Init, At, InHand, Starting
<1>1. /\ th \in [Threads -> Thread] /\ th[Engine].pc = "idle"
      /\ \A p \in Pollers : th[p].pc = "none"
  BY DEF Thread, EnginePc, PollerPc, Nobody, Threads, Engine, Pollers
<1>2. user \in [starts : Nat, restarts : Nat, pauses : Nat, turns : Nat, entries : Nat]
      /\ user.starts \in 0..MaxStarts /\ user.restarts \in 0..MaxRestarts
  OBVIOUS
<1>3. Types
  <2>1. queue \in Seq(Bodies)
    OBVIOUS
  <2>2. job \in 0..MaxStarts /\ cancelled \subseteq Pollers
    OBVIOUS
  <2>3. th[Engine].pc \in EnginePc /\ At(Engine) \in EnginePc
        /\ \A p \in Pollers : th[p].pc \in PollerPc /\ At(p) \in PollerPc
    BY <1>1 DEF EnginePc, PollerPc
  <2>4. task.do = "none"
    BY DEF NoBody, Body
  <2>5. gnubg \in [match : Nat, over : {"no", "game", "match"}]
    OBVIOUS
  <2>6. armedFor \in Nat /\ granted \in Seat \cup {Nobody} /\ tracked \in -2..1
    OBVIOUS
  <2>7. /\ phase \in {"human", "thinking", "gameOver"} /\ paused \in BOOLEAN
        /\ latched \in BOOLEAN /\ collected \in BOOLEAN /\ captured \in BOOLEAN
        /\ claims \in [Match -> {"none", "due", "made"}]
    OBVIOUS
  <2> HIDE DEF Init, At
  <2> QED BY <1>1, <1>2, <2>1, <2>2, <2>3, <2>4, <2>5, <2>6, <2>7 DEF Types, ThreadTypes, GameTypes, Flags, Doing
<1>4. Waiting(queue, "start") = 0 /\ Waiting(queue, "restart") = 0
  BY FS_EmptySet DEF Waiting
<1>5. CountInv
  <2>1. LaunchAhead = 0 /\ PlayAhead = 0 /\ StartsLeft = user.starts /\ RestartsLeft = user.restarts
    BY <1>1, <1>2, <1>4 DEF LaunchAhead, PlayAhead, StartsLeft, RestartsLeft
  <2>2. job = 0 /\ gnubg.match = 0 /\ armedFor \in Match
    BY DEF Match
  <2> QED BY <1>2, <2>1, <2>2 DEF CountInv
<1>6. LatchInv
  BY <1>1 DEF LatchInv, LatchedScreen, DueInv
<1>7. PollerInv
  BY <1>1 DEF PollerInv, Pollers
<1> QED BY <1>3, <1>5, <1>6, <1>7 DEF IInv

---------------------------------------------------------------------------
(* Steps in which the engine thread stays within its body.                 *)

\* Nothing is latched, no claim falls due and none that is due is missed, and no job is
\* changed.
LEMMA GameStays ==
  ASSUME IInv, UNCHANGED <<gnubg, task, job, armedFor>>, phase' \in {phase, "human"},
         latched' => latched, At(Engine)' = At(Engine), cancelled \subseteq cancelled',
         \A p \in Pollers : th'[p].pc = "none" <=> th[p].pc = "none",
         \A m \in Match : claims'[m] = "due" =>
           /\ claims[m] = "due" /\ collected' = collected
           /\ th[Engine].pc = "claim" => th'[Engine].pc = "claim"
  PROVE  LatchInv' /\ PollerInv'
<1>1. LatchInv'
  <2>1. DueInv'
    BY DEF IInv, LatchInv, DueInv
  <2>2. LatchedScreen'
    BY DEF IInv, LatchInv, LatchedScreen
  <2> QED BY <2>1, <2>2 DEF IInv, LatchInv
<1>2. PollerInv'
  BY DEF IInv, PollerInv
<1> QED BY <1>1, <1>2

\* A step of clockHandTo, clockFlag or onClockTimeout, on whichever thread.
LEMMA HandKeeps ==
  ASSUME IInv, NEW t \in Threads, HandStep(t) \/ HandNative(t)
  PROVE  IInv'
<1> USE DEF IInv
<1>1. /\ th[t].pc \in InHand /\ th[t] \in Thread
      /\ UNCHANGED <<gnubg, phase, task, latched, job, armedFor, user, captured, paused>>
  BY DEF Types, ThreadTypes, GameTypes, Flags, HandStep, HandCheck, HandTrack, HandNative, Flag, Timeout, Claim, InHand, gameVars,
     pollVars, watch, clockVars, main
<1>2. \/ \E pc \in InHand : Moved(t, pc, th[t].back)
      \/ Moved(t, th[t].back, "idle")
  <2>1. CASE Return(t)
    BY <2>1, ReturnMoves DEF HandStep, HandCheck, HandTrack, HandNative, Flag, Timeout, Claim
  <2>2. ASSUME NEW pc \in {"track", "native", "flag", "timeout", "claim"}, Goto(t, pc)
        PROVE  \E c \in InHand : Moved(t, c, th[t].back)
    BY <2>2, GotoMoves DEF InHand, EnginePc
  <2> QED
    BY <2>1, <2>2 DEF HandStep, HandCheck, HandTrack, HandNative, Flag, Timeout, Claim
<1>3. /\ At(t) = th[t].back /\ \A u \in Threads : At(u)' = At(u)
      /\ \A p \in Pollers : th'[p].pc = "none" <=> th[p].pc = "none"
      /\ th' \in [Threads -> Thread]
      /\ th'[t].pc \in InHand \cup {At(t)} /\ \A u \in Threads \ {t} : th'[u] = th[u]
  <2>1. At(t) = th[t].back /\ th[t].back \notin InHand \cup {"none"} /\ th[t].pc # "none"
    BY <1>1 DEF At, Thread, InHand
  <2>2. "none" \notin InHand
    BY DEF InHand
  <2>3. CASE Moved(t, th[t].back, "idle")
    BY <2>1, <2>2, <2>3, MovedAt DEF Moved, Threads
  <2>4. ASSUME NEW pc \in InHand, Moved(t, pc, th[t].back)
        PROVE  <1>3!1 /\ <1>3!2 /\ <1>3!3 /\ <1>3!4
    BY <2>1, <2>2, <2>4, MovedAt DEF Moved, Threads
  <2> QED BY <1>2, <2>3, <2>4
<1>4. /\ tracked' \in -2..1 /\ granted' \in Seat \cup {Nobody}
      /\ cancelled \subseteq cancelled' /\ cancelled' \subseteq Pollers
      /\ collected' \in BOOLEAN
  <2>1. th[t].want \in -1..1 /\ th[t].want \in Seat \cup {Nobody}
    BY <1>1 DEF Thread, Seat, Nobody
  <2>2. cancelled' = cancelled \/ cancelled' = cancelled \cup ({job} \ {0})
    BY DEF HandStep, HandCheck, HandTrack, HandNative, Flag, Timeout, Claim, pollVars
  <2>3. {job} \ {0} \subseteq Pollers
    BY ClockHandsBounds DEF Types, ThreadTypes, GameTypes, Flags, Pollers
  <2>4. collected' = collected \/ collected' = TRUE
    BY DEF HandStep, HandCheck, HandTrack, HandNative, Flag, Timeout, Claim, book
  <2>5. tracked' = tracked \/ tracked' = th[t].want
    BY DEF HandStep, HandCheck, HandTrack, HandNative, Flag, Timeout, Claim, watch
  <2>6. granted' = granted \/ granted' = th[t].want
    BY DEF HandStep, HandCheck, HandTrack, HandNative, Flag, Timeout, Claim, clockVars
  <2>7. collected' \in BOOLEAN
    BY <2>4 DEF Types, ThreadTypes, GameTypes, Flags
  <2>8. cancelled \subseteq cancelled' /\ cancelled' \subseteq Pollers
    BY <2>2, <2>3 DEF Types, ThreadTypes, GameTypes, Flags
  <2> QED BY <2>1, <2>5, <2>6, <2>7, <2>8 DEF Types, ThreadTypes, GameTypes, Flags
<1>5. /\ queue' \in Seq(Bodies)
      /\ \A do \in {"start", "restart"} : Waiting(queue', do) = Waiting(queue, do)
  <2>1. CASE queue' = queue
    BY <2>1 DEF Types, ThreadTypes, GameTypes, Flags
  <2>2. CASE queue' = Append(queue, Body("collect", Current))
    <3>1. Body("collect", Current) \in Bodies /\ Body("collect", Current).do = "collect"
      BY DEF Types, ThreadTypes, GameTypes, Flags, Bodies, Body, Current
    <3>2. queue \in Seq(Bodies)
      BY DEF Types, ThreadTypes, GameTypes, Flags
    <3> DEFINE b == Body("collect", Current)
    <3> HIDE DEF b
    <3>3. b \in Bodies /\ b.do = "collect" /\ queue' = Append(queue, b)
      BY <2>2, <3>1 DEF b
    <3>4. \A do : Waiting(queue, do) \in Nat
      BY <3>2, WaitingType
    <3> QED BY <3>2, <3>3, <3>4, WaitingAppend
  <2> QED BY <2>1, <2>2 DEF HandStep, HandCheck, HandTrack, HandNative, Flag, Timeout, Claim
<1>6. Types'
  <2>1. th'[Engine].pc \in EnginePc /\ \A p \in Pollers : th'[p].pc \in PollerPc
    <3>1. \A u \in Threads : At(u) \in EnginePc \cup PollerPc
      BY DEF Types, ThreadTypes, GameTypes, Flags, Threads
    <3>2. InHand \subseteq EnginePc /\ InHand \subseteq PollerPc
      BY DEF EnginePc, PollerPc
    <3> QED BY <1>3, <3>1, <3>2 DEF Types, ThreadTypes, GameTypes, Flags, Threads
  <2>2. Engine \in Threads /\ Pollers \subseteq Threads
    BY DEF Threads
  <2>3. At(Engine)' \in EnginePc /\ \A p \in Pollers : At(p)' \in PollerPc
    BY <1>3, <2>2 DEF Types, ThreadTypes, GameTypes, Flags
  <2>4. /\ gnubg' \in [match : Nat, over : {"no", "game", "match"}] /\ armedFor' \in Nat
        /\ task'.do \in Doing
        /\ phase' \in {"human", "thinking", "gameOver"} /\ job' \in 0..MaxStarts
        /\ user' \in [starts : Nat, restarts : Nat, pauses : Nat, turns : Nat, entries : Nat]
    BY <1>1 DEF Types, ThreadTypes, GameTypes, Flags
  <2>5. paused' \in BOOLEAN /\ latched' \in BOOLEAN /\ captured' \in BOOLEAN
    BY <1>1 DEF Types, ThreadTypes, GameTypes, Flags
  <2>6. claims' \in [Match -> {"none", "due", "made"}]
    <3>1. claims' = claims \/ claims' = [claims EXCEPT ![Current] = "made"]
      BY DEF HandStep, HandCheck, HandTrack, HandNative, Flag, Timeout, Claim, book
    <3> QED BY <3>1 DEF Types, GameTypes
  <2> QED BY <1>3, <1>4, <1>5, <2>1, <2>3, <2>4, <2>5, <2>6 DEF Types, ThreadTypes, GameTypes, Flags
<1>7. CountInv'
  <2>1. LaunchAhead' = LaunchAhead /\ PlayAhead' = PlayAhead
    BY <1>1, <1>3 DEF LaunchAhead, PlayAhead, Threads
  <2>2. StartsLeft' = StartsLeft /\ RestartsLeft' = RestartsLeft
    BY <1>1, <1>5 DEF StartsLeft, RestartsLeft
  <2> QED BY <1>1, <2>1, <2>2 DEF CountInv
<1>8. ASSUME NEW m \in Match, claims'[m] = "due"
      PROVE  /\ claims[m] = "due" /\ collected' = collected
             /\ th[Engine].pc = "claim" => th'[Engine].pc = "claim"
  <2>1. CASE Claim(t)
    <3>1. claims' = [claims EXCEPT ![Current] = "made"] /\ claims \in [Match -> {"none", "due", "made"}]
      BY <2>1 DEF Claim, Types, GameTypes
    <3>2. claims[m] = "due" /\ m # Current
      BY <1>8, <3>1
    <3>3. m = gnubg.match /\ (At(Engine) = "over" \/ At(Engine) = "post")
      BY <3>2 DEF LatchInv, DueInv
    <3>4. ~(armedFor > gnubg.match)
      BY <3>3 DEF LatchInv, Starting
    <3> QED BY <3>2, <3>3, <3>4 DEF Current
  <2>2. CASE ~Claim(t)
    <3>1. claims' = claims /\ collected' = collected /\ th[t].pc # "claim"
      BY <2>2 DEF HandStep, HandCheck, HandTrack, HandNative, Flag, Timeout, Claim, book
    <3>2. t # Engine => th'[Engine] = th[Engine]
      BY <1>3 DEF Threads
    <3> QED BY <1>8, <3>1, <3>2
  <2> QED BY <2>1, <2>2
<1>9. LatchInv' /\ PollerInv'
  <2>1. At(Engine)' = At(Engine)
    BY <1>3 DEF Threads
  <2>2. UNCHANGED <<gnubg, phase, task, job, armedFor>> /\ (latched' => latched)
    BY <1>1
  <2>3. cancelled \subseteq cancelled' /\ \A p \in Pollers : th'[p].pc = "none" <=> th[p].pc = "none"
    BY <1>3, <1>4
  <2> HIDE DEF IInv
  <2> QED BY <1>8, <2>1, <2>2, <2>3, GameStays
<1> QED BY <1>6, <1>7, <1>9

\* A poller's round.
LEMMA PollerKeeps ==
  ASSUME IInv, NEW p \in Pollers, PollerStep(p) \/ PollSettle(p)
  PROVE  IInv'
<1> USE DEF IInv
<1>1. /\ th[p].pc \in {"sleep", "look", "rejoin", "settle"} /\ p \in Threads
      /\ UNCHANGED <<gnubg, phase, task, latched, job, armedFor, granted, user, paused, queue,
                     tracked, collected, claims, captured, cancelled>>
  BY DEF PollerStep, Wake, Look, Rejoin, PollSettle, gameVars, pollVars, watch, clockVars, book,
     main, Threads
<1>2. \E pc \in PollerPc \ {"none"} :
        \E back : Moved(p, pc, back) /\ (pc \in InHand => back \in PollerPc)
  <2>1. ASSUME NEW pc \in {"dead", "look", "rejoin", "settle", "sleep"}, Goto(p, pc)
        PROVE  Moved(p, pc, th[p].back) /\ pc \in PollerPc \ {"none"} /\ pc \notin InHand
    BY <1>1, <2>1, GotoMoves DEF PollerPc, InHand
  <2>2. ASSUME NEW s \in Seat \cup {Nobody}, CallHandTo(p, s, "settle")
        PROVE  Moved(p, "hand", "settle")
    BY <1>1, <2>2, CallMoves
  <2>3. ASSUME th' = [th EXCEPT ![p].pc = "timeout", ![p].back = "dead"]
        PROVE  Moved(p, "timeout", "dead")
    <3>1. th[p] \in Thread /\ [th[p] EXCEPT !.pc = "timeout", !.back = "dead"] \in Thread
      <4>1. th[p] \in Thread /\ "timeout" \in PollerPc
        BY <1>1 DEF Types, ThreadTypes, PollerPc, InHand
      <4> QED BY <4>1 DEF Thread
    <3>2. th' = [th EXCEPT ![p] = [th[p] EXCEPT !.pc = "timeout", !.back = "dead"]]
      BY <1>1, <2>3 DEF Types, ThreadTypes
    <3> QED BY <1>1, <3>1, <3>2 DEF Thread, Moved, Types, ThreadTypes
  <2>4. {"hand", "timeout", "settle", "dead"} \subseteq PollerPc \ {"none"}
    BY DEF PollerPc, InHand
  <2>5. Nobody \in Seat \cup {Nobody} /\ Due \in Seat \cup {Nobody}
    BY DEF Due, Seat
  <2>6. CASE Wake(p)
    BY <2>1, <2>2, <2>4, <2>5, <2>6 DEF Wake
  <2>7. CASE Look(p)
    BY <2>1, <2>7 DEF Look
  <2>8. CASE Rejoin(p)
    BY <2>2, <2>4, <2>5, <2>8 DEF Rejoin
  <2>9. CASE PollSettle(p)
    BY <2>1, <2>3, <2>4, <2>9 DEF PollSettle
  <2> QED BY <2>6, <2>7, <2>8, <2>9 DEF PollerStep
<1>3. /\ ThreadTypes' /\ th'[p].pc # "none"
      /\ th'[Engine] = th[Engine] /\ At(Engine)' = At(Engine)
      /\ \A q \in Pollers : q # p => th'[q] = th[q]
  BY <1>2, PollerMoves
<1>4. Types'
  BY <1>1, <1>3 DEF Types, GameTypes, Flags
<1>5. CountInv'
  <2>1. LaunchAhead' = LaunchAhead /\ PlayAhead' = PlayAhead
    BY <1>1, <1>3 DEF LaunchAhead, PlayAhead
  <2>2. StartsLeft' = StartsLeft /\ RestartsLeft' = RestartsLeft
    BY <1>1 DEF StartsLeft, RestartsLeft
  <2> QED BY <1>1, <2>1, <2>2 DEF CountInv
<1>6. \A q \in Pollers : th'[q].pc = "none" <=> th[q].pc = "none"
  BY <1>1, <1>3
<1>7. th[Engine].pc = "claim" => th'[Engine].pc = "claim"
  BY <1>3
<1>8. LatchInv' /\ PollerInv'
  <2> HIDE DEF IInv
  <2> QED BY <1>1, <1>3, <1>6, <1>7, GameStays
<1> QED BY <1>4, <1>5, <1>8

\* What the player taps, and the activity's lifecycle.
LEMMA UserKeeps == ASSUME IInv, UserStep PROVE IInv'
<1> USE DEF IInv
<1>1. /\ UNCHANGED <<gnubg, task, th, job, cancelled, armedFor, granted, tracked, collected,
                     claims>>
      /\ At(Engine)' = At(Engine) /\ \A p \in Pollers : At(p)' = At(p)
      /\ phase' \in {phase, "human"} /\ captured' \in BOOLEAN
  <2>1. /\ UNCHANGED <<gnubg, task, th, job, cancelled, armedFor, granted, tracked, collected,
                       claims>>
        /\ phase' \in {phase, "human"} /\ captured' \in {captured, TRUE, FALSE}
    BY DEF UserStep, TapStart, TapNewMatch, TapTurn, TapEntry, TapUndo, WriteBack, TapNextGame,
       Pause, Resume, gameVars, pollVars, watch, clockVars, book, main
  <2> QED BY <2>1 DEF At, Types, Flags
<1>2. paused' \in BOOLEAN /\ latched' \in BOOLEAN /\ (latched' => latched)
  <2>1. (paused' = paused \/ paused' = TRUE \/ paused' = FALSE) /\ (latched' = latched \/ latched' = FALSE)
    BY DEF UserStep, TapStart, TapNewMatch, TapTurn, TapEntry, TapUndo, WriteBack, TapNextGame,
       Pause, Resume, gameVars, watch
  <2>2. paused \in BOOLEAN /\ latched \in BOOLEAN
    BY DEF Types, GameTypes, Flags
  <2> HIDE DEF IInv
  <2>3. paused' \in BOOLEAN
    BY <2>1, <2>2
  <2>4. latched' = latched => latched' \in BOOLEAN /\ (latched' => latched)
    BY <2>2
  <2>5. latched' = FALSE => latched' \in BOOLEAN /\ (latched' => latched)
    OBVIOUS
  <2> QED BY <2>1, <2>3, <2>4, <2>5
<1>3. /\ queue \in Seq(Bodies)
      /\ user \in [starts : Nat, restarts : Nat, pauses : Nat, turns : Nat, entries : Nat]
      /\ Waiting(queue, "start") \in Nat /\ Waiting(queue, "restart") \in Nat
  BY WaitingType DEF Types, GameTypes, Flags
<1>4. ASSUME NEW do \in {"start", "restart", "next", "turn", "roll", "cube", "answer", "entry"},
             PostBody(do)
      PROVE  /\ queue' \in Seq(Bodies)
             /\ Waiting(queue', "start") = Waiting(queue, "start") + IF do = "start" THEN 1 ELSE 0
             /\ Waiting(queue', "restart") = Waiting(queue, "restart") + IF do = "restart" THEN 1 ELSE 0
  <2>1. Body(do, 0) \in Bodies /\ Body(do, 0).do = do
    BY DEF Bodies, Body
  <2> DEFINE b == Body(do, 0)
  <2>2. b \in Bodies /\ b.do = do /\ queue' = Append(queue, b)
    BY <1>4, <2>1 DEF PostBody
  <2> HIDE DEF b
  <2> QED BY <1>3, <2>2, WaitingAppend
<1>5. /\ user' \in [starts : Nat, restarts : Nat, pauses : Nat, turns : Nat, entries : Nat]
      /\ queue' \in Seq(Bodies)
      /\ StartsLeft' = StartsLeft /\ RestartsLeft' = RestartsLeft
  <2> DEFINE ws == Waiting(queue, "start")
             wr == Waiting(queue, "restart")
             vs == Waiting(queue', "start")
             vr == Waiting(queue', "restart")
  <2> SUFFICES /\ user' \in [starts : Nat, restarts : Nat, pauses : Nat, turns : Nat, entries : Nat]
               /\ queue' \in Seq(Bodies)
               /\ vs + user'.starts = ws + user.starts
               /\ vr + user'.restarts = wr + user.restarts
    BY DEF StartsLeft, RestartsLeft
  <2>1. ws \in Nat /\ wr \in Nat
    BY <1>3
  <2>2. CASE TapStart
    <3>1. user.starts > 0 /\ user' = [user EXCEPT !.starts = @ - 1] /\ PostBody("start")
      BY <2>2 DEF TapStart
    <3>2. queue' \in Seq(Bodies) /\ vs = ws + 1 /\ vr = wr
      BY <1>4, <2>1, <3>1
    <3>3. /\ user' \in [starts : Nat, restarts : Nat, pauses : Nat, turns : Nat, entries : Nat]
          /\ user'.starts = user.starts - 1 /\ user'.restarts = user.restarts
          /\ user.starts \in Nat
      BY <1>3, <3>1
    <3> HIDE DEF ws, wr, vs, vr
    <3> DEFINE u == user.starts
               v == user'.starts
               x == user.restarts
               y == user'.restarts
    <3>4. user' \in [starts : Nat, restarts : Nat, pauses : Nat, turns : Nat, entries : Nat]
      BY <3>3
    <3>5. u \in Nat /\ v \in Nat /\ x \in Nat /\ y \in Nat
      BY <1>3, <3>3
    <3> SUFFICES vs + v = ws + u /\ vr + y = wr + x
      BY <3>2, <3>4
    <3>6. v = u - 1 /\ y = x
      BY <3>3
    <3> HIDE DEF u, v, x, y
    <3> QED BY <2>1, <3>2, <3>5, <3>6
  <2>3. CASE TapNewMatch
    <3>1. user.restarts > 0 /\ user' = [user EXCEPT !.restarts = @ - 1] /\ PostBody("restart")
      BY <2>3 DEF TapNewMatch
    <3>2. queue' \in Seq(Bodies) /\ vs = ws /\ vr = wr + 1
      BY <1>4, <2>1, <3>1
    <3>3. /\ user' \in [starts : Nat, restarts : Nat, pauses : Nat, turns : Nat, entries : Nat]
          /\ user'.restarts = user.restarts - 1 /\ user'.starts = user.starts
          /\ user.restarts \in Nat
      BY <1>3, <3>1
    <3> HIDE DEF ws, wr, vs, vr
    <3> DEFINE u == user.starts
               v == user'.starts
               x == user.restarts
               y == user'.restarts
    <3>4. user' \in [starts : Nat, restarts : Nat, pauses : Nat, turns : Nat, entries : Nat]
      BY <3>3
    <3>5. u \in Nat /\ v \in Nat /\ x \in Nat /\ y \in Nat
      BY <1>3, <3>3
    <3> SUFFICES vs + v = ws + u /\ vr + y = wr + x
      BY <3>2, <3>4
    <3>6. y = x - 1 /\ v = u
      BY <3>3
    <3> HIDE DEF u, v, x, y
    <3> QED BY <2>1, <3>2, <3>5, <3>6
  <2>4. CASE TapTurn \/ TapEntry
    <3>1. PICK do \in {"turn", "roll", "cube", "answer", "entry"} : PostBody(do)
      BY <2>4 DEF TapTurn, TapEntry
    <3>2. \/ user.turns > 0 /\ user' = [user EXCEPT !.turns = @ - 1]
          \/ user.entries > 0 /\ user' = [user EXCEPT !.entries = @ - 1]
      BY <2>4 DEF TapTurn, TapEntry
    <3>3. queue' \in Seq(Bodies) /\ vs = ws /\ vr = wr
      BY <1>4, <2>1, <3>1
    <3>4. /\ user' \in [starts : Nat, restarts : Nat, pauses : Nat, turns : Nat, entries : Nat]
          /\ user'.restarts = user.restarts /\ user'.starts = user.starts
      BY <1>3, <3>2
    <3> HIDE DEF ws, wr, vs, vr
    <3> QED BY <3>3, <3>4
  <2>5. CASE TapNextGame
    <3>1. queue' \in Seq(Bodies) /\ vs = ws /\ vr = wr
      BY <1>4, <2>1, <2>5 DEF TapNextGame
    <3> HIDE DEF ws, wr, vs, vr
    <3> QED BY <1>3, <2>5, <3>1 DEF TapNextGame, main
  <2>6. CASE TapUndo
    <3>1. /\ queue' = queue
          /\ user.entries > 0 /\ user' = [user EXCEPT !.entries = @ - 1]
      BY <2>6 DEF TapUndo
    <3>2. /\ user' \in [starts : Nat, restarts : Nat, pauses : Nat, turns : Nat, entries : Nat]
          /\ user'.restarts = user.restarts /\ user'.starts = user.starts
      BY <1>3, <3>1
    <3> QED BY <1>3, <3>1, <3>2
  <2>7. CASE Pause
    BY <1>3, <2>7 DEF Pause
  <2>8. CASE Resume \/ WriteBack
    BY <1>3, <2>8 DEF Resume, WriteBack, main
  <2> QED BY <2>2, <2>3, <2>4, <2>5, <2>6, <2>7, <2>8 DEF UserStep
<1>6. Types'
  <2>1. phase' \in {"human", "thinking", "gameOver"}
    BY <1>1 DEF Types, GameTypes
  <2> QED BY <1>1, <1>2, <1>5, <2>1 DEF Types, ThreadTypes, GameTypes, Flags
<1>7. CountInv'
  <2>1. LaunchAhead' = LaunchAhead /\ PlayAhead' = PlayAhead
    BY <1>1 DEF LaunchAhead, PlayAhead
  <2> QED BY <1>1, <1>5, <2>1 DEF CountInv
<1>8. LatchInv' /\ PollerInv'
  <2> HIDE DEF IInv
  <2> QED BY <1>1, <1>2, GameStays
<1> QED BY <1>6, <1>7, <1>8

---------------------------------------------------------------------------
(* The engine thread, body by body.                                        *)

LEMMA TakeKeeps == ASSUME IInv, Take PROVE IInv'
<1> USE DEF IInv
<1> DEFINE b  == Head(queue)
           pc == CASE b.do = "turn" -> IF phase = "human" THEN "begin" ELSE "idle"
                   [] b.do = "roll" -> "settle"
                   [] b.do = "cube" -> "begin"
                   [] b.do = "answer" -> "play"
                   [] b.do = "next" -> IF gnubg.over = "match" THEN "idle" ELSE "next"
                   [] OTHER         -> b.do
<1>1. /\ th[Engine].pc = "idle" /\ At(Engine) = "idle" /\ Goto(Engine, pc)
      /\ task' = IF pc \in {"idle", "settle"} THEN NoBody ELSE b
      /\ UNCHANGED <<gnubg, phase, latched, armedFor, granted, job, cancelled, tracked, paused,
                     collected, claims, user,
                     captured>>
  BY DEF Take, EngineAt, At, InHand, clockVars, pollVars, watch, book, main
<1>2. /\ queue' = Tail(queue) /\ queue' \in Seq(Bodies) /\ b \in Bodies
      /\ \A do : Waiting(queue, do) = Waiting(queue', do) + IF b.do = do THEN 1 ELSE 0
  BY WaitingTail DEF Take, Types, GameTypes
<1>3. /\ pc \in {"start", "restart", "next", "begin", "play", "settle", "collect", "entry", "idle"}
      /\ pc = "start" <=> b.do = "start"
      /\ pc = "restart" <=> b.do = "restart"
      /\ pc = "begin" => b.do \in {"turn", "cube"}
      /\ b.do \in {"start", "restart", "next", "turn", "roll", "cube", "answer", "entry", "collect"}
      /\ pc = "next" => b.do = "next"
      /\ pc = "play" => b.do = "answer"
      /\ pc = "collect" => b.do = "collect"
      /\ b.do = "roll" => pc = "settle"
  BY <1>2 DEF Bodies
<1> HIDE DEF b, pc
<1>4. /\ task'.do \in Doing
      /\ pc \in {"start", "begin", "play", "next"} => task'.do = b.do
  BY <1>1, <1>3 DEF NoBody, Body, Doing
<1>5. /\ ThreadTypes' /\ th'[Engine].pc = pc /\ At(Engine)' = pc
      /\ \A p \in Pollers : th'[p] = th[p]
  <2>1. Moved(Engine, pc, th[Engine].back) /\ pc \in EnginePc /\ pc \notin InHand
    BY <1>1, <1>3, GotoMoves DEF EnginePc, InHand, Threads
  <2> QED BY <2>1, EngineMoves
<1>6. Types'
  BY <1>1, <1>2, <1>4, <1>5 DEF Types, GameTypes, Flags
<1>7. CountInv'
  <2>1. /\ LaunchAhead = 0 /\ PlayAhead = 0
        /\ LaunchAhead' = IF b.do = "start" THEN 1 ELSE 0
        /\ PlayAhead' = IF b.do \in {"start", "restart"} THEN 1 ELSE 0
    BY <1>1, <1>3, <1>4, <1>5 DEF LaunchAhead, PlayAhead, Starting
  <2>2. /\ StartsLeft = StartsLeft' + IF b.do = "start" THEN 1 ELSE 0
        /\ RestartsLeft = RestartsLeft' + IF b.do = "restart" THEN 1 ELSE 0
        /\ StartsLeft' \in Nat /\ RestartsLeft' \in Nat
    <3>1. user' = user /\ user.starts \in Nat /\ user.restarts \in Nat
      BY <1>1 DEF Types, GameTypes, Flags
    <3>2. /\ Waiting(queue', "start") \in Nat /\ Waiting(queue', "restart") \in Nat
          /\ Waiting(queue, "start") = Waiting(queue', "start") + IF b.do = "start" THEN 1 ELSE 0
          /\ Waiting(queue, "restart") = Waiting(queue', "restart") + IF b.do = "restart" THEN 1 ELSE 0
      BY <1>2, WaitingType
    <3> QED BY <3>1, <3>2 DEF StartsLeft, RestartsLeft
  <2>3. job' = job /\ gnubg' = gnubg /\ armedFor' = armedFor /\ job \in Nat /\ gnubg.match \in Nat
    BY <1>1 DEF Types, GameTypes, Flags
  <2> DEFINE a == IF b.do = "start" THEN 1 ELSE 0
             c == IF b.do = "restart" THEN 1 ELSE 0
             S == StartsLeft'
             R == RestartsLeft'
  <2>4. a \in 0..1 /\ c \in 0..1 /\ LaunchAhead' = a /\ PlayAhead' = a + c
    BY <1>3, <2>1
  <2>5. S \in Nat /\ R \in Nat /\ StartsLeft = S + a /\ RestartsLeft = R + c
    BY <2>2
  <2>6. job + 0 + StartsLeft <= MaxStarts
        /\ gnubg.match + 0 + StartsLeft + RestartsLeft <= MaxStarts + MaxRestarts
        /\ armedFor \in Match
    BY <2>1 DEF CountInv
  <2> HIDE DEF a, c, S, R
  <2>7. job + a + S <= MaxStarts
    BY <2>3, <2>4, <2>5, <2>6, ClockHandsBounds
  <2>8. gnubg.match + (a + c) + S + R <= MaxStarts + MaxRestarts
    BY <2>3, <2>4, <2>5, <2>6, ClockHandsBounds
  <2> QED BY <2>3, <2>4, <2>6, <2>7, <2>8 DEF CountInv, S, R
<1>8. LatchInv'
  BY <1>1, <1>3, <1>4, <1>5 DEF LatchInv, LatchedScreen, DueInv, Starting
<1>9. PollerInv'
  BY <1>1, <1>3, <1>5 DEF PollerInv, Starting
<1> QED BY <1>6, <1>7, <1>8, <1>9

\* Nothing is taken from the queue or tapped: the counts need only not grow.
LEMMA CountStays ==
  ASSUME IInv, UNCHANGED <<queue, user>>, armedFor' \in Match,
         job' \in Nat, gnubg'.match \in Nat,
         job' + LaunchAhead' <= job + LaunchAhead,
         gnubg'.match + PlayAhead' <= gnubg.match + PlayAhead
  PROVE  CountInv'
<1>1. StartsLeft \in Nat /\ RestartsLeft \in Nat
  <2>1. /\ user.starts \in Nat /\ user.restarts \in Nat
        /\ Waiting(queue, "start") \in Nat /\ Waiting(queue, "restart") \in Nat
    BY WaitingType DEF IInv, Types, GameTypes
  <2> QED BY <2>1 DEF StartsLeft, RestartsLeft
<1>2. StartsLeft' = StartsLeft /\ RestartsLeft' = RestartsLeft
  BY DEF StartsLeft, RestartsLeft
<1>3. LaunchAhead \in Nat /\ LaunchAhead' \in Nat /\ PlayAhead \in Nat /\ PlayAhead' \in Nat
  BY DEF LaunchAhead, PlayAhead
<1>4. job \in Nat /\ gnubg.match \in Nat
  BY ClockHandsBounds DEF IInv, Types, GameTypes
<1>5. /\ job + LaunchAhead + StartsLeft <= MaxStarts
      /\ gnubg.match + PlayAhead + StartsLeft + RestartsLeft <= MaxStarts + MaxRestarts
  BY DEF IInv, CountInv
<1> DEFINE S == StartsLeft
           R == RestartsLeft
           i == job
           j == job'
           k == LaunchAhead
           l == LaunchAhead'
           m == gnubg.match
           n == gnubg'.match
           x == PlayAhead
           y == PlayAhead'
<1>6. /\ S \in Nat /\ R \in Nat /\ i \in Nat /\ j \in Nat /\ k \in Nat /\ l \in Nat
      /\ m \in Nat /\ n \in Nat /\ x \in Nat /\ y \in Nat
  BY <1>1, <1>3, <1>4
<1>7. i + k + S <= MaxStarts /\ m + x + S + R <= MaxStarts + MaxRestarts
  BY <1>5
<1>8. j + l <= i + k /\ n + y <= m + x
  OBVIOUS
<1> SUFFICES j + l + S <= MaxStarts /\ n + y + S + R <= MaxStarts + MaxRestarts
  BY <1>2 DEF CountInv
<1> HIDE DEF S, R, i, j, k, l, m, n, x, y
<1> QED BY <1>6, <1>7, <1>8, ClockHandsBounds

\* startNewGame to startClock: the old job is cancelled before another is launched.
LEMMA StartKeeps == ASSUME IInv, Start PROVE IInv'
<1> USE DEF IInv
<1>1. /\ th[Engine].pc = "start" /\ At(Engine) = "start" /\ Goto(Engine, "arm")
      /\ UNCHANGED <<gnubg, phase, task, queue, armedFor, granted, job, tracked, paused, claims,
                     user, captured>>
      /\ latched' = FALSE /\ collected' = FALSE
      /\ cancelled' = cancelled \cup ({job} \ {0})
  BY DEF Start, EngineAt, At, InHand, clockVars, watch, main, book
<1>2. /\ ThreadTypes' /\ th'[Engine].pc = "arm" /\ At(Engine)' = "arm"
      /\ \A p \in Pollers : th'[p] = th[p]
  <2>1. Moved(Engine, "arm", th[Engine].back) /\ "arm" \in EnginePc /\ "arm" \notin InHand
    BY <1>1, GotoMoves DEF EnginePc, InHand, Threads
  <2> QED BY <2>1, EngineMoves
<1>3. cancelled' \subseteq Pollers /\ (job # 0 => job \in cancelled') /\ cancelled \subseteq cancelled'
  <2>1. cancelled \subseteq Pollers /\ job \in 0..MaxStarts
    BY DEF Types, GameTypes
  <2>2. cancelled' = cancelled \cup ({job} \ {0})
    BY <1>1
  <2>3. job # 0 => job \in Pollers
    BY <2>1, ClockHandsBounds DEF Pollers
  <2> HIDE DEF IInv
  <2> QED BY <2>1, <2>2, <2>3, Zenon
<1>4. Types'
  BY <1>1, <1>2, <1>3 DEF Types, GameTypes, Flags
<1>5. CountInv'
  <2>1. LaunchAhead' = LaunchAhead /\ PlayAhead' = PlayAhead
    BY <1>1, <1>2 DEF LaunchAhead, PlayAhead, Starting
  <2> QED BY <1>1, <2>1 DEF CountInv, StartsLeft, RestartsLeft
<1>6. LatchInv'
  BY <1>1, <1>2 DEF LatchInv, LatchedScreen, DueInv, Starting
<1>7. PollerInv'
  BY <1>1, <1>2, <1>3 DEF PollerInv
<1> QED BY <1>4, <1>5, <1>6, <1>7

LEMMA ArmKeeps == ASSUME IInv, Arm PROVE IInv'
<1> USE DEF IInv
<1>1. /\ th[Engine].pc = "arm" /\ At(Engine) = "arm" /\ Goto(Engine, "untrack")
      /\ UNCHANGED <<gnubg, phase, latched, task, queue, job, cancelled, tracked, paused, collected,
                     claims, user,
                     captured>>
      /\ armedFor' = gnubg.match + 1 /\ granted' = Nobody
  BY DEF Arm, EngineAt, At, InHand, gameVars, pollVars, watch, book, main
<1>2. /\ ThreadTypes' /\ th'[Engine].pc = "untrack" /\ At(Engine)' = "untrack"
      /\ \A p \in Pollers : th'[p] = th[p]
  <2>1. Moved(Engine, "untrack", th[Engine].back) /\ "untrack" \in EnginePc /\ "untrack" \notin InHand
    BY <1>1, GotoMoves DEF EnginePc, InHand, Threads
  <2> QED BY <2>1, EngineMoves
<1>3. Types'
  BY <1>1, <1>2 DEF Types, GameTypes, Flags
<1>4. CountInv'
  <2>1. LaunchAhead' = LaunchAhead /\ PlayAhead' = PlayAhead /\ PlayAhead = 1
    BY <1>1, <1>2 DEF LaunchAhead, PlayAhead, Starting
  <2>2. StartsLeft \in Nat /\ RestartsLeft \in Nat /\ gnubg.match \in Nat
    <3>1. /\ user.starts \in Nat /\ user.restarts \in Nat /\ gnubg.match \in Nat
          /\ Waiting(queue, "start") \in Nat /\ Waiting(queue, "restart") \in Nat
      BY WaitingType DEF Types, GameTypes, Flags
    <3> QED BY <3>1 DEF StartsLeft, RestartsLeft
  <2>3. gnubg.match + 1 \in Match
    BY <2>1, <2>2, ClockHandsBounds DEF CountInv, Match
  <2> QED BY <1>1, <2>1, <2>3 DEF CountInv, StartsLeft, RestartsLeft
<1>5. LatchInv'
  BY <1>1, <1>2 DEF LatchInv, LatchedScreen, DueInv, Starting
<1>6. PollerInv'
  BY <1>1, <1>2 DEF PollerInv, Starting
<1> QED BY <1>3, <1>4, <1>5, <1>6

LEMMA UntrackKeeps == ASSUME IInv, Untrack PROVE IInv'
<1> USE DEF IInv
<1>1. /\ th[Engine].pc = "untrack" /\ At(Engine) = "untrack" /\ CallHandTo(Engine, Due, "launch")
      /\ UNCHANGED <<gnubg, phase, latched, task, queue, armedFor, granted, job, cancelled, paused,
                     collected, claims, user,
                     captured>>
      /\ tracked' = -2
  BY DEF Untrack, EngineAt, At, InHand, clockVars, gameVars, pollVars, book, main
<1>2. /\ ThreadTypes' /\ th'[Engine].pc = "hand" /\ At(Engine)' = "launch"
      /\ \A p \in Pollers : th'[p] = th[p]
  <2>1. Due \in Seat \cup {Nobody}
    BY DEF Due, Seat
  <2>2. Moved(Engine, "hand", "launch") /\ "launch" \in EnginePc /\ "hand" \in EnginePc /\ "hand" \in InHand
    BY <1>1, <2>1, CallMoves DEF EnginePc, InHand, Threads
  <2> QED BY <2>2, EngineMoves
<1>3. Types'
  <2>1. tracked' \in -2..1
    BY <1>1
  <2> QED BY <1>1, <1>2, <2>1 DEF Types, GameTypes, Flags
<1>4. CountInv'
  <2>1. LaunchAhead' = LaunchAhead /\ PlayAhead' = PlayAhead
    BY <1>1, <1>2 DEF LaunchAhead, PlayAhead, Starting
  <2> QED BY <1>1, <2>1 DEF CountInv, StartsLeft, RestartsLeft
<1>5. LatchInv'
  BY <1>1, <1>2 DEF LatchInv, LatchedScreen, DueInv, Starting
<1>6. PollerInv'
  BY <1>1, <1>2 DEF PollerInv, Starting
<1> QED BY <1>3, <1>4, <1>5, <1>6

\* There is a poller left to launch, the next one; it becomes the job.
LEMMA LaunchKeeps == ASSUME IInv, Launch PROVE IInv'
<1> USE DEF IInv
<1> DEFINE next == CHOOSE p \in Pollers : /\ th[p].pc = "none"
                                         /\ \A q \in Pollers : th[q].pc = "none" => p <= q
<1>1. /\ th[Engine].pc = "launch" /\ At(Engine) = "launch" /\ job' = next
      /\ th' = [th EXCEPT ![next].pc = "sleep", ![Engine].pc = "begin"]
      /\ UNCHANGED <<gnubg, phase, latched, task, queue, armedFor, granted, cancelled, tracked,
                     paused, collected, claims, user,
                     captured>>
  BY DEF Launch, EngineAt, At, InHand, clockVars, gameVars, watch, book, main
<1>2. job \in 0..MaxStarts /\ job + 1 \in Pollers /\ LaunchAhead = 1 /\ PlayAhead = 1
  <2>1. LaunchAhead = 1 /\ PlayAhead = 1
    BY <1>1 DEF LaunchAhead, PlayAhead, Starting
  <2>2. StartsLeft \in Nat /\ job \in 0..MaxStarts
    <3>1. user.starts \in Nat /\ Waiting(queue, "start") \in Nat /\ job \in 0..MaxStarts
      BY WaitingType DEF Types, GameTypes
    <3> QED BY <3>1 DEF StartsLeft
  <2> QED BY <2>1, <2>2, ClockHandsBounds DEF CountInv, Pollers
<1>3. PICK p \in Pollers : p = job + 1 /\ p = next
  <2>1. th[job + 1].pc = "none" /\ \A q \in Pollers : th[q].pc = "none" => job + 1 <= q
    BY <1>2 DEF PollerInv, Pollers
  <2>2. \A q \in Pollers : th[q].pc = "none" /\ (\A r \in Pollers : th[r].pc = "none" => q <= r)
          => q = job + 1
    BY <1>2, <2>1 DEF Pollers
  <2> QED BY <1>2, <2>1, <2>2
<1> HIDE DEF next
<1>4. /\ p \in Threads /\ Engine \in Threads /\ p # Engine /\ p \in Pollers /\ Pollers \subseteq Threads
      /\ Engine \notin Pollers
  BY <1>2, <1>3 DEF Threads, Pollers, Engine
<1>5. /\ th' \in [Threads -> Thread] /\ th'[Engine].pc = "begin" /\ th'[p].pc = "sleep"
      /\ \A q \in Threads : q # p /\ q # Engine => th'[q] = th[q]
  <2>1. th \in [Threads -> Thread]
    BY DEF Types, ThreadTypes
  <2>2. th[p] \in Thread /\ th[Engine] \in Thread /\ "sleep" \in PollerPc /\ "begin" \in EnginePc
    BY <1>4, <2>1 DEF PollerPc, EnginePc
  <2>3. /\ [th[p] EXCEPT !.pc = "sleep"] \in Thread /\ [th[p] EXCEPT !.pc = "sleep"].pc = "sleep"
        /\ [th[Engine] EXCEPT !.pc = "begin"] \in Thread
        /\ [th[Engine] EXCEPT !.pc = "begin"].pc = "begin"
    BY <2>2 DEF Thread
  <2>4. th' = [th EXCEPT ![p] = [th[p] EXCEPT !.pc = "sleep"],
                         ![Engine] = [th[Engine] EXCEPT !.pc = "begin"]]
    BY <1>1, <1>3, <1>4, <2>1
  <2> QED BY <1>4, <2>1, <2>3, <2>4
<1>6. ThreadTypes' /\ At(Engine)' = "begin"
  <2>1. At(Engine)' = "begin" /\ At(p)' = "sleep"
    <3>1. "begin" \notin InHand /\ "sleep" \notin InHand
      BY DEF InHand
    <3> QED BY <1>5, <3>1 DEF At
  <2>2. \A q \in Pollers : q # p => th'[q] = th[q] /\ At(q)' = At(q)
    BY <1>4, <1>5 DEF At
  <2>3. "begin" \in EnginePc /\ "sleep" \in PollerPc
    BY DEF EnginePc, PollerPc
  <2> QED BY <1>5, <2>1, <2>2, <2>3 DEF ThreadTypes, Types
<1>7. Types'
  <2>1. job' \in 0..MaxStarts
    BY <1>1, <1>2, <1>3 DEF Pollers
  <2> QED BY <1>1, <1>6, <2>1 DEF Types, GameTypes, Flags
<1>8. task.do = "start"
  BY <1>1 DEF LatchInv, LatchedScreen, DueInv, Starting
<1>9. CountInv'
  <2>1. LaunchAhead' = 0 /\ PlayAhead' = 1
    BY <1>1, <1>6, <1>8 DEF LaunchAhead, PlayAhead, Starting
  <2>2. job \in Nat /\ gnubg.match \in Nat /\ job' = job + 1 /\ gnubg' = gnubg
    BY <1>1, <1>3, ClockHandsBounds DEF Types, GameTypes
  <2>3. armedFor' \in Match
    BY <1>1 DEF CountInv
  <2>4. UNCHANGED <<queue, user>>
    BY <1>1
  <2>5. /\ job' \in Nat /\ gnubg'.match \in Nat /\ job' + LaunchAhead' <= job + LaunchAhead
        /\ gnubg'.match + PlayAhead' <= gnubg.match + PlayAhead
    BY <1>2, <2>1, <2>2
  <2> HIDE DEF IInv
  <2> QED BY <2>3, <2>4, <2>5, CountStays
<1>10. LatchInv'
  <2>1. "begin" \notin Starting \cup {"over"}
    BY DEF Starting
  <2> QED BY <1>1, <1>6, <1>8, <2>1 DEF LatchInv, LatchedScreen, DueInv, Starting
<1>11. PollerInv'
  <2>1. \A q \in Pollers : q > job' <=> th'[q].pc = "none"
    BY <1>1, <1>2, <1>3, <1>4, <1>5 DEF PollerInv, Pollers
  <2>2. \A q \in Pollers : q < job' => q \in cancelled'
    BY <1>1, <1>2, <1>3 DEF PollerInv, Pollers, Starting
  <2> QED BY <1>6, <2>1, <2>2 DEF PollerInv, Starting
<1> QED BY <1>7, <1>9, <1>10, <1>11

\* The bodies behind the start: nothing of the clock's own changes but who holds it.
LEMMA NextGameKeeps == ASSUME IInv, NextGame PROVE IInv'
<1> USE DEF IInv
<1>1. /\ th[Engine].pc = "next" /\ At(Engine) = "next" /\ Goto(Engine, "begin") /\ latched' = FALSE
      /\ UNCHANGED <<gnubg, phase, task, queue, armedFor, granted, job, cancelled, tracked, paused,
                     collected, claims, user,
                     captured>>
  BY DEF NextGame, EngineAt, At, InHand, clockVars, pollVars, watch, book, main
<1>2. /\ ThreadTypes' /\ th'[Engine].pc = "begin" /\ At(Engine)' = "begin"
      /\ \A p \in Pollers : th'[p] = th[p]
  <2>1. Moved(Engine, "begin", th[Engine].back) /\ "begin" \in EnginePc /\ "begin" \notin InHand
    BY <1>1, GotoMoves DEF EnginePc, InHand, Threads
  <2> QED BY <2>1, EngineMoves
<1>3. Types'
  BY <1>1, <1>2 DEF Types, GameTypes, Flags
<1>4. task.do = "next"
  BY <1>1 DEF LatchInv
<1>5. CountInv'
  <2>1. LaunchAhead' = LaunchAhead /\ PlayAhead' = PlayAhead
    BY <1>1, <1>2, <1>4 DEF LaunchAhead, PlayAhead, Starting
  <2> QED BY <1>1, <2>1 DEF CountInv, StartsLeft, RestartsLeft
<1>6. LatchInv'
  BY <1>1, <1>2, <1>4 DEF LatchInv, LatchedScreen, DueInv, Starting
<1>7. PollerInv'
  BY <1>1, <1>2 DEF PollerInv, Starting
<1> QED BY <1>3, <1>5, <1>6, <1>7

LEMMA BeginKeeps == ASSUME IInv, Begin PROVE IInv'
<1> USE DEF IInv
<1>1. /\ th[Engine].pc = "begin" /\ At(Engine) = "begin"
      /\ UNCHANGED <<gnubg, latched, task, queue, armedFor, granted, job, cancelled, tracked, paused,
                     collected, claims, user,
                     captured>>
      /\ \/ latched /\ Goto(Engine, "play") /\ phase' = phase
         \/ ~latched /\ CallHandTo(Engine, 1, "play") /\ phase' = "thinking"
  BY DEF Begin, EngineAt, At, InHand, clockVars, pollVars, watch, book, main
<1>2. /\ ThreadTypes' /\ th'[Engine].pc # "claim" /\ At(Engine)' = "play"
      /\ \A p \in Pollers : th'[p] = th[p]
  <2>1. {"play", "hand"} \subseteq EnginePc /\ "play" \notin InHand /\ "hand" \in InHand
    BY DEF EnginePc, InHand
  <2>2. CASE Goto(Engine, "play")
    <3>1. Moved(Engine, "play", th[Engine].back)
      BY <2>1, <2>2, GotoMoves DEF Threads
    <3> QED BY <2>1, <3>1, EngineMoves
  <2>3. CASE CallHandTo(Engine, 1, "play")
    <3>1. Moved(Engine, "hand", "play")
      BY <2>3, CallMoves DEF Threads, Seat
    <3> QED BY <2>1, <3>1, EngineMoves
  <2> QED BY <1>1, <2>2, <2>3
<1>3. Types'
  <2>1. phase' \in {"human", "thinking", "gameOver"}
    BY <1>1 DEF Types, GameTypes
  <2> QED BY <1>1, <1>2, <2>1 DEF Types, GameTypes, Flags
<1>4. CountInv'
  <2>1. LaunchAhead' = LaunchAhead /\ PlayAhead' = PlayAhead
    BY <1>1, <1>2 DEF LaunchAhead, PlayAhead, Starting
  <2> QED BY <1>1, <2>1 DEF CountInv, StartsLeft, RestartsLeft
<1>5. LatchInv'
  BY <1>1, <1>2 DEF LatchInv, LatchedScreen, DueInv, Starting
<1>6. PollerInv'
  BY <1>1, <1>2 DEF PollerInv, Starting
<1> QED BY <1>3, <1>4, <1>5, <1>6

\* What ends is a game that was played; a match it decides falls due if its end is to be
\* projected for the first time and the collection is armed.
LEMMA PlayKeeps == ASSUME IInv, Play PROVE IInv'
<1> USE DEF IInv
<1>1. PICK o \in Ends :
        /\ gnubg' = [match |-> gnubg.match + (IF task.do = "start" THEN 1 ELSE 0), over |-> o]
        /\ claims' = IF o = "match" /\ gnubg.over # "match" /\ ~latched /\ ~collected
                     THEN [claims EXCEPT ![gnubg.match] = "due"] ELSE claims
        /\ Goto(Engine, IF o = "no" THEN "settle" ELSE "over")
  BY DEF Play
<1>2. /\ th[Engine].pc = "play" /\ At(Engine) = "play" /\ task' = NoBody
      /\ UNCHANGED <<phase, latched, queue, armedFor, granted, job, cancelled, tracked, paused,
                     collected, user, captured>>
  BY DEF Play, EngineAt, At, InHand, clockVars, pollVars, watch, book, main
<1> DEFINE pc == IF o = "no" THEN "settle" ELSE "over"
<1>3. /\ ThreadTypes' /\ th'[Engine].pc = pc /\ At(Engine)' = pc
      /\ \A p \in Pollers : th'[p] = th[p]
  <2>1. pc \in EnginePc /\ pc \notin InHand
    BY DEF EnginePc, InHand
  <2>2. Goto(Engine, pc)
    BY <1>1
  <2> HIDE DEF pc
  <2>3. Moved(Engine, pc, th[Engine].back)
    BY <2>1, <2>2, GotoMoves DEF Threads
  <2> QED BY <2>1, <2>3, EngineMoves
<1>4. /\ gnubg'.over = o /\ gnubg' \in [match : Nat, over : {"no", "game", "match"}]
      /\ gnubg'.match = gnubg.match + (IF task.do = "start" THEN 1 ELSE 0)
      /\ gnubg.match \in Nat
      /\ o \in {"no", "game", "match"} /\ (o = "no" \/ task.do \notin {"start", "next"})
  BY <1>1 DEF Types, GameTypes, Ends
<1>5. Types'
  <2>1. task'.do \in Doing
    BY <1>2 DEF NoBody, Body, Doing
  <2>2. claims' \in [Match -> {"none", "due", "made"}]
    BY <1>1 DEF Types, GameTypes
  <2> QED BY <1>2, <1>3, <1>4, <2>1, <2>2 DEF Types, GameTypes, Flags
<1>6. CountInv'
  <2>1. /\ LaunchAhead = 0 /\ LaunchAhead' = 0 /\ PlayAhead' = 0
        /\ PlayAhead = IF task.do = "start" THEN 1 ELSE 0
    BY <1>2, <1>3 DEF LaunchAhead, PlayAhead, Starting
  <2>2. job' = job /\ job \in Nat /\ UNCHANGED <<queue, user>> /\ armedFor' \in Match
    BY <1>2, ClockHandsBounds DEF Types, GameTypes, CountInv
  <2>3. /\ job' \in Nat /\ gnubg'.match \in Nat /\ job' + LaunchAhead' <= job + LaunchAhead
        /\ gnubg'.match + PlayAhead' <= gnubg.match + PlayAhead
    BY <1>4, <2>1, <2>2
  <2> HIDE DEF IInv
  <2> QED BY <2>2, <2>3, CountStays
<1>7. LatchInv'
  <2>1. LatchedScreen'
    BY <1>2 DEF LatchInv, LatchedScreen
  <2>2. \A m \in Match : claims[m] # "due"
    BY <1>2 DEF LatchInv, DueInv
  <2>3. DueInv'
    <3> SUFFICES ASSUME NEW m \in Match, claims'[m] = "due"
                 PROVE  /\ m = gnubg'.match /\ At(Engine)' = "over" /\ gnubg'.over = "match"
                        /\ ~latched' /\ ~collected'
      BY DEF DueInv
    <3>1. claims' # claims /\ claims \in [Match -> {"none", "due", "made"}]
      BY <2>2 DEF Types, GameTypes
    <3>2. /\ o = "match" /\ ~latched /\ ~collected
          /\ claims' = [claims EXCEPT ![gnubg.match] = "due"]
      BY <1>1, <3>1
    <3>3. m = gnubg.match
      BY <2>2, <3>1, <3>2
    <3>4. task.do # "start" /\ pc = "over"
      BY <1>4, <3>2
    <3> HIDE DEF pc
    <3> QED BY <1>2, <1>3, <1>4, <3>2, <3>3, <3>4
  <2>4. ~(armedFor' > gnubg'.match)
    <3>1. task.do # "start" => ~(armedFor > gnubg.match)
      BY <1>2 DEF LatchInv, Starting
    <3>2. armedFor <= gnubg.match + 1 /\ armedFor \in Nat /\ gnubg.match \in Nat
      BY <1>4 DEF LatchInv, Types, GameTypes
    <3> QED BY <1>2, <1>4, <3>1, <3>2
  <2>5. At(Engine)' \notin Starting \cup {"next"}
    BY <1>3 DEF Starting
  <2>6. armedFor' \in Nat /\ gnubg'.match \in Nat
    BY <1>2, <1>4 DEF Types, GameTypes
  <2>7. armedFor' <= gnubg'.match + 1
    BY <2>4, <2>6
  <2> QED BY <2>1, <2>3, <2>4, <2>5, <2>7 DEF LatchInv
<1>8. PollerInv'
  BY <1>2, <1>3 DEF PollerInv, Starting
<1> QED BY <1>5, <1>6, <1>7, <1>8

LEMMA RestartKeeps == ASSUME IInv, Restart PROVE IInv'
<1> USE DEF IInv
<1>1. /\ th[Engine].pc = "restart" /\ At(Engine) = "restart" /\ Goto(Engine, "settle")
      /\ gnubg' = [match |-> gnubg.match + 1, over |-> "no"] /\ task' = NoBody
      /\ UNCHANGED <<phase, latched, queue, armedFor, granted, job, cancelled, tracked, paused,
                     collected, claims, user,
                     captured>>
  BY DEF Restart, EngineAt, At, InHand, clockVars, pollVars, watch, book, main
<1>2. /\ ThreadTypes' /\ th'[Engine].pc = "settle" /\ At(Engine)' = "settle"
      /\ \A p \in Pollers : th'[p] = th[p]
  <2>1. Moved(Engine, "settle", th[Engine].back) /\ "settle" \in EnginePc /\ "settle" \notin InHand
    BY <1>1, GotoMoves DEF EnginePc, InHand, Threads
  <2> QED BY <2>1, EngineMoves
<1>3. /\ gnubg' \in [match : Nat, over : {"no", "game", "match"}] /\ gnubg'.over = "no"
      /\ gnubg.match \in Nat /\ gnubg'.match = gnubg.match + 1
  BY <1>1 DEF Types, GameTypes
<1>4. Types'
  <2>1. task'.do \in Doing
    BY <1>1 DEF NoBody, Body, Doing
  <2> QED BY <1>1, <1>2, <1>3, <2>1 DEF Types, GameTypes, Flags
<1>5. CountInv'
  <2>1. LaunchAhead = 0 /\ LaunchAhead' = 0 /\ PlayAhead' = 0 /\ PlayAhead = 1
    BY <1>1, <1>2 DEF LaunchAhead, PlayAhead, Starting
  <2>2. job' = job /\ job \in Nat /\ UNCHANGED <<queue, user>> /\ armedFor' \in Match
    BY <1>1, ClockHandsBounds DEF Types, GameTypes, CountInv
  <2>3. /\ job' \in Nat /\ gnubg'.match \in Nat /\ job' + LaunchAhead' <= job + LaunchAhead
        /\ gnubg'.match + PlayAhead' <= gnubg.match + PlayAhead
    BY <1>3, <2>1, <2>2
  <2> HIDE DEF IInv
  <2> QED BY <2>2, <2>3, CountStays
<1>6. LatchInv'
  <2>1. LatchedScreen' /\ DueInv'
    BY <1>1, <1>2 DEF LatchInv, LatchedScreen, DueInv
  <2>2. ~(armedFor > gnubg.match) /\ armedFor \in Nat
    BY <1>1 DEF LatchInv, Starting, Types, GameTypes
  <2>3. ~(armedFor' > gnubg'.match)
    BY <1>1, <1>3, <2>2
  <2>4. armedFor' \in Nat /\ gnubg'.match \in Nat
    BY <1>1, <2>2 DEF Types, GameTypes
  <2>5. armedFor' <= gnubg'.match + 1
    BY <2>3, <2>4
  <2> QED BY <1>2, <2>1, <2>3, <2>5 DEF LatchInv, Starting
<1>7. PollerInv'
  BY <1>1, <1>2 DEF PollerInv, Starting
<1> QED BY <1>4, <1>5, <1>6, <1>7

LEMMA SettleKeeps == ASSUME IInv, Settle PROVE IInv'
<1> USE DEF IInv
<1>1. /\ th[Engine].pc = "settle" /\ At(Engine) = "settle"
      /\ UNCHANGED <<gnubg, latched, task, queue, armedFor, granted, job, cancelled, tracked, paused,
                     collected, claims, user,
                     captured>>
      /\ \/ Goto(Engine, "over") /\ phase' = phase
         \/ Goto(Engine, "idle") /\ phase' = phase
         \/ ~latched /\ CallHandTo(Engine, 0, "idle") /\ phase' = "human"
  BY DEF Settle, EngineAt, At, InHand, clockVars, pollVars, watch, book, main
<1>2. /\ ThreadTypes' /\ th'[Engine].pc # "claim" /\ At(Engine)' \in {"idle", "over"}
      /\ \A p \in Pollers : th'[p] = th[p]
  <2>1. /\ {"idle", "over", "hand"} \subseteq EnginePc /\ "hand" \in InHand
        /\ "idle" \notin InHand /\ "over" \notin InHand
    BY DEF EnginePc, InHand
  <2>2. ASSUME NEW pc \in {"idle", "over"}, Goto(Engine, pc)
        PROVE  /\ ThreadTypes' /\ th'[Engine].pc # "claim" /\ At(Engine)' \in {"idle", "over"}
               /\ \A p \in Pollers : th'[p] = th[p]
    <3>1. Moved(Engine, pc, th[Engine].back) /\ pc \in EnginePc /\ pc \notin InHand
      BY <2>1, <2>2, GotoMoves DEF Threads
    <3> QED BY <2>2, <3>1, EngineMoves
  <2>3. CASE CallHandTo(Engine, 0, "idle")
    <3>1. Moved(Engine, "hand", "idle")
      BY <2>3, CallMoves DEF Threads, Seat
    <3> QED BY <2>1, <3>1, EngineMoves
  <2> QED BY <1>1, <2>2, <2>3
<1>3. Types'
  <2>1. phase' \in {"human", "thinking", "gameOver"}
    BY <1>1 DEF Types, GameTypes
  <2> QED BY <1>1, <1>2, <2>1 DEF Types, GameTypes, Flags
<1>4. CountInv'
  <2>1. LaunchAhead' = LaunchAhead /\ PlayAhead' = PlayAhead
    BY <1>1, <1>2 DEF LaunchAhead, PlayAhead, Starting
  <2> QED BY <1>1, <2>1 DEF CountInv, StartsLeft, RestartsLeft
<1>5. LatchInv'
  BY <1>1, <1>2 DEF LatchInv, LatchedScreen, DueInv, Starting
<1>6. PollerInv'
  BY <1>1, <1>2 DEF PollerInv, Starting
<1> QED BY <1>3, <1>4, <1>5, <1>6

\* A match that is due to be collected, and is not by now, is claimed.
LEMMA OverKeeps == ASSUME IInv, Over PROVE IInv'
<1> USE DEF IInv
<1> DEFINE pc == IF ~latched /\ gnubg.over = "match" /\ ~collected THEN "claim" ELSE "post"
<1>1. /\ th[Engine].pc = "over" /\ At(Engine) = "over" /\ latched' = TRUE
      /\ th' = [th EXCEPT ![Engine].pc = pc, ![Engine].back = "post"]
      /\ UNCHANGED <<gnubg, phase, task, queue, armedFor, granted, job, cancelled, tracked, paused,
                     collected, claims, user,
                     captured>>
  BY DEF Over, EngineAt, At, InHand, clockVars, pollVars, watch, book, main
<1>2. /\ ThreadTypes' /\ th'[Engine].pc = pc /\ At(Engine)' = "post"
      /\ \A p \in Pollers : th'[p] = th[p]
  <2>1. /\ pc \in {"claim", "post"} /\ pc \in EnginePc /\ "post" \in EnginePc
    BY DEF EnginePc, InHand
  <2> HIDE DEF pc
  <2>2. Moved(Engine, pc, "post")
    <3>1. Engine \in Threads /\ th[Engine] \in Thread
      BY DEF Types, ThreadTypes, Threads
    <3>2. [th[Engine] EXCEPT !.pc = pc, !.back = "post"] \in Thread
      BY <2>1, <3>1 DEF Thread
    <3>3. th' = [th EXCEPT ![Engine] = [th[Engine] EXCEPT !.pc = pc, !.back = "post"]]
      BY <1>1, <3>1 DEF Types, ThreadTypes
    <3> QED BY <3>1, <3>2, <3>3 DEF Thread, Moved, Types, ThreadTypes
  <2>3. pc # "post" => pc \in InHand
    BY <2>1 DEF InHand
  <2> QED BY <2>1, <2>2, <2>3, EngineMoves
<1>3. Types'
  <2>1. latched' \in BOOLEAN
    BY <1>1
  <2> QED BY <1>1, <1>2, <2>1 DEF Types, GameTypes, Flags
<1>4. CountInv'
  <2>1. LaunchAhead' = LaunchAhead /\ PlayAhead' = PlayAhead
    BY <1>1, <1>2 DEF LaunchAhead, PlayAhead, Starting
  <2> QED BY <1>1, <2>1 DEF CountInv, StartsLeft, RestartsLeft
<1>5. LatchInv'
  <2>1. LatchedScreen' /\ At(Engine)' \notin Starting \cup {"next"}
    BY <1>2 DEF LatchedScreen, Starting
  <2>2. DueInv'
    <3> SUFFICES ASSUME NEW m \in Match, claims'[m] = "due"
                 PROVE  m = gnubg'.match /\ At(Engine)' = "post" /\ th'[Engine].pc = "claim"
      BY DEF DueInv
    <3>1. m = gnubg.match /\ gnubg.over = "match" /\ ~latched /\ ~collected
      BY <1>1 DEF LatchInv, DueInv
    <3>2. pc = "claim"
      BY <3>1
    <3> HIDE DEF pc
    <3> QED BY <1>1, <1>2, <3>1, <3>2
  <2>3. ~(armedFor' > gnubg'.match)
    BY <1>1 DEF LatchInv, Starting
  <2>4. armedFor' <= gnubg'.match + 1
    BY <1>1 DEF LatchInv
  <2> QED BY <2>1, <2>2, <2>3, <2>4 DEF LatchInv
<1>6. PollerInv'
  BY <1>1, <1>2 DEF PollerInv, Starting
<1> QED BY <1>3, <1>4, <1>5, <1>6

LEMMA PostKeeps == ASSUME IInv, Post PROVE IInv'
<1> USE DEF IInv
<1>1. /\ th[Engine].pc = "post" /\ At(Engine) = "post" /\ CallHandTo(Engine, Nobody, "idle")
      /\ UNCHANGED <<gnubg, latched, task, queue, armedFor, granted, job, cancelled, tracked, paused,
                     collected, claims, user,
                     captured>>
      /\ phase' = "gameOver"
  BY DEF Post, EngineAt, At, InHand, clockVars, pollVars, watch, book, main
<1>2. /\ ThreadTypes' /\ th'[Engine].pc = "hand" /\ At(Engine)' = "idle"
      /\ \A p \in Pollers : th'[p] = th[p]
  <2>1. {"idle", "hand"} \subseteq EnginePc /\ "hand" \in InHand
    BY DEF EnginePc, InHand
  <2>2. Moved(Engine, "hand", "idle")
    BY <1>1, CallMoves DEF Threads
  <2> QED BY <2>1, <2>2, EngineMoves
<1>3. Types'
  BY <1>1, <1>2 DEF Types, GameTypes, Flags
<1>4. CountInv'
  <2>1. LaunchAhead' = LaunchAhead /\ PlayAhead' = PlayAhead
    BY <1>1, <1>2 DEF LaunchAhead, PlayAhead, Starting
  <2> QED BY <1>1, <2>1 DEF CountInv, StartsLeft, RestartsLeft
<1>5. LatchInv'
  BY <1>1, <1>2 DEF LatchInv, LatchedScreen, DueInv, Starting
<1>6. PollerInv'
  BY <1>1, <1>2 DEF PollerInv, Starting
<1> QED BY <1>3, <1>4, <1>5, <1>6

LEMMA CollectKeeps == ASSUME IInv, Collect PROVE IInv'
<1> USE DEF IInv
<1>1. /\ th[Engine].pc = "collect" /\ At(Engine) = "collect" /\ Goto(Engine, "idle")
      /\ UNCHANGED <<gnubg, phase, latched, queue, armedFor, granted, job, cancelled, tracked, paused,
                     collected, claims, user,
                     captured>>
      /\ task' = NoBody
  BY DEF Collect, EngineAt, At, InHand, clockVars, pollVars, watch, main
<1>2. /\ ThreadTypes' /\ th'[Engine].pc = "idle" /\ At(Engine)' = "idle"
      /\ \A p \in Pollers : th'[p] = th[p]
  <2>1. Moved(Engine, "idle", th[Engine].back) /\ "idle" \in EnginePc /\ "idle" \notin InHand
    BY <1>1, GotoMoves DEF EnginePc, InHand, Threads
  <2> QED BY <2>1, EngineMoves
<1>3. Types'
  <2>1. task'.do \in Doing
    BY <1>1 DEF NoBody, Body, Doing
  <2> QED BY <1>1, <1>2, <2>1 DEF Types, GameTypes, Flags
<1>4. CountInv'
  <2>1. LaunchAhead' = LaunchAhead /\ PlayAhead' = PlayAhead
    BY <1>1, <1>2 DEF LaunchAhead, PlayAhead, Starting
  <2> QED BY <1>1, <2>1 DEF CountInv, StartsLeft, RestartsLeft
<1>5. LatchInv'
  BY <1>1, <1>2 DEF LatchInv, LatchedScreen, DueInv, Starting
<1>6. PollerInv'
  BY <1>1, <1>2 DEF PollerInv, Starting
<1> QED BY <1>3, <1>4, <1>5, <1>6

\* A late tap's body.
LEMMA EntryKeeps == ASSUME IInv, Entry PROVE IInv'
<1> USE DEF IInv
<1>1. /\ th[Engine].pc = "entry" /\ At(Engine) = "entry" /\ Goto(Engine, "idle")
      /\ UNCHANGED <<gnubg, latched, queue, armedFor, granted, job, cancelled, tracked, paused,
                     collected, claims, user, captured>>
      /\ task' = NoBody /\ phase' \in {"human", phase}
  BY DEF Entry, EngineAt, At, InHand, clockVars, pollVars, watch, book, main
<1>2. /\ ThreadTypes' /\ th'[Engine].pc = "idle" /\ At(Engine)' = "idle"
      /\ \A p \in Pollers : th'[p] = th[p]
  <2>1. Moved(Engine, "idle", th[Engine].back) /\ "idle" \in EnginePc /\ "idle" \notin InHand
    BY <1>1, GotoMoves DEF EnginePc, InHand, Threads
  <2> QED BY <2>1, EngineMoves
<1>3. Types'
  <2>1. task'.do \in Doing /\ phase' \in {"human", "thinking", "gameOver"}
    BY <1>1 DEF NoBody, Body, Doing, Types, GameTypes
  <2> QED BY <1>1, <1>2, <2>1 DEF Types, GameTypes, Flags
<1>4. CountInv'
  <2>1. LaunchAhead' = LaunchAhead /\ PlayAhead' = PlayAhead
    BY <1>1, <1>2 DEF LaunchAhead, PlayAhead, Starting
  <2> QED BY <1>1, <2>1 DEF CountInv, StartsLeft, RestartsLeft
<1>5. LatchInv'
  BY <1>1, <1>2 DEF LatchInv, LatchedScreen, DueInv, Starting
<1>6. PollerInv'
  BY <1>1, <1>2 DEF PollerInv, Starting
<1> QED BY <1>3, <1>4, <1>5, <1>6

---------------------------------------------------------------------------

LEMMA StepKeepsIInv == IInv /\ [Next]_vars => IInv'
<1> SUFFICES ASSUME IInv, [Next]_vars PROVE IInv'
  OBVIOUS
<1>1. CASE UserStep
  BY <1>1, UserKeeps
<1>2. ASSUME NEW t \in Threads, HandStep(t) \/ HandNative(t) PROVE IInv'
  BY <1>2, HandKeeps
<1>3. ASSUME NEW p \in Pollers, PollerStep(p) \/ PollSettle(p) PROVE IInv'
  BY <1>3, PollerKeeps
<1>4. CASE EngineStep \/ Arm
  BY <1>4, TakeKeeps, StartKeeps, ArmKeeps, UntrackKeeps, LaunchKeeps, NextGameKeeps, BeginKeeps,
     PlayKeeps, RestartKeeps, SettleKeeps, OverKeeps, PostKeeps, CollectKeeps, EntryKeeps
     DEF EngineStep
<1>5. CASE UNCHANGED vars
  <2>1. /\ UNCHANGED <<gnubg, phase, task, latched, job, armedFor, granted, user, captured, paused,
                       queue, tracked, collected, claims, cancelled, th>>
        /\ At(Engine)' = At(Engine) /\ \A p \in Pollers : At(p)' = At(p)
    BY <1>5 DEF vars, clockVars, gameVars, pollVars, watch, book, main, At
  <2>2. Types'
    BY <2>1 DEF IInv, Types, ThreadTypes, GameTypes, Flags
  <2>3. CountInv'
    BY <2>1 DEF IInv, CountInv, LaunchAhead, PlayAhead, StartsLeft, RestartsLeft
  <2>4. LatchInv' /\ PollerInv'
    BY <2>1, GameStays
  <2> QED BY <2>2, <2>3, <2>4 DEF IInv
<1> QED BY <1>1, <1>2, <1>3, <1>4, <1>5 DEF Next, ThreadStep, ClockCall

LEMMA Invariance == Spec => []IInv
<1> QED BY InitIInv, StepKeepsIInv, PTL DEF Spec

---------------------------------------------------------------------------
(* The theorems.                                                           *)

\* The variables stay in their types: in particular there is a poller for Launch to take
\* whenever it comes to it, and no more matches than were asked for (GameViewModel,
\* startClock).
THEOREM TypeCorrect == Spec => []TypeOK
<1>1. IInv => TypeOK
  <2> SUFFICES ASSUME IInv PROVE TypeOK
    OBVIOUS
  <2>1. gnubg.match \in Match
    <3>1. /\ user.starts \in Nat /\ user.restarts \in Nat /\ gnubg.match \in Nat
          /\ Waiting(queue, "start") \in Nat /\ Waiting(queue, "restart") \in Nat
      BY WaitingType DEF IInv, Types, GameTypes
    <3>2. StartsLeft \in Nat /\ RestartsLeft \in Nat /\ PlayAhead \in Nat
      BY <3>1 DEF StartsLeft, RestartsLeft, PlayAhead
    <3> QED BY <3>1, <3>2, ClockHandsBounds DEF IInv, CountInv, Match
  <2>2. gnubg \in [match : Match, over : {"no", "game", "match"}] /\ armedFor \in Match
    BY <2>1 DEF IInv, Types, GameTypes, CountInv
  <2> QED BY <2>2 DEF TypeOK, IInv, Types, GameTypes, Flags, PollerInv
<1> QED BY <1>1, Invariance, PTL

\* A match decided on the board while its collection is armed and no earlier end is latched
\* has itself been claimed by the time the engine thread rests, however starts, restarts,
\* queued bodies and the other threads' claims fall between the first-projection test, the
\* latch and the claim (readMatchState, maybeCollectCareer, onClockTimeout).
THEOREM ClaimCorrect == Spec => []EndOfMatchIsClaimed
<1>1. IInv => EndOfMatchIsClaimed
  <2> SUFFICES ASSUME IInv, th[Engine].pc = "idle", NEW m \in Match, claims[m] = "due" PROVE FALSE
    BY DEF EndOfMatchIsClaimed, EngineAt
  <2>1. At(Engine) = "idle"
    BY DEF At, InHand
  <2> QED BY <2>1 DEF IInv, LatchInv, DueInv
<1> QED BY <1>1, Invariance, PTL

\* Of the pollers that run, only clockJob's has not been told to stop: however matches are
\* started over each other, no second one goes on charging the clock for long (startClock,
\* clockFlag).
THEOREM OnlyTheJobIsLive == Spec => []OnlyTheJobPolls
<1>1. IInv => OnlyTheJobPolls
  <2> SUFFICES ASSUME IInv, NEW p \in Pollers, th[p].pc # "none", p \notin cancelled PROVE p = job
    BY DEF OnlyTheJobPolls
  <2>1. ~(p > job) /\ ~(p < job)
    BY DEF IInv, PollerInv
  <2> QED BY <2>1, ClockHandsBounds DEF IInv, Types, GameTypes, Pollers
<1> QED BY <1>1, Invariance, PTL

\* What the latch is worth: under it no projection takes the end screen away, whichever body
\* the engine thread is in (a queued answer or double included), only the late write of a
\* tap does; and gnubg is never shown at work under it, but while an end is being posted
\* (readMatchState, beginEngineWork; tapSource, dragMove, undo and swapDice).
THEOREM EndScreenCorrect == Spec => EndScreenHolds /\ []LatchedScreen
<1>1. ASSUME [Next]_vars, phase = "gameOver", phase' # "gameOver", latched
      PROVE  Entry \/ WriteBack
  <2>1. CASE UNCHANGED phase
    BY <1>1, <2>1
  <2>2. CASE Begin \/ Settle \/ Post
    BY <1>1, <2>2 DEF Begin, Settle, Post
  <2>3. CASE Entry \/ WriteBack
    BY <2>3
  <2> QED
    BY <1>1, <2>1, <2>2, <2>3 DEF Next, UserStep, TapStart, TapNewMatch, TapTurn, TapEntry, TapUndo,
       TapNextGame, Pause, Resume, ThreadStep, ClockCall, HandNative, Arm, PollSettle, HandStep,
       HandCheck, HandTrack, Flag, Timeout, Claim, PollerStep, Wake, Look, Rejoin, EngineStep, Take,
       Start, Untrack, Launch, NextGame, Play, Restart, Over, Collect, gameVars, vars
<1>2. [Next]_vars => [phase = "gameOver" /\ phase' # "gameOver" => ~latched \/ Entry \/ WriteBack]_vars
  BY <1>1
<1>3. Spec => EndScreenHolds
  BY <1>2, PTL DEF Spec, EndScreenHolds
<1>4. IInv => LatchedScreen
  BY DEF IInv, LatchInv
<1> QED BY <1>3, <1>4, Invariance, PTL
====
