---- MODULE LiveDice ----
(***************************************************************************)
(* The live-dice side channel: the hook DiceRolled calls in the middle of  *)
(* an engine turn and the lock-free peek (jni-bridge/src/gnubg_mobile.c),  *)
(* with the watcher GameViewModel arms at every engine work and the merge  *)
(* that shows what it found.                                               *)
(*                                                                         *)
(* A roll is known by its number, and a die by the roll it belongs to, so  *)
(* a pair is whole when both dice carry the same number.  Every access to  *)
(* an atomic is a step of its own; the two relaxed stores of the hook      *)
(* happen in either order, before the release increment of the sequence.   *)
(***************************************************************************)
EXTENDS Integers

CONSTANTS
    MaxWorks,   \* bound: engine works begun, and so watchers armed
    MaxRolls    \* bound: rolls in all

ASSUME LiveDiceBounds == MaxWorks \in Nat \ {0} /\ MaxRolls \in Nat \ {0}

Work == 1..MaxWorks
None == <<0, 0>>

VARIABLES
    seq,      \* g_liveDiceSeq
    die,      \* g_liveDice0 and g_liveDice1: for each, the roll it belongs to
    engine,   \* the engine thread: pc, works and rolls so far
    phase,    \* _gameState.phase, as far as the watcher tells phases apart
    live,     \* _liveEngineDice
    watcher   \* each work's watcher: pc, base, what it read, what it accepted

vars == <<seq, die, engine, phase, live, watcher>>

Init ==
    /\ seq = 0
    /\ die = [d \in {0, 1} |-> 0]
    /\ engine = [pc |-> "idle", works |-> 0, rolls |-> 0, stored |-> {}]
    /\ phase = "human"
    /\ live = None
    /\ watcher = [w \in Work |-> [pc |-> "none", base |-> 0, seq |-> 0,
                                  read |-> None, accepted |-> None]]

-----------------------------------------------------------------------------
(* The engine thread.                                                      *)

\* beginEngineWork: the sequence snapshot, the thinking phase, a watcher armed.
BeginWork ==
    /\ engine.pc = "idle" /\ phase = "human" /\ engine.works < MaxWorks
    /\ engine' = [engine EXCEPT !.pc = "work", !.works = @ + 1]
    /\ phase' = "thinking"
    /\ watcher' = [watcher EXCEPT ![engine.works + 1].pc = "loop",
                                  ![engine.works + 1].base = seq]
    /\ UNCHANGED <<seq, die, live>>

\* A roll begins: in a work (the engine's, or after a game's end the opening
\* roll of the next game), or the human's own outside any work.
BeginRoll ==
    /\ engine.rolls < MaxRolls
    /\ \/ engine.pc = "work" /\ engine' = [engine EXCEPT !.pc = "workRoll",
                                                     !.rolls = @ + 1, !.stored = {}]
       \/ /\ engine.pc = "idle" /\ phase = "human"
          /\ engine' = [engine EXCEPT !.pc = "humanRoll", !.rolls = @ + 1, !.stored = {}]
    /\ UNCHANGED <<seq, die, phase, live, watcher>>

\* gnubg_mobile_on_dice_rolled, one store at a time.
StoreDie(d) ==
    /\ engine.pc \in {"workRoll", "humanRoll"} /\ d \notin engine.stored
    /\ die' = [die EXCEPT ![d] = engine.rolls]
    /\ engine' = [engine EXCEPT !.stored = @ \cup {d}]
    /\ UNCHANGED <<seq, phase, live, watcher>>

Announce_EarlyFault ==
    /\ engine.pc \in {"workRoll", "humanRoll"} /\ seq < engine.rolls
    /\ seq' = seq + 1
    /\ engine' = [engine EXCEPT
         !.pc = IF @ = "workRoll" /\ engine.stored = {0, 1} THEN "work" ELSE "idle"]
    /\ UNCHANGED <<die, phase, live, watcher>>

Announce ==
    /\ engine.pc \in {"workRoll", "humanRoll"} /\ engine.stored = {0, 1}
    /\ seq' = seq + 1
    /\ engine' = [engine EXCEPT !.pc = IF @ = "workRoll" THEN "work" ELSE "idle"]
    /\ UNCHANGED <<die, phase, live, watcher>>

\* The work settles: back to the human, or the game is over.
EndWork ==
    /\ engine.pc = "work"
    /\ engine' = [engine EXCEPT !.pc = "idle"]
    /\ phase' \in {"human", "gameOver"}
    /\ UNCHANGED <<seq, die, live, watcher>>

\* The end screen is acknowledged: the next game begins.
NextGame ==
    /\ engine.pc = "idle" /\ phase = "gameOver"
    /\ phase' = "human"
    /\ UNCHANGED <<seq, die, engine, live, watcher>>

EngineStep ==
    BeginWork \/ BeginRoll \/ (\E d \in {0, 1} : StoreDie(d)) \/ Announce \/ EndWork \/ NextGame

-----------------------------------------------------------------------------
(* The watcher of work w.                                                  *)

\* The loop's test; with the engine still thinking, the acquire load of seq.
Look_NoPhaseFault(w) ==
    /\ watcher[w].pc = "loop"
    /\ watcher' = [watcher EXCEPT ![w].pc = "die0", ![w].seq = seq]
    /\ UNCHANGED <<seq, die, engine, phase, live>>

Look(w) ==
    /\ watcher[w].pc = "loop"
    /\ watcher' = IF phase = "thinking"
                    THEN [watcher EXCEPT ![w].pc = "die0", ![w].seq = seq]
                    ELSE [watcher EXCEPT ![w].pc = "exit"]
    /\ UNCHANGED <<seq, die, engine, phase, live>>

LoadDie0(w) ==
    /\ watcher[w].pc = "die0"
    /\ watcher' = [watcher EXCEPT ![w].pc = "die1", ![w].read = <<die[0], 0>>]
    /\ UNCHANGED <<seq, die, engine, phase, live>>

LoadDie1(w) ==
    /\ watcher[w].pc = "die1"
    /\ watcher' = [watcher EXCEPT ![w].pc = "decide", ![w].read = <<@[1], die[1]>>]
    /\ UNCHANGED <<seq, die, engine, phase, live>>

\* Dice count once the sequence has moved and both faces are in range.
Decide(w) ==
    /\ watcher[w].pc = "decide"
    /\ LET pair  == watcher[w].read
           fresh == watcher[w].seq # watcher[w].base /\ pair[1] > 0 /\ pair[2] > 0
       IN /\ live' = IF fresh THEN pair ELSE live
          /\ watcher' = [watcher EXCEPT
               ![w].pc = IF fresh THEN "exit" ELSE "loop",
               ![w].read = None, ![w].seq = 0,
               ![w].accepted = IF fresh THEN pair ELSE @]
    /\ UNCHANGED <<seq, die, engine, phase>>

\* After the loop: the phase is read once, and other exits than the end screen
\* clear the flow.
Exit(w) ==
    /\ watcher[w].pc = "exit"
    /\ watcher' = [watcher EXCEPT
         ![w].pc = IF phase \in {"thinking", "gameOver"} THEN "done" ELSE "clear"]
    /\ UNCHANGED <<seq, die, engine, phase, live>>

Clear(w) ==
    /\ watcher[w].pc = "clear"
    /\ live' = None
    /\ watcher' = [watcher EXCEPT ![w].pc = "done"]
    /\ UNCHANGED <<seq, die, engine, phase>>

WatcherStep(w) ==
    Look(w) \/ LoadDie0(w) \/ LoadDie1(w) \/ Decide(w) \/ Exit(w) \/ Clear(w)

Next == EngineStep \/ \E w \in Work : WatcherStep(w)

Spec == Init /\ [][Next]_vars

\* gnubg's turn ends (the search is finite), and watchers are scheduled.
FairSpec ==
    /\ Spec
    /\ SF_vars(EndWork) /\ WF_vars(Announce) /\ \A d \in {0, 1} : WF_vars(StoreDie(d))
    /\ \A w \in Work : WF_vars(WatcherStep(w))

-----------------------------------------------------------------------------
(* Properties.                                                             *)

\* What the board shows as the engine's roll: the merge into gameState.
Displayed == IF phase \in {"thinking", "gameOver"} THEN live ELSE None

\* The variables stay in their types; the sequence is at most one roll behind.
TypeOK ==
    /\ seq \in 0..MaxRolls /\ die \in [{0, 1} -> 0..MaxRolls]
    /\ phase \in {"human", "thinking", "gameOver"}
    /\ live \in (0..MaxRolls) \X (0..MaxRolls)
    /\ engine.works \in 0..MaxWorks /\ engine.rolls - seq \in {0, 1}

\* The dice a watcher accepts were rolled after the work that armed it began:
\* "dice count as fresh only once the seq has advanced, so a stale previous
\* roll can never be mistaken for this one" (GameViewModel, watchEngineDice).
AcceptedIsFresh ==
    \A w \in Work :
      LET a == watcher[w].accepted
      IN a # None => a[1] > watcher[w].base /\ a[2] > watcher[w].base

\* A watcher ends: by dice, or because the work it was armed for is over.
WatchersEnd == \A w \in Work : watcher[w].pc = "loop" ~> watcher[w].pc = "done"

\* gnubg_mobile.c: "the reader accepts dice only after seeing a seq bump, so it
\* never reads a torn pair".
NeverTorn == \A w \in Work : watcher[w].accepted[1] = watcher[w].accepted[2]

\* GameViewModel: dice are shown while the engine thinks so that the player
\* sees what it is thinking about, and "a stale previous roll can never be
\* mistaken for this one": a roll on show belongs to the work under way.
DisplayedIsThisWorks ==
    Displayed # None =>
      engine.works > 0 /\ Displayed[1] > watcher[engine.works].base
====
