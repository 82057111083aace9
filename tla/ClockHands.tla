---- MODULE ClockHands ----
(***************************************************************************)
(* Who is charged: GameViewModel's clock layer over the clock of           *)
(* TableClock, and the collection of a match that ends on the board or on  *)
(* the clock (gnubg-app, engine/GameViewModel.kt).                         *)
(*                                                                         *)
(* The threads: the single engine thread, which takes the bodies posted to *)
(* it in order; the poller startClock launches, and those of earlier       *)
(* matches that have not yet noticed their cancellation; the main thread,  *)
(* where the player taps and the activity pauses.  clockHandTo runs on the *)
(* engine thread and on a poller, with no lock around its check, its store *)
(* and its native call, each a step here.                                  *)
(*                                                                         *)
(* The taps that enter a move write the state they captured, under no      *)
(* latch: tapSource and dragMove from a body of the engine thread, undo    *)
(* and swapDice on the main thread.                                        *)
(*                                                                         *)
(* The clock mode is COMPETITION throughout, with OFF nothing here runs;   *)
(* the session is Play's, never Coach's; what the clock display shows is   *)
(* left out.                                                               *)
(***************************************************************************)
EXTENDS TableClock, Sequences, FiniteSets

CONSTANTS
    MaxStarts,    \* bound: matches started from the setup screen
    MaxRestarts,  \* bound: presses of the "New match" button
    Budgets,      \* bound: what a player may do in all: starts and restarts, pauses of
                  \* the activity, turns taken and taps that enter a move
    MaxQueue      \* bound: bodies the player may leave waiting

ASSUME ClockHandsBounds ==
    MaxStarts \in Nat \ {0} /\ MaxRestarts \in Nat
    /\ Budgets \subseteq [starts : 0..MaxStarts, restarts : 0..MaxRestarts, pauses : Nat,
                          turns : Nat, entries : Nat]
    /\ MaxQueue \in Nat \ {0}

Engine  == 0
Pollers == 1..MaxStarts
Threads == {Engine} \cup Pollers
Match   == 0..(MaxStarts + MaxRestarts)

VARIABLES
    gnubg,      \* gnubg: the match it holds, and whether game or match are over
    armedFor,   \* the match clockArm was last called for
    queue,      \* the bodies posted to the engine thread, a collection with its match
    th,         \* per thread: pc; clockHandTo's argument and where it returns
    task,       \* the body the engine thread is in
    phase,      \* _gameState.phase, as far as this layer tells phases apart
    latched,    \* gameOverLatched
    tracked,    \* clockSideTracked
    paused,     \* clockPaused
    job,        \* clockJob
    cancelled,  \* pollers whose job was cancelled
    collected,  \* matchCollected
    collects,   \* history: how often each match was put to collection
    claims,     \* history: per match, whether its collection is due, or claimed
    granted,    \* history: the side last given a fresh delay in this match
    captured,   \* undo or swapDice has read the state it will write a copy of
    user        \* what is left of the player's budget

clockVars == <<armed, held, side, fallen, armedFor, granted>>
gameVars  == <<gnubg, phase, latched, task>>
pollVars  == <<job, cancelled>>
watch     == <<tracked, paused>>
book      == <<collected, collects, claims>>
main      == <<captured, user>>
vars == <<clockVars, told, gameVars, pollVars, queue, th, watch, book, main>>

Body(do, m) == [do |-> do, match |-> m]
NoBody == Body("none", 0)

Init ==
    /\ TableInit
    /\ gnubg = [match |-> 0, over |-> "no"]
    /\ armedFor = 0
    /\ queue = <<>>
    /\ th = [t \in Threads |-> [pc |-> IF t = Engine THEN "idle" ELSE "none",
                                want |-> Nobody, back |-> "idle"]]
    /\ task = NoBody
    /\ phase = "human" /\ latched = FALSE
    /\ tracked = -2 /\ paused = FALSE
    /\ job = 0 /\ cancelled = {}
    /\ collected = FALSE
    /\ collects = [m \in Match |-> 0]
    /\ claims = [m \in Match |-> "none"]
    /\ granted = Nobody
    /\ captured = FALSE
    /\ user \in Budgets

Goto(t, pc) == th' = [th EXCEPT ![t].pc = pc]

\* clockHandTo, or onClockTimeout, returns to where it was called.
Return(t) ==
    th' = [th EXCEPT ![t].pc = th[t].back, ![t].want = Nobody, ![t].back = "idle"]

\* The side the clock should charge, as startClock and the poller read it.
Due == IF phase = "thinking" THEN 1 ELSE 0

\* clockHandTo(s) is called, to continue at `back'.
CallHandTo(t, s, back) ==
    th' = [th EXCEPT ![t].pc = "hand", ![t].want = s, ![t].back = back]

-----------------------------------------------------------------------------
(* clockHandTo, clockFlag and onClockTimeout, on whichever thread.         *)

HandCheck(t) ==
    /\ th[t].pc = "hand"
    /\ IF th[t].want = tracked THEN Return(t) ELSE Goto(t, "track")
    /\ UNCHANGED <<clockVars, gameVars, pollVars, queue, watch, book, main>>

HandTrack(t) ==
    /\ th[t].pc = "track"
    /\ tracked' = th[t].want
    /\ Goto(t, "native")
    /\ UNCHANGED <<clockVars, gameVars, pollVars, queue, paused, book, main>>

\* The event of Engine.clockHand is not looked at.
HandNative_DeafFault(t) ==
    /\ th[t].pc = "native"
    /\ \E f \in Seat \cup {Nobody} : HandTable(th[t].want, f)
    /\ Return(t)
    /\ granted' = IF armed /\ th[t].want \in Seat THEN th[t].want ELSE granted
    /\ UNCHANGED <<armedFor, gameVars, pollVars, queue, watch, book, main>>

HandNative(t) ==
    /\ th[t].pc = "native"
    /\ \E f \in Seat \cup {Nobody} :
         /\ HandTable(th[t].want, f)
         /\ IF f = Nobody THEN Return(t) ELSE Goto(t, "flag")
    /\ granted' = IF armed /\ th[t].want \in Seat THEN th[t].want ELSE granted
    /\ UNCHANGED <<armedFor, gameVars, pollVars, queue, watch, book, main>>

\* clockFlag: the poller's job is cancelled (what is shown is left out).
Flag(t) ==
    /\ th[t].pc = "flag"
    /\ cancelled' = cancelled \cup ({job} \ {0})
    /\ Goto(t, "timeout")
    /\ UNCHANGED <<clockVars, gameVars, job, queue, watch, book, main>>

\* onClockTimeout: the latch is read, and only then set.
Timeout(t) ==
    /\ th[t].pc = "timeout"
    /\ IF collected THEN Return(t) ELSE Goto(t, "claim")
    /\ UNCHANGED <<clockVars, gameVars, pollVars, queue, watch, book, main>>

\* The match a body posted now will find: the one whose start is under way, or else the
\* one gnubg holds.
Current == IF armedFor > gnubg.match THEN armedFor ELSE gnubg.match

\* The latch is set and the collecting body posted (also maybeCollectCareer's end).
Claim(t) ==
    /\ th[t].pc = "claim"
    /\ collected' = TRUE
    /\ claims' = [claims EXCEPT ![Current] = "made"]
    /\ queue' = Append(queue, Body("collect", Current))
    /\ Return(t)
    /\ UNCHANGED <<clockVars, gameVars, pollVars, watch, collects, main>>

HandStep(t) == HandCheck(t) \/ HandTrack(t) \/ Flag(t) \/ Timeout(t) \/ Claim(t)

-----------------------------------------------------------------------------
(* The poller: one round every 200 ms.                                     *)

\* delay(200) returns, or throws if the job was cancelled; then clockPaused.
Wake(p) ==
    /\ th[p].pc = "sleep"
    /\ IF p \in cancelled THEN Goto(p, "dead")
       ELSE IF paused THEN CallHandTo(p, Nobody, "settle")
       ELSE Goto(p, "look")
    /\ UNCHANGED <<clockVars, gameVars, pollVars, queue, watch, book, main>>

Look(p) ==
    /\ th[p].pc = "look"
    /\ Goto(p, IF tracked = Nobody /\ phase # "gameOver" THEN "rejoin" ELSE "settle")
    /\ UNCHANGED <<clockVars, gameVars, pollVars, queue, watch, book, main>>

\* The phase is read again, to rejoin the side the game is at.
Rejoin(p) ==
    /\ th[p].pc = "rejoin"
    /\ CallHandTo(p, Due, "settle")
    /\ UNCHANGED <<clockVars, gameVars, pollVars, queue, watch, book, main>>

\* The account is brought up to date; an event ends the poller, after onClockTimeout.
PollSettle(p) ==
    /\ th[p].pc = "settle"
    /\ \E f \in Seat \cup {Nobody} :
         /\ SettleTable(f)
         /\ IF f = Nobody THEN Goto(p, "sleep")
            ELSE th' = [th EXCEPT ![p].pc = "timeout", ![p].back = "dead"]
    /\ UNCHANGED <<armedFor, granted, gameVars, pollVars, queue, watch, book, main>>

PollerStep(p) == Wake(p) \/ Look(p) \/ Rejoin(p)

-----------------------------------------------------------------------------
(* The engine thread: the bodies in the order they were posted.            *)

EngineAt(pc) == th[Engine].pc = pc

\* The next body begins.  A move or a pass is dropped unless the phase is still
\* the player's; a double, a take and the answers that show no work of gnubg's are
\* carried out in any phase.  The next game of a decided match is not begun.
Take ==
    /\ EngineAt("idle") /\ queue # <<>>
    /\ queue' = Tail(queue)
    /\ LET do == Head(queue).do
           pc == CASE do = "turn" -> IF phase = "human" THEN "begin" ELSE "idle"
                   [] do = "roll" -> "settle"
                   [] do = "cube" -> "begin"
                   [] do = "answer" -> "play"
                   [] do = "next" -> IF gnubg.over = "match" THEN "idle" ELSE "next"
                   [] OTHER       -> do
       IN /\ Goto(Engine, pc)
          /\ task' = IF pc \in {"idle", "settle"} THEN NoBody ELSE Head(queue)
    /\ UNCHANGED <<clockVars, gnubg, phase, latched, pollVars, watch, book, main>>

\* startNewGame for a new match, to startClock's first lines.
Start_NoCancelFault ==
    /\ EngineAt("start")
    /\ latched' = FALSE /\ collected' = FALSE
    /\ Goto(Engine, "arm")
    /\ UNCHANGED <<clockVars, gnubg, phase, task, job, cancelled, queue, watch, collects,
                   claims, main>>

Start ==
    /\ EngineAt("start")
    /\ latched' = FALSE /\ collected' = FALSE
    /\ cancelled' = cancelled \cup ({job} \ {0})
    /\ Goto(Engine, "arm")
    /\ UNCHANGED <<clockVars, gnubg, phase, task, job, queue, watch, collects, claims, main>>

Arm ==
    /\ EngineAt("arm")
    /\ ArmTable
    /\ armedFor' = gnubg.match + 1 /\ granted' = Nobody
    /\ Goto(Engine, "untrack")
    /\ UNCHANGED <<gameVars, pollVars, queue, watch, book, main>>

\* clockSideTracked is reset, and the clock handed to the side the phase names.
Untrack ==
    /\ EngineAt("untrack")
    /\ tracked' = -2
    /\ CallHandTo(Engine, Due, "launch")
    /\ UNCHANGED <<clockVars, gameVars, pollVars, queue, paused, book, main>>

Launch ==
    /\ EngineAt("launch")
    /\ LET p == CHOOSE p \in Pollers : /\ th[p].pc = "none"
                                      /\ \A q \in Pollers : th[q].pc = "none" => p <= q
       IN /\ job' = p
          /\ th' = [th EXCEPT ![p].pc = "sleep", ![Engine].pc = "begin"]
    /\ UNCHANGED <<clockVars, gameVars, cancelled, queue, watch, book, main>>

\* startNewGame for the next game of the match.
NextGame_KeepLatchFault ==
    /\ EngineAt("next")
    /\ Goto(Engine, "begin")
    /\ UNCHANGED <<clockVars, gameVars, pollVars, queue, watch, book, main>>

NextGame ==
    /\ EngineAt("next")
    /\ latched' = FALSE
    /\ Goto(Engine, "begin")
    /\ UNCHANGED <<clockVars, gnubg, phase, task, pollVars, queue, watch, book, main>>

\* beginEngineWork: nothing under the latch.
Begin ==
    /\ EngineAt("begin")
    /\ IF latched THEN Goto(Engine, "play") /\ phase' = phase
       ELSE CallHandTo(Engine, 1, "play") /\ phase' = "thinking"
    /\ UNCHANGED <<clockVars, gnubg, latched, task, pollVars, queue, watch, book, main>>

\* How gnubg may leave the game: into a new match or the next game it only deals; what
\* else the player does starts a whole exchange of turns, which may end the game or the
\* match, and is nothing to a match that is decided.
Ends ==
    IF task.do \in {"start", "next"} THEN {"no"}
    ELSE IF gnubg.over = "match" THEN {"match"} ELSE {"no", "game", "match"}

\* gnubg plays.  A match decided while no end screen is latched and the collection is
\* armed is due to be collected.
Play ==
    /\ EngineAt("play")
    /\ \E o \in Ends :
         /\ gnubg' = [match |-> gnubg.match + (IF task.do = "start" THEN 1 ELSE 0), over |-> o]
         /\ claims' = IF o = "match" /\ gnubg.over # "match" /\ ~latched /\ ~collected
                      THEN [claims EXCEPT ![gnubg.match] = "due"] ELSE claims
         /\ Goto(Engine, IF o = "no" THEN "settle" ELSE "over")
    /\ task' = NoBody
    /\ UNCHANGED <<clockVars, phase, latched, pollVars, queue, watch, collected, collects,
                   main>>

\* commandNewMatch's body: gnubg's new match, and nothing of this layer re-armed.
Restart ==
    /\ EngineAt("restart")
    /\ gnubg' = [match |-> gnubg.match + 1, over |-> "no"]
    /\ task' = NoBody
    /\ Goto(Engine, "settle")
    /\ UNCHANGED <<clockVars, phase, latched, pollVars, queue, watch, book, main>>

\* settleFromEngine: the end of the match is shown (again); a player's phase is refused
\* under the latch.
Settle_NoLatchFault ==
    /\ EngineAt("settle")
    /\ IF gnubg.over = "match" THEN Goto(Engine, "over") /\ phase' = phase
       ELSE CallHandTo(Engine, 0, "idle") /\ phase' = "human"
    /\ UNCHANGED <<clockVars, gnubg, latched, task, pollVars, queue, watch, book, main>>

Settle ==
    /\ EngineAt("settle")
    /\ IF gnubg.over = "match" THEN Goto(Engine, "over") /\ phase' = phase
       ELSE IF latched THEN Goto(Engine, "idle") /\ phase' = phase
       ELSE CallHandTo(Engine, 0, "idle") /\ phase' = "human"
    /\ UNCHANGED <<clockVars, gnubg, latched, task, pollVars, queue, watch, book, main>>

\* readMatchState of GAME_OVER: the first of a game latches, and a match that
\* is decided and not yet collected is claimed (maybeCollectCareer).
Over_LatchFirstFault ==
    /\ EngineAt("over")
    /\ latched' = TRUE
    /\ th' = [th EXCEPT
         ![Engine].pc = IF ~latched' /\ gnubg.over = "match" /\ ~collected THEN "claim" ELSE "post",
         ![Engine].back = "post"]
    /\ UNCHANGED <<clockVars, gnubg, phase, task, pollVars, queue, watch, book, main>>

Over ==
    /\ EngineAt("over")
    /\ latched' = TRUE
    /\ th' = [th EXCEPT
         ![Engine].pc = IF ~latched /\ gnubg.over = "match" /\ ~collected THEN "claim" ELSE "post",
         ![Engine].back = "post"]
    /\ UNCHANGED <<clockVars, gnubg, phase, task, pollVars, queue, watch, book, main>>

Post ==
    /\ EngineAt("post")
    /\ phase' = "gameOver"
    /\ CallHandTo(Engine, Nobody, "idle")
    /\ UNCHANGED <<clockVars, gnubg, latched, task, pollVars, queue, watch, book, main>>

\* The collecting body: analysis, save and append, of the match gnubg holds.
Collect ==
    /\ EngineAt("collect")
    /\ collects' = [collects EXCEPT ![task.match] = @ + 1]
    /\ task' = NoBody
    /\ Goto(Engine, "idle")
    /\ UNCHANGED <<clockVars, gnubg, phase, latched, pollVars, queue, watch, collected,
                   claims, main>>

\* tapSource's or dragMove's body: the state captured at the tap is written with the hop
\* entered, whatever was projected since, or there is no such hop.
Entry ==
    /\ EngineAt("entry")
    /\ phase' \in {"human", phase}
    /\ task' = NoBody
    /\ Goto(Engine, "idle")
    /\ UNCHANGED <<clockVars, gnubg, latched, pollVars, queue, watch, book, main>>

EngineStep ==
    \/ Take \/ Start \/ Untrack \/ Launch \/ NextGame \/ Begin \/ Play \/ Restart
    \/ Settle \/ Over \/ Post \/ Collect \/ Entry

-----------------------------------------------------------------------------
(* The main thread: what the player taps and the activity's lifecycle.     *)

Posted(do) == \E i \in DOMAIN queue : queue[i].do = do

PostBody(do) == Len(queue) < MaxQueue /\ queue' = Append(queue, Body(do, 0))

\* startMatch, from the setup screen.
TapStart ==
    /\ user.starts > 0
    /\ user' = [user EXCEPT !.starts = @ - 1]
    /\ PostBody("start")
    /\ UNCHANGED <<clockVars, gameVars, pollVars, th, watch, book, captured>>

\* commandNewMatch, from the board: it releases the latch itself, at once.
TapNewMatch ==
    /\ gnubg.match >= 1 /\ user.restarts > 0
    /\ user' = [user EXCEPT !.restarts = @ - 1]
    /\ latched' = FALSE
    /\ PostBody("restart")
    /\ UNCHANGED <<clockVars, gnubg, phase, task, pollVars, th, watch, book, captured>>

\* A roll, a move or a pass, a double or a take, a drop; a resignation is offered in any
\* phase.  The same button is not pressed twice.
TapTurn ==
    /\ gnubg.match >= 1 /\ user.turns > 0
    /\ user' = [user EXCEPT !.turns = @ - 1]
    /\ \E do \in IF phase = "human" THEN {"turn", "roll", "cube", "answer"} ELSE {"answer"} :
         ~Posted(do) /\ PostBody(do)
    /\ UNCHANGED <<clockVars, gameVars, pollVars, th, watch, book, captured>>

\* A point is tapped, or a chequer dragged: the body carries the state of this moment.
TapEntry ==
    /\ gnubg.match >= 1 /\ phase = "human" /\ user.entries > 0
    /\ user' = [user EXCEPT !.entries = @ - 1]
    /\ PostBody("entry")
    /\ UNCHANGED <<clockVars, gameVars, pollVars, th, watch, book, captured>>

\* undo or swapDice reads the state...
TapUndo ==
    /\ gnubg.match >= 1 /\ phase = "human" /\ user.entries > 0
    /\ user' = [user EXCEPT !.entries = @ - 1]
    /\ captured' = TRUE
    /\ UNCHANGED <<clockVars, gameVars, pollVars, queue, th, watch, book>>

\* ... and writes its copy.
WriteBack ==
    /\ captured
    /\ captured' = FALSE
    /\ phase' = "human"
    /\ UNCHANGED <<clockVars, gnubg, latched, task, pollVars, queue, th, watch, book, user>>

\* The end screen is acknowledged.
TapNextGame ==
    /\ phase = "gameOver" /\ ~Posted("next")
    /\ PostBody("next")
    /\ UNCHANGED <<clockVars, gameVars, pollVars, th, watch, book, main>>

\* ON_PAUSE and ON_RESUME.
Pause ==
    /\ ~paused /\ user.pauses > 0
    /\ paused' = TRUE
    /\ user' = [user EXCEPT !.pauses = @ - 1]
    /\ UNCHANGED <<clockVars, gameVars, pollVars, queue, th, tracked, book, captured>>

Resume ==
    /\ paused
    /\ paused' = FALSE
    /\ UNCHANGED <<clockVars, gameVars, pollVars, queue, th, tracked, book, main>>

\* One handler at a time.
UserStep ==
    \/ WriteBack
    \/ /\ ~captured
       /\ \/ TapStart \/ TapNewMatch \/ TapTurn \/ TapEntry \/ TapUndo \/ TapNextGame
          \/ Pause \/ Resume

-----------------------------------------------------------------------------

\* The clock's own calls report an event; no other step does.
ClockCall(t) ==
    \/ HandNative(t)
    \/ t = Engine /\ Arm
    \/ t \in Pollers /\ PollSettle(t)

ThreadStep(t) ==
    \/ ClockCall(t)
    \/ /\ told' = Nobody
       /\ \/ HandStep(t)
          \/ t = Engine /\ EngineStep
          \/ t \in Pollers /\ PollerStep(t)

Next ==
    \/ told' = Nobody /\ UserStep
    \/ \E t \in Threads : ThreadStep(t)

Spec == Init /\ [][Next]_vars

\* Threads are scheduled and gnubg's search is finite; the player owes nothing, but a
\* handler of the main thread that has begun ends.
FairSpec ==
    /\ Spec
    /\ \A t \in Threads : WF_vars(ThreadStep(t))
    /\ WF_vars(told' = Nobody /\ WriteBack)

-----------------------------------------------------------------------------
(* Properties of the layer.                                                *)

\* Pollers are launched in turn and the last launched is the current job.
TypeOK ==
    /\ gnubg \in [match : Match, over : {"no", "game", "match"}]
    /\ armedFor \in Match /\ granted \in Seat \cup {Nobody}
    /\ phase \in {"human", "thinking", "gameOver"}
    /\ tracked \in -2..1 /\ paused \in BOOLEAN /\ latched \in BOOLEAN
    /\ collected \in BOOLEAN /\ captured \in BOOLEAN /\ cancelled \subseteq Pollers
    /\ claims \in [Match -> {"none", "due", "made"}]
    /\ \A p \in Pollers : p > job <=> th[p].pc = "none"

\* No projection takes the end screen away under its latch, on whichever path gnubg came
\* to it: only a tap does that entered a move in a state captured before.
EndScreenHolds ==
    [][phase = "gameOver" /\ phase' # "gameOver" => ~latched \/ Entry \/ WriteBack]_vars

\* A match that gnubg decides on the board, with the collection armed and the end of no
\* earlier game still latched, has itself been claimed for collection once the engine
\* thread rests: first-projection test, latch and claim, and a claim of the clock's in
\* between, do not miss each other.
EndOfMatchIsClaimed == EngineAt("idle") => \A m \in Match : claims[m] # "due"

\* A flag that falls with the collection armed is acted upon, whichever thread's call
\* found it: the match gnubg then holds is claimed, or the clock is armed for another.
FlagIsActedUpon ==
    armed /\ fallen # {} /\ ~collected ~> claims[gnubg.match] = "made" \/ fallen = {}

\* The end screen of a game acknowledged, the next game begins, unless what the player did
\* before has decided the match.
AcknowledgedGameBegins ==
    Posted("next") /\ gnubg.over = "game" ~> phase # "gameOver" \/ gnubg.over = "match"

\* However matches are started over each other, one poller remains in the end.
OnePollerRemains ==
    <>[](Cardinality({p \in Pollers : th[p].pc \notin {"none", "dead"}}) <= 1)

-----------------------------------------------------------------------------
(* What comments of the code say of it.                                    *)

\* No thread is within clockHandTo or about to call it.
Settled ==
    /\ EngineAt("idle") /\ queue = <<>>
    /\ \A p \in Pollers : th[p].pc \in {"none", "sleep", "dead"}

\* GameViewModel 89: "GAME_OVER is sticky [...] Once GAME_OVER is projected, readMatchState
\* refuses to replace the phase until newGame() (the player's acknowledgment) clears this.
\* One owner of the terminal transition, enforced at the writer".
EndScreenIsSticky == [][phase = "gameOver" /\ phase' # "gameOver" => ~latched]_vars

\* GameViewModel 136: "One clock runs at a time; hand-over follows the dice
\* (turn/phase)".  Nobody's time runs on the end screen.
RightSideIsCharged ==
    Settled /\ armed /\ ~paused /\ tracked # Nobody =>
      side = IF phase = "gameOver" THEN Nobody ELSE Due

\* GameViewModel 157: "clockHandTo() dedups, so calling it from every transition
\* is safe: a fresh per-move delay is granted only on a real change of side".
FreshDelayOnlyOnChangeOfSide ==
    [][\A t \in Threads :
         th[t].pc = "native" /\ th'[t].pc # "native" /\ th[t].want \in Seat =>
           th[t].want # granted]_vars

\* GameLayout 61: "The clock stops when the app does: a phone is not a live table,
\* and a phone call must not eat the bank".
PausedClockStops ==
    paused /\ armed /\ side \in Seat ~> ~paused \/ side = Nobody \/ fallen # {}

\* GameViewModel 129-131: "silently collect every finished PLAY match into the signed
\* ledger. [...] single fire".
CollectedOnce == \A m \in Match : collects[m] <= 1

\* The same sentence's "every finished PLAY match": at a settled end screen, the match
\* shown as over has been put to collection if matchCollected says so.
EveryMatchIsCollected ==
    Settled /\ phase = "gameOver" /\ gnubg.over = "match" /\ collected =>
      collects[gnubg.match] >= 1

\* And again, with "the MATCH-decided test is the engine's own authority": at a settled
\* end screen, the collection has fired for a match that gnubg holds decided.
DecidedMatchFires ==
    Settled /\ phase = "gameOver" /\ gnubg.over = "match" => collected

\* GameViewModel 662: the analysis of a completed match "MUST be reached while
\* lMatch still holds the record (before "New match" resets)".
CollectsWhileOnRecord == EngineAt("collect") => task.match = gnubg.match

\* MatchClock 14: "a reserve of minutes-per-point x match length": a match is
\* played on the reserves armed for it.
ReserveIsThisMatchs ==
    Settled /\ armed /\ side \in Seat => armedFor = gnubg.match

\* GameViewModel 93: the latch holds "until newGame() (the player's
\* acknowledgment) clears this": a match begun since is not held at the end screen.
NewMatchIsNotHeld == Settled /\ latched => gnubg.over # "no"

====
