# A formal model of gnubg-android

gnubg-android is GNU Backgammon on Android: the vendored gnubg engine in C, a
C facade over it (`jni-bridge/`), and a Kotlin application (`gnubg-app/`). This
directory holds TLA+ modules that model its concurrent and stateful logic and
the rules it plays by, the TLC configurations that check them, and proofs that
TLAPS checks. Paths are relative to `src/`; `GVM` is
`gnubg-app/.../engine/GameViewModel.kt`.

## 1. The system

The program logic lives on four kinds of threads.

* The **main thread** runs the Compose UI, handles taps and the activity's
  lifecycle, and posts bodies to the engine thread.
* The **engine thread** (one, `GVM.engineThread`) takes the posted bodies in
  order. It calls the facade, whose every verb holds `gnubg_lock` throughout.
* **Dispatcher threads**: the clock poller, the live-dice watchers, the
  rollout verbs of the Analyse screen, the polls of their status.
* **Native threads**: the GLib pool of rollout workers, and the notification
  thread of `RolloutService`.

### Components

| Component | State | Operations | What makes it hard | What makes it correct |
|---|---|---|---|---|
| Match clock, `engine-core/timecontrol.c` | one `timecontrol` record | init, settle, start_turn, pause, resume | charged in arbitrary pieces, timestamps may run backward, unsigned arithmetic | charges exactly the time used beyond the delay, one flag per player, leaves the other side alone |
| Clock facade, `gnubg_mobile.c` 2190-2287 | static `tc_cbg`, mutex | arm, off, hand, settle, pause, resume, state | called from two threads | each call atomic |
| Clock layer, `GVM` 136-253 | `clockSideTracked`, `clockPaused`, `clockJob` | `clockHandTo`, `startClock` and its poller, `clockFlag`, `onClockTimeout` | no lock around check, store and native call; old pollers cancelled lazily | the side to play is charged, pauses stop it, a flag is acted on once |
| Terminal latch and collection trigger, `GVM` 89-135, 257-289, 480-655 | `gameOverLatched`, `matchCollected`, phase | `readMatchState`, `startNewGame`, `newGame`, `commandNewMatch`, `maybeCollectCareer` | written from main, engine and poller threads; bodies queued under the latch; taps that write what they captured | end screen holds, each finished match collected once, from its own record |
| Match, `engine-core/play.c` as driven by the facade | `ms`, `lMatch`, the cursor, `fNextTurn`, `fCrawfordState` | the verbs, `NextTurn`, walks through the record | the state is played on here and replayed there; games begin by themselves; the drain has no bound; an offer may be answered by an offer | gnubg moves in turn, cube and Crawford rules, score, the drain ends |
| Board and move generation, `engine-core/eval.c`, `play.c`, `gnubg_mobile.c`, `drawboard.c` | none | generator, legality of a hop, the text of a play and its parsing | pruning by chequers moved and pips, duplicates dropped by key | exactly the plays the rules allow, each survives its text |
| Entry of a turn, `GVM` 300-476, 1066-1330 | `_gameState`, its history | taps, drags, Undo, swap of dice, Confirm, Pass, Roll | two threads write the state, each from a copy | every play can be entered, Undo leads home, the phase is gnubg's |
| Position set-up, `positionid.c`, `matchid.c`, `set.c`, Analyse screen | `ms`, the players' types | IDs pasted, XGIDs pasted, positions edited, swap | two encoders, two decoders, two frames of the board, five records | what is installed is what was drawn, the IDs shown bring it back |
| Candidates rollout, `gnubg_mobile.c` 1351-1375 and 1665-1858, `stubs.c` 326-681 | `ro_state`, the barrier, live pointer, cancel flag, done count | start, status, cancel, position rollout, worker tasks | barrier on the stack, three mutexes, atomics, cancel at any time | no use after return, honest labels, cancel works, the verb returns |
| Live dice, `gnubg_mobile.c` 934-962, `GVM` 1142-1194 | `g_liveDiceSeq`, two dice, `_liveEngineDice` | hook, peek, watch, merge | lock-free reads during an engine turn, overlapping watchers | only this work's dice are shown, whole |
| Career ledger, `career/CareerLedger.kt`, `plusstore/SafDocs.kt` | key files, folder: public key, match files, ledger | `collect` | every write may fail or break off, the process may die, the app be reinstalled | a chain of signed entries, each over a filed match |
| Career verifier, `career/CareerVerify.kt` | none | `run` | must tell damage from change | no finding against an untouched record |
| Session (rest of `GVM`) | coach hold, Coach sessions, tally | coach, tally | main-thread writes, captured state | no session leaks into the next |
| Facade queries (`gnubg_mobile.c`: errors, stats, tally) | record cursor | sequential walks | cursor and carry between records | totals |
| Rollout service, `service/RolloutService.kt` | `watching` | start, watch, stop | races with the verb's beginning and end | alive as long as a rollout is |
| Screens, preferences, assets, career pass and settings, coach texts | display state | — | — | presentation or I/O only |
| Vendored gnubg (rest of `engine-core/`) | — | neural evaluation, analysis, files | numerical | upstream |

`PROJECT.json` lists all of them with their status, the hazards at their lines
(with a note on those no property covers yet), and for every definition the
source lines it stands for.

### Interactions

A tap on the board posts a body; `beginEngineWork` sets the thinking phase,
hands the clock to gnubg and arms a live-dice watcher; the facade plays and
drains `NextTurn`; the settle projects gnubg's state, hands the clock back, and at a
game's end latches the end screen, and, if the match is decided, posts the
collection, which calls `CareerLedger.collect`. In parallel the poller settles the clock,
notices pauses and, when a flag falls, posts a collection of its own. A rollout verb
holds `gnubg_lock` while its workers run; status polls and Cancel come from other
threads. The Analyse screen installs positions into the same match state that
Play then starts from.

## 2. The modules

Definitions whose name ends in `Fault` are faulty variants of the definition
that follows them (a dropped guard, a swapped order). No specification uses them.
Substituted for the original, each makes TLC find a property violated: they show
that the properties can fail.

| Module | Extends or instantiates | Proofs |
|---|---|---|
| `TimeControl` | implements `TableClock` | `TimeControlProofs` |
| `ClockHands`, `MCClockHands` | extends `TableClock` | `ClockHandsProofs` |
| `GnubgMatch`, `MCGnubgMatch` | implements `MatchScore` | `GnubgMatchProofs` |
| `Board` | | in `MoveEntryProofs` |
| `MoveList` | extends `Board` | in `MoveEntryProofs` |
| `MoveEntry` | extends `Board` | in `MoveEntryProofs` |
| `MovePlay`, `MCMoveEntry` | extends `MoveEntry` and `MoveList` | `MoveEntryProofs` |
| `MatchSetup`, `MCMatchSetup` | extends `Board` | `MatchSetupProofs` |
| `Rollout` | | `RolloutProofs` |
| `LiveDice` | | `LiveDiceProofs` |
| `CareerLedger` | | `CareerLedgerProofs` |

### TableClock, TimeControl

`TimeControl` is `timecontrol.c`: one operator per C function, from a record and
a timestamp to a record and an event. Its specification is the facade: one clock,
every call atomic (each holds the clock mutex), every timestamp in `0..Horizon`
at any call. A history variable `watch` is an observer with a
stopwatch, who only sees the calls: whose turn, how long, beyond the delay or
not. The properties equate clock and observer.

* `ReserveIsWhatPlayLeft`, `DelayIsPerTurn`: the source's I1, I2, I4 and I5 in
  one formula each.
* `FlagReportedOnce` is I3. `OthersClockUntouched` is about steps.
* `ImplementsTable`: `TimeControl` implements `TableClock`, the clock without a
  millisecond: whose time runs, and that it may run out at any moment, once.

### ClockHands

Who is charged, over `TableClock` (so its findings hold for every delay and
reserve). Threads: the engine thread with its queue of bodies, the pollers, the
user. `clockHandTo` is three steps (`HandCheck`, `HandTrack`, `HandNative`), since
nothing guards it; so are the reading and the setting of `matchCollected`
(`Timeout` or `Over`, then `Claim`). gnubg's play between two settles is one step
(`Play`): the facade call is synchronous and its inside is invisible to this
layer. The bodies differ in what they look at before they act (`Take`): a move or a
pass is dropped unless the phase is still the player's, a double, a take, a drop and a
resignation are not, so they may run in the game gnubg has begun by itself.
The phase has two kinds of writers. The projections (`Begin`, `Settle`, `Post`) respect the latch.
The taps that enter a move do not: the bodies of `tapSource` and `dragMove` (`Entry`), and `undo` and
`swapDice` on the main thread (`TapUndo`, then `WriteBack`), write a copy of the state of a moment when the human moved.
What the display shows, the OFF mode and Coach sessions are left out.

`matchCollected` is one flag for all matches, so no property takes it for "this match was
claimed". The history variable `claims` says that of each match: `due` when gnubg decides it while
the collection is armed and no end is latched, `made` when the flag is set for it.

* `EndScreenHolds`: under the latch no projection takes the end screen away; the taps' late writes are named in it as what does
  (`EndScreenIsSticky`, which has no such exception, is violated: section 3).
* `EndOfMatchIsClaimed`: no match that became due is still so when the engine thread rests. Not due are the matches the code does
  not attempt to collect: one begun with the flag still set (run `hands_never`) and one decided under
  the latch of an earlier game (`DecidedMatchFires`, section 3).
* `FlagIsActedUpon`: a flag that falls while the collection is armed leads to a claim of the match gnubg holds, or the clock is armed anew.
* `AcknowledgedGameBegins`, `OnePollerRemains` are about the next game and about the pollers of earlier matches.

### MatchScore, GnubgMatch

`GnubgMatch` is gnubg's match as the facade drives it. Each C function of `play.c`
that changes the match state or the record is an operator from a state to a state, or
to the set of states its choices (dice, the computer's mind) lead to. A verb of the facade is one
step, and each `NextTurn` of its drain another. The record `lMatch` is kept with the kinds of
records the code appends; `CalculateBoard` replays it, `CommandNext`, `CommandPrevious` and
`ChangeGame` walk through it. Of the board only the number of chequers left and
whose way it is turned are kept (they end a game, and give its worth), of the dice
only whether they can be played.

What a position is worth is not kept, so `ComputerTurn` may accept or refuse any resignation, and
`fAutoCrawford` and `fCubeUse`, which the settings can turn off, are taken as on.

* `ReplayAgrees` equates the two ways the state is computed, with one exception. While gnubg's
  offer to resign awaits an answer the human may offer to resign too, and gnubg, if the human's offer is the smaller,
  refuses it (`play.c` 1122-1147): then the human is on turn although gnubg is on move (`TurnForgone`), with nothing in the
  record to say so, and `CalculateBoard` would give the turn back to gnubg.
  `BoardIsOriented` relates the board to the record and to the side on move.
* `CubeProtocol`, `CrawfordRule` and `GnubgMovesInTurn` read the rules off the
  record, not off the state the guards look at. By the same path the human may move twice running, so only gnubg's
  moves are said to be in turn.
* `DrainEnds`, `HumanOwesNext`: the facade's unbounded loop ends, and at a point where the human acts (short of a walk back to
  where gnubg was on turn).
* `ImplementsMatchScore`: whatever cursor, cube and resignations do, the match is a
  `MatchScore`: games won one after another, each adding to one score, none after the
  match is over; an earlier game may be gone back to, and what followed is then gone.

### Board, MoveList, MoveEntry, MovePlay, MCMoveEntry

`Board` holds what the generator, the facade and the screen share: the two halves, the
swap of sides, hops and their legality, the key of a position, the class. Board size, home, number
of chequers and faces of a die are constants. `MoveList` is the generator (`GenerateMoves`,
`GenerateMovesSub`, `SaveMoves`, with pruning and duplicates), `FormatMove`
and `ParseMove` down to the hops they write and read, `CommandMove`, and beside it
`RulePlays`, the rules of backgammon as a reference: of all orders of the dice the plays that use most
of them, and the larger if only one can be played. `GenerateMovesSub` calls itself, once for each
hop of a play; as no call reads the list it saves to, and there are four hops at most, the model lays
the tree of its calls out level by level, in the order in which its leaves are saved. `MoveEntry` is the
turn on the screen. The main thread captures the state shown when a press launches a
body; Undo and the swap of the dice write the state in two steps, read and write;
bodies run later, from what they captured. gnubg's answers are operator constants, so that the
proofs hold for any generator; `MovePlay` is the entry over `MoveList`'s answers, and states what relates
the two, and `MCMoveEntry` binds the constants.

* `UndoLeadsHome` is about every copy of the state on either thread.
* `GeneratedAreTheRules`, `TextIsThePlay` and `EveryPlayCanBeEntered` compare, at the
  beginning of a turn from every legal position and roll, the
  generator with the rules, a play with its text read back, and the plays with what
  taps and swaps can reach.
* `GnubgTakesPlays`: gnubg's board, once it no longer waits, is a play of the position and roll it
  waited with, whichever of the presses of this turn and of the one before was served late.
* `PreviewCanBeDropped`: the lit landing points are those `dragMove` accepts. It is
  stated for points of the board: for a chequer on the bar the preview lights points
  for which the list has no play that `dragMove` finds.

### MatchSetup, MCMatchSetup

Position IDs are sequences of bits (Base64 is left out: one to one), match IDs records
of fields cut to their widths. `SetIDs` is the text pasted, through `set_gnubg_id`, `SetMatchID`,
`SetBoard` and the records they add; `SetXGID` the XGID; `ids_from_state` the encoder of the
Analyse screen; `SwapPlayers` the swap.

* `EditedIsInstalled`: drawn, encoded, decoded and installed is as drawn. The editor can draw what
  the decoder refuses, a score above the length (it lowers the length whatever the scores are,
  `AnalyseScreen.kt` 656); the property leaves that out, and `ContextIsInstalled`, below, is what is lost.
* `IdsAreStable`: the IDs shown, set over any state, bring the position back. Not so a
  resignation on offer, and dice pasted with the smaller first come back the larger first.
* `GameStateIsTheTest`: what the screen's test of `gs` tells it of a pasted text.

### Rollout

One runner inside a verb (it holds `gnubg_lock`), the pool's workers, pollers, and
the user who cancels. A step is a critical section or one access to a shared
atomic. `rollout_live_mutex` is a variable because a poll keeps it while it walks
the trials; the stack frame of the barrier has a number, so that use after return
is visible. A result is named by the candidate it was rolled for, and a mean by
the set of its terms.

### LiveDice

The hook's two relaxed stores in either order, then the release increment; the
peek's three loads; the watchers, one per engine work, and `gameState`'s merge.
A roll has a number, a die carries its roll's, so a torn pair is visible.

### CareerLedger

`collect` in the order of its writes, each whole, partial or not at all, a crash
between any two, and reinstallation (private files gone, folder kept). The
verifier is the operator `Findings` of the folder. A line is known by the match of
its entry; a fragment without a newline is `tail`, and the entry appended behind
it is `marred`.

## 3. The runs

Passing runs. Deadlock is checked for `clock` and `rollout`; in the other models
the user may stop, and matches, rolls and faults run out.

| Run | Bounds | Checks | Shows |
|---|---|---|---|
| `clock` | Delay 2, Reserve 3, Horizon 12 | `TypeOK`, `ReserveIsWhatPlayLeft`, `DelayIsPerTurn`, `FlagReportedOnce`, `OthersClockUntouched`, `ImplementsTable` | the clock charges what an observer counts, and is a `TableClock` |
| `hands` | two starts, or a start, a New match and a turn, or a start and two of turn, pause, turn and tap that enters a move; queue 1 | `EndOfMatchIsClaimed`, `EndScreenHolds`, `FlagIsActedUpon`, `AcknowledgedGameBegins`, `OnePollerRemains` | latch, collection claim, flag, next game, pollers |
| `match` | lengths 0 and 3, 2 men, MAX_CUBE 4, 1 beaver, 1 automatic double, 4 records (money) or 6 | `TypeOK`, `BoardIsOriented`, `ReplayAgrees`, `CubeProtocol`, `CrawfordRule`, `HumanOwesNext`, `GnubgMovesInTurn`, `DrainEnds`, `ImplementsMatchScore` | the match, through every verb and every walk |
| `moves` | 4 points, 2 of them home, 2 chequers, dice to 3; two bodies queued in one position, one in three more, none in the rest | `TypeOK`, `UndoLeadsHome`, `PreviewCanBeDropped`, `GeneratedAreTheRules`, `TextIsThePlay`, `GnubgTakesPlays`, `EveryPlayCanBeEntered` | every legal position and roll; two threads on four of them |
| `setup` | the same board, MAXSCORE 3, MAX_CUBE 4 | `GameStateIsTheTest`, `EditedIsInstalled`, `IdsAreStable` | every position ID of the size, match IDs and XGIDs over all fields, edits |
| `rollout` | 2 workers, 1 poller, 2 candidates, 2 trials, 1 verb, 1 cancel | `NoUseAfterReturn`, `ResultsAreLabelled`, `LiveLabelNeverOverstates`, `LaterCandidatesNeverStart`, `VerbReturns` | barrier, labels, cancel; the verb returns |
| `live_dice` | 2 works, 3 rolls | `AcceptedIsFresh`, `WatchersEnd` | freshness, watchers end |
| `ledger` | 4 matches, 1 crash, 1 reinstallation | `ChainLinks`, `EntriesAreFiled`, `CleanRecordIsIntact` | chain, filing, verifier |

The type invariants of `Rollout`, `LiveDice`, `ClockHands`, `CareerLedger` and `MatchSetup` are stated
in the modules and in no run; a configuration may add them. All five are proved, as a part of the
inductive invariants or from them.

Why the bounds suffice. *Clock*: one turn can end inside, at and beyond both
delay and reserve, several times for each side, with pauses between; the proofs
remove the bound. *Hands*: everything is about one poller
against the engine thread, about one match against the next, about a turn against the turn queued
behind it, or about a turn against a tap that enters a move; each of those pairs
exists. *Match*: with two men a game can be won singly or as a gammon, in a move or over several
turns; a match to 3 reaches a
score one away, the Crawford game and the game after it; money reaches
beavers, Jacoby's centred cube, automatic doubles and the top of the cube; six records
hold a double, its answer and moves on both sides. States of a match that differ only
in `nSessionLen` are explored once (the `VIEW` of the run): in a match nothing reads it, and every way
into a session sets it. *Moves*: four points have both bars, both home
boards, hits on the way of a double, bearing off exactly and from behind; a die of 3 against 2
home points is one larger than the home needs. Overtaking needs two bodies at most: a tap and the
Confirm behind it. Gnubg's turn leaves the race it began with, or the same race with a double, so that a
Confirm left over falls on a turn whose roll is another. *Setup*: every pattern of bits with as many ones as two sides of two chequers
have; scores beyond the length, pasted and edited, dice not on the board, an idle and a playing match underneath.
*Rollout*: two candidates give a next barrier to confuse with
the last, two trials a partial result, two workers a race for the last task. The shipped
pool has one worker (`stubs.c` 509); two cover
a larger setting of that constant. *Live dice*: the second work meets the first one's
watcher, the third roll is a second one within a work. *Ledger*: a fragment, the entry behind
it and one more, with a spare. The proofs remove the bounds for most of this (section 5).

Violation runs state what a comment or document says and show what the code does
instead. Each is a finding of `PROJECT.json`, with the quotation.

| Run | Says | Does |
|---|---|---|
| `rollout_lost_cancel` (`CancelIsNeverLost`) | later candidates never start, safe from any thread | a cancel during the move search is wiped with `ro_state` |
| `hands_never` (`EveryMatchIsCollected`) | every finished match collected | not after the New match button, which re-arms nothing |
| `swap` (`HumanIsPlayerZero`) | player 0 is the human | Swap on the Analyse screen exchanges the types too, and Play does not set them again |
| `entry_phase` (`PhaseIsGnubgs`) | gnubg is the phase | a state captured before Confirm, written after the settle, asks for a move gnubg does not wait for |

The modules state more of what comments and documents say, in the last section of
each. These statements are not satisfied either. They have no run of their own; a
configuration with `SPECIFICATION Spec` (`FairSpec` for `PausedClockStops`), the
constants below and the statement as its only property reproduces each. `Budgets` is the set with
the one record named (0 for what is not), queue the `MaxQueue`.

| Statement | Module and constants | What the code does |
|---|---|---|
| `CancelledCandidateIsPartial` | `Rollout`, as `RolloutLostCancel.cfg` | a cancel before the flag's reset (`stubs.c` 579) is forgotten for the current candidate |
| `ReturnsCandidatesRolled` | `Rollout`, the same | returns the candidates found, not those rolled |
| `LiveValuesAreTheCandidates` | `Rollout`, the same | live values of one candidate may be shown under the next one's index |
| `NeverTorn` | `LiveDice`, 1 work, 2 rolls | a second roll in the same work tears the pair |
| `DisplayedIsThisWorks` | `LiveDice`, 2 works, 1 roll | old dice shown when the next work begins before the clear |
| `RightSideIsCharged` | `ClockHands`, 1 start, 2 turns, queue 1 | the wrong side may be left running |
| `FreshDelayOnlyOnChangeOfSide` | `ClockHands`, 1 start, 1 pause, 2 turns, queue 1 | a fresh delay after a pause |
| `PausedClockStops` | `ClockHands`, the same | the clock may run through the pause |
| `CollectedOnce` | `ClockHands`, 1 start, 2 turns, queue 1 | twice, on board and clock at once |
| `CollectsWhileOnRecord` | `ClockHands`, 2 starts, 2 turns, queue 2 | collected behind the start of the next match |
| `ReserveIsThisMatchs` | `ClockHands`, 1 start, 1 restart, 2 turns, queue 1 | New match does not arm the clock |
| `NewMatchIsNotHeld` | `ClockHands`, the same | the old match's end may latch the new one |
| `EndScreenIsSticky` | `ClockHands`, 1 start, 1 turn, 1 entry, queue 1 | a tap's late write of the state it captured takes the end screen away under its latch |
| `DecidedMatchFires` | `ClockHands`, 1 start, 2 turns, queue 1 | a resignation, take or drop queued behind the turn that ends a game decides the match under that game's latch: not collected |
| `RollsAwaitTheAnswer` | `GnubgMatch`, as `MCGnubgMatch.cfg`, length 1, 6 records | gnubg offers a gammon, the human offers a single game instead of answering (Resign is live in every phase), gnubg refuses that, and the human's roll is taken (TLC's first trace may have the offers the other way round: what a position is worth is not kept) |
| `ContextIsInstalled` | `MCMatchSetup`, as `MCMatchSetup.cfg` | the ID of an edited score above the length is refused (`matchid.c` 213-218) and passed over (`set.c` 4898-4901); 0 is returned, against `gnubg_mobile.c` 1455, and the board goes into the old match, with its score and its player on roll, who may see it from the other side |
| `GreyAreUnplayable` | `MCMoveEntry`, as `MCMoveEntry.cfg` | a die is greyed by the first hops of the plays listed (`GVM` 437-476), which the order of a play decides |
| `KeyHalvesTogether` | `CareerLedger`, 2 matches, 1 crash | one half of the key may stay alone, for good |
| `PublicKeyIsWritten` | `CareerLedger`, 2 matches | a failed write is never repeated |
| `EveryEntryLinks` | `CareerLedger`, 2 matches | an unreadable ledger counts as empty |
| `InterruptionIsNoChange` | `CareerLedger`, 2 matches | the entry behind a fragment, on the same line, makes it a change |
| `LostKeyIsASeam` | `CareerLedger`, 3 matches, 1 reinstallation | entries of the new key are reported as rewritten |

Reading for the model brought up more that the documents say otherwise, or that a reader of
the properties has to know:

* An illegal position is installed. `ParsePosition` gives 0 for an illegal position ID and `set.c`
  619 tests for less than 0, against what `gnubg_mobile.c` about 1459 and `AnalyseScreen.kt` 345-347
  say. `EditedIsInstalled` is about legal ones. A position with too many chequers is refused
  while the match state says a game is on, and the match ID of an ended game with dice or an owned
  cube makes it one on, against `AnalyseScreen.kt` 214-223; `GameStateIsTheTest` states exactly what the test tells.
* When an XGID has the other side on roll (return value 2), `AnalyseScreen.kt` 822 speaks of top and
  bottom; what comes of agreeing is the run `swap`.
* IDs cannot carry a pending resignation, so those shown during one lose it.
* `fCrawfordState` outlives a walk: New game after walking back to an earlier game would take the
  later game's value, and break `CrawfordRule`. The app shows the button only for the match in play,
  so `NewGameButton` asks that nothing was walked.
* `move_is_last_in_match` looks at the current game alone, and a GAMEINFO's winner stays set
  after walking back. `AtEnd` therefore asks for the last game too.
* A Confirm whose body runs late sends the text of the play of an older state. That does no harm
  because `CommandMove` looks the board up in the list of the turn it is in: `GnubgTakesPlays`.

## 4. Fairness

* `Rollout`: every thread is scheduled (weak fairness). Taking
  `rollout_live_mutex` is strongly fair: pollers sleep 200 ms and more between two
  polls, so the mutex is free again and again for long. Taking a task is strongly fair for each
  worker, as GLib's queue wakes any of them. A poller need not poll and
  the user need not cancel; a cancel begun is finished.
* `LiveDice`: strong fairness of the work's end, because gnubg's search and its
  turn are finite although they may include many rolls; watchers wake every 100 ms.
* `ClockHands`: weak fairness of each thread, and of the end of a handler that has begun on the main
  thread (`WriteBack`: the two assignments of `undo` or `swapDice`). The user owes nothing: tap, pause and
  resume are never fair.
* The other specifications promise nothing under fairness. `DrainEnds` of
  `GnubgMatch` bounds the number of steps instead, which is more than termination.

## 5. The proofs

All hold for every value of the constants that satisfies the module's
`ASSUME`s: natural bounds, sides that can meet on the board, `Free` not a poller; 15 chequers at most,
which is what a point of gnubg's key holds, and no die larger than the board (`ListAssumption`); turns that
begin with all chequers there and no point shared (`EntryAssumption`); for `GnubgMatch` a limit of the cube that is a power of two, as gnubg's `MAX_CUBE` is, and more
men than one, so that no game is won by its first move.

**TimeControlProofs**, from `Delay`, `Reserve`, `Horizon \in Nat`. The
clock's properties are not inductive by themselves: settle's outcome depends on
the running side, the last timestamp and the pause being what the observer
believes. The invariant adds that clock and observer agree on these (paused,
running, seen), that the delay left is that of the turn, and the reserve formula
for both sides. Proved: `TypeCorrect`, `ReserveCorrect`, `DelayCorrect`, `FlagCorrect`,
`OthersUntouched`, and `ImplementsTableClock` (initial
states and every step map to `TableClock`, under the mapping `Table`).

**CareerLedgerProofs.** `ChainLinks` speaks of the
lines; what keeps it is what `collect` holds in hand between reading and
appending. `IInv` adds `InHand` (at the append, `prev` is still the hash of the
last complete line unless the read failed, and the match file is whole) and
`LinesBehind` (lines name earlier matches only, so a new match file disturbs
no entry's). Proved: `TypeCorrect`, `ChainCorrect`, `FiledCorrect`. `CleanCorrect` (no false
alarm of the verifier) needs a second invariant, `KeysOfFirst`: short of a
reinstallation there is one key, it signs every line and it is the one published.

**RolloutProofs.** Why nobody uses the barrier after return: `remaining` is the number of tasks of this frame
that are queued or at work (`TaskInv`, over the set of those tasks, so that finishing one is
removing an element), hence at zero no worker holds a pointer; the pointer of a poll is covered by
the mutex, which a walking poll holds and the withdrawal needs (`FrameInv`). Why labels are honest:
slots filled under the barrier are of the barrier's candidate (`SlotInv`), the mean stored is over
the completed ones and its label their number (`RecordInv`). `LiveLabelCorrect` adds
`CountInv` (the done count is that of the completed slots, less those a worker has marked
and not counted yet) and `PollInv` (what the poll has read and what is still in
front of it together are no fewer than the count it read first). `LaterNeverStart`: a task
is of the barrier's candidate, and the verb starts no candidate behind the one at which it saw the
cancel. Cardinalities are from `FiniteSetTheorems`.

**ClockHandsProofs.** `TypeCorrect` already needs an argument: a hand-over that lands after the
match launches a poller of its own, and one must be free. Pollers not free are bounded by what was launched
for, the starts and restarts counted so far. `OnlyTheJobIsLive`: whoever replaces `clockJob` cancels it first,
so every poller but the current job's has been cancelled, wherever it stands in its loop.
`ClaimCorrect`: `DueInv` says where the engine thread stands while a match is due: before the first projection of its end,
with the collection still armed and nothing latched, or at the claim itself; and that the match is the one gnubg holds. A claim made by another thread in between is for that match
too, because the clock is armed for a later one only while a match is being started (`LatchInv`); a thread standing inside `clockHandTo` is, for
the invariant, where it will return to.
`EndScreenCorrect` has two parts. The first is about steps, of every thread: the projections respect the latch, and the only other
writers of the phase are the two the property names. The second, `LatchedScreen`, is inductive: under the latch gnubg is
shown at work only while an end is being posted, whatever bodies were queued and whatever the taps wrote back. It does
not say that the end screen is shown under the latch: a late write takes it away.

**LiveDiceProofs.** No lock: freshness rests on the order of the loads and stores. `SeqBehindDice`: no die is
older than the sequence number. `ReadInOrder`: a watcher reads the sequence after its base and the dice
after the sequence. So dice accepted because the sequence advanced are newer than the base.

**MoveEntryProofs.** `UndoLeadsHome` holds because every write, on
whichever thread, writes a copy derived from one state: every copy of the state, shown, captured or
about to be written, is `Homing` by itself, and no step mixes two copies. So lost
updates lose moves and never mix turns. Nothing is assumed of gnubg's answers.

`TypeCorrect` says more than types: whatever the order of the bodies, the opponent has as many chequers on
every copy of a turn's board as when the turn began, so a blot that is hit is on the bar. `TInv` says this of the copies
shown, captured, about to be written and of every snapshot in their histories, from which Undo takes the board. A hop
keeps the sum over a half (`HopKeepsChequers`, by induction on sets of points); taps hop once or twice, and a drag
folds a hop over a way, which the `Fold` lemmas unfold once and for all. The hypothesis, `GnubgAssumed`,
is that gnubg lists plays as sequences and makes a board, or a refusal, of the texts it
finds. `EntryAssumption` bounds the queue: what waits behind a roll may wait in the turn the roll begins.

`PreviewCorrect` is about two loops over the same play: `landingPointsFrom` lights up where it takes the chequer,
without looking at the dice or the board; `dragMove` follows it, then walks its hops, each of which needs a die still
left and must be legal on the board the hops before it made. `FollowedAlong`: both loops are at the same point after each
hop, so what is lit is the end of a chain of hops of the play (`LitIsReached`). `ChainWalks`: along the chain a die is
left for each hop (`DieLeft`: either the dice are equal, or they are two and each is used once), and the hops before
it neither move the chequer elsewhere nor close a point. The types carry what this needs, that `legalMoves` was
listed for the `board` and the `remainingDice` beside it, on every copy of the state: a body that writes one without
the others would break it. The further hypothesis, `GnubgPlays`, is that gnubg's plays are hops of the dice to open points
and use each of two different dice once. As the property, it leaves out a chequer on the bar.

`GeneratorIsTheRules` is about `MoveList`: on every legal board and for every roll, the boards listed are those of `RulePlays`.
It has three parts.

* *What is searched.* A hop the generator may make is one the rules allow (`MayMoveIsRule`), so the plays met are a tree whose
  branches are ways to play the dice (`TreeIsSound`). Conversely `DoublesMeetWays` and `PairsMeetWays` find in
  the tree, for each way, a play as long that leads to the same board; those a search ends with it saves. The generator looks from the highest chequer down; of a double, it
  looks no higher than the chequer moved last, and `DoubleStep` shows by `Exchange` that nothing is lost: two
  hops of one die can be made in the other order, and lead to the same board. Of two different dice it follows both orders,
  which `PairGoesOn` puts together.
* *What is kept.* `SaveMoves` drops the plays with fewer hops or pips than the best so far, and one of two with the same
  key. `SaveKeeps` says what the list then is, `GenerateKeeps` carries that along the fold over all that is met: the
  list stands for the best of them. Here `KeyIsFaithful` is needed, and that a hop keeps the position legal
  (`HopKeepsLegal`), for otherwise a key would not say which board it is of.
* *What the rules ask.* The ways of a roll, counted by hops, end at one length, and the rules' plays are those of that
  length with the most pips (`MostDice`, `RulePlaysAre`): what the list stands for.

`GeneratedCorrect` adds only that gnubg waits with a legal board and two dice (`Waits`).

`TakenCorrect` says of all presses together what `CommandMove` does for one of them. The texts are not looked into: a
text of any kind is parsed to hops, and the board these lead to is taken only if it is that of a listed play
*replayed*, `ApplyMove` of `anMove`. So the list must replay: `ListedReplays`, along the tree (`TreeReplays`), shows that a
listed play leads, hop by hop, to the board it was saved with, although `SaveMoves` has clamped a hop off the board to -1 and
the length of the hop is read back off it (`OffIsOff`: any die that bears the chequer off leaves the same board). By `GeneratorIsTheRules`
that board is a play of the rules. `TurnInv` carries it through the turn; the only step that changes gnubg's board in a turn
is the answer to a text.

`TextCorrect` rests on `TextIsTaken`, for every legal board, roll and play. `FormatMove` sorts the hops of a play, joins
hops where one ends and another begins to the way of one chequer, dropping the point between unless a blot was hit there,
and writes equal ways once with their number; the reader makes hops of these, which are neither the play's nor in its order.
What survives is an account: of each point, how many hops go in less how many go out, and which blots are hit (`Net`,
`Amounts`). Sorting keeps it (`CanonicalOrder`), each of the sixteen looks for a join does (`JoinKeepsJoined`, `CombineJoins`),
and so do writing and reading (`WaysAreRead`, `TextIsRead`). Two plays of the same account lead to the same board
(`SameEffect`) if each can be made, and the one read can: its hops go from the highest point down, so all that come to a point
have come before any leaves, and a point never runs out (`FallingIsFeasible`); a joined hop is longer than a die, so the
facade's legality of one die does not cover it, and `HopGoes` is stated for hops of any length. With `GeneratorIsTheRules` the
board is that of a listed play, which is all `CommandMove` asks.

`GnubgKeepsItsWord` discharges the hypotheses of `TypeCorrect` and `PreviewCorrect`: they hold of `MoveList`'s functions on every
board, legal or not, as the lists are asked for on boards of the turn as well. `Loose` is what a play under way keeps to without any
assumption on the board: its hops are of the dice, one each of two different ones, and land on points that were open
when the play began, as a hop never adds to the opponent's points (`OpenWasOpen`). `EntryCorrect` then states all of it with nothing
assumed of gnubg's answers but that they are `MoveList`'s (`BoundToMoveList`, as `MCMoveEntry.cfg` binds them).

About `Board`, in the same module: `HopKeepsPointsApart`, `SwapSidesKeepsLegality` and `KeyIsFaithful`
(two boards with equal keys are equal: dropping duplicates by key drops no play).

**GnubgMatchProofs.** The match is computed in two ways, by playing on and by replaying the
record, and every property rests on their agreement. The invariant `IInv` says:

* every game of the record replays (`GameOK`): each record is `Legal` in the state the
  records before it leave, and after each of them the `Facts` hold, which relate
  that state to the record (the men borne off, the takes and the cube, who is to answer, how
  it ends);
* the match state is what the replay up to the cursor leaves (`Pending`), but for an offered
  resignation, whose turn is the other side's, the turn gnubg forgoes by refusing one while its own stood, and, before a game's first record, for the side on turn;
* what NextTurn owes (`Duty`): while the computer is on turn at the end of the record
  a turn is owed, and behind a cursor that was walked back nothing is left for the computer to do.

`Replayed` is a recursive function over the records. Its recursion is unfolded once (`StepsExist`,
`ReplayedUnfolds`), with induction over the natural numbers in the form of `SetInduction`,
a consequence of the pigeonhole principle in `FiniteSetTheorems`, as the library's theorem
takes an operator. Then each kind of record has a lemma for what it makes of the match state, and
one for the facts it keeps. The step that was least obvious is `AddMoveRecord`'s elision: it applies the
new record to a state in which the roll has been made, and takes the roll out of the
record. `RollMakesNoDifference` shows that the move leaves the same state without it. Each command of
the human and each branch of `ComputerTurn` is then a legal record, an offer, or nothing (`Fine`);
with new games, restarts, `NextTurn` and walks there are five kinds of steps, and each keeps `IInv`.
Proved from it: `TypeCorrect`, `OrientationCorrect`, `ReplayCorrect`, `MovesCorrect`,
`CubeCorrect`, `HumanCorrect`.

`ImplementsScore` adds `Chain`: all games have the match's length, every one but the last is
finished, and each starts from the score the one before left. So the line of scores that
`Score` maps the record to is the list of the games' own scores (`LineBefore`), cutting the
record cuts it, and the one game that grows adds at most one score to it (`LineGrows`): the steps of
`MatchScore`. A new match or session begins the line anew.

`CrawfordCorrect` adds `Remembered`. `Crawfords`: a game is marked as the Crawford game exactly when it is
`Due`, that is when a player is one point away at its start and none was at the start of the game before.
`Attends` is why New game keeps to it: the static `fCrawfordState` must hold the mark of the game that
is replaced (or nothing, in the first game), which is true only while nothing has been walked, and
a match at rest behind a finished game must be over. `EndDue` shows that `EndOfGame` computes the mark the next game
is due. The rule itself follows as a player one point away stays so until the match ends (`OneAwayStays`, by induction).

`DrainCorrect` says of the loop of `gnubg_mobile_run_next_turn`, which has no bound of its own, that it ends. `Left` counts
from the match state alone how many `NextTurn`s can still leave a turn owed: the computer takes a double, then
moves and wins the game, then has the first turn of the next. The invariant
`Drains` is that the turns taken and those left are three at most. The count goes down only if no command the computer
gives is refused, for a refused one would leave the turn owed for ever. That a double is
never refused needs that a session has no Crawford game (`SessionIs`, from `Crawfords`) and that the cursor
stands on the double that is answered; and the first move of a game, which both players may begin, cannot end it
as there are two chequers or more. The one hypothesis is `MaxTurns >= 3`: the bound of the model must not itself end the loop.

`MatchEndsOnce` says it of the match's own games: only the last score of the line can be one that ends the match, and each is
the one before with one side's points added (`ChainWonOnce`, from `Chain`).

**MatchSetupProofs.** For boards of any size and any IDs, XGIDs and edited positions, set one after another. The
assumptions say that the input is of its type: bits, fields of their width, cubes that are powers of two
(`InputAssumption`), and that a match begins with a legal position (`SetupAssumption`). `IDIsFaithful`: a position ID of
as many bits as the code has is read as the board it was written of, if neither side has too many chequers. `PositionID`
writes a run of ones and a zero for each point of each side; reading is a fold over the bits. Induction
over the bits carries where the reader stands and how many ones it has counted there.

What a match ID makes of the match takes up to five records, each with a lemma for the fields it
writes and for those it keeps (`Kept`); `SetMatchIDFields` puts them together. `MatchIDWritten` is the other
direction, the field widths and the logarithm of the cube with them. The inductive invariant `IInv` says
that the match state is `Sound`, now and when the last verb was called (a game has a
mover, the score fits the length, Crawford only one away and with the cube at 1), and that it is what
the verb makes of the one before. `Sound` is what makes the IDs shown acceptable to the decoder, which `IdsAreStable` needs.
Proved from it: `TypeCorrect`, `GameStateTells`, `EditsComeBack`, `StableIds`.

Only model-checked: `EveryPlayCanBeEntered` (what taps can reach, a RECURSIVE definition, which is induction over data), and all liveness (temporal properties under fairness and ENABLED are
beyond the prover). The one RECURSIVE operator is in `MCMoveEntry`, which no proof reaches.

## 6. Not modelled

* The vendored engine's neural evaluation, bearoff databases, analysis, file formats and rollouts' trials: numerical
  or I/O code, most of the repository's lines, without state of its own that the app's logic depends on. The
  generator, the IDs and `play.c`'s match are the parts of it that are modelled.
* `tc_serialize`/`tc_deserialize` (no caller in the app), the clock's display.
* Coach sessions and the coach's hold; the all-time tally; `match_errors`,
  `match_stats`, `tally_rolls`; the foreground service's start and stop; failing folder lookups. The hazards in
  them are listed in `PROJECT.json` with a note.
* Of the match: `PLAYER_EXTERNAL`, `CommandEndGame` (which drops a pending resignation on
  Android), tutor and automatic options, which the bridge switches off, and
  `fAutoCrawford` and `fCubeUse` off, which the settings offer.
* Screens, preferences, assets, JNI marshalling: presentation or pure I/O.

## 7. Plan

Done:

1. `TimeControl` over `TableClock`; 2. `Rollout`; 3. `LiveDice`; 4. `ClockHands`, composed with `TableClock`;
5. `CareerLedger`; 6. `GnubgMatch` over `MatchScore`.

Done in part:

7. The session: the entry of a turn is `MoveEntry`. Left: the coach's hold, Coach sessions,
   the tally, and `MoveEntry` over `GnubgMatch` in place of a turn of its own.
10. Pure algorithms against references: the generator, the text of plays, the IDs. Left: the
    top-errors insertion, the tally of rolls, `rollout_accumulate`'s walk.
11. Proofs: those of section 5. Of the safety properties the runs check, `EveryPlayCanBeEntered` alone has none.

To do:

8. `RolloutAnchor`: the foreground service against the verb, over an abstract
   rollout that `Rollout` is shown to implement.
9. Failing lookups in `CareerLedger`, an abstract `Record` (append-only) it
   implements up to marred lines, the verifier's notes.
