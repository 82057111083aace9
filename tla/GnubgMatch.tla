---- MODULE GnubgMatch ----
(***************************************************************************)
(* gnubg's match: engine-core/play.c as the facade drives it               *)
(* (jni-bridge/src/gnubg_mobile.c).  The facade runs one verb at a time    *)
(* under gnubg_lock: a command of play.c, then NextTurn again and again    *)
(* until fNextTurn is off.  A verb is one step here, and so is each NextTurn*)
(* of the drain; no verb begins before the drain is done.                  *)
(*                                                                         *)
(* The state is gnubg's: ms, the record of games lMatch, plGame and        *)
(* plLastMove.  Each C function is an operator from a state to a state, or *)
(* to the set of states its choices can lead to (dice, the computer's mind)*)
(*                                                                         *)
(* Left out: the board but for the number of chequers each side has left,  *)
(* which is what ends a game; of the dice, all but whether they can be     *)
(* played; set positions; PLAYER_EXTERNAL.  Of the options, the bridge     *)
(* keeps fAutoRoll, fAutoMove, fAutoBearoff and fTutor off and fAutoGame   *)
(* on; fAutoCrawford and fCubeUse, which the settings can turn off, are    *)
(* taken as on.                                                            *)
(***************************************************************************)
EXTENDS Integers, Sequences, FiniteSets, SequencesExt

CONSTANTS
    Lengths,    \* match lengths asked for; 0 is a money session
    Men,        \* chequers of a side
    MaxCube,    \* MAX_CUBE
    NBeavers,   \* nBeavers
    AutoDoubles,\* cAutoDoubles
    MaxRecords, \* bound, by length: records in lMatch when the human acts
    MaxTurns    \* NextTurns a drain may take

ASSUME ConstantsAssumption ==
    /\ Lengths \subseteq Nat
    /\ Men \in Nat /\ Men > 1      \* no game is won by its first move
    /\ MaxCube \in Nat \ {0} /\ NBeavers \in Nat /\ AutoDoubles \in Nat
    /\ MaxRecords \in [Lengths -> Nat] /\ MaxTurns \in Nat

Human   == 0        \* ap[0].pt = PLAYER_HUMAN
Gnu     == 1        \* ap[1].pt = PLAYER_GNU
Players == {Human, Gnu}
Nobody  == -1
Other(p) == 1 - p

\* anDice: none rolled, rolled but no move to play, rolled.
NoDice == 0
Stuck  == 1
Open   == 2

VARIABLES
    ms,             \* the match state
    lMatch,         \* the record: a sequence of games
    last,           \* plGame and plLastMove: game g, its record k (0: its GAMEINFO)
    fNextTurn,      \* a turn is owed to NextTurn
    fCrawfordState, \* static of play.c: <<>> for -1, else <<fCrawford, fPostCrawford>>
    nSessionLen,    \* games of a session; 0 for LONG_MAX
    walked,         \* history: the cursor has been moved in this match
    turns           \* history: NextTurns since the verb, counted up to MaxTurns + 1

vars == <<ms, lMatch, last, fNextTurn, fCrawfordState, nSessionLen, walked, turns>>

\* The whole state as a value, for the operators that stand for C functions.
Now == [ms |-> ms, lMatch |-> lMatch, last |-> last, next |-> fNextTurn,
        craw |-> fCrawfordState, session |-> nSessionLen]

Become(s) ==
    /\ ms' = s.ms /\ lMatch' = s.lMatch /\ last' = s.last
    /\ fNextTurn' = s.next /\ fCrawfordState' = s.craw /\ nSessionLen' = s.session

\* 1 << n
Shl[n \in Nat] == IF n = 0 THEN 1 ELSE 2 * Shl[n - 1]

\* MAX_CUBE is a power of two.
ASSUME CubeAssumption == \E n \in 0..MaxCube : MaxCube = Shl[n]

Max2(a, b) == IF a > b THEN a ELSE b
Min2(a, b) == IF a < b THEN a ELSE b

-----------------------------------------------------------------------------
(* Records and what they do to the match state.                            *)

Rec(mt, p, n) == [mt |-> mt, p |-> p, n |-> n]

\* anBoard: index 1 is the side on move.
SwapSides(board) == [i \in Players |-> board[1 - i]]

\* 0 while the game goes on; 2 if the loser has borne off nothing.
GameStatus(board) ==
    IF \A i \in Players : board[i] > 0 THEN 0
    ELSE IF \E i \in Players : board[i] = Men THEN 2 ELSE 1

ApplyGameInfo_KeepCubeFault(m, info) ==
    [m EXCEPT !.gs = "none", !.resigned = 0, !.declined = 0,
              !.board = [i \in Players |-> Men],
              !.nMatchTo = info.nMatch, !.score = info.score, !.cGames = info.i,
              !.move = Nobody, !.turn = Nobody, !.owner = Nobody, !.dice = NoDice,
              !.beavers = 0, !.doubled = FALSE, !.crawford = info.crawford,
              !.post = ~info.crawford /\ \E p \in Players : info.score[p] = info.nMatch - 1]

\* The GAMEINFO branch of ApplyMoveRecord.
ApplyGameInfo(m, info) ==
    [m EXCEPT !.gs = "none", !.resigned = 0, !.declined = 0,
              !.board = [i \in Players |-> Men],
              !.nMatchTo = info.nMatch, !.score = info.score, !.cGames = info.i,
              !.move = Nobody, !.turn = Nobody, !.owner = Nobody, !.dice = NoDice,
              !.beavers = 0, !.doubled = FALSE, !.cube = Shl[info.auto],
              !.crawford = info.crawford,
              !.post = ~info.crawford /\ \E p \in Players : info.score[p] = info.nMatch - 1]

\* What a record leaves: the match state, and the GAMEINFO of its game.
GoesOn(m, info) == [ms |-> m, info |-> info]

\* ApplyGameOver, with the assignments to the GAMEINFO that precede each call.
GameOver(m, info, gs, winner, points) ==
    [ms   |-> [m EXCEPT !.gs = gs, !.score[winner] = @ + points, !.cGames = @ + 1],
     info |-> [info EXCEPT !.winner = winner, !.points = points]]

ApplyDouble(m, p) ==
    LET n == IF m.move = Nobody THEN [m EXCEPT !.move = p] ELSE m
    IN  IF n.cube >= MaxCube THEN n
        ELSE IF n.doubled
               THEN [n EXCEPT !.beavers = @ + 1, !.cube = 2 * @, !.owner = Other(n.move),
                              !.turn = Other(p)]
               ELSE [n EXCEPT !.doubled = TRUE, !.turn = Other(p)]

ApplyTake(m) ==
    IF ~m.doubled THEN m
    ELSE [m EXCEPT !.cube = 2 * @, !.beavers = 0, !.doubled = FALSE,
                   !.owner = Other(m.move), !.turn = m.move]

ApplyDrop(m, info, p) ==
    IF ~m.doubled THEN GoesOn(m, info)
    ELSE GameOver([m EXCEPT !.doubled = FALSE, !.beavers = 0], info, "drop", Other(p), m.cube)

\* PlayMove: borne is 1 if the move bears a chequer off.
PlayMove_KeepMoverFault(m, p, borne) ==
    [m EXCEPT !.board = SwapSides([m.board EXCEPT ![1] = @ - borne]), !.turn = Other(p)]

PlayMove(m, p, borne) ==
    LET own == IF m.move # Nobody /\ p # m.move THEN SwapSides(m.board) ELSE m.board
    IN  [m EXCEPT !.board = SwapSides([own EXCEPT ![1] = @ - borne]),
                  !.move = Other(p), !.turn = Other(p)]

ApplyNormal(before, info, p, borne) ==
    LET m == [PlayMove([before EXCEPT !.doubled = FALSE], p, borne) EXCEPT !.dice = NoDice]
        n == GameStatus(m.board)
        jacoby == m.owner = Nobody /\ m.nMatchTo = 0
    IN  IF n = 0 THEN GoesOn(m, info)
        ELSE GameOver(m, info, "over", p, m.cube * (IF jacoby THEN 1 ELSE n))

ApplyResign(m, info, p, n) ==
    GameOver([m EXCEPT !.resigned = n], info, "resigned", Other(p), m.cube * n)

ApplySetDice(m, p, dice) ==
    [m EXCEPT !.dice = dice, !.turn = p, !.move = p, !.doubled = FALSE,
              !.board = IF m.move # p THEN SwapSides(@) ELSE @]

\* ApplyMoveRecord, on a match state and the GAMEINFO of its game.
ApplyMoveRecord(before, info, r) ==
    LET m == [before EXCEPT !.gs = "playing", !.resigned = 0, !.declined = 0]
    IN  CASE r.mt = "double"  -> GoesOn(ApplyDouble(m, r.p), info)
          [] r.mt = "take"    -> GoesOn(ApplyTake(m), info)
          [] r.mt = "drop"    -> ApplyDrop(m, info, r.p)
          [] r.mt = "normal"  -> ApplyNormal(m, info, r.p, r.n)
          [] r.mt = "resign"  -> ApplyResign(m, info, r.p, r.n)
          [] r.mt = "setdice" -> GoesOn(ApplySetDice(m, r.p, r.n), info)

\* A record that names another player than the one on turn: one is missing.
FixMatchState(m, r) ==
    IF r.mt \in {"normal", "double"} /\ m.turn # r.p
      THEN [m EXCEPT !.board = SwapSides(@), !.move = r.p, !.turn = r.p]
      ELSE m

\* A record is applied after what is missing before it.
FixAndApply(m, info, r) == ApplyMoveRecord(FixMatchState(m, r), info, r)

\* CalculateBoard: the game from its GAMEINFO to record k, and ready for the next.
Replayed(m, game, k) ==
    LET after[i \in 0..k] ==
          IF i = 0 THEN GoesOn(ApplyGameInfo(m, game.info), game.info)
          ELSE FixAndApply(after[i - 1].ms, after[i - 1].info, game.recs[i])
    IN  after[k]

Replay(m, game, k) ==
    LET x == Replayed(m, game, k)
    IN  IF k < Len(game.recs) THEN GoesOn(FixMatchState(x.ms, game.recs[k + 1]), x.info) ELSE x

CalculateBoard(s) ==
    LET x == Replay(s.ms, s.lMatch[s.last.g], s.last.k)
    IN  [s EXCEPT !.ms = x.ms, !.lMatch[s.last.g].info = x.info]

\* AddMoveRecord: what lies ahead of the cursor goes; so does the SETDICE that a
\* move, or another SETDICE, of the same player replaces.
AddMoveRecord(s, r) ==
    LET g == s.last.g
        before == SubSeq(s.lMatch[g].recs, 1, s.last.k)
        elided == /\ r.mt \in {"normal", "setdice"} /\ before # <<>>
                  /\ Last(before).mt = "setdice" /\ Last(before).p = r.p
        kept == IF elided THEN Front(before) ELSE before
        x == FixAndApply(s.ms, s.lMatch[g].info, r)
    IN  [s EXCEPT !.ms = x.ms,
                  !.lMatch = Append(SubSeq(@, 1, g - 1), [info |-> x.info, recs |-> Append(kept, r)]),
                  !.last.k = Len(kept) + 1]

\* AddMoveRecord, then TurnDone.
Record(s, r) == [AddMoveRecord(s, r) EXCEPT !.next = TRUE]

\* LinkToDouble: the record the cursor stands on is a double.
LinkToDouble(s) == s.last.k > 0 /\ s.lMatch[s.last.g].recs[s.last.k].mt = "double"

-----------------------------------------------------------------------------
(* The commands.  A refused command leaves the state as it is.  gnu says   *)
(* that the computer decides (fComputerDecision).                          *)

MayAct(m, gnu) == m.gs = "playing" /\ (m.turn = Human \/ gnu)

gnubg_can_double_NoOwnerFault(m, gnu) ==
    /\ MayAct(m, gnu)
    /\ ~m.crawford
    /\ m.turn = m.move
    /\ m.dice = NoDice
    /\ m.nMatchTo = 0 => m.cube < MaxCube
    /\ m.nMatchTo # 0 => m.cube < m.nMatchTo - m.score[m.turn]

gnubg_can_double(m, gnu) ==
    /\ MayAct(m, gnu)
    /\ ~m.crawford
    /\ m.turn = m.move
    /\ m.dice = NoDice
    /\ m.owner \in {Nobody, m.turn}
    /\ m.nMatchTo = 0 => m.cube < MaxCube
    /\ m.nMatchTo # 0 => m.cube < m.nMatchTo - m.score[m.turn]

CommandRedouble_LimitFault(s, gnu) ==
    LET m == s.ms
    IN  IF /\ m.nMatchTo = 0 /\ m.beavers < NBeavers
           /\ MayAct(m, gnu) /\ m.doubled /\ m.cube < MaxCube
          THEN Record([s EXCEPT !.ms.owner = Other(m.move)], Rec("double", m.turn, 0))
          ELSE s

CommandRedouble(s, gnu) ==
    LET m == s.ms
    IN  IF /\ m.nMatchTo = 0 /\ m.beavers < NBeavers
           /\ MayAct(m, gnu) /\ m.doubled /\ m.cube < MaxCube \div 2
          THEN Record([s EXCEPT !.ms.owner = Other(m.move)], Rec("double", m.turn, 0))
          ELSE s

CommandDouble(s, gnu) ==
    IF ~gnubg_can_double(s.ms, gnu) THEN s
    ELSE IF s.ms.doubled THEN CommandRedouble(s, gnu)
    ELSE Record(s, Rec("double", s.ms.turn, 0))

CommandTake(s, gnu) ==
    IF MayAct(s.ms, gnu) /\ s.ms.doubled /\ LinkToDouble(s)
      THEN Record(s, Rec("take", s.ms.turn, 0)) ELSE s

CommandDrop(s, gnu) ==
    IF MayAct(s.ms, gnu) /\ s.ms.doubled /\ LinkToDouble(s)
      THEN Record(s, Rec("drop", s.ms.turn, 0)) ELSE s

CommandAgree(s, gnu) ==
    IF MayAct(s.ms, gnu) /\ s.ms.resigned # 0
      THEN Record(s, Rec("resign", Other(s.ms.turn), s.ms.resigned)) ELSE s

CommandDecline(s, gnu) ==
    IF MayAct(s.ms, gnu) /\ s.ms.resigned # 0
      THEN [s EXCEPT !.ms.declined = s.ms.resigned, !.ms.resigned = 0,
                     !.ms.turn = Other(@), !.next = TRUE]
      ELSE s

CommandAccept(s) ==
    IF s.ms.resigned # 0 THEN CommandAgree(s, FALSE)
    ELSE IF s.ms.doubled THEN CommandTake(s, FALSE) ELSE s

CommandReject(s) ==
    IF s.ms.resigned # 0 THEN CommandDecline(s, FALSE)
    ELSE IF s.ms.doubled THEN CommandDrop(s, FALSE) ELSE s

CommandResign_KeepTurnFault(s, n, gnu) ==
    IF ~MayAct(s.ms, gnu) THEN s
    ELSE IF n <= s.ms.declined THEN [s EXCEPT !.ms.resigned = 0]
    ELSE [s EXCEPT !.ms.resigned = n, !.next = TRUE]

CommandResign(s, n, gnu) ==
    IF ~MayAct(s.ms, gnu) THEN s
    ELSE IF n <= s.ms.declined THEN [s EXCEPT !.ms.resigned = 0]
    ELSE [s EXCEPT !.ms.resigned = n, !.ms.turn = Other(@), !.next = TRUE]

\* The human's roll.  Dice that cannot be played wait for the Continue of the UI
\* (fSuppressAutoForfeit).
CommandRoll(s) ==
    IF /\ MayAct(s.ms, FALSE) /\ ~s.ms.doubled
       /\ s.ms.resigned = 0 /\ s.ms.dice = NoDice
      THEN {AddMoveRecord(s, Rec("setdice", s.ms.turn, dice)) : dice \in {Stuck, Open}}
      ELSE {s}

CommandMove(s, borne) ==
    IF /\ MayAct(s.ms, FALSE) /\ s.ms.dice # NoDice
       /\ s.ms.resigned = 0 /\ ~s.ms.doubled
       /\ s.ms.dice = Stuck => borne = 0
      THEN Record(s, Rec("normal", s.ms.turn, borne)) ELSE s

-----------------------------------------------------------------------------
(* A new game, and the computer's turn.                                    *)

\* What NewGame makes of the Crawford rule.
NextPost(s) ==
    IF s.craw # <<>> THEN s.craw[2]
    ELSE s.ms.post \/ (s.ms.crawford /\ Max2(s.ms.score[0], s.ms.score[1]) < s.ms.nMatchTo)

NextCrawford(s) ==
    IF s.craw # <<>> THEN s.craw[1]
    ELSE /\ s.ms.nMatchTo # 0 /\ ~NextPost(s) /\ ~s.ms.crawford
         /\ Max2(s.ms.score[0], s.ms.score[1]) = s.ms.nMatchTo - 1
         /\ Min2(s.ms.score[0], s.ms.score[1]) < s.ms.nMatchTo - 1

NextInfo(s, auto) ==
    [i |-> s.ms.cGames, nMatch |-> s.ms.nMatchTo, score |-> s.ms.score,
     crawford |-> NextCrawford(s), auto |-> auto, winner |-> Nobody, points |-> 0]

Begin(s, info) ==
    [s EXCEPT !.ms = ApplyGameInfo(@, info),
              !.lMatch = Append(@, [info |-> info, recs |-> <<>>]),
              !.last = [g |-> Len(s.lMatch) + 1, k |-> 0]]

\* NewGame: every outcome of the opening rolls, doubles among them.
NewGame(s) ==
    {AddMoveRecord(Begin(s, NextInfo(s, auto)), Rec("setdice", first, Open)) :
        first \in Players,
        auto \in {a \in 0..AutoDoubles : s.ms.nMatchTo = 0 /\ Shl[a] <= MaxCube} \cup {0}}

GetDPEq_CrawfordFault(m) ==
    /\ m.owner \in {Nobody, m.move}
    /\ m.nMatchTo # 0 => m.score[m.move] + m.cube < m.nMatchTo

\* GetDPEq: the cube is of use to the side on move, and within its reach.
GetDPEq(m) ==
    /\ m.owner \in {Nobody, m.move}
    /\ m.nMatchTo # 0 =>
         /\ ~m.crawford
         /\ m.score[m.move] + m.cube < m.nMatchTo
         /\ ~ /\ \E p \in Players : m.score[p] = m.nMatchTo - 1
              /\ m.score[m.move] = m.nMatchTo - 1

\* ComputerTurn, asked to answer a resignation: it weighs the offer against what the
\* position is worth, which is not kept.  Where it has itself offered to resign it does so
\* from its own side, and may refuse what is less than its own offer.
AnswerResignation(s) == {CommandAgree(s, TRUE), CommandDecline(s, TRUE)}

AnswerDouble(s) ==
    {CommandTake(s, TRUE), CommandDrop(s, TRUE)} \cup
    IF s.ms.beavers < NBeavers /\ s.ms.nMatchTo = 0 /\ s.ms.cube < MaxCube \div 2
      THEN {CommandRedouble(s, TRUE)} ELSE {}

\* It resigns races only, and what it resigns depends on the position alone: after
\* a refusal it does not ask for the same again.
ConsiderResigning(s) ==
    IF s.ms.declined = 0 /\ \E i \in 1..s.last.k : s.lMatch[s.last.g].recs[i].mt = "normal"
      THEN {CommandResign(s, n, TRUE) : n \in 1..3} ELSE {}

ConsiderDoubling(s) ==
    IF s.ms.dice = NoDice /\ s.ms.cube < MaxCube /\ GetDPEq(s.ms)
      THEN {CommandDouble(s, TRUE)} ELSE {}

RollAndMove(s) == {AddMoveRecord(s, Rec("normal", s.ms.turn, borne)) : borne \in 0..1}

\* Every way ComputerTurn may end with 0, for which its callers set fNextTurn.
ComputerTurn(s) ==
    {[t EXCEPT !.next = TRUE] : t \in
        IF s.ms.resigned # 0 THEN AnswerResignation(s)
        ELSE IF s.ms.doubled THEN AnswerDouble(s)
        ELSE ConsiderResigning(s) \cup ConsiderDoubling(s) \cup RollAndMove(s)}

StartNewGame_NoComputerFault(s) == NewGame(s)

\* StartNewGame
StartNewGame(s) ==
    UNION {IF t.ms.turn = Human THEN {t} ELSE ComputerTurn(t) : t \in NewGame(s)}

\* PopGame(plGame, TRUE)
PopGame(s) == [s EXCEPT !.lMatch = SubSeq(@, 1, s.last.g - 1)]

MatchWon(m) == m.nMatchTo # 0 /\ \E p \in Players : m.score[p] >= m.nMatchTo

\* move_is_last_in_match, which looks no further than the game of the cursor.
move_is_last_in_match(s) ==
    s.last.k = IF s.last.g = 0 THEN 0 ELSE Len(s.lMatch[s.last.g].recs)

CommandNewGame_WonFault(s) ==
    StartNewGame(IF s.ms.gs = "playing" \/ ~move_is_last_in_match(s) THEN PopGame(s) ELSE s)

CommandNewGame(s) ==
    IF MatchWon(s.ms) THEN {s}
    ELSE StartNewGame(IF s.ms.gs = "playing" \/ ~move_is_last_in_match(s) THEN PopGame(s) ELSE s)

\* FreeMatch and ClearMatch, and the length of what begins.
ClearMatch_KeepCrawfordFault(s, n) ==
    [s EXCEPT !.ms = [@ EXCEPT !.nMatchTo = n, !.cGames = 0, !.score = [p \in Players |-> 0],
                               !.move = Nobody, !.turn = Nobody, !.crawford = FALSE,
                               !.post = FALSE, !.gs = "none"],
              !.lMatch = <<>>, !.last = [g |-> 0, k |-> 0]]

ClearMatch(s, n) ==
    [s EXCEPT !.ms = [@ EXCEPT !.nMatchTo = n, !.cGames = 0, !.score = [p \in Players |-> 0],
                               !.move = Nobody, !.turn = Nobody, !.crawford = FALSE,
                               !.post = FALSE, !.gs = "none"],
              !.lMatch = <<>>, !.last = [g |-> 0, k |-> 0], !.craw = <<>>]

NewMatchOrSession(s, n) == CommandNewGame(ClearMatch(s, n))

\* CommandNewMatch; a length of 0 makes it a session without end.
CommandNewMatch(s, n) ==
    NewMatchOrSession(IF n = 0 THEN [s EXCEPT !.session = 0] ELSE s, n)

EndOfGame(s) ==
    LET m == s.ms
        w == s.lMatch[s.last.g].info.winner
        post == m.post \/ (m.crawford /\ m.score[w] < m.nMatchTo)
        crawford == /\ ~post /\ ~m.crawford
                    /\ m.score[w] = m.nMatchTo - 1 /\ m.score[Other(w)] # m.nMatchTo - 1
        t == IF m.nMatchTo = 0 THEN s ELSE [s EXCEPT !.ms.post = post, !.ms.crawford = crawford]
    IN  [t EXCEPT !.craw = <<t.ms.crawford, t.ms.post>>]

GameHasEnded(m) == GameStatus(m.board) # 0 \/ m.gs \in {"drop", "resigned"}

-----------------------------------------------------------------------------
(* The verbs of the facade, and NextTurn.                                  *)

Init ==
    /\ ms = [gs |-> "none", turn |-> Nobody, move |-> Nobody, dice |-> NoDice,
             doubled |-> FALSE, resigned |-> 0, declined |-> 0, cube |-> 1,
             owner |-> Nobody, beavers |-> 0, score |-> [p \in Players |-> 0],
             cGames |-> 0, crawford |-> FALSE, post |-> FALSE, nMatchTo |-> 1,
             board |-> [i \in Players |-> Men]]
    /\ lMatch = <<>> /\ last = [g |-> 0, k |-> 0]
    /\ fNextTurn = FALSE /\ fCrawfordState = <<>> /\ nSessionLen = 0 /\ walked = FALSE
    /\ turns = 0

\* Every way a NextTurn may leave the state.
NextTurns(s) ==
    LET e == EndOfGame(s)
        play(t) == IF t.ms.turn = Human THEN {t} ELSE ComputerTurn(t)
    IN  IF ~GameHasEnded(s.ms) THEN play(s)
        ELSE IF MatchWon(s.ms) \/ (s.ms.nMatchTo = 0 /\ s.session # 0 /\ s.ms.cGames >= s.session)
               THEN {e}
        ELSE UNION {play(t) : t \in NewGame(e)}

\* A step of the drain.
NextTurn ==
    /\ fNextTurn
    /\ \E t \in NextTurns([Now EXCEPT !.next = FALSE]) : Become(t)
    /\ turns' = IF fNextTurn' THEN Min2(turns, MaxTurns) + 1 ELSE 0
    /\ UNCHANGED walked

\* A verb: nothing is owed to NextTurn, and the record may still grow.
Verb(outcomes) == ~fNextTurn /\ (\E t \in outcomes : Become(t)) /\ UNCHANGED turns

Size(games) == FoldLeft(LAMBDA n, g : n + 1 + Len(g.recs), 0, games)

Start(outcomes) == Verb(outcomes) /\ walked' = FALSE

Play(outcomes) ==
    /\ last.g # 0 /\ Size(lMatch) < MaxRecords[ms.nMatchTo]
    /\ Verb(outcomes)
    /\ UNCHANGED walked

\* gnubg_mobile_start_match: gnubg's new match, then a new game in its place.
StartMatch == \E n \in Lengths :
    Start(UNION {CommandNewGame(t) : t \in CommandNewMatch([Now EXCEPT !.lMatch = <<>>], n)})
NewMatch   == \E n \in Lengths : Start(CommandNewMatch(Now, n))
NewSession == 0 \in Lengths /\ \E games \in 0..1 :
    Start(NewMatchOrSession([Now EXCEPT !.session = games], 0))

Roll     == Play(CommandRoll(Now))
Move     == \E borne \in 0..1 : Play({CommandMove(Now, borne)})
Double   == Play({CommandDouble(Now, FALSE)})
Redouble == Play({CommandRedouble(Now, FALSE)})
Take     == Play({CommandTake(Now, FALSE)})
Drop     == Play({CommandDrop(Now, FALSE)})
Accept   == Play({CommandAccept(Now)})
Reject   == Play({CommandReject(Now)})
Agree    == Play({CommandAgree(Now, FALSE)})
Decline  == Play({CommandDecline(Now, FALSE)})
Resign   == \E n \in 1..3 : Play({CommandResign(Now, n, FALSE)})

AtEnd == last.g = Len(lMatch) /\ move_is_last_in_match(Now)

\* The New game button belongs to the match in play, in which nothing is walked.
NewGameButton == ~walked /\ Play(CommandNewGame(Now))

\* Walks through the record (the Review screen, over a match it has loaded: no
\* offer is on the table).
Walk(s) == ms.resigned = 0 /\ Verb({s}) /\ walked' = TRUE

\* CommandNext, and gnubg_mobile_next_game, which is the same.
CommandNext ==
    /\ last.g # 0 /\ ~move_is_last_in_match(Now)
    /\ LET g == last.g
           r == lMatch[g].recs[last.k + 1]
           x == FixAndApply(ms, lMatch[g].info, r)
           m == IF last.k + 2 <= Len(lMatch[g].recs)
                  THEN FixMatchState(x.ms, lMatch[g].recs[last.k + 2]) ELSE x.ms
       IN  Walk([Now EXCEPT !.ms = m, !.lMatch[g].info = x.info, !.last.k = @ + 1])

CommandPrevious == last.k > 0 /\ Walk(CalculateBoard([Now EXCEPT !.last.k = @ - 1]))

\* ChangeGame, to the GAMEINFO of the game before or behind; the player on turn is
\* the next record's (get_current_moverecord, SetTurn).
ChangeGame == \E g \in {last.g - 1, last.g + 1} \cap DOMAIN lMatch :
    LET s == CalculateBoard([Now EXCEPT !.last = [g |-> g, k |-> 0]])
        recs == lMatch[g].recs
    IN  Walk(IF recs = <<>> \/ s.ms.turn = recs[1].p THEN s
             ELSE [s EXCEPT !.ms.board = SwapSides(@), !.ms.turn = recs[1].p,
                            !.ms.move = recs[1].p])

Next ==
    \/ NextTurn
    \/ StartMatch \/ NewMatch \/ NewSession
    \/ Roll \/ Move \/ Double \/ Redouble \/ Take \/ Drop
    \/ Accept \/ Reject \/ Agree \/ Decline \/ Resign
    \/ NewGameButton
    \/ CommandNext \/ CommandPrevious \/ ChangeGame

Spec == Init /\ [][Next]_vars

-----------------------------------------------------------------------------
(* Properties.                                                             *)

RecordKinds == {"double", "take", "drop", "normal", "resign", "setdice"}

\* The variables stay in their types; the cube stays within MAX_CUBE.
TypeOK ==
    /\ ms.gs \in {"none", "playing", "over", "drop", "resigned"}
    /\ {ms.turn, ms.move, ms.owner} \subseteq Players \cup {Nobody}
    /\ ms.dice \in {NoDice, Stuck, Open} /\ {ms.doubled, ms.crawford, ms.post} \subseteq BOOLEAN
    /\ {ms.resigned, ms.declined} \subseteq 0..3 /\ ms.beavers \in 0..NBeavers
    /\ ms.cube \in 1..MaxCube /\ ms.board \in [Players -> 0..Men]
    /\ last.g \in 0..Len(lMatch) /\ fNextTurn \in BOOLEAN
    /\ last.g # 0 => last.k \in 0..Len(lMatch[last.g].recs)
    /\ \A g \in DOMAIN lMatch : \A i \in DOMAIN lMatch[g].recs : lMatch[g].recs[i].mt \in RecordKinds

\* Chequers p has borne off in the first k records of a game, one with each move that says so.
BorneOff(recs, k, p) == Cardinality({i \in 1..k : recs[i] = Rec("normal", p, 1)})

\* The board is the one the record tells of, and index 1 is the player on move, as
\* gnubg_mobile_get_board_human relies on when it turns it for the human.
BoardIsOriented ==
    ms.gs # "none" =>
        \A p \in Players :
            ms.board[IF p = ms.move THEN 1 ELSE 0]
                = Men - BorneOff(lMatch[last.g].recs, last.k, p)

\* gnubg is on move with no cube on the table, and yet the human is on turn: gnubg has
\* refused a resignation smaller than its own, which the human made instead of an answer.
TurnForgone == ms.turn = Human /\ ms.move = Gnu /\ ~ms.doubled

\* Playing on and replaying the record come to the same: while a game is in play and no
\* resignation is on the table, CalculateBoard would restore the match state as it is, but
\* that it would give gnubg back the turn it has forgone.
ReplayAgrees ==
    (~fNextTurn /\ ms.gs = "playing" /\ ms.resigned = 0) =>
        [Replay(ms, lMatch[last.g], last.k).ms EXCEPT
            !.declined = ms.declined, !.turn = IF TurnForgone THEN Human ELSE @] = ms

\* Between two moves of gnubg's in a game stands one of the human's, whatever was doubled,
\* declined or taken back in between (FixMatchState would cover up a missing move).
GnubgMovesInTurn ==
    \A g \in DOMAIN lMatch :
        LET recs == lMatch[g].recs
            Moves(p) == {i \in DOMAIN recs : recs[i].mt = "normal" /\ recs[i].p = p}
        IN  \A i, j \in Moves(Gnu) : i < j => (i + 1)..(j - 1) \cap Moves(Human) # {}

\* The cube's protocol in the record: an answer follows a double of the other side; who
\* doubles owns the cube or it is centred; no match is doubled in its Crawford game, nor
\* by a side the points already at stake would carry home.
CubeProtocol ==
    \A g \in DOMAIN lMatch :
        LET recs == lMatch[g].recs
            info == lMatch[g].info
            Takes(i) == {j \in 1..(i - 1) : recs[j].mt = "take"}
        IN  \A i \in DOMAIN recs :
              /\ recs[i].mt \in {"take", "drop"} =>
                    i > 1 /\ recs[i - 1].mt = "double" /\ recs[i - 1].p = Other(recs[i].p)
              /\ (recs[i].mt = "double" /\ info.nMatch # 0) =>
                    /\ ~info.crawford
                    /\ info.score[recs[i].p] + Shl[Cardinality(Takes(i))] < info.nMatch
                    /\ \A j \in Takes(i) : (\A k \in Takes(i) : k <= j) => recs[j].p = recs[i].p

\* In a match of two points or more the Crawford game is the first one that begins with a
\* player one point away, and no other.
CrawfordRule ==
    \A g \in DOMAIN lMatch :
        LET oneAway(h) == \E p \in Players : lMatch[h].info.score[p] = lMatch[h].info.nMatch - 1
        IN  lMatch[g].info.nMatch >= 2 =>
                (lMatch[g].info.crawford <=> oneAway(g) /\ \A h \in 1..(g - 1) : ~oneAway(h))

\* The game's last record ends it.
Complete(game) ==
    /\ game.recs # <<>>
    /\ \/ Last(game.recs).mt \in {"drop", "resign"}
       \/ \E p \in Players : BorneOff(game.recs, Len(game.recs), p) = Men

\* The score a game leaves.
ScoreAfter(game) == [game.info.score EXCEPT ![game.info.winner] = @ + game.info.points]

\* gnubg waits for the human: at rest at the end of a game in play, the human is on turn.
HumanOwesNext == (~fNextTurn /\ ~walked /\ ms.gs = "playing" /\ AtEnd) => ms.turn = Human

\* The drain ends, whatever the computer does: each NextTurn brings it nearer to a turn of
\* the human's, and a few are always enough (gnubg_mobile's drain loops with no bound).
DrainEnds == turns <= MaxTurns

\* The games won: every game of the record but the one in play, if there is one.
Won == IF lMatch # <<>> /\ ~Complete(Last(lMatch)) THEN Front(lMatch) ELSE lMatch

Score == INSTANCE MatchScore WITH
    Points <- 1..(3 * MaxCube),
    length <- IF lMatch = <<>> THEN 0 ELSE ms.nMatchTo,
    line <- <<[p \in Players |-> 0]>> \o [g \in DOMAIN Won |-> ScoreAfter(Won[g])]

\* The match implements MatchScore: whatever the cube, the resignations and the cursor do,
\* each game is won once and none is left unfinished behind another, the score of each goes
\* on from the one before, and no game is won after a score has reached the length.
ImplementsMatchScore == Score!Spec

-----------------------------------------------------------------------------
(* What comments of the code say of it.                                    *)

\* The human's dice fall, into the record of the game in play.
HumanRolls ==
    /\ last'.g = last.g /\ last'.k = last.k + 1
    /\ lMatch'[last'.g].recs[last'.k].mt = "setdice" /\ lMatch'[last'.g].recs[last'.k].p = Human

\* BoardState 137: "GNU has resigned; gnubg refuses every roll until answered".
\* CommandRoll looks at fResigned, which the human's own smaller offer has overwritten and
\* gnubg's refusal of that has cleared.
RollsAwaitTheAnswer == [][HumanRolls => ~TurnForgone]_vars
====
