---- MODULE TimeControl ----
(***************************************************************************)
(* The tournament match clock of engine-core/timecontrol.c: a per-move     *)
(* simple delay in front of a per-player reserve, driven only by           *)
(* timestamps the caller supplies.                                         *)
(*                                                                         *)
(* Two layers.  The operators are the C functions: each takes the clock    *)
(* record and a timestamp and returns the new record with the event it     *)
(* reports.  The specification below them is the clock as the facade of    *)
(* gnubg_mobile.c serves it: one static clock behind one mutex, every call *)
(* atomic, the timestamp any value the source produces, a decreasing one   *)
(* included (invariant I4 of the source speaks of those).                  *)
(***************************************************************************)
EXTENDS Integers

CONSTANTS
    Delay,      \* msDelay given to tc_init
    Reserve,    \* msReserve given to tc_init, the same for both players
    Horizon     \* the largest timestamp explored: a bound of the model

ASSUME DelayAssumption   == Delay \in Nat
ASSUME ReserveAssumption == Reserve \in Nat
ASSUME HorizonAssumption == Horizon \in Nat

Side    == {0, 1}
NoSide  == -1
Stamp   == 0..Horizon

TC_EVENT_NONE == "none"
\* TC_EVENT_FLAG_PLAYER0 / TC_EVENT_FLAG_PLAYER1
FlagEvent(s)  == IF s = 0 THEN "flag0" ELSE "flag1"
Events        == {TC_EVENT_NONE, "flag0", "flag1"}

-----------------------------------------------------------------------------
(* The C functions.                                                        *)

\* The static tc_cbg before any arm: zeroed storage.
Zeroed ==
    [fActive |-> FALSE, fPaused |-> FALSE, nActiveSide |-> 0,
     msDelay |-> 0, msDelayLeft |-> 0, amsReserve |-> [s \in Side |-> 0],
     afFlagged |-> [s \in Side |-> FALSE], msLast |-> 0]

tc_init(delay, reserve) ==
    [fActive |-> TRUE, fPaused |-> FALSE, nActiveSide |-> NoSide,
     msDelay |-> delay, msDelayLeft |-> 0, amsReserve |-> [s \in Side |-> reserve],
     afFlagged |-> [s \in Side |-> FALSE], msLast |-> 0]

\* Faults a careless edit of this file could introduce are defined next to what
\* they would replace, with names ending in _Fault; nothing refers to them.
\* They show that the properties notice.

\* The delay boundary off by one: a delay a millisecond short still pays.
Charge_BoundaryFault(tc, elapsed) ==
    IF elapsed <= tc.msDelayLeft + 1
      THEN [tc |-> [tc EXCEPT !.msDelayLeft = @ - elapsed], ev |-> TC_EVENT_NONE]
      ELSE [tc |-> [tc EXCEPT !.msDelayLeft = 0], ev |-> TC_EVENT_NONE]

\* The latch is not consulted: a fallen flag falls again.
Charge_LatchFault(tc, elapsed) ==
    LET s    == tc.nActiveSide
        over == elapsed - tc.msDelayLeft
        past == [tc EXCEPT !.msDelayLeft = 0]
    IN  IF over <= 0
          THEN [tc |-> [tc EXCEPT !.msDelayLeft = @ - elapsed], ev |-> TC_EVENT_NONE]
        ELSE IF tc.amsReserve[s] > over
          THEN [tc |-> [past EXCEPT !.amsReserve[s] = @ - over], ev |-> TC_EVENT_NONE]
        ELSE [tc |-> [past EXCEPT !.amsReserve[s] = 0, !.afFlagged[s] = TRUE],
              ev |-> FlagEvent(s)]

\* The part of settle that charges `elapsed' to the running side, delay first.
Charge(tc, elapsed) ==
    LET s    == tc.nActiveSide
        over == elapsed - tc.msDelayLeft
        past == [tc EXCEPT !.msDelayLeft = 0]
    IN  IF over <= 0
          THEN [tc |-> [tc EXCEPT !.msDelayLeft = @ - elapsed], ev |-> TC_EVENT_NONE]
        ELSE IF tc.afFlagged[s]
          THEN [tc |-> past, ev |-> TC_EVENT_NONE]
        ELSE IF tc.amsReserve[s] > over
          THEN [tc |-> [past EXCEPT !.amsReserve[s] = @ - over], ev |-> TC_EVENT_NONE]
        ELSE [tc |-> [past EXCEPT !.amsReserve[s] = 0, !.afFlagged[s] = TRUE],
              ev |-> FlagEvent(s)]

\* Paused time moves no timestamp, so it is charged once the clock runs again.
settle_PauseFault(tc, now) ==
    IF now <= tc.msLast \/ tc.fPaused \/ tc.nActiveSide < 0
      THEN [tc |-> tc, ev |-> TC_EVENT_NONE]
      ELSE Charge([tc EXCEPT !.msLast = now], now - tc.msLast)

\* A source that went backwards charges nothing and moves nothing.
settle(tc, now) ==
    LET read == [tc EXCEPT !.msLast = now]
    IN  IF now <= tc.msLast
          THEN [tc |-> tc, ev |-> TC_EVENT_NONE]
        ELSE IF tc.fPaused \/ tc.nActiveSide < 0
          THEN [tc |-> read, ev |-> TC_EVENT_NONE]
        ELSE Charge(read, now - tc.msLast)

Ignored(tc) == [tc |-> tc, ev |-> TC_EVENT_NONE]

tc_settle(tc, now) ==
    IF tc.fActive THEN settle(tc, now) ELSE Ignored(tc)

\* The side is switched before the incumbent has paid.
tc_start_turn_OrderFault(tc, side, now) ==
    IF ~tc.fActive THEN Ignored(tc)
    ELSE LET paid == settle([tc EXCEPT
                       !.nActiveSide = IF side \in Side THEN side ELSE NoSide], now)
         IN [tc |-> [paid.tc EXCEPT
                       !.msDelayLeft = IF side \in Side THEN tc.msDelay ELSE 0],
             ev |-> paid.ev]

\* Unused delay is banked.
tc_start_turn_BankFault(tc, side, now) ==
    IF ~tc.fActive THEN Ignored(tc)
    ELSE LET paid == settle(tc, now)
         IN [tc |-> [paid.tc EXCEPT
                       !.nActiveSide = IF side \in Side THEN side ELSE NoSide,
                       !.msDelayLeft = IF side \in Side THEN @ + tc.msDelay ELSE 0],
             ev |-> paid.ev]

\* The incumbent pays up to the hand-over; every move earns a fresh delay.
tc_start_turn(tc, side, now) ==
    IF ~tc.fActive THEN Ignored(tc)
    ELSE LET paid == settle(tc, now)
         IN [tc |-> [paid.tc EXCEPT
                       !.nActiveSide = IF side \in Side THEN side ELSE NoSide,
                       !.msDelayLeft = IF side \in Side THEN tc.msDelay ELSE 0],
             ev |-> paid.ev]

tc_pause(tc, now) ==
    IF ~tc.fActive \/ tc.fPaused THEN Ignored(tc)
    ELSE LET paid == settle(tc, now)
         IN [tc |-> [paid.tc EXCEPT !.fPaused = TRUE], ev |-> paid.ev]

\* The gap is charged to nobody.
tc_resume(tc, now) ==
    IF ~tc.fActive \/ ~tc.fPaused THEN tc
    ELSE [tc EXCEPT !.fPaused = FALSE,
                    !.msLast = IF now > @ THEN now ELSE @]

-----------------------------------------------------------------------------
(* The clock behind the facade.                                            *)

VARIABLES
    tc,     \* tc_cbg
    ev,     \* what the last facade call returned
    \* What an observer at the table writes down, from the calls and their
    \* timestamps alone; no action reads it.
    watch

clockVars == <<tc, ev>>
vars      == <<tc, ev, watch>>

\* running: the side whose time runs, while the clock runs at all; seen: the
\* largest timestamp noted; turn: what the running side has used of this turn;
\* over: what each side used beyond the delay in its earlier turns; fallen:
\* how many times each side's flag was reported.
Fresh == [paused |-> FALSE, running |-> NoSide, seen |-> 0, turn |-> 0,
          over |-> [s \in Side |-> 0], fallen |-> [s \in Side |-> 0]]

PositivePart(n) == IF n > 0 THEN n ELSE 0

\* Time the observer notes at a call that settles.
Noted(w, now) ==
    LET gap == PositivePart(now - w.seen)
    IN [w EXCEPT !.seen = @ + gap,
                 !.turn = IF w.paused \/ w.running = NoSide THEN @ ELSE @ + gap]

Counted(w, e) ==
    [w EXCEPT !.fallen = [s \in Side |-> IF e = FlagEvent(s) THEN @[s] + 1 ELSE @[s]]]

\* What each side has used beyond its delays, the present turn included.
Overrun(w, s) ==
    w.over[s] + (IF w.running = s THEN PositivePart(w.turn - Delay) ELSE 0)

Init ==
    /\ tc = Zeroed
    /\ ev = TC_EVENT_NONE
    /\ watch = Fresh

\* gnubg_mobile_clock_arm
Arm ==
    /\ tc' = tc_init(Delay, Reserve)
    /\ ev' = TC_EVENT_NONE
    /\ watch' = Fresh

\* gnubg_mobile_clock_off
Off ==
    /\ tc' = [tc EXCEPT !.fActive = FALSE]
    /\ ev' = TC_EVENT_NONE
    /\ watch' = watch

\* gnubg_mobile_clock_hand
Hand(side, now) ==
    LET r == tc_start_turn(tc, side, now)
        n == Counted(Noted(watch, now), r.ev)
    IN  /\ tc' = r.tc
        /\ ev' = r.ev
        /\ watch' = IF ~tc.fActive THEN watch
                    ELSE [n EXCEPT !.running = IF side \in Side THEN side ELSE NoSide,
                                   !.turn = 0,
                                   !.over = [s \in Side |-> Overrun(n, s)]]

\* gnubg_mobile_clock_settle
Settle(now) ==
    LET r == tc_settle(tc, now)
    IN  /\ tc' = r.tc
        /\ ev' = r.ev
        /\ watch' = IF ~tc.fActive THEN watch ELSE Counted(Noted(watch, now), r.ev)

\* gnubg_mobile_clock_pause
Pause(now) ==
    LET r == tc_pause(tc, now)
    IN  /\ tc' = r.tc
        /\ ev' = r.ev
        /\ watch' = IF ~tc.fActive \/ watch.paused THEN watch
                    ELSE [Counted(Noted(watch, now), r.ev) EXCEPT !.paused = TRUE]

\* gnubg_mobile_clock_resume
Resume(now) ==
    /\ tc' = tc_resume(tc, now)
    /\ ev' = TC_EVENT_NONE
    /\ watch' = IF ~tc.fActive \/ ~watch.paused THEN watch
                ELSE [Noted(watch, now) EXCEPT !.paused = FALSE]

Next ==
    \/ Arm
    \/ Off
    \/ \E now \in Stamp :
         \/ \E side \in Side \cup {NoSide} : Hand(side, now)
         \/ Settle(now)
         \/ Pause(now)
         \/ Resume(now)

Spec == Init /\ [][Next]_vars

-----------------------------------------------------------------------------
(* Properties.                                                             *)

Clock == [fActive : BOOLEAN, fPaused : BOOLEAN, nActiveSide : {NoSide} \cup Side,
          msDelay : Nat, msDelayLeft : Nat, amsReserve : [Side -> Nat],
          afFlagged : [Side -> BOOLEAN], msLast : Nat]

Observer == [paused : BOOLEAN, running : {NoSide} \cup Side, seen : Nat, turn : Nat,
             over : [Side -> Nat], fallen : [Side -> Nat]]

\* Every variable stays in its type: no unsigned field of the clock, a
\* subtraction in settle included, ever leaves the naturals.
TypeOK ==
    /\ tc \in Clock
    /\ ev \in Events
    /\ watch \in Observer

\* However often and at whatever moments the clock is settled, paused and
\* handed over, what is left of a reserve is the armed reserve minus the sum,
\* over the turns, of the time used beyond the delay, and never less than
\* zero.  It is I1 (nothing is taken within the delay), I2 (settling is
\* insensitive to call frequency), I4 (a decreasing timestamp charges nothing)
\* and I5 (paused time is charged to nobody) of timecontrol.c in one formula.
ReserveIsWhatPlayLeft ==
    tc.fActive =>
      \A s \in Side : tc.amsReserve[s] = PositivePart(Reserve - Overrun(watch, s))

\* A turn's remaining delay is the delay minus the time used in this turn, in
\* whatever pieces it was settled: unused delay is not banked, and a pause
\* inside the turn neither consumes nor renews it (harness T5).
DelayIsPerTurn ==
    tc.fActive /\ tc.nActiveSide # NoSide =>
      tc.msDelayLeft = PositivePart(Delay - watch.turn)

\* I3 of timecontrol.c: a flag is reported exactly once per player, and the
\* latch agrees with the reports: whoever asked when the reserve ran out was
\* told, nobody is told twice, and nobody is told early.
FlagReportedOnce ==
    tc.fActive =>
      \A s \in Side :
        /\ watch.fallen[s] = (IF tc.afFlagged[s] THEN 1 ELSE 0)
        /\ tc.afFlagged[s] <=> Overrun(watch, s) > 0 /\ Overrun(watch, s) >= Reserve

\* One player's fall leaves the other's clock alone: a step that charges or
\* flags one side, or that hands the clock over, takes nothing from the side
\* that was not running, and short of a new match no reserve grows and no
\* flag is taken back.
OthersClockUntouched ==
    [][Arm \/ \A s \in Side :
         /\ tc'.amsReserve[s] <= tc.amsReserve[s]
         /\ tc.afFlagged[s] => tc'.afFlagged[s]
         /\ s # tc.nActiveSide => tc'.amsReserve[s] = tc.amsReserve[s]]_vars

\* What the last call reported, in TableClock's terms.
Report(x) == IF x = "flag0" THEN 0 ELSE IF x = "flag1" THEN 1 ELSE -1

Table == INSTANCE TableClock WITH
    armed  <- tc.fActive,
    held   <- tc.fPaused,
    side   <- tc.nActiveSide,
    fallen <- {s \in Side : tc.afFlagged[s]},
    told   <- Report(ev)

\* The clock is a TableClock: whatever the timestamps, a call reports a flag
\* only of the side that was running and not paused, never one that had
\* already fallen, and the side to charge is the one last handed to.
ImplementsTable == Table!TableSpec

====
