---- MODULE TimeControlProofs ----
(***************************************************************************)
(* TLAPS proofs about TimeControl, for every delay, every reserve and      *)
(* every horizon.                                                          *)
(*                                                                         *)
(* The one idea: while the clock is armed, the clock record and the        *)
(* observer's notes agree (Agree below), and settling preserves that       *)
(* (SettleKeepsAgreement).  Every facade call is a settle followed by a    *)
(* change of who runs, so each step of the specification follows from that *)
(* lemma and from what the call changes afterwards.                        *)
(***************************************************************************)
EXTENDS TimeControl, TLAPS

\* The clock t and the notes w describe the same match.
Agree(t, w) ==
    /\ t.msDelay = Delay
    /\ t.msLast = w.seen
    /\ t.fPaused = w.paused
    /\ t.nActiveSide = w.running
    /\ t.nActiveSide # NoSide => t.msDelayLeft = PositivePart(Delay - w.turn)
    /\ \A s \in Side :
         /\ t.amsReserve[s] = PositivePart(Reserve - Overrun(w, s))
         /\ w.fallen[s] = (IF t.afFlagged[s] THEN 1 ELSE 0)
         /\ t.afFlagged[s] <=> Overrun(w, s) > 0 /\ Overrun(w, s) >= Reserve

IInv ==
    /\ TypeOK
    /\ tc.fActive => Agree(tc, watch)

USE DelayAssumption, ReserveAssumption, HorizonAssumption DEF Side, NoSide

-----------------------------------------------------------------------------
(* Settling.                                                               *)

\* PositivePart of an integer is a natural number: the truncation at zero by
\* which a reserve or a delay is used up.
LEMMA PositivePartType ==
    ASSUME NEW n \in Int
    PROVE  PositivePart(n) \in Nat /\ PositivePart(n) >= n
BY DEF PositivePart

\* What a player has used beyond the delays is a natural number.
LEMMA OverrunType ==
    ASSUME NEW w \in Observer, NEW s \in Side
    PROVE  Overrun(w, s) \in Nat
BY DEF Overrun, PositivePart, Observer

\* Noting a gap changes only the observer's clock and the present turn.
LEMMA NotedIs ==
    ASSUME NEW w \in Observer, NEW now \in Nat
    PROVE  /\ Noted(w, now) \in Observer
           /\ Noted(w, now).paused = w.paused
           /\ Noted(w, now).running = w.running
           /\ Noted(w, now).over = w.over
           /\ Noted(w, now).fallen = w.fallen
           /\ Noted(w, now).seen = (IF now > w.seen THEN now ELSE w.seen)
           /\ Noted(w, now).turn = (IF w.paused \/ w.running = NoSide \/ now <= w.seen
                                    THEN w.turn ELSE w.turn + (now - w.seen))
<1> DEFINE gap  == PositivePart(now - w.seen)
           seen == w.seen + gap
           turn == IF w.paused \/ w.running = NoSide THEN w.turn ELSE w.turn + gap
<1>1. gap \in Nat /\ gap = (IF now > w.seen THEN now - w.seen ELSE 0)
  BY DEF PositivePart, Observer
<1>2. Noted(w, now) = [w EXCEPT !.seen = seen, !.turn = turn]
  BY DEF Noted, Observer
<1>3. /\ seen \in Nat
      /\ seen = (IF now > w.seen THEN now ELSE w.seen)
      /\ turn \in Nat
      /\ turn = (IF w.paused \/ w.running = NoSide \/ now <= w.seen
                 THEN w.turn ELSE w.turn + (now - w.seen))
  BY <1>1 DEF Observer
<1> HIDE DEF gap, seen, turn
<1> QED
  BY <1>2, <1>3 DEF Observer

\* Counting an event changes only the tally of the reports.
LEMMA CountedIs ==
    ASSUME NEW w \in Observer, NEW e \in Events
    PROVE  /\ Counted(w, e) \in Observer
           /\ Counted(w, e).paused = w.paused
           /\ Counted(w, e).running = w.running
           /\ Counted(w, e).over = w.over
           /\ Counted(w, e).seen = w.seen
           /\ Counted(w, e).turn = w.turn
           /\ \A s \in Side : Counted(w, e).fallen[s] =
                  (IF e = FlagEvent(s) THEN w.fallen[s] + 1 ELSE w.fallen[s])
BY DEF Counted, Observer


\* The observer's notes after a settle that reports e: who runs is unchanged,
\* and only the running side's overrun can have grown, by what the gap takes it
\* beyond the delay.
LEMMA NotesAfterSettle ==
    ASSUME NEW w \in Observer, NEW now \in Nat, NEW e \in Events
    PROVE  LET n == Counted(Noted(w, now), e)
           IN  /\ n \in Observer
               /\ n.paused = w.paused
               /\ n.running = w.running
               /\ n.seen = (IF now > w.seen THEN now ELSE w.seen)
               /\ n.turn = (IF w.paused \/ w.running = NoSide \/ now <= w.seen
                            THEN w.turn ELSE w.turn + (now - w.seen))
               /\ \A s \in Side :
                    /\ Overrun(n, s) = w.over[s] + (IF w.running = s
                                                   THEN PositivePart(n.turn - Delay) ELSE 0)
                    /\ n.fallen[s] = (IF e = FlagEvent(s) THEN w.fallen[s] + 1
                                                         ELSE w.fallen[s])
<1> DEFINE n == Counted(Noted(w, now), e)
<1>1. /\ Noted(w, now) \in Observer
      /\ n \in Observer
      /\ n.paused = w.paused /\ n.running = w.running /\ n.over = w.over
  BY NotedIs, CountedIs
<1>2. n.seen = Noted(w, now).seen /\ n.turn = Noted(w, now).turn
  BY <1>1, CountedIs
<1>3. \A s \in Side : n.fallen[s] = (IF e = FlagEvent(s) THEN w.fallen[s] + 1
                                                       ELSE w.fallen[s])
  <2> DEFINE v == Noted(w, now)
  <2>1. v \in Observer /\ v.fallen = w.fallen
    BY NotedIs
  <2> HIDE DEF v
  <2>2. \A s \in Side : Counted(v, e).fallen[s] =
            (IF e = FlagEvent(s) THEN v.fallen[s] + 1 ELSE v.fallen[s])
    BY <2>1, CountedIs
  <2> QED BY <2>1, <2>2 DEF v
<1>4. \A s \in Side : Overrun(n, s) = w.over[s] + (IF w.running = s
                                                 THEN PositivePart(n.turn - Delay) ELSE 0)
  BY <1>1 DEF Overrun
<1>5. n.seen = (IF now > w.seen THEN now ELSE w.seen)
  BY <1>2, NotedIs
<1>6. n.turn = (IF w.paused \/ w.running = NoSide \/ now <= w.seen
                THEN w.turn ELSE w.turn + (now - w.seen))
  BY <1>2, NotedIs
<1> QED
  BY <1>1, <1>3, <1>4, <1>5, <1>6

\* A settle that charges nobody (the source went back, the clock is paused, or
\* nobody runs) keeps clock and notes in agreement.
LEMMA IdleSettle ==
    ASSUME NEW t \in Clock, NEW w \in Observer, NEW now \in Nat, Agree(t, w),
           now <= t.msLast \/ t.fPaused \/ t.nActiveSide < 0
    PROVE  LET r == settle(t, now)
           IN  /\ r.ev = TC_EVENT_NONE
               /\ \E m \in Nat : r = [tc |-> [t EXCEPT !.msLast = m], ev |-> TC_EVENT_NONE]
               /\ r.tc \in Clock
               /\ Agree(r.tc, Counted(Noted(w, now), r.ev))
<1> DEFINE m == IF now > t.msLast THEN now ELSE t.msLast
           r == settle(t, now)
           n == Counted(Noted(w, now), TC_EVENT_NONE)
<1>1. m \in Nat
  BY DEF Clock
<1>2. r = [tc |-> [t EXCEPT !.msLast = m], ev |-> TC_EVENT_NONE]
  <2>1. CASE now <= t.msLast
    <3>1. t = [t EXCEPT !.msLast = m]
      BY <2>1 DEF Clock
    <3> QED BY <2>1, <3>1 DEF settle
  <2>2. CASE now > t.msLast
    BY <2>2 DEF settle, Clock
  <2> QED BY <2>1, <2>2 DEF Clock
<1>3. TC_EVENT_NONE \in Events /\ \A s \in Side : TC_EVENT_NONE # FlagEvent(s)
  BY DEF Events, TC_EVENT_NONE, FlagEvent
<1>4. /\ n.paused = w.paused /\ n.running = w.running /\ n.seen = m /\ n.turn = w.turn
      /\ \A s \in Side : Overrun(n, s) = Overrun(w, s) /\ n.fallen[s] = w.fallen[s]
  <2>1. w.paused \/ w.running = NoSide \/ now <= w.seen
    BY DEF Agree, Clock
  <2>2. /\ n.paused = w.paused /\ n.running = w.running /\ n.seen = m /\ n.turn = w.turn
    BY <2>1, <1>3, NotesAfterSettle DEF Agree
  <2>3. \A s \in Side : Overrun(n, s) = Overrun(w, s) /\ n.fallen[s] = w.fallen[s]
    <3>1. \A s \in Side :
            /\ Overrun(n, s) = w.over[s] + (IF w.running = s
                                           THEN PositivePart(n.turn - Delay) ELSE 0)
            /\ n.fallen[s] = (IF TC_EVENT_NONE = FlagEvent(s) THEN w.fallen[s] + 1
                                                             ELSE w.fallen[s])
      BY <1>3, NotesAfterSettle
    <3> HIDE DEF n
    <3> QED BY <2>2, <3>1, <1>3 DEF Overrun
  <2> QED BY <2>2, <2>3
<1> DEFINE u == [t EXCEPT !.msLast = m]
<1>5. /\ u \in Clock
      /\ u.msLast = m /\ u.msDelay = t.msDelay /\ u.fPaused = t.fPaused
      /\ u.nActiveSide = t.nActiveSide /\ u.msDelayLeft = t.msDelayLeft
      /\ u.amsReserve = t.amsReserve /\ u.afFlagged = t.afFlagged
  BY <1>1 DEF Clock
<1>6. Agree(u, n)
  <2> HIDE DEF u, n, m
  <2> QED BY <1>4, <1>5 DEF Agree
<1> QED
  <2> r.ev = TC_EVENT_NONE /\ r.tc = u
    BY <1>2
  <2> HIDE DEF r, u, n, m
  <2> QED BY <1>1, <1>2, <1>5, <1>6 DEF r, u, n

\* What a charge does, field by field: the delay pays first, then the running
\* side's reserve down to zero, and the flag falls when it gets there.
LEMMA ChargeIs ==
    ASSUME NEW t \in Clock, NEW elapsed \in Nat, t.nActiveSide \in Side
    PROVE  LET r    == Charge(t, elapsed)
               side == t.nActiveSide
               over == elapsed - t.msDelayLeft
               falls == over > 0 /\ ~t.afFlagged[side] /\ t.amsReserve[side] <= over
           IN  /\ r.tc \in Clock
               /\ r.tc.fActive = t.fActive /\ r.tc.fPaused = t.fPaused
               /\ r.tc.nActiveSide = side
               /\ r.tc.msDelay = t.msDelay /\ r.tc.msLast = t.msLast
               /\ r.tc.msDelayLeft = (IF over <= 0 THEN t.msDelayLeft - elapsed ELSE 0)
               /\ r.ev = (IF falls THEN FlagEvent(side) ELSE TC_EVENT_NONE)
               /\ (r.tc.afFlagged[side] <=> (t.afFlagged[side] \/ falls))
               /\ r.tc.amsReserve[side] =
                    (IF over <= 0 \/ t.afFlagged[side] THEN t.amsReserve[side]
                     ELSE IF falls THEN 0 ELSE t.amsReserve[side] - over)
               /\ \A s \in Side \ {side} : /\ r.tc.afFlagged[s] = t.afFlagged[s]
                                           /\ r.tc.amsReserve[s] = t.amsReserve[s]
<1> DEFINE side == t.nActiveSide
           over == elapsed - t.msDelayLeft
           left == t.msDelayLeft - elapsed
           rest == t.amsReserve[side] - over
<1>1. over \in Int /\ left \in Int /\ rest \in Int /\ over = -left
  BY DEF Clock
<1>2. CASE over <= 0
  <2>1. left \in Nat
    BY <1>1, <1>2
  <2>2. Charge(t, elapsed) = [tc |-> [t EXCEPT !.msDelayLeft = left], ev |-> TC_EVENT_NONE]
    BY <1>2 DEF Charge
  <2> DEFINE u == [t EXCEPT !.msDelayLeft = left]
  <2>3. u \in Clock /\ u.fActive = t.fActive /\ u.fPaused = t.fPaused
        /\ u.nActiveSide = side /\ u.msDelay = t.msDelay /\ u.msLast = t.msLast
        /\ u.msDelayLeft = left /\ u.afFlagged = t.afFlagged /\ u.amsReserve = t.amsReserve
    <3> HIDE DEF left
    <3> QED BY <2>1 DEF Clock
  <2> HIDE DEF u
  <2> QED BY <1>2, <2>2, <2>3 DEF u, Clock
<1>3. CASE over > 0 /\ t.afFlagged[side]
  <2>1. Charge(t, elapsed) = [tc |-> [t EXCEPT !.msDelayLeft = 0], ev |-> TC_EVENT_NONE]
    BY <1>1, <1>3 DEF Charge
  <2> QED BY <1>1, <1>3, <2>1 DEF Clock
<1>4. CASE over > 0 /\ ~t.afFlagged[side] /\ t.amsReserve[side] > over
  <2> DEFINE u == [[t EXCEPT !.msDelayLeft = 0] EXCEPT !.amsReserve[side] = rest]
  <2>1. rest \in Nat
    BY <1>1, <1>4 DEF Clock
  <2>2. Charge(t, elapsed) = [tc |-> u, ev |-> TC_EVENT_NONE]
    BY <1>1, <1>4 DEF Charge, Clock
  <2>3. u \in Clock /\ u.fActive = t.fActive /\ u.fPaused = t.fPaused
        /\ u.nActiveSide = side /\ u.msDelay = t.msDelay /\ u.msLast = t.msLast
        /\ u.msDelayLeft = 0 /\ u.afFlagged = t.afFlagged
        /\ u.amsReserve = [t.amsReserve EXCEPT ![side] = rest]
    <3> HIDE DEF rest
    <3> QED BY <2>1 DEF Clock
  <2>4. u.amsReserve[side] = rest /\ \A s \in Side \ {side} : u.amsReserve[s] = t.amsReserve[s]
    <3> HIDE DEF rest, u
    <3> QED BY <2>3 DEF Clock
  <2>5. ~(t.amsReserve[side] <= over)
    BY <1>1, <1>4 DEF Clock
  <2>6. Charge(t, elapsed).tc = u /\ Charge(t, elapsed).ev = TC_EVENT_NONE
    BY <2>2
  <2> HIDE DEF u, rest, left, over
  <2>7. Charge(t, elapsed).tc.afFlagged[side] = t.afFlagged[side]
    BY <2>3, <2>6
  <2> DEFINE r == Charge(t, elapsed)
             falls == over > 0 /\ ~t.afFlagged[side] /\ t.amsReserve[side] <= over
  <2> HIDE DEF r
  <2>11. r.tc \in Clock
    BY <1>1, <1>4, <2>3, <2>4, <2>5, <2>6, <2>7 DEF r
  <2>12. r.tc.fActive = t.fActive /\ r.tc.fPaused = t.fPaused
        /\ r.tc.nActiveSide = side /\ r.tc.msDelay = t.msDelay /\ r.tc.msLast = t.msLast
        /\ r.tc.msDelayLeft = 0
    BY <1>1, <1>4, <2>3, <2>4, <2>5, <2>6, <2>7 DEF r
  <2>13. r.ev = (IF falls THEN FlagEvent(side) ELSE TC_EVENT_NONE)
    BY <1>1, <1>4, <2>3, <2>4, <2>5, <2>6, <2>7 DEF r
  <2>14. r.tc.afFlagged[side] <=> (t.afFlagged[side] \/ falls)
    BY <1>1, <1>4, <2>3, <2>4, <2>5, <2>6, <2>7 DEF r
  <2>15. r.tc.amsReserve[side] =
                    (IF over <= 0 \/ t.afFlagged[side] THEN t.amsReserve[side]
                     ELSE IF falls THEN 0 ELSE t.amsReserve[side] - over)
    BY <1>1, <1>4, <2>3, <2>4, <2>5, <2>6, <2>7 DEF r, rest
  <2>16. \A s \in Side \ {side} : /\ r.tc.afFlagged[s] = t.afFlagged[s]
                                           /\ r.tc.amsReserve[s] = t.amsReserve[s]
    BY <1>1, <1>4, <2>3, <2>4, <2>5, <2>6, <2>7 DEF r
  <2> QED BY <1>4, <1>1, <2>11, <2>12, <2>13, <2>14, <2>15, <2>16 DEF r, over
<1>5. CASE over > 0 /\ ~t.afFlagged[side] /\ ~(t.amsReserve[side] > over)
  <2> DEFINE u == [[t EXCEPT !.msDelayLeft = 0]
                      EXCEPT !.amsReserve[side] = 0, !.afFlagged[side] = TRUE]
  <2>1. Charge(t, elapsed) = [tc |-> u, ev |-> FlagEvent(side)]
    BY <1>1, <1>5 DEF Charge, Clock
  <2>2. u \in Clock /\ u.fActive = t.fActive /\ u.fPaused = t.fPaused
        /\ u.nActiveSide = side /\ u.msDelay = t.msDelay /\ u.msLast = t.msLast
        /\ u.msDelayLeft = 0
        /\ u.amsReserve = [t.amsReserve EXCEPT ![side] = 0]
        /\ u.afFlagged = [t.afFlagged EXCEPT ![side] = TRUE]
    BY DEF Clock
  <2>3. /\ u.amsReserve[side] = 0 /\ u.afFlagged[side]
        /\ \A s \in Side \ {side} : /\ u.amsReserve[s] = t.amsReserve[s]
                                    /\ u.afFlagged[s] = t.afFlagged[s]
    <3> HIDE DEF u
    <3> QED BY <2>2 DEF Clock
  <2>4. t.amsReserve[side] <= over
    BY <1>1, <1>5 DEF Clock
  <2>5. Charge(t, elapsed).tc = u /\ Charge(t, elapsed).ev = FlagEvent(side)
    BY <2>1
  <2> HIDE DEF u, rest, left, over
  <2>6. Charge(t, elapsed).tc.afFlagged[side] = TRUE
    BY <2>2, <2>5 DEF Clock
  <2> DEFINE r == Charge(t, elapsed)
             falls == over > 0 /\ ~t.afFlagged[side] /\ t.amsReserve[side] <= over
  <2> HIDE DEF r
  <2>11. r.tc \in Clock
    BY <1>1, <1>5, <2>2, <2>3, <2>4, <2>5, <2>6 DEF r
  <2>12. r.tc.fActive = t.fActive /\ r.tc.fPaused = t.fPaused
        /\ r.tc.nActiveSide = side /\ r.tc.msDelay = t.msDelay /\ r.tc.msLast = t.msLast
        /\ r.tc.msDelayLeft = 0
    BY <1>1, <1>5, <2>2, <2>3, <2>4, <2>5, <2>6 DEF r
  <2>13. r.ev = (IF falls THEN FlagEvent(side) ELSE TC_EVENT_NONE)
    BY <1>1, <1>5, <2>2, <2>3, <2>4, <2>5, <2>6 DEF r
  <2>14. r.tc.afFlagged[side] <=> (t.afFlagged[side] \/ falls)
    BY <1>1, <1>5, <2>2, <2>3, <2>4, <2>5, <2>6 DEF r
  <2>15. r.tc.amsReserve[side] =
                    (IF over <= 0 \/ t.afFlagged[side] THEN t.amsReserve[side]
                     ELSE IF falls THEN 0 ELSE t.amsReserve[side] - over)
    <3>1. ~(over <= 0) /\ ~t.afFlagged[side] /\ falls
      BY <1>1, <1>5, <2>4
    <3>2. r.tc.amsReserve[side] = 0
      BY <2>3, <2>5 DEF r
    <3> QED BY <3>1, <3>2
  <2>16. \A s \in Side \ {side} : /\ r.tc.afFlagged[s] = t.afFlagged[s]
                                           /\ r.tc.amsReserve[s] = t.amsReserve[s]
    BY <1>1, <1>5, <2>2, <2>3, <2>4, <2>5, <2>6 DEF r
  <2> QED BY <1>5, <1>1, <2>11, <2>12, <2>13, <2>14, <2>15, <2>16 DEF r, over
<1> QED
  BY <1>1, <1>2, <1>3, <1>4, <1>5

\* A settle that charges the running side keeps clock and notes in agreement:
\* what the delay does not cover is exactly what the overrun grows by.
LEMMA ChargingSettle ==
    ASSUME NEW t \in Clock, NEW w \in Observer, NEW now \in Nat, Agree(t, w),
           now > t.msLast, ~t.fPaused, t.nActiveSide \in Side
    PROVE  LET r == settle(t, now)
           IN  /\ r.tc \in Clock
               /\ r.ev \in Events
               /\ Agree(r.tc, Counted(Noted(w, now), r.ev))
               /\ r.tc.fActive = t.fActive
               /\ r.tc.fPaused = t.fPaused
               /\ r.tc.nActiveSide = t.nActiveSide
               /\ \A s \in Side :
                    /\ r.tc.amsReserve[s] <= t.amsReserve[s]
                    /\ t.afFlagged[s] => r.tc.afFlagged[s]
                    /\ s # t.nActiveSide => r.tc.amsReserve[s] = t.amsReserve[s]
<1> DEFINE side  == t.nActiveSide
           read  == [t EXCEPT !.msLast = now]
           elapsed == now - t.msLast
           over  == elapsed - t.msDelayLeft
           r     == settle(t, now)
           n     == Counted(Noted(w, now), r.ev)
           u     == r.tc
           falls == over > 0 /\ ~t.afFlagged[side] /\ t.amsReserve[side] <= over
<1>1. /\ read \in Clock
      /\ read.fActive = t.fActive /\ read.fPaused = t.fPaused
      /\ read.nActiveSide = side /\ read.msDelay = t.msDelay /\ read.msLast = now
      /\ read.msDelayLeft = t.msDelayLeft
      /\ read.afFlagged = t.afFlagged /\ read.amsReserve = t.amsReserve
  BY DEF Clock
<1>2. elapsed \in Nat /\ elapsed > 0 /\ over \in Int
  BY DEF Clock
<1>3. r = Charge(read, elapsed)
  BY DEF settle, Clock
<1>4. /\ u \in Clock
      /\ u.fActive = t.fActive /\ u.fPaused = t.fPaused
      /\ u.nActiveSide = side /\ u.msDelay = t.msDelay /\ u.msLast = now
      /\ u.msDelayLeft = (IF over <= 0 THEN t.msDelayLeft - elapsed ELSE 0)
      /\ r.ev = (IF falls THEN FlagEvent(side) ELSE TC_EVENT_NONE)
      /\ u.afFlagged[side] <=> (t.afFlagged[side] \/ falls)
      /\ u.amsReserve[side] =
           (IF over <= 0 \/ t.afFlagged[side] THEN t.amsReserve[side]
            ELSE IF falls THEN 0 ELSE t.amsReserve[side] - over)
      /\ \A s \in Side \ {side} : /\ u.afFlagged[s] = t.afFlagged[s]
                                 /\ u.amsReserve[s] = t.amsReserve[s]
  <2> HIDE DEF read, elapsed
  <2> QED BY <1>1, <1>2, <1>3, ChargeIs DEF side
<1>5. /\ r.ev \in Events
      /\ \A s \in Side : r.ev = FlagEvent(s) <=> s = side /\ falls
  BY <1>4 DEF Events, FlagEvent, TC_EVENT_NONE
<1>6. /\ n \in Observer
      /\ n.paused = w.paused /\ n.running = side /\ n.seen = now
      /\ n.turn = w.turn + elapsed
      /\ \A s \in Side :
           /\ Overrun(n, s) = w.over[s] + (IF w.running = s
                                          THEN PositivePart(n.turn - Delay) ELSE 0)
           /\ n.fallen[s] = (IF s = side /\ falls THEN w.fallen[s] + 1 ELSE w.fallen[s])
  <2> HIDE DEF r, falls
  <2>1. now > w.seen /\ ~w.paused /\ w.running # NoSide /\ w.running = side
        /\ w.seen = t.msLast
    BY DEF Agree
  <2>2. /\ n \in Observer /\ n.paused = w.paused /\ n.running = side /\ n.seen = now
        /\ n.turn = w.turn + elapsed
    <3>1. /\ n \in Observer /\ n.paused = w.paused /\ n.running = w.running
          /\ n.seen = (IF now > w.seen THEN now ELSE w.seen)
          /\ n.turn = (IF w.paused \/ w.running = NoSide \/ now <= w.seen
                       THEN w.turn ELSE w.turn + (now - w.seen))
      BY <1>5, NotesAfterSettle
    <3> HIDE DEF n
    <3>2. ~(w.paused \/ w.running = NoSide \/ now <= w.seen)
      BY <2>1 DEF Observer
    <3> QED BY <2>1, <3>1, <3>2
  <2>3. \A s \in Side :
          /\ Overrun(n, s) = w.over[s] + (IF w.running = s
                                          THEN PositivePart(n.turn - Delay) ELSE 0)
          /\ n.fallen[s] = (IF r.ev = FlagEvent(s) THEN w.fallen[s] + 1 ELSE w.fallen[s])
    BY <1>5, NotesAfterSettle
  <2> HIDE DEF n, side, elapsed
  <2>4. \A s \in Side : n.fallen[s] = (IF s = side /\ falls THEN w.fallen[s] + 1
                                                           ELSE w.fallen[s])
    BY <1>5, <2>3
  <2> QED BY <2>2, <2>3, <2>4
<1>7. /\ Overrun(n, side) = Overrun(w, side) + PositivePart(over)
      /\ over <= 0 => t.msDelayLeft - elapsed = PositivePart(Delay - n.turn)
      /\ over > 0 => PositivePart(Delay - n.turn) = 0
  <2>1. /\ t.msDelayLeft = PositivePart(Delay - w.turn)
        /\ w.running = side
        /\ w.turn \in Nat /\ w.over[side] \in Nat
    BY DEF Agree, Observer
  <2>2. /\ Overrun(w, side) = w.over[side] + PositivePart(w.turn - Delay)
        /\ Overrun(n, side) = w.over[side] + PositivePart(w.turn + elapsed - Delay)
    <3>1. Overrun(w, side) = w.over[side] + PositivePart(w.turn - Delay)
      BY <2>1 DEF Overrun
    <3>2. Overrun(n, side) = w.over[side] + PositivePart(w.turn + elapsed - Delay)
      <4> HIDE DEF n, side, elapsed
      <4>1. side \in Side /\ n.turn = w.turn + elapsed
        BY <1>6 DEF side
      <4>2. Overrun(n, side) = w.over[side] + PositivePart(n.turn - Delay)
        BY <2>1, <4>1, <1>6
      <4> QED BY <1>2, <2>1, <4>1, <4>2
    <3> QED BY <3>1, <3>2
  <2> HIDE DEF r, n, u, elapsed
  <2> QED BY <1>2, <1>6, <2>1, <2>2 DEF PositivePart
<1>8. /\ Overrun(w, side) \in Nat
      /\ t.amsReserve[side] = PositivePart(Reserve - Overrun(w, side))
      /\ w.fallen[side] = (IF t.afFlagged[side] THEN 1 ELSE 0)
      /\ t.afFlagged[side] <=> Overrun(w, side) > 0 /\ Overrun(w, side) >= Reserve
  BY OverrunType DEF Agree
<1>9. ASSUME NEW s \in Side
      PROVE  /\ u.amsReserve[s] = PositivePart(Reserve - Overrun(n, s))
             /\ n.fallen[s] = (IF u.afFlagged[s] THEN 1 ELSE 0)
             /\ u.afFlagged[s] <=> Overrun(n, s) > 0 /\ Overrun(n, s) >= Reserve
  <2>1. CASE s = side
    <3>1. falls <=> ~t.afFlagged[side] /\ Overrun(n, side) > 0 /\ Overrun(n, side) >= Reserve
      <4> HIDE DEF n, over, elapsed
      <4> QED BY <1>2, <1>7, <1>8 DEF PositivePart
    <3>2. u.afFlagged[side] <=> Overrun(n, side) > 0 /\ Overrun(n, side) >= Reserve
      <4> HIDE DEF n, u, falls, over, elapsed
      <4> QED BY <1>2, <1>4, <1>7, <1>8, <3>1 DEF PositivePart
    <3>3. u.amsReserve[side] = PositivePart(Reserve - Overrun(n, side))
      <4> HIDE DEF n, u, over, elapsed
      <4> QED BY <1>2, <1>4, <1>7, <1>8, <3>1 DEF PositivePart
    <3>4. n.fallen[side] = (IF u.afFlagged[side] THEN 1 ELSE 0)
      <4>1. n.fallen[side] = (IF falls THEN w.fallen[side] + 1 ELSE w.fallen[side])
        <5> HIDE DEF n, falls, side
        <5> QED BY <1>6, <2>1
      <4>2. falls => ~t.afFlagged[side]
        OBVIOUS
      <4>3. u.afFlagged[side] <=> (t.afFlagged[side] \/ falls)
        BY <1>4
      <4> HIDE DEF n, falls, u, side
      <4> QED BY <4>1, <4>2, <4>3, <1>8
    <3> HIDE DEF n, u, side
    <3> QED BY <2>1, <3>2, <3>3, <3>4
  <2>2. CASE s # side
    <3>1. u.amsReserve[s] = t.amsReserve[s] /\ u.afFlagged[s] = t.afFlagged[s]
      BY <2>2, <1>4
    <3>2. n.fallen[s] = w.fallen[s] /\ Overrun(n, s) = Overrun(w, s)
      <4>1. w.running # s
        BY <2>2 DEF Agree
      <4> HIDE DEF n, side, falls
      <4> QED BY <2>2, <4>1, <1>6 DEF Overrun
    <3> HIDE DEF n, u
    <3> QED BY <3>1, <3>2 DEF Agree
  <2> QED BY <2>1, <2>2
<1>10. Agree(u, n)
  <2>1. u.msDelay = Delay /\ u.msLast = n.seen /\ u.fPaused = n.paused
        /\ u.nActiveSide = n.running
    <3> HIDE DEF u, n
    <3> QED BY <1>4, <1>6 DEF Agree
  <2>2. u.msDelayLeft = PositivePart(Delay - n.turn)
    <3> HIDE DEF u, n, over, elapsed
    <3> QED BY <1>2, <1>4, <1>7
  <2> HIDE DEF u, n
  <2> QED BY <1>9, <2>1, <2>2 DEF Agree
<1>11. ASSUME NEW s \in Side
       PROVE  /\ u.amsReserve[s] <= t.amsReserve[s]
              /\ t.afFlagged[s] => u.afFlagged[s]
              /\ s # side => u.amsReserve[s] = t.amsReserve[s]
  <2>1. t.amsReserve[s] \in Nat
    BY DEF Clock
  <2>2. CASE s = side
    <3> HIDE DEF u, over
    <3> QED BY <1>2, <1>4, <2>1, <2>2
  <2>3. CASE s # side
    <3> HIDE DEF u
    <3> QED BY <1>4, <2>1, <2>3
  <2> QED BY <2>2, <2>3
<1> QED
  BY <1>4, <1>5, <1>10, <1>11

\* Settling at any moment keeps an armed clock and the notes in agreement, and
\* takes nothing from a side that is not running.
LEMMA SettleKeepsAgreement ==
    ASSUME NEW t \in Clock, NEW w \in Observer, NEW now \in Nat, Agree(t, w)
    PROVE  LET r == settle(t, now)
           IN  /\ r.tc \in Clock
               /\ r.ev \in Events
               /\ Agree(r.tc, Counted(Noted(w, now), r.ev))
               /\ r.tc.fActive = t.fActive
               /\ r.tc.fPaused = t.fPaused
               /\ r.tc.nActiveSide = t.nActiveSide
               /\ \A s \in Side :
                    /\ r.tc.amsReserve[s] <= t.amsReserve[s]
                    /\ t.afFlagged[s] => r.tc.afFlagged[s]
                    /\ s # t.nActiveSide => r.tc.amsReserve[s] = t.amsReserve[s]
<1>1. CASE now <= t.msLast \/ t.fPaused \/ t.nActiveSide < 0
  <2> DEFINE r == settle(t, now)
  <2>1. PICK m \in Nat : r = [tc |-> [t EXCEPT !.msLast = m], ev |-> TC_EVENT_NONE]
    BY <1>1, IdleSettle
  <2>2. r.tc \in Clock /\ r.ev = TC_EVENT_NONE /\ Agree(r.tc, Counted(Noted(w, now), r.ev))
    BY <1>1, IdleSettle
  <2>3. /\ r.tc.fActive = t.fActive /\ r.tc.fPaused = t.fPaused
        /\ r.tc.nActiveSide = t.nActiveSide
        /\ r.tc.amsReserve = t.amsReserve /\ r.tc.afFlagged = t.afFlagged
    BY <2>1 DEF Clock
  <2>4. r.ev \in Events
    BY <2>2 DEF Events
  <2>5. \A s \in Side : t.amsReserve[s] \in Nat
    BY DEF Clock
  <2> QED BY <2>2, <2>3, <2>4, <2>5
<1>2. CASE now > t.msLast /\ ~t.fPaused /\ t.nActiveSide \in Side
  BY <1>2, ChargingSettle
<1> QED
  BY <1>1, <1>2 DEF Clock

\* Handing the clock over closes the running turn's overrun into the total and
\* opens a turn with the whole delay.
LEMMA HandOver ==
    ASSUME NEW t \in Clock, NEW n \in Observer, Agree(t, n),
           NEW side \in Side \cup {NoSide}
    PROVE  LET u == [t EXCEPT !.nActiveSide = IF side \in Side THEN side ELSE NoSide,
                              !.msDelayLeft = IF side \in Side THEN Delay ELSE 0]
               v == [n EXCEPT !.running = IF side \in Side THEN side ELSE NoSide,
                              !.turn = 0,
                              !.over = [s \in Side |-> Overrun(n, s)]]
           IN  u \in Clock /\ v \in Observer /\ Agree(u, v)
<1> DEFINE left == IF side \in Side THEN Delay ELSE 0
           next == IF side \in Side THEN side ELSE NoSide
           over == [s \in Side |-> Overrun(n, s)]
           u == [t EXCEPT !.nActiveSide = next, !.msDelayLeft = left]
           v == [n EXCEPT !.running = next, !.turn = 0, !.over = over]
<1>1. left \in Nat /\ next \in {NoSide} \cup Side /\ (next # NoSide => left = Delay)
  OBVIOUS
<1>2. over \in [Side -> Nat] /\ \A s \in Side : over[s] = Overrun(n, s)
  BY OverrunType
<1>3. /\ u \in Clock
      /\ u.nActiveSide = next /\ u.msDelayLeft = left /\ u.msDelay = t.msDelay
      /\ u.msLast = t.msLast /\ u.fPaused = t.fPaused
      /\ u.amsReserve = t.amsReserve /\ u.afFlagged = t.afFlagged
  <2> HIDE DEF left, next
  <2> QED BY <1>1 DEF Clock
<1>4. /\ v \in Observer
      /\ v.running = next /\ v.turn = 0 /\ v.over = over
      /\ v.seen = n.seen /\ v.paused = n.paused /\ v.fallen = n.fallen
  <2> HIDE DEF next, over
  <2> QED BY <1>1, <1>2 DEF Observer
<1>5. PositivePart(0 - Delay) = 0 /\ PositivePart(Delay - 0) = Delay
  BY DEF PositivePart
<1> HIDE DEF u, v, left, next, over
<1>6. \A s \in Side : Overrun(v, s) = Overrun(n, s)
  <2> TAKE s \in Side
  <2>1. Overrun(v, s) = over[s] + (IF next = s THEN 0 ELSE 0)
    BY <1>4, <1>5 DEF Overrun
  <2>2. Overrun(n, s) \in Nat
    BY OverrunType
  <2> QED BY <1>2, <2>1, <2>2
<1>7. Agree(u, v)
  BY <1>1, <1>3, <1>4, <1>5, <1>6 DEF Agree
<1> QED
  BY <1>3, <1>4, <1>7 DEF u, v, left, next, over

-----------------------------------------------------------------------------
(* Invariance.                                                             *)

\* What every step of an armed clock preserves: agreement, and the running
\* side alone pays.
LEMMA StepKeepsIInv ==
    ASSUME IInv, [Next]_vars
    PROVE  /\ IInv'
           /\ Arm \/ \A s \in Side :
                /\ tc'.amsReserve[s] <= tc.amsReserve[s]
                /\ tc.afFlagged[s] => tc'.afFlagged[s]
                /\ s # tc.nActiveSide => tc'.amsReserve[s] = tc.amsReserve[s]
<1> USE DEF IInv
<1> DEFINE Paid == \A s \in Side :
                     /\ tc'.amsReserve[s] <= tc.amsReserve[s]
                     /\ tc.afFlagged[s] => tc'.afFlagged[s]
                     /\ s # tc.nActiveSide => tc'.amsReserve[s] = tc.amsReserve[s]
<1>0. tc \in Clock /\ watch \in Observer /\ ev \in Events
      /\ \A s \in Side : tc.amsReserve[s] \in Nat
  BY DEF TypeOK, Clock
<1>1. CASE Arm
  <2>1. tc' \in Clock /\ ev' \in Events /\ watch' \in Observer
    BY <1>1 DEF Arm, tc_init, Clock, Events, Fresh, Observer
  <2>2. \A s \in Side : Overrun(watch', s) = 0
    BY <1>1 DEF Arm, Fresh, Overrun
  <2>3. PositivePart(Reserve - 0) = Reserve
    BY DEF PositivePart
  <2>4. Agree(tc', watch')
    BY <1>1, <2>2, <2>3 DEF Arm, tc_init, Fresh, Agree
  <2> QED BY <1>1, <2>1, <2>4 DEF TypeOK
<1>2. CASE Off
  <2>1. tc' \in Clock /\ tc'.fActive = FALSE
        /\ tc'.amsReserve = tc.amsReserve /\ tc'.afFlagged = tc.afFlagged
    BY <1>0, <1>2 DEF Off, Clock
  <2>2. ev' \in Events /\ watch' \in Observer
    BY <1>0, <1>2 DEF Off, Events
  <2>3. Paid
    BY <1>0, <2>1
  <2> QED BY <2>1, <2>2, <2>3 DEF TypeOK
<1>3. ASSUME ~tc.fActive, ev' = TC_EVENT_NONE, tc' = tc, watch' = watch
      PROVE  IInv' /\ Paid
  BY <1>0, <1>3 DEF TypeOK, Events
<1>4. ASSUME NEW now \in Stamp, NEW side \in Side \cup {NoSide}, Hand(side, now)
      PROVE  IInv' /\ Paid
  <2>1. CASE ~tc.fActive
    BY <1>3, <1>4, <2>1 DEF Hand, tc_start_turn, Ignored
  <2>2. CASE tc.fActive
    <3> DEFINE paid == settle(tc, now)
               n    == Counted(Noted(watch, now), paid.ev)
    <3>1. now \in Nat /\ Agree(tc, watch)
      BY <2>2 DEF Stamp
    <3>2. /\ paid.tc \in Clock /\ paid.ev \in Events /\ Agree(paid.tc, n)
          /\ paid.tc.fActive = tc.fActive
          /\ \A s \in Side :
               /\ paid.tc.amsReserve[s] <= tc.amsReserve[s]
               /\ tc.afFlagged[s] => paid.tc.afFlagged[s]
               /\ s # tc.nActiveSide => paid.tc.amsReserve[s] = tc.amsReserve[s]
      BY <1>0, <3>1, SettleKeepsAgreement
    <3>3. n \in Observer
      BY <1>0, <3>1, <3>2, NotesAfterSettle
    <3>4. /\ tc' = [paid.tc EXCEPT !.nActiveSide = IF side \in Side THEN side ELSE NoSide,
                                   !.msDelayLeft = IF side \in Side THEN Delay ELSE 0]
          /\ ev' = paid.ev
          /\ watch' = [n EXCEPT !.running = IF side \in Side THEN side ELSE NoSide,
                                !.turn = 0,
                                !.over = [s \in Side |-> Overrun(n, s)]]
      BY <1>4, <2>2, <3>1 DEF Hand, tc_start_turn, Agree
    <3> HIDE DEF paid, n
    <3>5. tc' \in Clock /\ watch' \in Observer /\ Agree(tc', watch')
      BY <3>2, <3>3, <3>4, HandOver
    <3>6. tc'.amsReserve = paid.tc.amsReserve /\ tc'.afFlagged = paid.tc.afFlagged
      BY <3>2, <3>4 DEF Clock
    <3> QED BY <3>2, <3>4, <3>5, <3>6 DEF TypeOK
  <2> QED BY <2>1, <2>2
<1>5. ASSUME NEW now \in Stamp, Settle(now)
      PROVE  IInv' /\ Paid
  <2>1. CASE ~tc.fActive
    BY <1>3, <1>5, <2>1 DEF Settle, tc_settle, Ignored
  <2>2. CASE tc.fActive
    <3>1. now \in Nat /\ Agree(tc, watch)
      BY <2>2 DEF Stamp
    <3>2. /\ tc' = settle(tc, now).tc /\ ev' = settle(tc, now).ev
          /\ watch' = Counted(Noted(watch, now), ev')
      BY <1>5, <2>2 DEF Settle, tc_settle
    <3>3. tc' \in Clock /\ ev' \in Events /\ Agree(tc', watch') /\ Paid
      BY <1>0, <3>1, <3>2, SettleKeepsAgreement
    <3>4. watch' \in Observer
      BY <1>0, <3>1, <3>2, <3>3, NotesAfterSettle
    <3> QED BY <3>3, <3>4 DEF TypeOK
  <2> QED BY <2>1, <2>2
<1>6. ASSUME NEW now \in Stamp, Pause(now)
      PROVE  IInv' /\ Paid
  <2>1. CASE ~tc.fActive
    BY <1>3, <1>6, <2>1 DEF Pause, tc_pause, Ignored
  <2>2. CASE tc.fActive /\ tc.fPaused
    <3>1. tc' = tc /\ watch' = watch /\ ev' = TC_EVENT_NONE
      BY <1>6, <2>2 DEF Pause, tc_pause, Ignored, Agree
    <3> QED BY <1>0, <3>1 DEF TypeOK, Events
  <2>3. CASE tc.fActive /\ ~tc.fPaused
    <3> DEFINE paid == settle(tc, now)
               n    == Counted(Noted(watch, now), paid.ev)
    <3>1. now \in Nat /\ Agree(tc, watch)
      BY <2>3 DEF Stamp
    <3>2. /\ paid.tc \in Clock /\ paid.ev \in Events /\ Agree(paid.tc, n)
          /\ \A s \in Side :
               /\ paid.tc.amsReserve[s] <= tc.amsReserve[s]
               /\ tc.afFlagged[s] => paid.tc.afFlagged[s]
               /\ s # tc.nActiveSide => paid.tc.amsReserve[s] = tc.amsReserve[s]
      BY <1>0, <3>1, SettleKeepsAgreement
    <3>3. n \in Observer
      BY <1>0, <3>1, <3>2, NotesAfterSettle
    <3>4. /\ tc' = [paid.tc EXCEPT !.fPaused = TRUE] /\ ev' = paid.ev
          /\ watch' = [n EXCEPT !.paused = TRUE]
      BY <1>6, <2>3, <3>1 DEF Pause, tc_pause, Agree
    <3> HIDE DEF paid, n
    <3>5. /\ tc' \in Clock /\ tc'.fPaused = TRUE /\ tc'.msDelay = paid.tc.msDelay
          /\ tc'.msDelayLeft = paid.tc.msDelayLeft /\ tc'.msLast = paid.tc.msLast
          /\ tc'.nActiveSide = paid.tc.nActiveSide
          /\ tc'.amsReserve = paid.tc.amsReserve /\ tc'.afFlagged = paid.tc.afFlagged
      BY <3>2, <3>4 DEF Clock
    <3>6. /\ watch' \in Observer /\ watch'.paused = TRUE /\ watch'.seen = n.seen
          /\ watch'.running = n.running /\ watch'.turn = n.turn
          /\ watch'.over = n.over /\ watch'.fallen = n.fallen
      BY <3>3, <3>4 DEF Observer
    <3>7. \A s \in Side : Overrun(watch', s) = Overrun(n, s)
      BY <3>6 DEF Overrun
    <3>8. Agree(tc', watch')
      <4>1. tc'.fPaused = watch'.paused
        BY <3>5, <3>6
      <4> QED BY <3>2, <3>5, <3>6, <3>7, <4>1 DEF Agree
    <3> QED BY <3>2, <3>4, <3>5, <3>6, <3>8 DEF TypeOK
  <2> QED BY <2>1, <2>2, <2>3
<1>7. ASSUME NEW now \in Stamp, Resume(now)
      PROVE  IInv' /\ Paid
  <2>1. CASE ~tc.fActive
    BY <1>3, <1>7, <2>1 DEF Resume, tc_resume
  <2>2. CASE tc.fActive /\ ~tc.fPaused
    <3>1. tc' = tc /\ watch' = watch /\ ev' = TC_EVENT_NONE
      BY <1>7, <2>2 DEF Resume, tc_resume, Agree
    <3> QED BY <1>0, <3>1 DEF TypeOK, Events
  <2>3. CASE tc.fActive /\ tc.fPaused
    <3> DEFINE n == Noted(watch, now)
               last == IF now > tc.msLast THEN now ELSE tc.msLast
    <3>0. now \in Nat /\ Agree(tc, watch)
      BY <2>3 DEF Stamp
    <3>1. watch.paused /\ watch.seen = tc.msLast
      BY <2>3, <3>0 DEF Agree
    <3>2. /\ n \in Observer /\ n.running = watch.running /\ n.over = watch.over
          /\ n.fallen = watch.fallen /\ n.seen = last /\ n.turn = watch.turn
      <4>1. /\ n \in Observer /\ n.running = watch.running /\ n.over = watch.over
            /\ n.fallen = watch.fallen
            /\ n.seen = (IF now > watch.seen THEN now ELSE watch.seen)
            /\ n.turn = (IF watch.paused \/ watch.running = NoSide \/ now <= watch.seen
                         THEN watch.turn ELSE watch.turn + (now - watch.seen))
        BY <1>0, <3>0, NotedIs
      <4> HIDE DEF n
      <4> QED BY <3>1, <4>1
    <3>3. /\ tc' = [tc EXCEPT !.fPaused = FALSE, !.msLast = last]
          /\ ev' = TC_EVENT_NONE
          /\ watch' = [n EXCEPT !.paused = FALSE]
      BY <1>7, <2>3, <3>0, <3>1 DEF Resume, tc_resume
    <3>4. last \in Nat
      BY <1>0, <3>0 DEF Clock
    <3> HIDE DEF n, last
    <3>5. /\ tc' \in Clock /\ tc'.fPaused = FALSE /\ tc'.msDelay = tc.msDelay
          /\ tc'.msDelayLeft = tc.msDelayLeft /\ tc'.msLast = last
          /\ tc'.nActiveSide = tc.nActiveSide
          /\ tc'.amsReserve = tc.amsReserve /\ tc'.afFlagged = tc.afFlagged
      BY <1>0, <3>3, <3>4 DEF Clock
    <3>6. /\ watch' \in Observer /\ watch'.paused = FALSE /\ watch'.seen = last
          /\ watch'.running = watch.running /\ watch'.turn = watch.turn
          /\ watch'.over = watch.over /\ watch'.fallen = watch.fallen
      BY <3>2, <3>3 DEF Observer
    <3>7. \A s \in Side : Overrun(watch', s) = Overrun(watch, s)
      BY <3>6 DEF Overrun
    <3>8. Agree(tc', watch')
      <4>1. tc'.fPaused = watch'.paused
        BY <3>5, <3>6
      <4> QED BY <3>0, <3>5, <3>6, <3>7, <4>1 DEF Agree
    <3> QED BY <1>0, <3>3, <3>5, <3>6, <3>8 DEF TypeOK, Events
  <2> QED BY <2>1, <2>2, <2>3
<1>8. CASE UNCHANGED vars
  BY <1>0, <1>8 DEF vars, TypeOK, Agree, Overrun
<1> QED
  BY <1>1, <1>2, <1>4, <1>5, <1>6, <1>7, <1>8 DEF Next

\* Clock and notes agree for ever, whatever the calls and their timestamps:
\* the inductive invariant the theorems below rest on.
LEMMA Invariance == Spec => []IInv
<1>1. Init => IInv
  BY DEF Init, IInv, TypeOK, Zeroed, Fresh, Clock, Observer, Events
<1>2. IInv /\ [Next]_vars => IInv'
  BY StepKeepsIInv
<1> QED
  BY <1>1, <1>2, PTL DEF Spec

\* The unsigned arithmetic of timecontrol.c never leaves the naturals.
THEOREM TypeCorrect == Spec => []TypeOK
<1>1. IInv => TypeOK
  BY DEF IInv
<1> QED
  BY <1>1, Invariance, PTL

\* Reserves are functions of the time each side really used, in whatever pieces and
\* order it was settled: I1, I4 and I5 of timecontrol.c for every delay and reserve.
THEOREM ReserveCorrect == Spec => []ReserveIsWhatPlayLeft
<1>1. IInv => ReserveIsWhatPlayLeft
  BY DEF IInv, Agree, ReserveIsWhatPlayLeft
<1> QED
  BY <1>1, Invariance, PTL

\* The delay left is a function of the time used in this turn: I2 of timecontrol.c.
THEOREM DelayCorrect == Spec => []DelayIsPerTurn
<1>1. IInv => DelayIsPerTurn
  BY DEF IInv, Agree, DelayIsPerTurn
<1> QED
  BY <1>1, Invariance, PTL

\* I3 of timecontrol.c: each player's flag is reported exactly once, when and
\* only when that player's time is used up.
THEOREM FlagCorrect == Spec => []FlagReportedOnce
<1>1. IInv => FlagReportedOnce
  BY DEF IInv, Agree, FlagReportedOnce
<1> QED
  BY <1>1, Invariance, PTL

\* A step charges the running side only; no reserve grows and no flag is
\* withdrawn before the clock is armed again.
THEOREM OthersUntouched == Spec => OthersClockUntouched
<1>1. IInv /\ [Next]_vars =>
        [Arm \/ \A s \in Side :
           /\ tc'.amsReserve[s] <= tc.amsReserve[s]
           /\ tc.afFlagged[s] => tc'.afFlagged[s]
           /\ s # tc.nActiveSide => tc'.amsReserve[s] = tc.amsReserve[s]]_vars
  BY StepKeepsIInv
<1> QED
  BY <1>1, Invariance, PTL DEF Spec, OthersClockUntouched

-----------------------------------------------------------------------------
(* TimeControl implements TableClock.                                      *)

\* What settling an armed clock finds, in TableClock's terms: nothing, or the
\* fall of the running side's flag.
LEMMA SettleFinds ==
    ASSUME NEW t \in Clock, NEW now \in Nat
    PROVE  LET r == settle(t, now)
               f == Report(r.ev)
           IN  /\ r.tc.fActive = t.fActive /\ r.tc.fPaused = t.fPaused
               /\ r.tc.nActiveSide = t.nActiveSide
               /\ \/ f = -1 /\ \A s \in Side : r.tc.afFlagged[s] <=> t.afFlagged[s]
                  \/ /\ ~t.fPaused /\ f = t.nActiveSide /\ f \in Side /\ ~t.afFlagged[f]
                     /\ \A s \in Side : r.tc.afFlagged[s] <=> (t.afFlagged[s] \/ s = f)
<1> DEFINE r    == settle(t, now)
           side == t.nActiveSide
<1>1. CASE now <= t.msLast \/ t.fPaused \/ side < 0
  <2>1. r.ev = TC_EVENT_NONE /\ (r.tc = t \/ r.tc = [t EXCEPT !.msLast = now])
    BY <1>1 DEF settle
  <2> HIDE DEF r
  <2>2. /\ r.tc.fActive = t.fActive /\ r.tc.fPaused = t.fPaused
        /\ r.tc.nActiveSide = side /\ r.tc.afFlagged = t.afFlagged
    BY <2>1 DEF Clock
  <2>3. Report(r.ev) = -1
    BY <2>1 DEF Report, TC_EVENT_NONE
  <2> QED BY <2>2, <2>3 DEF r
<1>2. CASE ~(now <= t.msLast \/ t.fPaused \/ side < 0)
  <2> DEFINE read    == [t EXCEPT !.msLast = now]
             elapsed == now - t.msLast
             over    == elapsed - read.msDelayLeft
             falls   == /\ over > 0 /\ ~read.afFlagged[read.nActiveSide]
                        /\ read.amsReserve[read.nActiveSide] <= over
  <2>1. /\ read \in Clock /\ read.nActiveSide = side /\ read.fActive = t.fActive
        /\ read.fPaused = t.fPaused /\ read.afFlagged = t.afFlagged
    BY DEF Clock
  <2>2. side \in Side /\ elapsed \in Nat
    BY <1>2 DEF Clock
  <2>3. r = Charge(read, elapsed)
    BY <1>2 DEF settle
  <2> HIDE DEF read, elapsed, r, side
  <2>4. read.nActiveSide \in Side
    BY <2>1, <2>2
  <2>5. r.tc.fActive = read.fActive
    BY <2>1, <2>2, <2>3, <2>4, ChargeIs
  <2>6. r.tc.fPaused = read.fPaused /\ r.tc.nActiveSide = read.nActiveSide
    BY <2>1, <2>2, <2>3, <2>4, ChargeIs
  <2>7. r.ev = (IF falls THEN FlagEvent(read.nActiveSide) ELSE TC_EVENT_NONE)
    BY <2>1, <2>2, <2>3, <2>4, ChargeIs
  <2>8. r.tc.afFlagged[read.nActiveSide] <=> (read.afFlagged[read.nActiveSide] \/ falls)
    BY <2>1, <2>2, <2>3, <2>4, ChargeIs
  <2>9. \A s \in Side \ {read.nActiveSide} : r.tc.afFlagged[s] = read.afFlagged[s]
    BY <2>1, <2>2, <2>3, <2>4, ChargeIs
  <2>10. falls => ~t.afFlagged[side]
    BY <2>1
  <2> HIDE DEF falls
  <2>11. CASE ~falls
    <3>1. Report(r.ev) = -1
      BY <2>7, <2>11 DEF Report, TC_EVENT_NONE
    <3>2. \A s \in Side : r.tc.afFlagged[s] <=> t.afFlagged[s]
      BY <2>1, <2>8, <2>9, <2>11
    <3> QED BY <2>1, <2>5, <2>6, <3>1, <3>2 DEF r, side
  <2>12. CASE falls
    <3>1. Report(r.ev) = side
      BY <2>1, <2>2, <2>7, <2>12 DEF Report, FlagEvent
    <3>2. \A s \in Side : r.tc.afFlagged[s] <=> (t.afFlagged[s] \/ s = side)
      BY <2>1, <2>8, <2>9, <2>12
    <3>3. ~t.fPaused
      BY <1>2
    <3> QED BY <2>1, <2>2, <2>5, <2>6, <2>10, <2>12, <3>1, <3>2, <3>3 DEF r, side
  <2> QED BY <2>11, <2>12
<1> QED BY <1>1, <1>2

\* The clock with its arithmetic is a TableClock, for every delay and reserve:
\* what ClockHands assumes of the clock is what timecontrol.c delivers.
THEOREM ImplementsTableClock == Spec => ImplementsTable
<1>1. Init => Table!TableInit
  <2> SUFFICES ASSUME Init PROVE Table!TableInit
    OBVIOUS
  <2>1. {s \in Side : tc.afFlagged[s]} = {}
    BY DEF Init, Zeroed
  <2>2. Report(ev) = -1
    BY DEF Init, Report, TC_EVENT_NONE
  <2> QED BY <2>1, <2>2 DEF Init, Zeroed, Table!TableInit, Table!Nobody
<1>2. IInv /\ [Next]_vars => [Table!TableNext]_(Table!tableVars)
  <2> SUFFICES ASSUME IInv, [Next]_vars
               PROVE  Table!TableNext \/ UNCHANGED Table!tableVars
    OBVIOUS
  <2>0. tc \in Clock
    BY DEF IInv, TypeOK
  <2>1. Report(TC_EVENT_NONE) = -1
    BY DEF Report, TC_EVENT_NONE
  <2>2. ASSUME ev' = TC_EVENT_NONE, tc'.fActive = tc.fActive, tc'.fPaused = tc.fPaused,
               tc'.nActiveSide = tc.nActiveSide, tc'.afFlagged = tc.afFlagged
        PROVE  Table!SettleTable(-1)
    BY <2>1, <2>2 DEF Table!SettleTable, Table!Find, Table!Nobody
  <2>3. ASSUME NEW now \in Nat, ev' = settle(tc, now).ev, tc.fActive,
               tc'.afFlagged = settle(tc, now).tc.afFlagged
        PROVE  \E f \in Table!Seat \cup {Table!Nobody} : Table!Find(f)
    <3> DEFINE F == {s \in Side : tc.afFlagged[s]}
    <3>0. PICK f \in {-1, 0, 1} : f = Report(ev')
      BY DEF Report
    <3>1. \/ f = -1 /\ \A s \in Side : tc'.afFlagged[s] <=> tc.afFlagged[s]
          \/ /\ ~tc.fPaused /\ f = tc.nActiveSide /\ f \in Side /\ ~tc.afFlagged[f]
             /\ \A s \in Side : tc'.afFlagged[s] <=> (tc.afFlagged[s] \/ s = f)
      BY <2>0, <2>3, <3>0, SettleFinds
    <3>2. CASE f = -1 /\ \A s \in Side : tc'.afFlagged[s] <=> tc.afFlagged[s]
      <4>1. {s \in Side : tc'.afFlagged[s]} = F
        BY <3>2
      <4> QED BY <3>0, <3>2, <4>1 DEF Table!Find, Table!Nobody
    <3>3. CASE /\ ~tc.fPaused /\ f = tc.nActiveSide /\ f \in Side /\ ~tc.afFlagged[f]
               /\ \A s \in Side : tc'.afFlagged[s] <=> (tc.afFlagged[s] \/ s = f)
      <4>1. {s \in Side : tc'.afFlagged[s]} = F \cup {f} /\ f \notin F
        BY <3>3
      <4> QED BY <2>3, <3>0, <3>3, <4>1 DEF Table!Find, Table!Seat
    <3> QED BY <3>1, <3>2, <3>3
  <2>4. CASE Arm
    <3>1. {s \in Side : tc'.afFlagged[s]} = {}
      BY <2>4 DEF Arm, tc_init
    <3>2. tc'.fActive = TRUE /\ tc'.fPaused = FALSE /\ tc'.nActiveSide = -1
          /\ ev' = TC_EVENT_NONE
      BY <2>4 DEF Arm, tc_init
    <3> QED BY <2>1, <3>1, <3>2 DEF Table!TableNext, Table!ArmTable, Table!Nobody
  <2>5. CASE Off
    <3>1. /\ tc'.fActive = FALSE /\ tc'.fPaused = tc.fPaused
          /\ tc'.nActiveSide = tc.nActiveSide /\ tc'.afFlagged = tc.afFlagged
          /\ ev' = TC_EVENT_NONE
      BY <2>0, <2>5 DEF Off, Clock
    <3> QED BY <2>1, <3>1 DEF Table!TableNext, Table!DisarmTable, Table!Nobody
  <2>6. ASSUME NEW now \in Stamp, NEW next \in Side \cup {NoSide}, Hand(next, now)
        PROVE  Table!TableNext
    <3>1. CASE ~tc.fActive
      <4>1. tc' = tc /\ ev' = TC_EVENT_NONE
        BY <2>6, <3>1 DEF Hand, tc_start_turn, Ignored
      <4> QED BY <2>2, <4>1 DEF Table!TableNext, Table!Nobody
    <3>2. CASE tc.fActive
      <4> DEFINE r == settle(tc, now)
      <4>1. r.tc.fActive = tc.fActive /\ r.tc.fPaused = tc.fPaused /\ r.tc \in Clock
        <5>1. now \in Nat /\ watch \in Observer /\ Agree(tc, watch)
          BY <3>2 DEF IInv, TypeOK, Stamp
        <5> QED BY <2>0, <5>1, SettleKeepsAgreement
      <4>2. /\ ev' = r.ev
            /\ tc' = [r.tc EXCEPT !.nActiveSide = IF next \in Side THEN next ELSE NoSide,
                                  !.msDelayLeft = IF next \in Side THEN tc.msDelay ELSE 0]
        BY <2>6, <3>2 DEF Hand, tc_start_turn
      <4> HIDE DEF r
      <4>3. /\ tc'.fActive = tc.fActive /\ tc'.fPaused = tc.fPaused
            /\ tc'.nActiveSide = next /\ tc'.afFlagged = r.tc.afFlagged
        BY <4>1, <4>2 DEF Clock
      <4>4. now \in Nat
        BY DEF Stamp
      <4>5. PICK f \in Table!Seat \cup {Table!Nobody} : Table!Find(f)
        BY <2>3, <3>2, <4>2, <4>3, <4>4 DEF r
      <4>6. next \in Table!Seat \cup {Table!Nobody}
        BY DEF Table!Seat, Table!Nobody
      <4>7. Table!HandTable(next, f)
        BY <3>2, <4>3, <4>5 DEF Table!HandTable
      <4> QED BY <4>5, <4>6, <4>7 DEF Table!TableNext
    <3> QED BY <3>1, <3>2
  <2>7. ASSUME NEW now \in Stamp, Settle(now)
        PROVE  Table!TableNext
    <3>1. CASE ~tc.fActive
      <4>1. tc' = tc /\ ev' = TC_EVENT_NONE
        BY <2>7, <3>1 DEF Settle, tc_settle, Ignored
      <4> QED BY <2>2, <4>1 DEF Table!TableNext, Table!Nobody
    <3>2. CASE tc.fActive
      <4>1. tc' = settle(tc, now).tc /\ ev' = settle(tc, now).ev /\ now \in Nat
        BY <2>7, <3>2 DEF Settle, tc_settle, Stamp
      <4>2. /\ tc'.fActive = tc.fActive /\ tc'.fPaused = tc.fPaused
            /\ tc'.nActiveSide = tc.nActiveSide
        BY <2>0, <4>1, SettleFinds
      <4>3. PICK f \in Table!Seat \cup {Table!Nobody} : Table!Find(f)
        BY <2>3, <3>2, <4>1
      <4> QED BY <4>2, <4>3 DEF Table!TableNext, Table!SettleTable
    <3> QED BY <3>1, <3>2
  <2>8. ASSUME NEW now \in Stamp, Pause(now)
        PROVE  Table!TableNext
    <3>1. CASE ~tc.fActive \/ tc.fPaused
      <4>1. tc' = tc /\ ev' = TC_EVENT_NONE
        BY <2>8, <3>1 DEF Pause, tc_pause, Ignored
      <4> QED BY <2>2, <4>1 DEF Table!TableNext, Table!Nobody
    <3>2. CASE tc.fActive /\ ~tc.fPaused
      <4> DEFINE r == settle(tc, now)
      <4>1. r.tc.fActive = tc.fActive /\ r.tc.nActiveSide = tc.nActiveSide /\ r.tc \in Clock
        <5>1. now \in Nat /\ watch \in Observer /\ Agree(tc, watch)
          BY <3>2 DEF IInv, TypeOK, Stamp
        <5> QED BY <2>0, <5>1, SettleKeepsAgreement
      <4>2. ev' = r.ev /\ tc' = [r.tc EXCEPT !.fPaused = TRUE] /\ now \in Nat
        BY <2>8, <3>2 DEF Pause, tc_pause, Stamp
      <4> HIDE DEF r
      <4>3. /\ tc'.fActive = tc.fActive /\ tc'.fPaused = TRUE
            /\ tc'.nActiveSide = tc.nActiveSide /\ tc'.afFlagged = r.tc.afFlagged
        BY <4>1, <4>2 DEF Clock
      <4>4. PICK f \in Table!Seat \cup {Table!Nobody} : Table!Find(f)
        BY <2>3, <3>2, <4>2, <4>3 DEF r
      <4>5. Table!HoldTable(f)
        BY <3>2, <4>3, <4>4 DEF Table!HoldTable
      <4> QED BY <4>4, <4>5 DEF Table!TableNext
    <3> QED BY <3>1, <3>2
  <2>9. ASSUME NEW now \in Stamp, Resume(now)
        PROVE  Table!TableNext
    <3>1. CASE ~tc.fActive \/ ~tc.fPaused
      <4>1. tc' = tc /\ ev' = TC_EVENT_NONE
        BY <2>9, <3>1 DEF Resume, tc_resume
      <4> QED BY <2>2, <4>1 DEF Table!TableNext, Table!Nobody
    <3>2. CASE tc.fActive /\ tc.fPaused
      <4>1. ev' = TC_EVENT_NONE
            /\ tc' = [tc EXCEPT !.fPaused = FALSE,
                                !.msLast = IF now > tc.msLast THEN now ELSE tc.msLast]
        BY <2>9, <3>2 DEF Resume, tc_resume
      <4>2. /\ tc'.fActive = tc.fActive /\ tc'.fPaused = FALSE
            /\ tc'.nActiveSide = tc.nActiveSide /\ tc'.afFlagged = tc.afFlagged
        BY <2>0, <4>1 DEF Clock
      <4> QED BY <2>1, <4>1, <4>2 DEF Table!TableNext, Table!ReleaseTable, Table!Nobody
    <3> QED BY <3>1, <3>2
  <2>10. CASE UNCHANGED vars
    BY <2>10 DEF vars, Table!tableVars
  <2> QED BY <2>4, <2>5, <2>6, <2>7, <2>8, <2>9, <2>10 DEF Next
<1> QED
  BY <1>1, <1>2, Invariance, PTL DEF Spec, ImplementsTable, Table!TableSpec

====
