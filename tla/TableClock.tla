---- MODULE TableClock ----
(***************************************************************************)
(* What the match clock promises to the code around it, without a single   *)
(* millisecond: whose time runs, and that time may at any moment turn out  *)
(* to have run out, for the running side alone and once per match.         *)
(* TimeControl, the clock with its arithmetic, implements this;            *)
(* ClockHands, the code around it, is written over it.                     *)
(***************************************************************************)
EXTENDS Integers

VARIABLES
    armed,   \* the clock serves a match
    held,    \* it is paused
    side,    \* whose time it is, Nobody if no one's
    fallen,  \* the sides whose flag has fallen
    told     \* the side whose flag the last call reported, or Nobody

tableVars == <<armed, held, side, fallen, told>>

Seat   == {0, 1}
Nobody == -1

\* Bringing the accounts up to date finds f: the running side's time up, or
\* nobody's.
Find(f) ==
    /\ \/ f = Nobody /\ fallen' = fallen
       \/ /\ armed /\ ~held
          /\ f = side /\ f \in Seat /\ f \notin fallen
          /\ fallen' = fallen \cup {f}
    /\ told' = f

TableInit ==
    /\ armed = FALSE /\ held = FALSE
    /\ side = 0 /\ fallen = {} /\ told = Nobody

ArmTable ==
    /\ armed' = TRUE /\ held' = FALSE
    /\ side' = Nobody /\ fallen' = {} /\ told' = Nobody

DisarmTable == armed' = FALSE /\ told' = Nobody /\ UNCHANGED <<held, side, fallen>>

SettleTable(f) == Find(f) /\ UNCHANGED <<armed, held, side>>

\* An unarmed clock is handed to no one.
HandTable(s, f) ==
    /\ Find(f)
    /\ side' = IF armed THEN s ELSE side
    /\ UNCHANGED <<armed, held>>

HoldTable(f) == armed /\ Find(f) /\ held' = TRUE /\ UNCHANGED <<armed, side>>

ReleaseTable == held' = FALSE /\ told' = Nobody /\ UNCHANGED <<armed, side, fallen>>

TableNext ==
    \/ ArmTable \/ DisarmTable \/ ReleaseTable
    \/ \E f \in Seat \cup {Nobody} :
         \/ SettleTable(f) \/ HoldTable(f)
         \/ \E s \in Seat \cup {Nobody} : HandTable(s, f)

TableSpec == TableInit /\ [][TableNext]_tableVars
====
