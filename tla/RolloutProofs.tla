---- MODULE RolloutProofs ----
(***************************************************************************)
(* Proofs about Rollout, for any pool of workers, any pollers, any number  *)
(* of candidates and of trials: the barrier on the runner's stack outlives *)
(* its users, and a stored result is what its label says.                  *)
(***************************************************************************)
EXTENDS Rollout, FiniteSetTheorems, TLAPS

Means == SUBSET (Int \X Trial)

\* The part of gnubg_rollout_internal in which its barrier exists, and the part in
\* which it is published.
InFrame   == {"clear", "publish", "push", "wait", "aggregate"}
Published == {"push", "wait"}

Runner == [pc : {"idle", "search", "next", "setup", "record", "finish"} \cup InFrame,
           verb : {"none", "candidates", "position"}, n : 0..MaxCand, i : 0..(MaxCand + 1),
           nDone : Int, est : Means, ret : Int, verbs : Nat]

State == [active : BOOLEAN, cancelled : BOOLEAN, nCand : Nat, current : Nat,
          trialsDone : [Cand -> Int], mu : [Cand -> Means]]

Barrier == [frame : Nat, inScope : BOOLEAN, cand : 0..(MaxCand + 1), remaining : Int,
            results : [Trial -> Int], completed : SUBSET Trial]

Worker == [pc : {"idle", "check", "roll", "mark", "count", "finish"}, t : Trial, frame : Nat]

Poller == [pc : {"idle", "walk", "copy"}, haveLive : BOOLEAN, done : Nat, next : Trial,
           acc : Means, shown : [k : Nat, est : Means]]

Types ==
    /\ rn \in Runner /\ ro \in State /\ bar \in Barrier
    /\ live \in Nat /\ doneCount \in Nat /\ liveMutex \in Pollers \cup {Free}
    /\ pool \in Seq(Trial)
    /\ wk \in [Workers -> Worker]
    /\ pl \in [Pollers -> Poller]

\* The barrier is in scope while the runner is in its frame, published while tasks may
\* run, and who walks it holds the mutex that withdrawing it takes.
FrameInv ==
    /\ bar.inScope <=> rn.pc \in InFrame
    /\ bar.inScope => bar.frame # NULL
    /\ IF rn.pc \in Published THEN live = bar.frame /\ live # NULL ELSE live = NULL
    /\ \A p \in Pollers : pl[p].pc = "walk" => liveMutex = p /\ live # NULL

Active == {w \in Workers : wk[w].pc # "idle"}

\* The tasks the barrier still waits for: those queued and those being worked on.
Todo == {pool[i] : i \in DOMAIN pool} \cup {wk[w].t : w \in Active}

\* Tasks exist only while the runner waits for them, each one once, and the barrier
\* counts them.
TaskInv ==
    /\ rn.pc # "wait" => pool = <<>> /\ Active = {}
    /\ rn.pc \in {"clear", "publish", "push"} => bar.remaining = NTrials
    /\ rn.pc = "wait" => bar.remaining = Cardinality(Todo)
    /\ \A i, j \in DOMAIN pool : pool[i] = pool[j] => i = j
    /\ \A v, w \in Active : wk[v].t = wk[w].t => v = w
    /\ \A w \in Active : wk[w].frame = bar.frame /\ \A i \in DOMAIN pool : pool[i] # wk[w].t

\* A finished slot holds a trial of the barrier's candidate, which is the runner's.
SlotInv ==
    /\ rn.pc \in InFrame => bar.cand = rn.i
    /\ \A t \in bar.completed : bar.results[t] = bar.cand
    /\ \A w \in Workers : wk[w].pc = "mark" => bar.results[wk[w].t] = bar.cand

\* What the runner is about to record is labelled.
RecordInv ==
    /\ rn.pc = "record" /\ rn.nDone > 0 =>
         rn.est \subseteq {rn.i} \X Trial /\ rn.nDone = Cardinality(rn.est)
    /\ rn.pc \in InFrame \cup {"setup", "record"} /\ rn.verb # "position" => rn.i \in 1..rn.n
    /\ rn.pc = "next" => rn.i \in 1..(rn.n + 1)
    /\ rn.pc \in {"search", "next", "finish"} => rn.verb = "candidates"
    /\ rn.pc # "idle" => rn.verb # "none"

IInv == Types /\ FrameInv /\ TaskInv /\ SlotInv /\ RecordInv /\ ResultsAreLabelled

---------------------------------------------------------------------------

LEMMA InitIInv == Init => IInv
<1> SUFFICES ASSUME Init PROVE IInv
  OBVIOUS
<1> USE MaxCandAssumption, NTrialsAssumption DEF Init
<1>1. Types
  <2>1. rn \in Runner
    BY DEF Runner, Means, InFrame, NoCand
  <2>2. bar \in Barrier
    BY DEF Barrier, NoCand, NoResult
  <2>3. wk \in [Workers -> Worker]
    BY DEF Worker, Trial, NULL
  <2>4. ro \in State
    BY DEF State, Means, NoCand
  <2>5. pl \in [Pollers -> Poller]
    <3>1. 1 \in Trial /\ NoCand \in Nat /\ 0 \in Nat /\ {} \in Means
      BY DEF Trial, NoCand, Means
    <3>2. [k |-> NoCand, est |-> {}] \in [k : Nat, est : Means]
      BY <3>1
    <3> DEFINE z == [pc |-> "idle", haveLive |-> FALSE, done |-> 0, next |-> 1, acc |-> {},
                     shown |-> [k |-> NoCand, est |-> {}]]
    <3>3. z \in Poller
      BY <3>1, <3>2 DEF Poller
    <3>4. pl = [p \in Pollers |-> z]
      OBVIOUS
    <3> HIDE DEF z
    <3> QED BY <3>3, <3>4
  <2>6. live \in Nat /\ doneCount \in Nat /\ liveMutex \in Pollers \cup {Free}
        /\ pool \in Seq(Trial)
    BY DEF NULL
  <2> HIDE DEF Init
  <2> QED BY <2>1, <2>2, <2>3, <2>4, <2>5, <2>6 DEF Types
<1>2. Active = {}
  BY DEF Active
<1>3. FrameInv
  BY DEF FrameInv, InFrame, Published
<1>4. TaskInv
  BY <1>2 DEF TaskInv
<1>5. SlotInv /\ RecordInv
  BY DEF SlotInv, RecordInv, InFrame
<1>6. ResultsAreLabelled
  BY FS_EmptySet DEF ResultsAreLabelled
<1> QED BY <1>1, <1>3, <1>4, <1>5, <1>6 DEF IInv

---------------------------------------------------------------------------
(* The runner.                                                             *)

\* Outside the wait no task is about, and a step that leaves it so keeps what is said of them.
LEMMA NoTask ==
  ASSUME pool' = <<>>, Active' = {}, rn'.pc # "wait",
         rn'.pc \in {"clear", "publish", "push"} => bar'.remaining = NTrials
  PROVE  TaskInv'
  BY DEF TaskInv

\* The steps that only move the runner's counter along, outside of any frame.
LEMMA OutsideFrame ==
  ASSUME IInv, StartVerb \/ NothingToRoll \/ NextCandidate \/ Finish
  PROVE  IInv'
<1> USE DEF IInv
<1>1. /\ UNCHANGED <<live, liveMutex, doneCount, bar, pool, wk, pl>>
      /\ rn.pc \notin InFrame
  BY DEF StartVerb, NothingToRoll, NextCandidate, Finish, InFrame
<1>2. /\ rn' \in Runner /\ RecordInv'
      /\ rn'.pc \in {"idle", "search", "setup", "next", "finish"}
  <2>1. CASE StartVerb
    <3>1. CASE rn' = [rn EXCEPT !.pc = "search", !.verb = "candidates", !.verbs = @ + 1]
      <4>1. rn'.pc = "search" /\ rn'.verb = "candidates"
        BY <3>1 DEF Types, Runner
      <4>2. PICK v \in Nat : v = rn.verbs + 1
        BY DEF Types, Runner
      <4>3. rn' = [rn EXCEPT !.pc = "search", !.verb = "candidates", !.verbs = v]
        BY <3>1, <4>2
      <4>4. rn' \in Runner
        BY <4>3 DEF Types, Runner
      <4> QED BY <4>1, <4>4 DEF RecordInv, InFrame
    <3>2. CASE rn' = [rn EXCEPT !.pc = "setup", !.verb = "position", !.i = NoCand, !.verbs = @ + 1]
      <4>1. rn'.pc = "setup" /\ rn'.verb = "position"
        BY <3>2 DEF Types, Runner
      <4>2. PICK v \in Nat : v = rn.verbs + 1
        BY DEF Types, Runner
      <4>3. rn' = [rn EXCEPT !.pc = "setup", !.verb = "position", !.i = NoCand, !.verbs = v]
        BY <3>2, <4>2
      <4>4. NoCand \in 0..(MaxCand + 1)
        BY MaxCandAssumption DEF NoCand
      <4>5. rn' \in Runner
        BY <4>3, <4>4 DEF Types, Runner, InFrame
      <4> QED BY <4>1, <4>5 DEF RecordInv, InFrame
    <3> QED BY <2>1, <3>1, <3>2 DEF StartVerb
  <2>2. CASE NothingToRoll
    <3>1. PICK ret \in Int : rn' = [rn EXCEPT !.pc = "idle", !.ret = ret]
      <4>1. PICK ret \in {0, -1} : rn' = [rn EXCEPT !.pc = "idle", !.ret = ret]
        BY <2>2 DEF NothingToRoll
      <4>2. ret \in Int
        OBVIOUS
      <4> QED BY <4>1, <4>2
    <3>2. rn'.pc = "idle"
      BY <3>1 DEF Types, Runner
    <3>3. rn' \in Runner
      BY <3>1 DEF Types, Runner
    <3> QED BY <3>2, <3>3 DEF RecordInv, InFrame
  <2>3. CASE NextCandidate
    <3>1. rn.i \in 1..(rn.n + 1) /\ rn.n \in 0..MaxCand /\ rn.pc = "next"
      BY <2>3 DEF NextCandidate, Types, Runner, RecordInv
    <3>2. rn'.pc = "setup" => rn.i \in 1..rn.n
      BY <2>3, <3>1 DEF NextCandidate, Types, Runner
    <3>3. /\ rn' = [rn EXCEPT !.pc = rn'.pc] /\ rn'.pc \in {"setup", "finish"}
      BY <2>3 DEF NextCandidate, Types, Runner
    <3>4. rn' \in Runner /\ rn'.i = rn.i /\ rn'.n = rn.n /\ rn'.verb = rn.verb
      BY <3>3 DEF Types, Runner
    <3> QED BY <3>1, <3>2, <3>3, <3>4 DEF RecordInv, InFrame
  <2>4. CASE Finish
    <3>1. PICK ret \in Int : rn' = [rn EXCEPT !.pc = "idle", !.ret = ret]
      <4>1. rn' = [rn EXCEPT !.pc = "idle", !.ret = rn.n]
        BY <2>4 DEF Finish
      <4>2. rn.n \in Int
        BY DEF Types, Runner
      <4> QED BY <4>1, <4>2
    <3>2. rn'.pc = "idle"
      BY <3>1 DEF Types, Runner
    <3>3. rn' \in Runner
      BY <3>1 DEF Types, Runner
    <3> QED BY <3>2, <3>3 DEF RecordInv, InFrame
  <2> QED BY <2>1, <2>2, <2>3, <2>4
<1>3. /\ ro' \in State /\ ro'.mu = ro.mu /\ ro'.trialsDone = ro.trialsDone
      /\ Types'
  <2>1. CASE UNCHANGED ro
    BY <1>1, <1>2, <2>1 DEF Types
  <2>2. CASE NextCandidate /\ ro' = [ro EXCEPT !.current = rn.i]
    <3>1. rn.i \in Nat
      BY <1>1 DEF Types, Runner
    <3>2. /\ ro'.mu = ro.mu /\ ro'.trialsDone = ro.trialsDone /\ ro' \in State
      BY <2>2, <3>1 DEF Types, State
    <3> QED BY <1>1, <1>2, <3>2 DEF Types
  <2>3. CASE Finish
    <3>1. ro' = [ro EXCEPT !.active = FALSE, !.current = NoCand]
      BY <2>3 DEF Finish
    <3> QED BY <1>1, <1>2, <3>1 DEF Types, State, NoCand
  <2> QED BY <2>1, <2>2, <2>3 DEF StartVerb, NothingToRoll, NextCandidate
<1>4. FrameInv' /\ SlotInv'
  BY <1>1, <1>2 DEF FrameInv, SlotInv, InFrame, Published
<1>5. TaskInv'
  <2>1. rn.pc # "wait" /\ rn'.pc \notin {"wait", "clear", "publish", "push"}
    BY <1>1, <1>2 DEF InFrame
  <2> QED BY <1>1, <2>1, NoTask DEF TaskInv, Active
<1>6. ResultsAreLabelled'
  BY <1>3 DEF ResultsAreLabelled
<1> QED BY <1>2, <1>3, <1>4, <1>5, <1>6

\* ro_state is wiped: every result is the empty mean of no trial.
LEMMA ResetKeeps == ASSUME IInv, ResetState PROVE IInv'
<1> USE DEF IInv
<1>1. PICK n \in Cand :
         /\ rn' = [rn EXCEPT !.pc = "next", !.n = n, !.i = 1]
         /\ ro' = [active |-> TRUE, cancelled |-> FALSE, nCand |-> n, current |-> NoCand,
                   trialsDone |-> [k \in Cand |-> 0], mu |-> [k \in Cand |-> {}]]
  BY DEF ResetState
<1>2. UNCHANGED <<live, liveMutex, doneCount, bar, pool, wk, pl>> /\ rn.pc = "search"
  BY DEF ResetState
<1>3. rn'.pc = "next" /\ rn'.n = n /\ rn'.i = 1 /\ rn'.verb = rn.verb /\ n \in Nat \ {0}
      /\ rn' \in Runner
  <2>1. n \in Nat \ {0} /\ n \in 0..MaxCand /\ 1 \in 0..(MaxCand + 1)
    BY MaxCandAssumption DEF Cand
  <2>2. rn'.pc = "next" /\ rn'.n = n /\ rn'.i = 1 /\ rn'.verb = rn.verb
    BY <1>1 DEF Types, Runner
  <2>3. rn' \in Runner
    BY <1>1, <2>1 DEF Types, Runner
  <2> QED BY <2>1, <2>2, <2>3
<1>4. Types'
  <2>1. ro' \in State
    BY <1>1 DEF State, Means, Cand, NoCand
  <2> QED BY <1>2, <1>3, <2>1 DEF Types
<1>5. FrameInv' /\ SlotInv' /\ RecordInv'
  BY <1>2, <1>3 DEF FrameInv, SlotInv, RecordInv, InFrame, Published
<1>6. TaskInv'
  BY <1>2, <1>3, NoTask DEF TaskInv, Active
<1>7. ResultsAreLabelled'
  BY <1>1, FS_EmptySet DEF ResultsAreLabelled
<1> QED BY <1>4, <1>5, <1>6, <1>7

\* A new frame: nothing is finished, nobody works, and nothing is published.
LEMMA SetUpKeeps == ASSUME IInv, SetUpBarrier PROVE IInv'
<1> USE DEF IInv
<1>1. /\ UNCHANGED <<ro, live, liveMutex, doneCount, pool, wk, pl>> /\ rn.pc = "setup"
      /\ pool = <<>> /\ Active = {} /\ Active' = {} /\ live = NULL
  BY DEF SetUpBarrier, TaskInv, FrameInv, Active, Published
<1>2. CASE bar' = bar /\ rn' = [rn EXCEPT !.pc = "record", !.nDone = -1]
  <2>1. rn'.pc = "record" /\ rn'.nDone = -1 /\ rn'.i = rn.i /\ rn'.n = rn.n /\ rn'.verb = rn.verb
        /\ rn' \in Runner
    <3>1. rn'.pc = "record" /\ rn'.nDone = -1 /\ rn'.i = rn.i /\ rn'.n = rn.n /\ rn'.verb = rn.verb
      BY <1>2 DEF Types, Runner
    <3>2. PICK k \in Int : k = -1
      OBVIOUS
    <3>3. rn' = [rn EXCEPT !.pc = "record", !.nDone = k]
      BY <1>2, <3>2
    <3>4. rn' \in Runner
      BY <3>3 DEF Types, Runner
    <3> QED BY <3>1, <3>4
  <2>2. Types' /\ FrameInv' /\ SlotInv'
    BY <1>1, <1>2, <2>1 DEF Types, FrameInv, SlotInv, InFrame, Published
  <2>4. RecordInv'
    <3>1. rn'.nDone = -1
      BY <1>2 DEF Types, Runner
    <3> QED BY <1>1, <2>1, <3>1 DEF RecordInv, InFrame
  <2>3. TaskInv'
    BY <1>1, <2>1, NoTask
  <2> QED BY <1>1, <2>2, <2>3, <2>4 DEF ResultsAreLabelled
<1>3. CASE /\ bar' = [frame |-> bar.frame + 1, inScope |-> TRUE, cand |-> rn.i,
                      remaining |-> NTrials, results |-> [t \in Trial |-> NoResult],
                      completed |-> {}]
           /\ rn' = [rn EXCEPT !.pc = "clear"]
  <2>1. rn'.pc = "clear" /\ rn'.i = rn.i /\ rn'.n = rn.n /\ rn'.verb = rn.verb /\ rn' \in Runner
    BY <1>3 DEF Types, Runner, InFrame
  <2>2. bar' \in Barrier
    BY <1>3, NTrialsAssumption DEF Types, Runner, Barrier, NoResult
  <2>3. /\ bar'.inScope /\ bar'.cand = rn.i /\ bar'.remaining = NTrials /\ bar'.completed = {}
        /\ bar'.frame # NULL
    <3>1. bar.frame \in Nat
      BY DEF Types, Barrier
    <3> QED BY <1>3, <3>1 DEF NULL
  <2>4. Types' /\ FrameInv' /\ RecordInv'
    <3>1. Types'
      BY <1>1, <2>1, <2>2 DEF Types
    <3>2. FrameInv'
      BY <1>1, <2>1, <2>3 DEF FrameInv, InFrame, Published
    <3>3. RecordInv'
      BY <1>1, <2>1 DEF RecordInv, InFrame
    <3> QED BY <3>1, <3>2, <3>3
  <2>5. SlotInv'
    <3>1. \A w \in Workers : wk'[w].pc # "mark"
      BY <1>1 DEF Active
    <3> QED BY <2>1, <2>3, <3>1 DEF SlotInv
  <2>6. TaskInv'
    BY <1>1, <2>1, <2>3, NoTask
  <2> QED BY <1>1, <2>4, <2>5, <2>6 DEF ResultsAreLabelled
<1> QED BY <1>2, <1>3 DEF SetUpBarrier

\* The flag, the publication and the tasks: the same frame, and every trial becomes one task.
LEMMA InFrameKeeps == ASSUME IInv, ClearCancel \/ Publish PROVE IInv'
<1> USE DEF IInv
<1>1. PICK p \in {"publish", "push"} : rn' = [rn EXCEPT !.pc = p]
  BY DEF ClearCancel, Publish
<1>2. /\ rn'.pc = p /\ rn'.i = rn.i /\ rn'.n = rn.n /\ rn'.verb = rn.verb /\ rn' \in Runner
  BY <1>1 DEF Types, Runner, InFrame
<1>3. /\ UNCHANGED <<ro, liveMutex, bar, pool, wk, pl>> /\ rn.pc \in {"clear", "publish"}
      /\ pool = <<>> /\ Active' = {} /\ bar.remaining = NTrials /\ live = NULL
      /\ live' = IF p = "push" THEN bar.frame ELSE NULL
  <2>1. UNCHANGED <<ro, liveMutex, bar, pool, wk, pl>> /\ rn.pc \in {"clear", "publish"}
    BY DEF ClearCancel, Publish
  <2>2. pool = <<>> /\ Active = {} /\ bar.remaining = NTrials
    BY <2>1 DEF TaskInv
  <2>3. Active' = {}
    BY <2>1, <2>2 DEF Active
  <2>4. live = NULL
    BY <2>1 DEF FrameInv, Published
  <2>5. CASE ClearCancel
    <3>1. rn'.pc = "publish"
      BY <2>5 DEF ClearCancel, Types, Runner
    <3> QED BY <1>2, <2>1, <2>2, <2>3, <2>4, <2>5, <3>1 DEF ClearCancel
  <2>6. CASE Publish
    <3>1. rn'.pc = "push"
      BY <2>6 DEF Publish, Types, Runner
    <3> QED BY <1>2, <2>1, <2>2, <2>3, <2>4, <2>6, <3>1 DEF Publish
  <2> QED BY <2>5, <2>6
<1>4. Types' /\ FrameInv' /\ RecordInv'
  <2>1. Types'
    BY <1>2, <1>3 DEF ClearCancel, Publish, Types, Barrier, NULL
  <2>2. FrameInv'
    BY <1>2, <1>3 DEF FrameInv, InFrame, Published
  <2>3. RecordInv'
    BY <1>2, <1>3 DEF RecordInv, InFrame
  <2> QED BY <2>1, <2>2, <2>3
<1>5. SlotInv' /\ ResultsAreLabelled'
  BY <1>2, <1>3 DEF SlotInv, ResultsAreLabelled, InFrame
<1>6. TaskInv'
  BY <1>2, <1>3, NoTask
<1> QED BY <1>4, <1>5, <1>6

\* Every trial becomes a task, once.
LEMMA PushKeeps == ASSUME IInv, PushTasks PROVE IInv'
<1> USE DEF IInv
<1>1. rn' = [rn EXCEPT !.pc = "wait"] /\ rn.pc = "push" /\ pool' = [t \in Trial |-> t]
      /\ UNCHANGED <<ro, live, liveMutex, doneCount, bar, wk, pl>>
  BY DEF PushTasks
<1>2. /\ rn'.pc = "wait" /\ rn'.i = rn.i /\ rn'.n = rn.n /\ rn'.verb = rn.verb
      /\ rn' \in Runner
  BY <1>1 DEF Types, Runner, InFrame
<1>3. Active = {} /\ Active' = {} /\ bar.remaining = NTrials
  BY <1>1 DEF TaskInv, Active
<1>4. Types'
  <2>1. pool' \in Seq(Trial)
    BY <1>1, NTrialsAssumption DEF Trial
  <2> QED BY <1>1, <1>2, <2>1 DEF Types
<1>5. FrameInv' /\ RecordInv' /\ SlotInv' /\ ResultsAreLabelled'
  BY <1>1, <1>2 DEF FrameInv, RecordInv, SlotInv, ResultsAreLabelled, InFrame, Published
<1>6. TaskInv'
  <2>1. Todo' = Trial
    BY <1>1, <1>3 DEF Todo
  <2>2. Cardinality(Trial) = NTrials
    BY FS_Interval, NTrialsAssumption DEF Trial
  <2>3. \A i, j \in DOMAIN pool' : pool'[i] = pool'[j] => i = j
    BY <1>1
  <2> QED BY <1>1, <1>2, <1>3, <2>1, <2>2, <2>3 DEF TaskInv
<1> QED BY <1>4, <1>5, <1>6

LEMMA TodoIsFinite == Types => Todo \subseteq Trial /\ IsFiniteSet(Todo)
<1> SUFFICES ASSUME Types PROVE Todo \subseteq Trial /\ IsFiniteSet(Todo)
  OBVIOUS
<1>1. Todo \subseteq Trial
  BY DEF Types, Todo, Active, Worker
<1>2. IsFiniteSet(Trial)
  BY FS_Interval, NTrialsAssumption DEF Trial
<1> QED BY <1>1, <1>2, FS_Subset

\* Once no task remains, none is queued and nobody works; once the mutex is free, nobody
\* walks the barrier.
LEMMA WithdrawKeeps == ASSUME IInv, Withdraw PROVE IInv'
<1> USE DEF IInv
<1>1. /\ rn' = [rn EXCEPT !.pc = "aggregate"] /\ rn.pc = "wait" /\ bar.remaining = 0
      /\ live' = NULL /\ liveMutex = Free
      /\ UNCHANGED <<ro, liveMutex, doneCount, bar, pool, wk, pl>>
  BY DEF Withdraw
<1>2. /\ rn'.pc = "aggregate" /\ rn'.i = rn.i /\ rn'.n = rn.n /\ rn'.verb = rn.verb
      /\ rn' \in Runner
  BY <1>1 DEF Types, Runner, InFrame
<1>3. Todo = {}
  BY <1>1, TodoIsFinite, FS_EmptySet DEF TaskInv
<1>4. pool = <<>> /\ Active = {} /\ Active' = {}
  <2>1. Active = {}
    BY <1>3 DEF Todo
  <2>2. DOMAIN pool = {} /\ pool \in Seq(Trial)
    BY <1>3 DEF Todo, Types
  <2>3. pool = <<>>
    BY <2>2
  <2> QED BY <1>1, <2>1, <2>3 DEF Active
<1>5. Types'
  BY <1>1, <1>2 DEF Types, NULL
<1>6. FrameInv'
  BY <1>1, <1>2, FreeAssumption DEF FrameInv, InFrame, Published
<1>7. RecordInv' /\ SlotInv' /\ ResultsAreLabelled'
  BY <1>1, <1>2 DEF RecordInv, SlotInv, ResultsAreLabelled, InFrame
<1>8. TaskInv'
  BY <1>1, <1>2, <1>4, NoTask
<1> QED BY <1>5, <1>6, <1>7, <1>8

\* One term per finished trial.
LEMMA TermsCount ==
  ASSUME NEW c \in Int, NEW results, NEW S \in SUBSET Trial, \A t \in S : results[t] = c
  PROVE  /\ Terms(results, S) \subseteq {c} \X Trial
         /\ IsFiniteSet(S) /\ Cardinality(Terms(results, S)) = Cardinality(S)
<1>1. IsFiniteSet(S)
  <2>1. IsFiniteSet(Trial)
    BY FS_Interval, NTrialsAssumption DEF Trial
  <2> QED BY <2>1, FS_Subset
<1>2. Terms(results, S) = {<<c, t>> : t \in S}
  BY DEF Terms
<1> DEFINE T == {<<c, t>> : t \in S}
           f == [t \in S |-> <<c, t>>]
<1>3. f \in Bijection(S, T)
  BY DEF Bijection, Injection, Surjection, IsInjective
<1>4. ExistsBijection(S, T)
  BY <1>3 DEF ExistsBijection
<1> HIDE DEF f
<1>5. Cardinality(T) = Cardinality(S)
  BY <1>1, <1>4, FS_Bijection
<1> QED BY <1>1, <1>2, <1>5

\* The arrays are averaged and freed: the mean is of the trials finished.
LEMMA AggregateKeeps == ASSUME IInv, Aggregate PROVE IInv'
<1> USE DEF IInv
<1> DEFINE est == Terms(bar.results, bar.completed)
           done == Cardinality(bar.completed)
<1>1. /\ rn' = [rn EXCEPT !.pc = "record", !.nDone = done, !.est = est] /\ rn.pc = "aggregate"
      /\ bar' = [bar EXCEPT !.inScope = FALSE]
      /\ UNCHANGED <<ro, live, liveMutex, doneCount, pool, wk, pl>>
  BY DEF Aggregate
<1>2. /\ bar.completed \in SUBSET Trial /\ rn.i \in Int
      /\ \A t \in bar.completed : bar.results[t] = rn.i
  BY <1>1 DEF Types, Barrier, Runner, SlotInv, InFrame
<1>3. est \subseteq {rn.i} \X Trial /\ done = Cardinality(est) /\ IsFiniteSet(bar.completed)
  BY <1>2, TermsCount
<1>4. done \in Int /\ est \in Means
  BY <1>2, <1>3, FS_CardinalityType DEF Means
<1> HIDE DEF est, done
<1>5. rn' \in Runner
  BY <1>1, <1>4 DEF Types, Runner
<1>6. /\ rn'.pc = "record" /\ rn'.i = rn.i /\ rn'.n = rn.n /\ rn'.verb = rn.verb
      /\ rn'.est = est /\ rn'.nDone = done
  BY <1>1 DEF Types, Runner
<1>7. /\ bar' \in Barrier /\ ~bar'.inScope /\ bar'.frame = bar.frame /\ bar'.cand = bar.cand
      /\ bar'.results = bar.results /\ bar'.completed = bar.completed
  BY <1>1 DEF Types, Barrier
<1>8. Types' /\ FrameInv'
  BY <1>1, <1>5, <1>6, <1>7 DEF Types, FrameInv, InFrame, Published
<1>9. RecordInv'
  BY <1>1, <1>3, <1>6 DEF RecordInv, InFrame
<1>10. SlotInv' /\ ResultsAreLabelled'
  BY <1>1, <1>6, <1>7 DEF SlotInv, ResultsAreLabelled, InFrame
<1>11. TaskInv'
  BY <1>1, <1>6, NoTask DEF TaskInv, Active
<1> QED BY <1>8, <1>9, <1>10, <1>11

\* The candidate's result is stored with the number of trials it averages.
LEMMA RecordKeeps == ASSUME IInv, Record PROVE IInv'
<1> USE DEF IInv
<1>1. UNCHANGED <<live, liveMutex, doneCount, bar, pool, wk, pl>> /\ rn.pc = "record"
  BY DEF Record
<1>2. Active' = {} /\ pool = <<>>
  BY <1>1 DEF TaskInv, Active
<1>3. CASE rn.verb = "position"
  <2>1. PICK ret \in Int : rn' = [rn EXCEPT !.pc = "idle", !.est = {}, !.ret = ret]
    <3>1. rn' = [rn EXCEPT !.pc = "idle", !.est = {}, !.ret = IF rn.nDone <= 0 THEN -1 ELSE 14]
      BY <1>3 DEF Record
    <3>2. (IF rn.nDone <= 0 THEN -1 ELSE 14) \in Int
      OBVIOUS
    <3> QED BY <3>1, <3>2
  <2>2. rn'.pc = "idle"
    BY <2>1 DEF Types, Runner
  <2>3. rn' \in Runner
    <3>1. {} \in Means
      BY DEF Means
    <3> QED BY <2>1, <3>1 DEF Types, Runner
  <2>4. ro' = ro
    BY <1>3 DEF Record
  <2>5. Types' /\ ResultsAreLabelled'
    BY <1>1, <2>3, <2>4 DEF Types, ResultsAreLabelled
  <2>6. FrameInv' /\ SlotInv' /\ RecordInv'
    BY <1>1, <2>2 DEF FrameInv, SlotInv, RecordInv, InFrame, Published
  <2>7. TaskInv'
    BY <1>1, <1>2, <2>2, NoTask
  <2> QED BY <2>5, <2>6, <2>7
<1>4. CASE rn.verb # "position"
  <2>1. rn.i \in 1..rn.n /\ rn.i \in Cand /\ rn.n \in 0..MaxCand /\ rn.nDone \in Int
        /\ rn.est \in Means /\ rn.verb \in {"none", "candidates"}
    <3>1. rn.i \in 1..rn.n
      BY <1>1, <1>4 DEF RecordInv
    <3>2. rn.n \in 0..MaxCand /\ rn.nDone \in Int /\ rn.est \in Means
      BY DEF Types, Runner
    <3>3. rn.i \in Cand
      BY <3>1, <3>2, MaxCandAssumption DEF Cand
    <3> QED BY <1>4, <3>1, <3>2, <3>3 DEF Types, Runner
  <2> DEFINE d == IF rn.nDone > 0 THEN rn.nDone ELSE ro.trialsDone[rn.i]
             m == IF rn.nDone > 0 THEN rn.est ELSE ro.mu[rn.i]
  <2>2. d \in Int /\ m \in Means
    BY <2>1 DEF Types, State
  <2>3. /\ m \subseteq {rn.i} \X Trial
        /\ d = Cardinality(m)
    BY <1>1, <2>1 DEF RecordInv, ResultsAreLabelled
  <2>4. ro' = [ro EXCEPT !.current = NoCand, !.trialsDone[rn.i] = d, !.mu[rn.i] = m,
                         !.cancelled = @ \/ rn.nDone < NTrials]
    BY <1>4 DEF Record
  <2> HIDE DEF d, m
  <2>5. /\ ro'.trialsDone = [ro.trialsDone EXCEPT ![rn.i] = d]
        /\ ro'.mu = [ro.mu EXCEPT ![rn.i] = m]
    BY <2>4 DEF Types, State
  <2>6. ro' \in State
    <3> DEFINE c == ro.cancelled \/ rn.nDone < NTrials
               td == [ro.trialsDone EXCEPT ![rn.i] = d]
               mu == [ro.mu EXCEPT ![rn.i] = m]
    <3>1. ro' = [ro EXCEPT !.current = NoCand, !.trialsDone = td, !.mu = mu, !.cancelled = c]
      BY <2>4
    <3>2. c \in BOOLEAN /\ NoCand \in Nat
      BY DEF NoCand
    <3>3. td \in [Cand -> Int] /\ mu \in [Cand -> Means]
      BY <2>1, <2>2 DEF Types, State
    <3> HIDE DEF c, td, mu
    <3> QED BY <3>1, <3>2, <3>3 DEF Types, State
  <2>7. ResultsAreLabelled'
    <3> SUFFICES ASSUME NEW k \in Cand
                 PROVE  ro'.mu[k] \subseteq {k} \X Trial /\ ro'.trialsDone[k] = Cardinality(ro'.mu[k])
      BY DEF ResultsAreLabelled
    <3>1. CASE k = rn.i
      <4>1. ro'.mu[k] = m /\ ro'.trialsDone[k] = d
        BY <2>1, <2>5, <3>1 DEF Types, State
      <4> QED BY <2>3, <3>1, <4>1
    <3>2. CASE k # rn.i
      <4>1. ro'.mu[k] = ro.mu[k] /\ ro'.trialsDone[k] = ro.trialsDone[k]
        BY <2>1, <2>5, <3>2 DEF Types, State
      <4> QED BY <4>1 DEF ResultsAreLabelled
    <3> QED BY <3>1, <3>2
  <2>8. /\ rn' \in Runner /\ rn'.pc \in {"next", "finish"}
        /\ rn'.pc = "next" => rn'.i = rn.i + 1 /\ rn'.n = rn.n
        /\ rn'.verb = rn.verb
    <3>1. {} \in Means
      BY DEF Means
    <3>2. CASE rn' = [rn EXCEPT !.pc = "finish", !.est = {}]
      BY <3>1, <3>2 DEF Types, Runner
    <3>3. CASE rn' = [rn EXCEPT !.pc = "next", !.i = @ + 1, !.est = {}]
      <4>1. PICK j \in 0..(MaxCand + 1) : j = rn.i + 1
        BY <2>1, MaxCandAssumption
      <4>2. rn' = [rn EXCEPT !.pc = "next", !.i = j, !.est = {}]
        BY <3>3, <4>1
      <4> QED BY <3>1, <4>1, <4>2 DEF Types, Runner
    <3> QED BY <1>4, <3>2, <3>3 DEF Record
  <2>9. Types' /\ FrameInv' /\ SlotInv'
    BY <1>1, <2>6, <2>8 DEF Types, FrameInv, SlotInv, InFrame, Published
  <2>10. RecordInv'
    <3>1. rn'.pc = "next" => rn'.i \in 1..(rn'.n + 1)
      BY <2>1, <2>8
    <3>2. rn'.verb = "candidates"
      BY <1>1, <2>1, <2>8 DEF RecordInv
    <3> QED BY <2>8, <3>1, <3>2 DEF RecordInv, InFrame
  <2>11. TaskInv'
    BY <1>1, <1>2, <2>8, NoTask
  <2> QED BY <2>7, <2>9, <2>10, <2>11
<1> QED BY <1>3, <1>4

---------------------------------------------------------------------------
(* The workers.                                                            *)

\* Within a task a worker stays at its trial, and the barrier waits for it as before.
LEMMA SameTasks ==
  ASSUME IInv, UNCHANGED <<rn, pool>>, bar'.remaining = bar.remaining, bar'.frame = bar.frame,
         NEW w \in Workers, NEW p \in {"roll", "mark", "count", "finish"},
         wk[w].pc # "idle", wk' = [wk EXCEPT ![w].pc = p]
  PROVE  /\ TaskInv'
         /\ wk' \in [Workers -> Worker] /\ wk'[w].pc = p /\ wk'[w].t = wk[w].t
         /\ \A v \in Workers : v # w => wk'[v] = wk[v]
<1> USE DEF IInv
<1>1. /\ wk' \in [Workers -> Worker] /\ wk'[w].pc = p /\ wk'[w].t = wk[w].t
      /\ wk'[w].frame = wk[w].frame
      /\ \A v \in Workers : v # w => wk'[v] = wk[v]
  BY DEF Types, Worker
<1>2. Active' = Active /\ \A v \in Workers : wk'[v].t = wk[v].t /\ wk'[v].frame = wk[v].frame
  BY <1>1 DEF Active
<1>3. Active \subseteq Workers
  BY DEF Active
<1>4. Todo' = Todo
  BY <1>2, <1>3 DEF Todo
<1>5. TaskInv'
  BY <1>2, <1>3, <1>4 DEF TaskInv
<1> QED BY <1>1, <1>5

\* A worker at work is at work for the frame the runner waits in.
LEMMA WorkersInFrame ==
  ASSUME IInv, NEW w \in Workers, wk[w].pc # "idle"
  PROVE  rn.pc = "wait" /\ bar.inScope /\ wk[w].frame = bar.frame /\ bar.cand = rn.i
  BY DEF IInv, TaskInv, FrameInv, SlotInv, Active, InFrame

LEMMA TakeTaskKeeps == ASSUME IInv, NEW w \in Workers, TakeTask(w) PROVE IInv'
<1> USE DEF IInv
<1> DEFINE t == Head(pool)
<1>1. /\ pool # <<>> /\ pool' = Tail(pool) /\ wk[w].pc = "idle"
      /\ UNCHANGED <<rn, ro, live, liveMutex, doneCount, bar, pl>>
  BY DEF TakeTask
<1>2. rn.pc = "wait" /\ live = bar.frame /\ live # NULL
  BY <1>1 DEF TaskInv, FrameInv, Published
<1>3. /\ pool \in Seq(Trial) /\ Len(pool) \in Nat \ {0} /\ t = pool[1] /\ t \in Trial
      /\ pool' \in Seq(Trial) /\ Len(pool') = Len(pool) - 1
      /\ \A i \in 1..Len(pool') : pool'[i] = pool[i + 1]
      /\ DOMAIN pool = 1..Len(pool) /\ DOMAIN pool' = 1..Len(pool')
  BY <1>1 DEF Types
<1> HIDE DEF t
<1>4. wk' = [wk EXCEPT ![w] = [pc |-> "check", t |-> t, frame |-> live]]
  BY <1>2 DEF TakeTask, t
<1>5. /\ wk' \in [Workers -> Worker]
      /\ wk'[w].pc = "check" /\ wk'[w].t = t /\ wk'[w].frame = bar.frame
      /\ \A v \in Workers : v # w => wk'[v] = wk[v]
  BY <1>2, <1>3, <1>4 DEF Types, Worker
<1>6. Active' = Active \cup {w} /\ w \notin Active /\ Active \subseteq Workers
  BY <1>1, <1>5 DEF Active
<1>7. Todo' = Todo
  <2>1. {wk'[v].t : v \in Active'} = {wk[v].t : v \in Active} \cup {t}
    BY <1>5, <1>6
  <2>2. {pool[i] : i \in DOMAIN pool} = {pool'[i] : i \in DOMAIN pool'} \cup {t}
    <3>1. ASSUME NEW i \in DOMAIN pool PROVE pool[i] \in {pool'[j] : j \in DOMAIN pool'} \cup {t}
      <4>1. CASE i = 1
        BY <1>3, <4>1
      <4>2. CASE i # 1
        <5>1. i - 1 \in DOMAIN pool' /\ pool'[i - 1] = pool[i]
          BY <1>3, <4>2
        <5> QED BY <5>1
      <4> QED BY <4>1, <4>2
    <3>2. ASSUME NEW i \in DOMAIN pool' PROVE pool'[i] \in {pool[j] : j \in DOMAIN pool}
      <4>1. i + 1 \in DOMAIN pool /\ pool'[i] = pool[i + 1]
        BY <1>3
      <4> QED BY <4>1
    <3>3. t \in {pool[j] : j \in DOMAIN pool}
      BY <1>3
    <3> QED BY <3>1, <3>2, <3>3
  <2> QED BY <2>1, <2>2 DEF Todo
<1>8. TaskInv'
  <2>1. \A i, j \in DOMAIN pool' : pool'[i] = pool'[j] => i = j
    <3> SUFFICES ASSUME NEW i \in DOMAIN pool', NEW j \in DOMAIN pool', pool'[i] = pool'[j]
                 PROVE  i = j
      OBVIOUS
    <3>1. /\ i + 1 \in DOMAIN pool /\ j + 1 \in DOMAIN pool /\ pool[i + 1] = pool[j + 1]
          /\ i \in Nat /\ j \in Nat
      BY <1>3
    <3>2. i + 1 = j + 1
      BY <3>1 DEF TaskInv
    <3> QED BY <3>1, <3>2
  <2>2. \A i \in DOMAIN pool' : i + 1 \in DOMAIN pool /\ i + 1 # 1 /\ pool'[i] = pool[i + 1]
    BY <1>3
  <2>3. 1 \in DOMAIN pool /\ pool[1] = t
    BY <1>3
  <2>4. \A v \in Active : wk[v].t # t
    BY <2>3 DEF TaskInv
  <2>5. \A i \in DOMAIN pool' : pool'[i] # t
    BY <2>2, <2>3 DEF TaskInv
  <2>6. \A v, u \in Active' : wk'[v].t = wk'[u].t => v = u
    BY <1>5, <1>6, <2>4 DEF TaskInv
  <2>7. \A v \in Active' : wk'[v].frame = bar.frame /\ \A i \in DOMAIN pool' : pool'[i] # wk'[v].t
    BY <1>5, <1>6, <2>2, <2>5 DEF TaskInv
  <2> QED BY <1>1, <1>2, <1>7, <2>1, <2>6, <2>7 DEF TaskInv
<1>9. SlotInv'
  BY <1>1, <1>5 DEF SlotInv
<1>10. Types' /\ FrameInv' /\ RecordInv' /\ ResultsAreLabelled'
  BY <1>1, <1>3, <1>5 DEF Types, FrameInv, RecordInv, ResultsAreLabelled
<1> QED BY <1>8, <1>9, <1>10

\* A worker's steps between taking a task and finishing it: a slot it writes holds the
\* candidate's trial before it is marked.
LEMMA TaskKeeps ==
  ASSUME IInv, NEW w \in Workers,
         CheckCancel(w) \/ StoreResult(w) \/ MarkCompleted(w) \/ CountDone(w)
  PROVE  IInv'
<1> USE DEF IInv
<1>1. PICK p \in {"roll", "mark", "count", "finish"} : wk' = [wk EXCEPT ![w].pc = p]
  BY DEF CheckCancel, StoreResult, MarkCompleted, CountDone
<1>2. UNCHANGED <<rn, ro, live, liveMutex, pool, pl>> /\ wk[w].pc # "idle" /\ wk[w].t \in Trial
  BY DEF CheckCancel, StoreResult, MarkCompleted, CountDone, Types, Worker
<1>3. /\ bar' \in Barrier /\ bar'.frame = bar.frame /\ bar'.inScope = bar.inScope
      /\ bar'.remaining = bar.remaining /\ bar'.cand = bar.cand
      /\ doneCount' \in Nat
  <2>1. CASE UNCHANGED <<bar, doneCount>>
    BY <2>1 DEF Types
  <2>2. CASE bar' = [bar EXCEPT !.results[wk[w].t] = bar.cand] /\ doneCount' = doneCount
    <3>1. [bar.results EXCEPT ![wk[w].t] = bar.cand] \in [Trial -> Int]
      BY <1>2 DEF Types, Barrier
    <3> QED BY <2>2, <3>1 DEF Types, Barrier
  <2>3. CASE bar' = [bar EXCEPT !.completed = @ \cup {wk[w].t}] /\ doneCount' = doneCount
    <3>1. bar.completed \cup {wk[w].t} \in SUBSET Trial
      BY <1>2 DEF Types, Barrier
    <3> QED BY <2>3, <3>1 DEF Types, Barrier
  <2>4. CASE bar' = bar /\ doneCount' = doneCount + 1
    BY <2>4 DEF Types
  <2> QED BY <2>1, <2>2, <2>3, <2>4 DEF CheckCancel, StoreResult, MarkCompleted, CountDone
<1>4. /\ TaskInv' /\ wk' \in [Workers -> Worker] /\ wk'[w].pc = p /\ wk'[w].t = wk[w].t
      /\ \A v \in Workers : v # w => wk'[v] = wk[v]
  BY <1>1, <1>2, <1>3, SameTasks
<1>5. Types' /\ FrameInv' /\ RecordInv' /\ ResultsAreLabelled'
  BY <1>2, <1>3, <1>4 DEF Types, FrameInv, RecordInv, ResultsAreLabelled
<1>6. SlotInv'
  <2>1. \A t \in Trial : bar'.results[t] = bar.results[t] \/ bar'.results[t] = bar.cand
    <3>1. CASE bar'.results = bar.results
      BY <3>1
    <3>2. CASE bar' = [bar EXCEPT !.results[wk[w].t] = bar.cand]
      BY <1>2, <3>2 DEF Types, Barrier
    <3>3. bar'.results = bar.results \/ bar' = [bar EXCEPT !.results[wk[w].t] = bar.cand]
      BY DEF CheckCancel, StoreResult, MarkCompleted, CountDone, Types, Barrier
    <3> QED BY <3>1, <3>2, <3>3
  <2>2. p = "mark" => bar'.results[wk[w].t] = bar.cand
    <3>1. p = "mark" => StoreResult(w)
      BY <1>1, <1>4 DEF CheckCancel, StoreResult, MarkCompleted, CountDone, Types, Worker
    <3>2. StoreResult(w) => bar'.results[wk[w].t] = bar.cand
      BY <1>2 DEF StoreResult, Types, Barrier
    <3> QED BY <3>1, <3>2
  <2>3. \A t \in bar'.completed : t \in bar.completed \/ bar.results[t] = bar.cand
    <3>1. CASE MarkCompleted(w)
      <4>1. bar'.completed = bar.completed \cup {wk[w].t} /\ wk[w].pc = "mark"
        BY <3>1 DEF MarkCompleted, Types, Barrier
      <4> QED BY <4>1 DEF SlotInv
    <3>2. CASE ~MarkCompleted(w)
      BY <3>2 DEF CheckCancel, StoreResult, CountDone, Types, Barrier
    <3> QED BY <3>1, <3>2
  <2>4. \A t \in bar'.completed : bar'.results[t] = bar.cand
    <3>1. bar'.completed \subseteq Trial
      BY <1>3 DEF Barrier
    <3> QED BY <2>1, <2>3, <3>1 DEF SlotInv
  <2>5. \A v \in Workers : wk'[v].pc = "mark" => bar'.results[wk'[v].t] = bar.cand
    <3>1. \A v \in Workers : wk[v].t \in Trial
      BY DEF Types, Worker
    <3> QED BY <1>4, <2>1, <2>2, <3>1 DEF SlotInv
  <2> QED BY <1>2, <1>3, <2>4, <2>5 DEF SlotInv
<1> QED BY <1>4, <1>5, <1>6

\* A finished task is one the barrier waits for no longer.
LEMMA FinishTaskKeeps == ASSUME IInv, NEW w \in Workers, FinishTask(w) PROVE IInv'
<1> USE DEF IInv
<1>1. /\ wk[w].pc = "finish" /\ bar' = [bar EXCEPT !.remaining = @ - 1]
      /\ wk' = [wk EXCEPT ![w].pc = "idle", ![w].frame = NULL]
      /\ UNCHANGED <<rn, ro, live, liveMutex, doneCount, pool, pl>>
  BY DEF FinishTask
<1>2. rn.pc = "wait"
  BY <1>1, WorkersInFrame
<1>3. /\ wk'[w].pc = "idle" /\ \A v \in Workers : v # w => wk'[v] = wk[v]
      /\ wk' \in [Workers -> Worker]
  BY <1>1 DEF Types, Worker, NULL
<1>4. /\ Active' = Active \ {w} /\ w \in Active /\ Active \subseteq Workers
  BY <1>1, <1>3 DEF Active
<1>5. /\ bar'.remaining = bar.remaining - 1 /\ bar'.frame = bar.frame /\ bar'.cand = bar.cand
      /\ bar'.inScope = bar.inScope /\ bar'.results = bar.results
      /\ bar'.completed = bar.completed /\ bar' \in Barrier
  <2>1. PICK k \in Int : k = bar.remaining - 1
    BY DEF Types, Barrier
  <2>2. bar' = [bar EXCEPT !.remaining = k]
    BY <1>1, <2>1
  <2> QED BY <2>1, <2>2 DEF Types, Barrier
<1>6. Todo' = Todo \ {wk[w].t} /\ wk[w].t \in Todo
  BY <1>1, <1>3, <1>4 DEF Todo, TaskInv
<1>7. Cardinality(Todo') = Cardinality(Todo) - 1
  BY <1>6, TodoIsFinite, FS_RemoveElement
<1>8. TaskInv'
  BY <1>1, <1>2, <1>3, <1>4, <1>5, <1>7 DEF TaskInv
<1>9. SlotInv'
  BY <1>1, <1>3, <1>5 DEF SlotInv
<1>10. Types' /\ FrameInv' /\ RecordInv' /\ ResultsAreLabelled'
  BY <1>1, <1>3, <1>5 DEF Types, FrameInv, RecordInv, ResultsAreLabelled
<1> QED BY <1>8, <1>9, <1>10

---------------------------------------------------------------------------
(* The pollers and the user.                                               *)

\* What a poller reads is of no consequence to the rollout; that it holds the mutex while
\* it walks is.
LEMMA PollerKeeps == ASSUME IInv, NEW p \in Pollers, PollerStep(p) PROVE IInv'
<1> USE DEF IInv
<1>1. /\ UNCHANGED <<rn, ro, live, doneCount, bar, pool, wk>>
      /\ pl[p] \in Poller /\ Terms(bar.results, bar.completed) \in Means
  BY DEF PollerStep, PollLive, PollTrial, CopyState, Types, Barrier, Terms, Means
<1>2. /\ pl' \in [Pollers -> Poller] /\ \A q \in Pollers : q # p => pl'[q] = pl[q]
      /\ liveMutex' \in {liveMutex, p, Free}
      /\ pl'[p].pc = "walk" => liveMutex' = p /\ live # NULL
      /\ liveMutex' # liveMutex => liveMutex \in {Free, p}
  <2>1. CASE PollLive(p)
    <3>1. CASE live = NULL
      <4>1. pl' = [pl EXCEPT ![p] = [pl[p] EXCEPT !.pc = "copy", !.haveLive = FALSE]]
        BY <2>1, <3>1, <1>1 DEF PollLive, Types, Poller
      <4> QED BY <2>1, <3>1, <1>1, <4>1 DEF PollLive, Types, Poller
    <3>2. CASE live # NULL
      <4>1. pl' = [pl EXCEPT ![p] = [pl[p] EXCEPT !.pc = "walk", !.haveLive = TRUE,
                                                  !.done = doneCount]]
        BY <2>1, <3>2, <1>1 DEF PollLive, Types, Poller
      <4>2. doneCount \in Nat /\ liveMutex' = p /\ liveMutex = Free
        BY <2>1, <3>2 DEF PollLive, Types
      <4> QED BY <2>1, <3>2, <1>1, <4>1, <4>2 DEF Types, Poller
    <3> QED BY <3>1, <3>2
  <2>2. CASE PollTrial(p)
    <3> DEFINE t == pl[p].next
               last == t = NTrials
               add == pl[p].acc \cup Terms(bar.results, bar.completed \cap {t})
               k == IF last THEN 1 ELSE t + 1
               pc == IF last THEN "copy" ELSE "walk"
    <3>1. /\ pl' = [pl EXCEPT ![p] = [pl[p] EXCEPT !.pc = pc, !.next = k, !.acc = add]]
          /\ liveMutex' = IF last THEN Free ELSE liveMutex
          /\ pl[p].pc = "walk" /\ liveMutex = p /\ live # NULL
      BY <2>2, <1>1 DEF PollTrial, FrameInv, Types, Poller
    <3>2. add \in Means
      BY <1>1 DEF Terms, Means, Poller
    <3>3. k \in Trial
      BY <1>1, NTrialsAssumption DEF Trial, Poller
    <3>4. pc \in {"copy", "walk"} /\ (pc = "walk" => ~last)
      OBVIOUS
    <3> HIDE DEF add, k, pc, last
    <3>5. pl'[p].pc = pc /\ pl' \in [Pollers -> Poller]
      BY <1>1, <3>1, <3>2, <3>3, <3>4 DEF Types, Poller
    <3> QED BY <3>1, <3>4, <3>5 DEF Types
  <2>3. CASE CopyState(p)
    <3> DEFINE shown == IF pl[p].haveLive /\ ro.current # NoCand
                          THEN [k |-> ro.current, est |-> pl[p].acc]
                          ELSE [k |-> NoCand, est |-> {}]
               n == [pc |-> "idle", haveLive |-> FALSE, done |-> 0, next |-> 1, acc |-> {},
                     shown |-> shown]
    <3>1. pl' = [pl EXCEPT ![p] = n] /\ liveMutex' = liveMutex
      BY <2>3 DEF CopyState
    <3>2. ro.current \in Nat /\ pl[p].acc \in Means /\ {} \in Means /\ NoCand \in Nat
      BY <1>1 DEF Types, State, Poller, Means, NoCand
    <3>3. shown \in [k : Nat, est : Means]
      BY <3>2
    <3> HIDE DEF shown
    <3>4. 1 \in Trial /\ 0 \in Nat
      BY NTrialsAssumption DEF Trial
    <3>5. n \in Poller /\ n.pc = "idle"
      BY <3>2, <3>3, <3>4 DEF Poller
    <3> HIDE DEF n
    <3> QED BY <3>1, <3>5 DEF Types
  <2> QED BY <2>1, <2>2, <2>3 DEF PollerStep
<1>3. Types'
  BY <1>1, <1>2 DEF Types
<1>4. FrameInv'
  <2> SUFFICES ASSUME NEW q \in Pollers, pl'[q].pc = "walk" PROVE liveMutex' = q /\ live # NULL
    BY <1>1 DEF FrameInv
  <2>1. CASE q = p
    BY <1>2, <2>1
  <2>2. CASE q # p
    BY <1>2, <2>2, FreeAssumption DEF FrameInv
  <2> QED BY <2>1, <2>2
<1>5. TaskInv' /\ SlotInv' /\ RecordInv' /\ ResultsAreLabelled'
  BY <1>1 DEF TaskInv, SlotInv, RecordInv, ResultsAreLabelled, Active, Todo
<1> QED BY <1>3, <1>4, <1>5

\* A cancel leaves results, barrier and tasks alone.
LEMMA CancelKeeps == ASSUME IInv, CancelState \/ CancelFlag \/ UNCHANGED vars PROVE IInv'
<1> USE DEF IInv
<1>1. UNCHANGED <<rn, live, liveMutex, doneCount, bar, pool, wk, pl>>
  BY DEF CancelState, CancelFlag, vars
<1>2. ro' \in State /\ ro'.mu = ro.mu /\ ro'.trialsDone = ro.trialsDone
  BY DEF CancelState, CancelFlag, vars, Types, State
<1>3. Types' /\ FrameInv' /\ RecordInv'
  BY <1>1, <1>2 DEF Types, FrameInv, RecordInv
<1>4. TaskInv' /\ SlotInv'
  BY <1>1 DEF TaskInv, SlotInv, Active, Todo
<1>5. ResultsAreLabelled'
  BY <1>2 DEF ResultsAreLabelled
<1> QED BY <1>3, <1>4, <1>5

LEMMA StepKeepsIInv == IInv /\ [Next]_vars => IInv'
<1> SUFFICES ASSUME IInv, [Next]_vars PROVE IInv'
  OBVIOUS
<1>1. CASE RunnerStep
  BY <1>1, OutsideFrame, ResetKeeps, SetUpKeeps, InFrameKeeps, PushKeeps, WithdrawKeeps,
     AggregateKeeps, RecordKeeps DEF RunnerStep
<1>2. CASE UserStep \/ UNCHANGED vars
  BY <1>2, OutsideFrame, CancelKeeps DEF UserStep
<1>3. ASSUME NEW w \in Workers, WorkerStep(w) PROVE IInv'
  BY <1>3, TakeTaskKeeps, TaskKeeps, FinishTaskKeeps DEF WorkerStep
<1>4. ASSUME NEW p \in Pollers, PollerStep(p) PROVE IInv'
  BY <1>4, PollerKeeps
<1> QED BY <1>1, <1>2, <1>3, <1>4 DEF Next

LEMMA Invariance == Spec => []IInv
  BY InitIInv, StepKeepsIInv, PTL DEF Spec

---------------------------------------------------------------------------
(* What a poll reports.                                                    *)

\* Marked by a worker that has not counted it yet.
Uncounted == {wk[w].t : w \in {v \in Workers : wk[v].pc = "count"}}

\* The count of finished trials is of trials whose slots are finished.
CountInv ==
    /\ rn.pc \in {"clear", "publish", "push"} => bar.completed = {}
    /\ rn.pc = "push" => doneCount = 0
    /\ rn.pc = "wait" => doneCount = Cardinality(bar.completed \ Uncounted)
    /\ \A w \in Workers :
         /\ wk[w].pc \in {"check", "roll", "mark"} => wk[w].t \notin bar.completed
         /\ wk[w].pc = "count" => wk[w].t \in bar.completed
    /\ rn.pc = "wait" => \A i \in DOMAIN pool : pool[i] \notin bar.completed

LEMMA TrialsAreFinite == ASSUME NEW S \in SUBSET Trial PROVE IsFiniteSet(S)
<1>1. IsFiniteSet(Trial)
  BY FS_Interval, NTrialsAssumption DEF Trial
<1> QED BY <1>1, FS_Subset

\* A trial is marked as finished before it is counted, and counted once.
LEMMA CountTask ==
  ASSUME IInv, IInv', CountInv, NEW w \in Workers, WorkerStep(w)
  PROVE  CountInv'
<1> USE DEF IInv
<1> DEFINE t == wk[w].t
<1>0. rn' = rn /\ wk \in [Workers -> Worker] /\ bar \in Barrier
  BY DEF WorkerStep, TakeTask, CheckCancel, StoreResult, MarkCompleted, CountDone, FinishTask,
         Types
<1>1. rn.pc = "wait"
  <2>1. CASE TakeTask(w)
    BY <2>1 DEF TakeTask, TaskInv
  <2>2. CASE ~TakeTask(w)
    <3>1. wk[w].pc # "idle"
      BY <2>2 DEF WorkerStep, CheckCancel, StoreResult, MarkCompleted, CountDone, FinishTask
    <3> QED BY <3>1, WorkersInFrame
  <2> QED BY <2>1, <2>2
<1>2. SUFFICES /\ doneCount' = Cardinality(bar'.completed \ Uncounted')
               /\ \A v \in Workers :
                    /\ wk'[v].pc \in {"check", "roll", "mark"} => wk'[v].t \notin bar'.completed
                    /\ wk'[v].pc = "count" => wk'[v].t \in bar'.completed
               /\ \A i \in DOMAIN pool' : pool'[i] \notin bar'.completed
  BY <1>0, <1>1 DEF CountInv
<1>3. CASE TakeTask(w)
  <2>1. /\ bar' = bar /\ doneCount' = doneCount /\ pool # <<>> /\ pool' = Tail(pool)
        /\ \A v \in Workers : v # w => wk'[v] = wk[v]
        /\ wk[w].pc = "idle" /\ wk'[w].pc \in {"idle", "check"} /\ wk'[w].t = Head(pool)
    BY <1>0, <1>3 DEF TakeTask
  <2>2. Uncounted' = Uncounted
    BY <2>1 DEF Uncounted
  <2>3. /\ Head(pool) \notin bar.completed
        /\ \A i \in DOMAIN pool' : pool'[i] \notin bar.completed
    <3>1. /\ pool \in Seq(Trial) /\ Len(pool) \in Nat \ {0} /\ Head(pool) = pool[1]
          /\ 1 \in DOMAIN pool
          /\ \A i \in DOMAIN pool' : i + 1 \in DOMAIN pool /\ pool'[i] = pool[i + 1]
      BY <2>1 DEF Types
    <3> QED BY <1>1, <3>1 DEF CountInv
  <2> QED BY <1>1, <2>1, <2>2, <2>3 DEF CountInv
<1>4. CASE CheckCancel(w) \/ StoreResult(w) \/ FinishTask(w)
  <2>1. /\ bar'.completed = bar.completed /\ doneCount' = doneCount /\ pool' = pool
        /\ \A v \in Workers : v # w => wk'[v] = wk[v]
        /\ wk'[w].t = wk[w].t
        /\ wk[w].pc \in {"check", "roll", "finish"}
        /\ wk'[w].pc \in {"roll", "mark", "finish", "idle"}
        /\ wk'[w].pc \in {"roll", "mark"} => wk[w].pc \in {"check", "roll"}
    BY <1>0, <1>4 DEF CheckCancel, StoreResult, FinishTask, Worker, Barrier
  <2>2. Uncounted' = Uncounted
    BY <2>1 DEF Uncounted
  <2> QED BY <1>1, <2>1, <2>2 DEF CountInv
<1>5. CASE MarkCompleted(w)
  <2>1. /\ bar'.completed = bar.completed \cup {t} /\ doneCount' = doneCount /\ pool' = pool
        /\ \A v \in Workers : v # w => wk'[v] = wk[v]
        /\ wk'[w].t = t /\ wk[w].pc = "mark" /\ wk'[w].pc = "count"
    BY <1>0, <1>5 DEF MarkCompleted, Worker, Barrier
  <2>2. Uncounted' = Uncounted \cup {t}
    BY <2>1 DEF Uncounted
  <2>3. t \notin bar.completed
    BY <2>1 DEF CountInv
  <2>4. bar'.completed \ Uncounted' = bar.completed \ Uncounted
    BY <2>1, <2>2, <2>3
  <2>5. /\ \A v \in Workers : v # w /\ wk[v].pc # "idle" => wk[v].t # t
        /\ \A i \in DOMAIN pool : pool[i] # t
    BY <2>1 DEF TaskInv, Active
  <2> QED BY <1>1, <2>1, <2>4, <2>5 DEF CountInv
<1>6. CASE CountDone(w)
  <2>1. /\ bar' = bar /\ doneCount' = doneCount + 1 /\ pool' = pool
        /\ \A v \in Workers : v # w => wk'[v] = wk[v]
        /\ wk'[w].t = t /\ wk[w].pc = "count" /\ wk'[w].pc = "finish"
    BY <1>0, <1>6 DEF CountDone, Worker
  <2>2. \A v \in Workers : v # w /\ wk[v].pc # "idle" => wk[v].t # t
    BY <2>1 DEF TaskInv, Active
  <2>3. Uncounted' = Uncounted \ {t} /\ t \in Uncounted
    BY <2>1, <2>2 DEF Uncounted
  <2>4. t \in bar.completed
    BY <2>1 DEF CountInv
  <2> DEFINE C == bar.completed \ Uncounted
  <2>5. bar'.completed \ Uncounted' = C \cup {t} /\ t \notin C
    BY <2>1, <2>3, <2>4
  <2>6. IsFiniteSet(C)
    BY <1>0, TrialsAreFinite DEF Barrier
  <2>7. doneCount = Cardinality(C)
    BY <1>1 DEF CountInv
  <2> HIDE DEF C
  <2>8. Cardinality(C \cup {t}) = Cardinality(C) + 1
    BY <2>5, <2>6, FS_AddElement
  <2> QED BY <1>1, <2>1, <2>5, <2>7, <2>8 DEF CountInv
<1> QED BY <1>3, <1>4, <1>5, <1>6 DEF WorkerStep

\* Outside of the wait nothing is finished that is not of an earlier frame.
LEMMA CountStep == ASSUME IInv, IInv', CountInv, [Next]_vars PROVE CountInv'
<1> USE DEF IInv
<1>1. CASE \/ StartVerb \/ NothingToRoll \/ ResetState \/ NextCandidate \/ Record \/ Finish
           \/ Withdraw
  <2>1. bar' = bar /\ wk' = wk
    BY <1>1 DEF StartVerb, NothingToRoll, ResetState, NextCandidate, Record, Finish, Withdraw
  <2>2. rn'.pc \notin {"clear", "publish", "push", "wait"}
    <3>1. CASE StartVerb \/ NothingToRoll \/ ResetState
      BY <3>1 DEF StartVerb, NothingToRoll, ResetState, Types, Runner
    <3>2. CASE NextCandidate \/ Record
      BY <3>2 DEF NextCandidate, Record, Types, Runner
    <3>3. CASE Finish \/ Withdraw
      BY <3>3 DEF Finish, Withdraw, Types, Runner
    <3> QED BY <1>1, <3>1, <3>2, <3>3
  <2> QED BY <2>1, <2>2 DEF CountInv
<1>2. CASE Aggregate
  <2>1. wk' = wk /\ bar'.completed = bar.completed /\ rn'.pc = "record"
    BY <1>2 DEF Aggregate, Types, Runner, Barrier
  <2> QED BY <2>1 DEF CountInv
<1>3. CASE SetUpBarrier
  <2>1. wk' = wk /\ rn.pc = "setup"
    BY <1>3 DEF SetUpBarrier
  <2>2. \A w \in Workers : wk[w].pc = "idle"
    BY <2>1 DEF TaskInv, Active
  <2>3. rn'.pc = "record" \/ (rn'.pc = "clear" /\ bar'.completed = {})
    <3>1. CASE rn' = [rn EXCEPT !.pc = "record", !.nDone = -1]
      BY <3>1 DEF Types, Runner
    <3>2. CASE rn' = [rn EXCEPT !.pc = "clear"] /\ bar'.completed = {}
      BY <3>2 DEF Types, Runner
    <3> QED BY <1>3, <3>1, <3>2 DEF SetUpBarrier
  <2> QED BY <2>1, <2>2, <2>3 DEF CountInv
<1>4. CASE ClearCancel \/ Publish \/ PushTasks
  <2>1. /\ bar' = bar /\ wk' = wk /\ bar.completed = {}
    BY <1>4 DEF ClearCancel, Publish, PushTasks, CountInv
  <2>2. rn'.pc \in {"publish", "push", "wait"}
    BY <1>4 DEF ClearCancel, Publish, PushTasks, Types, Runner
  <2>3. rn'.pc \in {"push", "wait"} => doneCount' = 0
    BY <1>4 DEF ClearCancel, Publish, PushTasks, CountInv, Types, Runner
  <2>4. rn'.pc = "wait" => doneCount' = Cardinality(bar'.completed \ Uncounted')
    <3>1. bar'.completed \ Uncounted' = {}
      BY <2>1
    <3> QED BY <2>3, <3>1, FS_EmptySet
  <2> QED BY <2>1, <2>2, <2>3, <2>4 DEF CountInv
<1>5. CASE CancelState \/ CancelFlag \/ (\E p \in Pollers : PollerStep(p)) \/ UNCHANGED vars
  <2>1. UNCHANGED <<rn, bar, wk, pool, doneCount>>
    BY <1>5 DEF CancelState, CancelFlag, PollerStep, PollLive, PollTrial, CopyState, vars
  <2> QED BY <2>1 DEF CountInv, Uncounted
<1>6. ASSUME NEW w \in Workers, WorkerStep(w) PROVE CountInv'
  BY <1>6, CountTask
<1> QED BY <1>1, <1>2, <1>3, <1>4, <1>5, <1>6 DEF Next, RunnerStep, UserStep

\* What a poll's mean will hold at least: what it has read, and what is finished ahead.
Ahead(p) == pl[p].acc \cup Terms(bar.results, {t \in bar.completed : t >= pl[p].next})

\* A poll that walks has read trials of the barrier's candidate, and will have read as
\* many as it says; one that has walked has.
PollOk(p) ==
    /\ pl[p].acc \subseteq Nat \X Trial
    /\ pl[p].pc = "idle" => pl[p].acc = {} /\ pl[p].next = 1
    /\ pl[p].pc = "walk" => pl[p].acc \subseteq {bar.cand} \X Trial
    /\ pl[p].pc = "walk" => pl[p].done <= Cardinality(Ahead(p))
    /\ pl[p].pc = "copy" /\ pl[p].haveLive => pl[p].done <= Cardinality(pl[p].acc)

PollInv == \A p \in Pollers : PollOk(p)

LEMMA InitCounts == Init => CountInv /\ PollInv
<1> SUFFICES ASSUME Init PROVE CountInv /\ PollInv
  OBVIOUS
<1>1. CountInv
  BY DEF Init, CountInv
<1>2. ASSUME NEW p \in Pollers
      PROVE  pl[p].acc = {} /\ pl[p].next = 1 /\ pl[p].pc = "idle"
  BY DEF Init
<1>3. PollInv
  BY <1>2 DEF PollInv, PollOk
<1> QED BY <1>1, <1>3

\* A candidate has finitely many terms.
LEMMA TermSetsAreFinite == ASSUME NEW c, NEW S \in SUBSET ({c} \X Trial) PROVE IsFiniteSet(S)
<1>1. IsFiniteSet(Trial) /\ IsFiniteSet({c})
  BY TrialsAreFinite, FS_Singleton
<1>2. IsFiniteSet({c} \X Trial)
  BY <1>1, FS_Product
<1> QED BY <1>2, FS_Subset

\* While a poll walks, trials are finished, and none unfinished: what it will have read grows.
LEMMA AheadGrows ==
  ASSUME IInv, IInv', PollInv, NEW p \in Pollers, pl' = pl, pl[p].pc = "walk",
         bar'.cand = bar.cand, bar.completed \subseteq bar'.completed,
         \A t \in bar.completed : bar'.results[t] = bar.results[t]
  PROVE  pl[p].done <= Cardinality(Ahead(p)')
<1> USE DEF IInv
<1>1. Ahead(p) \subseteq Ahead(p)'
  BY DEF Ahead, Terms
<1>2. Ahead(p)' \subseteq {bar.cand} \X Trial
  <2>1. bar'.completed \subseteq Trial /\ pl[p].acc \subseteq {bar.cand} \X Trial
    BY DEF Types, Barrier, PollInv, PollOk
  <2>2. \A t \in bar'.completed : bar'.results[t] = bar.cand
    BY DEF SlotInv
  <2> QED BY <2>1, <2>2 DEF Ahead, Terms
<1>3. IsFiniteSet(Ahead(p)') /\ IsFiniteSet(Ahead(p))
  BY <1>1, <1>2, TermSetsAreFinite
<1>4. Cardinality(Ahead(p)) <= Cardinality(Ahead(p)')
  BY <1>1, <1>3, FS_Subset
<1>5. Cardinality(Ahead(p)) \in Nat /\ Cardinality(Ahead(p)') \in Nat /\ pl[p].done \in Nat
  BY <1>3, FS_CardinalityType DEF Types, Poller
<1> QED BY <1>4, <1>5 DEF PollInv, PollOk

\* A poll's own steps.
LEMMA PollStepKeeps ==
  ASSUME IInv, CountInv, PollInv, NEW p \in Pollers, PollerStep(p)
  PROVE  PollInv'
<1> USE DEF IInv
<1>1. /\ UNCHANGED <<rn, bar>> /\ pl \in [Pollers -> Poller] /\ pl[p] \in Poller
      /\ bar.completed \in SUBSET Trial /\ bar.cand \in Nat
      /\ \A t \in bar.completed : bar.results[t] = bar.cand
  BY DEF PollerStep, PollLive, PollTrial, CopyState, Types, Barrier, SlotInv
<1>2. /\ \A q \in Pollers : q # p => pl'[q] = pl[q]
  BY <1>1 DEF PollerStep, PollLive, PollTrial, CopyState
<1>3. ASSUME NEW q \in Pollers, q # p
      PROVE  Ahead(q)' = Ahead(q)
  BY <1>1, <1>2, <1>3 DEF Ahead
<1>4. SUFFICES PollOk(p)'
  <2>1. ASSUME NEW q \in Pollers, q # p PROVE PollOk(q)'
    BY <1>1, <1>2, <1>3, <2>1 DEF PollInv, PollOk
  <2> QED BY <2>1 DEF PollInv
<1>5. CASE PollLive(p) /\ live = NULL
  <2>1. pl' = [pl EXCEPT ![p] = [pl[p] EXCEPT !.pc = "copy", !.haveLive = FALSE]]
    BY <1>1, <1>5 DEF PollLive, Poller
  <2>2. pl'[p].pc = "copy" /\ ~pl'[p].haveLive /\ pl'[p].acc = pl[p].acc
    BY <1>1, <2>1 DEF Poller
  <2> QED BY <2>2 DEF PollInv, PollOk
<1>6. CASE PollLive(p) /\ live # NULL
  <2>1. pl' = [pl EXCEPT ![p] = [pl[p] EXCEPT !.pc = "walk", !.haveLive = TRUE,
                                              !.done = doneCount]]
    BY <1>1, <1>6 DEF PollLive, Poller
  <2>2. /\ pl'[p].pc = "walk" /\ pl'[p].acc = {} /\ pl'[p].next = 1 /\ pl'[p].done = doneCount
    <3>1. pl[p].acc = {} /\ pl[p].next = 1
      BY <1>6 DEF PollLive, PollInv, PollOk
    <3> QED BY <1>1, <2>1, <3>1 DEF Poller
  <2>3. Ahead(p)' = Terms(bar.results, bar.completed)
    <3>1. {t \in bar.completed : t >= 1} = bar.completed
      BY <1>1 DEF Trial
    <3> QED BY <1>1, <2>2, <3>1 DEF Ahead
  <2>4. /\ Cardinality(Terms(bar.results, bar.completed)) = Cardinality(bar.completed)
        /\ IsFiniteSet(bar.completed)
    BY <1>1, TermsCount
  <2>5. doneCount <= Cardinality(bar.completed)
    <3>1. rn.pc \in {"push", "wait"}
      BY <1>6 DEF FrameInv, Published
    <3>2. CASE rn.pc = "push"
      BY <2>4, <3>2, FS_CardinalityType DEF CountInv
    <3>3. CASE rn.pc = "wait"
      <4>1. Cardinality(bar.completed \ Uncounted) <= Cardinality(bar.completed)
        BY <2>4, FS_Subset
      <4> QED BY <3>3, <4>1 DEF CountInv
    <3> QED BY <3>1, <3>2, <3>3
  <2> QED BY <2>2, <2>3, <2>4, <2>5 DEF PollOk
<1>7. CASE PollTrial(p)
  <2> DEFINE t == pl[p].next
             last == t = NTrials
             add == pl[p].acc \cup Terms(bar.results, bar.completed \cap {t})
             k == IF last THEN 1 ELSE t + 1
             pc == IF last THEN "copy" ELSE "walk"
  <2>1. /\ pl' = [pl EXCEPT ![p] = [pl[p] EXCEPT !.pc = pc, !.next = k, !.acc = add]]
        /\ pl[p].pc = "walk" /\ t \in Trial
    BY <1>1, <1>7 DEF PollTrial, Poller
  <2>2. /\ pl'[p].pc = pc /\ pl'[p].next = k /\ pl'[p].acc = add /\ pl'[p].done = pl[p].done
    <3> HIDE DEF pc, k, add
    <3> QED BY <1>1, <2>1 DEF Poller
  <2>3. add \subseteq {bar.cand} \X Trial /\ add \subseteq Nat \X Trial
    <3>1. pl[p].acc \subseteq {bar.cand} \X Trial
      BY <2>1 DEF PollInv, PollOk
    <3>2. Terms(bar.results, bar.completed \cap {t}) \subseteq {bar.cand} \X Trial
      BY <1>1 DEF Terms
    <3> QED BY <1>1, <3>1, <3>2
  <2>4. pl[p].done <= Cardinality(Ahead(p))
    BY <2>1 DEF PollInv, PollOk
  <2>5. CASE last
    <3>1. {u \in bar.completed : u >= t} = bar.completed \cap {t}
      BY <1>1, <2>5, NTrialsAssumption DEF Trial
    <3>2. Ahead(p) = add
      BY <3>1 DEF Ahead
    <3> QED BY <2>2, <2>3, <2>4, <2>5, <3>2 DEF PollOk
  <2>6. CASE ~last
    <3>1. {u \in bar.completed : u >= t} = (bar.completed \cap {t}) \cup {u \in bar.completed : u >= t + 1}
      BY <1>1, <2>1 DEF Trial
    <3>2. pl'[p].next = t + 1
      BY <2>2, <2>6
    <3>3. Ahead(p)' = Ahead(p)
      <4>1. Ahead(p)' = add \cup Terms(bar.results, {u \in bar.completed : u >= t + 1})
        BY <1>1, <2>2, <3>2 DEF Ahead
      <4>2. Ahead(p) = pl[p].acc \cup Terms(bar.results, {u \in bar.completed : u >= t})
        BY DEF Ahead
      <4>3. Terms(bar.results, {u \in bar.completed : u >= t})
              = Terms(bar.results, bar.completed \cap {t})
                \cup Terms(bar.results, {u \in bar.completed : u >= t + 1})
        <5> HIDE DEF t
        <5> QED BY <3>1 DEF Terms
      <4> HIDE DEF t
      <4> QED BY <4>1, <4>2, <4>3
    <3>4. pl'[p].pc = "walk"
      BY <2>2, <2>6
    <3>5. bar' = bar
      BY <1>1, <1>7 DEF PollTrial
    <3>6. pl'[p].done <= Cardinality(Ahead(p)')
      BY <2>2, <2>4, <3>3
    <3>7. /\ pl'[p].acc \subseteq {bar'.cand} \X Trial
          /\ pl'[p].acc \subseteq Nat \X Trial
      <4> HIDE DEF add
      <4> QED BY <2>2, <2>3, <3>5
    <3> QED BY <3>4, <3>6, <3>7 DEF PollOk
  <2> QED BY <2>5, <2>6
<1>8. CASE CopyState(p)
  <2>1. pl'[p].pc = "idle" /\ pl'[p].acc = {} /\ pl'[p].next = 1
    BY <1>1, <1>8 DEF CopyState
  <2> QED BY <2>1 DEF PollOk
<1> QED BY <1>5, <1>6, <1>7, <1>8 DEF PollerStep

\* Everybody else's steps: they finish trials, or do so while no poll walks.
LEMMA PollInvStep == ASSUME IInv, IInv', CountInv, PollInv, [Next]_vars PROVE PollInv'
<1> USE DEF IInv
<1>1. ASSUME NEW p \in Pollers, PollerStep(p) PROVE PollInv'
  BY <1>1, PollStepKeeps
<1>2. CASE pl' = pl /\ \E p \in Pollers : pl[p].pc = "walk"
  <2>1. rn.pc \in {"push", "wait"}
    BY <1>2 DEF FrameInv, Published
  <2>2. /\ bar'.cand = bar.cand /\ bar.completed \subseteq bar'.completed
        /\ \A t \in bar.completed : bar'.results[t] = bar.results[t]
    <3>1. CASE bar' = bar
      BY <3>1
    <3>2. ASSUME NEW w \in Workers, StoreResult(w) \/ MarkCompleted(w) \/ FinishTask(w)
          PROVE  /\ bar'.cand = bar.cand /\ bar.completed \subseteq bar'.completed
                 /\ \A t \in bar.completed : bar'.results[t] = bar.results[t]
      <4>1. wk[w].pc = "roll" => wk[w].t \notin bar.completed
        BY DEF CountInv
      <4>2. CASE StoreResult(w)
        BY <4>1, <4>2 DEF StoreResult, Types, Barrier
      <4>3. CASE MarkCompleted(w)
        BY <4>3 DEF MarkCompleted, Types, Barrier
      <4>4. CASE FinishTask(w)
        BY <4>4 DEF FinishTask, Types, Barrier
      <4> QED BY <3>2, <4>2, <4>3, <4>4
    <3>3. bar' = bar \/ \E w \in Workers : StoreResult(w) \/ MarkCompleted(w) \/ FinishTask(w)
      BY <2>1 DEF Next, RunnerStep, NothingToRoll, ResetState, NextCandidate, SetUpBarrier,
         ClearCancel, Publish, PushTasks, Withdraw, Aggregate, Record, Finish, UserStep, StartVerb,
         CancelState, CancelFlag, WorkerStep, TakeTask, CheckCancel, CountDone, PollerStep,
         PollLive, PollTrial, CopyState, vars
    <3> QED BY <3>1, <3>2, <3>3
  <2>3. ASSUME NEW p \in Pollers, pl[p].pc = "walk" PROVE pl[p].done <= Cardinality(Ahead(p)')
    BY <1>2, <2>2, <2>3, AheadGrows
  <2> QED BY <1>2, <2>2, <2>3 DEF PollInv, PollOk
<1>3. CASE pl' = pl /\ ~\E p \in Pollers : pl[p].pc = "walk"
  BY <1>3 DEF PollInv, PollOk
<1>4. pl' = pl \/ \E p \in Pollers : PollerStep(p)
  BY DEF Next, RunnerStep, NothingToRoll, ResetState, NextCandidate, SetUpBarrier,
     ClearCancel, Publish, PushTasks, Withdraw, Aggregate, Record, Finish, UserStep, StartVerb,
     CancelState, CancelFlag, WorkerStep, TakeTask, CheckCancel, StoreResult, MarkCompleted,
     CountDone, FinishTask, vars
<1> QED BY <1>1, <1>2, <1>3, <1>4

LEMMA CountInvariance == Spec => [](IInv /\ CountInv /\ PollInv)
<1>1. Init => IInv /\ CountInv /\ PollInv
  BY InitIInv, InitCounts
<1>2. IInv /\ CountInv /\ PollInv /\ [Next]_vars => (IInv /\ CountInv /\ PollInv)'
  BY StepKeepsIInv, CountStep, PollInvStep
<1> QED BY <1>1, <1>2, PTL DEF Spec

---------------------------------------------------------------------------
(* The theorems.                                                           *)

\* No worker and no poll touches the barrier once gnubg_rollout_internal has left its
\* frame, with any number of workers, pollers, verbs and cancels (stubs.c, the barrier on
\* the stack).
THEOREM FrameOutlivesUsers == Spec => []NoUseAfterReturn
<1>1. IInv => NoUseAfterReturn
  <2> SUFFICES ASSUME IInv PROVE NoUseAfterReturn
    OBVIOUS
  <2>1. ASSUME NEW p \in Pollers, pl[p].pc = "walk" PROVE bar.inScope /\ live = bar.frame
    BY <2>1 DEF IInv, FrameInv, InFrame, Published
  <2> QED BY <2>1, WorkersInFrame DEF NoUseAfterReturn
<1> QED BY <1>1, Invariance, PTL

\* A stored result averages as many trials as its label says, each finished and of that
\* candidate (gnubg_mobile_rollout_start, gnubg_rollout_internal).
THEOREM ResultsCorrect == Spec => []ResultsAreLabelled
<1>1. IInv => ResultsAreLabelled
  BY DEF IInv
<1> QED BY <1>1, Invariance, PTL

\* The running mean a poll reports holds finished slots only, and never fewer games than
\* the number shown with it, whatever the workers do while it walks (gnubg_rollout_poll).
THEOREM LiveLabelCorrect == Spec => []LiveLabelNeverOverstates
<1>1. IInv /\ PollInv => LiveLabelNeverOverstates
  BY DEF PollInv, PollOk, LiveLabelNeverOverstates, NoResult
<1> QED BY <1>1, CountInvariance, PTL

\* Once a cancel is recorded in an active rollout no later candidate is announced, by any
\* step of any thread (gnubg_mobile_rollout_start's test at the top of its loop).
THEOREM LaterNeverStart == Spec => LaterCandidatesNeverStart
<1>1. ASSUME IInv, [Next]_vars, ro.active, ro.cancelled
      PROVE  ro'.current \in {ro.current, NoCand}
  <2> USE <1>1 DEF IInv, Types, State
  <2>1. CASE ResetState \/ NextCandidate \/ Record \/ Finish
    <3>1. CASE ResetState
      BY <3>1 DEF ResetState
    <3>2. CASE NextCandidate
      BY <3>2 DEF NextCandidate
    <3>3. CASE Record
      <4> DEFINE d == IF rn.nDone > 0 THEN rn.nDone ELSE ro.trialsDone[rn.i]
                 m == IF rn.nDone > 0 THEN rn.est ELSE ro.mu[rn.i]
                 c == ro.cancelled \/ rn.nDone < NTrials
      <4>1. ro' = ro \/ ro' = [ro EXCEPT !.current = NoCand, !.trialsDone[rn.i] = d,
                                         !.mu[rn.i] = m, !.cancelled = c]
        <5>1. CASE rn.verb = "position"
          BY <3>3, <5>1 DEF Record
        <5>2. CASE rn.verb # "position"
          BY <3>3, <5>2 DEF Record
        <5> QED BY <5>1, <5>2
      <4> HIDE DEF d, m, c
      <4> QED BY <4>1
    <3>4. CASE Finish
      BY <3>4 DEF Finish
    <3> QED BY <2>1, <3>1, <3>2, <3>3, <3>4
  <2>2. CASE CancelState
    BY <2>2 DEF CancelState
  <2>3. CASE UNCHANGED ro
    BY <2>3
  <2> QED
    BY <2>1, <2>2, <2>3 DEF Next, RunnerStep, NothingToRoll, SetUpBarrier, ClearCancel, Publish,
       PushTasks, Withdraw, Aggregate, UserStep, StartVerb, CancelFlag, WorkerStep, TakeTask,
       CheckCancel, StoreResult, MarkCompleted, CountDone, FinishTask, PollerStep, PollLive,
       PollTrial, CopyState, vars
<1>2. IInv /\ [Next]_vars =>
        [ro.active /\ ro.cancelled => ro'.current \in {ro.current, NoCand}]_vars
  BY <1>1
<1> QED BY <1>2, Invariance, PTL DEF Spec, LaterCandidatesNeverStart
====
