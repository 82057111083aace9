---- MODULE Rollout ----
(***************************************************************************)
(* The candidates rollout: gnubg_mobile_rollout_start, _status and _cancel *)
(* (jni-bridge/src/gnubg_mobile.c) on top of the rollout infrastructure of *)
(* jni-bridge/src/stubs.c.                                                 *)
(*                                                                         *)
(* Four kinds of threads.  The runner is whoever holds gnubg_lock inside a *)
(* rollout verb; one at a time, since the lock is held for the whole verb. *)
(* The workers are the threads of the GLib pool.  The pollers read the     *)
(* status from any thread (the Analyse screen, the notification thread).   *)
(* The user cancels from the main thread, the thread that also issues the  *)
(* verbs, so no verb is issued in the middle of a cancel.                  *)
(*                                                                         *)
(* A step is one critical section or one access to a shared atomic.  The   *)
(* mutex rollout_live_mutex is a variable because a poll holds it over many*)
(* reads; the sections of ro_state_mutex and of the barrier's own mutex    *)
(* are single steps.                                                       *)
(***************************************************************************)
EXTENDS Integers, Sequences, FiniteSets

CONSTANTS
    Workers,    \* threads of rollout_pool
    Pollers,    \* threads that call gnubg_mobile_rollout_status
    MaxCand,    \* candidates a verb rolls at most (RO_MAX_CAND, max_n)
    NTrials,    \* rcRollout.nTrials
    MaxVerbs,   \* bound: rollout verbs issued
    MaxCancels  \* bound: presses of Cancel

ASSUME MaxCandAssumption == MaxCand \in Nat \ {0}
ASSUME NTrialsAssumption == NTrials \in Nat \ {0}
ASSUME BoundsAssumption  == MaxVerbs \in Nat /\ MaxCancels \in Nat

Cand     == 1..MaxCand
Trial    == 1..NTrials
NoCand   == 0       \* ro_state.current = -1; also what a position rollout rolls
NoResult == -1      \* a result slot as memset leaves it
NULL     == 0       \* rollout_live

VARIABLES
    rn,         \* the runner: its pc, the verb, and its locals
    ro,         \* ro_state
    live,       \* rollout_live: NULL or the number of a barrier frame
    liveMutex,  \* rollout_live_mutex: the poller that holds it, or none
    cancelFlag, \* rollout_cancel_flag
    doneCount,  \* rollout_done_count
    bar,        \* the RolloutBarrier on the runner's stack, with its arrays
    pool,       \* the pool's queue of trial indices
    wk,         \* each worker: pc, trial index, the frame it points at
    pl,         \* each poller: pc and the locals of gnubg_rollout_poll
    user,       \* the user's cancel: pc and the bounds' counters
    told        \* what a cancel that has returned was promised about

vars == <<rn, ro, live, liveMutex, cancelFlag, doneCount, bar, pool, wk, pl, user, told>>

Free == "free"

ASSUME FreeAssumption == Free \notin Pollers

\* A mean, kept as what it averages over: trials, each with what its slot held.
Estimate == SUBSET ((Cand \cup {NoCand, NoResult}) \X Trial)

-----------------------------------------------------------------------------
Init ==
    /\ rn = [pc |-> "idle", verb |-> "none", n |-> 0, i |-> NoCand, nDone |-> 0,
             est |-> {}, ret |-> 0, verbs |-> 0]
    /\ ro = [active |-> FALSE, cancelled |-> FALSE, nCand |-> 0, current |-> NoCand,
             trialsDone |-> [k \in Cand |-> 0], mu |-> [k \in Cand |-> {}]]
    /\ live = NULL
    /\ liveMutex = Free
    /\ cancelFlag = FALSE
    /\ doneCount = 0
    /\ bar = [frame |-> 0, inScope |-> FALSE, cand |-> NoCand, remaining |-> 0,
              results |-> [t \in Trial |-> NoResult], completed |-> {}]
    /\ pool = <<>>
    /\ wk = [w \in Workers |-> [pc |-> "idle", t |-> 1, frame |-> NULL]]
    /\ pl = [p \in Pollers |-> [pc |-> "idle", haveLive |-> FALSE, done |-> 0, next |-> 1,
                                acc |-> {}, shown |-> [k |-> NoCand, est |-> {}]]]
    /\ user = [pc |-> "idle", cancels |-> 0]
    /\ told = [running |-> FALSE, untouched |-> {}]

-----------------------------------------------------------------------------
(* The runner.                                                             *)

\* The entry of gnubg_mobile_rollout_start, the lock taken and the search for
\* candidates under way; or of gnubg_mobile_rollout, which rolls one position.
StartVerb ==
    /\ rn.pc = "idle" /\ user.pc = "idle"
    /\ rn.verbs < MaxVerbs
    /\ \/ rn' = [rn EXCEPT !.pc = "search", !.verb = "candidates", !.verbs = @ + 1]
       \/ rn' = [rn EXCEPT !.pc = "setup", !.verb = "position", !.i = NoCand,
                           !.verbs = @ + 1]
    /\ told' = [running |-> FALSE, untouched |-> {}]
    /\ UNCHANGED <<ro, live, liveMutex, cancelFlag, doneCount, bar, pool, wk, pl, user>>

\* The search fails or finds no move: nothing is started.
NothingToRoll ==
    /\ rn.pc = "search"
    /\ \E ret \in {0, -1} : rn' = [rn EXCEPT !.pc = "idle", !.ret = ret]
    /\ UNCHANGED <<ro, live, liveMutex, cancelFlag, doneCount, bar, pool, wk, pl, user, told>>

\* n candidates found: ro_state is wiped and armed.
ResetState ==
    /\ rn.pc = "search"
    /\ \E n \in Cand :
         /\ rn' = [rn EXCEPT !.pc = "next", !.n = n, !.i = 1]
         /\ ro' = [active |-> TRUE, cancelled |-> FALSE, nCand |-> n, current |-> NoCand,
                   trialsDone |-> [k \in Cand |-> 0], mu |-> [k \in Cand |-> {}]]
    /\ UNCHANGED <<live, liveMutex, cancelFlag, doneCount, bar, pool, wk, pl, user, told>>

\* Top of the candidate loop: leave it if cancelled, else announce candidate i.
NextCandidate_NoCheckFault ==
    /\ rn.pc = "next"
    /\ IF rn.i > rn.n
         THEN rn' = [rn EXCEPT !.pc = "finish"] /\ ro' = ro
         ELSE /\ rn' = [rn EXCEPT !.pc = "setup"]
              /\ ro' = [ro EXCEPT !.current = rn.i]
    /\ UNCHANGED <<live, liveMutex, cancelFlag, doneCount, bar, pool, wk, pl, user, told>>

NextCandidate ==
    /\ rn.pc = "next"
    /\ IF rn.i > rn.n \/ ro.cancelled
         THEN rn' = [rn EXCEPT !.pc = "finish"] /\ ro' = ro
         ELSE /\ rn' = [rn EXCEPT !.pc = "setup"]
              /\ ro' = [ro EXCEPT !.current = rn.i]
    /\ UNCHANGED <<live, liveMutex, cancelFlag, doneCount, bar, pool, wk, pl, user, told>>

\* gnubg_rollout_internal: a new barrier frame with zeroed results and map.
SetUpBarrier_StaleMapFault ==
    /\ rn.pc = "setup"
    /\ \/ /\ bar' = [frame |-> bar.frame + 1, inScope |-> TRUE, cand |-> rn.i,
                     remaining |-> NTrials, results |-> [t \in Trial |-> NoResult],
                     completed |-> bar.completed]
          /\ rn' = [rn EXCEPT !.pc = "clear"]
       \/ bar' = bar /\ rn' = [rn EXCEPT !.pc = "record", !.nDone = -1]
    /\ UNCHANGED <<ro, live, liveMutex, cancelFlag, doneCount, pool, wk, pl, user, told>>

SetUpBarrier ==
    /\ rn.pc = "setup"
    /\ \/ /\ bar' = [frame |-> bar.frame + 1, inScope |-> TRUE, cand |-> rn.i,
                     remaining |-> NTrials, results |-> [t \in Trial |-> NoResult],
                     completed |-> {}]
          /\ rn' = [rn EXCEPT !.pc = "clear"]
       \/ \* posix_memalign fails: -1 before anything is published
          /\ bar' = bar
          /\ rn' = [rn EXCEPT !.pc = "record", !.nDone = -1]
    /\ UNCHANGED <<ro, live, liveMutex, cancelFlag, doneCount, pool, wk, pl, user, told>>

ClearCancel ==
    /\ rn.pc = "clear"
    /\ cancelFlag' = FALSE
    /\ rn' = [rn EXCEPT !.pc = "publish"]
    /\ UNCHANGED <<ro, live, liveMutex, doneCount, bar, pool, wk, pl, user, told>>

\* rollout_done_count := 0 and the barrier published under rollout_live_mutex.
Publish ==
    /\ rn.pc = "publish" /\ liveMutex = Free
    /\ doneCount' = 0
    /\ live' = bar.frame
    /\ rn' = [rn EXCEPT !.pc = "push"]
    /\ UNCHANGED <<ro, liveMutex, cancelFlag, bar, pool, wk, pl, user, told>>

PushTasks ==
    /\ rn.pc = "push"
    /\ pool' = [t \in Trial |-> t]
    /\ rn' = [rn EXCEPT !.pc = "wait"]
    /\ UNCHANGED <<ro, live, liveMutex, cancelFlag, doneCount, bar, wk, pl, user, told>>

\* The condition wait ends once no task remains; then the barrier is withdrawn.
Withdraw_NoMutexFault ==
    /\ rn.pc = "wait" /\ bar.remaining = 0
    /\ live' = NULL
    /\ rn' = [rn EXCEPT !.pc = "aggregate"]
    /\ UNCHANGED <<ro, liveMutex, cancelFlag, doneCount, bar, pool, wk, pl, user, told>>

Withdraw ==
    /\ rn.pc = "wait" /\ bar.remaining = 0
    /\ liveMutex = Free
    /\ live' = NULL
    /\ rn' = [rn EXCEPT !.pc = "aggregate"]
    /\ UNCHANGED <<ro, liveMutex, cancelFlag, doneCount, bar, pool, wk, pl, user, told>>

\* The terms rollout_accumulate averages over: one per completed trial.
Terms(results, completed) == {<<results[t], t>> : t \in completed}

\* rollout_accumulate over the map, the arrays freed, the frame left.
Aggregate ==
    /\ rn.pc = "aggregate"
    /\ rn' = [rn EXCEPT !.pc = "record", !.nDone = Cardinality(bar.completed),
                        !.est = Terms(bar.results, bar.completed)]
    /\ bar' = [bar EXCEPT !.inScope = FALSE]
    /\ UNCHANGED <<ro, live, liveMutex, cancelFlag, doneCount, pool, wk, pl, user, told>>

\* gnubg_mobile_rollout_start stores the candidate's result and decides whether
\* it was the last; gnubg_mobile_rollout just returns.
Record ==
    /\ rn.pc = "record"
    /\ IF rn.verb = "position"
         THEN /\ rn' = [rn EXCEPT !.pc = "idle", !.est = {},
                                  !.ret = IF rn.nDone <= 0 THEN -1 ELSE 14]
              /\ ro' = ro
         ELSE /\ ro' = [ro EXCEPT
                   !.current = NoCand,
                   !.trialsDone[rn.i] = IF rn.nDone > 0 THEN rn.nDone ELSE @,
                   !.mu[rn.i] = IF rn.nDone > 0 THEN rn.est ELSE @,
                   !.cancelled = @ \/ rn.nDone < NTrials]
              /\ rn' = IF rn.nDone < NTrials THEN [rn EXCEPT !.pc = "finish", !.est = {}]
                       ELSE [rn EXCEPT !.pc = "next", !.i = @ + 1, !.est = {}]
    /\ UNCHANGED <<live, liveMutex, cancelFlag, doneCount, bar, pool, wk, pl, user, told>>

Finish ==
    /\ rn.pc = "finish"
    /\ ro' = [ro EXCEPT !.active = FALSE, !.current = NoCand]
    /\ rn' = [rn EXCEPT !.pc = "idle", !.ret = rn.n]
    /\ UNCHANGED <<live, liveMutex, cancelFlag, doneCount, bar, pool, wk, pl, user, told>>

RunnerStep ==
    \/ NothingToRoll \/ ResetState \/ NextCandidate \/ SetUpBarrier \/ ClearCancel
    \/ Publish \/ PushTasks \/ Withdraw \/ Aggregate \/ Record \/ Finish

-----------------------------------------------------------------------------
(* The workers: rollout_worker_func.                                       *)

\* A task is taken and the live barrier read under its mutex; with none live
\* the worker returns.
TakeTask(w) ==
    /\ wk[w].pc = "idle" /\ pool # <<>>
    /\ liveMutex = Free
    /\ pool' = Tail(pool)
    /\ wk' = [wk EXCEPT ![w] = [pc |-> IF live = NULL THEN "idle" ELSE "check",
                                t |-> Head(pool), frame |-> live]]
    /\ UNCHANGED <<rn, ro, live, liveMutex, cancelFlag, doneCount, bar, pl, user, told>>

\* A cancelled task is a no-op that still counts down the barrier.
CheckCancel_ReturnFault(w) ==
    /\ wk[w].pc = "check"
    /\ wk' = [wk EXCEPT ![w].pc = IF cancelFlag THEN "idle" ELSE "roll"]
    /\ UNCHANGED <<rn, ro, live, liveMutex, cancelFlag, doneCount, bar, pool, pl, user, told>>

CheckCancel(w) ==
    /\ wk[w].pc = "check"
    /\ wk' = [wk EXCEPT ![w].pc = IF cancelFlag THEN "finish" ELSE "roll"]
    /\ UNCHANGED <<rn, ro, live, liveMutex, cancelFlag, doneCount, bar, pool, pl, user, told>>

\* The trial is played out and its slot written.
StoreResult(w) ==
    /\ wk[w].pc = "roll"
    /\ bar' = [bar EXCEPT !.results[wk[w].t] = bar.cand]
    /\ wk' = [wk EXCEPT ![w].pc = "mark"]
    /\ UNCHANGED <<rn, ro, live, liveMutex, cancelFlag, doneCount, pool, pl, user, told>>

\* The release store of the completion map.
MarkCompleted_CountFirstFault(w) ==
    /\ wk[w].pc = "mark"
    /\ doneCount' = doneCount + 1
    /\ wk' = [wk EXCEPT ![w].pc = "count"]
    /\ UNCHANGED <<rn, ro, live, liveMutex, cancelFlag, bar, pool, pl, user, told>>

MarkCompleted(w) ==
    /\ wk[w].pc = "mark"
    /\ bar' = [bar EXCEPT !.completed = @ \cup {wk[w].t}]
    /\ wk' = [wk EXCEPT ![w].pc = "count"]
    /\ UNCHANGED <<rn, ro, live, liveMutex, cancelFlag, doneCount, pool, pl, user, told>>

CountDone(w) ==
    /\ wk[w].pc = "count"
    /\ doneCount' = doneCount + 1
    /\ wk' = [wk EXCEPT ![w].pc = "finish"]
    /\ UNCHANGED <<rn, ro, live, liveMutex, cancelFlag, bar, pool, pl, user, told>>

\* tasks_remaining counts down under the barrier's mutex; the last one signals.
FinishTask(w) ==
    /\ wk[w].pc = "finish"
    /\ bar' = [bar EXCEPT !.remaining = @ - 1]
    /\ wk' = [wk EXCEPT ![w].pc = "idle", ![w].frame = NULL]
    /\ UNCHANGED <<rn, ro, live, liveMutex, cancelFlag, doneCount, pool, pl, user, told>>

WorkerStep(w) ==
    \/ TakeTask(w) \/ CheckCancel(w) \/ StoreResult(w) \/ MarkCompleted(w)
    \/ CountDone(w) \/ FinishTask(w)

-----------------------------------------------------------------------------
(* The pollers: gnubg_mobile_rollout_status, which polls the live rollout  *)
(* (gnubg_rollout_poll) before it takes ro_state_mutex.                    *)

PollLive(p) ==
    /\ pl[p].pc = "idle" /\ liveMutex = Free
    /\ IF live = NULL
         THEN /\ pl' = [pl EXCEPT ![p].pc = "copy", ![p].haveLive = FALSE]
              /\ liveMutex' = liveMutex
         ELSE /\ pl' = [pl EXCEPT ![p].pc = "walk", ![p].haveLive = TRUE,
                                  ![p].done = doneCount]
              /\ liveMutex' = p
    /\ UNCHANGED <<rn, ro, live, cancelFlag, doneCount, bar, pool, wk, user, told>>

\* rollout_accumulate, one trial's acquire load at a time, the mutex held.
PollTrial(p) ==
    /\ pl[p].pc = "walk"
    /\ LET t    == pl[p].next
           last == t = NTrials
       IN /\ pl' = [pl EXCEPT
                ![p].pc   = IF last THEN "copy" ELSE @,
                ![p].next = IF last THEN 1 ELSE @ + 1,
                ![p].acc  = @ \cup Terms(bar.results, bar.completed \cap {t})]
          /\ liveMutex' = IF last THEN Free ELSE liveMutex
    /\ UNCHANGED <<rn, ro, live, cancelFlag, doneCount, bar, pool, wk, user, told>>

\* The snapshot, under ro_state_mutex: the candidate now rolling carries the
\* live values.
CopyState(p) ==
    /\ pl[p].pc = "copy"
    /\ pl' = [pl EXCEPT ![p] =
         [pc |-> "idle", haveLive |-> FALSE, done |-> 0, next |-> 1, acc |-> {},
          shown |-> IF pl[p].haveLive /\ ro.current # NoCand
                      THEN [k |-> ro.current, est |-> pl[p].acc]
                      ELSE [k |-> NoCand, est |-> {}]]]
    /\ UNCHANGED <<rn, ro, live, liveMutex, cancelFlag, doneCount, bar, pool, wk, user, told>>

PollerStep(p) == PollLive(p) \/ PollTrial(p) \/ CopyState(p)

-----------------------------------------------------------------------------
(* The user: gnubg_mobile_rollout_cancel, in its two writes.               *)

CancelState ==
    /\ user.pc = "idle" /\ user.cancels < MaxCancels
    /\ ro' = [ro EXCEPT !.cancelled = TRUE]
    /\ user' = [pc |-> "flag", cancels |-> user.cancels + 1]
    /\ UNCHANGED <<rn, live, liveMutex, cancelFlag, doneCount, bar, pool, wk, pl, told>>

\* The cancel returns: what it was told of is noted, that a candidates verb was
\* running and which announced candidate had no trial started yet.
CancelFlag ==
    /\ user.pc = "flag"
    /\ cancelFlag' = TRUE
    /\ user' = [user EXCEPT !.pc = "idle"]
    /\ told' = [running |-> rn.verb = "candidates" /\ rn.pc # "idle",
                untouched |-> IF /\ ro.current # NoCand
                                 /\ rn.pc \in {"setup", "clear", "publish", "push"}
                                THEN {ro.current} ELSE {}]
    /\ UNCHANGED <<rn, ro, live, liveMutex, doneCount, bar, pool, wk, pl>>

UserStep == StartVerb \/ CancelState \/ CancelFlag

Next ==
    \/ RunnerStep
    \/ UserStep
    \/ \E w \in Workers : WorkerStep(w)
    \/ \E p \in Pollers : PollerStep(p)

Spec == Init /\ [][Next]_vars

\* Every thread is scheduled.  The steps that need rollout_live_mutex get it
\* (strong fairness): the pollers sleep 200 ms and more between polls.
Fairness ==
    /\ WF_vars(RunnerStep) /\ SF_vars(Publish) /\ SF_vars(Withdraw)
    /\ \A w \in Workers : WF_vars(WorkerStep(w)) /\ SF_vars(TakeTask(w))
    /\ \A p \in Pollers : WF_vars(PollTrial(p)) /\ WF_vars(CopyState(p))
    /\ WF_vars(CancelFlag)

FairSpec == Spec /\ Fairness

-----------------------------------------------------------------------------
(* Properties.                                                             *)

Frames == 0..(MaxVerbs * MaxCand)

\* The variables stay in their types; no count goes below zero or above NTrials.
TypeOK ==
    /\ rn.pc \in {"idle", "search", "next", "setup", "clear", "publish", "push",
                  "wait", "aggregate", "record", "finish"}
    /\ rn.i \in 0..(MaxCand + 1) /\ rn.n \in 0..MaxCand /\ rn.nDone \in -1..NTrials
    /\ ro.nCand \in 0..MaxCand /\ ro.current \in 0..ro.nCand
    /\ ro.trialsDone \in [Cand -> 0..NTrials] /\ \A k \in Cand : ro.mu[k] \in Estimate
    /\ live \in Frames /\ liveMutex \in Pollers \cup {Free}
    /\ cancelFlag \in BOOLEAN /\ doneCount \in 0..NTrials
    /\ bar.remaining \in 0..NTrials /\ bar.completed \subseteq Trial

\* Neither a worker nor a poll ever touches the barrier, which lives on the
\* stack of gnubg_rollout_internal, after that frame has been left, nor the
\* arrays after they are freed, nor the barrier of another rollout.
NoUseAfterReturn ==
    /\ \A w \in Workers :
         wk[w].pc # "idle" => bar.inScope /\ wk[w].frame = bar.frame
    /\ \A p \in Pollers :
         pl[p].pc = "walk" => bar.inScope /\ live = bar.frame

\* A stored result averages exactly the number of finished trials its label
\* states, all of them trials of that very candidate: a partial result is never
\* passed off as full, no zeroed slot and no other candidate's trial enters
\* (stubs.c, "a partial result is labeled by its completed count").
ResultsAreLabelled ==
    \A k \in Cand :
      /\ ro.mu[k] \subseteq {k} \X Trial
      /\ ro.trialsDone[k] = Cardinality(ro.mu[k])

\* What a poll of a running rollout reports: the running mean never contains a
\* slot that is not finished, and the number of games shown with it is never
\* more than the games it averages.
LiveLabelNeverOverstates ==
    \A p \in Pollers : pl[p].haveLive =>
      /\ pl[p].acc \cap ({NoResult} \X Trial) = {}
      /\ pl[p].pc = "copy" => pl[p].done <= Cardinality(pl[p].acc)

\* Once a cancel is recorded in an active rollout, no later candidate starts.
LaterCandidatesNeverStart ==
    [][ro.active /\ ro.cancelled => ro'.current \in {ro.current, NoCand}]_vars

\* A verb issued comes back, whenever and however often it is cancelled or
\* polled, and when an allocation fails: gnubg_lock is not held for ever.
VerbReturns == rn.pc # "idle" ~> rn.pc = "idle"

\* gnubg_mobile_rollout_cancel: "the current candidate finishes partial".  A
\* candidate that had no trial started when the cancel returned is not rolled
\* in full.
CancelledCandidateIsPartial ==
    \A k \in told.untouched : ro.trialsDone[k] < NTrials

\* gnubg_mobile_rollout_cancel: "later candidates never start", of a cancel
\* that returned at any moment since rollout_start was called.
CancelIsNeverLost ==
    [][told.running => ro'.current \in {ro.current, NoCand}]_vars

\* gnubg_mobile_rollout_start: "Returns the number of candidates rolled".
ReturnsCandidatesRolled ==
    rn.pc = "idle" /\ rn.verb = "candidates" /\ rn.ret > 0 =>
      rn.ret = Cardinality({k \in Cand : ro.trialsDone[k] > 0})

\* gnubg_mobile_rollout_status: "For the candidate currently rolling,
\* mu/sigma/trialsDone carry the LIVE running values": the live values shown
\* for a candidate are that candidate's.
LiveValuesAreTheCandidates ==
    \A p \in Pollers : pl[p].shown.est \subseteq {pl[p].shown.k} \X Trial

====
