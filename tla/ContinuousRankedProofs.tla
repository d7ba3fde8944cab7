----------------------- MODULE ContinuousRankedProofs -----------------------
(***************************************************************************)
(* Proofs about ContinuousRanked, for any budget, target, wait and backoff.*)
(***************************************************************************)
EXTENDS ContinuousRanked, FiniteSetTheorems, TLAPS

(* Each step of the runner and of its environment keeps RunnerInv.         *)
LEMMA RunnerInductive == RunnerInv /\ [Next]_vars => RunnerInv'
<1> SUFFICES ASSUME RunnerInv, [Next]_vars PROVE RunnerInv'
  OBVIOUS
<1> USE DEF RunnerInv, RunnerPhase, OrphanIsAwaited, StartedGamePlaysOn,
            NothingLeftRunning, Orphan, MayGoOn
<1>1. CASE UNCHANGED vars
  BY <1>1 DEF vars, runnerVars
<1>2. CASE GameStarts
  BY <1>2 DEF GameStarts, LeaveWait
<1>3. CASE AttemptEnds
  BY <1>3 DEF AttemptEnds, runnerVars
<1>4. CASE AttemptCancelled
  BY <1>4 DEF AttemptCancelled, runnerVars
<1>14. CASE OrphanEnds
  BY <1>14 DEF OrphanEnds, runnerVars
<1>15. CASE RequestStop
  BY <1>15 DEF RequestStop, runnerVars
<1>16. CASE Tick
  BY <1>16 DEF Tick, runnerVars
<1>5. CASE StopAtTop
  BY <1>5 DEF StopAtTop, Stop
<1>6. CASE Play
  BY <1>6 DEF Play, runnerVars
<1>7. CASE ResumeWait
  BY <1>7 DEF ResumeWait, CancelAttempt
<1>8. CASE FinishCancel \/ Raise
  BY <1>8 DEF FinishCancel, Raise, runnerVars
<1>9. CASE Completed
  BY <1>9 DEF Completed
<1>10. CASE HandleRejection
  BY <1>10 DEF HandleRejection, OriginalGameHolds, BackoffBeforeRetry, Stop
<1>11. CASE HandleFailure
  BY <1>11 DEF HandleFailure, EnterWait, BackoffBeforeRetry, Stop
<1>12. CASE WakeUp
  BY <1>12 DEF WakeUp, Stop
<1>13. CASE Cancel
  BY <1>13 DEF Cancel
<1> QED
  BY <1>1, <1>2, <1>3, <1>4, <1>5, <1>6, <1>7, <1>8, <1>9, <1>10, <1>11, <1>12, <1>13,
     <1>14, <1>15, <1>16
     DEF Next, Runner, Environment

(* The invariant of the runner holds in every reachable state.             *)
THEOREM RunnerCorrect == Spec => []RunnerInv
<1>1. Init => RunnerInv
  BY DEF Init, RunnerInv, RunnerPhase, OrphanIsAwaited, StartedGamePlaysOn,
         NothingLeftRunning, Orphan
<1> QED
  BY <1>1, RunnerInductive, PTL DEF Spec

(* A game that the server plays on without its client is always awaited.   *)
THEOREM OrphanIsAwaitedCorrect == Spec => []OrphanIsAwaited
BY RunnerCorrect, PTL DEF RunnerInv

(* The bound of the wait cancels no started game, however they race, and   *)
(* is gone while one is played.                                            *)
THEOREM StartedGamePlaysOnCorrect == Spec => []StartedGamePlaysOn
BY RunnerCorrect, PTL DEF RunnerInv

(* A run that returns a summary has no attempt left.                       *)
THEOREM NothingLeftRunningCorrect == Spec => []NothingLeftRunning
BY RunnerCorrect, PTL DEF RunnerInv

(* The orphaned game's rejections spare the budget, for any budget.        *)
THEOREM OrphanSparesBudgetCorrect == Spec => OrphanSparesBudget
<1>1. RunnerInv /\ [Next]_vars =>
        [orphan = "announced" /\ attempt = "rejected" /\ ~started => consecutive' = consecutive]_vars
  <2> SUFFICES ASSUME RunnerInv, [Next]_vars, orphan = "announced", attempt = "rejected", ~started
               PROVE  consecutive' = consecutive
    OBVIOUS
  <2>1. awaiting \/ pc \notin {"loop", "playing", "waiting", "sleeping"}
    BY DEF RunnerInv, OrphanIsAwaited, RunnerPhase
  <2>2. ~Completed /\ ~HandleFailure
    BY <2>1 DEF Completed, HandleFailure, OriginalGameHolds
  <2>3. CASE UNCHANGED vars \/ Environment \/ AttemptCancelled \/ Tick \/ Cancel
    BY <2>3 DEF vars, runnerVars, Environment, GameStarts, AttemptEnds, OrphanEnds,
                RequestStop, AttemptCancelled, Tick, Cancel
  <2>4. CASE Runner
    BY <2>2, <2>4 DEF Runner, runnerVars, StopAtTop, Play, ResumeWait, FinishCancel, Raise,
                      HandleRejection, WakeUp
  <2> QED
    BY <2>3, <2>4 DEF Next
<1> QED
  BY <1>1, RunnerCorrect, PTL DEF Spec, OrphanSparesBudget

-----------------------------------------------------------------------------
(* The refinement: what the deadline and the sleep that is cut at it say   *)
(* of each other, whatever the backoff.                                    *)
DeadlineInv ==
  /\ durationLeft \in Nat \cup {NoDeadline}
  /\ pc = "sleeping" /\ ~retry => durationLeft # NoDeadline /\ sleepLeft = durationLeft

LEMMA DeadlineInductive == DeadlineInv /\ [Next]_vars => DeadlineInv'
<1> SUFFICES ASSUME DeadlineInv, [Next]_vars PROVE DeadlineInv'
  OBVIOUS
<1> USE DEF DeadlineInv, NoDeadline
<1>1. CASE Tick
  BY <1>1 DEF Tick, runnerVars
<1>2. CASE HandleRejection
  BY <1>2 DEF HandleRejection, BackoffBeforeRetry, Lesser, Stop
<1>3. CASE HandleFailure
  BY <1>3 DEF HandleFailure, BackoffBeforeRetry, Lesser, Stop
<1>4. CASE WakeUp \/ StopAtTop
  BY <1>4 DEF WakeUp, StopAtTop, Stop
<1>5. CASE UNCHANGED vars \/ Environment \/ AttemptCancelled \/ Cancel
  BY <1>5 DEF vars, runnerVars, timeVars, Environment, GameStarts, AttemptEnds, OrphanEnds,
     RequestStop, AttemptCancelled, Cancel
<1>6. CASE Play \/ ResumeWait \/ FinishCancel \/ Completed \/ Raise
  BY <1>6 DEF runnerVars, timeVars, Play, ResumeWait, FinishCancel, Completed, Raise
<1> QED
  BY <1>1, <1>2, <1>3, <1>4, <1>5, <1>6 DEF Next, Runner

(* The bot of the contract.                                                *)
Bot == [phase |-> IF Ended THEN "exited" ELSE IF attempt = "idle" THEN "ready" ELSE "attempt",
        reason |-> IF Ended THEN stoppedReason ELSE "none",
        left |-> IF durationLeft = NoDeadline THEN "unbounded"
                 ELSE IF durationLeft = 0 THEN "reached" ELSE "open"]

Stutters == UNCHANGED <<Bot, stopRequested>>
Begins == Contract!MayBegin(Bot, stopRequested) /\ Bot' = [Bot EXCEPT !.phase = "attempt"]
Returns == Bot.phase = "attempt" /\ Bot' = [Bot EXCEPT !.phase = "ready"]
Exits == \E reason \in Contract!Reason :
           Contract!MayExit(Bot, reason, stopRequested) /\ Bot' = Contract!Exited(Bot, reason)

LEMMA ExitsBy ==
  ASSUME NEW reason \in Contract!Reason, ~Ended, Ended', stoppedReason' = reason,
         UNCHANGED <<durationLeft, stopRequested>>,
         reason = "stop_requested" => stopRequested /\ attempt = "idle",
         reason = "target_completed_games_reached" => attempt = "idle",
         reason = "duration_reached" => durationLeft = 0,
         reason = "error" => attempt # "idle"
  PROVE  Exits
<1>1. Bot' = Contract!Exited(Bot, reason)
  BY DEF Bot, Contract!Exited
<1>2. Contract!MayExit(Bot, reason, stopRequested)
  BY DEF Bot, Contract!MayExit, NoDeadline
<1> QED
  BY <1>1, <1>2 DEF Exits

(* A step of a runner that has not ended, as the contract sees it.         *)
LEMMA BotSteps ==
  ASSUME RunnerInv, DeadlineInv, Runner
  PROVE  (Stutters \/ Begins \/ Returns \/ Exits) /\ UNCHANGED stopRequested
<1> USE DEF DeadlineInv, RunnerInv, RunnerPhase, Ended, Contract!Reason
<1>1. CASE StopAtTop
  <2>1. stoppedReason' \in Contract!Reason
    BY <1>1 DEF StopAtTop, Stop
  <2> QED
    BY <1>1, <2>1, ExitsBy DEF StopAtTop, Stop, DeadlineReached
<1>2. CASE Play
  BY <1>2 DEF Play, MayPlay, DeadlineReached, Begins, Bot, Contract!MayBegin, runnerVars,
     timeVars, NoDeadline
<1>3. CASE ResumeWait
  BY <1>3 DEF ResumeWait, Stutters, Bot, timeVars
<1>4. CASE FinishCancel
  BY <1>4, ExitsBy DEF FinishCancel, runnerVars, timeVars
<1>5. CASE Completed
  BY <1>5 DEF Completed, Returns, Bot, timeVars
<1>6. CASE Raise
  BY <1>6, ExitsBy DEF Raise, timeVars
<1>7. CASE HandleRejection
  <2>1. CASE pc' = "stopped"
    BY <1>7, <2>1, ExitsBy DEF HandleRejection, BackoffBeforeRetry, Stop
  <2>2. CASE pc' # "stopped"
    BY <1>7, <2>2 DEF HandleRejection, BackoffBeforeRetry, Stop, OriginalGameHolds, Returns, Bot
  <2> QED
    BY <2>1, <2>2
<1>8. CASE HandleFailure
  <2>1. CASE pc' = "stopped"
    BY <1>8, <2>1, ExitsBy DEF HandleFailure, BackoffBeforeRetry, Stop
  <2>2. CASE pc' # "stopped"
    BY <1>8, <2>2 DEF HandleFailure, BackoffBeforeRetry, Stop, Returns, Bot
  <2> QED
    BY <2>1, <2>2
<1>9. CASE WakeUp
  <2>1. CASE retry
    BY <1>9, <2>1 DEF WakeUp, Stutters, Bot
  <2>2. CASE ~retry
    BY <1>9, <2>2, ExitsBy DEF WakeUp, Stop
  <2> QED
    BY <2>1, <2>2
<1> QED
  BY <1>1, <1>2, <1>3, <1>4, <1>5, <1>6, <1>7, <1>8, <1>9 DEF Runner

LEMMA ContractStep ==
  ASSUME RunnerInv, DeadlineInv, [Next]_vars
  PROVE  [Contract!Next]_<<Bot, stopRequested>>
<1> DEFINE Reaches == Bot.phase # "exited" /\ Bot.left = "open"
                      /\ Bot' = [Bot EXCEPT !.left = "reached"]
<1>1. CASE (Stutters \/ Begins \/ Returns \/ Exits \/ Reaches) /\ UNCHANGED stopRequested
  BY <1>1 DEF Stutters, Begins, Returns, Exits, Contract!Next, Contract!Goes, Bot
<1>2. CASE Runner
  BY <1>1, <1>2, BotSteps
<1>3. CASE Tick
  BY <1>1, <1>3 DEF Tick, Stutters, Bot, Ended, runnerVars, DeadlineInv, NoDeadline
<1>4. CASE RequestStop
  BY <1>4 DEF RequestStop, Contract!Next, Bot, Ended, runnerVars, timeVars
<1>5. CASE UNCHANGED vars \/ GameStarts \/ AttemptEnds \/ AttemptCancelled \/ OrphanEnds
  BY <1>1, <1>5 DEF vars, runnerVars, timeVars, GameStarts, AttemptEnds, AttemptCancelled,
     OrphanEnds, Stutters, Bot, Ended
<1>6. CASE Cancel
  <2>1. CASE pc' = "cancelling"
    BY <1>1, <1>6, <2>1 DEF Cancel, Stutters, Bot, Ended, timeVars
  <2>2. CASE pc' = "raised"
    BY <1>1, <1>6, <2>2, ExitsBy DEF Cancel, Ended, timeVars, Contract!Reason
  <2> QED
    BY <1>6, <2>1, <2>2 DEF Cancel
<1> QED
  BY <1>2, <1>3, <1>4, <1>5, <1>6 DEF Next, Environment

(* The runner keeps the contract of a bot, for any bounds and backoff.     *)
THEOREM KeepsContractCorrect == Spec => KeepsContract
<1>1. Init => Contract!Init /\ DeadlineInv
  BY BoundsAssumption DEF Init, Contract!Init, Contract!NewBot, Ended, DeadlineInv, NoDeadline
<1>2. Spec => []DeadlineInv
  BY <1>1, DeadlineInductive, PTL DEF Spec
<1>3. RunnerInv /\ DeadlineInv /\ [Next]_vars => [Contract!Next]_<<Bot, stopRequested>>
  BY ContractStep
<1>4. [Contract!Next]_<<Bot, stopRequested>> => [Contract!Next]_(<<Bot, stopRequested>>)
  OBVIOUS
<1> QED
  BY <1>1, <1>2, <1>3, <1>4, RunnerCorrect, PTL DEF Spec, KeepsContract, Contract!Spec, Bot

-----------------------------------------------------------------------------
(* The type invariant, and with it the bounds of the backoff.              *)

LEMMA Bounds ==
  /\ MaxCompletedGames \in Nat \ {0} /\ MaxDuration \in Nat \ {0}
  /\ FailureBudget \in Nat \ {0} /\ OriginalGameWait \in Nat \ {0}
  /\ InitialBackoff \in Nat \ {0} /\ MaxBackoff \in Nat \ {0}
BY BoundsAssumption

(* A power of two counts the subsets of an interval, so it is a positive   *)
(* natural number.                                                         *)
LEMMA PowerOfTwo == ASSUME NEW n \in Nat PROVE 2^n \in Nat \ {0}
<1>1. IsFiniteSet(1..n) /\ Cardinality(1..n) = n
  BY FS_Interval
<1>2. IsFiniteSet(SUBSET (1..n)) /\ Cardinality(SUBSET (1..n)) = 2^n
  BY <1>1, FS_SUBSET, Zenon
<1>3. Cardinality(SUBSET (1..n)) \in Nat
  BY <1>2, FS_CardinalityType
<1>4. SUBSET (1..n) # {}
  OBVIOUS
<1>5. Cardinality(SUBSET (1..n)) # 0
  BY <1>2, <1>4, FS_EmptySet
<1>6. Cardinality(SUBSET (1..n)) \in Nat \ {0}
  BY <1>3, <1>5
<1> QED
  BY <1>2, <1>6, Zenon

LEMMA LesserBounds ==
  ASSUME NEW m \in Nat, NEW a \in 1..m, NEW b \in Nat
  PROVE  /\ Lesser(a, b) <= b
         /\ b # 0 => Lesser(a, b) \in 1..m
BY DEF Lesser

LEMMA BackoffBounds == ASSUME NEW n \in Nat \ {0} PROVE Backoff(n) \in 1..MaxBackoff
<1>1. n - 1 \in Nat
  OBVIOUS
<1>2. PICK p \in Nat \ {0} : p = 2^(n - 1)
  BY <1>1, PowerOfTwo, Zenon
<1>3. Backoff(n) = Lesser(InitialBackoff * p, MaxBackoff)
  BY <1>2, Zenon DEF Backoff
<1>4. InitialBackoff \in Nat \ {0} /\ MaxBackoff \in Nat \ {0}
  BY Bounds
<1>5. InitialBackoff * p \in Nat \ {0}
  BY <1>2, <1>4
<1>6. Lesser(InitialBackoff * p, MaxBackoff) \in 1..MaxBackoff
  BY <1>4, <1>5 DEF Lesser
<1> QED
  BY <1>3, <1>6, Zenon

(* The type invariant falls into what is named and what is counted.        *)
KindsOK ==
  /\ pc \in {"loop", "playing", "waiting", "cancelling", "sleeping", "stopped", "raised"}
  /\ stoppedReason \in StopReason \cup {"none", "cancelled", "error"}
  /\ awaiting \in BOOLEAN /\ retry \in BOOLEAN /\ stopRequested \in BOOLEAN
  /\ attempt \in {"idle", "running"} \cup Result
  /\ started \in BOOLEAN
  /\ orphan \in Orphan

CountsOK ==
  /\ completed \in 0..MaxCompletedGames \cup {NoTarget}
  /\ consecutive \in 0..FailureBudget
  /\ rejections \in Nat
  /\ durationLeft \in 0..MaxDuration \cup {NoDeadline}
  /\ waitLeft \in 0..OriginalGameWait
  /\ sleepLeft \in 0..MaxBackoff

(* A run that plays has not reached its target, and one that has not ended *)
(* has not spent its budget.                                               *)
CountsInv ==
  /\ CountsOK
  /\ pc \in {"playing", "waiting"} => completed < MaxCompletedGames
  /\ ~Ended => consecutive < FailureBudget
  /\ SleepsWithinBounds

BoundsInv == KindsOK /\ CountsInv

LEMMA KindsInductive == KindsOK /\ [Next]_vars => KindsOK'
<1> SUFFICES ASSUME KindsOK, [Next]_vars PROVE KindsOK'
  OBVIOUS
<1> USE DEF KindsOK, StopReason, Orphan, Result
<1>1. CASE UNCHANGED vars \/ OrphanEnds \/ RequestStop
  BY <1>1 DEF vars, runnerVars, OrphanEnds, RequestStop
<1>2. CASE GameStarts
  BY <1>2 DEF GameStarts, LeaveWait
<1>3. CASE AttemptEnds
  BY <1>3 DEF AttemptEnds, runnerVars, MayGoOn
<1>4. CASE AttemptCancelled
  BY <1>4 DEF AttemptCancelled, runnerVars, MayGoOn
<1>5. CASE Tick
  BY <1>5 DEF Tick, runnerVars
<1>6. CASE StopAtTop
  BY <1>6 DEF StopAtTop, Stop
<1>7. CASE Play
  BY <1>7 DEF Play, runnerVars
<1>8. CASE ResumeWait
  BY <1>8 DEF ResumeWait
<1>9. CASE FinishCancel \/ Raise
  BY <1>9 DEF FinishCancel, Raise, runnerVars
<1>10. CASE Completed
  BY <1>10 DEF Completed
<1> DEFINE Retries == /\ pc' \in {"sleeping", "stopped"} /\ retry' \in BOOLEAN
                      /\ stoppedReason' \in {stoppedReason} \cup StopReason
<1>11. ASSUME NEW backoff, BackoffBeforeRetry(backoff) PROVE Retries
  BY <1>11 DEF BackoffBeforeRetry, Stop
<1>12. ASSUME NEW reason \in StopReason, Stop(reason) PROVE Retries
  BY <1>12 DEF Stop
<1>13. CASE HandleRejection
  <2>1. Retries
    BY <1>13, <1>11, <1>12 DEF HandleRejection
  <2> QED
    BY <1>13, <2>1 DEF HandleRejection
<1>14. CASE HandleFailure
  <2>1. Retries
    BY <1>14, <1>11, <1>12 DEF HandleFailure
  <2> QED
    BY <1>14, <2>1 DEF HandleFailure, EnterWait
<1>15. CASE WakeUp
  BY <1>15 DEF WakeUp, Stop
<1>16. CASE Cancel
  BY <1>16 DEF Cancel
<1> QED
  BY <1>1, <1>2, <1>3, <1>4, <1>5, <1>6, <1>7, <1>8, <1>9, <1>10, <1>13, <1>14, <1>15, <1>16
     DEF Next, Runner, Environment

(* The sleep that backoff_before_retry starts.                             *)
Sleeps(backoff) ==
  \/ pc' = "stopped" /\ UNCHANGED sleepLeft
  \/ /\ pc' = "sleeping" /\ sleepLeft' \in 1..backoff
     /\ durationLeft # NoDeadline => sleepLeft' <= durationLeft

LEMMA SleepBounded ==
  ASSUME CountsOK, NEW backoff \in Nat \ {0}, BackoffBeforeRetry(backoff)
  PROVE  Sleeps(backoff)
<1>1. CASE durationLeft = 0
  BY <1>1 DEF BackoffBeforeRetry, Stop, Sleeps
<1>2. CASE durationLeft = NoDeadline
  BY <1>2 DEF BackoffBeforeRetry, Sleeps, NoDeadline
<1>3. CASE durationLeft \in Nat \ {0}
  BY <1>3 DEF BackoffBeforeRetry, Sleeps, NoDeadline, Lesser
<1> QED
  BY <1>1, <1>2, <1>3, Bounds DEF CountsOK

(* What the two handlers of a failed attempt leave behind.                 *)
LEMMA RejectionSleeps ==
  ASSUME CountsInv, HandleRejection
  PROVE  \/ pc' = "stopped" /\ UNCHANGED sleepLeft
         \/ \E backoff \in 1..MaxBackoff : backoff <= waitLeft /\ Sleeps(backoff)
<1>1. Backoff(rejections') \in 1..MaxBackoff
  <2>1. rejections' \in Nat \ {0}
    BY DEF CountsInv, CountsOK, HandleRejection
  <2> QED
    BY <2>1, BackoffBounds
<1>2. PICK backoff : backoff = Lesser(Backoff(rejections'), waitLeft)
  OBVIOUS
<1>3. waitLeft # 0 => backoff \in 1..MaxBackoff /\ backoff <= waitLeft
  <2>1. waitLeft \in Nat /\ MaxBackoff \in Nat
    BY Bounds DEF CountsInv, CountsOK
  <2> QED
    BY <1>1, <1>2, <2>1, LesserBounds
<1>4. CASE Stop("original_game_wait_exhausted")
  BY <1>4 DEF Stop
<1>5. CASE waitLeft # 0 /\ BackoffBeforeRetry(backoff)
  <2>1. backoff \in 1..MaxBackoff /\ backoff \in Nat \ {0} /\ backoff <= waitLeft
    BY <1>3, <1>5, Bounds
  <2> QED
    BY <1>5, <2>1, SleepBounded DEF CountsInv
<1> QED
  BY <1>2, <1>4, <1>5 DEF HandleRejection

LEMMA FailureSleeps ==
  ASSUME CountsInv, KindsOK, HandleFailure
  PROVE  /\ awaiting' \in BOOLEAN /\ waitLeft' \in 0..OriginalGameWait /\ rejections' \in Nat
         /\ consecutive' \in 0..FailureBudget
         /\ \/ pc' = "stopped" /\ UNCHANGED sleepLeft
            \/ /\ consecutive' < FailureBudget
               /\ \E backoff \in 1..MaxBackoff : /\ awaiting' => backoff <= waitLeft'
                                                 /\ Sleeps(backoff)
<1>1. awaiting' \in BOOLEAN /\ waitLeft' \in 0..OriginalGameWait /\ rejections' \in Nat
  <2>1. OriginalGameWait \in 0..OriginalGameWait
    BY Bounds
  <2>2. EnterWait
    BY DEF HandleFailure
  <2>3. awaiting \in BOOLEAN /\ waitLeft \in 0..OriginalGameWait /\ rejections \in Nat
    BY DEF KindsOK, CountsInv, CountsOK
  <2>4. CASE started
    BY <2>1, <2>2, <2>4 DEF EnterWait
  <2>5. CASE ~started
    BY <2>2, <2>3, <2>5 DEF EnterWait
  <2> QED
    BY <2>4, <2>5
<1>2. consecutive' \in 1..FailureBudget
  <2>1. consecutive \in Nat /\ consecutive < FailureBudget /\ consecutive' = consecutive + 1
    BY DEF HandleFailure, CountsInv, CountsOK, Ended
  <2> QED
    BY <2>1, Bounds
<1>3. Backoff(consecutive') \in 1..MaxBackoff
  BY <1>2, BackoffBounds
<1>4. PICK backoff : backoff = CappedByWait(Backoff(consecutive'))
  OBVIOUS
<1>5. ~(awaiting' /\ waitLeft' = 0)
        => backoff \in 1..MaxBackoff /\ (awaiting' => backoff <= waitLeft')
  <2>1. waitLeft' \in Nat /\ MaxBackoff \in Nat
    BY <1>1, Bounds
  <2>2. CASE awaiting'
    <3>1. backoff = Lesser(Backoff(consecutive'), waitLeft')
      BY <1>4, <2>2, Zenon DEF CappedByWait
    <3> QED
      BY <1>3, <2>1, <2>2, <3>1, LesserBounds
  <2>3. CASE ~awaiting'
    <3>1. backoff = Backoff(consecutive')
      BY <1>4, <2>3, Zenon DEF CappedByWait
    <3> QED
      BY <1>3, <2>3, <3>1
  <2> QED
    BY <2>2, <2>3
<1>6. CASE \E reason \in StopReason : Stop(reason)
  BY <1>1, <1>2, <1>6 DEF Stop
<1>7. CASE ~BudgetExhausted(consecutive') /\ ~(awaiting' /\ waitLeft' = 0)
           /\ BackoffBeforeRetry(backoff)
  <2>1. backoff \in 1..MaxBackoff /\ backoff \in Nat \ {0} /\ (awaiting' => backoff <= waitLeft')
    BY <1>5, <1>7, Bounds
  <2>2. Sleeps(backoff)
    BY <1>7, <2>1, SleepBounded DEF CountsInv
  <2>3. consecutive' < FailureBudget
    BY <1>2, <1>7, Bounds DEF BudgetExhausted
  <2> QED
    BY <1>1, <1>2, <2>1, <2>2, <2>3
<1> QED
  BY <1>4, <1>6, <1>7 DEF HandleFailure, StopReason

LEMMA CountsInductive == KindsOK /\ CountsInv /\ [Next]_vars => CountsInv'
<1> SUFFICES ASSUME KindsOK, CountsInv, [Next]_vars PROVE CountsInv'
  OBVIOUS
<1> USE Bounds DEF CountsInv, CountsOK, SleepsWithinBounds, Ended
<1>1. CASE UNCHANGED vars \/ OrphanEnds \/ RequestStop \/ AttemptEnds \/ AttemptCancelled
  BY <1>1 DEF vars, runnerVars, timeVars, OrphanEnds, RequestStop, AttemptEnds, AttemptCancelled
<1>2. CASE GameStarts
  BY <1>2 DEF GameStarts, LeaveWait
<1>3. CASE Tick
  BY <1>3 DEF Tick, runnerVars, NoDeadline
<1>4. CASE StopAtTop
  BY <1>4 DEF StopAtTop, Stop
<1>5. CASE Play
  <2>1. completed < MaxCompletedGames
    BY <1>5 DEF Play, MayPlay, TargetReached, NoTarget
  <2> QED
    BY <1>5, <2>1 DEF Play, runnerVars, timeVars
<1>6. CASE ResumeWait
  BY <1>6 DEF ResumeWait, timeVars
<1>7. CASE FinishCancel \/ Raise
  BY <1>7 DEF FinishCancel, Raise, runnerVars, timeVars
<1>8. CASE Completed
  <2>1. completed' \in 0..MaxCompletedGames \cup {NoTarget}
    BY <1>8 DEF Completed, NoTarget
  <2> QED
    BY <1>8, <2>1 DEF Completed, timeVars
<1>9. CASE HandleRejection
  <2>1. /\ rejections' \in Nat /\ UNCHANGED <<completed, consecutive, awaiting, durationLeft, waitLeft>>
        /\ pc = "playing"
    BY <1>9 DEF HandleRejection
  <2>2. CASE pc' = "stopped" /\ UNCHANGED sleepLeft
    BY <2>1, <2>2
  <2>3. ASSUME NEW backoff \in 1..MaxBackoff, backoff <= waitLeft, Sleeps(backoff) PROVE CountsInv'
    BY <2>1, <2>2, <2>3 DEF Sleeps
  <2> QED
    BY <1>9, <2>2, <2>3, RejectionSleeps
<1>10. CASE HandleFailure
  <2>1. UNCHANGED <<completed, durationLeft>>
    BY <1>10 DEF HandleFailure
  <2>2. /\ awaiting' \in BOOLEAN /\ waitLeft' \in 0..OriginalGameWait /\ rejections' \in Nat
        /\ consecutive' \in 0..FailureBudget
    BY <1>10, FailureSleeps
  <2>3. CASE pc' = "stopped" /\ UNCHANGED sleepLeft
    BY <2>1, <2>2, <2>3
  <2>4. ASSUME NEW backoff \in 1..MaxBackoff, awaiting' => backoff <= waitLeft', Sleeps(backoff),
               consecutive' < FailureBudget
        PROVE  CountsInv'
    BY <2>1, <2>2, <2>3, <2>4 DEF Sleeps
  <2> QED
    BY <1>10, <2>3, <2>4, FailureSleeps
<1>11. CASE WakeUp
  BY <1>11 DEF WakeUp, Stop
<1>12. CASE Cancel
  BY <1>12 DEF Cancel, timeVars
<1> QED
  BY <1>1, <1>2, <1>3, <1>4, <1>5, <1>6, <1>7, <1>8, <1>9, <1>10, <1>11, <1>12
     DEF Next, Runner, Environment

LEMMA TypeParts == TypeOK <=> KindsOK /\ CountsOK
BY DEF TypeOK, KindsOK, CountsOK

(* Every counter and timer of a run stays within its bound, and no sleep   *)
(* outlasts what may end it.                                               *)
THEOREM BoundsCorrect == Spec => []BoundsInv
<1>1. Init => KindsOK
  BY DEF Init, KindsOK, StopReason, Orphan
<1>2. Init => CountsInv
  BY Bounds DEF Init, CountsInv, CountsOK, SleepsWithinBounds, Ended
<1>3. BoundsInv /\ [Next]_vars => BoundsInv'
  BY KindsInductive, CountsInductive DEF BoundsInv
<1> QED
  BY <1>1, <1>2, <1>3, PTL DEF Spec, BoundsInv

(* The counters of a run stay within its bounds and every timer within its *)
(* own, for any backoff.                                                   *)
THEOREM TypeCorrect == Spec => []TypeOK
<1>1. BoundsInv => TypeOK
  BY TypeParts DEF BoundsInv, CountsInv
<1> QED
  BY <1>1, BoundsCorrect, PTL

(* No sleep goes beyond the deadline of the run or the bound of the wait.  *)
THEOREM SleepsWithinBoundsCorrect == Spec => []SleepsWithinBounds
<1>1. BoundsInv => SleepsWithinBounds
  BY DEF BoundsInv, CountsInv
<1> QED
  BY <1>1, BoundsCorrect, PTL

(* A failed attempt is never retried at once: the backoff doubles from a   *)
(* positive one, and nothing that may cut it has passed.                   *)
THEOREM NoHotRetryCorrect == Spec => NoHotRetry
<1>1. ASSUME BoundsInv, [Next]_vars, pc' = "sleeping", pc # "sleeping" PROVE sleepLeft' > 0
  <2>1. HandleRejection \/ HandleFailure
    BY <1>1 DEF Next, Runner, Environment, vars, StopAtTop, Stop, Play, ResumeWait, FinishCancel,
       Completed, Raise, WakeUp, GameStarts, AttemptEnds, OrphanEnds, RequestStop,
       AttemptCancelled, Tick, Cancel
  <2>2. PICK backoff \in 1..MaxBackoff : Sleeps(backoff)
    BY <1>1, <2>1, RejectionSleeps, FailureSleeps DEF BoundsInv
  <2> QED
    BY <1>1, <2>2, Bounds DEF Sleeps
<1>2. BoundsInv /\ [Next]_vars => [pc' = "sleeping" /\ pc # "sleeping" => sleepLeft' > 0]_vars
  BY <1>1
<1> QED
  BY <1>2, BoundsCorrect, PTL DEF Spec, NoHotRetry

(* The wait for the original game belongs to an attempt that has not       *)
(* started a game: only one that had could set its bound anew.             *)
WaitInv == awaiting => ~started

LEMMA WaitInductive ==
  ASSUME RunnerInv, WaitInv, [Next]_vars
  PROVE  WaitInv'
<1> USE DEF WaitInv, RunnerInv, RunnerPhase
<1>1. CASE UNCHANGED vars \/ AttemptEnds \/ AttemptCancelled \/ OrphanEnds \/ RequestStop \/ Tick
  BY <1>1 DEF vars, runnerVars, AttemptEnds, AttemptCancelled, OrphanEnds, RequestStop, Tick
<1>2. CASE GameStarts
  BY <1>2 DEF GameStarts, LeaveWait
<1>3. CASE StopAtTop \/ ResumeWait \/ FinishCancel \/ Raise \/ WakeUp \/ Cancel
  BY <1>3 DEF StopAtTop, ResumeWait, FinishCancel, Raise, WakeUp, Cancel, runnerVars
<1>4. CASE Play \/ Completed \/ HandleRejection \/ HandleFailure
  BY <1>4 DEF Play, Completed, HandleRejection, HandleFailure
<1> QED
  BY <1>1, <1>2, <1>3, <1>4 DEF Next, Runner, Environment

(* The wait for the original game never grows: what the server does within *)
(* it, and how often it rejects, buys it no time.                          *)
THEOREM WaitNeverExtendedCorrect == Spec => WaitNeverExtended
<1>1. Init => WaitInv
  BY DEF Init, WaitInv
<1>2. RunnerInv /\ WaitInv /\ [Next]_vars => WaitInv'
  BY WaitInductive
<1>3. ASSUME WaitInv, BoundsInv, [Next]_vars, awaiting, awaiting'
      PROVE  waitLeft' <= waitLeft
  <2> waitLeft \in Nat
    BY <1>3 DEF BoundsInv, CountsInv, CountsOK
  <2>1. UNCHANGED waitLeft \/ Tick
    BY <1>3 DEF WaitInv, Next, Runner, Environment, vars, runnerVars, timeVars, GameStarts,
       LeaveWait, AttemptEnds, AttemptCancelled, OrphanEnds, RequestStop, StopAtTop, Play,
       ResumeWait, FinishCancel, Completed, Raise, HandleRejection, HandleFailure, EnterWait,
       WakeUp, Cancel
  <2> QED
    BY <2>1 DEF Tick
<1>4. WaitInv /\ BoundsInv /\ [Next]_vars => [awaiting /\ awaiting' => waitLeft' <= waitLeft]_vars
  BY <1>3
<1> QED
  BY <1>1, <1>2, <1>4, RunnerCorrect, BoundsCorrect, PTL DEF Spec, WaitNeverExtended
=============================================================================
