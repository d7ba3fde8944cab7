-------------------------- MODULE ContinuousRanked --------------------------
(***************************************************************************)
(* run_continuous_ranked (riichilab/continuous_ranked.py): game after game *)
(* on fresh connections, with a failure budget, a backoff, a graceful stop *)
(* and, after a connection lost in a game, the original-game wait.         *)
(*                                                                         *)
(* Time is counted down in ticks of the event loop's clock: what is left   *)
(* until the deadline, the bound of the wait and the end of a sleep. A     *)
(* timer never fires early; it may be served late. Counters that are only  *)
(* reported (failed_games, the total of rejections) are left out.          *)
(***************************************************************************)
EXTENDS Integers

CONSTANTS
  MaxCompletedGames,  (* max_completed_games of a run that has one           *)
  MaxDuration,        (* max_duration_seconds, in ticks                     *)
  FailureBudget,
  OriginalGameWait,   (* original_game_wait_seconds, in ticks               *)
  InitialBackoff, MaxBackoff

NoTarget == -1

ASSUME BoundsAssumption ==
  /\ {MaxCompletedGames, MaxDuration, FailureBudget, OriginalGameWait, InitialBackoff, MaxBackoff}
       \subseteq Nat \ {0}

NoDeadline == -1

VARIABLES
  pc,             (* where the runner is                                    *)
  stoppedReason,  (* stopped_reason, or "cancelled" for a CancelledError    *)
  completed,      (* completed_games up to a target; NoTarget without one   *)
  consecutive, awaiting, rejections,
  durationLeft,   (* until the deadline; NoDeadline without one             *)
  waitLeft,       (* wait_remaining(), while awaiting                       *)
  sleepLeft,
  retry,          (* backoff_before_retry will return True                  *)
  stopRequested,
  \* the current attempt: run_ranked_game on its own connection
  attempt,        (* "idle", "running" or its result, until handled         *)
  started,        (* its start_game was accepted: phase in_game             *)
  \* the server
  orphan          (* it still plays a game whose connection was lost        *)

runnerVars == <<stoppedReason, completed, consecutive, awaiting, rejections, retry>>
timeVars == <<durationLeft, waitLeft, sleepLeft>>
vars == <<pc, runnerVars, timeVars, stopRequested, attempt, started, orphan>>

StopReason == {"target_completed_games_reached", "duration_reached", "stop_requested",
               "original_game_wait_exhausted", "failure_budget_exhausted"}

(* "announced": the client had accepted the start_game of that game.       *)
Orphan == {"none", "announced", "unannounced"}

(* "rejected": a TransportError whose reason is same_bot_already_active;   *)
(* "lost": any other one; "error": what the runner does not catch.         *)
Result == {"ok", "rejected", "lost", "error", "cancelled"}

TypeOK ==
  /\ pc \in {"loop", "playing", "waiting", "cancelling", "sleeping", "stopped", "raised"}
  /\ stoppedReason \in StopReason \cup {"none", "cancelled", "error"}
  /\ completed \in 0..MaxCompletedGames \cup {NoTarget}
  /\ consecutive \in 0..FailureBudget
  /\ awaiting \in BOOLEAN
  /\ rejections \in Nat
  /\ durationLeft \in 0..MaxDuration \cup {NoDeadline}
  /\ waitLeft \in 0..OriginalGameWait
  /\ sleepLeft \in 0..MaxBackoff
  /\ retry \in BOOLEAN
  /\ stopRequested \in BOOLEAN
  /\ attempt \in {"idle", "running"} \cup Result
  /\ started \in BOOLEAN
  /\ orphan \in Orphan

Init ==
  /\ pc = "loop" /\ stoppedReason = "none"
  /\ completed \in {0, NoTarget} /\ consecutive = 0 /\ awaiting = FALSE /\ rejections = 0
  /\ durationLeft \in {MaxDuration, NoDeadline}
  /\ waitLeft = 0 /\ sleepLeft = 0 /\ retry = FALSE
  /\ stopRequested = FALSE
  /\ attempt = "idle" /\ started = FALSE /\ orphan = "none"

-----------------------------------------------------------------------------
(* The environment: the server, the games, the clock and the operator.     *)

(* Operators whose name starts with "Bug" are not part of the model: each  *)
(* is a plausible bug of the definition after it, which the runs notice.   *)

(* on_game_started, which only the attempts of a wait are given.           *)
LeaveWait == awaiting' = FALSE /\ rejections' = 0 /\ waitLeft' = 0

(* The server starts no second game for a bot that still plays one.        *)
GameStarts ==
  /\ pc \in {"playing", "waiting"}
  /\ attempt = "running" /\ ~started /\ orphan = "none"
  /\ started' = TRUE
  /\ IF pc = "waiting"
     THEN LeaveWait
     ELSE UNCHANGED <<awaiting, rejections, waitLeft>>
  /\ UNCHANGED <<pc, stoppedReason, completed, consecutive, retry, durationLeft,
                 sleepLeft, stopRequested, attempt, orphan>>

(* A game whose connection is lost may go on without the client, also one  *)
(* that the server had started and the client had not yet heard of.        *)
MayGoOn == IF started THEN {"none", "announced"}
           ELSE IF orphan = "none" THEN {"none", "unannounced"} ELSE {orphan}

AttemptEnds ==
  /\ pc \in {"playing", "waiting"}
  /\ attempt = "running"
  /\ attempt' \in IF started THEN {"ok", "rejected", "lost", "error"}
                             ELSE {"rejected", "lost", "error"}
  /\ orphan' \in IF attempt' \in {"rejected", "lost"} THEN MayGoOn ELSE {orphan}
  /\ UNCHANGED <<pc, runnerVars, timeVars, stopRequested, started>>

(* A cancelled attempt has closed its connection and joined its worker.    *)
AttemptCancelled ==
  /\ attempt = "running"
  /\ stoppedReason # "none"
  /\ attempt' = "cancelled"
  /\ orphan' \in MayGoOn
  /\ UNCHANGED <<pc, runnerVars, timeVars, stopRequested, started>>

OrphanEnds ==
  /\ orphan # "none"
  /\ orphan' = "none"
  /\ UNCHANGED <<pc, runnerVars, timeVars, stopRequested, attempt, started>>

RequestStop ==
  /\ ~stopRequested
  /\ stopRequested' = TRUE
  /\ UNCHANGED <<pc, runnerVars, timeVars, attempt, started, orphan>>

Tick ==
  /\ pc \notin {"stopped", "raised"}
  /\ durationLeft' = IF durationLeft > 0 THEN durationLeft - 1 ELSE durationLeft
  /\ waitLeft' = IF waitLeft > 0 THEN waitLeft - 1 ELSE 0
  /\ sleepLeft' = IF sleepLeft > 0 THEN sleepLeft - 1 ELSE 0
  /\ timeVars' # timeVars
  /\ UNCHANGED <<pc, runnerVars, stopRequested, attempt, started, orphan>>

-----------------------------------------------------------------------------
(* The loop.                                                               *)

Stop(reason) ==
  /\ pc' = "stopped"
  /\ stoppedReason' = reason
  /\ UNCHANGED <<sleepLeft, retry>>

TargetReached == completed >= MaxCompletedGames
DeadlineReached == durationLeft = 0
WaitExhausted == awaiting /\ waitLeft = 0

(* The tests at the top of the loop, in their order.                       *)
StopAtTop ==
  /\ pc = "loop"
  /\ \/ TargetReached /\ Stop("target_completed_games_reached")
     \/ ~TargetReached /\ DeadlineReached /\ Stop("duration_reached")
     \/ ~TargetReached /\ ~DeadlineReached /\ stopRequested /\ Stop("stop_requested")
     \/ /\ ~TargetReached /\ ~DeadlineReached /\ ~stopRequested /\ WaitExhausted
        /\ Stop("original_game_wait_exhausted")
  /\ UNCHANGED <<completed, consecutive, awaiting, rejections, durationLeft, waitLeft,
                 stopRequested, attempt, started, orphan>>

BugPlayOnForever == ~(TargetReached \/ DeadlineReached \/ WaitExhausted)
MayPlay == ~(TargetReached \/ DeadlineReached \/ stopRequested \/ WaitExhausted)

(* A fresh Policy and a fresh connection; in a wait the attempt is watched. *)
Play ==
  /\ pc = "loop"
  /\ MayPlay
  /\ pc' = IF awaiting THEN "waiting" ELSE "playing"
  /\ attempt' = "running" /\ started' = FALSE
  /\ UNCHANGED <<runnerVars, timeVars, stopRequested, orphan>>

BugWaitWithoutBound == attempt # "running" \/ started
WaitReturns == attempt # "running" \/ started \/ waitLeft = 0

BugCancelOnTimeout == attempt = "running" /\ waitLeft = 0
CancelAttempt == attempt = "running" /\ ~started

(* play_one_game_while_waiting: the wait returns when the attempt is done, *)
(* a game has started, or the bound has passed. Only then does the runner  *)
(* look again, and by then a game may have started after all.              *)
ResumeWait ==
  /\ pc = "waiting"
  /\ WaitReturns
  /\ IF CancelAttempt
     THEN pc' = "cancelling" /\ stoppedReason' = "original_game_wait_exhausted"
     ELSE pc' = "playing" /\ UNCHANGED stoppedReason
  /\ UNCHANGED <<completed, consecutive, awaiting, rejections, retry, timeVars,
                 stopRequested, attempt, started, orphan>>

(* cancel_and_wait: only the end of the attempt is awaited, its result is  *)
(* ignored.                                                                *)
FinishCancel ==
  /\ pc = "cancelling"
  /\ attempt = "cancelled"
  /\ pc' = IF stoppedReason = "cancelled" THEN "raised" ELSE "stopped"
  /\ UNCHANGED <<runnerVars, timeVars, stopRequested, attempt, started, orphan>>

Completed ==
  /\ pc = "playing" /\ attempt = "ok"
  /\ completed' = IF completed = NoTarget THEN NoTarget ELSE completed + 1
  /\ consecutive' = 0
  /\ pc' = "loop" /\ attempt' = "idle" /\ started' = FALSE
  /\ UNCHANGED <<stoppedReason, awaiting, rejections, retry, timeVars, stopRequested, orphan>>

(* ProtocolError, adapter, trace and record failures are never retried.    *)
Raise ==
  /\ pc = "playing" /\ attempt = "error"
  /\ pc' = "raised" /\ stoppedReason' = "error"
  /\ UNCHANGED <<completed, consecutive, awaiting, rejections, retry, timeVars,
                 stopRequested, attempt, started, orphan>>

Lesser(a, b) == IF a <= b THEN a ELSE b

(* _backoff_seconds *)
Backoff(n) == Lesser(InitialBackoff * 2^(n - 1), MaxBackoff)

(* backoff_before_retry: no sleep goes beyond the deadline, and the one    *)
(* that is cut at the deadline is followed by no retry.                    *)
BackoffBeforeRetry(backoff) ==
  IF durationLeft = 0
  THEN Stop("duration_reached")
  ELSE /\ pc' = "sleeping"
       /\ retry' = (durationLeft = NoDeadline \/ backoff <= durationLeft)
       /\ sleepLeft' = IF durationLeft = NoDeadline THEN backoff
                                                    ELSE Lesser(backoff, durationLeft)
       /\ UNCHANGED stoppedReason

BugHoldsWithinBound == awaiting /\ ~started /\ attempt = "rejected" /\ waitLeft > 0

(* The server rejects the attempt because the original game holds the bot: *)
(* that is no failure of a game.                                           *)
OriginalGameHolds == awaiting /\ ~started /\ attempt = "rejected"

HandleRejection ==
  /\ pc = "playing" /\ OriginalGameHolds
  /\ rejections' = rejections + 1
  /\ IF waitLeft = 0
     THEN Stop("original_game_wait_exhausted")
     ELSE BackoffBeforeRetry(Lesser(Backoff(rejections'), waitLeft))
  /\ attempt' = "idle" /\ started' = FALSE
  /\ UNCHANGED <<completed, consecutive, awaiting, durationLeft, waitLeft,
                 stopRequested, orphan>>

BugWaitAfterLossOnly ==
  IF started /\ attempt = "lost"
  THEN awaiting' = TRUE /\ waitLeft' = OriginalGameWait /\ rejections' = 0
  ELSE UNCHANGED <<awaiting, waitLeft, rejections>>

EnterWait ==
  IF started
  THEN awaiting' = TRUE /\ waitLeft' = OriginalGameWait /\ rejections' = 0
  ELSE UNCHANGED <<awaiting, waitLeft, rejections>>

BudgetExhausted(failures) == failures >= FailureBudget

CappedByWait(backoff) == IF awaiting' THEN Lesser(backoff, waitLeft') ELSE backoff

(* A failure in a game starts the wait for that game anew.                 *)
HandleFailure ==
  /\ pc = "playing" /\ attempt \in {"rejected", "lost"} /\ ~OriginalGameHolds
  /\ consecutive' = consecutive + 1
  /\ EnterWait
  /\ IF BudgetExhausted(consecutive')
     THEN Stop("failure_budget_exhausted")
     ELSE IF awaiting' /\ waitLeft' = 0
     THEN Stop("original_game_wait_exhausted")
     ELSE BackoffBeforeRetry(CappedByWait(Backoff(consecutive')))
  /\ attempt' = "idle" /\ started' = FALSE
  /\ UNCHANGED <<completed, durationLeft, stopRequested, orphan>>

WakeUp ==
  /\ pc = "sleeping" /\ sleepLeft = 0
  /\ IF retry THEN pc' = "loop" /\ UNCHANGED <<stoppedReason, sleepLeft, retry>>
              ELSE Stop("duration_reached")
  /\ UNCHANGED <<completed, consecutive, awaiting, rejections, durationLeft, waitLeft,
                 stopRequested, attempt, started, orphan>>

(* A CancelledError reaches the runner at an await. It cancels the attempt *)
(* and waits for it, unless it already was waiting for that.               *)
Cancel ==
  /\ pc \in {"playing", "waiting", "cancelling", "sleeping"}
  /\ stoppedReason' = "cancelled"
  /\ pc' = IF pc \in {"playing", "waiting"} /\ attempt = "running"
           THEN "cancelling" ELSE "raised"
  /\ UNCHANGED <<completed, consecutive, awaiting, rejections, retry, timeVars,
                 stopRequested, attempt, started, orphan>>

-----------------------------------------------------------------------------
Runner == \/ StopAtTop \/ Play \/ ResumeWait \/ FinishCancel \/ Completed \/ Raise
          \/ HandleRejection \/ HandleFailure \/ WakeUp
Environment == GameStarts \/ AttemptEnds \/ OrphanEnds \/ RequestStop

Next == Runner \/ Environment \/ AttemptCancelled \/ Tick \/ Cancel

Spec == Init /\ [][Next]_vars

(* The loop is scheduled, time passes, and a cancelled attempt ends. No    *)
(* fairness for the server: an attempt may hang before its start_game.     *)
Fairness == WF_vars(Runner) /\ WF_vars(Tick) /\ WF_vars(AttemptCancelled)

FairSpec == Spec /\ Fairness

-----------------------------------------------------------------------------
Ended == pc \in {"stopped", "raised"}

(* The runner awaits every game it knows of that the server plays on       *)
(* without it, until that game has ended or the run is ending.             *)
OrphanIsAwaited ==
  orphan = "announced" => \/ awaiting
                          \/ started /\ attempt \in {"rejected", "lost"}
                          \/ stoppedReason # "none"

(* A rejection by the bot's own orphaned game never brings the run closer  *)
(* to its failure budget.                                                  *)
OrphanSparesBudget ==
  [][orphan = "announced" /\ attempt = "rejected" /\ ~started
       => consecutive' = consecutive]_vars

(* The bound of the wait never cancels a game that has started, also when  *)
(* start_game and the timer race; and start_game ends the wait, so that    *)
(* its bound hangs over no game that is being played, nor its loss.        *)
StartedGamePlaysOn ==
  /\ pc = "cancelling" /\ started => stoppedReason = "cancelled"
  /\ awaiting => ~(attempt = "running" /\ started)

(* A run that returns a summary leaves no attempt behind.                  *)
NothingLeftRunning == pc = "stopped" => attempt # "running"

(* The runner is a bot as the rest of an AWS run knows it: it begins no    *)
(* game after a stop request or the deadline, a stop request interrupts    *)
(* none, and it reports no reason that has not come about.                 *)
Contract == INSTANCE BotContract WITH
  bot <- [phase |-> IF Ended THEN "exited" ELSE IF attempt = "idle" THEN "ready"
                    ELSE "attempt",
          reason |-> IF Ended THEN stoppedReason ELSE "none",
          left |-> IF durationLeft = NoDeadline THEN "unbounded"
                   ELSE IF durationLeft = 0 THEN "reached" ELSE "open"],
  stop <- stopRequested

KeepsContract == Contract!Spec

(* What the proofs add: where the runner is fixes what its attempt can be. *)
RunnerPhase ==
  /\ pc \in {"loop", "playing", "waiting", "sleeping"} <=> stoppedReason = "none"
  /\ pc \in {"loop", "sleeping"} => attempt = "idle"
  /\ started \in BOOLEAN /\ awaiting \in BOOLEAN /\ orphan \in Orphan
  /\ pc = "playing" /\ attempt = "running" => ~awaiting
  /\ pc = "cancelling" => stoppedReason \in {"cancelled", "original_game_wait_exhausted"}

RunnerInv ==
  OrphanIsAwaited /\ StartedGamePlaysOn /\ NothingLeftRunning /\ RunnerPhase

(* No sleep outlasts the largest backoff, the deadline or, while the       *)
(* original game is awaited, the bound of the wait: backoff_before_retry   *)
(* has cut it before, and nothing moves a bound closer during the sleep.   *)
SleepsWithinBounds ==
  pc = "sleeping" => /\ sleepLeft <= MaxBackoff
                     /\ durationLeft # NoDeadline => sleepLeft <= durationLeft
                     /\ awaiting => sleepLeft <= waitLeft

(* While the original game is awaited nothing moves the bound of the wait  *)
(* away: neither a rejection nor a connection lost before its start_game.  *)
WaitNeverExtended == [][awaiting /\ awaiting' => waitLeft' <= waitLeft]_vars

(* A failed attempt is never retried at once, whatever cuts the backoff.   *)
NoHotRetry == [][pc' = "sleeping" /\ pc # "sleeping" => sleepLeft' > 0]_vars

(* The original-game wait is finite whatever the server does: it rejects   *)
(* every attempt, or accepts one and never starts a game.                  *)
WaitEnds == awaiting ~> ~awaiting \/ Ended

(* If every attempt ends, a stop request ends the run, so does the         *)
(* deadline, and so does a server that starts no more games: rejections    *)
(* and losses use up the failure budget, or the wait that spares it.       *)
StopEnds ==
  WF_vars(AttemptEnds) =>
    /\ (stopRequested \/ durationLeft # NoDeadline) ~> Ended
    /\ <>[]~started => <>Ended
=============================================================================
