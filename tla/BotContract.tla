---------------------------- MODULE BotContract ----------------------------
(***************************************************************************)
(* What one bot process of an AWS run promises to the run around it: when  *)
(* it begins a game and for which reasons it exits. ContinuousRanked       *)
(* implements it; InstanceRun is built on it and on nothing else of a bot. *)
(***************************************************************************)
VARIABLES bot, stop

Reason == {"target_completed_games_reached", "duration_reached", "stop_requested",
           "original_game_wait_exhausted", "failure_budget_exhausted",
           "error", "cancelled", "killed"}

BotState == [phase: {"ready", "attempt", "exited"},
             reason: Reason \cup {"none"},
             left: {"unbounded", "open", "reached"}]   (* its deadline *)

NewBot(left) == [phase |-> "ready", reason |-> "none", left |-> left]

MayBegin(b, s) == b.phase = "ready" /\ ~s /\ b.left # "reached"

(* A stop request never interrupts a game, and no exit is called           *)
(* duration_reached before the deadline.                                   *)
MayExit(b, reason, s) ==
  /\ b.phase # "exited"
  /\ reason = "stop_requested" => s /\ b.phase = "ready"
  /\ reason = "target_completed_games_reached" => b.phase = "ready"
  /\ reason = "duration_reached" => b.left = "reached"
  /\ reason = "error" => b.phase = "attempt"

Exited(b, reason) == [phase |-> "exited", reason |-> reason, left |-> b.left]

Goes(b, next, s) ==
  \/ MayBegin(b, s) /\ next = [b EXCEPT !.phase = "attempt"]
  \/ b.phase = "attempt" /\ next = [b EXCEPT !.phase = "ready"]
  \/ b.phase # "exited" /\ b.left = "open" /\ next = [b EXCEPT !.left = "reached"]
  \/ \E reason \in Reason : MayExit(b, reason, s) /\ next = Exited(b, reason)

Init == bot \in {NewBot("unbounded"), NewBot("open")} /\ stop = FALSE
Next == \/ Goes(bot, bot', stop) /\ UNCHANGED stop
        \/ ~stop /\ stop' = TRUE /\ UNCHANGED bot
Spec == Init /\ [][Next]_<<bot, stop>>
=============================================================================
