---------------------------- MODULE EventContract ----------------------------
(***************************************************************************)
(* What one locked event promises to whatever runs it: it is played only   *)
(* while nothing of it has been published, succeeds only with everything   *)
(* published, and can be killed at any time. FormalEvent implements it;    *)
(* StageWatchdog is built on it and on nothing else of an event.           *)
(***************************************************************************)
VARIABLES
  event,   (* this execution of the lock                                    *)
  outputs  (* what is at the destinations                                   *)

eventVars == <<event, outputs>>

EventOver == event \in {"succeeded", "failed"}

EventTypeOK ==
  /\ event \in {"idle", "running", "succeeded", "failed"}
  /\ outputs \in {"none", "partial", "whole"}

EventInit == event = "idle" /\ outputs = "none"

Begin ==
  /\ event = "idle"
  /\ event' = IF outputs = "none" THEN "running" ELSE "failed"
  /\ UNCHANGED outputs

(* Publishing, or taking back what was published.                          *)
Work ==
  /\ event = "running"
  /\ outputs' \in {"none", "partial"} /\ UNCHANGED event

Succeed ==
  /\ event = "running"
  /\ event' = "succeeded" /\ outputs' = "whole"

(* Also when it is killed.                                                 *)
Fail ==
  /\ event = "running"
  /\ event' = "failed" /\ UNCHANGED outputs

Again == EventOver /\ event' = "idle" /\ UNCHANGED outputs

Next == Begin \/ Work \/ Succeed \/ Fail \/ Again

Spec == EventInit /\ [][Next]_eventVars
=============================================================================
