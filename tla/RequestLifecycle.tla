-------------------------- MODULE RequestLifecycle --------------------------
(***************************************************************************)
(* What the client promises of the requests of one game, whatever the      *)
(* transport, the worker and the clock do: requests are opened in id       *)
(* order, one at a time; an open request is settled once, by an answer or  *)
(* by giving it up; the game is over only when every request is settled.   *)
(* docs/riichilab-client.md and session.py state it piecewise.             *)
(***************************************************************************)
EXTENDS Integers

CONSTANT RequestIds

VARIABLES
  status,  (* request -> "unseen", "open", "answered" or "given_up"         *)
  game     (* "running", "over", or "failed" when the call raised           *)

vars == <<status, game>>

Init ==
  /\ status = [r \in RequestIds |-> "unseen"]
  /\ game = "running"

IsOpen(r) == status[r] = "open"
NoneOpen == \A r \in RequestIds : ~IsOpen(r)

(* The request that overflows the backlog is the last one of a failed game. *)
Open(r) ==
  /\ game = "running"
  /\ NoneOpen
  /\ \A q \in RequestIds : status[q] # "unseen" => q < r
  /\ status' = [status EXCEPT ![r] = "open"]
  /\ game' \in {"running", "failed"}

Answer(r) ==
  /\ game = "running"
  /\ IsOpen(r)
  /\ status' = [status EXCEPT ![r] = "answered"]
  /\ UNCHANGED game

GiveUp(r) ==
  /\ game = "running"
  /\ IsOpen(r)
  /\ status' = [status EXCEPT ![r] = "given_up"]
  /\ UNCHANGED game

Finish ==
  /\ game = "running"
  /\ NoneOpen
  /\ game' = "over"
  /\ UNCHANGED status

Fail ==
  /\ game # "failed"
  /\ game' = "failed"
  /\ UNCHANGED status

Next == (\E r \in RequestIds : Open(r) \/ Answer(r) \/ GiveUp(r)) \/ Finish \/ Fail

Spec == Init /\ [][Next]_vars
=============================================================================
