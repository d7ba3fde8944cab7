-------------------------- MODULE CheckpointLedger --------------------------
(***************************************************************************)
(* What durable per-seed checkpoints promise to whoever audits a run after *)
(* the machine has crashed: the completion of a seed is recorded at most   *)
(* once, never altered and never lost, and a call that has returned has    *)
(* recorded its own.                                                       *)
(***************************************************************************)
CONSTANTS Seeds, Calls, NoFile

VARIABLES
  recorded,     (* seed -> the call whose completion is recorded, or NoFile *)
  acknowledged  (* the calls that have returned                             *)

vars == <<recorded, acknowledged>>

Init == recorded = [s \in Seeds |-> NoFile] /\ acknowledged = {}

(* Records are only added.                                                 *)
Extended ==
  /\ recorded' \in [Seeds -> Calls \cup {NoFile}]
  /\ \A s \in Seeds : recorded[s] # NoFile => recorded'[s] = recorded[s]

Record == Extended /\ UNCHANGED acknowledged

Acknowledge(c) ==
  /\ Extended
  /\ \E s \in Seeds : recorded'[s] = c
  /\ acknowledged' = acknowledged \cup {c}

Next == Record \/ \E c \in Calls : Acknowledge(c)

Spec == Init /\ [][Next]_vars
=============================================================================
