---------------------------- MODULE StageWatchdog ----------------------------
(***************************************************************************)
(* The watchdog that runs an event as its stage                            *)
(* (scripts/aws/learning-573-watchdog.py): systemd-run starts the command  *)
(* behind a barrier in a scope of the stage's name; the watchdog polls the *)
(* scope, reads its final memory peak once the command is done, releases   *)
(* the barrier, stops the scope at a limit, and writes one record.         *)
(*                                                                         *)
(* Watchdogs of the same stage may be invoked one after another or at the  *)
(* same time. A watchdog may die and the machine reboot; the files stay.   *)
(* Limits are choices, made where the code looks at them.                  *)
(***************************************************************************)
EXTENDS EventContract, Naturals

CONSTANT Invocations

ASSUME InvocationsAssumption == "none" \notin Invocations

VARIABLES
  dog,      (* of each invocation: the watchdog                             *)
  proc,     (* ... and the process it started                               *)
  unit,     (* the scope, in systemd                                        *)
  done,     (* NAME.command-done.json exists                                *)
  release,  (* NAME.release exists                                          *)
  record    (* NAME.watchdog.json, or NoRecord                              *)

stageVars == <<dog, proc, unit, done, release, record>>

NoRecord == [by |-> "none", exit |-> 0]

DogEnded == {"ended", "refused", "raised", "dead"}

Place == {"check", "popen", "poll", "resolve", "peak", "done", "release", "limits",
          "stopping", "finish", "write"} \cup DogEnded

DogState ==
  [at : Place,
   resolved : BOOLEAN,       (* peak_path is known                          *)
   \* final_peak_recorded: what its own process was doing then
   final : {"no", "starting", "command", "returned", "barrier", "exited"},
   stopped : BOOLEAN]        (* stopped_by is set                           *)

ProcState == [at : {"none", "starting", "command", "returned", "barrier", "exited"},
              code : {0, 1}]

StageTypeOK ==
  /\ dog \in [Invocations -> DogState]
  /\ proc \in [Invocations -> ProcState]
  /\ unit \in {"none", "active", "failed"}
  /\ {done, release} \subseteq BOOLEAN
  /\ record \in {NoRecord} \cup [by : Invocations, exit : {0, 1, 124}]

StageInit ==
  /\ EventInit
  /\ dog = [w \in Invocations |-> [at |-> "check", resolved |-> FALSE,
                                   final |-> "no", stopped |-> FALSE]]
  /\ proc = [w \in Invocations |-> [at |-> "none", code |-> 0]]
  /\ unit = "none" /\ done = FALSE /\ release = FALSE /\ record = NoRecord

InScope(w) == proc[w].at \in {"command", "returned", "barrier"}
Playing == \E w \in Invocations : proc[w].at = "command"

-----------------------------------------------------------------------------
(* The scope and the barrier process in it (_execute_barrier).             *)

(* Operators whose name starts with "Bug" are not part of the model: each  *)
(* is a plausible bug of the definition after it, which the run notices.   *)

SetProc(w, at, code) == proc' = [proc EXCEPT ![w] = [at |-> at, code |-> code]]

EventStep == Playing /\ (Begin \/ Work \/ Succeed \/ Fail) /\ UNCHANGED stageVars

(* systemd refuses a second unit of the same name.                         *)
Activate(w) ==
  /\ proc[w].at = "starting"
  /\ IF unit = "none"
     THEN /\ unit' = "active" /\ SetProc(w, "command", 0)
          /\ IF EventOver THEN Again ELSE UNCHANGED eventVars
     ELSE SetProc(w, "exited", 1) /\ UNCHANGED <<unit, eventVars>>
  /\ UNCHANGED <<dog, done, release, record>>

CommandReturns(w) ==
  /\ proc[w].at = "command" /\ EventOver
  /\ SetProc(w, "returned", IF event = "succeeded" THEN 0 ELSE 1)
  /\ UNCHANGED <<eventVars, dog, unit, done, release, record>>

BugOverwriteDone(w) ==
  /\ proc[w].at = "returned"
  /\ done' = TRUE /\ SetProc(w, "barrier", proc[w].code)
  /\ UNCHANGED <<eventVars, unit, dog, release, record>>

(* The barrier file is written once: whoever finds it there fails.         *)
WriteDone(w) ==
  /\ proc[w].at = "returned"
  /\ IF done
     THEN SetProc(w, "exited", 1) /\ unit' = "none" /\ UNCHANGED done
     ELSE done' = TRUE /\ SetProc(w, "barrier", proc[w].code) /\ UNCHANGED unit
  /\ UNCHANGED <<eventVars, dog, release, record>>

LeaveBarrier(w) ==
  /\ proc[w].at = "barrier" /\ release
  /\ SetProc(w, "exited", proc[w].code) /\ unit' = "none"
  /\ UNCHANGED <<eventVars, dog, done, release, record>>

KillEvent == IF event = "running" THEN Fail ELSE UNCHANGED eventVars

(* What is in the scope ends, and with it the event.                       *)
EndScope ==
  /\ proc' = [w \in Invocations |-> IF InScope(w) THEN [at |-> "exited", code |-> 1]
                                    ELSE proc[w]]
  /\ KillEvent

BugCommandLimit ==
  /\ unit = "active" /\ Playing
  /\ EndScope /\ unit' = "failed"
  /\ UNCHANGED <<dog, done, release, record>>

(* RuntimeMaxSec, or the kernel at MemoryMax.                              *)
ScopeLimit ==
  /\ unit = "active"
  /\ EndScope /\ unit' = "failed"
  /\ UNCHANGED <<dog, done, release, record>>

-----------------------------------------------------------------------------
(* The watchdog.                                                           *)

Goto(w, place) == dog' = [dog EXCEPT ![w].at = place]
StopFor(w) == dog' = [dog EXCEPT ![w].at = "stopping", ![w].stopped = TRUE]
OnlyDog == UNCHANGED <<eventVars, proc, unit, done, release, record>>

(* The cumulative limit may be spent before the stage starts.              *)
Check(w) ==
  /\ dog[w].at = "check"
  /\ IF record # NoRecord THEN Goto(w, "refused")
     ELSE IF done \/ release THEN Goto(w, "raised")
     ELSE \/ Goto(w, "popen")
          \/ dog' = [dog EXCEPT ![w].at = "write", ![w].stopped = TRUE]
  /\ OnlyDog

Popen(w) ==
  /\ dog[w].at = "popen"
  /\ Goto(w, "poll") /\ SetProc(w, "starting", 0)
  /\ UNCHANGED <<eventVars, unit, done, release, record>>

Poll(w) ==
  /\ dog[w].at = "poll"
  /\ Goto(w, IF proc[w].at = "exited" THEN "finish" ELSE "resolve")
  /\ OnlyDog

(* The control group of the unit of that name, whoever started it.         *)
Resolve(w) ==
  /\ dog[w].at = "resolve"
  /\ dog' = [dog EXCEPT ![w].at = "peak", ![w].resolved = @ \/ unit = "active"]
  /\ OnlyDog

(* A scope that is gone: its failing exit is preserved, never a success.   *)
ReadPeak(w) ==
  /\ dog[w].at = "peak"
  /\ IF ~dog[w].resolved \/ dog[w].final # "no" \/ unit = "active" THEN Goto(w, "done")
     ELSE IF proc[w].at = "exited" /\ proc[w].code # 0 THEN Goto(w, "finish")
     ELSE StopFor(w)
  /\ OnlyDog

ReadFinalPeak(w) ==
  /\ dog[w].at = "done"
  /\ IF ~done \/ dog[w].final # "no" THEN Goto(w, "limits")
     ELSE IF dog[w].resolved /\ unit = "active"
     THEN dog' = [dog EXCEPT ![w].at = "release", ![w].final = proc[w].at]
     ELSE StopFor(w)
  /\ OnlyDog

Release(w) ==
  /\ dog[w].at = "release"
  /\ IF release THEN StopFor(w) ELSE Goto(w, "limits")
  /\ release' = TRUE
  /\ UNCHANGED <<eventVars, proc, unit, done, record>>

(* Disk, wall, cumulative.                                                 *)
Limits(w) ==
  /\ dog[w].at = "limits"
  /\ Goto(w, "poll") \/ StopFor(w)
  /\ OnlyDog

(* The watchdog itself raises: systemctl, memory.peak, an interrupt.       *)
Raise(w) ==
  /\ dog[w].at \in {"poll", "resolve", "peak", "done", "release", "limits"}
  /\ StopFor(w) /\ OnlyDog

(* stop_scope: the unit of that name, and its own process.                 *)
StopScope(w) ==
  /\ dog[w].at = "stopping"
  /\ Goto(w, "finish")
  /\ unit' \in IF unit = "active" THEN {"none", "failed"} ELSE {unit}
  /\ proc' = [x \in Invocations |->
                IF (InScope(x) /\ unit = "active") \/ (x = w /\ proc[x].at = "starting")
                THEN [at |-> "exited", code |-> 1] ELSE proc[x]]
  /\ KillEvent
  /\ UNCHANGED <<done, release, record>>

(* memory-unverified, and the disk at the end.                             *)
StoppedAtEnd(w) == dog[w].stopped \/ (proc[w].code = 0 /\ dog[w].final = "no")

EndOfRun(w) ==
  /\ dog[w].at = "finish" /\ proc[w].at = "exited"
  /\ \E stopped \in BOOLEAN :
       /\ StoppedAtEnd(w) => stopped
       /\ dog' = [dog EXCEPT ![w].at = "write", ![w].stopped = stopped]
  /\ unit' = IF unit = "failed" THEN "none" ELSE unit   \* reset-failed
  /\ UNCHANGED <<eventVars, proc, done, release, record>>

WriteRecord(w) ==
  /\ dog[w].at = "write"
  /\ IF record # NoRecord
     THEN Goto(w, "raised") /\ UNCHANGED record
     ELSE /\ record' = [by |-> w, exit |-> IF dog[w].stopped THEN 124 ELSE proc[w].code]
          /\ Goto(w, "ended")
  /\ UNCHANGED <<eventVars, proc, unit, done, release>>

Die(w) ==
  /\ dog[w].at \notin DogEnded \cup {"check"}
  /\ Goto(w, "dead") /\ OnlyDog

Reboot ==
  /\ dog' = [w \in Invocations |-> IF dog[w].at \in DogEnded \cup {"check"} THEN dog[w]
                                   ELSE [dog[w] EXCEPT !.at = "dead"]]
  /\ proc' = [w \in Invocations |-> IF proc[w].at \in {"none", "exited"} THEN proc[w]
                                    ELSE [at |-> "exited", code |-> 1]]
  /\ unit' = "none"
  /\ KillEvent
  /\ UNCHANGED <<done, release, record>>

-----------------------------------------------------------------------------
Dog(w) == \/ Check(w) \/ Popen(w) \/ Poll(w) \/ Resolve(w) \/ ReadPeak(w) \/ ReadFinalPeak(w)
          \/ Release(w) \/ Limits(w) \/ StopScope(w) \/ EndOfRun(w) \/ WriteRecord(w)
Barrier(w) == Activate(w) \/ CommandReturns(w) \/ WriteDone(w) \/ LeaveBarrier(w)

StageNext ==
  \/ EventStep \/ ScopeLimit \/ Reboot
  \/ \E w \in Invocations : Dog(w) \/ Raise(w) \/ Barrier(w) \/ Die(w)

(* Processes are scheduled; systemd keeps RuntimeMaxSec.                   *)
StageSpec ==
  /\ StageInit /\ [][StageNext]_<<eventVars, stageVars>>
  /\ WF_<<eventVars, stageVars>>(ScopeLimit)
  /\ \A w \in Invocations : /\ WF_<<eventVars, stageVars>>(Dog(w))
                            /\ WF_<<eventVars, stageVars>>(Barrier(w))

-----------------------------------------------------------------------------
(* A stage is recorded as a success only by the watchdog whose own command *)
(* succeeded, with every artifact published, and which read the memory     *)
(* peak of its scope after the command had ended: a barrier file, a scope  *)
(* or a result left by another invocation never stands in for them.        *)
ZeroIsVerified ==
  record # NoRecord /\ record.exit = 0 =>
    /\ dog[record.by].final = "barrier" /\ proc[record.by] = [at |-> "exited", code |-> 0]
    /\ outputs = "whole"

(* The name of the scope is the lock of the stage: of all the processes    *)
(* that its invocations start at most one is in the scope, the scope is    *)
(* there as long as that one is, and the event runs nowhere else, however  *)
(* limits, stops, deaths and reboots fall between their steps.             *)
OneInScope ==
  /\ \A w, x \in Invocations : InScope(w) /\ InScope(x) => w = x
  /\ unit = "active" <=> \E w \in Invocations : InScope(w)
  /\ event = "running" => Playing

(* Every scope comes to its end, also behind the barrier of a watchdog     *)
(* that has died, and every watchdog that lives to its last line.          *)
StageEnds ==
  /\ unit = "active" ~> unit # "active"
  /\ \A w \in Invocations : dog[w].at = "popen" ~> dog[w].at \in DogEnded

=============================================================================
