------------------------- MODULE StageWatchdogProofs -------------------------
(***************************************************************************)
(* Proofs about StageWatchdog, for any set of invocations.                 *)
(***************************************************************************)
EXTENDS StageWatchdog, TLAPS

stageAll == <<eventVars, stageVars>>

(* Only an event that has nothing at its destinations is played, and only  *)
(* a whole publication is a success.                                       *)
EventInv ==
  /\ EventTypeOK
  /\ event = "running" => outputs # "whole"
  /\ event = "succeeded" => outputs = "whole"

(* What the watchdog and the process of one invocation say of each other.  *)
InvocationInv(w) ==
  /\ dog[w].at \in {"check", "popen"} => proc[w].at = "none" /\ dog[w].final = "no"
  /\ dog[w].at \in {"poll", "resolve", "peak", "done", "release", "limits"} =>
       proc[w].at # "none"
  /\ proc[w].at \in {"returned", "barrier", "exited"} /\ proc[w].code = 0 => outputs = "whole"
  /\ proc[w].at = "exited" /\ proc[w].code = 0 => release
  \* the peak was read before its own command had ended: the barrier file
  \* was of another, and its own process cannot get past it
  /\ dog[w].final \in {"starting", "command", "returned"} =>
       /\ done /\ proc[w].at \notin {"none", "barrier"}
       /\ proc[w].at = "exited" => proc[w].code = 1
  \* the peak was read after its own process had gone: so had the barrier
  /\ dog[w].final = "exited" =>
       /\ proc[w].at = "exited"
       /\ proc[w].code = 0 => dog[w].stopped \/ dog[w].at \in {"release", "dead"}
  /\ dog[w].at \in {"write", "ended"} /\ ~dog[w].stopped =>
       /\ proc[w].at = "exited"
       /\ proc[w].code = 0 => dog[w].final # "no"

RecordInv ==
  record # NoRecord =>
    /\ record.by \in Invocations /\ dog[record.by].at = "ended"
    /\ record.exit = 0 => ~dog[record.by].stopped /\ proc[record.by].code = 0

StageInv ==
  StageTypeOK /\ EventInv /\ RecordInv /\ \A w \in Invocations : InvocationInv(w)

USE InvocationsAssumption

-----------------------------------------------------------------------------
(* The event keeps its invariant, and what is whole at the destinations    *)
(* stays, whatever a step does to the event.                               *)
LEMMA EventKeeps ==
  ASSUME EventInv,
         Begin \/ Work \/ Succeed \/ Fail \/ Again \/ KillEvent \/ UNCHANGED eventVars
  PROVE  EventInv' /\ (outputs = "whole" => outputs' = "whole")
BY DEF EventInv, EventTypeOK, Begin, Work, Succeed, Fail, Again, KillEvent, EventOver, eventVars

(* Every step does one of these things to the event.                       *)
LEMMA EventSteps ==
  ASSUME [StageNext]_stageAll
  PROVE  Begin \/ Work \/ Succeed \/ Fail \/ Again \/ KillEvent \/ UNCHANGED eventVars
<1>1. CASE EventStep \/ ScopeLimit \/ Reboot \/ UNCHANGED stageAll
  BY <1>1 DEF EventStep, ScopeLimit, EndScope, Reboot, stageAll
<1>2. ASSUME NEW w \in Invocations, Dog(w) \/ Raise(w) \/ Die(w)
      PROVE  KillEvent \/ UNCHANGED eventVars
  BY <1>2 DEF Dog, Raise, Die, Check, Popen, Poll, Resolve, ReadPeak, ReadFinalPeak, Release,
     Limits, StopScope, EndOfRun, WriteRecord, OnlyDog
<1>3. ASSUME NEW w \in Invocations, Barrier(w)
      PROVE  Again \/ UNCHANGED eventVars
  BY <1>3 DEF Barrier, Activate, CommandReturns, WriteDone, LeaveBarrier
<1> QED
  BY <1>1, <1>2, <1>3 DEF StageNext

(* Assignments to one watchdog keep its type.                              *)
LEMMA DogAssigned ==
  ASSUME StageTypeOK, NEW w \in Invocations, NEW place \in Place,
         \/ dog' = [dog EXCEPT ![w].at = place]
         \/ dog' = [dog EXCEPT ![w].at = place, ![w].stopped = TRUE]
         \/ dog' = [dog EXCEPT ![w].at = place, ![w].stopped = FALSE]
  PROVE  dog' \in [Invocations -> DogState]
<1>1. dog[w] \in DogState
  BY DEF StageTypeOK
<1>2. CASE dog' = [dog EXCEPT ![w].at = place]
  <2> DEFINE d == [dog[w] EXCEPT !.at = place]
  <2>1. d \in DogState
    BY <1>1 DEF DogState
  <2>2. dog' = [dog EXCEPT ![w] = d]
    BY <1>2
  <2> HIDE DEF d
  <2> QED
    BY <2>1, <2>2 DEF StageTypeOK
<1>3. CASE dog' = [dog EXCEPT ![w].at = place, ![w].stopped = TRUE]
  <2> DEFINE d == [dog[w] EXCEPT !.at = place, !.stopped = TRUE]
  <2>1. d \in DogState
    BY <1>1 DEF DogState
  <2>2. dog' = [dog EXCEPT ![w] = d]
    BY <1>3
  <2> HIDE DEF d
  <2> QED
    BY <2>1, <2>2 DEF StageTypeOK
<1>4. CASE dog' = [dog EXCEPT ![w].at = place, ![w].stopped = FALSE]
  <2> DEFINE d == [dog[w] EXCEPT !.at = place, !.stopped = FALSE]
  <2>1. d \in DogState
    BY <1>1 DEF DogState
  <2>2. dog' = [dog EXCEPT ![w] = d]
    BY <1>4
  <2> HIDE DEF d
  <2> QED
    BY <2>1, <2>2 DEF StageTypeOK
<1> QED
  BY <1>2, <1>3, <1>4

(* Where a watchdog goes.                                                  *)
LEMMA DogTyped ==
  ASSUME StageTypeOK, NEW w \in Invocations, InvocationInv(w), Dog(w) \/ Raise(w) \/ Die(w)
  PROVE  dog' \in [Invocations -> DogState]
<1> USE DEF Goto, StopFor, OnlyDog
<1> DEFINE Goes(place) ==
      \/ dog' = [dog EXCEPT ![w].at = place]
      \/ dog' = [dog EXCEPT ![w].at = place, ![w].stopped = TRUE]
      \/ dog' = [dog EXCEPT ![w].at = place, ![w].stopped = FALSE]
<1>1. \A place \in Place : Goes(place) => dog' \in [Invocations -> DogState]
  BY DogAssigned
<1> HIDE DEF Goes
<1>2. CASE Check(w)
  <2>1. Goes("refused") \/ Goes("raised") \/ Goes("popen") \/ Goes("write")
    BY <1>2 DEF Check, Goes
  <2> QED
    BY <1>1, <2>1 DEF Place, DogEnded
<1>3. CASE Popen(w)
  <2>1. Goes("poll")
    BY <1>3 DEF Popen, Goes
  <2> QED
    BY <1>1, <2>1 DEF Place, DogEnded
<1>4. CASE Poll(w)
  <2>1. Goes("finish") \/ Goes("resolve")
    BY <1>4 DEF Poll, Goes
  <2> QED
    BY <1>1, <2>1 DEF Place, DogEnded
<1>5. CASE ReadPeak(w)
  <2>1. Goes("done") \/ Goes("finish") \/ Goes("stopping")
    BY <1>5 DEF ReadPeak, Goes
  <2> QED
    BY <1>1, <2>1 DEF Place, DogEnded
<1>6. CASE Release(w)
  <2>1. Goes("stopping") \/ Goes("limits")
    BY <1>6 DEF Release, Goes
  <2> QED
    BY <1>1, <2>1 DEF Place, DogEnded
<1>7. CASE Limits(w)
  <2>1. Goes("poll") \/ Goes("stopping")
    BY <1>7 DEF Limits, Goes
  <2> QED
    BY <1>1, <2>1 DEF Place, DogEnded
<1>8. CASE StopScope(w)
  <2>1. Goes("finish")
    BY <1>8 DEF StopScope, Goes
  <2> QED
    BY <1>1, <2>1 DEF Place, DogEnded
<1>9. CASE EndOfRun(w)
  <2>1. Goes("write")
    BY <1>9 DEF EndOfRun, Goes
  <2> QED
    BY <1>1, <2>1 DEF Place, DogEnded
<1>10. CASE WriteRecord(w)
  <2>1. Goes("raised") \/ Goes("ended")
    BY <1>10 DEF WriteRecord, Goes
  <2> QED
    BY <1>1, <2>1 DEF Place, DogEnded
<1>11. CASE Raise(w)
  <2>1. Goes("stopping")
    BY <1>11 DEF Raise, Goes
  <2> QED
    BY <1>1, <2>1 DEF Place, DogEnded
<1>12. CASE Die(w)
  <2>1. Goes("dead")
    BY <1>12 DEF Die, Goes
  <2> QED
    BY <1>1, <2>1 DEF Place, DogEnded
<1>13. CASE Resolve(w)
  <2> DEFINE d == [dog[w] EXCEPT !.at = "peak", !.resolved = @ \/ unit = "active"]
  <2>1. dog[w] \in DogState
    BY DEF StageTypeOK
  <2>2. (dog[w].resolved \/ unit = "active") \in BOOLEAN
    OBVIOUS
  <2>3. d \in DogState
    BY <2>1, <2>2 DEF DogState, Place
  <2>4. dog' = [dog EXCEPT ![w] = d]
    BY <1>13 DEF Resolve
  <2> HIDE DEF d
  <2> QED
    BY <2>3, <2>4 DEF StageTypeOK
<1>14. CASE ReadFinalPeak(w)
  <2>1. CASE dog' = [dog EXCEPT ![w].at = "release", ![w].final = proc[w].at]
    <3>1. proc[w].at # "none"
      BY <1>14 DEF ReadFinalPeak, InvocationInv
    <3> DEFINE d == [dog[w] EXCEPT !.at = "release", !.final = proc[w].at]
    <3>2. dog[w] \in DogState /\ proc[w] \in ProcState
      BY DEF StageTypeOK
    <3>3. d \in DogState
      BY <3>1, <3>2 DEF DogState, ProcState, Place
    <3>4. dog' = [dog EXCEPT ![w] = d]
      BY <2>1
    <3> HIDE DEF d
    <3> QED
      BY <3>3, <3>4 DEF StageTypeOK
  <2>2. CASE Goes("limits") \/ Goes("stopping")
    BY <1>1, <2>2 DEF Place
  <2> QED
    BY <1>14, <2>1, <2>2 DEF ReadFinalPeak, Goes
<1> QED
  BY <1>2, <1>3, <1>4, <1>5, <1>6, <1>7, <1>8, <1>9, <1>10, <1>11, <1>12, <1>13, <1>14 DEF Dog

(* The state keeps its type.                                               *)
LEMMA TypeInductive ==
  ASSUME StageTypeOK, \A w \in Invocations : InvocationInv(w), [StageNext]_stageAll
  PROVE  StageTypeOK'
<1> USE DEF StageTypeOK
<1>1. CASE UNCHANGED stageAll \/ EventStep
  BY <1>1 DEF EventStep, stageAll, stageVars
<1>2. CASE ScopeLimit
  BY <1>2 DEF ScopeLimit, EndScope, ProcState
<1>3. CASE Reboot
  <2>1. dog' \in [Invocations -> DogState]
    BY <1>3 DEF Reboot, DogState, Place, DogEnded
  <2>2. proc' \in [Invocations -> ProcState]
    BY <1>3 DEF Reboot, ProcState
  <2> QED
    BY <1>3, <2>1, <2>2 DEF Reboot
<1>4. ASSUME NEW w \in Invocations, Activate(w)
      PROVE  StageTypeOK'
  BY <1>4 DEF Activate, SetProc, ProcState
<1>5. ASSUME NEW w \in Invocations, CommandReturns(w)
      PROVE  StageTypeOK'
  BY <1>5 DEF CommandReturns, SetProc, ProcState
<1>6. ASSUME NEW w \in Invocations, WriteDone(w)
      PROVE  StageTypeOK'
  <2>1. proc' \in [Invocations -> ProcState]
    BY <1>6 DEF WriteDone, SetProc, ProcState
  <2> QED
    BY <1>6, <2>1 DEF WriteDone
<1>7. ASSUME NEW w \in Invocations, LeaveBarrier(w)
      PROVE  StageTypeOK'
  BY <1>7 DEF LeaveBarrier, SetProc, ProcState
<1>8. ASSUME NEW w \in Invocations, Dog(w) \/ Raise(w) \/ Die(w)
      PROVE  StageTypeOK'
  <2>1. dog' \in [Invocations -> DogState]
    BY <1>8, DogTyped
  <2>2. CASE Popen(w)
    BY <2>1, <2>2 DEF Popen, SetProc, ProcState
  <2>3. CASE StopScope(w)
    BY <2>1, <2>3 DEF StopScope, ProcState
  <2>4. CASE WriteRecord(w)
    <3>1. proc[w].code \in {0, 1}
      BY DEF ProcState
    <3>2. record' \in {NoRecord} \cup [by : Invocations, exit : {0, 1, 124}]
      BY <2>4, <3>1 DEF WriteRecord
    <3> QED
      BY <2>1, <2>4, <3>2 DEF WriteRecord
  <2>5. CASE ~Popen(w) /\ ~StopScope(w) /\ ~WriteRecord(w)
    <3>1. CASE EndOfRun(w)
      BY <2>1, <3>1 DEF EndOfRun
    <3>2. CASE Release(w)
      BY <2>1, <3>2 DEF Release
    <3>3. OnlyDog => StageTypeOK'
      BY <2>1 DEF OnlyDog
    <3> QED
      BY <1>8, <2>5, <3>1, <3>2, <3>3
         DEF Dog, Check, Poll, Resolve, ReadPeak, ReadFinalPeak, Limits, Raise, Die
  <2> QED
    BY <2>2, <2>3, <2>4, <2>5
<1> QED
  BY <1>1, <1>2, <1>3, <1>4, <1>5, <1>6, <1>7, <1>8 DEF StageNext, Barrier

(* The files stay.                                                         *)
LEMMA FilesStay ==
  ASSUME [StageNext]_stageAll
  PROVE  (done => done') /\ (release => release')
<1>1. CASE EventStep \/ ScopeLimit \/ Reboot \/ UNCHANGED stageAll
  BY <1>1 DEF EventStep, ScopeLimit, Reboot, stageAll, stageVars
<1>2. ASSUME NEW w \in Invocations, Barrier(w)
      PROVE  (done => done') /\ UNCHANGED release
  BY <1>2 DEF Barrier, Activate, CommandReturns, WriteDone, LeaveBarrier
<1>3. ASSUME NEW w \in Invocations, Dog(w) \/ Raise(w) \/ Die(w)
      PROVE  UNCHANGED done /\ (release => release')
  BY <1>3 DEF Dog, Check, Popen, Poll, Resolve, ReadPeak, ReadFinalPeak, Release, Limits,
     StopScope, EndOfRun, WriteRecord, OnlyDog, Raise, Die
<1> QED
  BY <1>1, <1>2, <1>3 DEF StageNext

(* A step of something else may only end the process of w, which was       *)
(* started and had not exited, or the watchdog, which was alive.           *)
Ends(w) ==
  /\ \/ proc'[w] = proc[w]
     \/ proc[w].at \notin {"none", "exited"} /\ proc'[w] = [at |-> "exited", code |-> 1]
  /\ \/ dog'[w] = dog[w]
     \/ dog[w].at \notin DogEnded \cup {"check"} /\ dog'[w] = [dog[w] EXCEPT !.at = "dead"]

LEMMA OthersOnlyEnd ==
  ASSUME StageTypeOK, NEW w \in Invocations,
         \/ EventStep \/ ScopeLimit \/ Reboot \/ UNCHANGED stageAll
         \/ \E x \in Invocations \ {w} : Dog(x) \/ Raise(x) \/ Barrier(x) \/ Die(x)
         \/ Die(w)
  PROVE  Ends(w)
<1> USE DEF StageTypeOK, DogState, ProcState, Ends
<1>1. CASE EventStep \/ ScopeLimit \/ Reboot \/ UNCHANGED stageAll \/ Die(w)
  BY <1>1 DEF EventStep, ScopeLimit, EndScope, Reboot, InScope, Die, Goto, OnlyDog, stageAll, stageVars
<1>2. ASSUME NEW x \in Invocations \ {w}, Barrier(x)
      PROVE  Ends(w)
  BY <1>2 DEF Barrier, Activate, CommandReturns, WriteDone, LeaveBarrier, SetProc
<1>3. ASSUME NEW x \in Invocations \ {w}, Dog(x) \/ Raise(x) \/ Die(x)
      PROVE  Ends(w)
  <2>1. dog'[w] = dog[w]
    <3>1. \A place : Goto(x, place) \/ StopFor(x) => dog'[w] = dog[w]
      BY DEF Goto, StopFor
    <3> QED
      BY <1>3, <3>1 DEF Dog, Check, Popen, Poll, Resolve, ReadPeak, ReadFinalPeak, Release,
         Limits, StopScope, EndOfRun, WriteRecord, Raise, Die
  <2>2. CASE Popen(x) \/ StopScope(x)
    BY <1>3, <2>1, <2>2 DEF Popen, StopScope, SetProc, InScope
  <2>3. CASE ~Popen(x) /\ ~StopScope(x)
    <3>1. UNCHANGED proc
      BY <1>3, <2>3 DEF Dog, Check, Poll, Resolve, ReadPeak, ReadFinalPeak, Release, Limits,
         EndOfRun, WriteRecord, Raise, Die, OnlyDog
    <3> QED
      BY <2>1, <3>1
  <2> QED
    BY <2>2, <2>3
<1> QED
  BY <1>1, <1>2, <1>3

-----------------------------------------------------------------------------
(* The invariant of one invocation is kept by the steps of the others ...  *)
LEMMA EndsKeeps ==
  ASSUME StageTypeOK, NEW w \in Invocations, InvocationInv(w), Ends(w),
         done => done', release => release', outputs = "whole" => outputs' = "whole"
  PROVE  InvocationInv(w)'
BY DEF StageTypeOK, DogState, ProcState, InvocationInv, Ends, DogEnded

(* ... by its own process ...                                              *)
LEMMA BarrierKeeps ==
  ASSUME StageTypeOK, EventInv, NEW w \in Invocations, InvocationInv(w), Barrier(w)
  PROVE  InvocationInv(w)'
<1> USE DEF StageTypeOK, DogState, ProcState, InvocationInv, SetProc
<1>1. CASE Activate(w)
  <2>1. outputs' = outputs
    BY <1>1 DEF Activate, Again, eventVars
  <2> QED
    BY <1>1, <2>1 DEF Activate
<1>2. CASE CommandReturns(w)
  BY <1>2 DEF CommandReturns, EventInv, EventTypeOK, EventOver, eventVars
<1>3. CASE WriteDone(w)
  BY <1>3 DEF WriteDone, eventVars
<1>4. CASE LeaveBarrier(w)
  BY <1>4 DEF LeaveBarrier, eventVars
<1> QED
  BY <1>1, <1>2, <1>3, <1>4 DEF Barrier

(* ... and by its watchdog.                                                *)
LEMMA DogKeeps ==
  ASSUME StageTypeOK, NEW w \in Invocations, InvocationInv(w), Dog(w) \/ Raise(w),
         outputs = "whole" => outputs' = "whole"
  PROVE  InvocationInv(w)'
<1> USE DEF StageTypeOK, DogState, ProcState, InvocationInv, Goto, StopFor, OnlyDog, DogEnded
<1>1. CASE Check(w)
  BY <1>1 DEF Check
<1>2. CASE Popen(w)
  BY <1>2 DEF Popen, SetProc
<1>3. CASE Poll(w)
  BY <1>3 DEF Poll
<1>4. CASE ReadPeak(w)
  BY <1>4 DEF ReadPeak
<1>5. CASE ReadFinalPeak(w)
  BY <1>5 DEF ReadFinalPeak
<1>6. CASE Release(w)
  BY <1>6 DEF Release
<1>7. CASE StopScope(w)
  BY <1>7 DEF StopScope, InScope
<1>8. CASE EndOfRun(w)
  BY <1>8 DEF EndOfRun, StoppedAtEnd
<1>9. CASE WriteRecord(w)
  BY <1>9 DEF WriteRecord
<1>10. CASE Raise(w)
  BY <1>10 DEF Raise
<1>11. CASE Resolve(w)
  BY <1>11 DEF Resolve
<1>12. CASE Limits(w)
  BY <1>12 DEF Limits
<1> QED
  BY <1>1, <1>2, <1>3, <1>4, <1>5, <1>6, <1>7, <1>8, <1>9, <1>10, <1>11, <1>12 DEF Dog

(* The record is of a watchdog that has ended.                             *)
LEMMA RecordKeeps ==
  ASSUME StageTypeOK, RecordInv, \A w \in Invocations : InvocationInv(w), [StageNext]_stageAll
  PROVE  RecordInv'
<1>1. ASSUME NEW w \in Invocations, WriteRecord(w), record = NoRecord
      PROVE  RecordInv'
  BY <1>1 DEF WriteRecord, Goto, RecordInv, InvocationInv, StageTypeOK, DogState, ProcState
<1>2. CASE UNCHANGED record
  <2> SUFFICES ASSUME record # NoRecord PROVE RecordInv'
    BY <1>2 DEF RecordInv, NoRecord
  <2> DEFINE w == record.by
  <2>1. w \in Invocations /\ dog[w].at = "ended"
    BY DEF RecordInv
  <2>2. dog'[w] = dog[w]
    <3>1. ASSUME NEW x \in Invocations, Dog(x) \/ Raise(x) \/ Die(x)
          PROVE  x # w \/ dog'[w] = dog[w]
      BY <2>1, <3>1 DEF Dog, Raise, Die, Check, Popen, Poll, Resolve, ReadPeak, ReadFinalPeak,
         Release, Limits, StopScope, EndOfRun, WriteRecord, DogEnded
    <3>2. ASSUME NEW x \in Invocations, Dog(x) \/ Raise(x) \/ Die(x), x # w
          PROVE  Ends(w)
      BY <2>1, <3>2, OthersOnlyEnd
    <3>3. CASE EventStep \/ ScopeLimit \/ Reboot \/ UNCHANGED stageAll
      BY <2>1, <3>3, OthersOnlyEnd DEF Ends, DogEnded
    <3>4. ASSUME NEW x \in Invocations, Barrier(x)
          PROVE  UNCHANGED dog
      BY <3>4 DEF Barrier, Activate, CommandReturns, WriteDone, LeaveBarrier
    <3> QED
      BY <2>1, <3>1, <3>2, <3>3, <3>4 DEF StageNext, Ends, DogEnded
  <2>3. record.exit = 0 => proc[w].at = "exited" /\ proc'[w] = proc[w]
    <3>1. proc[w].at = "exited" \/ record.exit # 0
      BY <2>1 DEF RecordInv, InvocationInv
    <3>2. Ends(w) => proc'[w] = proc[w] \/ proc[w].at # "exited"
      BY DEF Ends
    <3>3. Barrier(w) => proc[w].at # "exited"
      BY DEF Barrier, Activate, CommandReturns, WriteDone, LeaveBarrier
    <3>4. ~Dog(w) /\ ~Raise(w)
      BY <2>1 DEF Dog, Raise, Check, Popen, Poll, Resolve, ReadPeak, ReadFinalPeak,
         Release, Limits, StopScope, EndOfRun, WriteRecord
    <3> QED
      BY <2>1, <3>1, <3>2, <3>3, <3>4, OthersOnlyEnd DEF StageNext
  <2> QED
    BY <1>2, <2>1, <2>2, <2>3 DEF RecordInv
<1>3. \/ UNCHANGED record
      \/ \E w \in Invocations : WriteRecord(w) /\ record = NoRecord
  <2>1. ASSUME NEW w \in Invocations, Dog(w), ~WriteRecord(w)
        PROVE  UNCHANGED record
    BY <2>1 DEF Dog, Check, Popen, Poll, Resolve, ReadPeak, ReadFinalPeak, Release, Limits,
       StopScope, EndOfRun, OnlyDog
  <2>2. ASSUME NEW w \in Invocations, Raise(w) \/ Die(w) \/ Barrier(w)
        PROVE  UNCHANGED record
    BY <2>2 DEF Raise, Die, Barrier, Activate, CommandReturns, WriteDone, LeaveBarrier, OnlyDog
  <2>3. CASE EventStep \/ ScopeLimit \/ Reboot \/ UNCHANGED stageAll
    BY <2>3 DEF EventStep, ScopeLimit, Reboot, stageAll, stageVars
  <2>4. ASSUME NEW w \in Invocations, WriteRecord(w), record # NoRecord
        PROVE  UNCHANGED record
    BY <2>4 DEF WriteRecord
  <2> QED
    BY <2>1, <2>2, <2>3, <2>4 DEF StageNext
<1> QED
  BY <1>1, <1>2, <1>3

-----------------------------------------------------------------------------
LEMMA InvInitial == StageInit => StageInv
<1> SUFFICES ASSUME StageInit PROVE StageInv
  OBVIOUS
<1>1. EventInv
  BY DEF StageInit, EventInit, EventInv, EventTypeOK
<1>2. [at |-> "check", resolved |-> FALSE, final |-> "no", stopped |-> FALSE] \in DogState
  BY DEF DogState, Place
<1>3. [at |-> "none", code |-> 0] \in ProcState
  BY DEF ProcState
<1>4. StageTypeOK
  BY <1>2, <1>3 DEF StageInit, StageTypeOK
<1>5. RecordInv /\ \A w \in Invocations : InvocationInv(w)
  BY DEF StageInit, RecordInv, InvocationInv
<1> QED
  BY <1>1, <1>4, <1>5 DEF StageInv

LEMMA InvInductive ==
  ASSUME StageInv, [StageNext]_stageAll
  PROVE  StageInv'
<1> USE DEF StageInv
<1>1. EventInv' /\ (outputs = "whole" => outputs' = "whole")
  BY EventKeeps, EventSteps
<1>2. StageTypeOK'
  BY TypeInductive
<1>3. RecordInv'
  BY RecordKeeps
<1>4. ASSUME NEW w \in Invocations
      PROVE  InvocationInv(w)'
  <2>1. CASE Barrier(w)
    BY <2>1, BarrierKeeps
  <2>2. CASE Dog(w) \/ Raise(w)
    BY <1>1, <2>2, DogKeeps
  <2>3. CASE ~Barrier(w) /\ ~Dog(w) /\ ~Raise(w)
    <3>1. Ends(w)
      BY <2>3, OthersOnlyEnd DEF StageNext
    <3> QED
      BY <1>1, <3>1, EndsKeeps, FilesStay
  <2> QED
    BY <2>1, <2>2, <2>3
<1> QED
  BY <1>1, <1>2, <1>3, <1>4

(* In every behaviour of watchdogs, processes, limits and reboots: the     *)
(* types, what an event and each invocation say, and the record.           *)
THEOREM StageCorrect == StageSpec => []StageInv
<1>1. StageInv /\ [StageNext]_stageAll => StageInv'
  BY InvInductive
<1> QED
  BY InvInitial, <1>1, PTL DEF StageSpec, stageAll

(* A stage is recorded as a success only by the watchdog whose own command *)
(* succeeded with every artifact published, and which read the peak of its *)
(* scope behind the barrier.                                               *)
THEOREM ZeroIsVerifiedCorrect == StageSpec => []ZeroIsVerified
<1>1. StageInv => ZeroIsVerified
  <2> SUFFICES ASSUME StageInv, record # NoRecord, record.exit = 0
               PROVE  ZeroIsVerified
    BY DEF ZeroIsVerified
  <2> DEFINE w == record.by
  <2>1. w \in Invocations /\ dog[w].at = "ended" /\ ~dog[w].stopped /\ proc[w].code = 0
    BY DEF StageInv, RecordInv
  <2>2. InvocationInv(w) /\ dog[w] \in DogState /\ proc[w] \in ProcState
    BY <2>1 DEF StageInv, StageTypeOK
  <2>3. proc[w].at = "exited" /\ outputs = "whole" /\ dog[w].final = "barrier"
    BY <2>1, <2>2 DEF InvocationInv, DogState
  <2>4. proc[w] = [at |-> "exited", code |-> 0]
    BY <2>1, <2>2, <2>3 DEF ProcState
  <2> QED
    BY <2>3, <2>4 DEF ZeroIsVerified
<1> QED
  BY <1>1, StageCorrect, PTL

-----------------------------------------------------------------------------
(* Whatever watchdogs, scopes, limits and reboots do, the event they run   *)
(* is one that keeps its contract: the stage adds no way to play it twice  *)
(* or to lose what it has published.                                       *)
THEOREM EventKeepsContract == StageSpec => Spec
<1>1. StageInit => EventInit
  BY DEF StageInit
<1>2. ASSUME [StageNext]_stageAll PROVE [Next]_eventVars
  <2>1. KillEvent => Fail \/ UNCHANGED eventVars
    BY DEF KillEvent
  <2> QED
    BY <1>2, <2>1, EventSteps DEF Next
<1> QED
  BY <1>1, <1>2, PTL DEF StageSpec, Spec, stageAll

(* An event that has published everything is never played again and loses  *)
(* nothing of it, whoever invokes its stage again, kills it or reboots.    *)
THEOREM WholeIsFinal ==
  StageSpec => [][outputs = "whole" => outputs' = "whole" /\ event' # "running"]_stageAll
<1>1. ASSUME StageInv, [StageNext]_stageAll, outputs = "whole"
      PROVE  outputs' = "whole" /\ event' # "running"
  BY <1>1, EventKeeps, EventSteps DEF StageInv, EventInv
<1>2. StageInv /\ [StageNext]_stageAll
        => [outputs = "whole" => outputs' = "whole" /\ event' # "running"]_stageAll
  BY <1>1
<1> QED
  BY <1>2, StageCorrect, PTL DEF StageSpec, stageAll

-----------------------------------------------------------------------------
(* The scope is left by what ends it ...                                   *)
LEMMA ScopeEnds ==
  ASSUME StageTypeOK, OneInScope, unit' \in {"none", "failed"}, KillEvent, EventInv,
         \A w \in Invocations : ~InScope(w)'
  PROVE  OneInScope'
BY DEF OneInScope, KillEvent, Fail, EventInv, EventTypeOK, eventVars

(* ... and kept by a step that moves no process in or out of it.           *)
LEMMA ScopeStays ==
  ASSUME StageTypeOK, OneInScope, unit' = unit \/ (unit = "failed" /\ unit' = "none"),
         \A w \in Invocations : InScope(w)' <=> InScope(w),
         event' = "running" => Playing'
  PROVE  OneInScope'
BY DEF OneInScope

LEMMA ScopeOfBarrier ==
  ASSUME StageTypeOK, EventInv, OneInScope, NEW w \in Invocations, Barrier(w)
  PROVE  OneInScope'
<1> USE DEF StageTypeOK, ProcState, OneInScope, InScope, SetProc, Playing
<1>1. CASE Activate(w)
  BY <1>1 DEF Activate, Again, EventOver, eventVars, EventInv, EventTypeOK
<1>2. CASE CommandReturns(w)
  BY <1>2 DEF CommandReturns, EventOver, eventVars
<1>3. CASE WriteDone(w)
  BY <1>3 DEF WriteDone, eventVars
<1>4. CASE LeaveBarrier(w)
  BY <1>4 DEF LeaveBarrier, eventVars
<1> QED
  BY <1>1, <1>2, <1>3, <1>4 DEF Barrier

LEMMA ScopeOfDog ==
  ASSUME StageInv, OneInScope, NEW w \in Invocations, Dog(w) \/ Raise(w) \/ Die(w)
  PROVE  OneInScope'
<1> USE DEF StageInv, StageTypeOK
<1>1. CASE UNCHANGED <<eventVars, proc, unit>>
  BY <1>1 DEF OneInScope, InScope, Playing, eventVars
<1>2. CASE Popen(w)
  <2>1. proc[w].at = "none" /\ proc' = [proc EXCEPT ![w] = [at |-> "starting", code |-> 0]]
    BY <1>2 DEF Popen, SetProc, InvocationInv
  <2>2. \A x \in Invocations : /\ InScope(x)' <=> InScope(x)
                               /\ proc'[x].at = "command" <=> proc[x].at = "command"
    BY <2>1 DEF InScope
  <2> QED
    BY <1>2, <2>2, ScopeStays DEF Popen, Playing, OneInScope, eventVars
<1>3. CASE StopScope(w)
  <2>1. \A x \in Invocations : ~InScope(x)'
    BY <1>3 DEF StopScope, InScope, OneInScope
  <2>2. unit' \in {"none", "failed"} /\ KillEvent
    BY <1>3 DEF StopScope
  <2> QED
    BY <2>1, <2>2, ScopeEnds
<1>4. CASE EndOfRun(w)
  <2>1. \A x \in Invocations : InScope(x)' <=> InScope(x)
    BY <1>4 DEF EndOfRun, InScope
  <2> QED
    BY <1>4, <2>1, ScopeStays DEF EndOfRun, Playing, OneInScope, eventVars
<1> QED
  BY <1>1, <1>2, <1>3, <1>4 DEF Dog, Raise, Die, Check, Poll, Resolve, ReadPeak, ReadFinalPeak,
     Release, Limits, WriteRecord, OnlyDog

(* At most one process of a stage is in its scope, and its event runs      *)
(* nowhere else, for any number of invocations.                            *)
THEOREM OneInScopeCorrect == StageSpec => []OneInScope
<1>1. StageInit => OneInScope
  BY DEF StageInit, EventInit, OneInScope, InScope
<1>2. ASSUME StageInv, OneInScope, [StageNext]_stageAll PROVE OneInScope'
  <2>1. CASE UNCHANGED stageAll
    <3>1. UNCHANGED <<event, proc, unit>>
      BY <2>1 DEF stageAll, stageVars, eventVars
    <3>2. (\A w \in Invocations : InScope(w)' <=> InScope(w)) /\ (Playing' <=> Playing)
      BY <3>1 DEF InScope, Playing
    <3> QED
      BY <1>2, <3>1, <3>2, ScopeStays DEF OneInScope, StageInv
  <2>2. CASE EventStep
    <3>1. Playing /\ Playing' /\ UNCHANGED <<proc, unit>>
      BY <2>2 DEF EventStep, stageVars, Playing
    <3>2. \A w \in Invocations : InScope(w)' <=> InScope(w)
      BY <3>1 DEF InScope
    <3> QED
      BY <1>2, <3>1, <3>2, ScopeStays DEF StageInv
  <2>3. CASE ScopeLimit
    BY <1>2, <2>3, ScopeEnds DEF ScopeLimit, EndScope, InScope, StageInv
  <2>4. CASE Reboot
    BY <1>2, <2>4, ScopeEnds DEF Reboot, InScope, StageInv
  <2> QED
    BY <1>2, <2>1, <2>2, <2>3, <2>4, ScopeOfBarrier, ScopeOfDog DEF StageNext, StageInv
<1>3. StageInv /\ OneInScope /\ [StageNext]_stageAll => OneInScope'
  BY <1>2
<1> QED
  BY <1>1, <1>3, StageCorrect, PTL DEF StageSpec, stageAll
=============================================================================
