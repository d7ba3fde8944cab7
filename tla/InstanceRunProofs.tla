-------------------------- MODULE InstanceRunProofs --------------------------
(***************************************************************************)
(* Proofs about InstanceRun, for any set of bots.                          *)
(***************************************************************************)
EXTENDS InstanceRun, TLAPS

(* Who wrote the stop file, and what it says of the bots.                  *)
StopInv ==
  /\ stopFile = "absent" => reaped = {} /\ \A b \in Bots : bots[b].reason # "stop_requested"
  /\ stopFile \in Bots => stopFile \in reaped /\ bots[stopFile].reason # "stop_requested"

(* What has ended once the supervisor has a verdict.                       *)
EndInv ==
  /\ \A b \in reaped : bots[b].phase = "exited"
  /\ verdict # "none" => reaped = Bots /\ ssm # "InProgress"
  /\ verdict = "PASS" => LegibleSource /\ \A b \in Bots : Passes(b)
  /\ ssm = "Success" => verdict = "PASS"
  /\ teardown => ssm # "InProgress"
  /\ power \in {"teardown", "collector"} => ssm # "InProgress"

(* The operator's shell writes only into the file it has created.          *)
WriterInv == stopFile = "empty" <=> operator = "writing"

InstanceInv == TypeOK /\ StopInv /\ EndInv /\ WriterInv

-----------------------------------------------------------------------------
(* The state keeps its type.                                               *)
LEMMA TypeInductive == TypeOK /\ [Next]_vars => TypeOK'
<1> SUFFICES ASSUME TypeOK, [Next]_vars PROVE TypeOK'
  OBVIOUS
<1> USE DEF TypeOK, Contract!BotState
<1>1. CASE UNCHANGED vars
  BY <1>1 DEF vars
<1>2. ASSUME NEW b \in Bots, BeginAttempt(b) PROVE TypeOK'
  BY <1>2 DEF BeginAttempt, RunsOn, instanceVars
<1>3. ASSUME NEW b \in Bots, EndAttempt(b) PROVE TypeOK'
  BY <1>3 DEF EndAttempt, RunsOn, instanceVars
<1>4. ASSUME NEW b \in Bots, ReachDeadline(b) PROVE TypeOK'
  BY <1>4 DEF ReachDeadline, RunsOn, instanceVars
<1>5. ASSUME NEW b \in Bots, Exit(b) PROVE TypeOK'
  <2>1. PICK reason \in Contract!Reason :
          bots' = [bots EXCEPT ![b] = Contract!Exited(@, reason)]
    BY <1>5 DEF Exit
  <2>2. bots' \in [Bots -> Contract!BotState]
    BY <2>1 DEF Contract!Exited
  <2> QED
    BY <1>5, <2>2 DEF Exit, RunsOn, instanceVars
<1>6. ASSUME NEW b \in Bots, Reap(b) PROVE TypeOK'
  BY <1>6 DEF Reap, RequestStop
<1>7. CASE RefuseArguments \/ ClaimWorkRoot \/ StartBots
  BY <1>7 DEF RefuseArguments, ClaimWorkRoot, StartBots, Active, End
<1>8. CASE Fail
  BY <1>8 DEF Fail, Active, End, ArmTeardown
<1>9. CASE Verify
  BY <1>9 DEF Verify, Active, End, ArmTeardown
<1>10. CASE SendStop \/ CreateStopFile \/ WriteStopFile
  BY <1>10 DEF SendStop, CreateStopFile, WriteStopFile, instanceVars
<1>11. CASE TeardownFires \/ FailSafeFires \/ CollectorTerminates
  BY <1>11 DEF TeardownFires, FailSafeFires, CollectorTerminates, SwitchOff, instanceVars
<1> QED
  BY <1>1, <1>2, <1>3, <1>4, <1>5, <1>6, <1>7, <1>8, <1>9, <1>10, <1>11 DEF Next

(* What is known of a bot that has exited: it stays as it is.              *)
LEMMA ExitedStays ==
  ASSUME TypeOK, [Next]_vars, NEW b \in Bots, bots[b].phase = "exited"
  PROVE  bots'[b] = bots[b]
<1> USE DEF TypeOK
<1>1. CASE UNCHANGED bots
  BY <1>1
<1>2. ASSUME NEW x \in Bots, BeginAttempt(x) \/ EndAttempt(x) \/ ReachDeadline(x) \/ Exit(x)
      PROVE  bots'[b] = bots[b]
  BY <1>2 DEF BeginAttempt, EndAttempt, ReachDeadline, Exit, RunsOn
<1> QED
  BY <1>1, <1>2 DEF Next, vars, Reap, RefuseArguments, ClaimWorkRoot, StartBots, Fail, Verify,
     SendStop, CreateStopFile, WriteStopFile, TeardownFires, FailSafeFires,
     CollectorTerminates, SwitchOff, instanceVars

(* A step of a bot changes the reason of a bot only when it exits, and     *)
(* only to stop_requested when the stop file is there.                     *)
LEMMA ReasonIsGiven ==
  ASSUME TypeOK, [Next]_vars, NEW b \in Bots,
         bots[b].reason # "stop_requested", bots'[b].reason = "stop_requested"
  PROVE  /\ stopFile # "absent" /\ bots[b].phase # "exited"
         /\ UNCHANGED <<stopFile, reaped>>
<1> USE DEF TypeOK, Contract!BotState
<1>1. ASSUME NEW x \in Bots, BeginAttempt(x) \/ EndAttempt(x) \/ ReachDeadline(x)
      PROVE  FALSE
  BY <1>1 DEF BeginAttempt, EndAttempt, ReachDeadline
<1>2. ASSUME NEW x \in Bots, Exit(x)
      PROVE  /\ stopFile # "absent" /\ bots[b].phase # "exited"
             /\ UNCHANGED <<stopFile, reaped>>
  BY <1>2 DEF Exit, Contract!MayExit, Contract!Exited, StopRequested, RunsOn, instanceVars
<1>3. ~UNCHANGED bots
  OBVIOUS
<1> QED
  BY <1>1, <1>2, <1>3 DEF Next, vars, Reap, RefuseArguments, ClaimWorkRoot, StartBots, Fail,
     Verify, SendStop, CreateStopFile, WriteStopFile, TeardownFires, FailSafeFires,
     CollectorTerminates, SwitchOff, instanceVars

(* Only Reap changes what is reaped; the file that is there keeps its      *)
(* writer, and the operator's shell keeps what it has created.             *)
LEMMA FileSteps ==
  ASSUME InstanceInv, [Next]_vars
  PROVE  /\ \/ UNCHANGED reaped
            \/ \E b \in Bots : Reap(b)
         /\ \/ UNCHANGED stopFile
            \/ \E b \in Bots : Reap(b)
            \/ stopFile = "absent" /\ stopFile' = "empty"
            \/ stopFile = "empty" /\ stopFile' = "operator"
         /\ WriterInv'
<1> USE BotsAssumption DEF InstanceInv, TypeOK, WriterInv
<1>1. ASSUME NEW b \in Bots, Reap(b)
      PROVE  WriterInv'
  BY <1>1 DEF Reap, RequestStop
<1>2. ASSUME NEW x \in Bots, BeginAttempt(x) \/ EndAttempt(x) \/ ReachDeadline(x) \/ Exit(x)
      PROVE  UNCHANGED <<stopFile, reaped, operator>>
  BY <1>2 DEF BeginAttempt, EndAttempt, ReachDeadline, Exit, RunsOn, instanceVars
<1>3. CASE SendStop \/ CreateStopFile \/ WriteStopFile
  BY <1>3 DEF SendStop, CreateStopFile, WriteStopFile, instanceVars
<1>4. CASE \/ RefuseArguments \/ ClaimWorkRoot \/ StartBots \/ Fail \/ Verify
           \/ TeardownFires \/ FailSafeFires \/ CollectorTerminates \/ UNCHANGED vars
  BY <1>4 DEF RefuseArguments, ClaimWorkRoot, StartBots, Fail, Verify, TeardownFires,
     FailSafeFires, CollectorTerminates, SwitchOff, instanceVars, vars
<1> QED
  BY <1>1, <1>2, <1>3, <1>4 DEF Next

(* The stop file and the reasons of the bots stay in step.                 *)
LEMMA StopInductive == InstanceInv /\ [Next]_vars => StopInv'
<1> SUFFICES ASSUME InstanceInv, [Next]_vars PROVE StopInv'
  OBVIOUS
<1> USE BotsAssumption DEF InstanceInv, TypeOK, StopInv
<1>1. ASSUME NEW b \in Bots, Reap(b) PROVE StopInv'
  BY <1>1 DEF Reap, RequestStop
<1>2. CASE UNCHANGED reaped
  <2>1. ASSUME stopFile' = "absent", NEW b \in Bots
        PROVE  reaped' = {} /\ bots'[b].reason # "stop_requested"
    BY <2>1, <1>1, <1>2, FileSteps, ReasonIsGiven
  <2>2. ASSUME stopFile' \in Bots
        PROVE  stopFile' \in reaped' /\ bots'[stopFile'].reason # "stop_requested"
    <3>1. CASE \E b \in Bots : Reap(b)
      BY <3>1, <1>1, <2>2
    <3>2. CASE UNCHANGED stopFile
      BY <3>2, <2>2, <1>2, ReasonIsGiven, ExitedStays DEF EndInv
    <3> QED
      BY <3>1, <3>2, <2>2, FileSteps
  <2> QED
    BY <2>1, <2>2
<1> QED
  BY <1>1, <1>2, FileSteps

(* A verdict, a teardown and a finished command exclude what they should.  *)
LEMMA EndInductive == InstanceInv /\ [Next]_vars => EndInv'
<1> SUFFICES ASSUME InstanceInv, [Next]_vars PROVE EndInv'
  OBVIOUS
<1> USE BotsAssumption DEF InstanceInv, TypeOK
<1>1. \A b \in reaped' : bots'[b].phase = "exited"
  <2>1. ASSUME NEW b \in reaped PROVE bots'[b].phase = "exited"
    BY ExitedStays DEF EndInv
  <2>2. ASSUME NEW x \in Bots, Reap(x) PROVE \A b \in reaped' : bots'[b].phase = "exited"
    BY <2>1, <2>2 DEF Reap
  <2> QED
    BY <2>1, <2>2, FileSteps
<1>2. ASSUME verdict = "PASS"
      PROVE  LegibleSource' /\ \A b \in Bots : Passes(b)'
  <2>1. reaped = Bots /\ stopFile # "absent" /\ stopFile # "empty"
    BY <1>2 DEF EndInv, StopInv, LegibleSource
  <2>2. UNCHANGED stopFile
    BY <2>1, FileSteps, TypeInductive DEF Reap
  <2>3. \A b \in Bots : bots[b].phase = "exited" /\ bots'[b] = bots[b]
    BY <2>1, ExitedStays DEF EndInv
  <2>4. ASSUME NEW b \in Bots PROVE b \in played => b \in played'
    BY DEF Next, vars, BeginAttempt, EndAttempt, ReachDeadline, Exit, Reap, RefuseArguments,
       ClaimWorkRoot, StartBots, Fail, Verify, SendStop, CreateStopFile, WriteStopFile,
       TeardownFires, FailSafeFires, CollectorTerminates, SwitchOff
  <2>5. UntilStopped <=> UntilStopped'
    BY <2>3 DEF UntilStopped
  <2>6. LegibleSource'
    BY <2>1, <2>2 DEF LegibleSource
  <2>7. ASSUME NEW b \in Bots PROVE Passes(b)'
    <3>1. Passes(b)
      BY <1>2 DEF EndInv
    <3> QED
      BY <3>1, <2>2, <2>3, <2>4, <2>5 DEF Passes
  <2> QED
    BY <2>6, <2>7
<1>3. CASE Verify
  <2>1. reaped' = Bots /\ ssm' # "InProgress" /\ UNCHANGED <<bots, played, stopFile, power>>
    BY <1>3 DEF Verify, AllReaped, End
  <2>2. ASSUME verdict' = "PASS" PROVE LegibleSource' /\ \A b \in Bots : Passes(b)'
    BY <2>1, <2>2, <1>3 DEF Verify, LegibleSource, Passes, UntilStopped
  <2>3. ssm' = "Success" => verdict' = "PASS"
    BY <1>3 DEF Verify, End
  <2> QED
    BY <1>1, <1>3, <2>1, <2>2, <2>3 DEF EndInv, Verify, Active
<1>4. CASE Fail \/ RefuseArguments
  BY <1>1, <1>2, <1>4 DEF EndInv, Fail, RefuseArguments, Active, End
<1>5. CASE ClaimWorkRoot \/ StartBots
  BY <1>1, <1>2, <1>5 DEF EndInv, ClaimWorkRoot, StartBots
<1>6. ASSUME NEW b \in Bots, Reap(b) PROVE EndInv'
  BY <1>1, <1>2, <1>6 DEF EndInv, Reap, Active
<1>7. ASSUME NEW b \in Bots, BeginAttempt(b) \/ EndAttempt(b) \/ ReachDeadline(b) \/ Exit(b)
      PROVE  EndInv'
  BY <1>1, <1>2, <1>7 DEF EndInv, BeginAttempt, EndAttempt, ReachDeadline, Exit, RunsOn,
     instanceVars
<1>8. CASE SendStop \/ CreateStopFile \/ WriteStopFile
  BY <1>1, <1>2, <1>8 DEF EndInv, SendStop, CreateStopFile, WriteStopFile, instanceVars
<1>9. CASE TeardownFires \/ FailSafeFires \/ CollectorTerminates
  BY <1>1, <1>2, <1>9 DEF EndInv, TeardownFires, FailSafeFires, CollectorTerminates,
     SwitchOff, instanceVars
<1>10. CASE UNCHANGED vars
  BY <1>1, <1>2, <1>10 DEF EndInv, vars
<1> QED
  BY <1>3, <1>4, <1>5, <1>6, <1>7, <1>8, <1>9, <1>10 DEF Next

(* The invariant of the run holds in every reachable state.                *)
THEOREM InstanceCorrect == Spec => []InstanceInv
<1>1. Init => InstanceInv
  <2> SUFFICES ASSUME Init PROVE InstanceInv
    OBVIOUS
  <2>1. PICK left \in {"unbounded", "open"} : bots = [b \in Bots |-> Contract!NewBot(left)]
    BY DEF Init
  <2>2. bots \in [Bots -> Contract!BotState] /\ \A b \in Bots : bots[b].reason = "none"
    BY <2>1 DEF Contract!NewBot, Contract!BotState
  <2> QED
    BY <2>2, BotsAssumption DEF Init, InstanceInv, TypeOK, StopInv, EndInv, WriterInv
<1>2. InstanceInv /\ [Next]_vars => InstanceInv'
  BY TypeInductive, StopInductive, EndInductive, FileSteps DEF InstanceInv
<1> QED
  BY <1>1, <1>2, PTL DEF Spec

(* A run that passes was ended by the operator, or by a bot that had       *)
(* played out the duration and was the first to exit.                      *)
THEOREM PassIsAttributedCorrect == Spec => []PassIsAttributed
<1>1. InstanceInv => PassIsAttributed
  <2> SUFFICES ASSUME InstanceInv, verdict = "PASS", stopFile # "operator"
               PROVE  \E b \in Bots : stopFile = b /\ bots[b].reason = "duration_reached"
    BY DEF PassIsAttributed
  <2>1. stopFile \in Bots
    BY BotsAssumption DEF InstanceInv, TypeOK, EndInv, StopInv, LegibleSource
  <2>2. Passes(stopFile) /\ bots[stopFile].reason # "stop_requested"
    BY <2>1 DEF InstanceInv, EndInv, StopInv
  <2> QED
    BY <2>1, <2>2 DEF Passes
<1> QED
  BY <1>1, InstanceCorrect, PTL

(* No game is cut off by the teardown or the collector, unless the         *)
(* supervisor has failed.                                                  *)
THEOREM GamesAreSparedCorrect == Spec => []GamesAreSpared
<1>1. InstanceInv => GamesAreSpared
  BY DEF InstanceInv, EndInv, GamesAreSpared, TypeOK
<1> QED
  BY <1>1, InstanceCorrect, PTL

-----------------------------------------------------------------------------
(* The stop file, once it exists, is there until the end of the run.       *)
LEMMA StopStays ==
  ASSUME InstanceInv, [Next]_vars
  PROVE  StopRequested => StopRequested'
<1>1. ASSUME NEW b \in Bots, Reap(b), StopRequested PROVE StopRequested'
  BY <1>1 DEF Reap, RequestStop, StopRequested
<1> QED
  BY <1>1, FileSteps DEF StopRequested

(* What a bot does is what its contract allows, in the other bots' steps   *)
(* it does nothing.                                                        *)
LEMMA BotGoes ==
  ASSUME InstanceInv, [Next]_vars, NEW b \in Bots, bots'[b] # bots[b]
  PROVE  BotOf(b)!Goes(bots[b], bots'[b], StopRequested) /\ UNCHANGED stopFile
<1> USE DEF InstanceInv, TypeOK, BotOf!Goes, RunsOn
<1>1. PICK x \in Bots : BeginAttempt(x) \/ EndAttempt(x) \/ ReachDeadline(x) \/ Exit(x)
  BY DEF Next, vars, Reap, RefuseArguments, ClaimWorkRoot, StartBots, Fail, Verify,
     SendStop, CreateStopFile, WriteStopFile, TeardownFires, FailSafeFires,
     CollectorTerminates, SwitchOff
<1>2. x = b
  BY <1>1 DEF BeginAttempt, EndAttempt, ReachDeadline, Exit
<1>3. CASE BeginAttempt(b)
  BY <1>3 DEF BeginAttempt, Contract!MayBegin, BotOf!MayBegin
<1>4. CASE EndAttempt(b)
  BY <1>4 DEF EndAttempt
<1>5. CASE ReachDeadline(b)
  BY <1>5 DEF ReachDeadline
<1>6. CASE Exit(b)
  <2>1. PICK reason \in BotOf(b)!Reason :
          /\ BotOf(b)!MayExit(bots[b], reason, StopRequested)
          /\ bots'[b] = BotOf(b)!Exited(bots[b], reason)
    BY <1>6 DEF Exit, Contract!Reason, BotOf!Reason, Contract!MayExit, BotOf!MayExit,
       Contract!Exited, BotOf!Exited
  <2> QED
    BY <1>6, <2>1 DEF Exit
<1> QED
  BY <1>1, <1>2, <1>3, <1>4, <1>5, <1>6

LEMMA ContractStep ==
  ASSUME InstanceInv, [Next]_vars, NEW b \in Bots
  PROVE  [BotOf(b)!Next]_<<bots[b], StopRequested>>
<1>1. CASE bots'[b] = bots[b]
  <2>1. StopRequested \in BOOLEAN /\ StopRequested' \in BOOLEAN
    BY DEF StopRequested
  <2> QED
    BY <1>1, <2>1, StopStays DEF BotOf!Next
<1>2. CASE bots'[b] # bots[b]
  <2>1. UNCHANGED StopRequested
    BY <1>2, BotGoes DEF StopRequested
  <2> QED
    BY <1>2, <2>1, BotGoes DEF BotOf!Next
<1> QED
  BY <1>1, <1>2

(* Each bot of a run keeps the contract the run is built on.               *)
THEOREM BotsKeepContractCorrect == Spec => BotsKeepContract
<1> SUFFICES ASSUME NEW b \in Bots PROVE Spec => BotOf(b)!Spec
  BY DEF BotsKeepContract
<1>1. Init => BotOf(b)!Init
  BY DEF Init, BotOf!Init, Contract!NewBot, BotOf!NewBot, StopRequested
<1>2. InstanceInv /\ [Next]_vars => [BotOf(b)!Next]_<<bots[b], StopRequested>>
  BY ContractStep
<1> QED
  BY <1>1, <1>2, InstanceCorrect, PTL DEF Spec, BotOf!Spec
=============================================================================
