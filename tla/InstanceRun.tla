---------------------------- MODULE InstanceRun ----------------------------
(***************************************************************************)
(* One AWS run (scripts/aws/bootstrap-riichilab-12h.sh): the bots of the   *)
(* run, the supervisor that waits for them, the stop file they share with  *)
(* the operator, the verification and what switches the instance off.      *)
(* A bot is what BotContract promises. The clock is left out: a timer that *)
(* has been started may fire at any later time.                            *)
(***************************************************************************)
EXTENDS FiniteSets

(* Operators whose name starts with "Bug" are not part of the model: each  *)
(* is a plausible bug of the definition after it, which the run notices.   *)

CONSTANT Bots

(* A bot is no other content of the stop file.                             *)
ASSUME BotsAssumption ==
  IsFiniteSet(Bots) /\ Bots # {} /\ Bots \cap {"absent", "empty", "operator"} = {}

VARIABLES
  bots,       (* the state of each bot                                      *)
  played,     (* the bots that have published a record                      *)
  stopFile,   (* its content: who asked first; created "empty" by the       *)
              (* operator's shell, which then writes into it                *)
  bootstrap,  (* how far the bootstrap came: its bots run from "supervising" *)
  reaped,     (* the bots whose exit_code and stop_utc are written          *)
  verdict,    (* the status of the instance summary                         *)
  ssm,        (* the status of the SSM command that is the bootstrap        *)
  teardown,   (* the five-minute poweroff is armed                          *)
  operator,   (* stop-riichilab.ps1                                         *)
  power       (* "on", or what switched the instance off                    *)

vars == <<bots, played, stopFile, bootstrap, reaped, verdict, ssm, teardown,
          operator, power>>
instanceVars == <<bootstrap, reaped, verdict, ssm, teardown>>

Contract == INSTANCE BotContract WITH bot <- bots, stop <- stopFile

StopRequested == stopFile # "absent"
Started == bootstrap = "supervising"
UntilStopped == \A b \in Bots : bots[b].left = "unbounded"

TypeOK ==
  /\ bots \in [Bots -> Contract!BotState]
  /\ played \subseteq Bots
  /\ stopFile \in {"absent", "empty", "operator"} \cup Bots
  /\ bootstrap \in {"arguments", "preflight", "supervising"}
  /\ reaped \subseteq Bots
  /\ verdict \in {"none", "PASS", "FAIL"}
  /\ ssm \in {"InProgress", "Success", "Failed"}
  /\ teardown \in BOOLEAN
  /\ operator \in {"idle", "sent", "writing", "done"}
  /\ power \in {"on", "teardown", "failsafe", "collector"}

Init ==
  /\ \E left \in {"unbounded", "open"} : bots = [b \in Bots |-> Contract!NewBot(left)]
  /\ played = {} /\ stopFile = "absent"
  /\ bootstrap = "arguments" /\ reaped = {} /\ verdict = "none" /\ ssm = "InProgress"
  /\ teardown = FALSE /\ operator = "idle" /\ power = "on"

-----------------------------------------------------------------------------
(* The bots.                                                               *)

RunsOn(b) ==
  /\ power = "on" /\ bots[b].phase # "exited"
  /\ UNCHANGED <<stopFile, instanceVars, operator, power>>

BeginAttempt(b) ==
  /\ RunsOn(b) /\ Started
  /\ Contract!MayBegin(bots[b], StopRequested)
  /\ bots' = [bots EXCEPT ![b].phase = "attempt"]
  /\ UNCHANGED played

(* With or without a record.                                               *)
EndAttempt(b) ==
  /\ RunsOn(b) /\ bots[b].phase = "attempt"
  /\ bots' = [bots EXCEPT ![b].phase = "ready"]
  /\ played' \in {played, played \cup {b}}

ReachDeadline(b) ==
  /\ RunsOn(b) /\ Started /\ bots[b].left = "open"
  /\ bots' = [bots EXCEPT ![b].left = "reached"]
  /\ UNCHANGED played

(* No target is ever given to the bots of a run.                           *)
Exit(b) ==
  /\ RunsOn(b) /\ Started
  /\ \E reason \in Contract!Reason \ {"target_completed_games_reached"} :
       /\ Contract!MayExit(bots[b], reason, StopRequested)
       /\ bots' = [bots EXCEPT ![b] = Contract!Exited(@, reason)]
  /\ UNCHANGED played

(* A bot that is between two games finds the stop request.                 *)
Stop(b) == bots[b].phase = "ready" /\ StopRequested /\ Exit(b)

-----------------------------------------------------------------------------
(* The bootstrap.                                                          *)

Active == power = "on" /\ ssm = "InProgress"
End(status) == ssm' = status /\ UNCHANGED bootstrap

(* on_exit: a run that failed arms the teardown if it can.                 *)
ArmTeardown == teardown' \in BOOLEAN

(* Until the trap is set a failure leaves the instance to the collector.   *)
RefuseArguments ==
  /\ Active /\ bootstrap = "arguments"
  /\ End("Failed")
  /\ UNCHANGED <<bots, played, stopFile, reaped, verdict, teardown, operator, power>>

ClaimWorkRoot ==
  /\ Active /\ bootstrap = "arguments"
  /\ bootstrap' = "preflight"
  /\ UNCHANGED <<bots, played, stopFile, reaped, verdict, ssm, teardown, operator, power>>

StartBots ==
  /\ Active /\ bootstrap = "preflight"
  /\ bootstrap' = "supervising"
  /\ UNCHANGED <<bots, played, stopFile, reaped, verdict, ssm, teardown, operator, power>>

(* A failed check, or a command of the supervisor that fails (set -e): the *)
(* bots that were started are left running.                                *)
Fail ==
  /\ Active /\ bootstrap \in {"preflight", "supervising"}
  /\ End("Failed") /\ ArmTeardown
  /\ UNCHANGED <<bots, played, stopFile, reaped, verdict, operator, power>>

BugOverwrite(source) == stopFile' = source
BugFailuresOnly(source) ==
  stopFile' = IF stopFile = "absent" /\ bots[source].reason \in {"error", "killed"}
              THEN source ELSE stopFile

(* noclobber: the first writer wins.                                       *)
RequestStop(source) == stopFile' = IF stopFile = "absent" THEN source ELSE stopFile

(* wait -n, in any order of the bots that have exited.                     *)
Reap(b) ==
  /\ Active /\ bootstrap = "supervising"
  /\ bots[b].phase = "exited" /\ b \notin reaped
  /\ reaped' = reaped \cup {b}
  /\ RequestStop(b)
  /\ UNCHANGED <<bots, played, bootstrap, verdict, ssm, teardown, operator, power>>

BugAnyReaped == reaped # {}
AllReaped == reaped = Bots

LegibleSource == stopFile # "empty"

(* verify_run: the exit code, the summary that a cancelled runner never    *)
(* prints, the reason, and a record unless the stop was requested.         *)
Passes(b) ==
  LET reason == bots[b].reason
  IN /\ reason \in {"stop_requested", "duration_reached"}
     /\ reason = "stop_requested" => stopFile # "absent"
     /\ reason = "duration_reached" => ~UntilStopped /\ b \in played

(* verify_instance_run, and the exit with its status: PASS arms the        *)
(* teardown itself, and fails if that fails.                               *)
Verify ==
  /\ Active /\ bootstrap = "supervising" /\ AllReaped
  /\ verdict' = IF LegibleSource /\ \A b \in Bots : Passes(b) THEN "PASS" ELSE "FAIL"
  /\ ArmTeardown
  /\ End(IF verdict' = "PASS" /\ teardown' THEN "Success" ELSE "Failed")
  /\ UNCHANGED <<bots, played, stopFile, reaped, operator, power>>

-----------------------------------------------------------------------------
(* The operator, and what switches the instance off.                       *)

(* A stop is sent only while the SSM command is active; it may arrive when *)
(* the run has ended.                                                      *)
SendStop ==
  /\ operator = "idle" /\ ssm = "InProgress"
  /\ operator' = "sent"
  /\ UNCHANGED <<bots, played, stopFile, instanceVars, power>>

(* The shell of the stop command needs the work root. It creates the stop  *)
(* file and then writes into it.                                           *)
CreateStopFile ==
  /\ power = "on" /\ operator = "sent" /\ bootstrap # "arguments"
  /\ IF stopFile = "absent"
     THEN stopFile' = "empty" /\ operator' = "writing"
     ELSE operator' = "done" /\ UNCHANGED stopFile
  /\ UNCHANGED <<bots, played, instanceVars, power>>

WriteStopFile ==
  /\ power = "on" /\ operator = "writing"
  /\ stopFile' = "operator" /\ operator' = "done"
  /\ UNCHANGED <<bots, played, instanceVars, power>>

SwitchOff(by) ==
  /\ power = "on" /\ power' = by
  /\ UNCHANGED <<bots, played, stopFile, instanceVars, operator>>

TeardownFires == teardown /\ SwitchOff("teardown")
FailSafeFires == SwitchOff("failsafe")

(* collect-riichilab-12h.ps1 takes no action on an active command.         *)
CollectorTerminates == ssm # "InProgress" /\ SwitchOff("collector")

-----------------------------------------------------------------------------
Next ==
  \/ \E b \in Bots : \/ BeginAttempt(b) \/ EndAttempt(b) \/ ReachDeadline(b) \/ Exit(b)
                      \/ Reap(b)
  \/ RefuseArguments \/ ClaimWorkRoot \/ StartBots \/ Fail \/ Verify
  \/ SendStop \/ CreateStopFile \/ WriteStopFile
  \/ TeardownFires \/ FailSafeFires \/ CollectorTerminates

Spec == Init /\ [][Next]_vars

(* The bootstrap is scheduled, the stop command and the timer run. A bot   *)
(* owes an end only where a property says so.                              *)
Fairness ==
  /\ WF_vars(ClaimWorkRoot) /\ WF_vars(StartBots)
  /\ WF_vars(Verify) /\ \A b \in Bots : WF_vars(Reap(b))
  /\ WF_vars(CreateStopFile) /\ WF_vars(WriteStopFile)
  /\ WF_vars(TeardownFires)

FairSpec == Spec /\ Fairness

-----------------------------------------------------------------------------
(* A run passes only if it ended for the reason it was started with: the   *)
(* operator asked first, or a bot had played out the requested duration    *)
(* and was the first to exit. A bot that failed first never hides behind   *)
(* the orderly stop of the others.                                         *)
PassIsAttributed ==
  verdict = "PASS" =>
    \/ stopFile = "operator"
    \/ \E b \in Bots : stopFile = b /\ bots[b].reason = "duration_reached"

(* The power is cut in the middle of a game only by the cost fail-safe, or *)
(* after the supervisor itself has failed.                                 *)
GamesAreSpared ==
  power \in {"teardown", "collector"} /\ (\E b \in Bots : bots[b].phase = "attempt")
    => ssm = "Failed" /\ verdict = "none"

(* Each bot of the run keeps BotContract, with the existence of the stop   *)
(* file as its stop request: whatever the supervisor, the operator and the *)
(* power do, a bot does what its contract allows, and the request stays.   *)
BotOf(b) == INSTANCE BotContract WITH bot <- bots[b], stop <- StopRequested

BotsKeepContract == \A b \in Bots : BotOf(b)!Spec

(* Once a bot has exited, or the stop file exists, the run comes to its    *)
(* end, and the instance is switched off unless the teardown could not be  *)
(* armed: if every attempt ends and every bot between two games goes on.   *)
StopSpreads ==
  (\A b \in Bots : WF_vars(EndAttempt(b)) /\ WF_vars(Stop(b)))
    => ((\/ Started /\ StopRequested
         \/ \E b \in Bots : bots[b].phase = "exited")
          ~> power # "on" \/ (ssm # "InProgress" /\ ~teardown))
=============================================================================
