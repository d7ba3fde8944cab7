---------------------------- MODULE FormalEvent ----------------------------
(***************************************************************************)
(* run_formal_event (learning_candidate_engine_aabb/runner.py) on parallel *)
(* workers: the hanchan of a locked schedule are played by a process pool  *)
(* (stream_parallel_tasks), put back into schedule order as they arrive    *)
(* (_CanonicalSink), and published only when all of them are good.         *)
(*                                                                         *)
(* A hanchan is its index in the schedule, and so is its row. Deadlines,   *)
(* the memory limits and the checks of a result are choices: each may fail *)
(* wherever the code looks at it. The second layer of the record, which    *)
(* may be dropped without stopping the event, is left out.                 *)
(***************************************************************************)
EXTENDS Integers, FiniteSets, Sequences

CONSTANTS TaskCount, Workers, MaxAhead

ASSUME PoolAssumption ==
  /\ {TaskCount, Workers, MaxAhead} \subseteq Nat \ {0}
  /\ MaxAhead >= Workers

Index == 0 .. TaskCount - 1

VARIABLES
  pc,
  future,           (* of each hanchan: where its result is                 *)
  nextIndex,        (* the first hanchan that has not been submitted        *)
  firstUnfinished,
  finished,         (* the finished ones after firstUnfinished              *)
  ready,            (* collected results that have not been delivered       *)
  buffer,           (* delivered, and not yet in the raw record             *)
  rows,             (* the raw record, in its staging directory             *)
  published         (* the artifacts at their destinations                  *)

poolVars == <<future, nextIndex, firstUnfinished, finished, ready>>
sinkVars == <<buffer, rows>>
vars == <<pc, poolVars, sinkVars, published>>

Artifact == {"raw", "observations", "result"}

Ended == {"published", "stopped", "killed", "refused"}

TypeOK ==
  /\ pc \in {"begin", "submit", "wait", "deliver", "append", "advance", "join",
             "verify", "publish", "rollback"} \cup Ended
  /\ future \in [Index -> {"none", "running", "good", "bad", "taken", "killed"}]
  /\ nextIndex \in 0..TaskCount
  /\ firstUnfinished \in 0..TaskCount
  /\ finished \subseteq Index /\ ready \subseteq Index /\ buffer \subseteq Index
  /\ rows \in Seq(Index)
  /\ published \subseteq Artifact

Init ==
  /\ pc = "begin" /\ published = {}
  /\ future = [i \in Index |-> "none"]
  /\ nextIndex = 0 /\ firstUnfinished = 0 /\ finished = {} /\ ready = {}
  /\ buffer = {} /\ rows = <<>>

Pending == {i \in Index : future[i] \in {"running", "good", "bad"}}
Running == {i \in Index : future[i] = "running"}

(* Operators whose name starts with "Bug" are not part of the model: each  *)
(* is a plausible bug of the definition after it, which the run notices.   *)

(* _stop_pool: every worker is killed.                                     *)
StopPool ==
  future' = [i \in Index |-> IF future[i] = "running" THEN "killed" ELSE future[i]]

(* The first error stops the event; the staging goes, the stop document is *)
(* written beside the destinations.                                        *)
Stop ==
  /\ pc' = "stopped" /\ StopPool
  /\ UNCHANGED <<nextIndex, firstUnfinished, finished, ready, sinkVars, published>>

-----------------------------------------------------------------------------
(* The workers.                                                            *)

(* A result that the parent will refuse is "bad", like an exception.       *)
WorkerReturns(i) ==
  /\ future[i] = "running" /\ pc \notin Ended
  /\ \E result \in {"good", "bad"} : future' = [future EXCEPT ![i] = result]
  /\ UNCHANGED <<pc, nextIndex, firstUnfinished, finished, ready, sinkVars, published>>

(* One worker that dies breaks the pool: every running future fails.       *)
PoolBreaks ==
  /\ Running # {} /\ pc \notin Ended
  /\ future' = [i \in Index |-> IF future[i] = "running" THEN "bad" ELSE future[i]]
  /\ UNCHANGED <<pc, nextIndex, firstUnfinished, finished, ready, sinkVars, published>>

-----------------------------------------------------------------------------
(* stream_parallel_tasks.                                                  *)

BugRunAgain ==
  /\ pc = "begin" /\ pc' = "submit"
  /\ UNCHANGED <<poolVars, sinkVars, published>>

(* Nothing is run again once an output has been written.                   *)
Begin ==
  /\ pc = "begin"
  /\ pc' = IF published # {} THEN "refused" ELSE "submit"
  /\ UNCHANGED <<poolVars, sinkVars, published>>

(* OS limits, live gates, wall time, memory, the checks before the result. *)
CheckFails ==
  /\ pc \in {"submit", "wait", "deliver", "append", "verify", "publish"}
  /\ pc = "publish" => published = {}
  /\ Stop

BugCountedAhead ==
  nextIndex < Cardinality({i \in Index : future[i] = "taken"}) + MaxAhead

WithinAhead == nextIndex < firstUnfinished + MaxAhead

CanSubmit ==
  nextIndex < TaskCount /\ Cardinality(Pending) < Workers /\ WithinAhead

Submit ==
  /\ pc = "submit"
  /\ IF CanSubmit
     THEN /\ future' = [future EXCEPT ![nextIndex] = "running"]
          /\ nextIndex' = nextIndex + 1
          /\ UNCHANGED pc
     ELSE /\ pc' = IF Pending = {} THEN "join" ELSE "wait"
          /\ UNCHANGED <<future, nextIndex>>
  /\ UNCHANGED <<firstUnfinished, finished, ready, sinkVars, published>>

BugOnlyWhenReady == pc = "wait" /\ Running # {} /\ Running # Pending /\ Stop

(* The timeout of a hanchan, or the wall time of the event: the wait never *)
(* outlasts the earlier of them.                                           *)
OutOfTime == pc = "wait" /\ Running # {} /\ Stop

(* wait(FIRST_COMPLETED): everything that is done by now.                  *)
Collect ==
  /\ pc = "wait" /\ Pending # Running
  /\ ready' = Pending \ Running
  /\ pc' = "deliver"
  /\ UNCHANGED <<future, nextIndex, firstUnfinished, finished, sinkVars, published>>

Delivered(i) == i \in ready /\ \A j \in ready : i <= j

(* _verified, and the sink, which takes no index twice.                    *)
Acceptable(i) == future[i] = "good" /\ i >= Len(rows) /\ i \notin buffer

(* In schedule order among those that were collected together.             *)
Deliver ==
  /\ pc = "deliver"
  /\ \E i \in ready :
       /\ Delivered(i)
       /\ IF Acceptable(i)
          THEN /\ buffer' = buffer \cup {i}
               /\ future' = [future EXCEPT ![i] = "taken"]
               /\ pc' = "append"
               /\ UNCHANGED <<nextIndex, firstUnfinished, finished, ready, rows, published>>
          ELSE Stop

(* The delivered hanchan is finished.                                      *)
Finish ==
  \E i \in ready : /\ Delivered(i)
                   /\ finished' = finished \cup {i} /\ ready' = ready \ {i}

BugCompletionOrder ==
  /\ pc = "append"
  /\ \/ /\ \E i \in buffer : rows' = Append(rows, i) /\ buffer' = buffer \ {i}
        /\ UNCHANGED <<pc, finished, ready>>
     \/ buffer = {} /\ pc' = "advance" /\ Finish /\ UNCHANGED sinkVars
  /\ UNCHANGED <<future, nextIndex, firstUnfinished, published>>

(* The rows that have become consecutive, one by one.                      *)
AppendRow ==
  /\ pc = "append"
  /\ IF Len(rows) \in buffer
     THEN /\ rows' = Append(rows, Len(rows)) /\ buffer' = buffer \ {Len(rows)}
          /\ UNCHANGED <<pc, finished, ready>>
     ELSE pc' = "advance" /\ Finish /\ UNCHANGED sinkVars
  /\ UNCHANGED <<future, nextIndex, firstUnfinished, published>>

Advance ==
  /\ pc = "advance"
  /\ IF firstUnfinished \in finished
     THEN /\ finished' = finished \ {firstUnfinished}
          /\ firstUnfinished' = firstUnfinished + 1
          /\ UNCHANGED pc
     ELSE /\ pc' = IF ready = {} THEN "submit" ELSE "deliver"
          /\ UNCHANGED <<firstUnfinished, finished>>
  /\ UNCHANGED <<future, nextIndex, ready, sinkVars, published>>

(* pool.shutdown(wait=True): the parent waits until every worker process   *)
(* has exited, with no timeout and no look at the wall time. Only whoever  *)
(* kills the scope can end a wait for a worker that does not exit.         *)
Join ==
  /\ pc = "join"
  /\ pc' = "verify"
  /\ UNCHANGED <<poolVars, sinkVars, published>>

-----------------------------------------------------------------------------
(* run_formal_event after the last hanchan.                                *)

Complete == buffer = {} /\ Len(rows) = TaskCount

Verify ==
  /\ pc = "verify"
  /\ IF Complete
     THEN pc' = "publish" /\ UNCHANGED <<poolVars, sinkVars, published>>
     ELSE Stop

Follows(artifact) ==
  CASE artifact = "raw"          -> published = {}
    [] artifact = "observations" -> published = {"raw"}
    [] artifact = "result"       -> published = {"raw", "observations"}

Rename(artifact) ==
  /\ pc = "publish" /\ artifact \notin published /\ Follows(artifact)
  /\ published' = published \cup {artifact}
  /\ pc' = IF published' = Artifact THEN "published" ELSE pc
  /\ UNCHANGED <<poolVars, sinkVars>>

(* A rename fails: those before it are taken back, raw first, unless that  *)
(* fails too.                                                              *)
RenameFails ==
  /\ pc = "publish" /\ published # {}
  /\ pc' = "rollback"
  /\ UNCHANGED <<poolVars, sinkVars, published>>

TakeBack ==
  /\ pc = "rollback"
  /\ \/ /\ "raw" \in published
        /\ published' = published \ {"raw"} /\ UNCHANGED <<pc, poolVars, sinkVars>>
     \/ /\ "raw" \notin published /\ published # {}
        /\ published' = {} /\ UNCHANGED <<pc, poolVars, sinkVars>>
     \/ Stop

(* The kernel, systemd or the watchdog kills the scope the event runs in.  *)
Kill ==
  /\ pc \notin Ended \cup {"begin"}
  /\ pc' = "killed" /\ StopPool
  /\ UNCHANGED <<nextIndex, firstUnfinished, finished, ready, sinkVars, published>>

(* The lock is executed again, with a staging directory of its own.        *)
Rerun ==
  /\ pc \in Ended
  /\ pc' = "begin"
  /\ future' = [i \in Index |-> "none"]
  /\ nextIndex' = 0 /\ firstUnfinished' = 0 /\ finished' = {} /\ ready' = {}
  /\ buffer' = {} /\ rows' = <<>>
  /\ UNCHANGED published

Parent == Begin \/ Submit \/ OutOfTime \/ Collect \/ Deliver \/ AppendRow \/ Advance
          \/ Verify \/ (\E artifact \in Artifact : Rename(artifact)) \/ TakeBack

Next ==
  \/ Parent \/ Join \/ CheckFails \/ RenameFails \/ Kill \/ Rerun
  \/ \E i \in Index : WorkerReturns(i)
  \/ PoolBreaks

Spec == Init /\ [][Next]_vars

(* The parent is scheduled, and its wait for a result is bounded by the    *)
(* timeout of a hanchan. Nothing is owed by a worker: neither a result nor *)
(* its exit, which Join waits for.                                         *)
FairSpec == Spec /\ WF_vars(Parent)

-----------------------------------------------------------------------------
(* The raw record holds the hanchan of the schedule, in its order, each at *)
(* most once, in whatever order the workers return them.                   *)
InOrder == \A k \in 1..Len(rows) : rows[k] = k - 1

(* No hanchan is lost between the pool and the record, or delivered twice: *)
(* the checks for it guard against what cannot happen.                     *)
EachDeliveredOnce ==
  /\ pc \in {"join", "verify"} => Complete
  /\ pc = "deliver" => \A i \in ready : i >= Len(rows) /\ i \notin buffer

(* What is published is of a whole schedule, and there is no result        *)
(* without its raw record and its observations, whatever is killed or      *)
(* fails to be renamed.                                                    *)
ResultIsWhole ==
  /\ InOrder /\ EachDeliveredOnce
  /\ pc \in {"publish", "published", "rollback"} => Complete
  /\ "result" \in published => published = Artifact

(* However slow one hanchan is, no more than MaxAhead results are held.    *)
ReorderBounded == Cardinality(buffer) <= MaxAhead

(* The parent never waits for nothing, and wherever it goes on it has a    *)
(* hanchan to go on with: a collected one whose turn it is, or the next    *)
(* row of the record.                                                      *)
NeverStuck ==
  /\ pc = "wait" => Pending # {}
  /\ pc = "deliver" => \E i \in ready : Delivered(i)
  /\ pc = "append" => Len(rows) \in buffer \/ \E i \in ready : Delivered(i)

(* Whoever runs the event may rely on its contract: it is not played again *)
(* once anything of it is published, and a published result is final.      *)
Contract == INSTANCE EventContract WITH
  event   <- CASE pc = "begin" -> "idle"
               [] pc = "published" -> "succeeded"
               [] pc \in Ended \ {"published"} -> "failed"
               [] OTHER -> "running",
  outputs <- CASE published = {} -> "none"
               [] published = Artifact -> "whole"
               [] OTHER -> "partial"

KeepsContract == Contract!Spec

(* A worker that never returns cannot hold the event: it ends, or comes to *)
(* the shutdown of its pool with every hanchan in the record. There it is  *)
(* held by a worker that does not exit, and by nothing else.               *)
EventEnds ==
  /\ pc # "begin" ~> pc \in Ended \/ (pc = "join" /\ Complete)
  /\ WF_vars(Join) => (pc # "begin" ~> pc \in Ended)
=============================================================================
