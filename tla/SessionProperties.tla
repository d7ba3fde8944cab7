-------------------------- MODULE SessionProperties --------------------------
(***************************************************************************)
(* What the driver of one ranked game must guarantee.                      *)
(***************************************************************************)
EXTENDS SessionDriver

(* The driver never trips a guard of its own session: mark_request_        *)
(* unanswered and complete_request_action never raise on what the driver   *)
(* passes them, in whatever order decisions, cutoffs and acks arrive.      *)
NoInternalError == outcome # "internal"

(* No request is dropped or settled twice: before a newer request is       *)
(* accepted every older one was answered or recorded as unanswered, never  *)
(* both, and at end_game that holds of the newest one too. The durable     *)
(* record refuses a game without it (_validate_response_coverage).         *)
EveryRequestSettled ==
  /\ sent \cap UnansweredIds = {}
  /\ Settled \subseteq accepted
  /\ accepted \subseteq Settled \cup {lastAccepted}
  /\ complete => accepted \subseteq Settled

(* A live request that can still be answered always has a decision queued  *)
(* or running: the loop never waits on a request nobody works on.          *)
LiveHasWork ==
  outcome = "none" /\ live # NoRequest /\ Answerable(live) =>
    \/ queued # <<>> /\ queued[Len(queued)] = live
    \/ running /\ task.id = live /\ task.decide

(* The driver never sleeps on work: whatever arrived while it slept (a     *)
(* frame, an overflow, a late ack, a finished decision) has notified it or *)
(* is about to.                                                            *)
NoLostWakeup ==
  pc = "wait" /\ HasWork => notified \/ doneCallback \/ live \in expired

(* Every accepted Observation is applied, waiting or being applied: the    *)
(* adapter's state is built from diffs, so none may be skipped, not even   *)
(* of a request that was given up.                                         *)
NothingSkipped ==
  outcome = "none" =>
    accepted = applied \cup {queued[i] : i \in 1..Len(queued)}
                       \cup (IF task.state \in {"busy", "raised"} THEN {task.id} ELSE {})

(* In a game that has not failed, a request recorded as given up for a     *)
(* late ack has that ack in the history, or in a frame still to be         *)
(* processed: the reader saw it first.                                     *)
LateAckEvidence ==
  outcome \in {"none", "completed"} =>
    \A r \in RequestIds : unanswered[r] = "late_ack" =>
      \/ ackHistory[r] \cap LateAckStatus # {}
      \/ \E i \in 1..Len(frames) : /\ frames[i].kind = "ack"
                                   /\ frames[i].id = r
                                   /\ frames[i].status \in LateAckStatus

(* An exception of the adapter or the Policy always fails the game, also   *)
(* when its request was given up or end_game came first.                   *)
FailsClosed == outcome = "completed" => task.state # "raised"

(* A game counts as completed only when the whole stream was used: it was  *)
(* played to end_game, the reader received nothing behind it, dropped      *)
(* nothing for want of room, and every late ack it saw early, on the wire, *)
(* the session has since processed. A lost connection is no success.       *)
WholeStreamUsed ==
  outcome = "completed" =>
    /\ complete /\ frames = <<>> /\ ~overflowed
    /\ lateAcks = {r \in RequestIds : ackHistory[r] \cap LateAckStatus # {}}

(* Observations reach the adapter once each and in acceptance order.       *)
AdapterInOrder ==
  [][applied' # applied =>
       \E r \in accepted \ applied :
          /\ applied' = applied \cup {r}
          /\ \A q \in accepted \ applied : r <= q]_vars

(* At most one thread is in the adapter: running work is never replaced,   *)
(* not even when its request is given up.                                  *)
SingleWorker ==
  [][task.state = "busy" => task' = task \/ task' = [task EXCEPT !.state = task'.state]]_vars

(* The call returns only after the worker thread has left the adapter,     *)
(* unless a cancellation cuts short the very await for the worker.         *)
WorkerEnds == pc = "returned" /\ outcome # "interrupted" => task.state # "busy"

(* What the docstring of drive_session promises of a finished game: work   *)
(* still running at end_game is awaited before the call returns.           *)
EndAwaitsWorker == complete /\ pc = "returned" => task.state # "busy"

-----------------------------------------------------------------------------
(* The driver implements the life cycle of requests.                       *)

requestStatus == [r \in RequestIds |->
  IF r \notin accepted THEN "unseen"
  ELSE IF r \in sent THEN "answered"
  ELSE IF unanswered[r] # "none" THEN "given_up"
  ELSE "open"]

gameStatus == IF outcome \notin {"none", "completed"} THEN "failed"
              ELSE IF complete THEN "over" ELSE "running"

Lifecycle == INSTANCE RequestLifecycle WITH status <- requestStatus, game <- gameStatus
ImplementsLifecycle == Lifecycle!Spec

-----------------------------------------------------------------------------
(* What the proofs add to make the safety properties inductive.            *)

(* At most one request is open: the newest, while it is live. Only the     *)
(* request that overflows the backlog stays open beyond that: the call has *)
(* ended, and end_game never comes.                                        *)
OpenRequestInv ==
  /\ live # NoRequest => live \in accepted \ Settled
  /\ \A r \in accepted \ Settled : r = lastAccepted /\ (r = live \/ (outcome # "none" /\ ~complete))
  /\ sent \cap UnansweredIds = {}
  /\ Settled \subseteq accepted

OrderInv ==
  \A r \in accepted : lastAccepted \in RequestIds /\ r <= lastAccepted

PhaseInv ==
  /\ outcome = "none" <=> pc \notin {"cleanup", "returned"}
  /\ outcome \notin {"internal"}
  /\ pc = "joining" => complete /\ ~running
  /\ complete => /\ live = NoRequest
                 /\ pc \in {"joining", "cleanup", "returned"}
                 /\ outcome \in {"none", "completed", "adapter", "cancelled", "interrupted"}
  /\ outcome = "completed" => complete

WorkerInv ==
  /\ outcome = "none" /\ ~running /\ pc # "joining" => task.state = "none"
  /\ running => task.state # "none"
  /\ task.state = "busy" => \/ running /\ pc # "returned"
                            \/ pc = "joining"
                            \/ outcome = "interrupted"
  /\ outcome = "completed" => task.state \notin {"busy", "raised"}

SafetyInv == TypeOK /\ OpenRequestInv /\ OrderInv /\ PhaseInv /\ WorkerInv

(* Work waits in the order of its ids, and what runs comes before it all.  *)
WorkOrderInv ==
  /\ NothingSkipped
  /\ \A i \in 1..Len(queued) : queued[i] \in accepted \ applied
  /\ \A i, j \in 1..Len(queued) : i < j => queued[i] < queued[j]
  /\ task.state = "busy" =>
       /\ task.id \in accepted \ applied
       /\ \A r \in accepted \ applied : task.id <= r
       /\ \A i \in 1..Len(queued) : task.id < queued[i]

(* A late ack seen on the wire is in a frame until it is in the history:   *)
(* only a failure of the game, such as an ack of no request, loses it.     *)
LateAckInv ==
  /\ \A r \in RequestIds : unanswered[r] = "late_ack" => r \in lateAcks
  /\ outcome \in {"none", "completed"} =>
       \A r \in lateAcks :
         \/ ackHistory[r] \cap LateAckStatus # {}
         \/ \E i \in 1..Len(frames) : /\ frames[i].kind = "ack"
                                      /\ frames[i].id = r
                                      /\ frames[i].status \in LateAckStatus

(* end_game, a failure of recv() and an overflow are the last thing the    *)
(* reader reports, and the early view of late acks is never behind.        *)
StreamInv ==
  /\ \A i \in 1..Len(frames) :
       frames[i].kind \in {"end", "closed"} => i = Len(frames) /\ reader = "stopped" /\ ~overflowed
  /\ overflowed => reader = "stopped" /\ outcome # "completed"
  /\ complete => frames = <<>> /\ reader = "stopped" /\ ~overflowed
  /\ \A r \in RequestIds : ackHistory[r] \cap LateAckStatus # {} => r \in lateAcks
  /\ \A i \in 1..Len(frames) :
       frames[i].kind = "ack" /\ frames[i].status \in LateAckStatus => frames[i].id \in lateAcks

-----------------------------------------------------------------------------
(* A request with a known budget is settled, or the call ends, even if the *)
(* Policy never returns: a slow decision cannot stop the frames.           *)
CutoffFreesTheLoop ==
  \A r \in RequestIds :
    (live = r /\ r \in timed) ~> (live # r \/ pc \in {"cleanup", "returned"})

(* Once the stream has ended, in end_game, a failure or an overflow, and   *)
(* the Policy always returns, the call returns.                            *)
StreamEndReturns ==
  WF_vars(Worker) => ((reader = "stopped") ~> (pc = "returned"))
=============================================================================
