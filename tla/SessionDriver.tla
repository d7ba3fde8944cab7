--------------------------- MODULE SessionDriver ---------------------------
(***************************************************************************)
(* One ranked game of the RiichiLab client: the FrameReader task, the      *)
(* drive loop, the single decision worker and the request lifecycle of the *)
(* session (riichilab/decision_pipeline.py, transport.py, session.py).     *)
(*                                                                         *)
(* FrameReader and the drive loop are two tasks of ONE asyncio loop: the   *)
(* reader runs only while the driver is suspended in an await (pc # run).  *)
(* The worker is a thread; what the loop sees of it is its future, which   *)
(* becomes done in a loop callback, and a second callback that notifies.   *)
(*                                                                         *)
(* Time is abstracted to the set of requests whose local cutoff has        *)
(* passed: the windows of two requests are unrelated, so they may pass in  *)
(* any order, and each only after the request was received.                *)
(***************************************************************************)
EXTENDS Integers, Sequences

CONSTANTS
  RequestIds,         (* request_id values the server may use               *)
  Seats,              (* seats a start_game may report                      *)
  NoRequest, NoSeat,  (* None                                               *)
  MaxBufferedFrames,  (* MAX_BUFFERED_FRAMES                                *)
  MaxPendingRequests, (* MAX_PENDING_REQUESTS                               *)
  ServerFrames        (* the frames the server may send                     *)

AckStatus == {"accepted", "stale", "defaulted", "rejected"}
LateAckStatus == {"stale", "defaulted"}
FatalAckStatus == {"rejected"}  \* stands for "unparseable" too

(* A frame as the driver tells frames apart. "other" is a binary frame or  *)
(* an event the session ignores, "malformed" one that no state accepts,    *)
(* "closed" the failure of recv() that FrameReader queues like a frame.    *)
(* timed: the request carries a usable time budget, so it has a cutoff.    *)
Frame ==
       [kind : {"start"}, seat : Seats]
  \cup [kind : {"request"}, id : RequestIds, timed : BOOLEAN]
  \cup [kind : {"ack"}, id : RequestIds, status : AckStatus]
  \cup [kind : {"end", "other", "malformed", "closed"}]

ClosedFrame == [kind |-> "closed"]

ASSUME IdsAssumption ==
  /\ RequestIds \subseteq Int
  /\ NoRequest \notin RequestIds
  /\ NoSeat \notin Seats

ASSUME BoundsAssumption ==
  /\ MaxBufferedFrames \in Nat \ {0}
  /\ MaxPendingRequests \in Nat \ {0}

ASSUME FramesAssumption ==
  /\ ServerFrames \subseteq Frame
  /\ ClosedFrame \notin ServerFrames

VARIABLES
  \* FrameReader
  reader,       (* "reading" or "stopped"                                   *)
  frames,       (* frames received and not yet processed                    *)
  lateAcks,     (* late_ack_ids: stale / defaulted acks seen on the wire    *)
  overflowed,
  \* RankedSession
  seat,         (* bound seat: the adapter exists iff it is one             *)
  accepted,     (* _accepted_request_ids                                    *)
  lastAccepted,
  sent,         (* _sent_request_ids                                        *)
  unanswered,   (* _unanswered_requests: reason, or "none"                  *)
  ackHistory,   (* statuses acknowledged, per request                       *)
  complete,     (* is_complete: end_game was processed                      *)
  \* _SessionDriver
  pc,           (* where the driver is                                      *)
  notified,     (* the asyncio.Event                                        *)
  queued,       (* requests waiting for the worker                          *)
  running,      (* _running is not None                                     *)
  live,         (* the live request                                         *)
  outcome,      (* how the call ends                                        *)
  \* the decision worker and the adapter behind it
  task,         (* the last work submitted: id, decide, state of its future *)
  doneCallback, (* the future's done callback is scheduled                  *)
  applied,      (* requests whose Observation the adapter has applied       *)
  \* time
  timed,        (* accepted requests that have a local cutoff               *)
  expired       (* those whose cutoff has passed                            *)

readerVars  == <<reader, frames, lateAcks, overflowed>>
sessionVars == <<seat, accepted, lastAccepted, sent, unanswered, ackHistory, complete>>
driverVars  == <<pc, notified, queued, running, live, outcome>>
workerVars  == <<task, doneCallback, applied>>
clockVars   == <<timed, expired>>
vars == <<readerVars, sessionVars, driverVars, workerVars, clockVars>>

NoTask == [id |-> NoRequest, decide |-> FALSE, state |-> "none"]

Reason == {"none", "local_cutoff", "late_ack"}
Outcome == {"none", "completed", "protocol", "internal", "backlog",
            "disconnect", "trace", "adapter", "send", "cancelled", "interrupted"}

UnansweredIds == {r \in RequestIds : unanswered[r] # "none"}
Settled == sent \cup UnansweredIds

ReaderTypeOK ==
  /\ reader \in {"reading", "stopped"}
  /\ frames \in Seq(ServerFrames \cup {ClosedFrame})
  /\ Len(frames) <= MaxBufferedFrames + (IF reader = "reading" THEN 0 ELSE 1)
  /\ lateAcks \subseteq RequestIds
  /\ overflowed \in BOOLEAN

SessionTypeOK ==
  /\ seat \in Seats \cup {NoSeat}
  /\ accepted \subseteq RequestIds
  /\ lastAccepted \in RequestIds \cup {NoRequest}
  /\ sent \subseteq RequestIds
  /\ unanswered \in [RequestIds -> Reason]
  /\ ackHistory \in [RequestIds -> SUBSET AckStatus]
  /\ complete \in BOOLEAN

DriverTypeOK ==
  /\ pc \in {"run", "wait", "sending", "joining", "cleanup", "returned"}
  /\ notified \in BOOLEAN
  /\ queued \in Seq(RequestIds)
  /\ Len(queued) <= MaxPendingRequests
  /\ running \in BOOLEAN
  /\ live \in RequestIds \cup {NoRequest}
  /\ outcome \in Outcome

WorkerTypeOK ==
  /\ task \in {NoTask} \cup [id : RequestIds, decide : BOOLEAN,
                             state : {"busy", "ok", "raised"}]
  /\ doneCallback \in BOOLEAN
  /\ applied \subseteq RequestIds

ClockTypeOK ==
  /\ timed \subseteq RequestIds
  /\ expired \subseteq RequestIds

TypeOK == ReaderTypeOK /\ SessionTypeOK /\ DriverTypeOK /\ WorkerTypeOK /\ ClockTypeOK

Init ==
  /\ reader = "reading" /\ frames = <<>> /\ lateAcks = {} /\ overflowed = FALSE
  /\ seat = NoSeat /\ accepted = {} /\ lastAccepted = NoRequest
  /\ sent = {} /\ unanswered = [r \in RequestIds |-> "none"]
  /\ ackHistory = [r \in RequestIds |-> {}] /\ complete = FALSE
  /\ pc = "run" /\ notified = FALSE /\ queued = <<>> /\ running = FALSE
  /\ live = NoRequest /\ outcome = "none"
  /\ task = NoTask /\ doneCallback = FALSE /\ applied = {}
  /\ timed = {} /\ expired = {}

-----------------------------------------------------------------------------
(* FrameReader: it runs while the driver awaits something.                 *)

Suspended == pc \in {"wait", "sending", "joining"}

CanRecv == Suspended /\ reader = "reading"

(* Operators whose name starts with "Bug" are not part of the model: each  *)
(* is a plausible bug of the definition after it, which a run must notice. *)

BugNoteEveryAck(f) ==
  lateAcks' = IF f.kind = "ack" THEN lateAcks \cup {f.id} ELSE lateAcks

(* _note_ack: a late acknowledgement counts as soon as it is on the wire,  *)
(* before the driver has processed the frame.                              *)
NoteAck(f) ==
  lateAcks' = IF f.kind = "ack" /\ f.status \in LateAckStatus
              THEN lateAcks \cup {f.id}
              ELSE lateAcks

BugReceiveOneTooMany(f) ==
  /\ CanRecv
  /\ Len(frames) <= MaxBufferedFrames
  /\ frames' = Append(frames, f)
  /\ NoteAck(f)
  /\ reader' = IF f.kind = "end" THEN "stopped" ELSE "reading"
  /\ notified' = TRUE
  /\ UNCHANGED <<overflowed, sessionVars, pc, queued, running, live, outcome,
                 workerVars, clockVars>>

BugReadPastEnd(f) ==
  /\ CanRecv
  /\ Len(frames) < MaxBufferedFrames
  /\ frames' = Append(frames, f)
  /\ NoteAck(f)
  /\ notified' = TRUE
  /\ UNCHANGED <<reader, overflowed, sessionVars, pc, queued, running, live, outcome,
                 workerVars, clockVars>>

ReceiveFrame(f) ==
  /\ CanRecv
  /\ Len(frames) < MaxBufferedFrames
  /\ frames' = Append(frames, f)
  /\ NoteAck(f)
  /\ reader' = IF f.kind = "end" THEN "stopped" ELSE "reading"
  /\ notified' = TRUE
  /\ UNCHANGED <<overflowed, sessionVars, pc, queued, running, live, outcome,
                 workerVars, clockVars>>

BugOverflowSilently ==
  /\ CanRecv
  /\ Len(frames) >= MaxBufferedFrames
  /\ overflowed' = TRUE
  /\ reader' = "stopped"
  /\ UNCHANGED <<frames, lateAcks, sessionVars, driverVars, workerVars, clockVars>>

(* One frame too many: it is dropped and the reader gives up.              *)
ReceiveOverflow ==
  /\ CanRecv
  /\ Len(frames) >= MaxBufferedFrames
  /\ overflowed' = TRUE
  /\ reader' = "stopped"
  /\ notified' = TRUE
  /\ UNCHANGED <<frames, lateAcks, sessionVars, pc, queued, running, live,
                 outcome, workerVars, clockVars>>

(* recv() raised: the failure queues behind the frames already received.   *)
ReceiveFailure ==
  /\ CanRecv
  /\ frames' = Append(frames, ClosedFrame)
  /\ reader' = "stopped"
  /\ notified' = TRUE
  /\ UNCHANGED <<lateAcks, overflowed, sessionVars, pc, queued, running, live,
                 outcome, workerVars, clockVars>>

-----------------------------------------------------------------------------
(* The worker thread and the callbacks of its future.                      *)

(* The adapter applied the Observation (and, deciding, the Policy chose).  *)
WorkerReturns ==
  /\ pc # "run"
  /\ task.state = "busy"
  /\ task' = [task EXCEPT !.state = "ok"]
  /\ applied' = applied \cup {task.id}
  /\ doneCallback' = TRUE
  /\ UNCHANGED <<readerVars, sessionVars, driverVars, clockVars>>

WorkerRaises ==
  /\ pc # "run"
  /\ task.state = "busy"
  /\ task' = [task EXCEPT !.state = "raised"]
  /\ doneCallback' = TRUE
  /\ UNCHANGED <<readerVars, sessionVars, driverVars, applied, clockVars>>

BugDoneSilently ==
  /\ pc # "run"
  /\ doneCallback
  /\ doneCallback' = FALSE
  /\ UNCHANGED <<readerVars, sessionVars, driverVars, task, applied, clockVars>>

(* The done callback of the future wakes the driver.                       *)
NotifyDone ==
  /\ pc # "run"
  /\ doneCallback
  /\ doneCallback' = FALSE
  /\ notified' = TRUE
  /\ UNCHANGED <<readerVars, sessionVars, pc, queued, running, live, outcome,
                 task, applied, clockVars>>

(* The local cutoff of a request passes.                                   *)
Expire(r) ==
  /\ outcome = "none"
  /\ r \in (timed \cap accepted) \ expired
  /\ expired' = expired \cup {r}
  /\ UNCHANGED <<readerVars, sessionVars, driverVars, workerVars, timed>>

-----------------------------------------------------------------------------
(* The drive loop. One pass is atomic for the other tasks of the loop; its *)
(* tests come in the order of the guards below.                            *)

(* _answerable: the server can still be expected to take a response.       *)
Answerable(r) == r \notin expired /\ r \notin lateAcks

InLoop == pc = "run" /\ ~complete
WorkDone == running /\ task.state # "busy"
CanStart == ~running /\ queued # <<>>
LiveGivenUp == live # NoRequest /\ ~Answerable(live)
BugFramesWhileLive == frames # <<>>
FrameReady == live = NoRequest /\ frames # <<>>
HasWork == overflowed \/ WorkDone \/ CanStart \/ LiveGivenUp \/ FrameReady

(* run()'s finally: the reader is cancelled, the worker still awaited.     *)
EndCall(how) ==
  /\ pc' = "cleanup"
  /\ outcome' = how
  /\ reader' = "stopped"

(* mark_request_unanswered: its guards raise, which here is "internal".    *)
MayMark(r) == r \in accepted /\ r \notin sent /\ unanswered[r] = "none"

BugKeepLive(r) ==
  /\ unanswered' = [unanswered EXCEPT ![r] =
                      IF r \in expired THEN "local_cutoff" ELSE "late_ack"]
  /\ UNCHANGED <<pc, outcome, reader, sent, live>>

MarkUnanswered(r) ==
  /\ unanswered' = [unanswered EXCEPT ![r] =
                      IF r \in expired THEN "local_cutoff" ELSE "late_ack"]
  /\ live' = NoRequest
  /\ UNCHANGED <<pc, outcome, reader, sent>>

RaiseInternal ==
  /\ EndCall("internal")
  /\ UNCHANGED <<unanswered, live, sent>>

DriveOverflow ==
  /\ InLoop
  /\ overflowed
  /\ EndCall("backlog")
  /\ notified' = FALSE
  /\ UNCHANGED <<frames, lateAcks, overflowed, sessionVars, queued, running,
                 live, workerVars, clockVars>>

(* complete_request_action binds the response to the current request.      *)
MayComplete(r) ==
  /\ r = lastAccepted
  /\ r \notin sent
  /\ unanswered[r] = "none"

FinishRunning ==
  /\ InLoop /\ ~overflowed /\ WorkDone
  /\ running' = FALSE
  /\ notified' = FALSE
  /\ \/ /\ task.state = "raised"
        /\ EndCall("adapter")
        /\ UNCHANGED <<live, sent, unanswered, task>>
     \/ /\ task.state = "ok"
        /\ task' = NoTask
        /\ \/ \* only synchronized, or its request is live no more: discard
              /\ ~task.decide \/ task.id # live
              /\ UNCHANGED <<live, sent, unanswered, pc, outcome, reader>>
           \/ /\ task.decide /\ task.id = live /\ ~Answerable(live)
              /\ IF MayMark(live) THEN MarkUnanswered(live) ELSE RaiseInternal
           \/ /\ task.decide /\ task.id = live /\ Answerable(live)
              /\ IF MayComplete(live)
                 THEN /\ sent' = sent \cup {live}
                      /\ live' = NoRequest
                      /\ pc' = "sending"
                      /\ UNCHANGED <<unanswered, outcome, reader>>
                 ELSE RaiseInternal
  /\ UNCHANGED <<frames, lateAcks, overflowed, seat, accepted, lastAccepted,
                 ackHistory, complete, queued, doneCallback, applied, clockVars>>

BugForgetTheRest == <<>>
RestQueued == Tail(queued)

(* Only a live request that can still be answered reaches the Policy; any  *)
(* other one is only synchronized into the adapter.                        *)
StartNext ==
  /\ InLoop /\ ~overflowed /\ CanStart
  /\ queued' = RestQueued
  /\ task' = [id |-> Head(queued),
              decide |-> Head(queued) = live /\ Answerable(live),
              state |-> "busy"]
  /\ running' = TRUE
  /\ notified' = FALSE
  /\ UNCHANGED <<readerVars, sessionVars, pc, live, outcome, doneCallback,
                 applied, clockVars>>

(* The live request is given up; its decision, if any, runs on.            *)
Abandon ==
  /\ InLoop /\ ~overflowed /\ ~WorkDone /\ ~CanStart
  /\ LiveGivenUp
  /\ IF MayMark(live) THEN MarkUnanswered(live) ELSE RaiseInternal
  /\ notified' = FALSE
  /\ UNCHANGED <<frames, lateAcks, overflowed, seat, accepted, lastAccepted,
                 ackHistory, complete, queued, running, workerVars, clockVars>>

(* Nothing to do: sleep until notified, or until the cutoff of the live    *)
(* request (wait_for_notification).                                        *)
Sleep ==
  /\ InLoop /\ ~HasWork
  /\ pc' = "wait"
  /\ notified' = FALSE
  /\ UNCHANGED <<readerVars, sessionVars, queued, running, live, outcome,
                 workerVars, clockVars>>

BugSleepThroughCutoff ==
  /\ pc = "wait"
  /\ notified
  /\ pc' = "run"
  /\ UNCHANGED <<readerVars, sessionVars, notified, queued, running, live,
                 outcome, workerVars, clockVars>>

(* The event was set, or the timeout at the cutoff expired.                *)
Wake ==
  /\ pc = "wait"
  /\ notified \/ live \in expired
  /\ pc' = "run"
  /\ UNCHANGED <<readerVars, sessionVars, notified, queued, running, live,
                 outcome, workerVars, clockVars>>

-----------------------------------------------------------------------------
(* _process_frame, on the oldest buffered frame, while no request is live. *)

TakeFrame(kind) ==
  /\ InLoop /\ ~overflowed /\ ~WorkDone /\ ~CanStart
  /\ FrameReady
  /\ Head(frames).kind = kind
  /\ frames' = Tail(frames)
  /\ notified' = FALSE

(* start_game binds the seat once; a second one must report the same seat. *)
ProcessStart ==
  /\ TakeFrame("start")
  /\ IF seat \in {NoSeat, Head(frames).seat}
     THEN /\ seat' = Head(frames).seat
          /\ UNCHANGED <<pc, outcome, reader>>
     ELSE EndCall("protocol") /\ UNCHANGED seat
  /\ UNCHANGED <<lateAcks, overflowed, accepted, lastAccepted, sent, unanswered,
                 ackHistory, complete, queued, running, live, workerVars, clockVars>>

BugAcceptAnyOrder(r) == seat # NoSeat /\ r \notin accepted

(* accept_request_action: an adapter, and an id above every earlier one.   *)
MayAccept(r) ==
  /\ seat # NoSeat
  /\ r \notin accepted
  /\ lastAccepted # NoRequest => r > lastAccepted

BugQueueNewestOnly(r) == <<r>>
BugQueueInFront(r) == <<r>> \o queued
Enqueue(r) == Append(queued, r)

(* _accept_request: a request that overflows the backlog is accepted but   *)
(* neither queued nor live when the call ends.                             *)
ProcessRequest ==
  /\ TakeFrame("request")
  /\ LET r == Head(frames).id IN
     \/ /\ ~MayAccept(r)
        /\ EndCall("protocol")
        /\ UNCHANGED <<accepted, lastAccepted, queued, live, timed>>
     \/ /\ MayAccept(r)
        /\ accepted' = accepted \cup {r}
        /\ lastAccepted' = r
        /\ timed' = IF Head(frames).timed THEN timed \cup {r} ELSE timed
        /\ IF Len(queued) >= MaxPendingRequests
           THEN EndCall("backlog") /\ UNCHANGED <<queued, live>>
           ELSE /\ queued' = Enqueue(r)
                /\ live' = r
                /\ UNCHANGED <<pc, outcome, reader>>
  /\ UNCHANGED <<lateAcks, overflowed, seat, sent, unanswered, ackHistory,
                 complete, running, workerVars, expired>>

(* _handle_action_ack: an ack of a request never accepted fails closed, a  *)
(* fatal one after it is recorded.                                         *)
ProcessAck ==
  /\ TakeFrame("ack")
  /\ LET f == Head(frames) IN
     /\ ackHistory' = IF f.id \in accepted
                      THEN [ackHistory EXCEPT ![f.id] = @ \cup {f.status}]
                      ELSE ackHistory
     /\ IF f.id \notin accepted \/ f.status \in FatalAckStatus
        THEN EndCall("protocol")
        ELSE UNCHANGED <<pc, outcome, reader>>
  /\ UNCHANGED <<lateAcks, overflowed, seat, accepted, lastAccepted, sent,
                 unanswered, complete, queued, running, live, workerVars, clockVars>>

BugEndWithoutJoin ==
  /\ TakeFrame("end")
  /\ IF seat = NoSeat
     THEN EndCall("protocol") /\ UNCHANGED <<complete, running>>
     ELSE complete' = TRUE /\ running' = FALSE /\ EndCall("completed")
  /\ UNCHANGED <<lateAcks, overflowed, seat, accepted, lastAccepted, sent,
                 unanswered, ackHistory, queued, live, workerVars, clockVars>>

(* end_game needs a bound seat; then the loop ends. Work still running is  *)
(* awaited: its result is not sent, its exception still fails closed.      *)
ProcessEnd ==
  /\ TakeFrame("end")
  /\ IF seat = NoSeat
     THEN EndCall("protocol") /\ UNCHANGED <<complete, running>>
     ELSE /\ complete' = TRUE
          /\ running' = FALSE
          /\ IF running
             THEN pc' = "joining" /\ UNCHANGED <<outcome, reader>>
             ELSE EndCall("completed")
  /\ UNCHANGED <<lateAcks, overflowed, seat, accepted, lastAccepted, sent,
                 unanswered, ackHistory, queued, live, workerVars, clockVars>>

ProcessOther ==
  /\ TakeFrame("other")
  /\ UNCHANGED <<reader, lateAcks, overflowed, sessionVars, pc, queued, running,
                 live, outcome, workerVars, clockVars>>

(* A malformed event raises ProtocolError, a queued recv() failure         *)
(* UnexpectedDisconnectError (or whatever recv() raised), and the trace    *)
(* writer an OSError, before the session has seen the event.               *)
ProcessFailure ==
  /\ \/ TakeFrame("malformed") /\ EndCall("protocol")
     \/ TakeFrame("closed") /\ EndCall("disconnect")
     \/ /\ \E kind \in {"start", "request", "ack", "end", "other"} : TakeFrame(kind)
        /\ EndCall("trace")
  /\ UNCHANGED <<lateAcks, overflowed, sessionVars, queued, running, live,
                 workerVars, clockVars>>

-----------------------------------------------------------------------------
(* The awaits outside the loop, and the cancellation of the whole task.    *)

SendReturns ==
  /\ pc = "sending"
  /\ pc' = "run"
  /\ UNCHANGED <<readerVars, sessionVars, notified, queued, running, live,
                 outcome, workerVars, clockVars>>

(* Also when the response cannot be serialized, or its trace line written: *)
(* by then the session has recorded it as sent.                            *)
SendFails ==
  /\ pc = "sending"
  /\ EndCall("send")
  /\ UNCHANGED <<frames, lateAcks, overflowed, sessionVars, notified, queued,
                 running, live, workerVars, clockVars>>

JoinWorker ==
  /\ pc = "joining"
  /\ task.state # "busy"
  /\ EndCall(IF task.state = "raised" THEN "adapter" ELSE "completed")
  /\ UNCHANGED <<frames, lateAcks, overflowed, sessionVars, notified, queued,
                 running, live, workerVars, clockVars>>

(* asyncio delivers a cancellation at an await. "interrupted" is one that  *)
(* cuts an await for the worker short: in "joining" _running was already   *)
(* reset, so the clean-up has nothing left to await.                       *)
Cancel ==
  /\ Suspended
  /\ EndCall(IF pc = "joining" THEN "interrupted" ELSE "cancelled")
  /\ UNCHANGED <<frames, lateAcks, overflowed, sessionVars, notified, queued,
                 running, live, workerVars, clockVars>>

(* ... and one that reaches the awaits of the clean-up itself.             *)
Interrupt ==
  /\ pc = "cleanup"
  /\ outcome' = "interrupted"
  /\ pc' = "returned"
  /\ UNCHANGED <<readerVars, sessionVars, notified, queued, running, live,
                 workerVars, clockVars>>

BugReturnAtOnce ==
  /\ pc = "cleanup"
  /\ pc' = "returned"
  /\ UNCHANGED <<readerVars, sessionVars, notified, queued, running, live,
                 outcome, workerVars, clockVars>>

(* The clean-up awaits the worker, if _running still knows of one.         *)
Return ==
  /\ pc = "cleanup"
  /\ running => task.state # "busy"
  /\ pc' = "returned"
  /\ UNCHANGED <<readerVars, sessionVars, notified, queued, running, live,
                 outcome, workerVars, clockVars>>

-----------------------------------------------------------------------------
Receive == (\E f \in ServerFrames : ReceiveFrame(f)) \/ ReceiveOverflow \/ ReceiveFailure
Worker  == WorkerReturns \/ WorkerRaises
Clock   == \E r \in RequestIds : Expire(r)
ProcessFrame == \/ ProcessStart \/ ProcessRequest \/ ProcessAck \/ ProcessEnd
                \/ ProcessOther \/ ProcessFailure
Drive   == \/ DriveOverflow \/ FinishRunning \/ StartNext \/ Abandon \/ Sleep
           \/ Wake \/ ProcessFrame \/ JoinWorker \/ Return
Send    == SendReturns \/ SendFails

Next == Receive \/ Worker \/ NotifyDone \/ Clock \/ Drive \/ Send \/ Cancel \/ Interrupt

Spec == Init /\ [][Next]_vars

(* The loop schedules its tasks and callbacks, time passes, and send()     *)
(* returns or fails (the websocket keepalive closes a dead connection).    *)
Fairness ==
  /\ WF_vars(Drive) /\ WF_vars(NotifyDone) /\ WF_vars(Send)
  /\ \A r \in RequestIds : WF_vars(Expire(r))

FairSpec == Spec /\ Fairness
=============================================================================
