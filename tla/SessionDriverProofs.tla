------------------------ MODULE SessionDriverProofs ------------------------
(***************************************************************************)
(* Proofs about SessionDriver, for any set of requests and any bounds, and *)
(* in the last part about GameRecord, which composes the driver with the   *)
(* record of its game: there too the driver's invariant is what they need. *)
(***************************************************************************)
EXTENDS GameRecord, TLAPS

(* A group of variables keeps its type in a step that leaves it alone.     *)
LEMMA TypeUnchanged ==
  /\ ReaderTypeOK /\ UNCHANGED readerVars => ReaderTypeOK'
  /\ SessionTypeOK /\ UNCHANGED sessionVars => SessionTypeOK'
  /\ DriverTypeOK /\ UNCHANGED driverVars => DriverTypeOK'
  /\ WorkerTypeOK /\ UNCHANGED workerVars => WorkerTypeOK'
  /\ ClockTypeOK /\ UNCHANGED clockVars => ClockTypeOK'
<1>1. ReaderTypeOK /\ UNCHANGED readerVars => ReaderTypeOK'
  BY DEF ReaderTypeOK, readerVars
<1>2. SessionTypeOK /\ UNCHANGED sessionVars => SessionTypeOK'
  BY DEF SessionTypeOK, sessionVars
<1>3. DriverTypeOK /\ UNCHANGED driverVars => DriverTypeOK'
  BY DEF DriverTypeOK, driverVars
<1>4. WorkerTypeOK /\ UNCHANGED workerVars => WorkerTypeOK'
  BY DEF WorkerTypeOK, workerVars
<1>5. ClockTypeOK /\ UNCHANGED clockVars => ClockTypeOK'
  BY DEF ClockTypeOK, clockVars
<1> QED
  BY <1>1, <1>2, <1>3, <1>4, <1>5

(* What taking the oldest frame leaves behind.                             *)
LEMMA TakeFrameType ==
  ASSUME ReaderTypeOK, FrameReady
  PROVE  /\ Head(frames) \in Frame
         /\ Tail(frames) \in Seq(ServerFrames \cup {ClosedFrame})
         /\ Len(Tail(frames)) <= MaxBufferedFrames
<1>1. ServerFrames \cup {ClosedFrame} \subseteq Frame
  BY FramesAssumption DEF Frame, ClosedFrame
<1>2. /\ Head(frames) \in ServerFrames \cup {ClosedFrame}
      /\ Tail(frames) \in Seq(ServerFrames \cup {ClosedFrame})
      /\ Len(Tail(frames)) <= MaxBufferedFrames
  BY BoundsAssumption DEF ReaderTypeOK, FrameReady
<1> QED
  BY <1>1, <1>2

(* A task whose future exists belongs to a request.                        *)
LEMMA TaskOfRequest ==
  ASSUME WorkerTypeOK, task.state # "none"
  PROVE  task \in [id : RequestIds, decide : BOOLEAN, state : {"busy", "ok", "raised"}]
BY DEF WorkerTypeOK, NoTask

(* Every step keeps every variable of the driver in its type; in           *)
(* particular the two backlogs stay within their bounds.                   *)
LEMMA TypeInductive == TypeOK /\ [Next]_vars => TypeOK'
<1> SUFFICES ASSUME TypeOK, [Next]_vars PROVE TypeOK'
  OBVIOUS
<1> USE TypeUnchanged, BoundsAssumption DEF TypeOK
<1>1. CASE UNCHANGED vars
  BY <1>1 DEF vars
<1>2. CASE Receive
  <2>1. ASSUME NEW f \in ServerFrames, ReceiveFrame(f) PROVE TypeOK'
    <3>1. f.kind = "ack" => f.id \in RequestIds
      BY FramesAssumption DEF Frame
    <3>2. ReaderTypeOK'
      BY <2>1, <3>1 DEF ReceiveFrame, CanRecv, NoteAck, ReaderTypeOK
    <3>3. DriverTypeOK'
      BY <2>1 DEF ReceiveFrame, DriverTypeOK
    <3> QED
      BY <2>1, <3>2, <3>3 DEF ReceiveFrame
  <2>2. CASE ReceiveOverflow
    <3>1. ReaderTypeOK' /\ DriverTypeOK'
      BY <2>2 DEF ReceiveOverflow, ReaderTypeOK, DriverTypeOK
    <3> QED
      BY <2>2, <3>1 DEF ReceiveOverflow
  <2>3. CASE ReceiveFailure
    <3>1. ReaderTypeOK'
      BY <2>3 DEF ReceiveFailure, CanRecv, ReaderTypeOK
    <3>2. DriverTypeOK'
      BY <2>3 DEF ReceiveFailure, DriverTypeOK
    <3> QED
      BY <2>3, <3>1, <3>2 DEF ReceiveFailure
  <2> QED
    BY <1>2, <2>1, <2>2, <2>3 DEF Receive
<1>3. CASE Worker
  <2>1. WorkerTypeOK'
    BY <1>3, TaskOfRequest DEF Worker, WorkerReturns, WorkerRaises, WorkerTypeOK
  <2> QED
    BY <1>3, <2>1 DEF Worker, WorkerReturns, WorkerRaises
<1>4. CASE NotifyDone
  <2>1. DriverTypeOK' /\ WorkerTypeOK'
    BY <1>4 DEF NotifyDone, DriverTypeOK, WorkerTypeOK
  <2> QED
    BY <1>4, <2>1 DEF NotifyDone
<1>5. CASE Clock
  <2>1. ClockTypeOK'
    BY <1>5 DEF Clock, Expire, ClockTypeOK
  <2> QED
    BY <1>5, <2>1 DEF Clock, Expire
<1>6. CASE DriveOverflow
  <2>1. ReaderTypeOK'
    BY <1>6 DEF DriveOverflow, EndCall, ReaderTypeOK
  <2>2. DriverTypeOK'
    BY <1>6 DEF DriveOverflow, EndCall, Outcome, DriverTypeOK
  <2> QED
    BY <1>6, <2>1, <2>2 DEF DriveOverflow
<1>7. CASE FinishRunning
  <2>1. ReaderTypeOK'
    BY <1>7 DEF FinishRunning, MarkUnanswered, RaiseInternal, EndCall, ReaderTypeOK
  <2>2. task.state # "none" /\ task.id = live => live \in RequestIds
    BY TaskOfRequest
  <2>3. DriverTypeOK'
    BY <1>7 DEF FinishRunning, MarkUnanswered, RaiseInternal, EndCall, Outcome, DriverTypeOK
  <2>4. SessionTypeOK'
    BY <1>7, <2>2 DEF FinishRunning, MarkUnanswered, RaiseInternal, EndCall, Reason,
                      SessionTypeOK
  <2>5. WorkerTypeOK'
    BY <1>7 DEF FinishRunning, WorkerTypeOK
  <2> QED
    BY <1>7, <2>1, <2>3, <2>4, <2>5 DEF FinishRunning
<1>8. CASE StartNext
  <2>1. Head(queued) \in RequestIds
    BY <1>8 DEF StartNext, CanStart, RestQueued, DriverTypeOK
  <2>2. DriverTypeOK'
    <3>1. queued' \in Seq(RequestIds) /\ Len(queued') <= MaxPendingRequests
      BY <1>8 DEF StartNext, CanStart, RestQueued, DriverTypeOK
    <3> QED
      BY <1>8, <3>1 DEF StartNext, DriverTypeOK
  <2>3. WorkerTypeOK'
    BY <1>8, <2>1 DEF StartNext, WorkerTypeOK
  <2> QED
    BY <1>8, <2>2, <2>3 DEF StartNext
<1>9. CASE Abandon
  <2>1. ReaderTypeOK'
    BY <1>9 DEF Abandon, MarkUnanswered, RaiseInternal, EndCall, ReaderTypeOK
  <2>2. DriverTypeOK'
    BY <1>9 DEF Abandon, MarkUnanswered, RaiseInternal, EndCall, Outcome, DriverTypeOK
  <2>3. SessionTypeOK'
    BY <1>9 DEF Abandon, MarkUnanswered, RaiseInternal, EndCall, Reason, SessionTypeOK
  <2> QED
    BY <1>9, <2>1, <2>2, <2>3 DEF Abandon
<1>10. CASE Sleep \/ Wake
  <2>1. DriverTypeOK'
    BY <1>10 DEF Sleep, Wake, DriverTypeOK
  <2> QED
    BY <1>10, <2>1 DEF Sleep, Wake
<1>11. CASE ProcessFrame
  <2>1. ASSUME NEW kind, TakeFrame(kind),
               UNCHANGED <<lateAcks, overflowed>>, reader' \in {reader, "stopped"}
        PROVE  ReaderTypeOK'
    BY <2>1, TakeFrameType DEF TakeFrame, ReaderTypeOK
  <2>2. CASE ProcessStart
    <3>1. ReaderTypeOK' /\ DriverTypeOK'
      BY <2>1, <2>2 DEF ProcessStart, TakeFrame, EndCall, Outcome, DriverTypeOK
    <3>2. SessionTypeOK'
      BY <2>2, TakeFrameType DEF ProcessStart, TakeFrame, Frame, SessionTypeOK
    <3> QED
      BY <2>2, <3>1, <3>2 DEF ProcessStart
  <2>3. CASE ProcessRequest
    <3>1. Head(frames).id \in RequestIds
      BY <2>3, TakeFrameType DEF ProcessRequest, TakeFrame, Frame
    <3>2. ReaderTypeOK'
      BY <2>1, <2>3 DEF ProcessRequest, EndCall
    <3>3. DriverTypeOK'
      <4>1. queued' \in Seq(RequestIds) /\ Len(queued') <= MaxPendingRequests
        BY <2>3, <3>1 DEF ProcessRequest, Enqueue, DriverTypeOK
      <4>2. pc' \in {pc, "cleanup"} /\ outcome' \in {outcome, "protocol", "backlog"}
        BY <2>3 DEF ProcessRequest, EndCall
      <4>3. live' \in RequestIds \cup {NoRequest} /\ running' = running /\ notified' = FALSE
        BY <2>3, <3>1 DEF ProcessRequest, TakeFrame, DriverTypeOK
      <4> QED
        BY <4>1, <4>2, <4>3 DEF Outcome, DriverTypeOK
    <3>4. SessionTypeOK' /\ ClockTypeOK'
      BY <2>3, <3>1 DEF ProcessRequest, SessionTypeOK, ClockTypeOK
    <3> QED
      BY <2>3, <3>2, <3>3, <3>4 DEF ProcessRequest
  <2>4. CASE ProcessAck
    <3>1. Head(frames).id \in RequestIds /\ Head(frames).status \in AckStatus
      BY <2>4, TakeFrameType DEF ProcessAck, TakeFrame, Frame
    <3>2. ReaderTypeOK'
      BY <2>1, <2>4 DEF ProcessAck, EndCall
    <3>3. DriverTypeOK'
      BY <2>4 DEF ProcessAck, TakeFrame, EndCall, Outcome, DriverTypeOK
    <3>4. SessionTypeOK'
      BY <2>4, <3>1 DEF ProcessAck, SessionTypeOK
    <3> QED
      BY <2>4, <3>2, <3>3, <3>4 DEF ProcessAck
  <2>5. CASE ProcessEnd
    <3>1. ReaderTypeOK'
      BY <2>1, <2>5 DEF ProcessEnd, EndCall
    <3>2. DriverTypeOK' /\ SessionTypeOK'
      BY <2>5 DEF ProcessEnd, TakeFrame, EndCall, Outcome, DriverTypeOK, SessionTypeOK
    <3> QED
      BY <2>5, <3>1, <3>2 DEF ProcessEnd
  <2>6. CASE ProcessOther \/ ProcessFailure
    <3>1. ReaderTypeOK'
      BY <2>1, <2>6 DEF ProcessOther, ProcessFailure, EndCall
    <3>2. DriverTypeOK'
      BY <2>6 DEF ProcessOther, ProcessFailure, TakeFrame, EndCall, Outcome, DriverTypeOK
    <3> QED
      BY <2>6, <3>1, <3>2 DEF ProcessOther, ProcessFailure
  <2> QED
    BY <1>11, <2>2, <2>3, <2>4, <2>5, <2>6 DEF ProcessFrame
<1>12. CASE JoinWorker \/ Return \/ Cancel \/ Interrupt \/ Send
  <2>1. ReaderTypeOK' /\ DriverTypeOK'
    BY <1>12 DEF JoinWorker, Return, Cancel, Interrupt, Send, SendReturns, SendFails, EndCall, Outcome,
                 readerVars, ReaderTypeOK, DriverTypeOK
  <2> QED
    BY <1>12, <2>1 DEF JoinWorker, Return, Cancel, Interrupt, Send, SendReturns, SendFails
<1> QED
  BY <1>1, <1>2, <1>3, <1>4, <1>5, <1>6, <1>7, <1>8, <1>9, <1>10, <1>11, <1>12
     DEF Next, Drive

(* Every reachable state is well typed, the backlogs bounded.              *)
THEOREM TypeCorrect == Spec => []TypeOK
<1>1. ASSUME Init PROVE TypeOK
  <2> USE BoundsAssumption
  <2>0. /\ frames \in Seq(ServerFrames \cup {ClosedFrame}) /\ Len(frames) = 0
        /\ queued \in Seq(RequestIds) /\ Len(queued) = 0
    BY <1>1 DEF Init
  <2>1. ReaderTypeOK
    <3>1. reader = "reading" /\ lateAcks \subseteq RequestIds /\ overflowed \in BOOLEAN
      BY <1>1 DEF Init
    <3> QED
      BY <2>0, <3>1 DEF ReaderTypeOK
  <2>2. SessionTypeOK
    BY <1>1 DEF Init, SessionTypeOK, Reason
  <2>3. DriverTypeOK
    <3>1. /\ pc = "run" /\ notified \in BOOLEAN /\ running \in BOOLEAN
          /\ live = NoRequest /\ outcome = "none"
      BY <1>1 DEF Init
    <3> QED
      BY <2>0, <3>1 DEF DriverTypeOK, Outcome
  <2>4. WorkerTypeOK /\ ClockTypeOK
    BY <1>1 DEF Init, WorkerTypeOK, ClockTypeOK
  <2> QED
    BY <2>1, <2>2, <2>3, <2>4 DEF TypeOK
<1> QED
  BY <1>1, TypeInductive, PTL DEF Spec

-----------------------------------------------------------------------------
(* Only three steps touch the requests' life cycle.                        *)
requestVars == <<accepted, lastAccepted, sent, unanswered, live>>

LEMMA RequestSteps ==
  ASSUME [Next]_vars
  PROVE  FinishRunning \/ Abandon \/ ProcessRequest \/ UNCHANGED requestVars
<1> USE DEF requestVars, sessionVars, driverVars
<1>1. CASE UNCHANGED vars
  BY <1>1 DEF vars
<1>2. CASE Receive
  BY <1>2 DEF Receive, ReceiveFrame, ReceiveOverflow, ReceiveFailure
<1>3. CASE Worker \/ NotifyDone \/ Clock
  BY <1>3 DEF Worker, WorkerReturns, WorkerRaises, NotifyDone, Clock, Expire
<1>4. CASE DriveOverflow \/ StartNext \/ Sleep \/ Wake \/ JoinWorker \/ Return
  BY <1>4 DEF DriveOverflow, StartNext, Sleep, Wake, JoinWorker, Return
<1>5. CASE ProcessStart \/ ProcessAck \/ ProcessEnd \/ ProcessOther \/ ProcessFailure
  BY <1>5 DEF ProcessStart, ProcessAck, ProcessEnd, ProcessOther, ProcessFailure
<1>6. CASE Send \/ Cancel \/ Interrupt
  BY <1>6 DEF Send, SendReturns, SendFails, Cancel, Interrupt
<1> QED
  BY <1>1, <1>2, <1>3, <1>4, <1>5, <1>6 DEF Next, Drive, ProcessFrame

(* The guards of the session hold whenever the driver settles its live     *)
(* request: they cannot raise.                                             *)
LEMMA LiveIsOpen ==
  ASSUME SessionTypeOK, DriverTypeOK, OpenRequestInv, live # NoRequest
  PROVE  live \in RequestIds /\ MayMark(live) /\ MayComplete(live)
<1>1. live \in RequestIds /\ live \in accepted \ Settled
  BY DEF OpenRequestInv, DriverTypeOK
<1> QED
  BY <1>1 DEF OpenRequestInv, Settled, UnansweredIds, MayMark, MayComplete

(* A finished task is consumed in either way without a session error.      *)
LEMMA FinishPhase ==
  ASSUME TypeOK, OpenRequestInv, PhaseInv, FinishRunning
  PROVE  /\ pc = "run" /\ outcome = "none" /\ ~complete
         /\ complete' = complete /\ running' = FALSE
         /\ \/ /\ task.state = "raised" /\ task' = task
               /\ pc' = "cleanup" /\ outcome' = "adapter"
            \/ /\ task.state = "ok" /\ task' = NoTask
               /\ pc' \in {"run", "sending"} /\ outcome' = "none"
<1> USE DEF TypeOK
<1>1. /\ pc = "run" /\ outcome = "none" /\ ~complete
      /\ complete' = complete /\ running' = FALSE
  BY DEF FinishRunning, InLoop, PhaseInv
<1>2. CASE task.state = "raised"
  BY <1>1, <1>2 DEF FinishRunning, EndCall
<1>3. CASE task.state = "ok" /\ task.decide /\ task.id = live
  <2>1. MayMark(live) /\ MayComplete(live)
    BY <1>3, LiveIsOpen, TaskOfRequest, IdsAssumption
  <2> QED
    BY <1>1, <1>3, <2>1 DEF FinishRunning, MarkUnanswered
<1>4. CASE task.state = "ok" /\ (~task.decide \/ task.id # live)
  BY <1>1, <1>4 DEF FinishRunning
<1> QED
  BY <1>2, <1>3, <1>4 DEF FinishRunning

(* How the call proceeds: the loop, the last await, the clean-up.          *)
LEMMA PhaseInductive ==
  ASSUME TypeOK, OpenRequestInv, PhaseInv, WorkerInv, [Next]_vars
  PROVE  PhaseInv'
<1> USE DEF TypeOK, PhaseInv
<1>1. CASE UNCHANGED vars
  BY <1>1 DEF vars, sessionVars, driverVars
<1>2. CASE Receive
  BY <1>2 DEF Receive, ReceiveFrame, ReceiveOverflow, ReceiveFailure, sessionVars
<1>3. CASE Worker \/ NotifyDone \/ Clock
  BY <1>3 DEF Worker, WorkerReturns, WorkerRaises, NotifyDone, Clock, Expire, sessionVars, driverVars
<1>4. CASE DriveOverflow \/ StartNext \/ Sleep \/ Wake
  BY <1>4 DEF DriveOverflow, StartNext, Sleep, Wake, InLoop, EndCall, sessionVars
<1>5. CASE FinishRunning
  <2>1. /\ pc = "run" /\ outcome = "none" /\ ~complete
        /\ complete' = complete /\ running' = FALSE
        /\ \/ /\ task.state = "raised" /\ task' = task
              /\ pc' = "cleanup" /\ outcome' = "adapter"
           \/ /\ task.state = "ok" /\ task' = NoTask
              /\ pc' \in {"run", "sending"} /\ outcome' = "none"
    BY <1>5, FinishPhase
  <2> QED
    BY <2>1
<1>6. CASE Abandon
  <2>1. /\ UNCHANGED <<complete, pc, outcome>> /\ ~complete /\ pc = "run"
    BY <1>6, LiveIsOpen DEF Abandon, InLoop, LiveGivenUp, MarkUnanswered
  <2> QED
    BY <2>1
<1>7. CASE ProcessStart \/ ProcessRequest \/ ProcessAck \/ ProcessOther \/ ProcessFailure
  <2>1. /\ UNCHANGED complete /\ ~complete /\ pc = "run"
        /\ \/ UNCHANGED <<pc, outcome>>
           \/ pc' = "cleanup" /\ outcome' \in {"protocol", "backlog", "disconnect", "trace"}
    BY <1>7 DEF ProcessStart, ProcessRequest, ProcessAck, ProcessOther, ProcessFailure,
                TakeFrame, InLoop, EndCall, sessionVars
  <2> QED
    BY <2>1
<1>8. CASE ProcessEnd
  <2>1. live' = NoRequest /\ pc = "run"
    BY <1>8 DEF ProcessEnd, TakeFrame, InLoop, FrameReady
  <2> QED
    BY <1>8, <2>1 DEF ProcessEnd, TakeFrame, InLoop, EndCall
<1>9. CASE JoinWorker \/ Return \/ Cancel \/ Interrupt \/ Send
  BY <1>9 DEF JoinWorker, Return, Cancel, Interrupt, Send, SendReturns, SendFails, Suspended, EndCall, sessionVars
<1> QED
  BY <1>1, <1>2, <1>3, <1>4, <1>5, <1>6, <1>7, <1>8, <1>9 DEF Next, Drive, ProcessFrame

(* One task at a time: the future is the driver's until it is consumed.    *)
LEMMA WorkerInductive ==
  ASSUME TypeOK, OpenRequestInv, PhaseInv, WorkerInv, [Next]_vars
  PROVE  WorkerInv'
<1> USE DEF TypeOK, PhaseInv, WorkerInv
<1>1. CASE UNCHANGED vars
  BY <1>1 DEF vars, sessionVars, driverVars, workerVars
<1>2. CASE Receive
  BY <1>2 DEF Receive, ReceiveFrame, ReceiveOverflow, ReceiveFailure, sessionVars, workerVars
<1>3. CASE Worker
  <2>1. task' # NoTask /\ task.state = "busy" /\ task'.state \in {"ok", "raised"}
    BY <1>3, TaskOfRequest DEF Worker, WorkerReturns, WorkerRaises, NoTask
  <2> QED
    BY <1>3, <2>1 DEF Worker, WorkerReturns, WorkerRaises, sessionVars, driverVars
<1>4. CASE NotifyDone \/ Clock
  BY <1>4 DEF NotifyDone, Clock, Expire, sessionVars, driverVars, workerVars
<1>5. CASE DriveOverflow \/ Sleep \/ Wake \/ Abandon
  BY <1>5, LiveIsOpen
     DEF DriveOverflow, Sleep, Wake, Abandon, LiveGivenUp, MarkUnanswered, InLoop, EndCall,
         sessionVars, workerVars
<1>6. CASE StartNext
  BY <1>6 DEF StartNext, InLoop, sessionVars
<1>7. CASE FinishRunning
  <2>1. /\ pc = "run" /\ outcome = "none" /\ ~complete
        /\ complete' = complete /\ running' = FALSE
        /\ \/ /\ task.state = "raised" /\ task' = task
              /\ pc' = "cleanup" /\ outcome' = "adapter"
           \/ /\ task.state = "ok" /\ task' = NoTask
              /\ pc' \in {"run", "sending"} /\ outcome' = "none"
    BY <1>7, FinishPhase
  <2> QED
    BY <2>1 DEF NoTask
<1>8. CASE ProcessStart \/ ProcessRequest \/ ProcessAck \/ ProcessOther \/ ProcessFailure
  <2>1. UNCHANGED <<complete, running, task>> /\ ~complete /\ pc = "run"
    BY <1>8 DEF ProcessStart, ProcessRequest, ProcessAck, ProcessOther, ProcessFailure,
                TakeFrame, InLoop, sessionVars, workerVars
  <2>2. \/ UNCHANGED <<pc, outcome>>
        \/ pc' = "cleanup" /\ outcome' \in {"protocol", "backlog", "disconnect", "trace"}
    BY <1>8 DEF ProcessStart, ProcessRequest, ProcessAck, ProcessOther, ProcessFailure, EndCall
  <2> QED
    BY <2>1, <2>2
<1>9. CASE ProcessEnd
  <2>1. pc = "run" /\ ~complete /\ task' = task
    BY <1>9 DEF ProcessEnd, TakeFrame, InLoop, workerVars
  <2> QED
    BY <1>9, <2>1 DEF ProcessEnd, EndCall
<1>10. CASE JoinWorker \/ Return \/ Cancel \/ Interrupt \/ Send
  BY <1>10 DEF JoinWorker, Return, Cancel, Interrupt, Send, SendReturns, SendFails, Suspended, EndCall,
               sessionVars, workerVars
<1> QED
  BY <1>1, <1>2, <1>3, <1>4, <1>5, <1>6, <1>7, <1>8, <1>9, <1>10 DEF Next, Drive, ProcessFrame

(* How a call ends is decided once, but for a cancellation after that.     *)
LEMMA OutcomeFinal ==
  ASSUME PhaseInv, [Next]_vars, outcome # "none"
  PROVE  outcome' \in {outcome, "interrupted"}
<1>1. pc \in {"cleanup", "returned"} \/ pc \notin {"run", "wait", "sending", "joining"}
  BY DEF PhaseInv
<1> USE DEF driverVars
<1>2. CASE UNCHANGED vars
  BY <1>2 DEF vars
<1>3. CASE Receive \/ Cancel \/ Send \/ JoinWorker
  BY <1>1, <1>3 DEF Receive, ReceiveFrame, ReceiveOverflow, ReceiveFailure, CanRecv, Suspended,
                    Cancel, Send, SendReturns, SendFails, JoinWorker
<1>4. CASE Worker \/ NotifyDone \/ Clock \/ Wake \/ Return \/ Interrupt
  BY <1>4 DEF Interrupt, Worker, WorkerReturns, WorkerRaises, NotifyDone, Clock, Expire, Wake, Return
<1>5. CASE DriveOverflow \/ FinishRunning \/ StartNext \/ Abandon \/ Sleep
  BY <1>1, <1>5 DEF DriveOverflow, FinishRunning, StartNext, Abandon, Sleep, InLoop
<1>6. CASE ProcessFrame
  BY <1>1, <1>6 DEF ProcessFrame, ProcessStart, ProcessRequest, ProcessAck, ProcessEnd,
                    ProcessOther, ProcessFailure, TakeFrame, InLoop
<1> QED
  BY <1>2, <1>3, <1>4, <1>5, <1>6 DEF Next, Drive

(* The game is over only by an end_game frame, and then for good.          *)
LEMMA CompleteSteps ==
  ASSUME [Next]_vars
  PROVE  complete' = complete \/ (ProcessEnd /\ complete' = TRUE)
<1> USE DEF sessionVars
<1>1. CASE UNCHANGED vars
  BY <1>1 DEF vars
<1>2. CASE Receive \/ Worker \/ NotifyDone \/ Clock \/ Send \/ Cancel \/ Interrupt
  BY <1>2 DEF Receive, ReceiveFrame, ReceiveOverflow, ReceiveFailure, Worker, WorkerReturns,
              WorkerRaises, NotifyDone, Clock, Expire, Send, SendReturns, SendFails, Cancel, Interrupt
<1>3. CASE DriveOverflow \/ FinishRunning \/ StartNext \/ Abandon \/ Sleep \/ Wake
           \/ JoinWorker \/ Return
  BY <1>3 DEF DriveOverflow, FinishRunning, StartNext, Abandon, Sleep, Wake, JoinWorker, Return
<1>4. CASE ProcessFrame
  BY <1>4 DEF ProcessFrame, ProcessStart, ProcessRequest, ProcessAck, ProcessEnd, ProcessOther,
              ProcessFailure
<1> QED
  BY <1>1, <1>2, <1>3, <1>4 DEF Next, Drive

(* How a step may settle the live request.                                 *)
LEMMA Settling ==
  ASSUME TypeOK, OpenRequestInv, FinishRunning \/ Abandon
  PROVE  /\ accepted' = accepted /\ lastAccepted' = lastAccepted
         /\ \/ UNCHANGED <<sent, unanswered, live>>
            \/ /\ live \in accepted \ Settled /\ live' = NoRequest /\ outcome' = outcome
               /\ \/ sent' = sent \cup {live} /\ unanswered' = unanswered
                  \/ /\ sent' = sent
                     /\ unanswered' = [unanswered EXCEPT ![live] =
                          IF live \in expired THEN "local_cutoff" ELSE "late_ack"]
<1> USE DEF TypeOK
<1>1. CASE FinishRunning
  <2>1. CASE task.state = "raised" \/ ~task.decide \/ task.id # live
    BY <1>1, <2>1 DEF FinishRunning
  <2>2. CASE task.state = "ok" /\ task.decide /\ task.id = live
    <3>1. live # NoRequest /\ MayMark(live) /\ MayComplete(live)
      BY <2>2, LiveIsOpen, TaskOfRequest, IdsAssumption
    <3> QED
      BY <1>1, <2>2, <3>1 DEF FinishRunning, MarkUnanswered, OpenRequestInv
  <2> QED
    BY <1>1, <2>1, <2>2 DEF FinishRunning
<1>2. CASE Abandon
  <2>1. live # NoRequest /\ MayMark(live)
    BY <1>2, LiveIsOpen DEF Abandon, LiveGivenUp
  <2> QED
    BY <1>2, <2>1 DEF Abandon, MarkUnanswered, OpenRequestInv
<1> QED
  BY <1>1, <1>2

(* At most one request is open, and settling it is final.                  *)
LEMMA OpenRequestInductive ==
  ASSUME TypeOK, OpenRequestInv, PhaseInv, [Next]_vars
  PROVE  OpenRequestInv'
<1>1. CASE UNCHANGED requestVars
  <2>1. outcome # "none" => outcome' # "none" /\ complete' = complete
    BY OutcomeFinal, CompleteSteps DEF ProcessEnd, TakeFrame, InLoop, PhaseInv
  <2> QED
    BY <1>1, <2>1 DEF requestVars, OpenRequestInv, Settled, UnansweredIds
<1>2. CASE FinishRunning \/ Abandon
  <2>1. outcome = "none"
    BY <1>2 DEF FinishRunning, Abandon, InLoop, PhaseInv
  <2>2. CASE UNCHANGED <<sent, unanswered, live>>
    BY <1>2, <2>1, <2>2, Settling DEF OpenRequestInv, Settled, UnansweredIds
  <2>3. CASE /\ live \in accepted \ Settled /\ live' = NoRequest
             /\ Settled' = Settled \cup {live}
             /\ sent' \cap UnansweredIds' = {}
    BY <1>2, <2>1, <2>3, Settling DEF OpenRequestInv
  <2>4. live \in accepted \ Settled /\ live' = NoRequest =>
          \/ UNCHANGED <<sent, unanswered, live>>
          \/ Settled' = Settled \cup {live} /\ sent' \cap UnansweredIds' = {}
    <3> SUFFICES ASSUME live \in accepted \ Settled, live' = NoRequest,
                        ~UNCHANGED <<sent, unanswered, live>>
                 PROVE  Settled' = Settled \cup {live} /\ sent' \cap UnansweredIds' = {}
      OBVIOUS
    <3>1. live \in RequestIds /\ unanswered \in [RequestIds -> Reason]
      BY DEF TypeOK, SessionTypeOK
    <3>2. CASE sent' = sent \cup {live} /\ unanswered' = unanswered
      BY <3>1, <3>2 DEF OpenRequestInv, Settled, UnansweredIds
    <3>3. CASE /\ sent' = sent
               /\ unanswered' = [unanswered EXCEPT ![live] =
                     IF live \in expired THEN "local_cutoff" ELSE "late_ack"]
      <4>1. UnansweredIds' = UnansweredIds \cup {live}
        BY <3>1, <3>3 DEF UnansweredIds
      <4> QED
        BY <3>3, <4>1 DEF OpenRequestInv, Settled
    <3> QED
      BY <1>2, <3>2, <3>3, Settling
  <2> QED
    BY <1>2, <2>2, <2>3, <2>4, Settling
<1>3. CASE ProcessRequest
  <2>1. live = NoRequest /\ outcome = "none" /\ ~complete'
    BY <1>3 DEF ProcessRequest, TakeFrame, FrameReady, InLoop, PhaseInv
  <2>2. accepted \subseteq Settled
    BY <2>1, IdsAssumption DEF OpenRequestInv, TypeOK, SessionTypeOK
  <2>3. Settled' = Settled /\ UnansweredIds' = UnansweredIds /\ sent' = sent
    BY <1>3 DEF ProcessRequest, Settled, UnansweredIds
  <2> DEFINE r == Head(frames).id
  <2>4. r \in RequestIds
    BY <1>3, TakeFrameType DEF ProcessRequest, TakeFrame, Frame, TypeOK
  <2>5. CASE UNCHANGED <<accepted, lastAccepted, live>>
    BY <2>1, <2>2, <2>3, <2>5 DEF OpenRequestInv
  <2>6. CASE /\ MayAccept(r) /\ accepted' = accepted \cup {r} /\ lastAccepted' = r
             /\ live' = r \/ (live' = live /\ outcome' = "backlog" /\ ~complete')
    <3>1. r \notin Settled
      BY <2>6 DEF OpenRequestInv, MayAccept
    <3>2. r # NoRequest
      BY <2>4, IdsAssumption
    <3> HIDE DEF r
    <3> QED
      BY <2>1, <2>2, <2>3, <2>6, <3>1, <3>2 DEF OpenRequestInv
  <2>7. \/ UNCHANGED <<accepted, lastAccepted, live>>
        \/ /\ MayAccept(r) /\ accepted' = accepted \cup {r} /\ lastAccepted' = r
           /\ live' = r \/ (live' = live /\ outcome' = "backlog" /\ ~complete')
    BY <1>3, <2>1 DEF ProcessRequest, EndCall
  <2> QED
    BY <2>5, <2>6, <2>7
<1> QED
  BY <1>1, <1>2, <1>3, RequestSteps

(* The newest accepted request has the largest id.                         *)
LEMMA OrderInductive ==
  ASSUME TypeOK, OpenRequestInv, OrderInv, [Next]_vars
  PROVE  OrderInv'
<1>1. CASE UNCHANGED requestVars
  BY <1>1 DEF requestVars, OrderInv
<1>2. CASE FinishRunning \/ Abandon
  BY <1>2, Settling DEF OrderInv
<1>3. CASE ProcessRequest
  <2> DEFINE r == Head(frames).id
  <2>1. r \in RequestIds
    BY <1>3, TakeFrameType DEF ProcessRequest, TakeFrame, Frame, TypeOK
  <2>2. CASE UNCHANGED <<accepted, lastAccepted>>
    BY <2>2 DEF OrderInv
  <2>3. CASE MayAccept(r) /\ accepted' = accepted \cup {r} /\ lastAccepted' = r
    <3>1. \A q \in accepted : q \in Int
      BY IdsAssumption DEF TypeOK, SessionTypeOK
    <3>2. \A q \in accepted : lastAccepted \in RequestIds /\ q <= lastAccepted /\ lastAccepted < r
      BY <2>3, IdsAssumption DEF MayAccept, OrderInv
    <3> HIDE DEF r
    <3>3. r \in Int /\ (\A q \in accepted : lastAccepted \in Int)
      BY <2>1, <3>2, IdsAssumption
    <3>4. r <= r /\ \A q \in accepted : q <= r
      BY <3>1, <3>2, <3>3
    <3> QED
      BY <2>1, <2>3, <3>4 DEF OrderInv
  <2> QED
    BY <1>3, <2>2, <2>3 DEF ProcessRequest
<1> QED
  BY <1>1, <1>2, <1>3, RequestSteps

-----------------------------------------------------------------------------
(* The inductive invariant holds in every reachable state.                 *)
THEOREM SafetyCorrect == Spec => []SafetyInv
<1>1. Init => OpenRequestInv /\ OrderInv /\ PhaseInv /\ WorkerInv
  BY IdsAssumption DEF Init, OpenRequestInv, OrderInv, PhaseInv, WorkerInv, Settled,
                       UnansweredIds, NoTask
<1>2. OpenRequestInv /\ OrderInv /\ PhaseInv /\ WorkerInv /\ TypeOK /\ [Next]_vars
        => (OpenRequestInv /\ OrderInv /\ PhaseInv /\ WorkerInv)'
  BY OpenRequestInductive, OrderInductive, PhaseInductive, WorkerInductive
<1> QED
  BY <1>1, <1>2, TypeCorrect, PTL DEF Spec, SafetyInv

(* No guard of the session ever raises on what the driver passes it.       *)
THEOREM NoInternalErrorCorrect == Spec => []NoInternalError
<1>1. SafetyInv => NoInternalError
  BY DEF SafetyInv, PhaseInv, NoInternalError
<1> QED
  BY <1>1, SafetyCorrect, PTL

(* Each request is settled once, and all of them at end_game.              *)
THEOREM EveryRequestSettledCorrect == Spec => []EveryRequestSettled
<1>1. SafetyInv => EveryRequestSettled
  <2> SUFFICES ASSUME SafetyInv PROVE EveryRequestSettled
    OBVIOUS
  <2>1. complete => \A r \in accepted : r # live
    BY IdsAssumption DEF SafetyInv, PhaseInv, TypeOK, SessionTypeOK
  <2> QED
    BY <2>1 DEF SafetyInv, OpenRequestInv, EveryRequestSettled
<1> QED
  BY <1>1, SafetyCorrect, PTL

(* A game whose adapter or Policy raised is never reported as complete.    *)
THEOREM FailsClosedCorrect == Spec => []FailsClosed
<1>1. SafetyInv => FailsClosed
  BY DEF SafetyInv, WorkerInv, FailsClosed
<1> QED
  BY <1>1, SafetyCorrect, PTL

(* The call returns after its worker, but for a cancellation at the end.   *)
THEOREM WorkerEndsCorrect == Spec => []WorkerEnds
<1>1. SafetyInv => WorkerEnds
  BY DEF SafetyInv, WorkerInv, PhaseInv, WorkerEnds
<1> QED
  BY <1>1, SafetyCorrect, PTL

-----------------------------------------------------------------------------
(* Work that runs is never replaced: there is one thread in the adapter.   *)
THEOREM SingleWorkerCorrect == Spec => SingleWorker
<1> DEFINE Kept == task.state = "busy" => \/ task' = task
                                          \/ task' = [task EXCEPT !.state = task'.state]
<1>1. SafetyInv /\ [Next]_vars => [Kept]_vars
  <2> SUFFICES ASSUME SafetyInv, [Next]_vars, task.state = "busy", task' # task
               PROVE  task' = [task EXCEPT !.state = task'.state]
    OBVIOUS
  <2>1. CASE Worker
    BY <2>1, TaskOfRequest DEF Worker, WorkerReturns, WorkerRaises, SafetyInv, TypeOK
  <2>2. ~FinishRunning
    BY DEF FinishRunning, WorkDone
  <2>3. ~StartNext
    BY DEF StartNext, CanStart, InLoop, SafetyInv, PhaseInv, WorkerInv
  <2>4. Worker
    <3>1. ~(UNCHANGED vars \/ Receive \/ NotifyDone \/ Clock)
      BY DEF vars, workerVars, Receive, ReceiveFrame, ReceiveOverflow, ReceiveFailure,
             NotifyDone, Clock, Expire
    <3>2. ~(DriveOverflow \/ Abandon \/ Sleep \/ Wake \/ JoinWorker \/ Return \/ Send \/ Cancel
          \/ Interrupt)
      BY DEF workerVars, DriveOverflow, Abandon, Sleep, Wake, JoinWorker, Return, Send,
             SendReturns, SendFails, Cancel, Interrupt
    <3>3. ~ProcessFrame
      BY DEF workerVars, ProcessFrame, ProcessStart, ProcessRequest, ProcessAck, ProcessEnd,
             ProcessOther, ProcessFailure
    <3> QED
      BY <2>2, <2>3, <3>1, <3>2, <3>3 DEF Next, Drive
  <2> QED
    BY <2>1, <2>4
<1> QED
  BY <1>1, SafetyCorrect, PTL DEF Spec, SingleWorker

-----------------------------------------------------------------------------
(* With no live request every accepted request is settled.                 *)
LEMMA NoneLive ==
  ASSUME TypeOK, OpenRequestInv, live = NoRequest, outcome = "none"
  PROVE  accepted \subseteq Settled
BY IdsAssumption DEF OpenRequestInv, TypeOK, SessionTypeOK

(* A step that leaves the requests alone only ends the game, if that.      *)
LEMMA GameStep ==
  ASSUME SafetyInv, [Next]_vars, requestStatus' = requestStatus
  PROVE  [Lifecycle!Next]_(Lifecycle!vars)
<1> USE DEF SafetyInv
<1>1. outcome # "none" => outcome' \in {outcome, "interrupted"}
  BY OutcomeFinal
<1>2. CASE gameStatus' = "failed"
  BY <1>2 DEF Lifecycle!Next, Lifecycle!Fail, Lifecycle!vars
<1>3. CASE ProcessEnd /\ complete' = TRUE /\ gameStatus' # "failed"
  <2>1. live = NoRequest /\ outcome = "none" /\ ~complete
    BY <1>3 DEF ProcessEnd, TakeFrame, FrameReady, InLoop, PhaseInv
  <2>2. accepted \subseteq Settled
    BY <2>1, NoneLive
  <2>3. Lifecycle!NoneOpen
    BY <2>2 DEF Lifecycle!NoneOpen, Lifecycle!IsOpen, requestStatus, Settled, UnansweredIds
  <2>4. gameStatus = "running" /\ gameStatus' = "over"
    BY <1>3, <2>1 DEF gameStatus
  <2> QED
    BY <2>3, <2>4 DEF Lifecycle!Next, Lifecycle!Finish
<1>4. CASE complete' = complete /\ gameStatus' # "failed"
  <2>1. gameStatus' = gameStatus
    BY <1>1, <1>4 DEF gameStatus
  <2> QED
    BY <2>1 DEF Lifecycle!vars
<1> QED
  BY <1>2, <1>3, <1>4, CompleteSteps

(* Settling the live request answers it or gives it up.                    *)
LEMMA SettleStep ==
  ASSUME SafetyInv, [Next]_vars, FinishRunning \/ Abandon
  PROVE  [Lifecycle!Next]_(Lifecycle!vars)
<1> USE DEF SafetyInv
<1>1. outcome = "none" /\ ~complete /\ complete' = complete
  BY DEF FinishRunning, Abandon, InLoop, PhaseInv
<1>2. CASE UNCHANGED <<sent, unanswered, live>>
  <2>1. requestStatus' = requestStatus
    BY <1>2, Settling DEF requestStatus
  <2> QED
    BY <2>1, GameStep
<1>3. CASE live \in accepted \ Settled /\ outcome' = outcome
  <2>1. live \in RequestIds /\ Lifecycle!IsOpen(live)
    BY <1>3 DEF TypeOK, SessionTypeOK, Lifecycle!IsOpen, requestStatus, Settled, UnansweredIds
  <2>2. gameStatus = "running" /\ gameStatus' = gameStatus
    BY <1>1, <1>3 DEF gameStatus
  <2>3. accepted' = accepted
    BY Settling
  <2>4. unanswered \in [RequestIds -> Reason] /\ live \in accepted /\ live \notin sent
    BY <1>3 DEF TypeOK, SessionTypeOK, Settled
  <2>5. CASE sent' = sent \cup {live} /\ unanswered' = unanswered
    <3>1. requestStatus' = [requestStatus EXCEPT ![live] = "answered"]
      BY <2>1, <2>3, <2>4, <2>5 DEF requestStatus
    <3> QED
      BY <2>1, <2>2, <3>1 DEF Lifecycle!Next, Lifecycle!Answer
  <2>6. CASE /\ sent' = sent
             /\ unanswered' = [unanswered EXCEPT ![live] =
                   IF live \in expired THEN "local_cutoff" ELSE "late_ack"]
    <3>1. requestStatus' = [requestStatus EXCEPT ![live] = "given_up"]
      BY <2>1, <2>3, <2>4, <2>6 DEF requestStatus
    <3> QED
      BY <2>1, <2>2, <3>1 DEF Lifecycle!Next, Lifecycle!GiveUp
  <2> QED
    BY <1>2, <2>5, <2>6, Settling
<1> QED
  BY <1>2, <1>3, Settling

(* Accepting a request opens it, above every earlier one.                  *)
LEMMA AcceptStep ==
  ASSUME SafetyInv, [Next]_vars, ProcessRequest
  PROVE  [Lifecycle!Next]_(Lifecycle!vars)
<1> USE DEF SafetyInv
<1> DEFINE r == Head(frames).id
<1>1. outcome = "none" /\ ~complete /\ complete' = complete /\ live = NoRequest
  BY DEF ProcessRequest, TakeFrame, FrameReady, InLoop, PhaseInv
<1>2. r \in RequestIds
  BY TakeFrameType DEF ProcessRequest, TakeFrame, Frame, TypeOK
<1>3. CASE UNCHANGED accepted
  <2>1. requestStatus' = requestStatus
    BY <1>3 DEF ProcessRequest, requestStatus
  <2> QED
    BY <2>1, GameStep
<1>4. CASE MayAccept(r) /\ accepted' = accepted \cup {r}
           /\ outcome' \in {outcome, "backlog"}
  <2>1. accepted \subseteq Settled
    BY <1>1, NoneLive
  <2>2. Lifecycle!NoneOpen
    BY <2>1 DEF Lifecycle!NoneOpen, Lifecycle!IsOpen, requestStatus, Settled, UnansweredIds
  <2>3. \A q \in accepted : lastAccepted \in RequestIds /\ q <= lastAccepted /\ lastAccepted < r
    BY <1>4, IdsAssumption DEF MayAccept, OrderInv
  <2>4. gameStatus = "running" /\ gameStatus' \in {"running", "failed"}
    BY <1>1, <1>4 DEF gameStatus
  <2>5. r \notin accepted /\ r \notin sent /\ unanswered[r] = "none"
    BY <1>2, <1>4 DEF MayAccept, OpenRequestInv, Settled, UnansweredIds
  <2>6. sent' = sent /\ unanswered' = unanswered
    BY DEF ProcessRequest
  <2> HIDE DEF r
  <2>7. \A q \in accepted : q < r
    <3> SUFFICES ASSUME NEW q \in accepted PROVE q < r
      OBVIOUS
    <3>1. q \in Int /\ lastAccepted \in Int /\ r \in Int
      BY <1>2, <2>3, IdsAssumption DEF TypeOK, SessionTypeOK
    <3> QED
      BY <2>3, <3>1
  <2>8. requestStatus' = [requestStatus EXCEPT ![r] = "open"]
    BY <1>2, <1>4, <2>5, <2>6 DEF requestStatus
  <2>9. \A q \in RequestIds : requestStatus[q] # "unseen" => q < r
    BY <2>7 DEF requestStatus
  <2>10. Lifecycle!Open(r)
    BY <2>2, <2>4, <2>8, <2>9 DEF Lifecycle!Open
  <2> QED
    BY <1>2, <2>10 DEF Lifecycle!Next
<1> QED
  BY <1>3, <1>4 DEF ProcessRequest, EndCall

(* The driver implements the life cycle: requests open one at a time in    *)
(* increasing order, each is settled once, and none is open at the end.    *)
THEOREM LifecycleCorrect == Spec => ImplementsLifecycle
<1>1. Init => Lifecycle!Init
  BY DEF Init, Lifecycle!Init, requestStatus, gameStatus
<1>2. SafetyInv /\ [Next]_vars => [Lifecycle!Next]_(Lifecycle!vars)
  <2> SUFFICES ASSUME SafetyInv, [Next]_vars PROVE [Lifecycle!Next]_(Lifecycle!vars)
    OBVIOUS
  <2>1. CASE UNCHANGED requestVars
    <3>1. requestStatus' = requestStatus
      BY <2>1 DEF requestVars, requestStatus
    <3> QED
      BY <3>1, GameStep
  <2> QED
    BY <2>1, SettleStep, AcceptStep, RequestSteps
<1> QED
  BY <1>1, <1>2, SafetyCorrect, PTL DEF Spec, ImplementsLifecycle, Lifecycle!Spec

-----------------------------------------------------------------------------
(* Only these steps touch the work of the adapter.                         *)
workVars == <<accepted, queued, task, applied>>

LEMMA WorkSteps ==
  ASSUME [Next]_vars
  PROVE  Worker \/ FinishRunning \/ StartNext \/ ProcessRequest \/ UNCHANGED workVars
<1> USE DEF workVars, sessionVars, driverVars, workerVars
<1>1. CASE UNCHANGED vars
  BY <1>1 DEF vars
<1>2. CASE Receive \/ NotifyDone \/ Clock
  BY <1>2 DEF Receive, ReceiveFrame, ReceiveOverflow, ReceiveFailure, NotifyDone, Clock, Expire
<1>3. CASE DriveOverflow \/ Abandon \/ Sleep \/ Wake \/ JoinWorker \/ Return
  BY <1>3 DEF DriveOverflow, Abandon, Sleep, Wake, JoinWorker, Return
<1>4. CASE ProcessStart \/ ProcessAck \/ ProcessEnd \/ ProcessOther \/ ProcessFailure
  BY <1>4 DEF ProcessStart, ProcessAck, ProcessEnd, ProcessOther, ProcessFailure
<1>5. CASE Send \/ Cancel \/ Interrupt
  BY <1>5 DEF Send, SendReturns, SendFails, Cancel, Interrupt
<1> QED
  BY <1>1, <1>2, <1>3, <1>4, <1>5 DEF Next, Drive, ProcessFrame

(* The work that waits, with one more at its end or without its first.     *)
Waiting == {queued[i] : i \in 1..Len(queued)}

LEMMA WaitingGrows ==
  ASSUME DriverTypeOK, NEW r \in RequestIds, queued' = Append(queued, r)
  PROVE  /\ Waiting' = Waiting \cup {r}
         /\ Len(queued') = Len(queued) + 1
         /\ queued'[Len(queued) + 1] = r
         /\ \A i \in 1..Len(queued) : queued'[i] = queued[i]
<1>1. /\ queued \in Seq(RequestIds) /\ Len(queued) \in Nat
      /\ Len(queued') = Len(queued) + 1
      /\ queued'[Len(queued) + 1] = r
      /\ \A i \in 1..Len(queued) : queued'[i] = queued[i]
  BY DEF DriverTypeOK
<1>2. 1..Len(queued') = (1..Len(queued)) \cup {Len(queued) + 1}
  BY <1>1
<1>3. Waiting' = Waiting \cup {r}
  BY <1>1, <1>2 DEF Waiting
<1> QED
  BY <1>1, <1>3

LEMMA WaitingShrinks ==
  ASSUME DriverTypeOK, queued # <<>>, queued' = Tail(queued)
  PROVE  /\ Waiting = {Head(queued)} \cup Waiting'
         /\ Len(queued) \in Nat \ {0} /\ Head(queued) = queued[1]
         /\ Len(queued') = Len(queued) - 1
         /\ \A i \in 1..Len(queued') : i + 1 \in 1..Len(queued) /\ queued'[i] = queued[i + 1]
<1>1. /\ Len(queued) \in Nat \ {0} /\ Head(queued) = queued[1]
      /\ Len(queued') = Len(queued) - 1
      /\ \A i \in 1..Len(queued') : i + 1 \in 1..Len(queued) /\ queued'[i] = queued[i + 1]
  BY DEF DriverTypeOK
<1>2. \A i \in 1..Len(queued) : i = 1 \/ (i - 1 \in 1..Len(queued') /\ queued[i] = queued'[i - 1])
  BY <1>1
<1>3. Waiting = {Head(queued)} \cup Waiting'
  BY <1>1, <1>2 DEF Waiting
<1> QED
  BY <1>1, <1>3

(* Requests enter the queue above all others, leave it at its head, and    *)
(* reach the adapter from there.                                           *)
LEMMA WorkOrderInductive ==
  ASSUME SafetyInv, WorkOrderInv, [Next]_vars
  PROVE  WorkOrderInv'
<1> USE DEF SafetyInv, TypeOK
<1> DEFINE InHand == IF task.state \in {"busy", "raised"} THEN {task.id} ELSE {}
<1>0. /\ outcome = "none" => accepted = applied \cup Waiting \cup InHand
      /\ outcome # "none" => outcome' # "none"
      /\ \A r \in RequestIds : r \in Int
      /\ accepted \subseteq RequestIds /\ accepted' \subseteq RequestIds
  BY OutcomeFinal, TypeInductive, IdsAssumption
     DEF WorkOrderInv, NothingSkipped, Waiting, SessionTypeOK
<1>1. CASE UNCHANGED workVars
  BY <1>0, <1>1 DEF WorkOrderInv, NothingSkipped, workVars
<1>2. CASE Worker
  <2>1. /\ UNCHANGED <<accepted, queued, outcome>> /\ task.state = "busy" /\ task'.id = task.id
        /\ \/ task'.state = "ok" /\ applied' = applied \cup {task.id}
           \/ task'.state = "raised" /\ applied' = applied
    BY <1>2, TaskOfRequest DEF Worker, WorkerReturns, WorkerRaises, sessionVars, driverVars
  <2>2. NothingSkipped'
    BY <1>0, <2>1 DEF NothingSkipped, Waiting
  <2>3. \A i \in 1..Len(queued) : queued[i] # task.id
    BY <1>0, <2>1 DEF WorkOrderInv
  <2> QED
    BY <2>1, <2>2, <2>3 DEF WorkOrderInv
<1>3. CASE FinishRunning
  <2>1. /\ UNCHANGED <<accepted, queued, applied>>
        /\ \/ task.state = "raised" /\ task' = task /\ outcome' = "adapter"
           \/ task.state = "ok" /\ task' = NoTask /\ outcome = "none"
    BY <1>3, FinishPhase DEF FinishRunning
  <2>2. NothingSkipped'
    BY <1>0, <2>1 DEF NothingSkipped, Waiting, NoTask
  <2> QED
    BY <2>1, <2>2 DEF WorkOrderInv, NoTask
<1>4. CASE StartNext
  <2>1. /\ queued # <<>> /\ queued' = Tail(queued) /\ outcome' = outcome
        /\ UNCHANGED <<accepted, applied>>
        /\ task'.id = Head(queued) /\ task'.state = "busy"
        /\ outcome = "none" /\ task.state = "none"
    BY <1>4 DEF StartNext, CanStart, RestQueued, InLoop, PhaseInv, WorkerInv, sessionVars
  <2>2. /\ Waiting = {Head(queued)} \cup Waiting'
        /\ Len(queued) \in Nat \ {0} /\ Head(queued) = queued[1]
        /\ Len(queued') = Len(queued) - 1
        /\ \A i \in 1..Len(queued') : i + 1 \in 1..Len(queued) /\ queued'[i] = queued[i + 1]
    BY <2>1, WaitingShrinks
  <2>3. accepted = applied \cup Waiting
    BY <1>0, <2>1
  <2>4. NothingSkipped'
    BY <2>1, <2>2, <2>3 DEF NothingSkipped, Waiting
  <2>5. \A i \in 1..Len(queued') : queued'[i] \in accepted \ applied /\ queued[1] < queued'[i]
    BY <2>2 DEF WorkOrderInv
  <2>6. \A i, j \in 1..Len(queued') : i < j => queued'[i] < queued'[j]
    BY <2>2 DEF WorkOrderInv
  <2>7. \A r \in accepted \ applied : queued[1] <= r
    <3> SUFFICES ASSUME NEW r \in accepted \ applied PROVE queued[1] <= r
      OBVIOUS
    <3>1. PICK i \in 1..Len(queued) : queued[i] = r
      BY <2>3 DEF Waiting
    <3>2. queued[1] \in Int /\ r \in Int /\ 1 \in 1..Len(queued)
      BY <1>0, <2>2 DEF WorkOrderInv
    <3> QED
      BY <3>1, <3>2 DEF WorkOrderInv
  <2>8. queued[1] \in accepted \ applied
    BY <2>2 DEF WorkOrderInv
  <2> QED
    BY <2>1, <2>2, <2>4, <2>5, <2>6, <2>7, <2>8 DEF WorkOrderInv
<1>5. CASE ProcessRequest
  <2> DEFINE r == Head(frames).id
  <2>1. r \in RequestIds /\ UNCHANGED <<task, applied>> /\ outcome = "none"
    BY <1>5, TakeFrameType DEF ProcessRequest, TakeFrame, Frame, InLoop, PhaseInv, workerVars
  <2>2. task.state # "busy" \/ task.id \in accepted \ applied
    BY DEF WorkOrderInv
  <2>3. CASE UNCHANGED <<accepted, queued>> /\ outcome' # "none"
    BY <2>1, <2>3 DEF WorkOrderInv, NothingSkipped
  <2>4. ASSUME MayAccept(r), accepted' = accepted \cup {r}
        PROVE  /\ \A q \in accepted : q < r
               /\ r \notin applied
    <3>1. \A q \in accepted : lastAccepted \in RequestIds /\ q <= lastAccepted /\ lastAccepted < r
      BY <2>4, IdsAssumption DEF MayAccept, OrderInv
    <3>2. ASSUME NEW q \in accepted PROVE q < r
      <4>1. q \in Int /\ lastAccepted \in Int /\ r \in Int
        BY <1>0, <2>1, <3>1
      <4> QED
        BY <3>1, <4>1
    <3>3. applied \subseteq accepted
      BY <1>0, <2>1
    <3> QED
      BY <2>4, <3>2, <3>3 DEF MayAccept
  <2>5. CASE MayAccept(r) /\ accepted' = accepted \cup {r} /\ queued' = queued /\ outcome' # "none"
    <3> HIDE DEF r
    <3> QED
      BY <1>0, <2>1, <2>4, <2>5 DEF WorkOrderInv, NothingSkipped
  <2>6. CASE MayAccept(r) /\ accepted' = accepted \cup {r} /\ queued' = Append(queued, r)
             /\ outcome' = "none"
    <3> HIDE DEF r
    <3>1. /\ Waiting' = Waiting \cup {r}
          /\ Len(queued') = Len(queued) + 1 /\ Len(queued) \in Nat
          /\ queued'[Len(queued) + 1] = r
          /\ \A i \in 1..Len(queued) : queued'[i] = queued[i]
      BY <2>1, <2>6, WaitingGrows DEF DriverTypeOK
    <3>2. NothingSkipped'
      BY <1>0, <2>1, <2>6, <3>1 DEF NothingSkipped, Waiting
    <3>3. \A i \in 1..Len(queued') : i \in 1..Len(queued) \/ i = Len(queued) + 1
      BY <3>1
    <3>4. \A i \in 1..Len(queued') : queued'[i] \in accepted' \ applied'
      BY <2>1, <2>4, <2>6, <3>1, <3>3 DEF WorkOrderInv
    <3>5. \A i, j \in 1..Len(queued') : i < j => queued'[i] < queued'[j]
      <4> SUFFICES ASSUME NEW i \in 1..Len(queued'), NEW j \in 1..Len(queued'), i < j
                   PROVE  queued'[i] < queued'[j]
        OBVIOUS
      <4>1. i \in 1..Len(queued)
        BY <3>1, <3>3
      <4>2. queued[i] \in accepted
        BY <4>1 DEF WorkOrderInv
      <4> QED
        BY <2>4, <2>6, <3>1, <3>3, <4>1, <4>2 DEF WorkOrderInv
    <3>6. task.state = "busy" => /\ task.id \in accepted' \ applied'
                                 /\ \A q \in accepted' \ applied' : task.id <= q
                                 /\ \A i \in 1..Len(queued') : task.id < queued'[i]
      <4> SUFFICES ASSUME task.state = "busy"
                   PROVE  /\ task.id \in accepted' \ applied'
                          /\ \A q \in accepted' \ applied' : task.id <= q
                          /\ \A i \in 1..Len(queued') : task.id < queued'[i]
        OBVIOUS
      <4>1. task.id \in accepted \ applied /\ task.id < r /\ task.id \in Int /\ r \in Int
        BY <1>0, <2>1, <2>2, <2>4, <2>6
      <4>2. task.id <= r
        BY <4>1
      <4> QED
        BY <2>1, <2>6, <3>1, <3>3, <4>1, <4>2 DEF WorkOrderInv
    <3> QED
      BY <2>1, <3>2, <3>4, <3>5, <3>6 DEF WorkOrderInv
  <2> QED
    BY <1>5, <2>1, <2>3, <2>5, <2>6 DEF ProcessRequest, EndCall, Enqueue
<1> QED
  BY <1>1, <1>2, <1>3, <1>4, <1>5, WorkSteps

(* The order of the work holds in every reachable state.                   *)
THEOREM WorkOrderCorrect == Spec => []WorkOrderInv
<1>1. Init => WorkOrderInv
  <2> SUFFICES ASSUME Init PROVE WorkOrderInv
    OBVIOUS
  <2>1. Len(queued) = 0 /\ accepted = {} /\ applied = {} /\ task.state = "none"
    BY DEF Init, NoTask
  <2>2. NothingSkipped
    BY <2>1 DEF NothingSkipped
  <2> QED
    BY <2>1, <2>2 DEF WorkOrderInv
<1>2. SafetyInv /\ WorkOrderInv /\ [Next]_vars => WorkOrderInv'
  BY WorkOrderInductive
<1> QED
  BY <1>1, <1>2, SafetyCorrect, PTL DEF Spec

(* No Observation is skipped, whatever becomes of its request.             *)
THEOREM NothingSkippedCorrect == Spec => []NothingSkipped
<1>1. WorkOrderInv => NothingSkipped
  BY DEF WorkOrderInv
<1> QED
  BY <1>1, WorkOrderCorrect, PTL

(* Observations reach the adapter once each and in acceptance order.       *)
THEOREM AdapterInOrderCorrect == Spec => AdapterInOrder
<1> DEFINE InOrder == applied' # applied =>
                        \E r \in accepted \ applied :
                           /\ applied' = applied \cup {r}
                           /\ \A q \in accepted \ applied : r <= q
<1>1. SafetyInv /\ WorkOrderInv /\ [Next]_vars => [InOrder]_vars
  <2> SUFFICES ASSUME SafetyInv, WorkOrderInv, [Next]_vars, applied' # applied
               PROVE  \E r \in accepted \ applied :
                         /\ applied' = applied \cup {r}
                         /\ \A q \in accepted \ applied : r <= q
    OBVIOUS
  <2>1. WorkerReturns
    BY WorkSteps DEF Worker, WorkerRaises, FinishRunning, StartNext, ProcessRequest, workerVars,
                     workVars
  <2>2. task.state = "busy" /\ applied' = applied \cup {task.id}
    BY <2>1 DEF WorkerReturns
  <2> QED
    BY <2>2 DEF WorkOrderInv
<1> QED
  BY <1>1, SafetyCorrect, WorkOrderCorrect, PTL DEF Spec, AdapterInOrder

-----------------------------------------------------------------------------
(* A live request that can be answered stays in the hands of the worker.   *)
LEMMA LiveHasWorkInductive ==
  ASSUME SafetyInv, LiveHasWork, [Next]_vars
  PROVE  LiveHasWork'
<1> USE DEF SafetyInv, TypeOK
<1> SUFFICES ASSUME outcome' = "none", live' # NoRequest, Answerable(live)'
             PROVE  \/ queued' # <<>> /\ queued'[Len(queued')] = live'
                    \/ running' /\ task'.id = live' /\ task'.decide
  BY DEF LiveHasWork
<1>0. outcome = "none"
  BY OutcomeFinal
<1> DEFINE InHand == \/ queued # <<>> /\ queued[Len(queued)] = live
                     \/ running /\ task.id = live /\ task.decide
<1>1. live' = live /\ Answerable(live) => InHand
  <2>1. live' = live => live # NoRequest
    OBVIOUS
  <2> QED
    BY <1>0, <2>1 DEF LiveHasWork
<1>2. CASE UNCHANGED vars
  BY <1>1, <1>2 DEF vars, driverVars, workerVars, readerVars, clockVars, Answerable
<1>3. CASE Receive \/ Clock
  <2>1. UNCHANGED <<live, queued, running, task>>
    BY <1>3 DEF Receive, ReceiveFrame, ReceiveOverflow, ReceiveFailure, Clock, Expire, driverVars,
                workerVars
  <2>2. expired \subseteq expired' /\ lateAcks \subseteq lateAcks'
    BY <1>3 DEF Receive, ReceiveFrame, NoteAck, ReceiveOverflow, ReceiveFailure, Clock, Expire,
                readerVars, clockVars
  <2> QED
    BY <1>1, <2>1, <2>2 DEF Answerable
<1>4. CASE Worker \/ NotifyDone
  <2>1. UNCHANGED <<live, queued, running, expired, lateAcks>>
        /\ task'.id = task.id /\ task'.decide = task.decide
    BY <1>4, TaskOfRequest DEF Worker, WorkerReturns, WorkerRaises, NotifyDone, driverVars,
                               readerVars, clockVars
  <2> QED
    BY <1>1, <2>1 DEF Answerable
<1>5. CASE Sleep \/ Wake \/ Return \/ SendReturns \/ ProcessOther \/ ProcessAck \/ ProcessStart
  <2>1. UNCHANGED <<live, queued, running, task, expired, lateAcks>>
    BY <1>5 DEF Sleep, Wake, Return, SendReturns, ProcessOther, ProcessAck, ProcessStart,
                readerVars, workerVars, clockVars
  <2> QED
    BY <1>1, <2>1 DEF Answerable
<1>6. CASE FinishRunning
  <2>1. UNCHANGED <<queued, lateAcks, expired>> /\ task.state = "ok"
    BY <1>6 DEF FinishRunning, EndCall, clockVars
  <2>2. ~task.decide \/ task.id # live
    BY <1>6, <2>1 DEF FinishRunning, MarkUnanswered, RaiseInternal, EndCall
  <2>3. live' = live
    BY <1>6, <2>2 DEF FinishRunning, MarkUnanswered, RaiseInternal, EndCall
  <2> QED
    BY <1>1, <2>1, <2>2, <2>3 DEF Answerable
<1>7. CASE StartNext
  <2>1. /\ queued # <<>> /\ queued' = Tail(queued) /\ running' = TRUE /\ ~running
        /\ UNCHANGED <<live, expired, lateAcks>>
        /\ task'.id = Head(queued) /\ task'.decide = (Head(queued) = live /\ Answerable(live))
    BY <1>7 DEF StartNext, CanStart, RestQueued, readerVars, clockVars
  <2>2. Answerable(live) /\ queued[Len(queued)] = live
    BY <1>1, <2>1 DEF Answerable
  <2>3. /\ Len(queued) \in Nat \ {0} /\ Head(queued) = queued[1]
        /\ Len(queued') = Len(queued) - 1
        /\ \A i \in 1..Len(queued') : i + 1 \in 1..Len(queued) /\ queued'[i] = queued[i + 1]
    BY <2>1, WaitingShrinks
  <2>4. CASE Len(queued) = 1
    BY <2>1, <2>2, <2>3, <2>4
  <2>5. CASE Len(queued) > 1
    <3>1. queued'[Len(queued')] = queued[Len(queued)] /\ queued' # <<>>
      BY <2>3, <2>5
    <3> QED
      BY <2>1, <2>2, <3>1
  <2> QED
    BY <2>3, <2>4, <2>5
<1>8. CASE Abandon
  <2>1. live # NoRequest
    BY <1>8 DEF Abandon, LiveGivenUp
  <2> QED
    BY <1>8, <2>1, LiveIsOpen DEF Abandon, MarkUnanswered
<1>9. CASE ProcessRequest
  <2>1. queued' = Append(queued, Head(frames).id) /\ live' = Head(frames).id
    BY <1>0, <1>9 DEF ProcessRequest, EndCall, Enqueue, TakeFrame, FrameReady
  <2>2. Head(frames).id \in RequestIds
    BY <1>9, TakeFrameType DEF ProcessRequest, TakeFrame, Frame
  <2>3. Len(queued') = Len(queued) + 1 /\ queued'[Len(queued) + 1] = live'
        /\ Len(queued) \in Nat
    BY <2>1, <2>2, WaitingGrows DEF DriverTypeOK
  <2> QED
    BY <2>3
<1>10. ~ProcessEnd /\ ~ProcessFailure
  BY DEF ProcessEnd, ProcessFailure, TakeFrame, FrameReady, EndCall
<1>11. ~(DriveOverflow \/ JoinWorker \/ SendFails \/ Cancel \/ Interrupt)
  BY DEF DriveOverflow, JoinWorker, SendFails, Cancel, Interrupt, EndCall
<1> QED
  BY <1>2, <1>3, <1>4, <1>5, <1>6, <1>7, <1>8, <1>9, <1>10, <1>11
     DEF Next, Drive, ProcessFrame, Send

(* The loop never waits on a request nobody works on.                      *)
THEOREM LiveHasWorkCorrect == Spec => []LiveHasWork
<1>1. Init => LiveHasWork
  BY DEF Init, LiveHasWork
<1>2. SafetyInv /\ LiveHasWork /\ [Next]_vars => LiveHasWork'
  BY LiveHasWorkInductive
<1> QED
  BY <1>1, <1>2, SafetyCorrect, PTL DEF Spec

-----------------------------------------------------------------------------
(* While the driver sleeps, nothing gives it work without notifying it.    *)
LEMMA NoLostWakeupInductive ==
  ASSUME NoLostWakeup, [Next]_vars
  PROVE  NoLostWakeup'
<1> USE DEF readerVars, workerVars, driverVars, clockVars
<1> DEFINE asleepVars == <<pc, notified, doneCallback, live, expired, overflowed, running, task,
                           queued, lateAcks, frames>>
<1>1. ASSUME UNCHANGED asleepVars PROVE NoLostWakeup'
  BY <1>1 DEF NoLostWakeup, HasWork, WorkDone, CanStart, LiveGivenUp, FrameReady, Answerable
<1>2. CASE UNCHANGED vars
  BY <1>1, <1>2 DEF vars
<1>3. CASE Receive \/ NotifyDone
  BY <1>3 DEF Receive, ReceiveFrame, ReceiveOverflow, ReceiveFailure, NotifyDone, NoLostWakeup
<1>4. CASE Worker
  BY <1>4 DEF Worker, WorkerReturns, WorkerRaises, NoLostWakeup
<1>5. CASE Clock
  <2>1. PICK r \in RequestIds : Expire(r)
    BY <1>5 DEF Clock
  <2>2. /\ UNCHANGED <<pc, notified, doneCallback, live, overflowed, running, task, queued,
                       lateAcks, frames>>
        /\ expired' = expired \cup {r}
    BY <2>1 DEF Expire
  <2>3. CASE r = live
    BY <2>2, <2>3 DEF NoLostWakeup
  <2>4. CASE r # live
    BY <2>2, <2>4 DEF NoLostWakeup, HasWork, WorkDone, CanStart, LiveGivenUp, FrameReady, Answerable
  <2> QED
    BY <2>3, <2>4
<1>6. CASE Sleep
  <2>1. ~HasWork /\ ~HasWork'
    BY <1>6 DEF Sleep, HasWork, WorkDone, CanStart, LiveGivenUp, FrameReady, Answerable
  <2> QED
    BY <2>1 DEF NoLostWakeup
<1>7. CASE DriveOverflow \/ FinishRunning \/ StartNext \/ Abandon
  <2>1. pc' # "wait"
    BY <1>7 DEF DriveOverflow, FinishRunning, StartNext, Abandon, InLoop, MarkUnanswered,
                RaiseInternal, EndCall
  <2> QED
    BY <2>1 DEF NoLostWakeup
<1>8. CASE ProcessFrame
  <2>1. pc' # "wait"
    BY <1>8 DEF ProcessFrame, ProcessStart, ProcessRequest, ProcessAck, ProcessEnd, ProcessOther,
                ProcessFailure, TakeFrame, InLoop, EndCall
  <2> QED
    BY <2>1 DEF NoLostWakeup
<1>9. CASE Wake \/ JoinWorker \/ Return \/ Send \/ Cancel \/ Interrupt
  <2>1. pc' # "wait"
    BY <1>9 DEF Wake, JoinWorker, Return, Send, SendReturns, SendFails, Cancel, Interrupt, EndCall
  <2> QED
    BY <2>1 DEF NoLostWakeup
<1> QED
  BY <1>2, <1>3, <1>4, <1>5, <1>6, <1>7, <1>8, <1>9 DEF Next, Drive

(* Whatever arrives while the driver sleeps wakes it.                      *)
THEOREM NoLostWakeupCorrect == Spec => []NoLostWakeup
<1>1. Init => NoLostWakeup
  BY DEF Init, NoLostWakeup
<1>2. NoLostWakeup /\ [Next]_vars => NoLostWakeup'
  BY NoLostWakeupInductive
<1> QED
  BY <1>1, <1>2, PTL DEF Spec

-----------------------------------------------------------------------------
(* A late ack of r among the frames still to be processed.                 *)
LateAckAhead(r) == \E i \in 1..Len(frames) : /\ frames[i].kind = "ack"
                                             /\ frames[i].id = r
                                             /\ frames[i].status \in LateAckStatus

LEMMA LateAckQueued ==
  ASSUME ReaderTypeOK, NEW f \in ServerFrames \cup {ClosedFrame}, frames' = Append(frames, f)
  PROVE  /\ \A r : LateAckAhead(r) => LateAckAhead(r)'
         /\ \A r : f.kind = "ack" /\ f.id = r /\ f.status \in LateAckStatus => LateAckAhead(r)'
<1>1. /\ Len(frames) \in Nat /\ Len(frames') = Len(frames) + 1
      /\ frames'[Len(frames) + 1] = f
      /\ \A i \in 1..Len(frames) : frames'[i] = frames[i]
  BY DEF ReaderTypeOK
<1>2. \A i \in 1..Len(frames) : i \in 1..Len(frames')
  BY <1>1
<1>3. Len(frames) + 1 \in 1..Len(frames')
  BY <1>1
<1> QED
  BY <1>1, <1>2, <1>3 DEF LateAckAhead

LEMMA LateAckTaken ==
  ASSUME ReaderTypeOK, frames # <<>>, frames' = Tail(frames), NEW r, LateAckAhead(r)
  PROVE  \/ LateAckAhead(r)'
         \/ Head(frames).kind = "ack" /\ Head(frames).id = r /\ Head(frames).status \in LateAckStatus
<1>1. PICK i \in 1..Len(frames) : frames[i].kind = "ack" /\ frames[i].id = r
                                  /\ frames[i].status \in LateAckStatus
  BY DEF LateAckAhead
<1>2. /\ Len(frames) \in Nat \ {0} /\ Len(frames') = Len(frames) - 1 /\ Head(frames) = frames[1]
      /\ i # 1 => i - 1 \in 1..Len(frames') /\ frames'[i - 1] = frames[i]
  BY DEF ReaderTypeOK
<1>3. CASE i = 1
  BY <1>1, <1>2, <1>3
<1>4. CASE i # 1
  BY <1>1, <1>2, <1>4 DEF LateAckAhead
<1> QED
  BY <1>3, <1>4

(* The late acks seen, and where the driver has got with them.             *)
ackVars == <<frames, lateAcks, ackHistory, unanswered, accepted>>

LEMMA AckSteps ==
  ASSUME [Next]_vars
  PROVE  \/ \E f \in ServerFrames : ReceiveFrame(f)
         \/ ReceiveFailure \/ FinishRunning \/ Abandon \/ ProcessFrame
         \/ UNCHANGED ackVars
<1> USE DEF ackVars, readerVars, sessionVars
<1>1. CASE UNCHANGED vars
  BY <1>1 DEF vars
<1>2. CASE ReceiveOverflow \/ NotifyDone \/ Clock \/ Worker
  BY <1>2 DEF ReceiveOverflow, NotifyDone, Clock, Expire, Worker, WorkerReturns, WorkerRaises
<1>3. CASE DriveOverflow \/ StartNext \/ Sleep \/ Wake \/ JoinWorker \/ Return
  BY <1>3 DEF DriveOverflow, StartNext, Sleep, Wake, JoinWorker, Return
<1>4. CASE Send \/ Cancel \/ Interrupt
  BY <1>4 DEF Send, SendReturns, SendFails, Cancel, Interrupt
<1> QED
  BY <1>1, <1>2, <1>3, <1>4 DEF Next, Drive, Receive

(* A late ack is on its way to the history from the moment it is seen.     *)
LEMMA LateAckInductive ==
  ASSUME SafetyInv, LateAckInv, [Next]_vars
  PROVE  LateAckInv'
<1> USE DEF SafetyInv, TypeOK
<1> DEFINE Traced(r) == \/ ackHistory[r] \cap LateAckStatus # {}
                        \/ LateAckAhead(r)
<1> DEFINE Fine == outcome \in {"none", "completed"}
<1>0. /\ \A r \in RequestIds : unanswered[r] = "late_ack" => r \in lateAcks
      /\ Fine => \A r \in lateAcks : Traced(r)
      /\ Fine' => Fine
      /\ lateAcks \subseteq RequestIds
  BY OutcomeFinal DEF LateAckInv, LateAckAhead, ReaderTypeOK
<1> SUFFICES /\ \A r \in RequestIds : unanswered'[r] = "late_ack" => r \in lateAcks'
             /\ Fine' => \A r \in lateAcks' : Traced(r)'
  BY DEF LateAckInv, LateAckAhead
<1>1. CASE UNCHANGED ackVars
  BY <1>0, <1>1 DEF ackVars, LateAckAhead
<1>2. ASSUME NEW f \in ServerFrames, ReceiveFrame(f)
      PROVE  /\ \A r \in RequestIds : unanswered'[r] = "late_ack" => r \in lateAcks'
             /\ Fine' => \A r \in lateAcks' : Traced(r)'
  <2>1. /\ UNCHANGED <<ackHistory, unanswered, accepted, outcome>>
        /\ lateAcks \subseteq lateAcks'
        /\ \A r \in lateAcks' \ lateAcks :
              f.kind = "ack" /\ f.id = r /\ f.status \in LateAckStatus
    BY <1>2 DEF ReceiveFrame, NoteAck, sessionVars
  <2>2. /\ \A r : LateAckAhead(r) => LateAckAhead(r)'
        /\ \A r : f.kind = "ack" /\ f.id = r /\ f.status \in LateAckStatus => LateAckAhead(r)'
    BY <1>2, LateAckQueued DEF ReceiveFrame
  <2> QED
    BY <1>0, <2>1, <2>2
<1>3. CASE ReceiveFailure
  <2>1. UNCHANGED <<ackHistory, unanswered, accepted, outcome, lateAcks>>
    BY <1>3 DEF ReceiveFailure, sessionVars
  <2>2. \A r : LateAckAhead(r) => LateAckAhead(r)'
    BY <1>3, LateAckQueued DEF ReceiveFailure
  <2> QED
    BY <1>0, <2>1, <2>2
<1>4. CASE FinishRunning \/ Abandon
  <2>1. UNCHANGED <<frames, lateAcks, ackHistory, accepted>> /\ outcome = "none"
    BY <1>4 DEF FinishRunning, Abandon, InLoop, PhaseInv
  <2>2. Fine' => \A r \in lateAcks' : Traced(r)'
    BY <1>0, <2>1 DEF LateAckAhead
  <2>3. CASE UNCHANGED unanswered
    BY <1>0, <2>1, <2>2, <2>3
  <2>4. CASE ~UNCHANGED unanswered
    <3>1. /\ live \in RequestIds /\ unanswered \in [RequestIds -> Reason]
          /\ unanswered' = [unanswered EXCEPT ![live] =
               IF live \in expired THEN "local_cutoff" ELSE "late_ack"]
      BY <1>4, <2>4, Settling DEF SessionTypeOK
    <3>2. ~Answerable(live)
      BY <1>4, <2>4 DEF FinishRunning, Abandon, RaiseInternal, LiveGivenUp
    <3>3. live \notin expired => live \in lateAcks
      BY <3>2 DEF Answerable
    <3> QED
      BY <1>0, <2>1, <2>2, <3>1, <3>3
  <2> QED
    BY <2>3, <2>4
<1>5. CASE ProcessFrame
  <2> DEFINE f == Head(frames)
  <2>1. /\ frames # <<>> /\ frames' = Tail(frames) /\ UNCHANGED <<lateAcks, unanswered>>
        /\ outcome = "none"
    BY <1>5 DEF ProcessFrame, ProcessStart, ProcessRequest, ProcessAck, ProcessEnd, ProcessOther,
                ProcessFailure, TakeFrame, FrameReady, InLoop, PhaseInv, sessionVars
  <2>2. ASSUME NEW r, LateAckAhead(r)
        PROVE  \/ LateAckAhead(r)'
               \/ f.kind = "ack" /\ f.id = r /\ f.status \in LateAckStatus
    BY <2>1, <2>2, LateAckTaken
  <2>3. CASE f.kind # "ack"
    <3>1. UNCHANGED ackHistory
      BY <1>5, <2>3 DEF ProcessFrame, ProcessStart, ProcessRequest, ProcessAck, ProcessEnd,
                        ProcessOther, ProcessFailure, TakeFrame, sessionVars
    <3> QED
      BY <1>0, <2>1, <2>2, <2>3, <3>1
  <2>4. CASE f.kind = "ack"
    <3> SUFFICES ASSUME Fine' PROVE \A r \in lateAcks' : Traced(r)'
      BY <1>0, <2>1
    <3>1. ProcessAck
      BY <1>5, <2>4 DEF ProcessFrame, ProcessStart, ProcessRequest, ProcessEnd, ProcessOther,
                        ProcessFailure, TakeFrame, EndCall
    <3>2. /\ UNCHANGED accepted
          /\ ackHistory' = IF f.id \in accepted
                           THEN [ackHistory EXCEPT ![f.id] = @ \cup {f.status}] ELSE ackHistory
          /\ f.id \in accepted
      BY <3>1 DEF ProcessAck, EndCall
    <3>3. ackHistory \in [RequestIds -> SUBSET AckStatus] /\ accepted \subseteq RequestIds
      BY DEF SessionTypeOK
    <3> HIDE DEF f
    <3>4. \A r \in RequestIds : ackHistory[r] \subseteq ackHistory'[r]
      BY <3>2, <3>3
    <3>5. f.id \in accepted => f.status \in ackHistory'[f.id]
      BY <3>2, <3>3
    <3> QED
      BY <1>0, <2>1, <2>2, <3>2, <3>4, <3>5
  <2> QED
    BY <2>3, <2>4
<1> QED
  BY <1>1, <1>2, <1>3, <1>4, <1>5, AckSteps

(* A request given up for a late ack has the evidence for it.              *)
THEOREM LateAckEvidenceCorrect == Spec => []LateAckEvidence
<1>1. Init => LateAckInv
  BY DEF Init, LateAckInv
<1>2. SafetyInv /\ LateAckInv /\ [Next]_vars => LateAckInv'
  BY LateAckInductive
<1>3. SafetyInv /\ LateAckInv => LateAckEvidence
  BY DEF SafetyInv, OpenRequestInv, Settled, UnansweredIds, LateAckInv, LateAckEvidence
<1> QED
  BY <1>1, <1>2, <1>3, SafetyCorrect, PTL DEF Spec

-----------------------------------------------------------------------------
(* The end of the stream.                                                  *)

(* What a frame must satisfy at position i of n for StreamInv.             *)
LastOfStream(f, i, n) == f.kind \in {"end", "closed"} => i = n /\ reader = "stopped" /\ ~overflowed
SeenIfLate(f) == f.kind = "ack" /\ f.status \in LateAckStatus => f.id \in lateAcks

(* Taking the oldest frame moves every other one by one place.             *)
LEMMA FramesTaken ==
  ASSUME ReaderTypeOK, frames # <<>>, frames' = Tail(frames)
  PROVE  /\ Head(frames) = frames[1] /\ 1 \in 1..Len(frames)
         /\ Len(frames) \in Nat /\ Len(frames') = Len(frames) - 1
         /\ \A i \in 1..Len(frames') : i + 1 \in 1..Len(frames) /\ frames'[i] = frames[i + 1]
         /\ Len(frames) = 1 => frames' = <<>>
BY DEF ReaderTypeOK

(* Receiving appends.                                                      *)
LEMMA FramesReceived ==
  ASSUME ReaderTypeOK, NEW f \in ServerFrames \cup {ClosedFrame}, frames' = Append(frames, f)
  PROVE  /\ Len(frames) \in Nat /\ Len(frames') = Len(frames) + 1
         /\ frames'[Len(frames) + 1] = f
         /\ \A i \in 1..Len(frames) : frames'[i] = frames[i]
BY DEF ReaderTypeOK

(* The reader, its buffer and what the session has seen of the stream.     *)
streamVars == <<frames, reader, overflowed, lateAcks, ackHistory, complete, outcome>>

LEMMA StreamSteps ==
  ASSUME [Next]_vars
  PROVE  \/ Receive \/ DriveOverflow \/ FinishRunning \/ Abandon \/ ProcessFrame
         \/ JoinWorker \/ SendFails \/ Cancel \/ Interrupt
         \/ UNCHANGED streamVars
<1> USE DEF streamVars, readerVars, sessionVars, driverVars
<1>1. CASE UNCHANGED vars
  BY <1>1 DEF vars
<1>2. CASE NotifyDone \/ Clock \/ Worker
  BY <1>2 DEF NotifyDone, Clock, Expire, Worker, WorkerReturns, WorkerRaises
<1>3. CASE StartNext \/ Sleep \/ Wake \/ Return \/ SendReturns
  BY <1>3 DEF StartNext, Sleep, Wake, Return, SendReturns
<1> QED
  BY <1>1, <1>2, <1>3 DEF Next, Drive, Send

(* end_game, a failure and an overflow stay the last word of the reader.   *)
LEMMA StreamInductive ==
  ASSUME SafetyInv, StreamInv, [Next]_vars
  PROVE  StreamInv'
<1> USE DEF SafetyInv, TypeOK
<1>0. /\ \A i \in 1..Len(frames) : LastOfStream(frames[i], i, Len(frames)) /\ SeenIfLate(frames[i])
      /\ overflowed => reader = "stopped" /\ outcome # "completed"
      /\ complete => frames = <<>> /\ reader = "stopped" /\ ~overflowed
      /\ \A r \in RequestIds : ackHistory[r] \cap LateAckStatus # {} => r \in lateAcks
  BY DEF StreamInv, LastOfStream, SeenIfLate
<1> SUFFICES
      /\ \A i \in 1..Len(frames') : LastOfStream(frames[i], i, Len(frames))'
      /\ \A i \in 1..Len(frames') : SeenIfLate(frames[i])'
      /\ overflowed' => reader' = "stopped" /\ outcome' # "completed"
      /\ complete' => frames' = <<>> /\ reader' = "stopped" /\ ~overflowed'
      /\ \A r \in RequestIds : ackHistory'[r] \cap LateAckStatus # {} => r \in lateAcks'
  BY DEF StreamInv, LastOfStream, SeenIfLate
<1> USE DEF LastOfStream, SeenIfLate
<1>1. CASE UNCHANGED streamVars
  BY <1>0, <1>1 DEF streamVars
<1>2. CASE Receive
  <2>1. /\ reader = "reading" /\ ~complete /\ ~overflowed
        /\ UNCHANGED <<ackHistory, complete, outcome>>
        /\ outcome # "completed"
    <3>1. CanRecv /\ UNCHANGED <<ackHistory, complete, outcome>>
      BY <1>2 DEF Receive, ReceiveFrame, ReceiveOverflow, ReceiveFailure, sessionVars
    <3> QED
      BY <1>0, <3>1 DEF CanRecv, Suspended, PhaseInv
  <2>2. ASSUME NEW f \in ServerFrames, ReceiveFrame(f)
        PROVE  /\ \A i \in 1..Len(frames') : LastOfStream(frames[i], i, Len(frames))'
               /\ \A i \in 1..Len(frames') : SeenIfLate(frames[i])'
               /\ ~overflowed' /\ lateAcks \subseteq lateAcks'
    <3>1. /\ Len(frames) \in Nat /\ Len(frames') = Len(frames) + 1
          /\ frames'[Len(frames) + 1] = f
          /\ \A i \in 1..Len(frames) : frames'[i] = frames[i]
      BY <2>2, FramesReceived DEF ReceiveFrame
    <3>2. \A i \in 1..Len(frames') : i \in 1..Len(frames) \/ i = Len(frames')
      BY <3>1
    <3>3. /\ lateAcks \subseteq lateAcks' /\ ~overflowed'
          /\ f.kind = "ack" /\ f.status \in LateAckStatus => f.id \in lateAcks'
      BY <2>1, <2>2 DEF ReceiveFrame, NoteAck
    <3>4. f.kind # "closed" /\ (f.kind = "end" => reader' = "stopped")
      BY <2>2, FramesAssumption DEF ReceiveFrame, Frame, ClosedFrame
    <3>5. \A i \in 1..Len(frames) : frames[i].kind \notin {"end", "closed"}
      BY <1>0, <2>1
    <3> QED
      BY <1>0, <3>1, <3>2, <3>3, <3>4, <3>5
  <2>3. CASE ReceiveOverflow
    <3>1. \A i \in 1..Len(frames) : frames[i].kind \notin {"end", "closed"}
      BY <1>0, <2>1
    <3> QED
      BY <1>0, <2>1, <2>3, <3>1 DEF ReceiveOverflow
  <2>4. CASE ReceiveFailure
    <3>1. /\ Len(frames) \in Nat /\ Len(frames') = Len(frames) + 1
          /\ frames'[Len(frames) + 1] = ClosedFrame
          /\ \A i \in 1..Len(frames) : frames'[i] = frames[i]
      BY <2>4, FramesReceived DEF ReceiveFailure
    <3>2. \A i \in 1..Len(frames') : i \in 1..Len(frames) \/ i = Len(frames')
      BY <3>1
    <3>3. \A i \in 1..Len(frames) : frames[i].kind \notin {"end", "closed"}
      BY <1>0, <2>1
    <3>4. ClosedFrame.kind = "closed" /\ reader' = "stopped" /\ UNCHANGED <<overflowed, lateAcks>>
      BY <2>4 DEF ReceiveFailure, ClosedFrame
    <3> QED
      BY <1>0, <2>1, <3>1, <3>2, <3>3, <3>4
  <2> QED
    BY <1>0, <1>2, <2>1, <2>2, <2>3, <2>4 DEF Receive
<1>3. CASE DriveOverflow \/ FinishRunning \/ Abandon \/ JoinWorker \/ SendFails \/ Cancel \/ Interrupt
  <2>1. /\ UNCHANGED <<frames, overflowed, lateAcks, ackHistory, complete>>
        /\ reader' \in {reader, "stopped"}
    BY <1>3 DEF DriveOverflow, FinishRunning, Abandon, MarkUnanswered, RaiseInternal, JoinWorker,
                SendFails, Cancel, Interrupt, EndCall, sessionVars, readerVars
  <2>2. outcome' = "completed" => outcome = "completed" \/ complete
    BY <1>3 DEF DriveOverflow, FinishRunning, Abandon, MarkUnanswered, RaiseInternal, JoinWorker,
                SendFails, Cancel, Interrupt, EndCall, PhaseInv
  <2> QED
    BY <1>0, <2>1, <2>2
<1>4. CASE ProcessFrame
  <2> DEFINE f == Head(frames)
  <2>1. /\ frames # <<>> /\ frames' = Tail(frames) /\ UNCHANGED <<lateAcks, overflowed>>
        /\ ~overflowed /\ ~complete /\ reader' \in {reader, "stopped"}
    BY <1>4 DEF ProcessFrame, ProcessStart, ProcessRequest, ProcessAck, ProcessEnd, ProcessOther,
                ProcessFailure, TakeFrame, FrameReady, InLoop, EndCall, sessionVars
  <2>2. /\ f = frames[1] /\ 1 \in 1..Len(frames)
        /\ Len(frames) \in Nat /\ Len(frames') = Len(frames) - 1
        /\ \A i \in 1..Len(frames') : i + 1 \in 1..Len(frames) /\ frames'[i] = frames[i + 1]
        /\ Len(frames) = 1 => frames' = <<>>
    BY <2>1, FramesTaken
  <2>3. /\ \A i \in 1..Len(frames') : LastOfStream(frames[i], i, Len(frames))'
        /\ \A i \in 1..Len(frames') : SeenIfLate(frames[i])'
    <3> SUFFICES ASSUME NEW i \in 1..Len(frames')
                 PROVE  LastOfStream(frames[i], i, Len(frames))' /\ SeenIfLate(frames[i])'
      OBVIOUS
    <3>1. LastOfStream(frames[i + 1], i + 1, Len(frames)) /\ SeenIfLate(frames[i + 1])
      BY <1>0, <2>2
    <3>2. frames'[i] = frames[i + 1] /\ (i + 1 = Len(frames) => i = Len(frames'))
      BY <2>2
    <3> QED
      BY <2>1, <3>1, <3>2
  <2>4. complete' => frames' = <<>> /\ reader' = "stopped"
    <3>1. complete' => f.kind = "end"
      BY <1>4, <2>1 DEF ProcessFrame, ProcessStart, ProcessRequest, ProcessAck, ProcessEnd,
                        ProcessOther, ProcessFailure, TakeFrame, sessionVars
    <3>2. f.kind = "end" => Len(frames) = 1 /\ reader = "stopped"
      BY <1>0, <2>2
    <3> QED
      BY <2>1, <2>2, <3>1, <3>2
  <2>5. \A r \in RequestIds : ackHistory'[r] \cap LateAckStatus # {} => r \in lateAcks
    <3>1. CASE UNCHANGED ackHistory
      BY <1>0, <3>1
    <3>2. CASE ~UNCHANGED ackHistory
      <4>1. /\ f.kind = "ack"
            /\ ackHistory' = [ackHistory EXCEPT ![f.id] = @ \cup {f.status}]
        BY <1>4, <3>2 DEF ProcessFrame, ProcessStart, ProcessRequest, ProcessAck, ProcessEnd,
                          ProcessOther, ProcessFailure, TakeFrame, sessionVars
      <4>2. f.status \in LateAckStatus => f.id \in lateAcks
        BY <1>0, <2>2, <4>1
      <4>3. ackHistory \in [RequestIds -> SUBSET AckStatus]
        BY DEF SessionTypeOK
      <4> HIDE DEF f
      <4> QED
        BY <1>0, <4>1, <4>2, <4>3
    <3> QED
      BY <3>1, <3>2
  <2> QED
    BY <2>1, <2>3, <2>4, <2>5
<1> QED
  BY <1>1, <1>2, <1>3, <1>4, StreamSteps

(* A completed game leaves nothing of its stream unread, and the reader    *)
(* and the session agree on which requests the server had closed.          *)
THEOREM WholeStreamUsedCorrect == Spec => []WholeStreamUsed
<1>1. Init => StreamInv /\ LateAckInv
  BY DEF Init, StreamInv, LateAckInv
<1>2. SafetyInv /\ StreamInv /\ LateAckInv /\ [Next]_vars => StreamInv' /\ LateAckInv'
  BY StreamInductive, LateAckInductive
<1>3. SafetyInv /\ StreamInv /\ LateAckInv => WholeStreamUsed
  <2> SUFFICES ASSUME SafetyInv, StreamInv, LateAckInv, outcome = "completed"
               PROVE  /\ complete /\ frames = <<>> /\ ~overflowed
                      /\ lateAcks = {r \in RequestIds : ackHistory[r] \cap LateAckStatus # {}}
    BY DEF WholeStreamUsed
  <2>1. complete /\ frames = <<>> /\ ~overflowed
    BY DEF SafetyInv, PhaseInv, StreamInv
  <2>2. \A r \in lateAcks : r \in RequestIds /\ ackHistory[r] \cap LateAckStatus # {}
    <3>1. 1..Len(frames) = {}
      BY <2>1
    <3> QED
      BY <3>1 DEF LateAckInv, SafetyInv, TypeOK, ReaderTypeOK
  <2>3. \A r \in RequestIds : ackHistory[r] \cap LateAckStatus # {} => r \in lateAcks
    BY DEF StreamInv
  <2> QED
    BY <2>1, <2>2, <2>3
<1> QED
  BY <1>1, <1>2, <1>3, SafetyCorrect, PTL DEF Spec

-----------------------------------------------------------------------------
(* The record of a game.                                                   *)

(* What the loader makes of the trace mirrors the session, as long as the  *)
(* game is not one that fails.                                             *)
MirrorInv ==
  outcome \in {"none", "completed"} =>
    correlated = [ok |-> TRUE, seat |-> seat, requests |-> accepted, last |-> lastAccepted,
                  responses |-> sent, acks |-> ackHistory, ended |-> complete]

(* What the adapter has applied it has parsed, and only what it has        *)
(* applied was answered.                                                   *)
ContentInv ==
  /\ applied \cap unreadable = {}
  /\ sent \subseteq applied
  /\ task.state = "ok" => task.id \in applied

(* What is being saved is a completed game; what passed the staging agrees *)
(* with the result; and the manifest is there only once it is published.   *)
SaveInv ==
  /\ saving # "no" => pc = "returned" /\ outcome = "completed"
  /\ saving \in {"staged", "publishing", "published"} => Covered /\ RequestsParse
  /\ "manifest" \in target => saving = "published"
  /\ RefusedForCause

RecordInv == SafetyInv /\ MirrorInv /\ ContentInv /\ SaveInv

mirrorVars == <<seat, accepted, lastAccepted, sent, ackHistory, complete>>

(* A step of the record is a step of the driver or leaves it alone.        *)
LEMMA RecordStep == RecordNext => [Next]_vars
<1>1. Play => [Next]_vars
  BY DEF Play, Work, Worker, Next, Drive
<1>2. Save => [Next]_vars
  BY DEF Save, Stage, MakeDirectory, Rename, PublishFails, Die
<1> QED
  BY <1>1, <1>2 DEF RecordNext

(* Only a frame and a response change what the loader mirrors.             *)
LEMMA MirrorSteps ==
  ASSUME Play
  PROVE  \/ ProcessFrame /\ TraceReceived
         \/ FinishRunning /\ TraceSent
         \/ UNCHANGED <<mirrorVars, correlated>>
<1> USE DEF mirrorVars, sessionVars
<1>1. ASSUME Receive \/ Worker \/ NotifyDone \/ Clock PROVE UNCHANGED mirrorVars
  BY <1>1 DEF Receive, ReceiveFrame, ReceiveOverflow, ReceiveFailure, Worker,
              WorkerReturns, WorkerRaises, NotifyDone, Clock, Expire
<1>2. ASSUME Send \/ Cancel \/ Interrupt \/ JoinWorker \/ Return PROVE UNCHANGED mirrorVars
  BY <1>2 DEF Send, SendReturns, SendFails, Cancel, Interrupt, JoinWorker, Return
<1>3. ASSUME DriveOverflow \/ StartNext \/ Abandon \/ Sleep \/ Wake PROVE UNCHANGED mirrorVars
  BY <1>3 DEF DriveOverflow, StartNext, Abandon, MarkUnanswered, RaiseInternal, Sleep, Wake
<1> QED
  BY <1>1, <1>2, <1>3 DEF Play, Work, Worker

(* A frame that does not end the game badly is one the loader accepts, and *)
(* leaves the loader and the session agreeing.                             *)
LEMMA FrameMirrored ==
  ASSUME TypeOK, PhaseInv, MirrorInv, ProcessFrame, TraceReceived
  PROVE  MirrorInv'
<1> SUFFICES ASSUME outcome' \in {"none", "completed"}
             PROVE  correlated' = [ok |-> TRUE, seat |-> seat', requests |-> accepted',
                                   last |-> lastAccepted', responses |-> sent',
                                   acks |-> ackHistory', ended |-> complete']
  BY DEF MirrorInv
<1> DEFINE f == Head(frames)
<1>1. outcome = "none" /\ complete = FALSE
  BY DEF ProcessFrame, ProcessStart, ProcessRequest, ProcessAck, ProcessEnd, ProcessOther,
         ProcessFailure, TakeFrame, InLoop, PhaseInv, TypeOK, SessionTypeOK
<1>2. correlated = [ok |-> TRUE, seat |-> seat, requests |-> accepted, last |-> lastAccepted,
                    responses |-> sent, acks |-> ackHistory, ended |-> FALSE]
  BY <1>1 DEF MirrorInv, TypeOK, SessionTypeOK
<1>3. CASE ProcessStart
  <2>1. /\ f.kind = "start" /\ seat \in {NoSeat, f.seat} /\ seat' = f.seat
        /\ UNCHANGED <<accepted, lastAccepted, sent, ackHistory, complete>>
    BY <1>3, <1>1 DEF ProcessStart, TakeFrame, EndCall
  <2>2. correlated' = ReceivedLine(correlated, f)
    BY <2>1 DEF TraceReceived
  <2> QED
    BY <1>1, <1>2, <2>1, <2>2 DEF ReceivedLine
<1>4. CASE ProcessRequest
  <2>1. /\ f.kind = "request" /\ MayAccept(f.id)
        /\ accepted' = accepted \cup {f.id} /\ lastAccepted' = f.id
        /\ UNCHANGED <<seat, sent, ackHistory, complete>>
    BY <1>4, <1>1 DEF ProcessRequest, TakeFrame, EndCall
  <2>2. correlated' = ReceivedLine(correlated, f)
    BY <2>1 DEF TraceReceived
  <2>3. RequestFits(correlated, f.id)
    BY <1>2, <2>1 DEF RequestFits, MayAccept
  <2> QED
    BY <1>1, <1>2, <2>1, <2>2, <2>3 DEF ReceivedLine
<1>5. CASE ProcessAck
  <2>1. /\ f.kind = "ack" /\ f.id \in accepted /\ f.status \notin FatalAckStatus
        /\ ackHistory' = [ackHistory EXCEPT ![f.id] = @ \cup {f.status}]
        /\ UNCHANGED <<seat, accepted, lastAccepted, sent, complete>>
    BY <1>5, <1>1 DEF ProcessAck, TakeFrame, EndCall
  <2>2. correlated' = ReceivedLine(correlated, f)
    BY <2>1 DEF TraceReceived
  <2>3. AckFits(correlated, f)
    BY <1>2, <2>1 DEF AckFits
  <2> QED
    BY <1>1, <1>2, <2>1, <2>2, <2>3 DEF ReceivedLine
<1>6. CASE ProcessEnd
  <2>1. /\ f.kind = "end" /\ seat # NoSeat /\ complete' = TRUE
        /\ UNCHANGED <<seat, accepted, lastAccepted, sent, ackHistory>>
    BY <1>6, <1>1 DEF ProcessEnd, TakeFrame, EndCall
  <2>2. correlated' = ReceivedLine(correlated, f)
    BY <2>1 DEF TraceReceived
  <2> QED
    BY <1>1, <1>2, <2>1, <2>2 DEF ReceivedLine
<1>7. CASE ProcessOther
  BY <1>1, <1>2, <1>7 DEF ProcessOther, TakeFrame, TraceReceived, sessionVars
<1>8. ~ProcessFailure
  BY DEF ProcessFailure, EndCall
<1> QED
  BY <1>3, <1>4, <1>5, <1>6, <1>7, <1>8 DEF ProcessFrame

(* So is a response: it is the first, and of the newest request.           *)
LEMMA ResponseMirrored ==
  ASSUME TypeOK, OpenRequestInv, PhaseInv, MirrorInv, FinishRunning, TraceSent
  PROVE  MirrorInv'
<1>1. outcome = "none" /\ ~complete
  BY DEF FinishRunning, InLoop, PhaseInv
<1>2. correlated = [ok |-> TRUE, seat |-> seat, requests |-> accepted, last |-> lastAccepted,
                    responses |-> sent, acks |-> ackHistory, ended |-> FALSE]
  BY <1>1 DEF MirrorInv, TypeOK, SessionTypeOK
<1>3. UNCHANGED <<seat, accepted, lastAccepted, ackHistory, complete>>
  BY DEF FinishRunning
<1>4. CASE sent' = sent
  BY <1>1, <1>2, <1>3, <1>4 DEF TraceSent, MirrorInv
<1>5. CASE sent' = sent \cup {live} /\ sent' # sent /\ live \in accepted \ Settled
  <2>1. correlated' = SentLine(correlated, live)
    BY <1>5 DEF TraceSent
  <2>2. live \in accepted /\ live = lastAccepted /\ live \notin sent
    BY <1>5 DEF OpenRequestInv, Settled
  <2>3. correlated' = [correlated EXCEPT !.responses = sent \cup {live}]
    BY <1>2, <2>1, <2>2 DEF SentLine
  <2> QED
    BY <1>1, <1>2, <1>3, <1>5, <2>3 DEF MirrorInv
<1> QED
  BY <1>4, <1>5, Settling

(* The loader mirrors the session through every step of a game.            *)
LEMMA MirrorInductive ==
  ASSUME SafetyInv, MirrorInv, RecordNext
  PROVE  MirrorInv'
<1> USE DEF SafetyInv
<1>1. outcome # "none" => outcome' \in {outcome, "interrupted"}
  BY OutcomeFinal, RecordStep
<1>2. ASSUME UNCHANGED <<mirrorVars, correlated>> PROVE MirrorInv'
  BY <1>1, <1>2 DEF MirrorInv, mirrorVars
<1>3. CASE Play
  BY <1>2, <1>3, MirrorSteps, FrameMirrored, ResponseMirrored
<1>4. CASE Save
  BY <1>2, <1>4 DEF Save, Stage, MakeDirectory, Rename, PublishFails, Die, vars, sessionVars,
                    mirrorVars
<1> QED
  BY <1>3, <1>4 DEF RecordNext

(* Once a completed game has returned, nothing moves but a last callback.  *)
LEMMA GameIsOver ==
  ASSUME SafetyInv, Play, pc = "returned", outcome = "completed"
  PROVE  UNCHANGED <<pc, outcome, mirrorVars, unanswered, applied, correlated, unreadable,
                     nonFinite>>
<1> USE DEF mirrorVars, sessionVars
<1>1. task.state # "busy"
  BY DEF SafetyInv, WorkerInv
<1>2. CASE NotifyDone /\ UNCHANGED <<correlated, unreadable, nonFinite>>
  BY <1>2 DEF NotifyDone
<1>3. ~(Receive \/ Worker \/ Clock)
  BY <1>1 DEF Receive, ReceiveFrame, ReceiveOverflow, ReceiveFailure, CanRecv, Suspended, Worker,
              WorkerReturns, WorkerRaises, Clock, Expire
<1>4. ~(Send \/ Cancel \/ Interrupt \/ JoinWorker \/ Return \/ Wake)
  BY DEF Send, SendReturns, SendFails, Cancel, Suspended, Interrupt, JoinWorker, Return, Wake
<1>5. ~(DriveOverflow \/ StartNext \/ Abandon \/ Sleep \/ FinishRunning)
  BY DEF DriveOverflow, StartNext, Abandon, Sleep, FinishRunning, InLoop
<1>6. ~ProcessFrame
  BY DEF ProcessFrame, ProcessStart, ProcessRequest, ProcessAck, ProcessEnd, ProcessOther,
         ProcessFailure, TakeFrame, InLoop
<1> QED
  BY <1>2, <1>3, <1>4, <1>5, <1>6 DEF Play, Work, Worker

(* The trace of a completed game agrees with its result, each request in   *)
(* it is answered or given up, and what cannot be parsed was never read.   *)
LEMMA CompletedGame ==
  ASSUME SafetyInv, MirrorInv, ContentInv, outcome = "completed"
  PROVE  /\ ResultAgrees
         /\ UnansweredIds \cap correlated.responses = {}
         /\ correlated.requests = accepted /\ correlated.acks = ackHistory
         /\ correlated.requests \ correlated.responses = UnansweredIds
         /\ accepted \cap unreadable \subseteq UnansweredIds \ applied
<1>1. complete = TRUE /\ accepted \subseteq Settled /\ Settled \subseteq accepted
      /\ sent \cap UnansweredIds = {}
  <2>1. complete /\ live = NoRequest
    BY DEF SafetyInv, PhaseInv
  <2>2. \A r \in accepted : r # live
    BY <2>1, IdsAssumption DEF SafetyInv, TypeOK, SessionTypeOK
  <2> QED
    BY <2>1, <2>2 DEF SafetyInv, TypeOK, SessionTypeOK, OpenRequestInv
<1>2. correlated = [ok |-> TRUE, seat |-> seat, requests |-> accepted, last |-> lastAccepted,
                    responses |-> sent, acks |-> ackHistory, ended |-> TRUE]
  BY <1>1 DEF MirrorInv
<1>3. ResultAgrees
  BY <1>2 DEF ResultAgrees
<1>4. UnansweredIds \cap correlated.responses = {}
      /\ correlated.requests \ correlated.responses = UnansweredIds
  BY <1>1, <1>2 DEF Settled
<1>5. accepted \cap unreadable \subseteq UnansweredIds \ applied
  BY <1>1 DEF ContentInv, Settled
<1> QED
  BY <1>2, <1>3, <1>4, <1>5

(* So when it does not load, the server is the cause.                      *)
LEMMA RefusalHasACause ==
  ASSUME SafetyInv, MirrorInv, ContentInv, outcome = "completed",
         ~(LinesParse /\ ResultAgrees /\ RequestsParse /\ Covered)
  PROVE  \/ nonFinite
         \/ \E r \in UnansweredIds : \/ "defaulted" \notin ackHistory[r]
                                     \/ ackHistory[r] \cap {"accepted", "stale"} # {}
                                     \/ r \in unreadable \ applied
<1>1. CASE ~LinesParse
  BY <1>1 DEF LinesParse
<1>2. CASE ~RequestsParse
  BY <1>2, CompletedGame DEF RequestsParse
<1>3. CASE ~Covered
  BY <1>3, CompletedGame DEF Covered, ConfirmedDefault
<1> QED
  BY <1>1, <1>2, <1>3, CompletedGame

(* What the adapter reads stays apart from what nobody could read.         *)
LEMMA ContentInductive ==
  ASSUME SafetyInv, WorkOrderInv, ContentInv, RecordNext
  PROVE  ContentInv'
<1> DEFINE Keeps == UNCHANGED <<task, applied, sent, unreadable>>
<1> USE DEF ContentInv, SafetyInv, TypeOK
<1>1. ASSUME Keeps PROVE ContentInv'
  BY <1>1
<1>2. CASE Save
  BY <1>2 DEF Save, Stage, MakeDirectory, Rename, PublishFails, Die, vars, sessionVars, workerVars
<1>3. CASE ProcessFrame /\ TraceReceived
  <2>1. UNCHANGED <<task, applied, sent>> /\ outcome = "none"
    BY <1>3 DEF ProcessFrame, ProcessStart, ProcessRequest, ProcessAck, ProcessEnd, ProcessOther,
                ProcessFailure, TakeFrame, InLoop, PhaseInv, sessionVars, workerVars
  <2>2. applied \subseteq accepted
    BY <2>1 DEF WorkOrderInv, NothingSkipped
  <2>3. \A r \in unreadable' \ unreadable : r \notin accepted
    BY <1>3 DEF TraceReceived
  <2> QED
    BY <2>1, <2>2, <2>3
<1>4. CASE FinishRunning /\ UNCHANGED unreadable
  <2>1. /\ UNCHANGED applied /\ task' \in {task, NoTask}
        /\ sent' = sent \/ (sent' = sent \cup {task.id} /\ task.state = "ok")
    BY <1>4 DEF FinishRunning, MarkUnanswered, RaiseInternal
  <2> QED
    BY <1>4, <2>1 DEF NoTask
<1>5. CASE Work /\ UNCHANGED unreadable
  <2>1. WorkerReturns => task.id \notin unreadable
    BY <1>5 DEF Work, WorkerReturns, WorkerRaises, WorkerTypeOK, NoTask
  <2>2. UNCHANGED sent /\ task.state = "busy"
    BY <1>5 DEF Work, WorkerReturns, WorkerRaises, sessionVars
  <2>3. task \in [id : RequestIds, decide : BOOLEAN, state : {"busy", "ok", "raised"}]
    BY <2>2, TaskOfRequest
  <2>4. /\ applied' \in {applied, applied \cup {task.id}}
        /\ task.id \in applied' \ applied => task.id \notin unreadable
        /\ task'.state = "ok" => task'.id \in applied'
    BY <1>5, <2>3 DEF Work, WorkerReturns, WorkerRaises
  <2> QED
    BY <1>5, <2>2, <2>4
<1>6. CASE StartNext /\ UNCHANGED unreadable
  BY <1>6 DEF StartNext, sessionVars
<1>7. ASSUME Receive \/ NotifyDone \/ Clock PROVE UNCHANGED <<task, applied, sent>>
  BY <1>7 DEF Receive, ReceiveFrame, ReceiveOverflow, ReceiveFailure, NotifyDone, Clock, Expire,
              sessionVars, workerVars
<1>8. ASSUME Send \/ Cancel \/ Interrupt \/ JoinWorker \/ Return PROVE UNCHANGED <<task, applied, sent>>
  BY <1>8 DEF Send, SendReturns, SendFails, Cancel, Interrupt, JoinWorker, Return, sessionVars,
              workerVars
<1>9. ASSUME DriveOverflow \/ Abandon \/ Sleep \/ Wake PROVE UNCHANGED <<task, applied, sent>>
  BY <1>9 DEF DriveOverflow, Abandon, MarkUnanswered, RaiseInternal, Sleep, Wake, sessionVars,
              workerVars
<1>10. CASE Play
  BY <1>1, <1>3, <1>4, <1>5, <1>6, <1>7, <1>8, <1>9, <1>10 DEF Play
<1> QED
  BY <1>2, <1>10 DEF RecordNext

(* The save only publishes what it has checked, the manifest last.         *)
LEMMA SaveInductive ==
  ASSUME RecordInv, RecordNext
  PROVE  SaveInv'
<1> USE DEF RecordInv, SaveInv
<1>1. CASE Play
  <2>1. UNCHANGED <<saving, target>>
    BY <1>1 DEF Play
  <2>2. CASE saving = "no"
    BY <2>1, <2>2 DEF RefusedForCause
  <2>3. CASE saving # "no"
    <3>1. UNCHANGED <<pc, outcome, mirrorVars, unanswered, applied, correlated, unreadable,
                      nonFinite>>
      BY <1>1, <2>3, GameIsOver
    <3> QED
      BY <2>1, <3>1 DEF mirrorVars, Covered, ConfirmedDefault, UnansweredIds, RequestsParse,
                        RefusedForCause
  <2> QED
    BY <2>2, <2>3
<1>2. CASE Save
  <2>1. UNCHANGED <<pc, outcome, unanswered, ackHistory, applied, correlated, unreadable,
                    nonFinite>>
    BY <1>2 DEF Save, Stage, MakeDirectory, Rename, PublishFails, Die, vars, sessionVars,
                driverVars, workerVars
  <2>2. Covered' = Covered /\ RequestsParse' = RequestsParse /\ UnansweredIds' = UnansweredIds
    BY <2>1 DEF Covered, ConfirmedDefault, RequestsParse, UnansweredIds
  <2> DEFINE Loads == LinesParse /\ ResultAgrees /\ RequestsParse /\ Covered
  <2> DEFINE Cause == \/ nonFinite
                      \/ \E r \in UnansweredIds : \/ "defaulted" \notin ackHistory[r]
                                                  \/ ackHistory[r] \cap {"accepted", "stale"} # {}
                                                  \/ r \in unreadable \ applied
  <2>c. (RefusedForCause <=> (saving = "refused" => Cause)) /\ (Cause' <=> Cause)
        /\ (RefusedForCause' <=> (saving' = "refused" => Cause'))
    <3>1. UnansweredIds' = UnansweredIds
      BY <2>2
    <3> QED
      BY <2>1, <3>1 DEF RefusedForCause
  <2>3. CASE Stage
    <3>1. /\ pc = "returned" /\ outcome = "completed" /\ saving = "no" /\ target' = target
          /\ saving' = IF Loads THEN "staged" ELSE "refused"
      BY <2>3 DEF Stage
    <3>2. CASE Loads
      BY <2>1, <2>2, <2>c, <3>1, <3>2
    <3>3. CASE ~Loads
      <4>1. Cause
        BY <3>1, <3>3, RefusalHasACause
      <4> HIDE DEF Cause, Loads
      <4> QED
        BY <2>1, <2>2, <2>c, <3>1, <3>3, <4>1
    <3> QED
      BY <3>2, <3>3
  <2> HIDE DEF Cause, Loads
  <2>4. CASE MakeDirectory
    BY <2>1, <2>2, <2>c, <2>4 DEF MakeDirectory
  <2>5. ASSUME NEW file \in File, Rename(file) PROVE SaveInv'
    BY <2>1, <2>2, <2>c, <2>5 DEF Rename, File
  <2>6. CASE PublishFails
    BY <2>1, <2>2, <2>c, <2>6 DEF PublishFails, NoDirectory
  <2>7. CASE Die
    BY <2>1, <2>2, <2>c, <2>7 DEF Die
  <2> QED
    BY <1>2, <2>3, <2>4, <2>5, <2>6, <2>7 DEF Save
<1> QED
  BY <1>1, <1>2 DEF RecordNext

-----------------------------------------------------------------------------
(* The driver, composed with its record, is still the driver: what is      *)
(* proved of Spec holds of every game that is recorded.                    *)
THEOREM RecordedDriver == RecordSpec => Spec
<1>1. RecordInit => Init
  BY DEF RecordInit
<1>2. [RecordNext]_<<vars, recordVars>> => [Next]_vars
  BY RecordStep DEF recordVars
<1> QED
  BY <1>1, <1>2, PTL DEF RecordSpec, Spec

(* The inductive invariant of the game and its record.                     *)
THEOREM RecordCorrect == RecordSpec => []RecordInv
<1>1. RecordInit => MirrorInv /\ ContentInv /\ SaveInv
  <2>1. RecordInit => ContentInv
    BY DEF RecordInit, Init, NoTask, ContentInv
  <2> QED
    BY <2>1 DEF RecordInit, Init, MirrorInv, SaveInv, RefusedForCause, NoDirectory
<1>2. SafetyInv /\ WorkOrderInv /\ MirrorInv /\ ContentInv /\ SaveInv
        /\ [RecordNext]_<<vars, recordVars>>
        => (MirrorInv /\ ContentInv /\ SaveInv)'
  <2> SUFFICES ASSUME SafetyInv, WorkOrderInv, MirrorInv, ContentInv, SaveInv,
                      [RecordNext]_<<vars, recordVars>>
               PROVE  (MirrorInv /\ ContentInv /\ SaveInv)'
    OBVIOUS
  <2>1. CASE RecordNext
    BY <2>1, MirrorInductive, ContentInductive, SaveInductive DEF RecordInv
  <2>2. CASE UNCHANGED <<vars, recordVars>>
    BY <2>2 DEF vars, recordVars, sessionVars, driverVars, workerVars, MirrorInv, ContentInv,
                SaveInv, Covered, ConfirmedDefault, RequestsParse, UnansweredIds, RefusedForCause
  <2> QED
    BY <2>1, <2>2
<1> QED
  BY <1>1, <1>2, RecordedDriver, SafetyCorrect, WorkOrderCorrect, PTL DEF RecordSpec, RecordInv

(* The trace of every completed game tells what the driver returned, and   *)
(* what the loader cannot parse in it was never read and never answered.   *)
THEOREM TraceTellsTheGameCorrect == RecordSpec => []TraceTellsTheGame
<1>1. RecordInv => TraceTellsTheGame
  BY CompletedGame DEF RecordInv, TraceTellsTheGame
<1> QED
  BY <1>1, RecordCorrect, PTL

(* Nothing but the server's silence, contradiction or unparsable content   *)
(* loses a game.                                                           *)
THEOREM RefusedForCauseCorrect == RecordSpec => []RefusedForCause
<1>1. RecordInv => RefusedForCause
  BY DEF RecordInv, SaveInv
<1> QED
  BY <1>1, RecordCorrect, PTL

(* A record that loads is of a game whose every request is accounted for.  *)
THEOREM LoadableIsConfirmedCorrect == RecordSpec => []LoadableIsConfirmed
<1>1. RecordInv => LoadableIsConfirmed
  <2> SUFFICES ASSUME RecordInv, Loadable PROVE LoadableIsConfirmed
    BY DEF LoadableIsConfirmed
  <2>1. Covered /\ RequestsParse /\ outcome = "completed"
    BY DEF RecordInv, SaveInv, Loadable, File
  <2>2. complete /\ task.state # "busy"
    BY <2>1 DEF RecordInv, SafetyInv, PhaseInv, WorkerInv
  <2>3. /\ correlated.requests = accepted /\ correlated.responses = sent
        /\ correlated.acks = ackHistory
    BY <2>1 DEF RecordInv, MirrorInv
  <2>4. ASSUME NEW r \in accepted, r \in UnansweredIds
        PROVE  r \notin sent /\ "defaulted" \in ackHistory[r]
    BY <2>1, <2>3, <2>4 DEF Covered, ConfirmedDefault
  <2>5. ASSUME NEW r \in accepted, r \notin UnansweredIds
        PROVE  r \in sent /\ unanswered[r] = "none"
    BY <2>1, <2>3, <2>5 DEF Covered, UnansweredIds, RecordInv, SafetyInv, TypeOK, SessionTypeOK
  <2> QED
    BY <2>1, <2>2, <2>3, <2>4, <2>5 DEF LoadableIsConfirmed, RequestsParse
<1> QED
  BY <1>1, RecordCorrect, PTL

(* A record that loads is final: it keeps loading, and nothing of the game *)
(* it tells changes after it, neither by the driver that has returned nor  *)
(* by the save.                                                            *)
THEOREM LoadableIsFinal ==
  RecordSpec => [][Loadable => Loadable' /\ UNCHANGED <<mirrorVars, unanswered>>]_<<vars, recordVars>>
<1>1. ASSUME RecordInv, RecordNext, Loadable
      PROVE  Loadable' /\ UNCHANGED <<mirrorVars, unanswered>>
  <2>1. saving = "published" /\ pc = "returned" /\ outcome = "completed" /\ SafetyInv
    BY <1>1 DEF RecordInv, SaveInv, Loadable, File
  <2>2. ~Save
    BY <1>1, <2>1 DEF Save, Stage, MakeDirectory, Rename, PublishFails, Die
  <2>3. Play
    BY <1>1, <2>2 DEF RecordNext
  <2> QED
    BY <1>1, <2>1, <2>3, GameIsOver DEF Play, Loadable
<1>2. RecordInv /\ [RecordNext]_<<vars, recordVars>>
        => [Loadable => Loadable' /\ UNCHANGED <<mirrorVars, unanswered>>]_<<vars, recordVars>>
  BY <1>1
<1> QED
  BY <1>2, RecordCorrect, PTL DEF RecordSpec
=============================================================================
