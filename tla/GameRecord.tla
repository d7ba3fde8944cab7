----------------------------- MODULE GameRecord -----------------------------
(***************************************************************************)
(* acquire_ranked_game_record (riichilab/durable_ranked_game_record.py):   *)
(* the driver plays a game, its trace is written as it goes, and only a    *)
(* completed game whose trace, result and server acknowledgements agree is *)
(* published, as a directory of three files.                               *)
(*                                                                         *)
(* The loader reads the trace from its first line to its last and fails at *)
(* the first line that does not fit. That fold is kept up to date here as  *)
(* the lines are written, so that the trace itself need not be kept.       *)
(*                                                                         *)
(* The session takes a request for its id and its time alone. Its content  *)
(* is read by the adapter, if the worker ever gets to it, and once more by *)
(* the loader, always.                                                     *)
(***************************************************************************)
EXTENDS SessionProperties

VARIABLES
  correlated,  (* what _correlate_trace makes of the trace so far           *)
  unreadable,  (* requests whose content the canonical parser refuses, or   *)
               (* whose Observation is of another seat                      *)
  nonFinite,   (* some received line holds NaN or Infinity                  *)
  saving,      (* where save_ranked_game_record is                          *)
  target       (* the files of the published directory, or NoDirectory      *)

recordVars == <<correlated, unreadable, nonFinite, saving, target>>

File == {"trace", "result", "manifest"}
NoDirectory == {"absent"}

RecordInit ==
  /\ Init
  /\ correlated = [ok |-> TRUE, seat |-> NoSeat, requests |-> {}, last |-> NoRequest,
                   responses |-> {}, acks |-> [r \in RequestIds |-> {}], ended |-> FALSE]
  /\ unreadable = {} /\ nonFinite = FALSE
  /\ saving = "no" /\ target = NoDirectory

-----------------------------------------------------------------------------
(* _correlate_trace, one line at a time. What it asks of the shape of a    *)
(* request, possible_actions and observation, the canonical parser asks    *)
(* too: see RequestsParse. The session and the loader append the same acks *)
(* in the same order, so their order and repeats are left out.             *)

RequestFits(c, r) ==
  c.seat # NoSeat /\ r \notin c.requests /\ (c.last # NoRequest => r > c.last)

BugAckOfAnswered(c, f) == f.id \in c.responses /\ f.status \notin FatalAckStatus

(* No assumption that each request is acknowledged, or once, or in time.   *)
AckFits(c, f) == f.id \in c.requests /\ f.status \notin FatalAckStatus

ReceivedLine(c, f) ==
  LET d == [c EXCEPT !.ok = @ /\ ~c.ended] IN
  CASE f.kind = "start" ->
         [d EXCEPT !.ok = @ /\ c.seat \in {NoSeat, f.seat}, !.seat = f.seat]
    [] f.kind = "request" ->
         [d EXCEPT !.ok = @ /\ RequestFits(c, f.id),
                   !.requests = @ \cup {f.id}, !.last = f.id]
    [] f.kind = "ack" ->
         [d EXCEPT !.ok = @ /\ AckFits(c, f),
                   !.acks[f.id] = @ \cup {f.status}]
    [] f.kind = "end" -> [d EXCEPT !.ok = @ /\ c.seat # NoSeat, !.ended = TRUE]
    [] OTHER -> d

SentLine(c, r) ==
  [c EXCEPT !.ok = @ /\ ~c.ended /\ r \in c.requests /\ r = c.last /\ r \notin c.responses,
            !.responses = @ \cup {r}]

(* A frame is traced before the session sees it; what is no JSON object    *)
(* (binary, unparsable, a failed recv) is not, and of an event the session *)
(* ignores the loader keeps nothing. Here, too, it is decided what the     *)
(* server had put into the frame: any content, and any number.             *)
TraceReceived ==
  LET f == Head(frames) IN
  /\ correlated' = IF f.kind \in {"start", "request", "ack", "end"}
                   THEN ReceivedLine(correlated, f)
                   ELSE correlated
  /\ IF f.kind = "request" /\ f.id \notin accepted
     THEN unreadable' \in {unreadable, unreadable \cup {f.id}}
     ELSE UNCHANGED unreadable
  /\ nonFinite' \in IF f.kind \in {"malformed", "closed"} THEN {nonFinite} ELSE {nonFinite, TRUE}

(* _send: the line is written before the transport is asked to send.       *)
TraceSent == correlated' = IF sent' = sent THEN correlated ELSE SentLine(correlated, live)

(* The adapter, deciding or only synchronizing, parses the request first   *)
(* and compares the seat of its Observation: it returns for no other.      *)
Work ==
  \/ WorkerReturns /\ task.id \notin unreadable
  \/ WorkerRaises

Play ==
  /\ \/ ProcessFrame /\ TraceReceived
     \/ FinishRunning /\ TraceSent /\ UNCHANGED <<unreadable, nonFinite>>
     \/ /\ \/ Receive \/ Work \/ NotifyDone \/ Clock \/ Send \/ Cancel \/ Interrupt
           \/ DriveOverflow \/ StartNext \/ Abandon \/ Sleep \/ Wake
           \/ JoinWorker \/ Return
        /\ UNCHANGED <<correlated, unreadable, nonFinite>>
  /\ UNCHANGED <<saving, target>>

-----------------------------------------------------------------------------
(* save_ranked_game_record, of the result of a game that completed.        *)

BugLocalCutoffIsEnough(r) ==
  unanswered[r] = "local_cutoff" \/ "defaulted" \in correlated.acks[r]

(* _validate_response_coverage: only the server's own "defaulted" says     *)
(* what became of a request that was not answered, and no ack may speak of *)
(* a reply that was never sent.                                            *)
ConfirmedDefault(r) ==
  "defaulted" \in correlated.acks[r] /\ correlated.acks[r] \cap {"accepted", "stale"} = {}

BugEveryRequestAnswered == correlated.responses = correlated.requests

Covered ==
  /\ UnansweredIds \cap correlated.responses = {}
  /\ correlated.requests \ correlated.responses = UnansweredIds
  /\ \A r \in UnansweredIds : ConfirmedDefault(r)

(* The result of the driver and the trace tell the same game.              *)
ResultAgrees ==
  /\ correlated.ok /\ correlated.ended
  /\ correlated.seat = seat
  /\ correlated.requests = accepted
  /\ correlated.responses = sent
  /\ correlated.acks = ackHistory

(* _parse_trace_entries: strict JSON, where transport and trace writer let *)
(* a number that is none pass, in an event that is ignored as well.        *)
LinesParse == ~nonFinite

(* _validate_recorded_request_actions: every request of the trace, whether *)
(* or not the adapter has ever read it.                                    *)
RequestsParse == correlated.requests \cap unreadable = {}

(* The staged bundle is loaded back before anything is published.          *)
Stage ==
  /\ pc = "returned" /\ outcome = "completed" /\ saving = "no"
  /\ saving' = IF LinesParse /\ ResultAgrees /\ RequestsParse /\ Covered
               THEN "staged" ELSE "refused"
  /\ UNCHANGED <<vars, correlated, unreadable, nonFinite, target>>

MakeDirectory ==
  /\ saving = "staged"
  /\ saving' = "publishing" /\ target' = {}
  /\ UNCHANGED <<vars, correlated, unreadable, nonFinite>>

(* The manifest comes last.                                                *)
Rename(file) ==
  /\ saving = "publishing" /\ file \notin target
  /\ file = "result" => "trace" \in target
  /\ file = "manifest" => target = {"trace", "result"}
  /\ target' = target \cup {file}
  /\ saving' = IF file = "manifest" THEN "published" ELSE saving
  /\ UNCHANGED <<vars, correlated, unreadable, nonFinite>>

(* An error while it publishes: rmtree, which may leave files behind.      *)
PublishFails ==
  /\ saving = "publishing"
  /\ target' \in {NoDirectory} \cup SUBSET target
  /\ saving' = "failed"
  /\ UNCHANGED <<vars, correlated, unreadable, nonFinite>>

(* The process dies; what it has renamed stays.                            *)
Die ==
  /\ saving \in {"staged", "publishing"}
  /\ saving' = "died"
  /\ UNCHANGED <<vars, correlated, unreadable, nonFinite, target>>

Save == Stage \/ MakeDirectory \/ (\E file \in File : Rename(file)) \/ PublishFails \/ Die

RecordNext == Play \/ Save
RecordSpec == RecordInit /\ [][RecordNext]_<<vars, recordVars>>

-----------------------------------------------------------------------------
(* _bundle_files: a directory with a file missing is no record.            *)
Loadable == target = File

(* The trace of a completed game tells the loader exactly what the driver  *)
(* returned, in whatever order decisions, cutoffs, late acks and the end   *)
(* of the game came, and of its requests the loader can fail to parse only *)
(* one that was given up and never read: still queued when end_game came.  *)
TraceTellsTheGame ==
  outcome = "completed" =>
    /\ ResultAgrees
    /\ accepted \cap unreadable \subseteq UnansweredIds \ applied

(* The causes for which a completed game is refused are all the server's,  *)
(* and of a request the client did not answer, or a number that is none:   *)
(* it has left open, or has contradicted, what became of the request, or   *)
(* the request could not be parsed, which nothing noticed while it played. *)
RefusedForCause ==
  saving = "refused" =>
    \/ nonFinite
    \/ \E r \in UnansweredIds : \/ "defaulted" \notin ackHistory[r]
                                \/ ackHistory[r] \cap {"accepted", "stale"} # {}
                                \/ r \in unreadable \ applied

(* Whatever fails or dies on the way, a record that loads is of a game     *)
(* that was played to its end_game and in which every request was answered *)
(* by the client, or was defaulted by the server and never answered, and   *)
(* can be parsed, also if the adapter never got to it.                     *)
LoadableIsConfirmed ==
  Loadable =>
    /\ complete /\ task.state # "busy"
    /\ accepted \cap unreadable = {}
    /\ \A r \in accepted : \/ r \in sent /\ unanswered[r] = "none"
                           \/ r \notin sent /\ "defaulted" \in ackHistory[r]
=============================================================================
