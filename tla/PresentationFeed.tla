-------------------------- MODULE PresentationFeed --------------------------
(***************************************************************************)
(* What a viewer gets to see of a continuous run: one bounded buffer per   *)
(* game, handed over by the feed (riichilab/live_presentation.py), filled  *)
(* by the event loop that plays (session.py, ranked.py) and drained by a   *)
(* consumer thread. Every method holds a lock, so each is one step; two    *)
(* methods, of one thread or of two, interleave.                           *)
(*                                                                         *)
(* The consumer is outside this repository. It is modelled by the rule the *)
(* feed's docstring gives it: ask for the current game, drain the buffer   *)
(* in hand, and only then turn to the game it was told of.                 *)
(***************************************************************************)
EXTENDS Integers, Sequences

CONSTANTS
  Capacity,                (* of the decisions of one buffer                *)
  MaxGames, MaxDecisions   (* bounds of the model: games, decisions in each *)

ASSUME BoundsAssumption ==
  /\ Capacity \in Nat \ {0}
  /\ MaxGames \in Nat /\ MaxDecisions \in Nat

Games == 1..MaxGames
NoGame == 0

VARIABLES
  \* ContinuousRankedPresentationFeed
  opened,     (* games opened; the last one is current()                    *)
  attached,
  buffers,    (* game -> its BoundedRankedPresentationBuffer                *)
  \* the event loop
  runner,     (* "between" games, "playing" or "over"                       *)
  decided,    (* game -> decisions its session has published                *)
  \* the consumer
  held,       (* the game whose buffer it has in hand                       *)
  told,       (* what current() told it, until it has drained               *)
  polling,    (* its next call is current(), not drain()                    *)
  received    (* game -> what its batches have added up to                  *)

feedVars == <<opened, attached, buffers>>
runnerVars == <<runner, decided>>
consumerVars == <<held, told, polling, received>>
vars == <<feedVars, runnerVars, consumerVars>>

(* Decisions are numbered in the order they are published.                 *)
Buffer == [decisions : Seq(1..MaxDecisions), completion : BOOLEAN, failure : BOOLEAN,
           attached : BOOLEAN, coalesced : Nat]
Received == [decisions : Seq(1..MaxDecisions), completion : BOOLEAN, failure : BOOLEAN,
             coalesced : Nat]

NewBuffer == [decisions |-> <<>>, completion |-> FALSE, failure |-> FALSE,
              attached |-> attached, coalesced |-> 0]
NothingReceived == [decisions |-> <<>>, completion |-> FALSE, failure |-> FALSE, coalesced |-> 0]

TypeOK ==
  /\ opened \in 0..MaxGames
  /\ attached \in BOOLEAN
  /\ buffers \in [Games -> Buffer]
  /\ \A g \in Games : Len(buffers[g].decisions) <= Capacity
  /\ runner \in {"between", "playing", "over"}
  /\ decided \in [Games -> 0..MaxDecisions]
  /\ held \in 0..MaxGames /\ told \in 0..MaxGames /\ polling \in BOOLEAN
  /\ received \in [Games -> Received]

Init ==
  /\ opened = 0 /\ attached = TRUE
  /\ buffers = [g \in Games |-> NewBuffer]
  /\ runner = "between" /\ decided = [g \in Games |-> 0]
  /\ held = NoGame /\ told = NoGame /\ polling = TRUE
  /\ received = [g \in Games |-> NothingReceived]

-----------------------------------------------------------------------------
(* The event loop: run_continuous_ranked around run_ranked_game.           *)

(* Operators whose name starts with "Bug" are not part of the model: each  *)
(* is a plausible bug of the definition after it, which the run notices.   *)

BugOpenAnytime == runner # "over"
MayOpen == runner = "between"

OpenGame ==
  /\ MayOpen
  /\ opened < MaxGames
  /\ opened' = opened + 1
  /\ buffers' = [buffers EXCEPT ![opened + 1] = NewBuffer]
  /\ runner' = "playing"
  /\ UNCHANGED <<attached, decided, consumerVars>>

(* The event loop uses the buffer that open_game returned.                 *)
PublishTo(buffer) ==
  /\ buffers' = [buffers EXCEPT ![opened] = IF @.attached THEN buffer ELSE @]
  /\ UNCHANGED <<opened, attached, consumerVars>>

BugDropNewest(buffer, d) ==
  IF Len(buffer.decisions) = Capacity
  THEN [buffer EXCEPT !.coalesced = @ + 1]
  ELSE [buffer EXCEPT !.decisions = Append(@, d)]

(* publish_decision: a full buffer gives up its oldest decision.           *)
WithDecision(buffer, d) ==
  IF Len(buffer.decisions) = Capacity
  THEN [buffer EXCEPT !.decisions = Append(Tail(@), d), !.coalesced = @ + 1]
  ELSE [buffer EXCEPT !.decisions = Append(@, d)]

PublishDecision ==
  /\ runner = "playing"
  /\ decided[opened] < MaxDecisions
  /\ decided' = [decided EXCEPT ![opened] = @ + 1]
  /\ PublishTo(WithDecision(buffers[opened], decided'[opened]))
  /\ UNCHANGED runner

(* run_ranked_game publishes one terminal fact, once all else is done: the *)
(* completion when it returns ...                                          *)
BugBothTerminals ==
  /\ runner = "playing"
  /\ PublishTo([buffers[opened] EXCEPT !.completion = TRUE])
  /\ runner' \in {"playing", "between"}
  /\ UNCHANGED decided

PublishCompletion ==
  /\ runner = "playing"
  /\ PublishTo([buffers[opened] EXCEPT !.completion = TRUE])
  /\ runner' = "between"
  /\ UNCHANGED decided

(* ... the failure when it raises, after which the run may be over too.    *)
PublishFailure ==
  /\ runner = "playing"
  /\ PublishTo([buffers[opened] EXCEPT !.failure = TRUE])
  /\ runner' \in {"between", "over"}
  /\ UNCHANGED decided

(* A CancelledError publishes neither, and ends the run.                   *)
Cancelled ==
  /\ runner = "playing"
  /\ runner' = "over"
  /\ UNCHANGED <<feedVars, decided, consumerVars>>

(* The run stops between two games.                                        *)
Stop ==
  /\ runner = "between"
  /\ runner' = "over"
  /\ UNCHANGED <<feedVars, decided, consumerVars>>

-----------------------------------------------------------------------------
(* The consumer.                                                           *)

Current ==
  /\ polling
  /\ opened # NoGame
  /\ told' = opened
  /\ held' = IF held = NoGame THEN opened ELSE held
  /\ polling' = FALSE
  /\ UNCHANGED <<feedVars, runnerVars, received>>

(* drain: what the batch hands over is gone from the buffer.               *)
Drained(buffer) ==
  [buffer EXCEPT !.decisions = <<>>, !.completion = FALSE, !.failure = FALSE, !.coalesced = 0]

WithBatch(r, buffer) ==
  [decisions  |-> r.decisions \o buffer.decisions,
   completion |-> r.completion \/ buffer.completion,
   failure    |-> r.failure \/ buffer.failure,
   coalesced  |-> r.coalesced + buffer.coalesced]

Drain ==
  /\ ~polling
  /\ received' = [received EXCEPT ![held] = WithBatch(@, buffers[held])]
  /\ buffers' = [buffers EXCEPT ![held] = Drained(@)]
  /\ held' = told
  /\ polling' = TRUE
  /\ UNCHANGED <<opened, attached, told, runnerVars>>

(* detach of the feed reaches the current buffer, and every later one.     *)
DetachCurrent ==
  /\ attached' = FALSE
  /\ buffers' = IF opened = NoGame THEN buffers
                ELSE [buffers EXCEPT ![opened] = [Drained(@) EXCEPT !.attached = FALSE]]

Detach ==
  /\ DetachCurrent
  /\ UNCHANGED <<opened, runnerVars, consumerVars>>

-----------------------------------------------------------------------------
EventLoop == \/ OpenGame \/ PublishDecision \/ PublishCompletion \/ PublishFailure
             \/ Cancelled \/ Stop
Consumer == Current \/ Drain

Next == EventLoop \/ Consumer \/ Detach

Spec == Init /\ [][Next]_vars

-----------------------------------------------------------------------------
Terminal(r) == r.completion \/ r.failure

(* A consumer that keeps to the docstring's rule lets go of a game only    *)
(* after it has received how that game ended.                              *)
NoTerminalMissed ==
  [][held' # held /\ held # NoGame /\ attached => Terminal(received'[held])]_vars

(* No game is shown both as completed and as failed, in whatever batches.  *)
OneTerminal ==
  \A g \in Games : ~ /\ received[g].completion \/ buffers[g].completion
                     /\ received[g].failure \/ buffers[g].failure

(* While attached, every published decision was received, waits in the     *)
(* buffer or is counted as coalesced, in order, and the newest is there.   *)
DecisionsAccounted ==
  attached => \A g \in Games :
    LET seen == received[g].decisions \o buffers[g].decisions IN
    /\ Len(seen) + received[g].coalesced + buffers[g].coalesced = decided[g]
    /\ \A i, j \in 1..Len(seen) : i < j => seen[i] < seen[j]
    /\ decided[g] > 0 => seen # <<>> /\ seen[Len(seen)] = decided[g]
=============================================================================
