# TLA+ models of lisjong-arena

Arena runs Mahjong policies: one ranked game after another against the RiichiLab server, unattended
on AWS instances, local games on RiichiEnv, and evaluations of hundreds of hanchan on process pools
whose seeds come from a registry. This directory models the parts of it where several actors meet
(tasks of an event loop, worker threads and processes, shell scripts, systemd, workflow runs,
publishers that may crash), checks them with TLC on small instances, and proves their safety
properties with TLAPS for every value of the constants.

Paths below are relative to `src/lisjong_arena/` unless they start with `scripts/`, `.github/` or
`docs/`.
`PROJECT.json` maps every definition to the lines it models, and lists components, runs, mutants,
hazards, findings and theorems.

    tlc -workers 2 -config SessionDriver_hostile.cfg MCSessionDriver
    tlapm SessionDriverProofs.tla

## 1. Inventory

### 1.1 Ranked session driver (`riichilab/transport.py`, `decision_pipeline.py`, `session.py`, `adapter.py`)

*State.* `FrameReader`: a bounded buffer of received frames, the ids of late acks seen on the wire,
an overflow flag. `RankedSession`: the bound seat, accepted / sent / unanswered request ids, the
ack history, completion. `_SessionDriver`: requests waiting for the worker, the running work, the
live request. The seat adapter behind the worker: a hand reconstructed from Observation *diffs*.

*Operations.* Receive a frame; process start_game, request_action, action_ack, end_game; start,
finish and abandon a decision; send; fail; clean up.

*Interaction.* The reader and the driver are two asyncio tasks that share an `asyncio.Event`; the
decision runs in a single-thread executor; the future's callback wakes the driver.

*Hard.* A late ack overtakes the frames before it; a cutoff races the decision; a Policy may never
return; buffers fill up; a cancellation arrives at any await.

*Correct* if every accepted request is answered or recorded as unanswered, exactly once; no answer
is sent late; the adapter gets every Observation once, in order, from one thread; the loop never
sleeps on work; errors never turn into success; the call leaves no thread behind.

### 1.2 Continuous ranked runner (`riichilab/continuous_ranked.py`)

*State.* Counters of games, failures and rejections, the deadline, the original-game wait, the
current attempt. *Operations.* Play, watch an attempt inside the wait, back off, stop. *Interaction.*
One ranked game per attempt, `on_game_started` from inside it, the operator's stop request.
*Hard.* After a connection lost in a game the server may play on and reject the bot; the wait for
that game has a bound, and start_game may arrive at the same moment as the bound.
*Correct* if that game is awaited and its rejections cost no failure budget, a started game is never
cut short, bounds hold, and nothing is left running.

### 1.3 One ranked game and its presentation (`riichilab/ranked.py`, `live_presentation.py`)

*State.* A bounded buffer per game (decisions, one completion, one failure, a count of coalesced
decisions) and the feed's current game. *Interaction.* The event loop publishes, a viewer thread
polls, drains and detaches; each method holds a lock. *Hard.* The switch from one game to the next
between two calls of the viewer; a full buffer. *Correct* if the viewer learns how each game it was
told of ended, never both ways, and no decision vanishes uncounted.

### 1.4 Durable seed checkpoint (`durable_seed_checkpoint.py`)

*State.* A directory of artifacts and receipts. *Operations.* Publish (sync a temporary file, link
it, sync the directory; first the artifact, then the receipt), read, verify a set. *Hard.* A crash
between any two steps, two publishers of one seed. *Correct* if a receipt that can be seen can be
read back with the artifact it binds, and a call that has returned is never undone.

### 1.5 Seed registry (`seed_registry.py`, `measurement_allocation_guard.py`, `.github/workflows/seed-registry.yml`, `ci.yml`)

*State.* The bootstrap ledger on `main`, the live ledger on `seed-registry`, the copies of workflow
runs, the snapshots of jobs. *Operations.* Reserve, commit, retire, validate, push; authorize a
job. *Hard.* Every actor works on a copy: runs that overlap, pull requests checked against an older
main, jobs with old snapshots. *Correct* if no seed is played for two populations of one domain,
history under quarantine is never reused, and nothing recorded is undone.

### 1.6 Durable ranked game record (`riichilab/durable_ranked_game_record.py`, `trace.py`)

*State.* The trace, one line per frame received and answer sent; a staging directory; the published
directory with trace, result and manifest. *Operations.* Acquire (play a game and save it), stage,
load back, publish, load. *Interaction.* The driver calls the trace writer from inside its loop; the
loader reads the lines again and must come to what the driver returned. *Hard.* Cutoffs, late acks
and the end of a game fall in any order, and the loader fails at the first line that does not fit;
it parses every request, also one that the session took for its id and dropped unread at end_game;
three renames without a transaction. *Correct* if the trace of a completed game tells what was played
and the loader refuses one only for what nobody could notice or settle while it was played, a game
with a request nobody settled is refused, and what loads is a game played to its end.

### 1.7 Learning formal event (`learning_candidate_engine_aabb/runner.py`, `parallel.py`, `limits.py`)

*State.* A locked schedule of hanchan, a pool of worker processes, the results collected so far, a
buffer that puts them into schedule order, the staged raw record, the three published artifacts.
*Operations.* Submit, collect, verify, append, publish, take back, stop. *Interaction.* The pool plays
one hanchan per process; one process that dies breaks the pool, one that does not exit holds its
shutdown; the event itself is a stage of the watchdog. *Hard.* Completion in any order, a slow hanchan that holds back all after it, limits that
strike anywhere, a rename that fails after others have succeeded, a kill at any point and a second
execution of the lock. *Correct* if the record is the schedule in its order, nothing but a whole
schedule is published, a published result is final, and no hanchan can hold the event.

### 1.8 Stage watchdog (`scripts/aws/learning-573-watchdog.py`)

*State.* Its barrier files (command-done, release), its record, the systemd scope of the stage's name,
what it knows of the scope. *Operations.* Start the command behind a barrier in the scope, poll, read
the final memory peak, release, stop at a limit, write the record. *Interaction.* systemd and the kernel
act on the scope at any time; the barrier process and the watchdog talk through files. *Hard.* A scope,
a barrier file or a record may be those of another watchdog; the peak can only be read while the scope
still exists; either side may die. *Correct* if exit code 0 is always verified, and everything ends.

### 1.9 AWS run of several bots (`scripts/aws/bootstrap-riichilab-12h.sh`, `stop-riichilab.ps1`, `start-riichilab-12h.ps1`, `collect-riichilab-12h.ps1`, `riichilab/aws_instance_run.py`, `aws_run_verify.py`)

*State.* One runner (1.2) per bot, a stop file whose content says who asked first, the exits that the
supervisor has collected, the verdict, three ways to switch the instance off. *Interaction.* The bots
poll the stop file; the supervisor writes it when the first bot exits; the operator writes it through a
command of its own; the collector acts on the status of the bootstrap command. *Hard.* Two writers of
one file, a failure of one bot beside the orderly stop of the others, a power-off beside a game.
*Correct* if a PASS names the true first cause, no orderly shutdown cuts a game, and one exit brings
the whole run to its end.

### 1.10 Parts that are not modelled

| Part | Why |
| --- | --- |
| `riichienv/adapter/` | `SessionDriver` shows that the adapter gets every Observation once and in order; what it does with one translates game rules between two libraries |
| `riichilab/possible_action_validation.py` | pure shape checks of one response |
| `riichilab/transport_timing.py`, `transport_diagnostics.py` | observers of the driver that decide nothing; the facts the runner uses are in `ContinuousRanked` |
| `riichienv/local_game_runner.py`, `round_result.py`, `round_stats.py` | sequential; `round_result` is a candidate for operators with a reference definition |
| `_parallel_execution.py` | the older executor: it gathers all outcomes and sorts them at the end; `FormalEvent` models the one that reorders as it goes |
| `_artifact_io.py`, `durable_local_game_record.py` | one new file; the same staged save as `GameRecord` without a server |
| `sequential_paired_evaluation.py`, `strength_evaluation.py` | one sequential process; what decides is floating-point statistics |
| `strength_loop_guard.py`, `strength_loop_seeds.py` | candidate: the budget that outstanding runs reserve |
| `wait_shape_qualification/pilot.py` | a client of `SeedCheckpoint`; candidate for a composition |
| `aws_operational_calibration.py`, `aws_execution_*.py`, `riichilab/aws_backend.py` | reports over finished executions, documents assembled from describe calls |
| `riichilab/profile.py`, `cli.py`, `secret_contract.py`, `validation.py` | no state of their own |
| `phase*`, `stage*`, `learned_policy_*`, `heuristic_candidate_*`, corpora, Mortal comparisons | research code, most of the repository by volume: sequential computations over finished data, frozen once their issue is closed |

## 2. The modules

| Module | Models | Extends / composes |
| --- | --- | --- |
| `SessionDriver` | 1.1, one action per handler and per await | |
| `RequestLifecycle` | what 1.1 promises of requests (abstract) | |
| `SessionProperties` | properties of 1.1, refinement mapping, inductive invariants | `SessionDriver`, instance of `RequestLifecycle` |
| `MCSessionDriver` | server frames for TLC | `SessionProperties` |
| `GameRecord` | 1.6, the driver composed with its record | `SessionProperties` |
| `MCGameRecord` | server frames for TLC | `GameRecord` |
| `ContinuousRanked` | 1.2 | instance of `BotContract` |
| `BotContract` | what 1.2 promises to 1.9 (abstract) | |
| `InstanceRun` | 1.9: bots, supervisor, operator, power | built on `BotContract` |
| `PresentationFeed` | 1.3: the event loop, the feed, the viewer | |
| `CheckpointLedger` | what 1.4 promises (abstract) | |
| `SeedCheckpoint` | 1.4 over a file system that may crash | instance of `CheckpointLedger` |
| `SeedAuthority`, `MCSeedAuthority` | 1.5 | |
| `FormalEvent` | 1.7 | instance of `EventContract` |
| `EventContract` | what 1.7 promises to 1.8 (abstract) | |
| `StageWatchdog` | 1.8 around any event that keeps its contract | `EventContract` |
| `SessionDriverProofs` | section 4, driver and record | `GameRecord` |
| `ContinuousRankedProofs`, `InstanceRunProofs`, `PresentationFeedProofs`, `SeedCheckpointProofs`, `SeedAuthorityProofs`, `FormalEventProofs`, `StageWatchdogProofs` | section 4 | the module of their name |

Two chains compose by contract: a detailed model is proved to implement what it promises, and the
next one is built on the promise alone. `ContinuousRanked` implements `BotContract`, whose operators
are the guards of the bots of `InstanceRun`; `FormalEvent` implements `EventContract`, whose actions are
the steps of the event inside `StageWatchdog`. Both ends are proved: the bots of a run and the event of
a stage keep their contracts too, whatever the rest of the run or of the stage does
(`BotsKeepContractCorrect`, `EventKeepsContract`). `GameRecord` composes by extension: its `Play` is the
driver's own step with the line of the trace it writes.

Operators named `Bug...` are not part of a model. Each is a plausible bug of the definition after
it; put in its place, it makes TLC report the property it belongs to (`PROJECT.json`, `mutants`).

### How state and actions correspond to the code

`SessionDriver`. `pc` is the await the driver is in: `run` is code between awaits (atomic for the
other tasks), `wait` is `wait_for_notification`, `sending` is `transport.send`, `joining` the await of
the worker after end_game, `cleanup` the `finally` of `run()`. The reader acts only while the driver
is suspended. The guards of `_drive` appear in their order: overflow, finished work, queued work, a
live request that can no longer be answered, a frame. A worker is a record with the state of its
future, and the done callback is a step of its own, because a future is done before its callback
has run. Time is the set `expired` of requests whose cutoff has passed: the windows of two requests
are unrelated, so any order is possible. The session's own guards (`mark_request_unanswered`,
`complete_request_action`) raise in the model too, with outcome `internal`; a line of the trace that
cannot be written ends the call at the frame or answer it was for.

`GameRecord`. The loader is a fold over the lines of the trace that fails at the first misfit, so the
model keeps `correlated`, the fold's value so far, and no trace. `TraceReceived` stands where the driver
writes the line of a frame (before the session sees it), `TraceSent` where `_send` writes that of an
answer (before the transport is asked to send). What a frame holds is decided as it is traced:
`unreadable` are the requests that the canonical parser refuses or whose Observation is of another seat,
`nonFinite` says that a line holds NaN or Infinity (`json.loads` takes them, `parse_json_text` of the
loader does not). The session asks for neither; the adapter reads a request when it applies it, so the
worker returns only for a readable one (`Work`), and the loader reads all of them (`LinesParse`,
`RequestsParse`; the latter also stands for the checks of `_correlate_trace` at 757-765, which the parser
repeats). The history of the acks of a request is kept as a set: session and loader append the same acks
in the same order, and nothing depends on it. `Stage` is the load that precedes publication: lines,
agreement with the result, requests, coverage; `MakeDirectory` and `Rename` publish, the manifest last;
`PublishFails` and `Die` are an error and a death between two of these.

`ContinuousRanked`. `attempt` is the task of one game and its result; `started` is its in-game phase.
`orphan` is the server's: a game that goes on without its client, `announced` if its start_game had
been processed. Timers count down; they never fire early and may be served late.
`ResumeWait` is a step of its own after the wait may return: the race of 1.2 is in between.

`InstanceRun`. `stopFile` is the content of the file the bots poll: created once (noclobber), by the
supervisor in one step with its source, by the operator's shell in two (`CreateStopFile`,
`WriteStopFile`), so that an empty file can be seen in between. `bootstrap` is how far the script came
before its bots run: while it parses its arguments nothing is armed, from the claim of the work root
its `on_exit` arms the teardown if it can. `reaped` are the bots whose exit the supervisor has collected
(`wait -n`, any order). `Verify` is `verify_instance_run` with the exit of the script: its verdict, and
`ssm`, the status of the command that the collector reads. `power` is what switched the instance off:
the teardown timer, the cost fail-safe, the collector. There is no clock: a timer that is armed may
fire at any later time.

`FormalEvent`. A hanchan is its index, and so is its row. `future` is the state of its future in the
parent; `nextIndex`, `firstUnfinished` and `finished` are the window of `stream_parallel_tasks`;
`ready` is what one `wait` returned, `buffer` and `rows` are `_CanonicalSink`. `pc` names the places
between which the parent looks at a limit, waits or appends a row; limits and deadlines are choices at
those places (`CheckFails`, `OutOfTime`). `Join` is `pool.shutdown(wait=True)` after the last result: the
exit of every worker process, awaited without a timeout. `Rerun` executes the lock again over what an earlier
execution has left at the destinations.

`StageWatchdog`. Each invocation has a watchdog (`dog`, one place per step of its poll loop) and the
process it started (`proc`, the command and then `_execute_barrier` behind it). `unit`, `done`, `release`
and `record` belong to the stage and are shared by all its invocations, because their names are.
`ScopeLimit` is systemd or the kernel; `Die` and `Reboot` end processes and leave files.

`SeedCheckpoint`. `directory` is what processes see, `synced` is what a crash leaves. `WriteBack` lets
the kernel make any entry durable at any time. The name of the file's writer stands for its content.

`PresentationFeed`. The viewer is outside the repository; it follows the rule of the docstring of
`ContinuousRankedPresentationFeed`: look at `current()`, drain the buffer in hand, then switch.

`SeedAuthority`. A ledger maps every allocation there could be to its state, `free` without a row. A
run checks out main, fetches the branch (and starts from the bootstrap whenever `ls-remote` fails, branch or
no branch), applies one operation and pushes; a push is refused if the
branch is not what was fetched. `Migrate`, `MergePullRequest` and `Launch` are people.

## 3. Runs

| Run | Module | Distinct states | Question |
| --- | --- | --- | --- |
| `hostile` | `MCSessionDriver` | 958 227 | does any order of any frames break the request lifecycle, or complete a game on part of its stream? |
| `game` | `MCSessionDriver` | 999 698 | do three requests that queue behind a slow Policy reach the adapter in order, with no lost wake-up? |
| `live` | `MCSessionDriver` | 295 149 | does a cutoff free the loop, and does the call return? |
| `outlive` | `MCSessionDriver` | violation | is the worker always awaited after end_game? |
| `game_record` | `MCGameRecord` | 2 417 829 | for what is a completed game lost to its trace, and what does a record that loads vouch for? |
| `ranked` | `ContinuousRanked` | 43 314 | is the original game awaited, are rejections free, does the run end, does the runner keep its contract? |
| `instance_run` | `InstanceRun` | 225 879 | does a PASS name the true cause, is a game ever cut, does one exit end the run? |
| `presentation` | `PresentationFeed` | 240 294 | what does a viewer miss? |
| `seed_checkpoint` | `SeedCheckpoint` | 12 032 | what does a crash take? |
| `seed_authority` | `MCSeedAuthority` | 127 908 | can copies of a ledger let a seed be played twice? |
| `formal_event` | `FormalEvent` | 16 511 | does completion order, a kill or a failed rename show in what is published, and what can hold the event? |
| `stage` | `StageWatchdog` | 163 743 | is exit code 0 always verified, and does everything end? |

The cfg of a run has the name of its module without `MC`, those of the driver `SessionDriver_<run>`.

### Bounds, and why they are enough

* `hostile`: two request ids, two seats, both buffers of one, every frame at any time, in any number
  (the server's frames are not counted). Two requests are what a pair of "old and new" needs, a
  second seat the start_game that contradicts the first, and buffers of one fill at once. One late
  status (`stale`) stands for both: the code treats them alike. The trace writer may raise at any line.
* `game`: three ids and buffers of two, without local cutoffs, so that two requests queue behind the
  one the Policy is busy with; two are needed for an order among them.
* `live`, `outlive`: two ids are enough for a request, its successor and the end.
* `game_record`: two ids, one seat, buffers of one, every request with a time budget and of any content,
  the acks `accepted` and `defaulted`: a request is answered in time, late, or not at all, and each of these
  is contradicted or confirmed by the server. For the loader `stale` is another `accepted`, a status
  that speaks of a reply; what the driver makes of it is in `hostile`. A second seat and untimed requests are in `hostile`.
* `ranked`: with and without a target of two games and with and without a deadline of nine ticks; a
  budget of three and a backoff of two, four and five ticks let it double and reach its cap; a wait
  of seven is longer than a backoff and not a multiple of it, so wait and deadline both cut a sleep,
  down to one tick and to nothing. Rejections are bounded by the wait: each is followed by a sleep.
* `instance_run`: two bots, so that one exits, fails or reaches its duration while the other is in a
  game. The proofs need no such bound.
* `presentation`: three games (the one in hand, the one told of, one more), three decisions in
  buffers of two, so a buffer overflows.
* `seed_checkpoint`: three calls of any of two seeds: two may collide while a third makes the
  directory sync of another write back its entries.
* `seed_authority`: two populations of one domain that share a seed, quarantined history that shares
  one with a population, two runs that race, one job whose snapshot is used and reset, so it stands
  for any number of jobs in sequence; what is played is remembered. The proofs need no such bound.
* `formal_event`: eight hanchan, three workers, a window of four: one slow hanchan lets three others
  be delivered past it, until the window, not the pool, holds the parent back, and there are enough
  left for that to happen twice. The number of executions of the lock is not bounded.
* `stage`: two watchdogs of one stage, at the same time or one after the other; each can find what the
  other left. The proof of `ZeroIsVerified` needs no such bound.

`CHECK_DEADLOCK FALSE` throughout: a game, a run, a publisher, a viewer, an event and a stage all end.

### Fairness

* `SessionDriver!FairSpec`: the event loop schedules the driver and the done callbacks, time passes,
  and `send()` returns or fails (the websocket keepalive closes a dead connection). There is **no**
  fairness for the server, and none for the Policy: `CutoffFreesTheLoop` holds although it may never
  return. `StreamEndReturns` says what it needs, `WF_vars(Worker)`, in the property itself.
* `ContinuousRanked!FairSpec`: the loop is scheduled, time passes, and a cancelled attempt ends (its
  driver returns, see above). None for the server. `StopEnds` assumes in the property itself that
  every attempt ends: the code has no timeout for an attempt outside the wait (hazard at
  `continuous_ranked.py:754`). Its second half says that a run also ends when no game starts any more:
  rejections outside the wait use up the budget, and the wait that spares them ends.
* `InstanceRun!FairSpec`: the shell of the bootstrap goes on (claim, start, reap, verify), so does the
  operator's once it has been sent, and an armed timer fires. `StopSpreads` assumes in the property
  itself that attempts end and that a bot between two games looks at the stop file.
* `FormalEvent!FairSpec`: the parent, without `Join`. Its wait for a result has a timeout, so no hung
  worker holds it there: the pool is killed. `pool.shutdown(wait=True)` (`parallel.py:224`) has none.
  `EventEnds` says both: the event ends *or* comes to that shutdown with every hanchan in its record, and it
  ends if the workers exit (`WF_vars(Join)`, in the property itself). Otherwise it is ended from outside, by
  the `RuntimeMaxSec` of its scope.
* `StageWatchdog!StageSpec`: the watchdog and the barrier are scheduled, and systemd keeps
  `RuntimeMaxSec`. The event inside owes nothing.

### The violation

`outlive` (finding in `PROJECT.json`): the docstring of `drive_session` and the comment of its clean-up
say that a running worker is awaited before the call returns. `run()` resets `_running` *before* it
awaits the worker's future after end_game; a cancellation delivered at that await finds nothing left
to await in the `finally`, and `executor.shutdown(wait=False)` lets the thread live on. The property
that does hold is `WorkerEnds`: it excepts calls whose await for the worker was itself cancelled.

## 4. What is proved

All theorems are `Spec => []Inv`, `Spec => [][A]_vars` or a refinement, from the named assumptions
on the constants alone (ids are integers, `None` is not an id, buffers have room for one; seeds of an
allocation are not empty; a call is not "no file"; a bot is no other content of the stop file; the
window is at least as wide as the pool; buffers of the feed and all bounds of the runner are positive),
and `TLC` evaluates these assumptions in the runs. Every invariant and every action property of every
passing run is proved, and so are its refinements; liveness is not.

**`SessionDriverProofs`.** `TypeCorrect`, then `SafetyCorrect` for
`SafetyInv == TypeOK /\ OpenRequestInv /\ OrderInv /\ PhaseInv /\ WorkerInv`. `EveryRequestSettled` is not
inductive by itself: that a newer request finds every older one settled follows only from "an open
request is the newest one and is live" (`OpenRequestInv`), that the newest one has the largest id
(`OrderInv`), and that no frame is processed while a request is live. `PhaseInv` ties the outcome to
where the driver is, `WorkerInv` the state of the future to `running`, the join and an interruption.
From them: `NoInternalErrorCorrect`, `EveryRequestSettledCorrect`, `FailsClosedCorrect`,
`WorkerEndsCorrect`, `SingleWorkerCorrect`, and `LifecycleCorrect`: every step of
the driver is a step of `RequestLifecycle` or a stutter.

`WorkOrderInv` orders the work: `queued` is sorted, disjoint from what is applied, and behind what
runs. `NothingSkippedCorrect` and `AdapterInOrderCorrect` follow from it; `LiveHasWorkCorrect` and
`NoLostWakeupCorrect` are inductions of their own beside it. `LateAckEvidence` needs `LateAckInv`: a late
ack the reader has noted is in the history or still in the buffer, unless the game has failed.
`WholeStreamUsedCorrect` rests on that and on `StreamInv`: end_game, a failure of `recv()` and an overflow
are the last thing the reader reports, so nothing is behind the end_game that completes a game, and what it
noted early has been processed.

**`SessionDriverProofs`, the record.** A step of the record is a step of the driver or leaves it alone (`RecordStep`), so
every theorem about the driver holds here too (`RecordedDriver`). `MirrorInv` says that the fold over the trace equals the state of the
session as long as the game has not failed; each frame and each answer keeps it (`FrameMirrored`,
`ResponseMirrored`), which is where the guards of the session and those of the loader are compared.
`ContentInv` says that whatever the adapter has applied could be parsed; with it a request of a completed game
that the loader cannot parse was given up and never read (`CompletedGame`).
`SaveInv` ties the save to a completed game that the loader accepted, the manifest last. `TraceTellsTheGameCorrect`,
`RefusedForCauseCorrect` and `LoadableIsConfirmedCorrect` follow, and `LoadableIsFinal`: once a
record loads, neither a leftover step of the driver nor the save changes it or the game it tells.

**`ContinuousRankedProofs`.** `RunnerInv` adds to `OrphanIsAwaited`, `StartedGamePlaysOn` (whose second
half, that a runner in its wait has no started game, carries the first) and `NothingLeftRunning` that
where the runner is fixes what its attempt can be (`RunnerPhase`). `OrphanSparesBudgetCorrect` is an
action property from it. `KeepsContractCorrect`, the refinement of `BotContract`, also needs that a
sleep that is followed by no retry was cut at the deadline and runs out with it (`DeadlineInv`).

`BoundsInv` is about numbers: a run that plays has not reached its target, one that has not ended has
budget left, and no sleep outlasts the deadline, the wait or the largest backoff
(`SleepsWithinBounds`; it is inductive because nothing moves one of these closer during a sleep
without moving the end of the sleep with it). The backoff doubles, `2^(n - 1)`; that such a power is a positive
integer would take an induction the provers cannot instantiate, so it is had from the library's theorem that
an interval of length `n` has `2^n` subsets (`PowerOfTwo`). `TypeCorrect`, `SleepsWithinBoundsCorrect` and `NoHotRetryCorrect` (no
failed attempt is retried without a sleep, whatever cuts the backoff) follow. `WaitNeverExtendedCorrect` is
the safety half of `WaitEnds`: while the original game is awaited nothing moves the bound away, because
only an attempt that had started a game could (`WaitInv`).

**`PresentationFeedProofs`.** `FeedInv`: what the viewer holds is what it was told of until it is told of
a later game (`HandInv`); a game that has not ended has no terminal fact anywhere, one that has ended has
one, in its buffer or received, as long as the feed is attached (`TerminalInv`); a game not yet opened has
no decisions (`OpenInv`). For `DecisionsAccounted` the received and the buffered decisions of a game are one
sequence, sorted and with the newest at its end; publishing appends to it or counts the oldest of the
buffer as coalesced, and a drain moves the border between the two parts. `OneTerminalCorrect`,
`DecisionsAccountedCorrect` and the action property `NoTerminalMissedCorrect` follow, for any capacity and
any number of games and decisions.

**`InstanceRunProofs`.** `InstanceInv`: without a stop file nothing has been reaped and no bot has stopped
for it, and a bot named in it was reaped and did not exit for a stop request itself (`StopInv`); an empty
file has its operator still writing (`WriterInv`); a verdict means that all are reaped and the command
has ended, and only an ended command arms the teardown or lets the collector act (`EndInv`). `PassIsAttributedCorrect` and
`GamesAreSparedCorrect` follow. `BotsKeepContractCorrect` is a refinement for each bot, with the existence
of the stop file as its stop request; it needs that the file, once there, stays (`StopStays`).

**`SeedCheckpointProofs`.** `CheckpointInv`: synced entries exist; a visible receipt has a *synced*
artifact of the same call, and so has a call that has begun its receipt; a call that has returned
has its receipt synced. `ReceiptsAreReadableCorrect`, `CheckpointSurvivesCorrect` and the refinement
`LedgerCorrect` follow.

**`SeedAuthorityProofs`.** `AuthorityInv`: the live ledger is valid and keeps the quarantine; a run
that has loaded carries a legal successor of what it fetched, so that a fast-forward push is a legal
successor of the branch; every snapshot is a past authority, and what was played has a row. Rows
are never freed, so two overlapping populations can never both have had one.

**`FormalEventProofs`.** `EventInv`: the futures agree with the window (`PoolInv`), every hanchan taken from
the pool is in `rows` or `buffer` and in one of them only (`SinkInv`), what is buffered lies between the
first unfinished hanchan and the window (`WindowInv`), and a publication is of a complete record
(`PublishInv`). The bound of `ReorderBounded` is a cardinality argument over that interval.
`ResultIsWholeCorrect`, `ReorderBoundedCorrect`, and `KeepsContractCorrect`, the refinement of
`EventContract`: a re-execution over published artifacts is refused before it plays. Hence
`PublishedIsFinal`: no rerun, failed rename or kill takes back anything of a whole publication or submits
another hanchan. `NeverStuckCorrect` is the safety half of `EventEnds`: the parent never waits with nothing
pending, and among collected results there is a first one to deliver (`LeastOf`, from the
well-foundedness of the naturals).

**`StageWatchdogProofs`.** `StageInv`: a process leaves with code 0 only after a release and a whole
publication; if a watchdog has read its final peak before its own command had ended, the barrier file was
another's and its own process fails at it; if it has read it after its process had gone, the barrier was
gone too and the watchdog stops; a record with code 0 is of a watchdog that was not stopped. `ZeroIsVerifiedCorrect` for any number of invocations. `EventKeepsContract`: every step
of a stage, a kill by systemd or a reboot included, is a step of `EventContract` or none of the event, so
`WholeIsFinal`: an event that has published everything is never played again. `OneInScopeCorrect`: the name of
the scope is the lock of the stage, so no two invocations ever have a process in it, and the event runs
nowhere else (an induction beside `StageInv`).

### Model-checked only, and proved only

* Liveness (`CutoffFreesTheLoop`, `StreamEndReturns`, `WaitEnds`, `StopEnds`, `StopSpreads`, `EventEnds`,
  `StageEnds`): beyond the prover, which knows neither fairness nor ENABLED. Their safety halves are
  proved where they say something: `LiveHasWork` and `NoLostWakeup` for the driver,
  `WaitNeverExtended` for the wait, `NeverStuck` for the event.
* `SingleWorker`, `NothingLeftRunning`, `NeverRegresses`, `SleepsWithinBounds`, `NoHotRetry`, `WaitNeverExtended`,
  `NeverStuck`, `OneInScope` and `BotsKeepContract` go the other way: they are proved and belong to no run.

## 5. What the models leave out

* Session: the validation session and the handshake of the connection; a request whose Observation
  the adapter finds inconsistent is a worker that raises.
* Record: digests, provenance, payloads, records of schema v1. A file that has been renamed is
  complete; leftovers of staging directories have no reader. The docstrings of `_correlate_trace` (688) and
  `_validate_recorded_request_actions` (894) say that session and adapter already enforce what they check.
  That is not so for a request still queued at end_game, which is dropped unparsed, nor for a number
  that is none: such a game completes and its record is refused. The model has both, and
  `RefusedForCause` names them.
* Runner: the command line and the evidence writer, whose failures end a run like any error the
  runner does not catch (`Raise`).
* Instance: provisioning, secrets, the collection of artifacts; of `verify_run` what it checks of a
  record, beyond that there is one.
* Checkpoint: content of the temporary file is durable before the link (the code syncs it first), so
  a visible file is complete; leftovers of temporary files have no reader; the directory itself is
  taken to be durable (it is created, and its own entry in the parent is never synced).
* Authority: records' immutable fields beside domain and membership (they never change once
  written), timestamps, serialization. Workflow runs overlap in the model although the concurrency
  group serializes them, because the comment at the push relies on the push alone. The migration
  by hand is taken to pass `validate-branch`. `QuarantineHolds` speaks of history that is in the authority: a
  row that is new on main, or waits there for its migration, does not keep a run from reserving its
  seeds (hazard at `seed-registry.yml:116`). Jobs use the general contract
  (`require_allocation_binding`, any active state); the guard of the measurement scripts insists on
  RESERVED, which only refuses more. That one allocation is played by one job only is nobody's
  promise in this code.
* Event: the serial path (`run_tasks`, one process at a time), the contents of a hanchan, the second layer of the record, which may be dropped without
  stopping the event.
* Stage: sizes and clocks behind a limit are choices; `init`, which only writes the start record.
  "A stage never runs twice" (docstring, line 23) is kept by the record, which is written at the end:
  after a watchdog has died, or the machine was rebooted, before its command had ended, a later
  invocation starts the stage again (line 180). The model allows that; `ZeroIsVerified` holds all the
  same, and `EventContract` refuses to play an event again that has published anything.

## 6. What is left

1. `MaterializedState`: events of a batch, calls, riichi and its acceptance, chankan; property: a
   refused batch is noticed by the caller before the tracker is used again.
2. `StrengthLoopGuard`: outstanding runs reserve their estimate; what two starts on one snapshot can
   overrun. `SequentialLooks`: predeclared looks, stop once, readback of a result.
3. The wait-shape pilot over `CheckpointLedger`: its aggregation sees exactly the published seeds.
4. Safety halves of `StageEnds` and `StopSpreads`, as `NeverStuck` is one of `EventEnds`.
