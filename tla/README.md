# Verification of the OpenTTD reinforcement-learning environments

This directory models the parts of the repository in which several actors share
state and in which a failure in the middle of something has consequences: the
process that plays OpenTTD for a policy (two generations of it), the clients
that drive that process over pipes, the server that lets a tool-calling player
meet a neural one in one game, the training drivers and campaigns that must
survive being interrupted, and the evaluations that may be run only once. The
TLA+ modules are checked by TLC on small instances; every safety property that a
passing run checks is also proved by TLAPS for every value of the constants.

Contents: [inventory](#inventory), [modules](#modules), [runs](#runs),
[fairness](#fairness), [proofs](#proofs), [findings](#findings),
[limits](#limits), [plan](#plan).

## Inventory

Sources are named relative to `src/`. `P` stands for
`integration/openttd/patches/15.3`.

| part | state it keeps | operations | what makes it hard | what makes it correct |
|---|---|---|---|---|
| native live bridge, `integration/dev/rl_v2_live.inc` | expected request id, decisions, pending action, terminal, trace file, tensor files, saves, result file | OBSERVE, TENSORS, ACT, STEP, CHECKPOINT, CLOSE | two companies behind one pipe, engine commands that fail half-way, two 60 s timers, a client that stops reading | one command per decision, in turn order, each row continuing the one before, a token spent once, always an end |
| live client, `scripts/dev/live_v2.py` | request id, the pipe's position, `requests.jsonl` | request, close, abort | late answers, torn frames, a log that fails, full pipes, either process dying | an answer belongs to its call, an identity to one call; the log accounts for effects; a clean close means a result; every call returns |
| policy client, `scripts/dev/infer_v2.py` | a line-oriented child process | request, close, abort | answers without identity, 60 s timeout | a late answer is never used |
| shared match server, `scripts/dev/mcp_v2.py` | decisions, current company, pending, finished, `run.json`, `summary.json`, neural log, archives | start, observe, legal/region pages, act, step, wait, close | its bookkeeping mirrors the native game's across failures; the neural turn runs inside the player's tool call; files written in several steps | the mirror agrees, the record says completed only for a whole match, nothing is asked out of turn |
| synchronized worker (V1), patches `P/m03` to `P/m09` | lifecycle, session, episode, last request id, ordinal, mask token, horizon | RESET, QUERY_SNAPSHOT, OBSERVE, LEGAL_ACTIONS, STEP, PAUSE, RESUME, CLOSE | stale, repeated and skipped requests, failures at each stage of a step | a step runs once, at the boundary and with the mask its client was shown; a failed worker can still be closed |
| bus action adapter (V1), `P/m05/0006` | selected towns, connector, stops, depot, buses and their orders | the action registry | `ASSIGN_ROUTE` is several engine commands with a rollback | a route is whole or absent; a rejected action changes nothing |
| V2 training, `scripts/dev/train_v2.py`, `training/dev/v2_live_train.cpp`, `scripts/dev/checkpoint_v2.py` | run record, current game, cached frame; rollout, recurrent state, random streams, parameters; checkpoint directories | decide, reward, update, probe, checkpoint, persist, finish, resume | games and rollouts drift against each other; a crash between any two files; resumption must repeat exactly | a decision repeated after a resumption is the same decision; a listed checkpoint is whole; budget and early stop hold across segments |
| V1 episode controller and bundles, `scripts/v1/run_m06_reward_trajectory.py`, `m06_trajectory.py`, `m03_bridge_protocol.py` | records, observation blobs, the directory being written | add, write, load, resume | a refused transition half added; publication by rename; several builders, one directory | a published bundle is whole, bounded, never overwritten, and loads |
| V1 rollout and trainer service, `scripts/v1/run_m07_cpu_ppo.py`, `training/v1/src/service.cpp`, `trainer.cpp`, `checkpoint.cpp` | environments, replacements, pipe descriptors; trainer counters, random streams; checkpoints, candidates | evaluate, act, step each worker, record, replace, update, checkpoint, select, reload | several workers, one of which fails; replacements not yet in the list; descriptor numbers used again; an update that throws half-way | samples are trained once, as they were played; a published checkpoint is what it says; every process ends |
| V1 live checkpoints, `scripts/dev/live_checkpoint.py` | as V2, over several workers | save when every worker is at a reset, resume | early terminals desynchronize the workers | only a common reset is published |
| V2 campaign, `training/v2/src/m22_campaign.cpp`, `m22_checkpoint.cpp`, with `scripts/v2/run_m22_recovery.py` and `run_m22_training.py` | curriculum stage, retention mask, four random streams, checkpoints; parsed output of each process | run_update, retention check, save, load; launch, parse, compare, select | checkpoints named by content and never overwritten; resumption from an older one; what a process printed before it died | a repeated update is the same update; nothing published has unlearned a program; a harness fails only for a cause |
| one-shot evaluations, `scripts/v2/run_m22_final_evaluation.py` and its two follow-ups, `m22_final_native.py`, `validate_m22_final_evaluation.py` | artifact root, case records, evidence file | check, claim, preflight, read, evaluate, dispatch, validate, write | two processes at once, or one after another that died; nothing but a directory keeps them apart | no manifest is read twice, no case tried twice; a report was earned by its records |
| guides, imitation, parity, export, models, studies, build | see `PROJECT.json` | | pure algorithms, file formats, floating-point code, batch programs | |

How they interact: a driver (training, match server, evaluation) owns a
`LiveV2`, which owns the OpenTTD process and both pipe ends; the driver also
owns a policy or trainer process with its own pipes. Nothing is shared but
pipes and files; a file is written by one process, and read by another only
after an answer has named it. There are no callbacks. Concurrency is therefore
between processes (each sequential), the worker threads of the MCP server
(serialised by one lock), the timers, signals, and crashes.

The 40 hazards found in this code, each at its line and with the properties
that cover it, are in `PROJECT.json`; a note says where a property covers a hazard
in part only.

## Modules

| module | models | relates to |
|---|---|---|
| `TurnGame` | what a live game promises: turns, one command each, one advance, an end | abstract specification of `LiveBridge`; the native side of `SharedMatch` |
| `LiveBridge` | `RunDevelopmentV2Live` and its frame functions under any client | implements `TurnGame` (`PlaysTurns`) |
| `LiveTransport` | `LiveV2`, composed with `LiveBridge`, which it extends | replaces "any client" |
| `LiveProofs` | theorems about `LiveBridge` and `LiveTransport` | the second keeps the invariant of the first |
| `SharedMatch` | class `Match` with its files | over `TurnGame` |
| `SharedMatchProofs` | theorems about `SharedMatch` | |
| `Environment` | what a V1 worker promises: episodes, played and committed steps, pause, failure | abstract specification of `SyncBridge` |
| `SyncBridge` | `BridgeWorker` after the m03, m04, m05, m06 and m09 patches | implements `Environment` (`RunsEnvironment`) |
| `SyncBridgeProofs` | theorems about `SyncBridge`, the refinement included | |
| `BusActions` | `NativeLegal` and `ExecuteRlAction` | the inside of `SyncBridge!Execute` |
| `TrajectoryBundle` | the bundle builder, its publication and loading, several builders | what a client of `SyncBridge` records |
| `EpisodeProofs` | theorems about `BusActions` and `TrajectoryBundle` | |
| `Rollout` | `run_m07_cpu_ppo.py` with the trainer service and its checkpoints | its workers are what `Environment` says |
| `RolloutProofs` | theorems about `Rollout` | |
| `LiveTraining` | `run`, the native trainer, `checkpoint_v2` | plays games that `TurnGame` describes, one company |
| `LiveTrainingProofs` | theorems about `LiveTraining` | |
| `Campaign` | the M22 process, its checkpoints, the recovery and the training harness | |
| `CampaignProofs` | theorems about `Campaign` | |
| `FinalEvaluation` | the final suite and its two follow-ups, any number of processes | evaluates what a campaign selected |
| `FinalEvaluationProofs` | theorems about `FinalEvaluation` | |

`PROJECT.json` maps every definition that stands for code to its lines. The
operators under a comment that begins with `Mutation:` (or `Mutant of`) are not
part of a model: each is a plausible bug of the definition that follows it, used to show that a
property can be violated.

### LiveBridge

A state is the loop's: `mode` (serving; leaving, after CLOSE or end of input;
closed, failed or killed), the expected id, the game (`decisions`, `pending`,
`action`, `terminal`, which companies still stand), the files (`trace`,
`tensors`, `saves`, `result`) and both pipes. The engine is a version number
`world`: a command that succeeds may or may not raise it, a simulated interval
always does, and a state token is a pair of company and version, since the
native token digests the state and the company. Each operation is one action
with its whole refusal order: frame, scope, turn, operation, guards. Between the
handler and the write of its answer other things may happen (the answer is in
`outbox`), because the pipe may be full. `Breakdown` are the exceptions that
leave the loop: a command or a file that fails in the middle. The client sends
anything: each operation, the expected id or the last one, any company, any
token that was ever valid.

### LiveTransport

`SessionSpec` is `LiveBridge` with this client in place of `AnyClient`. The steps of
`LiveV2.request` are actions of their own, because the other process moves between
them: the identity is counted and the request logged (`Ask`), the frame written
(`Write`), the size read, the body read and the answer logged (`ReadBody`). `skew` says
that a size was read and its body was not. The log is a file object: `events` are the
lines handed to it and `flushed` how many are on disk. Either line may fail
(`LogFails`: it is lost, or stays in the buffer for a later flush, or is already out
when the exception comes). A request whose line fails has been counted and is never
written: its number goes to `unsent`, and the native process, which still expects it,
gives up at the next call. The same happens to a number whose write breaks the pipe.
A write waits while the request pipe is full (`RequestFrames`), without a deadline.
`close` waits for the exit status and aborts in any case; aborting closes the log,
which flushes it if it can. `ClientKilled` is the death of the Python process: what was
in its buffer is lost, and the native process reads on to the end of its input.

### SharedMatch

A tool call is a sequence of native requests, each an action; `pc` is the place
in the call. The native side is `TurnGame`'s state with `process` and `wire`;
what `LiveTransport` shows is used here: after a timeout nothing is answered any
more (`wire = "late"`) although native may still do what it was asked
(`CarriedOut`); an answer whose line in `requests.jsonl` fails is lost, and the next
request is answered in order (`Unlogged`), so that a player may ask for a step that
native has taken already (`PlayerStepRefused`). The files are written in the code's order: neural log, archive,
`run.json`, `summary.json`. `Faults` says which failures may happen and `trouble`
whether one has, so that one configuration can say both what holds whatever
fails and that without a failure no call raises. `close` is
modelled between tool calls (the server's shutdown waits for them); a kill can
happen anywhere.

### SyncBridge and Environment

The worker reads a frame, refuses it in the order of the code (frame, canonical
payload, request identity, lifecycle, handle, ordinal, token), or does it. RESET
and STEP take several actions (`ResetBegins`, `ResetEnds`; `StepBegins`,
`Execute`, `Advance`, `Commit`), because each stage can fail and what a failure
leaves depends on the stage. A mask token carries the boundary and the mask it
was made of, which is what the native token digests. `doing` is the request
under way, `log` the executed actions with the mask they were legal in and the
mask their client was shown. `Environment` has no frames: under the refinement
mapping a failed commit is a step to the failed phase with one action played and
not committed, which only a close may follow.

### BusActions

Two towns, any vehicle slots (two in the code). Engine commands are external: each
does all of its work or none. `here`, `running` and `orders` are the projection
that a rejected action must not change; OpenTTD's current-order index, which the
code does not save, is not part of it. `ASSIGN_ROUTE` clears the old orders,
inserts two, and, if an insertion is refused, clears and re-inserts the old ones:
`at`, `bus`, `prior` and `restored` are its place. A refusal inside the rollback
fails the worker.

### TrajectoryBundle

A builder's `phase` is none, open or writing; records carry worker and episode
as one number, the ordinal and the observations before and after. A blob is the
observation it encodes, so that byte limits are numbers of blobs: `MaxBlobs` for
the observations, and `Spare` for what the metadata leaves of its own limit,
since `manifest` compares only the sum. `Add` does what the code does in its
order: it appends, then compares, and the exception takes nothing back; whoever
calls may go on. `write` is the making of a temporary directory, then `Rename`;
a failure or a death in between leaves nothing under the name.

### Rollout

`at` is the driver's place: the random baseline, the first environments, then
per time step `Act`, `Step` of each environment, `Predict`, `Record` with
`Replace` when an episode ended, and `Assign`; `Update`, the candidate's
evaluation, `Checkpoint`; at the end `Select` and the reloaded evaluation. A
worker process is its name, a pipe slot and its next decision. `pipes` is the
descriptor table and gives the lowest free number, so that closing a number twice
closes whoever has it now. A sample carries the episode, the decision, the draw
and the policy version it was chosen by; `Credit` is the backward recursion of
GAE over [time, environment], reduced to whose rewards an advantage holds. Every
request may raise (`WorkerFails`, `TrainerFails`, `UpdateFails`,
`CheckpointFails`), the driver may be killed, and `Held` are the workers that the
`except` blocks know of at that point.

### LiveTraining

A segment is one process run with its own directory; `Start` and `Resume` open
one, `Raised`, `Interrupted` and `Killed` end it between any two steps. In
memory: the driver's place `at`, its record, the game, the cached bootstrap
frame, the native trainer. On disk: every `run.json` as last written and every
checkpoint directory, with or without its manifest. Parameters are the sequence
of rollouts they were trained on, a random stream is its number of draws, the
recurrent state the number of decisions it has seen. The engine and the trainer
are deterministic for a seed (which `checkpoint_v2.compatibility` and
`reset_signature` require of a resumption), so how an episode ends (`fate`) and
at which probe the early stop fires (`stopAt`) are drawn once and met again.

### Campaign

The native process (`RunUpdate`, `Save`, `Announce`, `Exit`, `Refuse`), whose
output a harness parses when it has exited: `LaunchJob`, `FinishJob` with
`WellFormed` and `Accepted`, `Report`. A batch of 128 transitions is one unit, the
parameters are the sequence of batches they were trained on, and each of the four
random streams is its number of draws, so that two models are equal exactly when
they were trained alike. One program stands for those that a curriculum stage
introduces. What a greedy evaluation of a model passes is chosen once and kept in
`judged`. After a harness anyone may resume any published checkpoint, into its
own root or another, and a process may fail anywhere.

### FinalEvaluation

Processes (`pc`, `suite`, `runs`, `learned`) share the disk: the artifact roots,
manifest reads, attempts and dispatches per case, case records and evidence.
`Start` are the checks that change nothing, `MakeRoot` the exclusive `mkdir`, then
the preflight, the one read, and per case `Evaluate` and `Dispatch`. `Validate`
accepts only the result the validators have frozen (the final suite failed with
failures, the first follow-up failed without a failed case, the second passed), so
that a suite whose outcome is another writes no evidence. A process can raise or die
between any two steps; the root it made stays, and the suite is used up.

## Runs

| run | instance | shows |
|---|---|---|
| `live_bridge` | two companies, two decisions, five requests | one command per decision, trace in turn order, unbroken history, tokens spent once, snapshots of the state they name, nothing after the end, that the bridge implements `TurnGame`, and that the process always ends |
| `live_transport` | one decision, four requests to observe, act, step or close, one frame in each pipe | answers match calls, an identity stands for one call and no gap is passed, the log on disk accounts for effects whatever fails, a clean close has a result of every call, every call returns, and no write waits for ever while the native process runs, although both pipes may be full |
| `shared_match` | six decisions, every failure or none | the server's record, bookkeeping, log and requests against the native game; every tool call returns, without an error when nothing fails and the player's company exists |
| `shared_match_bankrupt` | no failure, player of company 1 | violated: see [findings](#findings) |
| `sync_bridge` | two episodes, horizons 1 and 2, seven requests | steps once, in order and within the horizon, with a fresh mask; closable after any failure; implements `Environment` |
| `sync_bridge_paused` | the same | violated: see [findings](#findings) |
| `bus_actions` | two slots, each command accepted or refused | whole routes, and no change on rejection |
| `live_training` | two updates of three decisions, games of three, registered and probed or not, three segments | what may be resumed, what the policy is trained on, that a repeated decision is the same, where a run ends, and that driver and trainer never disagree |
| `rollout` | two environments, two updates of two time steps, episodes of at most two decisions, every failure | trained as played, credit inside an episode only, honest checkpoints and selection, which workers an exception leaves, that no run fails without a failure and every process ends |
| `campaign` | two members, checks every 2 and checkpoints every 4 updates, two stages, budget 8, one resumption by hand | exact recovery, retention, no failing harness without a cause |
| `final_evaluation` | three suites of two cases, two processes started again at will | one read and one attempt at each case, in order; evidence is earned |
| `trajectory_bundle` | two builders, two directories, two episodes of two steps | violated: see [findings](#findings) |

Several properties have parts that earlier stood alone: `StepsInOrder` includes
the horizon, `InStep` of `SharedMatch` what it asks native for and `RecordIsTrue`
what an orderly shutdown saves, those of `LiveTraining` the recurrent state and
the stop.

Why these bounds are enough to meet the interesting cases. *Bridge*: a stale
token needs a second decision, a repeated command a second ACT, the other
company's turn a second company; five requests let a client observe, act, step
and misbehave twice. *Transport*: a late answer, the request that meets it, and
one more; a number that was not sent, one before it and one after it. *Full pipes*: an
answer in the pipe, one being written, a request in the pipe and one being
written answer in the pipe, one being written, a request in the pipe and one being
written are four identities. `TENSORS` and `CHECKPOINT` differ for the client from
`OBSERVE` in nothing; the theorems do not leave them out.
*Match*: six decisions are three turns of each side, a wait batch that spans
them, a failure in the first, a middle or the last. *Worker*: seven
requests are two resets, a mask and a step in each, and one more; the second
reset asks for another horizon. *Actions*: one bus holds a stop that the other
may need, and both may have orders. *Training*: games and rollouts of equal
length fall out of step as soon as a game ends early; three segments are a
resumption of a resumption, and one from an older checkpoint than the last.
*Rollout*: of two environments one fails while the other is being replaced, and
an update follows one that mixed two episodes. *Campaign*: the break falls on a
checkpoint with one after it, and a member has a predecessor whose jobs must not be
taken for its own. *Evaluations*: three suites are a follow-up of a follow-up; two
processes suffice because more of them meet only at the one `mkdir`, and the
theorems have any number. *Bundles*: with three blobs and four observations the
first refused add is reached in the second episode. For safety the theorems
remove all of these bounds; they remain for liveness.

Deadlock is not checked where the program stops by itself (every process here
ends) or where a bound stops it.

Each property of a passing run has a mutant in `PROJECT.json`: the model with one
definition replaced by its mutated form, in which TLC finds the property violated.

## Fairness

* `LiveBridge!FairSpec`: weak fairness of the loop (one thread that is never
  suspended by the model's other actors), of the write timer and the read timer
  (`DevWriteResponse` and `DevReadExact` compute a deadline and poll with it),
  and of noticing the end of the input. The client is given none: `AlwaysEnds`
  holds of a client that stops at any point. A kill is never required.
* `LiveTransport!FairSession`: weak fairness of the client's own deadline in `_read`,
  of the bounded `wait` in `close`, and of a write once there is room or the process
  has ended. Native is given none, so that a hung native process is covered:
  `EveryCallReturns` then allows for the one write that waits for ever. Its second part
  assumes of the native process that it runs its loop and that its write timer expires
  (`ProcessRuns`, the fairness of `LiveBridge`).
* `SharedMatch!FairSpec`: weak fairness of the tool call in progress; its
  requests return because of `EveryCallReturns`. Clients need not call anything.
* `Rollout!FairSpec`: weak fairness of the driver (each of its requests returns or
  raises; the controller's requests have deadlines), of a worker whose pipes
  nobody holds (it reads the end of its input) and of the trainer likewise. No
  fairness favours success over failure.

The other modules are checked for safety only. The V1 worker reads without a
deadline, so that it ends only if its client does; training runs, campaigns and
evaluations make progress only if nothing kills them.

## Proofs

Eight modules hold theorems. None assumes more than the named assumption on the
constants of its module (for the bundles, `Constants`: their episodes, ordinals and
bounds are numbers). The safety properties of every passing run are theorems.

`LiveProofs`, the bridge, for one company and for two, every budget that the contract
allows, every number of requests and every pipe bound: `TypeCorrect`,
`OneCommand`, `TurnOrder`, `History`, `SingleUse`, `SnapshotsAreFresh` (the safety
properties the run checks), `Finality` (the action property, from the same invariant) and
`Refinement` (the initial states are initial states of `TurnGame`, and each step is
a step of `TurnGame` or leaves its variables unchanged).

The argument. `OneCommandPerDecision` is not inductive: an ACT keeps it only if
a pending command is still owed exactly one step, which is `PendingCommand` (it
was given by the company in turn, and its decision is within the budget).
`TraceFollowsTurns` needs to know that the next row's index is the decision
count, `TraceLength`: equality while the process serves, and at most one less
once it has failed between a simulation and its row. `UnbrokenHistory` needs the
version that the pending command started from, `Continuity`. `TokensSpentOnce`
follows from `SpentVersions`: the versions in the executed commands grow
strictly, and once nothing is pending all of them are below the present one,
because each step raises the version; that is where the proof uses that the
digest covers the simulated time. `FreshSnapshots` has an invariant of its own,
`SnapshotInv`: as long as a decision is still to be taken, every file and every
answer that names it is of the present version, and neither is of a later one.

`LiveProofs`, the session, for any number of calls (`SessionInductive`): `OwnAnswers`, `InOrder`,
`EffectsAreLogged`, `CloseIsTrue`, and `BridgeKept`, that the native process keeps its guarantee with
this client. The steps of the native process are those of `LiveBridge`, so
the bridge's step lemma is cited; to it a step of this
client is quiet (`ClientIsQuiet`). `AnswersMatchCalls` follows from
`AllOfTheirCalls`: no request, reply or frame has an identity that was not issued,
one with the latest identity has the operation and company of the latest call, and
what was answered is before what is expected. That is kept because a call takes a
fresh identity, however the last one ended. `Ordered` is `IdentitiesInOrder` with what
makes it inductive: while a frame waits to be written its number is still ahead of
native. So native stands at the first gap, if there is one; a request it accepts was
sent, hence its line was flushed before (`LogInOrder`), and a CLOSE that is answered
had no gap before it (`AllServed`). `AnswerAwaited`: while a call is in progress, its answer is not in
the log yet. `Settled`: the loop is left between two recorded decisions and the result
is written from there.

`SharedMatchProofs`, for either player, either company first, every even budget
up to 512 and every set of failures: all five safety properties that
`shared_match` checks. The invariant has seven parts besides the types. `Game`
and `Bookkeeping`: as long as no answer was missed, and whenever a match is being
concluded, `decisions` are native's; the first holds of `current` too. `Turning`: whose turn it is at each place of a call and
whether its command has been given; in between calls a pending action is a
command the player has given. `Concluding`: only an ended game is concluded, and
from `CLOSE` on native's result is `COMPLETE`, which is why a record that says
completed stays true. `PolicyLost`: after a failed prediction native stands at
the neural company's turn, which none of the player's tools can leave. `Calm`:
while nothing has failed the player is asked in its turn. `Logged`: rows, with
the one that is due, number the neural decisions so far (`NeuralCount` adds one
decision at a time).

`SyncBridgeProofs`, for any sessions, actions, horizons and bounds and any
client: `OrderedSteps`, `FreshMasks`, `Closable`, and `KeepsPromise`, the
refinement of `Environment`. The invariant has five parts besides the types.
`Shape`: what is under way is what the lifecycle says, there is an episode
exactly if there is a session, and an episode that goes on has a step left of
the horizon its reset asked for. `Masked`: a token in force is of the present
boundary, and a step under way presented the token of the boundary that it
leaves. `Logged`: the engine has played `ordinal` actions of this episode, or one
more between `Execute` and the ticks and after a step that failed there; while a
step is under way the last logged request is earlier than the last consumed one.
`Header`: while the worker reads, its last answer names the present handle and
ordinal; that is why a client can always close it.

`EpisodeProofs`, the actions, for any number of slots and whatever the engine refuses:
`WholeRoutes` and `RejectionIsNeutral`. `Reversible` is the strengthening: while a
route is being assigned the world before is this one with the bus's prior orders
put back, and it was whole; `Progress` says which part of the assignment, or of
the rollback, has been done.

`LiveTrainingProofs`, for any horizon, rollout length, checkpoint interval, budget
and number of segments: `NeverThrown`, `Restorable`, `InTrainingOrder`, `EndedRight`
and `Continued`. The first invariant relates the driver to the trainer.
`Counting`: the decisions of all updates and of the rollout in progress are those before the segment and its own,
so that a multiple of the rollout length (`Located`) is reached exactly when the
rollout is full. `Resetting`: the trainer expects a reset exactly if there is no
game or its first decision is due, and the cached frame is the game's or none.
`Learning`: what was trained is in order (`Trained`), the rollout in progress
continues it, and the recurrent state is as old as the game. `OnDisk` says the
same of the trainer in every checkpoint, which makes a resumption preserve the
other three, and that a listed checkpoint has its manifest. The proof nowhere
uses that the interval is a multiple of the horizon: with another one fewer
checkpoints are saved, but none that could not be restored. Two more
invariants go on from there. `Ending`, for `EndsWhereItShould`: the probes of a record
are those of its updates (`Candid`), a segment of a registered run owes exactly what
its checkpoint leaves of the budget, and it plays only before the trigger (`Ahead`).
`Chained`, for `ExactContinuation`: each row of a fate was written after the row
before it, and goes on from it by the game and by the fate alone. So where the games
of a fate begin, which is a recursion over it, need not be known: only one frame
follows a step (`OneFollows`), and a row written again is the row that is there
(`OneLine`). What a checkpoint
resumes with, and what is about to be played, follow on from their position in the same way.

`EpisodeProofs`, the bundles, for any builders and directories: `BundlesWhole` (a published
bundle is in order, continuous inside an episode, has the observations that its
records name and no others, and is bounded unless an add of its builder was
refused), `SingleEpisode` (the bundle of one episode is within the bound, by
counting: each record after the first adds one blob at most, so that there are
129 for 128 transitions) and `Immutable`. The
invariant says of every builder, open or writing, what `PublishedWhole` says of a
directory (`BundlesSound`).

`FinalEvaluationProofs`, for any number of processes, suites and cases:
`NoSecondAttempt` and `HonestEvidence`. The strengthening is `Exclusive`: one
process at most is between a suite's `mkdir` and its end, and what it has done so
far is what the counters, the records and its own list say (`Progress`); a suite
whose root has not been made is untouched (`Fresh`).

`CampaignProofs`, for any members, periods, stages and budget, and however often
anyone resumes what is published: `Recovers`, `Keeps` and `FailsForCause`. All three
rest on one fact, that the state of a campaign is a function of its member, its
updates and what evaluations show. `CampaignAt` is that function, with `LineAt` and
`ContentAt` for what is printed and published. It has no recursion: the stage is a
quotient, the parameters are a sequence given by its places, and the mask, which
each check extends, is the union of what the checks before it passed. `Determined`
says that each printed line, each checkpoint and the running process are that
function's values. `OnCourse` and `DoneRight` say the same of the process that a
harness runs and of the jobs it has parsed, and `RootsAhead` that the root of a job
still to come is empty, so that nobody else's checkpoints are met there. The harness
then compares equal values (`Recovers`), and a job fails only if its process did or
a check was catastrophic, or if its member ran through its budget without one eligible
checkpoint (`Cause`, `Barren`).

`RolloutProofs`, for any number of environments, time steps, updates, templates and
episode lengths, any interval and any set of failures: `TrainsWhatIsPlayed`,
`PublishesHonestly`, `FailsForCause` and `LeavesTheBatch`. The driver is sequential,
so that its place fixes almost everything: how much is drawn (`Drawn`) and recorded
(`Recorded`); what is published and what the driver's list knows of it (`Ledger`);
who plays in which environment (`Seats`), that nobody else is alive (`Manned`) and
that a pipe slot reaches the worker that it was opened for (`Piped`), which is why
closing closes the right one; and which run roots exist (`Rooted`), which is why the
next is free. `Played` is about the samples: they were drawn at their place and by the
policy being updated (`Chosen`), each follows the one before of its environment, in a
rollout (`Chained`) and from one rollout to the next (`Linked`), and what an
environment plays next follows on from its last sample (`Awaits`). `InEpisodes`, that
episodes of an environment only go forward, is what the credits need: an advantage
stops at the first end of an episode, and no later sample is of that episode again.
`Credit` is a recursive function over the samples; its value is proved without
induction, by a least counterexample (`Smallest`, from the well-founded order on
finite sets that the library has). The best of the eligible checkpoints exists by the
same argument.

Only model-checked: liveness (`AlwaysEnds`, `EveryCallReturns`, the tool calls of
the match server, `EverythingEnds`), because TLAPS does not reason about ENABLED. The properties
of the three runs that expect a violation are false of the code.

## Findings

1. *Code bug* (`shared_match_bankrupt`, `mcp_v2.py:145`). If the player has
   company 1 and the engine removes it for bankruptcy, the step that finishes the
   match records it completed and then raises, because the final observation of
   an absent company has no map; the caller gets an error in place of the result
   and the saved record is turned to failed. The run has no faults at all.
2. *Document and code differ* (`sync_bridge_paused`, `P/m05/0006`). A mask asked
   for during a pause is all zero, and its token is accepted by a STEP after
   RESUME, which executes an action that the mask shows as illegal.
   `docs/contracts/V1_ENVIRONMENT.md:379` says that a token covers all mask bytes
   and that STEP rejects a different one.

3. *Document and code differ* (`trajectory_bundle`, `m06_trajectory.py:272`). A
   builder whose `add` was refused for the observation bytes keeps the record, and
   its `write` publishes a bundle with more blobs than
   `docs/contracts/V1_ENVIRONMENT.md:488` allows, which `load_bundle` and `resume`
   then refuse. It takes records of several episodes in one bundle and a caller
   that survives the exception. The repository's one caller
   (`run_m06_reward_trajectory.py:249`) records a single episode, for which the
   bound is proved (`EpisodesAreBounded`).

Weaker observations that no run states as a violation. The match server's
`close` archives before it saves its record, so that a half-written archive left
by an earlier failure keeps the record at running (`RecordIsTrue` is stated
for the other case). And `run.json` can say completed while the last neural row
is not in its log, because `finish` saves it before the neural turn logs, or while an
earlier one is missing: a neural step whose answer could not be logged has the call
raise, but the player's next step brings the server level with native again, and the
match can be finished (`InStep` holds of it, `NeuralTurnsLogged` speaks of running
matches only). An
exception while the V1 rollout starts a batch (the first environments, or the
replacements of a time step) neither aborts nor closes the workers it has
started: they end because the driver's own end closes their pipes, which is as
much as `OnlyTheBatchIsLeft` and `EverythingEnds` say. The live client counts an identity
before it logs the request (`live_v2.py:154`): when the log fails, nothing is sent, and
the next call makes the native process give up with `request identity out of order`
(`IdentitiesInOrder` says what still holds). A one-shot evaluation that
dies after its `mkdir`, even in the preflight, or while it writes its evidence
file, has used its suite up for good. `manifest_reads`, `retries` and
`replacements` are constants in the report; `AttemptedOnce` is why they are true.

## Limits

* The engine is abstract: which commands succeed, which company fails and what
  the map looks like are choices. `ExecuteCandidate`, `EnumerateCandidates` and
  the state digest are modelled from how `rl_v2_live.inc` uses them.
* A line of `requests.jsonl` is whole or absent: what a failed write leaves of a torn
  line, and that the next line is joined to it, is not modelled.
* `Campaign` is about one device. The harnesses train on `cuda:0`; `--device` of the
  native program (`m22_campaign_main.cpp:58`) may also name the CPU, and a checkpoint
  resumed by hand on another device than its own need not repeat what the first run
  did. `ExactRecovery` is not stated for that.
* The match server's tools run one at a time in `SharedMatch`: the lock of
  `mcp_v2.py:77` is assumed, not shown to be needed.
* Frames are whole messages, except where a torn one is the point (the size and
  the body in `LiveTransport`, damaged and cut frames in `SyncBridge`).
* `SharedMatch` treats the guide as part of the prediction and leaves out the
  read-only pages of candidates and map regions.
* `LiveTraining` runs one segment at a time and leaves out imported weights and
  the fresh restart of an interrupted predecessor. Bankruptcy at the horizon
  itself differs from truncation in one flag of the row only, and is not
  distinguished. A driver check that would throw is the property `InStep`: the
  model stops where it fails.
* `Rollout`: an update that fails tears the model (`TornTrainer`), and the driver raises
  on the error, so that nothing of it is published; a client that went on is the mutant.
* `Rollout`, `Campaign`: rewards, predictions, weights and statistics are
  abstracted; an evaluation's result is a free choice, made once per model.
* `FinalEvaluation` has one artifact root for each suite, as the programs have it by
  default: a directory deleted by hand, or another root given for the input
  artifacts, is outside. The cleanliness of the work tree and the paths of the
  evidence are not modelled; statistics are the constant `Gates`.
* `TrajectoryBundle` counts bytes in blobs and takes a directory that nobody has
  damaged. The reward checks compare numbers and are left out.
* Test fixtures of the V1 worker (injected failures) appear as the failures.

### Not modelled

* V1 live checkpoints (`live_checkpoint.py`, `train_live.py`): the same discipline
  as `checkpoint_v2` over several workers; would be `LiveTraining` with a set of
  games.
* Guides (`guide_v2.py`, `route_v2.py`): which action a planner proposes is data to
  every protocol here. Imitation and human replay: sequential data preparation.
* Policy models, PPO arithmetic, ONNX export, parity tapes, statistics: numbers.
* The engine patches of V2 (m15 to m23), except for what `rl_v2_live.inc` uses of
  them: most of their lines enumerate OpenTTD's commands and fields.
* Builds, provisioning, documentation gates, reports, archives: batch programs
  around external tools, without interacting state.

These are most of the repository's lines: schema generators, drivers of builds,
validators of evidence and numerical code, of which a state machine would only be a
transliteration.

## Plan

Done, in the order of importance: the live environment (`TurnGame`,
`LiveBridge`), its client, its most concurrent user, the V1 worker and its
actions, training with recovery, the V1 rollout, the campaign, the one-shot
evaluations and the trajectory bundles, all with the proofs of their safety.

Next:

1. `LiveTraining` generalised to several workers, for `live_checkpoint.py`.
2. An abstract specification of training, the uninterrupted run, which
   `LiveTraining` implements with what it has on disk.
3. The route guide's algorithm, against a reference definition.
