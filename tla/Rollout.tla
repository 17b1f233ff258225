------------------------------- MODULE Rollout -------------------------------
(***************************************************************************)
(* The V1 training run (run_m07_cpu_ppo.py): one driver, a worker process  *)
(* per environment, a trainer process, and the checkpoints it publishes.   *)
(*                                                                         *)
(* A worker is what Environment says of it: it plays one episode, decision *)
(* by decision, and ends when its pipes are closed.  Rewards, predictions  *)
(* and weights are abstracted; what is kept is which decision of which     *)
(* episode was chosen by which policy and credited with which rewards,     *)
(* who holds which pipes, and what an exception at any request leaves.     *)
(***************************************************************************)
EXTENDS Integers, Sequences, FiniteSets, SequencesExt

CONSTANTS Envs,       \* ENVIRONMENT_COUNT
          Length,     \* ROLLOUT_LENGTH
          Updates,    \* args.updates
          Interval,   \* updates between candidates (16)
          Longest,    \* decisions of an episode: the engine's action horizon
          Templates,  \* development templates
          Faults      \* which failures may happen, a subset of FaultKinds

FaultKinds == {"worker", "trainer", "disk", "kill"}

ASSUME RolloutAssumption ==
  /\ {Envs, Length, Updates, Interval, Longest, Templates} \subseteq Nat \ {0}
  /\ Faults \subseteq FaultKinds

VARIABLES
  at,           \* where the driver is
  i, time,      \* the environment, or template, and the time step it works on
  env,          \* environments: the worker, pipe slot and decision of each
  fresh,        \* replacements: the environments started in this time step
  outcomes,     \* step_results: how each environment's last step ended
  rollout,      \* transitions
  phase,        \* the evaluation that is running, or was last
  guest,        \* its worker and pipe slot
  alive,        \* the worker processes that run
  used,         \* the run roots that exist
  pipes,        \* the descriptor table: the worker each slot reaches
  trainer,      \* the trainer process
  disk,         \* published checkpoints
  candidates,   \* retained candidates
  merit,        \* what an evaluation of each policy version gives
  manifest,     \* the selected update, once run-manifest.json is written
  faulted       \* something outside the driver has failed

driver == <<at, i, time, phase>>
batch == <<env, fresh, outcomes, rollout>>
workers == <<guest, alive, used, pipes>>
results == <<disk, candidates, merit, manifest>>
vars == <<driver, batch, workers, trainer, results, faulted>>

Env == 1 .. Envs
Slots == 1 .. Envs + 1
NoName == [phase |-> "none", env |-> 0, episode |-> 0]
Nobody == [name |-> NoName, slot |-> 0, decision |-> 0]
Unknown == [score |-> 0, eligible |-> FALSE]

NewTrainer == [up |-> TRUE, updates |-> 0, draws |-> 0, trained |-> <<>>, torn |-> FALSE]

Init ==
  /\ at = "start" /\ i = 0 /\ time = 0 /\ phase = "none"
  /\ env = [e \in Env |-> Nobody] /\ fresh = [e \in Env |-> Nobody]
  /\ outcomes = [e \in Env |-> "NONE"] /\ rollout = <<>>
  /\ guest = Nobody /\ alive = {} /\ used = {} /\ pipes = [s \in Slots |-> NoName]
  /\ trainer = [NewTrainer EXCEPT !.up = FALSE]
  /\ disk = {} /\ candidates = <<>> /\ manifest = 0 /\ faulted = FALSE
  /\ merit = [version \in 1 .. Updates |-> Unknown]

-----------------------------------------------------------------------------
(* The trainer process                                                      *)

\* A sampled batch takes one draw of the action stream, a deterministic one none.
Sampled(t) == [t EXCEPT !.draws = @ + 1]

\* compute_gae over [time, environment]: which later rewards an advantage holds.
Credit(samples) ==
  LET credit[n \in DOMAIN samples] ==
        {n} \cup IF samples[n].continuation /\ n + Envs <= Len(samples) THEN credit[n + Envs] ELSE {}
  IN credit

\* UPDATE takes exactly one rollout.
UpdateAccepted(samples) == Len(samples) = Length * Envs

\* The optimizer steps; the counters follow when all of them are done.
Trained(t, samples) ==
  [t EXCEPT !.updates = @ + 1,
            !.trained = Append(@, [samples |-> samples, credit |-> Credit(samples)])]

\* state.bin, model.pt and optimizer.pt, and back into a new process.
State(t, parent, result) ==
  [update |-> t.updates, trained |-> t.trained, torn |-> t.torn, draws |-> t.draws,
   parent |-> parent, result |-> result]
Loaded(saved) ==
  [up |-> TRUE, updates |-> saved.update, draws |-> saved.draws, trained |-> saved.trained, torn |-> saved.torn]

\* save_checkpoint: a directory named by its content, never overwritten.
Publish(saved) == saved \notin disk /\ disk' = disk \cup {saved}

-----------------------------------------------------------------------------
(* Worker processes                                                         *)

\* WorkerProcess.start: a new run root, and the lowest free descriptors.
FreeSlot == CHOOSE s \in Slots : pipes[s] = NoName /\ \A r \in 1 .. s - 1 : pipes[r] # NoName

Launched(name) == [name |-> name, slot |-> FreeSlot, decision |-> 0]

Launch(name) ==
  /\ name \notin used
  /\ used' = used \cup {name}
  /\ alive' = alive \cup {name}
  /\ pipes' = [pipes EXCEPT ![FreeSlot] = name]

\* Controller.abort: the processes are killed and their descriptor numbers are
\* closed, whatever these stand for by now.
Abort(held) ==
  /\ alive' = alive \ {h.name : h \in held}
  /\ pipes' = [s \in Slots |-> IF \E h \in held : h.slot = s THEN NoName ELSE pipes[s]]

\* Controller.close and finish: CLOSE is answered and the process has ended.
Close(held) == Abort(held) /\ UNCHANGED used

\* A worker whose pipes nobody holds reads the end of its input.
WorkerEnds ==
  /\ \E name \in alive : name \notin Range(pipes) /\ alive' = alive \ {name}
  /\ UNCHANGED <<driver, batch, guest, used, pipes, trainer, results, faulted>>

\* Mutation: the service reads on at the end of its input.
TrainerReadsOn ==
  /\ trainer.up /\ at = "over" /\ UNCHANGED vars

\* So does the trainer, once the driver is gone.
TrainerEnds ==
  /\ trainer.up /\ at = "over"
  /\ trainer' = [trainer EXCEPT !.up = FALSE]
  /\ UNCHANGED <<driver, batch, workers, results, faulted>>

-----------------------------------------------------------------------------
(* The ends of the run                                                      *)

InTrain ==
  \/ at \in {"act", "step", "predict", "record", "replace", "assign", "update", "stop"}
  \/ phase = "candidate" /\ at \in {"e_start", "e_play", "e_close", "checkpoint"}

\* Mutation: an exception in train only ends the trainer.
HeldByGuest == {guest}

\* The workers the except blocks know of: an evaluation's, and those of train as
\* the list stands, without the replacements of this time step.
Held == {guest} \cup (IF InTrain THEN {env[e] : e \in Env} ELSE {})

RaiseFrom(t) ==
  /\ at' = "failed"
  /\ Abort(Held)
  /\ trainer' = [t EXCEPT !.up = FALSE]
  /\ UNCHANGED <<i, time, phase, batch, guest, used, candidates, merit, manifest>>
Raise == RaiseFrom(trainer)

\* main returns, and the descriptors the driver held are closed.
Exit ==
  /\ at \in {"completed", "failed"} /\ at' = "over"
  /\ pipes' = [s \in Slots |-> NoName]
  /\ UNCHANGED <<i, time, phase, batch, guest, alive, used, trainer, results, faulted>>

-----------------------------------------------------------------------------
(* evaluate: one worker per development template.                           *)

Start ==
  /\ at = "start"
  /\ trainer' = NewTrainer
  /\ at' = "e_start" /\ phase' = "random" /\ i' = 1
  /\ UNCHANGED <<time, batch, workers, results, faulted>>

GuestName == [phase |-> phase, env |-> i, episode |-> IF phase = "candidate" THEN trainer.updates ELSE 0]

EvaluateStart ==
  /\ at = "e_start" /\ at' = "e_play"
  /\ Launch(GuestName) /\ guest' = Launched(GuestName)
  /\ UNCHANGED <<i, time, phase, batch, trainer, results, faulted>>

\* Deterministic actions draw nothing from the trainer's generators.
EvaluatePlay ==
  /\ at = "e_play" /\ at' = "e_close"
  /\ UNCHANGED <<i, time, phase, batch, workers, trainer, results, faulted>>

\* The random baseline is evaluated first; an evaluation repeats exactly.
Evaluated ==
  /\ at' = (CASE phase = "random" -> "t_start" [] phase = "candidate" -> "checkpoint" [] OTHER -> "reloaded")
  /\ i' = 1
  /\ IF phase = "candidate" /\ merit[trainer.updates] = Unknown
     THEN \E result \in [score : 1 .. 2, eligible : BOOLEAN] : merit' = [merit EXCEPT ![trainer.updates] = result]
     ELSE UNCHANGED merit

EvaluateClose ==
  /\ at = "e_close"
  /\ Close({guest}) /\ guest' = Nobody
  /\ IF i < Templates THEN at' = "e_start" /\ i' = i + 1 /\ UNCHANGED merit ELSE Evaluated
  /\ UNCHANGED <<time, phase, batch, trainer, disk, candidates, manifest, faulted>>

-----------------------------------------------------------------------------
(* train                                                                    *)

EnvName(e, episode) == [phase |-> "train", env |-> e, episode |-> episode]

\* The first environments are started before the try block is entered.
TrainStart ==
  /\ at = "t_start"
  /\ Launch(EnvName(i, 0)) /\ env' = [env EXCEPT ![i] = Launched(EnvName(i, 0))]
  /\ IF i < Envs THEN i' = i + 1 /\ UNCHANGED <<at, time>> ELSE at' = "act" /\ time' = 1 /\ UNCHANGED i
  /\ UNCHANGED <<phase, fresh, outcomes, rollout, guest, trainer, results, faulted>>

\* One action per environment, sampled in one batch.
Act ==
  /\ at = "act" /\ at' = "step" /\ i' = 1
  /\ trainer' = Sampled(trainer)
  /\ fresh' = [e \in Env |-> Nobody]
  /\ UNCHANGED <<time, phase, env, outcomes, rollout, workers, results, faulted>>

\* How a transition ends: bankruptcy comes before the horizon.
Outcomes(decisions) == {"BANKRUPTCY", IF decisions = Longest THEN "HORIZON" ELSE "NONE"}

\* STEP: the environment goes on, its company goes bankrupt, or its horizon is reached.
Step ==
  /\ at = "step"
  /\ \E outcome \in Outcomes(env[i].decision + 1) : outcomes' = [outcomes EXCEPT ![i] = outcome]
  /\ IF i < Envs THEN i' = i + 1 /\ UNCHANGED at ELSE at' = "predict" /\ UNCHANGED i
  /\ UNCHANGED <<time, phase, env, fresh, rollout, workers, trainer, results, faulted>>

\* The values of the next observations, for the bootstrap.
Predict ==
  /\ at = "predict" /\ at' = "record" /\ i' = 1
  /\ UNCHANGED <<time, phase, batch, workers, trainer, results, faulted>>

Transition ==
  [name |-> env[i].name, decision |-> env[i].decision, draw |-> trainer.draws, policy |-> trainer.updates,
   bootstrap |-> outcomes[i] # "BANKRUPTCY", continuation |-> outcomes[i] = "NONE"]

NextEnvironment == IF i < Envs THEN at' = "record" /\ i' = i + 1 ELSE at' = "assign" /\ UNCHANGED i

\* Mutation: the next observation is not taken over.
Observed(e) == env
ObservedNext(e) == [env EXCEPT ![e].decision = @ + 1]

\* The transition is appended; an episode that ended gives up its worker.
Record ==
  /\ at = "record"
  /\ rollout' = Append(rollout, Transition)
  /\ IF outcomes[i] = "NONE"
     THEN /\ env' = ObservedNext(i)
          /\ NextEnvironment /\ UNCHANGED workers
     ELSE /\ Close({env[i]})
          /\ at' = "replace" /\ UNCHANGED <<i, env, guest>>
  /\ UNCHANGED <<time, phase, fresh, outcomes, trainer, results, faulted>>

Replace ==
  /\ at = "replace"
  /\ LET name == EnvName(i, env[i].name.episode + 1) IN
     Launch(name) /\ fresh' = [fresh EXCEPT ![i] = Launched(name)]
  /\ NextEnvironment
  /\ UNCHANGED <<time, phase, env, outcomes, rollout, guest, trainer, results, faulted>>

\* Mutation: the environments that are replaced are aborted once more.
AssignAborting ==
  /\ at = "assign"
  /\ Abort({env[e] : e \in {e \in Env : fresh[e] # Nobody}})
  /\ env' = [e \in Env |-> IF fresh[e] = Nobody THEN env[e] ELSE fresh[e]]
  /\ fresh' = [e \in Env |-> Nobody]
  /\ IF time < Length THEN at' = "act" /\ time' = time + 1 ELSE at' = "update" /\ UNCHANGED time
  /\ UNCHANGED <<i, phase, outcomes, rollout, guest, used, trainer, results, faulted>>

\* The replacements take their places when every environment has been recorded.
Assign ==
  /\ at = "assign"
  /\ env' = [e \in Env |-> IF fresh[e] = Nobody THEN env[e] ELSE fresh[e]]
  /\ fresh' = [e \in Env |-> Nobody]
  /\ IF time < Length THEN at' = "act" /\ time' = time + 1 ELSE at' = "update" /\ UNCHANGED time
  /\ UNCHANGED <<i, phase, outcomes, rollout, workers, trainer, results, faulted>>

\* Every interval has a candidate, and the last update.
Due(update) == update % Interval = 0 \/ update = Updates

More(done) == IF done < Updates
        THEN at' = "act" /\ time' = 1 /\ rollout' = <<>>
        ELSE at' = "stop" /\ UNCHANGED <<time, rollout>>

\* UPDATE: the whole rollout and nothing else; then on_completed_update.
Update ==
  /\ at = "update" /\ UpdateAccepted(rollout)
  /\ trainer' = Trained(trainer, rollout)
  /\ IF Due(trainer'.updates)
     THEN at' = "e_start" /\ phase' = "candidate" /\ i' = 1 /\ UNCHANGED <<time, rollout>>
     ELSE More(trainer'.updates) /\ UNCHANGED <<i, phase>>
  /\ UNCHANGED <<env, fresh, outcomes, workers, results, faulted>>

\* retain_candidate, once the policy is evaluated.
ThisCheckpoint ==
  State(trainer, IF candidates = <<>> THEN 0 ELSE Last(candidates), merit[trainer.updates])

Checkpoint ==
  /\ at = "checkpoint"
  /\ Publish(ThisCheckpoint)
  /\ candidates' = Append(candidates, trainer.updates)
  /\ More(trainer.updates)
  /\ UNCHANGED <<i, phase, env, fresh, outcomes, workers, trainer, merit, manifest, faulted>>

\* The finally block of train, and client.close.
TrainClose ==
  /\ at = "stop" /\ at' = "close"
  /\ Close({env[e] : e \in Env})
  /\ UNCHANGED <<i, time, phase, batch, guest, trainer, results, faulted>>

CloseTrainer ==
  /\ at = "close" /\ at' = "select"
  /\ trainer' = [trainer EXCEPT !.up = FALSE]
  /\ UNCHANGED <<i, time, phase, batch, workers, results, faulted>>

-----------------------------------------------------------------------------
(* The selection                                                            *)

Pool == LET eligible == {u \in ToSet(candidates) : merit[u].eligible}
        IN IF eligible = {} THEN ToSet(candidates) ELSE eligible

Best(pool) == CHOOSE u \in pool : \A v \in pool :
  merit[u].score > merit[v].score \/ (merit[u].score = merit[v].score /\ u <= v)

\* load_checkpoint: model, optimizer, generators and counters.
Select ==
  /\ at = "select"
  /\ candidates # <<>> /\ Last(candidates) = Updates
  /\ \E saved \in disk :
       /\ saved.update = Best(Pool)
       /\ trainer' = Loaded(saved)
  /\ at' = "e_start" /\ phase' = "reload" /\ i' = 1
  /\ UNCHANGED <<time, batch, workers, results, faulted>>

Finish ==
  /\ at = "reloaded" /\ merit[trainer.updates] = merit[Best(Pool)]
  /\ trainer' = [trainer EXCEPT !.up = FALSE]
  /\ manifest' = trainer.updates /\ at' = "completed"
  /\ UNCHANGED <<i, time, phase, batch, workers, disk, candidates, merit, faulted>>

-----------------------------------------------------------------------------
(* What may fail                                                            *)

\* What the driver needs to go on: run roots that do not exist yet, workers that
\* its descriptors still reach, and what it requires of its own records.
Required ==
  CASE at = "e_start"    -> GuestName \notin used
    [] at = "t_start"    -> EnvName(i, 0) \notin used
    [] at = "replace"    -> EnvName(i, env[i].name.episode + 1) \notin used
    [] at \in {"e_play", "e_close"} -> pipes[guest.slot] = guest.name
    [] at = "step"       -> pipes[env[i].slot] = env[i].name
    [] at = "update"     -> UpdateAccepted(rollout)
    [] at = "checkpoint" -> ThisCheckpoint \notin disk
    [] at = "select"     -> candidates # <<>> /\ Last(candidates) = Updates
    [] at = "reloaded"   -> merit[trainer.updates] = merit[Best(Pool)]
    [] OTHER -> TRUE

\* A request to a worker, or its start, ends in an exception: the worker has
\* failed, or the driver itself has lost what the request needs.
WorkerFails ==
  /\ at \in {"e_start", "e_play", "e_close", "t_start", "step", "record", "replace", "stop"}
  /\ at = "record" => outcomes[i] # "NONE"
  /\ "worker" \in Faults \/ ~Required
  /\ Raise /\ faulted' = (faulted \/ Required) /\ UNCHANGED disk

\* So does a request to the trainer, which has ended or answers with an error.
TrainerFails ==
  /\ \/ at \in {"start", "act", "predict", "close", "select", "reloaded"}
     \/ at = "e_play" /\ phase # "random"
  /\ "trainer" \in Faults \/ ~Required
  /\ Raise /\ faulted' = (faulted \/ Required) /\ UNCHANGED disk

\* A model of which only some minibatches of an update were taken.
TornTrainer == [trainer EXCEPT !.torn = TRUE]

\* Mutation: a failed UPDATE is asked again.
UpdateRetried ==
  /\ "trainer" \in Faults /\ at = "update"
  /\ trainer' = TornTrainer /\ faulted' = TRUE
  /\ UNCHANGED <<driver, batch, workers, results>>

\* UPDATE throws after some of its minibatches: the service would go on with the
\* torn model, but the driver raises on the error it answers.
UpdateFails ==
  /\ at = "update" /\ ("trainer" \in Faults \/ ~Required)
  /\ RaiseFrom(TornTrainer) /\ faulted' = (faulted \/ Required) /\ UNCHANGED disk

\* CHECKPOINT throws, before the rename or after it.
CheckpointFails ==
  /\ at = "checkpoint" /\ ("disk" \in Faults \/ ~Required)
  /\ disk' \in {disk, disk \cup {ThisCheckpoint}}
  /\ Raise /\ faulted' = (faulted \/ Required)

\* The driver is killed; a CHECKPOINT on its way is still carried out.
Killed ==
  /\ "kill" \in Faults /\ at # "over" /\ at' = "over" /\ faulted' = TRUE
  /\ pipes' = [s \in Slots |-> NoName]
  /\ disk' \in {disk} \cup (IF at = "checkpoint" THEN {disk \cup {ThisCheckpoint}} ELSE {})
  /\ UNCHANGED <<i, time, phase, batch, guest, alive, used, trainer, candidates, merit, manifest>>

Evaluate == EvaluateStart \/ EvaluatePlay \/ EvaluateClose
Train == TrainStart \/ Act \/ Step \/ Predict \/ Record \/ Replace \/ Assign \/ Update \/ Checkpoint \/ TrainClose
Drive == Start \/ Evaluate \/ Train \/ CloseTrainer \/ Select \/ Finish \/ Exit
Fail == WorkerFails \/ TrainerFails \/ UpdateFails \/ CheckpointFails
Next == Drive \/ Fail \/ Killed \/ WorkerEnds \/ TrainerEnds

Spec == Init /\ [][Next]_vars

\* The driver's requests return or raise, and a process at the end of its input
\* ends.
FairSpec == Spec /\ WF_vars(Drive \/ Fail) /\ WF_vars(WorkerEnds) /\ WF_vars(TrainerEnds)

-----------------------------------------------------------------------------
(* Properties                                                               *)

\* The samples of a rollout lie time step by time step, an environment after the
\* other, and of an environment each follows on the one before.
Position(t, e) == (t - 1) * Envs + e

Follows(next, sample) ==
  IF sample.continuation
  THEN next.name = sample.name /\ next.decision = sample.decision + 1
  ELSE next.name = EnvName(sample.name.env, sample.name.episode + 1) /\ next.decision = 0

AsPlayed(trained) ==
  \A u \in DOMAIN trained :
    LET samples == trained[u].samples IN
    /\ Len(samples) = Length * Envs
    /\ \A t \in 1 .. Length, e \in Env :
         LET sample == samples[Position(t, e)] IN
         /\ sample.policy = u - 1 /\ sample.draw = (u - 1) * Length + t /\ sample.name.env = e
         /\ t < Length => Follows(samples[Position(t + 1, e)], sample)
         /\ t = Length /\ u + 1 \in DOMAIN trained =>
              Follows(trained[u + 1].samples[Position(1, e)], sample)
    /\ \A n \in DOMAIN samples :
         trained[u].credit[n] = {m \in n .. Len(samples) : samples[m].name = samples[n].name}

\* Every sample of every update was chosen by the policy it updates, with the
\* draws in order, and an environment's samples follow on one another across
\* time steps, episodes and updates: nothing played is lost or trained twice.
\* An advantage is credited with the rewards of its own episode from its
\* decision on, and with no other's (GAE over interleaved environments).
TrainedAsPlayed == AsPlayed(trainer.trained)

\* A published checkpoint is of whole updates, names the candidate before it as
\* its parent and carries the evaluation of this very policy; the manifest
\* names one whose reloaded evaluation is the best of the eligible ones.
HonestCheckpoints ==
  /\ \A c \in disk :
       /\ ~c.torn /\ Len(c.trained) = c.update /\ Due(c.update)
       /\ c.result = merit[c.update] /\ c.result # Unknown
       /\ \A d \in disk : d.update < c.update => d.update <= c.parent
       /\ c.parent # 0 => \E d \in disk : d.update = c.parent
  /\ manifest # 0 => \E c \in disk :
       /\ c.update = manifest
       /\ \A d \in disk : d.result.eligible => c.result.eligible /\ c.result.score >= d.result.score

\* A run fails only if a process, the disk or the driver's host has failed.
NoErrorWithoutFault == at = "failed" => faulted

\* When the driver has raised, the workers it has left behind are those of a
\* batch it was starting: the first environments, or this step's replacements.
OnlyTheBatchIsLeft ==
  at = "failed" => alive \subseteq {env[e].name : e \in {e \in Env : trainer.draws = 0}} \cup {fresh[e].name : e \in Env}

\* However the run ends, no process outlives it for good.
EverythingEnds == <>[](at = "over" /\ alive = {} /\ ~trainer.up)
=============================================================================
