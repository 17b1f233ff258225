---------------------------- MODULE LiveTraining ----------------------------
(***************************************************************************)
(* Live V2 training and its recovery: the driver (train_v2.run) plays one   *)
(* native game after another, asks the native trainer (v2_live_train) for   *)
(* an action and rewards it, updates the policy after every rollout, and    *)
(* publishes a checkpoint when an update falls on a game's reset.  Every    *)
(* start, fresh or resumed, is a segment with a directory of its own.  A    *)
(* segment can raise, be interrupted or be killed between any two steps;    *)
(* what it had on disk is then all there is.                                *)
(*                                                                         *)
(* The engine and the trainer are deterministic (seeds, deterministic       *)
(* algorithms), so how an episode ends and where the early-stop rule fires  *)
(* are drawn once, and replays meet them again.  A parameter is reduced to  *)
(* the rollouts it was trained on, a random stream to its number of draws.  *)
(***************************************************************************)
EXTENDS Integers, Sequences, SequencesExt

CONSTANTS Horizon,      \* episode_horizon
          Rollout,      \* rollout_length
          Interval,     \* checkpoint_interval
          Budget,       \* updates of a whole training run
          ProbeEvery,   \* check_every_updates of the early-stop rule
          Reuse,        \* reuse_bootstrap_tensors
          MaxSegments   \* bound: starts and resumptions

ASSUME LiveTrainingAssumption ==
  /\ Horizon \in Nat \ {0} /\ Rollout \in Nat \ {0}
  /\ Interval \in Nat \ {0} /\ (Interval * Rollout) % Horizon = 0  \* validate_interval
  /\ Budget \in Nat \ {0} /\ ProbeEvery \in Nat \ {0}
  /\ Reuse \in BOOLEAN
  /\ MaxSegments \in Nat

VARIABLES
  registered,   \* is this a registered, probed study run?
  at,        \* where the driver is
  record,    \* the record of the segment, in memory
  runs,      \* run.json of every segment, as last written
  saves,     \* the checkpoint directories
  source,    \* the checkpoint that is being restored
  index,     \* decisions of this segment
  episode,   \* the next episode
  game,      \* the game that is being played, or NoGame
  cached,    \* the bootstrap frame kept for the next action, or NoGame
  trainer,   \* the native trainer
  fate,      \* oracle: how the episodes end
  stopAt,    \* oracle: the probed update that triggers the early stop
  rows       \* history: every line of every trajectory.jsonl

oracles == <<registered, fate, stopAt>>
vars == <<at, record, runs, saves, source, index, episode, game, cached, trainer, oracles, rows>>

-----------------------------------------------------------------------------
NoGame == [episode |-> -1, decision |-> -1]
NoSave == [segment |-> 0]
Never == 0
Idle == {"idle", "over"}

NewTrainer == [pending |-> FALSE, rollout |-> <<>>, expectedReset |-> TRUE, updates |-> 0,
               hidden |-> 0, samples |-> 0, shuffles |-> 0, model |-> <<>>, saveProbe |-> FALSE]

NewRecord(from, want) ==
  [status |-> "running", error |-> "none", from |-> from, want |-> want,
   updates |-> from, probes |-> {}, saved |-> {}]

Probed(update) == registered /\ update % ProbeEvery = 0

Init ==
  /\ registered \in BOOLEAN
  /\ at = "idle"
  /\ record = NewRecord(0, 0)
  /\ runs = <<>> /\ saves = {} /\ source = NoSave
  /\ index = 0 /\ episode = 0
  /\ game = NoGame /\ cached = NoGame
  /\ trainer = NewTrainer
  /\ fate = <<>>
  /\ stopAt \in {Never} \cup {update \in 1 .. Budget : Probed(update)}
  /\ rows = {}

Segment == Len(runs)
Restored == record.from * Rollout        \* restored_transitions

StepNumber == Restored + index + 1
EarlyStopped(probes) == stopAt \in probes

\* A registered segment must end at the original budget.
Wanted(from) == IF registered THEN {Budget - from} ELSE 1 .. Budget - from

-----------------------------------------------------------------------------
(* The ends of a segment                                                    *)

\* The processes are gone, and what the driver held in memory.
Aborted ==
  /\ trainer' = NewTrainer
  /\ game' = NoGame /\ cached' = NoGame
  /\ source' = NoSave /\ index' = 0 /\ episode' = 0

\* The except and finally blocks: the clients are aborted, run.json is written.
EndWith(status, error) ==
  /\ record' = [record EXCEPT !.status = status, !.error = error]
  /\ runs' = [runs EXCEPT ![Segment] = record']
  /\ at' = "over"
  /\ Aborted
  /\ UNCHANGED <<saves, oracles, rows>>

\* A timeout, a dead process, a full disk; or SIGTERM.  (So ends a segment,
\* too, whose driver or trainer throws at a step that InStep says it accepts.)
Raised == at \notin Idle /\ EndWith("failed", "fault")
Interrupted == at \notin Idle /\ EndWith("interrupted", "fault")

Killed ==
  /\ at \notin Idle
  /\ at' = "over"
  /\ Aborted
  /\ UNCHANGED <<record, runs, saves, oracles, rows>>

-----------------------------------------------------------------------------
(* Starting and resuming                                                    *)

Begin(from, want) ==
  /\ record' = NewRecord(from, want)
  /\ runs' = Append(runs, record')
  /\ index' = 0
  /\ trainer' = NewTrainer
  /\ game' = NoGame /\ cached' = NoGame
  /\ UNCHANGED <<saves, oracles, rows>>

Start ==
  /\ at \in Idle /\ Segment < MaxSegments
  /\ \E want \in Wanted(0) : Begin(0, want)
  /\ episode' = 0
  /\ source' = NoSave
  /\ at' = "loop"

\* What is refused before a directory is made: a checkpoint without its
\* manifest, and, of a registered seed, a segment that ended by itself.
Resumable(save) ==
  /\ save.complete
  /\ save.update < Budget
  /\ registered => runs[save.segment].status \in {"running", "interrupted"}

Resume ==
  /\ at \in Idle /\ Segment < MaxSegments
  /\ \E save \in saves :
       /\ Resumable(save)
       /\ \E want \in Wanted(save.update) : Begin(0, want)
       /\ source' = save
  /\ episode' = 0
  /\ at' = "restore"

\* Mutation: nothing is asked of the segment that is resumed.
UnrestorableNever(save) == FALSE

\* Past the trigger, or a checkpoint the interrupted segment did not list.
Unrestorable(save) ==
  registered => \/ EarlyStopped({update \in runs[save.segment].probes : update <= save.update})
                \/ save.update \notin runs[save.segment].saved

RestoreRefused ==
  /\ at = "restore" /\ registered /\ Unrestorable(source)
  /\ EndWith("failed", "refused")

\* Mutation: the action stream is not restored.
LoadedWithoutStreams(native) ==
  [NewTrainer EXCEPT !.updates = native.updates, !.model = native.model, !.hidden = native.hidden]

\* RESTORE: parameters, optimizer, random streams, recurrent state, counters.
Loaded(native) ==
  [NewTrainer EXCEPT !.updates = native.updates, !.model = native.model, !.hidden = native.hidden,
                     !.samples = native.samples, !.shuffles = native.shuffles]

Restore ==
  /\ at = "restore" /\ ~(registered /\ Unrestorable(source))
  /\ trainer' = Loaded(source.trainer)
  /\ episode' = source.next
  /\ record' = [record EXCEPT !.from = source.update, !.updates = source.update,
       !.probes = IF registered THEN {u \in runs[source.segment].probes : u <= source.update} ELSE {}]
  /\ runs' = [runs EXCEPT ![Segment] = record']
  /\ at' = "loop"
  /\ UNCHANGED <<saves, source, index, game, cached, oracles, rows>>

-----------------------------------------------------------------------------
(* One decision                                                             *)

\* A new native game on the episode's map; the previous frame is discarded.
Reset ==
  /\ at = "loop" /\ game = NoGame
  /\ game' = [episode |-> episode, decision |-> 0]
  /\ episode' = episode + 1
  /\ cached' = NoGame
  /\ IF episode < Len(fate) THEN UNCHANGED fate ELSE \E length \in 1 .. Horizon : fate' = Append(fate, length)
  /\ UNCHANGED <<at, record, runs, saves, source, index, trainer, registered, stopAt, rows>>

\* Bankruptcy at any decision, else truncation at the horizon.  (Both at once
\* would differ from truncation in the bootstrap flag only.)
Ended(g) == g.decision = fate[g.episode + 1]
Terminal(g) == Ended(g) /\ g.decision < Horizon

ResetFlag == game.decision = 0   \* the game was None at the top of this turn

\* The trainer's ACT, and what it throws at.
ActAccepted ==
  /\ ~trainer.pending
  /\ Len(trainer.rollout) < Rollout
  /\ ResetFlag = trainer.expectedReset

\* Mutation: the recurrent state is not zeroed at a reset.
HiddenCarried == trainer.hidden

Hidden == IF ResetFlag THEN 0 ELSE trainer.hidden

Frame == IF cached = NoGame THEN game ELSE cached

\* The action is sampled from the frame, carried out and its tick interval
\* simulated; nothing of it is kept if the segment ends before the reward.
Act ==
  /\ at = "loop" /\ game # NoGame
  /\ ActAccepted /\ Frame = game
  /\ trainer' = [trainer EXCEPT
       !.pending = TRUE,
       !.rollout = Append(@, [step |-> StepNumber, frame |-> Frame, reset |-> ResetFlag,
                              hidden |-> Hidden, sample |-> trainer.samples, policy |-> trainer.updates]),
       !.hidden = Hidden + 1,
       !.samples = @ + 1]
  /\ game' = [game EXCEPT !.decision = @ + 1]
  /\ at' = "reward"
  /\ UNCHANGED <<record, runs, saves, source, index, episode, cached, oracles, rows>>

\* REWARD and its answer's position, the line of the trajectory, and the end
\* of the game if the transition does not continue.
RewardAccepted == trainer.pending /\ Len(trainer.rollout) = (index % Rollout) + 1

Line == [step |-> StepNumber, transition |-> Last(trainer.rollout),
         bootstrap |-> ~Terminal(game), continuation |-> ~Ended(game)]

Reward ==
  /\ at = "reward" /\ RewardAccepted
  /\ trainer' = [trainer EXCEPT !.pending = FALSE, !.expectedReset = Ended(game)]
  /\ rows' = rows \cup {Line}
  /\ cached' = IF Reuse /\ ~Ended(game) THEN game ELSE NoGame
  /\ game' = IF Ended(game) THEN NoGame ELSE game
  /\ index' = index + 1
  /\ at' = IF index' % Rollout = 0 THEN "update" ELSE "loop"
  /\ UNCHANGED <<record, runs, saves, source, episode, oracles>>

-----------------------------------------------------------------------------
(* One update                                                               *)

UpdateAccepted ==
  /\ ~trainer.pending
  /\ Len(trainer.rollout) = Rollout
  /\ (trainer.updates + 1) * Rollout = Restored + index

\* PPO over the rollout; a probe reads the policy and draws nothing.
Update ==
  /\ at = "update" /\ UpdateAccepted
  /\ trainer' = [trainer EXCEPT
       !.updates = @ + 1,
       !.model = Append(@, [rollout |-> trainer.rollout, shuffle |-> trainer.shuffles]),
       !.shuffles = @ + 1,
       !.rollout = <<>>,
       !.saveProbe = TRUE]
  /\ record' = [record EXCEPT
       !.updates = trainer'.updates,
       !.probes = IF Probed(trainer'.updates) THEN @ \cup {trainer'.updates} ELSE @]
  /\ at' = IF trainer'.updates % Interval = 0 THEN "checkpoint" ELSE "persist"
  /\ UNCHANGED <<runs, saves, source, index, episode, game, cached, oracles, rows>>

\* The trainer publishes its state only at a reset and after an update.
CheckpointAccepted ==
  ~trainer.pending /\ trainer.rollout = <<>> /\ trainer.expectedReset /\ trainer.updates > 0

Skip ==
  /\ at = "checkpoint" /\ game # NoGame
  /\ at' = "persist"
  /\ UNCHANGED <<record, runs, saves, source, index, episode, game, cached, trainer, oracles, rows>>

ThisSave(complete) ==
  [segment |-> Segment, update |-> trainer.updates, next |-> episode,
   trainer |-> trainer, complete |-> complete]

\* Mutation: a checkpoint is saved whether or not a game is running.
SaveAnytime == TRUE

SaveAllowed == game = NoGame

\* Mutation: run.json lists the checkpoint before its manifest is there.
PublishListed ==
  /\ at = "checkpoint" /\ SaveAllowed /\ CheckpointAccepted
  /\ saves' = saves \cup {ThisSave(FALSE)}
  /\ record' = [record EXCEPT !.saved = @ \cup {trainer.updates}]
  /\ runs' = [runs EXCEPT ![Segment] = record']
  /\ at' = "manifest"
  /\ UNCHANGED <<source, index, episode, game, cached, trainer, oracles, rows>>

\* The directory and trainer.pt, linked into place whole.
Publish ==
  /\ at = "checkpoint" /\ SaveAllowed /\ CheckpointAccepted
  /\ saves' = saves \cup {ThisSave(FALSE)}
  /\ at' = "manifest"
  /\ UNCHANGED <<record, runs, source, index, episode, game, cached, trainer, oracles, rows>>

\* The next game is opened and read to sign its reset, then checkpoint.json
\* is written.
Manifest ==
  /\ at = "manifest"
  /\ saves' = (saves \ {ThisSave(FALSE)}) \cup {ThisSave(TRUE)}
  /\ record' = [record EXCEPT !.saved = @ \cup {trainer.updates}]
  /\ at' = "persist"
  /\ UNCHANGED <<runs, source, index, episode, game, cached, trainer, oracles, rows>>

More == index < record.want * Rollout

Persist ==
  /\ at = "persist"
  /\ runs' = [runs EXCEPT ![Segment] = record]
  /\ at' = IF More /\ ~EarlyStopped(record.probes) THEN "loop" ELSE "finish"
  /\ UNCHANGED <<record, saves, source, index, episode, game, cached, trainer, oracles, rows>>

-----------------------------------------------------------------------------
\* SAVE needs an update of this very process; an unfinished game is closed.
WeightsAccepted == ~trainer.pending /\ trainer.rollout = <<>> /\ trainer.saveProbe

Finish ==
  /\ at = "finish" /\ WeightsAccepted
  /\ EndWith(IF EarlyStopped(record.probes) THEN "early-stopped" ELSE "completed", "none")

Decision == Reset \/ Act \/ Reward
Boundary == Update \/ Skip \/ Publish \/ Manifest \/ Persist \/ Finish
Next ==
  \/ Start \/ Resume \/ Restore \/ RestoreRefused
  \/ Decision \/ Boundary
  \/ Raised \/ Interrupted \/ Killed

Spec == Init /\ [][Next]_vars

-----------------------------------------------------------------------------
(* Properties                                                               *)

\* Whatever was interrupted and resumed from wherever, a decision is the same
\* decision in every segment that made it: same game and position, same policy,
\* same recurrent state, same draw (what verify_v2_resume compares).
ExactContinuation == \A a, b \in rows : a.step = b.step => a = b

\* The policy is trained on every decision once, in order, each rollout chosen
\* by the policy it updates and shuffled by the next draws; and the recurrent
\* state behind a decision never spans two games, however rollouts, episodes and
\* resumptions fall on one another.
TrainedInOrder ==
  /\ \A u \in 1 .. trainer.updates :
       /\ trainer.model[u].shuffle = u - 1
       /\ \A i \in 1 .. Rollout :
            LET t == trainer.model[u].rollout[i] IN
            t.step = (u - 1) * Rollout + i /\ t.policy = u - 1 /\ t.sample = t.step - 1
  /\ \A line \in rows : line.transition.hidden = line.transition.frame.decision

\* The driver and the trainer agree on resets, positions and counters whenever
\* one of them would throw: without a fault from outside no segment fails.
InStep ==
  /\ at = "loop" /\ game # NoGame => ActAccepted /\ Frame = game
  /\ at = "reward" => RewardAccepted
  /\ at = "update" => UpdateAccepted
  /\ at = "checkpoint" /\ SaveAllowed => CheckpointAccepted
  /\ at = "finish" => WeightsAccepted

\* A checkpoint that run.json lists as saved is whole, at a reset, and with the
\* counters its name says, so a resumption from it succeeds.
ListedIsRestorable ==
  \A n \in DOMAIN runs, update \in 1 .. Budget :
    update \in runs[n].saved =>
      \E save \in saves :
        /\ save.segment = n /\ save.update = update /\ save.complete
        /\ save.trainer.expectedReset /\ save.trainer.rollout = <<>>
        /\ save.trainer.updates = update

\* A registered run that says it completed has used the whole budget, probed all
\* along; one that says it stopped early stopped at the trigger; and once the
\* early-stop rule has fired, no segment plays a decision beyond it.
EndsWhereItShould ==
  /\ registered => \A n \in DOMAIN runs :
       /\ runs[n].status = "completed" =>
            runs[n].updates = Budget /\ runs[n].probes = {u \in 1 .. Budget : Probed(u)}
       /\ runs[n].status = "early-stopped" => runs[n].updates = stopAt
  /\ stopAt # Never => \A line \in rows : line.step <= stopAt * Rollout
=============================================================================
