------------------------- MODULE LiveTrainingProofs -------------------------
(***************************************************************************)
(* Live training, for any horizon, rollout length, interval, budget and    *)
(* number of segments: the driver never asks the trainer for what it would *)
(* throw at, a listed checkpoint can be restored, the policy is trained on *)
(* every decision once and in order, a registered run ends at its budget   *)
(* or its trigger, and a decision is the same decision in every segment    *)
(* that made it, through any number of interruptions and resumptions.      *)
(***************************************************************************)
EXTENDS LiveTraining, TLAPS

Active == {"loop", "reward", "update", "checkpoint", "manifest", "persist", "finish"}
Boundaries == {"checkpoint", "manifest", "persist", "finish"}

Frames == [episode : Int, decision : Int]
Games == [episode : Nat, decision : Nat]
Transitions == [step : Nat, frame : Frames, reset : BOOLEAN, hidden : Int, sample : Nat, policy : Nat]
Trainings == [rollout : Seq(Transitions), shuffle : Nat]
Trainers == [pending : BOOLEAN, rollout : Seq(Transitions), expectedReset : BOOLEAN, updates : Nat,
             hidden : Int, samples : Nat, shuffles : Nat, model : Seq(Trainings), saveProbe : BOOLEAN]
Records == [status : {"running", "failed", "interrupted", "early-stopped", "completed"},
            error : {"none", "fault", "refused"}, from : Nat, want : Nat,
            updates : Nat, probes : SUBSET Nat, saved : SUBSET Nat]
Saves == [segment : Nat, update : Nat, next : Nat, trainer : Trainers, complete : BOOLEAN]

Types ==
  /\ registered \in BOOLEAN
  /\ at \in Active \cup {"idle", "over", "restore"}
  /\ record \in Records /\ runs \in Seq(Records)
  /\ saves \subseteq Saves
  /\ source \in Saves \cup {NoSave}
  /\ index \in Nat /\ episode \in Nat
  /\ game \in Games \cup {NoGame}
  /\ cached \in Games \cup {NoGame}
  /\ trainer \in Trainers

(* The decisions of the first updates.                                     *)
Decided == [n \in Nat |-> n * Rollout]

(* What a trainer has learned: rollout after rollout, in order.            *)
InOrder(transition, k, update) ==
  /\ transition.step = k /\ transition.policy = update /\ transition.sample = k - 1
  /\ transition.hidden = transition.frame.decision

Trained(t) ==
  /\ t.shuffles = t.updates /\ Len(t.model) = t.updates
  /\ \A u \in 1 .. t.updates :
       /\ t.model[u].shuffle = u - 1 /\ Len(t.model[u].rollout) = Rollout
       /\ \A i \in 1 .. Rollout : InOrder(t.model[u].rollout[i], Decided[u - 1] + i, u - 1)

(* A rollout in progress goes on where the last one ended.                 *)
Learning ==
  /\ Trained(trainer)
  /\ trainer.samples = Decided[trainer.updates] + Len(trainer.rollout)
  /\ \A i \in 1 .. Len(trainer.rollout) :
       InOrder(trainer.rollout[i], Decided[trainer.updates] + i, trainer.updates)
  /\ game # NoGame => (game.decision > 0 => trainer.hidden = game.decision)
  /\ \A line \in rows : line.transition.hidden = line.transition.frame.decision

(* The driver's count of decisions against the trainer's of updates.       *)
Counting ==
  at \in Active =>
    /\ trainer.updates >= record.from
    /\ Decided[trainer.updates] + Len(trainer.rollout) =
         Decided[record.from] + index + (IF at = "reward" THEN 1 ELSE 0)
    /\ at = "loop" => Len(trainer.rollout) < Rollout
    /\ at = "reward" => Len(trainer.rollout) \in 1 .. Rollout
    /\ at = "update" => Len(trainer.rollout) = Rollout
    /\ at \in Boundaries => trainer.rollout = <<>> /\ trainer.updates > 0 /\ trainer.saveProbe

(* The driver's game against the reset the trainer expects.                *)
Resetting ==
  /\ at \notin Active => game = NoGame /\ cached = NoGame
  /\ at \in Active =>
       /\ trainer.pending <=> at = "reward"
       /\ at = "reward" => game # NoGame /\ game.decision > 0
       /\ at # "reward" =>
            /\ trainer.expectedReset <=> (game = NoGame \/ game.decision = 0)
            /\ cached \in {NoGame, game}
       /\ at = "manifest" => game = NoGame

(* What is on disk.                                                        *)
Sound(save) ==
  /\ save.segment \in 1 .. Len(runs)
  /\ save.trainer.updates = save.update /\ save.trainer.rollout = <<>>
  /\ save.trainer.expectedReset /\ ~save.trainer.pending
  /\ save.trainer.samples = Decided[save.update]
  /\ Trained(save.trainer)

Listed(n, update) ==
  \E save \in saves : save.segment = n /\ save.update = update /\ save.complete

OnDisk ==
  /\ at \notin {"idle", "over"} => Len(runs) > 0
  /\ \A save \in saves : Sound(save)
  /\ at = "restore" => source \in saves /\ source.complete /\ index = 0
  /\ \A n \in 1 .. Len(runs) : \A update \in runs[n].saved : Listed(n, update)
  /\ at \notin {"idle", "over"} => \A update \in record.saved : Listed(Len(runs), update)

IInv == Types /\ Learning /\ Counting /\ Resetting /\ OnDisk

-----------------------------------------------------------------------------
LEMMA Params == Horizon \in Nat \ {0} /\ Rollout \in Nat \ {0} /\ Reuse \in BOOLEAN /\ Budget \in Nat \ {0}
  BY LiveTrainingAssumption

\* Rollouts counted in decisions.
LEMMA Decisions == Decided[0] = 0 /\ \A q \in Nat : Decided[q] \in Nat
  BY Params DEF Decided

LEMMA NextUpdate == \A q \in Nat : Decided[q + 1] = Decided[q] + Rollout
  BY Params DEF Decided

LEMMA Position ==
  ASSUME NEW q \in Nat, NEW l \in 0 .. Rollout - 1
  PROVE  (Decided[q] + l) % Rollout = l
  BY Params DEF Decided

\* The place in a rollout, from the decisions since the segment began.
LEMMA Located ==
  ASSUME NEW u \in Nat, NEW f \in Nat, u >= f, NEW n \in Nat, NEW l \in 0 .. Rollout,
         Decided[u] + l = Decided[f] + n
  PROVE  n % Rollout = (IF l = Rollout THEN 0 ELSE l)
  <1> DEFINE q == u - f
  <1>1. q \in Nat /\ Decided[q] = Decided[u] - Decided[f]
    BY Params DEF Decided
  <1> HIDE DEF q
  <1>2. n = Decided[q] + l /\ Decided[q] \in Nat
    <2> DEFINE a == Decided[u] b == Decided[f] c == Decided[q]
    <2>1. a \in Nat /\ b \in Nat /\ c \in Nat /\ a + l = b + n /\ c = a - b
      BY <1>1, Decisions
    <2> HIDE DEF a, b, c
    <2>2. n = c + l /\ c \in Nat
      BY <2>1, Params
    <2> QED
      BY <2>2 DEF c
  <1>3. CASE l < Rollout
    BY <1>1, <1>2, <1>3, Position, Params
  <1>4. CASE l = Rollout
    <2>1. Decided[q + 1] = Decided[q] + Rollout /\ q + 1 \in Nat
      BY <1>1, NextUpdate
    <2>2. (Decided[q + 1] + 0) % Rollout = 0
      BY <2>1, Position, Params
    <2>3. n = Decided[q + 1] + 0
      <3> DEFINE c == Decided[q] d == Decided[q + 1]
      <3>1. n = c + l /\ c \in Nat /\ d = c + Rollout
        BY <1>2, <2>1
      <3> HIDE DEF c, d
      <3>2. n = d + 0
        BY <3>1, <1>4, Params
      <3> QED
        BY <3>2 DEF d
    <2> QED
      BY <1>4, <2>2, <2>3
  <1> QED
    BY <1>3, <1>4, Params

LEMMA NewTrainers ==
  /\ NewTrainer \in Trainers /\ Trained(NewTrainer)
  /\ ~NewTrainer.pending /\ NewTrainer.rollout = <<>> /\ NewTrainer.expectedReset
  /\ NewTrainer.updates = 0 /\ NewTrainer.samples = 0
  BY DEF NewTrainer, Trainers, Trained

LEMMA NoGames == NoGame \notin Games /\ NoGame \in Frames /\ Games \subseteq Frames
  BY DEF NoGame, Games, Frames

\* A run.json that is written again.
LEMMA Rewritten ==
  ASSUME Types, NEW r \in Records, NEW n \in 1 .. Len(runs), NEW new, new = [runs EXCEPT ![n] = r]
  PROVE  /\ new \in Seq(Records) /\ Len(new) = Len(runs) /\ new[n] = r
         /\ \A m \in 1 .. Len(runs) : m # n => new[m] = runs[m]
  BY DEF Types

\* What was learned and saved is not touched by a step that only writes run.json.
LEMMA OnDiskKept ==
  ASSUME Types, OnDisk, NEW r \in Records, Len(runs) > 0,
         \A update \in r.saved : Listed(Len(runs), update),
         runs' = [runs EXCEPT ![Len(runs)] = r], UNCHANGED saves
  PROVE  /\ runs' \in Seq(Records) /\ Len(runs') = Len(runs)
         /\ (\A save \in saves : Sound(save))'
         /\ (\A n \in 1 .. Len(runs) : \A update \in runs[n].saved : Listed(n, update))'
         /\ \A n, update : Listed(n, update)' <=> Listed(n, update)
  <1>1. /\ runs' \in Seq(Records) /\ Len(runs') = Len(runs) /\ runs'[Len(runs)] = r
        /\ \A m \in 1 .. Len(runs) : m # Len(runs) => runs'[m] = runs[m]
    BY Rewritten DEF Types
  <1>2. (\A save \in saves : Sound(save))'
    BY <1>1 DEF OnDisk, Sound, Trained, InOrder
  <1>3. \A n, update : Listed(n, update)' <=> Listed(n, update)
    BY DEF Listed
  <1>4. (\A n \in 1 .. Len(runs) : \A update \in runs[n].saved : Listed(n, update))'
    BY <1>1, <1>3 DEF OnDisk
  <1> QED
    BY <1>1, <1>2, <1>3, <1>4

-----------------------------------------------------------------------------
LEMMA InitHolds == Init => IInv
  <1> SUFFICES ASSUME Init PROVE IInv
    OBVIOUS
  <1>1. Types
    <2>1. NewRecord(0, 0) \in Records
      BY DEF NewRecord, Records
    <2> QED
      BY <2>1, NewTrainers DEF Init, Types
  <1>2. Learning
    <2>1. trainer = NewTrainer /\ game = NoGame /\ rows = {}
      BY DEF Init
    <2> QED
      BY <2>1, NewTrainers, Decisions DEF Learning
  <1>3. Counting /\ Resetting /\ OnDisk
    BY DEF Init, Counting, Resetting, OnDisk, Active
  <1> QED
    BY <1>1, <1>2, <1>3 DEF IInv

\* The end of a segment, whichever way.
LEMMA EndHolds ==
  ASSUME IInv, at \notin Idle,
         \/ \E s \in {"failed", "interrupted", "early-stopped", "completed"}, e \in {"none", "fault", "refused"} : EndWith(s, e)
         \/ Killed
  PROVE  IInv'
  <1>1. /\ at' = "over" /\ trainer' = NewTrainer /\ game' = NoGame /\ cached' = NoGame
        /\ source' = NoSave /\ index' = 0 /\ episode' = 0 /\ UNCHANGED <<saves, registered, rows>>
    BY DEF EndWith, Killed, Aborted, oracles
  <1>2. record' \in Records /\ record'.saved = record.saved
    BY DEF EndWith, Killed, IInv, Types, Records
  <1>3. runs' = [runs EXCEPT ![Len(runs)] = record'] \/ runs' = runs
    BY DEF EndWith, Killed, Segment
  <1>4. Len(runs) > 0 /\ \A update \in record.saved : Listed(Len(runs), update)
    BY DEF IInv, OnDisk, Idle
  <1>5. /\ runs' \in Seq(Records) /\ Len(runs') = Len(runs)
        /\ (\A save \in saves : Sound(save))'
        /\ (\A n \in 1 .. Len(runs) : \A update \in runs[n].saved : Listed(n, update))'
    <2>1. CASE runs' = [runs EXCEPT ![Len(runs)] = record']
      BY <1>1, <1>2, <1>4, <2>1, OnDiskKept DEF IInv
    <2>2. CASE runs' = runs
      BY <1>1, <2>2 DEF IInv, Types, OnDisk, Sound, Listed
    <2> QED
      BY <1>3, <2>1, <2>2
  <1>6. Types'
    BY <1>1, <1>2, <1>5, NewTrainers DEF IInv, Types
  <1>7. Learning'
    BY <1>1, NewTrainers, Decisions DEF IInv, Learning
  <1>8. Counting' /\ Resetting'
    BY <1>1 DEF Counting, Resetting, Active
  <1>9. OnDisk'
    BY <1>1, <1>5 DEF OnDisk
  <1> QED
    BY <1>6, <1>7, <1>8, <1>9 DEF IInv

\* A new segment: its directory and run.json come first.
LEMMA BeginHolds ==
  ASSUME IInv, NEW want \in Nat, Begin(0, want), episode' = 0,
         \/ at' = "loop" /\ source' = NoSave
         \/ at' = "restore" /\ source' \in saves /\ source'.complete
  PROVE  IInv'
  <1>1. /\ record' = NewRecord(0, want) /\ runs' = Append(runs, record') /\ index' = 0
        /\ trainer' = NewTrainer /\ game' = NoGame /\ cached' = NoGame
        /\ UNCHANGED <<saves, registered, rows>>
    BY DEF Begin, oracles
  <1>2. record' \in Records /\ record'.from = 0 /\ record'.saved = {}
    BY <1>1 DEF NewRecord, Records
  <1>3. /\ runs' \in Seq(Records) /\ Len(runs') = Len(runs) + 1 /\ Len(runs) \in Nat
        /\ runs'[Len(runs')] = record' /\ \A n \in 1 .. Len(runs) : runs'[n] = runs[n]
    BY <1>1, <1>2 DEF IInv, Types
  <1>4. Types'
    BY <1>1, <1>2, <1>3, NewTrainers DEF IInv, Types, Active
  <1>5. Learning'
    BY <1>1, NewTrainers, Decisions DEF IInv, Learning
  <1>6. Counting'
    BY <1>1, <1>2, NewTrainers, Decisions, Params DEF Counting, Boundaries
  <1>7. Resetting'
    BY <1>1, NewTrainers DEF Resetting, Active
  <1>8. OnDisk'
    <2>1. (\A save \in saves : Sound(save))'
      BY <1>1, <1>3 DEF IInv, OnDisk, Sound, Trained, InOrder
    <2>2. (\A n \in 1 .. Len(runs) : \A update \in runs[n].saved : Listed(n, update))'
      BY <1>1, <1>2, <1>3 DEF IInv, OnDisk, Listed
    <2> QED
      BY <1>1, <1>2, <1>3, <2>1, <2>2 DEF OnDisk
  <1> QED
    BY <1>4, <1>5, <1>6, <1>7, <1>8 DEF IInv

LEMMA WantedCounts ==
  ASSUME NEW from \in Nat, from <= Budget, NEW want \in Wanted(from)
  PROVE  want \in Nat
  BY Params DEF Wanted

LEMMA StartHolds ==
  ASSUME IInv, Start PROVE IInv'
  BY BeginHolds, WantedCounts, Params DEF Start

LEMMA ResumeHolds ==
  ASSUME IInv, Resume PROVE IInv'
  <1>1. PICK save \in saves : Resumable(save) /\ source' = save /\ \E want \in Wanted(save.update) : Begin(0, want)
    BY DEF Resume
  <1>2. save.complete /\ save.update \in Nat /\ save.update <= Budget
    BY <1>1, Params DEF Resumable, IInv, Types, Saves
  <1> QED
    BY <1>1, <1>2, BeginHolds, WantedCounts DEF Resume

\* The trainer takes the parameters, the streams and the counters of the checkpoint.
LEMMA RestoreHolds ==
  ASSUME IInv, Restore PROVE IInv'
  <1>1. /\ at = "restore" /\ at' = "loop" /\ trainer' = Loaded(source.trainer)
        /\ UNCHANGED <<saves, source, index, game, cached, registered, rows>>
        /\ episode' = source.next /\ runs' = [runs EXCEPT ![Len(runs)] = record']
    BY DEF Restore, oracles, Segment
  <1>2. /\ source \in saves /\ source \in Saves /\ Sound(source) /\ index = 0 /\ game = NoGame
        /\ cached \in Games \cup {NoGame} /\ Len(runs) > 0
    BY <1>1 DEF IInv, Types, OnDisk, Resetting, Active
  <1>3. cached = NoGame
    BY <1>1 DEF IInv, Resetting, Active
  <1>4. /\ trainer' \in Trainers /\ ~trainer'.pending /\ trainer'.rollout = <<>> /\ trainer'.expectedReset
        /\ trainer'.updates = source.update /\ trainer'.samples = Decided[source.update]
        /\ trainer'.shuffles = source.trainer.shuffles /\ trainer'.model = source.trainer.model
    BY <1>1, <1>2 DEF Loaded, NewTrainer, Trainers, Sound, Saves
  <1>5. record' \in Records /\ record'.from = source.update /\ record'.saved = record.saved
    <2>1. source.segment \in 1 .. Len(runs) /\ runs[source.segment] \in Records
      BY <1>2 DEF Sound, IInv, Types
    <2> QED
      BY <1>2, <2>1 DEF Restore, Records, Saves, IInv, Types
  <1>6. source.update \in Nat /\ source.next \in Nat
    BY <1>2 DEF Saves
  <1>7. /\ runs' \in Seq(Records) /\ Len(runs') = Len(runs)
        /\ (\A save \in saves : Sound(save))'
        /\ (\A n \in 1 .. Len(runs) : \A update \in runs[n].saved : Listed(n, update))'
        /\ \A n, update : Listed(n, update)' <=> Listed(n, update)
    BY <1>1, <1>2, <1>5, OnDiskKept DEF IInv, OnDisk
  <1>8. Types'
    BY <1>1, <1>4, <1>5, <1>6, <1>7 DEF IInv, Types, Active
  <1>9. Learning'
    <2>1. Trained(trainer')
      BY <1>2, <1>4 DEF Sound, Trained
    <2>2. trainer'.samples = Decided[trainer'.updates] + Len(trainer'.rollout) /\ Len(trainer'.rollout) = 0
      BY <1>4, <1>6, Decisions
    <2> QED
      BY <1>1, <1>2, <1>4, <2>1, <2>2 DEF IInv, Learning
  <1>10. Counting'
    BY <1>1, <1>2, <1>4, <1>5, <1>6, Decisions, Params DEF Counting, Boundaries
  <1>11. Resetting'
    BY <1>1, <1>2, <1>3, <1>4 DEF Resetting, Active
  <1>12. OnDisk'
    BY <1>1, <1>2, <1>5, <1>7 DEF IInv, OnDisk
  <1> QED
    BY <1>8, <1>9, <1>10, <1>11, <1>12 DEF IInv

-----------------------------------------------------------------------------
\* A new game: the trainer has been told to expect it.
LEMMA ResetHolds ==
  ASSUME IInv, Reset PROVE IInv'
  <1>1. /\ at = "loop" /\ game = NoGame /\ game' = [episode |-> episode, decision |-> 0]
        /\ episode' = episode + 1 /\ cached' = NoGame
        /\ UNCHANGED <<at, record, runs, saves, source, index, trainer, registered, rows>>
    BY DEF Reset
  <1>2. game' \in Games /\ game'.decision = 0 /\ episode' \in Nat
    BY <1>1 DEF Games, IInv, Types
  <1>3. Types'
    BY <1>1, <1>2 DEF IInv, Types
  <1>4. Learning'
    BY <1>1, <1>2 DEF IInv, Learning, Trained, InOrder
  <1>5. Counting'
    BY <1>1 DEF IInv, Counting
  <1>6. Resetting'
    BY <1>1, <1>2 DEF IInv, Resetting, Active
  <1>7. OnDisk'
    BY <1>1 DEF IInv, OnDisk, Sound, Listed, Trained, InOrder
  <1> QED
    BY <1>3, <1>4, <1>5, <1>6, <1>7 DEF IInv

\* An action: one more transition of the rollout.
LEMMA ActHolds ==
  ASSUME IInv, Act PROVE IInv'
  <1> DEFINE new == [step |-> StepNumber, frame |-> Frame, reset |-> ResetFlag,
                     hidden |-> Hidden, sample |-> trainer.samples, policy |-> trainer.updates]
  <1>1. /\ at = "loop" /\ at' = "reward" /\ game # NoGame /\ Frame = game
        /\ Len(trainer.rollout) < Rollout /\ ~trainer.pending
        /\ UNCHANGED <<record, runs, saves, source, index, episode, cached, registered, rows>>
    BY DEF Act, ActAccepted, oracles
  <1>2. /\ game \in Games /\ game' = [game EXCEPT !.decision = @ + 1]
        /\ game' \in Games /\ game'.decision = game.decision + 1 /\ game.decision \in Nat
    BY <1>1 DEF Act, IInv, Types, Games
  <1>3. Hidden = game.decision
    BY <1>1, <1>2 DEF Hidden, ResetFlag, IInv, Learning
  <1>4. /\ trainer.updates \in Nat /\ record.from \in Nat /\ trainer.updates >= record.from /\ index \in Nat
        /\ Decided[trainer.updates] \in Nat /\ Decided[record.from] \in Nat /\ Len(trainer.rollout) \in Nat
        /\ Decided[trainer.updates] + Len(trainer.rollout) = Decided[record.from] + index
        /\ trainer.samples = Decided[trainer.updates] + Len(trainer.rollout)
    BY <1>1, Decisions DEF IInv, Types, Trainers, Records, Learning, Counting, Active
  <1>14. /\ StepNumber \in Nat /\ StepNumber = Decided[trainer.updates] + Len(trainer.rollout) + 1
         /\ trainer.samples = StepNumber - 1
    <2>1. StepNumber = Decided[record.from] + index + 1
      BY <1>4 DEF StepNumber, Restored, Decided
    <2> QED
      BY <1>4, <2>1
  <1>5. new \in Transitions /\ InOrder(new, StepNumber, trainer.updates)
    BY <1>1, <1>2, <1>3, <1>4, <1>14, NoGames DEF Transitions, InOrder, ResetFlag, Games, Frames, IInv, Types, Trainers
  <1> HIDE DEF new
  <1>6. trainer' = [trainer EXCEPT !.pending = TRUE, !.rollout = Append(@, new), !.hidden = Hidden + 1, !.samples = @ + 1]
    BY DEF Act, new
  <1>15. /\ trainer \in Trainers /\ Append(trainer.rollout, new) \in Seq(Transitions)
         /\ Hidden + 1 \in Int /\ trainer.samples + 1 \in Nat
    <2>1. trainer \in Trainers
      BY DEF IInv, Types
    <2>2. trainer.rollout \in Seq(Transitions) /\ trainer.samples \in Nat
      BY <2>1 DEF Trainers
    <2>3. Append(trainer.rollout, new) \in Seq(Transitions)
      BY <1>5, <2>2
    <2>4. Hidden + 1 \in Int /\ trainer.samples + 1 \in Nat
      BY <1>2, <1>3, <2>2
    <2> QED
      BY <2>1, <2>3, <2>4
  <1>7. /\ trainer' \in Trainers /\ trainer'.rollout = Append(trainer.rollout, new) /\ trainer'.pending
        /\ trainer'.hidden = game'.decision /\ trainer'.samples = trainer.samples + 1
        /\ trainer'.updates = trainer.updates /\ trainer'.shuffles = trainer.shuffles /\ trainer'.model = trainer.model
    BY <1>2, <1>3, <1>6, <1>15 DEF Trainers
  <1>8. /\ Len(trainer'.rollout) = Len(trainer.rollout) + 1
        /\ trainer'.updates = trainer.updates /\ trainer'.samples = trainer.samples + 1
    BY <1>5, <1>7 DEF IInv, Types, Trainers
  <1>16. /\ trainer'.rollout[Len(trainer.rollout) + 1] = new
         /\ \A i \in 1 .. Len(trainer.rollout) : trainer'.rollout[i] = trainer.rollout[i]
    BY <1>5, <1>7 DEF IInv, Types, Trainers
  <1>9. Types'
    BY <1>1, <1>2, <1>7 DEF IInv, Types, Active
  <1>10. Learning'
    <2>1. Trained(trainer')
      BY <1>7 DEF IInv, Learning, Trained
    <2>2. trainer'.samples = Decided[trainer'.updates] + Len(trainer'.rollout)
      <3> DEFINE learned == Decided[trainer.updates]
      <3>1. /\ learned \in Nat /\ trainer.samples = learned + Len(trainer.rollout)
            /\ Decided[trainer'.updates] = learned
        BY <1>4, <1>8
      <3> HIDE DEF learned
      <3> QED
        BY <1>8, <1>4, <3>1
    <2>3. \A i \in 1 .. Len(trainer'.rollout) :
            InOrder(trainer'.rollout[i], Decided[trainer'.updates] + i, trainer'.updates)
      <3> TAKE i \in 1 .. Len(trainer'.rollout)
      <3>1. CASE i \in 1 .. Len(trainer.rollout)
        BY <1>8, <1>16, <3>1 DEF IInv, Learning
      <3>2. CASE i = Len(trainer.rollout) + 1
        <4>1. Decided[trainer.updates] + i = StepNumber
          BY <1>4, <1>14, <3>2
        <4> QED
          BY <1>5, <1>8, <1>16, <3>2, <4>1
      <3> QED
        BY <1>4, <1>8, <3>1, <3>2
    <2> QED
      BY <1>1, <1>7, <2>1, <2>2, <2>3 DEF IInv, Learning
  <1>11. Counting'
    BY <1>1, <1>4, <1>8, Params DEF Counting, Boundaries, Active
  <1>12. Resetting'
    BY <1>1, <1>2, <1>7, NoGames DEF Resetting, Active
  <1>13. OnDisk'
    BY <1>1 DEF IInv, OnDisk, Sound, Listed, Trained, InOrder
  <1> QED
    BY <1>9, <1>10, <1>11, <1>12, <1>13 DEF IInv

\* Its reward: the game goes on, or the trainer is to expect a reset.
LEMMA RewardHolds ==
  ASSUME IInv, Reward PROVE IInv'
  <1>1. /\ at = "reward" /\ at' = (IF (index + 1) % Rollout = 0 THEN "update" ELSE "loop")
        /\ index' = index + 1 /\ rows' = rows \cup {Line}
        /\ game' = (IF Ended(game) THEN NoGame ELSE game)
        /\ cached' = (IF Reuse /\ ~Ended(game) THEN game ELSE NoGame)
        /\ UNCHANGED <<record, runs, saves, source, episode, registered>>
    BY DEF Reward, oracles
  <1>2. game \in Games /\ game # NoGame /\ game.decision > 0 /\ game.decision \in Nat
    BY <1>1 DEF IInv, Types, Resetting, Active, Games
  <1>3. /\ trainer' \in Trainers /\ ~trainer'.pending /\ (trainer'.expectedReset <=> Ended(game))
        /\ trainer'.rollout = trainer.rollout /\ trainer'.updates = trainer.updates /\ trainer'.hidden = trainer.hidden
        /\ trainer'.samples = trainer.samples /\ trainer'.shuffles = trainer.shuffles /\ trainer'.model = trainer.model
        /\ trainer'.saveProbe = trainer.saveProbe
    BY DEF Reward, Ended, IInv, Types, Trainers
  <1>4. /\ trainer.updates \in Nat /\ record.from \in Nat /\ trainer.updates >= record.from /\ index \in Nat
        /\ Len(trainer.rollout) \in 1 .. Rollout
        /\ Decided[trainer.updates] + Len(trainer.rollout) = Decided[record.from] + index + 1
    BY <1>1 DEF IInv, Types, Trainers, Records, Counting, Active
  <1> DEFINE learned == Decided[trainer.updates]
             begun == Decided[record.from]
             in == Len(trainer.rollout)
  <1>5. learned \in Nat /\ begun \in Nat /\ in \in 1 .. Rollout /\ learned + in = begun + index + 1
    BY <1>4, Decisions
  <1>6. (index + 1) % Rollout = 0 <=> in = Rollout
    <2> HIDE DEF learned, begun, in
    <2>1. learned + in = begun + (index + 1) /\ index + 1 \in Nat /\ in \in 0 .. Rollout
      BY <1>4, <1>5, Params
    <2>2. \A n \in Nat : learned + in = begun + n => n % Rollout = (IF in = Rollout THEN 0 ELSE in)
      BY <1>4, <2>1, Located DEF learned, begun
    <2>3. (index + 1) % Rollout = (IF in = Rollout THEN 0 ELSE in)
      BY <2>1, <2>2
    <2> QED
      BY <1>5, <2>3, Params
  <1>7. Types'
    BY <1>1, <1>2, <1>3, <1>4 DEF IInv, Types, Active
  <1>8. Learning'
    <2>1. Line.transition = trainer.rollout[Len(trainer.rollout)]
      BY DEF Line, Last
    <2>2. Line.transition.hidden = Line.transition.frame.decision
      BY <1>4, <2>1 DEF IInv, Learning, InOrder
    <2>3. Trained(trainer')
      BY <1>3 DEF IInv, Learning, Trained
    <2> QED
      BY <1>1, <1>2, <1>3, <2>2, <2>3 DEF IInv, Learning
  <1>9. Counting'
    <2>1. /\ Decided[trainer'.updates] = learned /\ Decided[record'.from] = begun /\ Len(trainer'.rollout) = in
          /\ trainer'.updates >= record'.from
      BY <1>1, <1>3, <1>4
    <2>2. at' \in {"loop", "update"} /\ (at' = "update" <=> in = Rollout)
      BY <1>1, <1>6
    <2> HIDE DEF learned, begun, in
    <2>3. learned + in = begun + index'
      BY <1>1, <1>4, <1>5
    <2>4. (at' = "loop" => in < Rollout) /\ (at' = "update" => in = Rollout)
      BY <1>5, <2>2, Params
    <2> QED
      BY <2>1, <2>2, <2>3, <2>4, <1>5, <1>1, <1>4 DEF Counting, Boundaries
  <1>10. Resetting'
    <2>1. CASE Ended(game)
      BY <1>1, <1>3, <2>1 DEF Resetting, Active
    <2>2. CASE ~Ended(game)
      BY <1>1, <1>2, <1>3, <2>2 DEF Resetting, Active
    <2> QED
      BY <2>1, <2>2
  <1>11. OnDisk'
    BY <1>1 DEF IInv, OnDisk, Sound, Listed, Trained, InOrder
  <1> QED
    BY <1>7, <1>8, <1>9, <1>10, <1>11 DEF IInv

-----------------------------------------------------------------------------
\* The rollout becomes the next training.
LEMMA UpdateHolds ==
  ASSUME IInv, Update PROVE IInv'
  <1> DEFINE new == [rollout |-> trainer.rollout, shuffle |-> trainer.shuffles]
             next == trainer.updates + 1
  <1>1. /\ at = "update" /\ at' \in {"checkpoint", "persist"} /\ ~trainer.pending
        /\ UNCHANGED <<runs, saves, source, index, episode, game, cached, registered, rows>>
    BY DEF Update, UpdateAccepted, oracles
  <1>2. /\ trainer.updates \in Nat /\ record.from \in Nat /\ trainer.updates >= record.from /\ index \in Nat
        /\ trainer.rollout \in Seq(Transitions) /\ trainer.shuffles = trainer.updates
        /\ trainer.model \in Seq(Trainings) /\ Len(trainer.model) = trainer.updates
        /\ Len(trainer.rollout) = Rollout
    BY <1>1 DEF IInv, Types, Trainers, Records, Learning, Trained, Counting, Active
  <1>13. /\ Decided[trainer.updates] + Rollout = Decided[record.from] + index
         /\ trainer.samples = Decided[trainer.updates] + Rollout
    <2> DEFINE learned == Decided[trainer.updates]
               begun == Decided[record.from]
               in == Len(trainer.rollout)
    <2>1. learned + in = begun + index + 0 /\ trainer.samples = learned + in
      BY <1>1 DEF IInv, Learning, Counting, Active
    <2>2. learned \in Nat /\ begun \in Nat /\ in = Rollout
      BY <1>2, Decisions
    <2> HIDE DEF learned, begun, in
    <2>3. learned + Rollout = begun + index /\ trainer.samples = learned + Rollout
      BY <1>2, <2>1, <2>2, Params
    <2> QED
      BY <2>3 DEF learned, begun
  <1>3. new \in Trainings /\ next \in Nat
    BY <1>2 DEF Trainings
  <1> HIDE DEF new
  <1>4. /\ trainer' \in Trainers /\ trainer'.rollout = <<>> /\ ~trainer'.pending /\ trainer'.saveProbe
        /\ trainer'.updates = next /\ trainer'.shuffles = next /\ trainer'.model = Append(trainer.model, new)
        /\ trainer'.expectedReset = trainer.expectedReset /\ trainer'.samples = trainer.samples
        /\ trainer'.hidden = trainer.hidden
    <2>1. trainer' = [trainer EXCEPT !.updates = @ + 1, !.model = Append(@, new), !.shuffles = @ + 1,
                                     !.rollout = <<>>, !.saveProbe = TRUE]
      BY DEF Update, new
    <2>2. /\ trainer \in Trainers /\ ~trainer.pending
          /\ Append(trainer.model, new) \in Seq(Trainings) /\ <<>> \in Seq(Transitions)
          /\ trainer.updates + 1 \in Nat /\ trainer.shuffles + 1 \in Nat
      BY <1>1, <1>2, <1>3 DEF IInv, Types
    <2>3. trainer' \in Trainers
      BY <2>1, <2>2 DEF Trainers
    <2> QED
      BY <1>2, <2>1, <2>2, <2>3 DEF Trainers
  <1>5. record' \in Records /\ record'.from = record.from /\ record'.saved = record.saved
    BY <1>3, <1>4 DEF Update, IInv, Types, Records
  <1>6. Types'
    BY <1>1, <1>4, <1>5 DEF IInv, Types, Active
  <1>7. Trained(trainer')
    <2>1. /\ Len(trainer'.model) = next /\ trainer'.model[next] = new
          /\ \A u \in 1 .. trainer.updates : trainer'.model[u] = trainer.model[u]
      BY <1>2, <1>3, <1>4
    <2> SUFFICES ASSUME NEW u \in 1 .. next
                 PROVE  /\ trainer'.model[u].shuffle = u - 1 /\ Len(trainer'.model[u].rollout) = Rollout
                        /\ \A i \in 1 .. Rollout :
                             InOrder(trainer'.model[u].rollout[i], Decided[u - 1] + i, u - 1)
      BY <1>4, <2>1 DEF Trained
    <2>2. CASE u \in 1 .. trainer.updates
      BY <2>1, <2>2 DEF IInv, Learning, Trained
    <2>3. CASE u = next
      <3>1. u - 1 = trainer.updates /\ trainer'.model[u] = new
        BY <1>2, <2>1, <2>3
      <3>2. new.shuffle = trainer.updates /\ new.rollout = trainer.rollout
        BY <1>2 DEF new
      <3>3. \A i \in 1 .. Rollout : InOrder(trainer.rollout[i], Decided[trainer.updates] + i, trainer.updates)
        BY <1>2 DEF IInv, Learning
      <3> QED
        BY <1>2, <3>1, <3>2, <3>3
    <2> QED
      BY <1>2, <2>2, <2>3
  <1>8. Decided[next] = Decided[trainer.updates] + Rollout
    BY <1>2, NextUpdate
  <1>9. Learning'
    <2>1. trainer'.samples = Decided[trainer'.updates] + Len(trainer'.rollout) /\ Len(trainer'.rollout) = 0
      <3> DEFINE learned == Decided[next]
      <3>1. /\ trainer.samples = learned /\ Decided[trainer'.updates] = learned /\ learned \in Nat
            /\ Len(trainer'.rollout) = 0
        BY <1>2, <1>3, <1>4, <1>8, <1>13, Decisions
      <3> HIDE DEF learned
      <3> QED
        BY <1>4, <3>1
    <2> QED
      BY <1>1, <1>4, <1>7, <2>1 DEF IInv, Learning
  <1>10. Counting'
    <2> DEFINE learned == Decided[next]
    <2>1. /\ Decided[trainer'.updates] = learned /\ learned \in Nat /\ learned = Decided[record'.from] + index'
          /\ Len(trainer'.rollout) = 0 /\ trainer'.updates >= record'.from /\ trainer'.updates > 0
      BY <1>1, <1>2, <1>3, <1>4, <1>5, <1>8, <1>13, Decisions
    <2> HIDE DEF learned
    <2> QED
      BY <1>1, <1>4, <2>1 DEF Counting, Boundaries
  <1>11. Resetting'
    BY <1>1, <1>4 DEF IInv, Resetting, Active
  <1>12. OnDisk'
    BY <1>1, <1>5 DEF IInv, OnDisk, Sound, Listed, Trained, InOrder
  <1> QED
    BY <1>6, <1>9, <1>10, <1>11, <1>12 DEF IInv

\* What only moves the driver, and writes run.json.
LEMMA MovesHold ==
  ASSUME IInv, Skip \/ Persist PROVE IInv'
  <1>1. /\ at \in {"checkpoint", "persist"} /\ at' \in {"persist", "loop", "finish"}
        /\ UNCHANGED <<record, saves, source, index, episode, game, cached, trainer, registered, rows>>
        /\ runs' = runs \/ runs' = [runs EXCEPT ![Len(runs)] = record]
    BY DEF Skip, Persist, oracles, Segment
  <1>2. Len(runs) > 0 /\ record \in Records /\ \A update \in record.saved : Listed(Len(runs), update)
    BY <1>1 DEF IInv, OnDisk, Types
  <1>3. /\ runs' \in Seq(Records) /\ Len(runs') = Len(runs)
        /\ (\A save \in saves : Sound(save))'
        /\ (\A n \in 1 .. Len(runs) : \A update \in runs[n].saved : Listed(n, update))'
        /\ \A n, update : Listed(n, update)' <=> Listed(n, update)
    <2>1. CASE runs' = runs
      BY <1>1, <2>1 DEF IInv, Types, OnDisk, Sound, Listed, Trained, InOrder
    <2>2. CASE runs' = [runs EXCEPT ![Len(runs)] = record]
      BY <1>1, <1>2, <2>2, OnDiskKept DEF IInv
    <2> QED
      BY <1>1, <2>1, <2>2
  <1>4. Types'
    BY <1>1, <1>3 DEF IInv, Types, Active
  <1>5. Learning'
    BY <1>1 DEF IInv, Learning, Trained, InOrder
  <1>6. Counting'
    BY <1>1, Params DEF IInv, Counting, Boundaries, Active
  <1>7. Resetting'
    BY <1>1 DEF IInv, Resetting, Active
  <1>8. OnDisk'
    BY <1>1, <1>2, <1>3 DEF OnDisk
  <1> QED
    BY <1>4, <1>5, <1>6, <1>7, <1>8 DEF IInv

\* Between two games the trainer is at the reset that a checkpoint needs.
LEMMA ThisSaveSound ==
  ASSUME IInv, at \in {"checkpoint", "manifest"}, game = NoGame, NEW complete \in BOOLEAN
  PROVE  /\ ThisSave(complete) \in Saves /\ Sound(ThisSave(complete))
         /\ ThisSave(complete).segment = Len(runs) /\ ThisSave(complete).update = trainer.updates
         /\ ThisSave(complete).complete = complete
  <1> DEFINE save == ThisSave(complete)
  <1>1. /\ save.segment = Len(runs) /\ save.update = trainer.updates /\ save.next = episode
        /\ save.trainer = trainer /\ save.complete = complete
    BY DEF ThisSave, Segment
  <1>2. save \in Saves
    BY DEF ThisSave, Segment, Saves, IInv, Types, Trainers
  <1>3. trainer.rollout = <<>> /\ trainer.expectedReset /\ ~trainer.pending
    BY DEF IInv, Counting, Resetting, Active, Boundaries
  <1>4. trainer.samples = Decided[trainer.updates]
    <2> DEFINE learned == Decided[trainer.updates]
    <2>1. trainer.samples = learned + Len(trainer.rollout) /\ learned \in Nat
      BY Decisions DEF IInv, Learning, Types, Trainers
    <2> HIDE DEF learned
    <2>2. trainer.samples = learned
      BY <1>3, <2>1
    <2> QED
      BY <2>2 DEF learned
  <1>5. Len(runs) \in Nat /\ Len(runs) > 0 /\ Trained(trainer)
    BY DEF IInv, Types, OnDisk, Learning
  <1> HIDE DEF save
  <1>6. Sound(save)
    BY <1>1, <1>3, <1>4, <1>5 DEF Sound
  <1> QED
    BY <1>1, <1>2, <1>6 DEF save

\* A checkpoint is published, and then signed and listed.
LEMMA CheckpointsHold ==
  ASSUME IInv, Publish \/ Manifest PROVE IInv'
  <1>1. /\ at \in {"checkpoint", "manifest"} /\ at' \in {"manifest", "persist"} /\ game = NoGame
        /\ UNCHANGED <<runs, source, index, episode, game, cached, trainer, registered, rows>>
    BY DEF Publish, Manifest, SaveAllowed, oracles, IInv, Resetting, Active
  <1>2. /\ saves' \subseteq saves \cup {ThisSave(FALSE), ThisSave(TRUE)}
        /\ \A save \in saves : save.complete => save \in saves'
    <2>1. CASE Publish
      BY <2>1 DEF Publish
    <2>2. CASE Manifest
      BY <1>1, <2>2, ThisSaveSound DEF Manifest
    <2> QED
      BY <2>1, <2>2
  <1>3. /\ record' \in Records /\ record'.from = record.from
        /\ \/ record'.saved = record.saved
           \/ ThisSave(TRUE) \in saves' /\ record'.saved = record.saved \cup {trainer.updates}
    <2>1. record \in Records /\ trainer.updates \in Nat
      BY DEF IInv, Types, Trainers
    <2>2. CASE Publish
      BY <2>1, <2>2 DEF Publish
    <2>3. CASE Manifest
      BY <2>1, <2>3 DEF Manifest, Records
    <2> QED
      BY <2>2, <2>3
  <1>4. \A save \in saves' : save \in Saves /\ Sound(save)
    BY <1>1, <1>2, ThisSaveSound DEF IInv, Types, OnDisk
  <1>5. \A n, update : Listed(n, update) => Listed(n, update)'
    BY <1>2 DEF Listed
  <1>6. ThisSave(TRUE) \in saves' => Listed(Len(runs), trainer.updates)'
    BY <1>1, ThisSaveSound DEF Listed
  <1>7. Types'
    BY <1>1, <1>3, <1>4 DEF IInv, Types, Active
  <1>8. Learning'
    BY <1>1 DEF IInv, Learning, Trained, InOrder
  <1>9. Counting'
    BY <1>1, <1>3 DEF IInv, Counting, Boundaries, Active
  <1>10. Resetting'
    BY <1>1 DEF IInv, Resetting, Active
  <1>11. OnDisk'
    <2>1. (\A save \in saves : Sound(save))'
      BY <1>1, <1>4 DEF Sound, Trained, InOrder
    <2>2. \A update \in record'.saved : Listed(Len(runs), update)'
      BY <1>1, <1>3, <1>5, <1>6 DEF IInv, OnDisk
    <2>3. \A n \in 1 .. Len(runs) : \A update \in runs[n].saved : Listed(n, update)'
      BY <1>5 DEF IInv, OnDisk
    <2> QED
      BY <1>1, <2>1, <2>2, <2>3 DEF IInv, OnDisk, Listed
  <1> QED
    BY <1>7, <1>8, <1>9, <1>10, <1>11 DEF IInv

LEMMA NextHolds == IInv /\ [Next]_vars => IInv'
  <1> SUFFICES ASSUME IInv, [Next]_vars PROVE IInv'
    OBVIOUS
  <1>1. CASE Start \/ Resume \/ Restore
    BY <1>1, StartHolds, ResumeHolds, RestoreHolds
  <1>2. CASE RestoreRefused \/ Raised \/ Interrupted \/ Finish \/ Killed
    <2>1. at \notin Idle
      BY <1>2 DEF RestoreRefused, Raised, Interrupted, Finish, Killed, Idle
    <2>2. \/ EndWith("failed", "refused") \/ EndWith("failed", "fault") \/ EndWith("interrupted", "fault")
          \/ EndWith("early-stopped", "none") \/ EndWith("completed", "none") \/ Killed
      BY <1>2 DEF RestoreRefused, Raised, Interrupted, Finish
    <2> QED
      BY <2>1, <2>2, EndHolds
  <1>3. CASE Decision
    BY <1>3, ResetHolds, ActHolds, RewardHolds DEF Decision
  <1>4. CASE Update \/ Skip \/ Publish \/ Manifest \/ Persist
    BY <1>4, UpdateHolds, MovesHold, CheckpointsHold
  <1>5. CASE UNCHANGED vars
    BY <1>5 DEF vars, oracles, IInv, Types, Learning, Counting, Resetting, OnDisk, Trained, InOrder, Sound, Listed
  <1> QED
    BY <1>1, <1>2, <1>3, <1>4, <1>5 DEF Next, Boundary

\* Through any number of segments, however each of them ended.
THEOREM Inductive == Spec => []IInv
  BY InitHolds, NextHolds, PTL DEF Spec

\* The trainer (v2_live_train.cpp) throws at an ACT, a REWARD, an UPDATE, a CHECKPOINT or a
\* SAVE that comes at the wrong moment; the driver never sends one there.
THEOREM NeverThrown == Spec => []InStep
  <1>1. IInv => InStep
    <2> SUFFICES ASSUME IInv PROVE InStep
      OBVIOUS
    <2>1. at = "loop" /\ game # NoGame => ActAccepted /\ Frame = game
      BY DEF IInv, Types, Trainers, Counting, Resetting, Active, ActAccepted, Frame, ResetFlag
    <2>2. ASSUME at = "reward" PROVE RewardAccepted
      <3> DEFINE learned == Decided[trainer.updates]
                 begun == Decided[record.from]
                 in == Len(trainer.rollout)
      <3>1. /\ trainer.updates \in Nat /\ record.from \in Nat /\ trainer.updates >= record.from /\ index \in Nat
            /\ in \in 1 .. Rollout /\ learned \in Nat /\ begun \in Nat /\ learned + in = begun + index + 1
            /\ trainer.pending
        BY <2>2, Decisions DEF IInv, Types, Trainers, Records, Counting, Resetting, Active
      <3> HIDE DEF learned, begun, in
      <3>2. learned + (in - 1) = begun + index /\ in - 1 \in 0 .. Rollout /\ in - 1 # Rollout
        BY <3>1, Params
      <3>3. \A l \in 0 .. Rollout : learned + l = begun + index => index % Rollout = (IF l = Rollout THEN 0 ELSE l)
        BY <3>1, Located DEF learned, begun
      <3>4. index % Rollout = in - 1
        BY <3>2, <3>3
      <3> QED
        BY <3>1, <3>4 DEF RewardAccepted, in
    <2>3. ASSUME at = "update" PROVE UpdateAccepted
      <3>1. /\ trainer.updates \in Nat /\ record.from \in Nat /\ ~trainer.pending /\ Len(trainer.rollout) = Rollout
            /\ index \in Nat /\ Decided[trainer.updates] \in Nat /\ Decided[record.from] \in Nat
            /\ Decided[trainer.updates] + Len(trainer.rollout) = Decided[record.from] + index + 0
        BY <2>3, Decisions DEF IInv, Types, Trainers, Records, Counting, Resetting, Active
      <3>4. Decided[trainer.updates] + Rollout = Decided[record.from] + index
        <4> DEFINE learned == Decided[trainer.updates]
                   begun == Decided[record.from]
        <4>1. learned + Rollout = begun + index + 0 /\ learned \in Nat /\ begun \in Nat /\ index \in Nat
          BY <3>1
        <4> HIDE DEF learned, begun
        <4>2. learned + Rollout = begun + index
          BY <4>1, Params
        <4> QED
          BY <4>2 DEF learned, begun
      <3>2. (trainer.updates + 1) * Rollout = Decided[trainer.updates] + Rollout
        <4>1. trainer.updates + 1 \in Nat
          BY <3>1
        <4>2. Decided[trainer.updates + 1] = (trainer.updates + 1) * Rollout
          BY <4>1 DEF Decided
        <4> QED
          BY <3>1, <4>2, NextUpdate
      <3>3. record.from * Rollout = Decided[record.from]
        BY <3>1 DEF Decided
      <3> QED
        BY <3>1, <3>2, <3>3, <3>4 DEF UpdateAccepted, Restored
    <2>4. at = "checkpoint" /\ SaveAllowed => CheckpointAccepted
      BY DEF IInv, Counting, Resetting, Active, Boundaries, SaveAllowed, CheckpointAccepted
    <2>5. at = "finish" => WeightsAccepted
      BY DEF IInv, Counting, Resetting, Active, Boundaries, WeightsAccepted
    <2> QED
      BY <2>1, <2>2, <2>3, <2>4, <2>5 DEF InStep
  <1> QED
    BY <1>1, Inductive, PTL

\* run.json lists a checkpoint only after its manifest, and no later segment replaces it.
THEOREM Restorable == Spec => []ListedIsRestorable
  <1>1. IInv => ListedIsRestorable
    <2> SUFFICES ASSUME IInv, NEW n \in DOMAIN runs, NEW update \in runs[n].saved
                 PROVE  \E save \in saves :
                          /\ save.segment = n /\ save.update = update /\ save.complete
                          /\ save.trainer.expectedReset /\ save.trainer.rollout = <<>>
                          /\ save.trainer.updates = update
      BY DEF ListedIsRestorable
    <2>1. n \in 1 .. Len(runs)
      BY DEF IInv, Types
    <2>2. PICK save \in saves : save.segment = n /\ save.update = update /\ save.complete
      BY <2>1 DEF IInv, OnDisk, Listed
    <2> QED
      BY <2>2 DEF IInv, OnDisk, Sound
  <1> QED
    BY <1>1, Inductive, PTL

\* The parameters have been trained on the decisions 1, 2, 3 and so on, each once, by the
\* policy of its own update; and the recurrent state of a decision is that of its game.
THEOREM InTrainingOrder == Spec => []TrainedInOrder
  <1>1. IInv => TrainedInOrder
    <2> SUFFICES ASSUME IInv PROVE TrainedInOrder
      OBVIOUS
    <2>1. ASSUME NEW u \in 1 .. trainer.updates, NEW i \in 1 .. Rollout
          PROVE  /\ trainer.model[u].shuffle = u - 1
                 /\ trainer.model[u].rollout[i].step = (u - 1) * Rollout + i
                 /\ trainer.model[u].rollout[i].policy = u - 1
                 /\ trainer.model[u].rollout[i].sample = trainer.model[u].rollout[i].step - 1
      <3>1. u - 1 \in Nat
        BY DEF IInv, Types, Trainers
      <3>2. Decided[u - 1] = (u - 1) * Rollout
        BY <3>1 DEF Decided
      <3> QED
        BY <3>2 DEF IInv, Learning, Trained, InOrder
    <2>2. \A u \in 1 .. trainer.updates : trainer.model[u].shuffle = u - 1
      BY DEF IInv, Learning, Trained
    <2>3. \A line \in rows : line.transition.hidden = line.transition.frame.decision
      BY DEF IInv, Learning
    <2> QED
      BY <2>1, <2>2, <2>3 DEF TrainedInOrder
  <1> QED
    BY <1>1, Inductive, PTL

-----------------------------------------------------------------------------
(***************************************************************************)
(* Where a segment ends.  The probes of a record are those of its updates,  *)
(* a segment owes the rest of the budget, and it plays only below the       *)
(* trigger.                                                                *)
(***************************************************************************)
Candid(r) == r.probes = {u \in 1 .. r.updates : Probed(u)} /\ r.saved \subseteq 1 .. r.updates

EndedWell(r) ==
  registered => /\ r.status = "completed" => r.updates = Budget
                /\ r.status = "early-stopped" => r.updates = stopAt

Owes(from) == record.want > 0 /\ (registered => record.want = Budget - from)

\* What a segment that plays on has left, of its budget and before the trigger.
Ahead(updates) ==
  /\ updates < record.from + record.want
  /\ stopAt # Never => updates < stopAt

Going ==
  /\ at \notin Idle => record.status = "running"
  /\ at = "restore" => Owes(source.update) /\ record.saved = {}
  /\ at \in Active => record.updates = trainer.updates /\ Owes(record.from)
  /\ at \in {"loop", "reward", "update"} => Ahead(trainer.updates)
  /\ at \in Boundaries => Ahead(trainer.updates - 1)
  /\ at = "finish" => EarlyStopped(record.probes) \/ trainer.updates = record.from + record.want

Ending ==
  /\ stopAt # Never => stopAt \in Nat \ {0} /\ Probed(stopAt)
  /\ Candid(record)
  /\ \A n \in 1 .. Len(runs) : Candid(runs[n]) /\ EndedWell(runs[n])
  /\ Going
  /\ stopAt # Never => \A line \in rows : line.step <= Decided[stopAt]

-----------------------------------------------------------------------------
\* Fewer updates are fewer decisions.
LEMMA Fewer ==
  ASSUME NEW a \in Nat, NEW b \in Nat, a < b
  PROVE  Decided[a] + Rollout <= Decided[b]
  <1>1. PICK k \in Nat : b = a + 1 + k
    <2>1. b - a - 1 \in Nat /\ b = a + 1 + (b - a - 1)
      OBVIOUS
    <2> QED
      BY <2>1
  <1>2. k * Rollout \in Nat
    BY Params
  <1>3. b * Rollout = a * Rollout + Rollout + k * Rollout
    BY <1>1, Params
  <1> QED
    BY <1>2, <1>3, Params DEF Decided

\* What is left of the budget, counted in decisions or in updates.
LEMMA LeftToPlay ==
  ASSUME NEW u \in Nat, NEW from \in Nat, NEW want \in Nat, NEW n \in Nat,
         Decided[u] = Decided[from] + n
  PROVE  n < want * Rollout <=> u < from + want
  <1>1. Decided[from + want] = Decided[from] + want * Rollout
    BY Params DEF Decided
  <1>2. Decided[u] \in Nat /\ Decided[from] \in Nat /\ Decided[from + want] \in Nat /\ want * Rollout \in Nat
    BY Decisions, Params
  <1>3. n < want * Rollout <=> Decided[u] < Decided[from + want]
    BY <1>1, <1>2
  <1>4. CASE u < from + want
    BY <1>2, <1>3, <1>4, Fewer, Params
  <1>5. CASE u > from + want
    BY <1>2, <1>3, <1>5, Fewer, Params
  <1>6. CASE u = from + want
    BY <1>2, <1>3, <1>6
  <1> QED
    BY <1>4, <1>5, <1>6

LEMMA InitEnds == Init => Ending
  <1> SUFFICES ASSUME Init PROVE Ending
    OBVIOUS
  <1>1. record = NewRecord(0, 0) /\ runs = <<>> /\ at = "idle" /\ rows = {}
    BY DEF Init
  <1>2. Candid(record)
    BY <1>1 DEF NewRecord, Candid
  <1>3. Going
    BY <1>1 DEF Going, Idle, Active, Boundaries
  <1>4. stopAt # Never => stopAt \in Nat \ {0} /\ Probed(stopAt)
    BY Params DEF Init
  <1> QED
    BY <1>1, <1>2, <1>3, <1>4 DEF Ending

\* The study's oracles are drawn once.
LEMMA DrawnOnce == Next => UNCHANGED <<registered, stopAt>>
  BY DEF Next, Decision, Boundary, Start, Resume, Begin, Restore, RestoreRefused, Reset, Act, Reward,
         Update, Skip, Publish, Manifest, Persist, Finish, Raised, Interrupted, Killed, EndWith, oracles

\* A run.json that is written again, or for the first time.
LEMMA RunsEnd ==
  ASSUME Types, Ending, UNCHANGED <<registered, stopAt>>, record' \in Records,
         Candid(record'), EndedWell(record'),
         \/ runs' = runs
         \/ Len(runs) > 0 /\ runs' = [runs EXCEPT ![Len(runs)] = record']
         \/ runs' = Append(runs, record')
  PROVE  (Candid(record) /\ \A n \in 1 .. Len(runs) : Candid(runs[n]) /\ EndedWell(runs[n]))'
  <1>1. \A r : (Candid(r) => Candid(r)') /\ (EndedWell(r) => EndedWell(r)')
    BY DEF Candid, EndedWell, Probed
  <1>2. \A n \in 1 .. Len(runs') : runs'[n] = record' \/ (n \in 1 .. Len(runs) /\ runs'[n] = runs[n])
    <2>1. CASE runs' = runs
      BY <2>1
    <2>2. CASE Len(runs) > 0 /\ runs' = [runs EXCEPT ![Len(runs)] = record']
      BY <2>2 DEF Types
    <2>3. CASE runs' = Append(runs, record')
      BY <2>3 DEF Types
    <2> QED
      BY <2>1, <2>2, <2>3
  <1>3. \A n \in 1 .. Len(runs') : Candid(runs'[n]) /\ EndedWell(runs'[n])
    BY <1>2 DEF Ending
  <1> QED
    BY <1>1, <1>3 DEF Candid, EndedWell, Probed

\* The trigger, and the decisions below it, are as they were.
LEMMA TriggerKept ==
  ASSUME Ending, UNCHANGED <<registered, stopAt, rows>>, Going',
         (Candid(record) /\ \A n \in 1 .. Len(runs) : Candid(runs[n]) /\ EndedWell(runs[n]))'
  PROVE  Ending'
  <1>1. (stopAt # Never => stopAt \in Nat \ {0} /\ Probed(stopAt))'
    BY DEF Ending, Probed
  <1>2. (stopAt # Never => \A line \in rows : line.step <= Decided[stopAt])'
    BY DEF Ending
  <1> QED
    BY <1>1, <1>2 DEF Ending

\* The end of a segment, whichever way.
LEMMA EndEnds ==
  ASSUME IInv, Ending, at \notin Idle, UNCHANGED <<registered, stopAt>>,
         \/ \E s \in {"failed", "interrupted", "early-stopped", "completed"}, e \in {"none", "fault", "refused"} :
              /\ EndWith(s, e)
              /\ s \in {"early-stopped", "completed"} =>
                   at = "finish" /\ s = (IF EarlyStopped(record.probes) THEN "early-stopped" ELSE "completed")
         \/ Killed
  PROVE  Ending'
  <1>1. at' = "over" /\ UNCHANGED rows
    BY DEF EndWith, Killed
  <1>2. Going'
    BY <1>1 DEF Going, Idle, Active, Boundaries
  <1>3. CASE Killed
    BY <1>1, <1>2, <1>3 DEF Killed, Ending, Candid, EndedWell, Probed
  <1>4. ASSUME NEW s \in {"failed", "interrupted", "early-stopped", "completed"},
               NEW e \in {"none", "fault", "refused"}, EndWith(s, e),
               s \in {"early-stopped", "completed"} =>
                 at = "finish" /\ s = (IF EarlyStopped(record.probes) THEN "early-stopped" ELSE "completed")
        PROVE  Ending'
    <2>1. record' = [record EXCEPT !.status = s, !.error = e] /\ runs' = [runs EXCEPT ![Len(runs)] = record']
      BY <1>4 DEF EndWith, Segment
    <2>2. /\ record' \in Records /\ record'.status = s /\ record'.updates = record.updates
          /\ record'.probes = record.probes /\ record'.saved = record.saved
      BY <2>1 DEF IInv, Types, Records
    <2>3. Candid(record')
      BY <2>2 DEF Ending, Candid
    <2>4. EndedWell(record')
      <3> SUFFICES ASSUME registered, s \in {"early-stopped", "completed"}
                   PROVE  /\ s = "completed" => record.updates = Budget
                          /\ s = "early-stopped" => record.updates = stopAt
        BY <2>2 DEF EndedWell
      <3>1. /\ at = "finish" /\ record.updates = trainer.updates /\ Ahead(trainer.updates - 1)
            /\ record.want = Budget - record.from
            /\ EarlyStopped(record.probes) \/ trainer.updates = record.from + record.want
        BY <1>4 DEF Ending, Going, Owes, Active, Boundaries
      <3>2. trainer.updates \in Nat /\ record.from \in Nat /\ Budget \in Nat
        BY Params DEF IInv, Types, Trainers, Records
      <3>3. ASSUME s = "early-stopped" PROVE record.updates = stopAt
        <4>1. stopAt \in 1 .. record.updates
          BY <1>4, <3>3 DEF EarlyStopped, Ending, Candid
        <4> QED
          BY <3>1, <3>2, <4>1 DEF Ahead, Never
      <3>4. ASSUME s = "completed" PROVE record.updates = Budget
        BY <1>4, <3>1, <3>2, <3>4
      <3> QED
        BY <3>3, <3>4
    <2>5. Len(runs) > 0
      BY DEF IInv, OnDisk, Idle
    <2> QED
      BY <1>1, <1>2, <2>1, <2>2, <2>3, <2>4, <2>5, RunsEnd, TriggerKept DEF IInv
  <1> QED
    BY <1>3, <1>4

\* A new segment owes what is left of the budget.
LEMMA BeginEnds ==
  ASSUME IInv, Ending, NEW from \in Nat, from < Budget, NEW want \in Wanted(from), Begin(0, want),
         UNCHANGED <<registered, stopAt>>,
         \/ at' = "loop" /\ from = 0
         \/ at' = "restore" /\ source'.update = from
  PROVE  Ending'
  <1>1. record' = NewRecord(0, want) /\ runs' = Append(runs, record') /\ trainer' = NewTrainer /\ UNCHANGED rows
    BY DEF Begin
  <1>2. want \in Nat /\ want > 0 /\ (registered => want = Budget - from)
    BY Params DEF Wanted
  <1>3. /\ record' \in Records /\ record'.status = "running" /\ record'.updates = 0 /\ record'.from = 0
        /\ record'.probes = {} /\ record'.saved = {} /\ record'.want = want
    BY <1>1, <1>2 DEF NewRecord, Records
  <1>4. Candid(record') /\ EndedWell(record')
    BY <1>3 DEF Candid, EndedWell
  <1>5. trainer'.updates = 0
    BY <1>1 DEF NewTrainer
  <1>6. Going'
    <2>1. CASE at' = "loop" /\ from = 0
      <3>1. (Ahead(trainer.updates))'
        BY <1>2, <1>3, <1>5 DEF Ahead, Ending
      <3> QED
        BY <1>2, <1>3, <1>5, <2>1, <3>1 DEF Going, Owes, Active, Boundaries
    <2>2. CASE at' = "restore" /\ source'.update = from
      BY <1>2, <1>3, <2>2 DEF Going, Owes, Active, Boundaries
    <2> QED
      BY <2>1, <2>2
  <1> QED
    BY <1>1, <1>3, <1>4, <1>6, RunsEnd, TriggerKept DEF IInv

LEMMA ResumeEnds ==
  ASSUME IInv, Ending, Start \/ Resume, UNCHANGED <<registered, stopAt>> PROVE Ending'
  <1>1. CASE Start
    <2>1. PICK want \in Wanted(0) : Begin(0, want)
      BY <1>1 DEF Start
    <2> QED
      BY <1>1, <2>1, BeginEnds, Params DEF Start
  <1>2. CASE Resume
    <2>1. PICK save \in saves : /\ Resumable(save) /\ source' = save
                                /\ \E want \in Wanted(save.update) : Begin(0, want)
      BY <1>2 DEF Resume
    <2>2. PICK want \in Wanted(save.update) : Begin(0, want)
      BY <2>1
    <2>3. save.update \in Nat /\ save.update < Budget
      BY <2>1 DEF Resumable, IInv, Types, Saves
    <2> QED
      BY <1>2, <2>1, <2>2, <2>3, BeginEnds DEF Resume
  <1> QED
    BY <1>1, <1>2

\* A checkpoint that may be restored is below the trigger, and its probes are on file.
LEMMA RestoreEnds ==
  ASSUME IInv, Ending, Restore, UNCHANGED <<registered, stopAt>> PROVE Ending'
  <1> DEFINE probes == IF registered THEN {u \in runs[source.segment].probes : u <= source.update} ELSE {}
  <1>1. /\ at = "restore" /\ at' = "loop" /\ trainer' = Loaded(source.trainer) /\ UNCHANGED <<rows, source>>
        /\ ~(registered /\ Unrestorable(source)) /\ runs' = [runs EXCEPT ![Len(runs)] = record']
    BY DEF Restore, Segment
  <1>2. /\ source \in Saves /\ source.segment \in 1 .. Len(runs) /\ source.trainer.updates = source.update
        /\ source.update \in Nat /\ runs[source.segment] \in Records /\ record \in Records /\ Len(runs) > 0
    BY <1>1 DEF IInv, Types, OnDisk, Sound, Saves
  <1>3. trainer'.updates = source.update
    BY <1>1, <1>2 DEF Loaded, NewTrainer
  <1>4. registered => /\ probes = {u \in 1 .. source.update : Probed(u)} /\ ~EarlyStopped(probes)
    <2> SUFFICES ASSUME registered
                 PROVE  probes = {u \in 1 .. source.update : Probed(u)} /\ ~EarlyStopped(probes)
      OBVIOUS
    <2>1. source.update \in runs[source.segment].saved /\ ~EarlyStopped(probes)
      BY <1>1 DEF Unrestorable
    <2>2. Candid(runs[source.segment]) /\ runs[source.segment].updates \in Nat
      BY <1>2 DEF Ending, Records
    <2>3. source.update \in 1 .. runs[source.segment].updates
      BY <2>1, <2>2 DEF Candid
    <2> QED
      BY <1>2, <2>1, <2>2, <2>3 DEF Candid
  <1>5. probes = {u \in 1 .. source.update : Probed(u)}
    BY <1>4 DEF Probed
  <1>6. stopAt # Never => source.update < stopAt
    <2> SUFFICES ASSUME stopAt # Never, ~(source.update < stopAt) PROVE FALSE
      OBVIOUS
    <2>1. stopAt \in Nat \ {0} /\ Probed(stopAt) /\ registered
      BY DEF Ending, Probed
    <2>2. stopAt \in probes
      BY <1>2, <1>5, <2>1
    <2> QED
      BY <1>4, <2>1, <2>2 DEF EarlyStopped
  <1>7. record' = [record EXCEPT !.from = source.update, !.updates = source.update, !.probes = probes]
    BY DEF Restore
  <1>8. probes \in SUBSET Nat
    BY <1>5
  <1> HIDE DEF probes
  <1>9. /\ record' \in Records /\ record'.from = source.update /\ record'.updates = source.update
        /\ record'.probes = probes /\ record'.saved = record.saved /\ record'.want = record.want
        /\ record'.status = record.status
    BY <1>2, <1>7, <1>8 DEF Records
  <1>10. Owes(source.update) /\ record.saved = {} /\ record.status = "running"
    BY <1>1 DEF Ending, Going, Idle
  <1>11. Candid(record') /\ EndedWell(record')
    BY <1>5, <1>9, <1>10 DEF Candid, EndedWell
  <1>12. Going'
    <2>1. record.want \in Nat /\ record.want > 0 /\ (registered => record.want = Budget - source.update)
      BY <1>2, <1>10 DEF Owes, Records
    <2>2. (Ahead(trainer.updates))'
      BY <1>2, <1>3, <1>6, <1>9, <2>1 DEF Ahead
    <2> QED
      BY <1>1, <1>3, <1>9, <1>10, <2>1, <2>2 DEF Going, Owes, Active, Boundaries
  <1> QED
    BY <1>1, <1>2, <1>9, <1>11, <1>12, RunsEnd, TriggerKept DEF IInv

\* A decision is the next one, and below the trigger.
LEMMA DecisionEnds ==
  ASSUME IInv, Ending, Decision, UNCHANGED <<registered, stopAt>> PROVE Ending'
  <1>1. /\ at \in {"loop", "reward"} /\ at' \in {"loop", "reward", "update"}
        /\ record' = record /\ runs' = runs /\ trainer'.updates = trainer.updates
        /\ rows' = rows \/ (at = "reward" /\ rows' = rows \cup {Line})
    BY DEF Decision, Reset, Act, Reward, IInv, Types, Trainers
  <1>2. Going'
    BY <1>1 DEF Ending, Going, Owes, Ahead, Active, Boundaries, Idle
  <1>3. (Candid(record) /\ \A n \in 1 .. Len(runs) : Candid(runs[n]) /\ EndedWell(runs[n]))'
    BY <1>1, RunsEnd DEF IInv, Types, Ending, EndedWell, Going, Idle
  <1>4. (stopAt # Never => stopAt \in Nat \ {0} /\ Probed(stopAt))'
    BY DEF Ending, Probed
  <1>5. ASSUME at = "reward", stopAt # Never PROVE Line.step <= Decided[stopAt]
    <2>1. stopAt \in Nat /\ trainer.updates \in Nat /\ trainer.updates < stopAt
      BY <1>5 DEF Ending, Going, Ahead, IInv, Types, Trainers
    <2>2. Decided[trainer.updates] + Rollout <= Decided[stopAt]
      BY <2>1, Fewer
    <2>3. /\ Line.step = Decided[record.from] + index + 1 /\ record.from \in Nat /\ index \in Nat
          /\ Decided[record.from] \in Nat /\ Decided[trainer.updates] \in Nat /\ Decided[stopAt] \in Nat
      BY <2>1, Decisions DEF Line, StepNumber, Restored, Decided, IInv, Types, Records
    <2>4. /\ Decided[trainer.updates] + Len(trainer.rollout) = Decided[record.from] + index + 1
          /\ Len(trainer.rollout) \in 1 .. Rollout
      BY <1>5 DEF IInv, Counting, Active
    <2> QED
      BY <2>2, <2>3, <2>4, Params
  <1>6. (stopAt # Never => \A line \in rows : line.step <= Decided[stopAt])'
    BY <1>1, <1>5 DEF Ending
  <1> QED
    BY <1>2, <1>3, <1>4, <1>6 DEF Ending

\* One more update, probed if it is to be.
LEMMA UpdateEnds ==
  ASSUME IInv, Ending, Update, UNCHANGED <<registered, stopAt>> PROVE Ending'
  <1> DEFINE next == trainer.updates + 1
             probes == IF Probed(next) THEN record.probes \cup {next} ELSE record.probes
  <1>1. /\ at = "update" /\ at' \in {"checkpoint", "persist"} /\ runs' = runs /\ rows' = rows
        /\ trainer'.updates = next /\ record' = [record EXCEPT !.updates = next, !.probes = probes]
    BY DEF Update, IInv, Types, Trainers
  <1>2. /\ record \in Records /\ trainer.updates \in Nat /\ record.updates = trainer.updates
        /\ Owes(record.from) /\ Ahead(trainer.updates) /\ record.status = "running"
    BY <1>1 DEF IInv, Types, Trainers, Ending, Going, Idle, Active
  <1>3. probes = {u \in 1 .. next : Probed(u)} /\ record.saved \subseteq 1 .. next
    BY <1>2 DEF Ending, Candid
  <1>4. probes \in SUBSET Nat /\ next \in Nat
    BY <1>2, <1>3
  <1> HIDE DEF probes
  <1>5. /\ record' \in Records /\ record'.updates = next /\ record'.probes = probes /\ record'.saved = record.saved
        /\ record'.from = record.from /\ record'.want = record.want /\ record'.status = record.status
    BY <1>1, <1>2, <1>4 DEF Records
  <1>6. (Ahead(trainer.updates - 1))'
    BY <1>1, <1>2, <1>5 DEF Ahead
  <1>7. Going'
    BY <1>1, <1>2, <1>5, <1>6 DEF Going, Owes, Active, Boundaries
  <1>8. Candid(record') /\ EndedWell(record')
    BY <1>2, <1>3, <1>5 DEF Candid, EndedWell
  <1> QED
    BY <1>1, <1>5, <1>7, <1>8, RunsEnd, TriggerKept DEF IInv

\* The checkpoint of the last update, listed or not.
LEMMA CheckpointEnds ==
  ASSUME IInv, Ending, Skip \/ Publish \/ Manifest, UNCHANGED <<registered, stopAt>> PROVE Ending'
  <1>1. /\ at \in {"checkpoint", "manifest"} /\ at' \in {"manifest", "persist"}
        /\ UNCHANGED <<runs, rows, trainer>>
        /\ record' = record \/ record' = [record EXCEPT !.saved = @ \cup {trainer.updates}]
    BY DEF Skip, Publish, Manifest
  <1>2. /\ record \in Records /\ trainer.updates \in Nat /\ trainer.updates > 0 /\ record.updates = trainer.updates
        /\ Owes(record.from) /\ Ahead(trainer.updates - 1) /\ record.status = "running"
    BY <1>1 DEF IInv, Types, Trainers, Counting, Ending, Going, Idle, Active, Boundaries
  <1>3. /\ record' \in Records /\ record'.updates = record.updates /\ record'.probes = record.probes
        /\ record'.saved \subseteq record.saved \cup {trainer.updates}
        /\ record'.from = record.from /\ record'.want = record.want /\ record'.status = record.status
    BY <1>1, <1>2 DEF Records
  <1>4. Going'
    BY <1>1, <1>2, <1>3 DEF Going, Owes, Ahead, Active, Boundaries
  <1>5. Candid(record') /\ EndedWell(record')
    BY <1>2, <1>3 DEF Ending, Candid, EndedWell
  <1> QED
    BY <1>1, <1>3, <1>4, <1>5, RunsEnd, TriggerKept DEF IInv

\* It plays on if there is budget left and the trigger has not been met.
LEMMA PersistEnds ==
  ASSUME IInv, Ending, Persist, UNCHANGED <<registered, stopAt>> PROVE Ending'
  <1>1. /\ at = "persist" /\ at' = (IF More /\ ~EarlyStopped(record.probes) THEN "loop" ELSE "finish")
        /\ runs' = [runs EXCEPT ![Len(runs)] = record] /\ UNCHANGED <<record, trainer, rows>>
    BY DEF Persist, Segment
  <1>2. /\ record \in Records /\ trainer.updates \in Nat /\ record.updates = trainer.updates /\ Len(runs) > 0
        /\ trainer.updates > 0 /\ record.from \in Nat /\ record.want \in Nat /\ index \in Nat
        /\ Owes(record.from) /\ Ahead(trainer.updates - 1) /\ record.status = "running"
    BY <1>1 DEF IInv, Types, Trainers, Records, Counting, OnDisk, Ending, Going, Idle, Active, Boundaries
  <1>3. More <=> trainer.updates < record.from + record.want
    <2>1. Decided[trainer.updates] = Decided[record.from] + index
      <3> DEFINE learned == Decided[trainer.updates]
                 begun == Decided[record.from]
      <3>1. learned + Len(trainer.rollout) = begun + index + 0 /\ trainer.rollout = <<>>
        BY <1>1 DEF IInv, Counting, Active, Boundaries
      <3>2. learned \in Nat /\ begun \in Nat
        BY <1>2, Decisions
      <3> HIDE DEF learned, begun
      <3>3. learned = begun + index
        BY <1>2, <3>1, <3>2
      <3> QED
        BY <3>3 DEF learned, begun
    <2> QED
      BY <1>2, <2>1, LeftToPlay DEF More
  <1>4. ASSUME at' = "loop" PROVE Ahead(trainer.updates)
    <2>1. trainer.updates < record.from + record.want /\ ~EarlyStopped(record.probes)
      BY <1>1, <1>3, <1>4
    <2>2. stopAt # Never => stopAt \in Nat \ {0} /\ Probed(stopAt) /\ stopAt \notin record.probes
      BY <2>1 DEF Ending, EarlyStopped
    <2>3. record.probes = {u \in 1 .. trainer.updates : Probed(u)}
      BY <1>2 DEF Ending, Candid
    <2> QED
      BY <1>2, <2>1, <2>2, <2>3 DEF Ahead
  <1>5. ASSUME at' = "finish" PROVE EarlyStopped(record.probes) \/ trainer.updates = record.from + record.want
    <2>1. CASE ~More
      BY <1>2, <1>3, <2>1 DEF Ahead
    <2> QED
      BY <1>1, <1>5, <2>1
  <1>6. Going'
    <2>1. CASE at' = "loop"
      BY <1>1, <1>2, <1>4, <2>1 DEF Going, Owes, Ahead, Active, Boundaries
    <2>2. CASE at' = "finish"
      BY <1>1, <1>2, <1>5, <2>2 DEF Going, Owes, Ahead, Active, Boundaries, EarlyStopped
    <2> QED
      BY <1>1, <2>1, <2>2
  <1>7. Candid(record') /\ EndedWell(record')
    BY <1>1, <1>2 DEF Ending, EndedWell
  <1> QED
    BY <1>1, <1>2, <1>6, <1>7, RunsEnd, TriggerKept DEF IInv

LEMMA NextEnds == IInv /\ Ending /\ [Next]_vars => Ending'
  <1> SUFFICES ASSUME IInv, Ending, [Next]_vars PROVE Ending'
    OBVIOUS
  <1>1. UNCHANGED <<registered, stopAt>>
    BY DrawnOnce DEF vars, oracles
  <1>2. CASE Start \/ Resume \/ Restore
    BY <1>1, <1>2, ResumeEnds, RestoreEnds
  <1>3. CASE RestoreRefused \/ Raised \/ Interrupted \/ Finish \/ Killed
    <2>1. at \notin Idle
      BY <1>3 DEF RestoreRefused, Raised, Interrupted, Finish, Killed, Idle
    <2>2. \/ EndWith("failed", "refused") \/ EndWith("failed", "fault") \/ EndWith("interrupted", "fault") \/ Killed
          \/ at = "finish" /\ EndWith(IF EarlyStopped(record.probes) THEN "early-stopped" ELSE "completed", "none")
      BY <1>3 DEF RestoreRefused, Raised, Interrupted, Finish
    <2> QED
      BY <1>1, <2>1, <2>2, EndEnds
  <1>4. CASE Decision
    BY <1>1, <1>4, DecisionEnds
  <1>5. CASE Update \/ Skip \/ Publish \/ Manifest \/ Persist
    BY <1>1, <1>5, UpdateEnds, CheckpointEnds, PersistEnds
  <1>6. CASE UNCHANGED vars
    BY <1>6 DEF vars, oracles, Ending, Candid, EndedWell, Going, Owes, Ahead, Probed, EarlyStopped
  <1> QED
    BY <1>2, <1>3, <1>4, <1>5, <1>6 DEF Next, Boundary

\* run.json of a registered run (train_v2.run): "completed" only after the whole budget, with
\* every probe of it, "early-stopped" only at the trigger; and no segment, resumed from
\* whichever checkpoint, plays past the trigger.
THEOREM EndedRight == Spec => []EndsWhereItShould
  <1>1. Spec => []Ending
    BY InitEnds, NextEnds, Inductive, PTL DEF Spec
  <1>2. IInv /\ Ending => EndsWhereItShould
    <2> SUFFICES ASSUME IInv, Ending PROVE EndsWhereItShould
      OBVIOUS
    <2>1. ASSUME registered, NEW n \in DOMAIN runs
          PROVE  /\ runs[n].status = "completed" =>
                      runs[n].updates = Budget /\ runs[n].probes = {u \in 1 .. Budget : Probed(u)}
                 /\ runs[n].status = "early-stopped" => runs[n].updates = stopAt
      <3>1. n \in 1 .. Len(runs)
        BY DEF IInv, Types
      <3> QED
        BY <2>1, <3>1 DEF Ending, EndedWell, Candid
    <2>2. ASSUME stopAt # Never, NEW line \in rows PROVE line.step <= stopAt * Rollout
      <3>1. stopAt \in Nat /\ line.step <= Decided[stopAt]
        BY <2>2 DEF Ending
      <3> QED
        BY <3>1 DEF Decided
    <2> QED
      BY <2>1, <2>2 DEF EndsWhereItShould
  <1> QED
    BY <1>1, <1>2, Inductive, PTL

-----------------------------------------------------------------------------
(***************************************************************************)
(* Exact continuation.  The lines are a chain: each names the frame that    *)
(* follows it, and so determines the next, whichever segment writes it; a   *)
(* segment that plays and a checkpoint that waits are places in the chain.  *)
(***************************************************************************)
Lines == [step : Nat, transition : Transitions, bootstrap : BOOLEAN, continuation : BOOLEAN]

After(line) ==
  LET frame == line.transition.frame IN
  IF line.continuation THEN [episode |-> frame.episode, decision |-> frame.decision + 1]
                       ELSE [episode |-> frame.episode + 1, decision |-> 0]

\* The frame of the decision that comes after k others.
Follows(k, frame) ==
  \/ k = 0 /\ frame = [episode |-> 0, decision |-> 0]
  \/ \E line \in rows : line.step = k /\ frame = After(line)

\* A transition is the decision at its frame, whoever made it.
Taken(t) ==
  /\ t.frame \in Games /\ t.frame.episode < Len(fate)
  /\ t.reset = (t.frame.decision = 0)
  /\ t.policy \in Nat /\ \E i \in 1 .. Rollout : InOrder(t, Decided[t.policy] + i, t.policy)
  /\ Follows(t.step - 1, t.frame)

\* Where it leaves the game.
Left(t) == [episode |-> t.frame.episode, decision |-> t.frame.decision + 1]

Written(line) ==
  /\ line \in Lines /\ line.step = line.transition.step
  /\ Taken(line.transition)
  /\ line.continuation = ~Ended(Left(line.transition))
  /\ line.bootstrap = ~Terminal(Left(line.transition))

Upcoming == IF game = NoGame THEN [episode |-> episode, decision |-> 0] ELSE game

Playing ==
  /\ game # NoGame => episode = game.episode + 1 /\ game.episode < Len(fate)
  /\ at # "reward" => Follows(Restored + index, Upcoming)
  /\ at = "reward" =>
       LET t == trainer.rollout[Len(trainer.rollout)] IN
       t.step = StepNumber /\ Taken(t) /\ game = Left(t)

Chained ==
  /\ fate \in Seq(Nat)
  /\ \A line \in rows : Written(line)
  /\ ExactContinuation
  /\ at \in Active => Playing
  /\ \A save \in saves : Follows(Decided[save.update], [episode |-> save.next, decision |-> 0])

-----------------------------------------------------------------------------
\* A place among the decisions is a place in one rollout.
LEMMA OnePlace ==
  ASSUME NEW u \in Nat, NEW v \in Nat, NEW i \in 1 .. Rollout, NEW j \in 1 .. Rollout,
         Decided[u] + i = Decided[v] + j
  PROVE  u = v
  <1>1. Decided[u] \in Nat /\ Decided[v] \in Nat
    BY Decisions
  <1>2. ASSUME u < v PROVE FALSE
    BY <1>1, <1>2, Fewer, Params
  <1>3. ASSUME v < u PROVE FALSE
    BY <1>1, <1>3, Fewer, Params
  <1> QED
    BY <1>2, <1>3

\* What follows is determined, and its game is one that was drawn or is the next to be.
LEMMA OneFollows ==
  ASSUME Chained, NEW k, NEW f, NEW g, Follows(k, f), Follows(k, g)
  PROVE  f = g
  <1>1. \A line \in rows : line.step \in Nat /\ line.step # 0
    <2> SUFFICES ASSUME NEW line \in rows PROVE line.step \in Nat /\ line.step # 0
      OBVIOUS
    <2>1. Written(line)
      BY DEF Chained
    <2>2. PICK i \in 1 .. Rollout : InOrder(line.transition, Decided[line.transition.policy] + i, line.transition.policy)
      BY <2>1 DEF Written, Taken
    <2>3. Decided[line.transition.policy] \in Nat
      BY <2>1, Decisions DEF Written, Taken
    <2> QED
      BY <2>1, <2>2, <2>3, Params DEF Written, InOrder
  <1> QED
    BY <1>1 DEF Follows, Chained, ExactContinuation

LEMMA FollowsDrawn ==
  ASSUME Chained, NEW k, NEW f, Follows(k, f)
  PROVE  f \in Games /\ f.episode <= Len(fate)
  <1>1. Len(fate) \in Nat
    BY DEF Chained
  <1>2. CASE f = [episode |-> 0, decision |-> 0]
    BY <1>1, <1>2 DEF Games
  <1>3. ASSUME NEW line \in rows, f = After(line)
        PROVE  f \in Games /\ f.episode <= Len(fate)
    <2>1. line.transition.frame \in Games /\ line.transition.frame.episode < Len(fate)
      BY DEF Chained, Written, Taken
    <2> QED
      BY <1>1, <1>3, <2>1 DEF After, Games
  <1> QED
    BY <1>2, <1>3 DEF Follows

\* Two lines of one step are one line.
LEMMA OneLine ==
  ASSUME Chained, NEW a, NEW b, Written(a), Written(b), a.step = b.step
  PROVE  a = b
  <1> DEFINE s == a.transition
             t == b.transition
  <1>1. s \in Transitions /\ t \in Transitions /\ s.step = a.step /\ t.step = b.step
        /\ Taken(s) /\ Taken(t)
    BY DEF Written, Lines
  <1>2. PICK i \in 1 .. Rollout : InOrder(s, Decided[s.policy] + i, s.policy)
    BY <1>1 DEF Taken
  <1>3. PICK j \in 1 .. Rollout : InOrder(t, Decided[t.policy] + j, t.policy)
    BY <1>1 DEF Taken
  <1>4. s.step = t.step
    BY <1>1
  <1>5. s.policy = t.policy
    <2>1. s.policy \in Nat /\ t.policy \in Nat
      BY <1>1 DEF Taken
    <2>2. Decided[s.policy] + i = Decided[t.policy] + j
      BY <1>2, <1>3, <1>4 DEF InOrder
    <2> QED
      BY <2>1, <2>2, OnePlace
  <1>6. s.frame = t.frame
    <2>1. Follows(s.step - 1, s.frame) /\ Follows(s.step - 1, t.frame)
      BY <1>1, <1>4 DEF Taken
    <2> QED
      BY <2>1, OneFollows
  <1>7. s.sample = t.sample /\ s.hidden = t.hidden
    BY <1>2, <1>3, <1>4, <1>6 DEF InOrder
  <1>8. s.reset = t.reset
    BY <1>1, <1>6 DEF Taken
  <1>9. s = t
    BY <1>1, <1>4, <1>5, <1>6, <1>7, <1>8 DEF Transitions
  <1>10. a.continuation = b.continuation /\ a.bootstrap = b.bootstrap
    BY <1>9 DEF Written
  <1>11. a \in Lines /\ b \in Lines
    BY DEF Written
  <1> QED
    BY <1>9, <1>10, <1>11 DEF Lines

\* More lines, and more fates, keep the chain.
LEMMA ChainGrows ==
  ASSUME Chained, rows \subseteq rows', fate' = fate \/ \E length \in Nat : fate' = Append(fate, length)
  PROVE  /\ \A k, f : Follows(k, f) => Follows(k, f)'
         /\ \A t : Taken(t) => Taken(t)'
         /\ \A line : Written(line) => Written(line)'
         /\ fate' \in Seq(Nat) /\ Len(fate) <= Len(fate')
         /\ \A e \in Nat : e < Len(fate) => e < Len(fate')
  <1>1. \A k, f : Follows(k, f) => Follows(k, f)'
    BY DEF Follows, After
  <1>2. /\ fate' \in Seq(Nat) /\ Len(fate) \in Nat /\ Len(fate') \in Nat /\ Len(fate) <= Len(fate')
        /\ \A n \in 1 .. Len(fate) : fate'[n] = fate[n]
    BY DEF Chained
  <1>3. \A t : Taken(t) => Taken(t)'
    BY <1>1, <1>2 DEF Taken, Games, InOrder
  <1>4. \A line : Written(line) => Written(line)'
    <2> SUFFICES ASSUME NEW line, Written(line) PROVE Written(line)'
      OBVIOUS
    <2> DEFINE left == Left(line.transition)
    <2>1. left.episode \in Nat /\ left.episode + 1 \in 1 .. Len(fate)
      BY <1>2 DEF Written, Taken, Left, Games
    <2>2. Ended(left)' = Ended(left) /\ Terminal(left)' = Terminal(left)
      BY <1>2, <2>1 DEF Ended, Terminal
    <2> QED
      BY <1>3, <2>2 DEF Written, Left
  <1> QED
    BY <1>1, <1>2, <1>3, <1>4

LEMMA InitChained == Init => Chained
  BY DEF Init, Chained, ExactContinuation, Active

\* What a step leaves of the chain when it writes no line.
LEMMA ChainKept ==
  ASSUME Chained, UNCHANGED <<rows, fate>>, (at \in Active => Playing)',
         \A save \in saves' : save \in saves \/ Follows(Decided[save.update], [episode |-> save.next, decision |-> 0])
  PROVE  Chained'
  <1>1. /\ \A k, f : Follows(k, f) => Follows(k, f)'
        /\ \A line : Written(line) => Written(line)'
    BY ChainGrows
  <1>2. (\A line \in rows : Written(line))'
    BY <1>1 DEF Chained
  <1>3. (\A save \in saves : Follows(Decided[save.update], [episode |-> save.next, decision |-> 0]))'
    BY <1>1 DEF Chained
  <1>4. ExactContinuation'
    BY DEF Chained, ExactContinuation
  <1> QED
    BY <1>2, <1>3, <1>4 DEF Chained

\* A segment ends, or is at the head of the chain or at a checkpoint of it.
LEMMA SegmentChained ==
  ASSUME IInv, Chained, NEW s,
         \/ s = "end" /\ at' = "over" /\ UNCHANGED <<rows, fate, saves>>
         \/ s = "start" /\ Start
         \/ s = "resume" /\ Resume
         \/ s = "restore" /\ Restore
  PROVE  Chained'
  <1>1. UNCHANGED <<rows, fate, saves>>
    BY DEF Start, Resume, Begin, Restore, oracles
  <1>2. \A k, f : Follows(k, f) => Follows(k, f)'
    BY <1>1, ChainGrows
  <1>3. (at \in Active => Playing)'
    <2>1. CASE at' \in {"over", "restore"}
      BY <2>1 DEF Active
    <2>2. CASE Start
      <3>1. at' = "loop" /\ game' = NoGame /\ episode' = 0 /\ index' = 0 /\ record'.from = 0
        BY <2>2 DEF Start, Begin, NewRecord
      <3>2. (Restored + index)' = 0 /\ Upcoming' = [episode |-> 0, decision |-> 0]
        BY <3>1, Params DEF Restored, Upcoming
      <3> QED
        BY <3>1, <3>2 DEF Playing, Follows
    <2>3. CASE Restore
      <3>1. /\ at = "restore" /\ at' = "loop" /\ game' = game /\ episode' = source.next /\ index' = index /\ source' = source
            /\ source \in saves /\ index = 0 /\ game = NoGame /\ source \in Saves /\ record \in Records
        BY <2>3 DEF Restore, IInv, Types, OnDisk, Resetting, Active
      <3>2. record'.from = source.update
        BY <2>3, <3>1 DEF Restore, Records
      <3>3. (Restored + index)' = Decided[source.update] /\ Upcoming' = [episode |-> source.next, decision |-> 0]
        <4>1. Decided[source.update] = source.update * Rollout /\ source.update * Rollout \in Nat
          BY <3>1, Params DEF Decided, Saves
        <4> QED
          BY <3>1, <3>2, <4>1 DEF Restored, Upcoming
      <3>4. Follows(Decided[source.update], [episode |-> source.next, decision |-> 0])'
        BY <1>2, <3>1 DEF Chained
      <3> QED
        BY <3>1, <3>3, <3>4 DEF Playing
    <2> QED
      BY <2>1, <2>2, <2>3 DEF Resume
  <1> QED
    BY <1>1, <1>3, ChainKept

\* A game is drawn, or met again.
LEMMA ResetChained ==
  ASSUME IInv, Chained, Reset PROVE Chained'
  <1>1. /\ at = "loop" /\ at' = "loop" /\ game = NoGame /\ game' = [episode |-> episode, decision |-> 0]
        /\ episode' = episode + 1 /\ UNCHANGED <<record, saves, index, rows>> /\ episode \in Nat
    BY DEF Reset, IInv, Types
  <1>2. Follows(Restored + index, [episode |-> episode, decision |-> 0]) /\ episode <= Len(fate)
    <2>1. Follows(Restored + index, [episode |-> episode, decision |-> 0])
      BY <1>1 DEF Chained, Playing, Upcoming, Active
    <2> QED
      BY <2>1, FollowsDrawn
  <1>3. fate' = fate \/ \E length \in Nat : fate' = Append(fate, length)
    BY Params DEF Reset
  <1>4. /\ \A k, f : Follows(k, f) => Follows(k, f)'
        /\ \A line : Written(line) => Written(line)'
        /\ fate' \in Seq(Nat)
    BY <1>1, <1>3, ChainGrows
  <1>5. episode < Len(fate')
    BY <1>1, <1>2 DEF Reset, Chained
  <1>6. Playing'
    <2>1. game'.episode = episode /\ game' # NoGame
      BY <1>1 DEF NoGame
    <2>2. Upcoming' = [episode |-> episode, decision |-> 0] /\ (Restored + index)' = Restored + index
      BY <1>1, <2>1 DEF Upcoming, Restored
    <2>3. (Follows(Restored + index, Upcoming))'
      BY <1>2, <1>4, <2>2
    <2> QED
      BY <1>1, <1>5, <2>1, <2>3 DEF Playing
  <1>7. (\A line \in rows : Written(line))' /\ ExactContinuation'
    BY <1>1, <1>4 DEF Chained, ExactContinuation
  <1>8. (\A save \in saves : Follows(Decided[save.update], [episode |-> save.next, decision |-> 0]))'
    BY <1>1, <1>4 DEF Chained
  <1> QED
    BY <1>4, <1>6, <1>7, <1>8 DEF Chained

\* The trainer is asked at the frame that follows.
LEMMA ActChained ==
  ASSUME IInv, IInv', Chained, Act PROVE Chained'
  <1> DEFINE n == Len(trainer.rollout)
  <1>0. PICK new : new = [step |-> StepNumber, frame |-> Frame, reset |-> ResetFlag,
                          hidden |-> Hidden, sample |-> trainer.samples, policy |-> trainer.updates]
    OBVIOUS
  <1>1. /\ at = "loop" /\ at' = "reward" /\ game # NoGame /\ Frame = game
        /\ UNCHANGED <<record, saves, index, episode, rows, fate>>
        /\ game' = [game EXCEPT !.decision = @ + 1] /\ game \in Games
    BY DEF Act, oracles, IInv, Types
  <1>2. /\ trainer'.rollout = Append(trainer.rollout, new) /\ trainer'.updates = trainer.updates
        /\ trainer.rollout \in Seq(Transitions) /\ trainer'.rollout \in Seq(Transitions)
    BY <1>0 DEF Act, IInv, Types, Trainers
  <1>3. Len(trainer'.rollout) = n + 1 /\ trainer'.rollout[n + 1] = new /\ n \in Nat
    BY <1>2
  <1>4. /\ new.step = StepNumber /\ new.frame = game /\ new.reset = (game.decision = 0) /\ new.policy = trainer.updates
    BY <1>0, <1>1 DEF ResetFlag
  <1>5. Taken(new)
    <2>1. new.frame \in Games /\ new.frame.episode < Len(fate)
      BY <1>1, <1>4 DEF Chained, Playing, Active
    <2>2. InOrder(new, Decided[new.policy] + (n + 1), new.policy) /\ n + 1 \in 1 .. Rollout /\ new.policy \in Nat
      <3>1. InOrder(trainer'.rollout[n + 1], Decided[trainer'.updates] + (n + 1), trainer'.updates)
        BY <1>3 DEF IInv, Learning
      <3>2. n + 1 \in 1 .. Rollout
        BY <1>1, <1>3 DEF IInv, Counting, Active
      <3> QED
        BY <1>2, <1>3, <1>4, <3>1, <3>2 DEF IInv, Types, Trainers
    <2>3. Follows(new.step - 1, new.frame)
      <3>1. StepNumber - 1 = Restored + index
        BY Params DEF StepNumber, Restored, IInv, Types, Records
      <3>2. Follows(Restored + index, Upcoming) /\ Upcoming = game
        BY <1>1 DEF Chained, Playing, Upcoming, Active
      <3> QED
        BY <1>4, <3>1, <3>2
    <2> QED
      BY <1>4, <2>1, <2>2, <2>3 DEF Taken
  <1>6. Playing'
    <2>1. Taken(new)'
      BY <1>1, <1>5, ChainGrows
    <2>2. game' = Left(new) /\ game'.episode = game.episode
      BY <1>1, <1>4 DEF Left, Games
    <2>3. StepNumber' = new.step
      BY <1>1, <1>4 DEF StepNumber, Restored
    <2>4. episode' = game'.episode + 1 /\ game'.episode < Len(fate')
      BY <1>1, <2>2 DEF Chained, Playing, Active
    <2>5. trainer'.rollout[Len(trainer'.rollout)] = new
      BY <1>3
    <2> QED
      BY <1>1, <2>1, <2>2, <2>3, <2>4, <2>5 DEF Playing, Left
  <1> QED
    BY <1>1, <1>6, ChainKept

\* The line of a decision is the line every segment writes for it.
LEMMA RewardChained ==
  ASSUME IInv, Chained, Reward PROVE Chained'
  <1>0. PICK t : t = trainer.rollout[Len(trainer.rollout)]
    OBVIOUS
  <1>11. PICK new : new = Line
    OBVIOUS
  <1>1. /\ at = "reward" /\ at' \in {"loop", "update"} /\ rows' = rows \cup {new} /\ index' = index + 1
        /\ game' = (IF Ended(game) THEN NoGame ELSE game) /\ UNCHANGED <<record, saves, episode, fate>>
    BY <1>11 DEF Reward, oracles
  <1>2. /\ new = [step |-> StepNumber, transition |-> t, bootstrap |-> ~Terminal(game), continuation |-> ~Ended(game)]
        /\ game # NoGame /\ game \in Games /\ StepNumber \in Nat /\ t \in Transitions
    <2>1. Len(trainer.rollout) \in 1 .. Rollout /\ trainer.rollout \in Seq(Transitions)
      BY <1>1 DEF IInv, Types, Trainers, Counting, Active
    <2>2. t \in Transitions
      BY <1>0, <2>1, Params
    <2>3. game # NoGame /\ game \in Games
      BY <1>1 DEF IInv, Types, Resetting, Active
    <2>4. StepNumber \in Nat
      <3>1. record.from \in Nat /\ index \in Nat
        BY DEF IInv, Types, Records
      <3>2. Restored \in Nat
        BY <3>1, Params DEF Restored
      <3> QED
        BY <3>1, <3>2 DEF StepNumber
    <2> QED
      BY <1>0, <1>11, <2>2, <2>3, <2>4 DEF Line, Last
  <1>3. t.step = StepNumber /\ Taken(t) /\ game = Left(t) /\ episode = game.episode + 1
    BY <1>0, <1>1, <1>2 DEF Chained, Playing, Active
  <1>4. Written(new)
    <2>1. new.step = t.step /\ new.transition = t /\ new.continuation = ~Ended(game) /\ new.bootstrap = ~Terminal(game)
      BY <1>2, <1>3
    <2>2. new \in Lines
      BY <1>2 DEF Lines, Ended, Terminal
    <2> QED
      BY <1>3, <2>1, <2>2 DEF Written
  <1>5. /\ \A k, f : Follows(k, f) => Follows(k, f)'
        /\ \A line : Written(line) => Written(line)'
    BY <1>1, ChainGrows
  <1>6. (\A line \in rows : Written(line))'
    BY <1>1, <1>4, <1>5 DEF Chained
  <1>7. ExactContinuation'
    BY <1>1, <1>4, OneLine DEF Chained, ExactContinuation
  <1>8. Playing'
    <2>1. (Restored + index)' = new.step
      BY <1>1, <1>2, Params DEF StepNumber, Restored, IInv, Types, Records
    <2>2. Upcoming' = After(new)
      <3>1. /\ new.continuation = ~Ended(game) /\ new.transition = t
            /\ game = [episode |-> t.frame.episode, decision |-> t.frame.decision + 1]
        BY <1>2, <1>3 DEF Left
      <3>2. episode = t.frame.episode + 1
        BY <1>3, <3>1
      <3>3. CASE Ended(game)
        BY <1>1, <3>1, <3>2, <3>3 DEF Upcoming, After
      <3>4. CASE ~Ended(game)
        BY <1>1, <1>2, <3>1, <3>4 DEF Upcoming, After
      <3> QED
        BY <3>3, <3>4
    <2>3. (Follows(Restored + index, Upcoming))'
      BY <1>1, <2>1, <2>2 DEF Follows, After
    <2>4. (game # NoGame => episode = game.episode + 1 /\ game.episode < Len(fate))'
      BY <1>1, <1>2 DEF Chained, Playing, Active
    <2> QED
      BY <1>1, <2>3, <2>4 DEF Playing
  <1>9. (\A save \in saves : Follows(Decided[save.update], [episode |-> save.next, decision |-> 0]))'
    BY <1>1, <1>5 DEF Chained
  <1>10. fate' \in Seq(Nat)
    BY <1>1 DEF Chained
  <1> QED
    BY <1>6, <1>7, <1>8, <1>9, <1>10 DEF Chained

\* Between two rollouts the place in the chain does not change; a checkpoint keeps it.
LEMMA BoundaryChained ==
  ASSUME IInv, Chained, Update \/ Skip \/ Publish \/ Manifest \/ Persist PROVE Chained'
  <1>1. /\ at \in {"update", "checkpoint", "manifest", "persist"}
        /\ at' \in {"checkpoint", "manifest", "persist", "loop", "finish"}
        /\ UNCHANGED <<rows, fate, index, episode, game>> /\ record'.from = record.from
    BY DEF Update, Skip, Publish, Manifest, Persist, oracles, IInv, Types, Records
  <1>2. Playing'
    <2>1. (Restored + index)' = Restored + index /\ Upcoming' = Upcoming
      BY <1>1 DEF Restored, Upcoming
    <2>2. Playing
      BY <1>1 DEF Chained, Active
    <2>3. Follows(Restored + index, Upcoming)'
      BY <1>1, <2>1, <2>2, ChainGrows DEF Playing
    <2> QED
      BY <1>1, <2>2, <2>3 DEF Playing
  <1>3. \A save \in saves' : save \in saves \/ Follows(Decided[save.update], [episode |-> save.next, decision |-> 0])
    <2>1. saves' \subseteq saves \cup {ThisSave(FALSE), ThisSave(TRUE)} /\ (saves' = saves \/ Publish \/ Manifest)
      BY DEF Update, Skip, Publish, Manifest, Persist
    <2>2. ASSUME Publish \/ Manifest, NEW complete \in BOOLEAN
          PROVE  Follows(Decided[ThisSave(complete).update], [episode |-> ThisSave(complete).next, decision |-> 0])
      <3>1. at \in {"checkpoint", "manifest"} /\ game = NoGame
        BY <2>2 DEF Publish, Manifest, SaveAllowed, IInv, Resetting, Active
      <3>2. Follows(Restored + index, [episode |-> episode, decision |-> 0])
        BY <3>1 DEF Chained, Playing, Upcoming, Active
      <3>3. Decided[trainer.updates] = Restored + index
        <4> DEFINE learned == Decided[trainer.updates]
                   begun == Decided[record.from]
        <4>1. learned + Len(trainer.rollout) = begun + index + 0 /\ trainer.rollout = <<>>
          BY <3>1 DEF IInv, Counting, Active, Boundaries
        <4>2. learned \in Nat /\ begun \in Nat /\ index \in Nat /\ begun = Restored
          BY Decisions DEF IInv, Types, Trainers, Records, Decided, Restored
        <4> HIDE DEF learned, begun
        <4>3. learned = Restored + index
          BY <4>1, <4>2
        <4> QED
          BY <4>3 DEF learned
      <3>4. ThisSave(complete).update = trainer.updates /\ ThisSave(complete).next = episode
        BY DEF ThisSave
      <3> QED
        BY <3>2, <3>3, <3>4
    <2> QED
      BY <2>1, <2>2
  <1> QED
    BY <1>1, <1>2, <1>3, ChainKept

LEMMA NextChained == IInv /\ IInv' /\ Chained /\ [Next]_vars => Chained'
  <1> SUFFICES ASSUME IInv, IInv', Chained, [Next]_vars PROVE Chained'
    OBVIOUS
  <1>1. CASE Start \/ Resume \/ Restore
    BY <1>1, SegmentChained
  <1>2. CASE RestoreRefused \/ Raised \/ Interrupted \/ Finish \/ Killed
    <2>1. at' = "over" /\ UNCHANGED <<rows, fate, saves>>
      BY <1>2 DEF RestoreRefused, Raised, Interrupted, Finish, Killed, EndWith, oracles
    <2> QED
      BY <2>1, SegmentChained
  <1>3. CASE Decision
    BY <1>3, ResetChained, ActChained, RewardChained DEF Decision
  <1>4. CASE Update \/ Skip \/ Publish \/ Manifest \/ Persist
    BY <1>4, BoundaryChained
  <1>5. CASE UNCHANGED vars
    <2>1. (at \in Active => Playing)'
      BY <1>5 DEF vars, oracles, Chained, Playing, Follows, Upcoming, Restored, StepNumber, Taken, InOrder
    <2> QED
      BY <1>5, <2>1, ChainKept DEF vars, oracles
  <1> QED
    BY <1>1, <1>2, <1>3, <1>4, <1>5 DEF Next, Boundary

\* What verify_v2_resume compares: from whichever checkpoint a segment resumed, and whatever
\* interrupted the others, a decision has one game, position, policy, recurrent state and draw.
THEOREM Continued == Spec => []ExactContinuation
  <1>1. Spec => []Chained
    BY InitChained, NextChained, Inductive, PTL DEF Spec
  <1>2. Chained => ExactContinuation
    BY DEF Chained
  <1> QED
    BY <1>1, <1>2, PTL
=============================================================================
