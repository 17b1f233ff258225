------------------------------ MODULE Campaign ------------------------------
(***************************************************************************)
(* The M22 generalist campaign: a native process that trains, checks what  *)
(* it has retained and publishes content-addressed checkpoints; the        *)
(* recovery harness, which trains once without a break and once across two *)
(* processes and compares; the training harness, which trains every member *)
(* and selects a checkpoint; and, once a harness has ended, people who     *)
(* resume published checkpoints by hand, into any directory.               *)
(*                                                                         *)
(* A batch of 128 transitions is one unit of every counter, one program    *)
(* stands for the programs of a curriculum stage, and the parameters with  *)
(* the optimizer are the sequence of the batches they were trained on: two *)
(* models are equal exactly when they were trained alike.  Metrics,        *)
(* rewards and tensors follow from these.  All of this is on one device:   *)
(* the harnesses train on cuda:0, and who resumes by hand is assumed to    *)
(* choose it too (--device may also name the CPU, whose sums differ).      *)
(***************************************************************************)
EXTENDS Naturals, Sequences, FiniteSets, SequencesExt

CONSTANTS Members,        \* the architectures and seeds that are trained
          CheckEvery,     \* updates between two retention checks (4 in the code)
          SaveEvery,      \* updates between two checkpoints (8)
          Stages,         \* curriculum stages (7)
          Fork,           \* the update at which the recovery harness breaks off (16)
          Budget,         \* the most updates of a campaign (48)
          MaxByHand       \* bound: campaigns launched by hand

ASSUME CampaignAssumption ==
  /\ IsFiniteSet(Members) /\ {CheckEvery, SaveEvery, Stages, Fork} \subseteq Nat \ {0}
  /\ SaveEvery % CheckEvery = 0 /\ Fork % SaveEvery = 0
  /\ Budget \in Nat /\ Budget >= Fork + SaveEvery

VARIABLES process,    \* the native process
          disk,       \* what is published in each checkpoint root
          harness,    \* the harness that is running
          byHand,     \* campaigns launched by hand
          judged,     \* what a development evaluation of a model shows, once it was made
          printed,    \* history: every M22_UPDATE line any process printed
          faulted     \* something failed that a harness could not help

vars == <<process, disk, harness, byHand, judged, printed, faulted>>

NoCheck == [update |-> 0]
Nowhere == [pc |-> "none"]
Roots == {"uninterrupted", "prefix", "resumed", "training", "other"} \X Members

(***************************************************************************)
(* The state of a campaign: the trainer's and the campaign's own.          *)
(***************************************************************************)
NewTrainer(member) ==
  [member |-> member, updates |-> 0, model |-> <<>>,
   action |-> 0, minibatch |-> 0, environment |-> 0, curriculum |-> 0]

NewCampaign(member) ==
  [trainer |-> NewTrainer(member), hidden |-> 0, stage |-> 0, passMask |-> {},
   transition |-> 0, history |-> <<>>, last |-> NoCheck]

RuntimeState(campaign) == [campaign.trainer EXCEPT !.model = <<>>]

(* What save_m22_checkpoint writes; the identity is the digest of all of it. *)
Content(campaign) ==
  [model |-> campaign.trainer.model, runtime |-> RuntimeState(campaign),
   state |-> [hidden |-> campaign.hidden, stage |-> campaign.stage, passMask |-> campaign.passMask,
              transition |-> campaign.transition, history |-> campaign.history],
   selection |-> campaign.last]

(* load_m22_checkpoint and the constructor that resumes; the last retention *)
(* result is not part of the state and starts over.                         *)
Decoded(content) ==
  [trainer |-> [content.runtime EXCEPT !.model = content.model],
   hidden |-> content.state.hidden, stage |-> content.state.stage,
   passMask |-> content.state.passMask, transition |-> content.state.transition,
   history |-> content.state.history, last |-> NoCheck]

\* Mutations: what was passed, or the curriculum stream, starts over as well.
LoadedWithoutMask(content) == [Decoded(content) EXCEPT !.passMask = {}]
LoadedWithoutStream(content) == [Decoded(content) EXCEPT !.trainer.curriculum = 0]
Loaded(content) == Decoded(content)

(***************************************************************************)
(* One update.  The schedule draws from the environment and the curriculum *)
(* stream, the actions from the action stream, the minibatches from the    *)
(* fourth; a rollout covers whole episodes and leaves its hidden state.    *)
(***************************************************************************)
StageForNextUpdate(campaign) ==
  LET reached == campaign.trainer.updates \div CheckEvery
  IN  IF reached < Stages THEN reached ELSE Stages - 1

Trace(campaign) ==
  [environment |-> campaign.trainer.environment, curriculum |-> campaign.trainer.curriculum,
   action |-> campaign.trainer.action, model |-> campaign.trainer.model,
   stage |-> StageForNextUpdate(campaign)]

Trained(campaign) ==
  LET t == campaign.trainer
      batch == <<t.environment, t.curriculum, t.action, t.minibatch, StageForNextUpdate(campaign)>>
  IN  [trainer |-> [member |-> t.member, updates |-> t.updates + 1, model |-> Append(t.model, batch),
                    action |-> t.action + 1, minibatch |-> t.minibatch + 1,
                    environment |-> t.environment + 1, curriculum |-> t.curriculum + 1],
       hidden |-> t.updates + 1, stage |-> StageForNextUpdate(campaign),
       passMask |-> campaign.passMask, transition |-> campaign.transition + 1,
       history |-> campaign.history, last |-> campaign.last]

Introduced(stage) == 0 .. stage

(* The greedy evaluation draws nothing: a model always passes the same programs. *)
Evaluation(campaign) ==
  [member |-> campaign.trainer.member, model |-> campaign.trainer.model, stage |-> campaign.stage]

Passes(campaign) ==
  {p \in SUBSET Introduced(campaign.stage) :
     \A j \in judged : j.of = Evaluation(campaign) => j.passed = p}

Retention(campaign, passed) ==
  LET regressed == ~(campaign.passMask \subseteq passed)
  IN  [update |-> campaign.trainer.updates, stage |-> campaign.stage, passed |-> passed,
       catastrophic |-> regressed, allowed |-> ~regressed,
       eligible |-> ~regressed /\ passed = Introduced(campaign.stage)]

Checked(campaign, passed) ==
  LET result == Retention(campaign, passed)
  IN  [trainer |-> campaign.trainer, hidden |-> campaign.hidden, stage |-> campaign.stage,
       passMask |-> campaign.passMask \cup passed, transition |-> campaign.transition,
       history |-> Append(campaign.history, result), last |-> result]

UpdateLine(before, after, ran) ==
  [update |-> after.trainer.updates, transitions |-> after.trainer.updates,
   trace |-> Trace(before), hidden |-> after.hidden, stage |-> after.stage, ran |-> ran,
   retention |-> IF ran THEN after.last ELSE NoCheck]

Say(line) == printed' = printed \cup {[member |-> process.campaign.trainer.member, line |-> line]}

Running == process.pc \notin {"none", "exited"}

RetentionDue(campaign) == campaign.trainer.updates % CheckEvery = 0
SaveDue(campaign) == RetentionDue(campaign) /\ campaign.trainer.updates % SaveEvery = 0
                       /\ campaign.last.allowed

\* Afterwards the process saves, goes on or is done.
Updated(campaign, ran) ==
  LET line == UpdateLine(process.campaign, campaign, ran)
  IN  /\ Say(line)
      /\ process' = [process EXCEPT !.campaign = campaign, !.left = @ - 1,
                       !.out.updates = Append(@, line),
                       !.pc = IF ran /\ SaveDue(campaign) THEN "save"
                              ELSE IF process.left = 1 THEN "exit" ELSE "update"]

RunUpdate ==
  /\ process.pc = "update"
  /\ LET trained == Trained(process.campaign)
     IN  IF ~RetentionDue(trained)
         THEN Updated(trained, FALSE) /\ UNCHANGED judged
         ELSE \E passed \in Passes(trained) :
                /\ Updated(Checked(trained, passed), TRUE)
                /\ judged' = judged \cup {[of |-> Evaluation(trained), passed |-> passed]}
  /\ UNCHANGED <<disk, harness, byHand, faulted>>

Exited(code) == process' = [process EXCEPT !.pc = "exited", !.code = code]

(* A nonfinite tensor, a full disk or a device ends the process; so does a kill, *)
(* and the harness kills what takes longer than half an hour.                    *)
Fails ==
  /\ Running
  /\ Exited("error") /\ faulted' = TRUE
  /\ UNCHANGED <<disk, harness, byHand, judged, printed>>

(* The directory is renamed into place whole, and never over another; the process *)
(* can die before it has printed so.                                              *)
Save ==
  /\ process.pc = "save"
  /\ LET content == Content(process.campaign)
     IN  IF content \in disk[process.root]
         THEN Exited("exists") /\ UNCHANGED disk
         ELSE /\ process' = [process EXCEPT !.pc = "announce"]
              /\ disk' = [disk EXCEPT ![process.root] = @ \cup {content}]
  /\ UNCHANGED <<harness, byHand, judged, printed, faulted>>

Announce ==
  /\ process.pc = "announce"
  /\ process' = [process EXCEPT
       !.pc = IF process.left = 0 THEN "exit" ELSE "update",
       !.out.checkpoints = Append(@, [update |-> process.campaign.trainer.updates,
                                      id |-> Content(process.campaign)])]
  /\ UNCHANGED <<disk, harness, byHand, judged, printed, faulted>>

Exit ==
  /\ process.pc = "exit"
  /\ process' = [process EXCEPT !.pc = "exited", !.code = "pass",
       !.out.terminal = Append(@, [member |-> process.campaign.trainer.member,
                                   updates |-> process.campaign.trainer.updates,
                                   transitions |-> process.campaign.trainer.updates])]
  /\ UNCHANGED <<disk, harness, byHand, judged, printed, faulted>>

\* What a process prints, in the three lists its parser sorts it into.
Silent == [updates |-> <<>>, checkpoints |-> <<>>, terminal |-> <<>>]

Launched(campaign, additional, root) ==
  [pc |-> IF \/ campaign.transition # campaign.trainer.updates
             \/ campaign.trainer.updates + additional > Budget
          THEN "refused" ELSE "update",
   campaign |-> campaign, left |-> additional, root |-> root, out |-> Silent, code |-> "none"]

Refuse ==
  /\ process.pc = "refused"
  /\ Exited("error")
  /\ UNCHANGED <<disk, harness, byHand, judged, printed, faulted>>

Native == RunUpdate \/ Save \/ Announce \/ Exit \/ Refuse \/ Fails

(***************************************************************************)
(* The harnesses.  A job is one process; what is parsed of its output is   *)
(* kept in done.                                                           *)
(***************************************************************************)
Job(name, member, start, count) == [name |-> name, member |-> member, start |-> start, count |-> count]

RecoveryJobs(member) ==
  << Job("uninterrupted", member, 0, Fork + SaveEvery), Job("prefix", member, 0, Fork),
     Job("resumed", member, Fork, SaveEvery) >>

InOrder == SetToSeq(Members)

Jobs(kind) ==
  IF kind = "recovery"
  THEN [n \in 1 .. 3 * Len(InOrder) |-> RecoveryJobs(InOrder[(n - 1) \div 3 + 1])[((n - 1) % 3) + 1]]
  ELSE [i \in DOMAIN InOrder |-> Job("training", InOrder[i], 0, Budget)]

Current == Jobs(harness.kind)[Len(harness.done) + 1]
Working == harness.status = "running"

(* The one checkpoint of a parsed process at an update. *)
CheckpointAt(parsed, update) ==
  {parsed.checkpoints[i] : i \in {k \in DOMAIN parsed.checkpoints : parsed.checkpoints[k].update = update}}

HarnessFails == harness' = [harness EXCEPT !.status = "FAIL", !.done = <<>>]

LaunchJob ==
  /\ Working /\ process = Nowhere /\ Len(harness.done) < Len(Jobs(harness.kind))
  /\ LET root == <<Current.name, Current.member>>
         from == IF Current.start = 0 THEN NewCampaign(Current.member)
                 ELSE Loaded((CHOOSE c \in CheckpointAt(Last(harness.done), Fork) : TRUE).id)
     IN  process' = Launched(from, Current.count, root)
  /\ UNCHANGED <<disk, harness, byHand, judged, printed, faulted>>

ExpectedUpdates == [k \in 1 .. Current.count |-> Current.start + k]

\* Every job starts at a multiple of each of its periods.
Every(period) == [k \in 1 .. Current.count \div period |-> Current.start + k * period]
\* Mutation: a checkpoint is expected of every check.
ExpectedAtEveryCheck == Every(CheckEvery)
ExpectedCheckpoints == Every(SaveEvery)

UpdatesOf(lines) == [i \in DOMAIN lines |-> lines[i].update]

(* parse_output, with the inspection of every directory it names. *)
WellFormed ==
  /\ UpdatesOf(process.out.updates) = ExpectedUpdates
  /\ \A u \in ToSet(process.out.updates) : u.ran <=> u.update % CheckEvery = 0
  /\ UpdatesOf(process.out.checkpoints) = ExpectedCheckpoints
  /\ \A c \in ToSet(process.out.checkpoints) : c.id \in disk[process.root]
  /\ process.out.terminal = <<[member |-> Current.member, updates |-> Last(ExpectedUpdates),
                               transitions |-> Last(ExpectedUpdates)]>>

Parsed == [member |-> Current.member, updates |-> process.out.updates,
           checkpoints |-> process.out.checkpoints]

SameCheckpoint(a, b, update) ==
  CheckpointAt(a, update) = CheckpointAt(b, update) /\ CheckpointAt(a, update) # {}

(* compare_run, of the three processes of a member. *)
Exact(whole, prefix, resumed) ==
  /\ SubSeq(whole.updates, 1, Fork) = prefix.updates
  /\ SubSeq(whole.updates, Fork + 1, Len(whole.updates)) = resumed.updates
  /\ \A u \in {k \in 1 .. Fork : k % SaveEvery = 0} : SameCheckpoint(whole, prefix, u)
  /\ SameCheckpoint(whole, resumed, Fork + SaveEvery)

NoRegression(parsed) ==
  \A u \in ToSet(parsed.updates) : u.ran => ~u.retention.catastrophic

(* The candidates of a training process that development admits.          *)
Eligible(parsed) == {c \in ToSet(parsed.checkpoints) : c.id.selection.eligible}

(* What run_one, or run for three processes, requires of a parsed job. *)
Accepted(done) ==
  LET n == Len(done)
  IN  IF harness.kind = "training" THEN NoRegression(done[n]) /\ Eligible(done[n]) # {}
      ELSE n % 3 = 0 => Exact(done[n - 2], done[n - 1], done[n])

FinishJob ==
  /\ Working /\ process.pc = "exited"
  /\ IF process.code = "pass" /\ WellFormed /\ Accepted(Append(harness.done, Parsed))
     THEN harness' = [harness EXCEPT !.done = Append(@, Parsed)]
     ELSE HarnessFails
  /\ process' = Nowhere
  /\ UNCHANGED <<disk, byHand, judged, printed, faulted>>

(* A learned campaign may not beat its baselines, or score its way out of     *)
(* eligibility: what the numbers show is not modelled.                        *)
Unimproved ==
  /\ Working /\ harness.kind = "training" /\ process.pc = "exited" /\ process.code = "pass"
  /\ HarnessFails /\ process' = Nowhere /\ faulted' = TRUE
  /\ UNCHANGED <<disk, byHand, judged, printed>>

(* The service count comes first in the selection key. *)
Selectable ==
  LET all == UNION {Eligible(p) : p \in ToSet(harness.done)}
  IN  {c \in all : \A d \in all : Cardinality(d.id.selection.passed) <= Cardinality(c.id.selection.passed)}

Report ==
  /\ Working /\ process = Nowhere /\ Len(harness.done) = Len(Jobs(harness.kind))
  /\ IF harness.kind = "recovery" THEN harness' = [harness EXCEPT !.status = "PASS"]
     ELSE \E c \in Selectable : harness' = [harness EXCEPT !.status = "PASS", !.selected = {c.id}]
  /\ UNCHANGED <<process, disk, byHand, judged, printed, faulted>>

Harness == LaunchJob \/ FinishJob \/ Unimproved \/ Report

(* Afterwards anyone may resume anything that is published, into the root it *)
(* came from or another, on the device it was trained on.                    *)
ResumeByHand ==
  /\ ~Working /\ ~Running /\ byHand < MaxByHand
  /\ byHand' = byHand + 1
  /\ \E from \in Roots, additional \in {SaveEvery, Budget} : \E content \in disk[from] :
       \E to \in {from, <<"other", content.runtime.member>>} :
         process' = Launched(Loaded(content), additional, to)
  /\ UNCHANGED <<disk, harness, judged, printed, faulted>>

Init ==
  /\ process = Nowhere /\ disk = [r \in Roots |-> {}]
  /\ harness \in [kind : {"recovery", "training"}, done : {<<>>}, status : {"running"}, selected : {{}}]
  /\ byHand = 0 /\ judged = {} /\ printed = {} /\ faulted = FALSE

Next == Native \/ Harness \/ ResumeByHand

Spec == Init /\ [][Next]_vars

-----------------------------------------------------------------------------
(* Whichever process makes it, and however often it was resumed, an update of *)
(* a member is the same update and a checkpoint of it the same checkpoint,    *)
(* on one device: the streams, masks and stage of m22_checkpoint.cpp are      *)
(* enough to go on from (run_m22_recovery.py).                                *)
ExactRecovery ==
  /\ \A a, b \in printed : a.member = b.member /\ a.line.update = b.line.update => a = b
  /\ \A r, s \in Roots : \A c \in disk[r], d \in disk[s] :
       c.runtime.member = d.runtime.member /\ c.runtime.updates = d.runtime.updates => c = d

(* A published checkpoint passes every program that any check of its member  *)
(* passed up to then, also checks made in a process before it, and what a    *)
(* training run selects passes everything its stage introduced (m22_campaign *)
(* .cpp evaluate_development, checkpoint_allowed).                           *)
Retained ==
  /\ \A r \in Roots : \A c \in disk[r], a \in printed :
       /\ a.member = c.runtime.member /\ a.line.ran /\ a.line.update <= c.runtime.updates
       => a.line.retention.passed \subseteq c.selection.passed
  /\ \A c \in harness.selected :
       c.selection.passed = Introduced(c.selection.stage) /\ \E r \in Roots : c \in disk[r]

(* A harness fails only for a process that failed, a check that regressed or,  *)
(* in training, a member that ran through its budget and was judged, at every  *)
(* checkpoint due, to be none that may be selected: never because a whole run  *)
(* is taken for a broken one (run_m22_recovery.py parse_output, compare_run).  *)
FailsOnlyForCause ==
  harness.status = "FAIL" =>
    \/ faulted
    \/ \E a \in printed : a.line.ran /\ a.line.retention.catastrophic
    \/ /\ harness.kind = "training"
       /\ \E m \in Members : \A u \in {n \in 1 .. Budget : n % SaveEvery = 0} : \E a \in printed :
            a.member = m /\ a.line.update = u /\ ~a.line.retention.eligible

=============================================================================
